----------------------------- MODULE SessionStreams ----------------------------
(***************************************************************************)
(* The two streams of a session: ControlExchange beside InputStream.  Each *)
(* process has a thread per stream and a flag by which the end of one      *)
(* thread ends the other (HostBridge in bridge.rs, run_attached_session in *)
(* crosspuck-app/src/runtime.rs).  What the bytes of their frames say is   *)
(* Payloads.                                                               *)
(***************************************************************************)
EXTENDS ControlExchange, Payloads

CONSTANTS
  ReportLengths,  \* payload lengths of input reports
  MaxReports      \* bound on the reports of the session

\* A report is never shorter than a header: interface, role, length and time
\* stamp are 12 bytes before the data.
ASSUME ReportAssumption ==
  ReportLengths \subseteq Nat \ (0..HeaderLen - 1) /\ MaxReports \in Nat

VARIABLES writer, sent, reportLength, stream, taken, pump, pushed

Input == INSTANCE InputStream WITH
           Lengths <- ReportLengths, hpc <- writer, length <- reportLength, gpc <- pump

inputVars  == <<writer, sent, reportLength, stream, taken, pump, pushed>>
streamVars == <<vars, inputVars>>

StreamsInit == Init /\ Input!Init

\* input_running, which the control loop clears when it ends.
WriterStops == hpc = "closed" /\ Input!ReadFails

\* HostBridge's running flag, which the command worker clears when it ends.
PumpStops == gpc = "closed" /\ Input!PumpStops

InputStep ==
  \/ Input!HostStep
  \/ Input!PumpReads \/ Input!PumpTimesOut \/ Input!PumpSeesEnd
  \/ PumpStops

\* A pump that failed is a read error, and the connection runtime drops an
\* unhealthy bridge.
UnhealthyDropped == pump = "closed" /\ BridgeDropped

\* The control loop looks at input_running before every frame.
HostSeesWriterEnd == writer = "closed" /\ HostLeaves

StreamsNext ==
  \/ Next /\ UNCHANGED inputVars
  \/ InputStep /\ UNCHANGED vars

GuestRuns == SendPayload \/ SendFails \/ GuestReads \/ GuestTimesOut \/ UnhealthyDropped
HostRuns  == \/ HostReads \/ HostTimesOut \/ HostSeesEnd \/ HostAnswerFails \/ HostSeesWriterEnd
             \/ \E len \in Lengths : HostAnswers(len)

\* The four threads and the connection runtime run, and timeouts come.  No
\* caller has to send anything, the controller need not report anything, and
\* nobody has to end the session.
StreamsSpec ==
  /\ StreamsInit /\ [][StreamsNext]_streamVars
  /\ WF_streamVars(GuestRuns /\ UNCHANGED inputVars)
  /\ WF_streamVars(HostRuns /\ UNCHANGED inputVars)
  /\ WF_streamVars((Input!WritePayload \/ Input!WriteFails \/ WriterStops) /\ UNCHANGED vars)
  /\ WF_streamVars((Input!PumpReads \/ Input!PumpTimesOut \/ Input!PumpSeesEnd \/ PumpStops)
                     /\ UNCHANGED vars)

-----------------------------------------------------------------------------
(* Properties *)

\* A timeout in the middle of a frame loses what was read of it, and the
\* session with it: no request is executed after a lost one and none twice, and
\* the pump never goes on behind a gap, where a button would stay pressed, nor
\* hands on a report twice, out of order or put together from two.
StreamsInSequence == CommandsInSequence /\ Input!NoSilentGap

Ended == {gpc, hpc, writer, pump} = {"closed"}

\* A session ends as a whole: whichever thread on whichever side ends first,
\* and whatever is on the way, the other three follow, and both processes are
\* free for the next session.
SessionEndsWhole == ("closed" \in {gpc, hpc, writer, pump}) ~> Ended

\* What the frames of a session may carry comes out as it went in, and a part
\* of it is refused (MessagesRoundTrip).  It speaks of the messages and not of
\* how far the session is, so it is looked at where a session begins.
PayloadsRoundTrip == StreamsInit => MessagesRoundTrip
=============================================================================
