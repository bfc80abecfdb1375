------------------------------ MODULE InputStream ------------------------------
(***************************************************************************)
(* Input reports on the input stream of a session: the host's input thread *)
(* (spawn_input_stream in crosspuck-app/src/runtime.rs) writes them, the   *)
(* pump of HostBridge (spawn_input_pump in bridge.rs) reads them with a    *)
(* timeout of 50 ms that it tolerates, in the middle of a frame as well.   *)
(***************************************************************************)
EXTENDS FrameStream

CONSTANTS
  Lengths,     \* payload lengths, none shorter than a header
  MaxReports   \* bound on the reports of the session

VARIABLES
  hpc,      \* the input thread: "reading", "writing", "closed"
  sent,     \* the reports whose header is written
  length,   \* the payload length of the last of them
  stream,   \* bytes on the way
  taken,    \* what the pump's read_frame has taken
  gpc,      \* the pump: "reading", "closed"
  pushed    \* the reports pushed to the input queue

hostVars  == <<hpc, sent, length>>
guestVars == <<taken, gpc, pushed>>
vars      == <<hostVars, stream, guestVars>>

Init ==
  /\ hpc = "reading" /\ sent = 0 /\ length = 0
  /\ stream = <<>>
  /\ taken = <<>> /\ gpc = "reading" /\ pushed = <<>>

-----------------------------------------------------------------------------
(* The host's input thread *)

WriteHeader(len) ==
  /\ hpc = "reading" /\ gpc # "closed" /\ sent < MaxReports
  /\ sent' = sent + 1
  /\ length' = len
  /\ stream' = stream \o Header(sent + 1, len)
  /\ hpc' = "writing"
  /\ UNCHANGED guestVars

WritePayload ==
  /\ hpc = "writing" /\ gpc # "closed"
  /\ stream' = stream \o Payload(sent, length)
  /\ hpc' = "reading"
  /\ UNCHANGED <<sent, length, guestVars>>

\* The write timeout of a suspended guest, or a guest that is gone: a part of
\* the frame may be on its way, and nothing follows it.
WriteFails ==
  /\ hpc = "writing"
  /\ \E n \in 0..length - 1 : stream' = stream \o SubSeq(Payload(sent, length), 1, n)
  /\ hpc' = "closed"
  /\ UNCHANGED <<sent, length, guestVars>>

\* The device is gone, or the session ends.
ReadFails ==
  /\ hpc = "reading"
  /\ hpc' = "closed"
  /\ UNCHANGED <<sent, length, stream, guestVars>>

-----------------------------------------------------------------------------
(* The guest's input pump *)

\* Fault: every error is passed over, like a timeout.
PumpReadsOn ==
  /\ gpc = "reading" /\ stream # <<>>
  /\ LET now == Taken(stream, taken)
     IN  IF ~Decodes(now)
         THEN taken' = <<>> /\ UNCHANGED <<gpc, pushed>>
         ELSE IF Complete(now)
         THEN taken' = <<>> /\ pushed' = Append(pushed, now[1].frame) /\ UNCHANGED gpc
         ELSE taken' = now /\ UNCHANGED <<gpc, pushed>>
  /\ stream' = Left(stream, taken)
  /\ UNCHANGED hostVars

\* Err(_) => return, which closes the stream.
PumpReads ==
  /\ gpc = "reading" /\ stream # <<>>
  /\ LET now == Taken(stream, taken)
     IN  IF ~Decodes(now)
         THEN gpc' = "closed" /\ UNCHANGED <<taken, pushed>>
         ELSE IF Complete(now)
         THEN taken' = <<>> /\ pushed' = Append(pushed, now[1].frame) /\ UNCHANGED gpc
         ELSE taken' = now /\ UNCHANGED <<gpc, pushed>>
  /\ stream' = Left(stream, taken)
  /\ UNCHANGED hostVars

\* What was taken of a frame is gone.
PumpTimesOut ==
  /\ gpc = "reading" /\ stream = <<>> /\ hpc # "closed"
  /\ taken' = <<>>
  /\ UNCHANGED <<gpc, pushed, stream, hostVars>>

PumpCloses ==
  /\ gpc = "reading"
  /\ gpc' = "closed"
  /\ UNCHANGED <<taken, pushed, stream, hostVars>>

PumpSeesEnd == stream = <<>> /\ hpc = "closed" /\ PumpCloses

\* while running: the flag is looked at between two frames.
PumpStops == taken = <<>> /\ PumpCloses

HostStep == (\E len \in Lengths : WriteHeader(len)) \/ WritePayload \/ WriteFails \/ ReadFails
PumpStep == PumpReads \/ PumpTimesOut \/ PumpSeesEnd \/ PumpStops

Next == HostStep \/ PumpStep

Spec == Init /\ [][Next]_vars

-----------------------------------------------------------------------------
(* Properties *)

\* A timeout in the middle of a frame loses a report, and the session with it:
\* the pump never goes on behind a gap, where a button would stay pressed, and
\* hands on no report twice, out of order or put together from two.
NoSilentGap == \A i \in 1..Len(pushed) : pushed[i] = i
=============================================================================
