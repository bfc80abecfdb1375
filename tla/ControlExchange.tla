---------------------------- MODULE ControlExchange ----------------------------
(***************************************************************************)
(* Requests and answers on the control stream of a session: the command    *)
(* worker of the guest (GuestControl::control_request in guest.rs, called  *)
(* by process_command in bridge.rs) and run_control_loop of the host       *)
(* (crosspuck-app/src/runtime.rs).  Both read with a timeout.  The host    *)
(* takes a timeout for silence and reads on; for the guest it is the end   *)
(* of the session.                                                         *)
(***************************************************************************)
EXTENDS FrameStream

CONSTANTS
  Lengths,      \* payload lengths: a GET_FEATURE is shorter than a header
  LastId,       \* request ids wrap after it to 1: 2^32 - 1 in the program
  MaxRequests   \* bound on the requests of the session

ASSUME ExchangeAssumption ==
  Lengths \subseteq Nat \ {0} /\ LastId \in Nat \ {0} /\ MaxRequests \in Nat

VARIABLES
  gpc,       \* the command worker: "idle", "sending", "waiting", "closed"
  request,   \* its current request, counted from 1
  length,    \* the payload length of that request
  accepted,  \* the request that the last accepted answer was for
  gtaken,    \* what the guest's read_frame has taken
  up, down,  \* bytes on the way to the host and to the guest
  hpc,       \* the control loop: "reading", "answering", "closed"
  htaken,    \* what the host's read_frame has taken
  serving,   \* the request the host is answering
  executed   \* the requests the backend has executed, in order

guestVars == <<gpc, request, length, accepted, gtaken>>
hostVars  == <<hpc, htaken, serving, executed>>
vars      == <<guestVars, hostVars, up, down>>

Init ==
  /\ gpc = "idle" /\ request = 0 /\ length = 0 /\ accepted = 0 /\ gtaken = <<>>
  /\ hpc = "reading" /\ htaken = <<>> /\ serving = 0 /\ executed = <<>>
  /\ up = <<>> /\ down = <<>>

\* next_request_id: wrapping_add(1).max(1).
RequestId(n) == ((n - 1) % LastId) + 1

-----------------------------------------------------------------------------
(* The guest *)

GuestCloses == gpc' = "closed" /\ UNCHANGED <<request, length, accepted, gtaken>>

\* control_request writes the header and then the payload.
SendHeader(len) ==
  /\ gpc = "idle" /\ request < MaxRequests
  /\ request' = request + 1
  /\ length' = len
  /\ gtaken' = <<>>
  /\ gpc' = "sending"
  /\ up' = up \o Header(request + 1, len)
  /\ UNCHANGED <<accepted, hostVars, down>>

SendPayload ==
  /\ gpc = "sending"
  /\ up' = up \o Payload(request, length)
  /\ gpc' = "waiting"
  /\ UNCHANGED <<request, length, accepted, gtaken, hostVars, down>>

\* A write to a socket that the host has closed fails.
SendFails ==
  /\ gpc = "sending" /\ hpc = "closed"
  /\ GuestCloses
  /\ UNCHANGED <<hostVars, up, down>>

\* read_frame, and what control_request does with the answer: any error is
\* one after which process_command ends the bridge.
GuestReads ==
  /\ gpc = "waiting" /\ down # <<>>
  /\ LET taken == Taken(down, gtaken)
     IN  IF ~Decodes(taken)
         THEN GuestCloses
         ELSE IF ~Complete(taken)
         THEN gtaken' = taken /\ UNCHANGED <<gpc, request, length, accepted>>
         ELSE IF RequestId(taken[1].frame) # RequestId(request)
         THEN GuestCloses
         ELSE /\ accepted' = taken[1].frame
              /\ gpc' = "idle"
              /\ UNCHANGED <<request, length, gtaken>>
  /\ down' = Left(down, gtaken)
  /\ UNCHANGED <<hostVars, up>>

\* Fault: a request that was not answered in time is given up, no more.
GuestGivesUpRequest ==
  /\ gpc = "waiting" /\ down = <<>>
  /\ gpc' = "idle"
  /\ UNCHANGED <<request, length, accepted, gtaken, hostVars, up, down>>

\* The transport timeout, the end of the stream, or a reset by a host that
\* left bytes unread, which may overtake an answer.
GuestTimesOut ==
  /\ gpc = "waiting" /\ (down = <<>> \/ hpc = "closed")
  /\ GuestCloses
  /\ UNCHANGED <<hostVars, up, down>>

\* HostBridge is dropped: a failed input pump, a clear or a stop.
BridgeDropped ==
  /\ gpc = "idle"
  /\ GuestCloses
  /\ UNCHANGED <<hostVars, up, down>>

-----------------------------------------------------------------------------
(* The host *)

HostCloses == hpc' = "closed" /\ UNCHANGED <<htaken, serving, executed>>

HostReads ==
  /\ hpc = "reading" /\ up # <<>>
  /\ LET taken == Taken(up, htaken)
     IN  IF ~Decodes(taken)
         THEN HostCloses
         ELSE IF ~Complete(taken)
         THEN htaken' = taken /\ UNCHANGED <<hpc, serving, executed>>
         ELSE /\ executed' = Append(executed, taken[1].frame)
              /\ serving' = taken[1].frame
              /\ htaken' = <<>>
              /\ hpc' = "answering"
  /\ up' = Left(up, htaken)
  /\ UNCHANGED <<guestVars, down>>

\* Err(timeout) => continue: what was taken of a frame is gone.
HostTimesOut ==
  /\ hpc = "reading" /\ up = <<>> /\ gpc # "closed"
  /\ htaken' = <<>>
  /\ UNCHANGED <<hpc, serving, executed, guestVars, up, down>>

\* Fault: the end of the stream is passed over, like a timeout.
HostSeesEndTolerated ==
  /\ hpc = "reading" /\ up = <<>> /\ gpc = "closed"
  /\ htaken' = <<>>
  /\ UNCHANGED <<hpc, serving, executed, guestVars, up, down>>

\* is_disconnect: the guest's end is closed and everything is read.
HostSeesEnd ==
  /\ hpc = "reading" /\ up = <<>> /\ gpc = "closed"
  /\ HostCloses
  /\ UNCHANGED <<guestVars, up, down>>

\* The answer carries the request's id; its two writes reach a guest that
\* reads with the same loop either way, so they are one step.
HostAnswers(len) ==
  /\ hpc = "answering" /\ gpc # "closed"
  /\ down' = down \o Header(serving, len) \o Payload(serving, len)
  /\ hpc' = "reading"
  /\ UNCHANGED <<htaken, serving, executed, guestVars, up>>

HostAnswerFails ==
  /\ hpc = "answering" /\ gpc = "closed"
  /\ HostCloses
  /\ UNCHANGED <<guestVars, up, down>>

\* Reconnect, stop, or the end of the input stream.
HostLeaves ==
  /\ hpc = "reading" /\ htaken = <<>>
  /\ HostCloses
  /\ UNCHANGED <<guestVars, up, down>>

GuestStep == \/ \E len \in Lengths : SendHeader(len)
             \/ SendPayload \/ SendFails \/ GuestReads \/ GuestTimesOut \/ BridgeDropped
HostStep  == \/ HostReads \/ HostTimesOut \/ HostSeesEnd \/ HostAnswerFails \/ HostLeaves
             \/ \E len \in Lengths : HostAnswers(len)

Next == GuestStep \/ HostStep

Spec == Init /\ [][Next]_vars

-----------------------------------------------------------------------------
(* Properties *)

\* Although a timeout may cost the host the beginning of a request, no request
\* is executed after one that was lost, none twice, and nothing that was not
\* sent: the executed ones are the first ones, in order.
CommandsInSequence == \A i \in 1..Len(executed) : executed[i] = i

\* The answer that a caller gets is the answer to its own request, also when
\* ids have wrapped: a late answer never meets a later request.
AnswerBelongsToRequest == [][accepted' # accepted => accepted' = request]_vars
=============================================================================
