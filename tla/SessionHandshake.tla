-------------------------- MODULE SessionHandshake --------------------------
(***************************************************************************)
(* How a guest and the host pair a control and an input connection into    *)
(* one session: the host's accept loop (crosspuck-app/src/runtime.rs), the *)
(* guest's GuestTransportClient::connect (crosspuck-core/src/guest.rs) and *)
(* the backlogs of the two TCP listeners between them.                     *)
(*                                                                         *)
(* Time is counted in ticks and passes only while both processes wait: a   *)
(* step of a running process takes no tick.  A process that does not run   *)
(* when it could (a suspended Steam, a slow device open) is one of the     *)
(* faults, each with a bound.  A guest runs one attempt at a time (see     *)
(* GuestConnection), so "live" means "of the attempt in progress".         *)
(***************************************************************************)
EXTENDS Integers, Sequences, SequencesExt

CONSTANTS
  HandshakeTimeout,  \* the guest's read timeout while connecting: 2 s
  InputAttachTimeout,\* INPUT_ATTACH_TIMEOUT of the host: 3 s
  RetryInterval,     \* the guest's reconnect interval: 1 s
  MaxSessionId,      \* session ids wrap here: 2^32 - 1 in the program
  MaxStalls,         \* bound: times the guest process is suspended
  MaxSlowOpens,      \* bound: times opening the HID device is slow
  MaxCrashes,        \* bound: times Steam is killed and started again
  MaxQuits           \* bound: times CrossPuck quits and is started again

ASSUME TimesAssumption ==
  {HandshakeTimeout, InputAttachTimeout, RetryInterval} \subseteq Nat \ {0}
ASSUME SessionIdAssumption == MaxSessionId \in Nat \ {0}
ASSUME BudgetAssumption == {MaxStalls, MaxSlowOpens, MaxCrashes, MaxQuits} \subseteq Nat

VARIABLES
  hpc,       \* where the host is: "down", "accept", "select", "attach", "attached"
  hctl,      \* the peer of the control stream it serves: "none", "live", "dead"
  hin,       \* the peer of the attached input stream, likewise
  sid,       \* the session id of the session it serves
  nextId,    \* next_session_id
  htime,     \* ticks until the host's current deadline
  ctlQ,      \* accepted-not-yet control connections, TRUE: live
  inQ,       \* the same for input, with the session id in their InputAttach
  gpc,       \* where the guest is: "retry", "hello", "input", "attach", "attached"
  gid,       \* the session id the guest was given
  gtime,     \* ticks until the guest's current deadline
  reply,     \* the answer in the socket the guest reads: "none", "ok", "refused"
  eof,       \* the host has closed that socket
  stall,     \* ticks the guest stays suspended
  budget     \* faults left, by kind

hostVars  == <<hpc, hctl, hin, sid, nextId, htime>>
queueVars == <<ctlQ, inQ>>
guestVars == <<gpc, gid, gtime, reply, eof>>
vars == <<hostVars, queueVars, guestVars, stall, budget>>

SessionIds == 1 .. MaxSessionId

\* wrapping_add(1).max(1).
Successor(id) == IF id = MaxSessionId THEN 1 ELSE id + 1

Down(t) == IF t = 0 THEN 0 ELSE t - 1

Init ==
  /\ hpc = "accept" /\ hctl = "none" /\ hin = "none"
  /\ sid = 1 /\ nextId = 1 /\ htime = 0
  /\ ctlQ = <<>> /\ inQ = <<>>
  /\ gpc = "retry" /\ gid = 1 /\ gtime = 0
  /\ reply = "none" /\ eof = FALSE /\ stall = 0
  /\ budget = [stall |-> MaxStalls, slow |-> MaxSlowOpens,
               crash |-> MaxCrashes, quit |-> MaxQuits]

Spend(kind) == budget[kind] > 0 /\ budget' = [budget EXCEPT ![kind] = @ - 1]

-----------------------------------------------------------------------------
(* The guest: GuestTransportClient::connect *)

GuestRuns == stall = 0

Killed(peer) == IF peer = "live" THEN "dead" ELSE peer

\* Leaving connect(), or dropping the session, closes both of its sockets.
\* What was sent on them stays readable, in the backlog too.
CloseSockets ==
  /\ ctlQ' = [i \in DOMAIN ctlQ |-> FALSE]
  /\ inQ' = [i \in DOMAIN inQ |-> [inQ[i] EXCEPT !.live = FALSE]]
  /\ hctl' = Killed(hctl)
  /\ hin' = Killed(hin)

GuestFails(delay) ==
  /\ CloseSockets
  /\ gpc' = "retry" /\ gtime' = delay /\ reply' = "none" /\ eof' = FALSE
  /\ UNCHANGED <<hpc, sid, nextId, htime, gid>>

\* TCP connect, then Hello: the connection is in the backlog, Hello in it.
ConnectControl ==
  /\ GuestRuns /\ gpc = "retry" /\ gtime = 0 /\ hpc # "down"
  /\ ctlQ' = Append(ctlQ, TRUE)
  /\ gpc' = "hello" /\ gtime' = HandshakeTimeout
  /\ UNCHANGED <<hostVars, inQ, gid, reply, eof, stall, budget>>

ConnectRefused ==
  /\ GuestRuns /\ hpc = "down"
  /\ \/ gpc = "retry" /\ gtime = 0
     \/ gpc = "input"
  /\ GuestFails(RetryInterval)
  /\ UNCHANGED <<stall, budget>>

\* HelloOk and Identity were read.
HelloAnswered ==
  /\ GuestRuns /\ gpc = "hello" /\ reply = "ok"
  /\ gpc' = "input" /\ reply' = "none" /\ eof' = FALSE
  /\ UNCHANGED <<hostVars, queueVars, gid, gtime, stall, budget>>

\* Input connect and InputAttach.  Nothing looks at the control stream here.
ConnectInput ==
  /\ GuestRuns /\ gpc = "input" /\ hpc # "down"
  /\ inQ' = Append(inQ, [id |-> gid, live |-> TRUE])
  /\ gpc' = "attach" /\ gtime' = HandshakeTimeout
  /\ UNCHANGED <<hostVars, ctlQ, gid, reply, eof, stall, budget>>

AttachAnswered ==
  /\ GuestRuns /\ gpc = "attach" /\ reply = "ok"
  /\ gpc' = "attached" /\ reply' = "none"
  /\ UNCHANGED <<hostVars, queueVars, gid, gtime, eof, stall, budget>>

\* A refusal, the end of the stream, or the read timeout ends the attempt.
AttemptFails ==
  /\ GuestRuns /\ gpc \in {"hello", "attach"}
  /\ reply = "refused" \/ (reply = "none" /\ (eof \/ gtime = 0))
  /\ GuestFails(RetryInterval)
  /\ UNCHANGED <<stall, budget>>

\* The input pump's read fails: the worker retires the bridge and reconnects.
SessionLost ==
  /\ GuestRuns /\ gpc = "attached" /\ eof
  /\ GuestFails(0)
  /\ UNCHANGED <<stall, budget>>

\* Steam is killed and started again.
GuestCrash ==
  /\ Spend("crash")
  /\ GuestFails(0)
  /\ UNCHANGED stall

\* The guest process is suspended, for longer than any deadline.
GuestStall ==
  /\ GuestRuns /\ Spend("stall")
  /\ stall' = HandshakeTimeout + InputAttachTimeout
  /\ UNCHANGED <<hostVars, queueVars, guestVars>>

-----------------------------------------------------------------------------
(* The host: run_accept_loop and handle_session *)

\* Fault: a stream outlives its session.
EndSessionLeakingStreams ==
  /\ hpc' = "accept" /\ hctl' = "none" /\ hin' = "none" /\ htime' = 0
  /\ UNCHANGED <<sid, nextId, guestVars>>

\* The session's streams are dropped.  A guest notices on the socket it reads:
\* control until HelloOk, then input.
EndSession ==
  /\ hpc' = "accept" /\ hctl' = "none" /\ hin' = "none" /\ htime' = 0
  /\ eof' = \/ eof
            \/ gpc = "hello" /\ hctl = "live"
            \/ gpc \in {"attach", "attached"} /\ hin = "live"
  /\ UNCHANGED <<sid, nextId, gpc, gid, gtime, reply>>

\* Accept control, take the next session id, read Hello.  Opening the backend
\* may take longer than the guest waits.
AcceptControl ==
  /\ hpc = "accept" /\ ctlQ # <<>>
  /\ hctl' = IF Head(ctlQ) THEN "live" ELSE "dead"
  /\ ctlQ' = Tail(ctlQ)
  /\ sid' = nextId /\ nextId' = Successor(nextId)
  /\ hpc' = "select"
  /\ \/ htime' = 0 /\ UNCHANGED budget
     \/ Spend("slow") /\ htime' = HandshakeTimeout + 1
  /\ UNCHANGED <<hin, inQ, guestVars, stall>>

\* HelloOk and Identity are written.  Writing to a closed peer may succeed.
WritePreamble ==
  /\ hpc = "select" /\ htime = 0
  /\ hpc' = "attach" /\ htime' = InputAttachTimeout
  /\ IF hctl = "live" THEN reply' = "ok" /\ gid' = sid ELSE UNCHANGED <<reply, gid>>
  /\ UNCHANGED <<hctl, hin, sid, nextId, queueVars, gpc, gtime, eof, stall, budget>>

\* The closed peer answers HelloOk with a reset, and Identity fails.
PreambleFails ==
  /\ hpc = "select" /\ htime = 0 /\ hctl = "dead"
  /\ EndSession
  /\ UNCHANGED <<queueVars, stall, budget>>

\* Fault: any InputAttach is taken for this session's.
AcceptAnyInput ==
  /\ hpc = "attach" /\ inQ # <<>>
  /\ inQ' = Tail(inQ)
  /\ hpc' = "attached" /\ htime' = 0
  /\ hin' = IF Head(inQ).live THEN "live" ELSE "dead"
  /\ reply' = IF Head(inQ).live THEN "ok" ELSE reply
  /\ UNCHANGED <<hctl, sid, nextId, ctlQ, gpc, gid, gtime, eof, stall, budget>>

\* accept_input takes the oldest connection, whoever made it.  An InputAttach
\* for another session is refused, and the session that waited ends with it.
AcceptInput ==
  /\ hpc = "attach" /\ inQ # <<>>
  /\ inQ' = Tail(inQ)
  /\ LET input == Head(inQ)
         told(answer) == IF input.live THEN answer ELSE reply
     IN IF input.id = sid
          THEN /\ hpc' = "attached" /\ htime' = 0
               /\ hin' = IF input.live THEN "live" ELSE "dead"
               /\ reply' = told("ok")
               /\ UNCHANGED hctl
          ELSE /\ hpc' = "accept" /\ htime' = 0
               /\ hctl' = "none" /\ hin' = "none"
               /\ reply' = told("refused")
  /\ UNCHANGED <<sid, nextId, ctlQ, gpc, gid, gtime, eof, stall, budget>>

\* Fault: the host waits for an input connection without a deadline.
AttachWaitsForever ==
  /\ hpc = "attach" /\ inQ = <<>> /\ htime = 0
  /\ UNCHANGED vars

AttachTimeout ==
  /\ hpc = "attach" /\ inQ = <<>> /\ htime = 0
  /\ EndSession
  /\ UNCHANGED <<queueVars, stall, budget>>

\* The control or the input stream broke, or a reconnect was requested.
EndAttached ==
  /\ hpc = "attached"
  /\ EndSession
  /\ UNCHANGED <<queueVars, stall, budget>>

\* The application quits: every socket closes, the backlogs with them.
HostQuit ==
  /\ hpc # "down" /\ Spend("quit")
  /\ hpc' = "down" /\ hctl' = "none" /\ hin' = "none"
  /\ ctlQ' = <<>> /\ inQ' = <<>>
  /\ htime' = 1
  /\ eof' = (gpc \in {"hello", "attach", "attached"})
  /\ UNCHANGED <<sid, nextId, gpc, gid, gtime, reply, stall>>

\* A new process listens and numbers its sessions from 1 again.
HostStart ==
  /\ hpc = "down" /\ htime = 0
  /\ hpc' = "accept" /\ nextId' = 1
  /\ UNCHANGED <<hctl, hin, sid, htime, queueVars, guestVars, stall, budget>>

-----------------------------------------------------------------------------

HostWaits ==
  \/ hpc \in {"down", "select"} /\ htime > 0
  \/ hpc = "accept" /\ ctlQ = <<>>
  \/ hpc = "attach" /\ inQ = <<>> /\ htime > 0
  \/ hpc = "attached" /\ hctl = "live"

GuestWaits ==
  \/ stall > 0
  \/ gpc = "retry" /\ gtime > 0
  \/ gpc \in {"hello", "attach"} /\ reply = "none" /\ ~eof /\ gtime > 0
  \/ gpc = "attached" /\ ~eof

\* Time passes for both; a stalled guest's deadlines go on running.
Tick ==
  /\ HostWaits /\ GuestWaits
  /\ htime' = Down(htime) /\ gtime' = Down(gtime) /\ stall' = Down(stall)
  /\ UNCHANGED <<hpc, hctl, hin, sid, nextId, queueVars, gpc, gid, reply, eof, budget>>

GuestStep ==
  \/ ConnectControl \/ ConnectRefused \/ HelloAnswered \/ ConnectInput
  \/ AttachAnswered \/ AttemptFails \/ SessionLost

HostStep ==
  \/ AcceptControl \/ WritePreamble \/ PreambleFails \/ AcceptInput
  \/ AttachTimeout \/ HostStart
  \/ hctl = "dead" /\ EndAttached

Faults == GuestCrash \/ GuestStall \/ HostQuit

Next == GuestStep \/ HostStep \/ EndAttached \/ Faults \/ Tick

\* Both processes and the clock run.  A peer that closed does answer with a
\* reset, so not every write to a closed control stream succeeds for ever.
Fairness ==
  /\ WF_vars(GuestStep) /\ WF_vars(HostStep) /\ WF_vars(Tick)
  /\ SF_vars(PreambleFails)

Spec == Init /\ [][Next]_vars
FairSpec == Spec /\ Fairness

-----------------------------------------------------------------------------
(* Properties *)

Stalled   == budget.stall < MaxStalls
Restarted == budget.quit < MaxQuits

\* The two streams of a session come from one attempt of one guest: the host
\* never serves a live guest's commands while sending its input to a socket
\* that an earlier attempt left behind.  It takes a restart of the host, which
\* numbers its sessions from 1 again, and a suspended guest that attaches with
\* an id of the old process, to break that.
StreamsOfOneAttempt ==
  hpc = "attached" /\ hctl = "live" /\ ~(Stalled /\ Restarted) => hin = "live"

\* A guest that takes its session for attached is served on both streams by a
\* session with its id, unless the end of that session is about to reach it.
GuestAttachedIsServed ==
  gpc = "attached" /\ ~eof =>
    hpc = "attached" /\ hctl = "live" /\ hin = "live" /\ gid = sid

Connected == hpc = "attached" /\ hctl = "live" /\ hin = "live"

\* "Starting or restarting CrossPuck while Steam is running automatically
\* reconnects the controller": whatever ended a session or an attempt, a
\* session that serves the running guest on both streams comes again.
Reconnects == []<>Connected

\* What holds of that promise: slow devices, killed guests and restarted hosts
\* never prevent it; only a guest suspended inside its handshake may.
ReconnectsUnlessStalled == []~Stalled => Reconnects

=============================================================================
