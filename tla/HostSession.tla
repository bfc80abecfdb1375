----------------------------- MODULE HostSession -----------------------------
(***************************************************************************)
(* The host service of the CrossPuck application (crosspuck-app/src/       *)
(* runtime.rs): the supervisor thread that listens, accepts a guest, opens *)
(* the controller and serves HID commands; the input thread of an attached *)
(* session; the menu's Force Reconnect and the application's shutdown.     *)
(* How they reach the controller, which comes and goes, is HidBackend.     *)
(*                                                                         *)
(* How a control and an input connection find each other is the subject of *)
(* SessionHandshake; here the guest is an environment that sends frames,   *)
(* is silent, or breaks a stream.                                          *)
(***************************************************************************)
EXTENDS HidBackend

VARIABLES
  stop,      \* the stop flag
  force,     \* AppState.force_reconnect
  appState,  \* the kind of HostRuntimeState the menu shows
  pc,        \* where the supervisor thread is
  running,   \* input_running of the attached session
  ipc,       \* where the input thread is; "none" when there is none
  feedback,  \* the collections that were told to rumble, not yet to stop, and
             \* that have neither gone nor refused the last word since
  requested  \* history: a reconnect was requested after the last Hello

hostVars == <<stop, force, appState, pc, running, ipc, feedback, requested>>
vars == <<hostVars, deviceVars, serveVars>>

\* Where the control loop runs, and where the session still has its thread.
Serving  == {"check", "attempt", "refresh", "failed"}
Attached == Serving \cup {"join", "cleanup"}

Init ==
  /\ stop = FALSE /\ force = FALSE
  /\ appState = "Starting" /\ pc = "bind"
  /\ running = FALSE /\ ipc = "none"
  /\ BackendInit /\ feedback = {}
  /\ requested = FALSE

-----------------------------------------------------------------------------
(* The supervisor: run_supervisor, run_accept_loop *)

Goto(label) == pc' = label

\* bind, set_nonblocking, local_addrs; a failure is retried a second later.
Bind ==
  /\ pc = "bind" /\ ~stop
  /\ \/ Goto("accept") /\ appState' = "Listening"
     \/ Goto("bind") /\ appState' = "Degraded"
  /\ UNCHANGED <<stop, force, running, ipc, deviceVars, serveVars, feedback, requested>>

\* Both loops test stop at their head, and the thread ends.
SupervisorStops ==
  /\ pc \in {"bind", "accept"} /\ stop
  /\ Goto("off") /\ appState' = "Stopping"
  /\ UNCHANGED <<stop, force, running, ipc, deviceVars, serveVars, feedback, requested>>

\* refresh_idle_puck_state, once a second while nothing is connected.
ProbePuck ==
  /\ pc = "accept" /\ ~stop
  /\ appState' = IF "PuckMain" \in attached THEN "PuckConnected" ELSE "PuckDisconnected"
  /\ UNCHANGED <<stop, force, pc, running, ipc, deviceVars, serveVars, feedback, requested>>

AcceptFails ==
  /\ pc = "accept" /\ ~stop
  /\ appState' = "Degraded"
  /\ UNCHANGED <<stop, force, pc, running, ipc, deviceVars, serveVars, feedback, requested>>

AcceptControl ==
  /\ pc = "accept" /\ ~stop
  /\ Goto("hello")
  /\ UNCHANGED <<stop, force, appState, running, ipc, deviceVars, serveVars, feedback, requested>>

\* A session that fails is shown as Degraded, except by a timeout after stop.
\* What it had opened is dropped.
SessionFails(isTimeout) ==
  /\ Goto("accept")
  /\ appState' = IF stop /\ isTimeout THEN appState ELSE "Degraded"
  /\ CloseBackend /\ CloseReaders
  /\ UNCHANGED <<stop, force, running, ipc, attached, serveVars, feedback, requested>>

\* No Hello within the read timeout, another frame, another protocol version.
HelloFails ==
  /\ pc = "hello"
  /\ \E isTimeout \in BOOLEAN : SessionFails(isTimeout)

\* Fault: old reconnect requests survive into the new session.
HelloReadKeepingRequests ==
  /\ pc = "hello"
  /\ requested' = FALSE
  /\ Goto("open")
  /\ UNCHANGED <<stop, force, appState, running, ipc, deviceVars, serveVars, feedback>>

\* A valid Hello forgets the reconnect requests made before it.
HelloRead ==
  /\ pc = "hello"
  /\ force' = FALSE /\ requested' = FALSE
  /\ Goto("open")
  /\ UNCHANGED <<stop, appState, running, ipc, deviceVars, serveVars, feedback>>

\* Both steps of opening come before HelloOk is written, and each may fail.
OpenFails ==
  /\ pc \in {"open", "openReader"}
  /\ SessionFails(FALSE)

OpenDevice ==
  /\ pc = "open"
  /\ OpenMainDevice
  /\ appState' = "PuckConnected"
  /\ Goto("openReader")
  /\ UNCHANGED <<stop, force, running, ipc, feedback, requested>>

OpenReader ==
  /\ pc = "openReader"
  /\ OpenInputReader
  /\ Goto("attach")
  /\ UNCHANGED <<stop, force, appState, running, ipc, feedback, requested>>

\* The preamble cannot be written, the input connection does not come or is
\* another session's, or stop ended the wait.
AttachFails ==
  /\ pc = "attach"
  /\ \E isTimeout \in BOOLEAN : SessionFails(isTimeout)

\* run_attached_session: the input thread is spawned, the control loop begins.
StartSession ==
  /\ pc = "attach"
  /\ appState' = "GuestConnected"
  /\ running' = TRUE /\ ipc' = "test"
  /\ Goto("check")
  /\ UNCHANGED <<stop, force, deviceVars, serveVars, feedback, requested>>

-----------------------------------------------------------------------------
(* The control loop: run_control_loop *)

\* Fault: a session being served does not look at stop.
CheckStopIgnored ==
  /\ pc = "check" /\ stop
  /\ Goto("check")
  /\ UNCHANGED <<stop, force, appState, running, ipc, deviceVars, serveVars, feedback, requested>>

\* stop, then the reconnect request (taken), then the input stream's end.
CheckStop ==
  /\ pc = "check" /\ stop
  /\ Goto("join")
  /\ UNCHANGED <<stop, force, appState, running, ipc, deviceVars, serveVars, feedback, requested>>

\* Fault: the request is taken and the session goes on.
TakeReconnectRequestOnly ==
  /\ pc = "check" /\ ~stop /\ force
  /\ force' = FALSE
  /\ Goto("check")
  /\ UNCHANGED <<stop, appState, running, ipc, deviceVars, serveVars, feedback, requested>>

TakeReconnectRequest ==
  /\ pc = "check" /\ ~stop /\ force
  /\ force' = FALSE
  /\ Goto("join")
  /\ UNCHANGED <<stop, appState, running, ipc, deviceVars, serveVars, feedback, requested>>

\* Fault: the end of the input stream is not looked at.
InputOverIgnored ==
  /\ pc = "check" /\ ~stop /\ ~force /\ ~running
  /\ Goto("check")
  /\ UNCHANGED <<stop, force, appState, running, ipc, deviceVars, serveVars, feedback, requested>>

InputOver ==
  /\ pc = "check" /\ ~stop /\ ~force /\ ~running
  /\ Goto("join")
  /\ UNCHANGED <<stop, force, appState, running, ipc, deviceVars, serveVars, feedback, requested>>

\* The read timeout, or the end of the stream or an error.
NoCommand ==
  /\ pc = "check" /\ ~stop /\ ~force /\ running
  /\ \E next \in {"check", "join"} : Goto(next)
  /\ UNCHANGED <<stop, force, appState, running, ipc, deviceVars, serveVars, feedback, requested>>

ReadCommand ==
  /\ pc = "check" /\ ~stop /\ ~force /\ running
  /\ Receive
  /\ Goto("attempt")
  /\ UNCHANGED <<stop, force, appState, running, ipc, feedback, requested>>

\* The device of an interface is opened when it is first used.
OpenForCommand ==
  /\ pc = "attempt"
  /\ OpenInterface
  /\ UNCHANGED hostVars

OpenForCommandFails ==
  /\ pc = "attempt"
  /\ CannotOpen
  /\ Goto("failed")
  /\ UNCHANGED <<stop, force, appState, running, ipc, feedback, requested>>

\* Fault: an error returns from the session at once.
AnsweredOrGone == Forget /\ \E next \in {"check", "accept"} : Goto(next)

\* An answer ends the command, and the loop if it cannot be written.
Answered == Forget /\ \E next \in {"check", "join"} : Goto(next)

\* The controller takes the command, which may start or stop feedback through
\* the interface it was sent to.
AttemptSucceeds ==
  /\ pc = "attempt"
  /\ Handle = "good"
  /\ Answered
  /\ feedback' \in {feedback \cup {target}, feedback \ {target}}
  /\ UNCHANGED <<stop, force, appState, running, ipc, requested>>

\* It does not, and is tried again.
AttemptFails ==
  /\ pc = "attempt"
  /\ NotTaken
  /\ Goto(IF target = "PuckMain" THEN "refresh"
          ELSE IF attempt' < Attempts THEN "attempt" ELSE "failed")
  /\ UNCHANGED <<stop, force, appState, running, ipc, feedback, requested>>

\* A feature command to a radio that is not ready is called done, although it
\* failed (should_accept_transient_set_feature_error).
FailureAccepted ==
  /\ pc = "attempt"
  /\ Handle # "none"
  /\ Answered
  /\ UNCHANGED <<stop, force, appState, running, ipc, feedback, requested>>

\* Fault: the main device is opened again only for the next command.
RefreshOnce ==
  /\ pc = "refresh"
  /\ IF attempt < Attempts THEN UNCHANGED <<deviceVars, serveVars>> ELSE RefreshMain
  /\ Goto(IF attempt < Attempts THEN "attempt" ELSE "failed")
  /\ UNCHANGED <<stop, force, appState, running, ipc, feedback, requested>>

Refresh ==
  /\ pc = "refresh"
  /\ RefreshMain
  /\ Goto(IF attempt < Attempts THEN "attempt" ELSE "failed")
  /\ UNCHANGED <<stop, force, appState, running, ipc, feedback, requested>>

AnswerFailure ==
  /\ pc = "failed"
  /\ Answered
  /\ UNCHANGED <<stop, force, appState, running, ipc, feedback, requested>>

\* The loop's result is kept until the input thread is joined: a failed loop
\* takes the same way out as one that ended.
JoinInput ==
  /\ pc = "join"
  /\ IF ipc = "done" THEN ipc' = "none" /\ Goto("cleanup") ELSE UNCHANGED <<ipc, pc>>
  /\ running' = FALSE
  /\ UNCHANGED <<stop, force, appState, deviceVars, serveVars, feedback, requested>>

\* cleanup_feedback: one attempt on the command device's current handle, which
\* is neither refreshed nor tried again.  The other interfaces are told nothing.
CleanupFeedback ==
  /\ pc = "cleanup"
  /\ feedback' = IF command = "good" THEN feedback \ {"PuckMain"} ELSE feedback
  /\ CloseBackend
  /\ \E shown \in {"PuckConnected", "Degraded"} : appState' = shown
  /\ Goto("accept")
  /\ UNCHANGED <<stop, force, running, ipc, attached, readers, next_index, serveVars, requested>>

-----------------------------------------------------------------------------
(* The input thread: spawn_input_stream *)

\* The reader goes with the thread.
InputEnds == running' = FALSE /\ ipc' = "done" /\ CloseReaders

InputTest ==
  /\ ipc = "test" /\ running
  /\ ipc' = "read"
  /\ UNCHANGED <<stop, force, appState, pc, running, deviceVars, serveVars, feedback, requested>>

InputStops ==
  /\ ipc = "test" /\ ~running
  /\ InputEnds
  /\ UNCHANGED <<stop, force, appState, pc, attached, command, cached, serveVars, feedback, requested>>

\* The deadline of read_report, and with it running, is looked at once a round.
NextRead == IF next_index' = 0 THEN "test" ELSE "read"

InputNothing ==
  /\ ipc = "read"
  /\ ReadAnswers
  /\ ipc' = NextRead
  /\ UNCHANGED <<stop, force, appState, pc, running, feedback, requested>>

\* A report is written to the guest; that may block while errors grow old.
InputReport ==
  /\ ipc = "read"
  /\ ReadReport
  /\ ipc' = "test"
  /\ UNCHANGED <<stop, force, appState, pc, running, feedback, requested>>

InputWriteFails ==
  /\ ipc = "read" /\ Current.handle = "good"
  /\ InputEnds
  /\ UNCHANGED <<stop, force, appState, pc, attached, command, cached, serveVars, feedback, requested>>

InputErrs ==
  /\ ipc = "read"
  /\ \E grace \in Graces : ReadFails(grace) \/ ReaderRemoved(grace)
  /\ ipc' = NextRead
  /\ UNCHANGED <<stop, force, appState, pc, running, feedback, requested>>

InputGivesUp ==
  /\ ipc = "read"
  /\ EndsInput /\ \E grace \in Graces : GivesUp(grace)
  /\ InputEnds
  /\ UNCHANGED <<stop, force, appState, pc, attached, command, cached, serveVars, feedback, requested>>

-----------------------------------------------------------------------------
(* The menu, the application's exit, and the controller *)

\* The menu is gone once the application terminates.
RequestReconnect ==
  /\ ~stop
  /\ force' = TRUE /\ requested' = TRUE
  /\ UNCHANGED <<stop, appState, pc, running, ipc, deviceVars, serveVars, feedback>>

\* HostServiceHandle::shutdown waits two seconds for the thread and goes on
\* without it; nothing else of it reaches the service.
Shutdown ==
  /\ ~stop
  /\ stop' = TRUE
  /\ UNCHANGED <<force, appState, pc, running, ipc, deviceVars, serveVars, feedback, requested>>

Unplug(role) ==
  /\ Detach(role)
  /\ feedback' = feedback \ {role}
  /\ UNCHANGED <<stop, force, appState, pc, running, ipc, requested>>

Plug(role) == Attach(role) /\ UNCHANGED hostVars

Supervisor ==
  \/ Bind \/ SupervisorStops \/ ProbePuck \/ AcceptFails \/ AcceptControl
  \/ HelloFails \/ HelloRead \/ OpenFails \/ OpenDevice \/ OpenReader \/ AttachFails \/ StartSession
  \/ CheckStop \/ TakeReconnectRequest \/ InputOver \/ NoCommand \/ ReadCommand
  \/ OpenForCommand \/ OpenForCommandFails \/ AttemptSucceeds \/ AttemptFails
  \/ FailureAccepted \/ Refresh \/ AnswerFailure \/ JoinInput \/ CleanupFeedback

InputThread ==
  \/ InputTest \/ InputStops \/ InputNothing \/ InputReport \/ InputWriteFails
  \/ InputErrs \/ InputGivesUp

Next ==
  \/ Supervisor \/ InputThread
  \/ RequestReconnect \/ Shutdown
  \/ \E role \in Roles : Unplug(role) \/ Plug(role)

\* Both threads keep running: every wait of theirs has a timeout.  An idle
\* supervisor may probe for ever; nobody need connect, request or quit.
Fairness == WF_vars(Supervisor) /\ WF_vars(InputThread)

Spec == Init /\ [][Next]_vars
FairSpec == Spec /\ Fairness

-----------------------------------------------------------------------------
(* Properties *)

\* Feedback that was started through the main device does not outlast the
\* session, however the session ended and whatever was sent to the other
\* interfaces in between, unless the device went away or refused the last word.
\* Feedback started through a wireless interface does outlast it: nothing stops
\* it before a command of a later session.
FeedbackEndsWithSession == pc \notin Attached => "PuckMain" \notin feedback

\* A handle that died between two commands costs one attempt, never all: a
\* command fails only if its collection was missing, if all attempts but one
\* met a live handle that refused or a new handle that could not be had, or if
\* an interface could not be opened, for which there is no second attempt.
PresentDeviceIsReached ==
  pc = "failed" => \/ away
                   \/ refused >= Attempts - 1
                   \/ target # "PuckMain" /\ attempt < Attempts /\ refused > 0

\* "Stay on the active mode until it disconnects": no reader gives up, and none
\* ends the session, before its own handle was dead for the whole grace.  What
\* is over and forgiven does not count, nor does another collection's outage.
\* A failed reopening of a collection that is there forgives nothing.
PatientWithOutages ==
  ipc = "read" => ~\E grace \in Graces : GaveUpEarly(grace)

\* A Force Reconnect ends the session it was asked for: one left over from an
\* earlier session, or from none, does not end the next session at its start.
ReconnectEndsItsOwnSession == [][TakeReconnectRequest => requested]_vars

\* What is due to end: after quitting the service; after a Force Reconnect the
\* session that serves ("Use Advanced > Force Reconnect to end the current
\* controller session"); and one whose controller has disappeared ("End stale
\* sessions after the controller disappears").
Overdue ==
  \/ stop /\ pc # "off"
  \/ pc \in Attached /\ (requested \/ attached = {})

\* It ends, whatever the guest and the controller do meanwhile: no wait of the
\* accept loop, of the attachment, of the control loop or of the input thread
\* outlasts it, and neither a silent nor a busy guest holds it up.
EndsWhenItMust == []<>~Overdue

=============================================================================
