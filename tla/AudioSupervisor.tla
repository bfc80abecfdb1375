---------------------------- MODULE AudioSupervisor ----------------------------
(***************************************************************************)
(* The audio service of the application (crosspuck-app/src/audio/mod.rs):  *)
(* the menu's switch, the supervisor thread that starts, watches and stops *)
(* the audio helper process, and the thread that reads the helper's        *)
(* output.  They share atomic flags, a small lossy channel, and the        *)
(* supervisor's park token; there is no lock around a decision to sleep.   *)
(*                                                                         *)
(* The helper itself and the clock are the environment: how long a delay   *)
(* or a silence is (retry_delay, allowance) is left open, only that the    *)
(* supervisor sleeps until it is over.  The system is a supported one and  *)
(* the supervisor thread could be spawned.                                 *)
(***************************************************************************)
EXTENDS Naturals, Sequences

CONSTANTS
  Capacity,    \* of the channel of helper output: 32 in the program
  MaxRevision  \* bound on the uses of the switch

ASSUME CapacityAssumption == Capacity \in Nat \ {0}
ASSUME RevisionAssumption == MaxRevision \in Nat

VARIABLES
  enabled, revision, stopping, \* the atomics of Shared
  status,       \* what the menu shows
  wake,         \* the supervisor has registered its thread for unpark
  token,        \* the park token of the supervisor thread
  ui,           \* where the main thread is in set_enabled or shutdown
  pc,           \* where the supervisor is
  seen,         \* its local revision
  delayed,      \* next_start is in the future
  disconnected, \* its local variable of that name
  helper,       \* the child: "none", "running", "leaving" (output closed), "exited"
  lease,        \* its exit code is 11, another instance has the lease
  rpc,          \* where the reader thread is
  queue,        \* the channel from the reader
  sender        \* the reader's end of the channel still exists

sharedVars == <<enabled, revision, stopping>>
localVars  == <<seen, delayed, disconnected>>
helperVars == <<helper, lease>>
readerVars == <<rpc, queue, sender>>
audioVars == <<sharedVars, status, wake, token, ui, pc, localVars, helperVars, readerVars>>

\* The statuses a helper may report; "Healthy" is Waiting or Routing, and
\* "heartbeat" a line without a status.
Reported == {"Healthy", "Connecting", "Retrying", "AnotherInstance"}
Lines    == Reported \cup {"heartbeat"}

\* Shared::notify: unpark keeps a token, of a registered thread only.
Notified == token \/ wake

GoesTo(label) == pc' = label

AudioInit ==
  /\ enabled \in BOOLEAN /\ revision = 0 /\ stopping = FALSE
  /\ status = IF enabled THEN "Starting" ELSE "Off"
  /\ wake = FALSE /\ token = FALSE
  /\ ui = "idle" /\ pc = "register"
  /\ seen = 0 /\ delayed = FALSE /\ disconnected = FALSE
  /\ helper = "none" /\ lease = FALSE
  /\ rpc = "done" /\ queue = <<>> /\ sender = FALSE

-----------------------------------------------------------------------------
(* The main thread: set_enabled, shutdown *)

uiOthers == <<status, wake, pc, localVars, helperVars, readerVars>>

\* set_enabled: the flag, the revision and the notification are three steps.
SetEnabled(value) ==
  /\ ui = "idle" /\ revision < MaxRevision
  /\ enabled' = value
  /\ ui' = "revise"
  /\ UNCHANGED <<revision, stopping, token, uiOthers>>

Revise ==
  /\ ui = "revise"
  /\ revision' = revision + 1
  /\ ui' = "notify"
  /\ UNCHANGED <<enabled, stopping, token, uiOthers>>

\* Fault: the supervisor is not woken up.
NotifyNobody ==
  /\ ui \in {"notify", "stopNotify"}
  /\ ui' = IF ui = "notify" THEN "idle" ELSE "join"
  /\ UNCHANGED <<sharedVars, token, uiOthers>>

Notify ==
  /\ ui \in {"notify", "stopNotify"}
  /\ token' = Notified
  /\ ui' = IF ui = "notify" THEN "idle" ELSE "join"
  /\ UNCHANGED <<sharedVars, uiOthers>>

Shutdown ==
  /\ ui = "idle"
  /\ stopping' = TRUE
  /\ ui' = "stopNotify"
  /\ UNCHANGED <<enabled, revision, token, uiOthers>>

ShutdownJoins ==
  /\ ui = "join" /\ pc = "ended"
  /\ ui' = "returned"
  /\ UNCHANGED <<sharedVars, token, uiOthers>>

-----------------------------------------------------------------------------
(* The supervisor between two helpers *)

outside == <<sharedVars, ui, helperVars, readerVars>>

Register ==
  /\ pc = "register"
  /\ wake' = TRUE
  /\ seen' = revision
  /\ GoesTo("top")
  /\ UNCHANGED <<outside, status, token, delayed, disconnected>>

\* while !stopping; then a new revision forgets the delay.
Top ==
  /\ pc = "top"
  /\ IF stopping
       THEN GoesTo("ended") /\ status' = "Off" /\ wake' = FALSE
            /\ UNCHANGED <<seen, delayed>>
       ELSE /\ GoesTo("enabled")
            /\ seen' = revision
            /\ delayed' = (delayed /\ seen = revision)
            /\ UNCHANGED <<status, wake>>
  /\ UNCHANGED <<outside, token, disconnected>>

TestEnabled ==
  /\ pc = "enabled"
  /\ IF enabled THEN GoesTo("delay") /\ UNCHANGED status
                ELSE GoesTo("parkOff") /\ status' = "Off"
  /\ UNCHANGED <<outside, wake, token, localVars>>

TestDelay ==
  /\ pc = "delay"
  /\ GoesTo(IF delayed THEN "parkDelay" ELSE "start")
  /\ UNCHANGED <<outside, status, wake, token, localVars>>

\* The helper is missing, or it cannot be launched: try again later.
CannotStart ==
  /\ pc = "start"
  /\ status' \in {"MissingHelper", "Retrying"}
  /\ delayed' = TRUE
  /\ GoesTo("top")
  /\ UNCHANGED <<outside, wake, token, seen, disconnected>>

StartHelper ==
  /\ pc = "start"
  /\ status' = "Starting"
  /\ helper' = "running" /\ lease' = FALSE
  /\ rpc' = "read" /\ queue' = <<>> /\ sender' = TRUE
  /\ GoesTo("check")
  /\ UNCHANGED <<sharedVars, ui, wake, token, localVars>>

\* thread::park and park_timeout: the token ends them, or the time-out.
Unpark ==
  /\ pc \in {"parkOff", "parkDelay", "parkRun"}
  /\ \/ token
     \/ pc = "parkDelay" /\ ~delayed
     \/ pc = "parkRun"
  /\ token' = FALSE
  /\ GoesTo(IF pc = "parkRun" THEN "check" ELSE "top")
  /\ UNCHANGED <<outside, status, wake, localVars>>

-----------------------------------------------------------------------------
(* The supervisor while a helper runs *)

\* Fault: Off is shown before the helper is gone.
CheckShowingOff ==
  /\ pc = "check"
  /\ IF stopping \/ ~enabled THEN GoesTo("stop") /\ status' = "Off"
                             ELSE GoesTo("drain") /\ UNCHANGED status
  /\ UNCHANGED <<outside, wake, token, localVars>>

Check ==
  /\ pc = "check"
  /\ IF stopping \/ ~enabled THEN GoesTo("stop") /\ status' = "Stopping"
                             ELSE GoesTo("drain") /\ UNCHANGED status
  /\ UNCHANGED <<outside, wake, token, localVars>>

\* try_recv until the channel is empty or disconnected; stop is not looked at
\* meanwhile.
DrainLine ==
  /\ pc = "drain" /\ queue # <<>>
  /\ queue' = Tail(queue)
  /\ status' = IF Head(queue) \in Reported THEN Head(queue) ELSE status
  /\ UNCHANGED <<sharedVars, ui, wake, token, pc, localVars, helperVars, rpc, sender>>

Drained ==
  /\ pc = "drain" /\ queue = <<>>
  /\ disconnected' = ~sender
  /\ GoesTo("wait")
  /\ UNCHANGED <<outside, status, wake, token, seen, delayed>>

\* try_wait, then the end of the output, then the silence of the helper.
TryWait ==
  /\ pc = "wait"
  /\ \/ helper = "exited" /\ GoesTo("stop")
        /\ status' = IF lease THEN "AnotherInstance" ELSE "Retrying"
     \/ helper # "exited" /\ disconnected /\ GoesTo("stop") /\ UNCHANGED status
     \/ helper # "exited" /\ ~disconnected
        /\ \/ GoesTo("stop") /\ status' = "Retrying"
           \/ GoesTo("parkRun") /\ UNCHANGED status
  /\ UNCHANGED <<outside, wake, token, localVars>>

\* stop_child: the helper leaves within the grace or is killed; it is reaped.
StopChild ==
  /\ pc = "stop"
  /\ helper' = "exited"
  /\ IF helper = "exited" THEN UNCHANGED lease ELSE lease' \in BOOLEAN
  /\ GoesTo("classify")
  /\ UNCHANGED <<sharedVars, ui, status, wake, token, localVars, readerVars>>

Classify ==
  /\ pc = "classify"
  /\ status' = IF enabled /\ ~stopping
               THEN IF lease THEN "AnotherInstance" ELSE "Retrying"
               ELSE status
  /\ GoesTo("joinReader")
  /\ UNCHANGED <<outside, wake, token, localVars>>

\* What the reader still sent is logged, not shown; the next start is delayed.
JoinReader ==
  /\ pc = "joinReader" /\ rpc = "done"
  /\ helper' = "none" /\ queue' = <<>>
  /\ delayed' = TRUE
  /\ GoesTo("top")
  /\ UNCHANGED <<sharedVars, ui, status, wake, token, seen, disconnected, lease, rpc, sender>>

-----------------------------------------------------------------------------
(* The reader thread, the helper, and the clock *)

beside == <<sharedVars, status, wake, ui, pc, localVars>>

\* A line; a full channel loses it.
ReadLine(line) ==
  /\ rpc = "read" /\ helper # "none"
  /\ queue' = IF Len(queue) < Capacity THEN Append(queue, line) ELSE queue
  /\ rpc' = "notify"
  /\ UNCHANGED <<beside, token, helperVars, sender>>

NotifyLine ==
  /\ rpc = "notify"
  /\ token' = Notified
  /\ rpc' = "read"
  /\ UNCHANGED <<beside, helperVars, queue, sender>>

\* The output ends: "drop the sender before notification".
ReadEnd ==
  /\ rpc = "read" /\ helper \in {"leaving", "exited"}
  /\ sender' = FALSE
  /\ rpc' = "notifyEnd"
  /\ UNCHANGED <<beside, token, helperVars, queue>>

\* Fault: the end of the output wakes nobody.
NotifyEndSilently ==
  /\ rpc = "notifyEnd"
  /\ rpc' = "done"
  /\ UNCHANGED <<beside, token, helperVars, queue, sender>>

NotifyEnd ==
  /\ rpc = "notifyEnd"
  /\ token' = Notified
  /\ rpc' = "done"
  /\ UNCHANGED <<beside, helperVars, queue, sender>>

\* "EOF can precede process exit": an ending helper closes its output first.
HelperLeaves ==
  /\ helper = "running"
  /\ helper' = "leaving"
  /\ lease' \in BOOLEAN
  /\ UNCHANGED <<beside, token, readerVars>>

HelperExits ==
  /\ helper = "leaving"
  /\ helper' = "exited"
  /\ UNCHANGED <<beside, token, lease, readerVars>>

DelayElapses ==
  /\ delayed
  /\ delayed' = FALSE
  /\ UNCHANGED <<sharedVars, status, wake, token, ui, pc, seen, disconnected,
                 helperVars, readerVars>>

MainThread == Revise \/ Notify \/ ShutdownJoins

Supervisor ==
  \/ Register \/ Top \/ TestEnabled \/ TestDelay \/ CannotStart \/ StartHelper \/ Unpark
  \/ Check \/ DrainLine \/ Drained \/ TryWait \/ StopChild \/ Classify \/ JoinReader

Reader == NotifyLine \/ ReadEnd \/ NotifyEnd \/ \E line \in Lines : ReadLine(line)

AudioNext ==
  \/ MainThread \/ Shutdown \/ \E value \in BOOLEAN : SetEnabled(value)
  \/ Supervisor \/ Reader \/ HelperLeaves \/ HelperExits \/ DelayElapses

AudioSpec == AudioInit /\ [][AudioNext]_audioVars

\* The three threads and the clock run.  A helper that exited has finitely many
\* lines left in its pipe, and a running one reports a change or a heartbeat at
\* a time, so the supervisor gets to its last line.  No helper need ever exit or
\* speak, and nobody need touch the switch.
FairAudioSpec ==
  /\ AudioSpec
  /\ WF_audioVars(MainThread) /\ WF_audioVars(Supervisor) /\ WF_audioVars(Reader) /\ SF_audioVars(ReadEnd)
  /\ SF_audioVars(DrainLine /\ Len(queue) = 1) /\ SF_audioVars(Drained)
  /\ WF_audioVars(DelayElapses)

-----------------------------------------------------------------------------

\* "No lost wake between checking enabled/stopping/the event queue and
\* sleeping": a supervisor that sleeps without a token, and that nobody is
\* about to notify, has acted on all there is: on stop, on the switch, on its
\* latest use, on every line and on the end of the helper's output.
NoLostWake ==
  (/\ pc \in {"parkOff", "parkDelay", "parkRun"} /\ ~token
   /\ ui \notin {"revise", "notify", "stopNotify"}
   /\ rpc \notin {"notify", "notifyEnd"}) =>
     /\ ~stopping
     /\ enabled = (pc # "parkOff")
     /\ pc = "parkDelay" => seen = revision
     /\ pc = "parkRun" => queue = <<>> /\ sender

\* The menu says Off only when no helper is left to hold the output device,
\* through every race of the switch with a starting or dying helper.
OffMeansNoHelper == status = "Off" => helper = "none"

\* The last word of the user counts: switched off for good, the helper goes
\* and Off is shown; switched on, a helper is tried, whatever came in between.
SwitchTakesEffect ==
  /\ <>[]~enabled => <>[](status = "Off" /\ helper = "none")
  /\ enabled ~> (pc = "start" \/ helper # "none" \/ ~enabled \/ stopping)
==============================================================================
