----------------------------- MODULE CommandQueue -----------------------------
(***************************************************************************)
(* HostBridge's command path (guest_driver/bridge.rs): HID calls enqueue   *)
(* blocking feature requests or fire-and-forget feedback (output reports,  *)
(* writes); one command worker owns the control channel and sends them in  *)
(* order; a transport error stops the worker and drains the queue; Drop    *)
(* joins the worker.                                                       *)
(***************************************************************************)
EXTENDS HostBridge, Integers, SequencesExt

CONSTANTS
  Callers,          \* threads performing feature and output operations
  FeedbackCapacity, \* DEFAULT_FEEDBACK_QUEUE_CAPACITY: 64 in the program
  MaxCommands       \* bound on the commands accepted in one behaviour

ASSUME CapacityAssumption == FeedbackCapacity \in Nat \ {0} /\ MaxCommands \in Nat

VARIABLES
  queue,         \* accepted commands, oldest first
  wpc,           \* where the command worker is
  command,       \* the command the worker took last
  commandErrors, \* stats.command_errors > 0
  cpc,           \* where each caller is
  kind,          \* what each caller is enqueuing
  response,      \* the one-slot response channel of each caller
  log,           \* history: the kinds of the accepted commands, in order
  fate,          \* history: what became of each accepted command
  reported       \* history: some caller was told to disconnect the bridge

workerVars  == <<wpc, command, commandErrors>>
callerVars  == <<cpc, kind, response>>
historyVars == <<log, fate, reported>>
vars == <<queue, bridgeVars, workerVars, callerVars, historyVars>>

Ids      == 1 .. MaxCommands
Kinds    == {"feature", "feedback"}
NoCommand == [id |-> 0]
Outcomes == {"ok", "status", "disconnect"}

\* How many commands were accepted: the id of the newest one.
accepted == Len(log)

IsFeedback(cmd) == cmd.kind = "feedback"

Feedback(q) == {i \in DOMAIN q : IsFeedback(q[i])}

-----------------------------------------------------------------------------

Init ==
  /\ BridgeInit
  /\ queue = <<>>
  /\ wpc = "check"
  /\ command = NoCommand
  /\ commandErrors = FALSE
  /\ cpc = [c \in Callers |-> "idle"]
  /\ kind = [c \in Callers |-> "feature"]
  /\ response = [c \in Callers |-> "none"]
  /\ log = <<>>
  /\ fate = [i \in Ids |-> "unused"]
  /\ reported = FALSE

\* A caller whose operation fails with CommandWorkerStopped tells the runtime
\* to clear the bridge (should_disconnect_bridge).
TellStopped == reported' = TRUE

\* The first check of the running flag, outside the queue lock.
Begin(c, k) ==
  /\ owner = "alive"
  /\ cpc[c] = "idle"
  /\ accepted < MaxCommands
  /\ IF running
       THEN /\ cpc' = [cpc EXCEPT ![c] = "enqueue"]
            /\ kind' = [kind EXCEPT ![c] = k]
            /\ UNCHANGED reported
       ELSE TellStopped /\ UNCHANGED <<cpc, kind>>
  /\ UNCHANGED <<queue, running, workerVars, response, owner, log, fate>>

\* The second check, under the queue lock, fails.
EnqueueStopped(c) ==
  /\ cpc[c] = "enqueue"
  /\ ~running
  /\ cpc' = [cpc EXCEPT ![c] = "idle"]
  /\ TellStopped
  /\ UNCHANGED <<queue, running, workerVars, kind, response, owner, log, fate>>

\* push_back, under the lock: fate records that the command is now queued.
Accept(c, q, f) ==
  /\ queue' = Append(q, [id |-> accepted + 1, kind |-> kind[c], by |-> c])
  /\ log' = Append(log, kind[c])
  /\ fate' = [f EXCEPT ![accepted + 1] = "queued"]

\* Fault: the flag is not looked at again under the lock.
EnqueueFeatureUnchecked(c) ==
  /\ cpc[c] = "enqueue" /\ kind[c] = "feature" /\ accepted < MaxCommands
  /\ Accept(c, queue, fate)
  /\ cpc' = [cpc EXCEPT ![c] = "waiting"]
  /\ response' = [response EXCEPT ![c] = "none"]
  /\ UNCHANGED <<running, workerVars, kind, owner, reported>>

\* enqueue_command: the caller then blocks on its response channel.
EnqueueFeature(c) ==
  /\ cpc[c] = "enqueue" /\ kind[c] = "feature"
  /\ running /\ accepted < MaxCommands
  /\ Accept(c, queue, fate)
  /\ cpc' = [cpc EXCEPT ![c] = "waiting"]
  /\ response' = [response EXCEPT ![c] = "none"]
  /\ UNCHANGED <<running, workerVars, kind, owner, reported>>

\* Fault: a full backlog loses its newest feedback.
EnqueueFeedbackDroppingNewest(c) ==
  /\ cpc[c] = "enqueue" /\ kind[c] = "feedback"
  /\ running /\ accepted < MaxCommands
  /\ IF Cardinality(Feedback(queue)) >= FeedbackCapacity
       THEN LET victim == CHOOSE i \in Feedback(queue) :
                            \A j \in Feedback(queue) : j <= i
            IN  Accept(c, RemoveAt(queue, victim),
                       [fate EXCEPT ![queue[victim].id] = "dropped"])
       ELSE Accept(c, queue, fate)
  /\ cpc' = [cpc EXCEPT ![c] = "idle"]
  /\ UNCHANGED <<running, workerVars, kind, response, owner, reported>>

\* enqueue_feedback: a full backlog loses its oldest feedback command.
EnqueueFeedback(c) ==
  /\ cpc[c] = "enqueue" /\ kind[c] = "feedback"
  /\ running /\ accepted < MaxCommands
  /\ IF Cardinality(Feedback(queue)) >= FeedbackCapacity
       THEN LET oldest == CHOOSE i \in Feedback(queue) :
                            \A j \in Feedback(queue) : i <= j
            IN  Accept(c, RemoveAt(queue, oldest),
                       [fate EXCEPT ![queue[oldest].id] = "dropped"])
       ELSE Accept(c, queue, fate)
  /\ cpc' = [cpc EXCEPT ![c] = "idle"]
  /\ UNCHANGED <<running, workerVars, kind, response, owner, reported>>

\* recv() returns: an error that disconnects is passed on to the runtime.
Receive(c) ==
  /\ cpc[c] = "waiting"
  /\ response[c] # "none"
  /\ cpc' = [cpc EXCEPT ![c] = "idle"]
  /\ response' = [response EXCEPT ![c] = "none"]
  /\ reported' = (reported \/ response[c] = "disconnect")
  /\ UNCHANGED <<queue, running, workerVars, kind, owner, log, fate>>

-----------------------------------------------------------------------------
(* spawn_command_worker *)

\* while running: a stopped worker leaves without looking at the queue.
WorkerCheck ==
  /\ wpc = "check"
  /\ wpc' = IF running THEN "wait" ELSE "gone"
  /\ UNCHANGED <<queue, running, command, commandErrors, callerVars, owner, historyVars>>

\* Fault: the newest command is taken.
WorkerTakeNewest ==
  /\ wpc = "wait"
  /\ queue # <<>>
  /\ command' = Last(queue)
  /\ queue' = Front(queue)
  /\ fate' = [fate EXCEPT ![Last(queue).id] = "taken"]
  /\ wpc' = "process"
  /\ UNCHANGED <<running, commandErrors, callerVars, owner, log, reported>>

\* wait_for_command: the queue is looked at before the flag.
WorkerTake ==
  /\ wpc = "wait"
  /\ queue # <<>>
  /\ command' = Head(queue)
  /\ queue' = Tail(queue)
  /\ fate' = [fate EXCEPT ![Head(queue).id] = "taken"]
  /\ wpc' = "process"
  /\ UNCHANGED <<running, commandErrors, callerVars, owner, log, reported>>

\* Fault: an idle worker goes on waiting whatever the flag says.
WorkerNoCommandWaits ==
  /\ wpc = "wait" /\ queue = <<>> /\ ~running
  /\ UNCHANGED vars

WorkerNoCommand ==
  /\ wpc = "wait"
  /\ queue = <<>> /\ ~running
  /\ wpc' = "gone"
  /\ UNCHANGED <<queue, running, command, commandErrors, callerVars, owner, historyVars>>

\* Fault: failed feedback is not counted as a command error.
ProcessUncounted(outcome) ==
  /\ wpc = "process"
  /\ fate' = [fate EXCEPT ![command.id] = IF outcome = "ok" THEN "sent" ELSE "failed"]
  /\ response' = IF IsFeedback(command) THEN response
                 ELSE [response EXCEPT ![command.by] = outcome]
  /\ wpc' = IF outcome = "disconnect" THEN "stop" ELSE "check"
  /\ UNCHANGED <<queue, running, command, commandErrors, cpc, kind, owner, log, reported>>

\* process_command: the host answered OK, answered with an error status, or
\* the control channel failed or timed out.  Only failed feedback counts as a
\* command error: a failed feature request is answered with the error instead.
Process(outcome) ==
  /\ wpc = "process"
  /\ fate' = [fate EXCEPT ![command.id] = IF outcome = "ok" THEN "sent" ELSE "failed"]
  /\ response' = IF IsFeedback(command) THEN response
                 ELSE [response EXCEPT ![command.by] = outcome]
  /\ commandErrors' = (commandErrors \/ (IsFeedback(command) /\ outcome = "disconnect"))
  /\ wpc' = IF outcome = "disconnect" THEN "stop" ELSE "check"
  /\ UNCHANGED <<queue, running, command, cpc, kind, owner, log, reported>>

\* stop_command_worker: first the flag, without the lock ...
StopFlag ==
  /\ wpc = "stop"
  /\ running' = FALSE
  /\ wpc' = "drain"
  /\ UNCHANGED <<queue, command, commandErrors, callerVars, owner, historyVars>>

\* Fault: queued requests are dropped without an answer.
DrainSilently ==
  /\ wpc = "drain"
  /\ fate' = [i \in Ids |-> IF fate[i] = "queued" THEN "drained" ELSE fate[i]]
  /\ queue' = <<>>
  /\ wpc' = "gone"
  /\ UNCHANGED <<running, command, commandErrors, callerVars, owner, log, reported>>

\* ... then, under the lock, every queued request is answered and dropped.
Drain ==
  /\ wpc = "drain"
  /\ response' = [c \in Callers |->
       IF \E i \in DOMAIN queue : queue[i].by = c /\ ~IsFeedback(queue[i])
       THEN "disconnect" ELSE response[c]]
  /\ fate' = [i \in Ids |-> IF fate[i] = "queued" THEN "drained" ELSE fate[i]]
  /\ queue' = <<>>
  /\ wpc' = "gone"
  /\ UNCHANGED <<running, command, commandErrors, cpc, kind, owner, log, reported>>

-----------------------------------------------------------------------------
(* HostBridge::drop: nobody borrows the bridge any more *)

DropBridge ==
  /\ BeginDrop
  /\ \A c \in Callers : cpc[c] = "idle"
  /\ UNCHANGED <<queue, workerVars, callerVars, historyVars>>

\* join() of the command thread.
JoinWorker ==
  /\ Join(wpc)
  /\ UNCHANGED <<queue, workerVars, callerVars, historyVars>>

WorkerStep ==
  \/ WorkerCheck \/ WorkerTake \/ WorkerNoCommand
  \/ \E outcome \in Outcomes : Process(outcome)
  \/ StopFlag \/ Drain

CallerStep(c) == EnqueueStopped(c) \/ EnqueueFeature(c) \/ EnqueueFeedback(c) \/ Receive(c)

Next ==
  \/ \E c \in Callers : CallerStep(c) \/ \E k \in Kinds : Begin(c, k)
  \/ WorkerStep
  \/ DropBridge \/ JoinWorker

Spec == Init /\ [][Next]_vars

\* The worker is scheduled and its control requests are timed; a caller that
\* is not blocked proceeds; Drop, once begun, is a running thread.
FairSpec ==
  /\ Spec
  /\ WF_vars(WorkerStep)
  /\ \A c \in Callers : WF_vars(CallerStep(c))
  /\ WF_vars(JoinWorker)

-----------------------------------------------------------------------------

\* A caller blocked on its response channel is never forgotten: its request
\* is still queued for a worker that will take or drain it, is being
\* processed, or has been answered.
NoOrphanedCaller ==
  \A c \in Callers :
    cpc[c] = "waiting" =>
      \/ response[c] # "none"
      \/ wpc = "process" /\ command.by = c /\ ~IsFeedback(command)
      \/ wpc # "gone" /\ \E i \in DOMAIN queue :
                            queue[i].by = c /\ ~IsFeedback(queue[i])

\* The backlog stays within its capacity, and it loses only feedback, and only
\* behind a full capacity of newer feedback: the last rumble command of a burst
\* is never the one lost.
OnlyOldFeedbackDropped ==
  /\ Cardinality(Feedback(queue)) <= FeedbackCapacity
  /\ \A i \in Ids :
       fate[i] = "dropped" =>
         Cardinality({j \in DOMAIN log : j > i /\ log[j] = "feedback"}) >= FeedbackCapacity

\* A command worker that dies is not silent: the runtime learns of it through
\* command_errors or through a caller's disconnecting error, so the bridge it
\* served does not stay published.
FailureIsReported ==
  (owner = "alive" /\ wpc \in {"stop", "drain", "gone"}) =>
    \/ commandErrors \/ reported
    \/ \E c \in Callers : response[c] = "disconnect"

\* Every HID call returns: a blocked caller gets an answer.
CallerReturns == \A c \in Callers : (cpc[c] = "waiting") ~> (cpc[c] = "idle")

\* Dropping a bridge terminates: the worker notices the flag even when the
\* queue still holds commands or the host never answers.
DropTerminates == (owner = "dropping") ~> (owner = "joined")

\* Nobody waits for ever: neither a caller for an answer nor the last owner of
\* the bridge for its worker.
NobodyWaitsForever == CallerReturns /\ DropTerminates

-----------------------------------------------------------------------------
(* The command path implements CommandService *)

InHand     == wpc = "process"
Held       == IF InHand THEN command.id ELSE 0
Numbers(q) == {q[i].id : i \in DOMAIN q}
Unanswered == {e \in Range(queue) \cup (IF InHand THEN {command} ELSE {}) : ~IsFeedback(e)}

\* The number of the request a caller waits for, 0 when there is none.
Asked(requests, c) ==
  IF \E e \in requests : e.by = c THEN (CHOOSE e \in requests : e.by = c).id ELSE 0

Asks == [c \in Callers |-> Asked(Unanswered, c)]

Service ==
  INSTANCE CommandService WITH
    ledger  <- log,
    pending <- Numbers(queue),
    inHand  <- Held,
    serving <- wpc \notin {"stop", "drain", "gone"},
    open    <- running,
    asks    <- Asks,
    answer  <- response

\* The flag and its two checks, the worker's loop, its failure, its drain and
\* the end of the bridge together serve every command at most once and in the
\* order of acceptance, none after the host stopped answering, lose only the
\* oldest feedback behind a full backlog, and tell each caller what became of
\* its own request and of no other.
ServiceSpec == Service!Spec

=============================================================================
