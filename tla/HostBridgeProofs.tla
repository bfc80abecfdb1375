---------------------------- MODULE HostBridgeProofs ---------------------------
(***************************************************************************)
(* The safety of both halves of HostBridge: of its command path for any    *)
(* number of callers, any capacity of the feedback backlog and any number  *)
(* of commands, and of its input path for any interfaces, any capacity of  *)
(* the queue and any number of reports.                                    *)
(***************************************************************************)
EXTENDS CommandQueue, InputQueue, SequenceLemmas

Command == [id : Ids, kind : Kinds, by : Callers]
Fates   == {"unused", "queued", "taken", "sent", "failed", "dropped", "drained"}

CommandType ==
  /\ queue \in Seq(Command)
  /\ running \in BOOLEAN
  /\ wpc \in {"check", "wait", "process", "stop", "drain", "gone"}
  /\ command \in Command \cup {NoCommand}
  /\ commandErrors \in BOOLEAN
  /\ cpc \in [Callers -> {"idle", "enqueue", "waiting"}]
  /\ kind \in [Callers -> Kinds]
  /\ response \in [Callers -> {"none"} \cup Outcomes]
  /\ owner \in {"alive", "dropping", "joined"}
  /\ log \in Seq(Kinds) /\ Len(log) <= MaxCommands
  /\ fate \in [Ids -> Fates]
  /\ reported \in BOOLEAN

\* The flag falls with the worker or with the bridge, and a bridge is dropped
\* when nobody uses it.
RunInv ==
  /\ wpc \in {"drain", "gone"} => ~running
  /\ ~running => owner # "alive" \/ wpc \in {"drain", "gone"}
  /\ owner # "alive" => ~running /\ \A c \in Callers : cpc[c] = "idle"
  /\ wpc = "process" => command \in Command

Waits(c) == cpc[c] = "waiting" /\ response[c] = "none"

\* No caller has two requests in q; q is in the order of acceptance; and l, the
\* kinds of what was accepted, has its entries.
OneEach(q) ==
  \A i, j \in 1 .. Len(q) :
    ~IsFeedback(q[i]) /\ ~IsFeedback(q[j]) /\ q[i].by = q[j].by => i = j
Ordered(q)    == \A i, j \in 1 .. Len(q) : i < j => q[i].id < q[j].id
FromLog(q, l) == \A i \in 1 .. Len(q) : q[i].id \in 1 .. Len(l) /\ l[q[i].id] = q[i].kind

\* A request in the queue or in the worker's hands is the only one of a caller
\* that waits, and an answer lies only in the channel of a caller that does.
WaitInv ==
  /\ \A i \in 1 .. Len(queue) : ~IsFeedback(queue[i]) => Waits(queue[i].by)
  /\ OneEach(queue)
  /\ wpc = "process" /\ ~IsFeedback(command) =>
       /\ Waits(command.by)
       /\ \A i \in 1 .. Len(queue) : ~IsFeedback(queue[i]) => queue[i].by # command.by
  /\ \A c \in Callers : response[c] # "none" => cpc[c] = "waiting"

Newer(i, l) == {j \in DOMAIN l : j > i /\ l[j] = "feedback"}

\* The queue is a part of what was accepted, in the same order.
BacklogInv ==
  /\ FromLog(queue, log) /\ Ordered(queue)
  /\ Cardinality(Feedback(queue)) <= FeedbackCapacity
  /\ \A i \in Ids : fate[i] = "dropped" => Cardinality(Newer(i, log)) >= FeedbackCapacity

CommandInv ==
  /\ CommandType /\ RunInv /\ WaitInv /\ BacklogInv
  /\ NoOrphanedCaller /\ FailureIsReported
-----------------------------------------------------------------------------
(* Queues and logs *)

FeedbackCommands == {e \in Command : IsFeedback(e)}

\* The feedback in a queue, in the terms of the lemmas about sequences.
LEMMA FeedbackIsHits ==
  ASSUME NEW q \in Seq(Command)
  PROVE  /\ Feedback(q) = Hits(q, FeedbackCommands)
         /\ Feedback(q) \subseteq 1 .. Len(q)
         /\ IsFiniteSet(Feedback(q)) /\ Cardinality(Feedback(q)) \in Nat
<1>1. DOMAIN q = 1 .. Len(q) /\ \A i \in 1 .. Len(q) : q[i] \in Command
  BY LenProperties, ElementOfSeq
<1>2. Feedback(q) = Hits(q, FeedbackCommands)
  BY <1>1 DEF Feedback, Hits, FeedbackCommands
<1> QED BY <1>1, <1>2, HitsFinite DEF Feedback

\* What is accepted is newer than all that was accepted before.
LEMMA LogGrows ==
  ASSUME NEW l \in Seq(Kinds), NEW k \in Kinds, NEW i
  PROVE  /\ IsFiniteSet(Newer(i, Append(l, k)))
         /\ Cardinality(Newer(i, Append(l, k))) \in Nat /\ Cardinality(Newer(i, l)) \in Nat
         /\ Cardinality(Newer(i, Append(l, k))) >= Cardinality(Newer(i, l))
<1> DEFINE t == Append(l, k)
<1>1. /\ t \in Seq(Kinds) /\ Len(t) = Len(l) + 1 /\ Len(l) \in Nat
      /\ \A j \in 1 .. Len(l) : t[j] = l[j]
  BY AppendProperties, LenProperties
<1>2. DOMAIN t = 1 .. Len(t) /\ DOMAIN l = 1 .. Len(l)
  BY <1>1, LenProperties
<1> HIDE DEF t
<1>3. IsFiniteSet(1 .. Len(t))
  BY <1>1, FS_Interval
<1>4. Newer(i, t) \in SUBSET (1 .. Len(t)) /\ Newer(i, l) \in SUBSET Newer(i, t)
  BY <1>1, <1>2 DEF Newer
<1>5. IsFiniteSet(Newer(i, t))
  BY <1>3, <1>4, FS_Subset
<1>6. IsFiniteSet(Newer(i, l)) /\ Cardinality(Newer(i, l)) <= Cardinality(Newer(i, t))
  BY <1>4, <1>5, FS_Subset
<1>7. Cardinality(Newer(i, l)) \in Nat /\ Cardinality(Newer(i, t)) \in Nat
  BY <1>5, <1>6, FS_CardinalityType
<1> QED BY <1>5, <1>6, <1>7 DEF t

\* A command leaves a queue: the others stay, in their order.
LEMMA AfterRemoval ==
  ASSUME NEW q \in Seq(Command), NEW i \in 1 .. Len(q), NEW l,
         Ordered(q), OneEach(q), FromLog(q, l)
  PROVE  /\ RemoveAt(q, i) \in Seq(Command)
         /\ Ordered(RemoveAt(q, i)) /\ OneEach(RemoveAt(q, i)) /\ FromLog(RemoveAt(q, i), l)
         /\ \A j \in 1 .. Len(RemoveAt(q, i)) :
              \E k \in 1 .. Len(q) : k # i /\ RemoveAt(q, i)[j] = q[k]
         /\ \A k \in 1 .. Len(q) : k # i => \E j \in 1 .. Len(RemoveAt(q, i)) : RemoveAt(q, i)[j] = q[k]
<1> DEFINE t == RemoveAt(q, i)
<1>1. t \in Seq(Command)
  BY RemoveAtProperties
<1>2. Len(q) \in Nat /\ Len(t) \in Nat
  BY <1>1, LenProperties
<1> HIDE DEF t
<1>3. /\ \A j \in 1 .. Len(t) :
           \E k \in 1 .. Len(q) : k = (IF j < i THEN j ELSE j + 1) /\ k # i /\ t[j] = q[k]
      /\ \A k \in 1 .. Len(q) : k # i => \E j \in 1 .. Len(t) : t[j] = q[k]
  BY RemoveAtKeeps DEF t
<1>4. ASSUME NEW j \in 1 .. Len(t), NEW m \in 1 .. Len(t)
      PROVE  /\ j < m => t[j].id < t[m].id
             /\ ~IsFeedback(t[j]) /\ ~IsFeedback(t[m]) /\ t[j].by = t[m].by => j = m
  <2>1. PICK k \in 1 .. Len(q) : k = (IF j < i THEN j ELSE j + 1) /\ k # i /\ t[j] = q[k]
    BY <1>3
  <2>2. PICK n \in 1 .. Len(q) : n = (IF m < i THEN m ELSE m + 1) /\ n # i /\ t[m] = q[n]
    BY <1>3
  <2>3. (j < m => k < n) /\ (k = n => j = m)
    BY <1>2, <2>1, <2>2
  <2>4. k < n => q[k].id < q[n].id
    BY DEF Ordered
  <2>5. ~IsFeedback(q[k]) /\ ~IsFeedback(q[n]) /\ q[k].by = q[n].by => k = n
    BY DEF OneEach
  <2> QED BY <2>1, <2>2, <2>3, <2>4, <2>5
<1>5. Ordered(t) /\ OneEach(t)
  BY <1>4 DEF Ordered, OneEach
<1>6. FromLog(t, l)
  <2>1. SUFFICES ASSUME NEW j \in 1 .. Len(t)
                 PROVE  t[j].id \in 1 .. Len(l) /\ l[t[j].id] = t[j].kind
    BY DEF FromLog
  <2>2. PICK k \in 1 .. Len(q) : t[j] = q[k]
    BY <1>3
  <2> QED BY <2>2 DEF FromLog
<1> QED BY <1>1, <1>3, <1>5, <1>6 DEF t

\* A command accepted joins the queue behind the others.
LEMMA AfterAppend ==
  ASSUME NEW q \in Seq(Command), NEW l \in Seq(Kinds), NEW e \in Command,
         Ordered(q), OneEach(q), FromLog(q, l), e.id = Len(l) + 1,
         ~IsFeedback(e) => \A i \in 1 .. Len(q) : ~IsFeedback(q[i]) => q[i].by # e.by
  PROVE  /\ Append(q, e) \in Seq(Command)
         /\ Ordered(Append(q, e)) /\ OneEach(Append(q, e)) /\ FromLog(Append(q, e), Append(l, e.kind))
         /\ \A j \in 1 .. Len(Append(q, e)) :
              Append(q, e)[j] = e \/ \E k \in 1 .. Len(q) : Append(q, e)[j] = q[k]
         /\ \A k \in 1 .. Len(q) : \E j \in 1 .. Len(Append(q, e)) : Append(q, e)[j] = q[k]
         /\ \E j \in 1 .. Len(Append(q, e)) : Append(q, e)[j] = e
<1> DEFINE t == Append(q, e)
           m == Append(l, e.kind)
           n == Len(q) + 1
<1>1. /\ t \in Seq(Command) /\ Len(t) = n /\ t[n] = e
      /\ \A j \in 1 .. Len(q) : t[j] = q[j]
  BY AppendProperties
<1>2. e.kind \in Kinds
  BY DEF Command
<1>3. /\ Len(m) = Len(l) + 1 /\ m[Len(l) + 1] = e.kind
      /\ \A j \in 1 .. Len(l) : m[j] = l[j]
  BY <1>2, AppendProperties
<1>4. Len(q) \in Nat /\ Len(l) \in Nat
  BY LenProperties
<1>5. /\ n \in 1 .. n /\ 1 .. Len(q) \subseteq 1 .. n
      /\ \A j \in 1 .. n : j = n \/ j \in 1 .. Len(q)
      /\ \A j \in 1 .. Len(q) : j < n
      /\ \A i \in 1 .. Len(l) : i < Len(l) + 1 /\ i \in 1 .. Len(l) + 1
      /\ Len(l) + 1 \in 1 .. Len(l) + 1
  BY <1>4
<1>6. \A j \in 1 .. n : ~(n < j)
  BY <1>4
<1> HIDE DEF t, m, n
<1>7. Ordered(t)
  <2> SUFFICES ASSUME NEW j \in 1 .. n, NEW k \in 1 .. n, j < k PROVE t[j].id < t[k].id
    BY <1>1 DEF Ordered
  <2>1. j # n /\ j \in 1 .. Len(q)
    BY <1>5, <1>6
  <2>2. CASE k = n
    BY <2>1, <2>2, <1>1, <1>5 DEF FromLog
  <2>3. CASE k \in 1 .. Len(q)
    BY <2>1, <2>3, <1>1 DEF Ordered
  <2> QED BY <2>2, <2>3, <1>5
<1>8. OneEach(t)
  BY <1>1, <1>5 DEF OneEach
<1>9. FromLog(t, m)
  <2> SUFFICES ASSUME NEW j \in 1 .. n PROVE t[j].id \in 1 .. Len(m) /\ m[t[j].id] = t[j].kind
    BY <1>1 DEF FromLog
  <2>1. CASE j = n
    BY <2>1, <1>1, <1>3, <1>5
  <2>2. CASE j \in 1 .. Len(q)
    BY <2>2, <1>1, <1>3, <1>5 DEF FromLog
  <2> QED BY <2>1, <2>2, <1>5
<1> QED BY <1>1, <1>5, <1>7, <1>8, <1>9 DEF t, m

-----------------------------------------------------------------------------
(* The steps *)

\* What the queue holds.
LEMMA QueueOf ==
  ASSUME CommandType
  PROVE  /\ DOMAIN queue = 1 .. Len(queue) /\ Len(queue) \in Nat /\ Len(log) \in Nat
         /\ \A i \in 1 .. Len(queue) : queue[i] \in Command /\ queue[i].by \in Callers
<1>1. \A i \in 1 .. Len(queue) : queue[i] \in Command
  BY ElementOfSeq DEF CommandType
<1>2. \A e \in Command : e.by \in Callers
  BY DEF Command
<1> QED BY <1>1, <1>2, LenProperties DEF CommandType

\* A bridge just created.
LEMMA InitCommandInv == Init => CommandInv
<1> SUFFICES ASSUME Init PROVE CommandInv
  OBVIOUS
<1>1. /\ queue \in Seq(Command) /\ log \in Seq(Kinds)
      /\ Len(queue) = 0 /\ Len(log) = 0 /\ 1 .. Len(queue) = {}
  BY EmptySeq DEF Init
<1>2. CommandType
  <2>1. Len(log) <= MaxCommands
    BY <1>1, CapacityAssumption
  <2>2. /\ cpc \in [Callers -> {"idle", "enqueue", "waiting"}] /\ kind \in [Callers -> Kinds]
        /\ response \in [Callers -> {"none"} \cup Outcomes] /\ fate \in [Ids -> Fates]
    BY DEF Init, BridgeInit, Kinds, Fates
  <2> QED BY <1>1, <2>1, <2>2 DEF Init, BridgeInit, CommandType
<1>3. RunInv
  BY DEF Init, BridgeInit, RunInv
<1>4. WaitInv
  BY <1>1 DEF Init, BridgeInit, WaitInv, OneEach
<1>5. BacklogInv
  <2>1. Feedback(queue) = {}
    BY <1>1, FeedbackIsHits
  <2>2. Cardinality(Feedback(queue)) = 0
    BY <2>1, FS_EmptySet
  <2> QED BY <1>1, <2>2, CapacityAssumption DEF Init, BridgeInit, BacklogInv, FromLog, Ordered
<1> QED BY <1>2, <1>3, <1>4, <1>5 DEF Init, BridgeInit, CommandInv, NoOrphanedCaller, FailureIsReported

\* Steps that leave the queue and its history alone leave the backlog alone.
LEMMA SameBacklog == BacklogInv /\ UNCHANGED <<queue, log, fate>> => BacklogInv'
  BY DEF BacklogInv, FromLog, Ordered, Feedback, Newer, IsFeedback

\* A caller that finds the flag fallen gives up, any other goes on to the lock.
LEMMA BeginInv ==
  ASSUME CommandInv, NEW c \in Callers, NEW k \in Kinds, Begin(c, k)
  PROVE  CommandInv'
<1>1. CommandType' /\ RunInv'
  BY DEF CommandInv, CommandType, RunInv, Begin, TellStopped, workerVars
<1>2. WaitInv'
  <2>1. /\ \A d \in Callers : Waits(d) => Waits(d)'
        /\ \A d \in Callers : response'[d] # "none" => cpc'[d] = "waiting"
        /\ UNCHANGED <<queue, wpc, command>>
    BY DEF CommandInv, CommandType, WaitInv, Waits, Begin, workerVars
  <2>2. \A i \in 1 .. Len(queue) : queue[i].by \in Callers
    BY QueueOf DEF CommandInv
  <2>3. wpc = "process" => command.by \in Callers
    BY DEF CommandInv, RunInv, Command
  <2> HIDE DEF Waits
  <2>4. /\ \A i \in 1 .. Len(queue) : ~IsFeedback(queue[i]) => Waits(queue[i].by)'
        /\ wpc = "process" /\ ~IsFeedback(command) => Waits(command.by)'
    BY <2>1, <2>2, <2>3 DEF CommandInv, WaitInv
  <2> QED BY <2>1, <2>4 DEF CommandInv, WaitInv, OneEach, IsFeedback, Waits
<1>3. NoOrphanedCaller' /\ FailureIsReported'
  BY DEF CommandInv, CommandType, NoOrphanedCaller, FailureIsReported, IsFeedback, Begin, TellStopped,
         workerVars
<1>4. BacklogInv'
  BY SameBacklog DEF CommandInv, Begin
<1> QED BY <1>1, <1>2, <1>3, <1>4 DEF CommandInv

\* Under the lock, too, a caller that finds the flag fallen gives up.
LEMMA EnqueueStoppedInv ==
  ASSUME CommandInv, NEW c \in Callers, EnqueueStopped(c)
  PROVE  CommandInv'
<1>1. CommandType' /\ RunInv'
  BY DEF CommandInv, CommandType, RunInv, EnqueueStopped, TellStopped, workerVars
<1>2. WaitInv'
  BY DEF CommandInv, CommandType, WaitInv, OneEach, Waits, IsFeedback, EnqueueStopped, workerVars
<1>3. NoOrphanedCaller' /\ FailureIsReported'
  BY DEF CommandInv, CommandType, NoOrphanedCaller, FailureIsReported, IsFeedback, EnqueueStopped,
         TellStopped, workerVars
<1>4. BacklogInv'
  BY SameBacklog DEF CommandInv, EnqueueStopped
<1> QED BY <1>1, <1>2, <1>3, <1>4 DEF CommandInv

\* An answered caller takes its answer with it.
LEMMA ReceiveInv ==
  ASSUME CommandInv, NEW c \in Callers, Receive(c)
  PROVE  CommandInv'
<1>1. CommandType' /\ RunInv'
  BY DEF CommandInv, CommandType, RunInv, Receive, workerVars
<1>2. WaitInv'
  BY DEF CommandInv, CommandType, WaitInv, OneEach, Waits, IsFeedback, Receive, workerVars
<1>3. NoOrphanedCaller' /\ FailureIsReported'
  BY DEF CommandInv, CommandType, NoOrphanedCaller, FailureIsReported, IsFeedback, Receive, workerVars
<1>4. BacklogInv'
  BY SameBacklog DEF CommandInv, Receive
<1> QED BY <1>1, <1>2, <1>3, <1>4 DEF CommandInv

\* Steps of the worker between commands.
LEMMA WorkerIdlesInv ==
  ASSUME CommandInv, WorkerCheck \/ WorkerNoCommand \/ StopFlag
  PROVE  CommandInv'
<1>1. CommandType' /\ RunInv'
  <2>1. CommandType'
    BY DEF CommandInv, CommandType, WorkerCheck, WorkerNoCommand, StopFlag, callerVars, historyVars
  <2>2. RunInv'
    BY DEF CommandInv, RunInv, WorkerCheck, WorkerNoCommand, StopFlag, callerVars, historyVars
  <2> QED BY <2>1, <2>2
<1>2. WaitInv'
  BY DEF CommandInv, CommandType, WaitInv, OneEach, Waits, IsFeedback, WorkerCheck, WorkerNoCommand,
         StopFlag, callerVars, historyVars
<1>3. NoOrphanedCaller'
  BY DEF CommandInv, CommandType, RunInv, NoOrphanedCaller, IsFeedback, WorkerCheck, WorkerNoCommand,
         StopFlag, callerVars, historyVars
<1>4. FailureIsReported'
  BY DEF CommandInv, CommandType, RunInv, FailureIsReported, WorkerCheck, WorkerNoCommand, StopFlag,
         callerVars, historyVars
<1>5. BacklogInv'
  BY SameBacklog DEF CommandInv, WorkerCheck, WorkerNoCommand, StopFlag, historyVars
<1> QED BY <1>1, <1>2, <1>3, <1>4, <1>5 DEF CommandInv

\* The end of the bridge, which only idle callers see.
LEMMA DropInv ==
  ASSUME CommandInv, DropBridge \/ JoinWorker
  PROVE  CommandInv'
<1>1. CommandType' /\ RunInv'
  <2>1. CommandType'
    BY DEF CommandInv, CommandType, DropBridge, JoinWorker, BeginDrop, Join, workerVars, callerVars, historyVars
  <2>2. RunInv'
    BY DEF CommandInv, RunInv, DropBridge, JoinWorker, BeginDrop, Join, workerVars, callerVars, historyVars
  <2> QED BY <2>1, <2>2
<1>2. WaitInv'
  BY DEF CommandInv, WaitInv, OneEach, Waits, IsFeedback, DropBridge, JoinWorker, BeginDrop, Join, workerVars, callerVars
<1>3. NoOrphanedCaller' /\ FailureIsReported'
  BY DEF CommandInv, NoOrphanedCaller, FailureIsReported, IsFeedback, DropBridge, JoinWorker, BeginDrop, Join,
         workerVars, callerVars, historyVars
<1>4. BacklogInv'
  BY SameBacklog DEF CommandInv, DropBridge, JoinWorker, BeginDrop, Join, historyVars
<1> QED BY <1>1, <1>2, <1>3, <1>4 DEF CommandInv

\* The outcome of a request goes to the caller that waits for it, and of the
\* failure of a feedback command the errors are counted.
LEMMA ProcessInv ==
  ASSUME CommandInv, NEW outcome \in Outcomes, Process(outcome)
  PROVE  CommandInv'
<1>1. /\ CommandType /\ RunInv /\ WaitInv /\ NoOrphanedCaller /\ FailureIsReported
      /\ wpc = "process" /\ command \in Command
      /\ UNCHANGED <<queue, running, command, cpc, kind, owner, log, reported>>
      /\ wpc' = IF outcome = "disconnect" THEN "stop" ELSE "check"
  BY DEF CommandInv, RunInv, Process
<1>2. command.id \in Ids /\ command.by \in Callers
  BY <1>1 DEF Command
<1>4. BacklogInv'
  <2>1. \A i \in Ids : fate'[i] = "dropped" => fate[i] = "dropped"
    BY <1>1, <1>2 DEF Process, CommandType
  <2> QED BY <1>1, <2>1 DEF CommandInv, BacklogInv, FromLog, Ordered, Feedback, Newer, IsFeedback
<1>3. CASE IsFeedback(command)
  <2>1. response' = response /\ commandErrors' = (commandErrors \/ outcome = "disconnect")
    BY <1>3 DEF Process
  <2>2. CommandType' /\ RunInv'
    BY <1>1, <1>2, <2>1 DEF CommandType, RunInv, Process, Fates
  <2>3. WaitInv'
    BY <1>1, <2>1 DEF WaitInv, OneEach, Waits, IsFeedback
  <2>4. NoOrphanedCaller'
    BY <1>1, <1>3, <2>1 DEF NoOrphanedCaller, IsFeedback
  <2>5. FailureIsReported'
    BY <1>1, <2>1 DEF FailureIsReported
  <2> QED BY <1>1, <2>2, <2>3, <2>4, <2>5, <1>4 DEF CommandInv
<1>5. CASE ~IsFeedback(command)
  <2>1. /\ response' = [response EXCEPT ![command.by] = outcome] /\ outcome # "none"
        /\ commandErrors' = commandErrors
    BY <1>5, <1>1 DEF Process, Outcomes, CommandType
  <2>2. /\ response'[command.by] = outcome
        /\ \A c \in Callers : c # command.by => response'[c] = response[c]
        /\ cpc[command.by] = "waiting"
        /\ \A i \in 1 .. Len(queue) : ~IsFeedback(queue[i]) => queue[i].by # command.by
    BY <1>1, <1>2, <1>5, <2>1 DEF CommandType, WaitInv, Waits
  <2>3. CommandType' /\ RunInv'
    BY <1>1, <1>2, <2>1 DEF CommandType, RunInv, Process, Fates
  <2>4. WaitInv'
    <3>1. \A i \in 1 .. Len(queue) : queue[i].by \in Callers
      BY <1>1, QueueOf
    <3> QED BY <1>1, <2>1, <2>2, <3>1 DEF WaitInv, OneEach, Waits, IsFeedback
  <2>5. NoOrphanedCaller'
    BY <1>1, <2>1, <2>2 DEF NoOrphanedCaller, IsFeedback
  <2>6. FailureIsReported'
    BY <1>1, <1>2, <2>1, <2>2 DEF FailureIsReported
  <2> QED BY <1>1, <2>3, <2>4, <2>5, <2>6, <1>4 DEF CommandInv
<1> QED BY <1>3, <1>5

\* The worker takes the oldest command; its caller, if one waits, is now the
\* worker's to answer.
LEMMA TakeInv ==
  ASSUME CommandInv, WorkerTake
  PROVE  CommandInv'
<1>1. /\ CommandType /\ RunInv /\ WaitInv /\ BacklogInv /\ NoOrphanedCaller
      /\ wpc = "wait" /\ wpc' = "process" /\ queue # <<>>
      /\ command' = queue[1] /\ queue' = Tail(queue)
      /\ fate' = [fate EXCEPT ![queue[1].id] = "taken"]
      /\ UNCHANGED <<running, commandErrors, cpc, kind, response, owner, log, reported>>
  <2>1. Head(queue) = queue[1]
    BY DEF CommandInv, CommandType, WorkerTake
  <2> QED BY <2>1 DEF CommandInv, WorkerTake, callerVars
<1>2. queue \in Seq(Command)
  BY <1>1 DEF CommandType
<1>3. /\ Len(queue) \in Nat /\ DOMAIN queue = 1 .. Len(queue)
      /\ \A i \in 1 .. Len(queue) : queue[i] \in Command /\ queue[i].by \in Callers
  BY <1>1, QueueOf
<1>4. queue' = RemoveAt(queue, 1) /\ 1 \in 1 .. Len(queue)
  BY <1>1, <1>2, TailIsRemoveAt
<1>5. Ordered(queue) /\ OneEach(queue) /\ FromLog(queue, log)
  BY <1>1 DEF WaitInv, BacklogInv
<1>6. /\ queue' \in Seq(Command) /\ Ordered(queue') /\ OneEach(queue') /\ FromLog(queue', log)
      /\ \A j \in 1 .. Len(queue') : \E k \in 1 .. Len(queue) : k # 1 /\ queue'[j] = queue[k]
      /\ \A k \in 1 .. Len(queue) : k # 1 => \E j \in 1 .. Len(queue') : queue'[j] = queue[k]
  BY <1>2, <1>4, <1>5, AfterRemoval
<1>7. DOMAIN queue' = 1 .. Len(queue')
  BY <1>6, LenProperties
<1>8. queue[1] \in Command /\ queue[1].id \in Ids
  BY <1>3, <1>4 DEF Command
<1>9. CommandType' /\ RunInv'
  BY <1>1, <1>6, <1>8 DEF CommandType, RunInv, Fates
<1>10. WaitInv'
  <2>1. \A i \in 1 .. Len(queue') : ~IsFeedback(queue'[i]) => Waits(queue'[i].by)
    BY <1>1, <1>6 DEF WaitInv
  <2>2. ~IsFeedback(queue[1]) =>
          /\ Waits(queue[1].by)
          /\ \A i \in 1 .. Len(queue') : ~IsFeedback(queue'[i]) => queue'[i].by # queue[1].by
    BY <1>1, <1>4, <1>5, <1>6 DEF WaitInv, OneEach
  <2> QED BY <1>1, <1>6, <2>1, <2>2 DEF WaitInv, OneEach, Waits, IsFeedback
<1>11. NoOrphanedCaller'
  <2> SUFFICES ASSUME NEW c \in Callers, cpc[c] = "waiting", response[c] = "none"
               PROVE  \/ command'.by = c /\ ~IsFeedback(command')
                      \/ \E i \in DOMAIN queue' : queue'[i].by = c /\ ~IsFeedback(queue'[i])
    BY <1>1 DEF NoOrphanedCaller, IsFeedback
  <2>1. PICK k \in 1 .. Len(queue) : queue[k].by = c /\ ~IsFeedback(queue[k])
    BY <1>1, <1>3 DEF NoOrphanedCaller
  <2> QED BY <2>1, <1>1, <1>6, <1>7
<1>12. BacklogInv'
  <2>1. Cardinality(Feedback(queue')) <= Cardinality(Feedback(queue))
    <3>1. /\ Feedback(queue') = Hits(RemoveAt(queue, 1), FeedbackCommands)
          /\ Feedback(queue) = Hits(queue, FeedbackCommands)
          /\ Cardinality(Feedback(queue)) \in Nat
      BY <1>2, <1>4, <1>6, FeedbackIsHits
    <3>2. Cardinality(Hits(RemoveAt(queue, 1), FeedbackCommands)) =
            IF queue[1] \in FeedbackCommands THEN Cardinality(Hits(queue, FeedbackCommands)) - 1
                                             ELSE Cardinality(Hits(queue, FeedbackCommands))
      BY <1>2, <1>4, HitsOfRemoveAt
    <3> QED BY <3>1, <3>2
  <2>2. /\ Cardinality(Feedback(queue')) \in Nat /\ Cardinality(Feedback(queue)) \in Nat
        /\ FeedbackCapacity \in Nat
    BY <1>2, <1>6, FeedbackIsHits, CapacityAssumption
  <2>3. Cardinality(Feedback(queue')) <= FeedbackCapacity
    BY <1>1, <2>1, <2>2 DEF BacklogInv
  <2>4. \A i \in Ids : fate'[i] = "dropped" => fate[i] = "dropped"
    BY <1>1, <1>8 DEF CommandType
  <2>5. Feedback(queue)' = Feedback(queue') /\ \A i : Newer(i, log)' = Newer(i, log)
    BY <1>1 DEF Feedback, IsFeedback, Newer
  <2> QED BY <1>1, <1>6, <2>3, <2>4, <2>5 DEF BacklogInv, FromLog, Ordered
<1>13. FailureIsReported'
  BY <1>1 DEF FailureIsReported
<1> QED BY <1>9, <1>10, <1>11, <1>12, <1>13 DEF CommandInv

\* A worker that stops answers every request it leaves behind.
LEMMA DrainInv ==
  ASSUME CommandInv, Drain
  PROVE  CommandInv'
<1>1. /\ CommandType /\ RunInv /\ WaitInv /\ BacklogInv /\ NoOrphanedCaller /\ FailureIsReported
      /\ wpc = "drain" /\ wpc' = "gone" /\ queue' = <<>>
      /\ response' = [c \in Callers |->
           IF \E i \in DOMAIN queue : queue[i].by = c /\ ~IsFeedback(queue[i])
           THEN "disconnect" ELSE response[c]]
      /\ fate' = [i \in Ids |-> IF fate[i] = "queued" THEN "drained" ELSE fate[i]]
      /\ UNCHANGED <<running, command, commandErrors, cpc, kind, owner, log, reported>>
  BY DEF CommandInv, Drain
<1>2. /\ DOMAIN queue = 1 .. Len(queue)
      /\ queue' \in Seq(Command) /\ Len(queue') = 0 /\ 1 .. Len(queue') = {}
  BY <1>1, QueueOf, EmptySeq
<1>3. CommandType'
  <2>1. response' \in [Callers -> {"none"} \cup Outcomes]
    BY <1>1 DEF CommandType, Outcomes
  <2>2. fate' \in [Ids -> Fates]
    BY <1>1 DEF CommandType, Fates
  <2> QED BY <1>1, <1>2, <2>1, <2>2 DEF CommandType
<1>4. RunInv'
  BY <1>1 DEF RunInv
<1>5. WaitInv'
  <2>1. ASSUME NEW c \in Callers, response'[c] # "none" PROVE cpc[c] = "waiting"
    BY <2>1, <1>1, <1>2 DEF WaitInv, Waits
  <2> QED BY <1>1, <1>2, <2>1 DEF WaitInv, OneEach
<1>6. NoOrphanedCaller'
  <2> SUFFICES ASSUME NEW c \in Callers, cpc[c] = "waiting" PROVE response'[c] # "none"
    BY <1>1 DEF NoOrphanedCaller
  <2> QED BY <1>1 DEF NoOrphanedCaller
<1>7. FailureIsReported'
  <2>1. \A c \in Callers : response[c] = "disconnect" => response'[c] = "disconnect"
    BY <1>1
  <2> QED BY <1>1, <2>1 DEF FailureIsReported
<1>8. BacklogInv'
  <2>1. Feedback(queue') = {}
    BY <1>2, FeedbackIsHits
  <2>2. Cardinality(Feedback(queue')) <= FeedbackCapacity
    BY <2>1, FS_EmptySet, CapacityAssumption
  <2>3. \A i \in Ids : fate'[i] = "dropped" => fate[i] = "dropped"
    BY <1>1
  <2>4. Feedback(queue)' = Feedback(queue') /\ \A i : Newer(i, log)' = Newer(i, log)
    BY <1>1 DEF Feedback, IsFeedback, Newer
  <2> QED BY <1>1, <1>2, <2>2, <2>3, <2>4 DEF BacklogInv, FromLog, Ordered
<1> QED BY <1>3, <1>4, <1>5, <1>6, <1>7, <1>8 DEF CommandInv

\* The command that a caller enqueues, and the backlog it joins: all of the
\* queue, or all but a feedback command.
NewCommand(c) == [id |-> accepted + 1, kind |-> kind[c], by |-> c]

LEMMA AcceptInv ==
  ASSUME CommandInv, NEW c \in Callers, NEW q, NEW f \in [Ids -> Fates],
         cpc[c] = "enqueue", running, accepted < MaxCommands, Accept(c, q, f),
         q \in Seq(Command), Ordered(q), OneEach(q), FromLog(q, log),
         \A j \in 1 .. Len(q) : \E k \in 1 .. Len(queue) : q[j] = queue[k],
         \A k \in 1 .. Len(queue) : ~IsFeedback(queue[k]) => \E j \in 1 .. Len(q) : q[j] = queue[k],
         UNCHANGED <<running, workerVars, kind, owner, reported>>,
         IF kind[c] = "feature"
           THEN /\ cpc' = [cpc EXCEPT ![c] = "waiting"]
                /\ response' = [response EXCEPT ![c] = "none"]
           ELSE cpc' = [cpc EXCEPT ![c] = "idle"] /\ response' = response
  PROVE  /\ CommandType' /\ RunInv' /\ WaitInv' /\ NoOrphanedCaller' /\ FailureIsReported'
         /\ FromLog(queue, log)' /\ Ordered(queue)'
         /\ \A i \in Ids : fate'[i] = "dropped" => i # accepted + 1 /\ f[i] = "dropped"
<1> DEFINE e == NewCommand(c)
<1>1. /\ CommandType /\ RunInv /\ WaitInv /\ NoOrphanedCaller /\ FailureIsReported
      /\ wpc' = wpc /\ command' = command /\ commandErrors' = commandErrors
      /\ queue' = Append(q, e) /\ log' = Append(log, e.kind)
      /\ fate' = [f EXCEPT ![e.id] = "queued"]
      /\ e.kind = kind[c] /\ e.by = c /\ e.id = Len(log) + 1
  BY DEF CommandInv, Accept, workerVars, NewCommand, accepted
<1>2. /\ DOMAIN queue = 1 .. Len(queue) /\ Len(log) \in Nat
      /\ \A i \in 1 .. Len(queue) : queue[i].by \in Callers
  BY <1>1, QueueOf
<1>3. kind[c] \in Kinds /\ log \in Seq(Kinds)
  BY <1>1 DEF CommandType
<1>4. e \in Command /\ e.id \in Ids
  <2>1. Len(log) + 1 \in Ids
    BY <1>2, CapacityAssumption DEF Ids, accepted
  <2> QED BY <2>1, <1>1, <1>3 DEF Command, NewCommand
<1> HIDE DEF e
<1>5. ~Waits(c) /\ response[c] = "none"
  BY <1>1 DEF Waits, CommandType, WaitInv
<1>6. \A i \in 1 .. Len(q) : ~IsFeedback(q[i]) => Waits(q[i].by) /\ q[i].by # c
  BY <1>1, <1>5 DEF WaitInv
<1>7. /\ queue' \in Seq(Command) /\ Ordered(queue') /\ OneEach(queue') /\ FromLog(queue', log')
      /\ \A j \in 1 .. Len(queue') : queue'[j] = e \/ \E k \in 1 .. Len(q) : queue'[j] = q[k]
      /\ \A k \in 1 .. Len(q) : \E j \in 1 .. Len(queue') : queue'[j] = q[k]
      /\ \E j \in 1 .. Len(queue') : queue'[j] = e
  <2>1. ~IsFeedback(e) => \A i \in 1 .. Len(q) : ~IsFeedback(q[i]) => q[i].by # e.by
    BY <1>1, <1>6
  <2>2. e.id = Len(log) + 1
    BY <1>1
  <2>3. /\ Append(q, e) \in Seq(Command) /\ Ordered(Append(q, e)) /\ OneEach(Append(q, e))
        /\ FromLog(Append(q, e), Append(log, e.kind))
        /\ \A j \in 1 .. Len(Append(q, e)) :
             Append(q, e)[j] = e \/ \E k \in 1 .. Len(q) : Append(q, e)[j] = q[k]
        /\ \A k \in 1 .. Len(q) : \E j \in 1 .. Len(Append(q, e)) : Append(q, e)[j] = q[k]
        /\ \E j \in 1 .. Len(Append(q, e)) : Append(q, e)[j] = e
    BY <1>3, <1>4, <2>1, <2>2, AfterAppend
  <2> QED BY <1>1, <2>3
<1>8. DOMAIN queue' = 1 .. Len(queue')
  BY <1>7, LenProperties
<1>9. /\ \A d \in Callers \ {c} : cpc'[d] = cpc[d] /\ response'[d] = response[d]
      /\ response'[c] = "none" /\ cpc'[c] = (IF kind[c] = "feature" THEN "waiting" ELSE "idle")
  BY <1>1, <1>5 DEF CommandType
<1>10. IsFeedback(e) <=> kind[c] # "feature"
  BY <1>1, <1>3 DEF IsFeedback, Kinds
<1>11. CommandType'
  <2>1. log' \in Seq(Kinds) /\ Len(log') <= MaxCommands
    <3>1. log' \in Seq(Kinds) /\ Len(log') = Len(log) + 1
      BY <1>1, <1>3, AppendProperties
    <3> QED BY <3>1, <1>2, CapacityAssumption DEF accepted
  <2>2. fate' \in [Ids -> Fates]
    BY <1>1 DEF Fates
  <2>3. /\ cpc' \in [Callers -> {"idle", "enqueue", "waiting"}]
        /\ response' \in [Callers -> {"none"} \cup Outcomes]
    BY <1>1 DEF CommandType
  <2> QED BY <1>1, <1>7, <2>1, <2>2, <2>3 DEF CommandType
<1>12. RunInv'
  BY <1>1 DEF RunInv
<1>13. WaitInv'
  <2>1. \A i \in 1 .. Len(queue') : ~IsFeedback(queue'[i]) =>
          cpc'[queue'[i].by] = "waiting" /\ response'[queue'[i].by] = "none"
    <3>1. ASSUME NEW i \in 1 .. Len(q), ~IsFeedback(q[i])
          PROVE  cpc'[q[i].by] = "waiting" /\ response'[q[i].by] = "none"
      <4>1. q[i].by \in Callers \ {c} /\ Waits(q[i].by)
        BY <3>1, <1>2, <1>6
      <4> QED BY <4>1, <1>9 DEF Waits
    <3>2. ~IsFeedback(e) => cpc'[e.by] = "waiting" /\ response'[e.by] = "none"
      BY <1>1, <1>9, <1>10
    <3>3. ASSUME NEW i \in 1 .. Len(queue'), ~IsFeedback(queue'[i])
          PROVE  cpc'[queue'[i].by] = "waiting" /\ response'[queue'[i].by] = "none"
      <4>1. CASE queue'[i] = e
        BY <3>2, <3>3, <4>1
      <4>2. CASE \E k \in 1 .. Len(q) : queue'[i] = q[k]
        <5>1. PICK k \in 1 .. Len(q) : queue'[i] = q[k]
          BY <4>2
        <5> QED BY <5>1, <3>1, <3>3
      <4> QED BY <4>1, <4>2, <1>7
    <3> QED BY <3>3
  <2>2. wpc = "process" /\ ~IsFeedback(command) =>
          /\ cpc'[command.by] = "waiting" /\ response'[command.by] = "none"
          /\ \A i \in 1 .. Len(queue') : ~IsFeedback(queue'[i]) => queue'[i].by # command.by
    <3> SUFFICES ASSUME wpc = "process", ~IsFeedback(command)
                 PROVE  /\ cpc'[command.by] = "waiting" /\ response'[command.by] = "none"
                        /\ \A i \in 1 .. Len(queue') : ~IsFeedback(queue'[i]) => queue'[i].by # command.by
      OBVIOUS
    <3>1. command.by \in Callers
      BY <1>1 DEF RunInv, Command
    <3>2. /\ Waits(command.by) /\ command.by # c
          /\ \A i \in 1 .. Len(q) : ~IsFeedback(q[i]) => q[i].by # command.by
      BY <1>1, <1>5 DEF WaitInv
    <3> QED BY <3>1, <3>2, <1>1, <1>7, <1>9 DEF Waits
  <2>3. \A d \in Callers : response'[d] # "none" => cpc'[d] = "waiting"
    BY <1>1, <1>9 DEF WaitInv
  <2> QED BY <1>1, <1>7, <2>1, <2>2, <2>3 DEF WaitInv, Waits, OneEach, IsFeedback
<1>14. NoOrphanedCaller'
  <2> SUFFICES ASSUME NEW d \in Callers, cpc'[d] = "waiting"
               PROVE  \/ response'[d] # "none"
                      \/ wpc = "process" /\ command.by = d /\ ~IsFeedback(command)
                      \/ wpc # "gone" /\ \E i \in DOMAIN queue' : queue'[i].by = d /\ ~IsFeedback(queue'[i])
    BY <1>1 DEF NoOrphanedCaller, IsFeedback
  <2>1. wpc # "gone"
    BY <1>1 DEF RunInv
  <2>2. CASE d = c
    <3>1. kind[c] = "feature" /\ ~IsFeedback(e) /\ e.by = d
      BY <2>2, <1>1, <1>9, <1>10
    <3>2. PICK j \in 1 .. Len(queue') : queue'[j] = e
      BY <1>7
    <3> QED BY <2>1, <3>1, <3>2, <1>8
  <2>3. CASE d # c
    <3>1. cpc[d] = "waiting" /\ response'[d] = response[d]
      BY <2>3, <1>9
    <3>2. CASE \E i \in DOMAIN queue : queue[i].by = d /\ ~IsFeedback(queue[i])
      <4>1. PICK k \in 1 .. Len(queue) : queue[k].by = d /\ ~IsFeedback(queue[k])
        BY <3>2, <1>2
      <4>2. PICK m \in 1 .. Len(q) : q[m] = queue[k]
        BY <4>1
      <4>3. PICK j \in 1 .. Len(queue') : queue'[j] = q[m]
        BY <1>7
      <4>4. queue'[j].by = d /\ ~IsFeedback(queue'[j]) /\ j \in DOMAIN queue'
        BY <4>1, <4>2, <4>3, <1>8
      <4> QED BY <2>1, <4>4
    <3> QED BY <3>1, <3>2, <1>1 DEF NoOrphanedCaller
  <2> QED BY <2>2, <2>3
<1>15. FailureIsReported'
  <2>1. \A d \in Callers : response[d] = "disconnect" => response'[d] = "disconnect"
    BY <1>5, <1>9
  <2> QED BY <1>1, <2>1 DEF FailureIsReported
<1>16. FromLog(queue, log)' /\ Ordered(queue)'
  BY <1>7 DEF FromLog, Ordered
<1>17. \A i \in Ids : fate'[i] = "dropped" => i # accepted + 1 /\ f[i] = "dropped"
  BY <1>1, <1>4 DEF accepted
<1> QED BY <1>11, <1>12, <1>13, <1>14, <1>15, <1>16, <1>17

\* A feature request joins the whole queue, its caller waits for the answer.
LEMMA EnqueueFeatureInv ==
  ASSUME CommandInv, NEW c \in Callers, EnqueueFeature(c)
  PROVE  CommandInv'
<1>1. /\ CommandType /\ WaitInv /\ BacklogInv
      /\ cpc[c] = "enqueue" /\ kind[c] = "feature" /\ running /\ accepted < MaxCommands
      /\ Accept(c, queue, fate)
      /\ cpc' = [cpc EXCEPT ![c] = "waiting"] /\ response' = [response EXCEPT ![c] = "none"]
      /\ UNCHANGED <<running, workerVars, kind, owner, reported>>
  BY DEF CommandInv, EnqueueFeature
<1>2. /\ queue \in Seq(Command) /\ fate \in [Ids -> Fates] /\ log \in Seq(Kinds)
      /\ Ordered(queue) /\ OneEach(queue) /\ FromLog(queue, log)
  BY <1>1 DEF CommandType, WaitInv, BacklogInv
<1>3. /\ CommandType' /\ RunInv' /\ WaitInv' /\ NoOrphanedCaller' /\ FailureIsReported'
      /\ FromLog(queue, log)' /\ Ordered(queue)'
      /\ \A i \in Ids : fate'[i] = "dropped" => i # accepted + 1 /\ fate[i] = "dropped"
  BY <1>1, <1>2, AcceptInv
<1>4. /\ NewCommand(c) \in Command /\ NewCommand(c) \notin FeedbackCommands
      /\ queue' = Append(queue, NewCommand(c)) /\ log' = Append(log, kind[c]) /\ kind[c] \in Kinds
  <2>1. Len(log) + 1 \in Ids
    BY <1>1, QueueOf, CapacityAssumption DEF Ids, accepted
  <2> QED BY <2>1, <1>1 DEF CommandType, Command, NewCommand, FeedbackCommands, IsFeedback, Accept, accepted
<1>5. Cardinality(Feedback(queue)') <= FeedbackCapacity
  <2>1. Cardinality(Hits(Append(queue, NewCommand(c)), FeedbackCommands)) =
          Cardinality(Hits(queue, FeedbackCommands))
    BY <1>2, <1>4, HitsOfAppend
  <2>2. Feedback(queue') = Hits(queue', FeedbackCommands) /\ Feedback(queue) = Hits(queue, FeedbackCommands)
    BY <1>2, <1>3, FeedbackIsHits DEF CommandType
  <2>3. Feedback(queue)' = Feedback(queue')
    BY DEF Feedback, IsFeedback
  <2> QED BY <1>1, <1>4, <2>1, <2>2, <2>3 DEF BacklogInv
<1>6. \A i \in Ids : fate'[i] = "dropped" => Cardinality(Newer(i, log)') >= FeedbackCapacity
  <2> SUFFICES ASSUME NEW i \in Ids, fate[i] = "dropped"
               PROVE  Cardinality(Newer(i, log)') >= FeedbackCapacity
    BY <1>3
  <2>1. Cardinality(Newer(i, log)) >= FeedbackCapacity
    BY <1>1 DEF BacklogInv
  <2>2. Newer(i, log)' = Newer(i, Append(log, kind[c]))
    BY <1>4 DEF Newer
  <2>3. /\ Cardinality(Newer(i, Append(log, kind[c]))) >= Cardinality(Newer(i, log))
        /\ Cardinality(Newer(i, Append(log, kind[c]))) \in Nat /\ Cardinality(Newer(i, log)) \in Nat
    BY <1>2, <1>4, LogGrows
  <2> QED BY <2>1, <2>2, <2>3, CapacityAssumption
<1> QED BY <1>3, <1>5, <1>6 DEF CommandInv, BacklogInv

\* The oldest feedback of a full backlog has a full capacity of newer feedback
\* once one more is accepted.
LEMMA OldestIsOld ==
  ASSUME NEW q \in Seq(Command), NEW l \in Seq(Kinds), Ordered(q), FromLog(q, l),
         Cardinality(Feedback(q)) >= FeedbackCapacity,
         NEW o \in Feedback(q), \A j \in Feedback(q) : o <= j
  PROVE  Cardinality(Newer(q[o].id, Append(l, "feedback"))) >= FeedbackCapacity
<1> DEFINE t   == Append(l, "feedback")
           new == Newer(q[o].id, t)
           At  == [j \in Feedback(q) |-> IF j = o THEN Len(l) + 1 ELSE q[j].id]
<1>1. /\ Len(l) \in Nat /\ Len(q) \in Nat /\ DOMAIN t = 1 .. Len(l) + 1 /\ t[Len(l) + 1] = "feedback"
      /\ \A j \in 1 .. Len(l) : t[j] = l[j]
  <2>1. "feedback" \in Kinds
    BY DEF Kinds
  <2> QED BY <2>1, AppendProperties, LenProperties
<1>2. Feedback(q) \subseteq 1 .. Len(q) /\ IsFiniteSet(Feedback(q)) /\ Cardinality(Feedback(q)) \in Nat
  BY FeedbackIsHits
<1>3. IsFiniteSet(new) /\ Cardinality(new) \in Nat
  <2>1. "feedback" \in Kinds
    BY DEF Kinds
  <2> QED BY <2>1, LogGrows
<1> HIDE DEF t
<1>4. \A j \in Feedback(q) : q[j].id \in 1 .. Len(l) /\ l[q[j].id] = "feedback"
  BY <1>2 DEF FromLog, Feedback, IsFeedback
<1>5. ASSUME NEW j \in Feedback(q) PROVE At[j] \in new
  <2>1. CASE j = o
    BY <2>1, <1>1, <1>4 DEF Newer
  <2>2. CASE j # o
    <3>1. o < j /\ j \in 1 .. Len(q) /\ o \in 1 .. Len(q)
      BY <2>2, <1>1, <1>2
    <3>2. q[o].id < q[j].id
      BY <3>1 DEF Ordered
    <3>3. q[j].id \in 1 .. Len(l) /\ l[q[j].id] = "feedback" /\ q[o].id \in 1 .. Len(l)
      BY <1>4
    <3>4. q[j].id \in DOMAIN t /\ t[q[j].id] = "feedback"
      BY <3>3, <1>1
    <3> QED BY <2>2, <3>2, <3>3, <3>4 DEF Newer
  <2> QED BY <2>1, <2>2
<1>6. ASSUME NEW j \in Feedback(q), NEW k \in Feedback(q), At[j] = At[k] PROVE j = k
  <2>1. /\ j \in 1 .. Len(q) /\ k \in 1 .. Len(q)
        /\ q[j].id \in 1 .. Len(l) /\ q[k].id \in 1 .. Len(l)
    BY <1>2, <1>4
  <2>2. q[j].id # Len(l) + 1 /\ q[k].id # Len(l) + 1
    BY <2>1, <1>1
  <2>3. (j < k => q[j].id < q[k].id) /\ (k < j => q[k].id < q[j].id)
    BY <2>1 DEF Ordered
  <2>4. q[j].id = q[k].id => j = k
    BY <2>1, <2>3, <1>1
  <2> QED BY <2>2, <2>4, <1>6
<1> HIDE DEF new
<1>7. At \in [Feedback(q) -> new]
  BY <1>5
<1> HIDE DEF At
<1>8. At \in Injection(Feedback(q), new)
  BY <1>6, <1>7 DEF Injection, IsInjective
<1>9. Cardinality(Feedback(q)) <= Cardinality(new)
  BY <1>3, <1>8, FS_Injection DEF ExistsInjection
<1> QED BY <1>2, <1>3, <1>9, CapacityAssumption DEF new, t

\* A feedback command joins the queue; a full backlog loses its oldest.
LEMMA EnqueueFeedbackInv ==
  ASSUME CommandInv, NEW c \in Callers, EnqueueFeedback(c)
  PROVE  CommandInv'
<1> DEFINE full   == Cardinality(Feedback(queue)) >= FeedbackCapacity
           oldest == CHOOSE i \in Feedback(queue) : \A j \in Feedback(queue) : i <= j
           q == IF full THEN RemoveAt(queue, oldest) ELSE queue
           f == IF full THEN [fate EXCEPT ![queue[oldest].id] = "dropped"] ELSE fate
<1>1. /\ CommandType /\ WaitInv /\ BacklogInv
      /\ cpc[c] = "enqueue" /\ kind[c] = "feedback" /\ running /\ accepted < MaxCommands
      /\ Accept(c, q, f)
      /\ cpc' = [cpc EXCEPT ![c] = "idle"] /\ response' = response
      /\ UNCHANGED <<running, workerVars, kind, owner, reported>>
  BY DEF CommandInv, EnqueueFeedback
<1>2. /\ queue \in Seq(Command) /\ fate \in [Ids -> Fates] /\ log \in Seq(Kinds)
      /\ Ordered(queue) /\ OneEach(queue) /\ FromLog(queue, log)
      /\ Cardinality(Feedback(queue)) <= FeedbackCapacity
  BY <1>1 DEF CommandType, WaitInv, BacklogInv
<1>3. /\ Feedback(queue) = Hits(queue, FeedbackCommands) /\ Feedback(queue) \subseteq 1 .. Len(queue)
      /\ IsFiniteSet(Feedback(queue)) /\ Cardinality(Feedback(queue)) \in Nat
  BY <1>2, FeedbackIsHits
<1>4. \A i \in 1 .. Len(queue) : queue[i] \in Command /\ queue[i].id \in Ids
  <2>1. \A e \in Command : e.id \in Ids
    BY DEF Command
  <2> QED BY <1>1, <2>1, QueueOf
<1>5. full => /\ oldest \in Feedback(queue) /\ \A j \in Feedback(queue) : oldest <= j
              /\ oldest \in 1 .. Len(queue) /\ queue[oldest] \in FeedbackCommands
  <2> SUFFICES ASSUME full
               PROVE  /\ oldest \in Feedback(queue) /\ \A j \in Feedback(queue) : oldest <= j
                      /\ oldest \in 1 .. Len(queue) /\ queue[oldest] \in FeedbackCommands
    OBVIOUS
  <2>1. Feedback(queue) # {}
    <3>1. Cardinality(Feedback(queue)) # 0
      BY <1>3, CapacityAssumption
    <3> QED BY <3>1, FS_EmptySet
  <2>2. Feedback(queue) \subseteq Nat
    BY <1>3
  <2>3. \E x \in Feedback(queue) : \A y \in Feedback(queue) : x <= y
    BY <1>3, <2>1, <2>2, LeastOf
  <2>4. oldest \in Feedback(queue) /\ \A j \in Feedback(queue) : oldest <= j
    BY <2>3
  <2> HIDE DEF oldest
  <2> QED BY <2>4, <1>3 DEF Hits
<1> HIDE DEF full, oldest
<1>6. /\ q \in Seq(Command) /\ Ordered(q) /\ OneEach(q) /\ FromLog(q, log)
      /\ \A j \in 1 .. Len(q) : \E k \in 1 .. Len(queue) : q[j] = queue[k]
      /\ \A k \in 1 .. Len(queue) : ~IsFeedback(queue[k]) => \E j \in 1 .. Len(q) : q[j] = queue[k]
  <2>1. CASE full
    <3>1. q = RemoveAt(queue, oldest) /\ oldest \in 1 .. Len(queue) /\ IsFeedback(queue[oldest])
      BY <2>1, <1>5 DEF FeedbackCommands
    <3> HIDE DEF q
    <3> QED BY <3>1, <1>2, AfterRemoval
  <2>2. CASE ~full
    BY <2>2, <1>2
  <2> QED BY <2>1, <2>2
<1>7. f \in [Ids -> Fates]
  BY <1>2, <1>4, <1>5 DEF Fates
<1>8. Cardinality(Hits(q, FeedbackCommands)) + 1 <= FeedbackCapacity
  <2>1. CASE full
    <3>1. Cardinality(Hits(RemoveAt(queue, oldest), FeedbackCommands)) = Cardinality(Feedback(queue)) - 1
      BY <2>1, <1>2, <1>3, <1>5, HitsOfRemoveAt
    <3> QED BY <2>1, <3>1, <1>2, <1>3, CapacityAssumption
  <2>2. CASE ~full
    BY <2>2, <1>3, CapacityAssumption DEF full
  <2> QED BY <2>1, <2>2
<1>9. \A i \in Ids : f[i] = "dropped" => fate[i] = "dropped" \/ (full /\ i = queue[oldest].id)
  <2>1. CASE full
    <3>1. f = [fate EXCEPT ![queue[oldest].id] = "dropped"]
      BY <2>1
    <3> QED BY <2>1, <3>1, <1>2
  <2>2. CASE ~full
    BY <2>2
  <2> QED BY <2>1, <2>2
<1> HIDE DEF q, f
<1>10. /\ CommandType' /\ RunInv' /\ WaitInv' /\ NoOrphanedCaller' /\ FailureIsReported'
       /\ FromLog(queue, log)' /\ Ordered(queue)'
       /\ \A i \in Ids : fate'[i] = "dropped" => i # accepted + 1 /\ f[i] = "dropped"
  <2>1. kind[c] # "feature"
    BY <1>1
  <2> QED BY <1>1, <1>6, <1>7, <2>1, AcceptInv
<1>11. /\ NewCommand(c) \in Command /\ NewCommand(c) \in FeedbackCommands
       /\ queue' = Append(q, NewCommand(c)) /\ log' = Append(log, "feedback")
  <2>1. Len(log) + 1 \in Ids
    BY <1>1, QueueOf, CapacityAssumption DEF Ids, accepted
  <2> QED BY <2>1, <1>1 DEF CommandType, Command, NewCommand, FeedbackCommands, IsFeedback, Accept, accepted
<1>12. Cardinality(Feedback(queue)') <= FeedbackCapacity
  <2>1. Cardinality(Hits(Append(q, NewCommand(c)), FeedbackCommands)) =
          Cardinality(Hits(q, FeedbackCommands)) + 1
    BY <1>6, <1>11, HitsOfAppend
  <2>2. Feedback(queue') = Hits(queue', FeedbackCommands)
    BY <1>10, FeedbackIsHits DEF CommandType
  <2>3. Feedback(queue)' = Feedback(queue')
    BY DEF Feedback, IsFeedback
  <2> QED BY <1>8, <1>11, <2>1, <2>2, <2>3
<1>13. \A i \in Ids : fate'[i] = "dropped" => Cardinality(Newer(i, log)') >= FeedbackCapacity
  <2> SUFFICES ASSUME NEW i \in Ids, f[i] = "dropped"
               PROVE  Cardinality(Newer(i, log)') >= FeedbackCapacity
    BY <1>10
  <2>1. Newer(i, log)' = Newer(i, Append(log, "feedback"))
    BY <1>11 DEF Newer
  <2>2. CASE fate[i] = "dropped"
    <3>1. Cardinality(Newer(i, log)) >= FeedbackCapacity
      BY <2>2, <1>1 DEF BacklogInv
    <3>2. "feedback" \in Kinds
      BY DEF Kinds
    <3>3. /\ Cardinality(Newer(i, Append(log, "feedback"))) >= Cardinality(Newer(i, log))
          /\ Cardinality(Newer(i, Append(log, "feedback"))) \in Nat /\ Cardinality(Newer(i, log)) \in Nat
      BY <1>2, <3>2, LogGrows
    <3> QED BY <3>1, <3>3, <2>1, CapacityAssumption
  <2>3. CASE full /\ i = queue[oldest].id
    BY <2>1, <2>3, <1>2, <1>5, OldestIsOld DEF full
  <2> QED BY <2>2, <2>3, <1>9
<1> QED BY <1>10, <1>12, <1>13 DEF CommandInv, BacklogInv

LEMMA StepCommandInv == CommandInv /\ [Next]_vars => CommandInv'
<1> SUFFICES ASSUME CommandInv, [Next]_vars PROVE CommandInv'
  OBVIOUS
<1>1. ASSUME NEW c \in Callers, CallerStep(c) PROVE CommandInv'
  BY <1>1, EnqueueStoppedInv, EnqueueFeatureInv, EnqueueFeedbackInv, ReceiveInv DEF CallerStep
<1>2. ASSUME NEW c \in Callers, NEW k \in Kinds, Begin(c, k) PROVE CommandInv'
  BY <1>2, BeginInv
<1>3. CASE WorkerStep
  <2>1. ASSUME NEW outcome \in Outcomes, Process(outcome) PROVE CommandInv'
    BY <2>1, ProcessInv
  <2> QED BY <1>3, <2>1, WorkerIdlesInv, TakeInv, DrainInv DEF WorkerStep
<1>4. CASE DropBridge \/ JoinWorker
  BY <1>4, DropInv
<1>5. CASE UNCHANGED vars
  <2> USE <1>5 DEF vars, bridgeVars, workerVars, callerVars, historyVars
  <2>1. CommandType' /\ RunInv'
    BY DEF CommandInv, CommandType, RunInv
  <2>2. WaitInv'
    BY DEF CommandInv, WaitInv, OneEach, Waits, IsFeedback
  <2>3. NoOrphanedCaller' /\ FailureIsReported'
    BY DEF CommandInv, NoOrphanedCaller, FailureIsReported, IsFeedback
  <2>4. BacklogInv'
    BY SameBacklog DEF CommandInv
  <2> QED BY <2>1, <2>2, <2>3, <2>4 DEF CommandInv
<1> QED BY <1>1, <1>2, <1>3, <1>4, <1>5 DEF Next

LEMMA CommandInvHolds == Spec => []CommandInv
<1> QED BY InitCommandInv, StepCommandInv, PTL DEF Spec

-----------------------------------------------------------------------------

\* A thread blocked in a feature request is never forgotten, however callers,
\* the worker's failure, its drain of the queue and the end of the bridge
\* interleave: its request is queued or being processed, or it is answered.
THEOREM NobodyOrphaned == Spec => []NoOrphanedCaller
<1>1. CommandInv => NoOrphanedCaller
  BY DEF CommandInv
<1> QED BY <1>1, CommandInvHolds, PTL

\* A command worker that gives up on its own is noticed: by the count of
\* command errors, or by a caller that is told to disconnect the bridge.
THEOREM FailuresReported == Spec => []FailureIsReported
<1>1. CommandInv => FailureIsReported
  BY DEF CommandInv
<1> QED BY <1>1, CommandInvHolds, PTL

\* Whatever the capacity, the backlog holds no more feedback than that, and it
\* loses only feedback with a full capacity of newer feedback accepted behind it.
THEOREM OnlyOldDropped == Spec => []OnlyOldFeedbackDropped
<1>1. CommandInv => OnlyOldFeedbackDropped
  BY DEF CommandInv, BacklogInv, Newer, OnlyOldFeedbackDropped
<1> QED BY <1>1, CommandInvHolds, PTL
-----------------------------------------------------------------------------
(* The command path implements CommandService *)

\* What the worker holds was accepted before all that is queued.
HandInv ==
  InHand => /\ command.id \in 1 .. Len(log) /\ log[command.id] = command.kind
            /\ \A i \in 1 .. Len(queue) : command.id < queue[i].id

ServiceInv == CommandInv /\ HandInv

Oldest(numbers) == CHOOSE i \in numbers : \A j \in numbers : i <= j
FeedbackNumbers(q, l) == {i \in Numbers(q) : l[i] = "feedback"}

\* The least element of a set of numbers is its oldest.
LEMMA OldestIs ==
  ASSUME NEW T, T \subseteq Nat, NEW x \in T, \A y \in T : x <= y
  PROVE  Oldest(T) = x
<1> DEFINE o == Oldest(T)
<1>1. o \in T /\ \A y \in T : o <= y
  BY DEF Oldest
<1> HIDE DEF o
<1>2. o \in Nat /\ x \in Nat /\ o <= x /\ x <= o
  BY <1>1
<1> QED BY <1>2 DEF o

LEMMA NumbersOf ==
  ASSUME NEW q \in Seq(Command)
  PROVE  /\ Numbers(q) \subseteq Nat
         /\ \A n : n \in Numbers(q) <=> \E k \in 1 .. Len(q) : q[k].id = n
<1>1. DOMAIN q = 1 .. Len(q) /\ \A k \in 1 .. Len(q) : q[k] \in Command
  BY LenProperties, ElementOfSeq
<1>2. \A e \in Command : e.id \in Nat
  BY CapacityAssumption DEF Command, Ids
<1> QED BY <1>1, <1>2 DEF Numbers

\* Removing an entry removes its number, and no other.
LEMMA NumbersOfRemoveAt ==
  ASSUME NEW q \in Seq(Command), NEW i \in 1 .. Len(q), Ordered(q)
  PROVE  Numbers(RemoveAt(q, i)) = Numbers(q) \ {q[i].id}
<1> DEFINE t == RemoveAt(q, i)
<1>1. t \in Seq(Command)
  BY RemoveAtProperties
<1>2. /\ \A j \in 1 .. Len(t) : \E k \in 1 .. Len(q) : k # i /\ t[j] = q[k]
      /\ \A k \in 1 .. Len(q) : k # i => \E j \in 1 .. Len(t) : t[j] = q[k]
  BY RemoveAtKeeps
<1> HIDE DEF t
<1>3. \A k \in 1 .. Len(q) : k # i => q[k].id # q[i].id
  <2> SUFFICES ASSUME NEW k \in 1 .. Len(q), k # i PROVE q[k].id # q[i].id
    OBVIOUS
  <2>1. q[k].id \in Nat /\ q[i].id \in Nat /\ (k < i \/ i < k)
    BY NumbersOf, LenProperties
  <2> QED BY <2>1 DEF Ordered
<1>4. ASSUME NEW n \in Numbers(t) PROVE n \in Numbers(q) \ {q[i].id}
  <2>1. PICK j \in 1 .. Len(t) : t[j].id = n
    BY <1>1, NumbersOf
  <2>2. PICK k \in 1 .. Len(q) : k # i /\ t[j] = q[k]
    BY <1>2
  <2> QED BY <2>1, <2>2, <1>3, NumbersOf
<1>5. ASSUME NEW n \in Numbers(q) \ {q[i].id} PROVE n \in Numbers(t)
  <2>1. PICK k \in 1 .. Len(q) : q[k].id = n
    BY NumbersOf
  <2>2. PICK j \in 1 .. Len(t) : t[j] = q[k]
    BY <2>1, <1>2
  <2> QED BY <2>1, <2>2, <1>1, NumbersOf
<1> QED BY <1>4, <1>5 DEF t

LEMMA NumbersOfAppend ==
  ASSUME NEW q \in Seq(Command), NEW e \in Command
  PROVE  Numbers(Append(q, e)) = Numbers(q) \cup {e.id}
<1> DEFINE t == Append(q, e)
<1>1. /\ t \in Seq(Command) /\ Len(t) = Len(q) + 1 /\ t[Len(q) + 1] = e /\ Len(q) \in Nat
      /\ \A j \in 1 .. Len(q) : t[j] = q[j]
  BY AppendProperties, LenProperties
<1> HIDE DEF t
<1>2. ASSUME NEW n \in Numbers(t) PROVE n \in Numbers(q) \cup {e.id}
  <2>1. PICK j \in 1 .. Len(t) : t[j].id = n
    BY <1>1, NumbersOf
  <2>2. j = Len(q) + 1 \/ j \in 1 .. Len(q)
    BY <1>1
  <2> QED BY <2>1, <2>2, <1>1, NumbersOf
<1>3. ASSUME NEW n \in Numbers(q) PROVE n \in Numbers(t)
  <2>1. PICK k \in 1 .. Len(q) : q[k].id = n
    BY NumbersOf
  <2>2. k \in 1 .. Len(t) /\ t[k].id = n
    BY <2>1, <1>1
  <2> QED BY <2>2, <1>1, NumbersOf
<1>4. e.id \in Numbers(t)
  <2>1. Len(q) + 1 \in 1 .. Len(t)
    BY <1>1
  <2> QED BY <2>1, <1>1, NumbersOf
<1> QED BY <1>2, <1>3, <1>4 DEF t

\* The head of the queue is the oldest of what waits.
LEMMA HeadIsOldest ==
  ASSUME NEW q \in Seq(Command), q # <<>>, Ordered(q)
  PROVE  /\ Numbers(q) # {} /\ Oldest(Numbers(q)) = q[1].id
         /\ Numbers(Tail(q)) = Numbers(q) \ {q[1].id}
<1>1. Tail(q) = RemoveAt(q, 1) /\ 1 \in 1 .. Len(q)
  BY TailIsRemoveAt
<1>2. q[1].id \in Numbers(q)
  BY <1>1, NumbersOf
<1>3. ASSUME NEW n \in Numbers(q) PROVE q[1].id <= n
  <2>1. PICK k \in 1 .. Len(q) : q[k].id = n
    BY NumbersOf
  <2>2. k = 1 \/ 1 < k
    BY LenProperties
  <2>3. q[1].id \in Nat /\ n \in Nat
    BY <1>2, NumbersOf
  <2> QED BY <2>1, <2>2, <2>3, <1>1 DEF Ordered
<1> QED BY <1>1, <1>2, <1>3, NumbersOf, OldestIs, NumbersOfRemoveAt

\* The feedback of the queue and the feedback that waits are equally many, and
\* the first in the queue is the oldest.
LEMMA FeedbackWaiting ==
  ASSUME NEW q \in Seq(Command), NEW l, Ordered(q), FromLog(q, l)
  PROVE  /\ Cardinality(FeedbackNumbers(q, l)) = Cardinality(Feedback(q))
         /\ \A o \in Feedback(q) : (\A j \in Feedback(q) : o <= j) =>
              o \in 1 .. Len(q) /\ Oldest(FeedbackNumbers(q, l)) = q[o].id
<1> DEFINE F == Feedback(q)
           N == FeedbackNumbers(q, l)
           number == [i \in F |-> q[i].id]
<1>1. /\ F \subseteq 1 .. Len(q) /\ IsFiniteSet(F) /\ Len(q) \in Nat
      /\ \A i \in 1 .. Len(q) : q[i].id \in Nat /\ (i \in F <=> q[i].kind = "feedback")
  <2>1. DOMAIN q = 1 .. Len(q)
    BY LenProperties
  <2> QED BY <2>1, FeedbackIsHits, NumbersOf, LenProperties DEF Feedback, IsFeedback
<1>2. \A i \in F : q[i].id \in N
  <2> SUFFICES ASSUME NEW i \in F PROVE q[i].id \in N
    OBVIOUS
  <2>1. i \in 1 .. Len(q) /\ q[i].kind = "feedback"
    BY <1>1
  <2> QED BY <2>1, NumbersOf DEF FromLog, FeedbackNumbers
<1>3. ASSUME NEW n \in N PROVE \E i \in F : q[i].id = n
  <2>1. n \in Numbers(q) /\ l[n] = "feedback"
    BY DEF FeedbackNumbers
  <2>2. PICK k \in 1 .. Len(q) : q[k].id = n
    BY <2>1, NumbersOf
  <2> QED BY <2>1, <2>2, <1>1 DEF FromLog
<1>4. ASSUME NEW i \in F, NEW j \in F, i < j PROVE q[i].id < q[j].id
  BY <1>1, <1>4 DEF Ordered
<1> HIDE DEF F, N
<1>5. Cardinality(N) = Cardinality(F)
  <2>1. \A i \in F, j \in F : number[i] = number[j] => i = j
    <3> SUFFICES ASSUME NEW i \in F, NEW j \in F, i # j PROVE number[i] # number[j]
      OBVIOUS
    <3>1. (i < j \/ j < i) /\ q[i].id \in Nat /\ q[j].id \in Nat
      BY <1>1
    <3>2. q[i].id # q[j].id
      BY <3>1, <1>4
    <3> QED BY <3>2
  <2>2. number \in [F -> N]
    BY <1>2
  <2>3. \A n \in N : \E i \in F : number[i] = n
    BY <1>3
  <2> HIDE DEF number
  <2>4. number \in Bijection(F, N)
    BY <2>1, <2>2, <2>3 DEF Bijection, Injection, Surjection, IsInjective
  <2>5. ExistsBijection(F, N)
    BY <2>4 DEF ExistsBijection
  <2> QED BY <2>5, <1>1, FS_Bijection
<1>6. ASSUME NEW o \in F, \A j \in F : o <= j PROVE o \in 1 .. Len(q) /\ Oldest(N) = q[o].id
  <2>1. ASSUME NEW n \in N PROVE q[o].id <= n
    <3>1. PICK i \in F : q[i].id = n
      BY <1>3
    <3>2. o = i \/ o < i
      BY <1>1, <1>6
    <3>3. q[o].id \in Nat /\ n \in Nat
      BY <1>1, <3>1
    <3> QED BY <3>1, <3>2, <3>3, <1>4
  <2>2. N \subseteq Nat
    BY NumbersOf DEF N, FeedbackNumbers
  <2> QED BY <2>1, <2>2, <1>1, <1>2, OldestIs
<1> QED BY <1>5, <1>6 DEF F, N

\* The requests nobody answered, by caller: at most one each.
OneByCaller(R) == \A e, f \in R : e.by = f.by => e = f

LEMMA AskedOf ==
  ASSUME NEW R, OneByCaller(R), NEW c
  PROVE  /\ \A e \in R : e.by = c => Asked(R, c) = e.id
         /\ (\A e \in R : e.by # c) => Asked(R, c) = 0
<1>1. ASSUME NEW e \in R, e.by = c PROVE Asked(R, c) = e.id
  <2>1. (CHOOSE f \in R : f.by = c) = e
    BY <1>1 DEF OneByCaller
  <2> QED BY <1>1, <2>1 DEF Asked
<1> QED BY <1>1 DEF Asked

\* A request is made, or answered.
LEMMA AskedMore ==
  ASSUME NEW R, OneByCaller(R), NEW e, \A f \in R : f.by # e.by, NEW c
  PROVE  Asked(R \cup {e}, c) = IF c = e.by THEN e.id ELSE Asked(R, c)
<1> DEFINE T == R \cup {e}
<1>1. OneByCaller(T)
  BY DEF OneByCaller
<1>2. CASE c = e.by
  BY <1>1, <1>2, AskedOf
<1>3. CASE c # e.by /\ \E f \in R : f.by = c
  <2>1. PICK f \in R : f.by = c
    BY <1>3
  <2>2. f \in T
    OBVIOUS
  <2> HIDE DEF T
  <2>3. Asked(T, c) = f.id /\ Asked(R, c) = f.id
    BY <1>1, <2>1, <2>2, AskedOf
  <2> QED BY <1>3, <2>3 DEF T
<1>4. CASE c # e.by /\ \A f \in R : f.by # c
  <2>1. \A f \in T : f.by # c
    BY <1>4
  <2> HIDE DEF T
  <2>2. Asked(T, c) = 0 /\ Asked(R, c) = 0
    BY <1>1, <1>4, <2>1, AskedOf
  <2> QED BY <1>4, <2>2 DEF T
<1> QED BY <1>2, <1>3, <1>4

LEMMA AskedLess ==
  ASSUME NEW R, OneByCaller(R), NEW e \in R, NEW c
  PROVE  Asked(R \ {e}, c) = IF c = e.by THEN 0 ELSE Asked(R, c)
<1> DEFINE T == R \ {e}
<1>1. OneByCaller(T) /\ R = T \cup {e} /\ \A f \in T : f.by # e.by
  BY DEF OneByCaller
<1> HIDE DEF T
<1>2. c = e.by => Asked(T, c) = 0
  BY <1>1, AskedOf
<1>3. Asked(T \cup {e}, c) = IF c = e.by THEN e.id ELSE Asked(T, c)
  BY <1>1, AskedMore
<1> QED BY <1>1, <1>2, <1>3 DEF T

\* Who is blocked, and on what.
LEMMA UnansweredAre ==
  ASSUME CommandInv
  PROVE  /\ OneByCaller(Unanswered)
         /\ \A e \in Unanswered : /\ e \in Command /\ ~IsFeedback(e)
                                  /\ e.id \in Nat \ {0} /\ e.by \in Callers /\ Waits(e.by)
         /\ \A e : e \in Unanswered <=>
              ~IsFeedback(e) /\ ((\E i \in 1 .. Len(queue) : queue[i] = e) \/ (InHand /\ e = command))
<1>1. /\ CommandType /\ WaitInv /\ RunInv /\ DOMAIN queue = 1 .. Len(queue)
      /\ \A i \in 1 .. Len(queue) : queue[i] \in Command
  BY QueueOf DEF CommandInv
<1>2. \A e : e \in Unanswered <=>
        ~IsFeedback(e) /\ ((\E i \in 1 .. Len(queue) : queue[i] = e) \/ (InHand /\ e = command))
  BY <1>1 DEF Unanswered, Range
<1>3. \A e \in Command : e.id \in Nat \ {0} /\ e.by \in Callers
  BY CapacityAssumption DEF Command, Ids
<1>4. ASSUME NEW e \in Unanswered
      PROVE  e \in Command /\ ~IsFeedback(e) /\ e.id \in Nat \ {0} /\ e.by \in Callers /\ Waits(e.by)
  <2>1. CASE \E i \in 1 .. Len(queue) : queue[i] = e
    BY <2>1, <1>1, <1>2, <1>3 DEF WaitInv
  <2>2. CASE InHand /\ e = command
    BY <2>2, <1>1, <1>2, <1>3 DEF WaitInv, RunInv, InHand
  <2> QED BY <2>1, <2>2, <1>2
<1>5. OneByCaller(Unanswered)
  <2> SUFFICES ASSUME NEW e \in Unanswered, NEW f \in Unanswered, e.by = f.by PROVE e = f
    BY DEF OneByCaller
  <2>1. ~IsFeedback(e) /\ ~IsFeedback(f)
    BY <1>2
  <2>2. ASSUME NEW i \in 1 .. Len(queue), NEW j \in 1 .. Len(queue), queue[i] = e, queue[j] = f
        PROVE  e = f
    BY <2>1, <2>2, <1>1 DEF WaitInv, OneEach
  <2>3. ASSUME InHand, ~IsFeedback(command), NEW i \in 1 .. Len(queue), ~IsFeedback(queue[i])
        PROVE  queue[i].by # command.by
    BY <2>3, <1>1 DEF WaitInv, InHand
  <2> QED BY <1>2, <2>1, <2>2, <2>3
<1> QED BY <1>2, <1>4, <1>5

\* What every step shows: the worker's command stays the oldest, and the
\* service takes a step or none.
Serves == HandInv' /\ (Service!Next \/ UNCHANGED Service!vars)

\* Steps of one party alone: the service does not notice them.
LEMMA ServiceStutters ==
  ASSUME ServiceInv, UNCHANGED <<queue, command, log, running, response>>,
         wpc' = wpc \/ (wpc \in {"check", "wait"} /\ wpc' \in {"check", "wait"})
  PROVE  Serves
<1>1. InHand' = InHand /\ (wpc' \notin {"stop", "drain", "gone"}) = (wpc \notin {"stop", "drain", "gone"})
  BY DEF InHand
<1>2. HandInv'
  BY <1>1 DEF ServiceInv, HandInv
<1>3. Held' = Held /\ Numbers(queue)' = Numbers(queue) /\ Unanswered' = Unanswered
  BY <1>1 DEF Held, Numbers, Unanswered, Range, IsFeedback
<1>4. Asks' = Asks
  BY <1>3 DEF Asks, Asked
<1> QED BY <1>1, <1>2, <1>3, <1>4 DEF Serves, Service!vars

\* An answer is picked up by the caller it was meant for.
LEMMA ServiceCollects ==
  ASSUME ServiceInv, NEW c \in Callers, Receive(c)
  PROVE  Serves
<1>1. /\ response[c] # "none" /\ response' = [response EXCEPT ![c] = "none"]
      /\ UNCHANGED <<queue, command, log, running, wpc>>
  BY DEF Receive, workerVars
<1>2. InHand' = InHand
  BY <1>1 DEF InHand
<1>3. HandInv'
  BY <1>1, <1>2 DEF ServiceInv, HandInv
<1>4. Held' = Held /\ Numbers(queue)' = Numbers(queue) /\ Unanswered' = Unanswered
  BY <1>1, <1>2 DEF Held, Numbers, Unanswered, Range, IsFeedback
<1>5. Asks' = Asks
  BY <1>4 DEF Asks, Asked
<1>6. Service!Collect(c)
  BY <1>1, <1>4, <1>5 DEF Service!Collect
<1> QED BY <1>3, <1>6 DEF Serves, Service!Next

\* A command that joins the queue is newer than the one in the worker's hands.
LEMMA AcceptedIsNewer ==
  ASSUME ServiceInv, NEW q \in Seq(Command), NEW e \in Command, e.id = Len(log) + 1,
         \A j \in 1 .. Len(q) : \E k \in 1 .. Len(queue) : q[j] = queue[k],
         queue' = Append(q, e), log' = Append(log, e.kind), UNCHANGED <<wpc, command>>
  PROVE  HandInv'
<1> SUFFICES ASSUME InHand
             PROVE  /\ command.id \in 1 .. Len(log') /\ log'[command.id] = command.kind
                    /\ \A j \in 1 .. Len(queue') : command.id < queue'[j].id
  BY DEF HandInv, InHand
<1>1. /\ command.id \in 1 .. Len(log) /\ log[command.id] = command.kind
      /\ \A k \in 1 .. Len(queue) : command.id < queue[k].id
  BY DEF ServiceInv, HandInv
<1>2. log \in Seq(Kinds) /\ e.kind \in Kinds
  BY DEF ServiceInv, CommandInv, CommandType, Command
<1>3. /\ Len(log') = Len(log) + 1 /\ Len(log) \in Nat
      /\ \A i \in 1 .. Len(log) : log'[i] = log[i]
  BY <1>2, AppendProperties, LenProperties
<1>4. /\ Len(queue') = Len(q) + 1 /\ queue'[Len(q) + 1] = e /\ Len(q) \in Nat
      /\ \A j \in 1 .. Len(q) : queue'[j] = q[j]
  BY AppendProperties, LenProperties
<1>5. ASSUME NEW j \in 1 .. Len(queue') PROVE command.id < queue'[j].id
  <2>1. j = Len(q) + 1 \/ j \in 1 .. Len(q)
    BY <1>4
  <2>2. CASE j = Len(q) + 1
    BY <2>2, <1>1, <1>3, <1>4
  <2>3. CASE j \in 1 .. Len(q)
    <3>1. PICK k \in 1 .. Len(queue) : q[j] = queue[k]
      BY <2>3
    <3> QED BY <2>3, <3>1, <1>1, <1>4
  <2> QED BY <2>1, <2>2, <2>3
<1> QED BY <1>1, <1>3, <1>5

\* What is in the queue after a command joined it.
LEMMA JoinedBy ==
  ASSUME NEW q \in Seq(Command), NEW e \in Command, NEW x
  PROVE  (\E j \in 1 .. Len(Append(q, e)) : Append(q, e)[j] = x) <=>
           x = e \/ \E k \in 1 .. Len(q) : q[k] = x
<1> DEFINE t == Append(q, e)
<1>1. /\ Len(t) = Len(q) + 1 /\ t[Len(q) + 1] = e /\ Len(q) \in Nat
      /\ \A j \in 1 .. Len(q) : t[j] = q[j]
  BY AppendProperties, LenProperties
<1>2. /\ Len(q) + 1 \in 1 .. Len(t) /\ 1 .. Len(q) \subseteq 1 .. Len(t)
      /\ \A j \in 1 .. Len(t) : j = Len(q) + 1 \/ j \in 1 .. Len(q)
  BY <1>1
<1> HIDE DEF t
<1> QED BY <1>1, <1>2 DEF t

\* A feature request is accepted as its caller's only one.
LEMMA ServiceAsks ==
  ASSUME ServiceInv, CommandInv', NEW c \in Callers, EnqueueFeature(c)
  PROVE  Serves
<1> DEFINE e == NewCommand(c)
<1>1. /\ CommandInv /\ CommandType /\ WaitInv /\ BacklogInv
      /\ cpc[c] = "enqueue" /\ kind[c] = "feature" /\ running /\ Len(log) < MaxCommands
      /\ queue' = Append(queue, e) /\ log' = Append(log, "feature")
      /\ response' = [response EXCEPT ![c] = "none"]
      /\ UNCHANGED <<running, wpc, command>>
  BY DEF ServiceInv, CommandInv, EnqueueFeature, Accept, NewCommand, workerVars, accepted
<1>2. /\ e \in Command /\ ~IsFeedback(e) /\ e.kind = "feature" /\ e.by = c
      /\ e.id = Len(log) + 1 /\ e.id # 0
  <2>1. Len(log) + 1 \in Ids /\ Len(log) + 1 # 0
    BY <1>1, QueueOf, CapacityAssumption DEF Ids
  <2> QED BY <2>1, <1>1 DEF CommandType, Command, NewCommand, IsFeedback, accepted
<1> HIDE DEF e
<1>3. queue \in Seq(Command) /\ queue' \in Seq(Command)
  BY <1>1 DEF CommandInv, CommandType
<1>4. HandInv'
  BY <1>1, <1>2, <1>3, AcceptedIsNewer
<1>5. InHand' = InHand /\ Held' = Held
  BY <1>1 DEF InHand, Held
<1>6. Numbers(queue)' = Numbers(queue) \cup {Len(log) + 1}
  <2>1. Numbers(queue') = Numbers(queue) \cup {Len(log) + 1}
    BY <1>1, <1>2, <1>3, NumbersOfAppend
  <2> QED BY <2>1 DEF Numbers
<1>7. response[c] = "none" /\ response' = response
  BY <1>1 DEF CommandType, WaitInv
<1>8. /\ OneByCaller(Unanswered) /\ \A f \in Unanswered : f.by # c
      /\ Unanswered' = Unanswered \cup {e}
  <2>1. \A f : f \in Unanswered <=>
          ~IsFeedback(f) /\ ((\E i \in 1 .. Len(queue) : queue[i] = f) \/ (InHand /\ f = command))
    BY <1>1, UnansweredAre
  <2>2. DOMAIN queue' = 1 .. Len(queue')
    BY <1>3, LenProperties
  <2>3. \A f : f \in Unanswered' <=>
          ~IsFeedback(f) /\ ((\E i \in 1 .. Len(queue') : queue'[i] = f) \/ (InHand /\ f = command))
    BY <1>1, <1>5, <2>2 DEF Unanswered, Range, IsFeedback
  <2>4. \A f : (\E i \in 1 .. Len(queue') : queue'[i] = f) <=>
               f = e \/ \E k \in 1 .. Len(queue) : queue[k] = f
    BY <1>1, <1>2, <1>3, JoinedBy
  <2>5. Unanswered' = Unanswered \cup {e}
    BY <1>2, <2>1, <2>3, <2>4
  <2> QED BY <1>1, <2>5, UnansweredAre DEF Waits
<1>9. Asks[c] = 0 /\ Asks' = [Asks EXCEPT ![c] = Len(log) + 1]
  <2>1. \A d \in Callers : Asked(Unanswered', d) = IF d = c THEN Len(log) + 1 ELSE Asked(Unanswered, d)
    BY <1>2, <1>8, AskedMore
  <2>2. Asked(Unanswered, c) = 0
    BY <1>8, AskedOf
  <2>3. Asks' = [d \in Callers |-> Asked(Unanswered', d)]
    BY DEF Asks, Asked
  <2> QED BY <2>1, <2>2, <2>3 DEF Asks
<1>10. Service!Ask(c)
  BY <1>1, <1>5, <1>6, <1>7, <1>9 DEF Service!Ask, Service!Enter, Service!Number
<1> QED BY <1>4, <1>10 DEF Serves, Service!Next

\* Feedback is accepted; a full backlog gives up the oldest it holds.
LEMMA ServicePosts ==
  ASSUME ServiceInv, CommandInv', NEW c \in Callers, EnqueueFeedback(c)
  PROVE  Serves
<1> DEFINE e      == NewCommand(c)
           full   == Cardinality(Feedback(queue)) >= FeedbackCapacity
           oldest == CHOOSE i \in Feedback(queue) : \A j \in Feedback(queue) : i <= j
           q      == IF full THEN RemoveAt(queue, oldest) ELSE queue
<1>1. /\ CommandInv /\ CommandType /\ WaitInv /\ BacklogInv
      /\ cpc[c] = "enqueue" /\ kind[c] = "feedback" /\ running /\ Len(log) < MaxCommands
      /\ queue' = Append(q, e) /\ log' = Append(log, "feedback")
      /\ UNCHANGED <<running, wpc, command, response>>
  BY DEF ServiceInv, CommandInv, EnqueueFeedback, Accept, NewCommand, workerVars, accepted
<1>2. /\ e \in Command /\ IsFeedback(e) /\ e.kind = "feedback" /\ e.id = Len(log) + 1
  <2>1. Len(log) + 1 \in Ids
    BY <1>1, QueueOf, CapacityAssumption DEF Ids
  <2> QED BY <2>1, <1>1 DEF CommandType, Command, NewCommand, IsFeedback, accepted
<1> HIDE DEF e
<1>3. /\ queue \in Seq(Command) /\ queue' \in Seq(Command)
      /\ Ordered(queue) /\ OneEach(queue) /\ FromLog(queue, log)
  BY <1>1 DEF CommandInv, CommandType, WaitInv, BacklogInv
<1>4. full => /\ oldest \in Feedback(queue) /\ \A j \in Feedback(queue) : oldest <= j
              /\ oldest \in 1 .. Len(queue) /\ IsFeedback(queue[oldest])
  <2> SUFFICES ASSUME full
               PROVE  /\ oldest \in Feedback(queue) /\ \A j \in Feedback(queue) : oldest <= j
                      /\ oldest \in 1 .. Len(queue) /\ IsFeedback(queue[oldest])
    OBVIOUS
  <2>1. IsFiniteSet(Feedback(queue)) /\ Feedback(queue) \subseteq 1 .. Len(queue)
    BY <1>3, FeedbackIsHits
  <2>2. Feedback(queue) # {}
    <3>1. Cardinality(Feedback(queue)) # 0
      BY <2>1, CapacityAssumption, FS_CardinalityType
    <3> QED BY <3>1, FS_EmptySet
  <2>3. \E x \in Feedback(queue) : \A y \in Feedback(queue) : x <= y
    BY <2>1, <2>2, LeastOf
  <2>4. oldest \in Feedback(queue) /\ \A j \in Feedback(queue) : oldest <= j
    BY <2>3
  <2> HIDE DEF oldest
  <2> QED BY <2>1, <2>4 DEF Feedback
<1> HIDE DEF oldest
<1>5. /\ q \in Seq(Command)
      /\ \A j \in 1 .. Len(q) : \E k \in 1 .. Len(queue) : q[j] = queue[k]
      /\ \A k \in 1 .. Len(queue) : ~IsFeedback(queue[k]) => \E j \in 1 .. Len(q) : q[j] = queue[k]
      /\ Numbers(q) = IF full THEN Numbers(queue) \ {queue[oldest].id} ELSE Numbers(queue)
  <2>1. CASE full
    <3>1. q = RemoveAt(queue, oldest)
      BY <2>1
    <3>2. Numbers(RemoveAt(queue, oldest)) = Numbers(queue) \ {queue[oldest].id}
      BY <2>1, <1>3, <1>4, NumbersOfRemoveAt
    <3>3. /\ RemoveAt(queue, oldest) \in Seq(Command)
          /\ \A j \in 1 .. Len(RemoveAt(queue, oldest)) :
               \E k \in 1 .. Len(queue) : k # oldest /\ RemoveAt(queue, oldest)[j] = queue[k]
          /\ \A k \in 1 .. Len(queue) : k # oldest =>
               \E j \in 1 .. Len(RemoveAt(queue, oldest)) : RemoveAt(queue, oldest)[j] = queue[k]
      BY <2>1, <1>3, <1>4, AfterRemoval
    <3> HIDE DEF q
    <3> QED BY <2>1, <3>1, <3>2, <3>3, <1>4
  <2>2. CASE ~full
    BY <2>2, <1>3
  <2> QED BY <2>1, <2>2
<1>6. full <=> Cardinality(FeedbackNumbers(queue, log)) >= FeedbackCapacity
  BY <1>3, FeedbackWaiting
<1>7. full => Oldest(FeedbackNumbers(queue, log)) = queue[oldest].id
  BY <1>3, <1>4, FeedbackWaiting
<1> HIDE DEF full, q
<1>8. HandInv'
  BY <1>1, <1>2, <1>5, AcceptedIsNewer DEF ServiceInv
<1>9. InHand' = InHand /\ Held' = Held
  BY <1>1 DEF InHand, Held
<1>10. Numbers(queue)' = {Len(log) + 1} \cup Numbers(q)
  <2>1. Numbers(queue') = Numbers(q) \cup {Len(log) + 1}
    BY <1>1, <1>2, <1>5, NumbersOfAppend
  <2> QED BY <2>1 DEF Numbers
<1>11. Unanswered' = Unanswered
  <2>1. \A f : f \in Unanswered <=>
          ~IsFeedback(f) /\ ((\E i \in 1 .. Len(queue) : queue[i] = f) \/ (InHand /\ f = command))
    BY <1>1, UnansweredAre
  <2>2. DOMAIN queue' = 1 .. Len(queue')
    BY <1>3, LenProperties
  <2>3. \A f : f \in Unanswered' <=>
          ~IsFeedback(f) /\ ((\E i \in 1 .. Len(queue') : queue'[i] = f) \/ (InHand /\ f = command))
    BY <1>1, <1>9, <2>2 DEF Unanswered, Range, IsFeedback
  <2>4. \A f : (\E i \in 1 .. Len(queue') : queue'[i] = f) <=>
               f = e \/ \E k \in 1 .. Len(q) : q[k] = f
    BY <1>1, <1>2, <1>5, JoinedBy
  <2>5. \A f : ~IsFeedback(f) => ((\E k \in 1 .. Len(q) : q[k] = f) <=>
                                  (\E k \in 1 .. Len(queue) : queue[k] = f))
    BY <1>5
  <2> QED BY <1>2, <2>1, <2>3, <2>4, <2>5
<1>12. Asks' = Asks
  BY <1>11 DEF Asks, Asked
<1>13. Numbers(queue)' = {Len(log) + 1} \cup
         (IF Cardinality(FeedbackNumbers(queue, log)) >= FeedbackCapacity
          THEN Numbers(queue) \ {Oldest(FeedbackNumbers(queue, log))} ELSE Numbers(queue))
  BY <1>5, <1>6, <1>7, <1>10
<1>14. /\ Service!Feedback = FeedbackNumbers(queue, log)
       /\ \A T : Service!Oldest(T) = Oldest(T) /\ Service!Cardinality(T) = Cardinality(T)
  BY DEF Service!Feedback, FeedbackNumbers, Service!Oldest, Oldest, Service!Cardinality, Cardinality,
         Service!IsFiniteSet, IsFiniteSet
<1>15. Service!Post
  BY <1>1, <1>9, <1>12, <1>13, <1>14 DEF Service!Post, Service!Enter, Service!Number
<1> QED BY <1>8, <1>15 DEF Serves, Service!Next

\* The worker takes the oldest command that waits.
LEMMA ServiceServes ==
  ASSUME ServiceInv, CommandInv', WorkerTake
  PROVE  Serves
<1>1. /\ CommandInv /\ CommandType /\ BacklogInv
      /\ wpc = "wait" /\ wpc' = "process" /\ queue # <<>>
      /\ command' = queue[1] /\ queue' = Tail(queue)
      /\ UNCHANGED <<running, response, log>>
  <2>1. Head(queue) = queue[1]
    BY DEF ServiceInv, CommandInv, CommandType, WorkerTake
  <2> QED BY <2>1 DEF ServiceInv, CommandInv, WorkerTake, callerVars
<1>2. /\ queue \in Seq(Command) /\ queue' \in Seq(Command)
      /\ Ordered(queue) /\ OneEach(queue) /\ FromLog(queue, log)
  BY <1>1 DEF CommandInv, CommandType, WaitInv, BacklogInv
<1>3. queue' = RemoveAt(queue, 1) /\ 1 \in 1 .. Len(queue) /\ Len(queue) \in Nat
  BY <1>1, <1>2, TailIsRemoveAt, LenProperties
<1>4. /\ \A j \in 1 .. Len(queue') : \E k \in 1 .. Len(queue) : k # 1 /\ queue'[j] = queue[k]
      /\ \A k \in 1 .. Len(queue) : k # 1 => \E j \in 1 .. Len(queue') : queue'[j] = queue[k]
  <2>1. /\ \A j \in 1 .. Len(RemoveAt(queue, 1)) :
             \E k \in 1 .. Len(queue) : k # 1 /\ RemoveAt(queue, 1)[j] = queue[k]
        /\ \A k \in 1 .. Len(queue) : k # 1 =>
             \E j \in 1 .. Len(RemoveAt(queue, 1)) : RemoveAt(queue, 1)[j] = queue[k]
    BY <1>2, <1>3, AfterRemoval
  <2> QED BY <1>3, <2>1
<1>5. ~InHand /\ InHand' /\ Held = 0 /\ Held' = queue[1].id
  BY <1>1 DEF InHand, Held
<1>6. HandInv'
  <2>1. queue[1].id \in 1 .. Len(log) /\ log[queue[1].id] = queue[1].kind
    BY <1>2, <1>3 DEF FromLog
  <2>2. ASSUME NEW j \in 1 .. Len(queue') PROVE queue[1].id < queue'[j].id
    <3>1. PICK k \in 1 .. Len(queue) : k # 1 /\ queue'[j] = queue[k]
      BY <1>4
    <3>2. 1 < k
      BY <1>3, <3>1
    <3> QED BY <3>1, <3>2, <1>2, <1>3 DEF Ordered
  <2> QED BY <1>1, <2>1, <2>2 DEF HandInv
<1>7. /\ Numbers(queue) # {} /\ Oldest(Numbers(queue)) = queue[1].id
      /\ Numbers(queue)' = Numbers(queue) \ {queue[1].id}
  <2>1. Numbers(queue)' = Numbers(Tail(queue))
    BY <1>1 DEF Numbers
  <2> QED BY <1>1, <1>2, <2>1, HeadIsOldest
<1>8. Unanswered' = Unanswered
  <2>1. \A f : f \in Unanswered <=> ~IsFeedback(f) /\ \E i \in 1 .. Len(queue) : queue[i] = f
    BY <1>1, <1>5, UnansweredAre
  <2>2. DOMAIN queue' = 1 .. Len(queue')
    BY <1>2, LenProperties
  <2>3. \A f : f \in Unanswered' <=>
          ~IsFeedback(f) /\ ((\E i \in 1 .. Len(queue') : queue'[i] = f) \/ f = queue[1])
    BY <1>1, <1>5, <2>2 DEF Unanswered, Range, IsFeedback
  <2>4. \A f : (\E i \in 1 .. Len(queue') : queue'[i] = f) \/ f = queue[1] =>
               \E k \in 1 .. Len(queue) : queue[k] = f
    BY <1>3, <1>4
  <2>5. ASSUME NEW k \in 1 .. Len(queue)
        PROVE  (\E i \in 1 .. Len(queue') : queue'[i] = queue[k]) \/ queue[k] = queue[1]
    BY <1>4
  <2> QED BY <2>1, <2>3, <2>4, <2>5
<1>9. Asks' = Asks
  BY <1>8 DEF Asks, Asked
<1>10. Service!Serve
  <2>1. Service!Oldest(Numbers(queue)) = Oldest(Numbers(queue))
    BY DEF Service!Oldest, Oldest
  <2> QED BY <1>1, <1>5, <1>7, <1>9, <2>1 DEF Service!Serve
<1> QED BY <1>6, <1>10 DEF Serves, Service!Next

\* The outcome of a command goes to the caller that asked for it, if one did.
LEMMA ServiceFinishes ==
  ASSUME ServiceInv, NEW outcome \in Outcomes, Process(outcome)
  PROVE  Serves
<1>1. /\ CommandInv /\ CommandType /\ HandInv
      /\ wpc = "process" /\ wpc' = (IF outcome = "disconnect" THEN "stop" ELSE "check")
      /\ response' = IF IsFeedback(command) THEN response
                     ELSE [response EXCEPT ![command.by] = outcome]
      /\ UNCHANGED <<queue, running, command, log>>
  BY DEF ServiceInv, CommandInv, Process
<1>2. /\ InHand /\ ~InHand' /\ Held = command.id /\ Held' = 0
      /\ command \in Command /\ command.id # 0 /\ command.by \in Callers
  <2>1. command \in Command
    BY <1>1 DEF CommandInv, RunInv
  <2>2. command.id \in Ids /\ command.by \in Callers
    BY <2>1 DEF Command
  <2> QED BY <1>1, <2>1, <2>2, CapacityAssumption DEF InHand, Held, Ids
<1>3. HandInv' /\ Numbers(queue)' = Numbers(queue)
  BY <1>1, <1>2 DEF HandInv, Numbers
<1>4. /\ OneByCaller(Unanswered)
      /\ \A f \in Unanswered : f \in Command
      /\ \A f : f \in Unanswered <=>
           ~IsFeedback(f) /\ ((\E i \in 1 .. Len(queue) : queue[i] = f) \/ f = command)
  BY <1>1, <1>2, UnansweredAre
<1>5. \A i \in 1 .. Len(queue) : queue[i] # command /\ queue[i].id # command.id
  <2>1. \A i \in 1 .. Len(queue) : command.id < queue[i].id /\ command.id \in Nat
    BY <1>1, <1>2 DEF HandInv
  <2>2. \A i \in 1 .. Len(queue) : queue[i].id # command.id
    BY <2>1
  <2> QED BY <2>2
<1>6. Unanswered' = Unanswered \ {command}
  <2>1. DOMAIN queue = 1 .. Len(queue)
    BY <1>1, QueueOf
  <2>2. \A f : f \in Unanswered' <=> ~IsFeedback(f) /\ \E i \in 1 .. Len(queue) : queue[i] = f
    BY <1>1, <1>2, <2>1 DEF Unanswered, Range, IsFeedback
  <2> QED BY <2>2, <1>4, <1>5
<1>7. \A d \in Callers : Asked(Unanswered, d) = command.id <=> d = command.by /\ ~IsFeedback(command)
  <2> SUFFICES ASSUME NEW d \in Callers
               PROVE  Asked(Unanswered, d) = command.id <=> d = command.by /\ ~IsFeedback(command)
    OBVIOUS
  <2>1. CASE d = command.by /\ ~IsFeedback(command)
    BY <2>1, <1>4, AskedOf
  <2>2. CASE ~(d = command.by /\ ~IsFeedback(command)) /\ \E f \in Unanswered : f.by = d
    <3>1. PICK f \in Unanswered : f.by = d
      BY <2>2
    <3>2. Asked(Unanswered, d) = f.id /\ f # command
      BY <3>1, <2>2, <1>4, AskedOf
    <3>3. f.id # command.id
      BY <3>1, <3>2, <1>4, <1>5
    <3> QED BY <2>2, <3>2, <3>3
  <2>3. CASE ~(d = command.by /\ ~IsFeedback(command)) /\ \A f \in Unanswered : f.by # d
    BY <2>3, <1>2, <1>4, AskedOf
  <2> QED BY <2>1, <2>2, <2>3
<1>8. \A d \in Callers : Asked(Unanswered', d) =
        IF d = command.by /\ ~IsFeedback(command) THEN 0 ELSE Asked(Unanswered, d)
  <2>1. CASE IsFeedback(command)
    BY <2>1, <1>4, <1>6
  <2>2. CASE ~IsFeedback(command)
    BY <2>2, <1>4, <1>6, AskedLess
  <2> QED BY <2>1, <2>2
<1>9. LET told == {d \in Callers : Asks[d] = Held}
      IN  /\ response' = [d \in Callers |-> IF d \in told THEN outcome ELSE response[d]]
          /\ Asks' = [d \in Callers |-> IF d \in told THEN 0 ELSE Asks[d]]
  <2>1. /\ \A d \in Callers : Asks[d] = Asked(Unanswered, d)
        /\ Asks' = [d \in Callers |-> Asked(Unanswered', d)]
    BY DEF Asks, Asked
  <2>2. \A d \in Callers : Asks[d] = Held <=> d = command.by /\ ~IsFeedback(command)
    BY <1>2, <1>7, <2>1
  <2>3. Asks' = [d \in Callers |-> IF Asks[d] = Held THEN 0 ELSE Asks[d]]
    BY <1>8, <2>1, <2>2
  <2>4. response \in [Callers -> {"none"} \cup Outcomes]
    BY <1>1 DEF CommandType
  <2>5. response' = [d \in Callers |-> IF Asks[d] = Held THEN outcome ELSE response[d]]
    <3>1. CASE IsFeedback(command)
      BY <3>1, <1>1, <2>2, <2>4
    <3>2. CASE ~IsFeedback(command)
      BY <3>2, <1>1, <1>2, <2>2, <2>4
    <3> QED BY <3>1, <3>2
  <2> QED BY <2>3, <2>5
<1>10. (wpc' \notin {"stop", "drain", "gone"}) = (outcome # "disconnect")
  BY <1>1
<1>11. Service!Finish(outcome)
  BY <1>1, <1>2, <1>3, <1>9, <1>10 DEF Service!Finish, Service!Tell
<1> QED BY <1>3, <1>11 DEF Serves, Service!Next, Outcomes

\* Where nobody waits, nobody asks.
LEMMA NobodyAsks ==
  ASSUME CommandInv, \A c \in Callers : cpc[c] = "idle"
  PROVE  Service!Askers = {}
<1>1. \A c \in Callers : \A f \in Unanswered : f.by # c
  BY UnansweredAre DEF Waits
<1>2. \A c \in Callers : Asked(Unanswered, c) = 0
  BY <1>1, UnansweredAre, AskedOf
<1> QED BY <1>2 DEF Service!Askers, Asks

\* The flag falls: nothing is accepted any more.
LEMMA ServiceCloses ==
  ASSUME ServiceInv, StopFlag \/ DropBridge
  PROVE  Serves
<1>1. /\ running' = FALSE /\ UNCHANGED <<queue, command, response, log>>
      /\ (wpc' \notin {"stop", "drain", "gone"}) = (wpc \notin {"stop", "drain", "gone"})
      /\ InHand' = InHand
  BY DEF StopFlag, DropBridge, BeginDrop, workerVars, callerVars, historyVars, InHand
<1>2. HandInv'
  BY <1>1 DEF ServiceInv, HandInv
<1>3. Held' = Held /\ Numbers(queue)' = Numbers(queue) /\ Unanswered' = Unanswered
  BY <1>1 DEF Held, Numbers, Unanswered, Range, IsFeedback
<1>4. Asks' = Asks
  BY <1>3 DEF Asks, Asked
<1>5. ~(wpc \notin {"stop", "drain", "gone"}) \/ Service!Askers = {}
  BY NobodyAsks DEF ServiceInv, StopFlag, DropBridge
<1>6. Service!Close
  BY <1>1, <1>3, <1>4, <1>5 DEF Service!Close
<1> QED BY <1>2, <1>6 DEF Serves, Service!Next

\* The worker of a dropped bridge leaves: nobody waits for it.
LEMMA ServiceRetires ==
  ASSUME ServiceInv, wpc \in {"check", "wait"}, ~running, wpc' = "gone",
         UNCHANGED <<queue, command, log, running, response>>
  PROVE  Serves
<1>1. owner # "alive" /\ \A c \in Callers : cpc[c] = "idle"
  BY DEF ServiceInv, CommandInv, RunInv
<1>2. Service!Askers = {}
  BY <1>1, NobodyAsks DEF ServiceInv
<1>3. ~InHand /\ ~InHand' /\ Held = 0 /\ Held' = 0
  BY DEF InHand, Held
<1>4. HandInv'
  BY <1>3 DEF HandInv
<1>5. Numbers(queue)' = Numbers(queue) /\ Unanswered' = Unanswered
  BY <1>3 DEF Numbers, Unanswered, Range, IsFeedback
<1>6. Asks' = Asks
  BY <1>5 DEF Asks, Asked
<1>7. Service!Retire
  BY <1>2, <1>3, <1>5, <1>6 DEF Service!Retire
<1> QED BY <1>4, <1>7 DEF Serves, Service!Next

\* What a failed worker leaves behind is refused, and whoever waits is told.
LEMMA ServiceGivesUp ==
  ASSUME ServiceInv, Drain
  PROVE  Serves
<1>1. /\ CommandInv /\ CommandType
      /\ wpc = "drain" /\ wpc' = "gone" /\ queue' = <<>>
      /\ response' = [c \in Callers |->
           IF \E i \in DOMAIN queue : queue[i].by = c /\ ~IsFeedback(queue[i])
           THEN "disconnect" ELSE response[c]]
      /\ UNCHANGED <<running, command, log>> /\ ~running
  BY DEF ServiceInv, CommandInv, RunInv, Drain
<1>2. ~InHand /\ ~InHand' /\ Held = 0 /\ Held' = 0
  BY <1>1 DEF InHand, Held
<1>3. HandInv'
  BY <1>2 DEF HandInv
<1>4. DOMAIN queue' = {} /\ DOMAIN queue = 1 .. Len(queue)
  BY <1>1, QueueOf
<1>5. Numbers(queue)' = {} /\ Unanswered' = {}
  BY <1>2, <1>4 DEF Numbers, Unanswered, Range
<1>6. /\ OneByCaller(Unanswered)
      /\ \A f \in Unanswered : f.id # 0
      /\ \A f : f \in Unanswered <=> ~IsFeedback(f) /\ \E i \in 1 .. Len(queue) : queue[i] = f
  BY <1>1, <1>2, UnansweredAre
<1>7. \A c \in Callers : Asks[c] # 0 <=>
        \E i \in DOMAIN queue : queue[i].by = c /\ ~IsFeedback(queue[i])
  <2> SUFFICES ASSUME NEW c \in Callers
               PROVE  Asked(Unanswered, c) # 0 <=> \E f \in Unanswered : f.by = c
    BY <1>4, <1>6 DEF Asks
  <2>1. CASE \E f \in Unanswered : f.by = c
    BY <2>1, <1>6, AskedOf
  <2>2. CASE \A f \in Unanswered : f.by # c
    BY <2>2, <1>6, AskedOf
  <2> QED BY <2>1, <2>2
<1>8. Asks' = [c \in Callers |-> 0]
  BY <1>5 DEF Asks, Asked
<1>9. /\ response' = [c \in Callers |-> IF c \in Service!Askers THEN "disconnect" ELSE response[c]]
      /\ Asks' = [c \in Callers |-> IF c \in Service!Askers THEN 0 ELSE Asks[c]]
  <2>1. \A c \in Callers : c \in Service!Askers <=> Asks[c] # 0
    BY DEF Service!Askers
  <2>2. Asks' = [c \in Callers |-> IF c \in Service!Askers THEN 0 ELSE Asks[c]]
    BY <1>8, <2>1
  <2> QED BY <1>1, <1>7, <2>1, <2>2
<1>10. Service!GiveUp
  BY <1>1, <1>2, <1>5, <1>9 DEF Service!GiveUp, Service!Tell
<1> QED BY <1>3, <1>10 DEF Serves, Service!Next

-----------------------------------------------------------------------------

\* A bridge just created serves.
LEMMA ServiceBegins == Init => HandInv /\ Service!Init
<1> SUFFICES ASSUME Init PROVE HandInv /\ Service!Init
  OBVIOUS
<1>1. DOMAIN queue = {} /\ ~InHand
  BY DEF Init, InHand
<1>2. Numbers(queue) = {} /\ Unanswered = {} /\ Held = 0
  BY <1>1 DEF Numbers, Unanswered, Range, Held
<1>3. Asks = [c \in Callers |-> 0]
  BY <1>2 DEF Asks, Asked
<1> QED BY <1>1, <1>2, <1>3 DEF HandInv, Service!Init, Init, BridgeInit

LEMMA StepServes == ServiceInv /\ CommandInv' /\ [Next]_vars => Serves
<1> SUFFICES ASSUME ServiceInv, CommandInv', [Next]_vars PROVE Serves
  OBVIOUS
<1>1. ASSUME NEW c \in Callers, CallerStep(c) PROVE Serves
  <2>1. CASE EnqueueStopped(c)
    BY <2>1, ServiceStutters DEF EnqueueStopped, workerVars
  <2> QED BY <1>1, <2>1, ServiceAsks, ServicePosts, ServiceCollects DEF CallerStep
<1>2. ASSUME NEW c \in Callers, NEW k \in Kinds, Begin(c, k) PROVE Serves
  BY <1>2, ServiceStutters DEF Begin, workerVars
<1>3. CASE WorkerStep
  <2>1. ASSUME NEW outcome \in Outcomes, Process(outcome) PROVE Serves
    BY <2>1, ServiceFinishes
  <2>2. CASE WorkerCheck
    BY <2>2, ServiceStutters, ServiceRetires DEF WorkerCheck, callerVars, historyVars
  <2>3. CASE WorkerNoCommand
    BY <2>3, ServiceRetires DEF WorkerNoCommand, callerVars, historyVars
  <2> QED BY <1>3, <2>1, <2>2, <2>3, ServiceServes, ServiceCloses, ServiceGivesUp DEF WorkerStep
<1>4. CASE DropBridge
  BY <1>4, ServiceCloses
<1>5. CASE JoinWorker
  BY <1>5, ServiceStutters DEF JoinWorker, Join, workerVars, callerVars, historyVars
<1>6. CASE UNCHANGED vars
  BY <1>6, ServiceStutters DEF vars, bridgeVars, workerVars, callerVars, historyVars
<1> QED BY <1>1, <1>2, <1>3, <1>4, <1>5, <1>6 DEF Next

\* The command path implements the service it promises, for any number of
\* callers, any capacity and any number of commands: every accepted command is
\* served at most once and in the order of acceptance, a full backlog loses its
\* oldest feedback and nothing else, a host that stopped answering is sent
\* nothing more, and each blocked caller is told the outcome of its own request.
THEOREM ImplementsService == Spec => ServiceSpec
<1>1. Init => ServiceInv /\ Service!Init
  BY InitCommandInv, ServiceBegins DEF ServiceInv
<1>2. ServiceInv /\ [Next]_vars => ServiceInv' /\ [Service!Next]_(Service!vars)
  BY StepCommandInv, StepServes DEF ServiceInv, Serves
<1> QED BY <1>1, <1>2, PTL DEF Spec, ServiceSpec, Service!Spec
-----------------------------------------------------------------------------
(* The input path *)

Report == [source : Sources, seq : Nat]

\* Types, and what is queued is in the order in which it came.
InputType ==
  /\ inputs \in Seq(Report)
  /\ pushed \in Nat /\ popped \in Nat
  /\ preferred \in Wireless \cup {NoInterface}
  /\ delivered \in [Sources -> [seq : Nat, to : Interfaces \cup {NoInterface}]]
Ascending(q) == \A i, j \in 1 .. Len(q) : i < j => q[i].seq < q[j].seq

\* Nothing is newer than the last report pushed.
NothingNewer ==
  /\ \A i \in 1 .. Len(inputs) : inputs[i].seq <= pushed
  /\ \A s \in Sources : delivered[s].seq <= pushed

InputInv == InputType /\ Ascending(inputs) /\ NothingNewer /\ NoStaleInputLeft

\* The latest of some places.
LEMMA LatestOf ==
  ASSUME NEW n \in Nat, NEW T, T \subseteq 1 .. n, T # {}
  PROVE  \E x \in T : \A y \in T : y <= x
<1> DEFINE R == {y \in 0 .. n : n - y \in T}
<1>1. R \subseteq Nat
  OBVIOUS
<1>2. IsFiniteSet(R)
  <2>1. R \in SUBSET (0 .. n)
    OBVIOUS
  <2>2. IsFiniteSet(0 .. n)
    BY FS_Interval
  <2> HIDE DEF R
  <2> QED BY <2>1, <2>2, FS_Subset
<1>3. R # {}
  <2>1. PICK x \in T : TRUE
    OBVIOUS
  <2>2. n - x \in 0 .. n /\ n - (n - x) = x
    OBVIOUS
  <2> QED BY <2>2
<1>4. PICK m \in R : \A y \in R : m <= y
  BY <1>1, <1>2, <1>3, LeastOf
<1>5. ASSUME NEW y \in T PROVE y <= n - m
  <2>1. n - y \in R
    <3>1. n - y \in 0 .. n /\ n - (n - y) = y
      OBVIOUS
    <3> QED BY <3>1
  <2> QED BY <1>4, <2>1
<1> QED BY <1>4, <1>5

\* The reports at some places of a queue.
Chosen(q, kept) == [i \in DOMAIN kept |-> q[kept[i]]]

\* What stays of a queue keeps its order and all of its reports.
LEMMA StayingKeeps ==
  ASSUME NEW q \in Seq(Report), Ascending(q), NEW found, found \subseteq 1 .. Len(q),
         NEW kept \in InOrder(Staying(q, found))
  PROVE  /\ Chosen(q, kept) \in Seq(Report) /\ Ascending(Chosen(q, kept))
         /\ \A i \in 1 .. Len(Chosen(q, kept)) :
              \E k \in 1 .. Len(q) : k \notin found /\ Chosen(q, kept)[i] = q[k]
         /\ \A k \in 1 .. Len(q) :
              k \notin found => \E i \in 1 .. Len(Chosen(q, kept)) : Chosen(q, kept)[i] = q[k]
<1> DEFINE places == Staying(q, found)
           n == Cardinality(places)
           r == Chosen(q, kept)
<1>1. Len(q) \in Nat /\ DOMAIN q = 1 .. Len(q) /\ \A i \in 1 .. Len(q) : q[i] \in Report
  BY LenProperties, ElementOfSeq
<1>2. places = (1 .. Len(q)) \ found
  BY <1>1 DEF Staying
<1>3. IsFiniteSet(places) /\ n \in Nat
  <2>1. places \in SUBSET (1 .. Len(q))
    BY <1>2
  <2>2. IsFiniteSet(1 .. Len(q))
    BY <1>1, FS_Interval
  <2>3. IsFiniteSet(places)
    BY <2>1, <2>2, FS_Subset
  <2> QED BY <2>3, FS_CardinalityType
<1>4. kept \in [1 .. n -> places] /\ \A i, j \in 1 .. n : i < j => kept[i] < kept[j]
  <2>1. kept \in [1 .. n -> places] /\ \A i, j \in DOMAIN kept : i < j => kept[i] < kept[j]
    <3>1. kept \in InOrder(places)
      OBVIOUS
    <3> HIDE DEF places
    <3> QED BY <3>1 DEF InOrder, n
  <2>2. DOMAIN kept = 1 .. n
    BY <2>1
  <2> QED BY <2>1, <2>2
<1> HIDE DEF places, n
<1>5. \A i \in 1 .. n : kept[i] \in 1 .. Len(q) /\ kept[i] \notin found
  BY <1>2, <1>4
<1>6. r \in [1 .. n -> Report] /\ \A i \in 1 .. n : r[i] = q[kept[i]]
  BY <1>1, <1>4, <1>5 DEF Chosen
<1> HIDE DEF r
<1>7. r \in Seq(Report) /\ Len(r) = n
  BY <1>3, <1>6, SeqDef, LenProperties
<1>8. Ascending(r)
  BY <1>4, <1>5, <1>6, <1>7 DEF Ascending
<1>9. ASSUME NEW k \in places PROVE \E i \in 1 .. n : kept[i] = k
  <2>1. kept \in Injection(1 .. n, places)
    <3>1. \A i, j \in 1 .. n : kept[i] = kept[j] => i = j
      <4> SUFFICES ASSUME NEW i \in 1 .. n, NEW j \in 1 .. n, kept[i] = kept[j], i # j PROVE FALSE
        OBVIOUS
      <4>1. i < j \/ j < i
        BY <1>3
      <4>2. kept[i] \in Nat
        BY <1>1, <1>5
      <4> QED BY <4>1, <4>2, <1>4
    <3> QED BY <1>4, <3>1, Fun_IsInj
  <2>2. Cardinality(1 .. n) = Cardinality(places)
    BY <1>3, FS_Interval DEF n
  <2>3. kept \in Surjection(1 .. n, places)
    BY <1>3, <2>1, <2>2, FS_Injection
  <2> QED BY <2>3 DEF Surjection
<1> QED BY <1>2, <1>5, <1>6, <1>7, <1>8, <1>9 DEF r

\* A queue that was full has lost its oldest report; the rest is unchanged.
LEMMA DroppingOldest ==
  ASSUME NEW q \in Seq(Report), Ascending(q), q # << >>
  PROVE  /\ Tail(q) \in Seq(Report) /\ Ascending(Tail(q))
         /\ \A i \in 1 .. Len(Tail(q)) : \E k \in 1 .. Len(q) : Tail(q)[i] = q[k]
<1> DEFINE rest == Tail(q)
<1>1. Len(q) \in Nat
  BY LenProperties
<1>2. rest \in Seq(Report) /\ Len(rest) = Len(q) - 1 /\ \A i \in 1 .. Len(rest) : rest[i] = q[i + 1]
  BY HeadTailProperties
<1> HIDE DEF rest
<1>3. ASSUME NEW i \in 1 .. Len(rest) PROVE i \in Nat /\ i + 1 \in 1 .. Len(q)
  <2>1. i \in 1 .. (Len(q) - 1)
    BY <1>2
  <2> QED BY <1>1, <2>1
<1>4. Ascending(rest)
  <2> SUFFICES ASSUME NEW a \in 1 .. Len(rest), NEW b \in 1 .. Len(rest), a < b
               PROVE  rest[a].seq < rest[b].seq
    BY DEF Ascending
  <2>1. a + 1 < b + 1
    <3>1. a \in Nat /\ b \in Nat
      BY <1>3
    <3> QED BY <3>1
  <2> QED BY <1>2, <1>3, <2>1 DEF Ascending
<1>5. \A i \in 1 .. Len(rest) : \E k \in 1 .. Len(q) : rest[i] = q[k]
  BY <1>2, <1>3
<1> QED BY <1>2, <1>4, <1>5 DEF rest

\* A report newer than every queued one goes to the back of the queue.
LEMMA Queueing ==
  ASSUME NEW rest \in Seq(Report), Ascending(rest), NEW r \in Report,
         \A i \in 1 .. Len(rest) : rest[i].seq < r.seq
  PROVE  /\ Append(rest, r) \in Seq(Report) /\ Ascending(Append(rest, r))
         /\ \A i \in 1 .. Len(Append(rest, r)) :
              Append(rest, r)[i] = r \/ \E k \in 1 .. Len(rest) : Append(rest, r)[i] = rest[k]
<1> DEFINE q == Append(rest, r)
<1>1. Len(rest) \in Nat
  BY LenProperties
<1>2. q \in Seq(Report) /\ Len(q) = Len(rest) + 1
      /\ (\A i \in 1 .. Len(rest) : q[i] = rest[i]) /\ q[Len(rest) + 1] = r
  BY AppendProperties
<1> HIDE DEF q
<1>3. \A i \in 1 .. Len(q) : i \in 1 .. Len(rest) \/ i = Len(rest) + 1
  BY <1>1, <1>2
<1>4. Ascending(q)
  <2> SUFFICES ASSUME NEW a \in 1 .. Len(q), NEW b \in 1 .. Len(q), a < b
               PROVE  q[a].seq < q[b].seq
    BY DEF Ascending
  <2>1. a \in 1 .. Len(rest)
    BY <1>1, <1>2
  <2>2. CASE b \in 1 .. Len(rest)
    BY <1>2, <2>1, <2>2 DEF Ascending
  <2>3. CASE b = Len(rest) + 1
    BY <1>2, <2>1, <2>3
  <2> QED BY <1>3, <2>2, <2>3
<1>5. \A i \in 1 .. Len(q) : q[i] = r \/ \E k \in 1 .. Len(rest) : q[i] = rest[k]
  BY <1>2, <1>3
<1> QED BY <1>2, <1>4, <1>5 DEF q

\* A report is found for an interface together with all queued reports of its
\* source.
LEMMA FoundBySource ==
  ASSUME NEW q \in Seq(Report), NEW interface, NEW route,
         NEW m \in Matching(q, interface, route),
         NEW k \in 1 .. Len(q), q[k].source = q[m].source
  PROVE  k \in Matching(q, interface, route)
<1>1. DOMAIN q = 1 .. Len(q)
  BY LenProperties
<1>2. Exact(q[k], interface, route) <=> Exact(q[m], interface, route)
  BY DEF Exact
<1>3. Routed(q[k], interface, route) <=> Routed(q[m], interface, route)
  BY DEF Routed
<1> QED BY <1>1, <1>2, <1>3 DEF Matching

\* What handing out a report does, in terms of the reports rather than of
\* their places.
LEMMA Handing ==
  ASSUME InputInv, NEW interface \in Interfaces, Pop(interface)
  PROVE  \E m \in 1 .. Len(inputs) :
           /\ m \in Matching(inputs, interface, preferred)
           /\ \A k \in Matching(inputs, interface, preferred) : k \in 1 .. Len(inputs) /\ k <= m
           /\ delivered' = [delivered EXCEPT ![inputs[m].source] =
                               [seq |-> inputs[m].seq, to |-> interface]]
           /\ inputs' \in Seq(Report) /\ Ascending(inputs')
           /\ \A i \in 1 .. Len(inputs') :
                \E k \in 1 .. Len(inputs) : inputs'[i] = inputs[k] /\ inputs[k].source # inputs[m].source
           /\ \A k \in 1 .. Len(inputs) :
                k \notin Matching(inputs, interface, preferred)
                  => \E i \in 1 .. Len(inputs') : inputs'[i] = inputs[k]
<1> DEFINE found == Matching(inputs, interface, preferred)
           m == CHOOSE i \in found : \A j \in found : j <= i
<1>1. inputs \in Seq(Report) /\ Ascending(inputs) /\ Len(inputs) \in Nat /\ DOMAIN inputs = 1 .. Len(inputs)
  BY LenProperties DEF InputInv, InputType
<1>2. found \subseteq 1 .. Len(inputs)
  BY <1>1 DEF Matching
<1>3. found # {} /\ delivered' = [delivered EXCEPT ![inputs[m].source] =
                                    [seq |-> inputs[m].seq, to |-> interface]]
  BY DEF Pop
<1>4. PICK kept \in InOrder(Staying(inputs, found)) :
        inputs' = Chosen(inputs, kept)
  BY DEF Pop, Chosen
<1>5. m \in found /\ \A k \in found : k <= m
  <2>1. \E x \in found : \A y \in found : y <= x
    BY <1>1, <1>2, <1>3, LatestOf
  <2> HIDE DEF found
  <2> QED BY <2>1
<1>6. \A k \in 1 .. Len(inputs) : inputs[k].source = inputs[m].source => k \in found
  BY <1>1, <1>5, FoundBySource
<1> HIDE DEF found, m
<1>7. /\ inputs' \in Seq(Report) /\ Ascending(inputs')
      /\ \A i \in 1 .. Len(inputs') : \E k \in 1 .. Len(inputs) : k \notin found /\ inputs'[i] = inputs[k]
      /\ \A k \in 1 .. Len(inputs) : k \notin found => \E i \in 1 .. Len(inputs') : inputs'[i] = inputs[k]
  <2>1. kept \in InOrder(Staying(inputs, found))
    BY <1>4
  <2>2. Chosen(inputs, kept) \in Seq(Report) /\ Ascending(Chosen(inputs, kept))
    BY <1>1, <1>2, <2>1, StayingKeeps
  <2>3. \A i \in 1 .. Len(Chosen(inputs, kept)) :
          \E k \in 1 .. Len(inputs) : k \notin found /\ Chosen(inputs, kept)[i] = inputs[k]
    BY <1>1, <1>2, <2>1, StayingKeeps
  <2>4. \A k \in 1 .. Len(inputs) :
          k \notin found => \E i \in 1 .. Len(Chosen(inputs, kept)) : Chosen(inputs, kept)[i] = inputs[k]
    BY <1>1, <1>2, <2>1, StayingKeeps
  <2> QED BY <1>4, <2>2, <2>3, <2>4
<1>8. \A i \in 1 .. Len(inputs') :
        \E k \in 1 .. Len(inputs) : inputs'[i] = inputs[k] /\ inputs[k].source # inputs[m].source
  BY <1>6, <1>7
<1>9. m \in 1 .. Len(inputs) /\ \A k \in found : k \in 1 .. Len(inputs) /\ k <= m
  BY <1>2, <1>5
<1> QED BY <1>3, <1>5, <1>7, <1>8, <1>9 DEF found

LEMMA InputBegins ==
  ASSUME InputInit
  PROVE  InputInv
<1>1. inputs = << >> /\ << >> \in Seq(Report) /\ Len(inputs) = 0
  BY EmptySeq DEF InputInit
<1>2. 1 .. Len(inputs) = {} /\ DOMAIN inputs = {}
  BY <1>1
<1>3. InputType
  BY <1>1 DEF InputInit, InputType
<1>4. NothingNewer
  BY <1>2 DEF InputInit, NothingNewer
<1> QED BY <1>2, <1>3, <1>4 DEF InputInv, Ascending, NoStaleInputLeft

LEMMA InputStays ==
  ASSUME InputInv, [InputNext]_inputVars
  PROVE  InputInv'
<1> USE InterfaceAssumption, QueueAssumption
<1>1. inputs \in Seq(Report) /\ Ascending(inputs) /\ Len(inputs) \in Nat /\ DOMAIN inputs = 1 .. Len(inputs)
  BY LenProperties DEF InputInv, InputType
<1>2. \A i \in 1 .. Len(inputs) : inputs[i] \in Report
  BY <1>1, ElementOfSeq
<1>3. ASSUME NEW source \in Sources, PumpReport(source) PROVE InputInv'
  <2> DEFINE rest == IF Len(inputs) >= Capacity THEN Tail(inputs) ELSE inputs
             report == [source |-> source, seq |-> pushed + 1]
  <2>1. pushed \in Nat /\ pushed' = pushed + 1 /\ report \in Report
    BY <1>3 DEF PumpReport, InputInv, InputType, Report
  <2>2. inputs' = Append(rest, report)
    BY <1>3 DEF PumpReport
  <2>3. rest = inputs \/ (inputs # << >> /\ rest = Tail(inputs))
    <3>1. Len(inputs) >= Capacity => inputs # << >>
      <4>1. Capacity \in Nat /\ Capacity # 0
        OBVIOUS
      <4>2. Len(<< >>) = 0
        BY EmptySeq
      <4> QED BY <4>1, <4>2
    <3> QED BY <3>1
  <2> HIDE DEF rest
  <2>4. /\ rest \in Seq(Report) /\ Ascending(rest)
        /\ \A i \in 1 .. Len(rest) : \E k \in 1 .. Len(inputs) : rest[i] = inputs[k]
    <3>1. CASE rest = inputs
      BY <1>1, <3>1
    <3>2. CASE inputs # << >> /\ rest = Tail(inputs)
      BY <1>1, <3>2, DroppingOldest
    <3> QED BY <2>3, <3>1, <3>2
  <2>5. \A k \in 1 .. Len(inputs) : inputs[k].seq <= pushed /\ inputs[k].seq \in Nat
    BY <1>2 DEF InputInv, NothingNewer, Report
  <2>6. \A i \in 1 .. Len(rest) : rest[i].seq < report.seq
    BY <2>1, <2>4, <2>5
  <2> HIDE DEF report
  <2>7. /\ inputs' \in Seq(Report) /\ Ascending(inputs')
        /\ \A i \in 1 .. Len(inputs') : inputs'[i] = report \/ \E k \in 1 .. Len(rest) : inputs'[i] = rest[k]
    BY <2>1, <2>2, <2>4, <2>6, Queueing
  <2>8. \A i \in 1 .. Len(inputs') : inputs'[i] = report \/ \E k \in 1 .. Len(inputs) : inputs'[i] = inputs[k]
    BY <2>4, <2>7
  <2>9. delivered' = delivered /\ preferred' = preferred /\ popped' = popped
    BY <1>3 DEF PumpReport
  <2>10. \A s \in Sources : delivered[s].seq \in Nat /\ delivered[s].seq <= pushed
    BY DEF InputInv, InputType, NothingNewer
  <2>11. InputType'
    BY <2>1, <2>7, <2>9 DEF InputInv, InputType
  <2>12. NothingNewer'
    <3>1. \A i \in 1 .. Len(inputs') : inputs'[i].seq <= pushed'
      BY <2>1, <2>5, <2>8 DEF report
    <3>2. \A s \in Sources : delivered'[s].seq <= pushed'
      BY <2>1, <2>9, <2>10
    <3> QED BY <3>1, <3>2 DEF NothingNewer, Sources, Interfaces
  <2>13. NoStaleInputLeft'
    <3> SUFFICES ASSUME NEW i \in DOMAIN inputs' PROVE inputs'[i].seq > delivered'[inputs'[i].source].seq
      BY DEF NoStaleInputLeft
    <3>1. i \in 1 .. Len(inputs')
      BY <2>7, LenProperties
    <3>2. CASE inputs'[i] = report
      BY <2>1, <2>9, <2>10, <3>2 DEF report
    <3>3. CASE \E k \in 1 .. Len(inputs) : inputs'[i] = inputs[k]
      BY <1>1, <2>9, <3>3 DEF InputInv, NoStaleInputLeft
    <3> QED BY <2>8, <3>1, <3>2, <3>3
  <2> QED BY <2>7, <2>11, <2>12, <2>13 DEF InputInv
<1>4. ASSUME NEW interface \in Interfaces, Pop(interface) PROVE InputInv'
  <2>1. PICK m \in 1 .. Len(inputs) :
           /\ delivered' = [delivered EXCEPT ![inputs[m].source] =
                               [seq |-> inputs[m].seq, to |-> interface]]
           /\ inputs' \in Seq(Report) /\ Ascending(inputs')
           /\ \A i \in 1 .. Len(inputs') :
                \E k \in 1 .. Len(inputs) : inputs'[i] = inputs[k] /\ inputs[k].source # inputs[m].source
    BY <1>4, Handing
  <2>2. pushed' = pushed /\ preferred' = preferred /\ popped' = popped + 1
    BY <1>4 DEF Pop
  <2>3. inputs[m].source \in Sources /\ inputs[m].seq \in Nat /\ inputs[m].seq <= pushed
    BY <1>2 DEF InputInv, NothingNewer, Report
  <2>4. delivered' \in [Sources -> [seq : Nat, to : Interfaces \cup {NoInterface}]]
    BY <2>1, <2>3 DEF InputInv, InputType
  <2>5. \A s \in Sources : delivered'[s] = IF s = inputs[m].source
                                   THEN [seq |-> inputs[m].seq, to |-> interface] ELSE delivered[s]
    BY <2>1 DEF InputInv, InputType
  <2>6. InputType'
    BY <2>1, <2>2, <2>4 DEF InputInv, InputType
  <2>7. NothingNewer'
    <3>1. \A i \in 1 .. Len(inputs') : inputs'[i].seq <= pushed
      BY <2>1 DEF InputInv, NothingNewer
    <3>2. \A s \in Sources : delivered'[s].seq <= pushed
      BY <2>3, <2>5 DEF InputInv, NothingNewer
    <3> QED BY <2>2, <3>1, <3>2 DEF NothingNewer, Sources, Interfaces
  <2>8. NoStaleInputLeft'
    <3> SUFFICES ASSUME NEW i \in DOMAIN inputs' PROVE inputs'[i].seq > delivered'[inputs'[i].source].seq
      BY DEF NoStaleInputLeft
    <3>1. i \in 1 .. Len(inputs')
      BY <2>1, LenProperties
    <3>2. PICK k \in 1 .. Len(inputs) : inputs'[i] = inputs[k] /\ inputs[k].source # inputs[m].source
      BY <2>1, <3>1
    <3>3. inputs[k].source \in Sources
      BY <1>2 DEF Report
    <3>4. delivered'[inputs[k].source] = delivered[inputs[k].source]
      BY <2>5, <3>2, <3>3
    <3> QED BY <1>1, <3>2, <3>4 DEF InputInv, NoStaleInputLeft
  <2> QED BY <2>1, <2>6, <2>7, <2>8 DEF InputInv
<1>5. ASSUME inputs' = inputs, delivered' = delivered, pushed' = pushed, popped' = popped,
             preferred' \in Wireless \cup {NoInterface}
      PROVE  InputInv'
  BY <1>5 DEF InputInv, InputType, Ascending, NothingNewer, NoStaleInputLeft,
     Sources, Interfaces
<1>6. preferred \in Wireless \cup {NoInterface}
  BY DEF InputInv, InputType
<1>7. CASE PumpTimeout \/ PumpCheck \/ PumpError
  BY <1>5, <1>6, <1>7 DEF PumpTimeout, PumpCheck, PumpError, statVars
<1>8. CASE CommandWorkerStops \/ DropReader \/ JoinPump
  BY <1>5, <1>6, <1>8 DEF CommandWorkerStops, DropReader, JoinPump, BeginDrop, Join, statVars
<1>9. ASSUME NEW interface \in Wireless, NEW registered \in BOOLEAN,
             FeatureReply(interface, registered)
      PROVE  InputInv'
  BY <1>5, <1>6, <1>9 DEF FeatureReply, statVars
<1>10. CASE UNCHANGED inputVars
  BY <1>5, <1>6, <1>10 DEF inputVars, bridgeVars, statVars
<1> QED BY <1>3, <1>4, <1>7, <1>8, <1>9, <1>10 DEF InputNext, PumpStep

\* Reports of one source are handed out in the order in which they came, and
\* what a reader has overtaken is gone: whatever the interfaces, the capacity
\* and the number of reports, however the route of wireless input changes and
\* wherever a full queue drops its oldest.
THEOREM InputNeverGoesBack ==
  InputSpec => []NoStaleInputLeft
<1>1. InputInit => InputInv
  BY InputBegins
<1>2. InputInv /\ [InputNext]_inputVars => InputInv'
  BY InputStays
<1>3. InputInv => NoStaleInputLeft
  BY DEF InputInv
<1> QED BY <1>1, <1>2, <1>3, PTL DEF InputSpec

\* While one wireless interface is preferred, wireless input is handed out by
\* that interface or stays queued: no reader of another one takes or discards
\* it.
THEOREM InputWaitsForItsInterface ==
  InputSpec => WirelessInputHeld
<1> USE InterfaceAssumption, QueueAssumption
<1>1. ASSUME InputInv, [InputNext]_inputVars, NEW i \in DOMAIN inputs,
             inputs[i].source = Triton, preferred # NoInterface, popped' # popped
      PROVE  \/ \E j \in DOMAIN inputs' : inputs'[j] = inputs[i]
             \/ delivered'[Triton].seq >= inputs[i].seq /\ delivered'[Triton].to = preferred
  <2>1. PICK interface \in Interfaces : Pop(interface)
    BY <1>1 DEF InputNext, inputVars, bridgeVars, statVars, PumpStep, PumpReport,
       PumpTimeout, PumpCheck, PumpError, FeatureReply,
       CommandWorkerStops, DropReader, JoinPump
  <2> DEFINE found == Matching(inputs, interface, preferred)
  <2>2. inputs \in Seq(Report) /\ Ascending(inputs) /\ Len(inputs) \in Nat /\ DOMAIN inputs = 1 .. Len(inputs)
    BY <1>1, LenProperties DEF InputInv, InputType
  <2>3. PICK m \in 1 .. Len(inputs) :
           /\ m \in found /\ \A k \in found : k \in 1 .. Len(inputs) /\ k <= m
           /\ delivered' = [delivered EXCEPT ![inputs[m].source] =
                               [seq |-> inputs[m].seq, to |-> interface]]
           /\ inputs' \in Seq(Report)
           /\ \A k \in 1 .. Len(inputs) : k \notin found => \E j \in 1 .. Len(inputs') : inputs'[j] = inputs[k]
    BY <1>1, <2>1, Handing
  <2>4. CASE i \notin found
    <3>1. DOMAIN inputs' = 1 .. Len(inputs')
      BY <2>3, LenProperties
    <3> HIDE DEF found
    <3> QED BY <1>1, <2>2, <2>3, <2>4, <3>1
  <2>5. CASE i \in found
    <3>1. ~Exact(inputs[i], interface, preferred)
      BY <1>1, <2>1 DEF Exact, Interfaces
    <3>2. found = {k \in DOMAIN inputs : Routed(inputs[k], interface, preferred)}
      BY <1>1, <2>5, <3>1 DEF Matching
    <3>3. Routed(inputs[m], interface, preferred)
      BY <2>3, <3>2
    <3>4. inputs[m].source = Triton /\ interface = preferred
      BY <1>1, <3>3 DEF Routed
    <3>5. delivered \in [Sources -> [seq : Nat, to : Interfaces \cup {NoInterface}]]
          /\ Triton \in Sources
      BY <1>1 DEF InputInv, InputType, Sources
    <3>6. delivered'[Triton] = [seq |-> inputs[m].seq, to |-> preferred]
      BY <2>3, <3>4, <3>5
    <3>7. inputs[i].seq \in Nat /\ inputs[m].seq \in Nat /\ i \in Nat /\ m \in Nat
      <4>1. i \in 1 .. Len(inputs) /\ i \in Nat /\ m \in Nat
        BY <2>2
      <4>2. inputs[i] \in Report /\ inputs[m] \in Report
        BY <2>2, <4>1, ElementOfSeq
      <4> QED BY <4>1, <4>2 DEF Report
    <3>8. i = m \/ i < m
      <4>1. i <= m
        BY <2>3, <2>5
      <4> QED BY <3>7, <4>1
    <3>9. inputs[m].seq >= inputs[i].seq
      BY <1>1, <2>2, <3>7, <3>8 DEF Ascending
    <3> QED BY <3>6, <3>9
  <2> QED BY <2>4, <2>5
<1>2. InputInit => InputInv
  BY InputBegins
<1>3. InputInv /\ [InputNext]_inputVars => InputInv'
  BY InputStays
<1>4. InputInv /\ [InputNext]_inputVars =>
        [\A i \in DOMAIN inputs :
           (inputs[i].source = Triton /\ preferred # NoInterface /\ popped' # popped) =>
              \/ \E j \in DOMAIN inputs' : inputs'[j] = inputs[i]
              \/ delivered'[Triton].seq >= inputs[i].seq /\ delivered'[Triton].to = preferred]_inputVars
  BY <1>1
<1> QED BY <1>2, <1>3, <1>4, PTL DEF InputSpec, WirelessInputHeld

=============================================================================
