--------------------------- MODULE HostSessionProofs ---------------------------
(***************************************************************************)
(* The safety of the host's session and of its way to the controller, for  *)
(* any number of attempts, any cadence of reopening and any graces.        *)
(***************************************************************************)
EXTENDS HostSession, SequenceLemmas

Places   == {"bind", "accept", "off", "hello", "open", "openReader", "attach"} \cup Attached
Handles  == {"good", "stale"}
ReaderRecords == [role : Roles, handle : Handles, errors : Nat, age : Nat,
                  since : Nat, denied : BOOLEAN]

HostType ==
  /\ pc \in Places /\ ipc \in {"none", "test", "read", "done"}
  /\ stop \in BOOLEAN /\ force \in BOOLEAN /\ running \in BOOLEAN
  /\ feedback \in SUBSET Roles /\ requested \in BOOLEAN

BackendType ==
  /\ attached \in SUBSET Roles
  /\ command \in Handles /\ cached \in Handles \cup {"none"}
  /\ target \in Roles \cup {"none"}
  /\ attempt \in Nat /\ refused \in Nat /\ away \in BOOLEAN

\* The input thread lives as long as the attached session.
ThreadInv == ipc # "none" <=> pc \in Serving \cup {"join"}

\* While the main device rumbles in reach, a session has a live handle on it.
FeedbackInv == "PuckMain" \in feedback => command = "good" /\ pc \in Attached

\* A request that a session will see was made after its Hello.
RequestInv == force /\ pc \in Attached \cup {"open", "openReader", "attach"} => requested

\* While its collection stays, a command wastes one attempt at most: the first,
\* on a handle that died before.  Every other one met a refusal, of the handle
\* or of a new one.
CommandInv ==
  /\ pc \in {"attempt", "refresh"} =>
       /\ target # "none"
       /\ away \/ (target \in attached /\ refused >= attempt - 1)
  /\ pc = "attempt" => /\ attempt < Attempts
                       /\ Handle = "stale" => away \/ refused >= attempt
  /\ pc = "refresh" => target = "PuckMain"
  /\ PresentDeviceIsReached

\* Unless a reopening of its was denied, a reader with errors open has been
\* without a live handle for as long as they are old.
Sound(r, roles) ==
  /\ r.handle = "good" => r.role \in roles
  /\ r.errors = 0 => r.age = 0 /\ r.since = 0 /\ ~r.denied
  /\ ~r.denied => /\ r.errors > 0 => r.handle = "stale"
                  /\ r.since = r.age

\* The input thread has readers to read from.
Needed == ipc \in {"test", "read"} \/ pc = "attach"

ReadersInv ==
  /\ readers \in Seq(ReaderRecords) /\ next_index \in Nat
  /\ Needed => next_index < Len(readers)
  /\ \A i \in 1 .. Len(readers) : Sound(readers[i], attached)

HostInv ==
  HostType /\ BackendType /\ ThreadInv /\ FeedbackInv /\ RequestInv /\ CommandInv /\ ReadersInv

\* The actions by what they are about.
Listening  == Bind \/ SupervisorStops \/ ProbePuck \/ AcceptFails \/ AcceptControl \/ HelloRead
Failing    == HelloFails \/ OpenFails \/ AttachFails
Watching   == CheckStop \/ TakeReconnectRequest \/ InputOver \/ NoCommand
Answering  == AttemptSucceeds \/ FailureAccepted \/ AnswerFailure
Commanding == ReadCommand \/ OpenForCommand \/ OpenForCommandFails \/ AttemptFails \/ Refresh
Halting    == InputStops \/ InputWriteFails \/ InputGivesUp
Reading    == InputNothing \/ InputReport \/ InputErrs

\* Every step is one of these.
LEMMA StepKinds ==
  ASSUME Next
  PROVE  \/ Listening \/ Failing \/ Watching \/ Answering \/ Commanding \/ Halting \/ Reading
         \/ OpenDevice \/ OpenReader \/ StartSession \/ JoinInput \/ CleanupFeedback
         \/ InputTest \/ RequestReconnect \/ Shutdown
         \/ \E role \in Roles : Unplug(role) \/ Plug(role)
BY DEF Next, Supervisor, InputThread, Listening, Failing, Watching, Answering, Commanding,
       Halting, Reading

-----------------------------------------------------------------------------
(* The readers *)

LEMMA FreshReader ==
  ASSUME NEW roles \in SUBSET Roles, NEW role \in Roles
  PROVE  /\ Reader(role) \in ReaderRecords
         /\ role \in roles => Sound(Reader(role), roles)
BY DEF Reader, ReaderRecords, Handles, Sound

\* Time ages both clocks of a reader with a dead handle, and only the first of
\* one that was denied.
LEMMA OlderReader ==
  ASSUME NEW r \in ReaderRecords, NEW roles, Sound(r, roles)
  PROVE  Older(r) \in ReaderRecords /\ Sound(Older(r), roles)
<1>1. DisconnectGrace \in Nat
  BY HidBackendAssumption
<1>2. Least(r.age + 1, DisconnectGrace) \in Nat
  BY <1>1 DEF Least, ReaderRecords
<1>3. CASE r.errors = 0
  BY <1>3 DEF Older
<1>4. CASE r.errors # 0
  <2>1. r.denied \in BOOLEAN /\ r.age \in Nat /\ r.since \in Nat
    BY DEF ReaderRecords
  <2>2. CASE r.denied
    <3>1. Older(r) = [r EXCEPT !.age = Least(r.age + 1, DisconnectGrace), !.since = 0]
      BY <1>4, <2>2 DEF Older, ReaderRecords
    <3>2. Older(r) \in ReaderRecords
      <4>1. \A age, since \in Nat : [r EXCEPT !.age = age, !.since = since] \in ReaderRecords
        BY DEF ReaderRecords
      <4> QED BY <1>2, <3>1, <4>1
    <3>3. /\ Older(r).handle = r.handle /\ Older(r).role = r.role
          /\ Older(r).errors = r.errors /\ Older(r).denied = r.denied
      BY <3>1 DEF ReaderRecords
    <3> QED BY <1>4, <2>2, <3>2, <3>3 DEF Sound
  <2>3. CASE ~r.denied
    <3>1. r.handle = "stale" /\ r.since = r.age
      BY <1>4, <2>3 DEF Sound, ReaderRecords
    <3>2. Older(r) = [r EXCEPT !.age = Least(r.age + 1, DisconnectGrace),
                               !.since = Least(r.age + 1, DisconnectGrace)]
      BY <1>4, <2>3, <3>1 DEF Older, ReaderRecords
    <3> HIDE DEF Older
    <3> QED BY <1>2, <1>4, <2>3, <3>1, <3>2 DEF ReaderRecords, Sound
  <2> QED BY <2>1, <2>2, <2>3
<1> QED BY <1>3, <1>4

\* One reader of the list in another state.
LEMMA ReaderReplaced ==
  ASSUME ReadersInv, NEW r \in ReaderRecords, Sound(r, attached),
         NEW i \in 1 .. Len(readers)
  PROVE  LET rs == [readers EXCEPT ![i] = r]
         IN  /\ rs \in Seq(ReaderRecords) /\ Len(rs) = Len(readers)
             /\ \A j \in 1 .. Len(rs) : Sound(rs[j], attached)
BY ExceptSeq DEF ReadersInv

\* The next reader's index is that of a reader.
LEMMA NextIndexInRange ==
  ASSUME ReadersInv, next_index < Len(readers)
  PROVE  /\ next_index + 1 \in 1 .. Len(readers)
         /\ Current \in ReaderRecords /\ Sound(Current, attached)
         /\ NextIndex \in Nat /\ NextIndex < Len(readers)
<1>1. Len(readers) \in Nat /\ next_index \in Nat
  BY LenProperties DEF ReadersInv
<1>2. next_index + 1 \in 1 .. Len(readers)
  BY <1>1
<1>3. Current \in ReaderRecords
  BY <1>2, ElementOfSeq DEF Current, ReadersInv
<1>4. NextIndex \in Nat /\ NextIndex < Len(readers)
  BY <1>1 DEF NextIndex
<1> QED BY <1>2, <1>3, <1>4 DEF Current, ReadersInv

\* A step of the input thread that reads leaves it readers to read from.
LEMMA ReadingKeepsReaders ==
  ASSUME HostInv, Reading
  PROVE  /\ readers' \in Seq(ReaderRecords) /\ next_index' \in Nat
         /\ next_index' < Len(readers')
         /\ \A i \in 1 .. Len(readers') : Sound(readers'[i], attached)
         /\ ipc' \in {"test", "read"}
         /\ UNCHANGED <<stop, force, appState, pc, running, feedback, requested>>
         /\ UNCHANGED <<attached, command, cached, serveVars>>
<1>1. /\ ipc = "read" /\ ipc' \in {"test", "read"}
      /\ UNCHANGED <<stop, force, appState, pc, running, feedback, requested>>
      /\ UNCHANGED <<attached, command, cached, serveVars>>
      /\ \/ ReadAnswers \/ ReadReport
         \/ \E grace \in Graces : ReadFails(grace) \/ ReaderRemoved(grace)
  BY DEF Reading, InputNothing, InputReport, InputErrs, NextRead, ReadAnswers, ReadReport,
         ReadFails, ReaderRemoved
<1>2. BackendType /\ ReadersInv /\ next_index < Len(readers)
  BY <1>1 DEF HostInv, ReadersInv, Needed
<1>3. /\ next_index + 1 \in 1 .. Len(readers) /\ Len(readers) \in Nat /\ next_index \in Nat
      /\ Current \in ReaderRecords /\ Sound(Current, attached)
      /\ NextIndex \in Nat /\ NextIndex < Len(readers)
  BY <1>2, NextIndexInRange, LenProperties DEF ReadersInv
<1> DEFINE Kept(rs) == /\ rs \in Seq(ReaderRecords) /\ Len(rs) = Len(readers)
                       /\ \A j \in 1 .. Len(rs) : Sound(rs[j], attached)
<1>4. \A r \in ReaderRecords : Sound(r, attached) =>
        Kept([readers EXCEPT ![next_index + 1] = r])
  BY <1>2, <1>3, ReaderReplaced
<1>5. /\ Reader(Current.role) \in ReaderRecords
      /\ Current.role \in attached => Sound(Reader(Current.role), attached)
  BY <1>2, <1>3, FreshReader DEF BackendType, ReaderRecords
<1>6. ASSUME Current.handle = "good" PROVE Kept(ReadWell(readers))
  BY <1>3, <1>4, <1>5, <1>6 DEF ReadWell, Sound
<1>7. ASSUME NEW rs, Kept(rs) PROVE Kept([i \in DOMAIN readers |-> Older(rs[i])])
  <2>1. DOMAIN readers = 1 .. Len(readers)
    BY <1>2, LenProperties DEF ReadersInv
  <2>2. \A i \in 1 .. Len(readers) :
          Older(rs[i]) \in ReaderRecords /\ Sound(Older(rs[i]), attached)
    BY <1>7, OlderReader, ElementOfSeq
  <2> DEFINE older == [i \in DOMAIN readers |-> Older(rs[i])]
  <2>3. older \in [1 .. Len(readers) -> ReaderRecords]
    BY <2>1, <2>2
  <2>4. older \in Seq(ReaderRecords) /\ Len(older) = Len(readers)
    BY <2>3, <1>3, SeqDef, LenProperties
  <2>5. \A i \in 1 .. Len(readers) : older[i] = Older(rs[i])
    BY <2>1
  <2> QED BY <2>2, <2>4, <2>5
<1> HIDE DEF Kept
<1>8. CASE ReadAnswers
  BY <1>8, <1>1, <1>3, <1>6 DEF ReadAnswers, Kept
<1>9. CASE ReadReport
  <2>1. Kept(readers') /\ next_index' = NextIndex
    BY <1>9, <1>6, <1>7 DEF ReadReport
  <2> QED BY <2>1, <1>1, <1>3 DEF Kept
<1>10. ASSUME NEW grace, ReadFails(grace)
       PROVE  Kept(readers') /\ next_index' = NextIndex
  <2>1. PICK reopened \in MayReopen :
          readers' = [readers EXCEPT ![next_index + 1] = Older(AfterError(reopened))]
    BY <1>10 DEF ReadFails
  <2>2. /\ AfterError(reopened) \in ReaderRecords /\ Sound(AfterError(reopened), attached)
    <3>1. CASE reopened
      <4>1. Current.role \in attached
        BY <2>1, <3>1 DEF MayReopen, MayOpen
      <4> QED BY <4>1, <3>1, <1>5 DEF AfterError
    <3>2. CASE ~reopened
      <4> DEFINE denied == Current.denied \/ (TriesToReopen /\ Current.role \in attached)
      <4>1. Current.handle \in Handles /\ Current.errors \in Nat
        BY <1>3 DEF ReaderRecords
      <4>2. Current.handle = "stale" \/ denied
        BY <4>1, <1>3 DEF Sound, TriesToReopen, Handles
      <4>3. Counted \in Nat \ {0}
        BY <4>1 DEF Counted
      <4>4. AfterError(reopened) = [Current EXCEPT !.errors = Counted, !.denied = denied]
        BY <3>2, <1>3 DEF AfterError, ReaderRecords
      <4>5. denied \in BOOLEAN /\ (Current.denied => denied)
        BY <1>3 DEF ReaderRecords
      <4> HIDE DEF AfterError, denied
      <4> QED BY <4>2, <4>3, <4>4, <4>5, <1>3 DEF ReaderRecords, Sound
    <3>3. reopened \in BOOLEAN
      BY <2>1 DEF MayReopen, MayOpen
    <3> QED BY <3>1, <3>2, <3>3
  <2>3. Older(AfterError(reopened)) \in ReaderRecords /\ Sound(Older(AfterError(reopened)), attached)
    BY <2>2, OlderReader
  <2> QED BY <2>1, <2>3, <1>4, <1>10 DEF ReadFails
<1>11. ASSUME NEW grace, ReaderRemoved(grace)
       PROVE  /\ readers' \in Seq(ReaderRecords) /\ next_index' \in Nat
              /\ next_index' < Len(readers')
              /\ \A i \in 1 .. Len(readers') : Sound(readers'[i], attached)
  <2>1. /\ readers' \in Seq(ReaderRecords) /\ Len(readers') = Len(readers) - 1
        /\ \A j \in 1 .. Len(readers) - 1 :
             readers'[j] = IF j < next_index + 1 THEN readers[j] ELSE readers[j + 1]
    BY <1>2, <1>3, <1>11, RemoveAtProperties DEF ReaderRemoved, ReadersInv
  <2>2. Len(readers) # 1 /\ Len(readers) > 0
    <3>1. Len(readers) # 1
      BY <1>11 DEF ReaderRemoved, EndsInput
    <3> QED BY <3>1, <1>3
  <2>3. next_index' \in Nat /\ next_index' <= Len(readers) - 2
    <3>1. next_index' = Least(NextIndex, Len(readers) - 2)
      BY <1>11 DEF ReaderRemoved
    <3>2. \A m \in Nat, n \in Nat : n > 0 /\ n # 1 => Least(m, n - 2) \in Nat /\ Least(m, n - 2) <= n - 2
      BY DEF Least
    <3> QED BY <3>1, <3>2, <1>3, <2>2
  <2>4. \A j \in 1 .. Len(readers') : Sound(readers'[j], attached)
    BY <1>2, <1>3, <2>1 DEF ReadersInv
  <2> QED BY <2>1, <2>3, <2>4, <1>3
<1> QED BY <1>1, <1>3, <1>8, <1>9, <1>10, <1>11 DEF Kept

\* The session's end closes the readers, a detached collection's lose their
\* handles, and an opening makes new ones.
LEMMA ReadersStep ==
  ASSUME HostInv, [Next]_vars
  PROVE  ReadersInv'
<1> USE DEF hostVars, deviceVars, serveVars, Goto, ReadersInv, Needed
<1>1. /\ readers \in Seq(ReaderRecords) /\ next_index \in Nat /\ attached \in SUBSET Roles
      /\ Needed => next_index < Len(readers)
      /\ \A i \in 1 .. Len(readers) : Sound(readers[i], attached)
  BY DEF HostInv, BackendType
<1>2. ASSUME UNCHANGED <<attached, readers, next_index>>, Needed' => Needed
      PROVE  ReadersInv'
  BY <1>1, <1>2
<1>3. CASE Listening \/ Watching \/ Commanding \/ Answering
  <2>1. UNCHANGED <<attached, readers, next_index>> /\ (Needed' => Needed)
    BY <1>3 DEF Listening, Watching, Commanding, Answering,
         Bind, SupervisorStops, ProbePuck, AcceptFails, AcceptControl, HelloRead,
         CheckStop, TakeReconnectRequest, InputOver, NoCommand,
         ReadCommand, Receive, OpenForCommand, OpenInterface, OpenForCommandFails, CannotOpen,
         AttemptFails, NotTaken, Refresh, RefreshMain,
         AttemptSucceeds, FailureAccepted, AnswerFailure, Answered, Forget
  <2> QED BY <1>2, <2>1
<1>4. CASE OpenDevice \/ StartSession \/ JoinInput \/ CleanupFeedback
  <2>1. UNCHANGED <<attached, readers, next_index>> /\ (Needed' => Needed)
    BY <1>4 DEF OpenDevice, OpenMainDevice, StartSession, JoinInput, CleanupFeedback, CloseBackend
  <2> QED BY <1>2, <2>1
<1>5. CASE InputTest \/ RequestReconnect \/ Shutdown \/ UNCHANGED vars
  <2>1. UNCHANGED <<attached, readers, next_index>> /\ (Needed' => Needed)
    BY <1>5 DEF InputTest, RequestReconnect, Shutdown, vars
  <2> QED BY <1>2, <2>1
<1>6. CASE Failing \/ Halting
  <2>1. readers' = <<>> /\ next_index' = 0
    BY <1>6 DEF Failing, SessionFails, HelloFails, OpenFails, AttachFails, CloseReaders,
         Halting, InputStops, InputWriteFails, InputGivesUp, InputEnds
  <2>2. ~Needed'
    <3>1. CASE Failing
      <4>1. pc \notin Serving \cup {"join"} /\ pc' = "accept" /\ ipc' = ipc
        BY <3>1 DEF Failing, SessionFails, HelloFails, OpenFails, AttachFails, Serving
      <4> QED BY <4>1 DEF HostInv, ThreadInv
    <3>2. CASE Halting
      <4>1. ipc # "none" /\ ipc' = "done" /\ pc' = pc
        BY <3>2 DEF Halting, InputStops, InputWriteFails, InputGivesUp, InputEnds
      <4> QED BY <4>1 DEF HostInv, ThreadInv, Serving
    <3> QED BY <1>6, <3>1, <3>2
  <2> QED BY <2>1, <2>2, EmptySeq
<1>7. CASE Reading
  BY <1>7, ReadingKeepsReaders
<1>8. CASE OpenReader
  <2>0. PICK n \in 1 .. Cardinality(attached) :
          \E roles \in [1 .. n -> attached] : readers' = [i \in 1 .. n |-> Reader(roles[i])]
    BY <1>8 DEF OpenReader, OpenInputReader
  <2>1. PICK roles \in [1 .. n -> attached] : readers' = [i \in 1 .. n |-> Reader(roles[i])]
    BY <2>0
  <2>2. n \in Nat \ {0}
    <3>1. IsFiniteSet(Roles)
      <4>1. IsFiniteSet({"PuckMain"} \cup {"PuckInterface3"})
        BY FS_Singleton, FS_Union
      <4> QED BY <4>1 DEF Roles
    <3>2. Cardinality(attached) \in Nat
      BY <3>1, <1>1, FS_Subset, FS_CardinalityType
    <3> QED BY <3>2
  <2>3. next_index' = 0 /\ UNCHANGED attached
    BY <1>8 DEF OpenReader, OpenInputReader
  <2>4. \A i \in 1 .. n : Reader(roles[i]) \in ReaderRecords /\ Sound(Reader(roles[i]), attached)
    BY <1>1, FreshReader
  <2>5. readers' \in Seq(ReaderRecords) /\ Len(readers') = n
    <3>1. readers' \in [1 .. n -> ReaderRecords]
      BY <2>1, <2>4
    <3> QED BY <3>1, <2>2, SeqDef, LenProperties
  <2>6. \A i \in 1 .. Len(readers') : Sound(readers'[i], attached')
    BY <2>1, <2>3, <2>4, <2>5
  <2> QED BY <2>2, <2>3, <2>5, <2>6
<1>9. ASSUME NEW role \in Roles, Unplug(role) PROVE ReadersInv'
  <2> DEFINE Cut(r) == IF r.role = role THEN [r EXCEPT !.handle = "stale"] ELSE r
  <2>1. /\ readers' = [i \in DOMAIN readers |-> Cut(readers[i])]
        /\ attached' = attached \ {role} /\ UNCHANGED <<next_index, ipc, pc>>
    BY <1>9 DEF Unplug, Detach
  <2>2. DOMAIN readers = 1 .. Len(readers) /\ Len(readers) \in Nat
    BY <1>1, LenProperties
  <2>3. ASSUME NEW r \in ReaderRecords, Sound(r, attached)
        PROVE  Cut(r) \in ReaderRecords /\ Sound(Cut(r), attached \ {role})
    BY <2>3 DEF ReaderRecords, Handles, Sound
  <2> HIDE DEF Cut
  <2>4. \A i \in 1 .. Len(readers) :
          Cut(readers[i]) \in ReaderRecords /\ Sound(Cut(readers[i]), attached')
    BY <1>1, <2>1, <2>3, ElementOfSeq
  <2>5. readers' \in Seq(ReaderRecords) /\ Len(readers') = Len(readers)
    <3>1. readers' \in [1 .. Len(readers) -> ReaderRecords]
      BY <2>1, <2>2, <2>4
    <3> QED BY <3>1, <2>2, SeqDef, LenProperties
  <2>6. \A i \in 1 .. Len(readers') : Sound(readers'[i], attached')
    BY <2>1, <2>2, <2>4, <2>5
  <2> QED BY <1>1, <2>1, <2>5, <2>6
<1>10. ASSUME NEW role \in Roles, Plug(role) PROVE ReadersInv'
  <2>1. /\ attached \subseteq attached' /\ UNCHANGED <<readers, next_index, ipc, pc>>
    BY <1>10 DEF Plug, Attach
  <2>2. \A i \in 1 .. Len(readers) : Sound(readers[i], attached')
    BY <1>1, <2>1 DEF Sound
  <2> QED BY <1>1, <2>1, <2>2
<1> HIDE DEF hostVars, deviceVars, serveVars, ReadersInv, Needed
<1>11. CASE UNCHANGED vars
  BY <1>5, <1>11
<1> QED BY <1>3, <1>4, <1>5, <1>6, <1>7, <1>8, <1>9, <1>10, <1>11, StepKinds

-----------------------------------------------------------------------------
(* The threads, the device and the command *)

LEMMA HostTypeStep ==
  ASSUME HostInv, [Next]_vars
  PROVE  HostType'
<1> USE DEF hostVars, Goto, HostType, Places, Serving, Attached
<1>1. HostType
  BY DEF HostInv
<1>2. CASE Listening \/ Watching \/ Commanding
  BY <1>1, <1>2 DEF Listening, Watching, Commanding,
     Bind, SupervisorStops, ProbePuck, AcceptFails, AcceptControl, HelloRead,
     CheckStop, TakeReconnectRequest, InputOver, NoCommand,
     ReadCommand, OpenForCommand, OpenForCommandFails, AttemptFails, Refresh
<1>3. CASE Failing \/ OpenDevice \/ OpenReader \/ StartSession \/ JoinInput \/ RequestReconnect \/ Shutdown
  BY <1>1, <1>3 DEF Failing, SessionFails, HelloFails, OpenFails, AttachFails,
     OpenDevice, OpenReader, StartSession, JoinInput, RequestReconnect, Shutdown
<1>4. CASE Answering
  <2>1. CASE AttemptSucceeds
    <3>1. target \in Roles
      BY <2>1 DEF AttemptSucceeds, HostInv, BackendType, CommandInv
    <3> QED BY <1>1, <2>1, <3>1 DEF AttemptSucceeds, Answered
  <2> QED BY <1>1, <1>4, <2>1 DEF Answering, Answered, FailureAccepted, AnswerFailure
<1>5. CASE CleanupFeedback
  BY <1>1, <1>5 DEF CleanupFeedback
<1>6. CASE Halting \/ InputTest
  BY <1>1, <1>6 DEF Halting, InputStops, InputWriteFails, InputGivesUp, InputEnds, InputTest
<1>7. CASE Reading
  BY <1>1, <1>7, ReadingKeepsReaders
<1>8. ASSUME NEW role \in Roles, Unplug(role) \/ Plug(role) PROVE HostType'
  BY <1>1, <1>8 DEF Unplug, Plug
<1>9. CASE UNCHANGED vars
  BY <1>1, <1>9 DEF vars
<1> QED BY <1>2, <1>3, <1>4, <1>5, <1>6, <1>7, <1>8, <1>9, StepKinds

LEMMA ThreadStep ==
  ASSUME HostInv, [Next]_vars
  PROVE  ThreadInv'
<1> USE DEF hostVars, Goto, ThreadInv, Serving
<1>1. ThreadInv
  BY DEF HostInv
<1>2. CASE Listening \/ Watching \/ Commanding
  BY <1>1, <1>2 DEF Listening, Watching, Commanding,
     Bind, SupervisorStops, ProbePuck, AcceptFails, AcceptControl, HelloRead,
     CheckStop, TakeReconnectRequest, InputOver, NoCommand,
     ReadCommand, OpenForCommand, OpenForCommandFails, AttemptFails, Refresh
<1>3. CASE Failing \/ OpenDevice \/ OpenReader \/ StartSession \/ JoinInput
  BY <1>1, <1>3 DEF Failing, SessionFails, HelloFails, OpenFails, AttachFails,
     OpenDevice, OpenReader, StartSession, JoinInput
<1>4. CASE Answering \/ CleanupFeedback
  BY <1>1, <1>4 DEF Answering, Answered, AttemptSucceeds, FailureAccepted, AnswerFailure, CleanupFeedback
<1>5. CASE Halting \/ InputTest \/ RequestReconnect \/ Shutdown
  BY <1>1, <1>5 DEF Halting, InputStops, InputWriteFails, InputGivesUp, InputEnds, InputTest,
     RequestReconnect, Shutdown
<1>6. CASE Reading
  BY <1>1, <1>6, ReadingKeepsReaders DEF Reading, InputNothing, InputReport, InputErrs
<1>7. ASSUME NEW role \in Roles, Unplug(role) \/ Plug(role) PROVE ThreadInv'
  BY <1>1, <1>7 DEF Unplug, Plug
<1>8. CASE UNCHANGED vars
  BY <1>1, <1>8 DEF vars
<1> QED BY <1>2, <1>3, <1>4, <1>5, <1>6, <1>7, <1>8, StepKinds

LEMMA BackendStep ==
  ASSUME HostInv, [Next]_vars
  PROVE  BackendType'
<1> USE DEF deviceVars, serveVars, BackendType, Handles
<1>1. BackendType
  BY DEF HostInv
<1>2. CASE UNCHANGED <<deviceVars, serveVars>>
  BY <1>1, <1>2
<1>3. CASE Listening \/ Watching \/ StartSession \/ JoinInput \/ InputTest \/ RequestReconnect \/ Shutdown
  BY <1>2, <1>3 DEF Listening, Watching,
     Bind, SupervisorStops, ProbePuck, AcceptFails, AcceptControl, HelloRead,
     CheckStop, TakeReconnectRequest, InputOver, NoCommand,
     StartSession, JoinInput, InputTest, RequestReconnect, Shutdown
<1>4. CASE Commanding \/ Answering
  <2>1. CASE ReadCommand
    BY <1>1, <2>1 DEF ReadCommand, Receive
  <2>2. CASE OpenForCommand \/ OpenForCommandFails \/ Refresh
    <3>1. refused' \in Nat
      <4>1. refused' \in {refused, Refused}
        BY <2>2 DEF OpenForCommand, OpenInterface, OpenForCommandFails, CannotOpen,
           Refresh, RefreshMain
      <4> QED BY <1>1, <4>1 DEF Refused
    <3>2. UNCHANGED <<attached, target, attempt, away>>
      BY <2>2 DEF OpenForCommand, OpenInterface, OpenForCommandFails, CannotOpen,
         Refresh, RefreshMain
    <3>3. command' \in Handles /\ cached' \in Handles \cup {"none"}
      BY <1>1, <2>2 DEF OpenForCommand, OpenInterface, OpenForCommandFails, CannotOpen,
         Refresh, RefreshMain
    <3> QED BY <1>1, <3>1, <3>2, <3>3
  <2>3. CASE AttemptFails
    BY <1>1, <2>3 DEF AttemptFails, NotTaken, Refused
  <2>4. CASE Answering
    <3>1. Forget
      BY <2>4 DEF Answering, AttemptSucceeds, FailureAccepted, AnswerFailure, Answered
    <3> QED BY <1>1, <3>1 DEF Forget
  <2> QED BY <1>4, <2>1, <2>2, <2>3, <2>4 DEF Commanding
<1>5. CASE Failing \/ OpenDevice \/ OpenReader \/ CleanupFeedback
  BY <1>1, <1>5 DEF Failing, SessionFails, HelloFails, OpenFails, AttachFails,
     OpenDevice, OpenMainDevice, OpenReader, OpenInputReader, CleanupFeedback, CloseBackend
<1>6. CASE Halting
  BY <1>1, <1>6 DEF Halting, InputStops, InputWriteFails, InputGivesUp
<1>7. CASE Reading
  BY <1>1, <1>7, ReadingKeepsReaders
<1>8. ASSUME NEW role \in Roles, Unplug(role) \/ Plug(role) PROVE BackendType'
  <2>1. CASE Unplug(role)
    <3>1. /\ refused' = IF away' THEN 0 ELSE refused
          /\ away' = (away \/ target = role) /\ attached' = attached \ {role}
          /\ command' = IF role = "PuckMain" THEN "stale" ELSE command
          /\ cached' = IF role # "PuckMain" /\ cached = "good" THEN "stale" ELSE cached
          /\ UNCHANGED <<target, attempt>>
      BY <2>1 DEF Unplug, Detach
    <3>2. refused' \in Nat /\ attempt' \in Nat
      BY <1>1, <3>1
    <3>3. command' \in Handles /\ cached' \in Handles \cup {"none"} /\ attached' \in SUBSET Roles
      BY <1>1, <3>1
    <3> QED BY <1>1, <3>1, <3>2, <3>3
  <2>2. CASE Plug(role)
    BY <1>1, <2>2 DEF Plug, Attach
  <2> QED BY <1>8, <2>1, <2>2
<1>9. CASE UNCHANGED vars
  BY <1>2, <1>9 DEF vars
<1> QED BY <1>3, <1>4, <1>5, <1>6, <1>7, <1>8, <1>9, StepKinds

LEMMA FeedbackStep ==
  ASSUME HostInv, [Next]_vars
  PROVE  FeedbackInv'
<1> USE DEF hostVars, deviceVars, Goto, FeedbackInv, Serving, Attached
<1>1. FeedbackInv /\ command \in Handles
  BY DEF HostInv, BackendType
<1>2. CASE Listening \/ Watching \/ Commanding
  BY <1>1, <1>2 DEF Listening, Watching, Commanding,
     Bind, SupervisorStops, ProbePuck, AcceptFails, AcceptControl, HelloRead,
     CheckStop, TakeReconnectRequest, InputOver, NoCommand,
     ReadCommand, Receive, OpenForCommand, OpenInterface, OpenForCommandFails, CannotOpen,
     AttemptFails, NotTaken, Refresh, RefreshMain
<1>3. CASE Failing \/ OpenDevice \/ OpenReader \/ StartSession \/ JoinInput
  BY <1>1, <1>3 DEF Failing, SessionFails, HelloFails, OpenFails, AttachFails, CloseBackend,
     OpenDevice, OpenMainDevice, OpenReader, OpenInputReader, StartSession, JoinInput
<1>4. CASE Answering
  BY <1>1, <1>4 DEF Answering, Answered, Forget, Handle, AttemptSucceeds, FailureAccepted, AnswerFailure
<1>5. CASE CleanupFeedback
  BY <1>1, <1>5 DEF CleanupFeedback, Handles
<1>6. CASE Halting \/ InputTest \/ RequestReconnect \/ Shutdown
  BY <1>1, <1>6 DEF Halting, InputStops, InputWriteFails, InputGivesUp, InputEnds, InputTest,
     RequestReconnect, Shutdown
<1>7. CASE Reading
  BY <1>1, <1>7, ReadingKeepsReaders
<1>8. ASSUME NEW role \in Roles, Unplug(role) \/ Plug(role) PROVE FeedbackInv'
  BY <1>1, <1>8 DEF Unplug, Detach, Plug, Attach
<1>9. CASE UNCHANGED vars
  BY <1>1, <1>9 DEF vars
<1> QED BY <1>2, <1>3, <1>4, <1>5, <1>6, <1>7, <1>8, <1>9, StepKinds

LEMMA RequestStep ==
  ASSUME HostInv, [Next]_vars
  PROVE  RequestInv'
<1> USE DEF hostVars, Goto, RequestInv, Serving, Attached
<1>1. RequestInv
  BY DEF HostInv
<1>2. CASE Listening \/ Watching \/ Commanding
  BY <1>1, <1>2 DEF Listening, Watching, Commanding,
     Bind, SupervisorStops, ProbePuck, AcceptFails, AcceptControl, HelloRead,
     CheckStop, TakeReconnectRequest, InputOver, NoCommand,
     ReadCommand, OpenForCommand, OpenForCommandFails, AttemptFails, Refresh
<1>3. CASE Failing \/ OpenDevice \/ OpenReader \/ StartSession \/ JoinInput
  BY <1>1, <1>3 DEF Failing, SessionFails, HelloFails, OpenFails, AttachFails,
     OpenDevice, OpenReader, StartSession, JoinInput
<1>4. CASE Answering \/ CleanupFeedback
  BY <1>1, <1>4 DEF Answering, Answered, AttemptSucceeds, FailureAccepted, AnswerFailure, CleanupFeedback
<1>5. CASE Halting \/ InputTest \/ RequestReconnect \/ Shutdown
  BY <1>1, <1>5 DEF Halting, InputStops, InputWriteFails, InputGivesUp, InputEnds, InputTest,
     RequestReconnect, Shutdown
<1>6. CASE Reading
  BY <1>1, <1>6, ReadingKeepsReaders
<1>7. ASSUME NEW role \in Roles, Unplug(role) \/ Plug(role) PROVE RequestInv'
  BY <1>1, <1>7 DEF Unplug, Plug
<1>8. CASE UNCHANGED vars
  BY <1>1, <1>8 DEF vars
<1> QED BY <1>2, <1>3, <1>4, <1>5, <1>6, <1>7, <1>8, StepKinds

LEMMA CommandStep ==
  ASSUME HostInv, [Next]_vars
  PROVE  CommandInv'
<1> USE DEF hostVars, deviceVars, serveVars, Goto, CommandInv, PresentDeviceIsReached,
        Handle
<1>1. /\ CommandInv
      /\ attached \in SUBSET Roles /\ target \in Roles \cup {"none"}
      /\ command \in Handles /\ cached \in Handles \cup {"none"}
      /\ attempt \in Nat /\ refused \in Nat /\ away \in BOOLEAN
      /\ Attempts \in Nat \ {0}
  BY HidBackendAssumption DEF HostInv, BackendType
<1> DEFINE Commanded == {"attempt", "refresh", "failed"}
<1>2. ASSUME UNCHANGED <<attached, command, cached, serveVars>>, pc' \in Commanded => pc' = pc
      PROVE  CommandInv'
  BY <1>1, <1>2
<1>3. ASSUME pc' \notin Commanded PROVE CommandInv'
  BY <1>3
<1>4. CASE Listening \/ Watching \/ Answering \/ Failing
  BY <1>3, <1>4 DEF Listening, Watching, Answering, Failing,
     Bind, SupervisorStops, ProbePuck, AcceptFails, AcceptControl, HelloRead,
     CheckStop, TakeReconnectRequest, InputOver, NoCommand,
     Answered, AttemptSucceeds, FailureAccepted, AnswerFailure,
     SessionFails, HelloFails, OpenFails, AttachFails
<1>5. CASE OpenDevice \/ OpenReader \/ StartSession \/ JoinInput \/ CleanupFeedback
  BY <1>2, <1>3, <1>5 DEF OpenDevice, OpenReader, StartSession, JoinInput, CleanupFeedback
<1>6. CASE Halting \/ InputTest \/ RequestReconnect \/ Shutdown \/ UNCHANGED vars
  BY <1>2, <1>6 DEF Halting, InputStops, InputWriteFails, InputGivesUp, InputEnds, InputTest,
     RequestReconnect, Shutdown, vars
<1>7. CASE Reading
  BY <1>2, <1>7, ReadingKeepsReaders
<1>8. CASE ReadCommand
  <2>1. PICK role \in Roles :
          target' = role /\ away' = (role \notin attached) /\ UNCHANGED <<attached, command, cached>>
    BY <1>8 DEF ReadCommand, Receive
  <2>2. away' <=> role \notin attached
    BY <2>1
  <2>3. role # "none" /\ attempt' = 0 /\ refused' = 0 /\ pc' = "attempt"
    BY <1>8 DEF ReadCommand, Receive, Roles
  <2>4. attempt' < Attempts /\ refused' >= attempt' /\ refused' >= attempt' - 1
    BY <1>1, <2>3
  <2> QED BY <2>1, <2>2, <2>3, <2>4
<1>9. CASE OpenForCommand
  BY <1>1, <1>9 DEF OpenForCommand, OpenInterface
<1>10. CASE OpenForCommandFails
  BY <1>1, <1>10 DEF OpenForCommandFails, CannotOpen, Refused
<1>11. CASE AttemptFails
  <2>1. /\ attempt' = attempt + 1 /\ UNCHANGED <<attached, target, away, command>>
        /\ pc = "attempt" /\ Handle \in Handles
        /\ refused' = IF Handle = "good" THEN Refused ELSE refused
        /\ cached' = IF target = "PuckMain" THEN cached ELSE "none"
        /\ pc' = IF target = "PuckMain" THEN "refresh"
                 ELSE IF attempt' < Attempts THEN "attempt" ELSE "failed"
    BY <1>1, <1>11 DEF AttemptFails, NotTaken, Handles
  <2>2. refused' \in Nat /\ (away \/ (target \in attached /\ refused' >= attempt' - 1))
    <3>1. CASE Handle = "good"
      BY <1>1, <2>1, <3>1 DEF Refused
    <3>2. CASE Handle = "stale"
      BY <1>1, <2>1, <3>2
    <3> QED BY <2>1, <3>1, <3>2 DEF Handles
  <2>3. attempt < Attempts /\ target # "none"
    BY <1>1, <2>1
  <2>4. CASE target = "PuckMain"
    <3>1. pc' = "refresh" /\ UNCHANGED <<target, away>>
      BY <2>1, <2>4
    <3> QED BY <1>1, <2>1, <2>2, <2>4, <3>1
  <2>5. CASE target # "PuckMain" /\ attempt' < Attempts
    <3>1. pc' = "attempt" /\ Handle' = "none" /\ UNCHANGED <<target, away>>
      BY <2>1, <2>5
    <3> QED BY <1>1, <2>1, <2>2, <2>3, <2>5, <3>1
  <2>6. CASE target # "PuckMain" /\ ~(attempt' < Attempts)
    <3>1. pc' = "failed" /\ UNCHANGED <<target, away>>
      BY <2>1, <2>6
    <3>2. attempt' - 1 >= Attempts - 1
      BY <1>1, <2>1, <2>6
    <3> QED BY <1>1, <2>1, <2>2, <2>3, <2>6, <3>1, <3>2
  <2> QED BY <2>4, <2>5, <2>6
<1>12. CASE Refresh
  <2>1. PICK opened \in BOOLEAN :
          /\ command' = IF opened THEN "good" ELSE command
          /\ refused' = IF ~opened /\ attempt < Attempts THEN Refused ELSE refused
    BY <1>12 DEF Refresh, RefreshMain, MayOpen
  <2>2. /\ pc = "refresh" /\ target = "PuckMain"
        /\ UNCHANGED <<attached, cached, target, attempt, away>>
        /\ pc' = IF attempt < Attempts THEN "attempt" ELSE "failed"
        /\ away \/ (target \in attached /\ refused >= attempt - 1)
    BY <1>1, <1>12 DEF Refresh, RefreshMain
  <2>3. CASE opened
    BY <1>1, <2>1, <2>2, <2>3
  <2>4. CASE ~opened
    BY <1>1, <2>1, <2>2, <2>4 DEF Refused
  <2> QED BY <2>3, <2>4
<1>13. ASSUME NEW role \in Roles, Unplug(role) PROVE CommandInv'
  <2>1. /\ attached' = attached \ {role} /\ UNCHANGED <<pc, target, attempt>>
        /\ away' = (away \/ target = role)
        /\ ~away' => refused' = refused
        /\ command' = IF role = "PuckMain" THEN "stale" ELSE command
        /\ cached' = IF role # "PuckMain" /\ cached = "good" THEN "stale" ELSE cached
    BY <1>13 DEF Unplug, Detach
  <2>2. CASE away'
    BY <1>1, <2>1, <2>2
  <2>3. CASE ~away'
    <3>1. role # target /\ ~away /\ refused' = refused
      BY <2>1, <2>3
    <3>2. target \in Roles /\ Handle' = "stale" => Handle = "stale"
      BY <2>1, <3>1 DEF Roles
    <3> QED BY <1>1, <2>1, <3>1, <3>2
  <2> QED BY <2>2, <2>3
<1>14. ASSUME NEW role \in Roles, Plug(role) PROVE CommandInv'
  BY <1>1, <1>14 DEF Plug, Attach
<1> HIDE DEF CommandInv
<1> QED BY <1>4, <1>5, <1>6, <1>7, <1>8, <1>9, <1>10, <1>11, <1>12, <1>13, <1>14, StepKinds
     DEF Commanding

-----------------------------------------------------------------------------
(* The theorems *)

LEMMA InitHostInv == Init => HostInv
<1> SUFFICES ASSUME Init PROVE HostInv
  OBVIOUS
<1> USE DEF Init, BackendInit, Serving, Attached
<1>1. HostType /\ BackendType
  BY DEF HostType, BackendType, Places, Handles
<1>2. ThreadInv /\ FeedbackInv /\ RequestInv /\ CommandInv
  BY DEF ThreadInv, FeedbackInv, RequestInv, CommandInv, PresentDeviceIsReached
<1>3. ReadersInv
  BY EmptySeq DEF ReadersInv, Needed
<1> QED BY <1>1, <1>2, <1>3 DEF HostInv

LEMMA HostInvariance == Spec => []HostInv
<1>1. HostInv /\ [Next]_vars => HostInv'
  BY HostTypeStep, BackendStep, ThreadStep, FeedbackStep, RequestStep, CommandStep, ReadersStep
     DEF HostInv
<1> QED BY <1>1, InitHostInv, PTL DEF Spec

\* The main device is told to stop rumbling, has gone, or has refused, whatever
\* ended the session (the guest, a failed stream, the menu or the application)
\* and whatever the commands to the other interfaces did.
THEOREM FeedbackEnds == Spec => []FeedbackEndsWithSession
<1>1. HostInv => FeedbackEndsWithSession
  BY DEF HostInv, FeedbackInv, FeedbackEndsWithSession
<1> QED BY <1>1, HostInvariance, PTL

\* Whatever the number of attempts, a command to a collection that stayed fails
\* only when all its attempts but the first were refused, by a live handle or
\* for want of a new one, or when its interface could not be opened.
THEOREM DeviceReached == Spec => []PresentDeviceIsReached
<1>1. HostInv => PresentDeviceIsReached
  BY DEF HostInv, CommandInv
<1> QED BY <1>1, HostInvariance, PTL

\* For any graces and any cadence of reopening, the patience with a reader is
\* counted from the beginning of its own present outage, unless a reopening of
\* its collection failed while that was there.
THEOREM Patient == Spec => []PatientWithOutages
<1>1. HostInv => PatientWithOutages
  <2> SUFFICES ASSUME HostInv, ipc = "read", NEW grace \in Graces, GaveUpEarly(grace)
               PROVE  FALSE
    BY DEF PatientWithOutages
  <2>1. ReadersInv /\ next_index < Len(readers)
    BY DEF HostInv, ReadersInv, Needed
  <2>2. Current \in ReaderRecords /\ Sound(Current, attached)
    BY <2>1, NextIndexInRange
  <2>3. Current.age \in Nat /\ Current.since = Current.age
    BY <2>2 DEF ReaderRecords, Sound, GaveUpEarly
  <2>4. grace >= ErrorGrace
    BY HidBackendAssumption DEF Graces
  <2>5. GivesUp(grace) /\ Current.since < (IF attached = {} THEN GoneGrace ELSE ErrorGrace)
    BY DEF GaveUpEarly
  <2> QED BY <2>3, <2>4, <2>5, HidBackendAssumption DEF GivesUp, PatienceOver, Graces
<1> QED BY <1>1, HostInvariance, PTL

\* A request to reconnect never reaches into a session that began after it.
THEOREM ReconnectInItsSession == Spec => ReconnectEndsItsOwnSession
<1>1. HostInv /\ [Next]_vars => [TakeReconnectRequest => requested]_vars
  BY DEF HostInv, RequestInv, TakeReconnectRequest, Attached, Serving
<1> QED BY <1>1, HostInvariance, PTL DEF Spec, ReconnectEndsItsOwnSession

=============================================================================
