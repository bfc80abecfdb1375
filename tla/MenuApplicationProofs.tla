------------------------- MODULE MenuApplicationProofs -------------------------
(***************************************************************************)
(* The safety of what the menu application runs beside the host service:   *)
(* the audio service, for a channel of any capacity and any number of uses *)
(* of the switch; installing and removing the driver, for any bottles, any *)
(* foreign drivers and any number of threads; and the edit of a bottle's   *)
(* configuration, for files of any lines with lists of any length.         *)
(***************************************************************************)
EXTENDS AudioSupervisor, DriverInstall, BottleConfig, SequenceLemmas

-----------------------------------------------------------------------------
(* The audio service *)

Between == {"register", "top", "enabled", "delay", "start", "parkOff", "parkDelay", "ended"}
During  == {"check", "drain", "wait", "parkRun", "stop"}
After   == {"classify", "joinReader"}

AudioType ==
  /\ enabled \in BOOLEAN /\ stopping \in BOOLEAN /\ wake \in BOOLEAN /\ token \in BOOLEAN
  /\ delayed \in BOOLEAN /\ disconnected \in BOOLEAN /\ lease \in BOOLEAN /\ sender \in BOOLEAN
  /\ revision \in Nat /\ seen \in Nat
  /\ ui \in {"idle", "revise", "notify", "stopNotify", "join", "returned"}
  /\ pc \in Between \cup During \cup After
  /\ helper \in {"none", "running", "leaving", "exited"}
  /\ rpc \in {"read", "notify", "notifyEnd", "done"}
  /\ queue \in Seq(Lines)

\* The thread is registered as long as it may sleep; a helper, its reader and
\* its output exist from its start until the reader is joined.
ThreadsInv ==
  /\ wake <=> (pc \notin {"register", "ended"})
  /\ pc \in Between => helper = "none" /\ rpc = "done" /\ queue = <<>>
  /\ pc \in During  => helper # "none"
  /\ pc \in After   => helper = "exited"
  /\ sender <=> (rpc \in {"read", "notify"})

\* Whatever the supervisor has read and will not read again before it sleeps
\* is still true, or it has a token, or someone is about to give it one.
StopSeen ==
  stopping => \/ token \/ ui = "stopNotify"
              \/ pc \in {"register", "top", "start", "ended", "check", "stop"} \cup After

SwitchSeen ==
  /\ pc = "parkOff" /\ enabled => token \/ ui \in {"revise", "notify"}
  /\ pc \in {"delay", "parkDelay", "drain", "wait", "parkRun"} /\ ~enabled =>
       token \/ ui \in {"revise", "notify"}
  /\ pc \in {"enabled", "delay", "parkDelay"} /\ seen # revision => token \/ ui = "notify"

OutputSeen ==
  /\ pc \in {"wait", "parkRun"} /\ queue # <<>> => token \/ rpc = "notify"
  /\ (pc = "parkRun" \/ (pc = "wait" /\ ~disconnected)) /\ ~sender => token \/ rpc = "notifyEnd"

AudioInv ==
  AudioType /\ ThreadsInv /\ StopSeen /\ SwitchSeen /\ OutputSeen /\ OffMeansNoHelper

LEMMA InitAudioInv == AudioInit => AudioInv
<1> SUFFICES ASSUME AudioInit PROVE AudioInv
  OBVIOUS
<1>1. AudioType
  <2>1. /\ stopping = FALSE /\ wake = FALSE /\ token = FALSE /\ delayed = FALSE
        /\ disconnected = FALSE /\ lease = FALSE /\ sender = FALSE
    BY DEF AudioInit
  <2>2. queue \in Seq(Lines)
    BY EmptySeq DEF AudioInit
  <2> QED BY <2>1, <2>2 DEF AudioInit, AudioType, Between
<1>2. ThreadsInv
  BY DEF AudioInit, ThreadsInv, Between, During, After
<1>3. StopSeen /\ SwitchSeen /\ OutputSeen /\ OffMeansNoHelper
  BY DEF AudioInit, StopSeen, SwitchSeen, OutputSeen, OffMeansNoHelper
<1> QED BY <1>1, <1>2, <1>3 DEF AudioInv

\* Every variable keeps its type.
LEMMA TypeStep ==
  ASSUME AudioType, ThreadsInv, [AudioNext]_audioVars
  PROVE  AudioType'
<1> USE DEF AudioType, ThreadsInv, Between, During, After, Notified, GoesTo, Lines, Reported
<1>1. CASE Revise
  BY <1>1 DEF Revise, uiOthers, sharedVars, localVars, helperVars, readerVars
<1>2. CASE Notify
  BY <1>2 DEF Notify, uiOthers, sharedVars, localVars, helperVars, readerVars
<1>3. CASE Shutdown
  BY <1>3 DEF Shutdown, uiOthers, sharedVars, localVars, helperVars, readerVars
<1>4. CASE ShutdownJoins
  BY <1>4 DEF ShutdownJoins, uiOthers, sharedVars, localVars, helperVars, readerVars
<1>5. ASSUME NEW value \in BOOLEAN, SetEnabled(value) PROVE AudioType'
  BY <1>5 DEF SetEnabled, uiOthers, sharedVars, localVars, helperVars, readerVars
<1>6. CASE Register
  BY <1>6 DEF Register, outside, sharedVars, localVars, helperVars, readerVars
<1>7. CASE Top
  BY <1>7 DEF Top, outside, sharedVars, localVars, helperVars, readerVars
<1>8. CASE TestEnabled
  BY <1>8 DEF TestEnabled, outside, sharedVars, localVars, helperVars, readerVars
<1>9. CASE TestDelay
  BY <1>9 DEF TestDelay, outside, sharedVars, localVars, helperVars, readerVars
<1>10. CASE CannotStart
  BY <1>10 DEF CannotStart, outside, sharedVars, localVars, helperVars, readerVars
<1>11. CASE StartHelper
  BY <1>11 DEF StartHelper, outside, sharedVars, localVars, helperVars, readerVars
<1>12. CASE Unpark
  <2>1. /\ UNCHANGED <<enabled, stopping, wake, delayed, disconnected, lease, sender,
                       revision, seen, ui, helper, rpc, queue>>
        /\ token' = FALSE /\ pc' \in {"check", "top"}
    BY <1>12 DEF Unpark, outside, sharedVars, localVars, helperVars, readerVars
  <2>2. token' \in BOOLEAN
    BY <2>1
  <2> QED BY <2>1, <2>2
<1>13. CASE Check
  BY <1>13 DEF Check, outside, sharedVars, localVars, helperVars, readerVars
<1>14. CASE DrainLine
  BY <1>14 DEF DrainLine, outside, sharedVars, localVars, helperVars, readerVars
<1>15. CASE Drained
  BY <1>15 DEF Drained, outside, sharedVars, localVars, helperVars, readerVars
<1>16. CASE TryWait
  BY <1>16 DEF TryWait, outside, sharedVars, localVars, helperVars, readerVars
<1>17. CASE StopChild
  BY <1>17 DEF StopChild, outside, sharedVars, localVars, helperVars, readerVars
<1>18. CASE Classify
  BY <1>18 DEF Classify, outside, sharedVars, localVars, helperVars, readerVars
<1>19. CASE JoinReader
  BY <1>19 DEF JoinReader, outside, sharedVars, localVars, helperVars, readerVars
<1>20. CASE NotifyLine
  BY <1>20 DEF NotifyLine, beside, sharedVars, localVars, helperVars, readerVars
<1>21. CASE ReadEnd
  <2>1. /\ UNCHANGED <<enabled, stopping, wake, token, delayed, disconnected, lease,
                       revision, seen, ui, pc, helper, queue>>
        /\ sender' = FALSE /\ rpc' = "notifyEnd"
    BY <1>21 DEF ReadEnd, beside, sharedVars, localVars, helperVars, readerVars
  <2>2. sender' \in BOOLEAN
    BY <2>1
  <2> QED BY <2>1, <2>2
<1>22. CASE NotifyEnd
  BY <1>22 DEF NotifyEnd, beside, sharedVars, localVars, helperVars, readerVars
<1>23. CASE HelperLeaves
  BY <1>23 DEF HelperLeaves, beside, sharedVars, localVars, helperVars, readerVars
<1>24. CASE HelperExits
  BY <1>24 DEF HelperExits, beside, sharedVars, localVars, helperVars, readerVars
<1>25. CASE DelayElapses
  <2>1. /\ UNCHANGED <<enabled, stopping, wake, token, disconnected, lease, sender,
                       revision, seen, ui, pc, helper, rpc, queue>>
        /\ delayed' = FALSE
    BY <1>25 DEF DelayElapses, beside, sharedVars, localVars, helperVars, readerVars
  <2>2. delayed' \in BOOLEAN
    BY <2>1
  <2> QED BY <2>1, <2>2
<1>26. ASSUME NEW line \in Lines, ReadLine(line) PROVE AudioType'
  BY <1>26 DEF ReadLine, beside, sharedVars, localVars, helperVars, readerVars
<1>27. CASE UNCHANGED audioVars
  BY <1>27 DEF audioVars, sharedVars, localVars, helperVars, readerVars
<1> QED
  BY <1>1, <1>2, <1>3, <1>4, <1>5, <1>6, <1>7, <1>8, <1>9, <1>10, <1>11, <1>12, <1>13, <1>14,
     <1>15, <1>16, <1>17, <1>18, <1>19, <1>20, <1>21, <1>22, <1>23, <1>24, <1>25, <1>26, <1>27
  DEF AudioNext, MainThread, Supervisor, Reader

\* What exists beside the supervisor, and what the menu says of it.
LEMMA ThreadsStep ==
  ASSUME AudioType, ThreadsInv, OffMeansNoHelper, [AudioNext]_audioVars
  PROVE  ThreadsInv' /\ OffMeansNoHelper'
<1> USE DEF AudioType, ThreadsInv, OffMeansNoHelper, Between, During, After, Notified, GoesTo, Reported
<1>1. CASE Revise
  BY <1>1 DEF Revise, uiOthers, sharedVars, localVars, helperVars, readerVars
<1>2. CASE Notify
  BY <1>2 DEF Notify, uiOthers, sharedVars, localVars, helperVars, readerVars
<1>3. CASE Shutdown
  BY <1>3 DEF Shutdown, uiOthers, sharedVars, localVars, helperVars, readerVars
<1>4. CASE ShutdownJoins
  BY <1>4 DEF ShutdownJoins, uiOthers, sharedVars, localVars, helperVars, readerVars
<1>5. ASSUME NEW value \in BOOLEAN, SetEnabled(value) PROVE ThreadsInv' /\ OffMeansNoHelper'
  BY <1>5 DEF SetEnabled, uiOthers, sharedVars, localVars, helperVars, readerVars
<1>6. CASE Register
  BY <1>6 DEF Register, outside, sharedVars, localVars, helperVars, readerVars
<1>7. CASE Top
  BY <1>7 DEF Top, outside, sharedVars, localVars, helperVars, readerVars
<1>8. CASE TestEnabled
  BY <1>8 DEF TestEnabled, outside, sharedVars, localVars, helperVars, readerVars
<1>9. CASE TestDelay
  BY <1>9 DEF TestDelay, outside, sharedVars, localVars, helperVars, readerVars
<1>10. CASE CannotStart
  BY <1>10 DEF CannotStart, outside, sharedVars, localVars, helperVars, readerVars
<1>11. CASE StartHelper
  BY <1>11 DEF StartHelper, outside, sharedVars, localVars, helperVars, readerVars
<1>12. CASE Unpark
  BY <1>12 DEF Unpark, outside, sharedVars, localVars, helperVars, readerVars
<1>13. CASE Check
  BY <1>13 DEF Check, outside, sharedVars, localVars, helperVars, readerVars
<1>14. CASE DrainLine
  BY <1>14 DEF DrainLine, outside, sharedVars, localVars, helperVars, readerVars
<1>15. CASE Drained
  BY <1>15 DEF Drained, outside, sharedVars, localVars, helperVars, readerVars
<1>16. CASE TryWait
  BY <1>16 DEF TryWait, outside, sharedVars, localVars, helperVars, readerVars
<1>17. CASE StopChild
  BY <1>17 DEF StopChild, outside, sharedVars, localVars, helperVars, readerVars
<1>18. CASE Classify
  BY <1>18 DEF Classify, outside, sharedVars, localVars, helperVars, readerVars
<1>19. CASE JoinReader
  BY <1>19 DEF JoinReader, outside, sharedVars, localVars, helperVars, readerVars
<1>20. CASE NotifyLine
  BY <1>20 DEF NotifyLine, beside, sharedVars, localVars, helperVars, readerVars
<1>21. CASE ReadEnd
  BY <1>21 DEF ReadEnd, beside, sharedVars, localVars, helperVars, readerVars
<1>22. CASE NotifyEnd
  BY <1>22 DEF NotifyEnd, beside, sharedVars, localVars, helperVars, readerVars
<1>23. CASE HelperLeaves
  BY <1>23 DEF HelperLeaves, beside, sharedVars, localVars, helperVars, readerVars
<1>24. CASE HelperExits
  BY <1>24 DEF HelperExits, beside, sharedVars, localVars, helperVars, readerVars
<1>25. CASE DelayElapses
  BY <1>25 DEF DelayElapses, beside, sharedVars, localVars, helperVars, readerVars
<1>26. ASSUME NEW line \in Lines, ReadLine(line) PROVE ThreadsInv' /\ OffMeansNoHelper'
  BY <1>26 DEF ReadLine, beside, sharedVars, localVars, helperVars, readerVars
<1>27. CASE UNCHANGED audioVars
  BY <1>27 DEF audioVars, sharedVars, localVars, helperVars, readerVars
<1> QED
  BY <1>1, <1>2, <1>3, <1>4, <1>5, <1>6, <1>7, <1>8, <1>9, <1>10, <1>11, <1>12, <1>13, <1>14,
     <1>15, <1>16, <1>17, <1>18, <1>19, <1>20, <1>21, <1>22, <1>23, <1>24, <1>25, <1>26, <1>27
  DEF AudioNext, MainThread, Supervisor, Reader

\* What the supervisor has read is true, or it will wake up.
LEMMA SeenStep ==
  ASSUME AudioType, ThreadsInv, StopSeen, SwitchSeen, OutputSeen, [AudioNext]_audioVars
  PROVE  StopSeen' /\ SwitchSeen' /\ OutputSeen'
<1> USE DEF AudioType, ThreadsInv, StopSeen, SwitchSeen, OutputSeen, Between, During, After, Notified, GoesTo
<1>1. CASE Revise
  BY <1>1 DEF Revise, uiOthers, sharedVars, localVars, helperVars, readerVars
<1>2. CASE Notify
  BY <1>2 DEF Notify, uiOthers, sharedVars, localVars, helperVars, readerVars
<1>3. CASE Shutdown
  BY <1>3 DEF Shutdown, uiOthers, sharedVars, localVars, helperVars, readerVars
<1>4. CASE ShutdownJoins
  BY <1>4 DEF ShutdownJoins, uiOthers, sharedVars, localVars, helperVars, readerVars
<1>5. ASSUME NEW value \in BOOLEAN, SetEnabled(value) PROVE StopSeen' /\ SwitchSeen' /\ OutputSeen'
  BY <1>5 DEF SetEnabled, uiOthers, sharedVars, localVars, helperVars, readerVars
<1>6. CASE Register
  BY <1>6 DEF Register, outside, sharedVars, localVars, helperVars, readerVars
<1>7. CASE Top
  BY <1>7 DEF Top, outside, sharedVars, localVars, helperVars, readerVars
<1>8. CASE TestEnabled
  BY <1>8 DEF TestEnabled, outside, sharedVars, localVars, helperVars, readerVars
<1>9. CASE TestDelay
  BY <1>9 DEF TestDelay, outside, sharedVars, localVars, helperVars, readerVars
<1>10. CASE CannotStart
  BY <1>10 DEF CannotStart, outside, sharedVars, localVars, helperVars, readerVars
<1>11. CASE StartHelper
  BY <1>11 DEF StartHelper, outside, sharedVars, localVars, helperVars, readerVars
<1>12. CASE Unpark
  BY <1>12 DEF Unpark, outside, sharedVars, localVars, helperVars, readerVars
<1>13. CASE Check
  BY <1>13 DEF Check, outside, sharedVars, localVars, helperVars, readerVars
<1>14. CASE DrainLine
  BY <1>14 DEF DrainLine, outside, sharedVars, localVars, helperVars, readerVars
<1>15. CASE Drained
  BY <1>15 DEF Drained, outside, sharedVars, localVars, helperVars, readerVars
<1>16. CASE TryWait
  BY <1>16 DEF TryWait, outside, sharedVars, localVars, helperVars, readerVars
<1>17. CASE StopChild
  BY <1>17 DEF StopChild, outside, sharedVars, localVars, helperVars, readerVars
<1>18. CASE Classify
  BY <1>18 DEF Classify, outside, sharedVars, localVars, helperVars, readerVars
<1>19. CASE JoinReader
  BY <1>19 DEF JoinReader, outside, sharedVars, localVars, helperVars, readerVars
<1>20. CASE NotifyLine
  BY <1>20 DEF NotifyLine, beside, sharedVars, localVars, helperVars, readerVars
<1>21. CASE ReadEnd
  BY <1>21 DEF ReadEnd, beside, sharedVars, localVars, helperVars, readerVars
<1>22. CASE NotifyEnd
  BY <1>22 DEF NotifyEnd, beside, sharedVars, localVars, helperVars, readerVars
<1>23. CASE HelperLeaves
  BY <1>23 DEF HelperLeaves, beside, sharedVars, localVars, helperVars, readerVars
<1>24. CASE HelperExits
  BY <1>24 DEF HelperExits, beside, sharedVars, localVars, helperVars, readerVars
<1>25. CASE DelayElapses
  BY <1>25 DEF DelayElapses, beside, sharedVars, localVars, helperVars, readerVars
<1>26. ASSUME NEW line \in Lines, ReadLine(line) PROVE StopSeen' /\ SwitchSeen' /\ OutputSeen'
  BY <1>26 DEF ReadLine, beside, sharedVars, localVars, helperVars, readerVars
<1>27. CASE UNCHANGED audioVars
  BY <1>27 DEF audioVars, sharedVars, localVars, helperVars, readerVars
<1> QED
  BY <1>1, <1>2, <1>3, <1>4, <1>5, <1>6, <1>7, <1>8, <1>9, <1>10, <1>11, <1>12, <1>13, <1>14,
     <1>15, <1>16, <1>17, <1>18, <1>19, <1>20, <1>21, <1>22, <1>23, <1>24, <1>25, <1>26, <1>27
  DEF AudioNext, MainThread, Supervisor, Reader

LEMMA AudioInvHolds == AudioSpec => []AudioInv
<1>1. AudioInv /\ [AudioNext]_audioVars => AudioInv'
  BY TypeStep, ThreadsStep, SeenStep DEF AudioInv
<1> QED BY <1>1, InitAudioInv, PTL DEF AudioSpec

\* "No lost wake": for a channel of any capacity, the supervisor never sleeps
\* on a stop, a use of the switch, a line or the end of the output that it has
\* not acted on and that nobody will wake it for.
THEOREM NoWakeLost == AudioSpec => []NoLostWake
<1>1. AudioInv => NoLostWake
  BY DEF AudioInv, AudioType, ThreadsInv, StopSeen, SwitchSeen, OutputSeen, After, NoLostWake
<1> QED BY <1>1, AudioInvHolds, PTL

\* The menu never says Off while a helper is left, in any race of the switch
\* with a helper that starts or dies.
THEOREM OffIsHonest == AudioSpec => []OffMeansNoHelper
<1>1. AudioInv => OffMeansNoHelper
  BY DEF AudioInv
<1> QED BY <1>1, AudioInvHolds, PTL

-----------------------------------------------------------------------------
(* Installing and removing the driver *)

Copying  == {"copy", "copying", "rename"}
Places   == {"idle", "install", "uninstall", "hash", "backup", "verify", "registry", "remove",
             "check"} \cup Copying
Contexts == Bottles \cup {Automatic}

InstallType ==
  /\ worker \in [Workers -> [pc : Places, ctx : Contexts \cup {None}, b : Bottles \cup {None}]]
  /\ \A w \in Workers : worker[w].pc = "idle" => worker[w] = Idle
  /\ target \in [Bottles -> {None, Embedded, Partial} \cup Foreign]
  /\ temp \in [Bottles -> {None, Embedded, Partial}]
  /\ backups \in [Bottles -> SUBSET ({Embedded, Partial} \cup Foreign)]
  /\ chosen \in Contexts
  /\ intruded \in BOOLEAN

Active == {w \in Workers : worker[w] # Idle}

\* While a thread works the snapshot says so, and it is the only thread.
AloneInv ==
  /\ \A w \in Active : IsInstalling
  /\ \A v, w \in Active : v = w

\* Between the backup and the rename, the thread's bottle holds what was backed
\* up, unless somebody wrote it since.
KeptInv ==
  \A w \in Workers :
    worker[w].pc \in Copying /\ ~intruded /\ target[worker[w].b] \in Foreign =>
      target[worker[w].b] \in backups[worker[w].b]

\* While the menu opens, the snapshot is what its refresh left there, unless an
\* operation has ended since.
OpeningInv ==
  screen = "opening" /\ (AllowsInstall(snapshot) \/ AllowsUninstall(snapshot))
    => late \/ (snapshot.kind = "Status" /\ snapshot.ctx = chosen)

InstallInv == InstallType /\ AloneInv /\ KeptInv /\ OpeningInv /\ ActsOnShownSelection
-----------------------------------------------------------------------------

\* A status tells of the context it was asked for.
LEMMA StatusOf ==
  ASSUME NEW ctx, NEW s \in StatusesOf(ctx)
  PROVE  s.kind = "Status" /\ s.ctx = ctx
  BY DEF StatusesOf, Status

\* A snapshot that offers an operation says that none is in progress.
LEMMA OffersWhenIdle == AllowsInstall(snapshot) \/ AllowsUninstall(snapshot) => ~IsInstalling
  BY DEF AllowsInstall, AllowsUninstall, IsInstalling

LEMMA InitInstallInv == Init => InstallInv
<1> SUFFICES ASSUME Init PROVE InstallInv
  OBVIOUS
<1>1. InstallType
  <2>1. Idle \in [pc : Places, ctx : Contexts \cup {None}, b : Bottles \cup {None}]
    BY DEF Idle, Places, Contexts
  <2>2. intruded \in BOOLEAN
    BY DEF Init
  <2>3. /\ target \in [Bottles -> {None, Embedded, Partial} \cup Foreign]
        /\ temp \in [Bottles -> {None, Embedded, Partial}]
        /\ backups \in [Bottles -> SUBSET ({Embedded, Partial} \cup Foreign)]
    BY DEF Init
  <2>4. worker = [w \in Workers |-> Idle] /\ chosen = Automatic
    BY DEF Init
  <2>5. chosen \in Contexts /\ \A w \in Workers : worker[w] = Idle
    BY <2>4 DEF Contexts
  <2> QED BY <2>1, <2>2, <2>3, <2>4, <2>5 DEF InstallType
<1>2. \A w \in Workers : worker[w] = Idle /\ worker[w].pc = "idle"
  BY DEF Init, Idle
<1>3. AloneInv /\ KeptInv
  BY <1>2 DEF AloneInv, Active, KeptInv, Copying
<1>4. OpeningInv /\ ActsOnShownSelection
  BY DEF Init, OpeningInv, ActsOnShownSelection
<1> QED BY <1>1, <1>3, <1>4 DEF InstallInv

\* Looking at the menu: an operation in progress stays announced.
LEMMA MenuInv ==
  ASSUME InstallInv,
         \/ MenuWillOpen \/ MenuRendered \/ MenuDismissed \/ RefreshTimer
         \/ \E ctx \in Contexts : ChooseBottle(ctx)
  PROVE  InstallInv'
<1>1. /\ UNCHANGED <<worker, target, temp, backups, intruded>>
      /\ IsInstalling => snapshot' = snapshot
      /\ chosen' \in Contexts
  BY DEF InstallInv, InstallType, MenuWillOpen, MenuRendered, MenuDismissed, RefreshTimer,
         ChooseBottle, RefreshStatus, files
<1>2. InstallType' /\ KeptInv'
  BY <1>1 DEF InstallInv, InstallType, KeptInv
<1>3. AloneInv'
  BY <1>1 DEF InstallInv, AloneInv, Active, IsInstalling
<1>4. OpeningInv' /\ ActsOnShownSelection'
  <2>1. CASE MenuWillOpen
    <3>1. chosen' = chosen /\ screen' = "opening"
      BY <2>1 DEF MenuWillOpen
    <3>2. CASE IsInstalling
      BY <1>1, <3>1, <3>2 DEF OpeningInv, ActsOnShownSelection, IsInstalling, AllowsInstall, AllowsUninstall
    <3>3. CASE ~IsInstalling
      <4>1. snapshot' \in StatusesOf(chosen)
        BY <2>1, <3>3 DEF MenuWillOpen, RefreshStatus
      <4> QED BY <3>1, <4>1, StatusOf DEF OpeningInv, ActsOnShownSelection
    <3> QED BY <3>2, <3>3
  <2>2. CASE MenuRendered
    <3>1. /\ UNCHANGED <<chosen, snapshot, late>> /\ view' = snapshot
          /\ screen' \in {"open", "closed"} /\ (screen' = "open" => screen = "opening")
      BY <2>2 DEF MenuRendered
    <3> QED BY <3>1 DEF InstallInv, OpeningInv, ActsOnShownSelection, AllowsInstall, AllowsUninstall
  <2>3. CASE MenuDismissed \/ RefreshTimer \/ \E ctx \in Contexts : ChooseBottle(ctx)
    <3>1. screen' \in {"closed", "applying"}
      BY <2>3 DEF MenuDismissed, RefreshTimer, ChooseBottle
    <3> QED BY <3>1 DEF OpeningInv, ActsOnShownSelection
  <2> QED BY <2>1, <2>2, <2>3
<1> QED BY <1>2, <1>3, <1>4 DEF InstallInv

\* An operation starts only where none is announced, and is announced.
LEMMA StartInv ==
  ASSUME InstallInv, NEW w \in Workers, StartInstall(w) \/ StartUninstall(w)
  PROVE  InstallInv'
<1>1. PICK place \in {"install", "uninstall"} :
        /\ worker' = [worker EXCEPT ![w] = [pc |-> place, ctx |-> chosen, b |-> None]]
        /\ screen' = "applying"
        /\ snapshot'.kind \in {"Installing", "Uninstalling"}
        /\ UNCHANGED <<target, temp, backups, chosen, intruded>>
  BY DEF StartInstall, StartUninstall, Start, Plain, files
<1>2. Active = {}
  BY OffersWhenIdle DEF InstallInv, AloneInv, StartInstall, StartUninstall
<1>3. [pc |-> place, ctx |-> chosen, b |-> None] \in
        [pc : Places, ctx : Contexts \cup {None}, b : Bottles \cup {None}]
  BY DEF InstallInv, InstallType, Places
<1>4. InstallType'
  BY <1>1, <1>3 DEF InstallInv, InstallType
<1>5. AloneInv'
  <2>1. Active' \subseteq {w}
    BY <1>1, <1>2 DEF InstallInv, InstallType, Active
  <2> QED BY <1>1, <2>1 DEF AloneInv, IsInstalling
<1>6. KeptInv'
  BY <1>1 DEF InstallInv, InstallType, KeptInv, Copying
<1>7. OpeningInv' /\ ActsOnShownSelection'
  BY <1>1 DEF OpeningInv, ActsOnShownSelection
<1> QED BY <1>4, <1>5, <1>6, <1>7 DEF InstallInv

\* The thread ends with a snapshot of its own; no other one is there.
LEMMA EndInv ==
  ASSUME InstallInv, NEW w \in Workers, worker[w].pc # "idle",
         Ended(w), UNCHANGED <<files, threadOthers>>
  PROVE  InstallInv'
<1>1. /\ worker[w] # Idle /\ Idle.pc = "idle"
      /\ Idle \in [pc : Places, ctx : Contexts \cup {None}, b : Bottles \cup {None}]
  BY DEF Idle, Places
<1>2. \A v \in Workers : worker'[v] = Idle
  BY <1>1 DEF InstallInv, InstallType, AloneInv, Active, Ended
<1>3. InstallType'
  <2>1. intruded' \in BOOLEAN /\ worker' = [worker EXCEPT ![w] = Idle]
    BY DEF Ended
  <2> QED BY <1>1, <2>1 DEF InstallInv, InstallType, files, threadOthers, menu
<1>4. AloneInv' /\ KeptInv'
  BY <1>1, <1>2 DEF AloneInv, Active, KeptInv, Copying
<1>5. OpeningInv' /\ ActsOnShownSelection'
  <2>1. UNCHANGED <<screen, view, chosen>> /\ late' = (late \/ screen = "opening")
    BY DEF Ended, threadOthers, menu
  <2> QED BY <2>1 DEF InstallInv, OpeningInv, ActsOnShownSelection, AllowsInstall, AllowsUninstall
<1> QED BY <1>3, <1>4, <1>5 DEF InstallInv

\* The thread goes on, and its bottle has one of the contents there are.
LEMMA GoesOnInv ==
  ASSUME InstallInv, NEW w \in Workers, NEW place \in Places \ {"idle"}, NEW b \in Bottles,
         worker[w].pc # "idle", worker' = [worker EXCEPT ![w].pc = place, ![w].b = b],
         UNCHANGED <<snapshot, late, threadOthers>>,
         target' \in [Bottles -> {None, Embedded, Partial} \cup Foreign],
         temp' \in [Bottles -> {None, Embedded, Partial}],
         backups' \in [Bottles -> SUBSET ({Embedded, Partial} \cup Foreign)],
         intruded' \in BOOLEAN,
         place \in Copying /\ ~intruded' /\ target'[b] \in Foreign => target'[b] \in backups'[b]
  PROVE  InstallInv'
<1>1. worker[w] # Idle /\ worker[w] \in [pc : Places, ctx : Contexts \cup {None}, b : Bottles \cup {None}]
  BY DEF InstallInv, InstallType, Idle
<1>2. /\ worker'[w].pc = place /\ worker'[w].b = b /\ worker'[w] # Idle
      /\ \A v \in Workers : v # w => worker'[v] = worker[v]
      /\ worker' \in [Workers -> [pc : Places, ctx : Contexts \cup {None}, b : Bottles \cup {None}]]
  BY <1>1 DEF InstallInv, InstallType, Idle
<1>3. \A v \in Workers : v # w => worker[v] = Idle /\ worker[v].pc = "idle"
  BY <1>1 DEF InstallInv, AloneInv, Active, Idle
<1>4. InstallType'
  BY <1>2, <1>3 DEF InstallInv, InstallType, threadOthers, menu
<1>5. AloneInv'
  BY <1>1, <1>2, <1>3 DEF InstallInv, AloneInv, Active, IsInstalling
<1>6. KeptInv'
  BY <1>2, <1>3 DEF KeptInv, Copying
<1>7. OpeningInv' /\ ActsOnShownSelection'
  BY DEF InstallInv, OpeningInv, ActsOnShownSelection, threadOthers, menu, AllowsInstall, AllowsUninstall
<1> QED BY <1>4, <1>5, <1>6, <1>7 DEF InstallInv

\* Each step of a thread.
LEMMA ThreadInv ==
  ASSUME InstallInv, NEW w \in Workers, WorkerStep(w)
  PROVE  InstallInv'
<1>1. ASSUME Unsuccessful(w), worker[w].pc # "idle" PROVE InstallInv'
  BY <1>1, EndInv DEF Unsuccessful
<1>2. CASE Resolve(w)
  <2>1. CASE Unsuccessful(w)
    BY <2>1, <1>1, <1>2 DEF Resolve
  <2>2. CASE ~Unsuccessful(w)
    <3> DEFINE bottle == Discover(worker[w].ctx)
               next   == IF worker[w].pc = "install" THEN "hash" ELSE "remove"
    <3>1. /\ worker[w].pc \in {"install", "uninstall"} /\ bottle \in WithSteam
          /\ worker' = [worker EXCEPT ![w].pc = next, ![w].b = bottle]
          /\ UNCHANGED <<files, snapshot, late, threadOthers, intruded>>
      BY <1>2, <2>2 DEF Resolve
    <3>2. bottle \in Bottles /\ next \in Places \ {"idle"} /\ next \notin Copying
      BY <3>1, BottlesAssumption DEF Places, Copying
    <3> HIDE DEF bottle, next
    <3> QED BY <3>1, <3>2, GoesOnInv DEF InstallInv, InstallType, files
  <2> QED BY <2>1, <2>2
<1>3. CASE StepFails(w)
  BY <1>1, <1>3 DEF StepFails
<1>4. CASE Publish(w)
  BY <1>4, EndInv DEF Publish
<1>5. ASSUME NEW b \in Bottles, NEW place \in Places \ {"idle"}, worker[w].b = b, Goto(w, place)
      PROVE  worker' = [worker EXCEPT ![w].pc = place, ![w].b = b]
  BY <1>5 DEF Goto, InstallInv, InstallType
<1>6. ASSUME NEW b \in Bottles, CompareDigest(w, b) PROVE InstallInv'
  <2>1. PICK place \in {"registry", "backup"} : Goto(w, place)
    BY <1>6 DEF CompareDigest
  <2>2. place \in Places \ {"idle"} /\ place \notin Copying /\ worker[w].b = b /\ worker[w].pc # "idle"
    BY <1>6 DEF CompareDigest, At, Places, Copying
  <2>3. worker' = [worker EXCEPT ![w].pc = place, ![w].b = b]
    BY <2>1, <2>2, <1>5
  <2> QED BY <1>6, <2>2, <2>3, GoesOnInv DEF CompareDigest, InstallInv, InstallType, files
<1>7. ASSUME NEW b \in Bottles, BackUp(w, b) PROVE InstallInv'
  <2>1. "copy" \in Places \ {"idle"} /\ worker[w].b = b /\ worker[w].pc # "idle" /\ Goto(w, "copy")
    BY <1>7 DEF BackUp, At, Places, Copying
  <2>2. worker' = [worker EXCEPT ![w].pc = "copy", ![w].b = b]
    BY <2>1, <1>5
  <2>3. /\ backups' = [backups EXCEPT ![b] = @ \cup ({target[b]} \ {None})] /\ intruded' \in BOOLEAN
        /\ target' = target /\ temp' = temp /\ UNCHANGED <<snapshot, late, threadOthers>>
    BY <1>7 DEF BackUp
  <2>4. /\ backups' \in [Bottles -> SUBSET ({Embedded, Partial} \cup Foreign)]
        /\ target[b] \in Foreign => target[b] \in backups'[b]
    BY <2>3, ForeignAssumption DEF InstallInv, InstallType
  <2> QED BY <2>1, <2>2, <2>3, <2>4, GoesOnInv DEF InstallInv, InstallType
<1>8. ASSUME NEW b \in Bottles, BeginCopy(w, b) \/ EndCopy(w, b) PROVE InstallInv'
  <2>1. PICK place \in {"copying", "rename"} : Goto(w, place)
    BY <1>8 DEF BeginCopy, EndCopy
  <2>2. /\ place \in Places \ {"idle"} /\ worker[w].b = b /\ worker[w].pc \in Copying
        /\ worker[w].pc # "idle"
    BY <1>8, <2>1 DEF BeginCopy, EndCopy, At, Places, Copying
  <2>3. worker' = [worker EXCEPT ![w].pc = place, ![w].b = b]
    BY <2>1, <2>2, <1>5
  <2>4. /\ temp' \in [Bottles -> {None, Embedded, Partial}]
        /\ UNCHANGED <<target, backups, snapshot, late, threadOthers, intruded>>
    BY <1>8 DEF BeginCopy, EndCopy, InstallInv, InstallType
  <2>5. ~intruded' /\ target'[b] \in Foreign => target'[b] \in backups'[b]
    BY <2>2, <2>4 DEF InstallInv, KeptInv
  <2> QED BY <2>2, <2>3, <2>4, <2>5, GoesOnInv DEF InstallInv, InstallType
<1>9. ASSUME NEW b \in Bottles, RenameOver(w, b) \/ RemoveDll(w, b) PROVE InstallInv'
  <2>1. PICK place \in {"verify", "check"} : Goto(w, place)
    BY <1>9 DEF RenameOver, RemoveDll
  <2>2. place \in Places \ {"idle"} /\ place \notin Copying /\ worker[w].b = b /\ worker[w].pc # "idle"
    BY <1>9 DEF RenameOver, RemoveDll, At, Places, Copying
  <2>3. worker' = [worker EXCEPT ![w].pc = place, ![w].b = b]
    BY <2>1, <2>2, <1>5
  <2>4. /\ temp' \in [Bottles -> {None, Embedded, Partial}]
        /\ target' \in [Bottles -> {None, Embedded, Partial} \cup Foreign]
        /\ UNCHANGED <<backups, snapshot, late, threadOthers, intruded>>
    BY <1>9 DEF RenameOver, RemoveDll, InstallInv, InstallType
  <2> QED BY <2>2, <2>3, <2>4, GoesOnInv DEF InstallInv, InstallType
<1>10. ASSUME NEW b \in Bottles, Verify(w, b) \/ ApplyOverride(w, b) PROVE InstallInv'
  <2>1. CASE Unsuccessful(w)
    BY <2>1, <1>1, <1>10 DEF Verify, ApplyOverride, At
  <2>2. CASE ~Unsuccessful(w)
    <3>1. PICK place \in {"registry", "check"} : Goto(w, place)
      BY <1>10, <2>2 DEF Verify, ApplyOverride
    <3>2. place \in Places \ {"idle"} /\ place \notin Copying /\ worker[w].b = b /\ worker[w].pc # "idle"
      BY <1>10 DEF Verify, ApplyOverride, At, Places, Copying
    <3>3. worker' = [worker EXCEPT ![w].pc = place, ![w].b = b]
      BY <3>1, <3>2, <1>5
    <3>4. UNCHANGED <<target, temp, backups, snapshot, late, threadOthers, intruded>>
      BY <1>10, <2>2 DEF Verify, ApplyOverride, files
    <3> QED BY <3>2, <3>3, <3>4, GoesOnInv DEF InstallInv, InstallType
  <2> QED BY <2>1, <2>2
<1> QED BY <1>2, <1>3, <1>4, <1>6, <1>7, <1>8, <1>9, <1>10 DEF WorkerStep

\* What others write in a bottle, the thread that works there may lose.
LEMMA OthersInv ==
  ASSUME InstallInv, NEW b \in Bottles,
         \/ OthersDropOverride(b) \/ DriveMoves(b)
         \/ \E content \in Foreign \cup {None} : OthersWrite(b, content)
  PROVE  InstallInv'
<1>1. UNCHANGED <<temp, backups, chosen, view, screen, snapshot, late, worker>>
  BY DEF OthersDropOverride, DriveMoves, OthersWrite, files, menu
<1>2. AloneInv' /\ OpeningInv' /\ ActsOnShownSelection'
  BY <1>1 DEF InstallInv, AloneInv, Active, IsInstalling, OpeningInv, ActsOnShownSelection,
              AllowsInstall, AllowsUninstall
<1>3. CASE UNCHANGED <<target, intruded>>
  BY <1>1, <1>2, <1>3 DEF InstallInv, InstallType, KeptInv
<1>4. ASSUME NEW content \in Foreign \cup {None}, OthersWrite(b, content) PROVE InstallInv'
  <2>1. /\ target' = [target EXCEPT ![b] = content]
        /\ intruded' = (intruded \/ \E w \in Workers : worker[w].b = b /\ worker[w].pc \in Copying)
    BY <1>4 DEF OthersWrite, Copying
  <2>2. intruded' \in BOOLEAN
    BY <2>1
  <2>3. InstallType'
    BY <1>1, <2>1, <2>2 DEF InstallInv, InstallType
  <2>4. ASSUME NEW w \in Workers, worker[w].pc \in Copying, ~intruded', target'[worker[w].b] \in Foreign
        PROVE  target'[worker[w].b] \in backups[worker[w].b]
    <3>1. ~intruded /\ worker[w].b # b
      BY <2>1, <2>4
    <3>2. target'[worker[w].b] = target[worker[w].b]
      BY <2>1, <3>1 DEF InstallInv, InstallType
    <3> QED BY <2>4, <3>1, <3>2 DEF InstallInv, KeptInv
  <2> QED BY <1>1, <1>2, <2>3, <2>4 DEF InstallInv, KeptInv
<1> QED BY <1>3, <1>4 DEF OthersDropOverride, DriveMoves, files

LEMMA StepInstallInv == InstallInv /\ [Next]_vars => InstallInv'
<1> SUFFICES ASSUME InstallInv, [Next]_vars PROVE InstallInv'
  OBVIOUS
<1>1. CASE Restart
  <2>1. /\ \A w \in Workers : worker'[w] = Idle
        /\ worker' \in [Workers -> [pc : Places, ctx : Contexts \cup {None}, b : Bottles \cup {None}]]
    BY <1>1 DEF Restart, Idle, Places
  <2>2. intruded' \in BOOLEAN /\ screen' = "closed" /\ UNCHANGED <<target, temp, backups, chosen>>
    BY <1>1 DEF Restart, files
  <2>3. InstallType'
    BY <2>1, <2>2 DEF InstallInv, InstallType
  <2>4. AloneInv' /\ KeptInv'
    BY <2>1 DEF AloneInv, Active, KeptInv, Copying, Idle
  <2> QED BY <2>2, <2>3, <2>4 DEF InstallInv, OpeningInv, ActsOnShownSelection
<1>2. CASE UNCHANGED vars
  <2> USE <1>2 DEF vars, files, menu, InstallInv
  <2>1. InstallType' /\ KeptInv'
    BY DEF InstallType, KeptInv
  <2>2. AloneInv' /\ OpeningInv' /\ ActsOnShownSelection'
    BY DEF AloneInv, Active, IsInstalling, OpeningInv, ActsOnShownSelection, AllowsInstall, AllowsUninstall
  <2> QED BY <2>1, <2>2
<1>3. CASE \/ MenuWillOpen \/ MenuRendered \/ MenuDismissed \/ RefreshTimer
           \/ \E ctx \in Bottles \cup {Automatic} : ChooseBottle(ctx)
  BY <1>3, MenuInv DEF Contexts
<1>4. ASSUME NEW w \in Workers, StartInstall(w) \/ StartUninstall(w) \/ WorkerStep(w) PROVE InstallInv'
  BY <1>4, StartInv, ThreadInv
<1>5. ASSUME NEW b \in Bottles,
             \/ OthersDropOverride(b) \/ DriveMoves(b)
             \/ \E content \in Foreign \cup {None} : OthersWrite(b, content)
      PROVE  InstallInv'
  BY <1>5, OthersInv
<1> QED BY <1>1, <1>2, <1>3, <1>4, <1>5 DEF Next

LEMMA InstallInvHolds == Spec => []InstallInv
<1> QED BY InitInstallInv, StepInstallInv, PTL DEF Spec

-----------------------------------------------------------------------------

\* However the menu, the refresh, a change of the selection and the ends of
\* threads interleave, no two threads work on the files at a time.
THEOREM NeverTwoOperations == Spec => []OneOperationAtATime
<1>1. InstallInv => OneOperationAtATime
  <2> SUFFICES ASSUME InstallInv PROVE Cardinality(Active) <= 1
    BY DEF OneOperationAtATime, Active
  <2>1. CASE Active = {}
    BY <2>1, FS_EmptySet
  <2>2. CASE Active # {}
    <3>1. PICK w \in Active : Active = {w}
      BY <2>2 DEF InstallInv, AloneInv
    <3>2. Cardinality(Active) = 1
      BY <3>1, FS_Singleton
    <3> QED BY <3>2
  <2> QED BY <2>1, <2>2
<1> QED BY <1>1, InstallInvHolds, PTL

\* What an open menu offers to do is offered for the selected bottle, unless an
\* operation ended between the refresh of the opening menu and its rendering.
THEOREM MenuIsOfSelection == Spec => []ActsOnShownSelection
<1>1. InstallInv => ActsOnShownSelection
  BY DEF InstallInv
<1> QED BY <1>1, InstallInvHolds, PTL

\* An installation, also one that repeats an interrupted one, replaces another
\* program's DLL only after it has kept a copy, but for a DLL put there after.
THEOREM NoDriverLost == Spec => ReplacedDriverKept
<1> DEFINE Kept == \A b \in Bottles :
              (target[b] \in Foreign /\ target'[b] = Embedded) => (intruded \/ target[b] \in backups[b])
<1>1. InstallInv /\ [Next]_vars => [Kept]_vars
  <2> SUFFICES ASSUME InstallInv, Next, NEW b \in Bottles, target[b] \in Foreign, target'[b] = Embedded
               PROVE  intruded \/ target[b] \in backups[b]
    OBVIOUS
  <2>1. target'[b] # target[b] /\ Embedded \notin Foreign \cup {None}
    BY ForeignAssumption DEF Embedded, None
  <2>2. PICK w \in Workers : RenameOver(w, b)
    <3>1. target' # target
      BY <2>1
    <3>2. ASSUME NEW w \in Workers, WorkerStep(w) PROVE \E c \in Bottles : RenameOver(w, c) \/ RemoveDll(w, c)
      BY <3>1, <3>2 DEF WorkerStep, Resolve, StepFails, Publish, Unsuccessful, CompareDigest, BackUp,
                        BeginCopy, EndCopy, Verify, ApplyOverride, files
    <3>3. \/ \E w \in Workers, c \in Bottles : RenameOver(w, c) \/ RemoveDll(w, c)
          \/ \E c \in Bottles, content \in Foreign \cup {None} : OthersWrite(c, content)
      BY <3>1, <3>2 DEF Next, MenuWillOpen, MenuRendered, MenuDismissed, RefreshTimer, ChooseBottle, StartInstall,
                        StartUninstall, Start, Restart, OthersDropOverride, DriveMoves, files
    <3>4. ASSUME NEW c \in Bottles, NEW content \in Foreign \cup {None},
                 target' = [target EXCEPT ![c] = content]
          PROVE  FALSE
      BY <2>1, <3>4 DEF InstallInv, InstallType
    <3>5. ASSUME NEW w \in Workers, NEW c \in Bottles, RenameOver(w, c) PROVE c = b
      BY <2>1, <3>5 DEF RenameOver, InstallInv, InstallType
    <3> QED BY <3>3, <3>4, <3>5 DEF RemoveDll, OthersWrite
  <2> QED BY <2>2 DEF RenameOver, At, Copying, InstallInv, KeptInv
<1> QED BY <1>1, InstallInvHolds, PTL DEF Spec, ReplacedDriverKept
-----------------------------------------------------------------------------
(* The configuration of a bottle *)

Lists   == Seq(Devices) \ {<< >>}
LineSet == PlainLine \cup {IgnoreList(v) : v \in Lists}

LEMMA LineKinds ==
  ASSUME NEW line \in LineSet
  PROVE  /\ line.kind = "ignore" => line.value \in Lists /\ line = IgnoreList(line.value)
         /\ line.kind # "ignore" => line \in PlainLine
BY DEF LineSet, PlainLine, IgnoreList

LEMMA ListIsLine ==
  /\ \A v \in Lists : IgnoreList(v) \in LineSet /\ IgnoreList(v).kind = "ignore" /\ IgnoreList(v).value = v
  /\ Other \in LineSet /\ Other.kind = "other"
  /\ [kind |-> "environment"] \in LineSet
BY DEF LineSet, PlainLine, IgnoreList, Other

\* What is filtered out of a list, and what is written into one.
LEMMA OneEntry ==
  ASSUME NEW d \in Devices
  PROVE  << d >> \in Lists /\ Len(<< d >>) = 1 /\ << d >>[1] = d
<1>1. << d >> \in Seq(Devices) /\ Len(<< d >>) = 1 /\ << d >>[1] = d
  OBVIOUS
<1>2. << d >> # << >>
  BY <1>1, EmptySeq
<1> QED BY <1>1, <1>2 DEF Lists

LEMMA OneFiltered ==
  ASSUME NEW d \in Devices, NEW X
  PROVE  d \in X => Without(<< d >>, X) = << >>
<1>1. << >> \in Seq(Devices) /\ Append(<< >>, d) = << d >>
  BY EmptySeq
<1>2. d \in X => Without(Append(<< >>, d), X) = Without(<< >>, X)
  BY <1>1, WithoutOneMore
<1> QED BY <1>1, <1>2, WithoutNothing, Zenon

LEMMA OursAreDevices == Ours \subseteq Devices /\ "" \in Devices /\ "" \notin Ours /\ "0x05AC/0x0004" \in Ours
BY DEF Devices, Ours

LEMMA RemovedList ==
  ASSUME NEW v \in Lists
  PROVE  /\ Removed(v) \in Lists /\ ~Hides(Removed(v))
         /\ OtherDevices(Removed(v)) = OtherDevices(v)
<1> DEFINE w == Without(v, Ours)
           Z == Ours \cup {""}
<1>1. v \in Seq(Devices)
  BY DEF Lists
<1>2. w \in Seq(Devices) /\ Avoids(w, Ours)
  BY <1>1, WithoutAvoids
<1>3. Without(w, Z) = Without(v, Z)
  <2>1. Ours \subseteq Z
    OBVIOUS
  <2> HIDE DEF Z
  <2> QED BY <1>1, <2>1, WithoutWithout
<1>4. CASE w = << >>
  <2>1. Removed(v) = << "" >>
    BY <1>4 DEF Removed, Joined
  <2>2. << "" >> \in Lists /\ Len(<< "" >>) = 1 /\ << "" >>[1] = ""
    BY OneEntry, OursAreDevices
  <2>3. ~Hides(<< "" >>)
    <3>1. 1 .. 1 = {1}
      OBVIOUS
    <3>2. 1 .. Len(<< "" >>) = {1}
      BY <3>1, <2>2, Zenon
    <3> QED BY <3>2, <2>2, OursAreDevices DEF Hides
  <2>4. Without(<< "" >>, Z) = << >>
    <3>1. "" \in Devices /\ "" \in Z
      BY OursAreDevices
    <3> HIDE DEF Z
    <3> QED BY <3>1, OneFiltered
  <2>5. Without(v, Z) = << >>
    BY <1>3, <1>4, WithoutNothing
  <2> QED BY <2>1, <2>2, <2>3, <2>4, <2>5 DEF OtherDevices
<1>5. CASE w # << >>
  <2>1. Removed(v) = w
    BY <1>5 DEF Removed, Joined
  <2>2. w \in Lists /\ ~Hides(w)
    BY <1>2, <1>5 DEF Lists, Hides, Avoids
  <2> QED BY <2>1, <2>2, <1>3 DEF OtherDevices
<1> QED BY <1>4, <1>5

LEMMA AppendedList ==
  ASSUME NEW v \in Lists
  PROVE  /\ Appended(v) \in Lists /\ Hides(Appended(v))
         /\ OtherDevices(Appended(v)) = OtherDevices(v)
         /\ ~Hides(v) => Removed(Appended(v)) = v
<1> DEFINE x == "0x05AC/0x0004"
           Z == Ours \cup {""}
<1>1. v \in Seq(Devices) /\ v # << >> /\ x \in Ours /\ x \in Devices /\ x \in Z
  BY OursAreDevices DEF Lists
<1> HIDE DEF x, Z
<1>3. << x >> \in Lists /\ Len(<< x >>) = 1 /\ << x >>[1] = x
  BY <1>1, OneEntry
<1>4. CASE v = << "" >>
  <2>1. Appended(v) = << x >>
    BY <1>4 DEF Appended, x
  <2>2. Hides(<< x >>)
    BY <1>1, <1>3 DEF Hides
  <2>3. Without(<< x >>, Z) = << >> /\ Without(<< x >>, Ours) = << >>
    BY <1>1, OneFiltered
  <2>4. Without(<< "" >>, Z) = << >>
    <3>1. "" \in Devices /\ "" \in Z
      BY OursAreDevices DEF Z
    <3> QED BY <3>1, OneFiltered
  <2>5. Removed(<< x >>) = << "" >>
    BY <2>3 DEF Removed, Joined
  <2> QED BY <1>3, <1>4, <2>1, <2>2, <2>3, <2>4, <2>5 DEF OtherDevices, Z
<1>5. CASE v # << "" >>
  <2>1. Appended(v) = Append(v, x)
    BY <1>5 DEF Appended, x
  <2>2. /\ Append(v, x) \in Lists /\ Len(v) + 1 \in 1 .. Len(Append(v, x))
        /\ Append(v, x)[Len(v) + 1] = x
    <3>1. Len(v) \in Nat
      BY <1>1, LenProperties
    <3> QED BY <3>1, <1>1, AppendProperties DEF Lists
  <2>3. Hides(Append(v, x))
    BY <1>1, <2>2 DEF Hides
  <2>4. Without(Append(v, x), Z) = Without(v, Z) /\ Without(Append(v, x), Ours) = Without(v, Ours)
    BY <1>1, WithoutOneMore
  <2>5. ASSUME ~Hides(v) PROVE Removed(Append(v, x)) = v
    <3>1. Avoids(v, Ours)
      BY <2>5 DEF Hides, Avoids
    <3>2. Without(v, Ours) = v
      BY <1>1, <3>1, WithoutAvoids
    <3> QED BY <1>1, <2>4, <3>2 DEF Removed, Joined
  <2> QED BY <2>1, <2>2, <2>3, <2>4, <2>5 DEF OtherDevices, Z
<1> QED BY <1>4, <1>5

\* One line replaced by another of its kind changes nothing that the parser sees.
LEMMA SameKinds ==
  ASSUME NEW s \in Seq(LineSet), NEW t \in Seq(LineSet), Len(t) = Len(s),
         \A i \in 1 .. Len(s) : t[i].kind = s[i].kind
  PROVE  Settings(t) = Settings(s) /\ (Parses(t) <=> Parses(s))
<1>1. \A k : Positions(t, k) = Positions(s, k)
  BY DEF Positions
<1>2. Headers(t) = Headers(s)
  BY <1>1 DEF Headers
<1>3. \A i : InEnvironment(t, i) <=> InEnvironment(s, i)
  BY <1>1, <1>2 DEF InEnvironment
<1>4. Settings(t) = Settings(s)
  BY <1>1, <1>3 DEF Settings
<1> QED BY <1>1, <1>3, <1>4 DEF Parses

LEMMA ListAt ==
  ASSUME NEW s \in Seq(LineSet), NEW i \in Positions(s, "ignore")
  PROVE  i \in 1 .. Len(s) /\ s[i].value \in Lists /\ s[i] = IgnoreList(s[i].value)
<1>1. i \in 1 .. Len(s) /\ s[i].kind = "ignore"
  BY DEF Positions
<1>2. s[i] \in LineSet
  BY <1>1, ElementOfSeq
<1> QED BY <1>1, <1>2, LineKinds

LEMMA ListWritten ==
  ASSUME NEW s \in Seq(LineSet), NEW i \in Positions(s, "ignore"), NEW v \in Lists
  PROVE  [s EXCEPT ![i].value = v] \in Seq(LineSet)
<1>1. i \in 1 .. Len(s) /\ s[i].value \in Lists /\ s[i] = IgnoreList(s[i].value)
  BY ListAt
<1>2. \A x \in Lists : [IgnoreList(x) EXCEPT !.value = v] = IgnoreList(v)
  BY DEF IgnoreList
<1>3. [s[i] EXCEPT !.value = v] = IgnoreList(v)
  BY <1>1, <1>2
<1>4. [s EXCEPT ![i].value = v] = [s EXCEPT ![i] = [s[i] EXCEPT !.value = v]]
  OBVIOUS
<1>5. IgnoreList(v) \in LineSet
  BY ListIsLine
<1> QED BY <1>1, <1>3, <1>4, <1>5, ExceptSeq

\* Another list where the only one was.
LEMMA ListReplaced ==
  ASSUME NEW s \in Seq(LineSet), NEW i \in Settings(s), NEW v \in Lists
  PROVE  LET t == [s EXCEPT ![i].value = v]
         IN  /\ t \in Seq(LineSet) /\ Len(t) = Len(s) /\ t[i].value = v
             /\ Settings(t) = Settings(s) /\ (Parses(t) <=> Parses(s))
             /\ [t EXCEPT ![i] = s[i]] = s
             /\ [t EXCEPT ![i].value = s[i].value] = s
<1> DEFINE w == s[i].value
           t == [s EXCEPT ![i].value = v]
           u == [s EXCEPT ![i] = IgnoreList(v)]
<1>1. i \in 1 .. Len(s) /\ w \in Lists /\ s[i] = IgnoreList(w)
  BY ListAt DEF Settings
<1>2. Len(s) \in Nat /\ s \in [1 .. Len(s) -> LineSet] /\ DOMAIN s = 1 .. Len(s)
  BY LenProperties
<1>3. IgnoreList(v) \in LineSet /\ IgnoreList(w) \in LineSet
  BY <1>1, ListIsLine
<1>4. \A x \in Lists : [IgnoreList(w) EXCEPT !.value = x] = IgnoreList(x)
  BY DEF IgnoreList
<1>5. t = u
  <2>1. [s[i] EXCEPT !.value = v] = IgnoreList(v)
    BY <1>1, <1>4
  <2>2. t = [s EXCEPT ![i] = [s[i] EXCEPT !.value = v]]
    OBVIOUS
  <2> QED BY <2>1, <2>2
<1> HIDE DEF t
<1>6. u \in Seq(LineSet) /\ Len(u) = Len(s) /\ DOMAIN u = 1 .. Len(s)
  BY <1>1, <1>2, <1>3, ExceptSeq
<1>7. /\ u[i] = IgnoreList(v)
      /\ \A j \in 1 .. Len(s) : j # i => u[j] = s[j]
  BY <1>1, <1>2
<1>8. [u EXCEPT ![i] = s[i]] = s
  BY <1>2, <1>6, <1>7
<1>9. [u EXCEPT ![i].value = w] = s
  <2>1. [u[i] EXCEPT !.value = w] = s[i]
    BY <1>1, <1>7 DEF IgnoreList
  <2>2. [u EXCEPT ![i].value = w] = [u EXCEPT ![i] = [u[i] EXCEPT !.value = w]]
    OBVIOUS
  <2> QED BY <2>1, <2>2, <1>8
<1> HIDE DEF u
<1>10. \A j \in 1 .. Len(s) : u[j].kind = s[j].kind
  BY <1>1, <1>7 DEF IgnoreList
<1>11. Settings(u) = Settings(s) /\ (Parses(u) <=> Parses(s))
  BY <1>6, <1>10, SameKinds
<1>12. u[i].value = v
  BY <1>7 DEF IgnoreList
<1> QED BY <1>5, <1>6, <1>8, <1>9, <1>11, <1>12 DEF t

\* t is s with n lines more behind its line at.
Spliced(s, t, at, n) ==
  /\ at \in 0 .. Len(s) /\ n \in 1 .. 3 /\ Len(t) = Len(s) + n
  /\ \A j \in 1 .. at : t[j] = s[j]
  /\ \A j \in at + 1 .. Len(s) : t[j + n] = s[j]

LEMMA SplicedInserted ==
  ASSUME NEW s \in Seq(LineSet), NEW t \in Seq(LineSet), NEW at, NEW n, Spliced(s, t, at, n)
  PROVE  LinesInserted(s, t)
<1>1. /\ at \in 0 .. Len(s) /\ n \in 1 .. 3 /\ Len(t) = Len(s) + n /\ Len(s) \in Nat
      /\ at \in Nat /\ at \in Int /\ n \in Nat /\ Len(t) \in Int /\ at + n + 1 \in Int /\ 1 \in Int
  BY LenProperties DEF Spliced
<1>2. \A j \in 1 .. Len(t) : t[j] \in LineSet
  BY ElementOfSeq
<1> DEFINE a == SubSeq(t, 1, at)
           b == SubSeq(t, at + n + 1, Len(t))
<1>3. a \in Seq(LineSet) /\ Len(a) = at /\ \A j \in 1 .. at : a[j] = s[j]
  <2>1. \A j \in 1 .. at : j \in 1 .. Len(t) /\ t[j] = s[j]
    BY <1>1 DEF Spliced
  <2>2. /\ a \in Seq(LineSet) /\ Len(a) = (IF 1 <= at THEN at - 1 + 1 ELSE 0)
        /\ \A j \in 1 .. at - 1 + 1 : a[j] = t[1 + j - 1]
    <3>1. \A j \in 1 .. at : t[j] \in LineSet
      BY <1>2, <2>1
    <3> QED BY <1>1, <3>1, SubSeqProperties
  <2>3. at - 1 + 1 = at /\ \A j \in 1 .. at : 1 + j - 1 = j
    BY <1>1
  <2> HIDE DEF a
  <2>4. Len(a) = at
    BY <1>1, <2>2, <2>3
  <2>5. ASSUME NEW j \in 1 .. at PROVE a[j] = s[j]
    <3>1. a[j] = t[1 + j - 1]
      BY <2>2, <2>3
    <3> QED BY <2>1, <2>3, <3>1
  <2> QED BY <2>2, <2>4, <2>5
<1>4. /\ b \in Seq(LineSet) /\ Len(b) = Len(s) - at
      /\ \A j \in 1 .. Len(s) - at : b[j] = s[at + j]
  <2> DEFINE l == at + n + 1
  <2>1. /\ \A j \in l .. Len(t) : j \in 1 .. Len(t)
        /\ Len(t) - l + 1 = Len(s) - at
        /\ (IF l <= Len(t) THEN Len(s) - at ELSE 0) = Len(s) - at
    BY <1>1
  <2>2. /\ b \in Seq(LineSet) /\ Len(b) = (IF l <= Len(t) THEN Len(t) - l + 1 ELSE 0)
        /\ \A j \in 1 .. Len(t) - l + 1 : b[j] = t[l + j - 1]
    <3>1. \A j \in l .. Len(t) : t[j] \in LineSet
      BY <1>2, <2>1
    <3> QED BY <1>1, <3>1, SubSeqProperties
  <2> HIDE DEF b
  <2>3. ASSUME NEW j \in 1 .. Len(s) - at PROVE b[j] = s[at + j]
    <3>1. at + j \in at + 1 .. Len(s) /\ l + j - 1 = (at + j) + n
      BY <1>1
    <3>2. t[(at + j) + n] = s[at + j]
      BY <3>1 DEF Spliced
    <3> QED BY <2>1, <2>2, <3>1, <3>2
  <2> QED BY <2>1, <2>2, <2>3
<1> HIDE DEF a, b
<1>5. /\ a \o b \in Seq(LineSet) /\ Len(a \o b) = at + (Len(s) - at)
      /\ \A j \in 1 .. at + (Len(s) - at) : (a \o b)[j] = IF j <= at THEN a[j] ELSE b[j - at]
  BY <1>3, <1>4, ConcatProperties
<1>6. at + (Len(s) - at) = Len(s)
  BY <1>1
<1>7. ASSUME NEW j \in 1 .. Len(s) PROVE (a \o b)[j] = s[j]
  <2>1. CASE j <= at
    BY <2>1, <1>1, <1>3, <1>5, <1>6
  <2>2. CASE ~(j <= at)
    <3>1. j - at \in 1 .. Len(s) - at /\ at + (j - at) = j
      BY <2>2, <1>1
    <3>2. b[j - at] = s[j]
      BY <3>1, <1>4
    <3> QED BY <2>2, <3>2, <1>5, <1>6
  <2> QED BY <2>1, <2>2
<1>8. a \o b = s
  BY <1>5, <1>6, <1>7, SeqEqual
<1> QED BY <1>1, <1>8 DEF LinesInserted, a, b

\* A line of t behind the splice is a line of s, one before is the same line.
Whence(s, t, at, n, j) ==
  \/ j \in 1 .. at /\ j \in 1 .. Len(s) /\ t[j] = s[j]
  \/ j \in at + 1 .. at + n
  \/ j > at + n /\ j - n \in at + 1 .. Len(s) /\ t[j] = s[j - n]

LEMMA SplicedLine ==
  ASSUME NEW s \in Seq(LineSet), NEW t \in Seq(LineSet), NEW at, NEW n, Spliced(s, t, at, n),
         NEW j \in 1 .. Len(t)
  PROVE  Whence(s, t, at, n, j)
<1>1. at \in 0 .. Len(s) /\ n \in 1 .. 3 /\ Len(t) = Len(s) + n /\ Len(s) \in Nat
  BY LenProperties DEF Spliced
<1>2. CASE j \in 1 .. at
  BY <1>1, <1>2 DEF Spliced, Whence
<1>3. CASE j > at + n
  <2>1. j - n \in at + 1 .. Len(s) /\ (j - n) + n = j
    BY <1>1, <1>3
  <2>2. t[(j - n) + n] = s[j - n]
    BY <2>1 DEF Spliced
  <2> QED BY <1>3, <2>1, <2>2 DEF Whence
<1> QED BY <1>1, <1>2, <1>3 DEF Whence

\* What matters of a line that is inserted: it is put where the environment
\* variables are, and there was no list there.
LEMMA InsertedBelowHeader ==
  ASSUME NEW s \in Seq(LineSet), NEW t \in Seq(LineSet), NEW e \in Positions(s, "environment"),
         Parses(s), Settings(s) = {}, Spliced(s, t, e, 1),
         t[e + 1] = IgnoreList(<< "0x05AC/0x0004" >>)
  PROVE  Parses(t) /\ Settings(t) = {e + 1}
<1>1. e \in 1 .. Len(s) /\ s[e].kind = "environment" /\ Len(s) \in Nat /\ Len(t) = Len(s) + 1
  BY LenProperties DEF Positions, Spliced
<1>2. t[e + 1].kind = "ignore"
  BY DEF IgnoreList
<1>3. /\ \A j \in 1 .. Len(t) : \/ j \in 1 .. e /\ j \in 1 .. Len(s) /\ t[j] = s[j]
                                \/ j = e + 1
                                \/ j > e + 1 /\ j - 1 \in e + 1 .. Len(s) /\ t[j] = s[j - 1]
  <2> SUFFICES ASSUME NEW j \in 1 .. Len(t)
               PROVE  \/ j \in 1 .. e /\ j \in 1 .. Len(s) /\ t[j] = s[j]
                      \/ j = e + 1
                      \/ j > e + 1 /\ j - 1 \in e + 1 .. Len(s) /\ t[j] = s[j - 1]
    OBVIOUS
  <2>1. Whence(s, t, e, 1, j)
    BY SplicedLine
  <2> QED BY <2>1, <1>1 DEF Whence
<1>4. \A j \in e + 1 .. Len(s) : j + 1 \in 1 .. Len(t) /\ t[j + 1] = s[j]
  BY <1>1 DEF Spliced
<1>5. \A j \in Positions(s, "environment") : j = e
  BY DEF Parses, AtMostOne
<1>6. Positions(t, "environment") = {e}
  <2>1. e \in Positions(t, "environment")
    BY <1>1 DEF Positions, Spliced
  <2>2. ASSUME NEW j \in Positions(t, "environment") PROVE j = e
    <3>1. j \in 1 .. Len(t) /\ t[j].kind = "environment"
      BY DEF Positions
    <3>2. CASE j \in 1 .. e /\ j \in 1 .. Len(s) /\ t[j] = s[j]
      BY <3>1, <3>2, <1>5 DEF Positions
    <3>3. CASE j > e + 1 /\ j - 1 \in e + 1 .. Len(s) /\ t[j] = s[j - 1]
      <4>1. j - 1 \in Positions(s, "environment")
        BY <3>1, <3>3, <1>1 DEF Positions
      <4> QED BY <3>3, <4>1, <1>1, <1>5
    <3> QED BY <3>1, <3>2, <3>3, <1>2, <1>3
  <2> QED BY <2>1, <2>2
<1>7. \A k \in Headers(s) : k > e => k + 1 \in Headers(t)
  <2>1. ASSUME NEW k \in Headers(s), k > e PROVE k + 1 \in Headers(t)
    <3>1. k \in e + 1 .. Len(s) /\ s[k].kind \in {"environment", "section"}
      BY <2>1, <1>1 DEF Headers, Positions
    <3> QED BY <3>1, <1>4 DEF Headers, Positions
  <2> QED BY <2>1
<1>8. ASSUME NEW i \in 1 .. Len(t), InEnvironment(t, i), i # e + 1
      PROVE  /\ i - 1 \in 1 .. Len(s) /\ t[i] = s[i - 1] /\ InEnvironment(s, i - 1)
  <2>1. e < i /\ \A k \in Headers(t) : k <= e \/ k > i
    BY <1>6, <1>8 DEF InEnvironment
  <2>2. i > e + 1 /\ i - 1 \in e + 1 .. Len(s) /\ t[i] = s[i - 1]
    BY <2>1, <1>1, <1>3, <1>8
  <2>3. ASSUME NEW k \in Headers(s) PROVE k <= e \/ k > i - 1
    <3>1. k \in 1 .. Len(s)
      BY DEF Headers, Positions
    <3>2. k > e => k + 1 > i
      BY <3>1, <2>1, <1>1, <1>7
    <3> QED BY <3>1, <3>2, <1>1
  <2>4. i - 1 \in 1 .. Len(s) /\ e < i - 1
    BY <2>2, <1>1
  <2> QED BY <2>2, <2>3, <2>4 DEF InEnvironment
<1>9. InEnvironment(t, e + 1)
  <2>1. ASSUME NEW k \in Headers(t) PROVE k <= e \/ k > e + 1
    <3>1. k \in 1 .. Len(t) /\ t[k].kind \in {"environment", "section"}
      BY DEF Headers, Positions
    <3>2. k # e + 1
      BY <3>1, <1>2
    <3> QED BY <3>1, <3>2, <1>1
  <2> QED BY <2>1, <1>1, <1>6 DEF InEnvironment
<1>10. Settings(t) = {e + 1}
  <2>1. e + 1 \in Settings(t)
    BY <1>1, <1>2, <1>9 DEF Settings, Positions
  <2>2. ASSUME NEW i \in Settings(t), i # e + 1 PROVE FALSE
    <3>1. i \in 1 .. Len(t) /\ t[i].kind = "ignore" /\ InEnvironment(t, i)
      BY DEF Settings, Positions
    <3>2. i - 1 \in Settings(s)
      BY <3>1, <2>2, <1>8 DEF Settings, Positions
    <3> QED BY <3>2
  <2> QED BY <2>1, <2>2
<1>11. Positions(t, "malformed") = {}
  <2>1. ASSUME NEW j \in Positions(t, "malformed") PROVE FALSE
    <3>1. j \in 1 .. Len(t) /\ t[j].kind = "malformed" /\ j # e + 1
      BY <1>2 DEF Positions
    <3>2. \E k \in 1 .. Len(s) : s[k].kind = "malformed"
      BY <3>1, <1>1, <1>3
    <3> QED BY <3>2 DEF Parses, Positions
  <2> QED BY <2>1
<1>12. ASSUME NEW i \in Positions(t, "unsupported"), InEnvironment(t, i) PROVE FALSE
  <2>1. i \in 1 .. Len(t) /\ t[i].kind = "unsupported" /\ i # e + 1
    BY <1>2 DEF Positions
  <2>2. i - 1 \in Positions(s, "unsupported") /\ InEnvironment(s, i - 1)
    BY <2>1, <1>8, <1>12 DEF Positions
  <2> QED BY <2>2 DEF Parses
<1> QED BY <1>6, <1>10, <1>11, <1>12 DEF Parses, AtMostOne

\* A section of its own at the end of a file that has no environment variables.
LEMMA SectionAppended ==
  ASSUME NEW s \in Seq(LineSet), NEW t \in Seq(LineSet), NEW n \in {2, 3},
         Positions(s, "environment") = {}, Parses(s), Spliced(s, t, Len(s), n),
         t[Len(s) + n - 1] = [kind |-> "environment"],
         n = 3 => t[Len(s) + 1] = Other,
         t[Len(s) + n] = IgnoreList(<< "0x05AC/0x0004" >>)
  PROVE  Parses(t) /\ Settings(t) = {Len(s) + n}
<1> DEFINE e == Len(s) + n - 1
<1>1. Len(s) \in Nat /\ Len(t) = Len(s) + n /\ e \in Nat /\ e + 1 = Len(s) + n /\ e \in 1 .. Len(t)
      /\ e + 1 \in 1 .. Len(t) /\ Len(t) = e + 1
  BY LenProperties DEF Spliced
<1>2. t[e].kind = "environment" /\ t[e + 1].kind = "ignore"
  BY <1>1 DEF IgnoreList
<1>3. ASSUME NEW j \in 1 .. Len(t), j # e, j # e + 1
      PROVE  j < e /\ (t[j].kind = "other" \/ (j \in 1 .. Len(s) /\ t[j] = s[j]))
  <2>1. CASE j \in 1 .. Len(s)
    BY <2>1, <1>1 DEF Spliced
  <2>2. CASE j \notin 1 .. Len(s)
    <3>1. n = 3 /\ j = Len(s) + 1
      BY <2>2, <1>1, <1>3
    <3> QED BY <3>1, <1>1 DEF Other
  <2> QED BY <2>1, <2>2
<1> HIDE DEF e
<1>4. Positions(t, "environment") = {e}
  <2>1. ASSUME NEW j \in Positions(t, "environment"), j # e PROVE FALSE
    <3>1. j \in 1 .. Len(t) /\ t[j].kind = "environment" /\ j # e + 1
      BY <1>2 DEF Positions
    <3>2. j \in Positions(s, "environment")
      BY <3>1, <2>1, <1>3 DEF Positions
    <3> QED BY <3>2
  <2>2. e \in Positions(t, "environment")
    BY <1>1, <1>2 DEF Positions
  <2> QED BY <2>1, <2>2
<1>5. ASSUME NEW i \in 1 .. Len(t), InEnvironment(t, i) PROVE i = e + 1
  <2>1. e < i
    BY <1>4, <1>5 DEF InEnvironment
  <2> QED BY <2>1, <1>1
<1>6. InEnvironment(t, e + 1)
  <2>1. ASSUME NEW k \in Headers(t) PROVE k <= e
    <3>1. k \in 1 .. Len(t) /\ t[k].kind \in {"environment", "section"}
      BY DEF Headers, Positions
    <3>2. k # e + 1
      BY <3>1, <1>2
    <3> QED BY <3>1, <3>2, <1>1
  <2>2. e < e + 1 /\ e \in Positions(t, "environment")
    BY <1>1, <1>4
  <2> QED BY <2>1, <2>2 DEF InEnvironment
<1>7. Settings(t) = {e + 1}
  BY <1>1, <1>2, <1>5, <1>6 DEF Settings, Positions
<1>8. Positions(t, "malformed") = {}
  <2>1. ASSUME NEW j \in Positions(t, "malformed") PROVE FALSE
    <3>1. j \in 1 .. Len(t) /\ t[j].kind = "malformed" /\ j # e + 1 /\ j # e
      BY <1>2 DEF Positions
    <3>2. j \in Positions(s, "malformed")
      BY <3>1, <1>3 DEF Positions
    <3> QED BY <3>2 DEF Parses
  <2> QED BY <2>1
<1>9. ASSUME NEW i \in Positions(t, "unsupported"), InEnvironment(t, i) PROVE FALSE
  BY <1>2, <1>5, <1>9 DEF Positions
<1> QED BY <1>1, <1>4, <1>7, <1>8, <1>9 DEF Parses, AtMostOne

LEMMA InsertAtSplices ==
  ASSUME NEW s \in Seq(LineSet), NEW at \in 1 .. Len(s), NEW l \in LineSet
  PROVE  LET t == InsertAt(s, 1 + at, l)
         IN  t \in Seq(LineSet) /\ Spliced(s, t, at, 1) /\ t[at + 1] = l
<1> DEFINE a == SubSeq(s, 1, at)
           b == SubSeq(s, at + 1, Len(s))
           m == << l >>
           t == a \o m \o b
<1>1. /\ Len(s) \in Nat /\ at \in Nat /\ at + 1 \in Int /\ Len(s) \in Int /\ 1 + at = at + 1
      /\ (1 + at) - 1 = at /\ 1 \in Int /\ at \in Int
  BY LenProperties
<1>2. InsertAt(s, 1 + at, l) = t
  BY <1>1 DEF InsertAt
<1>3. a \in Seq(LineSet) /\ Len(a) = at /\ \A j \in 1 .. at : a[j] = s[j]
  <2>1. \A j \in 1 .. at : s[j] \in LineSet
    BY <1>1, ElementOfSeq
  <2>2. /\ a \in Seq(LineSet) /\ Len(a) = (IF 1 <= at THEN at - 1 + 1 ELSE 0)
        /\ \A j \in 1 .. at - 1 + 1 : a[j] = s[1 + j - 1]
    BY <1>1, <2>1, SubSeqProperties
  <2>3. at - 1 + 1 = at /\ \A j \in 1 .. at : 1 + j - 1 = j
    BY <1>1
  <2> HIDE DEF a
  <2> QED BY <1>1, <2>2, <2>3
<1>4. /\ b \in Seq(LineSet) /\ Len(b) = Len(s) - at
      /\ \A j \in 1 .. Len(s) - at : b[j] = s[at + j]
  <2>1. \A j \in at + 1 .. Len(s) : s[j] \in LineSet
    BY <1>1, ElementOfSeq
  <2>2. /\ b \in Seq(LineSet)
        /\ Len(b) = (IF at + 1 <= Len(s) THEN Len(s) - (at + 1) + 1 ELSE 0)
        /\ \A j \in 1 .. Len(s) - (at + 1) + 1 : b[j] = s[at + 1 + j - 1]
    BY <1>1, <2>1, SubSeqProperties
  <2>3. /\ Len(s) - (at + 1) + 1 = Len(s) - at
        /\ (IF at + 1 <= Len(s) THEN Len(s) - at ELSE 0) = Len(s) - at
        /\ \A j \in 1 .. Len(s) - at : at + 1 + j - 1 = at + j
    BY <1>1
  <2> HIDE DEF b
  <2> QED BY <2>2, <2>3
<1>5. m \in Seq(LineSet) /\ Len(m) = 1 /\ m[1] = l
  OBVIOUS
<1> HIDE DEF a, b, m
<1>6. a \o m \in Seq(LineSet) /\ Concatenated(a, m, a \o m)
  BY <1>3, <1>5, ConcatEntries
<1>7. t \in Seq(LineSet) /\ Concatenated(a \o m, b, t)
  BY <1>4, <1>6, ConcatEntries
<1> HIDE DEF t
<1>8. Len(a \o m) = at + 1 /\ Len(t) = Len(s) + 1
  BY <1>1, <1>3, <1>4, <1>5, <1>6, <1>7 DEF Concatenated
<1>9. ASSUME NEW j \in 1 .. at PROVE t[j] = s[j]
  <2>1. j \in 1 .. at + 1
    BY <1>1
  <2>2. t[j] = (a \o m)[j]
    BY <2>1, <1>7, <1>8 DEF Concatenated
  <2>3. (a \o m)[j] = a[j]
    BY <1>3, <1>6 DEF Concatenated
  <2> QED BY <2>2, <2>3, <1>3
<1>10. t[at + 1] = l
  <2>1. at + 1 \in 1 .. at + 1 /\ 1 \in 1 .. 1
    BY <1>1
  <2>2. t[at + 1] = (a \o m)[at + 1]
    BY <2>1, <1>7, <1>8 DEF Concatenated
  <2>3. (a \o m)[at + 1] = m[1]
    BY <2>1, <1>3, <1>5, <1>6 DEF Concatenated
  <2> QED BY <2>2, <2>3, <1>5
<1>11. ASSUME NEW j \in at + 1 .. Len(s) PROVE t[j + 1] = s[j]
  <2>1. j - at \in 1 .. Len(s) - at /\ at + (j - at) = j /\ (at + 1) + (j - at) = j + 1
    BY <1>1
  <2>2. t[(at + 1) + (j - at)] = b[j - at]
    BY <2>1, <1>4, <1>7, <1>8 DEF Concatenated
  <2>3. b[j - at] = s[at + (j - at)]
    BY <2>1, <1>4
  <2> QED BY <2>1, <2>2, <2>3
<1>12. at \in 0 .. Len(s)
  BY <1>1
<1>13. Spliced(s, t, at, 1)
  BY <1>8, <1>9, <1>11, <1>12 DEF Spliced
<1> QED BY <1>2, <1>7, <1>10, <1>13

LEMMA AppendedSplices ==
  ASSUME NEW s \in Seq(LineSet), NEW m \in Seq(LineSet), NEW l \in LineSet, NEW h \in LineSet,
         Len(m) \in {0, 1}
  PROVE  LET t == s \o m \o << h, l >>
             n == Len(m) + 2
         IN  /\ t \in Seq(LineSet) /\ Spliced(s, t, Len(s), n)
             /\ t[Len(s) + n - 1] = h /\ t[Len(s) + n] = l
             /\ n = 3 => t[Len(s) + 1] = m[1]
<1> DEFINE e == << h, l >>
           k == Len(m)
           n == k + 2
           t == s \o m \o e
<1>1. Len(s) \in Nat /\ k \in {0, 1}
  BY LenProperties
<1>2. e \in Seq(LineSet) /\ Len(e) = 2 /\ e[1] = h /\ e[2] = l
  OBVIOUS
<1> HIDE DEF e
<1>3. s \o m \in Seq(LineSet) /\ Concatenated(s, m, s \o m)
  BY ConcatEntries
<1>4. t \in Seq(LineSet) /\ Concatenated(s \o m, e, t)
  BY <1>2, <1>3, ConcatEntries
<1> HIDE DEF t, k
<1>5. Len(s \o m) = Len(s) + k /\ Len(t) = Len(s) + n
  BY <1>1, <1>2, <1>3, <1>4 DEF Concatenated, k
<1>6. ASSUME NEW j \in 1 .. Len(s) PROVE t[j] = s[j]
  <2>1. j \in 1 .. Len(s) + k
    BY <1>1
  <2>2. t[j] = (s \o m)[j]
    BY <2>1, <1>4, <1>5 DEF Concatenated
  <2>3. (s \o m)[j] = s[j]
    BY <1>3 DEF Concatenated
  <2> QED BY <2>2, <2>3
<1>7. t[Len(s) + n - 1] = h
  <2>1. Len(s) + n - 1 = (Len(s) + k) + 1 /\ 1 \in 1 .. 2
    BY <1>1
  <2>2. t[(Len(s) + k) + 1] = e[1]
    BY <2>1, <1>2, <1>4, <1>5 DEF Concatenated
  <2> QED BY <2>1, <2>2, <1>2
<1>8. t[Len(s) + n] = l
  <2>1. Len(s) + n = (Len(s) + k) + 2 /\ 2 \in 1 .. 2
    BY <1>1
  <2>2. t[(Len(s) + k) + 2] = e[2]
    BY <2>1, <1>2, <1>4, <1>5 DEF Concatenated
  <2> QED BY <2>1, <2>2, <1>2
<1>9. ASSUME n = 3 PROVE t[Len(s) + 1] = m[1]
  <2>1. k = 1 /\ Len(s) + 1 \in 1 .. Len(s) + k /\ 1 \in 1 .. k
    BY <1>1, <1>9
  <2>2. t[Len(s) + 1] = (s \o m)[Len(s) + 1]
    BY <2>1, <1>4, <1>5 DEF Concatenated
  <2>3. (s \o m)[Len(s) + 1] = m[1]
    BY <2>1, <1>3 DEF Concatenated, k
  <2> QED BY <2>2, <2>3
<1>10. Spliced(s, t, Len(s), n)
  <2>1. n \in 1 .. 3 /\ Len(s) \in 0 .. Len(s) /\ Len(s) + 1 .. Len(s) = {}
    BY <1>1
  <2> QED BY <2>1, <1>5, <1>6 DEF Spliced
<1> QED BY <1>4, <1>7, <1>8, <1>9, <1>10 DEF t, k, e

\* The list of a file that has one.
LEMMA TheSetting ==
  ASSUME NEW s, Parses(s), NEW i \in Settings(s)
  PROVE  /\ Settings(s) = {i} /\ (CHOOSE j \in Settings(s) : TRUE) = i
         /\ Hidden(s) <=> Hides(s[i].value)
<1>1. Settings(s) = {i}
  BY DEF Parses, AtMostOne
<1> QED BY <1>1 DEF Hidden

\* The edit of a list.
LEMMA ListIsEdited ==
  ASSUME NEW s \in Seq(LineSet), NEW hidden \in BOOLEAN, Parses(s),
         Hidden(s) # hidden, Settings(s) # {}
  PROVE  UpdateConfig(s, hidden) \in Seq(LineSet) /\ Surgical(s, hidden)
<1>1. PICK i \in Settings(s) : TRUE
  OBVIOUS
<1> DEFINE v == s[i].value
           w == IF hidden THEN Appended(v) ELSE Removed(v)
           t == [s EXCEPT ![i].value = w]
<1>2. Settings(s) = {i} /\ (CHOOSE j \in Settings(s) : TRUE) = i /\ (Hidden(s) <=> Hides(v))
  BY <1>1, TheSetting
<1>3. UpdateConfig(s, hidden) = t
  BY <1>2 DEF UpdateConfig
<1>4. i \in 1 .. Len(s) /\ v \in Lists
  BY <1>1, ListAt DEF Settings
<1>5. w \in Lists /\ (Hides(w) <=> hidden) /\ OtherDevices(w) = OtherDevices(v)
  <2>1. CASE hidden
    BY <2>1, <1>4, AppendedList
  <2>2. CASE ~hidden
    BY <2>2, <1>4, RemovedList
  <2> QED BY <2>1, <2>2
<1> HIDE DEF w
<1>6. /\ t \in Seq(LineSet) /\ Len(t) = Len(s) /\ t[i].value = w
      /\ Settings(t) = Settings(s) /\ (Parses(t) <=> Parses(s))
      /\ [t EXCEPT ![i] = s[i]] = s
      /\ [t EXCEPT ![i].value = s[i].value] = s
  BY <1>1, <1>5, ListReplaced
<1> HIDE DEF t
<1>7. Parses(t) /\ i \in Settings(t)
  BY <1>1, <1>6
<1>8. (Hidden(t) <=> hidden) /\ (CHOOSE j \in Settings(t) : TRUE) = i /\ Settings(t) # {}
  BY <1>5, <1>6, <1>7, TheSetting
<1>9. ListEdited(s, t)
  BY <1>1, <1>5, <1>6 DEF ListEdited
<1>10. ASSUME hidden, ~Hidden(s) PROVE UpdateConfig(t, FALSE) = s
  <2>1. Removed(w) = v
    BY <1>2, <1>4, <1>10, AppendedList DEF w
  <2>2. Hidden(t) # FALSE
    BY <1>8, <1>10
  <2>3. UpdateConfig(t, FALSE) = [t EXCEPT ![i].value = Removed(t[i].value)]
    BY <2>2, <1>8 DEF UpdateConfig
  <2>4. t[i].value = w
    BY <1>6
  <2> QED BY <2>1, <2>3, <2>4, <1>6
<1>11. Hidden(t) = hidden
  BY <1>8 DEF Hidden
<1> QED BY <1>3, <1>6, <1>7, <1>9, <1>10, <1>11 DEF Surgical

\* A line, or a section with one, for a file that has no list.
LEMMA ListIsInserted ==
  ASSUME NEW s \in Seq(LineSet), NEW hidden \in BOOLEAN, Parses(s),
         Hidden(s) # hidden, Settings(s) = {}
  PROVE  UpdateConfig(s, hidden) \in Seq(LineSet) /\ Surgical(s, hidden)
<1> DEFINE v == << "0x05AC/0x0004" >>
           line == IgnoreList(v)
           header == [kind |-> "environment"]
           t == Inserted(s)
<1>1. hidden = TRUE /\ UpdateConfig(s, hidden) = t
  <2>1. Hidden(s) = FALSE
    BY DEF Hidden
  <2> QED BY <2>1 DEF UpdateConfig
<1>2. v \in Lists /\ Hides(v)
  <2>1. PICK d \in Devices : d = "0x05AC/0x0004" /\ d \in Ours
    BY OursAreDevices
  <2>2. << d >> \in Lists /\ Len(<< d >>) = 1 /\ << d >>[1] = d /\ 1 \in 1 .. 1
    BY OneEntry
  <2>3. Hides(<< d >>)
    BY <2>1, <2>2 DEF Hides
  <2> QED BY <2>1, <2>2, <2>3
<1> HIDE DEF v
<1>3. line \in LineSet /\ header \in LineSet /\ Other \in LineSet /\ line.value = v
  BY <1>2, ListIsLine
<1>4. CASE Positions(s, "environment") # {}
  <2> DEFINE e == CHOOSE i \in Positions(s, "environment") : TRUE
  <2>1. e \in Positions(s, "environment") /\ e \in 1 .. Len(s)
    BY <1>4 DEF Positions
  <2>2. t = InsertAt(s, 1 + e, line)
    BY <1>4 DEF Inserted, v
  <2> HIDE DEF e, t
  <2>3. t \in Seq(LineSet) /\ Spliced(s, t, e, 1) /\ t[e + 1] = line
    BY <2>1, <2>2, <1>3, InsertAtSplices
  <2>4. Parses(t) /\ Settings(t) = {e + 1}
    BY <2>1, <2>3, InsertedBelowHeader DEF v
  <2>5. Hidden(t) = TRUE
    BY <2>3, <2>4, <1>2, <1>3 DEF Hidden
  <2>6. LinesInserted(s, t)
    BY <2>3, SplicedInserted
  <2> QED BY <1>1, <2>3, <2>4, <2>5, <2>6 DEF Surgical
<1>5. CASE Positions(s, "environment") = {}
  <2> DEFINE m == IF s = << >> THEN << >> ELSE << Other >>
             n == Len(m) + 2
  <2>1. t = s \o m \o << header, line >>
    BY <1>5 DEF Inserted, v
  <2>2. m \in Seq(LineSet) /\ Len(m) \in {0, 1} /\ (Len(m) = 1 => m[1] = Other)
    <3>1. << >> \in Seq(LineSet) /\ Len(<< >>) = 0
      BY EmptySeq
    <3>2. << Other >> \in Seq(LineSet) /\ Len(<< Other >>) = 1 /\ << Other >>[1] = Other
      BY <1>3
    <3> QED BY <3>1, <3>2
  <2> HIDE DEF m, t
  <2>3. /\ t \in Seq(LineSet) /\ Spliced(s, t, Len(s), n)
        /\ t[Len(s) + n - 1] = header /\ t[Len(s) + n] = line
        /\ n = 3 => t[Len(s) + 1] = m[1]
    BY <2>1, <2>2, <1>3, AppendedSplices
  <2>4. n \in {2, 3} /\ (n = 3 => m[1] = Other)
    <3>1. \A l \in {0, 1} : l + 2 \in {2, 3} /\ (l + 2 = 3 => l = 1)
      OBVIOUS
    <3> QED BY <3>1, <2>2
  <2> HIDE DEF n
  <2>5. Parses(t) /\ Settings(t) = {Len(s) + n}
    BY <2>3, <2>4, <1>5, SectionAppended DEF v
  <2>6. Hidden(t) = TRUE
    BY <2>3, <2>5, <1>2, <1>3 DEF Hidden
  <2>7. LinesInserted(s, t)
    BY <2>3, SplicedInserted
  <2> QED BY <1>1, <2>3, <2>5, <2>6, <2>7 DEF Surgical
<1> QED BY <1>4, <1>5

LEMMA EveryEdit ==
  ASSUME NEW s \in Seq(LineSet), NEW hidden \in BOOLEAN, Parses(s)
  PROVE  UpdateConfig(s, hidden) \in Seq(LineSet) /\ Surgical(s, hidden)
<1>1. CASE Hidden(s) = hidden
  <2>1. UpdateConfig(s, hidden) = s
    BY <1>1 DEF UpdateConfig
  <2> QED BY <1>1, <2>1 DEF Surgical
<1> QED BY <1>1, ListIsEdited, ListIsInserted

Files == [lines : Seq(LineSet), version : Nat]

ConfigType ==
  /\ file \in Files /\ original \in Files
  /\ tpc \in {"idle", "read", "write", "recheck", "replace"}
  /\ wanted \in BOOLEAN /\ raced \in BOOLEAN

\* What was read before the edit was parsed; what the last look at the file
\* has seen is still there, unless CrossOver wrote since.
EditInv ==
  /\ tpc \in {"write", "recheck", "replace"} => Parses(original.lines)
  /\ tpc = "replace" /\ ~raced => file = original

ConfigInv == ConfigType /\ EditInv

LEMMA LinesOf ==
  ASSUME NEW f \in Files
  PROVE  f.lines \in Seq(LineSet) /\ f.version \in Nat
         /\ \A s \in Seq(LineSet) : [lines |-> s, version |-> f.version + 1] \in Files
BY DEF Files

LEMMA NothingIsFile == Nothing \in Files
<1>1. << >> \in Seq(LineSet)
  BY EmptySeq
<1> QED BY <1>1 DEF Files, Nothing

LEMMA ConfigBegins == ConfigInit => ConfigInv
<1> SUFFICES ASSUME ConfigInit PROVE ConfigInv
  OBVIOUS
<1>1. PICK n \in 0 .. MaxLines :
        \E s \in [1 .. n -> PlainLine \cup {IgnoreList(<< d >>) : d \in Devices}] :
          file = [lines |-> s, version |-> 0]
  BY DEF ConfigInit
<1>2. PICK s \in [1 .. n -> PlainLine \cup {IgnoreList(<< d >>) : d \in Devices}] :
        file = [lines |-> s, version |-> 0]
  BY <1>1
<1>3. PlainLine \cup {IgnoreList(<< d >>) : d \in Devices} \subseteq LineSet
  BY OneEntry DEF LineSet
<1>4. n \in Nat /\ s \in [1 .. n -> LineSet]
  BY <1>3, BoundsAssumption
<1>5. s \in Seq(LineSet)
  BY <1>4
<1>6. file \in Files
  BY <1>2, <1>5 DEF Files
<1> QED BY <1>6, NothingIsFile DEF ConfigInit, ConfigInv, ConfigType, EditInv

LEMMA EditedIsFile ==
  ASSUME NEW s \in Seq(LineSet), NEW t \in Edits(s)
  PROVE  t \in Seq(LineSet)
<1>1. CASE t = s
  BY <1>1
<1>2. CASE t = Append(s, Other)
  BY <1>2, ListIsLine, AppendProperties
<1>3. CASE t \in {SubSeq(s, 1, n) : n \in {Len(s) - 1} \cap Nat}
  <2>1. Len(s) - 1 \in Nat /\ t = SubSeq(s, 1, Len(s) - 1) /\ Len(s) \in Nat
    BY <1>3, LenProperties
  <2>2. \A i \in 1 .. Len(s) - 1 : s[i] \in LineSet
    BY <2>1, ElementOfSeq
  <2> QED BY <2>1, <2>2, SubSeqProperties
<1>4. CASE t \in {[s EXCEPT ![i].value = v] : i \in Positions(s, "ignore"), v \in Values}
  <2>1. PICK i \in Positions(s, "ignore"), v \in Values : t = [s EXCEPT ![i].value = v]
    BY <1>4
  <2>2. v \in Lists
    <3>1. PICK n \in 1 .. MaxDevices : v \in [1 .. n -> Devices]
      BY DEF Values
    <3>2. n \in Nat \ {0}
      BY <3>1, BoundsAssumption
    <3>3. v \in Seq(Devices) /\ Len(v) = n
      BY <3>1, <3>2
    <3>4. v # << >>
      BY <3>2, <3>3, EmptySeq
    <3> QED BY <3>3, <3>4 DEF Lists
  <2> QED BY <2>1, <2>2, ListWritten
<1> QED BY <1>1, <1>2, <1>3, <1>4 DEF Edits

LEMMA ConfigStep == ConfigInv /\ [ConfigNext]_configVars => ConfigInv'
<1> SUFFICES ASSUME ConfigInv, [ConfigNext]_configVars PROVE ConfigInv'
  OBVIOUS
<1> USE DEF ConfigInv
<1>1. CASE Toggle
  <2>1. wanted' \in BOOLEAN
    BY <1>1 DEF Toggle, Hidden
  <2> QED BY <1>1, <2>1 DEF Toggle, ConfigType, EditInv
<1>2. CASE ReadOriginal
  BY <1>2, NothingIsFile DEF ReadOriginal, Return, ConfigType, EditInv
<1>3. CASE WriteTemporary
  BY <1>3 DEF WriteTemporary, ConfigType, EditInv
<1>4. CASE Recheck
  BY <1>4, NothingIsFile DEF Recheck, Return, ConfigType, EditInv
<1>5. CASE Replace
  <2>1. UpdateConfig(original.lines, wanted) \in Seq(LineSet)
    BY <1>5, LinesOf, EveryEdit DEF Replace, ConfigType, EditInv
  <2>2. file' \in Files
    BY <1>5, <2>1, LinesOf DEF Replace, ConfigType
  <2> QED BY <1>5, <2>2, NothingIsFile DEF Replace, Return, ConfigType, EditInv
<1>6. CASE Abandon
  BY <1>6, NothingIsFile DEF Abandon, Return, ConfigType, EditInv
<1>7. CASE CrossOverEdits
  <2>1. PICK t \in Edits(file.lines) : file' = [lines |-> t, version |-> file.version + 1]
    BY <1>7 DEF CrossOverEdits
  <2>2. file' \in Files
    BY <2>1, LinesOf, EditedIsFile DEF ConfigType
  <2>3. raced' = (tpc = "replace") /\ UNCHANGED <<tpc, wanted, original>>
    BY <1>7 DEF CrossOverEdits
  <2> QED BY <2>2, <2>3 DEF ConfigType, EditInv
<1>8. CASE UNCHANGED configVars
  BY <1>8 DEF configVars, ConfigType, EditInv
<1> QED BY <1>1, <1>2, <1>3, <1>4, <1>5, <1>6, <1>7, <1>8 DEF ConfigNext

\* For every file that the parser accepts, of any lines and with lists of any
\* length, hiding and showing the duplicate controller edits nothing else.
THEOREM EverySurgical == ConfigSpec => []EditIsSurgical
<1>1. ConfigInv => EditIsSurgical
  <2> SUFFICES ASSUME ConfigInv, Parses(file.lines), NEW hidden \in BOOLEAN
               PROVE  Surgical(file.lines, hidden)
    BY DEF EditIsSurgical
  <2> QED BY LinesOf, EveryEdit DEF ConfigInv, ConfigType
<1> QED BY <1>1, ConfigBegins, ConfigStep, PTL DEF ConfigSpec

\* No edit of CrossOver's is lost that was there at the last look at the file.
THEOREM NoEditLost == ConfigSpec => ObservedEditsKept
<1>1. ConfigInv /\ [ConfigNext]_configVars =>
        [(tpc = "replace" /\ tpc' = "idle" /\ file' # file /\ ~raced)
           => file'.lines = UpdateConfig(file.lines, wanted)]_file
  <2> SUFFICES ASSUME ConfigInv, [ConfigNext]_configVars,
                      tpc = "replace", tpc' = "idle", file' # file, ~raced
               PROVE  file'.lines = UpdateConfig(file.lines, wanted)
    OBVIOUS
  <2>1. CASE Replace
    BY <2>1 DEF Replace, ConfigInv, EditInv
  <2>2. CASE CrossOverEdits
    BY <2>2 DEF CrossOverEdits
  <2>3. ~Toggle /\ ~ReadOriginal /\ ~WriteTemporary /\ ~Recheck /\ ~Abandon
    BY DEF Toggle, ReadOriginal, WriteTemporary, Recheck, Abandon
  <2>4. ~(UNCHANGED configVars)
    BY DEF configVars
  <2> QED BY <2>1, <2>2, <2>3, <2>4 DEF ConfigNext
<1> QED BY <1>1, ConfigBegins, ConfigStep, PTL DEF ConfigSpec, ObservedEditsKept
=============================================================================
