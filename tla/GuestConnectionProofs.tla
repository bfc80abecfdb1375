------------------------ MODULE GuestConnectionProofs ------------------------
(***************************************************************************)
(* Proofs about GuestConnection, and about the pace of its attempts        *)
(* (ReconnectPacing), for every number of bridges, callers, workers and    *)
(* stoppers and every value of the other constants.                        *)
(*                                                                         *)
(* The argument is one inductive invariant, IInv: each conjunct is proved  *)
(* preserved action by action, and the safety properties follow from it.   *)
(***************************************************************************)
EXTENDS ReconnectPacing, TLAPS

USE NoBridgeAssumption, FallbackAssumption

\* Every interval is a number of ticks.
LEMMA IntervalsAreNat == Intervals \subseteq Nat
  BY IntervalAssumption DEF Intervals

\* A wrapping counter changes on every bump, and stays in its range.
LEMMA BumpChanges ==
  ASSUME NEW n \in 0 .. GenerationModulus - 1
  PROVE  Bump(n) \in 0 .. GenerationModulus - 1 /\ Bump(n) # n
<1>1. CASE n + 1 < GenerationModulus
  BY <1>1, ModulusAssumption DEF Bump
<1>2. CASE n + 1 = GenerationModulus
  BY <1>2, ModulusAssumption DEF Bump
<1> QED BY <1>1, <1>2, ModulusAssumption

\* What RetireBridge leaves: nothing published, and no session's catalog.
LEMMA RetireType ==
  ASSUME TypeOK, NEW kept \in SUBSET Bridges, RetireBridge(kept)
  PROVE  /\ bridge' = NoBridge
         /\ identity' \in Identities
         /\ catalog' \in {NoBridge, Fallback}
         /\ retired' = IF bridge = NoBridge THEN kept ELSE kept \cup {bridge}
         /\ retired' \subseteq Bridges
         /\ generation' \in 0 .. GenerationModulus - 1
         /\ (bridge' # bridge) <=> (generation' # generation)
<1>1. identity \in Identities /\ bridge \in MaybeBridge
  BY DEF TypeOK
<1>2. MarkStale(identity) \in Identities
  BY <1>1 DEF MarkStale, Identities
<1>3. CurrentIdentity(MarkStale(identity)) \in {NoBridge, Fallback}
  BY <1>1 DEF MarkStale, Identities, CurrentIdentity
<1>4. generation \in 0 .. GenerationModulus - 1
  BY DEF TypeOK
<1>5. Bump(generation) \in 0 .. GenerationModulus - 1 /\ Bump(generation) # generation
  BY <1>4, BumpChanges
<1> QED BY <1>1, <1>2, <1>3, <1>4, <1>5 DEF RetireBridge, MaybeBridge

\* The identity changes only in the sections that set or retire a bridge.
LEMMA InitType == Init => TypeOK
<1> SUFFICES ASSUME Init PROVE TypeOK
  OBVIOUS
<1>1. identity \in Identities
  BY ModeAssumption DEF Init, NewIdentity, Identities, AllowDebugFallback, MaybeBridge
<1>2. catalog \in Catalogs
  BY ModeAssumption DEF Init, NewIdentity, CurrentIdentity, Catalogs, MaybeBridge
<1>3. generation \in 0 .. GenerationModulus - 1
  BY ModulusAssumption DEF Init
<1>4. /\ status \in [Bridges -> {"fresh", "live", "joined", "joinedByCaller"}]
      /\ healthy \in [Bridges -> BOOLEAN]
  BY DEF Init
<1>5. /\ wpc \in [Workers -> WorkerPCs]
      /\ cleanup \in [Workers -> SUBSET Bridges]
      /\ seenEpoch \in [Workers -> Nat]
  BY DEF Init, WorkerPCs
<1>6. /\ cpc \in [Callers -> {"idle", "calling", "clear", "release"}]
      /\ held \in [Callers -> MaybeBridge]
      /\ route \in [Callers -> Catalogs]
      /\ spc \in [Stoppers -> {"running", "check", "asleep", "stopped"}]
  BY DEF Init, MaybeBridge, Catalogs
<1> QED
  BY <1>1, <1>2, <1>3, <1>4, <1>5, <1>6 DEF Init, TypeOK, MaybeBridge, Intervals

\* One iteration of the worker's loop keeps the types.
LEMMA IterationType ==
  ASSUME TypeOK, NEW w \in Workers, Iteration(w), workerRunning' \in BOOLEAN
  PROVE  TypeOK'
<1>1. Kept \in SUBSET Bridges /\ Collected \in SUBSET Bridges
  BY DEF TypeOK, Kept, Collected
<1>2. wpc' \in [Workers -> WorkerPCs] /\ connecting' \in BOOLEAN /\ seenEpoch' \in [Workers -> Nat]
  <2>1. CASE StoppingIteration(w)
    <3>1. \E pc \in WorkerPCs : wpc' = [wpc EXCEPT ![w] = pc]
      BY <2>1 DEF StoppingIteration, WorkerPCs
    <3> QED BY <2>1, <3>1 DEF TypeOK, StoppingIteration
  <2>2. CASE ConnectIteration(w)
    BY <2>2 DEF TypeOK, ConnectIteration, WorkerPCs
  <2>3. CASE WaitIteration(w)
    BY <2>3 DEF TypeOK, WaitIteration, WorkerPCs
  <2> QED BY <2>1, <2>2, <2>3 DEF Iteration
<1>3. /\ bridge' \in MaybeBridge /\ identity' \in Identities /\ catalog' \in Catalogs
      /\ retired' \subseteq Bridges /\ generation' \in 0 .. GenerationModulus - 1
  <2>1. CASE RetireBridge(Kept)
    BY <1>1, <2>1, RetireType DEF MaybeBridge, Catalogs
  <2>2. CASE KeepBridge(Kept)
    BY <1>1, <2>2 DEF TypeOK, KeepBridge
  <2> QED
    BY <2>1, <2>2 DEF Iteration, StoppingIteration, ConnectIteration, WaitIteration,
       RetireUnhealthy
<1>4. cleanup' \in [Workers -> SUBSET Bridges]
  BY <1>1 DEF TypeOK, Iteration
<1> QED
  BY <1>2, <1>3, <1>4 DEF TypeOK, Iteration, retryVars, bridgeVars, callerVars

\* Every step keeps the types.
LEMMA NextType == TypeOK /\ [Next]_vars => TypeOK'
<1> SUFFICES ASSUME TypeOK, [Next]_vars PROVE TypeOK'
  OBVIOUS
<1> USE DEF connVars, flagVars, retryVars, bridgeVars, workerVars, callerVars
<1>1. ASSUME NEW c \in Callers, BeginCall(c) PROVE TypeOK'
  BY <1>1 DEF TypeOK, BeginCall, MaybeBridge, Catalogs, BridgeHealthy
<1>2. ASSUME NEW c \in Callers, EndCall(c) PROVE TypeOK'
  BY <1>2 DEF TypeOK, EndCall
<1>3. ASSUME NEW c \in Callers, ClearBridgeIfCurrent(c) PROVE TypeOK'
  <2>1. CASE bridge = held[c]
    <3>1. retired \in SUBSET Bridges
      BY DEF TypeOK
    <3>2. /\ bridge' \in MaybeBridge /\ identity' \in Identities /\ catalog' \in Catalogs
          /\ retired' \subseteq Bridges /\ generation' \in 0 .. GenerationModulus - 1
      BY <1>3, <2>1, <3>1, RetireType DEF ClearBridgeIfCurrent, MaybeBridge, Catalogs
    <3> QED
      BY <1>3, <2>1, <3>2 DEF TypeOK, ClearBridgeIfCurrent, NotifyOne
  <2>2. CASE bridge # held[c]
    BY <1>3, <2>2 DEF TypeOK, ClearBridgeIfCurrent, NotifyOne
  <2> QED BY <2>1, <2>2
<1>4. ASSUME NEW c \in Callers, Release(c) PROVE TypeOK'
  BY <1>4 DEF TypeOK, Release, MaybeBridge, Catalogs
<1>5. CASE ClearBridge
  <2>1. retired \in SUBSET Bridges
    BY DEF TypeOK
  <2>2. /\ bridge' \in MaybeBridge /\ identity' \in Identities /\ catalog' \in Catalogs
        /\ retired' \subseteq Bridges /\ generation' \in 0 .. GenerationModulus - 1
    BY <1>5, <2>1, RetireType DEF ClearBridge, MaybeBridge, Catalogs
  <2> QED
    BY <1>5, <2>2 DEF TypeOK, ClearBridge, NotifyOne
<1>6. CASE EnsureConnected
  BY <1>6 DEF TypeOK, EnsureConnected, NotifyOne
<1>7. ASSUME NEW w \in Workers, WorkerRefused(w) PROVE TypeOK'
  BY <1>7 DEF TypeOK, WorkerRefused, WorkerPCs
<1>8. ASSUME NEW w \in Workers, WorkerEnter(w) \/ WorkerIterate(w) PROVE TypeOK'
  BY <1>8, IterationType DEF TypeOK, WorkerEnter, WorkerIterate
<1>9. ASSUME NEW w \in Workers, NEW b \in Bridges, WorkerJoin(w, b) PROVE TypeOK'
  BY <1>9 DEF TypeOK, WorkerJoin
<1>10. ASSUME NEW w \in Workers, WorkerWait(w) \/ WorkerConnect(w) PROVE TypeOK'
  BY <1>10 DEF TypeOK, WorkerWait, WorkerConnect, WorkerPCs
<1>11. ASSUME NEW w \in Workers, NEW b \in Bridges, ConnectOk(w, b) PROVE TypeOK'
  <2>1. CASE DiscardLateSuccess(b)
    BY <1>11, <2>1, IntervalsAreNat DEF TypeOK, ConnectOk, DiscardLateSuccess, WorkerPCs
  <2>2. CASE Publish(b)
    <3>1. identity' \in Identities
      <4>1. PICK fallback \in BOOLEAN :
              identity' = [host |-> b, fallback |-> fallback, stale |-> FALSE]
        BY <2>2, Zenon DEF Publish
      <4> QED BY <4>1 DEF Identities, MaybeBridge
    <3>2. generation' \in 0 .. GenerationModulus - 1
      BY <2>2, BumpChanges DEF Publish, TypeOK
    <3> QED
      BY <1>11, <2>2, <3>1, <3>2 DEF TypeOK, ConnectOk, Publish, WorkerPCs, MaybeBridge, Catalogs
  <2> QED BY <1>11, <2>1, <2>2 DEF ConnectOk
<1>12. ASSUME NEW w \in Workers, ConnectFail(w) PROVE TypeOK'
  BY <1>12, IntervalsAreNat DEF TypeOK, ConnectFail, WorkerPCs, Intervals
<1>13. ASSUME NEW w \in Workers, WorkerExit(w) PROVE TypeOK'
  BY <1>13 DEF TypeOK, WorkerExit, WorkerPCs, Awakened
<1>14. ASSUME NEW s \in Stoppers, RequestStop(s) PROVE TypeOK'
  BY <1>14 DEF TypeOK, RequestStop, Awakened
<1>15. ASSUME NEW s \in Stoppers, StopCheck(s) PROVE TypeOK'
  BY <1>15 DEF TypeOK, StopCheck
<1>16. ASSUME NEW b \in Bridges, BridgeFails(b) PROVE TypeOK'
  BY <1>16 DEF TypeOK, BridgeFails
<1>17. CASE Tick
  BY <1>17 DEF TypeOK, Tick
<1>18. CASE UNCHANGED vars
  BY <1>18 DEF TypeOK, vars
<1> QED
  BY <1>1, <1>2, <1>3, <1>4, <1>5, <1>6, <1>7, <1>8, <1>9, <1>10, <1>11, <1>12,
     <1>13, <1>14, <1>15, <1>16, <1>17, <1>18
     DEF Next, Step, CallerStep, WorkerStep

\* Type correctness: every variable of the runtime keeps its type, for every
\* number of sessions and threads; the generation counter stays in its word.
THEOREM TypeCorrect == Spec => []TypeOK
  BY InitType, NextType, PTL DEF Spec

-----------------------------------------------------------------------------

Parts == WorkerInv /\ OwnerInv /\ BorrowInv /\ CatalogInv /\ StopInv

\* Retiring moves the published bridge to the retired list and nothing else.
LEMMA RetireKeeps ==
  ASSUME TypeOK, Parts, RetireBridge(retired),
         UNCHANGED <<workerRunning, status, wpc, cleanup, cpc, held, route>>
  PROVE  /\ WorkerInv' /\ OwnerInv' /\ BorrowInv' /\ CatalogInv'
<1>1. /\ bridge' = NoBridge
      /\ catalog' \in {NoBridge, Fallback}
      /\ retired' = IF bridge = NoBridge THEN retired ELSE retired \cup {bridge}
  BY RetireType DEF TypeOK
<1>2. CatalogInv'
  BY <1>1 DEF CatalogInv, Fallback
<1>3. WorkerInv'
  BY <1>1 DEF Parts, WorkerInv, Active
<1>4. OwnerInv'
  BY <1>1 DEF Parts, OwnerInv, TypeOK, MaybeBridge
<1>5. BorrowInv'
  BY <1>1 DEF Parts, BorrowInv, TypeOK
<1> QED BY <1>2, <1>3, <1>4, <1>5

\* The sections of the callers, the requests and the environment.
LEMMA CallerStepKeeps ==
  ASSUME TypeOK, Parts, NEW c \in Callers, BeginCall(c) \/ CallerStep(c)
  PROVE  Parts'
<1> USE DEF connVars, flagVars, retryVars, bridgeVars, workerVars, callerVars
<1>1. CASE BeginCall(c)
  <2>1. bridge \in Bridges
    BY <1>1 DEF BeginCall, BridgeHealthy, TypeOK, MaybeBridge
  <2>2. BorrowInv'
    BY <1>1, <2>1 DEF BeginCall, Parts, BorrowInv, CatalogInv, TypeOK
  <2> QED
    BY <1>1, <2>2 DEF BeginCall, Parts, WorkerInv, Active, OwnerInv, CatalogInv, StopInv
<1>2. CASE EndCall(c)
  <2>1. BorrowInv'
    BY <1>2 DEF EndCall, Parts, BorrowInv, TypeOK
  <2> QED
    BY <1>2, <2>1 DEF EndCall, Parts, WorkerInv, Active, OwnerInv, CatalogInv, StopInv
<1>3. CASE ClearBridgeIfCurrent(c)
  <2>1. StopInv'
    BY <1>3 DEF ClearBridgeIfCurrent, NotifyOne, Parts, StopInv, TypeOK
  <2>2. CASE bridge = held[c]
    <3>1. RetireBridge(retired)
      BY <1>3, <2>2 DEF ClearBridgeIfCurrent
    <3>2. WorkerInv' /\ OwnerInv' /\ CatalogInv'
      <4>1. bridge' = NoBridge /\ catalog' \in {NoBridge, Fallback}
            /\ retired' = IF bridge = NoBridge THEN retired ELSE retired \cup {bridge}
        BY <3>1, RetireType DEF TypeOK
      <4>2. UNCHANGED <<workerRunning, status, wpc, cleanup, held, route>>
        BY <1>3 DEF ClearBridgeIfCurrent
      <4>3. CatalogInv'
        BY <4>1 DEF CatalogInv, Fallback
      <4>4. WorkerInv'
        BY <4>1, <4>2 DEF Parts, WorkerInv, Active
      <4>5. OwnerInv'
        BY <4>1, <4>2 DEF Parts, OwnerInv, TypeOK, MaybeBridge
      <4> QED BY <4>3, <4>4, <4>5
    <3>3. BorrowInv'
      <4>1. retired' = IF bridge = NoBridge THEN retired ELSE retired \cup {bridge}
        BY <3>1, RetireType DEF TypeOK
      <4> QED
        BY <1>3, <4>1 DEF ClearBridgeIfCurrent, Parts, BorrowInv, TypeOK
    <3> QED BY <2>1, <3>2, <3>3 DEF Parts
  <2>3. CASE bridge # held[c]
    <3>1. BorrowInv'
      BY <1>3, <2>3 DEF ClearBridgeIfCurrent, Parts, BorrowInv, TypeOK
    <3> QED
      BY <1>3, <2>1, <2>3, <3>1
         DEF ClearBridgeIfCurrent, Parts, WorkerInv, Active, OwnerInv, CatalogInv
  <2> QED BY <2>2, <2>3
<1>4. CASE Release(c)
  <2>1. held[c] # NoBridge /\ (held[c] = bridge \/ held[c] \in retired)
    BY <1>4 DEF Release, Parts, BorrowInv
  <2>2. status' = status
    BY <1>4, <2>1 DEF Release
  <2>3. BorrowInv'
    BY <1>4 DEF Release, Parts, BorrowInv, TypeOK
  <2> QED
    BY <1>4, <2>2, <2>3 DEF Release, Parts, WorkerInv, Active, OwnerInv, CatalogInv, StopInv
<1> QED BY <1>1, <1>2, <1>3, <1>4 DEF CallerStep

\* While one worker is active, or before one enters, no other is active.
LEMMA OthersIdle ==
  ASSUME Parts, NEW w \in Workers, Active(w) \/ ~workerRunning
  PROVE  \A v \in Workers : Active(v) => v = w
  BY DEF Parts, WorkerInv

\* One iteration: collected bridges move to the cleanup vector, the published
\* one to the retired list, and a borrowed one never to the cleanup vector.
LEMMA IterationKeeps ==
  ASSUME TypeOK, Parts, NEW w \in Workers, Iteration(w),
         workerRunning \/ ~stopping, workerRunning' = TRUE, cleanup[w] = {},
         \A v \in Workers : Active(v) => v = w
  PROVE  Parts'
<1>1. /\ Collected \subseteq retired /\ Kept = retired \ Collected
      /\ \A b \in Collected : Unreferenced(b)
      /\ Kept \in SUBSET Bridges
  BY DEF Collected, Kept, TypeOK
<1>2. /\ cleanup' = [cleanup EXCEPT ![w] = Collected]
      /\ UNCHANGED <<stopping, status, cpc, held, route, spc>>
  BY DEF Iteration, bridgeVars, callerVars
<1>3. \A v \in Workers \ {w} : wpc'[v] = wpc[v] /\ ~Active(v) /\ cleanup[v] = {}
  <2>1. \E pc \in WorkerPCs : wpc' = [wpc EXCEPT ![w] = pc]
    BY DEF Iteration, StoppingIteration, ConnectIteration, WaitIteration, WorkerPCs
  <2> QED BY <2>1 DEF Parts, WorkerInv, Active, TypeOK
<1>4. \/ /\ bridge' = NoBridge /\ catalog' \in {NoBridge, Fallback}
         /\ retired' = IF bridge = NoBridge THEN Kept ELSE Kept \cup {bridge}
      \/ /\ bridge' = bridge /\ catalog' = catalog /\ retired' = Kept
         /\ identity' = identity
  <2>1. CASE RetireBridge(Kept)
    BY <1>1, <2>1, RetireType DEF TypeOK
  <2>2. CASE KeepBridge(Kept)
    BY <2>2 DEF KeepBridge
  <2> QED
    BY <2>1, <2>2 DEF Iteration, StoppingIteration, ConnectIteration, WaitIteration,
       RetireUnhealthy
<1>5. /\ wpc'[w] \in {"cleanupThenConnect", "cleanupThenWait", "cleanupThenExit"}
      /\ wpc'[w] = "cleanupThenConnect" => bridge' = NoBridge
      /\ wpc'[w] = "cleanupThenExit" => bridge' = NoBridge /\ retired' = {}
  <2>1. CASE StoppingIteration(w)
    <3>1. bridge' = NoBridge
      BY <1>1, <2>1, RetireType DEF StoppingIteration, TypeOK
    <3> QED BY <2>1, <3>1 DEF StoppingIteration, TypeOK
  <2>2. CASE ConnectIteration(w)
    BY <2>2 DEF ConnectIteration, TypeOK
  <2>3. CASE WaitIteration(w)
    BY <2>3 DEF WaitIteration, TypeOK
  <2> QED BY <2>1, <2>2, <2>3 DEF Iteration
<1>6. WorkerInv'
  BY <1>2, <1>3, <1>5 DEF WorkerInv, Active, TypeOK
<1>7. OwnerInv'
  <2>1. \A b \in cleanup'[w] : status'[b] = "live" /\ b # bridge' /\ b \notin retired'
    BY <1>1, <1>2, <1>4 DEF Parts, OwnerInv, TypeOK
  <2>2. \A v \in Workers \ {w} : cleanup'[v] = {}
    BY <1>2, <1>3 DEF TypeOK
  <2>3. \A b \in Bridges : status'[b] = "live" =>
          b = bridge' \/ b \in retired' \/ b \in cleanup'[w]
    <3>1. \A b \in Bridges : status[b] = "live" => b = bridge \/ b \in retired
      BY <1>3 DEF Parts, OwnerInv, TypeOK
    <3> QED BY <1>1, <1>2, <1>4, <3>1 DEF TypeOK
  <2>4. /\ bridge' # NoBridge => status'[bridge'] = "live" /\ bridge' \notin retired'
        /\ \A b \in retired' : status'[b] = "live"
    BY <1>1, <1>2, <1>4 DEF Parts, OwnerInv
  <2> QED BY <1>2, <2>1, <2>2, <2>3, <2>4 DEF Parts, OwnerInv
<1>8. BorrowInv'
  BY <1>1, <1>2, <1>4 DEF Parts, BorrowInv, Unreferenced
<1>9. CatalogInv'
  BY <1>4 DEF Parts, CatalogInv, Fallback
<1>10. StopInv'
  BY <1>2 DEF Parts, StopInv
<1> QED BY <1>6, <1>7, <1>8, <1>9, <1>10 DEF Parts

\* The worker's steps.
LEMMA WorkerStepKeeps ==
  ASSUME TypeOK, Parts, NEW w \in Workers, WorkerStep(w)
  PROVE  Parts'
<1> USE DEF connVars, flagVars, retryVars, bridgeVars, workerVars, callerVars
<1>1. CASE WorkerRefused(w) \/ WorkerWait(w) \/ WorkerConnect(w)
  <2>1. /\ wpc' \in {[wpc EXCEPT ![w] = "returned"], [wpc EXCEPT ![w] = "loop"],
                     [wpc EXCEPT ![w] = "connect"]}
        /\ wpc'[w] = "connect" => wpc[w] = "cleanupThenConnect"
        /\ cleanup[w] = {}
        /\ Active(w) \/ wpc'[w] = "returned"
    BY <1>1 DEF WorkerRefused, WorkerWait, WorkerConnect, Parts, WorkerInv, Active, TypeOK
  <2>2. UNCHANGED <<connVars, flagVars, retryVars, bridgeVars, cleanup, callerVars, spc>>
    BY <1>1 DEF WorkerRefused, WorkerWait, WorkerConnect
  <2>3. WorkerInv'
    BY <2>1, <2>2 DEF Parts, WorkerInv, Active, TypeOK
  <2> QED
    BY <2>2, <2>3 DEF Parts, OwnerInv, BorrowInv, CatalogInv, StopInv
<1>2. CASE WorkerEnter(w)
  <2>1. /\ Iteration(w) /\ ~workerRunning /\ ~stopping /\ workerRunning' = TRUE
        /\ wpc[w] = "off"
    BY <1>2 DEF WorkerEnter
  <2>2. cleanup[w] = {} /\ \A v \in Workers : Active(v) => v = w
    BY <2>1, OthersIdle DEF Parts, WorkerInv
  <2> QED BY <2>1, <2>2, IterationKeeps
<1>3. CASE WorkerIterate(w)
  <2>1. Iteration(w) /\ workerRunning' = workerRunning /\ wpc[w] = "loop"
    BY <1>3 DEF WorkerIterate
  <2>2. Active(w) /\ workerRunning /\ cleanup[w] = {}
    BY <2>1 DEF Active, Parts, WorkerInv
  <2>3. \A v \in Workers : Active(v) => v = w
    BY <2>2, OthersIdle
  <2> QED BY <2>1, <2>2, <2>3, IterationKeeps
<1>4. ASSUME NEW b \in Bridges, WorkerJoin(w, b) PROVE Parts'
  <2>1. /\ b \in cleanup[w] /\ b # bridge /\ b \notin retired
        /\ status' = [status EXCEPT ![b] = "joined"]
        /\ cleanup' = [cleanup EXCEPT ![w] = cleanup[w] \ {b}]
    BY <1>4 DEF WorkerJoin, Parts, OwnerInv
  <2>2. \A v \in Workers \ {w} : cleanup[v] = {}
    <3>1. Active(w)
      BY <1>4 DEF WorkerJoin, Active
    <3> QED BY <3>1, OthersIdle DEF Parts, WorkerInv, Active
  <2>3. OwnerInv'
    BY <1>4, <2>1, <2>2 DEF WorkerJoin, Parts, OwnerInv, TypeOK
  <2>4. WorkerInv'
    BY <1>4, <2>1 DEF WorkerJoin, Parts, WorkerInv, Active, TypeOK
  <2> QED
    BY <1>4, <2>3, <2>4 DEF WorkerJoin, Parts, BorrowInv, CatalogInv, StopInv
<1>5. ASSUME NEW b \in Bridges, ConnectOk(w, b) PROVE Parts'
  <2>1. /\ wpc' = [wpc EXCEPT ![w] = "loop"] /\ wpc[w] = "connect"
        /\ status' = [status EXCEPT ![b] = "live"] /\ status[b] = "fresh"
        /\ UNCHANGED <<workerRunning, stopping, cleanup, callerVars, spc>>
    BY <1>5 DEF ConnectOk
  <2>2. Active(w) /\ workerRunning /\ bridge = NoBridge
    BY <2>1 DEF Active, Parts, WorkerInv
  <2>3. \A v \in Workers : Active(v) => v = w
    BY <2>2, OthersIdle
  <2>4. b # NoBridge /\ b \notin retired /\ \A v \in Workers : b \notin cleanup[v]
    BY <2>1 DEF Parts, OwnerInv
  <2>5. \/ /\ bridge' = b /\ catalog' = b /\ retired' = retired
           /\ identity'.host = b /\ ~identity'.stale
        \/ /\ bridge' = bridge /\ catalog' = catalog /\ identity' = identity
           /\ retired' = retired \cup {b}
    <3>1. CASE DiscardLateSuccess(b)
      BY <3>1 DEF DiscardLateSuccess
    <3>2. CASE Publish(b)
      <4>1. PICK fallback \in BOOLEAN :
              identity' = [host |-> b, fallback |-> fallback, stale |-> FALSE]
        BY <3>2 DEF Publish
      <4> QED BY <3>2, <4>1 DEF Publish
    <3> QED BY <1>5, <3>1, <3>2 DEF ConnectOk
  <2>6. WorkerInv'
    BY <2>1, <2>2, <2>3 DEF Parts, WorkerInv, Active, TypeOK
  <2>7. OwnerInv'
    BY <2>1, <2>2, <2>4, <2>5 DEF Parts, OwnerInv, TypeOK
  <2>8. BorrowInv' /\ CatalogInv' /\ StopInv'
    BY <2>1, <2>2, <2>4, <2>5 DEF Parts, BorrowInv, CatalogInv, StopInv
  <2> QED BY <2>6, <2>7, <2>8 DEF Parts
<1>6. CASE ConnectFail(w)
  <2>1. WorkerInv'
    BY <1>6 DEF ConnectFail, Parts, WorkerInv, Active, TypeOK
  <2> QED
    BY <1>6, <2>1 DEF ConnectFail, Parts, OwnerInv, BorrowInv, CatalogInv, StopInv
<1>7. CASE WorkerExit(w)
  <2>1. Active(w) /\ bridge = NoBridge /\ retired = {}
    BY <1>7 DEF WorkerExit, Active, Parts, WorkerInv
  <2>2. WorkerInv'
    BY <1>7, <2>1 DEF WorkerExit, Parts, WorkerInv, Active, TypeOK
  <2>3. StopInv'
    BY <1>7 DEF WorkerExit, Awakened, Parts, StopInv
  <2> QED
    BY <1>7, <2>2, <2>3 DEF WorkerExit, Parts, OwnerInv, BorrowInv, CatalogInv
<1> QED
  BY <1>1, <1>2, <1>3, <1>4, <1>5, <1>6, <1>7 DEF WorkerStep

-----------------------------------------------------------------------------
(* The invariant, and what follows from it *)

LEMMA InitParts == Init => Parts
<1> SUFFICES ASSUME Init PROVE Parts
  OBVIOUS
<1>1. WorkerInv /\ OwnerInv
  BY DEF Init, WorkerInv, Active, OwnerInv
<1>2. BorrowInv
  BY DEF Init, BorrowInv
<1>3. CatalogInv
  BY DEF Init, CatalogInv, NewIdentity, CurrentIdentity, AllowDebugFallback, Fallback
<1> QED BY <1>1, <1>2, <1>3 DEF Init, StopInv, Parts

\* Every step keeps the inductive invariant.
LEMMA NextKeeps == IInv /\ [Next]_vars => IInv'
<1> SUFFICES ASSUME TypeOK, Parts, [Next]_vars PROVE Parts'
  BY NextType DEF IInv, Parts
<1> USE DEF connVars, flagVars, retryVars, bridgeVars, workerVars, callerVars
<1>1. ASSUME NEW c \in Callers, BeginCall(c) \/ CallerStep(c) PROVE Parts'
  BY <1>1, CallerStepKeeps
<1>2. CASE ClearBridge
  <2>1. /\ RetireBridge(retired)
        /\ UNCHANGED <<workerRunning, status, wpc, cleanup, cpc, held, route>>
    BY <1>2 DEF ClearBridge
  <2>2. WorkerInv' /\ OwnerInv' /\ BorrowInv' /\ CatalogInv'
    BY <2>1, RetireKeeps
  <2>3. StopInv'
    BY <1>2 DEF ClearBridge, NotifyOne, Parts, StopInv, TypeOK
  <2> QED BY <2>2, <2>3 DEF Parts
<1>3. CASE EnsureConnected
  <2>1. StopInv'
    BY <1>3 DEF EnsureConnected, NotifyOne, Parts, StopInv, TypeOK
  <2> QED
    BY <1>3, <2>1 DEF EnsureConnected, Parts, WorkerInv, Active, OwnerInv, BorrowInv, CatalogInv
<1>4. ASSUME NEW w \in Workers, WorkerStep(w) PROVE Parts'
  BY <1>4, WorkerStepKeeps
<1>5. ASSUME NEW s \in Stoppers, RequestStop(s) \/ StopCheck(s) PROVE Parts'
  <2>1. StopInv'
    BY <1>5 DEF RequestStop, StopCheck, Awakened, Parts, StopInv, TypeOK
  <2> QED
    BY <1>5, <2>1
       DEF RequestStop, StopCheck, Parts, WorkerInv, Active, OwnerInv, BorrowInv, CatalogInv
<1>6. CASE (\E b \in Bridges : BridgeFails(b)) \/ Tick \/ UNCHANGED vars
  <2>1. UNCHANGED <<connVars, flagVars, status, workerVars, callerVars, spc>>
    BY <1>6 DEF BridgeFails, Tick, vars
  <2> QED
    BY <2>1 DEF Parts, WorkerInv, Active, OwnerInv, BorrowInv, CatalogInv, StopInv
<1> QED
  BY <1>1, <1>2, <1>3, <1>4, <1>5, <1>6 DEF Next, Step, WorkerStep

\* The inductive invariant holds in every reachable state: one worker at a
\* time, one owner of every HostBridge, no clone without an owner, and the
\* catalog and the stoppers in step with what is published.
THEOREM Invariance == Spec => []IInv
<1>1. Init => IInv
  BY InitType, InitParts DEF IInv, Parts
<1> QED BY <1>1, NextKeeps, PTL DEF Spec

\* "Only the connection worker may drop the last reference": no thread that
\* returns from a HID call ever runs HostBridge's joins.
THEOREM OnlyWorkerDrops == Spec => []OnlyWorkerDropsLast
<1>1. IInv => OnlyWorkerDropsLast
  BY DEF IInv, OwnerInv, OnlyWorkerDropsLast
<1> QED BY <1>1, Invariance, PTL

\* No operation runs on a bridge that is being joined, and none can start.
THEOREM JoinedIsUnreachable == Spec => []JoinedBridgeUnreachable
<1>1. IInv => JoinedBridgeUnreachable
  <2> SUFFICES ASSUME IInv, NEW b \in Bridges,
                      status[b] = "joined" \/ \E w \in Workers : b \in cleanup[w]
               PROVE  bridge # b /\ b \notin retired /\ Unreferenced(b)
    BY DEF JoinedBridgeUnreachable
  <2>1. b # bridge /\ b \notin retired
    BY DEF IInv, OwnerInv
  <2>2. b # NoBridge
    OBVIOUS
  <2> QED BY <2>1, <2>2 DEF IInv, BorrowInv, Unreferenced
<1> QED BY <1>1, Invariance, PTL

\* "Route and bridge must come from the same session", for every operation in
\* flight whatever reconnected meanwhile.
THEOREM RouteIsSessions == Spec => []RouteMatchesSession
<1>1. IInv => RouteMatchesSession
  BY DEF IInv, BorrowInv, RouteMatchesSession
<1> QED BY <1>1, Invariance, PTL

\* A returned stop_connection_worker leaves no HostBridge thread behind.
THEOREM StoppedIsJoined == Spec => []StoppedMeansAllJoined
<1>1. IInv => StoppedMeansAllJoined
  <2> SUFFICES ASSUME IInv, NEW s \in Stoppers, spc[s] = "stopped",
                      NEW b \in Bridges, status[b] = "live"
               PROVE  FALSE
    BY DEF StoppedMeansAllJoined
  <2>1. ~workerRunning
    BY DEF IInv, StopInv
  <2>2. bridge = NoBridge /\ retired = {}
    BY <2>1 DEF IInv, WorkerInv
  <2>3. PICK w \in Workers : b \in cleanup[w]
    BY <2>2 DEF IInv, OwnerInv
  <2>4. Active(w)
    BY <2>3 DEF IInv, WorkerInv, Active
  <2> QED BY <2>1, <2>4 DEF IInv, WorkerInv
<1> QED BY <1>1, Invariance, PTL

\* Enumeration reports the sound session on offer, and where a host is
\* required nothing else: the lease's Advertised is the runtime's.
THEOREM AdvertisesCurrent == Spec => []AdvertisesCurrentSessionOnly
<1>1. ASSUME IInv PROVE AdvertisesCurrentSessionOnly
  <2>1. bridge \in Bridges \cup {NoBridge}
    BY <1>1 DEF IInv, TypeOK, MaybeBridge
  <2>2. bridge # NoBridge => catalog = bridge /\ CurrentIdentity(identity) = bridge
    BY <1>1, <2>1 DEF IInv, CatalogInv, CurrentIdentity
  <2>3. bridge = NoBridge => catalog \notin Bridges
    BY <1>1 DEF IInv, CatalogInv
  <2>4. Advertised \in Bridges => Advertised = bridge
    BY <2>1, <2>2, <2>3 DEF Advertised
  <2>5. HostBridgeRequired => Advertised = Lease!Advertised
    BY <2>1, <2>2 DEF Advertised, Lease!Advertised, BridgeHealthy
  <2>6. BridgeHealthy => Advertised = Lease!Advertised
    BY <2>2 DEF Advertised, Lease!Advertised, BridgeHealthy
  <2> QED BY <2>4, <2>5, <2>6 DEF AdvertisesCurrentSessionOnly
<1> QED BY <1>1, Invariance, PTL

-----------------------------------------------------------------------------
(* What a step may do to the published slot *)

\* A step retires, publishes on behalf of the one connecting worker, or leaves
\* the published slot and the generation alone.
LEMMA PublicationCases ==
  ASSUME IInv, [Next]_vars
  PROVE  \/ /\ bridge' = NoBridge
            /\ (bridge' # bridge) <=> (generation' # generation)
         \/ \E w \in Workers, b \in Bridges :
              /\ ConnectOk(w, b) /\ Publish(b)
              /\ ~stopping /\ status[b] = "fresh" /\ bridge = NoBridge
         \/ UNCHANGED <<bridge, generation>>
<1> USE DEF connVars, flagVars, retryVars, bridgeVars, workerVars, callerVars
<1>1. ASSUME NEW c \in Callers, BeginCall(c) \/ EndCall(c) \/ Release(c)
      PROVE  UNCHANGED <<bridge, generation>>
  BY <1>1 DEF BeginCall, EndCall, Release
<1>2. ASSUME NEW kept \in SUBSET Bridges, RetireBridge(kept)
      PROVE  bridge' = NoBridge /\ ((bridge' # bridge) <=> (generation' # generation))
  BY <1>2, RetireType DEF IInv
<1>3. retired \in SUBSET Bridges /\ Kept \in SUBSET Bridges
  BY DEF IInv, TypeOK, Kept, Collected
<1>4. ASSUME NEW c \in Callers, ClearBridgeIfCurrent(c)
      PROVE  RetireBridge(retired) \/ UNCHANGED <<bridge, generation>>
  BY <1>4 DEF ClearBridgeIfCurrent
<1>5. ASSUME NEW w \in Workers, Iteration(w)
      PROVE  RetireBridge(Kept) \/ UNCHANGED <<bridge, generation>>
  BY <1>5 DEF Iteration, StoppingIteration, ConnectIteration, WaitIteration,
     RetireUnhealthy, KeepBridge
<1>6. ASSUME NEW w \in Workers, NEW b \in Bridges, ConnectOk(w, b)
      PROVE  \/ UNCHANGED <<bridge, generation>>
             \/ Publish(b) /\ ~stopping /\ status[b] = "fresh" /\ bridge = NoBridge
  BY <1>6 DEF ConnectOk, DiscardLateSuccess, IInv, WorkerInv
<1>7. ASSUME NEW w \in Workers, NEW b \in Bridges,
             \/ WorkerRefused(w) \/ WorkerJoin(w, b) \/ WorkerWait(w)
             \/ WorkerConnect(w) \/ ConnectFail(w) \/ WorkerExit(w)
      PROVE  UNCHANGED <<bridge, generation>>
  BY <1>7 DEF WorkerRefused, WorkerJoin, WorkerWait, WorkerConnect, ConnectFail, WorkerExit
<1>8. ASSUME \/ EnsureConnected \/ Tick \/ UNCHANGED vars
             \/ \E s \in Stoppers : RequestStop(s) \/ StopCheck(s)
             \/ \E b \in Bridges : BridgeFails(b)
             \/ \E w \in Workers : \/ WorkerRefused(w) \/ WorkerWait(w)
                                   \/ WorkerConnect(w) \/ ConnectFail(w) \/ WorkerExit(w)
      PROVE  UNCHANGED <<bridge, generation>>
  BY <1>8 DEF EnsureConnected, Tick, vars, RequestStop, StopCheck, BridgeFails,
     WorkerRefused, WorkerWait, WorkerConnect, ConnectFail, WorkerExit
<1>9. CASE ClearBridge
  BY <1>2, <1>3, <1>9 DEF ClearBridge
<1>10. ASSUME NEW w \in Workers, WorkerEnter(w) \/ WorkerIterate(w)
       PROVE  Iteration(w)
  BY <1>10 DEF WorkerEnter, WorkerIterate
<1> QED
  BY <1>1, <1>2, <1>3, <1>4, <1>5, <1>6, <1>7, <1>8, <1>9, <1>10
     DEF Next, Step, CallerStep, WorkerStep

\* The device generation advances exactly when what is published changes, so
\* SDL rescans after every disconnect and reconnect and at no other time.
THEOREM GenerationTracks == Spec => GenerationTracksPublication
<1>1. ASSUME IInv, [Next]_vars
      PROVE  (bridge' # bridge) <=> (generation' # generation)
  <2>1. ASSUME NEW b \in Bridges, Publish(b), bridge = NoBridge
        PROVE  bridge' # bridge /\ generation' # generation
    <3>1. generation \in 0 .. GenerationModulus - 1
      BY <1>1 DEF IInv, TypeOK
    <3>2. bridge' = b /\ generation' = Bump(generation)
      BY <2>1 DEF Publish
    <3> QED BY <2>1, <3>1, <3>2, BumpChanges
  <2> QED BY <1>1, <2>1, PublicationCases
<1>2. IInv /\ [Next]_vars => [(bridge' # bridge) <=> (generation' # generation)]_vars
  BY <1>1
<1> QED BY <1>2, Invariance, PTL DEF Spec, GenerationTracksPublication

\* A late success is never published, and no session is published twice.
THEOREM NoLate == Spec => NoLatePublication
<1>1. ASSUME IInv, [Next]_vars
      PROVE  bridge' \notin {bridge, NoBridge} => ~stopping /\ status[bridge'] = "fresh"
  BY <1>1, PublicationCases DEF Publish
<1>2. IInv /\ [Next]_vars =>
        [bridge' \notin {bridge, NoBridge} => ~stopping /\ status[bridge'] = "fresh"]_vars
  BY <1>1
<1> QED BY <1>2, Invariance, PTL DEF Spec, NoLatePublication

-----------------------------------------------------------------------------
(* The runtime implements SessionLease *)

Spent == {b \in Bridges : status[b] # "fresh"}
Ended == {b \in Bridges : status[b] \in {"joined", "joinedByCaller"}}

\* The published slot and the generation as RetireBridge leaves them.
SlotRetired ==
  /\ bridge' = NoBridge
  /\ generation' = IF bridge = NoBridge THEN generation ELSE Bump(generation)

\* A step that leaves published slot, clones, HostBridges and the stop flag
\* alone is a stutter of the lease; one that only clears the slot withdraws.
LEMMA LeaseStutter ==
  ASSUME UNCHANGED <<held, status, stopping, healthy>>,
         UNCHANGED <<bridge, generation>> \/ SlotRetired
  PROVE  Lease!Next \/ UNCHANGED Lease!vars
<1>1. CASE UNCHANGED <<bridge, generation>>
  BY <1>1 DEF Lease!vars, Lease!offer, BridgeHealthy
<1>2. CASE SlotRetired /\ bridge # NoBridge
  <2>1. Lease!Withdraw
    BY <1>2 DEF Lease!Withdraw, Lease!Change, SlotRetired, Bump, BridgeHealthy
  <2> QED BY <2>1 DEF Lease!Next
<1>3. CASE SlotRetired /\ bridge = NoBridge
  BY <1>3 DEF SlotRetired, Lease!vars, Lease!offer, BridgeHealthy
<1> QED BY <1>1, <1>2, <1>3

\* A bridge that fails takes its session off the soundness of the lease.
LEMMA LeaseSickens ==
  ASSUME IInv, NEW b \in Bridges, BridgeFails(b)
  PROVE  Lease!Next \/ UNCHANGED Lease!vars
<1> USE DEF connVars, flagVars, retryVars, bridgeVars, workerVars, callerVars
<1>1. /\ healthy' = [healthy EXCEPT ![b] = FALSE] /\ healthy[b]
      /\ UNCHANGED <<bridge, generation, held, status, stopping>>
  BY DEF BridgeFails
<1>2. healthy \in [Bridges -> BOOLEAN] /\ bridge \in Bridges \cup {NoBridge}
  BY DEF IInv, TypeOK, MaybeBridge
<1>3. CASE bridge = b
  <2>1. Lease!Sicken
    BY <1>1, <1>2, <1>3 DEF Lease!Sicken, BridgeHealthy
  <2> QED BY <2>1 DEF Lease!Next
<1>4. CASE bridge # b
  <2>1. BridgeHealthy' = BridgeHealthy
    BY <1>1, <1>2, <1>4 DEF BridgeHealthy
  <2> QED BY <1>1, <2>1 DEF Lease!vars, Lease!offer
<1> QED BY <1>3, <1>4

\* Every step of a caller is a step of the lease, or a stutter.
LEMMA LeaseCaller ==
  ASSUME IInv, NEW c \in Callers, BeginCall(c) \/ CallerStep(c)
  PROVE  Lease!Next \/ UNCHANGED Lease!vars
<1> USE DEF connVars, flagVars, retryVars, bridgeVars, workerVars, callerVars
<1>1. CASE BeginCall(c)
  <2>1. /\ held' = [held EXCEPT ![c] = bridge] /\ held[c] = NoBridge /\ BridgeHealthy
        /\ UNCHANGED <<bridge, generation, healthy, status, stopping>>
    BY <1>1 DEF BeginCall, IInv, BorrowInv
  <2>2. Lease!Borrow(c)
    BY <2>1 DEF Lease!Borrow, Lease!offer, BridgeHealthy
  <2> QED BY <2>2 DEF Lease!Next
<1>2. CASE EndCall(c)
  BY <1>2, LeaseStutter DEF EndCall
<1>3. CASE ClearBridgeIfCurrent(c)
  <2>1. /\ UNCHANGED <<bridge, generation>> \/ SlotRetired
        /\ UNCHANGED <<held, status, stopping, healthy>>
    BY <1>3 DEF ClearBridgeIfCurrent, RetireBridge, SlotRetired
  <2> QED BY <2>1, LeaseStutter
<1>4. CASE Release(c)
  <2>1. held[c] = bridge \/ held[c] \in retired
    BY <1>4 DEF Release, IInv, BorrowInv
  <2>2. /\ held' = [held EXCEPT ![c] = NoBridge]
        /\ UNCHANGED <<bridge, generation, healthy, status, stopping>>
    BY <1>4, <2>1 DEF Release
  <2>3. Lease!Return(c)
    BY <2>2 DEF Lease!Return, Lease!offer, BridgeHealthy
  <2> QED BY <2>3 DEF Lease!Next
<1> QED BY <1>1, <1>2, <1>3, <1>4 DEF CallerStep

\* Every step of a worker is a step of the lease, or a stutter: joining ends
\* a session, and connecting offers or discards one.
LEMMA LeaseWorker ==
  ASSUME IInv, NEW w \in Workers, WorkerStep(w)
  PROVE  Lease!Next \/ UNCHANGED Lease!vars
<1> USE DEF connVars, flagVars, retryVars, bridgeVars, workerVars, callerVars
<1>1. CASE WorkerRefused(w) \/ WorkerWait(w) \/ WorkerConnect(w) \/ ConnectFail(w) \/ WorkerExit(w)
  BY <1>1, LeaseStutter DEF WorkerRefused, WorkerWait, WorkerConnect, ConnectFail, WorkerExit
<1>2. CASE WorkerEnter(w) \/ WorkerIterate(w)
  <2>1. Iteration(w)
    BY <1>2 DEF WorkerEnter, WorkerIterate
  <2>2. /\ UNCHANGED <<bridge, generation>> \/ SlotRetired
        /\ UNCHANGED <<held, status, stopping, healthy>>
    BY <2>1 DEF Iteration, StoppingIteration, ConnectIteration, WaitIteration,
       RetireUnhealthy, RetireBridge, KeepBridge, SlotRetired
  <2> QED BY <2>2, LeaseStutter
<1>3. ASSUME NEW b \in Bridges, WorkerJoin(w, b)
      PROVE  Lease!Next \/ UNCHANGED Lease!vars
  <2>1. /\ b # bridge /\ status[b] = "live" /\ \A c \in Callers : held[c] # b
        /\ status' = [status EXCEPT ![b] = "joined"]
        /\ UNCHANGED <<bridge, generation, healthy, held, stopping>>
    BY <1>3 DEF WorkerJoin, IInv, OwnerInv, BorrowInv
  <2>2. b \in Spent \ Ended /\ Spent' = Spent /\ Ended' = Ended \cup {b}
    BY <2>1 DEF Spent, Ended, IInv, TypeOK
  <2>3. Lease!End(b)
    BY <2>1, <2>2 DEF Lease!End, Lease!offer, BridgeHealthy, Spent, Ended
  <2> QED BY <2>3 DEF Lease!Next
<1>4. ASSUME NEW b \in Bridges, ConnectOk(w, b)
      PROVE  Lease!Next \/ UNCHANGED Lease!vars
  <2>1. /\ status[b] = "fresh" /\ status' = [status EXCEPT ![b] = "live"]
        /\ UNCHANGED <<held, stopping, healthy>>
    BY <1>4 DEF ConnectOk
  <2>2. b \notin Spent /\ Spent' = Spent \cup {b} /\ Ended' = Ended
    BY <2>1 DEF Spent, Ended, IInv, TypeOK
  <2>3. CASE DiscardLateSuccess(b)
    <3>1. Lease!Discard(b)
      BY <2>1, <2>2, <2>3 DEF Lease!Discard, Lease!offer, BridgeHealthy, DiscardLateSuccess,
         Spent, Ended
    <3> QED BY <3>1 DEF Lease!Next
  <2>4. CASE ~stopping /\ Publish(b)
    <3>1. bridge = NoBridge /\ bridge' = b /\ generation' = Bump(generation)
      BY <1>4, <2>4 DEF ConnectOk, Publish, IInv, WorkerInv
    <3>2. BridgeHealthy' \in BOOLEAN
      BY DEF BridgeHealthy
    <3>3. Lease!Offer(b)
      BY <2>1, <2>2, <2>4, <3>1, <3>2 DEF Lease!Offer, Lease!Change, Bump, Spent, Ended
    <3> QED BY <3>3 DEF Lease!Next
  <2> QED BY <1>4, <2>3, <2>4 DEF ConnectOk
<1> QED BY <1>1, <1>2, <1>3, <1>4 DEF WorkerStep

\* The lock, the worker, the retired list and the reference counts implement
\* the lease: sessions are offered one at a time and at most once, and ended
\* only when no operation can still be using them.
THEOREM ImplementsLease == Spec => LeaseSpec
<1>1. Init => Lease!Init
  BY DEF Init, Lease!Init, BridgeHealthy
<1>2. IInv /\ [Next]_vars => [Lease!Next]_(Lease!vars)
  <2> SUFFICES ASSUME IInv, [Next]_vars PROVE Lease!Next \/ UNCHANGED Lease!vars
    OBVIOUS
  <2> USE DEF connVars, flagVars, retryVars, bridgeVars, workerVars, callerVars
  <2>1. ASSUME NEW c \in Callers, BeginCall(c) \/ CallerStep(c)
        PROVE  Lease!Next \/ UNCHANGED Lease!vars
    BY <2>1, LeaseCaller
  <2>2. ASSUME NEW w \in Workers, WorkerStep(w)
        PROVE  Lease!Next \/ UNCHANGED Lease!vars
    BY <2>2, LeaseWorker
  <2>3. CASE ClearBridge \/ EnsureConnected
    BY <2>3, LeaseStutter DEF ClearBridge, EnsureConnected, RetireBridge, SlotRetired
  <2>4. ASSUME NEW s \in Stoppers, RequestStop(s)
        PROVE  Lease!Next
    BY <2>4 DEF RequestStop, Lease!Next, Lease!Close, Lease!offer, BridgeHealthy
  <2>5. CASE (\E s \in Stoppers : StopCheck(s)) \/ Tick \/ UNCHANGED vars
    BY <2>5, LeaseStutter DEF StopCheck, Tick, vars
  <2>6. ASSUME NEW b \in Bridges, BridgeFails(b)
        PROVE  Lease!Next \/ UNCHANGED Lease!vars
    BY <2>6, LeaseSickens
  <2> QED
    BY <2>1, <2>2, <2>3, <2>4, <2>5, <2>6 DEF Next, Step
<1> QED BY <1>1, <1>2, Invariance, PTL DEF Spec, LeaseSpec, Lease!Spec

-----------------------------------------------------------------------------
(* The pace of the attempts: ReconnectPacing *)

InAttempt == {"cleanupThenConnect", "connect"}

Attempting(w) == wpc[w] \in InAttempt

\* The attempt of a worker is flagged; the epoch it remembers is no later one.
AttemptInv ==
  /\ \A w \in Workers : Attempting(w) => connecting
  /\ \A w \in Workers : seenEpoch[w] <= epoch

\* What is owed is covered by the retry schedule; an overtaken attempt finds
\* that when it is answered.
PacingInv ==
  /\ AttemptInv
  /\ owed \in Nat /\ owed <= retry
  /\ overtaken => \A w \in Workers : Attempting(w) => stopping \/ seenEpoch[w] < epoch

\* What a step of an attach thread does to its attempt and to the schedule.
LEMMA WorkerPace ==
  ASSUME IInv, AttemptInv, NEW w \in Workers, WorkerStep(w)
  PROVE  /\ AttemptInv'
         /\ UNCHANGED <<stopping, epoch>>
         /\ connecting => \A v \in Workers : wpc'[v] \in InAttempt =>
              wpc[v] \in InAttempt /\ seenEpoch'[v] = seenEpoch[v]
         /\ connecting' /\ ~connecting => retry = 0
         /\ connecting' => UNCHANGED retry
         /\ ~connecting => UNCHANGED retry
         /\ connecting /\ ~connecting' => Published \/ retry' = reconnectInterval
<1> USE DEF connVars, flagVars, retryVars, bridgeVars, workerVars, callerVars, AttemptInv,
            Attempting, InAttempt
<1>1. /\ wpc \in [Workers -> WorkerPCs] /\ seenEpoch \in [Workers -> Nat]
      /\ epoch \in Nat /\ connecting \in BOOLEAN
  BY DEF IInv, TypeOK
<1>2. CASE \/ WorkerRefused(w) \/ WorkerWait(w) \/ WorkerConnect(w) \/ WorkerExit(w)
           \/ \E b \in Bridges : WorkerJoin(w, b)
  BY <1>1, <1>2 DEF WorkerRefused, WorkerWait, WorkerConnect, WorkerExit, WorkerJoin
<1>3. CASE WorkerEnter(w) \/ WorkerIterate(w)
  <2>1. Iteration(w) /\ UNCHANGED <<stopping, epoch, retry>>
    BY <1>3 DEF WorkerEnter, WorkerIterate, Iteration
  <2>2. CASE StoppingIteration(w) \/ WaitIteration(w)
    <3>1. UNCHANGED <<connecting, seenEpoch>> /\ \A v \in Workers : Attempting(v)' => Attempting(v)
      BY <1>1, <2>2 DEF StoppingIteration, WaitIteration
    <3> QED BY <1>1, <2>1, <3>1
  <2>3. CASE ConnectIteration(w)
    <3>1. /\ ~connecting /\ retry = 0 /\ connecting'
          /\ seenEpoch' = [seenEpoch EXCEPT ![w] = epoch]
      BY <2>3 DEF ConnectIteration
    <3>2. \A v \in Workers : ~Attempting(v)
      BY <3>1
    <3>3. \A v \in Workers : seenEpoch'[v] <= epoch'
      BY <1>1, <2>1, <3>1
    <3> QED BY <1>1, <2>1, <3>1, <3>2, <3>3
  <2> QED BY <2>1, <2>2, <2>3 DEF Iteration
<1>4. CASE ConnectFail(w) \/ \E b \in Bridges : ConnectOk(w, b)
  <2>1. /\ wpc[w] = "connect" /\ wpc' = [wpc EXCEPT ![w] = "loop"] /\ ~connecting'
        /\ UNCHANGED <<stopping, epoch, seenEpoch>>
    BY <1>4 DEF ConnectFail, ConnectOk
  <2>2. \A v \in Workers : Attempting(v) => v = w
    BY <2>1 DEF IInv, WorkerInv, Active
  <2>3. \A v \in Workers : ~Attempting(v)'
    BY <1>1, <2>1, <2>2
  <2>4. connecting
    BY <2>1
  <2>5. Published \/ retry' = reconnectInterval
    <3>1. CASE ConnectFail(w)
      BY <3>1 DEF ConnectFail
    <3>2. ASSUME NEW b \in Bridges, ConnectOk(w, b) PROVE Published \/ retry' = reconnectInterval
      <4>1. bridge = NoBridge
        BY <2>1 DEF IInv, WorkerInv
      <4> QED BY <3>2, <4>1 DEF ConnectOk, DiscardLateSuccess, Publish, Published
    <3> QED BY <1>4, <3>1, <3>2
  <2> QED BY <1>1, <2>1, <2>3, <2>4, <2>5
<1> QED BY <1>2, <1>3, <1>4 DEF WorkerStep

\* Threads other than the worker may overtake an attempt, and do not pace it.
LEMMA OthersPace ==
  ASSUME IInv, AttemptInv, Step, \A w \in Workers : ~WorkerStep(w)
  PROVE  /\ AttemptInv'
         /\ UNCHANGED <<connecting, retry, wpc, seenEpoch>>
         /\ bridge' \in {bridge, NoBridge}
         /\ epoch' \in {epoch, epoch + 1} /\ (stopping => stopping')
         /\ Overtaking => stopping' \/ epoch' = epoch + 1
<1> USE DEF connVars, flagVars, retryVars, bridgeVars, workerVars, callerVars
<1>1. epoch \in Nat /\ seenEpoch \in [Workers -> Nat] /\ stopping \in BOOLEAN
  BY DEF IInv, TypeOK
<1>2. /\ UNCHANGED <<connecting, retry, wpc, seenEpoch>>
      /\ bridge' \in {bridge, NoBridge}
      /\ epoch' \in {epoch, epoch + 1} /\ (stopping => stopping')
  <2>1. ASSUME NEW c \in Callers, BeginCall(c) \/ CallerStep(c) PROVE <1>2!:
    BY <2>1 DEF BeginCall, CallerStep, EndCall, ClearBridgeIfCurrent, Release, RetireBridge
  <2>2. CASE ClearBridge \/ EnsureConnected
    BY <2>2 DEF ClearBridge, EnsureConnected, RetireBridge
  <2>3. ASSUME NEW s \in Stoppers, RequestStop(s) \/ StopCheck(s) PROVE <1>2!:
    BY <2>3 DEF RequestStop, StopCheck
  <2>4. ASSUME NEW b \in Bridges, BridgeFails(b) PROVE <1>2!:
    BY <2>4 DEF BridgeFails
  <2> QED BY <2>1, <2>2, <2>3, <2>4 DEF Step
<1>3. Overtaking => stopping' \/ epoch' = epoch + 1
  BY DEF Overtaking, ClearBridge, RequestStop
<1>4. AttemptInv'
  BY <1>1, <1>2 DEF AttemptInv, Attempting
<1> QED BY <1>2, <1>3, <1>4

\* The strengthened invariant of the pace is kept by every step.
LEMMA PacingSteps == IInv /\ PacingInv /\ [PacingNext]_pacingVars => PacingInv'
<1> SUFFICES ASSUME IInv, PacingInv, [PacingNext]_pacingVars PROVE PacingInv'
  OBVIOUS
<1> USE DEF PacingInv
<1>1. /\ retry \in Nat /\ reconnectInterval \in Nat /\ epoch \in Nat
      /\ seenEpoch \in [Workers -> Nat] /\ connecting \in BOOLEAN
  BY IntervalsAreNat DEF IInv, TypeOK
<1>2. CASE PacedTick
  <2>1. UNCHANGED <<connecting, wpc, seenEpoch, epoch, stopping, overtaken>>
    BY <1>2 DEF PacedTick, Tick, flagVars, workerVars
  <2>2. owed' \in Nat /\ owed' <= retry'
    BY <1>1, <1>2 DEF PacedTick, Tick
  <2> QED BY <2>1, <2>2 DEF AttemptInv, Attempting
<1>3. ASSUME PacedStep, NEW w \in Workers, WorkerStep(w) PROVE PacingInv'
  <2>1. owed' \in Nat /\ owed' <= retry'
    <3>1. CASE Published
      <4>1. owed' = 0 /\ retry' \in Nat
        BY <1>3, <3>1, NextType DEF PacedStep, IInv, TypeOK, Next
      <4> QED BY <4>1
    <3>2. CASE ~Published /\ connecting /\ ~connecting'
      BY <1>1, <1>3, <3>2, WorkerPace DEF PacedStep, AttemptEnds
    <3>3. CASE ~Published /\ ~(connecting /\ ~connecting')
      BY <1>1, <1>3, <3>3, WorkerPace DEF PacedStep, AttemptEnds
    <3> QED BY <3>1, <3>2, <3>3
  <2>2. ASSUME overtaken', NEW v \in Workers, Attempting(v)'
        PROVE  stopping' \/ seenEpoch'[v] < epoch'
    <3>1. connecting /\ (overtaken \/ Overtaking)
      BY <1>3, <2>2 DEF PacedStep
    <3>2. ~Overtaking
      <4>1. UNCHANGED <<stopping, epoch>>
        BY <1>3, WorkerPace
      <4>2. ~ClearBridge
        BY <1>1, <4>1 DEF ClearBridge
      <4>3. \A s \in Stoppers : ~RequestStop(s)
        BY <1>1, <4>1 DEF RequestStop
      <4> QED BY <4>2, <4>3 DEF Overtaking
    <3>3. Attempting(v) /\ seenEpoch'[v] = seenEpoch[v] /\ UNCHANGED <<stopping, epoch>>
      <4>1. AttemptInv
        OBVIOUS
      <4>2. connecting /\ wpc'[v] \in InAttempt =>
              wpc[v] \in InAttempt /\ seenEpoch'[v] = seenEpoch[v]
        BY <1>3, <4>1, WorkerPace
      <4>3. UNCHANGED <<stopping, epoch>>
        BY <1>3, <4>1, WorkerPace
      <4> QED BY <2>2, <3>1, <4>2, <4>3 DEF Attempting
    <3> QED BY <3>1, <3>2, <3>3
  <2>3. AttemptInv'
    BY <1>3, WorkerPace
  <2> QED BY <2>1, <2>2, <2>3
<1>4. CASE PacedStep /\ \A w \in Workers : ~WorkerStep(w)
  <2>1. /\ UNCHANGED <<connecting, retry, wpc, seenEpoch>> /\ AttemptInv'
        /\ epoch' \in {epoch, epoch + 1} /\ (stopping => stopping')
        /\ bridge' \in {bridge, NoBridge}
        /\ Overtaking => stopping' \/ epoch' = epoch + 1
    BY <1>4, OthersPace DEF PacedStep
  <2>2. owed' = owed
    BY <1>4, <2>1 DEF PacedStep, Published, AttemptEnds
  <2>3. ASSUME overtaken', NEW v \in Workers, Attempting(v)'
        PROVE  stopping' \/ seenEpoch'[v] < epoch'
    <3>1. Attempting(v) /\ seenEpoch[v] \in Nat /\ seenEpoch[v] <= epoch
      BY <1>1, <2>1, <2>3 DEF Attempting, AttemptInv
    <3>2. overtaken \/ Overtaking
      BY <1>4, <2>3 DEF PacedStep
    <3> QED BY <1>1, <2>1, <3>1, <3>2
  <2> QED BY <2>1, <2>2, <2>3
<1>5. CASE UNCHANGED pacingVars
  BY <1>5 DEF pacingVars, vars, flagVars, retryVars, workerVars, AttemptInv, Attempting
<1> QED BY <1>2, <1>3, <1>4, <1>5 DEF PacingNext, PacedStep

\* The history variables only watch the runtime.
LEMMA PacingRefines == PacingSpec => Spec
<1>1. PacingInit => Init
  BY DEF PacingInit
<1>2. [PacingNext]_pacingVars => [Next]_vars
  BY DEF PacingNext, PacedTick, PacedStep, Next, pacingVars
<1> QED BY <1>1, <1>2, PTL DEF PacingSpec, Spec

\* Both invariants hold of the runtime that is watched.
LEMMA PacingHolds == PacingSpec => [](IInv /\ PacingInv)
<1>1. PacingInit => PacingInv
  BY DEF PacingInit, Init, PacingInv, AttemptInv, Attempting, InAttempt
<1>2. PacingSpec => []IInv
  BY PacingRefines, Invariance, PTL
<1> QED BY <1>1, <1>2, PacingSteps, PTL DEF PacingSpec

\* However often a connection is asked for, and however long attempts take, the
\* next one starts only after the interval in force at the end of the last.
THEOREM Paced == PacingSpec => AttemptsPaced
<1>1. IInv /\ PacingInv /\ [PacingNext]_pacingVars
        => [connecting' /\ ~connecting => owed = 0]_pacingVars
  <2> SUFFICES ASSUME IInv, PacingInv, PacingNext, connecting', ~connecting
               PROVE  owed = 0
    OBVIOUS
  <2>1. PacedStep
    BY DEF PacingNext, PacedTick, Tick, flagVars
  <2>2. PICK w \in Workers : WorkerStep(w)
    BY <2>1, OthersPace DEF PacedStep, PacingInv
  <2>3. retry = 0
    BY <2>2, WorkerPace DEF PacingInv
  <2> QED BY <2>3 DEF PacingInv
<1> QED BY <1>1, PacingHolds, PTL DEF PacingSpec, AttemptsPaced

\* An attempt that a clear or a stop overtook publishes nothing, however late
\* and however well it is answered.
THEOREM OvertakenDiscarded == PacingSpec => OvertakenAttemptDiscarded
<1>1. IInv /\ PacingInv /\ [PacingNext]_pacingVars
        => [overtaken => bridge' \in {bridge, NoBridge}]_pacingVars
  <2> SUFFICES ASSUME IInv, PacingInv, PacingNext, overtaken
               PROVE  bridge' \in {bridge, NoBridge}
    OBVIOUS
  <2>1. [Next]_vars
    BY DEF PacingNext, PacedTick, PacedStep, Next
  <2>2. ASSUME NEW w \in Workers, NEW b \in Bridges, ConnectOk(w, b), Publish(b),
               ~stopping, bridge = NoBridge
        PROVE  FALSE
    <3>1. seenEpoch[w] < epoch
      BY <2>2 DEF ConnectOk, PacingInv, Attempting, InAttempt
    <3>2. seenEpoch[w] \in Nat /\ epoch \in Nat
      BY DEF IInv, TypeOK
    <3>3. DiscardLateSuccess(b)
      BY <2>2, <3>1, <3>2 DEF ConnectOk
    <3> QED BY <2>2, <3>3 DEF DiscardLateSuccess, Publish
  <2> QED BY <2>1, <2>2, PublicationCases
<1> QED BY <1>1, PacingHolds, PTL DEF PacingSpec, OvertakenAttemptDiscarded
=============================================================================
