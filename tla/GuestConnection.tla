--------------------------- MODULE GuestConnection ---------------------------
(***************************************************************************)
(* The guest driver's connection runtime (guest_driver/runtime.rs): one    *)
(* connection mutex, one condition variable, one connection worker that    *)
(* alone connects and destroys HostBridges, Steam threads that borrow the  *)
(* published bridge for one HID operation, and explicit shutdown.          *)
(*                                                                         *)
(* Every action is one critical section of the connection mutex, or one    *)
(* step a thread takes outside it.  Arc<HostBridge> references are the     *)
(* published slot, the retired list and the callers that hold a clone.     *)
(***************************************************************************)
EXTENDS Integers, FiniteSets

CONSTANTS
  Bridges,            \* the host sessions that connect() may establish
  NoBridge,           \* Option::None of a bridge, and an empty catalog
  Callers,            \* threads inside SDL and HID entry points
  Stoppers,           \* threads calling stop_connection_worker
  Workers,            \* attach threads calling run_connection_worker
  HostBridgeRequired, \* config.host_bridge_required
  ReplayEnabled,      \* config.replay_enabled
  ConfigInterval,     \* config.lazy_reconnect_interval, in ticks
  HostIntervals,      \* reconnect intervals a host may ask for, in ticks
  GenerationModulus,  \* device_generation wraps: 2^32 in the program
  MaxEpoch            \* bound on explicit clear_bridge calls

ASSUME NoBridgeAssumption == NoBridge \notin Bridges
ASSUME FallbackAssumption == "fallback" \notin Bridges \cup {NoBridge}
ASSUME ModeAssumption == HostBridgeRequired \in BOOLEAN /\ ReplayEnabled \in BOOLEAN
ASSUME IntervalAssumption == ConfigInterval \in Nat /\ HostIntervals \subseteq Nat
ASSUME ModulusAssumption == GenerationModulus \in Nat /\ GenerationModulus > 1
ASSUME EpochAssumption == MaxEpoch \in Nat

VARIABLES
  bridge,            \* state.bridge
  identity,          \* state.identity
  catalog,           \* the session, or the fallback, that state.catalog describes
  retired,           \* state.retired
  workerRunning,     \* state.worker_running
  stopping,          \* state.stopping
  connecting,        \* state.connecting
  epoch,             \* state.epoch
  retry,             \* ticks left of state.retry
  reconnectInterval, \* state.reconnect_interval
  generation,        \* device_generation
  status,            \* what exists of each HostBridge
  healthy,           \* read_errors = 0 and command_errors = 0, per HostBridge
  wpc,               \* where each attach thread is
  cleanup,           \* the worker's local cleanup vector
  seenEpoch,         \* the worker's local epoch snapshot
  cpc,               \* where each caller is
  held,              \* the Arc clone a caller holds
  route,             \* the session whose interface number the caller uses
  spc                \* where each stopper is

connVars   == <<bridge, identity, catalog, retired, generation>>
flagVars   == <<workerRunning, stopping, connecting, epoch>>
retryVars  == <<retry, reconnectInterval>>
bridgeVars == <<status, healthy>>
workerVars == <<wpc, cleanup, seenEpoch>>
callerVars == <<cpc, held, route>>

vars == <<connVars, flagVars, retryVars, bridgeVars, workerVars, callerVars, spc>>

MaybeBridge == Bridges \cup {NoBridge}
Fallback    == "fallback"
Catalogs    == MaybeBridge \cup {Fallback}
Intervals   == {ConfigInterval} \cup HostIntervals

\* RuntimeIdentity: the host identity last set, the debug fallback, staleness.
Identities == [host : MaybeBridge, fallback : BOOLEAN, stale : BOOLEAN]

\* config.allow_debug_fallback(): a fallback only when no host is required.
AllowDebugFallback == ~HostBridgeRequired /\ ReplayEnabled

NewIdentity(fallback) == [host |-> NoBridge, fallback |-> fallback, stale |-> FALSE]

\* RuntimeIdentity::identity: the live host identity, else the fallback.
CurrentIdentity(id) ==
  IF id.host # NoBridge /\ ~id.stale THEN id.host
  ELSE IF id.fallback THEN Fallback ELSE NoBridge

\* RuntimeIdentity::mark_stale.
MarkStale(id) == IF id.host = NoBridge THEN id ELSE [id EXCEPT !.stale = TRUE]

BridgeHealthy == bridge # NoBridge /\ healthy[bridge]

\* catalog_result: what enumeration reports at this moment.
Advertised ==
  IF HostBridgeRequired /\ ~BridgeHealthy THEN NoBridge
  ELSE IF CurrentIdentity(identity) = NoBridge THEN NoBridge
  ELSE catalog

\* Fault: the count tolerates one clone too many.
UnreferencedButOne(b) == Cardinality({c \in Callers : held[c] = b}) <= 1

\* Arc::strong_count of a retired bridge is 1: only the list refers to it.
Unreferenced(b) == \A c \in Callers : held[c] # b

-----------------------------------------------------------------------------

Init ==
  /\ bridge = NoBridge
  /\ identity = NewIdentity(AllowDebugFallback)
  /\ catalog = CurrentIdentity(identity)
  /\ retired = {}
  /\ generation = 0
  /\ workerRunning = FALSE
  /\ stopping = FALSE
  /\ connecting = FALSE
  /\ epoch = 0
  /\ retry = 0
  /\ reconnectInterval = ConfigInterval
  /\ status = [b \in Bridges |-> "fresh"]
  /\ healthy = [b \in Bridges |-> TRUE]
  /\ wpc = [w \in Workers |-> "off"]
  /\ cleanup = [w \in Workers |-> {}]
  /\ seenEpoch = [w \in Workers |-> 0]
  /\ cpc = [c \in Callers |-> "idle"]
  /\ held = [c \in Callers |-> NoBridge]
  /\ route = [c \in Callers |-> NoBridge]
  /\ spc = [s \in Stoppers |-> "running"]

\* fetch_add(1) on an AtomicU32.
Bump(n) == (n + 1) % GenerationModulus

\* Fault: the bridge is dropped where it is retired, by whoever retires it.
RetireByDropping(kept) ==
  /\ bridge' = NoBridge
  /\ identity' = MarkStale(identity)
  /\ catalog' = CurrentIdentity(MarkStale(identity))
  /\ retired' = kept
  /\ generation' = IF bridge = NoBridge THEN generation ELSE Bump(generation)

\* Fault: the identity stays live and the catalog stays the session's.
RetireKeepingCatalog(kept) ==
  /\ bridge' = NoBridge
  /\ retired' = IF bridge = NoBridge THEN kept ELSE kept \cup {bridge}
  /\ generation' = IF bridge = NoBridge THEN generation ELSE Bump(generation)
  /\ UNCHANGED <<identity, catalog>>

\* Fault: a disconnect does not advance the generation.
RetireSilently(kept) ==
  /\ bridge' = NoBridge
  /\ identity' = MarkStale(identity)
  /\ catalog' = CurrentIdentity(MarkStale(identity))
  /\ retired' = IF bridge = NoBridge THEN kept ELSE kept \cup {bridge}
  /\ UNCHANGED generation

\* retire_bridge, where "kept" is what remains of the retired list.
RetireBridge(kept) ==
  /\ bridge' = NoBridge
  /\ identity' = MarkStale(identity)
  /\ catalog' = CurrentIdentity(MarkStale(identity))
  /\ retired' = IF bridge = NoBridge THEN kept ELSE kept \cup {bridge}
  /\ generation' = IF bridge = NoBridge THEN generation ELSE Bump(generation)

\* Nothing retired: only the collected bridges leave the list.
KeepBridge(kept) ==
  /\ retired' = kept
  /\ UNCHANGED <<bridge, identity, catalog, generation>>

\* Condvar::notify_one: the worker, a sleeping stopper, or nobody.
NotifyOne ==
  \/ UNCHANGED spc
  \/ \E s \in Stoppers : spc[s] = "asleep" /\ spc' = [spc EXCEPT ![s] = "check"]

\* Condvar::notify_all, seen by the stoppers (the worker's wait is timed).
Awakened == [s \in Stoppers |-> IF spc[s] = "asleep" THEN "check" ELSE spc[s]]

-----------------------------------------------------------------------------
(* Steam threads: with_bridge *)

\* Fault: the route is read under an earlier lock than the bridge.
BeginCallTwoLocks(c) ==
  /\ cpc[c] = "idle" /\ BridgeHealthy /\ catalog # NoBridge
  /\ IF route[c] = NoBridge
       THEN route' = [route EXCEPT ![c] = catalog] /\ UNCHANGED <<cpc, held>>
       ELSE /\ cpc' = [cpc EXCEPT ![c] = "calling"]
            /\ held' = [held EXCEPT ![c] = bridge]
            /\ UNCHANGED route
  /\ UNCHANGED <<connVars, flagVars, retryVars, bridgeVars, workerVars, spc>>

\* The published bridge and the route of its catalog, taken under one lock.
BeginCall(c) ==
  /\ cpc[c] = "idle"
  /\ BridgeHealthy
  /\ catalog # NoBridge
  /\ cpc' = [cpc EXCEPT ![c] = "calling"]
  /\ held' = [held EXCEPT ![c] = bridge]
  /\ route' = [route EXCEPT ![c] = catalog]
  /\ UNCHANGED <<connVars, flagVars, retryVars, bridgeVars, workerVars, spc>>

\* The call on the bridge returned: with a result or an error that keeps the
\* bridge, or with one that should_disconnect_bridge.
EndCall(c) ==
  /\ cpc[c] = "calling"
  /\ \E next \in {"release", "clear"} : cpc' = [cpc EXCEPT ![c] = next]
  /\ UNCHANGED <<connVars, flagVars, retryVars, bridgeVars, workerVars, held, route, spc>>

\* clear_bridge_if_current, with the failed call's clone still held.
ClearBridgeIfCurrent(c) ==
  /\ cpc[c] = "clear"
  /\ cpc' = [cpc EXCEPT ![c] = "release"]
  /\ IF bridge = held[c]
       THEN RetireBridge(retired) /\ epoch' = epoch + 1
       ELSE UNCHANGED <<connVars, epoch>>
  /\ NotifyOne
  /\ UNCHANGED <<workerRunning, stopping, connecting, retryVars, bridgeVars,
                 workerVars, held, route>>

\* The function returns and drops its clone.  If no other reference is left
\* the drop runs HostBridge's joins on this thread: "joinedByCaller".
Release(c) ==
  /\ cpc[c] = "release"
  /\ cpc' = [cpc EXCEPT ![c] = "idle"]
  /\ held' = [held EXCEPT ![c] = NoBridge]
  /\ route' = [route EXCEPT ![c] = NoBridge]
  /\ status' = IF \/ bridge = held[c] \/ held[c] \in retired
                  \/ \E d \in Callers \ {c} : held[d] = held[c]
                  \/ \E w \in Workers : held[c] \in cleanup[w]
               THEN status
               ELSE [status EXCEPT ![held[c]] = "joinedByCaller"]
  /\ UNCHANGED <<connVars, flagVars, retryVars, healthy, workerVars, spc>>

\* Fault: an attempt in flight is not told about the clear.
ClearBridgeQuietly ==
  /\ epoch < MaxEpoch
  /\ RetireBridge(retired)
  /\ NotifyOne
  /\ UNCHANGED <<flagVars, retryVars, bridgeVars, workerVars, callerVars>>

\* clear_bridge: advances the epoch even when nothing is published.
ClearBridge ==
  /\ epoch < MaxEpoch
  /\ epoch' = epoch + 1
  /\ RetireBridge(retired)
  /\ NotifyOne
  /\ UNCHANGED <<workerRunning, stopping, connecting, retryVars, bridgeVars,
                 workerVars, callerVars>>

\* Fault: a request asks for a connection now.
EnsureConnectedNow ==
  /\ NotifyOne
  /\ retry' = 0
  /\ UNCHANGED <<connVars, flagVars, reconnectInterval, bridgeVars, workerVars, callerVars>>

\* ensure_connected_result: a request is a notification and nothing else.
EnsureConnected ==
  /\ NotifyOne
  /\ UNCHANGED <<connVars, flagVars, retryVars, bridgeVars, workerVars, callerVars>>

-----------------------------------------------------------------------------
(* The connection worker: run_connection_worker_with *)

\* Fault: retired bridges are only collected at shutdown.
CollectedAtShutdown == {b \in retired : stopping /\ Unreferenced(b)}

\* One iteration of the loop, from its head to the unlock, under one lock.
Collected == {b \in retired : Unreferenced(b)}
Kept      == retired \ Collected

\* if state.stopping: retire; exit once nothing is retained, else wait.
StoppingIteration(w) ==
  /\ stopping
  /\ RetireBridge(Kept)
  /\ wpc' = [wpc EXCEPT ![w] = IF retired' = {} THEN "cleanupThenExit"
                                                ELSE "cleanupThenWait"]
  /\ UNCHANGED <<connecting, seenEpoch>>

\* Fault: only a failing call withdraws a bridge.
RetireUnhealthyNever == KeepBridge(Kept)

\* An unhealthy bridge is retired before the retry deadline is looked at.
RetireUnhealthy ==
  IF bridge # NoBridge /\ ~BridgeHealthy
    THEN RetireBridge(Kept) ELSE KeepBridge(Kept)

ConnectIteration(w) ==
  /\ ~stopping
  /\ RetireUnhealthy
  /\ bridge' = NoBridge /\ ~connecting /\ retry = 0
  /\ connecting' = TRUE
  /\ seenEpoch' = [seenEpoch EXCEPT ![w] = epoch]
  /\ wpc' = [wpc EXCEPT ![w] = "cleanupThenConnect"]

WaitIteration(w) ==
  /\ ~stopping
  /\ RetireUnhealthy
  /\ ~(bridge' = NoBridge /\ ~connecting /\ retry = 0)
  /\ wpc' = [wpc EXCEPT ![w] = "cleanupThenWait"]
  /\ UNCHANGED <<connecting, seenEpoch>>

Iteration(w) ==
  /\ StoppingIteration(w) \/ ConnectIteration(w) \/ WaitIteration(w)
  /\ cleanup' = [cleanup EXCEPT ![w] = Collected]
  /\ UNCHANGED <<stopping, epoch, retryVars, bridgeVars, callerVars, spc>>

\* run_connection_worker returns at once if a worker runs or stop was asked.
WorkerRefused(w) ==
  /\ wpc[w] = "off"
  /\ workerRunning \/ stopping
  /\ wpc' = [wpc EXCEPT ![w] = "returned"]
  /\ UNCHANGED <<connVars, flagVars, retryVars, bridgeVars, cleanup, seenEpoch, callerVars, spc>>

\* Fault: a second worker is let in.
WorkerEnterUnchecked(w) ==
  /\ wpc[w] = "off" /\ ~stopping
  /\ workerRunning' = TRUE
  /\ Iteration(w)

WorkerEnter(w) ==
  /\ wpc[w] = "off"
  /\ ~workerRunning /\ ~stopping
  /\ workerRunning' = TRUE
  /\ Iteration(w)

WorkerIterate(w) ==
  /\ wpc[w] = "loop"
  /\ Iteration(w)
  /\ UNCHANGED workerRunning

\* drop(cleanup), outside the lock: HostBridge::drop joins both threads.
WorkerJoin(w, b) ==
  /\ wpc[w] \in {"cleanupThenConnect", "cleanupThenWait", "cleanupThenExit"}
  /\ b \in cleanup[w]
  /\ status' = [status EXCEPT ![b] = "joined"]
  /\ cleanup' = [cleanup EXCEPT ![w] = @ \ {b}]
  /\ UNCHANGED <<connVars, flagVars, retryVars, healthy, wpc, seenEpoch, callerVars, spc>>

\* The timed wait (at most 50 ms) ends and the loop continues.
WorkerWait(w) ==
  /\ wpc[w] = "cleanupThenWait" /\ cleanup[w] = {}
  /\ wpc' = [wpc EXCEPT ![w] = "loop"]
  /\ UNCHANGED <<connVars, flagVars, retryVars, bridgeVars, cleanup, seenEpoch, callerVars, spc>>

\* connect() runs outside the lock until ConnectOk or ConnectFail.
WorkerConnect(w) ==
  /\ wpc[w] = "cleanupThenConnect" /\ cleanup[w] = {}
  /\ wpc' = [wpc EXCEPT ![w] = "connect"]
  /\ UNCHANGED <<connVars, flagVars, retryVars, bridgeVars, cleanup, seenEpoch, callerVars, spc>>

\* Fault: a reconnect does not advance the generation.
PublishSilently(b) ==
  /\ identity' = [host |-> b, fallback |-> FALSE, stale |-> FALSE]
  /\ catalog' = b
  /\ bridge' = b
  /\ reconnectInterval' \in Intervals
  /\ retry' = 0
  /\ UNCHANGED <<retired, generation>>

\* A completed attempt, good or bad, restarts the retry interval first.
\* The host's overrides choose the fallback and the next reconnect interval.
Publish(b) ==
  /\ \E fallback \in IF HostBridgeRequired THEN {FALSE} ELSE BOOLEAN :
       identity' = [host |-> b, fallback |-> fallback, stale |-> FALSE]
  /\ catalog' = b
  /\ bridge' = b
  /\ reconnectInterval' \in Intervals
  /\ retry' = 0
  /\ generation' = Bump(generation)
  /\ UNCHANGED retired

\* A success that comes after a stop or a clear: to the retired list.
DiscardLateSuccess(b) ==
  /\ retired' = retired \cup {b}
  /\ retry' = reconnectInterval
  /\ UNCHANGED <<bridge, identity, catalog, generation, reconnectInterval>>

ConnectOk(w, b) ==
  /\ wpc[w] = "connect"
  /\ status[b] = "fresh"
  /\ wpc' = [wpc EXCEPT ![w] = "loop"]
  /\ connecting' = FALSE
  /\ status' = [status EXCEPT ![b] = "live"]
  /\ IF stopping \/ epoch # seenEpoch[w] THEN DiscardLateSuccess(b) ELSE Publish(b)
  /\ UNCHANGED <<workerRunning, stopping, epoch, healthy, cleanup, seenEpoch,
                 callerVars, spc>>

\* Fault: a failed attempt ends the worker.
ConnectFailGivesUp(w) ==
  /\ wpc[w] = "connect"
  /\ wpc' = [wpc EXCEPT ![w] = "returned"]
  /\ connecting' = FALSE
  /\ retry' = reconnectInterval
  /\ reconnectInterval' = ConfigInterval
  /\ UNCHANGED <<connVars, workerRunning, stopping, epoch, bridgeVars, cleanup,
                 seenEpoch, callerVars, spc>>

ConnectFail(w) ==
  /\ wpc[w] = "connect"
  /\ wpc' = [wpc EXCEPT ![w] = "loop"]
  /\ connecting' = FALSE
  /\ retry' = reconnectInterval
  /\ reconnectInterval' = ConfigInterval
  /\ UNCHANGED <<connVars, workerRunning, stopping, epoch, bridgeVars, cleanup,
                 seenEpoch, callerVars, spc>>

\* Fault: nobody is told that the worker left.
WorkerExitSilently(w) ==
  /\ wpc[w] = "cleanupThenExit" /\ cleanup[w] = {}
  /\ wpc' = [wpc EXCEPT ![w] = "returned"]
  /\ workerRunning' = FALSE
  /\ UNCHANGED <<connVars, stopping, connecting, epoch, retryVars, bridgeVars,
                 cleanup, seenEpoch, callerVars, spc>>

WorkerExit(w) ==
  /\ wpc[w] = "cleanupThenExit" /\ cleanup[w] = {}
  /\ wpc' = [wpc EXCEPT ![w] = "returned"]
  /\ workerRunning' = FALSE
  /\ spc' = Awakened
  /\ UNCHANGED <<connVars, stopping, connecting, epoch, retryVars, bridgeVars,
                 cleanup, seenEpoch, callerVars>>

-----------------------------------------------------------------------------
(* Shutdown: stop_connection_worker *)

\* request_connection_worker_stop.
RequestStop(s) ==
  /\ spc[s] = "running"
  /\ stopping' = TRUE
  /\ epoch' = epoch + 1
  /\ spc' = [Awakened EXCEPT ![s] = "check"]
  /\ UNCHANGED <<connVars, workerRunning, connecting, retryVars, bridgeVars,
                 workerVars, callerVars>>

\* while state.worker_running wait, without a timeout; the lock is released
\* only by going to sleep.
StopCheck(s) ==
  /\ spc[s] = "check"
  /\ spc' = [spc EXCEPT ![s] = IF workerRunning THEN "asleep" ELSE "stopped"]
  /\ UNCHANGED <<connVars, flagVars, retryVars, bridgeVars, workerVars, callerVars>>

-----------------------------------------------------------------------------
(* Environment *)

\* The input pump or the command worker records an error.
BridgeFails(b) ==
  /\ status[b] = "live" /\ healthy[b]
  /\ healthy' = [healthy EXCEPT ![b] = FALSE]
  /\ UNCHANGED <<connVars, flagVars, retryVars, status, workerVars, callerVars, spc>>

Tick ==
  /\ retry > 0
  /\ retry' = retry - 1
  /\ UNCHANGED <<connVars, flagVars, reconnectInterval, bridgeVars, workerVars,
                 callerVars, spc>>

CallerStep(c) == EndCall(c) \/ ClearBridgeIfCurrent(c) \/ Release(c)

WorkerStep(w) ==
  \/ WorkerRefused(w) \/ WorkerEnter(w) \/ WorkerIterate(w)
  \/ \E b \in Bridges : WorkerJoin(w, b) \/ ConnectOk(w, b)
  \/ WorkerWait(w) \/ WorkerConnect(w) \/ ConnectFail(w) \/ WorkerExit(w)

Step ==
  \/ \E c \in Callers : BeginCall(c) \/ CallerStep(c)
  \/ ClearBridge
  \/ EnsureConnected
  \/ \E w \in Workers : WorkerStep(w)
  \/ \E s \in Stoppers : RequestStop(s) \/ StopCheck(s)
  \/ \E b \in Bridges : BridgeFails(b)

Next == Step \/ Tick

\* Threads keep running once started: an operation ends (its I/O is timed),
\* the worker and the stoppers are scheduled, time passes.  Nothing obliges a
\* caller to begin, a host to answer, a bridge to fail or anyone to stop.
Fairness ==
  /\ \A c \in Callers : WF_vars(CallerStep(c))
  /\ \A w \in Workers : WF_vars(WorkerStep(w))
  /\ \A s \in Stoppers : WF_vars(StopCheck(s))
  /\ WF_vars(Tick)

Spec == Init /\ [][Next]_vars
FairSpec == Spec /\ Fairness

-----------------------------------------------------------------------------
(* Properties *)

WorkerPCs == {"off", "loop", "cleanupThenConnect", "cleanupThenWait",
              "cleanupThenExit", "connect", "returned"}

\* Every variable of the runtime has the type the code gives it.
TypeOK ==
  /\ bridge \in MaybeBridge
  /\ identity \in Identities
  /\ catalog \in Catalogs
  /\ retired \subseteq Bridges
  /\ generation \in 0 .. GenerationModulus - 1
  /\ workerRunning \in BOOLEAN /\ stopping \in BOOLEAN /\ connecting \in BOOLEAN
  /\ epoch \in Nat
  /\ retry \in Nat
  /\ reconnectInterval \in Intervals
  /\ status \in [Bridges -> {"fresh", "live", "joined", "joinedByCaller"}]
  /\ healthy \in [Bridges -> BOOLEAN]
  /\ wpc \in [Workers -> WorkerPCs]
  /\ cleanup \in [Workers -> SUBSET Bridges]
  /\ seenEpoch \in [Workers -> Nat]
  /\ cpc \in [Callers -> {"idle", "calling", "clear", "release"}]
  /\ held \in [Callers -> MaybeBridge]
  /\ route \in [Callers -> Catalogs]
  /\ spc \in [Stoppers -> {"running", "check", "asleep", "stopped"}]

\* "Only the connection worker may drop the last reference (HostBridge
\* joins)": a Steam thread returning from a HID call never finds itself
\* joining the bridge's two threads.
OnlyWorkerDropsLast == \A b \in Bridges : status[b] # "joinedByCaller"

\* A bridge the worker is joining, or has joined, is nobody's: it is neither
\* published nor retained, and no operation is running on it.
JoinedBridgeUnreachable ==
  \A b \in Bridges :
    (status[b] = "joined" \/ \E w \in Workers : b \in cleanup[w]) =>
      bridge # b /\ b \notin retired /\ Unreferenced(b)

\* "Route and bridge must come from the same session": an operation in flight
\* uses the interface number of the session whose bridge it holds, whatever
\* was published since.
RouteMatchesSession ==
  \A c \in Callers : cpc[c] # "idle" => route[c] = held[c]

\* Once stop_connection_worker has returned, every HostBridge ever connected
\* is joined: no command or input thread of any session is left.
StoppedMeansAllJoined ==
  (\E s \in Stoppers : spc[s] = "stopped") =>
    \A b \in Bridges : status[b] # "live"

\* "Disconnect and reconnect each advance the device generation", and nothing
\* else does: SDL rescans exactly when what is published changed.
GenerationTracksPublication ==
  [][(bridge' # bridge) <=> (generation' # generation)]_vars

\* A connection attempt that completes after a stop or a clear, even one that
\* was answered before it, is discarded: after a stop nothing is published,
\* and no session is ever published twice.
NoLatePublication ==
  [][bridge' \notin {bridge, NoBridge} => ~stopping /\ status[bridge'] = "fresh"]_vars

-----------------------------------------------------------------------------
(* Why the safety properties hold: the inductive invariant *)

Active(w) == wpc[w] \notin {"off", "returned"}

\* One worker at a time; it connects only while nothing is published, and it
\* leaves, or was never there, only while nothing is published or retained.
WorkerInv ==
  /\ \A w \in Workers : Active(w) => workerRunning
  /\ \A v, w \in Workers : Active(v) /\ Active(w) => v = w
  /\ \A w \in Workers : cleanup[w] # {} =>
       wpc[w] \in {"cleanupThenConnect", "cleanupThenWait", "cleanupThenExit"}
  /\ \A w \in Workers : wpc[w] \in {"cleanupThenConnect", "connect"} => bridge = NoBridge
  /\ \A w \in Workers : wpc[w] = "cleanupThenExit" => bridge = NoBridge /\ retired = {}
  /\ ~workerRunning => bridge = NoBridge /\ retired = {}

\* Every live bridge has exactly one owner (the published slot, the retired
\* list or a cleanup vector), and a borrowed one is not being cleaned up.
OwnerInv ==
  /\ bridge # NoBridge => status[bridge] = "live" /\ bridge \notin retired
  /\ \A b \in retired : status[b] = "live"
  /\ \A w \in Workers : \A b \in cleanup[w] :
       status[b] = "live" /\ b # bridge /\ b \notin retired
  /\ \A b \in Bridges : status[b] = "live" =>
       b = bridge \/ b \in retired \/ \E w \in Workers : b \in cleanup[w]
  /\ \A b \in Bridges : status[b] # "joinedByCaller"

\* A caller holds a clone during its operation only, and the published slot or
\* the retired list holds that bridge too.
BorrowInv ==
  /\ \A c \in Callers : cpc[c] = "idle" <=> held[c] = NoBridge
  /\ \A c \in Callers : held[c] # NoBridge => held[c] = bridge \/ held[c] \in retired
  /\ \A c \in Callers : cpc[c] # "idle" => route[c] = held[c]

\* The catalog is the published session's, and no session's without one.
CatalogInv ==
  /\ bridge # NoBridge => catalog = bridge
  /\ bridge = NoBridge => catalog \notin Bridges
  /\ bridge # NoBridge => identity.host = bridge /\ ~identity.stale

\* A stopper waits only after the stop flag, and returns only after the worker.
StopInv ==
  \A s \in Stoppers :
    /\ spc[s] # "running" => stopping
    /\ spc[s] = "stopped" => ~workerRunning

\* What the connection mutex protects between two critical sections: one
\* worker, one owner of every HostBridge, no clone without an owner, and a
\* catalog and stoppers in step with them.  Every step preserves it.
IInv == TypeOK /\ WorkerInv /\ OwnerInv /\ BorrowInv /\ CatalogInv /\ StopInv

-----------------------------------------------------------------------------
(* Liveness, and the abstract specification *)

\* stop_connection_worker returns: the worker leaves its loop once callers
\* released their clones, and every sleeping stopper is told.
StopReturns == \A s \in Stoppers : (spc[s] = "check") ~> (spc[s] = "stopped")

\* A retired bridge is joined in the end; the list does not leak sessions.
RetiredEventuallyJoined == \A b \in Bridges : (b \in retired) ~> (status[b] = "joined")

\* Nothing that was told to end lingers: neither the worker, and with it whoever
\* waits for its end, nor a session the runtime has given up.
NothingLingers == StopReturns /\ RetiredEventuallyJoined

\* An unhealthy bridge does not stay published, with or without HID traffic.
UnhealthyIsWithdrawn ==
  \A b \in Bridges : (bridge = b /\ ~healthy[b]) ~> (bridge # b)

\* "The connection worker retries even if Steam makes no further HID calls":
\* while it runs and nothing is published, a new attempt always comes.
KeepsRetrying ==
  (workerRunning /\ bridge = NoBridge) ~> (connecting \/ stopping \/ bridge # NoBridge)

\* Without any help from Steam's threads, the worker takes a failed session
\* off the offer and goes on looking for the next.
WorkerRecovers == UnhealthyIsWithdrawn /\ KeepsRetrying

\* The runtime implements SessionLease: the lock, the worker, the retired list
\* and the reference counts together offer each session at most once and end it
\* only when no operation can still be using it.
Lease ==
  INSTANCE SessionLease WITH
    Sessions <- Bridges, NoSession <- NoBridge, Borrowers <- Callers,
    current <- bridge, sound <- BridgeHealthy, borrowed <- held, closing <- stopping,
    spent <- {b \in Bridges : status[b] # "fresh"},
    ended <- {b \in Bridges : status[b] \in {"joined", "joinedByCaller"}}

\* The abstract specification, as a property of this one.
LeaseSpec == Lease!Spec

\* Enumeration never reports a session that was withdrawn; while the published
\* one works it reports that one, not the debug fallback's or an older one's
\* catalog, and where a host is required it reports what the lease advertises.
AdvertisesCurrentSessionOnly ==
  /\ Advertised \in Bridges => Advertised = bridge
  /\ BridgeHealthy => Advertised = Lease!Advertised
  /\ HostBridgeRequired => Advertised = Lease!Advertised

=============================================================================
