------------------------------ MODULE HidBackend ------------------------------
(***************************************************************************)
(* How the host reaches the controller (crosspuck-app/src/hid_backend.rs): *)
(* the main device that commands share, the cache of the other interfaces, *)
(* the retries of a command, and the readers of the input collections with *)
(* their reopening and their patience.                                     *)
(*                                                                         *)
(* A collection is one macOS registry entry: its path dies when it is      *)
(* detached and never comes back, so a handle or a cached path is good or  *)
(* stale.  A good handle may still refuse an operation, and a snapshot or  *)
(* an open may fail although the collection is there.  Time passes for a   *)
(* reader in each failing read of its own, which sleeps, and for all of    *)
(* them while the input thread is blocked.                                 *)
(***************************************************************************)
EXTENDS Naturals, SequencesExt

CONSTANTS
  Attempts,        \* FEATURE_REPORT_ATTEMPTS: 5
  ReopenEvery,     \* errors between two attempts to reopen: 4
  GoneGrace,       \* INPUT_DEVICE_GONE_GRACE: 2 s
  ErrorGrace,      \* INPUT_ERROR_GRACE: 30 s
  DisconnectGrace  \* INPUT_DISCONNECT_GRACE: 120 s

ASSUME HidBackendAssumption ==
  /\ Attempts \in Nat \ {0} /\ ReopenEvery \in Nat \ {0, 1}
  /\ GoneGrace \in Nat /\ ErrorGrace \in Nat /\ DisconnectGrace \in Nat
  /\ GoneGrace <= ErrorGrace /\ ErrorGrace <= DisconnectGrace

VARIABLES
  attached,    \* the collections macOS shows
  command,     \* main.command_device: "good" or "stale"
  cached,      \* the wireless interface in interface_devices, or "none"
  readers,     \* SharedInputReportReader.readers
  next_index,  \* and its next_index
  target,      \* the interface of the command being served, or "none"
  attempt,     \* its attempts so far
  refused,     \* history: operations and openings for it that failed although its
               \* collection had been there all the time
  away         \* history: its collection was missing at some time

deviceVars == <<attached, command, cached, readers, next_index>>
serveVars  == <<target, attempt, refused, away>>

Roles == {"PuckMain", "PuckInterface3"}

\* The order of the roles: build_puck_snapshot keeps them in a BTreeMap.
Rank == [PuckMain |-> 1, PuckInterface3 |-> 2]
InOrder(roles) == \A i, j \in DOMAIN roles : i < j => Rank[roles[i]] < Rank[roles[j]]

Least(m, n) == IF m <= n THEN m ELSE n

\* Two fields are history: denied, a reopening of its failed although the
\* collection was there; and until then since, how long its handle was dead.
Reader(role) == [role |-> role, handle |-> "good", errors |-> 0, age |-> 0,
                 since |-> 0, denied |-> FALSE]

BackendInit ==
  /\ attached \in SUBSET Roles
  /\ command = "stale" /\ cached = "none"
  /\ readers = <<>> /\ next_index = 0
  /\ target = "none" /\ attempt = 0 /\ refused = 0 /\ away = FALSE

-----------------------------------------------------------------------------
(* The controller *)

\* Every handle on the collection dies with it.
Detach(role) ==
  /\ role \in attached
  /\ attached' = attached \ {role}
  /\ command' = IF role = "PuckMain" THEN "stale" ELSE command
  /\ cached' = IF role # "PuckMain" /\ cached = "good" THEN "stale" ELSE cached
  /\ readers' = [i \in DOMAIN readers |->
       IF readers[i].role = role THEN [readers[i] EXCEPT !.handle = "stale"] ELSE readers[i]]
  /\ away' = (away \/ target = role)
  /\ refused' = IF away' THEN 0 ELSE refused
  /\ UNCHANGED <<next_index, target, attempt>>

Attach(role) ==
  /\ role \notin attached
  /\ attached' = attached \cup {role}
  /\ UNCHANGED <<command, cached, readers, next_index, serveVars>>

-----------------------------------------------------------------------------
(* Opening: RealHostBackend::new, open_input_reader *)

\* snapshot_for_filter and open_path_with_new_api open a collection only if it
\* is there, and may fail even so.
MayOpen(role) == IF role \in attached THEN BOOLEAN ELSE {FALSE}

OpenMainDevice ==
  /\ "PuckMain" \in attached
  /\ command' = "good" /\ cached' = "none"
  /\ UNCHANGED <<attached, readers, next_index, serveVars>>

\* The collections of the snapshot that are still there: one that is not is
\* logged and left out, the main collection included.
OpenInputReader ==
  /\ \E n \in 1 .. Cardinality(attached) : \E roles \in [1 .. n -> attached] :
       InOrder(roles) /\ readers' = [i \in 1 .. n |-> Reader(roles[i])]
  /\ next_index' = 0
  /\ UNCHANGED <<attached, command, cached, serveVars>>

\* The session's reader and backend are dropped with it.
CloseReaders == readers' = <<>> /\ next_index' = 0
CloseBackend == command' = "stale" /\ cached' = "none"

-----------------------------------------------------------------------------
(* A command: get_feature, set_feature, set_output, write_report *)

Receive ==
  /\ \E role \in Roles :
       target' = role /\ away' = (role \notin attached)
  /\ attempt' = 0 /\ refused' = 0
  /\ UNCHANGED deviceVars

\* It was there and did not do it.
Refused == IF away THEN refused ELSE refused + 1

\* What the next attempt uses; a good handle may take the command or refuse it.
Handle == IF target = "PuckMain" THEN command ELSE cached

\* cached_interface_device opens the path of the last snapshot, else that of a
\* new one.
OpenInterface ==
  /\ target # "PuckMain" /\ cached = "none" /\ TRUE \in MayOpen(target)
  /\ cached' = "good"
  /\ UNCHANGED <<attached, command, readers, next_index, serveVars>>

\* An interface that cannot be opened ends the command without a retry, also
\* one that is there.
CannotOpen ==
  /\ target # "PuckMain" /\ cached = "none"
  /\ refused' = Refused
  /\ UNCHANGED <<deviceVars, target, attempt, away>>

\* Fault: the cached handle is kept after an error.
NotTakenKeepingHandle ==
  /\ Handle # "none"
  /\ attempt' = attempt + 1
  /\ refused' = IF Handle = "good" THEN Refused ELSE refused
  /\ UNCHANGED <<deviceVars, target, away>>

\* An error: an interface handle is dropped and opened again by the next attempt.
NotTaken ==
  /\ Handle # "none"
  /\ attempt' = attempt + 1
  /\ refused' = IF Handle = "good" THEN Refused ELSE refused
  /\ cached' = IF target = "PuckMain" THEN cached ELSE "none"
  /\ UNCHANGED <<attached, command, readers, next_index, target, away>>

\* refresh_main_device, after every failed attempt: a new snapshot, a new handle.
\* The old handle stays if either fails.  The last refresh of a command is for
\* the next one.
RefreshMain ==
  /\ \E opened \in MayOpen("PuckMain") :
       /\ command' = IF opened THEN "good" ELSE command
       /\ refused' = IF ~opened /\ attempt < Attempts THEN Refused ELSE refused
  /\ UNCHANGED <<attached, cached, readers, next_index, target, attempt, away>>

\* The next command starts anew.
Forget ==
  /\ target' = "none" /\ attempt' = 0 /\ refused' = 0 /\ away' = FALSE
  /\ UNCHANGED deviceVars

-----------------------------------------------------------------------------
(* A read: SharedInputReportReader::read_report, CollectionInputReader::read_once *)

Current == readers[next_index + 1]
NextIndex == (next_index + 1) % Len(readers)

\* What time does to a reader that has an error open.
Older(r) == IF r.errors = 0 THEN r
            ELSE [r EXCEPT !.age = Least(@ + 1, DisconnectGrace),
                           !.since = IF r.handle = "stale" /\ ~r.denied
                                     THEN Least(@ + 1, DisconnectGrace) ELSE 0]

ReadWell(rs) == [rs EXCEPT ![next_index + 1] = Reader(Current.role)]

\* No report, or the error that means "no report yet".
ReadAnswers ==
  /\ Current.handle = "good"
  /\ readers' = ReadWell(readers)
  /\ next_index' = NextIndex
  /\ UNCHANGED <<attached, command, cached, serveVars>>

\* The thread is busy with a report, for how long is open.
ReadReport ==
  /\ Current.handle = "good"
  /\ \E late \in BOOLEAN :
       readers' = IF late THEN [i \in DOMAIN readers |-> Older(ReadWell(readers)[i])] ELSE ReadWell(readers)
  /\ next_index' = NextIndex
  /\ UNCHANGED <<attached, command, cached, serveVars>>

\* Errors are counted up to ReopenEvery and from 1 again.
Counted == IF Current.errors = ReopenEvery THEN 1 ELSE Current.errors + 1
TriesToReopen == Current.errors = 0 \/ Counted = ReopenEvery

\* refresh_device, for the errors that try it.
MayReopen == IF TriesToReopen THEN MayOpen(Current.role) ELSE {FALSE}

\* first_error_at is read before the reopening: a reader whose patience is over
\* gives up even when it has just reopened its device.
PatienceOver(grace) == Current.errors > 0 /\ Current.age >= grace

\* A shorter grace for a snapshot that shows no controller at all; that
\* snapshot may fail as well.
GivesUp(grace) ==
  \/ PatienceOver(grace)
  \/ TriesToReopen /\ attached = {} /\ Current.age >= GoneGrace

\* Fault: the errors of an earlier outage still count after a reopening.
AfterErrorUnforgiving(reopened) ==
  IF reopened THEN [Current EXCEPT !.handle = "good", !.since = 0, !.errors = Counted]
  ELSE [Current EXCEPT !.errors = Counted,
                       !.denied = @ \/ (TriesToReopen /\ Current.role \in attached)]

\* Only a reopening that succeeds forgets the errors.
AfterError(reopened) ==
  IF reopened THEN Reader(Current.role)
  ELSE [Current EXCEPT !.errors = Counted,
                       !.denied = @ \/ (TriesToReopen /\ Current.role \in attached)]

ReadFails(grace) ==
  /\ ~PatienceOver(grace)
  /\ \E reopened \in MayReopen :
       readers' = [readers EXCEPT ![next_index + 1] = Older(AfterError(reopened))]
  /\ next_index' = NextIndex
  /\ UNCHANGED <<attached, command, cached, serveVars>>

\* The main reader's end is the input's end, and so is that of the last one.
EndsInput == Current.role = "PuckMain" \/ Len(readers) = 1

ReaderRemoved(grace) ==
  /\ GivesUp(grace) /\ ~EndsInput
  /\ readers' = RemoveAt(readers, next_index + 1)
  /\ next_index' = Least(NextIndex, Len(readers) - 2)
  /\ UNCHANGED <<attached, command, cached, serveVars>>

\* One for each kind of error text.
Graces == {ErrorGrace, DisconnectGrace}

-----------------------------------------------------------------------------
(* Properties *)

\* A reader gives up, and with the main one the session, only after its own
\* handle was dead for the whole grace: errors of one outage do not count in
\* the next, nor those of one collection for another.  They do count once a
\* reopening has failed although the collection was there: a controller that
\* then goes away is given no new grace.
GaveUpEarly(grace) ==
  /\ GivesUp(grace) /\ ~Current.denied
  /\ Current.since < (IF attached = {} THEN GoneGrace ELSE ErrorGrace)

=============================================================================
