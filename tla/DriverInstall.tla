----------------------------- MODULE DriverInstall -----------------------------
(***************************************************************************)
(* Installing and removing the Steam driver from the menu of the           *)
(* application (crosspuck-app/src/driver_install.rs and DriverMenuState in *)
(* main.rs): the main thread checks the bottle and renders the menu, a     *)
(* spawned thread changes the files of a CrossOver bottle one step at a    *)
(* time.  The application may be killed between any two steps, any file    *)
(* operation may fail, and other programs write the same files.            *)
(*                                                                         *)
(* Contents of hid.dll are told apart by their digest only.  A backup file *)
(* has a name of its own: two installations do not start within a second.  *)
(* Nobody but this program writes its own driver.                          *)
(***************************************************************************)
EXTENDS Naturals, FiniteSets

CONSTANTS
  Bottles,      \* the CrossOver bottles of this Mac
  SteamBottle,  \* the bottle named "Steam" of the automatic search
  WithSteam,    \* the bottles in which find_steam_dir finds Steam.exe
  Removable,    \* bound on the bottles whose drives come and go
  Foreign,      \* digests of other DLLs named hid.dll
  Workers       \* bound on the threads that run at the same time

ASSUME BottlesAssumption == SteamBottle \in Bottles /\ WithSteam \subseteq Bottles

Automatic == "auto"      \* no bottle has been chosen in the menu
None     == "none"      \* no such bottle, no such file
Embedded == "embedded"  \* the digest of the driver in the application bundle
Partial  == "partial"   \* a copy that was not finished

ASSUME ForeignAssumption == Foreign \cap {None, Embedded, Partial} = {}

VARIABLES
  bundled,   \* the application bundle holds a valid driver
  present,   \* the bottles whose directories exist: drives come and go
  target,    \* hid.dll next to Steam.exe, per bottle
  temp,      \* .hid.dll.crosspuck.tmp beside it
  backups,   \* complete copies under crosspuck-backups
  override,  \* user.reg has hid=native,builtin
  chosen,    \* the selected bottle, in the context and in UserDefaults
  snapshot,  \* DriverMenuState.snapshot
  view,      \* the snapshot that the menu items were last rendered from
  screen,    \* the menu: "closed", "opening", "open", or "applying" a choice of its
  late,      \* history: an operation ended while the menu was opening
  worker,    \* the installing and uninstalling threads
  intruded   \* history: someone wrote hid.dll after the worker's backup

files == <<target, temp, backups, override>>
menu  == <<chosen, view, screen>>
vars  == <<bundled, present, files, menu, snapshot, late, worker, intruded>>

-----------------------------------------------------------------------------
(* The status of a bottle *)

\* discover_bottle: a chosen bottle or nothing; otherwise "Steam", otherwise
\* the first one by name that has a Steam.exe.
Discover(ctx) ==
  IF ctx # Automatic THEN IF ctx \in present THEN ctx ELSE None
  ELSE IF SteamBottle \in present THEN SteamBottle
  ELSE IF present \cap WithSteam # {} THEN CHOOSE b \in present \cap WithSteam : TRUE
  ELSE None

StateOf(b) ==
  CASE ~bundled                  -> "BundledDriverMissing"
    [] bundled /\ b = None       -> "BottleNotFound"
    [] bundled /\ b \in Bottles \ WithSteam -> "SteamExeNotFound"
    [] bundled /\ b \in WithSteam ->
         IF target[b] = None THEN "NotInstalled"
         ELSE IF target[b] = Embedded /\ override[b] THEN "Installed"
         ELSE "UpdateAvailable"

Status(ctx, state) == [kind |-> "Status", ctx |-> ctx, state |-> state]

\* check_driver_install_status: reading an existing DLL or user.reg may fail.
StatusesOf(ctx) ==
  LET state == StateOf(Discover(ctx))
  IN  {Status(ctx, state)}
        \cup IF state \in {"Installed", "UpdateAvailable"}
             THEN {Status(ctx, "CheckFailed")} ELSE {}

\* The snapshots that say nothing of a bottle.
Plain(kind) == [kind |-> kind, ctx |-> None, state |-> None]

AllowsInstall(s) ==
  \/ s.kind = "InstallFailed"
  \/ s.kind = "Status" /\ s.state \in {"NotInstalled", "UpdateAvailable", "Installed"}

AllowsUninstall(s) ==
  \/ s.kind = "UninstallFailed"
  \/ s.kind = "Status" /\ s.state \in {"Installed", "UpdateAvailable"}

IsInstalling == snapshot.kind \in {"Installing", "Uninstalling"}

Idle == [pc |-> "idle", ctx |-> None, b |-> None]

Init ==
  /\ bundled \in BOOLEAN
  /\ present = Bottles
  /\ target \in [Bottles -> {None} \cup Foreign]
  /\ temp = [b \in Bottles |-> None]
  /\ backups = [b \in Bottles |-> {}]
  /\ override = [b \in Bottles |-> FALSE]
  /\ chosen = Automatic
  /\ snapshot \in StatusesOf(Automatic)
  /\ view = snapshot
  /\ screen = "closed" /\ late = FALSE
  /\ worker = [w \in Workers |-> Idle]
  /\ intruded = FALSE

-----------------------------------------------------------------------------
(* The main thread: the menu *)

\* Fault: an operation in progress is not looked for.
RefreshStatusAlways(ctx) == snapshot' \in StatusesOf(ctx)

\* refresh_status: an operation in progress will publish a status itself.
RefreshStatus(ctx) ==
  IF IsInstalling THEN snapshot' = snapshot ELSE snapshot' \in StatusesOf(ctx)

\* Fault: the menu opens on the status it had.
MenuWillOpenStale ==
  /\ screen = "closed"
  /\ screen' = "opening"
  /\ UNCHANGED <<bundled, present, files, chosen, view, snapshot, late, worker, intruded>>

\* menuWillOpen first refreshes the status, under a lock of its own.
MenuWillOpen ==
  /\ screen = "closed"
  /\ RefreshStatus(chosen)
  /\ screen' = "opening"
  /\ UNCHANGED <<bundled, present, files, chosen, view, late, worker, intruded>>

\* menu_view, in a second lock section: an operation may have ended in between.
\* The menu is on the screen afterwards, or gone, as its callback decides.
MenuRendered ==
  /\ screen \in {"opening", "applying"}
  /\ view' = snapshot
  /\ screen' = IF screen = "opening" THEN "open" ELSE "closed"
  /\ UNCHANGED <<bundled, present, files, chosen, snapshot, late, worker, intruded>>

MenuDismissed ==
  /\ screen = "open"
  /\ screen' = "closed" /\ late' = FALSE
  /\ UNCHANGED <<bundled, present, files, chosen, view, snapshot, worker, intruded>>

\* refreshTimer: a timer of the default run loop mode, which does not fire
\* while the menu is tracked.
RefreshTimer ==
  /\ screen = "closed"
  /\ view' = snapshot
  /\ UNCHANGED <<bundled, present, files, chosen, screen, snapshot, late, worker, intruded>>

\* chooseBottle, resetBottle and apply_bottle_path_change.
ChooseBottle(ctx) ==
  /\ screen = "open"
  /\ screen' = "applying" /\ late' = FALSE
  /\ chosen' = ctx
  /\ RefreshStatus(ctx)
  /\ UNCHANGED <<bundled, present, files, view, worker, intruded>>

\* start_install and start_uninstall: check and mark under one lock, then a
\* new thread with a copy of the context, and the menu is rendered again.
Start(w, busy, pc) ==
  /\ worker[w] = Idle
  /\ w = CHOOSE v \in Workers : worker[v] = Idle
  /\ screen' = "applying" /\ late' = FALSE
  /\ snapshot' = Plain(busy)
  /\ worker' = [worker EXCEPT ![w] = [pc |-> pc, ctx |-> chosen, b |-> None]]
  /\ UNCHANGED <<bundled, present, files, chosen, view, intruded>>

StartInstall(w) ==
  /\ screen = "open" /\ AllowsInstall(view) /\ AllowsInstall(snapshot)
  /\ Start(w, "Installing", "install")

StartUninstall(w) ==
  /\ screen = "open" /\ AllowsUninstall(view) /\ AllowsUninstall(snapshot)
  /\ Start(w, "Uninstalling", "uninstall")

-----------------------------------------------------------------------------
(* The thread: install_driver, uninstall_driver *)

\* The thread at pc works on bottle b, whose directory exists.
At(w, pc, b) == worker[w].pc = pc /\ worker[w].b = b /\ b \in present

Goto(w, pc) == worker' = [worker EXCEPT ![w].pc = pc]

threadOthers == <<bundled, present, menu>>

\* An operation's end publishes what becomes of it.
Ended(w) ==
  /\ worker' = [worker EXCEPT ![w] = Idle]
  /\ late' = (late \/ screen = "opening") /\ intruded' = FALSE

Unsuccessful(w) ==
  /\ snapshot' = Plain(IF worker[w].pc \in {"uninstall", "remove"}
                       THEN "UninstallFailed" ELSE "InstallFailed")
  /\ Ended(w)
  /\ UNCHANGED <<files, threadOthers>>

\* Bundle, bottle and Steam directory are looked up again by the thread.
Resolve(w) ==
  LET b == Discover(worker[w].ctx)
  IN  /\ worker[w].pc \in {"install", "uninstall"}
      /\ IF b \in WithSteam /\ (worker[w].pc = "install" => bundled)
         THEN /\ worker' = [worker EXCEPT
                   ![w].pc = IF @ = "install" THEN "hash" ELSE "remove", ![w].b = b]
              /\ UNCHANGED <<files, snapshot, late, threadOthers, intruded>>
         ELSE Unsuccessful(w)

\* The driver is installed already: only the override is applied again.
CompareDigest(w, b) ==
  /\ At(w, "hash", b)
  /\ Goto(w, IF target[b] = Embedded THEN "registry" ELSE "backup")
  /\ UNCHANGED <<files, snapshot, late, threadOthers, intruded>>

\* Fault: the name of the backup is chosen, the copy forgotten.
BackUpNothing(w, b) ==
  /\ At(w, "backup", b)
  /\ intruded' = FALSE
  /\ Goto(w, "copy")
  /\ UNCHANGED <<files, snapshot, late, threadOthers>>

BackUp(w, b) ==
  /\ At(w, "backup", b)
  /\ backups' = [backups EXCEPT ![b] = @ \cup ({target[b]} \ {None})]
  /\ intruded' = FALSE
  /\ Goto(w, "copy")
  /\ UNCHANGED <<target, temp, override, snapshot, late, threadOthers>>

\* atomic_copy: remove a leftover, copy beside the target, sync, rename.
BeginCopy(w, b) ==
  /\ At(w, "copy", b)
  /\ temp' = [temp EXCEPT ![b] = Partial]
  /\ Goto(w, "copying")
  /\ UNCHANGED <<target, backups, override, snapshot, late, threadOthers, intruded>>

EndCopy(w, b) ==
  /\ At(w, "copying", b)
  /\ temp' = [temp EXCEPT ![b] = Embedded]
  /\ Goto(w, "rename")
  /\ UNCHANGED <<target, backups, override, snapshot, late, threadOthers, intruded>>

RenameOver(w, b) ==
  /\ At(w, "rename", b)
  /\ target' = [target EXCEPT ![b] = temp[b]]
  /\ temp' = [temp EXCEPT ![b] = None]
  /\ Goto(w, "verify")
  /\ UNCHANGED <<backups, override, snapshot, late, threadOthers, intruded>>

Verify(w, b) ==
  /\ At(w, "verify", b)
  /\ IF target[b] = Embedded
     THEN Goto(w, "registry") /\ UNCHANGED <<files, snapshot, late, threadOthers, intruded>>
     ELSE Unsuccessful(w)

\* apply_hid_registry_override: write the .reg file, find a CrossOver and let
\* its regedit import the file.
ApplyOverride(w, b) ==
  /\ At(w, "registry", b)
  /\ override' = [override EXCEPT ![b] = TRUE]
  /\ Goto(w, "check")
  /\ UNCHANGED <<target, temp, backups, snapshot, late, threadOthers, intruded>>

\* uninstall_driver: whatever hid.dll is there, the registry is left alone.
RemoveDll(w, b) ==
  /\ At(w, "remove", b)
  /\ target' = [target EXCEPT ![b] = None]
  /\ Goto(w, "check")
  /\ UNCHANGED <<temp, backups, override, snapshot, late, threadOthers, intruded>>

\* Any step on the files may fail; what it had done stays.
StepFails(w) ==
  /\ worker[w].pc \in {"hash", "backup", "copy", "copying", "rename", "verify",
                       "registry", "remove"}
  /\ Unsuccessful(w)

\* The thread's last act: check the bottle it worked for and publish.
Publish(w) ==
  /\ worker[w].pc = "check"
  /\ snapshot' \in StatusesOf(worker[w].ctx)
  /\ Ended(w)
  /\ UNCHANGED <<files, threadOthers>>

WorkerStep(w) ==
  \/ Resolve(w) \/ StepFails(w) \/ Publish(w)
  \/ \E b \in Bottles :
       \/ CompareDigest(w, b) \/ BackUp(w, b) \/ BeginCopy(w, b) \/ EndCopy(w, b)
       \/ RenameOver(w, b) \/ Verify(w, b) \/ ApplyOverride(w, b) \/ RemoveDll(w, b)

-----------------------------------------------------------------------------
(* Everybody else *)

\* The process ends at any moment and is started again: the files and the
\* selection are what is left.
Restart ==
  /\ snapshot' \in StatusesOf(chosen)
  /\ view' = snapshot'
  /\ screen' = "closed" /\ late' = FALSE
  /\ worker' = [w \in Workers |-> Idle]
  /\ intruded' = FALSE
  /\ UNCHANGED <<bundled, present, files, chosen>>

\* Steam, the user or another version of CrossPuck writes or removes hid.dll.
OthersWrite(b, content) ==
  /\ b \in present
  /\ target' = [target EXCEPT ![b] = content]
  /\ intruded' = (intruded \/ \E w \in Workers :
                    worker[w].b = b /\ worker[w].pc \in {"copy", "copying", "rename"})
  /\ UNCHANGED <<bundled, present, temp, backups, override, menu, snapshot, late, worker>>

OthersDropOverride(b) ==
  /\ b \in present /\ override[b]
  /\ override' = [override EXCEPT ![b] = FALSE]
  /\ UNCHANGED <<bundled, present, target, temp, backups, menu, snapshot, late, worker, intruded>>

DriveMoves(b) ==
  /\ b \in Removable
  /\ present' = IF b \in present THEN present \ {b} ELSE present \cup {b}
  /\ UNCHANGED <<bundled, files, menu, snapshot, late, worker, intruded>>

Next ==
  \/ MenuWillOpen \/ MenuRendered \/ MenuDismissed \/ RefreshTimer
  \/ \E ctx \in Bottles \cup {Automatic} : ChooseBottle(ctx)
  \/ \E w \in Workers : StartInstall(w) \/ StartUninstall(w) \/ WorkerStep(w)
  \/ Restart
  \/ \E b \in Bottles :
       \/ OthersDropOverride(b) \/ DriveMoves(b)
       \/ \E content \in Foreign \cup {None} : OthersWrite(b, content)

Spec == Init /\ [][Next]_vars

-----------------------------------------------------------------------------
(* Properties *)

\* The installer never has a thread beside another one: two would share the
\* temporary file and undo each other's work.  Only the snapshot keeps them
\* apart, and the main thread refreshes that snapshot as well.
OneOperationAtATime == Cardinality({w \in Workers : worker[w] # Idle}) <= 1

\* A DLL that the installation replaces is kept under crosspuck-backups, also
\* by an installation that repeats an interrupted one.  Only a DLL that
\* someone put there between the backup and the rename is lost.
ReplacedDriverKept ==
  [][\A b \in Bottles :
       (target[b] \in Foreign /\ target'[b] = Embedded)
         => (intruded \/ target[b] \in backups[b])]_vars

\* What an open menu offers is about the selected bottle, the one that the
\* operation will work on, although an operation for an earlier selection may
\* have published its own status since the menu was last open.  The exception
\* is one that ends while the menu opens, between its refresh and its rendering.
ActsOnShownSelection ==
  screen = "open" /\ (AllowsInstall(view) \/ AllowsUninstall(view))
    => late \/ (view.kind = "Status" /\ view.ctx = chosen)
=============================================================================
