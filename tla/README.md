# CrossPuck in TLA+

CrossPuck lets a Steam that runs inside CrossOver use a Steam Controller Puck
plugged into the Mac. A driver DLL inside Steam's process (the *guest*) hooks
SDL, SetupAPI and HID calls and answers them with virtual devices; a menu-bar
application (the *host*) owns the real device and serves the guest over two
TCP connections of the loopback interface, one for commands and one for input
reports. This directory models both, checks the models with TLC, and proves the
safety of most of their components with TLAPS.

Paths below are relative to `src/crates/`. `core`, `app` and `driver` stand for
`crosspuck-core/src`, `crosspuck-app/src` and `crosspuck-driver/src`.

## 1. Inventory

| component | state | operations | what is hard about it | what makes it correct |
|---|---|---|---|---|
| **Guest connection runtime** `core/guest_driver/runtime.rs` | one mutex over the published bridge, identity, catalog, retired list, worker/stop/connecting flags, epoch, retry schedule; an atomic device generation; a condition variable | `with_bridge`, `clear_bridge`, `clear_bridge_if_current`, `ensure_connected`, `run_connection_worker`, `stop_connection_worker` | Steam's threads borrow a bridge while the worker retires it; attempts are answered late; shutdown waits without a timeout | only the worker joins a bridge's threads; what is published is coherent; shutdown leaves nothing behind |
| **Rescan hook** `driver/connectivity.rs`, `driver/windows/sdl.rs` | none of its own: native count + generation | hooked change count, hooked enumeration | polling without a lock; a wrapping sum | SDL never misses a change |
| **Virtual handles** `core/guest_driver/handles.rs`, `driver/windows/kernel32.rs`, `sdl.rs` | one table of open ids, two lists of sentinels, each behind a mutex of its own | open, serve, close, by file handle and by SDL device | every open of a collection returns the same value; an open takes four locks in turn; handles outlive sessions | a handle held is served; none leaks; none reaches a library that does not know it |
| **SDL enumeration and device calls** `driver/windows/sdl.rs` | the registry of lists the driver allocated | augment a list, free a list, device calls | two allocators, addresses that are used again | each list goes back to the allocator it came from |
| **SetupAPI and HID hooks** `driver/windows/setupapi.rs`, `hidd.rs`, `hidp.rs` | synthetic device nodes | enumerate, ask for a size, fetch, open, ask about a handle | each call sees the catalog of its own moment | what a walk lists is whole; all calls mean the same collection |
| **Virtual HID profiles** `core/guest_driver/profile.rs`, `routing.rs` | none: the catalog is made from an identity | catalog, paths, identifiers, which queries are answered | a dozen texts that must agree | a path reads back as its collection, in any session of the controller |
| **HostBridge commands** `core/guest_driver/bridge.rs` | command queue, running flag, error counters, the worker's control stream | feature requests (blocking), feedback (queued), worker, Drop | a worker that dies between a caller's check and its enqueue | nobody blocks for ever; old feedback only is lost; failures are noticed |
| **HostBridge input** same file | bounded input queue, preferred wireless interface, counters | pump, pop, route update, Drop | several readers over one queue, a route that changes | input never goes back in time; wireless input waits for its interface |
| **Session handshake** `core/guest.rs`, `app/runtime.rs` | session ids, two listener backlogs, deadlines on both sides | Hello, HelloOk, Identity, InputAttach | timeouts of one side race answers of the other; abandoned connections stay in a backlog | streams of one session belong together; the pair connects again |
| **Host service** `app/runtime.rs`, `app/hid_backend.rs` | stop and reconnect flags, session stage, input thread, device handles, shown state | accept, open, serve, input thread, cleanup, Force Reconnect, shutdown | device loss, a failing half of a session, requests left over | the main device's feedback stops, one reader, every request and exit takes effect |
| **Audio service** `app/audio/mod.rs` | atomics for switch, revision and stop; park token; helper process; lossy channel | `set_enabled`, `shutdown`, `supervise`, the reader thread | no lock around the decision to sleep | no lost wake-up; Off means no helper |
| **HID input reader and backend** `app/hid_backend.rs` | a shared main handle, a cache of others, one reader per collection with its error clock | command with retries, refresh, read, reopen, give up | paths that die; openings that fail; handles that open but do not read | a present collection is reached; patience lasts its grace and no longer |
| **Control exchange, input stream, framing** `core/guest.rs`, `core/transport`, `core/protocol`, `app/runtime.rs` | request id, partial frames, bytes on the way | request/answer, input report, read/write frame | late answers, timeouts inside a frame that are tolerated | answers belong to their request; nothing follows a gap; a session ends as a whole |
| **Payloads** `core/protocol/{frame,codec,payload,status}.rs` | none | encode and decode sixteen messages | two hand-written halves, an optional tail for older peers | every message survives the round trip |
| **Driver installation** `app/driver_install.rs`, `app/main.rs` | files in a bottle, the selected bottle, the menu's snapshot, one thread | check, install, remove, choose a bottle, menu and timer | a crash between two steps; a thread that reports on a bottle no longer selected | one operation at a time, on the bottle shown; a replaced DLL is kept |
| **Bottle configuration** `app/bottle_config.rs` | a text file that CrossOver edits too | parse, edit, save | no common lock; ambiguous files | edits touch one list only; observed edits of others survive |
| User activity, settings and menu glue, updates, logging, CLI, DllMain and detours, the Core Audio router | - | - | thin glue, pure mappings, or frameworks | - |

Interactions. Steam's threads call `with_bridge`; the runtime's worker creates
a `HostBridge` with `GuestTransportClient::connect`, which is the guest half of
the handshake; the bridge's error counters are what the worker polls for health;
a caller's disconnecting error calls `clear_bridge_if_current`; every
publication and retirement advances the generation that SDL's hooked counter
adds to its own; SDL then enumerates, SetupAPI is walked, and Steam's threads
open what they found, each call against the catalog of its own moment. On the host the supervisor thread is the other half of the
handshake, then the control loop; its input thread and the control loop share
one flag and the devices of the backend. The audio service shares nothing with the rest but the menu.

## 2. Modules

| module | models | interface to the others |
|---|---|---|
| `GuestConnection` | the connection runtime | a bridge is an opaque session with a health bit |
| `SessionLease` | what that runtime promises: sessions are offered one at a time, borrowed, withdrawn, and ended when nobody borrows them | `GuestConnection!Lease` is the refinement mapping |
| `ReconnectPacing` | `GuestConnection` with two history variables, for pacing and progress | |
| `HidProfiles` | the catalog, paths and identifiers, and the identities a host sends; operators only | |
| `VirtualHandles` | the handle table and both lists of sentinels, used by any threads | extends `SessionLease`, which `GuestConnection` implements |
| `HidCalls`, `SetupApi` | what every hooked call answers for its argument and the catalog; operators only | |
| `SteamSurface` | `VirtualHandles` with SDL's polling, enumeration and freeing, and a SetupAPI walk (the loops are external, the answers the driver's) | |
| `HostBridge` | what the two halves of a `HostBridge` share: the running flag and who owns the bridge | extended by both halves |
| `CommandService` | what the command path promises: commands accepted, served one at a time, oldest first, outcomes told to who asked | `CommandQueue!Service` is the refinement mapping |
| `CommandQueue`, `InputQueue` | the two halves of `HostBridge` | a failure here is `BridgeFails` or a disconnecting `EndCall` of `GuestConnection` |
| `SessionHandshake` | guest and host pairing two connections | a fruitful run of it is `ConnectOk` there, any other `ConnectFail` |
| `HidBackend` | how the host reaches the controller: shared and cached handles, retries, readers | extended by `HostSession` |
| `HostSession` | the host's threads around a session and the device | `AcceptControl .. Attach` abstract the handshake |
| `FrameStream` | frames on a byte stream, operators only | |
| `ControlExchange` | one session's requests and answers, `FrameStream` at both ends | an ended exchange is `Process("disconnect")` of `CommandQueue` |
| `InputStream` | one session's input reports over a `FrameStream` | a report read is `PumpReport` of `InputQueue`, the end `PumpError` |
| `SessionStreams` | `ControlExchange` beside `InputStream`, with the two running flags and the health check by which the end of one thread ends the others | what the bytes say is `Payloads` |
| `Payloads` | headers and payloads, an encoder and a decoder for each message; operators only | |
| `AudioSupervisor` | the audio service | |
| `DriverInstall` | status, installation and removal of the driver with the menu around them | |
| `BottleConfig` | the edit of `cxbottle.conf` against CrossOver's edits | |
| `Filtering` | `Iterator::filter` as a recursive function; operators only | used by `BottleConfig` and `SteamSurface` |
| `MC*` | instances for TLC | |
| `GuestConnectionProofs`, `SessionHandshakeProofs`, `HostSessionProofs`, `SessionStreamsProofs` | the theorems about the module of that name | the first one also about `ReconnectPacing` |
| `SteamSurfaceProofs` | the theorems about `VirtualHandles` and `SteamSurface` | |
| `HostBridgeProofs` | the theorems about `CommandQueue` and `InputQueue` | |
| `MenuApplicationProofs` | the theorems about `AudioSupervisor`, `DriverInstall` and `BottleConfig` | |
| `SequenceLemmas` | lemmas about sequences from which entries are taken out or that are built up entry by entry, used by the proofs about handles, queues, readers, ignore lists and augmented lists | |

State and actions carry the names of the code (`bridge`, `retired`,
`retire_bridge` as `RetireBridge`, ...). An action is one critical section of a
mutex, or one step of a thread between two points where another thread can
intervene; a blocking call is a program counter at which the thread stays. The
mapping to lines is in `PROJECT.json`.

Operators introduced by "Fault:" are not part of the model. Each is a plausible
bug of the definition after it, kept to show that a property would notice it.

Details worth knowing when reading the modules:

* `GuestConnection`. `Iteration` is the worker's loop body from its head to the
  first unlock: collecting unreferenced retired bridges, retiring on stop or on
  bad health, and the decision to connect or wait. References (`Arc`) are the
  published slot, the retired list, a worker's cleanup vector and the callers'
  `held`; `Release` computes whether a caller's drop was the last one, and then
  records `joinedByCaller`, which must never happen. The condition variable is
  exact for stoppers (`notify_one` may wake a stopper, the worker or nobody);
  the worker's wait is timed, so it may always go on. `route` stands for the
  interface number that a call computed from the catalog under the lock.
* `CommandQueue`. The double check of `running` is two actions. `Process` has
  three outcomes: answered, answered with an error status, transport failure.
  A command accepted after the transport failed but before the flag fell is one
  `CommandService` accepts and then refuses (`GiveUp`); it is never sent.
* `InputQueue`. A report is its source and a sequence number; `Matching` is the
  search of `pop_input_report` with its exact and routed passes.
* `SessionHandshake`. Time is in ticks and passes only while both processes
  wait. TCP connect and the first frame are one step, as the frame is written
  at once into a fresh connection; a connection in a backlog remembers the id of
  its InputAttach and whether its guest is still there. One guest is modelled.
* `HostSession`. Frames and commands are one step each; collections come and
  go. A failed `Hello` read, device open or attachment goes back to the
  accept loop. A session whose main reader failed to open keeps the wireless
  ones, and is not ended while only the main collection is missing. A command
  may start feedback through any interface; `feedback` is the set of those that
  rumble in reach, without having gone or refused the last word since, and
  `cleanup_feedback` takes the main one out.
* `HidBackend`. A collection is one macOS registry entry, whose path dies when it
  is detached, so a handle is good or stale; remembering the path only saves an
  enumeration and is no variable. A good handle may still refuse, and the
  enumeration or the opening of a collection may fail although it is there
  (`MayOpen`): then a command to a wireless interface ends at once, the main
  device keeps its old handle, and a reader keeps the time of its first error.
  `refused` and `denied` are history variables that tell the properties of such
  failures. Enumerating,
  opening and storing handles is one step of the host. A reader's time is made
  of its own failing reads and of the input thread's blocked writes; the count
  of errors is kept modulo `ReopenEvery`. The first error's time is read before
  the handle is reopened, so a reader may give up at the end of its grace just
  after a reopening. A wireless reader that gave up is gone for the session.
* `VirtualHandles`. An open is four steps: is the path ours, is it in the
  catalog, take an id, put a sentinel in the list; anything may happen in
  between, a change of session included. File functions check the sentinel and
  act on it in two looks; the second is left out, as only a thread that uses a
  handle which another one closes meanwhile could tell.
* `SteamSurface`. Handles, SDL's detection and the SetupAPI walk share only the
  connection runtime's state and none of them writes it: `part` says which one
  an instance of the run follows, so that their states add up instead of
  multiplying.
* `HidProfiles`, `HidCalls`, `SetupApi`. A path is the record of the tokens that
  the code looks for. Texts are opaque except the length of a serial number,
  from which sizes are asked. Product ids are those of the known profiles.
* `Payloads`. Encoders and decoders are translated apart. Numbers of one or two
  bytes are numbers, wider ones and texts are byte sequences in the order of
  the wire. Whether a text is valid UTF-8, and the limit of 65,535 bytes of a
  field, are left out. The frame queue of `core/protocol/queue.rs` is not used
  by the program.
* `AudioSupervisor`. Durations are left open: a delay is in force or over, a
  silence may be judged too long at any time. Everything else (the order of the
  reads, of the status changes and of the wake-ups) is as in the code.
* `FrameStream`. A byte is its frame, that frame's length and its place. A
  header is accepted if its first byte is the first byte of a frame, which is
  what the magic number tells. The bytes of one `write_all` arrive together;
  header and payload may be any time apart.
* `DriverInstall`. The thread takes one step per file operation. The menu is
  not validated by AppKit (`setAutoenablesItems(false)`), and the refresh timer
  runs in the default mode of the run loop, so an open menu shows what was
  rendered when it opened. The refresh of the status and the rendering hold the
  snapshot's lock one after the other, and the thread may publish in between;
  so they are two steps, `MenuWillOpen` and `MenuRendered`. `CrossOver`'s `regedit` is one step that succeeds or
  fails.
* `BottleConfig`. A line is what the parser makes of it. White space, quoting,
  comments and line ends, which the code copies, are left out; whether a change
  of the file is visible in its metadata is not, every write gives a new version.

## 3. Runs

Sizes are distinct states. All runs are exhaustive for their constants.

| run | states | shows |
|---|---|---|
| `guest_connection_safety` | 150,000 (symmetric) | 2 sessions, 2 callers, 2 attach threads, 1 stopper, fallback allowed: ownership, coherence, refinement of `SessionLease`, and the inductive invariant |
| `guest_connection_progress` | 93,000 | shutdown returns, retired bridges are joined, unhealthy ones are withdrawn, attempts go on; requests cannot shorten the interval, overtaken attempts publish nothing |
| `steam_surface` | 230,000 | handles never leak and are served while held, nothing of the driver's reaches a library; SDL's picture is the driver's whenever it believes so, and catches up; a SetupAPI walk is whole; all identifiers agree |
| `command_queue` | 348,000 | no orphaned caller, only old feedback lost, failures reported, callers return, Drop terminates; refinement of `CommandService` |
| `input_queue` | 237,000 | no stale input, held wireless input |
| `handshake` | 48,000 | the streams of a session are one attempt's; a guest that believes in its session is served; the pair reconnects after slow opens, crashes and restarts |
| `handshake_late_attach` | violated | see Findings |
| `host_session` | 452,000 | the main device's feedback ends with its session; a present collection is reached within the attempts; no reader gives up early; a reconnect ends the session it was asked for; whatever should end a session or the service ends it |
| `audio_supervisor` | 212,000 | no lost wake-up, honest Off, the switch works |
| `session_streams` | 168,000 | commands run in sequence, answers belong to their requests, no report is delivered behind a gap, the four threads end together, and every payload survives encoding |
| `driver_install` | 2,325,000 | one operation at a time, on the bottle shown; what it replaces is kept |
| `bottle_config` | 1,310,000 | every small file is edited surgically, observed edits survive |

Why the bounds are enough. The runtime publishes one session at a time, so two
sessions give every "old one still borrowed, new one published or discarded"
case; two callers give a failing call that races another borrower of the same
or of the other bridge; two attach threads give the double start; the progress
run has two stoppers, so that one can be woken for the other. `MaxEpoch`
bounds explicit clears only. `GenerationModulus` 4 makes the counter wrap.
Five commands of two callers against a backlog of two let a feature request
queue up behind a full backlog, or the backlog overflow, while the other caller
sits between its two checks. One fault of each kind is enough to put host and
guest out of step in every way a later attempt could meet; only a restart of the
host during a suspension of the guest breaks `StreamsOfOneAttempt`, which says
so: the new process numbers its sessions from 1 again, and the guest attaches
with an id of the old one. Two
threads, two opens and two sessions of controllers with different collections
give every two opens, or an open and a close, of one collection around a change
of session; `GenerationModulus` and `CounterModulus` 8 exceed the changes two
sessions and one native change can make, as a counter that comes round to the
remembered value within one poll hides a change, which 2^32 steps do not. Two
attempts, a reopening every second error, and graces of 1, 2 and 2 ticks keep
the order of the real ones (main collection gone, read errors, wireless
disconnect). Two wireless
interfaces and a queue of three hold an older and a newer report of one source
and one of another; four reports overflow it. `MaxSessionId` 6 makes ids wrap
within a run. `Capacity` 1 of the audio channel loses lines; two uses of the
switch give off/on and on/off, each against every step of the supervisor.
A header of two bytes can be lost whole or in half. `ControlExchange` has a
payload that is shorter than a header, so that two timeouts can swallow a
request without a trace, and one that is longer; request ids wrap after two.
`InputStream` has a payload of exactly a header's length, the length at which a
payload taken for a header leaves the stream aligned. Two bottles tell the
selected one from the other; the drive of the Steam bottle comes and goes
(`Removable`), so that the automatic choice changes and a chosen bottle is
missed; one foreign DLL tells a replaced driver from the embedded one. Three lines hold a section header, a list and a second header
or list, or a line that is refused.

`CHECK_DEADLOCK FALSE` appears in every run, because each of these systems may
really stop: the guest runtime after shutdown with all sessions used up, a bridge after
Drop, the host after quitting, a session after its end, and Steam's threads
once all opens are used. The handshake runs may exhaust no budget that would stop them, but share
the convention. That nothing stops *early* is what the liveness properties are
for.

Fairness. Every thread that has something to do is scheduled (`WF` per thread),
and clocks advance. Nobody is obliged to begin a call, to answer, to fail, to
stop, to connect or to press a menu item. Blocking I/O of a thread returns
because the code sets a timeout on it: 2 s on the guest's handshake, 3 s on the
host's attachment, the control request timeout, 50 ms reads of the input pump.
In `steam_surface` a failed session is withdrawn, which `WorkerRecovers` of
`guest_connection_progress` shows of the runtime. Three strong fairness
assumptions go further:

* `SessionHandshake`, `PreambleFails`: writes to a closed peer may succeed into
  the socket buffer, but the peer answers with a reset, so not every one does.
* `AudioSupervisor`, `ReadEnd`: the pipe of a dead helper holds finitely much.
* `AudioSupervisor`, `Drained` and the last line: the helper (part of this
  repository) reports once a second and on changes, so its supervisor gets to
  the end of the channel. The drain loop itself has no other exit.

## 4. Proofs

Each `*Proofs` module states an inductive invariant as a conjunction of named
parts, proves that `Init` implies it, that every action preserves it (one lemma
or step per action, one step under it per part the action can disturb), and
derives the theorems. TLC agreed with each invariant on the run's instance
before it was proved.

| module | for all | theorems |
|---|---|---|
| `GuestConnectionProofs` | sessions, callers, workers, stoppers, intervals, moduli | `Invariance` (`IInv`), `OnlyWorkerDrops`, `JoinedIsUnreachable`, `RouteIsSessions`, `StoppedIsJoined`, `AdvertisesCurrent`, `GenerationTracks`, `NoLate`, `ImplementsLease` (refinement of `SessionLease`), `Paced` (`AttemptsPaced`), `OvertakenDiscarded` |
| `SteamSurfaceProofs` | threads, sessions, identities, collections, paths, opens, lists | `HandlesNeverLeak` (`HandlesAccounted`), `HeldIsServed`, `NothingEscapes` (`FakesStayInside`), `NothingMissed` (`NoMissedChange`), `WalksWhole` (`WalkIsWhole`), `NamesAgree` (`IdentifiersAgree`) |
| `HostBridgeProofs` | callers, interfaces, capacities, commands, reports | `NobodyOrphaned`, `FailuresReported`, `OnlyOldDropped`, `ImplementsService` (refinement of `CommandService`), `InputNeverGoesBack` (`NoStaleInputLeft`), `InputWaitsForItsInterface` (`WirelessInputHeld`) |
| `SessionHandshakeProofs` | timeouts, range of session ids, faults | `BelievesRightly` (`GuestAttachedIsServed`), `OneAttemptUntilIdsWrap` (`StreamsOfOneAttempt`) |
| `HostSessionProofs` | attempts, cadence of reopening, graces, faults | `FeedbackEnds`, `DeviceReached` (`PresentDeviceIsReached`), `Patient` (`PatientWithOutages`), `ReconnectInItsSession` |
| `SessionStreamsProofs` | lengths of headers and payloads, range of request ids, requests, reports | `InSequence` (`StreamsInSequence`), `AnswersBelong` (`AnswerBelongsToRequest`) |
| `MenuApplicationProofs` | channel capacity, uses of the switch; bottles, foreign drivers, threads; lines of a configuration, lengths of its lists | `NoWakeLost`, `OffIsHonest`, `NeverTwoOperations`, `MenuIsOfSelection`, `NoDriverLost`, `EverySurgical` (`EditIsSurgical`), `NoEditLost` (`ObservedEditsKept`) |

Assumptions on constants are the named `ASSUME`s of the modules, evaluated by
every run: `NoBridge` and the fallback catalog are not sessions; intervals,
capacities and bounds are natural numbers, a capacity not 0; the modulus of the
generation is at least 2 (a counter modulo 1 never changes, and
`GenerationTracks` would be false); the digest of a foreign DLL is not that of
the embedded one nor of a partial copy (the code tells them apart by it); a
header has bytes, no request or answer has an empty payload (each has fixed
fields) and a report's is no shorter than a header; the graces are ordered as in the code; the
length of a serial and of a list of SDL's is a number; an identity is one that
the host's `hid.rs` can make (`HostIdentity`): a known product with at least one
collection, a puck's each at the interface that its role has there, only the main
one of a directly connected controller. Without the last, `NamesAgree` is false:
a path names an interface, and two sessions of one product could put different
collections there.

Two hypotheses are no `ASSUME`s. `IdsLeft` of `OneAttemptUntilIdsWrap` is about a
behaviour, see `SessionHandshake` below. `ChangesFit`, which only `NothingMissed`
and `WalksWhole` need, says that the sessions of one driver are finitely many and
that neither the device generation nor SDL's change count comes around while it
lives. Each session is offered once and withdrawn once, and both counters have 32
bits. The run's instance satisfies it. A count that comes around exactly between
two polls looks unchanged, so the theorems need it.

Why the safety properties need strengthening, module by module.

`GuestConnection`. A caller's release is
harmless because the published slot or the retired list still holds its bridge;
that is so because the worker collects only unreferenced bridges and retires
before it discards; and that helps because there is one worker. `IInv` has one
named part per idea:

* `WorkerInv`: at most one active worker, flagged by `workerRunning`; it connects
  only while nothing is published and leaves only when nothing is retained.
* `OwnerInv`: every live bridge is in exactly one of slot, retired list, cleanup.
* `BorrowInv`: a clone exists only during a call and has an owner besides.
* `CatalogInv`: the catalog is the published session's, and none's without one.
* `StopInv`: stoppers wait only after the flag, return only after the worker.

`OwnerInv` needs `WorkerInv` (a late success is appended while the worker still
runs), `BorrowInv` needs `OwnerInv` (what is collected is in no caller's hands),
and `StoppedIsJoined` needs `StopInv`, `OwnerInv` and the last two conjuncts of
`WorkerInv`. The refinement maps each action to `Offer`, `Discard`, `Withdraw`,
`Borrow`, `Return`, `End`, `Close` or a stutter. Theorems without a run of their
own follow from `IInv`, which the run checks.

`ReconnectPacing`. `PacingInv`: the wait that is owed is covered by the retry
schedule, and once an attempt has been overtaken, whoever is still in it will
find the stop flag or an epoch newer than the one it remembers. It needs
`AttemptInv` (an attempt in progress is flagged, no epoch remembered is ahead) and
`IInv`.

`VirtualHandles`. `HandlesAccounted` says that open ids, sentinels and open
counts agree. It is not inductive: what a thread is about to put into a list
must be a profile (`HandlesType`), the hand it puts the value into must be empty
(`HandsFree`), and holders must be finitely many before they are counted
(`FewHolders`). `SequenceLemmas` says what `RemoveAt` leaves and how it changes
the number of entries of a kind: closing takes *an* entry of the value, not the
closer's own.

`SteamSurface`. Three invariants, one for each of its parts. `ScanInv` says whose
memory a list of SDL's is while it passes the driver. `PollInv`: the count is some
number of changes past the one SDL remembers, and if that number is 0 then what
SDL has is what it would find now (or the session has failed and is still on
offer); `OfferInv` bounds the number by the sessions used up. A walk's rows so far
are those of a walk that no change has overtaken, and the room it has promised is
none or exactly that of the answer (`WalkShape`, `WalkSoFar`).
`IdentifiersAgree` is about data. A descriptor is determined by its profile and,
in a puck, so is its interface (`Describes`, `HostCatalog`), so every exact
match of a path is of one profile, and the lenient reading finds that one or one
that is not on offer (`PathMeans`). `AugmentMeans` follows each place of an
augmented list back to a native device or to a descriptor that `Without` kept.

`CommandQueue`. `RunInv` ties the flag to the worker's place: once it has
drained the queue, no caller that passed the second check can still be there.
`WaitInv`: each queued request has a waiting caller, and a caller has one request.
`BacklogInv`: the queue is a subsequence of the log of accepted commands in its
order, so that what a full backlog drops is older than the capacity's worth
behind it.

`CommandQueue` implements `CommandService`. The service has no queue: what waits
is a set of numbers (`Numbers`), and the blocked callers are a function to the
number each one waits for (`Asks`). That function is not in the code; it is read
off the requests that are queued or in the worker's hands, and `WaitInv` makes it
well defined. `HandInv` adds that the command in hand is older than all that is
queued, so that no other caller's number is mistaken for it. Each step of the
queue is then one of the service or a stutter: the first check of the flag, a
refused call and the worker's loop are stutters, the fall of the flag is `Close`,
the drain `GiveUp`, and the exit of the worker of a dropped bridge `Retire`.

`InputQueue`. `InputInv`: the queue is in the order of arrival, nothing queued or
delivered is newer than the last report pushed, and what a read finds for an
interface is everything its source still has there. Hence taking from the middle
of the queue, which the preferred wireless interface causes, returns no report
behind a newer one of its source.

`SessionHandshake`. At most one connection of each backlog is of the attempt in
progress, the newest control one and the only input one with its id, and it is
unanswered (`ControlInv`, `InputInv`); an answer in the socket means that the
host serves that stream, or that the end is behind it. `BelievesRightly` holds for
ids that wrap. `StreamsOfOneAttempt` does not: with fewer ids than connections in
the backlog a reused id pairs two attempts. `OneAttemptUntilIdsWrap` therefore
has the hypothesis `[]IdsLeft`, that the host does not reach the last of its
2^32 - 1 ids. `FreshInv`: ids are handed out before they are on a connection
(`IdsInv`), so an input connection with the id of a session whose guest lives is
that guest's (`PairInv`). After a restart the ids start again; what keeps old
ones out then is time: a guest that has an id and is about to attach does not
wait, so, unless it is suspended, it fails before the new process listens.

`HostSession`. `HostInv`: the input thread lives as long as the attached session
(`ThreadInv`); while the main device rumbles in reach, a session has a live handle
on it (`FeedbackInv`: without the handle, the session's last word might miss it); a
reconnect request that a session can see was made after its Hello (`RequestInv`);
while its collection stays a command wastes at most its first attempt, and every
other one met a refusal, of a live handle or of a new one (`CommandInv`); a reader
without a denied reopening and with a live handle has no errors open, and one with
errors has been without for as long as they are old (`ReadersInv`).

`SessionStreams`. `ExchangeInv`: the bytes of the current request are one part of
its frame, split between what the host holds and what is on the way; or the host
is answering it; or it has been served and nothing of it is left (`Pending`,
`Answering`, `Served`). A read that times out within a frame loses bytes, and then
what is lost includes the header (`OnItsWay`), so the rest is never taken for a
request. `ReportInv` says the same of the input stream: the pump is in step, or it
has lost a header and reads a payload that does not decode until the stream ends.
A payload that could be shorter than a header would let the next frame complete
the one that was cut.

`AudioSupervisor`. For each place where the supervisor decides or sleeps, what it
has not seen is covered by a token or by a thread that is about to give one:
`StopSeen`, `SwitchSeen`, `OutputSeen`; `ThreadsInv` ties helper and reader to
that place.

`DriverInstall`. `AloneInv`: whoever works is alone, because the snapshot says
`Installing` for as long. `KeptInv`: from the backup to the rename the target is
a backed up DLL, unless somebody replaced it meanwhile. `OpeningInv`: while the menu
opens, the snapshot is what its refresh left there, unless an operation has ended
since; rendering makes `ActsOnShownSelection` of it.

`BottleConfig`. `EditInv`: what was read before the edit was parsed, and after the
last look the file is what was read, unless CrossOver wrote since. That the edit
is surgical is a fact about `UpdateConfig`, `EveryEdit`. A list is filtered by a
recursive function, and the prover has no rule of induction that it could
instantiate; `CountingUp` and `AppendingReaches` of `SequenceLemmas` replace it: a
set with 0 (with the empty sequence) that is not left by counting (by appending)
has every number (every sequence). `WithoutOneMore` unfolds the filter once, and
the sets of the sequences for which a fact holds do the rest. For lines that are
inserted, `Spliced` says where each line of the old file is in the new one.

Only model-checked: all liveness, and `PayloadsRoundTrip`. Liveness under fairness
and `ENABLED` are out of the prover's reach. `PayloadsRoundTrip` is about data, not
states: encoding and decoding are folds over the fields of a message, and what a fold
computes for every message needs an induction the provers cannot instantiate. The
run evaluates it for the messages of its instance.

## 5. Findings

**A suspended guest puts host and guest one attempt out of step for ever**
(`handshake_late_attach`). The README promises that starting or restarting
CrossPuck while Steam runs reconnects the controller. The host takes the oldest
connection of its input listener for whichever session waits, and does not
empty that backlog when an attachment times out. If the guest is suspended once
between HelloOk and its input connection for longer than the host's attach
timeout, that late connection stays in the backlog. Every following session
accepts its predecessor's connection, refuses it as a mismatch and drops its
control stream, while its own input connection waits in the backlog for the
session after it. `ReconnectsUnlessStalled` of the run `handshake` shows the
promise kept by every other fault. The abandonment is safe
(`StreamsOfOneAttempt`): no session mixes two attempts.

## 6. Not modelled

* The Core Audio router, DllMain and the detours, AppKit and Sparkle glue,
  logging and probes: they configure frameworks, whose behaviour decides what
  comes of it, and the repository does not define it.
* User activity: a rate limit in one object that one thread uses; nothing
  interleaves with it.
* The command line tools: sequential clients of the same library.
* Byte layouts of Windows and SDL structures, of preparsed data and of reports:
  tables without state.
* The choice of a connection mode and the reading of the identity in
  `app/hid_backend.rs`: one mode, one controller.

* A fake SDL pointer that was closed and is used again goes to SDL's own
  function, and `HidP_GetUsageValue` refuses a null output: both are left to the
  caller's contract.

Assumed: `host_bridge_enabled` is true (otherwise `run_connection_worker`
returns at once); mutexes are not poisoned; one guest at a time; the host's
overrides other than the reconnect interval and the fallback are data; the
system supports the audio service and its supervisor can be spawned; an
enumeration of HID devices that succeeds and shows no controller means that no
collection of it is attached.

Hazards that no property covers, and why:

* The input queue overflows when Steam does not read, and reports vanish without
  being counted (`bridge.rs:695`): the model has the step; the repository
  promises nothing about it.
* Every successful reopen forgets when the errors began (`hid_backend.rs:850`),
  so a handle that opens and never reads keeps its session: the code sets no
  limit for that.
* A wireless reader that gave up is not opened again within the session
  (`hid_backend.rs:739`), although its collection may come back.

Limits of the code that the models have, and that no text of the repository
denies. The properties name them as their exceptions:

* Feedback that was started through a wireless interface (`hid_backend.rs:319`)
  outlasts its session: `cleanup_feedback` (`hid_backend.rs:536`) tells only the
  main device to stop. `FeedbackEndsWithSession` is about the main device.
* A wireless interface that is there but cannot be opened ends its command
  without another attempt (the `?` at `hid_backend.rs:411`, 632 and 672): the
  last case of `PresentDeviceIsReached`.
* A reader whose reopening fails keeps the time of its first error
  (`hid_backend.rs:845`). If its controller goes away after that, the errors
  from before count, and the session may end at once instead of two seconds
  later: `PatientWithOutages` leaves out readers that were `denied`.
* An operation that ends between `refresh_status` and `menu_view` of an opening
  menu (`main.rs:145`, 1047) publishes the status of its own bottle, or that it
  failed, into that menu, which offers an action on the selected bottle: the
  exception of `ActsOnShownSelection` (`late`). Choosing the item then acts on
  the selected bottle; the next time the menu opens it is right again.

What could be added: `SessionHandshake` composed with the stages of
`HostSession`.
