----------------------------- MODULE SteamSurface -----------------------------
(***************************************************************************)
(* The connection runtime as Steam meets it: SDL polls                     *)
(* SDL_hid_device_change_count, which the driver hooks to add its device   *)
(* generation to the native count, enumerates again when the count it      *)
(* remembers differs, and gives the list back; another part of Steam walks *)
(* a SetupAPI device set; and threads open, use and close what they found. *)
(* SDL's loop and the walk's are external; every answer is the driver's.   *)
(*                                                                         *)
(* The three parts share no state but the connection runtime's, and none   *)
(* of them writes that: "part" says which one an instance follows, so that *)
(* TLC adds up their states and need not multiply them.                    *)
(***************************************************************************)
EXTENDS VirtualHandles, HidCalls, SetupApi, Filtering

CONSTANTS
  Identities,     \* identities of controllers, those of the sessions among them
  NativeLists,    \* what SDL's own enumeration may find: sequences of paths
  CounterModulus, \* the change count is a u32: 2^32 in the program
  InitialNative,  \* native counts at load time
  MaxNative       \* bound on the native device changes modelled

ASSUME CounterAssumption ==
  /\ CounterModulus \in Nat /\ CounterModulus > 1
  /\ InitialNative \subseteq 0 .. CounterModulus - 1
  /\ MaxNative \in Nat
ASSUME IdentitiesAssumption == \A identity \in Identities : HostIdentity(identity)
ASSUME ListsAssumption == \A list \in NativeLists : Len(list) \in Nat
ASSUME SerialAssumption == \A s \in Sessions : Len(IdentityOf[s].serial) \in Nat

VARIABLES
  part,          \* "handles", "detection" or "walk"
  native,        \* the devices and the count SDL's own functions report
  nativeChanges, \* how often they changed, for MaxNative
  knownCount,    \* the count SDL remembers
  scan,          \* where SDL is in its enumeration, and the list it has
  view,          \* the devices as SDL last saw them
  blocks,        \* the list heads: who allocated what is there now
  augmented,     \* SDL_AUGMENTED_ENUMERATIONS
  walk,          \* a SetupAPI walk
  devinsts       \* VIRTUAL_DEVINSTS: the collections remembered there

sdlVars     == <<native, nativeChanges, knownCount, scan, view, blocks, augmented>>
walkVars    == <<walk, devinsts>>
surfaceVars == <<vars, handleVars, part, sdlVars, walkVars>>

Catalog == IF Advertised = NoSession THEN NoCatalog ELSE CatalogOf(Advertised)

-----------------------------------------------------------------------------
(* sdl_enumeration.rs: lists of SDL's devices with the driver's in them *)

\* OwnedNode::copy_native and OwnedNode::virtual_device.
NativeNode(path) == [path |-> path, profile |-> NoProfile]
VirtualNode(catalog, p) == [path |-> DevicePath(catalog, p), profile |-> p]

\* Fault: a native device that is the driver's too is listed beside it.
AugmentBeside(list, catalog) ==
  [i \in 1 .. Len(list) |-> NativeNode(list[i])]
  \o [i \in 1 .. Len(catalog.descriptors) |->
        VirtualNode(catalog, catalog.descriptors[i].profile)]

\* OwnedSdlEnumeration::augment: a native device that means a collection is
\* replaced in its place, and the collections not seen so follow.
Augment(list, catalog) ==
  LET means(i) == ProfileForPath(catalog, list[i])
      seen     == {means(i) : i \in 1 .. Len(list)}
      rest     == Without(catalog.descriptors,
                          {d \in ToSet(catalog.descriptors) : d.profile \in seen})
  IN  [i \in 1 .. Len(list) |-> IF means(i) = NoProfile THEN NativeNode(list[i])
                                ELSE VirtualNode(catalog, means(i))]
      \o [i \in 1 .. Len(rest) |-> VirtualNode(catalog, rest[i].profile)]

Untouched(list) == [i \in 1 .. Len(list) |-> NativeNode(list[i])]

\* What SDL_hid_enumerate returns for a query, given SDL's own list.
Enumerated(list, vid, pid, catalog) ==
  IF /\ QueryMayTarget(vid, pid)
     /\ catalog # NoCatalog
     /\ QueryAppendsSynthetic(vid, pid, catalog.identity)
    THEN Augment(list, catalog) ELSE Untouched(list)

-----------------------------------------------------------------------------
(* SDL's device detection *)

\* connectivity::device_change_count: original.wrapping_add(generation).
DeviceChangeCount == (native.count + generation) % CounterModulus

Heads == 1 .. 2
Null0 == 0
Free(h) == IF h = Null0 THEN blocks ELSE [blocks EXCEPT ![h] = "free"]

\* The hooked counter is read without the connection mutex.
PollChangeCount ==
  /\ scan.at = "rest"
  /\ DeviceChangeCount # knownCount
  /\ knownCount' = DeviceChangeCount
  /\ scan' = [scan EXCEPT !.at = "due"]
  /\ UNCHANGED <<native, nativeChanges, view, blocks, augmented>>

\* SDL_hid_enumerate, first part: SDL's own list, in memory of SDL's.
EnumerateNative ==
  /\ scan.at = "due"
  /\ IF native.list = <<>>
       THEN /\ scan' = [at |-> "native", head |-> Null0, list |-> <<>>]
            /\ UNCHANGED blocks
       ELSE \E h \in Heads :
              /\ blocks[h] = "free"
              /\ blocks' = [blocks EXCEPT ![h] = "sdl"]
              /\ scan' = [at |-> "native", head |-> h, list |-> native.list]
  /\ UNCHANGED <<native, nativeChanges, knownCount, view, augmented>>

\* Second part: the catalog of this later moment.  A list with additions is
\* the driver's own copy, noted in the registry; SDL's list goes back to SDL.
EnumerateVirtual ==
  /\ scan.at = "native"
  /\ LET found == Enumerated(scan.list, 0, 0, Catalog)
     IN  IF found = Untouched(scan.list)
           THEN /\ scan' = [scan EXCEPT !.at = "held", !.list = found]
                /\ UNCHANGED <<blocks, augmented>>
           ELSE \E h \in Heads :
                  /\ blocks[h] = "free"
                  /\ blocks' = [Free(scan.head) EXCEPT ![h] = "driver"]
                  /\ augmented' = augmented \cup {h}
                  /\ scan' = [at |-> "held", head |-> h, list |-> found]
  /\ UNCHANGED <<native, nativeChanges, knownCount, view>>

\* Fault: the registry keeps the entry of a list it has freed.
FreeEnumerationKept ==
  /\ scan.at = "held"
  /\ view' = scan.list
  /\ blocks' = Free(scan.head)
  /\ scan' = [at |-> "rest", head |-> Null0, list |-> <<>>]
  /\ UNCHANGED <<native, nativeChanges, knownCount, augmented>>

\* SDL has read the list and gives it back: SDL_hid_free_enumeration hands it
\* to the allocator the registry says it came from.
FreeEnumeration ==
  /\ scan.at = "held"
  /\ view' = scan.list
  /\ augmented' = augmented \ {scan.head}
  /\ blocks' = Free(scan.head)
  /\ scan' = [at |-> "rest", head |-> Null0, list |-> <<>>]
  /\ UNCHANGED <<native, nativeChanges, knownCount>>

\* Some other HID device arrives or leaves.
NativeChange ==
  /\ nativeChanges < MaxNative
  /\ \E list \in NativeLists :
       native' = [count |-> (native.count + 1) % CounterModulus, list |-> list]
  /\ nativeChanges' = nativeChanges + 1
  /\ UNCHANGED <<knownCount, scan, view, blocks, augmented>>

DetectionStep ==
  /\ part = "detection"
  /\ PollChangeCount \/ EnumerateNative \/ EnumerateVirtual \/ FreeEnumeration \/ NativeChange
  /\ UNCHANGED <<vars, handleVars, part, walkVars>>

-----------------------------------------------------------------------------
(* A SetupAPI walk: each collection is asked for something whose size is   *)
(* asked first                                                             *)

NoWalk == [at |-> "none"]
Questions == {"detail", "instance id", "hardware ids"}

\* Windows has no device set to give, and the query is one for HID devices.
StartWalk ==
  /\ walk = NoWalk
  /\ ClassDevs(Invalid, SetupQueryMayBeSynthetic(TRUE, TRUE), Catalog) = Synthetic
  /\ \E q \in Questions :
       walk' = [at |-> "listing", asks |-> q, since |-> generation, index |-> 0,
                profile |-> NoProfile, room |-> 0, listed |-> <<>>]
  /\ UNCHANGED devinsts

NextMember ==
  /\ walk.at = "listing"
  /\ LET a == EnumDeviceInterfaces(Synthetic, TRUE, walk.index, Catalog, TRUE)
         i == EnumDeviceInfo(Synthetic, walk.index, Catalog)
         m == IF walk.asks = "detail" THEN a ELSE i
     IN  IF m.status = "OK"
           THEN /\ walk' = [walk EXCEPT !.at = "asking", !.profile = m.value, !.room = 0]
                /\ devinsts' = IF walk.asks = "detail" THEN devinsts
                               ELSE devinsts \cup {m.value}
           ELSE walk' = [walk EXCEPT !.at = "done"] /\ UNCHANGED devinsts

\* The answer to the walk's question about its present member.
Ask(room) ==
  LET p == ProfileForDevInst(28, DevInst(walk.profile), devinsts)
      v == RegistryProperty(Catalog, p, "HARDWAREID")
  IN  CASE walk.asks = "detail" ->
             InterfaceDetail(Synthetic, InterfaceReserved(walk.profile), Catalog, room, 2)
        [] walk.asks = "instance id"  -> InstanceId(Synthetic, p, Catalog, room)
        [] walk.asks = "hardware ids" ->
             PropertyAnswer(Synthetic, p, v, EncodedList(HardwareIdLengths, 2), room)

\* A detail also writes and remembers the device instance, room or no room.
Remembered(a) ==
  IF walk.asks = "detail" /\ a.status # "NO_MORE_ITEMS" THEN devinsts \cup {walk.profile}
                                                        ELSE devinsts

\* Asked without room, and then with the room the first answer named, perhaps
\* of another session's catalog.
AskMember ==
  /\ walk.at = "asking"
  /\ LET a == Ask(walk.room)
         skip == [walk EXCEPT !.at = "listing", !.index = @ + 1, !.room = 0]
     IN  /\ walk' = IF a.status = "INSUFFICIENT_BUFFER" /\ walk.room = 0
                      THEN [walk EXCEPT !.room = a.required]
                    ELSE IF a.status # "OK" THEN skip
                    ELSE [skip EXCEPT !.listed =
                            Append(@, [profile |-> walk.profile, value |-> a.value,
                                       fits |-> a.required <= walk.room])]
         /\ devinsts' = Remembered(a)

WalkStep ==
  /\ part = "walk"
  /\ StartWalk \/ NextMember \/ AskMember
  /\ UNCHANGED <<vars, handleVars, part, sdlVars>>

-----------------------------------------------------------------------------

SurfaceInit ==
  /\ Init /\ HandlesInit
  /\ part \in {"handles", "detection", "walk"}
  /\ \E n \in InitialNative, list \in NativeLists :
       /\ part = "detection" \/ list = <<>>
       /\ native = [count |-> n, list |-> list]
  /\ nativeChanges = 0
  /\ knownCount = DeviceChangeCount
  /\ scan = [at |-> "due", head |-> Null0, list |-> <<>>]
  /\ view = <<>>
  /\ blocks = [h \in Heads |-> "free"]
  /\ augmented = {}
  /\ walk = NoWalk
  /\ devinsts = {}

\* The connection runtime's steps, and those of the threads with handles.
HandlesPart ==
  /\ HandlesNext
  /\ handleVars' # handleVars => part = "handles"
  /\ UNCHANGED <<part, sdlVars, walkVars>>

SurfaceNext == HandlesPart \/ DetectionStep \/ WalkStep

Surface == SurfaceInit /\ [][SurfaceNext]_surfaceVars

Unsound == Withdraw /\ UNCHANGED <<handleVars, part, sdlVars, walkVars>>

\* SDL's device loop keeps polling; a failed session is withdrawn, which the
\* connection runtime's own run shows it to be.
SurfaceFairness ==
  /\ WF_surfaceVars(DetectionStep /\ PollChangeCount)
  /\ WF_surfaceVars(DetectionStep /\ EnumerateNative)
  /\ WF_surfaceVars(DetectionStep /\ EnumerateVirtual)
  /\ WF_surfaceVars(DetectionStep /\ FreeEnumeration)
  /\ WF_surfaceVars(~sound /\ Unsound)

FairSurface == Surface /\ SurfaceFairness

-----------------------------------------------------------------------------
(* Properties *)

\* No change is missed: when SDL is at rest and the count is the one it
\* remembers, its picture is SDL's own devices and what the driver advertises,
\* unless the session on offer has failed and is not withdrawn yet.
NoMissedChange ==
  (part = "detection" /\ scan.at = "rest" /\ knownCount = DeviceChangeCount) =>
     \/ view = Enumerated(native.list, 0, 0, Catalog)
     \/ current # NoSession /\ ~sound

\* Starting or restarting the host while Steam runs is picked up: once the
\* driver settles on what it advertises, so does SDL's picture of it.
SteamCatchesUp ==
  \A s \in Sessions \cup {NoSession} :
    <>[](part = "detection" /\ Advertised = s) =>
      <>[](view = Enumerated(native.list, 0, 0, Catalog))

\* What a walk wants to know of a collection.
Wanted(catalog, p) ==
  CASE walk.asks = "detail"       -> DevicePath(catalog, p)
    [] walk.asks = "instance id"  -> DeviceInstanceId(catalog, p)
    [] walk.asks = "hardware ids" -> <<"list", HardwareIds(catalog, p)>>

\* A finished SetupAPI walk listed every collection of the catalog once, in
\* order and with its own identifiers, unless a change of the generation, or
\* the failure of the session, calls for another walk; and no answer was
\* written into less room than it takes, whatever session asked for the room.
WalkIsWhole ==
  walk # NoWalk =>
    /\ \A i \in 1 .. Len(walk.listed) : walk.listed[i].fits
    /\ (walk.at = "done" /\ walk.since = generation /\ sound) =>
         walk.listed = [i \in 1 .. Len(Catalog.descriptors) |->
                          LET p == Catalog.descriptors[i].profile
                          IN  [profile |-> p, value |-> Wanted(Catalog, p), fits |-> TRUE]]

OpenProfiles   == {p \in Profiles : ProfileOpen(p)}
ListedProfiles == {p \in Profiles : EntriesOf("sdl", p) # {}}

\* What a call with a handle may come back with at this moment.
FileAnswers(f, h, open) ==
  LET who     == OpenVirtualProfile(h, open)
      offered == ProfileForHandle(h) \in Offered(Catalog)
  IN  IF who # "driver" THEN {who}
      ELSE IF f \in LocalCalls THEN {"TRUE"}
      ELSE IF f \in IdentityCalls THEN {IdentityAnswer(Advertised # NoSession)}
      ELSE {ReportAnswer(f, offered, carried, report) : carried, report \in BOOLEAN}

SdlAnswers(f, h) ==
  LET offered == ProfileForHandle(h) \in Offered(Catalog)
  IN  IF SdlDevice(h, ListedProfiles) # "driver" THEN {"library"}
      ELSE {SdlAnswer(f, offered, carried, report) : carried, report \in BOOLEAN}

PointersStayInside ==
  \A f \in PointerCalls, p \in Profiles : PointerAnswer(f, FakePreparsed(p)) = Answers[f]

\* Nothing of the driver's reaches a library that would take it for its own: a
\* handle a thread holds is served, by file functions and by SDL, however other
\* threads open and close the same collection and sessions come and go, and
\* told when its controller is gone; a fake handle nobody has open is refused,
\* a fake pointer is the driver's always; and a list SDL gives back goes to
\* the allocator it came from.
FakesStayInside ==
  /\ part = "handles" =>
       LET open == OpenProfiles
       IN  /\ \A c \in Borrowers :
                /\ owned[c]["file"] # NoProfile => \A f \in FileCalls :
                     LET answers == FileAnswers(f, FakeHandle(owned[c]["file"]), open)
                     IN  /\ answers \cap {"library", "refused"} = {}
                         /\ (f \notin LocalCalls /\ ~sound) => answers = {"DEVICE_NOT_CONNECTED"}
                /\ owned[c]["sdl"] # NoProfile => \A f \in SdlCalls :
                     LET answers == SdlAnswers(f, FakeHandle(owned[c]["sdl"]))
                     IN  /\ "library" \notin answers
                         /\ (f # "SDL_hid_set_nonblocking" /\ ~sound) => answers = {"-1"}
           /\ \A p \in Profiles \ open, f \in FileCalls :
                FileAnswers(f, FakeHandle(p), open) = {"refused"}
  /\ PointersStayInside
  /\ augmented = {h \in Heads : blocks[h] = "driver"}

\* Entries of the two property tables that mean the same.
SameProperty ==
  {<<"DEVICEDESC", "DeviceDesc">>, <<"FRIENDLYNAME", "FriendlyName">>, <<"MFG", "Manufacturer">>,
   <<"SERVICE", "Service">>, <<"CLASS", "Class">>, <<"ENUMERATOR_NAME", "EnumeratorName">>,
   <<"HARDWAREID", "HardwareIds">>, <<"COMPATIBLEIDS", "CompatibleIds">>,
   <<"LOCATION_PATHS", "LocationPaths">>}

\* Whatever name Steam is given for a collection names that collection: its
\* path opens it, in its own session and, if anything, in another of the same
\* product; SDL's list, the registry, the device properties, the capabilities,
\* the fake handles and the interface number agree on it; and a device left
\* native in an augmented list opens natively.
NamesMeanOneCollection ==
  \A identity \in Identities :
    LET catalog == FromIdentity(identity, <<>>)
    IN  /\ \A p \in Offered(catalog) :
             LET path == DevicePath(catalog, p)
             IN  /\ PathMayBeVirtual(path) /\ ProfileForPath(catalog, path) = p
                 /\ \A other \in Identities :
                      other.pid = identity.pid =>
                        ProfileForPath(FromIdentity(other, <<>>), path) \in {p, NoProfile}
                 /\ ProfileForInterface(catalog, Descriptor(catalog, p).interface) = p
                 /\ ProfileForHandle(FakeHandle(p)) = p
                 /\ ProfileForReserved(InterfaceReserved(p)) = p
                 /\ ProfileForDevInst(28, DevInst(p), Offered(catalog)) = p
                 /\ CapsAnswer(p, catalog).usage = Descriptor(catalog, p).usage
                 /\ \A same \in SameProperty :
                      RegistryProperty(catalog, p, same[1]) = DeviceProperty(catalog, p, same[2])
        /\ \A list \in NativeLists :
             LET found == Augment(list, catalog)
             IN  /\ Offered(catalog) \subseteq {found[i].profile : i \in 1 .. Len(found)}
                 /\ \A i \in 1 .. Len(found) :
                      ProfileForPath(catalog, found[i].path) = found[i].profile
        /\ \A other \in Identities :
             Enumerated(<<>>, other.vid, other.pid, catalog) # <<>>
               <=> IsCrossPuck(other.vid, other.pid, identity)

\* It speaks of every identity a host may send and of no step, so it is looked
\* at once, where the driver starts.
IdentifiersAgree == SurfaceInit => NamesMeanOneCollection

=============================================================================
