---------------------------- MODULE VirtualHandles ----------------------------
(***************************************************************************)
(* The handles Steam's threads hold on virtual HID collections.  Every     *)
(* open of a collection returns the same fake value, so the driver counts: *)
(* the runtime's handle table (guest_driver/handles.rs) and two lists of   *)
(* sentinels, CreateFile's (windows/kernel32.rs) and SDL's (windows/       *)
(* sdl.rs), each behind a mutex of its own.  An open takes the connection  *)
(* mutex twice, then the table's and then a list's; anything may happen in *)
(* between.  The connection runtime is SessionLease, which it implements.  *)
(***************************************************************************)
EXTENDS SessionLease, HidProfiles, SequencesExt

CONSTANTS
  IdentityOf,  \* the identity each session's host sends
  Paths,       \* the device paths threads open
  MaxOpens     \* bound on the handles ever opened; ids are u64

ASSUME LeaseAssumption ==
  /\ NoSession \notin Sessions
  /\ GenerationModulus \in Nat /\ GenerationModulus > 1
ASSUME OpensAssumption == MaxOpens \in Nat

VARIABLES
  nextId,     \* VirtualHandleTable.next_id
  handles,    \* VirtualHandleTable.handles: open id to profile
  openCounts, \* VirtualHandleTable.open_counts
  sentinels,  \* OPEN_SENTINELS and SDL_OPEN_SENTINELS: (profile, id) in order
  claim,      \* where each thread is between path and handle
  owned       \* the collection each thread holds a fake handle of, per API

tableVars  == <<nextId, handles, openCounts>>
handleVars == <<tableVars, sentinels, claim, owned>>

APIs == {"file", "sdl"}

Catalogs     == [s \in Sessions |-> FromIdentity(IdentityOf[s], <<>>)]
CatalogOf(s) == Catalogs[s]

NoClaim == [at |-> "idle"]
Claiming(at, api, p, id) == [at |-> at, api |-> api, profile |-> p, id |-> id]

HandlesInit ==
  /\ nextId = 0
  /\ handles = <<>>
  /\ openCounts = [p \in Profiles |-> 0]
  /\ sentinels = [a \in APIs |-> <<>>]
  /\ claim = [c \in Borrowers |-> NoClaim]
  /\ owned = [c \in Borrowers |-> [a \in APIs |-> NoProfile]]

-----------------------------------------------------------------------------
(* Opening *)

\* The path is CrossPuck's and the catalog of the moment has a profile for it;
\* otherwise the native function opens it and nothing changes here.
ClaimPath(c, api, path) ==
  /\ claim[c] = NoClaim
  /\ owned[c][api] = NoProfile
  /\ PathMayBeVirtual(path)
  /\ Advertised # NoSession
  /\ LET p == ProfileForPath(CatalogOf(Advertised), path)
     IN  /\ p # NoProfile
         /\ claim' = [claim EXCEPT ![c] = Claiming("claimed", api, p, 0)]
  /\ UNCHANGED <<tableVars, sentinels, owned>>

\* open_profile: can_advertise, by now perhaps of another session or of none.
Admit(c) ==
  /\ claim[c].at = "claimed"
  /\ claim' = IF Advertised = NoSession THEN [claim EXCEPT ![c] = NoClaim]
                                        ELSE [claim EXCEPT ![c].at = "admitted"]
  /\ UNCHANGED <<tableVars, sentinels, owned>>

Available(p) == current # NoSession /\ p \in Offered(CatalogOf(current))

\* Fault: the table reuses the id of the handle opened last.
OpenReusingId(c) ==
  /\ claim[c].at = "admitted"
  /\ nextId < MaxOpens
  /\ nextId' = IF nextId = 0 THEN 1 ELSE nextId
  /\ handles' = [i \in DOMAIN handles \cup {nextId'} |->
                   IF i = nextId' THEN claim[c].profile ELSE handles[i]]
  /\ openCounts' = [openCounts EXCEPT ![claim[c].profile] = @ + 1]
  /\ claim' = [claim EXCEPT ![c].at = "opened", ![c].id = nextId']
  /\ UNCHANGED <<sentinels, owned>>

\* profile_available, and VirtualHandleTable::open under the table's mutex.
Open(c) ==
  /\ claim[c].at = "admitted"
  /\ Available(claim[c].profile)
  /\ nextId < MaxOpens
  /\ nextId' = nextId + 1
  /\ handles' = [i \in DOMAIN handles \cup {nextId'} |->
                   IF i = nextId' THEN claim[c].profile ELSE handles[i]]
  /\ openCounts' = [openCounts EXCEPT ![claim[c].profile] = @ + 1]
  /\ claim' = [claim EXCEPT ![c].at = "opened", ![c].id = nextId']
  /\ UNCHANGED <<sentinels, owned>>

\* The collection is gone: CreateFile and SDL go on with the native function.
OpenRefused(c) ==
  /\ claim[c].at = "admitted"
  /\ ~Available(claim[c].profile)
  /\ claim' = [claim EXCEPT ![c] = NoClaim]
  /\ UNCHANGED <<tableVars, sentinels, owned>>

\* Fault: SDL's handles are remembered in CreateFile's list.
RememberInOneList(c) ==
  /\ claim[c].at = "opened"
  /\ sentinels' = [sentinels EXCEPT !["file"] =
                     Append(@, [profile |-> claim[c].profile, id |-> claim[c].id])]
  /\ owned' = [owned EXCEPT ![c][claim[c].api] = claim[c].profile]
  /\ claim' = [claim EXCEPT ![c] = NoClaim]
  /\ UNCHANGED tableVars

\* remember_virtual_handle, remember_sdl_profile: the fake handle is returned.
Remember(c) ==
  /\ claim[c].at = "opened"
  /\ sentinels' = [sentinels EXCEPT ![claim[c].api] =
                     Append(@, [profile |-> claim[c].profile, id |-> claim[c].id])]
  /\ owned' = [owned EXCEPT ![c][claim[c].api] = claim[c].profile]
  /\ claim' = [claim EXCEPT ![c] = NoClaim]
  /\ UNCHANGED tableVars

-----------------------------------------------------------------------------
(* Closing *)

\* rposition: the last entry of the collection in the API's list.
LastEntry(api, p, i) ==
  /\ i \in 1 .. Len(sentinels[api])
  /\ sentinels[api][i].profile = p
  /\ \A j \in i + 1 .. Len(sentinels[api]) : sentinels[api][j].profile # p

\* VirtualHandleTable::close, which tolerates an id it does not know.
TableClose(id) ==
  IF id \in DOMAIN handles
    THEN /\ handles' = [i \in DOMAIN handles \ {id} |-> handles[i]]
         /\ openCounts' = [openCounts EXCEPT ![handles[id]] = IF @ = 0 THEN 0 ELSE @ - 1]
         /\ UNCHANGED nextId
    ELSE UNCHANGED tableVars

\* close_virtual_handle and close_sdl_profile: the list stays locked while the
\* table is closed.  Whichever entry goes, the fake value was the same.
CloseHandle(c, api) ==
  /\ claim[c] = NoClaim
  /\ owned[c][api] # NoProfile
  /\ \E i \in 1 .. Len(sentinels[api]) :
       /\ LastEntry(api, owned[c][api], i)
       /\ sentinels' = [sentinels EXCEPT ![api] = RemoveAt(@, i)]
       /\ TableClose(sentinels[api][i].id)
  /\ owned' = [owned EXCEPT ![c][api] = NoProfile]
  /\ UNCHANGED claim

HandleStep(c) ==
  \/ \E api \in APIs, path \in Paths : ClaimPath(c, api, path)
  \/ Admit(c) \/ Open(c) \/ OpenRefused(c) \/ Remember(c)
  \/ \E api \in APIs : CloseHandle(c, api)

\* A thread is in one call at a time, with a handle it holds; with_bridge takes
\* the bridge of a session that offers the handle's collection.
CallsInTurn(c) ==
  /\ claim[c] = NoClaim
  /\ borrowed'[c] # NoSession => \E a \in APIs : owned[c][a] \in Offered(CatalogOf(current))

LeaseStep ==
  /\ Next
  /\ \A c \in Borrowers : borrowed'[c] # borrowed[c] => CallsInTurn(c)
  /\ UNCHANGED handleVars

HandlesNext ==
  \/ LeaseStep
  \/ \E c \in Borrowers : borrowed[c] = NoSession /\ HandleStep(c) /\ UNCHANGED vars

HandlesSpec == Init /\ HandlesInit /\ [][HandlesNext]_<<vars, handleVars>>

-----------------------------------------------------------------------------
(* Properties *)

\* is_profile_open: what every entry point asks before it serves a fake handle.
ProfileOpen(p) == openCounts[p] > 0

Entries(api)  == 1 .. Len(sentinels[api])
Listed(api)   == {sentinels[api][i].id : i \in Entries(api)}
InFlight      == {c \in Borrowers : claim[c].at = "opened"}
EntriesOf(api, p) == {i \in Entries(api) : sentinels[api][i].profile = p}
HoldersOf(api, p) == {c \in Borrowers : owned[c][api] = p}

\* Every handle of the table is in exactly one place, with its collection: in
\* one of the two lists, or in the hands of a thread that is opening it.
HandlesInOnePlace ==
  /\ DOMAIN handles = Listed("file") \cup Listed("sdl") \cup {claim[c].id : c \in InFlight}
  /\ Listed("file") \cap Listed("sdl") = {}
  /\ \A a \in APIs : \A i \in Entries(a) :
       /\ handles[sentinels[a][i].id] = sentinels[a][i].profile
       /\ \A j \in Entries(a) : sentinels[a][i].id = sentinels[a][j].id => i = j
  /\ \A c \in InFlight :
       /\ claim[c].id \notin Listed("file") \cup Listed("sdl")
       /\ handles[claim[c].id] = claim[c].profile
       /\ \A d \in InFlight : claim[c].id = claim[d].id => c = d

\* The open counts, which decide whether a fake handle is served, agree with
\* the table, and the lists with what the threads hold.
CountsAgree ==
  /\ \A p \in Profiles :
       openCounts[p] = Cardinality({i \in DOMAIN handles : handles[i] = p})
  /\ \A a \in APIs, p \in Profiles :
       Cardinality(EntriesOf(a, p)) = Cardinality(HoldersOf(a, p))

\* No handle leaks, none is closed twice or for another, and none is refused
\* that a thread holds, whatever the threads and the connection do.
HandlesAccounted == HandlesInOnePlace /\ CountsAgree

===============================================================================
