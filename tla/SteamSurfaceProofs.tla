------------------------ MODULE SteamSurfaceProofs --------------------------
(***************************************************************************)
(* That no virtual handle leaks or is lost, that no call with a fake       *)
(* handle escapes to a library, that SDL misses no change, that a SetupAPI *)
(* walk lists the whole catalog and that every name of a collection means  *)
(* that collection, for any number of threads, sessions, identities,       *)
(* collections, paths and opens.                                           *)
(*                                                                         *)
(* None of it is inductive as it stands.  HandlesInv adds to               *)
(* HandlesAccounted that what a thread is going to put into a list is a    *)
(* profile, that its hand is empty, and that sets are finite before they   *)
(* are counted; ScanInv says whose memory a list is in; PollInv how far    *)
(* the count is from the one SDL remembers; WalkSoFar what a walk has      *)
(* listed that no change has overtaken.                                    *)
(***************************************************************************)
EXTENDS SteamSurface, SequenceLemmas

-----------------------------------------------------------------------------
(* Lists of sentinels *)

\* What a path may mean in the catalog of any session.
Meant     == {ProfileForPath(CatalogOf(s), path) : s \in Sessions, path \in Paths}
\* What a list remembers of an open, the ids in a list, and that no two entries
\* share one.
Sentinel  == [profile : Meant, id : Nat]
Ids(s)    == {s[j].id : j \in 1 .. Len(s)}
Distinct(s) == \A j, k \in 1 .. Len(s) : s[j].id = s[k].id => j = k

\* An entry with an id of its own joins a list.
LEMMA ListAfterAppend ==
  ASSUME NEW s \in Seq(Sentinel), NEW e \in Sentinel, Distinct(s), e.id \notin Ids(s)
  PROVE  /\ Append(s, e) \in Seq(Sentinel)
         /\ Ids(Append(s, e)) = Ids(s) \cup {e.id}
         /\ Distinct(Append(s, e))
         /\ \A j \in 1 .. Len(Append(s, e)) :
              Append(s, e)[j] = e \/ \E k \in 1 .. Len(s) : Append(s, e)[j] = s[k]
<1> DEFINE t == Append(s, e)
           n == Len(s) + 1
<1>1. /\ t \in Seq(Sentinel) /\ Len(t) = n /\ t[n] = e
      /\ \A j \in 1 .. Len(s) : t[j] = s[j]
  BY AppendProperties
<1>2. Len(s) \in Nat /\ n \in Nat
  BY LenProperties
<1> HIDE DEF t
<1>3. ASSUME NEW j \in 1 .. n PROVE j = n \/ j \in 1 .. Len(s)
  BY <1>2
<1>4. n \in 1 .. n /\ 1 .. Len(s) \subseteq 1 .. n
  BY <1>2
<1> HIDE DEF n
<1>5. Ids(t) = Ids(s) \cup {e.id}
  BY <1>1, <1>3, <1>4 DEF Ids
<1>6. Distinct(t)
  BY <1>1, <1>3 DEF Distinct, Ids
<1>7. \A j \in 1 .. Len(t) : t[j] = e \/ \E k \in 1 .. Len(s) : t[j] = s[k]
  BY <1>1, <1>3
<1> QED BY <1>1, <1>5, <1>6, <1>7 DEF t

\* An entry leaves a list, and its id with it.
LEMMA ListAfterRemoveAt ==
  ASSUME NEW s \in Seq(Sentinel), NEW i \in 1 .. Len(s), Distinct(s)
  PROVE  /\ RemoveAt(s, i) \in Seq(Sentinel)
         /\ Ids(RemoveAt(s, i)) = Ids(s) \ {s[i].id}
         /\ Distinct(RemoveAt(s, i))
         /\ \A j \in 1 .. Len(RemoveAt(s, i)) :
              \E k \in 1 .. Len(s) : k # i /\ RemoveAt(s, i)[j] = s[k]
<1> DEFINE t == RemoveAt(s, i)
<1>1. /\ t \in Seq(Sentinel) /\ Len(t) = Len(s) - 1
      /\ \A j \in 1 .. Len(s) - 1 : t[j] = IF j < i THEN s[j] ELSE s[j + 1]
  BY RemoveAtProperties
<1>2. Len(s) \in Nat /\ i \in Nat /\ 1 <= i /\ i <= Len(s)
  BY LenProperties
<1> HIDE DEF t
<1>3. /\ \A j \in 1 .. Len(t) :
           \E k \in 1 .. Len(s) : k = (IF j < i THEN j ELSE j + 1) /\ k # i /\ t[j] = s[k]
      /\ \A k \in 1 .. Len(s) : k # i => \E j \in 1 .. Len(t) : t[j] = s[k]
  BY RemoveAtKeeps DEF t
<1>5. Ids(t) = Ids(s) \ {s[i].id}
  <2>1. ASSUME NEW x \in Ids(t) PROVE x \in Ids(s) \ {s[i].id}
    <3>1. PICK j \in 1 .. Len(t) : x = t[j].id
      BY DEF Ids
    <3>2. PICK k \in 1 .. Len(s) : k # i /\ t[j] = s[k]
      BY <1>3
    <3> QED BY <3>1, <3>2 DEF Ids, Distinct
  <2>2. ASSUME NEW x \in Ids(s) \ {s[i].id} PROVE x \in Ids(t)
    <3>1. PICK k \in 1 .. Len(s) : x = s[k].id
      BY DEF Ids
    <3>2. k # i
      BY <3>1
    <3>3. PICK j \in 1 .. Len(t) : t[j] = s[k]
      BY <3>2, <1>3
    <3> QED BY <3>1, <3>3 DEF Ids
  <2> QED BY <2>1, <2>2
<1>6. Distinct(t)
  <2> SUFFICES ASSUME NEW j \in 1 .. Len(t), NEW k \in 1 .. Len(t), t[j].id = t[k].id
               PROVE  j = k
    BY DEF Distinct
  <2>1. PICK m \in 1 .. Len(s) : m = (IF j < i THEN j ELSE j + 1) /\ m # i /\ t[j] = s[m]
    BY <1>3
  <2>2. PICK n \in 1 .. Len(s) : n = (IF k < i THEN k ELSE k + 1) /\ n # i /\ t[k] = s[n]
    BY <1>3
  <2>3. m = n
    BY <2>1, <2>2 DEF Distinct
  <2> QED BY <2>1, <2>2, <2>3, <1>1, <1>2
<1> QED BY <1>1, <1>3, <1>5, <1>6 DEF t

-----------------------------------------------------------------------------
(* The inductive invariant *)

\* What a thread has of a handle it is opening.
Stages == {"claimed", "admitted", "opened"}
Claims == {NoClaim} \cup [at : Stages, api : APIs, profile : Meant, id : Nat]

\* Types, with the ids the table has given out.
HandlesType ==
  /\ current \in Sessions \cup {NoSession}
  /\ nextId \in Nat
  /\ DOMAIN handles \subseteq 1 .. nextId
  /\ openCounts \in [Profiles -> Nat]
  /\ sentinels \in [APIs -> Seq(Sentinel)]
  /\ claim \in [Borrowers -> Claims]
  /\ owned \in [Borrowers -> [APIs -> Meant \cup {NoProfile}]]

\* A thread opens with a hand that holds nothing.
HandsFree ==
  \A c \in Borrowers :
    claim[c].at # "idle" => /\ claim[c].profile # NoProfile
                            /\ owned[c][claim[c].api] = NoProfile

\* Finitely many threads hold a collection, even were there infinitely many.
FewHolders == \A a \in APIs, p \in Profiles : IsFiniteSet(HoldersOf(a, p))

\* The inductive invariant.
HandlesInv == HandlesType /\ HandsFree /\ HandlesInOnePlace /\ CountsAgree /\ FewHolders

\* Whoever is not idle holds a claim with all its fields.
LEMMA ClaimOf ==
  ASSUME HandlesType, NEW c \in Borrowers
  PROVE  /\ claim[c].at # "idle" =>
              claim[c] \in [at : Stages, api : APIs, profile : Meant, id : Nat]
         /\ claim[c].at = "idle" <=> claim[c] = NoClaim
  BY DEF HandlesType, Claims, NoClaim, Stages

\* What a list's entries are, in the terms of the lemmas about lists.
LEMMA ListOf ==
  ASSUME HandlesType, HandlesInOnePlace, NEW a \in APIs
  PROVE  /\ sentinels[a] \in Seq(Sentinel)
         /\ Listed(a) = Ids(sentinels[a])
         /\ Distinct(sentinels[a])
         /\ Len(sentinels[a]) \in Nat
         /\ \A i \in 1 .. Len(sentinels[a]) :
              sentinels[a][i] \in Sentinel /\ handles[sentinels[a][i].id] = sentinels[a][i].profile
<1>1. sentinels[a] \in Seq(Sentinel)
  BY DEF HandlesType
<1>2. \A i \in 1 .. Len(sentinels[a]) : sentinels[a][i] \in Sentinel
  BY <1>1, ElementOfSeq
<1>3. Len(sentinels[a]) \in Nat
  BY <1>1, LenProperties
<1> QED BY <1>1, <1>2, <1>3 DEF HandlesInOnePlace, Listed, Entries, Ids, Distinct

\* No collection is mistaken for none.
LEMMA NothingIsNoProfile == \A p \in Profiles : p # NoProfile
<1>1. Len(ALL) = 5
  BY DEF ALL
<1>2. \A i \in 1 .. 5 : i = 1 \/ i = 2 \/ i = 3 \/ i = 4 \/ i = 5
  OBVIOUS
<1>3. ALL[1] # NoProfile /\ ALL[2] # NoProfile /\ ALL[3] # NoProfile /\ ALL[4] # NoProfile /\ ALL[5] # NoProfile
  BY DEF ALL, NoProfile
<1> QED BY <1>1, <1>2, <1>3 DEF Profiles

\* The sentinels of a collection.
OfProfile(p) == [profile : {p}, id : Nat]

\* The entries of a collection are the hits of the set of its sentinels.
LEMMA EntriesAreHits ==
  ASSUME NEW a \in APIs, sentinels[a] \in Seq(Sentinel), NEW p
  PROVE  EntriesOf(a, p) = Hits(sentinels[a], OfProfile(p))
<1>1. \A i \in 1 .. Len(sentinels[a]) : sentinels[a][i] \in Sentinel
  BY ElementOfSeq
<1> QED BY <1>1 DEF EntriesOf, Entries, Hits, OfProfile, Sentinel

\* The handles of a collection in the table.
HandlesOf(p) == {i \in DOMAIN handles : handles[i] = p}

\* The table has finitely many handles of a collection.
LEMMA FewHandles ==
  ASSUME HandlesType, NEW p
  PROVE  IsFiniteSet(HandlesOf(p)) /\ Cardinality(HandlesOf(p)) \in Nat
<1>1. IsFiniteSet(1 .. nextId)
  BY FS_Interval DEF HandlesType
<1>2. HandlesOf(p) \in SUBSET (1 .. nextId)
  BY DEF HandlesType, HandlesOf
<1> QED BY <1>1, <1>2, FS_Subset, FS_CardinalityType

-----------------------------------------------------------------------------
(* The steps *)

\* A driver just loaded: nothing is open, listed or held.
LEMMA InitInv == Init /\ HandlesInit => HandlesInv
<1> SUFFICES ASSUME Init, HandlesInit PROVE HandlesInv
  OBVIOUS
<1>1. HandlesType
  BY EmptySeq DEF Init, HandlesInit, HandlesType, Claims, NoClaim
<1>2. HandsFree
  BY DEF HandlesInit, HandsFree, NoClaim
<1>3. /\ \A a \in APIs : Len(sentinels[a]) = 0
      /\ \A a \in APIs : Entries(a) = {} /\ Listed(a) = {}
      /\ InFlight = {} /\ DOMAIN handles = {}
  BY DEF HandlesInit, Entries, Listed, InFlight, NoClaim, APIs
<1>4. HandlesInOnePlace
  BY <1>3 DEF HandlesInOnePlace, APIs
<1>5. \A a \in APIs, p \in Profiles : HoldersOf(a, p) = {} /\ EntriesOf(a, p) = {}
  BY <1>3, NothingIsNoProfile DEF HandlesInit, HoldersOf, EntriesOf
<1>6. CountsAgree
  BY <1>3, <1>5, FS_EmptySet DEF HandlesInit, CountsAgree
<1>7. FewHolders
  BY <1>5, FS_EmptySet DEF FewHolders
<1> QED BY <1>1, <1>2, <1>4, <1>6, <1>7 DEF HandlesInv

\* Steps that leave the table, the lists and the hands alone, and no thread
\* with an open handle in them.
LEMMA NoHandleMoves ==
  ASSUME HandlesInv, HandlesType', HandsFree',
         UNCHANGED <<tableVars, sentinels, owned>>,
         \A c \in Borrowers : (claim[c].at = "opened" \/ claim'[c].at = "opened") => claim'[c] = claim[c]
  PROVE  HandlesInv'
<1>1. InFlight' = InFlight /\ \A c \in InFlight : claim'[c] = claim[c]
  BY DEF InFlight
<1>2. HandlesInOnePlace'
  <2>1. /\ handles' = handles /\ sentinels' = sentinels
        /\ \A a \in APIs : Listed(a)' = Listed(a) /\ Entries(a)' = Entries(a)
        /\ Listed("file")' = Listed("file") /\ Listed("sdl")' = Listed("sdl")
    BY DEF Listed, Entries, tableVars
  <2>2. {claim'[c].id : c \in InFlight'} = {claim[c].id : c \in InFlight}
    BY <1>1
  <2>3. HandlesInOnePlace
    BY DEF HandlesInv
  <2> QED BY <1>1, <2>1, <2>2, <2>3 DEF HandlesInOnePlace
<1>3. CountsAgree' /\ FewHolders'
  BY DEF HandlesInv, CountsAgree, FewHolders, EntriesOf, Entries, HoldersOf, tableVars
<1> QED BY <1>2, <1>3 DEF HandlesInv

\* What the connection runtime does leaves the handles alone, and keeps a
\* session or none on offer.
LEMMA LeaseStepInv == HandlesInv /\ LeaseStep => HandlesInv'
<1> SUFFICES ASSUME HandlesInv, LeaseStep PROVE HandlesInv'
  OBVIOUS
<1>1. current' \in Sessions \cup {NoSession}
  BY DEF LeaseStep, Next, HandlesInv, HandlesType, Offer, Discard, End, Borrow, Return,
         Sicken, Withdraw, Close, offer
<1>2. HandlesType' /\ HandsFree'
  BY <1>1 DEF LeaseStep, handleVars, tableVars, HandlesInv, HandlesType, HandsFree
<1> QED BY <1>2, NoHandleMoves DEF LeaseStep, handleVars

\* A path is found to mean a collection of the session on offer.
LEMMA ClaimPathInv ==
  ASSUME HandlesInv, NEW c \in Borrowers, NEW api \in APIs, NEW path \in Paths,
         ClaimPath(c, api, path), UNCHANGED vars
  PROVE  HandlesInv'
<1>1. current \in Sessions /\ Advertised = current
  BY DEF ClaimPath, Advertised, HandlesInv, HandlesType
<1>2. PICK p : /\ p = ProfileForPath(CatalogOf(Advertised), path)
               /\ p # NoProfile
               /\ claim' = [claim EXCEPT ![c] = Claiming("claimed", api, p, 0)]
  BY DEF ClaimPath
<1>3. p \in Meant
  BY <1>1, <1>2 DEF Meant
<1>4. Claiming("claimed", api, p, 0) \in Claims
  BY <1>3 DEF Claiming, Claims, Stages
<1>5. HandlesType'
  BY <1>2, <1>4 DEF ClaimPath, HandlesInv, HandlesType, tableVars, vars, offer
<1>6. HandsFree'
  BY <1>2 DEF ClaimPath, HandlesInv, HandlesType, HandsFree, Claiming
<1>7. claim[c].at = "idle" /\ claim'[c].at = "claimed"
  BY <1>2 DEF ClaimPath, NoClaim, Claiming, HandlesInv, HandlesType
<1>8. \A d \in Borrowers : (claim[d].at = "opened" \/ claim'[d].at = "opened") => claim'[d] = claim[d]
  BY <1>2, <1>7 DEF HandlesInv, HandlesType
<1> QED BY <1>5, <1>6, <1>8, NoHandleMoves DEF ClaimPath

\* The claim goes on or is given up.
LEMMA AdmitInv ==
  ASSUME HandlesInv, NEW c \in Borrowers, Admit(c) \/ OpenRefused(c), UNCHANGED vars
  PROVE  HandlesInv'
<1>1. claim[c] \in [at : Stages, api : APIs, profile : Meant, id : Nat]
  BY ClaimOf DEF Admit, OpenRefused, HandlesInv
<1>2. \/ claim' = [claim EXCEPT ![c] = NoClaim]
      \/ claim' = [claim EXCEPT ![c].at = "admitted"]
  BY DEF Admit, OpenRefused
<1>3. [claim[c] EXCEPT !.at = "admitted"] \in Claims /\ NoClaim \in Claims
  BY <1>1 DEF Claims, Stages
<1>4. HandlesType'
  BY <1>2, <1>3 DEF Admit, OpenRefused, HandlesInv, HandlesType, tableVars, vars, offer
<1>5. HandsFree'
  <2>1. claim'[c].at # "idle" => claim'[c].api = claim[c].api /\ claim'[c].profile = claim[c].profile
    BY <1>1, <1>2 DEF NoClaim, HandlesInv, HandlesType
  <2>2. claim[c].at # "idle"
    BY DEF Admit, OpenRefused
  <2>3. \A d \in Borrowers \ {c} : claim'[d] = claim[d]
    BY <1>2 DEF HandlesInv, HandlesType
  <2>4. owned' = owned
    BY DEF Admit, OpenRefused
  <2> QED BY <2>1, <2>2, <2>3, <2>4 DEF HandlesInv, HandsFree
<1>6. claim[c].at # "opened" /\ claim'[c].at # "opened"
  BY <1>1, <1>2 DEF Admit, OpenRefused, NoClaim, HandlesInv, HandlesType
<1>7. \A d \in Borrowers : (claim[d].at = "opened" \/ claim'[d].at = "opened") => claim'[d] = claim[d]
  BY <1>2, <1>6 DEF HandlesInv, HandlesType
<1> QED BY <1>4, <1>5, <1>7, NoHandleMoves DEF Admit, OpenRefused

\* A new handle: its id is nobody's, and its opener's alone.
LEMMA OpenInv ==
  ASSUME HandlesInv, NEW c \in Borrowers, Open(c), UNCHANGED vars
  PROVE  HandlesInv'
<1> DEFINE new == nextId + 1
           p == claim[c].profile
<1>1. claim[c] \in [at : Stages, api : APIs, profile : Meant, id : Nat]
  BY ClaimOf DEF Open, HandlesInv
<1>2. /\ HandlesType /\ HandsFree /\ HandlesInOnePlace /\ CountsAgree /\ FewHolders
      /\ nextId \in Nat /\ claim \in [Borrowers -> Claims]
  BY DEF HandlesInv, HandlesType
<1>3. /\ nextId' = new
      /\ DOMAIN handles' = DOMAIN handles \cup {new}
      /\ handles'[new] = p
      /\ openCounts' = [openCounts EXCEPT ![p] = @ + 1]
      /\ UNCHANGED <<sentinels, owned>>
  BY DEF Open
<1>4. new \notin DOMAIN handles /\ \A i \in DOMAIN handles : handles'[i] = handles[i]
  BY <1>2 DEF Open, HandlesType
<1>5. /\ claim'[c] = [at |-> "opened", api |-> claim[c].api, profile |-> p, id |-> new]
      /\ \A d \in Borrowers \ {c} : claim'[d] = claim[d]
      /\ DOMAIN claim' = Borrowers
      /\ claim[c].at = "admitted"
  BY <1>1, <1>2 DEF Open
<1>6. claim' \in [Borrowers -> Claims]
  <2>1. claim'[c] \in Claims
    BY <1>1, <1>2, <1>5 DEF Claims, Stages
  <2>2. claim' = [d \in Borrowers |-> claim'[d]]
    BY <1>2 DEF Open
  <2> QED BY <1>2, <1>5, <2>1, <2>2
<1>7. HandlesType'
  <2>1. DOMAIN handles' \subseteq 1 .. nextId'
    BY <1>2, <1>3 DEF HandlesType
  <2>2. openCounts' \in [Profiles -> Nat]
    <3>1. openCounts \in [Profiles -> Nat]
      BY <1>2 DEF HandlesType
    <3>2. openCounts' = [q \in Profiles |-> IF q = p THEN openCounts[q] + 1 ELSE openCounts[q]]
      BY <1>3, <3>1
    <3>3. \A q \in Profiles : openCounts[q] \in Nat /\ openCounts[q] + 1 \in Nat
      BY <3>1
    <3> HIDE DEF p
    <3> QED BY <3>2, <3>3
  <2> QED BY <1>2, <1>3, <1>6, <2>1, <2>2 DEF HandlesType, vars, offer
<1>8. HandsFree'
  BY <1>2, <1>3, <1>5 DEF HandsFree
<1>9. /\ InFlight' = InFlight \cup {c} /\ c \notin InFlight
      /\ \A d \in InFlight : claim'[d] = claim[d]
  BY <1>5 DEF InFlight
<1>10. /\ \A a \in APIs : Listed(a)' = Listed(a) /\ Entries(a)' = Entries(a)
       /\ Listed("file")' = Listed("file") /\ Listed("sdl")' = Listed("sdl")
  BY <1>3 DEF Listed, Entries
<1>11. HandlesInOnePlace'
  <2>1. {claim'[d].id : d \in InFlight'} = {claim[d].id : d \in InFlight} \cup {new}
    BY <1>5, <1>9
  <2>2. /\ \A a \in APIs : \A i \in Entries(a) : sentinels[a][i].id \in DOMAIN handles
        /\ \A d \in InFlight : claim[d].id \in DOMAIN handles
    BY <1>2 DEF HandlesInOnePlace, Listed, APIs
  <2>3. new \notin Listed("file") \cup Listed("sdl")
    BY <1>2, <1>4 DEF HandlesInOnePlace
  <2>4. DOMAIN handles' = Listed("file")' \cup Listed("sdl")' \cup {claim'[d].id : d \in InFlight'}
    BY <1>2, <1>3, <1>10, <2>1 DEF HandlesInOnePlace
  <2>5. \A a \in APIs : \A i \in Entries(a)' :
          /\ handles'[sentinels'[a][i].id] = sentinels'[a][i].profile
          /\ \A j \in Entries(a)' : sentinels'[a][i].id = sentinels'[a][j].id => i = j
    BY <1>2, <1>3, <1>4, <1>10, <2>2 DEF HandlesInOnePlace
  <2>6. \A d \in InFlight' :
          /\ claim'[d].id \notin Listed("file")' \cup Listed("sdl")'
          /\ handles'[claim'[d].id] = claim'[d].profile
          /\ \A e \in InFlight' : claim'[d].id = claim'[e].id => d = e
    BY <1>2, <1>3, <1>4, <1>5, <1>9, <1>10, <2>2, <2>3 DEF HandlesInOnePlace
  <2>7. (Listed("file") \cap Listed("sdl"))' = {}
    BY <1>2, <1>10 DEF HandlesInOnePlace
  <2> QED BY <2>4, <2>5, <2>6, <2>7 DEF HandlesInOnePlace
<1>12. ASSUME NEW q \in Profiles
       PROVE  openCounts'[q] = Cardinality(HandlesOf(q)')
  <2>1. IsFiniteSet(HandlesOf(q)) /\ openCounts[q] = Cardinality(HandlesOf(q))
    BY <1>2, FewHandles DEF CountsAgree, HandlesOf
  <2>2. openCounts'[q] = IF q = p THEN openCounts[q] + 1 ELSE openCounts[q]
    BY <1>2, <1>3 DEF HandlesType
  <2>3. HandlesOf(q)' = IF q = p THEN HandlesOf(q) \cup {new} ELSE HandlesOf(q)
    BY <1>3, <1>4 DEF HandlesOf
  <2>4. new \notin HandlesOf(q)
    BY <1>4 DEF HandlesOf
  <2>5. Cardinality(HandlesOf(q) \cup {new}) = Cardinality(HandlesOf(q)) + 1
    BY <2>1, <2>4, FS_AddElement
  <2> QED BY <2>1, <2>2, <2>3, <2>5
<1>13. \A a \in APIs, q \in Profiles :
          EntriesOf(a, q)' = EntriesOf(a, q) /\ HoldersOf(a, q)' = HoldersOf(a, q)
  BY <1>3, <1>10 DEF EntriesOf, HoldersOf
<1>14. CountsAgree' /\ FewHolders'
  BY <1>2, <1>12, <1>13 DEF CountsAgree, FewHolders, HandlesOf
<1> QED BY <1>7, <1>8, <1>11, <1>14 DEF HandlesInv

\* The new handle goes from its opener's hands to the list of the API that
\* was used, and the opener holds it.
LEMMA RememberInv ==
  ASSUME HandlesInv, NEW c \in Borrowers, Remember(c), UNCHANGED vars
  PROVE  HandlesInv'
<1>1. claim[c] \in [at : Stages, api : APIs, profile : Meant, id : Nat]
  BY ClaimOf DEF Remember, HandlesInv
<1>2. /\ HandlesType /\ HandsFree /\ HandlesInOnePlace /\ CountsAgree /\ FewHolders
      /\ claim \in [Borrowers -> Claims] /\ sentinels \in [APIs -> Seq(Sentinel)]
      /\ owned \in [Borrowers -> [APIs -> Meant \cup {NoProfile}]]
  BY DEF HandlesInv, HandlesType
<1>0. PICK api, p, e : /\ api = claim[c].api /\ p = claim[c].profile
                       /\ e = [profile |-> p, id |-> claim[c].id]
  OBVIOUS
<1>3. /\ api \in APIs /\ p \in Meant /\ e \in Sentinel /\ e.id = claim[c].id /\ e.profile = p
  BY <1>0, <1>1 DEF Sentinel
<1>4. /\ claim[c].at = "opened" /\ c \in InFlight
      /\ sentinels' = [sentinels EXCEPT ![api] = Append(@, e)]
      /\ owned' = [owned EXCEPT ![c][api] = p]
      /\ claim' = [claim EXCEPT ![c] = NoClaim]
      /\ UNCHANGED tableVars
  BY <1>0 DEF Remember, InFlight
<1>5. /\ sentinels'[api] = Append(sentinels[api], e)
      /\ \A a \in APIs \ {api} : sentinels'[a] = sentinels[a]
  BY <1>2, <1>3, <1>4
<1>6. /\ sentinels[api] \in Seq(Sentinel) /\ Listed(api) = Ids(sentinels[api])
      /\ Distinct(sentinels[api])
      /\ \A i \in 1 .. Len(sentinels[api]) : handles[sentinels[api][i].id] = sentinels[api][i].profile
  BY <1>2, <1>3, ListOf
<1>7. e.id \notin Listed("file") \cup Listed("sdl") /\ handles[e.id] = p
  BY <1>0, <1>2, <1>3, <1>4 DEF HandlesInOnePlace
<1>8. e.id \notin Ids(sentinels[api])
  BY <1>3, <1>6, <1>7 DEF APIs
<1>9. /\ sentinels'[api] \in Seq(Sentinel)
      /\ Ids(sentinels'[api]) = Ids(sentinels[api]) \cup {e.id}
      /\ Distinct(sentinels'[api])
      /\ \A j \in 1 .. Len(sentinels'[api]) :
           sentinels'[api][j] = e \/ \E k \in 1 .. Len(sentinels[api]) : sentinels'[api][j] = sentinels[api][k]
  BY <1>3, <1>5, <1>6, <1>8, ListAfterAppend
<1>10. HandlesType'
  <2>1. sentinels' \in [APIs -> Seq(Sentinel)]
    BY <1>2, <1>3, <1>4, <1>9
  <2>2. claim' \in [Borrowers -> Claims]
    BY <1>2, <1>4 DEF Claims
  <2>3. owned' \in [Borrowers -> [APIs -> Meant \cup {NoProfile}]]
    BY <1>2, <1>3, <1>4
  <2> QED BY <1>2, <1>4, <2>1, <2>2, <2>3 DEF HandlesType, tableVars, vars, offer
<1>11. /\ claim'[c] = NoClaim
       /\ \A d \in Borrowers \ {c} : claim'[d] = claim[d] /\ owned'[d] = owned[d]
       /\ owned'[c][api] = p /\ \A a \in APIs \ {api} : owned'[c][a] = owned[c][a]
  BY <1>2, <1>3, <1>4
<1>12. HandsFree'
  BY <1>2, <1>11 DEF HandsFree, NoClaim
<1>13. /\ InFlight' = InFlight \ {c}
       /\ \A d \in InFlight' : claim'[d] = claim[d]
  BY <1>11 DEF InFlight, NoClaim
<1>14. /\ Listed(api)' = Listed(api) \cup {e.id}
       /\ \A a \in APIs \ {api} : Listed(a)' = Listed(a) /\ Entries(a)' = Entries(a)
  <2>1. Listed(api)' = Ids(sentinels'[api])
    BY DEF Listed, Entries, Ids
  <2> QED BY <1>5, <1>6, <1>9, <2>1 DEF Listed, Entries
<1>15. HandlesInOnePlace'
  <2>1. {claim'[d].id : d \in InFlight'} = {claim[d].id : d \in InFlight} \ {e.id}
    BY <1>2, <1>3, <1>4, <1>13 DEF HandlesInOnePlace
  <2>2. (Listed("file") \cup Listed("sdl"))' = Listed("file") \cup Listed("sdl") \cup {e.id}
    BY <1>3, <1>14 DEF APIs
  <2>3. e.id \in {claim[d].id : d \in InFlight}
    BY <1>3, <1>4
  <2>4. handles' = handles
    BY <1>4 DEF tableVars
  <2>5. DOMAIN handles' = (Listed("file") \cup Listed("sdl"))' \cup {claim'[d].id : d \in InFlight'}
    BY <1>2, <2>1, <2>2, <2>3, <2>4 DEF HandlesInOnePlace
  <2>6. (Listed("file") \cap Listed("sdl"))' = {}
    BY <1>2, <1>3, <1>7, <1>14 DEF HandlesInOnePlace, APIs
  <2>7. ASSUME NEW a \in APIs, NEW i \in Entries(a)'
        PROVE  /\ handles'[sentinels'[a][i].id] = sentinels'[a][i].profile
               /\ \A j \in Entries(a)' : sentinels'[a][i].id = sentinels'[a][j].id => i = j
    <3>1. CASE a = api
      <4>1. i \in 1 .. Len(sentinels'[api])
        BY <3>1 DEF Entries
      <4>2. handles[sentinels'[api][i].id] = sentinels'[api][i].profile
        BY <1>3, <1>6, <1>7, <1>9, <4>1
      <4>3. \A j \in 1 .. Len(sentinels'[api]) : sentinels'[api][i].id = sentinels'[api][j].id => i = j
        BY <1>9, <4>1 DEF Distinct
      <4> QED BY <3>1, <2>4, <4>2, <4>3 DEF Entries
    <3>2. CASE a # api
      <4>1. sentinels'[a] = sentinels[a] /\ i \in Entries(a) /\ Entries(a)' = Entries(a)
        BY <3>2, <1>5, <1>14
      <4>2. /\ handles[sentinels[a][i].id] = sentinels[a][i].profile
            /\ \A j \in Entries(a) : sentinels[a][i].id = sentinels[a][j].id => i = j
        BY <4>1, <1>2 DEF HandlesInOnePlace
      <4> QED BY <2>4, <4>1, <4>2
    <3> QED BY <3>1, <3>2
  <2>8. \A d \in InFlight' :
          /\ claim'[d].id \notin (Listed("file") \cup Listed("sdl"))'
          /\ handles'[claim'[d].id] = claim'[d].profile
          /\ \A f \in InFlight' : claim'[d].id = claim'[f].id => d = f
    BY <1>2, <1>3, <1>4, <1>13, <2>2, <2>4 DEF HandlesInOnePlace
  <2> QED BY <2>5, <2>6, <2>7, <2>8 DEF HandlesInOnePlace
<1>16. ASSUME NEW a \in APIs, NEW q \in Profiles
       PROVE  /\ Cardinality(EntriesOf(a, q)') = Cardinality(HoldersOf(a, q)')
              /\ IsFiniteSet(HoldersOf(a, q)')
  <2>1. /\ IsFiniteSet(HoldersOf(a, q))
        /\ Cardinality(EntriesOf(a, q)) = Cardinality(HoldersOf(a, q))
    BY <1>2 DEF CountsAgree, FewHolders
  <2>2. CASE a # api
    <3>1. EntriesOf(a, q)' = EntriesOf(a, q)
      BY <2>2, <1>5, <1>14 DEF EntriesOf
    <3>2. HoldersOf(a, q)' = HoldersOf(a, q)
      BY <2>2, <1>11 DEF HoldersOf
    <3> QED BY <2>1, <3>1, <3>2
  <2>3. CASE a = api
    <3>1. EntriesOf(api, q)' = Hits(sentinels'[api], OfProfile(q))
      <4>1. \A i \in 1 .. Len(sentinels'[api]) : sentinels'[api][i] \in Sentinel
        BY <1>9, ElementOfSeq
      <4> QED BY <4>1 DEF EntriesOf, Entries, Hits, OfProfile, Sentinel
    <3>2. EntriesOf(api, q) = Hits(sentinels[api], OfProfile(q))
      BY <1>3, <1>6, EntriesAreHits
    <3>3. e \in OfProfile(q) <=> q = p
      BY <1>3 DEF OfProfile, Sentinel
    <3>4. Cardinality(EntriesOf(api, q)') = IF q = p THEN Cardinality(EntriesOf(api, q)) + 1
                                                     ELSE Cardinality(EntriesOf(api, q))
      BY <1>3, <1>5, <1>6, <3>1, <3>2, <3>3, HitsOfAppend
    <3>5. owned[c][api] = NoProfile /\ q # NoProfile
      BY <1>0, <1>2, <1>4, NothingIsNoProfile DEF HandsFree
    <3>6. HoldersOf(api, q)' = IF q = p THEN HoldersOf(api, q) \cup {c} ELSE HoldersOf(api, q)
      BY <1>11, <3>5 DEF HoldersOf
    <3>7. c \notin HoldersOf(api, q)
      BY <3>5 DEF HoldersOf
    <3>8. /\ Cardinality(HoldersOf(api, q) \cup {c}) = Cardinality(HoldersOf(api, q)) + 1
          /\ IsFiniteSet(HoldersOf(api, q) \cup {c})
      BY <2>1, <2>3, <3>7, FS_AddElement
    <3> QED BY <2>1, <2>3, <3>4, <3>6, <3>8
  <2> QED BY <2>2, <2>3
<1>17. CountsAgree' /\ FewHolders'
  BY <1>2, <1>4, <1>16 DEF CountsAgree, FewHolders, tableVars
<1> QED BY <1>10, <1>12, <1>15, <1>17 DEF HandlesInv

\* Closing takes the last entry of the collection, which may be another
\* thread's, from the list and its handle from the table: one entry and one
\* holder fewer.
LEMMA CloseHandleInv ==
  ASSUME HandlesInv, NEW c \in Borrowers, NEW api \in APIs, CloseHandle(c, api), UNCHANGED vars
  PROVE  HandlesInv'
<1>1. /\ HandlesType /\ HandsFree /\ HandlesInOnePlace /\ CountsAgree /\ FewHolders
      /\ sentinels \in [APIs -> Seq(Sentinel)]
      /\ owned \in [Borrowers -> [APIs -> Meant \cup {NoProfile}]]
  BY DEF HandlesInv, HandlesType
<1>2. PICK p : p = owned[c][api]
  OBVIOUS
<1>3. PICK i \in 1 .. Len(sentinels[api]) :
        /\ LastEntry(api, p, i)
        /\ sentinels' = [sentinels EXCEPT ![api] = RemoveAt(@, i)]
        /\ TableClose(sentinels[api][i].id)
  BY <1>2 DEF CloseHandle
<1>4. PICK id : id = sentinels[api][i].id
  OBVIOUS
<1>5. /\ sentinels[api] \in Seq(Sentinel) /\ Listed(api) = Ids(sentinels[api])
      /\ Distinct(sentinels[api])
      /\ \A j \in 1 .. Len(sentinels[api]) :
           sentinels[api][j] \in Sentinel /\ handles[sentinels[api][j].id] = sentinels[api][j].profile
  BY <1>1, ListOf
<1>6. /\ id \in Listed(api) /\ id \in DOMAIN handles /\ handles[id] = p
      /\ sentinels[api][i].profile = p /\ p # NoProfile
      /\ owned' = [owned EXCEPT ![c][api] = NoProfile]
      /\ UNCHANGED claim
  <2>1. id \in Listed(api)
    BY <1>4, <1>5 DEF Ids
  <2>2. id \in DOMAIN handles
    BY <2>1, <1>1 DEF HandlesInOnePlace, APIs
  <2> QED BY <2>1, <2>2, <1>2, <1>3, <1>4, <1>5 DEF LastEntry, CloseHandle
<1>7. /\ handles' = [j \in DOMAIN handles \ {id} |-> handles[j]]
      /\ openCounts' = [openCounts EXCEPT ![p] = IF @ = 0 THEN 0 ELSE @ - 1]
      /\ nextId' = nextId
  BY <1>3, <1>4, <1>6 DEF TableClose
<1>8. /\ sentinels'[api] = RemoveAt(sentinels[api], i)
      /\ \A a \in APIs \ {api} : sentinels'[a] = sentinels[a]
  BY <1>1, <1>3
<1>9. /\ sentinels'[api] \in Seq(Sentinel)
      /\ Ids(sentinels'[api]) = Ids(sentinels[api]) \ {id}
      /\ Distinct(sentinels'[api])
      /\ \A j \in 1 .. Len(sentinels'[api]) :
           \E k \in 1 .. Len(sentinels[api]) : k # i /\ sentinels'[api][j] = sentinels[api][k]
  BY <1>4, <1>5, <1>8, ListAfterRemoveAt
<1>10. /\ owned'[c][api] = NoProfile /\ \A a \in APIs \ {api} : owned'[c][a] = owned[c][a]
       /\ \A d \in Borrowers \ {c} : owned'[d] = owned[d]
  BY <1>1, <1>6
<1>11. HandlesType'
  <2>1. sentinels' \in [APIs -> Seq(Sentinel)]
    BY <1>1, <1>3, <1>8, <1>9
  <2>2. openCounts' \in [Profiles -> Nat]
    <3>1. openCounts \in [Profiles -> Nat]
      BY <1>1 DEF HandlesType
    <3>2. openCounts' = [q \in Profiles |-> IF q = p THEN IF openCounts[q] = 0 THEN 0 ELSE openCounts[q] - 1
                                                     ELSE openCounts[q]]
      BY <1>7, <3>1
    <3>3. \A q \in Profiles : openCounts[q] \in Nat /\ (openCounts[q] # 0 => openCounts[q] - 1 \in Nat)
      BY <3>1
    <3> QED BY <3>2, <3>3
  <2>3. owned' \in [Borrowers -> [APIs -> Meant \cup {NoProfile}]]
    BY <1>1, <1>6
  <2>4. DOMAIN handles' \subseteq 1 .. nextId'
    BY <1>1, <1>7 DEF HandlesType
  <2> QED BY <1>1, <1>6, <1>7, <2>1, <2>2, <2>3, <2>4 DEF HandlesType, vars, offer
<1>12. HandsFree'
  <2>1. claim[c].at = "idle"
    BY DEF CloseHandle, NoClaim
  <2> QED BY <1>1, <1>6, <1>10, <2>1 DEF HandsFree
<1>13. InFlight' = InFlight
  BY <1>6 DEF InFlight
<1>14. /\ Listed(api)' = Listed(api) \ {id}
       /\ \A a \in APIs \ {api} : Listed(a)' = Listed(a) /\ Entries(a)' = Entries(a)
  <2>1. Listed(api)' = Ids(sentinels'[api])
    BY DEF Listed, Entries, Ids
  <2>2. Listed(api)' = Listed(api) \ {id}
    BY <1>5, <1>9, <2>1
  <2>3. \A a \in APIs \ {api} : Listed(a)' = Listed(a) /\ Entries(a)' = Entries(a)
    BY <1>8 DEF Listed, Entries
  <2> QED BY <2>2, <2>3
<1>15. /\ \A a \in APIs \ {api} : id \notin Listed(a)
       /\ \A d \in InFlight : id # claim[d].id
  BY <1>1, <1>6 DEF HandlesInOnePlace, APIs
<1>16. (Listed("file") \cup Listed("sdl"))' = (Listed("file") \cup Listed("sdl")) \ {id}
  BY <1>14, <1>15 DEF APIs
<1>17. HandlesInOnePlace'
  <2>1. DOMAIN handles' = (Listed("file") \cup Listed("sdl"))' \cup {claim'[d].id : d \in InFlight'}
    BY <1>1, <1>6, <1>7, <1>13, <1>15, <1>16 DEF HandlesInOnePlace
  <2>2. (Listed("file") \cap Listed("sdl"))' = {}
    BY <1>1, <1>14 DEF HandlesInOnePlace, APIs
  <2>3. ASSUME NEW a \in APIs, NEW j \in Entries(a)'
        PROVE  /\ handles'[sentinels'[a][j].id] = sentinels'[a][j].profile
               /\ \A k \in Entries(a)' : sentinels'[a][j].id = sentinels'[a][k].id => j = k
    <3>1. CASE a = api
      <4>1. j \in 1 .. Len(sentinels'[api])
        BY <3>1 DEF Entries
      <4>2. PICK k \in 1 .. Len(sentinels[api]) : k # i /\ sentinels'[api][j] = sentinels[api][k]
        BY <1>9, <4>1
      <4>3. sentinels[api][k].id # id /\ sentinels[api][k].id \in DOMAIN handles
        <5>1. sentinels[api][k].id # id
          BY <4>2, <1>4, <1>5 DEF Distinct
        <5>2. sentinels[api][k].id \in Listed(api)
          BY <1>5 DEF Ids
        <5> QED BY <5>1, <5>2, <1>1 DEF HandlesInOnePlace, APIs
      <4>4. handles'[sentinels'[api][j].id] = sentinels'[api][j].profile
        BY <4>2, <4>3, <1>5, <1>7
      <4>5. \A m \in 1 .. Len(sentinels'[api]) : sentinels'[api][j].id = sentinels'[api][m].id => j = m
        BY <1>9, <4>1 DEF Distinct
      <4> QED BY <3>1, <4>4, <4>5 DEF Entries
    <3>2. CASE a # api
      <4>1. /\ sentinels'[a] = sentinels[a] /\ j \in Entries(a) /\ Entries(a)' = Entries(a)
            /\ sentinels[a][j].id \in Listed(a)
        BY <3>2, <1>8, <1>14 DEF Listed
      <4>2. sentinels[a][j].id # id /\ sentinels[a][j].id \in DOMAIN handles
        BY <3>2, <4>1, <1>1, <1>15 DEF HandlesInOnePlace, APIs
      <4> QED BY <4>1, <4>2, <1>1, <1>7 DEF HandlesInOnePlace
    <3> QED BY <3>1, <3>2
  <2>4. ASSUME NEW d \in InFlight'
        PROVE  /\ claim'[d].id \notin (Listed("file") \cup Listed("sdl"))'
               /\ handles'[claim'[d].id] = claim'[d].profile
               /\ \A f \in InFlight' : claim'[d].id = claim'[f].id => d = f
    <3>1. d \in InFlight /\ claim'[d] = claim[d] /\ claim[d].id # id /\ claim[d].id \in DOMAIN handles
      BY <1>1, <1>6, <1>13, <1>15 DEF HandlesInOnePlace
    <3> QED BY <3>1, <1>1, <1>6, <1>7, <1>13, <1>16 DEF HandlesInOnePlace
  <2> QED BY <2>1, <2>2, <2>3, <2>4 DEF HandlesInOnePlace
<1>18. ASSUME NEW q \in Profiles
       PROVE  openCounts'[q] = Cardinality(HandlesOf(q)')
  <2>1. /\ IsFiniteSet(HandlesOf(q)) /\ Cardinality(HandlesOf(q)) \in Nat
        /\ openCounts[q] = Cardinality(HandlesOf(q))
    BY <1>1, FewHandles DEF CountsAgree, HandlesOf
  <2>2. HandlesOf(q)' = IF q = p THEN HandlesOf(q) \ {id} ELSE HandlesOf(q)
    BY <1>6, <1>7 DEF HandlesOf
  <2>3. openCounts'[q] = IF q = p THEN IF openCounts[q] = 0 THEN 0 ELSE openCounts[q] - 1
                                  ELSE openCounts[q]
    BY <1>1, <1>7 DEF HandlesType
  <2>4. CASE q # p
    BY <2>1, <2>2, <2>3, <2>4
  <2>5. CASE q = p
    <3>1. id \in HandlesOf(q)
      BY <2>5, <1>6 DEF HandlesOf
    <3>2. Cardinality(HandlesOf(q) \ {id}) = Cardinality(HandlesOf(q)) - 1
      BY <2>1, <3>1, FS_RemoveElement
    <3>3. Cardinality(HandlesOf(q)) # 0
      BY <2>1, <3>1, FS_EmptySet
    <3> QED BY <2>1, <2>2, <2>3, <2>5, <3>2, <3>3
  <2> QED BY <2>4, <2>5
<1>19. ASSUME NEW a \in APIs, NEW q \in Profiles
       PROVE  /\ Cardinality(EntriesOf(a, q)') = Cardinality(HoldersOf(a, q)')
              /\ IsFiniteSet(HoldersOf(a, q)')
  <2>1. /\ IsFiniteSet(HoldersOf(a, q))
        /\ Cardinality(EntriesOf(a, q)) = Cardinality(HoldersOf(a, q))
    BY <1>1 DEF CountsAgree, FewHolders
  <2>2. CASE a # api
    <3>1. EntriesOf(a, q)' = EntriesOf(a, q)
      BY <2>2, <1>8, <1>14 DEF EntriesOf
    <3>2. HoldersOf(a, q)' = HoldersOf(a, q)
      BY <2>2, <1>10 DEF HoldersOf
    <3> QED BY <2>1, <3>1, <3>2
  <2>3. CASE a = api
    <3>1. EntriesOf(api, q)' = Hits(sentinels'[api], OfProfile(q))
      <4>1. \A j \in 1 .. Len(sentinels'[api]) : sentinels'[api][j] \in Sentinel
        BY <1>9, ElementOfSeq
      <4> QED BY <4>1 DEF EntriesOf, Entries, Hits, OfProfile, Sentinel
    <3>2. EntriesOf(api, q) = Hits(sentinels[api], OfProfile(q))
      BY <1>5, EntriesAreHits
    <3>3. sentinels[api][i] \in OfProfile(q) <=> q = p
      BY <1>5, <1>6 DEF OfProfile, Sentinel
    <3>4. Cardinality(EntriesOf(api, q)') = IF q = p THEN Cardinality(EntriesOf(api, q)) - 1
                                                     ELSE Cardinality(EntriesOf(api, q))
      BY <1>5, <1>8, <3>1, <3>2, <3>3, HitsOfRemoveAt
    <3>5. q # NoProfile
      BY NothingIsNoProfile
    <3>6. HoldersOf(api, q)' = IF q = p THEN HoldersOf(api, q) \ {c} ELSE HoldersOf(api, q)
      BY <1>2, <1>10, <3>5 DEF HoldersOf
    <3>7. q = p => c \in HoldersOf(api, q)
      BY <1>2 DEF HoldersOf
    <3>8. /\ q = p => Cardinality(HoldersOf(api, q) \ {c}) = Cardinality(HoldersOf(api, q)) - 1
          /\ IsFiniteSet(HoldersOf(api, q) \ {c})
      BY <2>1, <2>3, <3>7, FS_RemoveElement
    <3> QED BY <2>1, <2>3, <3>4, <3>6, <3>8
  <2> QED BY <2>2, <2>3
<1>20. CountsAgree' /\ FewHolders'
  BY <1>18, <1>19 DEF CountsAgree, FewHolders, HandlesOf
<1> QED BY <1>11, <1>12, <1>17, <1>20 DEF HandlesInv

\* Every step of the threads and of the connection keeps the invariant.
LEMMA NextInv == HandlesInv /\ [HandlesNext]_<<vars, handleVars>> => HandlesInv'
<1> SUFFICES ASSUME HandlesInv, [HandlesNext]_<<vars, handleVars>> PROVE HandlesInv'
  OBVIOUS
<1>1. CASE LeaseStep
  BY <1>1, LeaseStepInv
<1>2. ASSUME NEW c \in Borrowers, HandleStep(c), UNCHANGED vars
      PROVE  HandlesInv'
  <2>1. CASE \E api \in APIs, path \in Paths : ClaimPath(c, api, path)
    BY <1>2, <2>1, ClaimPathInv
  <2>2. CASE Admit(c) \/ OpenRefused(c)
    BY <1>2, <2>2, AdmitInv
  <2>3. CASE Open(c)
    BY <1>2, <2>3, OpenInv
  <2>4. CASE Remember(c)
    BY <1>2, <2>4, RememberInv
  <2>5. CASE \E api \in APIs : CloseHandle(c, api)
    BY <1>2, <2>5, CloseHandleInv
  <2> QED BY <1>2, <2>1, <2>2, <2>3, <2>4, <2>5 DEF HandleStep
<1>3. CASE UNCHANGED <<vars, handleVars>>
  <2>1. HandlesType' /\ HandsFree'
    BY <1>3 DEF HandlesInv, HandlesType, HandsFree, handleVars, tableVars, vars, offer
  <2> QED BY <1>3, <2>1, NoHandleMoves DEF handleVars
<1> QED BY <1>1, <1>2, <1>3 DEF HandlesNext

\* However many threads open and close, whatever sessions come and go under
\* them: no handle leaks, none is closed twice, the open counts are right.
THEOREM HandlesNeverLeak == HandlesSpec => []HandlesAccounted
<1>1. Init /\ HandlesInit => HandlesInv
  BY InitInv
<1>2. HandlesInv /\ [HandlesNext]_<<vars, handleVars>> => HandlesInv'
  BY NextInv
<1>3. HandlesInv => HandlesAccounted
  BY DEF HandlesInv, HandlesAccounted
<1> QED BY <1>1, <1>2, <1>3, PTL DEF HandlesSpec

\* A collection a thread holds is listed where it got it, and has an open count.
LEMMA ServedInv ==
  ASSUME HandlesInv, NEW c \in Borrowers, NEW a \in APIs, NEW p \in Profiles, owned[c][a] = p
  PROVE  EntriesOf(a, p) # {} /\ ProfileOpen(p)
<1>1. /\ IsFiniteSet(HoldersOf(a, p)) /\ c \in HoldersOf(a, p)
      /\ Cardinality(EntriesOf(a, p)) = Cardinality(HoldersOf(a, p))
      /\ openCounts[p] = Cardinality(HandlesOf(p)) /\ openCounts[p] \in Nat
  BY DEF HandlesInv, HandlesType, FewHolders, CountsAgree, HoldersOf, HandlesOf
<1>2. Cardinality(EntriesOf(a, p)) # 0
  BY <1>1, FS_EmptySet
<1>3. PICK i : i \in EntriesOf(a, p)
  BY <1>2, FS_EmptySet
<1>4. sentinels[a][i].id \in HandlesOf(p)
  BY <1>3 DEF HandlesInv, HandlesInOnePlace, EntriesOf, Entries, Listed, HandlesOf, APIs
<1>5. Cardinality(HandlesOf(p)) # 0
  BY <1>4, FewHandles, FS_EmptySet DEF HandlesInv
<1> QED BY <1>1, <1>3, <1>5 DEF ProfileOpen

\* While a thread holds a fake handle of a collection, the driver serves it:
\* is_profile_open, which every entry point asks, holds, although closes take
\* the entries of other threads and the session may be long gone.
THEOREM HeldIsServed ==
  HandlesSpec => [](\A c \in Borrowers, a \in APIs, p \in Profiles :
                      owned[c][a] = p => ProfileOpen(p))
<1> DEFINE Served == \A c \in Borrowers, a \in APIs, p \in Profiles : owned[c][a] = p => ProfileOpen(p)
<1>1. HandlesInv => Served
  BY ServedInv
<1>2. Init /\ HandlesInit => HandlesInv
  BY InitInv
<1>3. HandlesInv /\ [HandlesNext]_<<vars, handleVars>> => HandlesInv'
  BY NextInv
<1> QED BY <1>1, <1>2, <1>3, PTL DEF HandlesSpec

-----------------------------------------------------------------------------
(* Catalogs *)

\* The first of some places is one of them.
LEMMA FirstIsOne ==
  ASSUME NEW places, places \subseteq Nat, IsFiniteSet(places), places # {}
  PROVE  First(places) \in places
<1>1. \E i \in places : \A j \in places : i <= j
  BY LeastOf
<1> QED BY <1>1 DEF First

\* What a catalog may list for a profile.
Entry(identity, fallback, p) ==
  LET all == Collections(identity, fallback) IN FromCollection(p, all[First(OfRole(all, p))])

\* A catalog lists profiles, whatever the host's identity is.
LEMMA CatalogShape ==
  ASSUME NEW identity, NEW fallback
  PROVE  LET ds == FromIdentity(identity, fallback).descriptors
         IN  /\ Len(ds) \in Nat /\ DOMAIN ds = 1 .. Len(ds)
             /\ \A i \in 1 .. Len(ds) : ds[i].profile \in Profiles
<1> DEFINE all == Collections(identity, fallback)
           E == {Entry(identity, fallback, p) : p \in Profiles}
           described(p) == IF OfRole(all, p) = {} THEN <<>> ELSE << Entry(identity, fallback, p) >>
           ds == FromIdentity(identity, fallback).descriptors
<1>1. ALL[1] \in Profiles /\ ALL[2] \in Profiles /\ ALL[3] \in Profiles /\ ALL[4] \in Profiles /\ ALL[5] \in Profiles
  BY DEF Profiles, ALL
<1>2. \A p \in Profiles : described(p) \in Seq(E)
  <2> TAKE p \in Profiles
  <2>1. Entry(identity, fallback, p) \in E
    OBVIOUS
  <2> HIDE DEF E
  <2> QED BY <2>1, EmptySeq
<1>3. ds = described(ALL[1]) \o described(ALL[2]) \o described(ALL[3]) \o described(ALL[4]) \o described(ALL[5])
  BY DEF FromIdentity, Entry
<1>4. \A e \in E : e.profile \in Profiles
  BY DEF Entry, FromCollection
<1> HIDE DEF E, described
<1>5. ds \in Seq(E)
  BY <1>1, <1>2, <1>3, ConcatProperties
<1> HIDE DEF ds
<1> QED BY <1>4, <1>5, LenProperties, ElementOfSeq DEF ds

\* So does what the driver has when no session is on offer: nothing.
LEMMA NoCatalogIsEmpty == NoCatalog.descriptors = <<>> /\ Offered(NoCatalog) = {}
<1> DEFINE identity == [vid |-> 0, pid |-> 0, serial |-> <<>>, collections |-> <<>>]
<1>1. Collections(identity, <<>>) = <<>> \o <<>>
  BY DEF Collections
<1>2. <<>> \o <<>> = <<>>
  OBVIOUS
<1>3. DOMAIN <<>> = {}
  OBVIOUS
<1>4. \A p \in Profiles : OfRole(Collections(identity, <<>>), p) = {}
  BY <1>1, <1>2, <1>3 DEF OfRole
<1>5. ALL[1] \in Profiles /\ ALL[2] \in Profiles /\ ALL[3] \in Profiles /\ ALL[4] \in Profiles /\ ALL[5] \in Profiles
  BY DEF Profiles, ALL
<1>6. NoCatalog.descriptors = <<>>
  <2>1. NoCatalog.descriptors = <<>> \o <<>> \o <<>> \o <<>> \o <<>>
    BY <1>4, <1>5 DEF NoCatalog, FromIdentity
  <2> QED BY <2>1, <1>2
<1> QED BY <1>6 DEF Offered

\* What a path means is a collection, or nothing.
LEMMA MeantProfiles == Meant \subseteq Profiles \cup {NoProfile}
<1> SUFFICES ASSUME NEW s \in Sessions, NEW path \in Paths
             PROVE  ProfileForPath(CatalogOf(s), path) \in Profiles \cup {NoProfile}
  BY DEF Meant
<1> DEFINE catalog == FromIdentity(IdentityOf[s], <<>>)
           ds == catalog.descriptors
           exact == {i \in DOMAIN ds : ExactMatch(catalog, path, ds[i])}
<1>1. CatalogOf(s) = catalog
  BY DEF CatalogOf, Catalogs
<1>2. /\ Len(ds) \in Nat /\ DOMAIN ds = 1 .. Len(ds)
      /\ \A i \in 1 .. Len(ds) : ds[i].profile \in Profiles
  BY CatalogShape
<1>3. Offered(catalog) \subseteq Profiles
  BY <1>2 DEF Offered
<1> HIDE DEF catalog
<1>4. ASSUME exact # {} PROVE ds[First(exact)].profile \in Profiles
  <2>1. IsFiniteSet(1 .. Len(ds)) /\ exact \in SUBSET (1 .. Len(ds))
    BY <1>2, FS_Interval
  <2>2. IsFiniteSet(exact) /\ exact \subseteq Nat
    BY <2>1, <1>2, FS_Subset
  <2>3. First(exact) \in exact
    BY <2>2, <1>4, FirstIsOne
  <2> QED BY <2>3, <2>1, <1>2
<1>5. ProfileForPath(catalog, path) \in Profiles \cup {NoProfile}
  BY <1>3, <1>4 DEF ProfileForPath
<1> QED BY <1>1, <1>5

-----------------------------------------------------------------------------
(* The surface as a whole *)

\* The threads with handles take no notice of SDL's loop and of the walk.
LEMMA SurfaceIsHandles ==
  ASSUME [SurfaceNext]_surfaceVars PROVE [HandlesNext]_<<vars, handleVars>>
BY DEF SurfaceNext, HandlesPart, DetectionStep, WalkStep, surfaceVars

\* Who has the memory of the lists: the registry knows the driver's own, and a
\* list on its way through the driver is still SDL's.
ScanInv ==
  /\ scan = [at |-> scan.at, head |-> scan.head, list |-> scan.list]
  /\ scan.head \in Heads \cup {Null0}
  /\ blocks \in [Heads -> {"free", "sdl", "driver"}]
  /\ augmented = {h \in Heads : blocks[h] = "driver"}
  /\ scan.at = "native" => scan.head = Null0 \/ blocks[scan.head] = "sdl"

LEMMA ScanStep == ScanInv /\ [SurfaceNext]_surfaceVars => ScanInv'
<1> SUFFICES ASSUME ScanInv, [SurfaceNext]_surfaceVars PROVE ScanInv'
  OBVIOUS
<1> USE DEF ScanInv, Heads, Null0
<1>1. CASE UNCHANGED sdlVars
  BY <1>1 DEF sdlVars
<1>2. CASE PollChangeCount
  BY <1>2 DEF PollChangeCount
<1>3. CASE EnumerateNative
  <2>1. CASE native.list = <<>>
    BY <1>3, <2>1 DEF EnumerateNative
  <2>2. CASE native.list # <<>>
    <3>1. PICK h \in Heads : /\ blocks[h] = "free"
                             /\ blocks' = [blocks EXCEPT ![h] = "sdl"]
                             /\ scan' = [at |-> "native", head |-> h, list |-> native.list]
      BY <1>3, <2>2 DEF EnumerateNative
    <3> QED BY <1>3, <3>1 DEF EnumerateNative
  <2> QED BY <2>1, <2>2
<1>4. CASE EnumerateVirtual
  <2> DEFINE found == Enumerated(scan.list, 0, 0, Catalog)
  <2>1. CASE found = Untouched(scan.list)
    <3>1. scan' = [scan EXCEPT !.at = "held", !.list = found] /\ UNCHANGED <<blocks, augmented>>
      BY <1>4, <2>1 DEF EnumerateVirtual
    <3> HIDE DEF found
    <3> QED BY <3>1
  <2>2. CASE found # Untouched(scan.list)
    <3>1. PICK h \in Heads : /\ blocks[h] = "free"
                             /\ blocks' = [Free(scan.head) EXCEPT ![h] = "driver"]
                             /\ augmented' = augmented \cup {h}
                             /\ scan' = [at |-> "held", head |-> h, list |-> found]
      BY <1>4, <2>2 DEF EnumerateVirtual
    <3>2. scan.head = Null0 \/ blocks[scan.head] = "sdl"
      BY <1>4 DEF EnumerateVirtual
    <3> HIDE DEF found
    <3>3. /\ Free(scan.head) \in [Heads -> {"free", "sdl", "driver"}]
          /\ \A k \in Heads : Free(scan.head)[k] = "driver" <=> blocks[k] = "driver"
      BY <3>2 DEF Free
    <3>4. blocks' \in [Heads -> {"free", "sdl", "driver"}]
      BY <3>1, <3>3
    <3>5. \A k \in Heads : blocks'[k] = "driver" <=> k = h \/ blocks[k] = "driver"
      BY <3>1, <3>3
    <3> QED BY <3>1, <3>4, <3>5
  <2> QED BY <2>1, <2>2
<1>5. CASE FreeEnumeration
  <2>1. /\ blocks' \in [Heads -> {"free", "sdl", "driver"}]
        /\ \A k \in Heads : blocks'[k] = "driver" <=> k # scan.head /\ blocks[k] = "driver"
    BY <1>5 DEF FreeEnumeration, Free
  <2> QED BY <1>5, <2>1 DEF FreeEnumeration
<1>6. CASE NativeChange
  BY <1>6 DEF NativeChange
<1> QED BY <1>1, <1>2, <1>3, <1>4, <1>5, <1>6
        DEF SurfaceNext, HandlesPart, DetectionStep, WalkStep, surfaceVars, sdlVars

\* There is an answer at all.
LEMMA SomeReportAnswer ==
  ASSUME NEW f, NEW o PROVE {ReportAnswer(f, o, carried, report) : carried, report \in BOOLEAN} # {}
<1>1. PICK b : b \in BOOLEAN
  OBVIOUS
<1>2. ReportAnswer(f, o, b, b) \in {ReportAnswer(f, o, carried, report) : carried, report \in BOOLEAN}
  BY <1>1
<1> QED BY <1>2

LEMMA SomeSdlAnswer ==
  ASSUME NEW f, NEW o PROVE {SdlAnswer(f, o, carried, report) : carried, report \in BOOLEAN} # {}
<1>1. PICK b : b \in BOOLEAN
  OBVIOUS
<1>2. SdlAnswer(f, o, b, b) \in {SdlAnswer(f, o, carried, report) : carried, report \in BOOLEAN}
  BY <1>1
<1> QED BY <1>2

\* Whatever a call is asked with a handle that a thread holds, the driver, which
\* serves it, is the one to answer, and says so when the controller is gone.
LEMMA HeldIsAnswered ==
  ASSUME HandlesInv, NEW c \in Borrowers
  PROVE  /\ owned[c]["file"] # NoProfile => \A f \in FileCalls :
              LET answers == FileAnswers(f, FakeHandle(owned[c]["file"]), OpenProfiles)
              IN  /\ answers \cap {"library", "refused"} = {}
                  /\ (f \notin LocalCalls /\ ~sound) => answers = {"DEVICE_NOT_CONNECTED"}
         /\ owned[c]["sdl"] # NoProfile => \A f \in SdlCalls :
              LET answers == SdlAnswers(f, FakeHandle(owned[c]["sdl"]))
              IN  /\ "library" \notin answers
                  /\ (f # "SDL_hid_set_nonblocking" /\ ~sound) => answers = {"-1"}
<1>1. \A a \in APIs : owned[c][a] \in Profiles \cup {NoProfile}
  BY MeantProfiles DEF HandlesInv, HandlesType
<1>2. ~sound => Offered(Catalog) = {} /\ Advertised = NoSession
  BY NoCatalogIsEmpty DEF Catalog, Advertised
<1>3. \A p : ProfileForHandle(FakeHandle(p)) = p
  BY DEF ProfileForHandle, FakeHandle
<1>4. ASSUME owned[c]["file"] # NoProfile, NEW f \in FileCalls
      PROVE  LET answers == FileAnswers(f, FakeHandle(owned[c]["file"]), OpenProfiles)
             IN  /\ answers \cap {"library", "refused"} = {}
                 /\ (f \notin LocalCalls /\ ~sound) => answers = {"DEVICE_NOT_CONNECTED"}
  <2> DEFINE p == owned[c]["file"]
  <2>1. p \in Profiles /\ p \in OpenProfiles
    BY <1>1, <1>4, ServedInv DEF APIs, OpenProfiles
  <2>2. OpenVirtualProfile(FakeHandle(p), OpenProfiles) = "driver"
    BY <2>1, <1>3, <1>4 DEF OpenVirtualProfile
  <2>3. FileAnswers(f, FakeHandle(p), OpenProfiles) =
          IF f \in LocalCalls THEN {"TRUE"}
          ELSE IF f \in IdentityCalls THEN {IdentityAnswer(Advertised # NoSession)}
          ELSE {ReportAnswer(f, p \in Offered(Catalog), carried, report) : carried, report \in BOOLEAN}
    BY <2>2, <1>3 DEF FileAnswers
  <2>4. \A carried, report \in BOOLEAN :
          /\ ReportAnswer(f, p \in Offered(Catalog), carried, report) \notin {"library", "refused"}
          /\ ~sound => ReportAnswer(f, p \in Offered(Catalog), carried, report) = "DEVICE_NOT_CONNECTED"
    BY <1>2 DEF ReportAnswer
  <2>5. /\ IdentityAnswer(Advertised # NoSession) \notin {"library", "refused"}
        /\ ~sound => IdentityAnswer(Advertised # NoSession) = "DEVICE_NOT_CONNECTED"
    BY <1>2 DEF IdentityAnswer
  <2> HIDE DEF p
  <2>6. ~sound /\ f \notin LocalCalls => FileAnswers(f, FakeHandle(p), OpenProfiles) = {"DEVICE_NOT_CONNECTED"}
    <3> SUFFICES ASSUME ~sound, f \notin LocalCalls
                 PROVE  FileAnswers(f, FakeHandle(p), OpenProfiles) = {"DEVICE_NOT_CONNECTED"}
      OBVIOUS
    <3>1. CASE f \in IdentityCalls
      BY <3>1, <2>3, <2>5
    <3>2. CASE f \notin IdentityCalls
      <4>1. \A x \in FileAnswers(f, FakeHandle(p), OpenProfiles) : x = "DEVICE_NOT_CONNECTED"
        BY <3>2, <2>3, <2>4
      <4>2. \E x : x \in FileAnswers(f, FakeHandle(p), OpenProfiles)
        BY <3>2, <2>3, SomeReportAnswer
      <4>3. "DEVICE_NOT_CONNECTED" \in FileAnswers(f, FakeHandle(p), OpenProfiles)
        BY <4>1, <4>2
      <4> QED BY <4>1, <4>3
    <3> QED BY <3>1, <3>2
  <2>7. FileAnswers(f, FakeHandle(p), OpenProfiles) \cap {"library", "refused"} = {}
    BY ONLY <2>3, <2>4, <2>5
  <2> QED BY <2>6, <2>7 DEF p
<1>5. ASSUME owned[c]["sdl"] # NoProfile, NEW f \in SdlCalls
      PROVE  LET answers == SdlAnswers(f, FakeHandle(owned[c]["sdl"]))
             IN  /\ "library" \notin answers
                 /\ (f # "SDL_hid_set_nonblocking" /\ ~sound) => answers = {"-1"}
  <2> DEFINE p == owned[c]["sdl"]
  <2>1. p \in Profiles /\ p \in ListedProfiles
    BY <1>1, <1>5, ServedInv DEF APIs, ListedProfiles
  <2>2. SdlDevice(FakeHandle(p), ListedProfiles) = "driver"
    BY <2>1, <1>3 DEF SdlDevice
  <2>3. SdlAnswers(f, FakeHandle(p)) =
          {SdlAnswer(f, p \in Offered(Catalog), carried, report) : carried, report \in BOOLEAN}
    BY <2>2, <1>3 DEF SdlAnswers
  <2>4. \A carried, report \in BOOLEAN :
          /\ SdlAnswer(f, p \in Offered(Catalog), carried, report) # "library"
          /\ (f # "SDL_hid_set_nonblocking" /\ ~sound) =>
               SdlAnswer(f, p \in Offered(Catalog), carried, report) = "-1"
    BY <1>2 DEF SdlAnswer
  <2> HIDE DEF p
  <2>5. (f # "SDL_hid_set_nonblocking" /\ ~sound) => SdlAnswers(f, FakeHandle(p)) = {"-1"}
    <3> SUFFICES ASSUME f # "SDL_hid_set_nonblocking", ~sound
                 PROVE  SdlAnswers(f, FakeHandle(p)) = {"-1"}
      OBVIOUS
    <3>1. \A x \in SdlAnswers(f, FakeHandle(p)) : x = "-1"
      BY <2>3, <2>4
    <3>2. {SdlAnswer(f, p \in Offered(Catalog), carried, report) : carried, report \in BOOLEAN} # {}
      BY SomeSdlAnswer
    <3>3. SdlAnswers(f, FakeHandle(p)) # {}
      BY <2>3, <3>2
    <3> QED BY <3>1, <3>3
  <2>6. "library" \notin SdlAnswers(f, FakeHandle(p))
    BY ONLY <2>3, <2>4
  <2> QED BY <2>5, <2>6 DEF p
<1> QED BY <1>4, <1>5

\* The functions that take a pointer to preparsed data know the driver's own.
LEMMA FakePointersAnswered == PointersStayInside
<1> SUFFICES ASSUME NEW f \in PointerCalls, NEW p \in Profiles
             PROVE  PointerAnswer(f, FakePreparsed(p)) = Answers[f]
  BY DEF PointersStayInside
<1>1. FakePreparsed(p).kind = "preparsed" /\ FakePreparsed(p).profile = p /\ Null.kind = "null"
  BY DEF FakePreparsed, Null
<1>2. FakePreparsed(p) # Null
  BY <1>1
<1>3. ProfileForPreparsed(FakePreparsed(p)) # NoProfile
  BY <1>1, NothingIsNoProfile DEF ProfileForPreparsed
<1>4. PointerCall(f, FakePreparsed(p)) = "driver"
  BY <1>2, <1>3 DEF PointerCall
<1> QED BY <1>4 DEF PointerAnswer

\* No call with a fake handle or pointer is left to a library that would take
\* it for its own, and no list is freed by the wrong allocator: for any
\* number of threads, sessions, collections, opens and device changes.
THEOREM NothingEscapes == Surface => []FakesStayInside
<1>1. SurfaceInit => HandlesInv /\ ScanInv
  <2> SUFFICES ASSUME SurfaceInit PROVE HandlesInv /\ ScanInv
    OBVIOUS
  <2>1. HandlesInv
    BY InitInv DEF SurfaceInit
  <2> QED BY <2>1 DEF SurfaceInit, ScanInv, Heads, Null0
<1>2. HandlesInv /\ ScanInv /\ [SurfaceNext]_surfaceVars => HandlesInv' /\ ScanInv'
  BY NextInv, ScanStep, SurfaceIsHandles
<1>3. HandlesInv /\ ScanInv => FakesStayInside
  <2> SUFFICES ASSUME HandlesInv, ScanInv PROVE FakesStayInside
    OBVIOUS
  <2>1. ASSUME NEW p \in Profiles \ OpenProfiles, NEW f \in FileCalls
        PROVE  FileAnswers(f, FakeHandle(p), OpenProfiles) = {"refused"}
    <3>1. ProfileForHandle(FakeHandle(p)) = p /\ p # NoProfile
      BY NothingIsNoProfile DEF ProfileForHandle, FakeHandle
    <3>2. OpenVirtualProfile(FakeHandle(p), OpenProfiles) = "refused"
      BY <3>1 DEF OpenVirtualProfile
    <3> QED BY <3>2 DEF FileAnswers
  <2>2. augmented = {h \in Heads : blocks[h] = "driver"}
    BY DEF ScanInv
  <2> QED BY <2>1, <2>2, HeldIsAnswered, FakePointersAnswered DEF FakesStayInside
<1> QED BY <1>1, <1>2, <1>3, PTL DEF Surface

-----------------------------------------------------------------------------
(* SDL's device detection *)

\* The counters do not come around while the driver lives: a session is offered
\* and withdrawn once, and the program's counters have 32 bits.
ChangesFit ==
  /\ IsFiniteSet(Sessions)
  /\ 2 * Cardinality(Sessions) < GenerationModulus
  /\ 2 * Cardinality(Sessions) + MaxNative < CounterModulus

\* Every session on offer has had one change, every one withdrawn two.
OfferInv ==
  /\ spent \subseteq Sessions
  /\ current \in Sessions \cup {NoSession}
  /\ sound \in BOOLEAN
  /\ sound => current # NoSession
  /\ generation \in Nat
  /\ generation + (IF current = NoSession THEN 0 ELSE 1) <= 2 * Cardinality(spent)

\* Remainders of small numbers.
LEMMA SmallMod ==
  /\ \A x, m \in Nat : x < m => x % m = x
  /\ \A x, m \in Nat : m > 0 /\ m <= x /\ x < 2 * m => x % m = x - m
OBVIOUS

\* How many there can be.
LEMMA FewChanges ==
  ASSUME ChangesFit, OfferInv
  PROVE  /\ IsFiniteSet(spent) /\ Cardinality(spent) \in Nat
         /\ Cardinality(Sessions) \in Nat
         /\ generation + (IF current = NoSession THEN 0 ELSE 1) <= 2 * Cardinality(Sessions)
         /\ generation < GenerationModulus
         /\ generation + MaxNative < CounterModulus
<1>1. IsFiniteSet(spent) /\ Cardinality(spent) <= Cardinality(Sessions)
  BY FS_Subset DEF ChangesFit, OfferInv
<1>2. Cardinality(spent) \in Nat /\ Cardinality(Sessions) \in Nat
  BY <1>1, FS_CardinalityType DEF ChangesFit
<1>3. generation + (IF current = NoSession THEN 0 ELSE 1) <= 2 * Cardinality(Sessions)
  BY <1>1, <1>2 DEF OfferInv
<1>4. generation <= 2 * Cardinality(Sessions)
  BY <1>2, <1>3 DEF OfferInv
<1> QED BY <1>1, <1>2, <1>3, <1>4, LeaseAssumption, CounterAssumption DEF ChangesFit, OfferInv

\* A step of the connection leaves the offer, or lets its session fail, or is
\* one more change.
LEMMA OfferStep ==
  ASSUME ChangesFit, OfferInv, [Next]_vars
  PROVE  /\ OfferInv'
         /\ \/ UNCHANGED offer
            \/ UNCHANGED <<current, generation>> /\ current # NoSession /\ ~sound'
            \/ generation' = generation + 1 /\ generation' + MaxNative < CounterModulus
<1> DEFINE Changed == generation' = generation + 1 /\ generation' + MaxNative < CounterModulus
<1>1. CASE UNCHANGED <<offer, spent>>
  BY <1>1 DEF OfferInv, offer
<1>2. ASSUME NEW s \in Sessions, Offer(s) PROVE OfferInv' /\ Changed
  <2>1. IsFiniteSet(spent) /\ Cardinality(spent) \in Nat /\ s \notin spent
    BY <1>2, FewChanges DEF Offer
  <2>2. Cardinality(spent') = Cardinality(spent) + 1
    BY <1>2, <2>1, FS_AddElement DEF Offer
  <2>3. spent' \subseteq Sessions
    BY <1>2 DEF OfferInv, Offer
  <2>4. generation + 0 <= 2 * Cardinality(spent) /\ generation \in Nat
    BY <1>2 DEF OfferInv, Offer
  <2>5. IsFiniteSet(Sessions) /\ Cardinality(spent') <= Cardinality(Sessions) /\ Cardinality(Sessions) \in Nat
    BY <2>3, FS_Subset, FS_CardinalityType DEF ChangesFit
  <2>6. generation + 2 <= 2 * Cardinality(spent') /\ generation + 1 < GenerationModulus
    BY <2>1, <2>2, <2>4, <2>5, LeaseAssumption DEF ChangesFit
  <2>7. generation' = generation + 1
    <3>1. generation + 1 \in Nat /\ GenerationModulus \in Nat
      BY <2>4, LeaseAssumption
    <3>2. (generation + 1) % GenerationModulus = generation + 1
      BY <3>1, <2>6, SmallMod
    <3> QED BY <1>2, <3>2 DEF Offer, Change
  <2>8. current' \in Sessions /\ current' # NoSession /\ sound' \in BOOLEAN
    BY <1>2, LeaseAssumption DEF Offer
  <2>9. Changed
    BY <2>1, <2>2, <2>4, <2>5, <2>6, <2>7, CounterAssumption DEF ChangesFit
  <2> QED BY <2>3, <2>4, <2>6, <2>7, <2>8, <2>9 DEF OfferInv
<1>3. ASSUME Withdraw PROVE OfferInv' /\ Changed
  <2>1. generation \in Nat /\ generation + 1 <= 2 * Cardinality(spent)
    BY <1>3 DEF Withdraw, OfferInv
  <2>2. generation + 1 < GenerationModulus /\ generation + 1 + MaxNative < CounterModulus
    <3>1. generation + 1 <= 2 * Cardinality(Sessions) /\ Cardinality(Sessions) \in Nat
      BY <1>3, FewChanges DEF Withdraw
    <3> QED BY <3>1, <2>1, LeaseAssumption, CounterAssumption DEF ChangesFit
  <2>3. generation' = generation + 1
    <3>1. generation + 1 \in Nat /\ GenerationModulus \in Nat
      BY <2>1, LeaseAssumption
    <3>2. (generation + 1) % GenerationModulus = generation + 1
      BY <3>1, <2>2, SmallMod
    <3> QED BY <1>3, <3>2 DEF Withdraw, Change
  <2>4. current' = NoSession /\ sound' = FALSE /\ spent' = spent
    BY <1>3 DEF Withdraw
  <2>5. generation' \in Nat /\ generation' + 0 <= 2 * Cardinality(spent')
    BY <2>1, <2>3, <2>4
  <2> QED BY <2>2, <2>3, <2>4, <2>5 DEF OfferInv
<1>4. ASSUME NEW s \in Sessions, Discard(s) PROVE OfferInv' /\ UNCHANGED offer
  <2>1. IsFiniteSet(spent) /\ Cardinality(spent) \in Nat /\ s \notin spent
    BY <1>4, FewChanges DEF Discard
  <2>2. Cardinality(spent') = Cardinality(spent) + 1
    BY <1>4, <2>1, FS_AddElement DEF Discard
  <2>3. \A m, n, k \in Nat : m + k <= 2 * n => m + k <= 2 * (n + 1)
    OBVIOUS
  <2>4. generation + (IF current = NoSession THEN 0 ELSE 1) <= 2 * Cardinality(spent')
    BY <2>1, <2>2, <2>3 DEF OfferInv
  <2> QED BY <1>4, <2>4 DEF Discard, OfferInv, offer
<1>5. ASSUME Sicken
      PROVE  OfferInv' /\ UNCHANGED <<current, generation>> /\ current # NoSession /\ ~sound'
  BY <1>5 DEF Sicken, OfferInv
<1>6. ASSUME NEW s \in Sessions, End(s) PROVE UNCHANGED <<offer, spent>>
  BY <1>6 DEF End
<1>7. ASSUME NEW c \in Borrowers, Borrow(c) \/ Return(c) PROVE UNCHANGED <<offer, spent>>
  BY <1>7 DEF Borrow, Return
<1>8. CASE Close
  BY <1>8, <1>1 DEF Close
<1>9. CASE UNCHANGED vars
  BY <1>9, <1>1 DEF vars
<1> QED BY <1>1, <1>2, <1>3, <1>4, <1>5, <1>6, <1>7, <1>8, <1>9 DEF Next, offer

\* Nothing has been offered yet.
LEMMA OfferBegins == SurfaceInit => OfferInv
<1> SUFFICES ASSUME SurfaceInit PROVE OfferInv
  OBVIOUS
<1>1. spent = {} /\ current = NoSession /\ sound = FALSE /\ generation = 0
  BY DEF SurfaceInit, Init
<1>2. Cardinality(spent) = 0
  BY <1>1, FS_EmptySet
<1>3. generation + 0 <= 2 * Cardinality(spent)
  BY <1>1, <1>2
<1> QED BY <1>1, <1>3 DEF OfferInv

\* The connection takes no notice of the handles, SDL's loop and the walk.
LEMMA SurfaceIsConnection ==
  ASSUME [SurfaceNext]_surfaceVars PROVE [Next]_vars
BY DEF SurfaceNext, HandlesPart, HandlesNext, LeaseStep, DetectionStep, WalkStep, surfaceVars

\* What SDL would find now, and a session that failed but is still on offer.
Now     == Enumerated(native.list, 0, 0, Catalog)
Failing == current # NoSession /\ ~sound

\* What SDL has, wherever it is in its enumeration, when nothing has changed
\* since it polled.
Picture ==
  /\ scan.at = "native" => scan.list = native.list
  /\ scan.at = "held" => scan.list = Now \/ Failing
  /\ scan.at = "rest" => view = Now \/ Failing

\* The count n after d changes.
After(n, d) == IF n + d < CounterModulus THEN n + d ELSE n + d - CounterModulus

\* The count is d changes further than the one SDL remembers; fewer changes
\* than it takes for the count to come around.
PollInv ==
  /\ nativeChanges \in 0 .. MaxNative
  /\ native.count \in 0 .. CounterModulus - 1
  /\ knownCount \in 0 .. CounterModulus - 1
  /\ \E d \in 0 .. generation + nativeChanges :
       /\ DeviceChangeCount = After(knownCount, d)
       /\ d = 0 => Picture

\* Adding to a count that wraps.
LEMMA CountAfter ==
  ASSUME NEW n \in 0 .. CounterModulus - 1, NEW d \in 0 .. CounterModulus - 1
  PROVE  /\ (n + d) % CounterModulus = After(n, d)
         /\ After(n, d) \in 0 .. CounterModulus - 1
         /\ d # 0 => After(n, d) # n
         /\ d + 1 < CounterModulus => /\ After(n, d + 1) = After(After(n, d), 1)
                                      /\ After(After(n, 1), d) = After(n, d + 1)
<1>1. CounterModulus \in Nat /\ n \in Nat /\ d \in Nat /\ n < CounterModulus /\ d < CounterModulus
  BY CounterAssumption
<1>2. (n + d) % CounterModulus = After(n, d)
  <2>1. CASE n + d < CounterModulus
    BY <2>1, <1>1, SmallMod DEF After
  <2>2. CASE CounterModulus <= n + d
    BY <2>2, <1>1, SmallMod DEF After
  <2> QED BY <2>1, <2>2, <1>1
<1> QED BY <1>1, <1>2 DEF After

\* A step of the connection, seen from SDL's loop.
LEMMA PollUnderLease ==
  ASSUME ChangesFit, OfferInv, PollInv, [Next]_vars, UNCHANGED sdlVars
  PROVE  PollInv'
<1>1. PICK d \in 0 .. generation + nativeChanges :
        DeviceChangeCount = After(knownCount, d) /\ (d = 0 => Picture)
  BY DEF PollInv
<1>2. generation \in Nat /\ generation + MaxNative < CounterModulus /\ generation < CounterModulus
  BY FewChanges, CounterAssumption DEF OfferInv
<1>3. native' = native /\ nativeChanges' = nativeChanges /\ knownCount' = knownCount /\ scan' = scan /\ view' = view
  BY DEF sdlVars
<1>4. CASE generation' = generation
  <2>1. DeviceChangeCount' = After(knownCount', d)
    BY <1>1, <1>3, <1>4 DEF DeviceChangeCount, After
  <2>2. CASE UNCHANGED offer
    <3>1. Now' = Now /\ (Failing' <=> Failing)
      BY <1>3, <2>2 DEF Now, Failing, Catalog, Advertised, offer
    <3>2. d = 0 => Picture'
      BY <1>1, <1>3, <3>1 DEF Picture
    <3> QED BY <1>3, <1>4, <1>1, <2>1, <3>2 DEF PollInv
  <2>3. CASE Failing'
    <3>1. d = 0 => Picture'
      BY <1>1, <1>3, <2>3 DEF Picture
    <3> QED BY <1>3, <1>4, <1>1, <2>1, <3>1 DEF PollInv
  <2> QED BY <2>2, <2>3, <1>2, <1>4, OfferStep DEF Failing
<1>5. CASE generation' = generation + 1 /\ generation' + MaxNative < CounterModulus
  <2>1. /\ d \in Nat /\ d + 1 # 0 /\ d + 1 \in 0 .. generation' + nativeChanges'
        /\ d + 1 < CounterModulus /\ generation + 1 < CounterModulus
    BY <1>1, <1>2, <1>3, <1>5, CounterAssumption DEF PollInv
  <2>2. DeviceChangeCount' = After(knownCount', d + 1)
    <3>1. /\ native.count \in 0 .. CounterModulus - 1 /\ knownCount \in 0 .. CounterModulus - 1
          /\ d \in 0 .. CounterModulus - 1 /\ generation \in 0 .. CounterModulus - 1
          /\ generation + 1 \in 0 .. CounterModulus - 1
      BY <1>2, <2>1, CounterAssumption DEF PollInv
    <3>2. DeviceChangeCount = After(native.count, generation)
      BY <3>1, CountAfter DEF DeviceChangeCount
    <3>3. DeviceChangeCount' = After(native.count, generation + 1)
      BY <3>1, <1>3, <1>5, CountAfter DEF DeviceChangeCount
    <3>4. After(native.count, generation + 1) = After(After(native.count, generation), 1)
      BY <3>1, <2>1, CountAfter
    <3>5. After(knownCount, d + 1) = After(After(knownCount, d), 1)
      BY <3>1, <2>1, CountAfter
    <3> QED BY <3>2, <3>3, <3>4, <3>5, <1>1, <1>3 DEF After
  <2> QED BY <1>3, <2>1, <2>2 DEF PollInv
<1> QED BY <1>4, <1>5, OfferStep DEF offer

\* A step of SDL's loop, which nothing of the connection's takes part in.
LEMMA PollStep ==
  ASSUME ChangesFit, OfferInv, PollInv, ScanInv, DetectionStep
  PROVE  PollInv'
<1>1. PICK d \in 0 .. generation + nativeChanges :
        DeviceChangeCount = After(knownCount, d) /\ (d = 0 => Picture)
  BY DEF PollInv
<1>2. generation \in Nat /\ generation + MaxNative < CounterModulus /\ generation < CounterModulus
  BY FewChanges, CounterAssumption DEF OfferInv
<1>3. generation' = generation /\ UNCHANGED offer /\ (Failing' <=> Failing)
  BY DEF DetectionStep, vars, offer, Failing
<1>4. Catalog' = Catalog
  BY <1>3 DEF Catalog, Advertised, offer
<1>5. ASSUME UNCHANGED <<native, nativeChanges, knownCount>>, d = 0 => Picture' PROVE PollInv'
  <2>1. DeviceChangeCount' = After(knownCount', d)
    BY <1>1, <1>3, <1>5 DEF DeviceChangeCount, After
  <2> QED BY <1>1, <1>3, <1>5, <2>1 DEF PollInv
<1>6. scan = [at |-> scan.at, head |-> scan.head, list |-> scan.list]
  BY DEF ScanInv
<1>7. CASE PollChangeCount
  <2>1. native.count \in 0 .. CounterModulus - 1 /\ generation \in 0 .. CounterModulus - 1
    BY <1>2, CounterAssumption DEF PollInv
  <2>2. DeviceChangeCount \in 0 .. CounterModulus - 1
    <3>1. DeviceChangeCount = After(native.count, generation)
      BY <2>1, CountAfter DEF DeviceChangeCount
    <3>2. After(native.count, generation) \in 0 .. CounterModulus - 1
      BY <2>1, CountAfter
    <3> QED BY <3>1, <3>2
  <2>3. DeviceChangeCount' = knownCount' /\ knownCount' = DeviceChangeCount
    BY <1>3, <1>7 DEF PollChangeCount, DeviceChangeCount
  <2>4. After(knownCount', 0) = knownCount'
    BY <2>2, <2>3, CounterAssumption DEF After
  <2>5. scan'.at = "due"
    BY <1>6, <1>7 DEF PollChangeCount
  <2>6. Picture'
    BY <2>5 DEF Picture
  <2>7. 0 \in 0 .. generation' + nativeChanges'
    BY <1>2, <1>3, <1>7, CounterAssumption DEF PollInv, PollChangeCount
  <2> QED BY <1>7, <2>2, <2>3, <2>4, <2>6, <2>7 DEF PollInv, PollChangeCount
<1>8. CASE EnumerateNative
  <2>1. scan'.at = "native" /\ scan'.list = native.list
    BY <1>8 DEF EnumerateNative
  <2>2. Picture'
    BY <1>8, <2>1 DEF Picture, EnumerateNative
  <2> QED BY <1>5, <1>8, <2>2 DEF EnumerateNative
<1>9. CASE EnumerateVirtual
  <2>1. scan.at = "native" /\ UNCHANGED <<native, nativeChanges, knownCount, view>>
    BY <1>9 DEF EnumerateVirtual
  <2>2. scan'.at = "held" /\ scan'.list = Enumerated(scan.list, 0, 0, Catalog)
    <3> DEFINE found == Enumerated(scan.list, 0, 0, Catalog)
    <3>1. \/ scan' = [scan EXCEPT !.at = "held", !.list = found]
          \/ \E h \in Heads : scan' = [at |-> "held", head |-> h, list |-> found]
      BY <1>9 DEF EnumerateVirtual
    <3> HIDE DEF found
    <3>2. ASSUME scan' = [scan EXCEPT !.at = "held", !.list = found]
          PROVE  scan'.at = "held" /\ scan'.list = found
      <4>1. "at" \in DOMAIN scan /\ "list" \in DOMAIN scan
        BY <1>6
      <4> QED BY <3>2, <4>1
    <3>3. ASSUME NEW h \in Heads, scan' = [at |-> "held", head |-> h, list |-> found]
          PROVE  scan'.at = "held" /\ scan'.list = found
      BY <3>3
    <3> QED BY <3>1, <3>2, <3>3 DEF found
  <2>3. d = 0 => Enumerated(scan.list, 0, 0, Catalog) = Now'
    BY <1>1, <1>4, <2>1 DEF Picture, Now
  <2>4. d = 0 => Picture'
    BY <2>2, <2>3 DEF Picture
  <2> QED BY <1>5, <2>1, <2>4
<1>10. CASE FreeEnumeration
  <2>1. /\ scan.at = "held" /\ UNCHANGED <<native, nativeChanges, knownCount>>
        /\ scan'.at = "rest" /\ view' = scan.list
    BY <1>10 DEF FreeEnumeration
  <2>2. Now' = Now
    BY <1>4, <2>1 DEF Now
  <2>3. d = 0 => Picture'
    BY <1>1, <1>3, <2>1, <2>2 DEF Picture
  <2> QED BY <1>5, <2>1, <2>3
<1>11. CASE NativeChange
  <2>1. /\ nativeChanges' = nativeChanges + 1 /\ nativeChanges \in Nat /\ nativeChanges' <= MaxNative
        /\ nativeChanges' \in 0 .. MaxNative
        /\ native'.count = (native.count + 1) % CounterModulus /\ knownCount' = knownCount
    BY <1>11, CounterAssumption DEF NativeChange, PollInv
  <2>2. /\ d \in Nat /\ d + 1 # 0 /\ d + 1 \in 0 .. generation' + nativeChanges' /\ d + 1 < CounterModulus
        /\ generation + 1 < CounterModulus
    BY <1>1, <1>2, <1>3, <2>1, CounterAssumption
  <2>3. /\ native.count \in 0 .. CounterModulus - 1 /\ knownCount \in 0 .. CounterModulus - 1
        /\ d \in 0 .. CounterModulus - 1 /\ generation \in 0 .. CounterModulus - 1
        /\ 1 \in 0 .. CounterModulus - 1
    BY <1>2, <2>2, CounterAssumption DEF PollInv
  <2>4. native'.count = After(native.count, 1) /\ native'.count \in 0 .. CounterModulus - 1
    <3>1. (native.count + 1) % CounterModulus = After(native.count, 1)
      BY <2>3, CountAfter
    <3>2. After(native.count, 1) \in 0 .. CounterModulus - 1
      BY <2>3, CountAfter
    <3> QED BY <2>1, <3>1, <3>2
  <2>5. DeviceChangeCount' = After(After(native.count, 1), generation)
    BY <1>3, <2>3, <2>4, CountAfter DEF DeviceChangeCount
  <2>6. DeviceChangeCount = After(native.count, generation)
    BY <2>3, CountAfter DEF DeviceChangeCount
  <2>7. After(After(native.count, 1), generation) = After(After(native.count, generation), 1)
    <3>1. After(native.count, generation + 1) = After(After(native.count, generation), 1)
      BY <2>2, <2>3, CountAfter
    <3>2. After(After(native.count, 1), generation) = After(native.count, generation + 1)
      BY <2>2, <2>3, CountAfter
    <3> QED BY <3>1, <3>2
  <2>8. After(After(knownCount, d), 1) = After(knownCount, d + 1)
    BY <2>2, <2>3, CountAfter
  <2>9. DeviceChangeCount' = After(knownCount', d + 1)
    BY <2>1, <2>5, <2>6, <2>7, <2>8, <1>1
  <2> QED BY <2>1, <2>2, <2>3, <2>4, <2>9 DEF PollInv
<1> QED BY <1>7, <1>8, <1>9, <1>10, <1>11 DEF DetectionStep

\* Whatever devices come and go, and whatever sessions are offered, fail and are
\* withdrawn while SDL polls, enumerates and gives lists back: an SDL that
\* knows the count has the picture, short of 2^32 changes between two polls.
THEOREM NothingMissed == ASSUME ChangesFit PROVE Surface => []NoMissedChange
<1>1. SurfaceInit => OfferInv /\ ScanInv /\ PollInv
  <2> SUFFICES ASSUME SurfaceInit PROVE OfferInv /\ ScanInv /\ PollInv
    OBVIOUS
  <2>1. OfferInv
    BY OfferBegins
  <2>2. ScanInv
    BY DEF SurfaceInit, ScanInv, Heads, Null0
  <2>3. native.count \in 0 .. CounterModulus - 1 /\ generation = 0 /\ nativeChanges = 0
    BY CounterAssumption DEF SurfaceInit, Init
  <2>4. 0 \in 0 .. CounterModulus - 1
    BY CounterAssumption
  <2>5. knownCount = DeviceChangeCount /\ DeviceChangeCount \in 0 .. CounterModulus - 1
    BY <2>3, <2>4, CountAfter DEF SurfaceInit, DeviceChangeCount
  <2>6. After(knownCount, 0) = knownCount
    BY <2>5, CounterAssumption DEF After
  <2>7. Picture
    BY DEF SurfaceInit, Picture
  <2>8. PollInv
    BY <2>3, <2>4, <2>5, <2>6, <2>7, CounterAssumption DEF PollInv
  <2> QED BY <2>1, <2>2, <2>8
<1>2. OfferInv /\ ScanInv /\ PollInv /\ [SurfaceNext]_surfaceVars => OfferInv' /\ ScanInv' /\ PollInv'
  <2> SUFFICES ASSUME OfferInv, ScanInv, PollInv, [SurfaceNext]_surfaceVars
               PROVE  OfferInv' /\ ScanInv' /\ PollInv'
    OBVIOUS
  <2>1. [Next]_vars
    BY SurfaceIsConnection
  <2>2. DetectionStep \/ UNCHANGED sdlVars
    BY DEF SurfaceNext, HandlesPart, WalkStep, surfaceVars
  <2> QED BY <2>1, <2>2, OfferStep, ScanStep, PollStep, PollUnderLease
<1>3. OfferInv /\ PollInv => NoMissedChange
  <2> SUFFICES ASSUME OfferInv, PollInv, scan.at = "rest", knownCount = DeviceChangeCount
               PROVE  view = Now \/ Failing
    BY DEF NoMissedChange, Now, Failing
  <2>1. PICK d \in 0 .. generation + nativeChanges :
          DeviceChangeCount = After(knownCount, d) /\ (d = 0 => Picture)
    BY DEF PollInv
  <2>2. d \in 0 .. CounterModulus - 1 /\ knownCount \in 0 .. CounterModulus - 1
    BY FewChanges, CounterAssumption DEF PollInv, OfferInv
  <2>3. d = 0
    BY <2>1, <2>2, CountAfter
  <2> QED BY <2>1, <2>3 DEF Picture
<1> QED BY <1>1, <1>2, <1>3, PTL DEF Surface

-----------------------------------------------------------------------------
(* The SetupAPI walk *)

\* A list of rows grows by one.
LEMMA ListedAppend ==
  ASSUME NEW n \in Nat, NEW f, f = [i \in 1 .. n |-> f[i]], NEW e
  PROVE  /\ Len(f) = n
         /\ Append(f, e) = [i \in 1 .. n + 1 |-> IF i = n + 1 THEN e ELSE f[i]]
<1> DEFINE S == {f[i] : i \in 1 .. n} \cup {e}
<1>1. f \in [1 .. n -> S]
  OBVIOUS
<1>2. e \in S
  OBVIOUS
<1> HIDE DEF S
<1>3. f \in Seq(S) /\ Len(f) = n
  BY <1>1, SeqDef, LenProperties
<1>4. /\ Append(f, e) \in Seq(S) /\ Len(Append(f, e)) = n + 1
      /\ Append(f, e)[n + 1] = e
      /\ \A i \in 1 .. n : Append(f, e)[i] = f[i]
  BY <1>2, <1>3, AppendProperties
<1>5. Append(f, e) = [i \in 1 .. n + 1 |-> Append(f, e)[i]]
  BY <1>4, LenProperties
<1> QED BY <1>3, <1>4, <1>5

\* The six hardware ids of a collection take 300 bytes.
LEMMA HardwareIdRoom == EncodedList(HardwareIdLengths, 2) = 300
<1> DEFINE F(f) == [i \in 0 .. Len(HardwareIdLengths) |->
                      IF i = 0 THEN 0 ELSE f[i - 1] + HardwareIdLengths[i] + 1]
           end == CHOOSE f : f = F(f)
           g == [i \in 0 .. 6 |-> IF i = 0 THEN 0 ELSE IF i = 1 THEN 34 ELSE IF i = 2 THEN 62
                                  ELSE IF i = 3 THEN 84 ELSE IF i = 4 THEN 112
                                  ELSE IF i = 5 THEN 138 ELSE 149]
<1>1. EncodedList(HardwareIdLengths, 2) = 2 * (end[Len(HardwareIdLengths)] + 1)
  BY DEF EncodedList
<1>2. /\ Len(HardwareIdLengths) = 6
      /\ HardwareIdLengths[1] = 33 /\ HardwareIdLengths[2] = 27 /\ HardwareIdLengths[3] = 21
      /\ HardwareIdLengths[4] = 27 /\ HardwareIdLengths[5] = 25 /\ HardwareIdLengths[6] = 10
  BY DEF HardwareIdLengths
<1>3. \A i \in 0 .. 6 : F(g)[i] = g[i]
  <2> TAKE i \in 0 .. 6
  <2>1. i = 0 \/ i = 1 \/ i = 2 \/ i = 3 \/ i = 4 \/ i = 5 \/ i = 6
    OBVIOUS
  <2> QED BY <2>1, <1>2
<1>4. g = F(g)
  BY <1>2, <1>3
<1> HIDE DEF F, g
<1>5. end = F(end)
  BY <1>4
<1> HIDE DEF end
<1>6. /\ end[0] = 0 /\ end[1] = end[0] + 34 /\ end[2] = end[1] + 28 /\ end[3] = end[2] + 22
      /\ end[4] = end[3] + 28 /\ end[5] = end[4] + 26 /\ end[6] = end[5] + 11
  BY <1>2, <1>5 DEF F
<1>7. end[6] = 149
  BY <1>6
<1> QED BY <1>1, <1>2, <1>7

\* The numbers of the collections tell them apart.
LEMMA SuffixOf ==
  \A p \in Profiles : InstanceSuffix(p) \in 1 .. 5 /\ ALL[InstanceSuffix(p)] = p
<1> TAKE p \in Profiles
<1>1. Len(ALL) = 5
  BY DEF ALL
<1>2. \E i \in 1 .. Len(ALL) : ALL[i] = p
  BY DEF Profiles
<1> QED BY <1>1, <1>2 DEF InstanceSuffix

LEMMA NumbersGoBack ==
  ASSUME NEW p \in Profiles
  PROVE  /\ ProfileForReserved(InterfaceReserved(p)) = p
         /\ \A known \in SUBSET Profiles :
              ProfileForDevInst(28, DevInst(p), known) = IF p \in known THEN p ELSE NoProfile
<1>1. InstanceSuffix(p) \in 1 .. 5 /\ ALL[InstanceSuffix(p)] = p
  BY SuffixOf
<1>2. \A q \in Profiles : DevInst(q) = DevInst(p) => q = p
  <2> TAKE q \in Profiles
  <2>1. InstanceSuffix(q) \in 1 .. 5 /\ ALL[InstanceSuffix(q)] = q
    BY SuffixOf
  <2>2. DevInst(q) = DevInst(p) => InstanceSuffix(q) = InstanceSuffix(p)
    BY <1>1, <2>1 DEF DevInst
  <2> QED BY <1>1, <2>1, <2>2
<1>3. InstanceSuffix(p) + 1 \in 2 .. 6 /\ (InstanceSuffix(p) + 1) - 1 = InstanceSuffix(p)
  BY <1>1
<1>4. ProfileForReserved(InterfaceReserved(p)) = p
  BY <1>1, <1>3 DEF ProfileForReserved, InterfaceReserved, Reserved
<1>5. ASSUME NEW known \in SUBSET Profiles
      PROVE  ProfileForDevInst(28, DevInst(p), known) = IF p \in known THEN p ELSE NoProfile
  <2>1. CASE p \in known
    <3>1. (CHOOSE q \in known : DevInst(q) = DevInst(p)) = p
      BY <1>2, <2>1
    <3> QED BY <2>1, <3>1 DEF ProfileForDevInst
  <2>2. CASE p \notin known
    <3>1. ~ \E q \in known : DevInst(q) = DevInst(p)
      BY <1>2, <2>2
    <3> QED BY <2>2, <3>1 DEF ProfileForDevInst
  <2> QED BY <2>1, <2>2
<1> QED BY <1>4, <1>5

\* What the driver offers now: profiles, named after a serial with a length.
LEMMA CatalogNow ==
  ASSUME current \in Sessions \cup {NoSession}, sound => current # NoSession
  PROVE  /\ Len(Catalog.descriptors) \in Nat
         /\ \A i \in 1 .. Len(Catalog.descriptors) : Catalog.descriptors[i].profile \in Profiles
         /\ Offered(Catalog) \subseteq Profiles
         /\ Len(Catalog.identity.serial) \in Nat
<1>1. CASE Advertised = NoSession
  <2>1. Catalog = NoCatalog
    BY <1>1 DEF Catalog
  <2>2. NoCatalog.identity.serial = <<>>
    BY DEF NoCatalog, FromIdentity
  <2>3. Len(<<>>) = 0
    OBVIOUS
  <2>4. Len(NoCatalog.identity.serial) \in Nat
    BY <2>2, <2>3
  <2>5. Len(NoCatalog.descriptors) = 0 /\ Offered(NoCatalog) = {}
    BY NoCatalogIsEmpty
  <2> QED BY <2>1, <2>4, <2>5
<1>2. CASE Advertised # NoSession
  <2>1. Advertised = current /\ current \in Sessions
    BY <1>2 DEF Advertised
  <2>2. Catalog = FromIdentity(IdentityOf[current], <<>>)
    BY <1>2, <2>1 DEF Catalog, CatalogOf, Catalogs
  <2>3. Catalog.identity = IdentityOf[current]
    BY <2>2 DEF FromIdentity
  <2>4. /\ Len(Catalog.descriptors) \in Nat
        /\ \A i \in 1 .. Len(Catalog.descriptors) : Catalog.descriptors[i].profile \in Profiles
    BY <2>2, CatalogShape
  <2>5. Offered(Catalog) \subseteq Profiles
    BY <2>4 DEF Offered
  <2>6. Len(Catalog.identity.serial) \in Nat
    BY <2>1, <2>3, SerialAssumption
  <2> QED BY <2>4, <2>5, <2>6
<1> QED BY <1>1, <1>2

\* What a walk has: as many rows as there are answers, none too long for its
\* room, and device instances remembered for collections only.
WalkShape ==
  /\ devinsts \subseteq Profiles
  /\ walk # NoWalk =>
       /\ walk = [at |-> walk.at, asks |-> walk.asks, since |-> walk.since, index |-> walk.index,
                  profile |-> walk.profile, room |-> walk.room, listed |-> walk.listed]
       /\ walk.at \in {"listing", "asking", "done"}
       /\ walk.asks \in Questions
       /\ walk.since \in Nat /\ walk.since <= generation
       /\ walk.index \in Nat /\ walk.room \in Nat
       /\ walk.at = "asking" => walk.profile \in Profiles
       /\ \E n \in Nat : /\ walk.listed = [i \in 1 .. n |-> walk.listed[i]]
                         /\ \A i \in 1 .. n : walk.listed[i].fits = TRUE

\* What the present member's answer takes, and the row its answer makes.
Room(p) ==
  CASE walk.asks = "detail"       -> 4 + 2 * (PathLength(DevicePath(Catalog, p)) + 1)
    [] walk.asks = "instance id"  -> InstanceLength(DevicePath(Catalog, p)) + 1
    [] walk.asks = "hardware ids" -> 300
Row(i) ==
  LET p == Catalog.descriptors[i].profile
  IN  [profile |-> p, value |-> Wanted(Catalog, p), fits |-> TRUE]

\* A walk under the offer it began with has listed the catalog so far.
WalkSoFar ==
  (walk # NoWalk /\ walk.since = generation /\ sound) =>
     /\ walk.index <= Len(Catalog.descriptors)
     /\ walk.listed = [i \in 1 .. walk.index |-> Row(i)]
     /\ walk.at = "asking" =>
          /\ walk.index < Len(Catalog.descriptors)
          /\ walk.profile = Catalog.descriptors[walk.index + 1].profile
          /\ walk.room = 0 \/ walk.room = Room(walk.profile)
          /\ walk.asks # "detail" => walk.profile \in devinsts
     /\ walk.at = "done" => walk.index = Len(Catalog.descriptors)

\* An answer is written into room enough, or not at all.
LEMMA WriteFits ==
  ASSUME NEW value, NEW required \in Nat, NEW room \in Nat
  PROVE  LET a == Write(value, required, room)
         IN  /\ a.required = required
             /\ a.status = "OK" <=> required <= room
             /\ a.status = "INSUFFICIENT_BUFFER" <=> room < required
             /\ a.status = "OK" => a.value = value
             /\ a.status # "NO_MORE_ITEMS"
<1>1. CASE room < required
  BY <1>1 DEF Write, Answer
<1>2. CASE required <= room
  BY <1>2 DEF Write, Answer
<1> QED BY <1>1, <1>2

\* Whatever is asked of whatever catalog: an answer fits, or is none.
LEMMA AskFits ==
  ASSUME current \in Sessions \cup {NoSession}, sound => current # NoSession,
         devinsts \subseteq Profiles, walk.asks \in Questions, walk.profile \in Profiles,
         NEW room \in Nat
  PROVE  /\ Ask(room).required \in Nat
         /\ Ask(room).status = "OK" => Ask(room).required <= room
         /\ Ask(room).status = "INSUFFICIENT_BUFFER" => room < Ask(room).required
<1> DEFINE p == ProfileForDevInst(28, DevInst(walk.profile), devinsts)
           Fine(a) == /\ a.required \in Nat
                      /\ a.status = "OK" => a.required <= room
                      /\ a.status = "INSUFFICIENT_BUFFER" => room < a.required
<1>1. \A s \in {"NO_MORE_ITEMS", "NATIVE"} : Fine(Failed(s))
  BY DEF Failed, Answer
<1>2. \A value : \A required \in Nat : Fine(Write(value, required, room))
  BY WriteFits
<1>3. \A q : DevicePath(Catalog, q).serial = Catalog.identity.serial
  BY DEF DevicePath
<1>4. Len(Catalog.identity.serial) \in Nat
  BY CatalogNow
<1>5. \A q : /\ 4 + 2 * (PathLength(DevicePath(Catalog, q)) + 1) \in Nat
             /\ InstanceLength(DevicePath(Catalog, q)) + 1 \in Nat
  BY <1>3, <1>4 DEF PathLength, InstanceLength
<1> HIDE DEF Fine, p
<1>6. CASE walk.asks = "detail"
  <2>1. Ask(room) = SynthesizeDetail(walk.profile, Catalog, room, 2)
    BY <1>6, NumbersGoBack, NothingIsNoProfile DEF Ask, InterfaceDetail
  <2> QED BY <2>1, <1>1, <1>2, <1>5 DEF SynthesizeDetail, Fine
<1>7. CASE walk.asks = "instance id"
  <2>1. Ask(room) = InstanceId(Synthetic, p, Catalog, room)
    BY <1>7 DEF Ask, p
  <2> QED BY <2>1, <1>1, <1>2, <1>5 DEF InstanceId, Fine
<1>8. CASE walk.asks = "hardware ids"
  <2>1. Ask(room) = PropertyAnswer(Synthetic, p, RegistryProperty(Catalog, p, "HARDWAREID"), 300, room)
    BY <1>8, HardwareIdRoom DEF Ask, p
  <2> QED BY <2>1, <1>1, <1>2 DEF PropertyAnswer, Fine
<1> QED BY <1>6, <1>7, <1>8 DEF Questions

\* A collection of the catalog, its device instance remembered where the
\* question goes by that: the answer is what is wanted, in the room it takes.
LEMMA AskAnswers ==
  ASSUME current \in Sessions \cup {NoSession}, sound => current # NoSession,
         devinsts \subseteq Profiles, walk.asks \in Questions,
         walk.profile \in Offered(Catalog),
         walk.asks # "detail" => walk.profile \in devinsts,
         NEW room \in Nat
  PROVE  /\ Room(walk.profile) \in Nat /\ 0 < Room(walk.profile)
         /\ Ask(room) = Write(Wanted(Catalog, walk.profile), Room(walk.profile), room)
<1> DEFINE p == walk.profile
<1>1. p \in Profiles /\ p # NoProfile
  BY CatalogNow, NothingIsNoProfile
<1>2. DevicePath(Catalog, p).serial = Catalog.identity.serial /\ Len(Catalog.identity.serial) \in Nat
  BY CatalogNow DEF DevicePath
<1>3. walk.asks # "detail" => ProfileForDevInst(28, DevInst(p), devinsts) = p
  BY <1>1, NumbersGoBack
<1>4. CASE walk.asks = "detail"
  <2>1. /\ Room(p) = 4 + 2 * (PathLength(DevicePath(Catalog, p)) + 1)
        /\ Wanted(Catalog, p) = DevicePath(Catalog, p)
    BY <1>4 DEF Room, Wanted
  <2>2. Ask(room) = SynthesizeDetail(p, Catalog, room, 2)
    BY <1>1, <1>4, NumbersGoBack DEF Ask, InterfaceDetail
  <2>3. Ask(room) = Write(Wanted(Catalog, p), Room(p), room)
    BY <2>1, <2>2 DEF SynthesizeDetail
  <2>4. Room(p) \in Nat /\ 0 < Room(p)
    BY <1>2, <2>1 DEF PathLength
  <2> QED BY <2>3, <2>4
<1>5. CASE walk.asks = "instance id"
  <2>1. /\ Room(p) = InstanceLength(DevicePath(Catalog, p)) + 1
        /\ Wanted(Catalog, p) = DeviceInstanceId(Catalog, p)
    BY <1>5 DEF Room, Wanted
  <2>2. Ask(room) = InstanceId(Synthetic, p, Catalog, room)
    BY <1>3, <1>5 DEF Ask
  <2>3. Ask(room) = Write(Wanted(Catalog, p), Room(p), room)
    BY <2>1, <2>2 DEF InstanceId
  <2>4. Room(p) \in Nat /\ 0 < Room(p)
    BY <1>2, <2>1 DEF InstanceLength
  <2> QED BY <2>3, <2>4
<1>6. CASE walk.asks = "hardware ids"
  <2>1. Room(p) = 300 /\ Wanted(Catalog, p) = <<"list", HardwareIds(Catalog, p)>>
    BY <1>6 DEF Room, Wanted
  <2>2. Catalog # NoCatalog
    BY NoCatalogIsEmpty
  <2>3. RegistryProperty(Catalog, p, "HARDWAREID") = <<"list", HardwareIds(Catalog, p)>>
    BY <2>2 DEF RegistryProperty
  <2>4. <<"list", HardwareIds(Catalog, p)>> # NoValue
    BY DEF NoValue
  <2>5. Ask(room) = PropertyAnswer(Synthetic, p, <<"list", HardwareIds(Catalog, p)>>, 300, room)
    BY <1>3, <1>6, <2>3, HardwareIdRoom DEF Ask
  <2> QED BY <1>1, <2>1, <2>4, <2>5 DEF PropertyAnswer
<1> QED BY <1>4, <1>5, <1>6 DEF Questions

\* The walk rests while the connection moves.
LEMMA WalkUnderLease ==
  ASSUME ChangesFit, OfferInv, WalkShape, WalkSoFar, [Next]_vars, UNCHANGED walkVars
  PROVE  WalkShape' /\ WalkSoFar'
<1>1. walk' = walk /\ devinsts' = devinsts
  BY DEF walkVars
<1>2. generation \in Nat
  BY DEF OfferInv
<1>3. CASE UNCHANGED offer
  <2>1. generation' = generation /\ sound' = sound /\ Catalog' = Catalog
    BY <1>3 DEF offer, Catalog, Advertised
  <2>2. WalkShape'
    BY <1>1, <2>1 DEF WalkShape
  <2>3. \A p : Wanted(Catalog, p)' = Wanted(Catalog, p) /\ Room(p)' = Room(p)
    BY <1>1, <2>1 DEF Wanted, Room
  <2>4. \A i : Row(i)' = Row(i)
    BY <2>1, <2>3 DEF Row
  <2>5. WalkSoFar'
    BY <1>1, <2>1, <2>3, <2>4 DEF WalkSoFar
  <2> QED BY <2>2, <2>5
<1>4. CASE UNCHANGED <<current, generation>> /\ current # NoSession /\ ~sound'
  BY <1>1, <1>4 DEF WalkShape, WalkSoFar
<1>5. CASE generation' = generation + 1 /\ generation' + MaxNative < CounterModulus
  <2>1. walk # NoWalk => walk.since \in Nat /\ walk.since <= generation' /\ walk.since # generation'
    BY <1>2, <1>5 DEF WalkShape
  <2>2. WalkShape'
    BY <1>1, <2>1 DEF WalkShape
  <2>3. WalkSoFar'
    BY <1>1, <2>1 DEF WalkSoFar
  <2> QED BY <2>2, <2>3
<1> QED BY <1>3, <1>4, <1>5, OfferStep

\* A walk begins with nothing listed, at the generation of the moment.
LEMMA StartWalkStep ==
  ASSUME OfferInv, WalkShape, StartWalk, UNCHANGED vars
  PROVE  WalkShape' /\ WalkSoFar'
<1>1. PICK q \in Questions :
        walk' = [at |-> "listing", asks |-> q, since |-> generation, index |-> 0,
                 profile |-> NoProfile, room |-> 0, listed |-> <<>>]
  BY DEF StartWalk
<1>2. devinsts' = devinsts /\ generation' = generation /\ generation \in Nat
  BY DEF StartWalk, vars, offer, OfferInv
<1>3. Catalog' = Catalog /\ current \in Sessions \cup {NoSession} /\ (sound => current # NoSession)
  BY DEF vars, offer, OfferInv, Catalog, Advertised
<1>4. /\ walk'.at = "listing" /\ walk'.asks = q /\ walk'.since = generation /\ walk'.index = 0
      /\ walk'.room = 0 /\ walk'.listed = <<>>
  BY <1>1
<1>5. \A i \in 1 .. 0 : FALSE
  OBVIOUS
<1>6. \A e : [i \in 1 .. 0 |-> e[i]] = <<>>
  OBVIOUS
<1>7. WalkShape'
  <2>1. walk'.listed = [i \in 1 .. 0 |-> walk'.listed[i]]
    BY <1>4, <1>6
  <2>2. walk' = [at |-> walk'.at, asks |-> walk'.asks, since |-> walk'.since, index |-> walk'.index,
                 profile |-> walk'.profile, room |-> walk'.room, listed |-> walk'.listed]
    BY <1>1
  <2>3. \E n \in Nat : /\ walk'.listed = [i \in 1 .. n |-> walk'.listed[i]]
                       /\ \A i \in 1 .. n : walk'.listed[i].fits = TRUE
    BY <1>5, <2>1
  <2> QED BY <1>2, <1>4, <2>2, <2>3 DEF WalkShape
<1>8. WalkSoFar'
  <2>1. walk'.listed = [i \in 1 .. walk'.index |-> Row(i)']
    BY <1>4
  <2>2. walk'.index <= Len(Catalog'.descriptors)
    BY <1>3, <1>4, CatalogNow
  <2> QED BY <1>4, <2>1, <2>2 DEF WalkSoFar
<1> QED BY <1>7, <1>8

\* The walk's next member is the catalog's next, while there is one.
LEMMA MemberIsNext ==
  ASSUME current \in Sessions \cup {NoSession}, sound => current # NoSession,
         walk.index \in Nat
  PROVE  LET ds == Catalog.descriptors
             p  == MemberProfile(Synthetic, walk.index, Catalog)
         IN  /\ walk.index < Len(ds) => p = ds[walk.index + 1].profile /\ p \in Profiles
             /\ Len(ds) <= walk.index => p = NoProfile
             /\ p \in Profiles \cup {NoProfile}
<1>1. /\ Len(Catalog.descriptors) \in Nat
      /\ \A i \in 1 .. Len(Catalog.descriptors) : Catalog.descriptors[i].profile \in Profiles
  BY CatalogNow
<1>2. CASE walk.index < Len(Catalog.descriptors)
  <2>1. walk.index + 1 \in 1 .. Len(Catalog.descriptors) /\ ~(Len(Catalog.descriptors) <= walk.index)
    BY <1>1, <1>2
  <2> QED BY <1>1, <1>2, <2>1 DEF MemberProfile
<1>3. CASE Len(Catalog.descriptors) <= walk.index
  <2>1. ~(walk.index < Len(Catalog.descriptors))
    BY <1>1, <1>3
  <2> QED BY <2>1 DEF MemberProfile
<1> QED BY <1>1, <1>2, <1>3

\* The walk goes on to its next member, or has seen them all.
LEMMA NextMemberStep ==
  ASSUME OfferInv, WalkShape, WalkSoFar, NextMember, UNCHANGED vars
  PROVE  WalkShape' /\ WalkSoFar'
<1> DEFINE p == MemberProfile(Synthetic, walk.index, Catalog)
           ds == Catalog.descriptors
<1>1. walk.at = "listing" /\ walk # NoWalk
  BY DEF NextMember, NoWalk
<1>2. /\ walk = [at |-> walk.at, asks |-> walk.asks, since |-> walk.since, index |-> walk.index,
                 profile |-> walk.profile, room |-> walk.room, listed |-> walk.listed]
      /\ walk.asks \in Questions /\ walk.index \in Nat /\ walk.since \in Nat
      /\ walk.since <= generation /\ walk.room \in Nat /\ devinsts \subseteq Profiles
      /\ \E n \in Nat : /\ walk.listed = [i \in 1 .. n |-> walk.listed[i]]
                        /\ \A i \in 1 .. n : walk.listed[i].fits = TRUE
  BY <1>1 DEF WalkShape
<1>3. current \in Sessions \cup {NoSession} /\ (sound => current # NoSession)
  BY DEF OfferInv
<1>4. Catalog' = Catalog /\ generation' = generation /\ sound' = sound
  BY DEF vars, offer, Catalog, Advertised
<1>5. /\ walk.index < Len(ds) => p = ds[walk.index + 1].profile /\ p \in Profiles
      /\ Len(ds) <= walk.index => p = NoProfile
      /\ p \in Profiles \cup {NoProfile} /\ Len(ds) \in Nat
  BY <1>2, <1>3, MemberIsNext, CatalogNow
<1>6. IF p # NoProfile
        THEN /\ walk' = [walk EXCEPT !.at = "asking", !.profile = p, !.room = 0]
             /\ devinsts' = IF walk.asks = "detail" THEN devinsts ELSE devinsts \cup {p}
        ELSE walk' = [walk EXCEPT !.at = "done"] /\ UNCHANGED devinsts
  BY DEF NextMember, EnumDeviceInterfaces, EnumDeviceInfo, Failed, Answer
<1> HIDE DEF p
<1>7. CASE p # NoProfile
  <2>1. /\ walk' = [at |-> "asking", asks |-> walk.asks, since |-> walk.since, index |-> walk.index,
                    profile |-> p, room |-> 0, listed |-> walk.listed]
        /\ devinsts' = IF walk.asks = "detail" THEN devinsts ELSE devinsts \cup {p}
    BY <1>2, <1>6, <1>7
  <2>2. /\ walk'.at = "asking" /\ walk'.asks = walk.asks /\ walk'.since = walk.since
        /\ walk'.index = walk.index /\ walk'.profile = p /\ walk'.room = 0
        /\ walk'.listed = walk.listed
    BY <2>1
  <2>3. p \in Profiles /\ walk.index < Len(ds) /\ p = ds[walk.index + 1].profile
    BY <1>2, <1>5, <1>7
  <2>4. devinsts' \subseteq Profiles /\ (walk.asks # "detail" => p \in devinsts')
    BY <1>2, <2>1, <2>3
  <2>5. WalkShape'
    BY <1>2, <1>4, <2>1, <2>2, <2>3, <2>4 DEF WalkShape
  <2>6. \A i : Row(i)' = Row(i)
    BY <1>4, <2>2 DEF Row, Wanted
  <2>7. WalkSoFar'
    BY <1>1, <1>4, <2>2, <2>3, <2>4, <2>6 DEF WalkSoFar
  <2> QED BY <2>5, <2>7
<1>8. CASE p = NoProfile
  <2>1. /\ walk' = [at |-> "done", asks |-> walk.asks, since |-> walk.since, index |-> walk.index,
                    profile |-> walk.profile, room |-> walk.room, listed |-> walk.listed]
        /\ devinsts' = devinsts
    BY <1>2, <1>6, <1>8
  <2>2. /\ walk'.at = "done" /\ walk'.asks = walk.asks /\ walk'.since = walk.since
        /\ walk'.index = walk.index /\ walk'.listed = walk.listed /\ walk'.room = walk.room
    BY <2>1
  <2>3. ~(walk.index < Len(ds))
    BY <1>5, <1>8, NothingIsNoProfile
  <2>4. walk.index <= Len(ds) => walk.index = Len(ds)
    BY <1>2, <1>5, <2>3
  <2>5. WalkShape'
    BY <1>2, <1>4, <2>1, <2>2 DEF WalkShape
  <2>6. \A i : Row(i)' = Row(i)
    BY <1>4, <2>2 DEF Row, Wanted
  <2>7. WalkSoFar'
    BY <1>1, <1>4, <2>2, <2>4, <2>6 DEF WalkSoFar
  <2> QED BY <2>5, <2>7
<1> QED BY <1>7, <1>8

\* The present member is asked; its answer is a row, a room, or nothing.
LEMMA AskMemberStep ==
  ASSUME OfferInv, WalkShape, WalkSoFar, AskMember, UNCHANGED vars
  PROVE  WalkShape' /\ WalkSoFar'
<1> DEFINE a == Ask(walk.room)
           skip == [walk EXCEPT !.at = "listing", !.index = @ + 1, !.room = 0]
           row == [profile |-> walk.profile, value |-> a.value, fits |-> a.required <= walk.room]
           ds == Catalog.descriptors
           Shown == walk.since = generation /\ sound
<1>1. walk.at = "asking" /\ walk # NoWalk
  BY DEF AskMember, NoWalk
<1>2. /\ walk = [at |-> walk.at, asks |-> walk.asks, since |-> walk.since, index |-> walk.index,
                 profile |-> walk.profile, room |-> walk.room, listed |-> walk.listed]
      /\ walk.asks \in Questions /\ walk.index \in Nat /\ walk.since \in Nat
      /\ walk.since <= generation /\ walk.room \in Nat /\ devinsts \subseteq Profiles
      /\ walk.profile \in Profiles
  BY <1>1 DEF WalkShape
<1>3. PICK n \in Nat : /\ walk.listed = [i \in 1 .. n |-> walk.listed[i]]
                       /\ \A i \in 1 .. n : walk.listed[i].fits = TRUE
  BY <1>1 DEF WalkShape
<1>4. current \in Sessions \cup {NoSession} /\ (sound => current # NoSession)
  BY DEF OfferInv
<1>5. Catalog' = Catalog /\ generation' = generation /\ sound' = sound
  BY DEF vars, offer, Catalog, Advertised
<1>6. /\ a.required \in Nat
      /\ a.status = "OK" => a.required <= walk.room
      /\ a.status = "INSUFFICIENT_BUFFER" => walk.room < a.required
  BY <1>2, <1>4, AskFits
<1>7. /\ walk' = IF a.status = "INSUFFICIENT_BUFFER" /\ walk.room = 0
                   THEN [walk EXCEPT !.room = a.required]
                 ELSE IF a.status # "OK" THEN skip
                 ELSE [skip EXCEPT !.listed = Append(@, row)]
      /\ devinsts' = Remembered(a)
  BY DEF AskMember
<1>8. devinsts' \subseteq Profiles /\ devinsts \subseteq devinsts'
  BY <1>2, <1>7 DEF Remembered
<1>9. ASSUME Shown
      PROVE  /\ walk.index < Len(ds) /\ Len(ds) \in Nat
             /\ walk.listed = [i \in 1 .. walk.index |-> Row(i)]
             /\ walk.profile = ds[walk.index + 1].profile
             /\ walk.asks # "detail" => walk.profile \in devinsts
             /\ walk.room = 0 \/ walk.room = Room(walk.profile)
             /\ Room(walk.profile) \in Nat /\ 0 < Room(walk.profile)
             /\ a.required = Room(walk.profile)
             /\ a.status = "OK" <=> Room(walk.profile) <= walk.room
             /\ a.status = "INSUFFICIENT_BUFFER" <=> walk.room < Room(walk.profile)
             /\ a.status = "OK" => a.value = Wanted(Catalog, walk.profile)
  <2>1. /\ walk.index < Len(ds) /\ Len(ds) \in Nat
        /\ walk.listed = [i \in 1 .. walk.index |-> Row(i)]
        /\ walk.profile = ds[walk.index + 1].profile
        /\ walk.asks # "detail" => walk.profile \in devinsts
        /\ walk.room = 0 \/ walk.room = Room(walk.profile)
    BY <1>1, <1>4, <1>9, CatalogNow DEF WalkSoFar
  <2>2. walk.index + 1 \in 1 .. Len(ds)
    BY <1>2, <2>1
  <2>3. walk.profile \in Offered(Catalog)
    BY <2>1, <2>2 DEF Offered
  <2>4. /\ Room(walk.profile) \in Nat /\ 0 < Room(walk.profile)
        /\ a = Write(Wanted(Catalog, walk.profile), Room(walk.profile), walk.room)
    BY <1>2, <1>4, <2>1, <2>3, AskAnswers
  <2> HIDE DEF a, ds
  <2>5. /\ a.required = Room(walk.profile)
        /\ a.status = "OK" <=> Room(walk.profile) <= walk.room
        /\ a.status = "INSUFFICIENT_BUFFER" <=> walk.room < Room(walk.profile)
        /\ a.status = "OK" => a.value = Wanted(Catalog, walk.profile)
    BY <1>2, <2>4, WriteFits
  <2> QED BY <2>1, <2>4, <2>5
<1> HIDE DEF a
<1>10. CASE a.status = "INSUFFICIENT_BUFFER" /\ walk.room = 0
  <2>1. walk' = [at |-> "asking", asks |-> walk.asks, since |-> walk.since, index |-> walk.index,
                 profile |-> walk.profile, room |-> a.required, listed |-> walk.listed]
    BY <1>1, <1>2, <1>7, <1>10
  <2>2. /\ walk'.at = "asking" /\ walk'.asks = walk.asks /\ walk'.since = walk.since
        /\ walk'.index = walk.index /\ walk'.profile = walk.profile /\ walk'.room = a.required
        /\ walk'.listed = walk.listed
    BY <2>1
  <2>3. WalkShape'
    BY <1>2, <1>3, <1>5, <1>6, <1>8, <2>1, <2>2 DEF WalkShape
  <2>4. \A i : Row(i)' = Row(i)
    BY <1>5, <2>2 DEF Row, Wanted
  <2>5. Room(walk.profile)' = Room(walk.profile)
    BY <1>5, <2>2 DEF Room
  <2>6. WalkSoFar'
    <3> SUFFICES ASSUME Shown
                 PROVE  /\ walk'.index <= Len(ds)
                        /\ walk'.listed = [i \in 1 .. walk'.index |-> Row(i)']
                        /\ walk'.index < Len(ds)
                        /\ walk'.profile = ds[walk'.index + 1].profile
                        /\ walk'.room = Room(walk.profile)'
                        /\ walk'.asks # "detail" => walk'.profile \in devinsts'
      BY <1>5, <2>2 DEF WalkSoFar
    <3> QED BY <1>2, <1>8, <1>9, <2>2, <2>4, <2>5
  <2> QED BY <2>3, <2>6
<1>11. CASE ~(a.status = "INSUFFICIENT_BUFFER" /\ walk.room = 0) /\ a.status # "OK"
  <2>1. walk' = [at |-> "listing", asks |-> walk.asks, since |-> walk.since, index |-> walk.index + 1,
                 profile |-> walk.profile, room |-> 0, listed |-> walk.listed]
    BY <1>2, <1>7, <1>11
  <2>2. /\ walk'.at = "listing" /\ walk'.asks = walk.asks /\ walk'.since = walk.since
        /\ walk'.index = walk.index + 1 /\ walk'.room = 0 /\ walk'.listed = walk.listed
    BY <2>1
  <2>3. WalkShape'
    BY <1>2, <1>3, <1>5, <1>8, <2>1, <2>2 DEF WalkShape
  <2>4. ~Shown
    BY <1>2, <1>9, <1>11
  <2>5. WalkSoFar'
    BY <1>5, <2>2, <2>4 DEF WalkSoFar
  <2> QED BY <2>3, <2>5
<1>12. CASE ~(a.status = "INSUFFICIENT_BUFFER" /\ walk.room = 0) /\ a.status = "OK"
  <2>1. walk' = [at |-> "listing", asks |-> walk.asks, since |-> walk.since, index |-> walk.index + 1,
                 profile |-> walk.profile, room |-> 0, listed |-> Append(walk.listed, row)]
    BY <1>2, <1>7, <1>12
  <2>2. /\ walk'.at = "listing" /\ walk'.asks = walk.asks /\ walk'.since = walk.since
        /\ walk'.index = walk.index + 1 /\ walk'.room = 0
        /\ walk'.listed = Append(walk.listed, row)
    BY <2>1
  <2>3. row.fits = TRUE /\ row.profile = walk.profile /\ row.value = a.value
    BY <1>2, <1>6, <1>12
  <2> HIDE DEF row
  <2>4. /\ walk'.listed = [i \in 1 .. n + 1 |-> IF i = n + 1 THEN row ELSE walk.listed[i]]
        /\ Len(walk.listed) = n
    BY <1>3, <2>2, ListedAppend
  <2>5. WalkShape'
    <3>1. /\ walk'.listed = [i \in 1 .. n + 1 |-> walk'.listed[i]]
          /\ \A i \in 1 .. n + 1 : walk'.listed[i].fits = TRUE
      BY <1>3, <2>3, <2>4
    <3>2. walk' = [at |-> walk'.at, asks |-> walk'.asks, since |-> walk'.since, index |-> walk'.index,
                   profile |-> walk'.profile, room |-> walk'.room, listed |-> walk'.listed]
      BY <2>1
    <3>3. \E m \in Nat : /\ walk'.listed = [i \in 1 .. m |-> walk'.listed[i]]
                         /\ \A i \in 1 .. m : walk'.listed[i].fits = TRUE
      BY <3>1
    <3>4. walk'.index \in Nat /\ walk'.room \in Nat
      BY <1>2, <2>2
    <3>5. /\ walk'.at = "listing" /\ walk'.asks \in Questions
          /\ walk'.since \in Nat /\ walk'.since <= generation'
      BY <1>2, <1>5, <2>2
    <3> QED BY <1>8, <3>2, <3>3, <3>4, <3>5 DEF WalkShape
  <2>6. \A i : Row(i)' = Row(i)
    BY <1>5, <2>2 DEF Row, Wanted
  <2>7. WalkSoFar'
    <3> SUFFICES ASSUME Shown
                 PROVE  /\ walk'.index <= Len(ds)
                        /\ walk'.listed = [i \in 1 .. walk'.index |-> Row(i)']
      BY <1>5, <2>2 DEF WalkSoFar
    <3>1. n = walk.index
      <4>1. Len([i \in 1 .. walk.index |-> Row(i)]) = walk.index
        BY <1>2, ListedAppend
      <4> QED BY <1>9, <2>4, <4>1
    <3>2. row = Row(walk.index + 1)
      BY <1>9, <1>12, <2>3 DEF Row, row
    <3>3. walk'.listed = [i \in 1 .. walk.index + 1 |-> Row(i)]
      BY <1>2, <1>9, <2>4, <3>1, <3>2
    <3> QED BY <1>2, <1>9, <2>2, <2>6, <3>3
  <2> QED BY <2>5, <2>7
<1> QED BY <1>10, <1>11, <1>12

\* A walk that ends under the offer it began with has seen the whole catalog,
\* and nothing of it was ever written beyond its room, for any sessions,
\* identities and collections, and however they change under the walk.
THEOREM WalksWhole == ASSUME ChangesFit PROVE Surface => []WalkIsWhole
<1>1. SurfaceInit => OfferInv /\ WalkShape /\ WalkSoFar
  BY OfferBegins DEF SurfaceInit, WalkShape, WalkSoFar
<1>2. OfferInv /\ WalkShape /\ WalkSoFar /\ [SurfaceNext]_surfaceVars
        => OfferInv' /\ WalkShape' /\ WalkSoFar'
  <2> SUFFICES ASSUME OfferInv, WalkShape, WalkSoFar, [SurfaceNext]_surfaceVars
               PROVE  OfferInv' /\ WalkShape' /\ WalkSoFar'
    OBVIOUS
  <2>1. [Next]_vars
    BY SurfaceIsConnection
  <2>2. UNCHANGED walkVars \/ (WalkStep /\ UNCHANGED vars)
    BY DEF SurfaceNext, HandlesPart, DetectionStep, WalkStep, surfaceVars
  <2>3. OfferInv'
    BY <2>1, OfferStep
  <2> QED BY <2>1, <2>2, <2>3, WalkUnderLease, StartWalkStep, NextMemberStep, AskMemberStep DEF WalkStep
<1>3. OfferInv /\ WalkShape /\ WalkSoFar => WalkIsWhole
  <2> SUFFICES ASSUME WalkShape, WalkSoFar, walk # NoWalk
               PROVE  /\ \A i \in 1 .. Len(walk.listed) : walk.listed[i].fits
                      /\ (walk.at = "done" /\ walk.since = generation /\ sound) =>
                           walk.listed = [i \in 1 .. Len(Catalog.descriptors) |-> Row(i)]
    BY DEF WalkIsWhole, Row
  <2>1. PICK n \in Nat : /\ walk.listed = [i \in 1 .. n |-> walk.listed[i]]
                         /\ \A i \in 1 .. n : walk.listed[i].fits = TRUE
    BY DEF WalkShape
  <2>2. Len(walk.listed) = n
    BY <2>1, ListedAppend
  <2> QED BY <2>1, <2>2 DEF WalkSoFar
<1> QED BY <1>1, <1>2, <1>3, PTL DEF Surface

-----------------------------------------------------------------------------
(* Names *)

\* What a descriptor says of the profile it is for, and where a host's product
\* has that profile.
Describes(d, pid) ==
  /\ d.profile \in Profiles /\ d.col = CollectionNumber(d.profile)
  /\ d.interface \in Nat /\ d.usage \in Nat
  /\ IF pid = PuckProductId THEN d.interface = PuckInterface[d.profile] ELSE d.profile = "Main"

\* The five collections, and that neither their roles nor a puck's interfaces
\* are shared.
LEMMA FiveProfiles ==
  /\ Profiles = {"Main", "Interface3", "Interface4", "Interface5", "VendorDongle"}
  /\ \A p, q \in Profiles : Role[p] = Role[q] => p = q
  /\ \A p, q \in Profiles : PuckInterface[p] = PuckInterface[q] => p = q
  /\ \A p \in Profiles : PuckInterface[p] \in Nat
<1>1. Len(ALL) = 5
  BY DEF ALL
<1>2. \A i \in 1 .. 5 : i = 1 \/ i = 2 \/ i = 3 \/ i = 4 \/ i = 5
  OBVIOUS
<1>3. Profiles = {ALL[1], ALL[2], ALL[3], ALL[4], ALL[5]}
  BY <1>1, <1>2 DEF Profiles
<1>4. Profiles = {"Main", "Interface3", "Interface4", "Interface5", "VendorDongle"}
  BY <1>3 DEF ALL
<1>5. \A p, q \in Profiles : Role[p] = Role[q] => p = q
  BY <1>4 DEF Role
<1>6. \A p, q \in Profiles : PuckInterface[p] = PuckInterface[q] => p = q
  BY <1>4 DEF PuckInterface
<1>7. \A p \in Profiles : PuckInterface[p] \in Nat
  BY <1>4 DEF PuckInterface
<1> QED BY <1>4, <1>5, <1>6, <1>7

\* The fields of a collection a host sends.
LEMMA HostCollection ==
  ASSUME NEW pid, NEW c \in HostCollections(pid)
  PROVE  c.role \in Roles /\ c.interface \in Nat /\ c.usage \in Nat /\ HasRole(c, pid)
<1>1. c \in CollectionInfo /\ HasRole(c, pid)
  BY DEF HostCollections
<1>2. c.role \in Roles /\ c.interface \in Nat /\ c.usage \in Nat
  BY <1>1 DEF CollectionInfo
<1> QED BY <1>1, <1>2

\* What a host sends of a collection describes the profile of its role.
LEMMA HostDescribes ==
  ASSUME NEW identity, HostIdentity(identity), NEW p \in Profiles,
         OfRole(Collections(identity, <<>>), p) # {}
  PROVE  Describes(Entry(identity, <<>>, p), identity.pid) /\ Entry(identity, <<>>, p).profile = p
<1> DEFINE S == HostCollections(identity.pid)
           all == Collections(identity, <<>>)
           c == all[First(OfRole(all, p))]
<1>1. identity.collections \in Seq(S) /\ <<>> \in Seq(S)
  BY EmptySeq DEF HostIdentity
<1>2. all \in Seq(S)
  BY <1>1, ConcatProperties DEF Collections
<1> HIDE DEF all, S
<1>3. Len(all) \in Nat /\ DOMAIN all = 1 .. Len(all)
  BY <1>2, LenProperties
<1>4. OfRole(all, p) \in SUBSET (1 .. Len(all)) /\ IsFiniteSet(1 .. Len(all))
  BY <1>3, FS_Interval DEF OfRole
<1>5. OfRole(all, p) \subseteq Nat /\ IsFiniteSet(OfRole(all, p)) /\ OfRole(all, p) # {}
  BY <1>3, <1>4, FS_Subset DEF all
<1>6. First(OfRole(all, p)) \in OfRole(all, p)
  BY <1>5, FirstIsOne
<1>7. c \in S /\ c.role = Role[p]
  BY <1>2, <1>3, <1>6, ElementOfSeq DEF OfRole
<1>8. c.interface \in Nat /\ c.usage \in Nat /\ HasRole(c, identity.pid)
  BY <1>7, HostCollection DEF S
<1>9. IF identity.pid = PuckProductId THEN c.interface = PuckInterface[p] ELSE p = "Main"
  BY <1>7, <1>8, FiveProfiles DEF HasRole
<1>10. Entry(identity, <<>>, p) = FromCollection(p, c)
  BY DEF Entry, all
<1> HIDE DEF c
<1> QED BY <1>8, <1>9, <1>10 DEF FromCollection, Describes

\* The catalog of an identity a host sends: each profile there is a collection
\* for, once, and there is one.
LEMMA HostCatalog ==
  ASSUME NEW identity, HostIdentity(identity)
  PROVE  LET catalog == FromIdentity(identity, <<>>)
             ds == catalog.descriptors
         IN  /\ catalog.identity = identity
             /\ ds \in Seq({ds[i] : i \in 1 .. Len(ds)})
             /\ Len(ds) \in Nat /\ DOMAIN ds = 1 .. Len(ds) /\ Len(ds) > 0
             /\ \A i \in 1 .. Len(ds) :
                  Describes(ds[i], identity.pid) /\ ds[i] = Entry(identity, <<>>, ds[i].profile)
<1> DEFINE all == Collections(identity, <<>>)
           E == {e \in {Entry(identity, <<>>, p) : p \in Profiles} :
                   Describes(e, identity.pid) /\ e = Entry(identity, <<>>, e.profile)}
           described(p) == IF OfRole(all, p) = {} THEN <<>> ELSE << Entry(identity, <<>>, p) >>
           catalog == FromIdentity(identity, <<>>)
           ds == catalog.descriptors
<1>1. ALL[1] \in Profiles /\ ALL[2] \in Profiles /\ ALL[3] \in Profiles /\ ALL[4] \in Profiles /\ ALL[5] \in Profiles
  BY DEF Profiles, ALL
<1>2. \A p \in Profiles : described(p) \in Seq(E) /\ Len(described(p)) \in Nat
  <2> TAKE p \in Profiles
  <2>1. CASE OfRole(all, p) = {}
    BY <2>1, EmptySeq, LenProperties
  <2>2. CASE OfRole(all, p) # {}
    <3>1. Entry(identity, <<>>, p) \in E
      BY <2>2, HostDescribes
    <3> HIDE DEF E
    <3>2. described(p) = << Entry(identity, <<>>, p) >>
      BY <2>2
    <3> QED BY <3>1, <3>2
  <2> QED BY <2>1, <2>2
<1>3. ds = described(ALL[1]) \o described(ALL[2]) \o described(ALL[3]) \o described(ALL[4]) \o described(ALL[5])
  BY DEF FromIdentity, Entry
<1>4. \E p \in Profiles : Len(described(p)) > 0
  <2>1. 1 \in 1 .. Len(identity.collections) /\ identity.collections \in Seq(HostCollections(identity.pid))
    BY LenProperties DEF HostIdentity
  <2>2. identity.collections[1] \in HostCollections(identity.pid)
    BY <2>1, ElementOfSeq
  <2>3. PICK p \in Profiles : identity.collections[1].role = Role[p]
    BY <2>2, HostCollection DEF Roles
  <2>4. /\ all \in Seq(HostCollections(identity.pid)) /\ Len(all) = Len(identity.collections)
        /\ all[1] = identity.collections[1]
    <3>1. <<>> \in Seq(HostCollections(identity.pid)) /\ Len(<<>>) = 0
      BY EmptySeq
    <3>2. Len(identity.collections) \in Nat
      BY <2>1, LenProperties
    <3> QED BY <2>1, <3>1, <3>2, ConcatProperties DEF Collections
  <2>5. 1 \in OfRole(all, p)
    BY <2>1, <2>3, <2>4, LenProperties DEF OfRole
  <2>6. described(p) = << Entry(identity, <<>>, p) >>
    BY <2>5
  <2>7. Len(<< Entry(identity, <<>>, p) >>) = 1
    OBVIOUS
  <2> QED BY <2>6, <2>7
<1>5. \A e \in E : Describes(e, identity.pid) /\ e = Entry(identity, <<>>, e.profile)
  OBVIOUS
<1>6. \A p \in Profiles : p = ALL[1] \/ p = ALL[2] \/ p = ALL[3] \/ p = ALL[4] \/ p = ALL[5]
  BY FiveProfiles DEF ALL
<1> HIDE DEF E, described
<1>7. ds \in Seq(E) /\ Len(ds) > 0
  <2> DEFINE a == described(ALL[1])
             b == described(ALL[2])
             c == described(ALL[3])
             d == described(ALL[4])
             e == described(ALL[5])
  <2>1. a \in Seq(E) /\ b \in Seq(E) /\ c \in Seq(E) /\ d \in Seq(E) /\ e \in Seq(E)
    BY <1>1, <1>2
  <2>2. Len(a) > 0 \/ Len(b) > 0 \/ Len(c) > 0 \/ Len(d) > 0 \/ Len(e) > 0
    BY <1>4, <1>6
  <2>3. Len(a) \in Nat /\ Len(b) \in Nat /\ Len(c) \in Nat /\ Len(d) \in Nat /\ Len(e) \in Nat
    BY <1>1, <1>2
  <2>4. ds = a \o b \o c \o d \o e
    BY <1>3
  <2> HIDE DEF a, b, c, d, e, ds
  <2>5. a \o b \in Seq(E) /\ Len(a \o b) = Len(a) + Len(b)
    BY <2>1, ConcatProperties
  <2>6. a \o b \o c \in Seq(E) /\ Len(a \o b \o c) = Len(a) + Len(b) + Len(c)
    BY <2>1, <2>5, ConcatProperties
  <2>7. a \o b \o c \o d \in Seq(E) /\ Len(a \o b \o c \o d) = Len(a) + Len(b) + Len(c) + Len(d)
    BY <2>1, <2>6, ConcatProperties
  <2>8. ds \in Seq(E) /\ Len(ds) = Len(a) + Len(b) + Len(c) + Len(d) + Len(e)
    BY <2>1, <2>4, <2>7, ConcatProperties
  <2> QED BY <2>2, <2>3, <2>8
<1>8. catalog.identity = identity
  BY DEF FromIdentity
<1> HIDE DEF catalog
<1>9. Len(ds) \in Nat /\ DOMAIN ds = 1 .. Len(ds) /\ \A i \in 1 .. Len(ds) : ds[i] \in E
  BY <1>7, LenProperties, ElementOfSeq
<1>10. ds \in Seq({ds[i] : i \in 1 .. Len(ds)})
  <2>1. ds = [i \in 1 .. Len(ds) |-> ds[i]]
    BY <1>7, LenProperties
  <2> QED BY <1>9, <2>1, SeqDef
<1> QED BY <1>5, <1>7, <1>8, <1>9, <1>10 DEF catalog

\* The descriptor of a profile on offer.
LEMMA DescriptorOf ==
  ASSUME NEW identity, HostIdentity(identity)
  PROVE  LET catalog == FromIdentity(identity, <<>>)
             ds == catalog.descriptors
         IN  /\ Offered(catalog) \subseteq Profiles
             /\ \E p \in Profiles : p \in Offered(catalog)
             /\ \A p \in Offered(catalog) :
                  /\ \E i \in 1 .. Len(ds) : ds[i] = Descriptor(catalog, p)
                  /\ Descriptor(catalog, p).profile = p
                  /\ Describes(Descriptor(catalog, p), identity.pid)
<1> DEFINE catalog == FromIdentity(identity, <<>>)
           ds == catalog.descriptors
<1>1. /\ Len(ds) \in Nat /\ Len(ds) > 0
      /\ \A i \in 1 .. Len(ds) : Describes(ds[i], identity.pid)
  BY HostCatalog
<1> HIDE DEF catalog
<1>2. 1 \in 1 .. Len(ds)
  BY <1>1
<1>3. \A i \in 1 .. Len(ds) : ds[i].profile \in Profiles
  BY <1>1 DEF Describes
<1>4. ASSUME NEW p \in Offered(catalog)
      PROVE  /\ \E i \in 1 .. Len(ds) : ds[i] = Descriptor(catalog, p)
             /\ Descriptor(catalog, p).profile = p
  <2>1. \E i \in 1 .. Len(ds) : ds[i].profile = p
    BY DEF Offered
  <2> DEFINE k == CHOOSE i \in 1 .. Len(ds) : ds[i].profile = p
  <2>2. k \in 1 .. Len(ds) /\ ds[k].profile = p
    BY <2>1
  <2>3. Descriptor(catalog, p) = ds[k]
    BY DEF Descriptor
  <2> QED BY <2>2, <2>3
<1>5. Offered(catalog) \subseteq Profiles /\ \E p \in Profiles : p \in Offered(catalog)
  BY <1>2, <1>3 DEF Offered
<1>6. \A p \in Offered(catalog) : Describes(Descriptor(catalog, p), identity.pid)
  BY <1>1, <1>4
<1> QED BY <1>4, <1>5, <1>6 DEF catalog

\* A collection's path means that collection in the catalog it is from, and in
\* that of another session of the same product that one or nothing.
LEMMA PathMeans ==
  ASSUME NEW identity, HostIdentity(identity), NEW other, HostIdentity(other),
         other.pid = identity.pid,
         NEW p \in Offered(FromIdentity(identity, <<>>))
  PROVE  LET path == DevicePath(FromIdentity(identity, <<>>), p)
             catalog == FromIdentity(other, <<>>)
         IN  /\ ProfileForPath(catalog, path) \in {p, NoProfile}
             /\ other = identity => ProfileForPath(catalog, path) = p
<1> DEFINE path == DevicePath(FromIdentity(identity, <<>>), p)
           d == Descriptor(FromIdentity(identity, <<>>), p)
           catalog == FromIdentity(other, <<>>)
           ds == catalog.descriptors
           exact == {i \in DOMAIN ds : ExactMatch(catalog, path, ds[i])}
<1>1. /\ p \in Profiles /\ d.profile = p /\ Describes(d, identity.pid)
      /\ FromIdentity(identity, <<>>).identity = identity
  BY DescriptorOf, HostCatalog
<1>2. /\ path.vid = identity.vid /\ path.pid = identity.pid /\ path.mi = d.interface
      /\ path.col = CollectionNumber(p) /\ path.usage = Absent
  BY <1>1 DEF DevicePath, Describes
<1>3. /\ catalog.identity = other /\ Len(ds) \in Nat /\ DOMAIN ds = 1 .. Len(ds)
      /\ \A i \in 1 .. Len(ds) : Describes(ds[i], other.pid)
  BY HostCatalog
<1>4. Offered(catalog) \subseteq Profiles
  BY DescriptorOf
<1>5. identity.vid = VendorId /\ other.vid = VendorId
  BY DEF HostIdentity
<1> HIDE DEF path, d, catalog
<1>6. ASSUME NEW i \in exact PROVE ds[i].profile = p
  <2>1. Describes(ds[i], identity.pid) /\ ExactMatch(catalog, path, ds[i])
    BY <1>3
  <2>2. path.usage # ds[i].usage
    BY <1>2, <2>1 DEF Absent, Describes
  <2>3. CASE identity.pid = PuckProductId
    <3>1. /\ ds[i].profile \in Profiles
          /\ path.mi = PuckInterface[p] /\ ds[i].interface = PuckInterface[ds[i].profile]
          /\ path.col = CollectionNumber(p) /\ ds[i].col = CollectionNumber(ds[i].profile)
      BY <1>1, <1>2, <2>1, <2>3 DEF Describes
    <3>2. path.mi = ds[i].interface \/ (path.col = ds[i].col /\ ds[i].profile = "VendorDongle")
      BY <2>1, <2>2 DEF ExactMatch
    <3> QED BY <1>1, <3>1, <3>2, FiveProfiles DEF CollectionNumber
  <2>4. CASE identity.pid # PuckProductId
    BY <1>1, <2>1, <2>4 DEF Describes
  <2> QED BY <2>3, <2>4
<1>7. exact # {} => ds[First(exact)].profile = p
  <2>1. IsFiniteSet(1 .. Len(ds)) /\ exact \in SUBSET (1 .. Len(ds))
    BY <1>3, FS_Interval
  <2>2. IsFiniteSet(exact) /\ exact \subseteq Nat
    BY <2>1, <1>3, FS_Subset
  <2>3. exact # {} => First(exact) \in exact
    BY <2>2, FirstIsOne
  <2> QED BY <2>3, <1>6
<1>8. LenientProfile(path) \in Offered(catalog) => LenientProfile(path) = p
  <2>1. CASE identity.pid = PuckProductId
    <3>1. path.mi = PuckInterface[p]
      BY <1>1, <1>2, <2>1 DEF Describes
    <3> QED BY <1>1, <1>2, <3>1, FiveProfiles DEF LenientProfile, PuckInterface, CollectionNumber, ALL
  <2>2. CASE identity.pid # PuckProductId
    <3>1. \A q \in Offered(catalog) : q = "Main"
      BY <1>3, <2>2 DEF Offered, Describes
    <3> QED BY <1>1, <2>2, <3>1 DEF Describes
  <2> QED BY <2>1, <2>2
<1>9. ProfileForPath(catalog, path) \in {p, NoProfile}
  BY <1>7, <1>8 DEF ProfileForPath
<1>10. ASSUME other = identity PROVE ProfileForPath(catalog, path) = p
  <2>1. PICK i \in 1 .. Len(ds) : ds[i] = d
    BY <1>10, DescriptorOf DEF catalog, d
  <2>2. i \in exact
    BY <1>2, <1>3, <1>10, <2>1 DEF ExactMatch
  <2> QED BY <1>7, <2>2 DEF ProfileForPath
<1> QED BY <1>9, <1>10 DEF path, catalog

\* The two property tables agree where they mean the same.
LEMMA TablesAgree ==
  ASSUME NEW catalog, NEW p \in Offered(catalog), NEW same \in SameProperty
  PROVE  RegistryProperty(catalog, p, same[1]) = DeviceProperty(catalog, p, same[2])
<1>1. CASE catalog = NoCatalog
  BY <1>1 DEF RegistryProperty, DeviceProperty
<1>2. CASE catalog # NoCatalog
  <2>1. CASE same \in {<<"DEVICEDESC", "DeviceDesc">>, <<"FRIENDLYNAME", "FriendlyName">>}
    <3>1. same[1] \in {"DEVICEDESC", "FRIENDLYNAME"} /\ same[2] \in {"DeviceDesc", "FriendlyName"}
      BY <2>1
    <3>2. RegistryProperty(catalog, p, same[1]) = <<"product", catalog.identity>>
      BY <1>2, <3>1 DEF RegistryProperty
    <3>3. DeviceProperty(catalog, p, same[2]) = <<"product", catalog.identity>>
      BY <1>2, <3>1 DEF DeviceProperty
    <3> QED BY <3>2, <3>3
  <2>2. CASE same = <<"MFG", "Manufacturer">>
    BY <1>2, <2>2 DEF RegistryProperty, DeviceProperty
  <2>3. CASE same = <<"SERVICE", "Service">>
    BY <1>2, <2>3 DEF RegistryProperty, DeviceProperty
  <2>4. CASE same = <<"CLASS", "Class">>
    BY <1>2, <2>4 DEF RegistryProperty, DeviceProperty
  <2>5. CASE same = <<"ENUMERATOR_NAME", "EnumeratorName">>
    BY <1>2, <2>5 DEF RegistryProperty, DeviceProperty
  <2>6. CASE same = <<"HARDWAREID", "HardwareIds">>
    BY <1>2, <2>6 DEF RegistryProperty, DeviceProperty
  <2>7. CASE same = <<"COMPATIBLEIDS", "CompatibleIds">>
    BY <1>2, <2>7 DEF RegistryProperty, DeviceProperty
  <2>8. CASE same = <<"LOCATION_PATHS", "LocationPaths">>
    BY <1>2, <2>8 DEF RegistryProperty, DeviceProperty
  <2> QED BY <2>1, <2>2, <2>3, <2>4, <2>5, <2>6, <2>7, <2>8 DEF SameProperty
<1> QED BY <1>1, <1>2

\* The first descriptor with a collection's interface is that collection's.
LEMMA InterfaceMeans ==
  ASSUME NEW identity, HostIdentity(identity),
         NEW p \in Offered(FromIdentity(identity, <<>>))
  PROVE  LET catalog == FromIdentity(identity, <<>>)
         IN  ProfileForInterface(catalog, Descriptor(catalog, p).interface) = p
<1> DEFINE catalog == FromIdentity(identity, <<>>)
           ds == catalog.descriptors
           d == Descriptor(catalog, p)
           found == {i \in DOMAIN ds : ds[i].interface = d.interface}
<1>1. /\ p \in Profiles /\ d.profile = p /\ Describes(d, identity.pid)
      /\ \E i \in 1 .. Len(ds) : ds[i] = d
  BY DescriptorOf
<1>2. /\ Len(ds) \in Nat /\ DOMAIN ds = 1 .. Len(ds)
      /\ \A i \in 1 .. Len(ds) : Describes(ds[i], identity.pid)
  BY HostCatalog
<1> HIDE DEF catalog, d
<1>3. found # {}
  <2>1. PICK i \in 1 .. Len(ds) : ds[i] = d
    BY <1>1
  <2>2. i \in found
    BY <1>2, <2>1
  <2> QED BY <2>2
<1>4. IsFiniteSet(1 .. Len(ds)) /\ found \in SUBSET (1 .. Len(ds))
  BY <1>2, FS_Interval
<1>5. First(found) \in found
  <2>1. IsFiniteSet(found) /\ found \subseteq Nat
    BY <1>2, <1>4, FS_Subset
  <2> QED BY <1>3, <2>1, FirstIsOne
<1>6. ASSUME NEW i \in found PROVE ds[i].profile = p
  <2>1. Describes(ds[i], identity.pid) /\ ds[i].interface = d.interface
    BY <1>2
  <2>2. CASE identity.pid = PuckProductId
    <3>1. PuckInterface[ds[i].profile] = PuckInterface[p] /\ ds[i].profile \in Profiles
      BY <1>1, <2>1, <2>2 DEF Describes
    <3> QED BY <1>1, <3>1, FiveProfiles
  <2>3. CASE identity.pid # PuckProductId
    BY <1>1, <2>1, <2>3 DEF Describes
  <2> QED BY <2>2, <2>3
<1>7. ProfileForInterface(catalog, d.interface) = ds[First(found)].profile
  BY <1>3 DEF ProfileForInterface
<1> QED BY <1>5, <1>6, <1>7 DEF catalog, d

\* A path means a collection on offer, or nothing.
LEMMA PathMeansOffered ==
  ASSUME NEW catalog, NEW path,
         Len(catalog.descriptors) \in Nat,
         DOMAIN catalog.descriptors = 1 .. Len(catalog.descriptors)
  PROVE  ProfileForPath(catalog, path) \in Offered(catalog) \cup {NoProfile}
<1> DEFINE ds == catalog.descriptors
           exact == {i \in DOMAIN ds : ExactMatch(catalog, path, ds[i])}
<1>1. IsFiniteSet(1 .. Len(ds)) /\ exact \in SUBSET (1 .. Len(ds))
  BY FS_Interval
<1>2. IsFiniteSet(exact) /\ exact \subseteq Nat
  BY <1>1, FS_Subset
<1>3. exact # {} => First(exact) \in exact
  BY <1>2, FirstIsOne
<1>4. exact # {} => ds[First(exact)].profile \in Offered(catalog)
  BY <1>1, <1>3 DEF Offered
<1> QED BY <1>4 DEF ProfileForPath

\* An augmented list: every collection of the catalog is in it, and each of its
\* devices opens as what the list says it is.
LEMMA AugmentMeans ==
  ASSUME NEW identity, HostIdentity(identity), NEW list, Len(list) \in Nat
  PROVE  LET catalog == FromIdentity(identity, <<>>)
             found == Augment(list, catalog)
         IN  /\ Len(found) \in Nat
             /\ Offered(catalog) \subseteq {found[i].profile : i \in 1 .. Len(found)}
             /\ \A i \in 1 .. Len(found) :
                  ProfileForPath(catalog, found[i].path) = found[i].profile
<1> DEFINE catalog == FromIdentity(identity, <<>>)
           ds == catalog.descriptors
           D == {ds[i] : i \in 1 .. Len(ds)}
           means(i) == ProfileForPath(catalog, list[i])
           seen == {means(i) : i \in 1 .. Len(list)}
           X == {d \in ToSet(ds) : d.profile \in seen}
           rest == Without(ds, X)
           Node(i) == IF means(i) = NoProfile THEN NativeNode(list[i])
                      ELSE VirtualNode(catalog, means(i))
           A == [i \in 1 .. Len(list) |-> Node(i)]
           B == [i \in 1 .. Len(rest) |-> VirtualNode(catalog, rest[i].profile)]
           S == {Node(i) : i \in 1 .. Len(list)}
                \cup {VirtualNode(catalog, rest[i].profile) : i \in 1 .. Len(rest)}
           found == A \o B
<1>1. found = Augment(list, catalog)
  BY DEF Augment
<1>2. /\ ds \in Seq(D) /\ Len(ds) \in Nat /\ DOMAIN ds = 1 .. Len(ds)
      /\ \A i \in 1 .. Len(ds) : Describes(ds[i], identity.pid)
  BY HostCatalog
<1>3. /\ Offered(catalog) = {ds[i].profile : i \in 1 .. Len(ds)}
      /\ \A p \in Offered(catalog) : p \in Profiles /\ p # NoProfile
  BY DescriptorOf, NothingIsNoProfile DEF Offered
<1>4. \A p \in Offered(catalog) : ProfileForPath(catalog, DevicePath(catalog, p)) = p
  BY PathMeans
<1> HIDE DEF catalog
<1>5. \A i \in 1 .. Len(list) : means(i) \in Offered(catalog) \cup {NoProfile}
  BY <1>2, PathMeansOffered
<1>6. /\ rest \in Seq(D) /\ Len(rest) \in Nat
      /\ \A i \in 1 .. Len(rest) : rest[i].profile \in Offered(catalog)
  <2>1. rest \in Seq(D)
    BY <1>2, WithoutAvoids
  <2>2. Len(rest) \in Nat /\ \A i \in 1 .. Len(rest) : rest[i] \in D
    BY <2>1, LenProperties, ElementOfSeq
  <2> QED BY <1>3, <2>1, <2>2
<1>7. \A k \in 1 .. Len(ds) : ds[k].profile \in seen
                              \/ \E j \in 1 .. Len(rest) : rest[j].profile = ds[k].profile
  <2> SUFFICES ASSUME NEW k \in 1 .. Len(ds), ds[k].profile \notin seen
               PROVE  \E j \in 1 .. Len(rest) : rest[j].profile = ds[k].profile
    OBVIOUS
  <2>1. ds[k] \notin X
    OBVIOUS
  <2> HIDE DEF X, seen, D
  <2>2. \E j \in 1 .. Len(rest) : rest[j] = ds[k]
    BY <1>2, <2>1, WithoutKeepsOthers
  <2> QED BY <2>2
<1>8. /\ A \in [1 .. Len(list) -> S] /\ B \in [1 .. Len(rest) -> S]
  OBVIOUS
<1>9. A \in Seq(S) /\ B \in Seq(S)
  <2> HIDE DEF A, B, S, rest
  <2>1. A \in Seq(S)
    BY <1>8, SeqDef
  <2>2. B \in Seq(S)
    BY <1>6, <1>8, SeqDef
  <2> QED BY <2>1, <2>2
<1>10. Len(A) = Len(list) /\ Len(B) = Len(rest)
  BY <1>6, <1>8, <1>9, LenProperties
<1>11. \A i \in 1 .. Len(list) :
         /\ A[i] = Node(i)
         /\ A[i].profile = means(i) /\ ProfileForPath(catalog, A[i].path) = A[i].profile
  BY <1>4, <1>5 DEF NativeNode, VirtualNode
<1>12. \A i \in 1 .. Len(rest) :
         /\ B[i].profile = rest[i].profile /\ ProfileForPath(catalog, B[i].path) = B[i].profile
  BY <1>4, <1>6 DEF VirtualNode
<1> HIDE DEF A, B, S, rest, ds, Node
<1>13. found \in Seq(S) /\ Concatenated(A, B, found)
  BY <1>9, ConcatEntries
<1> HIDE DEF found
<1>14. /\ Len(found) = Len(list) + Len(rest)
       /\ \A i \in 1 .. Len(list) : i \in 1 .. Len(found) /\ found[i] = A[i]
       /\ \A i \in 1 .. Len(rest) : Len(list) + i \in 1 .. Len(found) /\ found[Len(list) + i] = B[i]
       /\ \A i \in 1 .. Len(found) : \/ i \in 1 .. Len(list)
                                       \/ \E j \in 1 .. Len(rest) : i = Len(list) + j
  <2>1. Len(found) = Len(list) + Len(rest) /\ Len(list) \in Nat /\ Len(rest) \in Nat
    BY <1>6, <1>10, <1>13 DEF Concatenated
  <2>2. ASSUME NEW i \in 1 .. Len(found), i \notin 1 .. Len(list)
        PROVE  i - Len(list) \in 1 .. Len(rest) /\ i = Len(list) + (i - Len(list))
    BY <2>1, <2>2
  <2>3. \A i \in 1 .. Len(list) : i \in 1 .. Len(found)
    BY <2>1
  <2>4. \A i \in 1 .. Len(rest) : Len(list) + i \in 1 .. Len(found)
    BY <2>1
  <2> QED BY <2>1, <2>2, <2>3, <2>4, <1>10, <1>13 DEF Concatenated
<1>15. /\ \A i \in 1 .. Len(list) :
              /\ i \in 1 .. Len(found) /\ found[i].profile = means(i)
              /\ ProfileForPath(catalog, found[i].path) = found[i].profile
       /\ \A i \in 1 .. Len(rest) :
              /\ Len(list) + i \in 1 .. Len(found) /\ found[Len(list) + i].profile = rest[i].profile
              /\ ProfileForPath(catalog, found[Len(list) + i].path) = found[Len(list) + i].profile
  BY <1>11, <1>12, <1>14
<1> HIDE DEF means
<1>16. Offered(catalog) \subseteq {found[i].profile : i \in 1 .. Len(found)}
  <2> SUFFICES ASSUME NEW p \in Offered(catalog)
               PROVE  \E i \in 1 .. Len(found) : found[i].profile = p
    OBVIOUS
  <2>1. CASE p \in seen
    <3>1. PICK i \in 1 .. Len(list) : means(i) = p
      BY <2>1
    <3> QED BY <3>1, <1>15
  <2>2. CASE p \notin seen
    <3>1. PICK j \in 1 .. Len(rest) : rest[j].profile = p
      BY <2>2, <1>3, <1>7
    <3> QED BY <3>1, <1>15
  <2> QED BY <2>1, <2>2
<1>17. ASSUME NEW i \in 1 .. Len(found)
       PROVE  ProfileForPath(catalog, found[i].path) = found[i].profile
  <2>1. CASE i \in 1 .. Len(list)
    BY <2>1, <1>15
  <2>2. CASE i \notin 1 .. Len(list)
    <3>1. PICK j \in 1 .. Len(rest) : i = Len(list) + j
      BY <2>2, <1>14
    <3> QED BY <3>1, <1>15
  <2> QED BY <2>1, <2>2
<1>18. Len(found) \in Nat
  BY <1>6, <1>14
<1> QED BY <1>1, <1>16, <1>17, <1>18 DEF catalog

\* A query without a list of SDL's own is answered with the driver's devices
\* when, and only when, it is for the product of the controller.
LEMMA QueryMeans ==
  ASSUME NEW identity, HostIdentity(identity), NEW other, HostIdentity(other)
  PROVE  Enumerated(<<>>, other.vid, other.pid, FromIdentity(identity, <<>>)) # <<>>
           <=> IsCrossPuck(other.vid, other.pid, identity)
<1> DEFINE catalog == FromIdentity(identity, <<>>)
<1>1. /\ identity.vid = VendorId /\ other.vid = VendorId
      /\ identity.pid \in KnownProductIds /\ other.pid \in KnownProductIds
      /\ VendorId # 0 /\ 0 \notin KnownProductIds
  BY DEF HostIdentity, VendorId, KnownProductIds
<1>2. catalog.identity = identity /\ \E p : p \in Offered(catalog)
  BY HostCatalog, DescriptorOf
<1>3. catalog # NoCatalog
  BY <1>2, NoCatalogIsEmpty
<1>4. Len(<<>>) = 0
  OBVIOUS
<1>5. Augment(<<>>, catalog) # <<>>
  BY <1>2, <1>4, AugmentMeans
<1>6. Untouched(<<>>) = <<>>
  BY <1>4 DEF Untouched
<1> HIDE DEF catalog
<1>7. QueryMayTarget(other.vid, other.pid)
  BY <1>1 DEF QueryMayTarget
<1>8. QueryAppendsSynthetic(other.vid, other.pid, identity) <=> IsCrossPuck(other.vid, other.pid, identity)
  BY <1>1, <1>7 DEF QueryAppendsSynthetic, IsCrossPuck
<1> QED BY <1>2, <1>3, <1>5, <1>6, <1>7, <1>8 DEF Enumerated, catalog

\* Whatever identities hosts send, and whatever SDL's own lists hold: every name
\* Steam is given for a collection names that collection and no other.
THEOREM NamesAgree == Surface => []IdentifiersAgree
<1>1. NamesMeanOneCollection
  <2> SUFFICES ASSUME NEW identity \in Identities
               PROVE  LET catalog == FromIdentity(identity, <<>>)
                      IN  /\ \A p \in Offered(catalog) :
                               LET path == DevicePath(catalog, p)
                               IN  /\ PathMayBeVirtual(path) /\ ProfileForPath(catalog, path) = p
                                   /\ \A other \in Identities :
                                        other.pid = identity.pid =>
                                          ProfileForPath(FromIdentity(other, <<>>), path) \in {p, NoProfile}
                                   /\ ProfileForInterface(catalog, Descriptor(catalog, p).interface) = p
                                   /\ ProfileForHandle(FakeHandle(p)) = p
                                   /\ ProfileForReserved(InterfaceReserved(p)) = p
                                   /\ ProfileForDevInst(28, DevInst(p), Offered(catalog)) = p
                                   /\ CapsAnswer(p, catalog).usage = Descriptor(catalog, p).usage
                                   /\ \A same \in SameProperty :
                                        RegistryProperty(catalog, p, same[1]) = DeviceProperty(catalog, p, same[2])
                          /\ \A list \in NativeLists :
                               LET found == Augment(list, catalog)
                               IN  /\ Offered(catalog) \subseteq {found[i].profile : i \in 1 .. Len(found)}
                                   /\ \A i \in 1 .. Len(found) :
                                        ProfileForPath(catalog, found[i].path) = found[i].profile
                          /\ \A other \in Identities :
                               Enumerated(<<>>, other.vid, other.pid, catalog) # <<>>
                                 <=> IsCrossPuck(other.vid, other.pid, identity)
    BY DEF NamesMeanOneCollection
  <2> DEFINE catalog == FromIdentity(identity, <<>>)
  <2>1. HostIdentity(identity) /\ \A other \in Identities : HostIdentity(other)
    BY IdentitiesAssumption
  <2>2. ASSUME NEW p \in Offered(catalog)
        PROVE  LET path == DevicePath(catalog, p)
               IN  /\ PathMayBeVirtual(path) /\ ProfileForPath(catalog, path) = p
                   /\ \A other \in Identities :
                        other.pid = identity.pid =>
                          ProfileForPath(FromIdentity(other, <<>>), path) \in {p, NoProfile}
                   /\ ProfileForInterface(catalog, Descriptor(catalog, p).interface) = p
                   /\ ProfileForHandle(FakeHandle(p)) = p
                   /\ ProfileForReserved(InterfaceReserved(p)) = p
                   /\ ProfileForDevInst(28, DevInst(p), Offered(catalog)) = p
                   /\ CapsAnswer(p, catalog).usage = Descriptor(catalog, p).usage
                   /\ \A same \in SameProperty :
                        RegistryProperty(catalog, p, same[1]) = DeviceProperty(catalog, p, same[2])
    <3>1. PathMayBeVirtual(DevicePath(catalog, p))
      <4>1. catalog.identity = identity /\ identity.vid = VendorId /\ identity.pid \in KnownProductIds
        BY <2>1, HostCatalog DEF HostIdentity
      <4> HIDE DEF catalog
      <4> QED BY <4>1 DEF PathMayBeVirtual, DevicePath
    <3>2. /\ ProfileForPath(catalog, DevicePath(catalog, p)) = p
          /\ \A other \in Identities :
               other.pid = identity.pid =>
                 ProfileForPath(FromIdentity(other, <<>>), DevicePath(catalog, p)) \in {p, NoProfile}
      BY <2>1, PathMeans
    <3>3. ProfileForInterface(catalog, Descriptor(catalog, p).interface) = p
      BY <2>1, InterfaceMeans
    <3>4. p \in Profiles /\ Offered(catalog) \in SUBSET Profiles
      BY <2>1, DescriptorOf
    <3> HIDE DEF catalog
    <3>5. ProfileForHandle(FakeHandle(p)) = p
      BY DEF ProfileForHandle, FakeHandle
    <3>6. /\ ProfileForReserved(InterfaceReserved(p)) = p
          /\ ProfileForDevInst(28, DevInst(p), Offered(catalog)) = p
      BY <3>4, NumbersGoBack
    <3>7. CapsAnswer(p, catalog).usage = Descriptor(catalog, p).usage
      BY DEF CapsAnswer, Caps
    <3>8. \A same \in SameProperty :
            RegistryProperty(catalog, p, same[1]) = DeviceProperty(catalog, p, same[2])
      BY TablesAgree
    <3> QED BY <3>1, <3>2, <3>3, <3>5, <3>6, <3>7, <3>8
  <2>3. ASSUME NEW list \in NativeLists
        PROVE  LET found == Augment(list, catalog)
               IN  /\ Offered(catalog) \subseteq {found[i].profile : i \in 1 .. Len(found)}
                   /\ \A i \in 1 .. Len(found) :
                        ProfileForPath(catalog, found[i].path) = found[i].profile
    BY <2>1, AugmentMeans, ListsAssumption
  <2>4. \A other \in Identities :
          Enumerated(<<>>, other.vid, other.pid, catalog) # <<>>
            <=> IsCrossPuck(other.vid, other.pid, identity)
    BY <2>1, QueryMeans
  <2> QED BY <2>2, <2>3, <2>4
<1>2. IdentifiersAgree
  BY <1>1 DEF IdentifiersAgree
<1> QED BY <1>2, PTL

=============================================================================
