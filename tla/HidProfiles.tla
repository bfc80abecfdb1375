----------------------------- MODULE HidProfiles -----------------------------
(***************************************************************************)
(* The virtual HID collections Steam sees (guest_driver/profile.rs and     *)
(* routing.rs): the catalog built from the identity a host sends, the      *)
(* device paths made from it, the profile a path means, and which paths    *)
(* and queries are CrossPuck's business at all.                            *)
(*                                                                         *)
(* A path is the record of the tokens the code looks for in its text.      *)
(* Texts of the identity (names, serial) are opaque values.                *)
(***************************************************************************)
EXTENDS Integers, Sequences

\* VirtualHidProfile::ALL, in the order the catalog lists them.
ALL == <<"Main", "Interface3", "Interface4", "Interface5", "VendorDongle">>

Profiles  == {ALL[i] : i \in 1 .. Len(ALL)}
NoProfile == "no profile"

Role == [Main |-> "PuckMain", Interface3 |-> "PuckInterface3",
         Interface4 |-> "PuckInterface4", Interface5 |-> "PuckInterface5",
         VendorDongle |-> "PuckVendorDongle"]

CollectionNumber(p) == IF p = "VendorDongle" THEN 2 ELSE 1
InstanceSuffix(p)   == CHOOSE i \in 1 .. Len(ALL) : ALL[i] = p

\* VirtualHidProfileDescriptor::from_collection.
FromCollection(p, c) ==
  [profile |-> p, interface |-> c.interface, col |-> CollectionNumber(p),
   suffix |-> InstanceSuffix(p), usage |-> c.usage,
   input |-> c.input, output |-> c.output, feature |-> c.feature]

\* Where the collections of a role are: the identity's come before the debug
\* fallback's.  Of several, in this and in the searches below, the first counts.
Collections(identity, fallback) == identity.collections \o fallback
OfRole(collections, p) == {i \in DOMAIN collections : collections[i].role = Role[p]}
First(places) == CHOOSE i \in places : \A j \in places : i <= j

\* VirtualHidProfileCatalog::from_identity: a descriptor for each profile there
\* is a collection for, in the order of ALL.
FromIdentity(identity, fallback) ==
  LET all == Collections(identity, fallback)
      described(p) == IF OfRole(all, p) = {} THEN <<>>
                      ELSE << FromCollection(p, all[First(OfRole(all, p))]) >>
  IN  [identity |-> identity,
       descriptors |-> described(ALL[1]) \o described(ALL[2]) \o described(ALL[3])
                       \o described(ALL[4]) \o described(ALL[5])]

Offered(catalog) ==
  {catalog.descriptors[i].profile : i \in 1 .. Len(catalog.descriptors)}

Descriptor(catalog, p) ==
  catalog.descriptors[CHOOSE i \in 1 .. Len(catalog.descriptors) :
                        catalog.descriptors[i].profile = p]

\* profile_for_interface: the first descriptor with that interface number.
ProfileForInterface(catalog, n) ==
  LET found == {i \in DOMAIN catalog.descriptors : catalog.descriptors[i].interface = n}
  IN  IF found = {} THEN NoProfile ELSE catalog.descriptors[First(found)].profile

\* VirtualHidProfileDescriptor::caps.
Caps(d) ==
  [usage |-> d.usage, input |-> d.input, output |-> d.output, feature |-> d.feature,
   linkNodes |-> IF d.profile = "VendorDongle" THEN 1 ELSE 4,
   inputValues |-> 1, outputValues |-> IF d.output > 1 THEN 1 ELSE 0, featureValues |-> 1]

-----------------------------------------------------------------------------
(* The identifiers Steam is given *)

Absent == -1

\* device_path: names the interface and the collection, never the usage.
DevicePath(catalog, p) ==
  LET d == Descriptor(catalog, p)
  IN  [hid |-> TRUE, vid |-> catalog.identity.vid, pid |-> catalog.identity.pid,
       mi |-> d.interface, col |-> d.col, usage |-> Absent,
       serial |-> catalog.identity.serial, suffix |-> d.suffix]

\* device_instance_id.
DeviceInstanceId(catalog, p) ==
  [DevicePath(catalog, p) EXCEPT !.hid = FALSE]

\* hardware_ids: from the most to the least specific name.
HardwareIds(catalog, p) ==
  LET d == Descriptor(catalog, p)
      v == catalog.identity.vid
      q == catalog.identity.pid
  IN  << <<v, q, d.interface, d.col>>, <<v, q, d.interface>>, <<v, q>>,
         <<v, "usage", d.usage>>, <<"usage", d.usage>>, <<"HID_DEVICE">> >>

\* compatible_ids: the last two of them.
CompatibleIds(catalog, p) ==
  LET d == Descriptor(catalog, p) IN << <<"usage", d.usage>>, <<"HID_DEVICE">> >>

LocationPath(catalog, p) ==
  LET d == Descriptor(catalog, p) IN <<d.interface, d.col>>

-----------------------------------------------------------------------------
(* The profile a path means *)

\* Fault: any collection number is matched, not the vendor dongle's only.
ExactMatchAnyCollection(catalog, path, d) ==
  /\ path.vid = catalog.identity.vid /\ path.pid = catalog.identity.pid
  /\ path.mi = d.interface \/ path.col = d.col \/ path.usage = d.usage

\* One descriptor of profile_for_exact_path: the serial is not looked at.
ExactMatch(catalog, path, d) ==
  /\ path.vid = catalog.identity.vid /\ path.pid = catalog.identity.pid
  /\ \/ path.mi = d.interface
     \/ path.col = d.col /\ d.profile = "VendorDongle"
     \/ path.usage = d.usage

\* profile_for_lenient_identity_path: the usual numbering of a puck.
LenientProfile(path) ==
  IF path.mi = 6 \/ path.col = 2 THEN "VendorDongle"
  ELSE IF path.mi \in {3, 4, 5} THEN ALL[path.mi - 1] ELSE "Main"

\* profile_for_path: the first exact match, or else the lenient one.
ProfileForPath(catalog, path) ==
  LET exact == {i \in DOMAIN catalog.descriptors :
                  ExactMatch(catalog, path, catalog.descriptors[i])}
      sameProduct == path.vid = catalog.identity.vid /\ path.pid = catalog.identity.pid
  IN  IF exact # {} THEN catalog.descriptors[First(exact)].profile
      ELSE IF sameProduct /\ LenientProfile(path) \in Offered(catalog)
      THEN LenientProfile(path) ELSE NoProfile

-----------------------------------------------------------------------------
(* What is CrossPuck's business: routing.rs *)

VendorId        == \h28DE
KnownProductIds == {\h1302, \h1303, \h1304}

\* classify_device_path: tokens of the path only, before any catalog is read.
PathMayBeVirtual(path) ==
  path.hid /\ path.vid = VendorId /\ path.pid \in KnownProductIds

\* hid_query_may_target_crosspuck: zero means any.
QueryMayTarget(vid, pid) ==
  \/ vid = 0 /\ pid = 0
  \/ vid = VendorId /\ pid \in KnownProductIds \cup {0}

\* classify_hid_query.
QueryAppendsSynthetic(vid, pid, identity) ==
  /\ QueryMayTarget(vid, pid)
  /\ \/ vid = 0 /\ pid = 0
     \/ vid = identity.vid /\ pid \in {0, identity.pid}

\* is_crosspuck_vid_pid and should_append_synthetic_to_setupapi_query.
IsCrossPuck(vid, pid, identity) == vid = identity.vid /\ pid = identity.pid
SetupQueryMayBeSynthetic(hidClass, emptyEnumerator) == hidClass /\ emptyEnumerator

-----------------------------------------------------------------------------
(* The identities a host sends: the collections hid.rs finds a role for *)

PuckProductId == \h1304

\* role_for_puck_candidate: the interface each collection of a puck is at.
PuckInterface == [Main |-> 2, Interface3 |-> 3, Interface4 |-> 4, Interface5 |-> 5,
                  VendorDongle |-> 6]

\* role_for_candidate: a directly connected controller has its main collection
\* only, at whatever interface.
HasRole(c, pid) ==
  IF pid = PuckProductId
    THEN \E p \in Profiles : c.role = Role[p] /\ c.interface = PuckInterface[p]
    ELSE c.role = Role["Main"]

\* collection_info, of the candidates of a product.
Roles == {Role[p] : p \in Profiles}
CollectionInfo ==
  [role : Roles, interface : Nat, usage : Nat, input : Nat, output : Nat, feature : Nat]
HostCollections(pid) == {c \in CollectionInfo : HasRole(c, pid)}

\* build_puck_snapshot fails without a collection.
HostIdentity(identity) ==
  /\ identity.vid = VendorId /\ identity.pid \in KnownProductIds
  /\ identity.collections \in Seq(HostCollections(identity.pid))
  /\ Len(identity.collections) > 0

=============================================================================
