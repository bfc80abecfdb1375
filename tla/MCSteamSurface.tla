---------------------------- MODULE MCSteamSurface ----------------------------
(* TLC instance of SteamSurface: a puck, a wired controller of another       *)
(* product, and pucks of which a host finds more, or fewer, collections.     *)
EXTENDS SteamSurface

Collection(role, interface, usage) ==
  [role |-> role, interface |-> interface, usage |-> usage,
   input |-> 64, output |-> 64, feature |-> 64]

Puck ==
  [vid |-> VendorId, pid |-> \h1304, serial |-> <<"a">>,
   collections |-> <<Collection("PuckMain", 2, 1), Collection("PuckVendorDongle", 6, 3)>>]

WholePuck ==
  [vid |-> VendorId, pid |-> \h1304, serial |-> <<"b", "b">>,
   collections |-> <<Collection("PuckMain", 2, 1), Collection("PuckInterface3", 3, 2),
                     Collection("PuckInterface4", 4, 2), Collection("PuckInterface5", 5, 2),
                     Collection("PuckVendorDongle", 6, 3)>>]

Wired ==
  [vid |-> VendorId, pid |-> \h1302, serial |-> <<"c", "c">>,
   collections |-> <<Collection("PuckMain", 0, 1)>>]

PartPuck == [WholePuck EXCEPT !.serial = <<"d">>, !.collections =
               <<Collection("PuckMain", 2, 1), Collection("PuckInterface3", 3, 2)>>]

MCIdentityOf == [s1 |-> Puck, s2 |-> Wired]
MCIdentities == {Puck, WholePuck, Wired, PartPuck}

Path(vid, pid, mi, col) ==
  [hid |-> TRUE, vid |-> vid, pid |-> pid, mi |-> mi, col |-> col, usage |-> Absent,
   serial |-> <<"n">>, suffix |-> 1]

MCPaths == {Path(VendorId, \h1304, 2, 1), Path(VendorId, \h1304, 6, 2),
            Path(VendorId, \h1302, 0, 1)}

\* Another pad; the same pad and a puck that Windows itself shows.
OtherPad == Path(\h1234, \h5678, 2, 1)
MCNativeLists == {<<>>, <<OtherPad, Path(VendorId, \h1304, 6, Absent)>>}
=============================================================================
