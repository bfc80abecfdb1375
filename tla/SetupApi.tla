------------------------------- MODULE SetupApi -------------------------------
(***************************************************************************)
(* The SetupAPI hooks (windows/setupapi.rs): how Steam's HID library finds *)
(* the virtual collections when Windows itself has no HID device set to    *)
(* give.  Every call reads the catalog of its own moment, so a sequence of *)
(* calls may see several sessions, or none.                                *)
(*                                                                         *)
(* An answer is a record: what the call returns, the size it asks for and  *)
(* what it wrote.  Texts are opaque except for the length of a path.       *)
(***************************************************************************)
EXTENDS HidProfiles

\* runtime_catalog without a session.
NoCatalog ==
  FromIdentity([vid |-> 0, pid |-> 0, serial |-> <<>>, collections |-> <<>>], <<>>)

Answer(status, required, value) == [status |-> status, required |-> required, value |-> value]
Failed(status) == Answer(status, 0, Absent)
ToNative       == Failed("NATIVE")

-----------------------------------------------------------------------------
(* Device information sets *)

Invalid   == "INVALID_HANDLE_VALUE"
Synthetic == "SYNTHETIC_DEVICE_INFO_SET"

\* SetupDiGetClassDevsW/A: a set of Windows' own wins.
ClassDevs(native, allowed, catalog) ==
  IF native = Invalid /\ allowed /\ catalog # NoCatalog THEN Synthetic ELSE native

\* synthetic_profile_for_member: by position in the catalog of the moment.
MemberProfile(set, index, catalog) ==
  IF set = Synthetic /\ index < Len(catalog.descriptors)
    THEN catalog.descriptors[index + 1].profile ELSE NoProfile

\* SetupDiEnumDeviceInterfaces once Windows' own has nothing (more) to say.
EnumDeviceInterfaces(set, hidClass, index, catalog, hasBuffer) ==
  IF ~hidClass \/ MemberProfile(set, index, catalog) = NoProfile THEN Failed("NO_MORE_ITEMS")
  ELSE IF ~hasBuffer THEN Failed("INSUFFICIENT_BUFFER")
  ELSE Answer("OK", 0, MemberProfile(set, index, catalog))

\* SetupDiEnumDeviceInfo: writes only where there is something to write to.
EnumDeviceInfo(set, index, catalog) ==
  IF MemberProfile(set, index, catalog) = NoProfile THEN Failed("NO_MORE_ITEMS")
  ELSE Answer("OK", 0, MemberProfile(set, index, catalog))

-----------------------------------------------------------------------------
(* Interfaces *)

\* The reserved word of SP_DEVICE_INTERFACE_DATA: CrossPuck's base and a number.
Reserved(ours, low) == [ours |-> ours, low |-> low]
InterfaceReserved(p) == Reserved(TRUE, InstanceSuffix(p) + 1)

ProfileForReserved(r) ==
  IF r.ours /\ r.low \in 2 .. 6 THEN ALL[r.low - 1] ELSE NoProfile

\* The device instance of SP_DEVINFO_DATA; "known" are the remembered ones.
DevInst(p) == InstanceSuffix(p) + 1
ProfileForDevInst(size, devinst, known) ==
  IF size >= 24 /\ \E p \in known : DevInst(p) = devinst
    THEN CHOOSE p \in known : DevInst(p) = devinst ELSE NoProfile

\* \\?\hid#vid_28de&pid_1304&mi_02&col01#SERIAL&0&0001#{class}, and its like.
PathLength(path)     == 84 + Len(path.serial)
InstanceLength(path) == 41 + Len(path.serial)

\* Fault: the text is written without asking for its room.
WriteUnasked(value, required, room) == Answer("OK", required, value)

\* write_byte_buffer and its like: the size is told in any case.
Write(value, required, room) ==
  IF room < required THEN Answer("INSUFFICIENT_BUFFER", required, Absent)
                     ELSE Answer("OK", required, value)

\* synthesize_device_interface_detail_w/a; a unit is two bytes or one.
SynthesizeDetail(p, catalog, room, unit) ==
  IF p \notin Offered(catalog) THEN Failed("NO_MORE_ITEMS")
  ELSE Write(DevicePath(catalog, p), 4 + unit * (PathLength(DevicePath(catalog, p)) + 1), room)

\* SetupDiGetDeviceInterfaceDetailW/A: interface data of ours, or of a set of
\* ours, is never shown to Windows.
InterfaceDetail(set, r, catalog, room, unit) ==
  IF ProfileForReserved(r) # NoProfile
    THEN SynthesizeDetail(ProfileForReserved(r), catalog, room, unit)
  ELSE IF set = Synthetic \/ r.ours THEN Failed("NO_MORE_ITEMS") ELSE ToNative

-----------------------------------------------------------------------------
(* Device properties *)

NoValue == <<"none">>

\* registry_property_value: the SPDRP_ properties that have one.
RegistryProperty(catalog, p, property) ==
  IF catalog = NoCatalog THEN NoValue
  ELSE CASE property \in {"DEVICEDESC", "FRIENDLYNAME"} -> <<"product", catalog.identity>>
    [] property = "MFG"             -> <<"manufacturer", catalog.identity>>
    [] property = "SERVICE"         -> <<"HidUsb">>
    [] property = "CLASS"           -> <<"HIDClass">>
    [] property = "ENUMERATOR_NAME" -> <<"HID">>
    [] property \in {"HARDWAREID", "COMPATIBLEIDS", "LOCATION_PATHS"} /\ p \notin Offered(catalog)
         -> NoValue
    [] property = "HARDWAREID"      -> <<"list", HardwareIds(catalog, p)>>
    [] property = "COMPATIBLEIDS"   -> <<"list", CompatibleIds(catalog, p)>>
    [] property = "LOCATION_PATHS"  -> <<"list", << LocationPath(catalog, p) >> >>
    [] OTHER                        -> NoValue

\* device_property_value: the DEVPKEY_Device_ keys that have one.
DeviceProperty(catalog, p, key) ==
  IF catalog = NoCatalog THEN NoValue
  ELSE CASE key \in {"DeviceDesc", "FriendlyName", "BusReportedDeviceDesc"}
         -> <<"product", catalog.identity>>
    [] key = "Manufacturer"   -> <<"manufacturer", catalog.identity>>
    [] key = "Service"        -> <<"HidUsb">>
    [] key = "Class"          -> <<"HIDClass">>
    [] key = "EnumeratorName" -> <<"HID">>
    [] key \in {"InstanceId", "HardwareIds", "CompatibleIds", "LocationPaths"}
         /\ p \notin Offered(catalog) -> NoValue
    [] key = "InstanceId"     -> <<"text", DeviceInstanceId(catalog, p)>>
    [] key = "HardwareIds"    -> <<"list", HardwareIds(catalog, p)>>
    [] key = "CompatibleIds"  -> <<"list", CompatibleIds(catalog, p)>>
    [] key = "LocationPaths"  -> <<"list", << LocationPath(catalog, p) >> >>
    [] OTHER                  -> NoValue

\* SetupDiGetDeviceInstanceIdW/A: a collection the catalog of the moment lacks
\* is passed on, unless the set is ours.
InstanceId(set, p, catalog, room) ==
  IF p \in Offered(catalog)
    THEN Write(DeviceInstanceId(catalog, p), InstanceLength(DevicePath(catalog, p)) + 1, room)
  ELSE IF set = Synthetic THEN Failed("NO_MORE_ITEMS") ELSE ToNative

\* SetupDiGetDeviceRegistryPropertyW/A and SetupDiGetDevicePropertyW likewise,
\* with the value of their table.
PropertyAnswer(set, p, value, required, room) ==
  IF p # NoProfile /\ value # NoValue THEN Write(value, required, room)
  ELSE IF set = Synthetic THEN Failed("NO_MORE_ITEMS") ELSE ToNative

\* encode_w_multi_sz and encode_a_multi_sz over lengths: each entry ends with a
\* zero, and one more ends the list; encode_w_string and encode_a_string.
EncodedList(lengths, unit) ==
  LET end[i \in 0 .. Len(lengths)] == IF i = 0 THEN 0 ELSE end[i - 1] + lengths[i] + 1
  IN  unit * (end[Len(lengths)] + 1)
EncodedText(length, unit) == unit * (length + 1)

\* Six hardware ids, of fixed lengths.
HardwareIdLengths == <<33, 27, 21, 27, 25, 10>>

=============================================================================
