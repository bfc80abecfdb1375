------------------------------ MODULE HidCalls ------------------------------
(***************************************************************************)
(* The HID entry points Steam calls with a fake handle or a fake pointer   *)
(* to preparsed data: the exports of the driver's hid.dll (windows/hidd.rs *)
(* and hidp.rs), the hooked file functions (kernel32.rs) and the hooked    *)
(* functions of SDL (sdl.rs).  Each decides from its argument who answers: *)
(* the driver, the library it stands in front of, or nobody.               *)
(***************************************************************************)
EXTENDS HidProfiles, TLC

\* What a caller may pass: nothing, something of the library's, or a fake.
Null    == [kind |-> "null"]
Native  == [kind |-> "native"]

\* handle_for_profile and preparsed_for_profile: one constant per profile.
FakeHandle(p)    == [kind |-> "handle", profile |-> p]
FakePreparsed(p) == [kind |-> "preparsed", profile |-> p]

\* profile_for_handle and profile_for_preparsed.
ProfileForHandle(h)    == IF h.kind = "handle" THEN h.profile ELSE NoProfile
ProfileForPreparsed(d) == IF d.kind = "preparsed" THEN d.profile ELSE NoProfile

-----------------------------------------------------------------------------
(* hidd.rs, kernel32.rs and sdl.rs: by handle *)

\* Answered from the catalog of the moment.
IdentityCalls == {"HidD_GetAttributes", "HidD_GetManufacturerString", "HidD_GetProductString",
                  "HidD_GetSerialNumberString", "HidD_GetIndexedString"}

\* Which text HidD_GetIndexedString means.
IndexedString(i) == IF i = 1 THEN "manufacturer" ELSE IF i = 3 THEN "serial" ELSE "product"

\* Answered by the driver alone, whatever the host does; 64 input buffers.
LocalCalls == {"HidD_GetPreparsedData", "HidD_FlushQueue", "HidD_SetNumInputBuffers",
               "HidD_GetNumInputBuffers", "DeviceIoControl"}

\* Carried to the host: the runtime's with_bridge operations.
ReadCalls   == {"HidD_GetInputReport", "ReadFile"}
ReportCalls == {"HidD_GetFeature", "HidD_SetFeature", "HidD_SetOutputReport", "WriteFile"}
               \cup ReadCalls

FileCalls == IdentityCalls \cup LocalCalls \cup ReportCalls
SdlCalls  == {"SDL_hid_set_nonblocking", "SDL_hid_read", "SDL_hid_read_timeout",
              "SDL_hid_write", "SDL_hid_get_feature_report", "SDL_hid_send_feature_report"}

\* Fault: a fake handle nobody has open is taken for the library's.
OpenVirtualProfileOrNative(h, open) ==
  IF ProfileForHandle(h) # NoProfile /\ ProfileForHandle(h) \in open THEN "driver"
  ELSE "library"

\* open_virtual_profile, and the tests the file hooks make: "open" is the set
\* of profiles with an open count.  A fake handle nobody has open is refused.
OpenVirtualProfile(h, open) ==
  IF ProfileForHandle(h) = NoProfile THEN "library"
  ELSE IF ProfileForHandle(h) \in open THEN "driver" ELSE "refused"

\* profile_for_sdl_device: SDL's own list decides, not the open count.
SdlDevice(h, listed) ==
  IF ProfileForHandle(h) \in listed THEN "driver" ELSE "library"

\* HidD_GetAttributes and write_identity_string: of whatever session there is.
IdentityAnswer(available) == IF available THEN "TRUE" ELSE "DEVICE_NOT_CONNECTED"

\* with_bridge: a session that offers the collection, and its host's reply.  A
\* read without a report succeeds with nothing and a zeroed buffer.
ReportAnswer(f, offered, carried, report) ==
  IF ~offered THEN "DEVICE_NOT_CONNECTED"
  ELSE IF ~carried THEN "ERROR"
  ELSE IF f \in ReadCalls /\ ~report THEN "NOTHING" ELSE "TRUE"

\* SDL's reads and writes answer -1 where Windows' fail; setting the blocking
\* mode always succeeds and changes nothing.
SdlAnswer(f, offered, carried, report) ==
  IF f = "SDL_hid_set_nonblocking" THEN "0"
  ELSE IF ~offered \/ ~carried THEN "-1"
  ELSE IF f \in {"SDL_hid_read", "SDL_hid_read_timeout"} /\ ~report THEN "0" ELSE "count"

\* The deadline of SDL_hid_read_timeout in milliseconds: a blocking read, and
\* a negative timeout, are cut at SDL_VIRTUAL_BLOCKING_READ_MAX.
SdlDeadline(milliseconds) == IF milliseconds >= 0 THEN milliseconds ELSE 50

-----------------------------------------------------------------------------
(* hidp.rs: by pointer *)

\* Functions that look for a fake pointer first and let the library have null.
CapsQueries == [HidP_GetCaps |-> "CAPS", HidP_GetButtonCaps |-> "NOT_IMPLEMENTED",
                HidP_GetValueCaps |-> "NOT_IMPLEMENTED", HidP_MaxDataListLength |-> "0",
                HidD_FreePreparsedData |-> "TRUE"]

\* The others refuse null themselves.
DataQueries == [HidP_GetData |-> "NOT_IMPLEMENTED",
                HidP_GetLinkCollectionNodes |-> "NOT_IMPLEMENTED",
                HidP_GetSpecificButtonCaps |-> "NOT_IMPLEMENTED",
                HidP_GetSpecificValueCaps |-> "NOT_IMPLEMENTED"]

ValueQueries == [HidP_GetUsageValue |-> "NOT_IMPLEMENTED",
                 HidP_GetScaledUsageValue |-> "NOT_IMPLEMENTED",
                 HidP_GetUsageValueArray |-> "NOT_IMPLEMENTED"]

UsageQueries == [HidP_GetUsages |-> "NOT_IMPLEMENTED", HidP_GetUsagesEx |-> "NOT_IMPLEMENTED",
                 HidP_GetExtendedAttributes |-> "NOT_IMPLEMENTED"]

\* HidP_InitializeReportForID zeroes the buffer and writes the report's id.
ReportCommands == [HidP_InitializeReportForID |-> "SUCCESS", HidP_SetData |-> "NOT_IMPLEMENTED",
                   HidP_MaxUsageListLength |-> "0"]

UsageCommands == [HidP_SetUsageValue |-> "NOT_IMPLEMENTED",
                  HidP_SetScaledUsageValue |-> "NOT_IMPLEMENTED",
                  HidP_SetUsageValueArray |-> "NOT_IMPLEMENTED",
                  HidP_SetUsages |-> "NOT_IMPLEMENTED", HidP_UnsetUsages |-> "NOT_IMPLEMENTED"]

NullRefusing == DOMAIN DataQueries \cup DOMAIN ValueQueries \cup DOMAIN UsageQueries
                \cup DOMAIN ReportCommands \cup DOMAIN UsageCommands
PointerCalls == DOMAIN CapsQueries \cup NullRefusing

\* Those of them that tell a failed call by a length of zero.
LengthCalls == {"HidP_MaxDataListLength", "HidP_MaxUsageListLength"}

\* Fault: a setter forgets to ask whether the pointer is one of the driver's.
PointerCallAnyPointer(f, d) ==
  IF d = Null /\ f \in NullRefusing THEN "nobody"
  ELSE IF f \notin DOMAIN UsageCommands /\ ProfileForPreparsed(d) # NoProfile THEN "driver"
  ELSE "library"

\* Who answers.
PointerCall(f, d) ==
  IF d = Null /\ f \in NullRefusing THEN "nobody"
  ELSE IF ProfileForPreparsed(d) # NoProfile THEN "driver" ELSE "library"

\* The status of a call that nobody took.
NullAnswer(f) == IF f \in LengthCalls THEN "0" ELSE "INVALID_PREPARSED_DATA"

\* HidP_GetCaps of a fake pointer, from the catalog of the moment.
CapsAnswer(p, catalog) ==
  IF p \in Offered(catalog) THEN Caps(Descriptor(catalog, p)) ELSE [failed |-> Absent]

\* The real library, or its function, may be missing: no fake pointer gets here.
WithoutLibrary(calls) ==
  [f \in calls |-> IF f \in LengthCalls \cup {"HidD_FreePreparsedData"} THEN "0" ELSE "-1"]

CapsWithoutLibrary    == WithoutLibrary(DOMAIN CapsQueries)
DataWithoutLibrary    == WithoutLibrary(DOMAIN DataQueries)
ValuesWithoutLibrary  == WithoutLibrary(DOMAIN ValueQueries)
UsagesWithoutLibrary  == WithoutLibrary(DOMAIN UsageQueries)
ReportsWithoutLibrary == WithoutLibrary(DOMAIN ReportCommands)
SettersWithoutLibrary == WithoutLibrary(DOMAIN UsageCommands)

\* What the driver answers, and what comes back without the real library.
Answers == CapsQueries @@ DataQueries @@ ValueQueries @@ UsageQueries @@ ReportCommands
           @@ UsageCommands
Missing == CapsWithoutLibrary @@ DataWithoutLibrary @@ ValuesWithoutLibrary
           @@ UsagesWithoutLibrary @@ ReportsWithoutLibrary @@ SettersWithoutLibrary

PointerAnswer(f, d) ==
  IF PointerCall(f, d) = "nobody" THEN NullAnswer(f)
  ELSE IF PointerCall(f, d) = "driver" THEN Answers[f] ELSE Missing[f]

=============================================================================
