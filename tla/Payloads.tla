------------------------------- MODULE Payloads -------------------------------
(***************************************************************************)
(* Frame headers and payloads as they go over the wire (protocol/frame.rs, *)
(* codec.rs, payload.rs, status.rs of crosspuck-core).  What one process   *)
(* encodes the other decodes, perhaps in another version, so encoders and  *)
(* decoders are translated separately: an encoder is a concatenation, a    *)
(* decoder the list of fields it takes.                                    *)
(*                                                                         *)
(* A message is a record without its type.  Numbers of one and two bytes   *)
(* are numbers; wider ones, and texts, are the sequences of their bytes    *)
(* in the order of the wire.                                               *)
(***************************************************************************)
EXTENDS Naturals, SequencesExt, TLC

CONSTANT Messages   \* the messages tried, by the name of their type

U8(n)  == <<n>>
U16(n) == <<n % 256, n \div 256>>
Text(s) == U16(Len(s)) \o s

\* Enumerations: the place in the sequence is the number, from 0.
StatusCodes == <<"Ok", "BadRequest", "UnsupportedInterface", "UnsupportedOperation",
                 "HidTimeout", "HidIoError", "DeviceDisconnected", "ProtocolError", "HostBusy">>
LogSeverities == <<"Off", "Error", "Warn", "Info", "Debug", "Trace">>

\* The roles count from 1.
CollectionRoles == <<"none", "PuckMain", "PuckInterface3", "PuckInterface4", "PuckInterface5",
                     "PuckVendorDongle">>

Id(names, name) == (CHOOSE i \in 1 .. Len(names) : names[i] = name) - 1

\* MessageType: the numbers of the enumeration.
MessageTypes ==
  [Hello |-> 1, HelloOk |-> 2, Identity |-> 3, InputAttach |-> 4, InputAttachOk |-> 5,
   Status |-> 6, Ping |-> 7, Pong |-> 8, GetFeature |-> 16, FeatureResult |-> 17,
   SetFeature |-> 18, SetFeatureResult |-> 19, SetOutput |-> 20, SetOutputResult |-> 21,
   Write |-> 22, WriteResult |-> 23, Ioctl |-> 24, IoctlResult |-> 25, InputReport |-> 48]

\* MessageType::try_from: the numbers it knows.
MessageTypeOf ==
  1 :> "Hello" @@ 2 :> "HelloOk" @@ 3 :> "Identity" @@ 4 :> "InputAttach" @@
  5 :> "InputAttachOk" @@ 6 :> "Status" @@ 7 :> "Ping" @@ 8 :> "Pong" @@
  16 :> "GetFeature" @@ 17 :> "FeatureResult" @@ 18 :> "SetFeature" @@
  19 :> "SetFeatureResult" @@ 20 :> "SetOutput" @@ 21 :> "SetOutputResult" @@
  22 :> "Write" @@ 23 :> "WriteResult" @@ 24 :> "Ioctl" @@ 25 :> "IoctlResult" @@
  48 :> "InputReport"

Refused == [refused |-> TRUE]

\* "CP" and the version of the protocol.
Magic == <<67, 80>>
ProtocolVersion == 1
HeaderBytes == 12

EncodeHeader(type, id, size) ==
  Magic \o U8(ProtocolVersion) \o U8(MessageTypes[type]) \o id \o U16(size) \o <<0, 0>>

DecodeHeader(bytes) ==
  IF SubSeq(bytes, 1, 2) # Magic \/ bytes[3] # ProtocolVersion
     \/ bytes[4] \notin DOMAIN MessageTypeOf
    THEN Refused
  ELSE [type |-> MessageTypeOf[bytes[4]], id |-> SubSeq(bytes, 5, 8),
        size |-> SubSeq(bytes, 9, 12)]

-----------------------------------------------------------------------------
(* What the encoders write *)

EncodeHello(m) ==
  m.guest_pid \o U16(m.guest_protocol_version) \o U16(0) \o m.guest_capabilities

\* The optional overrides, with their flags in the order they are written.
OverrideNames == <<"trace_reports", "trace_report_limit", "trace_report_max_bytes",
                   "io_timeout_ms", "reconnect_interval_ms", "input_queue_capacity",
                   "replay_enabled", "diagnostic_hook_groups">>
OverrideWidth == <<1, 4, 2, 4, 4, 2, 1, 4>>
OverridesMagic == <<67, 80, 71, 49>>
NoOverride == <<>>

\* GuestRuntimeOverrides::flags.
Flags(o) ==
  LET bit[i \in 0 .. 8] ==
        IF i = 0 THEN 0
        ELSE bit[i - 1] + IF o[OverrideNames[i]] = NoOverride THEN 0 ELSE 2 ^ (i - 1)
  IN  bit[8]

HasExtendedBlock(o) == \E i \in 1 .. 8 : o[OverrideNames[i]] # NoOverride

\* SESSION_TRACE_ID_MASK: twenty bits.
Masked(id) == <<id[1], id[2], id[3] % 16, 0>>

\* encode_extended_block.
EncodeOverrides(o) ==
  IF ~HasExtendedBlock(o) THEN <<>>
  ELSE OverridesMagic \o <<Flags(o), 0, 0, 0>>
       \o FlattenSeq([i \in 1 .. 8 |-> o[OverrideNames[i]]])

\* Fault: a host without a log level to impose leaves the level out.
EncodeHelloOkWithoutLevel(m) ==
  U16(Id(StatusCodes, m.status)) \o U16(m.protocol_version) \o m.session_id
  \o U16(m.control_payload_limit) \o U16(m.input_payload_limit)
  \o U16(m.default_input_report_len) \o U16(0) \o Masked(m.session_trace_id)
  \o (IF m.log_level = "none" THEN <<>> ELSE U8(Id(LogSeverities, m.log_level)) \o U8(0) \o U16(0))
  \o EncodeOverrides(m.overrides)

EncodeHelloOk(m) ==
  U16(Id(StatusCodes, m.status)) \o U16(m.protocol_version) \o m.session_id
  \o U16(m.control_payload_limit) \o U16(m.input_payload_limit)
  \o U16(m.default_input_report_len) \o U16(0) \o Masked(m.session_trace_id)
  \o (IF m.log_level = "none" /\ ~HasExtendedBlock(m.overrides) THEN <<>>
      ELSE U8(IF m.log_level = "none" THEN 255 ELSE Id(LogSeverities, m.log_level))
           \o U8(0) \o U16(0) \o EncodeOverrides(m.overrides))

EncodeCollection(c) ==
  U8(Id(CollectionRoles, c.role)) \o U8(c.interface_number) \o U16(c.usage_page) \o U16(c.usage)
  \o U16(c.input_report_len) \o U16(c.output_report_len) \o U16(c.feature_report_len)

\* One to sixteen collections, or the host fails to say who it is.
EncodeIdentity(m) ==
  U16(m.vendor_id) \o U16(m.product_id) \o U16(m.version_number)
  \o Text(m.manufacturer) \o Text(m.product) \o Text(m.serial) \o U8(Len(m.collections))
  \o FlattenSeq([i \in 1 .. Len(m.collections) |-> EncodeCollection(m.collections[i])])

EncodeInputAttach(m) == m.session_id \o m.last_seen_input_seq

EncodeInputAttachOk(m) ==
  U16(Id(StatusCodes, m.status)) \o U16(m.input_report_len) \o m.first_input_seq

EncodeGetFeature(m) ==
  U8(m.interface_number) \o U8(m.report_id) \o U16(m.requested_len) \o U16(m.timeout_ms) \o U16(0)

EncodeFeatureResult(m) ==
  U16(Id(StatusCodes, m.status)) \o U16(Len(m.data)) \o m.os_error \o m.data

\* SetFeature, SetOutput and WriteReport.
EncodeDataCommand(m) ==
  U8(m.interface_number) \o U8(0) \o U16(m.timeout_ms) \o U16(Len(m.data)) \o U16(0) \o m.data

\* SetFeatureResult, SetOutputResult and WriteResult.
EncodeCountResult(m) == U16(Id(StatusCodes, m.status)) \o U16(m.count) \o m.os_error

EncodeIoctl(m) ==
  m.ioctl_code \o U8(m.interface_number) \o U8(0) \o U16(m.timeout_ms) \o U16(Len(m.data))
  \o U16(m.out_len) \o m.data

EncodeIoctlResult(m) ==
  U16(Id(StatusCodes, m.status)) \o U16(Len(m.data)) \o m.bytes_returned \o m.os_error \o m.data

EncodeInputReport(m) ==
  U8(m.interface_number) \o U8(Id(CollectionRoles, m.role)) \o U16(Len(m.data))
  \o m.host_monotonic_us \o m.data

Encode(type, m) ==
  CASE type = "Hello"         -> EncodeHello(m)
    [] type = "HelloOk"       -> EncodeHelloOk(m)
    [] type = "Identity"      -> EncodeIdentity(m)
    [] type = "InputAttach"   -> EncodeInputAttach(m)
    [] type = "InputAttachOk" -> EncodeInputAttachOk(m)
    [] type = "GetFeature"    -> EncodeGetFeature(m)
    [] type = "FeatureResult" -> EncodeFeatureResult(m)
    [] type \in {"SetFeature", "SetOutput", "Write"} -> EncodeDataCommand(m)
    [] type \in {"SetFeatureResult", "SetOutputResult", "WriteResult"} -> EncodeCountResult(m)
    [] type = "Ioctl"         -> EncodeIoctl(m)
    [] type = "IoctlResult"   -> EncodeIoctlResult(m)
    [] type = "InputReport"   -> EncodeInputReport(m)

-----------------------------------------------------------------------------
(* The decoder: what is left of the input, and the fields it has given *)

Decoder(bytes) == [ok |-> TRUE, left |-> bytes, got |-> <<>>]

\* Decoder::take.
Has(d, n)  == Len(d.left) >= n
Past(d, n) == SubSeq(d.left, n + 1, Len(d.left))
Failing(d) == [d EXCEPT !.ok = FALSE]
Given(d, n, field, value) == [d EXCEPT !.left = Past(d, n), !.got = (field :> value) @@ @]

Num(bytes) == IF Len(bytes) = 1 THEN bytes[1] ELSE bytes[1] + 256 * bytes[2]

\* A number that must name a member of an enumeration.
Named(d, n, field, names, first) ==
  LET id == Num(SubSeq(d.left, 1, n))
  IN  IF id >= first /\ id < Len(names) THEN Given(d, n, field, names[id + 1]) ELSE Failing(d)

\* One field: <<kind, name>>, or <<"reserved", bytes>>, which must be zero, or
\* <<"data", name, the field with its length>>.
Take(d, f) ==
  LET width == CASE f[1] = "u8" \/ f[1] = "bool" \/ f[1] = "role" -> 1
                 [] f[1] = "u16" \/ f[1] = "status" \/ f[1] = "text" -> 2
                 [] f[1] = "u32" -> 4
                 [] f[1] = "u64" -> 8
                 [] f[1] = "reserved" -> f[2]
                 [] f[1] = "data" -> d.got[f[3]]
      raw == SubSeq(d.left, 1, width)
  IN  IF ~d.ok THEN d
      ELSE IF ~Has(d, width) THEN Failing(d)
      ELSE CASE f[1] = "u8" \/ f[1] = "u16"    -> Given(d, width, f[2], Num(raw))
             [] f[1] = "u32" \/ f[1] = "u64" \/ f[1] = "data" -> Given(d, width, f[2], raw)
             [] f[1] = "status" -> Named(d, 2, f[2], StatusCodes, 0)
             [] f[1] = "role"   -> Named(d, 1, f[2], CollectionRoles, 1)
             [] f[1] = "bool"   -> IF raw[1] <= 1 THEN Given(d, 1, f[2], raw) ELSE Failing(d)
             [] f[1] = "reserved" ->
                  IF \A i \in 1 .. width : raw[i] = 0 THEN [d EXCEPT !.left = Past(d, width)]
                                                      ELSE Failing(d)
             [] f[1] = "text" ->
                  LET end == 2 + Num(raw)
                  IN  IF Has(d, end) THEN Given(d, end, f[2], SubSeq(d.left, 3, end))
                                     ELSE Failing(d)

TakeAll(d, fields) ==
  LET taken[i \in 0 .. Len(fields)] == IF i = 0 THEN d ELSE Take(taken[i - 1], fields[i])
  IN  taken[Len(fields)]

\* Decoder::finish; lengths of data are not part of the message.
Finish(d) ==
  IF d.ok /\ d.left = <<>>
    THEN [f \in DOMAIN d.got \ {"data_len"} |-> d.got[f]] ELSE Refused

DecodeHello ==
  << <<"u32", "guest_pid">>, <<"u16", "guest_protocol_version">>, <<"reserved", 2>>,
     <<"u32", "guest_capabilities">> >>

DecodeInputAttach == << <<"u32", "session_id">>, <<"u32", "last_seen_input_seq">> >>

DecodeInputAttachOk ==
  << <<"status", "status">>, <<"u16", "input_report_len">>, <<"u32", "first_input_seq">> >>

DecodeGetFeature ==
  << <<"u8", "interface_number">>, <<"u8", "report_id">>, <<"u16", "requested_len">>,
     <<"u16", "timeout_ms">>, <<"reserved", 2>> >>

DecodeFeatureResult ==
  << <<"status", "status">>, <<"u16", "data_len">>, <<"u32", "os_error">>,
     <<"data", "data", "data_len">> >>

DecodeDataCommand ==
  << <<"u8", "interface_number">>, <<"reserved", 1>>, <<"u16", "timeout_ms">>,
     <<"u16", "data_len">>, <<"reserved", 2>>, <<"data", "data", "data_len">> >>

DecodeCountResult == << <<"status", "status">>, <<"u16", "count">>, <<"u32", "os_error">> >>

DecodeIoctl ==
  << <<"u32", "ioctl_code">>, <<"u8", "interface_number">>, <<"reserved", 1>>,
     <<"u16", "timeout_ms">>, <<"u16", "data_len">>, <<"u16", "out_len">>,
     <<"data", "data", "data_len">> >>

DecodeIoctlResult ==
  << <<"status", "status">>, <<"u16", "data_len">>, <<"u32", "bytes_returned">>,
     <<"u32", "os_error">>, <<"data", "data", "data_len">> >>

\* Fault: the length is taken to be in front of the role.
DecodeInputReportSwapped ==
  << <<"u8", "interface_number">>, <<"u16", "data_len">>, <<"role", "role">>,
     <<"u64", "host_monotonic_us">>, <<"data", "data", "data_len">> >>

DecodeInputReport ==
  << <<"u8", "interface_number">>, <<"role", "role">>, <<"u16", "data_len">>,
     <<"u64", "host_monotonic_us">>, <<"data", "data", "data_len">> >>

DecodeCollection ==
  << <<"role", "role">>, <<"u8", "interface_number">>, <<"u16", "usage_page">>, <<"u16", "usage">>,
     <<"u16", "input_report_len">>, <<"u16", "output_report_len">>, <<"u16", "feature_report_len">> >>

\* Each collection starts afresh on what the last one has left.
DecodeIdentity(bytes) ==
  LET d == TakeAll(Decoder(bytes),
             << <<"u16", "vendor_id">>, <<"u16", "product_id">>, <<"u16", "version_number">>,
                <<"text", "manufacturer">>, <<"text", "product">>, <<"text", "serial">>,
                <<"u8", "count">> >>)
      more(e) == TakeAll([e EXCEPT !.got = <<>>], DecodeCollection)
      list[i \in 0 .. d.got["count"]] ==
        IF i = 0 THEN <<d, <<>> >>
        ELSE LET c == more(list[i - 1][1]) IN <<c, Append(list[i - 1][2], c.got)>>
      last == list[d.got["count"]]
  IN  IF ~d.ok \/ d.got["count"] \notin 1 .. 16 \/ ~last[1].ok \/ last[1].left # <<>> THEN Refused
      ELSE [f \in (DOMAIN d.got \ {"count"}) \cup {"collections"} |->
              IF f = "collections" THEN last[2] ELSE d.got[f]]

\* decode_extended_block: the fields that the flags name.
DecodeOverrides(d) ==
  LET kind(i) == CASE i \in {1, 7} -> "bool" [] OverrideWidth[i] = 2 -> "u16" [] OTHER -> "u32"
      h == TakeAll(d, << <<"u32", "magic">>, <<"u8", "flags">>, <<"reserved", 3>> >>)
      flagged(i) == (h.got["flags"] \div 2 ^ (i - 1)) % 2 = 1
      present == SelectSeq([i \in 1 .. 8 |-> i], flagged)
  IN  IF ~h.ok \/ h.got["magic"] # OverridesMagic THEN Failing(d)
      ELSE TakeAll(h, [i \in 1 .. Len(present) |-> <<kind(present[i]), OverrideNames[present[i]]>>])

\* What the decoder was given of an override; u16 ones are numbers there.
OverridesOf(got) ==
  [n \in ToSet(OverrideNames) |->
     IF n \notin DOMAIN got THEN NoOverride
     ELSE IF n \in {"trace_report_max_bytes", "input_queue_capacity"} THEN U16(got[n]) ELSE got[n]]

\* Each part of a HelloOk is optional, as older hosts do not send it; four bytes
\* after the log level are an older host's word about its diagnostic hooks.
More(d)      == d.ok /\ d.left # <<>>
TakeTrace(d) == IF More(d) THEN Take(d, <<"u32", "session_trace_id">>) ELSE d
TakeLevel(d) == IF More(d) THEN TakeAll(d, << <<"u8", "level">>, <<"reserved", 3>> >>) ELSE d
TakeRest(d)  == IF ~More(d) THEN d
                ELSE IF Len(d.left) = 4 THEN Take(d, <<"u32", "hooks">>) ELSE DecodeOverrides(d)

FieldOr(got, field, default) == IF field \in DOMAIN got THEN got[field] ELSE default

HelloOkOf(d, level) ==
  IF ~d.ok \/ d.left # <<>> \/ (level # 255 /\ level >= Len(LogSeverities)) THEN Refused
  ELSE [f \in {"status", "protocol_version", "session_id", "control_payload_limit",
               "input_payload_limit", "default_input_report_len"} |-> d.got[f]]
       @@ [session_trace_id |-> Masked(FieldOr(d.got, "session_trace_id", <<0, 0, 0, 0>>)),
           log_level |-> IF level = 255 THEN "none" ELSE LogSeverities[level + 1],
           overrides |-> OverridesOf(d.got)]

HelloOkFrom(d) == HelloOkOf(d, FieldOr(d.got, "level", 255))

DecodeHelloOk(bytes) ==
  HelloOkFrom(TakeRest(TakeLevel(TakeTrace(TakeAll(Decoder(bytes),
    << <<"status", "status">>, <<"u16", "protocol_version">>, <<"u32", "session_id">>,
       <<"u16", "control_payload_limit">>, <<"u16", "input_payload_limit">>,
       <<"u16", "default_input_report_len">>, <<"reserved", 2>> >>)))))

Layout ==
  [Hello |-> DecodeHello, InputAttach |-> DecodeInputAttach, InputAttachOk |-> DecodeInputAttachOk,
   GetFeature |-> DecodeGetFeature, FeatureResult |-> DecodeFeatureResult,
   SetFeature |-> DecodeDataCommand, SetOutput |-> DecodeDataCommand, Write |-> DecodeDataCommand,
   SetFeatureResult |-> DecodeCountResult, SetOutputResult |-> DecodeCountResult,
   WriteResult |-> DecodeCountResult, Ioctl |-> DecodeIoctl, IoctlResult |-> DecodeIoctlResult,
   InputReport |-> DecodeInputReport]

Decode(type, bytes) ==
  CASE type = "HelloOk"  -> DecodeHelloOk(bytes)
    [] type = "Identity" -> DecodeIdentity(bytes)
    [] OTHER             -> Finish(TakeAll(Decoder(bytes), Layout[type]))

-----------------------------------------------------------------------------
(* Properties *)

\* What an older host would have meant by the beginning of a HelloOk.
OlderHellos(m) ==
  LET plain == [m EXCEPT !.overrides = OverridesOf(<<>>)]
  IN  {plain, [plain EXCEPT !.log_level = "none"],
       [plain EXCEPT !.log_level = "none", !.session_trace_id = <<0, 0, 0, 0>>]}

\* Requests and reports, whose readers may lose a header to a timeout.
Streamed == {"GetFeature", "SetFeature", "SetOutput", "Write", "Ioctl", "InputReport"}

\* Every message comes out as it went in, whatever optional parts it has; a
\* part of it, or more than it, is refused, except for the beginning of a
\* HelloOk, which older hosts sent; and no payload of a stream that goes on
\* after a timeout can be taken for a header, nor does a report hide in one.
MessagesRoundTrip ==
  \A type \in DOMAIN Messages : \A m \in Messages[type] :
    LET wire   == Encode(type, m)
        header == EncodeHeader(type, <<1, 2, 3, 4>>, Len(wire))
    IN  /\ Decode(type, wire) = m
        /\ \A n \in 0 .. Len(wire) - 1 :
             Decode(type, SubSeq(wire, 1, n))
               \in {Refused} \cup IF type = "HelloOk" THEN OlderHellos(m) ELSE {}
        /\ \A extra \in {0, 255} : Decode(type, Append(wire, extra)) = Refused
        /\ Len(header) = HeaderBytes
        /\ DecodeHeader(header) =
             [type |-> type, id |-> <<1, 2, 3, 4>>, size |-> U16(Len(wire)) \o <<0, 0>>]
        /\ type \in Streamed => SubSeq(wire, 1, 2) # Magic
        /\ type = "InputReport" => Len(wire) >= HeaderBytes

=============================================================================
