--------------------------- MODULE MCSessionStreams ---------------------------
(* TLC instance of SessionStreams: messages with a value of its own in every *)
(* field, and every choice of overrides.                                     *)
EXTENDS SessionStreams

Data == {<<>>, <<255>>, <<67, 80, 1>>}
Word(n) == <<n, 0, 254, n + 1>>

MCOverrides ==
  [trace_reports: {<<>>, <<1>>}, trace_report_limit: {<<>>, Word(1)},
   trace_report_max_bytes: {<<>>, <<3, 4>>}, io_timeout_ms: {<<>>, Word(5)},
   reconnect_interval_ms: {<<>>, Word(7)}, input_queue_capacity: {<<>>, <<9, 0>>},
   replay_enabled: {<<>>, <<0>>}, diagnostic_hook_groups: {<<>>, Word(11)}]

MCCollections ==
  [role: {"PuckMain", "PuckVendorDongle"}, interface_number: {2}, usage_page: {300}, usage: {4},
   input_report_len: {64}, output_report_len: {5}, feature_report_len: {6}]

DataCommands == [interface_number: {2, 6}, timeout_ms: {500}, data: Data]
CountResults == [status: {"Ok", "HostBusy"}, count: {0, 300}, os_error: {Word(1)}]

MCMessages ==
  [Hello |-> [guest_pid: {Word(1)}, guest_protocol_version: {1}, guest_capabilities: {Word(5)}],
   HelloOk |-> [status: {"Ok"}, protocol_version: {1}, session_id: {Word(1)},
                control_payload_limit: {4096}, input_payload_limit: {256},
                default_input_report_len: {64}, session_trace_id: {<<1, 2, 3, 0>>},
                log_level: {"none", "Debug"}, overrides: MCOverrides],
   Identity |-> [vendor_id: {10462}, product_id: {4868}, version_number: {3},
                 manufacturer: {<<>>, <<65>>}, product: {<<66, 67>>}, serial: {<<68, 69, 70>>},
                 collections: {<<c>> : c \in MCCollections}
                                \cup {<<c, d>> : c, d \in MCCollections}],
   InputAttach |-> [session_id: {Word(1)}, last_seen_input_seq: {Word(5)}],
   InputAttachOk |-> [status: {"Ok", "BadRequest"}, input_report_len: {64},
                      first_input_seq: {Word(5)}],
   GetFeature |-> [interface_number: {2}, report_id: {1}, requested_len: {64}, timeout_ms: {500}],
   FeatureResult |-> [status: {"Ok", "HidTimeout"}, os_error: {Word(1)}, data: Data],
   SetFeature |-> DataCommands, SetOutput |-> DataCommands, Write |-> DataCommands,
   SetFeatureResult |-> CountResults, SetOutputResult |-> CountResults,
   WriteResult |-> CountResults,
   Ioctl |-> [ioctl_code: {Word(1)}, interface_number: {2}, timeout_ms: {500}, out_len: {7},
              data: Data],
   IoctlResult |-> [status: {"Ok"}, bytes_returned: {Word(1)}, os_error: {Word(5)}, data: Data],
   InputReport |-> [interface_number: {2}, role: {"PuckInterface5"},
                    host_monotonic_us: {Word(1) \o Word(5)}, data: Data]]
=============================================================================
