------------------------------ MODULE InputQueue ------------------------------
(***************************************************************************)
(* HostBridge's input path (guest_driver/bridge.rs): the input pump pushes *)
(* every report the host streams into one bounded queue; readers of each   *)
(* virtual interface pop the newest report meant for them and discard the  *)
(* older ones.  Reports of a wireless controller ("triton") arrive on the  *)
(* main interface and are routed to the wireless interface that a feature  *)
(* reply named as the one in use.                                          *)
(***************************************************************************)
EXTENDS HostBridge, Integers, Sequences, FiniteSets

CONSTANTS
  Main,        \* PUCK_MAIN_INTERFACE: 2
  Wireless,    \* interfaces with a wireless role: 3, 4 and 5
  Triton,      \* the source of wireless reports on the main interface
  NoInterface, \* Option::None of preferred_wireless_interface
  Capacity,    \* input_queue_capacity, at least 1
  MaxReports   \* bound on the reports pushed in one behaviour

ASSUME InterfaceAssumption ==
  /\ Main \notin Wireless
  /\ NoInterface \notin Wireless \cup {Main}
  /\ Triton \notin Wireless \cup {Main}
ASSUME QueueAssumption == Capacity \in Nat \ {0} /\ MaxReports \in Nat

VARIABLES
  inputs,    \* input_queue, oldest first
  preferred, \* preferred_wireless_interface
  pump,      \* where the input thread is
  readErrors, \* stats.read_errors > 0
  pushed, popped, droppedOldest, droppedStale, \* the counters of stats
  delivered  \* history: what was last handed out per source, and to whom

statVars == <<pushed, popped, droppedOldest, droppedStale>>
inputVars == <<bridgeVars, inputs, preferred, pump, readErrors, statVars, delivered>>

Interfaces == {Main} \cup Wireless

\* What tells reports apart: wireless input on the main interface, else the
\* interface that produced it.
Sources == Interfaces \cup {Triton}

\* Fault: the main interface sees wireless input whatever is preferred.
ExactAnyRoute(report, interface, route) ==
  report.source = interface \/ (report.source = Triton /\ interface = Main)

\* should_hold_main_report_for_wireless: the main interface does not see
\* wireless input while a wireless interface is preferred.
Exact(report, interface, route) ==
  \/ report.source = interface
  \/ report.source = Triton /\ interface = Main /\ route = NoInterface

\* A wireless interface may take wireless input from the main one unless
\* another is preferred.
Routed(report, interface, route) ==
  /\ report.source = Triton
  /\ interface \in Wireless
  /\ route \in {NoInterface, interface}

\* find_latest_report_for_interface: an interface's own reports come first;
\* the answer is the matching test, by which older reports are dropped too.
Matching(q, interface, route) ==
  LET exact  == {i \in DOMAIN q : Exact(q[i], interface, route)}
      routed == {i \in DOMAIN q : Routed(q[i], interface, route)}
  IN  IF exact # {} THEN exact ELSE routed

\* Fault: the reports older than the one handed out stay queued.
StayingOlder(q, found) == DOMAIN q \ {CHOOSE i \in found : \A j \in found : j <= i}

\* Where the reports are that stay: drop_stale_reports_for_interface takes the
\* matching ones, the newest of which was removed first.
Staying(q, found) == DOMAIN q \ found

\* The one sequence of some places, in their order.
InOrder(places) ==
  {f \in [1 .. Cardinality(places) -> places] : \A i, j \in DOMAIN f : i < j => f[i] < f[j]}

-----------------------------------------------------------------------------

InputInit ==
  /\ BridgeInit
  /\ inputs = <<>>
  /\ preferred = NoInterface
  /\ pump = "reading"
  /\ readErrors = FALSE
  /\ pushed = 0 /\ popped = 0 /\ droppedOldest = 0 /\ droppedStale = 0
  /\ delivered = [s \in Sources |-> [seq |-> 0, to |-> NoInterface]]

\* read_input_report returned a report: a full queue loses its oldest one,
\* whichever interface it belongs to.
PumpReport(source) ==
  /\ pump = "reading"
  /\ pushed < MaxReports
  /\ LET full == Len(inputs) >= Capacity
         rest == IF full THEN Tail(inputs) ELSE inputs
     IN  /\ inputs' = Append(rest, [source |-> source, seq |-> pushed + 1])
         /\ droppedOldest' = droppedOldest + (IF full THEN 1 ELSE 0)
  /\ pushed' = pushed + 1
  /\ pump' = "check"
  /\ UNCHANGED <<preferred, running, readErrors, popped, droppedStale, delivered, owner>>

\* A timed-out read (50 ms): back to the running check.
PumpTimeout ==
  /\ pump = "reading"
  /\ pump' = "check"
  /\ UNCHANGED <<inputs, preferred, running, readErrors, statVars, delivered, owner>>

\* while running.
PumpCheck ==
  /\ pump = "check"
  /\ pump' = IF running THEN "reading" ELSE "gone"
  /\ UNCHANGED <<inputs, preferred, running, readErrors, statVars, delivered, owner>>

\* Any other error ends the thread and marks the bridge unhealthy.
PumpError ==
  /\ pump = "reading"
  /\ readErrors' = TRUE
  /\ pump' = "gone"
  /\ UNCHANGED <<inputs, preferred, running, statVars, delivered, owner>>

\* pop_input_report, with a report for this interface.
Pop(interface) ==
  /\ owner = "alive"
  /\ LET found  == Matching(inputs, interface, preferred)
         latest == CHOOSE i \in found : \A j \in found : j <= i
     IN  /\ found # {}
         /\ \E kept \in InOrder(Staying(inputs, found)) :
              inputs' = [i \in DOMAIN kept |-> inputs[kept[i]]]
         /\ popped' = popped + 1
         /\ droppedStale' = droppedStale + Cardinality(found) - 1
         /\ delivered' = [delivered EXCEPT ![inputs[latest].source] =
                            [seq |-> inputs[latest].seq, to |-> interface]]
  /\ UNCHANGED <<preferred, running, pump, readErrors, pushed, droppedOldest, owner>>

\* update_input_routes_from_feature: the reply to a wireless interface's
\* connection-state report says whether a controller is registered on it.
FeatureReply(interface, registered) ==
  /\ owner = "alive"
  /\ preferred' = IF registered THEN interface
                  ELSE IF preferred = interface THEN NoInterface ELSE preferred
  /\ UNCHANGED <<inputs, running, pump, readErrors, statVars, delivered, owner>>

\* stop_command_worker: a failed control channel stops the pump as well.
CommandWorkerStops ==
  /\ owner = "alive"
  /\ running' = FALSE
  /\ UNCHANGED <<inputs, preferred, pump, readErrors, statVars, delivered, owner>>

\* HostBridge::drop: nobody reads any more.
DropReader ==
  /\ BeginDrop
  /\ UNCHANGED <<inputs, preferred, pump, readErrors, statVars, delivered>>

JoinPump ==
  /\ Join(pump)
  /\ UNCHANGED <<inputs, preferred, pump, readErrors, statVars, delivered>>

PumpStep ==
  \/ \E source \in Sources : PumpReport(source)
  \/ PumpTimeout \/ PumpCheck \/ PumpError

InputNext ==
  \/ PumpStep
  \/ \E interface \in Interfaces : Pop(interface)
  \/ \E interface \in Wireless, registered \in BOOLEAN : FeatureReply(interface, registered)
  \/ CommandWorkerStops \/ DropReader \/ JoinPump

InputSpec == InputInit /\ [][InputNext]_inputVars

\* The pump's reads are timed, and a drop in progress is a running thread.
FairInputSpec == InputSpec /\ WF_inputVars(PumpStep) /\ WF_inputVars(JoinPump)

-----------------------------------------------------------------------------

\* Input never goes back in time: what is still queued of a source is newer
\* than anything a reader was ever given of that source, through whichever
\* interfaces, and however the route changed in between.
NoStaleInputLeft ==
  \A i \in DOMAIN inputs : inputs[i].seq > delivered[inputs[i].source].seq

\* While a wireless interface is preferred its input waits for that interface:
\* readers of the others, the main one included, neither take nor discard it.
WirelessInputHeld ==
  [][\A i \in DOMAIN inputs :
       (inputs[i].source = Triton /\ preferred # NoInterface /\ popped' # popped) =>
          \/ \E j \in DOMAIN inputs' : inputs'[j] = inputs[i]
          \/ delivered'[Triton].seq >= inputs[i].seq /\ delivered'[Triton].to = preferred]_inputVars

=============================================================================
