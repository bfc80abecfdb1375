---------------------------- MODULE CommandService ----------------------------
(***************************************************************************)
(* What HostBridge's command path promises, without its queue, its worker, *)
(* its flag or its lock: commands are numbered as they are accepted and    *)
(* served one at a time, oldest first; only feedback is lost while the     *)
(* host answers, and only the oldest behind a full backlog; whoever asks   *)
(* gets the outcome of its own request; nothing is served after the host   *)
(* stopped answering.                                                      *)
(***************************************************************************)
EXTENDS Integers, FiniteSets, Sequences

CONSTANTS
  Callers,          \* threads performing feature and output operations
  FeedbackCapacity, \* how much feedback may be pending
  MaxCommands       \* bound on the commands accepted in one behaviour

VARIABLES
  ledger,  \* the kinds of the accepted commands, by number
  pending, \* the numbers of the commands that wait to be served
  inHand,  \* the command being served, or 0
  serving, \* commands are served
  open,    \* commands are accepted
  asks,    \* the command whose outcome each caller waits for, or 0
  answer   \* the outcome each caller has not looked at, or "none"

vars == <<ledger, pending, inHand, serving, open, asks, answer>>

Number   == Len(ledger) + 1
Feedback == {i \in pending : ledger[i] = "feedback"}
Askers   == {c \in Callers : asks[c] # 0}

Oldest(numbers) == CHOOSE i \in numbers : \A j \in numbers : i <= j

Init ==
  /\ ledger = <<>>
  /\ pending = {}
  /\ inHand = 0
  /\ serving = TRUE
  /\ open = TRUE
  /\ asks = [c \in Callers |-> 0]
  /\ answer = [c \in Callers |-> "none"]

Enter(kind) ==
  /\ open /\ Len(ledger) < MaxCommands
  /\ ledger' = Append(ledger, kind)

\* A request: its caller waits for the outcome.
Ask(c) ==
  /\ Enter("feature")
  /\ asks[c] = 0 /\ answer[c] = "none"
  /\ pending' = pending \cup {Number}
  /\ asks' = [asks EXCEPT ![c] = Number]
  /\ UNCHANGED <<inHand, serving, open, answer>>

\* Feedback: nobody waits for it, and a full backlog gives up its oldest.
Post ==
  /\ Enter("feedback")
  /\ pending' = {Number} \cup
       IF Cardinality(Feedback) >= FeedbackCapacity
       THEN pending \ {Oldest(Feedback)} ELSE pending
  /\ UNCHANGED <<inHand, serving, open, asks, answer>>

Serve ==
  /\ serving /\ inHand = 0 /\ pending # {}
  /\ inHand' = Oldest(pending)
  /\ pending' = pending \ {inHand'}
  /\ UNCHANGED <<ledger, serving, open, asks, answer>>

Tell(told, outcome) ==
  /\ answer' = [c \in Callers |-> IF c \in told THEN outcome ELSE answer[c]]
  /\ asks' = [c \in Callers |-> IF c \in told THEN 0 ELSE asks[c]]

\* The command is served; the outcome is told to whoever asked for it.
Finish(outcome) ==
  /\ inHand # 0
  /\ inHand' = 0
  /\ Tell({c \in Callers : asks[c] = inHand}, outcome)
  /\ serving' = (outcome # "disconnect")
  /\ UNCHANGED <<ledger, pending, open>>

Collect(c) ==
  /\ answer[c] # "none"
  /\ answer' = [answer EXCEPT ![c] = "none"]
  /\ UNCHANGED <<ledger, pending, inHand, serving, open, asks>>

\* Nothing is accepted any more: the host stopped answering, or the bridge is
\* dropped, which happens when nobody uses it.
Close ==
  /\ ~serving \/ Askers = {}
  /\ open' = FALSE
  /\ UNCHANGED <<ledger, pending, inHand, serving, asks, answer>>

\* Nothing is served any more; feedback may be left behind, a request never.
Retire ==
  /\ ~open /\ inHand = 0 /\ Askers = {}
  /\ serving' = FALSE
  /\ UNCHANGED <<ledger, pending, inHand, open, asks, answer>>

\* What a host that stopped answering leaves behind is refused.
GiveUp ==
  /\ ~serving /\ ~open
  /\ pending' = {}
  /\ Tell(Askers, "disconnect")
  /\ UNCHANGED <<ledger, inHand, serving, open>>

Next ==
  \/ \E c \in Callers : Ask(c) \/ Collect(c)
  \/ Post \/ Serve
  \/ \E outcome \in {"ok", "status", "disconnect"} : Finish(outcome)
  \/ Close \/ Retire \/ GiveUp

Spec == Init /\ [][Next]_vars
===============================================================================
