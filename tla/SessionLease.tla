----------------------------- MODULE SessionLease -----------------------------
(***************************************************************************)
(* What the connection runtime promises, without its lock, its worker or   *)
(* its reference counts: host sessions are offered one at a time, borrowed *)
(* by HID operations while they are sound, withdrawn, and ended only when  *)
(* nobody borrows them.  The generation counts the changes of the offer.   *)
(***************************************************************************)
EXTENDS Integers

CONSTANTS
  Sessions,          \* the sessions a host may ever grant
  NoSession,
  Borrowers,         \* threads performing HID operations
  GenerationModulus  \* the generation wraps: 2^32 in the program

VARIABLES
  current,    \* the session on offer, or NoSession
  sound,      \* a session is on offer and has not failed
  generation, \* how often the offer changed
  borrowed,   \* the session each borrower works with, or NoSession
  spent,      \* sessions that were established, offered or not
  ended,      \* sessions whose resources are gone
  closing     \* no session may be offered any more

offer == <<current, sound, generation>>
vars  == <<offer, borrowed, spent, ended, closing>>

\* What enumeration may report: the session on offer, while it is sound.
Advertised == IF sound THEN current ELSE NoSession

Init ==
  /\ current = NoSession
  /\ sound = FALSE
  /\ generation = 0
  /\ borrowed = [c \in Borrowers |-> NoSession]
  /\ spent = {}
  /\ ended = {}
  /\ closing = FALSE

Change == generation' = (generation + 1) % GenerationModulus

\* Fault: a session is offered without a new generation.
OfferSilently(s) ==
  /\ ~closing /\ current = NoSession /\ s \notin spent
  /\ current' = s
  /\ sound' \in BOOLEAN
  /\ spent' = spent \cup {s}
  /\ UNCHANGED <<generation, borrowed, ended, closing>>

\* A session never offered before becomes the one on offer.
Offer(s) ==
  /\ ~closing /\ current = NoSession /\ s \notin spent
  /\ current' = s
  /\ sound' \in BOOLEAN
  /\ Change
  /\ spent' = spent \cup {s}
  /\ UNCHANGED <<borrowed, ended, closing>>

\* A session is established too late and never offered.
Discard(s) ==
  /\ s \notin spent
  /\ spent' = spent \cup {s}
  /\ UNCHANGED <<offer, borrowed, ended, closing>>

\* The session on offer fails.
Sicken ==
  /\ sound
  /\ sound' = FALSE
  /\ UNCHANGED <<current, generation, borrowed, spent, ended, closing>>

\* Fault: a session is withdrawn without a new generation.
WithdrawSilently ==
  /\ current # NoSession
  /\ current' = NoSession
  /\ sound' = FALSE
  /\ UNCHANGED <<generation, borrowed, spent, ended, closing>>

Withdraw ==
  /\ current # NoSession
  /\ current' = NoSession
  /\ sound' = FALSE
  /\ Change
  /\ UNCHANGED <<borrowed, spent, ended, closing>>

Borrow(c) ==
  /\ borrowed[c] = NoSession /\ sound
  /\ borrowed' = [borrowed EXCEPT ![c] = current]
  /\ UNCHANGED <<offer, spent, ended, closing>>

Return(c) ==
  /\ borrowed' = [borrowed EXCEPT ![c] = NoSession]
  /\ UNCHANGED <<offer, spent, ended, closing>>

End(s) ==
  /\ s \in spent \ ended
  /\ s # current
  /\ \A c \in Borrowers : borrowed[c] # s
  /\ ended' = ended \cup {s}
  /\ UNCHANGED <<offer, borrowed, spent, closing>>

Close ==
  /\ closing' = TRUE
  /\ UNCHANGED <<offer, borrowed, spent, ended>>

Next ==
  \/ \E s \in Sessions : Offer(s) \/ Discard(s) \/ End(s)
  \/ \E c \in Borrowers : Borrow(c) \/ Return(c)
  \/ Sicken \/ Withdraw \/ Close

Spec == Init /\ [][Next]_vars
===============================================================================
