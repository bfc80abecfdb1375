------------------------------ MODULE HostBridge ------------------------------
(***************************************************************************)
(* What the two halves of HostBridge (guest_driver/bridge.rs) share: the   *)
(* running flag, by which either thread ends the other, and the value      *)
(* itself, whose drop joins both threads.  CommandQueue and InputQueue are *)
(* the halves.                                                             *)
(***************************************************************************)

VARIABLES
  running, \* the atomic flag shared by the threads, the callers and Drop
  owner    \* the HostBridge value: alive, being dropped, joined

bridgeVars == <<running, owner>>

BridgeInit == running = TRUE /\ owner = "alive"

\* HostBridge::drop: nobody borrows the bridge any more; the flag comes first.
BeginDrop ==
  /\ owner = "alive"
  /\ running' = FALSE
  /\ owner' = "dropping"

\* join() returns when the thread is gone.
Join(thread) ==
  /\ owner = "dropping" /\ thread = "gone"
  /\ owner' = "joined"
  /\ UNCHANGED running
=============================================================================
