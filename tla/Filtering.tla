------------------------------- MODULE Filtering -------------------------------
(***************************************************************************)
(* What Iterator::filter leaves of a sequence.  SelectSeq says the same,   *)
(* but only a recursive function can be reasoned about.                    *)
(***************************************************************************)
EXTENDS Naturals, Sequences

\* The entries of s that are not in X, in their order.
Without(s, X) ==
  LET kept[n \in 0..Len(s)] ==
        IF n = 0 THEN <<>>
        ELSE IF s[n] \in X THEN kept[n - 1] ELSE Append(kept[n - 1], s[n])
  IN  kept[Len(s)]

=============================================================================
