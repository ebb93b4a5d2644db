----------------------------- MODULE Comprehension -----------------------------
(***************************************************************************)
(* The list comprehension that the manager and the views rebuild their       *)
(* orders with: [h for h in order if h in keep].                            *)
(***************************************************************************)
EXTENDS Naturals, Sequences

Filtered(order, keep) ==
  LET upTo[n \in 0 .. Len(order)] ==
        IF n = 0 THEN << >>
        ELSE IF order[n] \in keep THEN Append(upTo[n - 1], order[n]) ELSE upTo[n - 1]
  IN  upTo[Len(order)]
================================================================================
