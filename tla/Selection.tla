-------------------------------- MODULE Selection ---------------------------------
(* Choosing from a sequence by position.                                   *)
EXTENDS Naturals, Sequences

(* What stands at the positions P of a sequence, in its order.             *)
Picked(s, P) ==
  LET picked[n \in 0..Len(s)] ==
        IF n = 0 THEN <<>> ELSE IF n \in P THEN Append(picked[n - 1], s[n]) ELSE picked[n - 1]
  IN  picked[Len(s)]
===================================================================================
