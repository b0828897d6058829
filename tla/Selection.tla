------------------------------ MODULE Selection ------------------------------
(* Parts of a sequence, picked by their positions: what SelectSeq does with *)
(* a test, as a function that recurs over the positions, of which its       *)
(* properties can be proved.                                                *)
EXTENDS Naturals, Sequences

(* The elements of s at the positions I, in their order.                    *)
Picked(s, I) ==
  LET picked[n \in 0 .. Len(s)] ==
        IF n = 0 THEN <<>>
        ELSE IF n \in I THEN Append(picked[n - 1], s[n]) ELSE picked[n - 1]
  IN  picked[Len(s)]
=============================================================================
