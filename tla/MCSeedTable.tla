----------------------------- MODULE MCSeedTable -----------------------------
(* SeedTable with the sizes of the code, against the masks of the code.    *)
EXTENDS SeedTable, Bitwise

(* Every 6-bit draw, and bytes whose high bits the masks must cut off.     *)
MCDraws == (0 .. 63) \cup {64, 65, 127, 128, 131, 254, 255}

(* x.bit_length() of Python, by its definition.                            *)
BitLength(x) == CHOOSE k \in 0 .. 9 : x < 2^k /\ (k = 0 \/ 2^(k - 1) =< x)

MaskOf(x) == IF x = 0 THEN 1 ELSE 2^BitLength(x) - 1

(* The lookup is the masked comparison the installed entry asks for:       *)
(* value i, mask shift_bit_length(i), on the byte the switch drew.         *)
ASSUME MaskedCompare ==
  \A i \in 0 .. SeedTableSize, r \in Draws : Matches(i, r) <=> (r & MaskOf(i)) = i
=============================================================================
