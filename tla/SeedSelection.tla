---------------------------- MODULE SeedSelection ----------------------------
(***************************************************************************)
(* How the fuzzing switch turns a uniformly drawn byte into a seed number. *)
(* The controller installs one ternary entry per seed in ti_set_seed_num:  *)
(* seed i matches value i under the mask 2^bits(i) - 1 at priority 255 - i *)
(* (coverageDetector.py: shift_bit_length, add_ternary_rules).  A masked   *)
(* comparison with mask 2^k - 1 keeps the last k bits of the draw, which   *)
(* is what  draw % 2^k  gives, so no bit operator is needed here.          *)
(***************************************************************************)
EXTENDS Integers

(* Values of fp4_metadata.seed_num, an 8-bit field.                        *)
Byte == 0 .. 255

(* Definitions named ...Short, ...FourBits and ...Upwards are mistakes the  *)
(* properties of SeedTable are tested against; nothing uses them.          *)
ModulusShort(i) ==
  IF i =< 2 THEN 2 ELSE
  IF i =< 4 THEN 4 ELSE
  IF i =< 8 THEN 8 ELSE
  IF i =< 16 THEN 16 ELSE
  IF i =< 32 THEN 32 ELSE 64

(* 1 + shift_bit_length(i): the least power of two above i, at least 2.    *)
Modulus(i) ==
  IF i < 2 THEN 2 ELSE
  IF i < 4 THEN 4 ELSE
  IF i < 8 THEN 8 ELSE
  IF i < 16 THEN 16 ELSE
  IF i < 32 THEN 32 ELSE
  IF i < 64 THEN 64 ELSE
  IF i < 128 THEN 128 ELSE 256

PriorityFourBits(i) == (255 - i) % 16
PriorityUpwards(i)  == i

(* The priority the controller gives to the entry of seed i; the driver    *)
(* prefers the lowest number.                                              *)
Priority(i) == 255 - i

(* Entry i of ti_set_seed_num matches the drawn byte r.                    *)
Matches(i, r) == r % Modulus(i) = i

(* The entries of the set S that win the lookup of r.                      *)
Winners(S, r) ==
  {i \in S : /\ Matches(i, r)
             /\ \A j \in S : Matches(j, r) => Priority(i) =< Priority(j)}

(* The seed numbers the packet may carry after ti_set_seed_num.  A miss is *)
(* the default ai_NoAction: the raw draw stays in seed_num.                *)
Selected(S, r) ==
  IF \E i \in S : Matches(i, r) THEN Winners(S, r) ELSE {r}

=============================================================================
