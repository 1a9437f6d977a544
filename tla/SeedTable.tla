------------------------------ MODULE SeedTable ------------------------------
(***************************************************************************)
(* ti_set_seed_num over time: the controller appends one entry per seed,   *)
(* numbered in order, and the switch looks up one random byte per packet.  *)
(***************************************************************************)
EXTENDS SeedSelection

CONSTANTS SeedTableSize,   \* entries ti_set_seed_num can hold
          MaxTableSeeds,   \* bounds the seeds the controller counts
          Draws            \* bytes the random generator may produce

ASSUME SeedTableAssumption ==
  /\ SeedTableSize \in Nat
  /\ MaxTableSeeds \in 0 .. 256
  /\ Draws \subseteq Byte

VARIABLES entries,   \* the seeds that have an entry
          numSeeds,  \* the number of the next seed
          draw       \* seed_num of the packet in the pipeline

tableVars == <<entries, numSeeds, draw>>

TableInit == entries = {} /\ numSeeds = 0 /\ draw \in Draws

(* A full table refuses the entry; the controller counts the seed anyway.  *)
AddSeed ==
  /\ numSeeds < MaxTableSeeds
  /\ numSeeds' = numSeeds + 1
  /\ entries' = IF numSeeds < SeedTableSize THEN entries \cup {numSeeds}
                                            ELSE entries
  /\ UNCHANGED draw

DrawByte ==
  /\ draw' \in Draws
  /\ UNCHANGED <<entries, numSeeds>>

TableNext == AddSeed \/ DrawByte
TableSpec == TableInit /\ [][TableNext]_tableVars

-----------------------------------------------------------------------------
TableTypeOK ==
  /\ numSeeds \in 0 .. MaxTableSeeds
  /\ entries \subseteq 0 .. numSeeds - 1
  /\ draw \in Draws

(* Exactly one seed is selected, and it is an installed one, as soon as    *)
(* the entries 0 and 1 are there; with only entry 0 an odd draw misses.    *)
DrawSelectsOne ==
  {0, 1} \subseteq entries =>
    \E s \in entries : Selected(entries, draw) = {s}

(* No seed is ever shadowed by others: the draw equal to its number always *)
(* selects it, however many entries with overlapping masks there are.      *)
SeedsReachable ==
  \A s \in entries : Selected(entries, s) = {s}

(* A new seed takes some draws for itself and changes none of the others.  *)
NewSeedOnlySteals ==
  [][AddSeed /\ {0, 1} \subseteq entries =>
       \A r \in Draws : \/ Selected(entries', r) = Selected(entries, r)
                        \/ Selected(entries', r) = {numSeeds}]_tableVars
=============================================================================
