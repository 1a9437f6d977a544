--------------------------- MODULE CoverageFeedback ---------------------------
(***************************************************************************)
(* What coverage feedback promises, without switches, tables or queues:    *)
(* knowledge of executed actions only grows, seeds are earned by packets   *)
(* that executed something, each seed is published at most once, in the    *)
(* order of the seed numbers, with one path for good, and the corpus is    *)
(* frozen when the controller ends.                                        *)
(***************************************************************************)
EXTENDS Integers

CONSTANTS Actions, Paths, Given     \* Given: seeds known from the start

VARIABLES covered,  \* actions known to be executed
          offered,  \* seeds earned so far
          corpus,   \* <<seed, path>> of the seeds packets can be built from
          live      \* the controller still runs

vars == <<covered, offered, corpus, live>>

Init == covered = {} /\ offered = Given /\ corpus = {} /\ live = TRUE

Learn(acts) ==
  /\ live
  /\ covered' = covered \cup acts
  /\ offered' \in {offered} \cup {offered + 1 : act \in acts}
  /\ UNCHANGED <<corpus, live>>

Publish(path) ==
  /\ live
  /\ \E n \in 0 .. offered - 1 :
       /\ {c[1] : c \in corpus} = 0 .. n - 1     \* n is the next seed
       /\ corpus' = corpus \cup {<<n, path>>}
  /\ UNCHANGED <<covered, offered, live>>

End(acts) ==
  /\ live
  /\ live' = FALSE
  /\ covered' = covered \cup acts
  /\ UNCHANGED <<offered, corpus>>

Next == \/ \E acts \in SUBSET Actions : Learn(acts) \/ End(acts)
        \/ \E path \in Paths : Publish(path)

Spec == Init /\ [][Next]_vars
=============================================================================
