----------------------------- MODULE MCFuzzLoop -----------------------------
(* Instances of FuzzLoop small enough for TLC.                             *)
EXTENDS FuzzLoopProperties, TLC

CONSTANTS actA, actB, pathP, pathQ, none, raised, rule, pk1, pk2

MCPaths    == {pathP, pathQ}
MCInitPath == (0 :> pathP) @@ (1 :> pathQ)

(* On path P the SUT may run nothing or A, on path Q it runs B.            *)
MCExec == (pathP :> {{}, {actA}}) @@ (pathQ :> {{actB}})

(* A mutated selector field lets the controller read Q in a packet of path *)
(* P, or run out of bytes in one of path Q, in a header or in a look-ahead. *)
MCReparse      == (pathP :> {pathP, pathQ}) @@ (pathQ :> {pathQ, none, raised})

(* Neither register tells all mark sets apart: the empty one is hidden     *)
(* once {A} and {B} have been reported.                                    *)
MCPositions == {1, 2}
MCHash1 == [s \in SUBSET {actA, actB} |-> IF actB \in s THEN 2 ELSE 1]
MCHash2 == [s \in SUBSET {actA, actB} |-> IF actA \in s THEN 2 ELSE 1]

(* A smaller program: the parser graph lists path P twice, Q is a header   *)
(* stack whose name is no action, and the two mark sets never collide.     *)
OneMCPath    == {pathP}
MCSamePath   == (0 :> pathP) @@ (1 :> pathP)
SmallExec    == (pathP :> {{}, {actA}}) @@ (pathQ :> {{actA}})
StackReparse == (pathP :> {pathP, pathQ, none, raised}) @@ (pathQ :> {pathQ})
SmallHash    == [s \in SUBSET {actA} |-> IF actA \in s THEN 2 ELSE 1]

TwoPackets == Permutations({pk1, pk2})
=============================================================================
