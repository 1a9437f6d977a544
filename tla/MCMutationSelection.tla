------------------------- MODULE MCMutationSelection -------------------------
(* Five tables over two headers.  A packet with both carries the keys of   *)
(* all five, one more than the table draws of the configuration number;    *)
(* the table with two keys outgrows the combination draws once enough      *)
(* rules have been learnt.                                                 *)
EXTENDS MutationSelection

CONSTANTS eth, ip, dstMac, dstIp, srcIp, v1, v2

MCFields == {dstMac, dstIp, srcIp}
MCHeaderOf == [f \in MCFields |-> IF f = dstMac THEN eth ELSE ip]
MCTableOrder == <<"forward", "acl", "route", "nat", "police">>
MCKeysOf == [t \in {"forward", "acl", "route", "nat", "police"} |->
               CASE t = "acl"     -> <<dstIp, srcIp>>
                 [] t = "route"   -> <<dstIp>>
                 [] t = "nat"     -> <<srcIp>>
                 [] OTHER         -> <<dstMac>>]
MCInitialPaths == <<{eth}, {eth, ip}>>
MCNewPaths == {{eth}, {eth, ip}, {ip}}
MCInitialLearnt == [f \in MCFields |-> IF f = srcIp THEN <<v1>> ELSE <<>>]
MCNewRules == {[f \in {dstIp} |-> v1], [f \in {dstIp} |-> v2],
               [f \in {dstIp, srcIp} |-> v2], [f \in {dstMac} |-> v1]}
=============================================================================
