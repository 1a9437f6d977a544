---------------------------- MODULE DistanceVector ----------------------------
(***************************************************************************)
(* The distance-vector controller of the SUT (dv_router_controller.py).    *)
(* Its main thread takes one packet at a time from the switch, updates the *)
(* routing table, rebuilds the distance vector, installs the table rules   *)
(* of the packet and forwards packet and rules to the fuzzer.  A second    *)
(* thread advertises the distance vector from time to time.  dvLock guards *)
(* the vector; the routing table belongs to the main thread alone.         *)
(***************************************************************************)
EXTENDS Integers, Sequences, FiniteSets

CONSTANTS
  Prefixes,       \* (prefix, length) pairs routing updates may contain
  Masked,         \* the lpm key of each pair in the switch
  StaticRoutes,   \* lpm keys that the switch has from its rules file
  Sources,        \* neighbours: dv.src of routing updates
  NoHop,          \* nhAddr '' of a pair nobody is cheaper for
  Costs,          \* costs neighbours may announce, a byte each
  Macs, Ips,      \* what ARP packets may contain
  Infinity,       \* INFINITY: 16
  MaxIterations,  \* bounds the entries of one update; 24 fit in 144 bytes
  PackedEntries,  \* entries buildRoutingPayload packs: 3
  CountLimit,     \* the largest count 16 bits hold: 65535
  NumIPs,         \* the length of myIPs: 3
  AddressPassed   \* run_dynamic's caller passed SUT_IP and SUT_Port

ASSUME VectorAssumption ==
  /\ NoHop \notin Sources /\ Costs \subseteq 0 .. 255
  /\ Infinity \in Nat \ {0} /\ MaxIterations \in Nat
  /\ PackedEntries \in Nat /\ CountLimit \in Nat /\ NumIPs \in Nat \ {0}
  /\ AddressPassed \in BOOLEAN

VARIABLES
  pc,            \* the main thread: what it does next
  packet,        \* the routing update in hand: its source, entries left
  updated,       \* ProcessRoutingUpdate's flag
  ruleList,      \* rules of the packet, to be installed
  isNew,         \* pystate took the state for a new one: to_send is set
  routingTable,  \* the pairs looked up so far, with cost and next hop
  existing,      \* existingEntries
  arpEntries,    \* arp_entries: target MACs met so far
  vector,        \* distanceVector
  unpublished,   \* pairs the rebuilding loop has still to append
  lock,          \* who holds dvLock
  adv,           \* the advertising thread: what it does next
  turn,          \* which of myIPs it builds a payload for
  payload,       \* the payload in hand
  routes,        \* tiHandleIpv4 in the switch
  neighbours,    \* tiHandleOutgoingEthernet in the switch
  published,     \* history: costs of the last complete vector
  said           \* history: the last cost the next hop of a pair announced

shared  == <<vector, lock>>
mainOwn == <<pc, packet, updated, ruleList, isNew, routingTable, existing,
             arpEntries, unpublished, routes, neighbours, published, said>>
advOwn  == <<adv, turn, payload>>
vars    == <<mainOwn, shared, advOwn>>

Least(a, b) == IF a =< b THEN a ELSE b

(* Local variables are reset when they go out of scope.                    *)
NoPacket == [src |-> NoHop, left |-> 0]
NoPayload == [count |-> 0, entries |-> <<>>]

(* Definitions with a suffix, each before the one it resembles, are        *)
(* mistakes the properties are tested against; no action uses them.        *)

-----------------------------------------------------------------------------
Init ==
  /\ pc = "receive" /\ packet = NoPacket
  /\ updated = FALSE /\ ruleList = <<>> /\ isNew = FALSE
  /\ routingTable = <<>> /\ existing = {} /\ arpEntries = {}
  /\ vector = <<>> /\ unpublished = {} /\ lock = "free"
  /\ adv = "sleep" /\ turn = 0 /\ payload = NoPayload
  /\ routes = [k \in StaticRoutes |-> "static"] /\ neighbours = <<>>
  /\ published = <<>> /\ said = <<>>

(* The function f with f[x] = y, added if it is not there.                 *)
With(f, x, y) == [z \in DOMAIN f \cup {x} |-> IF z = x THEN y ELSE f[z]]

(* A routing update arrives, with at most MaxIterations complete entries.  *)
ReceiveUpdate ==
  /\ pc = "receive"
  /\ \E s \in Sources, n \in 0 .. MaxIterations : packet' = [src |-> s, left |-> n]
  /\ pc' = "update"
  /\ UNCHANGED <<updated, ruleList, isNew, routingTable, existing, arpEntries,
                 unpublished, routes, neighbours, published, said, shared, advOwn>>

(* An ARP packet: the cache goes by MAC, the switch's table by address.    *)
ReceiveArp ==
  /\ pc = "receive"
  /\ \E mac \in Macs, ip \in Ips :
       /\ arpEntries' = arpEntries \cup {mac}
       /\ ruleList' = IF mac \in arpEntries THEN <<>>
                      ELSE <<[op |-> "arp", key |-> ip, hop |-> mac]>>
  /\ pc' = "track"
  /\ UNCHANGED <<packet, updated, isNew, routingTable, existing, unpublished,
                 routes, neighbours, published, said, shared, advOwn>>

(* Any other packet changes nothing here, but pystate is still asked.      *)
ReceiveOther ==
  /\ pc = "receive" /\ pc' = "track"
  /\ UNCHANGED <<packet, updated, ruleList, isNew, routingTable, existing,
                 arpEntries, unpublished, routes, neighbours, published, said,
                 shared, advOwn>>

(* Looking a pair up in the defaultdict enters it.                         *)
LookedUp(p) == IF p \in DOMAIN routingTable THEN routingTable[p]
               ELSE [cost |-> Infinity, nhAddr |-> NoHop]

CostThruSource(c) == Least(c + 1, Infinity)

AddRoutingEntryTwice(p, s) ==
  LET rule == [op |-> "add", key |-> Masked[p], hop |-> s] IN <<rule, rule>>
AddRoutingEntry(p, s) ==
  LET rule(op) == [op |-> op, key |-> Masked[p], hop |-> s]
  IN  <<rule("add"), rule(IF p \in existing THEN "mod" ELSE "add")>>

(* The three ways through the loop body of ProcessRoutingUpdate.           *)
CheaperOrEqual(p, s, thru) == thru =< LookedUp(p).cost
Cheaper(p, s, thru) == thru < LookedUp(p).cost
CostChangedNever(p, s, thru) == FALSE
CostChanged(p, s, thru) ==
  ~ Cheaper(p, s, thru) /\ s = LookedUp(p).nhAddr /\ thru # LookedUp(p).cost

UpdatedIfCheaper(p, s, thru) == Cheaper(p, s, thru)
SetsUpdated(p, s, thru) == Cheaper(p, s, thru) \/ CostChanged(p, s, thru)

ProcessEntry ==
  /\ pc = "update" /\ packet.left > 0
  /\ \E p \in Prefixes, c \in Costs :
       LET s    == packet.src
           thru == CostThruSource(c)
       IN  /\ routingTable' = With(routingTable, p,
                CASE Cheaper(p, s, thru)     -> [cost |-> thru, nhAddr |-> s]
                  [] CostChanged(p, s, thru) -> [cost |-> thru, nhAddr |-> s]
                  [] OTHER                   -> LookedUp(p))
           /\ IF Cheaper(p, s, thru)
              THEN /\ ruleList' = ruleList \o AddRoutingEntry(p, s)
                   /\ existing' = existing \cup {p}
              ELSE UNCHANGED <<ruleList, existing>>
           /\ updated' = (updated \/ SetsUpdated(p, s, thru))
           /\ said' = IF routingTable'[p].nhAddr = s THEN With(said, p, c) ELSE said
  /\ packet' = [packet EXCEPT !.left = @ - 1]
  /\ UNCHANGED <<pc, isNew, arpEntries, unpublished, routes, neighbours,
                 published, shared, advOwn>>

UpdateProcessed ==
  /\ pc = "update" /\ packet.left = 0
  /\ pc' = IF updated THEN "rebuild" ELSE "track"
  /\ packet' = NoPacket /\ updated' = FALSE
  /\ UNCHANGED <<ruleList, isNew, routingTable, existing,
                 arpEntries, unpublished, routes, neighbours, published, said,
                 shared, advOwn>>

(* dvLock.acquire(), and the vector is emptied.                            *)
MainAcquire ==
  /\ pc = "rebuild" /\ lock = "free"
  /\ lock' = "main" /\ vector' = <<>>
  /\ unpublished' = DOMAIN routingTable
  /\ pc' = "append"
  /\ UNCHANGED <<packet, updated, ruleList, isNew, routingTable, existing,
                 arpEntries, routes, neighbours, published, said, advOwn>>

(* items() lists the pairs in an order of its own.                         *)
MainAppend ==
  /\ pc = "append"
  /\ \E p \in unpublished :
       /\ vector' = Append(vector, [pair |-> p, cost |-> routingTable[p].cost])
       /\ unpublished' = unpublished \ {p}
  /\ UNCHANGED <<pc, packet, updated, ruleList, isNew, routingTable, existing,
                 arpEntries, routes, neighbours, published, said, lock, advOwn>>

MainRelease ==
  /\ pc = "append" /\ unpublished = {}
  /\ lock' = "free" /\ pc' = "track"
  /\ published' = [p \in DOMAIN routingTable |-> routingTable[p].cost]
  /\ UNCHANGED <<packet, updated, ruleList, isNew, routingTable, existing,
                 arpEntries, unpublished, routes, neighbours, said, vector, advOwn>>

(* is_new(): if so, packet and rules go to the fuzzer a first time.        *)
TrackState ==
  /\ pc = "track" /\ pc' = "install"
  /\ isNew' \in BOOLEAN
  /\ UNCHANGED <<packet, updated, ruleList, routingTable, existing, arpEntries,
                 unpublished, routes, neighbours, published, said, shared, advOwn>>

(* add_entries installs the rules in order.  An entry that is there is not *)
(* added again, and one that is not there cannot be modified.              *)
InstallRule ==
  /\ pc = "install" /\ ruleList # <<>>
  /\ LET r == Head(ruleList) IN
       /\ routes' = IF \/ r.op = "add" /\ r.key \notin DOMAIN routes
                       \/ r.op = "mod" /\ r.key \in DOMAIN routes
                    THEN With(routes, r.key, r.hop) ELSE routes
       /\ neighbours' = IF r.op = "arp" /\ r.key \notin DOMAIN neighbours
                        THEN With(neighbours, r.key, r.hop) ELSE neighbours
  /\ ruleList' = Tail(ruleList)
  /\ UNCHANGED <<pc, packet, updated, isNew, routingTable, existing, arpEntries,
                 unpublished, published, said, shared, advOwn>>

(* The second sendto of a new state; without an address a KeyError ends    *)
(* the process, the daemon thread included.                                *)
Resend ==
  /\ pc = "install" /\ ruleList = <<>>
  /\ pc' = IF isNew /\ ~ AddressPassed THEN "crashed" ELSE "receive"
  /\ isNew' = FALSE
  /\ UNCHANGED <<packet, updated, ruleList, routingTable, existing,
                 arpEntries, unpublished, routes, neighbours, published, said,
                 shared, advOwn>>

-----------------------------------------------------------------------------
(* The thread of SendDistanceVector: sleep, then one payload per address.  *)

WakeUp ==
  /\ pc # "crashed" /\ adv = "sleep"
  /\ adv' = "acquire" /\ turn' = 1
  /\ UNCHANGED <<mainOwn, shared, payload>>

(* encodeNum raises above 16 bits, and the lock is never released.         *)
CountVectorBelow ==
  IF Len(vector) >= CountLimit
  THEN adv' = "dead" /\ UNCHANGED payload
  ELSE adv' = "pack" /\ payload' = [NoPayload EXCEPT !.count = Len(vector)]
CountVector ==
  IF Len(vector) > CountLimit
  THEN adv' = "dead" /\ UNCHANGED payload
  ELSE adv' = "pack" /\ payload' = [NoPayload EXCEPT !.count = Len(vector)]

AdvAcquireUnguarded ==
  /\ pc # "crashed" /\ adv = "acquire"
  /\ CountVector
  /\ UNCHANGED <<mainOwn, lock, vector, turn>>
AdvAcquire ==
  /\ pc # "crashed" /\ adv = "acquire" /\ lock = "free"
  /\ lock' = "adv"
  /\ CountVector
  /\ UNCHANGED <<mainOwn, vector, turn>>

AdvPack ==
  /\ pc # "crashed" /\ adv = "pack"
  /\ payload' = [payload EXCEPT !.entries =
                   SubSeq(vector, 1, Least(Len(vector), PackedEntries))]
  /\ adv' = "release"
  /\ UNCHANGED <<mainOwn, shared, turn>>

AdvReleaseNever ==
  /\ pc # "crashed" /\ adv = "release"
  /\ adv' = "send"
  /\ UNCHANGED <<mainOwn, shared, turn, payload>>
AdvRelease ==
  /\ pc # "crashed" /\ adv = "release"
  /\ lock' = "free" /\ adv' = "send"
  /\ UNCHANGED <<mainOwn, vector, turn, payload>>

AdvSend ==
  /\ pc # "crashed" /\ adv = "send"
  /\ IF turn < NumIPs THEN adv' = "acquire" /\ turn' = turn + 1
                      ELSE adv' = "sleep" /\ turn' = 0
  /\ payload' = NoPayload
  /\ UNCHANGED <<mainOwn, shared>>

MainHandles == \/ ProcessEntry \/ UpdateProcessed \/ MainAppend \/ MainRelease
               \/ TrackState \/ InstallRule \/ Resend
AdvSteps == WakeUp \/ AdvPack \/ AdvRelease \/ AdvSend

Next ==
  \/ ReceiveUpdate \/ ReceiveArp \/ ReceiveOther
  \/ MainHandles \/ MainAcquire
  \/ AdvSteps \/ AdvAcquire

Spec == Init /\ [][Next]_vars

(* Both threads are scheduled.  Waiting for dvLock needs strong fairness:  *)
(* each of them lets go of it for long, the one to sleep ten seconds, the  *)
(* other to wait for the next packet and for bfshell.                      *)
FairSpec ==
  Spec /\ WF_vars(MainHandles) /\ WF_vars(AdvSteps)
       /\ SF_vars(MainAcquire) /\ SF_vars(AdvAcquire)

-----------------------------------------------------------------------------
TypeOK ==
  /\ pc \in {"receive", "update", "rebuild", "append", "track", "install", "crashed"}
  /\ packet \in [src : Sources \cup {NoHop}, left : 0 .. MaxIterations]
  /\ {updated, isNew} \subseteq BOOLEAN
  /\ DOMAIN routingTable \subseteq Prefixes
  /\ \A p \in DOMAIN routingTable :
       routingTable[p] \in [cost : 1 .. Infinity, nhAddr : Sources \cup {NoHop}]
  /\ existing \subseteq Prefixes /\ arpEntries \subseteq Macs
  /\ lock \in {"free", "main", "adv"}
  /\ adv \in {"sleep", "acquire", "pack", "release", "send", "dead"}
  /\ turn \in 0 .. NumIPs

(* What is packed is one vector, not a mixture of two: as many entries as  *)
(* fit, all of the last complete rebuild, and the count belongs to them.   *)
PayloadIsOneVector ==
  adv = "release" =>
    /\ payload.count = Cardinality(DOMAIN published)
    /\ Len(payload.entries) = Least(payload.count, PackedEntries)
    /\ \A i \in DOMAIN payload.entries :
         LET e == payload.entries[i] IN
         e.pair \in DOMAIN published /\ published[e.pair] = e.cost

(* Between two packets the vector has the current cost of every route.     *)
(* Pairs that were only looked up may be missing: nobody reaches them.     *)
RoutesPublished ==
  pc = "receive" =>
    \A p \in DOMAIN routingTable :
      IF p \in DOMAIN published THEN published[p] = routingTable[p].cost
      ELSE routingTable[p] = [cost |-> Infinity, nhAddr |-> NoHop]

(* The cost of a route is what its next hop announced last, plus one hop,  *)
(* whatever other neighbours have said in between.                         *)
CostFromNextHop ==
  \A p \in DOMAIN routingTable :
    routingTable[p].nhAddr # NoHop =>
      /\ p \in DOMAIN said
      /\ routingTable[p].cost = Least(said[p] + 1, Infinity)

(* The switch takes two pairs with one masked key for the same route, and  *)
(* keeps the routes of its rules file until they are modified.             *)
Contested(p) ==
  \/ Masked[p] \in StaticRoutes
  \/ \E q \in DOMAIN routingTable \ {p} : Masked[q] = Masked[p]

(* Between two packets the switch sends uncontested routes where the       *)
(* routing table does.  The first rule of a pair is an add, later ones     *)
(* must modify: which of both, existingEntries decides.                    *)
RoutesInstalled ==
  pc = "receive" =>
    \A p \in DOMAIN routingTable :
      (routingTable[p].nhAddr # NoHop /\ ~ Contested(p)) =>
        /\ Masked[p] \in DOMAIN routes
        /\ routes[Masked[p]] = routingTable[p].nhAddr

(* A thread can die with dvLock in its hands, but only of a vector longer  *)
(* than 16 bits can count, so before that no acquire waits for ever.       *)
LockLostOnlyByOverflow ==
  adv = "dead" => lock = "adv" /\ Cardinality(DOMAIN published) > CountLimit

(* A step of the advertiser never loses an update to the next hop: a route *)
(* changes hands only for a strictly cheaper one.                          *)
HopChangesOnlyForLess ==
  [][\A p \in DOMAIN routingTable :
       routingTable'[p].nhAddr # routingTable[p].nhAddr =>
         routingTable'[p].cost < routingTable[p].cost]_routingTable

(* Every packet is dealt with and the advertiser goes on for ever, unless   *)
(* the process ends or the advertiser has died with the lock.              *)
BothGoOn ==
  /\ (pc \notin {"receive", "crashed"}) ~> (pc \in {"receive", "crashed"} \/ adv = "dead")
  /\ []<>(adv \in {"send", "dead"} \/ pc = "crashed")
=============================================================================
