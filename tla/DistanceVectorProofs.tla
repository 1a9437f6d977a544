------------------------ MODULE DistanceVectorProofs ------------------------
(***************************************************************************)
(* What DistanceVector promises about costs, next hops, the vector and its *)
(* lock, for any pairs, neighbours and sizes.                              *)
(***************************************************************************)
EXTENDS DistanceVector, FiniteSetTheorems, SequenceTheorems, TLAPS

Entries == [pair : Prefixes, cost : 1 .. Infinity]

(* In an update the packet names its neighbour.                            *)
SourceInv == pc = "update" => packet.src \in Sources

(* Who is between acquire and release holds the lock.                      *)
LockInv ==
  /\ lock = "main" <=> pc = "append"
  /\ lock = "adv" <=> adv \in {"pack", "release", "dead"}

(* Entries of the vector carry the costs of f.                             *)
Carries(f) ==
  \A i \in 1 .. Len(vector) : /\ vector[i].pair \in DOMAIN f
                              /\ f[vector[i].pair] = vector[i].cost

TableCosts == [p \in DOMAIN routingTable |-> routingTable[p].cost]

(* The vector is the published one unless the main thread is refilling it. *)
VectorInv ==
  /\ IsFiniteSet(DOMAIN routingTable)
  /\ vector \in Seq(Entries)
  /\ payload \in [count : Nat, entries : Seq(Entries)]
  /\ pc # "append" => /\ Len(vector) = Cardinality(DOMAIN published)
                      /\ Carries(published)
  /\ pc = "append" => /\ unpublished \subseteq DOMAIN routingTable
                      /\ Len(vector) + Cardinality(unpublished)
                           = Cardinality(DOMAIN routingTable)
                      /\ Carries(TableCosts)

PayloadInv ==
  /\ adv \in {"pack", "release"} => payload.count = Len(vector)
  /\ adv = "release" =>
       payload.entries = SubSeq(vector, 1, Least(Len(vector), PackedEntries))
  /\ adv = "dead" => Len(vector) > CountLimit

(* What the published vector says of a pair that was looked up.            *)
Fresh(p) ==
  IF p \in DOMAIN published THEN published[p] = routingTable[p].cost
  ELSE routingTable[p] = [cost |-> Infinity, nhAddr |-> NoHop]

FreshInv ==
  /\ DOMAIN published \subseteq DOMAIN routingTable
  /\ pc # "update" => updated = FALSE
  /\ (pc \notin {"rebuild", "append"} /\ ~ updated) =>
       \A p \in DOMAIN routingTable : Fresh(p)

-----------------------------------------------------------------------------
(* A neighbour's cost plus one hop is a cost.                              *)
LEMMA ThruType ==
  ASSUME NEW c \in Costs
  PROVE  /\ CostThruSource(c) \in 1 .. Infinity
         /\ CostThruSource(c) = Least(c + 1, Infinity)
BY VectorAssumption DEF CostThruSource, Least

(* What an entry of an update leaves in the table.                         *)
LEMMA EntryEffect ==
  ASSUME TypeOK, SourceInv, ProcessEntry
  PROVE  \E p \in Prefixes, c \in Costs :
           LET s == packet.src
               thru == CostThruSource(c) IN
           /\ s \in Sources /\ s # NoHop
           /\ DOMAIN routingTable' = DOMAIN routingTable \cup {p}
           /\ \A q \in DOMAIN routingTable : q # p => routingTable'[q] = routingTable[q]
           /\ \/ /\ Cheaper(p, s, thru) \/ CostChanged(p, s, thru)
                 /\ routingTable'[p] = [cost |-> thru, nhAddr |-> s]
              \/ /\ ~ Cheaper(p, s, thru) /\ ~ CostChanged(p, s, thru)
                 /\ routingTable'[p] = LookedUp(p)
           /\ updated' = (updated \/ SetsUpdated(p, s, thru))
           /\ said' = IF routingTable'[p].nhAddr = s THEN With(said, p, c) ELSE said
<1>1. PICK p \in Prefixes, c \in Costs :
        LET s == packet.src
            thru == CostThruSource(c) IN
        /\ routingTable' = With(routingTable, p,
                CASE Cheaper(p, s, thru)     -> [cost |-> thru, nhAddr |-> s]
                  [] CostChanged(p, s, thru) -> [cost |-> thru, nhAddr |-> s]
                  [] OTHER                   -> LookedUp(p))
        /\ updated' = (updated \/ SetsUpdated(p, s, thru))
        /\ said' = IF routingTable'[p].nhAddr = s THEN With(said, p, c) ELSE said
  BY DEF ProcessEntry
<1> DEFINE s == packet.src
           thru == CostThruSource(c)
           y == CASE Cheaper(p, s, thru)     -> [cost |-> thru, nhAddr |-> s]
                  [] CostChanged(p, s, thru) -> [cost |-> thru, nhAddr |-> s]
                  [] OTHER                   -> LookedUp(p)
<1>2. s \in Sources /\ s # NoHop
  BY VectorAssumption DEF ProcessEntry, SourceInv
<1>3. \/ /\ Cheaper(p, s, thru) \/ CostChanged(p, s, thru)
         /\ y = [cost |-> thru, nhAddr |-> s]
      \/ /\ ~ Cheaper(p, s, thru) /\ ~ CostChanged(p, s, thru)
         /\ y = LookedUp(p)
  OBVIOUS
<1>4. routingTable' = With(routingTable, p, y)
  BY <1>1
<1> HIDE DEF y
<1>5. /\ DOMAIN routingTable' = DOMAIN routingTable \cup {p}
      /\ routingTable'[p] = y
      /\ \A q \in DOMAIN routingTable : q # p => routingTable'[q] = routingTable[q]
  BY <1>4 DEF With
<1> QED
  BY <1>1, <1>2, <1>3, <1>5

-----------------------------------------------------------------------------
(* The steps that leave the table and what was said of it alone.           *)
RouteVars == <<routingTable, said>>

LEMMA RoutesChangedByEntry ==
  ASSUME [Next]_vars PROVE ProcessEntry \/ UNCHANGED RouteVars
BY DEF Next, MainHandles, AdvSteps, ReceiveUpdate, ReceiveArp, ReceiveOther,
   UpdateProcessed, MainAcquire, MainAppend, MainRelease, TrackState, InstallRule,
   Resend, WakeUp, AdvAcquire, AdvPack, AdvRelease, AdvSend, RouteVars, vars,
   mainOwn, advOwn, shared

RouteTypes ==
  /\ DOMAIN routingTable \subseteq Prefixes
  /\ \A p \in DOMAIN routingTable :
       routingTable[p] \in [cost : 1 .. Infinity, nhAddr : Sources \cup {NoHop}]

LEMMA RouteTypesStep ==
  ASSUME TypeOK, SourceInv, [Next]_vars PROVE RouteTypes'
<1>1. RouteTypes
  BY DEF TypeOK, RouteTypes
<1>2. CASE UNCHANGED RouteVars
  BY <1>1, <1>2 DEF RouteTypes, RouteVars
<1>3. CASE ProcessEntry
  <2>1. PICK p \in Prefixes, c \in Costs :
          LET s == packet.src
              thru == CostThruSource(c) IN
          /\ s \in Sources
          /\ DOMAIN routingTable' = DOMAIN routingTable \cup {p}
          /\ \A q \in DOMAIN routingTable : q # p => routingTable'[q] = routingTable[q]
          /\ routingTable'[p] \in {[cost |-> thru, nhAddr |-> s], LookedUp(p)}
    BY <1>3, EntryEffect
  <2>2. LookedUp(p) \in [cost : 1 .. Infinity, nhAddr : Sources \cup {NoHop}]
    BY <1>1, VectorAssumption DEF RouteTypes, LookedUp
  <2>3. [cost |-> CostThruSource(c), nhAddr |-> packet.src]
          \in [cost : 1 .. Infinity, nhAddr : Sources \cup {NoHop}]
    BY <2>1, ThruType
  <2>4. routingTable'[p] \in [cost : 1 .. Infinity, nhAddr : Sources \cup {NoHop}]
    BY <2>1, <2>2, <2>3
  <2> QED
    BY <1>1, <2>1, <2>4 DEF RouteTypes
<1> QED
  BY <1>2, <1>3, RoutesChangedByEntry

(* Cost and next hop change together with what the next hop said.          *)
LEMMA CostStep ==
  ASSUME TypeOK, SourceInv, CostFromNextHop, [Next]_vars
  PROVE  CostFromNextHop'
<1>1. CASE UNCHANGED RouteVars
  BY <1>1 DEF CostFromNextHop, RouteVars
<1>2. CASE ProcessEntry
  <2>1. PICK p \in Prefixes, c \in Costs :
           LET s == packet.src
               thru == CostThruSource(c) IN
           /\ s \in Sources /\ s # NoHop
           /\ DOMAIN routingTable' = DOMAIN routingTable \cup {p}
           /\ \A q \in DOMAIN routingTable : q # p => routingTable'[q] = routingTable[q]
           /\ \/ /\ Cheaper(p, s, thru) \/ CostChanged(p, s, thru)
                 /\ routingTable'[p] = [cost |-> thru, nhAddr |-> s]
              \/ /\ ~ Cheaper(p, s, thru) /\ ~ CostChanged(p, s, thru)
                 /\ routingTable'[p] = LookedUp(p)
           /\ said' = IF routingTable'[p].nhAddr = s THEN With(said, p, c) ELSE said
    BY <1>2, EntryEffect
  <2> DEFINE s == packet.src
             thru == CostThruSource(c)
  <2>2. ASSUME NEW q \in DOMAIN routingTable', q # p, routingTable'[q].nhAddr # NoHop
        PROVE  q \in DOMAIN said' /\ routingTable'[q].cost = Least(said'[q] + 1, Infinity)
    <3>1. /\ q \in DOMAIN routingTable
          /\ q \in DOMAIN said /\ routingTable[q].cost = Least(said[q] + 1, Infinity)
      BY <2>1, <2>2 DEF CostFromNextHop
    <3>2. q \in DOMAIN said' /\ said'[q] = said[q]
      BY <2>1, <2>2, <3>1 DEF With
    <3> QED
      BY <2>1, <2>2, <3>1, <3>2
  <2>3. ASSUME routingTable'[p].nhAddr # NoHop
        PROVE  p \in DOMAIN said' /\ routingTable'[p].cost = Least(said'[p] + 1, Infinity)
    <3>1. CASE routingTable'[p].nhAddr = s
      <4>1. said' = With(said, p, c)
        BY <2>1, <3>1
      <4>2. p \in DOMAIN said' /\ said'[p] = c
        BY <4>1 DEF With
      <4>3. routingTable'[p].cost = thru
        <5>1. CASE routingTable'[p] = [cost |-> thru, nhAddr |-> s]
          BY <5>1
        <5>2. CASE /\ ~ Cheaper(p, s, thru) /\ ~ CostChanged(p, s, thru)
                   /\ routingTable'[p] = LookedUp(p)
          BY <3>1, <5>2 DEF CostChanged
        <5> QED
          BY <2>1, <5>1, <5>2
      <4> QED
        BY <4>2, <4>3, ThruType
    <3>2. CASE routingTable'[p].nhAddr # s
      <4>1. said' = said /\ routingTable'[p] = LookedUp(p)
        BY <2>1, <3>2
      <4>2. p \in DOMAIN routingTable /\ routingTable'[p] = routingTable[p]
        BY <2>3, <4>1 DEF LookedUp
      <4> QED
        BY <2>3, <4>1, <4>2 DEF CostFromNextHop
    <3> QED
      BY <3>1, <3>2
  <2> QED
    BY <2>2, <2>3 DEF CostFromNextHop
<1> QED
  BY <1>1, <1>2, RoutesChangedByEntry

(* A route that changes hands was undercut.                                *)
LEMMA HopStep ==
  ASSUME TypeOK, SourceInv, [Next]_vars
  PROVE  \A p \in DOMAIN routingTable :
           routingTable'[p].nhAddr # routingTable[p].nhAddr =>
             routingTable'[p].cost < routingTable[p].cost
<1>1. CASE UNCHANGED RouteVars
  BY <1>1 DEF RouteVars
<1>2. CASE ProcessEntry
  <2>1. PICK p \in Prefixes, c \in Costs :
           LET s == packet.src
               thru == CostThruSource(c) IN
           /\ \A q \in DOMAIN routingTable : q # p => routingTable'[q] = routingTable[q]
           /\ \/ /\ Cheaper(p, s, thru) \/ CostChanged(p, s, thru)
                 /\ routingTable'[p] = [cost |-> thru, nhAddr |-> s]
              \/ routingTable'[p] = LookedUp(p)
    BY <1>2, EntryEffect
  <2> QED
    BY <2>1 DEF Cheaper, CostChanged, LookedUp
<1> QED
  BY <1>1, <1>2, RoutesChangedByEntry

-----------------------------------------------------------------------------
(* The lock changes hands with the two program counters.                   *)
LEMMA LockStep ==
  ASSUME LockInv, [Next]_vars PROVE LockInv'
<1> USE DEF LockInv
<1>1. CASE MainAcquire \/ MainRelease
  BY <1>1 DEF MainAcquire, MainRelease, advOwn
<1>2. CASE AdvAcquire
  BY <1>2 DEF AdvAcquire, CountVector, mainOwn
<1>3. CASE AdvPack \/ AdvRelease
  BY <1>3 DEF AdvPack, AdvRelease, mainOwn, shared
<1>4. CASE WakeUp \/ AdvSend
  BY <1>4 DEF WakeUp, AdvSend, mainOwn, shared
<1>5. CASE ~ (MainAcquire \/ MainRelease \/ AdvAcquire \/ AdvSteps)
  <2>1. UNCHANGED <<lock, adv>>
    BY <1>5 DEF Next, MainHandles, ReceiveUpdate, ReceiveArp, ReceiveOther,
       ProcessEntry, UpdateProcessed, MainAppend, TrackState, InstallRule, Resend,
       vars, advOwn, shared
  <2>2. pc = "append" <=> pc' = "append"
    BY <1>5 DEF Next, MainHandles, ReceiveUpdate, ReceiveArp, ReceiveOther,
       ProcessEntry, UpdateProcessed, MainAppend, TrackState, InstallRule, Resend,
       vars, mainOwn
  <2> QED
    BY <2>1, <2>2
<1> QED
  BY <1>1, <1>2, <1>3, <1>4, <1>5 DEF AdvSteps

LEMMA SourceStep ==
  ASSUME TypeOK, SourceInv, [Next]_vars PROVE SourceInv'
<1> USE DEF SourceInv
<1>1. CASE ReceiveUpdate
  BY <1>1 DEF ReceiveUpdate
<1>2. CASE ProcessEntry
  BY <1>2 DEF ProcessEntry, TypeOK
<1>3. CASE ~ (ReceiveUpdate \/ ProcessEntry)
  BY <1>3 DEF Next, MainHandles, AdvSteps, ReceiveArp, ReceiveOther, UpdateProcessed,
     MainAcquire, MainAppend, MainRelease, TrackState, InstallRule, Resend, WakeUp,
     AdvAcquire, AdvPack, AdvRelease, AdvSend, vars, mainOwn
<1> QED
  BY <1>1, <1>2, <1>3

(* The other conjuncts of TypeOK.                                          *)
LEMMA TypeStep ==
  ASSUME TypeOK, SourceInv, [Next]_vars PROVE TypeOK'
<1> USE VectorAssumption DEF TypeOK
<1>1. RouteTypes'
  BY RouteTypesStep
<1>2. pc' \in {"receive", "update", "rebuild", "append", "track", "install", "crashed"}
  BY DEF Next, MainHandles, AdvSteps, ReceiveUpdate, ReceiveArp, ReceiveOther,
   ProcessEntry, UpdateProcessed, MainAcquire, MainAppend, MainRelease, TrackState,
   InstallRule, Resend, WakeUp, AdvAcquire, AdvPack, AdvRelease, AdvSend, CountVector,
   vars, mainOwn, advOwn, shared
<1>3. packet' \in [src : Sources \cup {NoHop}, left : 0 .. MaxIterations]
  <2>1. CASE ReceiveUpdate
    BY <2>1 DEF ReceiveUpdate
  <2>2. CASE ProcessEntry
    BY <2>2 DEF ProcessEntry
  <2>3. CASE UpdateProcessed
    BY <2>3 DEF UpdateProcessed, NoPacket
  <2>4. CASE packet' = packet
    BY <2>4
  <2> QED
    BY <2>1, <2>2, <2>3, <2>4 DEF Next, MainHandles, AdvSteps, ReceiveArp, ReceiveOther,
       MainAcquire, MainAppend, MainRelease, TrackState, InstallRule, Resend,
       WakeUp, AdvAcquire, AdvPack, AdvRelease, AdvSend, vars, mainOwn
<1>4. updated' \in BOOLEAN /\ isNew' \in BOOLEAN
  <2>1. CASE ProcessEntry
    BY <2>1 DEF ProcessEntry
  <2>2. CASE ~ ProcessEntry
    BY <2>2 DEF Next, MainHandles, AdvSteps, ReceiveUpdate, ReceiveArp, ReceiveOther,
   UpdateProcessed, MainAcquire, MainAppend, MainRelease, TrackState,
   InstallRule, Resend, WakeUp, AdvAcquire, AdvPack, AdvRelease, AdvSend, CountVector,
   vars, mainOwn, advOwn, shared
  <2> QED
    BY <2>1, <2>2
<1>5. existing' \subseteq Prefixes /\ arpEntries' \subseteq Macs
  BY DEF Next, MainHandles, AdvSteps, ReceiveUpdate, ReceiveArp, ReceiveOther,
   ProcessEntry, UpdateProcessed, MainAcquire, MainAppend, MainRelease, TrackState,
   InstallRule, Resend, WakeUp, AdvAcquire, AdvPack, AdvRelease, AdvSend, CountVector,
   vars, mainOwn, advOwn, shared
<1>6. lock' \in {"free", "main", "adv"}
  BY DEF Next, MainHandles, AdvSteps, ReceiveUpdate, ReceiveArp, ReceiveOther,
   ProcessEntry, UpdateProcessed, MainAcquire, MainAppend, MainRelease, TrackState,
   InstallRule, Resend, WakeUp, AdvAcquire, AdvPack, AdvRelease, AdvSend, CountVector,
   vars, mainOwn, advOwn, shared
<1>7. adv' \in {"sleep", "acquire", "pack", "release", "send", "dead"}
  BY DEF Next, MainHandles, AdvSteps, ReceiveUpdate, ReceiveArp, ReceiveOther,
   ProcessEntry, UpdateProcessed, MainAcquire, MainAppend, MainRelease, TrackState,
   InstallRule, Resend, WakeUp, AdvAcquire, AdvPack, AdvRelease, AdvSend, CountVector,
   vars, mainOwn, advOwn, shared
<1>8. turn' \in 0 .. NumIPs
  BY DEF Next, MainHandles, AdvSteps, ReceiveUpdate, ReceiveArp, ReceiveOther,
   ProcessEntry, UpdateProcessed, MainAcquire, MainAppend, MainRelease, TrackState,
   InstallRule, Resend, WakeUp, AdvAcquire, AdvPack, AdvRelease, AdvSend, CountVector,
   vars, mainOwn, advOwn, shared
<1> QED
  BY <1>1, <1>2, <1>3, <1>4, <1>5, <1>6, <1>7, <1>8 DEF RouteTypes

-----------------------------------------------------------------------------
(* One entry more in the table.                                            *)
LEMMA FiniteStep ==
  ASSUME TypeOK, SourceInv, IsFiniteSet(DOMAIN routingTable), [Next]_vars
  PROVE  IsFiniteSet(DOMAIN routingTable')
<1>1. CASE UNCHANGED RouteVars
  BY <1>1 DEF RouteVars
<1>2. CASE ProcessEntry
  <2>1. PICK p : DOMAIN routingTable' = DOMAIN routingTable \cup {p}
    BY <1>2, EntryEffect
  <2> QED
    BY <2>1, FS_AddElement
<1> QED
  BY <1>1, <1>2, RoutesChangedByEntry

(* The vector is rebuilt from the table, pair by pair.                     *)
LEMMA VectorStep ==
  ASSUME TypeOK, SourceInv, LockInv, VectorInv, [Next]_vars PROVE VectorInv'
<1>1. IsFiniteSet(DOMAIN routingTable')
  BY FiniteStep DEF VectorInv
<1> DEFINE Types == /\ vector' \in Seq(Entries)
                    /\ payload' \in [count : Nat, entries : Seq(Entries)]
           Whole == pc' # "append" => /\ Len(vector') = Cardinality(DOMAIN published')
                                      /\ Carries(published)'
           Half == pc' = "append" =>
                      /\ unpublished' \subseteq DOMAIN routingTable'
                      /\ Len(vector') + Cardinality(unpublished')
                           = Cardinality(DOMAIN routingTable')
                      /\ Carries(TableCosts)'
<1>2. Types
  <2>1. CASE MainAcquire
    BY <2>1 DEF MainAcquire, advOwn, VectorInv
  <2>2. CASE MainAppend
    <3>1. PICK p \in unpublished :
            vector' = Append(vector, [pair |-> p, cost |-> routingTable[p].cost])
      BY <2>2 DEF MainAppend
    <3> DEFINE e == [pair |-> p, cost |-> routingTable[p].cost]
    <3>2. e \in Entries
      BY <2>2 DEF MainAppend, VectorInv, TypeOK, Entries
    <3>3. vector \in Seq(Entries) /\ vector' = Append(vector, e)
      BY <3>1 DEF VectorInv
    <3> HIDE DEF e
    <3>4. vector' \in Seq(Entries)
      BY <3>2, <3>3
    <3> QED
      BY <2>2, <3>4 DEF MainAppend, advOwn, VectorInv
  <2>3. CASE AdvAcquire
    <3>1. vector' = vector
      BY <2>3 DEF AdvAcquire
    <3>2. [NoPayload EXCEPT !.count = Len(vector)] \in [count : Nat, entries : Seq(Entries)]
      <4>1. Len(vector) \in Nat
        BY DEF VectorInv
      <4>2. [NoPayload EXCEPT !.count = Len(vector)] = [count |-> Len(vector), entries |-> <<>>]
        BY DEF NoPayload
      <4>3. <<>> \in Seq(Entries)
        OBVIOUS
      <4> QED
        BY <4>1, <4>2, <4>3
    <3>3. payload' \in [count : Nat, entries : Seq(Entries)]
      BY <2>3, <3>2 DEF AdvAcquire, CountVector, VectorInv
    <3> QED
      BY <3>1, <3>3 DEF VectorInv
  <2>4. CASE AdvPack
    <3>1. SubSeq(vector, 1, Least(Len(vector), PackedEntries)) \in Seq(Entries)
      BY VectorAssumption DEF VectorInv, Least
    <3> QED
      BY <2>4, <3>1 DEF AdvPack, shared, VectorInv
  <2>5. CASE AdvSend
    BY <2>5 DEF AdvSend, NoPayload, shared, VectorInv
  <2>6. CASE UNCHANGED <<vector, payload>>
    BY <2>6 DEF VectorInv
  <2> QED
    BY <2>1, <2>2, <2>3, <2>4, <2>5, <2>6 DEF Next, MainHandles, AdvSteps,
       ReceiveUpdate, ReceiveArp, ReceiveOther, ProcessEntry, UpdateProcessed,
       MainRelease, TrackState, InstallRule, Resend, WakeUp, AdvRelease, vars,
       advOwn, shared
<1>3. Whole /\ Half
  <2>1. CASE MainAcquire
    <3>1. /\ pc' = "append" /\ vector' = <<>>
          /\ unpublished' = DOMAIN routingTable /\ routingTable' = routingTable
      BY <2>1 DEF MainAcquire
    <3>2. Cardinality(DOMAIN routingTable) \in Nat
      BY FS_CardinalityType DEF VectorInv
    <3> QED
      BY <3>1, <3>2 DEF Carries
  <2>2. CASE MainAppend
    <3> DEFINE new(p) == [pair |-> p, cost |-> routingTable[p].cost]
    <3>1. PICK p \in unpublished :
            vector' = Append(vector, new(p)) /\ unpublished' = unpublished \ {p}
      BY <2>2 DEF MainAppend
    <3>2. /\ pc = "append" /\ pc' = "append" /\ routingTable' = routingTable
      BY <2>2 DEF MainAppend
    <3>3. Len(vector') = Len(vector) + 1 /\ Len(vector) \in Nat
      BY <3>1 DEF VectorInv
    <3>4. Cardinality(unpublished') = Cardinality(unpublished) - 1
          /\ Cardinality(unpublished) \in Nat
      <4>1. IsFiniteSet(unpublished)
        BY <3>2, FS_Subset DEF VectorInv
      <4> QED
        BY <3>1, <4>1, FS_RemoveElement, FS_CardinalityType
    <3>5. Carries(TableCosts)'
      <4>1. p \in DOMAIN routingTable
        BY <3>1, <3>2 DEF VectorInv
      <4>2. ASSUME NEW i \in 1 .. Len(vector')
            PROVE  vector'[i] = IF i =< Len(vector) THEN vector[i] ELSE new(p)
        BY <3>1, <3>3 DEF VectorInv
      <4>3. Carries(TableCosts) /\ TableCosts' = TableCosts
        BY <3>2 DEF VectorInv, TableCosts
      <4> QED
        BY <3>3, <4>1, <4>2, <4>3 DEF Carries, TableCosts
    <3>6. Len(vector') + Cardinality(unpublished') = Cardinality(DOMAIN routingTable')
      BY <3>2, <3>3, <3>4, FS_CardinalityType DEF VectorInv
    <3> QED
      BY <3>1, <3>2, <3>5, <3>6 DEF VectorInv
  <2>3. CASE MainRelease
    <3>1. /\ pc = "append" /\ pc' # "append" /\ unpublished = {}
          /\ published' = TableCosts /\ UNCHANGED <<vector, routingTable>>
      BY <2>3 DEF MainRelease, TableCosts
    <3>2. Len(vector) = Cardinality(DOMAIN routingTable)
      BY <3>1, FS_EmptySet DEF VectorInv
    <3> QED
      BY <3>1, <3>2 DEF VectorInv, Carries, TableCosts
  <2>4. CASE ~ (MainAcquire \/ MainAppend \/ MainRelease)
    <3>1. /\ pc' = "append" <=> pc = "append"
          /\ UNCHANGED <<vector, published>>
      BY <2>4 DEF Next, MainHandles, AdvSteps, ReceiveUpdate, ReceiveArp, ReceiveOther,
         ProcessEntry, UpdateProcessed, TrackState, InstallRule, Resend, WakeUp,
         AdvAcquire, AdvPack, AdvRelease, AdvSend, vars, mainOwn, shared
    <3>2. pc = "append" => UNCHANGED <<routingTable, unpublished>>
      BY <2>4 DEF Next, MainHandles, AdvSteps, ReceiveUpdate, ReceiveArp, ReceiveOther,
         ProcessEntry, UpdateProcessed, TrackState, InstallRule, Resend, WakeUp,
         AdvAcquire, AdvPack, AdvRelease, AdvSend, vars, mainOwn
    <3> QED
      BY <3>1, <3>2 DEF VectorInv, Carries, TableCosts
  <2> QED
    BY <2>1, <2>2, <2>3, <2>4
<1> QED
  BY <1>1, <1>2, <1>3 DEF VectorInv

(* While the advertiser holds the lock, the vector it counted stays.       *)
LEMMA PayloadStep ==
  ASSUME LockInv, VectorInv, PayloadInv, [Next]_vars PROVE PayloadInv'
<1>1. CASE AdvAcquire
  <2>1. vector' = vector /\ Len(vector) \in Nat
    BY <1>1 DEF AdvAcquire, VectorInv
  <2>2. \/ adv' = "dead" /\ Len(vector) > CountLimit
        \/ adv' = "pack" /\ payload'.count = Len(vector)
    BY <1>1 DEF AdvAcquire, CountVector, NoPayload
  <2> QED
    BY <2>1, <2>2 DEF PayloadInv
<1>2. CASE AdvPack
  <2>1. /\ vector' = vector /\ adv = "pack" /\ adv' = "release"
        /\ payload' = [payload EXCEPT !.entries =
                         SubSeq(vector, 1, Least(Len(vector), PackedEntries))]
    BY <1>2 DEF AdvPack, shared
  <2>2. /\ payload'.count = payload.count
        /\ payload'.entries = SubSeq(vector, 1, Least(Len(vector), PackedEntries))
    BY <2>1 DEF VectorInv
  <2> QED
    BY <2>1, <2>2 DEF PayloadInv
<1>3. CASE WakeUp \/ AdvRelease \/ AdvSend
  BY <1>3 DEF WakeUp, AdvRelease, AdvSend, PayloadInv
<1>4. CASE ~ (AdvAcquire \/ AdvSteps)
  <2>1. UNCHANGED <<adv, payload>>
    BY <1>4 DEF Next, MainHandles, ReceiveUpdate, ReceiveArp, ReceiveOther,
       ProcessEntry, UpdateProcessed, MainAcquire, MainAppend, MainRelease, TrackState,
       InstallRule, Resend, vars, advOwn
  <2>2. adv \in {"pack", "release", "dead"} => vector' = vector
    BY <1>4 DEF LockInv, Next, MainHandles, ReceiveUpdate, ReceiveArp, ReceiveOther,
       ProcessEntry, UpdateProcessed, MainAcquire, MainAppend, MainRelease, TrackState,
       InstallRule, Resend, vars, shared
  <2> QED
    BY <2>1, <2>2 DEF PayloadInv
<1> QED
  BY <1>1, <1>2, <1>3, <1>4 DEF AdvSteps

(* An update that changes a cost sets the flag that rebuilds the vector.   *)
LEMMA FreshStep ==
  ASSUME TypeOK, SourceInv, FreshInv, [Next]_vars PROVE FreshInv'
<1> USE DEF FreshInv
<1>1. CASE ProcessEntry
  <2>1. PICK p \in Prefixes, c \in Costs :
           LET s == packet.src
               thru == CostThruSource(c) IN
           /\ DOMAIN routingTable' = DOMAIN routingTable \cup {p}
           /\ \A q \in DOMAIN routingTable : q # p => routingTable'[q] = routingTable[q]
           /\ \/ Cheaper(p, s, thru) \/ CostChanged(p, s, thru)
              \/ routingTable'[p] = LookedUp(p)
           /\ updated' = (updated \/ SetsUpdated(p, s, thru))
    BY <1>1, EntryEffect
  <2>2. pc = "update" /\ pc' = pc /\ published' = published
    BY <1>1 DEF ProcessEntry
  <2>3. ASSUME ~ updated', NEW q \in DOMAIN routingTable' PROVE Fresh(q)'
    <3>1. ~ updated /\ routingTable'[p] = LookedUp(p)
      BY <2>1, <2>3 DEF SetsUpdated
    <3>2. CASE q \in DOMAIN routingTable
      <4>1. routingTable'[q] = routingTable[q]
        BY <2>1, <3>1, <3>2 DEF LookedUp
      <4> QED
        BY <2>2, <3>1, <3>2, <4>1 DEF Fresh
    <3>3. CASE q \notin DOMAIN routingTable
      <4>1. q = p /\ q \notin DOMAIN published
        BY <2>1, <3>3
      <4> QED
        BY <2>2, <3>1, <3>3, <4>1 DEF Fresh, LookedUp
    <3> QED
      BY <3>2, <3>3
  <2> QED
    BY <2>1, <2>2, <2>3
<1>2. CASE MainRelease
  <2>1. /\ published' = TableCosts /\ pc' = "track" /\ pc = "append"
        /\ UNCHANGED <<routingTable, updated>>
    BY <1>2 DEF MainRelease, TableCosts
  <2> QED
    BY <2>1 DEF Fresh, TableCosts
<1>3. CASE UpdateProcessed
  <2>1. /\ pc = "update" /\ pc' = IF updated THEN "rebuild" ELSE "track"
        /\ updated' = FALSE /\ UNCHANGED <<routingTable, published>>
    BY <1>3 DEF UpdateProcessed
  <2> QED
    BY <2>1 DEF Fresh
<1>4. CASE ~ (ProcessEntry \/ MainRelease \/ UpdateProcessed)
  <2>1. UNCHANGED <<routingTable, published, updated>>
    BY <1>4 DEF Next, MainHandles, AdvSteps, ReceiveUpdate, ReceiveArp, ReceiveOther,
       MainAcquire, MainAppend, TrackState, InstallRule, Resend, WakeUp,
       AdvAcquire, AdvPack, AdvRelease, AdvSend, vars, mainOwn
  <2>2. /\ pc = "update" => pc' = "update"
        /\ pc \in {"rebuild", "append"} => pc' \in {"rebuild", "append"}
    BY <1>4 DEF Next, MainHandles, AdvSteps, ReceiveUpdate, ReceiveArp, ReceiveOther,
       MainAcquire, MainAppend, TrackState, InstallRule, Resend, WakeUp,
       AdvAcquire, AdvPack, AdvRelease, AdvSend, vars, mainOwn
  <2> QED
    BY <2>1, <2>2 DEF Fresh
<1> QED
  BY <1>1, <1>2, <1>3, <1>4

-----------------------------------------------------------------------------
DVInv ==
  /\ TypeOK /\ SourceInv /\ LockInv
  /\ VectorInv /\ PayloadInv /\ FreshInv /\ CostFromNextHop

LEMMA DVInit == Init => DVInv
<1> SUFFICES ASSUME Init PROVE DVInv
  OBVIOUS
<1> USE DEF Init
<1>1. /\ DOMAIN routingTable = {} /\ DOMAIN published = {}
      /\ vector \in Seq(Entries) /\ Len(vector) = 0
  OBVIOUS
<1>2. TypeOK
  <2>1. packet \in [src : Sources \cup {NoHop}, left : 0 .. MaxIterations]
    BY VectorAssumption DEF NoPacket
  <2>2. updated \in BOOLEAN /\ isNew \in BOOLEAN
    OBVIOUS
  <2>3. turn \in 0 .. NumIPs
    BY VectorAssumption
  <2> QED
    BY <1>1, <2>1, <2>2, <2>3 DEF TypeOK
<1>3. SourceInv /\ LockInv /\ PayloadInv /\ FreshInv /\ CostFromNextHop
  BY <1>1 DEF SourceInv, LockInv, PayloadInv, FreshInv, CostFromNextHop
<1>4. VectorInv
  <2>1. IsFiniteSet({}) /\ Cardinality({}) = 0
    BY FS_EmptySet
  <2>2. NoPayload \in [count : Nat, entries : Seq(Entries)]
    BY DEF NoPayload
  <2> QED
    BY <1>1, <2>1, <2>2 DEF VectorInv, Carries
<1> QED
  BY <1>2, <1>3, <1>4 DEF DVInv

(* Types, lock, vector, payload and costs hold together in every state of  *)
(* the controller: none of the promises below is inductive by itself.      *)
THEOREM VectorInvariant == Spec => []DVInv
<1>1. DVInv /\ [Next]_vars => DVInv'
  BY TypeStep, SourceStep, LockStep, VectorStep, PayloadStep, FreshStep, CostStep
     DEF DVInv
<1> QED
  BY <1>1, DVInit, PTL DEF Spec

(* Costs stay between 1 and INFINITY and next hops are neighbours, in any  *)
(* sequence of updates.                                                    *)
THEOREM TypeCorrect == Spec => []TypeOK
<1>1. DVInv => TypeOK
  BY DEF DVInv
<1> QED
  BY <1>1, VectorInvariant, PTL

(* The cost of a route is its next hop's last announcement plus one hop,   *)
(* capped.                                                                 *)
THEOREM CostsFollowNextHop == Spec => []CostFromNextHop
<1>1. DVInv => CostFromNextHop
  BY DEF DVInv
<1> QED
  BY <1>1, VectorInvariant, PTL

(* A pair that has a route never loses it to another neighbour but for a   *)
(* strictly lower cost.                                                    *)
THEOREM HopsOnlyUndercut == Spec => HopChangesOnlyForLess
<1>1. DVInv /\ [Next]_vars =>
        [\A p \in DOMAIN routingTable :
           routingTable'[p].nhAddr # routingTable[p].nhAddr =>
             routingTable'[p].cost < routingTable[p].cost]_routingTable
  BY HopStep DEF DVInv
<1> QED
  BY <1>1, VectorInvariant, PTL DEF Spec, HopChangesOnlyForLess

(* What SendDistanceVector packs under dvLock is one vector, as published  *)
(* by one rebuild, with its own count.                                     *)
THEOREM PayloadsAreVectors == Spec => []PayloadIsOneVector
<1>1. DVInv => PayloadIsOneVector
  <2> SUFFICES ASSUME DVInv, adv = "release"
               PROVE  /\ payload.count = Cardinality(DOMAIN published)
                      /\ Len(payload.entries) = Least(payload.count, PackedEntries)
                      /\ \A i \in DOMAIN payload.entries :
                           LET e == payload.entries[i] IN
                           e.pair \in DOMAIN published /\ published[e.pair] = e.cost
    BY DEF PayloadIsOneVector
  <2>1. pc # "append"
    BY DEF DVInv, LockInv
  <2>2. /\ Len(vector) = Cardinality(DOMAIN published) /\ Carries(published)
        /\ vector \in Seq(Entries) /\ Len(vector) \in Nat
    BY <2>1 DEF DVInv, VectorInv
  <2>3. /\ payload.count = Len(vector)
        /\ payload.entries = SubSeq(vector, 1, Least(Len(vector), PackedEntries))
    BY DEF DVInv, PayloadInv
  <2>4. Least(Len(vector), PackedEntries) \in 0 .. Len(vector)
    BY <2>2, VectorAssumption DEF Least
  <2>5. /\ Len(payload.entries) = Least(Len(vector), PackedEntries)
        /\ \A i \in DOMAIN payload.entries :
             i \in 1 .. Len(vector) /\ payload.entries[i] = vector[i]
    BY <2>2, <2>3, <2>4
  <2> QED
    BY <2>2, <2>3, <2>5 DEF Carries
<1> QED
  BY <1>1, VectorInvariant, PTL

(* Between two packets the vector says what the routing table says.        *)
THEOREM VectorUpToDate == Spec => []RoutesPublished
<1>1. DVInv => RoutesPublished
  BY DEF DVInv, FreshInv, Fresh, RoutesPublished
<1> QED
  BY <1>1, VectorInvariant, PTL

(* dvLock is lost only with a vector longer than encodeNum can count.      *)
THEOREM LockSafe == Spec => []LockLostOnlyByOverflow
<1>1. DVInv => LockLostOnlyByOverflow
  BY DEF DVInv, LockInv, VectorInv, PayloadInv, LockLostOnlyByOverflow
<1> QED
  BY <1>1, VectorInvariant, PTL

-----------------------------------------------------------------------------
(* What the switch will have once the rules in ruleList are installed.     *)
RouteRules == [op : {"add", "mod"}, key : {Masked[p] : p \in Prefixes}, hop : Sources]
ArpRules == [op : {"arp"}, key : Ips, hop : Macs]
Rules == RouteRules \cup ArpRules

AddAt(l, i, k) == l[i].op = "add" /\ l[i].key = k
ModAt(l, i, k) == l[i].op = "mod" /\ l[i].key = k

NoMod(l, k) == \A i \in 1 .. Len(l) : ~ ModAt(l, i, k)
LastMod(l, k, h) ==
  \E i \in 1 .. Len(l) : /\ ModAt(l, i, k) /\ l[i].hop = h
                         /\ \A j \in i + 1 .. Len(l) : ~ ModAt(l, j, k)
FirstAdd(l, k, g) ==
  \E i \in 1 .. Len(l) : /\ AddAt(l, i, k) /\ l[i].hop = g
                         /\ \A j \in 1 .. i - 1 : ~ AddAt(l, j, k) /\ ~ ModAt(l, j, k)

(* From now on, the rules of l lead key k to next hop h.                   *)
EndsIn(l, k, now, h) == LastMod(l, k, h) \/ (NoMod(l, k) /\ now = h)
WillBe(k, h) ==
  IF k \in DOMAIN routes THEN EndsIn(ruleList, k, routes[k], h)
  ELSE \E g \in Sources : FirstAdd(ruleList, k, g) /\ EndsIn(ruleList, k, g, h)

Owned(k) == \E q \in existing : Masked[q] = k

(* existingEntries are the pairs with a next hop, no key is in the switch  *)
(* or on its way there but a static one or that of such a pair, and an     *)
(* uncontested pair is on its way to its next hop.                         *)
InstallInv ==
  /\ ruleList \in Seq(Rules)
  /\ pc = "receive" => ruleList = <<>>
  /\ existing = {p \in DOMAIN routingTable : routingTable[p].nhAddr # NoHop}
  /\ \A k \in DOMAIN routes : k \in StaticRoutes \/ Owned(k)
  /\ \A i \in 1 .. Len(ruleList) : ruleList[i].op # "arp" => Owned(ruleList[i].key)
  /\ \A p \in existing : ~ Contested(p) => WillBe(Masked[p], routingTable[p].nhAddr)

(* The first rule of the list is installed.                                *)
LEMMA TailOfRules ==
  ASSUME NEW l \in Seq(Rules), l # <<>>, NEW k
  PROVE  /\ \A now, h : EndsIn(l, k, now, h) =>
              EndsIn(Tail(l), k, IF ModAt(l, 1, k) THEN l[1].hop ELSE now, h)
         /\ \A g : FirstAdd(l, k, g) =>
              /\ ~ ModAt(l, 1, k)
              /\ AddAt(l, 1, k) => l[1].hop = g
              /\ ~ AddAt(l, 1, k) => FirstAdd(Tail(l), k, g)
<1> DEFINE t == Tail(l)
           n == Len(l)
<1>1. /\ n \in Nat \ {0} /\ Len(t) = n - 1
      /\ \A i \in 1 .. n - 1 : t[i] = l[i + 1]
  BY HeadTailProperties, LenProperties, EmptySeq
<1>2. \A i \in 2 .. n : i - 1 \in 1 .. n - 1 /\ t[i - 1] = l[i]
  BY <1>1
<1> HIDE DEF t, n
<1>3. NoMod(l, k) => NoMod(t, k) /\ ~ ModAt(l, 1, k)
  BY <1>1 DEF NoMod, ModAt, n
<1>4. ASSUME NEW h, LastMod(l, k, h)
      PROVE  LastMod(t, k, h) \/ (NoMod(t, k) /\ ModAt(l, 1, k) /\ l[1].hop = h)
  <2>1. PICK i \in 1 .. n : /\ ModAt(l, i, k) /\ l[i].hop = h
                            /\ \A j \in i + 1 .. n : ~ ModAt(l, j, k)
    BY <1>4 DEF LastMod, n
  <2>2. CASE i = 1
    BY <1>1, <2>1, <2>2 DEF NoMod, ModAt
  <2>3. CASE i # 1
    <3>1. i - 1 \in 1 .. Len(t) /\ ModAt(t, i - 1, k) /\ t[i - 1].hop = h
      BY <1>1, <1>2, <2>1, <2>3 DEF ModAt
    <3>2. \A j \in (i - 1) + 1 .. Len(t) : ~ ModAt(t, j, k)
      BY <1>1, <2>1, <2>3 DEF ModAt
    <3> QED
      BY <3>1, <3>2 DEF LastMod
  <2> QED
    BY <2>2, <2>3
<1>5. ASSUME NEW now, NEW h, EndsIn(l, k, now, h)
      PROVE  EndsIn(t, k, IF ModAt(l, 1, k) THEN l[1].hop ELSE now, h)
  BY <1>3, <1>4, <1>5 DEF EndsIn
<1>6. ASSUME NEW g, FirstAdd(l, k, g)
      PROVE  /\ ~ ModAt(l, 1, k)
             /\ AddAt(l, 1, k) => l[1].hop = g
             /\ ~ AddAt(l, 1, k) => FirstAdd(t, k, g)
  <2>1. PICK i \in 1 .. n : /\ AddAt(l, i, k) /\ l[i].hop = g
                            /\ \A j \in 1 .. i - 1 : ~ AddAt(l, j, k) /\ ~ ModAt(l, j, k)
    BY <1>6 DEF FirstAdd, n
  <2>2. CASE i = 1
    BY <2>1, <2>2 DEF AddAt, ModAt
  <2>3. CASE i # 1
    <3>1. 1 \in 1 .. i - 1
      BY <1>1, <2>3
    <3>2. i - 1 \in 1 .. Len(t) /\ AddAt(t, i - 1, k) /\ t[i - 1].hop = g
      BY <1>1, <1>2, <2>1, <2>3 DEF AddAt
    <3>3. \A j \in 1 .. (i - 1) - 1 : ~ AddAt(t, j, k) /\ ~ ModAt(t, j, k)
      <4> SUFFICES ASSUME NEW j \in 1 .. (i - 1) - 1
                   PROVE  ~ AddAt(t, j, k) /\ ~ ModAt(t, j, k)
        OBVIOUS
      <4>1. j \in 1 .. n - 1 /\ j + 1 \in 1 .. i - 1
        BY <1>1, <2>3
      <4> QED
        BY <1>1, <2>1, <4>1 DEF AddAt, ModAt
    <3> QED
      BY <2>1, <3>1, <3>2, <3>3 DEF FirstAdd
  <2> QED
    BY <2>2, <2>3
<1> QED
  BY <1>5, <1>6 DEF t

(* AddRoutingEntry appends two rules for one key.                          *)
LEMMA TwoMoreRules ==
  ASSUME NEW l \in Seq(Rules), NEW a \in RouteRules, NEW b \in RouteRules,
         a.op = "add", b.key = a.key, b.hop = a.hop, NEW k
  PROVE  LET m == l \o <<a, b>> IN
         /\ \A g : FirstAdd(l, k, g) => FirstAdd(m, k, g)
         /\ k # a.key => \A now, h : EndsIn(l, k, now, h) => EndsIn(m, k, now, h)
         /\ (k = a.key /\ b.op = "mod") => \A now : EndsIn(m, k, now, a.hop)
         /\ (k = a.key /\ b.op = "add" /\ \A i \in 1 .. Len(l) : l[i].op # "arp" => l[i].key # k)
              => FirstAdd(m, k, a.hop) /\ NoMod(m, k)
<1> DEFINE m == l \o <<a, b>>
           n == Len(l)
<1>1. /\ n \in Nat /\ Len(m) = n + 2 /\ m[n + 1] = a /\ m[n + 2] = b
      /\ \A i \in 1 .. n : m[i] = l[i] /\ l[i] \in Rules
  OBVIOUS
<1>2. \A i \in 1 .. n + 2 : i \in 1 .. n \/ i = n + 1 \/ i = n + 2
  BY <1>1
<1>3. \A r \in Rules : r.op \in {"add", "mod", "arp"}
  BY DEF Rules, RouteRules, ArpRules
<1> HIDE DEF m, n
<1>4. ASSUME NEW g, FirstAdd(l, k, g) PROVE FirstAdd(m, k, g)
  <2>1. PICK i \in 1 .. n : /\ AddAt(l, i, k) /\ l[i].hop = g
                            /\ \A j \in 1 .. i - 1 : ~ AddAt(l, j, k) /\ ~ ModAt(l, j, k)
    BY <1>4 DEF FirstAdd, n
  <2>2. \A j \in 1 .. i - 1 : j \in 1 .. n
    BY <1>1
  <2> QED
    BY <1>1, <2>1, <2>2 DEF FirstAdd, AddAt, ModAt
<1>5. ASSUME k # a.key, NEW now, NEW h, EndsIn(l, k, now, h)
      PROVE  EndsIn(m, k, now, h)
  <2>1. CASE NoMod(l, k) /\ now = h
    BY <1>1, <1>2, <1>5, <2>1 DEF EndsIn, NoMod, ModAt, n
  <2>2. CASE LastMod(l, k, h)
    <3>1. PICK i \in 1 .. n : /\ ModAt(l, i, k) /\ l[i].hop = h
                              /\ \A j \in i + 1 .. n : ~ ModAt(l, j, k)
      BY <2>2 DEF LastMod, n
    <3>2. ASSUME NEW j \in i + 1 .. n + 2 PROVE ~ ModAt(m, j, k)
      <4>1. CASE j \in 1 .. n
        BY <1>1, <3>1, <4>1 DEF ModAt
      <4>2. CASE j = n + 1 \/ j = n + 2
        BY <1>1, <1>5, <4>2 DEF ModAt
      <4> QED
        BY <1>1, <4>1, <4>2
    <3>3. i \in 1 .. Len(m) /\ ModAt(m, i, k) /\ m[i].hop = h
      BY <1>1, <3>1 DEF ModAt
    <3> QED
      BY <1>1, <3>2, <3>3 DEF LastMod, EndsIn
  <2> QED
    BY <1>5, <2>1, <2>2 DEF EndsIn
<1>6. ASSUME k = a.key, b.op = "mod" PROVE LastMod(m, k, a.hop)
  BY <1>1, <1>6 DEF LastMod, ModAt
<1>7. ASSUME k = a.key, b.op = "add",
             \A i \in 1 .. n : l[i].op # "arp" => l[i].key # k
      PROVE  FirstAdd(m, k, a.hop) /\ NoMod(m, k)
  <2>1. \A i \in 1 .. n : ~ AddAt(m, i, k) /\ ~ ModAt(m, i, k)
    BY <1>1, <1>7 DEF AddAt, ModAt
  <2>2. ~ ModAt(m, n + 1, k) /\ ~ ModAt(m, n + 2, k) /\ AddAt(m, n + 1, k)
    BY <1>1, <1>7 DEF AddAt, ModAt
  <2>3. NoMod(m, k)
    BY <1>1, <1>2, <2>1, <2>2 DEF NoMod
  <2>4. n + 1 \in 1 .. Len(m) /\ (n + 1) - 1 = n /\ m[n + 1].hop = a.hop
    BY <1>1
  <2> QED
    BY <2>1, <2>2, <2>3, <2>4 DEF FirstAdd
<1> QED
  BY <1>4, <1>5, <1>6, <1>7 DEF EndsIn, m, n

(* Neither kind of rule can be mistaken for the other.                     *)
LEMMA RulesTyped ==
  /\ RouteRules \subseteq Rules /\ ArpRules \subseteq Rules
  /\ \A r \in RouteRules : r.op \in {"add", "mod"} /\ r.hop \in Sources
  /\ \A r \in ArpRules : r.op = "arp"
  /\ \A r \in Rules : r.op \in {"add", "mod"} => r \in RouteRules
BY DEF Rules, RouteRules, ArpRules

(* An ARP packet has no rule for a route, and finds none left to install.  *)
LEMMA InstallReceive ==
  ASSUME InstallInv, ReceiveArp PROVE InstallInv'
<1>1. /\ ruleList = <<>> /\ pc' = "track"
      /\ UNCHANGED <<routes, routingTable, existing>>
  BY DEF ReceiveArp, InstallInv
<1>2. PICK mac \in Macs, ip \in Ips :
        ruleList' = IF mac \in arpEntries THEN <<>>
                    ELSE <<[op |-> "arp", key |-> ip, hop |-> mac]>>
  BY DEF ReceiveArp
<1> DEFINE r == [op |-> "arp", key |-> ip, hop |-> mac]
<1>3. r \in Rules /\ r.op = "arp"
  BY DEF Rules, ArpRules
<1>4. ruleList' = <<>> \/ ruleList' = <<r>>
  BY <1>2
<1> HIDE DEF r
<1>5. /\ ruleList' \in Seq(Rules)
      /\ \A i \in 1 .. Len(ruleList') : ruleList'[i].op = "arp"
  <2>1. CASE ruleList' = <<>>
    BY <2>1
  <2>2. CASE ruleList' = <<r>>
    BY <1>3, <2>2
  <2> QED
    BY <1>4, <2>1, <2>2
<1>6. ASSUME NEW p \in existing, ~ Contested(p)
      PROVE  WillBe(Masked[p], routingTable[p].nhAddr)'
  <2>1. WillBe(Masked[p], routingTable[p].nhAddr)
    BY <1>6 DEF InstallInv
  <2>2. Masked[p] \in DOMAIN routes /\ routes[Masked[p]] = routingTable[p].nhAddr
    BY <1>1, <2>1 DEF WillBe, EndsIn, LastMod, FirstAdd
  <2>3. NoMod(ruleList', Masked[p])
    BY <1>5 DEF NoMod, ModAt
  <2> QED
    BY <1>1, <2>2, <2>3 DEF WillBe, EndsIn
<1>7. \A p : Contested(p)' <=> Contested(p)
  BY <1>1 DEF Contested
<1> QED
  BY <1>1, <1>5, <1>6, <1>7 DEF InstallInv, Owned

LEMMA InstallOneRule ==
  ASSUME InstallInv, InstallRule PROVE InstallInv'
<1> DEFINE r == Head(ruleList)
<1>1. /\ ruleList \in Seq(Rules) /\ ruleList # <<>> /\ ruleList' = Tail(ruleList)
      /\ pc' = pc /\ pc # "receive" /\ UNCHANGED <<routingTable, existing>>
  BY DEF InstallInv, InstallRule
<1>2. /\ r = ruleList[1] /\ r \in Rules /\ Tail(ruleList) \in Seq(Rules)
      /\ Len(ruleList) \in Nat \ {0} /\ Len(Tail(ruleList)) = Len(ruleList) - 1
      /\ \A i \in 1 .. Len(Tail(ruleList)) : Tail(ruleList)[i] = ruleList[i + 1]
  BY <1>1, HeadTailProperties, LenProperties, EmptySeq
<1>3. routes' = IF \/ r.op = "add" /\ r.key \notin DOMAIN routes
                   \/ r.op = "mod" /\ r.key \in DOMAIN routes
                THEN With(routes, r.key, r.hop) ELSE routes
  BY DEF InstallRule
<1> HIDE DEF r
<1>4. \A k \in DOMAIN routes' : k \in StaticRoutes \/ Owned(k)
  <2>1. r.op # "arp" => Owned(r.key)
    BY <1>2 DEF InstallInv
  <2>2. DOMAIN routes' = DOMAIN routes \/ (r.op # "arp" /\ DOMAIN routes' = DOMAIN routes \cup {r.key})
    BY <1>3 DEF With
  <2> QED
    BY <2>1, <2>2 DEF InstallInv
<1>5. \A i \in 1 .. Len(ruleList') : ruleList'[i].op # "arp" => Owned(ruleList'[i].key)
  <2>1. ASSUME NEW i \in 1 .. Len(ruleList')
        PROVE  i + 1 \in 1 .. Len(ruleList) /\ ruleList'[i] = ruleList[i + 1]
    BY <1>1, <1>2
  <2> QED
    BY <2>1 DEF InstallInv
<1>6. ASSUME NEW p \in existing, ~ Contested(p)
      PROVE  WillBe(Masked[p], routingTable[p].nhAddr)'
  <2> DEFINE k == Masked[p]
             h == routingTable[p].nhAddr
  <2>1. WillBe(k, h)
    BY <1>6 DEF InstallInv
  <2>2. (WillBe(k, h))' <=> IF k \in DOMAIN routes' THEN EndsIn(Tail(ruleList), k, routes'[k], h)
                          ELSE \E g \in Sources : /\ FirstAdd(Tail(ruleList), k, g)
                                                  /\ EndsIn(Tail(ruleList), k, g, h)
    BY <1>1 DEF WillBe
  <2> HIDE DEF k, h
  <2>3. CASE k \in DOMAIN routes
    <3>1. EndsIn(Tail(ruleList), k, IF ModAt(ruleList, 1, k) THEN r.hop ELSE routes[k], h)
      BY <1>1, <1>2, <2>1, <2>3, TailOfRules DEF WillBe
    <3>2. k \in DOMAIN routes' /\ routes'[k] = IF ModAt(ruleList, 1, k) THEN r.hop ELSE routes[k]
      BY <1>2, <1>3, <2>3 DEF With, ModAt
    <3> QED
      BY <2>2, <3>1, <3>2 DEF k, h
  <2>4. CASE k \notin DOMAIN routes
    <3>1. PICK g \in Sources : FirstAdd(ruleList, k, g) /\ EndsIn(ruleList, k, g, h)
      BY <2>1, <2>4 DEF WillBe
    <3>2. /\ ~ ModAt(ruleList, 1, k)
          /\ AddAt(ruleList, 1, k) => r.hop = g
          /\ ~ AddAt(ruleList, 1, k) => FirstAdd(Tail(ruleList), k, g)
          /\ EndsIn(Tail(ruleList), k, g, h)
      BY <1>1, <1>2, <3>1, TailOfRules
    <3>3. CASE AddAt(ruleList, 1, k)
      <4>1. k \in DOMAIN routes' /\ routes'[k] = g
        BY <1>2, <1>3, <2>4, <3>2, <3>3 DEF With, AddAt
      <4> QED
        BY <2>2, <3>2, <4>1 DEF k, h
    <3>4. CASE ~ AddAt(ruleList, 1, k)
      <4>1. k \notin DOMAIN routes'
        BY <1>2, <1>3, <2>4, <3>2, <3>4 DEF With, AddAt, ModAt
      <4> QED
        BY <2>2, <3>2, <3>4, <4>1 DEF k, h
    <3> QED
      BY <3>3, <3>4
  <2> QED
    BY <2>3, <2>4
<1>7. \A p : Contested(p)' <=> Contested(p)
  BY <1>1 DEF Contested
<1> QED
  BY <1>1, <1>2, <1>4, <1>5, <1>6, <1>7 DEF InstallInv, Owned

(* An entry of an update either gives its pair a new next hop, with two    *)
(* rules to tell the switch, or leaves all next hops and rules alone.      *)
LEMMA EntryRules ==
  ASSUME TypeOK, SourceInv, ProcessEntry
  PROVE  \E p \in Prefixes :
           LET s == packet.src IN
           /\ s \in Sources /\ s # NoHop
           /\ DOMAIN routingTable' = DOMAIN routingTable \cup {p}
           /\ \A q \in DOMAIN routingTable : q # p => routingTable'[q] = routingTable[q]
           /\ \/ /\ routingTable'[p].nhAddr = s
                 /\ ruleList' = ruleList \o AddRoutingEntry(p, s)
                 /\ existing' = existing \cup {p}
              \/ /\ routingTable'[p].nhAddr = LookedUp(p).nhAddr
                 /\ UNCHANGED <<ruleList, existing>>
<1>1. PICK p \in Prefixes, c \in Costs :
        LET s == packet.src
            thru == CostThruSource(c) IN
        /\ routingTable' = With(routingTable, p,
                CASE Cheaper(p, s, thru)     -> [cost |-> thru, nhAddr |-> s]
                  [] CostChanged(p, s, thru) -> [cost |-> thru, nhAddr |-> s]
                  [] OTHER                   -> LookedUp(p))
        /\ IF Cheaper(p, s, thru)
           THEN ruleList' = ruleList \o AddRoutingEntry(p, s) /\ existing' = existing \cup {p}
           ELSE UNCHANGED <<ruleList, existing>>
  BY DEF ProcessEntry
<1> DEFINE s == packet.src
           thru == CostThruSource(c)
           y == CASE Cheaper(p, s, thru)     -> [cost |-> thru, nhAddr |-> s]
                  [] CostChanged(p, s, thru) -> [cost |-> thru, nhAddr |-> s]
                  [] OTHER                   -> LookedUp(p)
<1>2. s \in Sources /\ s # NoHop
  BY VectorAssumption DEF ProcessEntry, SourceInv
<1>3. \/ Cheaper(p, s, thru) /\ y.nhAddr = s
      \/ ~ Cheaper(p, s, thru) /\ CostChanged(p, s, thru) /\ y.nhAddr = s
      \/ ~ Cheaper(p, s, thru) /\ y = LookedUp(p)
  OBVIOUS
<1>4. CostChanged(p, s, thru) => s = LookedUp(p).nhAddr
  BY DEF CostChanged
<1>5. routingTable' = With(routingTable, p, y)
  BY <1>1
<1> HIDE DEF y
<1>6. /\ DOMAIN routingTable' = DOMAIN routingTable \cup {p}
      /\ routingTable'[p] = y
      /\ \A q \in DOMAIN routingTable : q # p => routingTable'[q] = routingTable[q]
  BY <1>5 DEF With
<1> QED
  BY <1>1, <1>2, <1>3, <1>4, <1>6

LEMMA InstallEntry ==
  ASSUME TypeOK, SourceInv, InstallInv, ProcessEntry PROVE InstallInv'
<1> DEFINE s == packet.src
<1>1. PICK p \in Prefixes :
           /\ s \in Sources /\ s # NoHop
           /\ DOMAIN routingTable' = DOMAIN routingTable \cup {p}
           /\ \A q \in DOMAIN routingTable : q # p => routingTable'[q] = routingTable[q]
           /\ \/ /\ routingTable'[p].nhAddr = s
                 /\ ruleList' = ruleList \o AddRoutingEntry(p, s)
                 /\ existing' = existing \cup {p}
              \/ /\ routingTable'[p].nhAddr = LookedUp(p).nhAddr
                 /\ UNCHANGED <<ruleList, existing>>
  BY EntryRules
<1>2. pc' = "update" /\ routes' = routes
  BY DEF ProcessEntry
<1> HIDE DEF s
<1>3. ASSUME NEW q, ~ Contested(q)' PROVE ~ Contested(q)
  BY <1>1, <1>3 DEF Contested
<1>4. CASE routingTable'[p].nhAddr = LookedUp(p).nhAddr /\ UNCHANGED <<ruleList, existing>>
  <2>1. \A q \in DOMAIN routingTable : routingTable'[q].nhAddr = routingTable[q].nhAddr
    BY <1>1, <1>4 DEF LookedUp
  <2>2. p \notin DOMAIN routingTable => routingTable'[p].nhAddr = NoHop
    BY <1>4 DEF LookedUp
  <2>3. existing' = {q \in DOMAIN routingTable' : routingTable'[q].nhAddr # NoHop}
    BY <1>1, <1>4, <2>1, <2>2 DEF InstallInv
  <2>4. ASSUME NEW q \in existing', ~ Contested(q)'
        PROVE  WillBe(Masked[q], routingTable[q].nhAddr)'
    <3>1. q \in existing /\ q \in DOMAIN routingTable
      BY <1>4, <2>4 DEF InstallInv
    <3>2. WillBe(Masked[q], routingTable[q].nhAddr)
      BY <1>3, <2>4, <3>1 DEF InstallInv
    <3> QED
      BY <1>2, <1>4, <2>1, <3>1, <3>2 DEF WillBe
  <2> QED
    BY <1>2, <1>4, <2>3, <2>4 DEF InstallInv, Owned
<1>5. CASE /\ routingTable'[p].nhAddr = s
           /\ ruleList' = ruleList \o AddRoutingEntry(p, s)
           /\ existing' = existing \cup {p}
  <2> DEFINE a == [op |-> "add", key |-> Masked[p], hop |-> s]
             b == [op |-> IF p \in existing THEN "mod" ELSE "add", key |-> Masked[p], hop |-> s]
  <2>1. /\ a \in RouteRules /\ b \in RouteRules /\ ruleList' = ruleList \o <<a, b>>
        /\ a.op = "add" /\ a.key = Masked[p] /\ b.key = Masked[p] /\ a.hop = s /\ b.hop = s
        /\ b.op = IF p \in existing THEN "mod" ELSE "add"
    BY <1>1, <1>5 DEF RouteRules, AddRoutingEntry
  <2> HIDE DEF a, b
  <2>2. /\ ruleList \in Seq(Rules) /\ a \in Rules /\ b \in Rules /\ Len(ruleList) \in Nat
        /\ Len(ruleList') = Len(ruleList) + 2
        /\ \A i \in 1 .. Len(ruleList) : ruleList'[i] = ruleList[i]
        /\ ruleList'[Len(ruleList) + 1] = a /\ ruleList'[Len(ruleList) + 2] = b
    BY <2>1, RulesTyped DEF InstallInv
  <2>3. ruleList' \in Seq(Rules)
    BY <2>1, <2>2
  <2>4. existing' = {q \in DOMAIN routingTable' : routingTable'[q].nhAddr # NoHop}
    BY <1>1, <1>5 DEF InstallInv
  <2>5. (\A i \in 1 .. Len(ruleList) : ruleList[i].op # "arp" => Owned(ruleList[i].key))'
    <3> SUFFICES ASSUME NEW i \in 1 .. Len(ruleList'), ruleList'[i].op # "arp"
                 PROVE  \E q \in existing' : Masked[q] = ruleList'[i].key
      BY DEF Owned
    <3>1. CASE i \in 1 .. Len(ruleList) /\ ruleList'[i] = ruleList[i]
      BY <1>5, <3>1 DEF InstallInv, Owned
    <3>2. CASE ruleList'[i].key = Masked[p]
      BY <1>5, <3>2
    <3> QED
      BY <2>1, <2>2, <3>1, <3>2
  <2>6. \A k \in DOMAIN routes' : k \in StaticRoutes \/ Owned(k)'
    BY <1>2, <1>5 DEF InstallInv, Owned
  <2>7. ASSUME NEW q \in existing', ~ Contested(q)'
        PROVE  WillBe(Masked[q], routingTable[q].nhAddr)'
    <3> DEFINE k == Masked[q]
    <3>0. ~ Contested(q)
      BY <1>3, <2>7
    <3>1. CASE q # p
      <4>1. q \in existing /\ q \in DOMAIN routingTable /\ routingTable'[q] = routingTable[q]
        BY <1>1, <1>5, <2>7, <3>1 DEF InstallInv
      <4>2. k # Masked[p]
        BY <1>1, <2>7, <3>1 DEF Contested
      <4>3. WillBe(k, routingTable[q].nhAddr)
        BY <3>0, <4>1 DEF InstallInv
      <4>4. /\ \A g : FirstAdd(ruleList, k, g) => FirstAdd(ruleList', k, g)
            /\ \A now, h : EndsIn(ruleList, k, now, h) => EndsIn(ruleList', k, now, h)
        BY <2>1, <2>2, <4>2, TwoMoreRules
      <4> QED
        BY <1>2, <4>1, <4>3, <4>4 DEF WillBe
    <3>2. CASE q = p /\ p \in existing
      <4>1. WillBe(k, routingTable[p].nhAddr)
        BY <3>0, <3>2 DEF InstallInv
      <4>2. /\ \A g : FirstAdd(ruleList, k, g) => FirstAdd(ruleList', k, g)
            /\ \A now : EndsIn(ruleList', k, now, s)
        BY <2>1, <2>2, <3>2, TwoMoreRules
      <4> QED
        BY <1>2, <1>5, <3>2, <4>1, <4>2 DEF WillBe
    <3>3. CASE q = p /\ p \notin existing
      <4>1. ~ Owned(k) /\ k \notin StaticRoutes
        <5>1. ASSUME NEW x \in existing PROVE Masked[x] # k
          <6>1. x \in DOMAIN routingTable /\ x # p
            BY <3>3 DEF InstallInv
          <6> QED
            BY <3>0, <3>3, <6>1 DEF Contested
        <5> QED
          BY <3>0, <5>1 DEF Contested, Owned
      <4>2. k \notin DOMAIN routes /\ \A i \in 1 .. Len(ruleList) : ruleList[i].op # "arp" => ruleList[i].key # k
        BY <4>1 DEF InstallInv
      <4>3. FirstAdd(ruleList', k, s) /\ NoMod(ruleList', k)
        BY <2>1, <2>2, <3>3, <4>2, TwoMoreRules
      <4> QED
        BY <1>1, <1>2, <1>5, <3>3, <4>2, <4>3 DEF WillBe, EndsIn
    <3> QED
      BY <3>1, <3>2, <3>3
  <2> QED
    BY <1>2, <2>3, <2>4, <2>5, <2>6, <2>7 DEF InstallInv
<1> QED
  BY <1>1, <1>4, <1>5

LEMMA InstallStep ==
  ASSUME TypeOK, SourceInv, InstallInv, [Next]_vars PROVE InstallInv'
<1>1. CASE ReceiveArp
  BY <1>1, InstallReceive
<1>2. CASE ProcessEntry
  BY <1>2, InstallEntry
<1>3. CASE InstallRule
  BY <1>3, InstallOneRule
<1>4. CASE ~ (ReceiveArp \/ ProcessEntry \/ InstallRule)
  <2>1. UNCHANGED <<ruleList, routes, routingTable, existing>>
    BY <1>4 DEF Next, MainHandles, AdvSteps, ReceiveUpdate, ReceiveOther, UpdateProcessed,
       MainAcquire, MainAppend, MainRelease, TrackState, Resend, WakeUp,
       AdvAcquire, AdvPack, AdvRelease, AdvSend, vars, mainOwn
  <2>2. pc' = "receive" => pc = "receive" \/ ruleList = <<>>
    BY <1>4 DEF Next, MainHandles, AdvSteps, ReceiveUpdate, ReceiveOther, UpdateProcessed,
       MainAcquire, MainAppend, MainRelease, TrackState, Resend, WakeUp,
       AdvAcquire, AdvPack, AdvRelease, AdvSend, vars, mainOwn
  <2>3. (\A k : Owned(k)' <=> Owned(k)) /\ (\A p : Contested(p)' <=> Contested(p))
    BY <2>1 DEF Owned, Contested
  <2>4. \A k, h : WillBe(k, h)' <=> WillBe(k, h)
    BY <2>1 DEF WillBe
  <2> QED
    BY <2>1, <2>2, <2>3, <2>4 DEF InstallInv
<1> QED
  BY <1>1, <1>2, <1>3, <1>4

(* Between two packets the switch sends every uncontested route where the  *)
(* routing table does: the first rule of a pair is an add, and as          *)
(* existingEntries knows, a later one modifies.                            *)
THEOREM SwitchFollowsTable == Spec => []RoutesInstalled
<1>1. Init => InstallInv
  <2> SUFFICES ASSUME Init PROVE InstallInv
    OBVIOUS
  <2>1. /\ ruleList = <<>> /\ ruleList \in Seq(Rules) /\ Len(ruleList) = 0
        /\ existing = {} /\ DOMAIN routingTable = {} /\ DOMAIN routes = StaticRoutes
    BY DEF Init
  <2> QED
    BY <2>1 DEF InstallInv
<1>2. DVInv /\ InstallInv /\ [Next]_vars => InstallInv'
  BY InstallStep DEF DVInv
<1>3. InstallInv => RoutesInstalled
  <2> SUFFICES ASSUME InstallInv, pc = "receive", NEW p \in DOMAIN routingTable,
                      routingTable[p].nhAddr # NoHop, ~ Contested(p)
               PROVE  /\ Masked[p] \in DOMAIN routes
                      /\ routes[Masked[p]] = routingTable[p].nhAddr
    BY DEF RoutesInstalled
  <2>1. ruleList = <<>> /\ Len(ruleList) = 0 /\ WillBe(Masked[p], routingTable[p].nhAddr)
    BY DEF InstallInv
  <2> QED
    BY <2>1 DEF WillBe, EndsIn, LastMod, FirstAdd
<1> QED
  BY <1>1, <1>2, <1>3, VectorInvariant, PTL DEF Spec
=============================================================================
