------------------------------- MODULE FuzzLoop -------------------------------
(***************************************************************************)
(* The runtime loop of FP4.  Packets circulate between the switch doing    *)
(* the testing (SDT, P4 code generated by dt.cpp) and the switch under     *)
(* test (SUT, the user program instrumented by ut.cpp).  The SDT builds a  *)
(* packet from a seed, the SUT marks in its fp4_visited header the actions *)
(* it runs, and the SDT hashes the returned marks into a two-register      *)
(* Bloom filter: a set of marks not seen before is sent to the controller  *)
(* (SDTcontroller.py), which turns it into a new seed by installing table  *)
(* entries, one after another, while packets keep flowing.                 *)
(***************************************************************************)
EXTENDS Integers, Sequences, FiniteSets, SeedSelection

CONSTANTS
  Actions,          \* the SUT actions that own a bit of fp4_visited
  Paths,            \* the parser paths (header sequences) of the SUT program
  NoPath,           \* "no headers", and "the controller could not parse it"
  Raises,           \* parsePacket looks ahead past the packet's last byte
  KnownPaths,       \* paths whose joined name is a generated ai_add_* action
  N0,               \* numParserPaths: seeds installed before the loop
  InitPath,         \* the path of each of these seeds
  Exec,             \* the action sets the SUT may run on a packet of a path
  Reparse,          \* what the controller may read in a packet of a path
  Positions,        \* register indices of the two Bloom filters
  Hash1, Hash2,     \* crc16 and crc32 of the visited bits
  Draws,            \* the bytes the SDT's random generator may produce
  SeedCapacity,     \* size of ti_set_seed_num, ti_create_packet, ti_add_fields
  CloneCapacity,    \* size of ti_add_clones
  MutateCapacity,   \* seeds whose entries fit in te_set_table_seed
  PktIds,           \* bounds the packets in flight
  CpuQueueSize,     \* bounds the reports the controller's socket can hold
  RuleIds,          \* table rules the SUT's own controller may learn
  InitFields,       \* those given to the fuzzer at start (fixed_values, file)
  MaxDatagrams,     \* bounds the packets forwarded by the SUT's controller
  SutHasEgress,     \* the SUT program declares control egress
  SutStampsPreamble,\* the SUT writes fp4_visited.preamble itself
  SeedsOff          \* 'seed' is in the controller's mode

ASSUME SeedAssumption ==
  /\ N0 \in Nat \ {0}
  /\ {NoPath, Raises} \cap Paths = {} /\ Raises # NoPath
  /\ InitPath \in [0 .. N0 - 1 -> Paths]
  /\ KnownPaths \subseteq {InitPath[s] : s \in 0 .. N0 - 1}
  /\ Draws \subseteq Byte

ASSUME ProgramAssumption ==
  /\ Exec \in [Paths -> SUBSET SUBSET Actions]
  /\ Reparse \in [Paths -> SUBSET (Paths \cup {NoPath, Raises})]
  /\ Hash1 \in [SUBSET Actions -> Positions]
  /\ Hash2 \in [SUBSET Actions -> Positions]

ASSUME CapacityAssumption ==
  /\ SeedCapacity \in Nat /\ CloneCapacity \in Nat /\ MutateCapacity \in Nat
  /\ CpuQueueSize \in Nat /\ MaxDatagrams \in Nat
  /\ InitFields \subseteq RuleIds
  /\ {SutHasEgress, SutStampsPreamble, SeedsOff} \subseteq BOOLEAN

VARIABLES
  table,       \* entries installed in each SDT table
  bloom1,      \* positions set in the first Bloom filter register
  bloom2,      \* positions set in the second one
  packet,      \* the packets in flight
  cpuq,        \* reports on their way to the controller, oldest first
  sutq,        \* datagrams of the SUT's controller, oldest first
  sent,        \* number of these datagrams so far
  pc,          \* the controller's next step in main_loop
  todo,        \* the rules add_entries still has to install
  numSeeds,    \* CoverageDetector.numSeeds
  seen,        \* CoverageDetector.seenActions
  learnt,      \* CoverageDetector.fixedRulesFields
  loopClock,   \* the 300 s since main_loop's start_time
  coverClock,  \* the 300 s since CoverageDetector's start_time
  returned,    \* history: mark sets that came back to the SDT
  handled,     \* history: mark sets the controller has accounted for
  lost         \* history: mark sets of reports that never reached it

dataplane  == <<bloom1, bloom2, packet, returned>>
feedback   == <<numSeeds, seen, learnt, coverClock>>
controller == <<pc, todo, feedback, loopClock, handled>>
vars == <<table, dataplane, cpuq, sutq, sent, controller, lost>>

-----------------------------------------------------------------------------
(* Definitions named ...Two, ...Only, ...Last and the like, each just      *)
(* before the one it resembles, are the mistakes the properties are tested *)
(* against; no action uses them.                                           *)

-----------------------------------------------------------------------------
(* Tables and their entries.                                               *)

TableNames == {"path", "seed", "create", "fields", "clones", "mutate",
               "fixval", "do_resubmit"}

Entry == [key : Seq(Nat \cup Paths), path : Paths \cup {NoPath},
          vals : SUBSET RuleIds]
Rule  == [to : TableNames, entry : Entry]

NewRule(t, k, p, v) ==
  [to |-> t, entry |-> [key |-> k, path |-> p, vals |-> v]]

(* The sizes dt.cpp declares; 4 is 2^2, for a program without assertions.  *)
Capacity(t) ==
  CASE t = "path"                         -> 4
    [] t \in {"seed", "create", "fields"} -> SeedCapacity
    [] t = "clones"                       -> CloneCapacity
    [] t \in {"mutate", "fixval"}         -> MutateCapacity
    [] OTHER                              -> 256

Hit(t, k) == \E e \in table[t] : e.key = k
EntryAt(t, k) == CHOOSE e \in table[t] : e.key = k

SeedNums == {e.key[1] : e \in table["seed"]}

-----------------------------------------------------------------------------
(* The rules add_initial_seed_packets and add_seed_packet produce.  The    *)
(* entries of ti_set_port, ti_set_resubmit and ti_set_fixed_header change  *)
(* nothing this module keeps and are left out.                             *)

PathRulesAll == << NewRule("path", <<0, 0>>, NoPath, {}),
                   NewRule("path", <<0, 1>>, NoPath, {}),
                   NewRule("path", <<1, 0>>, NoPath, {}),
                   NewRule("path", <<1, 1>>, NoPath, {}) >>
PathRulesTwo == << NewRule("path", <<0, 0>>, NoPath, {}),
                   NewRule("path", <<0, 1>>, NoPath, {}) >>
PathRules == << NewRule("path", <<0, 0>>, NoPath, {}),
                NewRule("path", <<0, 1>>, NoPath, {}),
                NewRule("path", <<1, 0>>, NoPath, {}) >>

SeedRuleNext(s)     == NewRule("seed", <<s + 1>>, NoPath, {})
SeedRule(s)         == NewRule("seed", <<s>>, NoPath, {})
CreateRule(s, p)    == NewRule("create", <<s>>, p, {})
FieldsRule(s, p)    == NewRule("fields", <<s>>, p, {})
ClonesRule(p)       == NewRule("clones", <<p>>, p, {})
MutationRules(s, v) ==
  IF v = {} THEN <<NewRule("mutate", <<s>>, NoPath, {})>>
            ELSE <<NewRule("mutate", <<s>>, NoPath, {}),
                   NewRule("fixval", <<s>>, NoPath, v)>>

PacketRules ==
  [k \in 1 .. 2 * N0 |->
     LET s == (k - 1) \div 2
     IN  IF k % 2 = 1 THEN CreateRule(s, InitPath[s])
                      ELSE FieldsRule(s, InitPath[s])]

InitialMutations ==
  LET m == Len(MutationRules(0, InitFields))
  IN  [k \in 1 .. m * N0 |->
         MutationRules((k - 1) \div m, InitFields)[((k - 1) % m) + 1]]

RulesAfterPaths ==
  [s \in 1 .. N0 |-> SeedRule(s - 1)]
  \o PacketRules
  \o [s \in 1 .. N0 |-> ClonesRule(InitPath[s - 1])]
  \o InitialMutations
  \o <<NewRule("do_resubmit", <<1>>, NoPath, {})>>

InitialRulesPathsLast == RulesAfterPaths \o PathRules
InitialRules          == PathRules \o RulesAfterPaths

RulesSeedFirst(s, p, v) ==
  <<SeedRule(s), CreateRule(s, p), FieldsRule(s, p)>> \o MutationRules(s, v)
RulesUnselected(s, p, v) ==
  <<CreateRule(s, p), FieldsRule(s, p)>> \o MutationRules(s, v)
RulesOfSeed(s, p, v) ==
  <<CreateRule(s, p), FieldsRule(s, p)>> \o MutationRules(s, v) \o <<SeedRule(s)>>

-----------------------------------------------------------------------------
(* Packets.                                                                *)

Packet == [at     : {"free", "ingress", "egress", "sut"},
           type   : {0, 1, 3},           \* fp4_visited.pkt_type
           acts   : SUBSET Actions,      \* the visited bits
           path   : Paths \cup {NoPath},
           seed   : Nat,                 \* fp4_metadata.seed_num
           filled : BOOLEAN,             \* ti_add_fields gave it values
           cloned : BOOLEAN,             \* ti_add_clones copied them
           twin   : BOOLEAN]             \* make_clone is 1

Free == [at |-> "free", type |-> 0, acts |-> {}, path |-> NoPath, seed |-> 0,
         filled |-> FALSE, cloned |-> FALSE, twin |-> FALSE]

Report == [acts : SUBSET Actions, path : Paths, type : {1, 3}]

Datagram == [acts : SUBSET Actions, path : Paths, type : {0, 1, 3},
             rules : SUBSET RuleIds, cut : {"no", "packet", "rules"}]

Bit(b) == IF b THEN 1 ELSE 0

(* reg_val_one and reg_val_two as the Bloom filters return them.           *)
Lookup(a) == <<Bit(Hash1[a] \in bloom1), Bit(Hash2[a] \in bloom2)>>

Traversed(x) == x.type \in {1, 3}

(* ti_path_assertion hits ai_send_to_control_plane; its default recycles.  *)
Reported(x) == Traversed(x) /\ Hit("path", Lookup(x.acts))

-----------------------------------------------------------------------------
Init ==
  /\ table = [t \in TableNames |-> {}]
  /\ bloom1 = {} /\ bloom2 = {}
  /\ packet = [p \in PktIds |-> Free]
  /\ cpuq = <<>> /\ sutq = <<>> /\ sent = 0
  /\ pc = "cpu" /\ todo = InitialRules
  /\ numSeeds = N0 /\ seen = {} /\ learnt = InitFields
  /\ loopClock = "unset" /\ coverClock = "unset"
  /\ returned = {} /\ handled = {} /\ lost = {}

-----------------------------------------------------------------------------
(* The packet generator of the SDT feeds blank packets, pkt_type 0, into  *)
(* the pipeline.  switchd.c turns it on 30 s after the start and off 100 s *)
(* later; here it may be silent at any time.                               *)
PktGenInject(p) ==
  /\ packet[p].at = "free"
  /\ packet' = [packet EXCEPT ![p] = [Free EXCEPT !.at = "ingress"]]
  /\ UNCHANGED <<table, bloom1, bloom2, returned, cpuq, sutq, sent, controller,
                 lost>>

-----------------------------------------------------------------------------
(* One pass of a packet through the ingress pipeline of the SDT.           *)

(* ti_get_reg_pos and ti_read_values_1/2: both registers are read and set. *)
TouchFirstOnly(x) ==
  IF Traversed(x)
  THEN /\ bloom1' = bloom1 \cup {Hash1[x.acts]}
       /\ returned' = returned \cup {x.acts}
       /\ UNCHANGED bloom2
  ELSE UNCHANGED <<bloom1, bloom2, returned>>
TouchBloom(x) ==
  IF Traversed(x)
  THEN /\ bloom1' = bloom1 \cup {Hash1[x.acts]}
       /\ bloom2' = bloom2 \cup {Hash2[x.acts]}
       /\ returned' = returned \cup {x.acts}
  ELSE UNCHANGED <<bloom1, bloom2, returned>>

(* The packet a seed yields: ti_create_packet, ti_add_fields, ti_add_clones *)
(* on a packet that ai_recycle_packet has stripped and cleared.            *)
RecycledMarked(x) == x.acts
Recycled(x) == IF Traversed(x) THEN {} ELSE x.acts

Generated(x, s, twin) ==
  LET p == EntryAt("create", <<s>>).path
  IN  [Free EXCEPT !.at = "egress", !.acts = Recycled(x), !.path = p,
                   !.seed = s, !.filled = Hit("fields", <<s>>),
                   !.cloned = Hit("clones", <<p>>), !.twin = twin]

IngressReport(p) ==
  LET x == packet[p]
      r == [acts |-> x.acts, path |-> x.path, type |-> x.type]
  IN  /\ x.at = "ingress"
      /\ Reported(x)
      /\ TouchBloom(x)
      /\ packet' = [packet EXCEPT ![p] = Free]
      /\ IF Len(cpuq) < CpuQueueSize
         THEN cpuq' = Append(cpuq, r) /\ UNCHANGED lost
         ELSE lost' = lost \cup {x.acts} /\ UNCHANGED cpuq
      /\ UNCHANGED <<table, sutq, sent, controller>>

(* A blank or recycled packet draws a seed that ti_create_packet knows...  *)
IngressGenerate(p) ==
  LET x == packet[p]
  IN  /\ x.at = "ingress"
      /\ ~Reported(x)
      /\ TouchBloom(x)
      /\ \E r \in Draws, twin \in BOOLEAN : \E s \in Selected(SeedNums, r) :
           /\ Hit("create", <<s>>)
           /\ packet' = [packet EXCEPT ![p] = Generated(x, s, twin)]
      /\ UNCHANGED <<table, cpuq, sutq, sent, controller, lost>>

(* ... or one it does not know: its default action drops the packet.       *)
IngressDrop(p) ==
  LET x == packet[p]
  IN  /\ x.at = "ingress"
      /\ ~Reported(x)
      /\ TouchBloom(x)
      /\ \E r \in Draws : \E s \in Selected(SeedNums, r) :
           ~Hit("create", <<s>>)
      /\ packet' = [packet EXCEPT ![p] = Free]
      /\ UNCHANGED <<table, cpuq, sutq, sent, controller, lost>>

-----------------------------------------------------------------------------
(* The egress pipeline: te_do_resubmit stamps a packet whose make_clone is *)
(* 1 and clones it back to egress, where the copy has make_clone 0.        *)

Resubmits(x) == x.twin /\ Hit("do_resubmit", <<1>>)

EgressSend(p) ==
  /\ packet[p].at = "egress"
  /\ ~Resubmits(packet[p])
  /\ packet' = [packet EXCEPT ![p].at = "sut"]
  /\ UNCHANGED <<table, bloom1, bloom2, returned, cpuq, sutq, sent,
                 controller, lost>>

EgressResubmit(p) ==
  LET x == [packet[p] EXCEPT !.at = "sut", !.type = 3]
      c == [x EXCEPT !.at = "egress", !.twin = FALSE]
  IN  /\ packet[p].at = "egress"
      /\ Resubmits(packet[p])
      /\ \/ packet' = [packet EXCEPT ![p] = x]        \* no buffer for a clone
         \/ \E q \in PktIds \ {p} :
              /\ packet[q].at = "free"
              /\ packet' = [packet EXCEPT ![p] = x, ![q] = c]
      /\ UNCHANGED <<table, bloom1, bloom2, returned, cpuq, sutq, sent,
                     controller, lost>>

-----------------------------------------------------------------------------
(* The switch under test runs actions on the packet and marks them; its    *)
(* egress control, if it has one, sets pkt_type to 1.  The program may     *)
(* mirror the packet to its own controller, which forwards it with the     *)
(* table rules it has learnt from it.                                      *)

TypeAfterSut(x) == IF SutHasEgress THEN 1 ELSE x.type

Forward(x, a) ==
  /\ sent < MaxDatagrams
  /\ sent' = sent + 1
  /\ \E m \in SUBSET a, v \in SUBSET RuleIds, c \in {"no", "packet", "rules"} :
       sutq' = Append(sutq, [acts |-> m, path |-> x.path,
                             type |-> TypeAfterSut(x), rules |-> v, cut |-> c])

SutProcess(p) ==
  LET x == packet[p]
  IN  /\ x.at = "sut"
      /\ \E e \in Exec[x.path] :
           /\ packet' = [packet EXCEPT ![p] =
                [Free EXCEPT !.at = "ingress", !.path = x.path,
                             !.type = TypeAfterSut(x),
                             !.acts = x.acts \cup e]]
           /\ UNCHANGED <<sutq, sent>> \/ Forward(x, x.acts \cup e)
      /\ UNCHANGED <<table, bloom1, bloom2, returned, cpuq,
                     controller, lost>>

(* A packet lost on the link back, and a datagram lost on the way.         *)
LinkLoss(p) ==
  /\ packet[p].at = "sut"
  /\ packet' = [packet EXCEPT ![p] = Free]
  /\ UNCHANGED <<table, bloom1, bloom2, returned, cpuq, sutq, sent,
                 controller, lost>>

DatagramLoss ==
  /\ sutq # <<>>
  /\ sutq' = Tail(sutq)
  /\ UNCHANGED <<table, dataplane, cpuq, sent, controller, lost>>

-----------------------------------------------------------------------------
(* The controller, one thread: install the rules of add_entries one by one, *)
(* then take a report, then a datagram, then look at the clock.            *)

Running == pc \in {"cpu", "sut", "check"}

(* The driver refuses a duplicate key and a full table; the error output   *)
(* of bfshell is not looked at.                                            *)
InstallRule ==
  LET r == Head(todo)
      accepted == /\ ~Hit(r.to, r.entry.key)
                  /\ Cardinality(table[r.to]) < Capacity(r.to)
  IN  /\ Running
      /\ todo # <<>>
      /\ todo' = Tail(todo)
      /\ table' = IF accepted
                  THEN [table EXCEPT ![r.to] = @ \cup {r.entry}]
                  ELSE table
      /\ UNCHANGED <<dataplane, cpuq, sutq, sent, pc, feedback,
                     loopClock, handled, lost>>

Started(clock) == IF clock = "unset" THEN "running" ELSE clock

(* A packet that executed nothing, or is marked 3, yields no seed.         *)
YieldsNothingIfOff(a, ty) == SeedsOff \/ ty = 3
YieldsNothing(a, ty)      == a = {} \/ SeedsOff \/ ty = 3

(* check_coverage_and_add_seed on marks a, headers q and packet type ty,   *)
(* with v as fixedRulesFields; the loop goes on at nxt.                    *)
CheckCoverage(a, q, ty, v, nxt) ==
  /\ seen' = seen \cup a
  /\ coverClock' = Started(coverClock)
  /\ CASE coverClock = "expired" ->
            pc' = "stopped" /\ UNCHANGED <<numSeeds, todo>>
       [] coverClock # "expired" /\ YieldsNothing(a, ty) ->
            pc' = nxt /\ UNCHANGED <<numSeeds, todo>>
       [] OTHER ->
            IF q \in KnownPaths
            THEN /\ pc' = nxt
                 /\ todo' = RulesOfSeed(numSeeds, q, v)
                 /\ numSeeds' = numSeeds + 1
            ELSE pc' = "crashed" /\ UNCHANGED <<numSeeds, todo>>

(* parsePacket returned None, or raised what main_loop does not catch.     *)
Unread(q) == q \in {NoPath, Raises}
AfterUnread(q, nxt) == IF q = Raises THEN "crashed" ELSE nxt

HandleReport ==
  LET r == Head(cpuq)
  IN  /\ pc = "cpu" /\ todo = <<>>
      /\ cpuq # <<>>
      /\ cpuq' = Tail(cpuq)
      /\ \E q \in Reparse[r.path] :
           IF Unread(q)
           THEN /\ lost' = lost \cup {r.acts}
                /\ pc' = AfterUnread(q, "sut")
                /\ UNCHANGED <<todo, feedback, loopClock, handled>>
           ELSE /\ loopClock' = Started(loopClock)
                /\ handled' = handled \cup {r.acts}
                /\ CheckCoverage(r.acts, q, r.type, learnt, "sut")
                /\ UNCHANGED <<learnt, lost>>
      /\ UNCHANGED <<table, dataplane, sutq, sent>>

ReportTimeout ==
  /\ pc = "cpu" /\ todo = <<>>
  /\ cpuq = <<>>
  /\ pc' = "sut"
  /\ UNCHANGED <<table, dataplane, cpuq, sutq, sent, todo, feedback,
                 loopClock, handled, lost>>

(* A packet that is cut short is incomplete, or raises when there is none  *)
(* of it left or the parser looks ahead; a whole one is parsed before its  *)
(* preamble is looked at.                                                  *)
HandleDatagram ==
  LET d == Head(sutq)
  IN  /\ pc = "sut" /\ todo = <<>>
      /\ sutq # <<>>
      /\ sutq' = Tail(sutq)
      /\ CASE d.cut = "rules" ->               \* no "@$": the assert fails
                pc' = "crashed" /\ UNCHANGED <<todo, feedback>>
           [] d.cut = "packet" ->
                pc' \in {"check", "crashed"} /\ UNCHANGED <<todo, feedback>>
           [] OTHER ->
                \E q \in Reparse[d.path] :
                  IF Unread(q) \/ ~SutStampsPreamble
                  THEN pc' = AfterUnread(q, "check") /\ UNCHANGED <<todo, feedback>>
                  ELSE /\ learnt' = learnt \cup d.rules
                       /\ CheckCoverage(d.acts, q, d.type, learnt', "check")
      /\ UNCHANGED <<table, dataplane, cpuq, sent, loopClock, handled,
                     lost>>

NoDatagram ==
  /\ pc = "sut" /\ todo = <<>>
  /\ sutq = <<>>
  /\ pc' = "check"
  /\ UNCHANGED <<table, dataplane, cpuq, sutq, sent, todo, feedback,
                 loopClock, handled, lost>>

CheckExitToSut ==
  /\ pc = "check" /\ todo = <<>>
  /\ pc' = IF loopClock = "expired" THEN "stopped" ELSE "sut"
  /\ UNCHANGED <<table, dataplane, cpuq, sutq, sent, todo, feedback,
                 loopClock, handled, lost>>
CheckExitNever ==
  /\ pc = "check" /\ todo = <<>>
  /\ pc' = "cpu"
  /\ UNCHANGED <<table, dataplane, cpuq, sutq, sent, todo, feedback,
                 loopClock, handled, lost>>
CheckExit ==
  /\ pc = "check" /\ todo = <<>>
  /\ pc' = IF loopClock = "expired" THEN "stopped" ELSE "cpu"
  /\ UNCHANGED <<table, dataplane, cpuq, sutq, sent, todo, feedback,
                 loopClock, handled, lost>>

(* 300 seconds have passed since one of the two start times.               *)
Tick ==
  /\ \/ loopClock = "running" /\ loopClock' = "expired" /\ UNCHANGED coverClock
     \/ coverClock = "running" /\ coverClock' = "expired" /\ UNCHANGED loopClock
  /\ UNCHANGED <<table, dataplane, cpuq, sutq, sent, pc, todo, numSeeds,
                 seen, learnt, handled, lost>>

-----------------------------------------------------------------------------
ControllerStep == \/ InstallRule \/ HandleReport \/ ReportTimeout
                  \/ HandleDatagram \/ NoDatagram \/ CheckExit

PacketStep(p) == \/ IngressReport(p) \/ IngressGenerate(p) \/ IngressDrop(p)
                 \/ EgressSend(p) \/ EgressResubmit(p)
                 \/ SutProcess(p) \/ LinkLoss(p) \/ PktGenInject(p)

Next == \/ DatagramLoss \/ Tick
        \/ ControllerStep
        \/ \E p \in PktIds : PacketStep(p)

Spec == Init /\ [][Next]_vars

(* main_loop never blocks for ever: both sockets have a time-out and       *)
(* add_entries returns, so the controller's thread always takes its next   *)
(* step.  Nothing is assumed of the switches, the links or the clocks.     *)
FairSpec == Spec /\ WF_vars(ControllerStep)
=============================================================================
