-------------------------- MODULE FuzzLoopProperties --------------------------
(* What the fuzzing loop of FuzzLoop.tla promises.                         *)
EXTENDS FuzzLoop

(* Every variable has the type its declaration in the code gives it.       *)
TypeOK ==
  /\ table \in [TableNames -> SUBSET Entry]
  /\ bloom1 \subseteq Positions /\ bloom2 \subseteq Positions
  /\ packet \in [PktIds -> Packet]
  /\ cpuq \in Seq(Report) /\ Len(cpuq) =< CpuQueueSize
  /\ sutq \in Seq(Datagram) /\ sent \in 0 .. MaxDatagrams
  /\ pc \in {"cpu", "sut", "check", "stopped", "crashed"}
  /\ todo \in Seq(Rule)
  /\ numSeeds \in Nat
  /\ seen \subseteq Actions /\ learnt \subseteq RuleIds
  /\ {loopClock, coverClock} \subseteq {"unset", "running", "expired"}
  /\ returned \cup handled \cup lost \subseteq SUBSET Actions

Waiting == {cpuq[i].acts : i \in 1 .. Len(cpuq)}
Accounted == handled \cup lost \cup Waiting

(* A Bloom position is set only on behalf of a mark set that the           *)
(* controller has accounted for, that waits in its queue, or that was lost *)
(* on the way.  It needs ti_path_assertion to be complete before the first *)
(* packet can be built: a return met by the default ai_recycle_packet      *)
(* would set its positions for good and tell nobody.                       *)
BloomSound ==
  /\ bloom1 = {Hash1[a] : a \in Accounted}
  /\ bloom2 = {Hash2[a] : a \in Accounted}

(* A mark set that came back to the SDT is hidden from the controller only *)
(* by a collision in both registers with mark sets that were reported.     *)
MissedOnlyByCollision ==
  \A a \in returned \ Accounted :
     \E b, c \in Accounted \ {a} : Hash1[a] = Hash1[b] /\ Hash2[a] = Hash2[c]

(* The controller is told of a mark set at most once, whatever packets     *)
(* return with it (reg_val_one and reg_val_two of ti_path_assertion).      *)
ReportedOnce ==
  /\ \A i, j \in 1 .. Len(cpuq) : cpuq[i].acts = cpuq[j].acts => i = j
  /\ Waiting \cap (handled \cup lost) = {}

(* A report describes one run of the SUT program on one packet: marks of   *)
(* an earlier trip of a recycled packet do not leak into it.               *)
ReportsAreExecutions ==
  \A i \in 1 .. Len(cpuq) : cpuq[i].acts \in Exec[cpuq[i].path]

(* A packet built from a seed the controller added carries the header      *)
(* values of that seed, copied into its clone headers, and its table keys  *)
(* are mutated unless te_set_table_seed is full: the non-atomic install of *)
(* add_seed_packet never lets a packet see half a seed.                    *)
SeedPacketsComplete ==
  \A p \in PktIds :
     packet[p].at = "egress" /\ packet[p].seed >= N0 =>
       /\ packet[p].filled
       /\ \/ packet[p].cloned
          \/ packet[p].path \notin KnownPaths
          \/ Cardinality(table["clones"]) = CloneCapacity
       /\ \/ Hit("mutate", <<packet[p].seed>>)
          \/ Cardinality(table["mutate"]) = MutateCapacity

Booted == Hit("do_resubmit", <<1>>)

(* Once the initial rules are in, no draw makes ti_create_packet miss, so  *)
(* the SDT drops none of the packets that keep the loop turning - also     *)
(* while a new seed is half installed or its tables are full.              *)
NoDropOnceBooted ==
  Booted => \A r \in Draws : \A s \in Selected(SeedNums, r) :
              Hit("create", <<s>>)

(* Seeds are paid for: each one needs a fresh Bloom position or a datagram *)
(* of the SUT's controller, so the loop cannot flood its own tables.       *)
SeedsBounded ==
  numSeeds =< N0 + Cardinality(bloom1) + Cardinality(bloom2) + sent

-----------------------------------------------------------------------------
Feedback == INSTANCE CoverageFeedback WITH
  Given   <- N0,
  covered <- seen,
  offered <- numSeeds,
  corpus  <- {<<e.key[1], e.path>> : e \in table["create"]},
  live    <- Running

(* The loop implements coverage feedback: however its queues, tables and   *)
(* clocks interleave, the controller only earns seeds from packets that    *)
(* executed something and publishes each of them once and in order.        *)
ImplementsFeedback == Feedback!Spec

-----------------------------------------------------------------------------
Halted == pc \in {"stopped", "crashed"}

(* Every report that reaches the controller's socket is handled, unless    *)
(* the controller ends first.                                              *)
ReportsHandled ==
  \A a \in SUBSET Actions :
     a \in Waiting ~> a \in handled \cup lost \/ Halted

(* Every seed the controller counts becomes selectable, unless its table   *)
(* is full or the controller ends first.                                   *)
SeedsTakeEffect ==
  \A s \in 0 .. N0 + 3 :
     numSeeds > s ~> \/ s \in SeedNums
                     \/ Cardinality(table["seed"]) >= SeedCapacity
                     \/ Halted

(* The controller ends after 300 seconds, also when no report comes        *)
(* any more.                                                               *)
ExpiryStops == loopClock = "expired" ~> Halted

-----------------------------------------------------------------------------
(* What a message of the code says, and the code does not do.              *)

(* stateMachine.py:86: a packet is discarded as "not from dataplane" only  *)
(* if it is not: a whole, parsable datagram of a packet that crossed the   *)
(* switches teaches the controller its rules.                              *)
DataplaneDatagramsKept ==
  [][HandleDatagram /\ Head(sutq).cut = "no" =>
       \/ {NoPath, Raises} \cap Reparse[Head(sutq).path] # {}
       \/ Head(sutq).rules \subseteq learnt']_vars
=============================================================================
