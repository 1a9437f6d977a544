# FP4: a model of the coverage-guided switch fuzzer

FP4 tests a P4 program on the hardware it will run on. Two switches are wired
together: the *switch doing the testing* (SDT) and the *switch under test*
(SUT). The compiler in `src/instrumentation` takes the user's P4-14 program and
emits two programs: the SUT's, in which every action marks a bit of a header
`fp4_visited`, and the SDT's, which builds packets from seeds, mutates them,
and hashes the marks that come back. `src/control_plane/SDT` is the controller
of the SDT: it installs seeds and turns reports of new mark sets into more
seeds. The SUT may have a controller of its own (`src/control_plane/SUT`, the
distance-vector controller under `src/test_programs`), which forwards packets
and the table rules it derived from them to the fuzzer.

## Inventory

| part | state | operations | what makes it correct |
|---|---|---|---|
| SDT data plane (`modifier/dt.cpp`: `ProcessUTSim`, `ProcessSeed`, `Mutate`, `AppendIngress*`) | the tables, two Bloom registers, the packet's metadata | one ingress and one egress pass per packet | a mark set is reported once; only collisions hide one; a recycled packet starts clean; every draw yields a packet |
| SDT program generator (`dt.cpp`: `GetExtractSequence`, `GetMoveFieldsMap`, `CloneParser`, `GenerateParserJson`) | the syntax tree, the parser paths, the fields to mutate | one pass after another over the tree | seeds take the path they stand for; the copied parser reads originals behind mutated headers |
| SDT controller loop (`SDTcontroller.py`, `network/dataplaneSocket.py`) | position in the loop, start time | receive a report, receive a datagram, install rules, look at the clock | reports are handled, seeds take effect, the run ends |
| Coverage detector (`covDet/coverageDetector.py`) | seeds, seen actions, learnt rule fields, parser paths | initial rules, coverage check, new seed, learn rules | seeds only for packets that executed something, published once, in order, complete before they can be drawn |
| Report parser (`covDet/stateMachine.py`, `network/packet.py`) | cursor into the packet, headers read | build the machine from JSON, `parsePacket` | a report is read as the switch read it; a short one is refused |
| SUT program (`modifier/ut.cpp`, `modifier.cpp`) | the marks, `pkt_type`; at compile time the tree and maps of tables, actions and bits | sixteen passes; mark an action, mark the return, redirect drops | it runs as the original, and reports what it did; both compilations lay the header out alike |
| SUT controller and codec (`SUTcontroller.py`, `helper.py`) | rules, a socket | encode and send packet with rules | the rules arrive with their packet |
| Distance-vector controller | routing table, distance vector, lock, second thread | routing update, periodic advertisement | converges; one consistent vector per advertisement |
| Packet generator (`hardware_run/switchd.c`) | on or off | blank packets | nothing: it may be silent |
| Parser graph (`parser_graph.cpp`) | a queue of partial paths | extend, merge stacks, fix values | every path found; a seed with its values takes its path |
| Static analysis (`static_analysis.cpp`, `static_analysis.h`) | the graph of tables and conditions, dependencies per path | build, walk, group | no field a table depends on is left out; groups stay small enough to be mutated |
| P4 front end | syntax tree | parse, copy, rename, print | copies and renamings agree with what refers to them |

The parts meet in four places. Packets cross the two switches in a circle;
reports go from the SDT to the controller's raw socket; datagrams go from the
SUT's controller to a UDP socket of the same controller; and rules go from the
controller to the SDT's tables, one by one, *while packets keep flowing*. The
hard behaviour is there: a packet drawn between two rules of one seed, a report
lost after its registers were set, two mark sets in one register position, a
full table whose error nobody reads, an exit that is only looked at once per
round. The distance-vector controller adds two threads and a lock.

## Modules

| module | models | from |
|---|---|---|
| `SeedSelection` | how a random byte becomes a seed number: masks, priorities, lookup | `coverageDetector.py:599-629`, `dt.cpp:1424-1480` |
| `SeedTable` | `ti_set_seed_num` while the controller appends entries | `coverageDetector.py:589`, `dt.cpp:1409-1480` |
| `FuzzLoop` | the runtime loop of both switches and the controller | `dt.cpp`, `ut.cpp`, `SDTcontroller.py`, `coverageDetector.py`, `dataplaneSocket.py` |
| `FuzzLoopProperties` | what the loop promises, and a statement of the sources it does not keep | |
| `CoverageFeedback` | the abstract promise: knowledge grows, seeds are earned and published in order | |
| `MutationSelection` | which table and which values a packet of a seed is mutated with, while the controller learns rules and installs entries | `coverageDetector.py:84-108,395-459`, `dt.cpp:2125-2290` |
| `ParserGraph` | the paths through the user's parser, with the values a seed needs to take each | `parser_graph.cpp`, `dt.cpp:636-711` |
| `ControlGraph` | the graph of tables and conditions of the control blocks, and what conditions say of a set of headers | `static_analysis.h`, `dt.cpp:500-634` |
| `MoveFields` | the walk over that graph and the grouping of what it found | `static_analysis.cpp` |
| `StaticAnalysis` | both together, against the runs of the program | |
| `Instrument` | the passes of `UTModifier`, and the layout `DTModifier` makes of the same program | `ut.cpp`, `modifier.cpp`, `ast_nodes_p4.cpp`, `dt.cpp:139-200` |
| `InstrumentProperties` | what the instrumented program owes the tester, and a statement of the sources it does not keep | |
| `ReportParser` | the tester's doubled parser, its JSON, and the controller's walk over a report | `dt.cpp:713-950`, `stateMachine.py`, `packet.py`, `headerSynthesizer.py` |
| `DistanceVector` | the distance-vector controller: two threads, a lock, the switch's routes | `dv_router_controller.py` |
| `FuzzLoopProofs` | theorems about the loop: registers, reports, executions and numbers of seeds; tables and the refinement | |
| `MutationSelectionProofs`, `DistanceVectorProofs`, `ParserGraphProofs`, `MoveFieldsProofs`, `InstrumentProofs`, `ReportParserProofs` | theorems about the modules they are named for, the first also about `SeedTable` | |
| `InductionLemmas` | induction and recursion over naturals, in a form the provers can use | |
| `MC...` | instances for TLC | |

`FuzzLoop` composes the two switches with the controller and takes the numbers
of `SeedSelection` for its lookup; `MutationSelection` refines one of its steps,
the single mutation entry a seed has there; `DistanceVector` is the sender of its
datagrams. `ParserGraph` makes the paths that are `FuzzLoop`'s initial seeds,
`ControlGraph` and `MoveFields` the tables' keys `MutationSelection` draws from,
`Instrument` the bits that are `FuzzLoop`'s marks, and `ReportParser` is the
inside of its `Reparse`: these four are the compile time of the loop and are
checked on their own. `DistanceVector` hands a new state to the fuzzer twice (lines 138 and 30 of its
source); `FuzzLoop` takes any number of datagrams, up to `MaxDatagrams`.

### From the code to `FuzzLoop`

* `table` holds, per generated table, the entries installed so far. An entry
  keeps its key and only the action data that the properties tell apart: the
  path for `ti_create_packet`, the learnt rules for the fixed values. `Rule` is
  a line of the file that `add_entries` hands to `bfshell`.
* `packet` holds the packets in flight. `at` says where one is: about to enter
  the SDT's ingress, between ingress and egress, or on its way through the SUT.
  `filled` and `cloned` say whether `ti_add_fields` and `ti_add_clones` hit.
* One SDT ingress pass is one action, since a packet passes a pipeline without
  another one in the same stage: `IngressReport` (the registers answered with a
  combination that `ti_path_assertion` knows), else `IngressGenerate` or
  `IngressDrop`, after the default `ai_recycle_packet`.
* `EgressResubmit` is `te_do_resubmit`: the packet is stamped 3, and a copy goes
  through egress again.
* `SutProcess` chooses the executed actions from `Exec[path]`. Which actions a
  program runs on which packet is the program's business; the model asks only
  that a path determines the possible sets.
* `pc` and `todo` are the controller's thread. `todo` is what `add_entries` has
  still to install; the thread does nothing else while it is not empty.
  `"stopped"` is an `exit()`, `"crashed"` an uncaught exception (`KeyError` of an
  unknown header sequence, `AssertionError` of a datagram without separator,
  `IndexError` of `Packet`).
* `Reparse[p]` is what `parsePacket` may read in a packet of path `p`: another
  path, if a mutated field selects the next header, `NoPath`, its `None`, or
  `Raises`, the exception of a look-ahead past the end. A packet cut short is one of
  the last two, or no packet at all: `HandleDatagram` takes both outcomes.
* `loopClock` and `coverClock` are the two start times; `Tick` lets 300 s pass.
* `returned`, `handled` and `lost` are history variables.

Left out, since nothing the module keeps depends on them: ports, the fixed-header
selector, header field values, counters and log files, and programs with
assertions (the path table has its four combinations). The mutation entries of
a seed, one per table and field combination in the code, are one entry here.

### From the code to `MutationSelection`

* `learnt` is `fixedRulesFields`: a list per field, duplicates included.
  `Product` is one element of `itertools.product`, by its number.
* `todo` and `installed` are as in `FuzzLoop`: `add_entries` installs one rule at
  a time, and what the driver refuses (a table index above 15 or a combination
  above 255 in a key of 4 or 8 bits, a full table) is lost without a word.
* `TableSeed`, `FixedHeaderSeed` and `MoveBack` are the three lookups of egress.
  `ti_set_fixed_header` clears `fixed_header_seed` for 254 of the 256 values of
  `make_clone`, so most packets carry random values.
* `te_move_fields` is left out: `te_apply_mutations` writes every field it copies
  to before anything reads it. A value that nobody has learnt is `AnyValue`.
* `basis` is a history variable: what was learnt when a seed was built.

### From the code to `DistanceVector`

* `pc` is the main thread: one update is a step per entry (`ProcessEntry`), a
  rebuild of the vector one step per pair (`MainAppend`, in any order, since
  `items()` has no order), and one step per rule handed to the switch.
* `adv` is the daemon thread of `SendDistanceVector`. Counting and packing are
  two steps, so that what `dvLock` prevents can be seen.
* `routingTable` has the pairs looked up so far; `LookedUp` is the `defaultdict`.
* `"dead"` is the thread ended by the exception of `encodeNum`, lock in hand;
  `"crashed"` is the process ended by the `KeyError` of the second `sendto`.
* `pystate.is_new` comes with the environment; it may answer anything.
* `Masked` is the key the switch makes of a pair, `StaticRoutes` the keys its rules
  file has filled. Adding what is there and modifying what is not both fail.
* `published` and `said` are history variables.

### From the code to the compile-time modules

* `ParserGraph`: `stack` is the queue of partial paths, `pathList` the complete
  ones; `Extend` is one round of `generateExtractSequence`. `Merged` walks a path's
  headers once, as the code does, and lets an element of a stack continue the one before
  it (`Continues`); `Fitting` leaves out the paths with more elements than a stack has. What dereferencing an
  iterator past the end yields (`Underruns`) ends in `FinishUndefined`, any result.
* `ControlGraph`: operators only, since the graph is built in one go. `Evaluate`
  returns a set of verdicts because `resolveArith` returns an unset variable.
  Names are sequences of numbers so that their order, which decides in which
  order maps are walked, is the code's.
* `MoveFields`: `queue` is `pathQueue`; one path is one round. The fields of a path are
  kept with the fields they may have been computed from: `PairsExecuted` and `SetsExecuted`
  are the two loops of an action's execution. `Clean` is `removeMetadata` and the
  splitting, `Finish` the rest of `getFields`. `MaxChunks` bounds the model: the number that
  `splitLarge` appends to a name is one digit, so a header stack has at most 30 fields.
* `Instrument`: one action per pass, in the order of the constructor; `pass` is the
  position. Names are sequences too, never empty: a rule is renamed by a pattern on a prefix,
  and bits are laid out in the order of names; what the passes add to a name is one word that no name
  has. `bits` is `tbl_action_stmt_`. A program's blocks are numbered, each after those it
  leads to, so that a walk over nested blocks is a function of the number.
* `ReportParser`: a header is one word, a name a pair of its base and whether `_clone`
  is behind it. `CloneParser`, `UpdateParserDAG`, `GenerateParserJson` run on the
  tester's compiler, the rest in the controller; `Machine` is `StateMachine` after
  `__init__`, `NewPacket` the constructor of `Packet`, `ParseState` one round of
  `parsePacket`. A report is the part of a packet that `recvfrom` (512 bytes) and
  `maxLength` (see Departures) leave. The reference `P4Parse`, what
  a switch does with the printed parser, is external: `P4Step` is one state of it, and `P4Parse`
  takes as many steps as there are states times places in the report, for a switch that is
  twice in the same state at the same word is in a loop and never gets out.

External assumptions: an exact or ternary table answers with its entries, a
ternary one with the lowest priority number among the matches (the order the
generated numbers `255 - i` ask for); a stateful ALU reads and sets its bit in
one step; rules are applied in the order of the file.

## Runs

| run | question | distinct states |
|---|---|---|
| `seed_table` | does every draw select one seed; is nobody shadowed; is the choice stable | 3 thousand |
| `loop_safety` | do the registers, reports, seeds and tables agree under every interleaving | 1.3 million |
| `loop_datagrams` | do the datagrams of the SUT's controller fit in; is everything handled in the end; does the loop implement `CoverageFeedback` | 96 thousand |
| `mutation_selection` | does every seed get the mutations it was given entries for, and no others | 33 thousand |
| `dv_routes` | do routing table, vector, payloads and the switch's routes agree; do both threads go on | 895 thousand |
| `parser_paths` | are all paths through the parser found, and does a seed take the one it is made for | 22 thousand |
| `static_analysis` | is every field a table or condition depends on found and mutated | 70 thousand |
| `instrument` | does the instrumented program run as the original and report what it did | 26 thousand |
| `report_parser` | is a report read as the switch parsed it, and is its seed a packet of the program | 167 thousand |
| `preamble` | are datagrams of real packets kept (refuted) | |
| `instrument_asserts` | does the bit of an assertion tell its failure (refuted) | |
| `report_decimals` | are selects on decimals understood (refuted) | |

**Bounds, and why they are enough.** `seed_table` grows the table to 34 entries, so
that six of the eight mask widths occur, and draws every 6-bit value and bytes
whose high bits the masks must cut off; the theorems below cover the rest.
`loop_safety` has two packets and a queue for one report: every hazard of the
loop is a race of one packet with the controller, or of two packets with the
registers, and the queue overflows with the second. Two actions give four mark
sets of which three can be executed, on two positions per register with hashes
that differ, so that a mark set is hidden by two others in both
registers. The seed table has room for one seed beyond the initial two and the
clone table for none, so that full tables are met. `Draws` covers a number
beyond the table. `loop_datagrams` uses a smaller program and one packet, and adds
a datagram: cut before or after the separator, lost, or of a header sequence
without action. `sent` is bounded by `MaxDatagrams`, packets by `PktIds`, the
queue by `CpuQueueSize`; seeds need no bound, `SeedsBounded` is one.
Packets are interchangeable, so `loop_safety` takes them as a symmetry set;
`loop_datagrams`, which checks liveness, uses none. Deadlock is not checked, because the
process ends by `exit()`.

`mutation_selection` scales the widths of the keys down, 15 to 3 table numbers
and 255 to 7 combinations, and the tables to 8 and 32 entries, and looks at
every draw. Five tables over two headers then exceed the table numbers; three
learnt rules bring a table with two keys past seven combinations; four
seeds overrun both tables. `dv_routes` has two pairs, of which one finds its key
filled by a static route; two neighbours; costs that are small, that reach the cap
with one hop and that are far beyond it; two entries per update, so that one update
touches a pair twice; a payload for one entry and a counter that overflows at two, so
that truncation and overflow both happen; ARP packets, two addresses to advertise
on, and a caller that passes no address. Both controllers may wait for packets
for ever, so deadlock is not checked.

The compile-time modules have no environment: their bounds are the programs
they are given, and each run takes all combinations of a list of parts.
`parser_paths` takes every parser of three states over a choice of selects, loops
and stacks, 1737 of them, with the limit `Cap` at a value that loops reach.
`static_analysis` nests three to five tables in 1176 programs: `if` with and without `else`,
cases on hit, miss and actions, called controls, drops, and actions that add and remove headers
which later conditions ask for; no graph of theirs has a cycle. `instrument` has 1344
programs of five tables: popular and plain actions, stateful ones, default
actions with and without arguments, cases, `else if`, assertions of each
comparison, drops, and rules for all of them. `report_parser` has 120 parsers of
five states and 142 reports, empty, short of the longest path, as long and longer, with a
foreign preamble, misleading words and, for the loops, repeated headers. All of
these systems are deterministic but for undefined behaviour and stop when done.
What they assume of programs is named in the properties (`Supported`,
`Decided`, `FirstCasesOnly`, `StatefulAlone`, `AllActionsUsed`, `NoneBegins`, `AssertsReachedOnce`) and
is a limit of the code each time, listed among the hazards.

**Fairness.** `FairSpec` asks for weak fairness of the controller's thread only.
Both sockets have a time-out, `add_entries` waits for a `bfshell` that ends, and a
thread of its own process is scheduled; so it always takes its next step.
Nothing is assumed of packets, switches, links, clocks. In `DistanceVector`
both threads are scheduled fairly, and taking `dvLock` is strongly fair for
each: neither takes it again at once, since the one sleeps ten seconds between
rounds and sends a packet between addresses, and the other waits for
the next packet and for `bfshell`. Packets need not come. The compile-time modules
and the report parser are sequential programs: weak fairness of `Next` says only
that they are not suspended for ever. `AllWalksFound`, `FlowsFound` and
`ReportsUnderstood` say `<>` of a finished state, so they ask for the end of the loops as
well as for the result.

**What the runs show.**
* `BloomSound`: a position of a register is set only for a mark set that was handled,
  waits, or was lost on the way. It rests on the order of the rule list: the rules
  of `ti_path_assertion` come before the first entry of `ti_create_packet`.
  With the order swapped, a packet returns before the table is complete and
  its marks are lost for good.
* `MissedOnlyByCollision`, `ReportedOnce`: the three of four combinations that are
  installed are just the right ones.
* `ReportsAreExecutions`: no marks leak from one trip to the next.
* `SeedPacketsComplete`, `NoDropOnceBooted`: the rule of `ti_set_seed_num` comes last in
  a new seed, so no packet sees half of it. Both need two initial seeds, as every
  program with more than one parser path has; with one, an odd draw misses
  `ti_set_seed_num` (the theorem `SelectionTotal` has the exact condition).
* `SeedsBounded`: a seed costs a fresh register position or a datagram.
* `ImplementsFeedback`: the refinement of `CoverageFeedback`.
* `ReportsHandled`, `SeedsTakeEffect`, `ExpiryStops`: liveness.
* `MutatesWholeKeys`: no packet is written in a header it does not have or in half
  of the keys of a table, even while entries are missing or were refused.
* `EveryTableDrawn`, `EveryPacketMutated`, `LearntValuesTried`: the masks `i` and
  `2^bits - 1` overlap, but with falling priorities every entry wins some draw.
  The premises of the last two name the limits: room in
  `te_move_back_fields`, and at most 255 combinations. Beyond them learnt values
  are left out, and as duplicates count, that may come early.
* `PayloadIsOneVector`: what is advertised is one complete vector or a
  prefix of it, with its count. It rests on `dvLock` in both threads.
* `RoutesPublished`, `CostFromNextHop`, `HopChangesOnlyForLess`, `RoutesInstalled`: a
  route's cost, its next hop, the vector and the switch change together. The
  exception of the last is named in it: a pair whose masked key a static route or
  another pair has taken is refused.
* `LockLostOnlyByOverflow`, `BothGoOn`: the one way to stop
  for good is a vector of more than 65535 pairs, whose advertiser dies with
  the lock and leaves the main thread waiting for it.
* `AllWalksFound`, `PathsAreWalks`, `SeedsTakeTheirPath`: the paths are exactly the walks a
  packet can take, up to the limit; a packet with the fixed values takes its path.
* `MergeKeepsHeaders`: merging the elements of a stack loses no header.
* `FlowsFound`: what a table reads, directly, through an assignment of an earlier
  table's action or through a condition around it, is collected for it.
  `NothingLost`: splitting the groups loses none.
* `KeysMutated` compares that with what the program does with a packet: `Runs` applies the
  tables, lets actions add and remove headers, and decides conditions on the headers
  the packet then has. The analysis decides them on the headers that were parsed,
  since it hands them to the actions by value, and has no way for a side of
  an `if` that is missing. A run that takes such a turn is followed no further
  (`astray`); up to there, the keys of every table it applied can be mutated
  by the seeds with the packet's headers.
* `SameRuns`, `ReportsExact`, `RulesRenamed`, `NamesResolve`: renaming and marking neither change the way of a packet nor
  miss or invent an action. Four pieces of code must agree for it.
* `LayoutsAgree`: two compilers that parse the program separately name the same bits.
* `ReportsUnderstood`: the walk over the JSON is the parser
  of the switch. `SeedsAreParsed`: the doubled parser hands back the original, a packet
  the program's own parser takes.
* `NothingStopsReading`: a report that the switch would have dropped never becomes a seed, and
  only two kinds of reports end the controller by an exception, those of no byte and those
  that end where the parser looks ahead (`AtItsEnd`). It rests on the copy of `ingress`
  being `ingress`.

Two facts need no run of their own, since they are about values and not about
states: TLC evaluates `MaskedCompare` (the lookup of `SeedSelection` is the
masked comparison that the entries ask for) as an assumption of `MCSeedTable`, and
`FixedValuesComplete` (every comparison of a condition is found, however it is
nested) as one of `MCStaticAnalysis`.

**Findings.** `DataplaneDatagramsKept` fails since only the SDT writes the
preamble that the parser demands (`stateMachine.py:85`): a datagram of a program that
does not stamp it is discarded as "not from dataplane", although it is.
`BitsTellFailures` fails since the entry of an assertion of equality matches the
value that keeps it (`ut.cpp:255`), while those of `<=` and `>=` match the values that
break it. `DecimalsUnderstood` fails since every literal is read in base 16
(`stateMachine.py:113`), so a select on a decimal takes another branch.

## Departures

Other places where the code and what is said of it part. They are not runs; the
properties above hold around them, with a premise that names the limit where one
is needed. Paths are those of `src/`; `ut.cpp`, `parser_graph.cpp` are under
`instrumentation/src/modifier`.

* `ut.cpp:520`: the type that tells the tester "the current packet has
  traversed UT" (line 497) is set in the control `egress` only, so a program without one never
  tells. `ReportsAreOfOneRun` assumes `SutHasEgress`.
* `ut.cpp:500`: the SUT writes 1 over every type, also over the 3 of
  `te_do_resubmit`, so that the test of `coverageDetector.py:529` never holds.
* `dv_router_controller.py:242` packs at most three entries of the vector, announces all
  of them, and has a buffer for 42, as the program does (`dv_router.p4:61`).
  `PayloadIsOneVector` says "or a prefix".
* `parser_graph.cpp:281` sorts and compares pointers, so repeated paths stay; the model
  keeps them, too.
* `instrumentation/include/parser_graph.h:45` copies a path without its `metadataDependency`.
  `SeedsTakeTheirPath` is about the values that are kept.
* `ut.cpp:343` renames the action of an entry by a pattern without an end, so an action
  whose name begins like a popular one is renamed with it, and one that was renamed is renamed
  again if it now does (`a` becomes `a_fp4_t`, in which `a_` is found); `ut.cpp:340` joins
  the argument of a default action to its name. Both are premises of `RulesRenamed`.
* `ut.cpp:551`: the port of a redirected drop is an assignment like others. Within the
  action it is the last (`SameRuns`); a later table may overwrite it.
* `coverageDetector.py:244`: with assertions the list of keys has two entries and the rules more
  values; `zip` leaves the rest out.
* `SDTcontroller.py:192` unwraps a signed 32-bit counter once. It is printed only.
* `static_analysis.cpp:135` hands `validHeaders` to the actions of a table by value
  (`static_analysis.h:131`), so what they add and remove is forgotten at once: if `t` removes
  `tcp`, then in `if (valid(tcp)) s else u` behind it the walk goes to `s` only on a path with `tcp`,
  and the keys of `u`, which the packets reach, may be in no group. `Runs` is `astray` there.
* `dt.cpp:566`: after an `if` without `else` what follows has the ends of its block for
  parents and not the condition, and after a select with cases not the table itself; a packet that
  takes none of them comes to tables that the walk does not find behind each other. The same `astray`.
* `static_analysis.h:186`: conditions are called `IF_CONDITION_` and their number, and a chunk
  appends a digit (`static_analysis.h:797`), so from eleven conditions on, the first chunk of number 1
  has the name of number 10. `NamesDistinct` excludes it.
* `packet.py:18` raises for a packet of no byte, which a datagram cut behind its separator
  contains, and `packet.py:76` when a select looks past the end of the packet. Both are outside the
  `try` of `stateMachine.py:69`, and `main_loop` catches `socket.error` only: the controller ends.
* `headerSynthesizer.py:36` sets `maxLength` to a sum of widths in bits, and `packet.py:12` takes it for
  bytes. The cut lies far behind one instance of each header; only a loop gets there.
* `parser_graph.cpp:119`: a select without a default leaves `defaultTransition` empty, and `nameToState`
  has a null state for that name (line 182). `GraphAssumption` leaves such parsers
  out. The masks of cases are dropped and of several selected fields one is kept, in the code and
  in the model; selects of `SeedsTakeTheirPath` have one field and no mask.
* `dv_router_controller.py:118` remembers ARP entries by a part of the target's hardware
  address, while the switch has them by network address.

## Proofs

The first part of `MutationSelectionProofs` proves, for every table of up to 256 entries and every
byte, what `seed_table` checks; it extends both
modules, so `SeedTable` calls its specification `TableSpec`. The argument: an entry matches no draw below its number
(`MatchesBelow`) and matches its own (`MatchesItself`); priorities are distinct, so
at most one entry wins (`WinnersUnique`), and a least one exists
(`LeastNatural`, `WinnerExists`); entries 0 and 1 share all bytes between them.

`FuzzLoopProofs` proves for every program, any hash functions and any numbers of
packets, seeds and places in the queue: `TypeOK`, `BloomSound`, `ReportedOnce` and
`MissedOnlyByCollision`. None of the last three is inductive. A report is sent
when the registers answer with one of three combinations, so `BloomSound` needs
`ti_path_assertion` to be complete whenever a packet with marks is looked up,
which is a fact about the order of the rules still to be installed. The inductive
invariant `LoopInv` therefore has three parts:

* `TypeInv`: `TypeOK`, with the shape of every installed entry (`GoodTable`) and of
  every rule in `todo` (`GoodRules`), and a known path for every packet that is
  past the SDT's ingress (`CircuitPaths`);
* `BootInv`: an entry missing from `ti_path_assertion` is in `todo`, behind nothing but
  rules of the same table (`PathsPending`), and until the last one is in, no
  packet has been built (`NothingBuilt`);
* `BloomInv`: `BloomSound`, `ReportedOnce`, and `ReturnedKnown`: a mark set that came
  back has both its positions set.

`PathRoom` shows that the table always has room for those entries, and the key lemma
`ReportedIfNew` that a packet with marks is reported unless both of its
positions were set. There is a lemma for the initial states and for the steps of
each part (`TypeInvInit`, `TypeInvNext`, `BootInit`, `BootNext`, `BloomInit`, `BloomNext`);
`LoopInvariant` joins them and the four properties follow from it. The
assumptions are those of the modules, which TLC evaluates in every run:
`SeedAssumption`, `ProgramAssumption` and `CapacityAssumption`. They say that there
is an initial seed, that hashes, programs and parsers are functions of the right
kind, and that sizes are natural numbers.

`DistanceVectorProofs` proves, for any pairs, neighbours, costs and sizes, every safety
property of `dv_routes`. The inductive invariant `DVInv` adds to
the types and `CostFromNextHop`: that a program counter between acquire and
release is the same as holding the lock (`LockInv`); that the vector has as many
entries as the published one, with its costs, or, while it is refilled, as many as
the table has pairs less those still to be appended (`VectorInv`); that the payload
in hand was taken from the vector as it is (`PayloadInv`, which holds since nobody else
has the lock); and that an update whose flag is not set has left the table
as published (`FreshInv`). `EntryEffect` sums up what one entry of an update does, and
`CostStep`, `HopStep` and `FreshStep` build on it. `RoutesInstalled` has an invariant of
its own on top, `InstallInv`: what the switch's table will send a pair to when the rules
still in hand are in (`WillBe`) is what the routing table says, for every pair
whose masked key nobody else claims. `SwitchFollowsTable` is its conclusion for the moments
between two packets. `VectorAssumption` is all that is
assumed: costs are bytes, `NoHop` is no neighbour, sizes are natural numbers.

`ParserGraphProofs` proves, for any parser and any limit, that the queue and the list
hold walks only, and `TypeOK` with it. `PathInv` says of each path that its states
are a walk from the start and that its headers are what those states extract;
`VisitPath`, `CopyPath`, `BranchPath` and `DefaultPath` follow one path through a round, and
`AddedPaths` sums them up. `MergeLosesNothing` is about the output: every header of a walk
is in the merged sequence, in its place and as often as it was extracted. `Merged` is a
recursive function over the positions of a path; `Spans` says what its value up to a position has
to do with the headers up to there, and `MergedSpans` proves it by induction.
That every walk is found is a statement about the end of the queue and stays with TLC.

`FuzzLoopProofs` also proves what a report says and what a seed costs. `ExecInv` follows
the marks of a packet round the circle: only a packet on its way back has any; with
type 1 they are one execution of its path, with type 0 there are none, and
`ai_recycle_packet` clears them (`RecycledClean`). With a control egress in the SUT
(`SutHasEgress`) it implies `ReportsAreExecutions`. `BudgetInv` strengthens `SeedsBounded`
by the messages that may still yield a seed: seeds and queued messages together
are at most the initial seeds, the positions set and the datagrams sent. A report
always sets a fresh position, since it is sent only if a register was clear.

The second half of the module is about the rules between the controller and the tables.
`TableInv` has three parts. `NumberedInv`: each table whose key is the number of a seed
holds the numbers from 0 on without a gap, those up to `numSeeds` that are missing are
in `todo`, in rising order, unless the table is full. `PhaseInv`: `todo` is a part of
the initial rules, which end with that of `te_do_resubmit`, or of the rules of the
newest seed, which end with that of `ti_set_seed_num`. `ClonesInv`: `ti_add_clones` knows
every known path, or will, unless it is full. From it follow `NothingDropped` and
`NoHalfSeeds`, under `SeedRoom`: two initial seeds at least, and room for them. That is
needed, since the mask of seed 0 leaves the odd draws to seed 1. `NoHalfSeeds` carries
what a packet found at ingress through egress (`WholeInv`), since tables only grow.

It also proves the refinement, `Spec => ImplementsFeedback`: `FeedbackStart` for
the initial states, `PublishStep` for an installed rule of `ti_create_packet`
(the next number, by `NumberedInv`), `LearnStep` for `check_coverage_and_add_seed`, and
`FeedbackStep` for every action; the others stutter.

The rest of `MutationSelectionProofs` proves all of `mutation_selection`, for any tables, keys,
learnt values and sizes. The arithmetic comes first. `CoversBelow` and `CoversZero` do for
the four-bit masks what the first part does for the eight-bit ones, and `ProductTriesAll`
is about the mixed-radix numbers of `itertools.product`: whoever
counts to the product of the lengths meets each choice of one value per key. The rules of a seed
are concatenated by a recursive function; `RuleShape` says what each of them looks like.
The invariant `SelInv` then says that each rule that is wanted is installed or
waits, unless it does not fit its key or its table is full, that nothing else is
installed, and that a seed's first rule is ahead of its others, so that a table
which is full for the first had no room for the rest (`RulesComplete`). The four
properties follow from it: `WholeKeys`, `TablesDrawn`, `PacketsMutated`, `ValuesTried`.

`MoveFieldsProofs` proves `NothingLost` for every control graph, every assignment of fields to
headers and every set of names. `GraphsAssumption` is what is assumed: nodes are finitely many
and named by sequences of numbers, edges lead to nodes, keys and pairs are fields, and there are
no more fields than `MaxChunks` chunks hold. The order of names is proved to be a strict
total order (`BeforeTransitive` and its neighbours), which is what makes
`DuplicatesRemoved` true: of several equal groups the greatest name stays. `LargeSplit` says that
splitting keeps each field and makes groups of one to three, provided no name
is another with a digit. The invariant `PathsInv` types the walk and ties
`clean` and `groups` to the functions that made them. From there `CollectedGood`,
`CollectedApart` and `CollectedHeaders` follow a group through renaming and merging.
The proof found a premise that TLC's instances did not: a table whose name
holds `_parser_` could take the name of another's group (`NamesDistinct`).

`ReportParserProofs` proves what `report_parser` checks, for every program of any number of
states and every report of any length. `ReportAssumption` asks only that programs are well formed
and reports sequences of words. The invariant `Controller` has three parts.

* `TypeInv`: what is read is a prefix of the report, a name is in the dictionary once, and
  `parsers` is `Doubled` of the program's after the two passes, whatever order its states have.
  `ControllerTyped` is its conclusion.
* `WaysInv`: what a state selects on is extracted on every way to it. The premise
  of the program (`Selects`) is about the program's own graph; `WaysRound` carries it over the doubled
  one, where a way to the copy of a state passes through the whole first parser, and `Ways` says of
  both halves that each set of states closed under what is reached without a header
  is left only by a packet that has it. From it follows that no select meets a missing key, so that an exception is of
  one of the two kinds that `ReadingNeverStops` names (`Excused`).
* `SideInv`: the controller stands where some run of the switch stands (`Sides`): the same state,
  the same words, and of every name the last header of that name (`Holds`). `Follows` is the step: one
  round of `parsePacket` is one `P4Step`. It has to show that a dictionary of last values, a JSON
  of conditions before a default, and texts in base 16 come to what the switch computes from
  a list of headers, cases in order, and literals (`AlikeFacts`, `CasesAlike`, `ValueAlike`).

What a run of the switch is when it is over does not depend on how many rounds are counted:
`RunsShort` finds, by counting pairs of a state and a number of words, a repetition in any longer run,
and `RunsEnd` concludes that `P4Parse` is where any run ended. `ReadingNeverStops` and
`ReadsAsTheSwitch` follow. `ReadsAsTheSwitch` is the safety part of `ReportsUnderstood`.

`SeedsParse` is about two runs. `RunPlain` finds the point where the switch enters the copy;
up to there all names are plain. From there on each step of the copy is mirrored by a
step of the program's own parser over the seed's words (`Mirrored`, `MirrorStep`): the state is the copy's
original, the headers are those behind the entry, and a select on an earlier header sees the copy's
header and not the mutated one, which `RunWays` provides. `ClonedTail` then says that the names
with `_clone` are just those headers. The proof found a premise that TLC's instances did not have to
state: a default that is not the last case is taken by the switch and not by the reader.

`InstrumentProofs` proves every property of `instrument`, for every program. The inductive
invariant is `PassesMade`: after each pass every variable is what the passes so far make of the
program, written as a function of it (`NodesRedirected`, `TablesRenamed`, `BlocksEnded`,
`ExtraPort`, `HeaderOf`...). Nothing weaker would do, since each property relates the work of
several passes; `InstrumentedAs` is the theorem, and the rest is about those functions.
`ProgramsAssumption` is all that is assumed: statements lead to earlier blocks, a table lists an
action once, and no name is empty or has a word in it that the passes add. The last is what keeps
a copy's name from meeting another name (`DistinctTellsApart`, `DistinctIsNoName`).

* `LayoutsAgreeAlways`: `Mentions` has each action of each table once and so every bit has a name of its own
  (`MentionsAre`, `BitTellsApart`); `std::sort` puts each name in one place (`PlaceNumbers`), so the
  SUT's order and the SDT's are the same, and the padding brings the width to bytes (`LayoutOnBytes`).
* `RulesRenamedAlways`: a rule goes through one pattern after another, and only the one of its own action fits
  (`LeftAlone`, `RenamedHere`). The proof found the premise `NoneBegins`: a popular action `a_` would fit again
  in the new name `a_fp4_t`.
* `NamesResolveAlways`: what a table names is a node that stays (`ResolvesHere`), what a node marks is a field of
  the header, once (`MarkedDeclared`, `SetDeclared`), and an applied table is the program's or in `extra`.
* `SameRunsAlways`: a block's runs are joined from those of its statements (`IsChain`). To leave out the
  added tables (`Keeping`) and to rename the actions (`Recalling`) both go over a run element by element
  (`IsMorphism`), so blocks agree if their statements do (`ChainsMatch`). A statement does, since the case
  that an action takes has the action's new name (`CaseNamed`, `BitTellsActions`) and what is put
  behind it is not seen (`NothingSeen`). Blocks are numbered behind those they lead to, so `AllMatch` is an
  induction over the number.
* `ReportsExactAlways`: a run is honest if the tables and actions in it tell of just the actions in it, each in a field
  declared once (`Honest`); honest runs joined are honest. An action marks itself (`TakenHonest`) unless it is
  stateful; then the table is not taken alone, and the ones behind it tell (`MarkersRuns`, `StatefulHonest`).
  This needs `addModifyTablesRecurse` to come by, which `StatefulAlone` asks of the blocks a packet may
  come to: `LiveHonest` is an induction over those. For assertions, a single position met gives a single
  table (`MetOnce`, `AddedOnce`) and rule (`RuleOfAssertion`), and `FailsInRange` is about the range in it.

`InductionLemmas` holds the four facts that recursion needs here: a non-empty set of naturals has a
least element, a bounded one a greatest, what holds at 0 and is kept by each step
holds up to `n`, and a function with a recursive equation exists up to `n`. Properties are
sets and steps are functions there, since no installed prover instantiates an
operator parameter; a recursive function `f[i \in 0..n]` is a CHOOSE of a function that
satisfies its equation, and `RecursionUpTo` says that there is one.

`TypeOK` of `FuzzLoop`, `DistanceVector` and `ParserGraph` is proved and therefore checked
by no run; that of `ReportParser` is a part of `NothingStopsReading`.

Only model-checked, and why:

* liveness (`ReportsHandled`, `SeedsTakeEffect`, `ExpiryStops`, `BothGoOn`, `AllWalksFound`,
  `FlowsFound`, `ReportsUnderstood`), which is out of the prover's reach;
* `SeedsTakeTheirPath`: it relates the values fixed along one path to the selects of every
  other path with the same beginning. Where a default leads to the state of a branch, it rests on the
  branch's path being in the list if the default's is, however the limit cuts them short: a fact about
  the order of the whole queue, not of one path. That there is a packet at all depends on `PacketValues`;
* `KeysMutated`: `StaticAnalysis` finds what a run reads by recursive operators over nested
  blocks and conditions, which the prover does not take.

## Not modelled

* The grammar, the lexer and the printing of the tree: they keep no state beyond the
  tree; the modules start from the tree and end at what is printed.
* The text of the generated declarations, the sizes of generated tables
  (`GetMaxTblReadsFieldWidth` and its kin), `ExtractVisitedHdr`, and the stateful moves.
* `helper.py`: the bytes of a datagram; `FuzzLoop` has its ways of being cut.
* The assertion columns of the path table at run time: `FuzzLoop` takes programs
  without assertions.
* `switchd.c` but for its packets, `graph.cpp`, the installation scripts, and `json.hpp`, a
  vendored library.
