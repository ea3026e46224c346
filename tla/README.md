# GigaDORAM: specifications, model checks and proofs

GigaDORAM lets three parties keep an array none of them can read: every address, value
and access is XOR-shared between them, and neither what an access touches nor what it
returns may depend on the address. The code is a stack of C++ headers in `src/doram/`
and one driver, `src/test/doram/doram.cpp`.

This directory models that stack from the connection of the three processes up to the
memory a client sees, checks each layer on small instances with TLC, and proves with
TLAPS the safety of the ORAM, its assertions included, of the arrays of its tables, of the
cuckoo build, of the sort and of the shared registers, for every size of them.

    tlc -workers 2 -config MCDoramTwoLevels.cfg MCDoram      # one run
    tlapm DoramProofs.tla                                    # one proof module

## 1. The system

| Component | State | Operations | Used by |
|---|---|---|---|
| **ORAM hierarchy** `doram_array.h` | linear level, one hash table or none per level, `base_b_state_vec` | constructor, `read_and_write`, `rebuild`, `extract_alibi_bits`, `cleanse_bottom_level`, `new_ohtable_of_level`, `insert_stash` | driver |
| **Linear level** `stupid_level.h` | `addrs`, `data`, `num_stored` | `query`, `write`, `skip`, `extract`, `clear` | hierarchy |
| **Hash table** `ohtable_array.h` | elements in builder and in receiver order, `touched`, `dummy_indices`, `query_count`, stash | `build`, `query`, `extract` | hierarchy |
| **Cuckoo table** `optimal_cht.h` | per edge its orientation, search tree, stash | `build`, `lookup` | hash table |
| **Permutations** `local_permutation.h`, `sh_shuffle_array.h` | Fisher-Yates swaps, one permutation per pair of parties | `shuffle`, `inverse_shuffle`, `evaluate_at`, `forward`, `inverse`, `indices` | hash table |
| **Sort** `batcher.h`, **threads** `bristol_fashion_array.h` | the array; sections of circuit copies | `sort`, `compute_multithreaded` | hierarchy (bottom level) |
| **Shared registers** `rep_array_unsliced.h`, `sh_rep_array.h`, `zero_sum_prg.h` | two shares per party; generators shared with neighbours | `input`, `input_public`, `from_2shares`, `reshare_3to2`, `reveal_to`, `reveal_to_all`, `fill_random`, masks, `mand_gate`, `if_then_else` | everything above |
| **Circuit evaluation** `bristol_fashion_array.h`, `rep_array_sliced.h`, circuits of `src/circuits` | the slices of a part's wires, one output buffer for all MAND gates | `compute`, `compute_internal` | PRF, sort, relabelling, linear level, tables |
| **Garbled evaluation** `sh_riro_garble.h`, `halfgate_gen_prg.h` | wire keys, gate counter, two buffered channels | constructor, `garble`, `eval`, `compute_garbled` | cuckoo lookup |
| **Connections and streams** `rep_net_io_channel.h`, driver | two sockets per neighbour and thread | listen, connect, `send_data`, `recv_data` | shares, garbling |

How they interact. The three parties run the same program and call the same operations
in the same order; nothing but blocking sends and receives, and pseudo-random generators
that each pair draws from in step, keeps them together. Within a party, one operation
(the circuit evaluation of a sorting layer or of the PRF) starts threads, each with its
own sockets and generators, and joins them. There is no persistence, no timeout and no
recovery: a party that fails ends the run.

### What is hard

* **Long sequences.** An element wanders: written to the linear level, moved into a table
  by a rebuild, kept out of it by the cuckoo build (stashed), reinserted on top with an
  *alibi bit* that names the table it was kept out of, found, written back. An error in
  the bits, in the number of dummies or in the state vector shows only when several
  rebuilds and particular stashes meet.
* **Orders.** Builder order and receiver order of a hash table are connected by four
  permutations, none of which any party knows in full.
* **Lock step without frames.** Streams carry bare words. One party's extra word, or extra
  draw from a shared generator, spoils a later operation at another party.
* **Rings of blocking sends.** All three parties send before they receive.
* **Limits.** Dummies per table, room in the linear level, buffers of garbled tables,
  chunks of the zero-sum generator, sections of threads.
* **Units.** A circuit is computed on many copies at once, a lane of a slice for each; the
  copies are cut into parts, the last one of another width, and bits, blocks, lanes,
  slices and copies are converted into each other all along.

`PROJECT.json` lists these hazards one by one, at their lines, with the properties that
guard them.

### What makes each part correct

* Hierarchy: it is a memory; an address has one live copy; no lookup passes its element
  by; a table is shown the PRF value of an address once in its lifetime; no assertion
  fails; every access returns.
* Hash table: it behaves as a table of elements each found once, whatever the orders.
* Cuckoo build: a placement of all but the fewest elements possible, and it ends.
* Sort: a permutation, dummies last, for every length; it ends.
* Shared registers: neighbours agree, the sharing is of what the operation computes in
  the clear, no word is taken by the wrong operation, nobody waits for ever.
* Garbling: garblers agree on all keys, the evaluator holds the key of the true value of
  each wire, the output is a sharing of the circuit's result.
* Circuit evaluation: every copy's output is what the circuit makes of its inputs, however
  many copies there are and whatever the buffers held; neighbours stay in step; the
  circuits compute what their users take them for; relabelled dummies are all different.
* Set-up: each socket meets its counterpart; all parties come up.

## 2. The modules

| Module | Models | Proved in |
|---|---|---|
| `Words` | words as sets of one bits, alibi bits, masks | `DoramProofs` (lemmas) |
| `StupidLevel` | the linear level: a record and operators on it | `DoramProofs` (lemmas) |
| `OHTable` | a hash table as the ORAM sees it | `DoramProofs` (lemmas) |
| `Doram` | `class DORAM`, a state machine over the two above | |
| `Memory` | the abstract memory (the driver's `simulated_doram`) | |
| `DoramProperties` | its properties, invariant and refinement mapping | `DoramProofs` |
| `OHTableService`, `OHTableArray`, `LocalPermutation` | a hash table down to array positions, and the promise it keeps | `OHTableArrayProofs` |
| `OptimalCHT` | the cuckoo build | `OptimalCHTProofs` |
| `Batcher` | sort and threads | `BatcherProofs` |
| `Gf2`, `Rep3` | shared registers and streams, three processes | `Rep3Proofs` |
| `Circuits`, `Evaluation` | the circuits as their generators lay them out, and their evaluation on slices, three processes | |
| `Garble` | garbled evaluation, three processes | `GarbleProofs` |
| `Setup` | three processes connecting | `SetupProofs` |

`X` holds the model, `XProperties` its properties and the inductive invariants behind
them, `MCX` what TLC needs, `XProofs` the proofs. `Counting` has the lemmas that several
proofs share: on numbers and parities, and the algebra of `Gf2`.

### How they compose

`Doram` EXTENDS `OHTable`, which EXTENDS `StupidLevel` and `Words`: tables and the linear
level are records, and an action of `Doram` applies their operators in the order the
code calls the methods. That `OHTable` is a fair account of `ohtable_array.h` is checked
by `OHTableArray`, whose property `ImplementsTable` is the specification of
`OHTableService`, a state machine over the *same* operators. That `Doram` treats shares
as values is what `Rep3` (`SharesAgree`), `Evaluation` (`OutputsRight`) and `Garble`
(`OutputShared`) check of the operations it is made of. `Evaluation` takes its circuits
from `Circuits` and its addition and multiplication of shares, like `Rep3` and `Garble`,
from `Gf2`. That `Batcher` may take the compare-swap circuit by its result, and `Doram` the
relabelling of dummies by its effect, is what `CircuitsCompute` and `RelabelSound` say.

### Correspondence in `Doram`

`read_and_write` is cut where another call begins.

| Action | Code |
|---|---|
| `Call` | entry; a full linear level leads to `rebuild` |
| `Rebuild` | all of `rebuild`: target, extraction, cleansing, deletion, the new table, its stash |
| `QueryStupid` | scan of the linear level, first alibi extraction |
| `SkipLevel`, `ProbeLevel` | one iteration of the loop over tables, with and without a table |
| `WriteBack` | select, mask, write to the linear level, return |

Assertions of the code are guards, so a failing one would show as an action that cannot
be taken: `RebuildAssertsHold` and `ProbeAssertsHold` say the guards always hold, and TLC's
deadlock check, on in all `Doram` runs, says so again.

### Abstractions

* **PRF.** `q` is the address: the PRF is an injection and a random block is nobody's `q`.
  Keys are fresh per table, which is why "seen" is per table.
* **Elements** are sets of records with an address and a word. Dummies are counted. Which
  elements the cuckoo build stashes is any choice its fixed stash size permits.
* **Shares** in `Rep3` and `Garble` are polynomials over GF(2) (`Gf2`): a set of monomials,
  a monomial a set of atoms (a secret, a draw of a generator, a delta). An equation
  between shares is thus an identity, not a coincidence of values.
* **Half gates** are ideal: a table opens to the output key for one key of each of its
  wires, the right gate number and start point; else to garbage.
* **Streams** are sequences of words with a capacity. A word carries its operation and
  index as history, which no action reads.
* **Hash functions** of the cuckoo table are all functions.
* **Circuits** are gate lists of a block width given as a parameter (`Block`), wires in the
  order the generators allot them. With the code's widths (`Block` 128 and 32 bits of
  address) the lists equal the files `dummy_check`, `replace_if_dummy`, `xy_if_xs_equal`,
  `compare_swap` and `cht_lookup` of the repository gate for gate; the runs use blocks of 5 bits, two
  of them an address, and `CircuitsCompute` also blocks of 9. (The description of the
  output in `replace_if_dummy.py` is that of `dummy_check.py`; the code is what is modelled.)
  An AND computes in place on its wires; `CallsAssumption` says that none writes a wire it
  reads, which holds of the repository's circuits and not of every circuit: the output
  would then be overwritten by its pad before the other share of the input is read.
* **Slices.** The transposition of 128 words into 128 lanes is a change of layout; a slice is
  a function from lanes to bits. The number of lanes of a part, which blocks it reads and
  writes and what is rounded up stay as in the code.

## 3. The runs

Every cfg gives constants only; the properties of a run are in `PROJECT.json` with the
mutants that break them: for each property a plausible bug in a modelled definition that
TLC must find under the same cfg.

| Run | Bounds | States | Shows |
|---|---|---|---|
| `two_levels` | 2 tables, 3 addresses, all read and written, bottom built at start | 186105 | `TypeOK`, `SingleCopy`, `RebuildAssertsHold`, `ImplementsMemory` |
| `three_levels` | 3 tables, amplification 4, 31 addresses, 2 of them read, bottom missing at start | 1860289 | `AlibiSound`, `NotPassedBy`, `ProbeOnce`, `RebuildAssertsHold`, `QueryCountExact`, `ProbeAssertsHold` |
| `one_level` | 1 table, missing at start, stash of 2, liveness | 7019 | `ImplementsMemory`, `AccessReturns` |
| `alibi_mask` | as `two_levels`, reads | counterexample | finding, see 6 |
| `ohtable_array` | 3 elements, 2 dummies, 1 stashed, 4 swap arrays for each of 4 permutations | 7901 | `OrdersAgree`, `AssertsHold`, `ImplementsTable` |
| `cht_build` | all inputs of 5 edges on 2+2 slots, stash of 2 | 23086 | `OneEdgePerVertex`, `NothingLost`, `StashMinimal`, `BuildEnds` |
| `batcher` | all arrays of 2 to 9, 2 threads | 41272 | `Permutation`, `ChunksSorted`, `SortEnds` |
| `rep3` | all programs of 2 operations, 2 words, streams of 1 word | 64567 | `SharesAgree`, `FramesMatch`, `RevealRight`, `Finishes` |
| `rep3_wide` | as `rep3`, windows of 2 words, generator buffer of 1 | counterexample | finding, see 6 |
| `evaluation` | 10 calls: 4 circuits on 1 to 7 copies, 2 blocks of lanes to a part, streams of 1 message, a generator buffer of 6 blocks | 6951 | `OutputsRight`, `InStep`, `CircuitsCompute`, `RelabelSound`, `Finishes` |
| `garble` | 4 circuits of 3 gates, 2 calls, streams of 2 blocks | 6664 | `GarblersAgree`, `ActiveKeys`, `OutputShared`, `BufferAsserts`, `Finishes` |
| `setup` | 3 threads, one machine and three | 424 | `SocketsMatched`, `ConnectionsKept`, `PortsFree`, `AllUp` |

Why the bounds are enough for the interesting cases to happen:

* `two_levels` is the smallest hierarchy with a table that is rebuilt from, and one that
  is rebuilt in place; its bottom is built at the start, so that cleansing asserts the
  number of real elements. `three_levels` adds a middle level: an element with an alibi
  bit for table 1 can sit in table 0, and the first rebuild to reach the missing bottom
  drains two tables. With amplification 4 tables
  pass through states 1, 2 and 3 with three sizes before they move down, and an element
  can wait above a table for many of its rebuilds. `one_level` has a stash of two so that
  a reinserted list is longer than one.
* Clients ask for two or three addresses; the rest only fill tables, hence the symmetry
  of unqueried addresses. Symmetry is used only where initial words and requests are the
  same for all addresses of an orbit, and in no run that checks liveness.
* Words have one value bit besides an alibi bit per level: enough to tell a written word,
  an unwritten one and one with a stray alibi bit apart.
* `cht_build` at five edges on four vertices contains trees, a cycle on top of a tree,
  a double edge, two components, and both outcomes of the assertion on the stash.
* `batcher` to nine covers all residues of the cut-off chunk below and above a power of
  two, and lengths 2 and 3, which have fewer pairs than threads and abort.
* Two operations in `rep3` make every ordered pair of operations, so that a word or a draw
  too many in one meets the next; with streams of one word a send blocks at once.
* `evaluation` goes from one copy to seven where a part has four: one part, a part and a
  rest, a rest of each width modulo a block, and rests that need a block of random words
  for their last bits. One circuit reuses its wires, inverts one it has never written and
  has MAND gates of three, two and three outputs. Their output buffer is state that a part
  keeps from gate to gate (`buf_prev`, `buf_next`), so that each gate finds in it what the
  one before left; an AND works on its wire instead. The generator's buffer of 6 blocks is
  as much as the widest gate on a whole part asks for, as 1440 blocks are for the 180
  outputs of the AES circuit. With 5, TLC finds `OutputsRight` violated: this is the
  finding of `rep3_wide`, seen from the circuits.
* `ohtable_array` draws the four permutations from four arrays of swaps each, the identity
  and three that are not their own inverses or mix elements with dummies; stash and order
  of queries are free. That nothing depends on this sample is what the theorems add.
* In `garble` the constructor's three blocks pass through the buffer of garbler 1, assert
  and all, before its first tables do; party 3 can have its keys of call 2 in the stream while the evaluator is still
  in call 1, and the streams are shorter than every message but the keys.
* In `setup` three threads with ports two apart make port ranges overlap, which the
  code's "between NUM_THREADS and 100" would exclude: the properties hold even so, and
  `PortAssumption` says what they really need.

Deadlock checking is off in the runs of programs that return or abort (`cht_build`,
`batcher`, `rep3`, `evaluation`, `garble`, `setup`) and of a table that is deleted (`ohtable_array`);
there the liveness property says that they stop at the right place.

### Fairness

* `Doram`: weak fairness of the steps of an access. `Call` has none: clients need not ask.
  The code blocks in an access only in exchanges that all three parties enter.
* `Rep3`, `Evaluation`, `Garble`, `Setup`: weak fairness of each party separately, since each is a process
  the operating system schedules. Connecting is retried for ever, as the code does.
* `Batcher`: of the main thread and of each thread. `OptimalCHT`: of its one thread.

Parties are assumed not to crash, and streams to be TCP: neither loses nor reorders.

## 4. What is proved

Each theorem is of a specification as TLC runs it, for every value of its constants that
the named assumptions of its modules admit. These say what the code asserts or its
constructors check (sizes, powers of the amplification factor given as a table), that
`nullptr` is distinct from what it stands in for, and of the table arrays that the drawn
arrays are Fisher-Yates arrays and no two elements have one `x`.

| Theorem | Says |
|---|---|
| `DoramProofs!TypeCorrect` | `Spec => []TypeOK` |
| `DoramProofs!Inductive` | `Spec => []IInv` |
| `DoramProofs!SingleCopyHolds` | an address never has two live copies |
| `DoramProofs!NotPassedByHolds` | no lookup passes its element by |
| `DoramProofs!AlibiSoundHolds` | no live entry carries a stale alibi bit |
| `DoramProofs!ProbeOnceHolds` | no table is shown the same `q` twice |
| `DoramProofs!Refines` | the ORAM implements `Memory` |
| `DoramProofs!AssertsInductive` | `Spec => []AInv` |
| `DoramProofs!QueryCountExactHolds` | a table has been queried as often as the levels above it say |
| `DoramProofs!RebuildAssertsAlwaysHold` | no assertion of `rebuild` fails |
| `DoramProofs!ProbeAssertsAlwaysHold` | no assertion of a table's `query` fails |
| `OHTableArrayProofs!ArraysInductive` | `Spec => []ArraysInv` |
| `OHTableArrayProofs!OrdersAlwaysAgree` | builder and receiver order agree |
| `OHTableArrayProofs!TableAssertsHold` | no assertion of `query` or `extract` fails on the arrays |
| `OHTableArrayProofs!ArraysRefineTable` | the arrays implement `OHTableService` |
| `OptimalCHTProofs!CHTInductive` | `Spec => []CHTInv` |
| `OptimalCHTProofs!OneEdgePerVertexHolds` | no two edges are placed at one vertex |
| `OptimalCHTProofs!NothingLostHolds` | an element is in the table or in the stash, not both |
| `OptimalCHTProofs!StashInductive` | `Spec => []StashInv` |
| `OptimalCHTProofs!StashMinimalHolds` | the build stashes only what every placement would |
| `BatcherProofs!BatcherInductive` | `Spec => []BatcherInv` |
| `BatcherProofs!PermutationHolds` | the sort loses and doubles nothing |
| `BatcherProofs!ChunksSortedHolds` | every chunk is sorted after its stage |
| `SetupProofs!SetupInductive` | `Spec => []SetupInv` |
| `SetupProofs!SocketsMatchedHolds` | a connection joins the two ends of one channel |
| `SetupProofs!ConnectionsKeptHolds` | no connection is reset |
| `SetupProofs!PortsFreeHolds` | every bind succeeds |
| `SetupProofs!KeysPairedHolds` | generators of neighbours are seeded alike |
| `Rep3Proofs!FramesInductive` | `Spec => []Rep3Inv` |
| `Rep3Proofs!FramesMatchHolds` | a party reads the words of its own operation, each at its index |
| `Rep3Proofs!SharesInductive` | `Spec => []SharesInv`, with gates that fit in the generator's buffer |
| `Rep3Proofs!SharesAgreeHolds` | registers are sharings of what the operations compute, neighbours agree |
| `Rep3Proofs!RevealRightHolds` | a reveal shows the value that was shared |
| `Rep3Proofs!AndComputesAndHolds` | a gate that fits in the generator's buffer computes the AND |
| `GarbleProofs!GarbleInductive` | `Spec => []GarbleInv` |
| `GarbleProofs!GarblersAgreeHolds` | both garblers have the same zero keys |
| `GarbleProofs!ActiveKeysHolds` | the evaluator holds the key of the value of every wire |
| `GarbleProofs!OutputSharedHolds` | the output is a replicated sharing of the circuit's result |
| `GarbleProofs!BufferAssertsHolds` | no assertion of the table buffers fails, if every circuit has two AND gates (`Roomy`) |

The first ones close the gap between two levels of detail: `Refines` is about an ORAM
whose tables are the records of `OHTable`, and `ArraysRefineTable` says that the arrays
behave as those records do.

**The ORAM's safety.** `TypeOK` alone needs one thought: the linear level has room, because
a rebuild leaves it with exactly the stash and a write is made only below its size. For the
rest, `SingleCopy` is not inductive. An access that has found its element has removed it
from the hierarchy by touching it; that this removal and the later write back leave one
copy needs `NotPassedBy` (what has not been found is still ahead), and that in turn needs
to know that a probed table does not pretend: a position is touched only by its own `q`,
or by being stashed (`StashTouched`). `AlibiSound` needs a history argument: an element
whose `q` a living table has been shown is *above* that table and has lost the table's
alibi bit, or is in flight (`SeenExists`, `SeenAbove`, `SeenFound`). From these `ProbeOnce`
follows by cases on `UseDummy`, whichever of the accumulator's alibi bits the mask holds
(`MaskFromAccum`): this is why the lost bit of section 6 does no harm to it. `IInv` is the
conjunction; `DoramProofs` has first the lemmas on what each step moves (`At` before and
after), then one step per action and conjunct.

**Its refinement.** `Refines` maps the memory at an address to the value bits of its live
copy, or of the accumulator while its access is in flight. Probes and rebuilds stutter:
what is extracted is what was live, and with no initial bottom level cleansing cuts off no
real entry, because `SingleCopy` bounds the real entries by the address space.

**Its assertions.** The state vector is a number in base `amp_factor`, counting rebuilds.
`AInv` says what each digit implies: which levels have a table, how many times a table has
been queried (the accesses since its build, summed over the levels above it), how many
elements and dummies it was given, and how many real elements the hierarchy holds in all.
A rebuild carries: it clears the digits up to its target and increments the target's, and
the sums above and below the carry move by the same amount (`SumAbove`, one level after
the other, and `Geometric`). Counting the elements of the tables that are drained, with and
without their stashes, then gives the equalities the code asserts.

**The arrays.** `inverse_shuffle` and `shuffle` are sequences of swaps in opposite orders;
what has been swapped so far and what is still to be swapped meet (`ShuffleInverts`), so
`evaluate_at` is a bijection that names where an element goes, and `indices`, which inverts
the three parties' permutations in reverse, names where `forward` takes each
(`IndicesRelocate`). `ArraysInv` then counts the marks: a position is marked for the stash,
for each address asked for and for one dummy per query, no other, and no two coincide.

**The cuckoo build.** `CHTInv` says that the edges of the search tree form a forest: `rank`,
the order in which vertices were found, falls along parent edges, so every walk ends at a
root. While an extra edge turns its path around, exactly the vertex the walk stands at may
be pointed to twice, and the step that leaves it resolves the conflict.
`StashInv` adds where the marked edges lie. It keeps two sets of vertices: `full`, those of
the finished components that had an extra edge, and `grown`, those of the component the
search is in. Every vertex of `full` has an edge that points at it (`Covered`), and a marked
edge lies in `full`, or in `grown` once an extra edge is known (`Extra`). `StashMinimal` is
then a count. In any set of edges, those not marked point at ends of their own, so the
marked ones make up at least the difference between edges and vertices (`AtMostMarked`);
the edges with both ends in `full` attain it (`MarkedAttained`), so that number is the
deficiency. The length of the stash follows because the filler is the least prefix of
what is left that is long enough (`FirstOf`).

**The sort.** `BatcherInv` describes every state between two steps of the threads. A layer
compares element `i` of each half-chunk with element `i` of the other. By the 0-1 argument,
a dummy being a one, a bitonic block is split by its layer into two of which one is constant
(`HeadSplits`, `BodySplits`); an array whose length is no power of two behaves as if dummies
stood past its end, which no comparison moves. Sections of threads cover the pairs once
and the pairs fill the circuit's slots once, so whatever the order of the threads, the
join has the whole layer (`ScatterLayer`).

**The set-up.** A channel is one of the two connections of a pair for a resource.
`InOrder` says that its server is never past its client, nor its client past a server
that has not come to it. Every two parties have channels together, so none is two
resources ahead of another (`Close`), which lets `PortAssumption` decide whose address a
client meets: ports may be used again, but not within two resources in a row. That is
needed. A party 3 that is through with resource `r` connects for `r + 1` while party 1
has yet to accept its last connection for `r`, so an offset of 1 would cross them; party 1
can serve `r + 1` while party 2 listens for `r`, so that on one machine their ports must
not differ by the offset less one. The ports of the scripts with the offset of 50 meet the
assumption for every number of threads.

**The streams.** The words a party sends in a program can be numbered, and so can those
the next party expects; a frame's number tells its operation and its index
(`FrameNumbers`). `Rep3Inv` says that a stream holds the frames from the number its
receiver is at up to the number its sender is at. What makes the two numberings agree is
`StepsCounted`: in each operation a party sends its words one by one in the order of their
index, and the next party receives as many, in the same order, windows and all
(`WindowFacts`, `CountsFlatten`). So the parties may drift as far apart as the capacity
allows without a word going astray.

**The shares.** `SharesAgree` speaks of the moments when all three parties stand between the
same two operations, and says nothing of the steps that lead there, which the streams let
each party take at its own time. `SharesInv` fills them in. `Sync` runs the program with
the three parties in step: what each holds of each register after `i` operations, and how
much of each generator it has drawn. `PartyHeld` then says of a party alone, wherever it
is, that it holds of each word what `Sync` gives it before the operation, what it is first
given in it, or what it is left with, according to which steps are behind it (`Stage`,
`Did`); `StreamsHeld`, that a word on its way is what `Sync` makes its sender send;
`LastOpened`, that the last value opened to a party was right.
The proof has four parts. *In step*: the shares of `Sync` sum to what the operation
computes in the clear. For the AND this is that `(.)` distributes over `(+)`, a statement
on the parity of a cardinality (`ProductDistributes`); for the shuffle, that the pads of
two neighbours cancel. *Order*: in each operation's list of steps, a word is written once,
rewritten after that, and read by the others only then (`Orderly`), windows and all.
*Steps*: one lemma for each kind of step takes what a party holds before it to what it
holds after it (`HoldsTake`, `HoldsPad`, `HoldsRecv`, ...), on these orders alone. *Parties*: a step
of one party touches its own registers and one end of a stream, and the word it takes off
is the one it waits for, by `FramesMatch`.

The theorems have one hypothesis, `Buffered`: a gate, or one window of it, has no more
words than the buffer of the generator of zero shares. The code's windows are of 2^16
slices and the buffer of 1440 blocks, so it is the size of a gate that counts: 180 outputs
with slices of 8 blocks, as the comment at `zero_sum_prg.h:10` has it. The hypothesis is
needed: beyond it the run `rep3_wide` has the counterexample of section 6, and
`AndComputesAndHolds` says that there is no other way to it.

**The garbling.** `GarbleInv` says that where a party is tells all that it has: its
generators and what it drew of them (`GenAt`, `DrawnAt`), the wires of every call so far
and those of the gates done (`WiresAt`), what it returned (`OutAt`), what its buffer of
tables holds (`SendBuffer`, `RecvBuffer`). None of these mentions another party: each is
given by the circuit, the call and the gate. The parties meet in the streams alone. The
blocks of a sender are numbered through all calls (`Position`), and what is in its stream,
with what is left to send and what its receiver has got and not used, is the blocks from
`Taken`, which the receiver's place gives, up to `Sent`, which the sender's gives (`Pipe`,
`Carries`). So a step changes the ends of one or two intervals, and one party's place
(`PartyStep`), however far ahead the other two are.
What the wires carry needs the algebra. A key is active for a value `v` if it is the zero
key XOR `v` times delta. XOR and INV keep that by linearity. For an AND, the evaluator
reads back the value from the key (`ValueOf`): this is right because a value has no delta
in it while each term of its product with delta has one (`Values`, `TimesDelta`), and
because the table it reads is the two blocks at its own gate (`TableOf`, `OnePlace`), which
the count of the AND gates before it names. The colours of two keys that differ by `v` times
delta then differ by `v` (`ColourLinear`, `ColourOfDelta`), which makes the outputs a
sharing. `GarblersAgree` is what is left when two parties have what the same place gives.
The circuits are any whose gates are on their wires (`GarbleAssumption`). A wire that no
gate writes is zero, as `resize` leaves it: `cht_lookup` has outputs like that. A gate that
reads a wire which a later gate writes reads zero in the model, and in the code what the
call before left there; the circuit of the lookup has no such gate.

`BufferAssertsHolds` alone has a hypothesis, `Roomy`: two AND gates in every circuit. The
buffers are as long as the tables of one call but carry the three blocks of the constructor
first, and a circuit of one AND gate leaves no room for these: TLC then finds
`BufferAsserts` violated at the first step. The only circuit that is garbled, the lookup,
has 254. The other theorems hold without it, since the model goes on where the code would
abort.

Induction. The library's induction theorems take an operator and cannot be used here.
`Counting` derives what is needed from the well-foundedness of `<` on the naturals, with
sets for predicates: a least element (`LeastNatural`), induction up to a bound
(`InductionUpTo`), recursive functions up to a bound (`RecursionUpTo`).

### Only model-checked

* Liveness: `AccessReturns`, `SortEnds`, `BuildEnds`, `Finishes`, `AllUp` (fairness and
  ENABLED are out of the prover's reach). The assertion theorems of `DoramProofs` are what
  `AccessReturns` rests on: no step of an access is ever blocked by an assertion.
* `OutputsRight`, `InStep`, `CircuitsCompute` and `RelabelSound` of `Evaluation`. What a
  circuit computes is a recursion over its gates, and what the generators lay out is a
  recursion over their loops: statements for every circuit are inductions over data.
* `AndComputesAnd` when a gate does not fit in the generator's buffer: it does not hold.

## 5. What is not modelled

* The circuits of the PRF (LowMC, AES), which are cryptography. The circuit of the table
  lookup is checked by `CircuitsCompute`; `OHTableArray` takes its result. `mandify.py`
  rewrites circuit files.
* The PRF and everything of emp-tool; PRF keys, as every table has a fresh one and a query
  uses the key stored when the table was built (`doram_array.h:228`).
* `get_log_col_len`: the length of a table's columns only matters to the odds that a build
  fits in its stash.
* A peer that goes away: `read` returns 0 and the others spin, there is no recovery.
  `send_data_raw` would ask for `len` again after a short `write`; the sockets block and no
  signal handler is installed, so that writes are whole. Short reads are modelled: `Rep3`
  receives word by word.
* Register helpers that move words of one party (`copy`, `window`), those that no program
  calls (`reverse`, `shuffle_by`, `reshare_2to2`), and printing for tests.
* Argument parsing, timing, scripts, and the superseded headers `riro_garble.h`,
  `bristol_fashion_better.h`, `sh_obliv_shuffle.h` and `hash_io.h`.
* The comment at `batcher.h:81` speaks of chunks sorted in alternating directions; the code
  sorts them all in the same direction (`ChunksSorted` says so), and is right.

## 6. Findings

* **`alibi_mask`** (`doram_array.h:665`). The bits of the accumulator are XORed into the
  mask after every table, so a bit found is cleared by the second extraction, set by the
  third. The comment above the line says it stays. The effect: an element's alibi is not
  used at every second level below, and the table is asked for a random block where the
  `q` was meant. Values and `ProbeOnce` hold; whether the pattern of lookups still hides
  that an element had been stashed is a question of distributions, outside TLA+.
* **`rep3_wide`** (`zero_sum_prg.h:43`). `random_block` writes each chunk of its output to
  the same place. A gate with more outputs than the buffer, on an array that is not zero,
  computes something else than the AND. The circuits of the repository stay below, or
  meet a fresh array.

## 7. What is left

Done: one model per component, checked. Proved: the hierarchy with its refinement and its
assertions, and below it the arrays of a table, the cuckoo build and the sort; the set-up;
the streams and the shared registers; the garbled evaluation.

What could come next is `Evaluation`. That the parts of `compute` cover every copy once is
in reach for every number of copies; what a circuit computes is not, and that neighbours
stay in step would be `SharesInv` over again with messages of slices.
