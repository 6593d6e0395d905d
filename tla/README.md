# Judy arrays in TLA+

Specifications of the Judy array library in `src/src/` (JudyL, a map from words
to words; Judy1, a set of words; JudySL and JudyHS, maps of strings made of JudyL
arrays; and the program that generates the size tables), the TLC configurations that
check them on small instances, and proofs about them checked by TLAPS.

Contents: [the system](#the-system) · [modules](#modules) ·
[how the model corresponds to the code](#how-the-model-corresponds-to-the-code) ·
[properties](#properties) · [runs](#runs) · [bounds](#bounds) ·
[fairness and deadlock](#fairness-and-deadlock) · [proofs](#proofs) ·
[findings](#findings) · [what is not modelled](#what-is-not-modelled) · [plan](#plan)

## The system

A Judy array is a 256-ary digital tree over 8-byte keys. Each expanse of keys
(all keys with a given prefix of bytes) is described by a two-word *JP*
(`jp_t`), whose type byte says what the expanse is: nothing (`JPNULL`), a few
keys stored in the JP itself (*immediate*), a sorted *linear leaf*, a 256-bit
*bitmap leaf*, a whole expanse of 256 keys without memory (`FULLPOPU1`, Judy1
only), or a *branch* over the next byte, of which there are three kinds:
linear (up to 7 JPs), bitmap (8 subarrays of JPs) and uncompressed (256 JPs).
A small array is a single leaf of whole keys (*LEAF8*) without JP; past a size it
gets a header (*JPM*) with the population, the memory count and the first JP.
Populations are kept redundantly in every branch, in the header, and in two
caches: `jbu_sums8` of a BranchU, which Count reads, and `jp_subLeafPops` of a
Leaf1 or Leaf2, by which the public Get finds the octant of a leaf to search.
Memory is kept in `jpm_TotalMemWords`.

The library is sequential. It holds no lock, starts no thread and persists
nothing. What makes it hard is the number of shapes and the transitions
between them in the middle of a recursive insertion, the redundant counts that
every transition must keep, values that move from area to area while the
caller holds pointers to them, and any `malloc` of a call returning NULL after
the call has changed something.

| component (`src/src/JudyCommon` unless said) | state | operations | works with | hard behaviour | correct when |
|---|---|---|---|---|---|
| Insertion, `JudyIns.c` | root pointer, JPM, tree, recursion frames | `JudyLIns`, `Judy1Set`, `j__udyInsWalk` | Get before it; Cascade, CreateBranch, MallocIF in it | conversions in mid-walk, population counted on the way back, failures at any depth | the array is a map; counts and memory are exact; a failure is reported and changes nothing; the call returns |
| Cascade, `JudyCascade.c` | staged JPs | `j__udyCascade2`..`8` | called for a full leaf, allocates leaves and a branch | failure with half the parts built | keys and values keep together; on failure all parts are freed |
| Branches, `JudyCreateBranch.c` | staged JPs, branch | L from parts, B from parts, L to U, B to U | called by insertion and cascade | sums built from JPs that have not counted the key on its way | JPs unchanged, sums right |
| Get, `JudyGet.c` | none | `Judy1Test`, `JudyLGet`, which insertions ask too; `j__udyLGet` for deletions | reads the tree; the public copy reads `jp_subLeafPops` | LEAF8 told from JPM by the first word; two copies that search differently | both find exactly the keys |
| FreeArray, `JudyFreeArray.c` | none | `Judy1FreeArray`, `JudyLFreeArray` | walks the whole tree, checks `jpm_TotalMemWords` and `jpm_Pop0` | comes across mistakes made long before | frees everything once, never answers "corrupt" |
| Delete, `JudyDel.c`, `JudyDecascade.c` | - | `Judy1Unset`, `JudyLDel` | Get | not implemented: exits | returns |
| Memory, `JudyMallocIF.c` | `jpm_TotalMemWords` | one alloc and free per object | `JudyMalloc.c` | size of free must be that of alloc | count is the size of the tree |
| Count, ByCount, `JudyCount.c`, `JudyByCount.c` | none | keys between two keys, n-th key | Get, First; populations of JPs, `jbu_sums8` | two directions of counting; Index put together from digits of two keys | agrees with the keys |
| First, Last, Next, Prev, `JudyFirst.c`, `JudyPrevNext.c` | history of branches | neighbours of a key | Get; reads the tree | dead ends, back-tracking, the ends of the key space | least key above, greatest below |
| the Empty searches, `JudyPrevNextEmpty.c` | history of branches | nearest absent key | reads the tree | full expanses at every level | the nearest absent key |
| MemUsed, MemActive | none | words allocated, words in use | JPM, tree | - | MemUsed is what malloc has handed out |
| SetArray, `JudyInsArray.c` | none | compiled to `return (1)` | - | - | - |
| JudyHS, `src/src/JudyHS` | a table of lengths, tables of hash values, trees of JudyL arrays, leaves of strings | insert, get, delete, free | JudyL as a client | hash collisions; failure in the middle of a split | a map of strings; a failure loses at most the string under the split |
| JudySL, `src/src/JudySL` | trees of JudyL arrays over 8-byte words, leaves of strings (SCL) | insert, get, delete, first, last, next, previous, free | JudyL as a client | a string carried down while another is inserted; dead ends after failures | a sorted map of strings; the insertion returns |
| Size tables, `JudyTables.c` | the table under construction | `GenTable` for each kind of leaf | the maxima of `JudyL.h`, `Judy1.h`; the sizes malloc serves | the last size, the largest leaf, groups of one size | objects hold their keys and values; growth in place moves nothing |

`PROJECT.json` lists them all with their status, and the hazards, at their
lines, that the properties are aimed at.

## Modules

| module | what it is |
|---|---|
| `JudyMap` | the abstract specification: what an array promises its caller, each call one step |
| `JudyTree` | the shape of an array: JPs, the Get walk, populations, memory words, the splay of a leaf; no state |
| `JudyArray` | extends `JudyTree` with the state of an array and one action per switch case of the insertion walk, per return, and per call; its properties; the refinement to `JudyMap` |
| `JudyGet` | extends `JudyTree`: the public Get, by octants |
| `JudyNeighbours` | extends `JudyGet`: Next, Prev, First, Last |
| `JudyCount` | extends `JudyNeighbours`: Count and ByCount |
| `JudyEmpty` | extends `JudyCount`: the searches for absent keys |
| `JudyQueries` | composes `JudyArray` with all of these: the properties of the queries in every state an array comes to |
| `JudySL` | strings over JudyL arrays, with shortcut leaves; implements `JudyMap` of strings |
| `JudyHS` | strings over tables of lengths and hashes and JudyL arrays; implements `JudyMap` of strings |
| `JudyTables` | the generator of the size tables, with the numbers of the library |
| `MCJudyArray` | the small instances; the `MC*.cfg` files choose among them |
| `MCJudyQueries` | the same with keys to ask about |
| `MCJudySL`, `MCJudyHS`, `MCJudyTables` | instances of the three |
| `JudyArray_proofs`, `JudyForm_proofs`, `JudyMap_proofs` | theorems about `JudyArray`: its types and the keys it keeps; the form of its tree, its populations and its words of memory; its sums, Get, and that it is a map. Each extends the one before |
| `JudyQueries_proofs` | theorems about `JudyQueries`, on top of those: what every query answers |
| `JudySL_proofs`, `JudyHS_proofs`, `JudyTables_proofs` | theorems about the modules they are named for |
| `JudyFacts` | lemmas that name nothing of the library: numbers, sizes of sets, sums over finite sets, strings cut into words, recursive functions |

`JudyArray` implements `JudyMap` through `INSTANCE JudyMap WITH map <- [k \in
Committed |-> value[k]]`: the abstract map is what Get finds in the tree, minus
the key a call is still busy with. The insertion takes effect, for the caller,
when the call returns. `JudySL` and `JudyHS` implement the same `JudyMap` over strings;
for them `MayLose` allows a call that ran out of memory to have lost the one string it
was moving, which is what their code does. The JudyL arrays inside them are functions
from words to words whose insertion happens or fails and changes nothing: the promise
of `JudyMap`, not the trees of `JudyArray`.

Definitions commented "Faulty" are the code with one plausible mistake (a
missing increment, an unfreed object, a bound off by one). They are used
nowhere in the specification; each stands in for a definition it follows when
`PROJECT.json` asks whether a property would notice.

## How the model corresponds to the code

State. `root` is what the root pointer addresses. `jp` maps slots to JPs: the
slot of a key at a level is the prefix of the key above it, so that a JP is
identified by what it describes and not by an address; where the code has no
JP, or an old one nobody points to, the slot holds `JPNULL`. A LEAF8 is
kept as a leaf in the root slot. `pop0` and `memWords` are `jpm_Pop0` and
`jpm_TotalMemWords`, `pvalue` is the key whose word `jpm_PValue` addresses.
`value` is the word stored beside a key: areas of values move, but always
together with their keys, except where `ImmedShifted` says otherwise.
`heapWords` counts what malloc handed out, which the code does not count.

Frames. `j__udyInsWalk` calls itself once per level on the key's path, so
`key`, `level` and `ret` are the whole stack: `pc = "walk"` in the switch of the
frame at `level`, `pc = "up"` when that frame has returned `ret`. A `goto
ContinueInsWalk` is `Continue`; `break` out of the switch is `Descend`; the code
after the recursive call is `WalkUp`; the code of `JudyLIns` after the first
frame is `InsDone`.

| code | actions |
|---|---|
| `JudyLIns` / `Judy1Set` before the walk | `InsPresent`, `InsEmpty`, `InsLeaf8`, `InsCascade8`, `InsTree` |
| `case cJU_JPNULL*` | `WalkNull` |
| `case cJU_JPBRANCH_L*` | `BranchLToU`, `BranchLDescend`, `BranchLInsert`, `BranchLToB` |
| `case cJU_JPBRANCH_B*` | `BranchBToU`, `BranchBDescend`, `BranchBInsert` |
| `case cJU_JPBRANCH_U*` | `BranchUDescend` |
| `case cJU_JPLEAF1`..`7` | `LeafInsert`, `LeafCascade`, `Leaf1ToB1U` |
| `case cJU_JPLEAF_B1U` | `LeafB1UInsert` |
| `case cJU_JPIMMED_*` | `ImmedGrow`, `ImmedToLeaf`, `Immed1ToLeaf` |
| recursive return | `WalkUp` |
| `JudyLIns` after the walk | `InsDone` |
| the caller writing `*PValue` | `Store` |
| `JudyLDel` / `Judy1Unset` | `Del` |
| `JudyLFreeArray` / `Judy1FreeArray` | `FreeArray` |

The seven near-identical cases of the leaf levels are one action with the level
as its parameter; the differences between levels (only Leaf1 and Leaf2 keep
octants, a Leaf2 bumps its octant before it allocates and a Leaf1 after, level 1
has a bitmap instead of a cascade) are conditions in it.

Failures. Each allocation is a *site* (`"Leaf"`, `"JBU"`, `"Cascade"`, ...). If it
is in `FailSites`, and fewer than `MaxFail` have failed, it may return NULL, and
the action does what the code has done by then and what it does about it.
`"JVShift"` is the growth of the value area of an immediate that already has
several keys, a site of its own because its failure is the one that
damages keys.

Queries. They change nothing, so they are operators on the tree (`jp`), written as
recursive functions over levels or slots, and asked in every state in which a
call may begin (`Callable`).

| code | operators |
|---|---|
| `JudyLGet` / `Judy1Test` (lines 682 on of `JudyGet.c`) | `JudyLGet`; a Leaf1 or Leaf2 only at the `Places` that `SubLeafStart` adds up |
| `JudyLNext`, `JudyLPrev`: SM1Get, SM2Backtrack, SM3Findlimit | `Neighbour`: `Search`, `Backtrack`, `FindLimit`. One operator for both directions, as the code is one source compiled twice. The history is the path of the key sought, so it needs no stack |
| `JudyLFirst`, `JudyLLast` | `FirstFrom` |
| `JudyLCount`, `j__udy1LCountSM` | `Count`, `CountSM`: `AboveInB` with the choice of direction by cache lines, `AboveInU` with `jbu_sums8` |
| `JudyLByCount` | `ByCountEnd` (the walk), `ByCountKey`, and apart from it what is left in Index: `ByCountIndex`; the pointer is not modelled. The build defines `NOSMARTJBB`, `NOSMARTJBU`, `NOSMARTJLB`, so it counts upward only |
| `JudyLNextEmpty`, `JudyLPrevEmpty` | `NeighbourEmpty`: a case per JP, each of which finds a key, goes into a JP, or restarts from the root past a key (`SMRESTART`). `JPFull` is the test for a full expanse, `Fulls` every outcome it can have where it reads a byte nobody has set, `LeafEdge` the comparison of a stored key (`STORED` digits) with the end of an expanse |
| `JudyLFirstEmpty`, `JudyLLastEmpty` | `FirstEmpty` |
| `j__udyLGet` / `j__udy1Test` (lines 69 on of `JudyGet.c`) | `j__udyLGet`, which `Del` asks; `RunsOn` is the missing end of its case for bitmaps |
| `JudyLMemUsed` | `MemUsed` |

Strings. A node of `JudySL` is known by the characters above it, one of `JudyHS` by the
length, the hash and the bytes above it; `leaf` and `array` say what is at a node, and
`lengths` and `buckets` are the two upper levels of JudyHS. Words are sequences of at most
`WORDSIZE` characters: what the code compares as numbers after reversing bytes
compares as the sequences do. An insertion is a step per part of the code that can fail or
change something; `Pscl` and `Pls` are the leaf that has been disconnected and is on its
way to its new place.

| code | actions |
|---|---|
| `JudySLIns`, top of the loop | `AppendSCL`, `FoundSCL`, `TakeSCL`, `PassNode` |
| the old string parts from the new, or not yet | `PlugOld`, `PlugFails`; `SameWord` |
| `JudyLIns` of the next word | `InsWord` |
| `JudySLGet`, `Next` and the like | `Visited`, the nodes its loop comes to, and what it answers there; `NextSub`, `PrevSub`, `JudySLFirst`, `JudySLLast` |
| `JudySLDel`, `JudySLFreeArray` | actions of the same names; `JudySLDelSub` says what becomes of a deletion: one that comes to `JudyLDel` ends the process |
| `JudyHSIns`, tables of lengths and hashes | `InsLength`, `InsHash` |
| `insStrJudyLTree`, CASE 1 to 3 and the last word | `MakeLeaf`; `FoundLeaf`, `TakeLeaf`; `InsDown`; `InsLast` |
| the split of a leaf | `SplitWord`, `PlaceOld` (the recursive call for the old string, unrolled: there is nothing where it goes, `SplitIsApart`), `InsNew` |
| `JudyHSGet`, `JudyHSDel`, `JudyHSFreeArray` | `JudyHSGet`; actions of the same names |

Tables. `JudyTables` is `GenTable`, a step per round of its two loops: `NextSize` and `LastSize`
upward, `Group` downward. Its tables are those of `main`, with `ALLOCSIZES` and the maxima
of the headers; nothing is scaled down. The other modules take tables as constants
(`LeafWords`, `BJPWords`, `JVWords`).

Two abstractions that need an argument:

* *No narrow pointers.* A JP that skips levels would need `j__udyInsertBranchL`.
  Every cascade puts its branch at the level of the leaf it splays and every
  conversion stays at its level, so in this code a key is never an outlier to a
  branch; the call is unreachable and `ju_DcdNotMatchKey` is always false.
* *Keys instead of array contents.* A leaf is the set of its keys and the words
  beside them; sorting, padding and search are not represented. The one place
  where order within an array is visible is `ImmedShifted`, which says which key
  falls off.

## Properties

* `TypeOK`: the type invariant.
* `PopExact`: every population (branches, JPM, bitmap byte) is the number of keys
  Get finds below it, in mid-insertion too, once the increments still owed by
  the frames on the stack are added.
* `SumsExact`: the same for `jbu_sums8` and `jp_subLeafPops`, which are bumped on
  the way *down*.
* `MemExact`: `jpm_TotalMemWords` is the size of all the tree points to.
* `HeapExact`: nothing is leaked.
* `RootReadable`: between calls, the first word of the object tells LEAF8 from JPM.
* `WellFormed`: no JP is lost from the walk, keys sit in their own expanse and no
  object exceeds its maximum.
* `KeysKept` (action property): no step, and no failed call, loses a key or changes
  its word. `OthersKeep`: no step but the failed growth of an immediate's value area does
  (`ImmedShifted`, see [findings](#findings)).
* `MapSpec`: the array implements `JudyMap`: keys, words, the pointer handed out,
  answers, and FreeArray never answering corrupt or miscounted.
* `InsertedIsFound`: what the manual says of the answer of an insertion.
* `AbsentSpared`: a deletion ends the process only at a key that is there.
* `GetAgrees`: the public Get, which trusts the octants, and the walk of insertions,
  which does not, find the same keys.
* `NeighboursExact`: Next and Prev of any key, in the array or not, give the nearest
  key beyond it, or none.
* `EmptyExact`: NextEmpty, PrevEmpty, FirstEmpty and LastEmpty give the nearest key
  that is absent, or none. `EmptyAbsent`: the key they give is absent and on the right
  side, which holds of JudyL too.
* `CountExact`: Count of any two keys, in either order, is the number of keys between.
* `ByCountSelects`: the walk of ByCount ends at the n-th key, and at none past the last.
* `ByCountTells`: Index is that of the n-th key, whatever it held before.
* `CallReturns` (liveness): a call that has started returns; no two conversions undo
  or repeat each other for ever.

Of `JudySL` and `JudyHS`, besides `MapSpec`:

* `AssertsHold`: the three `assert`s of `JudySLIns`; `SplitIsApart`: the recursive calls
  of a split find nothing in their way. Both say that the string being moved never meets
  another.
* `WellFormed`: no node is out of reach of FreeArray, after failures too.
* `HeapExact`: without failures, leaves are freed once and with the size they were
  malloc'ed with, although the string left in them has become shorter by then.
* `GetAgrees`: Get finds exactly the strings that are there, past dead ends and among
  strings of the same hash.
* `NeighboursExactAlive` (JudySL): in a tree without dead ends First, Last, Next and
  Prev give the nearest string.
* `CallReturns` (JudySL): the loop of an insertion ends.

Of `JudyTables`: `ObjectFits` (keys and values of n keys fit into the words for n and do not
overlap) and `GrowsInPlace` (equal words mean equal value areas, and a full leaf never
grows in place).

## Runs

| run | configuration | shows |
|---|---|---|
| `judyl` | `MCJudyL` | JudyL without failures, Ins and FreeArray in every order: `TypeOK`, all four counts, `RootReadable`, `WellFormed`, the refinement, termination, and every query right in every state between calls (92 000 states) |
| `judy1` | `MCJudy1` | Judy1 with every key of a two-digit expanse, Ins and FreeArray in every order: the refinement, no Leaf1, the full expanse, and the queries, the Empty searches among them, past expanses that are full at one level and at two (290 000) |
| `judyl_store` | `MCJudyLStore` | JudyL with a caller that writes through its pointers and deletes, and failures of the two allocations that are reported before anything has changed: still a map, and only a key that is there is taken for one to delete (505 000) |
| `judy1_nomem` | `MCJudy1NoMem` | Judy1 with two failures anywhere: keys and shape survive (391 000) |
| `judyl_nomem` | `MCJudyLNoMem` | JudyL with stored words and a failure anywhere: the memory count survives, and only the failed growth of an immediate's value area loses a key or a word (538 000) |
| `judysl` | `MCJudySL` | JudySL with one failure at any allocation: a map, no leaf leaked, asserts hold, searches right as long as there is no dead end, calls return (413 000) |
| `judyhs` | `MCJudyHS` | JudyHS over strings whose hashes collide, with one failure at any allocation: a map, in which a failed call loses at most the string it was splitting (345 000) |
| `judytables` | `MCJudyTables` | every size table of both builds, with the numbers of the headers (6 100) |
| `swallowed`, `bycount_index`, `empty`, `leaf_edge` | `MCSwallowed`, `MCByCount`, `MCEmpty`, `MCLeafEdge` | the [findings](#findings); each ends in a counterexample |

What holds and what does not under failures is the main result of these runs.
Without failures everything holds but what ByCount leaves in Index, what the Empty
searches of JudyL pass over, and what they answer at the end of a leaf of odd width. With them, the keys, `MemExact` and `WellFormed` survive
nearly everything, while the answer to the caller, the populations above the failed
frame, and (for the first insertion into a new JPM) the tag of the root do not.

## Bounds

The instances of `JudyArray` have keys of three digits (`RootLevel = 3`) with five values
(`Base = 5`). Level 3 stands for the root, where the population is in the JPM;
level 2 for every middle level and for Leaf2's octants; level 1 for the last,
with its bitmap. Levels 4 to 7 of the code differ from the middle one in
nothing but the table of sizes, the width of keys and, at levels 3, 5, 6 and 7, how much of a key above
its level a leaf stores (`STORED`, see below). Eight keys: the five of
one expanse, so that a bitmap wraps its byte (JudyL) or becomes a full expanse
(Judy1), and one neighbour at each level above it and two more at the root, so that a branch has more JPs
than a linear branch takes. `judy1` has three values of a digit instead, and all nine
keys of one two-digit expanse with one before it, so that a branch all of whose JPs are full comes up;
its leaves and immediates hold two keys at most, immediates above level 1 one. Those of more
keys above level 1 are in `judy1_nomem`, and what queries answer there is proved (`JudyQueries_proofs`).

The maxima are scaled down so that each is passed within eight keys: LEAF8 and
leaves of 3 or 4 keys, immediates of 1 to 3, BranchL of 2 JPs, BranchL to U above
a population of 5, BranchB to U above 4 when there are fewer than 7.00 words per
key. The word tables round up in places, so that some growth happens in place
and some not, and they break differently at different sizes. `MCLeafMax` lets a
leaf of level 2 splay straight into a bitmap, `MCLeafMaxLow` into leaves only;
`MCImmedMaxWide` makes an immediate of several keys grow, which is what
`JVShift` needs. The runs with failures or stored words use five to seven of the
keys and at most two failures: one to do the damage and one more to meet it.
The passing runs between them take every disjunct of `Next`.

`MCIndexApart`, of the runs with queries, spreads the keys above level 1 so that a leaf of
level 2 has keys in two octants and the root JPs in two groups and subexpanses of
two digits; the queries ask about nine keys or eighty-one pairs (`MCProbe`): some that
may be in the array, the first and last of the key space, and gaps at each level.
A Leaf2 search reads words of two keys (`KEYS_PER_WORD`, 4 in the code), so that an
octant shares a word with its neighbour; one JP fills a cache line (`JPS_PER_LINE`,
4), so that both directions of Count are taken by branches of three JPs. The Empty
searches see subexpanses of two digits (`SUBEXP_L`, 32 in the bitmap of a leaf), and leaves that
store as many digits as their level (`STORED`), as the code does at levels 1, 2, 4 and 8. The run `leaf_edge` lets
the leaves of level 2 store all three digits, as those of level 3 store four in the code and those of 5 to
7 eight; its five keys put the end of an expanse and the key after it into two leaves.

One bound is on counters alone: after failures a branch's sums may count keys again and again, so an
insertion begins only while none exceeds the number of keys (`SumsBounded`).

`JudySL` has words of two characters and the strings "a", "aa", "aabb", "aaba", "b":
one that ends in the first word, one that fills it exactly, two that go on and part in the second
word, and one beside them. `JudyHS` has words of two bytes, the empty string, and four strings of
six bytes that collide under the hash of the code, `c * 31 + b`, and part in the first, the
second and the last word. In both one allocation may fail, and the run goes on after it.

`JudyTables` is checked as it is: the sizes and maxima are the code's.

The relations between the constants that the model relies on are ASSUMEs of
`JudyTree`, `JudyArray`, `JudySL`, `JudyHS` and `JudyTables`; those of the code satisfy them
(`MaxAssumption`, `SplayAssumption`, `WordsAssumption`).

## Fairness and deadlock

`FairSpec` of `JudyArray` adds weak fairness of `Walk`, `WalkUp` and `InsDone`, and that of `JudySL` of
`Insertion`: a call that has begun runs, because the library takes no lock and waits for
nobody. Nothing is assumed of the caller. Only the two `CallReturns` need it.

Deadlock is checked in the runs without `Del` and without failures inside the walk. It is
off where the system really stops: a deletion of a present key exits the process;
`JudyTables` is a program that ends; and after the failure that leaves an
unreadable root no call on the array is defined any more (`Callable`).

## Proofs

`JudyArray_proofs` proves, for every value of the constants that satisfies the
ASSUMEs (any number of levels, base, set of keys, maxima, word tables, calls, and
pattern of failures):

* `TypeCorrect`: `Spec => []TypeOK`. `TypeOK` is inductive as it stands. Its one
  conjunct beyond types, that no branch sits at level 1, is what makes `Descend`
  stay within the levels. The proof has a lemma per constructor of JPs, one per
  group of switch cases, one for the return path and one for the calls.
* `RootTold`: if only the allocations that `JudyLIns` makes or calls for itself can
  fail (`HandledSites`: the LEAF8, the JPM and Cascade8), then `Spec =>
  []RootReadable`. `RootReadable` says nothing of the middle of a call, where
  `jpm_Pop0` is one short after a cascade; the inductive invariant `RootInv` adds
  that a walk only ever runs under a JPM, that `jpm_Pop0` is at most one short,
  and that every frame returns 1. The assumption cannot be dropped: it takes one failing
  site inside the walk of the first insertion into a new JPM to break `RootReadable`.

and, of the keys from one step to the next:

* `OthersKept`: `Spec => OthersKeep`. A step that writes one JP could lose keys it never looks at:
  by writing where another walk goes, by closing a digit of a branch, by splaying over a slot in use. The
  invariant `KeptInv` says why none does: the walk stands on a JP that a walk from the root
  comes to (`Reaches`), every key is in a slot of its own path (`OwnKeys`), and branches and
  NULL JPs hold none (`KeysInLeaves`). `WalkShape` sorts all cases of the switch, failures
  included, into four: the JP is replaced by one with its keys and digits (`Replaced`), a branch gains a
  digit (`Added`), a leaf is splayed (`Splayed`), an immediate is shifted and fails (`Shifted`). Each
  of the first three keeps every `Get`; the fourth is the exception that `OthersKeep` names.
* `AllKept`: `Spec => KeysKept` if the build is Judy1 or `"JVShift"` does not fail. The same invariant.
* `InsertedFound`: `Spec => []InsertedIsFound` if failures are within `HandledSites`. `FoundInv`
  adds that the key is found as soon as the deepest frame has returned. The assumption is needed: run
  `swallowed` is the counterexample without it.
* `SparedL`: `Spec => []AbsentSpared` for JudyL. In Judy1 the test of `JudyDel` runs on from a
  bitmap into the next case (see the findings), and the property is false.

`JudyForm_proofs` proves `TreeFormed`: `Spec => []WellFormed`, for all failures. `WellFormed` is of the whole
tree and the steps are of one path, so its parts are made local first: a JP that is not NULL is reached by
the walks for all the keys of its expanse (`Rooted`), which one such walk shows since they share their digits to there
(`ReachesSame`); a digit of a branch has a JP (`Peopled`); a JP `Fits` its level. That the parts of a
splay fit is what `SplayAssumption` is for, and that a grown immediate fits in a leaf what `MaxAssumption` says
of the two maxima. An immediate that is shifted and fails drops exactly its
last key, so it still holds one: the ranks of its keys are the numbers from 0, each once (`ShiftedCount`).

It also proves `PopsTold`: `Spec => []PopExact` if failures are within `HandledSites`. `PopInv` extends
`PopExact` from the branches that are reached to all slots, and from the JPM at rest to the middle of a
call, when the frames on the stack still owe their increments. Since every JP that is not NULL is reached
(`TreeFormed`), a key is found exactly if some JP holds it (`Held`), so a step adds at most the key of the call
(`GainsBy`): the counts rise by one on its path (`CountsRise`) and nowhere else. A splay adds no key,
and its new branch says one less than the `LEAF_MAXPOP1` keys that made it necessary (`SplayPop`). The byte of a bitmap
wraps at `Base` keys in JudyL, which `Fits` carries. The assumption is needed since a
failure inside the walk is not passed on (run `swallowed`): the frames above count a key that is not there.

It also proves `MemTold`: `Spec => []MemExact`, for all failures, and `HeapTold`: `Spec => []HeapExact`
if `"Cascade8"` does not fail, which leaks what it has staged (see the findings). `MemExact` sums over the slots a walk
reaches; the proof sums over all slots (`AllWords`), which comes to the same because a NULL JP takes no
words and only NULL JPs are unreached (`TreeFormed`). Every step then `Pays`: what it allocates less what it
frees is the change of `AllWords`, for a JP that is replaced (`PutWords`), a digit that is added to a branch
(`AddedWords`: the arrays of a bitmap branch grow by octants, `BJPArraysMore`) and a splay (`SplayAllWords`:
one leaf for several). What is needed of sums, that one term may be taken out or changed and that two sums of
equal terms are equal, is in `JudyFacts`.

`JudyMap_proofs` proves, if failures are within `HandledSites`:

* `SumsTold`: `Spec => []SumsExact`. A walk bumps `jbu_sums8` on its way down and nothing takes that back, so it must
  not come to the key it inserts. What sees to it is the `JudyLGet` before the walk, which finds its place in a
  Leaf1 or Leaf2 by the octants: the sums of branches and the octants of leaves are right together or not at all, and `SumsInv`
  holds both. It joins `PopInv`, since the sums of a new BranchU are added up from the populations
  of its JPs (`Sums8Is`: disjoint sets of keys add up to those below).
* `GetsTold`: `Spec => []GetAgrees`. The keys of an octant come in the leaf after those of the octants before
  it and before those of the others (`OctantHolds`), so a search of its places misses none.
* `MapTold`: `Spec => MapSpec`, the refinement. The caller sees `Seen`, what Get finds but for the
  key of a call under way. `PromiseInv` is all of the above with `ReplyInv`: frames that return carry a key that is
  in, with the word 0, and a `jpm_PValue` that addresses it; the pointer handed out last is to the word of
  the key asked for. Then each step of `JudyArray` is a step of `JudyMap` or cannot be seen (`NextMap`). That
  FreeArray never answers "corrupt" is `MemTold`; that it never answers "miscounted" takes `PopsTold` and that
  the leaves it comes to share no key (`FreedPop1Is`).

`JudySL_proofs` proves, for words of any length, any strings, and failures anywhere:

* `CarriedApart`: `Spec => []AssertsHold`, the three asserts of `JudySLIns`. They do not
  carry themselves; `IInv` adds why they hold (`CarryInv`): where a string is carried there is
  nothing yet, what is left of it is not what is left of the key, and both have
  the same word until they part. That there is nothing in the next place either follows
  from the shape of the tree (`NodeInv`): what is at a path is reached through
  the array above it, and there is none.
* `TreeWhole`: `Spec => []WellFormed`. The same invariant; `Linked` says of a path that all the words
  of it are in the arrays on its way, and each step either leaves the arrays or
  adds to one of them where the walk is (`Grows`).

* `LeavesTold`: `Spec => []HeapExact`. `HeapInv` says that what is `Lost`, the words malloc'ed less those of
  the leaves and of the one carried, is nothing until a call fails and never less than nothing: each step adds to
  the words malloc'ed what it adds to the leaves, `scl2` follows the carried leaf from `TakeSCL` to
  `PlugOld`, and a failure can only lose.
* `StringTypes`: `Spec => []TypeOK`. That a node is at a path of a caller's string follows from what it holds: with
  `HeldInv`, all that is bound is a caller's string with a value, which the steps of the map keep, and a leaf or a
  carried string is bound. An array may hold nothing but dead ends, so `PlaceInv` says of arrays and of the
  place of the walk that they are at paths, which the key sees to.
* `GetsStrings`: `Spec => []GetAgrees`. A string is in one place (`OnePlace`): what a path has
  below it, it has through the array there (`OneWay`), so no other place is on the way and the walk
  comes to it (`VisitedHolds`).
* `StringsMap`: `Spec => MapSpec`, the refinement. The map is what is bound (`Bound`): the cells of the
  tree, and the carried string with its value, which is nowhere in the tree (`CarriedApartHolds`). `CallInv`
  adds to `IInv` that the path and the rest of the key make up the key and that the cell handed out
  last is that of the key asked for. Every step adds one string, removes one or keeps all
  (`HeldMore`, `HeldLess`, `HeldSame`); a failure removes the carried one. `JudySLGet` and
  `JudySLDelSub` are stated by the set of nodes a walk comes to instead of by recursion, which no proof could expand.
* `StringNeighbours`: `Spec => []NeighboursExactAlive`. The order of strings is that of their first words, and of
  the rest where these are equal (`WordOrder`, of a total order). So what is below an array
  (`Below`) is spelled by its words and what is below each (`Spelled`), and the next string is in the node
  of the same word, if there is one there (`DeepFirst`), and otherwise the first below the next word
  (`OnwardFirst`, `ForemostFirst`). It takes that there is no dead end: then every node has a string below it
  (`BelowThere`). One body (`Sub`, `Answers`) does for both directions; that `NextSub` and `PrevSub`
  have it, and that nothing else has, is shown by induction over the length of the paths, which in a tree has a bound
  (`Placed`).

`JudyHS_proofs` proves, for words of any length, any strings, any hash (that of the code is never
expanded) and failures anywhere:

* `SplitApart`: `Spec => []SplitIsApart`. In the middle of a split (`Splitting`) the place the old string
  goes to is empty, as in JudySL because nothing is reached below an empty place. At its end (`PartedAt`) the array where
  the strings part has the one word of the old string; either the key's word is another, and
  nothing is below it, or it is the same and only the last word is left. That no
  leaf is at the last word (`NodeInv`: a leaf has all the bytes below it, more than a word) makes both
  recursive calls go where no leaf is.
* `LeavesTold`: `Spec => []HeapExact`. As in JudySL (`HeapInv`), and FreeArray gives back what the leaves
  have together, because it comes to all of them (`FreedAll`).
* `TreesWhole`: `Spec => []WellFormed`. `CallInv` adds to `IInv` what connects the levels: every node is
  below the bucket of the strings in it (`Placed`: a leaf or a last word makes up, with the bytes above it, a string of
  that length and hash), and the bucket is in the tables (`TableInv`), which are entered before anything is
  put below them and taken away only all together.
* `GetsBytes`: `Spec => []GetAgrees`. A string is in one place below its bucket (`OnePlace`, from `OneWay`), its walk
  comes to it (`VisitedHolds`), and its tables have the entries that lead there (`TablesLead`).
* `BytesMap`: `Spec => MapSpec`, the refinement, with `Bound` as in JudySL: the cells of the trees, and the string that is being split, which is
  nowhere in them (`SplitNotThere`). `KeyInv` says that this string is another than the key. When a call fails the key must not be kept: it
  is nowhere because an entry of the tables (`NoTable`), its next word (`NoWord`) or the word where the strings part
  (`NoPart`) is missing; while the old string is on its way, because either that word is missing or nothing is
  there yet (`NotWithOld`).

`JudyTables_proofs` proves, for every list of sizes, every maximum and both kinds of values:

* `TablesFit`: `Spec => []ObjectFits`, and `TablesGrow`: `Spec => []GrowsInPlace`. The inductive
  invariant has a part for the first loop (`SizesInv`: what it has passed holds its keys and values, with the value
  area right after the keys) and one for the second (`GroupsInv`: from the largest leaf down to
  `Index`, every leaf is `Settled`: its value area comes after its keys, ends within its words, and is
  that of the next larger leaf if they have the same words).

`JudyQueries_proofs` proves what the queries answer, in every state a call may find:

* `NeighboursTold`: `Spec => []NeighboursExact`, for all failures. What it takes of the tree is
  `Searchable`: its form (`TreeFormed`), and that no branch is without a JP (`Inhabited`), so that a descent to
  the limit of a branch ends at a key (`FindLimitFirst`). Two keys that differ do so at one
  level under a slot they share (`Parting`), and there their digits order them (`BeyondAt`), so each
  of the three state machines has a level at which it is decided: `SM1Tells` says at which branch the
  descent leaves the keys, `BacktrackFirst` which branch on the way back has a digit beyond.
* `CountsTold`: `Spec => []CountExact` if failures are within `HandledSites`. `Tallied` adds to `Searchable`
  what `PopsTold` and `SumsTold` say at rest. At a branch the JPs above or below the path (`AboveIs`), by
  `jbu_sums8` or one by one, in either direction, add up to disjoint sets of keys;
  `CountSMIs` joins the levels to the number of keys from one on, and `CountIs` the two ends.
* `SelectionsTold`: `Spec => []ByCountSelects`, under the same assumption. The walk to the place n goes where the
  n-th key is, since the keys before it are those before its slot and those under it (`RankAt`, `ByCountEndIs`).
* `EmptyTold`: `Spec => []EmptyAbsent`, for all failures, if `EndsSeen`. A case of the search leads to a key that
  is absent, into a JP, or past a key (`Leads`), whatever it took for full; a search has less before it
  with each case (`Remaining`), so it ends, though it starts from the root again and again.
* `EmptiesTold`: `Spec => []EmptyExact` in Judy1, if `EndsSeen` and failures are within `HandledSites`. What a
  case passes is in the array (`Skips`) if what it takes for full is (`Truly`). That is so of a branch by its population: as
  many keys as its expanse has are all of it (`FullBranch`). In JudyL it is not so, which is the run `empty`.

`EndsSeen` is about the caller's keys (`Index`) and the widths of leaves (`STORED`): no two keys next to each other lie on the two sides of
an end that `LEAF_EDGE` does not see. It holds of any keys where a leaf stores the digits of its level
only; with the widths of the code, of all keys but the neighbours `..FFFFFF` and
`..000000` that part at level 3, 5, 6 or 7 with a digit above it, within the stored width, that is not 0,
and the largest of all, past which the search would answer 0. The run `leaf_edge` is
the counterexample without it, so the code needs the assumption as much as the proof.

The queries of JudyL and Judy1 are recursive functions over keys, levels and slots. A body that looks only at places of lower rank has
a function that satisfies it (`Recursive` of `JudyFacts`); what that function answers is then shown by
induction over the rank, for sets in the place of predicates (`UpTo`).

That no call goes on for ever is proved as far as it can be, without ENABLED: each step lowers a number.

* `WalksEnd` (JudyArray), of `Walk`, `WalkUp` and `InsDone`: `WalkAhead` counts the levels below, the kinds of JP
  that may still follow at this one (`Stage`: immediate, leaf, BranchL, BranchB, BranchU, in the order in which one
  replaces another without the key) and the frames that return. It needs no more than `TypeOK`.
* `RoundsEnd` (JudySL): `Ahead`, the rest of the key and of the round.
* `SplitsEnd` (JudyHS): `Ahead`, the rest of the key and the parts still to come. After a split the same walk
  starts over with the same string left, and would split again if it met a leaf; `IInv` says that it cannot.

Only model-checked: liveness itself (`CallReturns`), which also takes that a call under way can always
take a step. Every other property of a run that passes is stated by a theorem.

## Findings

| run | what the code does |
|---|---|
| `swallowed` | when the walk of a level below returns -1, `j__udyInsWalk` falls through to `return (1)` (`JudyIns.c:2559`): the caller is given a pointer and no error, the JPM and the branches count a key that is not there. The manual promises `PJERR`. |
| `bycount_index` | `JU_MERGE_DCD_KEY` keeps the low digits of `*PIndex` and takes the high ones from the second key, where `JU_SETDIGITS`, whose place it took, did the reverse (`JudyByCount.c:602` and every leaf case after it): Index is not that of the n-th key. |
| `empty` | `JPFULL` of JudyL (`JudyPrevNextEmpty.c:254`) looks at the population byte whatever the JP is: an immediate whose last stored digit is 0 counts as a full expanse, and NextEmpty passes over its empty keys. |
| `leaf_edge` | `LEAF_EDGE` and `LEAF_EDGE_SET` (`JudyPrevNextEmpty.c:434`-`478`) compare the last key as the leaf stores it with the digits of the level. Leaves of levels 3, 5, 6 and 7 are arrays of 4 and 8 byte words and store more of the key, so where a digit above is not 0 the end of the expanse is not seen: with `0x01FFFFFF` the last key of its leaf and `0x02000000` in the array, NextEmpty of `0x01FFFFFE` answers `0x02000000`. |

What follows is also in the model or was met in modelling, without a run of its own; each is a hazard in
`PROJECT.json` where it concerns more than failures:

* `JudyLIns` publishes the new JPM with `jpm_Pop0 = cJU_LEAF8_MAXPOP1 - 1` before the
  walk; if the first frame of that walk fails, the JPM stays in the root pointer and is taken
  for a LEAF8 by every later call (`JudyIns.c:2793`).
* Keys of a JudyL immediate are shifted before its value area is allocated
  (`JudyIns.c:2027`, `2166`): on failure the last key is lost and words change owner (`ImmedShifted`).
* Cascade8 returns -1 without freeing the leaves it has staged, unlike the other
  cascades, and nobody frees the JPM (`JudyCascade.c:1575`).
* A Leaf2 counts the new key in `jp_subLeafPops` before it allocates (`JudyIns.c:1030`);
  after a failure `JudyLGet` and `Judy1Test` look for the keys of later octants in the
  wrong places and miss them, while Next and a repeated insertion still see them.
* In a JudyL bitmap `JudyLByCount` adds the rank of the bit to an area that has a word
  per digit (`JudyByCount.c:778`).
* The copy of Get that deletions use runs on from a bitmap without the bit into the case of the full
  expanse (`JudyGet.c:496`): `Judy1Unset` of an absent key beside a bitmap does not return 0
  but exits (`RunsOn`).
* JudySL: Next and Prev stop at a dead end that a failure has left, although a later string exists;
  the comment at `JudySL.c:329` says that they understand it.
* Judy1 immediates of two keys of 5 to 7 bytes: ByCount shifts by more than a word (`JudyByCount.c:912`), and
  the Empty searches leave `pop0` unset for 6 and 7 bytes (`JudyPrevNextEmpty.c:1533`).

Those of ByCount and of the Empty searches need nothing unusual, nor does `Judy1Unset`; the others
need a `malloc` that fails.

Apart from these, `JudyLDel` and `Judy1Unset` of a key that is present print "not
implemented yet!" and exit (`JudyDel.c:3000`), which the action `Del` does too; so do
JudySL and JudyHS once a deletion comes to an array. No run is spent on it.

## What is not modelled

* The code of `JudyDel.c` below the `exit`, and `JudyDecascade.c`: unreachable.
* `JudyInsArray.c`: its body is under `#ifdef forLATER`, and what is compiled is `return (1)`.
* `JudyInsertBranch.c`: never called (see above, no narrow pointers).
* `JudyMemActive.c`: sums of the sizes of the tree without a counterpart to agree with.
* The pointer that ByCount returns (see the findings); Index is modelled.
* Bit layouts, search within a leaf, padding, prefetch, `LastKey` words (which
  repeat the digits above the leaf, that the path implies here): data the properties do not tell apart.
* Two keys of 5 to 7 bytes in a Judy1 immediate as encodings of their own: the levels of the instances
  are three.
* Caller errors (null pointers), debug and trace builds.
* `j__uMaxWords`, `JU_ERRNO_OVERRUN`: no allocator in the tree returns it any more,
  as the comment at `JudyMallocIF.c:160` says.
* `dlmalloc.c`, third-party, and `JudyMalloc.c`, a shim on it: the allocator is "may fail". (The shim's
  `pre_mmap` exits the process when it is asked for other than 2 MiB.)
* `JudyPrintJP.c`: debug output. Programs and tests under `src/src/apps`, `src/test`,
  `src/tool`, `src/examples`.

## Plan

1. Done: `JudyMap`, `JudyTree`, `JudyArray`, its runs, `TypeCorrect`, `RootTold`.
2. Done: `JudyGet`, `JudyNeighbours`, `JudyCount`, `JudyQueries`, `JudyEmpty`, MemUsed.
3. Done: `JudyHS`, `JudySL`, each with failures between the steps of a split; `CarriedApart`, `TreeWhole`,
   `SplitApart`.
4. Done: `JudyTables`, with `TablesFit` and `TablesGrow`.
5. Done: `OthersKept`, `AllKept`, `InsertedFound`, `SparedL`, `TreeFormed`, `PopsTold`, `MemTold`, `HeapTold`.
6. Done: `SumsTold`, `GetsTold`, and `MapTold`, the refinement of `JudyArray` to `JudyMap`; `LeavesTold`,
   `GetsStrings` and `StringsMap`, the same of `JudySL`; `LeavesTold`, `TreesWhole`, `GetsBytes` and `BytesMap`,
   the same of `JudyHS`.
7. Done: `NeighboursTold`, `CountsTold`, `SelectionsTold`, `EmptyTold` and `EmptiesTold`, and the run `leaf_edge`;
   `StringTypes` and `StringNeighbours`; `WalksEnd`, `RoundsEnd` and `SplitsEnd`.
