------------------------------ MODULE JudyArray ------------------------------
(***************************************************************************)
(* One Judy array and the calls that change it: JudyLIns/Judy1Set with the *)
(* recursive j__udyInsWalk taken one switch case at a time, Del,           *)
(* FreeArray, and the caller's writes through the pointers it is given.    *)
(* Any allocation may fail.                                                *)
(*                                                                         *)
(* j__udyInsWalk calls itself once per level, so the frames on the stack   *)
(* are those of the levels RootLevel..level of the path of key: pc =       *)
(* "walk" in the switch of the frame at level, pc = "up" when that frame   *)
(* has returned ret.                                                       *)
(***************************************************************************)
EXTENDS JudyGet

CONSTANTS
    Value,      \* words a caller stores, 0 among them
    Calls,      \* the calls made besides insertion: "Del", "Free", "Store"
    FailSites,  \* the allocations that may fail
    MaxFail,    \* how many fail in one behaviour
    NoKey       \* a pointer to no key's word

ASSUME CallAssumption ==
    /\ 0 \in Value /\ (~JUDYL => Value = {0})
    /\ Calls \subseteq {"Del", "Free", "Store"}
    /\ MaxFail \in Nat
    /\ NoKey \notin Index

VARIABLES
    root,       \* what the root pointer addresses: nothing, a LEAF8 or a JPM
    jp,         \* the tree; a LEAF8 is a leaf in the root slot
    pop0,       \* jpm_Pop0
    value,      \* the word beside each key, garbage for the absent keys
    pvalue,     \* the key whose word jpm_PValue addresses
    memWords,   \* jpm_TotalMemWords
    heapWords,  \* the words malloc'ed and not freed
    pc, key, level, ret,
    reply,      \* what the last call returned
    nfail       \* allocations that failed

tree == <<root, jp, pop0>>
data == <<value, pvalue>>
memory == <<memWords, heapWords>>
frame == <<pc, key, level, ret>>
vars == <<tree, data, memory, frame, reply, nfail>>

Pjp == Slot(key, level)     \* the JP of this frame,
Here == jp[Pjp]             \* what it holds
digit == key[level]         \* and the digit decoded here

TypeOK ==
    /\ root \in {"NULL", "LEAF8", "JPM"}
    /\ jp \in [Slots -> JP]
    /\ \A s \in Slots : jp[s].type \in Branch => s[1] > 1
    /\ pop0 \in Nat
    /\ value \in [Index -> Value]
    /\ pvalue \in Index \cup {NoKey}
    /\ pc \in {"idle", "walk", "up", "exited"}
    /\ key \in Index \cup {NoKey}
    /\ pc \in {"walk", "up"} => key \in Index
    /\ level \in Level
    /\ ret \in {-1, 0, 1}
    /\ nfail \in Nat

EmptyTree == [s \in Slots |-> NullJP]

Init ==
    /\ root = "NULL"
    /\ jp = EmptyTree
    /\ pop0 = 0
    /\ value = [k \in Index |-> 0]
    /\ pvalue = NoKey
    /\ memWords = 0
    /\ heapWords = 0
    /\ pc = "idle"
    /\ key = NoKey
    /\ level = RootLevel
    /\ ret = 1
    /\ reply = [op |-> "none", code |-> "none"]
    /\ nfail = 0

-----------------------------------------------------------------------------
(* Steps every action is made of *)

\* malloc returns NULL at this site.
Fails(site) ==
    /\ site \in FailSites
    /\ nfail < MaxFail
    /\ nfail' = nfail + 1

\* Allocations add to jpm_TotalMemWords and frees subtract from it.
Charge(allocated, freed) ==
    /\ memWords' = memWords + allocated - freed
    /\ heapWords' = heapWords + allocated - freed

\* The frame of this level returns r.
WalkReturn(r) ==
    /\ pc' = "up"
    /\ ret' = r
    /\ UNCHANGED <<key, level>>

\* goto ContinueInsWalk: the switch again, on the JP as it is now.
Continue == UNCHANGED frame

\* The frame calls itself for the JP of the next digit.
Descend ==
    /\ level' = level - 1
    /\ UNCHANGED <<pc, key, ret>>

\* Faulty: the new word keeps what the memory held.
PlacedUnzeroed ==
    /\ pvalue' = IF JUDYL THEN key ELSE pvalue
    /\ WalkReturn(1)
    /\ UNCHANGED <<value, nfail>>

\* The key is in: its word is 0, jpm_PValue addresses it, the frame returns 1.
Placed ==
    /\ value' = [value EXCEPT ![key] = 0]
    /\ pvalue' = IF JUDYL THEN key ELSE pvalue
    /\ WalkReturn(1)
    /\ UNCHANGED nfail

\* Faulty: the bitmap of a BranchB has its bit before the JP subarray is there.
WalkFailsBitSet(site) ==
    /\ Fails(site)
    /\ WalkReturn(-1)
    /\ jp' = IF site = "JBBJP" THEN [jp EXCEPT ![Pjp].exp = @ \cup {digit}] ELSE jp
    /\ UNCHANGED <<data, memory>>

\* An allocation failed and its step had changed nothing: the frame returns -1.
WalkFails(site) ==
    /\ Fails(site)
    /\ WalkReturn(-1)
    /\ UNCHANGED <<jp, data, memory>>

-----------------------------------------------------------------------------
(* j__udyInsWalk, one action per case of its switch *)

\* JPNULL, met only under a BranchU.
WalkNull ==
    /\ Here.type = "NULL"
    /\ jp' = [jp EXCEPT ![Pjp] = ImmedJP({key})]
    /\ Charge(0, 0)
    /\ Placed

\* Faulty: the JP is in place but the branch does not show its digit.
AddToBranchNoBit == jp' = [jp EXCEPT ![Slot(key, level - 1)] = ImmedJP({key})]

\* A new JP, an immediate with the key, enters the branch of this frame.
AddToBranch ==
    jp' = [jp EXCEPT ![Pjp].exp = @ \cup {digit},
                     ![Slot(key, level - 1)] = ImmedJP({key})]

\* The population a BranchL will have with the key (the root's is in the JPM).
ExpPop1 == (IF level = RootLevel THEN pop0 ELSE Here.pop) + 1

TooPopularForL == ExpPop1 > BRANCHL_MAX_POP /\ Cardinality(Here.exp) # 1

BranchLToU ==
    /\ Here.type = "BRANCH_L"
    /\ TooPopularForL
    /\ \/ WalkFails("JBU")
       \/ /\ jp' = [jp EXCEPT ![Pjp] = [Here EXCEPT
                          !.type = "BRANCH_U", !.exp = {},
                          !.sums = Sums8(jp, Pjp, Here.exp)]]
          /\ Charge(JBUWords, JBLWords)
          /\ Continue
          /\ UNCHANGED <<data, nfail>>

BranchLDescend ==
    /\ Here.type = "BRANCH_L"
    /\ ~TooPopularForL
    /\ digit \in Here.exp
    /\ Descend
    /\ UNCHANGED <<jp, data, memory, nfail>>

\* Faulty: one JP more than a linear branch has room for.
BranchLInsertOver ==
    /\ Here.type = "BRANCH_L"
    /\ ~TooPopularForL
    /\ digit \notin Here.exp
    /\ Cardinality(Here.exp) <= BRANCHLMAXJPS
    /\ AddToBranch
    /\ Charge(0, 0)
    /\ Placed

BranchLInsert ==
    /\ Here.type = "BRANCH_L"
    /\ ~TooPopularForL
    /\ digit \notin Here.exp
    /\ Cardinality(Here.exp) < BRANCHLMAXJPS
    /\ AddToBranch
    /\ Charge(0, 0)
    /\ Placed

\* Faulty: the linear branch is not freed.
BranchLToBKept ==
    /\ Here.type = "BRANCH_L"
    /\ ~TooPopularForL
    /\ digit \notin Here.exp
    /\ Cardinality(Here.exp) >= BRANCHLMAXJPS
    /\ jp' = [jp EXCEPT ![Pjp].type = "BRANCH_B"]
    /\ Charge(JBBWords + BJPArrays(Here.exp), 0)
    /\ Continue
    /\ UNCHANGED <<data, nfail>>

\* Faulty: goes back to the switch with the type of a linear branch.
BranchLToBRetries ==
    /\ Here.type = "BRANCH_L"
    /\ ~TooPopularForL
    /\ digit \notin Here.exp
    /\ Cardinality(Here.exp) >= BRANCHLMAXJPS
    /\ Continue
    /\ UNCHANGED <<jp, memory, data, nfail>>

BranchLToB ==
    /\ Here.type = "BRANCH_L"
    /\ ~TooPopularForL
    /\ digit \notin Here.exp
    /\ Cardinality(Here.exp) >= BRANCHLMAXJPS
    /\ \/ WalkFails("JBB")
       \/ /\ jp' = [jp EXCEPT ![Pjp].type = "BRANCH_B"]
          /\ Charge(JBBWords + BJPArrays(Here.exp), JBLWords)
          /\ Continue
          /\ UNCHANGED <<data, nfail>>

(***************************************************************************)
(* The array spends few words per key and the branch has enough keys: it   *)
(* can afford a BranchU.  exppop1 is Pop0 here, no one has added 1 to it.  *)
(***************************************************************************)
AffordsU ==
    /\ ((memWords + EFF_OFFSET) * 100) \div pop0 < EFF_LIMIT
    /\ (IF level = RootLevel THEN pop0 ELSE Here.pop) > BRANCHB_MIN_POP

BranchBToU ==
    /\ Here.type = "BRANCH_B"
    /\ AffordsU
    /\ \/ WalkFails("JBU")
       \/ /\ jp' = [jp EXCEPT ![Pjp] = [Here EXCEPT
                          !.type = "BRANCH_U", !.exp = {},
                          !.sums = Sums8(jp, Pjp, Here.exp)]]
          /\ Charge(JBUWords, JBBWords + BJPArrays(Here.exp))
          /\ Continue
          /\ UNCHANGED <<data, nfail>>

BranchBDescend ==
    /\ Here.type = "BRANCH_B"
    /\ ~AffordsU
    /\ digit \in Here.exp
    /\ Descend
    /\ UNCHANGED <<jp, data, memory, nfail>>

BranchBInsert ==
    LET n == Cardinality(SubExp(Here.exp, digit))
        old == IF n = 0 THEN 0 ELSE BJPWords[n]
    IN  /\ Here.type = "BRANCH_B"
        /\ ~AffordsU
        /\ digit \notin Here.exp
        /\ \/ /\ BJPGrowInPlace(n)
              /\ AddToBranch
              /\ Charge(0, 0)
              /\ Placed
           \/ /\ ~BJPGrowInPlace(n)
              /\ AddToBranch
              /\ Charge(BJPWords[n + 1], old)
              /\ Placed
           \/ ~BJPGrowInPlace(n) /\ WalkFails("JBBJP")

\* The sum of the group is bumped on the way down, before the key is in.
BranchUDescend ==
    /\ Here.type = "BRANCH_U"
    /\ jp' = [jp EXCEPT ![Pjp].sums = Bump(@, digit \div GROUP8)]
    /\ Descend
    /\ UNCHANGED <<data, memory, nfail>>

-----------------------------------------------------------------------------
(* Linear leaves *)

\* The key joins the leaf.
GrownLeaf == [Here EXCEPT !.keys = @ \cup {key}]

\* The octants of a Leaf1 or a Leaf2 with the key counted.
Counted == Bump(Here.sums, digit \div OCTANT)

\* Faulty: the old leaf is freed before its successor is allocated.
LeafFailsFreed(site) ==
    /\ Fails(site)
    /\ jp' = [jp EXCEPT ![Pjp] = NullJP]
    /\ Charge(0, Words(level, Here))
    /\ WalkReturn(-1)
    /\ UNCHANGED data

\* Faulty: the parts built by a cascade are not freed when it fails.
LeafFailsLeaky(site) ==
    /\ Fails(site)
    /\ Charge(IF site = "Cascade" THEN SplayWords(jp, Pjp) ELSE 0, 0)
    /\ WalkReturn(-1)
    /\ UNCHANGED <<jp, data>>

(***************************************************************************)
(* The allocation a leaf needs fails.  A Leaf2 has bumped its octant by    *)
(* then; a Leaf1 bumps it only with the key.                               *)
(***************************************************************************)
LeafFails(site) ==
    /\ Fails(site)
    /\ jp' = [jp EXCEPT ![Pjp].sums = IF level = 2 THEN Counted ELSE @]
    /\ WalkReturn(-1)
    /\ UNCHANGED <<data, memory>>

(***************************************************************************)
(* A leaf of n keys becomes J, of one key more: in place while its memory  *)
(* has room, or in the memory of a larger one.                             *)
(***************************************************************************)
LeafBecomes(J, n) ==
    \/ /\ LeafGrowInPlace(level, n)
       /\ jp' = [jp EXCEPT ![Pjp] = J]
       /\ Charge(0, 0)
       /\ Placed
    \/ /\ ~LeafGrowInPlace(level, n)
       /\ jp' = [jp EXCEPT ![Pjp] = J]
       /\ Charge(LeafWords[level][n + 1], LeafWords[level][n])
       /\ Placed
    \/ ~LeafGrowInPlace(level, n) /\ LeafFails("Leaf")

\* JPLEAF1: the octant counts the key when it is in.
Leaf1Insert ==
    LET n == Cardinality(Here.keys)
    IN  /\ Here.type = "LEAF"
        /\ level = 1
        /\ n < LEAF_MAXPOP1[1]
        /\ LeafBecomes([GrownLeaf EXCEPT !.sums = Counted], n)

\* JPLEAF2: the octant counts the key before memory is allocated for it.
Leaf2Insert ==
    LET n == Cardinality(Here.keys)
    IN  /\ Here.type = "LEAF"
        /\ level = 2
        /\ n < LEAF_MAXPOP1[2]
        /\ LeafBecomes([GrownLeaf EXCEPT !.sums = Counted], n)

\* JPLEAF3 to JPLEAF7.
LeafWideInsert ==
    LET n == Cardinality(Here.keys)
    IN  /\ Here.type = "LEAF"
        /\ level > 2
        /\ n < LEAF_MAXPOP1[level]
        /\ LeafBecomes(GrownLeaf, n)

LeafInsert == Leaf1Insert \/ Leaf2Insert \/ LeafWideInsert

\* A full Leaf2..Leaf7 splays into leaves of the level below under a branch.
LeafCascade ==
    /\ Here.type = "LEAF"
    /\ level > 1
    /\ Cardinality(Here.keys) = LEAF_MAXPOP1[level]
    /\ \/ LeafFails("Cascade")
       \/ /\ jp' = Splay(jp, Pjp)
          /\ Charge(SplayWords(jp, Pjp), Words(level, Here))
          /\ Continue
          /\ UNCHANGED <<data, nfail>>

\* A full Leaf1 becomes a bitmap; jp_subLeafPops gives way to jp_DcdPop0.
Leaf1ToB1U ==
    /\ Here.type = "LEAF"
    /\ level = 1
    /\ Cardinality(Here.keys) = LEAF_MAXPOP1[1]
    /\ \/ LeafFails("JLB1U")
       \/ /\ jp' = [jp EXCEPT ![Pjp] = LeafB1UJP(Here.keys)]
          /\ Charge(JLB1UWords, Words(1, Here))
          /\ Continue
          /\ UNCHANGED <<data, nfail>>

(***************************************************************************)
(* The bitmap takes the key.  jp_LeafPop1 is one byte: JudyL lets it wrap  *)
(* to 0, Judy1 frees the full bitmap and keeps the type alone.             *)
(***************************************************************************)
LeafB1UInsert ==
    LET K == Here.keys \cup {key}
    IN  /\ Here.type = "LEAF_B1U"
        /\ \/ /\ JUDYL \/ Here.pop + 1 < Base
              /\ jp' = [jp EXCEPT ![Pjp] = [Here EXCEPT
                            !.keys = K, !.pop = (@ + 1) % Base]]
              /\ Charge(0, 0)
           \/ /\ ~JUDYL /\ Here.pop + 1 = Base
              /\ jp' = [jp EXCEPT ![Pjp] = FullPopJP(K)]
              /\ Charge(0, JLB1UWords)
        /\ Placed

-----------------------------------------------------------------------------
(* Immediates *)

(***************************************************************************)
(* JU_INSERTINPLACE has put the key among the keys of the immediate when   *)
(* the value area cannot grow: the type still counts n keys, so the last   *)
(* falls off the end, and the words have stayed at their places.           *)
(***************************************************************************)
ImmedShifted ==
    LET K == Here.keys
        Wider == K \cup {key}
        Kept == {k \in Wider : Rank(k, Wider) < Cardinality(K)}
    IN  /\ jp' = [jp EXCEPT ![Pjp].keys = Kept]
        /\ value' \in [Index -> Value]
        /\ \A k \in Kept : \E j \in K : /\ Rank(j, K) = Rank(k, Wider)
                                       /\ value'[k] = value[j]
        /\ \A k \in Index \ Kept : value'[k] = value[k]

\* One key becomes two; those of JudyL get a value area.
Immed01Grow ==
    /\ Here.type = "IMMED"
    /\ Cardinality(Here.keys) = 1
    /\ IMMED_MAXPOP1[level] > 1
    /\ \/ /\ jp' = [jp EXCEPT ![Pjp].keys = @ \cup {key}]
          /\ Charge(ImmedWords(2), 0)
          /\ Placed
       \/ JUDYL /\ WalkFails("JV")

\* Two keys or more gain one, and the value area of JudyL may have to move.
ImmedGrow ==
    LET n == Cardinality(Here.keys)
        moves == JUDYL /\ ~JVGrowInPlace(n)
    IN  /\ Here.type = "IMMED"
        /\ n > 1
        /\ n < IMMED_MAXPOP1[level]
        /\ \/ /\ jp' = [jp EXCEPT ![Pjp].keys = @ \cup {key}]
              /\ IF moves THEN Charge(ImmedWords(n + 1), ImmedWords(n)) ELSE Charge(0, 0)
              /\ Placed
           \/ /\ moves
              /\ Fails("JVShift")
              /\ ImmedShifted
              /\ WalkReturn(-1)
              /\ UNCHANGED <<pvalue, memory>>

\* An immediate that holds one key at most becomes a leaf of two.
Immed01ToLeaf ==
    /\ Here.type = "IMMED"
    /\ level > 1
    /\ Cardinality(Here.keys) = 1
    /\ IMMED_MAXPOP1[level] = 1
    /\ \/ /\ jp' = [jp EXCEPT ![Pjp] = LeafJP(level, Here.keys \cup {key})]
          /\ Charge(LeafWords[level][2], 0)
          /\ Placed
       \/ WalkFails("Leaf")

\* The largest immediate of a level above 1 becomes a leaf that holds the key too.
ImmedToLeaf ==
    LET n == Cardinality(Here.keys)
    IN  /\ Here.type = "IMMED"
        /\ level > 1
        /\ n > 1
        /\ n >= IMMED_MAXPOP1[level]
        /\ \/ /\ jp' = [jp EXCEPT ![Pjp] = LeafJP(level, Here.keys \cup {key})]
              /\ Charge(LeafWords[level][n + 1], ImmedWords(n))
              /\ Placed
           \/ WalkFails("Leaf")

(***************************************************************************)
(* The largest Immed_1 becomes a Leaf1 (JudyL) or a bitmap (Judy1) of the  *)
(* same keys, and the walk goes on there.  JudyL has set jpm_PValue by     *)
(* then, to a word outside the value area (a complemented offset).         *)
(***************************************************************************)
Immed1ToLeaf ==
    LET K == Here.keys
    IN  /\ Here.type = "IMMED"
        /\ level = 1
        /\ Cardinality(K) >= IMMED_MAXPOP1[1]
        /\ pvalue' = IF JUDYL THEN NoKey ELSE pvalue
        /\ UNCHANGED value
        /\ \/ /\ jp' = [jp EXCEPT ![Pjp] = IF JUDYL THEN LeafJP(1, K) ELSE LeafB1UJP(K)]
              /\ Charge(IF JUDYL THEN LeafWords[1][Cardinality(K)] ELSE JLB1UWords,
                        ImmedWords(Cardinality(K)))
              /\ Continue
              /\ UNCHANGED nfail
           \/ /\ Fails(IF JUDYL THEN "Leaf" ELSE "JLB1U")
              /\ WalkReturn(-1)
              /\ UNCHANGED <<jp, memory>>

(***************************************************************************)
(* The key is in the leaf although JudyLGet did not find it before (its    *)
(* octants are wrong): the frame returns 0.  A DEBUG build stops here.     *)
(***************************************************************************)
WalkPresent ==
    /\ key \in Here.keys
    /\ pvalue' = IF JUDYL THEN key ELSE pvalue
    /\ WalkReturn(0)
    /\ UNCHANGED <<jp, value, memory, nfail>>

\* The leaf does not have the key, or Here is a branch.
WalkAbsent ==
    /\ key \notin Here.keys
    /\ \/ WalkNull
       \/ BranchLToU \/ BranchLDescend \/ BranchLInsert \/ BranchLToB
       \/ BranchBToU \/ BranchBDescend \/ BranchBInsert
       \/ BranchUDescend
       \/ LeafInsert \/ LeafCascade \/ Leaf1ToB1U \/ LeafB1UInsert
       \/ Immed01Grow \/ ImmedGrow \/ Immed01ToLeaf \/ ImmedToLeaf \/ Immed1ToLeaf

Walk ==
    /\ pc = "walk"
    /\ WalkPresent \/ WalkAbsent
    /\ UNCHANGED <<root, pop0, reply>>

-----------------------------------------------------------------------------
(* The way back up *)

\* Faulty: goes on returning past the first frame.
WalkUpOn ==
    /\ pc = "up"
    /\ level' = level + 1
    /\ UNCHANGED <<tree, data, memory, pc, key, ret, reply, nfail>>

\* Faulty: no branch on the way up counts the key.
WalkUpUncounted ==
    /\ pc = "up"
    /\ level < RootLevel
    /\ ret' = 1
    /\ level' = level + 1
    /\ UNCHANGED <<tree, data, memory, pc, key, reply, nfail>>

(***************************************************************************)
(* The frame of this level has returned ret to the frame above.  If that   *)
(* is positive, a branch here has gained a key and counts it.  The frame   *)
(* above then runs into successreturn: it returns 1 even if ret was -1.    *)
(***************************************************************************)
WalkUp ==
    /\ pc = "up"
    /\ level < RootLevel
    /\ jp' = IF ret > 0 /\ Here.type \in Branch
             THEN [jp EXCEPT ![Pjp].pop = @ + 1] ELSE jp
    /\ ret' = IF ret = 0 THEN 0 ELSE 1
    /\ level' = level + 1
    /\ UNCHANGED <<root, pop0, data, memory, pc, key, reply, nfail>>

\* Faulty: jpm_Pop0 does not count the key.
InsDoneUncounted ==
    /\ pc = "up"
    /\ level = RootLevel
    /\ pc' = "idle"
    /\ key' = NoKey
    /\ ret' = 1
    /\ reply' = [op |-> "Ins", key |-> key, code |-> "new", at |-> key]
    /\ UNCHANGED <<tree, data, memory, level, nfail>>

\* JudyLIns hears from the first frame, counts the key and answers.
InsDone ==
    /\ pc = "up"
    /\ level = RootLevel
    /\ pc' = "idle"
    /\ key' = NoKey
    /\ ret' = 1
    /\ level' = RootLevel
    /\ \/ /\ ret = -1
          /\ reply' = [op |-> "Ins", key |-> key, code |-> "nomem"]
          /\ UNCHANGED tree
       \/ /\ ret = 0
          /\ reply' = [op |-> "Ins", key |-> key, code |-> "old",
                       at |-> IF JUDYL THEN pvalue ELSE key]
          /\ UNCHANGED tree
       \/ /\ ret = 1
          /\ pop0' = pop0 + 1
          /\ jp' = [jp EXCEPT ![Pjp].pop = @ + 1]
          /\ reply' = [op |-> "Ins", key |-> key, code |-> "new",
                       at |-> IF JUDYL THEN pvalue ELSE key]
          /\ UNCHANGED root
    /\ UNCHANGED <<data, memory, nfail>>

-----------------------------------------------------------------------------
(* Calls *)

(***************************************************************************)
(* Every call tells a LEAF8 from a JPM by the first word of the object:    *)
(* below cJU_LEAF8_MAXPOP1 it is the population of a LEAF8.  A JPM with    *)
(* such a jpm_Pop0 would be read as a leaf: no call is defined then.       *)
(***************************************************************************)
Readable == root = "JPM" => pop0 >= LEAF8_MAXPOP1

Callable == pc = "idle" /\ Readable

Answer(r) == reply' = r /\ UNCHANGED frame

NoMem(k) == Answer([op |-> "Ins", key |-> k, code |-> "nomem"])

Inserted(k) == Answer([op |-> "Ins", key |-> k, code |-> "new", at |-> k])

\* The test before the insertion, a call of JudyLGet, finds the key.
InsPresent(k) ==
    /\ Callable
    /\ JudyLGet(jp, k)
    /\ Answer([op |-> "Ins", key |-> k, code |-> "old", at |-> k])
    /\ UNCHANGED <<tree, data, memory, nfail>>

Pop8 == Cardinality(jp[RootSlot].keys)

\* JudyLMemUsed: the words of the leaf by its population, of a tree by its count.
MemUsed ==
    CASE root = "NULL" -> 0
      [] root = "LEAF8" -> LeafWords[RootLevel][Pop8]
      [] OTHER -> memWords

\* The first key of an array makes a LEAF8 of one key.
InsEmpty(k) ==
    /\ Callable
    /\ root = "NULL"
    /\ UNCHANGED <<pop0, pvalue, memWords>>
    /\ \/ /\ Fails("JLL8")
          /\ NoMem(k)
          /\ UNCHANGED <<root, jp, value, heapWords>>
       \/ /\ root' = "LEAF8"
          /\ jp' = [jp EXCEPT ![RootSlot] = LeafJP(RootLevel, {k})]
          /\ value' = [value EXCEPT ![k] = 0]
          /\ heapWords' = heapWords + LeafWords[RootLevel][1]
          /\ Inserted(k)
          /\ UNCHANGED nfail

InsLeaf8(k) ==
    LET old == LeafWords[RootLevel][Pop8]
        new == LeafWords[RootLevel][Pop8 + 1]
    IN  /\ Callable
        /\ root = "LEAF8"
        /\ ~JudyLGet(jp, k)
        /\ Pop8 < LEAF8_MAXPOP1
        /\ UNCHANGED <<root, pop0, pvalue, memWords>>
        /\ \/ /\ ~LeafGrowInPlace(RootLevel, Pop8)
              /\ Fails("JLL8")
              /\ NoMem(k)
              /\ UNCHANGED <<jp, value, heapWords>>
           \/ /\ jp' = [jp EXCEPT ![RootSlot].keys = @ \cup {k}]
              /\ value' = [value EXCEPT ![k] = 0]
              /\ heapWords' = IF LeafGrowInPlace(RootLevel, Pop8)
                              THEN heapWords ELSE heapWords + new - old
              /\ Inserted(k)
              /\ UNCHANGED nfail

StartWalk(k) ==
    /\ pc' = "walk"
    /\ key' = k
    /\ level' = RootLevel
    /\ UNCHANGED <<ret, reply>>

(***************************************************************************)
(* A full LEAF8 is splayed under a new JPM, and the key inserted there.    *)
(* When Cascade8 fails nobody frees the JPM; when it fails at the leaf of  *)
(* a digit, the leaves of the digits before it are not freed either.       *)
(***************************************************************************)
InsCascade8(k) ==
    LET digits == {j[RootLevel] : j \in jp[RootSlot].keys}
        splayed == SplayWords(jp, RootSlot)
    IN  /\ Callable
        /\ root = "LEAF8"
        /\ ~JudyLGet(jp, k)
        /\ Pop8 = LEAF8_MAXPOP1
        /\ UNCHANGED data
        /\ \/ /\ Fails("JPM")
              /\ NoMem(k)
              /\ UNCHANGED <<tree, memory>>
           \/ /\ Fails("Cascade8")
              /\ \E d \in digits \cup {0} :
                    heapWords' = heapWords + JPMWords
                        + PartWords(jp, RootSlot, {e \in digits : e < d})
              /\ NoMem(k)
              /\ UNCHANGED <<tree, memWords>>
           \/ /\ root' = "JPM"
              /\ pop0' = LEAF8_MAXPOP1 - 1
              /\ jp' = Splay(jp, RootSlot)
              /\ memWords' = JPMWords + splayed
              /\ heapWords' = heapWords + JPMWords + splayed - LeafWords[RootLevel][Pop8]
              /\ StartWalk(k)
              /\ UNCHANGED nfail

(***************************************************************************)
(* The bound of the model on the counters: a branch never sums up more     *)
(* keys than there are, unless insertions that turned out to be of keys    *)
(* already there have counted them again.                                  *)
(***************************************************************************)
SumsBounded == \A s \in Slots : \A g \in Digit : jp[s].sums[g] <= Cardinality(Index)

InsTree(k) ==
    /\ Callable
    /\ SumsBounded
    /\ root = "JPM"
    /\ ~JudyLGet(jp, k)
    /\ StartWalk(k)
    /\ UNCHANGED <<tree, data, memory, nfail>>

\* The caller writes through the pointer of its last insertion.
Store(v) ==
    /\ "Store" \in Calls
    /\ JUDYL
    /\ Callable
    /\ reply.op = "Ins" /\ reply.code \in {"new", "old"} /\ reply.at # NoKey
    /\ value' = [value EXCEPT ![reply.at] = v]
    /\ UNCHANGED <<tree, pvalue, memory, frame, reply, nfail>>

\* Faulty: ends the process without asking whether the key is there.
DelUntested(k) ==
    /\ "Del" \in Calls
    /\ Callable
    /\ pc' = "exited"
    /\ key' = k
    /\ UNCHANGED <<level, ret, reply>>
    /\ UNCHANGED <<tree, data, memory, nfail>>

\* Deletion is not written: a key its test finds ends the process.
Del(k) ==
    /\ "Del" \in Calls
    /\ Callable
    /\ \/ /\ ~j__udyLGet(jp, k)
          /\ Answer([op |-> "Del", key |-> k, code |-> "absent"])
       \/ /\ j__udyLGet(jp, k)
          /\ pc' = "exited"
          /\ key' = k
          /\ UNCHANGED <<level, ret, reply>>
    /\ UNCHANGED <<tree, data, memory, nfail>>

\* Faulty: the JPM itself is forgotten.
FreedTree == TreeWords(jp)

\* The words j__udyFreeSM and j__udyFreeJPM give back.
Freed == JPMWords + TreeWords(jp)

(***************************************************************************)
(* FreeArray frees what its walk reaches and compares the words with       *)
(* jpm_TotalMemWords (JERR, corrupt) and the keys with jpm_Pop0 (a         *)
(* complaint on stdout); the array is empty whatever they say.             *)
(***************************************************************************)
FreeArray ==
    /\ "Free" \in Calls
    /\ Callable
    /\ root' = "NULL"
    /\ jp' = EmptyTree
    /\ pop0' = 0
    /\ memWords' = 0
    /\ heapWords' = CASE root = "NULL" -> heapWords
                      [] root = "LEAF8" -> heapWords - Words(RootLevel, jp[RootSlot])
                      [] OTHER -> heapWords - Freed
    /\ Answer([op |-> "Free",
               code |-> IF root = "JPM" /\ memWords # Freed THEN "corrupt"
                        ELSE IF root = "JPM" /\ FreedPop1(jp) # pop0 + 1
                             THEN "miscounted" ELSE "ok"])
    /\ UNCHANGED <<data, nfail>>

Ins(k) == InsPresent(k) \/ InsEmpty(k) \/ InsLeaf8(k) \/ InsCascade8(k) \/ InsTree(k)

Next ==
    \/ \E k \in Index : Ins(k) \/ Del(k)
    \/ \E v \in Value : Store(v)
    \/ FreeArray
    \/ Walk
    \/ WalkUp
    \/ InsDone

Spec == Init /\ [][Next]_vars

\* A call that has begun runs: the library takes no lock and waits for nobody.
FairSpec == Spec /\ WF_vars(Walk) /\ WF_vars(WalkUp) /\ WF_vars(InsDone)

-----------------------------------------------------------------------------
(* Properties *)

Content == {k \in Index : Get(jp, k)}

\* The content as the caller knows it: a key counts once its call returns.
Committed == Content \ (IF pc \in {"walk", "up"} THEN {key} ELSE {})

Map == INSTANCE JudyMap WITH
    map <- [k \in Committed |-> value[k]],
    MayRunOut <- FailSites # {},
    MayLose <- FALSE

(***************************************************************************)
(* Whatever the calls did to the tree on the way (leaves grown, moved and  *)
(* splayed, branches converted), the caller sees a map: every key it put   *)
(* in is found with its own word, no other key is, and a pointer handed    *)
(* out addresses the word of the key asked for.  FreeArray never finds the *)
(* array corrupt or miscounted.                                            *)
(***************************************************************************)
MapSpec == Map!Spec

\* The levels whose branches have yet to count the key just placed.
Uncounted(s) == pc = "up" /\ ret = 1 /\ s[1] >= level /\ s = Slot(key, s[1])

(***************************************************************************)
(* The population every branch carries in its JP is the number of keys     *)
(* that Get finds under it, in the middle of an insertion too, once the    *)
(* increments still owed by the frames on the stack are added; likewise    *)
(* jpm_Pop0 for the array and jp_LeafPop1 (modulo its byte) for a bitmap.  *)
(***************************************************************************)
PopExact ==
    /\ \A s \in Reachable(jp) :
        /\ jp[s].type \in Branch =>
               jp[s].pop + 1 + (IF Uncounted(s) THEN 1 ELSE 0) = Cardinality(Below(jp, s))
        /\ jp[s].type = "LEAF_B1U" => JPPop1(jp[s]) = Cardinality(jp[s].keys)
    /\ root = "JPM" =>
           pop0 + 1 + (IF pc = "up" /\ ret = 1 THEN 1 ELSE 0) = Cardinality(Content)

\* The walk has passed this BranchU and bumped a sum for a key not in yet.
Announced(s) == pc = "walk" /\ s[1] > level /\ s = Slot(key, s[1])

(***************************************************************************)
(* The population caches, jbu_sums8 of a BranchU (Count adds it up) and    *)
(* the octants of a Leaf1 or Leaf2 (Get finds its place in the leaf by     *)
(* them), agree with the keys.                                             *)
(***************************************************************************)
SumsExact ==
    \A s \in Reachable(jp) :
        /\ jp[s].type = "BRANCH_U" =>
            \A g \in Digit :
                LET group(k) == k[s[1]] \div GROUP8 = g
                IN  jp[s].sums[g] = Cardinality({k \in Below(jp, s) : group(k)})
                        + (IF Announced(s) /\ group(key) THEN 1 ELSE 0)
        /\ jp[s].type = "LEAF" /\ s[1] <= 2 => jp[s].sums = Octants(s[1], jp[s].keys)

\* jpm_TotalMemWords is the size of the JPM and of all it points to.
MemExact ==
    memWords = IF root = "JPM" THEN JPMWords + TreeWords(jp) ELSE 0

\* Nothing is leaked: what malloc has handed out is what JudyLMemUsed tells.
HeapExact == heapWords = MemUsed

\* Between two calls the first word of the object tells a LEAF8 from a JPM.
RootReadable == pc = "idle" => Readable

(***************************************************************************)
(* Deletion is not implemented and ends the process, but for a key that is *)
(* not in the array there is nothing to delete and the call returns 0.     *)
(***************************************************************************)
AbsentSpared == pc = "exited" => Get(jp, key)

(***************************************************************************)
(* Every JP that is not NULL is reached by a walk, holds keys of its own   *)
(* expanse, and as many as its type allows; linear and bitmap branches     *)
(* have no JP for an empty expanse.                                        *)
(***************************************************************************)
WellFormed ==
    LET live == Reachable(jp)
    IN  \A s \in Slots :
            LET n == Cardinality(jp[s].keys)
                l == s[1]
            IN  /\ jp[s].type # "NULL" => s \in live
                /\ \A k \in jp[s].keys : Slot(k, l) = s
                /\ jp[s].type = "IMMED" => n \in 1..IMMED_MAXPOP1[l]
                /\ jp[s].type = "LEAF" => n \in 1..LEAF_MAXPOP1[l]
                /\ jp[s].type = "BRANCH_L" => Cardinality(jp[s].exp) \in 1..BRANCHLMAXJPS
                /\ \A d \in jp[s].exp : jp[Child(s, d)].type # "NULL"
                /\ jp[s].type = "FULLPOPU1" => n = Base

\* Kinds of steps: FreeArray, a failed "JVShift", and one that loses nothing.
Frees == reply'.op = "Free" /\ reply' # reply

ShiftFails ==
    /\ pc = "walk"
    /\ nfail' # nfail
    /\ Here.type = "IMMED"
    /\ Cardinality(Here.keys) \in 2..(IMMED_MAXPOP1[level] - 1)

Keeps == \A k \in Content : /\ Get(jp', k)
                            /\ jp' # jp => value'[k] = value[k]

(***************************************************************************)
(* No step of a call, and no failed call, loses a key that was found       *)
(* before it or changes its word; only FreeArray empties the array.        *)
(***************************************************************************)
KeysKept == [][Frees \/ Keeps]_vars

(***************************************************************************)
(* Of all the ways to run out of memory only one loses a key or a word:    *)
(* that of an immediate whose keys have made room for the new one before   *)
(* their value area is enlarged.  Every other step keeps what is there,    *)
(* after such a failure too.                                               *)
(***************************************************************************)
OthersKeep == [][Frees \/ ShiftFails \/ Keeps]_vars

(***************************************************************************)
(* A call that answers that the key is in has put it there: a failed       *)
(* allocation is reported.                                                 *)
(***************************************************************************)
InsertedIsFound ==
    pc = "idle" /\ reply.op = "Ins" /\ reply.code # "nomem" => Get(jp, reply.key)

\* A call that has started returns: no cycle of conversions within the walk.
CallReturns == pc \in {"walk", "up"} ~> pc = "idle"

=============================================================================
