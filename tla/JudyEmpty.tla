------------------------------ MODULE JudyEmpty ------------------------------
(***************************************************************************)
(* JudyLNextEmpty, JudyLPrevEmpty, JudyLFirstEmpty and JudyLLastEmpty (and *)
(* those of Judy1): the nearest key not in the array.  The search goes     *)
(* down to its key, steps over digits whose whole expanse is in the array, *)
(* and starts again from the root past an expanse that is full to its end. *)
(*                                                                         *)
(* Each case of the search ends in one of three ways: with an answer, in   *)
(* the JP one level down, or in a restart past the key it names.           *)
(***************************************************************************)
EXTENDS JudyCount

Found(k) == [to |-> "found", at |-> k]
Into(k) == [to |-> "into", at |-> k]
Restart(k) == [to |-> "restart", at |-> k]
Exit(k) == [to |-> "exit", at |-> k]

-----------------------------------------------------------------------------
(* Keys *)

\* SMRESTART: k with its last l digits at the end of their expanse.
Edge(up, k, l) == [m \in Level |-> IF m <= l THEN Limit(up)[m] ELSE k[m]]

\* CLEARLEASTDIGITS_D, SETLEASTDIGITS_D: the first key of k's branch with digit d.
WithDigit(up, k, l, d) ==
    [m \in Level |-> IF m = l THEN d ELSE IF m < l THEN Limit(~up)[m] ELSE k[m]]

-----------------------------------------------------------------------------
(* JPFULL *)

\* The keys of an expanse of l digits; cJU_POP0MASK(l) is one less.
Expanse[l \in 0..RootLevel] == IF l = 0 THEN 1 ELSE Base * Expanse[l - 1]

\* Faulty: pop0mask covers the digits below the branch only, not its own.
JPFullBranchMask(t, u) ==
    /\ t[u].type \in Branch
    /\ t[u].pop % Expanse[u[1] - 1] = Expanse[u[1] - 1] - 1

(***************************************************************************)
(* JPFULL_BRANCH and, for the JPs at level 1, JPFULL: whether the JP at u  *)
(* is taken for one whose expanse is full.  Judy1 has a type for it.       *)
(* JudyL looks at jp_LeafPop1 alone, in which 256 is 0; in an immediate of *)
(* one key that byte is the last digit of the key.                         *)
(***************************************************************************)
JPFullBranch(t, u) == t[u].type \in Branch /\ t[u].pop = Expanse[u[1]] - 1

JPFull(t, u) ==
    CASE u[1] > 1 -> JPFullBranch(t, u)
      [] u[1] = 1 /\ ~JUDYL -> t[u].type = "FULLPOPU1"
      [] u[1] = 1 /\ JUDYL /\ t[u].type = "LEAF_B1U" -> t[u].pop = 0
      [] u[1] = 1 /\ JUDYL /\ t[u].type = "IMMED" -> \E k \in t[u].keys : k[1] = 0
                                                        /\ t[u].keys = {k}
      [] OTHER -> FALSE

(***************************************************************************)
(* In a JudyL immediate of several keys the byte is what was there before: *)
(* the last digit of the first key inserted, or, in one that Cascade made, *)
(* whatever its staging array held.                                        *)
(***************************************************************************)
Unset(t) ==
    {u \in Slots : JUDYL /\ u[1] = 1 /\ t[u].type = "IMMED" /\ Cardinality(t[u].keys) > 1}

\* Every set of slots that a search may take for full.
Fulls(t) ==
    {{u \in Slots : u[1] < RootLevel /\ JPFull(t, u)} \cup U : U \in SUBSET Unset(t)}

-----------------------------------------------------------------------------
(* Branches: F is the set of slots taken for full *)

(***************************************************************************)
(* SET_AND_RETURN, SET_AND_CONTINUE, SMRESTART: past a full JP of a branch *)
(* with the digits D, the search comes to the digit in E, which has no JP  *)
(* or one not full, or there is none to the end of the expanse.            *)
(***************************************************************************)
PastFull(up, k, l, D, E) ==
    CASE E = {} -> Restart(Edge(up, k, l))
      [] E # {} /\ E \cap D = {} -> Found(WithDigit(up, k, l, Nearest(up, E)))
      [] OTHER -> Into(WithDigit(up, k, l, Nearest(up, E)))

\* The first digit beyond that of k where the search stops.
FirstStop(up, S, d) == LET E == Ahead(up, S, d) IN IF E = {} THEN {} ELSE {Nearest(up, E)}

(***************************************************************************)
(* SMBranchL.  Past a full JP the list of expanses is followed as long as  *)
(* its digits are consecutive and its JPs full.                            *)
(***************************************************************************)
EmptyInL(up, t, F, k, l) ==
    LET s == Slot(k, l)
        D == t[s].exp
        stops == {d \in Digit : d \in D => Child(s, d) \notin F}
    IN  CASE k[l] \notin D -> Found(k)
          [] k[l] \in D /\ Child(s, k[l]) \notin F -> Into(k)
          [] OTHER -> PastFull(up, k, l, D, FirstStop(up, stops, k[l]))

(***************************************************************************)
(* SMBranchB.  Past a full JP the bitmap is searched, first the rest of    *)
(* the subexpanse of the key's digit, then one subexpanse after another.   *)
(***************************************************************************)
EmptyInB(up, t, F, k, l) ==
    LET s == Slot(k, l)
        D == t[s].exp
        stops == {d \in Digit : d \in D => Child(s, d) \notin F}
    IN  CASE k[l] \notin D -> Found(k)
          [] k[l] \in D /\ Child(s, k[l]) \notin F -> Into(k)
          [] OTHER -> PastFull(up, k, l, D, NearestBit(up, stops, k[l], SUBEXP_B))

(***************************************************************************)
(* SMBranchU.  A digit is absent if its JP is NULL.                        *)
(***************************************************************************)
EmptyInU(up, t, F, k, l) ==
    LET s == Slot(k, l)
        D == {d \in Digit : t[Child(s, d)].type # "NULL"}
        stops == {d \in Digit : d \in D => Child(s, d) \notin F}
    IN  CASE k[l] \notin D -> Found(k)
          [] k[l] \in D /\ Child(s, k[l]) \notin F -> Into(k)
          [] OTHER -> PastFull(up, k, l, D, FirstStop(up, stops, k[l]))

-----------------------------------------------------------------------------
(* Leaves *)

\* Faulty: does not look whether the end of the expanse has been reached.
LeafEdgeUnchecked(up, e, l, w) == Found(Step(up, e))

(***************************************************************************)
(* LEAF_EDGE: the stored key e, of w digits (STORED), is compared with l   *)
(* digits of all ones (or zeroes); if they differ the answer is the key    *)
(* after e.                                                                *)
(***************************************************************************)
LeafEdge(up, e, l, w) ==
    IF \A m \in 1..w : e[m] = (IF m <= l THEN Limit(up)[m] ELSE 0)
    THEN Restart(Edge(up, e, l)) ELSE Found(Step(up, e))

\* The last of the consecutive keys of K from k on: the first after which one is missing.
RunEnd(up, K, k) ==
    NearestKey(up, {e \in K : ~Beyond(up, e, k) /\ (e = Limit(up) \/ Step(up, e) \notin K)})

\* LEAF_HOLE_EVEN: k itself if it is not in the leaf, or the first hole beyond it.
LeafHole(up, K, k) == IF k \notin K THEN Found(k) ELSE Found(Step(up, RunEnd(up, K, k)))

(***************************************************************************)
(* JSLE_EVEN: a key that is the last of the leaf in the direction of the   *)
(* search, and one from which the keys are dense up to the last, leave it  *)
(* to LEAF_EDGE to look past that key.                                     *)
(***************************************************************************)
JSLE(up, K, k, l, w) ==
    IF k \in K /\ {j \in K : Beyond(up, RunEnd(up, K, k), j)} = {}
    THEN LeafEdge(up, RunEnd(up, K, k), l, w) ELSE LeafHole(up, K, k)

\* The root level leaf.
EmptyInLeaf8(up, K, k) == JSLE(up, K, k, RootLevel, RootLevel)

\* cJU_JPLEAF*: keys of STORED[l] digits, in the expanse of level l.
EmptyInLeaf(up, K, k, l) == JSLE(up, K, k, l, STORED[l])

\* cJU_JPLEAF_B1U: the bitmap, one subexpanse after another.
EmptyInB1U(up, t, k) ==
    LET D == {j[1] : j \in t[Slot(k, 1)].keys}
        E == NearestBit(up, Digit \ D, k[1], SUBEXP_L)
    IN  CASE k[1] \notin D -> Found(k)
          [] k[1] \in D /\ E # {} -> Found([k EXCEPT ![1] = Nearest(up, E)])
          [] OTHER -> Restart(Edge(up, k, 1))

\* cJ1_JPFULLPOPU1: not implemented, the process ends.
EmptyInFullPop(k) == Exit(k)

\* cJU_JPIMMED_*_01: the one key, cut to its digits.
EmptyInImmed01(up, K, k, l) == IF k \notin K THEN Found(k) ELSE LeafEdge(up, k, l, l)

\* cJU_JPIMMED_*: two keys and more, in the JP.
EmptyInImmed(up, K, k, l) == JSLE(up, K, k, l, STORED[l])

-----------------------------------------------------------------------------
(* The search *)

\* SMGetContinue: the case of the JP of level l on the path of k.
EmptyAt(up, t, F, k, l) ==
    LET J == t[Slot(k, l)]
    IN  CASE J.type = "BRANCH_L" -> EmptyInL(up, t, F, k, l)
          [] J.type = "BRANCH_B" -> EmptyInB(up, t, F, k, l)
          [] J.type = "BRANCH_U" -> EmptyInU(up, t, F, k, l)
          [] J.type = "LEAF" -> EmptyInLeaf(up, J.keys, k, l)
          [] J.type = "LEAF_B1U" -> EmptyInB1U(up, t, k)
          [] J.type = "FULLPOPU1" -> EmptyInFullPop(k)
          [] J.type = "IMMED" /\ Cardinality(J.keys) = 1 -> EmptyInImmed01(up, J.keys, k, l)
          [] J.type = "IMMED" /\ Cardinality(J.keys) > 1 -> EmptyInImmed(up, J.keys, k, l)
          [] OTHER -> Exit(k)

\* The case the search has come to, at level c[2] with key c[1].
EmptyCase(up, t, F, c) ==
    IF t[RootSlot].type = "LEAF" THEN EmptyInLeaf8(up, t[RootSlot].keys, c[1])
    ELSE EmptyAt(up, t, F, c[1], c[2])

(***************************************************************************)
(* The key found in the end.  There is none if the search would go on past *)
(* the last key; one that ends the process gives Key, which is no answer.  *)
(***************************************************************************)
InTheEnd(o) ==
    CASE o.to = "found" -> {o.at}
      [] o.to = "restart" -> {}
      [] o.to = "exit" -> Key

\* SMGetRestart, with level c[2] of key c[1] to be looked at.
SearchEmpty(up, t, F, c) ==
    LET o(u) == EmptyCase(up, t, F, u)
        SM[u \in Key \X Level] ==
            IF o(u).to = "into" THEN SM[<<o(u).at, u[2] - 1>>]
            ELSE IF o(u).to = "restart" /\ o(u).at # Limit(up)
                 THEN SM[<<Step(up, o(u).at), RootLevel>>]
                 ELSE InTheEnd(o(u))
    IN  SM[c]

\* JudyLNextEmpty (up) and JudyLPrevEmpty: the key found, if there is one.
NeighbourEmpty(up, t, F, k) ==
    CASE k = Limit(up) -> {}
      [] k # Limit(up) /\ t[RootSlot].type = "NULL" -> {Step(up, k)}
      [] OTHER -> SearchEmpty(up, t, F, <<Step(up, k), RootLevel>>)

\* JudyLFirstEmpty (up) and JudyLLastEmpty.
FirstEmpty(up, t, F, k) == IF JudyLGet(t, k) THEN NeighbourEmpty(up, t, F, k) ELSE {k}

=============================================================================
