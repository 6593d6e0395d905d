---------------------------- MODULE JudySL_proofs ----------------------------
(***************************************************************************)
(* Theorems about JudySL, for strings and words of any length and any      *)
(* failures: JudySLIns carries a string down without ever meeting another  *)
(* one, its tree hangs together, no leaf is leaked, JudySLGet finds what   *)
(* the tree holds, all of it is a map (JudyMap), and, where no failure has *)
(* left a dead end, the ordered queries answer the nearest string.         *)
(***************************************************************************)
EXTENDS JudySL, JudyFacts

Chars == Nat \ {0}
Paths == {p \in Seq(Chars) : Len(p) % WORDSIZE = 0}
LeafSet == [rest : Seq(Chars), value : Value]

-----------------------------------------------------------------------------
(* The inductive invariant *)

\* Every node is reached, and is a leaf or an array that is not empty.
NodeInv ==
    /\ \A p \in DOMAIN leaf \cup DOMAIN array : p \in Paths /\ Linked(array, p)
    /\ DOMAIN leaf \cap DOMAIN array = {}
    /\ \A p \in DOMAIN array : DOMAIN array[p] # {}
    /\ \A p \in DOMAIN leaf : leaf[p] \in LeafSet

\* The walk is at a place that is reached, and has a string to go on with.
WalkInv ==
    /\ at \in Paths /\ Linked(array, at)
    /\ pc \in {"idle", "top", "word", "next", "exited"}
    /\ pc \in {"top", "word", "next"} => pos \in Seq(Chars)
    /\ pc \in {"word", "next"} => at \notin DOMAIN leaf

\* A leaf is carried to where nothing is, and its string is not the key.
CarryInv ==
    Pscl # NoLeaf =>
        /\ Pscl \in LeafSet
        /\ pc \in {"top", "word", "next"}
        /\ IsNull(at)
        /\ Pscl.rest # pos
        /\ pc = "next" => Word(Pscl.rest) = Word(pos)

IInv == NodeInv /\ WalkInv /\ CarryInv

-----------------------------------------------------------------------------
(* Words *)

LEMMA WordSizeNat == WORDSIZE \in Nat \ {0}
  BY StringAssumption

LEMMA WordAndRest ==
    ASSUME NEW s \in Seq(Chars)
    PROVE  /\ Word(s) \in Seq(Chars) /\ Rest(s) \in Seq(Chars)
           /\ LASTWORD_BY_VALUE(Word(s)) => Word(s) = s
           /\ ~LASTWORD_BY_VALUE(Word(s)) => Len(Word(s)) = WORDSIZE
           /\ ~LASTWORD_BY_VALUE(Word(s)) => s = Word(s) \o Rest(s)
  <1> USE WordSizeNat
  <1> DEFINE n == IF Len(s) < WORDSIZE THEN Len(s) ELSE WORDSIZE
  <1>1. /\ Len(s) \in Nat
        /\ \A i \in 1..Len(s) : s[i] \in Chars
    BY LenProperties, ElementOfSeq
  <1>2. Word(s) = SubSeq(s, 1, n) /\ n \in 0..Len(s)
    BY <1>1 DEF Word
  <1>3. Word(s) \in Seq(Chars) /\ Len(Word(s)) = n
    BY <1>1, <1>2, SubSeqProperties
  <1>4. Rest(s) \in Seq(Chars)
    BY <1>1, SubSeqProperties DEF Rest
  <1>5. ASSUME LASTWORD_BY_VALUE(Word(s))
        PROVE  Word(s) = s
    <2>1. n = Len(s)
      BY <1>1, <1>3, <1>5 DEF LASTWORD_BY_VALUE
    <2> QED
      BY <1>2, <2>1, SubSeqFull
  <1>6. ASSUME ~LASTWORD_BY_VALUE(Word(s))
        PROVE  Len(Word(s)) = WORDSIZE /\ s = Word(s) \o Rest(s)
    <2>1. n = WORDSIZE /\ WORDSIZE <= Len(s)
      BY <1>1, <1>3, <1>6 DEF LASTWORD_BY_VALUE
    <2>2. SubSeq(s, 1, WORDSIZE) \o SubSeq(s, WORDSIZE + 1, Len(s)) = SubSeq(s, 1, Len(s))
      <3>1. /\ 1 \in 1..(Len(s) + 1)
            /\ WORDSIZE \in (1 - 1)..Len(s)
            /\ Len(s) \in WORDSIZE..Len(s)
        BY <1>1, <2>1
      <3> QED
        BY <3>1, ConcatAdjacentSubSeq
    <2> QED
      BY <1>2, <1>3, <2>1, <2>2, SubSeqFull DEF Rest
  <1> QED
    BY <1>3, <1>4, <1>5, <1>6

-----------------------------------------------------------------------------
(* Paths and the way to them *)

LEMMA RootPath == <<>> \in Paths /\ \A a : Linked(a, <<>>)
  BY WordSizeNat, EmptySeq DEF Paths, Linked

\* A word more leads to the node below it.
LEMMA ChildLinked ==
    ASSUME NEW a, NEW p \in Paths, NEW w \in Seq(Chars), Len(w) = WORDSIZE,
           Linked(a, p), p \in DOMAIN a, w \in DOMAIN a[p]
    PROVE  p \o w \in Paths /\ Linked(a, p \o w)
  <1> USE WordSizeNat
  <1>1. p \in Seq(Chars) /\ Len(p) \in Nat /\ Len(p) % WORDSIZE = 0
    BY LenProperties DEF Paths
  <1>2. p \o w \in Seq(Chars) /\ Len(p \o w) = Len(p) + WORDSIZE
    BY <1>1, WordSizeNat, ChildParts
  <1>3. (Len(p) + WORDSIZE) % WORDSIZE = 0
    BY <1>1, NextBorder
  <1>4. ASSUME NEW m \in 0..(Len(p \o w) - WORDSIZE), m % WORDSIZE = 0
        PROVE  /\ SubSeq(p \o w, 1, m) \in DOMAIN a
               /\ SubSeq(p \o w, m + 1, m + WORDSIZE) \in DOMAIN a[SubSeq(p \o w, 1, m)]
    <2>1. CASE m = Len(p)
      <3>1. /\ SubSeq(p \o w, 1, Len(p)) = p
            /\ SubSeq(p \o w, Len(p) + 1, Len(p) + WORDSIZE) = w
        BY <1>1, WordSizeNat, ChildParts
      <3> QED
        BY <2>1, <3>1
    <2>2. CASE m # Len(p)
      <3>1. m \in Nat /\ m < Len(p)
        BY <1>1, <1>2, <2>2
      <3>2. m + WORDSIZE <= Len(p)
        BY <1>1, <1>4, <3>1, Borders
      <3>3. m \in 0..(Len(p) - WORDSIZE) /\ m \in 0..Len(p)
        BY <1>1, <3>1, <3>2
      <3>4. /\ SubSeq(p, 1, m) \in DOMAIN a
            /\ SubSeq(p, m + 1, m + WORDSIZE) \in DOMAIN a[SubSeq(p, 1, m)]
        BY <1>4, <3>3 DEF Linked
      <3>5. /\ SubSeq(p \o w, 1, m) = SubSeq(p, 1, m)
            /\ SubSeq(p \o w, m + 1, m + WORDSIZE) = SubSeq(p, m + 1, m + WORDSIZE)
        BY <1>1, <3>3, WordSizeNat, ChildParts
      <3> QED
        BY <3>4, <3>5
    <2> QED
      BY <2>1, <2>2
  <1> QED
    BY <1>2, <1>3, <1>4 DEF Paths, Linked

\* What is reached below a path is reached through the array there.
LEMMA ParentThere ==
    ASSUME NEW a, NEW p \in Paths, NEW w \in Seq(Chars), Len(w) = WORDSIZE,
           Linked(a, p \o w)
    PROVE  p \in DOMAIN a
  <1> USE WordSizeNat
  <1>1. p \in Seq(Chars) /\ Len(p) \in Nat /\ Len(p) % WORDSIZE = 0
    BY LenProperties DEF Paths
  <1>2. Len(p) \in 0..(Len(p \o w) - WORDSIZE) /\ SubSeq(p \o w, 1, Len(p)) = p
    BY <1>1, WordSizeNat, ChildParts
  <1> QED
    BY <1>1, <1>2 DEF Linked

\* Arrays with more in them lead everywhere that they did.
LEMMA LinkedMore ==
    ASSUME NEW a, NEW b, NEW p, Linked(a, p),
           \A q \in DOMAIN a : q \in DOMAIN b /\ DOMAIN a[q] \subseteq DOMAIN b[q]
    PROVE  Linked(b, p)
  BY DEF Linked

-----------------------------------------------------------------------------
(* Parts of the steps *)

\* The arrays b are those there are and more words at the path of the walk.
Grows(b) ==
    /\ DOMAIN b = DOMAIN array \cup {at}
    /\ \A q \in DOMAIN array : DOMAIN array[q] \subseteq DOMAIN b[q]
    /\ \A q \in DOMAIN b : DOMAIN b[q] # {}

\* JudyLIns of a word, and of a word with its value.
LEMMA InsertWordGrows ==
    ASSUME NodeInv, NEW w, NEW v
    PROVE  /\ Grows(InsertWord(w)) /\ w \in DOMAIN InsertWord(w)[at]
           /\ LET b == With(array, at, With(InsertWord(w)[at], w, v))
              IN  Grows(b) /\ w \in DOMAIN b[at]
  <1> DEFINE new == With(IF at \in DOMAIN array THEN array[at] ELSE <<>>, w, 0)
             y == IF w \in WordsAt(at) THEN array[at] ELSE new
             z == With(y, w, v)
  <1>1. InsertWord(w) = With(array, at, y)
    BY DEF InsertWord
  <1>2. w \in DOMAIN new /\ (at \in DOMAIN array => DOMAIN array[at] \subseteq DOMAIN new)
    BY DEF With
  <1>3. w \in DOMAIN y /\ (at \in DOMAIN array => DOMAIN array[at] \subseteq DOMAIN y)
    BY <1>2 DEF WordsAt
  <1>4. w \in DOMAIN z /\ DOMAIN y \subseteq DOMAIN z
    BY DEF With
  <1> HIDE DEF new, y, z
  <1>5. \A q \in DOMAIN array : DOMAIN array[q] # {}
    BY DEF NodeInv
  <1>6. ASSUME NEW x, w \in DOMAIN x, at \in DOMAIN array => DOMAIN array[at] \subseteq DOMAIN x
        PROVE  Grows(With(array, at, x)) /\ With(array, at, x)[at] = x
    BY <1>5, <1>6 DEF Grows, With
  <1>7. InsertWord(w)[at] = y
    BY <1>1 DEF With
  <1>8. Grows(InsertWord(w)) /\ w \in DOMAIN InsertWord(w)[at]
    BY <1>1, <1>3, <1>6
  <1>9. With(array, at, With(InsertWord(w)[at], w, v)) = With(array, at, z)
    BY <1>7 DEF z
  <1>10. Grows(With(array, at, z)) /\ w \in DOMAIN With(array, at, z)[at]
    BY <1>3, <1>4, <1>6
  <1> QED
    BY <1>8, <1>9, <1>10

\* Where a walk is, its array may grow.
LEMMA GrowsLinked ==
    ASSUME NodeInv, WalkInv, at \notin DOMAIN leaf, NEW b, Grows(b)
    PROVE  /\ \A p \in DOMAIN leaf \cup DOMAIN b : p \in Paths /\ Linked(b, p)
           /\ DOMAIN leaf \cap DOMAIN b = {}
           /\ \A q \in DOMAIN b : DOMAIN b[q] # {}
           /\ at \in DOMAIN b /\ Linked(b, at)
  <1>1. \A q \in DOMAIN array : q \in DOMAIN b /\ DOMAIN array[q] \subseteq DOMAIN b[q]
    BY DEF Grows
  <1>2. \A p : Linked(array, p) => Linked(b, p)
    BY <1>1, LinkedMore
  <1> QED
    BY <1>2 DEF NodeInv, WalkInv, Grows

\* A call that returns is at the root again and carries nothing.
LEMMA Answered ==
    ASSUME NEW r, Answer(r)
    PROVE  WalkInv' /\ CarryInv'
  BY RootPath DEF Answer, WalkInv, CarryInv

\* The value of a leaf or a cell alone changes nothing.
LEMMA SameNodes ==
    ASSUME NodeInv, UNCHANGED <<leaf, array>>
    PROVE  NodeInv'
  BY DEF NodeInv

-----------------------------------------------------------------------------
(* JudySLIns *)

LEMMA AppendSCLKeeps ==
    ASSUME IInv, AppendSCL
    PROVE  IInv'
  <1>1. WalkInv' /\ CarryInv'
    BY Answered DEF AppendSCL, Returns, Fails
  <1>2. CASE leaf' = With(leaf, at, [rest |-> pos, value |-> 0]) /\ array' = array
    <2>1. [rest |-> pos, value |-> 0] \in LeafSet
      BY StringAssumption DEF IInv, WalkInv, AppendSCL, LeafSet
    <2>2. at \notin DOMAIN array /\ at \in Paths /\ Linked(array, at)
      BY DEF IInv, WalkInv, AppendSCL, IsNull
    <2>3. /\ DOMAIN leaf' = DOMAIN leaf \cup {at}
          /\ \A p \in DOMAIN leaf' : leaf'[p] \in LeafSet
      BY <1>2, <2>1 DEF IInv, NodeInv, With
    <2> QED
      BY <1>1, <1>2, <2>2, <2>3 DEF IInv, NodeInv
  <1>3. CASE UNCHANGED <<leaf, array>>
    BY <1>1, <1>3, SameNodes DEF IInv
  <1> QED
    BY <1>2, <1>3 DEF AppendSCL, nodes

LEMMA TakeSCLKeeps ==
    ASSUME IInv, TakeSCL
    PROVE  IInv'
  <1>1. /\ leaf' = Restrict(leaf, DOMAIN leaf \ {at})
        /\ array' = array /\ Pscl' = leaf[at] /\ at' = at /\ pos' = pos /\ pc' = "word"
        /\ at \in DOMAIN leaf /\ leaf[at].rest # pos /\ pc = "top"
    BY DEF TakeSCL, Without
  <1>2. /\ DOMAIN leaf' = DOMAIN leaf \ {at}
        /\ \A p \in DOMAIN leaf' : leaf'[p] = leaf[p]
    BY <1>1 DEF Restrict
  <1>3. NodeInv'
    BY <1>1, <1>2 DEF IInv, NodeInv
  <1>4. WalkInv'
    BY <1>1, <1>2 DEF IInv, WalkInv
  <1>5. CarryInv'
    BY <1>1, <1>2 DEF IInv, NodeInv, CarryInv, IsNull
  <1> QED
    BY <1>3, <1>4, <1>5 DEF IInv

LEMMA PlugOldKeeps ==
    ASSUME IInv, PlugOld
    PROVE  IInv'
  <1> DEFINE w == Word(Pscl.rest)
             b == With(array, at, With(InsertWord(w)[at], w, Pscl.value))
  <1>1. /\ pc = "word" /\ Pscl # NoLeaf
        /\ Pscl' = NoLeaf /\ pc' = "next" /\ at' = at /\ pos' = pos
    BY DEF PlugOld, Plug
  <1>2. /\ Pscl \in LeafSet /\ Pscl.rest \in Seq(Chars) /\ IsNull(at)
        /\ at \notin DOMAIN leaf /\ at \notin DOMAIN array
    BY <1>1 DEF IInv, CarryInv, LeafSet, IsNull
  <1>3. WalkInv /\ NodeInv /\ at \in Paths /\ at \in Seq(Chars) /\ w \in Seq(Chars)
    BY <1>2, WordAndRest DEF IInv, WalkInv, Paths
  <1>4. CarryInv'
    BY <1>1 DEF CarryInv
  <1>5. CASE LASTWORD_BY_VALUE(w) /\ array' = b /\ leaf' = leaf
    <2>1. Grows(b)
      BY <1>3, InsertWordGrows
    <2>2. /\ \A p \in DOMAIN leaf \cup DOMAIN b : p \in Paths /\ Linked(b, p)
          /\ DOMAIN leaf \cap DOMAIN b = {}
          /\ \A q \in DOMAIN b : DOMAIN b[q] # {}
          /\ Linked(b, at)
      BY <1>2, <1>3, <2>1, GrowsLinked
    <2> HIDE DEF b
    <2>3. NodeInv'
      BY <1>3, <1>5, <2>2 DEF NodeInv
    <2>4. WalkInv'
      BY <1>1, <1>2, <1>3, <1>5, <2>2 DEF WalkInv
    <2> QED
      BY <1>4, <2>3, <2>4 DEF IInv
  <1>6. CASE /\ ~LASTWORD_BY_VALUE(w) /\ array' = InsertWord(w)
             /\ leaf' = With(leaf, at \o w, [rest |-> Rest(Pscl.rest), value |-> Pscl.value])
    <2>1. Grows(array') /\ w \in DOMAIN array'[at]
      BY <1>3, <1>6, InsertWordGrows
    <2>2. /\ \A p \in DOMAIN leaf \cup DOMAIN array' : p \in Paths /\ Linked(array', p)
          /\ DOMAIN leaf \cap DOMAIN array' = {}
          /\ \A q \in DOMAIN array' : DOMAIN array'[q] # {}
          /\ at \in DOMAIN array' /\ Linked(array', at)
      BY <1>2, <1>3, <2>1, GrowsLinked
    <2>3. Len(w) = WORDSIZE
      BY <1>2, <1>6, WordAndRest
    <2>4. at \o w \in Paths /\ Linked(array', at \o w)
      BY <1>3, <2>1, <2>2, <2>3, ChildLinked
    <2>5. at \o w \notin DOMAIN array'
      <3>1. at \o w # at
        BY <1>3, <2>3, WordSizeNat, ChildParts
      <3>2. ASSUME at \o w \in DOMAIN array
            PROVE  FALSE
        BY <1>2, <1>3, <2>3, <3>2, ParentThere DEF NodeInv
      <3> QED
        BY <2>1, <3>1, <3>2 DEF Grows
    <2>6. [rest |-> Rest(Pscl.rest), value |-> Pscl.value] \in LeafSet
      BY <1>2, WordAndRest DEF LeafSet
    <2>7. /\ DOMAIN leaf' = DOMAIN leaf \cup {at \o w}
          /\ \A p \in DOMAIN leaf' : leaf'[p] \in LeafSet
      BY <1>3, <1>6, <2>6 DEF NodeInv, With
    <2>8. NodeInv'
      BY <2>2, <2>4, <2>5, <2>7 DEF NodeInv
    <2>9. at \notin DOMAIN leaf'
      BY <1>2, <1>3, <2>3, <2>7, WordSizeNat, ChildParts
    <2>10. WalkInv'
      BY <1>1, <1>3, <2>2, <2>9 DEF WalkInv
    <2> QED
      BY <1>4, <2>8, <2>10 DEF IInv
  <1> QED
    BY <1>5, <1>6 DEF PlugOld, Plug

LEMMA PlugFailsKeeps ==
    ASSUME IInv, PlugFails
    PROVE  IInv'
  <1>1. WalkInv' /\ CarryInv'
    BY Answered DEF PlugFails, Fails
  <1>2. CASE array' = array
    BY <1>1, <1>2, SameNodes DEF PlugFails, IInv
  <1>3. CASE array' = InsertWord(Word(Pscl.rest))
    <2>1. leaf' = leaf /\ at \notin DOMAIN leaf
      BY DEF PlugFails, IInv, CarryInv, IsNull
    <2>2. Grows(array')
      BY <1>3, InsertWordGrows DEF IInv
    <2>3. NodeInv'
      <3>1. /\ \A p \in DOMAIN leaf \cup DOMAIN array' : p \in Paths /\ Linked(array', p)
            /\ DOMAIN leaf \cap DOMAIN array' = {}
            /\ \A q \in DOMAIN array' : DOMAIN array'[q] # {}
        BY <2>1, <2>2, GrowsLinked DEF IInv
      <3> QED
        BY <2>1, <3>1 DEF IInv, NodeInv
    <2> QED
      BY <1>1, <2>3 DEF IInv
  <1> QED
    BY <1>2, <1>3 DEF PlugFails

LEMMA RoundKeeps ==
    ASSUME IInv, FoundSCL \/ PassNode \/ SameWord
    PROVE  IInv'
  <1>1. NodeInv'
    BY SameNodes DEF IInv, FoundSCL, PassNode, SameWord, nodes
  <1>2. CASE FoundSCL
    BY <1>1, <1>2, Answered DEF IInv, FoundSCL, Returns
  <1>3. CASE PassNode
    BY <1>1, <1>3 DEF IInv, WalkInv, CarryInv, IsNull, PassNode, nodes
  <1>4. CASE SameWord
    BY <1>1, <1>4 DEF IInv, WalkInv, CarryInv, IsNull, SameWord, nodes
  <1> QED
    BY <1>2, <1>3, <1>4

\* A leaf carried past a word it shares with the key still parts from it below.
LEMMA InsWordKeeps ==
    ASSUME IInv, InsWord
    PROVE  IInv'
  <1> DEFINE w == Word(pos)
  <1>1. pc = "next" /\ leaf' = leaf /\ NodeInv /\ WalkInv
    BY DEF InsWord, InsWordTo, IInv
  <1>2. pos \in Seq(Chars) /\ w \in Seq(Chars) /\ at \in Paths /\ at \in Seq(Chars)
    BY <1>1, WordAndRest DEF WalkInv, Paths
  <1>3. CASE UNCHANGED array /\ Fails
    <2>1. NodeInv'
      BY <1>1, <1>3, SameNodes
    <2> QED
      BY <1>3, <2>1, Answered DEF IInv, Fails
  <1>4. CASE array' = InsertWord(w)
    <2>1. Grows(array') /\ w \in DOMAIN array'[at]
      BY <1>1, <1>4, InsertWordGrows
    <2>2. at \notin DOMAIN leaf
      BY <1>1 DEF WalkInv
    <2>3. /\ \A p \in DOMAIN leaf \cup DOMAIN array' : p \in Paths /\ Linked(array', p)
          /\ DOMAIN leaf \cap DOMAIN array' = {}
          /\ \A q \in DOMAIN array' : DOMAIN array'[q] # {}
          /\ at \in DOMAIN array' /\ Linked(array', at)
      BY <1>1, <2>1, <2>2, GrowsLinked
    <2>4. NodeInv'
      BY <1>1, <2>3 DEF NodeInv
    <2>5. CASE \E r : Answer(r)
      BY <2>4, <2>5, Answered DEF IInv
    <2>6. CASE /\ ~LASTWORD_BY_VALUE(w)
               /\ pc' = "top" /\ at' = at \o w /\ pos' = Rest(pos)
               /\ Pscl' = IF Pscl = NoLeaf THEN NoLeaf ELSE [Pscl EXCEPT !.rest = Rest(@)]
      <3>1. Len(w) = WORDSIZE /\ pos = w \o Rest(pos) /\ Rest(pos) \in Seq(Chars)
        BY <1>2, <2>6, WordAndRest
      <3>2. at \o w \in Paths /\ Linked(array', at \o w)
        BY <1>2, <2>1, <2>3, <3>1, ChildLinked
      <3>3. WalkInv'
        BY <2>6, <3>1, <3>2 DEF WalkInv
      <3>4. ASSUME Pscl # NoLeaf
            PROVE  CarryInv'
        <4>1. /\ Pscl \in LeafSet /\ Pscl.rest \in Seq(Chars) /\ Pscl.rest # pos
              /\ Word(Pscl.rest) = w /\ IsNull(at)
          BY <1>1, <3>4 DEF IInv, CarryInv, LeafSet
        <4>2. Pscl' = [Pscl EXCEPT !.rest = Rest(@)]
          BY <2>6, <3>4
        <4>3. Pscl.rest = w \o Rest(Pscl.rest) /\ Rest(Pscl.rest) \in Seq(Chars)
          BY <2>6, <4>1, WordAndRest
        <4>4. Pscl' \in LeafSet /\ Pscl'.rest = Rest(Pscl.rest)
          BY <4>1, <4>2, <4>3 DEF LeafSet
        <4>5. Rest(Pscl.rest) # Rest(pos)
          BY <3>1, <4>1, <4>3
        <4>6. at \o w # at
          BY <1>2, <3>1, WordSizeNat, ChildParts
        <4>7. at \o w \notin DOMAIN leaf /\ at \o w \notin DOMAIN array
          <5>1. at \notin DOMAIN array
            BY <4>1 DEF IsNull
          <5>2. ASSUME at \o w \in DOMAIN leaf \cup DOMAIN array
                PROVE  FALSE
            <6>1. Linked(array, at \o w)
              BY <1>1, <5>2 DEF NodeInv
            <6> QED
              BY <1>2, <3>1, <5>1, <6>1, ParentThere
          <5> QED
            BY <5>2
        <4>8. IsNull(at)'
          BY <1>1, <2>1, <2>6, <4>6, <4>7 DEF IsNull, Grows
        <4> QED
          BY <2>6, <4>4, <4>5, <4>8 DEF CarryInv
      <3>5. ASSUME Pscl = NoLeaf
            PROVE  CarryInv'
        BY <2>6, <3>5 DEF CarryInv
      <3> QED
        BY <2>4, <3>3, <3>4, <3>5 DEF IInv
    <2> QED
      BY <1>3, <1>4, <2>5, <2>6 DEF InsWord, InsWordTo, Returns, Fails
  <1> QED
    BY <1>3, <1>4 DEF InsWord, InsWordTo

-----------------------------------------------------------------------------
(* The other calls *)

LEMMA CallKeeps ==
    ASSUME IInv, NEW k \in Strings, Ins(k) \/ JudySLDel(k)
    PROVE  IInv'
  <1>1. CASE Ins(k)
    <2>1. NodeInv'
      BY <1>1, SameNodes DEF IInv, Ins, nodes
    <2>2. k \in Seq(Chars)
      BY StringAssumption DEF Chars
    <2>3. Pscl' = NoLeaf
      BY <1>1 DEF IInv, CarryInv, Ins
    <2>4. WalkInv' /\ CarryInv'
      BY <1>1, <2>2, <2>3, RootPath DEF Ins, WalkInv, CarryInv
    <2> QED
      BY <2>1, <2>4 DEF IInv
  <1>2. CASE JudySLDel(k)
    <2>1. CASE UNCHANGED nodes /\ \E r : Answer(r)
      BY <2>1, Answered, SameNodes DEF IInv, nodes
    <2>2. CASE leaf' = Without(leaf, <<>>) /\ array' = array /\ \E r : Answer(r)
      <3>1. DOMAIN leaf' = DOMAIN leaf \ {<<>>} /\ \A p \in DOMAIN leaf' : leaf'[p] = leaf[p]
        BY <2>2 DEF Without, Restrict
      <3>2. NodeInv'
        BY <2>2, <3>1 DEF IInv, NodeInv
      <3> QED
        BY <2>2, <3>2, Answered DEF IInv
    <2>3. CASE pc = "idle" /\ pc' = "exited" /\ UNCHANGED <<nodes, key, at, pos, Pscl>>
      <3>1. NodeInv'
        BY <2>3, SameNodes DEF IInv, nodes
      <3>2. Pscl' = NoLeaf
        BY <2>3 DEF IInv, CarryInv
      <3>3. WalkInv' /\ CarryInv'
        BY <2>3, <3>2 DEF IInv, WalkInv, CarryInv, nodes
      <3> QED
        BY <3>1, <3>3 DEF IInv
    <2> QED
      BY <1>2, <2>1, <2>2, <2>3 DEF JudySLDel, nodes
  <1> QED
    BY <1>1, <1>2

\* Writing a value moves no word and no string.
LEMMA StoreKeeps ==
    ASSUME IInv, NEW v \in Value, Store(v)
    PROVE  IInv'
  <1>1. /\ DOMAIN leaf' = DOMAIN leaf
        /\ \A p \in DOMAIN leaf :
              leaf'[p] = IF p \o leaf[p].rest = reply.at THEN [leaf[p] EXCEPT !.value = v]
                         ELSE leaf[p]
    BY DEF Store
  <1>2. /\ DOMAIN array' = DOMAIN array
        /\ \A p \in DOMAIN array : DOMAIN array'[p] = DOMAIN array[p]
    BY DEF Store
  <1>3. \A p \in DOMAIN leaf' : leaf'[p] \in LeafSet
    BY <1>1 DEF IInv, NodeInv, LeafSet
  <1>4. \A p : Linked(array, p) => Linked(array', p)
    BY <1>2, LinkedMore
  <1>5. NodeInv'
    BY <1>1, <1>2, <1>3, <1>4 DEF IInv, NodeInv
  <1>6. pc = "idle" /\ UNCHANGED <<pc, at, pos, Pscl>>
    BY DEF Store, frame
  <1>7. WalkInv'
    BY <1>4, <1>6 DEF IInv, WalkInv
  <1>8. CarryInv'
    BY <1>6 DEF IInv, CarryInv
  <1> QED
    BY <1>5, <1>7, <1>8 DEF IInv

LEMMA FreeKeeps ==
    ASSUME IInv, JudySLFreeArray
    PROVE  IInv'
  <1> DEFINE reached == {p \in DOMAIN leaf \cup DOMAIN array : Linked(array, p)}
  <1>1. DOMAIN leaf \ reached = {} /\ DOMAIN array \ reached = {}
    BY DEF IInv, NodeInv
  <1>2. DOMAIN leaf' = {} /\ DOMAIN array' = {}
    BY <1>1 DEF JudySLFreeArray, FreeAll, Restrict
  <1>3. NodeInv'
    BY <1>2 DEF NodeInv
  <1> QED
    BY <1>3, Answered DEF IInv, JudySLFreeArray, FreeAll

-----------------------------------------------------------------------------
(* The tree *)

LEMMA InitInv == Init => IInv
  BY RootPath DEF Init, IInv, NodeInv, WalkInv, CarryInv

LEMMA NextInv == IInv /\ [Next]_vars => IInv'
  <1> SUFFICES ASSUME IInv, [Next]_vars
               PROVE  IInv'
    OBVIOUS
  <1>1. CASE \E k \in Strings : Ins(k) \/ JudySLDel(k)
    BY <1>1, CallKeeps
  <1>2. CASE \E v \in Value : Store(v)
    BY <1>2, StoreKeeps
  <1>3. CASE Insertion
    BY <1>3, AppendSCLKeeps, TakeSCLKeeps, PlugOldKeeps, PlugFailsKeeps, RoundKeeps,
       InsWordKeeps DEF Insertion
  <1>4. CASE JudySLFreeArray
    BY <1>4, FreeKeeps
  <1>5. CASE UNCHANGED vars
    BY <1>5 DEF vars, nodes, frame, IInv, NodeInv, WalkInv, CarryInv, IsNull
  <1> QED
    BY <1>1, <1>2, <1>3, <1>4, <1>5 DEF Next

LEMMA Invariance == Spec => []IInv
  BY InitInv, NextInv, PTL DEF Spec

\* Two strings whose last words are the same are the same.
LEMMA InvApart == IInv => AssertsHold
  <1> SUFFICES ASSUME IInv, Pscl # NoLeaf
               PROVE  /\ pc = "top" => at \notin DOMAIN leaf
                      /\ pc = "word" /\ Word(Pscl.rest) # Word(pos) => IsNull(at)
                      /\ pc = "next" => ~LASTWORD_BY_VALUE(Word(pos))
    BY DEF AssertsHold
  <1>1. IsNull(at) /\ Pscl.rest # pos /\ Pscl.rest \in Seq(Chars) /\ pos \in Seq(Chars)
    BY DEF IInv, CarryInv, WalkInv, LeafSet
  <1>2. ASSUME pc = "next", LASTWORD_BY_VALUE(Word(pos))
        PROVE  FALSE
    <2>1. Word(Pscl.rest) = Word(pos)
      BY <1>2 DEF IInv, CarryInv
    <2> QED
      BY <1>1, <1>2, <2>1, WordAndRest
  <1> QED
    BY <1>1, <1>2 DEF IsNull

LEMMA InvWhole == IInv => WellFormed
  <1> SUFFICES ASSUME IInv, NEW p \in DOMAIN array
               PROVE  array[p] # <<>>
    BY DEF IInv, NodeInv, WellFormed
  <1> QED
    BY EmptySeq DEF IInv, NodeInv

(***************************************************************************)
(* The assertions of JudySLIns hold: while it carries a string down it     *)
(* meets no other one, and the two have parted by the end of the key,      *)
(* however the strings are cut into words and whatever fails.              *)
(***************************************************************************)
THEOREM CarriedApart == Spec => []AssertsHold
  BY Invariance, InvApart, PTL

(***************************************************************************)
(* What JudySLIns has left, failed or not, is one tree: FreeArray comes to *)
(* every array and every leaf of it.                                       *)
(***************************************************************************)
THEOREM TreeWhole == Spec => []WellFormed
  BY Invariance, InvWhole, PTL


-----------------------------------------------------------------------------
(* Where a string is *)

\* Leaves l and arrays a that make one tree, with words in the arrays.
Sound(l, a) ==
    /\ \A p \in DOMAIN l \cup DOMAIN a : p \in Paths /\ Linked(a, p)
    /\ DOMAIN l \cap DOMAIN a = {}
    /\ \A p \in DOMAIN l : l[p] \in LeafSet
    /\ \A p \in DOMAIN a : \A w \in DOMAIN a[p] : w \in Seq(Chars) /\ Len(w) <= WORDSIZE

\* String s is at path p, in a leaf or by its last word.
Holds(l, a, s, p) ==
    \/ p \in DOMAIN l /\ s = p \o l[p].rest
    \/ p \in DOMAIN a /\ \E w \in DOMAIN a[p] : LASTWORD_BY_VALUE(w) /\ s = p \o w

\* The paths of a string, and what is left of it there.
LEMMA PrefixIs ==
    ASSUME NEW s \in Seq(Chars), NEW p \in Prefixes(s)
    PROVE  /\ p \in Paths /\ p \in Seq(Chars)
           /\ Beyond(p, s) \in Seq(Chars) /\ s = p \o Beyond(p, s)
  <1> USE WordSizeNat
  <1>1. PICK i \in 0..(Len(s) \div WORDSIZE) : p = SubSeq(s, 1, i * WORDSIZE)
    BY DEF Prefixes
  <1> DEFINE m == i * WORDSIZE
  <1>2. Len(s) \in Nat /\ \A j \in 1..Len(s) : s[j] \in Chars
    BY LenProperties, ElementOfSeq
  <1>3. i \in Nat
    BY <1>2
  <1>4. m \in 0..Len(s) /\ m \in Nat /\ m % WORDSIZE = 0
    BY <1>2, <1>3, WordsWithin, WholeWords
  <1>5. p = SubSeq(s, 1, m)
    BY <1>1
  <1> HIDE DEF m
  <1>6. p \in Seq(Chars) /\ Len(p) = m
    BY <1>2, <1>4, <1>5, SubSeqProperties
  <1>7. Beyond(p, s) = SubSeq(s, m + 1, Len(s)) /\ Beyond(p, s) \in Seq(Chars)
    BY <1>2, <1>4, <1>6, SubSeqProperties DEF Beyond
  <1>8. p \in Paths
    BY <1>4, <1>6 DEF Paths
  <1>9. s = p \o Beyond(p, s)
    <2>1. CASE m = 0
      <3>1. p = <<>> /\ Beyond(p, s) = s
        BY <1>4, <1>5, <1>7, <2>1, SubSeqEmpty, SubSeqFull
      <3> QED
        BY <3>1, ConcatEmptySeq
    <2>2. CASE m # 0
      <3>1. 1 \in 1..(Len(s) + 1) /\ m \in (1 - 1)..Len(s) /\ Len(s) \in m..Len(s)
        BY <1>2, <1>4, <2>2
      <3>2. SubSeq(s, 1, m) \o SubSeq(s, m + 1, Len(s)) = SubSeq(s, 1, Len(s))
        BY <3>1, ConcatAdjacentSubSeq
      <3> QED
        BY <1>5, <1>7, <3>2, SubSeqFull
    <2> QED
      BY <2>1, <2>2
  <1> QED
    BY <1>6, <1>7, <1>8, <1>9

LEMMA PathIsPrefix ==
    ASSUME NEW p \in Paths, NEW r \in Seq(Chars)
    PROVE  p \in Prefixes(p \o r) /\ Beyond(p, p \o r) = r
  <1> USE WordSizeNat
  <1>1. /\ p \in Seq(Chars) /\ Len(p) \in Nat /\ Len(p) % WORDSIZE = 0 /\ Len(r) \in Nat
        /\ Len(p \o r) = Len(p) + Len(r)
        /\ SubSeq(p \o r, 1, Len(p)) = p
        /\ SubSeq(p \o r, Len(p) + 1, Len(p \o r)) = r
    BY LenProperties, PartsOfTwo DEF Paths
  <1>2. Len(p) <= Len(p \o r) /\ Len(p \o r) \in Nat
    BY <1>1
  <1>3. PICK i \in 0..(Len(p \o r) \div WORDSIZE) : Len(p) = i * WORDSIZE
    BY <1>1, <1>2, WordsUpTo
  <1> QED
    BY <1>1, <1>3 DEF Prefixes, Beyond

\* What a path that the walk comes to has below it, it has through its array.
LEMMA OneWay ==
    ASSUME NEW l, NEW a, Sound(l, a), NEW p \in Paths, Linked(a, p), NEW r \in Seq(Chars),
           NEW q, Holds(l, a, p \o r, q), q # p
    PROVE  p \in DOMAIN a /\ Word(r) \in DOMAIN a[p] /\ ~LASTWORD_BY_VALUE(Word(r))
  <1> USE WordSizeNat
  <1> DEFINE s == p \o r
  <1>1. /\ q \in Paths /\ Linked(a, q) /\ q \in Seq(Chars) /\ p \in Seq(Chars)
        /\ Len(p) \in Nat /\ Len(p) % WORDSIZE = 0 /\ Len(q) \in Nat /\ Len(q) % WORDSIZE = 0
    BY LenProperties DEF Sound, Holds, Paths
  <1>2. PICK t \in Seq(Chars) :
            /\ s = q \o t
            /\ q \notin DOMAIN l => Len(t) < WORDSIZE
    <2>1. CASE q \in DOMAIN l /\ s = q \o l[q].rest
      <3>1. l[q].rest \in Seq(Chars)
        BY <2>1 DEF Sound, LeafSet
      <3> QED
        BY <2>1, <3>1
    <2>2. ASSUME q \in DOMAIN a, NEW w \in DOMAIN a[q], LASTWORD_BY_VALUE(w), s = q \o w
          PROVE  \E t \in Seq(Chars) : s = q \o t /\ (q \notin DOMAIN l => Len(t) < WORDSIZE)
      BY <2>2 DEF Sound, LASTWORD_BY_VALUE
    <2> QED
      BY <2>1, <2>2 DEF Holds
  <1>3. /\ Len(r) \in Nat /\ Len(t) \in Nat
        /\ Len(s) = Len(p) + Len(r) /\ Len(s) = Len(q) + Len(t)
        /\ SubSeq(s, 1, Len(p)) = p /\ SubSeq(s, 1, Len(q)) = q
        /\ \A n \in 0..Len(r) : SubSeq(s, Len(p) + 1, Len(p) + n) = SubSeq(r, 1, n)
        /\ \A m \in Nat : \A n \in 0..Len(q) : SubSeq(s, m + 1, n) = SubSeq(q, m + 1, n)
        /\ \A m \in Nat : \A n \in 0..Len(p) : SubSeq(s, m + 1, n) = SubSeq(p, m + 1, n)
    <2>1. /\ Len(s) = Len(p) + Len(r) /\ SubSeq(s, 1, Len(p)) = p
          /\ \A n \in 0..Len(r) : SubSeq(s, Len(p) + 1, Len(p) + n) = SubSeq(r, 1, n)
          /\ \A m \in Nat : \A n \in 0..Len(p) : SubSeq(s, m + 1, n) = SubSeq(p, m + 1, n)
      <3>1. Len(p \o r) = Len(p) + Len(r) /\ SubSeq(p \o r, 1, Len(p)) = p
        BY <1>1, PartsOfTwo
      <3>3. \A n \in 0..Len(r) : SubSeq(p \o r, Len(p) + 1, Len(p) + n) = SubSeq(r, 1, n)
        <4> HIDE DEF s
        <4>1. p \in Seq(Chars)
          BY <1>1
        <4>2. ASSUME NEW n \in 0..Len(r)
              PROVE  SubSeq(p \o r, Len(p) + 1, Len(p) + n) = SubSeq(r, 1, n)
          BY <4>1, PartsOfTwo
        <4> QED
          BY <4>2
      <3>2. \A m \in Nat : \A n \in 0..Len(p) : SubSeq(p \o r, m + 1, n) = SubSeq(p, m + 1, n)
        BY <1>1, PartsOfTwo
      <3> QED
        BY <3>1, <3>2, <3>3
    <2> HIDE DEF s
    <2>2. /\ Len(s) = Len(q) + Len(t) /\ SubSeq(s, 1, Len(q)) = q
          /\ \A m \in Nat : \A n \in 0..Len(q) : SubSeq(s, m + 1, n) = SubSeq(q, m + 1, n)
      BY <1>1, <1>2, PartsOfTwo
    <2> QED
      BY <2>1, <2>2, LenProperties
  <1> HIDE DEF s
  <1>4. Len(p) # Len(q)
    BY <1>3
  <1>5. ASSUME Len(q) < Len(p)
        PROVE  FALSE
    <2>1. Len(q) + WORDSIZE <= Len(p)
      BY <1>1, <1>5, Borders
    <2>2. Len(q) \in 0..(Len(p) - WORDSIZE) /\ SubSeq(p, 1, Len(q)) = q
      <3>1. SubSeq(s, 0 + 1, Len(q)) = SubSeq(p, 0 + 1, Len(q))
        <4>1. 0 \in Nat /\ Len(q) \in 0..Len(p)
          BY <1>1, <1>5
        <4> QED
          BY <1>3, <4>1
      <3> QED
        BY <1>1, <1>3, <2>1, <3>1
    <2>3. q \in DOMAIN a
      BY <1>1, <2>2 DEF Linked
    <2>4. Len(t) < WORDSIZE
      BY <1>2, <2>3 DEF Sound
    <2> QED
      BY <1>1, <1>3, <2>1, <2>4
  <1>6. CASE Len(p) < Len(q)
    <2>1. Len(p) + WORDSIZE <= Len(q)
      BY <1>1, <1>6, Borders
    <2>2. WORDSIZE <= Len(r)
      BY <1>1, <1>3, <2>1
    <2>3. Len(p) \in 0..(Len(q) - WORDSIZE) /\ SubSeq(q, 1, Len(p)) = p
      <3>1. SubSeq(s, 0 + 1, Len(p)) = SubSeq(q, 0 + 1, Len(p))
        <4>1. 0 \in Nat /\ Len(p) \in 0..Len(q)
          BY <1>1, <1>6
        <4> QED
          BY <1>3, <4>1
      <3> QED
        BY <1>1, <1>3, <2>1, <3>1
    <2>4. SubSeq(q, Len(p) + 1, Len(p) + WORDSIZE) = SubSeq(r, 1, WORDSIZE)
      <3>1. Len(p) \in Nat /\ Len(p) + WORDSIZE \in 0..Len(q) /\ WORDSIZE \in 0..Len(r)
        BY <1>1, <1>3, <2>1, <2>2
      <3> QED
        BY <1>3, <3>1
    <2>5. Word(r) = SubSeq(r, 1, WORDSIZE)
      BY <1>3, <2>2 DEF Word
    <2>6. p \in DOMAIN a /\ SubSeq(q, Len(p) + 1, Len(p) + WORDSIZE) \in DOMAIN a[p]
      BY <1>1, <2>3 DEF Linked
    <2>7. ~LASTWORD_BY_VALUE(Word(r))
      <3>1. \A i \in 1..Len(r) : r[i] \in Chars
        BY ElementOfSeq, <1>3
      <3>2. Len(SubSeq(r, 1, WORDSIZE)) = WORDSIZE
        BY <1>3, <2>2, <3>1, SubSeqProperties
      <3> QED
        BY <2>5, <3>2 DEF LASTWORD_BY_VALUE
    <2> QED
      BY <2>4, <2>5, <2>6, <2>7
  <1> QED
    BY <1>1, <1>4, <1>5, <1>6

\* The last word is all that is left.
LEMMA LastWordIs ==
    ASSUME NEW w \in Seq(Chars), LASTWORD_BY_VALUE(w)
    PROVE  Word(w) = w
  <1>1. Len(w) \in Nat /\ Len(w) < WORDSIZE
    BY LenProperties DEF LASTWORD_BY_VALUE
  <1> QED
    BY <1>1, SubSeqFull DEF Word

\* A string is in one place.
LEMMA OnePlace ==
    ASSUME NEW l, NEW a, Sound(l, a), NEW s, NEW p, NEW q,
           Holds(l, a, s, p), Holds(l, a, s, q)
    PROVE  p = q
  <1> SUFFICES ASSUME q # p
               PROVE  FALSE
    OBVIOUS
  <1>1. p \in Paths /\ Linked(a, p)
    BY DEF Sound, Holds
  <1>2. CASE p \in DOMAIN l /\ s = p \o l[p].rest
    <2>1. l[p].rest \in Seq(Chars) /\ p \notin DOMAIN a
      BY <1>2 DEF Sound, LeafSet
    <2> QED
      BY <1>1, <1>2, <2>1, OneWay
  <1>3. ASSUME p \in DOMAIN a, NEW w \in DOMAIN a[p], LASTWORD_BY_VALUE(w), s = p \o w
        PROVE  FALSE
    <2>1. w \in Seq(Chars) /\ Word(w) = w
      BY <1>3, LastWordIs DEF Sound
    <2> QED
      BY <1>1, <1>3, <2>1, OneWay
  <1> QED
    BY <1>2, <1>3 DEF Holds

\* Where the next word of a string is missing, the string is.
LEMMA NotThere ==
    ASSUME NEW l, NEW a, Sound(l, a), NEW p \in Paths, Linked(a, p), p \notin DOMAIN l,
           NEW r \in Seq(Chars), p \in DOMAIN a => Word(r) \notin DOMAIN a[p],
           NEW q
    PROVE  ~Holds(l, a, p \o r, q)
  <1> SUFFICES ASSUME Holds(l, a, p \o r, q)
               PROVE  FALSE
    OBVIOUS
  <1>1. q = p
    BY OneWay
  <1>2. PICK w \in DOMAIN a[p] : p \in DOMAIN a /\ LASTWORD_BY_VALUE(w) /\ p \o r = p \o w
    BY <1>1 DEF Holds
  <1>3. w \in Seq(Chars) /\ Word(w) = w /\ p \in Seq(Chars)
    BY <1>2, LastWordIs DEF Sound, Paths
  <1>4. r = w
    BY <1>2, <1>3, ConcatSimplifications
  <1> QED
    BY <1>2, <1>3, <1>4

-----------------------------------------------------------------------------
(* The words of the leaves *)

LeafWords(l) == SumFunction([p \in DOMAIN l |-> SCLSIZE(l[p].rest)])

Leaves(l) == IsFiniteSet(DOMAIN l) /\ \A p \in DOMAIN l : l[p] \in LeafSet

LEMMA SizeNat ==
    ASSUME NEW s \in Seq(Chars)
    PROVE  SCLSIZE(s) \in Nat
  <1> DEFINE n == (Len(s) + 1) + WORDSIZE + WORDSIZE - 1
  <1>1. n \in Nat /\ WORDSIZE \in Nat \ {0}
    BY WordSizeNat, LenProperties
  <1> HIDE DEF n
  <1>2. n \div WORDSIZE \in Nat
    BY <1>1
  <1> QED
    BY <1>2 DEF SCLSIZE, n

LEMMA LeafWordsMore ==
    ASSUME NEW l, Leaves(l), NEW x, x \notin DOMAIN l, NEW r \in LeafSet
    PROVE  /\ Leaves(With(l, x, r)) /\ LeafWords(l) \in Int
           /\ LeafWords(With(l, x, r)) = LeafWords(l) + SCLSIZE(r.rest)
  <1> DEFINE m == With(l, x, r)
             f == [p \in DOMAIN l |-> SCLSIZE(l[p].rest)]
             g == [p \in DOMAIN m |-> SCLSIZE(m[p].rest)]
             S == DOMAIN l
  <1>1. DOMAIN m = S \cup {x} /\ m[x] = r /\ \A p \in S : m[p] = l[p]
    BY DEF With
  <1>2. IsFiniteSet(S) /\ IsFiniteSet(S \cup {x})
    BY FS_AddElement DEF Leaves
  <1>3. \A p \in DOMAIN m : m[p] \in LeafSet
    BY <1>1 DEF Leaves
  <1>4. Leaves(m)
    BY <1>1, <1>2, <1>3 DEF Leaves
  <1> HIDE DEF m
  <1>5. \A p \in S \cup {x} : g[p] \in Int /\ (p \in S => f[p] = g[p])
    BY <1>1, <1>3, SizeNat DEF LeafSet
  <1>6. g[x] = SCLSIZE(r.rest) /\ DOMAIN f = S /\ DOMAIN g = S \cup {x}
    BY <1>1
  <1> HIDE DEF f, g, S
  <1>7. x \notin S /\ \A p \in S : g[p] \in Int /\ f[p] = g[p]
    BY <1>5 DEF S
  <1>8. /\ SumFunctionOnSet(g, S) \in Int
        /\ SumFunctionOnSet(g, S \cup {x}) = g[x] + SumFunctionOnSet(g, S)
    BY <1>2, <1>5, <1>7, SumMore
  <1>9. SumFunctionOnSet(f, S) = SumFunctionOnSet(g, S)
    BY <1>2, <1>7, SumSame
  <1>10. g[x] \in Int
    BY <1>5
  <1>11. LeafWords(l) = SumFunctionOnSet(f, S)
    BY <1>6 DEF LeafWords, SumFunction, f
  <1>12. LeafWords(m) = SumFunctionOnSet(g, S \cup {x})
    BY <1>6 DEF LeafWords, SumFunction, g
  <1> QED
    BY <1>4, <1>6, <1>8, <1>9, <1>10, <1>11, <1>12 DEF m

\* Leaves of the same strings take as many words.
LEMMA LeafWordsSame ==
    ASSUME NEW l, NEW m, DOMAIN m = DOMAIN l, \A p \in DOMAIN l : m[p].rest = l[p].rest
    PROVE  LeafWords(m) = LeafWords(l)
  <1>1. [p \in DOMAIN m |-> SCLSIZE(m[p].rest)] = [p \in DOMAIN l |-> SCLSIZE(l[p].rest)]
    OBVIOUS
  <1> QED
    BY <1>1 DEF LeafWords

LEMMA LeafWordsLess ==
    ASSUME NEW l, Leaves(l), NEW x \in DOMAIN l
    PROVE  /\ Leaves(Without(l, x)) /\ LeafWords(Without(l, x)) \in Int
           /\ LeafWords(l) = LeafWords(Without(l, x)) + SCLSIZE(l[x].rest)
  <1> DEFINE m == Without(l, x)
  <1>1. DOMAIN m = DOMAIN l \ {x} /\ \A p \in DOMAIN m : m[p] = l[p]
    BY DEF Without, Restrict
  <1>2. Leaves(m)
    BY <1>1, FS_RemoveElement DEF Leaves
  <1>3. l[x] \in LeafSet /\ x \notin DOMAIN m
    BY <1>1 DEF Leaves
  <1> HIDE DEF m
  <1>4. /\ LeafWords(m) \in Int
        /\ LeafWords(With(m, x, l[x])) = LeafWords(m) + SCLSIZE(l[x].rest)
    BY <1>2, <1>3, LeafWordsMore
  <1>5. DOMAIN With(m, x, l[x]) = DOMAIN l /\ \A p \in DOMAIN l : With(m, x, l[x])[p] = l[p]
    BY <1>1 DEF With
  <1>6. LeafWords(With(m, x, l[x])) = LeafWords(l)
    BY <1>5, LeafWordsSame
  <1> QED
    BY <1>2, <1>4, <1>6 DEF m

LEMMA NoLeafWords ==
    ASSUME NEW l, DOMAIN l = {}
    PROVE  LeafWords(l) = 0 /\ Leaves(l)
  BY SumNone, FS_EmptySet DEF LeafWords, SumFunction, Leaves

LEMMA SumFinite ==
    ASSUME NEW l, Leaves(l)
    PROVE  LeafWords(l) \in Nat
  <1> DEFINE f == [p \in DOMAIN l |-> SCLSIZE(l[p].rest)]
  <1>1. \A p \in DOMAIN l : f[p] \in Nat
    BY SizeNat DEF Leaves, LeafSet
  <1>2. IsFiniteSet(DOMAIN f) /\ \A p \in DOMAIN f : f[p] \in Nat
    BY <1>1 DEF Leaves
  <1>3. LeafWords(l) = SumFunctionOnSet(f, DOMAIN f)
    BY DEF LeafWords, SumFunction
  <1> HIDE DEF f
  <1> QED
    BY <1>2, <1>3, SumType

\* A leaf at the root is the only place that a walk comes to.
LEMMA DeletedAtRoot ==
    ASSUME NEW k \in Strings, JudySLDelSub(k) = "done"
    PROVE  <<>> \in DOMAIN leaf /\ leaf[<<>>].rest = k
  <1> DEFINE found == {p \in Visited(k) :
                        IF p \in DOMAIN leaf THEN Beyond(p, k) = leaf[p].rest ELSE EndsAt(k, p)}
  <1>1. found # {} /\ <<>> \in DOMAIN leaf
    BY DEF JudySLDelSub
  <1>2. PICK p \in Visited(k) : IF p \in DOMAIN leaf THEN Beyond(p, k) = leaf[p].rest ELSE EndsAt(k, p)
    BY <1>1
  <1>3. k \in Seq(Chars)
    BY StringAssumption DEF Chars
  <1>4. <<>> \in Prefixes(p)
    <2>1. p \in Seq(Chars) /\ Len(p) \in Nat
      BY <1>2, <1>3, PrefixIs, LenProperties DEF Visited
    <2>2. SubSeq(p, 1, 0 * WORDSIZE) = <<>> /\ 0 \in 0..(Len(p) \div WORDSIZE)
      BY <2>1, WordSizeNat, SubSeqEmpty
    <2> QED
      BY <2>2 DEF Prefixes
  <1>5. p = <<>>
    BY <1>1, <1>2, <1>4 DEF Visited
  <1>6. Beyond(<<>>, k) = k
    BY <1>3, SubSeqFull, EmptySeq DEF Beyond
  <1> QED
    BY <1>1, <1>2, <1>5, <1>6

\* The words malloc'ed for leaves and not freed that are neither in the tree nor carried.
Lost == sclWords - LeafWords(leaf) - (IF Pscl # NoLeaf THEN scl2 ELSE 0)

\* Failures alone lose any.
HeapInv ==
    /\ IsFiniteSet(DOMAIN leaf)
    /\ sclWords \in Int /\ scl2 \in Nat /\ nfail \in 0..MaxFail
    /\ Lost >= 0
    /\ nfail = 0 => Lost = 0

\* A call that fails is not counted any more.
LEMMA HeapFails ==
    ASSUME IInv, HeapInv, Fails, UNCHANGED <<leaf, sclWords>>
    PROVE  HeapInv'
  <1>1. nfail' = nfail + 1 /\ nfail < MaxFail /\ scl2' = 0 /\ Pscl' = NoLeaf /\ nfail \in 0..MaxFail
    BY DEF Fails, Answer, HeapInv
  <1>2. nfail' \in 0..MaxFail /\ nfail' # 0
    BY <1>1, StringAssumption
  <1>3. Leaves(leaf)
    BY DEF HeapInv, Leaves, IInv, NodeInv
  <1>4. LeafWords(leaf) \in Nat /\ LeafWords(leaf)' = LeafWords(leaf)
    BY <1>3, SumFinite DEF LeafWords
  <1>5. Lost' >= 0
    BY <1>1, <1>4 DEF HeapInv, Lost
  <1> QED
    BY <1>1, <1>2, <1>5 DEF HeapInv

LEMMA HeapStep ==
    ASSUME IInv, HeapInv, Next
    PROVE  HeapInv'
  <1>1. Leaves(leaf) /\ NoLeaf \notin LeafSet /\ LeafWords(leaf) \in Nat
    BY StringAssumption, SumFinite DEF HeapInv, Leaves, IInv, NodeInv, LeafSet, Chars
  <1>2. ASSUME /\ IsFiniteSet(DOMAIN leaf') /\ sclWords' \in Int /\ scl2' \in Nat
               /\ nfail' = nfail
               /\ sclWords' - LeafWords(leaf') - (IF Pscl' # NoLeaf THEN scl2' ELSE 0)
                  = sclWords - LeafWords(leaf) - (IF Pscl # NoLeaf THEN scl2 ELSE 0)
        PROVE  HeapInv'
    BY <1>2 DEF HeapInv, Lost, LeafWords
  <1>3. ASSUME AppendSCL PROVE HeapInv'
    <2>1. pos \in Seq(Chars) /\ at \notin DOMAIN leaf /\ Pscl = NoLeaf
      BY <1>3 DEF IInv, WalkInv, AppendSCL, IsNull
    <2>2. CASE Fails /\ UNCHANGED nodes
      BY <2>2, HeapFails DEF nodes
    <2>3. CASE /\ leaf' = With(leaf, at, [rest |-> pos, value |-> 0])
               /\ sclWords' = sclWords + SCLSIZE(pos)
               /\ Returns("new", key)
      <3>1. [rest |-> pos, value |-> 0] \in LeafSet
        BY <2>1, StringAssumption DEF LeafSet
      <3>2. /\ Leaves(leaf') /\ LeafWords(leaf) \in Int
            /\ LeafWords(leaf') = LeafWords(leaf) + SCLSIZE(pos)
        <4> DEFINE r == [rest |-> pos, value |-> 0]
        <4>1. r.rest = pos
          OBVIOUS
        <4> HIDE DEF r
        <4>2. /\ Leaves(With(leaf, at, r)) /\ LeafWords(leaf) \in Nat
              /\ LeafWords(With(leaf, at, r)) = LeafWords(leaf) + SCLSIZE(r.rest)
          BY <1>1, <2>1, <3>1, LeafWordsMore DEF r
        <4> QED
          BY <2>3, <4>1, <4>2 DEF r
      <3>3. nfail' = nfail /\ scl2' = 0 /\ Pscl' = NoLeaf
        BY <2>3 DEF Returns, Answer
      <3>4. SCLSIZE(pos) \in Nat
        BY <2>1, SizeNat
      <3> QED
        BY <1>1, <1>2, <2>1, <2>3, <3>2, <3>3, <3>4 DEF HeapInv, Leaves
    <2> QED
      BY <1>3, <2>2, <2>3 DEF AppendSCL
  <1>4. ASSUME FoundSCL PROVE HeapInv'
    <2>1. Pscl = NoLeaf
      BY <1>4 DEF IInv, CarryInv, FoundSCL, IsNull
    <2>2. nfail' = nfail /\ scl2' = 0 /\ Pscl' = NoLeaf /\ leaf' = leaf /\ sclWords' = sclWords
      BY <1>4 DEF FoundSCL, Returns, Answer, nodes
    <2> QED
      BY <1>1, <1>2, <2>1, <2>2 DEF HeapInv
  <1>5. ASSUME TakeSCL PROVE HeapInv'
    <2>1. Pscl = NoLeaf /\ at \in DOMAIN leaf
      BY <1>5 DEF IInv, CarryInv, TakeSCL, IsNull
    <2>2. /\ nfail' = nfail /\ scl2' = SCLSIZE(leaf[at].rest) /\ Pscl' = leaf[at]
          /\ leaf' = Without(leaf, at) /\ sclWords' = sclWords
      BY <1>5 DEF TakeSCL
    <2>3. leaf[at] \in LeafSet /\ SCLSIZE(leaf[at].rest) \in Nat
      BY <1>1, <2>1, SizeNat DEF Leaves, LeafSet
    <2>4. Pscl' # NoLeaf
      BY <1>1, <2>2, <2>3
    <2>5. /\ Leaves(leaf') /\ LeafWords(leaf') \in Int
          /\ LeafWords(leaf) = LeafWords(leaf') + SCLSIZE(leaf[at].rest)
      BY <1>1, <2>1, <2>2, LeafWordsLess
    <2> QED
      BY <1>1, <1>2, <2>1, <2>2, <2>3, <2>4, <2>5 DEF HeapInv, Leaves
  <1>6. ASSUME PassNode \/ SameWord PROVE HeapInv'
    BY <1>1, <1>2, <1>6 DEF PassNode, SameWord, nodes, HeapInv
  <1>7. ASSUME PlugOld PROVE HeapInv'
    <2> DEFINE w == Word(Pscl.rest)
    <2>1. Pscl # NoLeaf /\ Pscl' = NoLeaf /\ nfail' = nfail /\ scl2' = scl2
      BY <1>7 DEF PlugOld, Plug
    <2>2. CASE sclWords' = sclWords - scl2 /\ leaf' = leaf
      <3>1. LeafWords(leaf) \in Nat
        BY <1>1, SumFinite
      <3> QED
        BY <1>1, <1>2, <2>1, <2>2, <3>1 DEF HeapInv
    <2>3. CASE /\ ~LASTWORD_BY_VALUE(w)
               /\ leaf' = With(leaf, at \o w, [rest |-> Rest(Pscl.rest), value |-> Pscl.value])
               /\ sclWords' = sclWords + SCLSIZE(Rest(Pscl.rest)) - scl2
      <3>1. /\ Pscl \in LeafSet /\ Pscl.rest \in Seq(Chars) /\ IsNull(at)
            /\ at \in Paths /\ at \in Seq(Chars)
        BY <2>1 DEF IInv, CarryInv, WalkInv, LeafSet, Paths
      <3>2. Rest(Pscl.rest) \in Seq(Chars) /\ w \in Seq(Chars) /\ Len(w) = WORDSIZE
        BY <2>3, <3>1, WordAndRest
      <3>3. at \o w \notin DOMAIN leaf
        BY <3>1, <3>2, ParentThere DEF IInv, NodeInv, IsNull
      <3> DEFINE r == [rest |-> Rest(Pscl.rest), value |-> Pscl.value]
      <3>4. r \in LeafSet /\ r.rest = Rest(Pscl.rest)
        BY <3>1, <3>2 DEF LeafSet
      <3>5. leaf' = With(leaf, at \o w, r)
        BY <2>3
      <3> HIDE DEF r
      <3>6. /\ Leaves(leaf') /\ LeafWords(leaf) \in Int
            /\ LeafWords(leaf') = LeafWords(leaf) + SCLSIZE(r.rest)
        BY <1>1, <3>3, <3>4, <3>5, LeafWordsMore
      <3>7. SCLSIZE(r.rest) \in Nat
        BY <3>2, <3>4, SizeNat
      <3> QED
        BY <1>1, <1>2, <2>1, <2>3, <3>4, <3>6, <3>7 DEF HeapInv, Leaves
    <2> QED
      BY <1>7, <2>2, <2>3 DEF PlugOld, Plug
  <1>8. ASSUME PlugFails PROVE HeapInv'
    BY <1>8, HeapFails DEF PlugFails
  <1>9. ASSUME InsWord PROVE HeapInv'
    <2> DEFINE w == Word(pos)
    <2>1. leaf' = leaf /\ sclWords' = sclWords /\ pc = "next"
      BY <1>9 DEF InsWord, InsWordTo
    <2>2. CASE Fails
      BY <2>1, <2>2, HeapFails
    <2>3. ASSUME LASTWORD_BY_VALUE(w), NEW c, Returns(c, at \o w)
          PROVE  HeapInv'
      <3>1. Pscl = NoLeaf
        BY <2>1, <2>3, InvApart DEF AssertsHold
      <3>2. nfail' = nfail /\ scl2' = 0 /\ Pscl' = NoLeaf
        BY <2>3 DEF Returns, Answer
      <3> QED
        BY <1>1, <1>2, <2>1, <3>1, <3>2 DEF HeapInv
    <2>4. CASE /\ ~LASTWORD_BY_VALUE(w)
               /\ Pscl' = IF Pscl = NoLeaf THEN NoLeaf ELSE [Pscl EXCEPT !.rest = Rest(@)]
               /\ UNCHANGED <<scl2, nfail>>
      <3>1. Pscl # NoLeaf => Pscl' # NoLeaf
        <4> SUFFICES ASSUME Pscl # NoLeaf
                     PROVE  Pscl' \in LeafSet
          BY <1>1
        <4>1. Pscl \in LeafSet /\ Pscl.rest \in Seq(Chars)
          BY DEF IInv, CarryInv, LeafSet
        <4>2. Rest(Pscl.rest) \in Seq(Chars)
          BY <4>1, WordAndRest
        <4> QED
          BY <2>4, <4>1, <4>2 DEF LeafSet
      <3> QED
        BY <1>1, <1>2, <2>1, <2>4, <3>1 DEF HeapInv
    <2> QED
      BY <1>9, <2>2, <2>3, <2>4 DEF InsWord, InsWordTo
  <1>10. ASSUME NEW k \in Strings, Ins(k) PROVE HeapInv'
    BY <1>1, <1>2, <1>10 DEF Ins, nodes, HeapInv
  <1>11. ASSUME NEW k \in Strings, JudySLDel(k) PROVE HeapInv'
    <2>1. pc = "idle" /\ Pscl = NoLeaf
      BY <1>11 DEF JudySLDel, IInv, CarryInv
    <2>2. ASSUME NEW r, Answer(r), UNCHANGED <<nodes, nfail>>
          PROVE  HeapInv'
      BY <1>1, <1>2, <2>1, <2>2 DEF Answer, nodes, HeapInv
    <2>3. CASE /\ JudySLDelSub(k) = "done"
               /\ leaf' = Without(leaf, <<>>)
               /\ sclWords' = sclWords - SCLSIZE(k)
               /\ Answer([op |-> "Del", key |-> k, code |-> "done"])
               /\ UNCHANGED nfail
      <3>1. <<>> \in DOMAIN leaf /\ leaf[<<>>].rest = k
        BY <2>3, DeletedAtRoot
      <3>2. SCLSIZE(k) \in Nat
        BY SizeNat, StringAssumption DEF Chars
      <3>3. /\ Leaves(leaf') /\ LeafWords(leaf') \in Int
            /\ LeafWords(leaf) = LeafWords(leaf') + SCLSIZE(k)
        BY <1>1, <2>3, <3>1, LeafWordsLess
      <3>4. nfail' = nfail /\ scl2' = 0 /\ Pscl' = NoLeaf
        BY <2>3 DEF Answer
      <3> QED
        BY <1>1, <1>2, <2>1, <2>3, <3>2, <3>3, <3>4 DEF HeapInv, Leaves
    <2>4. CASE UNCHANGED <<nodes, key, at, pos, Pscl, scl2, reply, nfail>>
      BY <1>1, <1>2, <2>4 DEF HeapInv, nodes
    <2> QED
      BY <1>11, <2>2, <2>3, <2>4 DEF JudySLDel
  <1>12. ASSUME NEW v \in Value, Store(v) PROVE HeapInv'
    <2>1. DOMAIN leaf' = DOMAIN leaf /\ \A p \in DOMAIN leaf : leaf'[p].rest = leaf[p].rest
      BY <1>1, <1>12 DEF Store, Leaves, LeafSet
    <2>2. LeafWords(leaf') = LeafWords(leaf)
      BY <2>1, LeafWordsSame
    <2> QED
      BY <1>1, <1>2, <1>12, <2>1, <2>2 DEF Store, frame, HeapInv
  <1>13. ASSUME JudySLFreeArray PROVE HeapInv'
    <2> DEFINE reached == {p \in DOMAIN leaf \cup DOMAIN array : Linked(array, p)}
               sizes == [p \in DOMAIN leaf \cap reached |-> SCLSIZE(leaf[p].rest)]
    <2>1. DOMAIN leaf \ reached = {} /\ DOMAIN leaf \cap reached = DOMAIN leaf
      BY DEF IInv, NodeInv
    <2>2. leaf' = Restrict(leaf, DOMAIN leaf \ reached)
          /\ sclWords' = sclWords - SumFunction(sizes)
      BY <1>13 DEF JudySLFreeArray, FreeAll
    <2>3. DOMAIN leaf' = {}
      BY <2>1, <2>2 DEF Restrict
    <2>4. sclWords' = sclWords - LeafWords(leaf)
      BY <2>1, <2>2 DEF LeafWords
    <2>5. LeafWords(leaf) \in Nat /\ LeafWords(leaf') = 0 /\ IsFiniteSet(DOMAIN leaf')
      BY <1>1, <2>3, SumFinite, NoLeafWords DEF Leaves
    <2>6. Pscl = NoLeaf /\ Pscl' = NoLeaf /\ scl2' = 0 /\ nfail' = nfail
      BY <1>13 DEF JudySLFreeArray, FreeAll, Answer, IInv, CarryInv
    <2> QED
      BY <1>1, <1>2, <2>4, <2>5, <2>6 DEF HeapInv
  <1> QED
    BY <1>3, <1>4, <1>5, <1>6, <1>7, <1>8, <1>9, <1>10, <1>11, <1>12, <1>13 DEF Next, Insertion

(***************************************************************************)
(* As long as no call ran out of memory, every word malloc'ed for a leaf   *)
(* is in the tree or in the leaf being carried, and the old leaf is freed  *)
(* with the size it was malloc'ed with, however often its string was cut.  *)
(***************************************************************************)
THEOREM LeavesTold == Spec => []HeapExact
  <1>1. Init => HeapInv
    <2> SUFFICES ASSUME Init
                 PROVE  HeapInv
      OBVIOUS
    <2>1. DOMAIN leaf = {} /\ Pscl = NoLeaf /\ sclWords = 0 /\ scl2 = 0 /\ nfail = 0
      BY DEF Init
    <2>2. LeafWords(leaf) = 0 /\ IsFiniteSet(DOMAIN leaf)
      BY <2>1, NoLeafWords, FS_EmptySet
    <2> QED
      BY <2>1, <2>2, StringAssumption DEF HeapInv, Lost
  <1>2. IInv /\ HeapInv /\ [Next]_vars => HeapInv'
    <2> SUFFICES ASSUME IInv, HeapInv, [Next]_vars
                 PROVE  HeapInv'
      OBVIOUS
    <2>1. CASE UNCHANGED vars
      BY <2>1 DEF vars, nodes, frame, HeapInv, Lost, LeafWords
    <2> QED
      BY <2>1, HeapStep
  <1>3. IInv /\ HeapInv => HeapExact
    <2> SUFFICES ASSUME IInv, HeapInv
                 PROVE  HeapExact
      OBVIOUS
    <2>1. LeafWords(leaf) \in Nat
      BY SumFinite DEF HeapInv, Leaves, IInv, NodeInv
    <2> QED
      BY <2>1 DEF HeapInv, Lost, HeapExact, LeafWords
  <1> QED
    BY <1>1, <1>2, <1>3, Invariance, PTL DEF Spec

-----------------------------------------------------------------------------
(* What the tree holds *)

\* The cell of string s has the value v.
Cell(l, a, s, v) ==
    \/ \E p \in DOMAIN l : s = p \o l[p].rest /\ v = l[p].value
    \/ \E p \in DOMAIN a : \E w \in DOMAIN a[p] :
          LASTWORD_BY_VALUE(w) /\ s = p \o w /\ v = a[p][w]

LEMMA CellHolds ==
    ASSUME NEW l, NEW a, NEW s
    PROVE  (\E v : Cell(l, a, s, v)) <=> (\E p : Holds(l, a, s, p))
  BY DEF Cell, Holds

LEMMA CellOne ==
    ASSUME NEW l, NEW a, Sound(l, a), NEW s, NEW v, NEW u, Cell(l, a, s, v), Cell(l, a, s, u)
    PROVE  u = v
  <1>1. ASSUME NEW p \in DOMAIN l, s = p \o l[p].rest, NEW q \in DOMAIN l, s = q \o l[q].rest
        PROVE  p = q
    BY <1>1, OnePlace DEF Holds
  <1>2. ASSUME NEW p \in DOMAIN l, s = p \o l[p].rest,
               NEW q \in DOMAIN a, NEW w \in DOMAIN a[q], LASTWORD_BY_VALUE(w), s = q \o w
        PROVE  FALSE
    <2>1. p = q
      BY <1>2, OnePlace DEF Holds
    <2> QED
      BY <1>2, <2>1 DEF Sound
  <1>3. ASSUME NEW p \in DOMAIN a, NEW x \in DOMAIN a[p], LASTWORD_BY_VALUE(x), s = p \o x,
               NEW q \in DOMAIN a, NEW w \in DOMAIN a[q], LASTWORD_BY_VALUE(w), s = q \o w
        PROVE  p = q /\ x = w
    <2>1. p = q
      BY <1>3, OnePlace DEF Holds
    <2>2. p \in Seq(Chars) /\ x \in Seq(Chars) /\ w \in Seq(Chars) /\ p \o x = p \o w
      BY <1>3, <2>1 DEF Sound, Paths
    <2> QED
      BY <2>1, <2>2, ConcatSimplifications
  <1>4. CASE \E p \in DOMAIN l : s = p \o l[p].rest /\ v = l[p].value
    <2>1. PICK p \in DOMAIN l : s = p \o l[p].rest /\ v = l[p].value
      BY <1>4
    <2>2. \E q \in DOMAIN l : s = q \o l[q].rest /\ u = l[q].value
      BY <1>2, <2>1 DEF Cell
    <2> QED
      BY <1>1, <2>1, <2>2
  <1>5. CASE \E p \in DOMAIN a : \E w \in DOMAIN a[p] :
                LASTWORD_BY_VALUE(w) /\ s = p \o w /\ v = a[p][w]
    <2>1. PICK p, x : /\ p \in DOMAIN a /\ x \in DOMAIN a[p]
                      /\ LASTWORD_BY_VALUE(x) /\ s = p \o x /\ v = a[p][x]
      BY <1>5
    <2>2. \E q \in DOMAIN a : \E w \in DOMAIN a[q] :
             LASTWORD_BY_VALUE(w) /\ s = q \o w /\ u = a[q][w]
      BY <1>2, <2>1 DEF Cell
    <2>3. PICK q, w : /\ q \in DOMAIN a /\ w \in DOMAIN a[q]
                      /\ LASTWORD_BY_VALUE(w) /\ s = q \o w /\ u = a[q][w]
      BY <2>2
    <2>4. p = q /\ x = w
      BY <1>3, <2>1, <2>3
    <2> QED
      BY <2>1, <2>3, <2>4
  <1> QED
    BY <1>4, <1>5 DEF Cell

LEMMA ContentIs ==
    ASSUME Sound(leaf, array)
    PROVE  /\ Content = [s \in DOMAIN Content |-> Content[s]]
           /\ \A s : s \in DOMAIN Content <=> \E v : Cell(leaf, array, s, v)
           /\ \A s, v : Cell(leaf, array, s, v) => Content[s] = v
  <1> DEFINE L == {p \o leaf[p].rest : p \in DOMAIN leaf}
             A == {c[1] \o c[2] : c \in LastWords}
  <1>1. /\ DOMAIN InLeaves = L
        /\ \A s \in L : InLeaves[s] = leaf[CHOOSE p \in DOMAIN leaf : p \o leaf[p].rest = s].value
    BY DEF InLeaves
  <1>2. \A s \in L : Cell(leaf, array, s, InLeaves[s])
    <2> SUFFICES ASSUME NEW s \in L
                 PROVE  Cell(leaf, array, s, InLeaves[s])
      OBVIOUS
    <2>1. \E p \in DOMAIN leaf : p \o leaf[p].rest = s
      OBVIOUS
    <2> DEFINE q == CHOOSE p \in DOMAIN leaf : p \o leaf[p].rest = s
    <2>2. q \in DOMAIN leaf /\ q \o leaf[q].rest = s
      BY <2>1
    <2>3. InLeaves[s] = leaf[q].value
      BY <1>1
    <2> HIDE DEF q
    <2> QED
      BY <2>2, <2>3 DEF Cell
  <1>3. \A c : c \in LastWords <=>
            \E p \in DOMAIN array : \E w \in DOMAIN array[p] : LASTWORD_BY_VALUE(w) /\ c = <<p, w>>
    BY DEF LastWords, WordsAt
  <1> DEFINE Of(s) == CHOOSE c \in LastWords : c[1] \o c[2] = s
  <1>4. \A s \in A : Cell(leaf, array, s, array[Of(s)[1]][Of(s)[2]])
    <2> SUFFICES ASSUME NEW s \in A
                 PROVE  Cell(leaf, array, s, array[Of(s)[1]][Of(s)[2]])
      OBVIOUS
    <2>1. \E c \in LastWords : c[1] \o c[2] = s
      OBVIOUS
    <2>2. Of(s) \in LastWords /\ Of(s)[1] \o Of(s)[2] = s
      BY <2>1
    <2> HIDE DEF Of
    <2>3. PICK p, w : /\ p \in DOMAIN array /\ w \in DOMAIN array[p]
                      /\ LASTWORD_BY_VALUE(w) /\ Of(s) = <<p, w>>
      BY <1>3, <2>2
    <2>4. Of(s)[1] = p /\ Of(s)[2] = w
      BY <2>3
    <2> QED
      BY <2>2, <2>3, <2>4 DEF Cell
  <1>5. Content = [s \in L \cup A |->
                     IF s \in L THEN InLeaves[s] ELSE array[Of(s)[1]][Of(s)[2]]]
    BY <1>1 DEF Content
  <1> HIDE DEF Of
  <1>6. \A s : s \in L \cup A <=> \E v : Cell(leaf, array, s, v)
    <2>1. \A s : s \in A <=> \E p \in DOMAIN array : \E w \in DOMAIN array[p] :
                                LASTWORD_BY_VALUE(w) /\ s = p \o w
      <3>1. ASSUME NEW s \in A
            PROVE  \E p \in DOMAIN array : \E w \in DOMAIN array[p] : LASTWORD_BY_VALUE(w) /\ s = p \o w
        <4>1. PICK c \in LastWords : s = c[1] \o c[2]
          OBVIOUS
        <4>2. PICK p, w : /\ p \in DOMAIN array /\ w \in DOMAIN array[p]
                          /\ LASTWORD_BY_VALUE(w) /\ c = <<p, w>>
          BY <1>3, <4>1
        <4>3. s = p \o w
          BY <4>1, <4>2
        <4> QED
          BY <4>2, <4>3
      <3>2. ASSUME NEW p \in DOMAIN array, NEW w \in DOMAIN array[p], LASTWORD_BY_VALUE(w)
            PROVE  p \o w \in A
        <4>1. <<p, w>> \in LastWords
          BY <1>3, <3>2
        <4>2. p \o w = <<p, w>>[1] \o <<p, w>>[2]
          OBVIOUS
        <4> QED
          BY <4>1, <4>2
      <3> HIDE DEF A
      <3> QED
        BY <3>1, <3>2
    <2>2. \A s : s \in L <=> \E p \in DOMAIN leaf : s = p \o leaf[p].rest
      OBVIOUS
    <2> HIDE DEF A, L
    <2> QED
      BY <2>1, <2>2 DEF Cell
  <1> HIDE DEF A, L
  <1>7. DOMAIN Content = L \cup A /\ \A s \in L \cup A : Cell(leaf, array, s, Content[s])
    BY <1>2, <1>4, <1>5
  <1>8. Content = [s \in DOMAIN Content |-> Content[s]]
    BY <1>5
  <1>9. ASSUME NEW s, NEW v, Cell(leaf, array, s, v)
        PROVE  Content[s] = v
    <2>1. s \in L \cup A
      BY <1>6, <1>9
    <2>2. Cell(leaf, array, s, Content[s])
      BY <1>7, <2>1
    <2> QED
      BY <1>9, <2>2, CellOne
  <1> QED
    BY <1>6, <1>7, <1>8, <1>9

-----------------------------------------------------------------------------
(* The map of a tree and of the string that is carried *)

\* The words of the arrays, the key of the call, and what was handed out last.
WordInv ==
    \A p \in DOMAIN array : \A w \in DOMAIN array[p] : w \in Seq(Chars) /\ Len(w) <= WORDSIZE

KeyInv == pc \in {"top", "word", "next"} => key \in Strings /\ key = at \o pos

ReplyInv == reply.op = "Ins" /\ reply.code \in {"new", "old"} => reply.at = reply.key

CallInv == WordInv /\ KeyInv /\ ReplyInv /\ nfail \in Nat

LEMMA TreeSound ==
    ASSUME IInv, WordInv
    PROVE  Sound(leaf, array)
  BY DEF IInv, NodeInv, WordInv, Sound

\* String s is kept with the value v.
Bound(s, v) ==
    \/ Cell(leaf, array, s, v)
    \/ Pscl # NoLeaf /\ s = at \o Pscl.rest /\ v = Pscl.value

\* Held is the map of what is bound.
HeldIs ==
    /\ Held = [s \in DOMAIN Held |-> Held[s]]
    /\ \A s : s \in DOMAIN Held <=> \E v : Bound(s, v)
    /\ \A s, v : Bound(s, v) => Held[s] = v

\* The string that is carried is nowhere in the tree.
LEMMA CarriedApartHolds ==
    ASSUME IInv, WordInv, Pscl # NoLeaf, NEW v
    PROVE  ~Cell(leaf, array, at \o Pscl.rest, v)
  <1>1. /\ Sound(leaf, array) /\ at \in Paths /\ Linked(array, at)
        /\ Pscl.rest \in Seq(Chars) /\ at \notin DOMAIN leaf /\ at \notin DOMAIN array
    BY TreeSound DEF IInv, WalkInv, CarryInv, LeafSet, IsNull
  <1>2. \A q : ~Holds(leaf, array, at \o Pscl.rest, q)
    BY <1>1, NotThere
  <1> QED
    BY <1>2, CellHolds

LEMMA HeldIsBound ==
    ASSUME IInv, WordInv
    PROVE  HeldIs
  <1>1. /\ Content = [s \in DOMAIN Content |-> Content[s]]
        /\ \A s : s \in DOMAIN Content <=> \E v : Cell(leaf, array, s, v)
        /\ \A s, v : Cell(leaf, array, s, v) => Content[s] = v
    BY TreeSound, ContentIs
  <1>2. CASE Pscl = NoLeaf
    BY <1>1, <1>2 DEF HeldIs, Held, Bound
  <1>3. CASE Pscl # NoLeaf
    <2> DEFINE k == at \o Pscl.rest
               D == DOMAIN Content
    <2>1. Held = [s \in D \cup {k} |-> IF s = k THEN Pscl.value ELSE Content[s]]
      BY <1>3 DEF Held, With
    <2>2. \A v : ~Cell(leaf, array, k, v)
      BY <1>3, CarriedApartHolds
    <2>3. \A s, v : Bound(s, v) <=> Cell(leaf, array, s, v) \/ (s = k /\ v = Pscl.value)
      BY <1>3 DEF Bound
    <2> HIDE DEF k
    <2>4. \A s : s \in D <=> \E v : Cell(leaf, array, s, v)
      BY <1>1
    <2> HIDE DEF D
    <2>5. DOMAIN Held = D \cup {k} /\ Held = [s \in DOMAIN Held |-> Held[s]]
      BY <2>1
    <2>6. \A s : s \in DOMAIN Held <=> \E v : Bound(s, v)
      BY <2>3, <2>4, <2>5
    <2>7. \A s, v : Bound(s, v) => Held[s] = v
      BY <1>1, <2>1, <2>2, <2>3, <2>4
    <2> QED
      BY <2>5, <2>6, <2>7 DEF HeldIs
  <1> QED
    BY <1>2, <1>3

-----------------------------------------------------------------------------
(* Get, and where a deletion comes to *)

\* The walk down a string comes to where it is, and finds it there.
LEMMA VisitedHolds ==
    ASSUME Sound(leaf, array), NEW s \in Seq(Chars), NEW p
    PROVE  (/\ p \in Visited(s)
            /\ IF p \in DOMAIN leaf THEN Beyond(p, s) = leaf[p].rest ELSE EndsAt(s, p))
           <=> Holds(leaf, array, s, p)
  <1> DEFINE t == Beyond(p, s)
             w == Word(t)
  <1>1. ASSUME p \in Visited(s), IF p \in DOMAIN leaf THEN t = leaf[p].rest ELSE EndsAt(s, p)
        PROVE  Holds(leaf, array, s, p)
    <2>1. t \in Seq(Chars) /\ s = p \o t
      BY <1>1, PrefixIs DEF Visited
    <2>2. CASE p \in DOMAIN leaf
      BY <1>1, <2>1, <2>2 DEF Holds
    <2>3. CASE p \notin DOMAIN leaf
      <3>1. LASTWORD_BY_VALUE(w) /\ w \in WordsAt(p)
        BY <1>1, <2>3 DEF EndsAt
      <3>2. w = t /\ p \in DOMAIN array /\ w \in DOMAIN array[p]
        BY <2>1, <3>1, WordAndRest DEF WordsAt
      <3> QED
        BY <2>1, <3>1, <3>2 DEF Holds
    <2> QED
      BY <2>2, <2>3
  <1>2. ASSUME Holds(leaf, array, s, p)
        PROVE  p \in Visited(s) /\ IF p \in DOMAIN leaf THEN t = leaf[p].rest ELSE EndsAt(s, p)
    <2>1. p \in Paths /\ p \in Seq(Chars) /\ Linked(array, p)
      BY <1>2 DEF Sound, Holds, Paths
    <2>2. PICK r \in Seq(Chars) :
              /\ s = p \o r
              /\ p \in DOMAIN leaf => r = leaf[p].rest
              /\ p \notin DOMAIN leaf => p \in DOMAIN array /\ r \in DOMAIN array[p] /\ LASTWORD_BY_VALUE(r)
      BY <1>2 DEF Holds, Sound, LeafSet
    <2>3. p \in Prefixes(s) /\ t = r
      BY <2>1, <2>2, PathIsPrefix
    <2>4. ASSUME NEW q \in Prefixes(p), q \in DOMAIN leaf, q # p
          PROVE  FALSE
      <3> DEFINE b == Beyond(q, p)
      <3>1. q \in Seq(Chars) /\ b \in Seq(Chars) /\ p = q \o b
        BY <2>1, <2>4, PrefixIs
      <3> HIDE DEF b
      <3>2. s = q \o (b \o r) /\ b \o r \in Seq(Chars)
        BY <2>2, <3>1, ConcatAssociative, ConcatProperties
      <3>3. q \in Paths /\ Linked(array, q) /\ q \notin DOMAIN array
        BY <2>4 DEF Sound
      <3> QED
        BY <1>2, <2>4, <3>2, <3>3, OneWay
    <2>5. p \in Visited(s)
      BY <2>1, <2>3, <2>4 DEF Visited
    <2>6. p \notin DOMAIN leaf => EndsAt(s, p)
      BY <2>2, <2>3, LastWordIs DEF EndsAt, WordsAt
    <2> QED
      BY <2>2, <2>3, <2>5, <2>6
  <1> QED
    BY <1>1, <1>2

LEMMA GetIs ==
    ASSUME Sound(leaf, array), NEW s \in Seq(Chars)
    PROVE  JudySLGet(s) = {s} \cap DOMAIN Content
  <1> DEFINE Found(p) == IF p \in DOMAIN leaf THEN Beyond(p, s) = leaf[p].rest ELSE EndsAt(s, p)
             C(p) == IF p \in DOMAIN leaf THEN PPSCLVALUE_EQ(Beyond(p, s), p)
                     ELSE IF EndsAt(s, p) THEN {p \o Word(Beyond(p, s))} ELSE {}
  <1>1. \A p : p \in Visited(s) /\ Found(p) <=> Holds(leaf, array, s, p)
    BY VisitedHolds
  <1>2. ASSUME NEW p \in Visited(s)
        PROVE  C(p) = IF Found(p) THEN {s} ELSE {}
    <2>1. Beyond(p, s) \in Seq(Chars) /\ s = p \o Beyond(p, s)
      BY PrefixIs DEF Visited
    <2>2. LASTWORD_BY_VALUE(Word(Beyond(p, s))) => Word(Beyond(p, s)) = Beyond(p, s)
      BY <2>1, WordAndRest
    <2> QED
      BY <2>1, <2>2 DEF PPSCLVALUE_EQ, SclIf, EndsAt
  <1>3. JudySLGet(s) = UNION {C(p) : p \in Visited(s)}
    BY DEF JudySLGet
  <1>4. s \in DOMAIN Content <=> \E p : Holds(leaf, array, s, p)
    BY ContentIs, CellHolds
  <1> HIDE DEF C, Found
  <1> QED
    BY <1>1, <1>2, <1>3, <1>4

LEMMA DelSubIs ==
    ASSUME Sound(leaf, array), NEW s \in Seq(Chars)
    PROVE  JudySLDelSub(s) = "absent" <=> s \notin DOMAIN Content
  <1> DEFINE Found(p) == IF p \in DOMAIN leaf THEN Beyond(p, s) = leaf[p].rest ELSE EndsAt(s, p)
  <1>1. \A p : p \in Visited(s) /\ Found(p) <=> Holds(leaf, array, s, p)
    BY VisitedHolds
  <1>2. s \in DOMAIN Content <=> \E p : Holds(leaf, array, s, p)
    BY ContentIs, CellHolds
  <1>3. JudySLDelSub(s) = IF {p \in Visited(s) : Found(p)} = {} THEN "absent"
                          ELSE IF <<>> \in DOMAIN leaf THEN "done" ELSE "exits"
    BY DEF JudySLDelSub
  <1> HIDE DEF Found
  <1> QED
    BY <1>1, <1>2, <1>3

-----------------------------------------------------------------------------
(* Cells that are added and taken *)

\* Arrays b are those there are with the word w, above v if it is new.
Puts(b, w, v) ==
    /\ DOMAIN b = DOMAIN array \cup {at}
    /\ \A q \in DOMAIN b : \A x : x \in DOMAIN b[q] <=> x \in WordsAt(q) \/ (q = at /\ x = w)
    /\ \A q \in DOMAIN b : \A x \in WordsAt(q) : b[q][x] = array[q][x]
    /\ w \notin WordsAt(at) => b[at][w] = v

LEMMA InsertWordPuts ==
    ASSUME NEW w
    PROVE  Puts(InsertWord(w), w, 0)
  <1> DEFINE old == IF at \in DOMAIN array THEN array[at] ELSE <<>>
             y == IF w \in WordsAt(at) THEN array[at] ELSE With(old, w, 0)
  <1>1. InsertWord(w) = With(array, at, y)
    BY DEF InsertWord
  <1>2. DOMAIN old = WordsAt(at) /\ \A x \in WordsAt(at) : old[x] = array[at][x]
    BY EmptySeq DEF WordsAt
  <1>3. \A x : x \in DOMAIN y <=> x \in WordsAt(at) \/ x = w
    BY <1>2 DEF With, WordsAt
  <1>4. /\ \A x \in WordsAt(at) : y[x] = array[at][x]
        /\ w \notin WordsAt(at) => y[w] = 0
    BY <1>2 DEF With, WordsAt
  <1> HIDE DEF y
  <1>5. /\ DOMAIN With(array, at, y) = DOMAIN array \cup {at}
        /\ With(array, at, y)[at] = y
        /\ \A q \in DOMAIN array : q # at => With(array, at, y)[q] = array[q]
    BY DEF With
  <1> QED
    BY <1>1, <1>3, <1>4, <1>5 DEF Puts, WordsAt

LEMMA PlugPuts ==
    ASSUME NEW w, NEW v, IsNull(at)
    PROVE  Puts(With(array, at, With(InsertWord(w)[at], w, v)), w, v)
  <1> DEFINE b == InsertWord(w)
             y == With(b[at], w, v)
  <1>1. WordsAt(at) = {}
    BY DEF IsNull, WordsAt
  <1>2. Puts(b, w, 0)
    BY InsertWordPuts
  <1>3. \A x : x \in DOMAIN b[at] <=> x = w
    BY <1>1, <1>2 DEF Puts
  <1> HIDE DEF b
  <1>4. y[w] = v /\ \A x : x \in DOMAIN y <=> x = w
    BY <1>3 DEF With
  <1> HIDE DEF y
  <1>5. /\ DOMAIN With(array, at, y) = DOMAIN array \cup {at}
        /\ With(array, at, y)[at] = y
        /\ \A q \in DOMAIN array : q # at => With(array, at, y)[q] = array[q]
    BY DEF With
  <1>6. Puts(With(array, at, y), w, v)
    BY <1>1, <1>4, <1>5 DEF Puts, WordsAt
  <1> QED
    BY <1>6 DEF b, y

LEMMA PutsCells ==
    ASSUME NEW l, NEW b, NEW w, NEW v, Puts(b, w, v), NEW s, NEW u
    PROVE  Cell(l, b, s, u) <=>
              \/ Cell(l, array, s, u)
              \/ LASTWORD_BY_VALUE(w) /\ w \notin WordsAt(at) /\ s = at \o w /\ u = v
  <1>1. ASSUME NEW p \in DOMAIN array, NEW x \in DOMAIN array[p]
        PROVE  p \in DOMAIN b /\ x \in DOMAIN b[p] /\ b[p][x] = array[p][x]
    BY <1>1 DEF Puts, WordsAt
  <1>2. w \notin WordsAt(at) => at \in DOMAIN b /\ w \in DOMAIN b[at] /\ b[at][w] = v
    BY DEF Puts
  <1>3. ASSUME NEW p \in DOMAIN b, NEW x \in DOMAIN b[p]
        PROVE  \/ p \in DOMAIN array /\ x \in DOMAIN array[p] /\ b[p][x] = array[p][x]
               \/ p = at /\ x = w /\ w \notin WordsAt(at) /\ b[p][x] = v
    BY <1>3 DEF Puts, WordsAt
  <1>4. ASSUME Cell(l, array, s, u)
        PROVE  Cell(l, b, s, u)
    BY <1>1, <1>4 DEF Cell
  <1>5. ASSUME LASTWORD_BY_VALUE(w), w \notin WordsAt(at), s = at \o w, u = v
        PROVE  Cell(l, b, s, u)
    BY <1>2, <1>5 DEF Cell
  <1>6. ASSUME NEW p \in DOMAIN b, NEW x \in DOMAIN b[p],
               LASTWORD_BY_VALUE(x), s = p \o x, u = b[p][x]
        PROVE  \/ Cell(l, array, s, u)
               \/ LASTWORD_BY_VALUE(w) /\ w \notin WordsAt(at) /\ s = at \o w /\ u = v
    BY <1>3, <1>6 DEF Cell
  <1>7. ASSUME Cell(l, b, s, u)
        PROVE  \/ Cell(l, array, s, u)
               \/ LASTWORD_BY_VALUE(w) /\ w \notin WordsAt(at) /\ s = at \o w /\ u = v
    <2>1. CASE \E p \in DOMAIN l : s = p \o l[p].rest /\ u = l[p].value
      BY <2>1 DEF Cell
    <2>2. CASE \E p \in DOMAIN b : \E x \in DOMAIN b[p] :
                  LASTWORD_BY_VALUE(x) /\ s = p \o x /\ u = b[p][x]
      BY <1>6, <2>2
    <2> QED
      BY <1>7, <2>1, <2>2 DEF Cell
  <1> QED
    BY <1>4, <1>5, <1>7

LEMMA LeafCells ==
    ASSUME NEW l, NEW a, NEW x, x \notin DOMAIN l, NEW r, NEW s, NEW u
    PROVE  Cell(With(l, x, r), a, s, u) <=>
              Cell(l, a, s, u) \/ (s = x \o r.rest /\ u = r.value)
  <1> DEFINE m == With(l, x, r)
  <1>1. DOMAIN m = DOMAIN l \cup {x} /\ m[x] = r /\ \A p \in DOMAIN l : m[p] = l[p]
    BY DEF With
  <1> HIDE DEF m
  <1>2. (\E p \in DOMAIN m : s = p \o m[p].rest /\ u = m[p].value) <=>
            \/ \E p \in DOMAIN l : s = p \o l[p].rest /\ u = l[p].value
            \/ s = x \o r.rest /\ u = r.value
    BY <1>1
  <1>3. Cell(m, a, s, u) <=> Cell(l, a, s, u) \/ (s = x \o r.rest /\ u = r.value)
    BY <1>2 DEF Cell
  <1> QED
    BY <1>3 DEF m

LEMMA TakenCells ==
    ASSUME NEW l, NEW a, NEW x \in DOMAIN l, NEW s, NEW u
    PROVE  Cell(l, a, s, u) <=>
              Cell(Without(l, x), a, s, u) \/ (s = x \o l[x].rest /\ u = l[x].value)
  <1> DEFINE m == Without(l, x)
  <1>1. DOMAIN m = DOMAIN l \ {x} /\ \A p \in DOMAIN m : m[p] = l[p]
    BY DEF Without, Restrict
  <1> HIDE DEF m
  <1>2. (\E p \in DOMAIN l : s = p \o l[p].rest /\ u = l[p].value) <=>
            \/ \E p \in DOMAIN m : s = p \o m[p].rest /\ u = m[p].value
            \/ s = x \o l[x].rest /\ u = l[x].value
    BY <1>1
  <1>3. Cell(l, a, s, u) <=> Cell(m, a, s, u) \/ (s = x \o l[x].rest /\ u = l[x].value)
    BY <1>2 DEF Cell
  <1> QED
    BY <1>3 DEF m

-----------------------------------------------------------------------------
(* The key of the call and the words of the arrays *)

LEMMA PutsWords ==
    ASSUME WordInv, NEW w \in Seq(Chars), Len(w) <= WORDSIZE, NEW v, Puts(array', w, v)
    PROVE  WordInv'
  BY DEF WordInv, Puts, WordsAt

LEMMA WordShort ==
    ASSUME NEW s \in Seq(Chars)
    PROVE  Word(s) \in Seq(Chars) /\ Len(Word(s)) <= WORDSIZE
  <1>1. Word(s) \in Seq(Chars) /\ Len(Word(s)) \in Nat
    BY WordAndRest, LenProperties
  <1> QED
    BY <1>1, WordSizeNat, WordAndRest DEF LASTWORD_BY_VALUE

\* Whatever a call that is over returned, no key is under way.
LEMMA AnsweredKey ==
    ASSUME NEW r, Answer(r)
    PROVE  KeyInv'
  BY DEF Answer, KeyInv

LEMMA AnsweredReply ==
    ASSUME CallInv, NEW r, Answer(r),
           r.op = "Ins" /\ r.code \in {"new", "old"} => r.at = r.key
    PROVE  KeyInv' /\ ReplyInv'
  BY AnsweredKey DEF Answer, ReplyInv

LEMMA ReturnsReply ==
    ASSUME CallInv, NEW c, NEW s, Returns(c, s), s = key
    PROVE  KeyInv' /\ ReplyInv' /\ nfail' \in Nat
  BY AnsweredReply DEF Returns, CallInv

LEMMA FailsReply ==
    ASSUME CallInv, Fails
    PROVE  KeyInv' /\ ReplyInv' /\ nfail' \in Nat
  BY AnsweredReply DEF Fails, CallInv

LEMMA CallStep ==
    ASSUME IInv, CallInv, Next
    PROVE  CallInv'
  <1>1. WordInv /\ KeyInv /\ ReplyInv /\ nfail \in Nat
    BY DEF CallInv
  <1>2. ASSUME array' = array PROVE WordInv'
    BY <1>1, <1>2 DEF WordInv
  <1>3. ASSUME UNCHANGED <<pc, key, at, pos, reply, nfail>>
        PROVE  KeyInv' /\ ReplyInv' /\ nfail' \in Nat
    BY <1>1, <1>3 DEF KeyInv, ReplyInv
  <1>4. at \in Seq(Chars)
    BY DEF IInv, WalkInv, Paths
  <1>5. ASSUME AppendSCL PROVE CallInv'
    BY <1>2, <1>5, ReturnsReply, FailsReply DEF AppendSCL, nodes, CallInv
  <1>6. ASSUME FoundSCL PROVE CallInv'
    BY <1>1, <1>2, <1>6, ReturnsReply DEF FoundSCL, nodes, CallInv, KeyInv
  <1>7. ASSUME TakeSCL \/ PassNode \/ SameWord PROVE CallInv'
    <2>1. array' = array /\ UNCHANGED <<key, at, pos, reply, nfail>>
          /\ pc \in {"top", "word"} /\ pc' \in {"word", "next"}
      BY <1>7 DEF TakeSCL, PassNode, SameWord, nodes
    <2> QED
      BY <1>1, <1>2, <2>1 DEF CallInv, KeyInv, ReplyInv
  <1>8. ASSUME PlugOld PROVE CallInv'
    <2> DEFINE w == Word(Pscl.rest)
    <2>1. /\ Pscl # NoLeaf /\ pc = "word" /\ pc' = "next" /\ UNCHANGED <<key, at, pos, reply, nfail>>
          /\ \/ array' = With(array, at, With(InsertWord(w)[at], w, Pscl.value))
             \/ array' = InsertWord(w)
      BY <1>8 DEF PlugOld, Plug
    <2>2. IsNull(at) /\ Pscl.rest \in Seq(Chars)
      BY <2>1 DEF IInv, CarryInv, LeafSet
    <2>3. Puts(array', w, Pscl.value) \/ Puts(array', w, 0)
      BY <2>1, <2>2, InsertWordPuts, PlugPuts
    <2>4. WordInv'
      BY <1>1, <2>2, <2>3, WordShort, PutsWords
    <2> QED
      BY <1>1, <2>1, <2>4 DEF CallInv, KeyInv, ReplyInv
  <1>9. ASSUME PlugFails PROVE CallInv'
    <2> DEFINE w == Word(Pscl.rest)
    <2>1. Fails /\ Pscl # NoLeaf /\ (array' = array \/ array' = InsertWord(w))
      BY <1>9 DEF PlugFails
    <2>2. Pscl.rest \in Seq(Chars)
      BY <2>1 DEF IInv, CarryInv, LeafSet
    <2>3. WordInv'
      BY <1>1, <1>2, <2>1, <2>2, InsertWordPuts, WordShort, PutsWords
    <2> QED
      BY <2>1, <2>3, FailsReply DEF CallInv
  <1>10. ASSUME InsWord PROVE CallInv'
    <2> DEFINE w == Word(pos)
    <2>1. pc = "next" /\ pos \in Seq(Chars) /\ key = at \o pos /\ key \in Strings
      BY <1>1, <1>10 DEF InsWord, InsWordTo, IInv, WalkInv, KeyInv
    <2>2. array' = array \/ array' = InsertWord(w)
      BY <1>10 DEF InsWord, InsWordTo
    <2>3. WordInv'
      BY <1>1, <1>2, <2>1, <2>2, InsertWordPuts, WordShort, PutsWords
    <2>4. CASE Fails
      BY <2>3, <2>4, FailsReply DEF CallInv
    <2>5. ASSUME LASTWORD_BY_VALUE(w), NEW c, Returns(c, at \o w)
          PROVE  CallInv'
      BY <2>1, <2>3, <2>5, WordAndRest, ReturnsReply DEF CallInv
    <2>6. CASE /\ ~LASTWORD_BY_VALUE(w)
               /\ pc' = "top" /\ at' = at \o w /\ pos' = Rest(pos)
               /\ UNCHANGED <<key, reply, nfail>>
      <3>1. /\ pos = w \o Rest(pos)
            /\ w \in Seq(Chars) /\ Rest(pos) \in Seq(Chars)
        BY <2>1, <2>6, WordAndRest
      <3>2. (at \o w) \o Rest(pos) = at \o (w \o Rest(pos))
        BY <1>4, <3>1, ConcatAssociative
      <3>3. key' = at' \o pos'
        BY <2>1, <2>6, <3>1, <3>2
      <3> QED
        BY <1>1, <2>1, <2>3, <2>6, <3>3 DEF CallInv, KeyInv, ReplyInv
    <2> QED
      BY <1>10, <2>4, <2>5, <2>6 DEF InsWord, InsWordTo
  <1>11. ASSUME NEW k \in Strings, Ins(k) PROVE CallInv'
    <2>1. <<>> \o k = k
      BY StringAssumption, ConcatEmptySeq
    <2> QED
      BY <1>1, <1>2, <1>11, <2>1 DEF Ins, nodes, CallInv, KeyInv, ReplyInv
  <1>12. ASSUME NEW k \in Strings, JudySLDel(k) PROVE CallInv'
    <2>1. array' = array /\ nfail' = nfail
      BY <1>12 DEF JudySLDel, nodes
    <2>2. ASSUME NEW c, Answer([op |-> "Del", key |-> k, code |-> c])
          PROVE  KeyInv' /\ ReplyInv'
      BY <2>2, AnsweredReply
    <2>3. ASSUME pc' = "exited", reply' = reply
          PROVE  KeyInv' /\ ReplyInv'
      BY <1>1, <2>3 DEF KeyInv, ReplyInv
    <2>4. KeyInv' /\ ReplyInv'
      BY <1>12, <2>2, <2>3 DEF JudySLDel
    <2>5. WordInv' /\ nfail' \in Nat
      BY <1>1, <1>2, <2>1
    <2> QED
      BY <2>4, <2>5 DEF CallInv
  <1>13. ASSUME NEW v \in Value, Store(v) PROVE CallInv'
    <2>1. /\ DOMAIN array' = DOMAIN array
          /\ \A p \in DOMAIN array : DOMAIN array'[p] = DOMAIN array[p]
      BY <1>13 DEF Store
    <2>2. WordInv'
      BY <1>1, <2>1 DEF WordInv
    <2> QED
      BY <1>3, <1>13, <2>2 DEF Store, frame, CallInv
  <1>14. ASSUME JudySLFreeArray PROVE CallInv'
    <2>1. DOMAIN array' = {}
      BY <1>14 DEF JudySLFreeArray, FreeAll, Restrict, IInv, NodeInv
    <2>2. Answer([op |-> "Free", code |-> "ok"]) /\ nfail' = nfail
      BY <1>14 DEF JudySLFreeArray, FreeAll
    <2>3. KeyInv' /\ ReplyInv'
      BY <2>2, AnsweredReply
    <2> QED
      BY <1>1, <2>1, <2>2, <2>3 DEF CallInv, WordInv
  <1> QED
    BY <1>5, <1>6, <1>7, <1>8, <1>9, <1>10, <1>11, <1>12, <1>13, <1>14 DEF Next, Insertion

LEMMA CallAlways == Spec => [](IInv /\ CallInv)
  <1>1. Init => CallInv
    BY DEF Init, CallInv, WordInv, KeyInv, ReplyInv
  <1>2. IInv /\ CallInv /\ [Next]_vars => CallInv'
    <2> SUFFICES ASSUME IInv, CallInv, [Next]_vars
                 PROVE  CallInv'
      OBVIOUS
    <2>1. CASE UNCHANGED vars
      BY <2>1 DEF vars, nodes, frame, CallInv, WordInv, KeyInv, ReplyInv
    <2> QED
      BY <2>1, CallStep
  <1> QED
    BY <1>1, <1>2, Invariance, PTL DEF Spec

-----------------------------------------------------------------------------
(* What is kept from one state to the next *)

LEMMA HeldSame ==
    ASSUME HeldIs, HeldIs', \A s, v : Bound(s, v)' <=> Bound(s, v)
    PROVE  Held' = Held
  <1>1. /\ Held = [s \in DOMAIN Held |-> Held[s]]
        /\ \A s : s \in DOMAIN Held <=> \E v : Bound(s, v)
        /\ \A s, v : Bound(s, v) => Held[s] = v
    BY DEF HeldIs
  <1>2. /\ Held' = [s \in DOMAIN Held' |-> Held'[s]]
        /\ \A s : s \in DOMAIN Held' <=> \E v : Bound(s, v)'
        /\ \A s, v : Bound(s, v)' => Held'[s] = v
    BY DEF HeldIs
  <1>3. DOMAIN Held' = DOMAIN Held /\ \A s \in DOMAIN Held : Held'[s] = Held[s]
    BY <1>1, <1>2
  <1> QED
    BY <1>1, <1>2, <1>3

\* A string more, with the value 0.
LEMMA HeldMore ==
    ASSUME HeldIs, HeldIs', NEW k, k \notin DOMAIN Held,
           \A s, v : Bound(s, v)' <=> Bound(s, v) \/ (s = k /\ v = 0)
    PROVE  Held' = [j \in DOMAIN Held \cup {k} |-> IF j = k THEN 0 ELSE Held[j]]
  <1>1. /\ Held = [s \in DOMAIN Held |-> Held[s]]
        /\ \A s : s \in DOMAIN Held <=> \E v : Bound(s, v)
        /\ \A s, v : Bound(s, v) => Held[s] = v
    BY DEF HeldIs
  <1>2. /\ Held' = [s \in DOMAIN Held' |-> Held'[s]]
        /\ \A s : s \in DOMAIN Held' <=> \E v : Bound(s, v)'
        /\ \A s, v : Bound(s, v)' => Held'[s] = v
    BY DEF HeldIs
  <1>3. DOMAIN Held' = DOMAIN Held \cup {k}
    BY <1>1, <1>2
  <1>4. Held'[k] = 0 /\ \A s \in DOMAIN Held : Held'[s] = Held[s]
    BY <1>1, <1>2
  <1> QED
    BY <1>2, <1>3, <1>4

\* A string less.
LEMMA HeldLess ==
    ASSUME HeldIs, HeldIs', NEW k,
           \A s, v : Bound(s, v)' <=> Bound(s, v) /\ s # k
    PROVE  Held' = [j \in DOMAIN Held \ {k} |-> Held[j]]
  <1>1. /\ Held = [s \in DOMAIN Held |-> Held[s]]
        /\ \A s : s \in DOMAIN Held <=> \E v : Bound(s, v)
        /\ \A s, v : Bound(s, v) => Held[s] = v
    BY DEF HeldIs
  <1>2. /\ Held' = [s \in DOMAIN Held' |-> Held'[s]]
        /\ \A s : s \in DOMAIN Held' <=> \E v : Bound(s, v)'
        /\ \A s, v : Bound(s, v)' => Held'[s] = v
    BY DEF HeldIs
  <1>3. DOMAIN Held' = DOMAIN Held \ {k}
    BY <1>1, <1>2
  <1>4. \A s \in DOMAIN Held : s # k => Held'[s] = Held[s]
    BY <1>1, <1>2
  <1> QED
    BY <1>2, <1>3, <1>4

\* A string with another value.
LEMMA HeldPut ==
    ASSUME HeldIs, HeldIs', NEW k, NEW x,
           \A s, v : Bound(s, v)' <=>
              IF s = k THEN v = x /\ \E u : Bound(s, u) ELSE Bound(s, v)
    PROVE  Held' = [Held EXCEPT ![k] = x]
  <1>1. /\ Held = [s \in DOMAIN Held |-> Held[s]]
        /\ \A s : s \in DOMAIN Held <=> \E v : Bound(s, v)
        /\ \A s, v : Bound(s, v) => Held[s] = v
    BY DEF HeldIs
  <1>2. /\ Held' = [s \in DOMAIN Held' |-> Held'[s]]
        /\ \A s : s \in DOMAIN Held' <=> \E v : Bound(s, v)'
        /\ \A s, v : Bound(s, v)' => Held'[s] = v
    BY DEF HeldIs
  <1>3. DOMAIN Held' = DOMAIN Held
    BY <1>1, <1>2
  <1>4. \A s \in DOMAIN Held : Held'[s] = IF s = k THEN x ELSE Held[s]
    BY <1>1, <1>2
  <1> QED
    BY <1>1, <1>2, <1>3, <1>4

LEMMA BoundIs ==
    \A s, v : Bound(s, v) <=>
        Cell(leaf, array, s, v) \/ (Pscl # NoLeaf /\ s = at \o Pscl.rest /\ v = Pscl.value)
  BY DEF Bound

LEMMA BoundBecomes ==
    \A s, v : Bound(s, v)' <=>
        Cell(leaf', array', s, v) \/ (Pscl' # NoLeaf /\ s = at' \o Pscl'.rest /\ v = Pscl'.value)
  BY DEF Bound

\* The key is not kept where its next word is missing, and is not the string carried.
LEMMA KeyNotHeld ==
    ASSUME IInv, CallInv, HeldIs, pc \in {"top", "word", "next"},
           at \notin DOMAIN leaf, Word(pos) \notin WordsAt(at)
    PROVE  key \notin DOMAIN Held
  <1>1. key = at \o pos /\ pos \in Seq(Chars) /\ at \in Paths /\ Linked(array, at) /\ at \in Seq(Chars)
    BY DEF IInv, WalkInv, CallInv, KeyInv, Paths
  <1>2. \A q : ~Holds(leaf, array, key, q)
    BY <1>1, TreeSound, NotThere DEF CallInv, WordsAt
  <1>3. \A v : ~Cell(leaf, array, key, v)
    BY <1>2, CellHolds
  <1>4. Pscl # NoLeaf => at \o Pscl.rest # key
    <2> SUFFICES ASSUME Pscl # NoLeaf, at \o Pscl.rest = at \o pos
                 PROVE  FALSE
      BY <1>1
    <2>1. Pscl.rest \in Seq(Chars) /\ Pscl.rest # pos
      BY DEF IInv, CarryInv, LeafSet
    <2> QED
      BY <1>1, <2>1, ConcatSimplifications
  <1>5. \A v : ~Bound(key, v)
    BY <1>3, <1>4, BoundIs
  <1> QED
    BY <1>5 DEF HeldIs

-----------------------------------------------------------------------------
(* The steps of JudySLIns, seen as a map *)

\* Seen as a map, a failure loses no string or the one that was carried.
LEMMA FailsMap ==
    ASSUME IInv, CallInv, HeldIs, HeldIs', Fails, pc \in {"top", "word", "next"},
           at \notin DOMAIN leaf, Word(pos) \notin WordsAt(at),
           \A s, v : Cell(leaf', array', s, v) <=> Cell(leaf, array, s, v)
    PROVE  \E k \in Strings : Map!NoMem(k)
  <1>1. /\ nfail < MaxFail /\ Pscl' = NoLeaf
        /\ reply' = [op |-> "Ins", key |-> key, code |-> "nomem"]
    BY DEF Fails, Answer
  <1>2. MaxFail > 0
    BY <1>1, StringAssumption DEF CallInv
  <1>3. key \in Strings /\ key \notin DOMAIN Held
    BY KeyNotHeld DEF CallInv, KeyInv
  <1>4. \A s, v : Bound(s, v)' <=> Cell(leaf, array, s, v)
    BY <1>1, BoundBecomes
  <1>5. CASE Pscl = NoLeaf
    <2>1. \A s, v : Bound(s, v)' <=> Bound(s, v)
      BY <1>4, <1>5, BoundIs
    <2>2. Held' = Held
      BY <2>1, HeldSame
    <2> QED
      BY <1>1, <1>2, <1>3, <2>2 DEF Map!NoMem
  <1>6. CASE Pscl # NoLeaf
    <2> DEFINE j == at \o Pscl.rest
    <2>1. \A v : ~Cell(leaf, array, j, v)
      BY <1>6, CarriedApartHolds DEF CallInv
    <2>2. \A s, v : Bound(s, v)' <=> Bound(s, v) /\ s # j
      BY <1>4, <1>6, <2>1, BoundIs
    <2>3. j \in DOMAIN Held
      <3>1. Bound(j, Pscl.value)
        BY <1>6, BoundIs
      <3> QED
        BY <3>1 DEF HeldIs
    <2> HIDE DEF j
    <2>4. Held' = [i \in DOMAIN Held \ {j} |-> Held[i]]
      BY <2>2, HeldLess
    <2> QED
      BY <1>1, <1>2, <1>3, <2>3, <2>4 DEF Map!NoMem
  <1> QED
    BY <1>5, <1>6

LEMMA NewMap ==
    ASSUME CallInv, HeldIs, HeldIs', pc \in {"top", "word", "next"}, Pscl = NoLeaf,
           key \notin DOMAIN Held, Returns("new", key),
           \A s, v : Cell(leaf', array', s, v) <=> Cell(leaf, array, s, v) \/ (s = key /\ v = 0)
    PROVE  \E k \in Strings : Map!Ins(k)
  <1>1. /\ reply' = [op |-> "Ins", key |-> key, code |-> "new", at |-> key]
        /\ Pscl' = NoLeaf /\ key \in Strings
    BY DEF Returns, Answer, CallInv, KeyInv
  <1>2. PICK k \in Strings : k = key
    BY <1>1
  <1>3. \A s, v : Bound(s, v)' <=> Bound(s, v) \/ (s = k /\ v = 0)
    BY <1>1, <1>2, BoundIs, BoundBecomes
  <1>4. Held' = [j \in DOMAIN Held \cup {k} |-> IF j = k THEN 0 ELSE Held[j]]
    <2>1. k \notin DOMAIN Held
      BY <1>2
    <2> QED
      BY <1>3, <2>1, HeldMore
  <1>5. Map!Ins(k)
    BY <1>1, <1>2, <1>4 DEF Map!Ins
  <1> QED
    BY <1>5

LEMMA OldMap ==
    ASSUME CallInv, HeldIs, HeldIs', pc \in {"top", "word", "next"}, Pscl = NoLeaf,
           NEW u, Cell(leaf, array, key, u), Returns("old", key),
           \A s, v : Cell(leaf', array', s, v) <=> Cell(leaf, array, s, v)
    PROVE  \E k \in Strings : Map!Ins(k)
  <1>1. /\ reply' = [op |-> "Ins", key |-> key, code |-> "old", at |-> key]
        /\ Pscl' = NoLeaf /\ key \in Strings
    BY DEF Returns, Answer, CallInv, KeyInv
  <1>2. PICK k \in Strings : k = key
    BY <1>1
  <1>3. k \in DOMAIN Held
    BY <1>2, BoundIs DEF HeldIs
  <1>4. \A s, v : Bound(s, v)' <=> Bound(s, v)
    BY <1>1, BoundIs, BoundBecomes
  <1>5. Held' = Held
    BY <1>4, HeldSame
  <1>6. Map!Ins(k)
    BY <1>1, <1>2, <1>3, <1>5 DEF Map!Ins
  <1> QED
    BY <1>6

LEMMA AppendMap ==
    ASSUME IInv, CallInv, HeldIs, HeldIs', AppendSCL
    PROVE  \E k \in Strings : Map!Ins(k) \/ Map!NoMem(k)
  <1>1. /\ pc \in {"top", "word", "next"} /\ Pscl = NoLeaf /\ at \notin DOMAIN leaf
        /\ Word(pos) \notin WordsAt(at) /\ key = at \o pos
    BY DEF AppendSCL, IsNull, WordsAt, CallInv, KeyInv
  <1>2. CASE Fails /\ UNCHANGED nodes
    <2>1. \A s, v : Cell(leaf', array', s, v) <=> Cell(leaf, array, s, v)
      BY <1>2 DEF nodes
    <2> QED
      BY <1>1, <1>2, <2>1, FailsMap
  <1>3. CASE /\ leaf' = With(leaf, at, [rest |-> pos, value |-> 0])
             /\ array' = array /\ Returns("new", key)
    <2> DEFINE r == [rest |-> pos, value |-> 0]
    <2>1. r.rest = pos /\ r.value = 0
      OBVIOUS
    <2>2. leaf' = With(leaf, at, r)
      BY <1>3
    <2> HIDE DEF r
    <2>3. \A s, v : Cell(leaf', array', s, v) <=> Cell(leaf, array, s, v) \/ (s = key /\ v = 0)
      <3>1. \A s, v : Cell(With(leaf, at, r), array, s, v) <=>
                Cell(leaf, array, s, v) \/ (s = at \o r.rest /\ v = r.value)
        BY <1>1, LeafCells
      <3> QED
        BY <1>1, <1>3, <2>1, <2>2, <3>1
    <2>4. key \notin DOMAIN Held
      BY <1>1, KeyNotHeld
    <2> QED
      BY <1>1, <1>3, <2>3, <2>4, NewMap
  <1> QED
    BY <1>2, <1>3 DEF AppendSCL

LEMMA FoundMap ==
    ASSUME IInv, CallInv, HeldIs, HeldIs', FoundSCL
    PROVE  \E k \in Strings : Map!Ins(k)
  <1>1. /\ pc \in {"top", "word", "next"} /\ Pscl = NoLeaf /\ key = at \o pos
        /\ at \in DOMAIN leaf /\ leaf[at].rest = pos
    BY DEF FoundSCL, IsNull, IInv, CarryInv, CallInv, KeyInv
  <1>2. Returns("old", key) /\ leaf' = leaf /\ array' = array
    BY <1>1 DEF FoundSCL, nodes
  <1>3. Cell(leaf, array, key, leaf[at].value)
    BY <1>1 DEF Cell
  <1>4. PICK u : u = leaf[at].value
    OBVIOUS
  <1>5. \A s, v : Cell(leaf', array', s, v) <=> Cell(leaf, array, s, v)
    BY <1>2
  <1> QED
    BY <1>1, <1>2, <1>3, <1>4, <1>5, OldMap

\* What is taken from a leaf is carried, and so it is kept.
LEMMA TakeMap ==
    ASSUME IInv, HeldIs, HeldIs', TakeSCL
    PROVE  Held' = Held
  <1>1. /\ at \in DOMAIN leaf /\ Pscl = NoLeaf
        /\ leaf' = Without(leaf, at) /\ array' = array /\ Pscl' = leaf[at] /\ at' = at
    BY DEF TakeSCL, IInv, CarryInv, IsNull
  <1>2. Pscl' # NoLeaf
    <2>1. leaf[at] \in LeafSet
      BY <1>1 DEF IInv, NodeInv
    <2> QED
      BY <1>1, <2>1, StringAssumption DEF LeafSet, Chars
  <1>3. \A s, v : Cell(leaf, array, s, v) <=>
            Cell(leaf', array, s, v) \/ (s = at \o leaf[at].rest /\ v = leaf[at].value)
    BY <1>1, TakenCells
  <1>4. \A s, v : Bound(s, v)' <=> Bound(s, v)
    BY <1>1, <1>2, <1>3, BoundIs, BoundBecomes
  <1> QED
    BY <1>4, HeldSame

LEMMA PlugMap ==
    ASSUME IInv, CallInv, HeldIs, HeldIs', PlugOld
    PROVE  Held' = Held
  <1> DEFINE w == Word(Pscl.rest)
             b == With(array, at, With(InsertWord(w)[at], w, Pscl.value))
  <1>1. Pscl # NoLeaf /\ Pscl' = NoLeaf /\ at' = at
    BY DEF PlugOld, Plug
  <1>2. /\ Pscl.rest \in Seq(Chars) /\ IsNull(at) /\ at \in Paths /\ at \in Seq(Chars)
        /\ w \notin WordsAt(at) /\ w \in Seq(Chars)
    BY <1>1, WordAndRest DEF IInv, CarryInv, WalkInv, LeafSet, Paths, IsNull, WordsAt
  <1>3. ASSUME \A s, v : Cell(leaf', array', s, v) <=>
                    Cell(leaf, array, s, v) \/ (s = at \o Pscl.rest /\ v = Pscl.value)
        PROVE  Held' = Held
    <2>1. \A s, v : Bound(s, v)' <=> Bound(s, v)
      BY <1>1, <1>3, BoundIs, BoundBecomes
    <2> QED
      BY <2>1, HeldSame
  <1>4. CASE LASTWORD_BY_VALUE(w) /\ array' = b /\ leaf' = leaf
    <2>1. Puts(array', w, Pscl.value)
      BY <1>2, <1>4, PlugPuts
    <2>2. w = Pscl.rest
      BY <1>2, <1>4, WordAndRest
    <2>3. \A s, v : Cell(leaf, array', s, v) <=>
              \/ Cell(leaf, array, s, v)
              \/ LASTWORD_BY_VALUE(w) /\ w \notin WordsAt(at) /\ s = at \o w /\ v = Pscl.value
      BY <2>1, PutsCells
    <2> HIDE DEF w
    <2> QED
      BY <1>2, <1>3, <1>4, <2>2, <2>3
  <1>5. CASE /\ ~LASTWORD_BY_VALUE(w) /\ array' = InsertWord(w)
             /\ leaf' = With(leaf, at \o w, [rest |-> Rest(Pscl.rest), value |-> Pscl.value])
    <2> DEFINE r == [rest |-> Rest(Pscl.rest), value |-> Pscl.value]
    <2>1. r.rest = Rest(Pscl.rest) /\ r.value = Pscl.value
      OBVIOUS
    <2>2. leaf' = With(leaf, at \o w, r)
      BY <1>5
    <2> HIDE DEF r
    <2>3. /\ Len(w) = WORDSIZE /\ Pscl.rest = w \o Rest(Pscl.rest)
          /\ Rest(Pscl.rest) \in Seq(Chars)
      BY <1>2, <1>5, WordAndRest
    <2>4. at \o w \notin DOMAIN leaf
      BY <1>2, <2>3, ParentThere DEF IInv, NodeInv, IsNull
    <2>5. Puts(array', w, 0)
      BY <1>5, InsertWordPuts
    <2>6. \A s, v : Cell(leaf', array', s, v) <=>
              Cell(leaf, array', s, v) \/ (s = (at \o w) \o r.rest /\ v = r.value)
      BY <2>2, <2>4, LeafCells
    <2>7. \A s, v : Cell(leaf, array', s, v) <=> Cell(leaf, array, s, v)
      BY <1>5, <2>5, PutsCells
    <2>8. (at \o w) \o r.rest = at \o Pscl.rest
      <3>1. (at \o w) \o Rest(Pscl.rest) = at \o (w \o Rest(Pscl.rest))
        BY <1>2, <2>3, ConcatAssociative
      <3> QED
        BY <2>1, <2>3, <3>1
    <2> QED
      BY <1>3, <2>1, <2>6, <2>7, <2>8
  <1> QED
    BY <1>4, <1>5 DEF PlugOld, Plug

LEMMA PlugFailsMap ==
    ASSUME IInv, CallInv, HeldIs, HeldIs', PlugFails
    PROVE  \E k \in Strings : Map!NoMem(k)
  <1> DEFINE w == Word(Pscl.rest)
  <1>1. /\ pc \in {"top", "word", "next"} /\ Fails /\ leaf' = leaf
        /\ array' = array \/ (~LASTWORD_BY_VALUE(w) /\ array' = InsertWord(w))
        /\ at \notin DOMAIN leaf /\ Word(pos) \notin WordsAt(at)
    BY DEF PlugFails, IInv, CarryInv, IsNull, WordsAt
  <1>2. \A s, v : Cell(leaf', array', s, v) <=> Cell(leaf, array, s, v)
    <2>1. CASE array' = array
      BY <1>1, <2>1
    <2>2. CASE ~LASTWORD_BY_VALUE(w) /\ array' = InsertWord(w)
      <3>1. Puts(array', w, 0)
        BY <2>2, InsertWordPuts
      <3> QED
        BY <1>1, <2>2, <3>1, PutsCells
    <2> QED
      BY <1>1, <2>1, <2>2
  <1> QED
    BY <1>1, <1>2, FailsMap

LEMMA InsWordMap ==
    ASSUME IInv, CallInv, HeldIs, HeldIs', InsWord
    PROVE  \/ \E k \in Strings : Map!Ins(k) \/ Map!NoMem(k)
           \/ Held' = Held /\ reply' = reply
  <1> DEFINE w == Word(pos)
  <1>1. /\ pc = "next" /\ pc \in {"top", "word", "next"} /\ leaf' = leaf
        /\ at \notin DOMAIN leaf /\ pos \in Seq(Chars)
        /\ at \in Seq(Chars) /\ key = at \o pos
    BY DEF InsWord, InsWordTo, IInv, WalkInv, Paths, CallInv, KeyInv
  <1>2. w \in Seq(Chars) /\ (LASTWORD_BY_VALUE(w) => w = pos)
    BY <1>1, WordAndRest
  <1>3. CASE w \notin WordsAt(at) /\ Fails /\ UNCHANGED array
    <2>1. \A s, v : Cell(leaf', array', s, v) <=> Cell(leaf, array, s, v)
      BY <1>1, <1>3
    <2> QED
      BY <1>1, <1>3, <2>1, FailsMap
  <1>4. ASSUME array' = InsertWord(w)
        PROVE  \A s, v : Cell(leaf', array', s, v) <=>
                  \/ Cell(leaf, array, s, v)
                  \/ LASTWORD_BY_VALUE(w) /\ w \notin WordsAt(at) /\ s = at \o w /\ v = 0
    BY <1>1, <1>4, InsertWordPuts, PutsCells
  <1>5. CASE /\ array' = InsertWord(w) /\ LASTWORD_BY_VALUE(w)
             /\ Returns(IF w \in WordsAt(at) THEN "old" ELSE "new", at \o w)
    <2>1. Pscl = NoLeaf /\ at \o w = key
      BY <1>1, <1>2, <1>5, InvApart DEF AssertsHold
    <2>2. CASE w \in WordsAt(at)
      <3>1. Cell(leaf, array, key, array[at][w])
        BY <1>5, <2>1, <2>2 DEF Cell, WordsAt
      <3>2. PICK u : u = array[at][w]
        OBVIOUS
      <3>3. Returns("old", key)
        BY <1>5, <2>1, <2>2
      <3>4. \A s, v : Cell(leaf', array', s, v) <=> Cell(leaf, array, s, v)
        BY <1>4, <1>5, <2>2
      <3>5. Cell(leaf, array, key, u)
        BY <3>1, <3>2
      <3> QED
        BY <1>1, <2>1, <3>3, <3>4, <3>5, OldMap
    <2>3. CASE w \notin WordsAt(at)
      <3>1. Returns("new", key)
        BY <1>5, <2>1, <2>3
      <3>2. \A s, v : Cell(leaf', array', s, v) <=> Cell(leaf, array, s, v) \/ (s = key /\ v = 0)
        BY <1>4, <1>5, <2>1, <2>3
      <3>3. key \notin DOMAIN Held
        BY <1>1, <2>3, KeyNotHeld
      <3> QED
        BY <1>1, <2>1, <3>1, <3>2, <3>3, NewMap
    <2> QED
      BY <2>2, <2>3
  <1>6. CASE /\ array' = InsertWord(w) /\ ~LASTWORD_BY_VALUE(w)
             /\ at' = at \o w /\ reply' = reply
             /\ Pscl' = IF Pscl = NoLeaf THEN NoLeaf ELSE [Pscl EXCEPT !.rest = Rest(@)]
    <2>1. \A s, v : Cell(leaf', array', s, v) <=> Cell(leaf, array, s, v)
      BY <1>4, <1>6
    <2>2. ASSUME Pscl # NoLeaf
          PROVE  /\ Pscl' # NoLeaf /\ Pscl'.value = Pscl.value
                 /\ at' \o Pscl'.rest = at \o Pscl.rest
      <3>1. Pscl \in LeafSet /\ Pscl.rest \in Seq(Chars) /\ Word(Pscl.rest) = w
        BY <1>1, <2>2 DEF IInv, CarryInv, LeafSet
      <3>2. Pscl.rest = w \o Rest(Pscl.rest) /\ Rest(Pscl.rest) \in Seq(Chars)
        BY <1>6, <3>1, WordAndRest
      <3>3. Pscl' \in LeafSet /\ Pscl'.rest = Rest(Pscl.rest) /\ Pscl'.value = Pscl.value
        BY <1>6, <2>2, <3>1, <3>2 DEF LeafSet
      <3>4. Pscl' # NoLeaf
        BY <3>3, StringAssumption DEF LeafSet, Chars
      <3>5. (at \o w) \o Rest(Pscl.rest) = at \o (w \o Rest(Pscl.rest))
        BY <1>1, <1>2, <3>2, ConcatAssociative
      <3>6. at' \o Pscl'.rest = (at \o w) \o Rest(Pscl.rest)
        BY <1>6, <3>3
      <3> QED
        BY <3>2, <3>3, <3>4, <3>5, <3>6
    <2>3. Pscl = NoLeaf => Pscl' = NoLeaf
      BY <1>6
    <2>4. \A s, v : Bound(s, v)' <=> Bound(s, v)
      BY <2>1, <2>2, <2>3, BoundIs, BoundBecomes
    <2>5. Held' = Held
      BY <2>4, HeldSame
    <2> QED
      BY <1>6, <2>5
  <1> QED
    BY <1>3, <1>5, <1>6 DEF InsWord, InsWordTo

-----------------------------------------------------------------------------
(* The other calls, seen as a map *)

\* Between two calls what is kept is what the tree holds.
LEMMA IdleBound ==
    ASSUME IInv, pc = "idle"
    PROVE  Pscl = NoLeaf /\ \A s, v : Bound(s, v) <=> Cell(leaf, array, s, v)
  BY BoundIs DEF IInv, CarryInv

LEMMA DelMap ==
    ASSUME IInv, CallInv, HeldIs, HeldIs', NEW k \in Strings, JudySLDel(k)
    PROVE  Map!Del(k) \/ (Held' = Held /\ reply' = reply)
  <1>1. /\ pc = "idle" /\ Pscl = NoLeaf /\ Sound(leaf, array) /\ k \in Seq(Chars)
        /\ \A s, v : Bound(s, v) <=> Cell(leaf, array, s, v)
    BY IdleBound, TreeSound, StringAssumption DEF JudySLDel, CallInv, Chars
  <1>2. k \in DOMAIN Held <=> JudySLDelSub(k) # "absent"
    BY <1>1, DelSubIs, ContentIs DEF HeldIs
  <1>3. CASE /\ JudySLDelSub(k) = "absent" /\ leaf' = leaf /\ array' = array
             /\ Answer([op |-> "Del", key |-> k, code |-> "absent"])
             /\ "Del" \in Calls
    <2>1. Pscl' = NoLeaf /\ reply' = [op |-> "Del", key |-> k, code |-> "absent"]
      BY <1>3 DEF Answer
    <2>2. \A s, v : Bound(s, v)' <=> Bound(s, v)
      BY <1>1, <1>3, <2>1, BoundBecomes
    <2>3. Held' = Held /\ k \notin DOMAIN Held
      BY <1>2, <1>3, <2>2, HeldSame
    <2>4. Held' = [j \in DOMAIN Held \ {k} |-> Held[j]]
      BY <2>3 DEF HeldIs
    <2> QED
      BY <1>3, <2>1, <2>3, <2>4 DEF Map!Del
  <1>4. CASE /\ JudySLDelSub(k) = "done" /\ leaf' = Without(leaf, <<>>) /\ array' = array
             /\ Answer([op |-> "Del", key |-> k, code |-> "done"])
             /\ "Del" \in Calls
    <2>1. Pscl' = NoLeaf /\ reply' = [op |-> "Del", key |-> k, code |-> "done"]
      BY <1>4 DEF Answer
    <2>2. <<>> \in DOMAIN leaf /\ leaf[<<>>].rest = k /\ <<>> \o k = k
      BY <1>1, <1>4, DeletedAtRoot, ConcatEmptySeq
    <2>3. \A s, v : Cell(leaf, array, s, v) <=>
              Cell(leaf', array, s, v) \/ (s = k /\ v = leaf[<<>>].value)
      <3>1. \A s, v : Cell(leaf, array, s, v) <=>
                \/ Cell(Without(leaf, <<>>), array, s, v)
                \/ s = <<>> \o leaf[<<>>].rest /\ v = leaf[<<>>].value
        BY <2>2, TakenCells
      <3> QED
        BY <1>4, <2>2, <3>1
    <2>4. \A v : ~Cell(leaf', array, k, v)
      <3> SUFFICES ASSUME NEW q, Holds(leaf', array, k, q)
                   PROVE  FALSE
        BY CellHolds
      <3>1. DOMAIN leaf' = DOMAIN leaf \ {<<>>} /\ \A p \in DOMAIN leaf' : leaf'[p] = leaf[p]
        BY <1>4 DEF Without, Restrict
      <3>2. Holds(leaf, array, k, q) /\ Holds(leaf, array, k, <<>>)
        BY <2>2, <3>1 DEF Holds
      <3>3. q = <<>>
        BY <1>1, <3>2, OnePlace
      <3> QED
        BY <1>1, <2>2, <3>1, <3>3 DEF Holds, Sound
    <2>5. \A s, v : Bound(s, v)' <=> Bound(s, v) /\ s # k
      BY <1>1, <1>4, <2>1, <2>3, <2>4, BoundBecomes
    <2>6. Held' = [j \in DOMAIN Held \ {k} |-> Held[j]]
      BY <2>5, HeldLess
    <2>7. k \in DOMAIN Held
      BY <1>2, <1>4
    <2> QED
      BY <1>4, <2>1, <2>6, <2>7 DEF Map!Del
  <1>5. CASE UNCHANGED <<nodes, at, Pscl, reply>>
    <2>1. \A s, v : Bound(s, v)' <=> Bound(s, v)
      BY <1>5, BoundIs, BoundBecomes DEF nodes
    <2> QED
      BY <1>5, <2>1, HeldSame
  <1> QED
    BY <1>3, <1>4, <1>5 DEF JudySLDel, nodes

\* The pointer that was handed out last is to the value of the key that was asked for.
LEMMA StoreMap ==
    ASSUME IInv, CallInv, HeldIs, HeldIs', NEW v \in Value, Store(v)
    PROVE  Map!Store(v)
  <1>1. /\ pc = "idle" /\ Pscl = NoLeaf /\ Pscl' = NoLeaf /\ reply' = reply
        /\ reply.op = "Ins" /\ reply.code \in {"new", "old"} /\ reply.at = reply.key
        /\ \A s, u : Bound(s, u) <=> Cell(leaf, array, s, u)
    BY IdleBound DEF Store, frame, CallInv, ReplyInv
  <1>2. PICK k : k = reply.key
    OBVIOUS
  <1>3. /\ DOMAIN leaf' = DOMAIN leaf
        /\ \A p \in DOMAIN leaf :
              leaf'[p] = IF p \o leaf[p].rest = k THEN [leaf[p] EXCEPT !.value = v] ELSE leaf[p]
    BY <1>1, <1>2 DEF Store
  <1>4. \A p \in DOMAIN leaf : /\ leaf'[p].rest = leaf[p].rest
                               /\ leaf'[p].value = IF p \o leaf[p].rest = k THEN v ELSE leaf[p].value
    BY <1>3 DEF IInv, NodeInv, LeafSet
  <1>5. /\ DOMAIN array' = DOMAIN array
        /\ \A p \in DOMAIN array : DOMAIN array'[p] = DOMAIN array[p]
        /\ \A p \in DOMAIN array : \A w \in DOMAIN array[p] :
              LASTWORD_BY_VALUE(w) => array'[p][w] = IF p \o w = k THEN v ELSE array[p][w]
    BY <1>1, <1>2 DEF Store
  <1>6. ASSUME NEW s, NEW u
        PROVE  Cell(leaf', array', s, u) <=>
                  IF s = k THEN u = v /\ \E x : Cell(leaf, array, s, x) ELSE Cell(leaf, array, s, u)
    <2>1. (\E p \in DOMAIN leaf' : s = p \o leaf'[p].rest /\ u = leaf'[p].value) <=>
              \E p \in DOMAIN leaf : s = p \o leaf[p].rest /\ u = IF s = k THEN v ELSE leaf[p].value
      BY <1>3, <1>4
    <2>2. (\E p \in DOMAIN array' : \E w \in DOMAIN array'[p] :
                LASTWORD_BY_VALUE(w) /\ s = p \o w /\ u = array'[p][w]) <=>
              \E p \in DOMAIN array : \E w \in DOMAIN array[p] :
                LASTWORD_BY_VALUE(w) /\ s = p \o w /\ u = IF s = k THEN v ELSE array[p][w]
      <3>1. ASSUME NEW p \in DOMAIN array
            PROVE  (\E w \in DOMAIN array'[p] :
                      LASTWORD_BY_VALUE(w) /\ s = p \o w /\ u = array'[p][w]) <=>
                   \E w \in DOMAIN array[p] :
                      LASTWORD_BY_VALUE(w) /\ s = p \o w /\ u = IF s = k THEN v ELSE array[p][w]
        <4>1. \A w \in DOMAIN array[p] : LASTWORD_BY_VALUE(w) /\ s = p \o w =>
                  array'[p][w] = IF s = k THEN v ELSE array[p][w]
          BY <1>5
        <4>2. DOMAIN array'[p] = DOMAIN array[p]
          BY <1>5
        <4> QED
          BY <4>1, <4>2
      <3> QED
        BY <1>5, <3>1
    <2>3. Cell(leaf', array', s, u) <=>
              \/ \E p \in DOMAIN leaf : s = p \o leaf[p].rest /\ u = IF s = k THEN v ELSE leaf[p].value
              \/ \E p \in DOMAIN array : \E w \in DOMAIN array[p] :
                    LASTWORD_BY_VALUE(w) /\ s = p \o w /\ u = IF s = k THEN v ELSE array[p][w]
      BY <2>1, <2>2 DEF Cell
    <2> QED
      BY <2>3 DEF Cell
  <1>7. \A s, u : Bound(s, u)' <=>
            IF s = k THEN u = v /\ \E x : Bound(s, x) ELSE Bound(s, u)
    BY <1>1, <1>6, BoundBecomes
  <1>8. Held' = [Held EXCEPT ![k] = v]
    BY <1>7, HeldPut
  <1> QED
    BY <1>1, <1>2, <1>8 DEF Map!Store

LEMMA FreeMap ==
    ASSUME IInv, HeldIs', JudySLFreeArray
    PROVE  Map!FreeArray
  <1>1. /\ DOMAIN leaf' = {} /\ DOMAIN array' = {}
        /\ Pscl' = NoLeaf /\ reply' = [op |-> "Free", code |-> "ok"] /\ "Free" \in Calls
    BY DEF JudySLFreeArray, FreeAll, Restrict, Answer, IInv, NodeInv
  <1>2. \A s, v : ~Bound(s, v)'
    BY <1>1, BoundBecomes DEF Cell
  <1>3. DOMAIN Held' = {} /\ Held' = [s \in DOMAIN Held' |-> Held'[s]]
    BY <1>2 DEF HeldIs
  <1>4. Held' = [k \in {} |-> 0]
    BY <1>3
  <1> QED
    BY <1>1, <1>4 DEF Map!FreeArray

\* Each step of the strings is a step of the map, or cannot be seen.
LEMMA StepMap ==
    ASSUME IInv, CallInv, HeldIs, HeldIs', Next
    PROVE  Map!Next \/ (Held' = Held /\ reply' = reply)
  <1>1. ASSUME NEW k \in Strings, Ins(k)
        PROVE  Held' = Held /\ reply' = reply
    <2>1. Pscl = NoLeaf /\ Pscl' = NoLeaf /\ leaf' = leaf /\ array' = array /\ reply' = reply
      BY <1>1 DEF Ins, nodes, IInv, CarryInv
    <2>2. \A s, v : Bound(s, v)' <=> Bound(s, v)
      BY <2>1, BoundIs, BoundBecomes
    <2> QED
      BY <2>1, <2>2, HeldSame
  <1>2. ASSUME PassNode \/ SameWord
        PROVE  Held' = Held /\ reply' = reply
    <2>1. UNCHANGED <<leaf, array, at, Pscl, reply>>
      BY <1>2 DEF PassNode, SameWord, nodes
    <2>2. \A s, v : Bound(s, v)' <=> Bound(s, v)
      BY <2>1, BoundIs, BoundBecomes
    <2> QED
      BY <2>1, <2>2, HeldSame
  <1>3. ASSUME TakeSCL \/ PlugOld
        PROVE  Held' = Held /\ reply' = reply
    BY <1>3, TakeMap, PlugMap DEF TakeSCL, PlugOld, Plug
  <1>4. ASSUME AppendSCL \/ FoundSCL \/ PlugFails \/ InsWord
        PROVE  (\E k \in Strings : Map!Ins(k) \/ Map!NoMem(k)) \/ (Held' = Held /\ reply' = reply)
    BY <1>4, AppendMap, FoundMap, PlugFailsMap, InsWordMap
  <1>5. ASSUME NEW k \in Strings, JudySLDel(k)
        PROVE  (\E j \in Strings : Map!Del(j)) \/ (Held' = Held /\ reply' = reply)
    BY <1>5, DelMap
  <1>6. ASSUME NEW v \in Value, Store(v)
        PROVE  \E u \in Value : Map!Store(u)
    BY <1>6, StoreMap
  <1>7. ASSUME JudySLFreeArray
        PROVE  Map!FreeArray
    BY <1>7, FreeMap
  <1> QED
    BY <1>1, <1>2, <1>3, <1>4, <1>5, <1>6, <1>7 DEF Next, Insertion, Map!Next

-----------------------------------------------------------------------------
(* JudySL is a map *)

LEMMA HeldAlways == IInv /\ CallInv => HeldIs
  BY HeldIsBound DEF CallInv

LEMMA EmptyMap == Init => Map!Init
  <1> SUFFICES ASSUME Init
               PROVE  Map!Init
    OBVIOUS
  <1>1. DOMAIN leaf = {} /\ DOMAIN array = {} /\ Pscl = NoLeaf
    BY DEF Init
  <1>2. Sound(leaf, array)
    BY <1>1 DEF Sound
  <1>3. \A s, v : ~Cell(leaf, array, s, v)
    BY <1>1 DEF Cell
  <1>4. DOMAIN Content = {} /\ Content = [s \in DOMAIN Content |-> Content[s]]
    BY <1>2, <1>3, ContentIs
  <1>5. Held = [k \in {} |-> 0]
    BY <1>1, <1>4 DEF Held
  <1> QED
    BY <1>5 DEF Init, Map!Init

LEMMA NextMap ==
    IInv /\ CallInv /\ IInv' /\ CallInv' /\ [Next]_vars => [Map!Next]_<<Held, reply>>
  <1>1. IInv' /\ CallInv' => HeldIs'
    BY HeldAlways, PTL
  <1> SUFFICES ASSUME IInv, CallInv, IInv', CallInv', [Next]_vars
               PROVE  Map!Next \/ (Held' = Held /\ reply' = reply)
    OBVIOUS
  <1>2. HeldIs /\ HeldIs'
    BY <1>1, HeldAlways
  <1>3. CASE Next
    BY <1>2, <1>3, StepMap
  <1>4. CASE UNCHANGED vars
    <2>1. UNCHANGED <<leaf, array, at, Pscl, reply>>
      BY <1>4 DEF vars, nodes, frame
    <2>2. \A s, v : Bound(s, v)' <=> Bound(s, v)
      BY <2>1, BoundIs, BoundBecomes
    <2> QED
      BY <1>2, <2>1, <2>2, HeldSame
  <1> QED
    BY <1>3, <1>4

(***************************************************************************)
(* JudySLGet finds exactly the strings in the tree, whatever failures have *)
(* left in it.                                                             *)
(***************************************************************************)
THEOREM GetsStrings == Spec => []GetAgrees
  <1>1. IInv /\ CallInv => GetAgrees
    <2> SUFFICES ASSUME IInv, CallInv, NEW s \in Strings
                 PROVE  JudySLGet(s) = {s} \cap DOMAIN Content
      BY DEF GetAgrees
    <2>1. s \in Seq(Chars)
      BY StringAssumption DEF Chars
    <2> QED
      BY <2>1, TreeSound, GetIs DEF CallInv
  <1> QED
    BY <1>1, CallAlways, PTL

(***************************************************************************)
(* JudySL is a map of strings, but for the one string that a failed call   *)
(* was carrying: what an insertion, a deletion, a store and FreeArray      *)
(* answer and leave is what JudyMap says, for words and strings of any     *)
(* length and failures anywhere.                                           *)
(***************************************************************************)
THEOREM StringsMap == Spec => MapSpec
  <1>1. Spec => Map!Init
    BY EmptyMap DEF Spec
  <1>2. Spec => [][Map!Next]_<<Held, reply>>
    BY CallAlways, NextMap, PTL DEF Spec
  <1> QED
    BY <1>1, <1>2, PTL DEF MapSpec, Map!Spec

-----------------------------------------------------------------------------
(* Types *)

LEMMA Joined == \A s, t, u \in Seq(Chars) : (s \o t) \o u = s \o (t \o u)
  BY ConcatAssociative

\* A path of a string, and the rest of the string there.
LEMMA TailIs ==
    ASSUME NEW p \in Paths, NEW r \in Seq(Chars), p \o r \in Strings
    PROVE  p \in Path /\ r \in Tails(p)
  BY PathIsPrefix DEF Path, Tails, Beyond

\* The arrays are at paths of strings, up to a length, with words of the caller.
Placed(a) ==
    /\ DOMAIN a \subseteq Path
    /\ \E n \in Nat : \A p \in DOMAIN a : Len(p) <= n
    /\ \A p \in DOMAIN a : \A w \in DOMAIN a[p] : ~LASTWORD_BY_VALUE(w) => a[p][w] \in Value

PlaceInv == at \in Path /\ Placed(array)

LEMMA PutsPlaced ==
    ASSUME IInv, PlaceInv, NEW b, NEW w, NEW v, LASTWORD_BY_VALUE(w) \/ v \in Value, Puts(b, w, v)
    PROVE  Placed(b)
  <1>1. PICK n \in Nat : \A p \in DOMAIN array : Len(p) <= n
    BY DEF PlaceInv, Placed
  <1>2. Len(at) \in Nat
    BY LenProperties DEF IInv, WalkInv, Paths
  <1>3. \E m \in Nat : \A p \in DOMAIN b : Len(p) <= m
    <2>1. \A p \in DOMAIN array : Len(p) \in Nat
      BY LenProperties DEF IInv, NodeInv, Paths
    <2>2. n + Len(at) \in Nat /\ \A p \in DOMAIN array \cup {at} : Len(p) <= n + Len(at)
      BY <1>1, <1>2, <2>1
    <2> QED
      BY <2>2 DEF Puts
  <1>4. ASSUME NEW p \in DOMAIN b, NEW x \in DOMAIN b[p], ~LASTWORD_BY_VALUE(x)
        PROVE  b[p][x] \in Value
    <2>1. CASE x \in WordsAt(p)
      <3>1. p \in DOMAIN array /\ x \in DOMAIN array[p]
        BY <2>1 DEF WordsAt
      <3> QED
        BY <1>4, <2>1, <3>1 DEF PlaceInv, Placed, Puts
    <2>2. CASE x \notin WordsAt(p)
      BY <1>4, <2>2 DEF Puts
    <2> QED
      BY <2>1, <2>2
  <1>5. DOMAIN b \subseteq Path
    BY DEF Puts, PlaceInv, Placed
  <1> QED
    BY <1>3, <1>4, <1>5 DEF Placed

LEMMA PlaceStep ==
    ASSUME IInv, CallInv, PlaceInv, Next
    PROVE  PlaceInv'
  <1>0. at \in Path /\ Placed(array) /\ <<>> \in Path /\ 0 \in Value
    BY StringAssumption DEF PlaceInv, Path
  <1>1. ASSUME UNCHANGED array, at' = at \/ at' = <<>>
        PROVE  PlaceInv'
    BY <1>0, <1>1 DEF PlaceInv, Placed
  <1>2. ASSUME NEW w, NEW v, LASTWORD_BY_VALUE(w) \/ v \in Value, Puts(array', w, v), at' \in Path
        PROVE  PlaceInv'
    <2>1. Placed(array')
      BY <1>2, PutsPlaced
    <2> QED
      BY <1>2, <2>1 DEF PlaceInv, Placed
  <1>3. ASSUME AppendSCL \/ FoundSCL \/ TakeSCL \/ PassNode \/ SameWord
        PROVE  PlaceInv'
    BY <1>1, <1>3 DEF AppendSCL, FoundSCL, TakeSCL, PassNode, SameWord, nodes, Returns, Fails, Answer
  <1>4. ASSUME PlugOld PROVE PlaceInv'
    <2> DEFINE w == Word(Pscl.rest)
    <2>1. at' = at /\ IsNull(at)
      BY <1>4 DEF PlugOld, Plug, IInv, CarryInv
    <2>2. CASE LASTWORD_BY_VALUE(w) /\ array' = With(array, at, With(InsertWord(w)[at], w, Pscl.value))
      <3>1. Puts(array', w, Pscl.value)
        BY <2>1, <2>2, PlugPuts
      <3> QED
        BY <1>0, <1>2, <2>1, <2>2, <3>1
    <2>3. CASE array' = InsertWord(w)
      <3>1. Puts(array', w, 0)
        BY <2>3, InsertWordPuts
      <3> QED
        BY <1>0, <1>2, <2>1, <3>1
    <2> QED
      BY <1>4, <2>2, <2>3 DEF PlugOld, Plug
  <1>5. ASSUME PlugFails PROVE PlaceInv'
    <2> DEFINE w == Word(Pscl.rest)
    <2>1. at' = <<>>
      BY <1>5 DEF PlugFails, Fails, Answer
    <2>2. CASE array' = InsertWord(w)
      <3>1. Puts(array', w, 0)
        BY <2>2, InsertWordPuts
      <3> QED
        BY <1>0, <1>2, <2>1, <3>1
    <2> QED
      BY <1>1, <1>5, <2>1, <2>2 DEF PlugFails
  <1>6. ASSUME InsWord PROVE PlaceInv'
    <2> DEFINE w == Word(pos)
    <2>1. pc = "next" /\ pos \in Seq(Chars) /\ at \in Paths /\ at \in Seq(Chars)
          /\ key \in Strings /\ key = at \o pos /\ w \in Seq(Chars)
      BY <1>6, WordAndRest DEF InsWord, InsWordTo, IInv, WalkInv, CallInv, KeyInv, Paths
    <2>2. CASE UNCHANGED array /\ Fails
      BY <1>1, <2>2 DEF Fails, Answer
    <2>3. CASE array' = InsertWord(w)
      <3>1. Puts(array', w, 0)
        BY <2>3, InsertWordPuts
      <3>2. ASSUME NEW c, Returns(c, at \o w)
            PROVE  at' \in Path
        BY <1>0, <3>2 DEF Returns, Answer
      <3>3. ASSUME ~LASTWORD_BY_VALUE(w), at' = at \o w
            PROVE  at' \in Path
        <4>1. w \in Seq(Chars) /\ Rest(pos) \in Seq(Chars) /\ pos = w \o Rest(pos) /\ Len(w) = WORDSIZE
          BY <2>1, <3>3, WordAndRest
        <4>2. key = (at \o w) \o Rest(pos)
          <5> HIDE DEF w
          <5>1. at \o (w \o Rest(pos)) = (at \o w) \o Rest(pos)
            BY <2>1, <4>1, Joined
          <5> QED
            BY <2>1, <4>1, <5>1
        <4>3. at \o w \in Paths
          <5>1. Len(at) \in Nat /\ Len(at) % WORDSIZE = 0
            BY <2>1, LenProperties DEF Paths
          <5>2. at \o w \in Seq(Chars) /\ Len(at \o w) = Len(at) + WORDSIZE
            BY <2>1, <4>1, WordSizeNat, ChildParts
          <5>3. (Len(at) + WORDSIZE) % WORDSIZE = 0
            BY <5>1, WordSizeNat, NextBorder
          <5> QED
            BY <5>2, <5>3 DEF Paths
        <4> QED
          BY <2>1, <3>3, <4>1, <4>2, <4>3, TailIs
      <3>4. at' \in Path
        BY <1>6, <2>1, <3>2, <3>3, <1>0 DEF InsWord, InsWordTo, Fails, Answer
      <3> QED
        BY <1>0, <1>2, <3>1, <3>4
    <2> QED
      BY <1>6, <2>2, <2>3 DEF InsWord, InsWordTo
  <1>7. ASSUME NEW k \in Strings, Ins(k) \/ JudySLDel(k) PROVE PlaceInv'
    BY <1>1, <1>7 DEF Ins, JudySLDel, nodes, Answer
  <1>8. ASSUME NEW v \in Value, Store(v) PROVE PlaceInv'
    <2>1. /\ DOMAIN array' = DOMAIN array /\ at' = at
          /\ \A p \in DOMAIN array : /\ DOMAIN array'[p] = DOMAIN array[p]
                                     /\ \A w \in DOMAIN array[p] :
                                           ~LASTWORD_BY_VALUE(w) => array'[p][w] = array[p][w]
      BY <1>8 DEF Store, frame
    <2> QED
      BY <1>0, <2>1 DEF PlaceInv, Placed
  <1>9. ASSUME JudySLFreeArray PROVE PlaceInv'
    <2>1. DOMAIN array' = {} /\ at' = <<>>
      <3> DEFINE reached == {p \in DOMAIN leaf \cup DOMAIN array : Linked(array, p)}
      <3>1. DOMAIN array \ reached = {}
        BY DEF IInv, NodeInv
      <3>2. array' = Restrict(array, DOMAIN array \ reached) /\ at' = <<>>
        BY <1>9 DEF JudySLFreeArray, FreeAll, Answer
      <3> HIDE DEF reached
      <3> QED
        BY <3>1, <3>2 DEF Restrict
    <2>2. 0 \in Nat
      OBVIOUS
    <2> QED
      BY <1>0, <2>1, <2>2 DEF PlaceInv, Placed
  <1> QED
    BY <1>3, <1>4, <1>5, <1>6, <1>7, <1>8, <1>9 DEF Next, Insertion

\* What the map holds, finitely many strings of the callers and their words.
HeldInv ==
    /\ DOMAIN Held \subseteq Strings /\ IsFiniteSet(DOMAIN Held)
    /\ \A s \in DOMAIN Held : Held[s] \in Value

LEMMA HeldStep ==
    ASSUME HeldInv, Map!Next \/ Held' = Held
    PROVE  HeldInv'
  <1>1. 0 \in Value
    BY StringAssumption
  <1>2. CASE UNCHANGED Held
    BY <1>2 DEF HeldInv
  <1>3. ASSUME NEW k \in Strings, Map!Ins(k) PROVE HeldInv'
    <2>1. CASE Held' = [j \in DOMAIN Held \cup {k} |-> IF j = k THEN 0 ELSE Held[j]]
      <3>1. IsFiniteSet(DOMAIN Held')
        BY <2>1, FS_AddElement DEF HeldInv
      <3> QED
        BY <1>1, <2>1, <3>1 DEF HeldInv
    <2> QED
      BY <1>2, <1>3, <2>1 DEF Map!Ins
  <1>4. ASSUME NEW k, Held' = [j \in DOMAIN Held \ {k} |-> Held[j]] PROVE HeldInv'
    <2>1. IsFiniteSet(DOMAIN Held')
      BY <1>4, FS_RemoveElement DEF HeldInv
    <2> QED
      BY <1>4, <2>1 DEF HeldInv
  <1>5. ASSUME NEW k \in Strings, Map!NoMem(k) \/ Map!Del(k) PROVE HeldInv'
    BY <1>2, <1>4, <1>5 DEF Map!NoMem, Map!Del
  <1>6. ASSUME NEW v \in Value, Map!Store(v) PROVE HeldInv'
    BY <1>6 DEF HeldInv, Map!Store
  <1>7. ASSUME Map!FreeArray PROVE HeldInv'
    BY <1>7, FS_EmptySet DEF HeldInv, Map!FreeArray
  <1> QED
    BY <1>2, <1>3, <1>5, <1>6, <1>7 DEF Map!Next

\* All of it.
KindInv == IInv /\ CallInv /\ HeapInv /\ PlaceInv /\ HeldInv

LEMMA KindAlways == Spec => []KindInv
  <1>1. Init => HeapInv
    <2> SUFFICES ASSUME Init
                 PROVE  HeapInv
      OBVIOUS
    <2>1. DOMAIN leaf = {} /\ Pscl = NoLeaf /\ sclWords = 0 /\ scl2 = 0 /\ nfail = 0
      BY DEF Init
    <2>2. LeafWords(leaf) = 0 /\ IsFiniteSet(DOMAIN leaf)
      BY <2>1, NoLeafWords, FS_EmptySet
    <2> QED
      BY <2>1, <2>2, StringAssumption DEF HeapInv, Lost
  <1>2. Init => PlaceInv
    <2> SUFFICES ASSUME Init
                 PROVE  PlaceInv
      OBVIOUS
    <2>1. DOMAIN array = {} /\ at = <<>> /\ 0 \in Nat
      BY DEF Init
    <2> QED
      BY <2>1 DEF PlaceInv, Placed, Path
  <1>3. Init => HeldInv
    <2> SUFFICES ASSUME Init
                 PROVE  HeldInv
      OBVIOUS
    <2>1. DOMAIN Held = {}
      BY EmptyMap DEF Map!Init
    <2> QED
      BY <2>1, FS_EmptySet DEF HeldInv
  <1>4. IInv /\ HeapInv /\ [Next]_vars => HeapInv'
    <2> SUFFICES ASSUME IInv, HeapInv, [Next]_vars
                 PROVE  HeapInv'
      OBVIOUS
    <2>1. CASE UNCHANGED vars
      BY <2>1 DEF vars, nodes, frame, HeapInv, Lost, LeafWords
    <2> QED
      BY <2>1, HeapStep
  <1>5. IInv /\ CallInv /\ PlaceInv /\ [Next]_vars => PlaceInv'
    <2> SUFFICES ASSUME IInv, CallInv, PlaceInv, [Next]_vars
                 PROVE  PlaceInv'
      OBVIOUS
    <2>1. CASE UNCHANGED vars
      BY <2>1 DEF vars, nodes, frame, PlaceInv, Placed
    <2> QED
      BY <2>1, PlaceStep
  <1>6. HeldInv /\ [Map!Next]_<<Held, reply>> => HeldInv'
    BY HeldStep
  <1>7. Spec => [](IInv /\ CallInv)
    BY CallAlways
  <1>8. Spec => []HeapInv
    BY <1>1, <1>4, <1>7, PTL DEF Spec
  <1>9. Spec => []PlaceInv
    BY <1>2, <1>5, <1>7, PTL DEF Spec
  <1>10. Spec => []HeldInv
    BY <1>3, <1>6, <1>7, NextMap, PTL DEF Spec
  <1> QED
    BY <1>7, <1>8, <1>9, <1>10, PTL DEF KindInv

\* Every string of the tree, and the one that is carried, is a caller's.
LEMMA CellsKind ==
    ASSUME KindInv
    PROVE  /\ \A s, v : Cell(leaf, array, s, v) => s \in Strings /\ v \in Value
           /\ Pscl # NoLeaf => at \o Pscl.rest \in Strings /\ Pscl.value \in Value
  <1>1. HeldIs
    BY HeldAlways DEF KindInv
  <1>2. \A s, v : Bound(s, v) => s \in Strings /\ v \in Value
    BY <1>1 DEF KindInv, HeldInv, HeldIs
  <1> QED
    BY <1>2 DEF Bound

LEMMA KindType == KindInv => TypeOK
  <1> SUFFICES ASSUME KindInv
               PROVE  TypeOK
    OBVIOUS
  <1>1. /\ \A s, v : Cell(leaf, array, s, v) => s \in Strings /\ v \in Value
        /\ Pscl # NoLeaf => at \o Pscl.rest \in Strings /\ Pscl.value \in Value
    BY CellsKind
  <1>2. ASSUME NEW p \in DOMAIN leaf
        PROVE  p \in Path /\ leaf[p].rest \in Tails(p) /\ leaf[p].value \in Value
    <2>1. p \in Paths /\ leaf[p].rest \in Seq(Chars)
      BY DEF KindInv, IInv, NodeInv, LeafSet
    <2>2. Cell(leaf, array, p \o leaf[p].rest, leaf[p].value)
      BY DEF Cell
    <2> QED
      BY <1>1, <2>1, <2>2, TailIs
  <1>3. ASSUME NEW p \in DOMAIN array, NEW w \in DOMAIN array[p]
        PROVE  array[p][w] \in Value
    <2>1. CASE LASTWORD_BY_VALUE(w)
      <3>1. Cell(leaf, array, p \o w, array[p][w])
        BY <2>1 DEF Cell
      <3> QED
        BY <1>1, <3>1
    <2>2. CASE ~LASTWORD_BY_VALUE(w)
      BY <2>2 DEF KindInv, PlaceInv, Placed
    <2> QED
      BY <2>1, <2>2
  <1>4. DOMAIN array \subseteq Path /\ at \in Path
    BY DEF KindInv, PlaceInv, Placed
  <1>5. pc \in {"top", "word", "next"} => key \in Strings /\ pos \in Tails(at)
    <2> SUFFICES ASSUME pc \in {"top", "word", "next"}
                 PROVE  key \in Strings /\ pos \in Tails(at)
      OBVIOUS
    <2>1. at \in Paths /\ pos \in Seq(Chars) /\ key \in Strings /\ key = at \o pos
      BY DEF KindInv, IInv, WalkInv, CallInv, KeyInv
    <2> QED
      BY <2>1, TailIs
  <1>6. pc \in {"idle", "top", "word", "next", "exited"}
    BY DEF KindInv, IInv, WalkInv
  <1>7. Pscl # NoLeaf => Pscl.rest \in Tails(at) /\ Pscl.value \in Value
    <2> SUFFICES ASSUME Pscl # NoLeaf
                 PROVE  Pscl.rest \in Tails(at) /\ Pscl.value \in Value
      OBVIOUS
    <2>1. at \in Paths /\ Pscl.rest \in Seq(Chars)
      BY DEF KindInv, IInv, WalkInv, CarryInv, LeafSet
    <2> QED
      BY <1>1, <2>1, TailIs
  <1>8. scl2 \in Nat /\ sclWords \in Nat /\ nfail \in 0..MaxFail
    <2>1. /\ scl2 \in Nat /\ sclWords \in Int /\ nfail \in 0..MaxFail
          /\ sclWords - LeafWords(leaf) - (IF Pscl # NoLeaf THEN scl2 ELSE 0) >= 0
      BY DEF KindInv, HeapInv, Lost
    <2>2. LeafWords(leaf) \in Nat
      BY SumFinite DEF KindInv, HeapInv, Leaves, IInv, NodeInv
    <2> QED
      BY <2>1, <2>2
  <1> QED
    BY <1>2, <1>3, <1>4, <1>5, <1>6, <1>7, <1>8 DEF TypeOK

(***************************************************************************)
(* Leaves and arrays are at paths of strings of the callers, every leaf    *)
(* has the rest of one, and what is freed was malloc'ed, whatever failed.  *)
(***************************************************************************)
THEOREM StringTypes == Spec => []TypeOK
  BY KindAlways, KindType, PTL

-----------------------------------------------------------------------------
(* The order of strings *)

LEMMA NotLessSelf == \A s \in Seq(Chars) : ~StrLess(s, s)
  <1> SUFFICES ASSUME NEW s \in Seq(Chars), StrLess(s, s)
               PROVE  FALSE
    OBVIOUS
  <1>1. Len(s) \in Nat /\ \A i \in 1..Len(s) : s[i] \in Nat
    BY LenProperties, ElementOfSeq DEF Chars
  <1>2. PICK i \in 0..Len(s) : i < Len(s) /\ (i = Len(s) \/ s[i + 1] < s[i + 1])
    BY DEF StrLess
  <1>3. i + 1 \in 1..Len(s)
    BY <1>1, <1>2
  <1>4. s[i + 1] \in Nat
    BY <1>1, <1>3
  <1> QED
    BY <1>1, <1>2, <1>4

\* Two strings are the same as far as one goes, or first differ somewhere.
LEMMA LessTotal ==
    ASSUME NEW s \in Seq(Chars), NEW t \in Seq(Chars), s # t
    PROVE  StrLess(s, t) \/ StrLess(t, s)
  <1>1. /\ Len(s) \in Nat /\ \A i \in 1..Len(s) : s[i] \in Nat
        /\ Len(t) \in Nat /\ \A i \in 1..Len(t) : t[i] \in Nat
    BY LenProperties, ElementOfSeq DEF Chars
  <1> DEFINE D == {i \in Nat : i = Len(s) \/ i = Len(t) \/ s[i + 1] # t[i + 1]}
  <1>2. D \in SUBSET Nat /\ Len(s) \in D /\ Len(t) \in D
    BY <1>1
  <1>3. PICK i \in D : \A x \in D : i <= x
    <2> HIDE DEF D
    <2> QED
      BY <1>2, Least
  <1>4. i \in Nat /\ i <= Len(s) /\ i <= Len(t)
    BY <1>2, <1>3
  <1>5. ASSUME NEW j \in 1..i
        PROVE  s[j] = t[j]
    <2>1. j - 1 \in Nat /\ ~(i <= j - 1) /\ (j - 1) + 1 = j
      BY <1>4
    <2>2. j - 1 \notin D
      BY <1>3, <2>1
    <2> QED
      BY <2>1, <2>2
  <1>6. ~(i = Len(s) /\ i = Len(t))
    <2> SUFFICES ASSUME i = Len(s), i = Len(t)
                 PROVE  FALSE
      OBVIOUS
    <2> QED
      BY <1>5, SeqEqual
  <1>7. CASE i = Len(s)
    BY <1>1, <1>4, <1>5, <1>6, <1>7 DEF StrLess
  <1>8. CASE i = Len(t)
    BY <1>1, <1>4, <1>5, <1>6, <1>8 DEF StrLess
  <1>9. CASE i # Len(s) /\ i # Len(t)
    <2>1. i + 1 \in 1..Len(s) /\ i + 1 \in 1..Len(t)
      BY <1>1, <1>4, <1>9
    <2>2. s[i + 1] # t[i + 1] /\ s[i + 1] \in Nat /\ t[i + 1] \in Nat
      BY <1>1, <1>3, <1>9, <2>1
    <2>3. s[i + 1] < t[i + 1] \/ t[i + 1] < s[i + 1]
      BY <2>2
    <2> QED
      BY <1>1, <1>4, <1>5, <1>9, <2>3 DEF StrLess
  <1> QED
    BY <1>7, <1>8, <1>9

LEMMA LessTransitive ==
    ASSUME NEW s \in Seq(Chars), NEW t \in Seq(Chars), NEW u \in Seq(Chars),
           StrLess(s, t), StrLess(t, u)
    PROVE  StrLess(s, u)
  <1>1. /\ Len(s) \in Nat /\ \A i \in 1..Len(s) : s[i] \in Nat
        /\ Len(t) \in Nat /\ \A i \in 1..Len(t) : t[i] \in Nat
        /\ Len(u) \in Nat /\ \A i \in 1..Len(u) : u[i] \in Nat
    BY LenProperties, ElementOfSeq DEF Chars
  <1>2. PICK i \in 0..Len(s) : /\ i < Len(t) /\ \A j \in 1..i : s[j] = t[j]
                               /\ i = Len(s) \/ s[i + 1] < t[i + 1]
    BY DEF StrLess
  <1>3. PICK k \in 0..Len(t) : /\ k < Len(u) /\ \A j \in 1..k : t[j] = u[j]
                               /\ k = Len(t) \/ t[k + 1] < u[k + 1]
    BY DEF StrLess
  <1>4. i \in Nat /\ k \in Nat
    BY <1>1
  <1>5. CASE i < k
    <2>1. i < Len(u) /\ \A j \in 1..i : s[j] = u[j]
      BY <1>1, <1>2, <1>3, <1>4, <1>5
    <2>2. i + 1 \in 1..k
      BY <1>4, <1>5
    <2>3. i = Len(s) \/ s[i + 1] < u[i + 1]
      BY <1>2, <1>3, <2>2
    <2> QED
      BY <2>1, <2>3 DEF StrLess
  <1>6. CASE k < i
    <2>1. k \in 0..Len(s) /\ \A j \in 1..k : s[j] = u[j]
      BY <1>1, <1>2, <1>3, <1>4, <1>6
    <2>2. k + 1 \in 1..i /\ k # Len(t)
      BY <1>1, <1>2, <1>4, <1>6
    <2>3. s[k + 1] < u[k + 1]
      BY <1>2, <1>3, <2>2
    <2> QED
      BY <1>3, <2>1, <2>3 DEF StrLess
  <1>7. CASE i = k
    <2>1. i < Len(u) /\ \A j \in 1..i : s[j] = u[j]
      BY <1>2, <1>3, <1>7
    <2>2. t[i + 1] < u[i + 1]
      BY <1>1, <1>2, <1>3, <1>7
    <2>3. i = Len(s) \/ s[i + 1] < u[i + 1]
      <3> SUFFICES ASSUME i # Len(s)
                   PROVE  s[i + 1] < u[i + 1]
        OBVIOUS
      <3>1. i + 1 \in 1..Len(s) /\ i + 1 \in 1..Len(t) /\ i + 1 \in 1..Len(u)
        BY <1>1, <1>2, <1>4, <2>1
      <3>2. s[i + 1] \in Nat /\ t[i + 1] \in Nat /\ u[i + 1] \in Nat
        BY <1>1, <3>1
      <3> QED
        BY <1>2, <2>2, <3>2
    <2> QED
      BY <2>1, <2>3 DEF StrLess
  <1> QED
    BY <1>4, <1>5, <1>6, <1>7

\* The characters of the next word, and of what follows it.
LEMMA WordChars ==
    ASSUME NEW s \in Seq(Chars)
    PROVE  /\ Len(Word(s)) \in Nat /\ Len(Word(s)) <= Len(s) /\ Len(Word(s)) <= WORDSIZE
           /\ \A i \in 1..Len(Word(s)) : Word(s)[i] = s[i]
           /\ Len(Word(s)) < WORDSIZE => Len(Word(s)) = Len(s)
           /\ Len(Word(s)) = WORDSIZE =>
                 /\ Len(s) = WORDSIZE + Len(Rest(s))
                 /\ \A i \in 1..Len(Rest(s)) : Rest(s)[i] = s[WORDSIZE + i]
  <1> USE WordSizeNat
  <1> DEFINE n == IF Len(s) < WORDSIZE THEN Len(s) ELSE WORDSIZE
  <1>1. Len(s) \in Nat /\ \A i \in 1..Len(s) : s[i] \in Chars
    BY LenProperties, ElementOfSeq
  <1>2. Word(s) = SubSeq(s, 1, n) /\ n \in 0..Len(s)
    BY <1>1 DEF Word
  <1>3. Len(Word(s)) = n /\ \A i \in 1..n : Word(s)[i] = s[i]
    <2>1. \A i \in 1..n : i \in 1..Len(s) /\ s[i] \in Chars
      BY <1>1, <1>2
    <2> HIDE DEF n
    <2>2. n \in Nat
      BY <1>1, <1>2
    <2>3. Len(SubSeq(s, 1, n)) = n /\ \A i \in 1..n : SubSeq(s, 1, n)[i] = s[i]
      BY <1>1, <2>1, <2>2, SubSeqProperties
    <2> QED
      BY <1>2, <2>3
  <1>4. ASSUME n = WORDSIZE
        PROVE  /\ Len(s) = WORDSIZE + Len(Rest(s))
               /\ \A i \in 1..Len(Rest(s)) : Rest(s)[i] = s[WORDSIZE + i]
    <2>1. WORDSIZE <= Len(s)
      BY <1>1, <1>4
    <2>2. CASE WORDSIZE = Len(s)
      <3>1. Rest(s) = <<>>
        BY <1>1, <2>2, SubSeqEmpty DEF Rest
      <3> QED
        BY <2>2, <3>1, EmptySeq
    <2>3. CASE WORDSIZE < Len(s)
      <3>1. \A i \in WORDSIZE + 1..Len(s) : i \in 1..Len(s) /\ s[i] \in Chars
        BY <1>1
      <3>2. /\ Len(SubSeq(s, WORDSIZE + 1, Len(s))) = Len(s) - (WORDSIZE + 1) + 1
            /\ \A i \in 1..(Len(s) - (WORDSIZE + 1) + 1) :
                  SubSeq(s, WORDSIZE + 1, Len(s))[i] = s[WORDSIZE + 1 + i - 1]
        BY <1>1, <2>3, <3>1, SubSeqProperties
      <3>3. Len(Rest(s)) = Len(s) - WORDSIZE
        BY <1>1, <3>2 DEF Rest
      <3>4. \A i \in 1..Len(Rest(s)) : WORDSIZE + 1 + i - 1 = WORDSIZE + i
        BY <1>1, <3>3
      <3> QED
        BY <1>1, <3>2, <3>3, <3>4 DEF Rest
    <2> QED
      BY <1>1, <2>1, <2>2, <2>3
  <1> QED
    BY <1>1, <1>2, <1>3, <1>4

\* Strings are in the order of their words where these differ,
LEMMA WordsLess ==
    ASSUME NEW s \in Seq(Chars), NEW t \in Seq(Chars), StrLess(Word(s), Word(t))
    PROVE  StrLess(s, t)
  <1> USE WordSizeNat
  <1> DEFINE w == Word(s)
             v == Word(t)
  <1>1. Len(s) \in Nat /\ Len(t) \in Nat
    BY LenProperties
  <1>2. /\ Len(w) \in Nat /\ Len(w) <= Len(s) /\ Len(w) <= WORDSIZE
        /\ \A i \in 1..Len(w) : w[i] = s[i]
        /\ Len(w) < WORDSIZE => Len(w) = Len(s)
    BY WordChars
  <1>3. /\ Len(v) \in Nat /\ Len(v) <= Len(t) /\ Len(v) <= WORDSIZE
        /\ \A i \in 1..Len(v) : v[i] = t[i]
    BY WordChars
  <1>4. StrLess(w, v)
    OBVIOUS
  <1> HIDE DEF w, v
  <1>5. PICK i \in 0..Len(w) : /\ i < Len(v) /\ \A j \in 1..i : w[j] = v[j]
                               /\ i = Len(w) \/ w[i + 1] < v[i + 1]
    BY <1>4 DEF StrLess
  <1>6. i \in 0..Len(s) /\ i < Len(t) /\ i \in Nat
    BY <1>1, <1>2, <1>3, <1>5
  <1>7. \A j \in 1..i : j \in 1..Len(w) /\ j \in 1..Len(v)
    BY <1>2, <1>3, <1>5
  <1>8. \A j \in 1..i : s[j] = t[j]
    BY <1>2, <1>3, <1>5, <1>7
  <1>9. i = Len(s) \/ s[i + 1] < t[i + 1]
    <2>1. CASE i = Len(w)
      BY <1>2, <1>3, <1>5, <2>1
    <2>2. CASE i # Len(w)
      <3>1. i + 1 \in 1..Len(w) /\ i + 1 \in 1..Len(v)
        BY <1>2, <1>3, <1>5, <2>2
      <3> QED
        BY <1>2, <1>3, <1>5, <2>2, <3>1
    <2> QED
      BY <2>1, <2>2
  <1> QED
    BY <1>6, <1>8, <1>9 DEF StrLess

\* and of what follows where they do not.
LEMMA RestsLess ==
    ASSUME NEW s \in Seq(Chars), NEW t \in Seq(Chars), Word(s) = Word(t),
           ~LASTWORD_BY_VALUE(Word(s)), StrLess(Rest(s), Rest(t))
    PROVE  StrLess(s, t)
  <1> USE WordSizeNat
  <1> DEFINE x == Rest(s)
             y == Rest(t)
  <1>1. x \in Seq(Chars) /\ y \in Seq(Chars) /\ Len(x) \in Nat /\ Len(y) \in Nat
        /\ Len(s) \in Nat /\ Len(t) \in Nat
    BY WordAndRest, LenProperties
  <1>2. Len(Word(s)) = WORDSIZE
    BY WordAndRest
  <1>3. /\ Len(s) = WORDSIZE + Len(x) /\ \A i \in 1..Len(x) : x[i] = s[WORDSIZE + i]
        /\ Len(t) = WORDSIZE + Len(y) /\ \A i \in 1..Len(y) : y[i] = t[WORDSIZE + i]
        /\ \A i \in 1..WORDSIZE : s[i] = t[i]
    <2>1. /\ \A i \in 1..WORDSIZE : Word(s)[i] = s[i]
          /\ Len(s) = WORDSIZE + Len(x) /\ \A i \in 1..Len(x) : x[i] = s[WORDSIZE + i]
      BY <1>2, WordChars
    <2>2. /\ \A i \in 1..WORDSIZE : Word(t)[i] = t[i]
          /\ Len(t) = WORDSIZE + Len(y) /\ \A i \in 1..Len(y) : y[i] = t[WORDSIZE + i]
      BY <1>2, WordChars
    <2> QED
      BY <2>1, <2>2
  <1>4. StrLess(x, y)
    OBVIOUS
  <1> HIDE DEF x, y
  <1>5. PICK i \in 0..Len(x) : /\ i < Len(y) /\ \A j \in 1..i : x[j] = y[j]
                               /\ i = Len(x) \/ x[i + 1] < y[i + 1]
    BY <1>4 DEF StrLess
  <1> DEFINE k == WORDSIZE + i
  <1>6. k \in 0..Len(s) /\ k < Len(t) /\ i \in Nat
    BY <1>1, <1>3, <1>5
  <1>7. ASSUME NEW j \in 1..k
        PROVE  s[j] = t[j]
    <2>1. CASE j <= WORDSIZE
      <3>1. j \in 1..WORDSIZE
        BY <2>1
      <3> QED
        BY <1>3, <3>1
    <2>2. CASE ~(j <= WORDSIZE)
      <3>1. /\ j - WORDSIZE \in 1..i /\ j - WORDSIZE \in 1..Len(x) /\ j - WORDSIZE \in 1..Len(y)
            /\ WORDSIZE + (j - WORDSIZE) = j
        BY <1>1, <1>5, <1>6, <2>2
      <3> QED
        BY <1>3, <1>5, <3>1
    <2> QED
      BY <2>1, <2>2
  <1>8. k = Len(s) \/ s[k + 1] < t[k + 1]
    <2>1. CASE i = Len(x)
      BY <1>3, <2>1
    <2>2. CASE i # Len(x)
      <3>1. i + 1 \in 1..Len(x) /\ i + 1 \in 1..Len(y) /\ WORDSIZE + (i + 1) = k + 1
        BY <1>1, <1>5, <1>6, <2>2
      <3> HIDE DEF k
      <3> QED
        BY <1>3, <1>5, <2>2, <3>1
    <2> QED
      BY <2>1, <2>2
  <1> HIDE DEF k
  <1> QED
    BY <1>6, <1>7, <1>8 DEF StrLess

LEMMA WordOrder ==
    ASSUME NEW s \in Seq(Chars), NEW t \in Seq(Chars)
    PROVE  StrLess(s, t) <=>
              IF Word(s) = Word(t) THEN ~LASTWORD_BY_VALUE(Word(s)) /\ StrLess(Rest(s), Rest(t))
              ELSE StrLess(Word(s), Word(t))
  <1>0. ~(StrLess(s, t) /\ StrLess(t, s))
    BY LessTransitive, NotLessSelf
  <1>1. /\ Word(s) \in Seq(Chars) /\ Rest(s) \in Seq(Chars)
        /\ Word(t) \in Seq(Chars) /\ Rest(t) \in Seq(Chars)
    BY WordAndRest
  <1>2. CASE Word(s) # Word(t)
    <2>1. StrLess(Word(s), Word(t)) \/ StrLess(Word(t), Word(s))
      BY <1>1, <1>2, LessTotal
    <2> QED
      BY <1>0, <1>2, <2>1, WordsLess
  <1>3. CASE Word(s) = Word(t)
    <2>1. CASE LASTWORD_BY_VALUE(Word(s))
      <3>1. s = t
        BY <1>3, <2>1, WordAndRest
      <3> QED
        BY <1>3, <2>1, <3>1, NotLessSelf
    <2>2. CASE ~LASTWORD_BY_VALUE(Word(s))
      <3>1. StrLess(Rest(s), Rest(t)) => StrLess(s, t)
        BY <1>3, <2>2, RestsLess
      <3>2. StrLess(Rest(t), Rest(s)) => StrLess(t, s)
        BY <1>3, <2>2, RestsLess
      <3>3. Rest(s) = Rest(t) => s = t
        BY <1>3, <2>2, WordAndRest
      <3>4. Rest(s) # Rest(t) => StrLess(Rest(s), Rest(t)) \/ StrLess(Rest(t), Rest(s))
        BY <1>1, LessTotal
      <3> QED
        BY <1>0, <1>1, <1>3, <2>2, <3>1, <3>2, <3>3, <3>4, NotLessSelf
    <2> QED
      BY <2>1, <2>2
  <1> QED
    BY <1>2, <1>3

-----------------------------------------------------------------------------
(* The nearest of a set of strings *)

\* s comes before t, upwards or downwards.
Prec(up, s, t) == IF up THEN StrLess(s, t) ELSE StrLess(t, s)

\* The first of R, and the first beyond s.
Foremost(up, R) == {t \in R : \A u \in R : ~Prec(up, u, t)}

Onward(up, R, s) == {t \in R : Prec(up, s, t) /\ \A u \in R : Prec(up, s, u) => ~Prec(up, u, t)}

LEMMA PrecOrder ==
    ASSUME NEW up \in BOOLEAN
    PROVE  /\ \A s \in Seq(Chars) : ~Prec(up, s, s)
           /\ \A s, t \in Seq(Chars) : s # t => Prec(up, s, t) \/ Prec(up, t, s)
           /\ \A s, t, u \in Seq(Chars) : Prec(up, s, t) /\ Prec(up, t, u) => Prec(up, s, u)
  BY NotLessSelf, LessTotal, LessTransitive DEF Prec

LEMMA PrecWords ==
    ASSUME NEW up \in BOOLEAN, NEW s \in Seq(Chars), NEW t \in Seq(Chars)
    PROVE  /\ Word(s) # Word(t) => (Prec(up, s, t) <=> Prec(up, Word(s), Word(t)))
           /\ Word(s) = Word(t) /\ ~LASTWORD_BY_VALUE(Word(s)) =>
                 (Prec(up, s, t) <=> Prec(up, Rest(s), Rest(t)))
           /\ Word(s) = Word(t) /\ LASTWORD_BY_VALUE(Word(s)) => ~Prec(up, s, t)
  <1>1. CASE up
    BY <1>1, WordOrder DEF Prec
  <1>2. CASE ~up
    BY <1>2, WordOrder DEF Prec
  <1> QED
    BY <1>1, <1>2

\* Some string is the first of finitely many.
LEMMA ForemostThere ==
    ASSUME NEW up \in BOOLEAN, NEW R \in SUBSET Seq(Chars), IsFiniteSet(R), R # {}
    PROVE  Foremost(up, R) # {}
  <1> DEFINE P == {T \in SUBSET R : T # {} => Foremost(up, T) # {}}
  <1>1. {} \in P
    OBVIOUS
  <1>2. ASSUME NEW T \in SUBSET R, NEW x \in R, x \notin T, T \in P
        PROVE  T \cup {x} \in P
    <2>1. CASE T = {}
      <3>1. T \cup {x} = {x} /\ x \in Seq(Chars)
        BY <2>1
      <3>2. x \in Foremost(up, {x})
        BY <3>1, PrecOrder DEF Foremost
      <3> QED
        BY <3>1, <3>2
    <2>2. CASE T # {}
      <3>1. PICK t \in Foremost(up, T) : TRUE
        BY <1>2, <2>2
      <3>2. t \in T /\ (\A u \in T : ~Prec(up, u, t)) /\ t \in Seq(Chars) /\ x \in Seq(Chars)
        BY <3>1 DEF Foremost
      <3>3. CASE Prec(up, x, t)
        <4>1. ASSUME NEW u \in T \cup {x}
              PROVE  ~Prec(up, u, x)
          <5>1. u \in Seq(Chars)
            OBVIOUS
          <5> QED
            BY <3>2, <3>3, <4>1, <5>1, PrecOrder
        <4>2. x \in Foremost(up, T \cup {x})
          BY <4>1 DEF Foremost
        <4> QED
          BY <4>2
      <3>4. CASE ~Prec(up, x, t)
        <4>1. t \in Foremost(up, T \cup {x})
          BY <3>2, <3>4 DEF Foremost
        <4> QED
          BY <4>1
      <3> QED
        BY <3>3, <3>4
    <2> QED
      BY <2>1, <2>2
  <1> HIDE DEF P
  <1>3. R \in P
    BY <1>1, <1>2, OneByOne
  <1> QED
    BY <1>3 DEF P

LEMMA OnwardThere ==
    ASSUME NEW up \in BOOLEAN, NEW R \in SUBSET Seq(Chars), IsFiniteSet(R), NEW s,
           NEW t \in R, Prec(up, s, t)
    PROVE  Onward(up, R, s) # {}
  <1> DEFINE T == {u \in R : Prec(up, s, u)}
  <1>1. T \in SUBSET Seq(Chars) /\ IsFiniteSet(T) /\ T # {}
    <2>1. T \subseteq R
      OBVIOUS
    <2> QED
      BY <2>1, FS_Subset
  <1>2. PICK u \in Foremost(up, T) : TRUE
    <2> HIDE DEF T
    <2> QED
      BY <1>1, ForemostThere
  <1>3. u \in Onward(up, R, s)
    BY <1>2 DEF Foremost, Onward
  <1> QED
    BY <1>3

-----------------------------------------------------------------------------
(* Strings by their next word *)

\* The strings whose next words are W, with what D has after the full ones.
Spelled(R, W, D) ==
    /\ R \in SUBSET Seq(Chars) /\ W \in SUBSET Seq(Chars)
    /\ \A w \in W : Len(w) <= WORDSIZE
    /\ \A w \in W : ~LASTWORD_BY_VALUE(w) => D[w] \in SUBSET Seq(Chars) /\ D[w] # {}
    /\ \A r \in Seq(Chars) :
          r \in R <=> Word(r) \in W /\ (LASTWORD_BY_VALUE(Word(r)) \/ Rest(r) \in D[Word(r)])

\* A word and what comes after it.
LEMMA WordOf ==
    ASSUME NEW w \in Seq(Chars), Len(w) <= WORDSIZE
    PROVE  /\ Word(w) = w
           /\ ~LASTWORD_BY_VALUE(w) =>
                 Len(w) = WORDSIZE /\ \A r \in Seq(Chars) : w \o r \in Seq(Chars) /\ Word(w \o r) = w /\ Rest(w \o r) = r
  <1> USE WordSizeNat
  <1>1. Len(w) \in Nat
    BY LenProperties
  <1>2. CASE LASTWORD_BY_VALUE(w)
    BY <1>2, LastWordIs
  <1>3. CASE ~LASTWORD_BY_VALUE(w)
    <2>1. Len(w) = WORDSIZE
      BY <1>1, <1>3 DEF LASTWORD_BY_VALUE
    <2>2. Word(w) = w
      BY <2>1, SubSeqFull DEF Word
    <2>3. ASSUME NEW r \in Seq(Chars)
          PROVE  w \o r \in Seq(Chars) /\ Word(w \o r) = w /\ Rest(w \o r) = r
      <3>1. /\ w \o r \in Seq(Chars)
            /\ Len(w \o r) = Len(w) + Len(r)
            /\ SubSeq(w \o r, 1, Len(w)) = w
            /\ SubSeq(w \o r, Len(w) + 1, Len(w \o r)) = r
        BY PartsOfTwo, ConcatProperties
      <3>2. ~(Len(w \o r) < WORDSIZE)
        BY <2>1, <3>1, LenProperties
      <3> QED
        BY <2>1, <3>1, <3>2 DEF Word, Rest
    <2> QED
      BY <1>3, <2>1, <2>2, <2>3
  <1> QED
    BY <1>2, <1>3

\* Of the strings with the same next word as s, those beyond it.
Deep(up, W, D, s) ==
    IF ~LASTWORD_BY_VALUE(Word(s)) /\ Word(s) \in W THEN Onward(up, D[Word(s)], Rest(s)) ELSE {}

\* The first string of each word of F.
Firsts(up, F, D) ==
    UNION {IF LASTWORD_BY_VALUE(v) THEN {v} ELSE {v \o r : r \in Foremost(up, D[v])} : v \in F}

LEMMA DeepFirst ==
    ASSUME NEW up \in BOOLEAN, NEW R, NEW W, NEW D, Spelled(R, W, D), NEW s \in Seq(Chars),
           Deep(up, W, D, s) # {}
    PROVE  Onward(up, R, s) = {Word(s) \o r : r \in Deep(up, W, D, s)}
  <1> DEFINE w == Word(s)
             x == Rest(s)
  <1>0. Word(s) = w /\ Rest(s) = x
    OBVIOUS
  <1>1. /\ ~LASTWORD_BY_VALUE(w) /\ w \in W /\ Deep(up, W, D, s) = Onward(up, D[w], x)
        /\ w \in Seq(Chars) /\ x \in Seq(Chars) /\ Len(w) <= WORDSIZE
        /\ D[w] \in SUBSET Seq(Chars)
    BY WordAndRest DEF Deep, Spelled
  <1> SUFFICES Onward(up, R, s) = {w \o r : r \in Onward(up, D[w], x)}
    BY <1>1
  <1> HIDE DEF w, x
  <1>2. \A r \in D[w] : w \o r \in R /\ Word(w \o r) = w /\ Rest(w \o r) = r
                        /\ w \o r \in Seq(Chars) /\ r \in Seq(Chars)
    BY <1>1, WordOf DEF Spelled
  <1>3. PICK d \in Onward(up, D[w], x) : TRUE
    BY <1>0, <1>1
  <1>4. d \in D[w] /\ Prec(up, x, d)
    BY <1>3 DEF Onward
  <1>5. ASSUME NEW r \in D[w]
        PROVE  Prec(up, s, w \o r) <=> Prec(up, x, r)
    <2>1. w \o r \in Seq(Chars) /\ Word(w \o r) = w /\ Rest(w \o r) = r
      BY <1>2
    <2> DEFINE t == w \o r
    <2>2. t \in Seq(Chars) /\ Word(t) = w /\ Rest(t) = r
      BY <2>1
    <2> HIDE DEF t
    <2>3. Prec(up, s, t) <=> Prec(up, x, r)
      BY <1>0, <1>1, <2>2, PrecWords
    <2> QED
      BY <2>3 DEF t
  <1>6. ASSUME NEW t \in R, Prec(up, s, t)
        PROVE  \/ Word(t) = w /\ Rest(t) \in D[w] /\ t = w \o Rest(t) /\ Prec(up, x, Rest(t))
               \/ Word(t) # w /\ \A r \in D[w] : Prec(up, w \o r, t)
    <2>1. t \in Seq(Chars) /\ Word(t) \in Seq(Chars)
      BY WordAndRest DEF Spelled
    <2>2. CASE Word(t) = w
      <3>1. Rest(t) \in D[w] /\ t = w \o Rest(t)
        BY <1>1, <2>1, <2>2, WordAndRest DEF Spelled
      <3> QED
        BY <1>0, <1>1, <1>6, <2>1, <2>2, <3>1, PrecWords
    <2>3. CASE Word(t) # w
      <3>1. Prec(up, w, Word(t))
        BY <1>0, <1>6, <2>1, <2>3, PrecWords
      <3> QED
        BY <1>2, <2>1, <2>3, <3>1, PrecWords
    <2> QED
      BY <2>2, <2>3
  <1>7. ASSUME NEW t \in Onward(up, R, s)
        PROVE  \E r \in Onward(up, D[w], x) : t = w \o r
    <2>1. t \in R /\ Prec(up, s, t) /\ \A u \in R : Prec(up, s, u) => ~Prec(up, u, t)
      BY DEF Onward
    <2>2. ~Prec(up, w \o d, t)
      BY <1>2, <1>4, <1>5, <2>1
    <2>3. Rest(t) \in D[w] /\ t = w \o Rest(t) /\ Prec(up, x, Rest(t))
      BY <1>4, <1>6, <2>1, <2>2
    <2>4. ASSUME NEW u \in D[w], Prec(up, x, u)
          PROVE  ~Prec(up, u, Rest(t))
      <3>1. ~Prec(up, w \o u, w \o Rest(t))
        BY <1>2, <1>5, <2>1, <2>3, <2>4
      <3> QED
        BY <1>1, <1>2, <2>3, <3>1, PrecWords
    <2> QED
      BY <2>3, <2>4 DEF Onward
  <1>8. ASSUME NEW r \in Onward(up, D[w], x)
        PROVE  w \o r \in Onward(up, R, s)
    <2>1. r \in D[w] /\ Prec(up, x, r) /\ \A u \in D[w] : Prec(up, x, u) => ~Prec(up, u, r)
      BY DEF Onward
    <2>2. w \o r \in R /\ Prec(up, s, w \o r)
      BY <1>2, <1>5, <2>1
    <2>3. ASSUME NEW u \in R, Prec(up, s, u)
          PROVE  ~Prec(up, u, w \o r)
      <3>1. u \in Seq(Chars) /\ w \o r \in Seq(Chars)
        BY <1>2, <2>1 DEF Spelled
      <3>2. CASE Word(u) = w /\ Rest(u) \in D[w] /\ u = w \o Rest(u) /\ Prec(up, x, Rest(u))
        <4> DEFINE t == w \o r
        <4>1. t \in Seq(Chars) /\ Word(t) = w /\ Rest(t) = r
          BY <1>2, <2>1
        <4> HIDE DEF t
        <4>2. ~Prec(up, Rest(u), r)
          BY <2>1, <3>2
        <4>3. ~Prec(up, u, t)
          BY <1>1, <3>1, <3>2, <4>1, <4>2, PrecWords
        <4> QED
          BY <4>3 DEF t
      <3>3. CASE \A z \in D[w] : Prec(up, w \o z, u)
        BY <2>1, <3>1, <3>3, PrecOrder
      <3> QED
        BY <1>6, <2>3, <3>2, <3>3
    <2> QED
      BY <2>2, <2>3 DEF Onward
  <1> QED
    BY <1>7, <1>8

\* The first of the strings whose next words are X are those of its first word.
LEMMA FirstsAre ==
    ASSUME NEW up \in BOOLEAN, NEW R, NEW W, NEW D, Spelled(R, W, D), NEW X \in SUBSET W
    PROVE  Foremost(up, {r \in R : Word(r) \in X}) = Firsts(up, Foremost(up, X), D)
  <1> DEFINE Z == {r \in R : Word(r) \in X}
  <1>0. /\ X \in SUBSET Seq(Chars) /\ \A v \in X : Word(v) = v
        /\ \A z \in Z : z \in Seq(Chars) /\ z \in R /\ Word(z) \in X
        /\ \A z \in Seq(Chars) :
              z \in Z <=> Word(z) \in X /\ (LASTWORD_BY_VALUE(Word(z)) \/ Rest(z) \in D[Word(z)])
    BY WordOf DEF Spelled
  <1>1. \A v \in X : ~LASTWORD_BY_VALUE(v) => D[v] \in SUBSET Seq(Chars) /\ D[v] # {}
    BY DEF Spelled
  <1>2. ASSUME NEW v \in X, ~LASTWORD_BY_VALUE(v), NEW r \in D[v]
        PROVE  /\ v \o r \in Z /\ v \o r \in Seq(Chars) /\ Word(v \o r) = v /\ Rest(v \o r) = r
    <2>1. v \o r \in Seq(Chars) /\ Word(v \o r) = v /\ Rest(v \o r) = r
      BY <1>0, <1>1, <1>2, WordOf DEF Spelled
    <2> DEFINE t == v \o r
    <2>2. t \in Seq(Chars) /\ Word(t) = v /\ Rest(t) = r
      BY <2>1
    <2> HIDE DEF t, Z
    <2>3. t \in Z
      BY <1>0, <1>2, <2>2
    <2> QED
      BY <2>2, <2>3 DEF t
  <1>3. ASSUME NEW v \in X
        PROVE  \E z \in Z : Word(z) = v
    <2>1. CASE LASTWORD_BY_VALUE(v)
      <3>1. v \in Seq(Chars) /\ Word(v) = v
        BY <1>0
      <3> HIDE DEF Z
      <3>2. v \in Z
        BY <1>0, <2>1, <3>1
      <3> QED
        BY <3>1, <3>2
    <2>2. CASE ~LASTWORD_BY_VALUE(v)
      BY <1>1, <1>2, <2>2
    <2> QED
      BY <2>1, <2>2
  <1> HIDE DEF Z
  <1>4. ASSUME NEW t \in Foremost(up, Z)
        PROVE  t \in Firsts(up, Foremost(up, X), D)
    <2> DEFINE v == Word(t)
    <2>1. t \in Z /\ t \in Seq(Chars) /\ v \in X /\ \A z \in Z : ~Prec(up, z, t)
      BY <1>0 DEF Foremost
    <2>2. ASSUME NEW u \in X
          PROVE  ~Prec(up, u, v)
      <3>1. PICK z \in Z : Word(z) = u
        BY <1>3
      <3>2. z \in Seq(Chars) /\ v \in Seq(Chars) /\ ~Prec(up, z, t)
        BY <1>0, <2>1
      <3>3. CASE u = v
        BY <3>2, <3>3, PrecOrder
      <3>4. CASE u # v
        BY <2>1, <3>1, <3>2, <3>4, PrecWords
      <3> QED
        BY <3>3, <3>4
    <2>3. v \in Foremost(up, X)
      BY <2>1, <2>2 DEF Foremost
    <2>4. CASE LASTWORD_BY_VALUE(v)
      <3>1. t = v
        BY <2>1, <2>4, WordAndRest
      <3> QED
        BY <2>3, <2>4, <3>1 DEF Firsts
    <2>5. CASE ~LASTWORD_BY_VALUE(v)
      <3>1. t = v \o Rest(t) /\ Rest(t) \in D[v] /\ Rest(t) \in Seq(Chars)
        BY <1>0, <2>1, <2>5, WordAndRest
      <3>2. ASSUME NEW e \in D[v]
            PROVE  ~Prec(up, e, Rest(t))
        <4> DEFINE z == v \o e
        <4>1. z \in Z /\ z \in Seq(Chars) /\ Word(z) = v /\ Rest(z) = e
          BY <1>2, <2>1, <2>5
        <4> HIDE DEF z
        <4>2. ~Prec(up, z, t)
          BY <2>1, <4>1
        <4> QED
          BY <2>1, <2>5, <4>1, <4>2, PrecWords
      <3>3. Rest(t) \in Foremost(up, D[v])
        BY <3>1, <3>2 DEF Foremost
      <3> HIDE DEF v
      <3> QED
        BY <2>3, <2>5, <3>1, <3>3 DEF Firsts
    <2> QED
      BY <2>4, <2>5
  <1>5. ASSUME NEW v \in Foremost(up, X), NEW t \in Z, Word(t) = v,
               ~LASTWORD_BY_VALUE(v) => Rest(t) \in Foremost(up, D[v])
        PROVE  t \in Foremost(up, Z)
    <2>1. v \in X /\ (\A u \in X : ~Prec(up, u, v)) /\ t \in Seq(Chars)
      BY <1>0 DEF Foremost
    <2>2. ASSUME NEW z \in Z
          PROVE  ~Prec(up, z, t)
      <3>1. z \in Seq(Chars) /\ Word(z) \in X /\ ~Prec(up, Word(z), v)
        BY <1>0, <2>1
      <3>2. CASE Word(z) # v
        BY <1>5, <2>1, <3>1, <3>2, PrecWords
      <3>3. CASE Word(z) = v /\ LASTWORD_BY_VALUE(v)
        BY <1>5, <2>1, <3>1, <3>3, PrecWords
      <3>4. CASE Word(z) = v /\ ~LASTWORD_BY_VALUE(v)
        <4>1. Rest(z) \in D[v]
          BY <1>0, <3>1, <3>4
        <4>2. ~Prec(up, Rest(z), Rest(t))
          BY <1>5, <3>4, <4>1 DEF Foremost
        <4> QED
          BY <1>5, <2>1, <3>1, <3>4, <4>2, PrecWords
      <3> QED
        BY <3>2, <3>3, <3>4
    <2> QED
      BY <2>2 DEF Foremost
  <1>6. ASSUME NEW t \in Firsts(up, Foremost(up, X), D)
        PROVE  t \in Foremost(up, Z)
    <2>1. PICK v \in Foremost(up, X) :
              t \in IF LASTWORD_BY_VALUE(v) THEN {v} ELSE {v \o r : r \in Foremost(up, D[v])}
      BY DEF Firsts
    <2>2. v \in X
      BY DEF Foremost
    <2>3. CASE LASTWORD_BY_VALUE(v)
      <3>1. t = v /\ t \in Seq(Chars) /\ Word(t) = v
        BY <1>0, <2>1, <2>2, <2>3
      <3>2. t \in Z
        BY <1>0, <2>2, <2>3, <3>1
      <3> QED
        BY <1>5, <2>3, <3>1, <3>2
    <2>4. CASE ~LASTWORD_BY_VALUE(v)
      <3>1. PICK r \in Foremost(up, D[v]) : t = v \o r
        BY <2>1, <2>4
      <3>2. r \in D[v]
        BY DEF Foremost
      <3>3. t \in Z /\ Word(t) = v /\ Rest(t) = r
        BY <1>2, <2>2, <2>4, <3>1, <3>2
      <3> QED
        BY <1>5, <3>3
    <2> QED
      BY <2>3, <2>4
  <1>7. Foremost(up, Z) = Firsts(up, Foremost(up, X), D)
    BY <1>4, <1>6
  <1> QED
    BY <1>7 DEF Z

LEMMA ForemostFirst ==
    ASSUME NEW up \in BOOLEAN, NEW R, NEW W, NEW D, Spelled(R, W, D)
    PROVE  Foremost(up, R) = Firsts(up, Foremost(up, W), D)
  <1>1. {r \in R : Word(r) \in W} = R
    BY DEF Spelled
  <1>2. Foremost(up, {r \in R : Word(r) \in W}) = Firsts(up, Foremost(up, W), D)
    BY FirstsAre
  <1> QED
    BY <1>1, <1>2

\* If none has the same next word, the first of the words beyond.
LEMMA OnwardFirst ==
    ASSUME NEW up \in BOOLEAN, NEW R, NEW W, NEW D, Spelled(R, W, D), NEW s \in Seq(Chars),
           \A w \in W : ~LASTWORD_BY_VALUE(w) => IsFiniteSet(D[w]),
           Deep(up, W, D, s) = {}
    PROVE  Onward(up, R, s) = Firsts(up, Onward(up, W, Word(s)), D)
  <1> DEFINE w == Word(s)
             X == {v \in W : Prec(up, w, v)}
  <1>0. w \in Seq(Chars) /\ Rest(s) \in Seq(Chars)
    BY WordAndRest
  <1>1. ASSUME NEW r \in R
        PROVE  Prec(up, s, r) <=> Word(r) \in X
    <2>1. r \in Seq(Chars) /\ Word(r) \in W /\ Word(r) \in Seq(Chars)
          /\ (LASTWORD_BY_VALUE(Word(r)) \/ Rest(r) \in D[Word(r)])
      BY DEF Spelled
    <2>2. CASE Word(r) # w
      BY <2>1, <2>2, PrecWords
    <2>3. CASE Word(r) = w
      <3>1. ~Prec(up, w, w)
        BY <1>0, PrecOrder
      <3>2. CASE LASTWORD_BY_VALUE(w)
        BY <2>1, <2>3, <3>1, <3>2, PrecWords
      <3>3. CASE ~LASTWORD_BY_VALUE(w)
        <4>1. Deep(up, W, D, s) = Onward(up, D[w], Rest(s))
          BY <2>1, <2>3, <3>3 DEF Deep
        <4>2. D[w] \in SUBSET Seq(Chars) /\ IsFiniteSet(D[w]) /\ Rest(r) \in D[w]
          BY <2>1, <2>3, <3>3 DEF Spelled
        <4>3. ~Prec(up, Rest(s), Rest(r))
          BY <4>1, <4>2, OnwardThere
        <4> QED
          BY <2>1, <2>3, <3>1, <3>3, <4>3, PrecWords
      <3> QED
        BY <3>2, <3>3
    <2> QED
      BY <2>2, <2>3
  <1>2. Onward(up, R, s) = Foremost(up, {r \in R : Prec(up, s, r)})
    BY DEF Onward, Foremost
  <1>3. {r \in R : Prec(up, s, r)} = {r \in R : Word(r) \in X}
    BY <1>1
  <1>4. Onward(up, W, w) = Foremost(up, X)
    BY DEF Onward, Foremost
  <1>5. X \in SUBSET W
    OBVIOUS
  <1> HIDE DEF X
  <1>6. Foremost(up, {r \in R : Word(r) \in X}) = Firsts(up, Foremost(up, X), D)
    BY <1>5, FirstsAre
  <1> QED
    BY <1>2, <1>3, <1>4, <1>6

-----------------------------------------------------------------------------
(* The strings below a node *)

\* What is left at p of the strings of the tree.
Below(p) == {r \in Seq(Chars) : p \o r \in DOMAIN Content}

AliveInv == KindInv /\ DeadEnds = {}

LEMMA BelowHolds ==
    ASSUME KindInv, NEW p, NEW r \in Seq(Chars)
    PROVE  r \in Below(p) <=> \E q : Holds(leaf, array, p \o r, q)
  <1>1. Sound(leaf, array)
    BY TreeSound DEF KindInv, CallInv
  <1>2. p \o r \in DOMAIN Content <=> \E q : Holds(leaf, array, p \o r, q)
    BY <1>1, ContentIs, CellHolds
  <1> QED
    BY <1>2 DEF Below

LEMMA BelowFinite ==
    ASSUME KindInv, pc = "idle", NEW p \in Paths
    PROVE  IsFiniteSet(Below(p)) /\ Below(p) \in SUBSET Seq(Chars)
  <1>1. Pscl = NoLeaf
    BY DEF KindInv, IInv, CarryInv
  <1>2. IsFiniteSet(DOMAIN Content)
    BY <1>1 DEF KindInv, HeldInv, Held
  <1> DEFINE S == {Beyond(p, s) : s \in DOMAIN Content}
  <1>3. IsFiniteSet(S)
    <2> DEFINE f == [s \in DOMAIN Content |-> Beyond(p, s)]
               D == DOMAIN Content
    <2>1. f \in Surjection(D, S)
      BY DEF Surjection
    <2>2. IsFiniteSet(D)
      BY <1>2
    <2> HIDE DEF f, S, D
    <2> QED
      BY <2>1, <2>2, FS_Surjection
  <1>4. Below(p) \subseteq S
    BY PathIsPrefix DEF Below
  <1> HIDE DEF S
  <1>5. IsFiniteSet(Below(p))
    BY <1>3, <1>4, FS_Subset
  <1> QED
    BY <1>5 DEF Below

LEMMA LeafBelow ==
    ASSUME KindInv, NEW p \in DOMAIN leaf
    PROVE  Below(p) = {leaf[p].rest}
  <1>1. /\ Sound(leaf, array) /\ p \in Paths /\ p \in Seq(Chars) /\ Linked(array, p)
        /\ p \notin DOMAIN array /\ leaf[p].rest \in Seq(Chars)
    BY TreeSound DEF KindInv, CallInv, IInv, NodeInv, LeafSet, Paths
  <1>2. ASSUME NEW r \in Seq(Chars), NEW q, Holds(leaf, array, p \o r, q)
        PROVE  r = leaf[p].rest
    <2>1. q = p
      BY <1>1, <1>2, OneWay
    <2>2. p \o r = p \o leaf[p].rest
      BY <1>1, <1>2, <2>1 DEF Holds
    <2> DEFINE x == leaf[p].rest
    <2>3. p \in Seq(Chars) /\ x \in Seq(Chars) /\ p \o r = p \o x
      BY <1>1, <2>2
    <2> HIDE DEF x
    <2>4. r = x
      BY <2>3, ConcatSimplifications
    <2> QED
      BY <2>4 DEF x
  <1>3. Holds(leaf, array, p \o leaf[p].rest, p)
    BY DEF Holds
  <1>4. leaf[p].rest \in Below(p)
    BY <1>1, <1>3, BelowHolds
  <1>5. ASSUME NEW r \in Below(p)
        PROVE  r = leaf[p].rest
    <2>1. r \in Seq(Chars)
      BY DEF Below
    <2> QED
      BY <1>2, <1>5, <2>1, BelowHolds
  <1> QED
    BY <1>4, <1>5

\* A word more.
LEMMA ChildPath ==
    ASSUME NEW p \in Paths, NEW w \in Seq(Chars), Len(w) = WORDSIZE
    PROVE  /\ p \o w \in Paths /\ Len(p \o w) = Len(p) + WORDSIZE
           /\ \A r \in Seq(Chars) : (p \o w) \o r = p \o (w \o r)
  <1>1. p \in Seq(Chars) /\ Len(p) \in Nat /\ Len(p) % WORDSIZE = 0
    BY LenProperties DEF Paths
  <1>2. p \o w \in Seq(Chars) /\ Len(p \o w) = Len(p) + WORDSIZE
    BY <1>1, WordSizeNat, ChildParts
  <1>3. (Len(p) + WORDSIZE) % WORDSIZE = 0
    BY <1>1, WordSizeNat, NextBorder
  <1> QED
    BY <1>1, <1>2, <1>3, Joined DEF Paths

LEMMA ArrayBelow ==
    ASSUME KindInv, NEW p \in DOMAIN array, NEW r \in Seq(Chars)
    PROVE  r \in Below(p) <=> /\ Word(r) \in DOMAIN array[p]
                              /\ LASTWORD_BY_VALUE(Word(r)) \/ Rest(r) \in Below(p \o Word(r))
  <1> DEFINE w == Word(r)
  <1>1. /\ Sound(leaf, array) /\ p \in Paths /\ p \in Seq(Chars) /\ Linked(array, p)
        /\ p \notin DOMAIN leaf
    BY TreeSound DEF KindInv, CallInv, IInv, NodeInv, Paths
  <1>2. w \in Seq(Chars) /\ Rest(r) \in Seq(Chars)
    BY WordAndRest
  <1>3. ASSUME ~LASTWORD_BY_VALUE(w)
        PROVE  (p \o w) \o Rest(r) = p \o r
    <2>1. Len(w) = WORDSIZE /\ r = w \o Rest(r)
      BY <1>3, WordAndRest
    <2> HIDE DEF w
    <2>2. (p \o w) \o Rest(r) = p \o (w \o Rest(r))
      BY <1>1, <1>2, <2>1, ChildPath
    <2> QED
      BY <2>1, <2>2
  <1>4. ASSUME NEW q, Holds(leaf, array, p \o r, q)
        PROVE  w \in DOMAIN array[p] /\ (LASTWORD_BY_VALUE(w) \/ Rest(r) \in Below(p \o w))
    <2>1. CASE q # p
      <3>1. w \in DOMAIN array[p] /\ ~LASTWORD_BY_VALUE(w)
        BY <1>1, <1>4, <2>1, OneWay
      <3>2. Holds(leaf, array, (p \o w) \o Rest(r), q)
        BY <1>3, <1>4, <3>1
      <3>3. Rest(r) \in Below(p \o w)
        BY <1>2, <3>2, BelowHolds
      <3> QED
        BY <3>1, <3>3
    <2>2. CASE q = p
      <3>1. PICK v \in DOMAIN array[p] : LASTWORD_BY_VALUE(v) /\ p \o r = p \o v
        BY <1>1, <1>4, <2>2 DEF Holds
      <3>2. v \in Seq(Chars)
        BY <1>1 DEF Sound
      <3>3. r = v
        BY <1>1, <3>1, <3>2, ConcatSimplifications
      <3> QED
        BY <3>1, <3>2, <3>3, LastWordIs
    <2> QED
      BY <2>1, <2>2
  <1>5. ASSUME w \in DOMAIN array[p], LASTWORD_BY_VALUE(w)
        PROVE  \E q : Holds(leaf, array, p \o r, q)
    <2>1. w = r
      BY <1>5, WordAndRest
    <2>2. Holds(leaf, array, p \o r, p)
      BY <1>5, <2>1 DEF Holds
    <2> QED
      BY <2>2
  <1>6. ASSUME ~LASTWORD_BY_VALUE(w), Rest(r) \in Below(p \o w)
        PROVE  \E q : Holds(leaf, array, p \o r, q)
    <2>1. \E q : Holds(leaf, array, (p \o w) \o Rest(r), q)
      BY <1>2, <1>6, BelowHolds
    <2> QED
      BY <1>3, <1>6, <2>1
  <1> HIDE DEF w
  <1>7. r \in Below(p) <=> w \in DOMAIN array[p] /\ (LASTWORD_BY_VALUE(w) \/ Rest(r) \in Below(p \o w))
    BY <1>4, <1>5, <1>6, BelowHolds
  <1> QED
    BY <1>7 DEF w

\* Without dead ends a word that is not a last one is above a node,
LEMMA ChildThere ==
    ASSUME AliveInv, NEW p \in DOMAIN array, NEW w \in DOMAIN array[p], ~LASTWORD_BY_VALUE(w)
    PROVE  ~IsNull(p \o w) /\ w \in Seq(Chars) /\ Len(w) = WORDSIZE /\ p \in Paths
  <1>1. <<p, w>> \notin DeadEnds
    BY DEF AliveInv
  <1>2. <<p, w>> \in UNION {{q} \X WordsAt(q) : q \in DOMAIN array}
    BY DEF WordsAt
  <1>3. w \in Seq(Chars) /\ Len(w) <= WORDSIZE /\ p \in Paths
    BY DEF AliveInv, KindInv, CallInv, WordInv, IInv, NodeInv
  <1>4. Len(w) = WORDSIZE
    BY <1>3, WordSizeNat, LenProperties DEF LASTWORD_BY_VALUE
  <1> QED
    BY <1>1, <1>2, <1>3, <1>4 DEF DeadEnds

\* and there is a string below every node.
LEMMA BelowThere ==
    ASSUME AliveInv, NEW p, ~IsNull(p)
    PROVE  Below(p) # {}
  <1>1. ASSUME NEW q \in DOMAIN leaf
        PROVE  Below(q) # {}
    BY LeafBelow DEF AliveInv
  <1>2. PICK n \in Nat : \A q \in DOMAIN array : Len(q) <= n
    BY DEF AliveInv, KindInv, PlaceInv, Placed
  <1>3. \A q \in DOMAIN array : q \in Paths /\ Len(q) \in Nat /\ DOMAIN array[q] # {}
    BY LenProperties DEF AliveInv, KindInv, IInv, NodeInv, Paths
  <1> DEFINE P == {m \in Nat : \A q \in DOMAIN array : n + 1 - Len(q) <= m => Below(q) # {}}
  <1>4. 0 \in P
    BY <1>2, <1>3
  <1>5. ASSUME NEW m \in 0..((n + 1) - 1), m \in P
        PROVE  m + 1 \in P
    <2> SUFFICES ASSUME NEW q \in DOMAIN array, n + 1 - Len(q) <= m + 1
                 PROVE  Below(q) # {}
      OBVIOUS
    <2>1. PICK w \in DOMAIN array[q] : TRUE
      BY <1>3
    <2>2. w \in Seq(Chars) /\ Len(w) <= WORDSIZE /\ KindInv
      BY DEF AliveInv, KindInv, CallInv, WordInv
    <2>3. CASE LASTWORD_BY_VALUE(w)
      <3>1. Word(w) = w
        BY <2>2, <2>3, LastWordIs
      <3> QED
        BY <2>2, <2>3, <3>1, ArrayBelow
    <2>4. CASE ~LASTWORD_BY_VALUE(w)
      <3>1. ~IsNull(q \o w) /\ Len(w) = WORDSIZE
        BY <2>4, ChildThere
      <3>2. Len(q \o w) = Len(q) + WORDSIZE
        BY <1>3, <2>2, <3>1, ChildPath
      <3>3. Below(q \o w) # {}
        <4>1. CASE q \o w \in DOMAIN leaf
          BY <1>1, <4>1
        <4>2. CASE q \o w \in DOMAIN array
          <5>1. n + 1 - Len(q \o w) <= m
            BY <1>3, <3>2, WordSizeNat
          <5> QED
            BY <1>5, <4>2, <5>1
        <4> QED
          BY <3>1, <4>1, <4>2 DEF IsNull
      <3>4. PICK r \in Below(q \o w) : TRUE
        BY <3>3
      <3>5. r \in Seq(Chars)
        BY DEF Below
      <3> DEFINE t == w \o r
      <3>6. t \in Seq(Chars) /\ Word(t) = w /\ Rest(t) = r
        BY <2>2, <2>4, <3>5, WordOf
      <3> HIDE DEF t
      <3>7. t \in Below(q)
        BY <2>2, <3>4, <3>6, ArrayBelow
      <3> QED
        BY <3>7
    <2> QED
      BY <2>3, <2>4
  <1>6. CASE p \in DOMAIN array
    <2>1. n + 1 \in Nat /\ n + 1 \in 0..(n + 1)
      OBVIOUS
    <2> HIDE DEF P
    <2>2. n + 1 \in P
      BY <1>4, <1>5, <2>1, UpTo
    <2> USE DEF P
    <2>3. n + 1 - Len(p) <= n + 1
      BY <1>3, <1>6
    <2> QED
      BY <1>6, <2>2, <2>3
  <1> QED
    BY <1>1, <1>6 DEF IsNull

\* So the strings below an array are spelled by its words and what is below these.
LEMMA ArraySpelled ==
    ASSUME AliveInv, NEW p \in DOMAIN array
    PROVE  Spelled(Below(p), DOMAIN array[p], [w \in DOMAIN array[p] |-> Below(p \o w)])
  <1>1. KindInv
    BY DEF AliveInv
  <1>2. \A w \in DOMAIN array[p] : w \in Seq(Chars) /\ Len(w) <= WORDSIZE
    BY <1>1 DEF KindInv, CallInv, WordInv
  <1>3. ASSUME NEW w \in DOMAIN array[p], ~LASTWORD_BY_VALUE(w)
        PROVE  Below(p \o w) \in SUBSET Seq(Chars) /\ Below(p \o w) # {}
    <2>1. Below(p \o w) # {}
      BY <1>3, ChildThere, BelowThere
    <2> QED
      BY <2>1 DEF Below
  <1>4. Below(p) \in SUBSET Seq(Chars)
    BY DEF Below
  <1>5. ASSUME NEW r \in Seq(Chars)
        PROVE  r \in Below(p) <=>
                  /\ Word(r) \in DOMAIN array[p]
                  /\ \/ LASTWORD_BY_VALUE(Word(r))
                     \/ Rest(r) \in [w \in DOMAIN array[p] |-> Below(p \o w)][Word(r)]
    BY <1>1, ArrayBelow
  <1> QED
    BY <1>2, <1>3, <1>4, <1>5 DEF Spelled

-----------------------------------------------------------------------------
(* JudySLNextSub and JudySLPrevSub *)

\* What either is to find from s, or the first below p.
Answers(up, c) ==
    IF IsNull(c[1]) THEN {}
    ELSE {c[1] \o r : r \in IF c[3] THEN Onward(up, Below(c[1]), c[2]) ELSE Foremost(up, Below(c[1]))}

\* What is below the next word of the string, if it goes on.
Lower(up, h, c) ==
    IF c[3] /\ ~LASTWORD_BY_VALUE(Word(c[2])) /\ Word(c[2]) \in WordsAt(c[1])
    THEN h[<<c[1] \o Word(c[2]), Rest(c[2]), TRUE>>] ELSE {}

\* One round of either, with h for the rounds below.
Sub(up, h, c) ==
    LET found == IF c[3] THEN Onward(up, WordsAt(c[1]), Word(c[2])) ELSE Foremost(up, WordsAt(c[1]))
    IN  IF c[1] \in DOMAIN leaf
        THEN IF c[3] THEN SclIf(Prec(up, c[2], leaf[c[1]].rest), c[1]) ELSE {c[1] \o leaf[c[1]].rest}
        ELSE IF Lower(up, h, c) # {} THEN Lower(up, h, c)
        ELSE UNION {IF LASTWORD_BY_VALUE(v) THEN {c[1] \o v} ELSE h[<<c[1] \o v, <<>>, FALSE>>] : v \in found}

\* h finds the right strings below p.
Right(up, h, p) ==
    \A w \in WordsAt(p) : ~LASTWORD_BY_VALUE(w) =>
        \A x \in AnyTail, o \in BOOLEAN : h[<<p \o w, x, o>>] = Answers(up, <<p \o w, x, o>>)

\* What is left of a string is one of characters, and the rest of that is left of it too.
LEMMA TailRest ==
    ASSUME NEW s \in AnyTail
    PROVE  s \in Seq(Chars) /\ (~LASTWORD_BY_VALUE(Word(s)) => Rest(s) \in AnyTail)
  <1>1. CASE s = <<>>
    <2>1. Len(Word(<<>>)) < WORDSIZE
      BY WordSizeNat, EmptySeq, SubSeqEmpty DEF Word
    <2>2. <<>> \in Seq(Chars)
      BY EmptySeq
    <2> QED
      BY <1>1, <2>1, <2>2 DEF LASTWORD_BY_VALUE
  <1>2. CASE s # <<>>
    <2>1. PICK p \in Path, t \in Strings : p \in Prefixes(t) /\ s = Beyond(p, t)
      BY <1>2 DEF AnyTail, Tails, Beyond
    <2>2. t \in Seq(Chars)
      BY StringAssumption DEF Chars
    <2>3. p \in Paths /\ s \in Seq(Chars) /\ t = p \o s
      BY <2>1, <2>2, PrefixIs
    <2>4. ASSUME ~LASTWORD_BY_VALUE(Word(s))
          PROVE  Rest(s) \in AnyTail
      <3>1. /\ Word(s) \in Seq(Chars) /\ Rest(s) \in Seq(Chars)
            /\ Len(Word(s)) = WORDSIZE /\ s = Word(s) \o Rest(s)
        BY <2>3, <2>4, WordAndRest
      <3> DEFINE w == Word(s)
                 x == Rest(s)
      <3>2. w \in Seq(Chars) /\ x \in Seq(Chars) /\ Len(w) = WORDSIZE /\ s = w \o x
        BY <3>1
      <3> HIDE DEF w, x
      <3>3. p \o w \in Paths /\ t = (p \o w) \o x
        BY <2>3, <3>2, ChildPath
      <3>4. x \in Tails(p \o w) /\ p \o w \in Path
        BY <3>2, <3>3, TailIs
      <3> QED
        BY <3>4 DEF AnyTail, x
    <2> QED
      BY <2>3, <2>4
  <1> QED
    BY <1>1, <1>2

LEMMA LeafSub ==
    ASSUME AliveInv, NEW up \in BOOLEAN, NEW h, NEW c \in Searches, c[1] \in DOMAIN leaf
    PROVE  Sub(up, h, c) = Answers(up, c)
  <1> DEFINE p == c[1]
             s == c[2]
             x == leaf[p].rest
  <1>1. Below(p) = {x} /\ ~IsNull(p)
    BY LeafBelow DEF AliveInv, IsNull
  <1>2. x \in Seq(Chars)
    BY DEF AliveInv, KindInv, IInv, NodeInv, LeafSet
  <1>3. ~Prec(up, x, x)
    BY <1>2, PrecOrder
  <1> HIDE DEF x
  <1>4. Foremost(up, {x}) = {x} /\ Onward(up, {x}, s) = IF Prec(up, s, x) THEN {x} ELSE {}
    BY <1>3 DEF Foremost, Onward
  <1>5. Answers(up, c) = {p \o r : r \in IF c[3] THEN Onward(up, {x}, s) ELSE Foremost(up, {x})}
    BY <1>1 DEF Answers
  <1>6. Sub(up, h, c) = IF c[3] THEN IF Prec(up, s, x) THEN {p \o x} ELSE {} ELSE {p \o x}
    BY DEF Sub, SclIf, x
  <1> QED
    BY <1>4, <1>5, <1>6

LEMMA InFirsts ==
    ASSUME NEW up, NEW F, NEW D, NEW r
    PROVE  r \in Firsts(up, F, D) <=>
              \E v \in F : (LASTWORD_BY_VALUE(v) /\ r = v)
                          \/ (~LASTWORD_BY_VALUE(v) /\ \E e \in Foremost(up, D[v]) : r = v \o e)
  <1> DEFINE Of(v) == IF LASTWORD_BY_VALUE(v) THEN {v} ELSE {v \o e : e \in Foremost(up, D[v])}
  <1>1. ASSUME NEW v
        PROVE  r \in Of(v) <=> (LASTWORD_BY_VALUE(v) /\ r = v)
                               \/ (~LASTWORD_BY_VALUE(v) /\ \E e \in Foremost(up, D[v]) : r = v \o e)
    <2>1. CASE LASTWORD_BY_VALUE(v)
      BY <2>1
    <2>2. CASE ~LASTWORD_BY_VALUE(v)
      BY <2>2
    <2> QED
      BY <2>1, <2>2
  <1>2. Firsts(up, F, D) = UNION {Of(v) : v \in F}
    BY DEF Firsts
  <1> HIDE DEF Of
  <1>3. r \in UNION {Of(v) : v \in F} <=> \E v \in F : r \in Of(v)
    OBVIOUS
  <1> QED
    BY <1>1, <1>2, <1>3

\* Below an array: below the next word, or below the next of the words that are there.
LEMMA ArraySub ==
    ASSUME AliveInv, pc = "idle", NEW up \in BOOLEAN, NEW h, NEW c \in Searches,
           c[1] \in DOMAIN array, Right(up, h, c[1])
    PROVE  Sub(up, h, c) = Answers(up, c)
  <1> DEFINE p == c[1]
             s == c[2]
             W == DOMAIN array[p]
             D == [w \in W |-> Below(p \o w)]
             R == Below(p)
             found == IF c[3] THEN Onward(up, W, Word(s)) ELSE Foremost(up, W)
             below == Lower(up, h, c)
  <1>1. /\ p \in Paths /\ p \notin DOMAIN leaf /\ ~IsNull(p) /\ WordsAt(p) = W
        /\ s \in AnyTail /\ c[3] \in BOOLEAN /\ KindInv
    BY DEF AliveInv, KindInv, IInv, NodeInv, IsNull, WordsAt, Searches
  <1>2. s \in Seq(Chars) /\ (~LASTWORD_BY_VALUE(Word(s)) => Rest(s) \in AnyTail) /\ <<>> \in AnyTail
    BY <1>1, TailRest DEF AnyTail
  <1>3. Spelled(R, W, D)
    BY ArraySpelled
  <1>4. ASSUME NEW w \in W, ~LASTWORD_BY_VALUE(w)
        PROVE  /\ D[w] = Below(p \o w) /\ ~IsNull(p \o w) /\ w \in Seq(Chars) /\ IsFiniteSet(D[w])
               /\ D[w] \in SUBSET Seq(Chars)
               /\ \A r \in Seq(Chars) : (p \o w) \o r = p \o (w \o r)
               /\ \A x \in AnyTail, o \in BOOLEAN :
                     h[<<p \o w, x, o>>] = {(p \o w) \o r : r \in IF o THEN Onward(up, D[w], x) ELSE Foremost(up, D[w])}
    <2>1. ~IsNull(p \o w) /\ w \in Seq(Chars) /\ Len(w) = WORDSIZE
      BY <1>4, ChildThere
    <2>2. p \o w \in Paths /\ \A r \in Seq(Chars) : (p \o w) \o r = p \o (w \o r)
      BY <1>1, <2>1, ChildPath
    <2>3. IsFiniteSet(Below(p \o w)) /\ Below(p \o w) \in SUBSET Seq(Chars)
      BY <1>1, <2>2, BelowFinite
    <2>4. D[w] = Below(p \o w)
      OBVIOUS
    <2>5. ASSUME NEW x \in AnyTail, NEW o \in BOOLEAN
          PROVE  h[<<p \o w, x, o>>] = {(p \o w) \o r : r \in IF o THEN Onward(up, D[w], x) ELSE Foremost(up, D[w])}
      <3>1. h[<<p \o w, x, o>>] = Answers(up, <<p \o w, x, o>>)
        BY <1>1, <1>4 DEF Right
      <3> QED
        BY <2>1, <2>4, <3>1 DEF Answers
    <2> QED
      BY <2>1, <2>2, <2>3, <2>4, <2>5
  <1>5. Sub(up, h, c) =
            IF below # {} THEN below
            ELSE UNION {IF LASTWORD_BY_VALUE(v) THEN {p \o v} ELSE h[<<p \o v, <<>>, FALSE>>] : v \in found}
    BY <1>1 DEF Sub
  <1>6. Answers(up, c) = {p \o r : r \in IF c[3] THEN Onward(up, R, s) ELSE Foremost(up, R)}
    BY <1>1 DEF Answers
  <1>7. found \subseteq W
    BY DEF Onward, Foremost
  <1>8. UNION {IF LASTWORD_BY_VALUE(v) THEN {p \o v} ELSE h[<<p \o v, <<>>, FALSE>>] : v \in found}
        = {p \o r : r \in Firsts(up, found, D)}
    <2> DEFINE Here(v) == IF LASTWORD_BY_VALUE(v) THEN {p \o v} ELSE h[<<p \o v, <<>>, FALSE>>]
    <2>1. ASSUME NEW v \in found, NEW x
          PROVE  x \in Here(v) <=>
                    (LASTWORD_BY_VALUE(v) /\ x = p \o v)
                    \/ (~LASTWORD_BY_VALUE(v) /\ \E e \in Foremost(up, D[v]) : x = p \o (v \o e))
      <3>1. CASE LASTWORD_BY_VALUE(v)
        BY <3>1
      <3>2. CASE ~LASTWORD_BY_VALUE(v)
        <4>1. v \in W
          BY <1>7
        <4>2. h[<<p \o v, <<>>, FALSE>>] = {(p \o v) \o r : r \in Foremost(up, D[v])}
          BY <1>2, <1>4, <3>2, <4>1
        <4>3. \A r \in Foremost(up, D[v]) : (p \o v) \o r = p \o (v \o r)
          BY <1>4, <3>2, <4>1 DEF Foremost
        <4>4. x \in Here(v) <=> \E e \in Foremost(up, D[v]) : x = (p \o v) \o e
          BY <3>2, <4>2
        <4> HIDE DEF D, p, Here
        <4> QED
          BY <3>2, <4>3, <4>4
      <3> QED
        BY <3>1, <3>2
    <2> SUFFICES ASSUME NEW x
                 PROVE  x \in UNION {Here(v) : v \in found} <=> x \in {p \o r : r \in Firsts(up, found, D)}
      OBVIOUS
    <2>3. x \in UNION {Here(v) : v \in found} <=> \E v \in found : x \in Here(v)
      OBVIOUS
    <2> HIDE DEF D, found, p, Here
    <2>4. x \in {p \o r : r \in Firsts(up, found, D)} <=>
             \E v \in found : (LASTWORD_BY_VALUE(v) /\ x = p \o v)
                             \/ (~LASTWORD_BY_VALUE(v) /\ \E e \in Foremost(up, D[v]) : x = p \o (v \o e))
      <3>1. x \in {p \o r : r \in Firsts(up, found, D)} <=> \E r : r \in Firsts(up, found, D) /\ x = p \o r
        OBVIOUS
      <3>2. \A r : r \in Firsts(up, found, D) <=>
                     \E v \in found : (LASTWORD_BY_VALUE(v) /\ r = v)
                                 \/ (~LASTWORD_BY_VALUE(v) /\ \E e \in Foremost(up, D[v]) : r = v \o e)
        BY InFirsts
      <3>3. ASSUME NEW r, r \in Firsts(up, found, D), x = p \o r
            PROVE  \E v \in found : (LASTWORD_BY_VALUE(v) /\ x = p \o v)
                               \/ (~LASTWORD_BY_VALUE(v) /\ \E e \in Foremost(up, D[v]) : x = p \o (v \o e))
        BY <3>2, <3>3
      <3>4. ASSUME NEW v \in found, LASTWORD_BY_VALUE(v), x = p \o v
            PROVE  \E r : r \in Firsts(up, found, D) /\ x = p \o r
        BY <3>2, <3>4
      <3>5. ASSUME NEW v \in found, ~LASTWORD_BY_VALUE(v), NEW e \in Foremost(up, D[v]), x = p \o (v \o e)
            PROVE  \E r : r \in Firsts(up, found, D) /\ x = p \o r
        BY <3>2, <3>5
      <3> QED
        BY <3>1, <3>3, <3>4, <3>5
    <2> QED
      BY <2>1, <2>3, <2>4
  <1>9. CASE ~c[3]
    <2>1. below = {} /\ found = Foremost(up, W)
      BY <1>9 DEF Lower
    <2>2. Foremost(up, R) = Firsts(up, found, D)
      BY <1>3, <2>1, ForemostFirst
    <2> QED
      BY <1>5, <1>6, <1>8, <1>9, <2>1, <2>2
  <1>10. CASE c[3]
    <2> DEFINE deep == Deep(up, W, D, s)
    <2>0. c[3] = TRUE
      BY <1>1, <1>10
    <2>1. below = {p \o (Word(s) \o r) : r \in deep}
      <3> DEFINE w == Word(s)
      <3>1. CASE ~LASTWORD_BY_VALUE(w) /\ w \in W
        <4>1. deep = Onward(up, D[w], Rest(s)) /\ below = h[<<p \o w, Rest(s), TRUE>>]
          BY <1>1, <1>10, <3>1 DEF Deep, Lower
        <4> HIDE DEF D, W, p, s, deep, below
        <4>2. below = {(p \o w) \o r : r \in deep}
          BY <1>2, <1>4, <3>1, <4>1
        <4>3. \A r \in deep : (p \o w) \o r = p \o (w \o r)
          BY <1>4, <3>1, <4>1 DEF Onward
        <4> QED
          BY <4>2, <4>3
      <3>2. CASE ~(~LASTWORD_BY_VALUE(w) /\ w \in W)
        <4>1. deep = {} /\ below = {}
          BY <1>1, <3>2 DEF Deep, Lower
        <4> QED
          BY <4>1
      <3> QED
        BY <3>1, <3>2
    <2>2. CASE deep # {}
      <3>1. Onward(up, R, s) = {Word(s) \o r : r \in deep}
        <4> HIDE DEF D, W, R, s
        <4> QED
          BY <1>2, <1>3, <2>2, DeepFirst
      <3>2. below # {}
        BY <2>1, <2>2
      <3>3. Answers(up, c) = {p \o r : r \in {Word(s) \o e : e \in deep}}
        BY <1>6, <1>10, <3>1
      <3>4. Sub(up, h, c) = below
        BY <1>5, <3>2
      <3> HIDE DEF deep, below, p, s
      <3> QED
        BY <2>1, <3>3, <3>4
    <2>3. CASE deep = {}
      <3>1. \A w \in W : ~LASTWORD_BY_VALUE(w) => IsFiniteSet(D[w])
        BY <1>4
      <3>2. Onward(up, R, s) = Firsts(up, Onward(up, W, Word(s)), D)
        <4> HIDE DEF D, W, R, s
        <4> QED
          BY <1>2, <1>3, <2>3, <3>1, OnwardFirst
      <3>3. below = {} /\ found = Onward(up, W, Word(s))
        BY <1>10, <2>1, <2>3
      <3> QED
        BY <1>5, <1>6, <1>8, <1>10, <3>2, <3>3
    <2> QED
      BY <2>2, <2>3
  <1> QED
    BY <1>9, <1>10

LEMMA NullSub ==
    ASSUME NEW up \in BOOLEAN, NEW h, NEW c \in Searches, IsNull(c[1])
    PROVE  Sub(up, h, c) = Answers(up, c)
  <1>1. c[1] \notin DOMAIN leaf /\ WordsAt(c[1]) = {}
    BY DEF IsNull, WordsAt
  <1>2. Lower(up, h, c) = {}
    BY <1>1 DEF Lower
  <1>3. Foremost(up, WordsAt(c[1])) = {} /\ Onward(up, WordsAt(c[1]), Word(c[2])) = {}
    BY <1>1 DEF Foremost, Onward
  <1> QED
    BY <1>1, <1>2, <1>3 DEF Sub, Answers

LEMMA SubRight ==
    ASSUME AliveInv, pc = "idle", NEW up \in BOOLEAN, NEW h, NEW c \in Searches,
           c[1] \in DOMAIN array => Right(up, h, c[1])
    PROVE  Sub(up, h, c) = Answers(up, c)
  BY LeafSub, ArraySub, NullSub DEF IsNull

\* The node below a word of an array is at a path.
LEMMA ChildSearch ==
    ASSUME AliveInv, NEW p \in DOMAIN array, NEW w \in WordsAt(p), ~LASTWORD_BY_VALUE(w)
    PROVE  /\ \A x \in AnyTail, o \in BOOLEAN : <<p \o w, x, o>> \in Searches
           /\ ~IsNull(p \o w) /\ p \in Paths /\ w \in Seq(Chars) /\ Len(w) = WORDSIZE
  <1>1. ~IsNull(p \o w) /\ p \in Paths /\ w \in Seq(Chars) /\ Len(w) = WORDSIZE
    BY ChildThere DEF WordsAt
  <1>2. p \o w \in Path
    BY <1>1, KindType DEF AliveInv, TypeOK, IsNull
  <1> QED
    BY <1>1, <1>2 DEF Searches

\* The first words and the next ones.
LEMMA WordsFound ==
    ASSUME NEW p, NEW w
    PROVE  /\ JudyLNext(p, w) = Onward(TRUE, WordsAt(p), w) /\ JudyLFirst(p) = Foremost(TRUE, WordsAt(p))
           /\ JudyLPrev(p, w) = Onward(FALSE, WordsAt(p), w) /\ JudyLLast(p) = Foremost(FALSE, WordsAt(p))
  BY DEF JudyLNext, JudyLFirst, JudyLPrev, JudyLLast, Onward, Foremost, Prec

\* What is right for every search is right for the searches below an array.
LEMMA AnswersRight ==
    ASSUME AliveInv, NEW up, NEW h, \A c \in Searches : h[c] = Answers(up, c), NEW p \in DOMAIN array
    PROVE  Right(up, h, p)
  BY ChildSearch DEF Right

LEMMA NextFind ==
    ASSUME AliveInv, pc = "idle"
    PROVE  \A c \in Searches : NextSub[c] = Sub(TRUE, NextSub, c)
  <1> DEFINE Body(h, c) ==
                LET p == c[1]
                    s == c[2]
                    orig == c[3]
                    w == Word(s)
                    below == IF orig /\ ~LASTWORD_BY_VALUE(w) /\ w \in WordsAt(p)
                             THEN h[<<p \o w, Rest(s), TRUE>>] ELSE {}
                    found == IF orig THEN JudyLNext(p, w) ELSE JudyLFirst(p)
                IN  IF p \in DOMAIN leaf
                    THEN IF orig THEN PPSCLVALUE_LT(s, p) ELSE {p \o leaf[p].rest}
                    ELSE IF below # {} THEN below
                    ELSE UNION {IF LASTWORD_BY_VALUE(v) THEN {p \o v} ELSE h[<<p \o v, <<>>, FALSE>>] : v \in found}
             Iter(h) == h = [c \in Searches |-> Body(h, c)]
             g == [c \in Searches |-> Answers(TRUE, c)]
  <1>1. \A h : \A c \in Searches : Body(h, c) = Sub(TRUE, h, c)
    BY WordsFound DEF Sub, Lower, PPSCLVALUE_LT, Prec
  <1>2. NextSub = CHOOSE h : Iter(h)
    BY DEF NextSub
  <1> HIDE DEF Body
  <1>3. \A c \in Searches : Sub(TRUE, g, c) = g[c]
    <2> SUFFICES ASSUME NEW c \in Searches
                 PROVE  Sub(TRUE, g, c) = g[c]
      OBVIOUS
    <2>1. g[c] = Answers(TRUE, c) /\ \A d \in Searches : g[d] = Answers(TRUE, d)
      OBVIOUS
    <2> HIDE DEF g
    <2>2. c[1] \in DOMAIN array => Right(TRUE, g, c[1])
      BY <2>1, AnswersRight
    <2> QED
      BY <2>1, <2>2, SubRight
  <1>4. Iter(g)
    <2>1. \A c \in Searches : Body(g, c) = Answers(TRUE, c)
      BY <1>1, <1>3
    <2> QED
      BY <2>1
  <1>5. Iter(NextSub)
    BY <1>2, <1>4
  <1> QED
    BY <1>1, <1>5

LEMMA PrevFind ==
    ASSUME AliveInv, pc = "idle"
    PROVE  \A c \in Searches : PrevSub[c] = Sub(FALSE, PrevSub, c)
  <1> DEFINE Body(h, c) ==
                LET p == c[1]
                    s == c[2]
                    orig == c[3]
                    w == Word(s)
                    below == IF orig /\ ~LASTWORD_BY_VALUE(w) /\ w \in WordsAt(p)
                             THEN h[<<p \o w, Rest(s), TRUE>>] ELSE {}
                    found == IF orig THEN JudyLPrev(p, w) ELSE JudyLLast(p)
                IN  IF p \in DOMAIN leaf
                    THEN IF orig THEN PPSCLVALUE_GT(s, p) ELSE {p \o leaf[p].rest}
                    ELSE IF below # {} THEN below
                    ELSE UNION {IF LASTWORD_BY_VALUE(v) THEN {p \o v} ELSE h[<<p \o v, <<>>, FALSE>>] : v \in found}
             Iter(h) == h = [c \in Searches |-> Body(h, c)]
             g == [c \in Searches |-> Answers(FALSE, c)]
  <1>1. \A h : \A c \in Searches : Body(h, c) = Sub(FALSE, h, c)
    BY WordsFound DEF Sub, Lower, PPSCLVALUE_GT, Prec
  <1>2. PrevSub = CHOOSE h : Iter(h)
    BY DEF PrevSub
  <1> HIDE DEF Body
  <1>3. \A c \in Searches : Sub(FALSE, g, c) = g[c]
    <2> SUFFICES ASSUME NEW c \in Searches
                 PROVE  Sub(FALSE, g, c) = g[c]
      OBVIOUS
    <2>1. g[c] = Answers(FALSE, c) /\ \A d \in Searches : g[d] = Answers(FALSE, d)
      OBVIOUS
    <2> HIDE DEF g
    <2>2. c[1] \in DOMAIN array => Right(FALSE, g, c[1])
      BY <2>1, AnswersRight
    <2> QED
      BY <2>1, <2>2, SubRight
  <1>4. Iter(g)
    <2>1. \A c \in Searches : Body(g, c) = Answers(FALSE, c)
      BY <1>1, <1>3
    <2> QED
      BY <2>1
  <1>5. Iter(PrevSub)
    BY <1>2, <1>4
  <1> QED
    BY <1>1, <1>5

LEMMA Nearer ==
    ASSUME NEW n \in Nat, NEW k \in Nat, NEW m \in Nat, NEW l, l = k + WORDSIZE
    PROVE  /\ n + 1 - k <= n + 1
           /\ n + 1 - k <= m + 1 => n + 1 - l <= m
  BY WordSizeNat

\* A function that goes by the rounds finds the right strings everywhere.
LEMMA RoundsRight ==
    ASSUME AliveInv, pc = "idle", NEW up \in BOOLEAN, NEW h,
           \A c \in Searches : h[c] = Sub(up, h, c)
    PROVE  \A c \in Searches : h[c] = Answers(up, c)
  <1>1. PICK n \in Nat : \A q \in DOMAIN array : Len(q) <= n
    BY DEF AliveInv, KindInv, PlaceInv, Placed
  <1>2. \A q \in DOMAIN array : Len(q) \in Nat
    BY LenProperties DEF AliveInv, KindInv, IInv, NodeInv, Paths
  <1>3. ASSUME NEW c \in Searches, c[1] \notin DOMAIN array
        PROVE  h[c] = Answers(up, c)
    <2>1. Sub(up, h, c) = Answers(up, c)
      BY <1>3, SubRight
    <2> QED
      BY <2>1
  <1> DEFINE P == {m \in Nat : \A c \in Searches :
                        c[1] \in DOMAIN array /\ n + 1 - Len(c[1]) <= m => h[c] = Answers(up, c)}
  <1>4. 0 \in P
    BY <1>1, <1>2
  <1>5. ASSUME NEW m \in 0..((n + 1) - 1), m \in P
        PROVE  m + 1 \in P
    <2>0. m \in Nat /\ m + 1 \in Nat
      OBVIOUS
    <2> SUFFICES ASSUME NEW c \in Searches, c[1] \in DOMAIN array, n + 1 - Len(c[1]) <= m + 1
                 PROVE  h[c] = Answers(up, c)
      BY <2>0
    <2>1. ASSUME NEW w \in WordsAt(c[1]), ~LASTWORD_BY_VALUE(w), NEW x \in AnyTail, NEW o \in BOOLEAN
          PROVE  h[<<c[1] \o w, x, o>>] = Answers(up, <<c[1] \o w, x, o>>)
      <3> DEFINE d == <<c[1] \o w, x, o>>
      <3>1. d \in Searches /\ c[1] \in Paths /\ w \in Seq(Chars) /\ Len(w) = WORDSIZE /\ d[1] = c[1] \o w
        BY <2>1, ChildSearch
      <3>2. Len(c[1] \o w) = Len(c[1]) + WORDSIZE
        BY <3>1, ChildPath
      <3> HIDE DEF d
      <3>3. CASE d[1] \in DOMAIN array
        <4>1. n + 1 - Len(d[1]) <= m
          <5>1. Len(c[1]) \in Nat /\ Len(d[1]) = Len(c[1]) + WORDSIZE
            BY <1>2, <3>1, <3>2
          <5>2. n + 1 - Len(c[1]) <= m + 1
            OBVIOUS
          <5> QED
            BY <2>0, <5>1, <5>2, Nearer
        <4>2. h[d] = Answers(up, d)
          BY <1>5, <3>1, <3>3, <4>1
        <4> QED
          BY <4>2 DEF d
      <3>4. CASE d[1] \notin DOMAIN array
        <4>1. h[d] = Answers(up, d)
          BY <1>3, <3>1, <3>4
        <4> QED
          BY <4>1 DEF d
      <3> QED
        BY <3>3, <3>4
    <2>2. Right(up, h, c[1])
      BY <2>1 DEF Right
    <2>3. Sub(up, h, c) = Answers(up, c)
      BY <2>2, SubRight
    <2> QED
      BY <2>3
  <1>6. n + 1 \in Nat /\ n + 1 \in 0..(n + 1)
    OBVIOUS
  <1>7. n + 1 \in P
    <2> HIDE DEF P
    <2> QED
      BY <1>4, <1>5, <1>6, UpTo
  <1>8. ASSUME NEW c \in Searches, c[1] \in DOMAIN array
        PROVE  h[c] = Answers(up, c)
    <2>0. Len(c[1]) \in Nat
      BY <1>2, <1>8
    <2>1. n + 1 - Len(c[1]) <= n + 1
      <3>1. 0 \in Nat /\ Len(c[1]) + WORDSIZE = Len(c[1]) + WORDSIZE
        OBVIOUS
      <3> QED
        BY <2>0, <3>1, Nearer
    <2> QED
      BY <1>7, <1>8, <2>1
  <1> QED
    BY <1>3, <1>8

-----------------------------------------------------------------------------
(* The ordered queries *)

\* Everything in the tree is below the root.
LEMMA RootAnswers ==
    ASSUME KindInv, NEW up \in BOOLEAN, NEW s
    PROVE  Answers(up, <<<<>>, s, TRUE>>) = Onward(up, DOMAIN Content, s)
  <1>1. Sound(leaf, array)
    BY TreeSound DEF KindInv, CallInv
  <1>2. \A t \in DOMAIN Content : t \in Strings /\ t \in Seq(Chars)
    <2>1. \A t \in DOMAIN Content : \E v : Cell(leaf, array, t, v)
      BY <1>1, ContentIs
    <2> QED
      BY <2>1, CellsKind, StringAssumption DEF Chars
  <1>3. \A t \in Seq(Chars) : <<>> \o t = t
    OBVIOUS
  <1>4. Below(<<>>) = DOMAIN Content
    BY <1>2, <1>3 DEF Below
  <1>5. CASE IsNull(<<>>)
    <2>1. ASSUME NEW t \in DOMAIN Content
          PROVE  FALSE
      <3>1. t \in Seq(Chars) /\ <<>> \o t = t
        BY <1>2, <1>3
      <3>2. PICK q : Holds(leaf, array, t, q)
        BY <1>4, <2>1, <3>1, BelowHolds
      <3>3. CASE q = <<>>
        BY <1>5, <3>2, <3>3 DEF Holds, IsNull
      <3>4. CASE q # <<>>
        <4>1. <<>> \in Paths /\ Linked(array, <<>>) /\ Holds(leaf, array, <<>> \o t, q)
          BY <3>1, <3>2, RootPath
        <4>2. <<>> \in DOMAIN array
          BY <1>1, <3>1, <3>4, <4>1, OneWay
        <4> QED
          BY <1>5, <4>2 DEF IsNull
      <3> QED
        BY <3>3, <3>4
    <2>2. DOMAIN Content = {}
      BY <2>1
    <2> QED
      BY <1>5, <2>2 DEF Answers, Onward
  <1>6. CASE ~IsNull(<<>>)
    <2>1. Answers(up, <<<<>>, s, TRUE>>) = {<<>> \o r : r \in Onward(up, DOMAIN Content, s)}
      BY <1>4, <1>6 DEF Answers
    <2>2. \A r \in Onward(up, DOMAIN Content, s) : <<>> \o r = r
      BY <1>2, <1>3 DEF Onward
    <2> QED
      BY <2>1, <2>2
  <1> QED
    BY <1>5, <1>6

LEMMA RootSearch ==
    ASSUME NEW s \in Strings
    PROVE  <<<<>>, s, TRUE>> \in Searches /\ s \in Seq(Chars)
  <1>1. s \in Seq(Chars) /\ <<>> \o s = s
    BY StringAssumption DEF Chars
  <1>2. s \in Tails(<<>>)
    BY <1>1, RootPath, TailIs
  <1> QED
    BY <1>1, <1>2 DEF Searches, Path, AnyTail

LEMMA Neighbours ==
    ASSUME AliveInv, pc = "idle", NEW s \in Strings
    PROVE  /\ JudySLNext(s) = After(DOMAIN Content, s)
           /\ JudySLPrev(s) = Before(DOMAIN Content, s)
           /\ JudySLGet(s) = {s} \cap DOMAIN Content
  <1>1. \A c \in Searches : NextSub[c] = Answers(TRUE, c)
    BY NextFind, RoundsRight
  <1>2. \A c \in Searches : PrevSub[c] = Answers(FALSE, c)
    BY PrevFind, RoundsRight
  <1>3. KindInv /\ Sound(leaf, array)
    BY TreeSound DEF AliveInv, KindInv, CallInv
  <1>4. JudySLNext(s) = Onward(TRUE, DOMAIN Content, s) /\ JudySLPrev(s) = Onward(FALSE, DOMAIN Content, s)
    BY <1>1, <1>2, <1>3, RootSearch, RootAnswers DEF JudySLNext, JudySLPrev
  <1>5. /\ Onward(TRUE, DOMAIN Content, s) = After(DOMAIN Content, s)
        /\ Onward(FALSE, DOMAIN Content, s) = Before(DOMAIN Content, s)
    BY DEF Onward, After, Before, Prec
  <1>6. JudySLGet(s) = {s} \cap DOMAIN Content
    BY <1>3, RootSearch, GetIs
  <1> QED
    BY <1>4, <1>5, <1>6

\* Where no failure has left a word above nothing, the ordered queries answer
\* the nearest string, in either direction, for every set of strings.
THEOREM StringNeighbours == Spec => []NeighboursExactAlive
  <1>1. KindInv => NeighboursExactAlive
    <2> SUFFICES ASSUME KindInv, DeadEnds = {}, pc = "idle", NEW s \in Strings
                 PROVE  /\ JudySLNext(s) = After(DOMAIN Content, s)
                        /\ JudySLPrev(s) = Before(DOMAIN Content, s)
                        /\ JudySLFirst(s) = After(DOMAIN Content, s) \/ s \in DOMAIN Content
                        /\ JudySLLast(s) = Before(DOMAIN Content, s) \/ s \in DOMAIN Content
      BY DEF NeighboursExactAlive, NeighboursExact
    <2>1. AliveInv
      BY DEF AliveInv
    <2>2. /\ JudySLNext(s) = After(DOMAIN Content, s)
          /\ JudySLPrev(s) = Before(DOMAIN Content, s)
          /\ JudySLGet(s) = {s} \cap DOMAIN Content
      BY <2>1, Neighbours
    <2>3. s \notin DOMAIN Content => JudySLGet(s) = {}
      BY <2>2
    <2> QED
      BY <2>2, <2>3 DEF JudySLFirst, JudySLLast
  <1> QED
    BY <1>1, KindAlways, PTL

-----------------------------------------------------------------------------
(* An insertion comes to its end *)

\* What an insertion has before it: the rest of the key, and of the round.
Ahead ==
    4 * Len(pos) + (IF pc = "top" THEN 3 ELSE IF pc = "word" THEN 2 ELSE IF pc = "next" THEN 1 ELSE 0)

LEMMA EndsRound ==
    ASSUME IInv, pc \in {"top", "word", "next"}, pc' = "idle" /\ pos' = <<>>
    PROVE  Ahead' \in Nat /\ Ahead' < Ahead
  <1>1. Len(pos) \in Nat
    BY LenProperties DEF IInv, WalkInv
  <1>2. Ahead' = 0
    BY EmptySeq DEF Ahead
  <1>3. Ahead \in Nat /\ Ahead > 0
    BY <1>1 DEF Ahead
  <1> QED
    BY <1>2, <1>3

LEMMA SameString ==
    ASSUME IInv, pos' = pos, \/ pc = "top" /\ pc' = "word"
                             \/ pc = "word" /\ pc' = "next"
    PROVE  Ahead' \in Nat /\ Ahead' < Ahead
  <1>1. Len(pos) \in Nat
    BY LenProperties DEF IInv, WalkInv
  <1> QED
    BY <1>1 DEF Ahead

\* Every part of the loop of JudySLIns leaves less to do, whatever is carried and
\* whatever fails: the loop has no round that does not use up a word of the key.
THEOREM RoundsEnd == Spec => [][Insertion => Ahead' \in Nat /\ Ahead' < Ahead]_vars
  <1>1. ASSUME IInv, Insertion
        PROVE  Ahead' \in Nat /\ Ahead' < Ahead
    <2>1. CASE AppendSCL
      BY <1>1, <2>1, EndsRound DEF AppendSCL, Returns, Fails, Answer
    <2>2. CASE FoundSCL
      BY <1>1, <2>2, EndsRound DEF FoundSCL, Returns, Answer
    <2>3. CASE TakeSCL
      BY <1>1, <2>3, SameString DEF TakeSCL
    <2>4. CASE PassNode
      BY <1>1, <2>4, SameString DEF PassNode
    <2>5. CASE SameWord
      BY <1>1, <2>5, SameString DEF SameWord
    <2>6. CASE PlugOld
      BY <1>1, <2>6, SameString DEF PlugOld, Plug
    <2>7. CASE PlugFails
      BY <1>1, <2>7, EndsRound DEF PlugFails, Fails, Answer
    <2>8. CASE InsWord
      <3> DEFINE w == Word(pos)
      <3>1. pos \in Seq(Chars) /\ pc = "next" /\ Len(pos) \in Nat
        BY <1>1, <2>8, LenProperties DEF InsWord, InsWordTo, IInv, WalkInv
      <3>2. CASE pc' = "idle" /\ pos' = <<>>
        BY <1>1, <3>1, <3>2, EndsRound
      <3>3. CASE ~(pc' = "idle" /\ pos' = <<>>)
        <4>1. ~LASTWORD_BY_VALUE(w) /\ pc' = "top" /\ pos' = Rest(pos)
          BY <2>8, <3>3 DEF InsWord, InsWordTo, Returns, Fails, Answer
        <4>2. Len(w) = WORDSIZE /\ w \in Seq(Chars) /\ Rest(pos) \in Seq(Chars) /\ pos = w \o Rest(pos)
          BY <3>1, <4>1, WordAndRest
        <4>3. Len(pos) = WORDSIZE + Len(Rest(pos)) /\ Len(Rest(pos)) \in Nat
          <5> HIDE DEF w
          <5> QED
            BY <4>2, ConcatProperties, LenProperties
        <4> QED
          BY <3>1, <4>1, <4>3, WordSizeNat DEF Ahead
      <3> QED
        BY <3>2, <3>3
    <2> QED
      BY <1>1, <2>1, <2>2, <2>3, <2>4, <2>5, <2>6, <2>7, <2>8 DEF Insertion
  <1>2. KindInv => IInv
    BY DEF KindInv
  <1> QED
    BY <1>1, <1>2, KindAlways, PTL DEF Spec
=============================================================================
