---------------------------- MODULE JudyHS_proofs ----------------------------
(***************************************************************************)
(* That a split of insStrJudyLTree finds nothing in its way, that no leaf  *)
(* is leaked or freed with another size, that the tables lead to all there *)
(* is, and that JudyHS is a map: for strings and words of any length, any  *)
(* hash and any failures.                                                  *)
(***************************************************************************)
EXTENDS JudyHS, JudyFacts

Bytes == 0..255
LeafSet == [rest : Seq(Bytes), value : Value]

-----------------------------------------------------------------------------
(* The inductive invariant *)

IsPath(p) ==
    /\ p = <<p[1], p[2], p[3]>>
    /\ p[1] \in Nat /\ p[3] \in Seq(Bytes)
    /\ Len(p[3]) % WORDSIZE = 0

\* Every node is reached; a leaf has all the bytes there are below it.
NodeInv ==
    /\ \A p \in DOMAIN leaf \cup DOMAIN array : IsPath(p) /\ Linked(array, p)
    /\ DOMAIN leaf \cap DOMAIN array = {}
    /\ \A p \in DOMAIN leaf :
          leaf[p] \in LeafSet /\ Len(leaf[p].rest) = LenAt(p) /\ LenAt(p) > WORDSIZE

\* The walk is at a place that is reached, with as many bytes as are below it.
Walking ==
    /\ IsPath(at) /\ Linked(array, at)
    /\ pos \in Seq(Bytes) /\ Len(pos) = LenAt(at)

\* The leaf that is split goes where nothing is.
Splitting ==
    /\ IsNull(at)
    /\ Pls \in LeafSet /\ Len(Pls.rest) = Len(pos)

\* The word of the key where the strings part.
NewWord == SubSeq(key, Len(PPsplit[3]) + 1, Len(PPsplit[3]) + WORDSIZE)

(***************************************************************************)
(* The array where the strings part has one word, the old string's.  If it *)
(* is the key's word too, then only the last word is left, which no leaf   *)
(* holds.                                                                  *)
(***************************************************************************)
PartedAt(o) ==
    /\ IsPath(PPsplit) /\ Linked(array, PPsplit) /\ PPsplit \in DOMAIN array
    /\ LenAt(PPsplit) > WORDSIZE
    /\ NewWord \in Seq(Bytes) /\ Len(NewWord) = WORDSIZE
    /\ pos \in Seq(Bytes) /\ Len(pos) = LenAt(PPsplit) - WORDSIZE
    /\ DOMAIN array[PPsplit] = {o}
    /\ o = NewWord => ~Long(pos)
    /\ pc = "old" => o \in Seq(Bytes) /\ Len(o) = WORDSIZE /\ at = Below(PPsplit, o)

StepInv ==
    /\ pc \in {"idle", "length", "hash", "tree", "split", "old", "new", "exited"}
    /\ pc \in {"idle", "length", "hash"} => PPsplit = NoPath
    /\ pc \in {"length", "hash"} => key \in Seq(Bytes)
    /\ pc \in {"tree", "split", "old"} => Walking
    /\ (pc = "tree" /\ PPsplit = NoPath) \/ pc = "split" => key = at[3] \o pos
    /\ pc = "tree" /\ PPsplit # NoPath /\ Long(pos) => IsNull(at)
    /\ pc \in {"split", "old"} => Splitting
    /\ pc = "split" => Long(pos)
    /\ pc \in {"old", "new"} => \E o : PartedAt(o)

IInv == NodeInv /\ StepInv

-----------------------------------------------------------------------------
(* Strings and paths *)

LEMMA WordSizeNat == WORDSIZE \in Nat \ {0}
  BY HSAssumption

LEMMA WordAndRest ==
    ASSUME NEW s \in Seq(Bytes), Long(s)
    PROVE  /\ Word(s) \in Seq(Bytes) /\ Len(Word(s)) = WORDSIZE
           /\ Rest(s) \in Seq(Bytes) /\ Len(Rest(s)) = Len(s) - WORDSIZE
           /\ s = Word(s) \o Rest(s)
  <1> USE WordSizeNat
  <1>1. /\ Len(s) \in Nat /\ Len(s) > WORDSIZE
        /\ \A i \in 1..Len(s) : s[i] \in Bytes
    BY LenProperties, ElementOfSeq DEF Long
  <1>2. Word(s) = SubSeq(s, 1, WORDSIZE)
    BY DEF Word
  <1>3. Word(s) \in Seq(Bytes) /\ Len(Word(s)) = WORDSIZE
    BY <1>1, <1>2, SubSeqProperties
  <1>4. Rest(s) \in Seq(Bytes) /\ Len(Rest(s)) = Len(s) - WORDSIZE
    BY <1>1, SubSeqProperties DEF Rest
  <1>5. SubSeq(s, 1, WORDSIZE) \o SubSeq(s, WORDSIZE + 1, Len(s)) = SubSeq(s, 1, Len(s))
    <2>1. /\ 1 \in 1..(Len(s) + 1)
          /\ WORDSIZE \in (1 - 1)..Len(s)
          /\ Len(s) \in WORDSIZE..Len(s)
      BY <1>1
    <2> QED
      BY <2>1, ConcatAdjacentSubSeq
  <1> QED
    BY <1>2, <1>3, <1>4, <1>5, SubSeqFull DEF Rest

\* A string with a word more.
LEMMA WordMore ==
    ASSUME NEW s \in Seq(Bytes), NEW w \in Seq(Bytes), Len(w) = WORDSIZE
    PROVE  /\ s \o w \in Seq(Bytes) /\ s \o w # s
           /\ Len(s \o w) = Len(s) + WORDSIZE
           /\ SubSeq(s \o w, 1, Len(s)) = s
           /\ SubSeq(s \o w, Len(s) + 1, Len(s) + WORDSIZE) = w
           /\ \A m \in 0..Len(s) : SubSeq(s \o w, 1, m) = SubSeq(s, 1, m)
           /\ \A m \in 0..(Len(s) - WORDSIZE) :
                SubSeq(s \o w, m + 1, m + WORDSIZE) = SubSeq(s, m + 1, m + WORDSIZE)
  BY WordSizeNat, ChildParts

\* Where a word is taken from what is left and put to what is above.
LEMMA WordMoved ==
    ASSUME NEW s \in Seq(Bytes), NEW w \in Seq(Bytes), NEW r \in Seq(Bytes)
    PROVE  /\ s \o (w \o r) = (s \o w) \o r
           /\ SubSeq(s \o (w \o r), Len(s) + 1, Len(s) + Len(w)) = w
  <1>1. s \o (w \o r) = (s \o w) \o r
    BY ConcatAssociative
  <1> QED
    BY <1>1, MiddleWord

\* A word more leads to the node below it.
LEMMA ChildLinked ==
    ASSUME NEW a, NEW p, IsPath(p), NEW w \in Seq(Bytes), Len(w) = WORDSIZE,
           Linked(a, p), p \in DOMAIN a, w \in DOMAIN a[p], LenAt(p) > WORDSIZE
    PROVE  Linked(a, Below(p, w))
  <1> DEFINE s == p[3]
             c == Below(p, w)
             Q(n) == <<p[1], p[2], SubSeq(s, 1, n)>>
  <1> USE WordSizeNat
  <1>1. s \in Seq(Bytes) /\ Len(s) \in Nat /\ Len(s) % WORDSIZE = 0 /\ p = <<p[1], p[2], s>>
    BY LenProperties DEF IsPath
  <1>2. /\ c = <<p[1], p[2], s \o w>>
        /\ c[1] = p[1] /\ c[2] = p[2] /\ c[3] = s \o w
    BY DEF Below
  <1>3. /\ Len(s \o w) = Len(s) + WORDSIZE
        /\ SubSeq(s \o w, 1, Len(s)) = s
        /\ SubSeq(s \o w, Len(s) + 1, Len(s) + WORDSIZE) = w
        /\ \A m \in 0..Len(s) : SubSeq(s \o w, 1, m) = SubSeq(s, 1, m)
        /\ \A m \in 0..(Len(s) - WORDSIZE) :
              SubSeq(s \o w, m + 1, m + WORDSIZE) = SubSeq(s, m + 1, m + WORDSIZE)
    BY <1>1, WordMore
  <1>4. ASSUME NEW m \in 0..(Len(s \o w) - WORDSIZE), m % WORDSIZE = 0
        PROVE  LET q == <<p[1], p[2], SubSeq(s \o w, 1, m)>>
               IN  /\ q \in DOMAIN a
                   /\ SubSeq(s \o w, m + 1, m + WORDSIZE) \in DOMAIN a[q]
                   /\ LenAt(q) > WORDSIZE
    <2>1. CASE m = Len(s)
      BY <1>1, <1>3, <2>1
    <2>2. CASE m # Len(s)
      <3>1. m \in Nat /\ m < Len(s)
        BY <1>1, <1>3, <2>2
      <3>2. m + WORDSIZE <= Len(s)
        BY <1>1, <1>4, <3>1, Borders
      <3>3. m \in 0..(Len(s) - WORDSIZE) /\ m \in 0..Len(s)
        BY <1>1, <3>1, <3>2
      <3>4. /\ Q(m) \in DOMAIN a
            /\ SubSeq(s, m + 1, m + WORDSIZE) \in DOMAIN a[Q(m)]
            /\ LenAt(Q(m)) > WORDSIZE
        BY <1>4, <3>3 DEF Linked
      <3> QED
        BY <1>3, <3>3, <3>4
    <2> QED
      BY <2>1, <2>2
  <1> QED
    BY <1>2, <1>4 DEF Linked

\* The path below a word.
LEMMA ChildPath ==
    ASSUME NEW p, IsPath(p), NEW w \in Seq(Bytes), Len(w) = WORDSIZE
    PROVE  /\ IsPath(Below(p, w)) /\ Below(p, w) # p
           /\ LenAt(Below(p, w)) = LenAt(p) - WORDSIZE
           /\ Below(p, w)[3] = p[3] \o w
  <1> USE WordSizeNat
  <1>1. p[3] \in Seq(Bytes) /\ Len(p[3]) \in Nat /\ Len(p[3]) % WORDSIZE = 0 /\ p[1] \in Nat
    BY LenProperties DEF IsPath
  <1>2. p[3] \o w \in Seq(Bytes) /\ Len(p[3] \o w) = Len(p[3]) + WORDSIZE /\ p[3] \o w # p[3]
    BY <1>1, WordMore
  <1>3. (Len(p[3]) + WORDSIZE) % WORDSIZE = 0
    BY <1>1, NextBorder
  <1>4. /\ Below(p, w)[1] = p[1] /\ Below(p, w)[2] = p[2] /\ Below(p, w)[3] = p[3] \o w
        /\ Below(p, w) = <<p[1], p[2], p[3] \o w>>
    BY DEF Below
  <1>5. IsPath(Below(p, w))
    BY <1>1, <1>2, <1>3, <1>4 DEF IsPath
  <1>6. LenAt(Below(p, w)) = LenAt(p) - WORDSIZE
    BY <1>1, <1>2, <1>4 DEF LenAt
  <1>7. Below(p, w) # p
    BY <1>2, <1>4
  <1> QED
    BY <1>4, <1>5, <1>6, <1>7

\* What is reached below a path is reached through its word in the array there.
LEMMA ParentThere ==
    ASSUME NEW a, NEW p, IsPath(p), NEW w \in Seq(Bytes), Len(w) = WORDSIZE,
           Linked(a, Below(p, w))
    PROVE  p \in DOMAIN a /\ w \in DOMAIN a[p]
  <1> USE WordSizeNat
  <1>1. p[3] \in Seq(Bytes) /\ Len(p[3]) \in Nat /\ Len(p[3]) % WORDSIZE = 0
        /\ p = <<p[1], p[2], p[3]>>
    BY LenProperties DEF IsPath
  <1>2. /\ Len(p[3] \o w) = Len(p[3]) + WORDSIZE
        /\ SubSeq(p[3] \o w, 1, Len(p[3])) = p[3]
        /\ SubSeq(p[3] \o w, Len(p[3]) + 1, Len(p[3]) + WORDSIZE) = w
    BY <1>1, WordMore
  <1>3. /\ Below(p, w)[1] = p[1] /\ Below(p, w)[2] = p[2] /\ Below(p, w)[3] = p[3] \o w
    BY DEF Below
  <1> DEFINE m == Len(p[3])
             q == <<p[1], p[2], SubSeq(p[3] \o w, 1, m)>>
  <1>4. q \in DOMAIN a /\ SubSeq(p[3] \o w, m + 1, m + WORDSIZE) \in DOMAIN a[q]
    <2>1. m \in 0..(Len(p[3] \o w) - WORDSIZE)
      BY <1>1, <1>2
    <2> QED
      BY <1>1, <1>3, <2>1 DEF Linked
  <1>5. q = p
    BY <1>1, <1>2
  <1> QED
    BY <1>2, <1>4, <1>5

\* Arrays with more in them lead everywhere that they did.
LEMMA LinkedMore ==
    ASSUME NEW a, NEW b, NEW p, Linked(a, p),
           \A q \in DOMAIN a : q \in DOMAIN b /\ DOMAIN a[q] \subseteq DOMAIN b[q]
    PROVE  Linked(b, p)
  BY DEF Linked

\* The bucket of a string.
LEMMA BucketPath ==
    ASSUME NEW s \in Seq(Bytes), NEW a
    PROVE  /\ IsPath(Bucket(s)) /\ Linked(a, Bucket(s))
           /\ LenAt(Bucket(s)) = Len(s) /\ s = Bucket(s)[3] \o s
  <1>1. /\ Bucket(s) = <<Bucket(s)[1], Bucket(s)[2], <<>>>>
        /\ Bucket(s)[1] = Len(s) /\ Bucket(s)[3] = <<>>
    BY DEF Bucket
  <1>2. Len(s) \in Nat /\ <<>> \in Seq(Bytes) /\ Len(<<>>) = 0 /\ <<>> \o s = s
    BY LenProperties, EmptySeq, ConcatEmptySeq
  <1>3. 0 % WORDSIZE = 0
    BY WordSizeNat
  <1> QED
    BY <1>1, <1>2, <1>3, WordSizeNat DEF IsPath, Linked, LenAt

-----------------------------------------------------------------------------
(* Parts of the steps *)

\* The arrays b are those there are, and more words at p.
Grows(b, p) ==
    /\ DOMAIN b = DOMAIN array \cup {p}
    /\ \A q \in DOMAIN array : DOMAIN array[q] \subseteq DOMAIN b[q]
    /\ \A q \in DOMAIN array \ {p} : b[q] = array[q]

\* JudyLIns of a word, and a new array of one.
LEMMA InsertWordGrows ==
    ASSUME NEW p, NEW w, NEW v
    PROVE  /\ Grows(InsertWord(p, w), p)
           /\ DOMAIN InsertWord(p, w)[p] = WordsAt(p) \cup {w}
           /\ p \notin DOMAIN array => Grows(With(array, p, With(<<>>, w, v)), p)
  <1> DEFINE new == With(IF p \in DOMAIN array THEN array[p] ELSE <<>>, w, 0)
             y == IF w \in WordsAt(p) THEN array[p] ELSE new
             z == With(<<>>, w, v)
  <1>1. InsertWord(p, w) = With(array, p, y)
    BY DEF InsertWord
  <1>2. DOMAIN new = WordsAt(p) \cup {w}
    <2>1. DOMAIN (IF p \in DOMAIN array THEN array[p] ELSE <<>>) = WordsAt(p)
      BY EmptySeq DEF WordsAt
    <2> QED
      BY <2>1 DEF With
  <1>3. DOMAIN y = WordsAt(p) \cup {w}
    BY <1>2 DEF WordsAt
  <1> HIDE DEF new, y, z
  <1>4. ASSUME NEW x, p \in DOMAIN array => DOMAIN array[p] \subseteq DOMAIN x
        PROVE  Grows(With(array, p, x), p) /\ With(array, p, x)[p] = x
    BY <1>4 DEF Grows, With
  <1>5. p \in DOMAIN array => DOMAIN array[p] \subseteq DOMAIN y
    BY <1>3 DEF WordsAt
  <1>6. Grows(With(array, p, y), p) /\ With(array, p, y)[p] = y
    BY <1>4, <1>5
  <1>7. p \notin DOMAIN array => Grows(With(array, p, z), p)
    BY <1>4
  <1> QED
    BY <1>1, <1>3, <1>6, <1>7 DEF z

\* Where a walk is and no leaf is, the array may grow.
LEMMA GrowsKeeps ==
    ASSUME NodeInv, NEW p, IsPath(p), Linked(array, p), p \notin DOMAIN leaf,
           Grows(array', p), leaf' = leaf
    PROVE  NodeInv' /\ \A q : Linked(array, q) => Linked(array', q)
  <1>1. \A q \in DOMAIN array : q \in DOMAIN array' /\ DOMAIN array[q] \subseteq DOMAIN array'[q]
    BY DEF Grows
  <1>2. \A q : Linked(array, q) => Linked(array', q)
    BY <1>1, LinkedMore
  <1> QED
    BY <1>2 DEF NodeInv, Grows

\* Below a path without that word in its array there is nothing.
LEMMA NothingBelow ==
    ASSUME NodeInv, NEW p, IsPath(p), NEW w \in Seq(Bytes), Len(w) = WORDSIZE,
           w \notin WordsAt(p)
    PROVE  IsNull(Below(p, w))
  <1> SUFFICES ASSUME Below(p, w) \in DOMAIN leaf \cup DOMAIN array
               PROVE  FALSE
    BY DEF IsNull
  <1>1. Linked(array, Below(p, w))
    BY DEF NodeInv
  <1> QED
    BY <1>1, ParentThere DEF WordsAt

\* A call that returns is at no bucket and splits nothing.
LEMMA Answered ==
    ASSUME NEW r, Answer(r)
    PROVE  StepInv'
  BY DEF Answer, StepInv

LEMMA SameNodes ==
    ASSUME NodeInv, UNCHANGED <<leaf, array>>
    PROVE  NodeInv'
  BY DEF NodeInv

\* A call that fails having changed no node.
LEMMA FailsKeeps ==
    ASSUME IInv, Fails, UNCHANGED <<leaf, array>>
    PROVE  IInv'
  BY Answered, SameNodes DEF IInv, Fails

-----------------------------------------------------------------------------
(* JudyHSIns *)

LEMMA TablesKeep ==
    ASSUME IInv, InsLength \/ InsHash
    PROVE  IInv'
  <1>1. CASE Fails
    BY <1>1, FailsKeeps DEF InsLength, InsHash
  <1>2. CASE InsLength /\ ~Fails
    <2>1. NodeInv'
      BY <1>2, SameNodes DEF IInv, InsLength
    <2>2. StepInv'
      BY <1>2 DEF IInv, StepInv, InsLength
    <2> QED
      BY <2>1, <2>2 DEF IInv
  <1>3. CASE InsHash /\ ~Fails
    <2>1. NodeInv'
      BY <1>3, SameNodes DEF IInv, InsHash
    <2>2. /\ pc' = "tree" /\ at' = Bucket(key) /\ pos' = key /\ key' = key
          /\ PPsplit' = NoPath /\ array' = array /\ key \in Seq(Bytes)
      BY <1>3 DEF IInv, StepInv, InsHash
    <2>3. Walking' /\ key' = at'[3] \o pos'
      BY <2>2, BucketPath DEF Walking
    <2>4. StepInv'
      BY <2>2, <2>3 DEF StepInv
    <2> QED
      BY <2>1, <2>4 DEF IInv
  <1> QED
    BY <1>1, <1>2, <1>3

\* CASE 1, and CASE 2 with the leaf of the key.
LEMMA LeafKeeps ==
    ASSUME IInv, MakeLeaf \/ FoundLeaf
    PROVE  IInv'
  <1>1. StepInv'
    BY Answered DEF MakeLeaf, FoundLeaf, Returns, Fails
  <1>2. CASE UNCHANGED <<leaf, array>>
    BY <1>1, <1>2, SameNodes DEF IInv
  <1>3. CASE MakeLeaf /\ leaf' = With(leaf, at, [rest |-> pos, value |-> 0])
    <2>1. /\ Walking /\ IsNull(at) /\ array' = array /\ Len(pos) > WORDSIZE
      BY <1>3 DEF IInv, StepInv, MakeLeaf, Long
    <2>2. [rest |-> pos, value |-> 0] \in LeafSet
      BY <2>1, HSAssumption DEF Walking, LeafSet
    <2>3. /\ DOMAIN leaf' = DOMAIN leaf \cup {at}
          /\ leaf'[at] = [rest |-> pos, value |-> 0]
          /\ \A p \in DOMAIN leaf \ {at} : leaf'[p] = leaf[p]
      BY <1>3 DEF With
    <2>4. NodeInv'
      BY <2>1, <2>2, <2>3 DEF IInv, NodeInv, Walking, IsNull, LenAt
    <2> QED
      BY <1>1, <2>4 DEF IInv
  <1> QED
    BY <1>2, <1>3 DEF MakeLeaf, FoundLeaf, nodes

\* CASE 2 with the leaf of another string.
LEMMA TakeLeafKeeps ==
    ASSUME IInv, TakeLeaf
    PROVE  IInv'
  <1>1. /\ pc = "tree" /\ Long(pos) /\ at \in DOMAIN leaf
        /\ Pls' = leaf[at] /\ leaf' = Restrict(leaf, DOMAIN leaf \ {at}) /\ pc' = "split"
        /\ UNCHANGED <<array, key, at, pos, PPsplit>>
    BY DEF TakeLeaf, Take, Without
  <1>2. /\ DOMAIN leaf' = DOMAIN leaf \ {at}
        /\ \A p \in DOMAIN leaf' : leaf'[p] = leaf[p]
    BY <1>1 DEF Restrict
  <1>3. NodeInv'
    BY <1>1, <1>2 DEF IInv, NodeInv
  <1>4. Walking /\ key = at[3] \o pos
    BY <1>1 DEF IInv, StepInv, IsNull
  <1>5. Splitting'
    BY <1>1, <1>2, <1>4 DEF IInv, NodeInv, Splitting, Walking, IsNull
  <1>6. Walking' /\ key' = at'[3] \o pos' /\ Long(pos')
    BY <1>1, <1>4 DEF Walking
  <1>7. StepInv'
    BY <1>1, <1>5, <1>6 DEF StepInv
  <1> QED
    BY <1>3, <1>7 DEF IInv

\* A word of both strings: the array for it has no other.
LEMMA SplitWordKeeps ==
    ASSUME IInv, SplitWord
    PROVE  IInv'
  <1>1. CASE Fails /\ UNCHANGED array
    BY <1>1, FailsKeeps DEF SplitWord, SplitOn
  <1>2. CASE ~(Fails /\ UNCHANGED array)
    <2> DEFINE o == Word(Pls.rest)
               more == o = Word(pos) /\ Long(Rest(pos))
    <2>1. /\ pc = "split" /\ array' = InsertWord(at, o) /\ leaf' = leaf
          /\ PPsplit' = at /\ at' = Below(at, o) /\ pos' = Rest(pos) /\ key' = key
          /\ Pls' = [Pls EXCEPT !.rest = Rest(@)]
          /\ pc' = IF more THEN "split" ELSE "old"
      BY <1>2 DEF SplitWord, SplitOn
    <2>2. Walking /\ Splitting /\ NodeInv /\ Long(pos) /\ key = at[3] \o pos
      BY <2>1 DEF IInv, StepInv
    <2>3. /\ Pls \in LeafSet /\ Pls.rest \in Seq(Bytes) /\ Long(Pls.rest)
          /\ pos \in Seq(Bytes) /\ IsPath(at) /\ Linked(array, at)
          /\ at[3] \in Seq(Bytes)
          /\ at \notin DOMAIN leaf /\ at \notin DOMAIN array
          /\ Len(Pls.rest) = Len(pos) /\ Len(pos) = LenAt(at)
          /\ LenAt(at) > WORDSIZE
      BY <2>2 DEF Walking, Splitting, LeafSet, Long, IsNull, IsPath
    <2>4. /\ o \in Seq(Bytes) /\ Len(o) = WORDSIZE
          /\ Rest(Pls.rest) \in Seq(Bytes) /\ Len(Rest(Pls.rest)) = Len(pos) - WORDSIZE
      BY <2>3, WordAndRest
    <2>5. /\ Word(pos) \in Seq(Bytes) /\ Len(Word(pos)) = WORDSIZE
          /\ Rest(pos) \in Seq(Bytes) /\ Len(Rest(pos)) = Len(pos) - WORDSIZE
          /\ pos = Word(pos) \o Rest(pos)
      BY <2>2, <2>3, WordAndRest
    <2>6. Grows(array', at) /\ DOMAIN array'[at] = {o}
      <3>1. WordsAt(at) = {}
        BY <2>3 DEF WordsAt
      <3>2. /\ Grows(InsertWord(at, o), at)
            /\ DOMAIN InsertWord(at, o)[at] = WordsAt(at) \cup {o}
        BY InsertWordGrows
      <3> QED
        BY <2>1, <3>1, <3>2
    <2>7. NodeInv' /\ Linked(array', at)
      BY <2>1, <2>2, <2>3, <2>6, GrowsKeeps
    <2>8. /\ IsPath(Below(at, o)) /\ Below(at, o) # at
          /\ LenAt(Below(at, o)) = LenAt(at) - WORDSIZE /\ Below(at, o)[3] = at[3] \o o
      BY <2>3, <2>4, ChildPath
    <2>9. Linked(array', Below(at, o))
      <3>1. at \in DOMAIN array' /\ o \in DOMAIN array'[at]
        BY <2>6 DEF Grows
      <3> QED
        BY <2>3, <2>4, <2>7, <3>1, ChildLinked
    <2>10. Walking'
      BY <2>1, <2>3, <2>5, <2>8, <2>9 DEF Walking, LenAt, IsPath
    <2>11. IsNull(at)'
      <3>1. IsNull(Below(at, o))
        BY <2>2, <2>3, <2>4, NothingBelow DEF WordsAt
      <3> QED
        BY <2>1, <2>6, <2>8, <3>1 DEF IsNull, Grows
    <2>12. Splitting'
      <3>1. Pls' \in LeafSet /\ Pls'.rest = Rest(Pls.rest)
        BY <2>1, <2>3, <2>4 DEF LeafSet
      <3> QED
        BY <2>1, <2>4, <2>5, <2>11, <3>1 DEF Splitting
    <2>13. at[3] \o pos = (at[3] \o Word(pos)) \o Rest(pos)
      <3>1. at[3] \o (Word(pos) \o Rest(pos)) = (at[3] \o Word(pos)) \o Rest(pos)
        BY <2>3, <2>5, WordMoved
      <3> QED
        BY <2>5, <3>1
    <2>14. CASE more
      <3>1. key' = at'[3] \o pos' /\ Long(pos')
        BY <2>1, <2>2, <2>8, <2>13, <2>14
      <3>2. pc' = "split"
        BY <2>1, <2>14
      <3>3. StepInv'
        BY <2>10, <2>12, <3>1, <3>2 DEF StepInv
      <3> QED
        BY <2>7, <3>3 DEF IInv
    <2>15. CASE ~more
      <3>1. SubSeq(key, Len(at[3]) + 1, Len(at[3]) + WORDSIZE) = Word(pos)
        <4>1. SubSeq(at[3] \o (Word(pos) \o Rest(pos)),
                     Len(at[3]) + 1, Len(at[3]) + Len(Word(pos))) = Word(pos)
          BY <2>3, <2>5, WordMoved
        <4> QED
          BY <2>2, <2>5, <4>1
      <3>2. NewWord' = Word(pos)
        BY <2>1, <3>1 DEF NewWord
      <3>3. pc' = "old"
        BY <2>1, <2>15
      <3>4. o = Word(pos) => ~Long(pos')
        BY <2>1, <2>15
      <3>5. /\ IsPath(PPsplit') /\ Linked(array', PPsplit') /\ PPsplit' \in DOMAIN array'
            /\ LenAt(PPsplit') > WORDSIZE /\ DOMAIN array'[PPsplit'] = {o}
            /\ pos' \in Seq(Bytes) /\ Len(pos') = LenAt(PPsplit') - WORDSIZE
            /\ at' = Below(PPsplit', o)
        BY <2>1, <2>3, <2>5, <2>6, <2>7 DEF Grows
      <3>6. ASSUME NEW v, v = o
            PROVE  PartedAt(v)'
        BY <2>4, <2>5, <3>2, <3>4, <3>5, <3>6 DEF PartedAt, IsPath, LenAt, Below
      <3>7. StepInv'
        BY <2>10, <2>12, <3>3, <3>6 DEF StepInv
      <3> QED
        BY <2>7, <3>7 DEF IInv
    <2> QED
      BY <2>14, <2>15
  <1> QED
    BY <1>1, <1>2

\* The old string goes below its word, in a leaf or in an array of values.
LEMMA PlaceOldKeeps ==
    ASSUME IInv, PlaceOld
    PROVE  IInv'
  <1>1. CASE Fails /\ UNCHANGED <<leaf, array>>
    BY <1>1, FailsKeeps
  <1>2. CASE ~(Fails /\ UNCHANGED <<leaf, array>>)
    <2>1. /\ pc = "old" /\ pc' = "new" /\ UNCHANGED <<key, at, pos, PPsplit>>
      BY <1>2 DEF PlaceOld, Place
    <2>2. /\ NodeInv /\ Walking /\ Splitting
          /\ IsPath(at) /\ Linked(array, at)
          /\ at \notin DOMAIN leaf /\ at \notin DOMAIN array
      BY <2>1 DEF IInv, StepInv, Walking, Splitting, IsNull
    <2>3. PICK o : PartedAt(o)
      BY <2>1 DEF IInv, StepInv
    <2>4. /\ PPsplit \in DOMAIN array /\ PPsplit # at
      BY <2>2, <2>3 DEF PartedAt
    <2>5. ASSUME \A q : Linked(array, q) => Linked(array', q),
                 PPsplit \in DOMAIN array', array'[PPsplit] = array[PPsplit]
          PROVE  StepInv'
      <3>1. Linked(array', PPsplit')
        BY <2>1, <2>3, <2>5 DEF PartedAt
      <3>2. NewWord' = NewWord
        BY <2>1 DEF NewWord
      <3>3. PartedAt(o)'
        BY <2>1, <2>3, <2>5, <3>1, <3>2 DEF PartedAt, IsPath, LenAt
      <3> QED
        BY <2>1, <3>3 DEF StepInv
    <2>6. CASE /\ Long(Pls.rest) /\ leaf' = With(leaf, at, Pls) /\ array' = array
      <3>1. StepInv'
        BY <2>4, <2>5, <2>6
      <3>2. /\ DOMAIN leaf' = DOMAIN leaf \cup {at} /\ leaf'[at] = Pls
            /\ \A p \in DOMAIN leaf \ {at} : leaf'[p] = leaf[p]
        BY <2>6 DEF With
      <3>3. Pls \in LeafSet /\ Len(Pls.rest) = LenAt(at) /\ LenAt(at) > WORDSIZE
        BY <2>2, <2>6 DEF Walking, Splitting, Long
      <3>4. NodeInv'
        BY <2>2, <2>6, <3>2, <3>3 DEF NodeInv
      <3> QED
        BY <3>1, <3>4 DEF IInv
    <2>7. CASE /\ leaf' = leaf
               /\ array' = With(array, at, With(<<>>, Word(Pls.rest), Pls.value))
      <3>1. Grows(array', at)
        BY <2>2, <2>7, InsertWordGrows
      <3>2. NodeInv' /\ \A q : Linked(array, q) => Linked(array', q)
        BY <2>2, <2>7, <3>1, GrowsKeeps
      <3>3. PPsplit \in DOMAIN array' /\ array'[PPsplit] = array[PPsplit]
        BY <2>4, <3>1 DEF Grows
      <3> QED
        BY <2>5, <3>2, <3>3 DEF IInv
    <2> QED
      BY <1>2, <2>6, <2>7 DEF PlaceOld, Place
  <1> QED
    BY <1>1, <1>2

\* Then the key goes below its own word, where no leaf is.
LEMMA InsNewKeeps ==
    ASSUME IInv, InsNew
    PROVE  IInv'
  <1>1. CASE Fails /\ UNCHANGED array
    BY <1>1, FailsKeeps DEF InsNew
  <1>2. CASE ~(Fails /\ UNCHANGED array)
    <2>1. /\ pc = "new" /\ pc' = "tree" /\ leaf' = leaf /\ UNCHANGED <<key, pos, PPsplit>>
          /\ array' = InsertWord(PPsplit, NewWord) /\ at' = Below(PPsplit, NewWord)
      BY <1>2 DEF InsNew, NewWord
    <2>2. PICK o : PartedAt(o)
      BY <2>1 DEF IInv, StepInv
    <2>3. /\ IsPath(PPsplit) /\ Linked(array, PPsplit) /\ PPsplit \in DOMAIN array
          /\ LenAt(PPsplit) > WORDSIZE
          /\ NewWord \in Seq(Bytes) /\ Len(NewWord) = WORDSIZE
          /\ NodeInv /\ PPsplit \notin DOMAIN leaf
      BY <2>2 DEF PartedAt, IInv, NodeInv
    <2>4. Grows(array', PPsplit) /\ DOMAIN array'[PPsplit] = WordsAt(PPsplit) \cup {NewWord}
      BY <2>1, InsertWordGrows
    <2>5. NodeInv' /\ Linked(array', PPsplit)
      BY <2>1, <2>3, <2>4, GrowsKeeps
    <2>6. /\ IsPath(at') /\ at' # PPsplit /\ LenAt(at') = LenAt(PPsplit) - WORDSIZE
      BY <2>1, <2>3, ChildPath
    <2>7. Linked(array', at')
      <3>1. PPsplit \in DOMAIN array' /\ NewWord \in DOMAIN array'[PPsplit]
        BY <2>3, <2>4 DEF Grows
      <3> QED
        BY <2>1, <2>3, <2>5, <3>1, ChildLinked
    <2>8. Walking'
      BY <2>1, <2>2, <2>6, <2>7 DEF Walking, PartedAt, IsPath, LenAt
    <2>9. Long(pos) => IsNull(at)'
      <3> SUFFICES ASSUME Long(pos)
                   PROVE  IsNull(at)'
        OBVIOUS
      <3>1. NewWord \notin WordsAt(PPsplit)
        BY <2>2, <2>3 DEF PartedAt, WordsAt
      <3>2. IsNull(Below(PPsplit, NewWord))
        BY <2>3, <3>1, NothingBelow
      <3> QED
        BY <2>1, <2>4, <2>6, <3>2 DEF IsNull, Grows
    <2>10. PPsplit # NoPath
      <3>1. LenAt(NoPath) = 0
        BY EmptySeq DEF NoPath, LenAt
      <3> QED
        BY <2>3, <3>1, WordSizeNat
    <2>11. StepInv'
      BY <2>1, <2>8, <2>9, <2>10 DEF StepInv
    <2> QED
      BY <2>5, <2>11 DEF IInv
  <1> QED
    BY <1>1, <1>2

\* CASE 3, down.
LEMMA InsDownKeeps ==
    ASSUME IInv, InsDown
    PROVE  IInv'
  <1>1. CASE Fails /\ UNCHANGED array
    BY <1>1, FailsKeeps DEF InsDown
  <1>2. CASE ~(Fails /\ UNCHANGED array)
    <2> DEFINE w == Word(pos)
    <2>1. /\ pc = "tree" /\ pc' = "tree" /\ Long(pos) /\ at \in DOMAIN array
          /\ leaf' = leaf /\ UNCHANGED <<key, PPsplit>>
          /\ array' = InsertWord(at, w) /\ at' = Below(at, w) /\ pos' = Rest(pos)
      BY <1>2 DEF InsDown
    <2>2. /\ Walking /\ NodeInv /\ PPsplit = NoPath /\ key = at[3] \o pos
          /\ at \notin DOMAIN leaf
      BY <2>1 DEF IInv, StepInv, NodeInv, IsNull
    <2>3. /\ IsPath(at) /\ Linked(array, at) /\ pos \in Seq(Bytes) /\ at[3] \in Seq(Bytes)
          /\ Len(pos) = LenAt(at) /\ LenAt(at) > WORDSIZE
      BY <2>1, <2>2 DEF Walking, IsPath, Long
    <2>4. /\ w \in Seq(Bytes) /\ Len(w) = WORDSIZE /\ pos = w \o Rest(pos)
          /\ Rest(pos) \in Seq(Bytes) /\ Len(Rest(pos)) = Len(pos) - WORDSIZE
      BY <2>1, <2>3, WordAndRest
    <2>5. Grows(array', at) /\ w \in DOMAIN array'[at]
      BY <2>1, InsertWordGrows
    <2>6. NodeInv' /\ Linked(array', at)
      BY <2>1, <2>2, <2>3, <2>5, GrowsKeeps
    <2>7. /\ IsPath(at') /\ LenAt(at') = LenAt(at) - WORDSIZE /\ at'[3] = at[3] \o w
      BY <2>1, <2>3, <2>4, ChildPath
    <2>8. Linked(array', at')
      <3>1. at \in DOMAIN array'
        BY <2>5 DEF Grows
      <3> QED
        BY <2>1, <2>3, <2>4, <2>5, <2>6, <3>1, ChildLinked
    <2>9. Walking'
      BY <2>1, <2>3, <2>4, <2>7, <2>8 DEF Walking, IsPath, LenAt
    <2>10. key' = at'[3] \o pos'
      <3>1. at[3] \o (w \o Rest(pos)) = (at[3] \o w) \o Rest(pos)
        BY <2>3, <2>4, WordMoved
      <3> QED
        BY <2>1, <2>2, <2>4, <2>7, <3>1
    <2>11. StepInv'
      BY <2>1, <2>2, <2>9, <2>10 DEF StepInv
    <2> QED
      BY <2>6, <2>11 DEF IInv
  <1> QED
    BY <1>1, <1>2

\* The last word.
LEMMA InsLastKeeps ==
    ASSUME IInv, InsLast
    PROVE  IInv'
  <1>1. StepInv'
    BY Answered DEF InsLast, Returns, Fails
  <1>2. CASE UNCHANGED array
    BY <1>1, <1>2, SameNodes DEF InsLast, IInv
  <1>3. CASE array' = InsertWord(at, pos)
    <2>1. NodeInv /\ IsPath(at) /\ Linked(array, at) /\ leaf' = leaf
      BY DEF InsLast, IInv, StepInv, Walking
    <2>2. at \notin DOMAIN leaf
      <3>1. Len(pos) = LenAt(at) /\ ~(Len(pos) > WORDSIZE)
        BY DEF InsLast, IInv, StepInv, Walking, Long
      <3> QED
        BY <2>1, <3>1 DEF NodeInv
    <2>3. Grows(array', at)
      BY <1>3, InsertWordGrows
    <2> QED
      BY <1>1, <2>1, <2>2, <2>3, GrowsKeeps DEF IInv
  <1> QED
    BY <1>2, <1>3 DEF InsLast

-----------------------------------------------------------------------------
(* The other calls *)

LEMMA CallKeeps ==
    ASSUME IInv, NEW k \in Strings, Ins(k) \/ JudyHSDel(k)
    PROVE  IInv'
  <1>1. NodeInv'
    BY SameNodes DEF IInv, Ins, JudyHSDel, nodes
  <1>2. CASE Ins(k)
    <2>1. k \in Seq(Bytes)
      BY HSAssumption DEF Bytes
    <2>2. StepInv'
      BY <1>2, <2>1 DEF IInv, StepInv, Ins
    <2> QED
      BY <1>1, <2>2 DEF IInv
  <1>3. CASE \E r : Answer(r)
    BY <1>1, <1>3, Answered DEF IInv
  <1>4. CASE pc' = "exited"
    BY <1>1, <1>4 DEF IInv, StepInv
  <1> QED
    BY <1>2, <1>3, <1>4 DEF JudyHSDel

\* Writing a value moves no word and no string.
LEMMA StoreKeeps ==
    ASSUME IInv, NEW v \in Value, Store(v)
    PROVE  IInv'
  <1>1. /\ DOMAIN leaf' = DOMAIN leaf
        /\ \A p \in DOMAIN leaf :
              leaf'[p] = IF p[3] \o leaf[p].rest = reply.at THEN [leaf[p] EXCEPT !.value = v]
                         ELSE leaf[p]
    BY DEF Store
  <1>2. /\ DOMAIN array' = DOMAIN array
        /\ \A p \in DOMAIN array : DOMAIN array'[p] = DOMAIN array[p]
    BY DEF Store
  <1>3. \A p \in DOMAIN leaf' : leaf'[p] \in LeafSet /\ leaf'[p].rest = leaf[p].rest
    BY <1>1 DEF IInv, NodeInv, LeafSet
  <1>4. \A p : Linked(array, p) => Linked(array', p)
    BY <1>2, LinkedMore
  <1>5. NodeInv'
    BY <1>1, <1>2, <1>3, <1>4 DEF IInv, NodeInv
  <1>6. pc = "idle" /\ pc' = "idle" /\ PPsplit' = PPsplit
    BY DEF Store, frame
  <1>7. StepInv'
    BY <1>6 DEF IInv, StepInv
  <1> QED
    BY <1>5, <1>7 DEF IInv

\* Where FreeArray does not come, the whole way is left.
LEMMA FreeKeeps ==
    ASSUME IInv, NEW roots, FreeAll(roots)
    PROVE  IInv'
  <1> DEFINE gone == DelTree(roots)
  <1>1. /\ DOMAIN leaf' = DOMAIN leaf \ gone /\ DOMAIN array' = DOMAIN array \ gone
        /\ \A p \in DOMAIN leaf' : leaf'[p] = leaf[p]
        /\ \A p \in DOMAIN array' : array'[p] = array[p]
    <2>1. /\ leaf' = Restrict(leaf, DOMAIN leaf \ gone)
          /\ array' = Restrict(array, DOMAIN array \ gone)
      BY DEF FreeAll
    <2> QED
      BY <2>1 DEF Restrict
  <1>2. ASSUME NEW p \in DOMAIN leaf' \cup DOMAIN array'
        PROVE  Linked(array', p)
    <2>1. Linked(array, p) /\ BucketOf(p) \notin roots
      BY <1>1, <1>2 DEF IInv, NodeInv, DelTree
    <2>2. ASSUME NEW s, <<p[1], p[2], s>> \in DOMAIN array
          PROVE  <<p[1], p[2], s>> \in DOMAIN array'
      <3>1. BucketOf(<<p[1], p[2], s>>) = BucketOf(p)
        BY DEF BucketOf
      <3> QED
        BY <1>1, <2>1, <2>2, <3>1 DEF DelTree
    <2> QED
      BY <1>1, <2>1, <2>2 DEF Linked
  <1>3. NodeInv'
    BY <1>1, <1>2 DEF IInv, NodeInv
  <1> QED
    BY <1>3, Answered DEF IInv, FreeAll

-----------------------------------------------------------------------------
(* The theorem *)

LEMMA InitInv == Init => IInv
  BY DEF Init, IInv, NodeInv, StepInv

LEMMA NextInv == IInv /\ [Next]_vars => IInv'
  <1> SUFFICES ASSUME IInv, [Next]_vars
               PROVE  IInv'
    OBVIOUS
  <1>1. CASE \E k \in Strings : Ins(k) \/ JudyHSDel(k)
    BY <1>1, CallKeeps
  <1>2. CASE \E v \in Value : Store(v)
    BY <1>2, StoreKeeps
  <1>3. CASE Insertion
    BY <1>3, TablesKeep, LeafKeeps, TakeLeafKeeps, SplitWordKeeps, PlaceOldKeeps,
       InsNewKeeps, InsDownKeeps, InsLastKeeps DEF Insertion
  <1>4. CASE JudyHSFreeArray
    BY <1>4, FreeKeeps DEF JudyHSFreeArray
  <1>5. CASE UNCHANGED vars
    <2>1. UNCHANGED <<leaf, array, pc, key, at, pos, PPsplit, Pls>>
      BY <1>5 DEF vars, nodes, frame
    <2>2. NodeInv'
      BY <2>1, SameNodes DEF IInv
    <2>3. StepInv'
      BY <2>1 DEF IInv, StepInv, Walking, Splitting, PartedAt, NewWord, IsNull
    <2> QED
      BY <2>2, <2>3 DEF IInv
  <1> QED
    BY <1>1, <1>2, <1>3, <1>4, <1>5 DEF Next

LEMMA Invariance == Spec => []IInv
  BY InitInv, NextInv, PTL DEF Spec

\* What is one word long or less is in an array.
LEMMA InvApart == IInv => SplitIsApart
  <1> SUFFICES ASSUME IInv
               PROVE  /\ pc \in {"split", "old"} => IsNull(at)
                      /\ pc = "tree" /\ PPsplit # NoPath => at \notin DOMAIN leaf
    BY DEF SplitIsApart
  <1>1. pc \in {"split", "old"} => IsNull(at)
    BY DEF IInv, StepInv, Splitting
  <1>2. ASSUME pc = "tree", PPsplit # NoPath, at \in DOMAIN leaf
        PROVE  FALSE
    <2>1. ~Long(pos) /\ Len(pos) = LenAt(at)
      BY <1>2 DEF IInv, StepInv, IsNull, Walking
    <2> QED
      BY <1>2, <2>1 DEF IInv, NodeInv, Long
  <1> QED
    BY <1>1, <1>2

(***************************************************************************)
(* While insStrJudyLTree moves an old string down, it is where nothing is, *)
(* and the new one then meets no leaf: neither of the two recursive calls  *)
(* splits again, whatever the strings, their hashes and what fails.        *)
(***************************************************************************)
THEOREM SplitApart == Spec => []SplitIsApart
  BY Invariance, InvApart, PTL

-----------------------------------------------------------------------------
(* The words of the leaves *)

\* A leaf is being split exactly in the steps that split it.
PlsInv ==
    /\ Pls = NoLeaf <=> pc \notin {"split", "old"}
    /\ nfail \in 0..MaxFail

LEMMA LeafNotNone == NoLeaf \notin LeafSet
  BY HSAssumption DEF LeafSet, Bytes

LEMMA PlsStep ==
    ASSUME IInv, PlsInv, Next
    PROVE  PlsInv'
  <1>1. ASSUME NEW r, Answer(r)
        PROVE  pc' = "idle" /\ Pls' = NoLeaf
    BY <1>1 DEF Answer
  <1>2. ASSUME Fails PROVE PlsInv'
    BY <1>1, <1>2, HSAssumption DEF Fails, PlsInv
  <1>3. ASSUME NEW c, NEW s, Returns(c, s) PROVE PlsInv'
    BY <1>1, <1>3 DEF Returns, PlsInv
  <1>4. ASSUME InsLength \/ InsHash \/ InsNew \/ InsDown \/ InsLast PROVE PlsInv'
    BY <1>2, <1>3, <1>4 DEF InsLength, InsHash, InsNew, InsDown, InsLast, PlsInv
  <1>5. ASSUME MakeLeaf \/ FoundLeaf PROVE PlsInv'
    BY <1>2, <1>3, <1>5 DEF MakeLeaf, FoundLeaf
  <1>6. ASSUME TakeLeaf PROVE PlsInv'
    <2>1. Pls' = leaf[at] /\ pc' = "split" /\ nfail' = nfail /\ leaf[at] \in LeafSet
      BY <1>6 DEF TakeLeaf, Take, IInv, NodeInv
    <2> QED
      BY <2>1, LeafNotNone DEF PlsInv
  <1>7. ASSUME SplitWord PROVE PlsInv'
    <2>1. CASE Fails
      BY <1>2, <2>1
    <2>2. CASE Pls' = [Pls EXCEPT !.rest = Rest(@)] /\ pc' \in {"split", "old"} /\ nfail' = nfail
      <3>1. Pls \in LeafSet /\ Pls.rest \in Seq(Bytes) /\ Long(Pls.rest)
        BY <1>7 DEF SplitWord, SplitOn, IInv, StepInv, Splitting, LeafSet, Long
      <3>2. Pls' \in LeafSet
        BY <2>2, <3>1, WordAndRest DEF LeafSet
      <3> QED
        BY <2>2, <3>2, LeafNotNone DEF PlsInv
    <2> QED
      BY <1>7, <2>1, <2>2 DEF SplitWord, SplitOn
  <1>8. ASSUME PlaceOld PROVE PlsInv'
    BY <1>2, <1>8 DEF PlaceOld, Place, PlsInv
  <1>9. ASSUME NEW k \in Strings, Ins(k) \/ JudyHSDel(k) PROVE PlsInv'
    BY <1>1, <1>9 DEF Ins, JudyHSDel, PlsInv
  <1>10. ASSUME NEW v \in Value, Store(v) PROVE PlsInv'
    BY <1>10 DEF Store, frame, PlsInv
  <1>11. ASSUME JudyHSFreeArray PROVE PlsInv'
    BY <1>1, <1>11 DEF JudyHSFreeArray, FreeAll, PlsInv
  <1> QED
    BY <1>4, <1>5, <1>6, <1>7, <1>8, <1>9, <1>10, <1>11 DEF Next, Insertion

LeafWords(l) == SumFunction([p \in DOMAIN l |-> LS_WORDLEN(Len(l[p].rest))])

AreLeaves(l) == IsFiniteSet(DOMAIN l) /\ \A p \in DOMAIN l : l[p] \in LeafSet

LEMMA SizeInt ==
    ASSUME NEW s \in Seq(Bytes)
    PROVE  LS_WORDLEN(Len(s)) \in Nat
  <1> DEFINE n == Len(s) + WORDSIZE + WORDSIZE - 1
  <1>1. n \in Nat /\ WORDSIZE \in Nat \ {0}
    BY WordSizeNat, LenProperties
  <1> HIDE DEF n
  <1>2. n \div WORDSIZE \in Nat
    BY <1>1
  <1> QED
    BY <1>2 DEF LS_WORDLEN, n

LEMMA LeafWordsMore ==
    ASSUME NEW l, AreLeaves(l), NEW x, x \notin DOMAIN l, NEW r \in LeafSet
    PROVE  /\ AreLeaves(With(l, x, r)) /\ LeafWords(l) \in Int
           /\ LeafWords(With(l, x, r)) = LeafWords(l) + LS_WORDLEN(Len(r.rest))
  <1> DEFINE m == With(l, x, r)
             f == [p \in DOMAIN l |-> LS_WORDLEN(Len(l[p].rest))]
             g == [p \in DOMAIN m |-> LS_WORDLEN(Len(m[p].rest))]
             S == DOMAIN l
  <1>1. DOMAIN m = S \cup {x} /\ m[x] = r /\ \A p \in S : m[p] = l[p]
    BY DEF With
  <1>2. IsFiniteSet(S) /\ IsFiniteSet(S \cup {x})
    BY FS_AddElement DEF AreLeaves
  <1>3. \A p \in DOMAIN m : m[p] \in LeafSet
    BY <1>1 DEF AreLeaves
  <1>4. AreLeaves(m)
    BY <1>1, <1>2, <1>3 DEF AreLeaves
  <1> HIDE DEF m
  <1>5. \A p \in S \cup {x} : g[p] \in Int /\ (p \in S => f[p] = g[p])
    BY <1>1, <1>3, SizeInt DEF LeafSet
  <1>6. g[x] = LS_WORDLEN(Len(r.rest)) /\ DOMAIN f = S /\ DOMAIN g = S \cup {x}
    BY <1>1
  <1> HIDE DEF f, g, S
  <1>7. x \notin S /\ \A p \in S : g[p] \in Int /\ f[p] = g[p]
    BY <1>5 DEF S
  <1>8. /\ SumFunctionOnSet(g, S) \in Int
        /\ SumFunctionOnSet(g, S \cup {x}) = g[x] + SumFunctionOnSet(g, S)
    BY <1>2, <1>5, <1>7, SumMore
  <1>9. SumFunctionOnSet(f, S) = SumFunctionOnSet(g, S)
    BY <1>2, <1>7, SumSame
  <1>10. g[x] \in Int
    BY <1>5
  <1>11. LeafWords(l) = SumFunctionOnSet(f, S)
    BY <1>6 DEF LeafWords, SumFunction, f
  <1>12. LeafWords(m) = SumFunctionOnSet(g, S \cup {x})
    BY <1>6 DEF LeafWords, SumFunction, g
  <1> QED
    BY <1>4, <1>6, <1>8, <1>9, <1>10, <1>11, <1>12 DEF m

\* Leaves of the same strings take as many words.
LEMMA LeafWordsSame ==
    ASSUME NEW l, NEW m, DOMAIN m = DOMAIN l, \A p \in DOMAIN l : m[p].rest = l[p].rest
    PROVE  LeafWords(m) = LeafWords(l)
  <1>1. [p \in DOMAIN m |-> LS_WORDLEN(Len(m[p].rest))]
            = [p \in DOMAIN l |-> LS_WORDLEN(Len(l[p].rest))]
    OBVIOUS
  <1> QED
    BY <1>1 DEF LeafWords

LEMMA LeafWordsLess ==
    ASSUME NEW l, AreLeaves(l), NEW x \in DOMAIN l
    PROVE  /\ AreLeaves(Without(l, x)) /\ LeafWords(Without(l, x)) \in Int
           /\ LeafWords(l) = LeafWords(Without(l, x)) + LS_WORDLEN(Len(l[x].rest))
  <1> DEFINE m == Without(l, x)
  <1>1. DOMAIN m = DOMAIN l \ {x} /\ \A p \in DOMAIN m : m[p] = l[p]
    BY DEF Without, Restrict
  <1>2. AreLeaves(m)
    BY <1>1, FS_RemoveElement DEF AreLeaves
  <1>3. l[x] \in LeafSet /\ x \notin DOMAIN m
    BY <1>1 DEF AreLeaves
  <1> HIDE DEF m
  <1>4. /\ LeafWords(m) \in Int
        /\ LeafWords(With(m, x, l[x])) = LeafWords(m) + LS_WORDLEN(Len(l[x].rest))
    BY <1>2, <1>3, LeafWordsMore
  <1>5. DOMAIN With(m, x, l[x]) = DOMAIN l /\ \A p \in DOMAIN l : With(m, x, l[x])[p] = l[p]
    BY <1>1 DEF With
  <1>6. LeafWords(With(m, x, l[x])) = LeafWords(l)
    BY <1>5, LeafWordsSame
  <1> QED
    BY <1>2, <1>4, <1>6 DEF m

LEMMA NoLeafWords ==
    ASSUME NEW l, DOMAIN l = {}
    PROVE  LeafWords(l) = 0 /\ AreLeaves(l)
  BY SumNone, FS_EmptySet DEF LeafWords, SumFunction, AreLeaves

LEMMA SumFinite ==
    ASSUME NEW l, AreLeaves(l)
    PROVE  LeafWords(l) \in Nat
  <1> DEFINE f == [p \in DOMAIN l |-> LS_WORDLEN(Len(l[p].rest))]
  <1>1. \A p \in DOMAIN l : f[p] \in Nat
    BY SizeInt DEF AreLeaves, LeafSet
  <1>2. DOMAIN f = DOMAIN l /\ IsFiniteSet(DOMAIN l)
    BY DEF AreLeaves
  <1> HIDE DEF f
  <1>3. SumFunctionOnSet(f, DOMAIN l) \in Nat
    BY <1>1, <1>2, SumType
  <1> QED
    BY <1>2, <1>3 DEF LeafWords, SumFunction, f

-----------------------------------------------------------------------------
(* Where strings are: their tables, nodes and words *)

\* String s is one that is kept below the bucket of p.
Belongs(s, p) == s \in Strings /\ Bucket(s) = BucketOf(p)

\* A word as long as there are bytes left at p; if it is the last, that of a string.
WordFits(p, w) ==
    /\ w \in Seq(Bytes)
    /\ Len(w) = IF LenAt(p) > WORDSIZE THEN WORDSIZE ELSE LenAt(p)
    /\ LenAt(p) <= WORDSIZE => Belongs(p[3] \o w, p)

Placed(l, a) ==
    /\ DOMAIN l \cup DOMAIN a \subseteq Path
    /\ \A p \in DOMAIN l : Belongs(p[3] \o l[p].rest, p)
    /\ \A p \in DOMAIN a : \A w \in DOMAIN a[p] : WordFits(p, w) /\ a[p][w] \in Value

PlaceInv == Placed(leaf, array)

Roots == buckets \cup ShortRoots

\* Every node is below an entry of the tables, and so is the walk.
TableInv ==
    /\ \A p \in DOMAIN leaf \cup DOMAIN array : BucketOf(p) \in Roots
    /\ \A b \in buckets : b[1] \in lengths
    /\ lengths \subseteq {Len(s) : s \in Strings} /\ buckets \subseteq {Bucket(s) : s \in Strings}
    /\ pc = "hash" => Len(key) \in lengths
    /\ pc \in {"tree", "split", "old"} => BucketOf(at) \in Roots

(***************************************************************************)
(* The key is the one that the call is for, and the string being split is  *)
(* another of the same bucket.                                             *)
(***************************************************************************)
KeyInv ==
    /\ pc \notin {"idle", "exited"} => key \in Strings
    /\ pc \in {"tree", "split", "old"} => Bucket(key) = BucketOf(at)
    /\ pc \in {"tree", "split"} => key = at[3] \o pos
    /\ pc \in {"split", "old"} => Belongs(at[3] \o Pls.rest, at) /\ at[3] \o Pls.rest # key
    /\ pc \in {"old", "new"} =>
          Bucket(key) = BucketOf(PPsplit) /\ key = (PPsplit[3] \o NewWord) \o pos

ReplyInv == reply.op = "Ins" /\ reply.code \in {"new", "old"} => reply.at = reply.key

CallInv == PlaceInv /\ TableInv /\ KeyInv /\ ReplyInv

LEMMA StringBytes == \A s \in Strings : s \in Seq(Bytes)
  BY HSAssumption DEF Bytes

LEMMA BucketIs ==
    ASSUME NEW s \in Seq(Bytes)
    PROVE  /\ Bucket(s)[1] = Len(s) /\ Bucket(s)[3] = <<>> /\ Len(s) \in Nat
           /\ BucketOf(Bucket(s)) = Bucket(s)
           /\ ~Long(s) => Bucket(s) = <<Len(s), 0, <<>>>>
  BY LenProperties DEF Bucket, BucketOf

LEMMA BelowBucket ==
    ASSUME NEW p, NEW w
    PROVE  BucketOf(Below(p, w)) = BucketOf(p) /\ Below(p, w)[3] = p[3] \o w
  BY DEF BucketOf, Below

LEMMA SameBelow ==
    ASSUME NEW s \in Seq(Bytes), NEW r \in Seq(Bytes), NEW t \in Seq(Bytes), s \o r = s \o t
    PROVE  r = t
  BY ConcatSimplifications

\* A node above what is left of a string is on the way of the string.
LEMMA PathOnWay ==
    ASSUME NEW p, IsPath(p), NEW r \in Seq(Bytes), Bucket(p[3] \o r) = BucketOf(p)
    PROVE  p \in Way(p[3] \o r) /\ Beyond(p, p[3] \o r) = r
  <1> USE WordSizeNat
  <1> DEFINE s == p[3] \o r
  <1>1. /\ p = <<p[1], p[2], p[3]>> /\ p[3] \in Seq(Bytes) /\ Len(p[3]) \in Nat
        /\ Len(p[3]) % WORDSIZE = 0 /\ Len(r) \in Nat
    BY LenProperties DEF IsPath
  <1>2. /\ Len(s) = Len(p[3]) + Len(r) /\ SubSeq(s, 1, Len(p[3])) = p[3]
        /\ SubSeq(s, Len(p[3]) + 1, Len(s)) = r
    BY <1>1, PartsOfTwo
  <1>3. Len(p[3]) <= Len(s) /\ Len(s) \in Nat
    BY <1>1, <1>2
  <1>4. PICK i \in 0..(Len(s) \div WORDSIZE) : Len(p[3]) = i * WORDSIZE
    BY <1>1, <1>3, WordsUpTo
  <1>5. Bucket(s)[1] = p[1] /\ Bucket(s)[2] = p[2]
    BY DEF BucketOf
  <1> HIDE DEF s
  <1>6. p = <<Bucket(s)[1], Bucket(s)[2], SubSeq(s, 1, i * WORDSIZE)>>
    BY <1>1, <1>2, <1>4, <1>5
  <1> QED
    BY <1>2, <1>4, <1>6 DEF Way, Beyond, s

\* Where the walk is on the way of the key, and where the old string goes.
LEMMA WalkOnPath ==
    ASSUME NEW p, IsPath(p), NEW r \in Seq(Bytes), Belongs(p[3] \o r, p)
    PROVE  p \in Path
  BY PathOnWay DEF Belongs, Path

-----------------------------------------------------------------------------
(* Cells that are added and taken *)

\* Arrays b are those there are with the word w at p, above v if it is new.
Puts(b, p, w, v) ==
    /\ DOMAIN b = DOMAIN array \cup {p}
    /\ \A q \in DOMAIN b : \A x : x \in DOMAIN b[q] <=> x \in WordsAt(q) \/ (q = p /\ x = w)
    /\ \A q \in DOMAIN b : \A x \in WordsAt(q) : b[q][x] = array[q][x]
    /\ w \notin WordsAt(p) => b[p][w] = v

LEMMA InsertWordPuts ==
    ASSUME NEW p, NEW w
    PROVE  Puts(InsertWord(p, w), p, w, 0)
  <1> DEFINE old == IF p \in DOMAIN array THEN array[p] ELSE <<>>
             y == IF w \in WordsAt(p) THEN array[p] ELSE With(old, w, 0)
  <1>1. InsertWord(p, w) = With(array, p, y)
    BY DEF InsertWord
  <1>2. DOMAIN old = WordsAt(p) /\ \A x \in WordsAt(p) : old[x] = array[p][x]
    BY EmptySeq DEF WordsAt
  <1>3. \A x : x \in DOMAIN y <=> x \in WordsAt(p) \/ x = w
    BY <1>2 DEF With, WordsAt
  <1>4. /\ \A x \in WordsAt(p) : y[x] = array[p][x]
        /\ w \notin WordsAt(p) => y[w] = 0
    BY <1>2 DEF With, WordsAt
  <1> HIDE DEF y
  <1>5. /\ DOMAIN With(array, p, y) = DOMAIN array \cup {p}
        /\ With(array, p, y)[p] = y
        /\ \A q \in DOMAIN array : q # p => With(array, p, y)[q] = array[q]
    BY DEF With
  <1> QED
    BY <1>1, <1>3, <1>4, <1>5 DEF Puts, WordsAt

LEMMA NewArrayPuts ==
    ASSUME NEW p, NEW w, NEW v, p \notin DOMAIN array
    PROVE  Puts(With(array, p, With(<<>>, w, v)), p, w, v)
  <1> DEFINE y == With(<<>>, w, v)
  <1>1. WordsAt(p) = {}
    BY DEF WordsAt
  <1>2. y[w] = v /\ \A x : x \in DOMAIN y <=> x = w
    BY EmptySeq DEF With
  <1> HIDE DEF y
  <1>3. /\ DOMAIN With(array, p, y) = DOMAIN array \cup {p}
        /\ With(array, p, y)[p] = y
        /\ \A q \in DOMAIN array : q # p => With(array, p, y)[q] = array[q]
    BY DEF With
  <1>4. Puts(With(array, p, y), p, w, v)
    BY <1>1, <1>2, <1>3 DEF Puts, WordsAt
  <1> QED
    BY <1>4 DEF y

\* A word that fits, put where strings belong.
LEMMA PutsPlaced ==
    ASSUME PlaceInv, NEW l, NEW b, NEW p \in Path, NEW w, WordFits(p, w), NEW v \in Value,
           Puts(b, p, w, v), l = leaf
    PROVE  Placed(l, b)
  <1>1. ASSUME NEW q \in DOMAIN b, NEW x \in DOMAIN b[q]
        PROVE  WordFits(q, x) /\ b[q][x] \in Value
    <2>1. CASE x \in WordsAt(q)
      <3>1. q \in DOMAIN array /\ x \in DOMAIN array[q] /\ b[q][x] = array[q][x]
        BY <1>1, <2>1 DEF Puts, WordsAt
      <3> QED
        BY <3>1 DEF PlaceInv, Placed
    <2>2. CASE x \notin WordsAt(q)
      <3>1. q = p /\ x = w /\ b[q][x] = v
        BY <1>1, <2>2 DEF Puts
      <3> QED
        BY <3>1
    <2> QED
      BY <2>1, <2>2
  <1> QED
    BY <1>1 DEF PlaceInv, Placed, Puts

LEMMA LeafPlaced ==
    ASSUME PlaceInv, NEW p \in Path, NEW r, Belongs(p[3] \o r.rest, p), NEW l, NEW b,
           l = With(leaf, p, r), b = array
    PROVE  Placed(l, b)
  <1>1. DOMAIN l = DOMAIN leaf \cup {p} /\ l[p] = r /\ \A q \in DOMAIN leaf \ {p} : l[q] = leaf[q]
    BY DEF With
  <1> QED
    BY <1>1 DEF PlaceInv, Placed

-----------------------------------------------------------------------------
(* The tables, the key and what is handed out, step by step *)

\* Steps that leave the tables alone, and come to no other bucket.
LEMMA TablesSame ==
    ASSUME TableInv, UNCHANGED <<lengths, buckets>>,
           \A p \in DOMAIN leaf' \cup DOMAIN array' : BucketOf(p) \in Roots,
           pc' # "hash", pc' \in {"tree", "split", "old"} => BucketOf(at') \in Roots
    PROVE  TableInv'
  <1>1. Roots' = Roots
    BY DEF Roots, ShortRoots
  <1> QED
    BY <1>1 DEF TableInv, BucketOf

\* A call that is over asks for nothing more.
LEMMA AnsweredCall ==
    ASSUME CallInv, NEW r, Answer(r),
           r.op = "Ins" /\ r.code \in {"new", "old"} => r.at = r.key
    PROVE  KeyInv' /\ ReplyInv' /\ pc' = "idle"
  BY DEF Answer, KeyInv, ReplyInv

LEMMA ReturnsCall ==
    ASSUME CallInv, NEW c, NEW s, Returns(c, s), s = key
    PROVE  KeyInv' /\ ReplyInv' /\ pc' = "idle"
  BY AnsweredCall DEF Returns

LEMMA FailsCall ==
    ASSUME CallInv, Fails, UNCHANGED <<lengths, buckets, leaf, array>>
    PROVE  CallInv'
  <1>1. KeyInv' /\ ReplyInv' /\ pc' = "idle"
    BY AnsweredCall DEF Fails
  <1>2. TableInv'
    BY <1>1, TablesSame DEF CallInv, TableInv
  <1> QED
    BY <1>1, <1>2 DEF CallInv, PlaceInv

LEMMA TablesCall ==
    ASSUME IInv, CallInv, InsLength \/ InsHash
    PROVE  CallInv'
  <1>1. CASE Fails /\ UNCHANGED <<lengths, buckets, leaf, array>>
    BY <1>1, FailsCall
  <1>2. CASE InsLength /\ ~(Fails /\ UNCHANGED <<lengths, buckets, leaf, array>>)
    <2>1. /\ lengths' = lengths \cup {Len(key)} /\ pc' = "hash" /\ pc = "length"
          /\ UNCHANGED <<buckets, leaf, array, key, reply>>
      BY <1>2 DEF InsLength
    <2>2. Roots \subseteq Roots'
      BY <2>1 DEF Roots, ShortRoots
    <2>3. key \in Strings
      BY <2>1 DEF CallInv, KeyInv
    <2>4. TableInv'
      BY <2>1, <2>2, <2>3 DEF CallInv, TableInv, BucketOf
    <2> QED
      BY <2>1, <2>3, <2>4 DEF CallInv, KeyInv, ReplyInv, PlaceInv
  <1>3. CASE InsHash /\ ~(Fails /\ UNCHANGED <<lengths, buckets, leaf, array>>)
    <2>1. /\ buckets' = buckets \cup (IF Long(key) THEN {Bucket(key)} ELSE {})
          /\ pc' = "tree" /\ at' = Bucket(key) /\ pos' = key /\ pc = "hash"
          /\ UNCHANGED <<lengths, leaf, array, key, reply>>
      BY <1>3 DEF InsHash
    <2>2. Roots \subseteq Roots'
      BY <2>1 DEF Roots, ShortRoots
    <2>3. /\ key \in Strings /\ key \in Seq(Bytes) /\ Len(key) \in lengths
          /\ Bucket(key)[1] = Len(key) /\ Bucket(key)[3] = <<>>
          /\ BucketOf(Bucket(key)) = Bucket(key)
          /\ ~Long(key) => Bucket(key) = <<Len(key), 0, <<>>>>
          /\ Len(key) \in Nat /\ <<>> \o key = key
      BY <2>1, StringBytes, BucketIs, ConcatEmptySeq DEF CallInv, KeyInv, TableInv
    <2>4. Bucket(key) \in Roots'
      <3>1. CASE Long(key)
        BY <2>1, <3>1 DEF Roots
      <3>2. CASE ~Long(key)
        <4>1. Len(key) \in {l \in lengths : l <= WORDSIZE}
          BY <2>3, <3>2, WordSizeNat DEF Long
        <4> QED
          BY <2>1, <2>3, <3>2, <4>1 DEF Roots, ShortRoots
      <3> QED
        BY <3>1, <3>2
    <2>5. BucketOf(at') \in Roots'
      BY <2>1, <2>3, <2>4
    <2>6. \A b \in buckets' : b[1] \in lengths'
      BY <2>1, <2>3 DEF CallInv, TableInv
    <2>7. \A p \in DOMAIN leaf' \cup DOMAIN array' : BucketOf(p) \in Roots'
      BY <2>1, <2>2 DEF CallInv, TableInv
    <2>8. lengths' \subseteq {Len(s) : s \in Strings} /\ buckets' \subseteq {Bucket(s) : s \in Strings}
      BY <2>1, <2>3 DEF CallInv, TableInv
    <2>9. TableInv'
      BY <2>1, <2>5, <2>6, <2>7, <2>8 DEF TableInv, BucketOf
    <2>10. KeyInv'
      BY <2>1, <2>3 DEF KeyInv, BucketOf
    <2> QED
      BY <2>1, <2>9, <2>10 DEF CallInv, ReplyInv, PlaceInv
  <1> QED
    BY <1>1, <1>2, <1>3

\* A walk is above what is left of the key.
LEMMA WalkIs ==
    ASSUME IInv, CallInv, pc \in {"tree", "split"}
    PROVE  /\ IsPath(at) /\ Linked(array, at) /\ at[3] \in Seq(Bytes) /\ pos \in Seq(Bytes)
           /\ Len(pos) = LenAt(at) /\ key = at[3] \o pos /\ key \in Strings
           /\ Belongs(at[3] \o pos, at) /\ at \in Path /\ BucketOf(at) \in Roots
           /\ Len(pos) \in Nat /\ LenAt(at) \in Nat
           /\ Long(pos) <=> LenAt(at) > WORDSIZE
           /\ ~Long(pos) <=> LenAt(at) <= WORDSIZE
  <1>1. /\ IsPath(at) /\ Linked(array, at) /\ at[3] \in Seq(Bytes) /\ pos \in Seq(Bytes)
        /\ Len(pos) = LenAt(at) /\ key = at[3] \o pos /\ key \in Strings
        /\ Bucket(key) = BucketOf(at) /\ BucketOf(at) \in Roots
    BY DEF IInv, StepInv, Walking, IsPath, CallInv, KeyInv, TableInv
  <1>2. Belongs(at[3] \o pos, at)
    BY <1>1 DEF Belongs
  <1>3. at \in Path
    BY <1>1, <1>2, WalkOnPath
  <1>4. Len(pos) \in Nat
    BY <1>1, LenProperties
  <1> QED
    BY <1>1, <1>2, <1>3, <1>4, WordSizeNat DEF Long

LEMMA LeafCall ==
    ASSUME IInv, CallInv, MakeLeaf \/ FoundLeaf
    PROVE  CallInv'
  <1>1. /\ pc = "tree" /\ UNCHANGED <<lengths, buckets, array>>
        /\ key = at[3] \o pos /\ Belongs(at[3] \o pos, at) /\ at \in Path /\ BucketOf(at) \in Roots
    BY WalkIs DEF MakeLeaf, FoundLeaf, nodes
  <1>2. CASE Fails /\ leaf' = leaf
    BY <1>1, <1>2, FailsCall
  <1>3. ASSUME NEW c, Returns(c, key), leaf' = leaf \/ leaf' = With(leaf, at, [rest |-> pos, value |-> 0])
        PROVE  CallInv'
    <2>1. KeyInv' /\ ReplyInv' /\ pc' = "idle"
      BY <1>3, ReturnsCall
    <2>2. DOMAIN leaf' \subseteq DOMAIN leaf \cup {at}
      BY <1>3 DEF With
    <2>3. TableInv'
      BY <1>1, <2>1, <2>2, TablesSame DEF CallInv, TableInv
    <2>4. PlaceInv'
      <3>1. CASE leaf' = leaf
        BY <1>1, <3>1 DEF CallInv, PlaceInv
      <3>2. CASE leaf' = With(leaf, at, [rest |-> pos, value |-> 0])
        <4> DEFINE r == [rest |-> pos, value |-> 0]
        <4>1. r.rest = pos
          OBVIOUS
        <4>2. leaf' = With(leaf, at, r)
          BY <3>2
        <4> HIDE DEF r
        <4>3. Placed(leaf', array')
          BY <1>1, <4>1, <4>2, LeafPlaced DEF CallInv
        <4> QED
          BY <4>3 DEF PlaceInv
      <3> QED
        BY <1>3, <3>1, <3>2
    <2> QED
      BY <2>1, <2>3, <2>4 DEF CallInv
  <1> QED
    BY <1>1, <1>2, <1>3 DEF MakeLeaf, FoundLeaf, nodes

LEMMA TakeLeafCall ==
    ASSUME IInv, CallInv, TakeLeaf
    PROVE  CallInv'
  <1>1. /\ pc = "tree" /\ at \in DOMAIN leaf /\ leaf[at].rest # pos
        /\ Pls' = leaf[at] /\ leaf' = Restrict(leaf, DOMAIN leaf \ {at}) /\ pc' = "split"
        /\ UNCHANGED <<lengths, buckets, array, key, at, pos, reply>>
    BY DEF TakeLeaf, Take, Without
  <1>2. /\ key = at[3] \o pos /\ pos \in Seq(Bytes) /\ at[3] \in Seq(Bytes) /\ key \in Strings
        /\ Belongs(at[3] \o pos, at) /\ BucketOf(at) \in Roots
    BY <1>1, WalkIs
  <1>3. DOMAIN leaf' = DOMAIN leaf \ {at} /\ \A p \in DOMAIN leaf' : leaf'[p] = leaf[p]
    BY <1>1 DEF Restrict
  <1>4. TableInv'
    BY <1>1, <1>2, <1>3, TablesSame DEF CallInv, TableInv
  <1>5. PlaceInv'
    BY <1>1, <1>3 DEF CallInv, PlaceInv, Placed
  <1>6. leaf[at].rest \in Seq(Bytes) /\ Belongs(at[3] \o leaf[at].rest, at)
    BY <1>1 DEF IInv, NodeInv, LeafSet, CallInv, PlaceInv, Placed
  <1>7. at[3] \o leaf[at].rest # at[3] \o pos
    BY <1>1, <1>2, <1>6, SameBelow
  <1>8. KeyInv'
    BY <1>1, <1>2, <1>6, <1>7 DEF KeyInv, Belongs, BucketOf
  <1> QED
    BY <1>1, <1>4, <1>5, <1>8 DEF CallInv, ReplyInv

\* The leaf that is being split is of another string of this bucket, as long as the key.
LEMMA SplitIs ==
    ASSUME IInv, CallInv, pc = "split"
    PROVE  /\ Pls \in LeafSet /\ Pls.rest \in Seq(Bytes) /\ Pls.value \in Value
           /\ Long(pos) /\ LenAt(at) > WORDSIZE /\ IsNull(at)
           /\ Word(Pls.rest) \in Seq(Bytes) /\ Len(Word(Pls.rest)) = WORDSIZE
           /\ Rest(Pls.rest) \in Seq(Bytes) /\ Pls.rest = Word(Pls.rest) \o Rest(Pls.rest)
           /\ Word(pos) \in Seq(Bytes) /\ Len(Word(pos)) = WORDSIZE
           /\ Rest(pos) \in Seq(Bytes) /\ pos = Word(pos) \o Rest(pos)
           /\ key = (at[3] \o Word(pos)) \o Rest(pos)
           /\ at[3] \o Pls.rest = (at[3] \o Word(Pls.rest)) \o Rest(Pls.rest)
           /\ SubSeq(key, Len(at[3]) + 1, Len(at[3]) + WORDSIZE) = Word(pos)
           /\ WordFits(at, Word(Pls.rest))
  <1>1. /\ Pls \in LeafSet /\ Pls.rest \in Seq(Bytes) /\ Pls.value \in Value
        /\ Len(Pls.rest) = Len(pos) /\ Long(pos) /\ IsNull(at)
    BY DEF IInv, StepInv, Splitting, LeafSet
  <1>2. /\ pos \in Seq(Bytes) /\ at[3] \in Seq(Bytes) /\ LenAt(at) > WORDSIZE
        /\ key = at[3] \o pos /\ LenAt(at) \in Nat
    BY <1>1, WalkIs
  <1>3. Long(Pls.rest)
    BY <1>1 DEF Long
  <1>4. /\ Word(Pls.rest) \in Seq(Bytes) /\ Len(Word(Pls.rest)) = WORDSIZE
        /\ Rest(Pls.rest) \in Seq(Bytes) /\ Pls.rest = Word(Pls.rest) \o Rest(Pls.rest)
    BY <1>1, <1>3, WordAndRest
  <1>5. /\ Word(pos) \in Seq(Bytes) /\ Len(Word(pos)) = WORDSIZE
        /\ Rest(pos) \in Seq(Bytes) /\ pos = Word(pos) \o Rest(pos)
    BY <1>1, <1>2, WordAndRest
  <1>6. at[3] \o (Word(Pls.rest) \o Rest(Pls.rest)) = (at[3] \o Word(Pls.rest)) \o Rest(Pls.rest)
    BY <1>2, <1>4, WordMoved
  <1>7. /\ at[3] \o (Word(pos) \o Rest(pos)) = (at[3] \o Word(pos)) \o Rest(pos)
        /\ SubSeq(at[3] \o (Word(pos) \o Rest(pos)),
                  Len(at[3]) + 1, Len(at[3]) + Len(Word(pos))) = Word(pos)
    BY <1>2, <1>5, WordMoved
  <1>8. WordFits(at, Word(Pls.rest))
    BY <1>2, <1>4, WordSizeNat DEF WordFits
  <1> QED
    BY <1>1, <1>2, <1>4, <1>5, <1>6, <1>7, <1>8

LEMMA SplitWordCall ==
    ASSUME IInv, CallInv, SplitWord
    PROVE  CallInv'
  <1> DEFINE o == Word(Pls.rest)
             more == Word(Pls.rest) = Word(pos) /\ Long(Rest(pos))
  <1>1. pc = "split" /\ UNCHANGED <<lengths, buckets, leaf>>
    BY DEF SplitWord, SplitOn
  <1>2. CASE Fails /\ array' = array
    BY <1>1, <1>2, FailsCall
  <1>3. CASE ~(Fails /\ array' = array)
    <2>1. /\ array' = InsertWord(at, o) /\ PPsplit' = at
          /\ at' = Below(at, o) /\ pos' = Rest(pos)
          /\ Pls' = [Pls EXCEPT !.rest = Rest(@)]
          /\ pc' = IF more THEN "split" ELSE "old"
          /\ UNCHANGED <<key, reply>>
      BY <1>3 DEF SplitWord, SplitOn
    <2>2. /\ Pls \in LeafSet /\ o \in Seq(Bytes) /\ Rest(Pls.rest) \in Seq(Bytes)
          /\ key = (at[3] \o Word(pos)) \o Rest(pos)
          /\ at[3] \o Pls.rest = (at[3] \o o) \o Rest(Pls.rest)
          /\ SubSeq(key, Len(at[3]) + 1, Len(at[3]) + WORDSIZE) = Word(pos)
          /\ WordFits(at, o) /\ at \in Path /\ BucketOf(at) \in Roots
          /\ key \in Strings /\ Bucket(key) = BucketOf(at)
          /\ Belongs(at[3] \o Pls.rest, at) /\ at[3] \o Pls.rest # key
      BY <1>1, SplitIs, WalkIs DEF CallInv, KeyInv
    <2>3. BucketOf(at') = BucketOf(at) /\ at'[3] = at[3] \o o
      BY <2>1, BelowBucket
    <2>4. Pls'.rest = Rest(Pls.rest)
      BY <2>1, <2>2 DEF LeafSet
    <2>5. Puts(array', at, o, 0)
      BY <2>1, InsertWordPuts
    <2>6. PlaceInv'
      BY <1>1, <2>2, <2>5, HSAssumption, PutsPlaced DEF CallInv, PlaceInv
    <2>7. TableInv'
      <3>1. pc' # "hash"
        BY <2>1
      <3> QED
        BY <1>1, <2>2, <2>3, <2>5, <3>1, TablesSame DEF CallInv, TableInv, Puts
    <2>8. at'[3] \o Pls'.rest = at[3] \o Pls.rest
      BY <2>2, <2>3, <2>4
    <2>9. Belongs(at'[3] \o Pls'.rest, at')
      BY <2>2, <2>3, <2>8 DEF Belongs
    <2>10. CASE more
      <3>1. key' = at'[3] \o pos' /\ pc' = "split"
        BY <2>1, <2>2, <2>3, <2>10
      <3>2. KeyInv'
        BY <2>1, <2>2, <2>3, <2>8, <2>9, <3>1 DEF KeyInv, Belongs, BucketOf
      <3> QED
        BY <2>1, <2>6, <2>7, <3>2 DEF CallInv, ReplyInv
    <2>11. CASE ~more
      <3>1. NewWord' = Word(pos)
        BY <2>1, <2>2 DEF NewWord
      <3>2. pc' = "old"
        BY <2>1, <2>11
      <3>3. key' = (PPsplit'[3] \o NewWord') \o pos'
        BY <2>1, <2>2, <3>1
      <3>4. KeyInv'
        BY <2>1, <2>2, <2>3, <2>8, <2>9, <3>2, <3>3 DEF KeyInv, Belongs, BucketOf
      <3> QED
        BY <2>1, <2>6, <2>7, <3>4 DEF CallInv, ReplyInv
    <2> QED
      BY <2>10, <2>11
  <1> QED
    BY <1>2, <1>3

\* Where the old string goes, with what is left of it.
LEMMA OldIs ==
    ASSUME IInv, CallInv, pc = "old"
    PROVE  /\ IsPath(at) /\ at \in Path /\ at[3] \in Seq(Bytes) /\ BucketOf(at) \in Roots
           /\ IsNull(at) /\ at \notin DOMAIN leaf /\ at \notin DOMAIN array /\ at # PPsplit
           /\ Pls \in LeafSet /\ Pls.rest \in Seq(Bytes) /\ Pls.value \in Value
           /\ Belongs(at[3] \o Pls.rest, at)
           /\ ~Long(Pls.rest) => Word(Pls.rest) = Pls.rest /\ WordFits(at, Pls.rest)
           /\ ~Long(Pls.rest) <=> LenAt(at) <= WORDSIZE
  <1>1. /\ IsPath(at) /\ at[3] \in Seq(Bytes) /\ BucketOf(at) \in Roots
        /\ IsNull(at) /\ at \notin DOMAIN leaf /\ at \notin DOMAIN array
        /\ Pls \in LeafSet /\ Pls.rest \in Seq(Bytes) /\ Pls.value \in Value
        /\ Len(Pls.rest) = LenAt(at) /\ Belongs(at[3] \o Pls.rest, at)
    BY DEF IInv, StepInv, Walking, Splitting, IsPath, IsNull, LeafSet, CallInv, TableInv, KeyInv
  <1>2. at # PPsplit
    BY <1>1 DEF IInv, StepInv, PartedAt
  <1>3. at \in Path
    BY <1>1, WalkOnPath
  <1>4. Len(Pls.rest) \in Nat
    BY <1>1, LenProperties
  <1>5. ~Long(Pls.rest) <=> LenAt(at) <= WORDSIZE
    BY <1>1, <1>4, WordSizeNat DEF Long
  <1>6. ~Long(Pls.rest) => WordFits(at, Pls.rest)
    BY <1>1, <1>4, <1>5, WordSizeNat DEF WordFits, Long
  <1>7. ~Long(Pls.rest) => Word(Pls.rest) = Pls.rest
    BY <1>1, SubSeqFull DEF Word
  <1> QED
    BY <1>1, <1>2, <1>3, <1>5, <1>6, <1>7

LEMMA PlaceOldCall ==
    ASSUME IInv, CallInv, PlaceOld
    PROVE  CallInv'
  <1>1. pc = "old" /\ UNCHANGED <<lengths, buckets>>
    BY DEF PlaceOld, Place
  <1>2. CASE Fails /\ leaf' = leaf /\ array' = array
    BY <1>1, <1>2, FailsCall
  <1>3. CASE ~(Fails /\ leaf' = leaf /\ array' = array)
    <2>1. /\ pc' = "new" /\ UNCHANGED <<key, at, pos, PPsplit, reply>>
          /\ \/ leaf' = With(leaf, at, Pls) /\ array' = array
             \/ /\ ~Long(Pls.rest) /\ leaf' = leaf
                /\ array' = With(array, at, With(<<>>, Word(Pls.rest), Pls.value))
      BY <1>3 DEF PlaceOld, Place
    <2>2. /\ at \in Path /\ BucketOf(at) \in Roots /\ at \notin DOMAIN array
          /\ Pls.value \in Value /\ Belongs(at[3] \o Pls.rest, at)
          /\ ~Long(Pls.rest) => Word(Pls.rest) = Pls.rest /\ WordFits(at, Pls.rest)
      BY <1>1, OldIs
    <2>3. PlaceInv' /\ DOMAIN leaf' \cup DOMAIN array' \subseteq DOMAIN leaf \cup DOMAIN array \cup {at}
      <3>1. CASE leaf' = With(leaf, at, Pls) /\ array' = array
        <4>1. Placed(leaf', array')
          BY <2>2, <3>1, LeafPlaced DEF CallInv
        <4>2. DOMAIN leaf' = DOMAIN leaf \cup {at}
          BY <3>1 DEF With
        <4> QED
          BY <3>1, <4>1, <4>2 DEF PlaceInv
      <3>2. CASE /\ ~Long(Pls.rest) /\ leaf' = leaf
                 /\ array' = With(array, at, With(<<>>, Word(Pls.rest), Pls.value))
        <4>1. Puts(array', at, Pls.rest, Pls.value)
          BY <2>2, <3>2, NewArrayPuts
        <4>2. Placed(leaf', array')
          BY <2>2, <3>2, <4>1, PutsPlaced DEF CallInv
        <4> QED
          BY <3>2, <4>1, <4>2 DEF PlaceInv, Puts
      <3> QED
        BY <2>1, <3>1, <3>2
    <2>4. TableInv'
      BY <1>1, <2>1, <2>2, <2>3, TablesSame DEF CallInv, TableInv
    <2>5. NewWord' = NewWord
      BY <2>1 DEF NewWord
    <2>6. KeyInv'
      BY <1>1, <2>1, <2>5 DEF CallInv, KeyInv, BucketOf
    <2> QED
      BY <2>1, <2>3, <2>4, <2>6 DEF CallInv, ReplyInv
  <1> QED
    BY <1>2, <1>3

\* Where the strings part.
LEMMA PartIs ==
    ASSUME IInv, CallInv, pc \in {"old", "new"}
    PROVE  /\ IsPath(PPsplit) /\ Linked(array, PPsplit) /\ PPsplit \in DOMAIN array
           /\ PPsplit[3] \in Seq(Bytes) /\ PPsplit \notin DOMAIN leaf
           /\ LenAt(PPsplit) > WORDSIZE /\ LenAt(PPsplit) \in Int /\ PPsplit \in Path
           /\ NewWord \in Seq(Bytes) /\ Len(NewWord) = WORDSIZE /\ WordFits(PPsplit, NewWord)
           /\ pos \in Seq(Bytes) /\ Len(pos) = LenAt(PPsplit) - WORDSIZE
           /\ key \in Strings /\ Bucket(key) = BucketOf(PPsplit)
           /\ key = (PPsplit[3] \o NewWord) \o pos /\ key = PPsplit[3] \o (NewWord \o pos)
           /\ BucketOf(PPsplit) \in Roots
  <1>1. /\ IsPath(PPsplit) /\ Linked(array, PPsplit) /\ PPsplit \in DOMAIN array
        /\ LenAt(PPsplit) > WORDSIZE
        /\ NewWord \in Seq(Bytes) /\ Len(NewWord) = WORDSIZE
        /\ pos \in Seq(Bytes) /\ Len(pos) = LenAt(PPsplit) - WORDSIZE
    BY DEF IInv, StepInv, PartedAt
  <1>2. /\ PPsplit[3] \in Seq(Bytes) /\ PPsplit \notin DOMAIN leaf /\ PPsplit \in Path
        /\ BucketOf(PPsplit) \in Roots
    BY <1>1 DEF IInv, NodeInv, IsPath, CallInv, PlaceInv, Placed, TableInv
  <1>3. LenAt(PPsplit) \in Int
    BY <1>1, <1>2, LenProperties DEF IsPath, LenAt
  <1>4. WordFits(PPsplit, NewWord)
    BY <1>1, <1>3, WordSizeNat DEF WordFits
  <1>5. /\ key \in Strings /\ Bucket(key) = BucketOf(PPsplit)
        /\ key = (PPsplit[3] \o NewWord) \o pos
    BY DEF CallInv, KeyInv
  <1>6. PPsplit[3] \o (NewWord \o pos) = (PPsplit[3] \o NewWord) \o pos
    BY <1>1, <1>2, WordMoved
  <1> QED
    BY <1>1, <1>2, <1>3, <1>4, <1>5, <1>6

LEMMA InsNewCall ==
    ASSUME IInv, CallInv, InsNew
    PROVE  CallInv'
  <1>1. pc = "new" /\ UNCHANGED <<lengths, buckets, leaf>>
    BY DEF InsNew
  <1>2. CASE Fails /\ array' = array
    BY <1>1, <1>2, FailsCall
  <1>3. CASE ~(Fails /\ array' = array)
    <2>1. /\ pc' = "tree" /\ UNCHANGED <<key, pos, PPsplit, reply>>
          /\ array' = InsertWord(PPsplit, NewWord) /\ at' = Below(PPsplit, NewWord)
      BY <1>3 DEF InsNew, NewWord
    <2>2. /\ PPsplit \in Path /\ WordFits(PPsplit, NewWord) /\ BucketOf(PPsplit) \in Roots
          /\ key \in Strings /\ Bucket(key) = BucketOf(PPsplit)
          /\ key = (PPsplit[3] \o NewWord) \o pos
      BY <1>1, PartIs
    <2>3. Puts(array', PPsplit, NewWord, 0)
      BY <2>1, InsertWordPuts
    <2>4. PlaceInv'
      BY <1>1, <2>2, <2>3, HSAssumption, PutsPlaced DEF CallInv, PlaceInv
    <2>5. BucketOf(at') = BucketOf(PPsplit) /\ at'[3] = PPsplit[3] \o NewWord
      BY <2>1, BelowBucket
    <2>6. TableInv'
      BY <1>1, <2>1, <2>2, <2>3, <2>5, TablesSame DEF CallInv, TableInv, Puts
    <2>7. KeyInv'
      BY <2>1, <2>2, <2>5 DEF KeyInv, BucketOf
    <2> QED
      BY <2>1, <2>4, <2>6, <2>7 DEF CallInv, ReplyInv
  <1> QED
    BY <1>2, <1>3

\* The next word of the key, and what is left below it.
LEMMA NextIs ==
    ASSUME IInv, CallInv, pc = "tree"
    PROVE  /\ Long(pos) =>
                /\ WordFits(at, Word(pos)) /\ Word(pos) \in Seq(Bytes)
                /\ Rest(pos) \in Seq(Bytes) /\ pos = Word(pos) \o Rest(pos)
                /\ key = (at[3] \o Word(pos)) \o Rest(pos)
           /\ ~Long(pos) => WordFits(at, pos)
  <1>1. /\ at[3] \in Seq(Bytes) /\ pos \in Seq(Bytes) /\ Len(pos) = LenAt(at)
        /\ key = at[3] \o pos /\ Belongs(at[3] \o pos, at) /\ LenAt(at) \in Nat
        /\ Long(pos) <=> LenAt(at) > WORDSIZE
        /\ ~Long(pos) <=> LenAt(at) <= WORDSIZE
    BY WalkIs
  <1>2. ASSUME Long(pos)
        PROVE  /\ WordFits(at, Word(pos)) /\ Word(pos) \in Seq(Bytes)
               /\ Rest(pos) \in Seq(Bytes) /\ pos = Word(pos) \o Rest(pos)
               /\ key = (at[3] \o Word(pos)) \o Rest(pos)
    <2>1. /\ Word(pos) \in Seq(Bytes) /\ Len(Word(pos)) = WORDSIZE
          /\ Rest(pos) \in Seq(Bytes) /\ pos = Word(pos) \o Rest(pos)
      BY <1>1, <1>2, WordAndRest
    <2>2. at[3] \o (Word(pos) \o Rest(pos)) = (at[3] \o Word(pos)) \o Rest(pos)
      BY <1>1, <2>1, WordMoved
    <2>3. WordFits(at, Word(pos))
      BY <1>1, <1>2, <2>1, WordSizeNat DEF WordFits
    <2> QED
      BY <1>1, <2>1, <2>2, <2>3
  <1>3. ~Long(pos) => WordFits(at, pos)
    BY <1>1 DEF WordFits
  <1> QED
    BY <1>2, <1>3

LEMMA InsDownCall ==
    ASSUME IInv, CallInv, InsDown
    PROVE  CallInv'
  <1> DEFINE w == Word(pos)
  <1>1. pc = "tree" /\ Long(pos) /\ UNCHANGED <<lengths, buckets, leaf>>
    BY DEF InsDown
  <1>2. CASE Fails /\ array' = array
    BY <1>1, <1>2, FailsCall
  <1>3. CASE ~(Fails /\ array' = array)
    <2>1. /\ pc' = "tree" /\ UNCHANGED <<key, PPsplit, reply>>
          /\ array' = InsertWord(at, w) /\ at' = Below(at, w) /\ pos' = Rest(pos)
      BY <1>1, <1>3 DEF InsDown
    <2>2. /\ at \in Path /\ WordFits(at, w) /\ BucketOf(at) \in Roots
          /\ key \in Strings /\ Bucket(key) = BucketOf(at)
          /\ key = (at[3] \o w) \o Rest(pos)
      BY <1>1, WalkIs, NextIs DEF CallInv, KeyInv
    <2>3. Puts(array', at, w, 0)
      BY <2>1, InsertWordPuts
    <2>4. PlaceInv'
      BY <1>1, <2>2, <2>3, HSAssumption, PutsPlaced DEF CallInv, PlaceInv
    <2>5. BucketOf(at') = BucketOf(at) /\ at'[3] = at[3] \o w
      BY <2>1, BelowBucket
    <2>6. TableInv'
      BY <1>1, <2>1, <2>2, <2>3, <2>5, TablesSame DEF CallInv, TableInv, Puts
    <2>7. KeyInv'
      BY <2>1, <2>2, <2>5 DEF KeyInv, BucketOf
    <2> QED
      BY <2>1, <2>4, <2>6, <2>7 DEF CallInv, ReplyInv
  <1> QED
    BY <1>2, <1>3

LEMMA InsLastCall ==
    ASSUME IInv, CallInv, InsLast
    PROVE  CallInv'
  <1>1. pc = "tree" /\ ~Long(pos) /\ UNCHANGED <<lengths, buckets, leaf>>
    BY DEF InsLast
  <1>2. CASE Fails /\ array' = array
    BY <1>1, <1>2, FailsCall
  <1>3. CASE ~(Fails /\ array' = array)
    <2>1. /\ array' = InsertWord(at, pos)
          /\ Returns(IF pos \in WordsAt(at) THEN "old" ELSE "new", at[3] \o pos)
      BY <1>1, <1>3 DEF InsLast
    <2>2. at \in Path /\ WordFits(at, pos) /\ BucketOf(at) \in Roots /\ key = at[3] \o pos
      BY <1>1, WalkIs, NextIs
    <2>3. KeyInv' /\ ReplyInv' /\ pc' = "idle"
      BY <2>1, <2>2, ReturnsCall
    <2>4. Puts(array', at, pos, 0)
      BY <2>1, InsertWordPuts
    <2>5. PlaceInv'
      BY <1>1, <2>2, <2>4, HSAssumption, PutsPlaced DEF CallInv, PlaceInv
    <2>6. TableInv'
      BY <1>1, <2>2, <2>3, <2>4, TablesSame DEF CallInv, TableInv, Puts
    <2> QED
      BY <2>3, <2>5, <2>6 DEF CallInv
  <1> QED
    BY <1>2, <1>3

LEMMA StoreCall ==
    ASSUME IInv, CallInv, NEW v \in Value, Store(v)
    PROVE  CallInv'
  <1>1. /\ pc = "idle" /\ UNCHANGED <<lengths, buckets, pc, reply>>
        /\ DOMAIN leaf' = DOMAIN leaf /\ DOMAIN array' = DOMAIN array
        /\ \A p \in DOMAIN array : DOMAIN array'[p] = DOMAIN array[p]
        /\ \A p \in DOMAIN array : \A w \in DOMAIN array[p] : array'[p][w] \in {v, array[p][w]}
    BY DEF Store, frame
  <1>2. \A p \in DOMAIN leaf : leaf'[p].rest = leaf[p].rest
    BY DEF Store, IInv, NodeInv, LeafSet
  <1>3. PlaceInv'
    BY <1>1, <1>2 DEF CallInv, PlaceInv, Placed
  <1>4. TableInv'
    BY <1>1, TablesSame DEF CallInv, TableInv
  <1>5. KeyInv' /\ ReplyInv'
    BY <1>1 DEF CallInv, KeyInv, ReplyInv
  <1> QED
    BY <1>3, <1>4, <1>5 DEF CallInv

\* FreeArray comes to every node there is.
LEMMA FreedAll ==
    ASSUME IInv, CallInv, JudyHSFreeArray
    PROVE  /\ DelTree({b \in buckets : b[1] \in lengths} \cup ShortRoots)
                = DOMAIN leaf \cup DOMAIN array
           /\ DOMAIN leaf' = {} /\ DOMAIN array' = {}
           /\ lengths' = {} /\ buckets' = {}
  <1>1. {b \in buckets : b[1] \in lengths} \cup ShortRoots = Roots
    BY DEF CallInv, TableInv, Roots
  <1>2. DelTree(Roots) = DOMAIN leaf \cup DOMAIN array
    BY DEF DelTree, IInv, NodeInv, CallInv, TableInv
  <1>3. /\ leaf' = Restrict(leaf, DOMAIN leaf \ DelTree(Roots))
        /\ array' = Restrict(array, DOMAIN array \ DelTree(Roots))
        /\ buckets' = {b \in buckets : b[1] \notin lengths} /\ lengths' = {}
    BY <1>1 DEF JudyHSFreeArray, FreeAll
  <1>4. DOMAIN leaf' = {} /\ DOMAIN array' = {}
    BY <1>2, <1>3 DEF Restrict
  <1>5. buckets' = {}
    BY <1>3 DEF CallInv, TableInv
  <1> QED
    BY <1>1, <1>2, <1>3, <1>4, <1>5

LEMMA FreeCall ==
    ASSUME IInv, CallInv, JudyHSFreeArray
    PROVE  CallInv'
  <1>1. DOMAIN leaf' = {} /\ DOMAIN array' = {} /\ lengths' = {} /\ buckets' = {}
    BY FreedAll
  <1>2. KeyInv' /\ ReplyInv' /\ pc' = "idle"
    BY AnsweredCall DEF JudyHSFreeArray, FreeAll
  <1>3. PlaceInv' /\ TableInv'
    BY <1>1, <1>2 DEF PlaceInv, Placed, TableInv
  <1> QED
    BY <1>2, <1>3 DEF CallInv

LEMMA CallStep ==
    ASSUME IInv, CallInv, Next
    PROVE  CallInv'
  <1>1. ASSUME NEW k \in Strings, Ins(k) PROVE CallInv'
    <2>1. /\ pc' = "length" /\ key' = k
          /\ UNCHANGED <<lengths, buckets, leaf, array, at, reply>>
      BY <1>1 DEF Ins, nodes
    <2>2. TableInv'
      BY <2>1, TablesSame DEF CallInv, TableInv
    <2> QED
      BY <2>1, <2>2 DEF CallInv, PlaceInv, KeyInv, ReplyInv
  <1>2. ASSUME NEW k \in Strings, JudyHSDel(k) PROVE CallInv'
    <2>1. UNCHANGED <<lengths, buckets, leaf, array>>
      BY <1>2 DEF JudyHSDel, nodes
    <2>2. ASSUME NEW c, Answer([op |-> "Del", key |-> k, code |-> c])
          PROVE  KeyInv' /\ ReplyInv' /\ pc' = "idle"
      BY <2>2, AnsweredCall
    <2>3. ASSUME pc' = "exited", reply' = reply
          PROVE  KeyInv' /\ ReplyInv'
      BY <2>3 DEF CallInv, KeyInv, ReplyInv
    <2>4. KeyInv' /\ ReplyInv' /\ pc' \in {"idle", "exited"}
      BY <1>2, <2>2, <2>3 DEF JudyHSDel
    <2>5. TableInv'
      BY <2>1, <2>4, TablesSame DEF CallInv, TableInv
    <2> QED
      BY <2>1, <2>4, <2>5 DEF CallInv, PlaceInv
  <1> QED
    BY <1>1, <1>2, TablesCall, LeafCall, TakeLeafCall, SplitWordCall, PlaceOldCall, InsNewCall,
       InsDownCall, InsLastCall, StoreCall, FreeCall DEF Next, Insertion

LEMMA CallAlways == Spec => [](IInv /\ CallInv /\ PlsInv)
  <1>1. Init => CallInv /\ PlsInv
    BY HSAssumption
    DEF Init, CallInv, PlaceInv, Placed, TableInv, KeyInv, ReplyInv, PlsInv
  <1>2. IInv /\ CallInv /\ PlsInv /\ [Next]_vars => CallInv' /\ PlsInv'
    <2> SUFFICES ASSUME IInv, CallInv, PlsInv, [Next]_vars
                 PROVE  CallInv' /\ PlsInv'
      OBVIOUS
    <2>1. CASE UNCHANGED vars
      <3>1. UNCHANGED <<lengths, buckets, leaf, array, pc, key, at, pos, PPsplit, Pls, reply, nfail>>
        BY <2>1 DEF vars, nodes, frame
      <3>2. NewWord' = NewWord /\ Roots' = Roots
        BY <3>1 DEF NewWord, Roots, ShortRoots
      <3> QED
        BY <3>1, <3>2 DEF CallInv, PlaceInv, TableInv, KeyInv, ReplyInv, PlsInv, BucketOf, Belongs
    <2>2. CASE Next
      BY <2>2, CallStep, PlsStep
    <2> QED
      BY <2>1, <2>2
  <1> QED
    BY <1>1, <1>2, Invariance, PTL DEF Spec

-----------------------------------------------------------------------------
(* What the leaves take, and that of a leaf being split, is accounted for. *)

Carried == IF Pls # NoLeaf THEN FreeLen ELSE 0

\* What failures forget is never less.
HeapInv ==
    /\ IsFiniteSet(DOMAIN leaf) /\ FreeLen \in Nat /\ lsWords \in Int
    /\ lsWords >= LeafWords(leaf) + Carried
    /\ nfail = 0 => lsWords = LeafWords(leaf) + Carried

LEMMA HeapChange ==
    ASSUME HeapInv, AreLeaves(leaf), AreLeaves(leaf'), FreeLen' \in Nat, nfail' = nfail,
           NEW d \in Int, lsWords' = lsWords + d,
           LeafWords(leaf') + Carried' = LeafWords(leaf) + Carried + d
    PROVE  HeapInv'
  <1>1. /\ LeafWords(leaf) \in Nat /\ LeafWords(leaf') \in Nat
        /\ Carried \in Nat /\ Carried' \in Nat
    BY SumFinite DEF Carried, HeapInv
  <1>2. LeafWords(leaf)' = LeafWords(leaf')
    BY DEF LeafWords
  <1> QED
    BY <1>1, <1>2 DEF HeapInv, AreLeaves

\* No leaf changes, and none is under way.
LEMMA HeapSame ==
    ASSUME HeapInv, AreLeaves(leaf), UNCHANGED <<leaf, lsWords, nfail>>,
           FreeLen' \in Nat, Carried' = Carried
    PROVE  HeapInv'
  <1>1. LeafWords(leaf) \in Nat /\ Carried \in Nat /\ lsWords \in Int
    BY SumFinite DEF Carried, HeapInv
  <1>2. lsWords' = lsWords + 0 /\ LeafWords(leaf') + Carried' = LeafWords(leaf) + Carried + 0
    BY <1>1
  <1> QED
    BY <1>2, HeapChange

LEMMA HeapFails ==
    ASSUME HeapInv, PlsInv, AreLeaves(leaf), Fails, UNCHANGED <<leaf, lsWords>>
    PROVE  HeapInv'
  <1>1. nfail' = nfail + 1 /\ FreeLen' = 0 /\ Pls' = NoLeaf /\ nfail \in Nat
    BY HSAssumption DEF Fails, Answer, PlsInv
  <1>2. LeafWords(leaf) \in Nat /\ Carried \in Nat /\ Carried' = 0 /\ nfail' # 0
    BY <1>1, SumFinite DEF Carried, HeapInv
  <1>3. LeafWords(leaf)' = LeafWords(leaf)
    BY DEF LeafWords
  <1> QED
    BY <1>1, <1>2, <1>3 DEF HeapInv

LEMMA HeapStep ==
    ASSUME IInv, CallInv, PlsInv, HeapInv, Next
    PROVE  HeapInv'
  <1>1. AreLeaves(leaf) /\ LeafWords(leaf) \in Nat /\ FreeLen \in Nat /\ PlsInv'
    BY SumFinite, PlsStep DEF HeapInv, AreLeaves, IInv, NodeInv
  <1>2. ASSUME NEW r, Answer(r), Pls = NoLeaf
        PROVE  FreeLen' \in Nat /\ Carried' = 0 /\ Carried = 0
    BY <1>2 DEF Answer, Carried
  <1>3. ASSUME Pls = NoLeaf, NEW r, Answer(r), UNCHANGED <<leaf, lsWords, nfail>>
        PROVE  HeapInv'
    BY <1>1, <1>2, <1>3, HeapSame
  <1>4. ASSUME UNCHANGED <<leaf, lsWords, nfail, Pls, FreeLen>>
        PROVE  HeapInv'
    BY <1>1, <1>4, HeapSame DEF Carried
  <1>5. ASSUME InsLength \/ InsHash \/ InsNew \/ InsDown PROVE HeapInv'
    BY <1>1, <1>4, <1>5, HeapFails DEF InsLength, InsHash, InsNew, InsDown
  <1>6. ASSUME FoundLeaf \/ InsLast PROVE HeapInv'
    <2>1. pc = "tree" /\ Pls = NoLeaf /\ leaf' = leaf /\ lsWords' = lsWords
      BY <1>6 DEF FoundLeaf, InsLast, nodes, PlsInv
    <2>2. CASE Fails
      BY <1>1, <2>1, <2>2, HeapFails
    <2>3. CASE \E c, s : Returns(c, s)
      BY <1>3, <2>1, <2>3 DEF Returns
    <2> QED
      BY <1>6, <2>2, <2>3 DEF FoundLeaf, InsLast
  <1>7. ASSUME MakeLeaf PROVE HeapInv'
    <2>1. Pls = NoLeaf /\ at \notin DOMAIN leaf /\ pos \in Seq(Bytes)
      BY <1>7 DEF MakeLeaf, PlsInv, IsNull, IInv, StepInv, Walking
    <2>2. CASE Fails /\ leaf' = leaf /\ lsWords' = lsWords
      BY <1>1, <2>2, HeapFails
    <2>3. CASE /\ leaf' = With(leaf, at, [rest |-> pos, value |-> 0])
               /\ lsWords' = lsWords + LS_WORDLEN(Len(pos))
               /\ Returns("new", key)
      <3> DEFINE r == [rest |-> pos, value |-> 0]
      <3>1. r \in LeafSet /\ r.rest = pos
        BY <2>1, HSAssumption DEF LeafSet
      <3>2. leaf' = With(leaf, at, r)
        BY <2>3
      <3> HIDE DEF r
      <3>3. AreLeaves(leaf') /\ LeafWords(leaf') = LeafWords(leaf) + LS_WORDLEN(Len(pos))
        BY <1>1, <2>1, <3>1, <3>2, LeafWordsMore
      <3>4. FreeLen' \in Nat /\ Carried' = 0 /\ Carried = 0 /\ nfail' = nfail
        BY <1>2, <2>1, <2>3 DEF Returns
      <3>5. PICK d \in Nat : d = LS_WORDLEN(Len(pos))
        BY <2>1, SizeInt
      <3>6. LeafWords(leaf') + Carried' = LeafWords(leaf) + Carried + d
        BY <1>1, <3>3, <3>4, <3>5
      <3> QED
        BY <1>1, <2>3, <3>3, <3>4, <3>5, <3>6, HeapChange
    <2> QED
      BY <1>7, <2>2, <2>3 DEF MakeLeaf
  <1>8. ASSUME TakeLeaf PROVE HeapInv'
    <2>1. /\ at \in DOMAIN leaf /\ pc = "tree" /\ pc' = "split"
          /\ leaf' = Without(leaf, at) /\ FreeLen' = LS_WORDLEN(Len(pos))
          /\ lsWords' = lsWords /\ nfail' = nfail
      BY <1>8 DEF TakeLeaf, Take
    <2>2. Pls = NoLeaf /\ Pls' # NoLeaf
      BY <1>1, <2>1 DEF PlsInv
    <2>3. Len(pos) = Len(leaf[at].rest) /\ pos \in Seq(Bytes)
      BY <2>1 DEF IInv, NodeInv, StepInv, Walking
    <2>4. /\ AreLeaves(leaf') /\ LeafWords(leaf') \in Int
          /\ LeafWords(leaf) = LeafWords(leaf') + LS_WORDLEN(Len(leaf[at].rest))
      BY <1>1, <2>1, LeafWordsLess
    <2>5. FreeLen' \in Nat /\ Carried' = FreeLen' /\ Carried = 0
      BY <2>1, <2>2, <2>3, SizeInt DEF Carried
    <2>6. lsWords' = lsWords + 0
      BY <2>1 DEF HeapInv
    <2>7. LeafWords(leaf') + Carried' = LeafWords(leaf) + Carried + 0
      BY <1>1, <2>1, <2>3, <2>4, <2>5
    <2> QED
      BY <1>1, <2>1, <2>4, <2>5, <2>6, <2>7, HeapChange
  <1>9. ASSUME SplitWord PROVE HeapInv'
    <2>1. CASE Fails
      BY <1>1, <1>9, <2>1, HeapFails DEF SplitWord, SplitOn
    <2>2. CASE pc' \in {"split", "old"}
      <3>1. /\ UNCHANGED <<leaf, lsWords, nfail, FreeLen>> /\ Pls # NoLeaf /\ Pls' # NoLeaf
        BY <1>1, <1>9, <2>2 DEF SplitWord, SplitOn, PlsInv, Fails, Answer
      <3> QED
        BY <1>1, <3>1, HeapSame DEF Carried
    <2> QED
      BY <1>9, <2>1, <2>2 DEF SplitWord, SplitOn
  <1>10. ASSUME PlaceOld PROVE HeapInv'
    <2>1. CASE Fails /\ leaf' = leaf /\ lsWords' = lsWords
      BY <1>1, <2>1, HeapFails
    <2>2. CASE ~(Fails /\ leaf' = leaf /\ lsWords' = lsWords)
      <3>1. /\ pc = "old" /\ Pls' = NoLeaf /\ UNCHANGED <<FreeLen, nfail>>
            /\ \/ leaf' = With(leaf, at, Pls)
                  /\ lsWords' = lsWords + LS_WORDLEN(Len(Pls.rest)) - FreeLen
               \/ leaf' = leaf /\ lsWords' = lsWords - FreeLen
        BY <1>10, <2>2 DEF PlaceOld, Place
      <3>2. Pls # NoLeaf /\ Carried = FreeLen /\ Carried' = 0
        BY <3>1 DEF PlsInv, Carried
      <3>3. CASE leaf' = leaf /\ lsWords' = lsWords - FreeLen
        <4>1. PICK d \in Int : d = 0 - FreeLen
          BY <1>1
        <4>2. lsWords' = lsWords + d /\ LeafWords(leaf') + Carried' = LeafWords(leaf) + Carried + d
          BY <1>1, <3>2, <3>3, <4>1 DEF HeapInv
        <4> QED
          BY <1>1, <3>1, <3>3, <4>2, HeapChange
      <3>4. CASE /\ leaf' = With(leaf, at, Pls)
                 /\ lsWords' = lsWords + LS_WORDLEN(Len(Pls.rest)) - FreeLen
        <4>1. at \notin DOMAIN leaf /\ Pls \in LeafSet /\ Pls.rest \in Seq(Bytes)
          BY <3>1, OldIs
        <4>2. AreLeaves(leaf') /\ LeafWords(leaf') = LeafWords(leaf) + LS_WORDLEN(Len(Pls.rest))
          BY <1>1, <3>4, <4>1, LeafWordsMore
        <4>3. PICK n \in Nat : n = LS_WORDLEN(Len(Pls.rest))
          BY <4>1, SizeInt
        <4>4. PICK d \in Int : d = n - FreeLen
          BY <1>1
        <4>5. lsWords' = lsWords + d /\ LeafWords(leaf') + Carried' = LeafWords(leaf) + Carried + d
          BY <1>1, <3>2, <3>4, <4>2, <4>3, <4>4 DEF HeapInv
        <4> QED
          BY <1>1, <3>1, <4>2, <4>5, HeapChange
      <3> QED
        BY <3>1, <3>3, <3>4
    <2> QED
      BY <2>1, <2>2
  <1>11. ASSUME NEW k \in Strings, Ins(k) \/ JudyHSDel(k) PROVE HeapInv'
    <2>1. pc = "idle" /\ Pls = NoLeaf /\ UNCHANGED <<leaf, lsWords, nfail>>
      BY <1>11 DEF Ins, JudyHSDel, nodes, PlsInv
    <2> QED
      BY <1>3, <1>4, <1>11, <2>1 DEF Ins, JudyHSDel
  <1>12. ASSUME NEW v \in Value, Store(v) PROVE HeapInv'
    <2>1. /\ DOMAIN leaf' = DOMAIN leaf /\ UNCHANGED <<lsWords, Pls, FreeLen, nfail>>
          /\ \A p \in DOMAIN leaf :
              leaf'[p] = IF p[3] \o leaf[p].rest = reply.at THEN [leaf[p] EXCEPT !.value = v]
                         ELSE leaf[p]
      BY <1>12 DEF Store, frame
    <2>2. \A p \in DOMAIN leaf : leaf'[p] \in LeafSet /\ leaf'[p].rest = leaf[p].rest
      BY <1>1, <2>1 DEF AreLeaves, LeafSet
    <2>3. AreLeaves(leaf') /\ LeafWords(leaf') = LeafWords(leaf)
      BY <1>1, <2>1, <2>2, LeafWordsSame DEF AreLeaves
    <2>4. Carried \in Nat /\ Carried' = Carried /\ lsWords' = lsWords + 0
      BY <1>1, <2>1 DEF Carried, HeapInv
    <2>5. LeafWords(leaf') + Carried' = LeafWords(leaf) + Carried + 0
      BY <1>1, <2>3, <2>4
    <2> QED
      BY <1>1, <2>1, <2>3, <2>4, <2>5, HeapChange
  <1>13. ASSUME JudyHSFreeArray PROVE HeapInv'
    <2> DEFINE roots == {b \in buckets : b[1] \in lengths} \cup ShortRoots
               sizes == [p \in DOMAIN leaf \cap DelTree(roots) |-> LS_WORDLEN(LenAt(p))]
    <2>1. /\ lsWords' = lsWords - SumFunction(sizes) /\ nfail' = nfail
          /\ Answer([op |-> "Free", code |-> "ok"]) /\ pc = "idle"
      BY <1>13 DEF JudyHSFreeArray, FreeAll
    <2>2. DelTree(roots) = DOMAIN leaf \cup DOMAIN array /\ DOMAIN leaf' = {}
      BY <1>13, FreedAll
    <2>3. DOMAIN leaf \cap DelTree(roots) = DOMAIN leaf
      BY <2>2
    <2>4. sizes = [p \in DOMAIN leaf |-> LS_WORDLEN(Len(leaf[p].rest))]
      BY <2>3 DEF IInv, NodeInv
    <2>5. lsWords' = lsWords - LeafWords(leaf)
      BY <2>1, <2>4 DEF LeafWords
    <2>6. AreLeaves(leaf') /\ LeafWords(leaf') = 0
      BY <2>2, NoLeafWords
    <2>7. FreeLen' \in Nat /\ Carried' = 0 /\ Carried = 0
      BY <1>2, <2>1 DEF PlsInv
    <2>8. PICK d \in Int : d = 0 - LeafWords(leaf)
      BY <1>1
    <2>9. lsWords' = lsWords + d /\ LeafWords(leaf') + Carried' = LeafWords(leaf) + Carried + d
      BY <1>1, <2>5, <2>6, <2>7, <2>8 DEF HeapInv
    <2> QED
      BY <1>1, <2>1, <2>6, <2>7, <2>9, HeapChange
  <1> QED
    BY <1>5, <1>6, <1>7, <1>8, <1>9, <1>10, <1>11, <1>12, <1>13 DEF Next, Insertion

LEMMA HeapAlways == Spec => [](IInv /\ CallInv /\ PlsInv /\ HeapInv)
  <1>1. Init => HeapInv
    <2> SUFFICES ASSUME Init
                 PROVE  HeapInv
      OBVIOUS
    <2>1. DOMAIN leaf = {} /\ Pls = NoLeaf /\ lsWords = 0 /\ FreeLen = 0
      BY DEF Init
    <2>2. LeafWords(leaf) = 0 /\ IsFiniteSet(DOMAIN leaf)
      BY <2>1, NoLeafWords, FS_EmptySet
    <2> QED
      BY <2>1, <2>2 DEF HeapInv, Carried
  <1>2. IInv /\ CallInv /\ PlsInv /\ HeapInv /\ [Next]_vars => HeapInv'
    <2> SUFFICES ASSUME IInv, CallInv, PlsInv, HeapInv, [Next]_vars
                 PROVE  HeapInv'
      OBVIOUS
    <2>1. CASE UNCHANGED vars
      BY <2>1 DEF vars, nodes, frame, HeapInv, Carried, LeafWords
    <2> QED
      BY <2>1, HeapStep
  <1> QED
    BY <1>1, <1>2, CallAlways, PTL DEF Spec

(***************************************************************************)
(* As long as no call ran out of memory, every word malloc'ed for a leaf   *)
(* is in a tree or in the leaf being split, and that is freed with the     *)
(* size it was malloc'ed with, however many words of it were taken.        *)
(***************************************************************************)
THEOREM LeavesTold == Spec => []HeapExact
  <1>1. HeapInv => HeapExact
    BY DEF HeapInv, HeapExact, Carried, LeafWords
  <1> QED
    BY <1>1, HeapAlways, PTL

(***************************************************************************)
(* Every node is below the entries of the tables that lead to it, on the   *)
(* way of a string of that length and hash, and FreeArray finds it.        *)
(***************************************************************************)
THEOREM TreesWhole == Spec => []WellFormed
  <1>1. IInv /\ CallInv /\ PlsInv /\ HeapInv => WellFormed
    <2> SUFFICES ASSUME IInv, CallInv, PlsInv, HeapInv
                 PROVE  WellFormed
      OBVIOUS
    <2>1. lengths \subseteq {Len(s) : s \in Strings} /\ buckets \subseteq {Bucket(s) : s \in Strings}
      BY DEF CallInv, TableInv
    <2>2. DOMAIN leaf \subseteq Path /\ DOMAIN array \subseteq Path
      BY DEF CallInv, PlaceInv, Placed
    <2>3. \A p \in DOMAIN leaf : Len(leaf[p].rest) = LenAt(p) /\ leaf[p].value \in Value
      BY DEF IInv, NodeInv, LeafSet
    <2>4. \A p \in DOMAIN array : \A w \in DOMAIN array[p] : array[p][w] \in Value
      BY DEF CallInv, PlaceInv, Placed
    <2>5. pc \in {"length", "hash", "tree", "split", "old", "new", "idle", "exited"}
      BY DEF IInv, StepInv
    <2>6. pc \in {"tree", "split", "old"} => at \in Path /\ Len(pos) = LenAt(at)
      BY WalkIs, OldIs DEF IInv, StepInv, Walking
    <2>7. pc = "new" => PPsplit \in Path
      BY PartIs
    <2>8. Pls # NoLeaf => Pls.value \in Value
      BY DEF PlsInv, IInv, StepInv, Splitting, LeafSet
    <2>9. FreeLen \in Nat /\ nfail \in 0..MaxFail
      BY DEF HeapInv, PlsInv
    <2>10. lsWords \in Nat
      <3>1. LeafWords(leaf) \in Nat /\ Carried \in Nat
        BY SumFinite DEF HeapInv, Carried, AreLeaves, IInv, NodeInv
      <3> QED
        BY <3>1 DEF HeapInv
    <2>11. TypeOK
      BY <2>1, <2>2, <2>3, <2>4, <2>5, <2>6, <2>7, <2>8, <2>9, <2>10 DEF TypeOK
    <2>12. DOMAIN leaf \cup DOMAIN array \subseteq DelTree(buckets \cup ShortRoots)
      BY DEF DelTree, IInv, NodeInv, CallInv, TableInv, Roots
    <2>13. \A b \in buckets : b[1] \in lengths
      BY DEF CallInv, TableInv
    <2>14. DOMAIN leaf \cap DOMAIN array = {} /\ \A p \in DOMAIN leaf : LenAt(p) > WORDSIZE
      BY DEF IInv, NodeInv
    <2> QED
      BY <2>11, <2>12, <2>13, <2>14 DEF WellFormed
  <1> QED
    BY <1>1, HeapAlways, PTL

-----------------------------------------------------------------------------
(* Where strings are: in one place, that of the walk down them *)

Sound(l, a) ==
    /\ \A p \in DOMAIN l \cup DOMAIN a : IsPath(p) /\ Linked(a, p)
    /\ DOMAIN l \cap DOMAIN a = {}
    /\ \A p \in DOMAIN l : l[p] \in LeafSet /\ LenAt(p) > WORDSIZE
    /\ Placed(l, a)

\* String s is at path p, in a leaf or by its last word.
Holds(l, a, s, p) ==
    \/ p \in DOMAIN l /\ s = p[3] \o l[p].rest
    \/ p \in DOMAIN a /\ LenAt(p) <= WORDSIZE /\ \E w \in DOMAIN a[p] : s = p[3] \o w

LEMMA TreeSound ==
    ASSUME IInv, CallInv
    PROVE  Sound(leaf, array)
  BY DEF IInv, NodeInv, CallInv, PlaceInv, Sound

\* A string belongs where it is, and has what is left of it there.
LEMMA HeldBelow ==
    ASSUME NEW l, NEW a, Sound(l, a), NEW s, NEW q, Holds(l, a, s, q)
    PROVE  /\ IsPath(q) /\ Linked(a, q) /\ q[3] \in Seq(Bytes) /\ Belongs(s, q)
           /\ q \in DOMAIN a => LenAt(q) <= WORDSIZE
           /\ \E t \in Seq(Bytes) :
                 /\ s = q[3] \o t
                 /\ q \in DOMAIN l => t = l[q].rest
                 /\ q \in DOMAIN a => t \in DOMAIN a[q]
  <1>1. q \in DOMAIN l \cup DOMAIN a
    BY DEF Holds
  <1>2. IsPath(q) /\ Linked(a, q) /\ q[3] \in Seq(Bytes)
    BY <1>1 DEF Sound, IsPath
  <1>3. CASE q \in DOMAIN l /\ s = q[3] \o l[q].rest
    <2>1. q \notin DOMAIN a /\ l[q].rest \in Seq(Bytes) /\ Belongs(s, q)
      BY <1>3 DEF Sound, LeafSet, Placed
    <2> QED
      BY <1>2, <1>3, <2>1
  <1>4. ASSUME q \in DOMAIN a, LenAt(q) <= WORDSIZE, NEW w \in DOMAIN a[q], s = q[3] \o w
        PROVE  /\ q \in DOMAIN a => LenAt(q) <= WORDSIZE
               /\ Belongs(s, q)
               /\ \E t \in Seq(Bytes) :
                     /\ s = q[3] \o t
                     /\ q \in DOMAIN l => t = l[q].rest
                     /\ q \in DOMAIN a => t \in DOMAIN a[q]
    <2>1. WordFits(q, w) /\ q \notin DOMAIN l
      BY <1>4 DEF Sound, Placed
    <2>2. w \in Seq(Bytes) /\ Belongs(s, q)
      BY <1>4, <2>1 DEF WordFits
    <2> QED
      BY <1>4, <2>1, <2>2
  <1> QED
    BY <1>2, <1>3, <1>4 DEF Holds

\* The parts of a string that is cut in two.
LEMMA CutInTwo ==
    ASSUME NEW s, NEW x \in Seq(Bytes), NEW r \in Seq(Bytes), s = x \o r
    PROVE  /\ Len(x) \in Nat /\ Len(r) \in Nat
           /\ Len(s) = Len(x) + Len(r) /\ SubSeq(s, 1, Len(x)) = x
           /\ \A n \in 0..Len(r) : SubSeq(s, Len(x) + 1, Len(x) + n) = SubSeq(r, 1, n)
           /\ \A m \in Nat : \A n \in 0..Len(x) : SubSeq(s, m + 1, n) = SubSeq(x, m + 1, n)
  <1>1. Len(x) \in Nat /\ Len(r) \in Nat
    BY LenProperties
  <1>2. \A n \in 0..Len(r) : SubSeq(x \o r, Len(x) + 1, Len(x) + n) = SubSeq(r, 1, n)
    BY PartsOfTwo
  <1>3. \A m \in Nat : \A n \in 0..Len(x) : SubSeq(x \o r, m + 1, n) = SubSeq(x, m + 1, n)
    BY PartsOfTwo
  <1>4. Len(x \o r) = Len(x) + Len(r) /\ SubSeq(x \o r, 1, Len(x)) = x
    BY PartsOfTwo
  <1> QED
    BY <1>1, <1>2, <1>3, <1>4

\* What a path that the walk comes to has below it, it has through its array.
LEMMA OneWay ==
    ASSUME NEW l, NEW a, Sound(l, a), NEW p, IsPath(p), Linked(a, p), NEW r \in Seq(Bytes),
           Bucket(p[3] \o r) = BucketOf(p), NEW q, Holds(l, a, p[3] \o r, q), q # p
    PROVE  p \in DOMAIN a /\ Word(r) \in DOMAIN a[p] /\ LenAt(p) > WORDSIZE
  <1> USE WordSizeNat
  <1> DEFINE s == p[3] \o r
             x == p[3]
             y == q[3]
  <1>0. Bucket(s) = BucketOf(p)
    OBVIOUS
  <1>1. /\ p = <<p[1], p[2], x>> /\ x \in Seq(Bytes) /\ Len(x) \in Nat /\ Len(x) % WORDSIZE = 0
        /\ Len(r) \in Nat
    BY LenProperties DEF IsPath
  <1>2. /\ q = <<q[1], q[2], y>> /\ y \in Seq(Bytes) /\ Len(y) \in Nat /\ Len(y) % WORDSIZE = 0
        /\ Linked(a, q) /\ Bucket(s) = BucketOf(q) /\ (q \in DOMAIN a => LenAt(q) <= WORDSIZE)
    BY HeldBelow, LenProperties DEF IsPath, Belongs
  <1> HIDE DEF s
  <1>3. PICK t \in Seq(Bytes) : s = y \o t
    <2>1. Holds(l, a, s, q)
      BY DEF s
    <2>2. \E t \in Seq(Bytes) :
              /\ s = q[3] \o t
              /\ q \in DOMAIN l => t = l[q].rest
              /\ q \in DOMAIN a => t \in DOMAIN a[q]
      BY <2>1, HeldBelow
    <2> QED
      BY <2>2
  <1>4. q[1] = p[1] /\ q[2] = p[2] /\ p[1] = Len(s)
    BY <1>0, <1>2 DEF BucketOf, Bucket
  <1> HIDE DEF s, x, y
  <1>5. /\ Len(s) = Len(x) + Len(r) /\ SubSeq(s, 1, Len(x)) = x
        /\ \A n \in 0..Len(r) : SubSeq(s, Len(x) + 1, Len(x) + n) = SubSeq(r, 1, n)
        /\ \A m \in Nat : \A n \in 0..Len(x) : SubSeq(s, m + 1, n) = SubSeq(x, m + 1, n)
    <2>1. s = x \o r /\ x \in Seq(Bytes)
      BY <1>1 DEF s, x
    <2> QED
      BY <2>1, CutInTwo
  <1>6. /\ SubSeq(s, 1, Len(y)) = y
        /\ \A m \in Nat : \A n \in 0..Len(y) : SubSeq(s, m + 1, n) = SubSeq(y, m + 1, n)
    <2>1. y \in Seq(Bytes)
      BY <1>2
    <2> QED
      BY <1>3, <2>1, CutInTwo
  <1>7. Len(x) # Len(y)
    BY <1>1, <1>2, <1>4, <1>5, <1>6
  <1>8. ASSUME Len(y) < Len(x)
        PROVE  FALSE
    <2>1. Len(y) + WORDSIZE <= Len(x)
      BY <1>1, <1>2, <1>8, Borders
    <2>2. Len(y) \in 0..(Len(x) - WORDSIZE) /\ SubSeq(x, 1, Len(y)) = y
      <3>1. 0 \in Nat /\ Len(y) \in 0..Len(x)
        BY <1>1, <1>2, <1>8
      <3>2. SubSeq(s, 0 + 1, Len(y)) = SubSeq(x, 0 + 1, Len(y))
        BY <1>5, <3>1
      <3> QED
        BY <1>1, <1>2, <1>6, <2>1, <3>2
    <2>3. q \in DOMAIN a /\ LenAt(q) > WORDSIZE
      <3>1. q = <<p[1], p[2], SubSeq(p[3], 1, Len(y))>>
        BY <1>2, <1>4, <2>2 DEF x
      <3> QED
        BY <1>2, <2>2, <3>1 DEF Linked, x
    <2>4. LenAt(q) = Len(s) - Len(y)
      BY <1>4 DEF LenAt, y
    <2> QED
      BY <1>1, <1>2, <1>5, <2>3, <2>4
  <1>9. CASE Len(x) < Len(y)
    <2>1. Len(x) + WORDSIZE <= Len(y)
      BY <1>1, <1>2, <1>9, Borders
    <2>2. Len(x) \in 0..(Len(y) - WORDSIZE) /\ SubSeq(y, 1, Len(x)) = x
      <3>1. 0 \in Nat /\ Len(x) \in 0..Len(y)
        BY <1>1, <1>2, <1>9
      <3>2. SubSeq(s, 0 + 1, Len(x)) = SubSeq(y, 0 + 1, Len(x))
        BY <1>6, <3>1
      <3> QED
        BY <1>1, <1>2, <1>5, <2>1, <3>2
    <2>3. p = <<q[1], q[2], SubSeq(q[3], 1, Len(x))>>
      BY <1>1, <1>4, <2>2 DEF y
    <2>4. /\ p \in DOMAIN a /\ SubSeq(y, Len(x) + 1, Len(x) + WORDSIZE) \in DOMAIN a[p]
          /\ LenAt(p) > WORDSIZE
      BY <1>1, <1>2, <2>2, <2>3 DEF Linked, y
    <2>5. LenAt(p) = Len(r)
      BY <1>1, <1>4, <1>5 DEF LenAt, x
    <2>6. Word(r) = SubSeq(r, 1, WORDSIZE)
      BY <2>4, <2>5 DEF Word, Long
    <2>7. SubSeq(y, Len(x) + 1, Len(x) + WORDSIZE) = SubSeq(r, 1, WORDSIZE)
      <3>1. Len(x) \in Nat /\ Len(x) + WORDSIZE \in 0..Len(y) /\ WORDSIZE \in 0..Len(r)
        BY <1>1, <1>2, <2>1, <2>4, <2>5
      <3> QED
        BY <1>5, <1>6, <3>1
    <2> QED
      BY <2>4, <2>6, <2>7
  <1> QED
    BY <1>1, <1>2, <1>7, <1>8, <1>9

\* A string is in one place.
LEMMA OnePlace ==
    ASSUME NEW l, NEW a, Sound(l, a), NEW s, NEW p, NEW q,
           Holds(l, a, s, p), Holds(l, a, s, q)
    PROVE  p = q
  <1> SUFFICES ASSUME q # p
               PROVE  FALSE
    OBVIOUS
  <1>1. /\ IsPath(p) /\ Linked(a, p) /\ Bucket(s) = BucketOf(p)
        /\ p \in DOMAIN a => LenAt(p) <= WORDSIZE
    BY HeldBelow DEF Belongs
  <1>2. PICK t \in Seq(Bytes) : s = p[3] \o t
    BY HeldBelow
  <1>3. p \in DOMAIN a /\ LenAt(p) > WORDSIZE
    BY <1>1, <1>2, OneWay
  <1>4. LenAt(p) \in Int
    BY <1>1, LenProperties DEF IsPath, LenAt
  <1> QED
    BY <1>1, <1>3, <1>4, WordSizeNat

\* Where the next word of a string is missing, the string is.
LEMMA NotThere ==
    ASSUME NEW l, NEW a, Sound(l, a), NEW p, IsPath(p), Linked(a, p), p \notin DOMAIN l,
           NEW r \in Seq(Bytes), Bucket(p[3] \o r) = BucketOf(p),
           p \in DOMAIN a => Word(r) \notin DOMAIN a[p], NEW q
    PROVE  ~Holds(l, a, p[3] \o r, q)
  <1> SUFFICES ASSUME Holds(l, a, p[3] \o r, q)
               PROVE  FALSE
    OBVIOUS
  <1>1. q = p
    BY OneWay
  <1>2. PICK w \in DOMAIN a[p] : p \in DOMAIN a /\ LenAt(p) <= WORDSIZE /\ p[3] \o r = p[3] \o w
    BY <1>1 DEF Holds
  <1>3. w \in Seq(Bytes) /\ Len(w) = LenAt(p) /\ p[3] \in Seq(Bytes) /\ Len(w) \in Nat
    <2>1. WordFits(p, w)
      BY <1>2 DEF Sound, Placed
    <2>2. w \in Seq(Bytes) /\ Len(w) \in Nat
      BY <2>1, LenProperties DEF WordFits
    <2>3. LenAt(p) \in Int /\ p[3] \in Seq(Bytes)
      BY LenProperties DEF IsPath, LenAt
    <2> QED
      BY <1>2, <2>1, <2>2, <2>3, WordSizeNat DEF WordFits
  <1>4. r = w
    BY <1>2, <1>3, SameBelow
  <1>5. Word(w) = w
    <2>1. ~Long(w)
      BY <1>2, <1>3, WordSizeNat DEF Long
    <2>2. \A i \in 1..Len(w) : w[i] \in Bytes
      BY <1>3, ElementOfSeq
    <2> QED
      BY <1>3, <2>1, SubSeqFull DEF Word
  <1> QED
    BY <1>2, <1>4, <1>5

-----------------------------------------------------------------------------
(* What the trees hold *)

\* The cell of string s has the value v.
Cell(l, a, s, v) ==
    \/ \E p \in DOMAIN l : s = p[3] \o l[p].rest /\ v = l[p].value
    \/ \E p \in DOMAIN a : \E w \in DOMAIN a[p] :
          LenAt(p) <= WORDSIZE /\ s = p[3] \o w /\ v = a[p][w]

LEMMA CellHolds ==
    ASSUME NEW l, NEW a, NEW s
    PROVE  (\E v : Cell(l, a, s, v)) <=> (\E p : Holds(l, a, s, p))
  BY DEF Cell, Holds

LEMMA CellOne ==
    ASSUME NEW l, NEW a, Sound(l, a), NEW s, NEW v, NEW u, Cell(l, a, s, v), Cell(l, a, s, u)
    PROVE  u = v
  <1>1. ASSUME NEW p \in DOMAIN l, s = p[3] \o l[p].rest,
               NEW q \in DOMAIN l, s = q[3] \o l[q].rest
        PROVE  p = q
    BY <1>1, OnePlace DEF Holds
  <1>2. ASSUME NEW p \in DOMAIN l, s = p[3] \o l[p].rest,
               NEW q \in DOMAIN a, NEW w \in DOMAIN a[q], LenAt(q) <= WORDSIZE, s = q[3] \o w
        PROVE  FALSE
    <2>1. p = q
      BY <1>2, OnePlace DEF Holds
    <2> QED
      BY <1>2, <2>1 DEF Sound
  <1>3. ASSUME NEW p \in DOMAIN a, NEW x \in DOMAIN a[p], LenAt(p) <= WORDSIZE, s = p[3] \o x,
               NEW q \in DOMAIN a, NEW w \in DOMAIN a[q], LenAt(q) <= WORDSIZE, s = q[3] \o w
        PROVE  p = q /\ x = w
    <2>1. p = q
      BY <1>3, OnePlace DEF Holds
    <2>2. p[3] \in Seq(Bytes) /\ WordFits(p, x) /\ WordFits(p, w)
      BY <1>3, <2>1 DEF Sound, Placed, IsPath
    <2>3. x \in Seq(Bytes) /\ w \in Seq(Bytes) /\ p[3] \o x = p[3] \o w
      BY <1>3, <2>1, <2>2 DEF WordFits
    <2> QED
      BY <2>1, <2>2, <2>3, SameBelow
  <1>4. CASE \E p \in DOMAIN l : s = p[3] \o l[p].rest /\ v = l[p].value
    <2>1. PICK p \in DOMAIN l : s = p[3] \o l[p].rest /\ v = l[p].value
      BY <1>4
    <2>2. \E q \in DOMAIN l : s = q[3] \o l[q].rest /\ u = l[q].value
      BY <1>2, <2>1 DEF Cell
    <2> QED
      BY <1>1, <2>1, <2>2
  <1>5. CASE \E p \in DOMAIN a : \E w \in DOMAIN a[p] :
                LenAt(p) <= WORDSIZE /\ s = p[3] \o w /\ v = a[p][w]
    <2>1. PICK p, x : /\ p \in DOMAIN a /\ x \in DOMAIN a[p]
                      /\ LenAt(p) <= WORDSIZE /\ s = p[3] \o x /\ v = a[p][x]
      BY <1>5
    <2>2. \E q \in DOMAIN a : \E w \in DOMAIN a[q] :
             LenAt(q) <= WORDSIZE /\ s = q[3] \o w /\ u = a[q][w]
      BY <1>2, <2>1 DEF Cell
    <2>3. PICK q, w : /\ q \in DOMAIN a /\ w \in DOMAIN a[q]
                      /\ LenAt(q) <= WORDSIZE /\ s = q[3] \o w /\ u = a[q][w]
      BY <2>2
    <2>4. p = q /\ x = w
      BY <1>3, <2>1, <2>3
    <2> QED
      BY <2>1, <2>3, <2>4
  <1> QED
    BY <1>4, <1>5 DEF Cell

LEMMA ContentIs ==
    ASSUME Sound(leaf, array)
    PROVE  /\ Content = [s \in DOMAIN Content |-> Content[s]]
           /\ \A s : s \in DOMAIN Content <=> \E v : Cell(leaf, array, s, v)
           /\ \A s, v : Cell(leaf, array, s, v) => Content[s] = v
  <1> DEFINE L == {p[3] \o leaf[p].rest : p \in DOMAIN leaf}
             A == {c[1][3] \o c[2] : c \in Cells}
  <1>1. /\ DOMAIN Leaves = L
        /\ \A s \in L : Leaves[s] = leaf[CHOOSE p \in DOMAIN leaf : p[3] \o leaf[p].rest = s].value
    BY DEF Leaves
  <1>2. \A s \in L : Cell(leaf, array, s, Leaves[s])
    <2> SUFFICES ASSUME NEW s \in L
                 PROVE  Cell(leaf, array, s, Leaves[s])
      OBVIOUS
    <2>1. \E p \in DOMAIN leaf : p[3] \o leaf[p].rest = s
      OBVIOUS
    <2> DEFINE q == CHOOSE p \in DOMAIN leaf : p[3] \o leaf[p].rest = s
    <2>2. q \in DOMAIN leaf /\ q[3] \o leaf[q].rest = s
      BY <2>1
    <2>3. Leaves[s] = leaf[q].value
      BY <1>1
    <2> HIDE DEF q
    <2> QED
      BY <2>2, <2>3 DEF Cell
  <1>3. \A c : c \in Cells <=>
            \E p \in DOMAIN array : \E w \in DOMAIN array[p] : LenAt(p) <= WORDSIZE /\ c = <<p, w>>
    BY DEF Cells, WordsAt
  <1> DEFINE Of(s) == CHOOSE c \in Cells : c[1][3] \o c[2] = s
  <1>4. \A s \in A : Cell(leaf, array, s, array[Of(s)[1]][Of(s)[2]])
    <2> SUFFICES ASSUME NEW s \in A
                 PROVE  Cell(leaf, array, s, array[Of(s)[1]][Of(s)[2]])
      OBVIOUS
    <2>1. \E c \in Cells : c[1][3] \o c[2] = s
      OBVIOUS
    <2>2. Of(s) \in Cells /\ Of(s)[1][3] \o Of(s)[2] = s
      BY <2>1
    <2> HIDE DEF Of
    <2>3. PICK p, w : /\ p \in DOMAIN array /\ w \in DOMAIN array[p]
                      /\ LenAt(p) <= WORDSIZE /\ Of(s) = <<p, w>>
      BY <1>3, <2>2
    <2>4. Of(s)[1] = p /\ Of(s)[2] = w
      BY <2>3
    <2> QED
      BY <2>2, <2>3, <2>4 DEF Cell
  <1>5. Content = [s \in L \cup A |->
                     IF s \in L THEN Leaves[s] ELSE array[Of(s)[1]][Of(s)[2]]]
    BY <1>1 DEF Content
  <1> HIDE DEF Of
  <1>6. \A s : s \in L \cup A <=> \E v : Cell(leaf, array, s, v)
    <2>1. \A s : s \in A <=> \E p \in DOMAIN array : \E w \in DOMAIN array[p] :
                                LenAt(p) <= WORDSIZE /\ s = p[3] \o w
      <3>1. ASSUME NEW s \in A
            PROVE  \E p \in DOMAIN array : \E w \in DOMAIN array[p] : LenAt(p) <= WORDSIZE /\ s = p[3] \o w
        <4>1. PICK c \in Cells : s = c[1][3] \o c[2]
          OBVIOUS
        <4>2. PICK p, w : /\ p \in DOMAIN array /\ w \in DOMAIN array[p]
                          /\ LenAt(p) <= WORDSIZE /\ c = <<p, w>>
          BY <1>3, <4>1
        <4>3. s = p[3] \o w
          BY <4>1, <4>2
        <4> QED
          BY <4>2, <4>3
      <3>2. ASSUME NEW p \in DOMAIN array, NEW w \in DOMAIN array[p], LenAt(p) <= WORDSIZE
            PROVE  p[3] \o w \in A
        <4>1. <<p, w>> \in Cells
          BY <1>3, <3>2
        <4>2. p[3] \o w = <<p, w>>[1][3] \o <<p, w>>[2]
          OBVIOUS
        <4> QED
          BY <4>1, <4>2
      <3> HIDE DEF A
      <3> QED
        BY <3>1, <3>2
    <2>2. \A s : s \in L <=> \E p \in DOMAIN leaf : s = p[3] \o leaf[p].rest
      OBVIOUS
    <2> HIDE DEF A, L
    <2> QED
      BY <2>1, <2>2 DEF Cell
  <1> HIDE DEF A, L
  <1>7. DOMAIN Content = L \cup A /\ \A s \in L \cup A : Cell(leaf, array, s, Content[s])
    BY <1>2, <1>4, <1>5
  <1>8. Content = [s \in DOMAIN Content |-> Content[s]]
    BY <1>5
  <1>9. ASSUME NEW s, NEW v, Cell(leaf, array, s, v)
        PROVE  Content[s] = v
    <2>1. s \in L \cup A
      BY <1>6, <1>9
    <2>2. Cell(leaf, array, s, Content[s])
      BY <1>7, <2>1
    <2> QED
      BY <1>9, <2>2, CellOne
  <1> QED
    BY <1>6, <1>7, <1>8, <1>9

-----------------------------------------------------------------------------
(* The map of the trees and of the string that is being split *)

\* String s is kept with the value v.
Bound(s, v) ==
    \/ Cell(leaf, array, s, v)
    \/ Pls # NoLeaf /\ s = at[3] \o Pls.rest /\ v = Pls.value

\* Held is the map of what is bound.
HeldIs ==
    /\ Held = [s \in DOMAIN Held |-> Held[s]]
    /\ \A s : s \in DOMAIN Held <=> \E v : Bound(s, v)
    /\ \A s, v : Bound(s, v) => Held[s] = v

\* The string being split is nowhere in the trees.
LEMMA SplitNotThere ==
    ASSUME IInv, CallInv, PlsInv, Pls # NoLeaf, NEW v
    PROVE  ~Cell(leaf, array, at[3] \o Pls.rest, v)
  <1>1. pc \in {"split", "old"}
    BY DEF PlsInv
  <1>2. /\ Sound(leaf, array) /\ IsPath(at) /\ Linked(array, at)
        /\ Pls.rest \in Seq(Bytes) /\ at \notin DOMAIN leaf /\ at \notin DOMAIN array
        /\ Bucket(at[3] \o Pls.rest) = BucketOf(at)
    BY <1>1, TreeSound DEF IInv, StepInv, Walking, Splitting, LeafSet, IsNull,
        CallInv, KeyInv, Belongs
  <1>3. \A q : ~Holds(leaf, array, at[3] \o Pls.rest, q)
    BY <1>2, NotThere
  <1> QED
    BY <1>3, CellHolds

LEMMA HeldIsBound ==
    ASSUME IInv, CallInv, PlsInv
    PROVE  HeldIs
  <1>1. /\ Content = [s \in DOMAIN Content |-> Content[s]]
        /\ \A s : s \in DOMAIN Content <=> \E v : Cell(leaf, array, s, v)
        /\ \A s, v : Cell(leaf, array, s, v) => Content[s] = v
    BY TreeSound, ContentIs
  <1>2. CASE Pls = NoLeaf
    BY <1>1, <1>2 DEF HeldIs, Held, Bound
  <1>3. CASE Pls # NoLeaf
    <2> DEFINE k == at[3] \o Pls.rest
               D == DOMAIN Content
    <2>1. Held = [s \in D \cup {k} |-> IF s = k THEN Pls.value ELSE Content[s]]
      BY <1>3 DEF Held, With
    <2>2. \A v : ~Cell(leaf, array, k, v)
      BY <1>3, SplitNotThere
    <2>3. \A s, v : Bound(s, v) <=> Cell(leaf, array, s, v) \/ (s = k /\ v = Pls.value)
      BY <1>3 DEF Bound
    <2> HIDE DEF k
    <2>4. \A s : s \in D <=> \E v : Cell(leaf, array, s, v)
      BY <1>1
    <2> HIDE DEF D
    <2>5. DOMAIN Held = D \cup {k} /\ Held = [s \in DOMAIN Held |-> Held[s]]
      BY <2>1
    <2>6. \A s : s \in DOMAIN Held <=> \E v : Bound(s, v)
      BY <2>3, <2>4, <2>5
    <2>7. \A s, v : Bound(s, v) => Held[s] = v
      BY <1>1, <2>1, <2>2, <2>3, <2>4
    <2> QED
      BY <2>5, <2>6, <2>7 DEF HeldIs
  <1> QED
    BY <1>2, <1>3

-----------------------------------------------------------------------------
(* Get *)

\* The nodes on the way of a string, and what is left of it there.
LEMMA WayIs ==
    ASSUME NEW s \in Seq(Bytes), NEW p \in Way(s)
    PROVE  /\ IsPath(p) /\ BucketOf(p) = Bucket(s) /\ p[3] \in Seq(Bytes)
           /\ Beyond(p, s) \in Seq(Bytes) /\ s = p[3] \o Beyond(p, s)
           /\ LenAt(p) = Len(Beyond(p, s))
  <1> USE WordSizeNat
  <1>1. PICK i \in 0..(Len(s) \div WORDSIZE) :
            p = <<Bucket(s)[1], Bucket(s)[2], SubSeq(s, 1, i * WORDSIZE)>>
    BY DEF Way
  <1> DEFINE m == i * WORDSIZE
  <1>2. Len(s) \in Nat /\ \A j \in 1..Len(s) : s[j] \in Bytes
    BY LenProperties, ElementOfSeq
  <1>3. i \in Nat
    BY <1>2
  <1>4. m \in 0..Len(s) /\ m \in Nat /\ m % WORDSIZE = 0
    BY <1>2, <1>3, WordsWithin, WholeWords
  <1>5. p[3] = SubSeq(s, 1, m) /\ p[1] = Bucket(s)[1] /\ p[2] = Bucket(s)[2] /\ p = <<p[1], p[2], p[3]>>
    BY <1>1
  <1> HIDE DEF m
  <1>6. p[3] \in Seq(Bytes) /\ Len(p[3]) = m
    <2>1. SubSeq(s, 1, m) \in Seq(Bytes) /\ Len(SubSeq(s, 1, m)) = m
      BY <1>2, <1>4, SubSeqProperties
    <2> QED
      BY <1>5, <2>1
  <1>7. /\ Beyond(p, s) = SubSeq(s, m + 1, Len(s)) /\ Beyond(p, s) \in Seq(Bytes)
        /\ Len(Beyond(p, s)) = Len(s) - m
    <2>1. SubSeq(s, m + 1, Len(s)) \in Seq(Bytes) /\ Len(SubSeq(s, m + 1, Len(s))) = Len(s) - m
      BY <1>2, <1>4, SubSeqProperties
    <2> QED
      BY <1>6, <2>1 DEF Beyond
  <1>8. Bucket(s)[1] = Len(s) /\ BucketOf(p) = Bucket(s)
    BY <1>5 DEF Bucket, BucketOf
  <1>9. IsPath(p)
    BY <1>2, <1>4, <1>5, <1>6, <1>8 DEF IsPath
  <1>10. s = p[3] \o Beyond(p, s)
    <2>1. CASE m = 0
      <3>1. p[3] = <<>> /\ Beyond(p, s) = s
        BY <1>4, <1>5, <1>7, <2>1, SubSeqEmpty, SubSeqFull
      <3> QED
        BY <3>1, ConcatEmptySeq
    <2>2. CASE m # 0
      <3>1. 1 \in 1..(Len(s) + 1) /\ m \in (1 - 1)..Len(s) /\ Len(s) \in m..Len(s)
        BY <1>2, <1>4, <2>2
      <3>2. SubSeq(s, 1, m) \o SubSeq(s, m + 1, Len(s)) = SubSeq(s, 1, Len(s))
        BY <3>1, ConcatAdjacentSubSeq
      <3> QED
        BY <1>5, <1>7, <3>2, SubSeqFull
    <2> QED
      BY <2>1, <2>2
  <1>11. LenAt(p) = Len(Beyond(p, s))
    BY <1>5, <1>6, <1>7, <1>8 DEF LenAt
  <1> QED
    BY <1>6, <1>7, <1>8, <1>9, <1>10, <1>11

\* The walk down a string comes to where it is, and finds it there.
LEMMA VisitedHolds ==
    ASSUME Sound(leaf, array), NEW s \in Seq(Bytes), NEW p
    PROVE  p \in Visited(s) /\ GetAt(p, Beyond(p, s)) # {} <=> Holds(leaf, array, s, p)
  <1> DEFINE t == Beyond(p, s)
  <1>1. ASSUME p \in Visited(s), GetAt(p, t) # {}
        PROVE  Holds(leaf, array, s, p)
    <2>1. t \in Seq(Bytes) /\ s = p[3] \o t /\ LenAt(p) = Len(t) /\ Len(t) \in Nat
      BY <1>1, WayIs, LenProperties DEF Visited
    <2> HIDE DEF t
    <2>2. CASE p \in DOMAIN leaf /\ leaf[p].rest = t
      BY <2>1, <2>2 DEF Holds
    <2>3. CASE ~Long(t) /\ t \in WordsAt(p)
      <3>1. LenAt(p) <= WORDSIZE
        BY <2>1, <2>3, WordSizeNat DEF Long
      <3> QED
        BY <2>1, <2>3, <3>1 DEF Holds, WordsAt
    <2> QED
      BY <1>1, <2>2, <2>3 DEF GetAt, SameAs
  <1>2. ASSUME Holds(leaf, array, s, p)
        PROVE  p \in Visited(s) /\ GetAt(p, t) # {}
    <2>1. IsPath(p) /\ Linked(array, p) /\ Bucket(s) = BucketOf(p)
      BY <1>2, HeldBelow DEF Belongs
    <2>2. PICK r \in Seq(Bytes) :
              /\ s = p[3] \o r
              /\ p \in DOMAIN leaf => r = leaf[p].rest
              /\ p \in DOMAIN array => r \in DOMAIN array[p]
      BY <1>2, HeldBelow
    <2>3. p \in Way(s) /\ t = r
      BY <2>1, <2>2, PathOnWay
    <2>4. LenAt(p) = Len(r) /\ Len(r) \in Nat
      BY <2>2, <2>3, WayIs, LenProperties
    <2> HIDE DEF t
    <2>5. ASSUME NEW q \in Way(s), q \in DOMAIN leaf, q # p
          PROVE  FALSE
      <3>1. /\ IsPath(q) /\ BucketOf(q) = Bucket(s)
            /\ Beyond(q, s) \in Seq(Bytes) /\ s = q[3] \o Beyond(q, s)
        BY WayIs
      <3>2. Linked(array, q) /\ q \notin DOMAIN array
        BY <2>5 DEF Sound
      <3>3. Holds(leaf, array, q[3] \o Beyond(q, s), p) /\ Bucket(q[3] \o Beyond(q, s)) = BucketOf(q)
        BY <1>2, <3>1
      <3> QED
        BY <2>5, <3>1, <3>2, <3>3, OneWay
    <2>6. Len(p[3]) >= Len(p[3])
      BY <2>1, LenProperties DEF IsPath
    <2>7. p \in Visited(s)
      BY <2>1, <2>3, <2>5, <2>6 DEF Visited
    <2>8. CASE p \in DOMAIN leaf
      <3>1. LenAt(p) > WORDSIZE /\ leaf[p].rest = t
        BY <2>2, <2>3, <2>8 DEF Sound
      <3> QED
        BY <2>3, <2>4, <2>7, <2>8, <3>1 DEF GetAt, SameAs, Long
    <2>9. CASE p \in DOMAIN array
      <3>1. LenAt(p) <= WORDSIZE /\ t \in WordsAt(p)
        BY <1>2, <2>2, <2>3, <2>9, HeldBelow DEF WordsAt
      <3>2. ~Long(t)
        BY <2>3, <2>4, <3>1, WordSizeNat DEF Long
      <3> QED
        BY <2>7, <3>1, <3>2 DEF GetAt
    <2> QED
      BY <1>2, <2>8, <2>9 DEF Holds
  <1> QED
    BY <1>1, <1>2

\* The tables lead to the bucket of every string there is.
LEMMA TablesLead ==
    ASSUME Sound(leaf, array), TableInv, NEW s \in Seq(Bytes), NEW p, Holds(leaf, array, s, p)
    PROVE  Len(s) \in lengths /\ (Long(s) => Bucket(s) \in buckets)
  <1>1. Bucket(s) \in Roots
    <2>1. Bucket(s) = BucketOf(p)
      BY HeldBelow DEF Belongs
    <2>2. p \in DOMAIN leaf \cup DOMAIN array
      BY DEF Holds
    <2> QED
      BY <2>1, <2>2 DEF TableInv
  <1>2. Bucket(s)[1] = Len(s) /\ Len(s) \in Nat
    BY BucketIs
  <1>3. CASE Bucket(s) \in buckets
    BY <1>2, <1>3 DEF TableInv
  <1>4. CASE Bucket(s) \in ShortRoots
    <2>1. PICK n \in lengths : n <= WORDSIZE /\ Bucket(s) = <<n, 0, <<>>>>
      BY <1>4 DEF ShortRoots
    <2>2. n = Len(s)
      BY <1>2, <2>1
    <2> QED
      BY <1>2, <2>1, <2>2, WordSizeNat DEF Long
  <1> QED
    BY <1>1, <1>3, <1>4 DEF Roots

LEMMA GetIs ==
    ASSUME Sound(leaf, array), TableInv, NEW s \in Seq(Bytes)
    PROVE  JudyHSGet(s) = {s} \cap DOMAIN Content
  <1> DEFINE C(p) == GetAt(p, Beyond(p, s))
             InTables == Len(s) \in lengths /\ (Long(s) => Bucket(s) \in buckets)
  <1>1. \A p : p \in Visited(s) /\ C(p) # {} <=> Holds(leaf, array, s, p)
    BY VisitedHolds
  <1>2. ASSUME NEW p \in Visited(s)
        PROVE  C(p) \subseteq {s}
    <2>1. s = p[3] \o Beyond(p, s)
      BY WayIs DEF Visited
    <2> QED
      BY <2>1 DEF GetAt
  <1>3. JudyHSGet(s) = IF InTables THEN UNION {C(p) : p \in Visited(s)} ELSE {}
    BY DEF JudyHSGet
  <1>4. s \in DOMAIN Content <=> \E p : Holds(leaf, array, s, p)
    BY ContentIs, CellHolds
  <1>5. (\E p : Holds(leaf, array, s, p)) => InTables
    BY TablesLead
  <1> HIDE DEF C, InTables
  <1> QED
    BY <1>1, <1>2, <1>3, <1>4, <1>5

-----------------------------------------------------------------------------
(* Cells that are added and taken, and what is kept from one state to the next *)

LEMMA PutsCells ==
    ASSUME NEW l, NEW b, NEW q, NEW w, NEW v, Puts(b, q, w, v), NEW s, NEW u
    PROVE  Cell(l, b, s, u) <=>
              \/ Cell(l, array, s, u)
              \/ LenAt(q) <= WORDSIZE /\ w \notin WordsAt(q) /\ s = q[3] \o w /\ u = v
  <1>1. ASSUME NEW p \in DOMAIN array, NEW x \in DOMAIN array[p]
        PROVE  p \in DOMAIN b /\ x \in DOMAIN b[p] /\ b[p][x] = array[p][x]
    BY <1>1 DEF Puts, WordsAt
  <1>2. w \notin WordsAt(q) => q \in DOMAIN b /\ w \in DOMAIN b[q] /\ b[q][w] = v
    BY DEF Puts
  <1>3. ASSUME NEW p \in DOMAIN b, NEW x \in DOMAIN b[p]
        PROVE  \/ p \in DOMAIN array /\ x \in DOMAIN array[p] /\ b[p][x] = array[p][x]
               \/ p = q /\ x = w /\ w \notin WordsAt(q) /\ b[p][x] = v
    BY <1>3 DEF Puts, WordsAt
  <1>4. ASSUME Cell(l, array, s, u)
        PROVE  Cell(l, b, s, u)
    BY <1>1, <1>4 DEF Cell
  <1>5. ASSUME LenAt(q) <= WORDSIZE, w \notin WordsAt(q), s = q[3] \o w, u = v
        PROVE  Cell(l, b, s, u)
    BY <1>2, <1>5 DEF Cell
  <1>6. ASSUME NEW p \in DOMAIN b, NEW x \in DOMAIN b[p],
               LenAt(p) <= WORDSIZE, s = p[3] \o x, u = b[p][x]
        PROVE  \/ Cell(l, array, s, u)
               \/ LenAt(q) <= WORDSIZE /\ w \notin WordsAt(q) /\ s = q[3] \o w /\ u = v
    BY <1>3, <1>6 DEF Cell
  <1>7. ASSUME Cell(l, b, s, u)
        PROVE  \/ Cell(l, array, s, u)
               \/ LenAt(q) <= WORDSIZE /\ w \notin WordsAt(q) /\ s = q[3] \o w /\ u = v
    <2>1. CASE \E p \in DOMAIN l : s = p[3] \o l[p].rest /\ u = l[p].value
      BY <2>1 DEF Cell
    <2>2. CASE \E p \in DOMAIN b : \E x \in DOMAIN b[p] :
                  LenAt(p) <= WORDSIZE /\ s = p[3] \o x /\ u = b[p][x]
      BY <1>6, <2>2
    <2> QED
      BY <1>7, <2>1, <2>2 DEF Cell
  <1> QED
    BY <1>4, <1>5, <1>7

LEMMA LeafCells ==
    ASSUME NEW l, NEW a, NEW x, x \notin DOMAIN l, NEW r, NEW s, NEW u
    PROVE  Cell(With(l, x, r), a, s, u) <=>
              Cell(l, a, s, u) \/ (s = x[3] \o r.rest /\ u = r.value)
  <1> DEFINE m == With(l, x, r)
  <1>1. DOMAIN m = DOMAIN l \cup {x} /\ m[x] = r /\ \A p \in DOMAIN l : m[p] = l[p]
    BY DEF With
  <1> HIDE DEF m
  <1>2. (\E p \in DOMAIN m : s = p[3] \o m[p].rest /\ u = m[p].value) <=>
            \/ \E p \in DOMAIN l : s = p[3] \o l[p].rest /\ u = l[p].value
            \/ s = x[3] \o r.rest /\ u = r.value
    BY <1>1
  <1>3. Cell(m, a, s, u) <=> Cell(l, a, s, u) \/ (s = x[3] \o r.rest /\ u = r.value)
    BY <1>2 DEF Cell
  <1> QED
    BY <1>3 DEF m

LEMMA TakenCells ==
    ASSUME NEW l, NEW a, NEW x \in DOMAIN l, NEW s, NEW u
    PROVE  Cell(l, a, s, u) <=>
              Cell(Without(l, x), a, s, u) \/ (s = x[3] \o l[x].rest /\ u = l[x].value)
  <1> DEFINE m == Without(l, x)
  <1>1. DOMAIN m = DOMAIN l \ {x} /\ \A p \in DOMAIN m : m[p] = l[p]
    BY DEF Without, Restrict
  <1> HIDE DEF m
  <1>2. (\E p \in DOMAIN l : s = p[3] \o l[p].rest /\ u = l[p].value) <=>
            \/ \E p \in DOMAIN m : s = p[3] \o m[p].rest /\ u = m[p].value
            \/ s = x[3] \o l[x].rest /\ u = l[x].value
    BY <1>1
  <1>3. Cell(l, a, s, u) <=> Cell(m, a, s, u) \/ (s = x[3] \o l[x].rest /\ u = l[x].value)
    BY <1>2 DEF Cell
  <1> QED
    BY <1>3 DEF m

-----------------------------------------------------------------------------
(* The key of the call and the words of the arrays *)

LEMMA HeldSame ==
    ASSUME HeldIs, HeldIs', \A s, v : Bound(s, v)' <=> Bound(s, v)
    PROVE  Held' = Held
  <1>1. /\ Held = [s \in DOMAIN Held |-> Held[s]]
        /\ \A s : s \in DOMAIN Held <=> \E v : Bound(s, v)
        /\ \A s, v : Bound(s, v) => Held[s] = v
    BY DEF HeldIs
  <1>2. /\ Held' = [s \in DOMAIN Held' |-> Held'[s]]
        /\ \A s : s \in DOMAIN Held' <=> \E v : Bound(s, v)'
        /\ \A s, v : Bound(s, v)' => Held'[s] = v
    BY DEF HeldIs
  <1>3. DOMAIN Held' = DOMAIN Held /\ \A s \in DOMAIN Held : Held'[s] = Held[s]
    BY <1>1, <1>2
  <1> QED
    BY <1>1, <1>2, <1>3

\* A string more, with the value 0.
LEMMA HeldMore ==
    ASSUME HeldIs, HeldIs', NEW k, k \notin DOMAIN Held,
           \A s, v : Bound(s, v)' <=> Bound(s, v) \/ (s = k /\ v = 0)
    PROVE  Held' = [j \in DOMAIN Held \cup {k} |-> IF j = k THEN 0 ELSE Held[j]]
  <1>1. /\ Held = [s \in DOMAIN Held |-> Held[s]]
        /\ \A s : s \in DOMAIN Held <=> \E v : Bound(s, v)
        /\ \A s, v : Bound(s, v) => Held[s] = v
    BY DEF HeldIs
  <1>2. /\ Held' = [s \in DOMAIN Held' |-> Held'[s]]
        /\ \A s : s \in DOMAIN Held' <=> \E v : Bound(s, v)'
        /\ \A s, v : Bound(s, v)' => Held'[s] = v
    BY DEF HeldIs
  <1>3. DOMAIN Held' = DOMAIN Held \cup {k}
    BY <1>1, <1>2
  <1>4. Held'[k] = 0 /\ \A s \in DOMAIN Held : Held'[s] = Held[s]
    BY <1>1, <1>2
  <1> QED
    BY <1>2, <1>3, <1>4

\* A string less.
LEMMA HeldLess ==
    ASSUME HeldIs, HeldIs', NEW k,
           \A s, v : Bound(s, v)' <=> Bound(s, v) /\ s # k
    PROVE  Held' = [j \in DOMAIN Held \ {k} |-> Held[j]]
  <1>1. /\ Held = [s \in DOMAIN Held |-> Held[s]]
        /\ \A s : s \in DOMAIN Held <=> \E v : Bound(s, v)
        /\ \A s, v : Bound(s, v) => Held[s] = v
    BY DEF HeldIs
  <1>2. /\ Held' = [s \in DOMAIN Held' |-> Held'[s]]
        /\ \A s : s \in DOMAIN Held' <=> \E v : Bound(s, v)'
        /\ \A s, v : Bound(s, v)' => Held'[s] = v
    BY DEF HeldIs
  <1>3. DOMAIN Held' = DOMAIN Held \ {k}
    BY <1>1, <1>2
  <1>4. \A s \in DOMAIN Held : s # k => Held'[s] = Held[s]
    BY <1>1, <1>2
  <1> QED
    BY <1>2, <1>3, <1>4

\* A string with another value.
LEMMA HeldPut ==
    ASSUME HeldIs, HeldIs', NEW k, NEW x,
           \A s, v : Bound(s, v)' <=>
              IF s = k THEN v = x /\ \E u : Bound(s, u) ELSE Bound(s, v)
    PROVE  Held' = [Held EXCEPT ![k] = x]
  <1>1. /\ Held = [s \in DOMAIN Held |-> Held[s]]
        /\ \A s : s \in DOMAIN Held <=> \E v : Bound(s, v)
        /\ \A s, v : Bound(s, v) => Held[s] = v
    BY DEF HeldIs
  <1>2. /\ Held' = [s \in DOMAIN Held' |-> Held'[s]]
        /\ \A s : s \in DOMAIN Held' <=> \E v : Bound(s, v)'
        /\ \A s, v : Bound(s, v)' => Held'[s] = v
    BY DEF HeldIs
  <1>3. DOMAIN Held' = DOMAIN Held
    BY <1>1, <1>2
  <1>4. \A s \in DOMAIN Held : Held'[s] = IF s = k THEN x ELSE Held[s]
    BY <1>1, <1>2
  <1> QED
    BY <1>1, <1>2, <1>3, <1>4

LEMMA BoundIs ==
    \A s, v : Bound(s, v) <=>
        Cell(leaf, array, s, v) \/ (Pls # NoLeaf /\ s = at[3] \o Pls.rest /\ v = Pls.value)
  BY DEF Bound

LEMMA BoundBecomes ==
    \A s, v : Bound(s, v)' <=>
        Cell(leaf', array', s, v) \/ (Pls' # NoLeaf /\ s = at'[3] \o Pls'.rest /\ v = Pls'.value)
  BY DEF Bound

\* The key is not kept where it is in no place, and is not the string being split.
LEMMA KeyNotHeld ==
    ASSUME CallInv, PlsInv, HeldIs, \A q : ~Holds(leaf, array, key, q)
    PROVE  key \notin DOMAIN Held
  <1>1. \A v : ~Cell(leaf, array, key, v)
    BY CellHolds
  <1>2. Pls # NoLeaf => at[3] \o Pls.rest # key
    BY DEF PlsInv, CallInv, KeyInv
  <1>3. \A v : ~Bound(key, v)
    BY <1>1, <1>2, BoundIs
  <1> QED
    BY <1>3 DEF HeldIs

-----------------------------------------------------------------------------
(* The steps of JudyHSIns, seen as a map *)

\* Seen as a map, a failure loses no string or the one that was being split.
LEMMA FailsMap ==
    ASSUME IInv, CallInv, PlsInv, HeldIs, HeldIs', Fails,
           key \in Strings, \A q : ~Holds(leaf, array, key, q), UNCHANGED <<leaf, array>>
    PROVE  \E k \in Strings : Map!NoMem(k)
  <1>1. /\ nfail < MaxFail /\ Pls' = NoLeaf
        /\ reply' = [op |-> "Ins", key |-> key, code |-> "nomem"]
    BY DEF Fails, Answer
  <1>2. MaxFail > 0
    BY <1>1, HSAssumption DEF PlsInv
  <1>3. key \in Strings /\ key \notin DOMAIN Held
    BY KeyNotHeld
  <1>4. \A s, v : Bound(s, v)' <=> Cell(leaf, array, s, v)
    BY <1>1, BoundBecomes
  <1>5. CASE Pls = NoLeaf
    <2>1. \A s, v : Bound(s, v)' <=> Bound(s, v)
      BY <1>4, <1>5, BoundIs
    <2>2. Held' = Held
      BY <2>1, HeldSame
    <2> QED
      BY <1>1, <1>2, <1>3, <2>2 DEF Map!NoMem
  <1>6. CASE Pls # NoLeaf
    <2> DEFINE j == at[3] \o Pls.rest
    <2>1. \A v : ~Cell(leaf, array, j, v)
      BY <1>6, SplitNotThere
    <2>2. \A s, v : Bound(s, v)' <=> Bound(s, v) /\ s # j
      BY <1>4, <1>6, <2>1, BoundIs
    <2>3. j \in DOMAIN Held
      <3>1. Bound(j, Pls.value)
        BY <1>6, BoundIs
      <3> QED
        BY <3>1 DEF HeldIs
    <2> HIDE DEF j
    <2>4. Held' = [i \in DOMAIN Held \ {j} |-> Held[i]]
      BY <2>2, HeldLess
    <2> QED
      BY <1>1, <1>2, <1>3, <2>3, <2>4 DEF Map!NoMem
  <1> QED
    BY <1>5, <1>6

LEMMA NewMap ==
    ASSUME HeldIs, HeldIs', key \in Strings, Pls = NoLeaf,
           key \notin DOMAIN Held, Returns("new", key),
           \A s, v : Cell(leaf', array', s, v) <=> Cell(leaf, array, s, v) \/ (s = key /\ v = 0)
    PROVE  \E k \in Strings : Map!Ins(k)
  <1>1. /\ reply' = [op |-> "Ins", key |-> key, code |-> "new", at |-> key]
        /\ Pls' = NoLeaf /\ key \in Strings
    BY DEF Returns, Answer
  <1>2. PICK k \in Strings : k = key
    BY <1>1
  <1>3. \A s, v : Bound(s, v)' <=> Bound(s, v) \/ (s = k /\ v = 0)
    BY <1>1, <1>2, BoundIs, BoundBecomes
  <1>4. Held' = [j \in DOMAIN Held \cup {k} |-> IF j = k THEN 0 ELSE Held[j]]
    <2>1. k \notin DOMAIN Held
      BY <1>2
    <2> QED
      BY <1>3, <2>1, HeldMore
  <1>5. Map!Ins(k)
    BY <1>1, <1>2, <1>4 DEF Map!Ins
  <1> QED
    BY <1>5

LEMMA OldMap ==
    ASSUME HeldIs, HeldIs', key \in Strings, Pls = NoLeaf,
           NEW u, Cell(leaf, array, key, u), Returns("old", key),
           \A s, v : Cell(leaf', array', s, v) <=> Cell(leaf, array, s, v)
    PROVE  \E k \in Strings : Map!Ins(k)
  <1>1. /\ reply' = [op |-> "Ins", key |-> key, code |-> "old", at |-> key]
        /\ Pls' = NoLeaf /\ key \in Strings
    BY DEF Returns, Answer
  <1>2. PICK k \in Strings : k = key
    BY <1>1
  <1>3. k \in DOMAIN Held
    BY <1>2, BoundIs DEF HeldIs
  <1>4. \A s, v : Bound(s, v)' <=> Bound(s, v)
    BY <1>1, BoundIs, BoundBecomes
  <1>5. Held' = Held
    BY <1>4, HeldSame
  <1>6. Map!Ins(k)
    BY <1>1, <1>2, <1>3, <1>5 DEF Map!Ins
  <1> QED
    BY <1>6

\* The key is nowhere: its entry in the tables is missing,
LEMMA NoTable ==
    ASSUME IInv, CallInv, key \in Strings,
           Len(key) \notin lengths \/ (Long(key) /\ Bucket(key) \notin buckets)
    PROVE  \A q : ~Holds(leaf, array, key, q)
  <1>1. Sound(leaf, array) /\ TableInv /\ key \in Seq(Bytes)
    BY TreeSound, StringBytes DEF CallInv
  <1> QED
    BY <1>1, TablesLead

\* or its next word where the walk is,
LEMMA NoWord ==
    ASSUME IInv, CallInv, pc \in {"tree", "split"}, at \notin DOMAIN leaf,
           Word(pos) \notin WordsAt(at)
    PROVE  \A q : ~Holds(leaf, array, key, q)
  <1>1. /\ IsPath(at) /\ Linked(array, at) /\ pos \in Seq(Bytes)
        /\ key = at[3] \o pos /\ Bucket(at[3] \o pos) = BucketOf(at)
    BY WalkIs DEF Belongs
  <1>2. at \in DOMAIN array => Word(pos) \notin DOMAIN array[at]
    BY DEF WordsAt
  <1> QED
    BY <1>1, <1>2, TreeSound, NotThere

\* or where the strings part.
LEMMA NoPart ==
    ASSUME IInv, CallInv, pc \in {"old", "new"}, NewWord \notin WordsAt(PPsplit)
    PROVE  \A q : ~Holds(leaf, array, key, q)
  <1> DEFINE r == NewWord \o pos
  <1>1. /\ IsPath(PPsplit) /\ Linked(array, PPsplit) /\ PPsplit \notin DOMAIN leaf
        /\ PPsplit \in DOMAIN array /\ LenAt(PPsplit) > WORDSIZE /\ LenAt(PPsplit) \in Int
        /\ NewWord \in Seq(Bytes) /\ Len(NewWord) = WORDSIZE /\ pos \in Seq(Bytes)
        /\ Len(pos) = LenAt(PPsplit) - WORDSIZE
        /\ key = PPsplit[3] \o r /\ Bucket(PPsplit[3] \o r) = BucketOf(PPsplit)
    BY PartIs
  <1>2. r \in Seq(Bytes) /\ Len(r) = Len(NewWord) + Len(pos) /\ SubSeq(r, 1, Len(NewWord)) = NewWord
    <2>1. NewWord \in Seq(Bytes) /\ pos \in Seq(Bytes)
      BY <1>1
    <2> QED
      BY <2>1, PartsOfTwo
  <1>3. Word(r) = NewWord
    BY <1>1, <1>2, WordSizeNat DEF Word, Long
  <1> HIDE DEF r
  <1>4. Word(r) \notin DOMAIN array[PPsplit]
    BY <1>1, <1>3 DEF WordsAt
  <1> QED
    BY <1>1, <1>2, <1>4, TreeSound, NotThere

\* Nor is it anywhere while the old string goes to its place.
LEMMA NotWithOld ==
    ASSUME IInv, CallInv, pc = "old"
    PROVE  \A q : ~Holds(leaf, array, key, q)
  <1>1. PICK o : PartedAt(o)
    BY DEF IInv, StepInv
  <1>2. CASE o # NewWord
    <2>1. NewWord \notin WordsAt(PPsplit)
      BY <1>1, <1>2 DEF PartedAt, WordsAt
    <2> QED
      BY <2>1, NoPart
  <1>3. CASE o = NewWord
    <2>1. at = Below(PPsplit, NewWord)
      BY <1>1, <1>3 DEF PartedAt
    <2>2. key = at[3] \o pos /\ pos \in Seq(Bytes)
      BY <2>1, BelowBucket, PartIs
    <2>3. /\ IsPath(at) /\ Linked(array, at) /\ Bucket(at[3] \o pos) = BucketOf(at)
          /\ at \notin DOMAIN leaf /\ at \notin DOMAIN array
      BY <2>2, OldIs DEF IInv, StepInv, Walking, CallInv, KeyInv
    <2> QED
      BY <2>2, <2>3, TreeSound, NotThere
  <1> QED
    BY <1>2, <1>3

\* A word that is not the last adds nothing that can be seen.
LEMMA PassMap ==
    ASSUME HeldIs, HeldIs', Pls = NoLeaf, Pls' = NoLeaf, leaf' = leaf,
           NEW q, NEW w, NEW v, Puts(array', q, w, v), ~(LenAt(q) <= WORDSIZE)
    PROVE  Held' = Held
  <1>1. \A s, u : Cell(leaf', array', s, u) <=> Cell(leaf, array, s, u)
    BY PutsCells
  <1>2. \A s, u : Bound(s, u)' <=> Bound(s, u)
    BY <1>1, BoundIs, BoundBecomes
  <1> QED
    BY <1>2, HeldSame

LEMMA TablesMap ==
    ASSUME IInv, CallInv, PlsInv, HeldIs, HeldIs', InsLength \/ InsHash
    PROVE  (\E k \in Strings : Map!NoMem(k)) \/ (Held' = Held /\ reply' = reply)
  <1>1. Pls = NoLeaf /\ key \in Strings /\ UNCHANGED <<leaf, array>>
    BY DEF InsLength, InsHash, PlsInv, CallInv, KeyInv
  <1>2. CASE Fails /\ (Len(key) \notin lengths \/ (Long(key) /\ Bucket(key) \notin buckets))
    BY <1>1, <1>2, NoTable, FailsMap
  <1>3. CASE Pls' = Pls /\ reply' = reply
    <2>1. \A s, u : Bound(s, u)' <=> Bound(s, u)
      BY <1>1, <1>3, BoundIs, BoundBecomes
    <2> QED
      BY <1>3, <2>1, HeldSame
  <1> QED
    BY <1>2, <1>3 DEF InsLength, InsHash

LEMMA MakeLeafMap ==
    ASSUME IInv, CallInv, PlsInv, HeldIs, HeldIs', MakeLeaf
    PROVE  \E k \in Strings : Map!Ins(k) \/ Map!NoMem(k)
  <1>1. /\ pc = "tree" /\ Pls = NoLeaf /\ at \notin DOMAIN leaf /\ array' = array
        /\ Word(pos) \notin WordsAt(at) /\ key = at[3] \o pos /\ key \in Strings
    BY WalkIs DEF MakeLeaf, IsNull, WordsAt, PlsInv
  <1>2. \A q : ~Holds(leaf, array, key, q)
    BY <1>1, NoWord
  <1>3. CASE Fails /\ leaf' = leaf
    BY <1>1, <1>2, <1>3, FailsMap
  <1>4. CASE leaf' = With(leaf, at, [rest |-> pos, value |-> 0]) /\ Returns("new", key)
    <2> DEFINE r == [rest |-> pos, value |-> 0]
    <2>1. r.rest = pos /\ r.value = 0
      OBVIOUS
    <2>2. leaf' = With(leaf, at, r)
      BY <1>4
    <2> HIDE DEF r
    <2>3. \A s, v : Cell(leaf', array', s, v) <=> Cell(leaf, array, s, v) \/ (s = key /\ v = 0)
      <3>1. \A s, v : Cell(With(leaf, at, r), array, s, v) <=>
                Cell(leaf, array, s, v) \/ (s = at[3] \o r.rest /\ v = r.value)
        BY <1>1, LeafCells
      <3> QED
        BY <1>1, <2>1, <2>2, <3>1
    <2>4. key \notin DOMAIN Held
      BY <1>2, KeyNotHeld
    <2> QED
      BY <1>1, <1>4, <2>3, <2>4, NewMap
  <1> QED
    BY <1>3, <1>4 DEF MakeLeaf

LEMMA FoundLeafMap ==
    ASSUME IInv, CallInv, PlsInv, HeldIs, HeldIs', FoundLeaf
    PROVE  \E k \in Strings : Map!Ins(k)
  <1>1. /\ pc = "tree" /\ Pls = NoLeaf /\ key = at[3] \o pos /\ key \in Strings
        /\ at \in DOMAIN leaf /\ leaf[at].rest = pos
    BY WalkIs DEF FoundLeaf, PlsInv
  <1>2. Returns("old", key) /\ leaf' = leaf /\ array' = array
    BY <1>1 DEF FoundLeaf, nodes
  <1>3. Cell(leaf, array, key, leaf[at].value)
    BY <1>1 DEF Cell
  <1>4. PICK u : u = leaf[at].value
    OBVIOUS
  <1>5. \A s, v : Cell(leaf', array', s, v) <=> Cell(leaf, array, s, v)
    BY <1>2
  <1> QED
    BY <1>1, <1>2, <1>3, <1>4, <1>5, OldMap

\* What is taken from a leaf is being split, and so it is kept.
LEMMA TakeMap ==
    ASSUME IInv, PlsInv, HeldIs, HeldIs', TakeLeaf
    PROVE  Held' = Held
  <1>1. /\ at \in DOMAIN leaf /\ Pls = NoLeaf
        /\ leaf' = Without(leaf, at) /\ array' = array /\ Pls' = leaf[at] /\ at' = at
    BY DEF TakeLeaf, Take, PlsInv
  <1>2. Pls' # NoLeaf
    BY <1>1, LeafNotNone DEF IInv, NodeInv
  <1>3. \A s, v : Cell(leaf, array, s, v) <=>
            Cell(leaf', array, s, v) \/ (s = at[3] \o leaf[at].rest /\ v = leaf[at].value)
    BY <1>1, TakenCells
  <1>4. \A s, v : Bound(s, v)' <=> Bound(s, v)
    BY <1>1, <1>2, <1>3, BoundIs, BoundBecomes
  <1> QED
    BY <1>4, HeldSame

LEMMA SplitMap ==
    ASSUME IInv, CallInv, PlsInv, HeldIs, HeldIs', SplitWord
    PROVE  (\E k \in Strings : Map!NoMem(k)) \/ (Held' = Held /\ reply' = reply)
  <1> DEFINE o == Word(Pls.rest)
  <1>1. /\ pc = "split" /\ leaf' = leaf /\ at \notin DOMAIN leaf
        /\ Word(pos) \notin WordsAt(at) /\ key \in Strings /\ Pls # NoLeaf
    BY SplitIs DEF SplitWord, SplitOn, IsNull, WordsAt, CallInv, KeyInv, PlsInv
  <1>2. CASE Fails /\ array' = array
    BY <1>1, <1>2, NoWord, FailsMap
  <1>3. CASE ~(Fails /\ array' = array)
    <2>1. /\ array' = InsertWord(at, o) /\ at' = Below(at, o)
          /\ Pls' = [Pls EXCEPT !.rest = Rest(@)] /\ reply' = reply
      BY <1>3 DEF SplitWord, SplitOn
    <2>2. /\ Pls \in LeafSet /\ Rest(Pls.rest) \in Seq(Bytes) /\ LenAt(at) > WORDSIZE
          /\ at[3] \o Pls.rest = (at[3] \o o) \o Rest(Pls.rest)
      BY <1>1, SplitIs
    <2>3. /\ Pls' \in LeafSet /\ Pls'.rest = Rest(Pls.rest) /\ Pls'.value = Pls.value
          /\ Pls' # NoLeaf
      BY <2>1, <2>2, LeafNotNone DEF LeafSet
    <2>4. at'[3] \o Pls'.rest = at[3] \o Pls.rest
      BY <2>1, <2>2, <2>3, BelowBucket
    <2>5. Puts(array', at, o, 0)
      BY <2>1, InsertWordPuts
    <2>6. ~(LenAt(at) <= WORDSIZE)
      BY <1>1, <2>2, WalkIs, WordSizeNat
    <2>7. \A s, v : Cell(leaf', array', s, v) <=> Cell(leaf, array, s, v)
      BY <1>1, <2>5, <2>6, PutsCells
    <2>8. \A s, v : Bound(s, v)' <=> Bound(s, v)
      BY <1>1, <2>3, <2>4, <2>7, BoundIs, BoundBecomes
    <2> QED
      BY <2>1, <2>8, HeldSame
  <1> QED
    BY <1>2, <1>3

LEMMA PlaceOldMap ==
    ASSUME IInv, CallInv, PlsInv, HeldIs, HeldIs', PlaceOld
    PROVE  (\E k \in Strings : Map!NoMem(k)) \/ (Held' = Held /\ reply' = reply)
  <1>1. pc = "old" /\ key \in Strings /\ Pls # NoLeaf
    BY DEF PlaceOld, Place, CallInv, KeyInv, PlsInv
  <1>2. CASE Fails /\ leaf' = leaf /\ array' = array
    BY <1>1, <1>2, NotWithOld, FailsMap
  <1>3. CASE ~(Fails /\ leaf' = leaf /\ array' = array)
    <2>1. /\ Pls' = NoLeaf /\ reply' = reply
          /\ \/ leaf' = With(leaf, at, Pls) /\ array' = array
             \/ /\ ~Long(Pls.rest) /\ leaf' = leaf
                /\ array' = With(array, at, With(<<>>, Word(Pls.rest), Pls.value))
      BY <1>3 DEF PlaceOld, Place
    <2>2. /\ at \notin DOMAIN leaf /\ at \notin DOMAIN array
          /\ ~Long(Pls.rest) => Word(Pls.rest) = Pls.rest
          /\ ~Long(Pls.rest) <=> LenAt(at) <= WORDSIZE
      BY <1>1, OldIs
    <2>3. \A s, v : Cell(leaf', array', s, v) <=>
              Cell(leaf, array, s, v) \/ (s = at[3] \o Pls.rest /\ v = Pls.value)
      <3>1. CASE leaf' = With(leaf, at, Pls) /\ array' = array
        BY <2>2, <3>1, LeafCells
      <3>2. CASE /\ ~Long(Pls.rest) /\ leaf' = leaf
                 /\ array' = With(array, at, With(<<>>, Word(Pls.rest), Pls.value))
        <4>1. PICK w, x : w = Pls.rest /\ x = Pls.value
          OBVIOUS
        <4>2. Puts(array', at, w, x)
          BY <2>2, <3>2, <4>1, NewArrayPuts
        <4>3. w \notin WordsAt(at) /\ LenAt(at) <= WORDSIZE
          BY <2>2, <3>2 DEF WordsAt
        <4> SUFFICES ASSUME NEW s, NEW v
                     PROVE  Cell(leaf', array', s, v) <=>
                              Cell(leaf, array, s, v) \/ (s = at[3] \o Pls.rest /\ v = Pls.value)
          OBVIOUS
        <4>4. Cell(leaf', array', s, v) <=> Cell(leaf, array', s, v)
          BY <3>2
        <4>5. Cell(leaf, array', s, v) <=>
                  \/ Cell(leaf, array, s, v)
                  \/ LenAt(at) <= WORDSIZE /\ w \notin WordsAt(at) /\ s = at[3] \o w /\ v = x
          BY <4>2, PutsCells
        <4>6. Cell(leaf, array', s, v) <=> Cell(leaf, array, s, v) \/ (s = at[3] \o w /\ v = x)
          BY <4>3, <4>5
        <4> QED
          BY <4>1, <4>4, <4>6
      <3> QED
        BY <2>1, <3>1, <3>2
    <2>4. \A s, v : Bound(s, v)' <=> Bound(s, v)
      BY <1>1, <2>1, <2>3, BoundIs, BoundBecomes
    <2> QED
      BY <2>1, <2>4, HeldSame
  <1> QED
    BY <1>2, <1>3

LEMMA InsNewMap ==
    ASSUME IInv, CallInv, PlsInv, HeldIs, HeldIs', InsNew
    PROVE  (\E k \in Strings : Map!NoMem(k)) \/ (Held' = Held /\ reply' = reply)
  <1>1. pc = "new" /\ key \in Strings /\ Pls = NoLeaf /\ leaf' = leaf
    BY DEF InsNew, CallInv, KeyInv, PlsInv
  <1>2. CASE NewWord \notin WordsAt(PPsplit) /\ Fails /\ array' = array
    BY <1>1, <1>2, NoPart, FailsMap
  <1>3. CASE array' = InsertWord(PPsplit, NewWord) /\ Pls' = Pls /\ reply' = reply
    <2>1. Puts(array', PPsplit, NewWord, 0)
      BY <1>3, InsertWordPuts
    <2>2. ~(LenAt(PPsplit) <= WORDSIZE)
      BY <1>1, PartIs, WordSizeNat
    <2> QED
      BY <1>1, <1>3, <2>1, <2>2, PassMap
  <1> QED
    BY <1>2, <1>3 DEF InsNew, NewWord

LEMMA InsDownMap ==
    ASSUME IInv, CallInv, PlsInv, HeldIs, HeldIs', InsDown
    PROVE  (\E k \in Strings : Map!NoMem(k)) \/ (Held' = Held /\ reply' = reply)
  <1>1. /\ pc = "tree" /\ Long(pos) /\ key \in Strings /\ Pls = NoLeaf /\ leaf' = leaf
        /\ at \notin DOMAIN leaf
    BY DEF InsDown, CallInv, KeyInv, PlsInv, IInv, NodeInv
  <1>2. CASE Word(pos) \notin WordsAt(at) /\ Fails /\ array' = array
    BY <1>1, <1>2, NoWord, FailsMap
  <1>3. CASE array' = InsertWord(at, Word(pos)) /\ Pls' = Pls /\ reply' = reply
    <2>1. Puts(array', at, Word(pos), 0)
      BY <1>3, InsertWordPuts
    <2>2. ~(LenAt(at) <= WORDSIZE)
      BY <1>1, WalkIs
    <2> QED
      BY <1>1, <1>3, <2>1, <2>2, PassMap
  <1> QED
    BY <1>2, <1>3 DEF InsDown

LEMMA InsLastMap ==
    ASSUME IInv, CallInv, PlsInv, HeldIs, HeldIs', InsLast
    PROVE  \E k \in Strings : Map!Ins(k) \/ Map!NoMem(k)
  <1>1. /\ pc = "tree" /\ ~Long(pos) /\ key \in Strings /\ Pls = NoLeaf /\ leaf' = leaf
        /\ key = at[3] \o pos /\ LenAt(at) <= WORDSIZE
    BY WalkIs DEF InsLast, PlsInv
  <1>2. at \notin DOMAIN leaf /\ Word(pos) = pos
    <2>1. at \notin DOMAIN leaf
      BY <1>1, WalkIs, WordSizeNat DEF IInv, NodeInv
    <2>2. pos \in Seq(Bytes)
      BY <1>1, WalkIs
    <2> QED
      BY <1>1, <2>1, <2>2, SubSeqFull DEF Word
  <1>3. pos \notin WordsAt(at) => \A q : ~Holds(leaf, array, key, q)
    BY <1>1, <1>2, NoWord
  <1>4. CASE pos \notin WordsAt(at) /\ Fails /\ array' = array
    BY <1>1, <1>3, <1>4, FailsMap
  <1>5. CASE /\ array' = InsertWord(at, pos)
             /\ Returns(IF pos \in WordsAt(at) THEN "old" ELSE "new", at[3] \o pos)
    <2>1. Puts(array', at, pos, 0)
      BY <1>5, InsertWordPuts
    <2>2. \A s, v : Cell(leaf, array', s, v) <=>
              \/ Cell(leaf, array, s, v)
              \/ LenAt(at) <= WORDSIZE /\ pos \notin WordsAt(at) /\ s = at[3] \o pos /\ v = 0
      BY <2>1, PutsCells
    <2>3. CASE pos \in WordsAt(at)
      <3>1. Cell(leaf, array, key, array[at][pos])
        BY <1>1, <2>3 DEF Cell, WordsAt
      <3>2. PICK u : u = array[at][pos]
        OBVIOUS
      <3>3. Returns("old", key)
        BY <1>1, <1>5, <2>3
      <3>4. \A s, v : Cell(leaf', array', s, v) <=> Cell(leaf, array, s, v)
        BY <1>1, <2>2, <2>3
      <3>5. Cell(leaf, array, key, u)
        BY <3>1, <3>2
      <3> QED
        BY <1>1, <3>3, <3>4, <3>5, OldMap
    <2>4. CASE pos \notin WordsAt(at)
      <3>1. Returns("new", key)
        BY <1>1, <1>5, <2>4
      <3>2. \A s, v : Cell(leaf', array', s, v) <=> Cell(leaf, array, s, v) \/ (s = key /\ v = 0)
        BY <1>1, <2>2, <2>4
      <3>3. key \notin DOMAIN Held
        BY <1>3, <2>4, KeyNotHeld
      <3> QED
        BY <1>1, <3>1, <3>2, <3>3, NewMap
    <2> QED
      BY <2>3, <2>4
  <1> QED
    BY <1>4, <1>5 DEF InsLast

-----------------------------------------------------------------------------
(* The other calls, seen as a map *)

\* Between two calls what is kept is what the trees hold.
LEMMA IdleBound ==
    ASSUME PlsInv, pc = "idle"
    PROVE  Pls = NoLeaf /\ \A s, v : Bound(s, v) <=> Cell(leaf, array, s, v)
  BY BoundIs DEF PlsInv

LEMMA DelMap ==
    ASSUME IInv, CallInv, PlsInv, HeldIs, HeldIs', NEW k \in Strings, JudyHSDel(k)
    PROVE  Map!Del(k) \/ (Held' = Held /\ reply' = reply)
  <1>1. /\ pc = "idle" /\ Pls = NoLeaf /\ "Del" \in Calls
        /\ leaf' = leaf /\ array' = array
        /\ Sound(leaf, array) /\ TableInv /\ k \in Seq(Bytes)
        /\ \A s, v : Bound(s, v) <=> Cell(leaf, array, s, v)
    BY IdleBound, TreeSound, StringBytes DEF JudyHSDel, CallInv, nodes
  <1>2. k \in DOMAIN Held <=> JudyHSGet(k) # {}
    <2>1. JudyHSGet(k) = {k} \cap DOMAIN Content
      BY <1>1, GetIs
    <2>2. k \in DOMAIN Held <=> k \in DOMAIN Content
      BY <1>1, ContentIs DEF HeldIs
    <2> QED
      BY <2>1, <2>2
  <1>3. Pls' = NoLeaf
    BY <1>1 DEF JudyHSDel, Answer
  <1>4. \A s, v : Bound(s, v)' <=> Bound(s, v)
    BY <1>1, <1>3, BoundBecomes
  <1>5. Held' = Held
    BY <1>4, HeldSame
  <1>6. CASE JudyHSGet(k) = {}
    <2>1. reply' = [op |-> "Del", key |-> k, code |-> "absent"] /\ k \notin DOMAIN Held
      BY <1>2, <1>6 DEF JudyHSDel, Answer
    <2>2. Held' = [j \in DOMAIN Held \ {k} |-> Held[j]]
      BY <1>5, <2>1 DEF HeldIs
    <2> QED
      BY <1>1, <2>1, <2>2 DEF Map!Del
  <1>7. CASE JudyHSGet(k) # {}
    BY <1>5, <1>7 DEF JudyHSDel
  <1> QED
    BY <1>6, <1>7

\* The pointer that was handed out last is to the value of the key that was asked for.
LEMMA StoreMap ==
    ASSUME IInv, CallInv, PlsInv, HeldIs, HeldIs', NEW v \in Value, Store(v)
    PROVE  Map!Store(v)
  <1>1. /\ pc = "idle" /\ Pls = NoLeaf /\ Pls' = NoLeaf /\ reply' = reply
        /\ reply.op = "Ins" /\ reply.code \in {"new", "old"} /\ reply.at = reply.key
        /\ \A s, u : Bound(s, u) <=> Cell(leaf, array, s, u)
    BY IdleBound DEF Store, frame, CallInv, ReplyInv
  <1>2. PICK k : k = reply.key
    OBVIOUS
  <1>3. /\ DOMAIN leaf' = DOMAIN leaf
        /\ \A p \in DOMAIN leaf :
              leaf'[p] = IF p[3] \o leaf[p].rest = k THEN [leaf[p] EXCEPT !.value = v] ELSE leaf[p]
    BY <1>1, <1>2 DEF Store
  <1>4. \A p \in DOMAIN leaf : /\ leaf'[p].rest = leaf[p].rest
                               /\ leaf'[p].value = IF p[3] \o leaf[p].rest = k THEN v ELSE leaf[p].value
    BY <1>3 DEF IInv, NodeInv, LeafSet
  <1>5. /\ DOMAIN array' = DOMAIN array
        /\ \A p \in DOMAIN array : DOMAIN array'[p] = DOMAIN array[p]
        /\ \A p \in DOMAIN array : \A w \in DOMAIN array[p] :
              LenAt(p) <= WORDSIZE => array'[p][w] = IF p[3] \o w = k THEN v ELSE array[p][w]
    BY <1>1, <1>2 DEF Store, Cells, WordsAt
  <1>6. ASSUME NEW s, NEW u
        PROVE  Cell(leaf', array', s, u) <=>
                  IF s = k THEN u = v /\ \E x : Cell(leaf, array, s, x) ELSE Cell(leaf, array, s, u)
    <2>1. (\E p \in DOMAIN leaf' : s = p[3] \o leaf'[p].rest /\ u = leaf'[p].value) <=>
              \E p \in DOMAIN leaf : s = p[3] \o leaf[p].rest /\ u = IF s = k THEN v ELSE leaf[p].value
      BY <1>3, <1>4
    <2>2. (\E p \in DOMAIN array' : \E w \in DOMAIN array'[p] :
                LenAt(p) <= WORDSIZE /\ s = p[3] \o w /\ u = array'[p][w]) <=>
              \E p \in DOMAIN array : \E w \in DOMAIN array[p] :
                LenAt(p) <= WORDSIZE /\ s = p[3] \o w /\ u = IF s = k THEN v ELSE array[p][w]
      <3>1. ASSUME NEW p \in DOMAIN array
            PROVE  (\E w \in DOMAIN array'[p] :
                      LenAt(p) <= WORDSIZE /\ s = p[3] \o w /\ u = array'[p][w]) <=>
                   \E w \in DOMAIN array[p] :
                      LenAt(p) <= WORDSIZE /\ s = p[3] \o w /\ u = IF s = k THEN v ELSE array[p][w]
        <4>1. \A w \in DOMAIN array[p] : LenAt(p) <= WORDSIZE /\ s = p[3] \o w =>
                  array'[p][w] = IF s = k THEN v ELSE array[p][w]
          BY <1>5
        <4>2. DOMAIN array'[p] = DOMAIN array[p]
          BY <1>5
        <4> QED
          BY <4>1, <4>2
      <3> QED
        BY <1>5, <3>1
    <2>3. Cell(leaf', array', s, u) <=>
              \/ \E p \in DOMAIN leaf : s = p[3] \o leaf[p].rest /\ u = IF s = k THEN v ELSE leaf[p].value
              \/ \E p \in DOMAIN array : \E w \in DOMAIN array[p] :
                    LenAt(p) <= WORDSIZE /\ s = p[3] \o w /\ u = IF s = k THEN v ELSE array[p][w]
      BY <2>1, <2>2 DEF Cell
    <2> QED
      BY <2>3 DEF Cell
  <1>7. \A s, u : Bound(s, u)' <=>
            IF s = k THEN u = v /\ \E x : Bound(s, x) ELSE Bound(s, u)
    BY <1>1, <1>6, BoundBecomes
  <1>8. Held' = [Held EXCEPT ![k] = v]
    BY <1>7, HeldPut
  <1> QED
    BY <1>1, <1>2, <1>8 DEF Map!Store

LEMMA FreeMap ==
    ASSUME IInv, CallInv, HeldIs', JudyHSFreeArray
    PROVE  Map!FreeArray
  <1>1. DOMAIN leaf' = {} /\ DOMAIN array' = {}
    BY FreedAll
  <1>2. Pls' = NoLeaf /\ reply' = [op |-> "Free", code |-> "ok"] /\ "Free" \in Calls
    BY DEF JudyHSFreeArray, FreeAll, Answer
  <1>3. \A s, v : ~Bound(s, v)'
    BY <1>1, <1>2, BoundBecomes DEF Cell
  <1>4. DOMAIN Held' = {} /\ Held' = [s \in DOMAIN Held' |-> Held'[s]]
    BY <1>3 DEF HeldIs
  <1>5. Held' = [k \in {} |-> 0]
    BY <1>4
  <1> QED
    BY <1>2, <1>5 DEF Map!FreeArray

\* Each step of the strings is a step of the map, or cannot be seen.
LEMMA StepMap ==
    ASSUME IInv, CallInv, PlsInv, HeldIs, HeldIs', Next
    PROVE  Map!Next \/ (Held' = Held /\ reply' = reply)
  <1>1. ASSUME NEW k \in Strings, Ins(k)
        PROVE  Held' = Held /\ reply' = reply
    <2>1. Pls = NoLeaf /\ Pls' = NoLeaf /\ leaf' = leaf /\ array' = array /\ reply' = reply
      BY <1>1 DEF Ins, nodes, PlsInv
    <2>2. \A s, v : Bound(s, v)' <=> Bound(s, v)
      BY <2>1, BoundIs, BoundBecomes
    <2> QED
      BY <2>1, <2>2, HeldSame
  <1>2. ASSUME TakeLeaf
        PROVE  Held' = Held /\ reply' = reply
    BY <1>2, TakeMap DEF TakeLeaf, Take
  <1>3. ASSUME MakeLeaf \/ FoundLeaf \/ InsLast
        PROVE  \E k \in Strings : Map!Ins(k) \/ Map!NoMem(k)
    BY <1>3, MakeLeafMap, FoundLeafMap, InsLastMap
  <1>4. ASSUME InsLength \/ InsHash \/ SplitWord \/ PlaceOld \/ InsNew \/ InsDown
        PROVE  (\E k \in Strings : Map!NoMem(k)) \/ (Held' = Held /\ reply' = reply)
    BY <1>4, TablesMap, SplitMap, PlaceOldMap, InsNewMap, InsDownMap
  <1>5. ASSUME NEW k \in Strings, JudyHSDel(k)
        PROVE  (\E j \in Strings : Map!Del(j)) \/ (Held' = Held /\ reply' = reply)
    BY <1>5, DelMap
  <1>6. ASSUME NEW v \in Value, Store(v)
        PROVE  \E u \in Value : Map!Store(u)
    BY <1>6, StoreMap
  <1>7. ASSUME JudyHSFreeArray
        PROVE  Map!FreeArray
    BY <1>7, FreeMap
  <1> QED
    BY <1>1, <1>2, <1>3, <1>4, <1>5, <1>6, <1>7 DEF Next, Insertion, Map!Next

-----------------------------------------------------------------------------
(* JudyHS is a map *)

LEMMA HeldAlways == IInv /\ CallInv /\ PlsInv => HeldIs
  BY HeldIsBound

LEMMA EmptyMap == Init => Map!Init
  <1> SUFFICES ASSUME Init
               PROVE  Map!Init
    OBVIOUS
  <1>1. DOMAIN leaf = {} /\ DOMAIN array = {} /\ Pls = NoLeaf
    BY DEF Init
  <1>2. Sound(leaf, array)
    BY <1>1 DEF Sound, Placed
  <1>3. \A s, v : ~Cell(leaf, array, s, v)
    BY <1>1 DEF Cell
  <1>4. DOMAIN Content = {} /\ Content = [s \in DOMAIN Content |-> Content[s]]
    BY <1>2, <1>3, ContentIs
  <1>5. Held = [k \in {} |-> 0]
    BY <1>1, <1>4 DEF Held
  <1> QED
    BY <1>5 DEF Init, Map!Init

LEMMA NextMap ==
    /\ IInv /\ CallInv /\ PlsInv
    /\ IInv' /\ CallInv' /\ PlsInv'
    /\ [Next]_vars
    => [Map!Next]_<<Held, reply>>
  <1>1. IInv' /\ CallInv' /\ PlsInv' => HeldIs'
    BY HeldAlways, PTL
  <1> SUFFICES ASSUME IInv, CallInv, PlsInv, IInv', CallInv', PlsInv', [Next]_vars
               PROVE  Map!Next \/ (Held' = Held /\ reply' = reply)
    OBVIOUS
  <1>2. HeldIs /\ HeldIs'
    BY <1>1, HeldAlways
  <1>3. CASE Next
    BY <1>2, <1>3, StepMap
  <1>4. CASE UNCHANGED vars
    <2>1. UNCHANGED <<leaf, array, at, Pls, reply>>
      BY <1>4 DEF vars, nodes, frame
    <2>2. \A s, v : Bound(s, v)' <=> Bound(s, v)
      BY <2>1, BoundIs, BoundBecomes
    <2> QED
      BY <1>2, <2>1, <2>2, HeldSame
  <1> QED
    BY <1>3, <1>4

(***************************************************************************)
(* JudyHSGet finds exactly the strings in the trees, whatever hashes       *)
(* collide and whatever failures have left in them.                        *)
(***************************************************************************)
THEOREM GetsBytes == Spec => []GetAgrees
  <1>1. IInv /\ CallInv => GetAgrees
    <2> SUFFICES ASSUME IInv, CallInv, NEW s \in Strings
                 PROVE  JudyHSGet(s) = {s} \cap DOMAIN Content
      BY DEF GetAgrees
    <2> QED
      BY TreeSound, GetIs, StringBytes DEF CallInv
  <1> QED
    BY <1>1, CallAlways, PTL

(***************************************************************************)
(* JudyHS is a map of strings, but for the one string that a failed call   *)
(* was splitting: what an insertion, a deletion, a store and FreeArray     *)
(* answer and leave is what JudyMap says, for words and strings of any     *)
(* length, any hash and failures anywhere.                                 *)
(***************************************************************************)
THEOREM BytesMap == Spec => MapSpec
  <1>1. Spec => Map!Init
    BY EmptyMap DEF Spec
  <1>2. Spec => [][Map!Next]_<<Held, reply>>
    BY CallAlways, NextMap, PTL DEF Spec
  <1> QED
    BY <1>1, <1>2, PTL DEF MapSpec, Map!Spec

-----------------------------------------------------------------------------
(* An insertion comes to its end *)

\* The parts of an insertion that are still to come.
Phase ==
    IF pc = "length" THEN 7 ELSE IF pc = "hash" THEN 6
    ELSE IF pc = "tree" THEN IF PPsplit = NoPath THEN 5 ELSE 1
    ELSE IF pc = "split" THEN 4 ELSE IF pc = "old" THEN 3 ELSE IF pc = "new" THEN 2 ELSE 0

\* And the bytes of the key that are.
Ahead == Phase + Len(IF pc \in {"length", "hash"} THEN key ELSE pos)

LEMMA AheadNat ==
    ASSUME IInv
    PROVE  /\ pc \in {"length", "hash"} => key \in Seq(Bytes) /\ Len(key) \in Nat
           /\ pc \in {"tree", "split", "old", "new"} => pos \in Seq(Bytes) /\ Len(pos) \in Nat
           /\ pc = "new" => PPsplit # NoPath
  <1>1. pc \in {"tree", "split", "old"} => pos \in Seq(Bytes)
    BY DEF IInv, StepInv, Walking
  <1>2. ASSUME pc = "new"
        PROVE  pos \in Seq(Bytes) /\ PPsplit # NoPath
    <2>1. PICK o : PartedAt(o)
      BY <1>2 DEF IInv, StepInv
    <2>2. LenAt(NoPath) = 0
      BY EmptySeq DEF LenAt, NoPath
    <2> QED
      BY <2>1, <2>2, WordSizeNat DEF PartedAt
  <1>3. pc \in {"length", "hash"} => key \in Seq(Bytes)
    BY DEF IInv, StepInv
  <1> QED
    BY <1>1, <1>2, <1>3, LenProperties

\* The call returns,
LEMMA AnswerAhead ==
    ASSUME IInv, pc \in {"length", "hash", "tree", "split", "old", "new"}, pc' = "idle" /\ pos' = <<>>
    PROVE  Ahead' \in Nat /\ Ahead' < Ahead
  <1>1. Phase \in Nat /\ Phase > 0
    BY DEF Phase
  <1>2. Ahead' = 0
    BY EmptySeq DEF Ahead, Phase
  <1>3. Ahead \in Nat /\ Ahead > 0
    BY <1>1, AheadNat DEF Ahead
  <1> QED
    BY <1>2, <1>3

\* or goes on with what is left of the key after a word,
LEMMA RestAhead ==
    ASSUME IInv, pc \in {"tree", "split"}, Long(pos), pos' = Rest(pos),
           \/ pc' = pc /\ pc = "tree" /\ PPsplit' = PPsplit
           \/ pc = "split" /\ pc' \in {"split", "old"}
    PROVE  Ahead' \in Nat /\ Ahead' < Ahead
  <1>1. Len(Rest(pos)) = Len(pos) - WORDSIZE /\ Len(Rest(pos)) \in Nat /\ Len(pos) \in Nat
    BY AheadNat, WordAndRest, LenProperties
  <1>2. Phase \in Nat /\ Phase' \in Nat /\ Phase' <= Phase
    BY DEF Phase
  <1>3. Ahead' = Phase' + Len(Rest(pos)) /\ Ahead = Phase + Len(pos)
    BY DEF Ahead
  <1> QED
    BY <1>1, <1>2, <1>3, WordSizeNat

\* or with the next part and no more of it.
LEMMA PhaseAhead ==
    ASSUME IInv, pos' = pos, \/ pc = "tree" /\ PPsplit = NoPath /\ pc' = "split"
                             \/ pc = "old" /\ pc' = "new"
                             \/ pc = "new" /\ pc' = "tree" /\ PPsplit' = PPsplit
    PROVE  Ahead' \in Nat /\ Ahead' < Ahead
  <1>1. Len(pos) \in Nat /\ (pc = "new" => PPsplit # NoPath)
    BY AheadNat
  <1>2. Phase \in Nat /\ Phase' \in Nat /\ Phase' < Phase
    BY <1>1 DEF Phase
  <1>3. Ahead' = Phase' + Len(pos) /\ Ahead = Phase + Len(pos)
    BY DEF Ahead
  <1> QED
    BY <1>1, <1>2, <1>3

(***************************************************************************)
(* Every part of insStrJudyLTree leaves less to do, whatever the strings,  *)
(* their hashes and the allocations that fail: a leaf is split once, and   *)
(* what comes after the split never meets another one.                     *)
(***************************************************************************)
THEOREM SplitsEnd == Spec => [][Insertion => Ahead' \in Nat /\ Ahead' < Ahead]_vars
  <1>1. ASSUME IInv, Insertion
        PROVE  Ahead' \in Nat /\ Ahead' < Ahead
    <2>1. CASE InsLength
      <3>1. CASE pc' = "idle" /\ pos' = <<>>
        BY <1>1, <2>1, <3>1, AnswerAhead DEF InsLength
      <3>2. CASE ~(pc' = "idle" /\ pos' = <<>>)
        <4>1. pc = "length" /\ pc' = "hash" /\ key' = key
          BY <2>1, <3>2 DEF InsLength, Fails, Answer
        <4>2. Len(key) \in Nat
          BY <1>1, <4>1, AheadNat
        <4> QED
          BY <4>1, <4>2 DEF Ahead, Phase
      <3> QED
        BY <3>1, <3>2
    <2>2. CASE InsHash
      <3>1. CASE pc' = "idle" /\ pos' = <<>>
        BY <1>1, <2>2, <3>1, AnswerAhead DEF InsHash
      <3>2. CASE ~(pc' = "idle" /\ pos' = <<>>)
        <4>1. pc = "hash" /\ pc' = "tree" /\ pos' = key
          BY <2>2, <3>2 DEF InsHash, Fails, Answer
        <4>2. Len(key) \in Nat
          BY <1>1, <4>1, AheadNat
        <4>3. Phase = 6 /\ Phase' \in {1, 5}
          BY <4>1 DEF Phase
        <4>4. Ahead' = Phase' + Len(key) /\ Ahead = Phase + Len(key)
          BY <4>1 DEF Ahead
        <4> QED
          BY <4>2, <4>3, <4>4
      <3> QED
        BY <3>1, <3>2
    <2>3. CASE MakeLeaf \/ FoundLeaf \/ InsLast
      BY <1>1, <2>3, AnswerAhead DEF MakeLeaf, FoundLeaf, InsLast, Returns, Fails, Answer
    <2>4. CASE TakeLeaf
      <3>1. pc = "tree" /\ pc' = "split" /\ pos' = pos /\ Long(pos) /\ ~IsNull(at)
        BY <2>4 DEF TakeLeaf, Take, IsNull
      <3>2. PPsplit = NoPath
        BY <1>1, <3>1 DEF IInv, StepInv
      <3> QED
        BY <1>1, <3>1, <3>2, PhaseAhead
    <2>5. CASE SplitWord
      <3>1. pc = "split" /\ Long(pos)
        BY <1>1, <2>5 DEF SplitWord, SplitOn, IInv, StepInv
      <3>2. CASE pc' = "idle" /\ pos' = <<>>
        BY <1>1, <3>1, <3>2, AnswerAhead
      <3>3. CASE ~(pc' = "idle" /\ pos' = <<>>)
        <4>1. pos' = Rest(pos) /\ pc' \in {"split", "old"}
          BY <2>5, <3>3 DEF SplitWord, SplitOn, Fails, Answer
        <4> QED
          BY <1>1, <3>1, <4>1, RestAhead
      <3> QED
        BY <3>2, <3>3
    <2>6. CASE PlaceOld
      <3>1. pc = "old"
        BY <2>6 DEF PlaceOld, Place
      <3>2. CASE pc' = "idle" /\ pos' = <<>>
        BY <1>1, <3>1, <3>2, AnswerAhead
      <3>3. CASE ~(pc' = "idle" /\ pos' = <<>>)
        <4>1. pc' = "new" /\ pos' = pos
          BY <2>6, <3>3 DEF PlaceOld, Place, Fails, Answer
        <4> QED
          BY <1>1, <3>1, <4>1, PhaseAhead
      <3> QED
        BY <3>2, <3>3
    <2>7. CASE InsNew
      <3>1. pc = "new"
        BY <2>7 DEF InsNew
      <3>2. CASE pc' = "idle" /\ pos' = <<>>
        BY <1>1, <3>1, <3>2, AnswerAhead
      <3>3. CASE ~(pc' = "idle" /\ pos' = <<>>)
        <4>1. pc' = "tree" /\ pos' = pos /\ PPsplit' = PPsplit
          BY <2>7, <3>3 DEF InsNew, Fails, Answer
        <4> QED
          BY <1>1, <3>1, <4>1, PhaseAhead
      <3> QED
        BY <3>2, <3>3
    <2>8. CASE InsDown
      <3>1. pc = "tree" /\ Long(pos)
        BY <2>8 DEF InsDown
      <3>2. CASE pc' = "idle" /\ pos' = <<>>
        BY <1>1, <3>1, <3>2, AnswerAhead
      <3>3. CASE ~(pc' = "idle" /\ pos' = <<>>)
        <4>1. pos' = Rest(pos) /\ pc' = pc /\ PPsplit' = PPsplit
          BY <2>8, <3>3 DEF InsDown, Fails, Answer
        <4> QED
          BY <1>1, <3>1, <4>1, RestAhead
      <3> QED
        BY <3>2, <3>3
    <2> QED
      BY <1>1, <2>1, <2>2, <2>3, <2>4, <2>5, <2>6, <2>7, <2>8 DEF Insertion
  <1> QED
    BY <1>1, Invariance, PTL DEF Spec
=============================================================================
