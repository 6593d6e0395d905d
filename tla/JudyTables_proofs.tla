-------------------------- MODULE JudyTables_proofs --------------------------
(***************************************************************************)
(* That GenTable writes usable tables whatever sizes malloc serves and     *)
(* however large the leaves are: every object fits, every group of equal   *)
(* words shares a value area.                                              *)
(***************************************************************************)
EXTENDS JudyTables, TLAPS

-----------------------------------------------------------------------------
(* Rounding *)

\* Products grow with their factors.
LEMMA ProductGrows ==
    ASSUME NEW a \in Nat, NEW i \in Nat, NEW j \in Nat, i <= j
    PROVE  a * i \in Nat /\ a * i <= a * j
  <1>1. a * i \in Nat /\ a * (j - i) \in Nat
    OBVIOUS
  <1>2. a * j = a * i + a * (j - i)
    OBVIOUS
  <1> QED
    BY <1>1, <1>2

\* What is rounded up holds the bytes, and a value more takes a word more.
LEMMA RoundUp ==
    ASSUME NEW x \in Nat, NEW n \in Nat, NEW o \in {0, 1}
    PROVE  /\ ROUNDUP(x, o) \in Nat
           /\ x + BPW * o <= BPW * ROUNDUP(x, o)
           /\ ROUNDUP(x + BPW * n, o) = ROUNDUP(x, o) + n
  BY DEF ROUNDUP, BPW

\* More bytes do not take fewer words.
LEMMA RoundUpGrows ==
    ASSUME NEW x \in Nat, NEW y \in Nat, NEW o \in {0, 1}, x <= y
    PROVE  ROUNDUP(x, o) <= ROUNDUP(y, o)
  BY DEF ROUNDUP, BPW

\* The words of n keys, alone and with values, hold them; and those of m, no fewer.
LEMMA LeafWordsHold ==
    ASSUME NEW T \in Tables, NEW n \in Nat, NEW m \in Nat, n <= m
    PROVE  /\ OWord(T, n) \in Nat /\ IWord(T, n) \in Nat
           /\ IWord(T, n) <= IWord(T, m) /\ OWord(T, n) <= OWord(T, m)
           /\ T.IndexBytes * n + BPW * T.OffsetWords <= BPW * IWord(T, n)
           /\ T.IndexBytes * n + BPW * T.OffsetWords + T.ValueBytes * n <= BPW * OWord(T, n)
           /\ T.ValueBytes # 0 => OWord(T, n) = IWord(T, n) + n
           /\ n > 0 => OWord(T, n) > 0
  <1> DEFINE k == T.IndexBytes * n
             j == T.IndexBytes * m
             b == (T.IndexBytes + T.ValueBytes) * n
             c == (T.IndexBytes + T.ValueBytes) * m
  <1>1. T.IndexBytes \in Nat /\ T.ValueBytes \in {0, BPW} /\ T.OffsetWords \in {0, 1}
    BY TablesAssumption
  <1>2. k \in Nat /\ j \in Nat /\ k <= j
    BY <1>1, ProductGrows
  <1>3. b \in Nat /\ c \in Nat /\ b <= c
    <2>1. T.IndexBytes + T.ValueBytes \in Nat
      BY <1>1 DEF BPW
    <2> QED
      BY <2>1, ProductGrows
  <1>4. b = k + T.ValueBytes * n
    BY <1>1 DEF BPW
  <1>5. T.ValueBytes * n \in Nat
    BY <1>1, ProductGrows DEF BPW
  <1> HIDE DEF k, j, b, c
  <1>6. OWord(T, n) = ROUNDUP(b, T.OffsetWords) /\ OWord(T, m) = ROUNDUP(c, T.OffsetWords)
    BY DEF OWord, b, c
  <1>7. IWord(T, n) = ROUNDUP(k, T.OffsetWords) /\ IWord(T, m) = ROUNDUP(j, T.OffsetWords)
    BY DEF IWord, k, j
  <1>8. OWord(T, n) \in Nat /\ b + BPW * T.OffsetWords <= BPW * OWord(T, n)
    BY <1>1, <1>3, <1>6, RoundUp
  <1>9. IWord(T, n) \in Nat /\ k + BPW * T.OffsetWords <= BPW * IWord(T, n)
    BY <1>1, <1>2, <1>7, RoundUp
  <1>10. IWord(T, n) <= IWord(T, m) /\ OWord(T, n) <= OWord(T, m)
    BY <1>1, <1>2, <1>3, <1>6, <1>7, RoundUpGrows
  <1>11. ASSUME T.ValueBytes # 0
         PROVE  OWord(T, n) = IWord(T, n) + n
    <2>1. b = k + BPW * n
      BY <1>1, <1>4, <1>11
    <2>2. ROUNDUP(k + BPW * n, T.OffsetWords) = ROUNDUP(k, T.OffsetWords) + n
      BY <1>1, <1>2, RoundUp
    <2> QED
      BY <2>1, <2>2, <1>6, <1>7
  <1>12. k + BPW * T.OffsetWords + T.ValueBytes * n <= BPW * OWord(T, n)
    BY <1>1, <1>2, <1>4, <1>5, <1>8 DEF BPW
  <1>13. n > 0 => OWord(T, n) > 0
    <2>1. T.IndexBytes \in Nat /\ T.IndexBytes >= 1
      BY TablesAssumption
    <2>2. n > 0 => k >= n
      <3>1. n * 1 <= n * T.IndexBytes
        BY <2>1, ProductGrows
      <3> QED
        BY <2>1, <3>1 DEF k
    <2> QED
      BY <1>1, <1>2, <1>5, <1>8, <1>12, <2>2 DEF BPW
  <1> QED
    BY <1>8, <1>9, <1>10, <1>11, <1>12, <1>13 DEF k

\* The same of the words alone.
LEMMA LeafWordsGrow ==
    \A T \in Tables : \A n, m \in Nat :
        /\ OWord(T, n) \in Nat /\ IWord(T, n) \in Nat
        /\ n > 0 => OWord(T, n) > 0
        /\ T.ValueBytes # 0 => OWord(T, n) = IWord(T, n) + n
        /\ n <= m => IWord(T, n) <= IWord(T, m) /\ OWord(T, n) <= OWord(T, m)
  <1> SUFFICES ASSUME NEW T \in Tables, NEW n \in Nat, NEW m \in Nat
               PROVE  /\ OWord(T, n) \in Nat /\ IWord(T, n) \in Nat
                      /\ n > 0 => OWord(T, n) > 0
                      /\ T.ValueBytes # 0 => OWord(T, n) = IWord(T, n) + n
                      /\ n <= m => IWord(T, n) <= IWord(T, m) /\ OWord(T, n) <= OWord(T, m)
    OBVIOUS
  <1>1. /\ OWord(T, n) \in Nat /\ IWord(T, n) \in Nat
        /\ n > 0 => OWord(T, n) > 0
        /\ T.ValueBytes # 0 => OWord(T, n) = IWord(T, n) + n
    <2>1. n <= n
      OBVIOUS
    <2> QED
      BY <2>1, LeafWordsHold
  <1>2. n <= m => IWord(T, n) <= IWord(T, m) /\ OWord(T, n) <= OWord(T, m)
    BY LeafWordsHold
  <1> QED
    BY <1>1, <1>2

-----------------------------------------------------------------------------
(* The invariant *)

TypeInv ==
    /\ table \in Tables
    /\ pc \in {"sizes", "groups", "exit", "done"}
    /\ Index \in 0..table.LeafSize
    /\ Words \in [0..(table.LeafSize + 1) -> Nat]
    /\ Offset \in [0..table.LeafSize -> Nat]
    /\ LastWords \in Nat

\* The first loop: what it has passed fits, the value area right after the keys.
SizesInv ==
    pc = "sizes" =>
        /\ Index > 0
        /\ Words[table.LeafSize + 1] = 0
        /\ LastWords = TERMINATOR
        /\ \A n \in 1..(Index - 1) : OWord(table, n) <= Words[n] /\ Offset[n] = IWord(table, n)

\* A leaf of n keys has its value area for good.
Settled(n) ==
    /\ IWord(table, n) <= Offset[n]
    /\ table.ValueBytes # 0 => Offset[n] + n <= Words[n]
    /\ table.ValueBytes # 0 /\ n < table.LeafSize /\ Words[n] = Words[n + 1] =>
          Offset[n] = Offset[n + 1]

\* The second loop: LastWords is the value area of the leaf above.
GroupsInv ==
    pc \in {"groups", "done"} =>
        /\ Words[table.LeafSize + 1] = 0
        /\ Words[table.LeafSize] = OWord(table, table.LeafSize)
        /\ \A n \in 1..table.LeafSize : OWord(table, n) <= Words[n]
        /\ \A n \in 1..Index : Offset[n] = IWord(table, n)
        /\ LastWords = IF Index = table.LeafSize THEN TERMINATOR ELSE Offset[Index + 1]
        /\ \A n \in (Index + 1)..table.LeafSize : Settled(n)
        /\ pc = "done" => Index = 0

IInv == TypeInv /\ SizesInv /\ GroupsInv

LEMMA IInvInit == Init => IInv
  <1> SUFFICES ASSUME Init PROVE IInv
    OBVIOUS
  <1>1. table \in Tables /\ table.LeafSize \in Nat \ {0}
    BY TablesAssumption DEF Init
  <1>2. TypeInv
    BY <1>1 DEF Init, TypeInv, TERMINATOR
  <1>3. SizesInv /\ GroupsInv
    BY <1>1 DEF Init, SizesInv, GroupsInv
  <1> QED
    BY <1>2, <1>3 DEF IInv

LEMMA NextSizeKeeps ==
    ASSUME IInv, NextSize
    PROVE  IInv'
  <1>1. table \in Tables /\ table.LeafSize \in Nat \ {0} /\ Index \in Nat /\ Index > 0
        /\ Index < table.LeafSize
    BY TablesAssumption DEF IInv, TypeInv, SizesInv, NextSize
  <1>2. PICK b \in 1..Len(table.AllocSizes) :
            /\ table.AllocSizes[b] >= OWord(table, Index)
            /\ Words' = [Words EXCEPT ![Index] =
                            IF table.AllocSizes[b] < OWord(table, table.LeafSize)
                            THEN table.AllocSizes[b] ELSE OWord(table, table.LeafSize)]
            /\ pc' = IF table.AllocSizes[b] = TERMINATOR THEN "exit" ELSE pc
    BY DEF NextSize, IsFit
  <1>3. table.AllocSizes[b] \in Nat
    BY <1>1, <1>2, TablesAssumption
  <1>4. /\ OWord(table, Index) \in Nat /\ IWord(table, Index) \in Nat
        /\ OWord(table, table.LeafSize) \in Nat
        /\ OWord(table, Index) <= OWord(table, table.LeafSize)
    <2>1. Index \in Nat /\ table.LeafSize \in Nat /\ Index <= table.LeafSize
      BY <1>1
    <2>2. \A n, m \in Nat :
            /\ OWord(table, n) \in Nat /\ IWord(table, n) \in Nat
            /\ n <= m => OWord(table, n) <= OWord(table, m)
      BY <1>1, LeafWordsGrow
    <2> QED
      BY <2>1, <2>2
  <1>5. /\ Offset' = [Offset EXCEPT ![Index] = IWord(table, Index)]
        /\ Index' = Index + 1 /\ table' = table /\ LastWords' = LastWords /\ pc = "sizes"
    BY DEF NextSize
  <1>6. TypeInv'
    BY <1>1, <1>2, <1>3, <1>4, <1>5 DEF IInv, TypeInv
  <1>7. Words'[Index] >= OWord(table, Index)
    BY <1>1, <1>2, <1>3, <1>4 DEF IInv, TypeInv
  <1>8. SizesInv'
    <2>1. Words'[table.LeafSize + 1] = 0
      BY <1>1, <1>2, <1>5 DEF IInv, TypeInv, SizesInv
    <2>2. \A n \in 1..Index : OWord(table, n) <= Words'[n] /\ Offset'[n] = IWord(table, n)
      BY <1>1, <1>2, <1>5, <1>7 DEF IInv, TypeInv, SizesInv
    <2>3. SizesInv' <=> (pc' = "sizes" =>
                /\ Index + 1 > 0 /\ Words'[table.LeafSize + 1] = 0 /\ LastWords = TERMINATOR
                /\ \A n \in 1..((Index + 1) - 1) :
                        OWord(table, n) <= Words'[n] /\ Offset'[n] = IWord(table, n))
      BY <1>5 DEF SizesInv, OWord, IWord
    <2> QED
      BY <1>1, <1>5, <2>1, <2>2, <2>3 DEF IInv, SizesInv
  <1>9. GroupsInv'
    BY <1>2, <1>5 DEF GroupsInv
  <1> QED
    BY <1>6, <1>8, <1>9 DEF IInv

LEMMA LastSizeKeeps ==
    ASSUME IInv, LastSize
    PROVE  IInv'
  <1>1. table \in Tables /\ table.LeafSize \in Nat \ {0} /\ Index = table.LeafSize
    BY TablesAssumption DEF IInv, TypeInv, LastSize
  <1>2. OWord(table, Index) \in Nat /\ IWord(table, Index) \in Nat
    BY <1>1, LeafWordsGrow
  <1>3. /\ Words' = [Words EXCEPT ![Index] = OWord(table, Index)]
        /\ Offset' = [Offset EXCEPT ![Index] = IWord(table, Index)]
        /\ pc = "sizes" /\ pc' = "groups"
        /\ table' = table /\ Index' = Index /\ LastWords' = LastWords
    BY DEF LastSize
  <1>4. TypeInv'
    BY <1>1, <1>2, <1>3 DEF IInv, TypeInv
  <1>5. /\ Words'[table.LeafSize + 1] = 0 /\ Words'[table.LeafSize] = OWord(table, table.LeafSize)
        /\ \A n \in 1..table.LeafSize : OWord(table, n) <= Words'[n]
        /\ \A n \in 1..Index : Offset'[n] = IWord(table, n)
    BY <1>1, <1>2, <1>3 DEF IInv, TypeInv, SizesInv
  <1>6. LastWords = TERMINATOR /\ (Index + 1)..table.LeafSize = {}
    BY <1>1, <1>3 DEF IInv, SizesInv
  <1>7. GroupsInv'
    BY <1>1, <1>3, <1>5, <1>6 DEF GroupsInv, OWord, IWord
  <1> QED
    BY <1>3, <1>4, <1>7 DEF IInv, SizesInv

(***************************************************************************)
(* A leaf that takes the value area of the one above it has room for it,   *)
(* and room enough before it; one of the same words always takes it.       *)
(***************************************************************************)
LEMMA GroupKeeps ==
    ASSUME IInv, Group
    PROVE  IInv'
  <1>1. /\ table \in Tables /\ table.LeafSize \in Nat \ {0} /\ Index \in 1..table.LeafSize
        /\ Words \in [0..(table.LeafSize + 1) -> Nat] /\ Offset \in [0..table.LeafSize -> Nat]
        /\ LastWords \in Nat
    BY TablesAssumption DEF IInv, TypeInv, Group
  <1>2. /\ \A n \in Nat : /\ OWord(table, n) \in Nat /\ IWord(table, n) \in Nat
                          /\ table.ValueBytes # 0 => OWord(table, n) = IWord(table, n) + n
        /\ \A n, m \in Nat : n <= m => IWord(table, n) <= IWord(table, m)
        /\ OWord(table, table.LeafSize) < TERMINATOR
    BY <1>1, LeafWordsGrow, SizesAssumption
  <1>3. /\ Words[table.LeafSize + 1] = 0 /\ Words[table.LeafSize] = OWord(table, table.LeafSize)
        /\ \A n \in 1..table.LeafSize : OWord(table, n) <= Words[n]
        /\ \A n \in 1..Index : Offset[n] = IWord(table, n)
        /\ LastWords = IF Index = table.LeafSize THEN TERMINATOR ELSE Offset[Index + 1]
        /\ \A n \in (Index + 1)..table.LeafSize : Settled(n)
    BY DEF IInv, GroupsInv, Group
  <1>4. /\ Index' = Index - 1 /\ pc = "groups" /\ pc' = "groups" /\ table' = table
        /\ Words' = Words
    BY DEF Group
  <1>5. \/ LastWords > Words[Index] - Index /\ LastWords' = Offset[Index] /\ Offset' = Offset
        \/ /\ LastWords <= Words[Index] - Index /\ LastWords' = LastWords
           /\ Offset' = [Offset EXCEPT ![Index] = LastWords]
    BY <1>1 DEF Group
  <1>6. TypeInv'
    BY <1>1, <1>4, <1>5 DEF IInv, TypeInv
  <1>7. /\ Offset' \in [0..table.LeafSize -> Nat] /\ LastWords' = Offset'[Index]
        /\ \A n \in 0..table.LeafSize : n # Index => Offset'[n] = Offset[n]
    BY <1>1, <1>5
  <1>8. Index < table.LeafSize =>
            /\ LastWords = Offset[Index + 1] /\ IWord(table, Index + 1) <= Offset[Index + 1]
            /\ table.ValueBytes # 0 => Offset[Index + 1] + (Index + 1) <= Words[Index + 1]
    BY <1>1, <1>3 DEF Settled
  <1>9. ASSUME Index = table.LeafSize
        PROVE  LastWords > Words[Index] - Index
    <2>1. Words[Index] = OWord(table, table.LeafSize) /\ LastWords = 999
      BY <1>3, <1>9 DEF TERMINATOR
    <2>2. OWord(table, table.LeafSize) \in Nat /\ OWord(table, table.LeafSize) < 999
      BY <1>1, <1>2 DEF TERMINATOR
    <2> QED
      BY <1>1, <2>1, <2>2
  <1> DEFINE SettledNext(n) ==
                /\ IWord(table, n) <= Offset'[n]
                /\ table.ValueBytes # 0 => Offset'[n] + n <= Words[n]
                /\ table.ValueBytes # 0 /\ n < table.LeafSize /\ Words[n] = Words[n + 1] =>
                      Offset'[n] = Offset'[n + 1]
  <1>10. SettledNext(Index)
    <2>1. CASE LastWords > Words[Index] - Index /\ Offset' = Offset
      <3>1. Offset'[Index] = IWord(table, Index) /\ OWord(table, Index) <= Words[Index]
        BY <1>1, <1>3, <2>1
      <3>2. table.ValueBytes # 0 => Offset'[Index] + Index <= Words[Index]
        <4>1. /\ OWord(table, Index) \in Nat /\ IWord(table, Index) \in Nat
              /\ table.ValueBytes # 0 => OWord(table, Index) = IWord(table, Index) + Index
          <5>1. Index \in Nat
            BY <1>1
          <5> QED
            BY <1>2, <5>1
        <4> QED
          BY <1>1, <3>1, <4>1
      <3>3. table.ValueBytes # 0 /\ Index < table.LeafSize => Words[Index] # Words[Index + 1]
        BY <1>1, <1>8, <2>1
      <3>4. IWord(table, Index) <= Offset'[Index]
        BY <1>1, <1>2, <3>1
      <3> QED
        BY <3>2, <3>3, <3>4
    <2>2. CASE /\ LastWords <= Words[Index] - Index
               /\ Offset' = [Offset EXCEPT ![Index] = LastWords]
      <3>1. Index < table.LeafSize
        BY <1>1, <1>9, <2>2
      <3>2. Offset'[Index] = Offset[Index + 1] /\ Offset'[Index + 1] = Offset[Index + 1]
        BY <1>1, <1>8, <2>2, <3>1
      <3>3. IWord(table, Index) <= IWord(table, Index + 1)
        BY <1>1, <1>2
      <3>4. IWord(table, Index) <= Offset'[Index]
        <4>1. IWord(table, Index + 1) <= Offset'[Index]
          BY <1>8, <3>1, <3>2
        <4>2. IWord(table, Index) \in Nat /\ IWord(table, Index + 1) \in Nat
          <5>1. Index \in Nat /\ Index + 1 \in Nat
            BY <1>1
          <5> QED
            BY <1>2, <5>1
        <4>3. Offset'[Index] \in Nat
          BY <1>1, <1>7
        <4> QED
          BY <3>3, <4>1, <4>2, <4>3
      <3>5. Offset'[Index] + Index <= Words[Index]
        BY <1>1, <2>2
      <3> QED
        BY <3>2, <3>4, <3>5
    <2> QED
      BY <1>5, <2>1, <2>2
  <1>11. \A n \in (Index + 1)..table.LeafSize : SettledNext(n)
    BY <1>1, <1>3, <1>7 DEF Settled
  <1>12. \A n \in Index..table.LeafSize : Settled(n)'
    <2>1. \A n \in Index..table.LeafSize : SettledNext(n)
      BY <1>1, <1>10, <1>11
    <2> QED
      BY <1>4, <2>1 DEF Settled, IWord
  <1>13. GroupsInv'
    <2>1. \A n \in 1..(Index - 1) : Offset'[n] = IWord(table, n)
      BY <1>1, <1>3, <1>7
    <2>2. Index' # table'.LeafSize /\ Index' + 1 = Index
      BY <1>1, <1>4
    <2> QED
      BY <1>1, <1>3, <1>4, <1>7, <1>12, <2>1, <2>2 DEF GroupsInv, OWord, IWord
  <1> QED
    BY <1>4, <1>6, <1>13 DEF IInv, SizesInv

LEMMA IInvNext == IInv /\ [GenTable]_vars => IInv'
  <1> SUFFICES ASSUME IInv, [GenTable]_vars PROVE IInv'
    OBVIOUS
  <1>1. CASE NextSize
    BY <1>1, NextSizeKeeps
  <1>2. CASE LastSize
    BY <1>2, LastSizeKeeps
  <1>3. CASE Group
    BY <1>3, GroupKeeps
  <1>4. CASE Written
    BY <1>4 DEF IInv, TypeInv, SizesInv, GroupsInv, Settled, OWord, IWord, Written
  <1>5. CASE UNCHANGED vars
    BY <1>5 DEF IInv, TypeInv, SizesInv, GroupsInv, Settled, OWord, IWord, vars
  <1> QED
    BY <1>1, <1>2, <1>3, <1>4, <1>5 DEF GenTable

-----------------------------------------------------------------------------
(* What the tables are good for *)

LEMMA FitsFromInv == IInv => ObjectFits
  <1> SUFFICES ASSUME IInv, pc = "done", NEW n \in 1..table.LeafSize
               PROVE  LET keys == table.IndexBytes * n + BPW * table.OffsetWords
                      IN  /\ keys + table.ValueBytes * n <= BPW * Words[n]
                          /\ table.ValueBytes # 0 =>
                                keys <= BPW * Offset[n] /\ Offset[n] + n <= Words[n]
    BY DEF ObjectFits
  <1>1. table \in Tables /\ table.LeafSize \in Nat /\ n \in Nat /\ n <= n
        /\ Words[n] \in Nat /\ Offset[n] \in Nat
    BY TablesAssumption DEF IInv, TypeInv
  <1>2. /\ OWord(table, n) <= Words[n] /\ IWord(table, n) <= Offset[n]
        /\ table.ValueBytes # 0 => Offset[n] + n <= Words[n]
    BY <1>1 DEF IInv, GroupsInv, Settled
  <1> DEFINE keys == table.IndexBytes * n + BPW * table.OffsetWords
             all == keys + table.ValueBytes * n
  <1>3. /\ OWord(table, n) \in Nat /\ IWord(table, n) \in Nat
        /\ keys <= BPW * IWord(table, n) /\ all <= BPW * OWord(table, n)
    BY <1>1, LeafWordsHold
  <1>4. keys \in Nat /\ all \in Nat
    <2>1. table.IndexBytes \in Nat /\ table.ValueBytes \in Nat /\ table.OffsetWords \in Nat
      BY <1>1, TablesAssumption DEF BPW
    <2> QED
      BY <1>1, <2>1, ProductGrows DEF BPW
  <1> HIDE DEF keys, all
  <1>5. keys <= BPW * Offset[n] /\ all <= BPW * Words[n]
    BY <1>1, <1>2, <1>3, <1>4 DEF BPW
  <1> QED
    BY <1>2, <1>5 DEF keys, all

(***************************************************************************)
(* Every leaf of every build holds its keys and values: no write to one of *)
(* them leaves the words the table gave it.                                *)
(***************************************************************************)
THEOREM TablesFit == Spec => []ObjectFits
  <1>1. Init => IInv
    BY IInvInit
  <1>2. IInv /\ [GenTable]_vars => IInv'
    BY IInvNext
  <1>3. IInv => ObjectFits
    BY FitsFromInv
  <1> QED
    BY <1>1, <1>2, <1>3, PTL DEF Spec

LEMMA GrowsFromInv == IInv => GrowsInPlace
  <1> SUFFICES ASSUME IInv, pc = "done", NEW n \in 1..table.LeafSize, Words[n] = Words[n + 1]
               PROVE  n < table.LeafSize /\ (table.ValueBytes # 0 => Offset[n] = Offset[n + 1])
    BY DEF GrowsInPlace
  <1>1. table \in Tables /\ table.LeafSize \in Nat \ {0} /\ n \in Nat
    BY TablesAssumption DEF IInv, TypeInv
  <1>2. OWord(table, table.LeafSize) \in Nat /\ OWord(table, table.LeafSize) > 0
    <2>1. \A m \in Nat : OWord(table, m) \in Nat /\ (m > 0 => OWord(table, m) > 0)
      BY <1>1, LeafWordsGrow
    <2> QED
      BY <1>1, <2>1
  <1>3. n # table.LeafSize
    BY <1>2 DEF IInv, GroupsInv
  <1>4. Settled(n)
    BY <1>1 DEF IInv, GroupsInv
  <1> QED
    BY <1>1, <1>3, <1>4 DEF Settled

(***************************************************************************)
(* A leaf that grows in place finds its values where they were, and a full *)
(* leaf never grows in place.                                              *)
(***************************************************************************)
THEOREM TablesGrow == Spec => []GrowsInPlace
  <1>1. Init => IInv
    BY IInvInit
  <1>2. IInv /\ [GenTable]_vars => IInv'
    BY IInvNext
  <1>3. IInv => GrowsInPlace
    BY GrowsFromInv
  <1> QED
    BY <1>1, <1>2, <1>3, PTL DEF Spec

=============================================================================
