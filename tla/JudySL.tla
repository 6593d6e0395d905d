------------------------------- MODULE JudySL -------------------------------
(***************************************************************************)
(* A map of strings, made of JudyL arrays over the words of the strings.   *)
(* JudySLIns is a loop, modelled one part of its body at a time, because   *)
(* every JudyLIns and every malloc in it may fail and leave what the parts *)
(* before it have done.  The arrays are clients' arrays: a JudyLIns either *)
(* happens or fails and changes nothing (JudyMap).                         *)
(*                                                                         *)
(* A node is known by its path, the characters above it, a whole number of *)
(* words.  At a path there is nothing, a shortcut leaf with the rest of    *)
(* the one string below, or an array from words to values or to nodes.     *)
(***************************************************************************)
EXTENDS Integers, Sequences, FiniteSets, FiniteSetsExt, Functions

CONSTANTS
    WORDSIZE,   \* characters in a word
    Strings,    \* the strings the callers use, sequences of positive numbers
    Value,      \* the words they store, 0 among them
    Calls,      \* the calls made besides insertion: "Del", "Free", "Store"
    MaxFail,    \* how many allocations fail in one behaviour
    NoLeaf      \* no shortcut leaf is being carried down

ASSUME StringAssumption ==
    /\ WORDSIZE \in Nat \ {0}
    /\ \A s \in Strings : s \in Seq(Nat \ {0})
    /\ Calls \subseteq {"Del", "Free", "Store"}
    /\ MaxFail \in Nat
    /\ 0 \in Value
    /\ NoLeaf \notin [rest : Seq(Nat \ {0}), value : Value]

VARIABLES
    leaf,       \* the shortcut leaves, by path
    array,      \* the JudyL arrays, by path: words to values, 0 above a node
    pc, key,
    at,         \* PPArray: the path of the node JudySLIns is at
    pos,        \* what remains of the key there
    Pscl,       \* the leaf carried down, with what remains of its string
    scl2,       \* and the words that it was malloc'ed with
    sclWords,   \* words of leaves malloc'ed and not freed
    reply,      \* what the last call returned
    nfail       \* allocations that failed

nodes == <<leaf, array, sclWords>>
frame == <<pc, key, at, pos, Pscl, scl2>>
vars == <<nodes, frame, reply, nfail>>

-----------------------------------------------------------------------------
(* Strings and their words.                                                *)

\* The order of strings, and of words: a string precedes what extends it.
StrLess(s, t) ==
    \E i \in 0..Len(s) :
        /\ i < Len(t)
        /\ \A j \in 1..i : s[j] = t[j]
        /\ i = Len(s) \/ s[i + 1] < t[i + 1]

\* The next word of a string, without the zeros that fill it up.
Word(s) == SubSeq(s, 1, IF Len(s) < WORDSIZE THEN Len(s) ELSE WORDSIZE)

\* The null character is in this word, so the string ends here.
LASTWORD_BY_VALUE(w) == Len(w) < WORDSIZE

\* The bytes after the word, those of a string that does not end in it.
Rest(s) == SubSeq(s, WORDSIZE + 1, Len(s))

\* The words of a leaf: a value, then the string and its null character.
SCLSIZE(s) == ((Len(s) + 1) + WORDSIZE + WORDSIZE - 1) \div WORDSIZE

With(f, x, y) == [z \in DOMAIN f \cup {x} |-> IF z = x THEN y ELSE f[z]]
Without(f, x) == Restrict(f, DOMAIN f \ {x})

Prefixes(s) == {SubSeq(s, 1, n * WORDSIZE) : n \in 0..(Len(s) \div WORDSIZE)}
Path == {<<>>} \cup UNION {Prefixes(s) : s \in Strings}
Tails(p) == {SubSeq(s, Len(p) + 1, Len(s)) : s \in {t \in Strings : p \in Prefixes(t)}}

-----------------------------------------------------------------------------
(* The tree.                                                               *)

IsNull(p) == p \notin DOMAIN leaf \cup DOMAIN array

WordsAt(p) == IF p \in DOMAIN array THEN DOMAIN array[p] ELSE {}

(***************************************************************************)
(* A walk from the root comes to p: the words of p are, one after another, *)
(* in the arrays a on the way.                                             *)
(***************************************************************************)
Linked(a, p) ==
    \A m \in 0..(Len(p) - WORDSIZE) :
        LET q == SubSeq(p, 1, m)
        IN  m % WORDSIZE = 0 =>
                q \in DOMAIN a /\ SubSeq(p, m + 1, m + WORDSIZE) \in DOMAIN a[q]

\* The strings that are in the tree, and the cells that hold their values.
InLeaves == [s \in {p \o leaf[p].rest : p \in DOMAIN leaf} |->
                leaf[CHOOSE p \in DOMAIN leaf : p \o leaf[p].rest = s].value]

LastWords == UNION {{<<p, w>> : w \in {v \in WordsAt(p) : LASTWORD_BY_VALUE(v)}} :
                        p \in DOMAIN array}

Content ==
    [s \in DOMAIN InLeaves \cup {c[1] \o c[2] : c \in LastWords} |->
        IF s \in DOMAIN InLeaves THEN InLeaves[s]
        ELSE LET c == CHOOSE c \in LastWords : c[1] \o c[2] = s IN array[c[1]][c[2]]]

\* Words above no node: what a failure has left.
DeadEnds ==
    {c \in UNION {{p} \X WordsAt(p) : p \in DOMAIN array} :
        ~LASTWORD_BY_VALUE(c[2]) /\ IsNull(c[1] \o c[2])}

TypeOK ==
    /\ DOMAIN leaf \subseteq Path
    /\ DOMAIN array \subseteq Path
    /\ \A p \in DOMAIN leaf : leaf[p].rest \in Tails(p) /\ leaf[p].value \in Value
    /\ \A p \in DOMAIN array : \A w \in DOMAIN array[p] : array[p][w] \in Value
    /\ pc \in {"idle", "top", "word", "next", "exited"}
    /\ pc \in {"top", "word", "next"} => key \in Strings /\ pos \in Tails(at)
    /\ at \in Path
    /\ Pscl # NoLeaf => Pscl.rest \in Tails(at) /\ Pscl.value \in Value
    /\ scl2 \in Nat /\ sclWords \in Nat /\ nfail \in 0..MaxFail

Init ==
    /\ leaf = [p \in {} |-> 0] /\ array = [p \in {} |-> 0]
    /\ pc = "idle" /\ key = <<>> /\ at = <<>> /\ pos = <<>>
    /\ Pscl = NoLeaf /\ scl2 = 0 /\ sclWords = 0
    /\ reply = [op |-> "none", code |-> "none"]
    /\ nfail = 0

\* PPSCLVALUE_EQ, LT and GT: the cell of the leaf, if s compares so with it.
SclIf(cond, p) == IF cond THEN {p \o leaf[p].rest} ELSE {}

\* Faulty: compares the next word only.
PPSCLVALUE_EQ_Word(s, p) == SclIf(Word(s) = Word(leaf[p].rest), p)
PPSCLVALUE_EQ(s, p) == SclIf(s = leaf[p].rest, p)

\* Faulty: answers the string it was given.
PPSCLVALUE_LE(s, p) == SclIf(~StrLess(leaf[p].rest, s), p)
PPSCLVALUE_LT(s, p) == SclIf(StrLess(s, leaf[p].rest), p)
PPSCLVALUE_GT(s, p) == SclIf(StrLess(leaf[p].rest, s), p)

-----------------------------------------------------------------------------
(* JudySLIns.                                                              *)

\* What a call returns; its locals are gone.
Answer(r) ==
    /\ reply' = r
    /\ pc' = "idle" /\ key' = <<>> /\ at' = <<>> /\ pos' = <<>>
    /\ Pscl' = NoLeaf /\ scl2' = 0

\* The cell of string s, whose address the call returns.
Returns(code, s) ==
    /\ Answer([op |-> "Ins", key |-> key, code |-> code, at |-> s])
    /\ UNCHANGED nfail

\* A JudyMalloc or a JudyLIns fails; a leaf that was carried is forgotten.
Fails ==
    /\ nfail < MaxFail
    /\ nfail' = nfail + 1
    /\ Answer([op |-> "Ins", key |-> key, code |-> "nomem"])

Ins(k) ==
    /\ pc = "idle"
    /\ pc' = "top" /\ key' = k /\ at' = <<>> /\ pos' = k
    /\ UNCHANGED <<nodes, Pscl, scl2, reply, nfail>>

\* Nothing here and nothing carried: the rest of the key in one leaf.
AppendSCL ==
    /\ pc = "top" /\ IsNull(at) /\ Pscl = NoLeaf
    /\ \/ /\ leaf' = With(leaf, at, [rest |-> pos, value |-> 0])
          /\ sclWords' = sclWords + SCLSIZE(pos)
          /\ Returns("new", key)
          /\ UNCHANGED array
       \/ Fails /\ UNCHANGED nodes

FoundSCL ==
    /\ pc = "top" /\ at \in DOMAIN leaf /\ leaf[at].rest = pos
    /\ Returns("old", at \o pos)
    /\ UNCHANGED nodes

\* Faulty: the pointer to the leaf stays.
TakeSCLKept ==
    /\ pc = "top" /\ at \in DOMAIN leaf /\ leaf[at].rest # pos
    /\ Pscl' = leaf[at]
    /\ scl2' = SCLSIZE(leaf[at].rest)
    /\ pc' = "word"
    /\ UNCHANGED <<nodes, key, at, pos, reply, nfail>>

\* The leaf of another string is disconnected, to be carried down.
TakeSCL ==
    /\ pc = "top" /\ at \in DOMAIN leaf /\ leaf[at].rest # pos
    /\ Pscl' = leaf[at]
    /\ scl2' = SCLSIZE(leaf[at].rest)
    /\ leaf' = Without(leaf, at)
    /\ pc' = "word"
    /\ UNCHANGED <<array, sclWords, key, at, pos, reply, nfail>>

\* Faulty: goes round the loop with the same node.
PassNodeAgain ==
    /\ pc = "top" /\ at \notin DOMAIN leaf
    /\ IsNull(at) => Pscl # NoLeaf
    /\ UNCHANGED vars

PassNode ==
    /\ pc = "top" /\ at \notin DOMAIN leaf
    /\ IsNull(at) => Pscl # NoLeaf
    /\ pc' = "word"
    /\ UNCHANGED <<nodes, key, at, pos, Pscl, scl2, reply, nfail>>

\* The array at the path, after JudyLIns of the word there.
InsertWord(w) ==
    With(array, at, IF w \in WordsAt(at) THEN array[at]
                    ELSE With(IF at \in DOMAIN array THEN array[at] ELSE <<>>, w, 0))

SameWord ==
    /\ pc = "word"
    /\ Pscl # NoLeaf => Word(Pscl.rest) = Word(pos)
    /\ pc' = "next"
    /\ UNCHANGED <<nodes, key, at, pos, Pscl, scl2, reply, nfail>>

\* The old string with the word v, and its leaf freed as n words.
Plug(v, n) ==
    LET w == Word(Pscl.rest)
    IN  /\ pc = "word" /\ Pscl # NoLeaf /\ w # Word(pos)
        /\ \/ /\ LASTWORD_BY_VALUE(w)
              /\ array' = With(array, at, With(InsertWord(w)[at], w, v))
              /\ sclWords' = sclWords - n
              /\ UNCHANGED leaf
           \/ /\ ~LASTWORD_BY_VALUE(w)
              /\ array' = InsertWord(w)
              /\ leaf' = With(leaf, at \o w, [rest |-> Rest(Pscl.rest), value |-> v])
              /\ sclWords' = sclWords + SCLSIZE(Rest(Pscl.rest)) - n
        /\ Pscl' = NoLeaf
        /\ pc' = "next"
        /\ UNCHANGED <<key, at, pos, scl2, reply, nfail>>

\* Faulty: the value stays in the old leaf.
PlugOldZero == Plug(0, scl2)

\* Faulty: the size to free is that of what remains of the string.
PlugOldSized == Plug(Pscl.value, SCLSIZE(Pscl.rest))

(***************************************************************************)
(* The strings part here: the old one goes into a new array, with its      *)
(* value, or with a new leaf below it if it is longer.  The old leaf is    *)
(* freed only then.                                                        *)
(***************************************************************************)
PlugOld == Plug(Pscl.value, scl2)

\* JudyLIns fails, or the leaf to be put below the word just inserted.
PlugFails ==
    LET w == Word(Pscl.rest)
    IN  /\ pc = "word" /\ Pscl # NoLeaf /\ w # Word(pos)
        /\ \/ UNCHANGED array
           \/ ~LASTWORD_BY_VALUE(w) /\ array' = InsertWord(w)
        /\ Fails
        /\ UNCHANGED <<leaf, sclWords>>

\* JudyLIns of the next word of the key, and on to node p with string t left.
InsWordTo(p, t) ==
    LET w == Word(pos)
    IN  /\ pc = "next"
        /\ \/ /\ array' = InsertWord(w)
              /\ \/ /\ LASTWORD_BY_VALUE(w)
                    /\ Returns(IF w \in WordsAt(at) THEN "old" ELSE "new", at \o w)
                 \/ /\ ~LASTWORD_BY_VALUE(w)
                    /\ pc' = "top" /\ at' = p /\ pos' = t
                    /\ Pscl' = IF Pscl = NoLeaf THEN NoLeaf ELSE [Pscl EXCEPT !.rest = Rest(@)]
                    /\ UNCHANGED <<key, scl2, reply, nfail>>
           \/ w \notin WordsAt(at) /\ Fails /\ UNCHANGED array
        /\ UNCHANGED <<leaf, sclWords>>

\* Faulty: the string is not advanced.
InsWordStays == InsWordTo(at \o Word(pos), pos)

\* The array below the word comes next.
InsWord == InsWordTo(at \o Word(pos), Rest(pos))

Insertion ==
    AppendSCL \/ FoundSCL \/ TakeSCL \/ PassNode \/ SameWord \/ PlugOld \/ PlugFails \/ InsWord

-----------------------------------------------------------------------------
(* The other calls.                                                        *)

\* What is left of a string at a path of it.
Beyond(p, s) == SubSeq(s, Len(p) + 1, Len(s))

\* The nodes that the walk down a string comes to: it goes no further than a leaf.
Visited(s) ==
    {p \in Prefixes(s) : Linked(array, p) /\ \A q \in Prefixes(p) : q \in DOMAIN leaf => q = p}

\* The last word of the string is in the array it comes to.
EndsAt(s, p) ==
    LET w == Word(Beyond(p, s))
    IN  p \notin DOMAIN leaf /\ LASTWORD_BY_VALUE(w) /\ w \in WordsAt(p)

\* The cell found, by the string it belongs to.
JudySLGet(s) ==
    UNION {IF p \in DOMAIN leaf THEN PPSCLVALUE_EQ(Beyond(p, s), p)
           ELSE IF EndsAt(s, p) THEN {p \o Word(Beyond(p, s))} ELSE {} : p \in Visited(s)}

\* The caller writes through the pointer that the last insertion returned.
Store(v) ==
    /\ "Store" \in Calls
    /\ pc = "idle" /\ reply.op = "Ins" /\ reply.code \in {"new", "old"}
    /\ leaf' = [p \in DOMAIN leaf |->
                  IF p \o leaf[p].rest = reply.at THEN [leaf[p] EXCEPT !.value = v] ELSE leaf[p]]
    /\ array' = [p \in DOMAIN array |-> [w \in DOMAIN array[p] |->
                  IF LASTWORD_BY_VALUE(w) /\ p \o w = reply.at THEN v ELSE array[p][w]]]
    /\ UNCHANGED <<sclWords, frame, reply, nfail>>

(***************************************************************************)
(* What becomes of a deletion.  A leaf is freed; a word in an array that   *)
(* is there, or that is above nothing any more, needs JudyLDel, which ends *)
(* the process (JudyArray).                                                *)
(***************************************************************************)
JudySLDelSub(s) ==
    LET found == {p \in Visited(s) :
                    IF p \in DOMAIN leaf THEN Beyond(p, s) = leaf[p].rest ELSE EndsAt(s, p)}
    IN  IF found = {} THEN "absent" ELSE IF <<>> \in DOMAIN leaf THEN "done" ELSE "exits"

\* A leaf freed on the way to the end of the process goes with it.
JudySLDel(k) ==
    /\ "Del" \in Calls
    /\ pc = "idle"
    /\ \/ /\ JudySLDelSub(k) = "absent"
          /\ Answer([op |-> "Del", key |-> k, code |-> "absent"])
          /\ UNCHANGED <<nodes, nfail>>
       \/ /\ JudySLDelSub(k) = "done"
          /\ leaf' = Without(leaf, <<>>)
          /\ sclWords' = sclWords - SCLSIZE(k)
          /\ Answer([op |-> "Del", key |-> k, code |-> "done"])
          /\ UNCHANGED <<array, nfail>>
       \/ /\ JudySLDelSub(k) = "exits"
          /\ pc' = "exited"
          /\ UNCHANGED <<nodes, key, at, pos, Pscl, scl2, reply, nfail>>

FreeAll(reached) ==
    /\ "Free" \in Calls
    /\ pc = "idle"
    /\ leaf' = Restrict(leaf, DOMAIN leaf \ reached)
    /\ array' = Restrict(array, DOMAIN array \ reached)
    /\ sclWords' = sclWords -
          SumFunction([p \in DOMAIN leaf \cap reached |-> SCLSIZE(leaf[p].rest)])
    /\ Answer([op |-> "Free", code |-> "ok"])
    /\ UNCHANGED nfail

\* Faulty: the arrays below are not walked.
JudySLFreeArrayTop == FreeAll({<<>>})

\* Every array below the root, and every leaf.
JudySLFreeArray == FreeAll({p \in DOMAIN leaf \cup DOMAIN array : Linked(array, p)})

Next ==
    \/ \E k \in Strings : Ins(k) \/ JudySLDel(k)
    \/ \E v \in Value : Store(v)
    \/ Insertion
    \/ JudySLFreeArray

Spec == Init /\ [][Next]_vars

\* A call that has begun runs to its end: it waits for nobody.
FairSpec == Spec /\ WF_vars(Insertion)

-----------------------------------------------------------------------------
(* The ordered queries.                                                    *)

\* JudyLNext, JudyLPrev, JudyLFirst, JudyLLast of the array at a path.
JudyLNext(p, w) == {v \in WordsAt(p) : StrLess(w, v) /\ \A u \in WordsAt(p) : StrLess(w, u) => ~StrLess(u, v)}
JudyLPrev(p, w) == {v \in WordsAt(p) : StrLess(v, w) /\ \A u \in WordsAt(p) : StrLess(u, w) => ~StrLess(v, u)}
JudyLFirst(p) == {v \in WordsAt(p) : \A u \in WordsAt(p) : ~StrLess(u, v)}
JudyLLast(p) == {v \in WordsAt(p) : \A u \in WordsAt(p) : ~StrLess(v, u)}

AnyTail == {<<>>} \cup UNION {Tails(p) : p \in Path}

\* A path, what is left of a string there, and orig: it is the caller's
\* string, which is itself excluded.
Searches == Path \X AnyTail \X BOOLEAN

NextSub[c \in Searches] ==
    LET p == c[1]
        s == c[2]
        orig == c[3]
        w == Word(s)
        below == IF orig /\ ~LASTWORD_BY_VALUE(w) /\ w \in WordsAt(p)
                 THEN NextSub[<<p \o w, Rest(s), TRUE>>] ELSE {}
        found == IF orig THEN JudyLNext(p, w) ELSE JudyLFirst(p)
    IN  IF p \in DOMAIN leaf
        THEN IF orig THEN PPSCLVALUE_LT(s, p) ELSE {p \o leaf[p].rest}
        ELSE IF below # {} THEN below
        ELSE UNION {IF LASTWORD_BY_VALUE(v) THEN {p \o v} ELSE NextSub[<<p \o v, <<>>, FALSE>>] : v \in found}

PrevSub[c \in Searches] ==
    LET p == c[1]
        s == c[2]
        orig == c[3]
        w == Word(s)
        below == IF orig /\ ~LASTWORD_BY_VALUE(w) /\ w \in WordsAt(p)
                 THEN PrevSub[<<p \o w, Rest(s), TRUE>>] ELSE {}
        found == IF orig THEN JudyLPrev(p, w) ELSE JudyLLast(p)
    IN  IF p \in DOMAIN leaf
        THEN IF orig THEN PPSCLVALUE_GT(s, p) ELSE {p \o leaf[p].rest}
        ELSE IF below # {} THEN below
        ELSE UNION {IF LASTWORD_BY_VALUE(v) THEN {p \o v} ELSE PrevSub[<<p \o v, <<>>, FALSE>>] : v \in found}

JudySLNext(s) == NextSub[<<<<>>, s, TRUE>>]
JudySLPrev(s) == PrevSub[<<<<>>, s, TRUE>>]
JudySLFirst(s) == IF JudySLGet(s) # {} THEN JudySLGet(s) ELSE JudySLNext(s)
JudySLLast(s) == IF JudySLGet(s) # {} THEN JudySLGet(s) ELSE JudySLPrev(s)

-----------------------------------------------------------------------------
(* Properties.                                                             *)

(***************************************************************************)
(* The assertions of JudySLIns: a leaf is never met while another is       *)
(* carried, a carried leaf parts from the key where nothing is yet, and    *)
(* has parted from it by the end of the key.                               *)
(***************************************************************************)
AssertsHold ==
    Pscl # NoLeaf =>
        /\ pc = "top" => at \notin DOMAIN leaf
        /\ pc = "word" /\ Word(Pscl.rest) # Word(pos) => IsNull(at)
        /\ pc = "next" => ~LASTWORD_BY_VALUE(Word(pos))

(***************************************************************************)
(* Every node can be reached from the root, no array is empty, and a path  *)
(* holds a leaf or an array and not both: FreeArray finds everything.      *)
(***************************************************************************)
WellFormed ==
    /\ \A p \in DOMAIN leaf \cup DOMAIN array : Linked(array, p)
    /\ DOMAIN leaf \cap DOMAIN array = {}
    /\ \A p \in DOMAIN array : array[p] # <<>>

(***************************************************************************)
(* As long as no call ran out of memory, the leaves malloc'ed and not      *)
(* freed are those of the tree and the one being carried, each with the    *)
(* size that it was malloc'ed with.                                        *)
(***************************************************************************)
HeapExact ==
    nfail = 0 =>
        sclWords = SumFunction([p \in DOMAIN leaf |-> SCLSIZE(leaf[p].rest)])
                   + (IF Pscl # NoLeaf THEN scl2 ELSE 0)

\* JudySLGet finds exactly the strings in the tree, past dead ends too.
GetAgrees == pc = "idle" => \A s \in Strings : JudySLGet(s) = {s} \cap DOMAIN Content

\* The nearest strings of C beyond s, said of sets.
After(C, s) == {t \in C : StrLess(s, t) /\ \A u \in C : StrLess(s, u) => ~StrLess(u, t)}
Before(C, s) == {t \in C : StrLess(t, s) /\ \A u \in C : StrLess(u, s) => ~StrLess(t, u)}

(***************************************************************************)
(* JudySLFirst, Last, Next and Prev answer the nearest string and its      *)
(* cell, from any string.                                                  *)
(***************************************************************************)
NeighboursExact ==
    pc = "idle" =>
        \A s \in Strings :
            /\ JudySLNext(s) = After(DOMAIN Content, s)
            /\ JudySLPrev(s) = Before(DOMAIN Content, s)
            /\ JudySLFirst(s) = After(DOMAIN Content, s) \/ s \in DOMAIN Content
            /\ JudySLLast(s) = Before(DOMAIN Content, s) \/ s \in DOMAIN Content

\* So they do in a tree without dead ends.
NeighboursExactAlive == DeadEnds = {} => NeighboursExact

\* What the callers have stored: the tree, and the string being carried down.
Held == IF Pscl = NoLeaf THEN Content ELSE With(Content, at \o Pscl.rest, Pscl.value)

(***************************************************************************)
(* The strings make a map: what JudyMap promises, but for the one string   *)
(* that a failed call was carrying.                                        *)
(***************************************************************************)
Map == INSTANCE JudyMap WITH
    Index <- Strings,
    JUDYL <- TRUE,
    MayRunOut <- MaxFail > 0,
    MayLose <- TRUE,
    map <- Held

MapSpec == Map!Spec

\* An insertion that has begun returns.
CallReturns == pc = "top" ~> pc = "idle"

=============================================================================
