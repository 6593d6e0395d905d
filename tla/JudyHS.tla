------------------------------- MODULE JudyHS -------------------------------
(***************************************************************************)
(* A map of byte strings of given lengths, zero bytes among them: a JudyL  *)
(* array of lengths, under each an array of hash values (for strings       *)
(* longer than a word), under each of those a tree of JudyL arrays over    *)
(* the words of the strings, cut short by leaves.  insStrJudyLTree is      *)
(* modelled a part at a time: each JudyLIns and each malloc may fail and   *)
(* leave what the parts before it have done.                               *)
(*                                                                         *)
(* A node is known by the length, the hash and the bytes above it.  All    *)
(* strings below a node have as many bytes left.                           *)
(***************************************************************************)
EXTENDS Integers, Sequences, SequencesExt, FiniteSets, Functions

CONSTANTS
    WORDSIZE,   \* bytes in a word
    HASHES,     \* hash values, 2^32 in the code
    Strings,    \* the strings the callers use, sequences of bytes
    Value,      \* the words they store, 0 among them
    Calls,      \* the calls made besides insertion: "Del", "Free", "Store"
    MaxFail,    \* how many allocations fail in one behaviour
    NoLeaf      \* no leaf is being split

ASSUME HSAssumption ==
    /\ WORDSIZE \in Nat \ {0} /\ HASHES \in Nat \ {0}
    /\ \A s \in Strings : s \in Seq(0..255)
    /\ Calls \subseteq {"Del", "Free", "Store"}
    /\ MaxFail \in Nat
    /\ 0 \in Value
    /\ NoLeaf \notin [rest : Seq(0..255), value : Value]

VARIABLES
    lengths,    \* the entries of the array of lengths
    buckets,    \* the entries of the arrays of hash values, with the length
    leaf,       \* the leaves (ls_t), by path
    array,      \* the JudyL arrays below the buckets, by path
    lsWords,    \* words of leaves malloc'ed and not freed
    pc, key,
    at,         \* PPValue: the path of the node the insertion is at
    pos,        \* String: what remains of the key there
    PPsplit,    \* the path of the array where the two strings part
    Pls,        \* the leaf being split, with what remains of its string
    FreeLen,    \* and the words that it was malloc'ed with
    reply,      \* what the last call returned
    nfail       \* allocations that failed

nodes == <<lengths, buckets, leaf, array, lsWords>>
frame == <<pc, key, at, pos, PPsplit, Pls, FreeLen>>
vars == <<nodes, frame, reply, nfail>>

-----------------------------------------------------------------------------
(* Strings, words and paths.                                               *)

JUDYHASHSTR(s) == FoldLeft(LAMBDA c, b : (c * 31 + b) % HASHES, 0, s)

\* Len > WORDSIZE: more than the last word is left.
Long(s) == Len(s) > WORDSIZE

Word(s) == SubSeq(s, 1, IF Long(s) THEN WORDSIZE ELSE Len(s))
Rest(s) == SubSeq(s, WORDSIZE + 1, Len(s))

LS_WORDLEN(n) == (n + WORDSIZE + WORDSIZE - 1) \div WORDSIZE

\* The bucket of a string; a short one has its array in the table of lengths.
Bucket(s) == <<Len(s), IF Long(s) THEN JUDYHASHSTR(s) ELSE 0, <<>>>>

Below(p, w) == <<p[1], p[2], p[3] \o w>>
LenAt(p) == p[1] - Len(p[3])
NoPath == <<0, 0, <<>>>>

\* The nodes on the way to the end of a string, and what is left of it there.
Way(s) == {<<Bucket(s)[1], Bucket(s)[2], SubSeq(s, 1, n * WORDSIZE)>> :
              n \in 0..(Len(s) \div WORDSIZE)}
Beyond(p, s) == SubSeq(s, Len(p[3]) + 1, Len(s))

Path == UNION {Way(s) : s \in Strings}

With(f, x, y) == [z \in DOMAIN f \cup {x} |-> IF z = x THEN y ELSE f[z]]
Without(f, x) == Restrict(f, DOMAIN f \ {x})

-----------------------------------------------------------------------------
(* The structure.                                                          *)

IsNull(p) == p \notin DOMAIN leaf \cup DOMAIN array

WordsAt(p) == IF p \in DOMAIN array THEN DOMAIN array[p] ELSE {}

\* The bucket above a node.
BucketOf(p) == <<p[1], p[2], <<>>>>

(***************************************************************************)
(* A walk from its bucket comes to p: the words of p are, one after        *)
(* another, in the arrays a on the way, which is as deep as the length.    *)
(***************************************************************************)
Linked(a, p) ==
    \A m \in 0..(Len(p[3]) - WORDSIZE) :
        LET q == <<p[1], p[2], SubSeq(p[3], 1, m)>>
        IN  m % WORDSIZE = 0 =>
                /\ q \in DOMAIN a /\ SubSeq(p[3], m + 1, m + WORDSIZE) \in DOMAIN a[q]
                /\ LenAt(q) > WORDSIZE

Leaves == [s \in {p[3] \o leaf[p].rest : p \in DOMAIN leaf} |->
              leaf[CHOOSE p \in DOMAIN leaf : p[3] \o leaf[p].rest = s].value]

\* The cells of the arrays at the ends of strings.
Cells == UNION {{<<p, w>> : w \in WordsAt(p)} :
                    p \in {q \in DOMAIN array : LenAt(q) <= WORDSIZE}}

Content ==
    [s \in DOMAIN Leaves \cup {c[1][3] \o c[2] : c \in Cells} |->
        IF s \in DOMAIN Leaves THEN Leaves[s]
        ELSE LET c == CHOOSE c \in Cells : c[1][3] \o c[2] = s IN array[c[1]][c[2]]]

TypeOK ==
    /\ lengths \subseteq {Len(s) : s \in Strings}
    /\ buckets \subseteq {Bucket(s) : s \in Strings}
    /\ DOMAIN leaf \subseteq Path /\ DOMAIN array \subseteq Path
    /\ \A p \in DOMAIN leaf : Len(leaf[p].rest) = LenAt(p) /\ leaf[p].value \in Value
    /\ \A p \in DOMAIN array : \A w \in DOMAIN array[p] : array[p][w] \in Value
    /\ pc \in {"idle", "length", "hash", "tree", "split", "old", "new", "exited"}
    /\ pc \in {"tree", "split", "old"} => at \in Path /\ Len(pos) = LenAt(at)
    /\ pc = "new" => PPsplit \in Path
    /\ Pls # NoLeaf => Pls.value \in Value
    /\ FreeLen \in Nat /\ lsWords \in Nat /\ nfail \in 0..MaxFail

Init ==
    /\ lengths = {} /\ buckets = {} /\ lsWords = 0
    /\ leaf = [p \in {} |-> 0] /\ array = [p \in {} |-> 0]
    /\ pc = "idle" /\ key = <<>> /\ at = NoPath /\ pos = <<>>
    /\ PPsplit = NoPath /\ Pls = NoLeaf /\ FreeLen = 0
    /\ reply = [op |-> "none", code |-> "none"]
    /\ nfail = 0

-----------------------------------------------------------------------------
(* JudyHSIns.                                                              *)

\* What a call returns; its locals are gone.
Answer(r) ==
    /\ reply' = r
    /\ pc' = "idle" /\ key' = <<>> /\ at' = NoPath /\ pos' = <<>>
    /\ PPsplit' = NoPath /\ Pls' = NoLeaf /\ FreeLen' = 0

\* The cell of string s, whose address the call returns.
Returns(code, s) ==
    /\ Answer([op |-> "Ins", key |-> key, code |-> code, at |-> s])
    /\ UNCHANGED nfail

\* A malloc or a JudyLIns fails; a leaf that was being split is forgotten.
Fails ==
    /\ nfail < MaxFail
    /\ nfail' = nfail + 1
    /\ Answer([op |-> "Ins", key |-> key, code |-> "nomem"])

\* The array at a path after JudyLIns of the word.
InsertWord(p, w) ==
    With(array, p, IF w \in WordsAt(p) THEN array[p]
                   ELSE With(IF p \in DOMAIN array THEN array[p] ELSE <<>>, w, 0))

Ins(k) ==
    /\ pc = "idle"
    /\ pc' = "length" /\ key' = k
    /\ UNCHANGED <<nodes, at, pos, PPsplit, Pls, FreeLen, reply, nfail>>

InsLength ==
    /\ pc = "length"
    /\ \/ /\ lengths' = lengths \cup {Len(key)}
          /\ pc' = "hash"
          /\ UNCHANGED <<key, at, pos, PPsplit, Pls, FreeLen, reply, nfail>>
       \/ Len(key) \notin lengths /\ Fails /\ UNCHANGED lengths
    /\ UNCHANGED <<buckets, leaf, array, lsWords>>

\* Only strings longer than a word are hashed.
InsHash ==
    /\ pc = "hash"
    /\ \/ /\ buckets' = buckets \cup (IF Long(key) THEN {Bucket(key)} ELSE {})
          /\ pc' = "tree" /\ at' = Bucket(key) /\ pos' = key
          /\ UNCHANGED <<key, PPsplit, Pls, FreeLen, reply, nfail>>
       \/ Long(key) /\ Bucket(key) \notin buckets /\ Fails /\ UNCHANGED buckets
    /\ UNCHANGED <<lengths, leaf, array, lsWords>>

\* CASE 1: nothing here, the rest of the key in one leaf.
MakeLeaf ==
    /\ pc = "tree" /\ Long(pos) /\ IsNull(at)
    /\ \/ /\ leaf' = With(leaf, at, [rest |-> pos, value |-> 0])
          /\ lsWords' = lsWords + LS_WORDLEN(Len(pos))
          /\ Returns("new", key)
       \/ Fails /\ UNCHANGED <<leaf, lsWords>>
    /\ UNCHANGED <<lengths, buckets, array>>

\* Faulty: compares one word of it.
SameWordAs(s, p) == Word(leaf[p].rest) = Word(s)

\* memcmp of the string with that of a leaf.
SameAs(s, p) == leaf[p].rest = s

\* CASE 2: a leaf, of this string,
FoundLeaf ==
    /\ pc = "tree" /\ Long(pos) /\ at \in DOMAIN leaf /\ leaf[at].rest = pos
    /\ Returns("old", at[3] \o pos)
    /\ UNCHANGED nodes

Take(rest) ==
    /\ pc = "tree" /\ Long(pos) /\ at \in DOMAIN leaf /\ leaf[at].rest # pos
    /\ Pls' = leaf[at]
    /\ FreeLen' = LS_WORDLEN(Len(pos))
    /\ leaf' = rest
    /\ pc' = "split"
    /\ UNCHANGED <<lengths, buckets, array, lsWords, key, at, pos, PPsplit, reply, nfail>>

\* Faulty: the pointer to the leaf stays.
TakeLeafKept == Take(leaf)

\* or of another, which is disconnected,
TakeLeaf == Take(Without(leaf, at))

SplitOn(more) ==
    LET Index0 == Word(Pls.rest)
    IN  /\ pc = "split"
        /\ \/ /\ array' = InsertWord(at, Index0)
              /\ PPsplit' = at
              /\ at' = Below(at, Index0)
              /\ pos' = Rest(pos)
              /\ Pls' = [Pls EXCEPT !.rest = Rest(@)]
              /\ pc' = IF more THEN "split" ELSE "old"
              /\ UNCHANGED <<key, FreeLen, reply, nfail>>
           \/ Fails /\ UNCHANGED array
        /\ UNCHANGED <<lengths, buckets, leaf, lsWords>>

\* Faulty: goes on past the word where the strings part.
SplitWordOn == SplitOn(Long(Rest(pos)))

(***************************************************************************)
(* decoded word by word into arrays, as long as its words are those of the *)
(* key and more than one is left,                                          *)
(***************************************************************************)
SplitWord == SplitOn(Word(Pls.rest) = Word(pos) /\ Long(Rest(pos)))

Place(n) ==
    /\ pc = "old"
    /\ \/ /\ IF Long(Pls.rest)
             THEN /\ leaf' = With(leaf, at, Pls)
                  /\ lsWords' = lsWords + LS_WORDLEN(Len(Pls.rest)) - n
                  /\ UNCHANGED array
             ELSE /\ array' = With(array, at, With(<<>>, Word(Pls.rest), Pls.value))
                  /\ lsWords' = lsWords - n
                  /\ UNCHANGED leaf
          /\ Pls' = NoLeaf
          /\ pc' = "new"
          /\ UNCHANGED <<key, at, pos, PPsplit, FreeLen, reply, nfail>>
       \/ Fails /\ UNCHANGED <<leaf, array, lsWords>>
    /\ UNCHANGED <<lengths, buckets>>

\* Faulty: the size to free is that of what remains of the string.
PlaceOldSized == Place(LS_WORDLEN(Len(pos)))

(***************************************************************************)
(* put back below, with its value, by a recursive call that finds nothing  *)
(* there (SplitIsApart), and freed.                                        *)
(***************************************************************************)
PlaceOld == Place(FreeLen)

\* Then the word of the key goes where the strings part, and the rest below.
InsNew ==
    LET Index == SubSeq(key, Len(PPsplit[3]) + 1, Len(PPsplit[3]) + WORDSIZE)
    IN  /\ pc = "new"
        /\ \/ /\ array' = InsertWord(PPsplit, Index)
              /\ at' = Below(PPsplit, Index)
              /\ pc' = "tree"
              /\ UNCHANGED <<key, pos, PPsplit, Pls, FreeLen, reply, nfail>>
           \/ Index \notin WordsAt(PPsplit) /\ Fails /\ UNCHANGED array
        /\ UNCHANGED <<lengths, buckets, leaf, lsWords>>

\* CASE 3: an array, down to the next.
InsDown ==
    /\ pc = "tree" /\ Long(pos) /\ at \in DOMAIN array
    /\ \/ /\ array' = InsertWord(at, Word(pos))
          /\ at' = Below(at, Word(pos))
          /\ pos' = Rest(pos)
          /\ UNCHANGED <<pc, key, PPsplit, Pls, FreeLen, reply, nfail>>
       \/ Word(pos) \notin WordsAt(at) /\ Fails /\ UNCHANGED array
    /\ UNCHANGED <<lengths, buckets, leaf, lsWords>>

\* The last word, in an array of values.
InsLast ==
    /\ pc = "tree" /\ ~Long(pos)
    /\ \/ /\ array' = InsertWord(at, pos)
          /\ Returns(IF pos \in WordsAt(at) THEN "old" ELSE "new", at[3] \o pos)
       \/ pos \notin WordsAt(at) /\ Fails /\ UNCHANGED array
    /\ UNCHANGED <<lengths, buckets, leaf, lsWords>>

Insertion ==
    \/ InsLength \/ InsHash \/ MakeLeaf \/ FoundLeaf \/ TakeLeaf \/ SplitWord
    \/ PlaceOld \/ InsNew \/ InsDown \/ InsLast

-----------------------------------------------------------------------------
(* The other calls.                                                        *)

\* The nodes that a walk down the string comes to: no further than a leaf.
Visited(s) ==
    {p \in Way(s) :
        /\ Linked(array, p)
        /\ \A q \in Way(s) : q \in DOMAIN leaf => Len(q[3]) >= Len(p[3])}

\* The cell found there with t left of the string, by the string it belongs to.
GetAt(p, t) ==
    IF \/ Long(t) /\ p \in DOMAIN leaf /\ SameAs(t, p)
       \/ ~Long(t) /\ t \in WordsAt(p)
    THEN {p[3] \o t} ELSE {}

JudyHSGet(s) ==
    IF Len(s) \in lengths /\ (Long(s) => Bucket(s) \in buckets)
    THEN UNION {GetAt(p, Beyond(p, s)) : p \in Visited(s)} ELSE {}

\* The caller writes through the pointer that the last insertion returned.
Store(v) ==
    /\ "Store" \in Calls
    /\ pc = "idle" /\ reply.op = "Ins" /\ reply.code \in {"new", "old"}
    /\ leaf' = [p \in DOMAIN leaf |->
                  IF p[3] \o leaf[p].rest = reply.at THEN [leaf[p] EXCEPT !.value = v] ELSE leaf[p]]
    /\ array' = [p \in DOMAIN array |-> [w \in DOMAIN array[p] |->
                  IF <<p, w>> \in Cells /\ p[3] \o w = reply.at THEN v ELSE array[p][w]]]
    /\ UNCHANGED <<lengths, buckets, lsWords, frame, reply, nfail>>

(***************************************************************************)
(* Delete.  A string that is there is at least below its entry in the      *)
(* table of lengths, so that sooner or later JudyLDel is called, which     *)
(* ends the process, and a leaf freed before that goes with it.            *)
(***************************************************************************)
JudyHSDel(k) ==
    /\ "Del" \in Calls
    /\ pc = "idle"
    /\ IF JudyHSGet(k) = {}
       THEN Answer([op |-> "Del", key |-> k, code |-> "absent"])
       ELSE pc' = "exited" /\ UNCHANGED <<key, at, pos, PPsplit, Pls, FreeLen, reply>>
    /\ UNCHANGED <<nodes, nfail>>

\* The nodes that delJudyLTree comes to from these buckets.
DelTree(roots) ==
    {p \in DOMAIN leaf \cup DOMAIN array : BucketOf(p) \in roots /\ Linked(array, p)}

FreeAll(roots) ==
    LET reached == DelTree(roots)
    IN  /\ "Free" \in Calls
        /\ pc = "idle"
        /\ leaf' = Restrict(leaf, DOMAIN leaf \ reached)
        /\ array' = Restrict(array, DOMAIN array \ reached)
        /\ buckets' = {b \in buckets : b[1] \notin lengths}
        /\ lengths' = {}
        /\ lsWords' = lsWords -
              SumFunction([p \in DOMAIN leaf \cap reached |-> LS_WORDLEN(LenAt(p))])
        /\ Answer([op |-> "Free", code |-> "ok"])
        /\ UNCHANGED nfail

\* The arrays that take the place of buckets for short strings.
ShortRoots == {<<n, 0, <<>>>> : n \in {l \in lengths : l <= WORDSIZE}}

\* Faulty: frees the tables of hash values without their trees.
JudyHSFreeArrayFlat == FreeAll(ShortRoots)

\* Every bucket of every length; the tables go with them.
JudyHSFreeArray == FreeAll({b \in buckets : b[1] \in lengths} \cup ShortRoots)

Next ==
    \/ \E k \in Strings : Ins(k) \/ JudyHSDel(k)
    \/ \E v \in Value : Store(v)
    \/ Insertion
    \/ JudyHSFreeArray

Spec == Init /\ [][Next]_vars
-----------------------------------------------------------------------------
(* Properties.                                                             *)

(***************************************************************************)
(* Between calls every node is found from its entries in the tables, no    *)
(* path holds a leaf and an array, and no leaf is where a word is left.    *)
(***************************************************************************)
WellFormed ==
    /\ TypeOK
    /\ DOMAIN leaf \cup DOMAIN array \subseteq DelTree(buckets \cup ShortRoots)
    /\ \A b \in buckets : b[1] \in lengths
    /\ DOMAIN leaf \cap DOMAIN array = {}
    /\ \A p \in DOMAIN leaf : LenAt(p) > WORDSIZE

(***************************************************************************)
(* A split never goes to where something is, and parts the strings, so     *)
(* that neither recursive call splits again.                               *)
(***************************************************************************)
SplitIsApart ==
    /\ pc \in {"split", "old"} => IsNull(at)
    /\ pc = "tree" /\ PPsplit # NoPath => at \notin DOMAIN leaf

(***************************************************************************)
(* As long as no call ran out of memory, the leaves malloc'ed and not      *)
(* freed are those of the tree and the one being split, each with the size *)
(* that it was malloc'ed with.                                             *)
(***************************************************************************)
HeapExact ==
    nfail = 0 =>
        lsWords = SumFunction([p \in DOMAIN leaf |-> LS_WORDLEN(Len(leaf[p].rest))])
                  + (IF Pls # NoLeaf THEN FreeLen ELSE 0)

\* JudyHSGet finds exactly the strings in the trees, past dead ends too.
GetAgrees == pc = "idle" => \A s \in Strings : JudyHSGet(s) = {s} \cap DOMAIN Content

\* What the callers have stored: the trees, and the string being split.
Held == IF Pls = NoLeaf THEN Content ELSE With(Content, at[3] \o Pls.rest, Pls.value)

(***************************************************************************)
(* The strings make a map: what JudyMap promises, but for the one string   *)
(* that a failed call was splitting.  A key whose hash collides with       *)
(* another's never answers for it.                                         *)
(***************************************************************************)
Map == INSTANCE JudyMap WITH
    Index <- Strings,
    JUDYL <- TRUE,
    MayRunOut <- MaxFail > 0,
    MayLose <- TRUE,
    map <- Held

MapSpec == Map!Spec

=============================================================================
