------------------------------- MODULE JudyMap -------------------------------
(***************************************************************************)
(* What a Judy array promises its caller: a map from word-sized keys to    *)
(* words (JudyL) or a set of keys (Judy1, where every word is 0); JudySL   *)
(* and JudyHS promise the same of strings.  Each operation is one step,    *)
(* because the library is called by one thread and the caller sees an      *)
(* array only between two calls.                                           *)
(***************************************************************************)
EXTENDS Integers

CONSTANTS
    Index,      \* the keys the callers use
    Value,      \* the words they store, 0 among them
    JUDYL,      \* TRUE: JudyL, a key has a word;  FALSE: Judy1
    MayRunOut,  \* TRUE when malloc may fail
    MayLose,    \* TRUE when a call that ran out may have lost another key
    Calls       \* the operations the callers use

VARIABLES
    map,        \* the abstract content, a function on the keys present
    reply       \* what the last call returned

Init ==
    /\ map = [k \in {} |-> 0]
    /\ reply = [op |-> "none", code |-> "none"]

(***************************************************************************)
(* Insert a key with the word 0, or find it already present.  The pointer  *)
(* handed out, reply.at, addresses the word of that very key.              *)
(***************************************************************************)
Ins(k) ==
    LET Answer(c) == reply' = [op |-> "Ins", key |-> k, code |-> c, at |-> k]
    IN  \/ k \in DOMAIN map /\ Answer("old") /\ UNCHANGED map
        \/ k \notin DOMAIN map /\ Answer("new") /\ map' = [j \in DOMAIN map \cup {k} |-> IF j = k THEN 0 ELSE map[j]]

(***************************************************************************)
(* A failed call says so and leaves the array as it was; if MayLose, but   *)
(* for a key that it was moving.                                           *)
(***************************************************************************)
NoMem(k) ==
    /\ MayRunOut
    /\ k \notin DOMAIN map
    /\ reply' = [op |-> "Ins", key |-> k, code |-> "nomem"]
    /\ \/ UNCHANGED map
       \/ MayLose /\ \E j \in DOMAIN map : map' = [i \in DOMAIN map \ {j} |-> map[i]]

\* The caller writes through the pointer the last insertion returned.
Store(v) ==
    /\ JUDYL
    /\ reply.op = "Ins"
    /\ reply.code \in {"new", "old"}
    /\ map' = [map EXCEPT ![reply.key] = v]
    /\ UNCHANGED reply

\* Delete a key with its word; a key that is not there changes nothing.
Del(k) ==
    /\ "Del" \in Calls
    /\ map' = [j \in DOMAIN map \ {k} |-> map[j]]
    /\ reply' = [op |-> "Del", key |-> k,
                 code |-> IF k \in DOMAIN map THEN "done" ELSE "absent"]

\* Free everything; the array is found neither miscounted nor corrupt.
FreeArray ==
    /\ "Free" \in Calls
    /\ map' = [k \in {} |-> 0]
    /\ reply' = [op |-> "Free", code |-> "ok"]

Next ==
    \/ \E k \in Index : Ins(k) \/ NoMem(k) \/ Del(k)
    \/ \E v \in Value : Store(v)
    \/ FreeArray

Spec == Init /\ [][Next]_<<map, reply>>

=============================================================================
