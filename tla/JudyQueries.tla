----------------------------- MODULE JudyQueries -----------------------------
(***************************************************************************)
(* What the calls that only read an array answer, in every state that      *)
(* insertions and FreeArray can bring it to between two calls.  Each query *)
(* is compared with its meaning for the set of keys in the array.          *)
(***************************************************************************)
EXTENDS JudyArray, JudyEmpty

CONSTANT Probe      \* the keys asked about

ASSUME ProbeAssumption == Probe \subseteq Key /\ IsFiniteSet(Probe)

\* The population every query starts from.
Pop1 == IF root = "JPM" THEN pop0 + 1 ELSE Pop8

\* JudyLByCount, base 1: the key found, if there is one.
NthKey(n) == IF n - 1 < Pop1 THEN ByCountKey(jp, n - 1) ELSE {}

(***************************************************************************)
(* JudyLGet, which adds up octants, finds the keys that an insertion's own *)
(* search, which does not, finds.                                          *)
(***************************************************************************)
GetAgrees == Callable => \A k \in Index : JudyLGet(jp, k) <=> Get(jp, k)

\* The nearest of the keys K strictly beyond k, said of sets.
NearestBeyond(up, K, k) ==
    LET B == {j \in K : Beyond(up, k, j)}
    IN  {b \in B : \A j \in B : ~Beyond(up, j, b)}

(***************************************************************************)
(* From any key, in the array or not, Next and Prev come to the nearest    *)
(* key beyond it, whatever branches and dead ends lie between the two.     *)
(***************************************************************************)
NeighboursExact ==
    Callable =>
        \A k \in Probe, up \in BOOLEAN :
            Neighbour(up, jp, k) = NearestBeyond(up, Content, k)

(***************************************************************************)
(* The nearest key beyond k that is not in the array, said key by key.     *)
(***************************************************************************)
NearestAbsent(up, k) ==
    LET beyond[j \in Key] ==
            IF j = Limit(up) THEN {}
            ELSE IF Step(up, j) \notin Content THEN {Step(up, j)}
            ELSE beyond[Step(up, j)]
    IN  beyond[k]

(***************************************************************************)
(* NextEmpty and PrevEmpty, FirstEmpty and LastEmpty come to the nearest   *)
(* key that is not in the array: neither do they skip one, over a digit    *)
(* taken for full that is not, nor stop at one that is there.              *)
(***************************************************************************)
EmptyExact ==
    Callable =>
        \A k \in Probe, up \in BOOLEAN, F \in Fulls(jp) :
            /\ NeighbourEmpty(up, jp, F, k) = NearestAbsent(up, k)
            /\ FirstEmpty(up, jp, F, k) =
                  IF k \in Content THEN NearestAbsent(up, k) ELSE {k}

(***************************************************************************)
(* The key they answer is not in the array and lies beyond the one asked   *)
(* about, though in JudyL it need not be the nearest.                      *)
(***************************************************************************)
EmptyAbsent ==
    Callable =>
        \A k \in Probe, up \in BOOLEAN, F \in Fulls(jp) :
            /\ NeighbourEmpty(up, jp, F, k) \cap Content = {}
            /\ \A j \in NeighbourEmpty(up, jp, F, k) : Beyond(up, k, j)

(***************************************************************************)
(* Count answers the number of keys between any two, in either order,      *)
(* though it reads populations kept beside the path and not the keys.      *)
(***************************************************************************)
CountExact ==
    Callable =>
        \A a, b \in Probe :
            Count(jp, Pop1, a, b) =
                Cardinality({k \in Content : \/ ~Less(k, a) /\ ~Less(b, k)
                                             \/ ~Less(k, b) /\ ~Less(a, k)})

(***************************************************************************)
(* ByCount walks to the n-th key, for every n up to the population, and to *)
(* none beyond it.                                                         *)
(***************************************************************************)
ByCountSelects ==
    Callable =>
        \A n \in 1..(Cardinality(Index) + 1) :
            NthKey(n) = {k \in Content : Rank(k, Content) = n - 1}

(***************************************************************************)
(* ByCount sets its Index to the n-th key, whatever it held before.        *)
(***************************************************************************)
ByCountTells ==
    Callable =>
        \A n \in 1..Pop1, given \in Probe :
            ByCountIndex(jp, n - 1, given) = ByCountKey(jp, n - 1)

=============================================================================
