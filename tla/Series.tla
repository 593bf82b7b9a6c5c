--------------------------------- MODULE Series ---------------------------------
(***************************************************************************)
(* The generator expressions, sum() and sorted() of the code, over records *)
(* (a set) and over what is listed in order (a sequence).  The library has *)
(* folds and a SelectSeq of its own: nothing can be proved of the latter,  *)
(* which is recursive, so what is selected is given by its places.         *)
(***************************************************************************)
EXTENDS Integers, Sequences, FiniteSets, Functions

\* Each record stands behind those that come before it.
InOrder(records, Before(_, _)) ==
    [i \in 1 .. Cardinality(records) |->
        CHOOSE r \in records : Cardinality({x \in records : Before(x, r)}) = i - 1]

\* Those of s that pass the test, as they come.
Places(Test(_), s) == InOrder({i \in DOMAIN s : Test(s[i])}, LAMBDA i, j : i < j)
Selected(Test(_), s) ==
    LET places == Places(Test, s) IN [k \in DOMAIN places |-> s[places[k]]]

Total(Value(_), s) == SumFunction([i \in DOMAIN s |-> Value(s[i])])
Count(Test(_), s) == Cardinality({i \in DOMAIN s : Test(s[i])})
=============================================================================
