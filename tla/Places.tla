------------------------------- MODULE Places -------------------------------
(***************************************************************************)
(* Lists by the places of their entries: what SelectSeq and a sort of      *)
(* numbers make, said so that it can be reasoned about.                    *)
(***************************************************************************)
EXTENDS Integers, FiniteSets

(* The members of a finite set of numbers, ascending.                      *)
Ascending(S) ==
  [k \in 1 .. Cardinality(S) |->
     CHOOSE i \in S : Cardinality({j \in S : j < i}) = k - 1]

(* The entries of s at the places in S.                                    *)
Picked(s, S) == [k \in 1 .. Cardinality(S) |-> s[Ascending(S)[k]]]

==============================================================================
