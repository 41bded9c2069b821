------------------------------ MODULE MCSessions ------------------------------
(* A browser with two tabs and one with a single tab.                      *)
EXTENDS Sessions, TLC

CONSTANTS b1, b2, t1, t2, t3

TwoAndOne == [tab \in Tabs |-> IF tab = t3 THEN b2 ELSE b1]

FewMishaps == faults + Cardinality(expired) + clock <= 2

TabSymmetry == Permutations({t1, t2})
===============================================================================
