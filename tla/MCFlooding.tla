----------------------------- MODULE MCFlooding -----------------------------
(***************************************************************************)
(* Instances of Flooding for TLC: nodes a, b, c in a line, or a and b.     *)
(***************************************************************************)
EXTENDS Flooding, TLC

CONSTANTS a, b, c, m1, m2

PairRange  == a :> {b} @@ b :> {a}
LineRange  == a :> {b} @@ b :> {a, c} @@ c :> {b}
FromA      == [m \in Message |-> a]
FromAFromC == m1 :> a @@ m2 :> c
One        == [m \in Message |-> 1]
Two        == [m \in Message |-> 2]

ASSUME RangeAssumption == Connected
=============================================================================
