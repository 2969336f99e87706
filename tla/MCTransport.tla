---------------------------- MODULE MCTransport ----------------------------
(***************************************************************************)
(* Instances of Transport for TLC: nodes a, b, c and messages m1, m2.      *)
(***************************************************************************)
EXTENDS Transport, TLC

CONSTANTS a, b, c, m1, m2

(* a and b in range of each other; a sends to b.                           *)
PairRange   == a :> {b} @@ b :> {a}
OneFragment == [m \in Message |-> 1]
Two         == [m \in Message |-> 2]
FromA       == [m \in Message |-> a]
ToB         == [m \in Message |-> b]

Via(h)      == [next_hop |-> h, reachable |-> TRUE]
DirectTables == [n \in Node |-> {[d \in Node |-> Via(d)]}]

(* b in and out of range of a, with c between them: each of a and b        *)
(* believes now that it reaches the other, now that c is on the way.       *)
ShiftTables == a :> {[d \in Node |-> Via(c)], [d \in Node |-> Via(d)]}
            @@ b :> {[d \in Node |-> Via(c)], [d \in Node |-> Via(d)]}
            @@ c :> {[d \in Node |-> Via(d)]}
AllRange    == [n \in Node |-> Node \ {n}]

(* What the uninitialized current_* fields may hold.                       *)
NeverSent   == {[id |-> 0, frag |-> 0]}
NeverSet    == {[id |-> 0, frag |-> 0], [id |-> 3, frag |-> 1]}
=============================================================================
