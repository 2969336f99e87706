-------------------------- MODULE MCVectorRouting --------------------------
(***************************************************************************)
(* Instances of VectorRouting for TLC: nodes 1 to 4, as in the code.       *)
(***************************************************************************)
EXTENDS VectorRouting

(* Nodes in a line, each in range of the next.                             *)
LineRange == [n \in Node |-> {m \in Node : m = n + 1 \/ n = m + 1}]
LineDist  == [n \in Node |-> [d \in Node |-> IF n < d THEN d - n ELSE n - d]]

ASSUME LineAssumption == Neighbours = LineRange => DistIsReached

(* Node 2 hears the others, which hear nobody.                             *)
OneListens == [n \in Node |-> IF n = 2 THEN {} ELSE {2}]

(* Bounds on the broadcasts of each node.                                  *)
None      == [n \in Node |-> 0]
OneEach   == [n \in Node |-> 1]
OnceByOne == [n \in Node |-> IF n = 1 THEN 1 ELSE 0]
=============================================================================
