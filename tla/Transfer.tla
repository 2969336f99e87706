------------------------------ MODULE Transfer ------------------------------
(***************************************************************************)
(* What the transport layer promises to the two users of a message, with   *)
(* no packets, acks, ids, routes or threads in sight:                      *)
(*   - the addressee takes in fragments, and has the text from the moment  *)
(*     it has taken in the last missing one;                               *)
(*   - the sender settles the fragments in order, each once, and says      *)
(*     "delivered" only of a fragment the addressee has taken in.          *)
(* A fragment the sender gives up on may still have been taken in.         *)
(***************************************************************************)
EXTENDS Reassembler

VARIABLES accepted,   \* fragments the addressee has taken in
          delivered,  \* messages whose text the addressee has
          reported,   \* fragments the sender has settled as delivered
          gaveUp      \* fragments the sender has settled as failed

vars == <<accepted, delivered, reported, gaveUp>>

Fragment == {f \in Chunk : f[2] < Size[f[1]]}
AllOf(m) == {<<m, i>> : i \in Index(m)}
Settled  == reported \cup gaveUp

(* The next fragment of m to settle is i.                                  *)
Turn(m, i) == \A j \in Index(m) : <<m, j>> \in Settled <=> j < i

Init == accepted = {} /\ delivered = {} /\ reported = {} /\ gaveUp = {}

Accept(m, i) ==
    /\ accepted' = accepted \cup {<<m, i>>}
    /\ delivered' = IF AllOf(m) \subseteq accepted'
                    THEN delivered \cup {m} ELSE delivered
    /\ UNCHANGED <<reported, gaveUp>>

Report(m, i) ==
    /\ Turn(m, i)
    /\ <<m, i>> \in accepted
    /\ reported' = reported \cup {<<m, i>>}
    /\ UNCHANGED <<accepted, delivered, gaveUp>>

GiveUp(m, i) ==
    /\ Turn(m, i)
    /\ gaveUp' = gaveUp \cup {<<m, i>>}
    /\ UNCHANGED <<accepted, delivered, reported>>

Next == \E m \in Message : \E i \in Index(m) :
            Accept(m, i) \/ Report(m, i) \/ GiveUp(m, i)

Spec == Init /\ [][Next]_vars
=============================================================================
