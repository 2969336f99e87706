----------------------------- MODULE Broadcast -----------------------------
(***************************************************************************)
(* What the flooding of a broadcast promises to the users: every node      *)
(* shows a text that was sent, whole, and shows it once.                   *)
(***************************************************************************)
EXTENDS Naturals, Sequences

CONSTANTS Node, Message

VARIABLES sent,   \* messages given to the transport layer
          shown   \* shown[n]: the messages n has shown, in order

vars == <<sent, shown>>

Shows(n, m) == \E k \in DOMAIN shown[n] : shown[n][k] = m

Init == sent = {} /\ shown = [n \in Node |-> <<>>]

Send(m) ==
    /\ m \notin sent
    /\ sent' = sent \cup {m}
    /\ UNCHANGED shown

Show(n, m) ==
    /\ m \in sent /\ ~Shows(n, m)
    /\ shown' = [shown EXCEPT ![n] = Append(@, m)]
    /\ UNCHANGED sent

Next == \E m \in Message : Send(m) \/ \E n \in Node : Show(n, m)

Spec == Init /\ [][Next]_vars
=============================================================================
