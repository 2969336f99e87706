----------------------------- MODULE Addressing -----------------------------
(***************************************************************************)
(* How the nodes get their addresses (src/src/backend/addressing and its   *)
(* use in VectorRoutingProtocol): every node starts as DefaultAddress,     *)
(* draws a free address once it has a table of another node or has waited  *)
(* long enough, and draws again when it hears somebody with its own.       *)
(*                                                                         *)
(* Of the routing table only the reachable rows are kept: VectorRouting    *)
(* has the costs, the next hops and the ages.  Whatever the tick thread    *)
(* does to a row may happen here at any time.                              *)
(***************************************************************************)
EXTENDS Naturals, Sequences

CONSTANTS Node, Addr, DefaultAddress,
          MAX_ECHOES,     \* bound: broadcasts of a node
          MAX_LOST        \* bound: rows of a node the tick thread drops or unmarks

ASSUME AddressingAssumption ==
    /\ DefaultAddress \in Addr
    /\ MAX_ECHOES \in Nat /\ MAX_LOST \in Nat

VARIABLES address,               \* the address file of each node
          known,                 \* rows of myRoutingTable below INFINITY_COST
          addr_in_use,
          first_table_received,
          waited,                \* wait_first_echo_recv_to has run out
          ticker,                \* tick: "first_run", "drawing" an address, "running"
          receiver,              \* register_echo: what it is about to do
          inbox,                 \* echoes sent and not yet registered
          echoes, lost           \* for MAX_ECHOES and MAX_LOST

vars == <<address, known, addr_in_use, first_table_received, waited, ticker,
          receiver, inbox, echoes, lost>>

Echo == [src : Addr, known : SUBSET Addr]

Init ==
    /\ address = [n \in Node |-> DefaultAddress]
    /\ known = [n \in Node |-> {}]
    /\ addr_in_use = [n \in Node |-> {}]
    /\ first_table_received = [n \in Node |-> FALSE]
    /\ waited = [n \in Node |-> FALSE]
    /\ ticker = [n \in Node |-> "first_run"]
    /\ receiver = [n \in Node |-> "idle"]
    /\ inbox = [n \in Node |-> <<>>]
    /\ echoes = [n \in Node |-> 0] /\ lost = [n \in Node |-> 0]

----------------------------------------------------------------------------
(* The packet is built from the address and the table of now, and heard by *)
(* some of the others, later.                                              *)
Broadcast(n, hearers) ==
    /\ echoes[n] < MAX_ECHOES
    /\ echoes' = [echoes EXCEPT ![n] = @ + 1]
    /\ inbox' = [m \in Node |->
                   IF m \in hearers
                   THEN Append(inbox[m], [src |-> address[n], known |-> known[n]])
                   ELSE inbox[m]]

PeriodicBroadcast(n, hearers) ==
    /\ ticker[n] = "running"
    /\ Broadcast(n, hearers)
    /\ UNCHANGED <<address, known, addr_in_use, first_table_received, waited, ticker,
                   receiver, lost>>

(* register_echo, up to the update of the table.  A collision before the   *)
(* first table is complete changes nothing; later gen_random_addr(false)   *)
(* draws another address or, by chance or if none is free, keeps this one. *)
BugRedrawn(n) == {address[n]} \cup {a - 1 : a \in Addr \ addr_in_use[n]}
Redrawn(n) == {address[n]} \cup (Addr \ addr_in_use[n])
BugAfterCollision(n, e) == IF first_table_received[n] THEN Redrawn(n) ELSE {address[n]}
AfterCollision(n, e) ==
    IF e.src = address[n] /\ first_table_received[n] THEN Redrawn(n) ELSE {address[n]}

(* The own row is registered until the first table is complete, and after  *)
(* the timeout always: it counts as used.                                  *)
OwnRow(n) == IF ~first_table_received[n] \/ waited[n] THEN {address[n]} ELSE {}

NewRow(n, e, a) == IF e.src = address[n] /\ first_table_received[n] THEN {a} ELSE {}
RegisterEcho(n) ==
    /\ receiver[n] = "idle" /\ inbox[n] # <<>>
    /\ LET e == Head(inbox[n])
       IN \E a \in AfterCollision(n, e) :
            /\ address' = [address EXCEPT ![n] = a]
            /\ known' = [known EXCEPT ![n] = @ \cup OwnRow(n) \cup {e.src}
                                              \cup (e.known \ {address[n]}) \cup NewRow(n, e, a)]
    /\ inbox' = [inbox EXCEPT ![n] = Tail(@)]
    /\ \E changed \in BOOLEAN :     \* register_active_node, notify_unreachable_node
         addr_in_use' = IF changed THEN [addr_in_use EXCEPT ![n] = known'[n]] ELSE addr_in_use
    /\ receiver' = [receiver EXCEPT ![n] = "clearing"]
    /\ UNCHANGED <<first_table_received, waited, ticker, echoes, lost>>

(* update_connected_nodes_list_from_RT: the list is cleared, and filled.   *)
BugClearList(n) ==
    /\ receiver[n] = "clearing"
    /\ addr_in_use' = [addr_in_use EXCEPT ![n] = {}]
    /\ receiver' = [receiver EXCEPT ![n] = "filling"]
    /\ first_table_received' = [first_table_received EXCEPT ![n] = TRUE]
    /\ UNCHANGED <<address, known, waited, ticker, inbox, echoes, lost>>
ClearList(n) ==
    /\ receiver[n] = "clearing"
    /\ addr_in_use' = [addr_in_use EXCEPT ![n] = {}]
    /\ receiver' = [receiver EXCEPT ![n] = "filling"]
    /\ UNCHANGED <<address, known, first_table_received, waited, ticker, inbox, echoes, lost>>

FillList(n) ==
    /\ receiver[n] = "filling"
    /\ addr_in_use' = [addr_in_use EXCEPT ![n] = @ \cup known[n]]
    /\ receiver' = [receiver EXCEPT ![n] = IF first_table_received[n] THEN "ending" ELSE "asleep"]
    /\ first_table_received' = [first_table_received EXCEPT ![n] = TRUE]
    /\ UNCHANGED <<address, known, waited, ticker, inbox, echoes, lost>>

(* After the first table the receiver sleeps 2.5 s, "let time to the tick  *)
(* thread to tick", which it does every second.  A draw takes no time,     *)
(* unless the timeout started it before the list was filled and no address *)
(* is free any more.                                                       *)
Wake(n) ==
    /\ receiver[n] = "asleep"
    /\ ticker[n] = "running" \/ (ticker[n] = "drawing" /\ waited[n])
    /\ receiver' = [receiver EXCEPT ![n] = "ending"]
    /\ UNCHANGED <<address, known, addr_in_use, first_table_received, waited, ticker,
                   inbox, echoes, lost>>

(* The table is broadcast if it has changed, drawn address or not.         *)
EndEcho(n, hearers) ==
    /\ receiver[n] = "ending"
    /\ receiver' = [receiver EXCEPT ![n] = "idle"]
    /\ Broadcast(n, hearers) \/ UNCHANGED <<inbox, echoes>>
    /\ UNCHANGED <<address, known, addr_in_use, first_table_received, waited, ticker, lost>>

----------------------------------------------------------------------------
(* tick                                                                    *)
WaitedEnough(n) ==
    /\ ticker[n] = "first_run" /\ ~waited[n]
    /\ waited' = [waited EXCEPT ![n] = TRUE]
    /\ UNCHANGED <<address, known, addr_in_use, first_table_received, ticker,
                   receiver, inbox, echoes, lost>>

(* gen_random_addr(true): if every address is used the node keeps its own, *)
(* and else draws until it has one that is free.                           *)
BeginDraw(n) ==
    /\ ticker[n] = "first_run"
    /\ first_table_received[n] \/ waited[n]
    /\ ticker' = [ticker EXCEPT ![n] = IF addr_in_use[n] = Addr THEN "running" ELSE "drawing"]
    /\ UNCHANGED <<address, known, addr_in_use, first_table_received, waited,
                   receiver, inbox, echoes, lost>>

(* The address of before the draw, which no other action can have changed, *)
(* is no longer marked as used.                                            *)
Draw(n) ==
    /\ ticker[n] = "drawing"
    /\ \E a \in Addr \ addr_in_use[n] : address' = [address EXCEPT ![n] = a]
    /\ addr_in_use' = [addr_in_use EXCEPT ![n] = @ \ {DefaultAddress}]
    /\ ticker' = [ticker EXCEPT ![n] = "running"]
    /\ UNCHANGED <<known, first_table_received, waited, receiver, inbox, echoes, lost>>

(* A row of the table expires: its address is no longer marked as used; or *)
(* the neighbour it goes through is gone: it is dropped.  The own row is   *)
(* kept at cost 0.                                                         *)
MayLose(n) == ticker[n] = "running" /\ lost[n] < MAX_LOST
ExpireRow(n, a) ==
    /\ MayLose(n) /\ a \in addr_in_use[n]
    /\ addr_in_use' = [addr_in_use EXCEPT ![n] = @ \ {a}]
    /\ lost' = [lost EXCEPT ![n] = @ + 1]
    /\ UNCHANGED <<address, known, first_table_received, waited, ticker, receiver, inbox, echoes>>
DropRow(n, a) ==
    /\ MayLose(n) /\ a \in known[n] /\ a # address[n]
    /\ known' = [known EXCEPT ![n] = @ \ {a}]
    /\ lost' = [lost EXCEPT ![n] = @ + 1]
    /\ UNCHANGED <<address, addr_in_use, first_table_received, waited, ticker,
                   receiver, inbox, echoes>>
TickOwnRow(n) ==
    /\ ticker[n] = "running"
    /\ known' = [known EXCEPT ![n] = @ \cup {address[n]}]
    /\ UNCHANGED <<address, addr_in_use, first_table_received, waited, ticker,
                   receiver, inbox, echoes, lost>>

Hearers(n) == SUBSET (Node \ {n})
Receiving(n) ==
    \/ RegisterEcho(n) \/ ClearList(n) \/ FillList(n) \/ Wake(n)
    \/ \E hearers \in Hearers(n) : EndEcho(n, hearers)
Ticking(n) ==
    \/ WaitedEnough(n) \/ BeginDraw(n) \/ Draw(n) \/ TickOwnRow(n)
    \/ \E a \in Addr : ExpireRow(n, a) \/ DropRow(n, a)
    \/ \E hearers \in Hearers(n) : PeriodicBroadcast(n, hearers)

Next == \E n \in Node : Receiving(n) \/ Ticking(n)

Spec == Init /\ [][Next]_vars

----------------------------------------------------------------------------
(* Type invariant.                                                         *)
TypeOK ==
    /\ address \in [Node -> Addr]
    /\ known \in [Node -> SUBSET Addr]
    /\ addr_in_use \in [Node -> SUBSET Addr]
    /\ first_table_received \in [Node -> BOOLEAN]
    /\ waited \in [Node -> BOOLEAN]
    /\ ticker \in [Node -> {"first_run", "drawing", "running"}]
    /\ receiver \in [Node -> {"idle", "clearing", "filling", "asleep", "ending"}]
    /\ inbox \in [Node -> Seq(Echo)]
    /\ echoes \in [Node -> Nat] /\ lost \in [Node -> Nat]

(* A node that got a table before its patience ran out draws an address    *)
(* that no row of its table has, though the list it draws from is cleared  *)
(* and filled again by another thread.                                     *)
FirstDrawIsFree ==
    [][\A n \in Node :
         ticker[n] = "drawing" /\ ticker'[n] = "running" /\ ~waited[n] =>
             address'[n] \notin known[n]]_vars

(* Everybody has drawn, no two have the same address, and no echo on its   *)
(* way to a node bears the address of that node.  Echoes of addresses that *)
(* their senders have given up may still be on their way to others.        *)
Settled ==
    /\ \A n \in Node : ticker[n] = "running"
    /\ \A n, m \in Node : n # m => address[n] # address[m]
    /\ \A n \in Node : \A i \in 1 .. Len(inbox[n]) : inbox[n][i].src # address[n]

(* Once that is so, no lost echo, expired row, late broadcast or old echo  *)
(* makes a node change its address again, so that only one kind of echo    *)
(* can ever move a node that has an address of its own: an old one whose   *)
(* sender has since left that address to it.                               *)
SettledStays == [][Settled => Settled' /\ address' = address]_vars
=============================================================================
