--------------------------- MODULE VectorRouting ---------------------------
(***************************************************************************)
(* Distance vector routing (src/src/backend/routing) between nodes whose   *)
(* addresses are settled and distinct: the table of each node, the echoes  *)
(* that carry its costs, and the tick thread that ages its rows.           *)
(*                                                                         *)
(* Three threads of a node share its table without a lock: the receiver,   *)
(* which registers the echoes, the tick thread and the broadcast thread.   *)
(* Every row is looked at, and every field of a row is written, in a step  *)
(* of its own.                                                             *)
(*                                                                         *)
(* A node whose protocol is paused ticks nothing, broadcasts nothing and   *)
(* drops the echoes it hears: it takes no step here, or an echo is lost.   *)
(* The period of the broadcasts (broadcast_to) is left open, because any   *)
(* number of echoes in a row may be lost.                                  *)
(***************************************************************************)
EXTENDS Naturals, Sequences

CONSTANTS Node,
          Neighbours,     \* Neighbours[n]: the nodes that hear n
          Dist,           \* Dist[n][d]: hops from n to d, for the properties
          NoHop,          \* next_hop 0
          INFINITY_COST,  \* 5
          MAXIMUM_COST,   \* 7
          MAX_TTL,        \* 40 ticks
          Ageing,         \* the nodes whose tick thread runs: bound
          MAX_TICKS,      \* bound: ticks of a node, 0 for any number
          Rebuilding,     \* the nodes that may find the line busy: bound
          Mortal,         \* the nodes that may go silent
          MAX_QUEUE,      \* bound: echoes waiting in a receiver queue
          MAX_ECHOES,     \* bound: broadcasts of each node
          Tireless        \* the nodes that broadcast any number of times

Cost == 0 .. INFINITY_COST

ASSUME RangeAssumption ==
    /\ Neighbours \in [Node -> SUBSET Node]
    /\ \A n \in Node : n \notin Neighbours[n]
    /\ Node \subseteq Nat /\ NoHop \notin Node
    /\ Ageing \subseteq Node /\ Mortal \subseteq Node /\ Rebuilding \subseteq Node
    /\ Tireless \subseteq Node
ASSUME CostAssumption ==
    /\ INFINITY_COST \in Nat /\ MAXIMUM_COST \in Nat
    /\ 1 < INFINITY_COST /\ INFINITY_COST <= MAXIMUM_COST
    /\ MAX_TTL \in Nat \ {0} /\ MAX_QUEUE \in Nat /\ MAX_ECHOES \in [Node -> Nat] /\ MAX_TICKS \in Nat
(* Whoever m can reach, the nodes that hear m reach with one hop more.     *)
ASSUME DistAssumption ==
    /\ Dist \in [Node -> [Node -> Nat]]
    /\ \A n \in Node : Dist[n][n] = 0
    /\ \A m, d \in Node : \A n \in Neighbours[m] : Dist[n][d] <= Dist[m][d] + 1

VARIABLES cost, next_hop, TTL,   \* myRoutingTable of each node
          neighbors,             \* the nodes with neighbors[i] = true
          reachable_nodes,       \* the list the user interface shows
          echo,                  \* the broadcast thread of each node
          inbox,                 \* echoes in the receiver queue of each node
          rx,                    \* the receiver thread: register_echo
          ticker,                \* the tick thread
          alive,                 \* nodes still running
          started,               \* broadcasts each node started, for MAX_ECHOES
          ticks                  \* ticks of each node, for MAX_TICKS

table == <<cost, next_hop, TTL>>
vars  == <<table, neighbors, reachable_nodes, echo, inbox, rx, ticker, alive, started, ticks>>

Costs  == [Node -> Cost]
Echo   == [src : Node, cost : Costs]
Row    == Node \cup {NoHop}
BroadcastState == [stage : {"none", "building", "ready", "sent"}, cost : Costs]
RegisterState  == [on : BOOLEAN, todo : SUBSET Node, row : Row,
                   fields : Seq({"cost", "next_hop", "TTL"}), changed : BOOLEAN,
                   list : SUBSET Node]
TickState      == [on : BOOLEAN, rows : SUBSET Node, check : SUBSET Node,
                   gone : Row, todo : SUBSET Node, row : Row]
Lowest(rows) == CHOOSE d \in rows : \A r \in rows : d <= r
Unreachable == [d \in Node |-> INFINITY_COST]

(* The broadcast thread builds the packet, is ready to send it, or sleeps  *)
(* after sending it (update_broadcast_pending is true in all three).       *)
NoEcho == [stage |-> "none", cost |-> Unreachable]
(* todo: the rows register_echo has not looked at; row: the one it is      *)
(* changing; fields: the fields of it still to be written; list: the rows  *)
(* not yet copied to reachable_nodes.                                      *)
RxIdle == [on |-> FALSE, todo |-> {}, row |-> NoHop, fields |-> <<>>,
           changed |-> FALSE, list |-> {}]
(* rows: the rows the tick has not aged; check: the neighbours             *)
(* inactive_neighbours_handling has not looked at; gone: the inactive one; *)
(* todo: the rows not searched for it; row: the one it is clearing.        *)
TickerIdle == [on |-> FALSE, rows |-> {}, check |-> {}, gone |-> NoHop,
               todo |-> {}, row |-> NoHop]

(* init_internal_table, and the own row once the address is settled.       *)
Init ==
    /\ cost = [n \in Node |-> [d \in Node |-> IF d = n THEN 0 ELSE INFINITY_COST]]
    /\ next_hop = [n \in Node |-> [d \in Node |-> IF d = n THEN n ELSE NoHop]]
    /\ TTL = [n \in Node |-> [d \in Node |-> MAX_TTL]]
    /\ neighbors = [n \in Node |-> {}]
    /\ reachable_nodes = [n \in Node |-> {}]
    /\ echo = [n \in Node |-> NoEcho]
    /\ inbox = [n \in Node |-> <<>>]
    /\ rx = [n \in Node |-> RxIdle]
    /\ ticker = [n \in Node |-> TickerIdle]
    /\ alive = Node
    /\ started = [n \in Node |-> 0]
    /\ ticks = [n \in Node |-> 0]

----------------------------------------------------------------------------
(* start_broadcasting_thread: nothing new while one is pending.            *)
Building(n) == [stage |-> "building", cost |-> cost[n]]
EchoesLeft(n) == n \in Tireless \/ started[n] < MAX_ECHOES[n]
MayStart(n) == echo[n] = NoEcho /\ EchoesLeft(n)
StartBroadcast(n) ==
    IF MayStart(n)
    THEN /\ echo' = [echo EXCEPT ![n] = Building(n)]
         /\ started' = [started EXCEPT ![n] = IF n \in Tireless THEN @ ELSE @ + 1]
    ELSE UNCHANGED <<echo, started>>

(* tick, when broadcast_to has run out.                                    *)
PeriodicBroadcast(n) ==
    /\ n \in alive
    /\ ~ticker[n].on
    /\ MayStart(n)
    /\ StartBroadcast(n)
    /\ UNCHANGED <<table, neighbors, reachable_nodes, inbox, rx, ticker, alive, ticks>>

(* build_custom_echo: serialize_table reads the costs row by row, some of  *)
(* them (early) before the receiver or the tick thread changes them.       *)
BuildEcho(n, early) ==
    /\ n \in alive
    /\ echo[n].stage = "building"
    /\ echo' = [echo EXCEPT ![n] =
                  [stage |-> "ready",
                   cost  |-> [d \in Node |-> IF d \in early THEN @.cost[d] ELSE cost[n][d]]]]
    /\ UNCHANGED <<table, neighbors, reachable_nodes, inbox, rx, ticker, alive, started, ticks>>

(* broadcast_table builds the packet again when the line is busy.          *)
Rebuild(n) ==
    /\ n \in alive \cap Rebuilding
    /\ echo[n].stage = "ready"
    /\ echo' = [echo EXCEPT ![n] = Building(n)]
    /\ UNCHANGED <<table, neighbors, reachable_nodes, inbox, rx, ticker, alive, started, ticks>>

(* broadcast_table sends it.  The nodes of hearers hear it; if the         *)
(* protocol was paused meanwhile the packet is dropped (hearers = {}).     *)
SendEcho(n, hearers) ==
    /\ n \in alive
    /\ echo[n].stage = "ready"
    /\ \A h \in Node : Len(inbox[h]) < MAX_QUEUE
    /\ inbox' = [h \in Node |->
                   IF h \in hearers
                   THEN Append(inbox[h], [src |-> n, cost |-> echo[n].cost])
                   ELSE inbox[h]]
    /\ echo' = [echo EXCEPT ![n] = [NoEcho EXCEPT !.stage = "sent"]]
    /\ UNCHANGED <<table, neighbors, reachable_nodes, rx, ticker, alive, started, ticks>>

(* The thread ends: only now can another broadcast be asked for.  (Where   *)
(* MAX_ECHOES allows no other, its end is left out.)                       *)
EndBroadcast(n) ==
    /\ n \in alive
    /\ echo[n].stage = "sent" /\ EchoesLeft(n)
    /\ echo' = [echo EXCEPT ![n] = NoEcho]
    /\ UNCHANGED <<table, neighbors, reachable_nodes, inbox, rx, ticker, alive, started, ticks>>

----------------------------------------------------------------------------
(* register_echo.  The echo stays at the head of inbox[n] until its end.   *)
TakeEcho(n) ==
    /\ n \in alive
    /\ inbox[n] # <<>> /\ ~rx[n].on
    /\ LET src   == Head(inbox[n]).src
           fresh == cost[n][src] = INFINITY_COST
       IN /\ neighbors' = [neighbors EXCEPT ![n] = @ \cup {src}]
          /\ rx' = [rx EXCEPT ![n] =
                [on |-> TRUE, todo |-> Node \ {n}, changed |-> fresh, list |-> Node,
                 row |-> IF fresh THEN src ELSE NoHop,
                 fields |-> IF fresh THEN <<"next_hop", "cost", "TTL">> ELSE <<>>]]
    /\ UNCHANGED <<table, reachable_nodes, echo, inbox, ticker, alive, started, ticks>>

BugOffered(e, d) == e.cost[d]
(* Also the cost of a new neighbour: a node is at cost 0 from itself.      *)
Offered(e, d)    == e.cost[d] + 1

BugUsable(e, d) == Offered(e, d) <= MAXIMUM_COST
Usable(e, d)    == e.cost[d] # INFINITY_COST /\ Offered(e, d) <= MAXIMUM_COST

BugBetter(n, e, d) ==
    Usable(e, d) /\ (cost[n][d] # Offered(e, d) \/ TTL[n][d] = 0)
BugNotWhenExpired(n, e, d) ==
    Usable(e, d) /\ (cost[n][d] > Offered(e, d) \/ cost[n][d] = INFINITY_COST)
BugNotWhenLost(n, e, d) ==
    Usable(e, d) /\ cost[n][d] # INFINITY_COST /\ cost[n][d] > Offered(e, d)
Better(n, e, d) ==
    /\ Usable(e, d)
    /\ \/ cost[n][d] > Offered(e, d)
       \/ cost[n][d] = INFINITY_COST
       \/ TTL[n][d] = 0

(* The sender has a worse path than n, or lost the path n uses.            *)
SenderShouldKnow(n, e, d) ==
    \/ /\ Usable(e, d) /\ Offered(e, d) > cost[n][d]
       /\ next_hop[n][d] # e.src
    \/ e.cost[d] = INFINITY_COST /\ next_hop[n][d] = e.src

(* The loop over the received table, one row.                              *)
LookAtRow(n) ==
    /\ n \in alive
    /\ rx[n].todo # {} /\ rx[n].fields = <<>>
    /\ LET e == Head(inbox[n])
           d == Lowest(rx[n].todo)
       IN rx' = [rx EXCEPT
                   ![n].todo = @ \ {d},
                   ![n].row = IF Better(n, e, d) THEN d ELSE NoHop,
                   ![n].fields = IF Better(n, e, d)
                                 THEN <<"cost", "next_hop", "TTL">> ELSE <<>>,
                   ![n].changed = @ \/ Better(n, e, d) \/ SenderShouldKnow(n, e, d)]
    /\ UNCHANGED <<table, neighbors, reachable_nodes, echo, inbox, ticker, alive, started, ticks>>

(* A new TTL is lost when the tick thread has read the old one and is      *)
(* about to store it decremented.                                          *)
BugNextHop(e, d) == d
LearntHop(e, d)  == e.src
WriteField(n) ==
    /\ n \in alive
    /\ rx[n].fields # <<>>
    /\ LET e == Head(inbox[n])
           d == rx[n].row
           f == Head(rx[n].fields)
       IN /\ cost' = IF f = "cost" THEN [cost EXCEPT ![n][d] = Offered(e, d)] ELSE cost
          /\ next_hop' = IF f = "next_hop"
                         THEN [next_hop EXCEPT ![n][d] = LearntHop(e, d)] ELSE next_hop
          /\ \/ TTL' = IF f = "TTL" THEN [TTL EXCEPT ![n][d] = MAX_TTL] ELSE TTL
             \/ /\ f = "TTL" /\ ticker[n].rows # {} /\ Lowest(ticker[n].rows) = d
                /\ UNCHANGED TTL
    /\ rx' = [rx EXCEPT ![n].fields = Tail(@)]
    /\ UNCHANGED <<neighbors, reachable_nodes, echo, inbox, ticker, alive, started, ticks>>

(* If anything has changed the user list is updated row by row, and at the *)
(* end a broadcast asked for.  Only the tick thread can see how far the    *)
(* loop is, so that the rows are copied together where it does not run.    *)
BugListed(n, rows) ==
    [reachable_nodes EXCEPT
       ![n] = (@ \ rows) \cup {d \in rows : cost[n][d] <= MAXIMUM_COST}]
Listed(n, rows) ==
    [reachable_nodes EXCEPT
       ![n] = (@ \ rows) \cup {d \in rows : cost[n][d] # INFINITY_COST}]
Ended(n) == rx[n].on /\ rx[n].todo = {} /\ rx[n].fields = <<>>

ListRow(n) ==
    /\ n \in alive
    /\ Ended(n) /\ ticker[n].on
    /\ rx[n].changed /\ rx[n].list # {}
    /\ LET d == Lowest(rx[n].list)
       IN /\ reachable_nodes' = Listed(n, {d})
          /\ rx' = [rx EXCEPT ![n].list = @ \ {d}]
    /\ UNCHANGED <<table, neighbors, echo, inbox, ticker, alive, started, ticks>>

EndEcho(n) ==
    /\ n \in alive
    /\ Ended(n)
    /\ IF rx[n].changed
       THEN /\ reachable_nodes' = Listed(n, rx[n].list)
            /\ StartBroadcast(n)
       ELSE UNCHANGED <<reachable_nodes, echo, started>>
    /\ rx' = [rx EXCEPT ![n] = RxIdle]
    /\ inbox' = [inbox EXCEPT ![n] = Tail(@)]
    /\ UNCHANGED <<table, neighbors, ticker, alive, ticks>>

----------------------------------------------------------------------------
(* tick: first every row is aged ...                                       *)
StartTick(n) ==
    /\ n \in alive \cap Ageing
    /\ ~ticker[n].on
    /\ MAX_TICKS = 0 \/ ticks[n] < MAX_TICKS
    /\ ticks' = [ticks EXCEPT ![n] = IF MAX_TICKS = 0 THEN 0 ELSE @ + 1]
    /\ ticker' = [ticker EXCEPT ![n] = [TickerIdle EXCEPT !.on = TRUE,
                                  !.rows = Node, !.check = Node \ {n}]]
    /\ UNCHANGED <<table, neighbors, reachable_nodes, echo, inbox, rx, alive, started>>

Aged(t)    == IF t > 0 THEN t - 1 ELSE 0
AgeRow(n) ==
    /\ n \in alive
    /\ ticker[n].rows # {}
    /\ LET d       == Lowest(ticker[n].rows)
           expired == IF Aged(TTL[n][d]) = 0 THEN {d} ELSE {}
       IN /\ TTL' = [TTL EXCEPT ![n][d] = Aged(@)]
          /\ neighbors' = [neighbors EXCEPT ![n] = @ \ expired]
          /\ reachable_nodes' = [reachable_nodes EXCEPT ![n] = @ \ expired]
          /\ cost' = IF d = n THEN [cost EXCEPT ![n][d] = 0] ELSE cost
          /\ ticker' = [ticker EXCEPT ![n].rows = @ \ {d}]
    /\ UNCHANGED <<next_hop, echo, inbox, rx, alive, started, ticks>>

(* ... then inactive_neighbours_handling: the rows through a neighbour     *)
(* whose own row has expired are dropped.                                  *)
BugInactive(n, i) == i \notin neighbors[n] /\ next_hop[n][i] = NoHop
Inactive(n, i)    == i \notin neighbors[n] /\ next_hop[n][i] = i
CheckNeighbour(n) ==
    /\ n \in alive
    /\ ticker[n].check # {}
    /\ ticker[n].rows = {} /\ ticker[n].todo = {} /\ ticker[n].row = NoHop
    /\ LET i == Lowest(ticker[n].check)
       IN ticker' = [ticker EXCEPT ![n].check = @ \ {i},
                                   ![n].gone = IF Inactive(n, i) THEN i ELSE NoHop,
                                   ![n].todo = IF Inactive(n, i) THEN Node ELSE {}]
    /\ UNCHANGED <<table, neighbors, reachable_nodes, echo, inbox, rx, alive, started, ticks>>

DropCost(n) ==
    /\ n \in alive
    /\ ticker[n].todo # {} /\ ticker[n].row = NoHop
    /\ LET j    == Lowest(ticker[n].todo)
           lost == next_hop[n][j] = ticker[n].gone
       IN /\ cost' = IF lost THEN [cost EXCEPT ![n][j] = INFINITY_COST] ELSE cost
          /\ ticker' = [ticker EXCEPT ![n].todo = @ \ {j},
                                      ![n].row = IF lost THEN j ELSE NoHop]
    /\ UNCHANGED <<next_hop, TTL, neighbors, reachable_nodes, echo, inbox, rx, alive, started, ticks>>

DropHop(n) ==
    /\ n \in alive
    /\ ticker[n].row # NoHop
    /\ next_hop' = [next_hop EXCEPT ![n][ticker[n].row] = NoHop]
    /\ ticker' = [ticker EXCEPT ![n].row = NoHop]
    /\ UNCHANGED <<cost, TTL, neighbors, reachable_nodes, echo, inbox, rx, alive, started, ticks>>

EndTick(n) ==
    /\ n \in alive
    /\ ticker[n].on
    /\ ticker[n].check = {} /\ ticker[n].todo = {} /\ ticker[n].row = NoHop
    /\ ticker' = [ticker EXCEPT ![n] = TickerIdle]
    /\ UNCHANGED <<table, neighbors, reachable_nodes, echo, inbox, rx, alive, started, ticks>>

(* A node is switched off or swims away.                                   *)
GoSilent(n) ==
    /\ n \in alive \cap Mortal
    /\ alive' = alive \ {n}
    /\ UNCHANGED <<table, neighbors, reachable_nodes, echo, inbox, rx, ticker, started, ticks>>

Broadcasting(n) ==
    \/ PeriodicBroadcast(n) \/ Rebuild(n) \/ EndBroadcast(n)
    \/ \E early \in SUBSET {d \in Node : cost[n][d] # echo[n].cost[d]} : BuildEcho(n, early)
    \/ \E hearers \in SUBSET Neighbours[n] : SendEcho(n, hearers)
Registering(n) ==
    TakeEcho(n) \/ LookAtRow(n) \/ WriteField(n) \/ ListRow(n) \/ EndEcho(n)
Ticking(n) ==
    \/ StartTick(n) \/ AgeRow(n) \/ CheckNeighbour(n)
    \/ DropCost(n) \/ DropHop(n) \/ EndTick(n)

Next == \E n \in Node :
            Broadcasting(n) \/ Registering(n) \/ Ticking(n) \/ GoSilent(n)

Spec == Init /\ [][Next]_vars

(* A node broadcasts as long as it runs, every node in range hears it once *)
(* in a while, and the receiver thread runs.                               *)
FairSpec ==
    /\ Spec
    /\ \A n \in Node : /\ WF_vars(Registering(n))
                       /\ []<><<SendEcho(n, Neighbours[n])>>_vars

(* The same where nodes may fall silent: the receiver and the tick thread  *)
(* run, a node without a bound on its broadcasts goes on with them, and an *)
(* echo that is sent again and again is heard.                             *)
AgeingSpec ==
    /\ Spec
    /\ \A n \in Node : WF_vars(Registering(n))
    /\ \A n \in Ageing : WF_vars(Ticking(n))
    /\ \A n \in Tireless :
         /\ WF_vars(PeriodicBroadcast(n) \/ BuildEcho(n, {}) \/ EndBroadcast(n))
         /\ SF_vars(SendEcho(n, Neighbours[n]))

----------------------------------------------------------------------------
(* Type invariant.  No cost exceeds INFINITY_COST, so that the barrier of  *)
(* MAXIMUM_COST is never what stops an update.                             *)
TypeOK ==
    /\ cost \in [Node -> Costs]
    /\ next_hop \in [Node -> [Node -> Row]]
    /\ TTL \in [Node -> [Node -> 0 .. MAX_TTL]]
    /\ neighbors \in [Node -> SUBSET Node]
    /\ reachable_nodes \in [Node -> SUBSET Node]
    /\ echo \in [Node -> BroadcastState]
    /\ inbox \in [Node -> Seq(Echo)]
    /\ rx \in [Node -> RegisterState]
    /\ ticker \in [Node -> TickState]
    /\ alive \subseteq Node
    /\ started \in [Node -> Nat] /\ \A n \in Node : started[n] <= MAX_ECHOES[n]
    /\ ticks \in [Node -> 0 .. MAX_TICKS]

(* A node never believes a destination nearer than it is, whatever echoes  *)
(* are lost, delayed or read from a table that is being changed, and       *)
(* whichever rows expire or nodes fall silent.                             *)
NeverTooNear ==
    \A n, d \in Node : cost[n][d] # INFINITY_COST => cost[n][d] >= Dist[n][d]

(* A next hop is a node this one hears, or missing: the receiver and the   *)
(* tick thread may leave a row with a cost and no next hop, but never one  *)
(* that names a node out of range.                                         *)
NextHopInRange ==
    \A n, d \in Node :
        d # n => \/ next_hop[n][d] = NoHop
                 \/ next_hop[n][d] \in Node /\ n \in Neighbours[next_hop[n][d]]

(* A row gets worse only when it is dropped or its TTL has run out, though *)
(* the receiver decides on a row before it writes it and the tick thread   *)
(* may change it in between.                                               *)
NeverWorse ==
    [][\A n, d \in Node :
         cost'[n][d] > cost[n][d] => cost'[n][d] = INFINITY_COST \/ TTL[n][d] = 0]_vars

(* What some of the properties below need: no row has expired, and Dist is *)
(* the number of hops, none too many for a cost.                           *)
Unexpired == \A n \in Node : \A d \in Node \ {n} : TTL[n][d] > 0
DistIsReached ==
    \A n \in Node : \A d \in Node \ {n} :
        /\ Dist[n][d] < INFINITY_COST
        /\ \E m \in Node : n \in Neighbours[m] /\ Dist[n][d] = Dist[m][d] + 1

(* As long as no row expires, next hops make no loop, although a node may  *)
(* decide on an old echo, and its neighbours change their tables meanwhile:*)
(* the next hop is nearer to the destination, unless the receiver is in    *)
(* the middle of writing that row.                                         *)
Writing(n, d) == rx[n].row = d /\ rx[n].fields # <<>>
NextHopIsNearer ==
    \A n, d \in Node :
        d # n /\ next_hop[n][d] # NoHop /\ ~Writing(n, d) =>
            cost[next_hop[n][d]][d] < cost[n][d]

(* Tables nobody can improve by telling his costs are the shortest paths.  *)
Shortest == \A n, d \in Node : cost[n][d] = Dist[n][d]
NoBetterOffer ==
    \A m, d \in Node : \A n \in Neighbours[m] :
        cost[m][d] # INFINITY_COST => cost[n][d] <= cost[m][d] + 1
RestIsShortest == NoBetterOffer => Shortest

(* And they stay so: nothing that is still under way, an old echo or a     *)
(* decision not yet written, undoes them before a row expires.             *)
ShortestStays == [][Shortest => Shortest']_vars

(* Before the first row expires, the tables settle on the shortest paths.  *)
Converges == <>[]Shortest

(* Rows expire and are dropped though the neighbour is heard, and a race   *)
(* may leave one without a next hop, but while the neighbour lives, and is *)
(* heard again and again, the route always comes back.                     *)
Recovers ==
    \A n \in Node \ Mortal : \A m \in Tireless :
        n \in Neighbours[m] =>
            []<>(m \in alive => cost[n][m] = 1 /\ next_hop[n][m] = m)

(* A node that falls silent is in the end no longer its own next hop in    *)
(* the tables of the nodes in range: whatever the tick thread and the      *)
(* receiver do to its row at the same time, and however often the echoes   *)
(* of others have it written again, nothing more is sent to it directly.   *)
NoLongerNextHop ==
    \A n \in Ageing \ Mortal : \A m \in Mortal :
        n \in Neighbours[m] =>
            (m \notin alive ~> [](next_hop[n][m] # m))

(* If the row of a node stays at infinity, the node leaves the user list   *)
(* for good, although the receiver copies rows to the list while the tick  *)
(* thread drops them, and copies all of them again with every echo that    *)
(* changes something.  (A silent node whose row keeps a cost, as Forgotten *)
(* shows, is listed again with each such echo.)                            *)
LostIsUnlisted ==
    \A n \in Ageing \ Mortal : \A m \in Mortal :
        <>[](cost[n][m] = INFINITY_COST) => <>[](m \notin reachable_nodes[n])

(* inactive_neighbours_handling: the entries through a neighbour that is   *)
(* gone are set to infinity.                                               *)
Forgotten ==
    \A n \in Ageing \ Mortal : \A m \in Mortal :
        n \in Neighbours[m] =>
            (m \notin alive ~> [](cost[n][m] = INFINITY_COST))
=============================================================================
