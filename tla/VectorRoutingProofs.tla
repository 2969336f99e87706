------------------------ MODULE VectorRoutingProofs ------------------------
(***************************************************************************)
(* Proofs about VectorRouting, for every number of nodes, every topology,  *)
(* and every INFINITY_COST, MAXIMUM_COST and MAX_TTL.                      *)
(***************************************************************************)
EXTENDS VectorRouting, WellFoundedInduction, TLAPS

Near(c, n) == \A d \in Node : c[d] # INFINITY_COST => c[d] >= Dist[n][d]

(* An echo n has heard: it comes from a node in range, and every cost in   *)
(* it was one its sender believed.                                         *)
Genuine(n, e) ==
    /\ e \in Echo
    /\ n \in Neighbours[e.src]
    /\ e.cost[e.src] = 0
    /\ Near(e.cost, e.src)

OwnRow == \A n \in Node : cost[n][n] = 0 /\ next_hop[n][n] = n

EchoNear ==
    \A n \in Node :
        /\ Near(echo[n].cost, n)
        /\ echo[n].stage \in {"building", "ready"} => echo[n].cost[n] = 0

InboxGenuine ==
    \A n \in Node : \A i \in 1 .. Len(inbox[n]) : Genuine(n, inbox[n][i])

(* What is left to write of a row, in the order register_echo writes it.   *)
WithCost == {<<"next_hop", "cost", "TTL">>, <<"cost", "TTL">>,
             <<"cost", "next_hop", "TTL">>}
Fields   == {<<>>, <<"TTL">>, <<"next_hop", "TTL">>} \cup WithCost

(* register_echo never changes the own row, and what it is about to write  *)
(* is still an improvement when it writes it.  r, q, c and t are the       *)
(* thread, the queue, the costs and the TTLs of n.                         *)
Writable(n, r, e)   == r.row \in Node \ {n} /\ e.cost[r.row] # INFINITY_COST
Improves(r, e, c, t) ==
    c[r.row] > e.cost[r.row] + 1 \/ c[r.row] = INFINITY_COST \/ t[r.row] = 0
RxEntry(n, r, q, c, t) ==
    /\ r.todo \subseteq Node \ {n}
    /\ r.fields \in Fields
    /\ r.fields # <<>> \/ r.todo # {} => r.on
    /\ r.on => q # <<>>
    /\ r.fields # <<>> => Writable(n, r, Head(q))
    /\ r.fields \in WithCost => Improves(r, Head(q), c, t)
RxSound == \A n \in Node : RxEntry(n, rx[n], inbox[n], cost[n], TTL[n])

(* The tick thread never takes its own node for an inactive neighbour.     *)
TickEntry(n, t) == t.check \subseteq Node \ {n} /\ t.gone # n /\ t.row # n
TickerApart == \A n \in Node : TickEntry(n, ticker[n])

IInv == /\ TypeOK
        /\ OwnRow /\ NeverTooNear /\ NextHopInRange
        /\ EchoNear /\ InboxGenuine /\ RxSound /\ TickerApart

----------------------------------------------------------------------------
(* A nonempty set of numbers has a least one.                              *)
LEMMA LeastNumber ==
    ASSUME NEW S \in SUBSET Nat, S # {}
    PROVE  \E x \in S : \A y \in S : x <= y
  <1> DEFINE R == OpToRel(<, Nat)
  <1>1. IsWellFoundedOn(R, Nat)
      BY NatLessThanWellFounded
  <1>2. \A x, y \in Nat : <<x, y>> \in R <=> x < y
      BY DEF OpToRel
  <1> HIDE DEF R
  <1>3. \E x \in S : \A y \in S : ~(<<y, x>> \in R)
      BY <1>1, WFMin, Zenon
  <1>4. PICK x \in S : \A y \in S : ~(<<y, x>> \in R)
      BY <1>3
  <1>5. ASSUME NEW y \in S
        PROVE  x <= y
    <2>1. x \in Nat /\ y \in Nat
        OBVIOUS
    <2>2. ~(y < x)
        BY <1>2, <1>4, <2>1, Zenon
    <2>3. QED
        BY <2>1, <2>2
  <1>6. QED
      BY <1>5

(* The least of a nonempty set of addresses is one of them.                *)
LEMMA LowestIn == \A S \in SUBSET Node : S # {} => Lowest(S) \in S
  BY LeastNumber, RangeAssumption DEF Lowest

(* The packet the broadcast thread builds holds costs the node believes.   *)
LEMMA BuildingSound ==
    ASSUME IInv, NEW n \in Node
    PROVE  /\ Building(n) \in BroadcastState
           /\ Near(Building(n).cost, n)
           /\ Building(n).cost[n] = 0
  <1>1. cost[n] \in Costs
      BY DEF IInv, TypeOK
  <1>2. Near(cost[n], n) /\ cost[n][n] = 0
      BY DEF IInv, NeverTooNear, Near, OwnRow
  <1>3. Building(n).cost = cost[n]
      BY DEF Building
  <1>4. Building(n) \in BroadcastState
      BY <1>1 DEF Building, BroadcastState
  <1>5. QED
      BY <1>2, <1>3, <1>4

(* Without a broadcast thread there is no cost to be wrong.                *)
LEMMA NoEchoSound ==
    ASSUME NEW n \in Node
    PROVE  /\ NoEcho \in BroadcastState
           /\ Near(NoEcho.cost, n)
           /\ NoEcho.stage = "none"
  <1>1. Unreachable \in Costs /\ Near(Unreachable, n)
      BY CostAssumption DEF Unreachable, Costs, Cost, Near
  <1>2. NoEcho.cost = Unreachable /\ NoEcho.stage = "none"
      BY DEF NoEcho
  <1>3. NoEcho \in BroadcastState
      BY <1>1 DEF NoEcho, BroadcastState
  <1>4. QED
      BY <1>1, <1>2, <1>3

(* start_broadcasting_thread keeps the broadcasts of a node within bounds. *)
LEMMA StartedBounded ==
    ASSUME TypeOK, NEW n \in Node, StartBroadcast(n)
    PROVE  started' \in [Node -> Nat] /\ \A m \in Node : started'[m] <= MAX_ECHOES[m]
  <1>1. /\ started \in [Node -> Nat] /\ \A m \in Node : started[m] <= MAX_ECHOES[m]
        /\ MAX_ECHOES \in [Node -> Nat]
      BY CostAssumption DEF TypeOK
  <1>2. CASE MayStart(n)
    <2> DEFINE k == IF n \in Tireless THEN started[n] ELSE started[n] + 1
    <2>1. started' = [started EXCEPT ![n] = k]
        BY <1>2 DEF StartBroadcast
    <2>2. k \in Nat /\ k <= MAX_ECHOES[n]
        BY <1>1, <1>2 DEF MayStart, EchoesLeft
    <2>3. QED
        BY <1>1, <2>1, <2>2
  <1>3. CASE ~MayStart(n)
      BY <1>1, <1>3 DEF StartBroadcast
  <1>4. QED
      BY <1>2, <1>3

(* start_broadcasting_thread starts with what the node believes.           *)
LEMMA StartSound ==
    ASSUME IInv, NEW n \in Node, StartBroadcast(n)
    PROVE  echo' \in [Node -> BroadcastState] /\ EchoNear'
  <1>1. echo \in [Node -> BroadcastState] /\ EchoNear
      BY DEF IInv, TypeOK
  <1>2. /\ Building(n) \in BroadcastState
        /\ Near(Building(n).cost, n)
        /\ Building(n).cost[n] = 0
      BY BuildingSound
  <1>3. CASE MayStart(n)
    <2>1. echo' = [echo EXCEPT ![n] = Building(n)]
        BY <1>3 DEF StartBroadcast
    <2>2. QED
        BY <1>1, <1>2, <2>1 DEF EchoNear
  <1>4. CASE ~MayStart(n)
      BY <1>1, <1>4 DEF StartBroadcast, EchoNear
  <1>5. QED
      BY <1>3, <1>4

(* What register_echo reads at the head of the queue is an echo of a node  *)
(* in range.                                                               *)
LEMMA HeadGenuine ==
    ASSUME IInv, NEW n \in Node, inbox[n] # <<>>
    PROVE  Genuine(n, Head(inbox[n]))
  <1>1. inbox[n] \in Seq(Echo)
      BY DEF IInv, TypeOK
  <1>2. 1 \in 1 .. Len(inbox[n]) /\ Head(inbox[n]) = inbox[n][1]
      BY <1>1
  <1>3. QED
      BY <1>2 DEF IInv, InboxGenuine

(* Costs and sender of such an echo.                                       *)
LEMMA GenuineFacts ==
    ASSUME NEW n \in Node, NEW e, Genuine(n, e)
    PROVE  /\ e.src \in Node \ {n}
           /\ e.cost \in [Node -> 0 .. INFINITY_COST]
           /\ e.cost[e.src] # INFINITY_COST
           /\ \A d \in Node : e.cost[d] # INFINITY_COST =>
                 /\ e.cost[d] + 1 \in Cost
                 /\ e.cost[d] + 1 >= Dist[n][d]
  <1>1. e.src \in Node \ {n} /\ e.cost \in [Node -> 0 .. INFINITY_COST]
      BY RangeAssumption DEF Genuine, Echo, Costs, Cost
  <1>2. e.cost[e.src] # INFINITY_COST
      BY CostAssumption DEF Genuine
  <1>3. ASSUME NEW d \in Node, e.cost[d] # INFINITY_COST
        PROVE  e.cost[d] + 1 \in Cost /\ e.cost[d] + 1 >= Dist[n][d]
    <2>1. e.cost[d] >= Dist[e.src][d] /\ n \in Neighbours[e.src]
        BY <1>3 DEF Genuine, Near
    <2>2. Dist[n][d] <= Dist[e.src][d] + 1
        BY <1>1, <2>1, DistAssumption
    <2>3. e.cost[d] \in 0 .. INFINITY_COST /\ Dist[n][d] \in Nat /\ Dist[e.src][d] \in Nat
        BY <1>1, DistAssumption
    <2>4. QED
        BY <1>3, <2>1, <2>2, <2>3, CostAssumption DEF Cost
  <1>4. QED
      BY <1>1, <1>2, <1>3

(* There is something left to write when the cost is.                      *)
LEMMA CostToWrite == <<>> \notin WithCost
  <1>1. /\ <<>> # <<"next_hop", "cost", "TTL">>
        /\ <<>> # <<"cost", "TTL">>
        /\ <<>> # <<"cost", "next_hop", "TTL">>
      OBVIOUS
  <1>2. QED
      BY ONLY <1>1, Zenon DEF WithCost

(* The sequences of fields to write, and what is left after a write.       *)
LEMMA FieldsTail ==
    /\ Fields \subseteq Seq({"cost", "next_hop", "TTL"})
    /\ \A fs \in Fields \ {<<>>} :
          /\ Tail(fs) \in Fields
          /\ Tail(fs) \in WithCost => fs \in WithCost /\ Head(fs) = "next_hop"
          /\ Head(fs) = "cost" => fs \in WithCost
  <1>1. Fields \subseteq Seq({"cost", "next_hop", "TTL"})
      BY DEF Fields, WithCost
  <1>2. /\ Tail(<<"TTL">>) = <<>>
        /\ Tail(<<"next_hop", "TTL">>) = <<"TTL">>
        /\ Tail(<<"cost", "TTL">>) = <<"TTL">>
        /\ Tail(<<"next_hop", "cost", "TTL">>) = <<"cost", "TTL">>
        /\ Tail(<<"cost", "next_hop", "TTL">>) = <<"next_hop", "TTL">>
      OBVIOUS
  <1>3. /\ Head(<<"TTL">>) = "TTL"
        /\ Head(<<"next_hop", "TTL">>) = "next_hop"
        /\ Head(<<"cost", "TTL">>) = "cost"
        /\ Head(<<"next_hop", "cost", "TTL">>) = "next_hop"
        /\ Head(<<"cost", "next_hop", "TTL">>) = "cost"
      OBVIOUS
  <1>4. <<>> \notin WithCost /\ <<"TTL">> \notin WithCost /\ <<"next_hop", "TTL">> \notin WithCost
      BY DEF WithCost
  <1>5. ASSUME NEW fs \in Fields \ {<<>>}
        PROVE  /\ Tail(fs) \in Fields
               /\ Tail(fs) \in WithCost => fs \in WithCost /\ Head(fs) = "next_hop"
               /\ Head(fs) = "cost" => fs \in WithCost
    <2>1. CASE fs = <<"TTL">>
        BY <1>2, <1>3, <1>4, <2>1, Zenon DEF Fields
    <2>2. CASE fs = <<"next_hop", "TTL">>
        BY <1>2, <1>3, <1>4, <2>2, Zenon DEF Fields
    <2>3. CASE fs = <<"next_hop", "cost", "TTL">>
        BY <1>2, <1>3, <2>3, Zenon DEF Fields, WithCost
    <2>4. CASE fs \in WithCost /\ fs # <<"next_hop", "cost", "TTL">>
        BY <1>2, <1>3, <1>4, <2>4, Zenon DEF Fields, WithCost
    <2>5. QED
        BY <2>1, <2>2, <2>3, <2>4 DEF Fields
  <1>6. QED
      BY <1>1, <1>5

(* An echo more at the end of a queue leaves its head where it was.        *)
LEMMA AppendHead ==
    \A s \in Seq(Echo), e \in Echo :
        /\ Append(s, e) \in Seq(Echo) /\ Append(s, e) # <<>>
        /\ s # <<>> => Head(Append(s, e)) = Head(s)
        /\ \A i \in 1 .. Len(Append(s, e)) :
              Append(s, e)[i] = e \/ (i \in 1 .. Len(s) /\ Append(s, e)[i] = s[i])
  OBVIOUS

(* The tick asks for a broadcast: the invariant holds afterwards.          *)
LEMMA PeriodicBroadcastStep ==
    ASSUME IInv, NEW n \in Node, PeriodicBroadcast(n)
    PROVE  IInv'
  <1>0. TypeOK
      BY DEF IInv
  <1>a. StartBroadcast(n)
      BY DEF PeriodicBroadcast
  <1>1. TypeOK'
    <2>1. echo' \in [Node -> BroadcastState]
        BY <1>a, StartSound
    <2>2. started' \in [Node -> Nat] /\ \A m \in Node : started'[m] <= MAX_ECHOES[m]
        BY <1>0, <1>a, StartedBounded
    <2>3. QED
        BY <1>0, <2>1, <2>2 DEF TypeOK, PeriodicBroadcast, StartBroadcast, MayStart, table
  <1>2. OwnRow'
      BY DEF IInv, OwnRow, PeriodicBroadcast, StartBroadcast, MayStart, table
  <1>3. NeverTooNear'
      BY DEF IInv, NeverTooNear, PeriodicBroadcast, StartBroadcast, MayStart, table
  <1>4. NextHopInRange'
      BY DEF IInv, NextHopInRange, PeriodicBroadcast, StartBroadcast, MayStart, table
  <1>5. EchoNear'
      BY <1>a, StartSound
  <1>6. InboxGenuine'
      BY DEF IInv, InboxGenuine, PeriodicBroadcast, StartBroadcast, MayStart, table
  <1>7. RxSound'
      BY DEF IInv, RxSound, PeriodicBroadcast, StartBroadcast, MayStart, table
  <1>8. TickerApart'
      BY DEF IInv, TickerApart, PeriodicBroadcast, StartBroadcast, MayStart, table
  <1>9. QED
      BY <1>1, <1>2, <1>3, <1>4, <1>5, <1>6, <1>7, <1>8 DEF IInv

(* A busy line starts the packet again: the invariant holds afterwards.    *)
LEMMA RebuildStep ==
    ASSUME IInv, NEW n \in Node, Rebuild(n)
    PROVE  IInv'
  <1>0. TypeOK
      BY DEF IInv
  <1>a. /\ Building(n) \in BroadcastState
        /\ Near(Building(n).cost, n)
        /\ Building(n).cost[n] = 0
      BY BuildingSound
  <1>1. TypeOK'
    <2>1. echo' \in [Node -> BroadcastState]
        BY <1>0, <1>a DEF TypeOK, Rebuild
    <2>2. QED
        BY <1>0, <2>1 DEF TypeOK, Rebuild, table
  <1>2. OwnRow'
      BY DEF IInv, OwnRow, Rebuild, table
  <1>3. NeverTooNear'
      BY DEF IInv, NeverTooNear, Rebuild, table
  <1>4. NextHopInRange'
      BY DEF IInv, NextHopInRange, Rebuild, table
  <1>5. EchoNear'
      BY <1>0, <1>a DEF IInv, TypeOK, EchoNear, Rebuild
  <1>6. InboxGenuine'
      BY DEF IInv, InboxGenuine, Rebuild, table
  <1>7. RxSound'
      BY DEF IInv, RxSound, Rebuild, table
  <1>8. TickerApart'
      BY DEF IInv, TickerApart, Rebuild, table
  <1>9. QED
      BY <1>1, <1>2, <1>3, <1>4, <1>5, <1>6, <1>7, <1>8 DEF IInv

(* The broadcast thread ends: the invariant holds afterwards.              *)
LEMMA EndBroadcastStep ==
    ASSUME IInv, NEW n \in Node, EndBroadcast(n)
    PROVE  IInv'
  <1>0. TypeOK
      BY DEF IInv
  <1>a. NoEcho \in BroadcastState /\ Near(NoEcho.cost, n) /\ NoEcho.stage = "none"
      BY NoEchoSound
  <1>1. TypeOK'
    <2>1. echo' \in [Node -> BroadcastState]
        BY <1>0, <1>a DEF TypeOK, EndBroadcast
    <2>2. QED
        BY <1>0, <2>1 DEF TypeOK, EndBroadcast, table
  <1>2. OwnRow'
      BY DEF IInv, OwnRow, EndBroadcast, table
  <1>3. NeverTooNear'
      BY DEF IInv, NeverTooNear, EndBroadcast, table
  <1>4. NextHopInRange'
      BY DEF IInv, NextHopInRange, EndBroadcast, table
  <1>5. EchoNear'
      BY <1>0, <1>a DEF IInv, TypeOK, EchoNear, EndBroadcast
  <1>6. InboxGenuine'
      BY DEF IInv, InboxGenuine, EndBroadcast, table
  <1>7. RxSound'
      BY DEF IInv, RxSound, EndBroadcast, table
  <1>8. TickerApart'
      BY DEF IInv, TickerApart, EndBroadcast, table
  <1>9. QED
      BY <1>1, <1>2, <1>3, <1>4, <1>5, <1>6, <1>7, <1>8 DEF IInv

(* The packet mixes costs from before and after other threads write: the invariant holds afterwards.*)
LEMMA BuildEchoStep ==
    ASSUME IInv, NEW n \in Node, NEW early, BuildEcho(n, early)
    PROVE  IInv'
  <1>0. TypeOK
      BY DEF IInv
  <1> DEFINE c == [d \in Node |-> IF d \in early THEN echo[n].cost[d] ELSE cost[n][d]]
             b == [stage |-> "ready", cost |-> c]
  <1>a. echo' = [echo EXCEPT ![n] = b]
      BY DEF BuildEcho
  <1>b. echo[n] \in BroadcastState /\ cost[n] \in Costs
      BY <1>0 DEF TypeOK
  <1>c. c \in Costs /\ b \in BroadcastState
      BY <1>b DEF BroadcastState, Costs
  <1>d. Near(echo[n].cost, n) /\ echo[n].cost[n] = 0
      BY DEF IInv, EchoNear, BuildEcho
  <1>e. Near(cost[n], n) /\ cost[n][n] = 0
      BY DEF IInv, NeverTooNear, Near, OwnRow
  <1>f. Near(c, n) /\ c[n] = 0
      BY <1>d, <1>e DEF Near
  <1>g. b.cost = c
      OBVIOUS
  <1> HIDE DEF c, b
  <1>1. TypeOK'
    <2>1. echo' \in [Node -> BroadcastState]
        BY <1>0, <1>a, <1>c DEF TypeOK
    <2>2. QED
        BY <1>0, <2>1 DEF TypeOK, BuildEcho, table
  <1>2. OwnRow'
      BY DEF IInv, OwnRow, BuildEcho, table
  <1>3. NeverTooNear'
      BY DEF IInv, NeverTooNear, BuildEcho, table
  <1>4. NextHopInRange'
      BY DEF IInv, NextHopInRange, BuildEcho, table
  <1>5. EchoNear'
      BY <1>0, <1>a, <1>f, <1>g DEF IInv, TypeOK, EchoNear
  <1>6. InboxGenuine'
      BY DEF IInv, InboxGenuine, BuildEcho, table
  <1>7. RxSound'
      BY DEF IInv, RxSound, BuildEcho, table
  <1>8. TickerApart'
      BY DEF IInv, TickerApart, BuildEcho, table
  <1>9. QED
      BY <1>1, <1>2, <1>3, <1>4, <1>5, <1>6, <1>7, <1>8 DEF IInv

(* The echo reaches some of the nodes in range: the invariant holds afterwards.*)
LEMMA SendEchoStep ==
    ASSUME IInv, NEW n \in Node, NEW hearers \in SUBSET Neighbours[n], SendEcho(n, hearers)
    PROVE  IInv'
  <1>0. TypeOK
      BY DEF IInv
  <1> DEFINE b == [NoEcho EXCEPT !.stage = "sent"]
             e == [src |-> n, cost |-> echo[n].cost]
  <1>a. b \in BroadcastState /\ Near(b.cost, n) /\ b.stage = "sent"
      BY NoEchoSound DEF BroadcastState
  <1>b. /\ echo' = [echo EXCEPT ![n] = b]
        /\ inbox' = [h \in Node |-> IF h \in hearers THEN Append(inbox[h], e) ELSE inbox[h]]
      BY DEF SendEcho
  <1>c. echo[n] \in BroadcastState /\ inbox \in [Node -> Seq(Echo)]
      BY <1>0 DEF TypeOK
  <1>d. e \in Echo
      BY <1>c DEF Echo, BroadcastState
  <1>e. Near(echo[n].cost, n) /\ echo[n].cost[n] = 0
      BY DEF IInv, EchoNear, SendEcho
  <1>f. \A h \in hearers : Genuine(h, e)
      BY <1>d, <1>e DEF Genuine
  <1> HIDE DEF b, e
  <1>1. TypeOK'
    <2>1. echo' \in [Node -> BroadcastState]
        BY <1>0, <1>a, <1>b DEF TypeOK
    <2>2. inbox' \in [Node -> Seq(Echo)]
        BY <1>b, <1>c, <1>d, AppendHead
    <2>3. QED
        BY <1>0, <2>1, <2>2 DEF TypeOK, SendEcho, table
  <1>2. OwnRow'
      BY DEF IInv, OwnRow, SendEcho, table
  <1>3. NeverTooNear'
      BY DEF IInv, NeverTooNear, SendEcho, table
  <1>4. NextHopInRange'
      BY DEF IInv, NextHopInRange, SendEcho, table
  <1>5. EchoNear'
      BY <1>0, <1>a, <1>b DEF IInv, TypeOK, EchoNear
  <1>6. InboxGenuine'
    <2> SUFFICES ASSUME NEW h \in Node, NEW i \in 1 .. Len(inbox'[h])
                 PROVE  Genuine(h, inbox'[h][i])
        BY DEF InboxGenuine
    <2>1. CASE h \in hearers
      <3>1. inbox'[h] = Append(inbox[h], e) /\ inbox[h] \in Seq(Echo)
          BY <1>b, <1>c, <2>1
      <3>2. inbox'[h][i] = e \/ (i \in 1 .. Len(inbox[h]) /\ inbox'[h][i] = inbox[h][i])
          BY <1>d, <3>1, AppendHead
      <3>3. QED
          BY <1>f, <2>1, <3>2 DEF IInv, InboxGenuine
    <2>2. CASE h \notin hearers
        BY <1>b, <2>2 DEF IInv, InboxGenuine
    <2>3. QED
        BY <2>1, <2>2
  <1>7. RxSound'
    <2> SUFFICES ASSUME NEW h \in Node
                 PROVE  RxEntry(h, rx[h], inbox'[h], cost[h], TTL[h])
        BY DEF RxSound, SendEcho, table
    <2>1. RxEntry(h, rx[h], inbox[h], cost[h], TTL[h])
        BY DEF IInv, RxSound
    <2>2. CASE h \in hearers
      <3>1. inbox'[h] = Append(inbox[h], e) /\ inbox[h] \in Seq(Echo)
          BY <1>b, <1>c, <2>2
      <3>2. /\ inbox'[h] # <<>>
            /\ inbox[h] # <<>> => Head(inbox'[h]) = Head(inbox[h])
          BY <1>d, <3>1, AppendHead
      <3>3. rx[h].fields # <<>> => inbox[h] # <<>>
          BY <2>1 DEF RxEntry
      <3>4. rx[h].fields \in WithCost => rx[h].fields # <<>>
          BY ONLY CostToWrite, Zenon
      <3>5. QED
          BY <2>1, <3>2, <3>3, <3>4 DEF RxEntry
    <2>3. CASE h \notin hearers
        BY <1>b, <2>1, <2>3
    <2>4. QED
        BY <2>2, <2>3
  <1>8. TickerApart'
      BY DEF IInv, TickerApart, SendEcho, table
  <1>9. QED
      BY <1>1, <1>2, <1>3, <1>4, <1>5, <1>6, <1>7, <1>8 DEF IInv

(* register_echo takes an echo: the invariant holds afterwards.            *)
LEMMA TakeEchoStep ==
    ASSUME IInv, NEW n \in Node, TakeEcho(n)
    PROVE  IInv'
  <1>0. TypeOK
      BY DEF IInv
  <1> DEFINE e     == Head(inbox[n])
             fresh == cost[n][e.src] = INFINITY_COST
             r     == [on |-> TRUE, todo |-> Node \ {n}, changed |-> fresh, list |-> Node,
                       row |-> IF fresh THEN e.src ELSE NoHop,
                       fields |-> IF fresh THEN <<"next_hop", "cost", "TTL">> ELSE <<>>]
  <1>a. /\ neighbors' = [neighbors EXCEPT ![n] = @ \cup {e.src}]
        /\ rx' = [rx EXCEPT ![n] = r]
        /\ inbox[n] # <<>>
      BY DEF TakeEcho
  <1>b. e.src \in Node \ {n} /\ e.cost[e.src] # INFINITY_COST
      BY <1>a, HeadGenuine, GenuineFacts
  <1>c. r.fields \in Fields /\ r.fields \in Seq({"cost", "next_hop", "TTL"})
      BY FieldsTail DEF Fields, WithCost
  <1>d. r \in RegisterState
      BY <1>b, <1>c DEF RegisterState, Row
  <1>e. RxEntry(n, r, inbox[n], cost[n], TTL[n])
    <2>1. CASE fresh
        BY <1>a, <1>b, <1>c, <2>1 DEF RxEntry, Writable, Improves
    <2>2. CASE ~fresh
        BY <1>a, <1>c, <2>2 DEF RxEntry, WithCost
    <2>3. QED
        BY <2>1, <2>2
  <1> HIDE DEF e, r
  <1>1. TypeOK'
    <2>1. neighbors' \in [Node -> SUBSET Node]
        BY <1>0, <1>a, <1>b DEF TypeOK
    <2>2. rx' \in [Node -> RegisterState]
        BY <1>0, <1>a, <1>d DEF TypeOK
    <2>3. QED
        BY <1>0, <2>1, <2>2 DEF TypeOK, TakeEcho, table
  <1>2. OwnRow'
      BY DEF IInv, OwnRow, TakeEcho, table
  <1>3. NeverTooNear'
      BY DEF IInv, NeverTooNear, TakeEcho, table
  <1>4. NextHopInRange'
      BY DEF IInv, NextHopInRange, TakeEcho, table
  <1>5. EchoNear'
      BY DEF IInv, EchoNear, TakeEcho, table
  <1>6. InboxGenuine'
      BY DEF IInv, InboxGenuine, TakeEcho, table
  <1>7. RxSound'
      BY <1>0, <1>a, <1>e DEF IInv, TypeOK, RxSound, TakeEcho, table
  <1>8. TickerApart'
      BY DEF IInv, TickerApart, TakeEcho, table
  <1>9. QED
      BY <1>1, <1>2, <1>3, <1>4, <1>5, <1>6, <1>7, <1>8 DEF IInv

(* register_echo decides on a row: the invariant holds afterwards.         *)
LEMMA LookAtRowStep ==
    ASSUME IInv, NEW n \in Node, LookAtRow(n)
    PROVE  IInv'
  <1>0. TypeOK
      BY DEF IInv
  <1> DEFINE e == Head(inbox[n])
             d == Lowest(rx[n].todo)
             B == Better(n, e, d)
             r == [rx[n] EXCEPT !.todo = @ \ {d},
                     !.row = IF B THEN d ELSE NoHop,
                     !.fields = IF B THEN <<"cost", "next_hop", "TTL">> ELSE <<>>,
                     !.changed = @ \/ B \/ SenderShouldKnow(n, e, d)]
  <1>a. rx[n] \in RegisterState
      BY <1>0 DEF TypeOK
  <1>b. rx' = [rx EXCEPT ![n] = r]
      BY <1>0, <1>a DEF LookAtRow, TypeOK, RegisterState
  <1>c. RxEntry(n, rx[n], inbox[n], cost[n], TTL[n]) /\ rx[n].todo # {}
      BY DEF IInv, RxSound, LookAtRow
  <1>d. d \in rx[n].todo /\ d \in Node \ {n} /\ rx[n].on /\ inbox[n] # <<>>
      BY <1>c, LowestIn DEF RxEntry
  <1>h. r.fields = IF B THEN <<"cost", "next_hop", "TTL">> ELSE <<>>
      BY <1>a DEF RegisterState
  <1>e. r.fields \in Fields /\ r.fields \in Seq({"cost", "next_hop", "TTL"})
    <2>1. CASE B
      <3>1. r.fields = <<"cost", "next_hop", "TTL">>
          BY <1>h, <2>1
      <3>2. <<"cost", "next_hop", "TTL">> \in Fields
          BY DEF Fields, WithCost
      <3>3. <<"cost", "next_hop", "TTL">> \in Seq({"cost", "next_hop", "TTL"})
          OBVIOUS
      <3>4. QED
          BY ONLY <3>1, <3>2, <3>3, Zenon
    <2>2. CASE ~B
      <3>1. r.fields = <<>>
          BY <1>h, <2>2
      <3>2. QED
          BY ONLY <3>1 DEF Fields, WithCost
    <2>3. QED
        BY <2>1, <2>2
  <1>f. r \in RegisterState
      BY <1>a, <1>d, <1>e DEF RegisterState, Row, B, Better, SenderShouldKnow
  <1>g. RxEntry(n, r, inbox[n], cost[n], TTL[n])
    <2>1. r.todo \subseteq Node \ {n} /\ r.on
        BY <1>c, <1>d DEF RxEntry
    <2>2. CASE B
      <3>1. r.row = d /\ r.fields = <<"cost", "next_hop", "TTL">>
          BY <2>2
      <3>2. Writable(n, r, e) /\ Improves(r, e, cost[n], TTL[n])
          BY <1>d, <2>2, <3>1 DEF Writable, Improves, Better, Usable, Offered
      <3>3. QED
          BY <1>d, <1>e, <2>1, <3>2 DEF RxEntry
    <2>3. CASE ~B
        BY <1>d, <1>e, <2>1, <2>3 DEF RxEntry, WithCost
    <2>4. QED
        BY <2>2, <2>3
  <1> HIDE DEF e, d, r
  <1>1. TypeOK'
    <2>1. rx' \in [Node -> RegisterState]
        BY <1>0, <1>b, <1>f DEF TypeOK
    <2>2. QED
        BY <1>0, <2>1 DEF TypeOK, LookAtRow, table
  <1>2. OwnRow'
      BY DEF IInv, OwnRow, LookAtRow, table
  <1>3. NeverTooNear'
      BY DEF IInv, NeverTooNear, LookAtRow, table
  <1>4. NextHopInRange'
      BY DEF IInv, NextHopInRange, LookAtRow, table
  <1>5. EchoNear'
      BY DEF IInv, EchoNear, LookAtRow, table
  <1>6. InboxGenuine'
      BY DEF IInv, InboxGenuine, LookAtRow, table
  <1>7. RxSound'
      BY <1>0, <1>b, <1>g DEF IInv, TypeOK, RxSound, LookAtRow, table
  <1>8. TickerApart'
      BY DEF IInv, TickerApart, LookAtRow, table
  <1>9. QED
      BY <1>1, <1>2, <1>3, <1>4, <1>5, <1>6, <1>7, <1>8 DEF IInv

(* register_echo writes a field it decided on earlier: the invariant holds afterwards.*)
LEMMA WriteFieldStep ==
    ASSUME IInv, NEW n \in Node, WriteField(n)
    PROVE  IInv'
  <1>0. TypeOK
      BY DEF IInv
  <1> DEFINE e == Head(inbox[n])
             d == rx[n].row
             f == Head(rx[n].fields)
             r == [rx[n] EXCEPT !.fields = Tail(@)]
  <1>a. rx[n] \in RegisterState /\ rx' = [rx EXCEPT ![n] = r]
      BY <1>0 DEF WriteField, TypeOK, RegisterState
  <1>b. /\ RxEntry(n, rx[n], inbox[n], cost[n], TTL[n])
        /\ rx[n].fields \in Fields \ {<<>>}
        /\ rx[n].on /\ inbox[n] # <<>>
      BY DEF IInv, RxSound, RxEntry, WriteField
  <1>c. d \in Node \ {n} /\ e.cost[d] # INFINITY_COST
      BY <1>b DEF RxEntry, Writable
  <1>d. Genuine(n, e)
      BY <1>b, HeadGenuine
  <1>e. e.src \in Node \ {n} /\ Offered(e, d) \in Cost /\ Offered(e, d) >= Dist[n][d]
      BY <1>c, <1>d, GenuineFacts DEF Offered
  <1>f. /\ Tail(rx[n].fields) \in Fields
        /\ Tail(rx[n].fields) \in Seq({"cost", "next_hop", "TTL"})
        /\ Tail(rx[n].fields) \in WithCost => rx[n].fields \in WithCost /\ f = "next_hop"
      BY <1>b, FieldsTail
  <1>g. /\ cost' = IF f = "cost" THEN [cost EXCEPT ![n][d] = Offered(e, d)] ELSE cost
        /\ next_hop' = IF f = "next_hop" THEN [next_hop EXCEPT ![n][d] = e.src] ELSE next_hop
        /\ TTL' = TTL \/ (f = "TTL" /\ TTL' = [TTL EXCEPT ![n][d] = MAX_TTL])
        /\ inbox' = inbox
      BY DEF WriteField, LearntHop
  <1>h. r.on = rx[n].on /\ r.todo = rx[n].todo /\ r.row = d
        /\ r.fields = Tail(rx[n].fields)
      BY <1>a DEF RegisterState
  <1>i. r \in RegisterState
      BY <1>a, <1>f DEF RegisterState
  <1> HIDE DEF e, d, f, r
  <1>1. TypeOK'
    <2>1. cost' \in [Node -> Costs]
        BY <1>0, <1>c, <1>e, <1>g DEF TypeOK, Costs
    <2>2. next_hop' \in [Node -> [Node -> Row]]
        BY <1>0, <1>c, <1>e, <1>g DEF TypeOK, Row
    <2>3. TTL' \in [Node -> [Node -> 0 .. MAX_TTL]]
      <3>1. TTL \in [Node -> [Node -> 0 .. MAX_TTL]] /\ MAX_TTL \in 0 .. MAX_TTL
          BY <1>0, CostAssumption DEF TypeOK
      <3>2. [TTL EXCEPT ![n][d] = MAX_TTL] \in [Node -> [Node -> 0 .. MAX_TTL]]
          BY <1>c, <3>1
      <3>3. QED
          BY <1>g, <3>1, <3>2
    <2>4. rx' \in [Node -> RegisterState]
        BY <1>0, <1>a, <1>i DEF TypeOK
    <2>5. QED
        BY <1>0, <2>1, <2>2, <2>3, <2>4 DEF TypeOK, WriteField, table
  <1>2. OwnRow'
      BY <1>0, <1>c, <1>g DEF IInv, TypeOK, OwnRow, Costs
  <1>3. NeverTooNear'
      BY <1>0, <1>c, <1>e, <1>g DEF IInv, TypeOK, NeverTooNear, Costs
  <1>4. NextHopInRange'
      BY <1>0, <1>c, <1>d, <1>e, <1>g DEF IInv, TypeOK, NextHopInRange, Genuine
  <1>5. EchoNear'
      BY DEF IInv, EchoNear, WriteField, table
  <1>6. InboxGenuine'
      BY DEF IInv, InboxGenuine, WriteField, table
  <1>7. RxSound'
    <2>1. Writable(n, r, e)
        BY <1>c, <1>h DEF Writable
    <2>2. ASSUME r.fields \in WithCost
          PROVE  Improves(r, e, cost'[n], TTL'[n])
      <3>1. rx[n].fields \in WithCost /\ f = "next_hop"
          BY <1>f, <1>h, <2>2
      <3>2. Improves(rx[n], e, cost[n], TTL[n]) /\ cost' = cost /\ TTL' = TTL
          BY <1>b, <1>g, <3>1 DEF RxEntry, e
      <3>3. QED
          BY <1>h, <3>2 DEF Improves, d
    <2>3. RxEntry(n, r, inbox[n], cost'[n], TTL'[n])
        BY <1>b, <1>f, <1>h, <2>1, <2>2 DEF RxEntry, e
    <2>4. ASSUME NEW m \in Node, m # n
          PROVE  cost'[m] = cost[m] /\ TTL'[m] = TTL[m] /\ rx'[m] = rx[m]
        BY <1>0, <1>a, <1>g, <2>4 DEF TypeOK
    <2>5. rx'[n] = r
        BY <1>0, <1>a DEF TypeOK
    <2>6. QED
        BY <1>g, <2>3, <2>4, <2>5 DEF IInv, RxSound
  <1>8. TickerApart'
      BY DEF IInv, TickerApart, WriteField, table
  <1>9. QED
      BY <1>1, <1>2, <1>3, <1>4, <1>5, <1>6, <1>7, <1>8 DEF IInv

(* A row is copied to the user list: the invariant holds afterwards.       *)
LEMMA ListRowStep ==
    ASSUME IInv, NEW n \in Node, ListRow(n)
    PROVE  IInv'
  <1>0. TypeOK
      BY DEF IInv
  <1> DEFINE d == Lowest(rx[n].list)
             r == [rx[n] EXCEPT !.list = @ \ {d}]
  <1>a. rx[n] \in RegisterState /\ rx' = [rx EXCEPT ![n] = r]
      BY <1>0 DEF ListRow, TypeOK, RegisterState
  <1>b. d \in Node
      BY <1>a, LowestIn DEF ListRow, RegisterState
  <1>c. r \in RegisterState
      BY <1>a DEF RegisterState
  <1>d. /\ r.on = rx[n].on /\ r.todo = rx[n].todo
        /\ r.fields = rx[n].fields /\ r.row = rx[n].row
      BY <1>a DEF RegisterState
  <1> HIDE DEF d, r
  <1>1. TypeOK'
    <2>1. rx' \in [Node -> RegisterState]
        BY <1>0, <1>a, <1>c DEF TypeOK
    <2>2. reachable_nodes' \in [Node -> SUBSET Node]
        BY <1>0, <1>b DEF TypeOK, ListRow, Listed, d
    <2>3. QED
        BY <1>0, <2>1, <2>2 DEF TypeOK, ListRow, table
  <1>2. OwnRow'
      BY DEF IInv, OwnRow, ListRow, table
  <1>3. NeverTooNear'
      BY DEF IInv, NeverTooNear, ListRow, table
  <1>4. NextHopInRange'
      BY DEF IInv, NextHopInRange, ListRow, table
  <1>5. EchoNear'
      BY DEF IInv, EchoNear, ListRow, table
  <1>6. InboxGenuine'
      BY DEF IInv, InboxGenuine, ListRow, table
  <1>7. RxSound'
    <2>1. RxEntry(n, r, inbox[n], cost[n], TTL[n])
        BY <1>d DEF IInv, RxSound, RxEntry, Writable, Improves
    <2>2. QED
        BY <1>0, <1>a, <2>1 DEF IInv, TypeOK, RxSound, ListRow, table
  <1>8. TickerApart'
      BY DEF IInv, TickerApart, ListRow, table
  <1>9. QED
      BY <1>1, <1>2, <1>3, <1>4, <1>5, <1>6, <1>7, <1>8 DEF IInv

(* register_echo ends and may ask for a broadcast: the invariant holds afterwards.*)
LEMMA EndEchoStep ==
    ASSUME IInv, NEW n \in Node, EndEcho(n)
    PROVE  IInv'
  <1>0. TypeOK
      BY DEF IInv
  <1>a. StartBroadcast(n) \/ UNCHANGED <<echo, started>>
      BY DEF EndEcho
  <1>b. inbox \in [Node -> Seq(Echo)] /\ inbox' = [inbox EXCEPT ![n] = Tail(@)]
      BY <1>0 DEF TypeOK, EndEcho
  <1>c. inbox[n] # <<>>
      BY DEF IInv, RxSound, RxEntry, EndEcho, Ended
  <1>d. /\ Tail(inbox[n]) \in Seq(Echo)
        /\ \A i \in 1 .. Len(Tail(inbox[n])) :
              i + 1 \in 1 .. Len(inbox[n]) /\ Tail(inbox[n])[i] = inbox[n][i + 1]
      BY <1>b, <1>c
  <1>1. TypeOK'
    <2>1. reachable_nodes' \in [Node -> SUBSET Node]
      <3>1. rx[n].list \subseteq Node /\ reachable_nodes \in [Node -> SUBSET Node]
          BY <1>0 DEF TypeOK, RegisterState
      <3>2. \/ reachable_nodes' = reachable_nodes
            \/ reachable_nodes' = Listed(n, rx[n].list)
          BY DEF EndEcho
      <3>3. Listed(n, rx[n].list) \in [Node -> SUBSET Node]
          BY <3>1 DEF Listed
      <3>4. QED
          BY <3>1, <3>2, <3>3
    <2>2. echo' \in [Node -> BroadcastState]
        BY <1>0, <1>a, StartSound DEF TypeOK
    <2>3. started' \in [Node -> Nat] /\ \A m \in Node : started'[m] <= MAX_ECHOES[m]
        BY <1>0, <1>a, StartedBounded DEF TypeOK
    <2>4. rx' \in [Node -> RegisterState]
        BY <1>0 DEF TypeOK, EndEcho, RxIdle, RegisterState, Row
    <2>5. inbox' \in [Node -> Seq(Echo)]
        BY <1>b, <1>d
    <2>6. QED
        BY <1>0, <2>1, <2>2, <2>3, <2>4, <2>5 DEF TypeOK, EndEcho, StartBroadcast, MayStart, table
  <1>2. OwnRow'
      BY DEF IInv, OwnRow, EndEcho, StartBroadcast, MayStart, table
  <1>3. NeverTooNear'
      BY DEF IInv, NeverTooNear, EndEcho, StartBroadcast, MayStart, table
  <1>4. NextHopInRange'
      BY DEF IInv, NextHopInRange, EndEcho, StartBroadcast, MayStart, table
  <1>5. EchoNear'
      BY <1>a, StartSound DEF IInv, EchoNear
  <1>6. InboxGenuine'
      BY <1>b, <1>d DEF IInv, InboxGenuine
  <1>7. RxSound'
    <2>1. RxEntry(n, RxIdle, inbox'[n], cost[n], TTL[n])
        BY DEF RxEntry, RxIdle, Fields, WithCost
    <2>2. QED
        BY <1>0, <1>b, <2>1 DEF IInv, TypeOK, RxSound, EndEcho, table
  <1>8. TickerApart'
      BY DEF IInv, TickerApart, EndEcho, StartBroadcast, MayStart, table
  <1>9. QED
      BY <1>1, <1>2, <1>3, <1>4, <1>5, <1>6, <1>7, <1>8 DEF IInv

(* The tick begins: the invariant holds afterwards.                        *)
LEMMA StartTickStep ==
    ASSUME IInv, NEW n \in Node, StartTick(n)
    PROVE  IInv'
  <1>0. TypeOK
      BY DEF IInv
  <1> DEFINE t == [TickerIdle EXCEPT !.on = TRUE, !.rows = Node, !.check = Node \ {n}]
  <1>a. t \in TickState /\ TickEntry(n, t)
      BY RangeAssumption DEF TickerIdle, TickState, Row, TickEntry
  <1>b. ticker' = [ticker EXCEPT ![n] = t]
      BY DEF StartTick
  <1> HIDE DEF t
  <1>1. TypeOK'
    <2>1. ticks' \in [Node -> 0 .. MAX_TICKS]
        BY <1>0, RangeAssumption, CostAssumption DEF TypeOK, StartTick
    <2>2. ticker' \in [Node -> TickState]
        BY <1>0, <1>a, <1>b DEF TypeOK
    <2>3. QED
        BY <1>0, <2>1, <2>2 DEF TypeOK, StartTick, table
  <1>2. OwnRow'
      BY DEF IInv, OwnRow, StartTick, table
  <1>3. NeverTooNear'
      BY DEF IInv, NeverTooNear, StartTick, table
  <1>4. NextHopInRange'
      BY DEF IInv, NextHopInRange, StartTick, table
  <1>5. EchoNear'
      BY DEF IInv, EchoNear, StartTick, table
  <1>6. InboxGenuine'
      BY DEF IInv, InboxGenuine, StartTick, table
  <1>7. RxSound'
      BY DEF IInv, RxSound, StartTick, table
  <1>8. TickerApart'
      BY <1>0, <1>a, <1>b DEF IInv, TypeOK, TickerApart
  <1>9. QED
      BY <1>1, <1>2, <1>3, <1>4, <1>5, <1>6, <1>7, <1>8 DEF IInv

(* The tick ages a row: the invariant holds afterwards.                    *)
LEMMA AgeRowStep ==
    ASSUME IInv, NEW n \in Node, AgeRow(n)
    PROVE  IInv'
  <1>0. TypeOK
      BY DEF IInv
  <1> DEFINE d == Lowest(ticker[n].rows)
  <1>a. ticker[n] \in TickState /\ ticker[n].rows # {}
      BY <1>0 DEF TypeOK, AgeRow
  <1>b. d \in Node
      BY <1>a, LowestIn DEF TickState
  <1>c. /\ TTL' = [TTL EXCEPT ![n][d] = Aged(@)]
        /\ cost' = IF d = n THEN [cost EXCEPT ![n][d] = 0] ELSE cost
        /\ ticker' = [ticker EXCEPT ![n].rows = @ \ {d}]
        /\ rx' = rx /\ inbox' = inbox
      BY DEF AgeRow
  <1>d. cost' = cost
      BY <1>0, <1>c DEF IInv, OwnRow, TypeOK, Costs
  <1>e. \A t \in 0 .. MAX_TTL : Aged(t) \in 0 .. MAX_TTL /\ (t = 0 => Aged(t) = 0)
      BY CostAssumption DEF Aged
  <1> HIDE DEF d
  <1>1. TypeOK'
    <2>1. TTL' \in [Node -> [Node -> 0 .. MAX_TTL]]
        BY <1>0, <1>b, <1>c, <1>e DEF TypeOK
    <2>2. neighbors' \in [Node -> SUBSET Node]
        BY <1>0, RangeAssumption, CostAssumption DEF TypeOK, AgeRow
    <2>3. reachable_nodes' \in [Node -> SUBSET Node]
        BY <1>0, RangeAssumption, CostAssumption DEF TypeOK, AgeRow
    <2>4. cost' \in [Node -> Costs]
        BY <1>0, <1>d DEF TypeOK
    <2>5. ticker' \in [Node -> TickState]
        BY <1>0, <1>a, <1>c DEF TypeOK, TickState
    <2>6. QED
        BY <1>0, <2>1, <2>2, <2>3, <2>4, <2>5 DEF TypeOK, AgeRow, table
  <1>2. OwnRow'
      BY <1>d DEF IInv, OwnRow, AgeRow
  <1>3. NeverTooNear'
      BY <1>d DEF IInv, NeverTooNear
  <1>4. NextHopInRange'
      BY DEF IInv, NextHopInRange, AgeRow, table
  <1>5. EchoNear'
      BY DEF IInv, EchoNear, AgeRow, table
  <1>6. InboxGenuine'
      BY DEF IInv, InboxGenuine, AgeRow, table
  <1>7. RxSound'
    <2>1. \A m, k \in Node : TTL[m][k] = 0 => TTL'[m][k] = 0
        BY <1>0, <1>b, <1>c, <1>e DEF TypeOK
    <2>2. ASSUME NEW m \in Node
          PROVE  RxEntry(m, rx[m], inbox[m], cost[m], TTL'[m])
      <3>1. RxEntry(m, rx[m], inbox[m], cost[m], TTL[m])
          BY DEF IInv, RxSound
      <3>2. rx[m].fields \in WithCost => rx[m].fields # <<>>
          BY ONLY CostToWrite, Zenon
      <3>3. QED
          BY <2>1, <3>1, <3>2 DEF RxEntry, Improves, Writable
    <2>3. QED
        BY <1>c, <1>d, <2>2 DEF RxSound
  <1>8. TickerApart'
    <2>1. ASSUME NEW m \in Node
          PROVE  /\ ticker'[m].check = ticker[m].check
                 /\ ticker'[m].gone = ticker[m].gone
                 /\ ticker'[m].row = ticker[m].row
        BY <1>0, <1>a, <1>c DEF TypeOK, TickState
    <2>2. QED
        BY <2>1 DEF IInv, TickerApart, TickEntry
  <1>9. QED
      BY <1>1, <1>2, <1>3, <1>4, <1>5, <1>6, <1>7, <1>8 DEF IInv

(* The tick looks for an inactive neighbour: the invariant holds afterwards.*)
LEMMA CheckNeighbourStep ==
    ASSUME IInv, NEW n \in Node, CheckNeighbour(n)
    PROVE  IInv'
  <1>0. TypeOK
      BY DEF IInv
  <1> DEFINE i == Lowest(ticker[n].check)
             gone == Inactive(n, i)
             t == [ticker[n] EXCEPT !.check = @ \ {i},
                                    !.gone = IF gone THEN i ELSE NoHop,
                                    !.todo = IF gone THEN Node ELSE {}]
  <1>a. /\ ticker[n] \in TickState /\ ticker[n].check # {}
        /\ ticker[n].row = NoHop /\ TickEntry(n, ticker[n])
      BY <1>0 DEF IInv, TypeOK, TickerApart, CheckNeighbour
  <1>b. i \in Node \ {n}
      BY <1>a, LowestIn DEF TickState, TickEntry
  <1>c. ticker' = [ticker EXCEPT ![n] = t]
      BY <1>0 DEF CheckNeighbour, TypeOK, TickState
  <1>d. t \in TickState
      BY <1>a, <1>b DEF TickState, Row
  <1>e. TickEntry(n, t)
      BY <1>a, <1>b, RangeAssumption DEF TickEntry, TickState
  <1> HIDE DEF i, gone, t
  <1>1. TypeOK'
    <2>1. ticker' \in [Node -> TickState]
        BY <1>0, <1>c, <1>d DEF TypeOK
    <2>2. QED
        BY <1>0, <2>1 DEF TypeOK, CheckNeighbour, table
  <1>2. OwnRow'
      BY DEF IInv, OwnRow, CheckNeighbour, table
  <1>3. NeverTooNear'
      BY DEF IInv, NeverTooNear, CheckNeighbour, table
  <1>4. NextHopInRange'
      BY DEF IInv, NextHopInRange, CheckNeighbour, table
  <1>5. EchoNear'
      BY DEF IInv, EchoNear, CheckNeighbour, table
  <1>6. InboxGenuine'
      BY DEF IInv, InboxGenuine, CheckNeighbour, table
  <1>7. RxSound'
      BY DEF IInv, RxSound, CheckNeighbour, table
  <1>8. TickerApart'
      BY <1>0, <1>c, <1>e DEF IInv, TypeOK, TickerApart
  <1>9. QED
      BY <1>1, <1>2, <1>3, <1>4, <1>5, <1>6, <1>7, <1>8 DEF IInv

(* The tick drops the cost of a row: the invariant holds afterwards.       *)
LEMMA DropCostStep ==
    ASSUME IInv, NEW n \in Node, DropCost(n)
    PROVE  IInv'
  <1>0. TypeOK
      BY DEF IInv
  <1> DEFINE j == Lowest(ticker[n].todo)
             lost == next_hop[n][j] = ticker[n].gone
             t == [ticker[n] EXCEPT !.todo = @ \ {j}, !.row = IF lost THEN j ELSE NoHop]
  <1>a. /\ ticker[n] \in TickState /\ ticker[n].todo # {}
        /\ TickEntry(n, ticker[n])
      BY <1>0 DEF IInv, TypeOK, TickerApart, DropCost
  <1>b. j \in Node
      BY <1>a, LowestIn DEF TickState
  <1>c. lost => j # n
      BY <1>a DEF IInv, OwnRow, TickEntry
  <1>d. /\ ticker' = [ticker EXCEPT ![n] = t]
        /\ cost' = IF lost THEN [cost EXCEPT ![n][j] = INFINITY_COST] ELSE cost
        /\ UNCHANGED <<next_hop, TTL, rx, inbox>>
      BY <1>0 DEF DropCost, TypeOK, TickState
  <1>e. t \in TickState
      BY <1>a, <1>b DEF TickState, Row
  <1>f. TickEntry(n, t)
      BY <1>a, <1>c, RangeAssumption DEF TickEntry, TickState
  <1> HIDE DEF j, lost, t
  <1>1. TypeOK'
    <2>1. cost' \in [Node -> Costs]
      <3>1. INFINITY_COST \in Cost
          BY CostAssumption DEF Cost
      <3>2. QED
          BY <1>0, <1>b, <1>d, <3>1 DEF TypeOK, Costs
    <2>2. ticker' \in [Node -> TickState]
        BY <1>0, <1>d, <1>e DEF TypeOK
    <2>3. QED
        BY <1>0, <2>1, <2>2 DEF TypeOK, DropCost, table
  <1>2. OwnRow'
      BY <1>0, <1>b, <1>c, <1>d DEF IInv, TypeOK, OwnRow, Costs
  <1>3. NeverTooNear'
      BY <1>0, <1>b, <1>d DEF IInv, TypeOK, NeverTooNear, Costs
  <1>4. NextHopInRange'
      BY DEF IInv, NextHopInRange, DropCost, table
  <1>5. EchoNear'
      BY DEF IInv, EchoNear, DropCost, table
  <1>6. InboxGenuine'
      BY DEF IInv, InboxGenuine, DropCost, table
  <1>7. RxSound'
    <2>1. \A m, k \in Node : cost'[m][k] = cost[m][k] \/ cost'[m][k] = INFINITY_COST
        BY <1>0, <1>b, <1>d DEF TypeOK, Costs
    <2>2. ASSUME NEW m \in Node
          PROVE  RxEntry(m, rx[m], inbox[m], cost'[m], TTL[m])
      <3>1. RxEntry(m, rx[m], inbox[m], cost[m], TTL[m])
          BY DEF IInv, RxSound
      <3>2. rx[m].fields \in WithCost => rx[m].fields # <<>>
          BY ONLY CostToWrite, Zenon
      <3>3. QED
          BY <2>1, <3>1, <3>2 DEF RxEntry, Improves, Writable
    <2>3. QED
        BY <1>d, <2>2 DEF RxSound
  <1>8. TickerApart'
      BY <1>0, <1>d, <1>f DEF IInv, TypeOK, TickerApart
  <1>9. QED
      BY <1>1, <1>2, <1>3, <1>4, <1>5, <1>6, <1>7, <1>8 DEF IInv

(* The tick drops the next hop of a row: the invariant holds afterwards.   *)
LEMMA DropHopStep ==
    ASSUME IInv, NEW n \in Node, DropHop(n)
    PROVE  IInv'
  <1>0. TypeOK
      BY DEF IInv
  <1> DEFINE t == [ticker[n] EXCEPT !.row = NoHop]
  <1>a. /\ ticker[n] \in TickState /\ TickEntry(n, ticker[n])
        /\ ticker[n].row \in Node \ {n}
      BY <1>0 DEF IInv, TypeOK, TickerApart, TickEntry, DropHop, TickState, Row
  <1>b. ticker' = [ticker EXCEPT ![n] = t]
      BY <1>0 DEF DropHop, TypeOK, TickState
  <1>c. t \in TickState /\ TickEntry(n, t)
      BY <1>a, RangeAssumption DEF TickState, Row, TickEntry
  <1> HIDE DEF t
  <1>1. TypeOK'
    <2>1. next_hop' \in [Node -> [Node -> Row]]
        BY <1>0, RangeAssumption, CostAssumption DEF TypeOK, DropHop, Row
    <2>2. ticker' \in [Node -> TickState]
        BY <1>0, <1>b, <1>c DEF TypeOK
    <2>3. QED
        BY <1>0, <2>1, <2>2 DEF TypeOK, DropHop, table
  <1>2. OwnRow'
      BY <1>0, <1>a DEF IInv, TypeOK, OwnRow, DropHop
  <1>3. NeverTooNear'
      BY DEF IInv, NeverTooNear, DropHop, table
  <1>4. NextHopInRange'
      BY <1>0 DEF IInv, TypeOK, NextHopInRange, DropHop, table
  <1>5. EchoNear'
      BY DEF IInv, EchoNear, DropHop, table
  <1>6. InboxGenuine'
      BY DEF IInv, InboxGenuine, DropHop, table
  <1>7. RxSound'
      BY DEF IInv, RxSound, DropHop, table
  <1>8. TickerApart'
      BY <1>0, <1>b, <1>c DEF IInv, TypeOK, TickerApart
  <1>9. QED
      BY <1>1, <1>2, <1>3, <1>4, <1>5, <1>6, <1>7, <1>8 DEF IInv

(* The tick ends: the invariant holds afterwards.                          *)
LEMMA EndTickStep ==
    ASSUME IInv, NEW n \in Node, EndTick(n)
    PROVE  IInv'
  <1>0. TypeOK
      BY DEF IInv
  <1>a. TickerIdle \in TickState /\ TickEntry(n, TickerIdle)
      BY RangeAssumption DEF TickerIdle, TickState, Row, TickEntry
  <1>1. TypeOK'
    <2>1. ticker' \in [Node -> TickState]
        BY <1>0, <1>a DEF TypeOK, EndTick
    <2>2. QED
        BY <1>0, <2>1 DEF TypeOK, EndTick, table
  <1>2. OwnRow'
      BY DEF IInv, OwnRow, EndTick, table
  <1>3. NeverTooNear'
      BY DEF IInv, NeverTooNear, EndTick, table
  <1>4. NextHopInRange'
      BY DEF IInv, NextHopInRange, EndTick, table
  <1>5. EchoNear'
      BY DEF IInv, EchoNear, EndTick, table
  <1>6. InboxGenuine'
      BY DEF IInv, InboxGenuine, EndTick, table
  <1>7. RxSound'
      BY DEF IInv, RxSound, EndTick, table
  <1>8. TickerApart'
      BY <1>0, <1>a DEF IInv, TypeOK, TickerApart, EndTick
  <1>9. QED
      BY <1>1, <1>2, <1>3, <1>4, <1>5, <1>6, <1>7, <1>8 DEF IInv

(* A node falls silent: the invariant holds afterwards.                    *)
LEMMA GoSilentStep ==
    ASSUME IInv, NEW n \in Node, GoSilent(n)
    PROVE  IInv'
  <1>0. TypeOK
      BY DEF IInv
  <1>1. TypeOK'
    <2>1. alive' \subseteq Node
        BY <1>0 DEF TypeOK, GoSilent
    <2>2. QED
        BY <1>0, <2>1 DEF TypeOK, GoSilent, table
  <1>2. OwnRow'
      BY DEF IInv, OwnRow, GoSilent, table
  <1>3. NeverTooNear'
      BY DEF IInv, NeverTooNear, GoSilent, table
  <1>4. NextHopInRange'
      BY DEF IInv, NextHopInRange, GoSilent, table
  <1>5. EchoNear'
      BY DEF IInv, EchoNear, GoSilent, table
  <1>6. InboxGenuine'
      BY DEF IInv, InboxGenuine, GoSilent, table
  <1>7. RxSound'
      BY DEF IInv, RxSound, GoSilent, table
  <1>8. TickerApart'
      BY DEF IInv, TickerApart, GoSilent, table
  <1>9. QED
      BY <1>1, <1>2, <1>3, <1>4, <1>5, <1>6, <1>7, <1>8 DEF IInv

----------------------------------------------------------------------------
(* The tables after init_internal_table satisfy the invariant.             *)
LEMMA InvInit == Init => IInv
  <1> SUFFICES ASSUME Init PROVE IInv
      OBVIOUS
  <1>1. \A n \in Node : NoEcho \in BroadcastState /\ Near(NoEcho.cost, n) /\ NoEcho.stage = "none"
      BY NoEchoSound
  <1>2. TypeOK
    <2>1. cost \in [Node -> Costs] /\ next_hop \in [Node -> [Node -> Row]]
        BY CostAssumption DEF Init, Costs, Cost, Row
    <2>2. RxIdle \in RegisterState /\ TickerIdle \in TickState
        BY DEF RxIdle, RegisterState, TickerIdle, TickState, Row
    <2>3. started \in [Node -> Nat] /\ \A n \in Node : started[n] <= MAX_ECHOES[n]
        BY CostAssumption DEF Init
    <2>4. inbox \in [Node -> Seq(Echo)]
      <3>1. <<>> \in Seq(Echo)
          OBVIOUS
      <3>2. inbox = [n \in Node |-> <<>>]
          BY DEF Init
      <3>3. QED
          BY <3>1, <3>2
    <2>5. echo \in [Node -> BroadcastState] /\ rx \in [Node -> RegisterState]
          /\ ticker \in [Node -> TickState]
        BY <1>1, <2>2 DEF Init
    <2>6. TTL \in [Node -> [Node -> 0 .. MAX_TTL]] /\ ticks \in [Node -> 0 .. MAX_TICKS]
        BY CostAssumption DEF Init
    <2>7. neighbors \in [Node -> SUBSET Node] /\ reachable_nodes \in [Node -> SUBSET Node]
          /\ alive \subseteq Node
        BY DEF Init
    <2>8. QED
        BY <2>1, <2>3, <2>4, <2>5, <2>6, <2>7 DEF TypeOK
  <1>3. OwnRow /\ NeverTooNear /\ NextHopInRange
      BY DistAssumption DEF Init, OwnRow, NeverTooNear, NextHopInRange
  <1>4. EchoNear /\ InboxGenuine
      BY <1>1 DEF Init, EchoNear, InboxGenuine
  <1>5. RxSound
    <2>1. \A n \in Node : RxEntry(n, RxIdle, <<>>, cost[n], TTL[n])
        BY DEF RxEntry, RxIdle, Fields, WithCost
    <2>2. QED
        BY <2>1 DEF Init, RxSound
  <1>6. TickerApart
      BY RangeAssumption DEF Init, TickerApart, TickEntry, TickerIdle
  <1>7. QED
      BY <1>2, <1>3, <1>4, <1>5, <1>6 DEF IInv

(* Every step of every thread preserves it.                                *)
LEMMA InvStep == IInv /\ [Next]_vars => IInv'
  <1> SUFFICES ASSUME IInv, [Next]_vars PROVE IInv'
      OBVIOUS
  <1>1. CASE UNCHANGED vars
    <2>1. TypeOK'
        BY <1>1 DEF IInv, TypeOK, vars, table
    <2>2. OwnRow' /\ NeverTooNear' /\ NextHopInRange' /\ EchoNear'
        BY <1>1 DEF IInv, OwnRow, NeverTooNear, NextHopInRange, EchoNear, vars, table
    <2>3. InboxGenuine' /\ RxSound' /\ TickerApart'
        BY <1>1 DEF IInv, InboxGenuine, RxSound, TickerApart, vars, table
    <2>4. QED
        BY <2>1, <2>2, <2>3 DEF IInv
  <1>2. ASSUME NEW n \in Node, Broadcasting(n) PROVE IInv'
      BY <1>2, PeriodicBroadcastStep, RebuildStep, EndBroadcastStep, BuildEchoStep,
         SendEchoStep DEF Broadcasting
  <1>3. ASSUME NEW n \in Node, Registering(n) PROVE IInv'
      BY <1>3, TakeEchoStep, LookAtRowStep, WriteFieldStep, ListRowStep,
         EndEchoStep DEF Registering
  <1>4. ASSUME NEW n \in Node, Ticking(n) PROVE IInv'
      BY <1>4, StartTickStep, AgeRowStep, CheckNeighbourStep, DropCostStep, DropHopStep,
         EndTickStep DEF Ticking
  <1>5. ASSUME NEW n \in Node, GoSilent(n) PROVE IInv'
      BY <1>5, GoSilentStep
  <1>6. QED
      BY <1>1, <1>2, <1>3, <1>4, <1>5 DEF Next

(* The invariant holds in every reachable state.                           *)
LEMMA Invariance == Spec => []IInv
  BY InvInit, InvStep, PTL DEF Spec

(* Costs stay within 0 .. INFINITY_COST, so that MAXIMUM_COST never        *)
(* decides, and every row, packet and thread keeps its type.               *)
THEOREM RoutingTypes == Spec => []TypeOK
  <1>1. IInv => TypeOK
      BY DEF IInv
  <1>2. QED
      BY <1>1, Invariance, PTL

(* No node ever believes a destination nearer than the topology allows,    *)
(* whatever the threads do to its rows between each other's steps.         *)
THEOREM CostsAreSound == Spec => []NeverTooNear
  <1>1. IInv => NeverTooNear
      BY DEF IInv
  <1>2. QED
      BY <1>1, Invariance, PTL

(* A next hop is always a node in range, or missing.                       *)
THEOREM NextHopsAreHeard == Spec => []NextHopInRange
  <1>1. IInv => NextHopInRange
      BY DEF IInv
  <1>2. QED
      BY <1>1, Invariance, PTL

(* What register_echo is about to write.                                   *)
LEMMA ToWrite ==
    ASSUME IInv, NEW n \in Node, WriteField(n), NEW e, NEW k,
           e = Head(inbox[n]), k = rx[n].row
    PROVE  /\ k \in Node \ {n} /\ e.src \in Node \ {n} /\ e.cost \in [Node -> 0 .. INFINITY_COST]
           /\ e.cost[k] + 1 \in 0 .. INFINITY_COST
           /\ rx[n].fields \in Fields \ {<<>>} /\ rx[n].on
           /\ inbox[n] # <<>>
           /\ rx' = [rx EXCEPT ![n].fields = Tail(@)]
           /\ \/ /\ Head(rx[n].fields) = "cost"
                 /\ cost' = [cost EXCEPT ![n][k] = e.cost[k] + 1]
                 /\ \/ cost[n][k] > e.cost[k] + 1 \/ cost[n][k] = INFINITY_COST
                    \/ TTL[n][k] = 0
              \/ Head(rx[n].fields) # "cost" /\ cost' = cost
           /\ \/ /\ Head(rx[n].fields) = "next_hop"
                 /\ next_hop' = [next_hop EXCEPT ![n][k] = e.src]
              \/ Head(rx[n].fields) # "next_hop" /\ next_hop' = next_hop
<1>1. /\ RxEntry(n, rx[n], inbox[n], cost[n], TTL[n])
      /\ rx[n].fields \in Fields \ {<<>>} /\ rx[n].on /\ inbox[n] # <<>>
  BY DEF IInv, RxSound, RxEntry, WriteField
<1>2. k \in Node \ {n} /\ e.cost[k] # INFINITY_COST
  BY <1>1 DEF RxEntry, Writable
<1>3. Genuine(n, e)
  BY <1>1, HeadGenuine
<1>4. /\ e.src \in Node \ {n} /\ e.cost \in [Node -> 0 .. INFINITY_COST]
      /\ e.cost[k] + 1 \in 0 .. INFINITY_COST
  BY <1>2, <1>3, GenuineFacts DEF Cost
<1>5. CASE Head(rx[n].fields) = "cost"
  <2>1. cost' = [cost EXCEPT ![n][k] = e.cost[k] + 1] /\ next_hop' = next_hop
    BY <1>5 DEF WriteField, Offered
  <2>2. Improves(rx[n], e, cost[n], TTL[n])
    BY <1>1, <1>5, FieldsTail DEF RxEntry
  <2>3. QED BY <1>1, <1>2, <1>4, <1>5, <2>1, <2>2 DEF Improves, WriteField
<1>6. CASE Head(rx[n].fields) # "cost"
  BY <1>1, <1>2, <1>4, <1>6 DEF WriteField, LearntHop
<1>7. QED BY <1>5, <1>6

(* The own row the tick thread writes is 0 already.                        *)
LEMMA AgeRowCosts ==
    ASSUME IInv, NEW m \in Node, AgeRow(m)
    PROVE  cost' = cost
  BY DEF IInv, AgeRow, OwnRow, TypeOK, Costs

(* The other steps, but for a drop, leave the costs alone.                 *)
LEMMA OtherCosts ==
    ASSUME IInv, [Next]_vars,
           \A m \in Node : ~WriteField(m) /\ ~DropCost(m)
    PROVE  cost' = cost
<1>1. ASSUME NEW m \in Node, AgeRow(m) PROVE cost' = cost
  BY <1>1, AgeRowCosts
<1>2. CASE UNCHANGED vars
  BY <1>2 DEF vars, table
<1>3. ASSUME NEW m \in Node, Broadcasting(m) PROVE cost' = cost
  BY <1>3 DEF Broadcasting, PeriodicBroadcast, Rebuild, EndBroadcast, BuildEcho, SendEcho, table
<1>4. ASSUME NEW m \in Node, TakeEcho(m) \/ LookAtRow(m) \/ ListRow(m) \/ EndEcho(m)
      PROVE  cost' = cost
  BY <1>4 DEF TakeEcho, LookAtRow, ListRow, EndEcho, table
<1>5. ASSUME NEW m \in Node,
             StartTick(m) \/ CheckNeighbour(m) \/ DropHop(m) \/ EndTick(m) \/ GoSilent(m)
      PROVE  cost' = cost
  BY <1>5 DEF StartTick, CheckNeighbour, DropHop, EndTick, GoSilent, table
<1>6. QED BY <1>1, <1>2, <1>3, <1>4, <1>5 DEF Next, Registering, Ticking

(* A decision register_echo took is still an improvement when it is        *)
(* written: a row only gets worse when it is dropped or has expired.       *)
THEOREM RowsNeverWorsen == Spec => NeverWorse
<1>1. ASSUME IInv, [Next]_vars, NEW n \in Node, NEW d \in Node, cost'[n][d] > cost[n][d]
      PROVE  cost'[n][d] = INFINITY_COST \/ TTL[n][d] = 0
  <2>0. cost \in [Node -> [Node -> 0 .. INFINITY_COST]] /\ INFINITY_COST \in Nat
    BY <1>1, CostAssumption DEF IInv, TypeOK, Costs, Cost
  <2>1. ASSUME NEW m \in Node, WriteField(m)
        PROVE  cost'[n][d] = INFINITY_COST \/ TTL[n][d] = 0
    <3> DEFINE e == Head(inbox[m])
               k == rx[m].row
    <3>1. /\ k \in Node \ {m} /\ e.cost[k] + 1 \in 0 .. INFINITY_COST
          /\ \/ /\ cost' = [cost EXCEPT ![m][k] = e.cost[k] + 1]
                /\ cost[m][k] > e.cost[k] + 1 \/ cost[m][k] = INFINITY_COST \/ TTL[m][k] = 0
             \/ cost' = cost
      BY <1>1, <2>1, ToWrite
    <3> HIDE DEF e, k
    <3>2. QED BY <1>1, <2>0, <3>1
  <2>2. ASSUME NEW m \in Node, DropCost(m)
        PROVE  cost'[n][d] = INFINITY_COST \/ cost'[n][d] = cost[n][d]
    BY <2>0, <2>2 DEF DropCost
  <2>3. (\A m \in Node : ~WriteField(m) /\ ~DropCost(m)) => cost' = cost
    BY <1>1, OtherCosts
  <2>4. ~(cost[n][d] > cost[n][d])
    BY <2>0
  <2>5. QED BY <1>1, <2>1, <2>2, <2>3, <2>4
<1>2. IInv /\ [Next]_vars => [\A n, d \in Node : cost'[n][d] > cost[n][d] =>
                                  cost'[n][d] = INFINITY_COST \/ TTL[n][d] = 0]_vars
  BY <1>1
<1>3. QED BY <1>2, Invariance, PTL DEF Spec, NeverWorse

----------------------------------------------------------------------------
(* Until a row expires the tick thread finds no neighbour inactive, since  *)
(* the neighbours of a node are those it has heard, and drops nothing.     *)
HopsHeard ==
    \A n \in Node :
        /\ \A d \in Node \ {n} : next_hop[n][d] \in neighbors[n] \cup {NoHop}
        /\ rx[n].on => Head(inbox[n]).src \in neighbors[n]
NoDrops == \A n \in Node : ticker[n].todo = {} /\ ticker[n].row = NoHop

(* What an echo says was true when it was built; its sender has not become *)
(* farther from anything since.                                            *)
Kept(m, c) == \A d \in Node : cost[m][d] <= c[d]
EchoesOld ==
    \A n \in Node :
        /\ Kept(n, echo[n].cost)
        /\ \A i \in 1 .. Len(inbox[n]) : Kept(inbox[n][i].src, inbox[n][i].cost)

(* What is true of the row the receiver writes, once its next hop is       *)
(* written, and once its cost is.                                          *)
HopWritten  == {<<"TTL">>, <<"cost", "TTL">>}
CostWritten == {<<"TTL">>, <<"next_hop", "TTL">>}
HalfWritten ==
    \A n \in Node :
        /\ rx[n].fields \in HopWritten  => next_hop[n][rx[n].row] = Head(inbox[n]).src
        /\ rx[n].fields \in CostWritten =>
              cost[Head(inbox[n]).src][rx[n].row] < cost[n][rx[n].row]

FreshInv == HopsHeard /\ NoDrops /\ EchoesOld /\ HalfWritten /\ NextHopIsNearer

(* Costs only fall.                                                        *)
LEMMA CostsFall ==
    ASSUME IInv, NoDrops, Unexpired, [Next]_vars, NEW m \in Node, NEW d \in Node
    PROVE  cost'[m][d] <= cost[m][d]
<1>0. cost \in [Node -> [Node -> 0 .. INFINITY_COST]] /\ INFINITY_COST \in Nat
  BY CostAssumption DEF IInv, TypeOK, Costs, Cost
<1>1. ASSUME NEW n \in Node, WriteField(n) PROVE cost'[m][d] <= cost[m][d]
  <2> DEFINE e == Head(inbox[n])
             k == rx[n].row
  <2>1. /\ k \in Node \ {n} /\ e.cost[k] + 1 \in 0 .. INFINITY_COST
        /\ \/ /\ cost' = [cost EXCEPT ![n][k] = e.cost[k] + 1]
              /\ cost[n][k] > e.cost[k] + 1 \/ cost[n][k] = INFINITY_COST \/ TTL[n][k] = 0
           \/ cost' = cost
    BY <1>1, ToWrite
  <2>2. TTL[n][k] # 0
    BY <2>1 DEF Unexpired
  <2> HIDE DEF e, k
  <2>3. QED BY <1>0, <2>1, <2>2
<1>2. ASSUME NEW n \in Node PROVE ~DropCost(n)
  BY DEF NoDrops, DropCost
<1>3. CASE \A n \in Node : ~WriteField(n)
  <2>1. cost' = cost
    BY <1>2, <1>3, OtherCosts
  <2>2. QED BY <1>0, <2>1
<1>4. QED BY <1>1, <1>3

----------------------------------------------------------------------------
(* The receiver writes next hops it has heard.                             *)
LEMMA HopsHeardStep ==
    ASSUME IInv, IInv', FreshInv, Unexpired', [Next]_vars
    PROVE  HopsHeard' /\ NoDrops'
<1>0. TypeOK /\ HopsHeard /\ NoDrops
  BY DEF IInv, FreshInv
<1>a. ASSUME NEW n \in Node, rx[n].on
      PROVE  inbox[n] \in Seq(Echo) /\ inbox[n] # <<>>
  BY <1>a DEF IInv, TypeOK, RxSound, RxEntry
<1>1. CASE UNCHANGED vars
  BY <1>0, <1>1 DEF HopsHeard, NoDrops, vars, table
<1>2. ASSUME NEW n \in Node, Broadcasting(n) PROVE HopsHeard' /\ NoDrops'
  <2>1. CASE \E hearers \in SUBSET Neighbours[n] : SendEcho(n, hearers)
    <3>1. UNCHANGED <<next_hop, neighbors, rx, ticker>>
      BY <2>1 DEF SendEcho, table
    <3>2. ASSUME NEW m \in Node, rx[m].on PROVE Head(inbox'[m]) = Head(inbox[m])
      <4>1. PICK hearers : SendEcho(n, hearers)
        BY <2>1
      <4> DEFINE x == [src |-> n, cost |-> echo[n].cost]
      <4>2. inbox'[m] = inbox[m] \/ inbox'[m] = Append(inbox[m], x)
        BY <4>1 DEF SendEcho
      <4>3. x \in Echo
        BY <1>0 DEF TypeOK, BroadcastState, Echo
      <4> HIDE DEF x
      <4>4. QED BY <1>a, <3>2, <4>2, <4>3, AppendHead
    <3>3. QED BY <1>0, <3>1, <3>2 DEF HopsHeard, NoDrops
  <2>2. CASE PeriodicBroadcast(n) \/ Rebuild(n) \/ EndBroadcast(n)
             \/ \E early \in SUBSET {d \in Node : cost[n][d] # echo[n].cost[d]} : BuildEcho(n, early)
    BY <1>0, <2>2 DEF PeriodicBroadcast, Rebuild, EndBroadcast, BuildEcho, table, HopsHeard, NoDrops
  <2>3. QED BY <1>2, <2>1, <2>2 DEF Broadcasting
<1>3. ASSUME NEW n \in Node, TakeEcho(n) PROVE HopsHeard' /\ NoDrops'
  <2>1. /\ UNCHANGED <<next_hop, inbox, ticker>>
        /\ neighbors' = [neighbors EXCEPT ![n] = @ \cup {Head(inbox[n]).src}]
        /\ \A m \in Node \ {n} : rx'[m] = rx[m]
    BY <1>0, <1>3 DEF TakeEcho, table, TypeOK
  <2>2. \A m \in Node : neighbors[m] \subseteq neighbors'[m]
    BY <1>0, <2>1 DEF TypeOK
  <2>3. Head(inbox[n]).src \in neighbors'[n]
    BY <1>0, <2>1 DEF TypeOK
  <2>4. QED BY <1>0, <2>1, <2>2, <2>3 DEF HopsHeard, NoDrops
<1>4. ASSUME NEW n \in Node, LookAtRow(n) \/ ListRow(n) \/ EndEcho(n)
      PROVE  HopsHeard' /\ NoDrops'
  <2>1. UNCHANGED <<next_hop, neighbors, ticker>>
    BY <1>4 DEF LookAtRow, ListRow, EndEcho, table
  <2>2. ASSUME NEW m \in Node, rx'[m].on
        PROVE  rx[m].on /\ inbox'[m] = inbox[m]
    <3>1. CASE m = n
      <4>1. CASE EndEcho(n)
        BY <1>0, <2>2, <3>1, <4>1 DEF EndEcho, RxIdle, TypeOK
      <4>2. CASE LookAtRow(n)
        BY <1>0, <2>2, <3>1, <4>2 DEF LookAtRow, TypeOK, RegisterState
      <4>3. CASE ListRow(n)
        BY <1>0, <2>2, <3>1, <4>3 DEF ListRow, TypeOK, RegisterState
      <4>4. QED BY <1>4, <4>1, <4>2, <4>3
    <3>2. CASE m # n
      BY <1>0, <1>4, <2>2, <3>2 DEF LookAtRow, ListRow, EndEcho, TypeOK
    <3>3. QED BY <3>1, <3>2
  <2>3. QED BY <1>0, <2>1, <2>2 DEF HopsHeard, NoDrops
<1>5. ASSUME NEW n \in Node, WriteField(n) PROVE HopsHeard' /\ NoDrops'
  <2> DEFINE e == Head(inbox[n])
             k == rx[n].row
  <2>1. UNCHANGED <<neighbors, inbox, ticker>>
    BY <1>5 DEF WriteField
  <2>2. /\ k \in Node \ {n} /\ rx[n].on /\ rx' = [rx EXCEPT ![n].fields = Tail(@)]
        /\ next_hop' = next_hop \/ next_hop' = [next_hop EXCEPT ![n][k] = e.src]
    BY <1>5, ToWrite
  <2>3. e.src \in neighbors[n]
    BY <1>0, <2>2 DEF HopsHeard
  <2>4. ASSUME NEW m \in Node PROVE rx'[m].on = rx[m].on
    BY <1>0, <2>2 DEF TypeOK, RegisterState
  <2>5. ASSUME NEW m \in Node, NEW d \in Node \ {m}
        PROVE  next_hop'[m][d] = next_hop[m][d] \/ (m = n /\ next_hop'[m][d] = e.src)
    <3>1. CASE next_hop' = next_hop
      BY <3>1
    <3>2. CASE next_hop' = [next_hop EXCEPT ![n][k] = e.src]
      <4>1. next_hop \in [Node -> [Node -> Row]]
        BY <1>0 DEF TypeOK
      <4> HIDE DEF e, k
      <4>2. QED BY <2>2, <3>2, <4>1
    <3>3. QED BY <2>2, <3>1, <3>2
  <2>6. ASSUME NEW m \in Node, NEW d \in Node \ {m}
        PROVE  next_hop'[m][d] \in neighbors'[m] \cup {NoHop}
    BY <1>0, <2>1, <2>3, <2>5 DEF HopsHeard
  <2>7. QED BY <1>0, <2>1, <2>4, <2>6 DEF HopsHeard, NoDrops
<1>6. ASSUME NEW n \in Node, AgeRow(n) PROVE HopsHeard' /\ NoDrops'
  <2> DEFINE d == Lowest(ticker[n].rows)
  <2>1. d \in Node
    <3>1. ticker[n].rows \in SUBSET Node /\ ticker[n].rows # {}
      BY <1>0, <1>6 DEF AgeRow, TypeOK, TickState
    <3>2. QED BY <3>1, LowestIn
  <2>2. /\ UNCHANGED <<next_hop, inbox, rx>>
        /\ neighbors' = [neighbors EXCEPT ![n] = @ \ (IF Aged(TTL[n][d]) = 0 THEN {d} ELSE {})]
        /\ TTL' = [TTL EXCEPT ![n][d] = Aged(@)]
        /\ ticker' = [ticker EXCEPT ![n].rows = @ \ {d}]
    BY <1>6 DEF AgeRow
  <2>3. TTL'[n][d] = Aged(TTL[n][d])
    <3> HIDE DEF d
    <3>1. QED BY <1>0, <2>1, <2>2 DEF TypeOK
  <2>4. d # n => Aged(TTL[n][d]) # 0
    <3>1. ASSUME d # n PROVE TTL'[n][d] > 0
      BY <2>1, <3>1 DEF Unexpired
    <3>2. QED BY <2>3, <3>1
  <2>5. ASSUME NEW m \in Node PROVE neighbors[m] \ {m} \subseteq neighbors'[m]
    <3> HIDE DEF d
    <3>1. QED BY <1>0, <2>2, <2>4 DEF TypeOK
  <2>6. ASSUME NEW m \in Node, NEW j \in Node \ {m} PROVE next_hop[m][j] # m
    BY RangeAssumption DEF IInv, NextHopInRange
  <2>7. ASSUME NEW m \in Node, rx[m].on PROVE Head(inbox[m]).src # m
    BY <1>a, <2>7, HeadGenuine, GenuineFacts
  <2>8. ASSUME NEW m \in Node
        PROVE  ticker'[m].todo = ticker[m].todo /\ ticker'[m].row = ticker[m].row
    BY <1>0, <2>2 DEF TypeOK, TickState
  <2>9. HopsHeard'
    BY <1>0, <2>2, <2>5, <2>6, <2>7 DEF HopsHeard
  <2>10. QED BY <1>0, <2>8, <2>9 DEF NoDrops
<1>7. ASSUME NEW n \in Node, CheckNeighbour(n) PROVE HopsHeard' /\ NoDrops'
  <2> DEFINE i == Lowest(ticker[n].check)
  <2>1. i \in Node \ {n}
    <3>1. ticker[n].check \in SUBSET Node /\ ticker[n].check # {} /\ n \notin ticker[n].check
      BY <1>0, <1>7 DEF CheckNeighbour, TypeOK, TickState, IInv, TickerApart, TickEntry
    <3>2. QED BY <3>1, LowestIn
  <2>2. ~Inactive(n, i)
    <3> HIDE DEF i
    <3>1. next_hop[n][i] \in neighbors[n] \/ next_hop[n][i] = NoHop
      BY <1>0, <2>1 DEF HopsHeard
    <3>2. QED BY <2>1, <3>1, RangeAssumption DEF Inactive
  <2>3. /\ UNCHANGED <<next_hop, neighbors, inbox, rx>>
        /\ ticker' = [ticker EXCEPT ![n].check = @ \ {i}, ![n].gone = NoHop, ![n].todo = {}]
    BY <1>7, <2>2 DEF CheckNeighbour, table
  <2>4. NoDrops'
    BY <1>0, <2>3 DEF NoDrops, TypeOK, TickState
  <2>5. QED BY <1>0, <2>3, <2>4 DEF HopsHeard
<1>8. ASSUME NEW n \in Node, StartTick(n) \/ EndTick(n) PROVE HopsHeard' /\ NoDrops'
  <2>1. UNCHANGED <<next_hop, neighbors, inbox, rx>>
    BY <1>8 DEF StartTick, EndTick, table
  <2>2. \E t : ticker' = [ticker EXCEPT ![n] = t] /\ t.todo = {} /\ t.row = NoHop
    <3> DEFINE u == [TickerIdle EXCEPT !.on = TRUE, !.rows = Node, !.check = Node \ {n}]
    <3>1. /\ TickerIdle.todo = {} /\ TickerIdle.row = NoHop
          /\ u.todo = {} /\ u.row = NoHop
      BY DEF TickerIdle
    <3>2. ticker' = [ticker EXCEPT ![n] = u] \/ ticker' = [ticker EXCEPT ![n] = TickerIdle]
      BY <1>8 DEF StartTick, EndTick
    <3> HIDE DEF u
    <3>3. QED BY <3>1, <3>2
  <2>3. NoDrops'
    BY <1>0, <2>2 DEF NoDrops, TypeOK
  <2>4. QED BY <1>0, <2>1, <2>3 DEF HopsHeard
<1>9. ASSUME NEW n \in Node PROVE ~DropCost(n) /\ ~DropHop(n)
  BY <1>0 DEF NoDrops, DropCost, DropHop
<1>10. ASSUME NEW n \in Node, GoSilent(n) PROVE HopsHeard' /\ NoDrops'
  BY <1>0, <1>10 DEF GoSilent, table, HopsHeard, NoDrops
<1>11. QED
  BY <1>1, <1>2, <1>3, <1>4, <1>5, <1>6, <1>7, <1>8, <1>9, <1>10 DEF Next, Registering, Ticking

----------------------------------------------------------------------------
(* What was true of an echo stays true, since costs only fall.             *)
LEMMA KeptOn ==
    ASSUME IInv, IInv', NoDrops, Unexpired, [Next]_vars,
           NEW m \in Node, NEW c \in Costs, Kept(m, c)
    PROVE  Kept(m, c)'
<1>1. SUFFICES ASSUME NEW d \in Node PROVE cost'[m][d] <= c[d]
  BY DEF Kept
<1>2. cost[m][d] \in Nat /\ cost'[m][d] \in Nat /\ c[d] \in Nat
  BY CostAssumption DEF IInv, TypeOK, Costs, Cost
<1>3. cost'[m][d] <= cost[m][d] /\ cost[m][d] <= c[d]
  BY CostsFall DEF Kept
<1>4. QED BY <1>2, <1>3

(* What an echo under way says is what its sender believes, or did when    *)
(* the echo was begun.                                                     *)
LEMMA NewEcho ==
    ASSUME TypeOK, [Next]_vars, NEW m \in Node
    PROVE  \/ echo'[m] = echo[m]
           \/ \A d \in Node : echo'[m].cost[d] \in {cost[m][d], INFINITY_COST, echo[m].cost[d]}
<1> DEFINE Told == \/ echo'[m] = echo[m]
                   \/ \A d \in Node :
                         echo'[m].cost[d] \in {cost[m][d], INFINITY_COST, echo[m].cost[d]}
<1> SUFFICES Told
  OBVIOUS
<1>0. echo \in [Node -> BroadcastState] /\ cost[m] \in Costs
  BY DEF TypeOK
<1>1. ASSUME NEW n \in Node, NEW s, echo' = [echo EXCEPT ![n] = s],
             s.cost = Unreachable \/ s.cost = cost[n]
      PROVE  Told
  BY <1>0, <1>1 DEF Unreachable
<1>2. ASSUME NEW n \in Node, StartBroadcast(n) PROVE Told
  <2>1. CASE echo' = [echo EXCEPT ![n] = Building(n)]
    BY <1>1, <2>1 DEF Building
  <2>2. QED BY <1>2, <2>1 DEF StartBroadcast
<1>3. ASSUME NEW n \in Node, Broadcasting(n) PROVE Told
  <2>1. CASE PeriodicBroadcast(n)
    BY <1>2, <2>1 DEF PeriodicBroadcast
  <2>2. CASE Rebuild(n)
    BY <1>1, <2>2 DEF Rebuild, Building
  <2>3. CASE EndBroadcast(n)
    BY <1>1, <2>3 DEF EndBroadcast, NoEcho
  <2>4. ASSUME NEW early, BuildEcho(n, early) PROVE Told
    <3> DEFINE s == [stage |-> "ready", cost |-> [d \in Node |-> IF d \in early
                        THEN echo[n].cost[d] ELSE cost[n][d]]]
    <3>1. echo' = [echo EXCEPT ![n] = s]
      BY <2>4 DEF BuildEcho
    <3>2. \A d \in Node : s.cost[d] \in {cost[n][d], echo[n].cost[d]}
      OBVIOUS
    <3> HIDE DEF s
    <3>3. QED BY <1>0, <3>1, <3>2
  <2>5. ASSUME NEW hearers, SendEcho(n, hearers) PROVE Told
    <3>1. [NoEcho EXCEPT !.stage = "sent"].cost = Unreachable
      BY DEF NoEcho
    <3>2. QED BY <1>1, <2>5, <3>1 DEF SendEcho
  <2>6. QED BY <1>3, <2>1, <2>2, <2>3, <2>4, <2>5 DEF Broadcasting
<1>4. ASSUME NEW n \in Node, Registering(n) PROVE Told
  <2>1. CASE EndEcho(n)
    BY <1>2, <2>1 DEF EndEcho
  <2>2. CASE TakeEcho(n) \/ LookAtRow(n) \/ WriteField(n) \/ ListRow(n)
    BY <2>2 DEF TakeEcho, LookAtRow, WriteField, ListRow
  <2>3. QED BY <1>4, <2>1, <2>2 DEF Registering
<1>5. ASSUME NEW n \in Node, Ticking(n) \/ GoSilent(n) PROVE Told
  BY <1>5 DEF Ticking, StartTick, AgeRow, CheckNeighbour, DropCost, DropHop, EndTick, GoSilent
<1>6. CASE UNCHANGED vars
  BY <1>6 DEF vars
<1>7. QED BY <1>3, <1>4, <1>5, <1>6 DEF Next

LEMMA NewInbox ==
    ASSUME IInv, [Next]_vars, NEW m \in Node, NEW i \in 1 .. Len(inbox'[m])
    PROVE  \/ \E j \in 1 .. Len(inbox[m]) : inbox'[m][i] = inbox[m][j]
           \/ \E n \in Node : inbox'[m][i] = [src |-> n, cost |-> echo[n].cost]
<1> DEFINE Old == \E j \in 1 .. Len(inbox[m]) : inbox'[m][i] = inbox[m][j]
           New == \E n \in Node : inbox'[m][i] = [src |-> n, cost |-> echo[n].cost]
<1> SUFFICES Old \/ New
  OBVIOUS
<1>0. inbox \in [Node -> Seq(Echo)] /\ inbox[m] \in Seq(Echo)
  BY DEF IInv, TypeOK
<1>1. CASE inbox'[m] = inbox[m]
  BY <1>1
<1>2. ASSUME NEW n \in Node, NEW hearers, SendEcho(n, hearers) PROVE Old \/ New
  <2> DEFINE x == [src |-> n, cost |-> echo[n].cost]
  <2>1. CASE inbox'[m] = Append(inbox[m], x)
    <3>1. x \in Echo
      BY DEF IInv, TypeOK, BroadcastState, Echo
    <3>2. inbox'[m][i] = x \/ (i \in 1 .. Len(inbox[m]) /\ inbox'[m][i] = inbox[m][i])
      <4> HIDE DEF x
      <4>1. QED BY <1>0, <2>1, <3>1, AppendHead
    <3>3. QED BY <3>2
  <2>2. inbox'[m] = inbox[m] \/ inbox'[m] = Append(inbox[m], x)
    BY <1>2 DEF SendEcho
  <2>3. QED BY <1>1, <2>1, <2>2
<1>3. ASSUME NEW n \in Node, EndEcho(n) PROVE Old \/ New
  <2>1. inbox'[m] = inbox[m] \/ (n = m /\ inbox'[m] = Tail(inbox[m]))
    BY <1>0, <1>3 DEF EndEcho
  <2>2. CASE n = m /\ inbox'[m] = Tail(inbox[m])
    <3>1. inbox[m] # <<>>
      BY <1>3, <2>2 DEF EndEcho, Ended, IInv, RxSound, RxEntry
    <3>2. i + 1 \in 1 .. Len(inbox[m]) /\ inbox'[m][i] = inbox[m][i + 1]
      BY <1>0, <2>2, <3>1
    <3>3. QED BY <3>2
  <2>3. QED BY <1>1, <2>1, <2>2
<1>4. CASE UNCHANGED vars
  BY <1>1, <1>4 DEF vars
<1>5. ASSUME NEW n \in Node, Broadcasting(n) PROVE Old \/ New
  <2>1. CASE \E hearers \in SUBSET Neighbours[n] : SendEcho(n, hearers)
    BY <1>2, <2>1
  <2>2. CASE ~\E hearers \in SUBSET Neighbours[n] : SendEcho(n, hearers)
    BY <1>1, <1>5, <2>2 DEF Broadcasting, PeriodicBroadcast, Rebuild, EndBroadcast, BuildEcho
  <2>3. QED BY <2>1, <2>2
<1>6. ASSUME NEW n \in Node, Registering(n) PROVE Old \/ New
  BY <1>1, <1>3, <1>6 DEF Registering, TakeEcho, LookAtRow, WriteField, ListRow
<1>7. ASSUME NEW n \in Node, Ticking(n) \/ GoSilent(n) PROVE Old \/ New
  BY <1>1, <1>7 DEF Ticking, StartTick, AgeRow, CheckNeighbour, DropCost, DropHop, EndTick, GoSilent
<1>8. QED BY <1>4, <1>5, <1>6, <1>7 DEF Next

LEMMA EchoesOldStep ==
    ASSUME IInv, IInv', FreshInv, Unexpired, [Next]_vars
    PROVE  EchoesOld'
<1>0. /\ TypeOK /\ NoDrops /\ EchoesOld
      /\ cost \in [Node -> [Node -> 0 .. INFINITY_COST]] /\ INFINITY_COST \in Nat
      /\ cost' \in [Node -> [Node -> 0 .. INFINITY_COST]]
      /\ echo \in [Node -> BroadcastState]
  BY CostAssumption DEF IInv, FreshInv, TypeOK, Costs, Cost
<1>1. ASSUME NEW n \in Node PROVE echo[n].cost \in Costs /\ Kept(n, echo[n].cost)
  BY <1>0 DEF EchoesOld, BroadcastState
<1>2. ASSUME NEW n \in Node PROVE Kept(n, echo[n].cost)'
  <2>1. CASE echo'[n] = echo[n]
    <3> DEFINE c == echo[n].cost
    <3>1. c \in Costs /\ Kept(n, c)
      BY <1>1
    <3> HIDE DEF c
    <3>2. \A d \in Node : cost'[n][d] <= c[d]
      BY <1>0, <3>1, KeptOn DEF Kept
    <3>3. QED BY <2>1, <3>2 DEF Kept, c
  <2>2. CASE \A d \in Node : echo'[n].cost[d] \in {cost[n][d], INFINITY_COST, echo[n].cost[d]}
    <3>1. ASSUME NEW d \in Node PROVE cost'[n][d] <= echo'[n].cost[d]
      <4>1. cost'[n][d] <= cost[n][d]
        BY <1>0, CostsFall
      <4>2. cost[n][d] <= echo[n].cost[d] /\ echo[n].cost[d] \in Nat
        BY <1>1 DEF Kept, Costs, Cost
      <4>3. cost[n][d] \in 0 .. INFINITY_COST /\ cost'[n][d] \in 0 .. INFINITY_COST
        BY <1>0
      <4>4. QED BY <1>0, <2>2, <4>1, <4>2, <4>3
    <3>2. QED BY <3>1 DEF Kept
  <2>3. QED BY <1>0, <2>1, <2>2, NewEcho
<1>3. ASSUME NEW n \in Node, NEW i \in 1 .. Len(inbox'[n])
      PROVE  Kept(inbox[n][i].src, inbox[n][i].cost)'
  <2>1. PICK m \in Node, c \in Costs :
            Kept(m, c) /\ inbox'[n][i].src = m /\ inbox'[n][i].cost = c
    <3>1. CASE \E j \in 1 .. Len(inbox[n]) : inbox'[n][i] = inbox[n][j]
      <4>1. PICK j \in 1 .. Len(inbox[n]) : inbox'[n][i] = inbox[n][j]
        BY <3>1
      <4>2. Kept(inbox[n][j].src, inbox[n][j].cost)
        BY <1>0 DEF EchoesOld
      <4>3. inbox[n][j] \in Echo
        BY <1>0 DEF TypeOK
      <4>4. QED BY <4>1, <4>2, <4>3 DEF Echo
    <3>2. CASE \E m \in Node : inbox'[n][i] = [src |-> m, cost |-> echo[m].cost]
      BY <1>1, <3>2
    <3>3. QED BY <3>1, <3>2, NewInbox
  <2>2. \A d \in Node : cost'[m][d] <= c[d]
    BY <1>0, <2>1, KeptOn DEF Kept
  <2>3. QED BY <2>1, <2>2 DEF Kept
<1>4. QED BY <1>2, <1>3 DEF EchoesOld

----------------------------------------------------------------------------
(* The fields left to write, once more: each write adds what it wrote, and *)
(* when the TTL is written the row is complete.                            *)
LEMMA FieldByField ==
    /\ \A fs \in Fields \ {<<>>} :
          /\ Head(fs) \in {"next_hop", "cost", "TTL"}
          /\ Head(fs) = "next_hop" =>
                Tail(fs) # <<>> /\ (Tail(fs) \in CostWritten => fs \in CostWritten)
          /\ Head(fs) = "cost" =>
                Tail(fs) # <<>> /\ (Tail(fs) \in HopWritten => fs \in HopWritten)
          /\ Head(fs) = "TTL" =>
                Tail(fs) = <<>> /\ fs \in HopWritten /\ fs \in CostWritten
    /\ {<<>>, <<"next_hop", "cost", "TTL">>, <<"cost", "next_hop", "TTL">>}
          \cap (HopWritten \cup CostWritten) = {}
<1>1. {<<>>, <<"next_hop", "cost", "TTL">>, <<"cost", "next_hop", "TTL">>}
          \cap (HopWritten \cup CostWritten) = {}
  BY DEF HopWritten, CostWritten
<1>2. ASSUME NEW fs \in Fields \ {<<>>}
      PROVE  /\ Head(fs) \in {"next_hop", "cost", "TTL"}
             /\ Head(fs) = "next_hop" =>
                   Tail(fs) # <<>> /\ (Tail(fs) \in CostWritten => fs \in CostWritten)
             /\ Head(fs) = "cost" =>
                   Tail(fs) # <<>> /\ (Tail(fs) \in HopWritten => fs \in HopWritten)
             /\ Head(fs) = "TTL" =>
                   Tail(fs) = <<>> /\ fs \in HopWritten /\ fs \in CostWritten
  <2>1. CASE fs = <<"TTL">>
    BY <2>1 DEF HopWritten, CostWritten
  <2>2. CASE fs = <<"next_hop", "TTL">>
    BY <2>2 DEF HopWritten, CostWritten
  <2>3. CASE fs = <<"cost", "TTL">>
    BY <2>3 DEF HopWritten, CostWritten
  <2>4. CASE fs = <<"next_hop", "cost", "TTL">>
    <3>1. Tail(fs) = <<"cost", "TTL">> /\ Head(fs) = "next_hop"
      BY <2>4
    <3>2. <<"cost", "TTL">> \notin CostWritten /\ <<"cost", "TTL">> # <<>>
      BY DEF CostWritten
    <3>3. QED BY <3>1, <3>2
  <2>5. CASE fs = <<"cost", "next_hop", "TTL">>
    <3>1. Tail(fs) = <<"next_hop", "TTL">> /\ Head(fs) = "cost"
      BY <2>5
    <3>2. <<"next_hop", "TTL">> \notin HopWritten /\ <<"next_hop", "TTL">> # <<>>
      BY DEF HopWritten
    <3>3. QED BY <3>1, <3>2
  <2>6. QED BY <2>1, <2>2, <2>3, <2>4, <2>5 DEF Fields, WithCost
<1>3. QED BY <1>1, <1>2

(* The echo the receiver works on: its sender is still at least as near as *)
(* it says.                                                                *)
LEMMA HeadOld ==
    ASSUME IInv, EchoesOld, NEW n \in Node, inbox[n] # <<>>, NEW d \in Node
    PROVE  cost[Head(inbox[n]).src][d] <= Head(inbox[n]).cost[d]
<1>1. inbox[n] \in Seq(Echo)
  BY DEF IInv, TypeOK
<1>2. 1 \in 1 .. Len(inbox[n]) /\ Head(inbox[n]) = inbox[n][1]
  BY <1>1
<1>3. QED BY <1>2 DEF EchoesOld, Kept

(* A next hop that is nearer remains so while the row is left alone.       *)
LEMMA StaysNearer ==
    ASSUME IInv, IInv', NoDrops, Unexpired, [Next]_vars,
           NEW m \in Node, NEW d \in Node, NEW h \in Node,
           cost[h][d] < cost[m][d], cost'[m][d] = cost[m][d]
    PROVE  cost'[h][d] < cost'[m][d]
<1>1. /\ cost[h][d] \in Nat /\ cost[m][d] \in Nat
      /\ cost'[h][d] \in Nat
  BY CostAssumption DEF IInv, TypeOK, Costs, Cost
<1>2. cost'[h][d] <= cost[h][d]
  BY CostsFall
<1>3. QED BY <1>1, <1>2

LEMMA WriteNearer ==
    ASSUME IInv, IInv', FreshInv, Unexpired, [Next]_vars, NEW n \in Node, WriteField(n)
    PROVE  HalfWritten' /\ NextHopIsNearer'
<1> DEFINE e == Head(inbox[n])
           k == rx[n].row
           fs == rx[n].fields
<1>0. /\ TypeOK /\ NoDrops /\ EchoesOld /\ HalfWritten /\ NextHopIsNearer
      /\ cost \in [Node -> [Node -> Nat]] /\ cost' \in [Node -> [Node -> Nat]]
      /\ next_hop \in [Node -> [Node -> Row]]
      /\ next_hop' \in [Node -> [Node -> Row]]
  <2>1. TypeOK /\ TypeOK'
    BY DEF IInv
  <2>2. Cost \subseteq Nat
    BY CostAssumption DEF Cost
  <2>3. cost \in [Node -> [Node -> Cost]] /\ next_hop \in [Node -> [Node -> Row]]
    BY <2>1, Zenon DEF TypeOK, Costs
  <2>4. cost' \in [Node -> [Node -> Cost]] /\ next_hop' \in [Node -> [Node -> Row]]
    BY <2>1, Zenon DEF TypeOK, Costs
  <2>5. cost \in [Node -> [Node -> Nat]] /\ cost' \in [Node -> [Node -> Nat]]
    BY <2>2, <2>3, <2>4
  <2>6. QED BY <2>1, <2>3, <2>4, <2>5 DEF FreshInv
<1>1. /\ k \in Node \ {n} /\ e.src \in Node \ {n} /\ e.cost \in [Node -> 0 .. INFINITY_COST]
      /\ fs \in Fields \ {<<>>} /\ inbox[n] # <<>> /\ rx' = [rx EXCEPT ![n].fields = Tail(@)]
      /\ \/ Head(fs) = "cost" /\ cost' = [cost EXCEPT ![n][k] = e.cost[k] + 1]
         \/ Head(fs) # "cost" /\ cost' = cost
      /\ \/ Head(fs) = "next_hop" /\ next_hop' = [next_hop EXCEPT ![n][k] = e.src]
         \/ Head(fs) # "next_hop" /\ next_hop' = next_hop
  BY ToWrite
<1>2. inbox' = inbox
  BY DEF WriteField
<1>3. /\ rx'[n].row = k /\ rx'[n].fields = Tail(fs)
      /\ \A m \in Node \ {n} : rx'[m] = rx[m]
  BY <1>0, <1>1 DEF TypeOK, RegisterState
<1>4. /\ fs \in HopWritten => next_hop[n][k] = e.src
      /\ fs \in CostWritten => cost[e.src][k] < cost[n][k]
  BY <1>0 DEF HalfWritten
<1>5. cost[e.src][k] <= e.cost[k]
  BY <1>0, <1>1, HeadOld
<1>a. ASSUME NEW m \in Node, rx[m].fields \in CostWritten
      PROVE  Head(inbox[m]).src \in Node /\ rx[m].row \in Node
  <2>1. rx[m].fields # <<>>
    BY <1>a, FieldByField
  <2>2. inbox[m] # <<>> /\ Writable(m, rx[m], Head(inbox[m]))
    BY <2>1 DEF IInv, RxSound, RxEntry
  <2>3. QED BY <2>2, HeadGenuine, GenuineFacts DEF Writable
<1> HIDE DEF e, k, fs
<1>6. ASSUME NEW m \in Node, NEW d \in Node, m # n \/ d # k
      PROVE  cost'[m][d] = cost[m][d] /\ next_hop'[m][d] = next_hop[m][d]
  <2>1. cost' = cost \/ cost' = [cost EXCEPT ![n][k] = e.cost[k] + 1]
    BY <1>1
  <2>2. next_hop' = next_hop \/ next_hop' = [next_hop EXCEPT ![n][k] = e.src]
    BY <1>1
  <2>3. \A x : [cost EXCEPT ![n][k] = x][m][d] = cost[m][d]
    BY <1>0, <1>6
  <2>4. \A x : [next_hop EXCEPT ![n][k] = x][m][d] = next_hop[m][d]
    BY <1>0, <1>6
  <2>5. QED BY <2>1, <2>2, <2>3, <2>4
<1>7. Tail(fs) \in HopWritten => next_hop'[n][k] = e.src
  <2>1. CASE Head(fs) = "next_hop"
    BY <1>0, <1>1, <2>1
  <2>2. CASE Head(fs) = "cost"
    BY <1>1, <1>4, <2>2, FieldByField
  <2>3. CASE Head(fs) = "TTL"
    BY <1>1, <2>3, FieldByField
  <2>4. QED BY <1>1, <2>1, <2>2, <2>3, FieldByField
<1>8. Tail(fs) \in CostWritten => cost'[e.src][k] < cost'[n][k]
  <2>1. CASE Head(fs) = "next_hop"
    BY <1>1, <1>4, <2>1, FieldByField
  <2>2. CASE Head(fs) = "cost"
    <3>1. cost'[n][k] = e.cost[k] + 1 /\ cost'[e.src][k] = cost[e.src][k]
      BY <1>0, <1>1, <2>2
    <3>2. cost[e.src][k] \in Nat /\ e.cost[k] \in Nat
      <4>1. e.src \in Node /\ k \in Node /\ e.cost \in [Node -> 0 .. INFINITY_COST]
        BY <1>1
      <4>2. QED BY <1>0, <4>1
    <3>3. QED BY <1>5, <3>1, <3>2
  <2>3. CASE Head(fs) = "TTL"
    BY <1>1, <2>3, FieldByField
  <2>4. QED BY <1>1, <2>1, <2>2, <2>3, FieldByField
<1>9. HalfWritten'
  <2> SUFFICES ASSUME NEW m \in Node
               PROVE  /\ rx'[m].fields \in HopWritten =>
                            next_hop'[m][rx'[m].row] = Head(inbox'[m]).src
                      /\ rx'[m].fields \in CostWritten =>
                            cost'[Head(inbox'[m]).src][rx'[m].row] < cost'[m][rx'[m].row]
    BY DEF HalfWritten
  <2>1. CASE m = n
    BY <1>2, <1>3, <1>7, <1>8, <2>1 DEF e
  <2>2. CASE m # n
    <3>1. rx'[m] = rx[m] /\ inbox'[m] = inbox[m]
      BY <1>2, <1>3, <2>2
    <3>2. next_hop'[m] = next_hop[m] /\ cost'[m] = cost[m]
      BY <1>0, <1>1, <2>2
    <3>3. ASSUME rx[m].fields \in CostWritten
          PROVE  cost'[Head(inbox[m]).src][rx[m].row] < cost'[m][rx[m].row]
      <4>1. cost[Head(inbox[m]).src][rx[m].row] < cost[m][rx[m].row]
        BY <1>0, <3>3 DEF HalfWritten
      <4>2. Head(inbox[m]).src \in Node /\ rx[m].row \in Node
        BY <1>a, <3>3
      <4>3. QED BY <1>0, <3>2, <4>1, <4>2, StaysNearer
    <3>4. QED BY <1>0, <3>1, <3>2, <3>3 DEF HalfWritten
  <2>3. QED BY <2>1, <2>2
<1>10. NextHopIsNearer'
  <2> SUFFICES ASSUME NEW m \in Node, NEW d \in Node, d # m,
                      next_hop'[m][d] # NoHop, ~Writing(m, d)'
               PROVE  cost'[next_hop'[m][d]][d] < cost'[m][d]
    BY DEF NextHopIsNearer
  <2>1. CASE m = n /\ d = k
    <3>1. Tail(fs) = <<>>
      BY <1>3, <2>1 DEF Writing
    <3>2. Head(fs) = "TTL" /\ fs \in HopWritten /\ fs \in CostWritten
      BY <1>1, <3>1, FieldByField
    <3>3. cost' = cost /\ next_hop' = next_hop
      BY <1>1, <3>2
    <3>4. QED BY <1>4, <2>1, <3>2, <3>3
  <2>2. CASE m # n \/ d # k
    <3>1. cost'[m][d] = cost[m][d] /\ next_hop'[m][d] = next_hop[m][d]
      BY <1>6, <2>2
    <3>2. ~Writing(m, d)
      BY <1>3, <2>2 DEF Writing, k
    <3>3. cost[next_hop[m][d]][d] < cost[m][d] /\ next_hop[m][d] \in Node
      BY <1>0, <3>1, <3>2 DEF NextHopIsNearer, Row
    <3>4. QED BY <1>0, <3>1, <3>3, StaysNearer
  <2>3. QED BY <2>1, <2>2
<1>11. QED BY <1>9, <1>10

(* Steps that leave costs and next hops alone, and the rows that are being *)
(* written.                                                                *)
LEMMA RowsUntouched ==
    ASSUME HalfWritten, NextHopIsNearer, UNCHANGED <<cost, next_hop>>,
           \A m \in Node :
               /\ rx'[m].fields \in HopWritten \cup CostWritten =>
                     /\ rx'[m].fields = rx[m].fields /\ rx'[m].row = rx[m].row
                     /\ Head(inbox'[m]) = Head(inbox[m])
               /\ rx[m].fields # <<>> =>
                     rx'[m].fields # <<>> /\ rx'[m].row = rx[m].row
    PROVE  HalfWritten' /\ NextHopIsNearer'
<1>1. HalfWritten'
  BY DEF HalfWritten
<1>2. ASSUME NEW m \in Node, NEW d, ~Writing(m, d)' PROVE ~Writing(m, d)
  BY <1>2 DEF Writing
<1>3. NextHopIsNearer'
  BY <1>2 DEF NextHopIsNearer
<1>4. QED BY <1>1, <1>3

LEMMA NearerStep ==
    ASSUME IInv, IInv', FreshInv, Unexpired, [Next]_vars
    PROVE  HalfWritten' /\ NextHopIsNearer'
<1>0. TypeOK /\ NoDrops /\ HalfWritten /\ NextHopIsNearer
  BY DEF IInv, FreshInv
<1>a. ASSUME NEW m \in Node, rx[m].fields # <<>>
      PROVE  rx[m].on /\ inbox[m] # <<>> /\ inbox[m] \in Seq(Echo)
  BY <1>a DEF IInv, TypeOK, RxSound, RxEntry
<1>b. <<>> \notin HopWritten \cup CostWritten
  BY FieldByField
<1>1. CASE UNCHANGED <<cost, next_hop, rx, inbox>>
  BY <1>0, <1>1, RowsUntouched
<1>2. ASSUME NEW n \in Node, Broadcasting(n) PROVE HalfWritten' /\ NextHopIsNearer'
  <2>1. CASE \E hearers \in SUBSET Neighbours[n] : SendEcho(n, hearers)
    <3>1. UNCHANGED <<cost, next_hop, rx>>
      BY <2>1 DEF SendEcho, table
    <3>2. ASSUME NEW m \in Node, rx[m].fields # <<>> PROVE Head(inbox'[m]) = Head(inbox[m])
      <4>1. PICK hearers : SendEcho(n, hearers)
        BY <2>1
      <4> DEFINE x == [src |-> n, cost |-> echo[n].cost]
      <4>2. inbox'[m] = inbox[m] \/ inbox'[m] = Append(inbox[m], x)
        BY <4>1 DEF SendEcho
      <4>3. x \in Echo
        BY <1>0 DEF TypeOK, BroadcastState, Echo
      <4> HIDE DEF x
      <4>4. QED BY <1>a, <3>2, <4>2, <4>3, AppendHead
    <3>3. QED BY <1>0, <1>b, <3>1, <3>2, RowsUntouched
  <2>2. CASE PeriodicBroadcast(n) \/ Rebuild(n) \/ EndBroadcast(n)
             \/ \E early \in SUBSET {d \in Node : cost[n][d] # echo[n].cost[d]} : BuildEcho(n, early)
    BY <1>1, <2>2 DEF PeriodicBroadcast, Rebuild, EndBroadcast, BuildEcho, table
  <2>3. QED BY <1>2, <2>1, <2>2 DEF Broadcasting
<1>3. ASSUME NEW n \in Node, TakeEcho(n) \/ LookAtRow(n) \/ ListRow(n) \/ EndEcho(n)
      PROVE  HalfWritten' /\ NextHopIsNearer'
  <2>1. UNCHANGED <<cost, next_hop>>
    BY <1>3 DEF TakeEcho, LookAtRow, ListRow, EndEcho, table
  <2>2. ASSUME NEW m \in Node, m # n
        PROVE  rx'[m] = rx[m] /\ inbox'[m] = inbox[m]
    BY <1>0, <1>3, <2>2 DEF TakeEcho, LookAtRow, ListRow, EndEcho, TypeOK
  <2>3. rx[n].fields = <<>>
    <3>1. TakeEcho(n) => ~rx[n].on
      BY DEF TakeEcho
    <3>2. ~TakeEcho(n) => rx[n].fields = <<>>
      BY <1>3 DEF LookAtRow, ListRow, EndEcho, Ended
    <3>3. QED BY <1>a, <3>1, <3>2
  <2>4. rx'[n].fields \in {<<>>, <<"next_hop", "cost", "TTL">>, <<"cost", "next_hop", "TTL">>}
    <3>1. CASE TakeEcho(n)
      BY <1>0, <3>1 DEF TakeEcho, TypeOK
    <3>2. CASE LookAtRow(n)
      BY <1>0, <3>2 DEF LookAtRow, TypeOK, RegisterState
    <3>3. CASE ListRow(n)
      BY <1>0, <2>3, <3>3 DEF ListRow, TypeOK, RegisterState
    <3>4. CASE EndEcho(n)
      BY <1>0, <3>4 DEF EndEcho, TypeOK, RxIdle
    <3>5. QED BY <1>3, <3>1, <3>2, <3>3, <3>4
  <2>5. rx'[n].fields \notin HopWritten \cup CostWritten
    BY <2>4, FieldByField
  <2>6. QED BY <1>0, <2>1, <2>2, <2>3, <2>5, RowsUntouched
<1>4. ASSUME NEW n \in Node, AgeRow(n) PROVE HalfWritten' /\ NextHopIsNearer'
  BY <1>1, <1>4, AgeRowCosts DEF AgeRow
<1>5. ASSUME NEW n \in Node,
             StartTick(n) \/ CheckNeighbour(n) \/ EndTick(n) \/ GoSilent(n)
      PROVE  HalfWritten' /\ NextHopIsNearer'
  BY <1>1, <1>5 DEF StartTick, CheckNeighbour, EndTick, GoSilent, table
<1>6. ASSUME NEW n \in Node PROVE ~DropCost(n) /\ ~DropHop(n)
  BY <1>0 DEF NoDrops, DropCost, DropHop
<1>7. CASE UNCHANGED vars
  BY <1>1, <1>7 DEF vars, table
<1>8. QED
  BY <1>2, <1>3, <1>4, <1>5, <1>6, <1>7, WriteNearer DEF Next, Registering, Ticking

----------------------------------------------------------------------------
LEMMA FreshInit == Init => FreshInv
<1> SUFFICES ASSUME Init PROVE FreshInv
  OBVIOUS
<1>1. HopsHeard /\ NoDrops
  BY DEF Init, RxIdle, TickerIdle, HopsHeard, NoDrops
<1>2. EchoesOld
  <2>1. ASSUME NEW n \in Node
        PROVE  inbox[n] = <<>> /\ echo[n].cost = Unreachable
    BY DEF Init, NoEcho
  <2>2. ASSUME NEW n \in Node, NEW d \in Node
        PROVE  cost[n][d] <= Unreachable[d]
    BY CostAssumption DEF Init, Unreachable
  <2>3. ASSUME NEW n \in Node
        PROVE  Kept(n, echo[n].cost) /\ 1 .. Len(inbox[n]) = {}
    <3>1. Kept(n, echo[n].cost)
      BY <2>1, <2>2 DEF Kept
    <3>2. Len(inbox[n]) = 0
      BY <2>1
    <3>3. QED BY <3>1, <3>2
  <2>4. QED BY <2>3 DEF EchoesOld
<1>3. HalfWritten /\ NextHopIsNearer
  <2>1. \A n \in Node : rx[n].fields = <<>>
    BY DEF Init, RxIdle
  <2>2. \A n, d \in Node : d # n => next_hop[n][d] = NoHop
    BY DEF Init
  <2>3. QED BY <2>1, <2>2, FieldByField DEF HalfWritten, NextHopIsNearer
<1>4. QED BY <1>1, <1>2, <1>3 DEF FreshInv

LEMMA FreshInvariance == Spec /\ []Unexpired => []FreshInv
<1>1. IInv /\ IInv' /\ FreshInv /\ Unexpired /\ Unexpired' /\ [Next]_vars => FreshInv'
  BY HopsHeardStep, EchoesOldStep, NearerStep DEF FreshInv
<1>2. QED BY <1>1, FreshInit, Invariance, PTL DEF Spec

(* Until a row expires, every complete row points to a node that is nearer *)
(* to the destination: a packet that follows such rows never comes back.   *)
THEOREM NextHopsAreNearer == Spec /\ []Unexpired => []NextHopIsNearer
<1>1. FreshInv => NextHopIsNearer
  BY DEF FreshInv
<1>2. QED BY <1>1, FreshInvariance, PTL

(* Until a row expires, shortest paths once found are kept, whatever is    *)
(* still under way.                                                        *)
THEOREM ShortestPathsStay == Spec /\ []Unexpired => ShortestStays
<1>1. ASSUME IInv, IInv', FreshInv, Unexpired, [Next]_vars, Shortest
      PROVE  Shortest'
  <2> SUFFICES ASSUME NEW n \in Node, NEW d \in Node
               PROVE  cost'[n][d] = Dist[n][d]
    BY DEF Shortest
  <2>1. cost[n][d] = Dist[n][d] /\ cost'[n][d] <= cost[n][d]
    BY <1>1, CostsFall DEF Shortest, FreshInv
  <2>2. /\ cost[n][d] \in 0 .. INFINITY_COST /\ cost'[n][d] \in 0 .. INFINITY_COST
        /\ INFINITY_COST \in Nat
    BY <1>1, CostAssumption DEF IInv, TypeOK, Costs, Cost
  <2>3. cost'[n][d] = INFINITY_COST \/ cost'[n][d] >= Dist[n][d]
    BY <1>1 DEF IInv, NeverTooNear
  <2>4. QED BY <2>1, <2>2, <2>3
<1>2. IInv /\ IInv' /\ FreshInv /\ Unexpired /\ [Next]_vars => [Shortest => Shortest']_vars
  BY <1>1
<1>3. QED BY <1>2, FreshInvariance, Invariance, PTL DEF Spec, ShortestStays

(* At any time, not only before a row expires: when no table could be      *)
(* improved by an echo of the present one, they are all shortest paths.    *)
(* A wrong row nearest to its destination would have a right one in range. *)
THEOREM RestingTablesAreShortest ==
    ASSUME DistIsReached
    PROVE  Spec => []RestIsShortest
<1>1. ASSUME IInv, NoBetterOffer PROVE Shortest
  <2> SUFFICES ASSUME NEW d \in Node, \E n \in Node : cost[n][d] # Dist[n][d]
               PROVE  FALSE
    BY DEF Shortest
  <2>0. /\ cost \in [Node -> [Node -> 0 .. INFINITY_COST]] /\ INFINITY_COST \in Nat
        /\ Dist \in [Node -> [Node -> Nat]]
    BY <1>1, CostAssumption, DistAssumption DEF IInv, TypeOK, Costs, Cost
  <2> DEFINE Wrong == {Dist[n][d] : n \in {i \in Node : cost[i][d] # Dist[i][d]}}
  <2>1. PICK x \in Wrong : \A y \in Wrong : x <= y
    <3>1. Wrong \in SUBSET Nat /\ Wrong # {}
      BY <2>0
    <3> HIDE DEF Wrong
    <3>2. QED BY <3>1, LeastNumber
  <2>2. PICK n \in Node : cost[n][d] # Dist[n][d] /\ x = Dist[n][d]
    BY <2>1
  <2>3. n # d
    BY <1>1, <2>2, DistAssumption DEF IInv, OwnRow
  <2>4. PICK m \in Node : n \in Neighbours[m] /\ Dist[n][d] = Dist[m][d] + 1
    BY <2>3 DEF DistIsReached
  <2>5. cost[m][d] = Dist[m][d]
    <3>1. cost[m][d] # Dist[m][d] => Dist[m][d] \in Wrong
      OBVIOUS
    <3>2. Dist[m][d] \in Nat /\ Dist[n][d] = Dist[m][d] + 1
      BY <2>0, <2>4
    <3> HIDE DEF Wrong
    <3>3. QED BY <2>1, <2>2, <3>1, <3>2
  <2>6. Dist[n][d] < INFINITY_COST
    BY <2>3 DEF DistIsReached
  <2>7. cost[n][d] <= Dist[n][d]
    BY <1>1, <2>0, <2>4, <2>5, <2>6 DEF NoBetterOffer
  <2>8. cost[n][d] >= Dist[n][d]
    BY <1>1, <2>0, <2>6, <2>7 DEF IInv, NeverTooNear
  <2>9. cost[n][d] \in Nat /\ Dist[n][d] \in Nat
    BY <2>0
  <2>10. QED BY <2>2, <2>7, <2>8, <2>9
<1>2. IInv => RestIsShortest
  BY <1>1 DEF RestIsShortest
<1>3. QED BY <1>2, Invariance, PTL
=============================================================================
