-------------------------- MODULE AddressingProofs --------------------------
(***************************************************************************)
(* Proofs about Addressing, for any number of nodes and addresses and any  *)
(* number of echoes and lost rows.                                         *)
(***************************************************************************)
EXTENDS Addressing, SequenceTheorems, TLAPS

(* A broadcast gives every hearer one more well-formed echo.               *)
LEMMA BroadcastTypes ==
    ASSUME TypeOK, NEW n \in Node, NEW hearers \in Hearers(n), Broadcast(n, hearers)
    PROVE  inbox' \in [Node -> Seq(Echo)] /\ echoes' \in [Node -> Nat]
<1> DEFINE e == [src |-> address[n], known |-> known[n]]
<1>1. e \in Echo
  BY DEF TypeOK, Echo
<1>2. \A m \in Node : inbox[m] \in Seq(Echo) /\ Append(inbox[m], e) \in Seq(Echo)
  BY <1>1 DEF TypeOK
<1>3. inbox' = [m \in Node |-> IF m \in hearers THEN Append(inbox[m], e) ELSE inbox[m]]
  BY DEF Broadcast
<1>4. inbox' \in [Node -> Seq(Echo)]
  BY <1>2, <1>3
<1>5. echoes' \in [Node -> Nat]
  BY DEF Broadcast, TypeOK
<1>6. QED BY <1>4, <1>5

(* An echo that was heard is well formed.                                  *)
LEMMA HeardTypes ==
    ASSUME TypeOK, NEW n \in Node, inbox[n] # <<>>
    PROVE  Head(inbox[n]) \in Echo /\ Tail(inbox[n]) \in Seq(Echo)
<1>1. inbox[n] \in Seq(Echo)
  BY DEF TypeOK
<1>2. QED BY <1>1

(* Every reachable state is well typed: in particular a node is always     *)
(* known by one of the addresses there are.                                *)
THEOREM TypeCorrect == Spec => []TypeOK
<1>1. Init => TypeOK
  BY AddressingAssumption DEF Init, TypeOK
<1>2. TypeOK /\ [Next]_vars => TypeOK'
  <2> SUFFICES ASSUME TypeOK, [Next]_vars
               PROVE  TypeOK'
    OBVIOUS
  <2>1. CASE UNCHANGED vars
    BY <2>1 DEF vars, TypeOK
  <2>2. ASSUME NEW n \in Node, Receiving(n)
        PROVE  TypeOK'
    <3>1. CASE RegisterEcho(n)
      <4>1. PICK a \in AfterCollision(n, Head(inbox[n])) :
              /\ address' = [address EXCEPT ![n] = a]
              /\ known' = [known EXCEPT ![n] =
                             @ \cup OwnRow(n) \cup {Head(inbox[n]).src}
                               \cup (Head(inbox[n]).known \ {address[n]})
                               \cup NewRow(n, Head(inbox[n]), a)]
        BY <3>1 DEF RegisterEcho
      <4>2. Head(inbox[n]) \in Echo /\ Tail(inbox[n]) \in Seq(Echo)
        BY <3>1, HeardTypes DEF RegisterEcho
      <4>3. a \in Addr
        BY DEF AfterCollision, Redrawn, TypeOK
      <4>4. address' \in [Node -> Addr]
        BY <4>1, <4>3 DEF TypeOK
      <4>5. /\ OwnRow(n) \subseteq Addr /\ NewRow(n, Head(inbox[n]), a) \subseteq Addr
            /\ Head(inbox[n]).src \in Addr /\ Head(inbox[n]).known \subseteq Addr
        BY <4>2, <4>3 DEF OwnRow, NewRow, Echo, TypeOK
      <4>6. known' \in [Node -> SUBSET Addr]
        BY <4>1, <4>5 DEF TypeOK
      <4>7. addr_in_use' \in [Node -> SUBSET Addr]
        BY <3>1, <4>6 DEF RegisterEcho, TypeOK
      <4>8. inbox' \in [Node -> Seq(Echo)]
        BY <3>1, <4>2 DEF RegisterEcho, TypeOK
      <4>9. QED BY <3>1, <4>4, <4>6, <4>7, <4>8 DEF RegisterEcho, TypeOK
    <3>2. CASE ClearList(n)
      BY <3>2 DEF ClearList, TypeOK
    <3>3. CASE FillList(n)
      BY <3>3 DEF FillList, TypeOK
    <3>4. CASE Wake(n)
      BY <3>4 DEF Wake, TypeOK
    <3>5. CASE \E hearers \in Hearers(n) : EndEcho(n, hearers)
      <4>1. PICK hearers \in Hearers(n) : EndEcho(n, hearers)
        BY <3>5
      <4>2. inbox' \in [Node -> Seq(Echo)] /\ echoes' \in [Node -> Nat]
        BY <4>1, BroadcastTypes DEF EndEcho, TypeOK
      <4>3. QED BY <4>1, <4>2 DEF EndEcho, TypeOK
    <3>6. QED BY <2>2, <3>1, <3>2, <3>3, <3>4, <3>5 DEF Receiving
  <2>3. ASSUME NEW n \in Node, Ticking(n)
        PROVE  TypeOK'
    <3>1. CASE WaitedEnough(n)
      BY <3>1 DEF WaitedEnough, TypeOK
    <3>2. CASE BeginDraw(n)
      BY <3>2 DEF BeginDraw, TypeOK
    <3>3. CASE Draw(n)
      BY <3>3 DEF Draw, TypeOK
    <3>4. CASE TickOwnRow(n)
      BY <3>4 DEF TickOwnRow, TypeOK
    <3>5. CASE \E a \in Addr : ExpireRow(n, a) \/ DropRow(n, a)
      <4>1. PICK a \in Addr : ExpireRow(n, a) \/ DropRow(n, a)
        BY <3>5
      <4>2. CASE ExpireRow(n, a)
        BY <4>2 DEF ExpireRow, MayLose, TypeOK
      <4>3. CASE DropRow(n, a)
        BY <4>3 DEF DropRow, MayLose, TypeOK
      <4>4. QED BY <4>1, <4>2, <4>3
    <3>6. CASE \E hearers \in Hearers(n) : PeriodicBroadcast(n, hearers)
      <4>1. PICK hearers \in Hearers(n) : PeriodicBroadcast(n, hearers)
        BY <3>6
      <4>2. inbox' \in [Node -> Seq(Echo)] /\ echoes' \in [Node -> Nat]
        BY <4>1, BroadcastTypes DEF PeriodicBroadcast
      <4>3. QED BY <4>1, <4>2 DEF PeriodicBroadcast, TypeOK
    <3>7. QED BY <2>3, <3>1, <3>2, <3>3, <3>4, <3>5, <3>6 DEF Ticking
  <2>4. QED BY <2>1, <2>2, <2>3 DEF Next
<1>3. QED BY <1>1, <1>2, PTL DEF Spec

----------------------------------------------------------------------------
(* A settled network stays settled over a broadcast: the echo is built     *)
(* from the address of its sender, which none of its hearers has.          *)
EchoesOfOthers(b, a) == \A n \in Node : \A i \in 1 .. Len(b[n]) : b[n][i].src # a[n]

LEMMA BroadcastOfOther ==
    ASSUME TypeOK, EchoesOfOthers(inbox, address),
           \A n, m \in Node : n # m => address[n] # address[m],
           NEW n \in Node, NEW hearers \in Hearers(n), Broadcast(n, hearers)
    PROVE  EchoesOfOthers(inbox', address)
<1> DEFINE e == [src |-> address[n], known |-> known[n]]
<1> SUFFICES ASSUME NEW m \in Node, NEW i \in 1 .. Len(inbox'[m])
             PROVE  inbox'[m][i].src # address[m]
  BY DEF EchoesOfOthers
<1>1. e.src = address[n]
  OBVIOUS
<1>2. inbox'[m] = IF m \in hearers THEN Append(inbox[m], e) ELSE inbox[m]
  BY DEF Broadcast
<1>3. inbox[m] \in Seq(Echo)
  BY DEF TypeOK
<1>4. CASE i \in 1 .. Len(inbox[m])
  <2>1. inbox'[m][i] = inbox[m][i]
    BY <1>2, <1>3, <1>4
  <2>2. QED BY <1>4, <2>1 DEF EchoesOfOthers
<1>5. CASE i \notin 1 .. Len(inbox[m])
  <2>1. m \in hearers /\ inbox'[m][i] = e
    <3> HIDE DEF e
    <3>1. QED BY <1>2, <1>3, <1>5
  <2>2. m # n
    BY <2>1 DEF Hearers
  <2>3. QED BY <1>1, <2>1, <2>2
<1>6. QED BY <1>4, <1>5

(* The step of the theorem: only a collision makes a node that has drawn   *)
(* change its address, and an echo of a settled network is none.           *)
LEMMA SettledStep ==
    ASSUME TypeOK, Settled, [Next]_vars
    PROVE  Settled' /\ address' = address
<1>1. Settled <=> /\ \A n \in Node : ticker[n] = "running"
                  /\ \A n, m \in Node : n # m => address[n] # address[m]
                  /\ EchoesOfOthers(inbox, address)
  BY DEF Settled, EchoesOfOthers
<1>2. Settled' <=> /\ \A n \in Node : ticker'[n] = "running"
                   /\ \A n, m \in Node : n # m => address'[n] # address'[m]
                   /\ EchoesOfOthers(inbox', address')
  BY DEF Settled, EchoesOfOthers
<1>3. SUFFICES address' = address /\ ticker' = ticker /\ EchoesOfOthers(inbox', address)
  BY <1>1, <1>2
<1>4. ASSUME NEW n \in Node, RegisterEcho(n)
      PROVE  address' = address /\ ticker' = ticker /\ EchoesOfOthers(inbox', address)
  <2>1. inbox[n] \in Seq(Echo) /\ inbox[n] # <<>>
    BY <1>4 DEF RegisterEcho, TypeOK
  <2>2. 1 \in 1 .. Len(inbox[n]) /\ Head(inbox[n]) = inbox[n][1] /\ Head(inbox[n]) \in Echo
    BY <2>1
  <2>3. Head(inbox[n]).src # address[n]
    BY <1>1, <2>2 DEF EchoesOfOthers
  <2>4. AfterCollision(n, Head(inbox[n])) = {address[n]}
    BY <2>3 DEF AfterCollision
  <2>5. address' = [address EXCEPT ![n] = address[n]]
    BY <1>4, <2>4 DEF RegisterEcho
  <2>6. address' = address
    BY <2>5 DEF TypeOK
  <2>7. inbox' = [inbox EXCEPT ![n] = Tail(@)] /\ ticker' = ticker
    BY <1>4 DEF RegisterEcho
  <2>8. ASSUME NEW m \in Node, NEW i \in 1 .. Len(inbox'[m])
        PROVE  inbox'[m][i].src # address[m]
    <3>1. CASE m = n
      <4>1. inbox'[m] = Tail(inbox[n])
        BY <2>7, <3>1 DEF TypeOK
      <4>2. i + 1 \in 1 .. Len(inbox[n]) /\ inbox'[m][i] = inbox[n][i + 1]
        BY <2>1, <4>1
      <4>3. QED BY <1>1, <3>1, <4>2 DEF EchoesOfOthers
    <3>2. CASE m # n
      <4>1. inbox'[m] = inbox[m]
        BY <2>7, <3>2 DEF TypeOK
      <4>2. QED BY <1>1, <4>1 DEF EchoesOfOthers
    <3>3. QED BY <3>1, <3>2
  <2>9. QED BY <2>6, <2>7, <2>8 DEF EchoesOfOthers
<1>5. ASSUME NEW n \in Node, NEW hearers \in Hearers(n),
             EndEcho(n, hearers) \/ PeriodicBroadcast(n, hearers)
      PROVE  address' = address /\ ticker' = ticker /\ EchoesOfOthers(inbox', address)
  <2>1. address' = address /\ ticker' = ticker
    BY <1>5 DEF EndEcho, PeriodicBroadcast
  <2>2. Broadcast(n, hearers) \/ inbox' = inbox
    BY <1>5 DEF EndEcho, PeriodicBroadcast
  <2>3. QED BY <1>1, <2>1, <2>2, BroadcastOfOther
<1>6. ASSUME NEW n \in Node, WaitedEnough(n) \/ BeginDraw(n) \/ Draw(n)
      PROVE  FALSE
  BY <1>1, <1>6 DEF WaitedEnough, BeginDraw, Draw
<1>7. ASSUME UNCHANGED <<address, ticker, inbox>>
      PROVE  address' = address /\ ticker' = ticker /\ EchoesOfOthers(inbox', address)
  BY <1>1, <1>7
<1>8. ASSUME NEW n \in Node,
             \/ ClearList(n) \/ FillList(n) \/ Wake(n) \/ TickOwnRow(n)
             \/ \E a \in Addr : ExpireRow(n, a) \/ DropRow(n, a)
      PROVE  UNCHANGED <<address, ticker, inbox>>
  BY <1>8 DEF ClearList, FillList, Wake, TickOwnRow, ExpireRow, DropRow
<1>9. CASE UNCHANGED vars
  BY <1>7, <1>9 DEF vars
<1>10. QED
  BY <1>4, <1>5, <1>6, <1>7, <1>8, <1>9 DEF Next, Receiving, Ticking

(* Once everybody has an address of his own, nobody changes it again:      *)
(* nothing that is lost, late or expires makes a node draw.                *)
THEOREM SettledForEver == Spec => SettledStays
<1>1. TypeOK /\ [Next]_vars => [Settled => Settled' /\ address' = address]_vars
  BY SettledStep
<1>2. QED BY <1>1, TypeCorrect, PTL DEF Spec, SettledStays

----------------------------------------------------------------------------
(* A node that is about to draw and has not lost patience has a table, and *)
(* its receiver thread sleeps until it has drawn, so that the list it      *)
(* draws from holds its whole table.                                       *)
DrawEntry(n) ==
    ~waited[n] /\ ticker[n] # "running" =>
        /\ ticker[n] = "drawing" => first_table_received[n]
        /\ first_table_received[n] => receiver[n] = "asleep" /\ known[n] \subseteq addr_in_use[n]
DrawInv == \A n \in Node : DrawEntry(n)

(* What a step of node n does to the entries of the others: nothing.       *)
LEMMA EntryOfOthers ==
    ASSUME TypeOK, NEW n \in Node, Receiving(n) \/ Ticking(n), NEW m \in Node \ {n}
    PROVE  /\ waited'[m] = waited[m] /\ ticker'[m] = ticker[m] /\ receiver'[m] = receiver[m]
           /\ first_table_received'[m] = first_table_received[m]
           /\ known'[m] = known[m] /\ addr_in_use'[m] = addr_in_use[m]
<1>1. CASE Receiving(n)
  <2>1. CASE RegisterEcho(n)
    <3>1. PICK K \in {known'[n]} : known' = [known EXCEPT ![n] = K]
      BY <2>1 DEF RegisterEcho, TypeOK
    <3>2. /\ known'[m] = known[m]
          /\ addr_in_use'[m] = addr_in_use[m]
      BY <2>1, <3>1 DEF RegisterEcho, TypeOK
    <3>3. QED BY <2>1, <3>2 DEF RegisterEcho, TypeOK
  <2>2. CASE ClearList(n) \/ FillList(n) \/ Wake(n)
    BY <2>2 DEF ClearList, FillList, Wake, TypeOK
  <2>3. CASE \E hearers \in Hearers(n) : EndEcho(n, hearers)
    BY <2>3 DEF EndEcho, TypeOK
  <2>4. QED BY <1>1, <2>1, <2>2, <2>3 DEF Receiving
<1>2. CASE Ticking(n)
  <2>1. CASE WaitedEnough(n) \/ BeginDraw(n) \/ Draw(n) \/ TickOwnRow(n)
    BY <2>1 DEF WaitedEnough, BeginDraw, Draw, TickOwnRow, TypeOK
  <2>2. CASE \E a \in Addr : ExpireRow(n, a) \/ DropRow(n, a)
    BY <2>2 DEF ExpireRow, DropRow, TypeOK
  <2>3. CASE \E hearers \in Hearers(n) : PeriodicBroadcast(n, hearers)
    BY <2>3 DEF PeriodicBroadcast, TypeOK
  <2>4. QED BY <1>2, <2>1, <2>2, <2>3 DEF Ticking
<1>3. QED BY <1>1, <1>2

LEMMA DrawStep ==
    ASSUME TypeOK, DrawInv, NEW n \in Node, Receiving(n) \/ Ticking(n)
    PROVE  DrawEntry(n)'
<1>1. DrawEntry(n)
  BY DEF DrawInv
<1>2. CASE RegisterEcho(n)
  <2>1. receiver[n] = "idle"
    BY <1>2 DEF RegisterEcho
  <2>2. UNCHANGED <<first_table_received, waited, ticker>>
    BY <1>2 DEF RegisterEcho
  <2>3. QED BY <1>1, <2>1, <2>2 DEF DrawEntry
<1>3. CASE ClearList(n)
  BY <1>1, <1>3 DEF ClearList, DrawEntry
<1>4. CASE FillList(n)
  BY <1>1, <1>4 DEF FillList, DrawEntry, TypeOK
<1>5. CASE Wake(n)
  BY <1>1, <1>5 DEF Wake, DrawEntry
<1>6. CASE \E hearers \in Hearers(n) : EndEcho(n, hearers)
  BY <1>1, <1>6 DEF EndEcho, DrawEntry
<1>7. CASE WaitedEnough(n)
  BY <1>7 DEF WaitedEnough, DrawEntry, TypeOK
<1>8. CASE BeginDraw(n)
  BY <1>1, <1>8 DEF BeginDraw, DrawEntry, TypeOK
<1>9. CASE Draw(n)
  BY <1>9 DEF Draw, DrawEntry, TypeOK
<1>10. CASE TickOwnRow(n)
  BY <1>10 DEF TickOwnRow, DrawEntry
<1>11. CASE \E a \in Addr : ExpireRow(n, a) \/ DropRow(n, a)
  BY <1>11 DEF ExpireRow, DropRow, MayLose, DrawEntry
<1>12. CASE \E hearers \in Hearers(n) : PeriodicBroadcast(n, hearers)
  BY <1>12 DEF PeriodicBroadcast, DrawEntry
<1>13. QED
  BY <1>2, <1>3, <1>4, <1>5, <1>6, <1>7, <1>8, <1>9, <1>10, <1>11, <1>12
     DEF Receiving, Ticking

(* A node that draws its address from a table never draws one that a row   *)
(* of the table has.                                                       *)
THEOREM DrawsFreeAddress == Spec => FirstDrawIsFree
<1>1. Init => DrawInv
  BY DEF Init, DrawInv, DrawEntry
<1>2. TypeOK /\ DrawInv /\ [Next]_vars => DrawInv'
  <2> SUFFICES ASSUME TypeOK, DrawInv, [Next]_vars, NEW m \in Node
               PROVE  DrawEntry(m)'
    BY DEF DrawInv
  <2>1. CASE UNCHANGED vars
    BY <2>1 DEF vars, DrawInv, DrawEntry
  <2>2. ASSUME NEW n \in Node, Receiving(n) \/ Ticking(n)
        PROVE  DrawEntry(m)'
    <3>1. CASE m = n
      BY <2>2, <3>1, DrawStep
    <3>2. CASE m # n
      BY <2>2, <3>2, EntryOfOthers DEF DrawInv, DrawEntry
    <3>3. QED BY <3>1, <3>2
  <2>3. QED BY <2>1, <2>2 DEF Next
<1>3. TypeOK /\ DrawInv /\ [Next]_vars =>
          [\A n \in Node :
             ticker[n] = "drawing" /\ ticker'[n] = "running" /\ ~waited[n] =>
                 address'[n] \notin known[n]]_vars
  <2> SUFFICES ASSUME TypeOK, DrawInv, Next, NEW n \in Node,
                      ticker[n] = "drawing", ticker'[n] = "running", ~waited[n]
               PROVE  address'[n] \notin known[n]
    OBVIOUS
  <2>1. known[n] \subseteq addr_in_use[n]
    BY DEF DrawInv, DrawEntry
  <2>2. PICK m \in Node : Receiving(m) \/ Ticking(m)
    BY DEF Next
  <2>3. m = n
    BY <2>2, EntryOfOthers
  <2>4. ~Receiving(n)
    BY DEF Receiving, RegisterEcho, ClearList, FillList, Wake, EndEcho
  <2>5. Draw(n)
    BY <2>2, <2>3, <2>4
       DEF Ticking, WaitedEnough, BeginDraw, TickOwnRow, ExpireRow, DropRow, PeriodicBroadcast
  <2>6. address'[n] \notin addr_in_use[n]
    BY <2>5 DEF Draw, TypeOK
  <2>7. QED BY <2>1, <2>6
<1>4. QED BY <1>1, <1>2, <1>3, TypeCorrect, PTL DEF Spec, FirstDrawIsFree
=============================================================================
