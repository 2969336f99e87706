----------------------------- MODULE LineProofs -----------------------------
(***************************************************************************)
(* Proofs about Line, for any set of packets.                              *)
(***************************************************************************)
EXTENDS Line, SequenceTheorems, TLAPS

(* What can come: each message has one of the five types, and a packet     *)
(* comes in those of type DATA only.                                       *)
LEMMA Items ==
    ASSUME NEW m \in Item
    PROVE  /\ m.type \in {"SENDING", "DONE_SENDING", "BUSY", "FREE", "DATA"}
           /\ m.type = "DATA" => m.packet \in Packet
  BY DEF Item, Told, Delivered

LEMMA ToldAndDelivered ==
    /\ \A type \in {"SENDING", "DONE_SENDING", "BUSY", "FREE"} :
         Told(type) \in Item /\ Told(type).type = type
    /\ \A p \in Packet : /\ Delivered(p) \in Item
                         /\ Delivered(p).type = "DATA" /\ Delivered(p).packet = p
  BY DEF Item, Told, Delivered

----------------------------------------------------------------------------
(* The order of the packets.  c[k] counts the packets before the k-th of   *)
(* the messages q that come, those taken before (d) included: a DATA       *)
(* message at k is the packet number c[k] of those passed on (h), and      *)
(* nothing of h is missing at the end.                                     *)
Counts(c, q, h, d) ==
    /\ c[1] = Len(d) + 1
    /\ c[Len(q) + 1] = Len(h) + 1
    /\ \A k \in 1 .. Len(q) :
         IF q[k].type = "DATA" THEN c[k + 1] = c[k] + 1 /\ q[k].packet = h[c[k]]
                               ELSE c[k + 1] = c[k]
Ordered(q, h, d) ==
    /\ \A i \in 1 .. Len(d) : d[i] = h[i]
    /\ \E c \in [1 .. Len(q) + 1 -> 1 .. Len(h) + 1] : Counts(c, q, h, d)

LEMMA TellKeepsOrder ==
    ASSUME NEW q \in Seq(Item), NEW h \in Seq(Packet), NEW d \in Seq(Packet),
           NEW m \in Item, m.type # "DATA", Ordered(q, h, d)
    PROVE  Ordered(Append(q, m), h, d)
<1> DEFINE r == Append(q, m)
<1>1. /\ Len(q) \in Nat /\ Len(h) \in Nat /\ Len(d) \in Nat
      /\ Len(r) = Len(q) + 1 /\ r[Len(q) + 1] = m
      /\ \A k \in 1 .. Len(q) : r[k] = q[k]
  BY AppendProperties, LenProperties
<1> HIDE DEF r
<1>2. PICK c \in [1 .. Len(q) + 1 -> 1 .. Len(h) + 1] : Counts(c, q, h, d)
  BY DEF Ordered
<1> DEFINE e == [k \in 1 .. Len(r) + 1 |-> IF k <= Len(q) + 1 THEN c[k] ELSE Len(h) + 1]
<1>3. e \in [1 .. Len(r) + 1 -> 1 .. Len(h) + 1]
  BY <1>1, <1>2
<1>4. Counts(e, r, h, d)
  <2>1. e[1] = Len(d) + 1 /\ e[Len(r) + 1] = Len(h) + 1
    BY <1>1, <1>2 DEF Counts
  <2>2. ASSUME NEW k \in 1 .. Len(r)
        PROVE  IF r[k].type = "DATA" THEN e[k + 1] = e[k] + 1 /\ r[k].packet = h[e[k]]
                                     ELSE e[k + 1] = e[k]
    <3>1. CASE k = Len(q) + 1
      BY <3>1, <1>1, <1>2 DEF Counts
    <3>2. CASE k # Len(q) + 1
      <4>1. k \in 1 .. Len(q) /\ e[k] = c[k] /\ e[k + 1] = c[k + 1] /\ r[k] = q[k]
        BY <3>2, <1>1
      <4>2. QED BY <4>1, <1>2 DEF Counts
    <3>3. QED BY <3>1, <3>2
  <2> HIDE DEF e
  <2>3. QED BY <2>1, <2>2 DEF Counts
<1>5. QED BY <1>3, <1>4 DEF Ordered, r

LEMMA DeliverKeepsOrder ==
    ASSUME NEW q \in Seq(Item), NEW h \in Seq(Packet), NEW d \in Seq(Packet),
           NEW p \in Packet, Ordered(q, h, d)
    PROVE  Ordered(Append(q, Delivered(p)), Append(h, p), d)
<1> DEFINE r == Append(q, Delivered(p))
           g == Append(h, p)
<1>1. /\ Len(q) \in Nat /\ Len(h) \in Nat /\ Len(d) \in Nat
      /\ Len(r) = Len(q) + 1 /\ r[Len(q) + 1] = Delivered(p)
      /\ \A k \in 1 .. Len(q) : r[k] = q[k]
      /\ Len(g) = Len(h) + 1 /\ g[Len(h) + 1] = p
      /\ \A k \in 1 .. Len(h) : g[k] = h[k]
  BY AppendProperties, LenProperties, ToldAndDelivered
<1> HIDE DEF r, g
<1>2. PICK c \in [1 .. Len(q) + 1 -> 1 .. Len(h) + 1] : Counts(c, q, h, d)
  BY DEF Ordered
<1> DEFINE e == [k \in 1 .. Len(r) + 1 |-> IF k <= Len(q) + 1 THEN c[k] ELSE Len(g) + 1]
<1>3. e \in [1 .. Len(r) + 1 -> 1 .. Len(g) + 1]
  BY <1>1, <1>2
<1>4. Counts(e, r, g, d)
  <2>1. e[1] = Len(d) + 1 /\ e[Len(r) + 1] = Len(g) + 1
    BY <1>1, <1>2 DEF Counts
  <2>2. ASSUME NEW k \in 1 .. Len(r)
        PROVE  IF r[k].type = "DATA" THEN e[k + 1] = e[k] + 1 /\ r[k].packet = g[e[k]]
                                     ELSE e[k + 1] = e[k]
    <3>1. CASE k = Len(q) + 1
      <4>1. e[k] = Len(h) + 1 /\ e[k + 1] = Len(h) + 2 /\ g[e[k]] = p
        BY <3>1, <1>1, <1>2 DEF Counts
      <4>2. r[k].type = "DATA" /\ r[k].packet = p
        BY <3>1, <1>1, ToldAndDelivered
      <4>3. QED BY <4>1, <4>2, <1>1
    <3>2. CASE k # Len(q) + 1
      <4>1. k \in 1 .. Len(q) /\ e[k] = c[k] /\ e[k + 1] = c[k + 1] /\ r[k] = q[k]
        BY <3>2, <1>1
      <4>2. CASE q[k].type = "DATA"
        <5>1. c[k + 1] = c[k] + 1 /\ q[k].packet = h[c[k]]
          BY <4>1, <4>2, <1>2 DEF Counts
        <5>2. c[k] \in 1 .. Len(h)
          <6>1. c[k] \in 1 .. Len(h) + 1 /\ c[k + 1] \in 1 .. Len(h) + 1
            <7>1. k \in 1 .. Len(q) + 1 /\ k + 1 \in 1 .. Len(q) + 1
              BY <4>1, <1>1
            <7>2. QED BY <7>1, <1>2
          <6>2. QED BY <6>1, <5>1, <1>1
        <5>3. QED BY <5>1, <5>2, <4>1, <4>2, <1>1
      <4>3. CASE q[k].type # "DATA"
        BY <4>1, <4>3, <1>2 DEF Counts
      <4>4. QED BY <4>2, <4>3
    <3>3. QED BY <3>1, <3>2
  <2> HIDE DEF e
  <2>3. QED BY <2>1, <2>2 DEF Counts
<1>5. \A i \in 1 .. Len(d) : d[i] = g[i]
  <2>1. Len(d) + 1 \in 1 .. Len(h) + 1
    <3>1. c[1] \in 1 .. Len(h) + 1
      BY <1>1, <1>2
    <3>2. QED BY <3>1, <1>2 DEF Counts
  <2>2. QED BY <2>1, <1>1 DEF Ordered
<1>6. QED BY <1>3, <1>4, <1>5 DEF Ordered, r, g

LEMMA TakeKeepsOrder ==
    ASSUME NEW q \in Seq(Item), NEW h \in Seq(Packet), NEW d \in Seq(Packet),
           q # <<>>, Ordered(q, h, d)
    PROVE  Ordered(Tail(q), h,
                   IF Head(q).type = "DATA" THEN Append(d, Head(q).packet) ELSE d)
<1> DEFINE r == Tail(q)
<1>1. /\ Len(q) \in Nat \ {0} /\ Len(h) \in Nat /\ Len(d) \in Nat
      /\ Head(q) = q[1] /\ Head(q) \in Item
      /\ Len(r) = Len(q) - 1
      /\ \A k \in 1 .. Len(r) : r[k] = q[k + 1]
  BY HeadTailProperties, LenProperties, EmptySeq
<1> HIDE DEF r
<1>2. PICK c \in [1 .. Len(q) + 1 -> 1 .. Len(h) + 1] : Counts(c, q, h, d)
  BY DEF Ordered
<1> DEFINE e == [k \in 1 .. Len(r) + 1 |-> c[k + 1]]
<1>3. e \in [1 .. Len(r) + 1 -> 1 .. Len(h) + 1]
  BY <1>1, <1>2
<1>4. e[1] = c[2] /\ e[Len(r) + 1] = Len(h) + 1
  BY <1>1, <1>2 DEF Counts
<1>5. ASSUME NEW k \in 1 .. Len(r)
      PROVE  IF r[k].type = "DATA" THEN e[k + 1] = e[k] + 1 /\ r[k].packet = h[e[k]]
                                   ELSE e[k + 1] = e[k]
  <2>1. k + 1 \in 1 .. Len(q) /\ e[k] = c[k + 1] /\ e[k + 1] = c[k + 1 + 1] /\ r[k] = q[k + 1]
    BY <1>1
  <2>2. QED BY <2>1, <1>2 DEF Counts
<1> HIDE DEF e
<1>6. CASE Head(q).type = "DATA"
  <2> DEFINE f == Append(d, Head(q).packet)
  <2>1. /\ Len(f) = Len(d) + 1 /\ f[Len(d) + 1] = Head(q).packet
        /\ \A i \in 1 .. Len(d) : f[i] = d[i]
    BY <1>1, <1>6, Items, AppendProperties
  <2> HIDE DEF f
  <2>2. c[1] = Len(d) + 1 /\ c[2] = c[1] + 1 /\ q[1].packet = h[c[1]]
    BY <1>1, <1>2, <1>6 DEF Counts
  <2>3. \A i \in 1 .. Len(f) : f[i] = h[i]
    BY <2>1, <2>2, <1>1 DEF Ordered
  <2>4. e[1] = Len(f) + 1
    BY <1>4, <2>1, <2>2
  <2>5. Counts(e, r, h, f)
    BY <1>4, <1>5, <2>4 DEF Counts
  <2>6. Ordered(r, h, f)
    BY <1>3, <2>3, <2>5 DEF Ordered
  <2>7. QED BY <2>6, <1>6 DEF r, f
<1>7. CASE Head(q).type # "DATA"
  <2>1. e[1] = Len(d) + 1
    BY <1>1, <1>2, <1>4, <1>7 DEF Counts
  <2>2. Counts(e, r, h, d)
    BY <1>4, <1>5, <2>1 DEF Counts
  <2>3. Ordered(r, h, d)
    BY <1>3, <2>2 DEF Ordered
  <2>4. QED BY <2>3, <1>7 DEF r
<1>8. QED BY <1>6, <1>7

----------------------------------------------------------------------------
(* Why the line is taken for busy (busy): somebody sends (on), or a        *)
(* message comes that corrects it; and so for each of the messages q that  *)
(* is going to make it busy, from that message on.                         *)
Freeing == {"FREE", "DONE_SENDING"}
Reasoned(q, busy, on) ==
    /\ busy => on \/ \E j \in 1 .. Len(q) : q[j].type \in Freeing
    /\ \A k \in 1 .. Len(q) : q[k].type \in {"BUSY", "SENDING"} =>
          on \/ \E j \in k + 1 .. Len(q) : q[j].type \in Freeing

(* After a message that frees the line everything has its reason.          *)
LEMMA FreeingIsReason ==
    ASSUME NEW q \in Seq(Item), NEW m \in Item, m.type \in Freeing,
           NEW busy \in BOOLEAN, NEW on \in BOOLEAN
    PROVE  Reasoned(Append(q, m), busy, on)
<1>1. /\ Len(q) \in Nat /\ Len(Append(q, m)) = Len(q) + 1
      /\ Append(q, m)[Len(q) + 1] = m
  BY AppendProperties, LenProperties
<1>2. QED BY <1>1 DEF Reasoned, Freeing

LEMMA TakeKeepsReasons ==
    ASSUME NEW q \in Seq(Item), q # <<>>, NEW busy \in BOOLEAN, NEW on \in BOOLEAN,
           Reasoned(q, busy, on)
    PROVE  Reasoned(Tail(q), IF Head(q).type = "DATA" THEN busy
                             ELSE Head(q).type \in {"BUSY", "SENDING"}, on)
<1> DEFINE r == Tail(q)
           b == IF Head(q).type = "DATA" THEN busy ELSE Head(q).type \in {"BUSY", "SENDING"}
<1>1. /\ Len(q) \in Nat \ {0} /\ Head(q) = q[1] /\ Head(q) \in Item
      /\ Len(r) = Len(q) - 1
      /\ \A k \in 1 .. Len(r) : r[k] = q[k + 1]
  BY HeadTailProperties, LenProperties, EmptySeq
<1> HIDE DEF r
<1>2. ASSUME NEW k \in 1 .. Len(q), \E j \in k + 1 .. Len(q) : q[j].type \in Freeing
      PROVE  \E j \in k .. Len(r) : r[j].type \in Freeing
  <2>1. PICK j \in k + 1 .. Len(q) : q[j].type \in Freeing
    BY <1>2
  <2>2. j - 1 \in k .. Len(r) /\ r[j - 1] = q[j]
    BY <1>1, <2>1
  <2>3. QED BY <2>1, <2>2
<1>3. ASSUME b, ~on PROVE \E j \in 1 .. Len(r) : r[j].type \in Freeing
  <2>1. CASE Head(q).type = "DATA"
    <3>1. PICK j \in 1 .. Len(q) : q[j].type \in Freeing
      BY <1>3, <2>1 DEF Reasoned
    <3>2. j # 1
      BY <2>1, <3>1, <1>1 DEF Freeing
    <3>3. QED BY <1>1, <1>2, <3>1, <3>2
  <2>2. CASE Head(q).type # "DATA"
    <3>1. q[1].type \in {"BUSY", "SENDING"} /\ 1 \in 1 .. Len(q)
      BY <1>1, <1>3, <2>2
    <3>2. \E j \in 1 + 1 .. Len(q) : q[j].type \in Freeing
      BY <1>3, <3>1 DEF Reasoned
    <3>3. QED BY <1>2, <3>1, <3>2
  <2>3. QED BY <2>1, <2>2
<1>4. ASSUME NEW k \in 1 .. Len(r), r[k].type \in {"BUSY", "SENDING"}, ~on
      PROVE  \E j \in k + 1 .. Len(r) : r[j].type \in Freeing
  <2>1. k + 1 \in 1 .. Len(q) /\ r[k] = q[k + 1]
    BY <1>1
  <2>2. \E j \in (k + 1) + 1 .. Len(q) : q[j].type \in Freeing
    BY <1>4, <2>1 DEF Reasoned
  <2>3. QED BY <1>2, <2>1, <2>2
<1>5. Reasoned(r, b, on)
  <2> HIDE DEF b
  <2>1. QED BY <1>3, <1>4 DEF Reasoned
<1>6. QED BY <1>5 DEF r

----------------------------------------------------------------------------
LineInv ==
    /\ TypeOK
    /\ Ordered(coming, heard, dispatched)
    /\ Reasoned(coming, is_line_busy, other \/ sending)

LEMMA LineInvInit ==
    ASSUME Init
    PROVE  LineInv
<1>1. TypeOK
  BY EmptySeq DEF Init, TypeOK
<1>2. Ordered(<<>>, <<>>, <<>>)
  <2> DEFINE c == [k \in 1 .. 1 |-> 1]
  <2>1. c \in [1 .. Len(<<>>) + 1 -> 1 .. Len(<<>>) + 1] /\ Counts(c, <<>>, <<>>, <<>>)
    BY EmptySeq DEF Counts
  <2>2. QED BY <2>1, EmptySeq DEF Ordered
<1>3. Reasoned(<<>>, FALSE, FALSE)
  BY EmptySeq DEF Reasoned
<1>4. QED BY <1>1, <1>2, <1>3 DEF Init, LineInv

(* A message without a packet is told.                                     *)
LEMMA TellKeepsInv ==
    ASSUME LineInv, sending' \in BOOLEAN, other' \in BOOLEAN,
           NEW type \in {"SENDING", "DONE_SENDING", "BUSY", "FREE"},
           type \in Freeing \/ other' \/ sending',
           coming' = Append(coming, Told(type)),
           UNCHANGED <<heard, is_line_busy, dispatched>>
    PROVE  LineInv'
<1>1. Told(type) \in Item /\ Told(type).type = type
  BY ToldAndDelivered
<1>2. TypeOK'
  BY <1>1, AppendProperties DEF LineInv, TypeOK
<1>3. Ordered(coming', heard', dispatched')
  BY <1>1, TellKeepsOrder DEF LineInv, TypeOK
<1>4. Reasoned(coming', is_line_busy', other' \/ sending')
  <2>1. CASE type \in Freeing
    BY <1>1, <2>1, FreeingIsReason DEF LineInv, TypeOK
  <2>2. CASE other' \/ sending'
    BY <2>2 DEF Reasoned
  <2>3. QED BY <2>1, <2>2
<1>5. QED BY <1>2, <1>3, <1>4 DEF LineInv

LEMMA LineInvNext ==
    ASSUME LineInv, [Next]_vars
    PROVE  LineInv'
<1> USE DEF TypeOK
<1>1. CASE Begins
  BY <1>1, TellKeepsInv DEF Begins, LineInv
<1>2. CASE Ends
  BY <1>2, TellKeepsInv DEF Ends, LineInv, Freeing
<1>3. CASE OtherBegins
  BY <1>3, TellKeepsInv DEF OtherBegins, LineInv
<1>4. CASE OtherIsLost
  BY <1>4, TellKeepsInv DEF OtherIsLost, LineInv, Freeing
<1>5. CASE \E p \in Packet : OtherArrives(p)
  <2>1. PICK p \in Packet : OtherArrives(p)
    BY <1>5
  <2> DEFINE q == Append(coming, Delivered(p))
  <2>2. Delivered(p) \in Item /\ Told("FREE") \in Item /\ Told("FREE").type = "FREE"
    BY ToldAndDelivered
  <2>3. q \in Seq(Item) /\ Append(q, Told("FREE")) \in Seq(Item)
    BY <2>2, AppendProperties DEF LineInv
  <2>4. heard' \in Seq(Packet)
    BY <2>1, AppendProperties DEF LineInv, OtherArrives
  <2>5. coming' = Append(q, Told("FREE"))
    BY <2>1 DEF OtherArrives
  <2>6. TypeOK'
    BY <2>1, <2>3, <2>4, <2>5 DEF LineInv, OtherArrives
  <2>7. Ordered(q, heard', dispatched')
    BY <2>1, DeliverKeepsOrder DEF LineInv, OtherArrives
  <2> HIDE DEF q
  <2>8. Ordered(coming', heard', dispatched')
    BY <2>2, <2>3, <2>5, <2>6, <2>7, TellKeepsOrder
  <2>9. Reasoned(coming', is_line_busy', other' \/ sending')
    BY <2>2, <2>3, <2>5, <2>6, FreeingIsReason DEF Freeing
  <2>10. QED BY <2>6, <2>8, <2>9 DEF LineInv
<1>6. CASE Take
  <2>1. Head(coming) \in Item /\ Tail(coming) \in Seq(Item)
    BY <1>6, HeadTailProperties DEF LineInv, Take
  <2>2. dispatched' \in Seq(Packet)
    BY <1>6, <2>1, Items, AppendProperties DEF LineInv, Take
  <2>3. TypeOK'
    <3>1. is_line_busy' \in BOOLEAN
      <4>1. CASE Head(coming).type = "DATA"
        BY <1>6, <4>1 DEF LineInv, Take
      <4>2. CASE Head(coming).type # "DATA"
        <5>1. is_line_busy' = (Head(coming).type \in {"BUSY", "SENDING"})
          BY <1>6, <4>2 DEF Take
        <5>2. QED BY <5>1
      <4>3. QED BY <4>1, <4>2
    <3>2. coming' \in Seq(Item) /\ UNCHANGED <<sending, other, heard>>
      BY <1>6, <2>1 DEF Take
    <3>3. QED BY <2>2, <3>1, <3>2 DEF LineInv
  <2>4. Ordered(coming', heard', dispatched')
    BY <1>6, TakeKeepsOrder DEF LineInv, Take
  <2>5. Reasoned(coming', is_line_busy', other' \/ sending')
    BY <1>6, TakeKeepsReasons DEF LineInv, Take
  <2>6. QED BY <2>3, <2>4, <2>5 DEF LineInv
<1>7. CASE UNCHANGED vars
  BY <1>7 DEF vars, LineInv
<1>8. QED
  BY <1>1, <1>2, <1>3, <1>4, <1>5, <1>6, <1>7 DEF Next

(* Packets are taken in the order they were passed on, each once, and the  *)
(* line is never taken for busy without a reason that will end.            *)
LEMMA LineInvImplies ==
    ASSUME LineInv
    PROVE  DispatchedInOrder /\ BusyHasReason
<1>1. Len(coming) \in Nat /\ Len(heard) \in Nat /\ Len(dispatched) \in Nat
  BY LenProperties DEF LineInv, TypeOK
<1>2. PICK c \in [1 .. Len(coming) + 1 -> 1 .. Len(heard) + 1] :
         Counts(c, coming, heard, dispatched)
  BY DEF LineInv, Ordered
<1>3. c[1] = Len(dispatched) + 1 /\ c[1] \in 1 .. Len(heard) + 1
  BY <1>1, <1>2 DEF Counts
<1>4. DispatchedInOrder
  BY <1>1, <1>3 DEF DispatchedInOrder, LineInv, Ordered
<1>5. BusyHasReason
  BY DEF BusyHasReason, Reason, LineInv, Reasoned, Freeing
<1>6. QED BY <1>4, <1>5

THEOREM LineIsTold == Spec => [](TypeOK /\ DispatchedInOrder /\ BusyHasReason)
<1>1. Init => LineInv
  BY LineInvInit
<1>2. LineInv /\ [Next]_vars => LineInv'
  BY LineInvNext
<1>3. LineInv => TypeOK /\ DispatchedInOrder /\ BusyHasReason
  BY LineInvImplies DEF LineInv
<1>4. QED BY <1>1, <1>2, <1>3, PTL DEF Spec
=============================================================================
