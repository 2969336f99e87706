-------------------------- MODULE TransportProofs --------------------------
(***************************************************************************)
(* Theorems about Transport, for any number of nodes and messages, any     *)
(* radio range, any routing tables and any number of retries.              *)
(***************************************************************************)
EXTENDS Transport, ReassemblerProofs

(***************************************************************************)
(* Type correctness.  A packet carries the number of its attempt, so that  *)
(* the invariant needs that a thread about to send, or waiting, has an     *)
(* attempt left.                                                           *)
(***************************************************************************)
AttemptLeft ==
    \A m \in Message :
        pc[m] \in {"arm", "send", "wait"} => attempts[m] < MAX_RETRIES

TypeInv == TypeOK /\ AttemptLeft

(* The header sendWithRetry builds fits its fields.                        *)
LEMMA DataPacketType ==
    ASSUME TypeInv, NEW m \in Message, pc[m] = "send"
    PROVE  DataPacket(m) \in Packet
<1>1. msg_id[m] % WIRE_IDS \in WireId
  BY WidthAssumption DEF TypeInv, TypeOK, WireId
<1>2. attempts[m] \in 0 .. MAX_RETRIES - 1
  BY BoundAssumption DEF TypeInv, TypeOK, AttemptLeft
<1>3. QED
  BY <1>1, <1>2, RoleAssumption
  DEF TypeInv, TypeOK, DataPacket, Packet, MoreFragments, Chunk

(* So does the header of the ack handleData answers with.                  *)
LEMMA AckPacketType ==
    ASSUME TypeOK, NEW n \in Node, NEW p \in Packet
    PROVE  AckPacket(n, p) \in Packet
BY DEF TypeOK, AckPacket, Packet, Table, Row

(* prepare_header_to_forward changes the next hop to one of the table.     *)
LEMMA ForwardedType ==
    ASSUME TypeOK, NEW n \in Node, NEW p \in Packet
    PROVE  Forwarded(n, p) \in Packet
<1>1. route[n][p.dst].next_hop \in Node \cup {NoHop}
  BY DEF TypeOK, Packet, Table, Row
<1>2. QED
  BY <1>1 DEF Forwarded, Packet

(* What the main loop takes is a packet, on a node.                        *)
LEMMA CopyType ==
    ASSUME TypeOK, NEW n, NEW p, Received(n, p)
    PROVE  n \in Node /\ p \in Packet
BY DEF TypeOK, Received, Copy

(* The loop of sendFragments stays within the fragments of the message.    *)
LEMMA NextFragmentType ==
    ASSUME TypeOK, NEW m \in Message, NextFragment(m)
    PROVE  /\ pc' \in [Message -> PC]
           /\ frag' \in [Message -> Nat]
           /\ \A k \in Message : frag'[k] \in Index(k)
           /\ \A k \in Message : pc'[k] \in {"arm", "send", "wait"} =>
                  k # m /\ pc[k] = pc'[k]
<1>1. CASE frag[m] + 1 < Size[m]
  <2>1. /\ frag' = [frag EXCEPT ![m] = frag[m] + 1]
        /\ pc' = [pc EXCEPT ![m] = "id"]
    BY <1>1 DEF NextFragment
  <2>2. frag[m] + 1 \in Index(m) /\ frag[m] + 1 \in Nat
    BY <1>1, SizeAssumption DEF TypeOK, Index
  <2>3. frag \in [Message -> Nat] /\ \A k \in Message : frag[k] \in Index(k)
    BY DEF TypeOK
  <2>4. frag' \in [Message -> Nat] /\ \A k \in Message : frag'[k] \in Index(k)
    BY <2>1, <2>2, <2>3
  <2>5. QED
    BY <2>1, <2>4 DEF TypeOK, PC
<1>2. CASE ~(frag[m] + 1 < Size[m])
  BY <1>2 DEF NextFragment, TypeOK, PC, Index
<1>3. QED
  BY <1>1, <1>2

(* push_back keeps the type of a queue.                                    *)
LEMMA AppendType ==
    ASSUME NEW S, NEW s \in Seq(S), NEW e \in S
    PROVE  Append(s, e) \in Seq(S)
OBVIOUS

(* The state after construction is well typed.                             *)
LEMMA TypeInit == Init => TypeInv
BY BoundAssumption, RadioAssumption, SizeAssumption, EmptySetType
DEF Init, TypeInv, TypeOK, AttemptLeft, PC, Index, Table, Row

(* Every step of every thread keeps it so.                                 *)
LEMMA TypeStep == TypeInv /\ [Next]_vars => TypeInv'
<1> SUFFICES ASSUME TypeInv, [Next]_vars PROVE TypeInv'
  OBVIOUS
<1> USE DEF TypeInv, TypeOK, AttemptLeft, senderVars, receiverVars
<1>1. ASSUME NEW m \in Message, SendMessage(m) PROVE TypeInv'
  <2>1. (next_msg_id[Src[m]] + 1) % MSG_IDS \in 0 .. MSG_IDS - 1
    BY BoundAssumption, RoleAssumption, SMTT(30)
  <2>2. QED
    BY <1>1, <2>1, RoleAssumption DEF SendMessage, PC
<1>2. ASSUME NEW m \in Message, RouteFound(m) PROVE TypeInv'
  BY <1>2 DEF RouteFound, PC
<1>3. ASSUME NEW m \in Message, SetMessageId(m) PROVE TypeInv'
  BY <1>3, RoleAssumption DEF SetMessageId, PC
<1>4. ASSUME NEW m \in Message, SetFragmentId(m) PROVE TypeInv'
  <2>1. route[Src[m]][Dst[m]].next_hop \in Node \cup {NoHop}
    BY RoleAssumption DEF Table, Row
  <2>2. hop' \in [Message -> Node \cup {NoHop}]
    BY <1>4, <2>1 DEF SetFragmentId
  <2>3. current' \in [Node -> [id : 0 .. MSG_IDS - 1, frag : Nat]]
    BY <1>4, RoleAssumption DEF SetFragmentId
  <2>4. attempts' \in [Message -> 0 .. MAX_RETRIES] /\ AttemptLeft'
    BY <1>4, BoundAssumption, SMTT(30) DEF SetFragmentId
  <2>5. pc' \in [Message -> PC] /\ paused' \subseteq Node
    BY <1>4, RoleAssumption DEF SetFragmentId, PC
  <2>6. QED
    BY <1>4, <2>2, <2>3, <2>4, <2>5 DEF SetFragmentId
<1>5. ASSUME NEW m \in Message, Arm(m) PROVE TypeInv'
  BY <1>5, RoleAssumption DEF Arm, PC
<1>6. ASSUME NEW m \in Message, SendAttempt(m) PROVE TypeInv'
  <2>1. DataPacket(m) \in Packet
    BY <1>6, DataPacketType DEF SendAttempt
  <2>2. QED
    BY <1>6, <2>1, RoleAssumption DEF SendAttempt, Spawned, PC
<1>7. ASSUME NEW m \in Message, Acked(m) PROVE TypeInv'
  <2>1. <<m, frag[m]>> \in Chunk
    BY DEF Chunk
  <2>2. reported' \subseteq Chunk
    BY <1>7, <2>1 DEF Acked
  <2>3. QED
    BY <1>7, <2>2, NextFragmentType DEF Acked
<1>8. ASSUME NEW m \in Message, TimedOut(m) PROVE TypeInv'
  <2>1. attempts' \in [Message -> 0 .. MAX_RETRIES] /\ AttemptLeft'
    BY <1>8, BoundAssumption DEF TimedOut
  <2>2. pc' \in [Message -> PC]
    BY <1>8 DEF TimedOut, PC
  <2>3. QED
    BY <1>8, <2>1, <2>2 DEF TimedOut
<1>9. ASSUME NEW m \in Message, GiveUp(m) PROVE TypeInv'
  <2>1. <<m, frag[m]>> \in Chunk
    BY DEF Chunk
  <2>2. gaveUp' \subseteq Chunk
    BY <1>9, <2>1 DEF GiveUp
  <2>3. attempts' \in [Message -> 0 .. MAX_RETRIES]
    BY <1>9, BoundAssumption DEF GiveUp
  <2>4. /\ pc' \in [Message -> PC]
        /\ frag' \in [Message -> Nat]
        /\ \A k \in Message : frag'[k] \in Index(k)
        /\ \A k \in Message : pc'[k] \in {"arm", "send", "wait"} =>
               k # m /\ pc[k] = pc'[k]
    BY <1>9, NextFragmentType DEF GiveUp
  <2>5. AttemptLeft'
    BY <1>9, <2>4 DEF GiveUp
  <2>6. QED
    BY <1>9, <2>2, <2>3, <2>4, <2>5 DEF GiveUp
<1>10. ASSUME NEW n \in Node, NEW p \in out[n], Transmit(n, p) PROVE TypeInv'
  <2>1. p \in Packet
    OBVIOUS
  <2>2. air' \subseteq Copy
    <3>1. PICK heard \in SUBSET Neighbours[n] :
              air' = air \cup {[to |-> h, pkt |-> p] : h \in heard}
      BY <1>10 DEF Transmit
    <3>2. heard \subseteq Node
      BY RadioAssumption
    <3>3. QED
      BY <3>1, <3>2, <2>1 DEF Copy
  <2>3. out' \in [Node -> SUBSET Packet] /\ paused' \subseteq Node
    BY <1>10 DEF Transmit
  <2>4. QED
    BY <1>10, <2>2, <2>3 DEF Transmit
<1>11. ASSUME NEW n, NEW p, ForwardData(n, p) PROVE TypeInv'
  <2>1. n \in Node /\ p \in Packet
    BY <1>11, CopyType DEF ForwardData
  <2>2. Forwarded(n, p) \in Packet
    BY <2>1, ForwardedType
  <2>3. QED
    BY <1>11, <2>1, <2>2 DEF ForwardData, Received, Spawned
<1>12. ASSUME NEW n, NEW p, IgnoreData(n, p) PROVE TypeInv'
  <2>1. n \in Node
    BY <1>12, CopyType DEF IgnoreData
  <2>2. QED
    BY <1>12, <2>1 DEF IgnoreData, Received
<1>13. ASSUME NEW n, NEW p, AcceptData(n, p) PROVE TypeInv'
  <2>1. n \in Node /\ p \in Packet
    BY <1>13, CopyType DEF AcceptData
  <2>2. AckPacket(n, p) \in Packet
    BY <2>1, AckPacketType
  <2>3. /\ p.id \in WireId /\ p.frag \in Nat
        /\ p.mf \in BOOLEAN /\ p.chunk \in Chunk
    BY <2>1 DEF Packet
  <2> DEFINE fs == buffers[n][p.id]
  <2>4. fs \in FragmentSet
    BY <2>1, <2>3
  <2>5. /\ BufferAfter(fs, p.frag, p.mf, p.chunk) \in FragmentSet
        /\ Result(fs, p.frag, p.mf, p.chunk) \in Seq(Chunk \cup {NoChunk})
    BY <2>3, <2>4, BufferAfterType, ResultType
  <2>6. inbox' \in [Node -> Seq([from : Node,
                                 text : Seq(Chunk \cup {NoChunk})])]
    <3>1. CASE Completes(fs, p.frag, p.mf, p.chunk)
      <4>1. Entry(n, Result(fs, p.frag, p.mf, p.chunk))
                \in [from : Node, text : Seq(Chunk \cup {NoChunk})]
        BY <2>1, <2>5 DEF Entry
      <4>2. QED
        <5> DEFINE S == [from : Node, text : Seq(Chunk \cup {NoChunk})]
                   e == Entry(n, Result(fs, p.frag, p.mf, p.chunk))
        <5>1. inbox \in [Node -> Seq(S)] /\ e \in S
          BY <4>1
        <5>2. inbox' = [inbox EXCEPT ![n] = Append(@, e)]
          BY <1>13, <3>1 DEF AcceptData
        <5> HIDE DEF S, e
        <5>3. Append(inbox[n], e) \in Seq(S)
          BY <5>1, <2>1, AppendType
        <5>4. inbox' \in [Node -> Seq(S)]
          BY <5>1, <5>2, <5>3, <2>1
        <5>5. QED
          BY <5>4 DEF S
    <3>2. CASE ~Completes(fs, p.frag, p.mf, p.chunk)
      BY <1>13, <3>2 DEF AcceptData
    <3>3. QED
      BY <3>1, <3>2
  <2>7. buffers' \in [Node -> [WireId -> FragmentSet]]
    BY <1>13, <2>1, <2>3, <2>5 DEF AcceptData
  <2>8. paused' \subseteq Node
    BY <1>13, <2>1 DEF AcceptData
  <2>9. accepted' \subseteq Chunk /\ air' \subseteq Copy
    BY <1>13, <2>3 DEF AcceptData, Received
  <2>10. out' \in [Node -> SUBSET Packet]
    BY <1>13, <2>1, <2>2 DEF AcceptData, Spawned
  <2>11. QED
    BY <1>13, <2>6, <2>7, <2>8, <2>9, <2>10 DEF AcceptData
<1>14. ASSUME NEW n, NEW p, ReceiveAck(n, p) PROVE TypeInv'
  <2>1. n \in Node /\ p \in Packet
    BY <1>14, CopyType DEF ReceiveAck
  <2>2. Forwarded(n, p) \in Packet
    BY <2>1, ForwardedType
  <2>3. AckMatches(n, p) \in BOOLEAN
    BY DEF AckMatches
  <2>4. QED
    BY <1>14, <2>1, <2>2, <2>3 DEF ReceiveAck, Received, Spawned
<1>15. ASSUME NEW n \in Node, PauseTimeout(n) PROVE TypeInv'
  BY <1>15 DEF PauseTimeout
<1>16. ASSUME NEW n \in Node, RouteChange(n) PROVE TypeInv'
  <2>1. route' \in [Node -> Table]
    <3>1. PICK t \in Tables[n] : route' = [route EXCEPT ![n] = t]
      BY <1>16 DEF RouteChange
    <3>2. t \in Table
      BY <3>1, RadioAssumption
    <3>3. QED
      BY <3>1, <3>2
  <2>2. QED
    BY <1>16, <2>1 DEF RouteChange
<1>17. CASE UNCHANGED vars
  BY <1>17 DEF vars
<1>18. QED
  BY <1>1, <1>2, <1>3, <1>4, <1>5, <1>6, <1>7, <1>8, <1>9, <1>10, <1>11,
     <1>12, <1>13, <1>14, <1>15, <1>16, <1>17 DEF Next, Thread, Receive

(* Every reachable state is well typed, whatever is sent, lost, duplicated *)
(* by a relay or retransmitted, and however routing changes.               *)
THEOREM TypeCorrect == Spec => []TypeOK
<1>1. Init => TypeInv
  BY TypeInit
<1>2. TypeInv /\ [Next]_vars => TypeInv'
  BY TypeStep
<1>3. TypeInv => TypeOK
  BY DEF TypeInv
<1>4. QED
  BY <1>1, <1>2, <1>3, PTL DEF Spec

(***************************************************************************)
(* The conditions under which the protocol keeps its promise: one node     *)
(* originates unicast messages, its user sends one after the other, and at *)
(* most as many as the message id of the header tells apart; and a message *)
(* has at most as many fragments as the Reassembler tells apart.           *)
(***************************************************************************)
Alone ==
    /\ \A m, k \in Message : Src[m] = Src[k]
    /\ ~OVERLAP
    /\ MAX_MESSAGES <= WIRE_IDS
    /\ WIRE_IDS < MSG_IDS
    /\ \A m \in Message : Size[m] <= FRAG_IDS

(***************************************************************************)
(* The inductive invariant.                                                *)
(***************************************************************************)
Sent(m) == pc[m] # "unsent"

(* One thread at a time, and ids that the header field keeps apart.        *)
OneThread == \A m, k \in Message : Live(m) /\ Live(k) => m = k
IdsApart ==
    /\ \A n \in Node : next_msg_id[n] <= MAX_MESSAGES
    /\ \A m \in Message : Sent(m) => msg_id[m] < next_msg_id[Src[m]]
    /\ \A m, k \in Message :
           Sent(m) /\ Sent(k) /\ msg_id[m] = msg_id[k] => m = k

(* A packet under way is of a message that was sent; its header says which *)
(* message and fragment, and an ack comes after its fragment was taken in. *)
Genuine(p) ==
    \E m \in Message :
        /\ Sent(m)
        /\ p.id = msg_id[m] /\ p.frag \in Index(m) /\ p.chunk = <<m, p.frag>>
        /\ p.type = "data" => p.dst = Dst[m] /\ p.mf = MoreFragments(m, p.frag)
        /\ p.type = "ack" => p.chunk \in accepted

PacketsGenuine ==
    /\ \A n \in Node : \A p \in out[n] : Genuine(p)
    /\ \A c \in air : Genuine(c.pkt)

(* A waiting thread is the one the shared fields of its node speak of.     *)
CurrentIsMine ==
    \A m \in Message :
        /\ pc[m] \in {"frag", "arm", "send", "wait"} =>
               current[Src[m]].id = msg_id[m]
        /\ pc[m] \in {"arm", "send", "wait"} => current[Src[m]].frag = frag[m]

AckIsMine ==
    \A m \in Message :
        pc[m] \in {"send", "wait"} /\ ackReceived[Src[m]] =>
            <<m, frag[m]>> \in accepted

(* A buffer holds fragments of one message only, each in its place.        *)
Owner(n, w, m) == Sent(m) /\ msg_id[m] = w /\ Dst[m] = n

BuffersPure ==
    \A n \in Node, w \in WireId :
        LET fs == buffers[n][w] IN
        /\ \A i \in FragId : fs.fragments[i] # NoChunk =>
               \E m \in Message : /\ Owner(n, w, m)
                                  /\ i \in Index(m)
                                  /\ fs.fragments[i] = <<m, i>>
                                  /\ <<m, i>> \in accepted
        /\ fs.MF_recv =>
               \E m \in Message : Owner(n, w, m) /\ fs.total_fragments = Size[m]

(* What was taken in is in the buffer until the text is shown, and a text  *)
(* is shown as soon as it is complete.                                     *)
NothingLost ==
    /\ \A m \in Message : \A i \in Index(m) :
           <<m, i>> \in accepted =>
               \/ HasText(m)
               \/ LET fs == buffers[Dst[m]][msg_id[m]] IN
                  /\ Sent(m)
                  /\ fs.fragments[i] = <<m, i>>
                  /\ i = Size[m] - 1 => fs.MF_recv
    /\ \A n \in Node, w \in WireId : ~Complete(buffers[n][w])

IInv == /\ OneThread /\ IdsApart /\ PacketsGenuine /\ CurrentIsMine
        /\ AckIsMine /\ BuffersPure /\ NothingLost
        /\ DeliveredMeansAccepted /\ DeliveredWhole


(* Nothing has been sent, so nothing can be wrong yet.                     *)
LEMMA InvInit == Init => IInv
<1> SUFFICES ASSUME Init PROVE IInv
  OBVIOUS
<1>1. OneThread /\ IdsApart /\ CurrentIsMine /\ AckIsMine
  BY BoundAssumption, RoleAssumption
  DEF Init, OneThread, IdsApart, CurrentIsMine, AckIsMine, Sent, Live
<1>2. PacketsGenuine /\ DeliveredMeansAccepted /\ DeliveredWhole
  BY DEF Init, PacketsGenuine, DeliveredMeansAccepted, DeliveredWhole
<1>3. BuffersPure /\ NothingLost
  BY RoleAssumption
  DEF Init, BuffersPure, NothingLost, EmptySet, FragId, NoChunk, Complete
<1>4. QED
  BY <1>1, <1>2, <1>3 DEF IInv

(* Messages stay sent, keep their ids, and fragments stay taken in.        *)
LEMMA Monotone ==
    ASSUME TypeInv, Next
    PROVE  /\ \A m \in Message : Sent(m) => Sent(m)' /\ msg_id'[m] = msg_id[m]
           /\ accepted \subseteq accepted'
<1> USE DEF TypeInv, TypeOK, Sent, senderVars, receiverVars
<1>1. ASSUME NEW m \in Message, SendMessage(m)
      PROVE  /\ \A k \in Message : Sent(k) => Sent(k)' /\ msg_id'[k] = msg_id[k]
             /\ accepted' = accepted
  BY <1>1 DEF SendMessage
<1>2. ASSUME NEW m \in Message, RouteFound(m) \/ Thread(m)
      PROVE  /\ \A k \in Message : Sent(k) => Sent(k)'
             /\ msg_id' = msg_id /\ accepted' = accepted
  BY <1>2 DEF RouteFound, Thread, SetMessageId, SetFragmentId, Arm,
              SendAttempt, Acked, TimedOut, GiveUp, NextFragment
<1>3. ASSUME NEW n \in Node,
             (\E p \in out[n] : Transmit(n, p)) \/ PauseTimeout(n) \/ RouteChange(n)
      PROVE  pc' = pc /\ msg_id' = msg_id /\ accepted' = accepted
  BY <1>3 DEF Transmit, PauseTimeout, RouteChange
<1>4. ASSUME NEW n, NEW p, Receive(n, p)
      PROVE  pc' = pc /\ msg_id' = msg_id /\ accepted \subseteq accepted'
  BY <1>4 DEF Receive, ForwardData, IgnoreData, AcceptData, ReceiveAck
<1>5. QED
  BY <1>1, <1>2, <1>3, <1>4 DEF Next

(* With one thread at a time, each message gets an id of its own.          *)
LEMMA ThreadsStep ==
    ASSUME Alone, TypeInv, OneThread, IdsApart, Next
    PROVE  OneThread' /\ IdsApart'
<1> USE DEF TypeInv, TypeOK, OneThread, IdsApart, Sent, Live, senderVars,
            receiverVars
<1>1. ASSUME NEW m \in Message, SendMessage(m) PROVE OneThread' /\ IdsApart'
  <2>1. \A k \in Message : ~Live(k)
    BY <1>1, RoleAssumption DEF SendMessage, Idle, Alone
  <2>2. OneThread'
    BY <1>1, <2>1 DEF SendMessage
  <2>3. next_msg_id[Src[m]] < MAX_MESSAGES
    BY <1>1 DEF SendMessage
  <2>4. (next_msg_id[Src[m]] + 1) % MSG_IDS = next_msg_id[Src[m]] + 1
    <3>1. next_msg_id[Src[m]] + 1 \in Nat /\ next_msg_id[Src[m]] + 1 < MSG_IDS
      BY <2>3, RoleAssumption, BoundAssumption, WidthAssumption, SMTT(30) DEF Alone
    <3>2. QED
      BY ONLY <3>1, SmallMod, BoundAssumption
  <2>5. next_msg_id' = [next_msg_id EXCEPT ![Src[m]] = next_msg_id[Src[m]] + 1]
    BY <1>1, <2>4 DEF SendMessage
  <2>6. \A n \in Node : next_msg_id'[n] <= MAX_MESSAGES
    BY <2>3, <2>5, BoundAssumption, RoleAssumption
  <2>7. /\ \A k \in Message : msg_id'[k] = IF k = m THEN next_msg_id[Src[m]]
                                           ELSE msg_id[k]
        /\ \A k \in Message : Sent(k)' <=> k = m \/ Sent(k)
        /\ ~Sent(m)
    BY <1>1 DEF SendMessage
  <2>8. \A k \in Message : Sent(k) => msg_id[k] < next_msg_id[Src[m]]
    BY DEF Alone
  <2>9. \A k \in Message : Sent(k)' => msg_id'[k] < next_msg_id'[Src[k]]
    <3>1. TAKE k \in Message
    <3>2. Src[k] = Src[m] /\ Src[m] \in Node
      BY RoleAssumption DEF Alone
    <3>3. next_msg_id'[Src[k]] = next_msg_id[Src[m]] + 1
      BY <2>5, <3>2
    <3>4. /\ next_msg_id[Src[m]] \in Nat
          /\ msg_id[k] \in Nat
      BY <3>2
    <3>5. HAVE Sent(k)'
    <3>6. msg_id'[k] <= next_msg_id[Src[m]]
      <4>1. CASE k = m
        BY <2>7, <3>4, <4>1
      <4>2. CASE k # m
        <5>1. msg_id'[k] = msg_id[k] /\ Sent(k)
          BY <2>7, <3>5, <4>2
        <5>2. msg_id[k] < next_msg_id[Src[m]]
          BY <2>8, <5>1
        <5>3. QED
          BY <3>4, <5>1, <5>2
      <4>3. QED
        BY <4>1, <4>2
    <3>7. msg_id'[k] \in Nat
      BY <2>7, <3>4
    <3>8. QED
      BY <3>3, <3>4, <3>6, <3>7
  <2>10. \A j, k \in Message :
             Sent(j)' /\ Sent(k)' /\ msg_id'[j] = msg_id'[k] => j = k
    <3>1. \A k \in Message : Sent(k) => msg_id[k] # next_msg_id[Src[m]]
      BY <2>8, RoleAssumption
    <3>2. QED
      BY <2>7, <3>1
  <2>11. QED
    BY <2>2, <2>6, <2>9, <2>10
<1>2. ASSUME NEW m \in Message, RouteFound(m) \/ Thread(m)
      PROVE  OneThread' /\ IdsApart'
  <2>1. /\ msg_id' = msg_id /\ next_msg_id' = next_msg_id
        /\ \A k \in Message : Live(k)' => Live(k)
        /\ \A k \in Message : Sent(k)' <=> Sent(k)
    BY <1>2 DEF RouteFound, Thread, SetMessageId, SetFragmentId, Arm,
                SendAttempt, Acked, TimedOut, GiveUp, NextFragment
  <2>2. QED
    BY <2>1
<1>3. ASSUME UNCHANGED senderVars PROVE OneThread' /\ IdsApart'
  BY <1>3
<1>4. ASSUME NEW n \in Node,
             (\E p \in out[n] : Transmit(n, p)) \/ PauseTimeout(n) \/ RouteChange(n)
      PROVE  UNCHANGED senderVars
  BY <1>4 DEF Transmit, PauseTimeout, RouteChange
<1>5. ASSUME NEW n, NEW p, Receive(n, p) PROVE UNCHANGED senderVars
  BY <1>5 DEF Receive, ForwardData, IgnoreData, AcceptData, ReceiveAck
<1>6. QED
  BY <1>1, <1>2, <1>3, <1>4, <1>5 DEF Next


(* A header that was genuine stays genuine.                                *)
LEMMA GenuineStays ==
    ASSUME TypeInv, Next, NEW p, Genuine(p)
    PROVE  Genuine(p)'
BY Monotone DEF Genuine

(* Forwarding changes the next hop only.                                   *)
LEMMA ForwardedGenuine ==
    ASSUME NEW n, NEW p \in Packet, Genuine(p)
    PROVE  Genuine(Forwarded(n, p))
<1>1. LET q == Forwarded(n, p)
      IN  /\ q.id = p.id /\ q.frag = p.frag /\ q.chunk = p.chunk
          /\ q.type = p.type /\ q.dst = p.dst /\ q.mf = p.mf
  BY DEF Forwarded, Packet
<1>2. QED
  BY <1>1 DEF Genuine

(* The 3-bit id of a new packet is the id of its message.                  *)
LEMMA IdInField ==
    ASSUME Alone, TypeInv, IdsApart, NEW m \in Message, Sent(m)
    PROVE  msg_id[m] \in WireId
<1>1. msg_id[m] \in Nat /\ msg_id[m] < WIRE_IDS
  BY RoleAssumption, BoundAssumption, WidthAssumption, SMTT(30)
  DEF Alone, IdsApart, TypeInv, TypeOK
<1>2. QED
  BY <1>1, WidthAssumption DEF WireId

(* A thread sends the fragment it stands at, under the id of its message.  *)
LEMMA DataPacketGenuine ==
    ASSUME Alone, TypeInv, IdsApart, NEW m \in Message, pc[m] = "send"
    PROVE  Genuine(DataPacket(m))
<1>1. Sent(m) /\ frag[m] \in Index(m)
  BY DEF Sent, TypeInv, TypeOK
<1>2. msg_id[m] \in Nat /\ msg_id[m] < WIRE_IDS
  BY <1>1, IdInField, WidthAssumption DEF WireId
<1>3. msg_id[m] % WIRE_IDS = msg_id[m]
  BY <1>2, SmallMod, WidthAssumption
<1>4. QED
  BY <1>1, <1>3 DEF Genuine, DataPacket

(* Packets stay genuine: the relays only copy them, and an ack is made of  *)
(* the fragment that has just been taken in.                               *)
LEMMA PacketsStep ==
    ASSUME Alone, TypeInv, IdsApart, PacketsGenuine, Next
    PROVE  PacketsGenuine'
<1>1. \A p : Genuine(p) => Genuine(p)'
  BY GenuineStays
<1> USE DEF PacketsGenuine
<1>2. ASSUME UNCHANGED <<out, air>> PROVE PacketsGenuine'
  BY <1>1, <1>2
<1>3. ASSUME NEW m \in Message, SendAttempt(m) PROVE PacketsGenuine'
  <2>1. \A q : q = DataPacket(m) => Genuine(q)'
    BY <1>1, <1>3, DataPacketGenuine DEF SendAttempt
  <2>2. /\ \A n \in Node : \A q \in out'[n] :
               q \in out[n] \/ q = DataPacket(m)
        /\ air' = air
    BY <1>3, RoleAssumption DEF SendAttempt, Spawned, TypeInv, TypeOK
  <2>3. QED
    BY <1>1, <2>1, <2>2
<1>4. ASSUME NEW n \in Node, NEW p \in out[n], Transmit(n, p)
      PROVE  PacketsGenuine'
  BY <1>1, <1>4 DEF Transmit, TypeInv, TypeOK
<1>5. ASSUME NEW n, NEW p, Receive(n, p) PROVE PacketsGenuine'
  <2>1. Received(n, p)
    BY <1>5 DEF Receive, ForwardData, IgnoreData, AcceptData, ReceiveAck
  <2>2. n \in Node /\ p \in Packet /\ Genuine(p)
    BY <2>1, CopyType DEF Received, TypeInv
  <2>3. \A c \in air' : Genuine(c.pkt)'
    BY <1>1, <2>1 DEF Received
  <2>4. \A q : q = Forwarded(n, p) => Genuine(q)'
    BY <1>1, <2>2, ForwardedGenuine
  <2>5. CASE ForwardData(n, p) \/ IgnoreData(n, p) \/ ReceiveAck(n, p)
    <3>1. \A k \in Node : \A q \in out'[k] :
              q \in out[k] \/ q = Forwarded(n, p)
      <4>1. \/ out' = out
            \/ out' = [out EXCEPT ![n] = out[n] \cup {Forwarded(n, p)}]
        BY <2>5 DEF ForwardData, IgnoreData, ReceiveAck, Spawned
      <4>2. out \in [Node -> SUBSET Packet]
        BY DEF TypeInv, TypeOK
      <4>3. QED
        BY <2>2, <4>1, <4>2
    <3>2. QED
      BY <1>1, <2>3, <2>4, <3>1
  <2>6. CASE AcceptData(n, p)
    <3>1. p.chunk \in accepted'
      BY <2>6 DEF AcceptData
    <3>2. \A q : q = AckPacket(n, p) =>
              /\ q.id = p.id /\ q.frag = p.frag /\ q.chunk = p.chunk
              /\ q.type = "ack"
      BY DEF AckPacket
    <3>3. \A q : q = AckPacket(n, p) => Genuine(q)'
      <4>1. Genuine(p)'
        BY <1>1, <2>2
      <4>2. QED
        BY <3>1, <3>2, <4>1 DEF Genuine
    <3>4. \A k \in Node : \A q \in out'[k] :
              q \in out[k] \/ q = AckPacket(n, p)
      BY <2>2, <2>6 DEF AcceptData, Spawned, TypeInv, TypeOK
    <3>5. QED
      BY <1>1, <2>3, <3>3, <3>4
  <2>7. QED
    BY <1>5, <2>5, <2>6 DEF Receive
<1>6. ASSUME NEW m \in Message,
             \/ SendMessage(m) \/ RouteFound(m) \/ SetMessageId(m)
             \/ SetFragmentId(m) \/ Arm(m) \/ Acked(m) \/ TimedOut(m) \/ GiveUp(m)
      PROVE  UNCHANGED <<out, air>>
  BY <1>6 DEF SendMessage, RouteFound, SetMessageId, SetFragmentId, Arm,
              Acked, TimedOut, GiveUp
<1>7. ASSUME NEW n \in Node, PauseTimeout(n) \/ RouteChange(n)
      PROVE  UNCHANGED <<out, air>>
  BY <1>7 DEF PauseTimeout, RouteChange
<1>8. QED
  BY <1>2, <1>3, <1>4, <1>5, <1>6, <1>7 DEF Next, Thread


(* While a thread runs, no other thread of its node touches the fields it  *)
(* has written.                                                            *)
LEMMA CurrentStep ==
    ASSUME TypeInv, OneThread, CurrentIsMine, Next
    PROVE  CurrentIsMine'
<1> USE DEF TypeInv, TypeOK, CurrentIsMine, Live, senderVars, receiverVars
<1>1. ASSUME NEW m \in Message, SendMessage(m) PROVE CurrentIsMine'
  BY <1>1 DEF SendMessage
<1>2. ASSUME NEW m \in Message, SetMessageId(m) PROVE CurrentIsMine'
  <2>1. \A k \in Message : k # m => ~Live(k)
    BY <1>2 DEF SetMessageId, OneThread
  <2>2. current'[Src[m]].id = msg_id[m] /\ pc'[m] = "frag"
    <3>1. Src[m] \in Node /\ current \in [Node -> [id : 0 .. MSG_IDS - 1, frag : Nat]]
      BY RoleAssumption DEF TypeInv, TypeOK
    <3>2. /\ current' = [current EXCEPT ![Src[m]].id = msg_id[m]]
          /\ pc' = [pc EXCEPT ![m] = "frag"] /\ pc \in [Message -> PC]
      BY <1>2 DEF SetMessageId, TypeInv, TypeOK
    <3>3. QED
      BY ONLY <3>1, <3>2, m \in Message
  <2>3. \A k \in Message : k # m => pc'[k] \in {"unsent", "done"}
    BY <1>2, <2>1 DEF SetMessageId
  <2>4. QED
    BY <1>2, <2>2, <2>3 DEF SetMessageId
<1>3. ASSUME NEW m \in Message, SetFragmentId(m) PROVE CurrentIsMine'
  <2>1. \A k \in Message : k # m => ~Live(k)
    BY <1>3 DEF SetFragmentId, OneThread
  <2>2. /\ current'[Src[m]].id = msg_id[m]
        /\ current'[Src[m]].frag = frag[m]
    <3>1. Src[m] \in Node /\ current \in [Node -> [id : 0 .. MSG_IDS - 1, frag : Nat]]
      BY RoleAssumption DEF TypeInv, TypeOK
    <3>2. current' = [current EXCEPT ![Src[m]].frag = frag[m]]
      BY <1>3 DEF SetFragmentId
    <3>3. current[Src[m]].id = msg_id[m]
      BY <1>3 DEF SetFragmentId, CurrentIsMine
    <3>4. QED
      BY ONLY <3>1, <3>2, <3>3
  <2>3. \A k \in Message : k # m => pc'[k] \in {"unsent", "done"}
    BY <1>3, <2>1 DEF SetFragmentId
  <2>4. QED
    BY <1>3, <2>2, <2>3 DEF SetFragmentId
<1>4. ASSUME NEW m \in Message,
             RouteFound(m) \/ Arm(m) \/ SendAttempt(m) \/ TimedOut(m)
      PROVE  CurrentIsMine'
  BY <1>4 DEF RouteFound, Arm, SendAttempt, TimedOut
<1>5. ASSUME NEW m \in Message, Acked(m) \/ GiveUp(m) PROVE CurrentIsMine'
  <2>1. /\ current' = current /\ msg_id' = msg_id
        /\ \A k \in Message : pc'[k] \in {"frag", "arm", "send", "wait"} =>
               pc'[k] = pc[k] /\ frag'[k] = frag[k]
    BY <1>5 DEF Acked, GiveUp, NextFragment
  <2>2. QED
    BY <2>1
<1>6. ASSUME UNCHANGED senderVars PROVE CurrentIsMine'
  BY <1>6
<1>7. ASSUME NEW n \in Node,
             (\E p \in out[n] : Transmit(n, p)) \/ PauseTimeout(n) \/ RouteChange(n)
      PROVE  UNCHANGED senderVars
  BY <1>7 DEF Transmit, PauseTimeout, RouteChange
<1>8. ASSUME NEW n, NEW p, Receive(n, p) PROVE UNCHANGED senderVars
  BY <1>8 DEF Receive, ForwardData, IgnoreData, AcceptData, ReceiveAck
<1>9. QED
  BY <1>1, <1>2, <1>3, <1>4, <1>5, <1>6, <1>7, <1>8 DEF Next, Thread

(* An ack that matches is an ack for the fragment in hand.                 *)
LEMMA AckStep ==
    ASSUME TypeInv, OneThread, IdsApart, PacketsGenuine, CurrentIsMine,
           AckIsMine, Next
    PROVE  AckIsMine'
<1>1. accepted \subseteq accepted'
  BY Monotone
<1> USE DEF TypeInv, TypeOK, AckIsMine, Live, senderVars, receiverVars
<1>2. ASSUME NEW m \in Message, SendMessage(m) PROVE AckIsMine'
  BY <1>1, <1>2 DEF SendMessage
<1>3. ASSUME NEW m \in Message, Arm(m) PROVE AckIsMine'
  <2>1. \A k \in Message : k # m => pc'[k] \in {"unsent", "done"}
    BY <1>3 DEF Arm, OneThread
  <2>2. ~ackReceived'[Src[m]]
    BY <1>3, RoleAssumption DEF Arm
  <2>3. QED
    BY <2>1, <2>2
<1>4. ASSUME NEW m \in Message,
             \/ RouteFound(m) \/ SetMessageId(m) \/ SetFragmentId(m)
             \/ SendAttempt(m) \/ TimedOut(m)
      PROVE  AckIsMine'
  <2>1. /\ frag' = frag /\ ackReceived' = ackReceived
        /\ \A k \in Message : pc'[k] \in {"send", "wait"} =>
               pc[k] \in {"send", "wait"}
    BY <1>4 DEF RouteFound, SetMessageId, SetFragmentId, SendAttempt, TimedOut
  <2>2. QED
    BY <1>1, <2>1
<1>5. ASSUME NEW m \in Message, Acked(m) \/ GiveUp(m) PROVE AckIsMine'
  <2>1. /\ ackReceived' = ackReceived
        /\ \A k \in Message : pc'[k] \in {"send", "wait"} =>
               pc'[k] = pc[k] /\ frag'[k] = frag[k]
    BY <1>5 DEF Acked, GiveUp, NextFragment
  <2>2. QED
    BY <1>1, <2>1
<1>6. ASSUME UNCHANGED <<senderVars, ackReceived>> PROVE AckIsMine'
  BY <1>1, <1>6
<1>7. ASSUME NEW n \in Node,
             (\E p \in out[n] : Transmit(n, p)) \/ PauseTimeout(n) \/ RouteChange(n)
      PROVE  UNCHANGED <<senderVars, ackReceived>>
  BY <1>7 DEF Transmit, PauseTimeout, RouteChange
<1>8. ASSUME NEW n, NEW p, ForwardData(n, p) \/ IgnoreData(n, p) \/ AcceptData(n, p)
      PROVE UNCHANGED <<senderVars, ackReceived>>
  BY <1>8 DEF ForwardData, IgnoreData, AcceptData
<1>9. ASSUME NEW n, NEW p, ReceiveAck(n, p) PROVE AckIsMine'
  <2>1. n \in Node /\ p \in Packet /\ Genuine(p) /\ p.type = "ack"
    BY <1>9, CopyType DEF ReceiveAck, Received, PacketsGenuine
  <2>2. ASSUME NEW m \in Message, pc'[m] \in {"send", "wait"},
               ackReceived'[Src[m]]
        PROVE  <<m, frag'[m]>> \in accepted'
    <3>1. pc[m] \in {"send", "wait"} /\ frag'[m] = frag[m]
      BY <1>9, <2>2 DEF ReceiveAck
    <3>2. CASE ackReceived[Src[m]]
      BY <1>1, <3>1, <3>2
    <3>3. CASE ~ackReceived[Src[m]]
      <4>1. n = Src[m] /\ AckMatches(n, p)
        BY <1>9, <2>1, <2>2, <3>3, RoleAssumption DEF ReceiveAck
      <4>2. p.id = msg_id[m] /\ p.frag = frag[m]
        BY <3>1, <4>1 DEF AckMatches, CurrentIsMine
      <4>3. PICK k \in Message : /\ Sent(k) /\ p.id = msg_id[k]
                                 /\ p.chunk = <<k, p.frag>>
                                 /\ p.chunk \in accepted
        BY <2>1 DEF Genuine
      <4>4. k = m
        BY <3>1, <4>2, <4>3 DEF IdsApart, Sent
      <4>5. QED
        BY <1>1, <3>1, <4>2, <4>3, <4>4
    <3>4. QED
      BY <3>2, <3>3
  <2>3. QED
    BY <2>2
<1>10. QED
  BY <1>2, <1>3, <1>4, <1>5, <1>6, <1>7, <1>8, <1>9 DEF Next, Thread, Receive

(* The thread logs [DELIVERED] when the ack it has is its own.             *)
LEMMA ReportStep ==
    ASSUME TypeInv, AckIsMine, DeliveredMeansAccepted, Next
    PROVE  DeliveredMeansAccepted'
<1>1. accepted \subseteq accepted'
  BY Monotone
<1>2. ASSUME NEW m \in Message, Acked(m) PROVE reported' \subseteq accepted
  BY <1>2 DEF Acked, AckIsMine, DeliveredMeansAccepted
<1>3. ASSUME NEW m \in Message,
             \/ SendMessage(m) \/ RouteFound(m) \/ SetMessageId(m)
             \/ SetFragmentId(m) \/ Arm(m) \/ SendAttempt(m) \/ TimedOut(m)
             \/ GiveUp(m)
      PROVE  reported' = reported
  BY <1>3 DEF SendMessage, RouteFound, SetMessageId, SetFragmentId, Arm,
              SendAttempt, TimedOut, GiveUp
<1>4. ASSUME NEW n \in Node,
             (\E p \in out[n] : Transmit(n, p)) \/ PauseTimeout(n) \/ RouteChange(n)
      PROVE  reported' = reported
  BY <1>4 DEF Transmit, PauseTimeout, RouteChange, senderVars
<1>5. ASSUME NEW n, NEW p, Receive(n, p) PROVE reported' = reported
  BY <1>5 DEF Receive, ForwardData, IgnoreData, AcceptData, ReceiveAck, senderVars
<1>6. QED
  BY <1>1, <1>2, <1>3, <1>4, <1>5 DEF Next, Thread, DeliveredMeansAccepted


(* Storing a genuine fragment of m in its buffer: the buffer holds         *)
(* fragments of m only, and the text it yields is the whole of m.          *)
StoredFor(m, n, f) ==
    Stored(buffers[n][msg_id[m]], f % FRAG_IDS, MoreFragments(m, f), <<m, f>>)

WellStored(m, n, f, st) ==
    LET fs == buffers[n][msg_id[m]] IN
    /\ \A i \in FragId : st.fragments[i] # NoChunk =>
           /\ i \in Index(m) /\ st.fragments[i] = <<m, i>>
           /\ i = f \/ <<m, i>> \in accepted
    /\ st.MF_recv => st.total_fragments = Size[m]
    /\ st.fragments[f] = <<m, f>>
    /\ f = Size[m] - 1 => st.MF_recv
    /\ fs.MF_recv => st.MF_recv
    /\ \A i \in FragId : i # f => st.fragments[i] = fs.fragments[i]
    /\ Complete(st) => Joined(st) = Whole(m)

(* Storing a genuine fragment mixes no messages in a buffer.               *)
LEMMA StorePure ==
    ASSUME Alone, TypeInv, IdsApart, BuffersPure, NEW n \in Node,
           NEW m \in Message, NEW f \in Index(m),
           Sent(m), Dst[m] = n, msg_id[m] \in WireId
    PROVE  WellStored(m, n, f, StoredFor(m, n, f))
<1> DEFINE w == msg_id[m]
           fs == buffers[n][w]
           mf == MoreFragments(m, f)
           st == StoredFor(m, n, f)
<1>1. Size[m] \in Nat \ {0} /\ Size[m] <= FRAG_IDS /\ FRAG_IDS \in Nat \ {0}
  BY SizeAssumption, WidthAssumption DEF Alone
<1>2. f \in Nat /\ f < Size[m] /\ f \in FragId
  BY <1>1 DEF Index, FragId
<1>3. f % FRAG_IDS = f
  BY <1>1, <1>2, SmallMod
<1>4. fs \in FragmentSet /\ w \in WireId
  BY DEF TypeInv, TypeOK
<1>5. \A k \in Message : Owner(n, w, k) => k = m
  BY DEF Owner, IdsApart
<1>6. /\ \A i \in FragId : fs.fragments[i] # NoChunk =>
             i \in Index(m) /\ fs.fragments[i] = <<m, i>> /\ <<m, i>> \in accepted
      /\ fs.MF_recv => fs.total_fragments = Size[m]
  <2>1. \A i \in FragId : fs.fragments[i] # NoChunk =>
            \E k \in Message : /\ Owner(n, w, k) /\ i \in Index(k)
                               /\ fs.fragments[i] = <<k, i>>
                               /\ <<k, i>> \in accepted
    BY <1>4 DEF BuffersPure
  <2>2. fs.MF_recv => \E k \in Message : Owner(n, w, k)
                                         /\ fs.total_fragments = Size[k]
    BY <1>4 DEF BuffersPure
  <2> HIDE DEF w, fs
  <2>3. QED
    BY <1>5, <2>1, <2>2
<1> HIDE DEF w, fs
<1>7. /\ st.fragments = [fs.fragments EXCEPT ![f] = <<m, f>>]
      /\ st.total_fragments = IF mf THEN fs.total_fragments ELSE f + 1
      /\ st.MF_recv = (fs.MF_recv \/ ~mf)
  BY <1>3 DEF Stored, StoredFor, fs, w
<1> HIDE DEF mf, st
<1>8. fs.fragments \in [FragId -> Chunk \cup {NoChunk}]
  BY <1>4 DEF FragmentSet
<1>9. mf <=> f < Size[m] - 1
  BY DEF MoreFragments, mf
<1>10. ~mf => f + 1 = Size[m]
  BY <1>1, <1>2, <1>9
<1>11. \A i \in FragId : st.fragments[i] # NoChunk =>
           /\ i \in Index(m) /\ st.fragments[i] = <<m, i>>
           /\ i = f \/ <<m, i>> \in accepted
  BY <1>6, <1>7, <1>8, <1>2
<1>12. st.MF_recv => st.total_fragments = Size[m]
  BY <1>6, <1>7, <1>10
<1>13. /\ st.fragments[f] = <<m, f>>
       /\ \A i \in FragId : i # f => st.fragments[i] = fs.fragments[i]
  BY <1>2, <1>7, <1>8
<1>14. /\ f = Size[m] - 1 => st.MF_recv
       /\ fs.MF_recv => st.MF_recv
  <2>1. f = Size[m] - 1 => ~mf
    BY <1>1, <1>2, <1>9
  <2>2. QED
    BY <1>7, <2>1, Zenon
<1>15. ASSUME Complete(st) PROVE Joined(st) = Whole(m)
  <2>1. st.total_fragments = Size[m]
    BY <1>12, <1>15 DEF Complete
  <2>2. \A i \in 1 .. Size[m] : i - 1 \in FragId /\ i - 1 \in 0 .. Size[m] - 1
    BY <1>1 DEF FragId
  <2>3. \A i \in 1 .. Size[m] : st.fragments[i - 1] = <<m, i - 1>>
    BY <1>11, <1>15, <2>1, <2>2 DEF Complete
  <2>4. QED
    BY <2>1, <2>3 DEF Joined, Whole
<1>16. QED
  BY <1>11, <1>12, <1>13, <1>14, <1>15 DEF WellStored, fs, w, st


(* A shown text stays in the inbox, and a new one comes after it.          *)
LEMMA AppendKeeps ==
    ASSUME NEW S, NEW s \in Seq(S), NEW e
    PROVE  /\ \A k \in DOMAIN s : k \in DOMAIN Append(s, e)
                                  /\ Append(s, e)[k] = s[k]
           /\ \A k \in DOMAIN Append(s, e) :
                  \/ k \in DOMAIN s /\ Append(s, e)[k] = s[k]
                  \/ Append(s, e)[k] = e
           /\ \E k \in DOMAIN Append(s, e) : Append(s, e)[k] = e
OBVIOUS

(* What handleData does with a fragment, when ids are apart: it stores it  *)
(* in the buffer of its message, and shows the text of a complete buffer.  *)
AcceptedAs(n, m, f) ==
    LET st == StoredFor(m, n, f) IN
    /\ Sent(m) /\ Dst[m] = n /\ msg_id[m] \in WireId
    /\ WellStored(m, n, f, st)
    /\ buffers' = [buffers EXCEPT
                      ![n][msg_id[m]] = IF Complete(st) THEN EmptySet ELSE st]
    /\ accepted' = accepted \cup {<<m, f>>}
    /\ Complete(st) =>
           inbox' = [inbox EXCEPT ![n] = Append(@, Entry(n, Joined(st)))]
    /\ ~Complete(st) => inbox' = inbox

LEMMA AcceptedFragment ==
    ASSUME Alone, TypeInv, IdsApart, PacketsGenuine, BuffersPure,
           NEW n, NEW p, AcceptData(n, p)
    PROVE  n \in Node /\ \E m \in Message : \E f \in Index(m) : AcceptedAs(n, m, f)
<1>1. n \in Node /\ p \in Packet /\ Genuine(p) /\ p.type = "data" /\ p.dst = n
  BY CopyType DEF AcceptData, Received, PacketsGenuine, TypeInv
<1>2. PICK m \in Message :
          /\ Sent(m) /\ p.id = msg_id[m] /\ p.frag \in Index(m)
          /\ p.chunk = <<m, p.frag>>
          /\ p.dst = Dst[m] /\ p.mf = MoreFragments(m, p.frag)
  BY <1>1 DEF Genuine
<1>3. msg_id[m] \in WireId /\ Dst[m] = n
  BY <1>1, <1>2 DEF Packet
<1>4. WellStored(m, n, p.frag, StoredFor(m, n, p.frag))
  BY <1>1, <1>2, <1>3, StorePure
<1> DEFINE f  == p.frag
           st == StoredFor(m, n, f)
<1>5. /\ buffers' = [buffers EXCEPT ![n][msg_id[m]] = IF Complete(st) THEN EmptySet
                                                      ELSE st]
      /\ accepted' = accepted \cup {<<m, f>>}
      /\ Complete(st) =>
             inbox' = [inbox EXCEPT ![n] = Append(@, Entry(n, Joined(st)))]
      /\ ~Complete(st) => inbox' = inbox
  BY <1>2 DEF AcceptData, BufferAfter, Completes, Result, StoredFor
<1> HIDE DEF f, st
<1>6. f \in Index(m) /\ AcceptedAs(n, m, f)
  BY <1>2, <1>3, <1>4, <1>5 DEF AcceptedAs, f, st
<1>7. QED
  BY <1>1, <1>6

(* handleData loses no fragment and shows only whole texts.                *)
LEMMA AcceptStep ==
    ASSUME Alone, TypeInv, IdsApart, PacketsGenuine, BuffersPure, NothingLost,
           DeliveredWhole, NEW n, NEW p, AcceptData(n, p)
    PROVE  BuffersPure' /\ NothingLost' /\ DeliveredWhole'
<1>1. n \in Node
  BY AcceptedFragment
<1> PICK m \in Message : \E i \in Index(m) : AcceptedAs(n, m, i)
  BY AcceptedFragment
<1>2. PICK f \in Index(m) : AcceptedAs(n, m, f)
  OBVIOUS
<1> DEFINE w  == msg_id[m]
           st == StoredFor(m, n, f)
<1>3. Sent(m) /\ w \in WireId /\ Dst[m] = n /\ f \in Nat
  BY <1>2 DEF AcceptedAs, Index
<1>4. f \in FragId
  BY <1>3, SizeAssumption, WidthAssumption DEF Alone, Index, FragId
<1>5. /\ \A i \in FragId : st.fragments[i] # NoChunk =>
             /\ i \in Index(m) /\ st.fragments[i] = <<m, i>>
             /\ i = f \/ <<m, i>> \in accepted
      /\ st.MF_recv => st.total_fragments = Size[m]
      /\ st.fragments[f] = <<m, f>>
      /\ f = Size[m] - 1 => st.MF_recv
      /\ buffers[n][w].MF_recv => st.MF_recv
      /\ \A i \in FragId : i # f =>
             st.fragments[i] = buffers[n][w].fragments[i]
      /\ Complete(st) => Joined(st) = Whole(m)
  BY <1>2 DEF AcceptedAs, WellStored
<1>6. /\ buffers' = [buffers EXCEPT ![n][w] = IF Complete(st) THEN EmptySet
                                              ELSE st]
      /\ accepted' = accepted \cup {<<m, f>>}
      /\ Complete(st) =>
             inbox' = [inbox EXCEPT ![n] = Append(@, Entry(n, Joined(st)))]
      /\ ~Complete(st) => inbox' = inbox
      /\ pc' = pc /\ msg_id' = msg_id
  BY <1>2 DEF AcceptedAs, AcceptData, senderVars
<1> HIDE DEF st, w
<1>7. /\ buffers'[n][w] = IF Complete(st) THEN EmptySet ELSE st
      /\ \A n2 \in Node, w2 \in WireId :
             n2 # n \/ w2 # w => buffers'[n2][w2] = buffers[n2][w2]
  BY <1>1, <1>3, <1>6 DEF TypeInv, TypeOK
<1>8. ~Complete(EmptySet) /\ ~EmptySet.MF_recv
      /\ \A i \in FragId : EmptySet.fragments[i] = NoChunk
  BY DEF Complete, EmptySet
<1>9. \A k \in Message : Sent(k)' = Sent(k) /\ msg_id'[k] = msg_id[k]
  BY <1>6 DEF Sent
<1>10. BuffersPure'
  <2> SUFFICES ASSUME NEW n2 \in Node, NEW w2 \in WireId
      PROVE  /\ \A i \in FragId : buffers'[n2][w2].fragments[i] # NoChunk =>
                    \E k \in Message : /\ Owner(n2, w2, k)'
                                       /\ i \in Index(k)
                                       /\ buffers'[n2][w2].fragments[i] = <<k, i>>
                                       /\ <<k, i>> \in accepted'
             /\ buffers'[n2][w2].MF_recv =>
                    \E k \in Message :
                        /\ Owner(n2, w2, k)'
                        /\ buffers'[n2][w2].total_fragments = Size[k]
    BY DEF BuffersPure
  <2>1. CASE n2 # n \/ w2 # w
    <3>1. buffers'[n2][w2] = buffers[n2][w2]
      BY <1>7, <2>1
    <3>2. \A k \in Message : Owner(n2, w2, k) => Owner(n2, w2, k)'
      BY <1>9 DEF Owner
    <3>3. /\ \A i \in FragId : buffers[n2][w2].fragments[i] # NoChunk =>
                 \E k \in Message : /\ Owner(n2, w2, k)
                                    /\ i \in Index(k)
                                    /\ buffers[n2][w2].fragments[i] = <<k, i>>
                                    /\ <<k, i>> \in accepted
          /\ buffers[n2][w2].MF_recv =>
                 \E k \in Message :
                     /\ Owner(n2, w2, k)
                     /\ buffers[n2][w2].total_fragments = Size[k]
      BY DEF BuffersPure
    <3>4. QED
      BY <1>6, <3>1, <3>2, <3>3
  <2>2. CASE n2 = n /\ w2 = w
    <3>1. Owner(n2, w2, m)'
      BY <1>2, <1>3, <1>9, <2>2 DEF Owner, w
    <3>2. CASE Complete(st)
      BY <1>7, <1>8, <2>2, <3>2
    <3>3. CASE ~Complete(st)
      BY <1>5, <1>6, <1>7, <2>2, <3>1, <3>3
    <3>4. QED
      BY <3>2, <3>3
  <2>3. QED
    BY <2>1, <2>2
<1>11. /\ \A k \in Message : HasText(k) => HasText(k)'
       /\ Complete(st) => HasText(m)'
       /\ DeliveredWhole'
  <2>1. CASE ~Complete(st)
    BY <1>6, <2>1 DEF HasText, DeliveredWhole
  <2>2. CASE Complete(st)
    <3> DEFINE S == [from : Node, text : Seq(Chunk \cup {NoChunk})]
               e == Entry(n, Joined(st))
    <3>1. inbox \in [Node -> Seq(S)] /\ e.text = Whole(m)
      BY <1>5, <2>2 DEF TypeInv, TypeOK, Entry
    <3> HIDE DEF S
    <3>2. inbox' = [inbox EXCEPT ![n] = Append(inbox[n], e)]
      BY <1>6, <2>2
    <3>3. /\ inbox'[n] = Append(inbox[n], e)
          /\ \A n2 \in Node : n2 # n => inbox'[n2] = inbox[n2]
      BY <1>1, <3>1, <3>2
    <3> HIDE DEF e
    <3>4. /\ \A k \in DOMAIN inbox[n] :
                 k \in DOMAIN inbox'[n] /\ inbox'[n][k] = inbox[n][k]
          /\ \A k \in DOMAIN inbox'[n] :
                 \/ k \in DOMAIN inbox[n] /\ inbox'[n][k] = inbox[n][k]
                 \/ inbox'[n][k] = e
          /\ \E k \in DOMAIN inbox'[n] : inbox'[n][k] = e
      <4>1. inbox[n] \in Seq(S)
        BY <1>1, <3>1
      <4>2. QED
        BY <3>3, <4>1, AppendKeeps
    <3>5. \A k \in Message : HasText(k) => HasText(k)'
      BY <3>3, <3>4, RoleAssumption DEF HasText
    <3>6. HasText(m)'
      BY <1>3, <3>1, <3>4 DEF HasText
    <3>7. DeliveredWhole'
      <4>1. ASSUME NEW l \in Node, NEW k \in DOMAIN inbox'[l]
            PROVE  \E j \in Message : Dst[j] = l /\ inbox'[l][k].text = Whole(j)
        <5>1. CASE k \in DOMAIN inbox[l] /\ inbox'[l][k] = inbox[l][k]
          BY <5>1 DEF DeliveredWhole
        <5>2. CASE ~(k \in DOMAIN inbox[l] /\ inbox'[l][k] = inbox[l][k])
          <6>1. l = n /\ inbox'[l][k] = e
            BY <3>3, <3>4, <4>1, <5>2
          <6>2. QED
            BY <1>3, <3>1, <6>1
        <5>3. QED
          BY <5>1, <5>2
      <4>2. QED
        BY <4>1 DEF DeliveredWhole
    <3>8. QED
      BY <3>5, <3>6, <3>7
  <2>3. QED
    BY <2>1, <2>2
<1>12. NothingLost'
  <2>1. \A n2 \in Node, w2 \in WireId : ~Complete(buffers'[n2][w2])
    BY <1>7, <1>8 DEF NothingLost
  <2>2. ASSUME NEW k \in Message, NEW i \in Index(k), <<k, i>> \in accepted',
               ~HasText(k)'
        PROVE  /\ Sent(k)'
               /\ buffers'[Dst[k]][msg_id'[k]].fragments[i] = <<k, i>>
               /\ i = Size[k] - 1 => buffers'[Dst[k]][msg_id'[k]].MF_recv
    <3>1. ~HasText(k)
      BY <1>11, <2>2
    <3>2. CASE k = m
      <4>1. buffers'[n][w] = st
        BY <1>7, <1>11, <2>2, <3>2
      <4>2. CASE i = f
        BY <1>2, <1>3, <1>5, <1>9, <3>2, <4>1, <4>2 DEF w
      <4>3. CASE i # f
        <5>1. <<m, i>> \in accepted
          BY <1>6, <2>2, <3>2, <4>3
        <5>2. /\ buffers[n][w].fragments[i] = <<m, i>>
              /\ i = Size[m] - 1 => buffers[n][w].MF_recv
          BY <1>3, <2>2, <3>1, <3>2, <5>1 DEF NothingLost, w
        <5>3. i \in FragId
          BY <3>2, SizeAssumption, WidthAssumption DEF Alone, Index, FragId
        <5>4. st.fragments[i] = <<m, i>> /\ (i = Size[m] - 1 => st.MF_recv)
          BY <1>5, <4>3, <5>2, <5>3
        <5>5. Dst[k] = n /\ msg_id'[k] = w /\ Sent(k)'
          BY <1>2, <1>3, <1>9, <3>2 DEF w
        <5>6. QED
          BY <3>2, <4>1, <5>4, <5>5
      <4>4. QED
        BY <4>2, <4>3
    <3>3. CASE k # m
      <4>1. <<k, i>> \in accepted
        BY <1>6, <2>2, <3>3
      <4>2. /\ Sent(k)
            /\ buffers[Dst[k]][msg_id[k]].fragments[i] = <<k, i>>
            /\ i = Size[k] - 1 => buffers[Dst[k]][msg_id[k]].MF_recv
        BY <3>1, <4>1 DEF NothingLost
      <4>3. msg_id[k] # w
        BY <1>3, <3>3, <4>2 DEF IdsApart, w
      <4>4. buffers'[Dst[k]][msg_id[k]] = buffers[Dst[k]][msg_id[k]]
        BY <1>7, <4>2, <4>3, IdInField, RoleAssumption
      <4>5. QED
        BY <1>9, <4>2, <4>4
    <3>4. QED
      BY <3>2, <3>3
  <2>3. QED
    BY <2>1, <2>2 DEF NothingLost
<1>13. QED
  BY <1>10, <1>11, <1>12

(* No other step touches what has been taken in.                           *)
LEMMA ReceiverSame ==
    ASSUME BuffersPure, NothingLost, DeliveredWhole, UNCHANGED receiverVars,
           \A m \in Message : Sent(m) => Sent(m)' /\ msg_id'[m] = msg_id[m]
    PROVE  BuffersPure' /\ NothingLost' /\ DeliveredWhole'
<1>1. buffers' = buffers /\ inbox' = inbox /\ accepted' = accepted
  BY DEF receiverVars
<1>2. DeliveredWhole' /\ \A m \in Message : HasText(m)' <=> HasText(m)
  BY <1>1 DEF DeliveredWhole, HasText
<1>3. \A n, w : \A k \in Message : Owner(n, w, k) => Owner(n, w, k)'
  BY DEF Owner
<1>4. ASSUME NEW n \in Node, NEW w \in WireId
      PROVE  /\ \A i \in FragId : buffers[n][w].fragments[i] # NoChunk =>
                    \E k \in Message : /\ Owner(n, w, k)'
                                       /\ i \in Index(k)
                                       /\ buffers[n][w].fragments[i] = <<k, i>>
                                       /\ <<k, i>> \in accepted
             /\ buffers[n][w].MF_recv =>
                    \E k \in Message :
                        /\ Owner(n, w, k)'
                        /\ buffers[n][w].total_fragments = Size[k]
  <2>1. /\ \A i \in FragId : buffers[n][w].fragments[i] # NoChunk =>
               \E k \in Message : /\ Owner(n, w, k)
                                  /\ i \in Index(k)
                                  /\ buffers[n][w].fragments[i] = <<k, i>>
                                  /\ <<k, i>> \in accepted
        /\ buffers[n][w].MF_recv =>
               \E k \in Message :
                   /\ Owner(n, w, k)
                   /\ buffers[n][w].total_fragments = Size[k]
    BY DEF BuffersPure
  <2>2. QED
    BY <1>3, <2>1
<1>5. BuffersPure'
  BY <1>1, <1>4 DEF BuffersPure
<1>6. NothingLost'
  BY <1>1, <1>2 DEF NothingLost
<1>7. QED
  BY <1>2, <1>5, <1>6

(* The other steps of the main loop leave buffers and texts alone.         *)
LEMMA ReceiverStep ==
    ASSUME Alone, TypeInv, IdsApart, PacketsGenuine, BuffersPure, NothingLost,
           DeliveredWhole, Next
    PROVE  BuffersPure' /\ NothingLost' /\ DeliveredWhole'
<1>1. \A m \in Message : Sent(m) => Sent(m)' /\ msg_id'[m] = msg_id[m]
  BY Monotone
<1>2. ASSUME UNCHANGED receiverVars
      PROVE  BuffersPure' /\ NothingLost' /\ DeliveredWhole'
  BY <1>1, <1>2, ReceiverSame
<1>3. ASSUME NEW m \in Message, SendMessage(m) \/ RouteFound(m) \/ Thread(m)
      PROVE  UNCHANGED receiverVars
  BY <1>3 DEF SendMessage, RouteFound, Thread, SetMessageId, SetFragmentId,
              Arm, SendAttempt, Acked, TimedOut, GiveUp
<1>4. ASSUME NEW n \in Node,
             (\E p \in out[n] : Transmit(n, p)) \/ PauseTimeout(n) \/ RouteChange(n)
      PROVE  UNCHANGED receiverVars
  BY <1>4 DEF Transmit, PauseTimeout, RouteChange
<1>5. ASSUME NEW n, NEW p, ForwardData(n, p) \/ IgnoreData(n, p) \/ ReceiveAck(n, p)
      PROVE  UNCHANGED receiverVars
  BY <1>5 DEF ForwardData, IgnoreData, ReceiveAck
<1>6. QED
  BY <1>2, <1>3, <1>4, <1>5, AcceptStep DEF Next, Receive

(* Every step of every thread preserves the invariant.                     *)
LEMMA InvStep == Alone /\ TypeInv /\ IInv /\ [Next]_vars => IInv'
<1> SUFFICES ASSUME Alone, TypeInv, IInv, [Next]_vars PROVE IInv'
  OBVIOUS
<1>1. CASE Next
  BY <1>1, ThreadsStep, PacketsStep, CurrentStep, AckStep, ReportStep,
     ReceiverStep DEF IInv
<1>2. CASE UNCHANGED vars
  <2> USE <1>2 DEF vars, senderVars, receiverVars
  <2>1. OneThread' /\ IdsApart' /\ CurrentIsMine' /\ AckIsMine'
    BY DEF IInv, OneThread, IdsApart, CurrentIsMine, AckIsMine, Live, Sent
  <2>2. PacketsGenuine' /\ DeliveredMeansAccepted'
    BY DEF IInv, PacketsGenuine, Genuine, Sent, DeliveredMeansAccepted
  <2>3. BuffersPure' /\ NothingLost' /\ DeliveredWhole'
    BY ReceiverSame DEF IInv, Sent
  <2>4. QED
    BY <2>1, <2>2, <2>3 DEF IInv
<1>3. QED
  BY <1>1, <1>2

(* When every fragment was taken in, the text has been shown: a complete   *)
(* buffer is never kept.                                                   *)
AllTakenIsShown ==
    \A m \in Message : (\A i \in Index(m) : <<m, i>> \in accepted) => HasText(m)

LEMMA InvAllTaken == ASSUME Alone, TypeInv, IInv PROVE AllTakenIsShown
<1> SUFFICES ASSUME NEW m \in Message, \A i \in Index(m) : <<m, i>> \in accepted,
                    ~HasText(m)
             PROVE  FALSE
  BY DEF AllTakenIsShown
<1> DEFINE fs == buffers[Dst[m]][msg_id[m]]
<1>1. Size[m] \in Nat \ {0}
  BY SizeAssumption
<1>2. \A i \in Index(m) : /\ Sent(m)
                          /\ fs.fragments[i] = <<m, i>>
                          /\ i = Size[m] - 1 => fs.MF_recv
  BY DEF IInv, NothingLost
<1>3. Size[m] - 1 \in Index(m)
  BY <1>1 DEF Index
<1>4. Sent(m) /\ fs.MF_recv
  BY <1>2, <1>3
<1>5. msg_id[m] \in WireId
  BY <1>4, IdInField DEF IInv
<1>6. fs.total_fragments = Size[m]
  <2>1. PICK k \in Message : Owner(Dst[m], msg_id[m], k)
                             /\ fs.total_fragments = Size[k]
    BY <1>4, <1>5, RoleAssumption DEF IInv, BuffersPure
  <2>2. k = m
    BY <1>4, <2>1 DEF Owner, IInv, IdsApart
  <2>3. QED
    BY <2>1, <2>2
<1>7. NoChunk # <<m, 0>> /\ \A i \in Index(m) : fs.fragments[i] # NoChunk
  BY <1>2 DEF NoChunk
<1>8. Complete(fs)
  BY <1>4, <1>6, <1>7 DEF Complete, Index
<1>9. QED
  BY <1>5, <1>8, RoleAssumption DEF IInv, NothingLost

LEMMA InvEndToEnd == ASSUME Alone, TypeInv, IInv PROVE EndToEnd
BY InvAllTaken DEF AllTakenIsShown, EndToEnd, IInv, DeliveredMeansAccepted

(* The three promises, for a single sender whose user sends one message    *)
(* after the other and no more than the header has ids for.                *)
THEOREM DeliveredIsTrue == Alone => (Spec => []DeliveredMeansAccepted)
<1> SUFFICES ASSUME Alone PROVE Spec => []DeliveredMeansAccepted
  OBVIOUS
<1>1. Init => TypeInv /\ IInv
  BY TypeInit, InvInit
<1>2. TypeInv /\ IInv /\ [Next]_vars => (TypeInv /\ IInv)'
  BY TypeStep, InvStep
<1>3. IInv => DeliveredMeansAccepted
  BY DEF IInv
<1>4. QED
  BY <1>1, <1>2, <1>3, PTL DEF Spec


(* A text the user is shown is one whole message addressed to that user,   *)
(* when Alone holds: no fragments of two messages meet in one buffer.      *)
THEOREM TextsAreWhole == Alone => (Spec => []DeliveredWhole)
<1> SUFFICES ASSUME Alone PROVE Spec => []DeliveredWhole
  OBVIOUS
<1>1. Init => TypeInv /\ IInv
  BY TypeInit, InvInit
<1>2. TypeInv /\ IInv /\ [Next]_vars => (TypeInv /\ IInv)'
  BY TypeStep, InvStep
<1>3. IInv => DeliveredWhole
  BY DEF IInv
<1>4. QED
  BY <1>1, <1>2, <1>3, PTL DEF Spec

(* When sendFragments has logged every fragment of a message as [DELIVERED],*)
(* the text has been shown, when Alone holds.                              *)
THEOREM ReportedTextIsShown == Alone => (Spec => []EndToEnd)
<1> SUFFICES ASSUME Alone PROVE Spec => []EndToEnd
  OBVIOUS
<1>1. Init => TypeInv /\ IInv
  BY TypeInit, InvInit
<1>2. TypeInv /\ IInv /\ [Next]_vars => (TypeInv /\ IInv)'
  BY TypeStep, InvStep
<1>3. TypeInv /\ IInv => EndToEnd
  BY InvEndToEnd
<1>4. QED
  BY <1>1, <1>2, <1>3, PTL DEF Spec

(***************************************************************************)
(* The ack that ends a wait.                                               *)
(***************************************************************************)
(* Only handleAck takes an ack from the air, and the ack of the fragment   *)
(* in hand matches the fields of the waiting thread.                       *)
LEMMA OwnAckCounts ==
    ASSUME TypeInv, IdsApart, PacketsGenuine, CurrentIsMine, Next,
           NEW c \in air \ air', c.pkt.type = "ack",
           NEW m \in Message, Src[m] = c.to, pc[m] = "wait",
           c.pkt.chunk = <<m, frag[m]>>
    PROVE  ackReceived'[c.to]
<1>1. \E d \in air : Receive(d.to, d.pkt)
  <2>1. ASSUME NEW k \in Message, SendMessage(k) \/ RouteFound(k) \/ Thread(k)
        PROVE  air' = air
    BY <2>1 DEF SendMessage, RouteFound, Thread, SetMessageId, SetFragmentId, Arm,
                SendAttempt, Acked, TimedOut, GiveUp
  <2>2. ASSUME NEW n \in Node, NEW p \in out[n], Transmit(n, p)
        PROVE  air \subseteq air'
    BY <2>2 DEF Transmit
  <2>3. ASSUME NEW n \in Node, PauseTimeout(n) \/ RouteChange(n)
        PROVE  air' = air
    BY <2>3 DEF PauseTimeout, RouteChange
  <2>4. QED
    BY <2>1, <2>2, <2>3 DEF Next
<1>2. PICK d \in air : Receive(d.to, d.pkt)
  BY <1>1
<1>3. air' = air \ {[to |-> d.to, pkt |-> d.pkt]}
  BY <1>2 DEF Receive, ForwardData, IgnoreData, AcceptData, ReceiveAck, Received
<1>4. c.to = d.to /\ c.pkt = d.pkt
  <2>1. c = [to |-> d.to, pkt |-> d.pkt]
    BY <1>3
  <2>2. QED
    BY <2>1
<1>5. ReceiveAck(c.to, c.pkt)
  BY <1>2, <1>4 DEF Receive, ForwardData, IgnoreData, AcceptData
<1>6. Genuine(c.pkt) /\ c.to \in Node
  BY DEF PacketsGenuine, TypeInv, TypeOK, Copy
<1>7. PICK k \in Message : /\ c.pkt.id = msg_id[k]
                           /\ c.pkt.chunk = <<k, c.pkt.frag>>
  BY <1>6 DEF Genuine
<1>8. k = m /\ c.pkt.frag = frag[m]
  BY <1>7
<1>9. AckMatches(c.to, c.pkt)
  BY <1>7, <1>8 DEF AckMatches, CurrentIsMine
<1>10. ackReceived \in [Node -> BOOLEAN]
  BY DEF TypeInv, TypeOK
<1>11. QED
  BY <1>5, <1>6, <1>9, <1>10 DEF ReceiveAck

(* An ack that reaches the node that waits for it ends the wait, when Alone*)
(* holds: the 3-bit id of the header and the shared fields are enough to   *)
(* recognise it.                                                           *)
THEOREM OwnAckEndsWait == Alone => (Spec => AckEndsWait)
<1> SUFFICES ASSUME Alone PROVE Spec => AckEndsWait
  OBVIOUS
<1> DEFINE A == \A c \in air \ air' :
                    (/\ c.pkt.type = "ack" /\ c.to = c.pkt.dst
                     /\ \E m \in Message : /\ Src[m] = c.to /\ pc[m] = "wait"
                                           /\ c.pkt.chunk = <<m, frag[m]>>)
                    => ackReceived'[c.to]
<1>1. Init => TypeInv /\ IInv
  BY TypeInit, InvInit
<1>2. TypeInv /\ IInv /\ [Next]_vars => (TypeInv /\ IInv)'
  BY TypeStep, InvStep
<1>3. TypeInv /\ IInv /\ [Next]_vars => [A]_vars
  BY OwnAckCounts DEF IInv
<1>4. Spec => [][A]_vars
  <2> HIDE DEF A
  <2>1. QED
    BY <1>1, <1>2, <1>3, PTL DEF Spec
<1>5. QED
  BY <1>4 DEF AckEndsWait

(***************************************************************************)
(* Transport implements Transfer.                                          *)
(***************************************************************************)
(* The fragments of a message are settled in order: those before the one   *)
(* in hand, and at the end all of them.                                    *)
SettledInOrder ==
    \A m \in Message : \A j \in Index(m) :
        <<m, j>> \in reported \cup gaveUp <=> (pc[m] = "done" \/ j < frag[m])

LEMMA SettledInit == Init => SettledInOrder
BY DEF Init, SettledInOrder, Index

LEMMA SettledStep == TypeInv /\ SettledInOrder /\ [Next]_vars => SettledInOrder'
<1> SUFFICES ASSUME TypeInv, SettledInOrder, [Next]_vars PROVE SettledInOrder'
  OBVIOUS
<1> USE DEF TypeInv, TypeOK, senderVars
<1>1. ASSUME reported' \cup gaveUp' = reported \cup gaveUp, frag' = frag,
             \A k \in Message : pc'[k] = "done" <=> pc[k] = "done"
      PROVE  SettledInOrder'
  BY <1>1 DEF SettledInOrder
<1>2. ASSUME NEW m \in Message,
             \/ SendMessage(m) \/ RouteFound(m) \/ SetMessageId(m)
             \/ SetFragmentId(m) \/ Arm(m) \/ SendAttempt(m) \/ TimedOut(m)
      PROVE  SettledInOrder'
  BY <1>1, <1>2 DEF SendMessage, RouteFound, SetMessageId, SetFragmentId, Arm,
                    SendAttempt, TimedOut
<1>3. ASSUME NEW m \in Message, Acked(m) \/ GiveUp(m) PROVE SettledInOrder'
  <2>1. /\ reported' \cup gaveUp' = (reported \cup gaveUp) \cup {<<m, frag[m]>>}
        /\ pc[m] # "done"
    BY <1>3 DEF Acked, GiveUp
  <2>2. NextFragment(m)
    BY <1>3 DEF Acked, GiveUp
  <2>3. \A k \in Message \ {m} : pc'[k] = pc[k] /\ frag'[k] = frag[k]
    BY <2>2 DEF NextFragment
  <2>4. \A j \in Index(m) :
            (pc'[m] = "done" \/ j < frag'[m]) <=> (j < frag[m] \/ j = frag[m])
    <3>1. Size[m] \in Nat /\ frag[m] \in Nat /\ frag[m] < Size[m]
      BY SizeAssumption DEF Index
    <3>2. CASE frag[m] + 1 < Size[m]
      <4>1. pc'[m] = "id" /\ frag'[m] = frag[m] + 1
        BY <2>2, <3>2 DEF NextFragment
      <4>2. QED
        BY <3>1, <4>1 DEF Index
    <3>3. CASE ~(frag[m] + 1 < Size[m])
      <4>1. pc'[m] = "done"
        BY <2>2, <3>3 DEF NextFragment
      <4>2. QED
        BY <3>1, <3>3, <4>1 DEF Index
    <3>4. QED
      BY <3>2, <3>3
  <2>5. \A j \in Index(m) : <<m, j>> \in reported \cup gaveUp <=> j < frag[m]
    BY <2>1 DEF SettledInOrder
  <2>6. QED
    BY <2>1, <2>3, <2>4, <2>5 DEF SettledInOrder
<1>4. ASSUME UNCHANGED senderVars PROVE SettledInOrder'
  BY <1>1, <1>4
<1>5. ASSUME NEW n \in Node,
             (\E p \in out[n] : Transmit(n, p)) \/ PauseTimeout(n) \/ RouteChange(n)
      PROVE  UNCHANGED senderVars
  BY <1>5 DEF Transmit, PauseTimeout, RouteChange
<1>6. ASSUME NEW n, NEW p, Receive(n, p) PROVE UNCHANGED senderVars
  BY <1>6 DEF Receive, ForwardData, IgnoreData, AcceptData, ReceiveAck
<1>7. CASE UNCHANGED vars
  BY <1>4, <1>7 DEF vars
<1>8. QED
  BY <1>2, <1>3, <1>4, <1>5, <1>6, <1>7 DEF Next, Thread

(* Two messages have different texts.                                      *)
LEMMA WholeApart ==
    ASSUME NEW m \in Message, NEW k \in Message, Whole(m) = Whole(k)
    PROVE  m = k
<1>1. 1 \in 1 .. Size[m] /\ 1 \in 1 .. Size[k]
  BY SizeAssumption
<1>2. Whole(m)[1] = <<m, 0>> /\ Whole(k)[1] = <<k, 0>>
  BY <1>1 DEF Whole
<1>3. QED
  BY <1>2

(* The text of a message comes with its last missing fragment, and with no *)
(* other.                                                                  *)
LEMMA AcceptMaps ==
    ASSUME Alone, TypeInv, IInv, AllTakenIsShown', NEW n, NEW p, AcceptData(n, p)
    PROVE  \E m \in Message : \E i \in Index(m) : Promise!Accept(m, i)
<1>1. n \in Node
  BY AcceptedFragment DEF IInv
<1> PICK m \in Message : \E i \in Index(m) : AcceptedAs(n, m, i)
  BY AcceptedFragment DEF IInv
<1>2. PICK f \in Index(m) : AcceptedAs(n, m, f)
  OBVIOUS
<1> DEFINE st   == StoredFor(m, n, f)
           Have == {k \in Message : HasText(k)}
           Got  == {k \in Message : HasText(k)'}
<1>3. /\ Dst[m] = n /\ accepted' = accepted \cup {<<m, f>>}
      /\ WellStored(m, n, f, st)
      /\ Complete(st) =>
             inbox' = [inbox EXCEPT ![n] = Append(@, Entry(n, Joined(st)))]
      /\ ~Complete(st) => inbox' = inbox
  BY <1>2 DEF AcceptedAs
<1>4. UNCHANGED <<reported, gaveUp>>
  BY DEF AcceptData, senderVars
<1> HIDE DEF st
<1>5. CASE ~Complete(st)
  <2>1. Got = Have
    BY <1>3, <1>5 DEF HasText
  <2>2. Promise!AllOf(m) \subseteq accepted' => m \in Got
    BY DEF AllTakenIsShown, Promise!AllOf, Promise!Index, Index
  <2>3. Got = IF Promise!AllOf(m) \subseteq accepted' THEN Have \cup {m} ELSE Have
    BY <2>1, <2>2
  <2>4. QED
    BY <1>3, <1>4, <2>3 DEF Promise!Accept
<1>6. CASE Complete(st)
  <2>1. Joined(st) = Whole(m)
    BY <1>3, <1>6 DEF WellStored
  <2>2. Promise!AllOf(m) \subseteq accepted'
    <3>1. st.total_fragments = Size[m]
      BY <1>3, <1>6 DEF WellStored, Complete
    <3>2. ASSUME NEW i \in Index(m) PROVE <<m, i>> \in accepted'
      <4>1. st.fragments[i] # NoChunk
        BY <1>6, <3>1 DEF Complete, Index
      <4>2. i \in FragId
        BY SizeAssumption, WidthAssumption DEF Alone, Index, FragId
      <4>3. QED
        BY <1>3, <4>1, <4>2 DEF WellStored
    <3>3. QED
      BY <3>2 DEF Promise!AllOf, Promise!Index, Index
  <2>3. Got = Have \cup {m}
    <3> DEFINE S == [from : Node, text : Seq(Chunk \cup {NoChunk})]
               e == Entry(n, Joined(st))
    <3>1. inbox \in [Node -> Seq(S)] /\ e.text = Whole(m)
      BY <2>1 DEF TypeInv, TypeOK, Entry
    <3>2. inbox' = [inbox EXCEPT ![n] = Append(inbox[n], e)]
      BY <1>3, <1>6
    <3> HIDE DEF S, e
    <3>3. /\ inbox'[n] = Append(inbox[n], e)
          /\ \A l \in Node : l # n => inbox'[l] = inbox[l]
      BY <1>1, <3>1, <3>2
    <3>4. /\ \A k \in DOMAIN inbox[n] :
                 k \in DOMAIN inbox'[n] /\ inbox'[n][k] = inbox[n][k]
          /\ \A k \in DOMAIN inbox'[n] :
                 \/ k \in DOMAIN inbox[n] /\ inbox'[n][k] = inbox[n][k]
                 \/ inbox'[n][k] = e
          /\ \E k \in DOMAIN inbox'[n] : inbox'[n][k] = e
      <4>1. inbox[n] \in Seq(S)
        BY <1>1, <3>1
      <4>2. QED
        BY <3>3, <4>1, AppendKeeps
    <3>5. HasText(m)'
      BY <1>3, <3>1, <3>4 DEF HasText
    <3>6. ASSUME NEW k \in Message, k # m PROVE HasText(k)' <=> HasText(k)
      <4>1. Whole(k) # Whole(m)
        BY <3>6, WholeApart
      <4>2. CASE Dst[k] = n
        BY <3>1, <3>4, <4>1, <4>2 DEF HasText
      <4>3. CASE Dst[k] # n
        BY <3>3, <4>3, RoleAssumption DEF HasText
      <4>4. QED
        BY <4>2, <4>3
    <3>7. QED
      BY <3>5, <3>6
  <2>4. QED
    BY <1>3, <1>4, <2>2, <2>3 DEF Promise!Accept
<1>7. QED
  BY <1>5, <1>6

LEMMA PromiseInit == Init => Promise!Init
BY RoleAssumption DEF Init, Promise!Init, HasText

LEMMA PromiseStep ==
    ASSUME Alone, TypeInv, IInv, SettledInOrder, AllTakenIsShown', [Next]_vars
    PROVE  [Promise!Next]_(Promise!vars)
<1>1. ASSUME UNCHANGED <<accepted, inbox, reported, gaveUp>>
      PROVE  UNCHANGED Promise!vars
  BY <1>1 DEF Promise!vars, HasText
<1>2. ASSUME NEW m \in Message, pc[m] = "wait"
      PROVE  frag[m] \in Index(m) /\ Promise!Turn(m, frag[m])
  BY <1>2 DEF SettledInOrder, Promise!Turn, Promise!Settled, Promise!Index, Index,
              TypeInv, TypeOK
<1>3. ASSUME UNCHANGED receiverVars
      PROVE  {m \in Message : HasText(m)'} = {m \in Message : HasText(m)}
  BY <1>3 DEF receiverVars, HasText
<1>4. ASSUME NEW m \in Message, Acked(m) PROVE Promise!Report(m, frag[m])
  <2>1. pc[m] = "wait" /\ <<m, frag[m]>> \in accepted
    BY <1>4 DEF Acked, IInv, AckIsMine
  <2>2. /\ UNCHANGED <<accepted, gaveUp>> /\ UNCHANGED receiverVars
        /\ reported' = reported \cup {<<m, frag[m]>>}
    BY <1>4 DEF Acked, receiverVars
  <2>3. QED
    BY <1>2, <1>3, <2>1, <2>2 DEF Promise!Report
<1>5. ASSUME NEW m \in Message, GiveUp(m) PROVE Promise!GiveUp(m, frag[m])
  <2>1. /\ UNCHANGED <<accepted, reported>> /\ UNCHANGED receiverVars
        /\ pc[m] = "wait" /\ gaveUp' = gaveUp \cup {<<m, frag[m]>>}
    BY <1>5 DEF GiveUp, receiverVars
  <2>2. QED
    BY <1>2, <1>3, <2>1 DEF Promise!GiveUp
<1>6. ASSUME NEW m \in Message,
             \/ SendMessage(m) \/ RouteFound(m) \/ SetMessageId(m)
             \/ SetFragmentId(m) \/ Arm(m) \/ SendAttempt(m) \/ TimedOut(m)
      PROVE  UNCHANGED <<accepted, inbox, reported, gaveUp>>
  BY <1>6 DEF SendMessage, RouteFound, SetMessageId, SetFragmentId, Arm,
              SendAttempt, TimedOut, receiverVars
<1>7. ASSUME NEW n \in Node,
             (\E p \in out[n] : Transmit(n, p)) \/ PauseTimeout(n) \/ RouteChange(n)
      PROVE  UNCHANGED <<accepted, inbox, reported, gaveUp>>
  BY <1>7 DEF Transmit, PauseTimeout, RouteChange, senderVars, receiverVars
<1>8. ASSUME NEW n, NEW p, ForwardData(n, p) \/ IgnoreData(n, p) \/ ReceiveAck(n, p)
      PROVE  UNCHANGED <<accepted, inbox, reported, gaveUp>>
  BY <1>8 DEF ForwardData, IgnoreData, ReceiveAck, senderVars, receiverVars
<1>9. CASE UNCHANGED vars
  BY <1>1, <1>9 DEF vars, senderVars, receiverVars
<1>10. ASSUME NEW m \in Message, Acked(m) \/ GiveUp(m) PROVE Promise!Next
  <2>1. frag[m] \in Promise!Index(m)
    BY DEF Promise!Index, Index, TypeInv, TypeOK
  <2>2. QED
    BY <1>4, <1>5, <1>10, <2>1 DEF Promise!Next
<1>11. ASSUME NEW n, NEW p, AcceptData(n, p) PROVE Promise!Next
  BY <1>11, AcceptMaps DEF Promise!Next, Promise!Index, Index
<1>12. CASE Next
  <2>1. CASE \E m \in Message : SendMessage(m) \/ RouteFound(m) \/ Thread(m)
    BY <1>1, <1>6, <1>10, <2>1 DEF Thread
  <2>2. CASE \E n \in Node : \/ \E p \in out[n] : Transmit(n, p)
                             \/ PauseTimeout(n) \/ RouteChange(n)
    BY <1>1, <1>7, <2>2
  <2>3. CASE \E c \in air : Receive(c.to, c.pkt)
    BY <1>1, <1>8, <1>11, <2>3 DEF Receive
  <2>4. QED
    BY <1>12, <2>1, <2>2, <2>3 DEF Next
<1>13. QED
  BY <1>9, <1>12

(* When Alone holds, Transport implements Transfer: the sender settles the *)
(* fragments in order, says "delivered" only of those taken in, and the    *)
(* text is there exactly from the moment the last missing one came.        *)
THEOREM TransferIsImplemented == Alone => (Spec => PromiseKept)
<1> SUFFICES ASSUME Alone PROVE Spec => PromiseKept
  OBVIOUS
<1> DEFINE Inv == TypeInv /\ IInv /\ SettledInOrder
<1>1. Init => Inv
  BY TypeInit, InvInit, SettledInit
<1>2. Inv /\ [Next]_vars => Inv'
  BY TypeStep, InvStep, SettledStep
<1>3. Inv => AllTakenIsShown
  BY InvAllTaken
<1>4. Inv /\ AllTakenIsShown' /\ [Next]_vars => [Promise!Next]_(Promise!vars)
  BY PromiseStep
<1>5. Spec => Promise!Spec
  <2> HIDE DEF Inv
  <2>1. QED
    BY <1>1, <1>2, <1>3, <1>4, PromiseInit, PTL DEF Spec, Promise!Spec
<1>6. QED
  BY <1>5 DEF PromiseKept
=============================================================================
