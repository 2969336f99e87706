--------------------------- MODULE FloodingProofs ---------------------------
(***************************************************************************)
(* Proofs about Flooding, for any nodes and links, any number of copies    *)
(* and any loss.                                                           *)
(***************************************************************************)
EXTENDS Flooding, ReassemblerProofs

(* What TypeOK needs to be inductive: a main loop that is sending on has a *)
(* fragment to send.                                                       *)
RelayHolds == \A n \in Node : relay[n].on => relay[n].pkt \in Packet
TypeInv    == TypeOK /\ RelayHolds

(* Copies of a packet are well formed.                                     *)
LEMMA EmitTypes ==
    ASSUME TypeOK, NEW s \in Sender, NEW p \in Packet, NEW hearers \in SUBSET Node,
           Emit(s, p, hearers)
    PROVE  air' \subseteq Copy /\ heard' \in [Sender -> SUBSET Node]
BY DEF Emit, TypeOK, Copy

LEMMA PacketTypes ==
    ASSUME TypeOK, NEW m \in Message
    PROVE  PacketOf(m) \in Packet
<1>1. msg_id[m] \in Nat /\ frag[m] \in Nat
  BY TriesAssumption DEF TypeOK
<1>2. msg_id[m] % WIRE_IDS \in WireId
  BY <1>1, WidthAssumption DEF WireId
<1>3. <<m, frag[m]>> \in Chunk
  BY <1>1 DEF Chunk
<1>4. MoreFragments(m, frag[m]) \in BOOLEAN
  BY DEF MoreFragments
<1>5. QED BY <1>1, <1>2, <1>3, <1>4 DEF PacketOf, Packet

LEMMA TypeInit == Init => TypeInv
<1> SUFFICES ASSUME Init PROVE TypeInv
  OBVIOUS
<1>1. 0 \in 0 .. MSG_IDS - 1 /\ 0 \in 0 .. TRIES
  BY TriesAssumption
<1>2. \A m \in Message : 0 \in Index(m)
  BY SizeAssumption DEF Index
<1>3. NoRelay \in [on : BOOLEAN, pkt : Packet \cup {NoPacket}, tries : 0 .. TRIES]
  BY <1>1 DEF NoRelay
<1>4. EmptySet \in FragmentSet
  BY EmptySetType
<1>5. <<>> \in Seq(Seq(Chunk \cup {NoChunk}))
  OBVIOUS
<1>6. \A n \in Node : ~relay[n].on
  BY DEF Init, NoRelay
<1>7. QED BY <1>1, <1>2, <1>3, <1>4, <1>5, <1>6 DEF Init, TypeInv, TypeOK, RelayHolds

LEMMA TypeStep ==
    ASSUME TypeInv, [Next]_vars
    PROVE  TypeInv'
<1> USE DEF TypeInv
<1>1. CASE UNCHANGED vars
  BY <1>1 DEF vars, threadVars, loopVars, TypeOK, RelayHolds
<1>2. ASSUME NEW m \in Message, SendMessage(m)
      PROVE  TypeInv'
  <2>1. Src[m] \in Node /\ next_msg_id[Src[m]] \in 0 .. MSG_IDS - 1
    BY SenderAssumption DEF TypeOK
  <2>2. (next_msg_id[Src[m]] + 1) % MSG_IDS \in 0 .. MSG_IDS - 1
    BY <2>1, TriesAssumption
  <2>3. next_msg_id' \in [Node -> 0 .. MSG_IDS - 1] /\ msg_id' \in [Message -> 0 .. MSG_IDS - 1]
    <3>1. next_msg_id' = [next_msg_id EXCEPT ![Src[m]] = (next_msg_id[Src[m]] + 1) % MSG_IDS]
      BY <1>2 DEF SendMessage
    <3>2. msg_id' = [msg_id EXCEPT ![m] = next_msg_id[Src[m]]]
      BY <1>2 DEF SendMessage
    <3>3. PICK k \in 0 .. MSG_IDS - 1 : k = (next_msg_id[Src[m]] + 1) % MSG_IDS
      BY <2>2
    <3>4. QED BY <2>1, <3>1, <3>2, <3>3 DEF TypeOK, RelayHolds
  <2>4. QED BY <1>2, <2>3 DEF SendMessage, TypeOK, RelayHolds, loopVars
<1>3. ASSUME NEW m \in Message, NEW hearers \in SUBSET Neighbours[Src[m]], SendCopy(m, hearers)
      PROVE  TypeInv'
  <2>1. hearers \in SUBSET Node
    BY SenderAssumption, LinkAssumption
  <2>2. air' \subseteq Copy /\ heard' \in [Sender -> SUBSET Node]
    BY <1>3, <2>1, PacketTypes, EmitTypes DEF SendCopy, Sender
  <2>3. tries' \in [Message -> 0 .. TRIES]
    BY <1>3, TriesAssumption DEF SendCopy, TypeOK
  <2>4. QED BY <1>3, <2>2, <2>3 DEF SendCopy, TypeOK, RelayHolds, loopVars
<1>4. ASSUME NEW m \in Message, NextFragment(m)
      PROVE  TypeInv'
  <2>1. /\ frag' \in [Message -> Nat] /\ \A k \in Message : frag'[k] \in Index(k)
        /\ tries' \in [Message -> 0 .. TRIES]
        /\ pc' \in [Message -> {"unsent", "send", "done"}]
    <3>1. CASE frag[m] + 1 < Size[m]
      <4>1. /\ frag' = [frag EXCEPT ![m] = @ + 1] /\ tries' = [tries EXCEPT ![m] = 0]
            /\ pc' = pc
        BY <1>4, <3>1 DEF NextFragment
      <4>2. frag[m] \in Nat /\ Size[m] \in Nat
        BY SizeAssumption DEF TypeOK
      <4>3. frag[m] + 1 \in Index(m) /\ frag[m] + 1 \in Nat
        BY <3>1, <4>2 DEF Index
      <4>4. QED BY <4>1, <4>3, TriesAssumption DEF TypeOK
    <3>2. CASE ~(frag[m] + 1 < Size[m])
      BY <1>4, <3>2 DEF NextFragment, TypeOK
    <3>3. QED BY <3>1, <3>2
  <2>2. heard' \in [Sender -> SUBSET Node] /\ linkFailed' \in BOOLEAN
    BY <1>4 DEF NextFragment, TypeOK, Sender
  <2>3. QED BY <1>4, <2>1, <2>2 DEF NextFragment, TypeOK, RelayHolds, loopVars
<1>5. ASSUME NEW n \in Node, NEW c \in air, c.to = n, TakeFragment(n, c.pkt)
      PROVE  TypeInv'
  <2>1. c.pkt \in Packet /\ SeenId(c.pkt) \in Id /\ c.pkt.chunk \in Chunk
    BY DEF TypeOK, Copy, Packet, SeenId, Id
  <2>2. air' \subseteq Copy
    BY <1>5 DEF TakeFragment, Received, TypeOK
  <2>3. seenBroadcasts' \in [Node -> SUBSET Id]
    BY <1>5, <2>1 DEF TakeFragment, SeenAfter, TypeOK
  <2>4. /\ relay' \in [Node -> [on : BOOLEAN, pkt : Packet \cup {NoPacket}, tries : 0 .. TRIES]]
        /\ RelayHolds'
    BY <1>5, <2>1, TriesAssumption DEF TakeFragment, TypeOK, RelayHolds
  <2>5. taken' \in [Node -> SUBSET Chunk]
    BY <1>5, <2>1 DEF TakeFragment, TypeOK
  <2>6. UNCHANGED <<threadVars, buffers, shown, heard, linkFailed>>
    BY <1>5 DEF TakeFragment
  <2>7. QED BY <2>2, <2>3, <2>4, <2>5, <2>6 DEF TypeOK, threadVars
<1>6. ASSUME NEW n \in Node, NEW c \in air, DropFragment(n, c.pkt)
      PROVE  TypeInv'
  BY <1>6 DEF DropFragment, Received, TypeOK, RelayHolds, threadVars, loopVars
<1>7. ASSUME NEW n \in Node, NEW hearers \in SUBSET Neighbours[n], RelayCopy(n, hearers)
      PROVE  TypeInv'
  <2>1. hearers \in SUBSET Node /\ n \in Sender
    BY LinkAssumption DEF Sender
  <2>2. relay[n].pkt \in Packet /\ Emit(n, relay[n].pkt, hearers)
    BY <1>7 DEF RelayCopy, RelayHolds
  <2>3. air' \subseteq Copy /\ heard' \in [Sender -> SUBSET Node]
    BY <2>1, <2>2, EmitTypes
  <2>4. /\ relay' \in [Node -> [on : BOOLEAN, pkt : Packet \cup {NoPacket}, tries : 0 .. TRIES]]
        /\ RelayHolds'
    <3> DEFINE T == [on : BOOLEAN, pkt : Packet \cup {NoPacket}, tries : 0 .. TRIES]
               r == [relay[n] EXCEPT !.tries = @ + 1]
    <3>1. relay[n] \in T /\ relay[n].tries < TRIES /\ relay' = [relay EXCEPT ![n] = r]
      BY <1>7 DEF RelayCopy, TypeOK
    <3>2. relay[n].tries + 1 \in 0 .. TRIES
      BY <3>1, TriesAssumption
    <3>3. r \in T /\ r.pkt = relay[n].pkt /\ r.on = relay[n].on
      BY <3>1, <3>2
    <3> HIDE DEF T, r
    <3>4. relay' \in [Node -> T]
      BY <3>1, <3>3 DEF TypeOK, T
    <3>5. RelayHolds'
      BY <3>1, <3>3 DEF TypeOK, RelayHolds
    <3>6. QED BY <3>4, <3>5 DEF T
  <2>5. UNCHANGED <<threadVars, seenBroadcasts, buffers, shown, linkFailed, taken>>
    BY <1>7 DEF RelayCopy
  <2>6. QED BY <2>3, <2>4, <2>5 DEF TypeOK, threadVars
<1>8. ASSUME NEW n \in Node, StoreFragment(n)
      PROVE  TypeInv'
  <2> DEFINE p == relay[n].pkt
             fs == buffers[n][p.id]
  <2>1. /\ p \in Packet /\ p.id \in WireId /\ p.frag \in Nat
        /\ p.mf \in BOOLEAN /\ p.chunk \in Chunk
    BY <1>8 DEF StoreFragment, RelayHolds, Packet
  <2>2. fs \in FragmentSet
    BY <2>1 DEF TypeOK
  <2>3. /\ BufferAfter(fs, p.frag, p.mf, p.chunk) \in FragmentSet
        /\ Result(fs, p.frag, p.mf, p.chunk) \in Seq(Chunk \cup {NoChunk})
    BY <2>1, <2>2, BufferAfterType, ResultType
  <2>4. /\ buffers' = [buffers EXCEPT ![n][p.id] = BufferAfter(fs, p.frag, p.mf, p.chunk)]
        /\ shown' = IF Completes(fs, p.frag, p.mf, p.chunk)
                    THEN [shown EXCEPT ![n] = Append(@, Result(fs, p.frag, p.mf, p.chunk))]
                    ELSE shown
        /\ relay' = [relay EXCEPT ![n] = NoRelay]
        /\ linkFailed' = (linkFailed \/ ~(Neighbours[n] \subseteq heard[n]))
        /\ heard' = [heard EXCEPT ![n] = {}]
        /\ UNCHANGED <<threadVars, seenBroadcasts, air, taken>>
    BY <1>8 DEF StoreFragment
  <2> HIDE DEF p, fs
  <2>5. buffers' \in [Node -> [WireId -> FragmentSet]]
    BY <2>1, <2>3, <2>4 DEF TypeOK
  <2>6. shown' \in [Node -> Seq(Seq(Chunk \cup {NoChunk}))]
    <3> DEFINE text == Result(fs, p.frag, p.mf, p.chunk)
               done == Completes(fs, p.frag, p.mf, p.chunk)
               T    == Seq(Chunk \cup {NoChunk})
    <3>1. text \in T /\ shown \in [Node -> Seq(T)]
      BY <2>3 DEF TypeOK
    <3>2. shown' = IF done THEN [shown EXCEPT ![n] = Append(@, text)] ELSE shown
      BY <2>4
    <3> HIDE DEF text, done, T
    <3>3. shown' \in [Node -> Seq(T)]
      BY <3>1, <3>2
    <3>4. QED BY <3>3 DEF T
  <2>7. /\ relay' \in [Node -> [on : BOOLEAN, pkt : Packet \cup {NoPacket}, tries : 0 .. TRIES]]
        /\ RelayHolds'
    BY <2>4, TriesAssumption DEF TypeOK, RelayHolds, NoRelay
  <2>8. heard' \in [Sender -> SUBSET Node] /\ linkFailed' \in BOOLEAN
    BY <2>4 DEF TypeOK, Sender
  <2>9. QED BY <2>4, <2>5, <2>6, <2>7, <2>8 DEF TypeOK, threadVars
<1>9. QED
  BY <1>1, <1>2, <1>3, <1>4, <1>5, <1>6, <1>7, <1>8 DEF Next, Thread, MainLoop

(* Every reachable state is well typed: in particular no thread and no     *)
(* main loop sends more than TRIES copies of a fragment, and the fragments *)
(* a node stores are chunks of messages.                                   *)
LEMMA TypesHold == Spec => []TypeInv
<1>1. QED BY TypeInit, TypeStep, PTL DEF Spec

THEOREM TypeCorrect == Spec => []TypeOK
<1>1. TypeInv => TypeOK
  BY DEF TypeInv
<1>2. QED BY <1>1, TypesHold, PTL

----------------------------------------------------------------------------
(* The hypotheses of the next theorems.  One node broadcasts, and no node  *)
(* has counted more message ids than the header tells apart: without       *)
(* either, a broadcast is taken for one that was seen (flood_suppressed).  *)
(* And no text has more fragments than the receiver's parameter tells      *)
(* apart.                                                                  *)
OneSource ==
    /\ \A m, k \in Message : Src[m] = Src[k]
    /\ WIRE_IDS + 1 < MSG_IDS
    /\ \A m \in Message : Size[m] <= FRAG_IDS
FewMessages == \A n \in Node : next_msg_id[n] <= WIRE_IDS

Sent(m) == pc[m] # "unsent"

(* Ids were handed out in order, and the header keeps them apart.          *)
IdsApart ==
    /\ \A m \in Message : Sent(m) => msg_id[m] < next_msg_id[Src[m]]
    /\ \A m, k \in Message : Sent(m) /\ Sent(k) /\ m # k => msg_id[m] # msg_id[k]

(* A packet that belongs to a message that was sent.                       *)
PacketFrom(p, m) ==
    /\ Sent(m)
    /\ p.id = msg_id[m] /\ p.frag \in Index(m)
    /\ p.chunk = <<m, p.frag>> /\ p.mf = MoreFragments(m, p.frag)
Genuine(p) == \E m \in Message : PacketFrom(p, m)
PacketsGenuine ==
    /\ \A c \in air : Genuine(c.pkt)
    /\ \A n \in Node : relay[n].on => Genuine(relay[n].pkt) /\ relay[n].pkt.chunk \in taken[n]

(* seenBroadcasts tells what was taken in.                                 *)
SeenIsTaken ==
    /\ \A n \in Node, m \in Message, i \in Nat :
         Sent(m) => (<<msg_id[m], i>> \in seenBroadcasts[n] <=> <<m, i>> \in taken[n])
    /\ \A n \in Node, m \in Message, i \in Nat : <<m, i>> \in taken[n] => Sent(m)
    /\ \A n \in Node, s \in Id :
         s \in seenBroadcasts[n] => \E m \in Message : Sent(m) /\ s[1] = msg_id[m]

(* The fragments of m that n has stored: those it has taken in, but for    *)
(* one that it is still sending on.                                        *)
StoredOf(n, m) ==
    {i \in Index(m) : /\ <<m, i>> \in taken[n]
                      /\ ~(relay[n].on /\ relay[n].pkt.chunk = <<m, i>>)}

(* The buffer of m holds just the fragments of the set st.                 *)
Holds(fs, m, st) ==
    /\ fs \in FragmentSet
    /\ \A i \in FragId : fs.fragments[i] = IF i \in st THEN <<m, i>> ELSE NoChunk
    /\ fs.MF_recv <=> Size[m] - 1 \in st
    /\ fs.MF_recv => fs.total_fragments = Size[m]

(* A text is shown as soon as all its fragments are stored, and its buffer *)
(* is then empty for ever.                                                 *)
BufferedOf(n, m) ==
    IF StoredOf(n, m) = Index(m)
    THEN Shows(n, m) /\ buffers[n][msg_id[m]] = EmptySet
    ELSE ~Shows(n, m) /\ Holds(buffers[n][msg_id[m]], m, StoredOf(n, m))
Buffered == \A n \in Node, m \in Message : Sent(m) => BufferedOf(n, m)

FreeBuffers ==
    \A n \in Node, w \in WireId :
        (\A m \in Message : Sent(m) => msg_id[m] # w) => buffers[n][w] = EmptySet

TextsGenuine ==
    \A n \in Node : \A k \in DOMAIN shown[n] :
        \E m \in Message : Sent(m) /\ shown[n][k] = Whole(m)

IInv == /\ TypeInv /\ IdsApart /\ PacketsGenuine /\ SeenIsTaken
        /\ Buffered /\ FreeBuffers /\ TextsGenuine

(* A chunk is not the mark of a missing one, and texts of different        *)
(* messages differ.                                                        *)
LEMMA ChunkIsThere == \A m, i : <<m, i>> # NoChunk
BY DEF NoChunk

LEMMA WholeDiffers ==
    ASSUME NEW m \in Message, NEW k \in Message, Whole(m) = Whole(k)
    PROVE  m = k
<1>1. 1 \in 1 .. Size[m] /\ 1 \in 1 .. Size[k]
  BY SizeAssumption
<1>2. Whole(m)[1] = <<m, 0>> /\ Whole(k)[1] = <<k, 0>>
  BY <1>1 DEF Whole
<1>3. QED BY <1>2

(* While few ids have been counted the header holds the whole id.          *)
LEMMA IdInHeader ==
    ASSUME TypeInv, IdsApart, FewMessages, NEW m \in Message, Sent(m)
    PROVE  msg_id[m] \in WireId /\ msg_id[m] % WIRE_IDS = msg_id[m]
<1>1. /\ msg_id[m] \in Nat /\ next_msg_id[Src[m]] \in Nat
      /\ msg_id[m] < next_msg_id[Src[m]] /\ next_msg_id[Src[m]] <= WIRE_IDS
  BY SenderAssumption, TriesAssumption DEF TypeInv, TypeOK, IdsApart, FewMessages
<1>2. WIRE_IDS \in Nat \ {0} /\ msg_id[m] < WIRE_IDS
  BY <1>1, WidthAssumption
<1>3. msg_id[m] \in WireId
  BY <1>1, <1>2 DEF WireId
<1>4. QED BY <1>1, <1>2, <1>3, SmallMod

LEMMA InvInit == Init => IInv
<1> SUFFICES ASSUME Init PROVE IInv
  OBVIOUS
<1>1. \A m \in Message : ~Sent(m)
  BY DEF Init, Sent
<1>2. TypeInv
  BY TypeInit
<1>3. IdsApart /\ PacketsGenuine /\ SeenIsTaken /\ Buffered
  BY <1>1 DEF Init, NoRelay, IdsApart, PacketsGenuine, SeenIsTaken, Buffered
<1>4. FreeBuffers /\ TextsGenuine
  BY DEF Init, FreeBuffers, TextsGenuine
<1>5. QED BY <1>2, <1>3, <1>4 DEF IInv

----------------------------------------------------------------------------
(* The user sends m: it gets an id that no packet, buffer or entry of      *)
(* seenBroadcasts has.                                                     *)
LEMMA SendStep ==
    ASSUME OneSource, FewMessages, FewMessages', IInv, TypeInv',
           NEW m \in Message, SendMessage(m)
    PROVE  IInv'
<1> DEFINE next == next_msg_id[Src[m]]
<1>1. /\ ~Sent(m) /\ Sent(m)'
      /\ \A k \in Message \ {m} : Sent(k)' <=> Sent(k)
      /\ msg_id' = [msg_id EXCEPT ![m] = next]
      /\ next_msg_id' = [next_msg_id EXCEPT ![Src[m]] = (next + 1) % MSG_IDS]
      /\ UNCHANGED <<seenBroadcasts, relay, buffers, shown, taken, air>>
  BY DEF SendMessage, Sent, IInv, TypeInv, TypeOK, loopVars
<1>2. msg_id'[m] = next /\ \A k \in Message \ {m} : msg_id'[k] = msg_id[k]
  BY <1>1 DEF IInv, TypeInv, TypeOK
<1>3. Src[m] \in Node /\ next \in Nat /\ next <= WIRE_IDS
  BY SenderAssumption, TriesAssumption DEF IInv, TypeInv, TypeOK, FewMessages
<1>4. (next + 1) % MSG_IDS = next + 1
  <2>1. next + 1 \in Nat /\ MSG_IDS \in Nat \ {0} /\ next + 1 < MSG_IDS
    BY <1>3, TriesAssumption, WidthAssumption DEF OneSource
  <2> HIDE DEF next
  <2>2. QED BY <2>1, SmallMod
<1>5. next_msg_id'[Src[m]] = next + 1 /\ next < WIRE_IDS
  <2>1. next_msg_id'[Src[m]] = next + 1
    BY <1>1, <1>3, <1>4 DEF IInv, TypeInv, TypeOK
  <2>2. next_msg_id'[Src[m]] <= WIRE_IDS
    BY <1>3 DEF FewMessages
  <2>3. QED BY <1>3, <2>1, <2>2, WidthAssumption
<1>6. \A k \in Message : Sent(k) => msg_id[k] < next /\ msg_id[k] \in Nat
  <2> SUFFICES ASSUME NEW k \in Message, Sent(k)
               PROVE  msg_id[k] < next /\ msg_id[k] \in Nat
    OBVIOUS
  <2>1. Src[k] = Src[m] /\ msg_id[k] < next_msg_id[Src[k]]
    BY DEF OneSource, IInv, IdsApart
  <2>2. msg_id[k] \in Nat
    BY TriesAssumption DEF IInv, TypeInv, TypeOK
  <2>3. QED BY <2>1, <2>2
<1> HIDE DEF next
<1>7. IdsApart'
  <2>1. \A k \in Message : Src[k] = Src[m]
    BY DEF OneSource
  <2>2. \A k \in Message : Sent(k)' => msg_id'[k] < next_msg_id'[Src[k]]
    BY <1>1, <1>2, <1>3, <1>5, <1>6, <2>1
  <2>3. \A k, l \in Message : Sent(k)' /\ Sent(l)' /\ k # l => msg_id'[k] # msg_id'[l]
    BY <1>1, <1>2, <1>3, <1>6 DEF IInv, IdsApart
  <2>4. QED BY <2>2, <2>3 DEF IdsApart
<1>8. PacketsGenuine'
  <2>1. \A p : Genuine(p) => Genuine(p)'
    BY <1>1, <1>2 DEF Genuine, PacketFrom
  <2>2. QED BY <1>1, <2>1 DEF IInv, PacketsGenuine
<1>9. SeenIsTaken'
  <2>1. ASSUME NEW n \in Node, NEW i \in Nat
        PROVE  <<next, i>> \notin seenBroadcasts[n] /\ <<m, i>> \notin taken[n]
    <3>1. <<m, i>> \notin taken[n]
      BY <1>1 DEF IInv, SeenIsTaken
    <3>2. next \in WireId /\ <<next, i>> \in Id
      BY <1>3, <1>5, WidthAssumption DEF WireId, Id
    <3>3. \A k \in Message : Sent(k) => msg_id[k] # next
      BY <1>3, <1>6
    <3>4. <<next, i>>[1] = next
      OBVIOUS
    <3>5. <<next, i>> \notin seenBroadcasts[n]
      BY <3>2, <3>3, <3>4 DEF IInv, SeenIsTaken
    <3>6. QED BY <3>1, <3>5
  <2>2. QED BY <1>1, <1>2, <2>1 DEF IInv, SeenIsTaken
<1>10. Buffered'
  <2> SUFFICES ASSUME NEW n \in Node, NEW k \in Message, Sent(k)'
               PROVE  BufferedOf(n, k)'
    BY DEF Buffered
  <2>1. StoredOf(n, k)' = StoredOf(n, k) /\ (Shows(n, k)' <=> Shows(n, k))
    BY <1>1 DEF StoredOf, Shows
  <2>2. CASE k # m
    <3>1. BufferedOf(n, k)
      BY <1>1, <2>2 DEF IInv, Buffered
    <3>2. buffers'[n][msg_id'[k]] = buffers[n][msg_id[k]]
      BY <1>1, <1>2, <2>2
    <3>3. QED BY <2>1, <3>1, <3>2 DEF BufferedOf, Holds
  <2>3. CASE k = m
    <3>1. StoredOf(n, m) = {}
      BY <1>1 DEF IInv, SeenIsTaken, StoredOf, Index
    <3>2. Index(m) # {} /\ Size[m] - 1 \notin {}
      BY SizeAssumption DEF Index
    <3>3. ~Shows(n, m)
      <4>1. SUFFICES ASSUME NEW j \in DOMAIN shown[n], shown[n][j] = Whole(m)
                     PROVE  FALSE
        BY DEF Shows
      <4>2. PICK l \in Message : Sent(l) /\ shown[n][j] = Whole(l)
        BY DEF IInv, TextsGenuine
      <4>3. QED BY <1>1, <4>1, <4>2, WholeDiffers
    <3>4. buffers[n][next] = EmptySet
      BY <1>3, <1>5, <1>6, WidthAssumption DEF IInv, FreeBuffers, WireId
    <3>5. Holds(EmptySet, m, {})
      BY EmptySetType DEF Holds, EmptySet
    <3>6. StoredOf(n, m)' = {} /\ ~Shows(n, m)' /\ buffers'[n][msg_id'[m]] = EmptySet
      BY <1>1, <1>2, <2>1, <2>3, <3>1, <3>3, <3>4
    <3>7. Holds(EmptySet, m, {})'
      BY <3>5 DEF Holds
    <3>8. QED BY <2>3, <3>2, <3>6, <3>7 DEF BufferedOf, Holds
  <2>4. QED BY <2>2, <2>3
<1>11. FreeBuffers'
  BY <1>1, <1>2 DEF IInv, FreeBuffers
<1>12. TextsGenuine'
  BY <1>1 DEF IInv, TextsGenuine
<1>13. QED BY <1>7, <1>8, <1>9, <1>10, <1>11, <1>12 DEF IInv

(* A step that only sends genuine copies or loses some.                    *)
LEMMA OtherStep ==
    ASSUME IInv, TypeInv', \A m \in Message : Sent(m)' <=> Sent(m),
           UNCHANGED <<next_msg_id, msg_id, seenBroadcasts, taken, buffers, shown>>,
           \A n \in Node : relay'[n].on = relay[n].on /\ relay'[n].pkt = relay[n].pkt,
           \A c \in air' : Genuine(c.pkt)
    PROVE  IInv'
<1>1. IdsApart' /\ SeenIsTaken' /\ FreeBuffers' /\ TextsGenuine'
  BY DEF IInv, IdsApart, SeenIsTaken, FreeBuffers, TextsGenuine
<1>2. \A p : Genuine(p) => Genuine(p)'
  BY DEF Genuine, PacketFrom
<1>3. PacketsGenuine'
  BY <1>2 DEF IInv, PacketsGenuine
<1>4. Buffered'
  <2> SUFFICES ASSUME NEW n \in Node, NEW k \in Message, Sent(k)'
               PROVE  BufferedOf(n, k)'
    BY DEF Buffered
  <2>1. StoredOf(n, k)' = StoredOf(n, k) /\ (Shows(n, k)' <=> Shows(n, k))
    BY DEF StoredOf, Shows
  <2>2. BufferedOf(n, k)
    BY DEF IInv, Buffered
  <2>3. QED BY <2>1, <2>2 DEF BufferedOf, Holds
<1>5. QED BY <1>1, <1>3, <1>4 DEF IInv

(* A main loop takes a fragment it has not seen: nothing is stored yet.    *)
LEMMA TakeStep ==
    ASSUME OneSource, FewMessages, IInv, TypeInv',
           NEW n \in Node, NEW c \in air, c.to = n, TakeFragment(n, c.pkt)
    PROVE  IInv'
<1>1. PICK m \in Message : PacketFrom(c.pkt, m)
  BY DEF IInv, PacketsGenuine, Genuine
<1> DEFINE p == c.pkt
           i == c.pkt.frag
<1>2. /\ Sent(m) /\ p.id = msg_id[m] /\ i \in Index(m) /\ i \in Nat
      /\ p.chunk = <<m, i>> /\ SeenId(p) = <<msg_id[m], i>>
  BY <1>1 DEF PacketFrom, SeenId, Index
<1>3. /\ ~relay[n].on /\ air' \subseteq air
      /\ seenBroadcasts' = [seenBroadcasts EXCEPT ![n] = @ \cup {<<msg_id[m], i>>}]
      /\ relay' = [relay EXCEPT ![n] = [on |-> TRUE, pkt |-> p, tries |-> 0]]
      /\ taken' = [taken EXCEPT ![n] = @ \cup {<<m, i>>}]
      /\ <<msg_id[m], i>> \notin seenBroadcasts[n]
      /\ UNCHANGED <<next_msg_id, pc, msg_id, buffers, shown>>
  BY <1>2 DEF TakeFragment, Received, SeenAfter, threadVars, IInv, TypeInv, TypeOK
<1>4. \A k \in Message : Sent(k)' <=> Sent(k)
  BY <1>3 DEF Sent
<1>5. <<m, i>> \notin taken[n]
  BY <1>2, <1>3 DEF IInv, SeenIsTaken
<1> HIDE DEF p, i
<1>6. /\ \A q : Genuine(q) => Genuine(q)'
      /\ Genuine(p)
  <2>1. Genuine(p)
    BY <1>1 DEF Genuine, p
  <2>2. QED BY <1>3, <1>4, <2>1 DEF Genuine, PacketFrom
<1>7. /\ seenBroadcasts'[n] = seenBroadcasts[n] \cup {<<msg_id[m], i>>}
      /\ taken'[n] = taken[n] \cup {<<m, i>>}
      /\ relay'[n].on /\ relay'[n].pkt = p
      /\ \A k \in Node \ {n} : /\ seenBroadcasts'[k] = seenBroadcasts[k]
                               /\ taken'[k] = taken[k] /\ relay'[k] = relay[k]
  BY <1>3 DEF IInv, TypeInv, TypeOK
<1>8. IdsApart' /\ FreeBuffers' /\ TextsGenuine'
  BY <1>3, <1>4 DEF IInv, IdsApart, FreeBuffers, TextsGenuine
<1>9. PacketsGenuine'
  BY <1>2, <1>3, <1>6, <1>7 DEF IInv, PacketsGenuine
<1>10. SeenIsTaken'
  <2>1. ASSUME NEW l \in Node, NEW k \in Message, NEW j \in Nat, Sent(k)
        PROVE  <<msg_id[k], j>> \in seenBroadcasts'[l] <=> <<k, j>> \in taken'[l]
    <3>1. <<msg_id[k], j>> \in seenBroadcasts[l] <=> <<k, j>> \in taken[l]
      BY <2>1 DEF IInv, SeenIsTaken
    <3>2. <<msg_id[k], j>> = <<msg_id[m], i>> <=> <<k, j>> = <<m, i>>
      BY <1>2, <2>1 DEF IInv, IdsApart
    <3>3. QED BY <1>7, <3>1, <3>2
  <2>2. ASSUME NEW l \in Node, NEW k \in Message, NEW j \in Nat, <<k, j>> \in taken'[l]
        PROVE  Sent(k)
    BY <1>2, <1>7, <2>2 DEF IInv, SeenIsTaken
  <2>3. ASSUME NEW l \in Node, NEW s \in Id, s \in seenBroadcasts'[l]
        PROVE  \E k \in Message : Sent(k) /\ s[1] = msg_id[k]
    <3>1. CASE s \in seenBroadcasts[l]
      BY <3>1 DEF IInv, SeenIsTaken
    <3>2. CASE s = <<msg_id[m], i>>
      BY <1>2, <3>2
    <3>3. QED BY <1>7, <2>3, <3>1, <3>2
  <2>4. QED BY <1>3, <1>4, <2>1, <2>2, <2>3 DEF SeenIsTaken
<1>11. Buffered'
  <2> SUFFICES ASSUME NEW l \in Node, NEW k \in Message, Sent(k)'
               PROVE  BufferedOf(l, k)'
    BY DEF Buffered
  <2>1. BufferedOf(l, k)
    BY <1>4 DEF IInv, Buffered
  <2>2. StoredOf(l, k)' = StoredOf(l, k)
    <3>1. CASE l = n
      <4>1. p.chunk = <<m, i>>
        BY <1>2
      <4>2. QED BY <1>3, <1>5, <1>7, <3>1, <4>1 DEF StoredOf
    <3>2. CASE l # n
      BY <1>7, <3>2 DEF StoredOf
    <3>3. QED BY <3>1, <3>2
  <2>3. QED BY <1>3, <2>1, <2>2 DEF BufferedOf, Holds, Shows
<1>12. QED BY <1>8, <1>9, <1>10, <1>11 DEF IInv

----------------------------------------------------------------------------
(* Storing fragment i of m in a buffer that holds the fragments st of m:   *)
(* the text is complete just when no fragment is missing any more, and is  *)
(* then the text of m.                                                     *)
LEMMA StoreOne ==
    ASSUME OneSource, NEW m \in Message, NEW i \in Index(m), NEW st \in SUBSET Index(m),
           i \notin st, NEW fs, Holds(fs, m, st)
    PROVE  LET mf == MoreFragments(m, i)
           IN /\ Completes(fs, i, mf, <<m, i>>) <=> st \cup {i} = Index(m)
              /\ st \cup {i} = Index(m) => /\ Result(fs, i, mf, <<m, i>>) = Whole(m)
                                           /\ BufferAfter(fs, i, mf, <<m, i>>) = EmptySet
              /\ st \cup {i} # Index(m) =>
                    Holds(BufferAfter(fs, i, mf, <<m, i>>), m, st \cup {i})
<1> DEFINE mf == MoreFragments(m, i)
           g  == Stored(fs, i, mf, <<m, i>>)
           tt == st \cup {i}
<1>1. Size[m] \in Nat \ {0} /\ FRAG_IDS \in Nat \ {0} /\ Size[m] <= FRAG_IDS
  BY SizeAssumption, WidthAssumption DEF OneSource
<1>2. i \in Nat /\ i < Size[m] /\ i < FRAG_IDS /\ i \in FragId
  BY <1>1 DEF Index, FragId
<1>3. i % FRAG_IDS = i
  BY <1>1, <1>2, SmallMod
<1>4. mf <=> i # Size[m] - 1
  BY <1>1, <1>2 DEF MoreFragments
<1>5. <<m, i>> \in Chunk
  BY <1>2 DEF Chunk
<1>6. fs \in FragmentSet /\ mf \in BOOLEAN
  BY DEF Holds, MoreFragments
<1>7. g \in FragmentSet
  BY <1>2, <1>5, <1>6, StoredType
<1>8. Holds(g, m, tt)
  <2>1. /\ g.fragments = [fs.fragments EXCEPT ![i] = <<m, i>>]
        /\ g.total_fragments = IF mf THEN fs.total_fragments ELSE i + 1
        /\ g.MF_recv = (fs.MF_recv \/ ~mf)
    BY DEF Stored
  <2>2. \A j \in FragId : g.fragments[j] = IF j \in tt THEN <<m, j>> ELSE NoChunk
    BY <1>2, <1>6, <2>1 DEF Holds, FragmentSet
  <2>3. g.MF_recv <=> Size[m] - 1 \in tt
    BY <1>4, <2>1 DEF Holds
  <2>4. g.MF_recv => g.total_fragments = Size[m]
    <3>1. CASE mf
      BY <2>1, <3>1 DEF Holds
    <3>2. CASE ~mf
      BY <1>1, <1>2, <1>4, <2>1, <3>2
    <3>3. QED BY <3>1, <3>2
  <2> HIDE DEF g, tt
  <2>5. QED BY <1>7, <2>2, <2>3, <2>4 DEF Holds
<1> HIDE DEF g, tt, mf
<1>9. tt \subseteq Index(m)
  BY DEF tt
<1>10. Complete(g) <=> tt = Index(m)
  <2>1. ASSUME Complete(g) PROVE tt = Index(m)
    <3>1. g.MF_recv /\ g.total_fragments = Size[m]
      BY <1>8, <2>1 DEF Complete, Holds
    <3>2. \A j \in Index(m) : j \in FragId /\ g.fragments[j] # NoChunk
      BY <1>1, <2>1, <3>1 DEF Complete, Index, FragId
    <3>3. \A j \in Index(m) : j \in tt
      BY <1>8, <3>2 DEF Holds
    <3>4. QED BY <1>9, <3>3
  <2>2. ASSUME tt = Index(m) PROVE Complete(g)
    <3>1. g.MF_recv /\ g.total_fragments = Size[m]
      BY <1>1, <1>8, <2>2 DEF Holds, Index
    <3>2. \A j \in 0 .. Size[m] - 1 : j \in FragId /\ g.fragments[j] = <<m, j>>
      <4> TAKE j \in 0 .. Size[m] - 1
      <4>1. j \in FragId /\ j \in Index(m)
        BY <1>1 DEF Index, FragId
      <4>2. g.fragments[j] = IF j \in tt THEN <<m, j>> ELSE NoChunk
        BY <1>8, <4>1 DEF Holds
      <4>3. QED BY <2>2, <4>1, <4>2
    <3>3. \A j \in 0 .. Size[m] - 1 : g.fragments[j] # NoChunk
      <4> TAKE j \in 0 .. Size[m] - 1
      <4>1. g.fragments[j] = <<m, j>> /\ <<m, j>> # NoChunk
        BY <3>2, ChunkIsThere
      <4>2. QED BY <4>1
    <3>4. QED BY <3>1, <3>3 DEF Complete
  <2>3. QED BY <2>1, <2>2
<1>11. ASSUME tt = Index(m) PROVE Joined(g) = Whole(m)
  <2>1. g.total_fragments = Size[m]
    BY <1>1, <1>8, <1>11 DEF Holds, Index
  <2>2. \A k \in 1 .. Size[m] : g.fragments[k - 1] = <<m, k - 1>>
    <3> TAKE k \in 1 .. Size[m]
    <3>1. k - 1 \in Index(m) /\ k - 1 \in FragId
      BY <1>1 DEF Index, FragId
    <3>2. QED BY <1>8, <1>11, <3>1 DEF Holds
  <2>3. QED BY <2>1, <2>2 DEF Joined, Whole
<1>12. /\ Completes(fs, i, mf, <<m, i>>) <=> Complete(g)
       /\ Result(fs, i, mf, <<m, i>>) = Joined(g)
       /\ BufferAfter(fs, i, mf, <<m, i>>) = IF Complete(g) THEN EmptySet ELSE g
  BY <1>3 DEF Completes, Result, BufferAfter, g
<1>13. QED BY <1>8, <1>10, <1>11, <1>12 DEF mf, tt

(* The fragment of m that a main loop has sent on is stored; no other      *)
(* message of its node is touched, and at most the text of m is shown,     *)
(* for the first time.                                                     *)
ShowsOneMore(n) ==
    \E m \in Message : /\ Sent(m) /\ ~Shows(n, m)
                       /\ shown' = [shown EXCEPT ![n] = Append(@, Whole(m))]

LEMMA StoreStep ==
    ASSUME OneSource, FewMessages, IInv, TypeInv',
           NEW n \in Node, StoreFragment(n)
    PROVE  IInv' /\ (UNCHANGED shown \/ ShowsOneMore(n))
<1> DEFINE p  == relay[n].pkt
           fs == buffers[n][p.id]
<1>1. PICK m \in Message : PacketFrom(p, m)
  BY DEF StoreFragment, IInv, PacketsGenuine, Genuine
<1> DEFINE i  == p.frag
           mf == MoreFragments(m, i)
           st == StoredOf(n, m)
           tt == st \cup {i}
           w  == msg_id[m]
           fs2 == BufferAfter(fs, i, mf, <<m, i>>)
           text == Result(fs, i, mf, <<m, i>>)
<1>2. /\ Sent(m) /\ p.id = w /\ i \in Index(m) /\ i \in Nat
      /\ p.chunk = <<m, i>> /\ p.mf = mf /\ relay[n].on
      /\ <<m, i>> \in taken[n]
  <2>1. relay[n].on
    BY DEF StoreFragment
  <2>2. p.chunk \in taken[n]
    BY <2>1 DEF IInv, PacketsGenuine
  <2>3. i \in Index(m) /\ i \in Nat
    BY <1>1 DEF PacketFrom, Index
  <2>4. Sent(m) /\ p.id = w /\ p.chunk = <<m, i>> /\ p.mf = mf
    BY <1>1 DEF PacketFrom
  <2>5. QED BY <2>1, <2>2, <2>3, <2>4
<1>3. w \in WireId
  BY <1>2, IdInHeader DEF IInv
<1>4. /\ relay' = [relay EXCEPT ![n] = NoRelay]
      /\ buffers' = [buffers EXCEPT ![n][w] = fs2]
      /\ shown' = IF Completes(fs, i, mf, <<m, i>>)
                  THEN [shown EXCEPT ![n] = Append(@, text)] ELSE shown
      /\ UNCHANGED <<next_msg_id, pc, msg_id, seenBroadcasts, air, taken>>
  BY <1>2 DEF StoreFragment, threadVars
<1>5. /\ ~relay'[n].on /\ \A l \in Node \ {n} : relay'[l] = relay[l]
      /\ buffers'[n][w] = fs2
      /\ \A v \in WireId \ {w} : buffers'[n][v] = buffers[n][v]
      /\ \A l \in Node \ {n} : buffers'[l] = buffers[l] /\ shown'[l] = shown[l]
  BY <1>3, <1>4 DEF IInv, TypeInv, TypeOK, NoRelay
<1>6. i \notin st /\ st \in SUBSET Index(m) /\ tt \in SUBSET Index(m)
  BY <1>2 DEF StoredOf
<1>7. \A k \in Message : Sent(k)' <=> Sent(k)
  BY <1>4 DEF Sent
<1>8. StoredOf(n, m)' = tt
  BY <1>2, <1>4, <1>5 DEF StoredOf
<1>9. BufferedOf(n, m)
  BY <1>2 DEF IInv, Buffered
<1> HIDE DEF p
<1>10. ~Shows(n, m) /\ Holds(fs, m, st) /\ fs = buffers[n][w]
  BY <1>2, <1>6, <1>9 DEF BufferedOf
<1> HIDE DEF fs, i, mf, st, tt, w, fs2, text
<1>11. /\ Completes(fs, i, mf, <<m, i>>) <=> tt = Index(m)
       /\ tt = Index(m) => text = Whole(m) /\ fs2 = EmptySet
       /\ tt # Index(m) => Holds(fs2, m, tt)
  BY <1>2, <1>6, <1>10, StoreOne DEF mf, tt, fs2, text
<1>12. /\ tt = Index(m) => shown' = [shown EXCEPT ![n] = Append(@, Whole(m))]
       /\ tt # Index(m) => shown' = shown
  BY <1>4, <1>11
<1>13. /\ IdsApart' /\ SeenIsTaken'
  BY <1>4, <1>7 DEF IInv, IdsApart, SeenIsTaken
<1>14. PacketsGenuine'
  <2>1. \A q : Genuine(q) => Genuine(q)'
    BY <1>4, <1>7 DEF Genuine, PacketFrom
  <2>2. QED BY <1>4, <1>5, <2>1 DEF IInv, PacketsGenuine
<1>15. shown[n] \in Seq(Seq(Chunk \cup {NoChunk}))
  BY DEF IInv, TypeInv, TypeOK
<1>16. /\ tt = Index(m) => /\ shown'[n] = Append(shown[n], Whole(m))
                           /\ DOMAIN shown'[n] = DOMAIN shown[n] \cup {Len(shown[n]) + 1}
                           /\ shown'[n][Len(shown[n]) + 1] = Whole(m)
                           /\ \A k \in DOMAIN shown[n] : shown'[n][k] = shown[n][k]
       /\ tt # Index(m) => shown'[n] = shown[n]
  <2>1. CASE tt = Index(m)
    <3>1. shown'[n] = Append(shown[n], Whole(m))
      BY <1>12, <2>1 DEF IInv, TypeInv, TypeOK
    <3>2. PICK T : shown[n] \in Seq(T)
      BY <1>15
    <3>3. PICK len \in Nat : Len(shown[n]) = len /\ DOMAIN shown[n] = 1 .. len
      BY <3>2
    <3>4. /\ DOMAIN Append(shown[n], Whole(m)) = 1 .. len + 1
          /\ Append(shown[n], Whole(m))[len + 1] = Whole(m)
          /\ \A k \in 1 .. len : Append(shown[n], Whole(m))[k] = shown[n][k]
      BY <3>2, <3>3
    <3>5. 1 .. len + 1 = (1 .. len) \cup {len + 1}
      BY <3>3
    <3>6. QED BY <2>1, <3>1, <3>3, <3>4, <3>5
  <2>2. CASE tt # Index(m)
    BY <1>12, <2>2
  <2>3. QED BY <2>1, <2>2
<1>17. TextsGenuine'
  <2> SUFFICES ASSUME NEW l \in Node, NEW k \in DOMAIN shown'[l]
               PROVE  \E q \in Message : Sent(q)' /\ shown'[l][k] = Whole(q)
    BY DEF TextsGenuine, Whole
  <2>1. CASE k \in DOMAIN shown[l] /\ shown'[l][k] = shown[l][k]
    BY <1>7, <2>1 DEF IInv, TextsGenuine
  <2>2. CASE l = n /\ tt = Index(m) /\ shown'[l][k] = Whole(m)
    BY <1>2, <1>7, <2>2
  <2>3. QED BY <1>5, <1>16, <2>1, <2>2
<1>18. FreeBuffers'
  <2> SUFFICES ASSUME NEW l \in Node, NEW v \in WireId,
                      \A k \in Message : Sent(k) => msg_id[k] # v
               PROVE  buffers'[l][v] = EmptySet
    BY <1>4, <1>7 DEF FreeBuffers
  <2>1. v # w
    BY <1>2 DEF w
  <2>2. QED BY <1>5, <2>1 DEF IInv, FreeBuffers
<1>19. ASSUME NEW l \in Node, NEW k \in Message, Sent(k), l # n \/ k # m
       PROVE  BufferedOf(l, k)'
  <2>1. BufferedOf(l, k)
    BY <1>19 DEF IInv, Buffered
  <2>2. StoredOf(l, k)' = StoredOf(l, k)
    <3>1. CASE l # n
      BY <1>4, <1>5, <3>1 DEF StoredOf
    <3>2. CASE l = n /\ k # m
      <4>1. relay[n].pkt.chunk = <<m, i>> /\ \A j : <<m, i>> # <<k, j>>
        BY <1>2, <3>2 DEF p
      <4>2. QED BY <1>4, <1>5, <3>2, <4>1 DEF StoredOf
    <3>3. QED BY <1>19, <3>1, <3>2
  <2>3. buffers'[l][msg_id'[k]] = buffers[l][msg_id[k]]
    <3>1. msg_id[k] \in WireId
      BY <1>19, IdInHeader DEF IInv
    <3>2. CASE l # n
      BY <1>4, <1>5, <3>2
    <3>3. CASE k # m
      <4>1. msg_id[k] # w
        BY <1>2, <1>19, <3>3 DEF IInv, IdsApart, w
      <4>2. QED BY <1>4, <1>5, <3>1, <4>1
    <3>4. QED BY <1>19, <3>2, <3>3
  <2>4. Shows(l, k)' <=> Shows(l, k)
    <3>1. CASE l # n
      BY <1>5, <3>1 DEF Shows, Whole
    <3>2. CASE l = n /\ tt # Index(m)
      BY <1>16, <3>2 DEF Shows, Whole
    <3>3. CASE l = n /\ k # m /\ tt = Index(m)
      <4>1. Whole(m) # Whole(k)
        BY <3>3, WholeDiffers
      <4>2. QED BY <1>16, <3>3, <4>1 DEF Shows
    <3>4. QED BY <1>19, <3>1, <3>2, <3>3
  <2>5. QED BY <1>4, <2>1, <2>2, <2>3, <2>4 DEF BufferedOf, Holds
<1>20. BufferedOf(n, m)'
  <2>1. CASE tt = Index(m)
    <3>1. Shows(n, m)'
      BY <1>16, <2>1 DEF Shows
    <3>2. QED BY <1>4, <1>5, <1>8, <1>11, <2>1, <3>1 DEF BufferedOf, w
  <2>2. CASE tt # Index(m)
    <3>1. ~Shows(n, m)'
      BY <1>10, <1>16, <2>2 DEF Shows
    <3>2. Holds(fs2, m, tt)
      BY <1>11, <2>2
    <3>3. buffers'[n][msg_id'[m]] = fs2 /\ StoredOf(n, m)' # Index(m)
      BY <1>4, <1>5, <1>8, <2>2 DEF w
    <3>4. QED BY <1>8, <3>1, <3>2, <3>3 DEF BufferedOf, Holds
  <2>3. QED BY <2>1, <2>2
<1>21. Buffered'
  BY <1>7, <1>19, <1>20 DEF Buffered
<1>22. UNCHANGED shown \/ ShowsOneMore(n)
  BY <1>2, <1>10, <1>12 DEF ShowsOneMore
<1>23. QED BY <1>13, <1>14, <1>17, <1>18, <1>21, <1>22 DEF IInv

----------------------------------------------------------------------------
(* A copy of the fragment a thread is sending belongs to its message.      *)
LEMMA CopyGenuine ==
    ASSUME IInv, FewMessages, NEW m \in Message, Sent(m)
    PROVE  Genuine(PacketOf(m))
<1>1. msg_id[m] % WIRE_IDS = msg_id[m]
  BY IdInHeader DEF IInv
<1>2. frag[m] \in Index(m)
  BY DEF IInv, TypeInv, TypeOK
<1>3. QED BY <1>1, <1>2 DEF PacketOf, PacketFrom, Genuine

LEMMA InvStep ==
    ASSUME OneSource, FewMessages, FewMessages', IInv, [Next]_vars
    PROVE  IInv'
<1>1. TypeInv'
  BY TypeStep DEF IInv
<1>2. CASE UNCHANGED vars
  <2>1. UNCHANGED <<next_msg_id, pc, msg_id, seenBroadcasts, taken, buffers, shown, relay, air>>
    BY <1>2 DEF vars, threadVars, loopVars
  <2>2. \A c \in air : Genuine(c.pkt)
    BY DEF IInv, PacketsGenuine
  <2>3. QED BY <1>1, <2>1, <2>2, OtherStep DEF Sent
<1>3. ASSUME NEW m \in Message, SendMessage(m)
      PROVE  IInv'
  BY <1>1, <1>3, SendStep
<1>4. ASSUME NEW m \in Message, NEW hearers \in SUBSET Neighbours[Src[m]], SendCopy(m, hearers)
      PROVE  IInv'
  <2>1. /\ UNCHANGED <<next_msg_id, pc, msg_id, seenBroadcasts, taken, buffers, shown, relay>>
        /\ Sent(m) /\ Emit(m, PacketOf(m), hearers)
    BY <1>4 DEF SendCopy, loopVars, Sent
  <2>2. \A c \in air' : c \in air \/ c.pkt = PacketOf(m)
    BY <2>1 DEF Emit
  <2>3. \A c \in air' : Genuine(c.pkt)
    BY <2>1, <2>2, CopyGenuine DEF IInv, PacketsGenuine
  <2>4. QED BY <1>1, <2>1, <2>3, OtherStep DEF Sent
<1>5. ASSUME NEW m \in Message, NextFragment(m)
      PROVE  IInv'
  <2>1. UNCHANGED <<next_msg_id, msg_id, seenBroadcasts, taken, buffers, shown, relay, air>>
    BY <1>5 DEF NextFragment, loopVars
  <2>2. \A k \in Message : Sent(k)' <=> Sent(k)
    BY <1>5 DEF NextFragment, Sent, IInv, TypeInv, TypeOK
  <2>3. \A c \in air : Genuine(c.pkt)
    BY DEF IInv, PacketsGenuine
  <2>4. QED BY <1>1, <2>1, <2>2, <2>3, OtherStep
<1>6. ASSUME NEW n \in Node, NEW c \in air, c.to = n, TakeFragment(n, c.pkt)
      PROVE  IInv'
  BY <1>1, <1>6, TakeStep
<1>7. ASSUME NEW n \in Node, NEW c \in air, DropFragment(n, c.pkt)
      PROVE  IInv'
  <2>1. /\ UNCHANGED <<next_msg_id, pc, msg_id, seenBroadcasts, taken, buffers, shown, relay>>
        /\ air' \subseteq air
    BY <1>7 DEF DropFragment, Received, threadVars, loopVars
  <2>2. \A d \in air' : Genuine(d.pkt)
    BY <2>1 DEF IInv, PacketsGenuine
  <2>3. QED BY <1>1, <2>1, <2>2, OtherStep DEF Sent
<1>8. ASSUME NEW n \in Node, NEW hearers \in SUBSET Neighbours[n], RelayCopy(n, hearers)
      PROVE  IInv'
  <2>1. /\ UNCHANGED <<next_msg_id, pc, msg_id, seenBroadcasts, taken, buffers, shown>>
        /\ relay[n].on /\ Emit(n, relay[n].pkt, hearers)
        /\ relay' = [relay EXCEPT ![n].tries = @ + 1]
    BY <1>8 DEF RelayCopy, threadVars
  <2>2. \A c \in air' : c \in air \/ c.pkt = relay[n].pkt
    BY <2>1 DEF Emit
  <2>3. \A c \in air' : Genuine(c.pkt)
    BY <2>1, <2>2 DEF IInv, PacketsGenuine
  <2>4. \A l \in Node : relay'[l].on = relay[l].on /\ relay'[l].pkt = relay[l].pkt
    BY <2>1 DEF IInv, TypeInv, TypeOK
  <2>5. QED BY <1>1, <2>1, <2>3, <2>4, OtherStep DEF Sent
<1>9. ASSUME NEW n \in Node, StoreFragment(n)
      PROVE  IInv'
  BY <1>1, <1>9, StoreStep
<1>10. QED
  BY <1>2, <1>3, <1>4, <1>5, <1>6, <1>7, <1>8, <1>9 DEF Next, Thread, MainLoop

LEMMA InvHolds ==
    ASSUME OneSource
    PROVE  Spec /\ []FewMessages => []IInv
<1>1. IInv /\ FewMessages /\ FewMessages' /\ [Next]_vars => IInv'
  BY InvStep
<1>2. QED BY InvInit, <1>1, PTL DEF Spec

(* A copy that leaves the air is taken in, or was before.                  *)
LEMMA ReceivedIsTaken ==
    ASSUME IInv, Next, NEW c \in air, c \notin air'
    PROVE  c.pkt.chunk \in taken'[c.to]
<1>1. PICK n \in Node, d \in air : /\ d.to = n
                                   /\ TakeFragment(n, d.pkt) \/ DropFragment(n, d.pkt)
  BY DEF Next, Thread, MainLoop, SendMessage, SendCopy, NextFragment, RelayCopy,
         StoreFragment, Emit, loopVars
<1>2. c.to = n /\ c.pkt = d.pkt
  BY <1>1 DEF TakeFragment, DropFragment, Received
<1>3. CASE TakeFragment(n, d.pkt)
  BY <1>2, <1>3 DEF TakeFragment, IInv, TypeInv, TypeOK
<1>4. CASE DropFragment(n, d.pkt)
  <2>1. PICK m \in Message : PacketFrom(c.pkt, m)
    BY DEF IInv, PacketsGenuine, Genuine
  <2>2. c.pkt.frag \in Nat /\ SeenId(c.pkt) = <<msg_id[m], c.pkt.frag>>
    BY <2>1 DEF PacketFrom, SeenId, Index
  <2>3. <<msg_id[m], c.pkt.frag>> \in seenBroadcasts[n] /\ taken' = taken
    BY <1>2, <1>4, <2>2 DEF DropFragment, loopVars
  <2>4. <<m, c.pkt.frag>> \in taken[n]
    BY <2>1, <2>2, <2>3 DEF PacketFrom, IInv, SeenIsTaken
  <2>5. QED BY <1>2, <2>1, <2>3, <2>4 DEF PacketFrom
<1>5. QED BY <1>1, <1>3, <1>4

(* What a node drops as "already seen message" it has taken in before: as  *)
(* long as one node broadcasts, and no more messages than the header tells *)
(* apart, ending the flood costs no one a fragment, whatever the links     *)
(* lose and however long a copy is delayed.                                *)
THEOREM NothingNewDropped ==
    ASSUME OneSource
    PROVE  Spec /\ []FewMessages => DroppedIsSeen
<1> DEFINE A == \A c \in air \ air' : c.pkt.chunk \in taken'[c.to]
<1>1. IInv /\ [Next]_vars => [A]_vars
  BY ReceivedIsTaken
<1> HIDE DEF A
<1>2. Spec /\ []FewMessages => [][A]_vars
  BY <1>1, InvHolds, PTL DEF Spec
<1>3. QED BY <1>2 DEF DroppedIsSeen, A

----------------------------------------------------------------------------
(* The texts of a node, as the messages Broadcast speaks of.               *)
Mapped(n) == [k \in DOMAIN shown[n] |-> MessageOf(shown[n][k])]

LEMMA MessageOfWhole == \A m \in Message : MessageOf(Whole(m)) = m
BY WholeDiffers DEF MessageOf

(* What is shown for the first time is new to Broadcast too.               *)
LEMMA NewToPromise ==
    ASSUME IInv, NEW n \in Node, NEW m \in Message, ~Shows(n, m),
           NEW k \in DOMAIN shown[n]
    PROVE  Mapped(n)[k] # m
<1>1. PICK q \in Message : shown[n][k] = Whole(q)
  BY DEF IInv, TextsGenuine
<1>2. Mapped(n)[k] = q
  BY <1>1, MessageOfWhole DEF Mapped
<1>3. q # m
  BY <1>1 DEF Shows
<1>4. QED BY <1>2, <1>3

(* Showing a text whole maps to a step of Broadcast.                       *)
LEMMA ShowMaps ==
    ASSUME IInv, NEW n \in Node, ShowsOneMore(n), UNCHANGED pc
    PROVE  \E m \in Message : Promise!Show(n, m)
<1>1. PICK m \in Message : /\ Sent(m) /\ ~Shows(n, m)
                           /\ shown' = [shown EXCEPT ![n] = Append(@, Whole(m))]
  BY DEF ShowsOneMore
<1>2. shown \in [Node -> Seq(Seq(Chunk \cup {NoChunk}))]
  BY DEF IInv, TypeInv, TypeOK
<1>3. PICK T : shown[n] \in Seq(T)
  BY <1>2
<1>4. PICK len \in Nat : Len(shown[n]) = len /\ DOMAIN shown[n] = 1 .. len
  BY <1>3
<1>5. shown'[n] = Append(shown[n], Whole(m))
  BY <1>1, <1>2
<1>6. /\ DOMAIN shown'[n] = 1 .. len + 1
      /\ shown'[n][len + 1] = Whole(m)
      /\ \A k \in 1 .. len : shown'[n][k] = shown[n][k]
  BY <1>3, <1>4, <1>5
<1> DEFINE old == [k \in 1 .. len |-> MessageOf(shown[n][k])]
           new == [k \in 1 .. len + 1 |-> IF k = len + 1 THEN m ELSE MessageOf(shown[n][k])]
<1>7. Mapped(n) = old
  BY <1>4 DEF Mapped
<1>8. [k \in DOMAIN shown'[n] |-> MessageOf(shown'[n][k])] = new
  BY <1>4, <1>6, MessageOfWhole
<1>9. Append(old, m) = new
  <2> DEFINE R == {old[k] : k \in 1 .. len}
  <2>1. old \in Seq(R) /\ Len(old) = len
    BY <1>4, SMTT(30)
  <2>2. QED BY <1>4, <2>1, SMTT(30)
<1> DEFINE mapped  == [l \in Node |-> [k \in DOMAIN shown[l] |-> MessageOf(shown[l][k])]]
           mapped2 == [l \in Node |-> [k \in DOMAIN shown'[l] |-> MessageOf(shown'[l][k])]]
<1>10. mapped2 = [mapped EXCEPT ![n] = Append(@, m)]
  <2>1. mapped[n] = old /\ mapped2[n] = new
    BY <1>7, <1>8 DEF Mapped
  <2>2. \A l \in Node \ {n} : mapped2[l] = mapped[l]
    BY <1>1, <1>2
  <2> HIDE DEF old, new
  <2>3. QED BY <1>9, <2>1, <2>2
<1>11. ~Promise!Shows(n, m)
  BY <1>1, NewToPromise DEF Promise!Shows, Mapped
<1>12. m \in {k \in Message : pc[k] # "unsent"}
  BY <1>1 DEF Sent
<1>13. Promise!Show(n, m)
  BY <1>10, <1>11, <1>12 DEF Promise!Show
<1>14. QED BY <1>13

LEMMA PromiseInit == Init => Promise!Init
BY DEF Init, Promise!Init

LEMMA PromiseStep ==
    ASSUME OneSource, FewMessages, FewMessages', IInv, [Next]_vars
    PROVE  [Promise!Next]_(Promise!vars)
<1>1. ASSUME UNCHANGED <<pc, shown>>
      PROVE  UNCHANGED Promise!vars
  BY <1>1 DEF Promise!vars
<1>2. CASE UNCHANGED vars
  BY <1>1, <1>2 DEF vars, threadVars, loopVars
<1>3. ASSUME NEW m \in Message, SendMessage(m)
      PROVE  Promise!Send(m)
  <2>1. /\ pc[m] = "unsent" /\ pc'[m] = "send" /\ shown' = shown
        /\ \A k \in Message \ {m} : pc'[k] = pc[k]
    BY <1>3 DEF SendMessage, loopVars, IInv, TypeInv, TypeOK
  <2>2. {k \in Message : pc'[k] # "unsent"} = {k \in Message : pc[k] # "unsent"} \cup {m}
    BY <2>1
  <2>3. QED BY <2>1, <2>2 DEF Promise!Send
<1>4. ASSUME NEW m \in Message, Thread(m)
      PROVE  UNCHANGED Promise!vars
  <2>1. /\ shown' = shown
        /\ {k \in Message : pc'[k] # "unsent"} = {k \in Message : pc[k] # "unsent"}
    BY <1>4 DEF Thread, SendCopy, NextFragment, loopVars, IInv, TypeInv, TypeOK
  <2>2. QED BY <2>1 DEF Promise!vars
<1>5. ASSUME NEW n \in Node, MainLoop(n)
      PROVE  UNCHANGED <<pc, shown>> \/ (ShowsOneMore(n) /\ UNCHANGED pc)
  <2>1. CASE StoreFragment(n)
    <3>1. UNCHANGED shown \/ ShowsOneMore(n)
      BY <2>1, StoreStep, InvStep DEF IInv
    <3>2. UNCHANGED pc
      BY <2>1 DEF StoreFragment, threadVars
    <3>3. QED BY <3>1, <3>2
  <2>2. CASE ~StoreFragment(n)
    BY <1>5, <2>2 DEF MainLoop, TakeFragment, DropFragment, RelayCopy, threadVars, loopVars
  <2>3. QED BY <2>1, <2>2
<1>6. ASSUME NEW n \in Node, MainLoop(n)
      PROVE  [Promise!Next]_(Promise!vars)
  BY <1>1, <1>5, <1>6, ShowMaps DEF Promise!Next
<1>7. QED BY <1>2, <1>3, <1>4, <1>6 DEF Next, Promise!Next

(* Under the same hypotheses the flood implements Broadcast: whatever      *)
(* copies are lost, delayed, repeated or reordered, every node shows only  *)
(* texts that were sent, each whole and at most once.                      *)
THEOREM EachTextOnce ==
    ASSUME OneSource
    PROVE  Spec /\ []FewMessages => PromiseKept
<1>1. IInv /\ FewMessages /\ FewMessages' /\ [Next]_vars => [Promise!Next]_(Promise!vars)
  BY PromiseStep
<1>2. Spec /\ []FewMessages => Promise!Spec
  BY PromiseInit, InvHolds, <1>1, PTL DEF Spec, Promise!Spec
<1>3. QED BY <1>2 DEF PromiseKept

----------------------------------------------------------------------------
(* Nobody is left out.  A fragment has reached a node when it was taken in *)
(* or is on its way to it.                                                 *)
Reached(n, c) == c \in taken[n] \/ \E k \in air : k.to = n /\ k.pkt.chunk = c
(* The same after the step, of something said before it.                   *)
ReachedAfter(n, c) == c \in taken'[n] \/ \E k \in air' : k.to = n /\ k.pkt.chunk = c

(* What a thread is sending has reached those who heard it ...             *)
Sends(s)   == IF s \in Message THEN pc[s] = "send" ELSE relay[s].on
InHand(s)  == IF s \in Message THEN <<s, frag[s]>> ELSE relay[s].pkt.chunk
OnTheWayOf(s) ==
    heard[s] # {} => Sends(s) /\ \A h \in heard[s] : Reached(h, InHand(s))
OnTheWay == \A s \in Sender : OnTheWayOf(s)

(* ... and what it has sent has reached everyone in range, while no link   *)
(* has failed.                                                             *)
Served ==
    /\ \A m \in Message, i \in Nat :
          i < frag[m] \/ (pc[m] = "done" /\ i \in Index(m)) =>
              \A h \in Neighbours[Src[m]] : Reached(h, <<m, i>>)
    /\ \A n \in Node : \A c \in taken[n] :
          (relay[n].on => relay[n].pkt.chunk # c) => \A h \in Neighbours[n] : Reached(h, c)

FloodInv == OnTheWay /\ (~linkFailed => Served)

LEMMA FloodInit == Init => FloodInv
<1> SUFFICES ASSUME Init PROVE FloodInv
  OBVIOUS
<1>1. /\ \A s \in Sender : heard[s] = {}
      /\ \A m \in Message : frag[m] = 0 /\ pc[m] = "unsent"
      /\ \A n \in Node : taken[n] = {}
  BY DEF Init
<1>2. OnTheWay
  BY <1>1 DEF OnTheWay, OnTheWayOf
<1>3. \A i \in Nat : ~(i < 0)
  OBVIOUS
<1>4. Served
  BY <1>1, <1>3 DEF Served
<1>5. QED BY <1>2, <1>4 DEF FloodInv

(* What has reached a node once has reached it for ever.                   *)
LEMMA StaysReached ==
    ASSUME IInv, Next
    PROVE  /\ \A n \in Node : taken[n] \subseteq taken'[n]
           /\ \A n \in Node : \A c : Reached(n, c) => Reached(n, c)' /\ ReachedAfter(n, c)
<1>1. \A n \in Node : taken[n] \subseteq taken'[n]
  <2>1. ASSUME NEW n \in Node, NEW p, TakeFragment(n, p)
        PROVE  \A k \in Node : taken[k] \subseteq taken'[k]
    BY <2>1 DEF TakeFragment, IInv, TypeInv, TypeOK
  <2>2. CASE UNCHANGED taken
    BY <2>2
  <2>3. (\E n \in Node : \E p : TakeFragment(n, p)) \/ UNCHANGED taken
    BY DEF Next, Thread, MainLoop, SendMessage, SendCopy, NextFragment, DropFragment,
           RelayCopy, StoreFragment, loopVars
  <2>4. QED BY <2>1, <2>2, <2>3
<1>2. ASSUME NEW n \in Node, NEW c, Reached(n, c)
      PROVE  Reached(n, c)'
  <2>1. CASE c \in taken[n]
    BY <1>1, <2>1 DEF Reached
  <2>2. ASSUME NEW k \in air, k.to = n, k.pkt.chunk = c
        PROVE  Reached(n, c)'
    BY <2>2, ReceivedIsTaken DEF Reached
  <2>3. QED BY <1>2, <2>1, <2>2 DEF Reached
<1>3. QED BY <1>1, <1>2 DEF Reached, ReachedAfter

(* A copy reaches those that hear it.                                      *)
LEMMA EmitReaches ==
    ASSUME NEW s \in Sender, NEW p, NEW hearers, Emit(s, p, hearers)
    PROVE  \A h \in hearers : ReachedAfter(h, p.chunk)
<1> SUFFICES ASSUME NEW h \in hearers PROVE ReachedAfter(h, p.chunk)
  OBVIOUS
<1>1. [to |-> h, pkt |-> p] \in air'
  BY DEF Emit
<1>2. QED BY <1>1 DEF ReachedAfter

LEMMA StaysOnTheWay ==
    ASSUME IInv, FloodInv, Next, NEW s \in Sender, heard'[s] = heard[s],
           heard[s] # {} /\ Sends(s) => Sends(s)' /\ InHand(s)' = InHand(s)
    PROVE  OnTheWayOf(s)'
<1>1. heard[s] \subseteq Node
  BY DEF IInv, TypeInv, TypeOK
<1>2. CASE heard[s] = {}
  BY <1>2 DEF OnTheWayOf
<1>3. CASE heard[s] # {}
  <2>1. Sends(s) /\ \A h \in heard[s] : Reached(h, InHand(s))
    BY <1>3 DEF FloodInv, OnTheWay, OnTheWayOf
  <2>2. \A h \in heard[s] : ReachedAfter(h, InHand(s))
    BY <1>1, <2>1, StaysReached
  <2>3. Sends(s)' /\ InHand(s)' = InHand(s)
    BY <1>3, <2>1
  <2>4. \A h \in heard'[s] : ReachedAfter(h, InHand(s)')
    BY <2>2, <2>3
  <2>5. QED BY <2>3, <2>4 DEF OnTheWayOf, Reached, ReachedAfter
<1>4. QED BY <1>2, <1>3

(* Thread s sends a copy of what it has in hand.                           *)
LEMMA CopyOnTheWay ==
    ASSUME IInv, FloodInv, Next, NEW s \in Sender, NEW p, NEW hearers, Emit(s, p, hearers),
           p.chunk = InHand(s), Sends(s)', InHand(s)' = InHand(s)
    PROVE  OnTheWayOf(s)'
<1>1. heard[s] \subseteq Node /\ heard'[s] = heard[s] \cup hearers
  BY DEF Emit, IInv, TypeInv, TypeOK
<1>2. \A h \in heard[s] : ReachedAfter(h, InHand(s))
  BY <1>1, StaysReached DEF FloodInv, OnTheWay, OnTheWayOf
<1>3. \A h \in hearers : ReachedAfter(h, InHand(s))
  BY EmitReaches
<1>4. \A h \in heard'[s] : ReachedAfter(h, InHand(s)')
  BY <1>1, <1>2, <1>3
<1>5. QED BY <1>4 DEF OnTheWayOf, Reached, ReachedAfter

(* The threads that take no part in a step.                                *)
LEMMA OthersOnTheWay ==
    ASSUME IInv, FloodInv, Next, NEW s \in Sender,
           \A k \in Sender \ {s} : heard'[k] = heard[k],
           \A m \in Message \ {s} : pc'[m] = pc[m] /\ frag'[m] = frag[m],
           \A n \in Node \ {s} : relay'[n] = relay[n],
           OnTheWayOf(s)'
    PROVE  OnTheWay'
<1> SUFFICES ASSUME NEW k \in Sender, k # s PROVE OnTheWayOf(k)'
  BY DEF OnTheWay, Sender
<1>1. heard'[k] = heard[k]
  OBVIOUS
<1>2. Sends(k) => Sends(k)' /\ InHand(k)' = InHand(k)
  BY DEF Sends, InHand, Sender
<1>3. QED BY <1>1, <1>2, StaysOnTheWay

LEMMA SendMessageReach ==
    ASSUME IInv, FloodInv, Next, NEW m \in Message, SendMessage(m)
    PROVE  FloodInv'
<1>1. /\ pc[m] = "unsent" /\ pc'[m] = "send"
      /\ \A k \in Message \ {m} : pc'[k] = pc[k]
      /\ UNCHANGED <<frag, heard, relay, taken, linkFailed>>
  BY DEF SendMessage, IInv, TypeInv, TypeOK, loopVars
<1>2. OnTheWay'
  <2> SUFFICES ASSUME NEW s \in Sender PROVE OnTheWayOf(s)'
    BY DEF OnTheWay, Sender
  <2>1. Sends(s) => Sends(s)' /\ InHand(s)' = InHand(s)
    BY <1>1 DEF Sends, InHand
  <2>2. QED BY <1>1, <2>1, StaysOnTheWay
<1>3. Served => Served'
  BY <1>1, StaysReached, LinkAssumption, SenderAssumption DEF Served
<1>4. QED BY <1>1, <1>2, <1>3 DEF FloodInv

LEMMA SendCopyReach ==
    ASSUME IInv, FloodInv, Next, NEW m \in Message,
           NEW hearers \in SUBSET Neighbours[Src[m]], SendCopy(m, hearers)
    PROVE  FloodInv'
<1>1. /\ pc[m] = "send" /\ Emit(m, PacketOf(m), hearers)
      /\ UNCHANGED <<pc, frag, relay, taken, linkFailed>>
  BY DEF SendCopy, loopVars
<1>2. m \in Sender /\ m \notin Node
  BY ThreadAssumption DEF Sender
<1>3. PacketOf(m).chunk = InHand(m) /\ Sends(m)' /\ InHand(m)' = InHand(m)
  BY <1>1 DEF PacketOf, InHand, Sends
<1>4. OnTheWayOf(m)'
  BY <1>1, <1>2, <1>3, CopyOnTheWay
<1>5. \A k \in Sender \ {m} : heard'[k] = heard[k]
  BY <1>1 DEF Emit, IInv, TypeInv, TypeOK
<1>6. OnTheWay'
  BY <1>1, <1>2, <1>4, <1>5, OthersOnTheWay
<1>7. Served => Served'
  BY <1>1, StaysReached, LinkAssumption, SenderAssumption DEF Served
<1>8. QED BY <1>1, <1>6, <1>7 DEF FloodInv

(* The last copy of a fragment: unless someone in range missed it, it has  *)
(* reached everyone in range.                                              *)
LEMMA NextFragmentReach ==
    ASSUME IInv, FloodInv, Next, NEW m \in Message, NextFragment(m)
    PROVE  FloodInv'
<1>1. /\ pc[m] = "send" /\ UNCHANGED <<relay, taken>>
      /\ linkFailed' = (linkFailed \/ ~(Neighbours[Src[m]] \subseteq heard[m]))
      /\ heard' = [heard EXCEPT ![m] = {}]
  BY DEF NextFragment, loopVars
<1>2. \/ /\ frag' = [frag EXCEPT ![m] = frag[m] + 1] /\ pc' = pc
      \/ /\ frag' = frag /\ pc' = [pc EXCEPT ![m] = "done"] /\ ~(frag[m] + 1 < Size[m])
  BY DEF NextFragment
<1>3. /\ heard'[m] = {}
      /\ \A s \in Sender \ {m} : heard'[s] = heard[s]
      /\ \A s \in Sender : heard[s] \subseteq Node
  BY <1>1 DEF IInv, TypeInv, TypeOK, Sender
<1>4. /\ \A k \in Message \ {m} : frag'[k] = frag[k] /\ pc'[k] = pc[k] /\ k \in Sender \ {m}
      /\ \A n \in Node : n \in Sender \ {m}
  BY <1>2, ThreadAssumption DEF IInv, TypeInv, TypeOK, Sender
<1>5. OnTheWay'
  <2>1. OnTheWayOf(m)'
    BY <1>3 DEF OnTheWayOf
  <2>2. m \in Sender /\ \A n \in Node : relay'[n] = relay[n]
    BY <1>1 DEF Sender
  <2>3. QED BY <1>3, <1>4, <2>1, <2>2, OthersOnTheWay
<1>6. ASSUME ~linkFailed' PROVE Served'
  <2>1. Served /\ \A h \in Neighbours[Src[m]] : Reached(h, <<m, frag[m]>>)
    <3>1. Served /\ Neighbours[Src[m]] \subseteq heard[m]
      BY <1>1, <1>6 DEF FloodInv
    <3>2. \A h \in heard[m] : Reached(h, <<m, frag[m]>>)
      BY DEF FloodInv, OnTheWay, OnTheWayOf, InHand, Sender
    <3>3. QED BY <3>1, <3>2
  <2>2. Neighbours[Src[m]] \subseteq Node
    BY SenderAssumption, LinkAssumption
  <2>3. ASSUME NEW k \in Message, NEW i \in Nat,
               i < frag'[k] \/ (pc'[k] = "done" /\ i \in Index(k))
        PROVE  \A h \in Neighbours[Src[k]] : Reached(h, <<k, i>>)
    <3>1. CASE k # m
      BY <1>4, <2>1, <2>3, <3>1 DEF Served
    <3>2. CASE k = m
      <4>1. frag[m] \in Nat /\ Size[m] \in Nat
        BY SizeAssumption DEF IInv, TypeInv, TypeOK
      <4>2. i <= frag[m]
        <5>1. CASE frag' = [frag EXCEPT ![m] = frag[m] + 1] /\ pc' = pc
          <6>1. frag'[m] = frag[m] + 1 /\ pc'[m] # "done"
            BY <1>1, <5>1 DEF IInv, TypeInv, TypeOK
          <6>2. QED BY <2>3, <3>2, <4>1, <6>1
        <5>2. CASE frag' = frag /\ ~(frag[m] + 1 < Size[m])
          BY <2>3, <3>2, <4>1, <5>2 DEF Index
        <5>3. QED BY <1>2, <5>1, <5>2
      <4>3. i < frag[m] \/ i = frag[m]
        BY <4>1, <4>2
      <4>4. QED BY <2>1, <3>2, <4>3 DEF Served
    <3>3. QED BY <3>1, <3>2
  <2>4. ASSUME NEW k \in Message, NEW i \in Nat,
               i < frag'[k] \/ (pc'[k] = "done" /\ i \in Index(k))
        PROVE  \A h \in Neighbours[Src[k]] : Reached(h, <<k, i>>)'
    BY <2>3, <2>4, StaysReached, SenderAssumption, LinkAssumption
  <2>5. ASSUME NEW n \in Node, NEW c \in taken[n], relay[n].on => relay[n].pkt.chunk # c
        PROVE  \A h \in Neighbours[n] : Reached(h, c)'
    BY <2>1, <2>5, StaysReached, LinkAssumption DEF Served
  <2>6. QED BY <1>1, <2>4, <2>5 DEF Served
<1>7. QED BY <1>5, <1>6 DEF FloodInv

LEMMA TakeReach ==
    ASSUME IInv, FloodInv, Next, NEW n \in Node, NEW p, TakeFragment(n, p)
    PROVE  FloodInv'
<1>1. /\ ~relay[n].on /\ UNCHANGED <<pc, frag, heard, linkFailed>>
      /\ relay' = [relay EXCEPT ![n] = [on |-> TRUE, pkt |-> p, tries |-> 0]]
      /\ taken' = [taken EXCEPT ![n] = @ \cup {p.chunk}]
  BY DEF TakeFragment, Received, threadVars
<1>2. /\ relay'[n].on /\ relay'[n].pkt.chunk = p.chunk /\ taken'[n] = taken[n] \cup {p.chunk}
      /\ \A k \in Node \ {n} : relay'[k] = relay[k] /\ taken'[k] = taken[k]
  BY <1>1 DEF IInv, TypeInv, TypeOK
<1>3. \A s \in Sender : heard[s] \subseteq Node
  BY DEF IInv, TypeInv, TypeOK
<1>4. n \in Sender /\ n \notin Message
  BY ThreadAssumption DEF Sender
<1>5. OnTheWay'
  <2>1. heard[n] = {}
    BY <1>1, <1>4 DEF FloodInv, OnTheWay, OnTheWayOf, Sends
  <2>2. OnTheWayOf(n)'
    BY <1>1, <2>1 DEF OnTheWayOf
  <2>3. QED BY <1>1, <1>2, <1>4, <2>2, OthersOnTheWay
<1>6. ASSUME Served PROVE Served'
  <2>1. ASSUME NEW m \in Message, NEW i \in Nat,
               i < frag[m] \/ (pc[m] = "done" /\ i \in Index(m))
        PROVE  \A h \in Neighbours[Src[m]] : Reached(h, <<m, i>>)'
    BY <1>6, <2>1, StaysReached, SenderAssumption, LinkAssumption DEF Served
  <2>2. ASSUME NEW k \in Node, NEW c \in taken'[k], relay'[k].on => relay'[k].pkt.chunk # c
        PROVE  \A h \in Neighbours[k] : Reached(h, c)'
    <3>1. c \in taken[k] /\ (relay[k].on => relay[k].pkt.chunk # c)
      BY <1>1, <1>2, <2>2
    <3>2. QED BY <1>6, <3>1, StaysReached, LinkAssumption DEF Served
  <2>3. QED BY <1>1, <2>1, <2>2 DEF Served
<1>7. QED BY <1>1, <1>5, <1>6 DEF FloodInv

LEMMA DropReach ==
    ASSUME IInv, FloodInv, Next, NEW n \in Node, NEW p, DropFragment(n, p)
    PROVE  FloodInv'
<1>1. UNCHANGED <<pc, frag, heard, linkFailed, relay, taken>>
  BY DEF DropFragment, threadVars, loopVars
<1>2. OnTheWay'
  <2> SUFFICES ASSUME NEW s \in Sender PROVE OnTheWayOf(s)'
    BY DEF OnTheWay, Sender
  <2>1. Sends(s)' = Sends(s) /\ InHand(s)' = InHand(s)
    BY <1>1 DEF Sends, InHand
  <2>2. QED BY <1>1, <2>1, StaysOnTheWay
<1>3. Served => Served'
  BY <1>1, StaysReached, LinkAssumption, SenderAssumption DEF Served
<1>4. QED BY <1>1, <1>2, <1>3 DEF FloodInv

LEMMA RelayReach ==
    ASSUME IInv, FloodInv, Next, NEW n \in Node,
           NEW hearers \in SUBSET Neighbours[n], RelayCopy(n, hearers)
    PROVE  FloodInv'
<1>1. /\ relay[n].on /\ Emit(n, relay[n].pkt, hearers)
      /\ relay' = [relay EXCEPT ![n].tries = @ + 1]
      /\ UNCHANGED <<pc, frag, taken, linkFailed>>
  BY DEF RelayCopy, threadVars
<1>2. \A k \in Node : relay'[k].on = relay[k].on /\ relay'[k].pkt = relay[k].pkt
  BY <1>1 DEF IInv, TypeInv, TypeOK
<1>3. n \in Sender /\ n \notin Message
  BY ThreadAssumption DEF Sender
<1>4. relay[n].pkt.chunk = InHand(n) /\ Sends(n)' /\ InHand(n)' = InHand(n)
  BY <1>1, <1>2, <1>3 DEF InHand, Sends
<1>5. OnTheWayOf(n)'
  BY <1>1, <1>3, <1>4, CopyOnTheWay
<1>6. OnTheWay'
  <2>1. \A k \in Sender \ {n} : heard'[k] = heard[k]
    BY <1>1 DEF Emit, IInv, TypeInv, TypeOK
  <2>2. \A k \in Node \ {n} : relay'[k] = relay[k]
    BY <1>1 DEF IInv, TypeInv, TypeOK
  <2>3. QED BY <1>1, <1>3, <1>5, <2>1, <2>2, OthersOnTheWay
<1>7. Served => Served'
  BY <1>1, <1>2, StaysReached, LinkAssumption, SenderAssumption DEF Served
<1>8. QED BY <1>1, <1>6, <1>7 DEF FloodInv

LEMMA StoreReach ==
    ASSUME IInv, FloodInv, Next, NEW n \in Node, StoreFragment(n)
    PROVE  FloodInv'
<1>1. /\ relay[n].on /\ UNCHANGED <<pc, frag, taken>>
      /\ relay' = [relay EXCEPT ![n] = NoRelay]
      /\ linkFailed' = (linkFailed \/ ~(Neighbours[n] \subseteq heard[n]))
      /\ heard' = [heard EXCEPT ![n] = {}]
  BY DEF StoreFragment, threadVars
<1>2. \A k \in Node \ {n} : relay'[k] = relay[k]
  BY <1>1 DEF IInv, TypeInv, TypeOK
<1>3. /\ heard'[n] = {}
      /\ \A s \in Sender \ {n} : heard'[s] = heard[s]
      /\ \A s \in Sender : heard[s] \subseteq Node
  BY <1>1 DEF IInv, TypeInv, TypeOK, Sender
<1>4. n \in Sender /\ n \notin Message
  BY ThreadAssumption DEF Sender
<1>5. OnTheWay'
  <2>1. OnTheWayOf(n)'
    BY <1>3 DEF OnTheWayOf
  <2>2. QED BY <1>1, <1>2, <1>3, <1>4, <2>1, OthersOnTheWay
<1>6. ASSUME ~linkFailed' PROVE Served'
  <2>1. Served /\ \A h \in Neighbours[n] : Reached(h, relay[n].pkt.chunk)
    <3>1. Served /\ Neighbours[n] \subseteq heard[n]
      BY <1>1, <1>6 DEF FloodInv
    <3>2. \A h \in heard[n] : Reached(h, relay[n].pkt.chunk)
      BY <1>4 DEF FloodInv, OnTheWay, OnTheWayOf, InHand
    <3>3. QED BY <3>1, <3>2
  <2>2. ASSUME NEW m \in Message, NEW i \in Nat,
               i < frag[m] \/ (pc[m] = "done" /\ i \in Index(m))
        PROVE  \A h \in Neighbours[Src[m]] : Reached(h, <<m, i>>)'
    BY <2>1, <2>2, StaysReached, SenderAssumption, LinkAssumption DEF Served
  <2>3. ASSUME NEW k \in Node, NEW c \in taken[k], relay'[k].on => relay'[k].pkt.chunk # c
        PROVE  \A h \in Neighbours[k] : Reached(h, c)'
    <3>1. \A h \in Neighbours[k] : Reached(h, c)
      <4>1. CASE k = n /\ relay[n].pkt.chunk = c
        BY <2>1, <4>1
      <4>2. CASE k = n /\ relay[n].pkt.chunk # c
        BY <2>1, <2>3, <4>2 DEF Served
      <4>3. CASE k # n
        BY <1>2, <2>1, <2>3, <4>3 DEF Served
      <4>4. QED BY <4>1, <4>2, <4>3
    <3>2. QED BY <3>1, StaysReached, LinkAssumption
  <2>4. QED BY <1>1, <2>2, <2>3 DEF Served
<1>7. QED BY <1>5, <1>6 DEF FloodInv

LEMMA FloodStep ==
    ASSUME IInv, FloodInv, [Next]_vars
    PROVE  FloodInv'
<1>1. CASE UNCHANGED vars
  <2>1. UNCHANGED <<pc, frag, heard, linkFailed, relay, taken, air>>
    BY <1>1 DEF vars, threadVars, loopVars
  <2>2. OnTheWay => OnTheWay'
    BY <2>1 DEF OnTheWay, OnTheWayOf, Sends, InHand, Reached
  <2>3. \A n, c : Reached(n, c) => Reached(n, c)'
    BY <2>1 DEF Reached
  <2>4. Served => Served'
    BY <2>1, <2>3 DEF Served
  <2>5. QED BY <2>1, <2>2, <2>4 DEF FloodInv
<1>2. CASE Next
  <2>1. ASSUME NEW m \in Message, SendMessage(m) \/ Thread(m)
        PROVE  FloodInv'
    BY <1>2, <2>1, SendMessageReach, SendCopyReach, NextFragmentReach DEF Thread
  <2>2. ASSUME NEW n \in Node, MainLoop(n)
        PROVE  FloodInv'
    BY <1>2, <2>2, TakeReach, DropReach, RelayReach, StoreReach DEF MainLoop
  <2>3. QED BY <1>2, <2>1, <2>2 DEF Next
<1>3. QED BY <1>1, <1>2

(* In the end: from the neighbours of its source a fragment has gone to    *)
(* the neighbours of everyone who has it, so to every node; and no         *)
(* fragment waits any more to be stored.                                   *)
LEMMA QuietIsWhole ==
    ASSUME Connected, IInv, FloodInv
    PROVE  NobodyLeftOut
<1> SUFFICES ASSUME Quiet, ~linkFailed, NEW m \in Message, pc[m] = "done", NEW n \in Node
             PROVE  Shows(n, m)
  BY DEF NobodyLeftOut
<1>1. Served /\ air = {} /\ \A k \in Node : ~relay[k].on
  BY DEF FloodInv, Quiet
<1>2. ASSUME NEW i \in Index(m)
      PROVE  \A k \in Node : <<m, i>> \in taken[k]
  <2> DEFINE S == {k \in Node : <<m, i>> \in taken[k]}
  <2>1. i \in Nat
    BY SizeAssumption DEF Index
  <2>2. \A h \in Neighbours[Src[m]] : <<m, i>> \in taken[h]
    BY <1>1, <2>1 DEF Served, Reached
  <2>3. S # {}
    BY <2>2, SenderAssumption, LinkAssumption DEF Connected
  <2>4. ASSUME NEW k \in S PROVE Neighbours[k] \subseteq S
    <3>1. \A h \in Neighbours[k] : <<m, i>> \in taken[h]
      BY <1>1 DEF Served, Reached
    <3>2. QED BY <3>1, LinkAssumption
  <2>5. S \in SUBSET Node
    OBVIOUS
  <2> HIDE DEF S
  <2>6. S = Node
    BY <2>3, <2>4, <2>5 DEF Connected
  <2>7. QED BY <2>6 DEF S
<1>3. StoredOf(n, m) = Index(m)
  BY <1>1, <1>2 DEF StoredOf
<1>4. Sent(m)
  BY DEF Sent
<1>5. QED BY <1>3, <1>4 DEF IInv, Buffered, BufferedOf

(* When a flood has died out, nobody has been left out: every node shows   *)
(* every message whose thread is done, on any connected network, unless a  *)
(* node in range missed all the copies of a fragment.                      *)
THEOREM FloodReachesAll ==
    ASSUME OneSource, Connected
    PROVE  Spec /\ []FewMessages => []NobodyLeftOut
<1>1. FloodInv /\ IInv /\ [Next]_vars => FloodInv'
  BY FloodStep
<1>2. IInv /\ FloodInv => NobodyLeftOut
  BY QuietIsWhole
<1>3. QED BY <1>1, <1>2, InvHolds, FloodInit, PTL DEF Spec

=============================================================================
