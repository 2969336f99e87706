----------------------------- MODULE Transport -----------------------------
(***************************************************************************)
(* The unicast path of the transport layer (src/src/backend/transport):    *)
(* TransportManager::sendMessage and its detached wait_to_send thread,     *)
(* StopAndWaitSender, StopAndWaitReceiver, the relay of data and acks, and *)
(* the lambda of main.cpp that puts a packet on the radio, on every node   *)
(* at once.  Broadcasts (dest_address 0) are module Flooding.              *)
(*                                                                         *)
(* Threads.  Each message is sent by a thread of its own; the threads of a *)
(* node share one StopAndWaitSender (current, ackReceived).  Each packet   *)
(* is put on the radio by one more detached thread (out).  The main loop   *)
(* of a node handles one received packet at a time (ReceiveData,           *)
(* ReceiveAck).  Routing changes under all of them (RouteChange).          *)
(*                                                                         *)
(* The routing table has a row for every address from the start            *)
(* (init_internal_table), so the "no route" early returns cannot be taken. *)
(* Addresses are the node identities: they are settled and distinct.       *)
(***************************************************************************)
EXTENDS Naturals, Sequences, Reassembler

CONSTANTS Node,
          Src, Dst,      \* the sender and the addressee of each message
          Neighbours,    \* Neighbours[n]: the nodes in radio range of n
          Tables,        \* Tables[n]: the tables routing may leave n with
          NoHop,         \* next hop 0, the address of no node
          MAX_RETRIES,   \* attempts per fragment (7)
          MSG_IDS,       \* values of the uint8_t next_msg_id (256)
          Garbage,       \* values of the uninitialized current_* fields
          OVERLAP,       \* may a message be sent while another is under way?
          MAX_MESSAGES   \* bound: ids a node hands out

Row   == [next_hop : Node \cup {NoHop}, reachable : BOOLEAN]
Table == [Node -> Row]

ASSUME RoleAssumption ==
    /\ Src \in [Message -> Node]
    /\ Dst \in [Message -> Node]
(* Table: what myRoutingTable tells this layer; init_internal_table starts  *)
(* with no reachable row.                                                  *)
ASSUME RadioAssumption ==
    /\ Neighbours \in [Node -> SUBSET Node]
    /\ Tables \in [Node -> SUBSET Table]
    /\ NoHop \notin Node
ASSUME BoundAssumption ==
    /\ MAX_RETRIES \in Nat \ {0}
    /\ MSG_IDS \in Nat \ {0}
    /\ MAX_MESSAGES \in Nat
    /\ OVERLAP \in BOOLEAN
    /\ Garbage \subseteq [id : 0 .. MSG_IDS - 1, frag : Nat]

VARIABLES
  \* TransportManager
  next_msg_id,   \* next_msg_id[n]
  \* the thread of message m: program counter and locals
  pc, msg_id, frag, hop, attempts,
  \* StopAndWaitSender of node n, shared by the threads of n
  current,       \* current_msg_id and current_fragment_id
  ackReceived,
  \* StopAndWaitReceiver of node n
  buffers,       \* Reassembler::buffers
  inbox,         \* the private messages pushed on Message_Queue::msg_queue
  \* routing of node n
  route,         \* myRoutingTable
  paused,        \* the nodes whose pause_flag is set
  \* the radio
  out,           \* packets whose send thread has not transmitted yet
  air,           \* copies on their way to a node
  \* history
  accepted,      \* fragments the addressee has passed to its Reassembler
  reported,      \* fragments the sender has logged as [DELIVERED]
  gaveUp         \* fragments the sender has logged as [FAIL]

senderVars   == <<next_msg_id, pc, msg_id, frag, hop, attempts, current,
                  reported, gaveUp>>
receiverVars == <<buffers, inbox, accepted>>
vars == <<senderVars, receiverVars, ackReceived, route, paused, out, air>>

Packet == [type : {"data", "ack"}, src : Node, hop : Node \cup {NoHop},
           dst : Node, id : WireId, frag : Nat, mf : BOOLEAN,
           chunk : Chunk,              \* an ack has no payload: history only
           try : 0 .. MAX_RETRIES - 1] \* tells retransmissions apart: history
Copy   == [to : Node, pkt : Packet]

PC == {"unsent", "route", "id", "frag", "arm", "send", "wait", "done"}

----------------------------------------------------------------------------
(* The header Fragmenter builds and sendWithRetry completes.  message_id   *)
(* loses its upper bits in the 3-bit field of build_header.                *)
DataPacket(m) ==
    [type |-> "data", src |-> Src[m], hop |-> hop[m], dst |-> Dst[m],
     id |-> msg_id[m] % WIRE_IDS, frag |-> frag[m],
     mf |-> MoreFragments(m, frag[m]), chunk |-> <<m, frag[m]>>,
     try |-> attempts[m]]

AckPacket(n, p) ==
    [type |-> "ack", src |-> n, hop |-> route[n][p.src].next_hop,
     dst |-> p.src, id |-> p.id, frag |-> p.frag, mf |-> FALSE,
     chunk |-> p.chunk, try |-> p.try]

(* prepare_header_to_forward: only the next hop changes; there is no hop   *)
(* count.                                                                  *)
Forwarded(n, p) == [p EXCEPT !.hop = route[n][p.dst].next_hop]

(* A thread sf(sendFunc, p) is spawned on node n and detached.             *)
Spawned(n, p) == [out EXCEPT ![n] = @ \cup {p}]

Live(m) == pc[m] \notin {"unsent", "done"}
Idle(n) == \A m \in Message : Src[m] = n => ~Live(m)

----------------------------------------------------------------------------
Init ==
    /\ next_msg_id = [n \in Node |-> 0]
    /\ pc = [m \in Message |-> "unsent"]
    /\ msg_id = [m \in Message |-> 0]
    /\ frag = [m \in Message |-> 0]
    /\ hop = [m \in Message |-> NoHop]
    /\ attempts = [m \in Message |-> 0]
    /\ current \in [Node -> Garbage]
    /\ ackReceived = [n \in Node |-> FALSE]
    /\ buffers = [n \in Node |-> [w \in WireId |-> EmptySet]]
    /\ inbox = [n \in Node |-> <<>>]
    /\ route = [n \in Node |->
                  [d \in Node |-> [next_hop |-> NoHop, reachable |-> FALSE]]]
    /\ paused = {}
    /\ out = [n \in Node |-> {}]
    /\ air = {}
    /\ accepted = {} /\ reported = {} /\ gaveUp = {}

BugIdKept(m) ==
    /\ pc[m] = "unsent"
    /\ OVERLAP \/ Idle(Src[m])
    /\ msg_id' = [msg_id EXCEPT ![m] = next_msg_id[Src[m]]]
    /\ pc' = [pc EXCEPT ![m] = "route"]
    /\ UNCHANGED <<next_msg_id, frag, hop, attempts, current, reported, gaveUp,
                   receiverVars, ackReceived, route, paused, out, air>>

(* The user sends m: TransportManager::sendMessage.                        *)
SendMessage(m) ==
    LET n == Src[m] IN
    /\ pc[m] = "unsent"
    /\ next_msg_id[n] < MAX_MESSAGES
    /\ OVERLAP \/ Idle(n)
    /\ msg_id' = [msg_id EXCEPT ![m] = next_msg_id[n]]
    /\ next_msg_id' = [next_msg_id EXCEPT ![n] = (@ + 1) % MSG_IDS]
    /\ pc' = [pc EXCEPT ![m] = "route"]
    /\ UNCHANGED <<frag, hop, attempts, current, reported, gaveUp,
                   receiverVars, ackReceived, route, paused, out, air>>

(* wait_to_send leaves its polling loop and fragments m; the next hop it   *)
(* read is overwritten by sendWithRetry.                                   *)
RouteFound(m) ==
    /\ pc[m] = "route"
    /\ route[Src[m]][Dst[m]].reachable
    /\ pc' = [pc EXCEPT ![m] = "id"]
    /\ UNCHANGED <<next_msg_id, msg_id, frag, hop, attempts, current,
                   reported, gaveUp, receiverVars, ackReceived, route,
                   paused, out, air>>

SetMessageId(m) ==
    /\ pc[m] = "id"
    /\ current' = [current EXCEPT ![Src[m]].id = msg_id[m]]
    /\ pc' = [pc EXCEPT ![m] = "frag"]
    /\ UNCHANGED <<next_msg_id, msg_id, frag, hop, attempts, reported,
                   gaveUp, receiverVars, ackReceived, route, paused, out, air>>

BugFragmentIdKept(m) ==
    /\ pc[m] = "frag"
    /\ hop' = [hop EXCEPT ![m] = route[Src[m]][Dst[m]].next_hop]
    /\ attempts' = [attempts EXCEPT ![m] = 0]
    /\ paused' = paused \cup {Src[m]}
    /\ pc' = [pc EXCEPT ![m] = "arm"]
    /\ UNCHANGED <<next_msg_id, msg_id, frag, current, reported, gaveUp,
                   receiverVars, ackReceived, route, out, air>>

(* ... and sendWithRetry begins: it pauses routing and reads the next hop, *)
(* once for all the attempts.                                              *)
SetFragmentId(m) ==
    /\ pc[m] = "frag"
    /\ current' = [current EXCEPT ![Src[m]].frag = frag[m]]
    /\ hop' = [hop EXCEPT ![m] = route[Src[m]][Dst[m]].next_hop]
    /\ attempts' = [attempts EXCEPT ![m] = 0]
    /\ paused' = paused \cup {Src[m]}
    /\ pc' = [pc EXCEPT ![m] = "arm"]
    /\ UNCHANGED <<next_msg_id, msg_id, frag, reported, gaveUp,
                   receiverVars, ackReceived, route, out, air>>

BugNotArmed(m) ==
    /\ pc[m] = "arm"
    /\ pc' = [pc EXCEPT ![m] = "send"]
    /\ UNCHANGED <<next_msg_id, msg_id, frag, hop, attempts, current,
                   reported, gaveUp, receiverVars, ackReceived, route,
                   paused, out, air>>

(* ackReceived = false, under the lock.                                    *)
Arm(m) ==
    /\ pc[m] = "arm"
    /\ ackReceived' = [ackReceived EXCEPT ![Src[m]] = FALSE]
    /\ pc' = [pc EXCEPT ![m] = "send"]
    /\ UNCHANGED <<next_msg_id, msg_id, frag, hop, attempts, current,
                   reported, gaveUp, receiverVars, route, paused, out, air>>

(* One attempt: the packet is handed to a send thread.                     *)
SendAttempt(m) ==
    /\ pc[m] = "send"
    /\ out' = Spawned(Src[m], DataPacket(m))
    /\ pc' = [pc EXCEPT ![m] = "wait"]
    /\ UNCHANGED <<next_msg_id, msg_id, frag, hop, attempts, current,
                   reported, gaveUp, receiverVars, ackReceived, route,
                   paused, air>>

(* sendWithRetry returns, whatever its outcome, and the loop of            *)
(* sendFragments goes on with the next fragment.                           *)
NextFragment(m) ==
    IF frag[m] + 1 < Size[m]
    THEN /\ frag' = [frag EXCEPT ![m] = @ + 1]
         /\ pc' = [pc EXCEPT ![m] = "id"]
    ELSE /\ pc' = [pc EXCEPT ![m] = "done"]
         /\ UNCHANGED frag

(* wait_for returns true.                                                  *)
Acked(m) ==
    /\ pc[m] = "wait"
    /\ ackReceived[Src[m]]
    /\ reported' = reported \cup {<<m, frag[m]>>}
    /\ NextFragment(m)
    /\ UNCHANGED <<next_msg_id, msg_id, hop, attempts, current, gaveUp,
                   receiverVars, ackReceived, route, paused, out, air>>

BugRetryForever(m) ==
    /\ pc[m] = "wait"
    /\ ~ackReceived[Src[m]]
    /\ pc' = [pc EXCEPT ![m] = "send"]
    /\ UNCHANGED <<next_msg_id, msg_id, frag, hop, current, reported, attempts,
                   gaveUp, receiverVars, ackReceived, route, paused, out, air>>

BugOneRetryMore(m) ==
    /\ pc[m] = "wait"
    /\ ~ackReceived[Src[m]]
    /\ attempts' = [attempts EXCEPT ![m] = @ + 1]
    /\ attempts[m] < MAX_RETRIES
    /\ pc' = [pc EXCEPT ![m] = "send"]
    /\ UNCHANGED <<next_msg_id, msg_id, frag, hop, current, reported,
                   gaveUp, receiverVars, ackReceived, route, paused, out, air>>

(* wait_for returns false after 25 s: another attempt.                     *)
TimedOut(m) ==
    /\ pc[m] = "wait"
    /\ ~ackReceived[Src[m]]
    /\ attempts[m] + 1 < MAX_RETRIES
    /\ attempts' = [attempts EXCEPT ![m] = @ + 1]
    /\ pc' = [pc EXCEPT ![m] = "send"]
    /\ UNCHANGED <<next_msg_id, msg_id, frag, hop, current, reported,
                   gaveUp, receiverVars, ackReceived, route, paused, out, air>>

(* The last wait_for returns false: give up on the fragment, resume        *)
(* routing, and go on with the next fragment all the same.                 *)
GiveUp(m) ==
    /\ pc[m] = "wait"
    /\ ~ackReceived[Src[m]]
    /\ attempts[m] + 1 = MAX_RETRIES
    /\ attempts' = [attempts EXCEPT ![m] = @ + 1]
    /\ gaveUp' = gaveUp \cup {<<m, frag[m]>>}
    /\ paused' = paused \ {Src[m]}
    /\ NextFragment(m)
    /\ UNCHANGED <<next_msg_id, msg_id, hop, current, reported,
                   receiverVars, ackReceived, route, out, air>>

(* The sendFunc lambda of main.cpp: pause routing, wait for a free channel *)
(* and transmit.  Some of the nodes in range hear the packet, the others   *)
(* lose it.                                                                *)
Transmit(n, p) ==
    /\ p \in out[n]
    /\ out' = [out EXCEPT ![n] = @ \ {p}]
    /\ \E heard \in SUBSET Neighbours[n] :
           air' = air \cup {[to |-> h, pkt |-> p] : h \in heard}
    /\ paused' = paused \cup {n}
    /\ UNCHANGED <<senderVars, receiverVars, ackReceived, route>>

----------------------------------------------------------------------------
(* The main loop of node n takes packet p.                                 *)
Received(n, p) ==
    /\ [to |-> n, pkt |-> p] \in air
    /\ air' = air \ {[to |-> n, pkt |-> p]}

BugForwardAcks(n, p) ==
    /\ p.type = "data" /\ p.hop = n /\ p.dst # n
    /\ Received(n, p)
    /\ out' = [out EXCEPT ![n] = @ \cup {Forwarded(n, p), AckPacket(n, p)}]
    /\ paused' = paused \cup {n}
    /\ UNCHANGED <<senderVars, receiverVars, ackReceived, route>>

ForwardData(n, p) ==
    /\ p.type = "data" /\ p.hop = n /\ p.dst # n
    /\ Received(n, p)
    /\ out' = Spawned(n, Forwarded(n, p))
    /\ paused' = paused \cup {n}
    /\ UNCHANGED <<senderVars, receiverVars, ackReceived, route>>

IgnoreData(n, p) ==
    /\ p.type = "data" /\ p.hop # n /\ p.dst # n
    /\ Received(n, p)
    /\ paused' = paused \cup {n}
    /\ UNCHANGED <<senderVars, receiverVars, ackReceived, route, out>>

(* The message callback of TransportManager files the text under the       *)
(* node's own address; then that of main.cpp resumes routing.              *)
Entry(n, text) == [from |-> n, text |-> text]

(* A fragment addressed to n, whether or not n is the next hop: the ack is *)
(* spawned before the fragment is stored.                                  *)
AcceptData(n, p) ==
    /\ p.type = "data" /\ p.dst = n
    /\ Received(n, p)
    /\ out' = Spawned(n, AckPacket(n, p))
    /\ accepted' = accepted \cup {p.chunk}
    /\ LET fs == buffers[n][p.id] IN
       /\ buffers' = [buffers EXCEPT
                        ![n][p.id] = BufferAfter(fs, p.frag, p.mf, p.chunk)]
       /\ IF Completes(fs, p.frag, p.mf, p.chunk)
          THEN /\ inbox' = [inbox EXCEPT ![n] =
                     Append(@, Entry(n, Result(fs, p.frag, p.mf, p.chunk)))]
               /\ paused' = paused \ {n}
          ELSE /\ paused' = paused \cup {n}
               /\ UNCHANGED inbox
    /\ UNCHANGED <<senderVars, ackReceived, route>>

BugAnyFragment(n, p) == p.id = current[n].id

(* handleAck compares the 3-bit id of the header with the 8-bit current id *)
(* and looks neither at the source nor at the destination of the ack.      *)
AckMatches(n, p) == p.id = current[n].id /\ p.frag = current[n].frag

(* StopAndWaitSender::handleAck, under the lock.                           *)
ReceiveAck(n, p) ==
    /\ p.type = "ack"
    /\ Received(n, p)
    /\ out' = IF p.dst # n /\ p.hop = n THEN Spawned(n, Forwarded(n, p)) ELSE out
    /\ ackReceived' = [ackReceived EXCEPT ![n] = @ \/ AckMatches(n, p)]
    /\ UNCHANGED <<senderVars, receiverVars, route, paused>>

(* A timer of pause_protocol fires.  Every pause starts one, so that one   *)
(* is pending whenever a node is paused.                                   *)
PauseTimeout(n) ==
    /\ n \in paused
    /\ paused' = paused \ {n}
    /\ UNCHANGED <<senderVars, receiverVars, ackReceived, route, out, air>>

(* The routing protocol rewrites the table.                                *)
RouteChange(n) ==
    /\ \E t \in Tables[n] : route' = [route EXCEPT ![n] = t]
    /\ UNCHANGED <<senderVars, receiverVars, ackReceived, paused, out, air>>

Thread(m) == \/ SetMessageId(m) \/ SetFragmentId(m) \/ Arm(m)
             \/ SendAttempt(m) \/ Acked(m) \/ TimedOut(m) \/ GiveUp(m)

Receive(n, p) == \/ ForwardData(n, p) \/ IgnoreData(n, p)
                 \/ AcceptData(n, p) \/ ReceiveAck(n, p)

Next == \/ \E m \in Message : SendMessage(m) \/ RouteFound(m) \/ Thread(m)
        \/ \E n \in Node : \/ \E p \in out[n] : Transmit(n, p)
                           \/ PauseTimeout(n)
                           \/ RouteChange(n)
        \/ \E c \in air : Receive(c.to, c.pkt)

Spec == Init /\ [][Next]_vars

(* The scheduler runs every thread, and wait_for returns at the latest     *)
(* after its timeout.                                                      *)
FairSpec == Spec /\ \A m \in Message : WF_vars(Thread(m))
----------------------------------------------------------------------------
(* Type invariant.                                                         *)
TypeOK ==
    /\ next_msg_id \in [Node -> 0 .. MSG_IDS - 1]
    /\ pc \in [Message -> PC]
    /\ msg_id \in [Message -> 0 .. MSG_IDS - 1]
    /\ frag \in [Message -> Nat]
    /\ \A m \in Message : frag[m] \in Index(m)
    /\ hop \in [Message -> Node \cup {NoHop}]
    /\ attempts \in [Message -> 0 .. MAX_RETRIES]
    /\ current \in [Node -> [id : 0 .. MSG_IDS - 1, frag : Nat]]
    /\ ackReceived \in [Node -> BOOLEAN]
    /\ buffers \in [Node -> [WireId -> FragmentSet]]
    /\ inbox \in [Node -> Seq([from : Node, text : Seq(Chunk \cup {NoChunk})])]
    /\ route \in [Node -> Table]
    /\ paused \subseteq Node
    /\ out \in [Node -> SUBSET Packet]
    /\ air \subseteq Copy
    /\ accepted \subseteq Chunk
    /\ reported \subseteq Chunk
    /\ gaveUp \subseteq Chunk

(* A fragment the sender logs as [DELIVERED] has been taken in by its      *)
(* addressee: the acknowledgement that ended the wait was for this         *)
(* fragment of this message, not one left over from another fragment, an   *)
(* earlier message or another node.                                        *)
DeliveredMeansAccepted == reported \subseteq accepted

HasText(m) ==
    \E k \in DOMAIN inbox[Dst[m]] : inbox[Dst[m]][k].text = Whole(m)

(* Whatever arrives late, twice or not at all, a text shown to the user is *)
(* one whole message addressed to that user: no fragment is missing, in    *)
(* the wrong place or from another message.                                *)
DeliveredWhole ==
    \A n \in Node : \A k \in DOMAIN inbox[n] :
        \E m \in Message : Dst[m] = n /\ inbox[n][k].text = Whole(m)

(* When the sender has logged every fragment of a message as [DELIVERED],  *)
(* the addressee's user has the text.                                      *)
EndToEnd ==
    \A m \in Message :
        (\A i \in Index(m) : <<m, i>> \in reported) => HasText(m)

(* An ack that reaches the node it is addressed to while that node waits   *)
(* for it ends the wait.                                                   *)
AckEndsWait ==
    [][\A c \in air \ air' :
         (/\ c.pkt.type = "ack" /\ c.to = c.pkt.dst
          /\ \E m \in Message : /\ Src[m] = c.to /\ pc[m] = "wait"
                                /\ c.pkt.chunk = <<m, frag[m]>>)
         => ackReceived'[c.to]]_vars

(* A thread that has found a route settles all its fragments and ends,     *)
(* whatever is lost.                                                       *)
SendTerminates == \A m \in Message : (pc[m] = "id") ~> (pc[m] = "done")

(* The layer implements what it promises: see module Transfer.             *)
Promise == INSTANCE Transfer WITH delivered <- {m \in Message : HasText(m)}
PromiseKept == Promise!Spec
=============================================================================
