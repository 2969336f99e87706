------------------------------ MODULE Flooding ------------------------------
(***************************************************************************)
(* Broadcasts (dest_address 0) in the transport layer: a node sends every  *)
(* fragment TRIES times without waiting for an ack, and every node that    *)
(* hears a fragment for the first time sends it on as many times, before   *)
(* it stores it.  The unicast path is module Transport.                    *)
(*                                                                         *)
(* Threads.  Each message is sent by a thread of its own.  The main loop   *)
(* of a node forwards a fragment itself and waits for it (bc.join), so     *)
(* that it takes no other packet meanwhile.                                *)
(*                                                                         *)
(* The send thread of each copy, which waits for a free line, and the      *)
(* queue of the addressee are one delay of any length (air).  Equal copies *)
(* under way to one node are one: the others change nothing when they are  *)
(* taken.                                                                  *)
(***************************************************************************)
EXTENDS Naturals, Sequences, Reassembler

CONSTANTS Node,
          Src,         \* the node that sends each message
          Neighbours,  \* Neighbours[n]: the nodes in radio range of n
          TRIES,       \* copies of a fragment (MAX_BCAST_TRIES - 1)
          MSG_IDS      \* values of the uint8_t next_msg_id (256)

ASSUME SenderAssumption == Src \in [Message -> Node]
ASSUME LinkAssumption   == Neighbours \in [Node -> SUBSET Node]
ASSUME ThreadAssumption == Message \cap Node = {}   \* a thread each
ASSUME TriesAssumption  == TRIES \in Nat \ {0} /\ MSG_IDS \in Nat \ {0}

VARIABLES
  next_msg_id,     \* TransportManager of each node
  pc, msg_id,      \* the sending thread of each message
  frag, tries,
  seenBroadcasts,  \* StopAndWaitReceiver of each node
  relay,           \* the fragment its main loop is sending on
  buffers,         \* Reassembler::buffers
  shown,           \* texts passed to receiveGlobalMessage
  air,             \* copies on their way to a node
  \* history
  heard,           \* who has heard the fragment a thread is sending
  linkFailed,      \* has a node in range missed all copies of a fragment?
  taken            \* fragments each node has taken in

threadVars == <<next_msg_id, pc, msg_id, frag, tries>>
loopVars   == <<seenBroadcasts, relay, buffers, shown, taken>>
vars       == <<threadVars, loopVars, air, heard, linkFailed>>

Packet == [id : WireId, frag : Nat, mf : BOOLEAN, chunk : Chunk]
Copy   == [to : Node, pkt : Packet]
Id     == WireId \X Nat

NoPacket == [id |-> 0, frag |-> 0, mf |-> FALSE, chunk |-> NoChunk]
NoRelay  == [on |-> FALSE, pkt |-> NoPacket, tries |-> 0]

(* The thread that sends fragments: of a message, or of a main loop.       *)
Sender == Message \cup Node
PacketOf(m) == [id |-> msg_id[m] % WIRE_IDS, frag |-> frag[m],
                mf |-> MoreFragments(m, frag[m]), chunk |-> <<m, frag[m]>>]

----------------------------------------------------------------------------
Init ==
    /\ next_msg_id = [n \in Node |-> 0]
    /\ pc = [m \in Message |-> "unsent"]
    /\ msg_id = [m \in Message |-> 0]
    /\ frag = [m \in Message |-> 0]
    /\ tries = [m \in Message |-> 0]
    /\ seenBroadcasts = [n \in Node |-> {}]
    /\ relay = [n \in Node |-> NoRelay]
    /\ buffers = [n \in Node |-> [w \in WireId |-> EmptySet]]
    /\ shown = [n \in Node |-> <<>>]
    /\ air = {}
    /\ heard = [s \in Sender |-> {}]
    /\ linkFailed = FALSE
    /\ taken = [n \in Node |-> {}]

BugIdKept(m) ==
    /\ pc[m] = "unsent"
    /\ msg_id' = [msg_id EXCEPT ![m] = next_msg_id[Src[m]]]
    /\ pc' = [pc EXCEPT ![m] = "send"]
    /\ UNCHANGED <<next_msg_id, frag, tries, loopVars, air, heard, linkFailed>>

(* The user sends m: TransportManager::sendMessage, without a route.       *)
SendMessage(m) ==
    LET n == Src[m] IN
    /\ pc[m] = "unsent"
    /\ msg_id' = [msg_id EXCEPT ![m] = next_msg_id[n]]
    /\ next_msg_id' = [next_msg_id EXCEPT ![n] = (@ + 1) % MSG_IDS]
    /\ pc' = [pc EXCEPT ![m] = "send"]
    /\ UNCHANGED <<frag, tries, loopVars, air, heard, linkFailed>>

(* Thread s sends a copy of p; the nodes of hearers hear it.               *)
Emit(s, p, hearers) ==
    /\ air' = air \cup {[to |-> h, pkt |-> p] : h \in hearers}
    /\ heard' = [heard EXCEPT ![s] = @ \cup hearers]

(* The loop of StopAndWaitSender::sendBroadcast.                           *)
SendCopy(m, hearers) ==
    /\ pc[m] = "send"
    /\ tries[m] < TRIES
    /\ Emit(m, PacketOf(m), hearers)
    /\ tries' = [tries EXCEPT ![m] = @ + 1]
    /\ UNCHANGED <<next_msg_id, pc, msg_id, frag, loopVars, linkFailed>>

(* bc.join: only then the next fragment of sendFragments.                  *)
NextFragment(m) ==
    /\ pc[m] = "send"
    /\ tries[m] = TRIES
    /\ linkFailed' = (linkFailed \/ ~(Neighbours[Src[m]] \subseteq heard[m]))
    /\ heard' = [heard EXCEPT ![m] = {}]
    /\ IF frag[m] + 1 < Size[m]
       THEN /\ frag' = [frag EXCEPT ![m] = @ + 1]
            /\ tries' = [tries EXCEPT ![m] = 0]
            /\ UNCHANGED pc
       ELSE /\ pc' = [pc EXCEPT ![m] = "done"]
            /\ UNCHANGED <<frag, tries>>
    /\ UNCHANGED <<next_msg_id, msg_id, loopVars, air>>

----------------------------------------------------------------------------
(* The main loop of node n takes packet p: onPacketReceived.               *)
Received(n, p) ==
    /\ ~relay[n].on
    /\ [to |-> n, pkt |-> p] \in air
    /\ air' = air \ {[to |-> n, pkt |-> p]}

SeenId(p) == <<p.id, p.frag>>

BugSeenKept(n, p) == seenBroadcasts[n]
SeenAfter(n, p)   == seenBroadcasts[n] \cup {SeenId(p)}

(* A fragment that was never seen is sent on ...                           *)
TakeFragment(n, p) ==
    /\ Received(n, p)
    /\ SeenId(p) \notin seenBroadcasts[n]
    /\ seenBroadcasts' = [seenBroadcasts EXCEPT ![n] = SeenAfter(n, p)]
    /\ relay' = [relay EXCEPT ![n] = [on |-> TRUE, pkt |-> p, tries |-> 0]]
    /\ taken' = [taken EXCEPT ![n] = @ \cup {p.chunk}]
    /\ UNCHANGED <<threadVars, buffers, shown, heard, linkFailed>>

(* ... and any other is ignored.                                           *)
DropFragment(n, p) ==
    /\ Received(n, p)
    /\ SeenId(p) \in seenBroadcasts[n]
    /\ UNCHANGED <<threadVars, loopVars, heard, linkFailed>>

BugNotCounted(n, hearers) ==
    /\ relay[n].on
    /\ relay[n].tries < TRIES
    /\ Emit(n, relay[n].pkt, hearers)
    /\ UNCHANGED <<threadVars, seenBroadcasts, relay, buffers, shown, linkFailed, taken>>

BugOneCopyMore(n, hearers) ==
    /\ relay[n].on
    /\ relay[n].tries <= TRIES
    /\ Emit(n, relay[n].pkt, hearers)
    /\ relay' = [relay EXCEPT ![n].tries = @ + 1]
    /\ UNCHANGED <<threadVars, seenBroadcasts, buffers, shown, linkFailed, taken>>

(* The loop of StopAndWaitReceiver::sendBroadcast.                         *)
RelayCopy(n, hearers) ==
    /\ relay[n].on
    /\ relay[n].tries < TRIES
    /\ Emit(n, relay[n].pkt, hearers)
    /\ relay' = [relay EXCEPT ![n].tries = @ + 1]
    /\ UNCHANGED <<threadVars, seenBroadcasts, buffers, shown, linkFailed, taken>>

(* bc.join: only then the fragment is stored, and a complete text shown.   *)
StoreFragment(n) ==
    /\ relay[n].on
    /\ relay[n].tries = TRIES
    /\ relay' = [relay EXCEPT ![n] = NoRelay]
    /\ linkFailed' = (linkFailed \/ ~(Neighbours[n] \subseteq heard[n]))
    /\ heard' = [heard EXCEPT ![n] = {}]
    /\ LET p  == relay[n].pkt
           fs == buffers[n][p.id]
       IN /\ buffers' = [buffers EXCEPT
                           ![n][p.id] = BufferAfter(fs, p.frag, p.mf, p.chunk)]
          /\ shown' = IF Completes(fs, p.frag, p.mf, p.chunk)
                      THEN [shown EXCEPT ![n] =
                              Append(@, Result(fs, p.frag, p.mf, p.chunk))]
                      ELSE shown
    /\ UNCHANGED <<threadVars, seenBroadcasts, air, taken>>

Thread(m) == \/ \E hearers \in SUBSET Neighbours[Src[m]] : SendCopy(m, hearers)
             \/ NextFragment(m)
MainLoop(n) == \/ \E c \in air : /\ c.to = n
                                 /\ TakeFragment(n, c.pkt) \/ DropFragment(n, c.pkt)
               \/ \E hearers \in SUBSET Neighbours[n] : RelayCopy(n, hearers)
               \/ StoreFragment(n)

Next == \/ \E m \in Message : SendMessage(m) \/ Thread(m)
        \/ \E n \in Node : MainLoop(n)

Spec == Init /\ [][Next]_vars

(* The threads run and sleep for a bounded time; the main loop waits only  *)
(* for packets.                                                            *)
FairSpec == /\ Spec
            /\ \A m \in Message : WF_vars(Thread(m))
            /\ \A n \in Node : WF_vars(MainLoop(n))

----------------------------------------------------------------------------
(* Type invariant.                                                         *)
TypeOK ==
    /\ next_msg_id \in [Node -> 0 .. MSG_IDS - 1]
    /\ pc \in [Message -> {"unsent", "send", "done"}]
    /\ msg_id \in [Message -> 0 .. MSG_IDS - 1]
    /\ frag \in [Message -> Nat] /\ \A m \in Message : frag[m] \in Index(m)
    /\ tries \in [Message -> 0 .. TRIES]
    /\ seenBroadcasts \in [Node -> SUBSET Id]
    /\ relay \in [Node -> [on : BOOLEAN, pkt : Packet \cup {NoPacket}, tries : 0 .. TRIES]]
    /\ buffers \in [Node -> [WireId -> FragmentSet]]
    /\ shown \in [Node -> Seq(Seq(Chunk \cup {NoChunk}))]
    /\ air \subseteq Copy
    /\ heard \in [Sender -> SUBSET Node]
    /\ linkFailed \in BOOLEAN
    /\ taken \in [Node -> SUBSET Chunk]

(* "already seen message": what a node ignores it has taken in before, so  *)
(* that ending the flood costs no one a fragment.                          *)
DroppedIsSeen ==
    [][\A c \in air \ air' : c.pkt.chunk \in taken'[c.to]]_vars

(* Whatever copies are lost, delayed or heard again, every node shows each *)
(* text whole and once: see module Broadcast.                              *)
MessageOf(text) == IF \E m \in Message : Whole(m) = text
                   THEN CHOOSE m \in Message : Whole(m) = text
                   ELSE text
Promise == INSTANCE Broadcast WITH
    sent  <- {m \in Message : pc[m] # "unsent"},
    shown <- [n \in Node |-> [k \in DOMAIN shown[n] |-> MessageOf(shown[n][k])]]
PromiseKept == Promise!Spec

(* "so we avoid infinte loops when broadcasting": every flood dies out.    *)
Quiet == air = {} /\ \A n \in Node : ~relay[n].on
FloodEnds == <>[]Quiet

(* When nothing is on its way any more, nobody has been left out, though   *)
(* each node sends a fragment on only once, after it has marked it as seen *)
(* and before it stores it: unless a node in range missed all the copies   *)
(* of a fragment.                                                          *)
Shows(n, m) == \E k \in DOMAIN shown[n] : shown[n][k] = Whole(m)
NobodyLeftOut ==
    Quiet /\ ~linkFailed =>
        \A m \in Message : pc[m] = "done" => \A n \in Node : Shows(n, m)

(* What it needs: every node can be reached from every other, on several   *)
(* hops, and none is alone.                                                *)
Connected ==
    /\ \A n \in Node : Neighbours[n] # {}
    /\ \A S \in SUBSET Node :
          S # {} /\ (\A n \in S : Neighbours[n] \subseteq S) => S = Node

(* Unless a node in range missed all the copies of a fragment, every node  *)
(* shows every message, the one that sent it included.                     *)
ReachesAll ==
    \A m \in Message :
        pc[m] # "unsent" ~> linkFailed \/ \A n \in Node : Shows(n, m)
=============================================================================
