----------------------------- MODULE RadioNode -----------------------------
(***************************************************************************)
(* One node on the radio channel: the threads that want to send, the queue *)
(* to the thread that writes to the socket, the server of the channel (not *)
(* part of the program), the thread that reads from the socket, the queue  *)
(* to the main loop, and the main loop, which keeps the state of the line  *)
(* the sending threads look at.                                            *)
(*                                                                         *)
(* What the packets are for is left to Transport and VectorRouting: a      *)
(* packet that is sent is known by the thread that sends it.               *)
(***************************************************************************)
EXTENDS DataReceiver, FiniteSets

CONSTANTS Sender,           \* threads that send one packet of a message
          BroadcastThread,  \* ids for the threads that broadcast the table
          MAX_BROADCASTS,   \* bound: broadcasts the tick thread asks for
          Table,            \* the packet of a broadcast thread
          Nothing,
          Heard             \* the packets others send, in order: <<[h, payload], ...>>

ASSUME RadioAssumption ==
    /\ Sender \cap BroadcastThread = {}
    /\ {Table, Nothing} \cap Sender = {} /\ Table # Nothing
    /\ MAX_BROADCASTS \in Nat
    /\ Heard \in Seq([h : Header, payload : Seq(Byte)])
    /\ \A i \in 1 .. Len(Heard) : Len(Heard[i].payload) + 4 < 256   \* it is 28 at most

VARIABLES sQueue, sNotifying, sConsumer,    \* senderQueue
          rQueue, rNotifying, rConsumer,    \* receiverQueue
          pc,                               \* of every sending thread
          starter,                          \* threads in start_broadcasting_thread
          update_broadcast_pending,
          pause_flag, timers,               \* timers: resume_protocol_to threads
          is_line_busy, is_current_node_sending,
          parser, dispatched,               \* dispatched: the packets decoded
          link, wire, transmitting, transmitted, other,
          sent, heard,                      \* packets of others: how many, and which arrive
          asked

senderQueue   == <<sQueue, sNotifying, sConsumer>>
receiverQueue == <<rQueue, rNotifying, rConsumer>>
threads  == <<pc, starter, update_broadcast_pending, asked>>
pause    == <<pause_flag, timers>>
line     == <<is_line_busy, is_current_node_sending>>
server   == <<link, wire, transmitting, transmitted, other, sent, heard>>
vars     == <<senderQueue, receiverQueue, threads, pause, line, parser, dispatched, server>>

Thread  == Sender \cup BroadcastThread
Starter == {"tick", "main"}

S == INSTANCE BlockingQueue WITH Producer <- Thread, Item <- Sender \cup {Table},
         theQueue <- sQueue, notifying <- sNotifying, consumer <- sConsumer
R == INSTANCE BlockingQueue WITH Producer <- {"receiver"}, Item <- Message,
         theQueue <- rQueue, notifying <- rNotifying, consumer <- rConsumer

(* startThread: the socket is connected, or no thread of the client runs.  *)
Init ==
    /\ S!QueueInit /\ R!QueueInit
    /\ pc = [t \in Thread |-> "none"]
    /\ starter = [c \in Starter |-> "idle"]
    /\ update_broadcast_pending = FALSE
    /\ pause_flag = FALSE /\ timers = 0
    /\ is_line_busy = FALSE /\ is_current_node_sending = FALSE
    /\ parser = Outside /\ dispatched = <<>>
    /\ link \in {"up", "down"}
    /\ wire = <<>>
    /\ transmitting = Nothing /\ transmitted = [t \in Sender |-> 0]
    /\ other = FALSE /\ sent = 0 /\ heard = <<>>
    /\ asked = 0

----------------------------------------------------------------------------
(* A thread that runs the send function of main.cpp begins: the routing    *)
(* protocol is paused, and a thread started to resume it.                  *)
BeginSend(t) ==
    /\ t \in Sender /\ pc[t] = "none"
    /\ pc' = [pc EXCEPT ![t] = "trying"]
    /\ pause_flag' = TRUE
    /\ timers' = IF pause_flag THEN timers ELSE timers + 1
    /\ UNCHANGED <<senderQueue, receiverQueue, starter, update_broadcast_pending, asked,
                   line, parser, dispatched, server>>

(* The loop of send and of broadcast_table: the line is looked at, ...     *)
BugLook(t) ==
    /\ pc[t] = "trying"
    /\ ~pause_flag /\ ~is_line_busy
    /\ pc' = [pc EXCEPT ![t] = "asleep"]
    /\ UNCHANGED <<senderQueue, receiverQueue, starter, update_broadcast_pending, asked,
                   pause, line, parser, dispatched, server>>
Look(t) ==
    /\ pc[t] = "trying"
    /\ IF t \in BroadcastThread /\ pause_flag
       THEN pc' = [pc EXCEPT ![t] = "ending"]
       ELSE ~is_line_busy /\ pc' = [pc EXCEPT ![t] = "asleep"]
    /\ UNCHANGED <<senderQueue, receiverQueue, starter, update_broadcast_pending, asked,
                   pause, line, parser, dispatched, server>>

(* ... after a random time looked at again, ...                            *)
LookAgain(t) ==
    /\ pc[t] = "asleep"
    /\ pc' = [pc EXCEPT ![t] = IF is_line_busy THEN "trying" ELSE "window"]
    /\ UNCHANGED <<senderQueue, receiverQueue, starter, update_broadcast_pending, asked,
                   pause, line, parser, dispatched, server>>

(* ... and the packet queued.                                              *)
Queue(t) ==
    /\ pc[t] = "window"
    /\ S!Push(t, IF t \in Sender THEN t ELSE Table)
    /\ pc' = [pc EXCEPT ![t] = "sent"]
    /\ UNCHANGED <<receiverQueue, starter, update_broadcast_pending, asked,
                   pause, line, parser, dispatched, server>>

(* push ends; a broadcast thread waits another second or two.              *)
BugNotify(t) ==
    /\ S!NotifyOne(t)
    /\ pc' = [pc EXCEPT ![t] = IF t \in BroadcastThread THEN "ending" ELSE "trying"]
    /\ UNCHANGED <<receiverQueue, starter, update_broadcast_pending, asked,
                   pause, line, parser, dispatched, server>>
Notify(t) ==
    /\ S!NotifyOne(t)
    /\ pc' = [pc EXCEPT ![t] = IF t \in BroadcastThread THEN "ending" ELSE "done"]
    /\ UNCHANGED <<receiverQueue, starter, update_broadcast_pending, asked,
                   pause, line, parser, dispatched, server>>

BugEndBroadcast(t) ==
    /\ pc[t] = "ending"
    /\ pc' = [pc EXCEPT ![t] = "none"]
    /\ update_broadcast_pending' = (update_broadcast_pending /\ pause_flag)
    /\ UNCHANGED <<senderQueue, receiverQueue, starter, asked,
                   pause, line, parser, dispatched, server>>
EndBroadcast(t) ==
    /\ pc[t] = "ending"
    /\ pc' = [pc EXCEPT ![t] = "none"]
    /\ update_broadcast_pending' = FALSE
    /\ UNCHANGED <<senderQueue, receiverQueue, starter, asked,
                   pause, line, parser, dispatched, server>>

(* start_broadcasting_thread is called by the tick thread, when            *)
(* broadcast_to has run out, and by the main loop (Dispatch).              *)
TickBroadcast ==
    /\ asked < MAX_BROADCASTS /\ starter["tick"] = "idle"
    /\ ~pause_flag
    /\ asked' = asked + 1
    /\ starter' = [starter EXCEPT !["tick"] = "testing"]
    /\ UNCHANGED <<senderQueue, receiverQueue, pc, update_broadcast_pending,
                   pause, line, parser, dispatched, server>>

(* update_broadcast_pending is tested and set in two steps, without a lock.*)
TestPending(c) ==
    /\ starter[c] = "testing"
    /\ starter' = [starter EXCEPT ![c] = IF update_broadcast_pending THEN "idle" ELSE "starting"]
    /\ UNCHANGED <<senderQueue, receiverQueue, pc, update_broadcast_pending, asked,
                   pause, line, parser, dispatched, server>>
Unused == {t \in BroadcastThread : pc[t] = "none"}
SetPending(c) ==
    /\ starter[c] = "starting"
    /\ Unused # {}
    /\ pc' = [pc EXCEPT ![CHOOSE t \in Unused : TRUE] = "trying"]
    /\ update_broadcast_pending' = TRUE
    /\ starter' = [starter EXCEPT ![c] = "idle"]
    /\ UNCHANGED <<senderQueue, receiverQueue, asked, pause, line, parser, dispatched, server>>

(* resume_protocol_to, of the pause it was started for or of a later one.  *)
ResumeTimeout ==
    /\ timers > 0
    /\ timers' = timers - 1
    /\ pause_flag' = FALSE
    /\ UNCHANGED <<senderQueue, receiverQueue, threads, line, parser, dispatched, server>>

----------------------------------------------------------------------------
(* Client::listener: the next packet is written to the socket.             *)
WaitSender ==
    /\ link = "up"
    /\ S!Wait \/ S!PopEmpty
    /\ UNCHANGED <<receiverQueue, threads, pause, line, parser, dispatched, server>>
Transmit ==
    /\ link = "up" /\ transmitting = Nothing
    /\ S!Pop
    /\ transmitting' = Head(sQueue)
    /\ wire' = Append(wire, <<SignalByte("SENDING")>>)
    /\ UNCHANGED <<receiverQueue, threads, pause, line, parser, dispatched,
                   link, transmitted, other, sent, heard>>

(* The server: it sends what it got from this node, and tells the node     *)
(* when it begins and ends, when another node in range begins, and what    *)
(* that node sent when it ends.  If both send, it may be lost.  wire has   *)
(* what it has written to the socket, write by write, and is not read yet. *)
PacketOf(x) == add_header_to_payload(x.h, x.payload)
EndTransmission ==
    /\ link = "up" /\ transmitting # Nothing
    /\ transmitted' = [t \in Sender |-> transmitted[t] + IF t = transmitting THEN 1 ELSE 0]
    /\ transmitting' = Nothing
    /\ wire' = Append(wire, <<SignalByte("DONE_SENDING")>>)
    /\ UNCHANGED <<senderQueue, receiverQueue, threads, pause, line, parser, dispatched,
                   link, other, sent, heard>>
OtherBegins ==
    /\ link = "up" /\ ~other /\ sent < Len(Heard)
    /\ other' = TRUE
    /\ sent' = sent + 1
    /\ wire' = Append(wire, <<SignalByte("BUSY")>>)
    /\ UNCHANGED <<senderQueue, receiverQueue, threads, pause, line, parser, dispatched,
                   link, transmitting, transmitted, heard>>
OtherEnds(arrives) ==
    /\ link = "up" /\ other
    /\ transmitting = Nothing => arrives
    /\ other' = FALSE
    /\ heard' = IF arrives THEN Append(heard, Heard[sent]) ELSE heard
    /\ wire' = wire \o (IF arrives THEN <<Framed(PacketOf(Heard[sent]))>> ELSE <<>>)
                    \o <<<<SignalByte("FREE")>>>>
    /\ UNCHANGED <<senderQueue, receiverQueue, threads, pause, line, parser, dispatched,
                   link, transmitting, transmitted, sent>>
----------------------------------------------------------------------------
(* receiveData: the next byte.  Where the server's writes begin and end,   *)
(* and where recv cuts the stream, it does not see.                        *)
Receive ==
    /\ link = "up" /\ wire # <<>>
    /\ "receiver" \notin rNotifying
    /\ LET b == Head(Head(wire))
       IN /\ parser' = Parsed(parser, b)
          /\ \/ \E m \in Pushed(parser, b) : R!Push("receiver", m)
             \/ Pushed(parser, b) = {} /\ UNCHANGED receiverQueue
    /\ wire' = IF Len(Head(wire)) = 1 THEN Tail(wire) ELSE <<Tail(Head(wire))>> \o Tail(wire)
    /\ UNCHANGED <<senderQueue, threads, pause, line, dispatched,
                   link, transmitting, transmitted, other, sent, heard>>
NotifyMain ==
    /\ R!NotifyOne("receiver")
    /\ UNCHANGED <<senderQueue, threads, pause, line, parser, dispatched, server>>

(* The main loop.  While it is in start_broadcasting_thread it pops        *)
(* nothing.                                                                *)
WaitMain ==
    /\ starter["main"] = "idle"
    /\ R!Wait \/ R!PopEmpty
    /\ UNCHANGED <<senderQueue, threads, pause, line, parser, dispatched, server>>

BugDispatchLine(m) ==
    /\ is_line_busy' = (m.type \in {"BUSY", "SENDING"}
                        \/ (m.type # "FREE" /\ is_line_busy))
    /\ is_current_node_sending' = (m.type = "SENDING"
                        \/ (m.type # "DONE_SENDING" /\ is_current_node_sending))
DispatchLine(m) ==
    /\ is_line_busy' = (m.type \in {"BUSY", "SENDING"}
                        \/ (m.type \notin {"FREE", "DONE_SENDING"} /\ is_line_busy))
    /\ is_current_node_sending' = (m.type = "SENDING"
                        \/ (m.type # "DONE_SENDING" /\ is_current_node_sending))

(* An echo, unless the protocol is paused, is registered and may change    *)
(* the table; a data packet pauses the protocol, and goes to the           *)
(* transport, that resumes it when a message is complete; an ack goes to   *)
(* the sender.                                                             *)
echo == 0
data == 1
Decoded(bytes) == [h |-> get_separated_header(bytes), payload |-> SubSeq(bytes, 5, Len(bytes))]
DispatchPacket(m) ==
    LET h == get_separated_header(m.data)
    IN /\ dispatched' = Append(dispatched, Decoded(m.data))
       /\ \/ h.type = echo /\ ~pause_flag
             /\ starter' = [starter EXCEPT !["main"] = "testing"]
             /\ UNCHANGED pause
          \/ h.type = data /\ UNCHANGED starter
             /\ pause_flag' \in BOOLEAN
             /\ timers' = IF pause_flag THEN timers ELSE timers + 1
          \/ h.type # data /\ UNCHANGED <<starter, pause>>
Dispatch ==
    /\ starter["main"] = "idle"
    /\ R!Pop
    /\ LET m == Head(rQueue)
       IN /\ DispatchLine(m)
          /\ IF m.type = "DATA" THEN DispatchPacket(m)
             ELSE UNCHANGED <<dispatched, starter, pause>>
    /\ UNCHANGED <<senderQueue, pc, update_broadcast_pending, asked, parser, server>>

----------------------------------------------------------------------------
Sending(t) == BeginSend(t) \/ Look(t) \/ LookAgain(t) \/ Queue(t) \/ Notify(t) \/ EndBroadcast(t)
Starting(c) == TestPending(c) \/ SetPending(c)
Client  == WaitSender \/ Transmit
Server  == EndTransmission \/ \E arrives \in BOOLEAN : OtherEnds(arrives)
Reading == Receive \/ NotifyMain
Main    == WaitMain \/ Dispatch

Program == \/ \E t \in Thread : Sending(t)
           \/ \E c \in Starter : Starting(c)
           \/ Client \/ Reading \/ Main

Running == sConsumer # "undefined" /\ rConsumer # "undefined"
Next == Running /\ (Program \/ TickBroadcast \/ ResumeTimeout \/ Server \/ OtherBegins)

Spec == Init /\ [][Next]_vars

(* As long as a thread of the program can take a step, or the server end   *)
(* what it began, not all of them stand still.  That is enough because no  *)
(* thread goes round forever unless another gives it a reason.  Nothing    *)
(* says when another node sends, when the tick thread asks for a           *)
(* broadcast, or that a pause times out.                                   *)
FairSpec == Spec /\ WF_vars(Running /\ (Program \/ Server))

----------------------------------------------------------------------------
(* Type invariant.                                                         *)
TypeOK ==
    /\ S!QueueTypeOK /\ R!QueueTypeOK
    /\ pc \in [Thread -> {"none", "trying", "asleep", "window", "sent", "ending", "done"}]
    /\ starter \in [Starter -> {"idle", "testing", "starting"}]
    /\ update_broadcast_pending \in BOOLEAN /\ asked \in 0 .. MAX_BROADCASTS
    /\ pause_flag \in BOOLEAN /\ timers \in Nat
    /\ is_line_busy \in BOOLEAN /\ is_current_node_sending \in BOOLEAN
    /\ parser \in Parser /\ dispatched \in Seq([h : WireHeader, payload : Seq(Byte)])
    /\ link \in {"up", "down"} /\ wire \in Seq(Seq(Byte) \ {<<>>})
    /\ transmitting \in Sender \cup {Table, Nothing} /\ transmitted \in [Sender -> Nat]
    /\ other \in BOOLEAN /\ sent \in 0 .. Len(Heard)
    /\ heard \in Seq([h : Header, payload : Seq(Byte)])

(* Neither the thread that writes to the socket nor the main loop sleeps   *)
(* over a packet in its queue, though push notifies outside the lock and   *)
(* several threads push.                                                   *)
NoLostWakeup == S!NoLostWakeup /\ R!NoLostWakeup

(* The main loop decodes the packets of the other nodes as they were sent, *)
(* in order and each once, whatever their bytes: none is taken for a       *)
(* message of the server, and no message of the server for a part of one.  *)
AsSent(x) == [x EXCEPT !.h = Truncated(@)]
DispatchedAsSent ==
    /\ Len(dispatched) <= Len(heard)
    /\ \A i \in 1 .. Len(dispatched) : dispatched[i] = AsSent(heard[i])

(* What the node is going to understand: the messages in receiverQueue,    *)
(* and each write w of the server, the first perhaps read in part (p).     *)
Understood(m) == [type   |-> m.type,
                  packet |-> IF m.type = "DATA" THEN Decoded(m.data) ELSE Nothing]
FrameData(p, w) ==
    CASE ~p.message -> Tail(Tail(w))
      [] p.message /\ p.message_len = NoLength -> Tail(w)
      [] OTHER -> p.message_buff \o w
Meaning(p, w) == IF p.message \/ Head(w) = DATA_FRAME
                 THEN [type |-> "DATA", packet |-> Decoded(FrameData(p, w))]
                 ELSE [type |-> Signal[Head(w)], packet |-> Nothing]
Coming == [k \in 1 .. Len(rQueue) + Len(wire) |->
             IF k <= Len(rQueue) THEN Understood(rQueue[k])
             ELSE IF k = Len(rQueue) + 1 THEN Meaning(parser, wire[1])
             ELSE Meaning(Outside, wire[k - Len(rQueue)])]

(* Whatever becomes of the line between a thread's two looks at it and the *)
(* push, and however many threads are in that window together, a packet of *)
(* a message is in exactly one place: with its thread, in senderQueue,     *)
(* with the server, or transmitted, once.                                  *)
Places(t) ==
    (IF pc[t] \in {"sent", "done"} THEN {} ELSE {<<"thread", 0>>})
    \cup {<<"queue", i>> : i \in {j \in DOMAIN sQueue : sQueue[j] = t}}
    \cup (IF transmitting = t THEN {<<"server", 0>>} ELSE {})
    \cup {<<"transmitted", k>> : k \in 1 .. transmitted[t]}
InOnePlace == \A t \in Sender : Cardinality(Places(t)) = 1

(* A node takes the line for busy only while somebody sends, or a message  *)
(* that will correct it is on its way.                                     *)
BusyHasReason ==
    is_line_busy =>
        \/ other \/ transmitting # Nothing
        \/ \E k \in DOMAIN Coming : Coming[k].type \in {"FREE", "DONE_SENDING"}

(* Socket, parser, queue and main loop are together the channel of Line:   *)
(* whatever the bytes of a packet are, and wherever the threads stand, the *)
(* messages come in order, whole, and once, and are taken one at a time.   *)
L == INSTANCE Line WITH
       Packet <- {AsSent(Heard[i]) : i \in DOMAIN Heard}, NoPacket <- Nothing,
       sending <- transmitting # Nothing, coming <- Coming,
       heard <- [i \in DOMAIN heard |-> AsSent(heard[i])]
TellsTheLine == L!Spec

(* update_broadcast_pending is tested and set in two steps by two threads  *)
(* and cleared by any number of broadcast threads: it is never left set    *)
(* when there is none, after which no table would be broadcast again.      *)
PendingHasThread ==
    update_broadcast_pending => \E t \in BroadcastThread : pc[t] # "none"

(* When the other nodes have become quiet, every packet of a sending       *)
(* thread has been transmitted exactly once, every broadcast has ended and *)
(* the line is known to be free, unless the connection breaks or an empty  *)
(* queue is popped.                                                        *)
Settled ==
    /\ \A t \in Sender : pc[t] # "none" => transmitted[t] = 1
    /\ \A t \in BroadcastThread : pc[t] = "none"
    /\ ~is_line_busy /\ ~update_broadcast_pending
EverythingSent == <>[](link = "down" \/ ~Running \/ Settled)

(* BlockingQueue.h:28, "we need to wait if there is nothing in the queue!" *)
(* Neither pop takes from an empty queue.                                  *)
NeverPopsEmpty == S!NeverPopsEmpty /\ R!NeverPopsEmpty
=============================================================================
