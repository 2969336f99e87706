-------------------------- MODULE RadioNodeProofs --------------------------
(***************************************************************************)
(* Proofs about RadioNode, for any number of threads of each kind, any     *)
(* packets and any behaviour of the server.                                *)
(***************************************************************************)
EXTENDS RadioNode, PacketHeaderProofs, SequenceTheorems, FiniteSetTheorems, TLAPS

(* The steps of a queue, one by one, keep a waiting consumer from sleeping *)
(* over an item: a push leaves its notification to come, a notification    *)
(* ends the wait, and a wait begins with an empty queue.                   *)
LEMMA SenderQueueKept ==
    ASSUME S!NoLostWakeup,
           \/ \E t \in Thread, x \in Sender \cup {Table} : S!Push(t, x)
           \/ \E t \in Thread : S!NotifyOne(t)
           \/ S!Wait \/ S!Pop \/ S!PopEmpty \/ UNCHANGED senderQueue
    PROVE  S!NoLostWakeup'
  BY DEF S!NoLostWakeup, S!Push, S!NotifyOne, S!Wait, S!Pop, S!PopEmpty, senderQueue

LEMMA ReceiverQueueKept ==
    ASSUME R!NoLostWakeup,
           \/ \E m : R!Push("receiver", m)
           \/ R!NotifyOne("receiver")
           \/ R!Wait \/ R!Pop \/ R!PopEmpty \/ UNCHANGED receiverQueue
    PROVE  R!NoLostWakeup'
  BY DEF R!NoLostWakeup, R!Push, R!NotifyOne, R!Wait, R!Pop, R!PopEmpty, receiverQueue

(* What a step does to the two queues.                                     *)
LEMMA QueueSteps ==
    ASSUME [Next]_vars
    PROVE  /\ \/ \E t \in Thread, x \in Sender \cup {Table} : S!Push(t, x)
              \/ \E t \in Thread : S!NotifyOne(t)
              \/ S!Wait \/ S!Pop \/ S!PopEmpty \/ UNCHANGED senderQueue
           /\ \/ Receive /\ \E m : R!Push("receiver", m)
              \/ R!NotifyOne("receiver")
              \/ R!Wait \/ R!Pop \/ R!PopEmpty \/ UNCHANGED receiverQueue
<1> DEFINE SStep == \/ \E t \in Thread, x \in Sender \cup {Table} : S!Push(t, x)
                    \/ \E t \in Thread : S!NotifyOne(t)
                    \/ S!Wait \/ S!Pop \/ S!PopEmpty \/ UNCHANGED senderQueue
           RStep == \/ Receive /\ \E m : R!Push("receiver", m)
                    \/ R!NotifyOne("receiver")
                    \/ R!Wait \/ R!Pop \/ R!PopEmpty \/ UNCHANGED receiverQueue
<1> SUFFICES SStep /\ RStep
  OBVIOUS
<1>1. CASE \E t \in Thread : Sending(t)
  <2>1. PICK t \in Thread : Sending(t)
    BY <1>1
  <2>2. CASE Queue(t)
    <3>1. (IF t \in Sender THEN t ELSE Table) \in Sender \cup {Table}
      OBVIOUS
    <3>2. S!Push(t, IF t \in Sender THEN t ELSE Table) /\ UNCHANGED receiverQueue
      BY <2>2 DEF Queue
    <3>3. QED BY <3>1, <3>2
  <2>3. CASE Notify(t)
    BY <2>3 DEF Notify
  <2>4. CASE BeginSend(t) \/ Look(t) \/ LookAgain(t) \/ EndBroadcast(t)
    BY <2>4 DEF BeginSend, Look, LookAgain, EndBroadcast
  <2>5. QED BY <2>1, <2>2, <2>3, <2>4 DEF Sending
<1>2. CASE \E c \in Starter : Starting(c)
  BY <1>2 DEF Starting, TestPending, SetPending
<1>3. CASE Client
  BY <1>3 DEF Client, WaitSender, Transmit
<1>4. CASE Receive
  <2>1. (\E m : R!Push("receiver", m)) \/ UNCHANGED receiverQueue
    <3> DEFINE b == Head(Head(wire))
    <3>1. (\E m \in Pushed(parser, b) : R!Push("receiver", m)) \/ UNCHANGED receiverQueue
      BY <1>4 DEF Receive
    <3>2. QED BY <3>1
  <2>2. UNCHANGED senderQueue
    BY <1>4 DEF Receive
  <2>3. QED BY <1>4, <2>1, <2>2
<1>5. CASE NotifyMain
  BY <1>5 DEF NotifyMain
<1>6. CASE Main
  BY <1>6 DEF Main, WaitMain, Dispatch
<1>7. CASE TickBroadcast \/ ResumeTimeout
  BY <1>7 DEF TickBroadcast, ResumeTimeout
<1>8. CASE Server \/ OtherBegins
  BY <1>8 DEF Server, EndTransmission, OtherEnds, OtherBegins
<1>9. CASE UNCHANGED vars
  BY <1>9 DEF vars
<1>10. QED
  BY <1>1, <1>2, <1>3, <1>4, <1>5, <1>6, <1>7, <1>8, <1>9 DEF Next, Program, Reading

(* Neither thread ever sleeps over a packet in its queue: push notifies    *)
(* outside the lock, and only once, but that is enough.                    *)
THEOREM NoSleepOverPackets == Spec => []NoLostWakeup
<1>1. Init => NoLostWakeup
  BY DEF Init, NoLostWakeup, S!QueueInit, R!QueueInit, S!NoLostWakeup, R!NoLostWakeup
<1>2. NoLostWakeup /\ [Next]_vars => NoLostWakeup'
  BY QueueSteps, SenderQueueKept, ReceiverQueueKept DEF NoLostWakeup
<1>3. QED
  BY <1>1, <1>2, PTL DEF Spec

----------------------------------------------------------------------------
(* The part of the type invariant the next theorem needs.                  *)
States == {"none", "trying", "asleep", "window", "sent", "ending", "done"}
ThreadsTyped == pc \in [Thread -> States]

PendingInv == ThreadsTyped /\ PendingHasThread

(* The steps that change no thread and no flag.                            *)
LEMMA ThreadsUntouched ==
    ASSUME PendingInv, UNCHANGED <<pc, update_broadcast_pending>>
    PROVE  PendingInv'
  BY DEF PendingInv, ThreadsTyped, PendingHasThread

(* A thread takes a step and does not end.                                 *)
LEMMA ThreadGoesOn ==
    ASSUME PendingInv, NEW t \in Thread, NEW s \in States \ {"none"},
           pc' = [pc EXCEPT ![t] = s],
           UNCHANGED update_broadcast_pending
    PROVE  PendingInv'
  BY DEF PendingInv, ThreadsTyped, PendingHasThread, Thread, States

(* The flag is never left set without a broadcast thread to clear it,      *)
(* although two threads test and set it without a lock and the first of    *)
(* two broadcast threads to end clears it for both.                        *)
THEOREM PendingIsNeverStuck == Spec => []PendingHasThread
<1>1. Init => PendingInv
  BY DEF Init, PendingInv, ThreadsTyped, PendingHasThread, States
<1>2. PendingInv /\ [Next]_vars => PendingInv'
  <2> SUFFICES ASSUME PendingInv, [Next]_vars
               PROVE  PendingInv'
    OBVIOUS
  <2>1. CASE \E t \in Thread : Sending(t)
    <3>1. PICK t \in Thread : Sending(t)
      BY <2>1
    <3>2. CASE BeginSend(t)
      BY <3>2, ThreadGoesOn DEF BeginSend, States
    <3>3. CASE Look(t)
      BY <3>3, ThreadGoesOn DEF Look, States, pause, line
    <3>4. CASE LookAgain(t)
      BY <3>4, ThreadGoesOn DEF LookAgain, States
    <3>5. CASE Queue(t)
      BY <3>5, ThreadGoesOn DEF Queue, States
    <3>6. CASE Notify(t)
      <4>1. (IF t \in BroadcastThread THEN "ending" ELSE "done") \in States \ {"none"}
        BY DEF States
      <4>2. /\ pc' = [pc EXCEPT ![t] = IF t \in BroadcastThread THEN "ending" ELSE "done"]
            /\ UNCHANGED update_broadcast_pending
        BY <3>6 DEF Notify
      <4>3. QED BY <4>1, <4>2, ThreadGoesOn
    <3>7. CASE EndBroadcast(t)
      BY <3>7 DEF EndBroadcast, PendingInv, ThreadsTyped, PendingHasThread, Thread, States
    <3>8. QED
      BY <3>1, <3>2, <3>3, <3>4, <3>5, <3>6, <3>7 DEF Sending
  <2>2. CASE \E c \in Starter : TestPending(c)
    BY <2>2, ThreadsUntouched DEF TestPending
  <2>3. CASE \E c \in Starter : SetPending(c)
    <3>1. PICK c \in Starter : SetPending(c)
      BY <2>3
    <3> DEFINE t == CHOOSE u \in Unused : TRUE
    <3>3. t \in BroadcastThread
      BY <3>1 DEF SetPending, Unused
    <3>4. pc' = [pc EXCEPT ![t] = "trying"]
      BY <3>1 DEF SetPending
    <3> HIDE DEF t
    <3>5. pc' \in [Thread -> States] /\ pc'[t] # "none"
      BY <3>3, <3>4 DEF PendingInv, ThreadsTyped, Thread, States
    <3>6. QED
      BY <3>3, <3>5 DEF PendingInv, ThreadsTyped, PendingHasThread
  <2>4. CASE Client \/ Reading
    BY <2>4, ThreadsUntouched
       DEF Client, WaitSender, Transmit, Reading, Receive, NotifyMain, threads
  <2>5. CASE Main
    BY <2>5, ThreadsUntouched DEF Main, WaitMain, Dispatch, threads
  <2>6. CASE TickBroadcast \/ ResumeTimeout
    BY <2>6, ThreadsUntouched DEF TickBroadcast, ResumeTimeout, threads
  <2>7. CASE Server \/ OtherBegins
    BY <2>7, ThreadsUntouched DEF Server, EndTransmission, OtherEnds, OtherBegins, threads
  <2>8. CASE UNCHANGED vars
    BY <2>8, ThreadsUntouched DEF vars, threads
  <2>9. QED
    BY <2>1, <2>2, <2>3, <2>4, <2>5, <2>6, <2>7, <2>8 DEF Next, Program, Starting
<1>3. PendingInv => PendingHasThread
  BY DEF PendingInv
<1>4. QED
  BY <1>1, <1>2, <1>3, PTL DEF Spec

----------------------------------------------------------------------------
(* Types.                                                                  *)
LEMMA SignalBytes ==
    /\ DOMAIN Signal = {1, 2, 4, 5, 8, 9, 10, 11}
    /\ Signal[1] = "FREE" /\ Signal[2] = "BUSY"
    /\ Signal[4] = "SENDING" /\ Signal[5] = "DONE_SENDING"
    /\ Signal[8] = "END" /\ Signal[9] = "HELLO"
    /\ Signal[10] = "TOKEN_ACCEPTED" /\ Signal[11] = "TOKEN_REJECTED"
  BY DEF Signal

LEMMA SignalByteOf ==
    /\ SignalByte("FREE") = 1 /\ SignalByte("BUSY") = 2
    /\ SignalByte("SENDING") = 4 /\ SignalByte("DONE_SENDING") = 5
  BY SignalBytes DEF SignalByte

LEMMA ParserTyped ==
    ASSUME NEW p \in Parser, NEW b \in Byte
    PROVE  /\ Extended(p, b) \in Parser /\ Parsed(p, b) \in Parser
           /\ Pushed(p, b) \subseteq Message
<1>1. Extended(p, b) \in Parser
  <2>1. CASE p.message_len = NoLength
    BY <2>1 DEF Extended, Parser
  <2>2. CASE p.message_len # NoLength
    BY <2>2, AppendProperties DEF Extended, Parser
  <2>3. QED BY <2>1, <2>2
<1>2. Parsed(p, b) \in Parser
  <2>1. [Outside EXCEPT !.message = TRUE, !.shortData = (b = DATA_SHORT_FRAME)] \in Parser
    <3>1. Outside = [message |-> FALSE, shortData |-> FALSE,
                     message_len |-> NoLength, message_buff |-> <<>>]
      BY DEF Outside
    <3>2. (b = DATA_SHORT_FRAME) \in BOOLEAN /\ <<>> \in Seq(Byte)
      BY EmptySeq
    <3>3. QED BY <3>1, <3>2 DEF Parser
  <2>2. [Extended(p, b) EXCEPT !.message = FALSE] \in Parser
    BY <1>1 DEF Parser
  <2>3. QED BY <1>1, <2>1, <2>2 DEF Parsed
<1>3. Pushed(p, b) \subseteq Message
  <2>1. ASSUME NEW s \in DOMAIN Signal
        PROVE  [type |-> Signal[s], data |-> <<>>] \in Message
    BY <2>1 DEF Message
  <2>2. [type |-> IF p.shortData THEN "DATA_SHORT" ELSE "DATA",
         data |-> Extended(p, b).message_buff] \in Message
    BY <1>1 DEF Message, Parser
  <2>3. QED BY <2>1, <2>2 DEF Pushed
<1>4. QED BY <1>1, <1>2, <1>3

(* TypeOK in three parts, without the packets decoded: their type follows  *)
(* from what the bytes on the wire are.                                    *)
QueuesTyped == S!QueueTypeOK /\ R!QueueTypeOK
ProgramTyped ==
    /\ pc \in [Thread -> States]
    /\ starter \in [Starter -> {"idle", "testing", "starting"}]
    /\ update_broadcast_pending \in BOOLEAN /\ asked \in 0 .. MAX_BROADCASTS
    /\ pause_flag \in BOOLEAN /\ timers \in Nat
    /\ is_line_busy \in BOOLEAN /\ is_current_node_sending \in BOOLEAN
Received == [h : Header, payload : Seq(Byte)]
SocketTyped ==
    /\ parser \in Parser
    /\ link \in {"up", "down"} /\ wire \in Seq(Seq(Byte) \ {<<>>})
    /\ transmitting \in Sender \cup {Table, Nothing} /\ transmitted \in [Sender -> Nat]
    /\ other \in BOOLEAN /\ sent \in 0 .. Len(Heard)
    /\ heard \in Seq(Received)
    /\ other => sent # 0
Typed == QueuesTyped /\ ProgramTyped /\ SocketTyped

(* The threads.                                                            *)
LEMMA ThreadsKeepTypes ==
    ASSUME ProgramTyped, NEW t \in Thread, Sending(t)
    PROVE  ProgramTyped'
<1>1. CASE BeginSend(t)
  <2>1. timers' \in Nat
    BY <1>1 DEF BeginSend, ProgramTyped
  <2>2. QED BY <1>1, <2>1 DEF BeginSend, ProgramTyped, States, line
<1>2. CASE Look(t)
  BY <1>2 DEF Look, ProgramTyped, States, line, pause
<1>3. CASE LookAgain(t)
  BY <1>3 DEF LookAgain, ProgramTyped, States, line, pause
<1>4. CASE Queue(t)
  BY <1>4 DEF Queue, ProgramTyped, States, line, pause
<1>5. CASE Notify(t)
  BY <1>5 DEF Notify, ProgramTyped, States, line, pause
<1>6. CASE EndBroadcast(t)
  BY <1>6 DEF EndBroadcast, ProgramTyped, States, line, pause
<1>7. QED
  BY <1>1, <1>2, <1>3, <1>4, <1>5, <1>6 DEF Sending

LEMMA StartersKeepTypes ==
    ASSUME ProgramTyped, TickBroadcast \/ ResumeTimeout \/ \E c \in Starter : Starting(c)
    PROVE  ProgramTyped'
<1>1. CASE TickBroadcast
  <2>1. asked' \in 0 .. MAX_BROADCASTS
    BY <1>1, RadioAssumption DEF TickBroadcast, ProgramTyped
  <2>2. starter' \in [Starter -> {"idle", "testing", "starting"}]
    BY <1>1 DEF TickBroadcast, ProgramTyped
  <2>3. UNCHANGED <<pc, update_broadcast_pending, pause, line>>
    BY <1>1 DEF TickBroadcast
  <2>4. QED BY <2>1, <2>2, <2>3 DEF ProgramTyped, line, pause
<1>2. CASE ResumeTimeout
  <2>1. timers' \in Nat /\ pause_flag' \in BOOLEAN
    <3>1. timers > 0 /\ timers' = timers - 1 /\ pause_flag' = FALSE
      BY <1>2 DEF ResumeTimeout
    <3>2. timers \in Nat
      BY DEF ProgramTyped
    <3>3. timers' \in Nat
      BY <3>1, <3>2
    <3>4. pause_flag' \in BOOLEAN
      BY <3>1
    <3>5. QED BY <3>3, <3>4
  <2>2. UNCHANGED <<threads, line>>
    BY <1>2 DEF ResumeTimeout
  <2>3. QED BY <2>1, <2>2 DEF ProgramTyped, line, threads
<1>3. CASE \E c \in Starter : TestPending(c)
  BY <1>3 DEF TestPending, ProgramTyped, line, pause
<1>4. CASE \E c \in Starter : SetPending(c)
  <2>1. PICK c \in Starter : SetPending(c)
    BY <1>4
  <2> DEFINE t == CHOOSE u \in Unused : TRUE
  <2>2. pc' = [pc EXCEPT ![t] = "trying"]
    BY <2>1 DEF SetPending
  <2> HIDE DEF t
  <2>3. pc' \in [Thread -> States]
    BY <2>2 DEF ProgramTyped, States
  <2>4. QED BY <2>1, <2>3 DEF SetPending, ProgramTyped, line, pause
<1>5. QED BY <1>1, <1>2, <1>3, <1>4 DEF Starting

LEMMA DispatchKeepsTypes ==
    ASSUME ProgramTyped, Dispatch
    PROVE  ProgramTyped'
<1> DEFINE m == Head(rQueue)
<1>1. is_line_busy' \in BOOLEAN /\ is_current_node_sending' \in BOOLEAN
  <2>1. DispatchLine(m)
    BY DEF Dispatch
  <2> HIDE DEF m
  <2>2. QED BY <2>1 DEF DispatchLine
<1>2. /\ starter' \in [Starter -> {"idle", "testing", "starting"}]
      /\ pause_flag' \in BOOLEAN /\ timers' \in Nat
  <2>1. DispatchPacket(m) \/ UNCHANGED <<starter, pause>>
    BY DEF Dispatch
  <2> HIDE DEF m
  <2>2. CASE DispatchPacket(m)
    <3>1. \/ starter' = [starter EXCEPT !["main"] = "testing"] /\ UNCHANGED pause
          \/ /\ UNCHANGED starter /\ pause_flag' \in BOOLEAN
             /\ timers' = IF pause_flag THEN timers ELSE timers + 1
          \/ UNCHANGED <<starter, pause>>
      BY <2>2 DEF DispatchPacket
    <3>2. QED BY <3>1 DEF ProgramTyped, pause
  <2>3. CASE UNCHANGED <<starter, pause>>
    BY <2>3 DEF ProgramTyped, pause
  <2>4. QED BY <2>1, <2>2, <2>3
<1>3. UNCHANGED <<pc, update_broadcast_pending, asked>>
  BY DEF Dispatch
<1>4. QED BY <1>1, <1>2, <1>3 DEF ProgramTyped

LEMMA ProgramTypedNext ==
    ASSUME ProgramTyped, [Next]_vars
    PROVE  ProgramTyped'
<1>1. CASE \E t \in Thread : Sending(t)
  BY <1>1, ThreadsKeepTypes
<1>2. CASE TickBroadcast \/ ResumeTimeout \/ \E c \in Starter : Starting(c)
  BY <1>2, StartersKeepTypes
<1>3. CASE Dispatch
  BY <1>3, DispatchKeepsTypes
<1>4. ASSUME UNCHANGED <<threads, pause, line>> PROVE ProgramTyped'
  BY <1>4 DEF ProgramTyped, threads, pause, line
<1>5. CASE Client \/ Reading \/ WaitMain \/ Server \/ OtherBegins
  BY <1>4, <1>5 DEF Client, WaitSender, Transmit, Reading, Receive, NotifyMain, WaitMain,
                    Server, EndTransmission, OtherEnds, OtherBegins
<1>6. CASE UNCHANGED vars
  BY <1>4, <1>6 DEF vars
<1>7. QED
  BY <1>1, <1>2, <1>3, <1>5, <1>6 DEF Next, Program, Main

(* The two queues.                                                         *)
LEMMA SenderQueueTyped ==
    ASSUME S!QueueTypeOK,
           \/ \E t \in Thread, x \in Sender \cup {Table} : S!Push(t, x)
           \/ \E t \in Thread : S!NotifyOne(t)
           \/ S!Wait \/ S!Pop \/ S!PopEmpty \/ UNCHANGED senderQueue
    PROVE  S!QueueTypeOK'
<1>1. CASE \E t \in Thread, x \in Sender \cup {Table} : S!Push(t, x)
  BY <1>1, AppendProperties DEF S!QueueTypeOK, S!Push
<1>2. CASE \E t \in Thread : S!NotifyOne(t)
  BY <1>2 DEF S!QueueTypeOK, S!NotifyOne
<1>3. CASE S!Pop
  BY <1>3, HeadTailProperties DEF S!QueueTypeOK, S!Pop
<1>4. CASE S!Wait \/ S!PopEmpty \/ UNCHANGED senderQueue
  BY <1>4 DEF S!QueueTypeOK, S!Wait, S!PopEmpty, senderQueue
<1>5. QED BY <1>1, <1>2, <1>3, <1>4

LEMMA ReceiverQueueTyped ==
    ASSUME R!QueueTypeOK,
           \/ \E m \in Message : R!Push("receiver", m)
           \/ R!NotifyOne("receiver")
           \/ R!Wait \/ R!Pop \/ R!PopEmpty \/ UNCHANGED receiverQueue
    PROVE  R!QueueTypeOK'
<1>1. CASE \E m \in Message : R!Push("receiver", m)
  BY <1>1, AppendProperties DEF R!QueueTypeOK, R!Push
<1>2. CASE R!NotifyOne("receiver")
  BY <1>2 DEF R!QueueTypeOK, R!NotifyOne
<1>3. CASE R!Pop
  BY <1>3, HeadTailProperties DEF R!QueueTypeOK, R!Pop
<1>4. CASE R!Wait \/ R!PopEmpty \/ UNCHANGED receiverQueue
  BY <1>4 DEF R!QueueTypeOK, R!Wait, R!PopEmpty, receiverQueue
<1>5. QED BY <1>1, <1>2, <1>3, <1>4

(* A write and its first byte; what is left of the wire after that byte.   *)
Write == Seq(Byte) \ {<<>>}
LEMMA NextByte ==
    ASSUME NEW w \in Seq(Write), w # <<>>
    PROVE  /\ Len(w) \in Nat \ {0} /\ Head(w) = w[1] /\ Head(w) \in Seq(Byte)
           /\ Len(Head(w)) \in Nat \ {0}
           /\ Head(Head(w)) \in Byte /\ Head(Head(w)) = Head(w)[1]
           /\ Tail(w) \in Seq(Write) /\ Tail(Head(w)) \in Seq(Byte)
           /\ Len(Tail(Head(w))) = Len(Head(w)) - 1
<1>1. Len(w) \in Nat \ {0} /\ Head(w) \in Write /\ Tail(w) \in Seq(Write)
  BY HeadTailProperties, EmptySeq
<1>2. Head(w) \in Seq(Byte) /\ Head(w) # <<>>
  BY <1>1 DEF Write
<1>3. Len(Head(w)) \in Nat \ {0} /\ Head(Head(w)) \in Byte /\ Tail(Head(w)) \in Seq(Byte)
      /\ Len(Tail(Head(w))) = Len(Head(w)) - 1
  BY <1>2, HeadTailProperties, EmptySeq
<1>4. QED BY <1>1, <1>2, <1>3

Left(w) == IF Len(Head(w)) = 1 THEN Tail(w) ELSE <<Tail(Head(w))>> \o Tail(w)
LEMMA LeftOnWire ==
    ASSUME NEW w \in Seq(Write), w # <<>>
    PROVE  /\ Left(w) \in Seq(Write)
           /\ Len(Head(w)) = 1 => /\ Len(Left(w)) = Len(w) - 1
                                 /\ \A k \in 1 .. Len(w) - 1 : Left(w)[k] = w[k + 1]
           /\ Len(Head(w)) # 1 => /\ Len(Left(w)) = Len(w) /\ Left(w)[1] = Tail(w[1])
                                 /\ \A k \in 2 .. Len(w) : Left(w)[k] = w[k]
<1>1. CASE Len(Head(w)) = 1
  BY <1>1, HeadTailProperties, NextByte DEF Left
<1>2. CASE Len(Head(w)) # 1
  <2> DEFINE a == <<Tail(Head(w))>>
             b == Tail(w)
  <2>1. Tail(Head(w)) \in Write
    <3>1. Tail(Head(w)) \in Seq(Byte) /\ Len(Tail(Head(w))) # 0
      BY <1>2, NextByte
    <3>2. Len(<<>>) = 0
      BY EmptySeq
    <3>3. QED BY <3>1, <3>2 DEF Write
  <2>2. a \in Seq(Write) /\ Len(a) = 1 /\ a[1] = Tail(Head(w))
    BY <2>1
  <2>3. b \in Seq(Write) /\ Len(b) = Len(w) - 1 /\ \A k \in 1 .. Len(b) : b[k] = w[k + 1]
    BY HeadTailProperties
  <2>4. Len(w) \in Nat \ {0} /\ Head(w) = w[1]
    BY NextByte
  <2>5. Left(w) = a \o b
    BY <1>2 DEF Left
  <2> HIDE DEF a, b
  <2>6. /\ a \o b \in Seq(Write) /\ Len(a \o b) = Len(a) + Len(b)
        /\ \A k \in 1 .. Len(a) + Len(b) :
             (a \o b)[k] = IF k <= Len(a) THEN a[k] ELSE b[k - Len(a)]
    <3>1. a \in Seq(Write) /\ b \in Seq(Write)
      BY <2>2, <2>3
    <3> HIDE DEF Write
    <3>2. QED BY <3>1, ConcatProperties
  <2>7. \A k \in 2 .. Len(w) : Left(w)[k] = w[k]
    BY <2>2, <2>3, <2>4, <2>5, <2>6
  <2>8. Left(w) \in Seq(Write) /\ Len(Left(w)) = Len(w)
    BY <2>2, <2>3, <2>4, <2>5, <2>6
  <2>9. Left(w)[1] = Tail(w[1])
    <3>1. 1 <= Len(a) /\ 1 \in 1 .. Len(a) + Len(b)
      BY <2>2, <2>3, <2>4
    <3>2. QED BY <2>2, <2>4, <2>5, <2>6, <3>1
  <2>10. QED BY <1>2, <2>7, <2>8, <2>9
<1>3. QED BY <1>1, <1>2

----------------------------------------------------------------------------
(* The bytes of a packet of another node, and what is decoded from them.   *)
LEMMA ConcatBytes ==
    ASSUME NEW a \in Seq(Byte), NEW b \in Seq(Byte)
    PROVE  /\ a \o b \in Seq(Byte) /\ Len(a \o b) = Len(a) + Len(b)
           /\ \A k \in 1 .. Len(a) : (a \o b)[k] = a[k]
           /\ SubSeq(a \o b, Len(a) + 1, Len(a \o b)) = b
<1> DEFINE c == a \o b
<1>1. PICK l \in Nat, r \in Nat : l = Len(a) /\ r = Len(b)
  BY LenProperties
<1>2. /\ c \in Seq(Byte) /\ Len(c) = l + r
      /\ \A k \in 1 .. l + r : c[k] = IF k <= l THEN a[k] ELSE b[k - l]
  <2>1. /\ c \in Seq(Byte) /\ Len(c) = Len(a) + Len(b)
        /\ \A k \in 1 .. Len(a) + Len(b) : c[k] = IF k <= Len(a) THEN a[k] ELSE b[k - Len(a)]
    BY ConcatProperties
  <2> HIDE DEF c
  <2>2. QED BY <1>1, <2>1
<1> HIDE DEF c
<1>3. \A k \in 1 .. l : c[k] = a[k]
  BY <1>2
<1> DEFINE t == SubSeq(c, l + 1, l + r)
<1>4. t \in Seq(Byte) /\ Len(t) = r /\ \A k \in 1 .. r : t[k] = c[l + k]
  <2>1. \A k \in l + 1 .. l + r : c[k] \in Byte
    <3>1. \A k \in l + 1 .. l + r : k \in 1 .. l + r
      OBVIOUS
    <3>2. QED BY <1>2, <3>1, ElementOfSeq
  <2>2. /\ t \in Seq(Byte) /\ Len(t) = IF l + 1 <= l + r THEN l + r - (l + 1) + 1 ELSE 0
        /\ \A k \in 1 .. l + r - (l + 1) + 1 : t[k] = c[l + 1 + k - 1]
    <3>1. l + 1 \in Int /\ l + r \in Int
      OBVIOUS
    <3>2. QED BY <2>1, <3>1, SubSeqProperties
  <2> HIDE DEF t
  <2>3. l + r - (l + 1) + 1 = r /\ \A k \in 1 .. r : l + 1 + k - 1 = l + k
    OBVIOUS
  <2>4. Len(t) = r
    BY <2>2
  <2>5. QED BY <2>2, <2>3, <2>4
<1> HIDE DEF t
<1>5. ASSUME NEW k \in 1 .. r PROVE t[k] = b[k]
  <2>1. l + k \in 1 .. l + r /\ ~(l + k <= l) /\ l + k - l = k
    OBVIOUS
  <2>2. c[l + k] = b[k]
    BY <1>2, <2>1
  <2>3. QED BY <1>4, <2>2
<1>6. t = b
  BY <1>1, <1>4, <1>5, SeqEqual
<1>7. QED BY <1>1, <1>2, <1>3, <1>6 DEF c, t

LEMMA PacketBytes ==
    ASSUME NEW x \in Received
    PROVE  /\ PacketOf(x) \in Seq(Byte)
           /\ Len(PacketOf(x)) = Len(x.payload) + 4
           /\ Decoded(PacketOf(x)) = AsSent(x)
<1> DEFINE a == build_header(x.h)
           b == x.payload
<1>1. a \in [1 .. 4 -> Byte] /\ get_separated_header(a) = Truncated(x.h)
  BY RoundTrip DEF Received
<1> HIDE DEF a
<1>2. a \in Seq(Byte) /\ Len(a) = 4 /\ b \in Seq(Byte) /\ Len(b) \in Nat
  <2>1. a \in Seq(Byte) /\ Len(a) = 4
    <3>1. a \in Seq(Byte)
      BY <1>1, SeqDef
    <3>2. DOMAIN a = 1 .. Len(a) /\ Len(a) \in Nat /\ DOMAIN a = 1 .. 4
      BY <1>1, <3>1, LenProperties
    <3>3. PICK n \in Nat : n = Len(a) /\ 1 .. n = 1 .. 4
      BY <3>2
    <3>4. n = 4
      <4>1. 4 \in 1 .. n /\ 5 \notin 1 .. n
        BY <3>3
      <4>2. QED BY <4>1
    <3>5. QED BY <3>1, <3>3, <3>4
  <2>2. b \in Seq(Byte)
    BY DEF Received
  <2>3. QED BY <2>1, <2>2, LenProperties
<1>3. /\ a \o b \in Seq(Byte) /\ Len(a \o b) = Len(a) + Len(b)
      /\ \A k \in 1 .. Len(a) : (a \o b)[k] = a[k]
      /\ SubSeq(a \o b, Len(a) + 1, Len(a \o b)) = b
  BY <1>2, ConcatBytes
<1>4. PacketOf(x) = a \o b
  BY DEF PacketOf, add_header_to_payload, a
<1>5. get_separated_header(a \o b) = get_separated_header(a)
  <2>1. /\ (a \o b)[1] = a[1] /\ (a \o b)[2] = a[2]
        /\ (a \o b)[3] = a[3] /\ (a \o b)[4] = a[4]
    BY <1>2, <1>3
  <2>2. QED BY <2>1 DEF get_separated_header
<1>6. Decoded(a \o b) = [h |-> Truncated(x.h), payload |-> b]
  <2>1. SubSeq(a \o b, 5, Len(a \o b)) = b
    BY <1>2, <1>3
  <2>2. get_separated_header(a \o b) = Truncated(x.h)
    BY <1>1, <1>5
  <2> HIDE DEF b
  <2>3. QED BY <2>1, <2>2 DEF Decoded
<1>7. AsSent(x) = [h |-> Truncated(x.h), payload |-> b]
  BY DEF AsSent, Received
<1>8. QED BY <1>2, <1>3, <1>4, <1>6, <1>7

LEMMA HeardPackets ==
    ASSUME NEW i \in DOMAIN Heard
    PROVE  /\ Heard[i] \in Received
           /\ PacketOf(Heard[i]) \in Seq(Byte) /\ Len(PacketOf(Heard[i])) \in 4 .. 255
           /\ Decoded(PacketOf(Heard[i])) = AsSent(Heard[i])
<1>1. Heard \in Seq(Received) /\ i \in 1 .. Len(Heard)
  BY RadioAssumption, LenProperties DEF Received
<1>2. Heard[i] \in Received
  BY <1>1, ElementOfSeq
<1>3. Len(Heard[i].payload) \in Nat /\ Len(Heard[i].payload) + 4 < 256
  <2>1. Heard[i].payload \in Seq(Byte)
    BY <1>2 DEF Received
  <2>2. Len(Heard[i].payload) \in Nat
    BY <2>1, LenProperties
  <2>3. QED BY <1>1, <2>2, RadioAssumption
<1>4. /\ PacketOf(Heard[i]) \in Seq(Byte)
      /\ Len(PacketOf(Heard[i])) = Len(Heard[i].payload) + 4
      /\ Decoded(PacketOf(Heard[i])) = AsSent(Heard[i])
  BY <1>2, PacketBytes
<1>5. Len(PacketOf(Heard[i])) \in 4 .. 255
  <2>1. PICK n \in Nat : n = Len(Heard[i].payload) /\ n + 4 < 256
    BY <1>3
  <2>2. Len(PacketOf(Heard[i])) = n + 4
    BY <1>4, <2>1
  <2>3. n + 4 \in 4 .. 255
    <3>1. n + 4 < 256
      BY <2>1
    <3>2. QED BY <3>1
  <2>4. QED BY <2>2, <2>3, Zenon
<1>6. QED BY <1>2, <1>4, <1>5, Zenon

(* Two bytes before some data.                                             *)
LEMMA TwoBytesBefore ==
    ASSUME NEW a \in Seq(Byte), Len(a) = 2, NEW d \in Seq(Byte), NEW n \in Nat, Len(d) = n
    PROVE  /\ a \o d \in Seq(Byte) /\ Len(a \o d) = n + 2
           /\ (a \o d)[1] = a[1] /\ (a \o d)[2] = a[2]
           /\ Tail(a \o d) \in Seq(Byte) /\ Len(Tail(a \o d)) = n + 1
           /\ Tail(a \o d)[1] = a[2]
           /\ Tail(Tail(a \o d)) = d
<1> DEFINE f == a \o d
           g == Tail(f)
           h == Tail(g)
<1>1. /\ f \in Seq(Byte) /\ Len(f) = 2 + n
      /\ \A k \in 1 .. 2 + n : f[k] = IF k <= 2 THEN a[k] ELSE d[k - 2]
  <2>1. /\ f \in Seq(Byte) /\ Len(f) = Len(a) + Len(d)
        /\ \A k \in 1 .. Len(a) + Len(d) : f[k] = IF k <= Len(a) THEN a[k] ELSE d[k - Len(a)]
    BY ConcatProperties
  <2> HIDE DEF f
  <2>2. QED BY <2>1
<1>2. 2 + n = n + 2 /\ n + 2 # 0 /\ n + 1 # 0 /\ n + 2 - 1 = n + 1 /\ n + 1 - 1 = n
  OBVIOUS
<1>3. Len(<<>>) = 0
  BY EmptySeq
<1> HIDE DEF f
<1>4. f # <<>>
  BY <1>1, <1>2, <1>3, Zenon
<1>5. g \in Seq(Byte) /\ Len(g) = n + 1 /\ \A k \in 1 .. n + 1 : g[k] = f[k + 1]
  <2>1. g \in Seq(Byte) /\ Len(g) = Len(f) - 1 /\ \A k \in 1 .. Len(g) : g[k] = f[k + 1]
    BY <1>1, <1>4, HeadTailProperties
  <2> HIDE DEF g
  <2>2. QED BY <1>1, <1>2, <2>1
<1> HIDE DEF g
<1>6. g # <<>>
  BY <1>2, <1>3, <1>5, Zenon
<1>7. h \in Seq(Byte) /\ Len(h) = n /\ \A k \in 1 .. n : h[k] = g[k + 1]
  <2>1. h \in Seq(Byte) /\ Len(h) = Len(g) - 1 /\ \A k \in 1 .. Len(h) : h[k] = g[k + 1]
    BY <1>5, <1>6, HeadTailProperties
  <2> HIDE DEF h
  <2>2. Len(g) - 1 = n
    BY <1>5
  <2>3. Len(h) = n
    BY <2>1, <2>2, Zenon
  <2>4. QED BY <2>1, <2>3, Zenon
<1> HIDE DEF h
<1>8. f[1] = a[1] /\ f[2] = a[2] /\ g[1] = a[2]
  <2>1. 1 \in 1 .. 2 + n /\ 2 \in 1 .. 2 + n /\ 1 \in 1 .. n + 1
    OBVIOUS
  <2>2. f[1] = a[1] /\ f[2] = a[2]
    BY <1>1, <2>1
  <2>3. g[1] = f[2]
    BY <1>5, <2>1
  <2>4. QED BY <2>2, <2>3
<1>9. ASSUME NEW k \in 1 .. n PROVE h[k] = d[k]
  <2>1. k + 1 \in 1 .. n + 1 /\ k + 2 \in 1 .. 2 + n /\ ~(k + 2 <= 2)
        /\ k + 2 - 2 = k /\ k + 1 + 1 = k + 2
    OBVIOUS
  <2>2. h[k] = f[k + 2]
    BY <1>5, <1>7, <2>1
  <2>3. f[k + 2] = d[k]
    BY <1>1, <2>1
  <2>4. QED BY <2>2, <2>3
<1>10. h = d
  BY <1>7, <1>9, SeqEqual
<1>11. Len(f) = n + 2
  BY <1>1, <1>2
<1>12. QED BY <1>1, <1>5, <1>8, <1>10, <1>11 DEF f, g, h

(* A frame: its kind, its length, its data.                                *)
LEMMA FrameBytes ==
    ASSUME NEW d \in Seq(Byte), Len(d) \in 4 .. 255
    PROVE  /\ Framed(d) \in Seq(Byte) /\ Len(Framed(d)) = Len(d) + 2
           /\ Framed(d)[1] = DATA_FRAME /\ Framed(d)[2] = Len(d)
           /\ Tail(Framed(d)) \in Seq(Byte) /\ Len(Tail(Framed(d))) = Len(d) + 1
           /\ Tail(Framed(d))[1] = Len(d)
           /\ Tail(Tail(Framed(d))) = d
<1>1. PICK n \in 4 .. 255 : n = Len(d)
  OBVIOUS
<1> DEFINE a == <<DATA_FRAME, n>>
<1>2. n % 256 = n /\ n \in Byte /\ n \in Nat /\ DATA_FRAME \in Byte
  BY DEF Byte, DATA_FRAME
<1>3. a \in Seq(Byte) /\ Len(a) = 2 /\ a[1] = DATA_FRAME /\ a[2] = n
  BY <1>2
<1>4. Framed(d) = a \o d
  BY <1>1, <1>2 DEF Framed
<1> HIDE DEF a
<1>5. /\ a \o d \in Seq(Byte) /\ Len(a \o d) = n + 2
      /\ (a \o d)[1] = a[1] /\ (a \o d)[2] = a[2]
      /\ Tail(a \o d) \in Seq(Byte) /\ Len(Tail(a \o d)) = n + 1
      /\ Tail(a \o d)[1] = a[2] /\ Tail(Tail(a \o d)) = d
  BY <1>1, <1>2, <1>3, TwoBytesBefore
<1>6. QED BY <1>1, <1>3, <1>4, <1>5, Zenon

----------------------------------------------------------------------------
(* What is on the wire: writes of the server, each a message of one byte   *)
(* or the frame of a packet, the first perhaps read in part by parser p.   *)
ServerTypes == {"SENDING", "DONE_SENDING", "BUSY", "FREE"}
Genuine(w) ==
    \/ \E type \in ServerTypes : w = <<SignalByte(type)>>
    \/ \E i \in DOMAIN Heard : w = Framed(PacketOf(Heard[i]))
Partial(p, w) ==
    /\ p.message /\ ~p.shortData
    /\ \E i \in DOMAIN Heard :
         LET d == PacketOf(Heard[i])
         IN \/ p.message_len = NoLength /\ p.message_buff = <<>> /\ w = Tail(Framed(d))
            \/ p.message_len = Len(d) /\ p.message_buff \o w = d
First(p, w) == IF p.message THEN Partial(p, w) ELSE Genuine(w)
Wired(p, w) ==
    /\ \A k \in 2 .. Len(w) : Genuine(w[k])
    /\ w # <<>> => First(p, w[1])
    /\ w = <<>> => ~p.message

LEMMA SignalWrites ==
    ASSUME NEW type \in ServerTypes, NEW p \in Parser, ~p.message,
           NEW w, w = <<SignalByte(type)>>
    PROVE  /\ SignalByte(type) \in {1, 2, 4, 5} /\ Signal[SignalByte(type)] = type
           /\ w \in Write /\ Len(w) = 1 /\ Head(w) = SignalByte(type)
           /\ Meaning(p, w) = [type |-> type, packet |-> Nothing]
<1>1. SignalByte(type) \in {1, 2, 4, 5} /\ Signal[SignalByte(type)] = type
  BY SignalBytes, SignalByteOf DEF ServerTypes
<1>2. SignalByte(type) \in Byte /\ SignalByte(type) # DATA_FRAME
  BY <1>1 DEF Byte, DATA_FRAME
<1>3. w \in Seq(Byte) /\ Len(w) = 1 /\ Head(w) = SignalByte(type) /\ w # <<>>
  BY <1>2
<1>4. QED BY <1>1, <1>2, <1>3 DEF Meaning, Write

LEMMA FrameWrites ==
    ASSUME NEW i \in DOMAIN Heard, NEW p \in Parser, ~p.message,
           NEW w, w = Framed(PacketOf(Heard[i]))
    PROVE  /\ w \in Write /\ Len(w) # 1 /\ Head(w) = DATA_FRAME
           /\ Meaning(p, w) = [type |-> "DATA", packet |-> AsSent(Heard[i])]
<1> DEFINE d == PacketOf(Heard[i])
<1>1. d \in Seq(Byte) /\ Len(d) \in 4 .. 255 /\ Decoded(d) = AsSent(Heard[i])
  BY HeardPackets
<1> HIDE DEF d
<1>2. w \in Seq(Byte) /\ Len(w) = Len(d) + 2 /\ w[1] = DATA_FRAME /\ Tail(Tail(w)) = d
  BY <1>1, FrameBytes DEF d
<1>3. Len(w) # 0 /\ Len(w) # 1
  <2>1. \A n \in 4 .. 255 : n + 2 # 0 /\ n + 2 # 1
    OBVIOUS
  <2>2. QED BY <1>1, <1>2, <2>1, Zenon
<1>4. w # <<>>
  <2>1. Len(<<>>) = 0
    BY EmptySeq
  <2>2. QED BY <1>3, <2>1, Zenon
<1>5. Head(w) = w[1]
  BY <1>2
<1>6. QED BY <1>1, <1>2, <1>3, <1>4, <1>5 DEF Meaning, FrameData, Write

(* What is left of a frame means the packet the frame was made of, however *)
(* much of it has been read.                                               *)
LEMMA PartialMeans ==
    ASSUME NEW p \in Parser, NEW w \in Seq(Byte), NEW i \in DOMAIN Heard, p.message,
           LET d == PacketOf(Heard[i])
           IN \/ p.message_len = NoLength /\ p.message_buff = <<>> /\ w = Tail(Framed(d))
              \/ p.message_len = Len(d) /\ p.message_buff \o w = d
    PROVE  Meaning(p, w) = [type |-> "DATA", packet |-> AsSent(Heard[i])]
<1> DEFINE d == PacketOf(Heard[i])
<1>1. d \in Seq(Byte) /\ Len(d) \in 4 .. 255 /\ Decoded(d) = AsSent(Heard[i])
  BY HeardPackets
<1>2. FrameData(p, w) = d
  <2>1. CASE p.message_len = NoLength /\ w = Tail(Framed(d))
    <3>1. Tail(w) = d
      BY <1>1, <2>1, FrameBytes
    <3>2. QED BY <2>1, <3>1 DEF FrameData
  <2>2. CASE p.message_len = Len(d) /\ p.message_buff \o w = d
    <3>1. p.message_len # NoLength
      <4>1. \A n \in 4 .. 255 : n # -1
        OBVIOUS
      <4>2. QED BY <1>1, <2>2, <4>1 DEF NoLength
    <3>2. QED BY <2>2, <3>1 DEF FrameData
  <2>3. QED BY <2>1, <2>2
<1>3. QED BY <1>1, <1>2 DEF Meaning

(* A byte of a write.  The last one completes the message of the write,    *)
(* whatever byte it is; before it nothing is pushed, and what the node is  *)
(* going to understand stays the same.                                     *)
ReadOf(p, w) ==
    LET b == Head(w)
        q == Parsed(p, b)
    IN IF Len(w) = 1
       THEN /\ ~q.message
            /\ \E m \in Message : Pushed(p, b) = {m} /\ Understood(m) = Meaning(p, w)
       ELSE /\ q.message /\ Partial(q, Tail(w)) /\ Pushed(p, b) = {}
            /\ Meaning(q, Tail(w)) = Meaning(p, w)

LEMMA ReadSignal ==
    ASSUME NEW p \in Parser, ~p.message, NEW type \in ServerTypes,
           NEW w, w = <<SignalByte(type)>>
    PROVE  ReadOf(p, w)
<1> DEFINE b == SignalByte(type)
           m == [type |-> type, data |-> <<>>]
<1>1. /\ b \in {1, 2, 4, 5} /\ Signal[b] = type
      /\ w \in Write /\ Len(w) = 1 /\ Head(w) = b
      /\ Meaning(p, w) = [type |-> type, packet |-> Nothing]
  BY SignalWrites
<1> HIDE DEF b
<1>2. b \notin {DATA_FRAME, DATA_SHORT_FRAME} /\ b \in DOMAIN Signal
  BY <1>1, SignalBytes DEF DATA_FRAME, DATA_SHORT_FRAME
<1>3. Parsed(p, b) = p
  BY <1>2 DEF Parsed
<1>4. Pushed(p, b) = {m}
  BY <1>1, <1>2 DEF Pushed
<1>5. m \in Message
  BY <1>1, <1>2, EmptySeq DEF Message
<1>6. Understood(m) = Meaning(p, w)
  <2>1. m.type # "DATA"
    BY DEF ServerTypes
  <2>2. QED BY <1>1, <2>1 DEF Understood
<1> HIDE DEF m
<1>7. QED BY <1>1, <1>3, <1>4, <1>5, <1>6 DEF ReadOf

LEMMA ReadFrameByte ==
    ASSUME NEW p \in Parser, ~p.message, NEW i \in DOMAIN Heard,
           NEW w, w = Framed(PacketOf(Heard[i]))
    PROVE  ReadOf(p, w)
<1> DEFINE q == [Outside EXCEPT !.message = TRUE, !.shortData = (DATA_FRAME = DATA_SHORT_FRAME)]
<1>1. /\ w \in Write /\ Len(w) # 1 /\ Head(w) = DATA_FRAME
      /\ Meaning(p, w) = [type |-> "DATA", packet |-> AsSent(Heard[i])]
  BY FrameWrites
<1>2. Parsed(p, DATA_FRAME) = q
  BY DEF Parsed
<1>3. q.message /\ ~q.shortData /\ q.message_len = NoLength /\ q.message_buff = <<>>
  <2>1. (DATA_FRAME = DATA_SHORT_FRAME) = FALSE
    BY DEF DATA_FRAME, DATA_SHORT_FRAME
  <2>2. q = [Outside EXCEPT !.message = TRUE, !.shortData = FALSE]
    BY <2>1
  <2>3. QED BY <2>2 DEF Outside
<1>4. Pushed(p, DATA_FRAME) = {}
  BY SignalBytes DEF Pushed, DATA_FRAME
<1>5. q \in Parser
  <2>1. DATA_FRAME \in Byte
    BY DEF DATA_FRAME, Byte
  <2>2. QED BY <1>2, <2>1, ParserTyped
<1> HIDE DEF q
<1>6. Partial(q, Tail(w))
  BY <1>3 DEF Partial
<1>7. Meaning(q, Tail(w)) = [type |-> "DATA", packet |-> AsSent(Heard[i])]
  <2>1. Tail(w) \in Seq(Byte)
    <3>1. w \in Seq(Byte) /\ w # <<>>
      BY <1>1 DEF Write
    <3>2. QED BY <3>1, HeadTailProperties
  <2>2. QED BY <1>3, <1>5, <2>1, PartialMeans
<1>8. QED BY <1>1, <1>2, <1>3, <1>4, <1>6, <1>7 DEF ReadOf

LEMMA MoreThanOne ==
    ASSUME NEW w \in Seq(Byte), NEW n \in 4 .. 255, Len(w) = n + 1
    PROVE  Len(w) # 1 /\ Head(w) = w[1]
<1>1. n + 1 # 1
  OBVIOUS
<1>2. Len(w) # 1
  BY <1>1, Zenon
<1>3. Head(w) = w[1]
  OBVIOUS
<1>4. QED BY <1>2, <1>3, Zenon

LEMMA ReadLengthByte ==
    ASSUME NEW p \in Parser, p.message, ~p.shortData,
           p.message_len = NoLength, p.message_buff = <<>>,
           NEW i \in DOMAIN Heard, NEW w, w = Tail(Framed(PacketOf(Heard[i])))
    PROVE  ReadOf(p, w)
<1> DEFINE d == PacketOf(Heard[i])
           n == Len(d)
           q == Parsed(p, n)
<1>1. d \in Seq(Byte) /\ n \in 4 .. 255
  BY HeardPackets
<1>2. w \in Seq(Byte) /\ Len(w) = n + 1 /\ w[1] = n /\ Tail(w) = d
  BY <1>1, FrameBytes
<1>3. n \in Byte /\ n # 0
  <2>1. \A k \in 4 .. 255 : k \in 0 .. 255 /\ k # 0
    OBVIOUS
  <2>2. QED BY <1>1, <2>1 DEF Byte
<1> HIDE DEF n
<1>4. Len(w) # 1 /\ Head(w) = n
  <2>1. n \in 4 .. 255
    BY <1>1 DEF n
  <2>2. QED BY <1>2, <2>1, MoreThanOne
<1>5. Extended(p, n) = [p EXCEPT !.message_len = n]
  BY DEF Extended
<1>6. /\ Extended(p, n).message /\ ~Extended(p, n).shortData
      /\ Extended(p, n).message_len = n /\ Extended(p, n).message_buff = <<>>
  BY <1>5 DEF Parser
<1>7. ~Complete(Extended(p, n))
  <2>1. Len(<<>>) = 0
    BY EmptySeq
  <2>2. QED BY <1>3, <1>6, <2>1 DEF Complete
<1>8. q = Extended(p, n)
  BY <1>7 DEF Parsed
<1>9. Pushed(p, n) = {}
  BY <1>7 DEF Pushed
<1>10. q \in Parser
  BY <1>3, ParserTyped
<1> HIDE DEF q
<1>11. q.message_buff \o d = d
  BY <1>1, <1>6, <1>8, ConcatEmptySeq
<1>12. Partial(q, Tail(w))
  BY <1>2, <1>6, <1>8, <1>11 DEF Partial, n
<1>13. Meaning(q, Tail(w)) = [type |-> "DATA", packet |-> AsSent(Heard[i])]
  <2>1. q.message /\ q.message_len = Len(d) /\ q.message_buff \o Tail(w) = d
    BY <1>2, <1>6, <1>8, <1>11 DEF n
  <2>2. Tail(w) \in Seq(Byte)
    BY <1>1, <1>2
  <2>3. QED BY <1>10, <2>1, <2>2, PartialMeans
<1>14. Meaning(p, w) = [type |-> "DATA", packet |-> AsSent(Heard[i])]
  BY <1>2, PartialMeans
<1>15. QED BY <1>4, <1>6, <1>8, <1>9, <1>12, <1>13, <1>14 DEF ReadOf, q

LEMMA ReadDataByte ==
    ASSUME NEW p \in Parser, p.message, ~p.shortData, NEW i \in DOMAIN Heard,
           NEW w \in Write,
           p.message_len = Len(PacketOf(Heard[i])), p.message_buff \o w = PacketOf(Heard[i])
    PROVE  ReadOf(p, w)
<1> DEFINE d == PacketOf(Heard[i])
           b == Head(w)
           buff == p.message_buff
           q == Parsed(p, b)
           e == Extended(p, b)
<1>1. d \in Seq(Byte) /\ Len(d) \in 4 .. 255 /\ Decoded(d) = AsSent(Heard[i])
  BY HeardPackets
<1>2. w \in Seq(Byte) /\ w # <<>>
  BY DEF Write
<1>3. /\ b \in Byte /\ b = w[1] /\ Tail(w) \in Seq(Byte)
      /\ Len(w) \in Nat \ {0} /\ Len(Tail(w)) = Len(w) - 1
      /\ \A k \in 1 .. Len(Tail(w)) : Tail(w)[k] = w[k + 1]
  BY <1>2, HeadTailProperties, EmptySeq
<1>4. buff \in Seq(Byte) /\ Len(buff) \in Nat
  BY LenProperties DEF Parser
<1>5. Append(buff, b) \o Tail(w) = buff \o w
  <2>1. <<b>> \in Seq(Byte) /\ Append(buff, b) = buff \o <<b>>
    BY <1>3, <1>4, AppendIsConcat
  <2>2. (buff \o <<b>>) \o Tail(w) = buff \o (<<b>> \o Tail(w))
    <3> DEFINE f == <<b>>
               g == Tail(w)
    <3>1. f \in Seq(Byte) /\ g \in Seq(Byte) /\ buff \in Seq(Byte)
      BY <1>3, <1>4, <2>1
    <3> HIDE DEF f, g, buff
    <3>2. (buff \o f) \o g = buff \o (f \o g)
      BY <3>1, ConcatAssociative
    <3>3. QED BY <3>2 DEF f, g
  <2>3. <<b>> \o Tail(w) = w
    <3> DEFINE f == <<b>>
               g == Tail(w)
    <3>1. Len(f) = 1 /\ f[1] = b /\ f \in Seq(Byte) /\ g \in Seq(Byte)
      BY <1>3, <2>1
    <3> HIDE DEF f, g
    <3>2. /\ f \o g \in Seq(Byte) /\ Len(f \o g) = Len(f) + Len(g)
          /\ \A k \in 1 .. Len(f) + Len(g) :
               (f \o g)[k] = IF k <= Len(f) THEN f[k] ELSE g[k - Len(f)]
      <4>1. f \in Seq(Byte) /\ g \in Seq(Byte)
        BY <3>1
      <4>2. QED BY <4>1, ConcatProperties
    <3>3. Len(g) = Len(w) - 1 /\ \A k \in 1 .. Len(g) : g[k] = w[k + 1]
      BY <1>3 DEF g
    <3>4. Len(f \o g) = Len(w) /\ \A k \in 1 .. Len(w) : (f \o g)[k] = w[k]
      BY <1>3, <3>1, <3>2, <3>3
    <3>5. f \o g = w
      BY <1>2, <3>2, <3>4, SeqEqual
    <3>6. QED BY <3>5 DEF f, g
  <2>4. QED BY <2>1, <2>2, <2>3
<1>6. /\ Append(buff, b) \in Seq(Byte) /\ Len(Append(buff, b)) = Len(buff) + 1
  BY <1>3, <1>4, AppendProperties
<1>7. Len(d) = Len(buff) + Len(w)
  BY <1>2, <1>4, ConcatProperties
<1>8. /\ e.message /\ ~e.shortData /\ e.message_len = Len(d)
      /\ e.message_buff = Append(buff, b)
  <2>1. p.message_len # NoLength
    <3>1. \A n \in 4 .. 255 : n # -1
      OBVIOUS
    <3>2. QED BY <1>1, <3>1 DEF NoLength
  <2>2. e = [p EXCEPT !.message_buff = Append(@, b)]
    BY <2>1 DEF Extended
  <2>3. QED BY <2>2 DEF Parser
<1>9. Complete(e) <=> Len(w) = 1
  <2>1. Complete(e) <=> Len(buff) + Len(w) = Len(buff) + 1
    BY <1>6, <1>7, <1>8 DEF Complete
  <2>2. PICK k \in Nat, n \in Nat : k = Len(buff) /\ n = Len(w)
    BY <1>3, <1>4
  <2>3. k + n = k + 1 <=> n = 1
    OBVIOUS
  <2>4. QED BY <2>1, <2>2, <2>3, Zenon
<1>10. Meaning(p, w) = [type |-> "DATA", packet |-> AsSent(Heard[i])]
  BY <1>2, PartialMeans
<1>11. q \in Parser
  BY <1>3, ParserTyped
<1>12. CASE Len(w) = 1
  <2>1. Complete(e)
    BY <1>9, <1>12
  <2> HIDE DEF e
  <2>2. q = [e EXCEPT !.message = FALSE]
    BY <2>1 DEF Parsed, e
  <2>3. ~q.message
    <3>1. e \in Parser
      BY <1>3, ParserTyped DEF e
    <3>2. QED BY <2>2, <3>1 DEF Parser
  <2>4. Append(buff, b) = d
    <3>1. Tail(w) = <<>>
      <4>1. Len(Tail(w)) = 0
        BY <1>3, <1>12
      <4>2. QED BY <1>3, <4>1, EmptySeq
    <3>2. QED BY <1>5, <1>6, <3>1, ConcatEmptySeq
  <2>5. Pushed(p, b) = {[type |-> "DATA", data |-> d]}
    BY <1>8, <2>1, <2>4 DEF Pushed, e
  <2>6. [type |-> "DATA", data |-> d] \in Message
    BY <1>1 DEF Message
  <2>7. Understood([type |-> "DATA", data |-> d]) = Meaning(p, w)
    BY <1>1, <1>10 DEF Understood
  <2> HIDE DEF q, d
  <2>8. QED BY <1>12, <2>3, <2>5, <2>6, <2>7 DEF ReadOf, q
<1>13. CASE Len(w) # 1
  <2>1. ~Complete(e)
    BY <1>9, <1>13
  <2>2. q = e
    BY <2>1 DEF Parsed
  <2>3. Pushed(p, b) = {}
    BY <2>1 DEF Pushed
  <2> HIDE DEF q, e
  <2>4. Partial(q, Tail(w))
    BY <1>5, <1>8, <2>2 DEF Partial
  <2>5. Meaning(q, Tail(w)) = [type |-> "DATA", packet |-> AsSent(Heard[i])]
    <3>1. q.message /\ q.message_len = Len(d) /\ q.message_buff \o Tail(w) = d
      BY <1>5, <1>8, <2>2
    <3>2. Tail(w) \in Seq(Byte)
      BY <1>3
    <3>3. QED BY <1>11, <3>1, <3>2, PartialMeans
  <2>6. QED BY <1>8, <1>10, <1>13, <2>2, <2>3, <2>4, <2>5 DEF ReadOf, q
<1>14. QED BY <1>12, <1>13

LEMMA ReadByte ==
    ASSUME NEW p \in Parser, NEW w \in Write, First(p, w)
    PROVE  ReadOf(p, w)
<1>1. CASE ~p.message
  BY <1>1, ReadSignal, ReadFrameByte DEF First, Genuine
<1>2. CASE p.message
  BY <1>2, ReadLengthByte, ReadDataByte DEF First, Partial
<1>3. QED BY <1>1, <1>2

----------------------------------------------------------------------------
LEMMA GenuineWrites ==
    ASSUME NEW x, Genuine(x)
    PROVE  x \in Write
<1> DEFINE p == Outside
<1>1. p \in Parser /\ ~p.message
  BY EmptySeq DEF Outside, Parser, NoLength
<1> HIDE DEF p
<1>2. QED BY <1>1, SignalWrites, FrameWrites DEF Genuine

(* The server writes.                                                      *)
LEMMA WiredAppend ==
    ASSUME NEW p \in Parser, NEW w \in Seq(Write), Wired(p, w), NEW x, Genuine(x)
    PROVE  Append(w, x) \in Seq(Write) /\ Wired(p, Append(w, x))
<1> DEFINE v == Append(w, x)
<1>1. x \in Write
  BY GenuineWrites
<1>2. /\ v \in Seq(Write) /\ Len(v) = Len(w) + 1 /\ Len(w) \in Nat /\ v[Len(w) + 1] = x
      /\ \A k \in 1 .. Len(w) : v[k] = w[k]
  BY <1>1, AppendProperties, LenProperties
<1>3. v # <<>>
  BY <1>1, AppendProperties
<1> HIDE DEF v
<1>4. \A k \in 2 .. Len(v) : Genuine(v[k])
  <2>1. TAKE k \in 2 .. Len(v)
  <2>2. CASE k = Len(w) + 1
    BY <1>2, <2>2
  <2>3. CASE k # Len(w) + 1
    <3>1. k \in 1 .. Len(w) /\ k \in 2 .. Len(w)
      BY <1>2, <2>3
    <3>2. QED BY <1>2, <3>1 DEF Wired
  <2>4. QED BY <2>2, <2>3
<1>5. First(p, v[1])
  <2>1. CASE w = <<>>
    <3>1. Len(w) = 0 /\ ~p.message
      BY <2>1, EmptySeq DEF Wired
    <3>2. v[1] = x
      BY <1>2, <3>1
    <3>3. QED BY <3>1, <3>2 DEF First
  <2>2. CASE w # <<>>
    <3>1. 1 \in 1 .. Len(w)
      <4>1. Len(w) \in Nat \ {0}
        BY <2>2, NextByte
      <4>2. QED BY <4>1
    <3>2. v[1] = w[1]
      BY <1>2, <3>1
    <3>3. QED BY <2>2, <3>2 DEF Wired
  <2>3. QED BY <2>1, <2>2
<1>6. QED BY <1>2, <1>3, <1>4, <1>5 DEF Wired, v

(* The node reads.                                                         *)
LEMMA WiredRead ==
    ASSUME NEW p \in Parser, NEW w \in Seq(Write), w # <<>>, Wired(p, w)
    PROVE  /\ ReadOf(p, w[1])
           /\ Wired(Parsed(p, Head(w[1])), Left(w))
<1> DEFINE q == Parsed(p, Head(w[1]))
           v == Left(w)
<1>1. Len(w) \in Nat \ {0} /\ Head(w) = w[1] /\ w[1] \in Write
  <2>1. Len(w) \in Nat \ {0} /\ Head(w) = w[1]
    BY NextByte
  <2>2. Head(w) \in Write
    BY HeadTailProperties
  <2>3. QED BY <2>1, <2>2
<1>2. ReadOf(p, w[1])
  BY <1>1, ReadByte DEF Wired
<1>3. v \in Seq(Write)
  BY LeftOnWire
<1>4. CASE Len(w[1]) = 1
  <2>1. ~q.message
    BY <1>2, <1>4 DEF ReadOf
  <2>2. Len(v) = Len(w) - 1 /\ \A k \in 1 .. Len(w) - 1 : v[k] = w[k + 1]
    BY <1>1, <1>4, LeftOnWire
  <2> HIDE DEF q, v
  <2>3. \A k \in 1 .. Len(v) : Genuine(v[k])
    <3>1. TAKE k \in 1 .. Len(v)
    <3>2. k \in 1 .. Len(w) - 1 /\ k + 1 \in 2 .. Len(w)
      BY <1>1, <2>2
    <3>3. QED BY <2>2, <3>2 DEF Wired
  <2>4. v # <<>> => First(q, v[1])
    <3>1. ASSUME v # <<>> PROVE 1 \in 1 .. Len(v)
      <4>1. Len(v) \in Nat \ {0}
        BY <1>3, <3>1, NextByte
      <4>2. QED BY <4>1
    <3>2. QED BY <2>1, <2>3, <3>1 DEF First
  <2>5. \A k \in 2 .. Len(v) : Genuine(v[k])
    <3>1. TAKE k \in 2 .. Len(v)
    <3>2. k \in 1 .. Len(v)
      BY <1>1, <2>2
    <3>3. QED BY <2>3, <3>2
  <2>6. QED BY <1>2, <2>1, <2>4, <2>5 DEF Wired, q, v
<1>5. CASE Len(w[1]) # 1
  <2>1. q.message /\ Partial(q, Tail(w[1]))
    BY <1>2, <1>5 DEF ReadOf
  <2>2. Len(v) = Len(w) /\ v[1] = Tail(w[1]) /\ \A k \in 2 .. Len(w) : v[k] = w[k]
    BY <1>1, <1>5, LeftOnWire
  <2> HIDE DEF q, v
  <2>3. v # <<>>
    <3>1. v = <<>> => Len(v) = 0
      BY EmptySeq
    <3>2. QED BY <1>1, <2>2, <3>1
  <2>4. \A k \in 2 .. Len(v) : Genuine(v[k])
    BY <2>2 DEF Wired
  <2>5. First(q, v[1])
    BY <2>1, <2>2 DEF First
  <2>6. QED BY <1>2, <2>3, <2>4, <2>5 DEF Wired, q, v
<1>6. QED BY <1>4, <1>5

----------------------------------------------------------------------------
(* What the node is going to understand, from the queue, the parser and    *)
(* the wire.                                                               *)
ComingOf(q, p, w) ==
    [k \in 1 .. Len(q) + Len(w) |->
       IF k <= Len(q) THEN Understood(q[k])
       ELSE IF k = Len(q) + 1 THEN Meaning(p, w[1])
       ELSE Meaning(Outside, w[k - Len(q)])]
Meanings(q, p, w) == {ComingOf(q, p, w)[k] : k \in 1 .. Len(q) + Len(w)}

LEMMA FunctionIsSeq ==
    ASSUME NEW T, NEW n \in Nat, NEW f \in [1 .. n -> T]
    PROVE  f \in Seq(T) /\ Len(f) = n
<1>1. f \in Seq(T)
  BY SeqDef
<1>2. PICK m \in Nat : m = Len(f) /\ 1 .. m = 1 .. n
  BY <1>1, LenProperties
<1>3. m = n
  <2>1. m > n => m \in 1 .. m /\ m \notin 1 .. n
    OBVIOUS
  <2>2. n > m => n \in 1 .. n /\ n \notin 1 .. m
    OBVIOUS
  <2>3. QED BY <1>2, <2>1, <2>2
<1>4. QED BY <1>1, <1>2, <1>3

LEMMA ComingSeq ==
    ASSUME NEW q \in Seq(Message), NEW p, NEW w \in Seq(Write)
    PROVE  /\ Len(q) \in Nat /\ Len(w) \in Nat
           /\ ComingOf(q, p, w) \in Seq(Meanings(q, p, w))
           /\ Len(ComingOf(q, p, w)) = Len(q) + Len(w)
           /\ \A k \in 1 .. Len(q) + Len(w) :
                ComingOf(q, p, w)[k] = IF k <= Len(q) THEN Understood(q[k])
                                       ELSE IF k = Len(q) + 1 THEN Meaning(p, w[1])
                                       ELSE Meaning(Outside, w[k - Len(q)])
<1> DEFINE c == ComingOf(q, p, w)
           n == Len(q) + Len(w)
<1>1. Len(q) \in Nat /\ Len(w) \in Nat
  BY LenProperties
<1>2. DOMAIN c = 1 .. n
  BY DEF ComingOf
<1>3. \A k \in 1 .. n : c[k] = IF k <= Len(q) THEN Understood(q[k])
                               ELSE IF k = Len(q) + 1 THEN Meaning(p, w[1])
                               ELSE Meaning(Outside, w[k - Len(q)])
  BY DEF ComingOf
<1>4. c \in [1 .. n -> Meanings(q, p, w)]
  BY <1>2 DEF ComingOf, Meanings
<1>5. n \in Nat
  BY <1>1
<1> HIDE DEF c, n
<1>6. c \in Seq(Meanings(q, p, w)) /\ Len(c) = n
  BY <1>4, <1>5, FunctionIsSeq
<1>7. QED BY <1>1, <1>3, <1>6 DEF c, n

(* A function and a sequence with the same elements are equal.             *)
LEMMA SameElements ==
    ASSUME NEW A, NEW B, NEW s \in Seq(A), NEW t \in Seq(B),
           Len(s) = Len(t), \A k \in 1 .. Len(s) : s[k] = t[k]
    PROVE  s = t
<1>1. s \in Seq(A \cup B) /\ t \in Seq(A \cup B)
  BY SeqMonotonic
<1>2. QED BY <1>1, SeqEqual

(* A parser outside a frame takes a write for the same, whatever it has    *)
(* read before.                                                            *)
LEMMA MeaningOutside ==
    ASSUME NEW p, ~p.message, NEW x
    PROVE  Meaning(p, x) = Meaning(Outside, x)
<1>1. ~Outside.message
  BY DEF Outside
<1>2. FrameData(p, x) = FrameData(Outside, x)
  BY <1>1 DEF FrameData
<1>3. QED BY <1>1, <1>2 DEF Meaning

(* The server writes: a message more is coming.                            *)
LEMMA ComingAppend ==
    ASSUME NEW q \in Seq(Message), NEW p \in Parser, NEW w \in Seq(Write),
           Wired(p, w), NEW x, Genuine(x)
    PROVE  ComingOf(q, p, Append(w, x)) = Append(ComingOf(q, p, w), Meaning(Outside, x))
<1> DEFINE v == Append(w, x)
           c == ComingOf(q, p, w)
           e == ComingOf(q, p, v)
           y == Meaning(Outside, x)
           M == Meanings(q, p, w) \cup {y}
           f == Append(c, y)
<1>1. PICK a \in Nat, b \in Nat : a = Len(q) /\ b = Len(w)
  BY LenProperties
<1>2. /\ v \in Seq(Write) /\ Len(v) = b + 1 /\ v[b + 1] = x
      /\ \A k \in 1 .. b : v[k] = w[k]
  BY <1>1, GenuineWrites, AppendProperties
<1>3. /\ c \in Seq(Meanings(q, p, w)) /\ Len(c) = a + b
      /\ \A k \in 1 .. a + b : c[k] = IF k <= a THEN Understood(q[k])
                                      ELSE IF k = a + 1 THEN Meaning(p, w[1])
                                      ELSE Meaning(Outside, w[k - a])
  BY <1>1, ComingSeq
<1>4. /\ e \in Seq(Meanings(q, p, v)) /\ Len(e) = a + (b + 1)
      /\ \A k \in 1 .. a + (b + 1) : e[k] = IF k <= a THEN Understood(q[k])
                                            ELSE IF k = a + 1 THEN Meaning(p, v[1])
                                            ELSE Meaning(Outside, v[k - a])
  <2> HIDE DEF v
  <2>1. v \in Seq(Write)
    BY <1>2
  <2> HIDE DEF Write
  <2>2. /\ e \in Seq(Meanings(q, p, v)) /\ Len(e) = Len(q) + Len(v)
        /\ \A k \in 1 .. Len(q) + Len(v) :
             e[k] = IF k <= Len(q) THEN Understood(q[k])
                    ELSE IF k = Len(q) + 1 THEN Meaning(p, v[1])
                    ELSE Meaning(Outside, v[k - Len(q)])
    BY <2>1, ComingSeq
  <2>3. QED BY <1>1, <1>2, <2>2
<1>5. /\ f \in Seq(M) /\ Len(f) = a + b + 1 /\ f[a + b + 1] = y
      /\ \A k \in 1 .. a + b : f[k] = c[k]
  <2>1. c \in Seq(M)
    BY <1>3, SeqMonotonic
  <2>2. y \in M
    OBVIOUS
  <2> HIDE DEF c, M, y
  <2>3. QED BY <1>3, <2>1, <2>2, AppendProperties
<1>6. Meaning(p, v[1]) = Meaning(Outside, v[1]) \/ (b # 0 /\ v[1] = w[1])
  <2>1. CASE w = <<>>
    BY <2>1, MeaningOutside DEF Wired
  <2>2. CASE w # <<>>
    <3>1. b \in Nat \ {0}
      BY <1>1, <2>2, NextByte
    <3>2. 1 \in 1 .. b
      BY <3>1
    <3>3. QED BY <1>2, <3>1, <3>2
  <2>3. QED BY <2>1, <2>2
<1> HIDE DEF v, c, e, f, M, y
<1>7. ASSUME NEW k \in 1 .. a + b + 1 PROVE e[k] = f[k]
  <2>1. CASE k <= a
    BY <1>3, <1>4, <1>5, <2>1
  <2>2. CASE k > a /\ k <= a + b
    <3>1. k - a \in 1 .. b /\ 1 \in 1 .. b /\ k \in 1 .. a + b /\ ~(k <= a)
      BY <2>2
    <3>2. v[k - a] = w[k - a] /\ v[1] = w[1]
      BY <1>2, <3>1
    <3>3. e[k] = IF k = a + 1 THEN Meaning(p, w[1]) ELSE Meaning(Outside, w[k - a])
      BY <1>4, <3>1, <3>2
    <3>4. c[k] = IF k = a + 1 THEN Meaning(p, w[1]) ELSE Meaning(Outside, w[k - a])
      BY <1>3, <3>1
    <3>5. QED BY <1>5, <3>1, <3>3, <3>4
  <2>3. CASE k = a + b + 1
    <3>1. f[k] = y
      BY <1>5, <2>3
    <3>2. k - a = b + 1 /\ ~(k <= a)
      BY <2>3
    <3>3. v[k - a] = x
      BY <1>2, <3>2
    <3>4. CASE k = a + 1
      <4>1. b = 0 /\ k - a = 1
        BY <2>3, <3>4
      <4>2. e[k] = Meaning(p, v[1]) /\ Meaning(p, v[1]) = Meaning(Outside, v[1]) /\ v[1] = x
        BY <1>4, <1>6, <3>2, <3>3, <3>4, <4>1
      <4>3. QED BY <3>1, <4>2 DEF y
    <3>5. CASE k # a + 1
      <4>1. e[k] = Meaning(Outside, v[k - a])
        BY <1>4, <3>2, <3>5
      <4>2. QED BY <3>1, <3>3, <4>1 DEF y
    <3>6. QED BY <3>4, <3>5
  <2>4. QED BY <2>1, <2>2, <2>3
<1>8. Len(e) = a + b + 1
  BY <1>4
<1>9. e = f
  <2>1. Len(e) = Len(f)
    BY <1>5, <1>8
  <2>2. \A k \in 1 .. Len(e) : e[k] = f[k]
    BY <1>7, <1>8
  <2>3. QED BY <1>4, <1>5, <2>1, <2>2, SameElements
<1>10. QED BY <1>9 DEF e, f, c, v, y

(* The node reads a byte that completes nothing: the same is coming.       *)
LEMMA ComingRead ==
    ASSUME NEW q \in Seq(Message), NEW p, NEW r, NEW w \in Seq(Write), w # <<>>,
           Len(Head(w)) # 1, Meaning(r, Tail(w[1])) = Meaning(p, w[1])
    PROVE  ComingOf(q, r, Left(w)) = ComingOf(q, p, w)
<1> DEFINE v == Left(w)
           c == ComingOf(q, p, w)
           e == ComingOf(q, r, v)
<1>1. PICK a \in Nat, b \in Nat : a = Len(q) /\ b = Len(w)
  BY LenProperties
<1>2. v \in Seq(Write) /\ Len(v) = b /\ v[1] = Tail(w[1]) /\ \A k \in 2 .. b : v[k] = w[k]
  BY <1>1, LeftOnWire
<1>3. /\ c \in Seq(Meanings(q, p, w)) /\ Len(c) = a + b
      /\ \A k \in 1 .. a + b : c[k] = IF k <= a THEN Understood(q[k])
                                      ELSE IF k = a + 1 THEN Meaning(p, w[1])
                                      ELSE Meaning(Outside, w[k - a])
  BY <1>1, ComingSeq
<1> HIDE DEF v
<1>4. /\ e \in Seq(Meanings(q, r, v)) /\ Len(e) = a + b
      /\ \A k \in 1 .. a + b : e[k] = IF k <= a THEN Understood(q[k])
                                      ELSE IF k = a + 1 THEN Meaning(r, v[1])
                                      ELSE Meaning(Outside, v[k - a])
  BY <1>1, <1>2, ComingSeq
<1> HIDE DEF c, e
<1>5. ASSUME NEW k \in 1 .. a + b PROVE e[k] = c[k]
  <2>1. CASE k <= a
    BY <1>3, <1>4, <2>1
  <2>2. CASE k = a + 1
    <3>1. ~(k <= a)
      BY <2>2
    <3>2. e[k] = Meaning(r, v[1]) /\ c[k] = Meaning(p, w[1])
      BY <1>3, <1>4, <2>2, <3>1
    <3>3. QED BY <1>2, <3>2
  <2>3. CASE k > a + 1
    <3>1. k - a \in 2 .. b /\ ~(k <= a) /\ k # a + 1
      BY <2>3
    <3>2. e[k] = Meaning(Outside, v[k - a]) /\ c[k] = Meaning(Outside, w[k - a])
      BY <1>3, <1>4, <3>1
    <3>3. QED BY <1>2, <3>1, <3>2
  <2>4. QED BY <2>1, <2>2, <2>3
<1>6. QED BY <1>3, <1>4, <1>5, SameElements DEF c, e, v

(* The node reads the last byte of a write: its message is in the queue.   *)
LEMMA ComingComplete ==
    ASSUME NEW q \in Seq(Message), NEW m \in Message, NEW p, NEW r, ~r.message,
           NEW w \in Seq(Write), w # <<>>, Len(Head(w)) = 1,
           Understood(m) = Meaning(p, w[1])
    PROVE  ComingOf(Append(q, m), r, Left(w)) = ComingOf(q, p, w)
<1> DEFINE v == Left(w)
           o == Append(q, m)
           c == ComingOf(q, p, w)
           e == ComingOf(o, r, v)
<1>1. PICK a \in Nat, b \in Nat : a = Len(q) /\ b + 1 = Len(w)
  <2>1. Len(q) \in Nat /\ Len(w) \in Nat \ {0}
    BY LenProperties, NextByte
  <2>2. Len(w) - 1 \in Nat /\ Len(w) - 1 + 1 = Len(w)
    BY <2>1
  <2>3. QED BY <2>1, <2>2
<1>2. v \in Seq(Write) /\ Len(v) = b /\ \A k \in 1 .. b : v[k] = w[k + 1]
  <2>1. v \in Seq(Write) /\ Len(v) = Len(w) - 1 /\ \A k \in 1 .. Len(w) - 1 : v[k] = w[k + 1]
    BY LeftOnWire
  <2>2. Len(w) - 1 = b
    BY <1>1
  <2>3. QED BY <2>1, <2>2
<1>3. o \in Seq(Message) /\ Len(o) = a + 1 /\ o[a + 1] = m /\ \A k \in 1 .. a : o[k] = q[k]
  BY <1>1, AppendProperties
<1>4. /\ c \in Seq(Meanings(q, p, w)) /\ Len(c) = a + (b + 1)
      /\ \A k \in 1 .. a + (b + 1) : c[k] = IF k <= a THEN Understood(q[k])
                                            ELSE IF k = a + 1 THEN Meaning(p, w[1])
                                            ELSE Meaning(Outside, w[k - a])
  <2>1. /\ c \in Seq(Meanings(q, p, w)) /\ Len(c) = Len(q) + Len(w)
        /\ \A k \in 1 .. Len(q) + Len(w) :
             c[k] = IF k <= Len(q) THEN Understood(q[k])
                    ELSE IF k = Len(q) + 1 THEN Meaning(p, w[1])
                    ELSE Meaning(Outside, w[k - Len(q)])
    BY ComingSeq
  <2> HIDE DEF c
  <2>2. QED BY <1>1, <2>1
<1> HIDE DEF v, o
<1>5. /\ e \in Seq(Meanings(o, r, v)) /\ Len(e) = a + 1 + b
      /\ \A k \in 1 .. a + 1 + b : e[k] = IF k <= a + 1 THEN Understood(o[k])
                                          ELSE IF k = a + 2 THEN Meaning(r, v[1])
                                          ELSE Meaning(Outside, v[k - (a + 1)])
  <2>1. /\ e \in Seq(Meanings(o, r, v)) /\ Len(e) = Len(o) + Len(v)
        /\ \A k \in 1 .. Len(o) + Len(v) :
             e[k] = IF k <= Len(o) THEN Understood(o[k])
                    ELSE IF k = Len(o) + 1 THEN Meaning(r, v[1])
                    ELSE Meaning(Outside, v[k - Len(o)])
    <3>1. v \in Seq(Write) /\ o \in Seq(Message)
      BY <1>2, <1>3
    <3>2. QED BY <3>1, ComingSeq
  <2>2. a + 1 + 1 = a + 2
    OBVIOUS
  <2> HIDE DEF e
  <2>3. QED BY <1>2, <1>3, <2>1, <2>2
<1>6. \A k \in 1 .. b : Meaning(r, v[k]) = Meaning(Outside, v[k])
  BY MeaningOutside
<1> HIDE DEF c, e
<1>7. ASSUME NEW k \in 1 .. a + 1 + b PROVE e[k] = c[k]
  <2>1. CASE k <= a
    <3>1. k \in 1 .. a /\ k <= a + 1 /\ k \in 1 .. a + (b + 1)
      BY <2>1
    <3>2. QED BY <1>3, <1>4, <1>5, <3>1, <2>1
  <2>2. CASE k = a + 1
    <3>1. ~(k <= a) /\ k <= a + 1 /\ k \in 1 .. a + (b + 1)
      BY <2>2
    <3>2. e[k] = Understood(m) /\ c[k] = Meaning(p, w[1])
      BY <1>3, <1>4, <1>5, <2>2, <3>1
    <3>3. QED BY <3>2
  <2>3. CASE k > a + 1
    <3>1. /\ k - (a + 1) \in 1 .. b /\ k - (a + 1) + 1 = k - a
          /\ ~(k <= a) /\ ~(k <= a + 1) /\ k # a + 1 /\ k \in 1 .. a + (b + 1)
      BY <2>3
    <3>2. k = a + 2 => k - (a + 1) = 1
      OBVIOUS
    <3>3. e[k] = Meaning(Outside, v[k - (a + 1)])
      BY <1>5, <1>6, <3>1, <3>2
    <3>4. c[k] = Meaning(Outside, w[k - a])
      BY <1>4, <3>1
    <3>5. v[k - (a + 1)] = w[k - a]
      <4>1. v[k - (a + 1)] = w[k - (a + 1) + 1]
        BY <1>2, <3>1
      <4>2. QED BY <3>1, <4>1
    <3>6. QED BY <3>3, <3>4, <3>5
  <2>4. QED BY <2>1, <2>2, <2>3
<1>8. Len(e) = a + 1 + b /\ Len(c) = a + 1 + b
  BY <1>4, <1>5
<1>9. QED BY <1>4, <1>5, <1>7, <1>8, SameElements DEF c, e, v, o

(* The main loop takes a message.                                          *)
LEMMA ComingTake ==
    ASSUME NEW q \in Seq(Message), q # <<>>, NEW p, NEW w \in Seq(Write)
    PROVE  /\ ComingOf(q, p, w) # <<>>
           /\ Head(ComingOf(q, p, w)) = Understood(Head(q))
           /\ ComingOf(Tail(q), p, w) = Tail(ComingOf(q, p, w))
<1> DEFINE o == Tail(q)
           c == ComingOf(q, p, w)
           e == ComingOf(o, p, w)
           t == Tail(c)
<1>1. PICK a \in Nat, b \in Nat : a + 1 = Len(q) /\ b = Len(w)
  <2>1. Len(q) \in Nat \ {0} /\ Len(w) \in Nat
    BY LenProperties, EmptySeq
  <2>2. Len(q) - 1 \in Nat /\ Len(q) - 1 + 1 = Len(q)
    BY <2>1
  <2>3. QED BY <2>1, <2>2
<1>2. o \in Seq(Message) /\ Len(o) = a /\ \A k \in 1 .. a : o[k] = q[k + 1]
  <2>1. /\ o \in Seq(Message) /\ Len(o) = Len(q) - 1
        /\ \A k \in 1 .. Len(o) : o[k] = q[k + 1]
    BY HeadTailProperties
  <2>2. Len(q) - 1 = a
    BY <1>1
  <2>3. QED BY <2>1, <2>2
<1>3. /\ c \in Seq(Meanings(q, p, w)) /\ Len(c) = a + 1 + b
      /\ \A k \in 1 .. a + 1 + b : c[k] = IF k <= a + 1 THEN Understood(q[k])
                                          ELSE IF k = a + 2 THEN Meaning(p, w[1])
                                          ELSE Meaning(Outside, w[k - (a + 1)])
  <2>1. /\ c \in Seq(Meanings(q, p, w)) /\ Len(c) = Len(q) + Len(w)
        /\ \A k \in 1 .. Len(q) + Len(w) :
             c[k] = IF k <= Len(q) THEN Understood(q[k])
                    ELSE IF k = Len(q) + 1 THEN Meaning(p, w[1])
                    ELSE Meaning(Outside, w[k - Len(q)])
    BY ComingSeq
  <2>2. a + 1 + 1 = a + 2
    OBVIOUS
  <2> HIDE DEF c
  <2>3. QED BY <1>1, <2>1, <2>2
<1> HIDE DEF o
<1>4. /\ e \in Seq(Meanings(o, p, w)) /\ Len(e) = a + b
      /\ \A k \in 1 .. a + b : e[k] = IF k <= a THEN Understood(o[k])
                                      ELSE IF k = a + 1 THEN Meaning(p, w[1])
                                      ELSE Meaning(Outside, w[k - a])
  <2>1. /\ e \in Seq(Meanings(o, p, w)) /\ Len(e) = Len(o) + Len(w)
        /\ \A k \in 1 .. Len(o) + Len(w) :
             e[k] = IF k <= Len(o) THEN Understood(o[k])
                    ELSE IF k = Len(o) + 1 THEN Meaning(p, w[1])
                    ELSE Meaning(Outside, w[k - Len(o)])
    BY <1>2, ComingSeq
  <2> HIDE DEF e
  <2>2. QED BY <1>1, <1>2, <2>1
<1> HIDE DEF c, e
<1>5. c # <<>>
  <2>1. c = <<>> => Len(c) = 0
    BY EmptySeq
  <2>2. QED BY <1>3, <2>1
<1>6. /\ t \in Seq(Meanings(q, p, w)) /\ Len(t) = a + b
      /\ \A k \in 1 .. a + b : t[k] = c[k + 1]
  <2>1. /\ t \in Seq(Meanings(q, p, w)) /\ Len(t) = Len(c) - 1
        /\ \A k \in 1 .. Len(t) : t[k] = c[k + 1]
    BY <1>3, <1>5, HeadTailProperties
  <2>2. Len(c) - 1 = a + b
    BY <1>3
  <2> HIDE DEF t
  <2>3. QED BY <2>1, <2>2
<1> HIDE DEF t
<1>7. ASSUME NEW k \in 1 .. a + b PROVE e[k] = t[k]
  <2>1. t[k] = c[k + 1] /\ k + 1 \in 1 .. a + 1 + b
    BY <1>6
  <2>2. CASE k <= a
    <3>1. k + 1 <= a + 1 /\ k \in 1 .. a
      BY <2>2
    <3>2. c[k + 1] = Understood(q[k + 1])
      BY <1>3, <2>1, <3>1
    <3>3. e[k] = Understood(o[k])
      BY <1>4, <2>2
    <3>4. QED BY <1>2, <2>1, <3>1, <3>2, <3>3
  <2>3. CASE k = a + 1
    <3>1. ~(k <= a) /\ ~(k + 1 <= a + 1) /\ k + 1 = a + 2
      BY <2>3
    <3>2. c[k + 1] = Meaning(p, w[1]) /\ e[k] = Meaning(p, w[1])
      BY <1>3, <1>4, <2>1, <2>3, <3>1
    <3>3. QED BY <2>1, <3>2
  <2>4. CASE k > a + 1
    <3>1. PICK j \in 1 .. a + 1 + b : j = k + 1
      BY <2>1
    <3>2. /\ ~(k <= a) /\ k # a + 1
          /\ ~(j <= a + 1) /\ j # a + 2 /\ j - (a + 1) = k - a
      BY <2>4, <3>1
    <3>3. c[j] = Meaning(Outside, w[k - a])
      BY <1>3, <3>2
    <3>4. e[k] = Meaning(Outside, w[k - a])
      BY <1>4, <3>2
    <3>5. QED BY <2>1, <3>1, <3>3, <3>4
  <2>5. QED BY <2>2, <2>3, <2>4
<1>8. e = t
  BY <1>4, <1>6, <1>7, SameElements
<1>9. Head(c) = Understood(Head(q))
  <2>1. Head(c) = c[1] /\ Head(q) = q[1]
    <3>1. Head(c) = c[1]
      BY <1>3, <1>5
    <3>2. Head(q) = q[1]
      OBVIOUS
    <3>3. QED BY <3>1, <3>2
  <2>2. 1 \in 1 .. a + 1 + b /\ 1 <= a + 1
    OBVIOUS
  <2>3. c[1] = Understood(q[1])
    BY <1>3, <2>2
  <2>4. QED BY <2>1, <2>3
<1>10. QED BY <1>5, <1>8, <1>9 DEF c, e, t, o

----------------------------------------------------------------------------
(* The node implements Line, step by step.                                 *)
LP == INSTANCE LineProofs WITH
        Packet <- {AsSent(Heard[i]) : i \in DOMAIN Heard}, NoPacket <- Nothing,
        sending <- transmitting # Nothing, coming <- Coming,
        heard <- [i \in DOMAIN heard |-> AsSent(heard[i])]

LEMMA ComingIs == Coming = ComingOf(rQueue, parser, wire)
  BY DEF Coming, ComingOf

LEMMA OutsideTyped == Outside \in Parser /\ ~Outside.message
<1>1. ~Outside.message
  BY DEF Outside
<1>2. Outside \in Parser
  BY EmptySeq DEF Outside, Parser, NoLength
<1>3. QED BY <1>1, <1>2

(* A message of the server, in one byte.                                   *)
LEMMA Tells ==
    ASSUME NEW q \in Seq(Message), NEW p \in Parser, NEW w \in Seq(Write), Wired(p, w),
           NEW type \in ServerTypes, NEW v, v = Append(w, <<SignalByte(type)>>)
    PROVE  /\ v \in Seq(Write) /\ Wired(p, v)
           /\ ComingOf(q, p, v) = Append(ComingOf(q, p, w), LP!Told(type))
<1> DEFINE x == <<SignalByte(type)>>
<1>1. Genuine(x)
  BY DEF Genuine
<1>2. Meaning(Outside, x) = [type |-> type, packet |-> Nothing]
  BY OutsideTyped, SignalWrites
<1>3. LP!Told(type) = [type |-> type, packet |-> Nothing]
  BY DEF LP!Told
<1> HIDE DEF x
<1>4. QED BY <1>1, <1>2, <1>3, WiredAppend, ComingAppend DEF x

(* The packet of another node.                                             *)
LEMMA Delivers ==
    ASSUME NEW q \in Seq(Message), NEW p \in Parser, NEW w \in Seq(Write), Wired(p, w),
           NEW i \in DOMAIN Heard
    PROVE  LET v == Append(w, Framed(PacketOf(Heard[i])))
           IN /\ v \in Seq(Write) /\ Wired(p, v)
              /\ ComingOf(q, p, v) = Append(ComingOf(q, p, w), LP!Delivered(AsSent(Heard[i])))
<1> DEFINE x == Framed(PacketOf(Heard[i]))
<1>1. Genuine(x)
  BY DEF Genuine
<1>2. Meaning(Outside, x) = [type |-> "DATA", packet |-> AsSent(Heard[i])]
  BY OutsideTyped, FrameWrites
<1>3. LP!Delivered(AsSent(Heard[i])) = [type |-> "DATA", packet |-> AsSent(Heard[i])]
  BY DEF LP!Delivered
<1> HIDE DEF x
<1>4. QED BY <1>1, <1>2, <1>3, WiredAppend, ComingAppend DEF x

SocketInv == QueuesTyped /\ SocketTyped /\ Wired(parser, wire)

LEMMA SocketInvFacts ==
    ASSUME SocketInv
    PROVE  /\ rQueue \in Seq(Message) /\ parser \in Parser /\ wire \in Seq(Write)
           /\ Wired(parser, wire)
  BY DEF SocketInv, QueuesTyped, R!QueueTypeOK, SocketTyped, Write

LEMMA TransmitStep ==
    ASSUME SocketInv, Transmit
    PROVE  SocketTyped' /\ Wired(parser, wire)' /\ LP!Begins
<1>1. /\ wire' \in Seq(Write) /\ Wired(parser, wire')
      /\ ComingOf(rQueue, parser, wire')
            = Append(ComingOf(rQueue, parser, wire), LP!Told("SENDING"))
  BY SocketInvFacts, Tells DEF Transmit, ServerTypes
<1>2. /\ transmitting' \in Sender \cup {Table} /\ transmitting = Nothing
      /\ UNCHANGED <<receiverQueue, parser, link, transmitted, other, sent, heard,
                     line, dispatched>>
  <2>1. sQueue \in Seq(Sender \cup {Table}) /\ sQueue # <<>>
    BY DEF SocketInv, QueuesTyped, S!QueueTypeOK, Transmit, S!Pop
  <2>2. Head(sQueue) \in Sender \cup {Table}
    BY <2>1, HeadTailProperties
  <2>3. QED BY <2>2 DEF Transmit
<1>3. SocketTyped'
  BY <1>1, <1>2 DEF SocketInv, SocketTyped, Write
<1>4. transmitting' # Nothing
  BY <1>2, RadioAssumption
<1>5. Coming' = Append(Coming, LP!Told("SENDING"))
  BY <1>1, <1>2, ComingIs DEF Coming, ComingOf, receiverQueue
<1>6. LP!Begins
  BY <1>2, <1>4, <1>5 DEF LP!Begins, line
<1>7. QED BY <1>1, <1>2, <1>3, <1>6

LEMMA EndTransmissionStep ==
    ASSUME SocketInv, EndTransmission
    PROVE  SocketTyped' /\ Wired(parser, wire)' /\ LP!Ends
<1>1. /\ wire' \in Seq(Write) /\ Wired(parser, wire')
      /\ ComingOf(rQueue, parser, wire')
           = Append(ComingOf(rQueue, parser, wire), LP!Told("DONE_SENDING"))
  BY SocketInvFacts, Tells DEF EndTransmission, ServerTypes
<1>2. /\ transmitting' = Nothing /\ transmitting # Nothing
      /\ UNCHANGED <<receiverQueue, parser, link, other, sent, heard, line, dispatched>>
  BY DEF EndTransmission
<1>3. transmitted' \in [Sender -> Nat]
  <2>1. \A t \in Sender : transmitted[t] + (IF t = transmitting THEN 1 ELSE 0) \in Nat
    BY DEF SocketInv, SocketTyped
  <2>2. QED BY <2>1 DEF EndTransmission
<1>4. SocketTyped'
  BY <1>1, <1>2, <1>3 DEF SocketInv, SocketTyped, Write
<1>5. Coming' = Append(Coming, LP!Told("DONE_SENDING"))
  BY <1>1, <1>2, ComingIs DEF Coming, ComingOf, receiverQueue
<1>6. LP!Ends
  BY <1>2, <1>5 DEF LP!Ends, line
<1>7. QED BY <1>1, <1>2, <1>4, <1>6

LEMMA OtherBeginsStep ==
    ASSUME SocketInv, OtherBegins
    PROVE  SocketTyped' /\ Wired(parser, wire)' /\ LP!OtherBegins
<1>1. /\ wire' \in Seq(Write) /\ Wired(parser, wire')
      /\ ComingOf(rQueue, parser, wire') = Append(ComingOf(rQueue, parser, wire), LP!Told("BUSY"))
  BY SocketInvFacts, Tells DEF OtherBegins, ServerTypes
<1>2. /\ ~other /\ other' = TRUE /\ sent' = sent + 1 /\ sent < Len(Heard)
      /\ UNCHANGED <<receiverQueue, parser, link, transmitting, transmitted, heard,
                     line, dispatched>>
  BY DEF OtherBegins
<1>3. sent' \in 0 .. Len(Heard) /\ sent' # 0
  <2>1. PICK n \in Nat : n = Len(Heard)
    BY RadioAssumption, LenProperties
  <2>2. PICK k \in 0 .. n : k = sent
    BY <2>1 DEF SocketInv, SocketTyped
  <2>3. k < n => k + 1 \in 0 .. n /\ k + 1 # 0
    OBVIOUS
  <2>4. QED BY <1>2, <2>1, <2>2, <2>3
<1>4. SocketTyped'
  BY <1>1, <1>2, <1>3 DEF SocketInv, SocketTyped, Write
<1>5. Coming' = Append(Coming, LP!Told("BUSY"))
  BY <1>1, <1>2, ComingIs DEF Coming, ComingOf, receiverQueue
<1>6. LP!OtherBegins
  BY <1>2, <1>5 DEF LP!OtherBegins, line
<1>7. QED BY <1>1, <1>2, <1>4, <1>6

(* The packets passed on, as Line sees them.                               *)
LEMMA HeardGrows ==
    ASSUME NEW s \in Seq(Received), NEW x \in Received
    PROVE  [i \in DOMAIN Append(s, x) |-> AsSent(Append(s, x)[i])]
             = Append([i \in DOMAIN s |-> AsSent(s[i])], AsSent(x))
<1> DEFINE a == [i \in DOMAIN s |-> AsSent(s[i])]
           t == Append(s, x)
           e == [i \in DOMAIN t |-> AsSent(t[i])]
           A == {AsSent(y) : y \in Received}
           f == Append(a, AsSent(x))
<1>1. PICK n \in Nat : n = Len(s) /\ DOMAIN s = 1 .. n
  BY LenProperties
<1>2. t \in Seq(Received) /\ Len(t) = n + 1 /\ t[n + 1] = x /\ \A k \in 1 .. n : t[k] = s[k]
  BY <1>1, AppendProperties
<1>3. DOMAIN t = 1 .. n + 1
  <2> HIDE DEF t
  <2>1. DOMAIN t = 1 .. Len(t)
    BY <1>2, LenProperties
  <2>2. QED BY <1>2, <2>1
<1>4. a \in Seq(A) /\ Len(a) = n
  <2>1. \A k \in 1 .. n : s[k] \in Received
    BY <1>1, ElementOfSeq
  <2>2. a \in [1 .. n -> A]
    BY <1>1, <2>1
  <2> HIDE DEF a, A
  <2>3. QED BY <2>2, FunctionIsSeq
<1>5. f \in Seq(A) /\ Len(f) = n + 1 /\ f[n + 1] = AsSent(x) /\ \A k \in 1 .. n : f[k] = a[k]
  <2>1. AsSent(x) \in A
    OBVIOUS
  <2> HIDE DEF a, A
  <2>2. QED BY <1>4, <2>1, AppendProperties
<1>6. e \in Seq(A) /\ Len(e) = n + 1
  <2>1. \A k \in 1 .. n + 1 : t[k] \in Received
    <3> HIDE DEF t
    <3>1. QED BY <1>2, ElementOfSeq
  <2> HIDE DEF t
  <2>2. e \in [1 .. n + 1 -> A]
    BY <1>3, <2>1
  <2> HIDE DEF e, A
  <2>3. n + 1 \in Nat
    OBVIOUS
  <2>4. QED BY <2>2, <2>3, FunctionIsSeq
<1>7. ASSUME NEW k \in 1 .. n + 1 PROVE e[k] = f[k]
  <2>1. e[k] = AsSent(t[k])
    BY <1>3
  <2>2. CASE k = n + 1
    BY <1>2, <1>5, <2>1, <2>2
  <2>3. CASE k # n + 1
    <3>1. k \in 1 .. n
      BY <2>3
    <3>2. a[k] = AsSent(s[k])
      BY <1>1, <3>1
    <3> HIDE DEF a, e, f, t
    <3>3. QED BY <1>2, <1>5, <2>1, <3>1, <3>2
  <2>4. QED BY <2>2, <2>3
<1> HIDE DEF e, f, A
<1>8. QED BY <1>5, <1>6, <1>7, SeqEqual DEF e, f

LEMMA OtherEndsStep ==
    ASSUME SocketInv, NEW arrives \in BOOLEAN, OtherEnds(arrives)
    PROVE  /\ SocketTyped' /\ Wired(parser, wire)'
           /\ LP!OtherIsLost \/ LP!OtherArrives(AsSent(Heard[sent]))
           /\ AsSent(Heard[sent]) \in {AsSent(Heard[i]) : i \in DOMAIN Heard}
<1>1. sent \in DOMAIN Heard /\ Heard[sent] \in Received
  <2>1. PICK n \in Nat : n = Len(Heard) /\ DOMAIN Heard = 1 .. n
    BY RadioAssumption, LenProperties
  <2>2. PICK k \in 0 .. n : k = sent /\ k # 0
    BY <2>1 DEF SocketInv, SocketTyped, OtherEnds
  <2>3. k \in 1 .. n
    BY <2>2
  <2>4. QED BY <2>1, <2>2, <2>3, HeardPackets
<1>2. /\ other /\ other' = FALSE /\ (transmitting = Nothing => arrives)
      /\ UNCHANGED <<receiverQueue, parser, link, transmitting, transmitted, sent,
                     line, dispatched>>
  BY DEF OtherEnds
<1> DEFINE x == Framed(PacketOf(Heard[sent]))
           y == <<SignalByte("FREE")>>
           v == Append(wire, x)
<1>3. CASE arrives
  <2>1. x \in Write /\ y \in Write
    BY <1>1, GenuineWrites DEF Genuine, ServerTypes
  <2>2. heard' = Append(heard, Heard[sent]) /\ wire' = wire \o <<x>> \o <<y>>
    BY <1>3 DEF OtherEnds
  <2>3. v \in Seq(Write) /\ Wired(parser, v)
        /\ ComingOf(rQueue, parser, v)
             = Append(ComingOf(rQueue, parser, wire), LP!Delivered(AsSent(Heard[sent])))
    <3>1. /\ rQueue \in Seq(Message) /\ parser \in Parser /\ wire \in Seq(Write)
          /\ Wired(parser, wire) /\ sent \in DOMAIN Heard /\ v = Append(wire, x)
      BY <1>1, SocketInvFacts
    <3> HIDE DEF v, x
    <3>2. \A i \in DOMAIN Heard :
             LET u == Append(wire, Framed(PacketOf(Heard[i])))
             IN /\ u \in Seq(Write) /\ Wired(parser, u)
                /\ ComingOf(rQueue, parser, u)
                     = Append(ComingOf(rQueue, parser, wire), LP!Delivered(AsSent(Heard[i])))
      BY <3>1, Delivers
    <3>3. QED BY <3>1, <3>2 DEF x
  <2>4. wire' = Append(v, y)
    <3>1. wire \in Seq(Write)
      BY SocketInvFacts
    <3> HIDE DEF x, y
    <3>2. v = wire \o <<x>>
      BY <2>1, <3>1, AppendIsConcat
    <3>3. Append(v, y) = v \o <<y>>
      <4> HIDE DEF v
      <4>1. QED BY <2>1, <2>3, AppendIsConcat
    <3>4. QED BY <2>2, <3>2, <3>3
  <2> HIDE DEF v
  <2>5. /\ wire' \in Seq(Write) /\ Wired(parser, wire')
        /\ ComingOf(rQueue, parser, wire')
             = Append(ComingOf(rQueue, parser, v), LP!Told("FREE"))
    BY <2>3, <2>4, SocketInvFacts, Tells DEF ServerTypes
  <2>6. heard' \in Seq(Received)
    BY <1>1, <2>2, AppendProperties DEF SocketInv, SocketTyped
  <2>7. SocketTyped'
    BY <1>2, <2>5, <2>6 DEF SocketInv, SocketTyped, Write
  <2>8. Coming' = Append(Append(Coming, LP!Delivered(AsSent(Heard[sent]))), LP!Told("FREE"))
    BY <1>2, <2>3, <2>5, ComingIs DEF Coming, ComingOf, receiverQueue
  <2>9. [i \in DOMAIN heard' |-> AsSent(heard'[i])]
          = Append([i \in DOMAIN heard |-> AsSent(heard[i])], AsSent(Heard[sent]))
    BY <1>1, <2>2, HeardGrows DEF SocketInv, SocketTyped
  <2>10. LP!OtherArrives(AsSent(Heard[sent]))
    BY <1>2, <2>8, <2>9 DEF LP!OtherArrives, line
  <2>11. QED BY <1>1, <1>2, <2>5, <2>7, <2>10
<1>4. CASE ~arrives
  <2>1. heard' = heard /\ wire' = wire \o <<>> \o <<y>>
    BY <1>4 DEF OtherEnds
  <2>2. wire' = Append(wire, y)
    <3>1. y \in Write
      BY GenuineWrites DEF Genuine, ServerTypes
    <3>2. wire \in Seq(Write)
      BY SocketInvFacts
    <3> HIDE DEF y
    <3>3. wire \o <<>> = wire
      BY <3>2, ConcatEmptySeq
    <3>4. QED BY <2>1, <3>1, <3>2, <3>3, AppendIsConcat
  <2>3. /\ wire' \in Seq(Write) /\ Wired(parser, wire')
        /\ ComingOf(rQueue, parser, wire')
             = Append(ComingOf(rQueue, parser, wire), LP!Told("FREE"))
    BY <2>2, SocketInvFacts, Tells DEF ServerTypes
  <2>4. SocketTyped'
    BY <1>2, <2>1, <2>3 DEF SocketInv, SocketTyped, Write
  <2>5. Coming' = Append(Coming, LP!Told("FREE"))
    BY <1>2, <2>3, ComingIs DEF Coming, ComingOf, receiverQueue
  <2>6. LP!OtherIsLost
    BY <1>2, <1>4, <2>1, <2>5 DEF LP!OtherIsLost, line
  <2>7. QED BY <1>1, <1>2, <2>3, <2>4, <2>6
<1>5. QED BY <1>3, <1>4

(* Receive: outside, nothing has happened.                                 *)
LEMMA ReceiveStep ==
    ASSUME SocketInv, Receive
    PROVE  /\ SocketTyped' /\ Wired(parser, wire)' /\ UNCHANGED LP!vars
           /\ (\E m \in Message : R!Push("receiver", m)) \/ UNCHANGED receiverQueue
<1> DEFINE b == Head(wire[1])
           q == Parsed(parser, b)
<1>1. /\ wire # <<>> /\ wire \in Seq(Write) /\ parser \in Parser /\ rQueue \in Seq(Message)
      /\ Wired(parser, wire)
  BY SocketInvFacts DEF Receive
<1>2. Head(wire) = wire[1] /\ b \in Byte
  BY <1>1, NextByte
<1>3. /\ parser' = q /\ wire' = Left(wire)
      /\ (\E m \in Pushed(parser, b) : R!Push("receiver", m))
           \/ (Pushed(parser, b) = {} /\ UNCHANGED receiverQueue)
      /\ UNCHANGED <<line, dispatched, link, transmitting, transmitted, other, sent, heard>>
  BY <1>2 DEF Receive, Left
<1>4. ReadOf(parser, wire[1]) /\ Wired(q, Left(wire))
  BY <1>1, WiredRead
<1>5. q \in Parser /\ Pushed(parser, b) \subseteq Message
  BY <1>1, <1>2, ParserTyped
<1>6. wire' \in Seq(Write)
  BY <1>1, <1>3, LeftOnWire
<1>7. SocketTyped'
  BY <1>3, <1>5, <1>6 DEF SocketInv, SocketTyped, Write
<1>8. Coming' = Coming
  <2>1. CASE Len(wire[1]) = 1
    <3>1. PICK m \in Message :
             Pushed(parser, b) = {m} /\ Understood(m) = Meaning(parser, wire[1]) /\ ~q.message
      BY <1>4, <2>1 DEF ReadOf
    <3>2. R!Push("receiver", m)
      BY <1>3, <3>1
    <3>3. rQueue' = Append(rQueue, m)
      BY <3>2 DEF R!Push
    <3>4. ComingOf(Append(rQueue, m), q, Left(wire)) = ComingOf(rQueue, parser, wire)
      BY <1>1, <1>2, <2>1, <3>1, ComingComplete
    <3> HIDE DEF q
    <3>5. QED BY <1>3, <3>3, <3>4, ComingIs DEF Coming, ComingOf
  <2>2. CASE Len(wire[1]) # 1
    <3>1. Pushed(parser, b) = {} /\ Meaning(q, Tail(wire[1])) = Meaning(parser, wire[1])
      BY <1>4, <2>2 DEF ReadOf
    <3>2. rQueue' = rQueue
      BY <1>3, <3>1 DEF receiverQueue
    <3>3. ComingOf(rQueue, q, Left(wire)) = ComingOf(rQueue, parser, wire)
      BY <1>1, <1>2, <2>2, <3>1, ComingRead
    <3> HIDE DEF q
    <3>4. QED BY <1>3, <3>2, <3>3, ComingIs DEF Coming, ComingOf
  <2>3. QED BY <2>1, <2>2
<1>9. UNCHANGED LP!vars
  BY <1>3, <1>8 DEF LP!vars, line
<1>10. QED BY <1>3, <1>4, <1>5, <1>7, <1>9

(* Dispatch: the next message is taken.  What may come is what Line says,  *)
(* so that none of the messages the main loop ignores is among it.         *)
LEMMA DispatchStep ==
    ASSUME SocketInv, LP!TypeOK, Dispatch
    PROVE  SocketTyped' /\ Wired(parser, wire)' /\ LP!Take
<1> DEFINE m == Head(rQueue)
           u == Understood(m)
<1>1. /\ rQueue \in Seq(Message) /\ wire \in Seq(Write) /\ rQueue # <<>>
      /\ rQueue' = Tail(rQueue) /\ UNCHANGED <<parser, server>>
  BY SocketInvFacts DEF Dispatch, R!Pop
<1>2. /\ Coming # <<>> /\ Head(Coming) = u /\ Coming' = Tail(Coming)
  <2>1. /\ ComingOf(rQueue, parser, wire) # <<>>
        /\ Head(ComingOf(rQueue, parser, wire)) = u
        /\ ComingOf(Tail(rQueue), parser, wire) = Tail(ComingOf(rQueue, parser, wire))
    BY <1>1, ComingTake
  <2>2. Coming' = ComingOf(rQueue', parser', wire')
    BY DEF Coming, ComingOf
  <2>3. rQueue' = Tail(rQueue) /\ parser' = parser /\ wire' = wire
    BY <1>1 DEF server
  <2> HIDE DEF u
  <2>4. Coming' = ComingOf(Tail(rQueue), parser, wire)
    BY <2>2, <2>3
  <2>5. QED BY <2>1, <2>4, ComingIs
<1>3. u.type \in {"SENDING", "DONE_SENDING", "BUSY", "FREE", "DATA"}
  <2>1. u \in LP!Item
    BY <1>2, HeadTailProperties DEF LP!TypeOK
  <2>2. QED BY <2>1, LP!Items
<1>4. /\ u.type = m.type
      /\ m.type = "DATA" => u.packet = Decoded(m.data)
  BY DEF Understood
<1>5. /\ DispatchLine(m)
      /\ IF m.type = "DATA" THEN DispatchPacket(m) ELSE UNCHANGED <<dispatched, starter, pause>>
  BY DEF Dispatch
<1> HIDE DEF m, u
<1>6. dispatched' = IF u.type = "DATA" THEN Append(dispatched, u.packet) ELSE dispatched
  BY <1>4, <1>5 DEF DispatchPacket
<1>7. is_line_busy' = IF u.type = "DATA" THEN is_line_busy ELSE u.type \in {"BUSY", "SENDING"}
  <2>1. is_line_busy' = (\/ u.type \in {"BUSY", "SENDING"}
                         \/ u.type \notin {"FREE", "DONE_SENDING"} /\ is_line_busy)
    BY <1>4, <1>5 DEF DispatchLine
  <2>2. is_line_busy \in BOOLEAN
    BY DEF LP!TypeOK
  <2>3. CASE u.type = "DATA"
    BY <2>1, <2>2, <2>3
  <2>4. CASE u.type \in {"SENDING", "BUSY"}
    BY <2>1, <2>4
  <2>5. CASE u.type \in {"DONE_SENDING", "FREE"}
    <3>1. u.type \notin {"BUSY", "SENDING"} /\ u.type # "DATA"
      BY <2>5
    <3>2. is_line_busy' = FALSE
      BY <2>1, <2>5, <3>1
    <3>3. (u.type \in {"BUSY", "SENDING"}) = FALSE
      BY <3>1
    <3>4. QED BY <3>1, <3>2, <3>3, Zenon
  <2>6. QED BY <1>3, <2>3, <2>4, <2>5
<1>8. LP!Take
  BY <1>1, <1>2, <1>6, <1>7 DEF LP!Take, server
<1>9. SocketTyped' /\ Wired(parser', wire')
  BY <1>1 DEF SocketInv, SocketTyped, server
<1>10. QED BY <1>8, <1>9

(* The rest of the program Line does not see.                              *)
LEMMA OtherStep ==
    ASSUME SocketInv, UNCHANGED <<rQueue, line, parser, dispatched, server>>
    PROVE  SocketTyped' /\ Wired(parser, wire)' /\ UNCHANGED LP!vars
<1>1. Coming' = Coming
  BY ComingIs DEF Coming, ComingOf, server
<1>2. UNCHANGED LP!vars
  BY <1>1 DEF LP!vars, line, server
<1>3. QED BY <1>2 DEF SocketInv, SocketTyped, server

----------------------------------------------------------------------------
(* The inductive invariant of the node: its types, the bytes on the wire   *)
(* and in the parser, and the invariant of Line.                           *)
NodeInv == ProgramTyped /\ SocketInv /\ LP!LineInv

LEMMA NodeInvInit ==
    ASSUME Init
    PROVE  NodeInv /\ LP!Init
<1>1. QueuesTyped
  <2>1. <<>> \in Seq(Message) /\ <<>> \in Seq(Sender \cup {Table})
    BY EmptySeq
  <2>2. QED BY <2>1 DEF Init, QueuesTyped, S!QueueInit, R!QueueInit, S!QueueTypeOK, R!QueueTypeOK
<1>2. ProgramTyped
  <2>1. 0 \in 0 .. MAX_BROADCASTS
    BY RadioAssumption
  <2>2. QED BY <2>1 DEF Init, ProgramTyped, States
<1>3. SocketTyped
  <2>1. wire \in Seq(Write) /\ heard \in Seq(Received) /\ parser \in Parser
    BY EmptySeq, OutsideTyped DEF Init
  <2>2. sent \in 0 .. Len(Heard)
    <3>1. PICK n \in Nat : n = Len(Heard)
      BY RadioAssumption, LenProperties
    <3>2. 0 \in 0 .. n
      OBVIOUS
    <3>3. QED BY <3>1, <3>2 DEF Init
  <2>3. QED BY <2>1, <2>2 DEF Init, SocketTyped, Write
<1>4. Wired(parser, wire)
  <2>1. Len(wire) = 0 /\ wire = <<>> /\ ~parser.message
    BY EmptySeq, OutsideTyped DEF Init
  <2>2. QED BY <2>1 DEF Wired
<1>5. LP!Init
  <2>1. /\ Coming \in Seq(Meanings(rQueue, parser, wire)) /\ Len(Coming) = 0
    <3>1. /\ rQueue \in Seq(Message) /\ wire \in Seq(Write) /\ Len(rQueue) = 0 /\ Len(wire) = 0
      BY EmptySeq DEF Init, R!QueueInit
    <3>2. /\ Coming \in Seq(Meanings(rQueue, parser, wire))
          /\ Len(Coming) = Len(rQueue) + Len(wire)
      BY <3>1, ComingSeq, ComingIs
    <3>3. QED BY <3>1, <3>2
  <2>2. Coming = <<>>
    BY <2>1, EmptySeq
  <2>3. [i \in DOMAIN heard |-> AsSent(heard[i])] = <<>>
    <3>1. DOMAIN heard = {} /\ heard = <<>>
      BY DEF Init
    <3>2. QED BY <3>1
  <2>4. (transmitting # Nothing) = FALSE
    BY DEF Init
  <2>5. QED BY <2>2, <2>3, <2>4 DEF Init, LP!Init
<1>6. LP!LineInv
  BY <1>5, LP!LineInvInit
<1>7. QED BY <1>1, <1>2, <1>3, <1>4, <1>5, <1>6 DEF NodeInv, SocketInv

(* Every step of the node is one of Line, or none.                         *)
LEMMA NodeStep ==
    ASSUME NodeInv, [Next]_vars
    PROVE  NodeInv' /\ [LP!Next]_LP!vars
<1> DEFINE K == SocketTyped' /\ Wired(parser, wire)' /\ [LP!Next]_LP!vars
<1>1. SocketInv /\ LP!TypeOK
  BY DEF NodeInv, LP!LineInv
<1>2. K
  <2>1. ASSUME UNCHANGED <<rQueue, line, parser, dispatched, server>> PROVE K
    BY <1>1, <2>1, OtherStep
  <2>2. CASE \E t \in Thread : Sending(t)
    BY <2>1, <2>2 DEF Sending, BeginSend, Look, LookAgain, Queue, Notify, EndBroadcast,
                      receiverQueue
  <2>3. CASE TickBroadcast \/ ResumeTimeout \/ \E c \in Starter : Starting(c)
    BY <2>1, <2>3 DEF TickBroadcast, ResumeTimeout, Starting, TestPending, SetPending, receiverQueue
  <2>4. CASE WaitSender
    BY <2>1, <2>4 DEF WaitSender, receiverQueue
  <2>5. CASE NotifyMain \/ WaitMain
    <3>1. UNCHANGED <<rQueue, line, parser, dispatched, server>>
      BY <2>5 DEF NotifyMain, WaitMain, R!NotifyOne, R!Wait, R!PopEmpty
    <3>2. QED BY <2>1, <3>1
  <2>6. CASE Transmit
    BY <1>1, <2>6, TransmitStep DEF LP!Next
  <2>7. CASE EndTransmission
    BY <1>1, <2>7, EndTransmissionStep DEF LP!Next
  <2>8. CASE OtherBegins
    BY <1>1, <2>8, OtherBeginsStep DEF LP!Next
  <2>9. CASE \E arrives \in BOOLEAN : OtherEnds(arrives)
    BY <1>1, <2>9, OtherEndsStep DEF LP!Next
  <2>10. CASE Receive
    BY <1>1, <2>10, ReceiveStep
  <2>11. CASE Dispatch
    BY <1>1, <2>11, DispatchStep DEF LP!Next
  <2>12. CASE UNCHANGED vars
    BY <2>1, <2>12 DEF vars, receiverQueue
  <2> HIDE DEF K
  <2>13. QED
    BY <2>2, <2>3, <2>4, <2>5, <2>6, <2>7, <2>8, <2>9, <2>10, <2>11, <2>12
       DEF Next, Program, Client, Server, Reading, Main
<1>3. QueuesTyped'
  <2>1. /\ \/ \E t \in Thread, x \in Sender \cup {Table} : S!Push(t, x)
           \/ \E t \in Thread : S!NotifyOne(t)
           \/ S!Wait \/ S!Pop \/ S!PopEmpty \/ UNCHANGED senderQueue
        /\ \/ Receive \/ R!NotifyOne("receiver")
           \/ R!Wait \/ R!Pop \/ R!PopEmpty \/ UNCHANGED receiverQueue
    BY QueueSteps
  <2>2. Receive => (\E m \in Message : R!Push("receiver", m)) \/ UNCHANGED receiverQueue
    BY <1>1, ReceiveStep
  <2>3. QED BY <1>1, <2>1, <2>2, SenderQueueTyped, ReceiverQueueTyped DEF SocketInv, QueuesTyped
<1>4. ProgramTyped'
  BY ProgramTypedNext DEF NodeInv
<1>5. LP!LineInv'
  BY <1>2, LP!LineInvNext DEF NodeInv
<1>6. QED BY <1>2, <1>3, <1>4, <1>5 DEF NodeInv, SocketInv

LEMMA NodeInvImplies ==
    ASSUME NodeInv
    PROVE  TypeOK /\ DispatchedAsSent /\ BusyHasReason
<1>1. LP!TypeOK /\ LP!DispatchedInOrder /\ LP!BusyHasReason
  BY LP!LineInvImplies DEF NodeInv, LP!LineInv
<1>2. heard \in Seq(Received)
  BY DEF NodeInv, SocketInv, SocketTyped
<1> DEFINE g == [i \in DOMAIN heard |-> AsSent(heard[i])]
<1>3. PICK n \in Nat : n = Len(heard) /\ DOMAIN heard = 1 .. n
  BY <1>2, LenProperties
<1>4. Len(g) = n
  <2>1. g \in [1 .. n -> {AsSent(heard[i]) : i \in DOMAIN heard}]
    BY <1>3
  <2> HIDE DEF g
  <2>2. QED BY <2>1, FunctionIsSeq
<1>5. DispatchedAsSent
  <2>1. Len(dispatched) <= Len(g) /\ \A i \in 1 .. Len(dispatched) : dispatched[i] = g[i]
    BY <1>1 DEF LP!DispatchedInOrder
  <2>2. PICK k \in Nat : k = Len(dispatched)
    BY <1>1, LenProperties DEF LP!TypeOK
  <2>3. k <= n
    <3> HIDE DEF g
    <3>1. QED BY <1>4, <2>1, <2>2
  <2>4. \A i \in 1 .. k : i \in 1 .. n
    BY <2>3
  <2>5. \A i \in 1 .. n : g[i] = AsSent(heard[i])
    BY <1>3
  <2> HIDE DEF g
  <2>6. \A i \in 1 .. Len(dispatched) : dispatched[i] = AsSent(heard[i])
    BY <2>1, <2>2, <2>4, <2>5
  <2>7. Len(dispatched) <= Len(heard)
    BY <1>3, <1>4, <2>1
  <2>8. QED BY <2>6, <2>7 DEF DispatchedAsSent
<1>6. BusyHasReason
  <2>1. ASSUME is_line_busy, ~other, transmitting = Nothing
        PROVE  \E k \in DOMAIN Coming : Coming[k].type \in {"FREE", "DONE_SENDING"}
    <3>1. \E k \in 1 .. Len(Coming) : Coming[k].type \in {"FREE", "DONE_SENDING"}
      BY <1>1, <2>1 DEF LP!BusyHasReason, LP!Reason
    <3>2. DOMAIN Coming = 1 .. Len(Coming)
      BY <1>1, LenProperties DEF LP!TypeOK
    <3>3. QED BY <3>1, <3>2
  <2>2. QED BY <2>1 DEF BusyHasReason
<1>7. dispatched \in Seq([h : WireHeader, payload : Seq(Byte)])
  <2>1. \A i \in DOMAIN Heard : AsSent(Heard[i]) \in [h : WireHeader, payload : Seq(Byte)]
    <3>1. TAKE i \in DOMAIN Heard
    <3>2. Heard[i] \in Received
      BY HeardPackets
    <3>3. Truncated(Heard[i].h) \in WireHeader
      BY <3>2, RoundTrip DEF Received
    <3>4. AsSent(Heard[i]) = [h |-> Truncated(Heard[i].h), payload |-> Heard[i].payload]
      BY <3>2 DEF AsSent, Received
    <3>5. QED BY <3>2, <3>3, <3>4 DEF Received
  <2>2. dispatched \in Seq({AsSent(Heard[i]) : i \in DOMAIN Heard})
    BY <1>1 DEF LP!TypeOK
  <2> DEFINE T == {AsSent(Heard[i]) : i \in DOMAIN Heard}
  <2>3. T \subseteq [h : WireHeader, payload : Seq(Byte)]
    BY <2>1
  <2> HIDE DEF T
  <2>4. dispatched \in Seq(T)
    BY <2>2 DEF T
  <2>5. QED BY <2>3, <2>4, SeqMonotonic
<1>8. TypeOK
  <2>1. QueuesTyped /\ ProgramTyped /\ SocketTyped
    BY DEF NodeInv, SocketInv
  <2>2. QED BY <1>7, <2>1 DEF ProgramTyped, QueuesTyped, SocketTyped, TypeOK, States, Received
<1>9. QED BY <1>5, <1>6, <1>8

LEMMA NodeInvariant == Spec => []NodeInv
<1>1. Init => NodeInv
  BY NodeInvInit
<1>2. NodeInv /\ [Next]_vars => NodeInv'
  BY NodeStep
<1>3. QED BY <1>1, <1>2, PTL DEF Spec

(* Every variable keeps its type, and the header of a packet that was      *)
(* decoded has fields of the width they have on the wire.                  *)
THEOREM TypesHold == Spec => []TypeOK
<1>1. NodeInv => TypeOK
  BY NodeInvImplies
<1>2. QED BY <1>1, NodeInvariant, PTL

(* The packets of the other nodes are decoded as they were sent, in order  *)
(* and each once, for any bytes they are made of.                          *)
THEOREM PacketsAreDecodedAsSent == Spec => []DispatchedAsSent
<1>1. NodeInv => DispatchedAsSent
  BY NodeInvImplies
<1>2. QED BY <1>1, NodeInvariant, PTL

(* The line is taken for busy only as long as somebody sends, or the       *)
(* message that corrects it is on its way.                                 *)
THEOREM LineIsBusyForAReason == Spec => []BusyHasReason
<1>1. NodeInv => BusyHasReason
  BY NodeInvImplies
<1>2. QED BY <1>1, NodeInvariant, PTL

(* The two instances of Line say the same.                                 *)
LEMMA SameLine == (L!Init <=> LP!Init) /\ ([LP!Next]_LP!vars => [L!Next]_L!vars)
<1>1. L!Init <=> LP!Init
  BY DEF L!Init, LP!Init
<1>2. L!Next <=> LP!Next
  BY DEF L!Next, L!Begins, L!Ends, L!OtherBegins, L!OtherIsLost, L!OtherArrives, L!Take,
         L!Told, L!Delivered, LP!Next, LP!Begins, LP!Ends, LP!OtherBegins, LP!OtherIsLost,
         LP!OtherArrives, LP!Take, LP!Told, LP!Delivered
<1>3. L!vars = LP!vars /\ L!vars' = LP!vars'
  BY DEF L!vars, LP!vars
<1>4. QED BY <1>1, <1>2, <1>3

(* The socket, the parser, the queue and the main loop implement Line.     *)
THEOREM NodeImplementsLine == Spec => TellsTheLine
<1>1. Init => NodeInv /\ L!Init
  BY NodeInvInit, SameLine
<1>2. NodeInv /\ [Next]_vars => NodeInv' /\ [L!Next]_L!vars
  BY NodeStep, SameLine
<1>3. QED BY <1>1, <1>2, PTL DEF Spec, TellsTheLine, L!Spec

----------------------------------------------------------------------------
(* Where the packet of a thread is, case by case.                          *)
Queued(q, t) == {i \in DOMAIN q : q[i] = t}
AtThread(t)    == /\ pc[t] \notin {"sent", "done"} /\ Queued(sQueue, t) = {}
                  /\ transmitting # t /\ transmitted[t] = 0
InQueue(t)     == /\ pc[t] \in {"sent", "done"} /\ (\E i : Queued(sQueue, t) = {i})
                  /\ transmitting # t /\ transmitted[t] = 0
AtServer(t)    == /\ pc[t] \in {"sent", "done"} /\ Queued(sQueue, t) = {}
                  /\ transmitting = t /\ transmitted[t] = 0
Transmitted(t) == /\ pc[t] \in {"sent", "done"} /\ Queued(sQueue, t) = {}
                  /\ transmitting # t /\ transmitted[t] = 1
Placed(t) == AtThread(t) \/ InQueue(t) \/ AtServer(t) \/ Transmitted(t)

(* A thread that has pushed and not notified yet has not gone on.          *)
PlaceInv == /\ \A t \in sNotifying : pc[t] = "sent"
            /\ \A t \in Sender : Placed(t)

LEMMA PlacedIsOnePlace ==
    ASSUME NEW t \in Sender, transmitted[t] \in Nat, Placed(t)
    PROVE  Cardinality(Places(t)) = 1
<1>1. \E p : Places(t) = {p}
  <2>1. CASE AtThread(t)
    <3>1. Places(t) = {<<"thread", 0>>}
      BY <2>1 DEF AtThread, Places, Queued
    <3>2. QED BY <3>1
  <2>2. CASE InQueue(t)
    <3>1. PICK i : Queued(sQueue, t) = {i}
      BY <2>2 DEF InQueue
    <3>2. Places(t) = {<<"queue", i>>}
      BY <2>2, <3>1 DEF InQueue, Places, Queued
    <3>3. QED BY <3>2
  <2>3. CASE AtServer(t)
    <3>1. Places(t) = {<<"server", 0>>}
      BY <2>3 DEF AtServer, Places, Queued
    <3>2. QED BY <3>1
  <2>4. CASE Transmitted(t)
    <3>1. 1 .. transmitted[t] = {1}
      BY <2>4 DEF Transmitted
    <3>2. Places(t) = {<<"transmitted", 1>>}
      BY <2>4, <3>1 DEF Transmitted, Places, Queued
    <3>3. QED BY <3>2
  <2>5. QED BY <2>1, <2>2, <2>3, <2>4 DEF Placed
<1>2. QED BY <1>1, FS_Singleton

LEMMA QueuedAfterPush ==
    ASSUME NEW Item, NEW q \in Seq(Item), NEW x \in Item, NEW t
    PROVE  Queued(Append(q, x), t) = Queued(q, t) \cup (IF x = t THEN {Len(q) + 1} ELSE {})
<1> DEFINE r == Append(q, x)
<1>1. PICK n \in Nat : Len(q) = n /\ DOMAIN q = 1 .. n
  BY LenProperties
<1>2. DOMAIN r = 1 .. (n + 1) /\ r[n + 1] = x /\ \A i \in 1 .. n : r[i] = q[i]
  BY <1>1, AppendProperties, LenProperties
<1> HIDE DEF r
<1>3. QED BY <1>1, <1>2 DEF Queued

LEMMA QueuedAfterPop ==
    ASSUME NEW Item, NEW q \in Seq(Item), q # <<>>, NEW t
    PROVE  Queued(Tail(q), t) = {i - 1 : i \in Queued(q, t) \ {1}}
<1> DEFINE r == Tail(q)
<1>1. PICK n \in Nat \ {0} : Len(q) = n /\ DOMAIN q = 1 .. n
  BY LenProperties, EmptySeq
<1>2. DOMAIN r = 1 .. (n - 1) /\ \A i \in 1 .. (n - 1) : r[i] = q[i + 1]
  BY <1>1, HeadTailProperties, LenProperties
<1> HIDE DEF r
<1>3. Queued(r, t) \subseteq {i - 1 : i \in Queued(q, t) \ {1}}
  <2> SUFFICES ASSUME NEW i \in Queued(r, t)
               PROVE  \E j \in Queued(q, t) \ {1} : i = j - 1
    OBVIOUS
  <2>1. i + 1 \in Queued(q, t) \ {1} /\ i = (i + 1) - 1
    BY <1>1, <1>2 DEF Queued
  <2>2. QED BY <2>1
<1>4. {i - 1 : i \in Queued(q, t) \ {1}} \subseteq Queued(r, t)
  <2> SUFFICES ASSUME NEW i \in Queued(q, t) \ {1}
               PROVE  i - 1 \in Queued(r, t)
    OBVIOUS
  <2>1. i \in 2 .. n /\ q[i] = t
    BY <1>1 DEF Queued
  <2>2. QED BY <1>2, <2>1 DEF Queued
<1>5. QED BY <1>3, <1>4 DEF r

(* Steps that touch none of the places of a packet, or do not move it.     *)
LEMMA NotMoved ==
    ASSUME NEW t, Placed(t), UNCHANGED <<sQueue, transmitting, transmitted>>,
           pc'[t] \in {"sent", "done"} <=> pc[t] \in {"sent", "done"}
    PROVE  Placed(t)'
  BY DEF Placed, AtThread, InQueue, AtServer, Transmitted

LEMMA PlaceInvInit == Init => PlaceInv
<1> SUFFICES ASSUME Init PROVE PlaceInv
  OBVIOUS
<1>1. sNotifying = {} /\ sQueue = <<>> /\ transmitting = Nothing
  BY DEF Init, S!QueueInit
<1>2. ASSUME NEW t \in Sender PROVE AtThread(t)
  <2>1. pc[t] = "none" /\ transmitted[t] = 0 /\ t # Nothing
    BY RadioAssumption DEF Init, Thread
  <2>2. Queued(sQueue, t) = {}
    BY <1>1 DEF Queued
  <2>3. QED BY <1>1, <2>1, <2>2 DEF AtThread
<1>3. QED BY <1>1, <1>2 DEF PlaceInv, Placed

(* The threads: a packet leaves its thread when it is pushed.              *)
LEMMA QueuePlaces ==
    ASSUME TypeOK, PlaceInv, NEW t \in Thread, Queue(t)
    PROVE  PlaceInv'
<1> DEFINE x == IF t \in Sender THEN t ELSE Table
<1>1. /\ pc[t] = "window" /\ pc' = [pc EXCEPT ![t] = "sent"] /\ pc \in [Thread -> States]
      /\ sQueue' = Append(sQueue, x) /\ sNotifying' = sNotifying \cup {t}
      /\ UNCHANGED <<transmitting, transmitted>>
  BY DEF Queue, S!Push, server, TypeOK, States
<1>2. x \in Sender \cup {Table} /\ sQueue \in Seq(Sender \cup {Table})
      /\ sNotifying \subseteq Thread
  BY DEF TypeOK, S!QueueTypeOK
<1>3. ASSUME NEW u \in sNotifying' PROVE pc'[u] = "sent"
  BY <1>1, <1>2 DEF PlaceInv
<1>4. ASSUME NEW u \in Sender PROVE Placed(u)'
  <2>1. u \in Thread /\ Placed(u)
    BY DEF Thread, PlaceInv
  <2>2. Queued(sQueue', u) = Queued(sQueue, u) \cup (IF x = u THEN {Len(sQueue) + 1} ELSE {})
    BY <1>1, <1>2, QueuedAfterPush
  <2>3. CASE u = t
    <3>1. AtThread(u)
      BY <1>1, <2>1, <2>3 DEF Placed, AtThread, InQueue, AtServer, Transmitted
    <3>2. Queued(sQueue', u) = {Len(sQueue) + 1}
      BY <2>2, <2>3, <3>1 DEF AtThread
    <3>3. pc'[u] = "sent"
      BY <1>1, <2>3
    <3>4. QED BY <1>1, <3>1, <3>2, <3>3 DEF Placed, AtThread, InQueue
  <2>4. CASE u # t
    <3>1. x # u
      BY <2>4, RadioAssumption
    <3>2. Queued(sQueue', u) = Queued(sQueue, u) /\ pc'[u] = pc[u]
      BY <1>1, <2>1, <2>2, <2>4, <3>1
    <3>3. QED BY <1>1, <2>1, <3>2 DEF Placed, AtThread, InQueue, AtServer, Transmitted
  <2>5. QED BY <2>3, <2>4
<1>5. QED BY <1>3, <1>4 DEF PlaceInv

LEMMA ThreadPlaces ==
    ASSUME TypeOK, PlaceInv, NEW t \in Thread, Sending(t)
    PROVE  PlaceInv'
<1>1. pc \in [Thread -> States] /\ sNotifying \subseteq Thread
  BY DEF TypeOK, S!QueueTypeOK, States
<1>2. CASE BeginSend(t) \/ Look(t) \/ LookAgain(t) \/ EndBroadcast(t)
  <2>1. /\ pc[t] \notin {"sent", "done"}
        /\ UNCHANGED <<sQueue, sNotifying, transmitting, transmitted>>
    BY <1>2 DEF BeginSend, Look, LookAgain, EndBroadcast, senderQueue, server
  <2>2. PICK s \in {"none", "trying", "asleep", "window", "ending"} :
            pc' = [pc EXCEPT ![t] = s]
    BY <1>2 DEF BeginSend, Look, LookAgain, EndBroadcast
  <2>3. ASSUME NEW u \in sNotifying' PROVE pc'[u] = "sent"
    BY <1>1, <2>1, <2>2 DEF PlaceInv
  <2>4. ASSUME NEW u \in Sender PROVE Placed(u)'
    <3>1. pc'[u] \in {"sent", "done"} <=> pc[u] \in {"sent", "done"}
      BY <1>1, <2>1, <2>2 DEF Thread
    <3>2. Placed(u)
      BY DEF PlaceInv
    <3>3. QED BY <2>1, <3>1, <3>2, NotMoved
  <2>5. QED BY <2>3, <2>4 DEF PlaceInv
<1>3. CASE Queue(t)
  BY <1>3, QueuePlaces
<1>4. CASE Notify(t)
  <2>1. /\ t \in sNotifying /\ sNotifying' = sNotifying \ {t}
        /\ UNCHANGED <<sQueue, transmitting, transmitted>>
    BY <1>4 DEF Notify, S!NotifyOne, server
  <2>2. pc[t] = "sent"
    BY <2>1 DEF PlaceInv
  <2>3. pc' = [pc EXCEPT ![t] = IF t \in BroadcastThread THEN "ending" ELSE "done"]
    BY <1>4 DEF Notify
  <2>4. ASSUME NEW u \in sNotifying' PROVE pc'[u] = "sent"
    BY <1>1, <2>1, <2>3 DEF PlaceInv
  <2>5. ASSUME NEW u \in Sender PROVE Placed(u)'
    <3>1. u \notin BroadcastThread /\ u \in Thread
      BY RadioAssumption DEF Thread
    <3>2. pc'[u] \in {"sent", "done"} <=> pc[u] \in {"sent", "done"}
      BY <1>1, <2>2, <2>3, <3>1
    <3>3. Placed(u)
      BY DEF PlaceInv
    <3>4. QED BY <2>1, <3>2, <3>3, NotMoved
  <2>6. QED BY <2>4, <2>5 DEF PlaceInv
<1>5. QED BY <1>2, <1>3, <1>4 DEF Sending

(* The client takes it from the front of the queue, ...                    *)
LEMMA TransmitPlaces ==
    ASSUME TypeOK, PlaceInv, Transmit
    PROVE  PlaceInv'
<1>1. /\ sQueue # <<>> /\ sQueue' = Tail(sQueue) /\ transmitting = Nothing
      /\ transmitting' = Head(sQueue) /\ UNCHANGED <<sNotifying, pc, transmitted>>
  BY DEF Transmit, S!Pop, threads
<1>2. sQueue \in Seq(Sender \cup {Table})
  BY DEF TypeOK, S!QueueTypeOK
<1>3. 1 \in DOMAIN sQueue /\ Head(sQueue) = sQueue[1]
  BY <1>1, <1>2, HeadTailProperties, LenProperties, EmptySeq
<1>4. ASSUME NEW u \in Sender PROVE Placed(u)'
  <2>1. Placed(u)
    BY DEF PlaceInv
  <2>2. Queued(sQueue', u) = {i - 1 : i \in Queued(sQueue, u) \ {1}}
    BY <1>1, <1>2, QueuedAfterPop
  <2>3. CASE Head(sQueue) = u
    <3>1. 1 \in Queued(sQueue, u)
      BY <1>3, <2>3 DEF Queued
    <3>2. InQueue(u) /\ Queued(sQueue, u) = {1}
      BY <2>1, <3>1 DEF Placed, AtThread, InQueue, AtServer, Transmitted
    <3>3. Queued(sQueue', u) = {}
      BY <2>2, <3>2
    <3>4. QED BY <1>1, <2>3, <3>2, <3>3 DEF Placed, InQueue, AtServer
  <2>4. CASE Head(sQueue) # u
    <3>1. 1 \notin Queued(sQueue, u)
      BY <1>3, <2>4 DEF Queued
    <3>2. Queued(sQueue, u) = {} => Queued(sQueue', u) = {}
      BY <2>2
    <3>3. ASSUME NEW i, Queued(sQueue, u) = {i}
          PROVE  Queued(sQueue', u) = {i - 1}
      BY <2>2, <3>1, <3>3
    <3>4. u # Nothing /\ transmitting' # u
      BY <1>1, <2>4, RadioAssumption
    <3>5. QED BY <1>1, <2>1, <3>2, <3>3, <3>4
              DEF Placed, AtThread, InQueue, AtServer, Transmitted
  <2>5. QED BY <2>3, <2>4
<1>5. QED BY <1>1, <1>4 DEF PlaceInv

(* ... and the server has sent it.                                         *)
LEMMA EndTransmissionPlaces ==
    ASSUME TypeOK, PlaceInv, EndTransmission
    PROVE  PlaceInv'
<1>1. /\ transmitting # Nothing /\ transmitting' = Nothing
      /\ transmitted' = [t \in Sender |-> transmitted[t] + IF t = transmitting THEN 1 ELSE 0]
      /\ UNCHANGED <<sQueue, sNotifying, pc>>
  BY DEF EndTransmission, senderQueue, threads
<1>2. ASSUME NEW u \in Sender PROVE Placed(u)'
  <2>1. Placed(u) /\ u # Nothing /\ transmitted[u] \in Nat
    BY RadioAssumption DEF PlaceInv, TypeOK
  <2>2. transmitted'[u] = IF u = transmitting THEN transmitted[u] + 1 ELSE transmitted[u]
    BY <1>1, <2>1
  <2>3. CASE u = transmitting
    <3>1. AtServer(u) /\ transmitted'[u] = 1 /\ transmitting' # u
      BY <1>1, <2>1, <2>2, <2>3 DEF Placed, AtThread, InQueue, AtServer, Transmitted
    <3>2. QED BY <1>1, <3>1 DEF Placed, AtServer, Transmitted
  <2>4. CASE u # transmitting
    <3>1. transmitted'[u] = transmitted[u] /\ transmitting' # u
      BY <1>1, <2>1, <2>2, <2>4
    <3>2. QED BY <1>1, <2>1, <2>4, <3>1 DEF Placed, AtThread, InQueue, AtServer, Transmitted
  <2>5. QED BY <2>3, <2>4
<1>3. QED BY <1>1, <1>2 DEF PlaceInv

(* No other step moves a packet.                                           *)
LEMMA OtherPlaces ==
    ASSUME TypeOK, PlaceInv,
           UNCHANGED <<sQueue, sNotifying, pc, transmitting, transmitted>>
    PROVE  PlaceInv'
  BY NotMoved DEF PlaceInv

LEMMA StarterPlaces ==
    ASSUME TypeOK, PlaceInv, NEW c \in Starter, Starting(c)
    PROVE  PlaceInv'
<1>1. CASE TestPending(c)
  BY <1>1, OtherPlaces DEF TestPending, senderQueue, server
<1>2. CASE SetPending(c)
  <2>1. /\ Unused # {} /\ UNCHANGED <<sQueue, sNotifying, transmitting, transmitted>>
        /\ pc' = [pc EXCEPT ![CHOOSE t \in Unused : TRUE] = "trying"]
        /\ pc \in [Thread -> States] /\ sNotifying \subseteq Thread
    BY <1>2 DEF SetPending, senderQueue, server, TypeOK, States, S!QueueTypeOK
  <2>2. PICK b \in Unused : pc' = [pc EXCEPT ![b] = "trying"]
    BY <2>1
  <2>3. b \in BroadcastThread /\ pc[b] = "none" /\ b \notin Sender /\ b \in Thread
    BY RadioAssumption DEF Unused, Thread
  <2>4. ASSUME NEW u \in sNotifying' PROVE pc'[u] = "sent"
    BY <2>1, <2>2, <2>3 DEF PlaceInv
  <2>5. ASSUME NEW u \in Sender PROVE Placed(u)'
    <3>1. pc'[u] = pc[u] /\ Placed(u)
      BY <2>1, <2>2, <2>3 DEF PlaceInv, Thread
    <3>2. QED BY <2>1, <3>1, NotMoved
  <2>6. QED BY <2>4, <2>5 DEF PlaceInv
<1>3. QED BY <1>1, <1>2 DEF Starting

(* Packets are neither lost on the way to the channel nor sent twice, for  *)
(* any number of threads that look at the line at the same time.           *)
THEOREM PacketsGoOutOnce == Spec => []InOnePlace
<1>1. TypeOK /\ PlaceInv /\ [Next]_vars => PlaceInv'
  <2> SUFFICES ASSUME TypeOK, PlaceInv, [Next]_vars
               PROVE  PlaceInv'
    OBVIOUS
  <2>1. CASE \E t \in Thread : Sending(t)
    BY <2>1, ThreadPlaces
  <2>2. CASE \E c \in Starter : Starting(c)
    BY <2>2, StarterPlaces
  <2>3. CASE Transmit
    BY <2>3, TransmitPlaces
  <2>4. CASE EndTransmission
    BY <2>4, EndTransmissionPlaces
  <2>5. CASE WaitSender
    BY <2>5, OtherPlaces DEF WaitSender, S!Wait, S!PopEmpty, threads, server
  <2>6. CASE Reading
    BY <2>6, OtherPlaces DEF Reading, Receive, NotifyMain, senderQueue, threads, server
  <2>7. CASE Main
    BY <2>7, OtherPlaces DEF Main, WaitMain, Dispatch, senderQueue, threads, server
  <2>8. CASE TickBroadcast \/ ResumeTimeout \/ OtherBegins \/ \E a \in BOOLEAN : OtherEnds(a)
    BY <2>8, OtherPlaces DEF TickBroadcast, ResumeTimeout, OtherBegins, OtherEnds,
                             senderQueue, threads, server
  <2>9. CASE UNCHANGED vars
    BY <2>9, OtherPlaces DEF vars, senderQueue, threads, server
  <2>10. QED
    BY <2>1, <2>2, <2>3, <2>4, <2>5, <2>6, <2>7, <2>8, <2>9 DEF Next, Program, Client, Server
<1>2. TypeOK /\ PlaceInv => InOnePlace
  BY PlacedIsOnePlace DEF PlaceInv, InOnePlace, TypeOK
<1>3. QED
  BY <1>1, <1>2, PlaceInvInit, TypesHold, PTL DEF Spec
=============================================================================
