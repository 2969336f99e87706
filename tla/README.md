# A verification development of the chat application

The program is a chat over a shared sound medium (`src/src`, C++ with Qt): up to
four nodes, addresses 1 to 4, connected to an emulator of the medium over a
socket. Nodes negotiate addresses, learn routes by distance vector, send private
messages by stop-and-wait over several hops, and flood broadcasts. This directory
holds TLA+ modules translated from that code, TLC configurations, and proofs
checked by TLAPS. `PROJECT.json` maps every definition to its source lines.

Paths below are relative to `src/src`.

## 1. The system

| Component | State | Operations | Hard behaviour | Correct when |
|---|---|---|---|---|
| Transport, `backend/transport` | `next_msg_id`; per sender `current_msg_id`, `current_fragment_id`, `ackReceived`; per receiver `seenBroadcasts` | `sendMessage`, `wait_to_send`, `sendFragments`, `sendWithRetry`, `handleAck`, `onPacketReceived`, two `sendBroadcast` | one detached thread per message and per packet; acks and copies lost, late, repeated; 7 attempts of 25 s; give up and go on | an ack ends only the wait it is for; what is logged `[DELIVERED]` was taken in; the text is shown whole |
| Fragmentation, `backend/fragmentation` | `buffers` by message id | `fragmentMessage`, `insertFragment` | any order, duplicates, a buffer erased and opened again, ids that wrap | a text is complete only with all its fragments, each in place, of one message |
| Relay, `backend/multihop-relay` | none | `prepare_header_to_forward` | routes change under a packet; no hop count | no node but the addressee acknowledges |
| Routing, `backend/routing` | `myRoutingTable`, `neighbors`, `reachable_nodes`, `update_broadcast_pending`, `pause_flag` | `register_echo`, `tick`, `inactive_neighbours_handling`, `broadcast_table`, `build_custom_echo`, `pause_protocol` | receiver, tick and broadcast threads share the table without a lock; echoes lost; nodes fall silent | costs never too low; tables settle, without loops until a row expires; a living neighbour comes back, a silent one is no longer sent to |
| Addressing, `backend/addressing` | `addr_in_use`, the own address | `gen_random_addr`, `handle_collision` | two nodes choose the same address at once | distinct addresses in the end |
| Channel state, `backend/channel_state` | `is_line_busy`, `is_current_node_sending` | setters, the double check of the send lambda and of `broadcast_table` | the line changes between the check and the send; two reasons share one flag | not held for busy in vain; each packet goes out once |
| Medium access, `backend/mac` | `time_to_wait`, `exponential_backoff` | `recalculate_wait_time` | none: its value is not used | not modelled |
| Radio link, `backend/network` | receive state of `DataReceiver`, the socket | `Client::listener`, `receiveData`, `readLoop` | one stream for packets and messages of the server, cut anywhere | what was sent is what is parsed |
| Blocking queue, `utils/BlockingQueue.h` | the queue | `push`, `pop` | `if` instead of `while` around the wait | nothing taken from an empty queue |
| Packet header, `utils/packet_header` | none | `build_header`, `get_separated_header` | fields of 3 and 11 bits | round trip within the widths |
| Message queue, `backend/MessageQueue` | `msg_queue`, seen flags | `push_message`, readers | one queue for all chats | a message is listed once under its chat |
| Main loop, `frontend/Chatroom/main.cpp` | none of its own | dispatch by packet type, the send lambda, the callbacks | one thread serves everything and can be blocked | every packet reaches its handler |
| Windows, `frontend/Chatroom/*window*` | widgets | draw, send | none of the protocol's | not modelled |

**How they interact.** The windows call `TransportManager::sendMessage`, which
starts a thread. That thread waits for a route in the routing table, cuts the text
into fragments and sends each by `sendWithRetry` or `sendBroadcast`. Each packet is
given to a thread of its own that pauses routing, waits for a free line and pushes
the packet on `senderQueue`. Received packets come through `receiverQueue` into the
main loop. It dispatches echoes to `register_echo` and data and acks to
`TransportManager`. The receiver acknowledges, forwards, or reassembles. A complete
text goes to the windows through a callback, which also resumes routing. Routing
and transport share the routing table and the pause flag; senders and receivers
of a node share the `TransportManager`.

## 2. Modules

| Module | What it is | Code |
|---|---|---|
| `Reassembler` | operators on fragments: `MoreFragments`, `Stored`, `Complete`, `BufferAfter`, `Result` | `Fragmenter.cpp`, `Reassembler.cpp` |
| `Transport` | the unicast path on all nodes at once; extends `Reassembler` | `StopAndWaitSender`, `StopAndWaitReceiver`, `TransportManager`, `MultihopRelay`, dispatch and send lambda of `main.cpp` |
| `Transfer` | abstract specification of one private message, implemented by `Transport` | |
| `Flooding` | the broadcast path on all nodes at once; extends `Reassembler` | both `sendBroadcast`, the broadcast part of `onPacketReceived` |
| `Broadcast` | abstract specification of broadcasts, implemented by `Flooding` | |
| `VectorRouting` | tables, echoes, tick and broadcast threads of all nodes | `VectorRoutingProtocol.cpp` |
| `Addressing` | how nodes get and change their addresses; the parts of routing that do it | `Addressing.cpp`, `register_echo`, `tick`, `handle_collision` |
| `Line` | abstract specification of what a node is told of the line, implemented by `RadioNode` | |
| `PacketHeader` | operators: the four bytes of the header | `packet_header.cpp` |
| `BlockingQueue` | one queue between threads | `BlockingQueue.h` |
| `DataReceiver` | operators: frames and the parser, byte by byte; extends `PacketHeader` | `DataReceiver.cpp`, `Client.cpp` |
| `RadioNode` | one node on the channel: sending threads, two instances of `BlockingQueue`, client threads, server, main loop; extends `DataReceiver` | `main.cpp`, `Client.cpp`, `ChannelState.cpp`, `broadcast_table`, `start_broadcasting_thread` |
| `MC*` | instances for TLC | |
| `*Proofs` | lemmas, theorems and proofs of the module they are named after | |

Three levels do not repeat each other. `Transport` and `Flooding` have all nodes and
treat the way from a send thread to another node's main loop as one lossy delay.
`RadioNode` has one node and all the steps of that way, and does not ask what a
packet is for. `VectorRouting` has the tables of nodes with settled addresses, and
`Addressing` keeps only what addresses depend on, while the rows of the table may
change as the tick thread of `VectorRouting` changes them.

### Transport

`pc[m]` is where the thread of message `m` stands: `route` in `wait_to_send`, `id`
and `frag` before the two unlocked writes of `current_msg_id` and
`current_fragment_id`, `arm` before `ackReceived = false`, `send` before an
attempt, `wait` in `wait_for`. The two writes are two steps because `handleAck`
can run between them. `msg_id`, `frag`, `hop`, `attempts` are the thread's locals;
`current` and `ackReceived` belong to the node, so that all threads of a node share
them as in the code. Initially `current` is any value of `Garbage`: the two fields
have no initialiser.

A packet spawned to a send thread is in `out`; `Transmit` moves it to `air`, one
copy for each node of an arbitrary subset of those in range. `air` is a set, so
copies are reordered and delayed at will, and a copy that is not chosen is lost.
Retransmissions are told apart (`try`), so that a fragment can be taken in twice.
`AcceptData` is the whole handler: ack, store, and, when the text is complete,
show it and resume routing. As in the code a node accepts what is addressed to it
even if it overheard the packet on its way to a relay.

The pause of routing is `paused`. Each call of `pause_protocol` starts a timer
which nothing cancels, so `PauseTimeout` may fire at any time during a pause.
`RouteChange` replaces the table of a node by any of the tables of `Tables[n]`:
what routing may do is the subject of the other module.

The history variables `accepted`, `reported`, `gaveUp` record what the code logs.
The field `chunk` of an ack is history as well: the code sends no payload there and
no guard reads it.

### Flooding

A message is sent by its thread, `TRIES` copies of each fragment
(`MAX_BCAST_TRIES - 1` in the code). A node takes a fragment in two parts:
`TakeFragment` enters it in `seenBroadcasts` and starts to send it on;
`StoreFragment` comes after `bc.join()`, which is why `Received` requires that the
main loop is not sending on anything. A send thread's wait for a free line and the
queue of the addressee are one delay of any length. `linkFailed` is history: a
node in range has missed all copies of some fragment.

### VectorRouting

The receiver thread is `rx[n]`, the tick thread `ticker[n]`, the broadcast thread
`echo[n]`. Each row is looked at in a step of its own (`LookAtRow`) and each field
of a row is written in one (`WriteField`, `DropCost`, `DropHop`), because no
lock protects them. `WriteField` may lose a write of `TTL`: the `TTL--` of
the tick thread reads and writes in two instructions. `BuildEcho` serialises the
table while it changes: an arbitrary set of rows (`early`) is read before the other
threads write. The user's list is copied row by row (`ListRow`)
while the tick thread is running; otherwise nothing can see how far that loop is, and
`EndEcho` copies the remaining rows at once. A paused node ticks nothing, broadcasts nothing and
drops what it hears; so it takes no step, or its echoes are lost, both of which the
specification allows anyway. Addresses are settled and distinct.

### Addressing

Every node starts with `DefaultAddress`. `ticker[n]` is the tick thread: in
`first_run` it waits for a table of another node (`first_table_received`) or for
`wait_first_echo_recv_to` (`waited`), then it draws (`BeginDraw`, `Draw`). The test
that not every address is used, and the draw, are two steps: the receiver
thread rebuilds `addr_in_use` meanwhile, in two steps of its own (`ClearList`,
`FillList`). `RegisterEcho` is everything `register_echo` does before that:
a collision changes the address at once, from the list of that moment, and the rows
of the echo are entered. Between them the receiver may also refill the list row by
row (`register_active_node`): the result is the list as it is or as the table is.
`ExpireRow`, `DropRow`, `TickOwnRow` are what the tick thread does to rows.

`Wake` is the one place where time matters: after the first table the receiver sleeps
2.5 s to let the tick thread, which runs every second, draw first. The model takes
that sleep at its word. An echo is delayed at will, but echoes reach a node
in the order they were sent.

### RadioNode

`pc[t]` is where a sending thread stands: `trying` in the loop that looks at the line,
`asleep` in its random sleep, `window` between the second look and the push, `sent`
between the push and its notification. A broadcast thread (`BroadcastThread`) goes on to
`ending`, where it clears `update_broadcast_pending`. `starter` is where the two
callers of `start_broadcasting_thread` stand between the test of that flag and its
setting. `sQueue` and `rQueue` are the two queues, with the threads that
still have to notify and the state of their consumer.

The server is external: it writes `SENDING` and `DONE_SENDING` around the node's
transmissions, `BUSY` and `FREE` around those of others, and the packet before
`FREE`; what it sends during the node's own transmission may be lost. `wire` holds
what the server has written and the client has not read yet, one byte string per
write, and `parser` is the receive state of `DataReceiver`. Each `Receive` reads one
byte, so that every way in which `recv` can cut the stream is a behaviour; the message
a byte completes goes to `rQueue`. The boundaries between the writes of `wire` are not
seen by the parser: they are there to say what the bytes stand for. `Coming` is that
meaning: the messages in `rQueue`, the one of which a part was read, and those still on
the wire. `heard` lists the packets the server passed on.
`Dispatch` is a step of the main loop: the flags of the line, and, of a packet, its header,
the pause of routing and the request for a broadcast. What the handlers
do beyond that is left to the other modules, so a data packet leaves the pause set
or not. After `PopEmpty`, undefined in the code, the model stops (`Running`).

## 3. Runs

| Run | Question | Result |
|---|---|---|
| `transport_fragments` | one message of two fragments, two attempts each, every loss, delay and reordering | types, `DeliveredMeansAccepted`, `DeliveredWhole`, `EndToEnd`, `AckEndsWait`, `SendTerminates` hold, and `Transport` implements `Transfer` (`PromiseKept`) |
| `transport_relay` | three nodes whose next hops change while packets are under way | only the addressee's acceptance ends the wait; the text arrives |
| `flooding` | two broadcasts at once over a line of three nodes | types; what is ignored was seen, texts are shown once and whole (`Broadcast`), the flood ends (`FloodEnds`), has then left nobody out (`NobodyLeftOut`), and reaches everyone (`ReachesAll`), unless a link failed |
| `routing_line` | a line of three nodes, one broadcast each, the middle one ageing its rows | types, `NeverTooNear`, `NextHopInRange`, `NeverWorse` |
| `routing_converges` | a line of three nodes, any number of broadcasts, no row expiring | next hops lead nearer to the destination (`NextHopIsNearer`), tables that rest are shortest (`RestIsShortest`), shortest tables stay (`ShortestStays`), and they settle on the shortest paths (`Converges`) |
| `routing_silent` | a node that hears two others, one that may fall silent and one that lives and broadcasts for ever, and ages its rows for ever | the route to the living one always comes back (`Recovers`); the silent one is in the end no longer its own next hop (`NoLongerNextHop`); a row that stays at infinity leaves the user's list for good (`LostIsUnlisted`) |
| `addressing` | two nodes that draw, collide and draw again, with echoes lost and late and rows that expire | types, `FirstDrawIsFree`, `SettledStays` |
| `radio_node` | a packet of a message, broadcasts asked for by two threads at once, and an echo heard whose bytes are those of the server's messages | types, `NoLostWakeup`, `DispatchedAsSent`, `BusyHasReason`, `PendingHasThread`; a packet is in one place at a time (`InOnePlace`), everything is sent (`EverythingSent`), and the node implements `Line` (`TellsTheLine`) |
| `overlapping_sends` | two messages of one node at once | **violated**: a fragment nobody received is logged `[DELIVERED]` |
| `flood_suppressed` | the first broadcasts of two nodes | **violated**: the second is ignored as already seen |
| `dead_neighbour_kept` | a silent node and a race of receiver and tick thread | **violated**: the row of the dead node keeps its cost for ever |
| `empty_pop` | the queue to the main loop | **violated**: a late notification makes `pop` take from an empty queue |

The four violated runs are disagreements between the code and its comments or its
README; `PROJECT.json` quotes the lines. In short:

* *Overlapping sends.* `StopAndWaitSender` has one `current_msg_id`,
  `current_fragment_id` and `ackReceived` for all the threads that use it.
* *Suppressed floods.* `seenBroadcasts` holds pairs (message id, fragment id)
  without a source and is never cleared, while each node counts ids from 0.
* *A dead neighbour kept.* `inactive_neighbours_handling` sets the cost to
  infinity and then clears the next hop. When the receiver writes the cost in between,
  the row has a finite cost and next hop 0, and no later tick finds it.
* *An empty pop.* `pop` waits once, under `if`, and `push` notifies after it has
  unlocked. The reader takes the item, waits again, is woken by that notification
  and takes the front of an empty `std::queue`.

### Bounds

Every bound is a constant.

* `MAX_RETRIES` is 7 in the code, 2 or 1 in the runs: the second attempt is the
  first that can overlap with a late ack, and further ones repeat it.
* `WIRE_IDS` is 8, the 3 bits of the header; `MSG_IDS` is 256, `MAX_MESSAGES` 8.
  Two messages suffice to confuse neighbouring ids (`overlapping_sends`); that a late
  packet of an earlier message never counts for a later one is proved, for as many
  messages as the header has ids (section 4).
* `FRAG_IDS` is 256 in the code and 2 in the runs, which have messages of at most
  two fragments: a first one with `more_fragments` set and a last one without.
* `Garbage` holds two values in `transport_fragments`, one equal to an id that is used
  and one that is not; the runs about other questions use the first only.
* `OVERLAP` says whether a user sends while an earlier message is under way. It is
  false except in `overlapping_sends`.
* `TRIES` is 4 copies in the code and 1 in the runs, and the broadcasts of the runs have
  one fragment. Equal copies still meet, since a node hears those of all its
  neighbours. Several copies of one sender, and fragments of one message in any order, are
  left to the theorems `NothingNewDropped`, `EachTextOnce` and `FloodReachesAll`, which
  hold for any `TRIES` and `Size` (with two copies of two fragments the liveness
  properties are out of TLC's reach).
* `MAX_ECHOES` bounds the broadcasts of a node that is not in `Tireless`;
  `MAX_TICKS` bounds its ticks, 0 means any number.
* In `routing_silent` time is unbounded: node 2 ticks and node 3 broadcasts for ever,
  so that rows expire, are dropped and are learnt again without end, and echoes that
  change something keep coming after node 1 is silent. Node 1 broadcasts once: what it
  could send more often it can send as late. Nodes 1 and 3 hear nobody, and node 2 sends
  nothing: the properties speak of its own table. What this leaves out is a node 3 that
  itself offers a route to node 1; such an offer names node 3 as the next hop, never
  node 1, and `LostIsUnlisted` speaks of rows no offer brings back.
* `MAX_QUEUE` is 1: an echo is sent when there is room for it in every queue. A
  longer queue only delays echoes more, and delay is already there, since an echo
  stands in `echo[n]` from the time it is built.
* `MAX_TTL` is 40 ticks in the code and 1 in the runs: a row expires at the next
  tick, the hardest case, and a row that is renewed is at its maximum.
* `INFINITY_COST` is 5, `MAXIMUM_COST` 7 as in the code.
* `Addr` has three addresses in `addressing` and the code four (1 to 4); two nodes,
  exchanged by symmetry. With three addresses a list can be full, empty and in between.
  `MAX_ECHOES` 2 gives each node an echo before and one after its draw, `MAX_LOST` 1
  one row lost at any time.
* `radio_node` has one sending thread and two broadcast threads: as many as can
  live at once when the flag is set late. `MAX_BROADCASTS` 1 is one request
  of the tick thread; the other comes with the echo. `Heard` is one packet, made of
  bytes that are messages of the server outside a frame, with all the fields
  that lie across two bytes in use. Its payload has one byte, since each byte is a step;
  the theorems of section 4 are about packets of any length and number.
* `Ageing`, `Rebuilding` and `Mortal` name the nodes whose tick thread runs, that
  find the line busy when they want to send an echo, and that may fall silent.

Deadlock is not checked where the system really may stop (all messages settled, all
broadcasts used up). `routing_converges` checks it.

### Fairness

* `Transport!FairSpec`: weak fairness of each sending thread. The scheduler runs
  the thread, and `wait_for` returns after 25 s at the latest. Nothing is assumed
  of the radio or of routing; so `SendTerminates` starts at the first fragment, not
  at `sendMessage`: `wait_to_send` polls for a route without a limit.
* `Flooding!FairSpec`: weak fairness of each sending thread and of each main loop.
  Both sleep for at most 3 s between copies, and the main loop otherwise waits only
  for packets. Which nodes hear a copy is left open.
* `VectorRouting!FairSpec` (`Converges`): each node broadcasts again and again and is
  heard by all nodes in range once in a while, and the receiver thread runs. The
  period `broadcast_to` of the tick thread makes it broadcast; that some broadcast is
  heard is all one can ask of a lossy medium, and any number before it may be lost.
* `RadioNode!FairSpec` (`EverythingSent`): as long as some thread of the program, or
  the server with what it has begun, can take a step, one of them does. That is less
  than fairness of each thread, and enough, because the looks at the line are
  steps only when they lead on. Nothing is assumed of the other nodes, of the tick thread's
  requests, or of the timers.
* `VectorRouting!AgeingSpec` (`Recovers`, `NoLongerNextHop`, `LostIsUnlisted`,
  `Forgotten`): weak fairness of the receiver thread of a running node, and of the tick
  thread where it runs. Of a node in `Tireless` also weak fairness of the broadcast
  thread, and strong fairness of a broadcast that everybody in range hears: an echo that
  is sent again and again, whether the line was busy meanwhile or not, is heard.
  Nothing makes the other nodes broadcast.

## 4. Proofs

`ReassemblerProofs` proves the types of the operators.

### Transport

`TypeCorrect` needs one addition to `TypeOK`: a thread that is about to send or is
waiting still has an attempt left (`AttemptLeft`), which bounds `try`.

`DeliveredIsTrue`, `TextsAreWhole` and `ReportedTextIsShown` state
`DeliveredMeansAccepted`, `DeliveredWhole` and `EndToEnd` for all nodes,
topologies, routing tables, losses and numbers of retries, under the hypothesis
`Alone`: one node originates private messages, one after the other, at most as many
as the header's message id tells apart, and none has more fragments than the
receiver's parameter type. `Alone` is not a convenience of the proof. Without it the
code breaks the properties: see `overlapping_sends` and section 6.

The invariant `IInv` says: at most one thread lives (`OneThread`); ids that were
handed out are distinct and fit in the header field (`IdsApart`); every packet under
way is what some sent message would produce, and an ack exists only for a fragment
that was taken in (`PacketsGenuine`); the shared fields speak of the thread that waits
(`CurrentIsMine`); if `ackReceived` is set for it, its current fragment was taken in
(`AckIsMine`); a buffer holds fragments of one message, in place, and its total is
that message's (`BuffersPure`); and what was taken in is still in the buffer until the
text is shown, which happens as soon as it is complete (`NothingLost`). None of the
three theorems' properties is inductive: each says something of the sender's log or
the shown texts, and holds because of what is true of the packets and buffers behind it.

`OwnAckEndsWait` states the action property `AckEndsWait` under the same hypothesis: only
`handleAck` takes an ack from the air, and by `PacketsGenuine` and `CurrentIsMine` its
fields are those the waiting thread has set.

`TransferIsImplemented` is the refinement `PromiseKept`. It needs one more invariant,
`SettledInOrder` (the fragments settled are those before the one in hand), for the
order in which `Transfer` reports; that the text is there from the moment the last
missing fragment is taken in follows from `NothingLost`, before and after the
step (`AllTakenIsShown`).

### Flooding

`TypeCorrect` states `TypeOK`; as in `Transport` a thread that sends has a copy left,
and a relay that is on holds a packet.

`NothingNewDropped` (`DroppedIsSeen`) and `EachTextOnce` (the refinement `PromiseKept`)
have two hypotheses: one node broadcasts (`OneSource`), and it has sent no more
messages than the header tells apart (`FewMessages`). Both are needed: `seenBroadcasts`
and `buffers` have no source, see `flood_suppressed`. The invariant says that ids
are distinct (`IdsApart`); that every packet on its way or held by a relay
is one the source would build (`PacketsGenuine`); that what is marked as seen was
taken in (`SeenIsTaken`), so that two copies of one fragment are not stored twice;
that the buffer of a message holds exactly the fragments taken in, but for the one
still being sent on, until the text is shown (`Buffered`); that the other buffers are
empty (`FreeBuffers`); and that the texts shown are whole and were sent (`TextsGenuine`). A text is shown once because
a fragment is stored once: after it is shown, none is left to start it again.

`FloodReachesAll` (`NobodyLeftOut`) is the safety half of `ReachesAll`, under the same
hypotheses and on any network that is connected over several hops (`Connected`; TLC
evaluates it for the networks of the runs). Its invariant `FloodInv` speaks of where a
fragment has got to: it has reached a node when the node has taken it in or a copy is on its
way there (`Reached`), and this is for ever, since a copy that leaves the air is taken
in or was before (`ReceivedIsTaken`). What a thread is sending has reached those who heard
it (`OnTheWay`); what it has sent has reached everyone in range, while no link
has failed (`Served`). In the end the nodes that have taken a fragment in are a set
that no link leaves, hence all nodes, and `Buffered` says that each has then shown the text.

### Routing

`RoutingTypes`, `CostsAreSound`, `NextHopsAreHeard` and `RowsNeverWorsen` state
`TypeOK`, `NeverTooNear`, `NextHopInRange` and the action property `NeverWorse` for
any topology and any bounds. The assumption on `Dist` is that a node's neighbours
are at most one hop farther than it is (`DistAssumption`).

The invariant speaks of the costs in the tables and in every echo under way
(`EchoNear`, `InboxGenuine`): they are infinite or at least the distance of the node
that sent them. It also says what the receiver is in the middle of: the row it writes was
usable when decided, and while the cost is still to be written the new cost is
lower than the present one or the row has expired (`RxSound`), whatever the tick
thread does meanwhile. The tick thread never touches the node's own row
(`OwnRow`, `TickerApart`).

`NextHopsAreNearer` states `NextHopIsNearer`, and `ShortestPathsStay` the action property
`ShortestStays`, under the hypothesis that no TTL has run out (`Unexpired`). A row starts with
`MAX_TTL` ticks to live, 40 in the code, so this holds of the beginning of
every behaviour; both speak of safety, so they hold up to the first expiry. Afterwards
they are false in the code (section 6: a row whose TTL has run out accepts what its own
node caused). While nothing expires costs only fall (`CostsFall`). The invariant
`FreshInv` adds to `IInv` what follows from that: each next hop was heard (`HopsHeard`),
no row is being dropped (`NoDrops`), an echo, wherever it is on its way, says no less
than its sender's present table (`EchoesOld`), and a row of which the receiver has
written the cost, or the next hop, and not all, agrees with the echo in hand as far as it
goes (`HalfWritten`). `NextHopIsNearer` alone is not inductive: the next hop may be
written long after the decision, before or after the cost, from an echo older than both.

`RestingTablesAreShortest` states `RestIsShortest` without that hypothesis, in any
topology where distances are reached over neighbours (`DistIsReached`, which TLC
evaluates for the topologies of the runs). With `NeverTooNear` costs are never too low; if one
were too high, take the wrong row with the least distance: the neighbour one hop
nearer has the right cost, and offers better. The least number comes from
`LeastNumber`, as an induction over distances.

### Addressing

`TypeCorrect` is inductive as it stands. `SettledForEver` states `SettledStays`
for any number of nodes and addresses: once all have drawn, all
addresses differ and no echo on its way to a node bears the address of that node,
none draws again, and an echo built afterwards bears the address of its sender, which
none of its hearers has (`SettledStep`, `BroadcastOfOther`). Old echoes with addresses
their senders have given up may still be under way. The one kind that is excluded, an
old echo that reaches the node which has that address now, does make it draw again
(section 6).
`DrawsFreeAddress` states `FirstDrawIsFree`. Its invariant `DrawInv` follows the
order of the two threads: while the tick thread of a node that has not timed out draws,
the receiver sleeps, and the list has all rows of the table.

### Radio node

`NoSleepOverPackets` states `NoLostWakeup` for any number of threads: each step of a
queue preserves it (`SenderQueueKept`, `ReceiverQueueKept`), and every step of the node
is one of them or leaves the queue alone. `PendingIsNeverStuck` states
`PendingHasThread`: `SetPending` sets the flag together with its thread, and whoever
ends clears the flag, even that of another. `RoundTrip` (`PacketHeaderProofs`) says that
`get_separated_header` gives back every field of `build_header` cut to its width,
for all values.

What the main loop is told is proved in two parts. `Line` is the promise: the messages of
the server and the packets of the others, in order, each whole, none twice. Its
theorem `LineIsTold` (`LineProofs`) follows from the invariant `LineInv`: what was
dispatched, followed by the packets still coming, is what was heard; and, for every
message still to come, the state of the line it will leave has a reason among those
behind it, which is why `BusyHasReason` holds after each of them and not only now.

`NodeImplementsLine` is the refinement `TellsTheLine`: `RadioNode`, with its bytes, parser
and queue, implements `Line`, for any packets `Heard`. Its invariant says that every
write on the wire is whole and genuine, a message of the server or the
frame of a packet, except the first, of which the bytes already read are those the
parser holds (`Wired`). `ReadByte` is the heart of it: one byte more brings the parser
to the state that belongs to one byte less on the wire, in each of its four states
(outside a frame, in the first or the second byte of the length, in the data), and a byte that
completes the write yields the message the write stands for, whatever its
value. So `Receive` leaves `Coming` as it is (`ComingRead`, `ComingComplete`): what was on
the wire is in the queue, a stuttering step of `Line`. No induction over bytes is
needed, because the state in the middle of a frame is part of the invariant. `TypesHold`,
`PacketsAreDecodedAsSent` and `LineIsBusyForAReason` follow from the same
invariant `NodeInv`, the last two through `LineInv` of the implemented `Line`.

`PacketsGoOutOnce` states `InOnePlace`. Its invariant `PlaceInv` adds that a thread with
a notification pending has pushed: without it a thread could be thought to push
twice. Each kind of step moves a packet from one place to the next or leaves all
where they are (`QueuePlaces`, `ThreadPlaces`, `TransmitPlaces`, `EndTransmissionPlaces`).

### Only model-checked

Liveness (`SendTerminates`, `FloodEnds`, `ReachesAll`, `Converges`, `Recovers`,
`NoLongerNextHop`, `LostIsUnlisted`, `EverythingSent`) is out of the prover's reach. Every invariant and
every other action property or refinement of the passing runs is stated by a theorem; those of
`Transport`, of `Flooding` and the two about rows that have not expired under the hypotheses
given above.

## 5. What is not modelled

* The windows: layout and drawing. What they give to the protocol is `SendMessage`;
  what they show is `inbox`, `shown` and the user's list. The threads that redraw them
  read shared lists without a lock (section 6).
* Medium access: `broadcast_table` calls `recalculate_wait_time`, but the value is
  commented out of the time it waits (`VectorRoutingProtocol.cpp:644-645`), and the
  other calls are commented out too. No thread does anything different for it.
* Generated code (`moc_*`), random numbers, the test harness, logging.
* Establishing the connection: the token, and a connection that breaks. It is there
  from the start or never.
* Wake-ups without a notification; what the program does after the front of an
  empty queue.
* Under which address a text is filed, and the flags of what was seen:
  `has_unseen_messages` is called by nothing.
* The unicast and broadcast paths use the same `buffers` and `next_msg_id`; they
  are modelled apart.

## 6. Limits of the code outside the runs

Read from the code while modelling; no run of this directory keeps them.

Transport and flooding

* The header's message id has 3 bits and `handleAck` compares it with the 8-bit
  `current_msg_id`: from the ninth message of a node no ack matches.
* `buffers` is keyed by message id alone: fragments of two senders can be joined.
* `handleAck` does not look at the addresses of an ack: an ack overheard on its
  way to another node can end a wait.
* A buffer erased after completion is opened again by a late duplicate, and joined
  with the message that reuses the id. A one-fragment message whose ack is lost is
  shown again when it is retransmitted.
* `wait_to_send` polls for a route without a limit (`TransportManager.cpp:68`).
* Resuming routing: an old pause timer or a completed reception resumes it while a
  fragment is still being retransmitted.
* A received private message is filed under the receiver's own address
  (`TransportManager.cpp:22`, where `MessageQueue.h:36` says the source), and the
  window shows it as "You" (`privatechatwindow.cpp:113`).
* A node shows its own broadcast when a neighbour sends it on.

Routing and addressing

* `register_echo` leaves a row usable when its next hop reports infinity: the line
  that sets the cost is commented out (`VectorRoutingProtocol.cpp:262`).
* A silent node whose row kept a finite cost (`dead_neighbour_kept`), or is offered by a
  node that has not dropped it yet, is put back on the user's list by every echo that
  changes something (`VectorRoutingProtocol.cpp:274-286`).
* A row whose TTL has run out accepts any offer, including one its own node caused: two
  neighbours can point at each other, and a packet then goes to and fro, since
  it has no hop count (`src/README.md:128` has "TTL & hop-limit to prevent loops").
* An echo that confirms a row does not renew its TTL, so that a neighbour that is
  heard is dropped and learnt again every `MAX_TTL` ticks.
* An echo that was built with an address its sender has left since, and that another
  node has now, is taken by that node for a collision (`VectorRoutingProtocol.cpp:130`).
* The draw repeats until it finds a free address: if the receiver marks the last one
  after the test (`Addressing.cpp:61`), the tick thread never ticks again.
* A draw unmarks the default address although a neighbour may still have it
  (`Addressing.cpp:70`).
* The own row is entered at cost 0 before an address is drawn
  (`VectorRoutingProtocol.cpp:103-105`): the default address looks used.
* The windows read `reachable_nodes` and the list of members while the routing
  threads change them (`chatroomwindow.cpp:237`).

Channel

* `DONE_SENDING` clears `is_line_busy` although another node may be sending at that
  moment (`main.cpp:177`): `BusyHasReason` has no converse.
* A closed connection makes `recv` return 0, which `readLoop` does not take for an
  error: it reads for ever (`DataReceiver.cpp:35`).
* `test_medium_access_control.cpp:99-100` expects a backoff of 10 after the eleventh
  recalculation; the code has 11.

## 7. What is left

Modelled, checked and proved: `Reassembler`, `Transport` with `Transfer`, `Flooding` with
`Broadcast`, `VectorRouting`, `Addressing`, `PacketHeader`, `BlockingQueue`,
`DataReceiver` and `RadioNode` with `Line`. Next would be:

1. a composition of `Transport` and `Flooding` on shared buffers and ids, to state what
   a broadcast under way does to a private message;
2. `MessageStore`: the queue of messages with the addresses texts are filed under;
3. `Addressing` with three nodes and several hops, where echoes come through a
   neighbour;
4. a connection that breaks, in `Line` and in `RadioNode`.
