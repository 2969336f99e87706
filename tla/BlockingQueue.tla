--------------------------- MODULE BlockingQueue ---------------------------
(***************************************************************************)
(* The queue between two threads (src/src/utils/BlockingQueue.h): any      *)
(* number of threads push, one thread pops.                                *)
(*                                                                         *)
(* The mutex makes the change of the deque one step.  push notifies after  *)
(* it has given the mutex back, so that anything may happen in between;    *)
(* pop looks for an item once, waits once, and then takes the front        *)
(* whether there is one or not.  The front of an empty deque is undefined  *)
(* behaviour: the program is then lost, and nothing is said of what it     *)
(* does ("undefined").  Wake-ups without a notification, which the         *)
(* standard allows, are left out.                                          *)
(***************************************************************************)
EXTENDS Sequences

CONSTANTS Producer, Item

VARIABLES theQueue,
          notifying,      \* threads between unlock() and notify_one()
          consumer        \* "running", "waiting" in cond.wait, "woken", "undefined"

queueVars == <<theQueue, notifying, consumer>>

QueueInit ==
    /\ theQueue = <<>>
    /\ notifying = {}
    /\ consumer = "running"

(* push: the locked part, and the notification after it.                   *)
Push(p, x) ==
    /\ p \notin notifying
    /\ theQueue' = Append(theQueue, x)
    /\ notifying' = notifying \cup {p}
    /\ UNCHANGED consumer

BugNotifyOne(p) ==
    /\ p \in notifying
    /\ notifying' = notifying \ {p}
    /\ consumer' = IF consumer = "waiting" /\ Len(theQueue) = 1 THEN "woken" ELSE consumer
    /\ UNCHANGED theQueue
NotifyOne(p) ==
    /\ p \in notifying
    /\ notifying' = notifying \ {p}
    /\ consumer' = IF consumer = "waiting" THEN "woken" ELSE consumer
    /\ UNCHANGED theQueue

(* pop: there is nothing in the queue, and the thread waits.               *)
Wait ==
    /\ consumer = "running"
    /\ theQueue = <<>>
    /\ consumer' = "waiting"
    /\ UNCHANGED <<theQueue, notifying>>

(* pop: the front is taken, at once or after the wait.                     *)
Pop ==
    /\ consumer \in {"running", "woken"}
    /\ theQueue # <<>>
    /\ theQueue' = Tail(theQueue)
    /\ consumer' = "running"
    /\ UNCHANGED notifying

(* pop: woken, and the queue is empty.                                     *)
PopEmpty ==
    /\ consumer = "woken"
    /\ theQueue = <<>>
    /\ consumer' = "undefined"
    /\ UNCHANGED <<theQueue, notifying>>

QueueNext ==
    \/ \E p \in Producer : (\E x \in Item : Push(p, x)) \/ NotifyOne(p)
    \/ Wait \/ Pop \/ PopEmpty

QueueSpec == QueueInit /\ [][QueueNext]_queueVars

----------------------------------------------------------------------------
(* Type invariant of the queue.                                            *)
QueueTypeOK ==
    /\ theQueue \in Seq(Item)
    /\ notifying \subseteq Producer
    /\ consumer \in {"running", "waiting", "woken", "undefined"}

(* push notifies outside the lock and only one thread: still, a thread     *)
(* that waits while there is something to take has a notification coming.  *)
NoLostWakeup ==
    consumer = "waiting" /\ theQueue # <<>> => notifying # {}

(* BlockingQueue.h:28, "we need to wait if there is nothing in the queue": *)
(* pop never takes from an empty queue.                                    *)
NeverPopsEmpty == consumer # "undefined"
=============================================================================
