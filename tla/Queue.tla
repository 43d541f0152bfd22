------------------------------- MODULE Queue -------------------------------
(***************************************************************************)
(* queue.c: a ring buffer guarded by one mutex and two condition           *)
(* variables.  Threads interleave at the pthread calls: acquiring the      *)
(* mutex, sleeping in pthread_cond_wait, leaving the mutex, and the        *)
(* pthread_cond_signal that queue_put and queue_get make AFTER leaving it. *)
(*                                                                         *)
(* pc[t] says where thread t is:                                           *)
(*   "idle"    outside queue_put and queue_get                             *)
(*   "lock"    waiting for the mutex (first time, or woken in cond_wait)   *)
(*   "test"    holds the mutex, about to test full / empty                 *)
(*   "wait"    asleep in pthread_cond_wait, mutex released                 *)
(*   "unlock"  holds the mutex, buffer updated                             *)
(*   "signal"  mutex released, about to signal                             *)
(***************************************************************************)
EXTENDS Integers, Sequences

CONSTANTS Producers,  \* threads that call queue_put
          Consumers,  \* threads that call queue_get
          Items,      \* what can be queued
          NoItem,     \* content of a slot or out parameter never written
          NoThread,   \* the mutex is free
          Capacity    \* queue->capacity

Threads == Producers \cup Consumers

ASSUME QueueAssumption ==
    /\ Capacity \in Nat \ {0}
    /\ Producers \cap Consumers = {}
    /\ NoThread \notin Producers \cup Consumers
    /\ NoItem \notin Items

VARIABLES items,      \* queue->items
          start_idx,  \* queue->start_idx: oldest item, -1 when empty
          next_idx,   \* queue->next_idx: slot of the next put
          lock,       \* owner of queue->lock
          pc,         \* where each thread is, see above
          item,       \* item[t]: queue_put's item / queue_get's out
          flag        \* flag[t]: the local was_empty / was_full

vars == <<items, start_idx, next_idx, lock, pc, item, flag>>
buffer == <<items, start_idx, next_idx>>

Slots == 0 .. Capacity - 1

TypeOK ==
    /\ items \in [Slots -> Items \cup {NoItem}]
    /\ start_idx \in Slots \cup {-1}
    /\ next_idx \in Slots
    /\ lock \in Threads \cup {NoThread}
    /\ pc \in [Threads -> {"idle", "lock", "test", "wait", "unlock", "signal"}]
    /\ item \in [Threads -> Items \cup {NoItem}]
    /\ flag \in [Threads -> BOOLEAN]

(* init_queue *)
Init ==
    /\ items = [i \in Slots |-> NoItem]
    /\ start_idx = -1
    /\ next_idx = 0
    /\ lock = NoThread
    /\ pc = [t \in Threads |-> "idle"]
    /\ item = [t \in Threads |-> NoItem]
    /\ flag = [t \in Threads |-> FALSE]

Full  == start_idx = next_idx
Empty == start_idx = -1

(* Mutant of Succ: the indices are not reduced modulo the capacity *)
SuccNoWrap(i) == i + 1

Succ(i) == (i + 1) % Capacity

-----------------------------------------------------------------------------
(* The mutex and the condition variables.                                  *)

Lock(t) ==
    /\ pc[t] = "lock"
    /\ lock = NoThread
    /\ lock' = t
    /\ pc' = [pc EXCEPT ![t] = "test"]
    /\ UNCHANGED <<buffer, item, flag>>

(* pthread_cond_wait: release the mutex and fall asleep in one step *)
Sleep(t) ==
    /\ lock' = NoThread
    /\ pc' = [pc EXCEPT ![t] = "wait"]
    /\ UNCHANGED <<buffer, item, flag>>

Unlock(t) ==
    /\ pc[t] = "unlock"
    /\ lock' = NoThread
    /\ pc' = [pc EXCEPT ![t] = IF flag[t] THEN "signal" ELSE "idle"]
    /\ UNCHANGED <<buffer, item, flag>>

(* pthread_cond_signal by t, when the threads that may sleep on the        *)
(* condition variable are those of others: one sleeper, if there is one,   *)
(* goes on to reacquire the mutex.                                         *)
Signal(t, others) ==
    LET asleep == {u \in others : pc[u] = "wait"} IN
    /\ pc[t] = "signal"
    /\ \/ /\ asleep = {}
          /\ pc' = [pc EXCEPT ![t] = "idle"]
       \/ \E u \in asleep : pc' = [pc EXCEPT ![t] = "idle", ![u] = "lock"]
    /\ UNCHANGED <<buffer, lock, item, flag>>

(* POSIX lets pthread_cond_wait return without a signal *)
SpuriousWakeup(t) ==
    /\ pc[t] = "wait"
    /\ pc' = [pc EXCEPT ![t] = "lock"]
    /\ UNCHANGED <<buffer, lock, item, flag>>

-----------------------------------------------------------------------------
(* queue_put                                                               *)

PutCall(p, it) ==
    /\ pc[p] = "idle"
    /\ pc' = [pc EXCEPT ![p] = "lock"]
    /\ item' = [item EXCEPT ![p] = it]
    /\ flag' = [flag EXCEPT ![p] = FALSE]
    /\ UNCHANGED <<buffer, lock>>

PutWait(p) ==
    /\ pc[p] = "test"
    /\ Full
    /\ Sleep(p)

(* Mutant of PutItem: was_empty is read after start_idx was set *)
PutItemLateTest(p) ==
    /\ pc[p] = "test"
    /\ ~Full
    /\ start_idx' = IF Empty THEN next_idx ELSE start_idx
    /\ flag' = [flag EXCEPT ![p] = start_idx' = -1]
    /\ items' = [items EXCEPT ![next_idx] = item[p]]
    /\ next_idx' = Succ(next_idx)
    /\ pc' = [pc EXCEPT ![p] = "unlock"]
    /\ UNCHANGED <<lock, item>>

PutItem(p) ==
    /\ pc[p] = "test"
    /\ ~Full
    /\ flag' = [flag EXCEPT ![p] = Empty]
    /\ start_idx' = IF Empty THEN next_idx ELSE start_idx
    /\ items' = [items EXCEPT ![next_idx] = item[p]]
    /\ next_idx' = Succ(next_idx)
    /\ pc' = [pc EXCEPT ![p] = "unlock"]
    /\ UNCHANGED <<lock, item>>

PutSignal(p) == Signal(p, Consumers)

-----------------------------------------------------------------------------
(* queue_get                                                               *)

GetCall(c) ==
    /\ pc[c] = "idle"
    /\ pc' = [pc EXCEPT ![c] = "lock"]
    /\ flag' = [flag EXCEPT ![c] = FALSE]
    /\ UNCHANGED <<buffer, lock, item>>

GetWait(c) ==
    /\ pc[c] = "test"
    /\ Empty
    /\ Sleep(c)

(* Mutant of GetItem: was_full is read after start_idx was advanced *)
GetItemLateTest(c) ==
    /\ pc[c] = "test"
    /\ ~Empty
    /\ item' = [item EXCEPT ![c] = items[start_idx]]
    /\ IF Succ(start_idx) = next_idx
       THEN start_idx' = -1 /\ next_idx' = 0
       ELSE start_idx' = Succ(start_idx) /\ next_idx' = next_idx
    /\ flag' = [flag EXCEPT ![c] = start_idx' = next_idx']
    /\ pc' = [pc EXCEPT ![c] = "unlock"]
    /\ UNCHANGED <<items, lock>>

(* Mutant of GetItem: an emptied ring is not marked as empty *)
GetItemNoReset(c) ==
    /\ pc[c] = "test"
    /\ ~Empty
    /\ item' = [item EXCEPT ![c] = items[start_idx]]
    /\ flag' = [flag EXCEPT ![c] = Full]
    /\ start_idx' = Succ(start_idx)
    /\ pc' = [pc EXCEPT ![c] = "unlock"]
    /\ UNCHANGED <<items, next_idx, lock>>

GetItem(c) ==
    /\ pc[c] = "test"
    /\ ~Empty
    /\ item' = [item EXCEPT ![c] = items[start_idx]]
    /\ flag' = [flag EXCEPT ![c] = Full]
    /\ IF Succ(start_idx) = next_idx
       THEN start_idx' = -1 /\ next_idx' = 0
       ELSE start_idx' = Succ(start_idx) /\ next_idx' = next_idx
    /\ pc' = [pc EXCEPT ![c] = "unlock"]
    /\ UNCHANGED <<items, lock>>

GetSignal(c) == Signal(c, Producers)

-----------------------------------------------------------------------------
ProducerStep(p) ==
    \/ Lock(p) \/ PutWait(p) \/ PutItem(p) \/ Unlock(p) \/ PutSignal(p)

ConsumerStep(c) ==
    \/ Lock(c) \/ GetWait(c) \/ GetItem(c) \/ Unlock(c) \/ GetSignal(c)

Next ==
    \/ \E p \in Producers, it \in Items : PutCall(p, it)
    \/ \E p \in Producers : ProducerStep(p)
    \/ \E c \in Consumers : GetCall(c)
    \/ \E c \in Consumers : ConsumerStep(c)
    \/ \E t \in Threads : SpuriousWakeup(t)

Spec == Init /\ [][Next]_vars

(***************************************************************************)
(* A thread inside an operation keeps being scheduled, and does not lose   *)
(* the race for the mutex for ever.  A consumer comes back for more: the   *)
(* loop of process_thread.  Nothing obliges a producer to put.             *)
(***************************************************************************)
Fairness ==
    /\ \A p \in Producers :
        /\ SF_vars(Lock(p))
        /\ WF_vars(PutWait(p) \/ PutItem(p) \/ Unlock(p) \/ PutSignal(p))
    /\ \A c \in Consumers :
        /\ SF_vars(Lock(c))
        /\ WF_vars(GetCall(c) \/ GetWait(c) \/ GetItem(c) \/ Unlock(c) \/ GetSignal(c))

FairSpec == Spec /\ Fairness

-----------------------------------------------------------------------------
(* What the ring holds, oldest item first.                                 *)

Length ==
    IF Empty THEN 0
    ELSE IF start_idx < next_idx THEN next_idx - start_idx
    ELSE Capacity + next_idx - start_idx

(* the slot of the i-th oldest item when the oldest is in slot s *)
Slot(s, i) == IF s + i - 1 < Capacity THEN s + i - 1 ELSE s + i - 1 - Capacity

Contents == [i \in 1 .. Length |-> items[Slot(start_idx, i)]]

(* p has entered queue_put and its item is not in the ring yet *)
Offering(p) == pc[p] \in {"lock", "test", "wait"}

Fifo == INSTANCE BoundedFifo WITH
    fifo  <- Contents,
    offer <- [p \in Producers |-> IF Offering(p) THEN item[p] ELSE NoItem],
    got   <- [c \in Consumers |-> item[c]]

(***************************************************************************)
(* Every step of queue_put and queue_get, in any interleaving and whatever *)
(* the wakeups, is a step of a bounded FIFO or invisible: no item is lost, *)
(* duplicated, overwritten or reordered as the indices wrap around.        *)
(***************************************************************************)
ImplementsFifo == Fifo!Spec

(***************************************************************************)
(* A producer sleeps on not_full only while the ring is full, or a         *)
(* consumer has made room and its pthread_cond_signal is still to come.    *)
(* queue_get signals only on the full -> not full transition, so nothing   *)
(* later would wake a producer this formula does not cover.                *)
(***************************************************************************)
NoLostWakeupOfProducers ==
    (\E p \in Producers : pc[p] = "wait") =>
        \/ Full
        \/ \E c \in Consumers : pc[c] \in {"unlock", "signal"} /\ flag[c]

(***************************************************************************)
(* The same for consumers asleep on not_empty and the was_empty signal of  *)
(* queue_put.                                                              *)
(***************************************************************************)
NoLostWakeupOfConsumers ==
    (\E c \in Consumers : pc[c] = "wait") =>
        \/ Empty
        \/ \E p \in Producers : pc[p] \in {"unlock", "signal"} /\ flag[p]

(***************************************************************************)
(* queue_put returns: a producer that found the ring full is woken and     *)
(* gets its item in, as long as the consumer keeps consuming.              *)
(***************************************************************************)
PutReturns == \A p \in Producers : pc[p] = "lock" ~> pc[p] = "idle"

(***************************************************************************)
(* An item does not stay queued behind a sleeping consumer: a non-empty    *)
(* ring is always read from again.                                         *)
(***************************************************************************)
ItemsAreTaken == \A c \in Consumers : ~Empty ~> (pc[c] = "unlock")

=============================================================================
