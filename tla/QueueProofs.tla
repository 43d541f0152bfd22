---------------------------- MODULE QueueProofs ----------------------------
(***************************************************************************)
(* Proofs about Queue, for any sets of threads and items and any capacity. *)
(***************************************************************************)
EXTENDS Queue, TLAPS

(* The index of the next slot stays inside the ring, and wraps to 0.       *)
LEMMA SuccInRing ==
    ASSUME NEW i \in Slots
    PROVE  /\ Succ(i) \in Slots
           /\ Succ(i) = IF i + 1 = Capacity THEN 0 ELSE i + 1
  <1>1. CASE i + 1 = Capacity
    BY <1>1, QueueAssumption DEF Slots, Succ
  <1>2. CASE i + 1 # Capacity
    BY <1>2, QueueAssumption DEF Slots, Succ
  <1>3. QED BY <1>1, <1>2

(* Type correctness: in particular start_idx and next_idx never leave the  *)
(* array, so every access queue_put and queue_get make is inside items.    *)
THEOREM TypeCorrect == Spec => []TypeOK
  <1>1. Init => TypeOK
    BY QueueAssumption DEF Init, TypeOK, Slots
  <1>2. TypeOK /\ [Next]_vars => TypeOK'
    <2> SUFFICES ASSUME TypeOK, [Next]_vars
                 PROVE  TypeOK'
      OBVIOUS
    <2> USE DEF TypeOK, buffer, Threads
    <2>1. ASSUME NEW p \in Producers, NEW it \in Items, PutCall(p, it)
          PROVE  TypeOK'
      BY <2>1 DEF PutCall
    <2>2. ASSUME NEW c \in Consumers, GetCall(c)
          PROVE  TypeOK'
      BY <2>2 DEF GetCall
    <2>3. ASSUME NEW t \in Threads, Lock(t)
          PROVE  TypeOK'
      BY <2>3 DEF Lock
    <2>4. ASSUME NEW t \in Threads, Sleep(t)
          PROVE  TypeOK'
      BY <2>4 DEF Sleep
    <2>5. ASSUME NEW t \in Threads, Unlock(t)
          PROVE  TypeOK'
      BY <2>5 DEF Unlock
    <2>6. ASSUME NEW t \in Threads, NEW others \in SUBSET Threads, Signal(t, others)
          PROVE  TypeOK'
      BY <2>6 DEF Signal
    <2>7. ASSUME NEW t \in Threads, SpuriousWakeup(t)
          PROVE  TypeOK'
      BY <2>7 DEF SpuriousWakeup
    <2>8. ASSUME NEW p \in Producers, PutItem(p)
          PROVE  TypeOK'
      <3>1. Succ(next_idx) \in Slots
        BY SuccInRing
      <3>2. QED BY <2>8, <3>1 DEF PutItem, Empty
    <2>9. ASSUME NEW c \in Consumers, GetItem(c)
          PROVE  TypeOK'
      <3>1. start_idx \in Slots
        BY <2>9 DEF GetItem, Empty
      <3>2. Succ(start_idx) \in Slots /\ 0 \in Slots
        BY <3>1, SuccInRing, QueueAssumption DEF Slots
      <3>3. QED BY <2>9, <3>1, <3>2 DEF GetItem, Full
    <2>10. CASE UNCHANGED vars
      BY <2>10 DEF vars
    <2>11. QED
      BY <2>1, <2>2, <2>3, <2>4, <2>5, <2>6, <2>7, <2>8, <2>9, <2>10
         DEF Next, ProducerStep, ConsumerStep, PutWait, GetWait, PutSignal, GetSignal
  <1>3. QED BY <1>1, <1>2, PTL DEF Spec
-----------------------------------------------------------------------------
(***************************************************************************)
(* Mutual exclusion: the owner recorded in lock is exactly the thread      *)
(* between pthread_mutex_lock and pthread_mutex_unlock (or cond_wait).     *)
(***************************************************************************)
InCriticalSection(t) == pc[t] \in {"test", "unlock"}

OwnerInv == \A t \in Threads : InCriticalSection(t) <=> lock = t

(* At most one thread at a time reads or writes the ring. *)
MutualExclusion ==
    \A t, u \in Threads : InCriticalSection(t) /\ InCriticalSection(u) => t = u

(* A thread inside queue_put carries a real item. *)
OfferInv == \A p \in Producers : Offering(p) => item[p] \in Items

LEMMA OwnerInvariant == Spec => []OwnerInv
  <1> USE DEF OwnerInv, InCriticalSection, TypeOK, buffer, Threads
  <1>1. Init => OwnerInv
    BY QueueAssumption DEF Init
  <1>2. TypeOK /\ OwnerInv /\ [Next]_vars => OwnerInv'
    <2> SUFFICES ASSUME TypeOK, OwnerInv, [Next]_vars
                 PROVE  OwnerInv'
      OBVIOUS
    <2>1. ASSUME NEW p \in Producers, NEW it \in Items, PutCall(p, it)
          PROVE  OwnerInv'
      BY <2>1 DEF PutCall
    <2>2. ASSUME NEW c \in Consumers, GetCall(c)
          PROVE  OwnerInv'
      BY <2>2 DEF GetCall
    <2>3. ASSUME NEW t \in Threads, Lock(t)
          PROVE  OwnerInv'
      BY <2>3, QueueAssumption DEF Lock
    <2>4. ASSUME NEW t \in Threads, pc[t] = "test", Sleep(t)
          PROVE  OwnerInv'
      BY <2>4, QueueAssumption DEF Sleep
    <2>5. ASSUME NEW t \in Threads, Unlock(t)
          PROVE  OwnerInv'
      BY <2>5, QueueAssumption DEF Unlock
    <2>6. ASSUME NEW t \in Threads, NEW others \in SUBSET Threads, Signal(t, others)
          PROVE  OwnerInv'
      BY <2>6 DEF Signal
    <2>7. ASSUME NEW t \in Threads, SpuriousWakeup(t)
          PROVE  OwnerInv'
      BY <2>7 DEF SpuriousWakeup
    <2>8. ASSUME NEW p \in Producers, PutItem(p)
          PROVE  OwnerInv'
      BY <2>8 DEF PutItem
    <2>9. ASSUME NEW c \in Consumers, GetItem(c)
          PROVE  OwnerInv'
      BY <2>9 DEF GetItem
    <2>10. CASE UNCHANGED vars
      BY <2>10 DEF vars
    <2>11. QED
      BY <2>1, <2>2, <2>3, <2>4, <2>5, <2>6, <2>7, <2>8, <2>9, <2>10
         DEF Next, ProducerStep, ConsumerStep, PutWait, GetWait, PutSignal, GetSignal
  <1>3. QED BY <1>1, <1>2, TypeCorrect, PTL DEF Spec

(* No two threads are ever inside the critical sections of queue_put and   *)
(* queue_get: sleeping in pthread_cond_wait really gives the mutex up.     *)
THEOREM MutexHolds == Spec => []MutualExclusion
  <1>1. OwnerInv => MutualExclusion
    BY DEF OwnerInv, MutualExclusion
  <1>2. QED BY <1>1, OwnerInvariant, PTL

LEMMA OfferInvariant == Spec => []OfferInv
  <1> USE DEF OfferInv, Offering, TypeOK, buffer, Threads
  <1>1. Init => OfferInv
    BY DEF Init
  <1>2. TypeOK /\ OfferInv /\ [Next]_vars => OfferInv'
    <2> SUFFICES ASSUME TypeOK, OfferInv, [Next]_vars
                 PROVE  OfferInv'
      OBVIOUS
    <2>1. ASSUME NEW p \in Producers, NEW it \in Items, PutCall(p, it)
          PROVE  OfferInv'
      BY <2>1 DEF PutCall
    <2>2. ASSUME NEW c \in Consumers, GetCall(c)
          PROVE  OfferInv'
      BY <2>2, QueueAssumption DEF GetCall
    <2>3. ASSUME NEW t \in Threads, Lock(t)
          PROVE  OfferInv'
      BY <2>3 DEF Lock
    <2>4. ASSUME NEW t \in Threads, pc[t] = "test", Sleep(t)
          PROVE  OfferInv'
      BY <2>4 DEF Sleep
    <2>5. ASSUME NEW t \in Threads, Unlock(t)
          PROVE  OfferInv'
      BY <2>5 DEF Unlock
    <2>6. ASSUME NEW t \in Threads, NEW others \in SUBSET Threads, Signal(t, others)
          PROVE  OfferInv'
      BY <2>6 DEF Signal
    <2>7. ASSUME NEW t \in Threads, SpuriousWakeup(t)
          PROVE  OfferInv'
      BY <2>7 DEF SpuriousWakeup
    <2>8. ASSUME NEW p \in Producers, PutItem(p)
          PROVE  OfferInv'
      BY <2>8 DEF PutItem
    <2>9. ASSUME NEW c \in Consumers, GetItem(c)
          PROVE  OfferInv'
      BY <2>9, QueueAssumption DEF GetItem
    <2>10. CASE UNCHANGED vars
      BY <2>10 DEF vars
    <2>11. QED
      BY <2>1, <2>2, <2>3, <2>4, <2>5, <2>6, <2>7, <2>8, <2>9, <2>10
         DEF Next, ProducerStep, ConsumerStep, PutWait, GetWait, PutSignal, GetSignal
  <1>3. QED BY <1>1, <1>2, TypeCorrect, PTL DEF Spec
-----------------------------------------------------------------------------
(***************************************************************************)
(* No lost wakeup.  With a single producer the was_full signal of          *)
(* queue_get is enough: the producer that fell asleep on a full ring is    *)
(* the only thread the signal can wake, and only it could fill the ring    *)
(* again.  With two consumers the mirror image fails: a second put made    *)
(* before the first woken consumer runs finds the ring non-empty, signals  *)
(* nobody, and the second consumer sleeps on.                              *)
(***************************************************************************)
THEOREM SingleProducerIsWoken ==
    ASSUME \A p, q \in Producers : p = q
    PROVE  Spec => []NoLostWakeupOfProducers
  <1> USE DEF NoLostWakeupOfProducers, Full, TypeOK, buffer, Threads
  <1>1. Init => NoLostWakeupOfProducers
    BY DEF Init
  <1>2. TypeOK /\ NoLostWakeupOfProducers /\ [Next]_vars => NoLostWakeupOfProducers'
    <2> SUFFICES ASSUME TypeOK, NoLostWakeupOfProducers, [Next]_vars
                 PROVE  NoLostWakeupOfProducers'
      OBVIOUS
    <2>1. ASSUME NEW p \in Producers, NEW it \in Items, PutCall(p, it)
          PROVE  NoLostWakeupOfProducers'
      BY <2>1, QueueAssumption DEF PutCall
    <2>2. ASSUME NEW c \in Consumers, GetCall(c)
          PROVE  NoLostWakeupOfProducers'
      BY <2>2, QueueAssumption DEF GetCall
    <2>3. ASSUME NEW t \in Threads, Lock(t)
          PROVE  NoLostWakeupOfProducers'
      BY <2>3 DEF Lock
    <2>4. ASSUME NEW p \in Producers, PutWait(p)
          PROVE  NoLostWakeupOfProducers'
      BY <2>4 DEF PutWait, Sleep
    <2>5. ASSUME NEW c \in Consumers, GetWait(c)
          PROVE  NoLostWakeupOfProducers'
      BY <2>5, QueueAssumption DEF GetWait, Sleep
    <2>6. ASSUME NEW t \in Threads, Unlock(t)
          PROVE  NoLostWakeupOfProducers'
      BY <2>6, QueueAssumption DEF Unlock
    <2>7. ASSUME NEW p \in Producers, PutSignal(p)
          PROVE  NoLostWakeupOfProducers'
      BY <2>7, QueueAssumption DEF PutSignal, Signal
    <2>8. ASSUME NEW c \in Consumers, GetSignal(c)
          PROVE  NoLostWakeupOfProducers'
      BY <2>8, QueueAssumption DEF GetSignal, Signal
    <2>9. ASSUME NEW t \in Threads, SpuriousWakeup(t)
          PROVE  NoLostWakeupOfProducers'
      BY <2>9 DEF SpuriousWakeup
    <2>10. ASSUME NEW p \in Producers, PutItem(p)
           PROVE  NoLostWakeupOfProducers'
      BY <2>10 DEF PutItem
    <2>11. ASSUME NEW c \in Consumers, GetItem(c)
           PROVE  NoLostWakeupOfProducers'
      BY <2>11, QueueAssumption DEF GetItem
    <2>12. CASE UNCHANGED vars
      BY <2>12 DEF vars
    <2>13. QED
      BY <2>1, <2>2, <2>3, <2>4, <2>5, <2>6, <2>7, <2>8, <2>9, <2>10, <2>11, <2>12
         DEF Next, ProducerStep, ConsumerStep
  <1>3. QED BY <1>1, <1>2, TypeCorrect, PTL DEF Spec

(* The same for the was_empty signal of queue_put: a single consumer, such *)
(* as process_thread, is never left asleep on a non-empty queue.           *)
THEOREM SingleConsumerIsWoken ==
    ASSUME \A c, d \in Consumers : c = d
    PROVE  Spec => []NoLostWakeupOfConsumers
  <1> USE DEF NoLostWakeupOfConsumers, Empty, TypeOK, buffer, Threads
  <1>1. Init => NoLostWakeupOfConsumers
    BY DEF Init
  <1>2. TypeOK /\ NoLostWakeupOfConsumers /\ [Next]_vars => NoLostWakeupOfConsumers'
    <2> SUFFICES ASSUME TypeOK, NoLostWakeupOfConsumers, [Next]_vars
                 PROVE  NoLostWakeupOfConsumers'
      OBVIOUS
    <2>1. ASSUME NEW p \in Producers, NEW it \in Items, PutCall(p, it)
          PROVE  NoLostWakeupOfConsumers'
      BY <2>1, QueueAssumption DEF PutCall
    <2>2. ASSUME NEW c \in Consumers, GetCall(c)
          PROVE  NoLostWakeupOfConsumers'
      BY <2>2, QueueAssumption DEF GetCall
    <2>3. ASSUME NEW t \in Threads, Lock(t)
          PROVE  NoLostWakeupOfConsumers'
      BY <2>3 DEF Lock
    <2>4. ASSUME NEW p \in Producers, PutWait(p)
          PROVE  NoLostWakeupOfConsumers'
      BY <2>4, QueueAssumption DEF PutWait, Sleep
    <2>5. ASSUME NEW c \in Consumers, GetWait(c)
          PROVE  NoLostWakeupOfConsumers'
      BY <2>5 DEF GetWait, Sleep
    <2>6. ASSUME NEW t \in Threads, Unlock(t)
          PROVE  NoLostWakeupOfConsumers'
      BY <2>6, QueueAssumption DEF Unlock
    <2>7. ASSUME NEW p \in Producers, PutSignal(p)
          PROVE  NoLostWakeupOfConsumers'
      BY <2>7, QueueAssumption DEF PutSignal, Signal
    <2>8. ASSUME NEW c \in Consumers, GetSignal(c)
          PROVE  NoLostWakeupOfConsumers'
      BY <2>8, QueueAssumption DEF GetSignal, Signal
    <2>9. ASSUME NEW t \in Threads, SpuriousWakeup(t)
          PROVE  NoLostWakeupOfConsumers'
      BY <2>9 DEF SpuriousWakeup
    <2>10. ASSUME NEW p \in Producers, PutItem(p)
           PROVE  NoLostWakeupOfConsumers'
      BY <2>10, QueueAssumption DEF PutItem
    <2>11. ASSUME NEW c \in Consumers, GetItem(c)
           PROVE  NoLostWakeupOfConsumers'
      BY <2>11 DEF GetItem
    <2>12. CASE UNCHANGED vars
      BY <2>12 DEF vars
    <2>13. QED
      BY <2>1, <2>2, <2>3, <2>4, <2>5, <2>6, <2>7, <2>8, <2>9, <2>10, <2>11, <2>12
         DEF Next, ProducerStep, ConsumerStep
  <1>3. QED BY <1>1, <1>2, TypeCorrect, PTL DEF Spec
-----------------------------------------------------------------------------
(***************************************************************************)
(* Queue implements BoundedFifo.  The work is in three facts about the     *)
(* ring: how many items it holds, and what a put and a get do to the       *)
(* sequence of its items, wrap-around included.                            *)
(***************************************************************************)
AbsOffer == [p \in Producers |-> IF Offering(p) THEN item[p] ELSE NoItem]
AbsGot   == [c \in Consumers |-> item[c]]

(* The number of items lies between 0 and Capacity, and is Capacity        *)
(* exactly when start_idx = next_idx.                                      *)
LEMMA LengthInRange ==
    ASSUME TypeOK
    PROVE  /\ Length \in 0 .. Capacity
           /\ Length = 0 <=> Empty
           /\ Length = Capacity <=> Full
  BY QueueAssumption DEF TypeOK, Length, Empty, Full, Slots

(* queue_put appends its item to the sequence of queued items. *)
LEMMA PutAppends ==
    ASSUME TypeOK, NEW p \in Producers, PutItem(p)
    PROVE  Contents' = Append(Contents, item[p])
  <1> DEFINE n == Length
  <1> USE QueueAssumption DEF TypeOK, Slots, Empty, Full
  <1>1. Succ(next_idx) = IF next_idx + 1 = Capacity THEN 0 ELSE next_idx + 1
    BY SuccInRing
  <1>2. n \in Nat /\ Length' = n + 1
    BY <1>1 DEF PutItem, Length
  <1>3. ASSUME NEW i \in 1 .. n
        PROVE  /\ start_idx' = start_idx
               /\ Slot(start_idx, i) \in Slots
               /\ Slot(start_idx, i) # next_idx
    BY <1>1 DEF PutItem, Length, Slot
  <1>4. Slot(start_idx', n + 1) = next_idx
    BY <1>1 DEF PutItem, Length, Slot
  <1>5. ASSUME NEW i \in 1 .. n
        PROVE  items'[Slot(start_idx', i)] = items[Slot(start_idx, i)]
    <2>1. items' = [items EXCEPT ![next_idx] = item[p]]
      BY DEF PutItem
    <2>2. QED BY <1>3, <2>1
  <1>6. items'[Slot(start_idx', n + 1)] = item[p]
    BY <1>4 DEF PutItem
  <1>7. Contents' = [i \in 1 .. n + 1 |-> items'[Slot(start_idx', i)]]
    BY <1>2 DEF Contents
  <1>8. Contents = [i \in 1 .. n |-> items[Slot(start_idx, i)]]
    BY DEF Contents
  <1> HIDE DEF n
  <1>9. Append(Contents, item[p])
          = [i \in 1 .. n + 1 |-> IF i = n + 1 THEN item[p] ELSE items[Slot(start_idx, i)]]
    BY <1>2, <1>8
  <1>10. QED BY <1>2, <1>5, <1>6, <1>7, <1>9

(* queue_get removes the oldest item and hands exactly that item out. *)
LEMMA GetRemovesOldest ==
    ASSUME TypeOK, NEW c \in Consumers, GetItem(c)
    PROVE  /\ Contents # <<>>
           /\ items[start_idx] = Head(Contents)
           /\ Contents' = Tail(Contents)
  <1> DEFINE n == Length
  <1> USE QueueAssumption DEF TypeOK, Slots, Empty, Full
  <1>1. start_idx \in Slots
    BY DEF GetItem
  <1>2. Succ(start_idx) = IF start_idx + 1 = Capacity THEN 0 ELSE start_idx + 1
    BY <1>1, SuccInRing
  <1>3. n \in 1 .. Capacity /\ Length' = n - 1
    <2>1. n \in 1 .. Capacity
      BY <1>1 DEF Length
    <2>2. CASE Succ(start_idx) = next_idx
      <3>1. start_idx' = -1
        BY <2>2 DEF GetItem
      <3>2. n = 1
        BY <1>1, <1>2, <2>2 DEF Length
      <3>3. QED BY <3>1, <3>2 DEF Length
    <2>3. CASE Succ(start_idx) # next_idx
      <3>1. start_idx' = Succ(start_idx) /\ next_idx' = next_idx
        BY <2>3 DEF GetItem
      <3>2. QED BY <1>1, <1>2, <2>3, <3>1 DEF Length
    <2>4. QED BY <2>1, <2>2, <2>3
  <1>4. ASSUME NEW i \in 1 .. n - 1
        PROVE  Slot(start_idx', i) = Slot(start_idx, i + 1)
    <2>1. n # 1
      BY <1>3, <1>4
    <2>2. start_idx' = Succ(start_idx)
      BY <1>1, <1>2, <2>1 DEF GetItem, Length
    <2>3. QED BY <1>1, <1>2, <1>3, <1>4, <2>2 DEF Slot
  <1>5. Slot(start_idx, 1) = start_idx
    BY <1>1 DEF Slot
  <1>6. Contents = [i \in 1 .. n |-> items[Slot(start_idx, i)]]
    BY DEF Contents
  <1>7. Contents' = [i \in 1 .. n - 1 |-> items[Slot(start_idx', i)]]
    BY <1>3 DEF Contents, GetItem
  <1> HIDE DEF n
  <1>8. /\ Contents # <<>>
        /\ Head(Contents) = items[start_idx]
    BY <1>3, <1>5, <1>6
  <1>9. Tail(Contents) = [i \in 1 .. n - 1 |-> items[Slot(start_idx, i + 1)]]
    BY <1>3, <1>6
  <1>10. QED BY <1>4, <1>7, <1>8, <1>9

(***************************************************************************)
(* queue.c is a bounded FIFO: for any number of threads, any items and any *)
(* capacity, every step of queue_put and queue_get is a step of            *)
(* BoundedFifo or leaves the abstract queue unchanged.                     *)
(***************************************************************************)
THEOREM QueueIsFifo == Spec => ImplementsFifo
  <1>1. Init => Fifo!Init
    BY QueueAssumption DEF Init, Fifo!Init, Contents, Length, Empty, Offering, Threads
  <1>2. TypeOK /\ OfferInv /\ [Next]_vars => [Fifo!Next]_(Fifo!vars)
    <2> SUFFICES ASSUME TypeOK, OfferInv, [Next]_vars
                 PROVE  [Fifo!Next]_(Fifo!vars)
      OBVIOUS
    <2> USE DEF Offering, TypeOK, Threads
    <2>1. ASSUME UNCHANGED buffer
          PROVE  Contents' = Contents
      BY <2>1 DEF buffer, Contents, Length, Empty
    <2>2. ASSUME UNCHANGED buffer, UNCHANGED item,
                 \A p \in Producers : Offering(p)' <=> Offering(p)
          PROVE  UNCHANGED Fifo!vars
      BY <2>1, <2>2 DEF Fifo!vars
    <2>3. ASSUME NEW p \in Producers, NEW it \in Items, PutCall(p, it)
          PROVE  Fifo!Offer(p, it)
      <3>1. Contents' = Contents
        BY <2>1, <2>3 DEF PutCall
      <3>2. AbsOffer[p] = NoItem /\ AbsOffer' = [AbsOffer EXCEPT ![p] = it]
        BY <2>3 DEF PutCall, AbsOffer
      <3>3. AbsGot' = AbsGot
        BY <2>3, QueueAssumption DEF PutCall, AbsGot
      <3>4. QED BY <3>1, <3>2, <3>3 DEF Fifo!Offer, AbsOffer, AbsGot
    <2>4. ASSUME NEW c \in Consumers, GetCall(c)
          PROVE  UNCHANGED Fifo!vars
      BY <2>2, <2>4, QueueAssumption DEF GetCall
    <2>5. ASSUME NEW t \in Threads, Lock(t)
          PROVE  UNCHANGED Fifo!vars
      BY <2>2, <2>5 DEF Lock
    <2>6. ASSUME NEW t \in Threads, pc[t] = "test", Sleep(t)
          PROVE  UNCHANGED Fifo!vars
      BY <2>2, <2>6 DEF Sleep
    <2>7. ASSUME NEW t \in Threads, Unlock(t)
          PROVE  UNCHANGED Fifo!vars
      BY <2>2, <2>7 DEF Unlock
    <2>8. ASSUME NEW t \in Threads, NEW others \in SUBSET Threads, Signal(t, others)
          PROVE  UNCHANGED Fifo!vars
      BY <2>2, <2>8 DEF Signal
    <2>9. ASSUME NEW t \in Threads, SpuriousWakeup(t)
          PROVE  UNCHANGED Fifo!vars
      BY <2>2, <2>9 DEF SpuriousWakeup
    <2>10. ASSUME NEW p \in Producers, PutItem(p)
           PROVE  Fifo!Put(p)
      <3>1. AbsOffer[p] = item[p] /\ item[p] # NoItem
        BY <2>10, QueueAssumption DEF PutItem, AbsOffer, OfferInv
      <3>2. Len(Contents) < Capacity
        <4>1. Len(Contents) = Length
          BY LengthInRange, QueueAssumption DEF Contents
        <4>2. QED BY <2>10, <4>1, LengthInRange, QueueAssumption DEF PutItem
      <3>3. Contents' = Append(Contents, AbsOffer[p])
        BY <2>10, <3>1, PutAppends
      <3>4. AbsOffer' = [AbsOffer EXCEPT ![p] = NoItem]
        BY <2>10 DEF PutItem, AbsOffer
      <3>5. AbsGot' = AbsGot
        BY <2>10 DEF PutItem, AbsGot
      <3>6. QED BY <3>1, <3>2, <3>3, <3>4, <3>5 DEF Fifo!Put, AbsOffer, AbsGot
    <2>11. ASSUME NEW c \in Consumers, GetItem(c)
           PROVE  Fifo!Get(c)
      <3>1. /\ Contents # <<>>
            /\ items[start_idx] = Head(Contents)
            /\ Contents' = Tail(Contents)
        BY <2>11, GetRemovesOldest
      <3>2. AbsGot' = [AbsGot EXCEPT ![c] = Head(Contents)]
        BY <2>11, <3>1 DEF GetItem, AbsGot
      <3>3. AbsOffer' = AbsOffer
        BY <2>11, QueueAssumption DEF GetItem, AbsOffer
      <3>4. QED BY <3>1, <3>2, <3>3 DEF Fifo!Get, AbsOffer, AbsGot
    <2>12. ASSUME UNCHANGED vars
           PROVE  UNCHANGED Fifo!vars
      BY <2>2, <2>12 DEF vars, buffer
    <2>13. QED
      BY <2>3, <2>4, <2>5, <2>6, <2>7, <2>8, <2>9, <2>10, <2>11, <2>12
         DEF Next, ProducerStep, ConsumerStep, PutWait, GetWait, PutSignal, GetSignal, Fifo!Next
  <1>3. QED BY <1>1, <1>2, TypeCorrect, OfferInvariant, PTL DEF Spec, ImplementsFifo, Fifo!Spec

=============================================================================
