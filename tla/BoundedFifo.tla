---------------------------- MODULE BoundedFifo ----------------------------
(***************************************************************************)
(* What a bounded blocking queue promises, whatever its representation:    *)
(* items leave in the order they entered, none is lost, duplicated or      *)
(* invented, and at most Capacity of them are inside.                      *)
(*                                                                         *)
(* A producer offers an item; later the item enters the queue; a consumer  *)
(* takes the oldest one.  Queue (queue.c) implements this specification,   *)
(* and Pipeline (the threads of cscan.c) is built on its Put and Get.      *)
(***************************************************************************)
EXTENDS Naturals, Sequences

CONSTANTS Producers,  \* threads that call queue_put
          Consumers,  \* threads that call queue_get
          Items,      \* what can be queued
          NoItem,     \* not an item: nothing offered, nothing taken yet
          Capacity    \* the number of slots

VARIABLES fifo,       \* the queued items, oldest first
          offer,      \* offer[p]: the item producer p wants to put, or NoItem
          got         \* got[c]: the last item consumer c took, or NoItem

vars == <<fifo, offer, got>>

Init ==
    /\ fifo = <<>>
    /\ offer = [p \in Producers |-> NoItem]
    /\ got = [c \in Consumers |-> NoItem]

Offer(p, item) ==
    /\ offer[p] = NoItem
    /\ offer' = [offer EXCEPT ![p] = item]
    /\ UNCHANGED <<fifo, got>>

Put(p) ==
    /\ offer[p] # NoItem
    /\ Len(fifo) < Capacity
    /\ fifo' = Append(fifo, offer[p])
    /\ offer' = [offer EXCEPT ![p] = NoItem]
    /\ UNCHANGED got

Get(c) ==
    /\ fifo # <<>>
    /\ got' = [got EXCEPT ![c] = Head(fifo)]
    /\ fifo' = Tail(fifo)
    /\ UNCHANGED offer

Next ==
    \/ \E p \in Producers, item \in Items : Offer(p, item)
    \/ \E p \in Producers : Put(p)
    \/ \E c \in Consumers : Get(c)

Spec == Init /\ [][Next]_vars
=============================================================================
