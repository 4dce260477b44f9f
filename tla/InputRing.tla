----------------------------- MODULE InputRing -----------------------------
(***************************************************************************)
(* The interrupt-safe event ring of kernel/src/input.c: one producer, the  *)
(* interrupt handlers, and one consumer, the kernel's main loop.           *)
(*                                                                         *)
(* The kernel runs on one processor and its interrupt gates clear IF, so   *)
(* input_push_isr is one step.  input_pop runs with interrupts enabled: an *)
(* interrupt may come between any two of its accesses to the shared words, *)
(* so each access is a step, and the copy of an event, which is wider than *)
(* one access, is two.  Indices are reduced with % Capacity, which is what *)
(* & INPUT_QUEUE_MASK computes for the code's power of two.                *)
(***************************************************************************)
EXTENDS Naturals, Sequences

CONSTANTS Capacity,     \* INPUT_QUEUE_CAPACITY
          Events,       \* events that a handler may push
          NoEvent,      \* the zeroed slots of the ring before their first use
          Busy, Empty,  \* see BoundedFifo
          MaxDropped    \* bound on the drops explored (the counter has 64 bits)

ASSUME RingAssumption ==
  /\ Capacity \in Nat /\ Capacity >= 2
  /\ MaxDropped \in Nat
  /\ NoEvent \notin Events
  /\ Busy \notin Events /\ Empty \notin Events /\ Busy # Empty

VARIABLES queue, head, tail, dropped,   \* the shared words
          pc,                           \* where the consumer is in input_pop
          current_tail,                 \* its local copy of tail
          event,                        \* the caller's buffer, in two halves
          answer                        \* what the last call returned

ringVars == <<queue, head, tail, dropped>>
popVars == <<pc, current_tail, event, answer>>
vars == <<queue, head, tail, dropped, pc, current_tail, event, answer>>

Index == 0..(Capacity - 1)

-----------------------------------------------------------------------------

\* input_reset runs once, before interrupts are enabled.
Init ==
  /\ queue = [i \in Index |-> NoEvent]
  /\ head = 0 /\ tail = 0 /\ dropped = 0
  /\ pc = "idle"
  /\ current_tail = 0
  /\ event = [lo |-> NoEvent, hi |-> NoEvent]
  /\ answer = Empty

\* input_push_isr, for an event or for an event of type NONE.
Push(e) ==
  \/ /\ e = NoEvent
     /\ UNCHANGED vars
  \/ /\ e # NoEvent
     /\ (head + 1) % Capacity = tail
     /\ dropped < MaxDropped
     /\ dropped' = dropped + 1
     /\ UNCHANGED <<queue, head, tail, popVars>>
  \/ /\ e # NoEvent
     /\ (head + 1) % Capacity # tail
     /\ queue' = [queue EXCEPT ![head] = e]
     /\ head' = (head + 1) % Capacity
     /\ UNCHANGED <<tail, dropped, popVars>>

-----------------------------------------------------------------------------

\* input_pop, one step for each access.
PopLoadTail ==
  /\ pc = "idle"
  /\ current_tail' = tail
  /\ answer' = Busy
  /\ pc' = "tail_loaded"
  /\ UNCHANGED <<ringVars, event>>

PopLoadHead ==
  /\ pc = "tail_loaded"
  /\ IF current_tail = head
     THEN answer' = Empty /\ pc' = "idle"
     ELSE pc' = "copy_lo" /\ UNCHANGED answer
  /\ UNCHANGED <<ringVars, current_tail, event>>

PopCopyLo ==
  /\ pc = "copy_lo"
  /\ event' = [event EXCEPT !.lo = queue[current_tail]]
  /\ pc' = "copy_hi"
  /\ UNCHANGED <<ringVars, current_tail, answer>>

PopCopyHi ==
  /\ pc = "copy_hi"
  /\ event' = [event EXCEPT !.hi = queue[current_tail]]
  /\ pc' = "store_tail"
  /\ UNCHANGED <<ringVars, current_tail, answer>>

\* Faulty variant: frees everything up to head.
PopStoreHead ==
  /\ pc = "store_tail"
  /\ tail' = head
  /\ answer' = event.lo
  /\ pc' = "idle"
  /\ UNCHANGED <<queue, head, dropped, current_tail, event>>

PopStoreTail ==
  /\ pc = "store_tail"
  /\ tail' = (current_tail + 1) % Capacity
  /\ answer' = event.lo
  /\ pc' = "idle"
  /\ UNCHANGED <<queue, head, dropped, current_tail, event>>

Pop == PopLoadTail \/ PopLoadHead \/ PopCopyLo \/ PopCopyHi \/ PopStoreTail

Next == (\E e \in Events \cup {NoEvent} : Push(e)) \/ Pop

Spec == Init /\ [][Next]_vars

-----------------------------------------------------------------------------

\* Every variable holds a value of its type.
TypeOK ==
  /\ queue \in [Index -> Events \cup {NoEvent}]
  /\ head \in Index /\ tail \in Index
  /\ dropped \in Nat
  /\ pc \in {"idle", "tail_loaded", "copy_lo", "copy_hi", "store_tail"}
  /\ current_tail \in Index
  /\ event \in [lo : Events \cup {NoEvent}, hi : Events \cup {NoEvent}]
  /\ answer \in Events \cup {Busy, Empty}

Count == (head + Capacity - tail) % Capacity

\* The events in the ring, oldest first.
Contents == [i \in 1..Count |-> queue[(tail + i - 1) % Capacity]]

\* An event handed to the main loop is one whole event: no interrupt can rewrite
\* the slot between the two halves of the copy.
NotTorn == pc = "store_tail" => event.lo = event.hi

\* The slots between tail and head hold pushed events, never stale zeros, and
\* the local copies that input_pop works with are not stale when used.
SlotsFilled ==
  /\ \A i \in 1..Count : Contents[i] \in Events
  /\ pc # "idle" => current_tail = tail
  /\ pc \in {"copy_lo", "copy_hi", "store_tail"} => Count > 0

\* The ring implements the bounded queue: first in, first out, exactly once, an
\* event dropped only when Capacity - 1 are waiting, and "empty" reported only
\* when nothing is waiting.
Fifo == INSTANCE BoundedFifo WITH Bound <- Capacity - 1, buffer <- Contents

ImplementsFifo == Fifo!Spec
=============================================================================
