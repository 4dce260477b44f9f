---------------------------- MODULE BoundedFifo ----------------------------
(***************************************************************************)
(* What the input queue promises its two users: a first-in first-out       *)
(* buffer of bounded size between a producer that is never blocked (it     *)
(* counts what it drops) and a consumer that asks for one event at a time. *)
(***************************************************************************)
EXTENDS Naturals, Sequences

CONSTANTS Events,   \* what the producer may put
          Bound,    \* the number of events the buffer holds
          Busy,     \* the answer while a request is being served
          Empty     \* the answer to a request that found the buffer empty

VARIABLES buffer, dropped, answer

vars == <<buffer, dropped, answer>>

Init == buffer = <<>> /\ dropped = 0 /\ answer = Empty

Put(e) ==
  /\ Len(buffer) < Bound
  /\ buffer' = Append(buffer, e)
  /\ UNCHANGED <<dropped, answer>>

\* An event is dropped only when the buffer is full.
Drop ==
  /\ Len(buffer) = Bound
  /\ dropped' = dropped + 1
  /\ UNCHANGED <<buffer, answer>>

Request ==
  /\ answer # Busy
  /\ answer' = Busy
  /\ UNCHANGED <<buffer, dropped>>

Take ==
  /\ answer = Busy
  /\ buffer # <<>>
  /\ answer' = Head(buffer)
  /\ buffer' = Tail(buffer)
  /\ UNCHANGED dropped

Refuse ==
  /\ answer = Busy
  /\ buffer = <<>>
  /\ answer' = Empty
  /\ UNCHANGED <<buffer, dropped>>

Next == (\E e \in Events : Put(e)) \/ Drop \/ Request \/ Take \/ Refuse

Spec == Init /\ [][Next]_vars
=============================================================================
