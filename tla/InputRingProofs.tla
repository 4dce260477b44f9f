-------------------------- MODULE InputRingProofs --------------------------
(***************************************************************************)
(* The event ring implements the bounded queue, for every capacity and     *)
(* every set of events.  The inductive invariant RingInv says that the     *)
(* consumer's local copies are never stale: interrupts move head, never    *)
(* tail, and never write the slot that tail points at while it is full.    *)
(***************************************************************************)
EXTENDS InputRing, SequenceTheorems, TLAPS

\* The inductive invariant.
RingInv ==
  /\ TypeOK
  /\ SlotsFilled
  /\ pc \in {"copy_hi", "store_tail"} => event.lo = queue[tail]
  /\ pc = "store_tail" => event.hi = queue[tail]
  /\ pc = "idle" <=> answer # Busy

USE RingAssumption DEF Index

-----------------------------------------------------------------------------

\* The position of the i-th waiting event.
Slot(t, i) == IF t + i - 1 < Capacity THEN t + i - 1 ELSE t + i - 1 - Capacity

\* The modulus in Count subtracts at most one Capacity.
LEMMA GapCases ==
  ASSUME NEW h \in Index, NEW t \in Index
  PROVE  (h + Capacity - t) % Capacity = IF h >= t THEN h - t ELSE h + Capacity - t
<1>1. CASE h >= t BY <1>1
<1>2. CASE h < t BY <1>2
<1> QED BY <1>1, <1>2

\* So does the one in Contents.
LEMMA SlotCases ==
  ASSUME NEW t \in Index, NEW i \in 1..Capacity
  PROVE  (t + i - 1) % Capacity = Slot(t, i) /\ Slot(t, i) \in Index
<1>1. CASE t + i - 1 < Capacity BY <1>1 DEF Slot
<1>2. CASE t + i - 1 >= Capacity BY <1>2 DEF Slot
<1> QED BY <1>1, <1>2

\* How many events wait, without the modulus.
LEMMA CountCases ==
  ASSUME head \in Index, tail \in Index
  PROVE  /\ Count = IF head >= tail THEN head - tail ELSE head + Capacity - tail
         /\ Count \in 0..(Capacity - 1)
<1>1. Count = IF head >= tail THEN head - tail ELSE head + Capacity - tail
  BY GapCases, Zenon DEF Count
<1> QED BY <1>1

\* Contents without the modulus.
LEMMA ContentsFacts ==
  ASSUME head \in Index, tail \in Index
  PROVE  /\ Contents = [i \in 1..Count |-> queue[Slot(tail, i)]]
         /\ \A i \in 1..Count : Slot(tail, i) \in Index
         /\ \A i \in 1..Count : Slot(tail, i) # head
<1>1. Count \in 0..(Capacity - 1)
      /\ Count = IF head >= tail THEN head - tail ELSE head + Capacity - tail
  BY CountCases
<1>2. ASSUME NEW i \in 1..Count PROVE (tail + i - 1) % Capacity = Slot(tail, i)
  BY <1>1, SlotCases
<1>3. ASSUME NEW i \in 1..Count PROVE Slot(tail, i) \in Index /\ Slot(tail, i) # head
  BY <1>1 DEF Slot
<1>4. Contents = [i \in 1..Count |-> queue[Slot(tail, i)]] BY <1>2 DEF Contents
<1> QED BY <1>3, <1>4

\* The wrapped successor of an index.
LEMMA Successor ==
  ASSUME NEW k \in Index
  PROVE  /\ (k + 1) % Capacity \in Index
         /\ (k + 1) % Capacity = IF k = Capacity - 1 THEN 0 ELSE k + 1
<1>1. (k + 1) % Capacity = IF k + 1 < Capacity THEN k + 1 ELSE k + 1 - Capacity
  OBVIOUS
<1> QED BY <1>1

\* What a successful push does to the ring.
PushStores(e) ==
  /\ e # NoEvent
  /\ (head + 1) % Capacity # tail
  /\ queue' = [queue EXCEPT ![head] = e]
  /\ head' = (head + 1) % Capacity
  /\ UNCHANGED <<tail, dropped, popVars>>

\* A push that finds room appends its event to the contents.
LEMMA PushAppends ==
  ASSUME RingInv, NEW e \in Events, PushStores(e)
  PROVE  /\ Count' = Count + 1
         /\ Count < Capacity - 1
         /\ Contents' = Append(Contents, e)
<1>1. head \in Index /\ tail \in Index /\ queue \in [Index -> Events \cup {NoEvent}]
  BY DEF RingInv, TypeOK
<1>2. head' \in Index /\ tail' = tail
      /\ head' = IF head = Capacity - 1 THEN 0 ELSE head + 1
  BY <1>1, Successor DEF PushStores
<1>3. head' # tail BY DEF PushStores
<1>4. Count = IF head >= tail THEN head - tail ELSE head + Capacity - tail
  BY <1>1, CountCases
<1>5. Count' = IF head' >= tail' THEN head' - tail' ELSE head' + Capacity - tail'
  BY <1>1, <1>2, GapCases DEF Count
<1>6. Count' = Count + 1 /\ Count < Capacity - 1 /\ Count \in Nat
  BY <1>1, <1>2, <1>3, <1>4, <1>5
<1>7. Contents = [i \in 1..Count |-> queue[Slot(tail, i)]]
      /\ \A i \in 1..Count : Slot(tail, i) \in Index /\ Slot(tail, i) # head
  BY <1>1, ContentsFacts
<1>8. Contents' = [i \in 1..(Count + 1) |-> queue'[Slot(tail, i)]]
  <2>1. ASSUME NEW i \in 1..(Count + 1) PROVE (tail + i - 1) % Capacity = Slot(tail, i)
    BY <1>1, <1>6, SlotCases
  <2> QED BY <1>2, <1>6, <2>1 DEF Contents
<1>9. Slot(tail, Count + 1) = head BY <1>1, <1>4, <1>6 DEF Slot
<1>10. queue'[head] = e /\ \A k \in Index : k # head => queue'[k] = queue[k]
  BY <1>1 DEF PushStores
<1>11. ASSUME NEW i \in 1..Count PROVE queue'[Slot(tail, i)] = queue[Slot(tail, i)]
  BY <1>7, <1>10
<1>12. Contents \in Seq(Events) /\ Len(Contents) = Count
  BY <1>6, <1>7 DEF RingInv, SlotsFilled
<1>13. /\ Append(Contents, e) \in Seq(Events)
       /\ Len(Append(Contents, e)) = Count + 1
       /\ \A i \in 1..Count : Append(Contents, e)[i] = Contents[i]
       /\ Append(Contents, e)[Count + 1] = e
  BY <1>12, AppendProperties
<1>14. ASSUME NEW i \in 1..(Count + 1)
       PROVE  queue'[Slot(tail, i)] = Append(Contents, e)[i]
  <2>1. CASE i = Count + 1 BY <1>9, <1>10, <1>13, <2>1
  <2>2. CASE i # Count + 1
    <3>1. i \in 1..Count BY <1>6, <2>2
    <3> QED BY <1>7, <1>11, <1>13, <3>1, Zenon
  <2> QED BY <2>1, <2>2, Zenon
<1>15. Append(Contents, e) = [i \in 1..(Count + 1) |-> Append(Contents, e)[i]]
  BY <1>13, LenProperties, Zenon
<1>16. Contents' = Append(Contents, e) BY <1>8, <1>14, <1>15, Zenon
<1> QED BY <1>6, <1>16

\* Storing tail removes the oldest event, the one that was copied.
LEMMA StoreTailTakesHead ==
  ASSUME RingInv, PopStoreTail
  PROVE  /\ Contents # <<>>
         /\ event.lo = Head(Contents)
         /\ Contents' = Tail(Contents)
         /\ Count' = Count - 1
<1>1. head \in Index /\ tail \in Index BY DEF RingInv, TypeOK
<1>2. /\ current_tail = tail /\ Count > 0 /\ event.lo = queue[tail]
      /\ head' = head /\ queue' = queue /\ tail' = (tail + 1) % Capacity
  BY DEF RingInv, SlotsFilled, PopStoreTail
<1>3. tail' \in Index /\ tail' = IF tail = Capacity - 1 THEN 0 ELSE tail + 1
  BY <1>1, <1>2, Successor
<1>4. Count \in 0..(Capacity - 1)
      /\ Count = IF head >= tail THEN head - tail ELSE head + Capacity - tail
  BY <1>1, CountCases
<1>5. Count' = IF head' >= tail' THEN head' - tail' ELSE head' + Capacity - tail'
  BY <1>1, <1>2, <1>3, GapCases, Zenon DEF Count
<1>6. Count' = Count - 1 BY <1>1, <1>2, <1>3, <1>4, <1>5
<1>7. Contents = [i \in 1..Count |-> queue[Slot(tail, i)]] BY <1>1, ContentsFacts
<1>8. Contents \in Seq(Events) /\ Len(Contents) = Count
  <2>1. Count \in Nat BY <1>4
  <2> QED BY <1>7, <2>1 DEF RingInv, SlotsFilled
<1>9. Contents # <<>> BY <1>2, <1>8, EmptySeq
<1>10. Head(Contents) = queue[tail]
  <2>1. Slot(tail, 1) = tail BY <1>1 DEF Slot
  <2>2. Contents[1] = queue[tail] BY <1>2, <1>4, <1>7, <2>1
  <2> QED BY <1>8, <1>9, <2>2, HeadTailProperties
<1>11. Contents' = [i \in 1..(Count - 1) |-> queue[Slot(tail', i)]]
  <2>1. ASSUME NEW i \in 1..(Count - 1) PROVE (tail' + i - 1) % Capacity = Slot(tail', i)
    <3>1. i \in 1..Capacity BY <1>4
    <3> QED BY <1>3, <3>1, SlotCases, Zenon
  <2> QED BY <1>2, <1>6, <2>1 DEF Contents
<1>12. ASSUME NEW i \in 1..(Count - 1) PROVE Slot(tail', i) = Slot(tail, i + 1)
  BY <1>1, <1>3, <1>4 DEF Slot
<1>13. /\ Tail(Contents) \in Seq(Events)
       /\ Len(Tail(Contents)) = Count - 1
       /\ \A i \in 1..(Count - 1) : Tail(Contents)[i] = Contents[i + 1]
  BY <1>8, <1>9, HeadTailProperties
<1>14. ASSUME NEW i \in 1..(Count - 1) PROVE Tail(Contents)[i] = queue[Slot(tail', i)]
  <2>1. i + 1 \in 1..Count BY <1>4
  <2>2. Contents[i + 1] = queue[Slot(tail, i + 1)] BY <1>7, <2>1
  <2> QED BY <1>12, <1>13, <2>2
<1>15. Tail(Contents) = [i \in 1..(Count - 1) |-> Tail(Contents)[i]]
  BY <1>13, LenProperties, Zenon
<1>16. Contents' = Tail(Contents) BY <1>11, <1>14, <1>15, Zenon
<1> QED BY <1>2, <1>6, <1>9, <1>10, <1>16

-----------------------------------------------------------------------------

\* input_reset establishes the invariant.
LEMMA InitRing == Init => RingInv
<1> SUFFICES ASSUME Init PROVE RingInv OBVIOUS
<1>1. Count = 0 BY CountCases DEF Init
<1>2. TypeOK BY DEF Init, TypeOK
<1>3. SlotsFilled BY <1>1 DEF Init, SlotsFilled
<1> QED BY <1>2, <1>3 DEF Init, RingInv

\* A push in the middle of a pop does not disturb it.
LEMMA PushKeeps ==
  ASSUME RingInv, NEW e \in Events, PushStores(e)
  PROVE  RingInv'
<1>1. Count' = Count + 1 /\ Contents' = Append(Contents, e) BY PushAppends
<1>2. TypeOK' BY Successor DEF RingInv, TypeOK, PushStores, popVars
<1>3. Contents \in Seq(Events) /\ Len(Contents) = Count /\ Count \in Nat
  <2>1. Count \in Nat BY CountCases DEF RingInv, TypeOK
  <2> QED BY <2>1 DEF RingInv, SlotsFilled, Contents
<1>4. \A i \in 1..Count' : Contents'[i] \in Events
  BY <1>1, <1>3, AppendProperties, ElementOfSeq
<1>5. SlotsFilled' BY <1>1, <1>3, <1>4 DEF RingInv, SlotsFilled, PushStores, popVars
<1>6. pc \in {"copy_hi", "store_tail"} => queue'[tail] = queue[tail]
  <2> SUFFICES ASSUME pc \in {"copy_hi", "store_tail"} PROVE queue'[tail] = queue[tail]
    OBVIOUS
  <2>1. Count > 0 BY DEF RingInv, SlotsFilled
  <2>2. head # tail BY <2>1, CountCases DEF RingInv, TypeOK
  <2> QED BY <2>2 DEF RingInv, TypeOK, PushStores
<1> QED BY <1>2, <1>5, <1>6 DEF RingInv, PushStores, popVars

\* The steps of input_pop before the last leave the shared words alone.
LEMMA PopStepKeeps ==
  ASSUME RingInv, PopLoadTail \/ PopLoadHead \/ PopCopyLo \/ PopCopyHi
  PROVE  RingInv' /\ Contents' = Contents
<1>1. queue' = queue /\ head' = head /\ tail' = tail /\ dropped' = dropped
  BY DEF PopLoadTail, PopLoadHead, PopCopyLo, PopCopyHi, ringVars
<1>2. Count' = Count /\ Contents' = Contents BY <1>1 DEF Count, Contents
<1>3. CASE PopLoadTail
  BY <1>1, <1>2, <1>3 DEF PopLoadTail, RingInv, TypeOK, SlotsFilled
<1>4. CASE PopLoadHead
  <2>1. current_tail # head => Count > 0
    BY <1>4, CountCases DEF PopLoadHead, RingInv, TypeOK, SlotsFilled
  <2>2. TypeOK' BY <1>1, <1>4 DEF PopLoadHead, RingInv, TypeOK
  <2>3. SlotsFilled' BY <1>1, <1>2, <1>4, <2>1 DEF PopLoadHead, RingInv, SlotsFilled
  <2> QED BY <1>1, <1>2, <1>4, <2>2, <2>3 DEF PopLoadHead, RingInv, TypeOK
<1>5. CASE PopCopyLo
  <2>1. event'.lo = queue[tail] /\ event'.hi = event.hi
    BY <1>5 DEF PopCopyLo, RingInv, SlotsFilled, TypeOK
  <2>2. TypeOK' BY <1>1, <1>5 DEF PopCopyLo, RingInv, TypeOK
  <2>3. SlotsFilled' BY <1>1, <1>2, <1>5 DEF PopCopyLo, RingInv, SlotsFilled
  <2> QED BY <1>1, <1>2, <1>5, <2>1, <2>2, <2>3 DEF PopCopyLo, RingInv
<1>6. CASE PopCopyHi
  <2>1. event'.hi = queue[tail] /\ event'.lo = event.lo
    BY <1>6 DEF PopCopyHi, RingInv, SlotsFilled, TypeOK
  <2>2. TypeOK' BY <1>1, <1>6 DEF PopCopyHi, RingInv, TypeOK
  <2>3. SlotsFilled' BY <1>1, <1>2, <1>6 DEF PopCopyHi, RingInv, SlotsFilled
  <2> QED BY <1>1, <1>2, <1>6, <2>1, <2>2, <2>3 DEF PopCopyHi, RingInv
<1> QED BY <1>2, <1>3, <1>4, <1>5, <1>6

\* The last step of input_pop hands over a pushed event.
LEMMA StoreTailKeeps ==
  ASSUME RingInv, PopStoreTail
  PROVE  RingInv' /\ event.lo \in Events
<1>1. Count \in 0..(Capacity - 1) BY CountCases DEF RingInv, TypeOK
<1>2. Contents \in Seq(Events) /\ Len(Contents) = Count
  <2>1. Count \in Nat BY <1>1
  <2> QED BY <2>1 DEF RingInv, SlotsFilled, Contents
<1>3. /\ Contents # <<>> /\ event.lo = Head(Contents)
      /\ Contents' = Tail(Contents) /\ Count' = Count - 1
  BY StoreTailTakesHead
<1>4. event.lo \in Events BY <1>2, <1>3, HeadTailProperties
<1>5. \A i \in 1..Count' : Contents'[i] \in Events
  <2>1. Tail(Contents) \in Seq(Events) /\ Len(Tail(Contents)) = Count - 1
    BY <1>2, <1>3, HeadTailProperties
  <2> QED BY <1>3, <2>1, ElementOfSeq
<1>6. TypeOK' BY <1>4, Successor DEF RingInv, TypeOK, PopStoreTail
<1>7. SlotsFilled' BY <1>5 DEF SlotsFilled, PopStoreTail
<1> QED BY <1>4, <1>6, <1>7 DEF RingInv, PopStoreTail

\* RingInv is inductive.
LEMMA RingStep == RingInv /\ [Next]_vars => RingInv'
<1> SUFFICES ASSUME RingInv, [Next]_vars PROVE RingInv' OBVIOUS
<1>1. ASSUME NEW e \in Events \cup {NoEvent}, Push(e) PROVE RingInv'
  <2>1. CASE e = NoEvent
    BY <1>1, <2>1, Zenon DEF Push, vars, RingInv, TypeOK, SlotsFilled, Contents, Count
  <2>2. CASE e # NoEvent /\ (head + 1) % Capacity = tail
    <3>1. /\ queue' = queue /\ head' = head /\ tail' = tail /\ popVars' = popVars
          /\ dropped' = dropped + 1
      BY <1>1, <2>2 DEF Push
    <3>2. Count' = Count /\ Contents' = Contents BY <3>1 DEF Count, Contents
    <3>3. TypeOK' BY <3>1 DEF RingInv, TypeOK, popVars
    <3>4. SlotsFilled' BY <3>1, <3>2 DEF RingInv, SlotsFilled, popVars
    <3> QED BY <3>1, <3>3, <3>4 DEF RingInv, popVars
  <2>3. CASE PushStores(e)
    <3>1. e \in Events BY <2>3 DEF PushStores
    <3> QED BY <2>3, <3>1, PushKeeps
  <2> QED BY <1>1, <2>1, <2>2, <2>3 DEF Push, PushStores
<1>2. CASE PopLoadTail \/ PopLoadHead \/ PopCopyLo \/ PopCopyHi BY <1>2, PopStepKeeps
<1>3. CASE PopStoreTail BY <1>3, StoreTailKeeps
<1>4. CASE UNCHANGED vars
  BY <1>4, Zenon DEF vars, RingInv, TypeOK, SlotsFilled, Contents, Count
<1> QED BY <1>1, <1>2, <1>3, <1>4 DEF Next, Pop

\* The ring stays in RingInv whatever interrupts do.
THEOREM RingInvariant == Spec => []RingInv
  BY InitRing, RingStep, PTL DEF Spec

\* Type correctness of the ring, for every capacity.
THEOREM RingTypeCorrect == Spec => []TypeOK
<1>1. RingInv => TypeOK BY DEF RingInv
<1> QED BY <1>1, RingInvariant, PTL

\* input_pop never hands out an event half of which an interrupt overwrote.
THEOREM EventsAreWhole == Spec => []NotTorn
<1>1. RingInv => NotTorn BY DEF RingInv, NotTorn
<1> QED BY <1>1, RingInvariant, PTL

\* The waiting slots hold pushed events and the consumer's copies are fresh.
THEOREM WaitingSlotsFilled == Spec => []SlotsFilled
<1>1. RingInv => SlotsFilled BY DEF RingInv
<1> QED BY <1>1, RingInvariant, PTL

-----------------------------------------------------------------------------

\* Each step of the ring is a step of the bounded queue or leaves it unchanged.
LEMMA StepRefines == RingInv /\ [Next]_vars => [Fifo!Next]_(Fifo!vars)
<1> SUFFICES ASSUME RingInv, [Next]_vars PROVE [Fifo!Next]_(Fifo!vars) OBVIOUS
<1>0. Contents \in Seq(Events) /\ Len(Contents) = Count /\ Count \in 0..(Capacity - 1)
  <2>1. Count \in Nat /\ Count \in 0..(Capacity - 1) BY CountCases DEF RingInv, TypeOK
  <2> QED BY <2>1 DEF RingInv, SlotsFilled, Contents
<1>1. ASSUME NEW e \in Events \cup {NoEvent}, Push(e) PROVE [Fifo!Next]_(Fifo!vars)
  <2>1. CASE e = NoEvent
    BY <1>1, <2>1 DEF Push, vars, Contents, Count, Fifo!vars
  <2>2. CASE e # NoEvent /\ (head + 1) % Capacity = tail
    <3>1. Count = Capacity - 1 BY <2>2, CountCases, Successor DEF RingInv, TypeOK
    <3>2. Contents' = Contents BY <1>1, <2>2 DEF Push, Contents, Count
    <3>3. Fifo!Drop BY <1>0, <1>1, <2>2, <3>1, <3>2 DEF Push, popVars, Fifo!Drop
    <3> QED BY <3>3 DEF Fifo!Next
  <2>3. CASE PushStores(e)
    <3>1. e \in Events BY <2>3 DEF PushStores
    <3>2. Contents' = Append(Contents, e) /\ Count < Capacity - 1
      BY <2>3, <3>1, PushAppends
    <3>3. Fifo!Put(e) BY <1>0, <2>3, <3>2 DEF PushStores, popVars, Fifo!Put
    <3> QED BY <3>1, <3>3 DEF Fifo!Next
  <2> QED BY <1>1, <2>1, <2>2, <2>3 DEF Push, PushStores
<1>2. CASE PopLoadTail
  <2>1. Contents' = Contents BY <1>2, PopStepKeeps
  <2>2. Fifo!Request BY <1>2, <2>1 DEF PopLoadTail, ringVars, RingInv, Fifo!Request
  <2> QED BY <2>2 DEF Fifo!Next
<1>3. CASE PopLoadHead
  <2>1. Contents' = Contents /\ dropped' = dropped
    BY <1>3, PopStepKeeps DEF PopLoadHead, ringVars
  <2>2. CASE current_tail # head
    BY <1>3, <2>1, <2>2 DEF PopLoadHead, Fifo!vars
  <2>3. CASE current_tail = head
    <3>1. Count = 0 BY <1>3, <2>3, CountCases DEF PopLoadHead, RingInv, TypeOK, SlotsFilled
    <3>2. Contents = <<>> BY <1>0, <3>1, EmptySeq
    <3>3. Fifo!Refuse
      BY <1>3, <2>1, <2>3, <3>2 DEF PopLoadHead, RingInv, Fifo!Refuse
    <3> QED BY <3>3 DEF Fifo!Next
  <2> QED BY <2>2, <2>3
<1>4. CASE PopCopyLo \/ PopCopyHi
  <2>1. Contents' = Contents BY <1>4, PopStepKeeps
  <2> QED BY <1>4, <2>1 DEF PopCopyLo, PopCopyHi, ringVars, Fifo!vars
<1>5. CASE PopStoreTail
  <2>1. Contents # <<>> /\ event.lo = Head(Contents) /\ Contents' = Tail(Contents)
    BY <1>5, StoreTailTakesHead
  <2>2. Fifo!Take BY <1>5, <2>1 DEF PopStoreTail, RingInv, Fifo!Take
  <2> QED BY <2>2 DEF Fifo!Next
<1>6. CASE UNCHANGED vars BY <1>6 DEF vars, Contents, Count, Fifo!vars
<1> QED BY <1>1, <1>2, <1>3, <1>4, <1>5, <1>6 DEF Next, Pop

\* The ring is a first-in first-out queue of Capacity - 1 events that loses an
\* event only when it is full and says "empty" only when it is.
THEOREM RingImplementsFifo == Spec => ImplementsFifo
<1>1. Init => Fifo!Init
  <2> SUFFICES ASSUME Init PROVE Fifo!Init OBVIOUS
  <2>1. Count = 0 BY CountCases DEF Init
  <2>2. Contents = <<>> BY <2>1 DEF Contents
  <2> QED BY <2>2 DEF Init, Fifo!Init
<1> QED BY <1>1, StepRefines, RingInvariant, PTL DEF Spec, ImplementsFifo, Fifo!Spec
=============================================================================
