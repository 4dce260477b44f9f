--------------------------- MODULE NetworkProofs ---------------------------
(***************************************************************************)
(* The e1000 driver and its card, for every size of the two rings, every   *)
(* number of calls and every set of arriving frames: what net_send reports *)
(* is true of the wire, and the receive ring is a bounded queue.  The      *)
(* parsers and the builders of net_proto.c for every frame length, every   *)
(* value of the length fields and every capacity: they stay inside.        *)
(***************************************************************************)
EXTENDS E1000, SequenceTheorems, TLAPS

USE E1000Assumption DEF Tx, Rx

-----------------------------------------------------------------------------
\* Distance of a transmit descriptor from the head of the card.
Pos(i) == IF i >= tdh THEN i - tdh ELSE i + TX_COUNT - tdh

\* The call whose frame is on its way through e1000_transmit is not yet queued.
LastQueued == IF pc = "tx_wait" THEN calls - 1 ELSE calls

\* The frame of the call has been handed to the card.
Handed(c) == Sent(c) \/ \E i \in Tx : tx_ring[i].frame = c

\* The program points of a kernel that is up.
RunningPoints ==
  {"idle", "tx_wait", "tx_sent", "poll", "test", "deliver", "clear", "give_back"}

Control ==
  /\ phase \in {"boot", "running", "halted"}
  /\ phase = "boot" => pc \in {"net_self_test", "e1000_init"}
  /\ phase = "running" => pc \in RunningPoints
  /\ phase = "halted" => pc \in Faults

TxTypes ==
  /\ tx_ring \in [Tx -> [dd : BOOLEAN, frame : (1..MaxSends) \cup {None}]]
  /\ tdh \in Tx /\ tdt \in Tx /\ tx_next = tdt
  /\ calls \in 0..MaxSends
  /\ results \in [1..MaxSends -> {"OK", "TIMEOUT", "BUSY", "LOOPED",
                                  "FRAME_TOO_LARGE", None}]
  /\ wire \in Seq(1..MaxSends)

\* Before the driver is up nothing has been queued.
NothingYet ==
  /\ wire = <<>> /\ calls = 0 /\ tdh = 0 /\ tdt = 0
  /\ \A i \in Tx : tx_ring[i].frame = None

\* The descriptors that are not done are those from the head up to the tail, or
\* all of them once the tail has caught up with the head: then the card believes
\* that it owns none and the driver that the card owns them all.
PendingAreBetween ==
  \/ tdh = tdt /\ \A i \in Tx : ~tx_ring[i].dd
  \/ \A i \in Tx : ~tx_ring[i].dd <=> Pos(i) < Pos(tdt)

\* What waits is younger than what has left and waits in the order of the calls.
PendingAreInOrder ==
  /\ \A i \in Tx : ~tx_ring[i].dd =>
       /\ tx_ring[i].frame # None
       /\ \A m \in DOMAIN wire : wire[m] < tx_ring[i].frame
  /\ \A i, j \in Tx : ~tx_ring[i].dd /\ ~tx_ring[j].dd /\ Pos(i) < Pos(j)
                        => tx_ring[i].frame < tx_ring[j].frame

WireInOrder == \A i, j \in DOMAIN wire : i < j => wire[i] < wire[j]

\* The results agree with the descriptors and with the wire.
ResultsAgree ==
  /\ \A i \in Tx : tx_ring[i].dd /\ tx_ring[i].frame # None => Sent(tx_ring[i].frame)
  /\ \A c \in 1..MaxSends :
       Handed(c) => c <= LastQueued /\ results[c] \in {"OK", "TIMEOUT", None}
  /\ \A c \in 1..MaxSends : results[c] = "OK" => Sent(c)
  /\ pc \in {"tx_wait", "tx_sent"} => calls > 0
  /\ pc = "tx_sent" => tx_ring[(tdt + TX_COUNT - 1) % TX_COUNT].frame = calls

\* The call in progress and the calls to come have no result.
NotYetReported ==
  \A c \in 1..MaxSends :
    c > calls \/ (c = calls /\ pc \in {"tx_wait", "tx_sent"}) => results[c] = None

\* The inductive invariant of the transmit side.
TxInv ==
  /\ Control /\ TxTypes
  /\ phase # "running" => NothingYet
  /\ phase = "running" => PendingAreBetween /\ PendingAreInOrder
  /\ WireInOrder /\ ResultsAgree /\ NotYetReported

-----------------------------------------------------------------------------
\* The wrapped successor and predecessor of a transmit descriptor.
LEMMA TxSuccessor ==
  ASSUME NEW k \in Tx
  PROVE  /\ (k + 1) % TX_COUNT \in Tx
         /\ (k + 1) % TX_COUNT = IF k = TX_COUNT - 1 THEN 0 ELSE k + 1
         /\ (k + TX_COUNT - 1) % TX_COUNT = IF k = 0 THEN TX_COUNT - 1 ELSE k - 1
<1>1. (k + 1) % TX_COUNT = IF k + 1 < TX_COUNT THEN k + 1 ELSE k + 1 - TX_COUNT
  OBVIOUS
<1>2. CASE k = 0 BY <1>1, <1>2
<1>3. CASE k # 0
  <2>1. k - 1 \in Tx /\ k + TX_COUNT - 1 = (k - 1) + TX_COUNT BY <1>3
  <2>2. (k + TX_COUNT - 1) % TX_COUNT = k - 1 BY <2>1
  <2> QED BY <1>1, <1>3, <2>2
<1> QED BY <1>2, <1>3

\* Memory is zeroed and the card is off.
LEMMA InitTx == Init => TxInv
<1> SUFFICES ASSUME Init PROVE TxInv OBVIOUS
<1>1. Control BY DEF Init, Control
<1>2. TxTypes
  <2>1. wire \in Seq(1..MaxSends) BY EmptySeq DEF Init
  <2> QED BY <2>1 DEF Init, TxTypes
<1>3. NothingYet BY DEF Init, NothingYet
<1>4. DOMAIN wire = {} BY DEF Init
<1>5. \A c \in 1..MaxSends : ~Handed(c) BY <1>4 DEF Init, Handed, Sent
<1>6. ResultsAgree BY <1>5 DEF Init, ResultsAgree
<1> QED BY <1>1, <1>2, <1>3, <1>4, <1>6 DEF Init, TxInv, WireInOrder, NotYetReported

\* A step that leaves the transmit ring, the wire and the calls alone.
LEMMA TxFrame ==
  ASSUME TxInv, Control', phase' = phase,
         UNCHANGED <<txVars, callVars>>,
         \/ pc' = pc
         \/ {pc, pc'} \cap {"tx_wait", "tx_sent"} = {}
  PROVE  TxInv'
<1>1. /\ tx_ring' = tx_ring /\ tx_next' = tx_next /\ tdh' = tdh /\ tdt' = tdt
      /\ wire' = wire /\ calls' = calls /\ results' = results
  BY DEF txVars, callVars
<1>2. LastQueued' = LastQueued BY <1>1, Zenon DEF LastQueued
<1>3. TxTypes' BY <1>1 DEF TxInv, TxTypes
<1>4. NothingYet => NothingYet' BY <1>1 DEF NothingYet
<1>5. PendingAreBetween => PendingAreBetween' BY <1>1 DEF PendingAreBetween, Pos
<1>6. PendingAreInOrder => PendingAreInOrder' BY <1>1 DEF PendingAreInOrder, Pos
<1>7. WireInOrder' BY <1>1 DEF TxInv, WireInOrder
<1>8. ResultsAgree'
  BY <1>1, <1>2, Zenon DEF TxInv, ResultsAgree, Handed, Sent
<1>9. NotYetReported' BY <1>1, Zenon DEF TxInv, NotYetReported
<1> QED BY <1>3, <1>4, <1>5, <1>6, <1>7, <1>8, <1>9 DEF TxInv

\* A call that ends in net_send itself: its frame is handed to nobody.
LEMMA EndedInNetSend ==
  ASSUME TxInv, SendLoopback \/ SendTooLarge
  PROVE  TxInv'
<1>1. /\ tx_ring' = tx_ring /\ tx_next' = tx_next /\ tdh' = tdh /\ tdt' = tdt
      /\ wire' = wire /\ pc = "idle" /\ pc' = pc /\ phase' = phase
      /\ calls < MaxSends /\ calls' = calls + 1
  BY DEF SendLoopback, SendTooLarge, txVars
<1>2. calls + 1 \in 1..MaxSends /\ phase = "running" /\ calls \in 0..MaxSends
  BY <1>1 DEF TxInv, Control, TxTypes
<1>3. PICK r \in {"LOOPED", "FRAME_TOO_LARGE"} : results' = [results EXCEPT ![calls + 1] = r]
  BY DEF SendLoopback, SendTooLarge
<1>4. Control' BY <1>1 DEF TxInv, Control
<1>5. TxTypes' BY <1>1, <1>2, <1>3 DEF TxInv, TxTypes
<1>6. PendingAreBetween' BY <1>1, <1>2 DEF TxInv, PendingAreBetween, Pos
<1>7. PendingAreInOrder' BY <1>1, <1>2 DEF TxInv, PendingAreInOrder, Pos
<1>8. WireInOrder' BY <1>1 DEF TxInv, WireInOrder
<1>9. \A c \in 1..MaxSends : (Handed(c)' <=> Handed(c)) /\ (Sent(c)' <=> Sent(c))
  BY <1>1 DEF Handed, Sent
<1>10. \A c \in 1..MaxSends : c # calls + 1 => results'[c] = results[c]
  BY <1>2, <1>3 DEF TxInv, TxTypes
<1>11. results'[calls + 1] # "OK" BY <1>2, <1>3 DEF TxInv, TxTypes
<1>12. ASSUME NEW c \in 1..MaxSends, Handed(c)
       PROVE  c <= LastQueued' /\ results'[c] \in {"OK", "TIMEOUT", None}
  <2>1. c <= calls /\ results[c] \in {"OK", "TIMEOUT", None}
    BY <1>1, <1>12 DEF TxInv, ResultsAgree, LastQueued
  <2> QED BY <1>1, <1>2, <1>10, <2>1 DEF LastQueued
<1>13. ASSUME NEW i \in Tx, tx_ring[i].dd, tx_ring[i].frame # None
       PROVE  Sent(tx_ring[i].frame)'
  BY <1>1, <1>13 DEF TxInv, ResultsAgree, Sent
<1>14. ASSUME NEW c \in 1..MaxSends, results'[c] = "OK" PROVE Sent(c)'
  BY <1>9, <1>10, <1>11, <1>14 DEF TxInv, ResultsAgree
<1>15. ResultsAgree'
  BY <1>1, <1>9, <1>12, <1>13, <1>14 DEF ResultsAgree
<1>16. NotYetReported' BY <1>1, <1>2, <1>10 DEF TxInv, NotYetReported
<1> QED BY <1>1, <1>2, <1>4, <1>5, <1>6, <1>7, <1>8, <1>15, <1>16 DEF TxInv

\* net_send calls e1000_transmit.
LEMMA SendKeeps == ASSUME TxInv, Send PROVE TxInv'
<1>1. /\ tx_ring' = tx_ring /\ tx_next' = tx_next /\ tdh' = tdh /\ tdt' = tdt
      /\ wire' = wire /\ pc = "idle" /\ pc' = "tx_wait" /\ phase' = phase
      /\ calls < MaxSends /\ calls' = calls + 1 /\ results' = results
  BY DEF Send, txVars
<1>2. phase = "running" /\ calls \in 0..MaxSends BY <1>1 DEF TxInv, Control, TxTypes
<1>3. LastQueued' = LastQueued BY <1>1, <1>2 DEF LastQueued
<1>4. Control' BY <1>1, <1>2 DEF Control, RunningPoints
<1>5. TxTypes' BY <1>1, <1>2 DEF TxInv, TxTypes
<1>6. PendingAreBetween' BY <1>1, <1>2 DEF TxInv, PendingAreBetween, Pos
<1>7. PendingAreInOrder' BY <1>1, <1>2 DEF TxInv, PendingAreInOrder, Pos
<1>8. WireInOrder' BY <1>1 DEF TxInv, WireInOrder
<1>9. ResultsAgree' BY <1>1, <1>2, <1>3 DEF TxInv, ResultsAgree, Handed, Sent
<1>10. NotYetReported' BY <1>1, <1>2 DEF TxInv, NotYetReported
<1> QED BY <1>1, <1>2, <1>4, <1>5, <1>6, <1>7, <1>8, <1>9, <1>10 DEF TxInv

\* A call returns from e1000_transmit with a result that the wire bears out.
LEMMA ReturnKeeps ==
  ASSUME TxInv, NEW r \in {"OK", "TIMEOUT", "BUSY"}, Return(r), UNCHANGED txVars,
         pc \in {"tx_wait", "tx_sent"},
         r = "OK" => Sent(calls),
         r = "BUSY" => pc = "tx_wait"
  PROVE  TxInv'
<1>1. /\ tx_ring' = tx_ring /\ tx_next' = tx_next /\ tdh' = tdh /\ tdt' = tdt
      /\ wire' = wire /\ pc' = "idle" /\ phase' = phase /\ calls' = calls
      /\ results' = [results EXCEPT ![calls] = r]
  BY DEF Return, txVars
<1>2. phase = "running" /\ calls \in 1..MaxSends
  BY DEF TxInv, Control, TxTypes, ResultsAgree
<1>3. Control' BY <1>1, <1>2 DEF Control, RunningPoints
<1>4. TxTypes' BY <1>1, <1>2 DEF TxInv, TxTypes
<1>5. PendingAreBetween' BY <1>1, <1>2 DEF TxInv, PendingAreBetween, Pos
<1>6. PendingAreInOrder' BY <1>1, <1>2 DEF TxInv, PendingAreInOrder, Pos
<1>7. WireInOrder' BY <1>1 DEF TxInv, WireInOrder
<1>8. \A c \in 1..MaxSends : (Handed(c)' <=> Handed(c)) /\ (Sent(c)' <=> Sent(c))
  BY <1>1 DEF Handed, Sent
<1>9. results'[calls] = r /\ \A c \in 1..MaxSends : c # calls => results'[c] = results[c]
  BY <1>1, <1>2 DEF TxInv, TxTypes
<1>10. ASSUME NEW c \in 1..MaxSends, Handed(c)
       PROVE  c <= LastQueued' /\ results'[c] \in {"OK", "TIMEOUT", None}
  <2>1. c <= LastQueued /\ results[c] \in {"OK", "TIMEOUT", None}
    BY <1>10 DEF TxInv, ResultsAgree
  <2>2. c <= calls BY <1>2, <2>1 DEF LastQueued
  <2>3. c = calls => pc # "tx_wait" BY <1>2, <2>1 DEF LastQueued
  <2> QED BY <1>1, <1>9, <2>1, <2>2, <2>3 DEF LastQueued
<1>11. ASSUME NEW i \in Tx, tx_ring[i].dd, tx_ring[i].frame # None
       PROVE  Sent(tx_ring[i].frame)'
  BY <1>1, <1>11 DEF TxInv, ResultsAgree, Sent
<1>12. ASSUME NEW c \in 1..MaxSends, results'[c] = "OK" PROVE Sent(c)'
  BY <1>2, <1>8, <1>9, <1>12 DEF TxInv, ResultsAgree
<1>13. ResultsAgree' BY <1>1, <1>8, <1>10, <1>11, <1>12 DEF ResultsAgree
<1>14. NotYetReported' BY <1>1, <1>2, <1>9 DEF TxInv, NotYetReported
<1> QED BY <1>1, <1>2, <1>3, <1>4, <1>5, <1>6, <1>7, <1>13, <1>14 DEF TxInv

\* The second spin loop reports "ok" from the descriptor of its own frame.
LEMMA TxReturnKeeps == ASSUME TxInv, TxReturn PROVE TxInv'
<1> DEFINE own == tx_ring[(tx_next + TX_COUNT - 1) % TX_COUNT]
<1>1. (tx_next + TX_COUNT - 1) % TX_COUNT \in Tx /\ own.frame = calls /\ calls \in Nat
  BY TxSuccessor DEF TxInv, TxTypes, TxReturn, ResultsAgree
<1>2. own.dd => Sent(calls) BY <1>1 DEF TxInv, ResultsAgree
<1>3. pc = "tx_sent" /\ UNCHANGED txVars /\ Return(IF own.dd THEN "OK" ELSE "TIMEOUT")
  BY DEF TxReturn
<1>4. CASE own.dd
  <2>1. Return("OK") BY <1>3, <1>4
  <2> QED BY <1>2, <1>3, <1>4, <2>1, ReturnKeeps
<1>5. CASE ~own.dd
  <2>1. Return("TIMEOUT") BY <1>3, <1>5
  <2> QED BY <1>3, <2>1, ReturnKeeps
<1> QED BY <1>4, <1>5

\* The frame is queued behind all that wait.
LEMMA TxQueueKeeps == ASSUME TxInv, TxQueue PROVE TxInv'
<1>1. /\ pc = "tx_wait" /\ tx_ring[tdt].dd /\ tx_next = tdt
      /\ tx_ring' = [tx_ring EXCEPT ![tdt] = [dd |-> FALSE, frame |-> calls]]
      /\ tx_next' = (tdt + 1) % TX_COUNT /\ tdt' = (tdt + 1) % TX_COUNT
      /\ tdh' = tdh /\ wire' = wire /\ pc' = "tx_sent" /\ phase' = phase
      /\ calls' = calls /\ results' = results
  BY DEF TxQueue, callVars, TxInv, TxTypes
<1>2. phase = "running" /\ calls \in 1..MaxSends /\ tdh \in Tx /\ tdt \in Tx
  BY <1>1 DEF TxInv, Control, TxTypes, ResultsAgree
<1>3. tdt' \in Tx /\ tdt' = IF tdt = TX_COUNT - 1 THEN 0 ELSE tdt + 1
  BY <1>1, <1>2, TxSuccessor
<1>4. /\ tx_ring'[tdt] = [dd |-> FALSE, frame |-> calls]
      /\ \A i \in Tx : i # tdt => tx_ring'[i] = tx_ring[i]
  BY <1>1, <1>2 DEF TxInv, TxTypes
<1>5. \A i \in Tx : Pos(i)' = Pos(i) /\ Pos(i) \in 0..(TX_COUNT - 1)
  BY <1>1, <1>2 DEF Pos
<1>6. \A i \in Tx : (~tx_ring[i].dd <=> Pos(i) < Pos(tdt))
  BY <1>1, <1>2 DEF TxInv, PendingAreBetween
<1>7. Pos(tdt') = IF tdt' = tdh THEN 0 ELSE Pos(tdt) + 1
  BY <1>2, <1>3 DEF Pos
<1>8. \A i \in Tx : i # tdt => Pos(i) # Pos(tdt) BY <1>2 DEF Pos
<1>9. PendingAreBetween'
  <2>1. CASE tdt' = tdh
    <3>1. Pos(tdt) = TX_COUNT - 1 BY <1>2, <1>3, <2>1 DEF Pos
    <3>2. \A i \in Tx : i # tdt => Pos(i) < Pos(tdt) BY <1>2, <1>5, <1>8, <3>1
    <3>3. \A i \in Tx : ~tx_ring'[i].dd BY <1>4, <1>6, <3>2
    <3> QED BY <1>1, <2>1, <3>3 DEF PendingAreBetween
  <2>2. CASE tdt' # tdh
    <3>1. Pos(tdt') = Pos(tdt) + 1 BY <1>7, <2>2
    <3>2. ASSUME NEW i \in Tx PROVE ~tx_ring'[i].dd <=> Pos(i) < Pos(tdt')
      <4>1. CASE i = tdt BY <1>2, <1>4, <1>5, <3>1, <4>1
      <4>2. CASE i # tdt
        <5>1. Pos(i) < Pos(tdt') <=> Pos(i) < Pos(tdt) BY <1>2, <1>5, <1>8, <3>1, <4>2
        <5> QED BY <1>4, <1>6, <4>2, <5>1
      <4> QED BY <4>1, <4>2
    <3>3. \A i \in Tx : Pos(i)' = Pos(i) /\ (Pos(tdt))' = Pos(tdt')
      BY <1>1, <1>3, <1>5 DEF Pos
    <3> QED BY <3>2, <3>3 DEF PendingAreBetween
  <2> QED BY <2>1, <2>2
<1>10. \A i \in Tx : ~tx_ring[i].dd => tx_ring[i].frame \in 1..(calls - 1)
  <2> SUFFICES ASSUME NEW i \in Tx, ~tx_ring[i].dd PROVE tx_ring[i].frame \in 1..(calls - 1)
    OBVIOUS
  <2>1. tx_ring[i].frame \in 1..MaxSends
    BY <1>2 DEF TxInv, TxTypes, PendingAreInOrder
  <2>2. tx_ring[i].frame <= LastQueued BY <2>1 DEF TxInv, ResultsAgree, Handed
  <2> QED BY <1>1, <1>2, <2>1, <2>2 DEF LastQueued
<1>11. \A m \in DOMAIN wire : wire[m] \in 1..(calls - 1)
  <2> SUFFICES ASSUME NEW m \in DOMAIN wire PROVE wire[m] \in 1..(calls - 1) OBVIOUS
  <2>1. wire[m] \in 1..MaxSends BY ElementOfSeq DEF TxInv, TxTypes
  <2>2. wire[m] <= LastQueued BY <2>1 DEF TxInv, ResultsAgree, Handed, Sent
  <2> QED BY <1>1, <1>2, <2>1, <2>2 DEF LastQueued
<1>12. PendingAreInOrder'
  <2>1. ASSUME NEW i \in Tx, ~tx_ring'[i].dd
        PROVE  /\ tx_ring'[i].frame # None
               /\ \A m \in DOMAIN wire : wire[m] < tx_ring'[i].frame
    <3>1. CASE i = tdt BY <1>2, <1>4, <1>11, <3>1
    <3>2. CASE i # tdt BY <1>2, <1>4, <2>1, <3>2 DEF TxInv, PendingAreInOrder
    <3> QED BY <3>1, <3>2
  <2>2. ASSUME NEW i \in Tx, NEW j \in Tx, ~tx_ring'[i].dd, ~tx_ring'[j].dd, Pos(i) < Pos(j)
        PROVE  tx_ring'[i].frame < tx_ring'[j].frame
    <3>1. CASE i = tdt
      <4>1. j # tdt BY <1>5, <2>2, <3>1
      <4>2. Pos(j) < Pos(tdt) BY <1>4, <1>6, <2>2, <4>1
      <4> QED BY <1>2, <1>5, <2>2, <3>1, <4>2
    <3>2. CASE i # tdt /\ j = tdt
      <4>1. ~tx_ring[i].dd /\ tx_ring'[i].frame = tx_ring[i].frame BY <1>4, <2>2, <3>2
      <4>2. tx_ring[i].frame \in 1..(calls - 1) BY <1>10, <4>1
      <4> QED BY <1>2, <1>4, <3>2, <4>1, <4>2
    <3>3. CASE i # tdt /\ j # tdt
      BY <1>2, <1>4, <2>2, <3>3 DEF TxInv, PendingAreInOrder
    <3> QED BY <3>1, <3>2, <3>3
  <2> QED BY <1>1, <1>5, <2>1, <2>2 DEF PendingAreInOrder
<1>13. Control' BY <1>1, <1>2 DEF Control, RunningPoints
<1>14. TxTypes' BY <1>1, <1>2, <1>3 DEF TxInv, TxTypes
<1>15. WireInOrder' BY <1>1 DEF TxInv, WireInOrder
<1>16. LastQueued' = calls /\ LastQueued = calls - 1 BY <1>1 DEF LastQueued
<1>17. ASSUME NEW c \in 1..MaxSends, Handed(c)'
       PROVE  c <= LastQueued' /\ results'[c] \in {"OK", "TIMEOUT", None}
  <2>1. CASE c = calls
    <3>1. results[c] = None BY <1>1, <2>1 DEF TxInv, NotYetReported
    <3> QED BY <1>1, <1>2, <1>16, <2>1, <3>1
  <2>2. CASE c # calls
    <3>1. Handed(c) BY <1>1, <1>4, <1>17, <2>2 DEF Handed, Sent
    <3>2. c <= calls - 1 /\ results[c] \in {"OK", "TIMEOUT", None}
      BY <1>16, <3>1 DEF TxInv, ResultsAgree
    <3> QED BY <1>1, <1>2, <1>16, <3>2
  <2> QED BY <2>1, <2>2
<1>18. ASSUME NEW i \in Tx, tx_ring'[i].dd, tx_ring'[i].frame # None
       PROVE  \E m \in DOMAIN wire' : wire'[m] = tx_ring'[i].frame
  <2>1. i # tdt BY <1>4, <1>18
  <2>2. tx_ring'[i] = tx_ring[i] BY <1>4, <2>1
  <2> QED BY <1>1, <1>18, <2>2 DEF TxInv, ResultsAgree, Sent
<1>19. ASSUME NEW c \in 1..MaxSends, results'[c] = "OK" PROVE Sent(c)'
  BY <1>1, <1>19 DEF TxInv, ResultsAgree, Sent
<1>20. tx_ring'[(tdt' + TX_COUNT - 1) % TX_COUNT].frame = calls
  <2>1. (tdt' + TX_COUNT - 1) % TX_COUNT = tdt BY <1>2, <1>3, TxSuccessor
  <2> QED BY <1>4, <2>1
<1>21. ResultsAgree'
  BY <1>1, <1>2, <1>17, <1>18, <1>19, <1>20 DEF ResultsAgree, Sent
<1>22. NotYetReported' BY <1>1 DEF TxInv, NotYetReported
<1> QED BY <1>1, <1>2, <1>9, <1>12, <1>13, <1>14, <1>15, <1>21, <1>22 DEF TxInv

\* The card sends the oldest frame it owns.
LEMMA CardSendsKeeps == ASSUME TxInv, CardSends PROVE TxInv'
<1>1. /\ phase = "running" /\ tdh # tdt
      /\ wire' = Append(wire, tx_ring[tdh].frame)
      /\ tx_ring' = [tx_ring EXCEPT ![tdh].dd = TRUE]
      /\ tdh' = (tdh + 1) % TX_COUNT
      /\ tdt' = tdt /\ tx_next' = tx_next /\ pc' = pc /\ phase' = phase
      /\ calls' = calls /\ results' = results
  BY DEF CardSends, callVars
<1>2. tdh \in Tx /\ tdt \in Tx /\ calls \in 0..MaxSends /\ wire \in Seq(1..MaxSends)
  BY DEF TxInv, TxTypes
<1>3. tdh' \in Tx /\ tdh' = IF tdh = TX_COUNT - 1 THEN 0 ELSE tdh + 1
  BY <1>1, <1>2, TxSuccessor
<1>4. \A i \in Tx : Pos(i) \in 0..(TX_COUNT - 1) /\ (Pos(i) = 0 <=> i = tdh)
  BY <1>2 DEF Pos
<1>5. \A i \in Tx : Pos(i)' = IF i = tdh THEN TX_COUNT - 1 ELSE Pos(i) - 1
  BY <1>2, <1>3 DEF Pos
<1>6. \A i \in Tx : (~tx_ring[i].dd <=> Pos(i) < Pos(tdt))
  BY <1>1, <1>2 DEF TxInv, PendingAreBetween
<1>7. ~tx_ring[tdh].dd
  <2>0. Pos(tdh) = 0 BY <1>2 DEF Pos
  <2>1. Pos(tdt) > 0
    <3>1. CASE tdt > tdh BY <1>2, <3>1 DEF Pos
    <3>2. CASE tdt < tdh BY <1>2, <3>2 DEF Pos
    <3> QED BY <1>1, <1>2, <3>1, <3>2
  <2> QED BY <1>2, <1>6, <2>0, <2>1
<1>8. /\ tx_ring'[tdh].dd
      /\ \A i \in Tx : tx_ring'[i].frame = tx_ring[i].frame
      /\ \A i \in Tx : i # tdh => tx_ring'[i] = tx_ring[i]
  BY <1>1, <1>2 DEF TxInv, TxTypes
<1>9. TxTypes /\ TxTypes'
  <2>1. tx_ring[tdh].frame \in 1..MaxSends
    BY <1>1, <1>2, <1>7 DEF TxInv, TxTypes, PendingAreInOrder
  <2>2. wire' \in Seq(1..MaxSends) BY <1>1, <1>2, <2>1, AppendProperties
  <2> QED BY <1>1, <1>2, <1>3, <2>2, Zenon DEF TxInv, TxTypes
<1>10. /\ DOMAIN wire' = 1..(Len(wire) + 1) /\ DOMAIN wire = 1..Len(wire) /\ Len(wire) \in Nat
       /\ \A m \in 1..Len(wire) : wire'[m] = wire[m]
       /\ wire'[Len(wire) + 1] = tx_ring[tdh].frame
  <2>1. tx_ring[tdh].frame \in 1..MaxSends
    BY <1>1, <1>2, <1>7, Zenon DEF TxInv, TxTypes, PendingAreInOrder
  <2> QED BY <1>1, <1>2, <2>1, AppendProperties, LenProperties
<1>11. PendingAreBetween'
  <2>1. Pos(tdt)' = Pos(tdt) - 1 /\ Pos(tdt)' = (Pos(tdt))' BY <1>1, <1>2, <1>5, Zenon DEF Pos
  <2>2. ASSUME NEW i \in Tx PROVE ~tx_ring'[i].dd <=> Pos(i)' < (Pos(tdt))'
    <3>0. Pos(i) \in 0..(TX_COUNT - 1) /\ Pos(tdt) \in 0..(TX_COUNT - 1) BY <1>2, <1>4, Zenon
    <3>1. CASE i = tdh
      <4>1. Pos(i)' = TX_COUNT - 1 BY <1>5, <3>1
      <4>2. ~(Pos(i)' < (Pos(tdt))') BY <2>1, <3>0, <4>1
      <4> QED BY <1>8, <3>1, <4>2
    <3>2. CASE i # tdh
      <4>0. Pos(i)' = Pos(i) - 1 BY <1>5, <3>2
      <4>1. Pos(i)' < (Pos(tdt))' <=> Pos(i) < Pos(tdt) BY <2>1, <3>0, <4>0
      <4> QED BY <1>6, <1>8, <3>2, <4>1
    <3> QED BY <3>1, <3>2
  <2> QED BY <2>2 DEF PendingAreBetween
<1>12. \A i \in Tx : i # tdh /\ ~tx_ring[i].dd => tx_ring[tdh].frame < tx_ring[i].frame
  <2> SUFFICES ASSUME NEW i \in Tx, i # tdh, ~tx_ring[i].dd
               PROVE  tx_ring[tdh].frame < tx_ring[i].frame
    OBVIOUS
  <2>1. Pos(tdh) < Pos(i) BY <1>2, <1>4
  <2> QED BY <1>1, <1>2, <1>7, <2>1, Zenon DEF TxInv, PendingAreInOrder
<1>13. PendingAreInOrder'
  <2>1. ASSUME NEW i \in Tx, ~tx_ring'[i].dd
        PROVE  /\ tx_ring'[i].frame # None
               /\ \A m \in DOMAIN wire' : wire'[m] < tx_ring'[i].frame
    <3>1. i # tdh /\ ~tx_ring[i].dd /\ tx_ring'[i] = tx_ring[i] BY <1>8, <2>1
    <3>2. tx_ring[i].frame # None /\ \A m \in DOMAIN wire : wire[m] < tx_ring[i].frame
      BY <1>1, <3>1 DEF TxInv, PendingAreInOrder
    <3>3. tx_ring[tdh].frame < tx_ring[i].frame BY <1>12, <3>1
    <3> QED BY <1>10, <3>1, <3>2, <3>3
  <2>2. ASSUME NEW i \in Tx, NEW j \in Tx, ~tx_ring'[i].dd, ~tx_ring'[j].dd, Pos(i)' < Pos(j)'
        PROVE  tx_ring'[i].frame < tx_ring'[j].frame
    <3>1. i # tdh /\ j # tdh /\ ~tx_ring[i].dd /\ ~tx_ring[j].dd BY <1>8, <2>2
    <3>2. Pos(i) < Pos(j) BY <1>4, <1>5, <2>2, <3>1
    <3> QED BY <1>1, <1>8, <3>1, <3>2 DEF TxInv, PendingAreInOrder
  <2> QED BY <2>1, <2>2 DEF PendingAreInOrder
<1>14. WireInOrder'
  <2>1. ASSUME NEW i \in DOMAIN wire', NEW j \in DOMAIN wire', i < j
        PROVE  wire'[i] < wire'[j]
    <3>1. i \in 1..Len(wire) BY <1>10, <2>1
    <3>2. CASE j = Len(wire) + 1
      <4>1. wire[i] < tx_ring[tdh].frame
        BY <1>1, <1>2, <1>7, <1>10, <3>1, Zenon DEF TxInv, PendingAreInOrder
      <4> QED BY <1>10, <3>1, <3>2, <4>1
    <3>3. CASE j # Len(wire) + 1
      BY <1>10, <2>1, <3>1, <3>3 DEF TxInv, WireInOrder
    <3> QED BY <3>2, <3>3
  <2> QED BY <2>1 DEF WireInOrder
<1>15. \A c \in 1..MaxSends : Sent(c) => Sent(c)' BY <1>10 DEF Sent
<1>16. \A c \in 1..MaxSends : Sent(c)' => Sent(c) \/ c = tx_ring[tdh].frame
  BY <1>10 DEF Sent
<1>17. \A c \in 1..MaxSends : Handed(c)' => Handed(c)
  BY <1>2, <1>8, <1>16 DEF Handed
<1>18. ASSUME NEW i \in Tx, tx_ring'[i].dd, tx_ring'[i].frame # None
       PROVE  \E m \in DOMAIN wire' : wire'[m] = tx_ring'[i].frame
  <2>1. CASE i = tdh BY <1>10, <1>8, <2>1 DEF Sent
  <2>2. CASE i # tdh
    <3>1. Sent(tx_ring[i].frame) BY <1>8, <1>18, <2>2 DEF TxInv, ResultsAgree
    <3> QED BY <1>8, <1>10, <2>2, <3>1 DEF Sent
  <2> QED BY <2>1, <2>2
<1>19. LastQueued' = LastQueued BY <1>1 DEF LastQueued
<1>20. ResultsAgree'
  <2>1. ASSUME pc' = "tx_sent"
        PROVE  tx_ring'[(tdt' + TX_COUNT - 1) % TX_COUNT].frame = calls'
    <3>1. (tdt + TX_COUNT - 1) % TX_COUNT \in Tx BY <1>2
    <3> QED BY <1>1, <1>8, <2>1, <3>1 DEF TxInv, ResultsAgree
  <2>2. ASSUME NEW c \in 1..MaxSends, Handed(c)'
        PROVE  c <= LastQueued' /\ results'[c] \in {"OK", "TIMEOUT", None}
    BY <1>1, <1>17, <1>19, <2>2 DEF TxInv, ResultsAgree
  <2>3. ASSUME NEW c \in 1..MaxSends, results'[c] = "OK" PROVE Sent(c)'
    BY <1>1, <1>15, <2>3 DEF TxInv, ResultsAgree
  <2>4. pc' \in {"tx_wait", "tx_sent"} => calls' > 0 BY <1>1 DEF TxInv, ResultsAgree
  <2> QED BY <1>18, <2>1, <2>2, <2>3, <2>4 DEF ResultsAgree, Sent
<1>21. Control' BY <1>1 DEF TxInv, Control
<1>22. NotYetReported' BY <1>1 DEF TxInv, NotYetReported
<1> QED BY <1>1, <1>9, <1>11, <1>13, <1>14, <1>20, <1>21, <1>22 DEF TxInv

\* TxInv is inductive.
LEMMA TxStep == TxInv /\ [Next]_vars => TxInv'
<1> SUFFICES ASSUME TxInv, [Next]_vars PROVE TxInv' OBVIOUS
<1>1. CASE NetSelfTest
  <2>1. Control' BY <1>1 DEF NetSelfTest, TxInv, Control, RunningPoints
  <2> QED BY <1>1, <2>1, TxFrame DEF NetSelfTest
<1>2. CASE E1000Init
  <2>1. /\ pc = "e1000_init" /\ pc' = "idle" /\ phase' = "running"
        /\ tx_ring' = [i \in Tx |-> [tx_ring[i] EXCEPT !.dd = TRUE]]
        /\ tx_next' = tx_next /\ tdh' = tdh /\ tdt' = tdt /\ wire' = wire
        /\ calls' = calls /\ results' = results
    BY <1>2 DEF E1000Init, callVars
  <2>2. phase # "running" /\ NothingYet
    BY <2>1 DEF TxInv, Control, RunningPoints
  <2>3. Control' BY <2>1 DEF Control, RunningPoints
  <2>4. \A i \in Tx : tx_ring'[i].dd /\ tx_ring'[i].frame = None
    BY <2>1, <2>2 DEF TxInv, TxTypes, NothingYet
  <2>5. TxTypes' BY <2>1, Zenon DEF TxInv, TxTypes
  <2>6. PendingAreBetween' BY <2>1, <2>2, <2>4 DEF PendingAreBetween, Pos, NothingYet
  <2>7. PendingAreInOrder' BY <2>4 DEF PendingAreInOrder
  <2>8. WireInOrder' BY <2>1 DEF TxInv, WireInOrder
  <2>9. LastQueued' = LastQueued BY <2>1 DEF LastQueued
  <2>10. \A c \in 1..MaxSends : (Sent(c)' <=> Sent(c)) /\ (Handed(c)' <=> Handed(c))
    BY <2>1, <2>2, <2>4, Zenon DEF Sent, Handed, NothingYet
  <2>11. ResultsAgree' BY <2>1, <2>4, <2>9, <2>10, Zenon DEF TxInv, ResultsAgree
  <2>12. NotYetReported' BY <2>1 DEF TxInv, NotYetReported
  <2> QED BY <2>1, <2>3, <2>5, <2>6, <2>7, <2>8, <2>11, <2>12 DEF TxInv
<1>3. ASSUME NEW fault \in Faults, E1000Fails(fault) PROVE TxInv'
  <2>1. /\ pc = "e1000_init" /\ pc' \in Faults /\ phase' = "halted"
        /\ tx_ring' = tx_ring /\ tx_next' = tx_next /\ tdh' = tdh /\ tdt' = tdt
        /\ wire' = wire /\ calls' = calls /\ results' = results
    BY <1>3 DEF E1000Fails, txVars, callVars
  <2>2. NothingYet BY <2>1 DEF TxInv, Control, RunningPoints
  <2>3. Control' BY <2>1 DEF Control
  <2>4. TxTypes' BY <2>1 DEF TxInv, TxTypes
  <2>5. NothingYet' BY <2>1, <2>2 DEF NothingYet
  <2>6. WireInOrder' BY <2>1 DEF TxInv, WireInOrder
  <2>7. pc' \notin {"tx_wait", "tx_sent"} BY <2>1
  <2>8. LastQueued' = LastQueued BY <2>1, <2>7 DEF LastQueued
  <2>9. ResultsAgree' BY <2>1, <2>7, <2>8 DEF TxInv, ResultsAgree, Handed, Sent
  <2>10. NotYetReported' BY <2>1, <2>7 DEF TxInv, NotYetReported
  <2> QED BY <2>1, <2>3, <2>4, <2>5, <2>6, <2>9, <2>10 DEF TxInv
<1>4. CASE SendLoopback \/ SendTooLarge BY <1>4, EndedInNetSend
<1>5. CASE Send BY <1>5, SendKeeps
<1>6. CASE TxRefuse BY <1>6, ReturnKeeps DEF TxRefuse
<1>7. CASE TxQueue BY <1>7, TxQueueKeeps
<1>8. CASE TxReturn BY <1>8, TxReturnKeeps
<1>9. CASE Poll
  <2>1. /\ phase' = phase /\ UNCHANGED <<txVars, callVars>>
        /\ pc \in RunningPoints \ {"tx_wait", "tx_sent"}
        /\ pc' \in RunningPoints \ {"tx_wait", "tx_sent"}
    BY <1>9 DEF Poll, PollLoad, PollTest, PollDeliver, PollClear, PollGiveBack,
                RunningPoints
  <2>2. Control' BY <2>1 DEF TxInv, Control, RunningPoints
  <2> QED BY <2>1, <2>2, TxFrame
<1>10. CASE CardSends BY <1>10, CardSendsKeeps
<1>11. ASSUME NEW f \in Frames, CardReceives(f) PROVE TxInv'
  <2>1. Control' BY <1>11 DEF CardReceives, TxInv, Control
  <2> QED BY <1>11, <2>1, TxFrame DEF CardReceives
<1>12. CASE UNCHANGED vars
  <2>1. Control' BY <1>12 DEF vars, TxInv, Control
  <2> QED BY <1>12, <2>1, TxFrame DEF vars
<1> QED
  BY <1>1, <1>2, <1>3, <1>4, <1>5, <1>6, <1>7, <1>8, <1>9, <1>10, <1>11, <1>12
  DEF Next, Transmit

\* The transmit side stays in TxInv however the card and the driver interleave.
THEOREM TxInvariant == Spec => []TxInv
  BY InitTx, TxStep, PTL DEF Spec

\* What net_send reports of a frame is true of the wire, for every size of the
\* transmit ring and every number of calls.
THEOREM ResultsMatchWire == Spec => []ResultMatchesWire
<1>1. TxInv => ResultMatchesWire
  <2> SUFFICES ASSUME TxInv PROVE ResultMatchesWire OBVIOUS
  <2>1. 1..calls \subseteq 1..MaxSends BY DEF TxInv, TxTypes
  <2>2. \A c \in 1..calls : results[c] = "OK" => Sent(c)
    BY <2>1 DEF TxInv, ResultsAgree
  <2>3. \A c \in 1..calls : Sent(c) => results[c] \in {"OK", "TIMEOUT", None}
    BY <2>1 DEF TxInv, ResultsAgree, Handed
  <2> QED BY <2>2, <2>3 DEF TxInv, WireInOrder, ResultMatchesWire
<1> QED BY <1>1, TxInvariant, PTL

-----------------------------------------------------------------------------
\* Distance of a receive descriptor from the one that e1000_poll reads next.
Behind(i) == IF i >= rx_next THEN i - rx_next ELSE i + RX_COUNT - rx_next

\* The program points between the test of a done bit and the end of the pass.
InPass == {"deliver", "clear", "give_back"}

RxTypes ==
  /\ rx_ring \in [Rx -> [dd : BOOLEAN, frame : Frames \cup {None}]]
  /\ rdh \in Rx /\ rdt \in Rx /\ rx_next \in Rx

\* The inductive invariant of the receive side.  The tail is one behind the
\* descriptor that is read next, so the card stops one short of a full ring; the
\* done bits mark the descriptors between the reader and the head, except for
\* the one that the reader has cleared and not given back yet.
RxInv ==
  /\ Control /\ RxTypes
  /\ phase = "running" => rdt = IF rx_next = 0 THEN RX_COUNT - 1 ELSE rx_next - 1
  /\ phase # "running" => rdh = 0 /\ rx_next = 0
  /\ \A i \in Rx : rx_ring[i].dd <=>
       Behind(i) < Behind(rdh) /\ ~(pc = "give_back" /\ i = rx_next)
  /\ \A i \in Rx : Behind(i) < Behind(rdh) => rx_ring[i].frame \in Frames
  /\ pc \in InPass => rdh # rx_next /\ cur = rx_ring[rx_next].frame
  /\ answer = Busy <=> pc \in InPass \cup {"test"}

\* The position of the i-th waiting frame.
Slot(t, i) == IF t + i - 1 < RX_COUNT THEN t + i - 1 ELSE t + i - 1 - RX_COUNT

\* The wrapped successor of a receive descriptor.
LEMMA RxSuccessor ==
  ASSUME NEW k \in Rx
  PROVE  /\ (k + 1) % RX_COUNT \in Rx
         /\ (k + 1) % RX_COUNT = IF k = RX_COUNT - 1 THEN 0 ELSE k + 1
<1>1. (k + 1) % RX_COUNT = IF k + 1 < RX_COUNT THEN k + 1 ELSE k + 1 - RX_COUNT
  OBVIOUS
<1> QED BY <1>1

\* The modulus in the length of Contents subtracts at most one RX_COUNT.
LEMMA GapCases ==
  ASSUME NEW h \in Rx, NEW t \in Rx
  PROVE  (h + RX_COUNT - t) % RX_COUNT = IF h >= t THEN h - t ELSE h + RX_COUNT - t
<1>1. CASE h >= t BY <1>1
<1>2. CASE h < t BY <1>2
<1> QED BY <1>1, <1>2

\* So does the one in its elements.
LEMMA SlotCases ==
  ASSUME NEW t \in Rx, NEW i \in 1..RX_COUNT
  PROVE  (t + i - 1) % RX_COUNT = Slot(t, i) /\ Slot(t, i) \in Rx
<1>1. CASE t + i - 1 < RX_COUNT BY <1>1 DEF Slot
<1>2. CASE t + i - 1 >= RX_COUNT BY <1>2 DEF Slot
<1> QED BY <1>1, <1>2

\* Distances are below RX_COUNT, and only the next descriptor has distance 0.
LEMMA BehindFacts ==
  ASSUME rx_next \in Rx
  PROVE  \A i \in Rx : Behind(i) \in 0..(RX_COUNT - 1) /\ (Behind(i) = 0 <=> i = rx_next)
  BY DEF Behind

\* Contents without the modulus: a sequence of frames, as long as the head is
\* ahead of the reader.
LEMMA ContentsFacts ==
  ASSUME RxInv
  PROVE  /\ Behind(rdh) \in 0..(RX_COUNT - 1)
         /\ Contents = [i \in 1..Behind(rdh) |-> rx_ring[Slot(rx_next, i)].frame]
         /\ \A i \in 1..Behind(rdh) :
              Slot(rx_next, i) \in Rx /\ Slot(rx_next, i) # rdh
         /\ Contents \in Seq(Frames)
         /\ Len(Contents) = Behind(rdh)
<1>1. rdh \in Rx /\ rx_next \in Rx BY DEF RxInv, RxTypes
<1>2. Behind(rdh) \in 0..(RX_COUNT - 1) BY <1>1, BehindFacts
<1>3. (rdh + RX_COUNT - rx_next) % RX_COUNT = Behind(rdh)
  BY <1>1, GapCases DEF Behind
<1>4. ASSUME NEW i \in 1..Behind(rdh)
      PROVE  /\ (rx_next + i - 1) % RX_COUNT = Slot(rx_next, i)
             /\ Slot(rx_next, i) \in Rx /\ Behind(Slot(rx_next, i)) = i - 1
  <2>1. i \in 1..RX_COUNT BY <1>2
  <2>2. Behind(Slot(rx_next, i)) = i - 1 BY <1>1, <2>1 DEF Slot, Behind
  <2> QED BY <1>1, <2>1, <2>2, SlotCases
<1>5. Contents = [i \in 1..Behind(rdh) |-> rx_ring[Slot(rx_next, i)].frame]
  BY <1>3, <1>4 DEF Contents
<1>6. ASSUME NEW i \in 1..Behind(rdh)
      PROVE  rx_ring[Slot(rx_next, i)].frame \in Frames /\ Slot(rx_next, i) # rdh
  <2>1. Behind(Slot(rx_next, i)) < Behind(rdh) BY <1>2, <1>4
  <2>2. Slot(rx_next, i) # rdh BY <1>2, <2>1
  <2> QED BY <1>4, <2>1, <2>2 DEF RxInv
<1>7. Contents \in Seq(Frames) /\ Len(Contents) = Behind(rdh)
  BY <1>2, <1>5, <1>6
<1> QED BY <1>2, <1>4, <1>5, <1>6, <1>7

\* What a card that owns a descriptor does with an arrival.
Fills(f) ==
  /\ phase = "running" /\ rdh # rdt
  /\ rx_ring' = [rx_ring EXCEPT ![rdh] = [dd |-> TRUE, frame |-> f]]
  /\ rdh' = (rdh + 1) % RX_COUNT
  /\ UNCHANGED <<phase, rx_next, rdt, pc, cur, answer>>

\* The head does not catch up with the reader.
LEMMA FillsMovesHead ==
  ASSUME RxInv, NEW f \in Frames, Fills(f)
  PROVE  /\ rdh' \in Rx /\ \A i \in Rx : Behind(i)' = Behind(i)
         /\ (Behind(rdh))' = Behind(rdh) + 1
         /\ Behind(rdh) < RX_COUNT - 1
<1>1. rdh \in Rx /\ rx_next \in Rx /\ rx_next' = rx_next BY DEF RxInv, RxTypes, Fills
<1>2. rdh' \in Rx /\ rdh' = IF rdh = RX_COUNT - 1 THEN 0 ELSE rdh + 1
  BY <1>1, RxSuccessor DEF Fills
<1>3. rdh # (IF rx_next = 0 THEN RX_COUNT - 1 ELSE rx_next - 1)
  BY DEF Fills, RxInv
<1>4. \A i \in Rx : Behind(i)' = Behind(i) BY <1>1 DEF Behind
<1>5. (Behind(rdh))' = Behind(rdh) + 1 /\ Behind(rdh) < RX_COUNT - 1
  BY <1>1, <1>2, <1>3 DEF Behind
<1> QED BY <1>2, <1>4, <1>5

\* An arrival is appended to the waiting frames.
LEMMA FillsAppends ==
  ASSUME RxInv, NEW f \in Frames, Fills(f)
  PROVE  RxInv' /\ Contents' = Append(Contents, f)
<1>1. /\ rdh \in Rx /\ rx_next \in Rx /\ rx_next' = rx_next
      /\ rx_ring \in [Rx -> [dd : BOOLEAN, frame : Frames \cup {None}]]
      /\ phase' = phase /\ pc' = pc /\ cur' = cur /\ answer' = answer /\ rdt' = rdt
      /\ phase = "running"
  BY DEF RxInv, RxTypes, Fills
<1>2. /\ rdh' \in Rx /\ \A i \in Rx : Behind(i)' = Behind(i)
      /\ (Behind(rdh))' = Behind(rdh) + 1
      /\ Behind(rdh) < RX_COUNT - 1
  BY FillsMovesHead
<1>3. /\ rx_ring'[rdh] = [dd |-> TRUE, frame |-> f]
      /\ \A i \in Rx : i # rdh => rx_ring'[i] = rx_ring[i]
  BY <1>1 DEF Fills
<1>4. \A i \in Rx : Behind(i) \in 0..(RX_COUNT - 1) /\ (Behind(i) = 0 <=> i = rx_next)
  BY <1>1, BehindFacts
<1>5. \A i \in Rx : Behind(i) = Behind(rdh) => i = rdh BY <1>1 DEF Behind
<1>6. ASSUME NEW i \in Rx
      PROVE  /\ rx_ring'[i].dd <=>
                  Behind(i) < Behind(rdh) + 1 /\ ~(pc = "give_back" /\ i = rx_next)
             /\ Behind(i) < Behind(rdh) + 1 => rx_ring'[i].frame \in Frames
  <2>1. CASE i = rdh
    <3>1. ~(pc = "give_back" /\ i = rx_next) BY <2>1 DEF RxInv, InPass
    <3>2. Behind(i) < Behind(rdh) + 1 BY <1>1, <1>4, <2>1
    <3> QED BY <1>3, <2>1, <3>1, <3>2
  <2>2. CASE i # rdh
    <3>1. Behind(i) < Behind(rdh) + 1 <=> Behind(i) < Behind(rdh)
      BY <1>1, <1>4, <1>5, <2>2
    <3> QED BY <1>3, <2>2, <3>1 DEF RxInv
  <2> QED BY <2>1, <2>2
<1>7. RxTypes' BY <1>1, <1>2 DEF RxInv, RxTypes, Fills
<1>8. pc \in InPass => rdh' # rx_next /\ rx_ring'[rx_next] = rx_ring[rx_next]
  <2>1. (Behind(rdh))' = Behind(rdh') BY <1>1 DEF Behind
  <2>2. Behind(rdh') > 0 BY <1>1, <1>2, <1>4, <2>1
  <2>3. rdh' # rx_next BY <1>1, <1>4, <2>2
  <2> QED BY <1>1, <1>3, <2>3 DEF RxInv
<1>9. RxInv'
  <2>1. Control' BY <1>1 DEF RxInv, Control
  <2>2. \A i \in Rx : rx_ring'[i].dd <=>
          Behind(i)' < (Behind(rdh))' /\ ~(pc' = "give_back" /\ i = rx_next')
    BY <1>1, <1>2, <1>6
  <2>3. \A i \in Rx : Behind(i)' < (Behind(rdh))' => rx_ring'[i].frame \in Frames
    BY <1>2, <1>6
  <2>4. pc' \in InPass => rdh' # rx_next' /\ cur' = rx_ring'[rx_next'].frame
    BY <1>1, <1>8 DEF RxInv
  <2> QED BY <1>1, <1>7, <2>1, <2>2, <2>3, <2>4 DEF RxInv
<1> DEFINE n == Behind(rdh)
<1>10. /\ n \in 0..(RX_COUNT - 1)
       /\ Contents = [i \in 1..n |-> rx_ring[Slot(rx_next, i)].frame]
       /\ \A i \in 1..n : Slot(rx_next, i) \in Rx /\ Slot(rx_next, i) # rdh
       /\ Contents \in Seq(Frames) /\ Len(Contents) = n
  BY ContentsFacts
<1>11. Contents' = [i \in 1..(n + 1) |-> rx_ring'[Slot(rx_next, i)].frame]
  <2>1. (rdh' + RX_COUNT - rx_next') % RX_COUNT = n + 1
    BY <1>1, <1>2, GapCases, Zenon DEF Behind
  <2>2. ASSUME NEW i \in 1..(n + 1) PROVE (rx_next + i - 1) % RX_COUNT = Slot(rx_next, i)
    <3>1. i \in 1..RX_COUNT BY <1>2, <1>10
    <3> QED BY <1>1, <3>1, SlotCases
  <2> QED BY <1>1, <2>1, <2>2, Zenon DEF Contents
<1>12. Slot(rx_next, n + 1) = rdh BY <1>1 DEF Slot, Behind
<1> HIDE DEF n
<1>13. /\ Append(Contents, f) \in Seq(Frames) /\ Len(Append(Contents, f)) = n + 1
       /\ \A i \in 1..n : Append(Contents, f)[i] = Contents[i]
       /\ Append(Contents, f)[n + 1] = f
  BY <1>10, AppendProperties
<1>14. ASSUME NEW i \in 1..(n + 1)
       PROVE  rx_ring'[Slot(rx_next, i)].frame = Append(Contents, f)[i]
  <2>1. CASE i = n + 1 BY <1>3, <1>12, <1>13, <2>1
  <2>2. CASE i # n + 1
    <3>1. i \in 1..n BY <1>10, <2>2
    <3> QED BY <1>3, <1>10, <1>13, <3>1
  <2> QED BY <2>1, <2>2, Zenon
<1>15. Append(Contents, f) = [i \in 1..(n + 1) |-> Append(Contents, f)[i]]
  BY <1>13, LenProperties, Zenon
<1>16. Contents' = Append(Contents, f) BY <1>11, <1>14, <1>15, Zenon
<1> QED BY <1>9, <1>16

\* The end of a pass takes the oldest waiting frame, the one delivered.
LEMMA GiveBackTakes ==
  ASSUME RxInv, PollGiveBack
  PROVE  /\ RxInv' /\ Contents # <<>>
         /\ cur = Head(Contents) /\ Contents' = Tail(Contents)
<1>1. /\ rdh \in Rx /\ rx_next \in Rx /\ pc = "give_back" /\ pc' = "poll"
      /\ rx_next' = (rx_next + 1) % RX_COUNT /\ rdt' = rx_next
      /\ rdh' = rdh /\ rx_ring' = rx_ring /\ answer' = cur /\ cur' = cur
      /\ phase' = phase
      /\ rdh # rx_next /\ cur = rx_ring[rx_next].frame
  BY DEF RxInv, RxTypes, PollGiveBack, InPass
<1>2. phase = "running" BY <1>1 DEF RxInv, Control
<1>3. rx_next' \in Rx /\ rx_next' = IF rx_next = RX_COUNT - 1 THEN 0 ELSE rx_next + 1
  BY <1>1, RxSuccessor
<1>4. \A i \in Rx : Behind(i) \in 0..(RX_COUNT - 1) /\ (Behind(i) = 0 <=> i = rx_next)
  BY <1>1, BehindFacts
<1>5. \A i \in Rx : Behind(i)' = IF i = rx_next THEN RX_COUNT - 1 ELSE Behind(i) - 1
  BY <1>1, <1>3 DEF Behind
<1>6. (Behind(rdh))' = Behind(rdh) - 1 /\ Behind(rdh) > 0
  <2>1. (Behind(rdh))' = Behind(rdh)' BY <1>1
  <2> QED BY <1>1, <1>4, <1>5, <2>1
<1>7. cur \in Frames /\ cur # Busy
  <2>1. Behind(rx_next) < Behind(rdh) BY <1>1, <1>4, <1>6
  <2> QED BY <1>1, <2>1 DEF RxInv
<1>8. ASSUME NEW i \in Rx
      PROVE  /\ rx_ring[i].dd <=> Behind(i)' < (Behind(rdh))'
             /\ Behind(i)' < (Behind(rdh))' => rx_ring[i].frame \in Frames
  <2>1. CASE i = rx_next
    <3>1. ~(Behind(i)' < (Behind(rdh))') BY <1>1, <1>4, <1>5, <1>6, <2>1
    <3>2. ~rx_ring[i].dd BY <1>1, <2>1 DEF RxInv
    <3> QED BY <3>1, <3>2
  <2>2. CASE i # rx_next
    <3>1. Behind(i)' < (Behind(rdh))' <=> Behind(i) < Behind(rdh)
      BY <1>1, <1>4, <1>5, <1>6, <2>2
    <3> QED BY <2>2, <3>1 DEF RxInv
  <2> QED BY <2>1, <2>2
<1>9. RxInv'
  <2>1. Control' BY <1>1, <1>2 DEF Control, RunningPoints
  <2>2. RxTypes' BY <1>1, <1>3 DEF RxInv, RxTypes
  <2>3. rdt' = IF rx_next' = 0 THEN RX_COUNT - 1 ELSE rx_next' - 1 BY <1>1, <1>3
  <2>4. pc' \notin InPass \cup {"test"} /\ pc' # "give_back" /\ answer' # Busy
    BY <1>1, <1>7 DEF InPass
  <2> QED BY <1>1, <1>2, <1>8, <2>1, <2>2, <2>3, <2>4, Zenon DEF RxInv
<1> DEFINE n == Behind(rdh)
<1>10. /\ n \in 0..(RX_COUNT - 1)
       /\ Contents = [i \in 1..n |-> rx_ring[Slot(rx_next, i)].frame]
       /\ Contents \in Seq(Frames) /\ Len(Contents) = n
  BY ContentsFacts
<1>11. Contents' = [i \in 1..(n - 1) |-> rx_ring[Slot(rx_next', i)].frame]
  <2>1. (rdh' + RX_COUNT - rx_next') % RX_COUNT = n - 1
    BY <1>1, <1>3, <1>6, GapCases DEF Behind
  <2>2. ASSUME NEW i \in 1..(n - 1) PROVE (rx_next' + i - 1) % RX_COUNT = Slot(rx_next', i)
    <3>1. i \in 1..RX_COUNT BY <1>10
    <3> QED BY <1>3, <3>1, SlotCases, Zenon
  <2> QED BY <1>1, <2>1, <2>2, Zenon DEF Contents
<1>12. n > 0 BY <1>6
<1> HIDE DEF n
<1>13. ASSUME NEW i \in 1..(n - 1) PROVE Slot(rx_next', i) = Slot(rx_next, i + 1)
  <2>1. i \in 1..(RX_COUNT - 2) BY <1>10
  <2>2. CASE rx_next = RX_COUNT - 1 BY <1>3, <2>1, <2>2 DEF Slot
  <2>3. CASE rx_next # RX_COUNT - 1 BY <1>1, <1>3, <2>1, <2>3 DEF Slot
  <2> QED BY <2>2, <2>3
<1>14. Contents # <<>> BY <1>10, <1>12, EmptySeq
<1>15. cur = Head(Contents)
  <2>1. Slot(rx_next, 1) = rx_next BY <1>1 DEF Slot
  <2>2. Contents[1] = cur BY <1>1, <1>10, <1>12, <2>1
  <2> QED BY <1>10, <1>14, <2>2, HeadTailProperties
<1>16. /\ Tail(Contents) \in Seq(Frames) /\ Len(Tail(Contents)) = n - 1
       /\ \A i \in 1..(n - 1) : Tail(Contents)[i] = Contents[i + 1]
  BY <1>10, <1>14, HeadTailProperties
<1>17. ASSUME NEW i \in 1..(n - 1) PROVE Tail(Contents)[i] = rx_ring[Slot(rx_next', i)].frame
  <2>1. i + 1 \in 1..n BY <1>10
  <2>2. Contents[i + 1] = rx_ring[Slot(rx_next, i + 1)].frame BY <1>10, <2>1
  <2> QED BY <1>13, <1>16, <2>2
<1>18. Tail(Contents) = [i \in 1..(n - 1) |-> Tail(Contents)[i]]
  BY <1>16, LenProperties, Zenon
<1>19. Contents' = Tail(Contents) BY <1>11, <1>17, <1>18, Zenon
<1> QED BY <1>9, <1>14, <1>15, <1>19

\* A step that leaves the frames, the head and the reader where they are.
LEMMA RxFrame ==
  ASSUME RxInv, Control', phase' = phase, rdh' = rdh, rx_next' = rx_next, rdt' = rdt,
         rx_ring' = rx_ring, (pc = "give_back") <=> (pc' = "give_back"),
         pc' \in InPass => pc \in InPass /\ cur' = cur,
         answer' = Busy <=> pc' \in InPass \cup {"test"}
  PROVE  RxInv' /\ Contents' = Contents
<1>1. \A i : Behind(i)' = Behind(i) /\ (Behind(rdh))' = Behind(rdh) BY DEF Behind
<1>2. RxTypes' BY DEF RxInv, RxTypes
<1>3. Contents' = Contents BY DEF Contents
<1> QED BY <1>1, <1>2, <1>3 DEF RxInv

\* The ring is empty before the card is set up.
LEMMA InitRx == Init => RxInv
<1> SUFFICES ASSUME Init PROVE RxInv OBVIOUS
<1>1. Control BY DEF Init, Control
<1>2. RxTypes BY DEF Init, RxTypes
<1>3. rdh = 0 /\ rx_next = 0 BY DEF Init
<1>4. \A i \in Rx : ~(Behind(i) < Behind(rdh)) BY <1>3 DEF Behind
<1>5. pc \notin InPass \cup {"test"} /\ answer # Busy BY DEF Init, InPass
<1> QED BY <1>1, <1>2, <1>3, <1>4, <1>5 DEF Init, RxInv

\* Each step keeps RxInv and is a step of the bounded queue, or none.
LEMMA RxStep ==
  RxInv /\ [Next]_vars => RxInv' /\ [Fifo!Next]_(Fifo!vars)
<1> SUFFICES ASSUME RxInv, [Next]_vars PROVE RxInv' /\ [Fifo!Next]_(Fifo!vars) OBVIOUS
<1> USE DEF InPass
<1>1. CASE NetSelfTest
  <2>1. Control' BY <1>1 DEF NetSelfTest, RxInv, Control, RunningPoints
  <2>2. RxInv' /\ Contents' = Contents
    BY <1>1, <2>1, RxFrame, Zenon DEF NetSelfTest, rxVars, RxInv
  <2> QED BY <1>1, <2>2 DEF NetSelfTest, Fifo!vars
<1>2. CASE E1000Init
  <2>1. /\ pc = "e1000_init" /\ pc' = "idle" /\ phase' = "running"
        /\ rdt' = RX_COUNT - 1 /\ rx_ring' = rx_ring /\ rx_next' = rx_next
        /\ rdh' = rdh /\ cur' = cur /\ answer' = answer
    BY <1>2 DEF E1000Init
  <2>2. rdh = 0 /\ rx_next = 0 BY <2>1 DEF RxInv, Control, RunningPoints
  <2>3. Control' BY <2>1 DEF Control, RunningPoints
  <2>4. \A i : Behind(i)' = Behind(i) /\ (Behind(rdh))' = Behind(rdh) BY <2>1 DEF Behind
  <2>5. RxTypes' BY <2>1 DEF RxInv, RxTypes
  <2>6. RxInv' BY <2>1, <2>2, <2>3, <2>4, <2>5 DEF RxInv
  <2>7. Contents' = Contents BY <2>1 DEF Contents
  <2> QED BY <2>1, <2>6, <2>7 DEF Fifo!vars
<1>3. ASSUME NEW fault \in Faults, E1000Fails(fault)
      PROVE  RxInv' /\ [Fifo!Next]_(Fifo!vars)
  <2>1. /\ pc = "e1000_init" /\ pc' \in Faults /\ phase' = "halted"
        /\ rdt' = rdt /\ rx_ring' = rx_ring /\ rx_next' = rx_next
        /\ rdh' = rdh /\ cur' = cur /\ answer' = answer
    BY <1>3 DEF E1000Fails, rxVars
  <2>2. rdh = 0 /\ rx_next = 0 BY <2>1 DEF RxInv, Control, RunningPoints
  <2>3. Control' BY <2>1 DEF Control
  <2>4. \A i : Behind(i)' = Behind(i) /\ (Behind(rdh))' = Behind(rdh) BY <2>1 DEF Behind
  <2>5. RxTypes' BY <2>1 DEF RxInv, RxTypes
  <2>6. pc' \notin InPass \cup {"test"} BY <2>1
  <2>7. RxInv' BY <2>1, <2>2, <2>3, <2>4, <2>5, <2>6 DEF RxInv
  <2>8. Contents' = Contents BY <2>1 DEF Contents
  <2> QED BY <2>1, <2>7, <2>8 DEF Fifo!vars
<1>4. CASE SendLoopback \/ SendTooLarge \/ Send \/ Transmit
  <2>1. /\ phase' = phase /\ UNCHANGED <<rxVars, cur, answer>>
        /\ pc \in {"idle", "tx_wait", "tx_sent"}
        /\ pc' \in {"idle", "tx_wait", "tx_sent"}
    BY <1>4, Zenon DEF SendLoopback, SendTooLarge, Send, Transmit, TxRefuse, TxQueue, TxReturn, Return
  <2>2. Control' BY <2>1 DEF RxInv, Control, RunningPoints
  <2>3. RxInv' /\ Contents' = Contents BY <2>1, <2>2, RxFrame, Zenon DEF rxVars, RxInv
  <2> QED BY <2>1, <2>3 DEF Fifo!vars
<1>5. CASE PollLoad
  <2>1. Control' BY <1>5 DEF PollLoad, RxInv, Control, RunningPoints
  <2>2. RxInv' /\ Contents' = Contents
    BY <1>5, <2>1, RxFrame DEF PollLoad, rxVars
  <2>3. Fifo!Request BY <1>5, <2>2 DEF PollLoad, RxInv, Fifo!Request
  <2> QED BY <2>2, <2>3 DEF Fifo!Next
<1>6. CASE PollTest
  <2>1. /\ phase' = phase /\ rdh' = rdh /\ rx_next' = rx_next /\ rdt' = rdt
        /\ rx_ring' = rx_ring /\ pc = "test"
    BY <1>6 DEF PollTest, rxVars
  <2>2. rx_next \in Rx /\ rdh \in Rx /\ phase = "running"
    BY <2>1 DEF RxInv, RxTypes, Control
  <2>3. Behind(rx_next) = 0 /\ Behind(rdh) \in Nat /\ (Behind(rdh) = 0 <=> rdh = rx_next)
    BY <2>2, BehindFacts
  <2>4. rx_ring[rx_next].dd <=> rdh # rx_next BY <2>1, <2>2, <2>3 DEF RxInv
  <2>5. Contents' = Contents BY <2>1 DEF Contents
  <2>6. CASE rx_ring[rx_next].dd
    <3>1. pc' = "deliver" /\ cur' = rx_ring[rx_next].frame /\ answer' = answer
      BY <1>6, <2>6 DEF PollTest
    <3>2. Control' BY <2>1, <2>2, <3>1 DEF Control, RunningPoints
    <3>3. \A i : Behind(i)' = Behind(i) /\ (Behind(rdh))' = Behind(rdh) BY <2>1 DEF Behind
    <3>4. RxTypes' BY <2>1 DEF RxInv, RxTypes
    <3>5. RxInv' BY <2>1, <2>2, <2>4, <2>6, <3>1, <3>2, <3>3, <3>4 DEF RxInv
    <3> QED BY <2>5, <3>1, <3>5 DEF Fifo!vars
  <2>7. CASE ~rx_ring[rx_next].dd
    <3>1. pc' = "idle" /\ answer' = Empty BY <1>6, <2>7 DEF PollTest
    <3>2. Control' BY <2>1, <2>2, <3>1 DEF Control, RunningPoints
    <3>3. RxInv' BY <2>1, <3>1, <3>2, RxFrame
    <3>4. Contents = <<>> BY <2>3, <2>4, <2>7, ContentsFacts, EmptySeq
    <3>5. Fifo!Refuse BY <2>1, <2>5, <3>1, <3>4 DEF RxInv, Fifo!Refuse
    <3> QED BY <3>3, <3>5 DEF Fifo!Next
  <2> QED BY <2>6, <2>7
<1>7. CASE PollDeliver
  <2>1. Control' BY <1>7 DEF PollDeliver, RxInv, Control, RunningPoints
  <2>2. RxInv' /\ Contents' = Contents
    BY <1>7, <2>1, RxFrame, Zenon DEF PollDeliver, rxVars, RxInv
  <2> QED BY <1>7, <2>2 DEF PollDeliver, Fifo!vars
<1>8. CASE PollClear
  <2>1. /\ phase' = phase /\ rdh' = rdh /\ rx_next' = rx_next /\ rdt' = rdt
        /\ rx_ring' = [rx_ring EXCEPT ![rx_next].dd = FALSE]
        /\ pc = "clear" /\ pc' = "give_back" /\ cur' = cur /\ answer' = answer
    BY <1>8 DEF PollClear
  <2>2. rx_next \in Rx /\ rdh \in Rx BY DEF RxInv, RxTypes
  <2>3. Control' BY <2>1 DEF RxInv, Control, RunningPoints
  <2>4. \A i : Behind(i)' = Behind(i) /\ (Behind(rdh))' = Behind(rdh) BY <2>1 DEF Behind
  <2>5. RxTypes'
    <3> DEFINE D == [dd : BOOLEAN, frame : Frames \cup {None}]
    <3>1. rx_ring \in [Rx -> D] /\ rdt \in Rx BY DEF RxInv, RxTypes
    <3>2. [rx_ring[rx_next] EXCEPT !.dd = FALSE] \in D BY <2>2, <3>1, Zenon
    <3> HIDE DEF D
    <3>3. rx_ring' \in [Rx -> D] BY <2>1, <2>2, <3>1, <3>2
    <3> QED BY <2>1, <2>2, <3>1, <3>3 DEF RxTypes, D
  <2>6. /\ \A i \in Rx : rx_ring'[i].frame = rx_ring[i].frame
        /\ \A i \in Rx : i # rx_next => rx_ring'[i].dd = rx_ring[i].dd
        /\ ~rx_ring'[rx_next].dd
    BY <2>1, <2>2 DEF RxInv, RxTypes
  <2>7. \A i \in Rx : rx_ring'[i].dd <=>
          Behind(i)' < (Behind(rdh))' /\ ~(pc' = "give_back" /\ i = rx_next')
    BY <2>1, <2>4, <2>6 DEF RxInv
  <2>8. \A i \in Rx : Behind(i)' < (Behind(rdh))' => rx_ring'[i].frame \in Frames
    BY <2>4, <2>6 DEF RxInv
  <2>9. RxInv' BY <2>1, <2>2, <2>3, <2>5, <2>6, <2>7, <2>8 DEF RxInv
  <2>10. Contents' = Contents
    <3>1. \A i \in Nat : (rx_next + i - 1) % RX_COUNT \in Rx
      <4>1. ASSUME NEW i \in Nat PROVE rx_next + i - 1 \in Int BY <2>2
      <4> QED BY <4>1
    <3> QED BY <2>1, <2>6, <3>1 DEF Contents
  <2> QED BY <2>1, <2>9, <2>10 DEF Fifo!vars
<1>9. CASE PollGiveBack
  <2>1. /\ RxInv' /\ Contents # <<>>
        /\ cur = Head(Contents) /\ Contents' = Tail(Contents)
    BY <1>9, GiveBackTakes
  <2>2. Fifo!Take BY <1>9, <2>1 DEF PollGiveBack, RxInv, Fifo!Take
  <2> QED BY <2>1, <2>2 DEF Fifo!Next
<1>10. CASE CardSends
  <2>1. Control' BY <1>10 DEF CardSends, RxInv, Control
  <2>2. RxInv' /\ Contents' = Contents
    BY <1>10, <2>1, RxFrame DEF CardSends, rxVars, RxInv
  <2> QED BY <1>10, <2>2 DEF CardSends, Fifo!vars
<1>11. ASSUME NEW f \in Frames, CardReceives(f)
       PROVE  RxInv' /\ [Fifo!Next]_(Fifo!vars)
  <2>1. CASE rdh = rdt
    <3>1. Control' BY <1>11 DEF CardReceives, RxInv, Control
    <3>2. RxInv' /\ Contents' = Contents
      BY <1>11, <2>1, <3>1, RxFrame, Zenon DEF CardReceives, RxInv
    <3> QED BY <1>11, <3>2 DEF CardReceives, Fifo!vars
  <2>2. CASE rdh # rdt
    <3>1. Fills(f) BY <1>11, <2>2 DEF CardReceives, Fills
    <3>2. RxInv' /\ Contents' = Append(Contents, f) BY <3>1, FillsAppends
    <3>3. Len(Contents) < RX_COUNT - 1 BY <3>1, FillsMovesHead, ContentsFacts
    <3>4. Fifo!Put(f) BY <3>1, <3>2, <3>3 DEF Fills, Fifo!Put
    <3> QED BY <3>2, <3>4 DEF Fifo!Next
  <2> QED BY <2>1, <2>2
<1>12. CASE UNCHANGED vars
  <2>1. Control' BY <1>12 DEF vars, RxInv, Control
  <2>2. RxInv' /\ Contents' = Contents
    BY <1>12, <2>1, RxFrame, Zenon DEF vars, rxVars, RxInv
  <2> QED BY <1>12, <2>2 DEF vars, Fifo!vars
<1> QED
  BY <1>1, <1>2, <1>3, <1>4, <1>5, <1>6, <1>7, <1>8, <1>9, <1>10, <1>11, <1>12
  DEF Next, Poll

\* The receive ring stays in RxInv however the card and the poll interleave.
THEOREM RxInvariant == Spec => []RxInv
  BY InitRx, RxStep, PTL DEF Spec

\* The receive ring is a first-in first-out buffer of RX_COUNT - 1 frames, for
\* every size of the ring.
THEOREM RxRingImplementsFifo == Spec => RxImplementsFifo
<1>1. Init => Fifo!Init
  <2> SUFFICES ASSUME Init PROVE Fifo!Init OBVIOUS
  <2>1. RxInv /\ Behind(rdh) = 0 BY InitRx DEF Init, Behind
  <2>2. Contents = <<>> BY <2>1, ContentsFacts, EmptySeq
  <2> QED BY <2>2, Zenon DEF Init, Fifo!Init
<1> QED BY <1>1, RxStep, RxInvariant, PTL DEF Spec, RxImplementsFifo, Fifo!Spec
-----------------------------------------------------------------------------
(* The parsers and the builders of net_proto.c. *)
HIDE E1000Assumption DEF Tx, Rx

CONSTANTS FrameLengths, HeaderWords, Claims, OptionLengths, LabelSizes, RdLengths,
          MaxQuestions, MaxAnswers, MAX_LABELS,
          Capacities, PayloadLengths, LabelLengths, MaxLabels

VARIABLES frame, layer, base, length, offset, touched, accepted, dns,
          at, capacity, out, labels, result

Parse == INSTANCE NetParse
Build == INSTANCE NetBuild

\* The slice, the cursor and the bytes touched, with their types.
ParseInv ==
  /\ frame \in FrameLengths /\ frame \in Nat
  /\ base \in Nat /\ length \in Nat /\ offset \in Nat
  /\ touched \in Nat \X Nat
  /\ Parse!StaysInsideFrame

\* A header whose length is in words.
LEMMA WordsType ==
  ASSUME Parse!FieldsAssumption, NEW w \in HeaderWords
  PROVE  w \in Nat /\ 4 * w \in Nat
BY DEF Parse!FieldsAssumption

\* A length field of the message at hand.
LEMMA ClaimType ==
  ASSUME Parse!FieldsAssumption, ParseInv, NEW n \in Claims[length]
  PROVE  n \in Nat
<1>1. length \in 0..frame
  BY DEF ParseInv, Parse!StaysInsideFrame
<1>2. Claims[length] \subseteq Nat
  BY <1>1 DEF ParseInv, Parse!FieldsAssumption
<1> QED BY <1>2

\* The headers.
LEMMA HeaderKeeps ==
  ASSUME Parse!FieldsAssumption, ParseInv,
         \/ Parse!josh_eth_parse \/ Parse!josh_arp_parse \/ Parse!josh_ipv4_parse
         \/ Parse!josh_icmp_echo_reply \/ Parse!josh_udp_parse \/ Parse!josh_tcp_parse
  PROVE  ParseInv'
<1> USE DEF ParseInv, Parse!StaysInsideFrame, Parse!Touch, Parse!Descend, Parse!Stay, Parse!Fail
<1>1. CASE Parse!josh_eth_parse
  BY <1>1 DEF Parse!josh_eth_parse
<1>2. CASE Parse!josh_arp_parse
  BY <1>2 DEF Parse!josh_arp_parse
<1>3. CASE Parse!josh_ipv4_parse
  <2>1. CASE length < 20 /\ Parse!Fail("truncated")
    BY <2>1
  <2>2. CASE length >= 20 /\ frame' = frame
             /\ \E version \in {4, 6}, ihl \in HeaderWords, total \in Claims[length] :
                  IF version # 4 \/ ihl < 5
                  THEN Parse!Touch(0, 1) /\ UNCHANGED <<base, length, offset>>
                  ELSE IF 4 * ihl > length \/ ~Parse!TotalOk(total, 4 * ihl)
                  THEN Parse!Touch(0, 4) /\ UNCHANGED <<base, length, offset>>
                  ELSE /\ Parse!Touch(0, 4 * ihl)
                       /\ \/ UNCHANGED <<base, length, offset>>
                          \/ \E next \in {"udp", "tcp", "icmp"} :
                               Parse!Descend(next, 4 * ihl, total - 4 * ihl)
    <3>1. PICK version \in {4, 6}, ihl \in HeaderWords, total \in Claims[length] :
                  IF version # 4 \/ ihl < 5
                  THEN Parse!Touch(0, 1) /\ UNCHANGED <<base, length, offset>>
                  ELSE IF 4 * ihl > length \/ ~Parse!TotalOk(total, 4 * ihl)
                  THEN Parse!Touch(0, 4) /\ UNCHANGED <<base, length, offset>>
                  ELSE /\ Parse!Touch(0, 4 * ihl)
                       /\ \/ UNCHANGED <<base, length, offset>>
                          \/ \E next \in {"udp", "tcp", "icmp"} :
                               Parse!Descend(next, 4 * ihl, total - 4 * ihl)
      BY <2>2
    <3>2. ihl \in Nat /\ 4 * ihl \in Nat /\ total \in Nat
      BY WordsType, ClaimType
    <3> QED BY <2>2, <3>1, <3>2 DEF Parse!TotalOk
  <2> QED BY <1>3, <2>1, <2>2, Zenon DEF Parse!josh_ipv4_parse
<1>4. CASE Parse!josh_icmp_echo_reply
  BY <1>4 DEF Parse!josh_icmp_echo_reply
<1>5. CASE Parse!josh_udp_parse
  BY <1>5, ClaimType DEF Parse!josh_udp_parse
<1>6. CASE Parse!josh_tcp_parse
  BY <1>6, WordsType DEF Parse!josh_tcp_parse
<1> QED BY <1>1, <1>2, <1>3, <1>4, <1>5, <1>6, Zenon

\* The DHCP options.
LEMMA DhcpKeeps ==
  ASSUME Parse!FieldsAssumption, ParseInv,
         Parse!DhcpFixed \/ Parse!DhcpOption \/ Parse!DhcpEnd
  PROVE  ParseInv'
<1> USE DEF ParseInv, Parse!StaysInsideFrame, Parse!Touch, Parse!Stay, Parse!Fail
<1>1. CASE Parse!DhcpFixed
  BY <1>1 DEF Parse!DhcpFixed
<1>2. CASE Parse!DhcpOption
  <2>1. \A n \in OptionLengths : n \in Nat
    BY DEF Parse!FieldsAssumption
  <2>2. /\ Parse!Stay /\ offset < length
        /\ \/ Parse!Touch(offset, 1) /\ (offset' = offset \/ offset' = offset + 1)
           \/ Parse!Touch(offset, 2) /\ offset + 1 < length /\ offset' = offset
           \/ \E code \in Parse!OptionCodes, n \in OptionLengths :
                /\ Parse!OptionFits(n) /\ offset + 1 < length
                /\ Parse!Touch(offset, 2 + Parse!ValueRead(code, n))
                /\ offset' = offset + 2 + n
    BY <1>2, Zenon DEF Parse!DhcpOption
  <2>3. \A code \in Parse!OptionCodes, n \in OptionLengths :
          Parse!ValueRead(code, n) \in Nat /\ Parse!ValueRead(code, n) <= n
    BY <2>1 DEF Parse!ValueRead
  <2> QED BY <2>1, <2>2, <2>3 DEF Parse!OptionFits
<1>3. CASE Parse!DhcpEnd
  BY <1>3 DEF Parse!DhcpEnd
<1> QED BY <1>1, <1>2, <1>3

\* What a turn of dns_skip_name does to the cursor.
LEMMA LabelMoves ==
  ASSUME Parse!DnsLabel
  PROVE  /\ Parse!Stay
         /\ \/ UNCHANGED <<offset, touched>>
            \/ /\ offset < length
               /\ \/ Parse!Touch(offset, 1) /\ (offset' = offset \/ offset' = offset + 1)
                  \/ offset + 1 < length /\ Parse!Touch(offset, 2) /\ offset' = offset + 2
                  \/ \E size \in LabelSizes :
                       /\ ~(size > length - (offset + 1))
                       /\ Parse!Touch(offset, 1) /\ offset' = offset + 1 + size
BY Zenon DEF Parse!DnsLabel, Parse!PointerSkipped, Parse!Fail, Parse!Stay

\* The same for the fields after the name of an answer.
LEMMA AnswerMoves ==
  ASSUME Parse!DnsAnswer
  PROVE  /\ Parse!Stay
         /\ \/ UNCHANGED <<offset, touched>>
            \/ /\ ~(length - offset < 10)
               /\ \/ Parse!Touch(offset, 10) /\ offset' = offset
                  \/ \E rdlength \in RdLengths :
                       /\ Parse!RdataFits(rdlength)
                       /\ \/ rdlength = 4 /\ Parse!Touch(offset, 14) /\ offset' = offset
                          \/ Parse!Touch(offset, 10) /\ offset' = offset + 10 + rdlength
BY Zenon DEF Parse!DnsAnswer

\* The DNS records.
LEMMA DnsKeeps ==
  ASSUME Parse!FieldsAssumption, ParseInv,
         Parse!DnsFixed \/ Parse!DnsLabel \/ Parse!DnsQuestion \/ Parse!DnsAnswer
  PROVE  ParseInv'
<1>1. CASE Parse!DnsFixed
  <2>1. /\ Parse!Stay
        /\ \/ UNCHANGED <<offset, touched>>
           \/ length >= 12 /\ Parse!Touch(0, 12) /\ (offset' = offset \/ offset' = 12)
    BY <1>1, Zenon DEF Parse!DnsFixed, Parse!Fail, Parse!Stay
  <2> QED BY <2>1 DEF Parse!Stay, Parse!Touch, ParseInv, Parse!StaysInsideFrame
<1>2. CASE Parse!DnsLabel
  <2>1. \A n \in LabelSizes : n \in Nat
    BY DEF Parse!FieldsAssumption
  <2> QED BY <1>2, <2>1, LabelMoves
          DEF Parse!Stay, Parse!Touch, ParseInv, Parse!StaysInsideFrame
<1>3. CASE Parse!DnsQuestion
  <2>1. /\ Parse!Stay /\ UNCHANGED touched
        /\ offset' = offset \/ (~(length - offset < 4) /\ offset' = offset + 4)
    BY <1>3, Zenon DEF Parse!DnsQuestion
  <2> QED BY <2>1 DEF Parse!Stay, ParseInv, Parse!StaysInsideFrame
<1>4. CASE Parse!DnsAnswer
  <2>1. \A n \in RdLengths : n \in Nat
    BY DEF Parse!FieldsAssumption
  <2> QED BY <1>4, <2>1, AnswerMoves
          DEF Parse!RdataFits, Parse!Stay, Parse!Touch, ParseInv, Parse!StaysInsideFrame
<1> QED BY <1>1, <1>2, <1>3, <1>4

\* Safety.  The parsers only touch bytes of the frame, hand on slices of it and
\* keep their cursor in it, for frames of any length and whatever the length
\* fields, options, labels and records in it say.
THEOREM ParsersStayInside ==
  ASSUME Parse!FieldsAssumption
  PROVE  Parse!Spec => []Parse!StaysInsideFrame
<1>1. Parse!Init => ParseInv
  BY DEF Parse!Init, Parse!FieldsAssumption, ParseInv, Parse!StaysInsideFrame
<1>2. ParseInv /\ [Parse!Next]_(Parse!vars) => ParseInv'
  <2> SUFFICES ASSUME ParseInv, [Parse!Next]_(Parse!vars) PROVE ParseInv'
    OBVIOUS
  <2>1. CASE UNCHANGED Parse!vars
    BY <2>1 DEF Parse!vars, ParseInv, Parse!StaysInsideFrame
  <2> QED BY <2>1, HeaderKeeps, DhcpKeeps, DnsKeeps DEF Parse!Next
<1>3. ParseInv => Parse!StaysInsideFrame
  BY DEF ParseInv
<1> QED BY <1>1, <1>2, <1>3, PTL DEF Parse!Spec

-----------------------------------------------------------------------------
\* What a builder has written and returns so far.
BuildInv ==
  /\ capacity \in Nat /\ out \in Nat
  /\ at = "start" => out = 0
  /\ Build!WritesFit

\* Every step of a builder keeps it.
LEMMA BuildKeeps ==
  ASSUME Build!LengthsAssumption, BuildInv, [Build!Next]_(Build!vars)
  PROVE  BuildInv'
<1> USE DEF BuildInv, Build!WritesFit, Build!Return, Build!Write
<1>1. ASSUME NEW p \in PayloadLengths,
             Build!josh_eth_build(p) \/ Build!josh_ipv4_build(p) \/ Build!josh_udp_build_ipv4(p)
      PROVE  BuildInv'
  <2>1. p \in Nat
    BY DEF Build!LengthsAssumption
  <2> QED BY <1>1, <2>1 DEF Build!josh_eth_build, Build!josh_ipv4_build,
                            Build!josh_udp_build_ipv4, Build!Once
<1>2. ASSUME NEW operation, Build!josh_arp_build_ethernet_ipv4(operation)
      PROVE  BuildInv'
  BY <1>2 DEF Build!josh_arp_build_ethernet_ipv4, Build!Once
<1>3. CASE Build!DhcpBase
  BY <1>3 DEF Build!DhcpBase
<1>4. CASE \/ Build!DhcpAddress("requested_ip", "server_id")
           \/ Build!DhcpAddress("server_id", "parameters")
  BY <1>4 DEF Build!DhcpAddress
<1>5. CASE Build!DhcpParameters
  BY <1>5 DEF Build!DhcpParameters
<1>6. CASE Build!DnsHeader
  BY <1>6 DEF Build!DnsHeader
<1>7. CASE Build!DnsLabel
  <2>1. \A n \in LabelLengths : n \in Nat
    BY DEF Build!LengthsAssumption
  <2> QED BY <1>7, <2>1 DEF Build!DnsLabel, Build!LabelFits
<1>8. CASE UNCHANGED Build!vars
  BY <1>8 DEF Build!vars
<1> QED BY <1>1, <1>2, <1>3, <1>4, <1>5, <1>6, <1>7, <1>8, Zenon DEF Build!Next

\* Safety.  No builder writes past a buffer of any size, even one that gives up
\* half way, and the length it returns is what it wrote.
THEOREM BuildersFit ==
  ASSUME Build!LengthsAssumption
  PROVE  Build!Spec => []Build!WritesFit
<1>1. Build!Init => BuildInv
  BY DEF Build!Init, Build!LengthsAssumption, BuildInv, Build!WritesFit
<1>2. BuildInv => Build!WritesFit
  BY DEF BuildInv
<1> QED BY <1>1, <1>2, BuildKeeps, PTL DEF Build!Spec
=============================================================================
