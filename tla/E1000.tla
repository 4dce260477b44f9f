------------------------------- MODULE E1000 -------------------------------
(***************************************************************************)
(* The network path of the kernel: the device table and statistics of      *)
(* net.c, and the e1000 driver with the two descriptor rings it shares     *)
(* with the card.                                                          *)
(*                                                                         *)
(* The driver has no interrupt: the main loop polls, and a transmission    *)
(* spins on its descriptor.  The card runs at its own speed, so a step of  *)
(* the card may come between any two accesses of the driver.  A spin loop  *)
(* is bounded: it ends when the card has set the done bit (DD), and may    *)
(* end at any moment before that, which is the time-out.  A frame is a     *)
(* number (transmit) or a model value (receive); the length and status     *)
(* tests of the code are membership in the sets given as constants.        *)
(***************************************************************************)
EXTENDS Naturals, Sequences

CONSTANTS TX_COUNT, RX_COUNT,  \* descriptors in each ring
          MaxSends,            \* bound on the calls of net_send explored
          MaxFrames,           \* bound on the frames that arrive
          Long,                \* calls whose frame exceeds the device's MTU
          Frames,              \* what may arrive from the network
          Bad,                 \* arrivals with errors, split or under 14 bytes
          Huge,                \* arrivals over the MTU but inside the buffer
          Faults,              \* set-up steps of e1000_init that can fail
          None, Busy, Empty

ASSUME E1000Assumption ==
  /\ TX_COUNT \in Nat \ {0} /\ RX_COUNT \in Nat /\ RX_COUNT >= 2
  /\ MaxSends \in Nat /\ MaxFrames \in Nat
  /\ Long \subseteq 1..MaxSends
  /\ Bad \subseteq Frames /\ Huge \subseteq Frames \ Bad
  /\ {None, Busy, Empty} \cap Frames = {} /\ Busy # Empty
  /\ None \notin Nat /\ None # "OK"
  /\ Faults \cap {"net_self_test", "e1000_init", "idle", "tx_wait", "tx_sent",
                  "poll", "test", "deliver", "clear", "give_back"} = {}

VARIABLES
  phase,                        \* "boot", "running" or "halted"
  devices, stats,               \* net.c: table and counters
  tx_ring, tx_next, rx_ring, rx_next,   \* driver's side of the rings
  tdh, tdt, rdh, rdt,           \* head and tail registers of the card
  pc, cur, answer,              \* the call in progress and the last poll's end
  calls, results,               \* calls of net_send so far and their results
  arrived, wire                 \* frames that came and frames that went out

netVars == <<devices, stats>>
txVars == <<tx_ring, tx_next, tdh, tdt, wire>>
rxVars == <<rx_ring, rx_next, rdh, rdt, arrived>>
callVars == <<calls, results>>
vars == <<phase, netVars, txVars, rxVars, callVars, pc, cur, answer>>

Tx == 0..(TX_COUNT - 1)
Rx == 0..(RX_COUNT - 1)

\* One more in each of the named counters.
Count(names) ==
  [n \in DOMAIN stats |-> IF n \in names THEN stats[n] + 1 ELSE stats[n]]

-----------------------------------------------------------------------------
\* Start of the kernel: memory is zeroed and the card is off.
Init ==
  /\ phase = "boot"
  /\ devices = <<>>
  /\ stats = [transmitted |-> 0, received |-> 0, dropped |-> 0]
  /\ tx_ring = [i \in Tx |-> [dd |-> FALSE, frame |-> None]]
  /\ rx_ring = [i \in Rx |-> [dd |-> FALSE, frame |-> None]]
  /\ tx_next = 0 /\ rx_next = 0
  /\ tdh = 0 /\ tdt = 0 /\ rdh = 0 /\ rdt = 0
  /\ pc = "net_self_test" /\ cur = None /\ answer = Empty
  /\ calls = 0 /\ results = [c \in 1..MaxSends |-> None]
  /\ arrived = 0 /\ wire = <<>>

\* net_self_test: net_init, then one frame through the loopback device.  Its
\* receiver is taken away again, and nothing else calls net_set_receiver: from
\* here on frames that are received are counted and go no further.
NetSelfTest ==
  /\ pc = "net_self_test"
  /\ devices' = <<"loopback">>
  /\ stats' = [transmitted |-> 1, received |-> 1, dropped |-> 0]
  /\ pc' = "e1000_init"
  /\ UNCHANGED <<phase, txVars, rxVars, callVars, cur, answer>>

\* e1000_init with setup_rings and net_register_device.  A step that fails ends
\* the boot in halt_forever.
E1000Fails(fault) ==
  /\ pc = "e1000_init"
  /\ phase' = "halted"
  /\ pc' = fault
  /\ UNCHANGED <<netVars, txVars, rxVars, callVars, cur, answer>>

E1000Init ==
  /\ pc = "e1000_init"
  /\ tx_ring' = [i \in Tx |-> [tx_ring[i] EXCEPT !.dd = TRUE]]
  /\ rdt' = RX_COUNT - 1
  /\ devices' = Append(devices, "e1000")
  /\ phase' = "running"
  /\ pc' = "idle"
  /\ UNCHANGED <<stats, tx_next, tdh, tdt, wire, rx_ring, rx_next, rdh,
                 arrived, callVars, cur, answer>>

-----------------------------------------------------------------------------
\* net_send to the loopback device: transmit is net_receive.
SendLoopback ==
  /\ pc = "idle"
  /\ calls < MaxSends
  /\ calls' = calls + 1
  /\ IF calls + 1 \in Long
     THEN /\ stats' = Count({"dropped"})
          /\ results' = [results EXCEPT ![calls + 1] = "FRAME_TOO_LARGE"]
     ELSE /\ stats' = Count({"received", "transmitted"})
          /\ results' = [results EXCEPT ![calls + 1] = "LOOPED"]
  /\ UNCHANGED <<phase, devices, txVars, rxVars, pc, cur, answer>>

\* net_send to the e1000, up to the first spin loop of e1000_transmit.
SendTooLarge ==
  /\ pc = "idle"
  /\ calls < MaxSends
  /\ calls' = calls + 1
  /\ calls + 1 \in Long
  /\ stats' = Count({"dropped"})
  /\ results' = [results EXCEPT ![calls + 1] = "FRAME_TOO_LARGE"]
  /\ UNCHANGED <<phase, devices, txVars, rxVars, pc, cur, answer>>

Send ==
  /\ pc = "idle"
  /\ calls < MaxSends
  /\ calls' = calls + 1
  /\ calls + 1 \notin Long
  /\ pc' = "tx_wait"
  /\ UNCHANGED <<phase, netVars, txVars, rxVars, results, cur, answer>>

\* The call returns to net_send, which counts it.
Return(result) ==
  /\ results' = [results EXCEPT ![calls] = result]
  /\ stats' = Count({IF result = "OK" THEN "transmitted" ELSE "dropped"})
  /\ pc' = "idle"
  /\ UNCHANGED <<phase, devices, calls, rxVars, cur, answer>>

\* The descriptor is still the card's when the spin loop ends.
TxRefuse ==
  /\ pc = "tx_wait"
  /\ ~tx_ring[tx_next].dd
  /\ Return("BUSY")
  /\ UNCHANGED txVars

\* Faulty variant: the tail is not advanced.
TxQueueKeepsTail ==
  /\ pc = "tx_wait"
  /\ tx_ring[tx_next].dd
  /\ tx_ring' = [tx_ring EXCEPT ![tx_next] = [dd |-> FALSE, frame |-> calls]]
  /\ tx_next' = (tx_next + 1) % TX_COUNT
  /\ tdt' = tx_next
  /\ pc' = "tx_sent"
  /\ UNCHANGED <<phase, netVars, rxVars, callVars, tdh, wire, cur, answer>>

\* The frame is copied, the descriptor handed over and the tail advanced.
TxQueue ==
  /\ pc = "tx_wait"
  /\ tx_ring[tx_next].dd
  /\ tx_ring' = [tx_ring EXCEPT ![tx_next] = [dd |-> FALSE, frame |-> calls]]
  /\ tx_next' = (tx_next + 1) % TX_COUNT
  /\ tdt' = (tx_next + 1) % TX_COUNT
  /\ pc' = "tx_sent"
  /\ UNCHANGED <<phase, netVars, rxVars, callVars, tdh, wire, cur, answer>>

\* Faulty variant: waits for the descriptor that tx_next names by now.
TxReturnByNext ==
  /\ pc = "tx_sent"
  /\ Return(IF tx_ring[tx_next].dd THEN "OK" ELSE "TIMEOUT")
  /\ UNCHANGED txVars

\* The second spin loop waits for the descriptor just queued.
TxReturn ==
  /\ pc = "tx_sent"
  /\ Return(IF tx_ring[(tx_next + TX_COUNT - 1) % TX_COUNT].dd
            THEN "OK" ELSE "TIMEOUT")
  /\ UNCHANGED txVars

-----------------------------------------------------------------------------
\* e1000_poll: one pass of its loop is Load, Test, Deliver, Clear, GiveBack.
PollLoad ==
  /\ pc \in {"idle", "poll"}
  /\ pc' = "test"
  /\ answer' = Busy
  /\ UNCHANGED <<phase, netVars, txVars, rxVars, callVars, cur>>

PollTest ==
  /\ pc = "test"
  /\ IF rx_ring[rx_next].dd
     THEN pc' = "deliver" /\ cur' = rx_ring[rx_next].frame /\ UNCHANGED answer
     ELSE pc' = "idle" /\ answer' = Empty /\ UNCHANGED cur
  /\ UNCHANGED <<phase, netVars, txVars, rxVars, callVars>>

\* net_receive, for a whole frame without errors.
PollDeliver ==
  /\ pc = "deliver"
  /\ stats' = IF cur \in Bad THEN stats
              ELSE Count({IF cur \in Huge THEN "dropped" ELSE "received"})
  /\ pc' = "clear"
  /\ UNCHANGED <<phase, devices, txVars, rxVars, callVars, cur, answer>>

\* Faulty variant: the done bit of a consumed descriptor stays set.
PollKeepsDone ==
  /\ pc = "clear"
  /\ pc' = "give_back"
  /\ UNCHANGED <<phase, netVars, txVars, rxVars, callVars, cur, answer>>

PollClear ==
  /\ pc = "clear"
  /\ rx_ring' = [rx_ring EXCEPT ![rx_next].dd = FALSE]
  /\ pc' = "give_back"
  /\ UNCHANGED <<phase, netVars, txVars, rx_next, rdh, rdt, arrived, callVars, cur, answer>>

PollGiveBack ==
  /\ pc = "give_back"
  /\ rdt' = rx_next
  /\ rx_next' = (rx_next + 1) % RX_COUNT
  /\ answer' = cur
  /\ pc' = "poll"
  /\ UNCHANGED <<phase, netVars, txVars, rx_ring, rdh, arrived, callVars, cur>>

-----------------------------------------------------------------------------
\* The card (external): it owns the descriptors from head up to the tail, sends
\* one or fills one, sets its done bit and advances the head.  Head = tail means
\* that it owns none.
CardSends ==
  /\ phase = "running"
  /\ tdh # tdt
  /\ wire' = Append(wire, tx_ring[tdh].frame)
  /\ tx_ring' = [tx_ring EXCEPT ![tdh].dd = TRUE]
  /\ tdh' = (tdh + 1) % TX_COUNT
  /\ UNCHANGED <<phase, netVars, tx_next, tdt, rxVars, callVars, pc, cur, answer>>

CardReceives(f) ==
  /\ phase = "running"
  /\ arrived < MaxFrames
  /\ arrived' = arrived + 1
  /\ IF rdh = rdt
     THEN UNCHANGED <<rx_ring, rdh>>
     ELSE /\ rx_ring' = [rx_ring EXCEPT ![rdh] = [dd |-> TRUE, frame |-> f]]
          /\ rdh' = (rdh + 1) % RX_COUNT
  /\ UNCHANGED <<phase, netVars, txVars, rx_next, rdt, callVars, pc, cur, answer>>

-----------------------------------------------------------------------------
Transmit == TxRefuse \/ TxQueue \/ TxReturn
Poll == PollLoad \/ PollTest \/ PollDeliver \/ PollClear \/ PollGiveBack

Next ==
  \/ NetSelfTest \/ E1000Init \/ \E fault \in Faults : E1000Fails(fault)
  \/ SendLoopback \/ SendTooLarge \/ Send \/ Transmit
  \/ Poll
  \/ CardSends \/ \E f \in Frames : CardReceives(f)
  \/ phase = "halted" /\ UNCHANGED vars

\* The spin loops are bounded and the main loop polls again and again; a card
\* that owns a descriptor sends it sooner or later.
Spec ==
  /\ Init /\ [][Next]_vars
  /\ WF_vars(Transmit) /\ WF_vars(Poll) /\ WF_vars(CardSends)

-----------------------------------------------------------------------------
Sent(c) == \E i \in DOMAIN wire : wire[i] = c

\* What net_send reports of a frame is true of the wire: "ok" only for a frame
\* that has left, a refused or too large frame never leaves, no frame leaves
\* twice or before an earlier one.  A frame reported as dropped after the second
\* time-out may still leave, once.
ResultMatchesWire ==
  /\ \A c \in 1..calls : results[c] = "OK" => Sent(c)
  /\ \A c \in 1..calls : Sent(c) => results[c] \in {"OK", "TIMEOUT", None}
  /\ \A i, j \in DOMAIN wire : i < j => wire[i] < wire[j]

\* The last TX_COUNT frames handed to the card all timed out and are all unsent:
\* the tail has come round to the head.
RingLooksEmpty ==
  /\ tdh = tdt
  /\ \A i \in Tx : /\ ~tx_ring[i].dd /\ tx_ring[i].frame # None
                  /\ results[tx_ring[i].frame] \in {"TIMEOUT", None}

\* A queued frame leaves, whatever e1000_transmit has reported, unless as many
\* sends in a row as there are descriptors have timed out with nothing sent.
QueuedIsSent ==
  \A c \in 1..MaxSends :
    (\E i \in Tx : tx_ring[i] = [dd |-> FALSE, frame |-> c])
      ~> (Sent(c) \/ RingLooksEmpty)

\* The receive ring between the card and e1000_poll.
Contents ==
  [i \in 1..((rdh + RX_COUNT - rx_next) % RX_COUNT) |->
     rx_ring[(rx_next + i - 1) % RX_COUNT].frame]

\* The receive ring is a first-in first-out buffer of RX_COUNT - 1 frames: what
\* the card has filled is seen by e1000_poll in order and once, and the end of a
\* poll means that nothing was waiting.
Fifo == INSTANCE BoundedFifo
          WITH Events <- Frames, Bound <- RX_COUNT - 1, buffer <- Contents,
               dropped <- 0

RxImplementsFifo == Fifo!Spec
=============================================================================
