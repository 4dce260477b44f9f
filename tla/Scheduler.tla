----------------------------- MODULE Scheduler -----------------------------
(***************************************************************************)
(* The cooperative round-robin scheduler of the native kernel,             *)
(* kernel/src/scheduler.c with context_switch.S.                           *)
(*                                                                         *)
(* Slot 0 is bootstrap_thread and slots 1..MaxThreads are threads[].  The  *)
(* kernel runs on one processor and only the current thread calls the      *)
(* scheduler (no interrupt handler does), so each entry point is one       *)
(* action of the current thread.  What a thread computes between two calls *)
(* is left open: at any point it may create a thread, yield or return.     *)
(*                                                                         *)
(* A saved stack pointer is abstracted to whose context it holds: the      *)
(* record's owner is the id of the thread that will continue when          *)
(* context_switch restores it.  The switches statistics are left out: no   *)
(* decision of the scheduler reads them.                                   *)
(***************************************************************************)
EXTENDS Naturals, FiniteSets

CONSTANTS MaxThreads,   \* SCHEDULER_MAX_THREADS
          MaxId         \* bound on the ids handed out (next_id is 64 bits wide)

ASSUME SchedulerAssumption == MaxThreads \in Nat \ {0} /\ MaxId \in Nat

VARIABLES state,        \* state[s]: the thread_state_t of slot s
          id,           \* id[s]: the thread id stored in slot s, 0 when never used
          frame,        \* frame[s]: the context that saved_rsp of slot s points at
          current,      \* the slot of the current thread
          next_id,
          scan_cursor

vars == <<state, id, frame, current, next_id, scan_cursor>>

-----------------------------------------------------------------------------

ThreadState == {"UNUSED", "READY", "RUNNING", "DEAD"}
BootstrapId == 1
Slots       == 0..MaxThreads
SlotCount   == MaxThreads + 1

\* saved_rsp is null, a synthetic frame that enters the trampoline, or the
\* frame that context_switch pushed inside scheduler_yield.
NoFrame      == [kind |-> "none", owner |-> 0]
FreshFrame(i) == [kind |-> "fresh", owner |-> i]
SavedFrame(i) == [kind |-> "saved", owner |-> i]
Frame        == [kind : {"none", "fresh", "saved"}, owner : Nat]

-----------------------------------------------------------------------------

Init ==
  /\ state = [s \in Slots |-> IF s = 0 THEN "RUNNING" ELSE "UNUSED"]
  /\ id = [s \in Slots |-> IF s = 0 THEN BootstrapId ELSE 0]
  /\ frame = [s \in Slots |-> NoFrame]
  /\ current = 0
  /\ next_id = BootstrapId + 1
  /\ scan_cursor = 1    \* slot 0 is the running bootstrap thread

(***************************************************************************)
(* The slots whose thread scheduler_thread_info would report for id i.     *)
(* find_thread_by_id returns the first of them.                            *)
(***************************************************************************)
FindThreadById(i) ==
  IF i = BootstrapId THEN {0}
  ELSE {s \in Slots \ {0} : state[s] # "UNUSED" /\ id[s] = i}

Reusable(s) == s # 0 /\ state[s] \in {"UNUSED", "DEAD"}

\* Faulty variant: the initial stack is not prepared.
CreateKeepsFrame ==
  /\ state[current] = "RUNNING"
  /\ next_id <= MaxId
  /\ \E s \in Slots :
       /\ Reusable(s)
       /\ \A r \in Slots : Reusable(r) => s <= r
       /\ id' = [id EXCEPT ![s] = next_id]
       /\ state' = [state EXCEPT ![s] = "READY"]
  /\ next_id' = next_id + 1
  /\ UNCHANGED <<frame, current, scan_cursor>>

\* Creating a thread takes the first slot that is unused or holds a dead thread.
Create ==
  /\ state[current] = "RUNNING"
  /\ next_id <= MaxId
  /\ \E s \in Slots :
       /\ Reusable(s)
       /\ \A r \in Slots : Reusable(r) => s <= r
       /\ id' = [id EXCEPT ![s] = next_id]
       /\ state' = [state EXCEPT ![s] = "READY"]
       /\ frame' = [frame EXCEPT ![s] = FreshFrame(next_id)]
  /\ next_id' = next_id + 1
  /\ UNCHANGED <<current, scan_cursor>>

\* With a null entry, or with every slot live, the call returns 0 and changes
\* nothing.
CreateFails ==
  /\ state[current] = "RUNNING"
  /\ \E entry \in {"null", "function"} :
       entry = "null" \/ \A s \in Slots : ~Reusable(s)
  /\ UNCHANGED vars

\* The entry function returns into thread_trampoline, which marks the thread
\* dead and from then on only yields.  Bootstrap has no trampoline.
Exit ==
  /\ current # 0
  /\ state[current] = "RUNNING"
  /\ state' = [state EXCEPT ![current] = "DEAD"]
  /\ UNCHANGED <<id, frame, current, next_id, scan_cursor>>

-----------------------------------------------------------------------------

\* Faulty variant: the caller is demoted even when dead.
DemotedAlways == [state EXCEPT ![current] = "READY"]

\* The state table as scheduler_yield leaves it before it looks for a successor.
Demoted ==
  IF state[current] = "RUNNING" THEN [state EXCEPT ![current] = "READY"] ELSE state

\* Faulty variant: every scan starts at slot 0.
SlotFromZero(offset) == offset

SlotAt(offset) == (scan_cursor + offset) % SlotCount

\* next_runnable: the nearest ready slot at or after the cursor, cyclically.
NextRunnable(st, offset) ==
  /\ st[SlotAt(offset)] = "READY"
  /\ \A o \in 0..MaxThreads : o < offset => st[SlotAt(o)] # "READY"

NoneRunnable(st) == \A o \in 0..MaxThreads : st[SlotAt(o)] # "READY"

\* There is no candidate, or it is the caller itself: the caller is made
\* running, whatever its state was, and the call returns.  In the second case
\* next_runnable has moved the cursor past the caller.
YieldReturns ==
  /\ \A o \in 0..MaxThreads : NextRunnable(Demoted, o) => SlotAt(o) = current
  /\ state' = [Demoted EXCEPT ![current] = "RUNNING"]
  /\ scan_cursor' = IF NoneRunnable(Demoted) THEN scan_cursor
                    ELSE (current + 1) % SlotCount
  /\ UNCHANGED <<id, frame, current, next_id>>

\* Faulty variant: the cursor does not move.
YieldToKeepsCursor(offset) ==
  /\ NextRunnable(Demoted, offset)
  /\ SlotAt(offset) # current
  /\ state' = [Demoted EXCEPT ![SlotAt(offset)] = "RUNNING"]
  /\ current' = SlotAt(offset)
  /\ frame' = [frame EXCEPT ![current] = SavedFrame(id[current])]
  /\ UNCHANGED <<id, next_id, scan_cursor>>

\* context_switch saves the caller's context and continues the candidate's.
YieldTo(offset) ==
  /\ NextRunnable(Demoted, offset)
  /\ SlotAt(offset) # current
  /\ scan_cursor' = (SlotAt(offset) + 1) % SlotCount
  /\ state' = [Demoted EXCEPT ![SlotAt(offset)] = "RUNNING"]
  /\ current' = SlotAt(offset)
  /\ frame' = [frame EXCEPT ![current] = SavedFrame(id[current])]
  /\ UNCHANGED <<id, next_id>>

Yield == YieldReturns \/ \E offset \in 0..MaxThreads : YieldTo(offset)

Next == Create \/ CreateFails \/ Exit \/ Yield

Spec == Init /\ [][Next]_vars

\* Cooperation: a thread does not keep the processor forever, and the
\* trampoline of a dead thread does nothing but yield.
FairSpec == Spec /\ WF_vars(Yield)

-----------------------------------------------------------------------------

\* Every variable holds a value of its C type.
TypeOK ==
  /\ state \in [Slots -> ThreadState]
  /\ id \in [Slots -> Nat]
  /\ frame \in [Slots -> Frame]
  /\ current \in Slots
  /\ next_id \in Nat
  /\ scan_cursor \in Slots

\* The processor runs exactly one thread: whatever sequence of creations, exits
\* and yields came before, no slot but the current one is RUNNING, and the
\* current one is RUNNING unless its entry function has just returned.
OneRunning ==
  /\ \A s \in Slots : state[s] = "RUNNING" => s = current
  /\ state[current] \in {"RUNNING", "DEAD"}

\* Bootstrap never dies and is ready whenever another thread has the processor.
\* This is what keeps scheduler_yield from finding no candidate on behalf of a
\* dead thread.
BootstrapWaits ==
  state[0] = IF current = 0 THEN "RUNNING" ELSE "READY"

\* A ready slot can be switched to: its saved_rsp holds a context, and the
\* context belongs to the thread now in the slot, not to the dead thread whose
\* slot and stack it took over.
ReadyOwnsItsFrame ==
  \A s \in Slots :
    state[s] = "READY" => frame[s].kind # "none" /\ frame[s].owner = id[s]

\* A thread id names at most one slot, dead threads included, so that
\* scheduler_thread_info cannot report another thread; and no slot holds an id
\* that a later creation will hand out again.
IdsUnambiguous ==
  /\ \A i \in 1..next_id : \A s, r \in FindThreadById(i) : s = r
  /\ \A s \in Slots : id[s] < next_id

\* Dead threads stay dead: a slot leaves DEAD only when a creation reuses it
\* for a thread with another id, and never under the current thread's feet.
NoResurrection ==
  [][\A s \in Slots :
       state[s] = "DEAD" /\ state'[s] # "DEAD" =>
         state'[s] = "READY" /\ id'[s] # id[s] /\ s # current]_vars

\* How far the cursor still has to travel to reach slot s.
Distance(s) == (s + SlotCount - scan_cursor) % SlotCount

\* Round-robin order: every yield that passes over a waiting ready thread brings
\* the cursor strictly closer to it, so it waits for at most MaxThreads yields
\* however many threads are created meanwhile.
WaitShrinks ==
  [][\A s \in Slots :
       Yield /\ s # current /\ s # current' /\ state[s] = "READY" =>
         Distance(s)' < Distance(s)]_vars

\* Every ready thread, bootstrap included, gets the processor again: "One
\* bootstrap yield must eventually return even though both workers are still
\* runnable" (scheduler_self_test).
NoStarvation == \A s \in Slots : state[s] = "READY" ~> current = s
=============================================================================
