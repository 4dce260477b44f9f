----------------------------- MODULE Interrupts -----------------------------
(***************************************************************************)
(* The interrupt path of the kernel from apic_init to the main loop of     *)
(* kernel_after_paging in main.c: the I/O APIC redirection registers, the    *)
(* local APIC, the handler table, the interval timer, the keyboard         *)
(* controller, the interrupt the processor sends to itself, and the boot   *)
(* thread that sets them up and then sleeps on the timer.                  *)
(*                                                                         *)
(* Three things run at once: the boot thread (boot, one action per place   *)
(* where the hardware or a handler can come in between), the processor     *)
(* taking an interrupt (cpu), and the devices, which are external.         *)
(***************************************************************************)
EXTENDS Integers, Sequences

CONSTANTS Platforms,       \* what ACPI and the hardware may look like
          LapicId,         \* APIC id of the boot processor
          SMP_MAX_CPUS,
          TickNs,          \* nanoseconds_per_tick
          SleepNs,         \* the 30 ms of the boot check
          MaxNs,           \* stands for UINT64_MAX
          MaxKeys,         \* bound: bytes the keyboard sends
          None

VARIABLES platform, \* acpi_platform_info_t and the wiring it describes
          boot,     \* where the boot thread is, "halted" in halt_forever
          regs,     \* redirection registers of each I/O APIC
          lapic,    \* irr and isr of the local APIC, initialised
          handlers, \* interrupts.c: handlers
          iflag,    \* the processor's interrupt flag
          cpu,      \* None, or the vector being handled and the next step
          timer,    \* ticks, deadline, before
          ps2,      \* the keyboard controller
          smp,      \* cpu_infos, ipi counts, before
          seen      \* history: lost, unhandled_count, clean
vars == <<platform, boot, regs, lapic, handlers, iflag, cpu, timer, ps2, smp, seen>>

NumbersAssumption == TickNs \in Nat \ {0} /\ SleepNs \in Nat /\ MaxNs \in Nat

TIMER_VECTOR == 32
KEYBOARD_VECTOR == 33
SMP_IPI_VECTOR == 254
Vectors == {TIMER_VECTOR, KEYBOARD_VECTOR, SMP_IPI_VECTOR}

-----------------------------------------------------------------------------
(* Redirection entries. *)

\* apic_build_redirection: the low word, or None for reserved flag values.
apic_build_redirection(vector, dest, flags, masked) ==
    IF vector < 32 \/ vector = 255 \/ dest > 255 \/ flags.polarity = 2 \/ flags.trigger = 2
    THEN None
    ELSE [low  |-> [vector |-> vector, level |-> flags.trigger = 3, masked |-> masked],
          high |-> dest]

\* acpi_resolve_isa_irq: the first override of the line wins.
acpi_resolve_isa_irq(irq) ==
    LET o == platform.overrides
        hits == {i \in DOMAIN o : o[i].irq = irq}
    IN  IF hits = {} THEN [gsi |-> irq, flags |-> [polarity |-> 0, trigger |-> 0]]
        ELSE LET first == CHOOSE i \in hits : \A j \in hits : i <= j
             IN  [gsi |-> o[first].gsi, flags |-> o[first].flags]

\* The I/O APICs that serve a global interrupt; ioapic_for_gsi takes the first.
Serving(gsi) ==
    {i \in DOMAIN platform.ioapics :
        /\ gsi >= platform.ioapics[i].gsi_base
        /\ gsi < platform.ioapics[i].gsi_base + platform.ioapics[i].count}

ioapic_for_gsi(gsi) ==
    IF Serving(gsi) = {} THEN None
    ELSE CHOOSE i \in Serving(gsi) : \A j \in Serving(gsi) : i <= j

Pin(i, gsi) == gsi - platform.ioapics[i].gsi_base

\* Register numbers are bytes.
LowReg(pin) == (16 + 2 * pin) % 256
HighReg(pin) == (LowReg(pin) + 1) % 256

\* All pins masked, as apic_init leaves them with vector 0.
Closed(vector) ==
    [i \in DOMAIN platform.ioapics |->
        [r \in UNION {{LowReg(p), HighReg(p)} : p \in 0 .. platform.ioapics[i].count - 1} |->
            IF r % 2 = 0 THEN [vector |-> vector, level |-> FALSE, masked |-> TRUE] ELSE 0]]

\* Where a line is programmed: None when no I/O APIC has the pin.
Route(irq, vector, masked) ==
    LET r == acpi_resolve_isa_irq(irq)
        i == ioapic_for_gsi(r.gsi)
        e == apic_build_redirection(vector, LapicId, r.flags, masked)
    IN  IF e = None \/ i = None THEN None
        ELSE IF Pin(i, r.gsi) > 119 THEN None
        ELSE [io |-> i, pin |-> Pin(i, r.gsi), entry |-> e]

-----------------------------------------------------------------------------
(* The hardware (external). *)

\* The redirection entry a device line is wired to.
WiredLow(irq) ==
    LET i == ioapic_for_gsi(platform.wire[irq])
    IN  regs[i][LowReg(Pin(i, platform.wire[irq]))]
WiredHigh(irq) ==
    LET i == ioapic_for_gsi(platform.wire[irq])
    IN  regs[i][HighReg(Pin(i, platform.wire[irq]))]
Wired(irq) == ioapic_for_gsi(platform.wire[irq]) # None

\* A line that rises: ignored when the pin is masked, otherwise sent to the
\* processor the entry names.
Edge(irq) ==
    IF Wired(irq) /\ ~WiredLow(irq).masked
    THEN IF WiredHigh(irq) = LapicId
         THEN /\ lapic' = [lapic EXCEPT !.irr = @ \cup {WiredLow(irq).vector}]
              /\ UNCHANGED seen
         ELSE /\ seen' = [seen EXCEPT !.lost = TRUE]
              /\ UNCHANGED lapic
    ELSE UNCHANGED <<lapic, seen>>

\* The keyboard's line: the output buffer is full and its interrupt is on.
Line(p) == p.out # None /\ p.irq1

\* The keyboard controller moves from ps2 to p and its line may rise.
Ps2Becomes(p) ==
    /\ ps2' = p
    /\ IF Line(p) /\ ~Line(ps2) THEN Edge(1) ELSE UNCHANGED <<lapic, seen>>

\* The interval timer pulses its line.
PitTick ==
    /\ Edge(0)
    /\ UNCHANGED <<platform, boot, regs, handlers, iflag, cpu, timer, ps2, smp>>

\* The keyboard hands a byte to the controller when the buffer is free.
KeyArrives ==
    /\ ps2.keys < MaxKeys /\ ps2.out = None /\ ~ps2.disabled
    /\ Ps2Becomes([ps2 EXCEPT !.out = "key", !.keys = @ + 1])
    /\ UNCHANGED <<platform, boot, regs, handlers, iflag, cpu, timer, smp>>

\* The controller takes the command or data byte from its input buffer. A read
\* of the configuration waits for the output buffer.
ControllerTakes ==
    /\ ps2.in # None
    /\ \/ /\ ps2.in = "read_config" /\ ps2.out = None
          /\ Ps2Becomes([ps2 EXCEPT !.in = None, !.out = "config"])
       \/ /\ ps2.in = "write_config"
          /\ Ps2Becomes([ps2 EXCEPT !.in = None])
       \/ /\ ps2.in = "data"
          /\ Ps2Becomes([ps2 EXCEPT !.in = None, !.irq1 = TRUE, !.disabled = FALSE])
    /\ UNCHANGED <<platform, boot, regs, handlers, iflag, cpu, timer, smp>>

\* A level-triggered pin is asserted for as long as its line is high.
LevelAsserted ==
    /\ Wired(1) /\ Line(ps2) /\ WiredLow(1).level /\ ~WiredLow(1).masked
    /\ WiredLow(1).vector \notin lapic.irr \cup lapic.isr
    /\ Edge(1)
    /\ UNCHANGED <<platform, boot, regs, handlers, iflag, cpu, timer, ps2, smp>>

-----------------------------------------------------------------------------
(* The processor takes an interrupt: entry, handler, end of interrupt. *)

\* Entry through an interrupt gate: the highest pending vector whose priority
\* class is above what is still in service; further interrupts are off.
Accept(v) ==
    /\ iflag /\ cpu = None
    /\ v \in lapic.irr
    /\ \A w \in lapic.irr : w <= v
    /\ \A w \in lapic.isr : w \div 16 < v \div 16
    /\ lapic' = [lapic EXCEPT !.irr = @ \ {v}, !.isr = @ \cup {v}]
    /\ iflag' = FALSE
    /\ cpu' = [vector |-> v, step |-> "handler"]
    /\ UNCHANGED <<platform, boot, regs, handlers, timer, ps2, smp, seen>>

\* timer_interrupt. The count stops where timer_now_ns has long saturated.
timer_interrupt ==
    /\ timer' = [timer EXCEPT !.ticks = IF @ * TickNs > MaxNs THEN @ ELSE @ + 1]
    /\ UNCHANGED <<ps2, smp, lapic, seen>>

\* A faulty variant: the handler tests the input-buffer bit of the status.
InputFullTested ==
    /\ IF ps2.in = None THEN UNCHANGED <<ps2, lapic, seen>>
       ELSE Ps2Becomes([ps2 EXCEPT !.out = None])
    /\ UNCHANGED <<timer, smp>>

\* keyboard_interrupt: an empty output buffer is a spurious interrupt;
\* otherwise the byte is read, which lowers the line. What the byte becomes is
\* the subject of KeyboardDecode and Console.
keyboard_interrupt ==
    /\ IF ps2.out = None THEN UNCHANGED <<ps2, lapic, seen>>
       ELSE Ps2Becomes([ps2 EXCEPT !.out = None])
    /\ UNCHANGED <<timer, smp>>

\* smp_ipi_interrupt: counted for the processor with the local APIC id.
smp_ipi_interrupt ==
    /\ smp' = [smp EXCEPT !.ipi_count = @ + 1]
    /\ UNCHANGED <<timer, ps2, lapic, seen>>

\* interrupt_dispatch, first half: the registered handler runs.
Dispatch ==
    /\ cpu # None /\ cpu.step = "handler"
    /\ CASE handlers[cpu.vector] = "timer" -> timer_interrupt
         [] handlers[cpu.vector] = "keyboard" -> keyboard_interrupt
         [] handlers[cpu.vector] = "ipi" -> smp_ipi_interrupt
         [] OTHER -> /\ seen' = [seen EXCEPT !.unhandled = TRUE]
                     /\ UNCHANGED <<timer, ps2, smp, lapic>>
    /\ cpu' = [cpu EXCEPT !.step = "eoi"]
    /\ UNCHANGED <<platform, boot, regs, handlers, iflag>>

\* A faulty variant: the first vector gets no end of interrupt.
EoiAbove32(v) ==
    IF v > 32 /\ v < 255 /\ lapic.initialised THEN lapic.isr \ {v} ELSE lapic.isr

\* interrupt_dispatch, second half, and apic_eoi: what is still in service.
AfterEoi(v) ==
    IF v >= 32 /\ v < 255 /\ lapic.initialised THEN lapic.isr \ {v} ELSE lapic.isr

\* End of interrupt and return: interrupts are on again, and a halted
\* processor goes on after its hlt.
Eoi ==
    /\ cpu # None /\ cpu.step = "eoi"
    /\ lapic' = [lapic EXCEPT !.isr = AfterEoi(cpu.vector)]
    /\ iflag' = TRUE
    /\ cpu' = None
    /\ boot' = IF boot = "sleep_halted" THEN "sleep_test" ELSE boot
    /\ UNCHANGED <<platform, regs, handlers, timer, ps2, smp, seen>>

-----------------------------------------------------------------------------
(* The boot thread. *)

Thread(at) == cpu = None /\ boot = at

\* halt_forever of main.c: handlers still run if interrupts are on.
Halt == boot' = "halted" /\ UNCHANGED iflag

Goto(at) == boot' = at /\ UNCHANGED iflag

Write(i, r, value) == regs' = [regs EXCEPT ![i][r] = value]

\* What apic_init requires of the platform before and while it maps it.
ApicUsable ==
    /\ platform.has_apic
    /\ Len(platform.ioapics) \in 1 .. 8
    /\ \A i \in DOMAIN platform.ioapics :
          platform.ioapics[i].aligned /\ platform.ioapics[i].count \in 1 .. 120

\* apic_init: every pin masked, then the local APIC enabled. Mapping a register
\* page may fail.
apic_init ==
    /\ Thread("apic_init")
    /\ \/ /\ ApicUsable
          /\ regs' = Closed(0)
          /\ lapic' = [lapic EXCEPT !.initialised = TRUE]
          /\ Goto("smp_init")
       \/ Halt /\ UNCHANGED <<regs, lapic>>
    /\ UNCHANGED <<platform, handlers, cpu, timer, ps2, smp, seen>>

\* smp_build_topology: no APIC id twice, the boot processor among them.
smp_build_topology(cpus) ==
    /\ Len(cpus) \in 1 .. SMP_MAX_CPUS
    /\ \A i, j \in DOMAIN cpus : cpus[i] = cpus[j] => i = j
    /\ \E i \in DOMAIN cpus : cpus[i] = LapicId

\* smp_init: topology, one stack per processor (kmalloc may fail), handler.
smp_init ==
    /\ Thread("smp_init")
    /\ \/ /\ smp_build_topology(platform.cpus)
          /\ handlers' = [handlers EXCEPT ![SMP_IPI_VECTOR] = "ipi"]
          /\ smp' = [smp EXCEPT !.ipi_count = 0]
          /\ Goto("timer_register")
       \/ Halt /\ UNCHANGED <<handlers, smp>>
    /\ UNCHANGED <<platform, regs, lapic, cpu, timer, ps2, seen>>

\* interrupts_register_handler.
Register(at, vector, handler, next) ==
    /\ Thread(at)
    /\ handlers' = [handlers EXCEPT ![vector] = handler]
    /\ Goto(next)
    /\ UNCHANGED <<platform, regs, lapic, cpu, timer, ps2, smp, seen>>

\* A faulty variant: route_gsi opens the pin with its first write.
RouteLowOpen(at, irq, vector, masked, next) ==
    /\ Thread(at)
    /\ \/ /\ Route(irq, vector, masked) # None
          /\ LET r == Route(irq, vector, masked)
             IN  Write(r.io, LowReg(r.pin), r.entry.low)
          /\ Goto(next)
       \/ /\ Route(irq, vector, masked) = None
          /\ Halt /\ UNCHANGED regs
    /\ UNCHANGED <<platform, lapic, handlers, cpu, timer, ps2, smp, seen>>

\* apic_route_isa_irq and route_gsi, first write: the low register, masked.
RouteLowMasked(at, irq, vector, masked, next) ==
    /\ Thread(at)
    /\ \/ /\ Route(irq, vector, masked) # None
          /\ LET r == Route(irq, vector, masked)
             IN  Write(r.io, LowReg(r.pin), [r.entry.low EXCEPT !.masked = TRUE])
          /\ Goto(next)
       \/ /\ Route(irq, vector, masked) = None
          /\ Halt /\ UNCHANGED regs
    /\ UNCHANGED <<platform, lapic, handlers, cpu, timer, ps2, smp, seen>>

\* route_gsi, second write: the destination.
RouteHigh(at, irq, vector, masked, next) ==
    /\ Thread(at)
    /\ LET r == Route(irq, vector, masked) IN Write(r.io, HighReg(r.pin), r.entry.high)
    /\ Goto(next)
    /\ UNCHANGED <<platform, lapic, handlers, cpu, timer, ps2, smp, seen>>

\* route_gsi, third write: the low register as asked. seen.clean records
\* whether the keyboard's line was low when its pin opened.
RouteLow(at, irq, vector, masked, next) ==
    /\ Thread(at)
    /\ LET r == Route(irq, vector, masked) IN Write(r.io, LowReg(r.pin), r.entry.low)
    /\ seen' = IF irq = 1 THEN [seen EXCEPT !.clean = ~Line(ps2)] ELSE seen
    /\ Goto(next)
    /\ UNCHANGED <<platform, lapic, handlers, cpu, timer, ps2, smp>>

\* timer_init: handler, masked route, then the count cleared and the interval
\* timer programmed, and last the pin opened by apic_set_isa_irq_mask.
timer_init ==
    \/ Register("timer_register", TIMER_VECTOR, "timer", "timer_route")
    \/ RouteLowMasked("timer_route", 0, TIMER_VECTOR, TRUE, "timer_high")
    \/ RouteHigh("timer_high", 0, TIMER_VECTOR, TRUE, "timer_low")
    \/ RouteLow("timer_low", 0, TIMER_VECTOR, TRUE, "timer_start")
    \/ /\ Thread("timer_start")
       /\ timer' = [timer EXCEPT !.ticks = 0]
       /\ Goto("timer_unmask")
       /\ UNCHANGED <<platform, regs, lapic, handlers, cpu, ps2, smp, seen>>
    \/ /\ Thread("timer_unmask")
       /\ LET r == Route(0, TIMER_VECTOR, FALSE)
          IN  regs' = [regs EXCEPT ![r.io][LowReg(r.pin)].masked = FALSE]
       /\ Goto("kb_drain")
       /\ UNCHANGED <<platform, lapic, handlers, cpu, timer, ps2, smp, seen>>

\* One turn of drain_output. The keyboard sends fewer bytes than its 32 turns.
drain_output ==
    /\ Thread("kb_drain")
    /\ IF ps2.out # None
       THEN Ps2Becomes([ps2 EXCEPT !.out = None]) /\ Goto("kb_drain")
       ELSE Goto("kb_read") /\ UNCHANGED <<ps2, lapic, seen>>
    /\ UNCHANGED <<platform, regs, handlers, cpu, timer, smp>>

\* wait_input_empty and the byte written after it. A controller that stays
\* busy ends the wait and the boot.
WriteByte(at, byte, next) ==
    /\ Thread(at)
    /\ \/ /\ ps2.in = None
          /\ ps2' = [ps2 EXCEPT !.in = byte]
          /\ Goto(next)
       \/ /\ ps2.in # None
          /\ Halt /\ UNCHANGED ps2
    /\ UNCHANGED <<platform, regs, lapic, handlers, cpu, timer, smp, seen>>

\* wait_output_full and the read of the configuration. Whatever byte is there
\* is taken for it; the bits that matter below are then set in it.
ReadConfig ==
    /\ Thread("kb_config")
    /\ \/ /\ ps2.out # None
          /\ Ps2Becomes([ps2 EXCEPT !.out = None])
          /\ Goto("kb_write")
       \/ /\ ps2.out = None
          /\ Halt /\ UNCHANGED <<ps2, lapic, seen>>
    /\ UNCHANGED <<platform, regs, handlers, cpu, timer, smp>>

keyboard_init ==
    \/ drain_output
    \/ WriteByte("kb_read", "read_config", "kb_config")
    \/ ReadConfig
    \/ WriteByte("kb_write", "write_config", "kb_data")
    \/ WriteByte("kb_data", "data", "kb_register")
    \/ Register("kb_register", KEYBOARD_VECTOR, "keyboard", "kb_route")
    \/ RouteLowMasked("kb_route", 1, KEYBOARD_VECTOR, FALSE, "kb_high")
    \/ RouteHigh("kb_high", 1, KEYBOARD_VECTOR, FALSE, "kb_low")
    \/ RouteLow("kb_low", 1, KEYBOARD_VECTOR, FALSE, "enable")

\* interrupts_enable.
interrupts_enable ==
    /\ Thread("enable")
    /\ iflag' = TRUE
    /\ boot' = "sleep_start"
    /\ UNCHANGED <<platform, regs, lapic, handlers, cpu, timer, ps2, smp, seen>>

\* timer_now_ns saturates instead of overflowing.
timer_now_ns == IF timer.ticks > MaxNs \div TickNs THEN MaxNs ELSE timer.ticks * TickNs

\* timer_sleep_ms: the deadline saturates too; then test and halt in turn. An
\* interrupt between the test and the hlt does not wake the hlt.
timer_sleep_ms ==
    /\ \/ /\ Thread("sleep_start")
          /\ timer' = [timer EXCEPT !.before = timer.ticks,
                          !.deadline = IF MaxNs - timer_now_ns < SleepNs THEN MaxNs
                                       ELSE timer_now_ns + SleepNs]
          /\ Goto("sleep_test")
       \/ /\ Thread("sleep_test")
          /\ Goto(IF timer_now_ns < timer.deadline THEN "sleep_hlt" ELSE "timer_check")
          /\ UNCHANGED timer
       \/ /\ Thread("sleep_hlt")
          /\ Goto("sleep_halted")
          /\ UNCHANGED timer
    /\ UNCHANGED <<platform, regs, lapic, handlers, cpu, ps2, smp, seen>>

\* main.c after the sleep: time must have moved.
TimerCheck ==
    /\ Thread("timer_check")
    /\ IF timer.ticks <= timer.before \/ timer_now_ns = 0 THEN Halt ELSE Goto("ipi")
    /\ UNCHANGED <<platform, regs, lapic, handlers, cpu, timer, ps2, smp, seen>>

\* smp_self_ipi_test and apic_send_ipi: the interrupt command is written once
\* its register is idle; either wait for it may end the test.
SendIpi ==
    /\ Thread("ipi")
    /\ smp' = [smp EXCEPT !.before = smp.ipi_count]
    /\ \/ Halt /\ UNCHANGED lapic
       \/ /\ lapic' = [lapic EXCEPT !.irr = @ \cup {SMP_IPI_VECTOR}]
          /\ Goto("ipi_wait") \/ Halt
    /\ UNCHANGED <<platform, regs, handlers, cpu, timer, ps2, seen>>

\* smp_self_ipi_test: the count must grow within its spins.
AwaitIpi ==
    /\ Thread("ipi_wait")
    /\ IF smp.ipi_count > smp.before THEN Goto("main") ELSE Halt
    /\ UNCHANGED <<platform, regs, lapic, handlers, cpu, timer, ps2, smp, seen>>

BootStep ==
    \/ apic_init \/ smp_init \/ timer_init \/ keyboard_init \/ interrupts_enable
    \/ timer_sleep_ms \/ TimerCheck \/ SendIpi \/ AwaitIpi

CpuStep == (\E v \in Vectors : Accept(v)) \/ Dispatch \/ Eoi

Init ==
    /\ platform \in Platforms
    /\ boot = "apic_init"
    /\ regs = Closed(48)      \* the loader's vectors, masked
    /\ lapic = [irr |-> {}, isr |-> {}, initialised |-> FALSE]
    /\ handlers = [v \in Vectors |-> None]
    /\ iflag = FALSE
    /\ cpu = None
    /\ timer = [ticks |-> 0, before |-> 0, deadline |-> 0]
    /\ \E o \in {None, "key"}, q \in BOOLEAN, d \in BOOLEAN :
          ps2 = [out |-> o, in |-> None, irq1 |-> q, disabled |-> d, keys |-> 0]
    /\ smp = [ipi_count |-> 0, before |-> 0]
    /\ seen = [lost |-> FALSE, unhandled |-> FALSE, clean |-> FALSE]

Next ==
    \/ BootStep
    \/ CpuStep
    \/ PitTick \/ KeyArrives \/ ControllerTakes \/ LevelAsserted

\* The interval timer keeps ticking, the controller answers, and the processor
\* takes what is pending. Handlers take microseconds of each 10 ms period, so
\* the interrupted boot thread, though stopped again and again, goes on: strong
\* fairness. The keyboard owes nobody a key.
Fairness ==
    /\ SF_vars(BootStep) /\ WF_vars(CpuStep)
    /\ WF_vars(PitTick) /\ WF_vars(ControllerTakes) /\ WF_vars(LevelAsserted)

Spec == Init /\ [][Next]_vars /\ Fairness

-----------------------------------------------------------------------------
(* Properties. *)

\* However the devices' edges fall between the register writes of route_gsi, an
\* interrupt is sent to the boot processor only, under a vector that has a
\* handler: no half-written redirection entry is ever open.
InterruptsReachTheirHandler == ~seen.lost /\ ~seen.unhandled

\* When the keyboard's line was low as route_gsi opened its pin, no byte is
\* ever left in the controller without an interrupt that will fetch it:
\* bytes that arrive during keyboard_interrupt and before its end of interrupt
\* included.
NoByteForgotten ==
    seen.clean /\ Line(ps2) =>
        \/ KEYBOARD_VECTOR \in lapic.irr
        \/ cpu # None /\ cpu = [vector |-> KEYBOARD_VECTOR, step |-> "handler"]
        \/ WiredLow(1).level

\* timer_sleep_ms ends: ticks between its test and its hlt, the saturation of
\* the clock and of the deadline, and keyboard interrupts do not keep it asleep.
Sleeping == boot \in {"sleep_start", "sleep_test", "sleep_hlt", "sleep_halted"}
SleepEnds == Sleeping ~> ~Sleeping

\* docs/KERNEL_ROADMAP.md: the driver "enables IRQ1 in the 8042, routes it
\* through the IOAPIC, decodes ... events and pushes them into that queue", so
\* a byte the controller holds after the boot is fetched in the end.
KeysAreFetched == (boot = "main" /\ ps2.out # None) ~> (ps2.out = None)
=============================================================================
