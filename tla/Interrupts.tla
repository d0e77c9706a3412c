------------------------------ MODULE Interrupts ------------------------------
(***************************************************************************)
(* Hardware interrupts and timers of one x86_64 core:                      *)
(* hal-x86_64/src/interrupt.rs (Controller, isr), interrupt/pic.rs,        *)
(* interrupt/apic/local.rs, interrupt/apic/ioapic.rs, time/pit.rs and      *)
(* src/arch/x86_64/interrupt.rs.                                           *)
(*                                                                         *)
(* The kernel boots one core (bringup_smp starts no other).  Its code runs *)
(* between interrupts; a handler interrupts it between any two steps while *)
(* the interrupt flag is set, runs with the flag cleared and returns.      *)
(* Register values, vectors and durations are left out, except whether a   *)
(* duration fits.  PIT and the I/O APICs have locks that no handler takes; *)
(* on one core nobody ever waits for them.                                 *)
(***************************************************************************)
EXTENDS Naturals

CONSTANTS Models,    \* the interrupt models that ACPI may report: "Pic", "Apic"
          ATTEMPTS,  \* of calibrate_frequency_hz_pit
          MayCall    \* what the kernel calls once it has booted

Isa == {"PIT", "KBD"}    \* IsaInterrupt: the two that have handlers
Irqs == Isa \cup {"TIMER"}  \* and the local APIC's timer
ClockMod == 4             \* IDIOTIC_CLOCK_TICKS is kept modulo 4: only its steps matter

VARIABLES
  model,     \* InterruptModel
  pc,        \* what the interrupted code does next
  attempt,   \* attempts that calibration has made
  enabled,   \* the interrupt flag
  halted,    \* hlt
  remapped,  \* the PICs' vectors are clear of the exceptions'
  ready,     \* INTERRUPT_CONTROLLER is initialised
  lapic,     \* the RefCell with the local APIC: "None", "borrowed" or "Some"
  lock,      \* the lock of the PICs
  masked,    \* ISA interrupts that are masked
  pending,   \* interrupts that wait to be delivered
  serving,   \* interrupts that have had no end-of-interrupt
  handler,   \* the handler that runs, "none"
  hpc,       \* its place
  sleeping,  \* SLEEPING
  pit,       \* channel 0: as the firmware left it, "Interrupt" (armed), "done", "SquareWave"
  interval,  \* channel0_interval is Some
  lvt,       \* the local APIC's timer: "masked", "OneShot", "Periodic"
  calibrated,\* timer_calibration is Some
  ticks      \* IDIOTIC_CLOCK_TICKS

cpu == <<enabled, halted>>
ctrl == <<remapped, ready, lapic, lock, masked>>
irqs == <<pending, serving, handler, hpc>>
timers == <<sleeping, pit, interval, lvt, calibrated, ticks>>
vars == <<model, pc, attempt, cpu, ctrl, irqs, timers>>

(* arch_entry has executed cli, Controller::init has loaded the IDT. *)
Init ==
  /\ model \in Models
  /\ pc = "remap" /\ attempt = 0
  /\ enabled = FALSE /\ halted = FALSE
  /\ remapped = FALSE /\ ready = FALSE /\ lapic = "None" /\ lock = FALSE
  /\ masked \in SUBSET Isa
  /\ pending = {} /\ serving = {} /\ handler = "none" /\ hpc = "none"
  /\ sleeping = FALSE /\ pit = "firmware" /\ interval = FALSE
  /\ lvt = "masked" /\ calibrated = FALSE /\ ticks = 0

(* The interrupted code takes a step, unless a handler runs or it is halted. *)
Step(from, to) ==
  /\ handler = "none" /\ ~halted
  /\ pc = from /\ pc' = to
  /\ UNCHANGED <<model, irqs>>

Pic == model = "Pic"

-----------------------------------------------------------------------------
(* Controller::enable_hardware_interrupts *)

(* CascadedPic::set_irq_address, in either model. *)
Remap ==
  /\ Step("remap", IF Pic THEN "enable" ELSE "disable")
  /\ remapped' = TRUE
  /\ UNCHANGED <<attempt, cpu, ready, lapic, lock, masked, timers>>

(* CascadedPic::disable, and IoApicSet::new: all entries are masked. *)
ConfigureIoApics ==
  /\ Step("disable", "lapic")
  /\ masked' = Isa
  /\ UNCHANGED <<attempt, cpu, remapped, ready, lapic, lock, timers>>

(* Handle::initialize: borrow_mut, then LocalApic::new and enable; it does   *)
(* nothing when the slot is taken already.                                   *)
Borrow(from, to) ==
  /\ Step(from, to)
  /\ lapic' = "borrowed"
  /\ UNCHANGED <<attempt, cpu, remapped, ready, lock, masked, timers>>

SetLocalApic(from, to) ==
  /\ Step(from, to)
  /\ lapic' = "Some"
  /\ UNCHANGED <<attempt, cpu, remapped, ready, lock, masked, timers>>

(* CascadedPic::enable *)
EnablePics ==
  /\ Step("enable", "init")
  /\ masked' = {}
  /\ UNCHANGED <<attempt, cpu, remapped, ready, lapic, lock, timers>>

(* INTERRUPT_CONTROLLER.init *)
InitController ==
  /\ Step("init", "sti")
  /\ ready' = TRUE
  /\ UNCHANGED <<attempt, cpu, remapped, lapic, lock, masked, timers>>

Sti(from, to) ==
  /\ Step(from, to)
  /\ enabled' = TRUE
  /\ UNCHANGED <<attempt, halted, ctrl, timers>>

(* mask_isa_irq, unmask_isa_irq: under a lock. *)
LockCtrl(from, to) ==
  /\ Step(from, to)
  /\ ~lock /\ lock' = TRUE
  /\ UNCHANGED <<attempt, cpu, remapped, ready, lapic, masked, timers>>

SetMasked(from, to, m) ==
  /\ Step(from, to)
  /\ lock' = FALSE /\ masked' = m
  /\ UNCHANGED <<attempt, cpu, remapped, ready, lapic, timers>>

-----------------------------------------------------------------------------
(* Controller::start_periodic_timer, with the kernel's interval of 10 ms *)

(* Pit::start_periodic_timer; at boot the kernel expects it to succeed. *)
PitPeriodic(from, to) ==
  /\ IF sleeping
     THEN Step(from, IF from = "periodic" THEN "panicked" ELSE to) /\ UNCHANGED timers
     ELSE /\ Step(from, to)
          /\ interval' = TRUE /\ pit' = "SquareWave"
          /\ UNCHANGED <<sleeping, lvt, calibrated, ticks>>
  /\ UNCHANGED <<attempt, cpu, ctrl>>

(* LocalApic::calibrate_timer: each attempt starts the timer, sleeps and     *)
(* stops it again.  The count would take a minute to reach zero.             *)
Calibrate ==
  /\ ~calibrated /\ attempt < ATTEMPTS
  /\ Step("calibrate", "sleep")
  /\ lvt' = "OneShot"
  /\ UNCHANGED <<attempt, cpu, ctrl, sleeping, pit, interval, calibrated, ticks>>

StopTimer ==
  /\ Step("stopTimer", "calibrate")
  /\ attempt' = attempt + 1
  /\ lvt' = "masked"
  /\ calibrated' = (attempt' = ATTEMPTS)
  /\ UNCHANGED <<cpu, ctrl, sleeping, pit, interval, ticks>>

(* LocalApic::start_periodic_timer, configure_timer *)
ApicPeriodic ==
  /\ calibrated
  /\ Step("calibrate", "main")
  /\ lvt' = "Periodic"
  /\ UNCHANGED <<attempt, cpu, ctrl, sleeping, pit, interval, calibrated, ticks>>

-----------------------------------------------------------------------------
(* Pit::sleep_blocking, called by the calibration, which expects it to       *)
(* succeed, or later on by the kernel.                                       *)
Calibrating == ~Pic /\ ~calibrated
Failed == IF Calibrating THEN "panicked" ELSE "main"
Slept == IF Calibrating THEN "stopTimer" ELSE "main"

SetSleeping ==
  /\ \/ sleeping /\ Step("sleep", Failed)
     \/ ~sleeping /\ Step("sleep", "arm")
  /\ sleeping' = TRUE
  /\ UNCHANGED <<attempt, cpu, ctrl, pit, interval, lvt, calibrated, ticks>>

(* Pit::interrupt_in: only durations that fit the divisor (10 ms does). *)
Arm ==
  /\ \/ Step("arm", "load") /\ pit' = "Interrupt"
     \/ ~Calibrating /\ Step("arm", "main") /\ UNCHANGED pit
  /\ UNCHANGED <<attempt, cpu, ctrl, sleeping, interval, lvt, calibrated, ticks>>

Load ==
  /\ Step("load", IF sleeping THEN "wait" ELSE "woken")
  /\ UNCHANGED <<attempt, cpu, ctrl, timers>>

(* cpu::wait_for_interrupt: sti, hlt *)
WaitForInterrupt(from, to) ==
  /\ Step(from, to)
  /\ enabled' = TRUE /\ halted' = TRUE
  /\ UNCHANGED <<attempt, ctrl, timers>>

(* Back to periodic mode, if channel 0 was in it. *)
Restore ==
  \/ interval /\ PitPeriodic("woken", Slept)
  \/ ~interval /\ Step("woken", Slept) /\ UNCHANGED <<attempt, cpu, ctrl, timers>>

-----------------------------------------------------------------------------
(* What the kernel may call once it has booted. *)
Call(op, to) ==
  /\ op \in MayCall
  /\ Step("main", to)
  /\ UNCHANGED <<attempt, cpu, ctrl, timers>>

(* mutant of Cli: interrupts stay enabled *)
CliLeftOut ==
  /\ Step("cli", IF Pic THEN "drop" ELSE "borrow")
  /\ UNCHANGED <<attempt, cpu, ctrl, timers>>

(* disable_scoped; initialize_local_apic is an error without an APIC. *)
Cli ==
  /\ Step("cli", IF Pic THEN "drop" ELSE "borrow")
  /\ enabled' = FALSE
  /\ UNCHANGED <<attempt, halted, ctrl, timers>>

Boot ==
  \/ Remap \/ ConfigureIoApics \/ EnablePics \/ InitController
  \/ Borrow("lapic", "enableLapic") \/ SetLocalApic("enableLapic", "init")
  \/ Sti("sti", "unmaskPIT")
  \/ LockCtrl("unmaskPIT", "setPIT") \/ SetMasked("setPIT", "unmaskKBD", masked \ {"PIT"})
  \/ LockCtrl("unmaskKBD", "setKBD")
  \/ SetMasked("setKBD", IF Pic THEN "periodic" ELSE "calibrate", masked \ {"KBD"})

(* Controller::start_periodic_timer, which the kernel calls next. *)
StartTimer == PitPeriodic("periodic", "main") \/ Calibrate \/ StopTimer \/ ApicPeriodic

Sleep == SetSleeping \/ Arm \/ Load \/ WaitForInterrupt("wait", "load") \/ Restore

Main ==
  \/ WaitForInterrupt("main", "main")
  \/ Call("sleep", "sleep")
  \/ Call("start", IF Pic THEN "restart" ELSE "calibrate") \/ PitPeriodic("restart", "main")
  \/ Call("mask", "mask") \/ LockCtrl("mask", "setMask")
  \/ \E irq \in Isa : SetMasked("setMask", "main", masked \cup {irq})
  \/ \E irq \in Isa : SetMasked("setMask", "main", masked \ {irq})
  \/ Call("initialize", "cli") \/ Cli
  \/ Borrow("borrow", "bail") \/ SetLocalApic("bail", "drop") \/ Sti("drop", "main")

-----------------------------------------------------------------------------
(* Devices and the processor *)

(* A PIC keeps what arrives while it is masked, an I/O APIC does not; and    *)
(* what the PICs keep does not reach a core that uses the APICs.             *)
Raise(irq) ==
  pending' = IF ~Pic /\ (irq \in masked \/ ~ready) THEN pending ELSE pending \cup {irq}

(* Channel 0 reaches its count; the keyboard has a key; the local APIC's     *)
(* periodic timer expires.                                                   *)
Device ==
  /\ \/ pit \in {"firmware", "SquareWave", "Interrupt"} /\ Raise("PIT")
        /\ pit' = IF pit = "Interrupt" THEN "done" ELSE pit
     \/ Raise("KBD") /\ UNCHANGED pit
     \/ lvt = "Periodic" /\ Raise("TIMER") /\ UNCHANGED pit
  /\ UNCHANGED <<model, pc, attempt, cpu, ctrl, serving, handler, hpc,
                 sleeping, interval, lvt, calibrated, ticks>>

(* The processor delivers an interrupt that is not masked.  Without an end   *)
(* of the last one no other is delivered.                                    *)
Deliver(irq) ==
  /\ enabled /\ handler = "none" /\ serving = {}
  /\ irq \in pending \ masked
  /\ pending' = pending \ {irq} /\ serving' = {irq}
  /\ handler' = irq /\ hpc' = "entry"
  /\ enabled' = FALSE /\ halted' = FALSE
  /\ UNCHANGED <<model, pc, attempt, ctrl, timers>>

(* isr::pit_timer (Pit::handle_interrupt), isr::apic_timer, isr::keyboard   *)
(* (see Keyboard) and InterruptHandlers::timer_tick.                        *)
Ticks(irq) == irq = "TIMER" \/ (irq = "PIT" /\ sleeping)

Handle ==
  /\ hpc = "entry" /\ hpc' = "eoi"
  /\ sleeping' = (sleeping /\ handler # "PIT")
  /\ ticks' = IF Ticks(handler) THEN (ticks + 1) % ClockMod ELSE ticks
  /\ UNCHANGED <<model, pc, attempt, cpu, ctrl, pending, serving, handler,
                 pit, interval, lvt, calibrated>>

(* Controller::end_isa_irq, and the iret.  The PICs are behind a spinlock;   *)
(* an APIC that is not there, or is borrowed mutably, is a panic.            *)
EndInterrupt ==
  /\ hpc = "eoi" /\ ready
  /\ IF Pic THEN ~lock ELSE lapic = "Some"
  /\ serving' = {} /\ handler' = "none" /\ hpc' = "none"
  /\ enabled' = TRUE
  /\ UNCHANGED <<model, pc, attempt, halted, ctrl, pending, timers>>

Next ==
  \/ Boot \/ StartTimer \/ Sleep \/ Main \/ Device
  \/ \E irq \in Irqs : Deliver(irq)
  \/ Handle \/ EndInterrupt

Spec == Init /\ [][Next]_vars

-----------------------------------------------------------------------------
(* interrupt.rs:358-364, local.rs:33-40: "the ISR tries to actually send an  *)
(* EOI to ack it, it dereferences uninitialized memory", "may result in a    *)
(* panic if an ISR attempts to borrow the local APIC immutably [...] while   *)
(* the local APIC is borrowed mutably".  Whenever a handler runs, the        *)
(* vectors are set up, the controller exists and end_isa_irq returns, with   *)
(* one exception: with PICs, the handler waits for ever for their lock if it *)
(* interrupts mask_isa_irq or unmask_isa_irq while that is locked.           *)
Masking == pc \in {"setPIT", "setKBD", "setMask"}
HandlersCanEnd ==
  handler # "none" =>
    /\ remapped /\ ready
    /\ IF Pic THEN ~lock \/ Masking ELSE lapic = "Some"

(* pit.rs:261-263: a sleep "will temporarily disable the existing periodic   *)
(* timer".  When the code that sleeps has returned, whichever interrupt it   *)
(* was that ended the sleep, or when it failed, a periodic timer that was    *)
(* started runs: channel 0's square wave, or the local APIC's.  And no call  *)
(* that the kernel expects to succeed has failed.                            *)
TimerGoesOn ==
  /\ pc = "main" => IF Pic THEN interval /\ pit = "SquareWave" ELSE lvt = "Periodic"
  /\ pc # "panicked"

(* Both: sleeps, calibration, masking and start-up interrupted anywhere.     *)
InterruptsAreServed == HandlersCanEnd /\ TimerGoesOn

Periodic == IF Pic THEN handler = "PIT" /\ pit = "SquareWave" ELSE handler = "TIMER"

(* interrupt.rs:375-376: start_periodic_timer "Starts a periodic timer which *)
(* fires the `timer_tick` interrupt of the provided [`Handlers`] every time  *)
(* `interval` elapses".                                                      *)
PeriodicTimerTicks ==
  [][Periodic /\ hpc = "entry" /\ hpc' = "eoi" => ticks' # ticks]_vars
=============================================================================
