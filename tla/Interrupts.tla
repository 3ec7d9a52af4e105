----------------------------- MODULE Interrupts -----------------------------
(***************************************************************************)
(* The interrupts of the HAL: the table alt_irq of handlers and contexts,  *)
(* the enable bits of the processor, the calls that change them, and how an*)
(* interrupt reaches its handler, through the vector table (this build) or *)
(* through handle_trap and alt_irq_handler (direct mode).                  *)
(*                                                                         *)
(* The program is interrupted between any two steps while mstatus.MIE is   *)
(* set; a handler is not. An interrupt is named by its mcause code: 3 the  *)
(* software interrupt, 7 the timer, 16 + irq the platform interrupt irq.   *)
(*                                                                         *)
(* A definition named Mut... is the one after it with a plausible bug in.  *)
(***************************************************************************)
EXTENDS Integers

CONSTANTS
  ALT_NIRQ,  \* platform interrupts, the entries of alt_irq
  Isrs,      \* service routines
  None       \* NULL

Software == 3
Timer == 7
ALT_REMAP_IRQ_NUM(irq) == IF irq > ALT_NIRQ - 1 THEN -1 ELSE irq + 16
Irqs == 0 .. (ALT_NIRQ - 1)
Platform == {ALT_REMAP_IRQ_NUM(irq) : irq \in Irqs}
Causes == {Software, Timer} \cup Platform
Entry == [handler |-> None, context |-> None]

VARIABLES
  alt_irq,     \* the handler and context of each platform interrupt
  msw,         \* whether alt_niosv_software_interrupt_handler is set
  mie, mip,    \* the interrupts enabled, and those pending
  MIE,         \* mstatus.MIE: the processor takes interrupts
  pc,          \* where alt_iic_isr_register is, "app" outside of it
  call,        \* its irq, isr and saved status
  locks,       \* the contexts of the application's alt_irq_disable_all calls, nested
  running,     \* the interrupt being handled and the entry called, or None
  vectored,    \* ALT_CPU_INT_MODE_VIC, or direct mode
  halted,      \* the processor ran into ebreak or a null handler
  registered   \* history: the last routine given for each platform interrupt

cpu == <<mie, mip, MIE>>
program == <<pc, call, locks>>
interruptVars ==
  <<alt_irq, msw, cpu, program, running, vectored, halted, registered>>

\* crt0 and intel_niosv_irq_init leave every interrupt disabled; alt_irq_init then lets
\* the processor take them.
Init ==
  /\ alt_irq = [irq \in Irqs |-> Entry] /\ msw = FALSE
  /\ mie = {} /\ mip = {} /\ MIE = TRUE
  /\ pc = "app" /\ call = [irq |-> 0, isr |-> None, status |-> FALSE] /\ locks = <<>>
  /\ running = None /\ vectored \in BOOLEAN /\ halted = FALSE
  /\ registered = [irq \in Irqs |-> None]

-----------------------------------------------------------------------------
(* The program *)

Executing == running = None /\ ~halted
InApp == Executing /\ pc = "app"

\* alt_irq_disable_all; the caller keeps the former MIE.
MutDisableAll == UNCHANGED MIE
DisableAll == MIE' = FALSE

\* alt_irq_enable_all: nested calls do not enable interrupts before the outer one.
MutEnableAll(status) == MIE' = TRUE
EnableAll(status) == MIE' = (MIE \/ status)

\* Application code enters and leaves critical sections of its own.
Lock ==
  /\ InApp /\ locks = <<>>
  /\ locks' = <<MIE>> /\ DisableAll
  /\ UNCHANGED <<alt_irq, msw, mie, mip, pc, call, running, vectored, halted, registered>>
Unlock ==
  /\ InApp /\ locks # <<>>
  /\ locks' = <<>> /\ EnableAll(locks[1])
  /\ UNCHANGED <<alt_irq, msw, mie, mip, pc, call, running, vectored, halted, registered>>

\* alt_ic_isr_register; an irq out of range is refused.
Register(irq, isr) ==
  /\ InApp
  /\ IF irq \in Irqs
     THEN /\ call' = [irq |-> irq, isr |-> isr, status |-> MIE] /\ DisableAll
          /\ pc' = "handler" /\ registered' = [registered EXCEPT ![irq] = isr]
     ELSE UNCHANGED <<call, MIE, pc, registered>>
  /\ UNCHANGED <<alt_irq, msw, mie, mip, locks, running, vectored, halted>>

\* It replaces a routine that has been registered, and says so.
fpga_register_isr(handle, isr) == Register(handle, isr)

StoreHandler ==
  /\ Executing /\ pc = "handler" /\ pc' = "context"
  /\ alt_irq' = [alt_irq EXCEPT ![call.irq].handler = call.isr]
  /\ UNCHANGED <<msw, cpu, call, locks, running, vectored, halted, registered>>

\* Each routine is registered with a context of its own.
ContextOf(isr) == IF isr = None THEN None ELSE [of |-> isr]
StoreContext ==
  /\ Executing /\ pc = "context" /\ pc' = "enable"
  /\ alt_irq' = [alt_irq EXCEPT ![call.irq].context = ContextOf(call.isr)]
  /\ UNCHANGED <<msw, cpu, call, locks, running, vectored, halted, registered>>

\* A routine enables its interrupt, and no routine disables it.
SetEnable ==
  /\ Executing /\ pc = "enable" /\ pc' = "restore"
  /\ mie' = IF call.isr # None THEN mie \cup {ALT_REMAP_IRQ_NUM(call.irq)}
            ELSE mie \ {ALT_REMAP_IRQ_NUM(call.irq)}
  /\ UNCHANGED <<alt_irq, msw, mip, MIE, call, locks, running, vectored, halted, registered>>

Restore ==
  /\ Executing /\ pc = "restore" /\ pc' = "app" /\ EnableAll(call.status)
  /\ UNCHANGED <<alt_irq, msw, mie, mip, call, locks, running, vectored, halted, registered>>

\* fpga_enable_interrupt and fpga_disable_interrupt ask for a registered routine first.
Enable(irq) ==
  /\ InApp /\ alt_irq[irq].handler # None
  /\ mie' = mie \cup {ALT_REMAP_IRQ_NUM(irq)}
  /\ UNCHANGED <<alt_irq, msw, mip, MIE, program, running, vectored, halted, registered>>
Disable(irq) ==
  /\ InApp /\ alt_irq[irq].handler # None /\ ALT_REMAP_IRQ_NUM(irq) \in mie
  /\ mie' = mie \ {ALT_REMAP_IRQ_NUM(irq)}
  /\ UNCHANGED <<alt_irq, msw, mip, MIE, program, running, vectored, halted, registered>>

\* The system clock (alt_niosv_mtimecmp_interrupt_init), and the software interrupt,
\* whose handler is set before it is enabled.
EnableTimer ==
  /\ InApp /\ Timer \notin mie /\ mie' = mie \cup {Timer}
  /\ UNCHANGED <<alt_irq, msw, mip, MIE, program, running, vectored, halted, registered>>
EnableSoftware ==
  /\ InApp /\ ~msw /\ msw' = TRUE /\ mie' = mie \cup {Software}
  /\ UNCHANGED <<alt_irq, mip, MIE, program, running, vectored, halted, registered>>

-----------------------------------------------------------------------------
(* The devices, and the processor *)

Raise(code) ==
  /\ ~halted /\ code \notin mip /\ mip' = mip \cup {code}
  /\ UNCHANGED <<alt_irq, msw, mie, MIE, program, running, vectored, halted, registered>>

\* Handling code: the routine of the table is called with its context. Without one, the
\* vectored wrapper stops at ebreak and direct mode calls address 0.
PlatformHandler(code) ==
  IF alt_irq[code - 16].handler = None
  THEN halted' = TRUE /\ UNCHANGED running
  ELSE running' = [code |-> code, entry |-> alt_irq[code - 16]] /\ UNCHANGED halted
\* The clock's and the software interrupt's handlers take no context.
StandardHandler(code) == running' = [code |-> code, entry |-> Entry] /\ UNCHANGED halted
CallHandler(code) == IF code \in Platform THEN PlatformHandler(code) ELSE StandardHandler(code)

\* alt_irq_handler and the vector table both look at pending and enabled interrupts; the
\* former takes the lowest.
Pending == mip \cap mie
Lowest(code) == \A c \in Pending \cap Platform : code <= c

\* The vector table leads to the wrapper of the code; in direct mode handle_trap sorts
\* the standard interrupts from the platform's.
Trap ==
  /\ Executing /\ MIE /\ MIE' = FALSE
  /\ \E code \in Pending :
       /\ vectored \/ code \notin Platform \/ Lowest(code)
       /\ CallHandler(code)
  /\ UNCHANGED <<alt_irq, msw, mie, mip, program, vectored, registered>>

\* The routine clears the condition in its device, or disables its interrupt, and
\* returns: in direct mode alt_irq_handler goes on while something is pending.
HandlerReturns ==
  /\ running # None /\ ~halted
  /\ \/ mip' = mip \ {running.code} /\ UNCHANGED mie
     \/ /\ running.code \in Platform
        /\ mie' = mie \ {running.code} /\ UNCHANGED mip
  /\ LET left == mip' \cap mie' \cap Platform
     IN  IF ~vectored /\ running.code \in Platform /\ left # {}
         THEN (\E code \in left : (\A c \in left : code <= c) /\ CallHandler(code))
              /\ UNCHANGED MIE
         ELSE running' = None /\ MIE' = TRUE /\ UNCHANGED halted
  /\ UNCHANGED <<alt_irq, msw, program, vectored, registered>>

-----------------------------------------------------------------------------
Program ==
  \/ Lock \/ Unlock \/ EnableTimer \/ EnableSoftware
  \/ StoreHandler \/ StoreContext \/ SetEnable \/ Restore
  \/ \E irq \in 0 .. ALT_NIRQ, isr \in Isrs \cup {None} :
       Register(irq, isr) \/ fpga_register_isr(irq, isr)
  \/ \E irq \in Irqs : Enable(irq) \/ Disable(irq)
Next == Program \/ (\E code \in Causes : Raise(code)) \/ Trap \/ HandlerReturns

Spec == Init /\ [][Next]_interruptVars

-----------------------------------------------------------------------------
(* Properties *)

\* What the table may hold, and the calls of handlers that it may lead to.
Entries == [handler : Isrs \cup {None}, context : {ContextOf(i) : i \in Isrs \cup {None}}]
Calls == [code : Causes, entry : Entries]

TypeOK ==
  /\ alt_irq \in [Irqs -> Entries]
  /\ mie \subseteq Causes /\ mip \subseteq Causes
  /\ msw \in BOOLEAN /\ MIE \in BOOLEAN /\ vectored \in BOOLEAN /\ halted \in BOOLEAN
  /\ pc \in {"app", "handler", "context", "enable", "restore"}
  /\ call \in [irq : Irqs, isr : Isrs \cup {None}, status : BOOLEAN]
  /\ locks \in {<<>>, <<TRUE>>, <<FALSE>>}
  /\ running \in Calls \cup {None}
  /\ registered \in [Irqs -> Isrs \cup {None}]

\* An interrupt finds a routine, however registrations, removals and interrupts
\* interleave: the processor never stops at a spurious one.
NeverSpurious == ~halted

\* A routine is called with the context it was registered with, and only while it is the
\* one registered: no call meets half an update of the table.
CalledAsRegistered ==
  running # None /\ running.code \in Platform =>
    /\ running.entry.handler = registered[running.code - 16]
    /\ running.entry.context = ContextOf(running.entry.handler)

DispatchIsSound == NeverSpurious /\ CalledAsRegistered

\* Code between alt_irq_disable_all and alt_irq_enable_all is not interrupted, not even
\* after a call in between has disabled and enabled interrupts for itself; outside of
\* such code the program is never left with interrupts off.
CriticalSectionsHold ==
  running = None /\ ~halted => (MIE <=> pc = "app" /\ locks = <<>>)
=============================================================================
