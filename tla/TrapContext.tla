---------------------------- MODULE TrapContext -----------------------------
(***************************************************************************)
(* What a trap handler saves of the interrupted context and gives back to  *)
(* it, in the builds of the HAL:                                           *)
(*   "vectored" this design's: a C function for each interrupt, and one for*)
(*             exceptions, whose registers the compiler saves              *)
(*   "direct"  machine_trap.S without a CLIC, with interrupts off          *)
(*   "clic"    a CLIC of two levels: interrupts do not preempt each other  *)
(*   "preempt" a CLIC of more levels (CLIC_CONTEXT_SAVE_WORDS is 2)        *)
(*                                                                         *)
(* Each context, the program (0) and the handlers nested in it (1, 2 ...), *)
(* puts values of its own in the registers: its number stands for them.    *)
(*                                                                         *)
(* A definition named Mut... is the one after it with a plausible bug in.  *)
(***************************************************************************)
EXTENDS Integers, Sequences

CONSTANTS
  Builds,   \* the builds considered
  Levels,   \* interrupt levels of the CLIC
  MaxDepth  \* bound: traps nested in each other

\* Caller-saved registers; "t" stands for those handled like ra and t0.
Registers == {"a0", "a1", "a2", "t"}
Junk == -1

VARIABLES
  build,
  alt_instruction_exception_handler,  \* whether the program has registered one
  regs,    \* the context whose value each register holds
  MIE,     \* mstatus.MIE
  level,   \* the CLIC's current interrupt level
  mcause,  \* mpie and mpil, of the interrupted context
  mepc,    \* the context to return to; "next" skips the instruction that faulted
  frames   \* the stack frames of the traps being handled, the last one running

csrs == <<MIE, level, mcause, mepc>>
config == <<build, alt_instruction_exception_handler>>
trapVars == <<config, regs, csrs, frames>>

clic == build \in {"clic", "preempt"}
saves == build = "preempt"  \* CLIC_CONTEXT_SAVE_WORDS > 0
Depth == Len(frames)
Frame == frames[Depth]
At(pc) == frames # <<>> /\ Frame.pc = pc
GoTo(pc) == frames' = [frames EXCEPT ![Depth].pc = pc]
Filled(v) == [r \in Registers |-> v]
\* What a frame's slots hold before they are written.
Unset == [mpie : BOOLEAN, mpil : {Junk}]

Init ==
  /\ build \in Builds /\ alt_instruction_exception_handler \in BOOLEAN
  /\ regs = Filled(0) /\ MIE \in BOOLEAN /\ level = 0
  /\ mcause = [mpie |-> FALSE, mpil |-> 0] /\ mepc = [of |-> 0, next |-> FALSE]
  /\ frames = <<>>

-----------------------------------------------------------------------------
(* Traps *)

\* A program that has the API for it changes its handler of exceptions.
alt_instruction_exception_register(handler) ==
  /\ frames = <<>> /\ alt_instruction_exception_handler' = handler
  /\ UNCHANGED <<build, regs, csrs, frames>>

\* The processor turns interrupts off and keeps what they were; entry is history.
Enter(irq, l) ==
  /\ Depth < MaxDepth
  /\ MIE' = FALSE /\ level' = l
  /\ mcause' = [mpie |-> MIE, mpil |-> level] /\ mepc' = [of |-> Depth, next |-> FALSE]
  /\ \E unset \in IF saves THEN Unset ELSE {mcause} :
       frames' = Append(
         IF irq \/ frames = <<>> THEN frames ELSE [frames EXCEPT ![Depth].faulted = TRUE],
         [pc |-> "save", irq |-> irq, faulted |-> FALSE, save |-> Filled(Junk), mcause |-> unset,
          mepc |-> [of |-> Junk, next |-> FALSE],
          entry |-> [regs |-> regs, MIE |-> MIE, level |-> level]])
  /\ UNCHANGED <<config, regs>>

\* An interrupt, of a higher level where there is a CLIC.
Interrupt(l) ==
  /\ MIE
  /\ clic => l > level
  /\ build = "clic" => level = 0
  /\ Enter(TRUE, IF clic THEN l ELSE level)

\* An instruction of the program, or of a routine called for an interrupt, faults.
InRoutine == At("routine") \/ (At("handle_trap") /\ Frame.irq)
Fault == (frames = <<>> \/ InRoutine) /\ Enter(FALSE, level)

-----------------------------------------------------------------------------
(* The handler *)

SaveRegisters ==
  /\ At("save") /\ build # "vectored"
  /\ frames' = [frames EXCEPT ![Depth].save = regs, ![Depth].pc = "dispatch"]
  /\ UNCHANGED <<config, regs, csrs>>

\* a0 and a1 are read from mcause and mepc; a2 takes mtval or, with a CLIC, the bound
\* that tells its interrupts from the rest, of which a preemptible handler keeps mcause
\* and mepc for its own return.
Dispatch ==
  /\ At("dispatch")
  /\ regs' = [r \in Registers |-> IF r = "t" THEN regs[r] ELSE Depth]
  /\ IF clic /\ Frame.irq
     THEN frames' = [frames EXCEPT ![Depth].pc = "claim",
                                   ![Depth].mcause = IF saves THEN mcause ELSE @,
                                   ![Depth].mepc = IF saves THEN mepc ELSE @]
     ELSE frames' = [frames EXCEPT ![Depth].pc = "handle_trap", ![Depth].mepc = mepc]
  /\ UNCHANGED <<config, csrs>>

\* What a handler of exceptions answers.
Reissue == "NIOSV_EXCEPTION_RETURN_REISSUE_INST"
alt_exception_result == {Reissue, "NIOSV_EXCEPTION_RETURN_SKIP_INST"}

\* The interrupt attribute of the wrappers: the function saves what it or a callee uses.
VectoredSave ==
  /\ At("save") /\ build = "vectored"
  /\ frames' = [frames EXCEPT ![Depth].save = regs, ![Depth].pc = "handle_trap"]
  /\ UNCHANGED <<config, regs, csrs>>

\* The wrapper of an interrupt calls its routine and leaves mepc alone; that of exceptions
\* writes it back in the CSR, where a trap of a trap has nothing saved.
VectoredHandle ==
  /\ At("handle_trap") /\ build = "vectored"
  /\ IF Frame.irq THEN UNCHANGED mepc
     ELSE /\ alt_instruction_exception_handler
          /\ \E rc \in alt_exception_result : mepc' = [mepc EXCEPT !.next = (rc # Reissue)]
  /\ regs' = Filled(Depth) /\ GoTo("restore")
  /\ UNCHANGED <<config, MIE, level, mcause>>

\* Without a handler registered the processor stops, at a breakpoint or in a loop.
break_operation ==
  /\ At("handle_trap") /\ ~Frame.irq /\ ~alt_instruction_exception_handler /\ GoTo("break")
  /\ UNCHANGED <<config, regs, csrs>>

\* handle_trap gets epc as an argument and returns where to go on: behind an instruction
\* that faulted if its handler says so.
HandleTrap ==
  /\ At("handle_trap") /\ build # "vectored"
  /\ Frame.irq \/ alt_instruction_exception_handler
  /\ \E rc \in IF Frame.irq THEN {Reissue} ELSE alt_exception_result :
       LET epc == [of |-> Frame.mepc.of, next |-> rc # Reissue]
       IN  IF saves
           THEN /\ frames' = [frames EXCEPT ![Depth].mepc = epc, ![Depth].pc = "restore"]
                /\ UNCHANGED mepc
           ELSE mepc' = epc /\ GoTo("restore")
  /\ regs' = Filled(Depth)
  /\ UNCHANGED <<config, MIE, level, mcause>>

\* Reading mnxti claims an interrupt above mcause.mpil, whose level is the processor's
\* from then on, or finds none, and turns interrupts on.
Mnxti(none) ==
  /\ MIE' = TRUE
  /\ \/ GoTo("routine") /\ level' \in {l \in Levels : l > mcause.mpil}
     \/ GoTo(none) /\ UNCHANGED level
  /\ UNCHANGED <<config, mcause, mepc>>

\* The interrupt that trapped may have gone: then, it is said, nothing was touched, and
\* the handler leaves by the short way.
Claim == At("claim") /\ Mnxti("fast_exit") /\ UNCHANGED regs
RoutineReturns == At("routine") /\ Mnxti("restore") /\ regs' = Filled(Depth)

RestoreRegisters ==
  /\ At("restore") /\ GoTo("fast_exit")
  /\ regs' = [regs EXCEPT !["a2"] = Frame.save["a2"], !["t"] = Frame.save["t"]]
  /\ UNCHANGED <<config, csrs>>

\* What was kept of mcause and mepc is written back with interrupts off again.
MutFastExit ==
  /\ At("fast_exit") /\ GoTo("mret")
  /\ IF saves THEN UNCHANGED MIE /\ mcause' = Frame.mcause /\ mepc' = Frame.mepc
              ELSE UNCHANGED <<MIE, mcause, mepc>>
  /\ regs' = [regs EXCEPT !["a0"] = Frame.save["a0"], !["a1"] = Frame.save["a1"]]
  /\ UNCHANGED <<config, level>>
FastExit ==
  /\ At("fast_exit") /\ GoTo("mret")
  /\ IF saves THEN MIE' = FALSE /\ mcause' = Frame.mcause /\ mepc' = Frame.mepc
              ELSE UNCHANGED <<MIE, mcause, mepc>>
  /\ regs' = [regs EXCEPT !["a0"] = Frame.save["a0"], !["a1"] = Frame.save["a1"]]
  /\ UNCHANGED <<config, level>>

\* The processor returns, and mret leaves mpie set.
Mret ==
  /\ At("mret") /\ frames' = SubSeq(frames, 1, Depth - 1)
  /\ MIE' = mcause.mpie /\ level' = mcause.mpil
  /\ mcause' = [mcause EXCEPT !.mpie = TRUE]
  /\ UNCHANGED <<config, regs, mepc>>

-----------------------------------------------------------------------------
Next ==
  \/ (\E l \in Levels : Interrupt(l)) \/ Fault
  \/ (\E h \in BOOLEAN : alt_instruction_exception_register(h))
  \/ VectoredSave \/ VectoredHandle \/ break_operation
  \/ SaveRegisters \/ Dispatch \/ HandleTrap \/ Claim \/ RoutineReturns
  \/ RestoreRegisters \/ FastExit \/ Mret

Spec == Init /\ [][Next]_trapVars

-----------------------------------------------------------------------------
(* Properties, of a handler about to return *)

TypeOK ==
  /\ build \in Builds /\ alt_instruction_exception_handler \in BOOLEAN
  /\ MIE \in BOOLEAN /\ level \in Levels \cup {0, Junk}
  /\ regs \in [Registers -> 0 .. MaxDepth]
  /\ mcause \in [mpie : BOOLEAN, mpil : Levels \cup {0, Junk}]
  /\ mepc \in [of : 0 .. MaxDepth, next : BOOLEAN] /\ Depth <= MaxDepth

Returns(rs) ==
  /\ mepc.of = Depth - 1 /\ (mepc.next => ~Frame.irq)
  /\ \A r \in rs : regs[r] = Frame.entry.regs[r]
CsrsRestored == mcause = [mpie |-> Frame.entry.MIE, mpil |-> Frame.entry.level]

\* A trap goes back to the context it interrupted, however deep traps are nested in its
\* handling, with the registers but a2 as they were; without a CLIC with all of them and
\* with the interrupt state. A vectored handler in which an instruction has faulted is left
\* out: nothing keeps its mepc.
ReturnsWhereInterrupted ==
  At("mret") /\ ~(build = "vectored" /\ Frame.faulted) =>
    /\ Returns(Registers \ {"a2"})
    /\ ~clic => Returns(Registers) /\ CsrsRestored

\* Every register and "mcause.mpp, mpie, mpil as they were at entry" are given back.
ContextRestored == At("mret") => Returns(Registers) /\ CsrsRestored
=============================================================================
