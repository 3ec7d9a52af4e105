------------------------------ MODULE Processor ------------------------------
(***************************************************************************)
(* What the HAL does with the processor: its interrupts, the handling of   *)
(* traps, the configuration of its interrupt controller, its caches, and   *)
(* the lists of features by which it finds the hardware around it.         *)
(* They share no state. Each is a module of its own; its constants and     *)
(* variables are those of its name here, but for those that two have.      *)
(***************************************************************************)
EXTENDS Integers

CONSTANTS
  NULL,
  ALT_NIRQ, Isrs,
  Builds, Levels, MaxDepth,
  Codes, LevelBits, PriorityBits, Triggers, MaxRequests,
  MemorySize, ALT_CPU_DCACHE_SIZE, ALT_CPU_DCACHE_LINE_SIZE,
  Hardware, DFH_PARENT_STACK_INCR_SIZE

VARIABLES
  alt_irq, msw, mie, mip, MIE, pc, call, locks, running, vectored, halted, isrs,
  build, hasExceptionHandler, regs, trapMIE, level, mcause, mepc, frames,
  clicintctl, clicintattr, clicintie, MISELECT, open, step, request, mireg_val, config,
  suspect, made,
  memory, dcache, latest, op,
  dfl, scan, s_scanned_interface_count, s_interface_index, dfh_parent_stack, walk, vec, heap

interrupts ==
  <<alt_irq, msw, mie, mip, MIE, pc, call, locks, running, vectored, halted, isrs>>
traps == <<build, hasExceptionHandler, regs, trapMIE, level, mcause, mepc, frames>>
clic ==
  <<clicintctl, clicintattr, clicintie, MISELECT, open, step, request, mireg_val, config, suspect,
    made>>
caches == <<memory, dcache, latest, op>>
platform ==
  <<dfl, scan, s_scanned_interface_count, s_interface_index, dfh_parent_stack, walk, vec, heap>>

Irq == INSTANCE Interrupts WITH registered <- isrs, None <- NULL

ASSUME InterruptsAssumption == ALT_NIRQ \in Nat \ {0} /\ NULL \notin Irq!Calls

Trap == INSTANCE TrapContext WITH
  MIE <- trapMIE, alt_instruction_exception_handler <- hasExceptionHandler

ASSUME TrapAssumption == MaxDepth \in Nat

Configuration == INSTANCE Clic WITH NoCall <- NULL

\* The fields of level and priority fit in a byte, and that of the trigger mode has two bits.
ASSUME ClicAssumption ==
  /\ Codes \subseteq Nat /\ LevelBits \in Nat /\ PriorityBits \in Nat
  /\ LevelBits + PriorityBits <= 8 /\ Triggers \subseteq 0 .. 3 /\ MaxRequests \in Nat

Cache == INSTANCE Caches

\* The cache has lines, and the memory is made of whole ones.
ASSUME CacheAssumption ==
  /\ MemorySize \in Nat /\ ALT_CPU_DCACHE_SIZE \in Nat /\ ALT_CPU_DCACHE_LINE_SIZE \in Nat \ {0}
  /\ ALT_CPU_DCACHE_LINE_SIZE <= ALT_CPU_DCACHE_SIZE
  /\ MemorySize % ALT_CPU_DCACHE_LINE_SIZE = 0
  /\ NULL \notin Cache!Lines \cup Cache!Calls

Platform == INSTANCE FeatureList WITH phase <- scan, allocated <- heap

\* The features form a tree, and the stack's first increment has room for a list below the first.
ASSUME PlatformAssumption ==
  DFH_PARENT_STACK_INCR_SIZE \in Nat \ {0, 1} /\ \A hardware \in Hardware : Platform!IsTree(hardware)
=============================================================================
