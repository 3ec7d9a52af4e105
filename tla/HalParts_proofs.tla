-------------------------- MODULE HalParts_proofs --------------------------
(***************************************************************************)
(* Proofs about the two parts that Hal extends.                            *)
(*                                                                         *)
(* The processor: any number of interrupts, any routines, any depth of     *)
(* traps, any fields of the controller, any cache, and any tree of         *)
(* features. Each of its services has an inductive invariant of its own;   *)
(* module Hal_proofs draws the properties of the whole from them.          *)
(*                                                                         *)
(* The file descriptors, for every size of the pool and every set of       *)
(* filesystems and flags, as a system of their own. alt_fd_lock does not   *)
(* look at the descriptor at alt_max_fd, so a lock need not be exclusive.  *)
(* What saves the locks is an order: a descriptor that holds one is below  *)
(* every other descriptor of its device. It is part of the inductive       *)
(* invariant below; that a device has one lock, that close() frees every   *)
(* lock and that open() respects them follow from it.                      *)
(***************************************************************************)
EXTENDS FdTable, Processor, Sequences, WellFoundedInduction, FiniteSetTheorems, TLAPS

-----------------------------------------------------------------------------
(* Numbers: the least one, quotients and remainders *)

LEMMA Least ==
  ASSUME NEW T, T \subseteq Nat, T # {}
  PROVE  \E m \in T : \A k \in T : m <= k
<1>1. IsWellFoundedOn(OpToRel(<, Nat), Nat) BY NatLessThanWellFounded
<1> DEFINE R == OpToRel(<, Nat)
<1>2. \A x, y \in Nat : x < y => <<x, y>> \in R BY DEF OpToRel
<1> HIDE DEF R
<1>3. PICK m \in T : \A k \in T : ~(<<k, m>> \in R)
  <2>1. IsWellFoundedOn(R, Nat) BY <1>1 DEF R
  <2> QED BY <2>1, WFMin
<1>4. ASSUME NEW k \in T PROVE m <= k
  <2>1. k \in Nat /\ m \in Nat /\ ~(<<k, m>> \in R) BY <1>3
  <2>2. ~(k < m) BY <1>2, <2>1
  <2> QED BY <2>1, <2>2
<1> QED BY <1>4

LEMMA Quotient ==
  ASSUME NEW L \in Nat \ {0}, NEW a \in Int, NEW q \in Int, NEW r \in 0 .. (L - 1), a = L * q + r
  PROVE  a \div L = q /\ a % L = r
OBVIOUS

LEMMA Divided ==
  ASSUME NEW L \in Nat \ {0}, NEW a \in Nat
  PROVE  /\ a \div L \in Nat /\ a % L \in 0 .. (L - 1) /\ a = L * (a \div L) + (a % L)
         /\ (a + L) \div L = a \div L + 1 /\ (a + L) % L = a % L
<1>1. a \div L \in Nat OBVIOUS
<1>2. a % L \in 0 .. (L - 1) OBVIOUS
<1>3. a = L * (a \div L) + (a % L) OBVIOUS
<1>4. (a + L) % L = a % L
  <2>1. a + L = L * (a \div L + 1) + (a % L) BY <1>1, <1>2, <1>3
  <2>2. a + L \in Int /\ a \div L + 1 \in Int BY <1>1
  <2> QED BY <1>2, <2>1, <2>2, Quotient
<1>5. (a + L) \div L = a \div L + 1 OBVIOUS
<1> QED BY <1>1, <1>2, <1>3, <1>4, <1>5

LEMMA DividedInOrder ==
  ASSUME NEW L \in Nat \ {0}, NEW a \in Nat, NEW b \in Nat, a <= b
  PROVE  /\ a \div L <= b \div L
         /\ a < b /\ b % L = 0 => a \div L < b \div L
<1>1. /\ a \div L \in Nat /\ a % L \in 0 .. (L - 1) /\ a = L * (a \div L) + (a % L)
      /\ b \div L \in Nat /\ b % L \in 0 .. (L - 1) /\ b = L * (b \div L) + (b % L)
  BY Divided
<1> DEFINE p == a \div L
<1> DEFINE q == b \div L
<1>2. ASSUME NEW x \in Nat, NEW y \in Nat, x < y PROVE L * x + L <= L * y
  <2>1. PICK d \in Nat : y = x + 1 + d BY <1>2
  <2>2. L * y = L * x + L + L * d BY <2>1
  <2>3. L * d >= 0 OBVIOUS
  <2> QED BY <2>2, <2>3
<1>3. a \div L <= b \div L
  <2> SUFFICES ASSUME b \div L < a \div L PROVE FALSE BY <1>1
  <2>1. L * (b \div L) + L <= L * (a \div L) BY <1>1, <1>2
  <2> HIDE DEF p, q
  <2> QED BY <1>1, <2>1
<1>4. ASSUME a < b, b % L = 0, a \div L = b \div L PROVE FALSE BY <1>1, <1>4
<1> QED BY <1>1, <1>3, <1>4

\* Integers have quotients and remainders too.
LEMMA DividedInt ==
  ASSUME NEW L \in Nat \ {0}, NEW a \in Int
  PROVE  a \div L \in Int /\ a % L \in 0 .. (L - 1) /\ a = L * (a \div L) + (a % L)
<1>1. a \div L \in Int OBVIOUS
<1>2. a % L \in 0 .. (L - 1) OBVIOUS
<1>3. a = L * (a \div L) + (a % L) OBVIOUS
<1> QED BY <1>1, <1>2, <1>3

LEMMA Apart ==
  ASSUME NEW x \in Int, NEW y \in Int, x < y
  PROVE  \E d \in Nat : y = x + 1 + d
<1>1. y - x - 1 \in Nat /\ y = x + 1 + (y - x - 1) OBVIOUS
<1> QED BY <1>1

-----------------------------------------------------------------------------
(* Interrupts *)

\* Interrupts are on exactly while the program is in no critical section and no handler
\* runs, and a handler runs only where they were on.
MaskInv ==
  /\ MIE <=> pc = "app" /\ locks = <<>> /\ running = NULL
  /\ running # NULL => pc = "app" /\ locks = <<>>
  /\ locks \in {<<>>, <<TRUE>>}
  /\ pc # "app" => (call.status <=> locks = <<>>)

\* Every entry of the table is the one registered, but for what a registration that is
\* under way has yet to store.
TableInv ==
  /\ \A irq \in Irq!Irqs :
       /\ alt_irq[irq].handler = isrs[irq] \/ (pc = "handler" /\ irq = call.irq)
       /\ \/ alt_irq[irq].context = Irq!ContextOf(isrs[irq])
          \/ pc \in {"handler", "context"} /\ irq = call.irq
  /\ pc # "app" => isrs[call.irq] = call.isr

\* An enabled interrupt has a routine, until a removal that has stored the null handler
\* clears its bit two stores later.
EnabledInv ==
  \A irq \in Irq!Irqs :
    Irq!ALT_REMAP_IRQ_NUM(irq) \in mie =>
      \/ alt_irq[irq].handler # NULL
      \/ pc \in {"context", "enable"} /\ irq = call.irq

\* A running routine is that of the table.
RunningInv ==
  running # NULL =>
    /\ running \in Irq!Calls
    /\ running.code \in Irq!Platform => running.entry = alt_irq[running.code - 16]

IrqTypes ==
  /\ alt_irq \in [Irq!Irqs -> Irq!Entries]
  /\ mie \subseteq Irq!Causes /\ mip \subseteq Irq!Causes
  /\ msw \in BOOLEAN /\ MIE \in BOOLEAN /\ vectored \in BOOLEAN
  /\ pc \in {"app", "handler", "context", "enable", "restore"}
  /\ call \in [irq : Irq!Irqs, isr : Isrs \cup {NULL}, status : BOOLEAN]
  /\ isrs \in [Irq!Irqs -> Isrs \cup {NULL}]

IrqInv == IrqTypes /\ halted = FALSE /\ MaskInv /\ TableInv /\ EnabledInv /\ RunningInv

-----------------------------------------------------------------------------
(* The numbers of the interrupts *)

\* A platform interrupt and its irq name each other, and neither the clock nor the software
\* interrupt is one.
LEMMA Remapped ==
  /\ \A irq \in Irq!Irqs : /\ Irq!ALT_REMAP_IRQ_NUM(irq) = irq + 16
                          /\ Irq!ALT_REMAP_IRQ_NUM(irq) \in Irq!Platform
  /\ \A code \in Irq!Platform : /\ code - 16 \in Irq!Irqs
                               /\ Irq!ALT_REMAP_IRQ_NUM(code - 16) = code
  /\ Irq!Timer \notin Irq!Platform /\ Irq!Software \notin Irq!Platform
<1> USE InterruptsAssumption
<1>1. ASSUME NEW irq \in Irq!Irqs PROVE Irq!ALT_REMAP_IRQ_NUM(irq) = irq + 16
  BY DEF Irq!Irqs, Irq!ALT_REMAP_IRQ_NUM
<1>2. ASSUME NEW irq \in Irq!Irqs PROVE Irq!ALT_REMAP_IRQ_NUM(irq) \in Irq!Platform
  BY DEF Irq!Platform
<1>3. ASSUME NEW code \in Irq!Platform
      PROVE  code - 16 \in Irq!Irqs /\ Irq!ALT_REMAP_IRQ_NUM(code - 16) = code
  <2>1. PICK irq \in Irq!Irqs : code = Irq!ALT_REMAP_IRQ_NUM(irq) BY DEF Irq!Platform
  <2>2. code - 16 = irq BY <2>1, <1>1 DEF Irq!Irqs
  <2> QED BY <2>1, <2>2
<1>4. Irq!Timer \notin Irq!Platform /\ Irq!Software \notin Irq!Platform
  BY <1>1 DEF Irq!Platform, Irq!Irqs, Irq!Timer, Irq!Software
<1> QED BY <1>1, <1>2, <1>3, <1>4

LEMMA NullEntry == Irq!Entry \in Irq!Entries
<1>1. Irq!Entry.handler = NULL /\ Irq!Entry.context = Irq!ContextOf(NULL)
  BY DEF Irq!Entry, Irq!ContextOf
<1> QED BY <1>1 DEF Irq!Entry, Irq!Entries

LEMMA IrqInit ==
  ASSUME Irq!Init
  PROVE  IrqInv
<1>1. IrqTypes
  <2>1. alt_irq \in [Irq!Irqs -> Irq!Entries] BY NullEntry DEF Irq!Init
  <2>2. call \in [irq : Irq!Irqs, isr : Isrs \cup {NULL}, status : BOOLEAN]
    BY InterruptsAssumption DEF Irq!Init, Irq!Irqs
  <2>3. vectored \in BOOLEAN BY Zenon DEF Irq!Init
  <2> QED BY <2>1, <2>2, <2>3 DEF Irq!Init, IrqTypes
<1>2. MaskInv BY DEF Irq!Init, MaskInv
<1>3. TableInv BY DEF Irq!Init, TableInv, Irq!Entry, Irq!ContextOf
<1>4. EnabledInv BY DEF Irq!Init, EnabledInv
<1>5. RunningInv BY DEF Irq!Init, RunningInv
<1> QED BY <1>1, <1>2, <1>3, <1>4, <1>5 DEF IrqInv, Irq!Init

-----------------------------------------------------------------------------
(* The program *)

LEMMA LockInv ==
  ASSUME IrqInv, Irq!Lock \/ Irq!Unlock
  PROVE  IrqInv'
<1> USE DEF Irq!Lock, Irq!Unlock, Irq!InApp, Irq!Executing, IrqInv
<1>1. IrqTypes' BY DEF IrqTypes, Irq!EnableAll, Irq!DisableAll
<1>2. ~halted' OBVIOUS
<1>3. MaskInv'
  <2>1. CASE Irq!Lock BY <2>1 DEF MaskInv, Irq!DisableAll
  <2>2. CASE Irq!Unlock
    <3>1. locks = <<TRUE>> BY <2>2, Zenon DEF MaskInv
    <3>2. locks[1] = TRUE BY <3>1
    <3>3. MIE' = TRUE BY <2>2, <3>2, Zenon DEF Irq!EnableAll
    <3> QED BY <2>2, <3>3 DEF MaskInv
  <2> QED BY <2>1, <2>2
<1>4. TableInv' /\ EnabledInv' /\ RunningInv'
  BY DEF TableInv, EnabledInv, RunningInv
<1> QED BY <1>1, <1>2, <1>3, <1>4

LEMMA RegisterIsrInv ==
  ASSUME IrqInv, NEW irq \in 0 .. ALT_NIRQ, NEW isr \in Isrs \cup {NULL},
         Irq!Register(irq, isr)
  PROVE  IrqInv'
<1> USE DEF Irq!Register, Irq!InApp, Irq!Executing, IrqInv
<1>1. CASE irq \notin Irq!Irqs
  BY <1>1 DEF IrqTypes, MaskInv, TableInv, EnabledInv, RunningInv
<1>2. CASE irq \in Irq!Irqs
  <2>1. call' = [irq |-> irq, isr |-> isr, status |-> MIE] /\ pc' = "handler" /\ ~MIE'
        /\ isrs' = [isrs EXCEPT ![irq] = isr]
        /\ UNCHANGED <<alt_irq, msw, mie, mip, locks, running, vectored, halted>>
        /\ pc = "app" /\ running = NULL
    BY <1>2 DEF Irq!DisableAll
  <2>2. IrqTypes' BY <1>2, <2>1 DEF IrqTypes, Irq!DisableAll
  <2>3. MaskInv' BY <2>1 DEF MaskInv, IrqTypes
  <2>4. TableInv' BY <1>2, <2>1 DEF TableInv, IrqTypes
  <2>5. EnabledInv' /\ RunningInv' BY <2>1 DEF EnabledInv, RunningInv
  <2> QED BY <2>1, <2>2, <2>3, <2>4, <2>5
<1> QED BY <1>1, <1>2

LEMMA StoreHandlerInv ==
  ASSUME IrqInv, Irq!StoreHandler
  PROVE  IrqInv'
<1> USE DEF Irq!StoreHandler, Irq!Executing, IrqInv, Irq!cpu
<1>1. call.irq \in Irq!Irqs /\ call.isr \in Isrs \cup {NULL} BY DEF IrqTypes
<1>2. \A i \in Irq!Irqs :
        /\ alt_irq'[i].handler = IF i = call.irq THEN call.isr ELSE alt_irq[i].handler
        /\ alt_irq'[i].context = alt_irq[i].context
  BY <1>1 DEF IrqTypes
<1>3. IrqTypes' BY <1>1 DEF IrqTypes, Irq!Entries
<1>4. MaskInv' BY DEF MaskInv
<1>5. TableInv' BY <1>1, <1>2 DEF TableInv
<1>6. EnabledInv' BY <1>2 DEF EnabledInv
<1>7. RunningInv' BY DEF RunningInv
<1> QED BY <1>3, <1>4, <1>5, <1>6, <1>7

LEMMA StoreContextInv ==
  ASSUME IrqInv, Irq!StoreContext
  PROVE  IrqInv'
<1> USE DEF Irq!StoreContext, Irq!Executing, IrqInv, Irq!cpu
<1>1. call.irq \in Irq!Irqs /\ call.isr \in Isrs \cup {NULL} BY DEF IrqTypes
<1>2. \A i \in Irq!Irqs :
        /\ alt_irq'[i].handler = alt_irq[i].handler
        /\ alt_irq'[i].context =
             IF i = call.irq THEN Irq!ContextOf(call.isr) ELSE alt_irq[i].context
  BY <1>1 DEF IrqTypes
<1>3. IrqTypes' BY <1>1 DEF IrqTypes, Irq!Entries
<1>4. MaskInv' BY DEF MaskInv
<1>5. TableInv' BY <1>1, <1>2 DEF TableInv
<1>6. EnabledInv' BY <1>2 DEF EnabledInv
<1>7. RunningInv' BY DEF RunningInv
<1> QED BY <1>3, <1>4, <1>5, <1>6, <1>7

LEMMA SetEnableInv ==
  ASSUME IrqInv, Irq!SetEnable
  PROVE  IrqInv'
<1> USE DEF Irq!SetEnable, Irq!Executing, IrqInv
<1>1. call.irq \in Irq!Irqs BY DEF IrqTypes
<1>2. \A i \in Irq!Irqs : Irq!ALT_REMAP_IRQ_NUM(i) = Irq!ALT_REMAP_IRQ_NUM(call.irq) => i = call.irq
  BY <1>1, Remapped DEF Irq!Irqs
<1>3. IrqTypes' BY <1>1, Remapped DEF IrqTypes, Irq!Causes
<1>4. MaskInv' BY DEF MaskInv
<1>5. TableInv' BY DEF TableInv
<1>6. EnabledInv'
  <2> SUFFICES ASSUME NEW i \in Irq!Irqs, Irq!ALT_REMAP_IRQ_NUM(i) \in mie'
               PROVE  alt_irq[i].handler # NULL
    BY DEF EnabledInv
  <2>1. CASE i = call.irq
    <3>1. call.isr # NULL BY <2>1
    <3>2. alt_irq[i].handler = call.isr BY <1>1, <2>1 DEF TableInv
    <3> QED BY <3>1, <3>2
  <2>2. CASE i # call.irq
    <3>1. Irq!ALT_REMAP_IRQ_NUM(i) \in mie BY <1>2, <2>2
    <3> QED BY <2>2, <3>1 DEF EnabledInv
  <2> QED BY <2>1, <2>2
<1>7. RunningInv' BY DEF RunningInv
<1> QED BY <1>3, <1>4, <1>5, <1>6, <1>7

LEMMA RestoreInv ==
  ASSUME IrqInv, Irq!Restore
  PROVE  IrqInv'
<1> USE DEF Irq!Restore, Irq!Executing, IrqInv
<1>1. IrqTypes' BY DEF IrqTypes, Irq!EnableAll
<1>2. MaskInv' BY DEF MaskInv, Irq!EnableAll
<1>3. TableInv' /\ EnabledInv' /\ RunningInv' BY DEF TableInv, EnabledInv, RunningInv
<1> QED BY <1>1, <1>2, <1>3

\* Enabling and disabling ask for a routine first.
LEMMA EnableInv ==
  ASSUME IrqInv, NEW irq \in Irq!Irqs, Irq!Enable(irq) \/ Irq!Disable(irq)
  PROVE  IrqInv'
<1> USE DEF Irq!Enable, Irq!Disable, Irq!InApp, Irq!Executing, IrqInv, Irq!program
<1>1. IrqTypes' BY Remapped DEF IrqTypes, Irq!Causes
<1>2. MaskInv'
  <2>1. UNCHANGED <<MIE, pc, call, locks, running>> OBVIOUS
  <2> QED BY <2>1 DEF MaskInv
<1>3. TableInv' BY DEF TableInv
<1>4. RunningInv' BY DEF RunningInv
<1>5. EnabledInv'
  <2> SUFFICES ASSUME NEW i \in Irq!Irqs, Irq!ALT_REMAP_IRQ_NUM(i) \in mie'
               PROVE  alt_irq[i].handler # NULL
    BY DEF EnabledInv
  <2>1. Irq!ALT_REMAP_IRQ_NUM(i) \in mie \/ i = irq BY Remapped DEF Irq!Irqs
  <2> QED BY <2>1 DEF EnabledInv
<1> QED BY <1>1, <1>2, <1>3, <1>4, <1>5

LEMMA StandardInv ==
  ASSUME IrqInv, Irq!EnableTimer \/ Irq!EnableSoftware
  PROVE  IrqInv'
<1> USE DEF Irq!EnableTimer, Irq!EnableSoftware, Irq!InApp, Irq!Executing, IrqInv, Irq!program
<1>1. IrqTypes' BY DEF IrqTypes, Irq!Causes
<1>2. MaskInv'
  <2>1. UNCHANGED <<MIE, pc, call, locks, running>> OBVIOUS
  <2> QED BY <2>1 DEF MaskInv
<1>3. TableInv' BY DEF TableInv
<1>4. RunningInv' BY DEF RunningInv
<1>5. EnabledInv'
  <2> SUFFICES ASSUME NEW i \in Irq!Irqs, Irq!ALT_REMAP_IRQ_NUM(i) \in mie'
               PROVE  alt_irq[i].handler # NULL
    BY DEF EnabledInv
  <2>1. Irq!ALT_REMAP_IRQ_NUM(i) \in mie BY Remapped
  <2> QED BY <2>1 DEF EnabledInv
<1> QED BY <1>1, <1>2, <1>3, <1>4, <1>5

-----------------------------------------------------------------------------
(* The processor *)

\* The handling of an enabled interrupt, outside of registrations, finds its routine.
LEMMA HandlerCalled ==
  ASSUME IrqInv, pc = "app", NEW code \in mie, Irq!CallHandler(code)
  PROVE  /\ ~halted' /\ running' # NULL /\ running' \in Irq!Calls
         /\ running'.code = code /\ code \in Irq!Causes
         /\ code \in Irq!Platform => running'.entry = alt_irq[code - 16]
<1>1. code \in Irq!Causes BY DEF IrqInv, IrqTypes
<1>2. CASE code \in Irq!Platform
  <2>1. alt_irq[code - 16].handler # NULL BY <1>2, Remapped DEF IrqInv, EnabledInv
  <2>2. running' = [code |-> code, entry |-> alt_irq[code - 16]] /\ ~halted'
    BY <1>2, <2>1 DEF Irq!CallHandler, Irq!PlatformHandler, IrqInv
  <2>3. alt_irq[code - 16] \in Irq!Entries BY <1>2, Remapped DEF IrqInv, IrqTypes
  <2>4. running' \in Irq!Calls BY <1>1, <2>2, <2>3 DEF Irq!Calls
  <2> QED BY <1>1, <2>2, <2>4, InterruptsAssumption
<1>3. CASE code \notin Irq!Platform
  <2>1. running' = [code |-> code, entry |-> Irq!Entry] /\ ~halted'
    BY <1>3 DEF Irq!CallHandler, Irq!StandardHandler, IrqInv
  <2>2. running' \in Irq!Calls BY <1>1, <2>1, NullEntry DEF Irq!Calls
  <2> QED BY <1>1, <1>3, <2>1, <2>2, InterruptsAssumption
<1> QED BY <1>2, <1>3

LEMMA RaiseInv ==
  ASSUME IrqInv, NEW code \in Irq!Causes, Irq!Raise(code)
  PROVE  IrqInv'
BY DEF Irq!Raise, IrqInv, Irq!program, IrqTypes, MaskInv, TableInv, EnabledInv, RunningInv

LEMMA IrqTrapInv ==
  ASSUME IrqInv, Irq!Trap
  PROVE  IrqInv'
<1>1. PICK code \in Irq!Pending : Irq!CallHandler(code) BY DEF Irq!Trap
<1>2. code \in mie BY DEF Irq!Pending
<1>3. MIE /\ ~MIE' /\ UNCHANGED <<alt_irq, msw, mie, mip, Irq!program, vectored, isrs>>
  BY DEF Irq!Trap
<1>4. pc = "app" /\ locks = <<>> BY <1>3 DEF IrqInv, MaskInv
<1>5. /\ ~halted' /\ running' # NULL /\ running' \in Irq!Calls
      /\ running'.code = code /\ code \in Irq!Causes
      /\ code \in Irq!Platform => running'.entry = alt_irq[code - 16]
  BY <1>1, <1>2, <1>4, HandlerCalled
<1>6. IrqTypes' BY <1>3 DEF IrqInv, IrqTypes, Irq!program, Irq!Trap
<1>7. MaskInv' BY <1>3, <1>4, <1>5 DEF MaskInv, Irq!program
<1>8. TableInv' /\ EnabledInv' BY <1>3 DEF IrqInv, TableInv, EnabledInv, Irq!program
<1>9. RunningInv' BY <1>3, <1>5 DEF RunningInv
<1> QED BY <1>5, <1>6, <1>7, <1>8, <1>9 DEF IrqInv

LEMMA HandlerReturnsInv ==
  ASSUME IrqInv, Irq!HandlerReturns
  PROVE  IrqInv'
<1>1. UNCHANGED <<alt_irq, msw, pc, call, locks, vectored, isrs>>
      /\ mip' \subseteq mip /\ mie' \subseteq mie /\ running # NULL
  BY DEF Irq!HandlerReturns, Irq!program
<1>2. pc = "app" /\ locks = <<>> /\ ~MIE BY <1>1 DEF IrqInv, MaskInv
<1>3. TableInv' BY <1>1 DEF IrqInv, TableInv
<1>4. EnabledInv' BY <1>1 DEF IrqInv, EnabledInv
<1>5. CASE running' = NULL /\ MIE' = TRUE /\ UNCHANGED halted
  <2>1. IrqTypes' BY <1>1, <1>5 DEF IrqInv, IrqTypes
  <2>2. MaskInv' BY <1>1, <1>2, <1>5 DEF MaskInv
  <2>3. RunningInv' BY <1>5 DEF RunningInv
  <2> QED BY <1>3, <1>4, <1>5, <2>1, <2>2, <2>3 DEF IrqInv
<1>6. ASSUME NEW code \in mip' \cap mie' \cap Irq!Platform, Irq!CallHandler(code), UNCHANGED MIE
      PROVE  IrqInv'
  <2>1. /\ ~halted' /\ running' # NULL /\ running' \in Irq!Calls
        /\ running'.code = code /\ code \in Irq!Causes
        /\ code \in Irq!Platform => running'.entry = alt_irq[code - 16]
    BY <1>1, <1>2, <1>6, HandlerCalled
  <2>2. IrqTypes' BY <1>1, <1>6 DEF IrqInv, IrqTypes
  <2>3. MaskInv' BY <1>1, <1>2, <1>6, <2>1 DEF MaskInv
  <2>4. RunningInv' BY <1>1, <2>1 DEF RunningInv
  <2> QED BY <1>3, <1>4, <2>1, <2>2, <2>3, <2>4 DEF IrqInv
<1> QED BY <1>5, <1>6 DEF Irq!HandlerReturns

-----------------------------------------------------------------------------
LEMMA IrqStep ==
  ASSUME IrqInv, [Irq!Next]_interrupts
  PROVE  IrqInv'
<1>1. CASE UNCHANGED interrupts
  BY <1>1 DEF interrupts, IrqInv, IrqTypes, MaskInv, TableInv, EnabledInv, RunningInv
<1>2. CASE Irq!Lock \/ Irq!Unlock BY <1>2, LockInv
<1>3. CASE Irq!EnableTimer \/ Irq!EnableSoftware BY <1>3, StandardInv
<1>4. CASE Irq!StoreHandler BY <1>4, StoreHandlerInv
<1>5. CASE Irq!StoreContext BY <1>5, StoreContextInv
<1>6. CASE Irq!SetEnable BY <1>6, SetEnableInv
<1>7. CASE Irq!Restore BY <1>7, RestoreInv
<1>8. ASSUME NEW irq \in 0 .. ALT_NIRQ, NEW isr \in Isrs \cup {NULL},
             Irq!Register(irq, isr) \/ Irq!fpga_register_isr(irq, isr)
      PROVE  IrqInv'
  BY <1>8, RegisterIsrInv DEF Irq!fpga_register_isr
<1>9. ASSUME NEW irq \in Irq!Irqs, Irq!Enable(irq) \/ Irq!Disable(irq) PROVE IrqInv'
  BY <1>9, EnableInv
<1>10. CASE \E code \in Irq!Causes : Irq!Raise(code) BY <1>10, RaiseInv
<1>11. CASE Irq!Trap BY <1>11, IrqTrapInv
<1>12. CASE Irq!HandlerReturns BY <1>12, HandlerReturnsInv
<1> QED
  BY <1>1, <1>2, <1>3, <1>4, <1>5, <1>6, <1>7, <1>8, <1>9, <1>10, <1>11, <1>12
  DEF Irq!Next, Irq!Program

LEMMA IrqSound == IrqInv => Irq!DispatchIsSound /\ Irq!CriticalSectionsHold
<1> SUFFICES ASSUME IrqInv PROVE Irq!DispatchIsSound /\ Irq!CriticalSectionsHold OBVIOUS
<1>1. Irq!NeverSpurious BY DEF IrqInv, Irq!NeverSpurious
<1>2. Irq!CalledAsRegistered
  <2> SUFFICES ASSUME running # NULL, running.code \in Irq!Platform
               PROVE  /\ running.entry.handler = isrs[running.code - 16]
                      /\ running.entry.context = Irq!ContextOf(running.entry.handler)
    BY DEF Irq!CalledAsRegistered
  <2>1. pc = "app" BY DEF IrqInv, MaskInv
  <2>2. running.entry = alt_irq[running.code - 16] /\ running.code - 16 \in Irq!Irqs
    BY Remapped DEF IrqInv, RunningInv
  <2> QED BY <2>1, <2>2 DEF IrqInv, TableInv
<1>3. Irq!CriticalSectionsHold BY DEF IrqInv, MaskInv, Irq!CriticalSectionsHold
<1> QED BY <1>1, <1>2, <1>3 DEF Irq!DispatchIsSound

-----------------------------------------------------------------------------
(* Caches *)

CacheTypes ==
  /\ memory \in [Cache!Bytes -> Cache!ByteValues] /\ latest \in [Cache!Bytes -> Cache!ByteValues]
  /\ dcache \in [Cache!Indices -> Cache!Lines \cup {NULL}]
  /\ \A i \in Cache!Indices : dcache[i] # NULL =>
       \A a \in Cache!BytesOf(dcache[i].line) : Cache!IndexOf(a) = i

\* The program finds what was written last, and so does the device where no line is dirty.
CacheData ==
  \A a \in Cache!Bytes : Cache!View(a) = latest[a] /\ (~Cache!Dirty(a) => memory[a] = latest[a])

\* A flush or an invalidation has emptied the lines of its region that it has come past; a
\* flush of all has cleaned those at the indices it has come past.
CacheProgress ==
  op # NULL =>
    /\ op.start % ALT_CPU_DCACHE_LINE_SIZE = 0 => op.i % ALT_CPU_DCACHE_LINE_SIZE = 0
    /\ op.call = "alt_dcache_flush_all" => op.start = 0 /\ op.end = ALT_CPU_DCACHE_SIZE
    /\ op.call # "alt_dcache_flush_all" => op.end <= MemorySize
    /\ \A a \in Cache!Bytes :
         IF op.call = "alt_dcache_flush_all"
         THEN op.done \/ Cache!IndexOf(a) < Cache!LineOf(op.i) => ~Cache!Dirty(a)
         ELSE /\ op.start <= a /\ a < op.end
              /\ op.done \/ Cache!LineOf(a) < Cache!LineOf(op.i)
              => ~Cache!Held(a)

CacheInv == CacheTypes /\ op \in Cache!Calls \cup {NULL} /\ CacheData /\ CacheProgress

\* The lines of the addresses and the indices of the lines.
LEMMA CacheIndices ==
  /\ ALT_CPU_DCACHE_LINE_SIZE \in Nat \ {0} /\ MemorySize \in Nat
  /\ \A a \in Nat : Cache!LineOf(a) \in Nat /\ Cache!IndexOf(a) \in Cache!Indices
  /\ \A a \in Cache!Bytes : a \in Nat /\ a \in Cache!BytesOf(Cache!LineOf(a))
  /\ \A l : \A a \in Cache!BytesOf(l) : a \in Cache!Bytes /\ Cache!LineOf(a) = l
<1>1. \A a \in Cache!Bytes : a \in Nat BY CacheAssumption DEF Cache!Bytes
<1> DEFINE L == ALT_CPU_DCACHE_LINE_SIZE
           N == ALT_CPU_DCACHE_SIZE \div ALT_CPU_DCACHE_LINE_SIZE
<1>2. L \in Nat \ {0} /\ N \in Nat \ {0}
  <2>1. L \div L = 1 BY CacheAssumption
  <2>2. L \div L <= N BY CacheAssumption, DividedInOrder
  <2>3. N \in Nat BY CacheAssumption, Divided
  <2> QED BY <2>1, <2>2, <2>3, CacheAssumption
<1>3. ASSUME NEW a \in Nat PROVE Cache!LineOf(a) \in Nat /\ Cache!IndexOf(a) \in Cache!Indices
  <2>1. Cache!LineOf(a) \in Nat BY <1>2, Divided DEF Cache!LineOf
  <2>2. Cache!LineOf(a) % N \in 0 .. (N - 1)
    <3> HIDE DEF N
    <3> QED BY <1>2, <2>1, Divided
  <2> QED BY <2>1, <2>2 DEF Cache!IndexOf, Cache!Indices
<1> QED BY <1>1, <1>2, <1>3, CacheAssumption DEF Cache!BytesOf

\* A byte of the line at index i is held there.
LEMMA AtIndex ==
  ASSUME CacheTypes, NEW i \in Cache!Indices, dcache[i] # NULL,
         NEW a \in Cache!BytesOf(dcache[i].line)
  PROVE  /\ Cache!IndexOf(a) = i /\ Cache!Held(a) /\ a \in Cache!Bytes
         /\ Cache!View(a) = dcache[i].data[a]
BY CacheIndices DEF CacheTypes, Cache!Held, Cache!View

\* A line that is written back leaves the memory as it was written last.
LEMMA LineWrittenBack ==
  ASSUME CacheTypes, CacheData, NEW i \in Cache!Indices
  PROVE  /\ Cache!WrittenBack(i) \in [Cache!Bytes -> Cache!ByteValues]
         /\ \A a \in Cache!Bytes :
              Cache!WrittenBack(i)[a] = IF Cache!Dirty(a) /\ Cache!IndexOf(a) = i
                                        THEN latest[a] ELSE memory[a]
<1>1. CASE dcache[i] = NULL \/ ~dcache[i].dirty
  BY <1>1 DEF Cache!WrittenBack, CacheTypes, Cache!Dirty, Cache!Held
<1>2. CASE dcache[i] # NULL /\ dcache[i].dirty
  <2>1. Cache!WrittenBack(i) =
          [a \in Cache!Bytes |-> IF a \in Cache!BytesOf(dcache[i].line)
                                 THEN dcache[i].data[a] ELSE memory[a]]
    BY <1>2 DEF Cache!WrittenBack
  <2>2. ASSUME NEW a \in Cache!BytesOf(dcache[i].line)
        PROVE  Cache!Dirty(a) /\ Cache!IndexOf(a) = i /\ dcache[i].data[a] = latest[a]
    BY <1>2, <2>2, AtIndex DEF CacheData, Cache!Dirty
  <2>3. ASSUME NEW a \in Cache!Bytes, Cache!Dirty(a), Cache!IndexOf(a) = i
        PROVE  a \in Cache!BytesOf(dcache[i].line)
    BY <2>3 DEF Cache!Dirty, Cache!Held, Cache!BytesOf
  <2>4. ASSUME NEW a \in Cache!Bytes
        PROVE  Cache!WrittenBack(i)[a] = IF Cache!Dirty(a) /\ Cache!IndexOf(a) = i
                                         THEN latest[a] ELSE memory[a]
    BY <2>1, <2>2, <2>3
  <2>5. \A a \in Cache!Bytes : latest[a] \in Cache!ByteValues /\ memory[a] \in Cache!ByteValues
    BY DEF CacheTypes
  <2>6. \A a \in Cache!Bytes :
          (IF a \in Cache!BytesOf(dcache[i].line) THEN dcache[i].data[a] ELSE memory[a])
            \in Cache!ByteValues
    BY <2>2, <2>5
  <2> QED BY <2>1, <2>4, <2>6
<1> QED BY <1>1, <1>2

LEMMA CacheInit == Cache!Init => CacheInv
<1> SUFFICES ASSUME Cache!Init PROVE CacheInv OBVIOUS
<1>1. CacheTypes BY DEF Cache!Init, CacheTypes, Cache!ByteValues
<1>2. \A a \in Cache!Bytes : ~Cache!Held(a)
  BY CacheIndices DEF Cache!Init, Cache!Held
<1>3. CacheData BY <1>2 DEF CacheData, Cache!Init, Cache!View, Cache!Dirty
<1> QED BY <1>1, <1>3 DEF CacheInv, CacheProgress, Cache!Init

\* What an instruction, or a line that leaves, does to the lines: it brings none in and makes
\* none dirty.
CacheShrinks ==
  \A a \in Cache!Bytes :
    (Cache!Held(a)' => Cache!Held(a)) /\ (Cache!Dirty(a)' => Cache!Dirty(a))

\* A line that leaves is written back.
LEMMA LineLeaves ==
  ASSUME CacheTypes, CacheData, NEW i \in Cache!Indices,
         memory' = Cache!WrittenBack(i), dcache' = [dcache EXCEPT ![i] = NULL], UNCHANGED latest
  PROVE  /\ CacheTypes' /\ CacheData' /\ CacheShrinks
         /\ \A a \in Cache!Bytes : Cache!IndexOf(a) = i => ~Cache!Held(a)'
<1>1. /\ memory' \in [Cache!Bytes -> Cache!ByteValues]
      /\ \A a \in Cache!Bytes :
           memory'[a] = IF Cache!Dirty(a) /\ Cache!IndexOf(a) = i THEN latest[a] ELSE memory[a]
  BY LineWrittenBack
<1>2. \A a \in Cache!Bytes : Cache!IndexOf(a) \in Cache!Indices BY CacheIndices
<1>3. CacheTypes' BY <1>1 DEF CacheTypes
<1>4. ASSUME NEW a \in Cache!Bytes, Cache!IndexOf(a) = i PROVE ~Cache!Held(a)' /\ ~Cache!Dirty(a)'
  BY <1>2, <1>4 DEF Cache!Held, Cache!Dirty, CacheTypes
<1>5. ASSUME NEW a \in Cache!Bytes, Cache!IndexOf(a) # i
      PROVE  /\ dcache'[Cache!IndexOf(a)] = dcache[Cache!IndexOf(a)]
             /\ Cache!Held(a)' <=> Cache!Held(a)
             /\ Cache!Dirty(a)' <=> Cache!Dirty(a)
  BY <1>2, <1>5 DEF Cache!Held, Cache!Dirty, CacheTypes
<1>6. CacheShrinks BY <1>4, <1>5 DEF CacheShrinks
<1>7. CacheData'
  <2> SUFFICES ASSUME NEW a \in Cache!Bytes
               PROVE  Cache!View(a)' = latest[a] /\ (~Cache!Dirty(a)' => memory'[a] = latest[a])
    BY DEF CacheData
  <2>1. CASE Cache!IndexOf(a) = i BY <1>1, <1>4, <2>1 DEF CacheData, Cache!View
  <2>2. CASE Cache!IndexOf(a) # i BY <1>1, <1>5, <2>2 DEF CacheData, Cache!View
  <2> QED BY <2>1, <2>2
<1> QED BY <1>3, <1>4, <1>6, <1>7

\* A line that is invalidated is given up with what was written to it.
LEMMA LineGivenUp ==
  ASSUME CacheTypes, CacheData, NEW b \in Cache!Bytes, Cache!Held(b),
         dcache' = [dcache EXCEPT ![Cache!IndexOf(b)] = NULL], UNCHANGED memory,
         latest' = [a \in Cache!Bytes |->
                      IF Cache!LineOf(a) = Cache!LineOf(b) THEN memory[a] ELSE latest[a]]
  PROVE  /\ CacheTypes' /\ CacheData' /\ CacheShrinks
         /\ \A a \in Cache!Bytes : Cache!LineOf(a) = Cache!LineOf(b) => ~Cache!Held(a)'
<1>1. \A a \in Cache!Bytes : Cache!IndexOf(a) \in Cache!Indices BY CacheIndices
<1>2. \A a \in Cache!Bytes : latest'[a] =
        IF Cache!LineOf(a) = Cache!LineOf(b) THEN memory[a] ELSE latest[a]
  OBVIOUS
<1>3. CacheTypes'
  <2>1. latest' \in [Cache!Bytes -> Cache!ByteValues] BY DEF CacheTypes
  <2> QED BY <2>1 DEF CacheTypes
<1>4. ASSUME NEW a \in Cache!Bytes, Cache!LineOf(a) = Cache!LineOf(b)
      PROVE  ~Cache!Held(a)' /\ ~Cache!Dirty(a)'
  BY <1>1, <1>4 DEF Cache!Held, Cache!Dirty, CacheTypes, Cache!IndexOf
<1>5. ASSUME NEW a \in Cache!Bytes, Cache!LineOf(a) # Cache!LineOf(b)
      PROVE  /\ Cache!Held(a)' <=> Cache!Held(a)
             /\ Cache!Dirty(a)' <=> Cache!Dirty(a)
             /\ Cache!Held(a) => dcache'[Cache!IndexOf(a)] = dcache[Cache!IndexOf(a)]
  <2>1. CASE Cache!IndexOf(a) = Cache!IndexOf(b)
    <3>1. dcache[Cache!IndexOf(a)].line = Cache!LineOf(b) BY <2>1 DEF Cache!Held
    <3>2. ~Cache!Held(a) BY <1>5, <3>1 DEF Cache!Held
    <3>3. dcache'[Cache!IndexOf(a)] = NULL BY <1>1, <2>1 DEF CacheTypes
    <3> QED BY <3>2, <3>3 DEF Cache!Held, Cache!Dirty
  <2>2. CASE Cache!IndexOf(a) # Cache!IndexOf(b)
    <3>1. dcache'[Cache!IndexOf(a)] = dcache[Cache!IndexOf(a)] BY <1>1, <2>2 DEF CacheTypes
    <3> QED BY <3>1 DEF Cache!Held, Cache!Dirty
  <2> QED BY <2>1, <2>2
<1>6. CacheShrinks BY <1>4, <1>5 DEF CacheShrinks
<1>7. CacheData'
  <2> SUFFICES ASSUME NEW a \in Cache!Bytes
               PROVE  Cache!View(a)' = latest'[a] /\ (~Cache!Dirty(a)' => memory'[a] = latest'[a])
    BY DEF CacheData
  <2>1. CASE Cache!LineOf(a) = Cache!LineOf(b) BY <1>2, <1>4, <2>1 DEF Cache!View
  <2>2. CASE Cache!LineOf(a) # Cache!LineOf(b)
    <3>1. latest'[a] = latest[a] BY <1>2, <2>2
    <3>2. Cache!View(a)' = Cache!View(a) BY <1>5, <2>2 DEF Cache!View
    <3> QED BY <1>5, <2>2, <3>1, <3>2 DEF CacheData
  <2> QED BY <2>1, <2>2
<1> QED BY <1>3, <1>4, <1>6, <1>7

\* What clearing the dirty bit of a cache line leaves alone.
LEMMA RecordCleared ==
  ASSUME NEW L, NEW D, NEW d, NEW e,
         d \in [line : L, dirty : BOOLEAN, data : D], e = [d EXCEPT !.dirty = FALSE]
  PROVE  /\ e \in [line : L, dirty : BOOLEAN, data : D]
         /\ e.line = d.line /\ e.data = d.data /\ e.dirty = FALSE
OBVIOUS

\* A line that is cleaned is written back and stays.
LEMMA LineCleaned ==
  ASSUME CacheTypes, CacheData, NEW i \in Cache!Indices, memory' = Cache!WrittenBack(i),
         dcache' = [dcache EXCEPT ![i] = IF @ = NULL THEN @ ELSE [@ EXCEPT !.dirty = FALSE]],
         UNCHANGED latest
  PROVE  /\ CacheTypes' /\ CacheData' /\ CacheShrinks
         /\ \A a \in Cache!Bytes : Cache!IndexOf(a) = i => ~Cache!Dirty(a)'
<1>1. /\ memory' \in [Cache!Bytes -> Cache!ByteValues]
      /\ \A a \in Cache!Bytes :
           memory'[a] = IF Cache!Dirty(a) /\ Cache!IndexOf(a) = i THEN latest[a] ELSE memory[a]
  BY LineWrittenBack
<1>2. \A a \in Cache!Bytes : Cache!IndexOf(a) \in Cache!Indices BY CacheIndices
<1>3. ASSUME NEW j \in Cache!Indices
      PROVE  /\ dcache'[j] \in Cache!Lines \cup {NULL}
             /\ dcache'[j] = NULL <=> dcache[j] = NULL
             /\ dcache[j] # NULL => /\ dcache'[j].line = dcache[j].line
                                    /\ dcache'[j].data = dcache[j].data
                                    /\ dcache'[j].dirty = IF j = i THEN FALSE ELSE dcache[j].dirty
  <2>1. CASE j # i \/ dcache[j] = NULL BY <2>1 DEF CacheTypes
  <2>2. CASE j = i /\ dcache[j] # NULL
    <3>1. PICK a \in Cache!Bytes :
            dcache[j] \in [line : {Cache!LineOf(a)}, dirty : BOOLEAN,
                           data : [Cache!BytesOf(Cache!LineOf(a)) -> Cache!ByteValues]]
      BY <2>2 DEF CacheTypes, Cache!Lines
    <3>2. dcache'[j] = [dcache[j] EXCEPT !.dirty = FALSE] BY <2>2 DEF CacheTypes
    <3> DEFINE L == {Cache!LineOf(a)}
               D == [Cache!BytesOf(Cache!LineOf(a)) -> Cache!ByteValues]
               d == dcache[j]
               e == dcache'[j]
    <3>3. /\ e \in [line : L, dirty : BOOLEAN, data : D]
          /\ e.line = d.line /\ e.data = d.data /\ e.dirty = FALSE
      <4>1. d \in [line : L, dirty : BOOLEAN, data : D] BY <3>1
      <4>2. e = [d EXCEPT !.dirty = FALSE] BY <3>2
      <4> HIDE DEF L, D, d, e
      <4> QED BY <4>1, <4>2, RecordCleared, Zenon
    <3>4. dcache'[j] \in Cache!Lines BY <3>3, Zenon DEF Cache!Lines
    <3>5. dcache'[j] # NULL BY <3>4, CacheAssumption, Zenon
    <3> QED BY <2>2, <3>3, <3>4, <3>5, Zenon
  <2> QED BY <2>1, <2>2
<1>4. CacheTypes' BY <1>1, <1>3 DEF CacheTypes
<1>5. ASSUME NEW a \in Cache!Bytes
      PROVE  /\ Cache!Held(a)' <=> Cache!Held(a)
             /\ Cache!Dirty(a)' <=> Cache!Dirty(a) /\ Cache!IndexOf(a) # i
             /\ Cache!Held(a) =>
                  dcache'[Cache!IndexOf(a)].data = dcache[Cache!IndexOf(a)].data
  BY <1>2, <1>3 DEF Cache!Held, Cache!Dirty
<1>6. CacheShrinks BY <1>5 DEF CacheShrinks
<1>7. CacheData'
  <2> SUFFICES ASSUME NEW a \in Cache!Bytes
               PROVE  Cache!View(a)' = latest[a] /\ (~Cache!Dirty(a)' => memory'[a] = latest[a])
    BY DEF CacheData
  <2>1. Cache!Held(a) => Cache!View(a)' = Cache!View(a) BY <1>5 DEF Cache!View
  <2>2. ~Cache!Held(a) => Cache!View(a)' = memory[a] BY <1>1, <1>5 DEF Cache!View, Cache!Dirty
  <2> QED BY <1>1, <1>5, <2>1, <2>2 DEF CacheData, Cache!Dirty
<1> QED BY <1>4, <1>5, <1>6, <1>7

\* A line that is brought in, with what was written last, takes the place of one that is
\* written back first.
LEMMA LineFetched ==
  ASSUME CacheTypes, CacheData, NEW b \in Cache!Bytes, NEW dirty \in BOOLEAN,
         NEW contents \in [Cache!Bytes -> Cache!ByteValues],
         memory' = Cache!Fetched(b), Cache!Fill(b, dirty, contents),
         latest' \in [Cache!Bytes -> Cache!ByteValues],
         \A a \in Cache!Bytes :
           IF Cache!LineOf(a) = Cache!LineOf(b)
           THEN contents[a] = latest'[a] /\ (dirty \/ Cache!Dirty(a) \/ memory[a] = latest'[a])
           ELSE latest'[a] = latest[a],
         dirty \/ ~Cache!Held(b)
  PROVE  CacheTypes' /\ CacheData'
<1> DEFINE k == Cache!IndexOf(b)
<1> DEFINE new == [line |-> Cache!LineOf(b), dirty |-> dirty,
                   data |-> [a \in Cache!BytesOf(Cache!LineOf(b)) |-> contents[a]]]
<1>1. k \in Cache!Indices /\ \A a \in Cache!Bytes : Cache!IndexOf(a) \in Cache!Indices
  BY CacheIndices
<1>2. /\ dcache'[k] = new
      /\ \A j \in Cache!Indices : j # k => dcache'[j] = dcache[j]
      /\ DOMAIN dcache' = Cache!Indices
  BY <1>1 DEF Cache!Fill, CacheTypes
<1>3. new \in Cache!Lines /\ new # NULL
  <2>1. new.data \in [Cache!BytesOf(Cache!LineOf(b)) -> Cache!ByteValues] BY DEF Cache!BytesOf
  <2>2. new \in [line : {Cache!LineOf(b)}, dirty : BOOLEAN,
                 data : [Cache!BytesOf(Cache!LineOf(b)) -> Cache!ByteValues]]
    BY <2>1
  <2>3. new \in Cache!Lines BY <2>2 DEF Cache!Lines
  <2> QED BY <2>3, CacheAssumption
<1>4. /\ memory' \in [Cache!Bytes -> Cache!ByteValues]
      /\ \A a \in Cache!Bytes :
           memory'[a] = IF ~Cache!Held(b) /\ Cache!Dirty(a) /\ Cache!IndexOf(a) = k
                        THEN latest[a] ELSE memory[a]
  BY <1>1, LineWrittenBack DEF Cache!Fetched, CacheTypes
<1> HIDE DEF new
<1>5. CacheTypes'
  <2>1. dcache' \in [Cache!Indices -> Cache!Lines \cup {NULL}]
    <3>1. \A j \in Cache!Indices : dcache'[j] \in Cache!Lines \cup {NULL}
      BY <1>2, <1>3 DEF CacheTypes
    <3> QED BY <1>2, <3>1 DEF Cache!Fill, CacheTypes
  <2>2. ASSUME NEW j \in Cache!Indices, dcache'[j] # NULL, NEW a \in Cache!BytesOf(dcache'[j].line)
        PROVE  Cache!IndexOf(a) = j
    <3>1. CASE j = k
      <4>1. Cache!LineOf(a) = Cache!LineOf(b) BY <1>2, <2>2, <3>1, CacheIndices DEF new
      <4> QED BY <3>1, <4>1 DEF Cache!IndexOf
    <3>2. CASE j # k BY <1>2, <2>2, <3>2 DEF CacheTypes
    <3> QED BY <3>1, <3>2
  <2> QED BY <1>4, <2>1, <2>2 DEF CacheTypes
<1>6. ASSUME NEW a \in Cache!Bytes, Cache!LineOf(a) = Cache!LineOf(b)
      PROVE  /\ Cache!IndexOf(a) = k /\ Cache!Held(a)' /\ Cache!View(a)' = latest'[a]
             /\ ~Cache!Dirty(a)' => memory'[a] = latest'[a]
  <2>1. Cache!IndexOf(a) = k BY <1>6 DEF Cache!IndexOf
  <2>2. Cache!Held(a)' BY <1>2, <1>3, <1>6, <2>1 DEF Cache!Held, new
  <2>3. Cache!View(a)' = contents[a]
    BY <1>2, <1>6, <2>1, <2>2, CacheIndices DEF Cache!View, new
  <2>4. Cache!Dirty(a)' <=> dirty BY <1>2, <2>1, <2>2 DEF Cache!Dirty, new
  <2>5. ~dirty => ~Cache!Dirty(a) BY <1>6, <2>1 DEF Cache!Dirty, Cache!Held
  <2> QED BY <1>4, <1>6, <2>1, <2>2, <2>3, <2>4, <2>5
<1>7. ASSUME NEW a \in Cache!Bytes, Cache!LineOf(a) # Cache!LineOf(b)
      PROVE  Cache!View(a)' = latest[a] /\ (~Cache!Dirty(a)' => memory'[a] = latest[a])
  <2>1. CASE Cache!IndexOf(a) = k
    <3>1. ~Cache!Held(a)' BY <1>2, <1>7, <2>1 DEF Cache!Held, new
    <3>2. Cache!Held(b) => ~Cache!Dirty(a)
      BY <1>7, <2>1 DEF Cache!Held, Cache!Dirty
    <3> QED BY <1>4, <2>1, <3>1, <3>2 DEF CacheData, Cache!View, Cache!Dirty
  <2>2. CASE Cache!IndexOf(a) # k
    <3>1. dcache'[Cache!IndexOf(a)] = dcache[Cache!IndexOf(a)] BY <1>1, <1>2, <2>2
    <3>2. /\ Cache!Held(a)' <=> Cache!Held(a)
          /\ Cache!Dirty(a)' <=> Cache!Dirty(a)
          /\ memory'[a] = memory[a]
      BY <1>4, <2>2, <3>1 DEF Cache!Held, Cache!Dirty
    <3> QED BY <3>1, <3>2 DEF CacheData, Cache!View
  <2> QED BY <2>1, <2>2
<1>8. CacheData' BY <1>6, <1>7 DEF CacheData
<1> QED BY <1>5, <1>8

LEMMA LoadInv ==
  ASSUME CacheInv, NEW b \in Cache!Bytes, Cache!Load(b)
  PROVE  CacheInv'
<1>1. \A a \in Cache!Bytes : ~Cache!Dirty(a) => memory[a] = latest[a]
  BY DEF CacheInv, CacheData
<1>2. \A a \in Cache!Bytes : Cache!LineOf(a) = Cache!LineOf(b) => ~Cache!Dirty(a)
  BY DEF Cache!Load, Cache!Dirty, Cache!Held, Cache!IndexOf
<1>3. memory \in [Cache!Bytes -> Cache!ByteValues] /\ latest \in [Cache!Bytes -> Cache!ByteValues]
  BY DEF CacheInv, CacheTypes
<1>4. CacheTypes' /\ CacheData'
  BY <1>1, <1>2, <1>3, LineFetched DEF Cache!Load, CacheInv
<1> QED BY <1>4 DEF CacheInv, CacheProgress, Cache!Load

LEMMA StoreInv ==
  ASSUME CacheInv, NEW b \in Cache!Bytes, NEW v \in Cache!ByteValues, Cache!Store(b, v)
  PROVE  CacheInv'
<1> DEFINE contents == [a \in Cache!Bytes |-> IF a = b THEN v ELSE Cache!View(a)]
<1>1. \A a \in Cache!Bytes : Cache!View(a) = latest[a] /\ latest[a] \in Cache!ByteValues
  BY DEF CacheInv, CacheData, CacheTypes
<1>2. contents \in [Cache!Bytes -> Cache!ByteValues] BY <1>1
<1>3. /\ latest' \in [Cache!Bytes -> Cache!ByteValues]
      /\ \A a \in Cache!Bytes : latest'[a] = IF a = b THEN v ELSE latest[a]
  BY DEF Cache!Store, CacheInv, CacheTypes
<1>4. \A a \in Cache!Bytes : contents[a] = latest'[a] BY <1>1, <1>3
<1>5. memory' = Cache!Fetched(b) /\ Cache!Fill(b, TRUE, contents) BY DEF Cache!Store
<1> HIDE DEF contents
<1>6. CacheTypes' /\ CacheData'
  BY <1>2, <1>3, <1>4, <1>5, LineFetched DEF CacheInv
<1> QED BY <1>6 DEF CacheInv, CacheProgress, Cache!Store

\* The progress of a call when a line leaves or is written by the device.
LEMMA ProgressKept ==
  ASSUME CacheProgress, CacheShrinks, UNCHANGED op
  PROVE  CacheProgress'
BY DEF CacheProgress, CacheShrinks

LEMMA EvictInv ==
  ASSUME CacheInv, NEW i \in Cache!Indices, Cache!Evict(i)
  PROVE  CacheInv'
<1>1. CacheTypes' /\ CacheData' /\ CacheShrinks BY LineLeaves DEF Cache!Evict, CacheInv
<1>2. CacheProgress' BY <1>1, ProgressKept DEF CacheInv, Cache!Evict
<1> QED BY <1>1, <1>2 DEF CacheInv, Cache!Evict

LEMMA ReceiveInv ==
  ASSUME CacheInv, NEW b \in Cache!Bytes, NEW v \in Cache!ByteValues, Cache!Receive(b, v)
  PROVE  CacheInv'
<1>1. /\ ~Cache!Held(b) /\ UNCHANGED <<dcache, op>>
      /\ \A a \in Cache!Bytes : /\ memory'[a] = IF a = b THEN v ELSE memory[a]
                                /\ latest'[a] = IF a = b THEN v ELSE latest[a]
  BY DEF Cache!Receive, CacheInv, CacheTypes
<1>2. CacheTypes' BY <1>1 DEF Cache!Receive, CacheInv, CacheTypes
<1>3. \A a \in Cache!Bytes :
        (Cache!Held(a)' <=> Cache!Held(a)) /\ (Cache!Dirty(a)' <=> Cache!Dirty(a))
  BY <1>1 DEF Cache!Held, Cache!Dirty
<1>4. CacheData' BY <1>1, <1>3 DEF CacheInv, CacheData, Cache!View, Cache!Dirty
<1>5. CacheProgress' BY <1>1, <1>3, ProgressKept DEF CacheInv, CacheShrinks
<1> QED BY <1>1, <1>2, <1>4, <1>5 DEF CacheInv

\* An instruction takes its line out of the cache, or cleans what is at its index.
LEMMA InstructionDone ==
  ASSUME CacheInv, op # NULL, Cache!Instruction
  PROVE  /\ CacheTypes' /\ CacheData' /\ CacheShrinks
         /\ op.call # "alt_dcache_flush_all" =>
              \A a \in Cache!Bytes :
                op.i \in Cache!Bytes /\ Cache!LineOf(a) = Cache!LineOf(op.i) => ~Cache!Held(a)'
         /\ op.call = "alt_dcache_flush_all" =>
              \A a \in Cache!Bytes : Cache!IndexOf(a) = Cache!IndexOf(op.i) => ~Cache!Dirty(a)'
<1> USE DEF CacheInv
<1>1. op \in Cache!Calls /\ op.i \in Nat BY DEF Cache!Calls
<1>2. Cache!IndexOf(op.i) \in Cache!Indices BY <1>1, CacheIndices
<1>3. ASSUME UNCHANGED <<memory, dcache, latest>>
      PROVE  /\ CacheTypes' /\ CacheData' /\ CacheShrinks
             /\ \A a \in Cache!Bytes : Cache!Held(a)' <=> Cache!Held(a)
  BY <1>3 DEF CacheTypes, CacheData, CacheShrinks, Cache!View, Cache!Held, Cache!Dirty
<1>4. CASE op.call = "alt_dcache_flush"
  <2>1. Cache!ALT_FLUSH_DATA(op.i) BY <1>4 DEF Cache!Instruction
  <2>2. CASE op.i \in Cache!Bytes /\ Cache!Held(op.i)
    <3>1. /\ CacheTypes' /\ CacheData' /\ CacheShrinks
          /\ \A a \in Cache!Bytes : Cache!IndexOf(a) = Cache!IndexOf(op.i) => ~Cache!Held(a)'
      BY <1>2, <2>1, <2>2, LineLeaves DEF Cache!ALT_FLUSH_DATA
    <3> QED BY <1>4, <3>1 DEF Cache!IndexOf
  <2>3. CASE ~(op.i \in Cache!Bytes /\ Cache!Held(op.i))
    <3>1. UNCHANGED <<memory, dcache, latest>> BY <2>1, <2>3 DEF Cache!ALT_FLUSH_DATA
    <3> QED BY <1>3, <1>4, <2>3, <3>1 DEF Cache!Held, Cache!IndexOf
  <2> QED BY <2>2, <2>3
<1>5. CASE op.call = "alt_dcache_flush_no_writeback"
  <2>1. Cache!ALT_INVALIDATE_DATA(op.i) BY <1>5 DEF Cache!Instruction
  <2>2. CASE op.i \in Cache!Bytes /\ Cache!Held(op.i)
    <3>1. /\ CacheTypes' /\ CacheData' /\ CacheShrinks
          /\ \A a \in Cache!Bytes : Cache!LineOf(a) = Cache!LineOf(op.i) => ~Cache!Held(a)'
      BY <2>1, <2>2, LineGivenUp DEF Cache!ALT_INVALIDATE_DATA
    <3> QED BY <1>5, <3>1
  <2>3. CASE ~(op.i \in Cache!Bytes /\ Cache!Held(op.i))
    <3>1. UNCHANGED <<memory, dcache, latest>> BY <2>1, <2>3 DEF Cache!ALT_INVALIDATE_DATA
    <3> QED BY <1>3, <1>5, <2>3, <3>1 DEF Cache!Held, Cache!IndexOf
  <2> QED BY <2>2, <2>3
<1>6. CASE op.call = "alt_dcache_flush_all"
  <2>1. Cache!DCACHE_CLEAN_BY_INDEX_VAL(op.i) BY <1>6 DEF Cache!Instruction
  <2>2. /\ CacheTypes' /\ CacheData' /\ CacheShrinks
        /\ \A a \in Cache!Bytes : Cache!IndexOf(a) = Cache!IndexOf(op.i) => ~Cache!Dirty(a)'
    BY <1>2, <2>1, LineCleaned DEF Cache!DCACHE_CLEAN_BY_INDEX_VAL
  <2> QED BY <1>6, <2>2
<1> QED BY <1>1, <1>4, <1>5, <1>6 DEF Cache!Calls

\* Below the index that a flush of all has reached, and at it, is all that was not passed
\* before: the indices do not wrap around before the end.
LEMMA IndexReached ==
  ASSUME NEW a \in Cache!Bytes, NEW i \in Nat, Cache!IndexOf(a) = Cache!LineOf(i)
  PROVE  Cache!IndexOf(a) = Cache!IndexOf(i)
<1> DEFINE N == ALT_CPU_DCACHE_SIZE \div ALT_CPU_DCACHE_LINE_SIZE
<1>1. Cache!IndexOf(a) \in 0 .. (N - 1) BY CacheIndices DEF Cache!Indices
<1>2. N \in Nat BY CacheAssumption, Divided
<1>3. Cache!LineOf(i) % N = Cache!LineOf(i)
  <2>1. Cache!LineOf(i) \in 0 .. (N - 1) /\ N \in Nat \ {0} BY <1>1, <1>2
  <2>2. Cache!LineOf(i) = N * 0 + Cache!LineOf(i) BY <1>2, CacheIndices
  <2> HIDE DEF N
  <2> QED BY <2>1, <2>2, Quotient
<1> QED BY <1>3 DEF Cache!IndexOf

LEMMA LineInv ==
  ASSUME CacheInv, Cache!Line
  PROVE  CacheInv'
<1>1. op # NULL /\ ~op.done /\ op.i < op.end /\ op \in Cache!Calls /\ Cache!Instruction
  BY DEF Cache!Line, CacheInv
<1>2. op' = [op EXCEPT !.i = @ + ALT_CPU_DCACHE_LINE_SIZE] BY DEF Cache!Line
<1>3. /\ op.i \in Nat /\ op.start \in Nat /\ op.end \in Nat
      /\ op'.call = op.call /\ op'.start = op.start /\ op'.end = op.end /\ op'.done = op.done
      /\ op'.i = op.i + ALT_CPU_DCACHE_LINE_SIZE /\ op' \in Cache!Calls
  BY <1>1, <1>2, CacheIndices DEF Cache!Calls
<1>4. /\ Cache!LineOf(op'.i) = Cache!LineOf(op.i) + 1
      /\ op'.i % ALT_CPU_DCACHE_LINE_SIZE = op.i % ALT_CPU_DCACHE_LINE_SIZE
  BY <1>3, CacheIndices, Divided DEF Cache!LineOf
<1>5. /\ CacheTypes' /\ CacheData' /\ CacheShrinks
      /\ op.call # "alt_dcache_flush_all" =>
           \A a \in Cache!Bytes :
             op.i \in Cache!Bytes /\ Cache!LineOf(a) = Cache!LineOf(op.i) => ~Cache!Held(a)'
      /\ op.call = "alt_dcache_flush_all" =>
           \A a \in Cache!Bytes : Cache!IndexOf(a) = Cache!IndexOf(op.i) => ~Cache!Dirty(a)'
  BY <1>1, InstructionDone
<1>6. CacheProgress BY DEF CacheInv
<1>7. ASSUME NEW a \in Cache!Bytes
      PROVE  IF op.call = "alt_dcache_flush_all"
             THEN Cache!IndexOf(a) < Cache!LineOf(op'.i) => ~Cache!Dirty(a)'
             ELSE /\ op.start <= a /\ a < op.end /\ Cache!LineOf(a) < Cache!LineOf(op'.i)
                  => ~Cache!Held(a)'
  <2>1. /\ a \in Nat /\ Cache!LineOf(a) \in Nat /\ Cache!LineOf(op.i) \in Nat
        /\ Cache!IndexOf(a) \in Nat
    BY <1>3, CacheIndices DEF Cache!Indices
  <2>2. CASE op.call = "alt_dcache_flush_all"
    <3> SUFFICES ASSUME Cache!IndexOf(a) < Cache!LineOf(op'.i) PROVE ~Cache!Dirty(a)' BY <2>2
    <3>1. CASE Cache!IndexOf(a) < Cache!LineOf(op.i)
      BY <1>1, <1>5, <1>6, <2>2, <3>1 DEF CacheProgress, CacheShrinks
    <3>2. CASE Cache!IndexOf(a) = Cache!LineOf(op.i)
      BY <1>3, <1>5, <2>2, <3>2, IndexReached
    <3> QED BY <1>4, <2>1, <3>1, <3>2
  <2>3. CASE op.call # "alt_dcache_flush_all"
    <3> SUFFICES ASSUME op.start <= a, a < op.end, Cache!LineOf(a) < Cache!LineOf(op'.i)
                 PROVE  ~Cache!Held(a)'
      BY <2>3
    <3>1. CASE Cache!LineOf(a) < Cache!LineOf(op.i)
      BY <1>1, <1>5, <1>6, <2>3, <3>1 DEF CacheProgress, CacheShrinks
    <3>2. CASE Cache!LineOf(a) = Cache!LineOf(op.i)
      <4>1. op.i \in Cache!Bytes
        BY <1>1, <1>3, <1>6, <2>3, CacheIndices DEF CacheProgress, Cache!Bytes
      <4> QED BY <1>5, <2>3, <3>2, <4>1
    <3> QED BY <1>4, <2>1, <3>1, <3>2
  <2> QED BY <2>2, <2>3
<1>8. CacheProgress'
  <2>1. op' # NULL BY <1>3, CacheAssumption
  <2>2. op.start % ALT_CPU_DCACHE_LINE_SIZE = 0 => op'.i % ALT_CPU_DCACHE_LINE_SIZE = 0
    BY <1>1, <1>4, <1>6 DEF CacheProgress
  <2>3. /\ op.call = "alt_dcache_flush_all" => op.start = 0 /\ op.end = ALT_CPU_DCACHE_SIZE
        /\ op.call # "alt_dcache_flush_all" => op.end <= MemorySize
    BY <1>1, <1>6 DEF CacheProgress
  <2> QED BY <1>1, <1>3, <1>7, <2>1, <2>2, <2>3 DEF CacheProgress
<1> QED BY <1>3, <1>5, <1>8 DEF CacheInv

LEMMA LastLineInv ==
  ASSUME CacheInv, Cache!LastLine
  PROVE  CacheInv'
<1>1. op # NULL /\ ~op.done /\ op.i >= op.end /\ op \in Cache!Calls
  BY DEF Cache!LastLine, CacheInv
<1>2. op' = [op EXCEPT !.done = TRUE] BY DEF Cache!LastLine
<1>3. /\ op.i \in Nat /\ op.start \in Nat /\ op.end \in Nat
      /\ op'.call = op.call /\ op'.start = op.start /\ op'.end = op.end /\ op'.i = op.i
      /\ op' \in Cache!Calls
  BY <1>1, <1>2 DEF Cache!Calls
<1>4. CacheProgress BY DEF CacheInv
<1>5. CASE op.start % ALT_CPU_DCACHE_LINE_SIZE = 0
  <2>1. UNCHANGED <<memory, dcache, latest>> BY <1>5 DEF Cache!LastLine
  <2>2. CacheTypes' /\ CacheData' /\ \A a \in Cache!Bytes : /\ Cache!Held(a)' <=> Cache!Held(a)
                                                            /\ Cache!Dirty(a)' <=> Cache!Dirty(a)
    BY <2>1 DEF CacheInv, CacheTypes, CacheData, Cache!View, Cache!Held, Cache!Dirty
  <2>3. op.i % ALT_CPU_DCACHE_LINE_SIZE = 0 BY <1>1, <1>4, <1>5 DEF CacheProgress
  <2>4. ASSUME NEW a \in Cache!Bytes, op.call # "alt_dcache_flush_all",
               op.start <= a, a < op.end
        PROVE  ~Cache!Held(a)
    <3>1. a \in Nat /\ a < op.i /\ a <= op.i BY <1>1, <1>3, <2>4, CacheIndices
    <3>2. Cache!LineOf(a) < Cache!LineOf(op.i)
      BY <1>3, <2>3, <3>1, CacheIndices, DividedInOrder DEF Cache!LineOf
    <3> QED BY <1>1, <1>4, <2>4, <3>2 DEF CacheProgress
  <2>5. ASSUME NEW a \in Cache!Bytes, op.call = "alt_dcache_flush_all" PROVE ~Cache!Dirty(a)
    <3>1. op.i >= ALT_CPU_DCACHE_SIZE BY <1>1, <1>4, <2>5 DEF CacheProgress
    <3>2. Cache!LineOf(op.i) >= ALT_CPU_DCACHE_SIZE \div ALT_CPU_DCACHE_LINE_SIZE
      BY <1>3, <3>1, CacheAssumption, DividedInOrder DEF Cache!LineOf
    <3>3. /\ ALT_CPU_DCACHE_SIZE \div ALT_CPU_DCACHE_LINE_SIZE \in Nat
          /\ Cache!LineOf(op.i) \in Nat /\ a \in Nat
      BY <1>3, CacheAssumption, CacheIndices, Divided
    <3>4. /\ Cache!IndexOf(a) \in Nat
          /\ Cache!IndexOf(a) < ALT_CPU_DCACHE_SIZE \div ALT_CPU_DCACHE_LINE_SIZE
      <4>1. Cache!IndexOf(a) \in Cache!Indices BY <3>3, CacheIndices
      <4> QED BY <3>3, <4>1 DEF Cache!Indices
    <3>5. Cache!IndexOf(a) < Cache!LineOf(op.i) BY <3>2, <3>3, <3>4
    <3> QED BY <1>1, <1>4, <2>5, <3>5 DEF CacheProgress
  <2>6. CacheProgress' BY <1>1, <1>3, <1>4, <2>2, <2>4, <2>5 DEF CacheProgress
  <2> QED BY <1>3, <2>2, <2>6 DEF CacheInv
<1>6. CASE op.start % ALT_CPU_DCACHE_LINE_SIZE # 0
  <2>1. Cache!Instruction BY <1>6 DEF Cache!LastLine
  <2>2. op.call # "alt_dcache_flush_all"
    <3>1. 0 % ALT_CPU_DCACHE_LINE_SIZE = 0 BY CacheAssumption
    <3> QED BY <1>1, <1>4, <1>6, <3>1 DEF CacheProgress
  <2>3. /\ CacheTypes' /\ CacheData' /\ CacheShrinks
        /\ \A a \in Cache!Bytes :
             op.i \in Cache!Bytes /\ Cache!LineOf(a) = Cache!LineOf(op.i) => ~Cache!Held(a)'
    BY <1>1, <2>1, <2>2, InstructionDone
  <2>4. ASSUME NEW a \in Cache!Bytes, op.start <= a, a < op.end PROVE ~Cache!Held(a)'
    <3>1. a \in Nat /\ a <= op.i /\ Cache!LineOf(a) \in Nat /\ Cache!LineOf(op.i) \in Nat
      BY <1>1, <1>3, <2>4, CacheIndices
    <3>2. Cache!LineOf(a) <= Cache!LineOf(op.i)
      BY <1>3, <3>1, CacheIndices, DividedInOrder DEF Cache!LineOf
    <3>3. CASE Cache!LineOf(a) < Cache!LineOf(op.i)
      BY <1>1, <1>4, <2>2, <2>3, <2>4, <3>3 DEF CacheProgress, CacheShrinks
    <3>4. CASE Cache!LineOf(a) = Cache!LineOf(op.i)
      <4>1. op.i < MemorySize
        <5> SUFFICES ASSUME MemorySize <= op.i PROVE FALSE BY <1>3, CacheIndices
        <5>1. a < MemorySize BY CacheIndices DEF Cache!Bytes
        <5>2. MemorySize % ALT_CPU_DCACHE_LINE_SIZE = 0 BY CacheAssumption
        <5>3. Cache!LineOf(a) < Cache!LineOf(MemorySize)
          BY <3>1, <5>1, <5>2, CacheIndices, DividedInOrder DEF Cache!LineOf
        <5>4. Cache!LineOf(MemorySize) <= Cache!LineOf(op.i)
          BY <1>3, CacheIndices, DividedInOrder DEF Cache!LineOf
        <5>5. Cache!LineOf(MemorySize) \in Nat BY CacheIndices
        <5> QED BY <3>1, <3>4, <5>3, <5>4, <5>5
      <4>2. op.i \in Cache!Bytes BY <1>3, <4>1, CacheIndices DEF Cache!Bytes
      <4> QED BY <2>3, <3>4, <4>2
    <3> QED BY <3>1, <3>2, <3>3, <3>4
  <2>5. CacheProgress' BY <1>1, <1>3, <1>4, <2>2, <2>4, <1>6 DEF CacheProgress
  <2> QED BY <1>3, <2>3, <2>5 DEF CacheInv
<1> QED BY <1>5, <1>6

LEMMA BeginInv ==
  ASSUME CacheInv, NEW routine, NEW start \in Nat, NEW len \in Nat, Cache!Begin(routine, start, len),
         \/ /\ routine \in {"alt_dcache_flush", "alt_dcache_flush_no_writeback"}
            /\ start + len <= MemorySize
         \/ routine = "alt_dcache_flush_all" /\ start = 0 /\ len = ALT_CPU_DCACHE_SIZE
  PROVE  CacheInv'
<1>1. /\ op' = [call |-> routine, start |-> start, end |-> start + len, i |-> start, done |-> FALSE]
      /\ UNCHANGED <<memory, dcache, latest>>
  BY DEF Cache!Begin
<1>2. CacheTypes' /\ CacheData'
  BY <1>1 DEF CacheInv, CacheTypes, CacheData, Cache!View, Cache!Held, Cache!Dirty
<1>3. op' \in Cache!Calls BY <1>1 DEF Cache!Calls
<1>4. CacheProgress'
  <2>1. ASSUME NEW a \in Cache!Bytes, start <= a PROVE ~(Cache!LineOf(a) < Cache!LineOf(start))
    <3>1. Cache!LineOf(start) <= Cache!LineOf(a)
      BY <2>1, CacheIndices, DividedInOrder DEF Cache!LineOf
    <3>2. Cache!LineOf(start) \in Nat /\ Cache!LineOf(a) \in Nat BY CacheIndices
    <3> QED BY <3>1, <3>2
  <2>2. ASSUME NEW a \in Cache!Bytes PROVE ~(Cache!IndexOf(a) < Cache!LineOf(0))
    <3>1. Cache!LineOf(0) = 0 BY CacheAssumption DEF Cache!LineOf
    <3>2. Cache!IndexOf(a) \in Nat BY CacheIndices DEF Cache!Indices
    <3> QED BY <3>1, <3>2
  <2> QED BY <1>1, <2>1, <2>2, CacheAssumption DEF CacheProgress
<1> QED BY <1>2, <1>3, <1>4 DEF CacheInv

LEMMA CacheStep == CacheInv /\ [Cache!Next]_caches => CacheInv'
<1> SUFFICES ASSUME CacheInv, [Cache!Next]_caches PROVE CacheInv' OBVIOUS
<1>1. CASE UNCHANGED caches
  BY <1>1 DEF caches, CacheInv, CacheTypes, CacheData, CacheProgress, Cache!View, Cache!Held,
    Cache!Dirty
<1>2. ASSUME NEW a \in Cache!Bytes, Cache!Load(a) PROVE CacheInv' BY <1>2, LoadInv
<1>3. ASSUME NEW a \in Cache!Bytes, NEW v \in Cache!ByteValues, Cache!Store(a, v) \/ Cache!Receive(a, v)
      PROVE  CacheInv'
  BY <1>3, StoreInv, ReceiveInv
<1>4. ASSUME NEW i \in Cache!Indices, Cache!Evict(i) PROVE CacheInv' BY <1>4, EvictInv
<1>5. ASSUME NEW a \in Cache!Bytes,
             NEW routine \in {"alt_dcache_flush", "alt_dcache_flush_no_writeback"},
             NEW len \in 0 .. (MemorySize - a), Cache!Begin(routine, a, len)
      PROVE  CacheInv'
  <2>1. a \in Nat /\ len \in Nat /\ a + len <= MemorySize BY CacheIndices
  <2> QED BY <1>5, <2>1, BeginInv
<1>6. CASE Cache!Begin("alt_dcache_flush_all", 0, ALT_CPU_DCACHE_SIZE)
  BY <1>6, BeginInv, CacheAssumption
<1>7. CASE Cache!Line BY <1>7, LineInv
<1>8. CASE Cache!LastLine BY <1>8, LastLineInv
<1>9. CASE Cache!Return
  BY <1>9 DEF Cache!Return, CacheInv, CacheTypes, CacheData, CacheProgress, Cache!View,
    Cache!Held, Cache!Dirty
<1> QED BY <1>1, <1>2, <1>3, <1>4, <1>5, <1>6, <1>7, <1>8, <1>9 DEF Cache!Next

LEMMA CacheSound == CacheInv => Cache!CachesAreSound
<1> SUFFICES ASSUME CacheInv PROVE Cache!CachesAreSound OBVIOUS
<1>1. Cache!WritesAreKept BY DEF CacheInv, CacheData, Cache!WritesAreKept
<1>2. Cache!RegionIsInMemory BY DEF CacheInv, CacheProgress, Cache!RegionIsInMemory
<1> QED BY <1>1, <1>2 DEF Cache!CachesAreSound

-----------------------------------------------------------------------------
(* The configuration of the interrupt controller *)

Config ==
  [Codes -> [level : Nat, priority : Nat, trigger : Nat, rest : Nat, enable : BOOLEAN]]

Words == [0 .. 3 -> 0 .. 255]

ClicTypes ==
  /\ clicintctl \in [Codes -> 0 .. 255] /\ clicintattr \in [Codes -> 0 .. 255]
  /\ clicintie \subseteq Codes /\ config \in Config
  /\ MISELECT \in [kind : {"ctl_attr", "ip_ie"}, index : Nat]
  /\ open \in BOOLEAN /\ suspect \subseteq Codes /\ made \in 0 .. MaxRequests
  /\ step \in {"idle", "read", "write"}
  /\ step # "idle" => request \in Configuration!Requests
  /\ step = "idle" => request = NULL
  /\ step = "read" => request.field # "enable"
  /\ step = "write" /\ request.field # "enable" => mireg_val \in Words

\* The bytes and enable bits say of interrupt c what cfg does.
Described(ctl, attr, ie, cfg, c) ==
  /\ Configuration!level_bits_of(ctl[c]) = cfg[c].level
  /\ Configuration!priority_bits_of(ctl[c]) = cfg[c].priority
  /\ Configuration!trigger_of(attr[c]) = cfg[c].trigger
  /\ Configuration!rest_of(attr[c]) = cfg[c].rest
  /\ c \in ie <=> cfg[c].enable

\* What the bytes and enable bits are once the call r has been made.
CtlAfter(r) ==
  [c \in Codes |-> IF c = r.code /\ r.field \in Configuration!CtlFields
                   THEN Configuration!NewCtl(clicintctl[c], r.field, r.value)
                   ELSE clicintctl[c]]
AttrAfter(r) ==
  [c \in Codes |-> IF c = r.code /\ r.field \in Configuration!AttrFields
                   THEN Configuration!NewAttr(clicintattr[c], r.field, r.value)
                   ELSE clicintattr[c]]
IeAfter(r) ==
  IF r.field # "enable" THEN clicintie
  ELSE IF r.value THEN clicintie \cup {r.code} ELSE clicintie \ {r.code}

\* A call that no handler came into still has its register selected, and has read what the
\* register holds; of any other, the interrupts of its register and of the one selected now are
\* suspect.
Undisturbed ==
  /\ MISELECT = Configuration!RegisterOf(request)
  /\ step = "write" /\ request.field # "enable" =>
       mireg_val = Configuration!ReadOf(request, MISELECT, {})
Disturbed ==
  Configuration!Of(Configuration!RegisterOf(request)) \cup Configuration!Of(MISELECT)
    \subseteq suspect

\* The interrupts that are not suspect are as asked, or will be when the call in progress is over.
ConfigInv ==
  /\ step = "idle" =>
       \A c \in Codes \ suspect : Described(clicintctl, clicintattr, clicintie, config, c)
  /\ step # "idle" =>
       /\ Undisturbed \/ Disturbed
       /\ \A c \in Codes \ suspect :
            Described(CtlAfter(request), AttrAfter(request), IeAfter(request), config, c)

ClicInv == ClicTypes /\ ConfigInv

\* Powers of two.
LEMMA PowersOfTwo ==
  LET p(n) == Configuration!TwoTo(n)
  IN  /\ p(0) = 1 /\ p(1) = 2 /\ p(2) = 4 /\ p(3) = 8 /\ p(4) = 16
      /\ p(5) = 32 /\ p(6) = 64 /\ p(7) = 128 /\ p(8) = 256
BY DEF Configuration!TwoTo

LEMMA PowersMultiply ==
  ASSUME NEW a \in 0 .. 8, NEW b \in 0 .. 8, a + b <= 8
  PROVE  /\ Configuration!TwoTo(a + b) = Configuration!TwoTo(a) * Configuration!TwoTo(b)
         /\ Configuration!TwoTo(a) \in Nat \ {0}
<1>1. a \in {0, 1, 2, 3, 4, 5, 6, 7, 8} /\ b \in {0, 1, 2, 3, 4, 5, 6, 7, 8} OBVIOUS
<1>2. CASE a = 0 BY <1>1, <1>2, PowersOfTwo
<1>3. CASE a = 1 BY <1>1, <1>3, PowersOfTwo
<1>4. CASE a = 2 BY <1>1, <1>4, PowersOfTwo
<1>5. CASE a = 3 BY <1>1, <1>5, PowersOfTwo
<1>6. CASE a = 4 BY <1>1, <1>6, PowersOfTwo
<1>7. CASE a = 5 BY <1>1, <1>7, PowersOfTwo
<1>8. CASE a = 6 BY <1>1, <1>8, PowersOfTwo
<1>9. CASE a = 7 BY <1>1, <1>9, PowersOfTwo
<1>10. CASE a = 8 BY <1>1, <1>10, PowersOfTwo
<1> QED BY <1>1, <1>2, <1>3, <1>4, <1>5, <1>6, <1>7, <1>8, <1>9, <1>10

\* The level takes the high bits of a byte, the priority those below.
LEMMA FieldWidths ==
  LET A == Configuration!TwoTo(Configuration!LEVEL_SHIFT)
      B == Configuration!TwoTo(Configuration!PRIORITY_SHIFT)
      P == Configuration!TwoTo(PriorityBits)
      V == Configuration!TwoTo(LevelBits)
  IN  /\ A \in Nat \ {0} /\ B \in Nat \ {0} /\ P \in Nat \ {0} /\ V \in Nat \ {0}
      /\ A = P * B /\ V * A = 256
<1> DEFINE ls == 8 - LevelBits
           ps == 8 - (LevelBits + PriorityBits)
<1>1. /\ LevelBits \in 0 .. 8 /\ PriorityBits \in 0 .. 8 /\ ls \in 0 .. 8 /\ ps \in 0 .. 8
      /\ PriorityBits + ps = ls /\ LevelBits + ls = 8
  BY ClicAssumption
<1> HIDE DEF ls, ps
<1>2. /\ Configuration!TwoTo(ls) = Configuration!TwoTo(PriorityBits) * Configuration!TwoTo(ps)
      /\ Configuration!TwoTo(PriorityBits) \in Nat \ {0}
  <2>1. PriorityBits + ps <= 8 BY <1>1
  <2>2. /\ Configuration!TwoTo(PriorityBits + ps) =
             Configuration!TwoTo(PriorityBits) * Configuration!TwoTo(ps)
        /\ Configuration!TwoTo(PriorityBits) \in Nat \ {0}
    BY <1>1, <2>1, PowersMultiply
  <2> QED BY <1>1, <2>2
<1>3. /\ Configuration!TwoTo(8) = Configuration!TwoTo(LevelBits) * Configuration!TwoTo(ls)
      /\ Configuration!TwoTo(LevelBits) \in Nat \ {0}
  <2>1. LevelBits + ls <= 8 BY <1>1
  <2>2. /\ Configuration!TwoTo(LevelBits + ls) =
             Configuration!TwoTo(LevelBits) * Configuration!TwoTo(ls)
        /\ Configuration!TwoTo(LevelBits) \in Nat \ {0}
    BY <1>1, <2>1, PowersMultiply
  <2> QED BY <1>1, <2>2
<1>4. Configuration!TwoTo(ls) \in Nat \ {0} /\ Configuration!TwoTo(ps) \in Nat \ {0}
  <2>1. ls + 0 = ls /\ ps + 0 = ps /\ 0 \in 0 .. 8 /\ ls + 0 <= 8 /\ ps + 0 <= 8 BY <1>1
  <2> QED BY <1>1, <2>1, PowersMultiply
<1>5. ls = Configuration!LEVEL_SHIFT /\ ps = Configuration!PRIORITY_SHIFT
  BY DEF ls, ps, Configuration!LEVEL_SHIFT, Configuration!PRIORITY_SHIFT
<1> QED BY <1>2, <1>3, <1>4, <1>5, PowersOfTwo

\* A byte put together has the fields it was put together from.
LEMMA CtlByte ==
  ASSUME NEW l \in 0 .. (Configuration!TwoTo(LevelBits) - 1),
         NEW p \in 0 .. (Configuration!TwoTo(PriorityBits) - 1)
  PROVE  /\ Configuration!level_bits_of(Configuration!encode_ctl_byte(l, p)) = l
         /\ Configuration!priority_bits_of(Configuration!encode_ctl_byte(l, p)) = p
         /\ Configuration!encode_ctl_byte(l, p) \in 0 .. 255
<1> DEFINE A == Configuration!TwoTo(Configuration!LEVEL_SHIFT)
           B == Configuration!TwoTo(Configuration!PRIORITY_SHIFT)
           P == Configuration!TwoTo(PriorityBits)
           V == Configuration!TwoTo(LevelBits)
           low == p * B + (B - 1)
           byte == l * A + p * B + (B - 1)
<1>1. /\ A \in Nat \ {0} /\ B \in Nat \ {0} /\ P \in Nat \ {0} /\ V \in Nat \ {0}
      /\ A = P * B /\ V * A = 256
  BY FieldWidths
<1>2. l \in Nat /\ p \in Nat /\ l < V /\ p < P BY <1>1
<1> HIDE DEF A, B, P, V
<1>3. low \in 0 .. (A - 1)
  <2>1. PICK d \in Nat : P = p + 1 + d BY <1>1, <1>2, Apart
  <2>2. A = p * B + B + d * B BY <1>1, <1>2, <2>1
  <2>3. d * B \in Nat /\ p * B \in Nat BY <1>1, <1>2
  <2> QED BY <1>1, <2>2, <2>3
<1>4. byte = A * l + low /\ low = B * p + (B - 1) /\ byte \in Nat BY <1>1, <1>2
<1> HIDE DEF low, byte
<1>5. byte \div A = l /\ byte % A = low
  <2>1. byte \in Int /\ l \in Int /\ byte = A * l + low BY <1>2, <1>4
  <2> QED BY <1>1, <1>3, <2>1, Quotient, SMTT(30)
<1>6. low \div B = p BY <1>1, <1>2, <1>3, <1>4, Quotient
<1>7. byte <= 255
  <2>1. PICK d \in Nat : V = l + 1 + d BY <1>1, <1>2, Apart
  <2>2. 256 = A * l + A + d * A BY <1>1, <1>2, <2>1
  <2>3. d * A \in Nat /\ A * l \in Nat BY <1>1, <1>2
  <2> QED BY <1>1, <1>3, <1>4, <2>2, <2>3
<1>8. Configuration!encode_ctl_byte(l, p) = byte
  BY DEF Configuration!encode_ctl_byte, byte, A, B
<1> QED BY <1>4, <1>5, <1>6, <1>7, <1>8
  DEF Configuration!level_bits_of, Configuration!priority_bits_of, A, B

LEMMA CtlByteFields ==
  ASSUME NEW byte \in 0 .. 255
  PROVE  /\ Configuration!level_bits_of(byte) \in 0 .. (Configuration!TwoTo(LevelBits) - 1)
         /\ Configuration!priority_bits_of(byte) \in 0 .. (Configuration!TwoTo(PriorityBits) - 1)
<1> DEFINE A == Configuration!TwoTo(Configuration!LEVEL_SHIFT)
           B == Configuration!TwoTo(Configuration!PRIORITY_SHIFT)
           P == Configuration!TwoTo(PriorityBits)
           V == Configuration!TwoTo(LevelBits)
           q == byte \div A
           r == byte % A
           s == r \div B
<1>1. /\ A \in Nat \ {0} /\ B \in Nat \ {0} /\ P \in Nat \ {0} /\ V \in Nat \ {0}
      /\ A = P * B /\ V * A = 256
  BY FieldWidths
<1> HIDE DEF A, B, P, V, q, r, s
<1>2. q \in Nat /\ r \in 0 .. (A - 1) /\ byte = A * q + r
  <2>1. byte \in Nat OBVIOUS
  <2> QED BY <1>1, <2>1, Divided DEF q, r
<1>3. s \in Nat /\ r % B \in 0 .. (B - 1) /\ r = B * s + (r % B)
  <2>1. r \in Nat BY <1>1, <1>2
  <2> QED BY <1>1, <2>1, Divided DEF s
<1>4. q < V
  <2> SUFFICES ASSUME V <= q PROVE FALSE BY <1>1, <1>2
  <2>1. PICK d \in Nat : q + 1 = V + 1 + d BY <1>1, <1>2, Apart
  <2>2. A * q = V * A + d * A
    <3>1. q = V + d BY <1>1, <1>2, <2>1
    <3> QED BY <1>1, <3>1
  <2>3. d * A \in Nat BY <1>1
  <2> QED BY <1>1, <1>2, <2>2, <2>3
<1>5. s < P
  <2> SUFFICES ASSUME P <= s PROVE FALSE BY <1>1, <1>3
  <2>1. PICK d \in Nat : s + 1 = P + 1 + d BY <1>1, <1>3, Apart
  <2>2. B * s = P * B + d * B
    <3>1. s = P + d BY <1>1, <1>3, <2>1
    <3> QED BY <1>1, <3>1
  <2>3. d * B \in Nat BY <1>1
  <2> QED BY <1>1, <1>2, <1>3, <2>2, <2>3
<1>6. Configuration!level_bits_of(byte) = q /\ Configuration!priority_bits_of(byte) = s
  BY DEF Configuration!level_bits_of, Configuration!priority_bits_of, q, r, s, A, B
<1> QED BY <1>1, <1>2, <1>3, <1>4, <1>5, <1>6 DEF P, V

\* A trigger mode takes two bits of its byte and leaves the rest.
LEMMA AttrByte ==
  ASSUME NEW attr \in 0 .. 255, NEW mode \in 0 .. 3
  PROVE  /\ Configuration!trigger_of(Configuration!WithTrigger(attr, mode)) = mode
         /\ Configuration!rest_of(Configuration!WithTrigger(attr, mode)) =
              Configuration!rest_of(attr)
         /\ Configuration!WithTrigger(attr, mode) \in 0 .. 255
<1>1. PICK q \in 0 .. 31, t \in 0 .. 3, b \in 0 .. 1 : attr = 8 * q + 2 * t + b
  <2> DEFINE q == attr \div 8
             t == (attr % 8) \div 2
             b == attr % 2
  <2>1. q \in 0 .. 31 /\ t \in 0 .. 3 /\ b \in 0 .. 1 /\ attr = 8 * q + 2 * t + b OBVIOUS
  <2> QED BY <2>1
<1>2. ASSUME NEW m \in 0 .. 3, NEW a \in 0 .. 255, a = 8 * q + 2 * m + b
      PROVE  Configuration!trigger_of(a) = m /\ Configuration!rest_of(a) = 8 * q + b
  <2>1. a \div 2 = 4 * q + m BY <1>2
  <2>2. (4 * q + m) % 4 = m OBVIOUS
  <2>3. Configuration!trigger_of(a) = m BY <2>1, <2>2 DEF Configuration!trigger_of
  <2> QED BY <1>2, <2>3 DEF Configuration!rest_of
<1>3. Configuration!trigger_of(attr) = t /\ Configuration!rest_of(attr) = 8 * q + b
  BY <1>1, <1>2
<1>4. Configuration!WithTrigger(attr, mode) = 8 * q + 2 * mode + b
  BY <1>3 DEF Configuration!WithTrigger
<1>5. Configuration!WithTrigger(attr, mode) \in 0 .. 255 BY <1>4
<1> QED BY <1>2, <1>3, <1>4, <1>5

LEMMA AttrByteFields ==
  ASSUME NEW attr \in 0 .. 255
  PROVE  Configuration!trigger_of(attr) \in Nat /\ Configuration!rest_of(attr) \in Nat
BY DEF Configuration!trigger_of, Configuration!rest_of

LEMMA EncodedAttr ==
  ASSUME NEW mode \in 0 .. 3
  PROVE  Configuration!encode_attr_byte(3, mode, 1) \in 0 .. 255
BY DEF Configuration!encode_attr_byte

\* What a request may ask for.
LEMMA RequestFields ==
  ASSUME NEW r \in Configuration!Requests
  PROVE  /\ r.code \in Codes /\ r.code \in Nat
         /\ r.field \in {"level", "priority", "ctl", "trigger", "attr", "enable"}
         /\ r.field = "level" => r.value \in 0 .. (Configuration!TwoTo(LevelBits) - 1)
         /\ r.field = "priority" => r.value \in 0 .. (Configuration!TwoTo(PriorityBits) - 1)
         /\ r.field = "ctl" => r.value = Configuration!encode_ctl_byte(0, 0)
         /\ r.field = "trigger" => r.value \in 0 .. 3
         /\ r.field = "attr" =>
              \E mode \in 0 .. 3 : r.value = Configuration!encode_attr_byte(3, mode, 1)
         /\ r.field = "enable" => r.value \in BOOLEAN
<1>1. PICK f \in {"level", "priority", "ctl", "trigger", "attr", "enable"} :
        r \in [code : Codes, field : {f}, value : Configuration!Arguments(f)]
  BY DEF Configuration!Requests, Configuration!CtlFields, Configuration!AttrFields
<1>2. r.code \in Codes /\ r.field = f /\ r.value \in Configuration!Arguments(f) BY <1>1
<1>3. Configuration!Arguments("level") = 0 .. (Configuration!TwoTo(LevelBits) - 1)
  BY DEF Configuration!Arguments
<1>4. Configuration!Arguments("priority") = 0 .. (Configuration!TwoTo(PriorityBits) - 1)
  BY DEF Configuration!Arguments
<1>5. Configuration!Arguments("ctl") = {Configuration!encode_ctl_byte(0, 0)}
  BY DEF Configuration!Arguments
<1>6. Configuration!Arguments("trigger") = Triggers BY DEF Configuration!Arguments
<1>7. Configuration!Arguments("attr") =
        {Configuration!encode_attr_byte(3, mode, 1) : mode \in Triggers}
  BY DEF Configuration!Arguments
<1>8. Configuration!Arguments("enable") = BOOLEAN BY DEF Configuration!Arguments
<1> QED BY <1>1, <1>2, <1>3, <1>4, <1>5, <1>6, <1>7, <1>8, ClicAssumption, ZenonT(30)

\* The bytes are in their range after a call.
LEMMA ZeroFits == \A n \in Nat \ {0} : 0 \in 0 .. (n - 1)
OBVIOUS

LEMMA ByteAfter ==
  ASSUME NEW r \in Configuration!Requests, NEW byte \in 0 .. 255
  PROVE  /\ r.field \in Configuration!CtlFields =>
              Configuration!NewCtl(byte, r.field, r.value) \in 0 .. 255
         /\ r.field \in Configuration!AttrFields =>
              Configuration!NewAttr(byte, r.field, r.value) \in 0 .. 255
<1> USE DEF Configuration!CtlFields, Configuration!AttrFields
<1>1. /\ Configuration!level_bits_of(byte) \in 0 .. (Configuration!TwoTo(LevelBits) - 1)
      /\ Configuration!priority_bits_of(byte) \in 0 .. (Configuration!TwoTo(PriorityBits) - 1)
  BY CtlByteFields
<1>2. CASE r.field = "level"
  <2>1. Configuration!NewCtl(byte, r.field, r.value) =
          Configuration!encode_ctl_byte(r.value, Configuration!priority_bits_of(byte))
    BY <1>2 DEF Configuration!NewCtl
  <2> QED BY <1>1, <1>2, <2>1, RequestFields, CtlByte
<1>3. CASE r.field = "priority"
  <2>1. Configuration!NewCtl(byte, r.field, r.value) =
          Configuration!encode_ctl_byte(Configuration!level_bits_of(byte), r.value)
    BY <1>3 DEF Configuration!NewCtl
  <2> QED BY <1>1, <1>3, <2>1, RequestFields, CtlByte
<1>4. CASE r.field = "ctl"
  <2>1. Configuration!NewCtl(byte, r.field, r.value) = Configuration!encode_ctl_byte(0, 0)
    BY <1>4, RequestFields DEF Configuration!NewCtl
  <2>2. /\ 0 \in 0 .. (Configuration!TwoTo(LevelBits) - 1)
        /\ 0 \in 0 .. (Configuration!TwoTo(PriorityBits) - 1)
    BY FieldWidths, ZeroFits, ZenonT(40)
  <2> QED BY <1>4, <2>1, <2>2, CtlByte
<1>5. CASE r.field = "trigger"
  BY <1>5, RequestFields, AttrByte DEF Configuration!NewAttr
<1>6. CASE r.field = "attr"
  <2>1. Configuration!NewAttr(byte, r.field, r.value) = r.value BY <1>6 DEF Configuration!NewAttr
  <2> QED BY <1>6, <2>1, RequestFields, EncodedAttr
<1>7. CASE r.field = "enable" BY <1>7
<1> QED BY <1>2, <1>3, <1>4, <1>5, <1>6, <1>7, RequestFields

LEMMA AfterTypes ==
  ASSUME ClicTypes, NEW r \in Configuration!Requests
  PROVE  /\ CtlAfter(r) \in [Codes -> 0 .. 255] /\ AttrAfter(r) \in [Codes -> 0 .. 255]
         /\ IeAfter(r) \subseteq Codes
<1>1. CtlAfter(r) \in [Codes -> 0 .. 255]
  <2>1. ASSUME NEW c \in Codes PROVE CtlAfter(r)[c] \in 0 .. 255
    <3>1. clicintctl[c] \in 0 .. 255 BY DEF ClicTypes
    <3> QED BY <3>1, ByteAfter, ZenonT(40) DEF CtlAfter
  <2> QED BY <2>1, Zenon DEF CtlAfter
<1>2. AttrAfter(r) \in [Codes -> 0 .. 255]
  <2>1. ASSUME NEW c \in Codes PROVE AttrAfter(r)[c] \in 0 .. 255
    <3>1. clicintattr[c] \in 0 .. 255 BY DEF ClicTypes
    <3> QED BY <3>1, ByteAfter DEF AttrAfter
  <2> QED BY <2>1 DEF AttrAfter
<1>3. IeAfter(r) \subseteq Codes BY RequestFields DEF ClicTypes, IeAfter
<1> QED BY <1>1, <1>2, <1>3

\* A byte of a register is the byte of its interrupt.
LEMMA ReadByte ==
  ASSUME NEW bytes \in [Codes -> 0 .. 255], NEW c \in Codes
  PROVE  /\ DOMAIN Configuration!BytesAt(bytes, c \div 4) = 0 .. 3
         /\ Configuration!BytesAt(bytes, c \div 4)[c % 4] = bytes[c]
<1>1. c \in Nat /\ c % 4 \in 0 .. 3 /\ 4 * (c \div 4) + (c % 4) = c
  BY ClicAssumption
<1>2. Configuration!BytesAt(bytes, c \div 4)[c % 4] =
        IF 4 * (c \div 4) + (c % 4) \in Codes THEN bytes[4 * (c \div 4) + (c % 4)] ELSE 0
  BY <1>1 DEF Configuration!BytesAt
<1> QED BY <1>1, <1>2 DEF Configuration!BytesAt

\* A register that is read, changed in one slice and written changes one byte.
LEMMA OneByte ==
  ASSUME NEW bytes \in [Codes -> 0 .. 255], NEW code \in Codes, NEW word,
         \A slot \in 0 .. 3 : slot # code % 4 =>
           word[slot] = Configuration!BytesAt(bytes, code \div 4)[slot],
         NEW c \in Codes
  PROVE  Configuration!Stored(bytes, code \div 4, word)[c] =
           IF c = code THEN word[code % 4] ELSE bytes[c]
<1>1. \A k \in Codes : /\ k \in Nat /\ k \div 4 \in Nat /\ k % 4 \in 0 .. 3
                       /\ 4 * (k \div 4) + (k % 4) = k
  BY ClicAssumption
<1>2. Configuration!Stored(bytes, code \div 4, word)[c] =
        IF c \div 4 = code \div 4 THEN word[c % 4] ELSE bytes[c]
  BY DEF Configuration!Stored
<1>3. CASE c = code BY <1>2, <1>3
<1>4. CASE c # code /\ c \div 4 = code \div 4
  <2>1. c % 4 # code % 4 BY <1>1, <1>4
  <2>2. word[c % 4] = Configuration!BytesAt(bytes, code \div 4)[c % 4] BY <1>1, <2>1
  <2>3. Configuration!BytesAt(bytes, code \div 4)[c % 4] = bytes[c] BY <1>4, ReadByte
  <2> QED BY <1>2, <1>4, <2>2, <2>3
<1>5. CASE c # code /\ c \div 4 # code \div 4 BY <1>2, <1>5
<1> QED BY <1>3, <1>4, <1>5

LEMMA Applied ==
  ASSUME ClicTypes, NEW r \in Configuration!Requests, r.field # "enable",
         Configuration!WriteBack(r, Configuration!RegisterOf(r),
                                 Configuration!ReadOf(r, Configuration!RegisterOf(r), {}))
  PROVE  clicintctl' = CtlAfter(r) /\ clicintattr' = AttrAfter(r) /\ clicintie' = IeAfter(r)
<1> DEFINE k == r.code
<1>1. k \in Codes /\ r.field \in {"level", "priority", "ctl", "trigger", "attr", "enable"}
  BY RequestFields
<1>2. clicintctl \in [Codes -> 0 .. 255] /\ clicintattr \in [Codes -> 0 .. 255] BY DEF ClicTypes
<1>3. /\ Configuration!RegisterOf(r).index = k \div 4
      /\ Configuration!RegisterOf(r).kind = "ctl_attr"
  BY DEF Configuration!RegisterOf, Configuration!CtlAttr
<1>4. clicintctl' = CtlAfter(r)
  <2>1. CASE r.field \in Configuration!CtlFields
    <3> DEFINE old == Configuration!BytesAt(clicintctl, k \div 4)
               v == Configuration!NewCtl(clicintctl[k], r.field, r.value)
               word == Configuration!Replaced(r, old)
    <3>1. clicintctl' = Configuration!Stored(clicintctl, k \div 4, word)
      BY <1>3, <2>1 DEF Configuration!WriteBack, Configuration!ReadOf, Configuration!CtlFields,
        Configuration!AttrFields
    <3>2. DOMAIN old = 0 .. 3 /\ old[k % 4] = clicintctl[k] /\ k % 4 \in 0 .. 3
      <4>1. k \in Codes /\ clicintctl \in [Codes -> 0 .. 255] BY <1>1, <1>2
      <4> HIDE DEF k
      <4>2. k % 4 \in 0 .. 3
        <5>1. k \in Nat BY <4>1, ClicAssumption
        <5> QED BY <5>1
      <4>3. /\ DOMAIN Configuration!BytesAt(clicintctl, k \div 4) = 0 .. 3
            /\ Configuration!BytesAt(clicintctl, k \div 4)[k % 4] = clicintctl[k]
        BY <4>1, ReadByte
      <4> QED BY <4>2, <4>3
    <3> HIDE DEF old
    <3>3. /\ word[k % 4] = v
          /\ \A slot \in 0 .. 3 : slot # k % 4 => word[slot] = old[slot]
      BY <2>1, <3>2 DEF Configuration!Replaced
    <3> HIDE DEF v, word
    <3>4. \A c \in Codes : clicintctl'[c] = IF c = k THEN v ELSE clicintctl[c]
      BY <1>1, <1>2, <3>1, <3>3, OneByte DEF old
    <3>5. clicintctl' = [c \in Codes |-> clicintctl'[c]] BY <3>1 DEF Configuration!Stored
    <3> QED BY <2>1, <3>4, <3>5 DEF CtlAfter, v
  <2>2. CASE r.field \notin Configuration!CtlFields
    BY <1>2, <2>2 DEF Configuration!WriteBack, CtlAfter
  <2> QED BY <2>1, <2>2
<1>5. clicintattr' = AttrAfter(r)
  <2>1. CASE r.field \in Configuration!AttrFields
    <3> DEFINE old == Configuration!BytesAt(clicintattr, k \div 4)
               v == Configuration!NewAttr(clicintattr[k], r.field, r.value)
               word == Configuration!Replaced(r, old)
    <3>1. clicintattr' = Configuration!Stored(clicintattr, k \div 4, word)
      BY <1>3, <2>1 DEF Configuration!WriteBack, Configuration!ReadOf, Configuration!CtlFields,
        Configuration!AttrFields
    <3>2. DOMAIN old = 0 .. 3 /\ old[k % 4] = clicintattr[k] /\ k % 4 \in 0 .. 3
      <4>1. k \in Codes /\ clicintattr \in [Codes -> 0 .. 255] BY <1>1, <1>2
      <4> HIDE DEF k
      <4>2. k % 4 \in 0 .. 3
        <5>1. k \in Nat BY <4>1, ClicAssumption
        <5> QED BY <5>1
      <4>3. /\ DOMAIN Configuration!BytesAt(clicintattr, k \div 4) = 0 .. 3
            /\ Configuration!BytesAt(clicintattr, k \div 4)[k % 4] = clicintattr[k]
        BY <4>1, ReadByte
      <4> QED BY <4>2, <4>3
    <3> HIDE DEF old
    <3>3. /\ word[k % 4] = v
          /\ \A slot \in 0 .. 3 : slot # k % 4 => word[slot] = old[slot]
      BY <2>1, <3>2 DEF Configuration!Replaced, Configuration!CtlFields, Configuration!AttrFields
    <3> HIDE DEF v, word
    <3>4. \A c \in Codes : clicintattr'[c] = IF c = k THEN v ELSE clicintattr[c]
      BY <1>1, <1>2, <3>1, <3>3, OneByte DEF old
    <3>5. clicintattr' = [c \in Codes |-> clicintattr'[c]] BY <3>1 DEF Configuration!Stored
    <3> QED BY <2>1, <3>4, <3>5 DEF AttrAfter, v
  <2>2. CASE r.field \notin Configuration!AttrFields
    BY <1>2, <2>2 DEF Configuration!WriteBack, AttrAfter
  <2> QED BY <2>1, <2>2
<1>6. clicintie' = IeAfter(r) BY <1>3 DEF Configuration!WriteBack, IeAfter
<1> QED BY <1>4, <1>5, <1>6

\* One bit of the register selected is set or cleared.
LEMMA BitChanged ==
  ASSUME ClicTypes, NEW r \in Configuration!Requests, r.field = "enable",
         Configuration!ChangeBit(r, Configuration!RegisterOf(r))
  PROVE  clicintctl' = CtlAfter(r) /\ clicintattr' = AttrAfter(r) /\ clicintie' = IeAfter(r)
<1> DEFINE k == r.code
<1>1. k \in Codes /\ k \in Nat BY RequestFields
<1>2. 32 * (k \div 32) + (k % 32) = k
  <2> HIDE DEF k
  <2> QED BY <1>1, Divided
<1>3. /\ Configuration!RegisterOf(r).index = k \div 32
      /\ Configuration!RegisterOf(r).kind = "ip_ie"
  BY DEF Configuration!RegisterOf, Configuration!IpIe
<1>4. {k} \cap Codes = {k} BY <1>1
<1>5. clicintie' = IeAfter(r)
  BY <1>2, <1>3, <1>4 DEF Configuration!ChangeBit, IeAfter
<1>6. clicintattr' = [a \in Codes |-> clicintattr[a]] BY <1>3 DEF Configuration!ChangeBit
<1>7. clicintattr' = AttrAfter(r)
  BY <1>6 DEF AttrAfter, Configuration!AttrFields
<1>8. clicintctl' = CtlAfter(r)
  BY DEF Configuration!ChangeBit, CtlAfter, Configuration!CtlFields, ClicTypes
<1> QED BY <1>5, <1>7, <1>8

\* After a call the bytes describe what it asked for, if they described what was asked before.
LEMMA AskedFor ==
  ASSUME ClicTypes, NEW r \in Configuration!Requests, NEW S \in SUBSET Codes,
         \A c \in S : Described(clicintctl, clicintattr, clicintie, config, c)
  PROVE  /\ Configuration!Asked(r) \in Config
         /\ \A c \in S :
              Described(CtlAfter(r), AttrAfter(r), IeAfter(r), Configuration!Asked(r), c)
<1> DEFINE k == r.code
           old == config[k]
           ctl == clicintctl[k]
           attr == clicintattr[k]
           new == Configuration!Asked(r)[k]
<1>1. k \in Codes /\ old \in [level : Nat, priority : Nat, trigger : Nat, rest : Nat, enable : BOOLEAN]
      /\ ctl \in 0 .. 255 /\ attr \in 0 .. 255
  BY RequestFields DEF ClicTypes, Config
<1>2. k \in S => Described(clicintctl, clicintattr, clicintie, config, k) OBVIOUS
<1>3. /\ \A c \in Codes : c # k => /\ Configuration!Asked(r)[c] = config[c]
                                   /\ CtlAfter(r)[c] = clicintctl[c]
                                   /\ AttrAfter(r)[c] = clicintattr[c]
                                   /\ c \in IeAfter(r) <=> c \in clicintie
      /\ DOMAIN Configuration!Asked(r) = Codes
      /\ Configuration!Asked(r) = [config EXCEPT ![k] = new]
      /\ new = CASE r.field = "ctl" ->
                      [old EXCEPT !.level = Configuration!level_bits_of(r.value),
                                  !.priority = Configuration!priority_bits_of(r.value)]
                 [] r.field = "attr" ->
                      [old EXCEPT !.trigger = Configuration!trigger_of(r.value),
                                  !.rest = Configuration!rest_of(r.value)]
                 [] OTHER -> [old EXCEPT ![r.field] = r.value]
  BY <1>1 DEF Configuration!Asked, CtlAfter, AttrAfter, IeAfter, ClicTypes, Config
<1>14. Configuration!Asked(r)[k] = new OBVIOUS
<1> HIDE DEF new
<1>4. /\ Configuration!level_bits_of(ctl) \in 0 .. (Configuration!TwoTo(LevelBits) - 1)
      /\ Configuration!priority_bits_of(ctl) \in 0 .. (Configuration!TwoTo(PriorityBits) - 1)
  BY <1>1, CtlByteFields
<1> DEFINE Good == /\ new \in [level : Nat, priority : Nat, trigger : Nat, rest : Nat, enable : BOOLEAN]
                   /\ k \in S => Described(CtlAfter(r), AttrAfter(r), IeAfter(r),
                                           Configuration!Asked(r), k)
<1>5. ASSUME r.field = "level" PROVE Good
  <2>1. new = [old EXCEPT !["level"] = r.value] BY <1>3, <1>5
  <2>2. r.value \in 0 .. (Configuration!TwoTo(LevelBits) - 1) /\ r.value \in Nat
    BY <1>5, RequestFields
  <2>3. /\ new.level = r.value /\ new.priority = old.priority /\ new.trigger = old.trigger
        /\ new.rest = old.rest /\ new.enable = old.enable
        /\ new \in [level : Nat, priority : Nat, trigger : Nat, rest : Nat, enable : BOOLEAN]
    BY <1>1, <2>1, <2>2
  <2>4. CtlAfter(r)[k] = Configuration!encode_ctl_byte(r.value, Configuration!priority_bits_of(ctl))
    BY <1>1, <1>5 DEF CtlAfter, Configuration!NewCtl, Configuration!CtlFields
  <2>5. AttrAfter(r)[k] = attr /\ IeAfter(r) = clicintie
    BY <1>1, <1>5 DEF AttrAfter, IeAfter, Configuration!AttrFields
  <2>6. /\ Configuration!level_bits_of(CtlAfter(r)[k]) = r.value
        /\ Configuration!priority_bits_of(CtlAfter(r)[k]) = Configuration!priority_bits_of(ctl)
    BY <1>4, <2>2, <2>4, CtlByte
  <2> QED BY <1>2, <2>3, <2>5, <2>6, <1>14 DEF Described
<1>6. ASSUME r.field = "priority" PROVE Good
  <2>1. new = [old EXCEPT !["priority"] = r.value] BY <1>3, <1>6
  <2>2. r.value \in 0 .. (Configuration!TwoTo(PriorityBits) - 1) /\ r.value \in Nat
    BY <1>6, RequestFields
  <2>3. /\ new.level = old.level /\ new.priority = r.value /\ new.trigger = old.trigger
        /\ new.rest = old.rest /\ new.enable = old.enable
        /\ new \in [level : Nat, priority : Nat, trigger : Nat, rest : Nat, enable : BOOLEAN]
    BY <1>1, <2>1, <2>2
  <2>4. CtlAfter(r)[k] = Configuration!encode_ctl_byte(Configuration!level_bits_of(ctl), r.value)
    BY <1>1, <1>6 DEF CtlAfter, Configuration!NewCtl, Configuration!CtlFields
  <2>5. AttrAfter(r)[k] = attr /\ IeAfter(r) = clicintie
    BY <1>1, <1>6 DEF AttrAfter, IeAfter, Configuration!AttrFields
  <2>6. /\ Configuration!level_bits_of(CtlAfter(r)[k]) = Configuration!level_bits_of(ctl)
        /\ Configuration!priority_bits_of(CtlAfter(r)[k]) = r.value
    BY <1>4, <2>2, <2>4, CtlByte
  <2> QED BY <1>2, <2>3, <2>5, <2>6, <1>14 DEF Described
<1>7. ASSUME r.field = "ctl" PROVE Good
  <2> DEFINE l == Configuration!level_bits_of(r.value)
             p == Configuration!priority_bits_of(r.value)
  <2>1. new = [old EXCEPT !.level = l, !.priority = p] BY <1>3, <1>7
  <2>2. l \in Nat /\ p \in Nat
    <3>1. /\ 0 \in 0 .. (Configuration!TwoTo(LevelBits) - 1)
          /\ 0 \in 0 .. (Configuration!TwoTo(PriorityBits) - 1)
      BY FieldWidths, ZeroFits, Zenon
    <3> QED BY <1>7, <3>1, RequestFields, CtlByte
  <2> HIDE DEF l, p
  <2>3. /\ new.level = l /\ new.priority = p /\ new.trigger = old.trigger
        /\ new.rest = old.rest /\ new.enable = old.enable
        /\ new \in [level : Nat, priority : Nat, trigger : Nat, rest : Nat, enable : BOOLEAN]
    BY <1>1, <2>1, <2>2
  <2>4. CtlAfter(r)[k] = r.value
    BY <1>1, <1>7 DEF CtlAfter, Configuration!NewCtl, Configuration!CtlFields
  <2>5. AttrAfter(r)[k] = attr /\ IeAfter(r) = clicintie
    BY <1>1, <1>7 DEF AttrAfter, IeAfter, Configuration!AttrFields
  <2> QED BY <1>2, <2>3, <2>4, <2>5, <1>14 DEF Described, l, p
<1>8. ASSUME r.field = "trigger" PROVE Good
  <2>1. new = [old EXCEPT !["trigger"] = r.value] BY <1>3, <1>8
  <2>2. r.value \in 0 .. 3 /\ r.value \in Nat BY <1>8, RequestFields
  <2>3. /\ new.level = old.level /\ new.priority = old.priority /\ new.trigger = r.value
        /\ new.rest = old.rest /\ new.enable = old.enable
        /\ new \in [level : Nat, priority : Nat, trigger : Nat, rest : Nat, enable : BOOLEAN]
    BY <1>1, <2>1, <2>2
  <2>4. AttrAfter(r)[k] = Configuration!WithTrigger(attr, r.value)
    BY <1>1, <1>8 DEF AttrAfter, Configuration!NewAttr, Configuration!AttrFields
  <2>5. CtlAfter(r)[k] = ctl /\ IeAfter(r) = clicintie
    BY <1>1, <1>8 DEF CtlAfter, IeAfter, Configuration!CtlFields
  <2>6. /\ Configuration!trigger_of(AttrAfter(r)[k]) = r.value
        /\ Configuration!rest_of(AttrAfter(r)[k]) = Configuration!rest_of(attr)
    <3>1. attr \in 0 .. 255 /\ r.value \in 0 .. 3 BY <1>1, <2>2, ZenonT(40)
    <3>2. /\ Configuration!trigger_of(Configuration!WithTrigger(attr, r.value)) = r.value
          /\ Configuration!rest_of(Configuration!WithTrigger(attr, r.value)) =
               Configuration!rest_of(attr)
      <4> HIDE DEF attr
      <4> QED BY <3>1, AttrByte
    <3> QED BY <2>4, <3>2
  <2> QED BY <1>2, <2>3, <2>5, <2>6, <1>14 DEF Described
<1>9. ASSUME r.field = "attr" PROVE Good
  <2> DEFINE t == Configuration!trigger_of(r.value)
             s == Configuration!rest_of(r.value)
  <2>1. new = [old EXCEPT !.trigger = t, !.rest = s] BY <1>3, <1>9
  <2>2. t \in Nat /\ s \in Nat
    <3>1. r.value \in 0 .. 255 BY <1>9, RequestFields, EncodedAttr
    <3> QED BY <3>1, AttrByteFields
  <2> HIDE DEF t, s
  <2>3. /\ new.level = old.level /\ new.priority = old.priority /\ new.trigger = t
        /\ new.rest = s /\ new.enable = old.enable
        /\ new \in [level : Nat, priority : Nat, trigger : Nat, rest : Nat, enable : BOOLEAN]
    BY <1>1, <2>1, <2>2
  <2>4. AttrAfter(r)[k] = r.value
    BY <1>1, <1>9 DEF AttrAfter, Configuration!NewAttr, Configuration!AttrFields
  <2>5. CtlAfter(r)[k] = ctl /\ IeAfter(r) = clicintie
    BY <1>1, <1>9 DEF CtlAfter, IeAfter, Configuration!CtlFields
  <2> QED BY <1>2, <2>3, <2>4, <2>5, <1>14 DEF Described, t, s
<1>10. ASSUME r.field = "enable" PROVE Good
  <2>1. new = [old EXCEPT !["enable"] = r.value] BY <1>3, <1>10
  <2>2. r.value \in BOOLEAN BY <1>10, RequestFields
  <2>3. /\ new.level = old.level /\ new.priority = old.priority /\ new.trigger = old.trigger
        /\ new.rest = old.rest /\ new.enable = r.value
        /\ new \in [level : Nat, priority : Nat, trigger : Nat, rest : Nat, enable : BOOLEAN]
    BY <1>1, <2>1, <2>2
  <2>4. CtlAfter(r)[k] = ctl /\ AttrAfter(r)[k] = attr
    BY <1>1, <1>10 DEF CtlAfter, AttrAfter, Configuration!CtlFields, Configuration!AttrFields
  <2>5. k \in IeAfter(r) <=> r.value BY <1>10, <2>2 DEF IeAfter
  <2> QED BY <1>2, <2>3, <2>4, <2>5, <1>14 DEF Described
<1>11. Good BY <1>5, <1>6, <1>7, <1>8, <1>9, <1>10, RequestFields
<1>12. Configuration!Asked(r) \in Config BY <1>1, <1>3, <1>11 DEF ClicTypes, Config
<1>13. ASSUME NEW c \in S
       PROVE  Described(CtlAfter(r), AttrAfter(r), IeAfter(r), Configuration!Asked(r), c)
  <2>1. CASE c = k BY <1>11, <2>1
  <2>2. CASE c # k
    <3>1. Described(clicintctl, clicintattr, clicintie, config, c) OBVIOUS
    <3> QED BY <1>3, <2>2, <3>1 DEF Described
  <2> QED BY <2>1, <2>2
<1> QED BY <1>12, <1>13

\* A register read is four bytes.
LEMMA ByteOfBits ==
  ASSUME NEW set, NEW c
  PROVE  LET bit(d, value) == IF d \in set THEN value ELSE 0
         IN  bit(c, 1) + bit(c + 1, 2) + bit(c + 2, 4) + bit(c + 3, 8)
               + bit(c + 4, 16) + bit(c + 5, 32) + bit(c + 6, 64) + bit(c + 7, 128) \in 0 .. 255
<1> DEFINE bit(d, value) == IF d \in set THEN value ELSE 0
<1>1. /\ bit(c, 1) \in 0 .. 1 /\ bit(c + 1, 2) \in 0 .. 2 /\ bit(c + 2, 4) \in 0 .. 4
      /\ bit(c + 3, 8) \in 0 .. 8 /\ bit(c + 4, 16) \in 0 .. 16 /\ bit(c + 5, 32) \in 0 .. 32
      /\ bit(c + 6, 64) \in 0 .. 64 /\ bit(c + 7, 128) \in 0 .. 128
  OBVIOUS
<1> HIDE DEF bit
<1>3. bit(c, 1) + bit(c + 1, 2) \in 0 .. 3 BY <1>1
<1>4. bit(c, 1) + bit(c + 1, 2) + bit(c + 2, 4) \in 0 .. 7 BY <1>1, <1>3
<1>5. bit(c, 1) + bit(c + 1, 2) + bit(c + 2, 4) + bit(c + 3, 8) \in 0 .. 15 BY <1>1, <1>4
<1> DEFINE four == bit(c, 1) + bit(c + 1, 2) + bit(c + 2, 4) + bit(c + 3, 8)
<1>6. four \in 0 .. 15 BY <1>5
<1> HIDE DEF four
<1>7. four + bit(c + 4, 16) \in 0 .. 31 BY <1>1, <1>6
<1>8. four + bit(c + 4, 16) + bit(c + 5, 32) \in 0 .. 63 BY <1>1, <1>7
<1>9. four + bit(c + 4, 16) + bit(c + 5, 32) + bit(c + 6, 64) \in 0 .. 127 BY <1>1, <1>8
<1>10. four + bit(c + 4, 16) + bit(c + 5, 32) + bit(c + 6, 64) + bit(c + 7, 128) \in 0 .. 255
  BY <1>1, <1>9
<1> QED BY <1>10 DEF bit, four

LEMMA ReadTypes ==
  ASSUME ClicTypes, NEW r, NEW select \in [kind : {"ctl_attr", "ip_ie"}, index : Nat], NEW pending
  PROVE  Configuration!ReadOf(r, select, pending) \in Words
<1>1. ASSUME NEW bytes \in [Codes -> 0 .. 255], NEW i \in Nat
      PROVE  Configuration!BytesAt(bytes, i) \in Words
  BY DEF Configuration!BytesAt, Words
<1>2. ASSUME NEW set, NEW i \in Nat PROVE Configuration!BitsAt(set, i) \in Words
  <2>1. ASSUME NEW slot \in 0 .. 3 PROVE Configuration!BitsAt(set, i)[slot] \in 0 .. 255
    BY ByteOfBits DEF Configuration!BitsAt
  <2> QED BY <2>1 DEF Configuration!BitsAt, Words
<1>3. select.index \in Nat OBVIOUS
<1> QED BY <1>1, <1>2, <1>3 DEF Configuration!ReadOf, ClicTypes

\* What is written are bytes.
LEMMA ReplacedTypes ==
  ASSUME NEW r \in Configuration!Requests, r.field # "enable", NEW word \in Words
  PROVE  Configuration!Replaced(r, word) \in Words
<1>1. r.field \in Configuration!CtlFields \/ r.field \in Configuration!AttrFields
  BY RequestFields DEF Configuration!CtlFields, Configuration!AttrFields
<1>2. r.code % 4 \in 0 .. 3 BY RequestFields
<1> DEFINE old == word[r.code % 4]
           new == IF r.field \in Configuration!CtlFields
                  THEN Configuration!NewCtl(old, r.field, r.value)
                  ELSE Configuration!NewAttr(old, r.field, r.value)
<1>3. old \in 0 .. 255 BY <1>2 DEF Words
<1>4. new \in 0 .. 255
  <2> HIDE DEF old
  <2> QED BY <1>1, <1>3, ByteAfter
<1>5. Configuration!Replaced(r, word) = [word EXCEPT ![r.code % 4] = new]
  BY DEF Configuration!Replaced
<1> HIDE DEF old, new
<1> QED BY <1>2, <1>4, <1>5 DEF Words

LEMMA StoredTypes ==
  ASSUME NEW bytes \in [Codes -> 0 .. 255], NEW i, NEW word \in Words
  PROVE  Configuration!Stored(bytes, i, word) \in [Codes -> 0 .. 255]
<1>1. \A c \in Codes : c % 4 \in 0 .. 3 BY ClicAssumption
<1> QED BY <1>1 DEF Configuration!Stored, Words

LEMMA ByteWithBit ==
  ASSUME NEW byte \in 0 .. 255, NEW bit \in 0 .. 7, NEW on \in BOOLEAN
  PROVE  Configuration!WithBit(byte, bit, on) \in 0 .. 255
<1> DEFINE p == Configuration!TwoTo(bit)
<1>1. /\ byte + p \in 0 .. 255 \/ (byte \div p) % 2 = 1
      /\ byte - p \in 0 .. 255 \/ (byte \div p) % 2 # 1
  <2>1. bit \in {0, 1, 2, 3, 4, 5, 6, 7} OBVIOUS
  <2>2. p \in {1, 2, 4, 8, 16, 32, 64, 128} BY <2>1, PowersOfTwo
  <2> HIDE DEF p
  <2>3. CASE p = 1 BY <2>3
  <2>4. CASE p = 2 BY <2>4
  <2>5. CASE p = 4 BY <2>5
  <2>6. CASE p = 8 BY <2>6
  <2>7. CASE p = 16 BY <2>7
  <2>8. CASE p = 32 BY <2>8
  <2>9. CASE p = 64 BY <2>9
  <2>10. CASE p = 128 BY <2>10
  <2> QED BY <2>2, <2>3, <2>4, <2>5, <2>6, <2>7, <2>8, <2>9, <2>10
<1>2. Configuration!IsSet(byte, bit) <=> (byte \div p) % 2 = 1 BY DEF Configuration!IsSet
<1>3. Configuration!WithBit(byte, bit, on) =
        IF Configuration!IsSet(byte, bit) = on THEN byte
        ELSE IF on THEN byte + p ELSE byte - p
  BY DEF Configuration!WithBit
<1> HIDE DEF p
<1>4. CASE on BY <1>1, <1>2, <1>3, <1>4
<1>5. CASE ~on
  <2>1. CASE (byte \div p) % 2 = 1
    <3>1. Configuration!IsSet(byte, bit) BY <1>2, <2>1
    <3>2. Configuration!IsSet(byte, bit) # on BY <1>5, <3>1
    <3>3. Configuration!WithBit(byte, bit, on) = byte - p BY <1>3, <1>5, <3>2
    <3> QED BY <1>1, <2>1, <3>3
  <2>2. CASE (byte \div p) % 2 # 1
    <3>1. ~Configuration!IsSet(byte, bit) /\ Configuration!IsSet(byte, bit) \in BOOLEAN
      BY <2>2 DEF Configuration!IsSet, p
    <3>2. Configuration!IsSet(byte, bit) = on BY <1>5, <3>1
    <3> QED BY <1>3, <3>2
  <2> QED BY <2>1, <2>2
<1> QED BY <1>4, <1>5

\* Whatever is selected, a write changes interrupts of that register alone, and leaves bytes.
LEMMA Written ==
  ASSUME ClicTypes, NEW r \in Configuration!Requests,
         NEW select \in [kind : {"ctl_attr", "ip_ie"}, index : Nat], NEW word,
         IF r.field = "enable" THEN Configuration!ChangeBit(r, select)
         ELSE word \in Words /\ Configuration!WriteBack(r, select, word)
  PROVE  /\ clicintctl' \in [Codes -> 0 .. 255] /\ clicintattr' \in [Codes -> 0 .. 255]
         /\ clicintie' \subseteq Codes
         /\ \A c \in Codes \ Configuration!Of(select) :
              /\ clicintctl'[c] = clicintctl[c] /\ clicintattr'[c] = clicintattr[c]
              /\ c \in clicintie' <=> c \in clicintie
<1> DEFINE Same(c) == /\ clicintctl'[c] = clicintctl[c] /\ clicintattr'[c] = clicintattr[c]
                      /\ c \in clicintie' <=> c \in clicintie
           i == select.index
<1>1. /\ \A c \in Codes : select.kind = "ctl_attr" /\ c \div 4 = i => c \in Configuration!Of(select)
      /\ \A c \in Codes : select.kind = "ip_ie" /\ c \div 32 = i => c \in Configuration!Of(select)
  <2>1. select = [kind |-> select.kind, index |-> i] OBVIOUS
  <2> QED BY <2>1 DEF Configuration!Of, Configuration!CtlAttr, Configuration!IpIe
<1>2. /\ clicintctl \in [Codes -> 0 .. 255] /\ clicintattr \in [Codes -> 0 .. 255]
      /\ clicintie \subseteq Codes /\ select.kind \in {"ctl_attr", "ip_ie"} /\ i \in Nat
  BY DEF ClicTypes
<1>3. ASSUME r.field # "enable"
      PROVE  /\ clicintctl' \in [Codes -> 0 .. 255] /\ clicintattr' \in [Codes -> 0 .. 255]
             /\ clicintie' \subseteq Codes
             /\ \A c \in Codes \ Configuration!Of(select) : Same(c)
  <2> DEFINE v == Configuration!Replaced(r, word)
  <2>1. v \in Words BY <1>3, ReplacedTypes
  <2>2. Configuration!WriteBack(r, select, word) BY <1>3
  <2>3. /\ clicintctl' = Configuration!Stored(clicintctl, i, v) /\ select.kind = "ctl_attr"
        \/ clicintctl' = clicintctl
    BY <2>2 DEF Configuration!WriteBack
  <2>4. /\ clicintattr' = Configuration!Stored(clicintattr, i, v) /\ select.kind = "ctl_attr"
        \/ clicintattr' = clicintattr
    BY <2>2 DEF Configuration!WriteBack
  <2>5. /\ clicintie' = Configuration!StoredBits(clicintie, i, v) /\ select.kind = "ip_ie"
        \/ clicintie' = clicintie
    BY <2>2 DEF Configuration!WriteBack
  <2> HIDE DEF v
  <2>6. /\ clicintctl' \in [Codes -> 0 .. 255] /\ clicintattr' \in [Codes -> 0 .. 255]
    BY <1>2, <2>1, <2>3, <2>4, StoredTypes
  <2>7. clicintie' \subseteq Codes BY <1>2, <2>5 DEF Configuration!StoredBits
  <2>8. ASSUME NEW c \in Codes \ Configuration!Of(select) PROVE Same(c)
    <3>1. clicintctl'[c] = clicintctl[c]
      BY <1>1, <2>3, <2>8 DEF Configuration!Stored
    <3>2. clicintattr'[c] = clicintattr[c]
      BY <1>1, <2>4, <2>8 DEF Configuration!Stored
    <3>3. c \in clicintie' <=> c \in clicintie
      BY <1>1, <2>5, <2>8 DEF Configuration!StoredBits
    <3> QED BY <3>1, <3>2, <3>3
  <2> QED BY <2>6, <2>7, <2>8
<1>4. ASSUME r.field = "enable"
      PROVE  /\ clicintctl' \in [Codes -> 0 .. 255] /\ clicintattr' \in [Codes -> 0 .. 255]
             /\ clicintie' \subseteq Codes
             /\ \A c \in Codes \ Configuration!Of(select) : Same(c)
  <2> DEFINE low == r.code % 32
             d == 32 * i + low
             owner == 4 * i + (low \div 8)
             bit == r.code % 8
  <2>1. /\ r.code \in Nat /\ r.value \in BOOLEAN BY <1>4, RequestFields
  <2>2. /\ low \in 0 .. 31 /\ low \div 8 \in 0 .. 3 /\ bit \in 0 .. 7 BY <2>1
  <2>3. /\ clicintctl' = clicintctl
        /\ clicintattr' = [a \in Codes |->
             IF select.kind = "ctl_attr" /\ a = owner
             THEN Configuration!WithBit(clicintattr[a], bit, r.value) ELSE clicintattr[a]]
        /\ clicintie' = IF select.kind # "ip_ie" THEN clicintie
                        ELSE IF r.value THEN clicintie \cup ({d} \cap Codes) ELSE clicintie \ {d}
    BY <1>4 DEF Configuration!ChangeBit
  <2>4. d \div 32 = i /\ owner \div 4 = i
    <3> DEFINE q == low \div 8
    <3> HIDE DEF low
    <3>1. d \in Int /\ low \in 0 .. (32 - 1) /\ d = 32 * i + low BY <1>2, <2>2
    <3>2. q \in 0 .. 3 /\ owner = 4 * i + q BY <2>2
    <3> HIDE DEF q, owner, d
    <3>3. owner \in Int /\ owner \div 4 = i BY <1>2, <3>2, Quotient
    <3>4. d \div 32 = i
      <4>1. 32 \in Nat \ {0} /\ i \in Int BY <1>2
      <4> QED BY <3>1, <4>1, Quotient
    <3> QED BY <3>3, <3>4
  <2>5. clicintattr' \in [Codes -> 0 .. 255]
    <3>1. ASSUME NEW a \in Codes PROVE Configuration!WithBit(clicintattr[a], bit, r.value) \in 0 .. 255
      <4>1. clicintattr[a] \in 0 .. 255 BY <1>2
      <4> QED BY <2>1, <2>2, <4>1, ByteWithBit
    <3> HIDE DEF bit, owner
    <3> QED BY <1>2, <2>3, <3>1
  <2>6. clicintie' \subseteq Codes BY <1>2, <2>3
  <2>7. ASSUME NEW c \in Codes \ Configuration!Of(select) PROVE Same(c)
    <3>1. select.kind = "ctl_attr" => c # owner BY <1>1, <2>4, <2>7
    <3>2. select.kind = "ip_ie" => c # d BY <1>1, <2>4, <2>7
    <3> HIDE DEF d, owner, bit
    <3>3. clicintattr'[c] = clicintattr[c] BY <2>3, <2>7, <3>1
    <3>4. c \in clicintie' <=> c \in clicintie BY <1>2, <2>3, <2>7, <3>2
    <3> QED BY <2>3, <3>3, <3>4
  <2> QED BY <1>2, <2>3, <2>5, <2>6, <2>7
<1> QED BY <1>3, <1>4

\* A request is for an interrupt of the register it selects.
LEMMA OwnRegister ==
  ASSUME NEW r \in Configuration!Requests
  PROVE  /\ r.code \in Configuration!Of(Configuration!RegisterOf(r))
         /\ Configuration!RegisterOf(r) \in [kind : {"ctl_attr", "ip_ie"}, index : Nat]
<1>1. r.code \in Codes /\ r.code \in Nat BY RequestFields
<1>2. r.code \div 4 \in Nat /\ r.code \div 32 \in Nat BY <1>1
<1> QED BY <1>1, <1>2 DEF Configuration!Of, Configuration!RegisterOf, Configuration!CtlAttr,
      Configuration!IpIe

LEMMA ClicInit == Configuration!Init => ClicInv
<1> SUFFICES ASSUME Configuration!Init PROVE ClicInv OBVIOUS
<1> USE DEF Configuration!Init
<1>1. ClicTypes BY ClicAssumption DEF ClicTypes, Config
<1>2. \A c \in Codes : Described(clicintctl, clicintattr, clicintie, config, c)
  <2>1. Configuration!level_bits_of(0) = 0 /\ Configuration!priority_bits_of(0) = 0
    <3> DEFINE A == Configuration!TwoTo(Configuration!LEVEL_SHIFT)
               B == Configuration!TwoTo(Configuration!PRIORITY_SHIFT)
    <3>1. A \in Nat \ {0} /\ B \in Nat \ {0} BY FieldWidths
    <3> HIDE DEF A, B
    <3>2. 0 \div A = 0 /\ (0 % A) = 0 /\ 0 \div B = 0 BY <3>1
    <3> QED BY <3>2 DEF Configuration!level_bits_of, Configuration!priority_bits_of, A, B
  <2>2. Configuration!trigger_of(0) = 0 /\ Configuration!rest_of(0) = 0
    BY DEF Configuration!trigger_of, Configuration!rest_of
  <2> QED BY <2>1, <2>2 DEF Described
<1> QED BY <1>1, <1>2 DEF ClicInv, ConfigInv

\* A program's call finds the interrupts that are not suspect as asked.
LEMMA SelectInv ==
  ASSUME ClicInv, NEW r \in Configuration!Requests, NEW masked \in BOOLEAN,
         Configuration!Select(r, masked)
  PROVE  ClicInv'
<1> USE DEF Configuration!Select
<1>1. /\ Configuration!Asked(r) \in Config
      /\ \A c \in Codes \ suspect :
           Described(CtlAfter(r), AttrAfter(r), IeAfter(r), Configuration!Asked(r), c)
  <2> DEFINE S == Codes \ suspect
  <2>1. S \in SUBSET Codes /\ ClicTypes BY DEF ClicInv
  <2>2. \A c \in S : Described(clicintctl, clicintattr, clicintie, config, c)
    BY DEF ClicInv, ConfigInv
  <2> HIDE DEF S
  <2>3. /\ Configuration!Asked(r) \in Config
        /\ \A c \in S :
             Described(CtlAfter(r), AttrAfter(r), IeAfter(r), Configuration!Asked(r), c)
    BY <2>1, <2>2, AskedFor
  <2> QED BY <2>3 DEF S
<1>2. ClicTypes'
  BY <1>1, OwnRegister, ClicAssumption DEF ClicInv, ClicTypes
<1>3. ASSUME NEW c \in Codes \ suspect'
      PROVE  Described(CtlAfter(request), AttrAfter(request), IeAfter(request), config, c)'
  <2>1. Described(CtlAfter(r), AttrAfter(r), IeAfter(r), Configuration!Asked(r), c) BY <1>1
  <2>2. /\ CtlAfter(request)' = CtlAfter(r) /\ AttrAfter(request)' = AttrAfter(r)
        /\ IeAfter(request)' = IeAfter(r) /\ config' = Configuration!Asked(r)
    BY DEF CtlAfter, AttrAfter, IeAfter
  <2> QED BY <2>1, <2>2 DEF Described
<1>4. Undisturbed' BY DEF Undisturbed
<1> QED BY <1>2, <1>3, <1>4 DEF ClicInv, ConfigInv

\* What the register holds that an undisturbed call reads does not depend on what is pending.
LEMMA ReadRegisterInv ==
  ASSUME ClicInv, Configuration!Read
  PROVE  ClicInv'
<1> USE DEF Configuration!Read
<1>1. /\ step = "read" /\ step' = "write" /\ request' = request /\ request \in Configuration!Requests
      /\ request.field # "enable" /\ MISELECT' = MISELECT /\ suspect' = suspect
      /\ UNCHANGED <<clicintctl, clicintattr, clicintie, open, config, made>>
  BY DEF ClicInv, ClicTypes
<1>2. PICK pending : mireg_val' = Configuration!ReadOf(request, MISELECT, pending) OBVIOUS
<1>3. mireg_val' \in Words
  <2>1. MISELECT \in [kind : {"ctl_attr", "ip_ie"}, index : Nat] /\ ClicTypes
    BY DEF ClicInv, ClicTypes
  <2> QED BY <1>2, <2>1, ReadTypes
<1>4. ClicTypes' BY <1>1, <1>3 DEF ClicInv, ClicTypes
<1>5. ASSUME NEW c \in Codes \ suspect'
      PROVE  Described(CtlAfter(request), AttrAfter(request), IeAfter(request), config, c)'
  <2>1. /\ CtlAfter(request)' = CtlAfter(request) /\ AttrAfter(request)' = AttrAfter(request)
        /\ IeAfter(request)' = IeAfter(request)
    BY <1>1 DEF CtlAfter, AttrAfter, IeAfter
  <2> QED BY <1>1, <2>1 DEF ClicInv, ConfigInv, Described
<1>6. CASE Disturbed
  <2>1. Disturbed' BY <1>1, <1>6 DEF Disturbed, Configuration!Of, Configuration!RegisterOf,
          Configuration!CtlAttr, Configuration!IpIe
  <2> QED BY <1>1, <1>4, <1>5, <2>1 DEF ClicInv, ConfigInv
<1>7. CASE Undisturbed
  <2>1. MISELECT = Configuration!RegisterOf(request) BY <1>7 DEF Undisturbed
  <2>2. MISELECT.kind = "ctl_attr"
    BY <1>1, <2>1 DEF Configuration!RegisterOf, Configuration!CtlAttr
  <2>3. mireg_val' = Configuration!ReadOf(request, MISELECT, {})
    BY <1>2, <2>2 DEF Configuration!ReadOf
  <2>4. Configuration!ReadOf(request, MISELECT, {})' = Configuration!ReadOf(request, MISELECT, {})
    BY <1>1 DEF Configuration!ReadOf
  <2>5. Undisturbed' BY <1>1, <2>1, <2>3, <2>4 DEF Undisturbed
  <2> QED BY <1>1, <1>4, <1>5, <2>5 DEF ClicInv, ConfigInv
<1> QED BY <1>1, <1>6, <1>7 DEF ClicInv, ConfigInv

LEMMA WriteRegisterInv ==
  ASSUME ClicInv, Configuration!Write
  PROVE  ClicInv'
<1>1. /\ step = "write" /\ request \in Configuration!Requests /\ ClicTypes
      /\ MISELECT \in [kind : {"ctl_attr", "ip_ie"}, index : Nat]
      /\ request.field # "enable" => mireg_val \in Words
      /\ IF request.field = "enable" THEN Configuration!ChangeBit(request, MISELECT)
         ELSE Configuration!WriteBack(request, MISELECT, mireg_val)
  BY DEF ClicInv, ClicTypes, Configuration!Write
<1>2. /\ step' = "idle" /\ request' = NULL /\ open' = TRUE /\ config' = config
      /\ suspect' = suspect /\ made' = made /\ MISELECT' = MISELECT
  BY DEF Configuration!Write
<1>3. /\ clicintctl' \in [Codes -> 0 .. 255] /\ clicintattr' \in [Codes -> 0 .. 255]
      /\ clicintie' \subseteq Codes
      /\ \A c \in Codes \ Configuration!Of(MISELECT) :
           /\ clicintctl'[c] = clicintctl[c] /\ clicintattr'[c] = clicintattr[c]
           /\ c \in clicintie' <=> c \in clicintie
  BY <1>1, Written, Zenon
<1>4. ClicTypes' BY <1>1, <1>2, <1>3 DEF ClicTypes
<1>5. \A c \in Codes \ suspect :
        Described(CtlAfter(request), AttrAfter(request), IeAfter(request), config, c)
  BY <1>1 DEF ClicInv, ConfigInv
<1>6. CASE Undisturbed
  <2>1. clicintctl' = CtlAfter(request) /\ clicintattr' = AttrAfter(request)
        /\ clicintie' = IeAfter(request)
    BY <1>1, <1>6, Applied, BitChanged DEF Undisturbed
  <2>2. \A c \in Codes \ suspect : Described(clicintctl, clicintattr, clicintie, config, c)'
    BY <1>2, <1>5, <2>1 DEF Described
  <2> QED BY <1>2, <1>4, <2>2 DEF ClicInv, ConfigInv
<1>7. CASE Disturbed
  <2>1. ASSUME NEW c \in Codes \ suspect
        PROVE  Described(clicintctl, clicintattr, clicintie, config, c)'
    <3>1. c # request.code /\ c \notin Configuration!Of(MISELECT)
      BY <1>1, <1>7, <2>1, OwnRegister DEF Disturbed
    <3>2. /\ clicintctl'[c] = CtlAfter(request)[c] /\ clicintattr'[c] = AttrAfter(request)[c]
          /\ c \in clicintie' <=> c \in IeAfter(request)
      BY <1>3, <2>1, <3>1 DEF CtlAfter, AttrAfter, IeAfter
    <3> QED BY <1>2, <1>5, <3>2 DEF Described
  <2> QED BY <1>2, <1>4, <2>1 DEF ClicInv, ConfigInv
<1> QED BY <1>1, <1>6, <1>7 DEF ClicInv, ConfigInv

\* What a handler makes suspect.
LEMMA Suspects ==
  ASSUME ClicInv, step # "idle", NEW r \in Configuration!Requests,
         suspect' = Configuration!Suspected(Configuration!RegisterOf(r))
  PROVE  /\ suspect' \subseteq Codes /\ suspect \subseteq suspect'
         /\ Configuration!Of(Configuration!RegisterOf(request)) \subseteq suspect'
         /\ Configuration!Of(Configuration!RegisterOf(r)) \subseteq suspect'
         /\ request.code \in suspect' /\ r.code \in suspect'
<1>1. suspect \subseteq Codes /\ request \in Configuration!Requests BY DEF ClicInv, ClicTypes
<1>2. suspect' = suspect \cup Configuration!Of(Configuration!RegisterOf(request))
                   \cup Configuration!Of(Configuration!RegisterOf(r))
  BY DEF Configuration!Suspected
<1>3. \A select : Configuration!Of(select) \subseteq Codes BY DEF Configuration!Of
<1> QED BY <1>1, <1>2, <1>3, OwnRegister

LEMMA HandlerCallInv ==
  ASSUME ClicInv, NEW r \in Configuration!Requests, Configuration!HandlerCall(r)
  PROVE  ClicInv'
<1>1. /\ step' = step /\ request' = request /\ open' = open /\ config' = Configuration!Asked(r)
      /\ mireg_val' = mireg_val /\ MISELECT' = Configuration!RegisterOf(r)
      /\ suspect' = Configuration!Suspected(Configuration!RegisterOf(r))
      /\ made' = made + 1 /\ made < MaxRequests
  BY DEF Configuration!HandlerCall
<1>2. clicintctl' = CtlAfter(r) /\ clicintattr' = AttrAfter(r) /\ clicintie' = IeAfter(r)
  BY Applied, BitChanged DEF ClicInv, Configuration!HandlerCall
<1> DEFINE S == IF step = "idle" THEN Codes \ suspect ELSE {}
<1>3. /\ Configuration!Asked(r) \in Config
      /\ \A c \in S :
           Described(CtlAfter(r), AttrAfter(r), IeAfter(r), Configuration!Asked(r), c)
  <2>1. S \in SUBSET Codes /\ ClicTypes BY DEF ClicInv
  <2>2. \A c \in S : Described(clicintctl, clicintattr, clicintie, config, c)
    BY DEF ClicInv, ConfigInv
  <2> HIDE DEF S
  <2> QED BY <2>1, <2>2, AskedFor
<1>4. suspect' \subseteq Codes
  BY <1>1, Suspects DEF ClicInv, ClicTypes, Configuration!Suspected
<1>5. ClicTypes'
  BY <1>1, <1>2, <1>3, <1>4, AfterTypes, OwnRegister, ClicAssumption DEF ClicInv, ClicTypes
<1>6. CASE step = "idle"
  <2>1. suspect' = suspect BY <1>1, <1>6 DEF Configuration!Suspected
  <2>2. \A c \in Codes \ suspect' : Described(clicintctl, clicintattr, clicintie, config, c)'
    BY <1>1, <1>2, <1>3, <1>6, <2>1 DEF Described
  <2> QED BY <1>1, <1>5, <1>6, <2>2 DEF ClicInv, ConfigInv
<1>7. CASE step # "idle"
  <2>1. /\ suspect \subseteq suspect' /\ request.code \in suspect' /\ r.code \in suspect'
        /\ Configuration!Of(Configuration!RegisterOf(request)) \subseteq suspect'
        /\ Configuration!Of(Configuration!RegisterOf(r)) \subseteq suspect'
    BY <1>1, <1>7, Suspects
  <2>2. Disturbed' BY <1>1, <2>1 DEF Disturbed, Configuration!Of, Configuration!RegisterOf,
          Configuration!CtlAttr, Configuration!IpIe
  <2>3. ASSUME NEW c \in Codes \ suspect'
        PROVE  Described(CtlAfter(request), AttrAfter(request), IeAfter(request), config, c)'
    <3>1. c # request.code /\ c # r.code /\ c \in Codes \ suspect BY <2>1, <2>3
    <3>2. Described(CtlAfter(request), AttrAfter(request), IeAfter(request), config, c)
      BY <1>7, <3>1 DEF ClicInv, ConfigInv
    <3>3. /\ CtlAfter(request)'[c] = CtlAfter(request)[c]
          /\ AttrAfter(request)'[c] = AttrAfter(request)[c]
          /\ c \in IeAfter(request)' <=> c \in IeAfter(request)
      BY <1>1, <1>2, <3>1 DEF CtlAfter, AttrAfter, IeAfter
    <3>4. config'[c] = config[c]
      BY <1>1, <3>1 DEF Configuration!Asked, ClicInv, ClicTypes, Config
    <3> QED BY <3>2, <3>3, <3>4 DEF Described
  <2> QED BY <1>1, <1>5, <1>7, <2>2, <2>3 DEF ClicInv, ConfigInv
<1> QED BY <1>6, <1>7

LEMMA HandlerReadsInv ==
  ASSUME ClicInv, NEW r \in Configuration!Requests, Configuration!HandlerReads(r)
  PROVE  ClicInv'
<1> USE DEF Configuration!HandlerReads
<1>1. /\ suspect' \subseteq Codes /\ suspect \subseteq suspect'
      /\ Configuration!Of(Configuration!RegisterOf(request)) \subseteq suspect'
      /\ Configuration!Of(Configuration!RegisterOf(r)) \subseteq suspect'
  BY Suspects
<1>2. ClicTypes' BY <1>1, OwnRegister DEF ClicInv, ClicTypes
<1>3. Disturbed' BY <1>1 DEF Disturbed, Configuration!Of, Configuration!RegisterOf,
        Configuration!CtlAttr, Configuration!IpIe
<1>4. ASSUME NEW c \in Codes \ suspect'
      PROVE  Described(CtlAfter(request), AttrAfter(request), IeAfter(request), config, c)'
  <2>1. Described(CtlAfter(request), AttrAfter(request), IeAfter(request), config, c)
    BY <1>1, <1>4 DEF ClicInv, ConfigInv
  <2>2. /\ CtlAfter(request)' = CtlAfter(request) /\ AttrAfter(request)' = AttrAfter(request)
        /\ IeAfter(request)' = IeAfter(request)
    BY DEF CtlAfter, AttrAfter, IeAfter
  <2> QED BY <2>1, <2>2 DEF Described
<1> QED BY <1>2, <1>3, <1>4 DEF ClicInv, ConfigInv

LEMMA ClicStep == ClicInv /\ [Configuration!Next]_clic => ClicInv'
<1> SUFFICES ASSUME ClicInv, [Configuration!Next]_clic PROVE ClicInv' OBVIOUS
<1>1. CASE UNCHANGED clic
  BY <1>1 DEF clic, ClicInv, ClicTypes, ConfigInv, Described, CtlAfter, AttrAfter, IeAfter,
    Undisturbed, Disturbed, Configuration!ReadOf, Configuration!Of, Configuration!RegisterOf,
    Configuration!CtlAttr, Configuration!IpIe
<1>2. ASSUME NEW r \in Configuration!Requests, NEW masked \in BOOLEAN,
             Configuration!Select(r, masked)
      PROVE  ClicInv'
  BY <1>2, SelectInv
<1>3. ASSUME NEW r \in Configuration!Requests, Configuration!HandlerCall(r) PROVE ClicInv'
  BY <1>3, HandlerCallInv
<1>4. ASSUME NEW r \in Configuration!Requests, Configuration!HandlerReads(r) PROVE ClicInv'
  BY <1>4, HandlerReadsInv
<1>5. CASE Configuration!Read BY <1>5, ReadRegisterInv
<1>6. CASE Configuration!Write BY <1>6, WriteRegisterInv
<1> QED BY <1>1, <1>2, <1>3, <1>4, <1>5, <1>6 DEF Configuration!Next

LEMMA ClicSound == ClicInv => Configuration!FieldsAsAsked
BY DEF ClicInv, ConfigInv, Described, Configuration!FieldsAsAsked

-----------------------------------------------------------------------------
(* Traps *)

\* What the frames of the stack hold.
Contexts == [Trap!Registers -> 0 .. MaxDepth \cup {Trap!Junk}]
Csr == [mpie : BOOLEAN, mpil : Levels \cup {0, Trap!Junk}]
ReturnTo == [of : 0 .. MaxDepth \cup {Trap!Junk}, next : BOOLEAN]
TrapFrames ==
  [pc : {"save", "dispatch", "claim", "routine", "handle_trap", "break", "restore", "fast_exit",
         "mret"},
   irq : BOOLEAN, faulted : BOOLEAN, save : Contexts, mcause : Csr, mepc : ReturnTo,
   entry : [regs : [Trap!Registers -> 0 .. MaxDepth], MIE : BOOLEAN,
            level : Levels \cup {0, Trap!Junk}]]

TrapTypes ==
  /\ build \in Builds /\ hasExceptionHandler \in BOOLEAN /\ trapMIE \in BOOLEAN
  /\ level \in Levels \cup {0, Trap!Junk} /\ regs \in [Trap!Registers -> 0 .. MaxDepth]
  /\ mcause \in Csr /\ mepc \in [of : 0 .. MaxDepth, next : BOOLEAN]
  /\ frames \in Seq(TrapFrames) /\ Len(frames) <= MaxDepth

\* The handler of frame f, with rs in its registers when it runs, has what it will give back.
Kept(f, rs) ==
  /\ f.pc = "save" => rs = f.entry.regs
  /\ f.pc # "save" => f.save = f.entry.regs
  /\ f.pc \in {"dispatch", "claim", "fast_exit"} => rs["t"] = f.entry.regs["t"]
  /\ f.pc = "fast_exit" /\ ~Trap!saves => rs["a2"] = f.entry.regs["a2"]
  /\ f.pc = "mret" =>
       \A r \in Trap!Registers : r # "a2" \/ ~Trap!saves => rs[r] = f.entry.regs[r]

\* Handlers of the builds take the ways of their build; the i-th frame returns to the one below.
OnItsWay(f, i) ==
  /\ f.pc \in {"claim", "routine"} => Trap!saves
  /\ f.pc = "dispatch" => build # "vectored"
  /\ f.pc \in {"handle_trap", "break"} /\ Trap!saves => ~f.irq
  /\ f.pc \notin {"save", "dispatch"} /\ Trap!saves => f.mepc.of = i - 1 /\ (f.mepc.next => ~f.irq)
  /\ f.pc = "handle_trap" /\ build # "vectored" => f.mepc.of = i - 1
  /\ ~Trap!saves => /\ f.entry.level = 0 /\ (f.irq => f.entry.MIE)
                    /\ i > 1 => ~f.irq /\ ~f.entry.MIE

\* The handler that runs keeps interrupts off while the CSRs say where it returns to; where
\* nothing is saved of them, it keeps them off, and the CSRs as they are, to its end.
CsrsOf(f, i, on, cause, epc) ==
  /\ f.pc \in {"save", "dispatch"} => epc = [of |-> i - 1, next |-> FALSE]
  /\ f.pc = "handle_trap" /\ build = "vectored" /\ ~f.faulted =>
       epc = [of |-> i - 1, next |-> FALSE]
  /\ f.pc \in {"restore", "fast_exit", "mret"} /\ (Trap!saves => f.pc = "mret")
       /\ ~(build = "vectored" /\ f.faulted) =>
       epc.of = i - 1 /\ (epc.next => ~f.irq)
  /\ Trap!saves => (on => f.pc \in {"routine", "restore", "fast_exit"})
  /\ ~Trap!saves => ~on /\ cause = [mpie |-> f.entry.MIE, mpil |-> 0]

\* A handler is interrupted only with mcause and mepc saved, or in a routine it has called.
Interruptible(f) ==
  /\ Trap!saves => f.pc \in {"routine", "restore", "fast_exit"}
  /\ ~Trap!saves => f.pc = "handle_trap" /\ f.irq /\ f.faulted

Running(i) == IF i = Len(frames) THEN regs ELSE frames[i + 1].entry.regs
TrapFramesInv ==
  /\ \A i \in 1 .. Len(frames) :
       /\ Kept(frames[i], Running(i)) /\ OnItsWay(frames[i], i)
       /\ i = Len(frames) => CsrsOf(frames[i], i, trapMIE, mcause, mepc)
       /\ i # Len(frames) => Interruptible(frames[i])
  /\ ~Trap!saves => level = 0
TrapInv == TrapTypes /\ TrapFramesInv

LEMMA TrapInit == ASSUME "clic" \notin Builds PROVE Trap!Init => TrapInv
BY TrapAssumption
  DEF Trap!Init, TrapInv, TrapTypes, TrapFramesInv, Csr, Contexts, Trap!Filled, Trap!Junk,
    Trap!Registers

\* The stack when the frame on top of it is replaced.
LEMMA TopReplaced ==
  ASSUME TrapInv, frames # <<>>, NEW g \in TrapFrames,
         frames' = [frames EXCEPT ![Len(frames)] = g], g.entry = frames[Len(frames)].entry,
         UNCHANGED <<build, hasExceptionHandler>>, trapMIE' \in BOOLEAN,
         level' \in Levels \cup {0, Trap!Junk}, regs' \in [Trap!Registers -> 0 .. MaxDepth],
         mcause' \in Csr, mepc' \in [of : 0 .. MaxDepth, next : BOOLEAN],
         ~Trap!saves => level' = 0,
         Kept(g, regs'), OnItsWay(g, Len(frames)),
         CsrsOf(g, Len(frames), trapMIE', mcause', mepc')
  PROVE  TrapInv'
<1> DEFINE n == Len(frames)
<1>1. /\ frames \in Seq(TrapFrames) /\ n \in Nat \ {0} /\ n <= MaxDepth
      /\ Len(frames') = n /\ frames' \in Seq(TrapFrames)
      /\ \A i \in 1 .. n : frames'[i] = IF i = n THEN g ELSE frames[i]
  BY DEF TrapInv, TrapTypes
<1>2. TrapTypes' BY <1>1 DEF TrapInv, TrapTypes
<1>3. ASSUME NEW i \in 1 .. n
      PROVE  /\ Kept(frames[i], Running(i))' /\ OnItsWay(frames[i], i)'
             /\ i = n => CsrsOf(frames[i], i, trapMIE, mcause, mepc)'
             /\ i # n => Interruptible(frames[i])'
  <2>1. CASE i = n
    <3>1. frames'[i] = g /\ Running(i)' = regs' BY <1>1, <2>1 DEF Running
    <3> QED BY <2>1, <3>1 DEF Kept, OnItsWay, CsrsOf, Trap!saves
  <2>2. CASE i # n
    <3>1. i \in 1 .. (n - 1) /\ i + 1 \in 1 .. n
      <4>1. n \in Nat /\ i \in 1 .. n BY <1>1, ZenonT(40)
      <4> HIDE DEF n
      <4> QED BY <4>1, <2>2
    <3>2. frames'[i] = frames[i] /\ frames'[i + 1].entry = frames[i + 1].entry BY <1>1, <2>2, <3>1
    <3>3. Running(i)' = Running(i)
      <4>1. Len(frames') # i /\ Len(frames) # i BY <1>1, <2>2, Zenon
      <4> QED BY <3>2, <4>1, SMTT(30) DEF Running
    <3>4. Kept(frames[i], Running(i)) /\ OnItsWay(frames[i], i) /\ Interruptible(frames[i])
      BY <1>1, <2>2, ZenonT(40) DEF TrapInv, TrapFramesInv
    <3> QED BY <2>2, <3>2, <3>3, <3>4 DEF Kept, OnItsWay, Interruptible, Trap!saves
  <2> QED BY <2>1, <2>2
<1>4. TrapFramesInv' BY <1>1, <1>3 DEF TrapFramesInv, Trap!saves
<1> QED BY <1>2, <1>4 DEF TrapInv

\* The frame on top.
LEMMA TopFrame ==
  ASSUME TrapInv, frames # <<>>
  PROVE  /\ Len(frames) \in Nat \ {0} /\ Len(frames) <= MaxDepth
         /\ Trap!Depth = Len(frames) /\ Trap!Frame = frames[Len(frames)]
         /\ frames[Len(frames)] \in TrapFrames
         /\ Kept(frames[Len(frames)], regs) /\ OnItsWay(frames[Len(frames)], Len(frames))
         /\ CsrsOf(frames[Len(frames)], Len(frames), trapMIE, mcause, mepc)
<1>1. Len(frames) \in Nat \ {0} /\ Len(frames) \in 1 .. Len(frames)
  BY DEF TrapInv, TrapTypes
<1>2. Running(Len(frames)) = regs BY DEF Running
<1> QED BY <1>1, <1>2
  DEF TrapInv, TrapTypes, TrapFramesInv, Trap!Depth, Trap!Frame

LEMMA SaveInv ==
  ASSUME TrapInv, Trap!SaveRegisters \/ Trap!VectoredSave
  PROVE  TrapInv'
<1> DEFINE n == Len(frames)
           f == frames[n]
           next == IF build = "vectored" THEN "handle_trap" ELSE "dispatch"
           g == [f EXCEPT !.save = regs, !.pc = next]
<1> USE DEF Trap!SaveRegisters, Trap!VectoredSave, Trap!csrs, Trap!config
<1>1. frames # <<>> /\ f.pc = "save" BY DEF Trap!At, Trap!Frame, Trap!Depth
<1>2. /\ n \in Nat \ {0} /\ Trap!Depth = n /\ f \in TrapFrames /\ frames \in Seq(TrapFrames)
      /\ Kept(f, regs) /\ OnItsWay(f, n) /\ CsrsOf(f, n, trapMIE, mcause, mepc)
      /\ regs \in [Trap!Registers -> 0 .. MaxDepth]
  BY <1>1, TopFrame DEF TrapInv, TrapTypes
<1>3. /\ frames' = [frames EXCEPT ![n] = g]
      /\ UNCHANGED <<build, hasExceptionHandler, regs, trapMIE, level, mcause, mepc>>
  BY <1>2
<1> HIDE DEF n, f, Trap!SaveRegisters, Trap!VectoredSave
<1>4. /\ g \in TrapFrames /\ g.pc = next /\ g.save = regs /\ g.mcause = f.mcause
      /\ g.mepc = f.mepc /\ g.irq = f.irq /\ g.faulted = f.faulted /\ g.entry = f.entry
  BY <1>2 DEF TrapFrames, Contexts
<1> HIDE DEF g
<1>5. Kept(g, regs) BY <1>1, <1>2, <1>4 DEF Kept
<1>6. OnItsWay(g, n) BY <1>1, <1>2, <1>4 DEF OnItsWay, Trap!saves
<1>7. CsrsOf(g, n, trapMIE, mcause, mepc) BY <1>1, <1>2, <1>4 DEF CsrsOf, Trap!saves
<1>8. /\ TrapTypes /\ (~Trap!saves => level = 0) BY DEF TrapInv, TrapFramesInv
<1> QED BY <1>1, <1>3, <1>4, <1>5, <1>6, <1>7, <1>8, TopReplaced DEF n, f, TrapTypes

LEMMA DispatchInv ==
  ASSUME "clic" \notin Builds, TrapInv, Trap!Dispatch
  PROVE  TrapInv'
<1> DEFINE n == Len(frames)
           f == frames[n]
           claims == Trap!saves /\ f.irq
           g == IF claims THEN [f EXCEPT !.pc = "claim", !.mcause = mcause, !.mepc = mepc]
                ELSE [f EXCEPT !.pc = "handle_trap", !.mepc = mepc]
<1> USE DEF Trap!Dispatch, Trap!csrs, Trap!config
<1>1. frames # <<>> /\ f.pc = "dispatch" BY DEF Trap!At, Trap!Frame, Trap!Depth
<1>2. /\ n \in Nat \ {0} /\ Trap!Depth = n /\ f \in TrapFrames /\ frames \in Seq(TrapFrames)
      /\ Trap!Frame = f /\ n <= MaxDepth
      /\ Kept(f, regs) /\ OnItsWay(f, n) /\ CsrsOf(f, n, trapMIE, mcause, mepc)
      /\ regs \in [Trap!Registers -> 0 .. MaxDepth] /\ build # "clic"
      /\ mcause \in Csr /\ mepc \in [of : 0 .. MaxDepth, next : BOOLEAN]
  BY <1>1, TopFrame DEF TrapInv, TrapTypes
<1>3. /\ frames' = [frames EXCEPT ![n] = g]
      /\ UNCHANGED <<build, hasExceptionHandler, trapMIE, level, mcause, mepc>>
      /\ regs' = [r \in Trap!Registers |-> IF r = "t" THEN regs[r] ELSE n]
  BY <1>2 DEF Trap!clic, Trap!saves
<1> HIDE DEF n, f, Trap!Dispatch
<1>4. /\ g \in TrapFrames /\ g.pc = (IF claims THEN "claim" ELSE "handle_trap")
      /\ g.save = f.save /\ g.mepc = mepc /\ g.irq = f.irq /\ g.faulted = f.faulted
      /\ g.entry = f.entry
  BY <1>2 DEF TrapFrames, ReturnTo
<1> HIDE DEF g
<1>5. Kept(g, regs')
  <2>1. regs'["t"] = regs["t"] BY <1>3 DEF Trap!Registers
  <2> QED BY <1>1, <1>2, <1>4, <2>1 DEF Kept
<1>6. OnItsWay(g, n) BY <1>1, <1>2, <1>4 DEF OnItsWay, CsrsOf, Trap!saves
<1>7. CsrsOf(g, n, trapMIE, mcause, mepc) BY <1>1, <1>2, <1>4 DEF CsrsOf, OnItsWay, Trap!saves
<1>8. /\ TrapTypes /\ (~Trap!saves => level = 0) BY DEF TrapInv, TrapFramesInv
<1>9. regs' \in [Trap!Registers -> 0 .. MaxDepth] BY <1>2, <1>3
<1> QED BY <1>1, <1>3, <1>4, <1>5, <1>6, <1>7, <1>8, <1>9, TopReplaced DEF n, f, TrapTypes

LEMMA VectoredHandleInv ==
  ASSUME TrapInv, Trap!VectoredHandle
  PROVE  TrapInv'
<1> DEFINE n == Len(frames)
           f == frames[n]
           g == [f EXCEPT !.pc = "restore"]
<1> USE DEF Trap!VectoredHandle, Trap!csrs, Trap!config
<1>1. frames # <<>> /\ f.pc = "handle_trap" /\ build = "vectored"
  BY DEF Trap!At, Trap!Frame, Trap!Depth
<1>2. /\ n \in Nat \ {0} /\ Trap!Depth = n /\ f \in TrapFrames /\ frames \in Seq(TrapFrames)
      /\ Trap!Frame = f /\ n <= MaxDepth
      /\ Kept(f, regs) /\ OnItsWay(f, n) /\ CsrsOf(f, n, trapMIE, mcause, mepc)
      /\ mcause \in Csr /\ mepc \in [of : 0 .. MaxDepth, next : BOOLEAN]
  BY <1>1, TopFrame DEF TrapInv, TrapTypes
<1>3. /\ frames' = [frames EXCEPT ![n] = g] /\ regs' = [r \in Trap!Registers |-> n]
      /\ UNCHANGED <<build, hasExceptionHandler, trapMIE, level, mcause>>
  BY <1>2 DEF Trap!GoTo, Trap!Filled
<1>10. /\ mepc' \in [of : 0 .. MaxDepth, next : BOOLEAN] /\ mepc'.of = mepc.of
       /\ f.irq => mepc' = mepc
  BY <1>2
<1> HIDE DEF n, f, Trap!VectoredHandle
<1>4. /\ g \in TrapFrames /\ g.pc = "restore" /\ g.save = f.save /\ g.mepc = f.mepc
      /\ g.irq = f.irq /\ g.faulted = f.faulted /\ g.entry = f.entry
  BY <1>2 DEF TrapFrames
<1> HIDE DEF g
<1>5. Kept(g, regs') BY <1>1, <1>2, <1>4 DEF Kept
<1>6. OnItsWay(g, n) BY <1>1, <1>2, <1>4 DEF OnItsWay, Trap!saves
<1>7. CsrsOf(g, n, trapMIE', mcause', mepc')
  BY <1>1, <1>2, <1>3, <1>4, <1>10 DEF CsrsOf, Trap!saves
<1>8. /\ TrapTypes /\ (~Trap!saves => level = 0) BY DEF TrapInv, TrapFramesInv
<1>9. regs' \in [Trap!Registers -> 0 .. MaxDepth] BY <1>2, <1>3, TrapAssumption
<1> QED BY <1>1, <1>3, <1>4, <1>5, <1>6, <1>7, <1>8, <1>9, <1>10, TopReplaced DEF n, f, TrapTypes

LEMMA BreakInv ==
  ASSUME TrapInv, Trap!break_operation
  PROVE  TrapInv'
<1> DEFINE n == Len(frames)
           f == frames[n]
           g == [f EXCEPT !.pc = "break"]
<1> USE DEF Trap!break_operation, Trap!csrs, Trap!config
<1>1. frames # <<>> /\ f.pc = "handle_trap" BY DEF Trap!At, Trap!Frame, Trap!Depth
<1>2. /\ n \in Nat \ {0} /\ Trap!Depth = n /\ f \in TrapFrames /\ frames \in Seq(TrapFrames)
      /\ Trap!Frame = f /\ ~f.irq
      /\ Kept(f, regs) /\ OnItsWay(f, n) /\ CsrsOf(f, n, trapMIE, mcause, mepc)
  BY <1>1, TopFrame DEF TrapInv, TrapTypes
<1>3. /\ frames' = [frames EXCEPT ![n] = g]
      /\ UNCHANGED <<build, hasExceptionHandler, regs, trapMIE, level, mcause, mepc>>
  BY <1>2 DEF Trap!GoTo
<1> HIDE DEF n, f, Trap!break_operation
<1>4. /\ g \in TrapFrames /\ g.pc = "break" /\ g.save = f.save /\ g.mepc = f.mepc
      /\ g.irq = f.irq /\ g.faulted = f.faulted /\ g.entry = f.entry
  BY <1>2 DEF TrapFrames
<1> HIDE DEF g
<1>5. Kept(g, regs) BY <1>1, <1>2, <1>4 DEF Kept
<1>6. OnItsWay(g, n) BY <1>1, <1>2, <1>4 DEF OnItsWay, Trap!saves
<1>7. CsrsOf(g, n, trapMIE, mcause, mepc) BY <1>1, <1>2, <1>4 DEF CsrsOf, Trap!saves
<1>8. /\ TrapTypes /\ (~Trap!saves => level = 0) BY DEF TrapInv, TrapFramesInv
<1> QED BY <1>1, <1>3, <1>4, <1>5, <1>6, <1>7, <1>8, TopReplaced DEF n, f, TrapTypes

\* Two fields of a frame are changed as the frame is.
LEMMA FrameRestored ==
  ASSUME NEW s, NEW n \in DOMAIN s, NEW m
  PROVE  [s EXCEPT ![n].mepc = m, ![n].pc = "restore"]
           = [s EXCEPT ![n] = [s[n] EXCEPT !.pc = "restore", !.mepc = m]]
OBVIOUS

LEMMA HandleTrapInv ==
  ASSUME TrapInv, Trap!HandleTrap
  PROVE  TrapInv'
<1> DEFINE n == Len(frames)
           f == frames[n]
<1> USE DEF Trap!HandleTrap, Trap!csrs, Trap!config
<1>1. frames # <<>> /\ f.pc = "handle_trap" /\ build # "vectored"
  BY DEF Trap!At, Trap!Frame, Trap!Depth
<1>2. /\ n \in Nat \ {0} /\ Trap!Depth = n /\ f \in TrapFrames /\ frames \in Seq(TrapFrames)
      /\ Trap!Frame = f /\ n <= MaxDepth
      /\ Kept(f, regs) /\ OnItsWay(f, n) /\ CsrsOf(f, n, trapMIE, mcause, mepc)
      /\ mcause \in Csr /\ mepc \in [of : 0 .. MaxDepth, next : BOOLEAN]
  BY <1>1, TopFrame DEF TrapInv, TrapTypes
<1>10. f.mepc.of = n - 1 BY <1>1, <1>2 DEF OnItsWay
<1>11. PICK skips \in BOOLEAN :
         /\ f.irq => ~skips
         /\ IF Trap!saves
            THEN /\ frames' = [frames EXCEPT ![n].mepc = [of |-> f.mepc.of, next |-> skips],
                                             ![n].pc = "restore"]
                 /\ UNCHANGED mepc
            ELSE mepc' = [of |-> f.mepc.of, next |-> skips] /\ Trap!GoTo("restore")
  <2>1. PICK rc \in IF f.irq THEN {Trap!Reissue} ELSE Trap!alt_exception_result :
          IF Trap!saves
          THEN /\ frames' = [frames EXCEPT
                               ![n].mepc = [of |-> f.mepc.of, next |-> rc # Trap!Reissue],
                               ![n].pc = "restore"]
               /\ UNCHANGED mepc
          ELSE /\ mepc' = [of |-> f.mepc.of, next |-> rc # Trap!Reissue]
               /\ Trap!GoTo("restore")
    BY <1>2
  <2>2. (rc # Trap!Reissue) \in BOOLEAN /\ (f.irq => ~(rc # Trap!Reissue)) BY <2>1
  <2> QED BY <2>1, <2>2
<1> DEFINE g == [f EXCEPT !.pc = "restore",
                          !.mepc = IF Trap!saves THEN [of |-> n - 1, next |-> skips] ELSE @]
<1>3. /\ frames' = [frames EXCEPT ![n] = g] /\ regs' = [r \in Trap!Registers |-> n]
      /\ UNCHANGED <<build, hasExceptionHandler, trapMIE, level, mcause>>
  <2>1. /\ regs' = [r \in Trap!Registers |-> n]
        /\ UNCHANGED <<build, hasExceptionHandler, trapMIE, level, mcause>>
    BY <1>2 DEF Trap!Filled
  <2>2. frames' = [frames EXCEPT ![n] = g]
    <3>1. CASE Trap!saves
      <4> DEFINE m == [of |-> n - 1, next |-> skips]
      <4>1. frames' = [frames EXCEPT ![n].mepc = m, ![n].pc = "restore"]
        BY <1>10, <1>11, <3>1
      <4>2. n \in DOMAIN frames BY <1>2
      <4>3. g = [f EXCEPT !.pc = "restore", !.mepc = m] BY <3>1
      <4> HIDE DEF n, m, g
      <4> QED BY <4>1, <4>2, <4>3, FrameRestored DEF f
    <3>2. CASE ~Trap!saves BY <1>2, <1>11, <3>2 DEF Trap!GoTo
    <3> QED BY <3>1, <3>2
  <2> QED BY <2>1, <2>2
<1>12. mepc' = IF Trap!saves THEN mepc ELSE [of |-> n - 1, next |-> skips]
  BY <1>10, <1>11
<1> HIDE DEF n, f, Trap!HandleTrap
<1>4. /\ g \in TrapFrames /\ g.pc = "restore" /\ g.save = f.save
      /\ g.mepc = IF Trap!saves THEN [of |-> n - 1, next |-> skips] ELSE f.mepc
      /\ g.irq = f.irq /\ g.faulted = f.faulted /\ g.entry = f.entry
  <2> DEFINE to == IF Trap!saves THEN [of |-> n - 1, next |-> skips] ELSE f.mepc
  <2>1. to \in ReturnTo BY <1>2, TrapAssumption DEF ReturnTo, TrapFrames
  <2>2. g = [f EXCEPT !.pc = "restore", !.mepc = to] OBVIOUS
  <2> HIDE DEF to, g
  <2>3. /\ g \in TrapFrames /\ g.pc = "restore" /\ g.save = f.save /\ g.mepc = to
        /\ g.irq = f.irq /\ g.faulted = f.faulted /\ g.entry = f.entry
    BY <1>2, <2>1, <2>2 DEF TrapFrames
  <2> QED BY <2>3 DEF to
<1> HIDE DEF g
<1>5. Kept(g, regs') BY <1>1, <1>2, <1>4 DEF Kept
<1>6. OnItsWay(g, n) BY <1>1, <1>2, <1>4, <1>11 DEF OnItsWay, Trap!saves
<1>7. CsrsOf(g, n, trapMIE', mcause', mepc')
  BY <1>1, <1>2, <1>3, <1>4, <1>11, <1>12 DEF CsrsOf, Trap!saves
<1>8. /\ TrapTypes /\ (~Trap!saves => level = 0) BY DEF TrapInv, TrapFramesInv
<1>9. /\ regs' \in [Trap!Registers -> 0 .. MaxDepth]
      /\ mepc' \in [of : 0 .. MaxDepth, next : BOOLEAN]
  BY <1>2, <1>3, <1>12, TrapAssumption
<1> QED BY <1>1, <1>3, <1>4, <1>5, <1>6, <1>7, <1>8, <1>9, TopReplaced DEF n, f, TrapTypes

LEMMA RestoreRegistersInv ==
  ASSUME TrapInv, Trap!RestoreRegisters
  PROVE  TrapInv'
<1> DEFINE n == Len(frames)
           f == frames[n]
           g == [f EXCEPT !.pc = "fast_exit"]
<1> USE DEF Trap!RestoreRegisters, Trap!csrs, Trap!config
<1>1. frames # <<>> /\ f.pc = "restore" BY DEF Trap!At, Trap!Frame, Trap!Depth
<1>2. /\ n \in Nat \ {0} /\ Trap!Depth = n /\ f \in TrapFrames /\ frames \in Seq(TrapFrames)
      /\ Trap!Frame = f
      /\ Kept(f, regs) /\ OnItsWay(f, n) /\ CsrsOf(f, n, trapMIE, mcause, mepc)
      /\ regs \in [Trap!Registers -> 0 .. MaxDepth]
  BY <1>1, TopFrame DEF TrapInv, TrapTypes
<1>3. /\ frames' = [frames EXCEPT ![n] = g]
      /\ regs' = [regs EXCEPT !["a2"] = f.save["a2"], !["t"] = f.save["t"]]
      /\ UNCHANGED <<build, hasExceptionHandler, trapMIE, level, mcause, mepc>>
  BY <1>2 DEF Trap!GoTo
<1> HIDE DEF n, f, Trap!RestoreRegisters
<1>4. /\ g \in TrapFrames /\ g.pc = "fast_exit" /\ g.save = f.save /\ g.mepc = f.mepc
      /\ g.irq = f.irq /\ g.faulted = f.faulted /\ g.entry = f.entry
  BY <1>2 DEF TrapFrames
<1> HIDE DEF g
<1>9. /\ f.save = f.entry.regs /\ f.entry.regs \in [Trap!Registers -> 0 .. MaxDepth]
      /\ regs' \in [Trap!Registers -> 0 .. MaxDepth]
      /\ regs'["a2"] = f.entry.regs["a2"] /\ regs'["t"] = f.entry.regs["t"]
  BY <1>1, <1>2, <1>3 DEF Kept, TrapFrames, Trap!Registers
<1>5. Kept(g, regs') BY <1>1, <1>2, <1>4, <1>9 DEF Kept
<1>6. OnItsWay(g, n) BY <1>1, <1>2, <1>4 DEF OnItsWay, Trap!saves
<1>7. CsrsOf(g, n, trapMIE, mcause, mepc) BY <1>1, <1>2, <1>4 DEF CsrsOf, Trap!saves
<1>8. /\ TrapTypes /\ (~Trap!saves => level = 0) BY DEF TrapInv, TrapFramesInv
<1> QED BY <1>1, <1>3, <1>4, <1>5, <1>6, <1>7, <1>8, <1>9, TopReplaced DEF n, f, TrapTypes

LEMMA FastExitInv ==
  ASSUME TrapInv, Trap!FastExit
  PROVE  TrapInv'
<1> DEFINE n == Len(frames)
           f == frames[n]
           g == [f EXCEPT !.pc = "mret"]
<1> USE DEF Trap!FastExit, Trap!csrs, Trap!config
<1>1. frames # <<>> /\ f.pc = "fast_exit" BY DEF Trap!At, Trap!Frame, Trap!Depth
<1>2. /\ n \in Nat \ {0} /\ Trap!Depth = n /\ f \in TrapFrames /\ frames \in Seq(TrapFrames)
      /\ Trap!Frame = f /\ n <= MaxDepth
      /\ Kept(f, regs) /\ OnItsWay(f, n) /\ CsrsOf(f, n, trapMIE, mcause, mepc)
      /\ regs \in [Trap!Registers -> 0 .. MaxDepth]
      /\ trapMIE \in BOOLEAN /\ mcause \in Csr /\ mepc \in [of : 0 .. MaxDepth, next : BOOLEAN]
  BY <1>1, TopFrame DEF TrapInv, TrapTypes
<1>3. /\ frames' = [frames EXCEPT ![n] = g]
      /\ regs' = [regs EXCEPT !["a0"] = f.save["a0"], !["a1"] = f.save["a1"]]
      /\ IF Trap!saves THEN trapMIE' = FALSE /\ mcause' = f.mcause /\ mepc' = f.mepc
                       ELSE UNCHANGED <<trapMIE, mcause, mepc>>
      /\ UNCHANGED <<build, hasExceptionHandler, level>>
  BY <1>2 DEF Trap!GoTo
<1> HIDE DEF n, f, Trap!FastExit
<1>4. /\ g \in TrapFrames /\ g.pc = "mret" /\ g.save = f.save /\ g.mepc = f.mepc
      /\ g.irq = f.irq /\ g.faulted = f.faulted /\ g.entry = f.entry
  BY <1>2 DEF TrapFrames
<1> HIDE DEF g
<1>9. /\ regs' \in [Trap!Registers -> 0 .. MaxDepth]
      /\ \A r \in Trap!Registers : r # "a2" \/ ~Trap!saves => regs'[r] = f.entry.regs[r]
  <2>1. f.save = f.entry.regs /\ f.entry.regs \in [Trap!Registers -> 0 .. MaxDepth]
    BY <1>1, <1>2 DEF Kept, TrapFrames
  <2>2. /\ regs["t"] = f.entry.regs["t"] /\ (~Trap!saves => regs["a2"] = f.entry.regs["a2"])
    BY <1>1, <1>2 DEF Kept
  <2> QED BY <1>2, <1>3, <2>1, <2>2 DEF Trap!Registers
<1>10. /\ trapMIE' \in BOOLEAN /\ mcause' \in Csr
       /\ mepc' \in [of : 0 .. MaxDepth, next : BOOLEAN]
  <2>1. Trap!saves => f.mepc.of = n - 1 BY <1>1, <1>2 DEF OnItsWay
  <2>2. f.mepc \in ReturnTo /\ f.mcause \in Csr BY <1>2 DEF TrapFrames
  <2>3. Trap!saves => f.mepc \in [of : 0 .. MaxDepth, next : BOOLEAN]
    BY <1>2, <2>1, <2>2, TrapAssumption DEF ReturnTo
  <2> QED BY <1>2, <1>3, <2>2, <2>3
<1>5. Kept(g, regs') BY <1>1, <1>2, <1>4, <1>9 DEF Kept
<1>6. OnItsWay(g, n) BY <1>1, <1>2, <1>4 DEF OnItsWay, Trap!saves
<1>7. CsrsOf(g, n, trapMIE', mcause', mepc')
  BY <1>1, <1>2, <1>3, <1>4 DEF CsrsOf, OnItsWay, Trap!saves
<1>8. /\ TrapTypes /\ (~Trap!saves => level = 0) BY DEF TrapInv, TrapFramesInv
<1> QED BY <1>1, <1>3, <1>4, <1>5, <1>6, <1>7, <1>8, <1>9, <1>10, TopReplaced DEF n, f, TrapTypes

LEMMA MnxtiInv ==
  ASSUME "clic" \notin Builds, TrapInv, Trap!Claim \/ Trap!RoutineReturns
  PROVE  TrapInv'
<1> DEFINE n == Len(frames)
           f == frames[n]
<1> USE DEF Trap!Claim, Trap!RoutineReturns, Trap!Mnxti, Trap!config
<1>1. frames # <<>> /\ f.pc \in {"claim", "routine"} BY DEF Trap!At, Trap!Frame, Trap!Depth
<1>2. /\ n \in Nat \ {0} /\ Trap!Depth = n /\ f \in TrapFrames /\ frames \in Seq(TrapFrames)
      /\ Trap!Frame = f /\ n <= MaxDepth
      /\ Kept(f, regs) /\ OnItsWay(f, n)
      /\ regs \in [Trap!Registers -> 0 .. MaxDepth]
      /\ level \in Levels \cup {0, Trap!Junk}
      /\ mcause \in Csr /\ mepc \in [of : 0 .. MaxDepth, next : BOOLEAN]
  BY <1>1, TopFrame DEF TrapInv, TrapTypes
<1>11. PICK pc2 \in {"routine", "fast_exit", "restore"} :
         /\ Trap!GoTo(pc2) /\ (pc2 = "fast_exit" => f.pc = "claim")
  BY <1>1 DEF Trap!At, Trap!Frame, Trap!Depth
<1> DEFINE g == [f EXCEPT !.pc = pc2]
<1>3. /\ frames' = [frames EXCEPT ![n] = g] /\ trapMIE' = TRUE
      /\ UNCHANGED <<build, hasExceptionHandler, mcause, mepc>>
      /\ level' \in Levels \cup {0, Trap!Junk}
      /\ f.pc = "claim" => regs' = regs
      /\ regs' \in [Trap!Registers -> 0 .. MaxDepth]
  <2>1. [r \in Trap!Registers |-> n] \in [Trap!Registers -> 0 .. MaxDepth]
    BY <1>2, TrapAssumption
  <2> QED BY <1>2, <1>11, <2>1 DEF Trap!GoTo, Trap!Filled, Trap!At, Trap!Frame, Trap!Depth
<1> HIDE DEF n, f, Trap!Claim, Trap!RoutineReturns, Trap!Mnxti
<1>4. /\ g \in TrapFrames /\ g.pc = pc2 /\ g.save = f.save /\ g.mepc = f.mepc
      /\ g.irq = f.irq /\ g.faulted = f.faulted /\ g.entry = f.entry
  BY <1>2 DEF TrapFrames
<1> HIDE DEF g
<1>12. Trap!saves BY <1>1, <1>2 DEF OnItsWay
<1>5. Kept(g, regs') BY <1>1, <1>2, <1>3, <1>4, <1>11, <1>12 DEF Kept
<1>6. OnItsWay(g, n) BY <1>1, <1>2, <1>4, <1>11, <1>12 DEF OnItsWay
<1>7. CsrsOf(g, n, trapMIE', mcause', mepc')
  BY <1>1, <1>2, <1>3, <1>4, <1>11, <1>12 DEF CsrsOf, Trap!saves
<1> QED BY <1>1, <1>2, <1>3, <1>4, <1>5, <1>6, <1>7, <1>12, TopReplaced DEF n, f

\* A trap puts a frame on the stack.
LEMMA EnterInv ==
  ASSUME TrapInv, NEW irq \in BOOLEAN, NEW l \in Levels \cup {0, Trap!Junk}, Trap!Enter(irq, l),
         irq => trapMIE, frames # <<>> /\ ~irq => Trap!InRoutine,
         ~Trap!saves => l = 0
  PROVE  TrapInv'
<1> DEFINE n == Len(frames)
<1> USE DEF Trap!Enter, Trap!config
<1>1. /\ n \in Nat /\ frames \in Seq(TrapFrames) /\ Trap!Depth = n /\ n < MaxDepth
      /\ MaxDepth \in Nat
      /\ regs \in [Trap!Registers -> 0 .. MaxDepth] /\ trapMIE \in BOOLEAN
      /\ level \in Levels \cup {0, Trap!Junk} /\ (~Trap!saves => level = 0)
  BY TrapAssumption DEF TrapInv, TrapTypes, TrapFramesInv, Trap!Depth
<1>2. PICK unset \in IF Trap!saves THEN Trap!Unset ELSE {mcause} :
        frames' = Append(
          IF irq \/ frames = <<>> THEN frames ELSE [frames EXCEPT ![n].faulted = TRUE],
          [pc |-> "save", irq |-> irq, faulted |-> FALSE, save |-> Trap!Filled(Trap!Junk),
           mcause |-> unset, mepc |-> [of |-> Trap!Junk, next |-> FALSE],
           entry |-> [regs |-> regs, MIE |-> trapMIE, level |-> level]])
  BY <1>1
<1> DEFINE new == [pc |-> "save", irq |-> irq, faulted |-> FALSE,
                   save |-> Trap!Filled(Trap!Junk), mcause |-> unset,
                   mepc |-> [of |-> Trap!Junk, next |-> FALSE],
                   entry |-> [regs |-> regs, MIE |-> trapMIE, level |-> level]]
           below == IF irq \/ frames = <<>> THEN frames ELSE [frames EXCEPT ![n].faulted = TRUE]
<1>3. /\ trapMIE' = FALSE /\ level' = l /\ mcause' = [mpie |-> trapMIE, mpil |-> level]
      /\ mepc' = [of |-> n, next |-> FALSE] /\ UNCHANGED <<build, hasExceptionHandler, regs>>
  BY <1>1
<1>4. new \in TrapFrames
  <2>1. unset \in Csr BY <1>2 DEF Csr, Trap!Unset, TrapInv, TrapTypes
  <2>2. Trap!Filled(Trap!Junk) \in Contexts BY DEF Trap!Filled, Contexts
  <2>3. [of |-> Trap!Junk, next |-> FALSE] \in ReturnTo BY DEF ReturnTo
  <2> QED BY <1>1, <2>1, <2>2, <2>3 DEF TrapFrames
<1>5. /\ new.pc = "save" /\ new.irq = irq /\ new.faulted = FALSE /\ new.entry.regs = regs
      /\ new.entry.MIE = trapMIE /\ new.entry.level = level
  OBVIOUS
<1>6. /\ below \in Seq(TrapFrames) /\ Len(below) = n
      /\ \A i \in 1 .. n :
           /\ below[i] = (IF irq \/ i # n THEN frames[i] ELSE [frames[n] EXCEPT !.faulted = TRUE])
           /\ below[i].pc = frames[i].pc /\ below[i].irq = frames[i].irq
           /\ below[i].save = frames[i].save /\ below[i].mepc = frames[i].mepc
           /\ below[i].entry = frames[i].entry
           /\ i # n => below[i] = frames[i]
           /\ i = n /\ ~irq => below[i].faulted
  <2>1. CASE irq \/ frames = <<>> BY <1>1, <2>1
  <2>2. CASE ~irq /\ frames # <<>>
    <3>1. n \in 1 .. n /\ frames[n] \in TrapFrames BY <1>1, <2>2
    <3>2. [frames[n] EXCEPT !.faulted = TRUE] \in TrapFrames BY <3>1 DEF TrapFrames
    <3>3. below = [frames EXCEPT ![n] = [frames[n] EXCEPT !.faulted = TRUE]] BY <1>1, <2>2
    <3>4. \A i \in 1 .. n : frames[i] \in TrapFrames BY <1>1
    <3>6. n = Len(frames) OBVIOUS
    <3> HIDE DEF below, n
    <3>5. /\ below \in Seq(TrapFrames) /\ Len(below) = n
          /\ \A i \in 1 .. n : below[i] = IF i = n THEN [frames[n] EXCEPT !.faulted = TRUE]
                                          ELSE frames[i]
      BY <1>1, <3>1, <3>2, <3>3, <3>6
    <3>8. LET f == frames[n]
              m == [frames[n] EXCEPT !.faulted = TRUE]
          IN  /\ m.pc = f.pc /\ m.irq = f.irq /\ m.save = f.save /\ m.mepc = f.mepc
              /\ m.entry = f.entry /\ m.faulted
      BY <3>1 DEF TrapFrames
    <3> QED BY <2>2, <3>1, <3>5, <3>8
  <2> QED BY <2>1, <2>2
<1>11. frames # <<>> <=> n # 0 BY <1>1
<1> HIDE DEF new, below, Trap!Enter
<1>7. /\ frames' \in Seq(TrapFrames) /\ Len(frames') = n + 1 /\ frames'[n + 1] = new
      /\ \A i \in 1 .. n : frames'[i] = below[i]
  BY <1>1, <1>2, <1>4, <1>6 DEF new, below
<1>8. TrapTypes'
  <2>1. mcause' \in Csr BY <1>1, <1>3 DEF Csr
  <2>2. [of |-> n, next |-> FALSE] \in [of : 0 .. MaxDepth, next : BOOLEAN]
      /\ n + 1 <= MaxDepth
    <3> HIDE DEF n
    <3> QED BY <1>1
  <2>3. build' \in Builds /\ hasExceptionHandler' \in BOOLEAN
    BY <1>3 DEF TrapInv, TrapTypes
  <2> QED BY <1>1, <1>3, <1>7, <2>1, <2>2, <2>3 DEF TrapTypes
<1>9. ASSUME NEW i \in 1 .. (n + 1)
      PROVE  /\ Kept(frames[i], Running(i))' /\ OnItsWay(frames[i], i)'
             /\ i = n + 1 => CsrsOf(frames[i], i, trapMIE, mcause, mepc)'
             /\ i # n + 1 => Interruptible(frames[i])'
  <2>1. CASE i = n + 1
    <3>1. frames'[i] = new /\ Running(i)' = regs BY <1>3, <1>7, <2>1 DEF Running
    <3>2. Kept(new, regs) BY <1>5 DEF Kept
    <3>3. OnItsWay(new, i)
      <4>1. n # 0 /\ ~Trap!saves => ~irq /\ ~trapMIE
        <5> SUFFICES ASSUME n # 0, ~Trap!saves PROVE ~irq /\ ~trapMIE OBVIOUS
        <5>1. frames # <<>> BY <1>1
        <5>2. CsrsOf(frames[n], n, trapMIE, mcause, mepc) BY <5>1, TopFrame
        <5> QED BY <5>2 DEF CsrsOf
      <4>2. i > 1 => n # 0 BY <1>1, <2>1
      <4> HIDE DEF n
      <4> QED BY <1>1, <1>5, <4>1, <4>2 DEF OnItsWay
    <3>4. CsrsOf(new, i, trapMIE', mcause', mepc')
      <4>1. i - 1 = n BY <1>1, <2>1
      <4> HIDE DEF n
      <4> QED BY <1>1, <1>3, <1>5, <4>1 DEF CsrsOf
    <3> QED BY <1>3, <2>1, <3>1, <3>2, <3>3, <3>4 DEF Kept, OnItsWay, CsrsOf, Trap!saves
  <2>2. CASE i # n + 1
    <3>1. i \in 1 .. n BY <1>1, <2>2
    <3>2. frames'[i] = below[i] BY <1>7, <3>1
    <3>3. Kept(frames[i], Running(i)) /\ OnItsWay(frames[i], i)
      BY <3>1 DEF TrapInv, TrapFramesInv
    <3>4. Running(i)' = Running(i)
      <4>1. CASE i = n BY <1>1, <1>5, <1>7, <4>1 DEF Running
      <4>2. CASE i # n
        <5>1. i + 1 \in 1 .. n BY <1>1, <3>1, <4>2
        <5>2. frames'[i + 1].entry = frames[i + 1].entry BY <1>6, <1>7, <5>1
        <5>3. Len(frames') # i /\ Len(frames) # i BY <1>7, <2>2, <4>2
        <5> QED BY <5>2, <5>3 DEF Running
      <4> QED BY <4>1, <4>2
    <3>5. Interruptible(below[i])
      <4>1. CASE i # n
        BY <1>6, <3>1, <4>1 DEF TrapInv, TrapFramesInv
      <4>2. CASE i = n
        <5>1. frames # <<>> BY <1>1, <3>1
        <5>2. CsrsOf(frames[n], n, trapMIE, mcause, mepc) /\ OnItsWay(frames[n], n)
          BY <5>1, TopFrame
        <5>3. ~irq => \/ frames[n].pc = "routine"
                      \/ frames[n].pc = "handle_trap" /\ frames[n].irq
          BY <5>1 DEF Trap!InRoutine, Trap!At, Trap!Frame, Trap!Depth
        <5> QED BY <1>6, <3>1, <4>2, <5>2, <5>3 DEF CsrsOf, OnItsWay, Interruptible
      <4> QED BY <4>1, <4>2
    <3>6. Kept(below[i], Running(i)) /\ OnItsWay(below[i], i)
      BY <1>6, <3>1, <3>3 DEF Kept, OnItsWay
    <3> QED BY <1>3, <2>2, <3>2, <3>4, <3>5, <3>6
      DEF Kept, OnItsWay, Interruptible, Trap!saves
  <2> QED BY <2>1, <2>2
<1>10. TrapFramesInv' BY <1>1, <1>3, <1>7, <1>9 DEF TrapFramesInv, Trap!saves
<1> QED BY <1>8, <1>10 DEF TrapInv

\* A trap returns to the frame below.
LEMMA MretInv ==
  ASSUME TrapInv, Trap!Mret
  PROVE  TrapInv'
<1> DEFINE n == Len(frames)
           f == frames[n]
           m == n - 1
<1> USE DEF Trap!Mret, Trap!config
<1>1. frames # <<>> /\ f.pc = "mret" BY DEF Trap!At, Trap!Frame, Trap!Depth
<1>2. /\ n \in Nat \ {0} /\ n <= MaxDepth /\ f \in TrapFrames /\ frames \in Seq(TrapFrames)
      /\ Kept(f, regs) /\ OnItsWay(f, n) /\ CsrsOf(f, n, trapMIE, mcause, mepc)
      /\ mcause \in Csr
  BY <1>1, TopFrame DEF TrapInv, TrapTypes
<1>3. /\ trapMIE' = mcause.mpie /\ level' = mcause.mpil
      /\ mcause' = [mcause EXCEPT !.mpie = TRUE]
      /\ UNCHANGED <<build, hasExceptionHandler, regs, mepc>>
  OBVIOUS
<1>4. /\ frames' \in Seq(TrapFrames) /\ Len(frames') = m /\ m \in Nat /\ m <= MaxDepth
      /\ \A i \in 1 .. m : frames'[i] = frames[i]
  <2>1. frames' = SubSeq(frames, 1, m) BY DEF Trap!Depth
  <2>2. m \in Nat /\ m <= MaxDepth
    <3> HIDE DEF n
    <3> QED BY <1>2, TrapAssumption
  <2>3. n = Len(frames) /\ m <= n BY <1>2
  <2> HIDE DEF m, n
  <2>4. Len(SubSeq(frames, 1, m)) = m /\ SubSeq(frames, 1, m) \in Seq(TrapFrames)
        /\ \A i \in 1 .. m : SubSeq(frames, 1, m)[i] = frames[i]
    BY <1>2, <2>2, <2>3
  <2> QED BY <2>1, <2>2, <2>4
<1>5. TrapTypes' BY <1>2, <1>3, <1>4 DEF TrapInv, TrapTypes, Csr
<1>6. ~Trap!saves => /\ trapMIE' = f.entry.MIE /\ level' = 0
                     /\ mcause' = [mpie |-> TRUE, mpil |-> 0]
  <2> SUFFICES ASSUME ~Trap!saves
               PROVE  /\ trapMIE' = f.entry.MIE /\ level' = 0
                      /\ mcause' = [mpie |-> TRUE, mpil |-> 0]
    OBVIOUS
  <2>1. mcause = [mpie |-> f.entry.MIE, mpil |-> 0] BY <1>2 DEF CsrsOf
  <2>2. f.entry.MIE \in BOOLEAN BY <1>2 DEF TrapFrames
  <2> HIDE DEF f
  <2> QED BY <1>3, <2>1, <2>2
<1>7. ASSUME NEW i \in 1 .. m
      PROVE  /\ Kept(frames[i], Running(i))' /\ OnItsWay(frames[i], i)'
             /\ i = m => CsrsOf(frames[i], i, trapMIE, mcause, mepc)'
             /\ i # m => Interruptible(frames[i])'
  <2>1. i \in 1 .. n /\ i # n BY <1>2
  <2>2. Kept(frames[i], Running(i)) /\ OnItsWay(frames[i], i) /\ Interruptible(frames[i])
    BY <2>1 DEF TrapInv, TrapFramesInv
  <2>3. frames'[i] = frames[i] BY <1>4
  <2>4. CASE i = m
    <3>1. Running(i) = f.entry.regs /\ Running(i)' = regs
      BY <1>2, <1>3, <1>4, <2>1, <2>4 DEF Running
    <3>2. \A r \in Trap!Registers : r # "a2" \/ ~Trap!saves => regs[r] = f.entry.regs[r]
      BY <1>1, <1>2 DEF Kept
    <3>3. Kept(frames[i], regs)
      BY <2>2, <3>1, <3>2 DEF Kept, Interruptible, Trap!Registers
    <3>4. CsrsOf(frames[i], i, trapMIE', mcause', mepc')
      <4>1. CASE Trap!saves BY <2>2, <4>1 DEF Interruptible, CsrsOf, Trap!saves
      <4>2. CASE ~Trap!saves
        <5>1. ~f.entry.MIE
          <6>1. n > 1 BY <1>2, <2>4
          <6> QED BY <1>2, <4>2, <6>1 DEF OnItsWay
        <5>2. /\ frames[i].pc = "handle_trap" /\ frames[i].irq /\ frames[i].faulted
              /\ frames[i].entry.MIE /\ f.entry.MIE \in BOOLEAN
              /\ frames[i].entry.MIE \in BOOLEAN
          <6>1. frames[i] \in TrapFrames BY <1>2, <2>1
          <6> QED BY <1>2, <2>2, <4>2, <6>1 DEF OnItsWay, Interruptible, TrapFrames
        <5> HIDE DEF n, f, m
        <5> QED BY <1>6, <4>2, <5>1, <5>2 DEF CsrsOf
      <4> QED BY <4>1, <4>2
    <3>5. Trap!saves' <=> Trap!saves BY <1>3 DEF Trap!saves
    <3>6. Kept(frames[i], Running(i))' BY <2>3, <3>1, <3>3, <3>5 DEF Kept
    <3>7. OnItsWay(frames[i], i)' BY <2>2, <2>3, <3>5 DEF OnItsWay
    <3>8. CsrsOf(frames[i], i, trapMIE, mcause, mepc)' BY <1>3, <2>3, <3>4, <3>5 DEF CsrsOf
    <3> QED BY <2>4, <3>6, <3>7, <3>8
  <2>5. CASE i # m
    <3>1. i + 1 \in 1 .. m BY <1>4, <2>5
    <3>2. Running(i)' = Running(i) BY <1>4, <2>1, <2>5, <3>1 DEF Running
    <3> QED BY <1>3, <2>2, <2>3, <2>5, <3>2 DEF Kept, OnItsWay, Interruptible, Trap!saves
  <2> QED BY <2>4, <2>5
<1>8. TrapFramesInv' BY <1>3, <1>4, <1>6, <1>7 DEF TrapFramesInv, Trap!saves
<1> QED BY <1>5, <1>8 DEF TrapInv

LEMMA TrapStep ==
  ASSUME "clic" \notin Builds
  PROVE  TrapInv /\ [Trap!Next]_traps => TrapInv'
<1> SUFFICES ASSUME TrapInv, [Trap!Next]_traps PROVE TrapInv' OBVIOUS
<1>0. build # "clic" BY DEF TrapInv, TrapTypes
<1>1. CASE UNCHANGED traps
  BY <1>1 DEF traps, TrapInv, TrapTypes, TrapFramesInv, Kept, OnItsWay, CsrsOf, Interruptible,
    Running, Trap!saves
<1>2. ASSUME NEW l \in Levels, Trap!Interrupt(l) PROVE TrapInv'
  <2> DEFINE to == IF Trap!clic THEN l ELSE level
  <2>1. trapMIE /\ Trap!Enter(TRUE, to) BY <1>2 DEF Trap!Interrupt
  <2>2. to \in Levels \cup {0, Trap!Junk} /\ (~Trap!saves => to = 0)
    BY <1>0 DEF TrapInv, TrapTypes, TrapFramesInv, Trap!clic, Trap!saves
  <2> HIDE DEF to
  <2> QED BY <2>1, <2>2, EnterInv
<1>3. CASE Trap!Fault
  <2>1. Trap!Enter(FALSE, level) /\ (frames = <<>> \/ Trap!InRoutine) BY <1>3 DEF Trap!Fault
  <2>2. level \in Levels \cup {0, Trap!Junk} /\ (~Trap!saves => level = 0)
    BY DEF TrapInv, TrapTypes, TrapFramesInv
  <2> QED BY <2>1, <2>2, EnterInv
<1>4. ASSUME NEW h \in BOOLEAN, Trap!alt_instruction_exception_register(h) PROVE TrapInv'
  BY <1>4 DEF Trap!alt_instruction_exception_register, Trap!csrs, TrapInv, TrapTypes,
    TrapFramesInv, Trap!saves
<1>5. CASE Trap!SaveRegisters \/ Trap!VectoredSave BY <1>5, SaveInv
<1>6. CASE Trap!VectoredHandle BY <1>6, VectoredHandleInv
<1>7. CASE Trap!break_operation BY <1>7, BreakInv
<1>8. CASE Trap!Dispatch BY <1>8, DispatchInv
<1>9. CASE Trap!HandleTrap BY <1>9, HandleTrapInv
<1>10. CASE Trap!Claim \/ Trap!RoutineReturns BY <1>10, MnxtiInv
<1>11. CASE Trap!RestoreRegisters BY <1>11, RestoreRegistersInv
<1>12. CASE Trap!FastExit BY <1>12, FastExitInv
<1>13. CASE Trap!Mret BY <1>13, MretInv
<1> QED BY <1>1, <1>2, <1>3, <1>4, <1>5, <1>6, <1>7, <1>8, <1>9, <1>10, <1>11, <1>12, <1>13
  DEF Trap!Next

LEMMA TrapSound == TrapInv => Trap!ReturnsWhereInterrupted
<1> SUFFICES ASSUME TrapInv, Trap!At("mret"), ~(build = "vectored" /\ Trap!Frame.faulted)
             PROVE  /\ Trap!Returns(Trap!Registers \ {"a2"})
                    /\ ~Trap!clic => Trap!Returns(Trap!Registers) /\ Trap!CsrsRestored
  BY DEF Trap!ReturnsWhereInterrupted
<1> DEFINE n == Len(frames)
           f == frames[n]
<1>1. frames # <<>> /\ f.pc = "mret" /\ Trap!Frame = f BY DEF Trap!At, Trap!Frame, Trap!Depth
<1>2. /\ n \in Nat \ {0} /\ Trap!Depth = n /\ f \in TrapFrames
      /\ Kept(f, regs) /\ OnItsWay(f, n) /\ CsrsOf(f, n, trapMIE, mcause, mepc)
  BY <1>1, TopFrame
<1>3. mepc.of = n - 1 /\ (mepc.next => ~f.irq) BY <1>1, <1>2 DEF CsrsOf
<1>4. \A r \in Trap!Registers : r # "a2" \/ ~Trap!saves => regs[r] = f.entry.regs[r]
  BY <1>1, <1>2 DEF Kept
<1>5. ~Trap!saves => mcause = [mpie |-> f.entry.MIE, mpil |-> f.entry.level]
  BY <1>2 DEF CsrsOf, OnItsWay
<1>6. Trap!saves => Trap!clic BY DEF Trap!saves, Trap!clic
<1> QED BY <1>1, <1>2, <1>3, <1>4, <1>5, <1>6 DEF Trap!Returns, Trap!CsrsRestored
-----------------------------------------------------------------------------
(* The scan of the features: an order in which headers are visited *)

Addresses(h) == DOMAIN h.headers

\* The headers in o have been dealt with; the first n calls of w may be at others.
Visited(o) == {o[i] : i \in 1 .. Len(o)}
Called(w, n) == {w[k].dfh : k \in 1 .. n}
Reached(w, o) == Visited(o) \cup Called(w, Len(w))

\* A call has yet to follow link i of header a: it is at an earlier block.
Ahead(frame, a, i) == frame.dfh = a /\ (i = 0 \/ i >= frame.block)
Left(w, n, a, i) == \E k \in 1 .. n : Ahead(w[k], a, i)

Frames(h) == [dfh : Addresses(h), block : Nat]
WalkTypes(h, w, o) ==
  /\ w \in Seq(Frames(h)) /\ o \in Seq(Addresses(h))
  /\ \A i, j \in 1 .. Len(o) : o[i] = o[j] => i = j
NestedCalls(w, o) ==
  /\ \A k, l \in 1 .. Len(w) : w[k].dfh = w[l].dfh => k = l
  /\ \A k \in 1 .. Len(w) : /\ w[k].block > 0 <=> w[k].dfh \in Visited(o)
                            /\ k < Len(w) => w[k].block > 0
LinksFollowed(h, w, o) ==
  /\ h.first \in Reached(w, o)
  /\ \A a \in Visited(o) : \A i \in Platform!Links(h, a) :
       Platform!Target(h, a, i) \in Reached(w, o) <=> ~Left(w, Len(w), a, i)
  /\ \A a \in Addresses(h) : \A i \in Platform!Links(h, a) :
       Platform!Target(h, a, i) \in Reached(w, o) => a \in Visited(o)
IsWalk(h, w, o) == WalkTypes(h, w, o) /\ NestedCalls(w, o) /\ LinksFollowed(h, w, o)

\* The vector describes the headers in o, and nothing else yet.
Describes(h, o, v) ==
  /\ \A i \in 1 .. Len(o) :
       LET header == h.headers[o[i]]
       IN  /\ v[i].guid = header.guid
           /\ v[i].base_address = header.csr + (IF header.csr_absolute THEN 0 ELSE o[i])
           /\ \A l \in DOMAIN Platform!BlocksOf(header) :
                v[i].parameters[l].data = Platform!BlocksOf(header)[l].data
  /\ \A i \in (Len(o) + 1) .. Len(v) : v[i].parameters = <<>>

\* The parent that header b has by the link that leads to it: by a branch that is not the
\* first of its header only that it is described just before b, as entry j.
IsFirstBranch(h, a, l) == \A j \in Platform!Links(h, a) \ {0} : ~(j < l)
LedByBranch(h, b) ==
  \E a \in Addresses(h) : \E l \in Platform!Links(h, a) \ {0} : Platform!Target(h, a, l) = b
JustBefore(h, b, parent, j) == LedByBranch(h, b) => parent = j - 2
HasParent(h, o, v, b, parent) ==
  /\ b = h.first => parent = -1
  /\ \A i \in 1 .. Len(o) : \A l \in Platform!Links(h, o[i]) :
       Platform!Target(h, o[i], l) = b =>
         IF l = 0 THEN parent = v[i].dfh_parent ELSE IsFirstBranch(h, o[i], l) => parent = i - 1
IsAfter(h, o) ==
  \A i, j \in 1 .. Len(o) : \A l \in Platform!Links(h, o[i]) :
    Platform!Target(h, o[i], l) = o[j] => i < j
Parents(h, o, v) ==
  \A j \in 1 .. Len(o) : /\ HasParent(h, o, v, o[j], v[j].dfh_parent)
                         /\ JustBefore(h, o[j], v[j].dfh_parent, j)
ParentOfCall(h, w, o, v, head, k) ==
  /\ HasParent(h, o, v, w[k].dfh, head[k])
  /\ \A i \in 1 .. Len(o) : o[i] = w[k].dfh => v[i].dfh_parent = head[k]
  /\ w[k].block = 0 => JustBefore(h, w[k].dfh, head[k], Len(o) + 1)
  /\ w[k].block > 0 =>
       \/ k = Len(w) /\ w[k].dfh = o[Len(o)]
       \/ \E l \in Platform!Links(h, w[k].dfh) \ {0} : l < w[k].block
ParentsOfCalls(h, w, o, v, head) ==
  /\ 1 .. Len(w) \subseteq DOMAIN head
  /\ \A k \in 1 .. Len(w) : ParentOfCall(h, w, o, v, head, k)
Recorded(h, o, v) == Describes(h, o, v) /\ IsAfter(h, o) /\ Parents(h, o, v)
Collected(h, w, o, v, head) ==
  IsWalk(h, w, o) /\ Recorded(h, o, v) /\ ParentsOfCalls(h, w, o, v, head)

\* A vector of n descriptions.
InfoFields(info) ==
  info = [guid |-> info.guid, base_address |-> info.base_address,
          parameters |-> info.parameters, dfh_parent |-> info.dfh_parent,
          is_mmio_opened |-> info.is_mmio_opened,
          is_interrupt_opened |-> info.is_interrupt_opened]
Vector(v, n) == v = [i \in 1 .. n |-> v[i]] /\ \A i \in 1 .. n : InfoFields(v[i])
Size(h) == Cardinality(Addresses(h))

ScanTypes ==
  /\ dfl \in Hardware /\ scan \in {"idle", "count", "collect", "ready", "exited", "overrun"}
  /\ s_scanned_interface_count \in Nat /\ s_interface_index \in Nat \cup {-1}
  /\ dfh_parent_stack = [head |-> dfh_parent_stack.head, top |-> dfh_parent_stack.top,
                         size |-> dfh_parent_stack.size]
  /\ dfh_parent_stack.top \in Nat /\ dfh_parent_stack.size \in Nat
  /\ walk \in Seq(Frames(dfl))
  /\ \E n \in Nat : Vector(vec, n)
StackInv ==
  /\ scan \in {"idle", "ready"} =>
       dfh_parent_stack.top = 0 /\ dfh_parent_stack.size = 0 /\ walk = <<>>
  /\ scan \in {"count", "collect"} =>
       /\ dfh_parent_stack.size = DFH_PARENT_STACK_INCR_SIZE
       /\ dfh_parent_stack.top = Len(walk) /\ Len(walk) < DFH_PARENT_STACK_INCR_SIZE
  /\ scan = "overrun" => Len(walk) >= DFH_PARENT_STACK_INCR_SIZE
Counting ==
  /\ heap = {<<"stack">>} /\ vec = <<>>
  /\ \E o \in Seq(Addresses(dfl)) : s_scanned_interface_count = Len(o) /\ IsWalk(dfl, walk, o)
Collecting ==
  /\ heap \subseteq {<<"stack">>} \cup Platform!Owned /\ Vector(vec, Size(dfl))
  /\ \E o \in Seq(Addresses(dfl)) :
       /\ s_interface_index + 1 = Len(o)
       /\ Collected(dfl, walk, o, vec, dfh_parent_stack.head)
AllDescribed ==
  /\ heap \subseteq Platform!Owned /\ Vector(vec, Size(dfl))
  /\ \E o \in Seq(Addresses(dfl)) : IsWalk(dfl, <<>>, o) /\ Recorded(dfl, o, vec)
ScanInv ==
  /\ ScanTypes /\ StackInv
  /\ scan = "idle" => heap = {} /\ vec = <<>>
  /\ scan = "count" => Counting
  /\ scan = "collect" => Collecting
  /\ scan = "ready" => AllDescribed

-----------------------------------------------------------------------------
(* What the tree of features says of its links *)

LEMMA LinksInside ==
  ASSUME NEW h \in Hardware
  PROVE  /\ h.first \in Addresses(h)
         /\ \A a \in Addresses(h) : \A i \in Platform!Links(h, a) :
              /\ i \in Nat /\ Platform!Target(h, a, i) \in Addresses(h)
              /\ Platform!Target(h, a, i) # h.first
<1>1. Platform!IsTree(h) BY PlatformAssumption
<1>2. \A a \in Addresses(h) : \A i \in Platform!Links(h, a) : i \in Nat BY DEF Platform!Links
<1> QED BY <1>1, <1>2 DEF Platform!IsTree, Addresses

LEMMA LinkedOnce ==
  ASSUME NEW h \in Hardware, NEW a \in Addresses(h), NEW b \in Addresses(h),
         NEW i \in Platform!Links(h, a), NEW j \in Platform!Links(h, b),
         Platform!Target(h, a, i) = Platform!Target(h, b, j)
  PROVE  a = b /\ i = j
<1>1. Platform!IsTree(h) BY PlatformAssumption
<1> QED BY <1>1 DEF Platform!IsTree, Addresses

LEMMA LedTo ==
  ASSUME NEW h \in Hardware, NEW S, S \subseteq Addresses(h), h.first \in S,
         \A a \in S : \A i \in Platform!Links(h, a) : Platform!Target(h, a, i) \in S
  PROVE  S = Addresses(h)
<1>1. Platform!IsTree(h) BY PlatformAssumption
<1> QED BY <1>1 DEF Platform!IsTree, Addresses

LEMMA NamesApart ==
  ASSUME NEW h \in Hardware, NEW a \in Addresses(h), NEW b \in Addresses(h),
         h.headers[a].guid = h.headers[b].guid
  PROVE  a = b
<1>1. Platform!IsTree(h) BY PlatformAssumption
<1> QED BY <1>1 DEF Platform!IsTree, Addresses

LEMMA BlocksAreASequence ==
  ASSUME NEW h \in Hardware, NEW a \in Addresses(h)
  PROVE  \E S : Platform!BlocksOf(h.headers[a]) \in Seq(S)
<1> DEFINE header == h.headers[a]
<1> DEFINE bs == header.blocks
<1>1. CASE ~header.has_params
  <2>1. Platform!BlocksOf(header) = <<>> BY <1>1 DEF Platform!BlocksOf
  <2> QED BY <2>1
<1>2. CASE header.has_params
  <2>1. Platform!IsTree(h) BY PlatformAssumption
  <2>2. bs # <<>> /\ bs \in Seq({bs[i] : i \in DOMAIN bs})
    BY <1>2, <2>1 DEF Platform!IsTree, Addresses
  <2> HIDE DEF bs
  <2> DEFINE S == {bs[i] : i \in DOMAIN bs}
  <2>3. bs \in Seq(S) BY <2>2
  <2> HIDE DEF S
  <2>4. Len(bs) \in Nat \ {0} BY <2>2, <2>3
  <2>5. SubSeq(bs, 1, Len(bs) - 1) \in Seq(S) BY <2>3, <2>4
  <2>6. Platform!BlocksOf(header) \in {bs, SubSeq(bs, 1, Len(bs) - 1)}
    BY <1>2 DEF Platform!BlocksOf, Platform!Front, bs
  <2> QED BY <2>3, <2>5, <2>6
<1> QED BY <1>1, <1>2

-----------------------------------------------------------------------------
(* The calls of a walk, as sequences *)

\* Of the calls w2 the last is frame, and those before are the ones of w.
UpTo(h, w, w2, n, frame) ==
  /\ w2 \in Seq(Frames(h)) /\ Len(w2) = n /\ w2[n] = frame
  /\ \A k \in 1 .. (n - 1) : w2[k] = w[k]

LEMMA BlockChanged ==
  ASSUME NEW h, NEW w \in Seq(Frames(h)), w # <<>>, NEW b \in Nat
  PROVE  UpTo(h, w, [w EXCEPT ![Len(w)].block = b], Len(w), [dfh |-> w[Len(w)].dfh, block |-> b])
<1> DEFINE n == Len(w)
<1> DEFINE S == Frames(h)
<1>1. n \in Nat \ {0} BY DEF n
<1>2. w[n] \in S BY <1>1 DEF n, S
<1> DEFINE x == [w[n] EXCEPT !.block = b]
<1>3. x = [dfh |-> w[n].dfh, block |-> b] /\ x \in S BY <1>2 DEF S, Frames, x
<1>4. [w EXCEPT ![Len(w)].block = b] = [w EXCEPT ![n] = x] BY DEF n, x
<1>5. w \in Seq(S) BY DEF S
<1>6. n \in 1 .. Len(w) BY <1>1 DEF n
<1> DEFINE w2 == [w EXCEPT ![n] = x]
<1>7. w2 \in Seq(S) /\ Len(w2) = n /\ w2[n] = x /\ \A i \in 1 .. (n - 1) : w2[i] = w[i]
  <2>1. n = Len(w) BY DEF n
  <2> HIDE DEF n, x, S
  <2> QED BY <1>3, <1>5, <1>6, <2>1
<1> QED BY <1>3, <1>4, <1>7 DEF UpTo, S, n

LEMMA CallAdded ==
  ASSUME NEW h, NEW w \in Seq(Frames(h)), NEW a \in Addresses(h)
  PROVE  UpTo(h, w, Append(w, Platform!Call(a)), Len(w) + 1, [dfh |-> a, block |-> 0])
<1> DEFINE c == [dfh |-> a, block |-> 0]
<1> DEFINE S == Frames(h)
<1>1. c \in S /\ Platform!Call(a) = c BY DEF Frames, c, S, Platform!Call
<1>2. w \in Seq(S) BY DEF S
<1>3. UpTo(h, w, Append(w, c), Len(w) + 1, c)
  <2> HIDE DEF c
  <2>1. Append(w, c) \in Seq(S) /\ Len(Append(w, c)) = Len(w) + 1
        /\ Append(w, c)[Len(w) + 1] = c /\ \A k \in 1 .. Len(w) : Append(w, c)[k] = w[k]
    <3> HIDE DEF S
    <3> QED BY <1>1, <1>2
  <2>2. Len(w) \in Nat /\ Len(w) + 1 - 1 = Len(w) BY <1>2
  <2> QED BY <2>1, <2>2 DEF UpTo, S
<1> QED BY <1>1, <1>3

LEMMA LastDropped ==
  ASSUME NEW h, NEW w \in Seq(Frames(h)), w # <<>>
  PROVE  /\ Platform!Front(w) \in Seq(Frames(h)) /\ Len(Platform!Front(w)) = Len(w) - 1
         /\ \A k \in 1 .. (Len(w) - 1) : Platform!Front(w)[k] = w[k]
<1> DEFINE S == Frames(h)
<1>1. w \in Seq(S) /\ Platform!Front(w) = SubSeq(w, 1, Len(w) - 1) BY DEF S, Platform!Front
<1>2. SubSeq(w, 1, Len(w) - 1) \in Seq(S) /\ Len(SubSeq(w, 1, Len(w) - 1)) = Len(w) - 1
      /\ \A k \in 1 .. (Len(w) - 1) : SubSeq(w, 1, Len(w) - 1)[k] = w[k]
  <2> DEFINE n == Len(w) - 1
  <2>1. n \in Nat /\ n <= Len(w) BY <1>1
  <2> HIDE DEF S, n
  <2>2. /\ SubSeq(w, 1, n) \in Seq(S) /\ Len(SubSeq(w, 1, n)) = n
        /\ \A k \in 1 .. n : SubSeq(w, 1, n)[k] = w[k]
    BY <1>1, <2>1
  <2> QED BY <2>2 DEF n
<1> QED BY <1>1, <1>2 DEF S

LEMMA OneCall ==
  ASSUME NEW h, NEW a \in Addresses(h)
  PROVE  UpTo(h, <<>>, <<Platform!Call(a)>>, 1, [dfh |-> a, block |-> 0])
<1>1. [dfh |-> a, block |-> 0] \in Frames(h) BY DEF Frames
<1> QED BY <1>1 DEF UpTo, Platform!Call

\* One more header is visited.
LEMMA OneMore ==
  ASSUME NEW S, NEW o \in Seq(S), NEW a \in S, a \notin Visited(o),
         \A i, j \in 1 .. Len(o) : o[i] = o[j] => i = j
  PROVE  /\ Append(o, a) \in Seq(S) /\ Len(Append(o, a)) = Len(o) + 1
         /\ Append(o, a)[Len(o) + 1] = a /\ \A i \in 1 .. Len(o) : Append(o, a)[i] = o[i]
         /\ \A i, j \in 1 .. (Len(o) + 1) : Append(o, a)[i] = Append(o, a)[j] => i = j
         /\ Visited(Append(o, a)) = Visited(o) \cup {a}
<1> DEFINE p == Append(o, a)
<1> DEFINE n == Len(o)
<1>1. p \in Seq(S) /\ Len(p) = n + 1 /\ p[n + 1] = a /\ \A i \in 1 .. n : p[i] = o[i]
  OBVIOUS
<1>2. n \in Nat OBVIOUS
<1>3. \A i \in 1 .. n : o[i] # a BY DEF Visited, n
<1>4. \A i, j \in 1 .. n : o[i] = o[j] => i = j BY DEF n
<1> HIDE DEF p, n
<1>5. \A i, j \in 1 .. (n + 1) : p[i] = p[j] => i = j
  <2> SUFFICES ASSUME NEW i \in 1 .. (n + 1), NEW j \in 1 .. (n + 1), p[i] = p[j]
               PROVE  i = j
    OBVIOUS
  <2>1. i \in 1 .. n \/ i = n + 1 BY <1>2
  <2>2. j \in 1 .. n \/ j = n + 1 BY <1>2
  <2> QED BY <1>1, <1>3, <1>4, <2>1, <2>2
<1>6. Visited(p) = Visited(o) \cup {a}
  <2>1. 1 .. (n + 1) = (1 .. n) \cup {n + 1} BY <1>2
  <2>2. Visited(p) = {p[i] : i \in 1 .. (n + 1)} BY <1>1 DEF Visited
  <2>3. Visited(o) = {o[i] : i \in 1 .. n} BY DEF Visited, n
  <2> QED BY <1>1, <2>1, <2>2, <2>3
<1> QED BY <1>1, <1>5, <1>6 DEF p, n

-----------------------------------------------------------------------------
(* What a step of the walk does to the headers reached and the links left *)

LEMMA LastCalled ==
  ASSUME NEW h, NEW w, NEW n \in Nat \ {0}, NEW frame, NEW w2, UpTo(h, w, w2, n, frame)
  PROVE  \A x : x \in Called(w2, n) <=> x \in Called(w, n - 1) \/ x = frame.dfh
<1>1. 1 .. n = (1 .. (n - 1)) \cup {n} OBVIOUS
<1>2. w2[n] = frame /\ \A k \in 1 .. (n - 1) : w2[k] = w[k] BY DEF UpTo
<1> QED BY <1>1, <1>2, Zenon DEF Called

LEMMA LastLeft ==
  ASSUME NEW h, NEW w, NEW n \in Nat \ {0}, NEW frame, NEW w2, UpTo(h, w, w2, n, frame)
  PROVE  \A a, i : Left(w2, n, a, i) <=> Left(w, n - 1, a, i) \/ Ahead(frame, a, i)
<1>1. 1 .. n = (1 .. (n - 1)) \cup {n} OBVIOUS
<1>2. w2[n] = frame /\ \A k \in 1 .. (n - 1) : w2[k] = w[k] BY DEF UpTo
<1> QED BY <1>1, <1>2, Zenon DEF Left

\* The first n calls are at headers apart, none of them at a.
AllApart(w, n) == \A k, l \in 1 .. n : w[k].dfh = w[l].dfh => k = l
NoneAt(w, n, a) == \A k \in 1 .. n : w[k].dfh # a

LEMMA DistinctCalls ==
  ASSUME NEW h, NEW w, NEW n \in Nat \ {0}, NEW frame, NEW w2, UpTo(h, w, w2, n, frame),
         AllApart(w, n - 1), NoneAt(w, n - 1, frame.dfh)
  PROVE  AllApart(w2, n)
<1>0. /\ \A k, l \in 1 .. (n - 1) : w[k].dfh = w[l].dfh => k = l
      /\ \A k \in 1 .. (n - 1) : w[k].dfh # frame.dfh
  BY DEF AllApart, NoneAt
<1>1. 1 .. n = (1 .. (n - 1)) \cup {n} OBVIOUS
<1>2. w2[n] = frame /\ \A k \in 1 .. (n - 1) : w2[k] = w[k] BY DEF UpTo
<1> SUFFICES ASSUME NEW k \in 1 .. n, NEW l \in 1 .. n, w2[k].dfh = w2[l].dfh PROVE k = l
  BY DEF AllApart
<1>3. CASE k = n BY <1>0, <1>1, <1>2, <1>3
<1>4. CASE k \in 1 .. (n - 1) BY <1>0, <1>1, <1>2, <1>4
<1> QED BY <1>1, <1>3, <1>4

LEMMA LastApart ==
  ASSUME NEW w, NEW n \in Nat \ {0}
  PROVE  /\ \A x : x \in Called(w, n) <=> x \in Called(w, n - 1) \/ x = w[n].dfh
         /\ \A a, i : Left(w, n, a, i) <=> Left(w, n - 1, a, i) \/ Ahead(w[n], a, i)
<1>1. 1 .. n = (1 .. (n - 1)) \cup {n} OBVIOUS
<1> QED BY <1>1, Zenon DEF Called, Left

LEMMA LastOfItself ==
  ASSUME NEW h, NEW w \in Seq(Frames(h)), w # <<>>
  PROVE  Len(w) \in Nat \ {0} /\ w[Len(w)] \in Frames(h)
<1>1. Len(w) \in Nat \ {0} OBVIOUS
<1> QED BY <1>1

LEMMA WalkStarts ==
  ASSUME NEW h \in Hardware, NEW w, UpTo(h, <<>>, w, 1, [dfh |-> h.first, block |-> 0])
  PROVE  IsWalk(h, w, <<>>)
<1>1. w \in Seq(Frames(h)) /\ Len(w) = 1 /\ w[1] = [dfh |-> h.first, block |-> 0] BY DEF UpTo
<1>2. Visited(<<>>) = {} BY DEF Visited
<1>3. Called(w, 1) = {h.first} BY <1>1 DEF Called
<1>4. WalkTypes(h, w, <<>>) BY <1>1 DEF WalkTypes
<1>5. NestedCalls(w, <<>>)
  <2>1. \A k \in 1 .. Len(w) : k = 1 /\ k = Len(w) /\ w[k].block = 0 BY <1>1
  <2> QED BY <1>2, <2>1 DEF NestedCalls
<1>6. LinksFollowed(h, w, <<>>)
  <2>1. Reached(w, <<>>) = {h.first} BY <1>1, <1>2, <1>3 DEF Reached
  <2> QED BY <1>2, <2>1, LinksInside DEF LinksFollowed
<1> QED BY <1>4, <1>5, <1>6 DEF IsWalk

LEMMA WalkEnds ==
  ASSUME NEW h \in Hardware, NEW o, IsWalk(h, <<>>, o)
  PROVE  Visited(o) = Addresses(h)
<1>1. /\ h.first \in Reached(<<>>, o)
      /\ \A a \in Visited(o) : \A i \in Platform!Links(h, a) :
           Platform!Target(h, a, i) \in Reached(<<>>, o) <=> ~Left(<<>>, 0, a, i)
  BY DEF IsWalk, LinksFollowed
<1>2. Reached(<<>>, o) = Visited(o) BY DEF Reached, Called
<1>3. \A a, i : ~Left(<<>>, 0, a, i) BY DEF Left
<1>4. Visited(o) \subseteq Addresses(h) BY DEF IsWalk, WalkTypes, Visited
<1> QED BY <1>1, <1>2, <1>3, <1>4, LedTo

LEMMA CallsInside ==
  ASSUME NEW h \in Hardware, NEW w, NEW o, IsWalk(h, w, o)
  PROVE  /\ w \in Seq(Frames(h)) /\ o \in Seq(Addresses(h)) /\ Len(w) \in Nat /\ Len(o) \in Nat
         /\ \A k \in 1 .. Len(w) : w[k] \in Frames(h)
         /\ Visited(o) \subseteq Addresses(h)
         /\ \A k, l \in 1 .. Len(w) : w[k].dfh = w[l].dfh => k = l
<1>1. w \in Seq(Frames(h)) /\ o \in Seq(Addresses(h)) BY DEF IsWalk, WalkTypes
<1>2. Len(w) \in Nat /\ Len(o) \in Nat BY <1>1
<1>3. \A k \in 1 .. Len(w) : w[k] \in Frames(h) BY <1>1
<1>4. \A k, l \in 1 .. Len(w) : w[k].dfh = w[l].dfh => k = l BY DEF IsWalk, NestedCalls
<1>5. Visited(o) \subseteq Addresses(h) BY <1>1 DEF Visited
<1> QED BY <1>1, <1>2, <1>3, <1>4, <1>5

LEMMA LastOfWalk ==
  ASSUME NEW h \in Hardware, NEW w, NEW o, IsWalk(h, w, o), w # <<>>,
         NEW n, n = Len(w), NEW a, a = w[n].dfh
  PROVE  /\ n \in Nat \ {0} /\ w[n] \in Frames(h) /\ a \in Addresses(h)
         /\ w \in Seq(Frames(h)) /\ Visited(o) \subseteq Addresses(h)
         /\ \A k \in 1 .. n : /\ w[k] \in Frames(h)
                              /\ k < n => w[k].block > 0
                              /\ w[k].block > 0 <=> w[k].dfh \in Visited(o)
         /\ \A k \in 1 .. (n - 1) : w[k].dfh # a
         /\ \A i : ~Left(w, n - 1, a, i)
         /\ \A x, i : Left(w, n, x, i) <=> Left(w, n - 1, x, i) \/ Ahead(w[n], x, i)
         /\ \A x : x \in Reached(w, o) <=> x \in Visited(o) \cup Called(w, n - 1) \/ x = a
         /\ h.first \in Reached(w, o)
         /\ \A x \in Visited(o) : \A i \in Platform!Links(h, x) :
              Platform!Target(h, x, i) \in Reached(w, o) <=> ~Left(w, n, x, i)
         /\ \A x \in Addresses(h) : \A i \in Platform!Links(h, x) :
              Platform!Target(h, x, i) \in Reached(w, o) => x \in Visited(o)
<1>1. /\ w \in Seq(Frames(h)) /\ Visited(o) \subseteq Addresses(h)
      /\ \A k \in 1 .. n : w[k] \in Frames(h)
      /\ \A k, l \in 1 .. n : w[k].dfh = w[l].dfh => k = l
  BY CallsInside
<1>2. n \in Nat \ {0} /\ w[n] \in Frames(h) BY <1>1, LastOfItself
<1>3. a \in Addresses(h) BY <1>2 DEF Frames
<1>4. \A k \in 1 .. n : /\ k < n => w[k].block > 0
                        /\ w[k].block > 0 <=> w[k].dfh \in Visited(o)
  BY DEF IsWalk, NestedCalls
<1>5. \A k \in 1 .. (n - 1) : w[k].dfh # a
  <2> SUFFICES ASSUME NEW k \in 1 .. (n - 1), w[k].dfh = a PROVE FALSE OBVIOUS
  <2>1. k \in 1 .. n /\ n \in 1 .. n /\ k # n BY <1>2
  <2> QED BY <1>1, <2>1
<1>6. \A i : ~Left(w, n - 1, a, i) BY <1>5 DEF Left, Ahead
<1>7. \A x : x \in Called(w, n) <=> x \in Called(w, n - 1) \/ x = a BY <1>2, LastApart
<1>8. \A x, i : Left(w, n, x, i) <=> Left(w, n - 1, x, i) \/ Ahead(w[n], x, i) BY <1>2, LastApart
<1>9. \A x : x \in Reached(w, o) <=> x \in Visited(o) \cup Called(w, n - 1) \/ x = a
  BY <1>7 DEF Reached
<1>10. LinksFollowed(h, w, o) BY DEF IsWalk
<1>11. /\ h.first \in Reached(w, o)
       /\ \A x \in Visited(o) : \A i \in Platform!Links(h, x) :
            Platform!Target(h, x, i) \in Reached(w, o) <=> ~Left(w, n, x, i)
       /\ \A x \in Addresses(h) : \A i \in Platform!Links(h, x) :
            Platform!Target(h, x, i) \in Reached(w, o) => x \in Visited(o)
  BY <1>10 DEF LinksFollowed
<1>12. \A k \in 1 .. n : /\ w[k] \in Frames(h)
                         /\ k < n => w[k].block > 0
                         /\ w[k].block > 0 <=> w[k].dfh \in Visited(o)
  BY <1>1, <1>4
<1> QED BY <1>1, <1>2, <1>3, <1>5, <1>6, <1>8, <1>9, <1>11, <1>12

LEMMA WalkVisits ==
  ASSUME NEW h \in Hardware, NEW w, NEW o, IsWalk(h, w, o), w # <<>>,
         NEW n, n = Len(w), NEW a, a = w[n].dfh, w[n].block = 0,
         NEW w2, UpTo(h, w, w2, n, [dfh |-> a, block |-> 1])
  PROVE  a \notin Visited(o) /\ IsWalk(h, w2, Append(o, a))
<1> DEFINE p == Append(o, a)
<1> DEFINE frame == [dfh |-> a, block |-> 1]
<1>1. n \in Nat \ {0} /\ w[n] \in Frames(h) /\ a \in Addresses(h) BY LastOfWalk
<1>2. \A k \in 1 .. n : /\ k < n => w[k].block > 0
                        /\ w[k].block > 0 <=> w[k].dfh \in Visited(o)
  BY LastOfWalk
<1>3. \A k \in 1 .. (n - 1) : w[k].dfh # a BY LastOfWalk
<1>4. a \notin Visited(o) BY <1>1, <1>2
<1>5. /\ p \in Seq(Addresses(h)) /\ \A i, j \in 1 .. Len(p) : p[i] = p[j] => i = j
      /\ Visited(p) = Visited(o) \cup {a}
  <2>1. o \in Seq(Addresses(h)) /\ \A i, j \in 1 .. Len(o) : o[i] = o[j] => i = j
    BY DEF IsWalk, WalkTypes
  <2> QED BY <1>1, <1>4, <2>1, OneMore
<1>6. /\ w2 \in Seq(Frames(h)) /\ Len(w2) = n /\ w2[n] = frame
      /\ \A k \in 1 .. (n - 1) : w2[k] = w[k]
  BY DEF UpTo
<1>7. frame.dfh = a /\ frame.block = 1 OBVIOUS
<1>0. UpTo(h, w, w2, n, frame) OBVIOUS
<1>8. \A x, i : x # a => ~Ahead(frame, x, i) /\ ~Ahead(w[n], x, i) BY DEF Ahead
<1> HIDE DEF frame, p
<1>9. /\ \A x : x \in Called(w2, n) <=> x \in Called(w, n - 1) \/ x = a
      /\ \A x, i : Left(w2, n, x, i) <=> Left(w, n - 1, x, i) \/ Ahead(frame, x, i)
  <2>1. \A x : x \in Called(w2, n) <=> x \in Called(w, n - 1) \/ x = frame.dfh
    <3>1. \A x : x \in Called(w2, n) <=> x \in Called(w2, n - 1) \/ x = w2[n].dfh
      BY <1>1, LastApart
    <3>2. Called(w2, n - 1) = Called(w, n - 1) BY <1>6 DEF Called
    <3> QED BY <1>6, <3>1, <3>2
  <2>2. \A x, i : Left(w2, n, x, i) <=> Left(w, n - 1, x, i) \/ Ahead(frame, x, i)
    BY <1>0, <1>1, LastLeft, Zenon
  <2> QED BY <1>7, <2>1, <2>2
<1>10. /\ \A x, i : Left(w, n, x, i) <=> Left(w, n - 1, x, i) \/ Ahead(w[n], x, i)
       /\ \A x : x \in Reached(w, o) <=> x \in Visited(o) \cup Called(w, n - 1) \/ x = a
  BY LastOfWalk
<1>11. NestedCalls(w2, p)
  <2>0. \A k, l \in 1 .. n : w2[k].dfh = w2[l].dfh => k = l
    <3>1. \A k, l \in 1 .. n : w[k].dfh = w[l].dfh => k = l BY CallsInside
    <3>2. AllApart(w, n - 1) BY <1>1, <3>1 DEF AllApart
    <3>3. NoneAt(w, n - 1, frame.dfh) BY <1>3, <1>7 DEF NoneAt
    <3>4. AllApart(w2, n) BY <1>0, <1>1, <3>2, <3>3, DistinctCalls, Zenon
    <3> QED BY <3>4 DEF AllApart
  <2> SUFFICES ASSUME NEW k \in 1 .. n
               PROVE  /\ k < n => w2[k].block > 0
                      /\ w2[k].block > 0 <=> w2[k].dfh \in Visited(p)
    BY <1>6, <2>0 DEF NestedCalls
  <2>1. CASE k = n BY <1>1, <1>2, <1>5, <1>6, <1>7, <2>1
  <2>2. CASE k \in 1 .. (n - 1)
    <3>1. w2[k] = w[k] /\ k \in 1 .. n /\ w[k].dfh # a BY <1>1, <1>3, <1>6, <2>2
    <3> QED BY <1>2, <1>5, <3>1
  <2> QED BY <1>1, <2>1, <2>2
<1>12. Reached(w2, p) = Reached(w, o) BY <1>5, <1>6, <1>9, <1>10 DEF Reached
<1>13. /\ h.first \in Reached(w, o)
       /\ \A x \in Visited(o) : \A i \in Platform!Links(h, x) :
            Platform!Target(h, x, i) \in Reached(w, o) <=> ~Left(w, n, x, i)
       /\ \A x \in Addresses(h) : \A i \in Platform!Links(h, x) :
            Platform!Target(h, x, i) \in Reached(w, o) => x \in Visited(o)
  BY LastOfWalk
<1>14. LinksFollowed(h, w2, p)
  <2>1. \A i \in Platform!Links(h, a) : Ahead(frame, a, i)
    <3> SUFFICES ASSUME NEW i \in Platform!Links(h, a) PROVE i = 0 \/ i >= 1 BY <1>7 DEF Ahead
    <3>1. i \in Nat BY <1>1, LinksInside
    <3> QED BY <3>1
  <2>2. ASSUME NEW x \in Visited(p), NEW i \in Platform!Links(h, x)
        PROVE  Platform!Target(h, x, i) \in Reached(w, o) <=> ~Left(w2, n, x, i)
    <3>1. CASE x = a BY <1>1, <1>4, <1>9, <1>13, <2>1, <3>1
    <3>2. CASE x \in Visited(o) BY <1>4, <1>8, <1>9, <1>10, <1>13, <3>2
    <3> QED BY <1>5, <3>1, <3>2
  <2> QED BY <1>5, <1>6, <1>12, <1>13, <2>2 DEF LinksFollowed
<1>15. WalkTypes(h, w2, p) BY <1>5, <1>6 DEF WalkTypes
<1> QED BY <1>4, <1>11, <1>14, <1>15 DEF IsWalk, p

\* The calls before the last are as they were, and the last has passed a block or is at
\* another header of its list.
LEMMA NestedAsBefore ==
  ASSUME NEW h \in Hardware, NEW w, NEW o, IsWalk(h, w, o), w # <<>>,
         NEW frame \in Frames(h),
         \A k \in 1 .. (Len(w) - 1) : w[k].dfh # frame.dfh,
         frame.block > 0 <=> frame.dfh \in Visited(o),
         NEW w2, UpTo(h, w, w2, Len(w), frame)
  PROVE  WalkTypes(h, w2, o) /\ NestedCalls(w2, o)
<1> DEFINE n == Len(w)
<1>1. n \in Nat \ {0} BY LastOfWalk
<1>2. \A k \in 1 .. n : /\ k < n => w[k].block > 0
                        /\ w[k].block > 0 <=> w[k].dfh \in Visited(o)
  BY DEF IsWalk, NestedCalls
<1>3. /\ w2 \in Seq(Frames(h)) /\ Len(w2) = n /\ w2[n] = frame
      /\ \A k \in 1 .. (n - 1) : w2[k] = w[k]
  BY DEF UpTo
<1>4. WalkTypes(h, w2, o) BY <1>3 DEF WalkTypes, IsWalk
<1>6. \A k, l \in 1 .. n : w2[k].dfh = w2[l].dfh => k = l
  <2>1. \A k, l \in 1 .. n : w[k].dfh = w[l].dfh => k = l BY CallsInside
  <2>2. AllApart(w, n - 1) BY <1>1, <2>1 DEF AllApart
  <2>3. UpTo(h, w, w2, n, frame) /\ NoneAt(w, n - 1, frame.dfh) BY DEF NoneAt
  <2> HIDE DEF n
  <2>4. AllApart(w2, n) BY <1>1, <2>2, <2>3, DistinctCalls, Zenon
  <2> QED BY <2>4 DEF AllApart
<1> HIDE DEF n
<1>5. NestedCalls(w2, o)
  <2> SUFFICES ASSUME NEW k \in 1 .. n
               PROVE  /\ k < n => w2[k].block > 0
                      /\ w2[k].block > 0 <=> w2[k].dfh \in Visited(o)
    BY <1>3, <1>6 DEF NestedCalls
  <2>1. CASE k = n BY <1>1, <1>3, <2>1 DEF n
  <2>2. CASE k \in 1 .. (n - 1)
    <3>1. w2[k] = w[k] /\ k \in 1 .. n BY <1>1, <1>3, <2>2
    <3> QED BY <1>2, <3>1
  <2> QED BY <1>1, <2>1, <2>2
<1> QED BY <1>4, <1>5

LEMMA WalkPasses ==
  ASSUME NEW h \in Hardware, NEW w, NEW o, IsWalk(h, w, o), w # <<>>,
         NEW n, n = Len(w), NEW a, a = w[n].dfh, NEW b, b = w[n].block, b > 0,
         b \notin Platform!Links(h, a),
         NEW w2, UpTo(h, w, w2, n, [dfh |-> a, block |-> b + 1])
  PROVE  IsWalk(h, w2, o)
<1> DEFINE frame == [dfh |-> a, block |-> b + 1]
<1>1. n \in Nat \ {0} /\ w[n] \in Frames(h) /\ a \in Addresses(h) BY LastOfWalk
<1>2. b \in Nat BY <1>1 DEF Frames
<1>3. frame \in Frames(h) /\ frame.dfh = a /\ frame.block > 0 BY <1>1, <1>2 DEF Frames
<1>4. a \in Visited(o) /\ \A k \in 1 .. (n - 1) : w[k].dfh # a
  <2>1. n \in 1 .. n BY <1>1
  <2>2. a \in Visited(o) BY <2>1, LastOfWalk
  <2>3. \A k \in 1 .. (n - 1) : w[k].dfh # a BY LastOfWalk
  <2> QED BY <2>2, <2>3
<1>5. UpTo(h, w, w2, n, frame) OBVIOUS
<1>6. \A i \in Platform!Links(h, a) : Ahead(frame, a, i) <=> Ahead(w[n], a, i)
  <2> SUFFICES ASSUME NEW i \in Platform!Links(h, a)
               PROVE  i = 0 \/ i >= b + 1 <=> i = 0 \/ i >= b
    BY DEF Ahead
  <2>1. i \in Nat /\ i # b BY <1>1, LinksInside
  <2> QED BY <1>2, <2>1
<1>7. \A x, i : x # a => ~Ahead(frame, x, i) /\ ~Ahead(w[n], x, i) BY DEF Ahead
<1> HIDE DEF frame
<1>8. WalkTypes(h, w2, o) /\ NestedCalls(w2, o)
  BY <1>3, <1>4, <1>5, NestedAsBefore
<1>9. /\ \A x : x \in Called(w2, n) <=> x \in Called(w, n - 1) \/ x = a
      /\ \A x, i : Left(w2, n, x, i) <=> Left(w, n - 1, x, i) \/ Ahead(frame, x, i)
  <2>1. \A x : x \in Called(w2, n) <=> x \in Called(w, n - 1) \/ x = frame.dfh
    BY <1>1, <1>5, LastCalled, Zenon
  <2>2. \A x, i : Left(w2, n, x, i) <=> Left(w, n - 1, x, i) \/ Ahead(frame, x, i)
    BY <1>1, <1>5, LastLeft, Zenon
  <2> QED BY <1>3, <2>1, <2>2
<1>10. /\ \A x, i : Left(w, n, x, i) <=> Left(w, n - 1, x, i) \/ Ahead(w[n], x, i)
       /\ \A x : x \in Reached(w, o) <=> x \in Visited(o) \cup Called(w, n - 1) \/ x = a
  BY LastOfWalk
<1>11. Len(w2) = n BY DEF UpTo
<1>12. Reached(w2, o) = Reached(w, o) BY <1>9, <1>10, <1>11 DEF Reached
<1>13. \A x : \A i \in Platform!Links(h, x) : Left(w2, n, x, i) <=> Left(w, n, x, i)
  BY <1>6, <1>7, <1>9, <1>10
<1>14. LinksFollowed(h, w2, o)
  <2>1. LinksFollowed(h, w, o) BY DEF IsWalk
  <2> QED BY <1>11, <1>12, <1>13, <2>1 DEF LinksFollowed
<1> QED BY <1>8, <1>14 DEF IsWalk

LEMMA WalkGoesOn ==
  ASSUME NEW h \in Hardware, NEW w, NEW o, IsWalk(h, w, o), w # <<>>,
         NEW n, n = Len(w), NEW a, a = w[n].dfh, NEW b, b = w[n].block, b > 0,
         \A i \in Platform!Links(h, a) : i < b, 0 \in Platform!Links(h, a),
         NEW c, c = Platform!Target(h, a, 0), NEW w2, UpTo(h, w, w2, n, [dfh |-> c, block |-> 0])
  PROVE  c \notin Reached(w, o) /\ IsWalk(h, w2, o)
<1> DEFINE frame == [dfh |-> c, block |-> 0]
<1>1. n \in Nat \ {0} /\ w[n] \in Frames(h) /\ a \in Addresses(h) BY LastOfWalk
<1>2. b \in Nat /\ c \in Addresses(h) /\ c # h.first
  BY <1>1, LinksInside DEF Frames
<1>3. a \in Visited(o)
  <2>1. n \in 1 .. n BY <1>1
  <2> QED BY <2>1, LastOfWalk
<1>4. /\ \A x, i : Left(w, n, x, i) <=> Left(w, n - 1, x, i) \/ Ahead(w[n], x, i)
      /\ \A x : x \in Reached(w, o) <=> x \in Visited(o) \cup Called(w, n - 1) \/ x = a
      /\ \A i : ~Left(w, n - 1, a, i)
      /\ h.first \in Reached(w, o)
      /\ \A x \in Visited(o) : \A i \in Platform!Links(h, x) :
           Platform!Target(h, x, i) \in Reached(w, o) <=> ~Left(w, n, x, i)
      /\ \A x \in Addresses(h) : \A i \in Platform!Links(h, x) :
           Platform!Target(h, x, i) \in Reached(w, o) => x \in Visited(o)
      /\ Visited(o) \subseteq Addresses(h)
  <2>1. \A i : ~Left(w, n - 1, a, i)
    <3>1. \A k \in 1 .. (n - 1) : w[k].dfh # a BY LastOfWalk
    <3> QED BY <3>1 DEF Left, Ahead
  <2>2. /\ \A x, i : Left(w, n, x, i) <=> Left(w, n - 1, x, i) \/ Ahead(w[n], x, i)
        /\ \A x : x \in Reached(w, o) <=> x \in Visited(o) \cup Called(w, n - 1) \/ x = a
    BY LastOfWalk
  <2> QED BY <2>1, <2>2, LastOfWalk
<1>5. c \notin Reached(w, o)
  <2>1. Ahead(w[n], a, 0) BY DEF Ahead
  <2> QED BY <1>3, <1>4, <2>1
<1>6. c # a /\ c \notin Visited(o) BY <1>4, <1>5
<1>7. \A k \in 1 .. (n - 1) : w[k].dfh # c
  <2>1. \A k \in 1 .. (n - 1) : w[k].dfh \in Reached(w, o) BY <1>1 DEF Reached, Called
  <2> QED BY <1>5, <2>1
<1>8. frame \in Frames(h) /\ frame.dfh = c /\ frame.block = 0 BY <1>2 DEF Frames
<1>9. UpTo(h, w, w2, n, frame) OBVIOUS
<1>10. \A x, i : /\ x # a => ~Ahead(w[n], x, i)
                 /\ x # c => ~Ahead(frame, x, i)
  BY DEF Ahead
<1>11. \A i \in Platform!Links(h, a) : Ahead(w[n], a, i) => i = 0
  <2> SUFFICES ASSUME NEW i \in Platform!Links(h, a), i >= b PROVE FALSE BY DEF Ahead
  <2>1. i \in Nat /\ i < b BY <1>1, LinksInside
  <2> QED BY <1>2, <2>1
<1> HIDE DEF frame
<1>12. WalkTypes(h, w2, o) /\ NestedCalls(w2, o)
  BY <1>6, <1>7, <1>8, <1>9, NestedAsBefore
<1>13. \A x : x \in Called(w2, n) <=> x \in Called(w, n - 1) \/ x = c
  <2>1. \A x : x \in Called(w2, n) <=> x \in Called(w, n - 1) \/ x = frame.dfh
    BY <1>1, <1>9, LastCalled, Zenon
  <2> QED BY <1>8, <2>1
<1>14. \A x, i : Left(w2, n, x, i) <=> Left(w, n - 1, x, i) \/ Ahead(frame, x, i)
  BY <1>1, <1>9, LastLeft, Zenon
<1>15. Len(w2) = n BY DEF UpTo
<1>16. \A x : x \in Reached(w2, o) <=> x \in Reached(w, o) \/ x = c
  BY <1>3, <1>4, <1>13, <1>15 DEF Reached
<1>17. LinksFollowed(h, w2, o)
  <2>1. ASSUME NEW x \in Visited(o), NEW i \in Platform!Links(h, x)
        PROVE  Platform!Target(h, x, i) \in Reached(w2, o) <=> ~Left(w2, n, x, i)
    <3>1. CASE x = a /\ i = 0 BY <1>4, <1>6, <1>10, <1>14, <1>16, <3>1
    <3>2. CASE x = a /\ i # 0 BY <1>4, <1>6, <1>10, <1>11, <1>14, <1>16, <3>2
    <3>3. CASE x # a
      <4>1. Platform!Target(h, x, i) # c BY <1>1, <1>4, <3>3, LinkedOnce
      <4>2. x # c BY <1>6
      <4> QED BY <1>4, <1>10, <1>14, <1>16, <3>3, <4>1, <4>2
    <3> QED BY <3>1, <3>2, <3>3
  <2>2. ASSUME NEW x \in Addresses(h), NEW i \in Platform!Links(h, x),
               Platform!Target(h, x, i) \in Reached(w2, o)
        PROVE  x \in Visited(o)
    <3>1. CASE Platform!Target(h, x, i) = c
      <4>1. x = a BY <1>1, <3>1, LinkedOnce
      <4> QED BY <1>3, <4>1
    <3> QED BY <1>4, <1>16, <2>2, <3>1
  <2> QED BY <1>4, <1>15, <1>16, <2>1, <2>2 DEF LinksFollowed
<1> QED BY <1>5, <1>12, <1>17 DEF IsWalk

LEMMA WalkReturns ==
  ASSUME NEW h \in Hardware, NEW w, NEW o, IsWalk(h, w, o), w # <<>>,
         NEW n, n = Len(w), NEW a, a = w[n].dfh, NEW b, b = w[n].block, b > 0,
         \A i \in Platform!Links(h, a) : i < b, 0 \notin Platform!Links(h, a)
  PROVE  IsWalk(h, Platform!Front(w), o)
<1> DEFINE v == Platform!Front(w)
<1>1. /\ n \in Nat \ {0} /\ w[n] \in Frames(h) /\ a \in Addresses(h)
      /\ w \in Seq(Frames(h))
      /\ \A k \in 1 .. n : /\ k < n => w[k].block > 0
                           /\ w[k].block > 0 <=> w[k].dfh \in Visited(o)
  BY LastOfWalk
<1>2. v \in Seq(Frames(h)) /\ Len(v) = n - 1 /\ \A k \in 1 .. (n - 1) : v[k] = w[k]
  BY <1>1, LastDropped
<1>3. b \in Nat BY <1>1 DEF Frames
<1>4. /\ \A x, i : Left(w, n, x, i) <=> Left(w, n - 1, x, i) \/ Ahead(w[n], x, i)
      /\ \A x : x \in Reached(w, o) <=> x \in Visited(o) \cup Called(w, n - 1) \/ x = a
      /\ h.first \in Reached(w, o)
      /\ \A x \in Visited(o) : \A i \in Platform!Links(h, x) :
           Platform!Target(h, x, i) \in Reached(w, o) <=> ~Left(w, n, x, i)
      /\ \A x \in Addresses(h) : \A i \in Platform!Links(h, x) :
           Platform!Target(h, x, i) \in Reached(w, o) => x \in Visited(o)
      /\ Visited(o) \subseteq Addresses(h)
  BY LastOfWalk
<1>5. a \in Visited(o)
  <2>1. n \in 1 .. n BY <1>1
  <2> QED BY <1>1, <2>1
<1>6. \A x : \A i \in Platform!Links(h, x) : ~Ahead(w[n], x, i)
  <2> SUFFICES ASSUME NEW i \in Platform!Links(h, a), i = 0 \/ i >= b PROVE FALSE BY DEF Ahead
  <2>1. i \in Nat /\ i < b BY <1>1, LinksInside
  <2> QED BY <1>3, <2>1
<1> HIDE DEF v
<1>7. Called(v, n - 1) = Called(w, n - 1) BY <1>2 DEF Called
<1>8. \A x, i : Left(v, n - 1, x, i) <=> Left(w, n - 1, x, i) BY <1>2 DEF Left
<1>9. \A x : x \in Reached(v, o) <=> x \in Reached(w, o)
  BY <1>2, <1>4, <1>5, <1>7 DEF Reached
<1>10. LinksFollowed(h, v, o) BY <1>2, <1>4, <1>6, <1>8, <1>9 DEF LinksFollowed
<1>11. WalkTypes(h, v, o) BY <1>2 DEF IsWalk, WalkTypes
<1>12. NestedCalls(v, o)
  <2>0. \A k, l \in 1 .. (n - 1) : v[k].dfh = v[l].dfh => k = l
    <3>1. \A k, l \in 1 .. n : w[k].dfh = w[l].dfh => k = l BY CallsInside
    <3> QED BY <1>1, <1>2, <3>1
  <2> SUFFICES ASSUME NEW k \in 1 .. (n - 1)
               PROVE  /\ k < n - 1 => v[k].block > 0
                      /\ v[k].block > 0 <=> v[k].dfh \in Visited(o)
    BY <1>2, <2>0 DEF NestedCalls
  <2>1. v[k] = w[k] /\ k \in 1 .. n /\ k < n BY <1>1, <1>2
  <2> QED BY <1>1, <2>1
<1> QED BY <1>10, <1>11, <1>12 DEF IsWalk, v

LEMMA WalkBranches ==
  ASSUME NEW h \in Hardware, NEW w, NEW o, IsWalk(h, w, o), w # <<>>,
         NEW n, n = Len(w), NEW a, a = w[n].dfh, NEW b, b = w[n].block, b > 0,
         b \in Platform!Links(h, a), NEW c, c = Platform!Target(h, a, b),
         NEW w1, UpTo(h, w, w1, n, [dfh |-> a, block |-> b + 1]),
         NEW w2, UpTo(h, w1, w2, n + 1, [dfh |-> c, block |-> 0])
  PROVE  c \notin Reached(w, o) /\ IsWalk(h, w2, o)
<1> DEFINE passed == [dfh |-> a, block |-> b + 1]
<1> DEFINE frame == [dfh |-> c, block |-> 0]
<1>1. n \in Nat \ {0} /\ w[n] \in Frames(h) /\ a \in Addresses(h) BY LastOfWalk
<1>2. b \in Nat /\ c \in Addresses(h) /\ c # h.first
  BY <1>1, LinksInside DEF Frames
<1>3. a \in Visited(o)
  <2>1. n \in 1 .. n BY <1>1
  <2> QED BY <2>1, LastOfWalk
<1>4. /\ \A x, i : Left(w, n, x, i) <=> Left(w, n - 1, x, i) \/ Ahead(w[n], x, i)
      /\ \A x : x \in Reached(w, o) <=> x \in Visited(o) \cup Called(w, n - 1) \/ x = a
      /\ \A i : ~Left(w, n - 1, a, i)
      /\ h.first \in Reached(w, o)
      /\ \A x \in Visited(o) : \A i \in Platform!Links(h, x) :
           Platform!Target(h, x, i) \in Reached(w, o) <=> ~Left(w, n, x, i)
      /\ \A x \in Addresses(h) : \A i \in Platform!Links(h, x) :
           Platform!Target(h, x, i) \in Reached(w, o) => x \in Visited(o)
      /\ Visited(o) \subseteq Addresses(h)
  <2>1. \A i : ~Left(w, n - 1, a, i)
    <3>1. \A k \in 1 .. (n - 1) : w[k].dfh # a BY LastOfWalk
    <3> QED BY <3>1 DEF Left, Ahead
  <2>2. /\ \A x, i : Left(w, n, x, i) <=> Left(w, n - 1, x, i) \/ Ahead(w[n], x, i)
        /\ \A x : x \in Reached(w, o) <=> x \in Visited(o) \cup Called(w, n - 1) \/ x = a
    BY LastOfWalk
  <2> QED BY <2>1, <2>2, LastOfWalk
<1>5. c \notin Reached(w, o)
  <2>1. Ahead(w[n], a, b) BY <1>2 DEF Ahead
  <2> QED BY <1>3, <1>4, <2>1
<1>6. c # a /\ c \notin Visited(o) BY <1>4, <1>5
<1>7. \A k \in 1 .. n : w[k].dfh # c
  <2>1. \A k \in 1 .. n : w[k].dfh \in Reached(w, o) BY DEF Reached, Called
  <2> QED BY <1>5, <2>1
<1>8. /\ frame \in Frames(h) /\ frame.dfh = c /\ frame.block = 0
      /\ passed \in Frames(h) /\ passed.dfh = a /\ passed.block > 0
  BY <1>1, <1>2 DEF Frames
<1>9. UpTo(h, w, w1, n, passed) OBVIOUS
<1>10. UpTo(h, w1, w2, n + 1, frame) OBVIOUS
<1>11. \A x, i : /\ x # a => ~Ahead(w[n], x, i) /\ ~Ahead(passed, x, i)
                 /\ x # c => ~Ahead(frame, x, i)
  BY DEF Ahead
<1>12. \A i \in Platform!Links(h, a) : Ahead(passed, a, i) <=> Ahead(w[n], a, i) /\ i # b
  <2> SUFFICES ASSUME NEW i \in Platform!Links(h, a)
               PROVE  i = 0 \/ i >= b + 1 <=> (i = 0 \/ i >= b) /\ i # b
    BY DEF Ahead
  <2>1. i \in Nat BY <1>1, LinksInside
  <2> QED BY <1>2, <2>1
<1> HIDE DEF frame, passed
<1>13. n + 1 \in Nat \ {0} /\ (n + 1) - 1 = n BY <1>1
<1>14. /\ w2 \in Seq(Frames(h)) /\ Len(w2) = n + 1 /\ w2[n + 1] = frame /\ w1[n] = passed
       /\ \A k \in 1 .. n : w2[k] = w1[k]
       /\ \A k \in 1 .. (n - 1) : w1[k] = w[k]
  BY <1>9, <1>10, <1>13 DEF UpTo
<1>15. \A x : x \in Called(w2, n + 1) <=> x \in Called(w, n - 1) \/ x = a \/ x = c
  <2>1. \A x : x \in Called(w2, n + 1) <=> x \in Called(w2, n) \/ x = c
    <3>1. \A x : x \in Called(w2, n + 1) <=> x \in Called(w2, (n + 1) - 1) \/ x = w2[n + 1].dfh
      BY <1>13, LastApart
    <3> QED BY <1>8, <1>13, <1>14, <3>1
  <2>2. Called(w2, n) = Called(w1, n) BY <1>14 DEF Called
  <2>3. \A x : x \in Called(w1, n) <=> x \in Called(w1, n - 1) \/ x = a
    BY <1>1, <1>8, <1>14, LastApart
  <2>4. Called(w1, n - 1) = Called(w, n - 1) BY <1>14 DEF Called
  <2> QED BY <2>1, <2>2, <2>3, <2>4
<1>16. \A x, i : Left(w2, n + 1, x, i) <=> \/ Left(w, n - 1, x, i)
                                           \/ Ahead(passed, x, i) \/ Ahead(frame, x, i)
  <2>1. \A x, i : Left(w2, n + 1, x, i) <=> Left(w2, n, x, i) \/ Ahead(frame, x, i)
    <3>1. \A x, i : Left(w2, n + 1, x, i) <=>
                      Left(w2, (n + 1) - 1, x, i) \/ Ahead(w2[n + 1], x, i)
      BY <1>13, LastApart
    <3> QED BY <1>13, <1>14, <3>1
  <2>2. \A x, i : Left(w2, n, x, i) <=> Left(w1, n, x, i) BY <1>14 DEF Left
  <2>3. \A x, i : Left(w1, n, x, i) <=> Left(w1, n - 1, x, i) \/ Ahead(passed, x, i)
    BY <1>1, <1>14, LastApart
  <2>4. \A x, i : Left(w1, n - 1, x, i) <=> Left(w, n - 1, x, i) BY <1>14 DEF Left
  <2> QED BY <2>1, <2>2, <2>3, <2>4
<1>17. \A x : x \in Reached(w2, o) <=> x \in Reached(w, o) \/ x = c
  BY <1>3, <1>4, <1>14, <1>15 DEF Reached
<1>18. LinksFollowed(h, w2, o)
  <2>1. ASSUME NEW x \in Visited(o), NEW i \in Platform!Links(h, x)
        PROVE  Platform!Target(h, x, i) \in Reached(w2, o) <=> ~Left(w2, n + 1, x, i)
    <3>1. CASE x = a /\ i = b BY <1>4, <1>6, <1>11, <1>12, <1>16, <1>17, <3>1
    <3>2. CASE x # a \/ i # b
      <4>1. Platform!Target(h, x, i) # c BY <1>1, <1>4, <3>2, LinkedOnce
      <4>2. x # c BY <1>6
      <4>3. Left(w2, n + 1, x, i) <=> Left(w, n, x, i)
        <5>1. CASE x = a BY <1>4, <1>6, <1>11, <1>12, <1>16, <3>2, <5>1
        <5>2. CASE x # a BY <1>4, <1>11, <1>16, <4>2, <5>2
        <5> QED BY <5>1, <5>2
      <4> QED BY <1>4, <1>17, <4>1, <4>3
    <3> QED BY <3>1, <3>2
  <2>2. ASSUME NEW x \in Addresses(h), NEW i \in Platform!Links(h, x),
               Platform!Target(h, x, i) \in Reached(w2, o)
        PROVE  x \in Visited(o)
    <3>1. CASE Platform!Target(h, x, i) = c
      <4>1. x = a BY <1>1, <3>1, LinkedOnce
      <4> QED BY <1>3, <4>1
    <3> QED BY <1>4, <1>17, <2>2, <3>1
  <2> QED BY <1>4, <1>14, <1>17, <2>1, <2>2 DEF LinksFollowed
<1>19. WalkTypes(h, w2, o) BY <1>14 DEF IsWalk, WalkTypes
<1>20. NestedCalls(w2, o)
  <2>1. \A k \in 1 .. n : /\ k < n => w[k].block > 0
                          /\ w[k].block > 0 <=> w[k].dfh \in Visited(o)
    BY LastOfWalk
  <2>5. \A k, l \in 1 .. n : w1[k].dfh = w1[l].dfh => k = l
    <3>1. \A k, l \in 1 .. n : w[k].dfh = w[l].dfh => k = l BY CallsInside
    <3>2. AllApart(w, n - 1) BY <1>1, <3>1 DEF AllApart
    <3>3. \A k \in 1 .. (n - 1) : w[k].dfh # a BY LastOfWalk
    <3>4. NoneAt(w, n - 1, passed.dfh) BY <1>8, <3>3 DEF NoneAt
    <3>5. AllApart(w1, n) BY <1>1, <1>9, <3>2, <3>4, DistinctCalls, Zenon
    <3> QED BY <3>5 DEF AllApart
  <2>6. \A k \in 1 .. n : w1[k].dfh # frame.dfh
    <3>1. ASSUME NEW k \in 1 .. (n - 1) PROVE w1[k].dfh # frame.dfh
      <4>1. w1[k] = w[k] /\ k \in 1 .. n BY <1>1, <1>14
      <4> QED BY <1>7, <1>8, <4>1
    <3>2. w1[n].dfh # frame.dfh BY <1>6, <1>8, <1>14
    <3> QED BY <1>1, <3>1, <3>2
  <2>7. \A k, l \in 1 .. (n + 1) : w2[k].dfh = w2[l].dfh => k = l
    <3>1. AllApart(w1, (n + 1) - 1) BY <1>13, <2>5 DEF AllApart
    <3>2. NoneAt(w1, (n + 1) - 1, frame.dfh) BY <1>13, <2>6 DEF NoneAt
    <3>3. AllApart(w2, n + 1) BY <1>10, <1>13, <3>1, <3>2, DistinctCalls, Zenon
    <3> QED BY <3>3 DEF AllApart
  <2> SUFFICES ASSUME NEW k \in 1 .. (n + 1)
               PROVE  /\ k < n + 1 => w2[k].block > 0
                      /\ w2[k].block > 0 <=> w2[k].dfh \in Visited(o)
    BY <1>14, <2>7 DEF NestedCalls
  <2>2. CASE k = n + 1 BY <1>1, <1>6, <1>8, <1>14, <2>2
  <2>3. CASE k = n
    <3>1. w2[k] = passed BY <1>1, <1>14, <2>3
    <3> QED BY <1>3, <1>8, <2>3, <3>1
  <2>4. CASE k \in 1 .. (n - 1)
    <3>1. w2[k] = w[k] /\ k \in 1 .. n /\ k < n BY <1>1, <1>14, <2>4
    <3> QED BY <2>1, <3>1
  <2> QED BY <1>1, <2>2, <2>3, <2>4
<1> QED BY <1>5, <1>18, <1>19, <1>20 DEF IsWalk

-----------------------------------------------------------------------------
(* What a step of the walk does to the descriptions and the parents *)

\* An entry describes header a, with a parent.
Describing(h, a, info, parent) ==
  LET header == h.headers[a]
  IN  /\ info.guid = header.guid
      /\ info.base_address = header.csr + (IF header.csr_absolute THEN 0 ELSE a)
      /\ \A l \in DOMAIN Platform!BlocksOf(header) :
           info.parameters[l].data = Platform!BlocksOf(header)[l].data
      /\ info.dfh_parent = parent

LEMMA CollectStarts ==
  ASSUME NEW h \in Hardware, NEW w, UpTo(h, <<>>, w, 1, [dfh |-> h.first, block |-> 0]),
         NEW v, \A i \in 1 .. Len(v) : v[i].parameters = <<>>,
         NEW head, 1 \in DOMAIN head, head[1] = -1
  PROVE  Collected(h, w, <<>>, v, head)
<1>1. IsWalk(h, w, <<>>) BY WalkStarts
<1>2. Recorded(h, <<>>, v) BY DEF Recorded, Describes, IsAfter, Parents
<1>3. Len(w) = 1 /\ w[1] = [dfh |-> h.first, block |-> 0] BY DEF UpTo
<1>4. ParentsOfCalls(h, w, <<>>, v, head)
  <2>1. HasParent(h, <<>>, v, h.first, -1) BY DEF HasParent
  <2>2. JustBefore(h, h.first, -1, 0 + 1) BY DEF JustBefore
  <2>3. Len(<<>>) = 0 OBVIOUS
  <2>4. ParentOfCall(h, w, <<>>, v, head, 1) BY <1>3, <2>1, <2>2, <2>3 DEF ParentOfCall
  <2> QED BY <1>3, <2>4 DEF ParentsOfCalls
<1> QED BY <1>1, <1>2, <1>4 DEF Collected

LEMMA ParentKept ==
  ASSUME NEW h \in Hardware, NEW w, NEW o, IsWalk(h, w, o), NEW a \in Addresses(h),
         a \notin Visited(o), NEW v, NEW v2, \A i \in 1 .. Len(o) : v2[i] = v[i],
         NEW b \in Reached(w, o), NEW parent, HasParent(h, o, v, b, parent)
  PROVE  HasParent(h, Append(o, a), v2, b, parent)
<1> DEFINE p == Append(o, a)
<1> DEFINE m == Len(o)
<1>1. o \in Seq(Addresses(h)) BY CallsInside
<1>2. m \in Nat /\ Len(p) = m + 1 /\ p[m + 1] = a /\ \A i \in 1 .. m : p[i] = o[i] BY <1>1
<1>3. \A i \in Platform!Links(h, a) : Platform!Target(h, a, i) # b
  BY DEF IsWalk, LinksFollowed
<1>4. /\ b = h.first => parent = -1
      /\ \A i \in 1 .. m : \A l \in Platform!Links(h, o[i]) :
           Platform!Target(h, o[i], l) = b =>
             IF l = 0 THEN parent = v[i].dfh_parent
             ELSE IsFirstBranch(h, o[i], l) => parent = i - 1
  BY DEF HasParent
<1> HIDE DEF p, m
<1>5. ASSUME NEW i \in 1 .. (m + 1), NEW l \in Platform!Links(h, p[i]),
             Platform!Target(h, p[i], l) = b
      PROVE  IF l = 0 THEN parent = v2[i].dfh_parent
             ELSE IsFirstBranch(h, p[i], l) => parent = i - 1
  <2>1. i # m + 1 BY <1>2, <1>3, <1>5
  <2>2. i \in 1 .. m /\ p[i] = o[i] BY <1>2, <2>1
  <2>3. v2[i] = v[i] BY <2>2 DEF m
  <2> QED BY <1>4, <1>5, <2>2, <2>3
<1>6. HasParent(h, p, v2, b, parent) BY <1>2, <1>4, <1>5 DEF HasParent
<1> QED BY <1>6 DEF p

LEMMA CollectVisits ==
  ASSUME NEW h \in Hardware, NEW w, NEW o, NEW v, NEW head, Collected(h, w, o, v, head),
         w # <<>>, NEW n, n = Len(w), NEW a, a = w[n].dfh, w[n].block = 0,
         NEW w2, UpTo(h, w, w2, n, [dfh |-> a, block |-> 1]),
         NEW m, m = Len(o), m < Len(v), NEW v2, Len(v2) = Len(v), Len(v) \in Nat,
         \A i \in 1 .. Len(v) : i # m + 1 => v2[i] = v[i],
         Describing(h, a, v2[m + 1], head[n])
  PROVE  Collected(h, w2, Append(o, a), v2, head)
<1> DEFINE p == Append(o, a)
<1>1. IsWalk(h, w, o) /\ Describes(h, o, v) /\ IsAfter(h, o) /\ Parents(h, o, v)
      /\ ParentsOfCalls(h, w, o, v, head)
  BY DEF Collected, Recorded
<1>2. a \notin Visited(o) /\ IsWalk(h, w2, p) BY <1>1, WalkVisits
<1>3. n \in Nat \ {0} /\ a \in Addresses(h) /\ \A k \in 1 .. (n - 1) : w[k].dfh # a
  <2>1. n \in Nat \ {0} /\ a \in Addresses(h) BY <1>1, LastOfWalk
  <2>2. \A k \in 1 .. (n - 1) : w[k].dfh # a BY <1>1, LastOfWalk
  <2> QED BY <2>1, <2>2
<1>4. o \in Seq(Addresses(h)) BY <1>1, CallsInside
<1>5. m \in Nat /\ Len(p) = m + 1 /\ p[m + 1] = a /\ \A i \in 1 .. m : p[i] = o[i]
  BY <1>3, <1>4
<1>6. /\ Len(w2) = n /\ w2[n] = [dfh |-> a, block |-> 1]
      /\ \A k \in 1 .. (n - 1) : w2[k] = w[k]
  BY DEF UpTo
<1>7. \A i \in 1 .. m : v2[i] = v[i] /\ o[i] \in Visited(o)
  <2> SUFFICES ASSUME NEW i \in 1 .. m PROVE v2[i] = v[i] /\ o[i] \in Visited(o) OBVIOUS
  <2>1. i \in 1 .. Len(v) /\ i # m + 1 BY <1>5
  <2> QED BY <2>1 DEF Visited
<1>8. \A b \in Reached(w, o) : \A i \in Platform!Links(h, a) : Platform!Target(h, a, i) # b
  BY <1>1, <1>2, <1>3 DEF IsWalk, LinksFollowed
<1>9. \A b \in Reached(w, o) : \A parent :
        HasParent(h, o, v, b, parent) => HasParent(h, p, v2, b, parent)
  BY <1>1, <1>2, <1>3, <1>7, ParentKept
<1>10. \A k \in 1 .. n : w[k].dfh \in Reached(w, o) BY DEF Reached, Called
<1>11. \A i \in 1 .. m : o[i] \in Reached(w, o) BY <1>7 DEF Reached
<1>12. \A k \in 1 .. n : ParentOfCall(h, w, o, v, head, k)
  BY <1>1 DEF ParentsOfCalls
<1>13. 1 .. n \subseteq DOMAIN head BY <1>1 DEF ParentsOfCalls
<1> HIDE DEF p
<1>14. Describes(h, p, v2)
  <2>1. ASSUME NEW i \in 1 .. (m + 1) PROVE \E parent : Describing(h, p[i], v2[i], parent)
    <3>1. CASE i = m + 1 BY <1>5, <3>1
    <3>2. CASE i \in 1 .. m
      <4>1. v2[i] = v[i] /\ p[i] = o[i] BY <1>5, <1>7, <3>2
      <4>2. Describing(h, o[i], v[i], v[i].dfh_parent)
        BY <1>1, <3>2, Zenon DEF Describes, Describing
      <4> QED BY <4>1, <4>2
    <3> QED BY <1>5, <3>1, <3>2
  <2>2. ASSUME NEW i \in (m + 2) .. Len(v) PROVE v2[i].parameters = <<>>
    <3>1. i \in (m + 1) .. Len(v) /\ i \in 1 .. Len(v) /\ i # m + 1 BY <1>5
    <3>2. v[i].parameters = <<>> BY <1>1, <3>1 DEF Describes
    <3> QED BY <3>1, <3>2
  <2>3. ASSUME NEW i \in 1 .. Len(p)
        PROVE  LET header == h.headers[p[i]]
               IN  /\ v2[i].guid = header.guid
                   /\ v2[i].base_address = header.csr + (IF header.csr_absolute THEN 0 ELSE p[i])
                   /\ \A l \in DOMAIN Platform!BlocksOf(header) :
                        v2[i].parameters[l].data = Platform!BlocksOf(header)[l].data
    <3>1. PICK parent : Describing(h, p[i], v2[i], parent) BY <1>5, <2>1, Zenon
    <3> QED BY <3>1, Zenon DEF Describing
  <2>4. \A i \in (Len(p) + 1) .. Len(v2) : v2[i].parameters = <<>>
    <3>1. Len(p) + 1 = m + 2 BY <1>5
    <3> QED BY <2>2, <3>1
  <2> QED BY <2>3, <2>4 DEF Describes
<1>15. IsAfter(h, p)
  <2> SUFFICES ASSUME NEW i \in 1 .. (m + 1), NEW j \in 1 .. (m + 1),
                      NEW l \in Platform!Links(h, p[i]), Platform!Target(h, p[i], l) = p[j]
               PROVE  i < j
    BY <1>5 DEF IsAfter
  <2>1. p[j] \in Reached(w, o)
    <3>1. CASE j = m + 1
      <4>1. n \in 1 .. n BY <1>3
      <4> QED BY <1>5, <1>10, <3>1, <4>1
    <3>2. CASE j \in 1 .. m BY <1>5, <1>11, <3>2
    <3> QED BY <1>5, <3>1, <3>2
  <2>2. i # m + 1 BY <1>5, <1>8, <2>1
  <2>3. i \in 1 .. m /\ p[i] = o[i] BY <1>5, <2>2
  <2>4. CASE j = m + 1 BY <1>5, <2>3, <2>4
  <2>5. CASE j \in 1 .. m BY <1>1, <1>5, <2>3, <2>5 DEF IsAfter
  <2> QED BY <1>5, <2>4, <2>5
<1>16. Parents(h, p, v2)
  <2> SUFFICES ASSUME NEW j \in 1 .. (m + 1)
               PROVE  /\ HasParent(h, p, v2, p[j], v2[j].dfh_parent)
                      /\ JustBefore(h, p[j], v2[j].dfh_parent, j)
    BY <1>5 DEF Parents
  <2>1. CASE j = m + 1
    <3>1. n \in 1 .. n BY <1>3
    <3>2. HasParent(h, o, v, a, head[n]) /\ a \in Reached(w, o)
      BY <1>10, <1>12, <3>1 DEF ParentOfCall
    <3>3. v2[m + 1].dfh_parent = head[n] BY DEF Describing
    <3>4. JustBefore(h, a, head[n], m + 1) BY <1>12, <3>1 DEF ParentOfCall
    <3> QED BY <1>5, <1>9, <2>1, <3>2, <3>3, <3>4
  <2>2. CASE j \in 1 .. m
    <3>1. HasParent(h, o, v, o[j], v[j].dfh_parent) /\ JustBefore(h, o[j], v[j].dfh_parent, j)
      BY <1>1, <2>2 DEF Parents
    <3>2. p[j] = o[j] /\ v2[j] = v[j] BY <1>5, <1>7, <2>2
    <3> QED BY <1>9, <1>11, <2>2, <3>1, <3>2
  <2> QED BY <1>5, <2>1, <2>2
<1>17. ParentsOfCalls(h, w2, p, v2, head)
  <2> SUFFICES ASSUME NEW k \in 1 .. n PROVE ParentOfCall(h, w2, p, v2, head, k)
    BY <1>6, <1>13 DEF ParentsOfCalls
  <2>1. w2[k].dfh = w[k].dfh
    <3>1. CASE k = n BY <1>6, <3>1
    <3>2. CASE k \in 1 .. (n - 1) BY <1>6, <3>2
    <3> QED BY <1>3, <3>1, <3>2
  <2>2. /\ HasParent(h, o, v, w[k].dfh, head[k])
        /\ \A i \in 1 .. m : o[i] = w[k].dfh => v[i].dfh_parent = head[k]
        /\ w[k].block > 0 =>
             \/ k = n /\ w[k].dfh = o[m]
             \/ \E l \in Platform!Links(h, w[k].dfh) \ {0} : l < w[k].block
    BY <1>12 DEF ParentOfCall
  <2>3. HasParent(h, p, v2, w[k].dfh, head[k]) BY <1>9, <1>10, <2>2
  <2>4. ASSUME NEW i \in 1 .. (m + 1), p[i] = w[k].dfh PROVE v2[i].dfh_parent = head[k]
    <3>1. CASE i = m + 1
      <4>1. k = n
        <5>1. ~(k \in 1 .. (n - 1)) BY <1>3, <1>5, <2>4, <3>1
        <5> QED BY <1>3, <5>1
      <4> QED BY <3>1, <4>1 DEF Describing
    <3>2. CASE i \in 1 .. m BY <1>5, <1>7, <2>2, <2>4, <3>2
    <3> QED BY <1>5, <3>1, <3>2
  <2>5. w2[k].block > 0 =>
          \/ k = n /\ w2[k].dfh = p[m + 1]
          \/ \E l \in Platform!Links(h, w2[k].dfh) \ {0} : l < w2[k].block
    <3>1. CASE k = n BY <1>5, <1>6, <3>1
    <3>2. CASE k \in 1 .. (n - 1)
      <4>1. w2[k] = w[k] /\ k # n BY <1>3, <1>6, <3>2
      <4> QED BY <2>2, <4>1
    <3> QED BY <1>3, <3>1, <3>2
  <2>6. w2[k].block # 0
    <3>1. CASE k = n BY <1>6, <3>1
    <3>2. CASE k \in 1 .. (n - 1)
      <4>1. w2[k] = w[k] /\ k < n BY <1>3, <1>6, <3>2
      <4>2. w[k].block > 0 BY <1>1, <4>1, LastOfWalk
      <4> QED BY <4>1, <4>2
    <3> QED BY <1>3, <3>1, <3>2
  <2> QED BY <1>5, <1>6, <2>1, <2>3, <2>4, <2>5, <2>6 DEF ParentOfCall
<1> QED BY <1>2, <1>14, <1>15, <1>16, <1>17 DEF Collected, Recorded, p

\* The call in progress is at another block, with a branch among those it has passed or
\* none since its header was described.
LEMMA CollectPasses ==
  ASSUME NEW h \in Hardware, NEW w, NEW o, NEW v, NEW head, Collected(h, w, o, v, head),
         w # <<>>, NEW n, n = Len(w), NEW a, a = w[n].dfh, NEW b, b = w[n].block, b > 0,
         b \notin Platform!Links(h, a),
         NEW w2, UpTo(h, w, w2, n, [dfh |-> a, block |-> b + 1])
  PROVE  Collected(h, w2, o, v, head)
<1>1. IsWalk(h, w, o) /\ Recorded(h, o, v) /\ ParentsOfCalls(h, w, o, v, head)
  BY DEF Collected
<1>2. IsWalk(h, w2, o) BY <1>1, WalkPasses
<1>3. n \in Nat \ {0} /\ w[n] \in Frames(h) /\ a \in Addresses(h) BY <1>1, LastOfWalk
<1>4. /\ Len(w2) = n /\ w2[n] = [dfh |-> a, block |-> b + 1]
      /\ \A k \in 1 .. (n - 1) : w2[k] = w[k]
  BY DEF UpTo
<1>5. \A k \in 1 .. n : ParentOfCall(h, w, o, v, head, k) BY <1>1 DEF ParentsOfCalls
<1>6. ASSUME NEW k \in 1 .. n PROVE ParentOfCall(h, w2, o, v, head, k)
  <2>1. CASE k \in 1 .. (n - 1)
    <3>1. w2[k] = w[k] BY <1>4, <2>1
    <3>2. ParentOfCall(h, w, o, v, head, k) BY <1>5
    <3> QED BY <1>4, <3>1, <3>2 DEF ParentOfCall
  <2>2. CASE k = n
    <3>1. /\ HasParent(h, o, v, a, head[n])
          /\ \A i \in 1 .. Len(o) : o[i] = a => v[i].dfh_parent = head[n]
          /\ \/ a = o[Len(o)]
             \/ \E l \in Platform!Links(h, a) \ {0} : l < b
      BY <1>5, <2>2 DEF ParentOfCall
    <3>2. ASSUME NEW l \in Platform!Links(h, a), l < b PROVE l < b + 1
      <4>1. l \in Nat /\ b \in Nat BY <1>3, LinksInside DEF Frames
      <4> QED BY <3>2, <4>1
    <3>3. b + 1 # 0
      <4>1. b \in Nat BY <1>3 DEF Frames
      <4> QED BY <4>1
    <3> QED BY <1>4, <2>2, <3>1, <3>2, <3>3 DEF ParentOfCall
  <2> QED BY <1>3, <2>1, <2>2
<1>7. ParentsOfCalls(h, w2, o, v, head) BY <1>1, <1>4, <1>6 DEF ParentsOfCalls
<1> QED BY <1>1, <1>2, <1>7 DEF Collected

\* A list has the header described last for a parent: that is the one which branches to it if no
\* branch came before in its blocks.
LEMMA CollectBranches ==
  ASSUME NEW h \in Hardware, NEW w, NEW o, NEW v, NEW head, Collected(h, w, o, v, head),
         w # <<>>, NEW n, n = Len(w), NEW a, a = w[n].dfh, NEW b, b = w[n].block, b > 0,
         b \in Platform!Links(h, a), NEW c, c = Platform!Target(h, a, b),
         NEW w1, UpTo(h, w, w1, n, [dfh |-> a, block |-> b + 1]),
         NEW w2, UpTo(h, w1, w2, n + 1, [dfh |-> c, block |-> 0]),
         NEW head2, 1 .. (n + 1) \subseteq DOMAIN head2, head2[n + 1] = Len(o) - 1,
         \A k \in 1 .. n : head2[k] = head[k]
  PROVE  Collected(h, w2, o, v, head2)
<1>1. IsWalk(h, w, o) /\ Recorded(h, o, v) /\ ParentsOfCalls(h, w, o, v, head)
  BY DEF Collected
<1>2. IsWalk(h, w2, o) /\ c \notin Reached(w, o) BY <1>1, WalkBranches
<1>3. n \in Nat \ {0} /\ w[n] \in Frames(h) /\ a \in Addresses(h) BY <1>1, LastOfWalk
<1>4. /\ Len(w2) = n + 1 /\ w2[n + 1] = [dfh |-> c, block |-> 0]
      /\ w2[n] = [dfh |-> a, block |-> b + 1]
      /\ \A k \in 1 .. (n - 1) : w2[k] = w[k]
  <2>1. w1[n] = [dfh |-> a, block |-> b + 1] /\ \A k \in 1 .. (n - 1) : w1[k] = w[k]
    BY DEF UpTo
  <2>2. /\ Len(w2) = n + 1 /\ w2[n + 1] = [dfh |-> c, block |-> 0]
        /\ \A k \in 1 .. n : w2[k] = w1[k]
    BY <1>3 DEF UpTo
  <2> QED BY <1>3, <2>1, <2>2
<1>5. \A k \in 1 .. n : ParentOfCall(h, w, o, v, head, k) BY <1>1 DEF ParentsOfCalls
<1>6. b \in Nat \ {0} BY <1>3 DEF Frames
<1>7. /\ HasParent(h, o, v, a, head[n])
      /\ \A i \in 1 .. Len(o) : o[i] = a => v[i].dfh_parent = head[n]
      /\ IsFirstBranch(h, a, b) => a = o[Len(o)]
  <2>1. n \in 1 .. n BY <1>3
  <2>2. /\ HasParent(h, o, v, a, head[n])
        /\ \A i \in 1 .. Len(o) : o[i] = a => v[i].dfh_parent = head[n]
        /\ \/ a = o[Len(o)]
           \/ \E l \in Platform!Links(h, a) \ {0} : l < b
    BY <1>5, <2>1 DEF ParentOfCall
  <2> QED BY <2>2 DEF IsFirstBranch
<1>8. HasParent(h, o, v, c, Len(o) - 1)
  <2>1. o \in Seq(Addresses(h)) /\ \A i, j \in 1 .. Len(o) : o[i] = o[j] => i = j
    BY <1>1 DEF IsWalk, WalkTypes
  <2>2. c # h.first BY <1>3, LinksInside
  <2>3. ASSUME NEW i \in 1 .. Len(o), NEW l \in Platform!Links(h, o[i]),
               Platform!Target(h, o[i], l) = c
        PROVE  l # 0 /\ (IsFirstBranch(h, o[i], l) => i = Len(o))
    <3>1. o[i] \in Addresses(h) BY <2>1
    <3>2. o[i] = a /\ l = b BY <1>3, <2>3, <3>1, LinkedOnce
    <3>3. Len(o) \in 1 .. Len(o) BY <2>1
    <3> QED BY <1>6, <1>7, <2>1, <3>2, <3>3
  <2> QED BY <2>2, <2>3 DEF HasParent
<1>9. ASSUME NEW k \in 1 .. (n + 1) PROVE ParentOfCall(h, w2, o, v, head2, k)
  <2>1. CASE k = n + 1
    <3>1. c \notin Visited(o) BY <1>2 DEF Reached
    <3>2. \A i \in 1 .. Len(o) : o[i] # c BY <3>1 DEF Visited
    <3>3. JustBefore(h, c, Len(o) - 1, Len(o) + 1)
      <4>1. Len(o) \in Nat BY <1>1, CallsInside
      <4>2. Len(o) - 1 = (Len(o) + 1) - 2 BY <4>1
      <4> QED BY <4>2 DEF JustBefore
    <3> QED BY <1>4, <1>8, <2>1, <3>2, <3>3 DEF ParentOfCall
  <2>2. CASE k = n
    <3>1. head2[n] = head[n] BY <1>3
    <3>2. b \in Platform!Links(h, a) \ {0} /\ b < b + 1 /\ b + 1 # 0 BY <1>6
    <3> QED BY <1>4, <1>7, <2>2, <3>1, <3>2 DEF ParentOfCall
  <2>3. CASE k \in 1 .. (n - 1)
    <3>1. w2[k] = w[k] /\ head2[k] = head[k] /\ k # n BY <1>3, <1>4, <2>3
    <3>2. ParentOfCall(h, w, o, v, head, k) BY <1>3, <1>5, <2>3
    <3> QED BY <1>4, <3>1, <3>2 DEF ParentOfCall
  <2> QED BY <1>3, <2>1, <2>2, <2>3
<1>10. ParentsOfCalls(h, w2, o, v, head2) BY <1>4, <1>9 DEF ParentsOfCalls
<1> QED BY <1>1, <1>2, <1>10 DEF Collected

LEMMA CollectGoesOn ==
  ASSUME NEW h \in Hardware, NEW w, NEW o, NEW v, NEW head, Collected(h, w, o, v, head),
         w # <<>>, NEW n, n = Len(w), NEW a, a = w[n].dfh, NEW b, b = w[n].block, b > 0,
         \A i \in Platform!Links(h, a) : i < b, 0 \in Platform!Links(h, a),
         NEW c, c = Platform!Target(h, a, 0), NEW w2, UpTo(h, w, w2, n, [dfh |-> c, block |-> 0])
  PROVE  Collected(h, w2, o, v, head)
<1>1. IsWalk(h, w, o) /\ Recorded(h, o, v) /\ ParentsOfCalls(h, w, o, v, head)
  BY DEF Collected
<1>2. IsWalk(h, w2, o) /\ c \notin Reached(w, o) BY <1>1, WalkGoesOn
<1>3. n \in Nat \ {0} /\ w[n] \in Frames(h) /\ a \in Addresses(h) BY <1>1, LastOfWalk
<1>4. /\ Len(w2) = n /\ w2[n] = [dfh |-> c, block |-> 0]
      /\ \A k \in 1 .. (n - 1) : w2[k] = w[k]
  BY DEF UpTo
<1>5. \A k \in 1 .. n : ParentOfCall(h, w, o, v, head, k) BY <1>1 DEF ParentsOfCalls
<1>6. HasParent(h, o, v, c, head[n])
  <2>1. o \in Seq(Addresses(h)) BY <1>1, CallsInside
  <2>2. c # h.first BY <1>3, LinksInside
  <2>3. \A i \in 1 .. Len(o) : o[i] = a => v[i].dfh_parent = head[n]
    <3>1. n \in 1 .. n BY <1>3
    <3> QED BY <1>5, <3>1 DEF ParentOfCall
  <2>4. ASSUME NEW i \in 1 .. Len(o), NEW l \in Platform!Links(h, o[i]),
               Platform!Target(h, o[i], l) = c
        PROVE  l = 0 /\ head[n] = v[i].dfh_parent
    <3>1. o[i] \in Addresses(h) BY <2>1
    <3>2. o[i] = a /\ l = 0 BY <1>3, <2>4, <3>1, LinkedOnce
    <3> QED BY <2>3, <3>2
  <2> QED BY <2>2, <2>4 DEF HasParent
<1>7. ASSUME NEW k \in 1 .. n PROVE ParentOfCall(h, w2, o, v, head, k)
  <2>1. CASE k = n
    <3>1. c \notin Visited(o) BY <1>2 DEF Reached
    <3>2. \A i \in 1 .. Len(o) : o[i] # c BY <3>1 DEF Visited
    <3>3. ~LedByBranch(h, c)
      <4> SUFFICES ASSUME NEW x \in Addresses(h), NEW l \in Platform!Links(h, x) \ {0},
                          Platform!Target(h, x, l) = c
                   PROVE  FALSE
        BY DEF LedByBranch
      <4>1. l = 0 BY <1>3, LinkedOnce
      <4> QED BY <4>1
    <3> QED BY <1>4, <1>6, <2>1, <3>2, <3>3 DEF ParentOfCall, JustBefore
  <2>2. CASE k \in 1 .. (n - 1)
    <3>1. w2[k] = w[k] BY <1>4, <2>2
    <3>2. ParentOfCall(h, w, o, v, head, k) BY <1>5
    <3> QED BY <1>4, <3>1, <3>2 DEF ParentOfCall
  <2> QED BY <1>3, <2>1, <2>2
<1>8. ParentsOfCalls(h, w2, o, v, head) BY <1>1, <1>4, <1>7 DEF ParentsOfCalls
<1> QED BY <1>1, <1>2, <1>8 DEF Collected

LEMMA CollectReturns ==
  ASSUME NEW h \in Hardware, NEW w, NEW o, NEW v, NEW head, Collected(h, w, o, v, head),
         w # <<>>, NEW n, n = Len(w), NEW a, a = w[n].dfh, NEW b, b = w[n].block, b > 0,
         \A i \in Platform!Links(h, a) : i < b, 0 \notin Platform!Links(h, a)
  PROVE  Collected(h, Platform!Front(w), o, v, head)
<1> DEFINE f == Platform!Front(w)
<1>1. IsWalk(h, w, o) /\ Recorded(h, o, v) /\ ParentsOfCalls(h, w, o, v, head)
  BY DEF Collected
<1>2. IsWalk(h, f, o) BY <1>1, WalkReturns
<1>3. n \in Nat \ {0} BY <1>1, LastOfWalk
<1>4. Len(f) = n - 1 /\ \A k \in 1 .. (n - 1) : f[k] = w[k]
  <2>1. w \in Seq(Frames(h)) BY <1>1, CallsInside
  <2> QED BY <2>1, LastDropped
<1>5. \A k \in 1 .. n : ParentOfCall(h, w, o, v, head, k) BY <1>1 DEF ParentsOfCalls
<1> HIDE DEF f
<1>6. ASSUME NEW k \in 1 .. (n - 1) PROVE ParentOfCall(h, f, o, v, head, k)
  <2>1. f[k] = w[k] /\ k \in 1 .. n /\ k # n BY <1>3, <1>4
  <2>2. ParentOfCall(h, w, o, v, head, k) BY <1>5, <2>1
  <2> QED BY <2>1, <2>2 DEF ParentOfCall
<1>7. 1 .. (n - 1) \subseteq DOMAIN head
  <2>1. 1 .. n \subseteq DOMAIN head BY <1>1 DEF ParentsOfCalls
  <2> QED BY <1>3, <2>1
<1>8. ParentsOfCalls(h, f, o, v, head) BY <1>4, <1>6, <1>7 DEF ParentsOfCalls
<1> QED BY <1>1, <1>2, <1>8 DEF Collected, f

\* Opening and closing an interface change none of its description.
LEMMA RecordedKept ==
  ASSUME NEW h, NEW o, NEW v, NEW v2, Recorded(h, o, v), Len(o) <= Len(v), Len(v2) = Len(v),
         o \in Seq(Addresses(h)), Len(v) \in Nat,
         \A i \in 1 .. Len(v) :
           /\ v2[i].guid = v[i].guid /\ v2[i].base_address = v[i].base_address
           /\ v2[i].parameters = v[i].parameters /\ v2[i].dfh_parent = v[i].dfh_parent
  PROVE  Recorded(h, o, v2)
<1>1. /\ Len(o) \in Nat /\ \A i \in 1 .. Len(o) : i \in 1 .. Len(v)
      /\ \A i \in (Len(o) + 1) .. Len(v) : i \in 1 .. Len(v)
  OBVIOUS
<1>2. Describes(h, o, v2) BY <1>1 DEF Recorded, Describes
<1>3. IsAfter(h, o) BY DEF Recorded
<1>4. Parents(h, o, v2)
  <2> SUFFICES ASSUME NEW j \in 1 .. Len(o)
               PROVE  /\ HasParent(h, o, v2, o[j], v2[j].dfh_parent)
                      /\ JustBefore(h, o[j], v2[j].dfh_parent, j)
    BY DEF Parents
  <2>1. HasParent(h, o, v, o[j], v[j].dfh_parent) /\ JustBefore(h, o[j], v[j].dfh_parent, j)
    BY DEF Recorded, Parents
  <2>2. v2[j].dfh_parent = v[j].dfh_parent BY <1>1
  <2>3. \A i \in 1 .. Len(o) : v2[i].dfh_parent = v[i].dfh_parent BY <1>1
  <2> QED BY <2>1, <2>2, <2>3 DEF HasParent
<1> QED BY <1>2, <1>3, <1>4 DEF Recorded

-----------------------------------------------------------------------------
(* Steps of the scan *)

LEMMA LengthOf ==
  ASSUME NEW v, NEW n \in Nat, v = [i \in 1 .. n |-> v[i]]
  PROVE  Len(v) = n /\ DOMAIN v = 1 .. n
<1>1. v \in [1 .. n -> {v[i] : i \in 1 .. n}] OBVIOUS
<1> QED BY <1>1

LEMMA Counted ==
  ASSUME NEW h \in Hardware, NEW o \in Seq(Addresses(h)),
         \A i, j \in 1 .. Len(o) : o[i] = o[j] => i = j
  PROVE  /\ Size(h) \in Nat /\ Len(o) <= Size(h)
         /\ Visited(o) = Addresses(h) => Len(o) = Size(h)
<1> DEFINE n == Len(o)
<1> DEFINE A == Addresses(h)
<1>1. n \in Nat /\ o \in [1 .. n -> A] OBVIOUS
<1>2. IsFiniteSet(A)
  <2>1. Platform!IsTree(h) BY PlatformAssumption
  <2> QED BY <2>1 DEF Platform!IsTree, IsFiniteSet, Platform!IsFiniteSet, Addresses
<1>3. IsFiniteSet(1 .. n) /\ Cardinality(1 .. n) = n BY <1>1, FS_Interval
<1> HIDE DEF n, A
<1>4. o \in Injection(1 .. n, A) BY <1>1 DEF Injection, IsInjective, n
<1>5. n <= Cardinality(A) BY <1>2, <1>3, <1>4, FS_Injection
<1>6. Cardinality(A) \in Nat BY <1>2, FS_CardinalityType
<1>7. ASSUME Visited(o) = A PROVE n = Cardinality(A)
  <2>1. \A t \in A : \E s \in 1 .. n : o[s] = t BY <1>7 DEF Visited, n
  <2>2. o \in Surjection(1 .. n, A) BY <1>1, <2>1 DEF Surjection
  <2> QED BY <1>2, <1>3, <1>4, <2>2, FS_Injection
<1> QED BY <1>5, <1>6, <1>7 DEF Size, n, A

\* An entry more on the stack, in memory it has or gets at first.
PushedOn(stack, data) ==
  [head |-> [i \in DOMAIN stack.head \cup {stack.top + 1} |->
               IF i = stack.top + 1 THEN data ELSE stack.head[i]],
   top |-> stack.top + 1,
   size |-> IF stack.top = stack.size THEN DFH_PARENT_STACK_INCR_SIZE ELSE stack.size]

LEMMA Pushed ==
  ASSUME NEW stack, NEW data,
         stack = [head |-> stack.head, top |-> stack.top, size |-> stack.size],
         stack.top # stack.size \/ stack.size = 0, DFH_PARENT_STACK_INCR_SIZE \in Nat
  PROVE  Platform!push(stack, data) = PushedOn(stack, data)
<1> DEFINE hd == stack.head
<1> DEFINE tp == stack.top
<1> DEFINE sz == stack.size
<1>1. stack = [head |-> hd, top |-> tp, size |-> sz] OBVIOUS
<1>2. Platform!Grown(stack) =
        [head |-> hd, top |-> tp, size |-> IF tp = sz THEN DFH_PARENT_STACK_INCR_SIZE ELSE sz]
  <2>1. CASE tp = sz
    <3>1. sz + DFH_PARENT_STACK_INCR_SIZE = DFH_PARENT_STACK_INCR_SIZE BY <2>1
    <3>2. Platform!Grown(stack) = [stack EXCEPT !.size = sz + DFH_PARENT_STACK_INCR_SIZE]
      BY <2>1 DEF Platform!Grown
    <3> HIDE DEF hd, tp, sz
    <3> QED BY <1>1, <2>1, <3>1, <3>2
  <2>2. CASE tp # sz
    <3>1. Platform!Grown(stack) = stack BY <2>2 DEF Platform!Grown
    <3> HIDE DEF hd, tp, sz
    <3> QED BY <1>1, <2>2, <3>1
  <2> QED BY <2>1, <2>2
<1> DEFINE g == Platform!Grown(stack)
<1> DEFINE pushed(f) == [i \in DOMAIN f \cup {tp + 1} |-> IF i = tp + 1 THEN data ELSE f[i]]
<1>3. Platform!push(stack, data) = [g EXCEPT !.top = tp + 1, !.head = pushed(g.head)]
  BY DEF Platform!push
<1> DEFINE z == IF tp = sz THEN DFH_PARENT_STACK_INCR_SIZE ELSE sz
<1>4. g = [head |-> hd, top |-> tp, size |-> z] BY <1>2
<1> HIDE DEF g, hd, tp, sz, z, pushed
<1>5. Platform!push(stack, data) = [head |-> pushed(hd), top |-> tp + 1, size |-> z]
  BY <1>3, <1>4
<1> QED BY <1>5 DEF hd, tp, sz, z, pushed, PushedOn

\* In v2 entry k of v is another.
Replaces(v2, v, k, x) == v2 = [v EXCEPT ![k] = x]

LEMMA VectorReplaced ==
  ASSUME NEW v, NEW n \in Nat, Vector(v, n), NEW k \in 1 .. n, NEW x, InfoFields(x),
         NEW v2, Replaces(v2, v, k, x)
  PROVE  /\ Vector(v2, n) /\ Len(v2) = n /\ Len(v) = n /\ v2[k] = x
         /\ \A i \in 1 .. n : i # k => v2[i] = v[i]
<1>1. v = [i \in 1 .. n |-> v[i]] /\ \A i \in 1 .. n : InfoFields(v[i]) BY DEF Vector
<1>2. v2 = [i \in 1 .. n |-> v2[i]] /\ v2[k] = x /\ \A i \in 1 .. n : i # k => v2[i] = v[i]
  BY <1>1 DEF Replaces
<1>3. Vector(v2, n)
  <2> SUFFICES ASSUME NEW i \in 1 .. n PROVE InfoFields(v2[i]) BY <1>2 DEF Vector
  <2> QED BY <1>1, <1>2
<1> QED BY <1>1, <1>2, <1>3, LengthOf

\* What a vector holds on the heap, as a function of the vector.
OwnedBy(v) ==
  {<<"vec">>} \cup {<<"parameters", i>> : i \in 1 .. Len(v)}
  \cup UNION {{<<"data", i, j>> : j \in 1 .. Len(v[i].parameters)} : i \in 1 .. Len(v)}

LEMMA OwnedAt ==
  ASSUME NEW v, NEW e
  PROVE  e \in OwnedBy(v) <=>
           \/ e = <<"vec">>
           \/ \E i \in 1 .. Len(v) : e = <<"parameters", i>>
           \/ \E i \in 1 .. Len(v) : \E j \in 1 .. Len(v[i].parameters) : e = <<"data", i, j>>
<1>1. e \in UNION {{<<"data", i, j>> : j \in 1 .. Len(v[i].parameters)} : i \in 1 .. Len(v)}
        <=> \E i \in 1 .. Len(v) :
              e \in {<<"data", i, j>> : j \in 1 .. Len(v[i].parameters)}
  BY Zenon
<1> QED BY <1>1, Zenon DEF OwnedBy

\* The parameters begin with the blocks.
LEMMA ParametersData ==
  ASSUME ScanTypes, NEW a \in Addresses(dfl), NEW l \in DOMAIN Platform!BlocksOf(dfl.headers[a])
  PROVE  Platform!Parameters(a)[l].data = Platform!BlocksOf(dfl.headers[a])[l].data
<1> DEFINE bs == Platform!BlocksOf(dfl.headers[a])
<1> DEFINE entry(b) ==
      [param_id |-> b.param_id, data_size |-> Platform!data_size_of(b), data |-> b.data]
<1> DEFINE first == [i \in 1 .. Len(bs) |-> entry(bs[i])]
<1> DEFINE more == IF bs # <<>> /\ ~Platform!is_last_param_block(Platform!Last(bs))
                   THEN <<Platform!NoParameter>> ELSE <<>>
<1>1. Platform!Parameters(a) = first \o more
  BY DEF Platform!Parameters, Platform!Blocks, Platform!Header
<1>2. PICK S : bs \in Seq(S) BY BlocksAreASequence DEF ScanTypes
<1>3. Len(bs) \in Nat /\ DOMAIN bs = 1 .. Len(bs) BY <1>2
<1> DEFINE T == {entry(bs[i]) : i \in 1 .. Len(bs)} \cup {Platform!NoParameter}
<1>5. first \in Seq(T) /\ Len(first) = Len(bs)
  <2> HIDE DEF entry
  <2>1. first \in [1 .. Len(bs) -> T] OBVIOUS
  <2> QED BY <1>3, <2>1
<1>6. more \in Seq(T)
  <2>1. Platform!NoParameter \in T OBVIOUS
  <2>2. more \in {<<>>, <<Platform!NoParameter>>} OBVIOUS
  <2> HIDE DEF T, more
  <2>3. <<>> \in Seq(T) OBVIOUS
  <2>4. <<Platform!NoParameter>> \in Seq(T) BY <2>1
  <2> QED BY <2>2, <2>3, <2>4
<1>7. l \in 1 .. Len(bs) BY <1>3
<1>8. first[l] = entry(bs[l]) BY <1>7
<1> HIDE DEF first, more, T
<1>9. (first \o more)[l] = first[l] BY <1>3, <1>5, <1>6, <1>7
<1> HIDE DEF bs
<1>10. Platform!Parameters(a)[l].data = bs[l].data BY <1>1, <1>8, <1>9
<1> QED BY <1>10 DEF bs

\* At a block of header a: it is a link if it is a branch; behind all blocks, no link of a
\* block is ahead.
LEMMA LinkOfBlock ==
  ASSUME NEW h \in Hardware, NEW a \in Addresses(h), NEW b \in Nat, b > 0
  PROVE  LET bs == Platform!BlocksOf(h.headers[a])
         IN  /\ Len(bs) \in Nat
             /\ b <= Len(bs) =>
                  /\ b \in Platform!Links(h, a) <=> bs[b].param_id = Platform!BranchId
                  /\ Platform!Target(h, a, b) = Platform!branch_of(a, bs[b])
             /\ b > Len(bs) => \A i \in Platform!Links(h, a) : i < b
             /\ 0 \in Platform!Links(h, a) <=> ~h.headers[a].eol
             /\ Platform!Target(h, a, 0) = a + h.headers[a].next
<1> DEFINE bs == Platform!BlocksOf(h.headers[a])
<1>1. PICK S : bs \in Seq(S) BY BlocksAreASequence
<1>2. Len(bs) \in Nat BY <1>1
<1>3. Platform!Links(h, a) =
        {i \in 0 .. Len(bs) :
           IF i = 0 THEN ~h.headers[a].eol ELSE bs[i].param_id = Platform!BranchId}
  BY DEF Platform!Links, Platform!is_eol
<1>4. Platform!Target(h, a, b) = Platform!branch_of(a, bs[b]) BY DEF Platform!Target
<1>5. Platform!Target(h, a, 0) = a + h.headers[a].next BY DEF Platform!Target
<1> HIDE DEF bs
<1>6. b <= Len(bs) => (b \in Platform!Links(h, a) <=> bs[b].param_id = Platform!BranchId)
  BY <1>2, <1>3
<1>7. b > Len(bs) => \A i \in Platform!Links(h, a) : i < b BY <1>2, <1>3
<1>8. 0 \in Platform!Links(h, a) <=> ~h.headers[a].eol BY <1>2, <1>3
<1> QED BY <1>2, <1>4, <1>5, <1>6, <1>7, <1>8 DEF bs

LEMMA ScanInit == Platform!Init => ScanInv
<1> SUFFICES ASSUME Platform!Init PROVE ScanInv OBVIOUS
<1>1. /\ dfl \in Hardware /\ scan = "idle"
      /\ s_scanned_interface_count = 0 /\ s_interface_index = 0
      /\ dfh_parent_stack = [head |-> <<>>, top |-> 0, size |-> 0]
      /\ walk = <<>> /\ vec = <<>> /\ heap = {}
  BY DEF Platform!Init
<1>2. Vector(vec, 0) BY <1>1 DEF Vector
<1>3. \E n \in Nat : Vector(vec, n) BY <1>2
<1>4. walk \in Seq(Frames(dfl)) BY <1>1
<1>5. ScanTypes BY <1>1, <1>3, <1>4 DEF ScanTypes
<1>6. StackInv BY <1>1 DEF StackInv
<1> QED BY <1>1, <1>5, <1>6 DEF ScanInv

\* A walk starts from an empty stack.
LEMMA FirstCall ==
  ASSUME ScanInv, dfh_parent_stack.top = 0,
         dfh_parent_stack.size \in {0, DFH_PARENT_STACK_INCR_SIZE},
         dfh_parent_stack' = Platform!push(dfh_parent_stack, -1),
         walk' = <<Platform!Call(dfl.first)>>
  PROVE  /\ UpTo(dfl, <<>>, walk', 1, [dfh |-> dfl.first, block |-> 0])
         /\ walk' \in Seq(Frames(dfl)) /\ Len(walk') = 1
         /\ dfh_parent_stack' = [head |-> dfh_parent_stack'.head, top |-> 1,
                                 size |-> DFH_PARENT_STACK_INCR_SIZE]
         /\ 1 \in DOMAIN dfh_parent_stack'.head /\ dfh_parent_stack'.head[1] = -1
<1>1. /\ dfl \in Hardware
      /\ dfh_parent_stack = [head |-> dfh_parent_stack.head, top |-> dfh_parent_stack.top,
                             size |-> dfh_parent_stack.size]
  BY DEF ScanInv, ScanTypes
<1>2. DFH_PARENT_STACK_INCR_SIZE \in Nat BY PlatformAssumption
<1>3. dfl.first \in Addresses(dfl) BY <1>1, LinksInside
<1>4. UpTo(dfl, <<>>, walk', 1, [dfh |-> dfl.first, block |-> 0]) BY <1>3, OneCall
<1> DEFINE hd == dfh_parent_stack.head
<1> DEFINE sz == dfh_parent_stack.size
<1>5. dfh_parent_stack = [head |-> hd, top |-> 0, size |-> sz] BY <1>1
<1>6. dfh_parent_stack.top # dfh_parent_stack.size \/ sz = 0 BY <1>2
<1>7. dfh_parent_stack' =
        [head |-> [i \in DOMAIN hd \cup {1} |-> IF i = 1 THEN -1 ELSE hd[i]], top |-> 1,
         size |-> IF 0 = sz THEN DFH_PARENT_STACK_INCR_SIZE ELSE sz]
  <2>1. dfh_parent_stack.top + 1 = 1 OBVIOUS
  <2>2. dfh_parent_stack' = PushedOn(dfh_parent_stack, -1) BY <1>1, <1>2, <1>6, Pushed
  <2>3. dfh_parent_stack.top = 0 OBVIOUS
  <2> QED BY <2>1, <2>2, <2>3 DEF PushedOn
<1>8. (IF 0 = sz THEN DFH_PARENT_STACK_INCR_SIZE ELSE sz) = DFH_PARENT_STACK_INCR_SIZE
  OBVIOUS
<1> HIDE DEF hd, sz
<1>9. /\ dfh_parent_stack' = [head |-> dfh_parent_stack'.head, top |-> 1,
                              size |-> DFH_PARENT_STACK_INCR_SIZE]
      /\ 1 \in DOMAIN dfh_parent_stack'.head /\ dfh_parent_stack'.head[1] = -1
  BY <1>7, <1>8
<1>10. walk' \in Seq(Frames(dfl)) /\ Len(walk') = 1 BY <1>4 DEF UpTo
<1> QED BY <1>4, <1>9, <1>10

LEMMA ScanStartInv ==
  ASSUME ScanInv, Platform!fpga_platform_init
  PROVE  ScanInv'
<1>1. /\ scan \in {"idle", "ready"} /\ scan' = "count"
      /\ s_scanned_interface_count' = 0 /\ vec' = <<>>
      /\ dfh_parent_stack' = Platform!push(dfh_parent_stack, -1)
      /\ heap' = (heap \ Platform!Owned) \cup {<<"stack">>}
      /\ walk' = <<Platform!Call(dfl.first)>>
      /\ dfl' = dfl /\ s_interface_index' = s_interface_index
  BY DEF Platform!fpga_platform_init
<1>2. dfh_parent_stack.top = 0 /\ dfh_parent_stack.size = 0 BY <1>1 DEF ScanInv, StackInv
<1>3. /\ UpTo(dfl, <<>>, walk', 1, [dfh |-> dfl.first, block |-> 0])
      /\ walk' \in Seq(Frames(dfl)) /\ Len(walk') = 1
      /\ dfh_parent_stack' = [head |-> dfh_parent_stack'.head, top |-> 1,
                              size |-> DFH_PARENT_STACK_INCR_SIZE]
  BY <1>1, <1>2, FirstCall
<1>4. dfl \in Hardware /\ s_interface_index \in Nat \cup {-1} BY DEF ScanInv, ScanTypes
<1>5. IsWalk(dfl, walk', <<>>) BY <1>3, <1>4, WalkStarts
<1>6. heap' = {<<"stack">>}
  <2>1. heap \subseteq Platform!Owned BY <1>1 DEF ScanInv, AllDescribed
  <2> QED BY <1>1, <2>1
<1>7. \E n \in Nat : Vector(vec', n)
  <2>1. Vector(vec', 0) BY <1>1 DEF Vector
  <2> QED BY <2>1
<1>8. DFH_PARENT_STACK_INCR_SIZE \in Nat /\ 1 < DFH_PARENT_STACK_INCR_SIZE BY PlatformAssumption
<1> DEFINE hd == dfh_parent_stack'.head
<1>9. /\ dfh_parent_stack' = [head |-> dfh_parent_stack'.head, top |-> dfh_parent_stack'.top,
                              size |-> dfh_parent_stack'.size]
      /\ dfh_parent_stack'.top = 1 /\ dfh_parent_stack'.size = DFH_PARENT_STACK_INCR_SIZE
  <2>1. dfh_parent_stack' = [head |-> hd, top |-> 1, size |-> DFH_PARENT_STACK_INCR_SIZE]
    BY <1>3
  <2> HIDE DEF hd
  <2> QED BY <2>1
<1>10. ScanTypes' BY <1>1, <1>3, <1>4, <1>7, <1>8, <1>9 DEF ScanTypes
<1>11. StackInv' BY <1>1, <1>3, <1>8, <1>9 DEF StackInv
<1>12. Counting'
  <2>1. <<>> \in Seq(Addresses(dfl)) /\ Len(<<>>) = 0 OBVIOUS
  <2> QED BY <1>1, <1>5, <1>6, <2>1 DEF Counting
<1> QED BY <1>1, <1>10, <1>11, <1>12 DEF ScanInv

LEMMA CallInProgress ==
  ASSUME ScanTypes, walk # <<>>, NEW n, n = Len(walk), NEW a, a = walk[n].dfh
  PROVE  /\ dfl \in Hardware /\ walk \in Seq(Frames(dfl)) /\ n \in Nat \ {0}
         /\ walk[n] = [dfh |-> a, block |-> walk[n].block]
         /\ a \in Addresses(dfl) /\ walk[n].block \in Nat
         /\ Platform!Frame = walk[n]
         /\ Platform!Blocks(a) = Platform!BlocksOf(dfl.headers[a])
         /\ Platform!Header(a) = dfl.headers[a]
<1>1. walk \in Seq(Frames(dfl)) /\ dfl \in Hardware BY DEF ScanTypes
<1>2. n \in Nat \ {0} /\ walk[n] \in Frames(dfl) BY <1>1, LastOfItself
<1>3. Platform!Frame = walk[n] BY DEF Platform!Frame, Platform!Last
<1>4. Platform!Blocks(a) = Platform!BlocksOf(dfl.headers[a]) /\ Platform!Header(a) = dfl.headers[a]
  BY DEF Platform!Blocks, Platform!Header
<1> QED BY <1>1, <1>2, <1>3, <1>4 DEF Frames

\* The types of a step that leaves the phase alone.
LEMMA TypesKept ==
  ASSUME ScanTypes, StackInv, scan \in {"count", "collect"}, scan' = scan, dfl' = dfl,
         s_scanned_interface_count' \in Nat, s_interface_index' \in Nat \cup {-1},
         dfh_parent_stack' = [head |-> dfh_parent_stack'.head, top |-> dfh_parent_stack'.top,
                              size |-> dfh_parent_stack'.size],
         dfh_parent_stack'.size = DFH_PARENT_STACK_INCR_SIZE,
         walk' \in Seq(Frames(dfl)), dfh_parent_stack'.top = Len(walk'),
         Len(walk') < DFH_PARENT_STACK_INCR_SIZE,
         NEW n \in Nat, Vector(vec', n)
  PROVE  ScanTypes' /\ StackInv'
<1>1. dfl \in Hardware BY DEF ScanTypes
<1>2. DFH_PARENT_STACK_INCR_SIZE \in Nat /\ Len(walk') \in Nat BY PlatformAssumption
<1>3. ScanTypes' BY <1>1, <1>2 DEF ScanTypes
<1>4. StackInv' BY DEF StackInv
<1> QED BY <1>3, <1>4

LEMMA CountInterface ==
  ASSUME ScanInv, Platform!Interface, scan = "count"
  PROVE  ScanInv'
<1> DEFINE n == Len(walk)
<1> DEFINE a == walk[n].dfh
<1>0. ScanTypes /\ StackInv BY DEF ScanInv
<1>1. /\ walk # <<>> /\ Platform!Frame.block = 0 /\ walk' = Platform!With(1)
      /\ s_scanned_interface_count' = s_scanned_interface_count + 1
      /\ s_interface_index' = s_interface_index /\ vec' = vec /\ heap' = heap
      /\ dfl' = dfl /\ scan' = scan /\ dfh_parent_stack' = dfh_parent_stack
  BY DEF Platform!Interface
<1>2. /\ dfl \in Hardware /\ walk \in Seq(Frames(dfl)) /\ n \in Nat \ {0}
      /\ a \in Addresses(dfl) /\ Platform!Frame = walk[n]
  BY <1>0, <1>1, CallInProgress
<1>3. UpTo(dfl, walk, walk', n, [dfh |-> a, block |-> 1])
  BY <1>1, <1>2, BlockChanged DEF Platform!With
<1>4. PICK o \in Seq(Addresses(dfl)) : s_scanned_interface_count = Len(o) /\ IsWalk(dfl, walk, o)
  BY DEF ScanInv, Counting
<1>5. IsWalk(dfl, walk', Append(o, a)) BY <1>1, <1>2, <1>3, <1>4, WalkVisits
<1>6. Append(o, a) \in Seq(Addresses(dfl)) /\ Len(Append(o, a)) = Len(o) + 1
  BY <1>2
<1>7. heap = {<<"stack">>} /\ vec = <<>> BY DEF ScanInv, Counting
<1>8. Counting' BY <1>1, <1>4, <1>5, <1>6, <1>7 DEF Counting
<1>9. walk' \in Seq(Frames(dfl)) /\ Len(walk') = n BY <1>3 DEF UpTo
<1>10. ScanTypes' /\ StackInv'
  <2>1. /\ s_scanned_interface_count + 1 \in Nat /\ s_interface_index \in Nat \cup {-1}
        /\ dfh_parent_stack = [head |-> dfh_parent_stack.head, top |-> dfh_parent_stack.top,
                               size |-> dfh_parent_stack.size]
    BY <1>0 DEF ScanTypes
  <2>2. /\ dfh_parent_stack.size = DFH_PARENT_STACK_INCR_SIZE
        /\ dfh_parent_stack.top = n /\ n < DFH_PARENT_STACK_INCR_SIZE
    BY <1>0, <1>1 DEF StackInv, Platform!Interface, Platform!Scanning
  <2>3. Vector(vec, 0) BY <1>7 DEF Vector
  <2> HIDE DEF n, a
  <2> QED BY <1>0, <1>1, <1>9, <2>1, <2>2, <2>3, TypesKept
<1> QED BY <1>1, <1>8, <1>10 DEF ScanInv

LEMMA DescribeInterface ==
  ASSUME ScanInv, Platform!Interface, scan = "collect"
  PROVE  ScanInv'
<1> DEFINE n == Len(walk)
<1> DEFINE a == walk[n].dfh
<1> DEFINE head == dfh_parent_stack.head
<1>0. ScanTypes /\ StackInv BY DEF ScanInv
<1>1. /\ walk # <<>> /\ Platform!Frame.block = 0 /\ walk' = Platform!With(1)
      /\ s_scanned_interface_count' = s_scanned_interface_count
      /\ s_interface_index' = s_interface_index + 1
      /\ Platform!set_interface_properties(s_interface_index + 1, Platform!Frame.dfh)
      /\ dfl' = dfl /\ scan' = scan /\ dfh_parent_stack' = dfh_parent_stack
  BY DEF Platform!Interface
<1>2. /\ dfl \in Hardware /\ walk \in Seq(Frames(dfl)) /\ n \in Nat \ {0}
      /\ a \in Addresses(dfl) /\ Platform!Frame = walk[n]
      /\ Platform!Header(a) = dfl.headers[a]
  BY <1>0, <1>1, CallInProgress
<1>3. UpTo(dfl, walk, walk', n, [dfh |-> a, block |-> 1])
  BY <1>1, <1>2, BlockChanged DEF Platform!With
<1>4. PICK o \in Seq(Addresses(dfl)) :
        s_interface_index + 1 = Len(o) /\ Collected(dfl, walk, o, vec, head)
  BY DEF ScanInv, Collecting
<1> DEFINE m == Len(o)
<1> DEFINE N == Size(dfl)
<1>5. Vector(vec, N) /\ heap \subseteq {<<"stack">>} \cup Platform!Owned
  BY DEF ScanInv, Collecting
<1>6. m \in Nat /\ N \in Nat /\ m < N
  <2>1. IsWalk(dfl, walk, o) BY <1>4 DEF Collected
  <2>2. a \notin Visited(o) BY <1>1, <1>2, <1>3, <2>1, WalkVisits
  <2>3. \A i, j \in 1 .. Len(o) : o[i] = o[j] => i = j BY <2>1 DEF IsWalk, WalkTypes
  <2>4. /\ Append(o, a) \in Seq(Addresses(dfl)) /\ Len(Append(o, a)) = m + 1
        /\ \A i, j \in 1 .. Len(Append(o, a)) : Append(o, a)[i] = Append(o, a)[j] => i = j
    BY <1>2, <2>2, <2>3, OneMore
  <2>5. m + 1 <= N /\ N \in Nat BY <1>2, <2>4, Counted
  <2> QED BY <2>5
<1> DEFINE parameters == Platform!Parameters(a)
<1> DEFINE info ==
      [guid |-> dfl.headers[a].guid, base_address |-> Platform!get_base_address(a),
       parameters |-> parameters, dfh_parent |-> Platform!peek(dfh_parent_stack),
       is_mmio_opened |-> FALSE, is_interrupt_opened |-> FALSE]
<1>7. /\ vec' = [vec EXCEPT ![m + 1] = info]
      /\ heap' = heap
           \cup {<<"parameters", m + 1>> : p \in Platform!ToSet(parameters)}
           \cup {<<"data", m + 1, j>> : j \in {k \in 1 .. Len(parameters) :
                                                parameters[k].data # NULL}}
  BY <1>1, <1>2, <1>4 DEF Platform!set_interface_properties
<1>8. InfoFields(info) /\ info.parameters = parameters
  <2> HIDE DEF parameters
  <2> QED BY DEF InfoFields
<1>9. Describing(dfl, a, info, head[n])
  <2>1. dfh_parent_stack.top = n BY <1>0 DEF StackInv
  <2>2. \A l \in DOMAIN Platform!BlocksOf(dfl.headers[a]) :
          parameters[l].data = Platform!BlocksOf(dfl.headers[a])[l].data
    BY <1>0, <1>2, ParametersData
  <2>3. Platform!get_base_address(a) =
          dfl.headers[a].csr + (IF dfl.headers[a].csr_absolute THEN 0 ELSE a)
    BY <1>2 DEF Platform!get_base_address
  <2>4. Platform!peek(dfh_parent_stack) = head[n] BY <2>1 DEF Platform!peek
  <2> HIDE DEF parameters, a, n, head
  <2> QED BY <2>2, <2>3, <2>4 DEF Describing
<1> HIDE DEF info
<1>10. /\ Vector(vec', N) /\ Len(vec') = N /\ Len(vec) = N /\ vec'[m + 1] = info
       /\ \A i \in 1 .. N : i # m + 1 => vec'[i] = vec[i]
  <2> DEFINE k == m + 1
  <2>1. k \in 1 .. N BY <1>6
  <2>2. Replaces(vec', vec, k, info) BY <1>7 DEF Replaces
  <2> HIDE DEF m, N, k
  <2>3. /\ Vector(vec', N) /\ Len(vec') = N /\ Len(vec) = N /\ vec'[k] = info
        /\ \A i \in 1 .. N : i # k => vec'[i] = vec[i]
    BY <1>5, <1>6, <1>8, <2>1, <2>2, VectorReplaced
  <2> QED BY <2>3 DEF k
<1>11. Collected(dfl, walk', Append(o, a), vec', head)
  <2>1. walk[n].block = 0 BY <1>1, <1>2
  <2> QED BY <1>1, <1>2, <1>3, <1>4, <1>6, <1>9, <1>10, <2>1, CollectVisits
<1>12. vec[m + 1].parameters = <<>>
  <2>1. Describes(dfl, o, vec) BY <1>4 DEF Collected, Recorded
  <2>2. m + 1 \in (Len(o) + 1) .. Len(vec) BY <1>6, <1>10
  <2> QED BY <2>1, <2>2 DEF Describes
<1> HIDE DEF N, m, parameters
<1>13. heap' \subseteq {<<"stack">>} \cup (Platform!Owned)'
  <2>1. Platform!Owned = OwnedBy(vec) /\ (Platform!Owned)' = OwnedBy(vec')
    BY DEF Platform!Owned, OwnedBy
  <2>2. ASSUME NEW e \in OwnedBy(vec) PROVE e \in OwnedBy(vec')
    <3>1. CASE e = <<"vec">> BY <3>1, OwnedAt
    <3>2. CASE \E i \in 1 .. Len(vec) : e = <<"parameters", i>> BY <1>10, <3>2, OwnedAt
    <3>3. ASSUME NEW i \in 1 .. Len(vec), NEW j \in 1 .. Len(vec[i].parameters),
                 e = <<"data", i, j>>
          PROVE  e \in OwnedBy(vec')
      <4>1. i # m + 1
        <5>1. ASSUME i = m + 1 PROVE FALSE
          <6>1. Len(vec[i].parameters) = 0 BY <1>12, <5>1
          <6> QED BY <6>1
        <5> QED BY <5>1
      <4>2. i \in 1 .. Len(vec') /\ j \in 1 .. Len(vec'[i].parameters) BY <1>10, <4>1
      <4> QED BY <3>3, <4>2, OwnedAt
    <3> QED BY <3>1, <3>2, <3>3, OwnedAt
  <2>3. m + 1 \in 1 .. Len(vec') /\ vec'[m + 1].parameters = parameters
    BY <1>6, <1>8, <1>10
  <2>4. <<"parameters", m + 1>> \in OwnedBy(vec') BY <2>3, OwnedAt
  <2>5. ASSUME NEW j \in 1 .. Len(parameters) PROVE <<"data", m + 1, j>> \in OwnedBy(vec')
    BY <2>3, OwnedAt
  <2> QED BY <1>5, <1>7, <2>1, <2>2, <2>4, <2>5
<1>14. walk' \in Seq(Frames(dfl)) /\ Len(walk') = n BY <1>3 DEF UpTo
<1>15. Collecting'
  <2>1. Append(o, a) \in Seq(Addresses(dfl)) /\ Len(Append(o, a)) = m + 1 BY <1>2 DEF m
  <2>2. s_interface_index' + 1 = Len(Append(o, a)) BY <1>1, <1>4, <2>1 DEF m
  <2> QED BY <1>1, <1>10, <1>11, <1>13, <2>1, <2>2 DEF Collecting, N
<1>16. ScanTypes' /\ StackInv'
  <2>1. /\ s_scanned_interface_count \in Nat /\ s_interface_index + 1 \in Nat
        /\ dfh_parent_stack = [head |-> dfh_parent_stack.head, top |-> dfh_parent_stack.top,
                               size |-> dfh_parent_stack.size]
    BY <1>0 DEF ScanTypes
  <2>2. /\ dfh_parent_stack.size = DFH_PARENT_STACK_INCR_SIZE
        /\ dfh_parent_stack.top = n /\ n < DFH_PARENT_STACK_INCR_SIZE
    BY <1>0, <1>1 DEF StackInv, Platform!Interface, Platform!Scanning
  <2> HIDE DEF n, a, head
  <2> QED BY <1>0, <1>1, <1>6, <1>10, <1>14, <2>1, <2>2, TypesKept
<1> QED BY <1>1, <1>15, <1>16 DEF ScanInv

\* A step that changes no more than the calls and the stack.
LEMMA CallsChanged ==
  ASSUME ScanInv, scan \in {"count", "collect"}, scan' = scan, dfl' = dfl,
         s_scanned_interface_count' = s_scanned_interface_count,
         s_interface_index' = s_interface_index, vec' = vec, heap' = heap,
         dfh_parent_stack' = [head |-> dfh_parent_stack'.head, top |-> dfh_parent_stack'.top,
                              size |-> dfh_parent_stack'.size],
         dfh_parent_stack'.size = DFH_PARENT_STACK_INCR_SIZE,
         walk' \in Seq(Frames(dfl)), dfh_parent_stack'.top = Len(walk'),
         Len(walk') < DFH_PARENT_STACK_INCR_SIZE,
         \A o : IsWalk(dfl, walk, o) => IsWalk(dfl, walk', o),
         \A o : s_interface_index + 1 = Len(o)
                /\ Collected(dfl, walk, o, vec, dfh_parent_stack.head)
                  => Collected(dfl, walk', o, vec, dfh_parent_stack'.head)
  PROVE  ScanInv'
<1>1. ScanTypes /\ StackInv BY DEF ScanInv
<1>2. PICK n \in Nat : Vector(vec, n) BY <1>1 DEF ScanTypes
<1>3. s_scanned_interface_count \in Nat /\ s_interface_index \in Nat \cup {-1}
  BY <1>1 DEF ScanTypes
<1>4. ScanTypes' /\ StackInv' BY <1>1, <1>2, <1>3, TypesKept
<1>5. ASSUME scan = "count" PROVE Counting'
  <2>1. Counting BY <1>5 DEF ScanInv
  <2> QED BY <2>1 DEF Counting
<1>6. ASSUME scan = "collect" PROVE Collecting'
  <2>1. Collecting BY <1>6 DEF ScanInv
  <2>2. (Platform!Owned)' = Platform!Owned BY DEF Platform!Owned
  <2>3. PICK o \in Seq(Addresses(dfl)) :
          /\ s_interface_index + 1 = Len(o)
          /\ Collected(dfl, walk, o, vec, dfh_parent_stack.head)
    BY <2>1 DEF Collecting
  <2>4. Collected(dfl, walk', o, vec', dfh_parent_stack'.head) BY <2>3
  <2>5. heap \subseteq {<<"stack">>} \cup Platform!Owned /\ Vector(vec, Size(dfl))
    BY <2>1 DEF Collecting
  <2> QED BY <2>2, <2>3, <2>4, <2>5 DEF Collecting
<1> QED BY <1>4, <1>5, <1>6 DEF ScanInv

LEMMA StackShape ==
  ASSUME ScanInv, scan \in {"count", "collect"}
  PROVE  /\ dfh_parent_stack = [head |-> dfh_parent_stack.head, top |-> dfh_parent_stack.top,
                                size |-> dfh_parent_stack.size]
         /\ dfh_parent_stack.size = DFH_PARENT_STACK_INCR_SIZE
         /\ dfh_parent_stack.top = Len(walk) /\ Len(walk) < DFH_PARENT_STACK_INCR_SIZE
         /\ \E o : IsWalk(dfl, walk, o)
         /\ ScanTypes
<1>1. /\ dfh_parent_stack = [head |-> dfh_parent_stack.head, top |-> dfh_parent_stack.top,
                             size |-> dfh_parent_stack.size]
      /\ ScanTypes
  BY DEF ScanInv, ScanTypes
<1>2. /\ dfh_parent_stack.size = DFH_PARENT_STACK_INCR_SIZE
      /\ dfh_parent_stack.top = Len(walk) /\ Len(walk) < DFH_PARENT_STACK_INCR_SIZE
  BY DEF ScanInv, StackInv
<1>3. \E o : IsWalk(dfl, walk, o)
  <2>1. CASE scan = "count" BY <2>1 DEF ScanInv, Counting
  <2>2. CASE scan = "collect" BY <2>2 DEF ScanInv, Collecting, Collected
  <2> QED BY <2>1, <2>2
<1> QED BY <1>1, <1>2, <1>3

LEMMA ParameterInv ==
  ASSUME ScanInv, Platform!Parameter
  PROVE  ScanInv'
<1> DEFINE n == Len(walk)
<1> DEFINE a == walk[n].dfh
<1> DEFINE b == walk[n].block
<1> DEFINE bs == Platform!BlocksOf(dfl.headers[a])
<1>1. /\ scan \in {"count", "collect"} /\ walk # <<>>
      /\ Platform!Frame.block \in 1 .. Len(Platform!Blocks(Platform!Frame.dfh))
      /\ dfl' = dfl /\ s_scanned_interface_count' = s_scanned_interface_count
      /\ s_interface_index' = s_interface_index /\ vec' = vec /\ heap' = heap
  BY DEF Platform!Parameter, Platform!Scanning
<1>2. /\ dfh_parent_stack = [head |-> dfh_parent_stack.head, top |-> dfh_parent_stack.top,
                             size |-> dfh_parent_stack.size]
      /\ dfh_parent_stack.size = DFH_PARENT_STACK_INCR_SIZE
      /\ dfh_parent_stack.top = n /\ n < DFH_PARENT_STACK_INCR_SIZE
      /\ ScanTypes
  BY <1>1, StackShape
<1>3. /\ dfl \in Hardware /\ walk \in Seq(Frames(dfl)) /\ n \in Nat \ {0}
      /\ a \in Addresses(dfl) /\ b \in Nat /\ Platform!Frame = walk[n]
      /\ Platform!Blocks(a) = bs
  BY <1>1, <1>2, CallInProgress
<1>4. b > 0 /\ b <= Len(bs) /\ Platform!Frame.dfh = a /\ Platform!Frame.block = b
      /\ Platform!Blocks(Platform!Frame.dfh)[Platform!Frame.block] = bs[b]
  BY <1>1, <1>3
<1>5. /\ b \in Platform!Links(dfl, a) <=> bs[b].param_id = Platform!BranchId
      /\ Platform!Target(dfl, a, b) = Platform!branch_of(a, bs[b])
  BY <1>3, <1>4, LinkOfBlock
<1>6. UpTo(dfl, walk, Platform!With(b + 1), n, [dfh |-> a, block |-> b + 1])
  BY <1>1, <1>3, BlockChanged DEF Platform!With
<1>7. CASE bs[b].param_id # Platform!BranchId
  <2>1. walk' = Platform!With(b + 1) /\ dfh_parent_stack' = dfh_parent_stack /\ scan' = scan
    BY <1>4, <1>7 DEF Platform!Parameter
  <2>2. UpTo(dfl, walk, walk', n, [dfh |-> a, block |-> b + 1]) BY <1>6, <2>1
  <2>3. walk' \in Seq(Frames(dfl)) /\ Len(walk') = n BY <2>2 DEF UpTo
  <2>4. b \notin Platform!Links(dfl, a) BY <1>5, <1>7
  <2>5. ASSUME NEW o, IsWalk(dfl, walk, o) PROVE IsWalk(dfl, walk', o)
    BY <1>1, <1>3, <1>4, <2>2, <2>4, <2>5, WalkPasses
  <2>6. ASSUME NEW o, Collected(dfl, walk, o, vec, dfh_parent_stack.head)
        PROVE  Collected(dfl, walk', o, vec, dfh_parent_stack.head)
    BY <1>1, <1>3, <1>4, <2>2, <2>4, <2>6, CollectPasses
  <2> HIDE DEF n, a, b, bs
  <2> QED BY <1>1, <1>2, <2>1, <2>3, <2>5, <2>6, CallsChanged
<1>8. CASE bs[b].param_id = Platform!BranchId
  <2> DEFINE c == Platform!Target(dfl, a, b)
  <2> DEFINE w1 == Platform!With(b + 1)
  <2>1. /\ walk' = Append(w1, Platform!Call(c))
        /\ dfh_parent_stack' = Platform!push(dfh_parent_stack, s_interface_index)
        /\ scan' = IF Platform!Overruns(dfh_parent_stack') THEN "overrun" ELSE scan
    BY <1>4, <1>5, <1>8 DEF Platform!Parameter
  <2>2. b \in Platform!Links(dfl, a) BY <1>5, <1>8
  <2>3. c \in Addresses(dfl) BY <1>3, <2>2, LinksInside
  <2>4. w1 \in Seq(Frames(dfl)) /\ Len(w1) = n BY <1>6 DEF UpTo
  <2>5. UpTo(dfl, w1, walk', n + 1, [dfh |-> c, block |-> 0]) BY <2>1, <2>3, <2>4, CallAdded
  <2>6. walk' \in Seq(Frames(dfl)) /\ Len(walk') = n + 1 BY <2>5 DEF UpTo
  <2> DEFINE hd == dfh_parent_stack.head
  <2> DEFINE hd2 == [i \in DOMAIN hd \cup {n + 1} |->
                       IF i = n + 1 THEN s_interface_index ELSE hd[i]]
  <2>8. dfh_parent_stack' = [head |-> hd2, top |-> n + 1, size |-> DFH_PARENT_STACK_INCR_SIZE]
    <3>0. DFH_PARENT_STACK_INCR_SIZE \in Nat BY PlatformAssumption
    <3>1. dfh_parent_stack.top # dfh_parent_stack.size BY <1>2, <1>3, <3>0
    <3>2. dfh_parent_stack' = PushedOn(dfh_parent_stack, s_interface_index)
      BY <1>2, <2>1, <3>0, <3>1, Pushed
    <3> HIDE DEF n
    <3> QED BY <1>2, <3>1, <3>2 DEF PushedOn
  <2>9. ASSUME NEW o, IsWalk(dfl, walk, o) PROVE IsWalk(dfl, walk', o)
    BY <1>1, <1>3, <1>4, <1>6, <2>2, <2>5, <2>9, WalkBranches
  <2>10. ASSUME NEW o, s_interface_index + 1 = Len(o), Collected(dfl, walk, o, vec, hd)
         PROVE  Collected(dfl, walk', o, vec, hd2)
    <3>1. IsWalk(dfl, walk, o) /\ ParentsOfCalls(dfl, walk, o, vec, hd) BY <2>10 DEF Collected
    <3>2. 1 .. n \subseteq DOMAIN hd BY <3>1 DEF ParentsOfCalls
    <3>3. 1 .. (n + 1) \subseteq DOMAIN hd2 BY <1>3, <3>2
    <3>4. s_interface_index \in Int BY <1>2 DEF ScanTypes
    <3>5. hd2[n + 1] = Len(o) - 1 BY <2>10, <3>4
    <3>6. \A k \in 1 .. n : hd2[k] = hd[k] BY <1>3, <3>2
    <3>7. n = Len(walk) /\ a = walk[n].dfh /\ b = walk[n].block /\ c = Platform!Target(dfl, a, b)
      OBVIOUS
    <3>8. UpTo(dfl, walk, w1, n, [dfh |-> a, block |-> b + 1]) BY <1>6
    <3> HIDE DEF hd, hd2, n, a, b, c, w1
    <3>9. walk # <<>> /\ dfl \in Hardware /\ b > 0 BY <1>1, <1>3, <1>4
    <3> QED BY <2>2, <2>5, <2>10, <3>3, <3>5, <3>6, <3>7, <3>8, <3>9, CollectBranches
  <2>11. /\ dfh_parent_stack' = [head |-> dfh_parent_stack'.head, top |-> dfh_parent_stack'.top,
                                 size |-> dfh_parent_stack'.size]
         /\ dfh_parent_stack'.size = DFH_PARENT_STACK_INCR_SIZE
         /\ dfh_parent_stack'.top = Len(walk') /\ dfh_parent_stack'.head = hd2
    <3> HIDE DEF hd2, n
    <3> QED BY <2>6, <2>8
  <2>12. Platform!Overruns(dfh_parent_stack') <=> n + 1 >= DFH_PARENT_STACK_INCR_SIZE
    BY <2>6, <2>11 DEF Platform!Overruns
  <2>13. CASE n + 1 < DFH_PARENT_STACK_INCR_SIZE
    <3>1. scan' = scan
      <4>1. DFH_PARENT_STACK_INCR_SIZE \in Nat BY PlatformAssumption
      <4>2. ~(n + 1 >= DFH_PARENT_STACK_INCR_SIZE) BY <1>3, <2>13, <4>1
      <4> QED BY <2>1, <2>12, <4>2
    <3> HIDE DEF n, a, b, bs, c, w1, hd2
    <3> QED BY <1>1, <2>6, <2>9, <2>10, <2>11, <2>13, <3>1, CallsChanged
  <2>14. CASE n + 1 >= DFH_PARENT_STACK_INCR_SIZE
    <3>1. scan' = "overrun" BY <2>1, <2>12, <2>14
    <3>2. dfh_parent_stack'.top \in Nat /\ dfh_parent_stack'.size \in Nat
      BY <1>3, <2>6, <2>11, PlatformAssumption
    <3>3. ScanTypes' BY <1>1, <1>2, <2>6, <2>11, <3>1, <3>2 DEF ScanTypes
    <3>4. StackInv' BY <2>6, <2>14, <3>1 DEF StackInv
    <3> QED BY <3>1, <3>3, <3>4 DEF ScanInv
  <2>15. n + 1 < DFH_PARENT_STACK_INCR_SIZE \/ n + 1 >= DFH_PARENT_STACK_INCR_SIZE
    BY <1>3, PlatformAssumption
  <2> QED BY <2>13, <2>14, <2>15
<1> QED BY <1>7, <1>8

\* The last call is replaced by another.
LEMMA CallReplaced ==
  ASSUME NEW h, NEW w \in Seq(Frames(h)), w # <<>>, NEW a \in Addresses(h),
         NEW w2, w2 = Append(Platform!Front(w), Platform!Call(a))
  PROVE  UpTo(h, w, w2, Len(w), [dfh |-> a, block |-> 0])
<1> DEFINE f == Platform!Front(w)
<1> DEFINE n == Len(w)
<1>1. /\ f \in Seq(Frames(h)) /\ Len(f) = n - 1
      /\ \A k \in 1 .. (n - 1) : f[k] = w[k]
  BY LastDropped
<1>2. n \in Nat \ {0} BY LastOfItself
<1> HIDE DEF f
<1>3. UpTo(h, f, w2, Len(f) + 1, [dfh |-> a, block |-> 0]) BY <1>1, CallAdded DEF f
<1> HIDE DEF n
<1>4. Len(f) + 1 = n BY <1>1, <1>2
<1>5. UpTo(h, f, w2, n, [dfh |-> a, block |-> 0]) BY <1>3, <1>4
<1> QED BY <1>1, <1>5 DEF UpTo, n

LEMMA NextInterfaceInv ==
  ASSUME ScanInv, Platform!NextInterface
  PROVE  ScanInv'
<1> DEFINE n == Len(walk)
<1> DEFINE a == walk[n].dfh
<1> DEFINE b == walk[n].block
<1> DEFINE bs == Platform!BlocksOf(dfl.headers[a])
<1> DEFINE hd == dfh_parent_stack.head
<1>1. /\ scan \in {"count", "collect"} /\ walk # <<>>
      /\ Platform!Frame.block > Len(Platform!Blocks(Platform!Frame.dfh))
      /\ dfl' = dfl /\ scan' = scan /\ s_scanned_interface_count' = s_scanned_interface_count
      /\ s_interface_index' = s_interface_index /\ vec' = vec /\ heap' = heap
  BY DEF Platform!NextInterface, Platform!Scanning
<1>2. /\ dfh_parent_stack = [head |-> hd, top |-> dfh_parent_stack.top,
                             size |-> dfh_parent_stack.size]
      /\ dfh_parent_stack.size = DFH_PARENT_STACK_INCR_SIZE
      /\ dfh_parent_stack.top = n /\ n < DFH_PARENT_STACK_INCR_SIZE
      /\ ScanTypes
  BY <1>1, StackShape
<1>3. /\ dfl \in Hardware /\ walk \in Seq(Frames(dfl)) /\ n \in Nat \ {0}
      /\ a \in Addresses(dfl) /\ b \in Nat /\ Platform!Frame = walk[n]
      /\ Platform!Blocks(a) = bs /\ Platform!Header(a) = dfl.headers[a]
  BY <1>1, <1>2, CallInProgress
<1>4. b > Len(bs) /\ Platform!Frame.dfh = a BY <1>1, <1>3
<1>5. b > 0
  <2>1. PICK S : bs \in Seq(S) BY <1>3, BlocksAreASequence
  <2>2. Len(bs) \in Nat BY <2>1
  <2> HIDE DEF b, bs
  <2> QED BY <1>3, <1>4, <2>2
<1>6. /\ \A i \in Platform!Links(dfl, a) : i < b
      /\ 0 \in Platform!Links(dfl, a) <=> ~dfl.headers[a].eol
      /\ Platform!Target(dfl, a, 0) = a + dfl.headers[a].next
  BY <1>3, <1>4, <1>5, LinkOfBlock
<1>7. CASE dfl.headers[a].eol
  <2>1. walk' = Platform!Front(walk) /\ dfh_parent_stack' = Platform!pop(dfh_parent_stack)
    BY <1>3, <1>4, <1>7 DEF Platform!NextInterface, Platform!is_eol
  <2>2. walk' \in Seq(Frames(dfl)) /\ Len(walk') = n - 1 BY <1>1, <1>3, <2>1, LastDropped
  <2>3. dfh_parent_stack' = [head |-> hd, top |-> n - 1, size |-> DFH_PARENT_STACK_INCR_SIZE]
    <3> HIDE DEF n, hd
    <3> QED BY <1>2, <2>1 DEF Platform!pop
  <2>4. 0 \notin Platform!Links(dfl, a) BY <1>6, <1>7
  <2>5. ASSUME NEW o, IsWalk(dfl, walk, o) PROVE IsWalk(dfl, walk', o)
    BY <1>1, <1>3, <1>5, <1>6, <2>1, <2>4, <2>5, WalkReturns
  <2>6. ASSUME NEW o, Collected(dfl, walk, o, vec, hd)
        PROVE  Collected(dfl, walk', o, vec, hd)
    BY <1>1, <1>3, <1>5, <1>6, <2>1, <2>4, <2>6, CollectReturns
  <2>7. /\ dfh_parent_stack' = [head |-> dfh_parent_stack'.head, top |-> dfh_parent_stack'.top,
                                size |-> dfh_parent_stack'.size]
        /\ dfh_parent_stack'.size = DFH_PARENT_STACK_INCR_SIZE
        /\ dfh_parent_stack'.top = Len(walk') /\ dfh_parent_stack'.head = hd
    <3> HIDE DEF hd, n
    <3> QED BY <2>2, <2>3
  <2>8. Len(walk') < DFH_PARENT_STACK_INCR_SIZE BY <1>2, <1>3, <2>2, PlatformAssumption
  <2> HIDE DEF n, a, b, bs
  <2> QED BY <1>1, <2>2, <2>5, <2>6, <2>7, <2>8, CallsChanged
<1>8. CASE ~dfl.headers[a].eol
  <2> DEFINE c == Platform!Target(dfl, a, 0)
  <2>1. /\ walk' = Append(Platform!Front(walk), Platform!Call(c))
        /\ dfh_parent_stack' = dfh_parent_stack
    <3>1. Platform!get_next_dfh_addr(a) = c BY <1>3, <1>6 DEF Platform!get_next_dfh_addr
    <3> HIDE DEF c
    <3> QED BY <1>3, <1>4, <1>8, <3>1 DEF Platform!NextInterface, Platform!is_eol
  <2>2. 0 \in Platform!Links(dfl, a) BY <1>6, <1>8
  <2>3. c \in Addresses(dfl) BY <1>3, <2>2, LinksInside
  <2>4. UpTo(dfl, walk, walk', n, [dfh |-> c, block |-> 0])
    BY <1>1, <1>3, <2>1, <2>3, CallReplaced
  <2>5. walk' \in Seq(Frames(dfl)) /\ Len(walk') = n BY <2>4 DEF UpTo
  <2>6. ASSUME NEW o, IsWalk(dfl, walk, o) PROVE IsWalk(dfl, walk', o)
    BY <1>1, <1>3, <1>5, <1>6, <2>2, <2>4, <2>6, WalkGoesOn
  <2>7. ASSUME NEW o, Collected(dfl, walk, o, vec, hd)
        PROVE  Collected(dfl, walk', o, vec, hd)
    BY <1>1, <1>3, <1>5, <1>6, <2>2, <2>4, <2>7, CollectGoesOn
  <2> HIDE DEF n, a, b, bs, c
  <2> QED BY <1>1, <1>2, <2>1, <2>5, <2>6, <2>7, CallsChanged
<1> QED BY <1>7, <1>8

LEMMA EndOfCountInv ==
  ASSUME ScanInv, Platform!EndOfCount
  PROVE  ScanInv'
<1>1. /\ scan = "count" /\ walk = <<>> /\ scan' = "collect"
      /\ vec' = [i \in 1 .. s_scanned_interface_count |-> Platform!NoInfo]
      /\ s_interface_index' = -1
      /\ dfh_parent_stack' = Platform!push(dfh_parent_stack, -1)
      /\ heap' = heap \cup {<<"vec">>} /\ walk' = <<Platform!Call(dfl.first)>>
      /\ dfl' = dfl /\ s_scanned_interface_count' = s_scanned_interface_count
  BY DEF Platform!EndOfCount, Platform!common_fpga_interface_info_vec_resize
<1>2. /\ dfh_parent_stack.size = DFH_PARENT_STACK_INCR_SIZE /\ dfh_parent_stack.top = 0
      /\ ScanTypes /\ dfl \in Hardware
  BY <1>1 DEF ScanInv, StackInv, ScanTypes
<1>3. /\ UpTo(dfl, <<>>, walk', 1, [dfh |-> dfl.first, block |-> 0])
      /\ walk' \in Seq(Frames(dfl)) /\ Len(walk') = 1
      /\ dfh_parent_stack' = [head |-> dfh_parent_stack'.head, top |-> 1,
                              size |-> DFH_PARENT_STACK_INCR_SIZE]
      /\ 1 \in DOMAIN dfh_parent_stack'.head /\ dfh_parent_stack'.head[1] = -1
  BY <1>1, <1>2, FirstCall
<1>4. /\ heap = {<<"stack">>} /\ Size(dfl) \in Nat
      /\ s_scanned_interface_count = Size(dfl)
  <2>1. PICK o \in Seq(Addresses(dfl)) :
          s_scanned_interface_count = Len(o) /\ IsWalk(dfl, <<>>, o)
    BY <1>1 DEF ScanInv, Counting
  <2>2. Visited(o) = Addresses(dfl) BY <1>2, <2>1, WalkEnds
  <2>3. \A i, j \in 1 .. Len(o) : o[i] = o[j] => i = j BY <2>1 DEF IsWalk, WalkTypes
  <2>4. heap = {<<"stack">>} BY <1>1 DEF ScanInv, Counting
  <2> QED BY <1>2, <2>1, <2>2, <2>3, <2>4, Counted
<1> DEFINE N == Size(dfl)
<1> HIDE DEF N
<1>5. /\ vec' = [i \in 1 .. N |-> vec'[i]] /\ N \in Nat
      /\ \A i \in 1 .. N : vec'[i] = Platform!NoInfo
  BY <1>1, <1>4 DEF N
<1>6. InfoFields(Platform!NoInfo) /\ Platform!NoInfo.parameters = <<>>
  BY DEF InfoFields, Platform!NoInfo
<1>7. Vector(vec', N) /\ Len(vec') = N /\ \A i \in 1 .. Len(vec') : vec'[i].parameters = <<>>
  <2>1. Len(vec') = N BY <1>5, LengthOf
  <2>2. Vector(vec', N) BY <1>5, <1>6 DEF Vector
  <2> QED BY <1>5, <1>6, <2>1, <2>2
<1>8. Collected(dfl, walk', <<>>, vec', dfh_parent_stack'.head)
  BY <1>2, <1>3, <1>7, CollectStarts
<1>9. Collecting'
  <2>1. <<>> \in Seq(Addresses(dfl)) /\ Len(<<>>) = 0 OBVIOUS
  <2>2. s_interface_index' + 1 = 0 BY <1>1
  <2>3. <<"vec">> \in (Platform!Owned)' BY DEF Platform!Owned
  <2>4. heap' \subseteq {<<"stack">>} \cup (Platform!Owned)' BY <1>1, <1>4, <2>3
  <2> QED BY <1>1, <1>7, <1>8, <2>1, <2>2, <2>4 DEF Collecting, N
<1> DEFINE hd == dfh_parent_stack'.head
<1>10. /\ dfh_parent_stack' = [head |-> dfh_parent_stack'.head, top |-> dfh_parent_stack'.top,
                               size |-> dfh_parent_stack'.size]
       /\ dfh_parent_stack'.top = 1 /\ dfh_parent_stack'.size = DFH_PARENT_STACK_INCR_SIZE
  <2>1. dfh_parent_stack' = [head |-> hd, top |-> 1, size |-> DFH_PARENT_STACK_INCR_SIZE]
    BY <1>3
  <2> HIDE DEF hd
  <2> QED BY <2>1
<1>11. DFH_PARENT_STACK_INCR_SIZE \in Nat \ {0, 1} /\ s_scanned_interface_count \in Nat
  BY <1>2, PlatformAssumption DEF ScanTypes
<1>12. ScanTypes' BY <1>1, <1>2, <1>3, <1>5, <1>7, <1>10, <1>11 DEF ScanTypes
<1>13. StackInv' BY <1>1, <1>3, <1>10, <1>11 DEF StackInv
<1> QED BY <1>1, <1>9, <1>12, <1>13 DEF ScanInv

LEMMA EndOfCollectInv ==
  ASSUME ScanInv, Platform!EndOfCollect
  PROVE  ScanInv'
<1>1. /\ scan = "collect" /\ walk = <<>> /\ scan' = "ready"
      /\ dfh_parent_stack' = Platform!Freed(dfh_parent_stack) /\ heap' = heap \ {<<"stack">>}
      /\ dfl' = dfl /\ s_scanned_interface_count' = s_scanned_interface_count
      /\ s_interface_index' = s_interface_index /\ walk' = walk /\ vec' = vec
  BY DEF Platform!EndOfCollect
<1>2. ScanTypes /\ Collecting /\ dfh_parent_stack.top = 0
  BY <1>1 DEF ScanInv, StackInv
<1>3. dfh_parent_stack' = [head |-> <<>>, top |-> 0, size |-> 0]
  <2> DEFINE hd == dfh_parent_stack.head
  <2> DEFINE sz == dfh_parent_stack.size
  <2>1. dfh_parent_stack = [head |-> hd, top |-> 0, size |-> sz] BY <1>2 DEF ScanTypes
  <2> HIDE DEF hd, sz
  <2> QED BY <1>1, <2>1 DEF Platform!Freed
<1>4. AllDescribed'
  <2>1. PICK o \in Seq(Addresses(dfl)) : Collected(dfl, <<>>, o, vec, dfh_parent_stack.head)
    BY <1>1, <1>2 DEF Collecting
  <2>2. IsWalk(dfl, <<>>, o) /\ Recorded(dfl, o, vec) BY <2>1 DEF Collected
  <2>3. (Platform!Owned)' = Platform!Owned BY <1>1 DEF Platform!Owned
  <2>4. heap \subseteq {<<"stack">>} \cup Platform!Owned /\ Vector(vec, Size(dfl))
    BY <1>2 DEF Collecting
  <2>5. heap' \subseteq (Platform!Owned)' BY <1>1, <2>3, <2>4
  <2> QED BY <1>1, <2>2, <2>4, <2>5 DEF AllDescribed
<1>5. ScanTypes' BY <1>1, <1>2, <1>3 DEF ScanTypes
<1>6. StackInv' BY <1>1, <1>3 DEF StackInv
<1> QED BY <1>1, <1>4, <1>5, <1>6 DEF ScanInv

LEMMA OutOfMemoryInv ==
  ASSUME ScanInv, Platform!OutOfMemory
  PROVE  ScanInv'
<1>1. /\ scan' = "exited" /\ dfl' = dfl /\ vec' = vec
      /\ s_scanned_interface_count' = s_scanned_interface_count
      /\ s_interface_index' = s_interface_index
      /\ dfh_parent_stack' = dfh_parent_stack /\ walk' = walk
  BY DEF Platform!OutOfMemory, Platform!fpga_throw_runtime_exception, Platform!DefaultHandler,
         Platform!walkVars
<1>2. ScanTypes BY DEF ScanInv
<1>3. ScanTypes' BY <1>1, <1>2 DEF ScanTypes
<1>4. StackInv' BY <1>1 DEF StackInv
<1> QED BY <1>1, <1>3, <1>4 DEF ScanInv

LEMMA CleanupInv ==
  ASSUME ScanInv, Platform!fpga_platform_cleanup
  PROVE  ScanInv'
<1>1. /\ scan = "ready" /\ scan' = "idle" /\ dfl' = dfl /\ vec' = <<>>
      /\ heap' = heap \ Platform!Owned
      /\ s_scanned_interface_count' = s_scanned_interface_count
      /\ s_interface_index' = s_interface_index
      /\ dfh_parent_stack' = dfh_parent_stack /\ walk' = walk
  BY DEF Platform!fpga_platform_cleanup, Platform!walkVars
<1>2. ScanTypes /\ StackInv /\ heap \subseteq Platform!Owned BY <1>1 DEF ScanInv, AllDescribed
<1>3. heap' = {} BY <1>1, <1>2
<1>4. \E n \in Nat : Vector(vec', n)
  <2>1. Vector(vec', 0) BY <1>1 DEF Vector
  <2> QED BY <2>1
<1>5. ScanTypes' BY <1>1, <1>2, <1>4 DEF ScanTypes
<1>6. StackInv' BY <1>1, <1>2 DEF StackInv
<1> QED BY <1>1, <1>3, <1>5, <1>6 DEF ScanInv

\* Opening and closing change a flag of one description.
LEMMA SetInv ==
  ASSUME ScanInv, NEW index \in 0 .. (Len(vec) - 1), NEW value,
         NEW field \in {"is_mmio_opened", "is_interrupt_opened"},
         Platform!Set(index, field, value)
  PROVE  ScanInv'
<1> DEFINE N == Size(dfl)
<1> DEFINE k == index + 1
<1> DEFINE info == [vec[k] EXCEPT ![field] = value]
<1>1. /\ scan = "ready" /\ scan' = scan /\ dfl' = dfl /\ heap' = heap
      /\ vec' = [vec EXCEPT ![k] = info]
      /\ s_scanned_interface_count' = s_scanned_interface_count
      /\ s_interface_index' = s_interface_index
      /\ dfh_parent_stack' = dfh_parent_stack /\ walk' = walk
  BY DEF Platform!Set, Platform!walkVars
<1>2. ScanTypes /\ StackInv /\ AllDescribed /\ dfl \in Hardware
  BY <1>1 DEF ScanInv, ScanTypes
<1>3. heap \subseteq OwnedBy(vec) /\ Vector(vec, N)
  BY <1>2 DEF AllDescribed, Platform!Owned, OwnedBy
<1>4. PICK o \in Seq(Addresses(dfl)) : IsWalk(dfl, <<>>, o) /\ Recorded(dfl, o, vec)
  BY <1>2 DEF AllDescribed
<1>5. N \in Nat /\ Len(o) <= N
  <2>1. \A i, j \in 1 .. Len(o) : o[i] = o[j] => i = j BY <1>4 DEF IsWalk, WalkTypes
  <2> QED BY <1>2, <2>1, Counted
<1>6. Len(vec) = N
  <2>1. vec = [i \in 1 .. N |-> vec[i]] BY <1>3 DEF Vector
  <2> HIDE DEF N
  <2> QED BY <1>5, <2>1, LengthOf
<1>7. k \in 1 .. N BY <1>6, <1>5
<1>8. InfoFields(vec[k]) BY <1>3, <1>7 DEF Vector
<1> HIDE DEF k, N
<1>9. /\ InfoFields(info) /\ info.guid = vec[k].guid
      /\ info.base_address = vec[k].base_address /\ info.parameters = vec[k].parameters
      /\ info.dfh_parent = vec[k].dfh_parent
  <2>1. CASE field = "is_mmio_opened" BY <1>8, <2>1 DEF InfoFields
  <2>2. CASE field = "is_interrupt_opened" BY <1>8, <2>2 DEF InfoFields
  <2> QED BY <2>1, <2>2
<1>10. Replaces(vec', vec, k, info) BY <1>1 DEF Replaces
<1> HIDE DEF info
<1>11. /\ Vector(vec', N) /\ Len(vec') = N /\ vec'[k] = info
       /\ \A i \in 1 .. N : i # k => vec'[i] = vec[i]
  BY <1>3, <1>5, <1>7, <1>9, <1>10, VectorReplaced
<1>12. \A i \in 1 .. N :
         /\ vec'[i].guid = vec[i].guid /\ vec'[i].base_address = vec[i].base_address
         /\ vec'[i].parameters = vec[i].parameters /\ vec'[i].dfh_parent = vec[i].dfh_parent
  <2> SUFFICES ASSUME NEW i \in 1 .. N
               PROVE  /\ vec'[i].guid = vec[i].guid /\ vec'[i].base_address = vec[i].base_address
                      /\ vec'[i].parameters = vec[i].parameters
                      /\ vec'[i].dfh_parent = vec[i].dfh_parent
    OBVIOUS
  <2>1. CASE i = k BY <1>9, <1>11, <2>1
  <2>2. CASE i # k BY <1>11, <2>2
  <2> QED BY <2>1, <2>2
<1>13. Recorded(dfl, o, vec') BY <1>4, <1>5, <1>6, <1>11, <1>12, RecordedKept
<1>14. \A e : e \in OwnedBy(vec) => e \in OwnedBy(vec')
  <2> SUFFICES ASSUME NEW e \in OwnedBy(vec) PROVE e \in OwnedBy(vec') OBVIOUS
  <2>1. CASE e = <<"vec">> BY <2>1, OwnedAt
  <2>2. ASSUME NEW i \in 1 .. Len(vec), e = <<"parameters", i>> PROVE e \in OwnedBy(vec')
    BY <1>6, <1>11, <2>2, OwnedAt
  <2>3. ASSUME NEW i \in 1 .. Len(vec), NEW j \in 1 .. Len(vec[i].parameters),
               e = <<"data", i, j>>
        PROVE  e \in OwnedBy(vec')
    <3>1. i \in 1 .. Len(vec') /\ j \in 1 .. Len(vec'[i].parameters)
      BY <1>6, <1>11, <1>12
    <3> QED BY <2>3, <3>1, OwnedAt
  <2> QED BY <2>1, <2>2, <2>3, OwnedAt
<1>15. heap' \subseteq (Platform!Owned)'
  <2>1. (Platform!Owned)' = OwnedBy(vec') BY DEF Platform!Owned, OwnedBy
  <2> QED BY <1>1, <1>3, <1>14, <2>1
<1>16. AllDescribed' BY <1>1, <1>4, <1>11, <1>13, <1>15 DEF AllDescribed, N
<1>17. ScanTypes'
  <2>1. \E n \in Nat : Vector(vec', n) BY <1>5, <1>11
  <2> QED BY <1>1, <1>2, <2>1 DEF ScanTypes
<1>18. StackInv' BY <1>1, <1>2 DEF StackInv
<1> QED BY <1>1, <1>16, <1>17, <1>18 DEF ScanInv

LEMMA ScanStep == ScanInv /\ [Platform!Next]_platform => ScanInv'
<1> SUFFICES ASSUME ScanInv, [Platform!Next]_platform PROVE ScanInv' OBVIOUS
<1>1. CASE Platform!fpga_platform_init BY <1>1, ScanStartInv
<1>2. CASE Platform!Interface
  <2>1. scan \in {"count", "collect"} BY <1>2 DEF Platform!Interface, Platform!Scanning
  <2> QED BY <1>2, <2>1, CountInterface, DescribeInterface
<1>3. CASE Platform!Parameter BY <1>3, ParameterInv
<1>4. CASE Platform!NextInterface BY <1>4, NextInterfaceInv
<1>5. CASE Platform!EndOfCount BY <1>5, EndOfCountInv
<1>6. CASE Platform!EndOfCollect BY <1>6, EndOfCollectInv
<1>7. CASE Platform!OutOfMemory BY <1>7, OutOfMemoryInv
<1>8. CASE Platform!fpga_platform_cleanup BY <1>8, CleanupInv
<1>9. ASSUME NEW index \in 0 .. (Len(vec) - 1),
             \/ Platform!fpga_open(index) \/ Platform!fpga_close(index)
             \/ Platform!fpga_interrupt_open(index) \/ Platform!fpga_interrupt_close(index)
      PROVE  ScanInv'
  <2>1. \E value : \E field \in {"is_mmio_opened", "is_interrupt_opened"} :
          Platform!Set(index, field, value)
    BY <1>9 DEF Platform!fpga_open, Platform!fpga_close, Platform!fpga_interrupt_open,
                Platform!fpga_interrupt_close
  <2> QED BY <2>1, SetInv
<1>10. CASE platform' = platform
  <2>1. /\ dfl' = dfl /\ scan' = scan /\ vec' = vec /\ heap' = heap
        /\ s_scanned_interface_count' = s_scanned_interface_count
        /\ s_interface_index' = s_interface_index
        /\ dfh_parent_stack' = dfh_parent_stack /\ walk' = walk
    BY <1>10 DEF platform
  <2>2. (Platform!Owned)' = Platform!Owned BY <2>1 DEF Platform!Owned
  <2>3. ScanTypes' /\ StackInv' BY <2>1 DEF ScanInv, ScanTypes, StackInv
  <2>4. Counting => Counting' BY <2>1 DEF Counting
  <2>5. Collecting => Collecting' BY <2>1, <2>2 DEF Collecting
  <2>6. AllDescribed => AllDescribed' BY <2>1, <2>2 DEF AllDescribed
  <2> QED BY <2>1, <2>3, <2>4, <2>5, <2>6 DEF ScanInv
<1> QED BY <1>1, <1>2, <1>3, <1>4, <1>5, <1>6, <1>7, <1>8, <1>9, <1>10 DEF Platform!Next

-----------------------------------------------------------------------------
(* What a scan has found *)

\* The description that bears a header's name is that of the header.
LEMMA InfoOfIs ==
  ASSUME dfl \in Hardware, NEW o, o \in Seq(Addresses(dfl)), Visited(o) = Addresses(dfl),
         Len(vec) = Len(o), \A i \in 1 .. Len(o) : vec[i].guid = dfl.headers[o[i]].guid,
         NEW a \in Addresses(dfl)
  PROVE  Platform!InfoOf(a) \in 1 .. Len(o) /\ o[Platform!InfoOf(a)] = a
<1>1. \E i \in 1 .. Len(o) : o[i] = a BY DEF Visited
<1>2. \E i \in 1 .. Len(o) : vec[i].guid = dfl.headers[a].guid BY <1>1
<1>3. Platform!InfoOf(a) = CHOOSE i \in 1 .. Len(o) : vec[i].guid = dfl.headers[a].guid
  BY DEF Platform!InfoOf, Platform!Header
<1> DEFINE k == Platform!InfoOf(a)
<1>4. k \in 1 .. Len(o) /\ vec[k].guid = dfl.headers[a].guid BY <1>2, <1>3, Zenon
<1> HIDE DEF k
<1>5. o[k] \in Addresses(dfl) /\ dfl.headers[o[k]].guid = dfl.headers[a].guid BY <1>4
<1>6. o[k] = a BY <1>5, NamesApart
<1> QED BY <1>4, <1>6 DEF k

LEMMA ReadyScan ==
  ASSUME ScanInv, scan = "ready"
  PROVE  \E o \in Seq(Addresses(dfl)) :
           /\ Visited(o) = Addresses(dfl) /\ Recorded(dfl, o, vec)
           /\ Len(vec) = Len(o) /\ Len(o) \in Nat /\ Len(o) = Size(dfl) /\ dfl \in Hardware
<1>1. AllDescribed /\ dfl \in Hardware BY DEF ScanInv, ScanTypes
<1>2. PICK o \in Seq(Addresses(dfl)) : IsWalk(dfl, <<>>, o) /\ Recorded(dfl, o, vec)
  BY <1>1 DEF AllDescribed
<1>3. Visited(o) = Addresses(dfl) BY <1>1, <1>2, WalkEnds
<1>4. \A i, j \in 1 .. Len(o) : o[i] = o[j] => i = j BY <1>2 DEF IsWalk, WalkTypes
<1>5. Len(o) = Size(dfl) /\ Size(dfl) \in Nat BY <1>1, <1>3, <1>4, Counted
<1>6. Len(vec) = Size(dfl)
  <2>1. vec = [i \in 1 .. Size(dfl) |-> vec[i]] BY <1>1 DEF AllDescribed, Vector
  <2> QED BY <1>5, <2>1, LengthOf
<1> QED BY <1>1, <1>2, <1>3, <1>5, <1>6

LEMMA FeaturesAreFound == ScanInv => Platform!FeaturesFound
<1> SUFFICES ASSUME ScanInv, scan = "ready" PROVE Platform!FeaturesFound
  BY DEF Platform!FeaturesFound
<1>1. PICK o \in Seq(Addresses(dfl)) :
        /\ Visited(o) = Addresses(dfl) /\ Recorded(dfl, o, vec)
        /\ Len(vec) = Len(o) /\ Len(o) \in Nat /\ Len(o) = Size(dfl) /\ dfl \in Hardware
  BY ReadyScan
<1> DEFINE at(a) == Platform!InfoOf(a)
<1> DEFINE parent(a) == vec[at(a)].dfh_parent
<1>0. \A a : Platform!parent(a) = parent(a) BY DEF Platform!parent
<1>2. /\ \A i \in 1 .. Len(o) :
           /\ o[i] \in Addresses(dfl) /\ vec[i].guid = dfl.headers[o[i]].guid
           /\ vec[i].base_address =
                dfl.headers[o[i]].csr + (IF dfl.headers[o[i]].csr_absolute THEN 0 ELSE o[i])
           /\ \A l \in DOMAIN Platform!BlocksOf(dfl.headers[o[i]]) :
                vec[i].parameters[l].data = Platform!BlocksOf(dfl.headers[o[i]])[l].data
           /\ HasParent(dfl, o, vec, o[i], vec[i].dfh_parent)
           /\ JustBefore(dfl, o[i], vec[i].dfh_parent, i)
      /\ IsAfter(dfl, o)
  BY <1>1 DEF Recorded, Describes, Parents
<1>3. \A a \in Addresses(dfl) : at(a) \in 1 .. Len(o) /\ o[at(a)] = a
  BY <1>1, <1>2, InfoOfIs
<1>4. Len(vec) = Platform!Cardinality(DOMAIN dfl.headers)
  BY <1>1 DEF Size, Addresses, Cardinality, Platform!Cardinality
<1> HIDE DEF at
<1>5. {vec[i].guid : i \in 1 .. Len(vec)} = {Platform!Header(a).guid : a \in Addresses(dfl)}
  <2>1. \A i \in 1 .. Len(vec) : \E a \in Addresses(dfl) : vec[i].guid = dfl.headers[a].guid
    BY <1>1, <1>2
  <2>2. \A a \in Addresses(dfl) : \E i \in 1 .. Len(vec) : vec[i].guid = dfl.headers[a].guid
    <3> SUFFICES ASSUME NEW a \in Addresses(dfl)
                 PROVE  \E i \in 1 .. Len(vec) : vec[i].guid = dfl.headers[a].guid
      OBVIOUS
    <3>1. at(a) \in 1 .. Len(vec) /\ vec[at(a)].guid = dfl.headers[a].guid BY <1>1, <1>2, <1>3
    <3> QED BY <3>1
  <2>3. \A a : Platform!Header(a) = dfl.headers[a] BY DEF Platform!Header
  <2> DEFINE L == {vec[i].guid : i \in 1 .. Len(vec)}
  <2> DEFINE R == {Platform!Header(a).guid : a \in Addresses(dfl)}
  <2>4. ASSUME NEW g \in L PROVE g \in R BY <2>1, <2>3
  <2>5. ASSUME NEW g \in R PROVE g \in L BY <2>2, <2>3
  <2> HIDE DEF L, R
  <2>6. L = R BY <2>4, <2>5
  <2> QED BY <2>6 DEF L, R
<1>6. parent(dfl.first) = -1
  <2>1. dfl.first \in Addresses(dfl) BY <1>1, LinksInside
  <2> QED BY <1>2, <1>3, <2>1 DEF HasParent
<1>7. ASSUME NEW a \in Addresses(dfl)
      PROVE  /\ vec[at(a)].base_address = Platform!get_base_address(a)
             /\ \A i \in DOMAIN Platform!Blocks(a) :
                  vec[at(a)].parameters[i].data = Platform!Blocks(a)[i].data
  <2>1. vec[at(a)].base_address = Platform!get_base_address(a)
    BY <1>2, <1>3 DEF Platform!get_base_address, Platform!Header
  <2>2. \A i \in DOMAIN Platform!Blocks(a) :
          vec[at(a)].parameters[i].data = Platform!Blocks(a)[i].data
    BY <1>2, <1>3 DEF Platform!Header, Platform!Blocks
  <2> QED BY <2>1, <2>2
<1>8. ASSUME NEW a \in Addresses(dfl), NEW l \in Platform!Links(dfl, a),
             NEW b \in Addresses(dfl), Platform!Target(dfl, a, l) = b
      PROVE  /\ IF l = 0 THEN parent(b) = parent(a)
                ELSE IsFirstBranch(dfl, a, l) => parent(b) = at(a) - 1
             /\ l # 0 => parent(b) = at(b) - 2
             /\ at(a) < at(b)
  <2>1. at(a) \in 1 .. Len(o) /\ o[at(a)] = a /\ at(b) \in 1 .. Len(o) /\ o[at(b)] = b
    BY <1>3
  <2>2. IF l = 0 THEN parent(b) = parent(a)
        ELSE IsFirstBranch(dfl, a, l) => parent(b) = at(a) - 1
    <3>1. HasParent(dfl, o, vec, o[at(b)], parent(b)) BY <1>2, <2>1
    <3> QED BY <1>8, <2>1, <3>1 DEF HasParent
  <2>3. at(a) < at(b) BY <1>2, <1>8, <2>1 DEF IsAfter
  <2>4. l # 0 => parent(b) = at(b) - 2
    <3>1. JustBefore(dfl, o[at(b)], parent(b), at(b)) BY <1>2, <2>1
    <3> QED BY <1>8, <2>1, <3>1 DEF JustBefore, LedByBranch
  <2> QED BY <2>2, <2>3, <2>4
<1>9. ASSUME NEW a \in Addresses(dfl), NEW b \in Addresses(dfl), Platform!Follows(a, b)
      PROVE  parent(b) = parent(a) /\ at(a) < at(b)
  <2>1. 0 \in Platform!Links(dfl, a) /\ Platform!Target(dfl, a, 0) = b
    <3>1. ~dfl.headers[a].eol /\ b = a + dfl.headers[a].next
      BY <1>9 DEF Platform!Follows, Platform!is_eol, Platform!get_next_dfh_addr, Platform!Header
    <3>2. 1 \in Nat /\ 1 > 0 OBVIOUS
    <3> QED BY <1>1, <3>1, <3>2, LinkOfBlock
  <2> QED BY <1>8, <2>1
<1>10. ASSUME NEW a \in Addresses(dfl), NEW b \in Addresses(dfl), NEW l,
              Platform!Branches(a, l, b)
       PROVE  /\ parent(b) = at(b) - 2
              /\ (\A j \in 1 .. (l - 1) : ~Platform!IsBranch(a, j)) => parent(b) = at(a) - 1
  <2> DEFINE bs == Platform!BlocksOf(dfl.headers[a])
  <2>1. /\ l \in DOMAIN bs
        /\ bs[l].param_id = Platform!BranchId /\ Platform!branch_of(a, bs[l]) = b
    BY <1>10 DEF Platform!Branches, Platform!IsBranch, Platform!Blocks, Platform!Header
  <2>2. PICK S : bs \in Seq(S) BY <1>1, BlocksAreASequence
  <2>3. l \in Nat /\ l > 0 /\ l <= Len(bs) BY <2>1, <2>2
  <2>4. l \in Platform!Links(dfl, a) /\ Platform!Target(dfl, a, l) = b
    BY <1>1, <2>1, <2>3, LinkOfBlock
  <2>5. ASSUME \A j \in 1 .. (l - 1) : ~Platform!IsBranch(a, j)
        PROVE  IsFirstBranch(dfl, a, l)
    <3> SUFFICES ASSUME NEW j \in Platform!Links(dfl, a) \ {0}, j < l PROVE FALSE
      BY DEF IsFirstBranch
    <3>1. j \in Nat /\ j > 0 BY <1>1, LinksInside
    <3>2. j \in 1 .. (l - 1) /\ j <= Len(bs) /\ j \in DOMAIN bs BY <2>2, <2>3, <3>1
    <3>3. bs[j].param_id = Platform!BranchId BY <1>1, <3>1, <3>2, LinkOfBlock
    <3>4. Platform!IsBranch(a, j)
      BY <3>2, <3>3 DEF Platform!IsBranch, Platform!Blocks, Platform!Header
    <3> QED BY <2>5, <3>2, <3>4
  <2> QED BY <1>8, <2>3, <2>4, <2>5
<1> QED BY <1>0, <1>4, <1>5, <1>6, <1>7, <1>9, <1>10 DEF Platform!FeaturesFound, Addresses, at

LEMMA WalkStaysSafe == ScanInv => Platform!WalkIsSafe
<1> SUFFICES ASSUME ScanInv PROVE Platform!WalkIsSafe OBVIOUS
<1>1. DFH_PARENT_STACK_INCR_SIZE \in Nat /\ dfl \in Hardware
  BY PlatformAssumption DEF ScanInv, ScanTypes
<1>2. ASSUME scan \in {"count", "collect"}, walk # <<>>
      PROVE  dfh_parent_stack.top \in 1 .. (dfh_parent_stack.size - 1)
  <2>1. /\ dfh_parent_stack.size = DFH_PARENT_STACK_INCR_SIZE
        /\ dfh_parent_stack.top = Len(walk) /\ walk \in Seq(Frames(dfl))
        /\ Len(walk) < DFH_PARENT_STACK_INCR_SIZE
    BY <1>2 DEF ScanInv, StackInv, ScanTypes
  <2>2. Len(walk) \in Nat \ {0} BY <1>2, <2>1, LastOfItself
  <2> QED BY <1>1, <2>1, <2>2
<1>3. ASSUME scan = "collect" PROVE s_interface_index < Len(vec)
  <2>1. Vector(vec, Size(dfl)) BY <1>3 DEF ScanInv, Collecting
  <2>2. PICK o \in Seq(Addresses(dfl)) : s_interface_index + 1 = Len(o) /\ IsWalk(dfl, walk, o)
    BY <1>3 DEF ScanInv, Collecting, Collected
  <2>3. \A i, j \in 1 .. Len(o) : o[i] = o[j] => i = j BY <2>2 DEF IsWalk, WalkTypes
  <2>4. Size(dfl) \in Nat /\ Len(o) <= Size(dfl) BY <1>1, <2>3, Counted
  <2>5. Len(vec) = Size(dfl)
    <3>1. vec = [i \in 1 .. Size(dfl) |-> vec[i]] BY <2>1 DEF Vector
    <3> QED BY <2>4, <3>1, LengthOf
  <2>6. s_interface_index \in Int BY DEF ScanInv, ScanTypes
  <2> QED BY <2>2, <2>4, <2>5, <2>6
<1>4. scan \in {"idle", "ready"} => dfh_parent_stack.top = 0 BY DEF ScanInv, StackInv
<1>5. scan = "idle" => heap = {} BY DEF ScanInv
<1>6. scan = "overrun" => Len(walk) >= DFH_PARENT_STACK_INCR_SIZE BY DEF ScanInv, StackInv
<1> QED BY <1>2, <1>3, <1>4, <1>5, <1>6 DEF Platform!WalkIsSafe, Platform!Scanning

LEMMA ScanSoundness == ScanInv => Platform!ScanIsSound
BY FeaturesAreFound, WalkStaysSafe DEF Platform!ScanIsSound

-----------------------------------------------------------------------------
(* The file descriptors *)

Entry == [dev : Devices \cup Filesystems \cup {None}, fd_flags : SUBSET Flags]

\* A free descriptor is Unused, and the standard streams are not free.
FreeIsUnused ==
  /\ \A f \in Fds : alt_fd_list[f].dev = None => alt_fd_list[f].fd_flags = {}
  /\ \A f \in Stdio : alt_fd_list[f].dev # None

\* Once a device is open, alt_max_fd is beyond the standard streams.
DeviceFlag ==
  \A f \in Fds : "DEV" \in alt_fd_list[f].fd_flags =>
                    alt_fd_list[f].dev \in Devices /\ alt_max_fd >= 3

LockedIsDevice == \A f \in Fds : Locked(f) => "DEV" \in alt_fd_list[f].fd_flags

\* The holder of a lock is the lowest descriptor of its device.
LockIsLowest ==
  \A f, g \in Fds : Locked(f) /\ SameDevice(f, g) /\ f # g => f < g

\* What is true of the pool whatever the phase.
PoolInv ==
  /\ alt_fd_list \in [Fds -> Entry] /\ alt_max_fd \in Fds \cup {-1}
  /\ FreeIsUnused /\ HighWaterMark /\ DeviceFlag /\ LockedIsDevice /\ LockIsLowest

\* The standard streams that have been redirected in a phase.
Redirected(fd) ==
  \/ fd = 1 /\ phase \in {"stdin", "stderr", "main"}
  \/ fd = 0 /\ phase \in {"stderr", "main"}
  \/ fd = 2 /\ phase = "main"

Connected(fd) ==
  /\ alt_fd_list[fd].dev = Uart /\ "DEV" \in alt_fd_list[fd].fd_flags
  /\ IF fd = 0 THEN CanRead(0) ELSE CanWrite(fd)

StdioInv ==
  /\ registered \subseteq Devices \cup Filesystems
  /\ phase \in {"boot", "stdout", "stdin", "stderr", "main"}
  /\ phase # "boot" => Uart \in registered
  /\ phase # "main" => held = {} /\ \A f \in Fds : ~Locked(f)
  /\ \A fd \in Stdio : Redirected(fd) => Connected(fd)

LentInv == held \subseteq Fds /\ NothingLeaks

\* The inductive invariant.
IInv == PoolInv /\ StdioInv /\ LentInv /\ LocksAreReleasable

-----------------------------------------------------------------------------

LEMMA FdsAreInt == \A n \in Fds \cup {-1} : n \in Int
BY FdAssumption DEF Fds

LEMMA PoolFacts ==
  /\ Stdio \subseteq Fds /\ 3 \in Fds /\ Fds \subseteq Int
  /\ Uart \in Devices /\ NullDev \in Devices /\ NullDev # Uart
  /\ \A d \in Devices \cup Filesystems : d # None
  /\ \A f \in Fds : f > 2 <=> f \in Fds \ Stdio
  /\ Unused \in Entry /\ Unused.dev = None /\ Unused.fd_flags = {}
BY FdAssumption DEF Fds, Stdio, Devices, Unused, Entry

\* The initial pool.
LEMMA InitInv == Init => IInv
<1> SUFFICES ASSUME Init PROVE IInv OBVIOUS
<1> USE PoolFacts
<1>1. /\ alt_fd_list \in [Fds -> Entry]
      /\ \A f \in Fds : alt_fd_list[f].fd_flags = {}
      /\ \A f \in Stdio : alt_fd_list[f].dev = NullDev
      /\ \A f \in Fds \ Stdio : alt_fd_list[f].dev = None
  BY DEF Init, Unused, Entry
<1>2. alt_max_fd = -1 /\ registered = {NullDev} /\ phase = "boot" /\ held = {}
  BY DEF Init
<1>3. PoolInv
  BY <1>1, <1>2 DEF PoolInv, FreeIsUnused, HighWaterMark, DeviceFlag, LockedIsDevice,
     LockIsLowest, Locked
<1>4. StdioInv
  BY <1>1, <1>2 DEF StdioInv, Redirected, Locked, Stdio
<1>5. LentInv /\ LocksAreReleasable
  BY <1>1, <1>2 DEF LentInv, NothingLeaks, LocksAreReleasable, Locked
<1> QED BY <1>3, <1>4, <1>5 DEF IInv

\* The one way the pool changes: descriptor f becomes e and alt_max_fd does not fall.
LEMMA PoolUpdate ==
  ASSUME PoolInv, NEW f \in Fds, NEW e \in Entry,
         alt_fd_list' = [alt_fd_list EXCEPT ![f] = e],
         alt_max_fd' \in Fds \cup {-1}, alt_max_fd' >= alt_max_fd,
         e.dev = None => e.fd_flags = {} /\ f > 2,
         e.dev # None /\ f > 2 => f <= alt_max_fd',
         "DEV" \in e.fd_flags => e.dev \in Devices /\ alt_max_fd' >= 3,
         "EXCL" \in e.fd_flags => "DEV" \in e.fd_flags,
         "EXCL" \in e.fd_flags =>
            \A g \in Fds : alt_fd_list[g].dev = e.dev /\ g # f => f < g,
         \A g \in Fds : Locked(g) /\ alt_fd_list[g].dev = e.dev /\ g # f => g < f
  PROVE  PoolInv'
<1> USE PoolFacts
<1>1. /\ alt_fd_list' \in [Fds -> Entry]
      /\ alt_fd_list'[f] = e
      /\ \A g \in Fds : g # f => alt_fd_list'[g] = alt_fd_list[g]
  BY DEF PoolInv
<1>2. FreeIsUnused'
  BY <1>1 DEF PoolInv, FreeIsUnused
<1>3. HighWaterMark'
  <2> SUFFICES ASSUME NEW g \in Fds \ Stdio, alt_fd_list'[g].dev # None
               PROVE  g <= alt_max_fd'
    BY DEF HighWaterMark
  <2>1. CASE g = f BY <2>1, <1>1
  <2>2. CASE g # f
    <3>1. g <= alt_max_fd BY <2>2, <1>1 DEF PoolInv, HighWaterMark
    <3>2. g \in Int /\ alt_max_fd \in Int /\ alt_max_fd' \in Int
      <4>1. g \in Fds /\ alt_max_fd \in Fds \cup {-1} BY Zenon DEF PoolInv
      <4> QED BY <4>1, FdsAreInt, Zenon
    <3> QED BY <3>1, <3>2
  <2> QED BY <2>1, <2>2
<1>4. DeviceFlag'
  <2> SUFFICES ASSUME NEW g \in Fds, "DEV" \in alt_fd_list'[g].fd_flags
               PROVE  alt_fd_list'[g].dev \in Devices /\ alt_max_fd' >= 3
    BY DEF DeviceFlag, Devices
  <2>1. CASE g = f BY <2>1, <1>1
  <2>2. CASE g # f
    <3>1. alt_fd_list[g].dev \in Devices /\ alt_max_fd >= 3
      BY <2>2, <1>1 DEF PoolInv, DeviceFlag
    <3>2. alt_max_fd \in Int /\ alt_max_fd' \in Int
      <4>1. alt_max_fd \in Fds \cup {-1} BY Zenon DEF PoolInv
      <4> QED BY <4>1, FdsAreInt, Zenon
    <3> QED BY <3>1, <3>2, <2>2, <1>1
  <2> QED BY <2>1, <2>2
<1>5. LockedIsDevice'
  BY <1>1 DEF PoolInv, LockedIsDevice, Locked
<1>6. LockIsLowest'
  BY <1>1 DEF PoolInv, LockIsLowest, Locked, SameDevice
<1> QED BY <1>1, <1>2, <1>3, <1>4, <1>5, <1>6 DEF PoolInv

\* Freeing a descriptor of the pool.
LEMMA PoolFree ==
  ASSUME PoolInv, NEW f \in Fds, f > 2,
         alt_fd_list' = [alt_fd_list EXCEPT ![f] = Unused],
         alt_max_fd' \in Fds \cup {-1}, alt_max_fd' >= alt_max_fd
  PROVE  PoolInv'
<1> USE PoolFacts
<1>1. \A g \in Fds : Locked(g) => alt_fd_list[g].dev # Unused.dev
  BY DEF PoolInv, LockedIsDevice, DeviceFlag
<1>2. "EXCL" \notin Unused.fd_flags /\ "DEV" \notin Unused.fd_flags
  OBVIOUS
<1> QED BY <1>1, <1>2, PoolUpdate

\* A step that leaves the pool as it is.
LEMMA PoolSame ==
  ASSUME PoolInv, UNCHANGED <<alt_fd_list, alt_max_fd>>
  PROVE  PoolInv'
BY DEF PoolInv, FreeIsUnused, HighWaterMark, DeviceFlag, LockedIsDevice, LockIsLowest,
   Locked, SameDevice

\* What open() writes into the descriptor.
GivenFlags(dev, flags) ==
  (flags \ ALT_FD_FLAGS_MASK) \cup (IF dev \in Devices THEN {"DEV"} ELSE {})

LEMMA FilledIs ==
  ASSUME NEW f \in Fds, NEW dev \in Devices \cup Filesystems, NEW flags \in SUBSET Flags
  PROVE  LET e == [dev |-> dev, fd_flags |-> GivenFlags(dev, flags)]
         IN  /\ Filled(f, dev, flags) = [alt_fd_list EXCEPT ![f] = e]
             /\ e \in Entry
             /\ "EXCL" \notin e.fd_flags
             /\ "DEV" \in e.fd_flags <=> dev \in Devices
BY DEF Filled, GivenFlags, Entry, Flags, ALT_FD_FLAGS_MASK, ALT_FCNTL_FLAGS_MASK

\* What alt_get_fd does.
LEMMA AllocateFacts ==
  ASSUME PoolInv, NEW f \in Fds, NEW dev, Allocates(f, dev)
  PROVE  /\ dev \in registered /\ f \notin Stdio /\ f >= 3 /\ alt_fd_list[f] = Unused
         /\ alt_max_fd' \in Fds /\ alt_max_fd' >= alt_max_fd
         /\ f <= alt_max_fd' /\ 3 <= alt_max_fd'
<1> USE PoolFacts
<1>1. dev \in registered /\ alt_fd_list[f].dev = None /\ RaiseMax(f)
  BY DEF Allocates, FirstFree
<1>2. f \notin Stdio /\ alt_fd_list[f].fd_flags = {} /\ alt_fd_list[f] \in Entry
  BY <1>1 DEF PoolInv, FreeIsUnused
<1>3. f >= 3
  BY <1>2 DEF Stdio, Fds
<1>4. alt_fd_list[f] = Unused
  BY <1>1, <1>2 DEF Unused, Entry
<1>5. alt_max_fd \in Fds \cup {-1}
  BY DEF PoolInv
<1>6. CASE f > alt_max_fd
  <2>1. alt_max_fd' = f BY <1>1, <1>6 DEF RaiseMax
  <2> QED BY <2>1, <1>1, <1>2, <1>3, <1>4, <1>5, <1>6
<1>7. CASE ~(f > alt_max_fd)
  <2>1. alt_max_fd' = alt_max_fd BY <1>1, <1>7 DEF RaiseMax
  <2>2. alt_max_fd \in Int /\ f \in Int /\ alt_max_fd # -1 BY <1>3, <1>5, <1>7
  <2> QED BY <2>1, <2>2, <1>1, <1>2, <1>3, <1>4, <1>5, <1>7
<1> QED BY <1>6, <1>7

\* A free descriptor is not held.
LEMMA FreeNotHeld ==
  ASSUME LentInv, NEW f \in Fds, alt_fd_list[f].dev = None
  PROVE  f \notin held
BY DEF LentInv, NothingLeaks

-----------------------------------------------------------------------------
(* The calls of the application. From main on, the phase and the lists of  *)
(* devices are fixed.                                                      *)

\* A call that leaves the standard streams alone keeps StdioInv.
LEMMA StartSame ==
  ASSUME StdioInv, phase = "main", UNCHANGED <<registered, phase>>,
         \A fd \in Stdio : alt_fd_list'[fd] = alt_fd_list[fd]
  PROVE  StdioInv'
BY DEF StdioInv, Redirected, Connected, CanRead, CanWrite, Stdio

LEMMA FdOpenInv ==
  ASSUME IInv, NEW dev \in Devices \cup Filesystems, NEW flags \in FlagArgs,
         Open(dev, flags)
  PROVE  IInv'
<1> USE PoolFacts
<1>1. PICK f \in Fds : /\ Allocates(f, dev) /\ Granted(f, dev)
                       /\ alt_fd_list' = Filled(f, dev, flags) /\ held' = held \cup {f}
  BY DEF Open
<1>2. phase = "main" /\ UNCHANGED <<registered, phase>>
  BY DEF Open
<1> DEFINE e == [dev |-> dev, fd_flags |-> GivenFlags(dev, flags)]
<1>3. /\ alt_fd_list' = [alt_fd_list EXCEPT ![f] = e] /\ e \in Entry
      /\ "EXCL" \notin e.fd_flags /\ ("DEV" \in e.fd_flags <=> dev \in Devices)
  BY <1>1, FilledIs, FlagAssumption
<1>4. e.dev = dev /\ dev # None OBVIOUS
<1> HIDE DEF e
<1>5. /\ f \notin Stdio /\ f >= 3 /\ alt_fd_list[f] = Unused /\ alt_max_fd' \in Fds
      /\ alt_max_fd' >= alt_max_fd /\ f <= alt_max_fd' /\ 3 <= alt_max_fd'
  BY <1>1, AllocateFacts DEF IInv
<1>6. ASSUME NEW g \in Fds, Locked(g), alt_fd_list[g].dev = dev, g # f
      PROVE  FALSE
  <2>1. dev \in Devices /\ alt_max_fd >= 3
    BY <1>6 DEF IInv, PoolInv, LockedIsDevice, DeviceFlag
  <2>2. ~FileLocked(dev, f, alt_max_fd')
    BY <1>1, <2>1 DEF Granted
  <2>3. g <= alt_max_fd'
    <3>1. alt_max_fd \in Int /\ alt_max_fd' \in Int /\ g \in Int BY <1>5 DEF IInv, PoolInv
    <3>2. CASE g \in Stdio BY <3>1, <3>2, <1>5, <2>1 DEF Stdio
    <3>3. CASE g \notin Stdio
      <4>1. g <= alt_max_fd BY <3>3, <1>6, <1>4 DEF IInv, PoolInv, HighWaterMark
      <4> QED BY <4>1, <3>1, <1>5
    <3> QED BY <3>2, <3>3
  <2> QED BY <2>2, <2>3, <1>6 DEF FileLocked, Locked
<1>7. PoolInv'
  <2>1. PoolInv BY DEF IInv
  <2>2. \A g \in Fds : Locked(g) /\ alt_fd_list[g].dev = e.dev /\ g # f => g < f
    BY <1>6, <1>4
  <2> QED BY <2>1, <2>2, <1>3, <1>4, <1>5, PoolUpdate
<1>8. \A g \in Fds : g # f => alt_fd_list'[g] = alt_fd_list[g]
  BY <1>3 DEF IInv, PoolInv
<1>9. alt_fd_list'[f] = e
  BY <1>3 DEF IInv, PoolInv
<1>10. StdioInv'
  BY <1>2, <1>5, <1>8, StartSame DEF IInv
<1>11. LentInv'
  BY <1>1, <1>4, <1>5, <1>8, <1>9 DEF IInv, LentInv, NothingLeaks
<1>12. LocksAreReleasable'
  BY <1>1, <1>3, <1>8, <1>9 DEF IInv, LocksAreReleasable, Locked
<1> QED BY <1>7, <1>10, <1>11, <1>12 DEF IInv

LEMMA OpenFailsInv ==
  ASSUME IInv, NEW dev \in Devices \cup Filesystems, NEW flags \in FlagArgs,
         OpenFails(dev, flags)
  PROVE  IInv'
<1> USE PoolFacts
<1>1. phase = "main" /\ UNCHANGED <<registered, phase, held>>
  BY DEF OpenFails
<1>2. alt_fd_list' = alt_fd_list /\ PoolInv'
  <2>1. CASE UNCHANGED <<alt_fd_list, alt_max_fd>>
    BY <2>1, PoolSame DEF IInv
  <2>2. CASE \E f \in Fds : /\ Allocates(f, dev) /\ Refused(f, dev)
                            /\ alt_fd_list' = Release(Filled(f, dev, flags), f)
    <3>1. PICK f \in Fds : /\ Allocates(f, dev)
                           /\ alt_fd_list' = Release(Filled(f, dev, flags), f)
      BY <2>2
    <3>2. /\ f >= 3 /\ alt_fd_list[f] = Unused /\ alt_max_fd' \in Fds
          /\ alt_max_fd' >= alt_max_fd
      BY <3>1, AllocateFacts DEF IInv
    <3>3. alt_fd_list' = [alt_fd_list EXCEPT ![f] = Unused]
      <4> DEFINE e == [dev |-> dev, fd_flags |-> GivenFlags(dev, flags)]
      <4>1. Filled(f, dev, flags) = [alt_fd_list EXCEPT ![f] = e]
        BY FilledIs, FlagAssumption
      <4> HIDE DEF e
      <4>2. Release(Filled(f, dev, flags), f) = [Filled(f, dev, flags) EXCEPT ![f] = Unused]
        BY <3>2 DEF Release
      <4> QED BY <4>1, <4>2, <3>1 DEF IInv, PoolInv
    <3>4. alt_fd_list' = alt_fd_list
      BY <3>2, <3>3 DEF IInv, PoolInv
    <3>5. PoolInv'
      <4>0. f \in Int OBVIOUS
      <4>1. f >= 3 BY <3>2
      <4>2. f > 2 BY <4>0, <4>1
      <4> QED BY <3>2, <3>3, <4>2, PoolFree DEF IInv
    <3> QED BY <3>4, <3>5
  <2> QED BY <2>1, <2>2 DEF OpenFails
<1>3. StdioInv'
  BY <1>1, <1>2, StartSame DEF IInv
<1>4. LentInv' /\ LocksAreReleasable'
  BY <1>1, <1>2 DEF IInv, LentInv, NothingLeaks, LocksAreReleasable, Locked
<1> QED BY <1>2, <1>3, <1>4 DEF IInv

LEMMA CloseInv ==
  ASSUME IInv, NEW f \in Fds, Close(f)
  PROVE  IInv'
<1> USE PoolFacts
<1>1. /\ phase = "main" /\ UNCHANGED <<alt_max_fd, registered, phase>>
      /\ f \in InUse /\ alt_fd_list' = Release(alt_fd_list, f) /\ held' = held \ {f}
  BY DEF Close
<1>2. CASE f > 2
  <2>1. alt_fd_list' = [alt_fd_list EXCEPT ![f] = Unused]
    BY <1>1, <1>2 DEF Release
  <2>2. PoolInv'
    <3>1. PoolInv BY DEF IInv
    <3>2. alt_max_fd' \in Fds \cup {-1} /\ alt_max_fd' >= alt_max_fd
      BY <1>1, <3>1 DEF PoolInv
    <3> QED BY <1>2, <2>1, <3>1, <3>2, PoolFree
  <2>3. /\ \A g \in Fds : g # f => alt_fd_list'[g] = alt_fd_list[g]
        /\ alt_fd_list'[f] = Unused
    BY <2>1 DEF IInv, PoolInv
  <2>4. f \notin Stdio
    BY <1>2
  <2>5. StdioInv'
    BY <1>1, <2>3, <2>4, StartSame DEF IInv
  <2>6. LentInv'
    BY <1>1, <2>3, <2>4 DEF IInv, LentInv, NothingLeaks
  <2>7. LocksAreReleasable'
    BY <1>1, <2>3 DEF IInv, LocksAreReleasable, Locked
  <2> QED BY <2>2, <2>5, <2>6, <2>7 DEF IInv
<1>3. CASE ~(f > 2)
  <2>1. alt_fd_list' = alt_fd_list
    BY <1>1, <1>3 DEF Release
  <2>2. f \notin held
    BY <1>3 DEF IInv, LentInv, NothingLeaks
  <2>3. held' = held
    BY <1>1, <2>2
  <2>4. PoolInv'
    BY <1>1, <2>1, PoolSame DEF IInv
  <2>5. StdioInv'
    BY <1>1, <2>1, StartSame DEF IInv
  <2>6. LentInv' /\ LocksAreReleasable'
    BY <2>1, <2>3 DEF IInv, LentInv, NothingLeaks, LocksAreReleasable, Locked
  <2> QED BY <2>4, <2>5, <2>6 DEF IInv
<1> QED BY <1>2, <1>3

\* A call that changes the flags of descriptor f and nothing else.
LEMMA FlagsUpdate ==
  ASSUME PoolInv, NEW f \in Fds, NEW flags \in SUBSET Flags,
         alt_fd_list[f].dev # None,
         alt_fd_list' = [alt_fd_list EXCEPT ![f].fd_flags = flags],
         UNCHANGED alt_max_fd,
         "DEV" \in flags <=> "DEV" \in alt_fd_list[f].fd_flags,
         "EXCL" \in flags => "DEV" \in flags,
         "EXCL" \in flags =>
            \A g \in Fds : SameDevice(f, g) /\ g # f => f < g
  PROVE  /\ PoolInv'
         /\ \A g \in Fds : alt_fd_list'[g].dev = alt_fd_list[g].dev
         /\ \A g \in Fds : g # f => alt_fd_list'[g] = alt_fd_list[g]
         /\ alt_fd_list'[f].fd_flags = flags
<1> USE PoolFacts
<1> DEFINE e == [dev |-> alt_fd_list[f].dev, fd_flags |-> flags]
<1>1. alt_fd_list[f] \in Entry /\ e \in Entry
  BY DEF PoolInv, Entry
<1>2. alt_fd_list' = [alt_fd_list EXCEPT ![f] = e]
  <2>1. [alt_fd_list[f] EXCEPT !.fd_flags = flags] = e
    BY <1>1 DEF Entry
  <2> QED BY <2>1
<1>3. e.dev = alt_fd_list[f].dev /\ e.fd_flags = flags
  OBVIOUS
<1> HIDE DEF e
<1>4. alt_max_fd' \in Fds \cup {-1} /\ alt_max_fd' >= alt_max_fd
  BY DEF PoolInv
<1>5. "DEV" \in e.fd_flags => e.dev \in Devices /\ alt_max_fd' >= 3
  BY <1>3 DEF PoolInv, DeviceFlag
<1>6. e.dev # None /\ f > 2 => f <= alt_max_fd'
  BY <1>3 DEF PoolInv, HighWaterMark
<1>7. \A g \in Fds : Locked(g) /\ alt_fd_list[g].dev = e.dev /\ g # f => g < f
  BY <1>3 DEF PoolInv, LockIsLowest, SameDevice
<1>8. "EXCL" \in e.fd_flags =>
         \A g \in Fds : alt_fd_list[g].dev = e.dev /\ g # f => f < g
  BY <1>3 DEF SameDevice
<1>9. PoolInv'
  BY <1>1, <1>2, <1>3, <1>4, <1>5, <1>6, <1>7, <1>8, PoolUpdate
<1> QED BY <1>2, <1>3, <1>9 DEF PoolInv

\* ... and, if it leaves the access mode too, the streams and the loans as they are.
LEMMA FlagsInv ==
  ASSUME IInv, NEW f \in Fds, PoolInv', phase = "main",
         UNCHANGED <<registered, phase, held>>,
         \A g \in Fds : alt_fd_list'[g].dev = alt_fd_list[g].dev,
         \A g \in Fds : g # f => alt_fd_list'[g] = alt_fd_list[g],
         \A flag \in {"DEV", "WRONLY", "RDWR"} :
            flag \in alt_fd_list'[f].fd_flags <=> flag \in alt_fd_list[f].fd_flags,
         Locked(f)' => f \in held
  PROVE  IInv'
<1> USE PoolFacts
<1>1. \A g \in Fds, flag \in {"DEV", "WRONLY", "RDWR"} :
         flag \in alt_fd_list'[g].fd_flags <=> flag \in alt_fd_list[g].fd_flags
  <2> TAKE g \in Fds, flag \in {"DEV", "WRONLY", "RDWR"}
  <2> QED OBVIOUS
<1>2. ASSUME NEW fd \in Stdio, Connected(fd) PROVE Connected(fd)'
  <2>1. \A flag \in {"DEV", "WRONLY", "RDWR"} :
           flag \in alt_fd_list'[fd].fd_flags <=> flag \in alt_fd_list[fd].fd_flags
    BY <1>1
  <2>2. CASE fd = 0
    BY <2>1, <2>2, <1>2 DEF Connected, CanRead
  <2>3. CASE fd # 0
    <3>1. "WRONLY" \in alt_fd_list[fd].fd_flags \/ "RDWR" \in alt_fd_list[fd].fd_flags
      BY <2>3, <1>2 DEF Connected, CanWrite
    <3>2. CanWrite(fd)'
      BY <2>1, <3>1 DEF CanWrite
    <3> QED BY <2>1, <2>3, <3>2, <1>2 DEF Connected
  <2> QED BY <2>2, <2>3
<1>3. StdioInv'
  BY <1>2 DEF IInv, StdioInv, Redirected, Stdio
<1>4. LentInv'
  BY DEF IInv, LentInv, NothingLeaks
<1>5. LocksAreReleasable'
  BY DEF IInv, LocksAreReleasable, Locked
<1> QED BY <1>3, <1>4, <1>5 DEF IInv

LEMMA FdLockInv ==
  ASSUME IInv, NEW f \in Fds, Lock(f)
  PROVE  IInv'
<1> USE PoolFacts
<1>1. /\ phase = "main" /\ UNCHANGED <<alt_max_fd, registered, phase, held>>
      /\ f \in InUse /\ "DEV" \in alt_fd_list[f].fd_flags /\ Lockable(f)
  BY DEF Lock
<1> DEFINE flags == alt_fd_list[f].fd_flags \cup {"EXCL"}
<1>2. alt_fd_list' = [alt_fd_list EXCEPT ![f].fd_flags = flags]
  BY DEF Lock
<1>3. flags \in SUBSET Flags
  BY DEF IInv, PoolInv, Entry, Flags, ALT_FD_FLAGS_MASK
<1>4. alt_fd_list[f].dev # None /\ alt_max_fd >= 3 /\ alt_max_fd \in Int
  BY <1>1 DEF IInv, PoolInv, DeviceFlag
<1>5. \A g \in Fds : SameDevice(f, g) /\ g # f => ~(g < alt_max_fd)
  BY <1>1 DEF Lockable, SameDevice
<1>6. ASSUME NEW g \in Fds, SameDevice(f, g), g # f PROVE f < g
  <2>1. ~(g < alt_max_fd) /\ g \in Int /\ f \in Int
    BY <1>5, <1>6
  <2>2. f <= alt_max_fd
    <3>1. CASE f \in Stdio BY <3>1, <1>4, <2>1 DEF Stdio
    <3>2. CASE f \notin Stdio BY <3>2, <1>4 DEF IInv, PoolInv, HighWaterMark
    <3> QED BY <3>1, <3>2
  <2> QED BY <2>1, <2>2, <1>4, <1>6
<1>7. f \in held
  <2>1. SUFFICES ASSUME f \in Stdio PROVE FALSE
    BY <1>1 DEF InUse
  <2>2. \A g \in Stdio : alt_fd_list[g].dev = Uart
    BY <1>1 DEF IInv, StdioInv, Redirected, Connected, Stdio
  <2>3. PICK g \in Stdio : g # f
    BY DEF Stdio
  <2>4. g < alt_max_fd
    BY <1>4 DEF Stdio
  <2> QED BY <2>1, <2>2, <2>3, <2>4, <1>5 DEF SameDevice
<1>8. "DEV" \in flags /\ "EXCL" \in flags
  BY <1>1
<1>9. \A flag \in {"DEV", "WRONLY", "RDWR"} :
         flag \in flags <=> flag \in alt_fd_list[f].fd_flags
  OBVIOUS
<1> HIDE DEF flags
<1>10. /\ PoolInv'
       /\ \A g \in Fds : alt_fd_list'[g].dev = alt_fd_list[g].dev
       /\ \A g \in Fds : g # f => alt_fd_list'[g] = alt_fd_list[g]
       /\ alt_fd_list'[f].fd_flags = flags
  <2>1. PoolInv BY DEF IInv
  <2>2. \A g \in Fds : SameDevice(f, g) /\ g # f => f < g BY <1>6
  <2> QED BY <2>1, <2>2, <1>1, <1>2, <1>3, <1>4, <1>8, FlagsUpdate
<1> QED BY <1>1, <1>7, <1>9, <1>10, FlagsInv

\* Descriptors in use are open.
LEMMA InUseIsOpen ==
  ASSUME IInv, NEW f \in Fds, f \in InUse
  PROVE  alt_fd_list[f].dev # None
BY PoolFacts DEF IInv, PoolInv, FreeIsUnused, LentInv, NothingLeaks, InUse

LEMMA UnlockInv ==
  ASSUME IInv, NEW f \in Fds, Unlock(f)
  PROVE  IInv'
<1> USE PoolFacts
<1>1. /\ phase = "main" /\ UNCHANGED <<alt_max_fd, registered, phase, held>>
      /\ f \in InUse
  BY DEF Unlock
<1> DEFINE flags == alt_fd_list[f].fd_flags \ {"EXCL"}
<1>2. alt_fd_list' = [alt_fd_list EXCEPT ![f].fd_flags = flags]
  BY DEF Unlock
<1>3. flags \in SUBSET Flags
  BY DEF IInv, PoolInv, Entry
<1>4. "EXCL" \notin flags
  OBVIOUS
<1>5. \A flag \in {"DEV", "WRONLY", "RDWR"} :
         flag \in flags <=> flag \in alt_fd_list[f].fd_flags
  OBVIOUS
<1> HIDE DEF flags
<1>6. /\ PoolInv'
      /\ \A g \in Fds : alt_fd_list'[g].dev = alt_fd_list[g].dev
      /\ \A g \in Fds : g # f => alt_fd_list'[g] = alt_fd_list[g]
      /\ alt_fd_list'[f].fd_flags = flags
  <2>1. PoolInv BY DEF IInv
  <2>2. alt_fd_list[f].dev # None BY <1>1, InUseIsOpen
  <2> QED BY <2>1, <2>2, <1>1, <1>2, <1>3, <1>4, <1>5, FlagsUpdate
<1>7. ~Locked(f)'
  BY <1>4, <1>6 DEF Locked
<1> QED BY <1>1, <1>5, <1>6, <1>7, FlagsInv

LEMMA SetFlagsInv ==
  ASSUME IInv, NEW f \in Fds, NEW arg \in FlagArgs, SetFlags(f, arg)
  PROVE  IInv'
<1> USE PoolFacts
<1>1. /\ phase = "main" /\ UNCHANGED <<alt_max_fd, registered, phase, held>>
      /\ f \in InUse
  BY DEF SetFlags
<1> DEFINE flags == (alt_fd_list[f].fd_flags \ ALT_FCNTL_FLAGS_MASK)
                      \cup (arg \cap ALT_FCNTL_FLAGS_MASK)
<1>2. alt_fd_list' = [alt_fd_list EXCEPT ![f].fd_flags = flags]
  BY DEF SetFlags
<1>3. flags \in SUBSET Flags
  BY FlagAssumption DEF IInv, PoolInv, Entry
<1>4. \A flag \in {"EXCL", "DEV", "WRONLY", "RDWR"} :
         flag \in flags <=> flag \in alt_fd_list[f].fd_flags
  BY DEF ALT_FCNTL_FLAGS_MASK
<1> HIDE DEF flags
<1>5. /\ PoolInv'
      /\ \A g \in Fds : alt_fd_list'[g].dev = alt_fd_list[g].dev
      /\ \A g \in Fds : g # f => alt_fd_list'[g] = alt_fd_list[g]
      /\ alt_fd_list'[f].fd_flags = flags
  <2>1. PoolInv BY DEF IInv
  <2>2. alt_fd_list[f].dev # None BY <1>1, InUseIsOpen
  <2>3. "EXCL" \in flags => /\ "DEV" \in flags
                            /\ \A g \in Fds : SameDevice(f, g) /\ g # f => f < g
    BY <1>4 DEF IInv, PoolInv, LockedIsDevice, LockIsLowest, Locked
  <2> QED BY <2>1, <2>2, <2>3, <1>1, <1>2, <1>3, <1>4, FlagsUpdate
<1>6. Locked(f)' => f \in held
  BY <1>4, <1>5 DEF IInv, LocksAreReleasable, Locked
<1>7. \A flag \in {"DEV", "WRONLY", "RDWR"} :
         flag \in alt_fd_list'[f].fd_flags <=> flag \in alt_fd_list[f].fd_flags
  BY <1>4, <1>5
<1> QED BY <1>1, <1>5, <1>6, <1>7, FlagsInv

-----------------------------------------------------------------------------
(* Start-up *)

LEMMA SysInitInv == IInv /\ SysInit => IInv'
<1> SUFFICES ASSUME IInv, SysInit PROVE IInv' OBVIOUS
<1>1. /\ phase = "boot" /\ phase' = "stdout" /\ registered' = Devices \cup Filesystems
      /\ UNCHANGED <<alt_fd_list, alt_max_fd, held>>
  BY DEF SysInit
<1>2. PoolInv'
  BY <1>1, PoolSame DEF IInv
<1>3. StdioInv'
  <2>1. held' = {} /\ \A f \in Fds : ~Locked(f)'
    BY <1>1 DEF IInv, StdioInv, Locked
  <2>2. \A fd \in Stdio : ~Redirected(fd)'
    BY <1>1 DEF Redirected, Stdio
  <2>3. registered' \subseteq Devices \cup Filesystems /\ Uart \in registered'
    BY <1>1, PoolFacts
  <2> QED BY <1>1, <2>1, <2>2, <2>3 DEF StdioInv, Locked, Redirected
<1>4. LentInv' /\ LocksAreReleasable'
  BY <1>1 DEF IInv, LentInv, NothingLeaks, LocksAreReleasable, Locked
<1> QED BY <1>2, <1>3, <1>4 DEF IInv

\* Before main all of the pool is free, so that the UART can be opened: redirecting
\* changes the stream's descriptor and leaves the pool as it was.
LEMMA RedirectUpdate ==
  ASSUME IInv, NEW stream \in {"stdout", "stdin", "stderr"}, NEW fd \in Stdio,
         NEW mode \in SUBSET Flags, NEW then \in {"stdin", "stderr", "main"},
         Redirect(stream, fd, mode, then)
  PROVE  /\ PoolInv' /\ LentInv' /\ held' = {} /\ (\A f \in Fds : ~Locked(f)')
         /\ alt_fd_list'[fd] = [dev |-> Uart, fd_flags |-> GivenFlags(Uart, mode)]
         /\ \A f \in Fds : f # fd => alt_fd_list'[f] = alt_fd_list[f]
<1> USE PoolFacts
<1>1. phase = stream /\ UNCHANGED <<registered, held>>
  BY DEF Redirect
<1>2. Uart \in registered /\ held = {} /\ \A f \in Fds : ~Locked(f)
  BY <1>1 DEF IInv, StdioInv
<1>3. ~NotAllocated(Uart)
  <2>1. alt_fd_list[3].dev = None
    BY <1>2 DEF IInv, LentInv, NothingLeaks, Stdio
  <2> QED BY <2>1, <1>2 DEF NotAllocated
<1> DEFINE e == [dev |-> Uart, fd_flags |-> GivenFlags(Uart, mode)]
<1>4. PICK f \in Fds :
        /\ Allocates(f, Uart)
        /\ LET opened == Filled(f, Uart, mode)
           IN  alt_fd_list' = Release([opened EXCEPT ![fd] = opened[f]], f)
  BY <1>3 DEF Redirect
<1>5. /\ Filled(f, Uart, mode) = [alt_fd_list EXCEPT ![f] = e]
      /\ e \in Entry /\ "EXCL" \notin e.fd_flags /\ "DEV" \in e.fd_flags
  BY FilledIs
<1>6. e.dev = Uart
  OBVIOUS
<1> HIDE DEF e
<1>7. /\ f \notin Stdio /\ f >= 3 /\ alt_fd_list[f] = Unused /\ alt_max_fd' \in Fds
      /\ alt_max_fd' >= alt_max_fd /\ 3 <= alt_max_fd'
  BY <1>4, AllocateFacts DEF IInv
<1>8. alt_fd_list' = [alt_fd_list EXCEPT ![fd] = e]
  <2>1. alt_fd_list \in [Fds -> Entry] /\ fd \in Fds /\ f # fd /\ f > 2
    BY <1>7 DEF IInv, PoolInv
  <2>2. Filled(f, Uart, mode)[f] = e
    BY <1>5, <2>1
  <2>3. alt_fd_list' =
          [[[alt_fd_list EXCEPT ![f] = e] EXCEPT ![fd] = e] EXCEPT ![f] = Unused]
    BY <1>4, <1>5, <2>1, <2>2 DEF Release
  <2> QED BY <2>1, <2>3, <1>7
<1>9. PoolInv'
  <2>1. PoolInv BY DEF IInv
  <2>2. fd \in Fds /\ ~(fd > 2) BY DEF Stdio
  <2>3. \A g \in Fds : Locked(g) /\ alt_fd_list[g].dev = e.dev /\ g # fd => g < fd
    BY <1>2
  <2>4. alt_max_fd' >= 3 /\ e.dev # None BY <1>6, <1>7
  <2> QED BY <1>5, <1>6, <1>7, <1>8, <2>1, <2>2, <2>3, <2>4, PoolUpdate
<1>10. /\ alt_fd_list'[fd] = e
       /\ \A g \in Fds : g # fd => alt_fd_list'[g] = alt_fd_list[g]
  BY <1>8 DEF IInv, PoolInv
<1>11. LentInv'
  BY <1>1, <1>10 DEF IInv, LentInv, NothingLeaks
<1>12. \A g \in Fds : ~Locked(g)'
  BY <1>2, <1>5, <1>10 DEF Locked
<1> QED BY <1>1, <1>2, <1>9, <1>10, <1>11, <1>12 DEF e

LEMMA RedirectInv == IInv /\ IoRedirect => IInv'
<1> SUFFICES ASSUME IInv, IoRedirect PROVE IInv' OBVIOUS
<1> USE PoolFacts
<1>1. PICK stream \in {"stdout", "stdin", "stderr"}, fd \in Stdio,
           mode \in {{}, {"WRONLY"}}, then \in {"stdin", "stderr", "main"} :
        /\ Redirect(stream, fd, mode, then)
        /\ \/ stream = "stdout" /\ fd = 1 /\ mode = {"WRONLY"} /\ then = "stdin"
           \/ stream = "stdin" /\ fd = 0 /\ mode = {} /\ then = "stderr"
           \/ stream = "stderr" /\ fd = 2 /\ mode = {"WRONLY"} /\ then = "main"
  BY DEF IoRedirect, Stdio
<1>2. mode \in SUBSET Flags
  BY DEF Flags
<1>3. phase = stream /\ phase' = then /\ UNCHANGED <<registered, held>>
  BY <1>1 DEF Redirect
<1>4. /\ PoolInv' /\ LentInv' /\ held' = {} /\ (\A f \in Fds : ~Locked(f)')
      /\ alt_fd_list'[fd] = [dev |-> Uart, fd_flags |-> GivenFlags(Uart, mode)]
      /\ \A f \in Fds : f # fd => alt_fd_list'[f] = alt_fd_list[f]
  BY <1>1, <1>2, RedirectUpdate
<1>5. Connected(fd)'
  <2>1. alt_fd_list'[fd].dev = Uart /\ alt_fd_list'[fd].fd_flags = GivenFlags(Uart, mode)
    BY <1>4
  <2>2. "DEV" \in GivenFlags(Uart, mode)
    BY DEF GivenFlags
  <2>3. CASE fd = 0
    <3>1. "WRONLY" \notin GivenFlags(Uart, mode)
      BY <1>1, <2>3 DEF GivenFlags
    <3> QED BY <2>1, <2>2, <2>3, <3>1 DEF Connected, CanRead
  <2>4. CASE fd # 0
    <3>1. "WRONLY" \in GivenFlags(Uart, mode)
      BY <1>1, <2>4 DEF GivenFlags, ALT_FD_FLAGS_MASK
    <3>2. CanWrite(fd)'
      BY <2>1, <3>1 DEF CanWrite
    <3> QED BY <2>1, <2>2, <2>4, <3>2 DEF Connected
  <2> QED BY <2>3, <2>4
<1>6. ASSUME NEW g \in Stdio, Redirected(g)', g # fd PROVE Connected(g)'
  <2>1. Redirected(g)
    BY <1>1, <1>3, <1>6 DEF Redirected, Stdio
  <2>2. Connected(g)
    BY <2>1 DEF IInv, StdioInv
  <2>3. alt_fd_list'[g] = alt_fd_list[g]
    BY <1>4, <1>6
  <2> QED BY <2>2, <2>3 DEF Connected, CanRead, CanWrite
<1>7. StdioInv'
  BY <1>3, <1>4, <1>5, <1>6 DEF IInv, StdioInv
<1>8. LocksAreReleasable'
  BY <1>4 DEF LocksAreReleasable
<1> QED BY <1>4, <1>7, <1>8 DEF IInv

-----------------------------------------------------------------------------

LEMMA StepInv == IInv /\ [Next]_vars => IInv'
<1> SUFFICES ASSUME IInv, [Next]_vars PROVE IInv' OBVIOUS
<1>1. CASE SysInit BY <1>1, SysInitInv
<1>2. CASE IoRedirect BY <1>2, RedirectInv
<1>3. CASE Call
  <2>1. CASE \E dev \in Devices \cup Filesystems, flags \in FlagArgs :
               Open(dev, flags) \/ OpenFails(dev, flags)
    BY <2>1, FdOpenInv, OpenFailsInv
  <2>2. CASE \E f \in Fds :
               Close(f) \/ Lock(f) \/ Unlock(f) \/ \E flags \in FlagArgs : SetFlags(f, flags)
    BY <2>2, CloseInv, FdLockInv, UnlockInv, SetFlagsInv
  <2> QED BY <1>3, <2>1, <2>2 DEF Call
<1>4. CASE UNCHANGED vars
  <2>1. PoolInv'
    BY <1>4, PoolSame DEF IInv, vars
  <2>2. StdioInv' /\ LentInv' /\ LocksAreReleasable'
    BY <1>4 DEF IInv, StdioInv, Redirected, Connected, CanRead, CanWrite, LentInv,
       NothingLeaks, LocksAreReleasable, Locked, vars
  <2> QED BY <2>1, <2>2 DEF IInv
<1> QED BY <1>1, <1>2, <1>3, <1>4 DEF Next

THEOREM Invariance == Spec => []IInv
BY InitInv, StepInv, PTL DEF Spec

\* Every variable keeps its type: alt_get_fd and alt_release_fd stay within the pool.
THEOREM TypeCorrect == Spec => []TypeOK
<1>1. IInv => TypeOK
  BY DEF IInv, PoolInv, StdioInv, LentInv, TypeOK, Entry
<1> QED BY <1>1, Invariance, PTL

\* alt_get_fd keeps alt_max_fd above every descriptor of the pool in use.
THEOREM HighWaterMarkCorrect == Spec => []HighWaterMark
<1>1. IInv => HighWaterMark
  BY DEF IInv, PoolInv
<1> QED BY <1>1, Invariance, PTL

\* open(), its clean-up, the redirection and close() lose no descriptor.
THEOREM NothingLeaksEver == Spec => []NothingLeaks
<1>1. IInv => NothingLeaks
  BY DEF IInv, LentInv
<1> QED BY <1>1, Invariance, PTL

\* Though alt_fd_lock misses the descriptor at alt_max_fd, no device gets two locks:
\* each of two holders would be below the other.
THEOREM OneLock == Spec => []OneLockPerDevice
<1>1. IInv => OneLockPerDevice
  <2> SUFFICES ASSUME IInv, NEW f \in Fds, NEW g \in Fds,
                      Locked(f), Locked(g), SameDevice(f, g), f # g
               PROVE  FALSE
    BY DEF OneLockPerDevice
  <2>1. f < g /\ g < f
    BY DEF IInv, PoolInv, LockIsLowest, SameDevice
  <2> QED BY <2>1, PoolFacts
<1> QED BY <1>1, Invariance, PTL

\* A lock is held by a descriptor that close() frees, never by a standard stream.
THEOREM LocksReleasable == Spec => []LocksAreReleasable
<1>1. IInv => LocksAreReleasable
  BY DEF IInv
<1> QED BY <1>1, Invariance, PTL

\* From main on the streams reach the UART, whatever fcntl, ioctl and close do.
THEOREM StdioStaysConnected == Spec => []StdioConnected
<1>1. IInv => StdioConnected
  <2> SUFFICES ASSUME IInv, phase = "main"
               PROVE  /\ \A f \in Stdio : alt_fd_list[f].dev = Uart
                      /\ CanRead(0) /\ CanWrite(1) /\ CanWrite(2)
    BY DEF StdioConnected
  <2>1. Connected(0) /\ Connected(1) /\ Connected(2)
    BY DEF IInv, StdioInv, Redirected, Stdio
  <2>2. \A f \in Stdio : f = 0 \/ f = 1 \/ f = 2
    BY DEF Stdio
  <2> QED BY <2>1, <2>2 DEF Connected
<1> QED BY <1>1, Invariance, PTL

\* alt_file_locked's search up to alt_max_fd finds every lock: open() gives out no
\* descriptor of a locked device.
THEOREM OpenRespectsLocks == Spec => LockBlocksOpen
<1>1. IInv /\ [Next]_vars =>
        [\A f \in Fds, g \in held' \ held :
           Locked(f) => alt_fd_list'[g].dev # alt_fd_list[f].dev]_vars
  <2> SUFFICES ASSUME IInv, [Next]_vars, NEW f \in Fds, NEW g \in held' \ held, Locked(f)
               PROVE  alt_fd_list'[g].dev # alt_fd_list[f].dev
    OBVIOUS
  <2>1. PICK dev \in Devices \cup Filesystems, flags \in FlagArgs : Open(dev, flags)
    BY DEF Next, Call, SysInit, IoRedirect, Redirect, OpenFails, Close, Lock, Unlock,
       SetFlags, vars
  <2>2. Allocates(g, dev) /\ Granted(g, dev) /\ alt_fd_list' = Filled(g, dev, flags)
    BY <2>1 DEF Open
  <2>3. g \in Fds /\ f # g
    <3>1. g \in Fds BY <2>1 DEF Open
    <3>2. alt_fd_list[g] = Unused BY <3>1, <2>2, AllocateFacts DEF IInv
    <3> QED BY <3>1, <3>2, PoolFacts DEF Locked
  <2>4. alt_fd_list'[g].dev = dev
    <3> DEFINE e == [dev |-> dev, fd_flags |-> GivenFlags(dev, flags)]
    <3>1. alt_fd_list' = [alt_fd_list EXCEPT ![g] = e]
      BY <2>2 DEF Filled, GivenFlags
    <3>2. e.dev = dev
      OBVIOUS
    <3> HIDE DEF e
    <3> QED BY <2>3, <3>1, <3>2 DEF IInv, PoolInv
  <2>5. SUFFICES ASSUME alt_fd_list[f].dev = dev PROVE FALSE
    BY <2>4
  <2>6. dev \in Devices /\ dev # None /\ alt_max_fd >= 3 /\ alt_max_fd \in Int
    BY <2>5, PoolFacts DEF IInv, PoolInv, LockedIsDevice, DeviceFlag
  <2>7. f <= alt_max_fd
    <3>1. CASE f \in Stdio BY <3>1, <2>6 DEF Stdio
    <3>2. CASE f \notin Stdio BY <3>2, <2>5, <2>6 DEF IInv, PoolInv, HighWaterMark
    <3> QED BY <3>1, <3>2
  <2>8. f <= alt_max_fd'
    <3>1. alt_max_fd' \in Int /\ alt_max_fd' >= alt_max_fd
      BY <2>2, <2>3, AllocateFacts, PoolFacts DEF IInv
    <3> QED BY <3>1, <2>6, <2>7, PoolFacts
  <2>9. FileLocked(dev, g, alt_max_fd')
    BY <2>3, <2>5, <2>8 DEF FileLocked, Locked
  <2> QED BY <2>2, <2>6, <2>9 DEF Granted
<1> QED BY <1>1, Invariance, PTL DEF Spec, LockBlocksOpen

\* The pool's bookkeeping is exact: the mark covers it, and it lends what is held.
THEOREM PoolExact == Spec => []PoolIsExact
BY HighWaterMarkCorrect, NothingLeaksEver, PTL DEF PoolIsExact

\* The lock is granted once, can be given back, and is respected by open().
THEOREM LocksSound == Spec => LocksAreSound
BY OneLock, LocksReleasable, OpenRespectsLocks, PTL DEF LocksAreSound
=============================================================================
