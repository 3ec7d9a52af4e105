------------------------------ MODULE Startup -------------------------------
(***************************************************************************)
(* From reset to main and from main to _exit: crt0 prepares memory,        *)
(* alt_main the interrupts, the drivers, the standard streams and C++.     *)
(*                                                                         *)
(* The processor is reset when the PLL loses its lock, at any time, and    *)
(* starts again; memory keeps what it held. In this build .data is part of *)
(* the memory image and nothing loads it again; alt_load would. What the   *)
(* HAL keeps in .data, its device list and descriptors, so survives a      *)
(* restart, and what it keeps in .bss does not.                            *)
(*                                                                         *)
(* A definition named Mut... is the one after it with a plausible bug in.  *)
(***************************************************************************)
EXTENDS Integers, Sequences

CONSTANTS
  Layouts,    \* sizes in words of the sections tdata, tbss, data, bss and part
  Nctors,     \* static constructors, and as many destructors
  MaxStarts   \* bound: starts

List == "alt_dev_list"
Null == "/dev/null"
UartDev == "/dev/jtag_uart"
\* What a word of memory holds: the value the linker gave it, zero, or anything else.
Contents(a) == <<"word", a>>
Zero == <<"zero", 0>>
Junk == <<"junk", 0>>

VARIABLES
  layout, loads,   \* the sections' sizes; whether crt0 calls alt_load
  mem,             \* the words of the sections, from __tls_base on
  vectors,         \* whether the exception section holds the trap code
  pc,              \* the step of the start
  MIE, mie,        \* the processor takes interrupts; those enabled
  alt_irq,         \* .bss: whether the UART has its routine
  tick_rate,       \* .bss: whether the system clock is running
  next,            \* .data: the device list
  streams,         \* .data: the device of each standard stream
  ran,             \* history: constructors (k) and destructors (-k) of this start
  starts

boot == <<layout, loads, starts>>
memory == <<mem, vectors>>
interrupts == <<MIE, mie, alt_irq, tick_rate>>
devices == <<next, streams>>
startVars == <<boot, memory, pc, interrupts, devices, ran>>

-----------------------------------------------------------------------------
(* The memory image (linker.x) *)

tbss_start == layout.tdata
tbss_end == tbss_start + layout.tbss
tdata_source == tbss_end
data_start == tdata_source + layout.tdata
rwdata_end == data_start + layout.data
bss_end == rwdata_end + layout.bss
end == bss_end + layout.part

\* What the linker puts at an address: initial values of tdata, data and the partition.
Linked(a) ==
  IF a < tbss_start \/ a \in data_start .. (rwdata_end - 1) \/ a >= bss_end THEN Contents(a)
  ELSE IF a \in tbss_start .. (tbss_end - 1) THEN Zero ELSE Junk

LinkedList == [n \in {List, Null, UartDev} |-> IF n = List THEN Null ELSE List]
LinkedStreams == [s \in 0 .. 2 |-> Null]

\* At first memory holds the image, or, where alt_load copies it from flash, nothing yet.
Init ==
  /\ layout \in Layouts /\ loads \in BOOLEAN /\ starts = 1
  /\ mem = [a \in 0 .. (end - 1) |-> IF loads /\ a < rwdata_end THEN Junk ELSE Linked(a)]
  /\ vectors = ~loads
  /\ pc = "reset" /\ MIE = FALSE /\ mie = {} /\ alt_irq = FALSE /\ tick_rate = FALSE
  /\ next = LinkedList /\ streams = LinkedStreams /\ ran = <<>>

Go(from, to) == pc = from /\ pc' = to

\* The reset of the processor; whether mie keeps its bits is up to it.
Reset ==
  /\ starts < MaxStarts /\ starts' = starts + 1 /\ pc # "reset" /\ pc' = "reset"
  /\ MIE' = FALSE /\ mie' \in {mie, {}} /\ ran' = <<>>
  /\ UNCHANGED <<layout, loads, memory, alt_irq, tick_rate, devices>>

-----------------------------------------------------------------------------
(* crt0.S *)

\* mtvec, the shadow registers, and all interrupts off.
Start ==
  /\ Go("reset", "bss") /\ MIE' = FALSE /\ mie' = {}
  /\ UNCHANGED <<boot, memory, alt_irq, tick_rate, devices, ran>>

\* The loop that clears .bss looks at its bound after the first word.
MutClearBss ==
  /\ Go("bss", "load")
  /\ mem' = [a \in DOMAIN mem |-> IF a \in rwdata_end .. (bss_end - 2) THEN Zero ELSE mem[a]]
  /\ alt_irq' = FALSE /\ tick_rate' = FALSE
  /\ UNCHANGED <<boot, vectors, MIE, mie, devices, ran>>
ClearBss ==
  /\ Go("bss", "load")
  /\ mem' = [a \in DOMAIN mem |->
               IF a = rwdata_end \/ a \in rwdata_end .. (bss_end - 1) THEN Zero ELSE mem[a]]
  /\ alt_irq' = FALSE /\ tick_rate' = FALSE
  /\ UNCHANGED <<boot, vectors, MIE, mie, devices, ran>>

\* alt_load copies .rwdata, the exceptions and .rodata where they are not in place.
Load ==
  /\ Go("load", "tbss")
  /\ IF loads
     THEN /\ mem' = [a \in DOMAIN mem |-> IF a < rwdata_end THEN Linked(a) ELSE mem[a]]
          /\ vectors' = TRUE /\ next' = LinkedList /\ streams' = LinkedStreams
     ELSE UNCHANGED <<memory, devices>>
  /\ UNCHANGED <<boot, interrupts, ran>>

\* Thread local storage: .tbss is cleared and .tdata copied for threads to start from; these
\* loops look at their bounds first.
ClearTbss ==
  /\ Go("tbss", "tdata")
  /\ mem' = [a \in DOMAIN mem |-> IF a \in tbss_start .. (tbss_end - 1) THEN Zero ELSE mem[a]]
  /\ UNCHANGED <<boot, vectors, interrupts, devices, ran>>
CopyTdata ==
  /\ Go("tdata", "alt_main")
  /\ mem' = [a \in DOMAIN mem |->
               IF a \in tdata_source .. (data_start - 1) THEN mem[a - tdata_source] ELSE mem[a]]
  /\ UNCHANGED <<boot, vectors, interrupts, devices, ran>>

-----------------------------------------------------------------------------
(* alt_main *)

\* The interrupt controller: every enable bit cleared, the vector table set, then mstatus.MIE.
IrqInit ==
  /\ Go("alt_main", "uart") /\ mie' = {} /\ MIE' = TRUE
  /\ UNCHANGED <<boot, memory, alt_irq, tick_rate, devices, ran>>

\* alt_sys_init: the UART registers its routine and is put at the front of the device
\* list, by its address; the system clock starts.
UartInit ==
  /\ Go("uart", "clock")
  /\ alt_irq' = TRUE /\ mie' = mie \cup {"uart"}
  /\ next' = [[next EXCEPT ![UartDev] = next[List]] EXCEPT ![List] = UartDev]
  /\ UNCHANGED <<boot, memory, MIE, tick_rate, streams, ran>>
ClockInit ==
  /\ Go("clock", "redirect") /\ tick_rate' = TRUE /\ mie' = mie \cup {"timer"}
  /\ UNCHANGED <<boot, memory, MIE, alt_irq, devices, ran>>

\* alt_find_dev follows the list from its head until the name matches, or the head is met.
After[k \in 0 .. 3] == IF k = 0 THEN List ELSE next[After[k - 1]]
Met(x) == \E k \in 1 .. 3 : After[k] = x /\ \A j \in 1 .. (k - 1) : After[j] # List

\* alt_io_redirect opens the UART for each stream; a search that never ends holds it up.
Redirect ==
  /\ Go("redirect", "ctors") /\ Met(UartDev)
  /\ streams' = [s \in 0 .. 2 |-> UartDev]
  /\ UNCHANGED <<boot, memory, interrupts, next, ran>>

\* _do_ctors runs the constructors in their order.
Ctor ==
  /\ pc = "ctors" /\ Len(ran) < Nctors /\ ran' = Append(ran, Len(ran) + 1)
  /\ UNCHANGED <<boot, memory, pc, interrupts, devices>>
\* atexit(_do_dtors), then main.
CallMain ==
  /\ Len(ran) = Nctors /\ Go("ctors", "main")
  /\ UNCHANGED <<boot, memory, interrupts, devices, ran>>

-----------------------------------------------------------------------------
(* The program *)

\* It writes its data, thread local ones too.
Write ==
  /\ pc = "main"
  /\ mem' = [a \in DOMAIN mem |->
               IF a < tbss_end \/ a \in data_start .. (bss_end - 1) THEN Junk ELSE mem[a]]
  /\ UNCHANGED <<boot, vectors, pc, interrupts, devices, ran>>

\* main returns and its output is closed, or it calls exit; a signal that is not ignored is
\* _exit at once.
Exit ==
  /\ Go("main", "dtors") /\ UNCHANGED <<boot, memory, interrupts, devices, ran>>
Signals == {"null", "terminating", "ignored", "unknown"}
Kill(pid, sig) ==
  /\ pc = "main" /\ pc' = IF pid <= 0 /\ sig = "terminating" THEN "_exit" ELSE pc
  /\ UNCHANGED <<boot, memory, interrupts, devices, ran>>

\* _do_dtors runs the destructors, the last first.
Dtor ==
  /\ pc = "dtors" /\ Len(ran) < 2 * Nctors /\ ran' = Append(ran, Len(ran) - 2 * Nctors)
  /\ UNCHANGED <<boot, memory, pc, interrupts, devices>>
\* _exit does not disable interrupts, and spins.
Stop ==
  /\ Len(ran) = 2 * Nctors /\ Go("dtors", "_exit")
  /\ UNCHANGED <<boot, memory, interrupts, devices, ran>>

Next ==
  \/ Reset \/ Start \/ ClearBss \/ Load \/ ClearTbss \/ CopyTdata
  \/ IrqInit \/ UartInit \/ ClockInit \/ Redirect \/ Ctor \/ CallMain
  \/ Write \/ Exit \/ (\E pid \in 0 .. 1, sig \in Signals : Kill(pid, sig)) \/ Dtor \/ Stop

Spec == Init /\ [][Next]_startVars

-----------------------------------------------------------------------------
(* Properties *)

TypeOK ==
  /\ layout \in Layouts /\ loads \in BOOLEAN /\ starts \in 1 .. MaxStarts
  /\ vectors \in BOOLEAN /\ MIE \in BOOLEAN /\ mie \subseteq {"uart", "timer"}
  /\ alt_irq \in BOOLEAN /\ tick_rate \in BOOLEAN
  /\ next \in [{List, Null, UartDev} -> {List, Null, UartDev}]
  /\ streams \in [0 .. 2 -> {Null, UartDev}]
  /\ DOMAIN mem = 0 .. (end - 1)

\* However often the processor is reset, and in the middle of whatever, it reaches alt_main
\* with .bss and .tbss cleared and the partition untouched; and, on the first start or
\* where alt_load loads them again, with data as linked, that for new threads too.
MemoryIsReady ==
  pc = "alt_main" =>
    \A a \in DOMAIN mem :
      /\ a \in rwdata_end .. (bss_end - 1) \/ a \in tbss_start .. (tbss_end - 1) => mem[a] = Zero
      /\ a >= bss_end => mem[a] = Linked(a)
      /\ (starts = 1 \/ loads) /\ (a < tbss_start \/ a \in data_start .. (rwdata_end - 1))
           => mem[a] = Linked(a)
      /\ a \in tdata_source .. (data_start - 1) => mem[a] = mem[a - tdata_source]

\* No interrupt is taken before the trap code is in place, and none of a device without its
\* routine, be it one that was left enabled by the start before.
InterruptsAreReady == MIE /\ mie # {} => vectors /\ ("uart" \in mie => alt_irq)

\* Constructors find the streams connected and the clock running, also where the device list
\* and the descriptors are those the start before left; each runs once, and before main.
StreamsReconnect ==
  pc \in {"ctors", "main", "dtors"} =>
    streams = [s \in 0 .. 2 |-> UartDev] /\ tick_rate /\ MIE
InOrder ==
  /\ \A i \in 1 .. Len(ran) : ran[i] = IF i <= Nctors THEN i ELSE i - 2 * Nctors - 1
  /\ pc \in {"main", "dtors"} => Len(ran) >= Nctors

\* The search of alt_io_redirect finds the UART, and one for a name that does not exist
\* ends at the head of the list: alt_find_dev looks "until a match is found, or we reach
\* the end of the list".
RedirectEnds == pc = "redirect" => Met(UartDev)
SearchesEnd == pc \in {"main", "dtors"} => Met(List)

StartIsSound ==
  /\ MemoryIsReady /\ InterruptsAreReady /\ StreamsReconnect /\ InOrder /\ RedirectEnds
  /\ starts = 1 \/ loads => SearchesEnd
=============================================================================
