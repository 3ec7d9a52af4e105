# TLA+ models of the QMTECH C5SOC KFB Nios V/g co-design

The repository builds an FPGA system around a Nios V/g soft processor (clock 100 MHz)
and the firmware that runs on it: a bring-up application on Altera's HAL, generated as a
board support package (BSP). There is one thread, and in this build interrupts do not
nest. This directory models the stateful parts of that software and of the board logic in
TLA+, checks them with TLC and proves a large part of what is checked with TLAPS. Paths
below are relative to `src/`; `BSP` is `software/hal_bsp`, `HAL` is `software/hal_bsp/HAL`.

## The system

| part | state | operations | talks to |
| --- | --- | --- | --- |
| application, `software/hal_app/src/main.c` | last reported inputs, `blink`, `last_toggle` | start-up, then one polling loop | PIOs, `printf` -> descriptors -> UART, `alt_nticks`, `usleep` |
| start-up, `HAL/src/crt0.S`, `alt_main.c`, `alt_load.c`, `BSP/alt_sys_init.c` | the sections in memory, `mstatus`, the device list | clears and loads memory, starts interrupts and drivers, redirects the streams, calls `main`, exits | everything below |
| JTAG UART driver, `BSP/drivers/` | two ring buffers, `irq_enable`, `timeout`, `host_inactive` | `read`, `write`, `close`, `ioctl`, interrupt routine, one-second alarm | the device's FIFOs and the host; alarms |
| alarms, `alt_alarm_start.c`, `alt_tick.c`, `alt_llist.h` | a doubly linked list, `_alt_nticks`, `_alt_tick_rate` | start, stop, tick (walks the list, makes callbacks) | called from the timer interrupt and from drivers |
| system clock, `mtimer.c`, `intel_niosv.h`, `alt_busy_sleep.c` | `mtime`, `mtimecmp`, timestamp offset | timer interrupt, `alt_timestamp`, `usleep` | the processor's machine timer; `alt_tick` |
| time of day, `alt_gettod.c`, `alt_settod.c`, `alt_times.c` | `alt_resettime` | get, set, times | the tick count |
| file descriptors, `alt_dev.c`, `alt_open.c`, `alt_close.c`, `alt_fd_lock.c`, ... | the pool `alt_fd_list`, `alt_max_fd` | open, close, lock, unlock, fcntl, redirect | devices |
| device lists, `alt_find_dev.c`, `alt_find_file.c`, `alt_llist.h`, DMA and flash front ends | four circular lists | register, find by name, open, call | drivers that are not part of the repository |
| interrupts, `alt_iic*.c`, `alt_irq.h`, `alt_vic_*`, `alt_irq_handler.c` | handler table, `mie`, `mstatus.MIE`, the CLIC's registers | register, enable, disable, configure, dispatch | interrupt routines above |
| traps, `machine_trap.S`, `alt_vic_isr_wrapper.c`, exception handlers | the saved context | enter, return | every interrupt and exception |
| heap and profiler, `alt_sbrk.c`, `alt_gmon.c`, `alt_mcount.S` | `heap_end`, call graph, histogram | `sbrk`, `mcount`, sampling at ticks | the stack, `malloc` |
| formatted output and log, `alt_log_printf.c`, `alt_printf.c` | the parser's state, two buffers | print, echo a write, log the clock and the UART | every driver that logs |
| caches, `alt_dcache_*.c` | data cache, memory | flush, invalidate, clean | a device that reads and writes memory |
| platform access API, `intel_fpga_api_*` | the vector of interfaces, the stack of parents | scan the feature lists, open, close | the hardware's feature headers; interrupts |
| board logic, `hdl/`, `ip/` | power-on reset, PLL lock, synchronisers, debounce counters, edge detectors | one step per clock edge | PIOs, the HPS and its reset |

What is hard in them, and what makes each correct:

- The UART driver shares its rings between calls and the interrupt routine without locks
  and mostly without critical sections. Correct means that no byte is lost, repeated or
  reordered, that no interrupt is left off while it is needed, that a call neither gives
  up early nor waits for ever when it may time out.
- Alarm callbacks change the list that `alt_tick` is walking. Correct means that each
  registered alarm is called on its tick, once, and no other.
- A 32-bit processor reads and writes 64-bit timer registers and tick counts a word at a
  time, while time passes and the interrupt may come. Correct means that no torn value is
  used, or that it is known how far off it can be, and that ticks are neither early nor
  lost.
- A handler, its context and its enable bit are stored one after the other. Correct means that
  no interrupt finds half of them, and that critical sections may be nested.
- A trap must give the interrupted context back as it was, however deep traps nest.
- Start-up has an order, and the application depends on it without saying so. A reset of
  the processor alone starts it again over what is left of the memory.
- Long sequences of opens, closes, locks and flag changes must leave the descriptor pool
  consistent: the searches for locks stop at a high-water mark.
- A walk over lists of lists, written recursively, keeps a stack of its own.
- Cache lines are larger than what is flushed, and leave the cache when they like.
- A reset pulse for the HPS resets the detector that makes it. Correct means that the pulse is
  whole and that it does not repeat; and that no bounce of a button gets through.

`PROJECT.json` lists all components, those not modelled too, and all hazards with the
properties that cover them.

## The modules

| module | models | notes |
| --- | --- | --- |
| `JtagUart` | the interrupt-driven UART driver, its device and the host | the unit of interleaving is an access to shared state; `pc` is the application, `ipc` the interrupt routine |
| `BytePipe` | abstract: a bounded FIFO of bytes | `JtagUart` implements it once in each direction (`TxPipe`, `RxPipe`) |
| `AlarmList` | alarms as a linked list, and the tick's walk | list operations assignment by assignment |
| `AlarmSet` | abstract: a set of alarms, each with its due tick | `AlarmList` implements it (`ImplementsAlarmSet`) |
| `MachineTimer` | system clock, timestamp, delay, reading of the tick count | both contexts run the same word-by-word routines |
| `FdTable` | descriptor pool, locks, redirection | a call is one step |
| `Firmware` | start-up order of the drivers and `main` | one action per statement |
| `Board` | power-on reset, Nios V reset, button debouncers, reset pulse generators | synchronous: `Clock` is one rising edge |
| `Interrupts` | handler table, enable bits, critical sections, dispatch in vectored and direct mode | a registration is one step per store |
| `TrapContext` | what a trap saves, restores and returns to, in four builds | a register holds the number of the context whose value it is |
| `Clic` | level, priority, trigger and enable bits behind MISELECT | interrupts are on between selection, read and write, unless the caller has turned them off |
| `Startup` | crt0, `alt_load`, `alt_main`, constructors, exit, signals; reset at any step | memory is a function of words; sections have sizes |
| `TimeOfDay` | `gettimeofday`, `settimeofday`, `times` | the tick count is read word by word, in either order |
| `Profiler` | `sbrk`, `mcount`, program counter sampling and its alarm | a handler's `mcount` may come between any two steps of the program's |
| `Log` | both small `printf`'s, and what the HAL logs | one character of a format per step |
| `Channels` | the lists of DMA channels, flash devices and filesystems, their search and use | names are short sequences of characters |
| `Caches` | the three calls that keep cache and memory in step | a call takes one line per step, while lines are evicted |
| `FeatureList` | both walks of the feature lists, the interfaces found | `walk` is the recursion's stack |
| `Processor` | `Interrupts`, `TrapContext`, `Clic`, `Caches` and `FeatureList`: what the HAL does with the processor and finds around it | their constants, variables and assumptions |
| `Hal` | the services that share no state, in one run: `FdTable`, those of `Processor`, and the others | `serving` chooses the service |
| `MCJtagUart`, `MCFdTable`, `MCStartup`, `MCFeatures`, `MCHal` | constants for TLC | `MCFeatures` has the layouts of features |
| `..._proofs` | theorems about the module of that name; `HalParts_proofs` has the theorems on the descriptors and the lemmas on the services of `Processor`, from which `Hal_proofs` has its theorems; `Log_proofs` has those on the log and on all types of `Hal` | |

Each variable has the name of the C variable it stands for; `PROJECT.json` "map" gives the
lines of every definition. Definitions named `Mut...` stand beside the definition they
vary and contain a plausible bug; no model uses them, and they exist so that each
property can be seen to fail.

**How they compose.** `JtagUart` over its device implements `BytePipe`; `Firmware` stands on
that with a console that has room or has not. `AlarmList` implements `AlarmSet`, and `MachineTimer`
has the interrupt that calls it. `Startup` ends where `Firmware` begins, and has the order of
`alt_sys_init` in common with it. `Hal` composes the services of the HAL that do not share
state, those that deal with the processor through `Processor`: at the start one is chosen and only its steps are taken, so that a state space is
the sum and not the product of theirs.

**JtagUart.** A byte is its position in its stream, so that loss, repetition and
overwriting are visible in `tx_buf`, `rx_buf` and the FIFOs. The application's steps are
those between which the interrupt may come: `WriteFill` reads the indices, `WriteCopy`
copies, `WritePublish` moves `tx_in`, `WriteKick` turns the interrupt on in a critical
section, `WriteSpin` and `WriteCheck` wait; `read` and `close` likewise. The interrupt
routine is split at its register accesses, between which the host acts. One simplification:
`AlarmTimeout` is one step, as it runs at interrupt level. What the compiler may do to
non-volatile indices is not modelled: statements take effect in program order.

**MachineTimer.** A word holds `W` values instead of 2^32. `Clock` advances `mtime` between any
two accesses. `Tick` keeps of `alt_tick` only the tick count; `AlarmList` has the rest.
`alt_alarm_start` reads the tick count with interrupts off, the application reads it with
interrupts on, in the order the compiler chooses.

**AlarmList.** `alt_alarm_start` and `alt_alarm_stop` run with interrupts disabled and are one
step each; the walk is split at each callback, because a callback may start and stop
alarms. An alarm counts as registered until it is stopped or its callback returns 0.

**FdTable.** Names are abstracted to the device they find. `Call` stands for a call that reaches
a driver; `CanRead` and `CanWrite` are the conditions of `alt_read` and `alt_write`.

**Firmware.** The console is reduced to the room left in it, and to whether the driver can time
out. That `printf` returns when the host reads, or when a driver that can time out does,
is what the run `uart_live` shows of the driver. What a short output loses by a timeout is
not represented, only that it returns. `alt_nticks()` is two loads, in either order, with
ticks in between (`LoadLow`, `LoadHigh`), and the subtraction of `main.c:71` is that of
unsigned numbers. A carry between the loads therefore makes a reading a whole word too high or
too low, and the LED changes at the wrong time: `BlinksInTime` says that it does so in no other
case, and `KeepsBlinking` that it goes on. `reading` and `toggled` are history.

**Board.** `Clock` updates every register from the values before the edge; buttons, JTAG
sources, PLL and HPS change between edges at any time. A button's stages are TRUE when it is
pressed (the pins are active low). The shift register of a pulse is the set of its bits
that are one. `samples`, `fresh` and `age` are history and guard nothing. `debounce.v:23` asks
for a counter of ceil(log2(TIMEOUT)) bits; for a power of two that is one bit too few for
the counter to reach `TIMEOUT`, so `BoardAssumption` states what is needed instead, which
50000 in 16 bits satisfies.

**Interrupts.** `alt_ic_isr_register` disables interrupts, stores the handler, stores the
context, sets or clears the enable bit, and restores. Calls that lie between
`alt_irq_disable_all` and `alt_irq_enable_all` of the program are modelled with the status
word they pass on, so that nested sections are told apart. A negative id also passes the
test `id < ALT_NIRQ` (`alt_iic.c`); the model's ids are in range, which is the caller's duty.

**TrapContext.** The `ra`, `t0` .. `t6` and `a3` .. `a7` of the code are handled alike, and one
register `t` stands for them. `ContextRestored` is stated without exceptions and does not
hold; `ReturnsWhereInterrupted` leaves three cases out, each of which the code's reader
should know: the short exit of a CLIC build that restores `a0` and `a1` but has changed
`a2`, an exception in that build, which writes back an `mcause` that only interrupts have
stored, and a vectored handler that itself faults, since the wrapper does not save `mepc`.

**Startup.** A word of memory holds what the linker gave it, zero, or anything else. `Reset`
may come at any step of any start, since the PLL's lock is part of the Nios V reset. In
this build nothing loads `.data` again, so the device list survives. The loop of crt0 that
clears `.bss` stores before it compares, and so writes one word past an empty one; the
layouts considered have a `.bss`, as this program does.

**Clic.** The functions of `alt_irq.h` mask no interrupts. `Select` starts a call of the program,
with interrupts on or turned off by its caller; between `Select`, `Read` and `Write` a handler may
make a whole call (`HandlerCall`) or ask for the state of an interrupt (`HandlerReads`), which
leaves MISELECT at its register. What the program then reads and writes is that register, of
whichever of the two kinds. `suspect` collects, as history, the interrupts in the registers of
a call that was interrupted so and in those that the handler selected; `FieldsAsAsked` speaks
of all others. A write that was diverted can change any byte of the register it reaches, and
one that comes after a handler's undoes it.

**Profiler.** The flag by which the sampler is started is tested, cleared and set again in steps of their
own. A handler in between starts the sampler too, and `alt_llist_insert` then links its alarm to
itself: the next tick does not end (`hung`). `TicksEndUnlessTwice` says that nothing else makes it
so. A sample is counted in the bucket of
its address, which for a text that is not made of whole buckets is one behind the
histogram; the model stops (`failed`) where that is in another's block.

**FeatureList.** Layouts are trees in which a feature may have any number of branches and lists
may be nested to any depth. `dfh_parent_stack_push` grows the stack when its top has reached
its size, which is one push too late; the model ends in `overrun` when an entry is written
behind the stack.

**TimeOfDay.** `times` returns the count's low word, as `clock_t` has it.

**Clic, TrapContext's last three builds, Profiler, Log's levels, Caches.** Code of the BSP
that the options of this build leave out, and other settings of the generated `system.h`
take in. They are modelled with those options on.

## The runs

| run | question | bounds |
| --- | --- | --- |
| `uart` | do both directions keep every byte, and every needed interrupt on? is each a byte pipe? | rings of 3 slots, FIFOs of 2 and 1, calls of 0, 1 and 3 bytes, 4 bytes each way |
| `uart_live` | do calls return, do accepted bytes arrive, with a cable that comes and goes? | rings of 2 slots, FIFOs of 1, calls of 3 bytes |
| `alarms` | is every registered alarm called on time under any start/stop? | 3 alarms, intervals 0..1, periods 0..2, 4 ticks |
| `alarm_stop` | (violated) is a stopped alarm never called? | 2 alarms |
| `timer` | are 64-bit accesses safe, ticks never early, sleeps long enough? | words of 4 values, ticks of 2 cycles, 6 cycles |
| `timer_drift` | (violated) do ticks keep up with the clock? | latency of 1 cycle, 8 cycles |
| `fd_lock` | (violated) is a granted lock exclusive? | 2 descriptors beside the streams |
| `firmware` | does the loop follow its inputs and keep blinking, in time but for torn readings? | switches 0 and 15, half periods 2 and (rounded up) 1 ticks, words of 3 values, room for 2 reports |
| `firmware_no_host` | (violated) does it blink with no host? | the same |
| `board` | is a reset pulse whole and single, is a button seen without its bounces, does the Nios V start? | one button, 2 detectors, `TIMEOUT` 2, pulses of 3 cycles |
| `hal` | does every service keep what it promises? | below |
| `restart` | (violated) does a search of the device list end after a reset? | one constructor, 2 starts |

Each service of the run `hal`, its property and what it says:

| service | property | says | bounds |
| --- | --- | --- | --- |
| files | `PoolIsExact`, `StdioConnected`, `LocksAreSound` | descriptors in use are those opened and not closed, the streams stay connected from `main` on, and a locked device is not opened | 3 descriptors beside the streams, a filesystem that may refuse |
| interrupts | `DispatchIsSound`, `CriticalSectionsHold` | no interrupt is spurious, a routine has its own context, and critical sections are not interrupted | 2 interrupts, 2 routines |
| traps | `ReturnsWhereInterrupted` | a trap goes back to what it interrupted with its registers | 3 builds, traps 3 deep |
| clic | `FieldsAsAsked` | every field of every interrupt is the one last asked for, but for those in the registers of a call that a handler came into or of that handler's | 3 interrupts, 2 of which share a byte register, 2 calls |
| platform | `ScanIsSound` | every interface is described once; one behind a feature's first branch has that feature for a parent, one behind a later branch the interface described before it; the vector is not left, and the stack only where lists are nested as deep as its increment; nothing leaks | 3 interfaces: in one list, nested up to three deep, behind one or two branches of a feature; 4 kinds of layout; an increment of 3 |
| times | `ClockIsKept` | time goes on from what was set, by counts that are the clock's or one word off where a carry tore them | a count of 2 words of 3 values, 7 ticks |
| start | `StartIsSound` | at `main`, memory, interrupts, devices, streams and constructors are ready, also after resets | sections empty or not, 3 starts |
| profile | `ProfileIsSound` | blocks of the heap are apart and below the limit; samples are in a histogram or in the one bucket behind it; every call is counted, but those stored over while a handler counted on the same arc; ticks end unless the sampler was started twice | 3 arcs, 2 callees in one hash bucket, 3 calls, memory for two slabs, a text of 2 buckets and a byte |
| log | `LogIsSound` | what comes out is what the message says, an echo is one line that does not end the terminal's connection, whatever the buffer held before | 16 conversions, values at the edges of 8 bits, writes of 1, 2 and 5 characters |
| channels | `ChannelsAreFound` | the device of the name is found, or the error; a file goes to the filesystem its name is below | 4 devices, of which two have one name |
| caches | `CachesAreSound` | nothing written is lost but by an invalidation; after a flush or an invalidation no byte of the region is in the cache | 2 lines of 2 bytes, 4 bytes of memory |

Why the bounds are enough. A ring of three slots has all three cases of the free-space
computation (`tx_in` before, behind, and with `tx_out` at zero), wraps within four bytes
and can be full, empty and half full; a call of 3 bytes needs more than one round. Four
alarm ticks let an alarm be called, rescheduled past another and stopped within a walk,
and three alarms give the walk a middle. With words of four values, the clock carries into
its high word at 4 and so does a target set at 2 or 3; a latency up to the whole run holds
interrupts off for any time. Three descriptors are the fewest with one below, one at
and one above any other. Two detectors are enough for one pulse to reset the other's
detector, and a pulse of three cycles has a beginning, a middle and an end for it to
happen in; buttons do not interact, so that one stands for all. Three interfaces make a
list below a list, two lists below one feature, and a list beside one; nested three deep they are
one too many for a stack that grows by three, and the run reaches its overrun. Two calls are what it
takes for one to come into the other, and three interrupts have one outside of their register.
With words of three values the firmware's tick count wraps around after nine ticks, and carries into
its high word at every third. Three nested traps have one that interrupts a
handler and is interrupted. Two arcs of one callee and one of another share a bucket, so
that a chain is searched and extended; the third slab fails. Two lines of two bytes have
regions that begin and end inside of a line, and bytes of the program and of the device
in one.

Deadlock is checked but in three runs. In `uart`, with no host and no timeout, a blocking call
waits for ever, as the driver intends, and the bounds on bytes end the rest. In `hal` and
`restart` the processor stops: at the end of `_exit`, in a stack overflow, after a failed
scan, or when the bound on starts, calls or ticks is reached.

## Fairness

- `JtagUart`: the processor keeps executing the call and the interrupt routine. The call has
  strong fairness, since the interrupt keeps pre-empting it and since the spin loops run
  millions of rounds between two alarms, so that they see every value of `host_inactive`.
  The alarm fires once a second. A host that is attached reads; nothing is assumed of one
  that is not, and nothing makes the cable stay.
- `MachineTimer`: time passes and the two contexts execute. Nothing is assumed of when interrupts
  are enabled beyond what the code does.
- `AlarmList`: a tick that began goes on; callbacks return (they are interrupt-level code).
- `Board`: the clock runs and a PLL out of reset locks, though it may lose its lock again.
- `Firmware`: the processor runs, ticks come once there is a rate, and a host, where `Host` says
  there is one, reads. The user is not fair: inputs may change for ever or never.
- `Hal`: none. Its services promise safety only.

## What is proved

With TLAPS, for all values of the constants that satisfy the modules' assumptions:

- `JtagUart_proofs`: type correctness, `TxStream`, `RxStream`, `NoLostWakeup`, `NeverTimesOut`
  (which follows from the types) and `ImplementsPipes`, for every ring length, FIFO depth,
  timeout and number of bytes. The invariant is `IInv`. What the properties lack to be
  inductive is what the code has read and not yet used: a chunk being copied starts at
  the index as it is now and fits into slots the other side will not touch (`CallInv`), a
  `read` that goes on wants bytes (`ReadInv`), and the FIFO has at least the room the
  interrupt routine counts on, which stops receive interrupts for a full ring only
  (`IrqInv`). The lemmas on ring arithmetic (`AdvanceIsSlot` and those after it) carry the
  modular part; then one lemma per action. For the refinement, `TxWire` and `RxWire` show that
  what lies in a ring and its FIFO is the stretch of the stream between two of the stream's
  positions; a step moves one of the two (`StreamFrame`), and a stretch that grows or shrinks
  at an end is what `BytePipe`'s `Put` and `Get` say.
- `HalParts_proofs`, its last part: `TypeOK`, `PoolIsExact`, `StdioConnected` and the action property on locks,
  for every pool size, set of filesystems and set of flags. The invariant has one fact
  that is not obvious: `alt_fd_lock` looks one descriptor short, and yet no device ever
  gets two locks: the only other descriptor that can be open on a device when it is locked is
  the one the search misses, the highest, and a locked device is not opened again, so that a
  locked descriptor is the lowest of its device (`LockIsLowest`). `StdioInv`
  follows the redirection stream by stream.
- `Board_proofs`: the invariants of the run `board` and `PulsesAreSound`, for any
  number of buttons and detectors, debouncing time and pulse length. A counter of k stands for
  k samples that were pressed (`DebounceInv`); the first bit of a pulse is where its age
  says until it is shifted out (`PulseInv`); an armed detector has seen its request low since its
  last pulse (`DetectInv`).
- `MachineTimer_proofs`: `TypeOK`, `ClockIsSound` and `SleepLongEnough`, for words of any size
  and ticks of any length. A reading in progress is tied to the time at which its low word was
  current (`ReadingInv`), a compare register being written to a target that is not passed on
  the way (`CompareInv`), a sleep to the time it began (`SleepInv`), and the two contexts never
  set the register at once (`ModeInv`).
- `AlarmList_proofs`: `TypeOK` and `ListIsRegistered`, for any number of alarms and any
  callbacks, those that stop the next alarm included: every stop relinks the two neighbours
  and leaves a node pointing to itself (`OffInv`), on which a saved cursor can go on
  (`WalkInv`). Where no callback stops the alarm after its own, only registered alarms are
  called (`RegisteredCalled`); the run `alarm_stop` shows that the condition is needed.
- `Hal_proofs`, with the lemmas of `HalParts_proofs`, and `Log_proofs`: the ten services of `Hal`
  beside the files. Each has an inductive invariant of its own, which `HalSpec` keeps because a step of `HalNext`
  is a step of that service or leaves its variables alone (`...Keeps`):
  - `DispatchSound`, `SectionsHold` (interrupts, `IrqInv`): for any number of interrupts and
    routines. The table, the enable bits and `mstatus.MIE` together tell where a registration is.
  - `TrapsReturn` (traps, `TrapInv`): for any depth, and the three builds that restore their context;
    the fourth, with a CLIC and the short exit, does not: the hazard at `machine_trap.S:418`
    says what is lost. At every depth of nesting, a handler has in its frame or still in the
    registers what it will give back, and keeps interrupts off while the CSRs say where it returns to.
  - `FieldsKept` (clic, `ClicInv`): for any interrupts, widths of fields and trigger modes, with handlers
    between any two steps. The bytes are as asked, or will be when the call in progress is over: a call that
    no handler came into has read what its register still holds. Of one that a handler came into it is
    enough that its write reaches the registers of `suspect` alone.
  - `CachesSound` (caches, `CacheInv`): for any memory, cache and line. A call has emptied or
    cleaned the lines it has come past, and what is not in a dirty line is in memory.
  - `ScanSound` (platform, `ScanInv`): for any finite tree of features, any number of scans and of
    cleanups. There is an order `o` in which headers have been visited, and the calls in progress
    are a path of the tree (`NestedCalls`); the target of a link from a visited header has been reached,
    but for the links that a call has still to follow (`LinksFollowed`), so that when no call is
    left every header has been visited (`WalkEnds`). The vector describes the headers in that order
    and nothing else (`Describes`), each with the parent that the link to it gives (`Parents`), which
    for the lists still to come is on the stack (`ParentsOfCalls`). As `o` has no header twice, it
    is as long as the number of headers (`Counted`), and both walks have the same length. The stack's
    top is the number of lists the calls are in, and its size the increment, so that an entry behind it means that as many
    lists are nested (`CallsInside`).
  - `ClockKept` (times, `ClockInv`): for any word, tick rate and number of ticks. A word that was
    read is that of some moment since the call began, so that the count is of one moment, or one
    word off where the high word changed in between.
  - `ChannelsFound` (channels, `ChannelInv`): for any names and registrations. The search stands at
    an entry before which none has the name, or none a longer prefix of it.
  - `StartSound` (start, `StartInv`): for any layout of the sections, number of constructors and of
    resets. How far each loop is says which words are loaded or cleared.
  - `ProfileSound` (profile, `HeapInv` and `GraphInv`): for any functions and callers, heap, slab,
    text of any size and number of calls. Blocks are below the end of the heap, which only grows, and the
    histogram has one of its own even where a handler has started the sampler again; the bucket behind it is not
    in it, and nothing goes on where it is in another's block. A second start of the sampler
    finds the histogram of the first, and so allocates another (`TwiceInv`). What a
    context has found of the call graph stays there; the calls missed are at least those not counted
    *and* those that the program will store over, as it may have loaded a count that a handler has
    raised since. The counts are sums over the whole graph: `TotalChanged` and `TotalAppended` say how a
    sum changes with one term, for the community modules' `SumFunction`.
  - `LogSound` (log, `LogInv`): for any format made of conversions, any arguments, texts and lengths of
    the echo and of the host's buffer. `MessageInv` relates, at every character, what is left of the
    format and of the arguments to what has been printed: between two conversions that is the text
    of those before, and inside of one the parser's state and flags stand for what has been read of
    its spelling and say what is left of it. That the digits are spelled and read back alike
    is arithmetic on at most two of them for a width, and `HasPlaces` for a number. The echo's
    buffer is shown to be text, `\n`, `\r` and NUL, so that what was in it before is not printed.
  - `TypesHold` (all eleven, `HalTypeOK`): the types that the invariants above leave open. The end of
    the heap may pass its limit, by less than a word, once it has been aligned for a request that was
    refused (`HeapTypes`); what a context has found is in the call graph though the graph grows
    (`McountMoves`). It holds in the builds of `TrapsReturn`.

  Where a set of naturals must have a first element, the lemma `Least` takes it from the order
  on `Nat`. Assumptions: `InterruptsAssumption` (there is an interrupt, and NULL is not a running
  handler), `TrapAssumption`, `ClicAssumption` (fields of a byte), `CacheAssumption` (the memory is made
  of whole lines, and a line is no larger than the cache), `PlatformAssumption` (the features form a finite tree, every feature has a name of its
  own, and the stack's increment is at least two), `ClockAssumption`,
  `StartAssumption`, `ChannelsAssumption`, `ProfileAssumption` (memory is asked for and not given back;
  `free` may do so in the C library, which is not modelled; a slab, of 1020 bytes in the code, has room
  for a record of 12), `LogAssumption` (a word has digits in every base, what is written holds no NUL, and a
  piece of a format is a conversion as the parsers know them, with a width below 100).
- `Firmware_proofs`: type correctness (which has no run of its own), and `BlinksInTime` for a machine word of any width and either order of the loads. A
  count whose loads no carry came between is what the clock had at the load of its low word
  (`ReadingInv`), and so is the count that `blink` last changed by (`ToggledInv`).

Only model-checked: every liveness property and, with it, what rests on fairness and
ENABLED, which are out of the prover's reach; the refinement of `AlarmSet`, whose mapping
reads the list from the head by a recursive operator. Of the traps in the build with a CLIC and no
preemption nothing is claimed, neither by the run `hal`, which leaves it out, nor by a theorem.

## What disagrees with the documentation

Each has a run that TLC must find violated, and an entry in `PROJECT.json` "findings".

1. `alt_sys_init.c:94` initialises the UART before the tick rate is set. The driver's alarm
   cannot be started, its timeout becomes "never", and without a host the output fills up
   and `main` waits in `printf` for ever (`firmware_no_host`).
2. `alt_fd_lock.c:61` misses the highest descriptor and grants a lock on a shared device
   (`fd_lock`).
3. `mtimer.c:72` adds each interrupt's latency to all later ticks (`timer_drift`).
4. `alt_tick.c:102` calls an alarm that the callback before it has stopped (`alarm_stop`).
5. `alt_find_dev.c:64` never comes back to the head of the list after a reset of the
   processor alone: `.data` is not loaded again, the same device is inserted twice and
   points to itself (`restart`).

Four more are in the models, where a property of the run `hal` says exactly how far they go
instead of failing:

- `alt_irq.h:782-784` selects, reads and writes a register of the CLIC with interrupts on. A handler in
  between diverts or undoes the write, which then affects more than the bits 2 and 1 that the comment
  names (:766). `FieldsAsAsked` confines that to the registers of the two calls.
- `alt_gmon.c:265` counts a sample in the text's last part bucket behind the histogram, which has
  only the whole ones (:226). `BlocksAreSound` confines that to one bucket and to such texts.
- `alt_gmon.c:165-168` can start the sampler twice although `__mcount_record` "must be able to cope with
  reentrancy" (:151): its alarm is linked to itself, and the next tick does not end.
  `TicksEndUnlessTwice` says that nothing less does that.
- `intel_fpga_api_cmn_dfl.c:439` gives the list behind a feature's second branch the interface described last for a
  parent, and `:150` grows the stack of parents one push too late, so that ten nested lists
  write an entry behind it. `FeaturesFound` and `WalkIsSafe` say which parent that is and that fewer lists do not.

Also met, and not modelled as errors: `main.c:65` blinks with a half period of 100 ms / (DIPSW + 1)
where `main.c:6` says 500 ms; the firmware's properties hold of either. The comment at
`alt_sbrk.c:47-49` says that there is no bounds checking, and the code refuses a request beyond the heap's limit
(:79-93); that blocks are below it is said of the code. `alt_log_printf.c:98` polls the UART for room and then
writes without masking interrupts, so that a write in between drops the character. The notes of
the hazards in `PROJECT.json` name more.

## Not modelled

- The polled variant of the UART driver is compiled out. Process stubs return errors. The
  register headers of the PIOs have no behaviour; their reads and writes are in `Firmware`. The
  JTAG source is a wrapper of a vendor block; `Board` takes its output as an input. Generated
  systems and constraints are configuration, from which the parameters are taken.
- Concurrency between several threads does not exist in this HAL, and its locks around
  the heap and the environment are empty. Nothing here has a fault that is retried.
- Of the traps: the separate exception stack, the shadow registers, the floating point unit,
  and the decoding of a faulting instruction. Of caches and ECC: the instruction cache
  (its calls are one instruction), remapping (a link error on this processor) and ECC's handlers, which
  store a flag or stop. Of output: the device behind a character, and the semihosting buffer's
  use from two contexts, against which its own comment warns. Of the profiler: what is
  written when the program ends.
- `alt_busy_sleep.c:100` computes a delay's cycles in 32 bits, so that a sleep of more
  than 42.9 s at 100 MHz ends early; `SleepLongEnough` excludes such requests and no others.
- `alt_gmon.c:137` uses what a failed `sbrk` returns; the model stops where it would be
  written through.

## What could follow

`Firmware` over `BytePipe` in place of the console's room, and the UART behind the log's
`printf`, which polls it (`alt_log_printf.c:98`).
