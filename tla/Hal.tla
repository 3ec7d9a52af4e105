-------------------------------- MODULE Hal ---------------------------------
(***************************************************************************)
(* The services of the HAL that share no state, checked in one run: at the *)
(* start one of them is chosen, and only its steps are taken. Each is a    *)
(* module of its own; its constants and variables are those of its name    *)
(* here and in module Processor, but for those that two services have.     *)
(* Module MCHal gives the constants small values.                          *)
(***************************************************************************)
EXTENDS FdTable, Processor, Sequences

CONSTANTS
  ALT_US, TickRates, Times, Word, MaxTicks,
  Layouts, Nctors, MaxStarts,
  Arcs, Increments, heap_limit, StackTops, TextSize, MCOUNT_SLAB_INCREMENT, MaxCalls,
  Pieces, Values, WordSize, Texts,
  ALT_LOG_WRITE_ECHO_LEN, ALT_LOG_SYS_CLK_INTERVAL, ALT_PUTBUF_SIZE,
  Names, Wanted, Files, MAX_STRING_LENGTH

VARIABLES
  serving,  \* the service that steps
  ticks, tick_rate, alt_resettime, todCall, nticks, result, began, set,
  layout, loads, mem, vectors, bootPc, bootMIE, bootMie, uartIsr, clock, list, streams, ran, starts,
  heap_end, checks, stack_limit, overflow, blocks, mcount_slab_ptr, mcount_slab_size, fns,
  pcsample_need_init, sysRate, s_pcsamples, sampled, alarmList, hung, mcountPc, calling, fn, arc, count, failed,
  recorded, missed,
  logging, semihosting, message, fmt, args, parser, fmtFlags, out, putbuf, alt_log_write_buf,
  alt_log_sys_clk_count, alt_system_clock_in_sec,
  following, previous, order, search, fd, opened, errno, reached

times == <<ticks, tick_rate, alt_resettime, todCall, nticks, result, began, set>>
start ==
  <<layout, loads, mem, vectors, bootPc, bootMIE, bootMie, uartIsr, clock, list, streams, ran, starts>>
profile ==
  <<heap_end, checks, stack_limit, overflow, blocks, mcount_slab_ptr, mcount_slab_size, fns,
    pcsample_need_init, sysRate, s_pcsamples, sampled, alarmList, hung, mcountPc, calling, fn, arc, count, failed,
    recorded, missed>>
log ==
  <<logging, semihosting, message, fmt, args, parser, fmtFlags, out, putbuf, alt_log_write_buf,
    alt_log_sys_clk_count, alt_system_clock_in_sec>>
channels == <<following, previous, order, search, fd, opened, errno, reached>>

Time == INSTANCE TimeOfDay WITH call <- todCall

\* A word has values, and the rates divide a second into whole microseconds.
ASSUME ClockAssumption ==
  /\ Word \in Nat \ {0} /\ ALT_US \in Nat \ {0} /\ MaxTicks \in Nat
  /\ \A rate \in TickRates : rate \in Nat \ {0} /\ ALT_US % rate = 0
  /\ Times \subseteq [tv_sec : Int, tv_usec : Int]

Start == INSTANCE Startup WITH
  pc <- bootPc, MIE <- bootMIE, mie <- bootMie, alt_irq <- uartIsr, tick_rate <- clock,
  next <- list

\* Sections have sizes, and .bss is not empty: the HAL has variables there.
ASSUME StartAssumption ==
  /\ Layouts \subseteq [tdata : Nat, tbss : Nat, data : Nat, bss : Nat \ {0}, part : Nat]
  /\ Nctors \in Nat /\ MaxStarts \in Nat \ {0}

Profile == INSTANCE Profiler WITH
  tick_rate <- sysRate, next <- alarmList, pc <- mcountPc, call <- calling

\* malloc and the profiler ask for more memory, what free may give back is left out; a slab has
\* room for a record.
ASSUME ProfileAssumption ==
  /\ \A a \in Arcs : a = [self |-> a.self, from |-> a.from]
  /\ Increments \subseteq Nat
  /\ MCOUNT_SLAB_INCREMENT \in Nat /\ Profile!EntrySize <= MCOUNT_SLAB_INCREMENT
  /\ heap_limit \in Nat /\ TextSize \in Nat

Logging == INSTANCE Log WITH level <- logging, state <- parser, buf <- putbuf

\* Words have digits in every base, and what is written is text, without a NUL.
ASSUME LogAssumption ==
  /\ ALT_LOG_WRITE_ECHO_LEN \in Nat /\ ALT_LOG_SYS_CLK_INTERVAL \in Nat
  /\ ALT_PUTBUF_SIZE \in Nat \ {0} /\ \A p \in Pieces : Logging!IsPiece(p)
  /\ \A v \in Values \cup {0, 1} : \A letter \in Logging!Numbers : \E n \in 1 .. WordSize :
       Logging!HasPlaces(Logging!Magnitude(v, letter \in Logging!Signed), Logging!Base(letter), n)
  /\ \A text \in Texts :
       text \in Seq({text[i] : i \in DOMAIN text}) /\ \A i \in DOMAIN text : text[i] # Logging!Ch("0")

Channel == INSTANCE Channels WITH next <- following

\* Devices are not lists, names do not hold the NUL at their end, and those of devices end before
\* their comparison does.
ASSUME ChannelsAssumption ==
  /\ DOMAIN Names \cap Channel!Lists = {} /\ NULL \notin Channel!Nodes
  /\ MAX_STRING_LENGTH \in Nat \ {0}
  /\ \A name \in Wanted \cup Files : name \in Seq(Nat \ {0})
  /\ \A d \in DOMAIN Names :
       /\ Names[d] \in Seq(Nat \ {0})
       /\ \/ Len(Names[d]) < MAX_STRING_LENGTH
          \/ /\ Len(Names[d]) = MAX_STRING_LENGTH
             /\ Names[d][MAX_STRING_LENGTH] = Channel!Slash

Only(service) ==
  /\ serving = service /\ UNCHANGED serving
  /\ IF service = "files" THEN TRUE ELSE UNCHANGED vars
  /\ IF service = "interrupts" THEN TRUE ELSE UNCHANGED interrupts
  /\ IF service = "traps" THEN TRUE ELSE UNCHANGED traps
  /\ IF service = "clic" THEN TRUE ELSE UNCHANGED clic
  /\ IF service = "platform" THEN TRUE ELSE UNCHANGED platform
  /\ IF service = "times" THEN TRUE ELSE UNCHANGED times
  /\ IF service = "start" THEN TRUE ELSE UNCHANGED start
  /\ IF service = "profile" THEN TRUE ELSE UNCHANGED profile
  /\ IF service = "log" THEN TRUE ELSE UNCHANGED log
  /\ IF service = "channels" THEN TRUE ELSE UNCHANGED channels
  /\ IF service = "caches" THEN TRUE ELSE UNCHANGED caches

\* A service that is not chosen has one initial state.
OneOf(S) == CHOOSE x \in S : TRUE
HalInit ==
  /\ serving \in {"files", "interrupts", "traps", "clic", "platform", "times", "start", "profile",
                 "log", "channels", "caches"}
  /\ serving # "interrupts" => vectored = TRUE
  /\ serving # "traps" => build = OneOf(Builds) /\ trapMIE = TRUE /\ hasExceptionHandler = FALSE
  /\ serving # "platform" => dfl = OneOf(Hardware)
  /\ serving # "start" => loads = FALSE /\ layout = OneOf(Layouts)
  /\ serving # "profile" => checks = TRUE
  /\ serving # "log" => logging = 0 /\ semihosting = FALSE
  /\ Init /\ Irq!Init /\ Trap!Init /\ Configuration!Init /\ Platform!Init
  /\ Time!Init /\ Start!Init /\ Profile!Init /\ Logging!Init /\ Channel!Init /\ Cache!Init

HalNext ==
  \/ Only("files") /\ Next
  \/ Only("interrupts") /\ Irq!Next
  \/ Only("traps") /\ Trap!Next
  \/ Only("clic") /\ Configuration!Next
  \/ Only("platform") /\ Platform!Next
  \/ Only("times") /\ Time!Next
  \/ Only("start") /\ Start!Next
  \/ Only("profile") /\ Profile!Next
  \/ Only("log") /\ Logging!Next
  \/ Only("channels") /\ Channel!Next
  \/ Only("caches") /\ Cache!Next

halVars ==
  <<serving, vars, interrupts, traps, clic, platform, times, start, profile, log, channels,
    caches>>
HalSpec == HalInit /\ [][HalNext]_halVars

-----------------------------------------------------------------------------
(* Properties of the services; those of the files are FdTable's *)

HalTypeOK ==
  CASE serving = "files"      -> TypeOK
    [] serving = "interrupts" -> Irq!TypeOK
    [] serving = "traps"      -> Trap!TypeOK
    [] serving = "clic"       -> Configuration!TypeOK
    [] serving = "platform"   -> Platform!TypeOK
    [] serving = "times"      -> Time!TypeOK
    [] serving = "start"      -> Start!TypeOK
    [] serving = "profile"    -> Profile!TypeOK
    [] serving = "log"        -> Logging!TypeOK
    [] serving = "channels"   -> Channel!TypeOK
    [] serving = "caches"     -> Cache!TypeOK

\* Interrupts: a pending interrupt finds its routine, called with its own context.
DispatchIsSound == Irq!DispatchIsSound

\* Interrupts: critical sections, nested ones too, are not interrupted.
CriticalSectionsHold == Irq!CriticalSectionsHold

\* TrapContext: a trap goes back to what it interrupted.
ReturnsWhereInterrupted == Trap!ReturnsWhereInterrupted

\* Clic: every interrupt has the configuration last asked for, but where handlers came into calls.
FieldsAsAsked == Configuration!FieldsAsAsked

\* FeatureList: a scan that nests less deeply than the stack's increment stays inside of its stack
\* and vector, describes every interface, those behind a feature's first branch with the right
\* parent, and leaves nothing behind.
ScanIsSound == Platform!ScanIsSound

\* TimeOfDay: the time goes on from what was set, by counts the clock had.
ClockIsKept == Time!ClockIsKept

\* Startup: main finds memory, interrupts, devices and streams ready, after any restart.
StartIsSound == Start!StartIsSound

\* Profiler: blocks of memory are apart, samples are in a histogram or one bucket behind it, every
\* call is counted, and ticks end unless the sampler was started twice.
ProfileIsSound == Profile!ProfileIsSound

\* Log: a message is what printf makes of it, and an echo a line of what was written.
LogIsSound == Logging!LogIsSound

\* Channels: who opens a name reaches the device of that name.
ChannelsAreFound == Channel!ChannelsAreFound

\* Caches: the program and a device find what the other has written.
CachesAreSound == Cache!CachesAreSound
=============================================================================
