------------------------------ MODULE Profiler ------------------------------
(***************************************************************************)
(* The heap under malloc and the profiler that shares it: sbrk, the call   *)
(* graph that mcount records at the start of every function, and the       *)
(* histogram of program counters that is sampled at every tick.            *)
(*                                                                         *)
(* mcount runs in the program and in interrupt handlers. The program is    *)
(* interrupted between any two steps, but not in __mcount_record's update  *)
(* or in sbrk; a handler is not interrupted.                               *)
(*                                                                         *)
(* A definition named Mut... is the one after it with a plausible bug in.  *)
(***************************************************************************)
EXTENDS Integers, Sequences, FiniteSetsExt

CONSTANTS
  Arcs,       \* [self, from]: functions of one hash bucket and their callers
  Increments, \* sizes asked of sbrk by malloc
  heap_limit, \* __alt_heap_limit; the heap starts at 0
  StackTops,  \* stack pointers considered
  TextSize,   \* etext - stext
  MCOUNT_SLAB_INCREMENT,
  MaxCalls,   \* bound: instrumented calls
  NULL

PCSAMPLE_BYTES_PER_BUCKET == 32
EntrySize == 12  \* of a function entry, and of an arc
NoCall == [self |-> NULL, from |-> NULL]

VARIABLES
  heap_end,
  checks, stack_limit, overflow,  \* ALT_STACK_CHECK: the limit; the stack was too deep
  blocks,                \* history: what was allocated, as [at, size, by]
  mcount_slab_ptr, mcount_slab_size,
  fns,                   \* the list of function entries, the newest last
  pcsample_need_init, tick_rate,
  s_pcsamples, sampled,  \* the histogram's address, or NULL; the entries written
  next,                  \* alt_alarm_list: the links of its head and of the sampler's alarm
  hung,                  \* a tick goes round for ever in a list that does not end
  pc, call, fn, arc, count,  \* mcount in the program and in a handler
  failed,                \* memory was used that sbrk did not give, or gave to another
  recorded, missed       \* history: calls recorded, and those a handler added meanwhile

heap == <<heap_end, checks, stack_limit, overflow, blocks>>
slab == <<mcount_slab_ptr, mcount_slab_size>>
sampler == <<pcsample_need_init, tick_rate, s_pcsamples, sampled, next, hung>>
walk == <<pc, call, fn, arc, count>>
history == <<recorded, missed>>
profilerVars == <<heap, slab, fns, sampler, walk, failed, history>>

Contexts == {"program", "handler"}
Each(v) == [c \in Contexts |-> v]

\* Alarms started before the sampler's are behind it in the list and make no difference.
Nodes == {"list", "alarm"}

Init ==
  /\ heap_end = 0 /\ checks \in BOOLEAN /\ stack_limit = 0 /\ overflow = FALSE /\ blocks = {}
  /\ mcount_slab_ptr = 0 /\ mcount_slab_size = 0 /\ fns = <<>>
  /\ pcsample_need_init = TRUE /\ tick_rate = 0 /\ s_pcsamples = NULL /\ sampled = {}
  /\ next = [node \in Nodes |-> "list"] /\ hung = FALSE
  /\ pc = Each("idle") /\ call = Each(NoCall) /\ fn = Each(0) /\ arc = Each(0)
  /\ count = Each(0)
  /\ failed = FALSE /\ recorded = [a \in Arcs |-> 0] /\ missed = 0

Running == ~failed /\ ~overflow /\ ~hung

\* A handler runs to its end, and starts while interrupts are on.
Steps(c, at) == Running /\ pc[c] = at /\ (c = "program" => pc["handler"] = "idle")
GoTo(c, to) == pc' = [pc EXCEPT ![c] = to]

-----------------------------------------------------------------------------
(* sbrk *)

Aligned(a) == 4 * ((a + 3) \div 4)

\* The stack's limit, where the program looks for an overflow.
alt_stack_limit == stack_limit
alt_set_stack_limit(limit) == stack_limit' = limit
alt_report_stack_overflow == overflow' = TRUE

\* The end is aligned before the limit is looked at, and stays so. With stack checking,
\* a limit that is the end of the heap moves with it; the stack pointer has to be above.
Fits(incr) == Aligned(heap_end) + incr <= heap_limit
Extend(incr, sp, owner) ==
  LET end == Aligned(heap_end)
      moves == checks /\ alt_stack_limit = end
  IN  /\ heap_end' = end + incr
      /\ IF moves /\ sp <= end + incr THEN alt_report_stack_overflow ELSE UNCHANGED overflow
      /\ IF moves THEN alt_set_stack_limit(end + incr) ELSE UNCHANGED stack_limit
      /\ blocks' = blocks \cup {[at |-> end, size |-> incr, by |-> owner]}
      /\ UNCHANGED checks
Refuse == heap_end' = Aligned(heap_end) /\ UNCHANGED <<checks, stack_limit, overflow, blocks>>

\* malloc: it may be interrupted, though not in sbrk, and is not called by handlers.
Malloc(incr, sp) ==
  /\ Steps("program", "idle") /\ IF Fits(incr) THEN Extend(incr, sp, "malloc") ELSE Refuse
  /\ UNCHANGED <<slab, fns, sampler, walk, failed, history>>

-----------------------------------------------------------------------------
(* The call graph *)

\* The newest of the first n entries that match.
Newest(S) == Max(S \cup {0})
FindFunction(self, n) == Newest({i \in 1 .. n : fns[i].self = self})
FindArc(f, from) == Newest({j \in DOMAIN fns[f].arcs : fns[f].arcs[j].from = from})

\* mcount_allocate cuts records off a slab; what is left of a slab too small for one is
\* lost. -1 is used as if it were memory.
Allocate ==
  IF EntrySize <= mcount_slab_size
  THEN /\ mcount_slab_ptr' = mcount_slab_ptr + EntrySize
       /\ mcount_slab_size' = mcount_slab_size - EntrySize
       /\ UNCHANGED <<heap, failed>>
  ELSE IF Fits(MCOUNT_SLAB_INCREMENT)
  THEN /\ \E sp \in StackTops : Extend(MCOUNT_SLAB_INCREMENT, sp, "slab")
       /\ mcount_slab_ptr' = Aligned(heap_end) + EntrySize
       /\ mcount_slab_size' = MCOUNT_SLAB_INCREMENT - EntrySize
       /\ UNCHANGED failed
  ELSE Refuse /\ failed' = TRUE /\ UNCHANGED slab

\* A function is entered: mcount looks for its entry, and for an arc of it.
Made == SumFunction(recorded)
Enter(c, a) ==
  /\ Steps(c, "idle") /\ Made < MaxCalls
  /\ c = "handler" => pc["program"] # "arc"
  /\ call' = [call EXCEPT ![c] = a] /\ fn' = [fn EXCEPT ![c] = FindFunction(a.self, Len(fns))]
  /\ GoTo(c, IF fn'[c] = 0 THEN "start" ELSE "arcs")
  /\ UNCHANGED <<heap, slab, fns, sampler, arc, count, failed, history>>
WalkArcs(c) ==
  /\ Steps(c, "arcs") /\ arc' = [arc EXCEPT ![c] = FindArc(fn[c], call[c].from)]
  /\ GoTo(c, IF arc'[c] = 0 THEN "start" ELSE "load")
  /\ UNCHANGED <<heap, slab, fns, sampler, call, fn, count, failed, history>>

\* A count is loaded and stored one larger: a handler may count in between.
LoadCount(c) ==
  /\ Steps(c, "load") /\ GoTo(c, "store")
  /\ count' = [count EXCEPT ![c] = fns[fn[c]].arcs[arc[c]].count]
  /\ UNCHANGED <<heap, slab, fns, sampler, call, fn, arc, failed, history>>
StoreCount(c) ==
  /\ Steps(c, "store") /\ GoTo(c, "idle")
  /\ fns' = [fns EXCEPT ![fn[c]].arcs[arc[c]].count = count[c] + 1]
  /\ recorded' = [recorded EXCEPT ![call[c]] = @ + 1]
  /\ missed' = IF c = "handler" /\ pc["program"] = "store"
                    /\ <<fn[c], arc[c]>> = <<fn["program"], arc["program"]>>
               THEN missed + 1 ELSE missed
  /\ UNCHANGED <<heap, slab, sampler, call, fn, arc, count, failed>>

\* __mcount_record's update, with interrupts off: an entry for a function not found before,
\* and an arc of it.
MutRecordFunction(c) ==
  /\ Steps(c, "record") /\ GoTo(c, "arc")
  /\ IF fn[c] # 0 \/ fns # <<>> THEN fn' = [fn EXCEPT ![c] = Len(fns)]
                                  /\ UNCHANGED <<heap, slab, fns, failed>>
     ELSE /\ Allocate /\ fns' = Append(fns, [self |-> call[c].self, arcs |-> <<>>])
          /\ fn' = [fn EXCEPT ![c] = Len(fns) + 1]
  /\ UNCHANGED <<sampler, call, arc, count, history>>
RecordFunction(c) ==
  /\ Steps(c, "record") /\ GoTo(c, "arc")
  /\ IF fn[c] # 0 THEN UNCHANGED <<heap, slab, fns, fn, failed>>
     ELSE /\ Allocate /\ fns' = Append(fns, [self |-> call[c].self, arcs |-> <<>>])
          /\ fn' = [fn EXCEPT ![c] = Len(fns) + 1]
  /\ UNCHANGED <<sampler, call, arc, count, history>>
RecordArc(c) ==
  /\ Steps(c, "arc") /\ GoTo(c, "idle") /\ Allocate
  /\ fns' = [fns EXCEPT ![fn[c]].arcs = Append(@, [from |-> call[c].from, count |-> 1])]
  /\ recorded' = [recorded EXCEPT ![call[c]] = @ + 1]
  /\ UNCHANGED <<sampler, call, fn, arc, count, missed>>

-----------------------------------------------------------------------------
(* The histogram *)

\* Every arc that is new tries to start the sampler, until the system clock runs. The flag
\* is cleared in a step of its own, so that a handler may start it as well.
TestSampler(c) ==
  /\ Steps(c, "start") /\ GoTo(c, IF pcsample_need_init THEN "clear" ELSE "record")
  /\ UNCHANGED <<heap, slab, fns, sampler, call, fn, arc, count, failed, history>>
ClearFlag(c) ==
  /\ Steps(c, "clear") /\ GoTo(c, "init") /\ pcsample_need_init' = FALSE
  /\ UNCHANGED <<heap, slab, fns, tick_rate, s_pcsamples, sampled, next, hung, call, fn, arc,
                 count, failed, history>>

\* alt_llist_insert: the alarm becomes the first of the list, whether or not it is there.
Inserted == [node \in Nodes |-> IF node = "list" THEN "alarm" ELSE next["list"]]

\* niosv_pcsample_init; the -1 of an sbrk that fails is not the NULL it looks for.
Pcsamples == 2 * (TextSize \div PCSAMPLE_BYTES_PER_BUCKET)
niosv_pcsample_init(c) ==
  /\ Steps(c, "init") /\ GoTo(c, "record")
  /\ IF tick_rate = 0
     THEN pcsample_need_init' = TRUE /\ UNCHANGED <<heap, s_pcsamples, next, failed>>
     ELSE /\ UNCHANGED pcsample_need_init
          /\ IF Fits(Pcsamples)
             THEN /\ \E sp \in StackTops : Extend(Pcsamples, sp, "samples")
                  /\ s_pcsamples' = Aligned(heap_end) /\ next' = Inserted /\ UNCHANGED failed
             ELSE Refuse /\ failed' = TRUE /\ UNCHANGED <<s_pcsamples, next>>
  /\ UNCHANGED <<slab, fns, tick_rate, sampled, hung, call, fn, arc, count, history>>

SysclkInit ==
  /\ Steps("program", "idle") /\ tick_rate = 0 /\ tick_rate' = 1
  /\ UNCHANGED <<heap, slab, fns, pcsample_need_init, s_pcsamples, sampled, next, hung, walk,
                 failed, history>>

\* The alarm's niosv_pcsample counts where in the text the tick interrupted; offset is -1
\* outside of it. The last bucket has no room in the histogram unless it is a whole one.
Bytes(b) == b.at .. (b.at + b.size - 1)
InHistogram(a) == \E b \in blocks : b.by = "samples" /\ {a, a + 1} \subseteq Bytes(b)
InBlock(a) == \E b \in blocks : a \in Bytes(b)
Count(offset) ==
  IF offset \in 0 .. (TextSize - 1)
  THEN LET bucket == s_pcsamples + 2 * (offset \div PCSAMPLE_BYTES_PER_BUCKET)
       IN  /\ sampled' = sampled \cup {bucket}
           /\ failed' = (InBlock(bucket) /\ ~InHistogram(bucket))
  ELSE UNCHANGED <<sampled, failed>>

\* alt_tick goes through the list, and ends where an alarm is linked to the head.
Sample(offset) ==
  /\ Running /\ pc["program"] # "arc" /\ pc["handler"] = "idle" /\ next["list"] = "alarm"
  /\ Count(offset) /\ hung' = (next["alarm"] = "alarm")
  /\ UNCHANGED <<heap, slab, fns, pcsample_need_init, tick_rate, s_pcsamples, next, walk, history>>

Next ==
  \/ \E incr \in Increments, sp \in StackTops : Malloc(incr, sp)
  \/ \E c \in Contexts :
       \/ \E a \in Arcs : Enter(c, a)
       \/ WalkArcs(c) \/ LoadCount(c) \/ StoreCount(c) \/ RecordFunction(c) \/ RecordArc(c)
       \/ TestSampler(c) \/ ClearFlag(c) \/ niosv_pcsample_init(c)
  \/ SysclkInit \/ \E offset \in {-1, 0, TextSize - 1} : Sample(offset)

Spec == Init /\ [][Next]_profilerVars

-----------------------------------------------------------------------------
(* Properties *)

TypeOK ==
  /\ heap_end \in 0 .. heap_limit + 3 /\ stack_limit \in 0 .. heap_limit
  /\ checks \in BOOLEAN /\ overflow \in BOOLEAN /\ failed \in BOOLEAN
  /\ mcount_slab_ptr \in Nat /\ mcount_slab_size \in 0 .. MCOUNT_SLAB_INCREMENT
  /\ pc \in [Contexts -> {"idle", "arcs", "load", "store", "start", "clear", "init",
                          "record", "arc"}]
  /\ next \in [Nodes -> Nodes] /\ hung \in BOOLEAN
  /\ fn \in [Contexts -> 0 .. Len(fns)] /\ call \in [Contexts -> Arcs \cup {NoCall}]
  /\ recorded \in [Arcs -> Nat] /\ missed \in Nat

\* No two blocks overlap, whoever asked for them, and all are aligned and below the limit, as
\* sbrk refuses what would not be, whatever the comment above it says of bounds; the free part
\* of the slab is in one. The samples counted are in a histogram or, of a part bucket at the end
\* of the text, in the one bucket behind it. With stack checking, the limit follows the heap
\* while whole words are asked for.
BlocksAreSound ==
  /\ \A b \in blocks : b.at % 4 = 0 /\ b.at + b.size <= heap_limit
  /\ \A b, c \in blocks : b # c => Bytes(b) \cap Bytes(c) = {}
  /\ mcount_slab_size > 0 =>
       \E b \in blocks : b.by = "slab" /\ b.at + b.size = mcount_slab_ptr + mcount_slab_size
  /\ \A a \in sampled :
       \/ InHistogram(a)
       \/ /\ TextSize % PCSAMPLE_BYTES_PER_BUCKET # 0
          /\ \E b \in blocks : b.by = "samples" /\ b.at + b.size = a
  /\ checks /\ (\A b \in blocks : b.size % 4 = 0) => stack_limit = heap_end

\* Whatever handlers interrupt mcount with, every call is in the counts of the copies of
\* its arc, but for those stored over while a handler counted on the same arc.
Counted(a) ==
  SumFunction([i \in 1 .. Len(fns) |->
    IF fns[i].self # a.self THEN 0
    ELSE SumFunction([j \in 1 .. Len(fns[i].arcs) |->
           IF fns[i].arcs[j].from = a.from THEN fns[i].arcs[j].count ELSE 0])])
CallsAreCounted ==
  /\ \A a \in Arcs : Counted(a) <= recorded[a] /\ recorded[a] - Counted(a) <= missed
  /\ missed = 0 => \A a \in Arcs : Counted(a) = recorded[a]

\* A tick comes to the end of the list of alarms unless mcount has started the sampler twice,
\* which __mcount_record was to cope with; each start allocates a histogram.
TicksEndUnlessTwice ==
  hung =>
    \/ TextSize < PCSAMPLE_BYTES_PER_BUCKET
    \/ \E b, c \in blocks : b # c /\ b.by = "samples" /\ c.by = "samples"

ProfileIsSound == BlocksAreSound /\ CallsAreCounted /\ TicksEndUnlessTwice
=============================================================================
