------------------------------- MODULE Caches -------------------------------
(***************************************************************************)
(* The caches of a build that has them, a device that reads and writes the *)
(* memory behind them, and the calls that keep the two in step: the flush, *)
(* the invalidation and the cleaning of the data cache, line by line while *)
(* lines may also leave on their own. The instruction cache is left out:   *)
(* its calls are one instruction that empties it.                          *)
(*                                                                         *)
(* The processor is modelled from the instructions that the calls issue:   *)
(* a direct-mapped write-back cache of data.                               *)
(*                                                                         *)
(* A definition named Mut... is the one after it with a plausible bug in.  *)
(***************************************************************************)
EXTENDS Integers

CONSTANTS
  MemorySize,                \* in bytes, as the next two
  ALT_CPU_DCACHE_SIZE,
  ALT_CPU_DCACHE_LINE_SIZE,
  NULL

Bytes == 0 .. (MemorySize - 1)
ByteValues == {0, 1}
Indices == 0 .. (ALT_CPU_DCACHE_SIZE \div ALT_CPU_DCACHE_LINE_SIZE - 1)
LineOf(a) == a \div ALT_CPU_DCACHE_LINE_SIZE
IndexOf(a) == LineOf(a) % (ALT_CPU_DCACHE_SIZE \div ALT_CPU_DCACHE_LINE_SIZE)
BytesOf(line) == {a \in Bytes : LineOf(a) = line}

VARIABLES
  memory,
  dcache,   \* for each index the line in it, whether it is dirty and its bytes, or NULL
  latest,   \* history: what the program or the device wrote last
  op        \* the call in progress, and what it has left to do, or NULL

cacheVars == <<memory, dcache, latest, op>>

Init ==
  /\ memory = [a \in Bytes |-> 0] /\ latest = memory
  /\ dcache = [i \in Indices |-> NULL]
  /\ op = NULL

Held(a) == dcache[IndexOf(a)] # NULL /\ dcache[IndexOf(a)].line = LineOf(a)
Dirty(a) == Held(a) /\ dcache[IndexOf(a)].dirty
\* What a load finds.
View(a) == IF Held(a) THEN dcache[IndexOf(a)].data[a] ELSE memory[a]

-----------------------------------------------------------------------------
(* The processor and the device *)

\* The memory once the line at index i, if it is dirty, is written back.
WrittenBack(i) ==
  IF dcache[i] = NULL \/ ~dcache[i].dirty THEN memory
  ELSE [a \in Bytes |-> IF a \in BytesOf(dcache[i].line) THEN dcache[i].data[a] ELSE memory[a]]

\* The line of address a is brought in, in place of the one at its index.
Fill(a, dirty, contents) ==
  dcache' = [dcache EXCEPT ![IndexOf(a)] =
    [line |-> LineOf(a), dirty |-> dirty, data |-> [b \in BytesOf(LineOf(a)) |-> contents[b]]]]
Fetched(a) == IF Held(a) THEN memory ELSE WrittenBack(IndexOf(a))

Store(a, v) ==
  /\ op = NULL /\ memory' = Fetched(a)
  /\ Fill(a, TRUE, [b \in Bytes |-> IF b = a THEN v ELSE View(b)])
  /\ latest' = [latest EXCEPT ![a] = v]
  /\ UNCHANGED op
Load(a) ==
  /\ op = NULL /\ ~Held(a) /\ memory' = Fetched(a)
  /\ Fill(a, FALSE, memory)
  /\ UNCHANGED <<latest, op>>

\* A line leaves on its own, during a call as well.
Evict(i) ==
  /\ dcache[i] # NULL /\ memory' = WrittenBack(i) /\ dcache' = [dcache EXCEPT ![i] = NULL]
  /\ UNCHANGED <<latest, op>>

\* The device writes only in lines that the program has let go of.
Receive(a, v) ==
  /\ ~Held(a) /\ memory' = [memory EXCEPT ![a] = v] /\ latest' = [latest EXCEPT ![a] = v]
  /\ UNCHANGED <<dcache, op>>

-----------------------------------------------------------------------------
(* The instructions *)

\* cbo.flush: the line of a is written back and leaves.
ALT_FLUSH_DATA(a) ==
  IF a \in Bytes /\ Held(a)
  THEN /\ memory' = WrittenBack(IndexOf(a)) /\ dcache' = [dcache EXCEPT ![IndexOf(a)] = NULL]
       /\ UNCHANGED latest
  ELSE UNCHANGED <<memory, dcache, latest>>

\* cbo.inval: the line of a leaves; what was written to it alone is given up.
ALT_INVALIDATE_DATA(a) ==
  IF a \in Bytes /\ Held(a)
  THEN /\ dcache' = [dcache EXCEPT ![IndexOf(a)] = NULL]
       /\ latest' = [b \in Bytes |-> IF LineOf(b) = LineOf(a) THEN memory[b] ELSE latest[b]]
       /\ UNCHANGED memory
  ELSE UNCHANGED <<memory, dcache, latest>>

\* The line at the index of a is written back and stays.
DCACHE_CLEAN_BY_INDEX_VAL(a) ==
  /\ memory' = WrittenBack(IndexOf(a))
  /\ dcache' = [dcache EXCEPT ![IndexOf(a)] = IF @ = NULL THEN @ ELSE [@ EXCEPT !.dirty = FALSE]]
  /\ UNCHANGED latest

-----------------------------------------------------------------------------
(* The calls *)

\* alt_dcache_flush, alt_dcache_flush_no_writeback and alt_dcache_flush_all go over the
\* region one line at a time.
Begin(call, start, len) ==
  /\ op = NULL
  /\ op' = [call |-> call, start |-> start, end |-> start + len, i |-> start, done |-> FALSE]
  /\ UNCHANGED <<memory, dcache, latest>>

Instruction ==
  CASE op.call = "alt_dcache_flush"              -> ALT_FLUSH_DATA(op.i)
    [] op.call = "alt_dcache_flush_no_writeback" -> ALT_INVALIDATE_DATA(op.i)
    [] op.call = "alt_dcache_flush_all"          -> DCACHE_CLEAN_BY_INDEX_VAL(op.i)

Line ==
  /\ op # NULL /\ ~op.done /\ op.i < op.end /\ Instruction
  /\ op' = [op EXCEPT !.i = @ + ALT_CPU_DCACHE_LINE_SIZE]

\* One line more if the region starts inside of one.
MutLastLine ==
  /\ op # NULL /\ ~op.done /\ op.i >= op.end /\ op' = [op EXCEPT !.done = TRUE]
  /\ UNCHANGED <<memory, dcache, latest>>
LastLine ==
  /\ op # NULL /\ ~op.done /\ op.i >= op.end /\ op' = [op EXCEPT !.done = TRUE]
  /\ IF op.start % ALT_CPU_DCACHE_LINE_SIZE # 0
     THEN Instruction ELSE UNCHANGED <<memory, dcache, latest>>

Return ==
  /\ op # NULL /\ op.done /\ op' = NULL /\ UNCHANGED <<memory, dcache, latest>>

Next ==
  \/ \E a \in Bytes : Load(a) \/ \E v \in ByteValues : Store(a, v) \/ Receive(a, v)
  \/ \E i \in Indices : Evict(i)
  \/ \E a \in Bytes, call \in {"alt_dcache_flush", "alt_dcache_flush_no_writeback"} :
       \E len \in 0 .. (MemorySize - a) : Begin(call, a, len)
  \/ Begin("alt_dcache_flush_all", 0, ALT_CPU_DCACHE_SIZE)
  \/ Line \/ LastLine \/ Return

Spec == Init /\ [][Next]_cacheVars

-----------------------------------------------------------------------------
(* Properties *)

\* What may be at an index, and the calls that may be in progress.
Lines ==
  UNION {[line : {LineOf(a)}, dirty : BOOLEAN, data : [BytesOf(LineOf(a)) -> ByteValues]] : a \in Bytes}
Calls ==
  [call : {"alt_dcache_flush", "alt_dcache_flush_no_writeback", "alt_dcache_flush_all"},
   start : Nat, end : Nat, i : Nat, done : BOOLEAN]

TypeOK ==
  /\ memory \in [Bytes -> ByteValues] /\ latest \in [Bytes -> ByteValues]
  /\ dcache \in [Indices -> Lines \cup {NULL}] /\ op \in Calls \cup {NULL}
  /\ \A i \in Indices : dcache[i] # NULL =>
       \A a \in BytesOf(dcache[i].line) : IndexOf(a) = i

\* Nothing written is lost but by an invalidation: what a line holds that is dirty, and
\* what the memory holds elsewhere, was written last.
WritesAreKept == \A a \in Bytes : latest[a] = (IF Dirty(a) THEN View(a) ELSE memory[a])

\* When a flush or an invalidation is over no byte of the region is in the cache: the
\* device reads what the program wrote, and the program what the device writes. When the
\* whole cache has been flushed there is no dirty line in it.
RegionIsInMemory ==
  op # NULL /\ op.done =>
    \A a \in Bytes :
      /\ op.call # "alt_dcache_flush_all" /\ op.start <= a /\ a < op.end => ~Held(a)
      /\ op.call = "alt_dcache_flush_all" => ~Dirty(a)

CachesAreSound == WritesAreKept /\ RegionIsInMemory
=============================================================================
