---------------------------- MODULE FeatureList -----------------------------
(***************************************************************************)
(* The platform access API: fpga_platform_init walks the device feature    *)
(* lists of the hardware twice, to count the interfaces and to describe    *)
(* each in a vector, and the application then opens interfaces by index.   *)
(*                                                                         *)
(* A list is a chain of feature headers; a parameter block of a feature may*)
(* branch to a list of its own. The walk recurses: walk holds the calls of *)
(* deal_with_interface_at_current_level in progress, and the parent of the *)
(* list being walked is on dfh_parent_stack.                               *)
(*                                                                         *)
(* A definition named Mut... is the one after it with a plausible bug in.  *)
(***************************************************************************)
EXTENDS Integers, SequencesExt

CONSTANTS
  Hardware,  \* the layouts considered: the first header's address, and the headers
  DFH_PARENT_STACK_INCR_SIZE,
  NULL

VARIABLES
  dfl,               \* the feature headers of the system, by address
  phase,             \* "idle", "count" and "collect" during a scan, "ready", "exited", or
                     \* "overrun" when the stack of parents was written behind its end
  s_scanned_interface_count, s_interface_index,
  dfh_parent_stack,  \* head, top and size
  walk,              \* the header and the next parameter block of each call
  vec,               \* g_common_fpga_interface_info_vec
  allocated          \* what is on the heap

walkVars == <<s_scanned_interface_count, s_interface_index, dfh_parent_stack, walk>>
listVars == <<dfl, phase, walkVars, vec, allocated>>

-----------------------------------------------------------------------------
(* A feature header *)

Header(address) == dfl.headers[address]
is_eol(h) == h.eol
get_next_dfh_addr(address) == address + Header(address).next
get_base_address(address) ==
  Header(address).csr + (IF Header(address).csr_absolute THEN 0 ELSE address)

\* Parameter blocks are chained by byte offsets. The last has eop set, and its offset is
\* the size of its data: without data it is a terminator, not a parameter.
is_last_param_block(b) == b.eop
IsBlock(b) == ~is_last_param_block(b) \/ b.offset > 0
BlocksOf(h) ==
  IF ~h.has_params THEN <<>> ELSE IF IsBlock(Last(h.blocks)) THEN h.blocks ELSE Front(h.blocks)
Blocks(address) == BlocksOf(Header(address))
PARAM_HEADER_SIZE == 8
data_size_of(b) == IF is_last_param_block(b) THEN b.offset ELSE b.offset - PARAM_HEADER_SIZE
BranchId == 12
branch_of(address, b) == b.branch + (IF b.absolute THEN 0 ELSE address)

\* A block behind the last parameter is added before it turns out to be the terminator.
NoParameter == [param_id |-> 0, data_size |-> 0, data |-> NULL]
Parameters(address) ==
  LET described(b) == [param_id |-> b.param_id, data_size |-> data_size_of(b), data |-> b.data]
      blocks == Blocks(address)
  IN  [i \in 1 .. Len(blocks) |-> described(blocks[i])]
      \o IF blocks # <<>> /\ ~is_last_param_block(Last(blocks)) THEN <<NoParameter>> ELSE <<>>

\* What header a of hardware links to: the next of its list (link 0), unless it is the last,
\* and the lists of its branches, by their blocks.
Links(hardware, a) ==
  LET h == hardware.headers[a]
  IN  {i \in 0 .. Len(BlocksOf(h)) :
         IF i = 0 THEN ~is_eol(h) ELSE BlocksOf(h)[i].param_id = BranchId}
Target(hardware, a, i) ==
  IF i = 0 THEN a + hardware.headers[a].next
  ELSE branch_of(a, BlocksOf(hardware.headers[a])[i])

\* Every header is one link from another, and all are led to from the first one, which is
\* at no link; every header has a name of its own.
IsTree(hardware) ==
  LET addresses == DOMAIN hardware.headers
      links(a) == Links(hardware, a)
      target(a, i) == Target(hardware, a, i)
      blocks(a) == hardware.headers[a].blocks
  IN  /\ IsFiniteSet(addresses) /\ hardware.first \in addresses
      /\ \A a \in addresses : \A i \in links(a) : target(a, i) \in addresses \ {hardware.first}
      /\ \A a, b \in addresses : \A i \in links(a), j \in links(b) :
           target(a, i) = target(b, j) => a = b /\ i = j
      /\ \A S \in SUBSET addresses :
           hardware.first \in S /\ (\A a \in S : \A i \in links(a) : target(a, i) \in S)
             => S = addresses
      /\ \A a, b \in addresses : hardware.headers[a].guid = hardware.headers[b].guid => a = b
      /\ \A a \in addresses :
           hardware.headers[a].has_params =>
             blocks(a) # <<>> /\ blocks(a) \in Seq({blocks(a)[i] : i \in DOMAIN blocks(a)})

-----------------------------------------------------------------------------
(* The stack of parents and the vector of interfaces *)

NoInfo == [guid |-> NULL, base_address |-> 0, parameters |-> <<>>, dfh_parent |-> 0,
           is_mmio_opened |-> FALSE, is_interrupt_opened |-> FALSE]

\* The stack grows when top has reached its size. Its entries are those below size, and top is
\* the last one used: the one written behind them belongs to another.
Grown(stack) ==
  IF stack.top = stack.size THEN [stack EXCEPT !.size = @ + DFH_PARENT_STACK_INCR_SIZE]
  ELSE stack
push(stack, data) ==
  LET top == stack.top + 1
  IN  [Grown(stack) EXCEPT !.top = top,
         !.head = [i \in DOMAIN @ \cup {top} |-> IF i = top THEN data ELSE @[i]]]
Overruns(stack) == stack.top >= stack.size
peek(stack) == stack.head[stack.top]
pop(stack) == [stack EXCEPT !.top = @ - 1]
Freed(stack) == [stack EXCEPT !.head = <<>>, !.size = 0]

\* Data of the parameters, then parameters, then the vector go back to the heap.
Owned ==
  {<<"vec">>} \cup {<<"parameters", i>> : i \in 1 .. Len(vec)}
  \cup UNION {{<<"data", i, j>> : j \in 1 .. Len(vec[i].parameters)} : i \in 1 .. Len(vec)}

Init ==
  /\ dfl \in Hardware /\ phase = "idle"
  /\ s_scanned_interface_count = 0 /\ s_interface_index = 0
  /\ dfh_parent_stack = [head |-> <<>>, top |-> 0, size |-> 0]
  /\ walk = <<>> /\ vec = <<>> /\ allocated = {}

-----------------------------------------------------------------------------
(* The scan *)

Call(address) == [dfh |-> address, block |-> 0]
Scanning == phase \in {"count", "collect"}
Frame == Last(walk)
With(block) == [walk EXCEPT ![Len(walk)].block = block]

\* common_dfl_scan_multi_interfaces empties the vector and starts the first walk.
fpga_platform_init ==
  /\ phase \in {"idle", "ready"} /\ phase' = "count"
  /\ s_scanned_interface_count' = 0 /\ vec' = <<>>
  /\ dfh_parent_stack' = push(dfh_parent_stack, -1)
  /\ allocated' = (allocated \ Owned) \cup {<<"stack">>}
  /\ walk' = <<Call(dfl.first)>>
  /\ UNCHANGED <<dfl, s_interface_index>>

\* deal_with_interface_at_current_level counts the interface or describes it.
set_interface_properties(index, address) ==
  LET parameters == Parameters(address)
  IN  /\ vec' = [vec EXCEPT ![index + 1] =
                   [guid |-> Header(address).guid, base_address |-> get_base_address(address),
                    parameters |-> parameters, dfh_parent |-> peek(dfh_parent_stack),
                    is_mmio_opened |-> FALSE, is_interrupt_opened |-> FALSE]]
      /\ allocated' = allocated
           \cup {<<"parameters", index + 1>> : p \in ToSet(parameters)}
           \cup {<<"data", index + 1, j>> : j \in {k \in 1 .. Len(parameters) :
                                                      parameters[k].data # NULL}}
Interface ==
  /\ Scanning /\ walk # <<>> /\ Frame.block = 0 /\ walk' = With(1)
  /\ IF phase = "count"
     THEN /\ s_scanned_interface_count' = s_scanned_interface_count + 1
          /\ UNCHANGED <<s_interface_index, vec, allocated>>
     ELSE /\ s_interface_index' = s_interface_index + 1
          /\ set_interface_properties(s_interface_index + 1, Frame.dfh)
          /\ UNCHANGED s_scanned_interface_count
  /\ UNCHANGED <<dfl, phase, dfh_parent_stack>>

\* process_param_list_for_known_param_id follows branches, whose list has the interface
\* described last for a parent.
Parameter ==
  /\ Scanning /\ walk # <<>> /\ Frame.block \in 1 .. Len(Blocks(Frame.dfh))
  /\ LET b == Blocks(Frame.dfh)[Frame.block]
     IN  IF b.param_id = BranchId
         THEN /\ dfh_parent_stack' = push(dfh_parent_stack, s_interface_index)
              /\ walk' = Append(With(Frame.block + 1), Call(branch_of(Frame.dfh, b)))
              /\ phase' = IF Overruns(dfh_parent_stack') THEN "overrun" ELSE phase
         ELSE walk' = With(Frame.block + 1) /\ UNCHANGED <<dfh_parent_stack, phase>>
  /\ UNCHANGED <<dfl, s_scanned_interface_count, s_interface_index, vec, allocated>>

\* The next interface of the list is dealt with in the place of this one; at its end the
\* parent is popped.
MutNextInterface ==
  /\ Scanning /\ walk # <<>> /\ Frame.block > Len(Blocks(Frame.dfh))
  /\ IF is_eol(Header(Frame.dfh))
     THEN walk' = Front(walk)
     ELSE walk' = Append(Front(walk), Call(get_next_dfh_addr(Frame.dfh)))
  /\ UNCHANGED <<dfl, phase, s_scanned_interface_count, s_interface_index, vec, allocated,
                 dfh_parent_stack>>
NextInterface ==
  /\ Scanning /\ walk # <<>> /\ Frame.block > Len(Blocks(Frame.dfh))
  /\ IF is_eol(Header(Frame.dfh))
     THEN walk' = Front(walk) /\ dfh_parent_stack' = pop(dfh_parent_stack)
     ELSE /\ walk' = Append(Front(walk), Call(get_next_dfh_addr(Frame.dfh)))
          /\ UNCHANGED dfh_parent_stack
  /\ UNCHANGED <<dfl, phase, s_scanned_interface_count, s_interface_index, vec, allocated>>

\* The vector gets its size and the second walk starts.
common_fpga_interface_info_vec_resize(size) == vec' = [i \in 1 .. size |-> NoInfo]
EndOfCount ==
  /\ phase = "count" /\ walk = <<>> /\ phase' = "collect"
  /\ common_fpga_interface_info_vec_resize(s_scanned_interface_count)
  /\ s_interface_index' = -1
  /\ dfh_parent_stack' = push(dfh_parent_stack, -1)
  /\ allocated' = allocated \cup {<<"vec">>} /\ walk' = <<Call(dfl.first)>>
  /\ UNCHANGED <<dfl, s_scanned_interface_count>>

EndOfCollect ==
  /\ phase = "collect" /\ walk = <<>> /\ phase' = "ready"
  /\ dfh_parent_stack' = Freed(dfh_parent_stack) /\ allocated' = allocated \ {<<"stack">>}
  /\ UNCHANGED <<dfl, s_scanned_interface_count, s_interface_index, walk, vec>>

\* Without memory an exception is thrown, whose handler ends the program unless another has
\* been registered.
DefaultHandler == phase' = "exited"
fpga_throw_runtime_exception == DefaultHandler
OutOfMemory ==
  /\ Scanning /\ fpga_throw_runtime_exception
  /\ UNCHANGED <<dfl, walkVars, vec, allocated>>

-----------------------------------------------------------------------------
(* The application *)

fpga_platform_cleanup ==
  /\ phase = "ready" /\ vec # <<>>
  /\ vec' = <<>> /\ allocated' = allocated \ Owned /\ phase' = "idle"
  /\ UNCHANGED <<dfl, walkVars>>

\* An interface out of range, or open, is refused; closing one out of range does nothing.
Set(index, field, value) ==
  /\ phase = "ready" /\ index < Len(vec) /\ vec' = [vec EXCEPT ![index + 1][field] = value]
  /\ UNCHANGED <<dfl, phase, walkVars, allocated>>
fpga_open(index) == ~vec[index + 1].is_mmio_opened /\ Set(index, "is_mmio_opened", TRUE)
fpga_close(index) == Set(index, "is_mmio_opened", FALSE)
fpga_interrupt_open(index) ==
  ~vec[index + 1].is_interrupt_opened /\ Set(index, "is_interrupt_opened", TRUE)
fpga_interrupt_close(index) == Set(index, "is_interrupt_opened", FALSE)

Next ==
  \/ fpga_platform_init \/ Interface \/ Parameter \/ NextInterface
  \/ EndOfCount \/ EndOfCollect \/ OutOfMemory \/ fpga_platform_cleanup
  \/ \E index \in 0 .. (Len(vec) - 1) :
       \/ fpga_open(index) \/ fpga_close(index)
       \/ fpga_interrupt_open(index) \/ fpga_interrupt_close(index)

Spec == Init /\ [][Next]_listVars

-----------------------------------------------------------------------------
(* Properties *)

TypeOK ==
  /\ dfl \in Hardware
  /\ phase \in {"idle", "count", "collect", "ready", "exited", "overrun"}
  /\ s_scanned_interface_count \in Nat /\ s_interface_index \in Nat \cup {-1}
  /\ dfh_parent_stack.top \in Nat /\ dfh_parent_stack.size \in Nat
  /\ \A i \in 1 .. Len(walk) : walk[i].dfh \in DOMAIN dfl.headers /\ walk[i].block \in Nat
  /\ \A i \in 1 .. Len(vec) : DOMAIN vec[i] = DOMAIN NoInfo

\* Header b is behind a in its list; block i of p branches to the list that b is the first of.
Follows(a, b) == ~is_eol(Header(a)) /\ b = get_next_dfh_addr(a)
IsBranch(p, i) == i \in DOMAIN Blocks(p) /\ Blocks(p)[i].param_id = BranchId
Branches(p, i, b) == IsBranch(p, i) /\ branch_of(p, Blocks(p)[i]) = b
InfoOf(address) == CHOOSE i \in 1 .. Len(vec) : vec[i].guid = Header(address).guid
parent(a) == vec[InfoOf(a)].dfh_parent

\* A scan leaves every interface once in the vector, at its address and with its
\* parameters, those of a list in its order; neighbours have the same parent, and those of the
\* first list have none. The parent of another list is the interface described just before it:
\* that of the feature that branches to it if that is the feature's first branch.
FeaturesFound ==
  phase = "ready" =>
    LET addresses == DOMAIN dfl.headers
    IN  /\ Len(vec) = Cardinality(addresses)
        /\ {vec[i].guid : i \in 1 .. Len(vec)} = {Header(a).guid : a \in addresses}
        /\ parent(dfl.first) = -1
        /\ \A a \in addresses :
             /\ vec[InfoOf(a)].base_address = get_base_address(a)
             /\ \A i \in DOMAIN Blocks(a) :
                  vec[InfoOf(a)].parameters[i].data = Blocks(a)[i].data
             /\ \A b \in addresses :
                  /\ Follows(a, b) => parent(b) = parent(a) /\ InfoOf(a) < InfoOf(b)
                  /\ \A i \in DOMAIN Blocks(a) :
                       Branches(a, i, b) =>
                         /\ parent(b) = InfoOf(b) - 2
                         /\ (\A j \in 1 .. (i - 1) : ~IsBranch(a, j)) => parent(b) = InfoOf(a) - 1

\* The walks stay inside of the vector and, unless as many lists are nested as the stack's
\* increment has entries, inside of the stack; no scan is left with an entry on the stack; and
\* what was allocated is freed by fpga_platform_cleanup, after any number of scans.
WalkIsSafe ==
  /\ Scanning /\ walk # <<>> =>
       dfh_parent_stack.top \in 1 .. (dfh_parent_stack.size - 1)
  /\ phase = "overrun" => Len(walk) >= DFH_PARENT_STACK_INCR_SIZE
  /\ phase = "collect" => s_interface_index < Len(vec)
  /\ phase \in {"idle", "ready"} => dfh_parent_stack.top = 0
  /\ phase = "idle" => allocated = {}

ScanIsSound == FeaturesFound /\ WalkIsSafe
=============================================================================
