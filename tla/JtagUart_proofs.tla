-------------------------- MODULE JtagUart_proofs --------------------------
(***************************************************************************)
(* Proofs about the JTAG UART driver, for every ring length, FIFO depth,   *)
(* timeout and bound.                                                      *)
(*                                                                         *)
(* The safety invariants are not inductive alone. What the two indices a   *)
(* call took a snapshot of still mean when it uses them, after any number  *)
(* of interrupts, is CallInv; what the interrupt routine's copy of the     *)
(* control register still means is IrqInv. Their conjunction with the      *)
(* stream and wakeup invariants is inductive. From it, what each direction *)
(* holds is a stretch of its stream, which a step extends or shortens: the *)
(* driver and the device implement a byte pipe.                            *)
(***************************************************************************)
EXTENDS JtagUart, SequenceTheorems, TLAPS

\* A chunk that write() is copying lies in free, contiguous slots from tx_in on, and
\* one that read() is copying lies in filled, contiguous slots from rx_out on.
CallInv ==
  /\ pc \in {"w_copy", "w_publish"}
       => /\ in = tx_in /\ n >= 1 /\ in + n <= BUF_LEN
          /\ Used(tx_in, tx_out) + n <= BUF_LEN - 1
  /\ pc = "w_copy" => n <= count
  /\ pc \in {"r_copy", "r_release"}
       => /\ out = rx_out /\ n >= 1 /\ out + n <= BUF_LEN
          /\ n <= Used(rx_in, rx_out)
  /\ pc = "r_copy" => n <= count
  /\ pc \in {"r_release", "r_enable"} => done > 0

\* A read() that goes on has bytes left to deliver.
ReadInv == pc \in {"r_fetch", "r_spin", "r_check"} => count > 0

\* The FIFO has at least the room the interrupt routine counts on, and it stops
\* receive interrupts only for a full ring.
IrqInv ==
  /\ ipc \in {"rx", "rx_end", "tx"} => space + Len(txFifo) <= TxDepth
  /\ ipc = "rx_end" /\ ravail => RxFull(rx_in, rx_out)

IInv == /\ TypeOK /\ CallInv /\ ReadInv /\ IrqInv
        /\ TxStream /\ RxStream /\ TxWakeup /\ RxWakeup /\ NeverTimesOut

----------------------------------------------------------------------------
(* Ring arithmetic *)

\* Advancing an index is moving to a slot: it stays in the ring and wraps once.
LEMMA AdvanceIsSlot ==
  ASSUME NEW i \in Index, NEW k \in 0 .. BUF_LEN
  PROVE  Advance(i, k) = Slot(i, k) /\ Slot(i, k) \in Index
<1>1. BUF_LEN \in Nat /\ BUF_LEN > 0 BY ConstantsAssumption
<1>2. CASE i + k < BUF_LEN
  BY <1>1, <1>2 DEF Advance, Slot, Index
<1>3. CASE i + k >= BUF_LEN
  <2>1. (i + k) % BUF_LEN = i + k - BUF_LEN
    BY <1>1, <1>3 DEF Index
  <2>2. QED BY <1>1, <1>3, <2>1 DEF Advance, Slot, Index
<1>4. QED BY <1>1, <1>2, <1>3 DEF Index

\* A ring never holds more than BUF_LEN - 1 bytes; it is empty when its indices
\* meet and full when one more byte would make them meet.
LEMMA UsedFacts ==
  ASSUME NEW i \in Index, NEW o \in Index
  PROVE  /\ Used(i, o) \in 0 .. (BUF_LEN - 1)
         /\ Used(i, o) = 0 <=> i = o
         /\ RxFull(i, o) <=> Used(i, o) = BUF_LEN - 1
<1>1. BUF_LEN \in Nat /\ BUF_LEN >= 2 BY ConstantsAssumption
<1>2. Advance(i, 1) = Slot(i, 1) BY <1>1, AdvanceIsSlot
<1>3. QED BY <1>1, <1>2 DEF Used, RxFull, Slot, Index

\* Bytes added at the in side and taken at the out side change the fill level by as
\* much, and the k-th byte of the ring keeps its slot.
LEMMA RingMoves ==
  ASSUME NEW i \in Index, NEW o \in Index, NEW k \in Nat
  PROVE  /\ Used(i, o) + k <= BUF_LEN - 1
              => Used(Advance(i, k), o) = Used(i, o) + k
         /\ k <= Used(i, o)
              => /\ Used(i, Advance(o, k)) = Used(i, o) - k
                 /\ \A j \in 0 .. (Used(i, o) - k - 1) :
                      Slot(Advance(o, k), j) = Slot(o, j + k)
<1>1. BUF_LEN \in Nat /\ BUF_LEN >= 2 BY ConstantsAssumption
<1>2. Used(i, o) \in 0 .. (BUF_LEN - 1) BY UsedFacts
<1>3. ASSUME Used(i, o) + k <= BUF_LEN - 1
      PROVE  Used(Advance(i, k), o) = Used(i, o) + k
  <2>1. Advance(i, k) = Slot(i, k) BY <1>1, <1>2, <1>3, AdvanceIsSlot
  <2>2. QED BY <1>1, <1>2, <1>3, <2>1 DEF Used, Slot, Index
<1>4. ASSUME k <= Used(i, o)
      PROVE  /\ Used(i, Advance(o, k)) = Used(i, o) - k
             /\ \A j \in 0 .. (Used(i, o) - k - 1) :
                  Slot(Advance(o, k), j) = Slot(o, j + k)
  <2>1. Advance(o, k) = Slot(o, k) BY <1>1, <1>2, <1>4, AdvanceIsSlot
  <2>2. QED BY <1>1, <1>2, <1>4, <2>1 DEF Used, Slot, Index
<1>5. QED BY <1>3, <1>4

\* The slots of the bytes in the ring are the Used(i, o) ones from o on, all different,
\* and the one at i is not among them.
LEMMA SlotFacts ==
  ASSUME NEW i \in Index, NEW o \in Index
  PROVE  /\ \A k \in 0 .. Used(i, o) : Slot(o, k) \in Index
         /\ Slot(o, Used(i, o)) = i
         /\ \A k \in 0 .. (Used(i, o) - 1) : Slot(o, k) # i
<1>1. BUF_LEN \in Nat /\ BUF_LEN >= 2 BY ConstantsAssumption
<1>2. QED BY <1>1 DEF Used, Slot, Index

\* The chunks write() and read() copy are contiguous and leave one slot free.
LEMMA ChunkFacts ==
  ASSUME NEW i \in Index, NEW o \in Index, NEW c \in Nat
  PROVE  /\ TxRoom(i, o) \in Nat
         /\ i + TxRoom(i, o) <= BUF_LEN
         /\ Used(i, o) + TxRoom(i, o) <= BUF_LEN - 1
         /\ RxReady(i, o) \in Nat
         /\ o + RxReady(i, o) <= BUF_LEN
         /\ RxReady(i, o) <= Used(i, o)
         /\ AtMost(TxRoom(i, o), c) \in Nat /\ AtMost(TxRoom(i, o), c) <= c
         /\ AtMost(TxRoom(i, o), c) <= TxRoom(i, o)
         /\ AtMost(RxReady(i, o), c) \in Nat /\ AtMost(RxReady(i, o), c) <= c
         /\ AtMost(RxReady(i, o), c) <= RxReady(i, o)
         /\ c > 0 /\ TxRoom(i, o) > 0 => AtMost(TxRoom(i, o), c) >= 1
         /\ c > 0 /\ RxReady(i, o) > 0 => AtMost(RxReady(i, o), c) >= 1
<1>1. BUF_LEN \in Nat /\ BUF_LEN >= 2 BY ConstantsAssumption
<1>2. /\ TxRoom(i, o) \in Nat /\ i + TxRoom(i, o) <= BUF_LEN
      /\ Used(i, o) + TxRoom(i, o) <= BUF_LEN - 1
  BY <1>1 DEF TxRoom, Used, Index
<1>3. /\ RxReady(i, o) \in Nat /\ o + RxReady(i, o) <= BUF_LEN
      /\ RxReady(i, o) <= Used(i, o)
  BY <1>1 DEF RxReady, Used, Index
<1>4. QED BY <1>2, <1>3 DEF AtMost

----------------------------------------------------------------------------
(* Which actions change which part of the state *)

----------------------------------------------------------------------------
(* Frames: which actions can change what *)

\* Six actions write the control fields.
LEMMA ControlFrame ==
  ASSUME Next
  PROVE  \/ WriteKick
         \/ ReadEnable
         \/ IrqReceiveEnd
         \/ IrqTransmitEnd
         \/ AlarmTimeout
         \/ \E t \in TimeoutArgs : IoctlTimeout(t)
         \/ UNCHANGED control
<1>1. CASE Call
  BY <1>1 DEF Call, WriteCall, ReadCall, CloseCall, IoctlTimeout, IoctlConnected, driver
<1>2. CASE Write
  BY <1>2 DEF Write, WriteFill, WriteCopy, WritePublish, WriteKick, WriteSpin, WriteCheck,
    driver
<1>3. CASE Read
  BY <1>3 DEF Read, ReadFetch, ReadCopy, ReadRelease, ReadSpin, ReadCheck, ReadEnable, driver
<1>4. CASE CloseDrain
  BY <1>4 DEF CloseDrain, driver
<1>5. CASE Irq
  BY <1>5 DEF Irq, IrqEnter, IrqControl, IrqReceive, IrqReceiveEnd, IrqTransmit, IrqTransmitEnd,
    driver
<1>6. CASE AlarmTimeout
  BY <1>6 DEF AlarmTimeout, driver
<1>7. CASE Host
  BY <1>7 DEF Host, HostReceive, HostSend, HostPoll, HostPlug, driver
<1>8. QED BY <1>1, <1>2, <1>3, <1>4, <1>5, <1>6, <1>7 DEF Next

\* Two steps of the application and three of the interrupt routine touch a ring.
LEMMA RingFrame ==
  ASSUME Next
  PROVE  \/ WriteCopy
         \/ WritePublish
         \/ ReadRelease
         \/ IrqReceive
         \/ IrqTransmit
         \/ UNCHANGED <<txRing, rxRing>>
<1>1. CASE Call
  BY <1>1 DEF Call, WriteCall, ReadCall, CloseCall, IoctlTimeout, IoctlConnected, driver
<1>2. CASE Write
  BY <1>2 DEF Write, WriteFill, WriteCopy, WritePublish, WriteKick, WriteSpin, WriteCheck,
    driver
<1>3. CASE Read
  BY <1>3 DEF Read, ReadFetch, ReadCopy, ReadRelease, ReadSpin, ReadCheck, ReadEnable, driver
<1>4. CASE CloseDrain
  BY <1>4 DEF CloseDrain, driver
<1>5. CASE Irq
  BY <1>5 DEF Irq, IrqEnter, IrqControl, IrqReceive, IrqReceiveEnd, IrqTransmit, IrqTransmitEnd,
    driver
<1>6. CASE AlarmTimeout
  BY <1>6 DEF AlarmTimeout, driver
<1>7. CASE Host
  BY <1>7 DEF Host, HostReceive, HostSend, HostPoll, HostPlug, driver
<1>8. QED BY <1>1, <1>2, <1>3, <1>4, <1>5, <1>6, <1>7 DEF Next

\* Only the interrupt routine, the alarm and the host touch the device.
LEMMA DeviceFrame ==
  ASSUME Next
  PROVE  \/ IrqReceive
         \/ IrqTransmit
         \/ AlarmTimeout
         \/ Host
         \/ UNCHANGED device
<1>1. CASE Call
  BY <1>1 DEF Call, WriteCall, ReadCall, CloseCall, IoctlTimeout, IoctlConnected, driver
<1>2. CASE Write
  BY <1>2 DEF Write, WriteFill, WriteCopy, WritePublish, WriteKick, WriteSpin, WriteCheck,
    driver
<1>3. CASE Read
  BY <1>3 DEF Read, ReadFetch, ReadCopy, ReadRelease, ReadSpin, ReadCheck, ReadEnable, driver
<1>4. CASE CloseDrain
  BY <1>4 DEF CloseDrain, driver
<1>5. CASE Irq
  BY <1>5 DEF Irq, IrqEnter, IrqControl, IrqReceive, IrqReceiveEnd, IrqTransmit, IrqTransmitEnd,
    driver
<1>6. CASE AlarmTimeout
  BY <1>6 DEF AlarmTimeout, driver
<1>7. CASE Host
  BY <1>7 DEF Host, HostReceive, HostSend, HostPoll, HostPlug, driver
<1>8. QED BY <1>1, <1>2, <1>3, <1>4, <1>5, <1>6, <1>7 DEF Next

\* The stream positions move when a call copies or the host moves a byte.
LEMMA StreamFrame ==
  ASSUME Next
  PROVE  \/ WriteCopy
         \/ ReadCopy
         \/ HostReceive
         \/ HostSend
         \/ UNCHANGED streams
<1>1. CASE Call
  BY <1>1 DEF Call, WriteCall, ReadCall, CloseCall, IoctlTimeout, IoctlConnected, driver
<1>2. CASE Write
  BY <1>2 DEF Write, WriteFill, WriteCopy, WritePublish, WriteKick, WriteSpin, WriteCheck,
    driver
<1>3. CASE Read
  BY <1>3 DEF Read, ReadFetch, ReadCopy, ReadRelease, ReadSpin, ReadCheck, ReadEnable, driver
<1>4. CASE CloseDrain
  BY <1>4 DEF CloseDrain, driver
<1>5. CASE Irq
  BY <1>5 DEF Irq, IrqEnter, IrqControl, IrqReceive, IrqReceiveEnd, IrqTransmit, IrqTransmitEnd,
    driver
<1>6. CASE AlarmTimeout
  BY <1>6 DEF AlarmTimeout, driver
<1>7. CASE Host
  BY <1>7 DEF Host, HostReceive, HostSend, HostPoll, HostPlug, driver
<1>8. QED BY <1>1, <1>2, <1>3, <1>4, <1>5, <1>6, <1>7 DEF Next

\* Only the interrupt routine changes its own state.
LEMMA IrqFrame ==
  ASSUME Next
  PROVE  \/ Irq
         \/ UNCHANGED isr
<1>1. CASE Call
  BY <1>1 DEF Call, WriteCall, ReadCall, CloseCall, IoctlTimeout, IoctlConnected, driver
<1>2. CASE Write
  BY <1>2 DEF Write, WriteFill, WriteCopy, WritePublish, WriteKick, WriteSpin, WriteCheck,
    driver
<1>3. CASE Read
  BY <1>3 DEF Read, ReadFetch, ReadCopy, ReadRelease, ReadSpin, ReadCheck, ReadEnable, driver
<1>4. CASE CloseDrain
  BY <1>4 DEF CloseDrain, driver
<1>5. CASE Irq
  BY <1>5 DEF Irq, IrqEnter, IrqControl, IrqReceive, IrqReceiveEnd, IrqTransmit, IrqTransmitEnd,
    driver
<1>6. CASE AlarmTimeout
  BY <1>6 DEF AlarmTimeout, driver
<1>7. CASE Host
  BY <1>7 DEF Host, HostReceive, HostSend, HostPoll, HostPlug, driver
<1>8. QED BY <1>1, <1>2, <1>3, <1>4, <1>5, <1>6, <1>7 DEF Next

\* Only the application changes the state of the running call.
LEMMA CallFrame ==
  ASSUME Next
  PROVE  \/ Call
         \/ Write
         \/ Read
         \/ CloseDrain
         \/ UNCHANGED call
<1>1. CASE Call
  BY <1>1 DEF Call, WriteCall, ReadCall, CloseCall, IoctlTimeout, IoctlConnected, driver
<1>2. CASE Write
  BY <1>2 DEF Write, WriteFill, WriteCopy, WritePublish, WriteKick, WriteSpin, WriteCheck,
    driver
<1>3. CASE Read
  BY <1>3 DEF Read, ReadFetch, ReadCopy, ReadRelease, ReadSpin, ReadCheck, ReadEnable, driver
<1>4. CASE CloseDrain
  BY <1>4 DEF CloseDrain, driver
<1>5. CASE Irq
  BY <1>5 DEF Irq, IrqEnter, IrqControl, IrqReceive, IrqReceiveEnd, IrqTransmit, IrqTransmitEnd,
    driver
<1>6. CASE AlarmTimeout
  BY <1>6 DEF AlarmTimeout, driver
<1>7. CASE Host
  BY <1>7 DEF Host, HostReceive, HostSend, HostPoll, HostPlug, driver
<1>8. QED BY <1>1, <1>2, <1>3, <1>4, <1>5, <1>6, <1>7 DEF Next

\* The transmit stream moves in four actions.
LEMMA TxFrame ==
  ASSUME Next
  PROVE  \/ WriteCopy
         \/ WritePublish
         \/ IrqTransmit
         \/ HostReceive
         \/ UNCHANGED <<txRing, txFifo, txSeen, txAccepted, Unpublished>>
<1>1. CASE Call
  BY <1>1 DEF Call, WriteCall, ReadCall, CloseCall, IoctlTimeout, IoctlConnected, driver,
    device, streams, call, locals, At, Return, Goto, Unpublished
<1>2. CASE Write
  BY <1>2 DEF Write, WriteFill, WriteCopy, WritePublish, WriteKick, WriteSpin, WriteCheck,
    driver, device, streams, call, locals, At, Return, Goto, Unpublished
<1>3. CASE Read
  BY <1>3 DEF Read, ReadFetch, ReadCopy, ReadRelease, ReadSpin, ReadCheck, ReadEnable, driver,
    device, streams, call, locals, At, Return, Goto, Unpublished
<1>4. CASE CloseDrain
  BY <1>4 DEF CloseDrain, driver, device, streams, call, locals, At, Return, Goto, Unpublished
<1>5. CASE Irq
  BY <1>5 DEF Irq, IrqEnter, IrqControl, IrqReceive, IrqReceiveEnd, IrqTransmit, IrqTransmitEnd,
    driver, device, streams, call, locals, At, Return, Goto, Unpublished
<1>6. CASE AlarmTimeout
  BY <1>6 DEF AlarmTimeout, driver, device, streams, call, locals, At, Return, Goto, Unpublished
<1>7. CASE Host
  BY <1>7 DEF Host, HostReceive, HostSend, HostPoll, HostPlug, driver, device, streams, call,
    locals, At, Return, Goto, Unpublished
<1>8. QED BY <1>1, <1>2, <1>3, <1>4, <1>5, <1>6, <1>7 DEF Next

\* The receive stream moves in four actions.
LEMMA RxFrame ==
  ASSUME Next
  PROVE  \/ ReadCopy
         \/ ReadRelease
         \/ IrqReceive
         \/ HostSend
         \/ /\ UNCHANGED <<rxRing, rxFifo, rxSent, rxTaken, Unreleased>>
            /\ ubuf' = ubuf \/ ubuf' = <<>>
<1>1. CASE Call
  BY <1>1 DEF Call, WriteCall, ReadCall, CloseCall, IoctlTimeout, IoctlConnected, driver,
    device, streams, call, locals, At, Return, Goto, Unreleased
<1>2. CASE Write
  BY <1>2 DEF Write, WriteFill, WriteCopy, WritePublish, WriteKick, WriteSpin, WriteCheck,
    driver, device, streams, call, locals, At, Return, Goto, Unreleased
<1>3. CASE Read
  BY <1>3 DEF Read, ReadFetch, ReadCopy, ReadRelease, ReadSpin, ReadCheck, ReadEnable, driver,
    device, streams, call, locals, At, Return, Goto, Unreleased
<1>4. CASE CloseDrain
  BY <1>4 DEF CloseDrain, driver, device, streams, call, locals, At, Return, Goto, Unreleased
<1>5. CASE Irq
  BY <1>5 DEF Irq, IrqEnter, IrqControl, IrqReceive, IrqReceiveEnd, IrqTransmit, IrqTransmitEnd,
    driver, device, streams, call, locals, At, Return, Goto, Unreleased
<1>6. CASE AlarmTimeout
  BY <1>6 DEF AlarmTimeout, driver, device, streams, call, locals, At, Return, Goto, Unreleased
<1>7. CASE Host
  BY <1>7 DEF Host, HostReceive, HostSend, HostPoll, HostPlug, driver, device, streams, call,
    locals, At, Return, Goto, Unreleased
<1>8. QED BY <1>1, <1>2, <1>3, <1>4, <1>5, <1>6, <1>7 DEF Next

\* The chunk a call works on is chosen, used and disturbed in these actions only.
LEMMA ChunkFrame ==
  ASSUME Next
  PROVE  \/ WriteFill
         \/ WriteCopy
         \/ ReadFetch
         \/ ReadCopy
         \/ ReadRelease
         \/ IrqReceive
         \/ IrqTransmit
         \/ pc' \notin {"w_copy", "w_publish", "r_copy", "r_release", "r_enable"}
         \/ UNCHANGED <<call, tx_in, tx_out, rx_in, rx_out>>
<1>1. CASE Call
  BY <1>1 DEF Call, WriteCall, ReadCall, CloseCall, IoctlTimeout, IoctlConnected, driver,
    device, txRing, rxRing, streams, call, locals, At, Return, Goto
<1>2. CASE Write
  BY <1>2 DEF Write, WriteFill, WriteCopy, WritePublish, WriteKick, WriteSpin, WriteCheck,
    driver, device, txRing, rxRing, streams, call, locals, At, Return, Goto
<1>3. CASE Read
  BY <1>3 DEF Read, ReadFetch, ReadCopy, ReadRelease, ReadSpin, ReadCheck, ReadEnable, driver,
    device, txRing, rxRing, streams, call, locals, At, Return, Goto
<1>4. CASE CloseDrain
  BY <1>4 DEF CloseDrain, driver, device, txRing, rxRing, streams, call, locals, At, Return,
    Goto
<1>5. CASE Irq
  BY <1>5 DEF Irq, IrqEnter, IrqControl, IrqReceive, IrqReceiveEnd, IrqTransmit, IrqTransmitEnd,
    driver, device, txRing, rxRing, streams, call, locals, At, Return, Goto
<1>6. CASE AlarmTimeout
  BY <1>6 DEF AlarmTimeout, driver, device, txRing, rxRing, streams, call, locals, At, Return,
    Goto
<1>7. CASE Host
  BY <1>7 DEF Host, HostReceive, HostSend, HostPoll, HostPlug, driver, device, txRing, rxRing,
    streams, call, locals, At, Return, Goto
<1>8. QED BY <1>1, <1>2, <1>3, <1>4, <1>5, <1>6, <1>7 DEF Next

----------------------------------------------------------------------------
(* Types *)

\* The control fields keep their type: the alarm's count saturates, and ioctl stores
\* a value between 2 and INT_MAX - 1.
LEMMA ControlTypeStep ==
  ASSUME ControlType, Next
  PROVE  ControlType'
<1> USE ConstantsAssumption
<1>1. CASE WriteKick
  BY <1>1 DEF WriteKick, ControlType
<1>2. CASE ReadEnable
  BY <1>2 DEF ReadEnable, ControlType
<1>3. CASE IrqReceiveEnd
  BY <1>3 DEF IrqReceiveEnd, ControlType
<1>4. CASE IrqTransmitEnd
  BY <1>4 DEF IrqTransmitEnd, ControlType
<1>5. CASE AlarmTimeout
  <2>1. host_inactive' = 0 \/ host_inactive' = OneMoreSecond(host_inactive)
    BY <1>5 DEF AlarmTimeout
  <2>2. host_inactive' \in 0 .. (INT_MAX - 2)
    BY <2>1 DEF ControlType, OneMoreSecond
  <2>3. QED BY <1>5, <2>2 DEF AlarmTimeout, ControlType
<1>6. ASSUME NEW t \in TimeoutArgs, IoctlTimeout(t)
      PROVE  ControlType'
  <2>1. t \in Int OBVIOUS
  <2>2. timeout' \in 1 .. INT_MAX
    BY <1>6, <2>1 DEF IoctlTimeout, ControlType
  <2>3. QED BY <1>6, <2>2 DEF IoctlTimeout, ControlType
<1>7. CASE UNCHANGED control
  BY <1>7 DEF control, ControlType
<1>8. QED
  BY <1>1, <1>2, <1>3, <1>4, <1>5, <1>6, <1>7, ControlFrame

\* Indices stay in the ring and slots hold bytes.
LEMMA RingTypeStep ==
  ASSUME RingType, DeviceType, CallType, StreamType, CallInv, Next
  PROVE  RingType'
<1> USE DEF RingType
<1>1. CASE WriteCopy
  <2>1. \A i \in in .. (in + n - 1) : txAccepted + (i - in) \in Nat
    BY DEF CallType, StreamType, Index
  <2>2. tx_buf' \in [Index -> Nat]
    BY <1>1, <2>1 DEF WriteCopy
  <2>3. QED BY <1>1, <2>2 DEF WriteCopy, rxRing
<1>2. CASE WritePublish
  <2>1. n \in 0 .. BUF_LEN /\ in \in Index
    BY <1>2, ConstantsAssumption DEF WritePublish, At, CallInv, CallType, Index
  <2>2. tx_in' \in Index
    BY <1>2, <2>1, AdvanceIsSlot DEF WritePublish
  <2>3. QED BY <1>2, <2>2 DEF WritePublish, rxRing
<1>3. CASE ReadRelease
  <2>1. n \in 0 .. BUF_LEN /\ out \in Index
    BY <1>3, ConstantsAssumption DEF ReadRelease, At, CallInv, CallType, Index
  <2>2. rx_out' \in Index
    BY <1>3, <2>1, AdvanceIsSlot DEF ReadRelease
  <2>3. QED BY <1>3, <2>2 DEF ReadRelease, txRing
<1>4. CASE IrqReceive
  <2>1. Advance(rx_in, 1) \in Index
    BY AdvanceIsSlot, ConstantsAssumption
  <2>2. rxFifo # <<>> => Head(rxFifo) \in Nat
    BY DEF DeviceType
  <2>3. rx_in' \in Index /\ rx_buf' \in [Index -> Nat]
    BY <1>4, <2>1, <2>2 DEF IrqReceive
  <2>4. QED BY <1>4, <2>3 DEF IrqReceive, txRing
<1>5. CASE IrqTransmit
  <2>1. Advance(tx_out, 1) \in Index
    BY AdvanceIsSlot, ConstantsAssumption
  <2>2. QED BY <1>5, <2>1 DEF IrqTransmit, rxRing
<1>6. CASE UNCHANGED <<txRing, rxRing>>
  BY <1>6 DEF txRing, rxRing
<1>7. QED
  BY <1>1, <1>2, <1>3, <1>4, <1>5, <1>6, RingFrame

\* The FIFOs hold bytes, never more than their depth.
LEMMA DeviceTypeStep ==
  ASSUME RingType, DeviceType, StreamType, Next
  PROVE  DeviceType'
<1> USE DEF DeviceType
<1>1. CASE IrqReceive
  <2>1. rxFifo' = rxFifo \/ (rxFifo # <<>> /\ rxFifo' = Tail(rxFifo))
    BY <1>1 DEF IrqReceive
  <2>2. rxFifo # <<>> => Tail(rxFifo) \in Seq(Nat) /\ Len(Tail(rxFifo)) = Len(rxFifo) - 1
    OBVIOUS
  <2>3. Len(rxFifo) \in Nat /\ RxDepth \in Nat
    BY ConstantsAssumption
  <2>4. CASE rxFifo' = rxFifo
    BY <1>1, <2>4 DEF IrqReceive
  <2>5. CASE rxFifo # <<>> /\ rxFifo' = Tail(rxFifo)
    <3>1. rxFifo' \in Seq(Nat) BY <2>2, <2>5
    <3>2. Len(rxFifo') = Len(rxFifo) - 1 BY <2>2, <2>5
    <3>3. Len(rxFifo') <= RxDepth BY <2>3, <3>2
    <3>4. QED BY <1>1, <3>1, <3>3 DEF IrqReceive
  <2>6. QED BY <2>1, <2>4, <2>5
<1>2. CASE IrqTransmit
  <2>1. tx_buf[tx_out] \in Nat
    BY DEF RingType
  <2>2. txFifo' \in Seq(Nat) /\ Len(txFifo') <= TxDepth
    BY <1>2, <2>1, ConstantsAssumption DEF IrqTransmit
  <2>3. QED BY <1>2, <2>2 DEF IrqTransmit
<1>3. CASE AlarmTimeout
  BY <1>3 DEF AlarmTimeout
<1>4. CASE Host
  <2>1. CASE HostReceive
    BY <2>1, ConstantsAssumption DEF HostReceive
  <2>2. CASE HostSend
    BY <2>2, ConstantsAssumption DEF HostSend, StreamType
  <2>3. CASE HostPoll
    BY <2>3 DEF HostPoll
  <2>4. CASE HostPlug
    BY <2>4 DEF HostPlug
  <2>5. QED BY <1>4, <2>1, <2>2, <2>3, <2>4 DEF Host
<1>5. CASE UNCHANGED device
  BY <1>5 DEF device
<1>6. QED
  BY <1>1, <1>2, <1>3, <1>4, <1>5, DeviceFrame

\* The interrupt routine's locals keep their type.
LEMMA IrqTypeStep ==
  ASSUME IrqType, DeviceType, Next
  PROVE  IrqType'
<1> USE DEF IrqType, IrqLabels
<1>1. CASE IrqEnter
  BY <1>1 DEF IrqEnter
<1>2. CASE IrqControl
  <2>1. WSPACE \in 0 .. TxDepth
    BY ConstantsAssumption DEF WSPACE, DeviceType
  <2>2. WI \in BOOLEAN /\ RI \in BOOLEAN
    BY DEF WI, RI
  <2>3. CASE RI \/ WI
    <3>1. wi' = WI /\ space' = WSPACE /\ ravail' = RI /\ ipc' \in {"rx", "tx"}
      BY <1>2, <2>3 DEF IrqControl
    <3>2. QED BY <2>1, <2>2, <3>1
  <2>4. CASE ~(RI \/ WI)
    <3>1. ipc' = "off" /\ wi' = FALSE /\ space' = 0 /\ ravail' = FALSE
      BY <1>2, <2>4 DEF IrqControl
    <3>2. 0 \in 0 .. TxDepth
      BY ConstantsAssumption
    <3>3. QED BY <3>1, <3>2
  <2>5. QED BY <2>3, <2>4
<1>3. CASE IrqReceive
  BY <1>3 DEF IrqReceive
<1>4. CASE IrqReceiveEnd
  BY <1>4 DEF IrqReceiveEnd
<1>5. CASE IrqTransmit
  BY <1>5, ConstantsAssumption DEF IrqTransmit
<1>6. CASE IrqTransmitEnd
  <2>1. ipc' = "control" /\ wi' = FALSE /\ space' = 0 /\ ravail' = ravail
    BY <1>6 DEF IrqTransmitEnd
  <2>2. 0 \in 0 .. TxDepth
    BY ConstantsAssumption
  <2>3. QED BY <2>1, <2>2
<1>7. CASE UNCHANGED isr
  BY <1>7 DEF isr
<1>8. QED
  BY <1>1, <1>2, <1>3, <1>4, <1>5, <1>6, <1>7, IrqFrame DEF Irq

\* Leaving a call with a legal result leaves well-typed (empty) locals.
LEMMA ReturnType ==
  ASSUME NEW r \in Returned, Return(r)
  PROVE  CallType'
<1>1. 0 \in Index /\ <<>> \in Seq(Nat)
  BY ConstantsAssumption DEF Index
<1>2. QED BY <1>1 DEF Return, CallType, Labels

\* A call's result is a byte count or an error.
LEMMA ResultType ==
  ASSUME NEW k \in Nat, NEW nb \in BOOLEAN
  PROVE  Result(k, nb) \in Returned
BY DEF Result, Returned

\* The running call's locals keep their type.
LEMMA CallTypeStep ==
  ASSUME CallType, RingType, CallInv, Next
  PROVE  CallType'
<1>1. Result(done, nonblock) \in Returned
  BY ResultType DEF CallType
<1>2. 0 \in Returned /\ 1 \in Returned /\ -ENOTTY \in Returned /\ -EWOULDBLOCK \in Returned
  BY DEF Returned
<1>3. CASE Call
  <2>1. ASSUME NEW c \in CallSizes, NEW nb \in BOOLEAN, WriteCall(c, nb)
        PROVE  CallType'
    BY <1>2, <2>1, ConstantsAssumption DEF WriteCall, CallType, Labels
  <2>2. ASSUME NEW c \in CallSizes, NEW nb \in BOOLEAN, ReadCall(c, nb)
        PROVE  CallType'
    <3>1. CASE c = 0
      BY <2>2, <3>1, ReturnType, ResultType DEF ReadCall
    <3>2. CASE c # 0
      BY <1>2, <2>2, <3>2, ConstantsAssumption DEF ReadCall, CallType, Labels
    <3>3. QED BY <3>1, <3>2
  <2>3. ASSUME NEW nb \in BOOLEAN, CloseCall(nb)
        PROVE  CallType'
    BY <1>2, <2>3 DEF CloseCall, CallType, Labels
  <2>4. ASSUME NEW t \in TimeoutArgs, IoctlTimeout(t)
        PROVE  CallType'
    <3>1. ret' \in Returned
      BY <1>2, <2>4 DEF IoctlTimeout
    <3>2. QED BY <2>4, <3>1 DEF IoctlTimeout, locals, CallType
  <2>5. CASE IoctlConnected
    <3>1. ret' \in Returned
      BY <1>2, <2>5 DEF IoctlConnected
    <3>2. QED BY <2>5, <3>1 DEF IoctlConnected, locals, CallType
  <2>6. QED BY <1>3, <2>1, <2>2, <2>3, <2>4, <2>5 DEF Call
<1>4. CASE Write
  <2>1. CASE WriteFill
    <3>1. AtMost(TxRoom(tx_in, tx_out), count) \in Nat
      BY ChunkFacts DEF CallType, RingType
    <3>2. QED BY <2>1, <3>1 DEF WriteFill, CallType, RingType, Labels
  <2>2. CASE WriteCopy
    <3>1. count - n \in Nat /\ done + n \in Nat
      BY <2>2 DEF WriteCopy, At, CallInv, CallType
    <3>2. QED BY <2>2, <3>1 DEF WriteCopy, CallType, Labels
  <2>3. CASE WritePublish
    BY <2>3 DEF WritePublish, CallType, Labels
  <2>4. CASE WriteKick
    <3>1. CASE count > 0 /\ ~nonblock
      BY <2>4, <3>1 DEF WriteKick, Goto, locals, CallType, Labels
    <3>2. CASE ~(count > 0 /\ ~nonblock)
      BY <1>1, <2>4, <3>2, ReturnType DEF WriteKick
    <3>3. QED BY <3>1, <3>2
  <2>5. CASE WriteSpin
    BY <2>5 DEF WriteSpin, CallType, Labels
  <2>6. CASE WriteCheck
    <3>1. CASE host_inactive > 0
      BY <1>1, <2>6, <3>1, ReturnType DEF WriteCheck
    <3>2. CASE ~(host_inactive > 0)
      BY <2>6, <3>2 DEF WriteCheck, Goto, locals, CallType, Labels
    <3>3. QED BY <3>1, <3>2
  <2>7. QED BY <1>4, <2>1, <2>2, <2>3, <2>4, <2>5, <2>6 DEF Write
<1>5. CASE Read
  <2>1. CASE ReadFetch
    <3>1. AtMost(RxReady(rx_in, rx_out), count) \in Nat
      BY ChunkFacts DEF CallType, RingType
    <3>2. CASE RxReady(rx_in, rx_out) = 0 /\ done = 0 /\ nonblock
      <4>1. Return(Result(0, TRUE)) BY <2>1, <3>2 DEF ReadFetch
      <4>2. Result(0, TRUE) \in Returned BY ResultType
      <4>3. QED BY <4>1, <4>2, ReturnType
    <3>3. CASE ~(RxReady(rx_in, rx_out) = 0 /\ done = 0 /\ nonblock)
      BY <2>1, <3>1, <3>3 DEF ReadFetch, Goto, CallType, RingType, Labels
    <3>4. QED BY <3>2, <3>3
  <2>2. CASE ReadCopy
    <3>1. count - n \in Nat /\ done + n \in Nat
      BY <2>2 DEF ReadCopy, At, CallInv, CallType
    <3>2. [i \in 1 .. n |-> rx_buf[out + i - 1]] \in Seq(Nat)
      <4>1. n \in Nat /\ out + n <= BUF_LEN
        BY <2>2 DEF ReadCopy, At, CallInv, CallType
      <4>2. \A i \in 1 .. n : rx_buf[out + i - 1] \in Nat
        BY <4>1, ConstantsAssumption DEF RingType, CallType, Index
      <4>3. QED BY <4>1, <4>2
    <3>3. ubuf' \in Seq(Nat)
      BY <2>2, <3>2 DEF ReadCopy, CallType
    <3>4. QED BY <2>2, <3>1, <3>3 DEF ReadCopy, CallType, Labels
  <2>3. CASE ReadRelease
    BY <2>3 DEF ReadRelease, CallType, Labels
  <2>4. CASE ReadSpin
    BY <2>4 DEF ReadSpin, CallType, Labels
  <2>5. CASE ReadCheck
    <3>1. CASE in = rx_in
      BY <1>1, <2>5, <3>1, ReturnType DEF ReadCheck
    <3>2. CASE in # rx_in
      BY <2>5, <3>2 DEF ReadCheck, Goto, locals, CallType, Labels
    <3>3. QED BY <3>1, <3>2
  <2>6. CASE ReadEnable
    BY <1>1, <2>6, ReturnType DEF ReadEnable
  <2>7. QED BY <1>5, <2>1, <2>2, <2>3, <2>4, <2>5, <2>6 DEF Read
<1>6. CASE CloseDrain
  <2>1. ASSUME NEW b \in BOOLEAN, Return(IF b THEN -EWOULDBLOCK ELSE 0)
        PROVE  CallType'
    BY <1>2, <2>1, ReturnType
  <2>2. QED BY <1>6, <2>1 DEF CloseDrain
<1>7. CASE UNCHANGED call
  BY <1>7 DEF call, CallType
<1>8. QED
  BY <1>3, <1>4, <1>5, <1>6, <1>7, CallFrame

\* The stream positions stay natural numbers.
LEMMA StreamTypeStep ==
  ASSUME StreamType, CallType, Next
  PROVE  StreamType'
<1>1. CASE WriteCopy
  BY <1>1 DEF WriteCopy, StreamType, CallType
<1>2. CASE ReadCopy
  BY <1>2 DEF ReadCopy, StreamType, CallType
<1>3. CASE HostReceive
  BY <1>3 DEF HostReceive, StreamType
<1>4. CASE HostSend
  BY <1>4 DEF HostSend, StreamType
<1>5. CASE UNCHANGED streams
  BY <1>5 DEF streams, StreamType
<1>6. QED
  BY <1>1, <1>2, <1>3, <1>4, <1>5, StreamFrame

----------------------------------------------------------------------------
(* What a snapshot still means *)

\* A read() that goes on has bytes left to deliver.
LEMMA ReadInvStep ==
  ASSUME CallType, ReadInv, Next
  PROVE  ReadInv'
<1> USE DEF ReadInv
<1>1. CASE Call
  <2>1. ASSUME NEW c \in CallSizes, NEW nb \in BOOLEAN, ReadCall(c, nb)
        PROVE  ReadInv'
    <3>1. c \in Nat BY ConstantsAssumption
    <3>2. CASE c = 0
      BY <2>1, <3>2 DEF ReadCall, Return
    <3>3. CASE c # 0
      BY <2>1, <3>1, <3>3 DEF ReadCall
    <3>4. QED BY <3>2, <3>3
  <2>2. CASE pc' \in {"w_fill", "c_drain"}
    BY <2>2
  <2>3. CASE pc' = pc /\ UNCHANGED locals
    BY <2>3 DEF locals
  <2>4. QED
    BY <1>1, <2>1, <2>2, <2>3 DEF Call, WriteCall, CloseCall, IoctlTimeout, IoctlConnected
<1>2. CASE Write
  BY <1>2 DEF Write, WriteFill, WriteCopy, WritePublish, WriteKick, WriteSpin, WriteCheck,
     Return, Goto, At, locals
<1>3. CASE Read
  BY <1>3 DEF Read, ReadFetch, ReadCopy, ReadRelease, ReadSpin, ReadCheck, ReadEnable,
     Return, Goto, At, locals
<1>4. CASE CloseDrain
  BY <1>4 DEF CloseDrain, Return
<1>5. CASE UNCHANGED call
  BY <1>5 DEF call
<1>6. QED BY <1>1, <1>2, <1>3, <1>4, <1>5, CallFrame

\* The interrupt routine only frees slots of the transmit ring and fills slots of the
\* receive ring, so a chunk chosen by a call stays free, or filled, until it is used.
LEMMA CallInvStep ==
  ASSUME RingType, CallType, CallInv, ReadInv, Next
  PROVE  CallInv'
<1> USE DEF CallInv
<1>1. CASE WriteFill
  <2>1. CASE pc' = "w_copy"
    <3>1. /\ in' = tx_in /\ n' = AtMost(TxRoom(tx_in, tx_out), count)
          /\ count' = count /\ count # 0 /\ TxRoom(tx_in, tx_out) # 0
          /\ UNCHANGED <<tx_in, tx_out>>
      BY <1>1, <2>1 DEF WriteFill, driver, txRing
    <3>2. /\ n' >= 1 /\ in' + n' <= BUF_LEN /\ n' <= count
          /\ Used(tx_in, tx_out) + n' <= BUF_LEN - 1
      <4>1. Used(tx_in, tx_out) \in Nat
        BY UsedFacts, ConstantsAssumption DEF RingType
      <4>2. /\ TxRoom(tx_in, tx_out) \in Nat
            /\ tx_in + TxRoom(tx_in, tx_out) <= BUF_LEN
            /\ Used(tx_in, tx_out) + TxRoom(tx_in, tx_out) <= BUF_LEN - 1
            /\ AtMost(TxRoom(tx_in, tx_out), count) \in Nat
            /\ AtMost(TxRoom(tx_in, tx_out), count) <= count
            /\ AtMost(TxRoom(tx_in, tx_out), count) <= TxRoom(tx_in, tx_out)
            /\ count > 0 /\ TxRoom(tx_in, tx_out) > 0
                 => AtMost(TxRoom(tx_in, tx_out), count) >= 1
        BY ChunkFacts DEF RingType, CallType
      <4>3. count > 0 /\ TxRoom(tx_in, tx_out) > 0
        BY <3>1, <4>2 DEF CallType
      <4>4. tx_in \in Nat /\ BUF_LEN \in Nat /\ count \in Nat
        BY ConstantsAssumption DEF RingType, CallType, Index
      <4>5. n' >= 1 /\ n' <= TxRoom(tx_in, tx_out) /\ n' \in Nat /\ n' <= count
        BY <3>1, <4>2, <4>3
      <4>6. tx_in + n' <= BUF_LEN /\ Used(tx_in, tx_out) + n' <= BUF_LEN - 1
        <5>1. \A x, r, u, m, b \in Nat :
                x + r <= b /\ u + r <= b - 1 /\ m <= r => x + m <= b /\ u + m <= b - 1
          OBVIOUS
        <5>2. QED BY <4>1, <4>2, <4>4, <4>5, <5>1
      <4>7. QED BY <3>1, <4>5, <4>6
    <3>3. QED BY <2>1, <3>1, <3>2 DEF Used
  <2>2. CASE pc' = "w_kick"
    BY <2>2
  <2>3. QED BY <1>1, <2>1, <2>2 DEF WriteFill
<1>2. CASE WriteCopy
  <2>1. pc = "w_copy" /\ pc' = "w_publish" /\ UNCHANGED <<in, n, tx_in, tx_out>>
    BY <1>2 DEF WriteCopy, At
  <2>2. QED BY <2>1 DEF Used
<1>3. CASE ReadFetch
  <2>1. CASE pc' = "r_copy"
    <3>1. /\ out' = rx_out /\ n' = AtMost(RxReady(rx_in, rx_out), count)
          /\ count' = count /\ RxReady(rx_in, rx_out) > 0
          /\ UNCHANGED <<rx_in, rx_out>>
      BY <1>3, <2>1 DEF ReadFetch, Return, Goto, driver, rxRing
    <3>2. count > 0
      BY <1>3 DEF ReadFetch, At, ReadInv
    <3>3. /\ n' >= 1 /\ out' + n' <= BUF_LEN /\ n' <= count
          /\ n' <= Used(rx_in, rx_out)
      <4>1. Used(rx_in, rx_out) \in Nat
        BY UsedFacts, ConstantsAssumption DEF RingType
      <4>2. /\ RxReady(rx_in, rx_out) \in Nat
            /\ rx_out + RxReady(rx_in, rx_out) <= BUF_LEN
            /\ RxReady(rx_in, rx_out) <= Used(rx_in, rx_out)
            /\ AtMost(RxReady(rx_in, rx_out), count) \in Nat
            /\ AtMost(RxReady(rx_in, rx_out), count) <= count
            /\ AtMost(RxReady(rx_in, rx_out), count) <= RxReady(rx_in, rx_out)
            /\ count > 0 /\ RxReady(rx_in, rx_out) > 0
                 => AtMost(RxReady(rx_in, rx_out), count) >= 1
        BY ChunkFacts DEF RingType, CallType
      <4>3. rx_out \in Nat /\ BUF_LEN \in Nat /\ count \in Nat
        BY ConstantsAssumption DEF RingType, CallType, Index
      <4>4. n' >= 1 /\ n' <= RxReady(rx_in, rx_out) /\ n' \in Nat /\ n' <= count
        BY <3>1, <3>2, <4>2
      <4>5. rx_out + n' <= BUF_LEN /\ n' <= Used(rx_in, rx_out)
        <5>1. \A x, r, m, b \in Nat : x + r <= b /\ m <= r => x + m <= b
          OBVIOUS
        <5>2. \A r, u, m \in Nat : r <= u /\ m <= r => m <= u
          OBVIOUS
        <5>3. RxReady(rx_in, rx_out) \in Nat /\ n' \in Nat
          BY <4>2, <4>4
        <5>4. rx_out + n' <= BUF_LEN
          BY <4>2, <4>3, <4>4, <5>1, <5>3
        <5>5. n' <= Used(rx_in, rx_out)
          BY <4>1, <4>2, <4>4, <5>2, <5>3
        <5>6. QED BY <5>4, <5>5
      <4>6. QED BY <3>1, <4>4, <4>5
    <3>4. QED BY <2>1, <3>1, <3>3 DEF Used
  <2>2. CASE pc' = "r_enable"
    <3>1. done' = done /\ done > 0
      BY <1>3, <2>2 DEF ReadFetch, Return, Goto
    <3>2. QED BY <2>2, <3>1
  <2>3. CASE pc' \in {"r_spin", "idle"}
    BY <2>3
  <2>4. QED BY <1>3, <2>1, <2>2, <2>3 DEF ReadFetch, Return, Goto
<1>4. CASE ReadCopy
  <2>1. /\ pc = "r_copy" /\ pc' = "r_release" /\ UNCHANGED <<out, n, rx_in, rx_out>>
        /\ done' = done + n
    BY <1>4 DEF ReadCopy, At, driver, rxRing
  <2>2. done' > 0
    BY <2>1 DEF CallType
  <2>3. QED BY <2>1, <2>2 DEF Used
<1>5. CASE ReadRelease
  <2>1. pc = "r_release" /\ pc' \in {"r_fetch", "r_enable"} /\ UNCHANGED done
    BY <1>5 DEF ReadRelease, At
  <2>2. QED BY <2>1
<1>6. CASE IrqReceive
  <2>1. UNCHANGED <<call, tx_in, tx_out, rx_out>>
    BY <1>6 DEF IrqReceive, txRing
  <2>2. Used(rx_in', rx_out') >= Used(rx_in, rx_out)
    <3>1. CASE RxFull(rx_in, rx_out) \/ rxFifo = <<>>
      <4>1. rx_in' = rx_in
        BY <1>6, <3>1 DEF IrqReceive
      <4>2. QED BY <2>1, <4>1, UsedFacts, ConstantsAssumption DEF RingType
    <3>2. CASE ~RxFull(rx_in, rx_out) /\ rxFifo # <<>>
      <4>1. rx_in' = Advance(rx_in, 1)
        BY <1>6, <3>2 DEF IrqReceive
      <4>2. Used(rx_in, rx_out) \in Nat /\ Used(rx_in, rx_out) + 1 <= BUF_LEN - 1
        <5>1. Used(rx_in, rx_out) \in 0 .. (BUF_LEN - 1) /\ Used(rx_in, rx_out) # BUF_LEN - 1
          BY <3>2, UsedFacts DEF RingType
        <5>2. QED BY <5>1, ConstantsAssumption
      <4>3. Used(Advance(rx_in, 1), rx_out) = Used(rx_in, rx_out) + 1
        BY <4>2, RingMoves DEF RingType
      <4>4. QED BY <2>1, <4>1, <4>2, <4>3
    <3>3. QED BY <3>1, <3>2
  <2>3. Used(rx_in, rx_out)' = Used(rx_in', rx_out')
    BY DEF Used
  <2>4. Used(rx_in, rx_out) \in Nat /\ Used(rx_in', rx_out') \in Int /\ n \in Nat
    <3>1. rx_in' \in Index
      <4>1. Advance(rx_in, 1) \in Index
        BY AdvanceIsSlot, ConstantsAssumption DEF RingType
      <4>2. QED BY <1>6, <4>1 DEF IrqReceive, RingType
    <3>2. QED BY <2>1, <3>1, UsedFacts, ConstantsAssumption DEF RingType, CallType
  <2>5. UNCHANGED Used(tx_in, tx_out)
    BY <2>1 DEF Used
  <2>6. QED BY <2>1, <2>2, <2>3, <2>4, <2>5 DEF call
<1>7. CASE IrqTransmit
  <2>1. UNCHANGED <<call, tx_in, rx_in, rx_out>> /\ tx_out' = Advance(tx_out, 1)
        /\ tx_out # tx_in
    BY <1>7 DEF IrqTransmit, rxRing
  <2>2. Used(tx_in, tx_out) \in Nat /\ 1 <= Used(tx_in, tx_out)
    BY <2>1, UsedFacts, ConstantsAssumption DEF RingType
  <2>3. Used(tx_in, Advance(tx_out, 1)) = Used(tx_in, tx_out) - 1
    BY <2>2, RingMoves DEF RingType
  <2>4. Used(tx_in, tx_out)' = Used(tx_in, tx_out) - 1
    BY <2>1, <2>3 DEF Used
  <2>5. UNCHANGED Used(rx_in, rx_out)
    BY <2>1 DEF Used
  <2>6. QED BY <2>1, <2>2, <2>4, <2>5, ConstantsAssumption DEF call, CallType
<1>8. CASE pc' \notin {"w_copy", "w_publish", "r_copy", "r_release", "r_enable"}
  BY <1>8
<1>9. CASE UNCHANGED <<call, tx_in, tx_out, rx_in, rx_out>>
  BY <1>9 DEF call, Used
<1>10. QED
  BY <1>1, <1>2, <1>3, <1>4, <1>5, <1>6, <1>7, <1>8, <1>9, ChunkFrame

\* While the interrupt routine transmits only the host touches the write FIFO, and it
\* only takes bytes out of it; no call runs, so a full receive ring stays full.
LEMMA IrqInvStep ==
  ASSUME DeviceType, IrqType, IrqInv, Next
  PROVE  IrqInv'
<1> USE DEF IrqInv
<1>1. CASE ipc = "off"
  <2>1. ipc' \in {"off", "control"}
    BY <1>1, IrqFrame DEF Irq, IrqEnter, IrqControl, IrqReceive, IrqReceiveEnd, IrqTransmit,
       IrqTransmitEnd, isr
  <2>2. QED BY <2>1
<1>2. CASE IrqEnter
  BY <1>2 DEF IrqEnter
<1>3. CASE IrqControl
  <2>1. ipc' # "rx_end" /\ UNCHANGED txFifo
    BY <1>3 DEF IrqControl, device
  <2>2. ipc' \in {"rx", "tx"} => space' = TxDepth - Len(txFifo)
    BY <1>3 DEF IrqControl, WSPACE
  <2>3. QED BY <2>1, <2>2, ConstantsAssumption DEF DeviceType
<1>4. CASE IrqReceive
  <2>1. UNCHANGED <<txFifo, space>> /\ ipc = "rx"
    BY <1>4 DEF IrqReceive
  <2>2. ipc' = "rx_end" /\ ravail' => RxFull(rx_in, rx_out) /\ UNCHANGED <<rx_in, rx_out>>
    BY <1>4 DEF IrqReceive
  <2>3. QED BY <2>1, <2>2 DEF RxFull, Advance
<1>5. CASE IrqReceiveEnd
  BY <1>5 DEF IrqReceiveEnd, device
<1>6. CASE IrqTransmit
  <2>1. ipc' = "tx" /\ space' = space - 1 /\ ipc = "tx"
    BY <1>6 DEF IrqTransmit
  <2>2. Len(txFifo') <= Len(txFifo) + 1 /\ Len(txFifo) \in Nat /\ Len(txFifo') \in Nat
    <3>1. txFifo' = txFifo \/ txFifo' = Append(txFifo, tx_buf[tx_out])
      BY <1>6 DEF IrqTransmit
    <3>2. CASE txFifo' = txFifo
      BY <3>2 DEF DeviceType
    <3>3. CASE txFifo' = Append(txFifo, tx_buf[tx_out])
      BY <3>3 DEF DeviceType
    <3>4. QED BY <3>1, <3>2, <3>3
  <2>3. QED BY <2>1, <2>2, ConstantsAssumption DEF IrqType
<1>7. CASE IrqTransmitEnd
  BY <1>7 DEF IrqTransmitEnd
<1>8. CASE UNCHANGED isr /\ ipc # "off"
  <2>1. ~Call /\ ~Write /\ ~Read /\ ~CloseDrain /\ ~AlarmTimeout
    BY <1>8 DEF Call, WriteCall, ReadCall, CloseCall, IoctlTimeout, IoctlConnected, Write,
       WriteFill, WriteCopy, WritePublish, WriteKick, WriteSpin, WriteCheck, Read, ReadFetch,
       ReadCopy, ReadRelease, ReadSpin, ReadCheck, ReadEnable, CloseDrain, AlarmTimeout, At
  <2>2. CASE Host
    <3>1. UNCHANGED <<rx_in, rx_out>>
      BY <2>2 DEF Host, HostReceive, HostSend, HostPoll, HostPlug, driver, rxRing
    <3>2. txFifo' = txFifo \/ (txFifo # <<>> /\ txFifo' = Tail(txFifo))
      BY <2>2 DEF Host, HostReceive, HostSend, HostPoll, HostPlug
    <3>3. txFifo # <<>> => Len(Tail(txFifo)) = Len(txFifo) - 1
      BY DEF DeviceType
    <3>4. Len(txFifo') <= Len(txFifo) /\ Len(txFifo) \in Nat /\ Len(txFifo') \in Int
      BY <3>2, <3>3 DEF DeviceType
    <3>5. QED BY <1>8, <3>1, <3>4, ConstantsAssumption DEF isr, IrqType, RxFull, Advance
  <2>3. QED BY <1>2, <1>3, <1>4, <1>5, <1>6, <1>7, <2>1, <2>2 DEF Next, Irq
<1>9. QED
  BY <1>1, <1>2, <1>3, <1>4, <1>5, <1>6, <1>7, <1>8, IrqFrame DEF Irq

----------------------------------------------------------------------------
(* The byte streams *)

\* The slots of a chunk that fits between tx_in and the end of the ring follow the
\* slots in use, and none of them is in use.
LEMMA ChunkSlots ==
  ASSUME NEW i \in Index, NEW o \in Index, NEW m \in Nat,
         i + m <= BUF_LEN, Used(i, o) + m <= BUF_LEN - 1
  PROVE  /\ \A k \in 0 .. (Used(i, o) + m - 1) : Slot(o, k) \in Index
         /\ \A k \in 0 .. (Used(i, o) - 1) : Slot(o, k) \notin i .. (i + m - 1)
         /\ \A k \in Used(i, o) .. (Used(i, o) + m - 1) : Slot(o, k) = i + (k - Used(i, o))
<1>1. BUF_LEN \in Nat /\ BUF_LEN >= 2 BY ConstantsAssumption
<1>2. QED BY <1>1 DEF Used, Slot, Index

\* The j-th slot from o + k on is the (j + k)-th from o on.
LEMMA SlotAdvance ==
  ASSUME NEW o \in Index, NEW k \in Nat, NEW j \in Nat, j + k <= BUF_LEN - 1
  PROVE  Slot(Advance(o, k), j) = Slot(o, j + k)
<1>1. BUF_LEN \in Nat /\ BUF_LEN >= 2 BY ConstantsAssumption
<1>2. Advance(o, k) = Slot(o, k) BY <1>1, AdvanceIsSlot
<1>3. QED BY <1>1, <1>2 DEF Slot, Index

\* Bytes enter the transmit stream at its end and leave it at its front.
LEMMA TxStreamStep ==
  ASSUME TypeOK, CallInv, IrqInv, TxStream, Next
  PROVE  TxStream'
<1> DEFINE used == Used(tx_in, tx_out)
<1>1. /\ tx_in \in Index /\ tx_out \in Index /\ used \in 0 .. (BUF_LEN - 1)
      /\ tx_buf \in [Index -> Nat] /\ BUF_LEN \in Nat /\ BUF_LEN >= 2
      /\ txAccepted \in Nat /\ txSeen \in Nat /\ n \in Nat
      /\ txFifo \in Seq(Nat) /\ Len(txFifo) \in Nat
  <2>1. tx_in \in Index /\ tx_out \in Index /\ tx_buf \in [Index -> Nat]
    BY DEF TypeOK, RingType
  <2>2. used \in 0 .. (BUF_LEN - 1)
    BY <2>1, UsedFacts
  <2>3. txAccepted \in Nat /\ txSeen \in Nat /\ n \in Nat
    BY DEF TypeOK, StreamType, CallType
  <2>4. txFifo \in Seq(Nat) /\ Len(txFifo) \in Nat
    BY DEF TypeOK, DeviceType
  <2>5. QED BY <2>1, <2>2, <2>3, <2>4, ConstantsAssumption
<1>2. CASE WriteCopy
  <2>1. /\ pc = "w_copy" /\ pc' = "w_publish"
        /\ UNCHANGED <<n, in, tx_in, tx_out, txFifo, txSeen>>
        /\ txAccepted' = txAccepted + n
        /\ tx_buf' = [i \in Index |->
             IF i \in in .. (in + n - 1) THEN txAccepted + (i - in) ELSE tx_buf[i]]
    BY <1>2 DEF WriteCopy, At, device
  <2>2. Unpublished = 0 /\ Unpublished' = n
    BY <2>1 DEF Unpublished
  <2>3. UNCHANGED used
    BY <2>1 DEF Used
  <2>4. in = tx_in /\ tx_in + n <= BUF_LEN /\ used + n <= BUF_LEN - 1
    BY <2>1 DEF CallInv
  <2>5. txAccepted = txSeen + Len(txFifo) + used
    BY <1>1, <2>2 DEF TxStream
  <2>6. ASSUME NEW k \in 0 .. (used + n - 1)
        PROVE  tx_buf'[Slot(tx_out, k)] = txSeen + Len(txFifo) + k
    <3>1. Slot(tx_out, k) \in Index
      BY <1>1, <2>4, ChunkSlots
    <3>2. CASE k < used
      <4>1. k \in 0 .. (used - 1)
        BY <1>1, <3>2
      <4>2. Slot(tx_out, k) \notin in .. (in + n - 1)
        BY <1>1, <2>4, <4>1, ChunkSlots
      <4>3. tx_buf[Slot(tx_out, k)] = txSeen + Len(txFifo) + k
        BY <1>1, <2>2, <4>1 DEF TxStream
      <4>4. QED BY <2>1, <3>1, <4>2, <4>3
    <3>3. CASE k >= used
      <4>1. k \in used .. (used + n - 1)
        BY <1>1, <3>3
      <4>2. Slot(tx_out, k) = in + (k - used)
        BY <1>1, <2>4, <4>1, ChunkSlots
      <4>3. PICK i \in Index : i = in + (k - used) /\ i = Slot(tx_out, k)
        BY <3>1, <4>2
      <4>4. in \in Nat /\ i \in Nat /\ k \in Nat /\ used \in Nat /\ n \in Nat
        BY <1>1, <2>4, <4>1 DEF Index
      <4>5. i - in = k - used /\ k - used \in 0 .. (n - 1)
        BY <4>1, <4>3, <4>4
      <4>6. i \in in .. (in + n - 1)
        BY <4>4, <4>5
      <4>7. tx_buf'[i] = txAccepted + (i - in)
        BY <2>1, <4>6
      <4>8. txAccepted + (i - in) = txSeen + Len(txFifo) + k
        BY <1>1, <2>5, <4>4, <4>5
      <4>9. QED BY <4>3, <4>7, <4>8
    <3>4. QED BY <1>1, <3>2, <3>3
  <2>7. txAccepted' = txSeen + Len(txFifo) + used + n
    BY <1>1, <2>1, <2>5
  <2>8. \A k \in 1 .. Len(txFifo) : txFifo[k] = txSeen + k - 1
    BY DEF TxStream
  <2>9. QED BY <2>1, <2>2, <2>3, <2>6, <2>7, <2>8 DEF TxStream
<1>3. CASE WritePublish
  <2>1. /\ pc = "w_publish" /\ pc' = "w_fill" /\ tx_in' = Advance(in, n)
        /\ UNCHANGED <<tx_out, tx_buf, txFifo, txSeen, txAccepted>>
    BY <1>3 DEF WritePublish, At, device, streams
  <2>2. Unpublished = n /\ Unpublished' = 0
    BY <2>1 DEF Unpublished
  <2>3. in = tx_in /\ used + n <= BUF_LEN - 1
    BY <2>1 DEF CallInv
  <2>4. Used(Advance(tx_in, n), tx_out) = used + n
    BY <1>1, <2>3, RingMoves
  <2>5. used' = used + n
    BY <2>1, <2>3, <2>4 DEF Used
  <2>6. used' + Unpublished' = used + Unpublished
    BY <1>1, <2>2, <2>5
  <2>7. txAccepted = txSeen + Len(txFifo) + used' + Unpublished'
    BY <1>1, <2>2, <2>5 DEF TxStream
  <2>8. \A k \in 0 .. (used' + Unpublished' - 1) :
          tx_buf[Slot(tx_out, k)] = txSeen + Len(txFifo) + k
    <3>1. \A k \in 0 .. (used + Unpublished - 1) :
            tx_buf[Slot(tx_out, k)] = txSeen + Len(txFifo) + k
      BY DEF TxStream
    <3>2. used' \in Nat /\ Unpublished' \in Nat /\ used \in Nat /\ Unpublished \in Nat
      BY <1>1, <2>2, <2>5
    <3>3. \A k \in 0 .. (used' + Unpublished' - 1) : k \in 0 .. (used + Unpublished - 1)
      BY <2>6, <3>2
    <3>4. QED BY <3>1, <3>3
  <2>9. \A k \in 1 .. Len(txFifo) : txFifo[k] = txSeen + k - 1
    BY DEF TxStream
  <2>10. QED BY <2>1, <2>7, <2>8, <2>9 DEF TxStream
<1>4. CASE IrqTransmit
  <2>1. /\ ipc = "tx" /\ space > 0 /\ tx_out # tx_in
        /\ UNCHANGED <<pc, n, tx_in, tx_buf, txSeen, txAccepted>>
        /\ tx_out' = Advance(tx_out, 1)
    BY <1>4 DEF IrqTransmit, call, streams
  <2>2. Len(txFifo) < TxDepth
    BY <1>1, <2>1, ConstantsAssumption DEF IrqInv, TypeOK, IrqType
  <2>3. txFifo' = Append(txFifo, tx_buf[tx_out])
    BY <1>4, <2>2 DEF IrqTransmit
  <2>4. UNCHANGED Unpublished /\ Unpublished \in Nat
    BY <1>1, <2>1 DEF Unpublished
  <2>5. used >= 1
    BY <1>1, <2>1, UsedFacts
  <2>6. Used(tx_in, Advance(tx_out, 1)) = used - 1
    BY <1>1, <2>5, RingMoves
  <2>7. used' = used - 1
    BY <2>1, <2>6 DEF Used
  <2>8. used + Unpublished <= BUF_LEN - 1
    BY <1>1 DEF CallInv, Unpublished
  <2>9. /\ Slot(tx_out, 0) = tx_out /\ tx_buf[tx_out] \in Nat
        /\ Len(txFifo') = Len(txFifo) + 1
        /\ \A k \in 1 .. Len(txFifo) : txFifo'[k] = txFifo[k]
        /\ txFifo'[Len(txFifo) + 1] = tx_buf[tx_out]
    BY <1>1, <2>3 DEF Slot, Index
  <2>10. tx_buf[tx_out] = txSeen + Len(txFifo)
    <3>1. 0 \in 0 .. (used + Unpublished - 1)
      BY <1>1, <2>4, <2>5
    <3>2. tx_buf[Slot(tx_out, 0)] = txSeen + Len(txFifo) + 0
      BY <3>1 DEF TxStream
    <3>3. QED BY <1>1, <2>9, <3>2
  <2>11. ASSUME NEW k \in 1 .. Len(txFifo')
         PROVE  txFifo'[k] = txSeen + k - 1
    <3>1. CASE k \in 1 .. Len(txFifo)
      BY <1>1, <2>9, <3>1 DEF TxStream
    <3>2. CASE k = Len(txFifo) + 1
      BY <1>1, <2>9, <2>10, <3>2
    <3>3. QED BY <1>1, <2>9, <3>1, <3>2
  <2>12. ASSUME NEW k \in 0 .. (used - 1 + Unpublished - 1)
         PROVE  tx_buf[Slot(Advance(tx_out, 1), k)] = txSeen + (Len(txFifo) + 1) + k
    <3>1. k + 1 \in 0 .. (used + Unpublished - 1) /\ k \in Nat /\ k + 1 <= BUF_LEN - 1
      BY <1>1, <2>4, <2>5, <2>8
    <3>2. Slot(Advance(tx_out, 1), k) = Slot(tx_out, k + 1)
      BY <1>1, <3>1, SlotAdvance
    <3>3. tx_buf[Slot(tx_out, k + 1)] = txSeen + Len(txFifo) + (k + 1)
      BY <3>1 DEF TxStream
    <3>4. QED BY <1>1, <3>1, <3>2, <3>3
  <2>13. txAccepted = txSeen + (Len(txFifo) + 1) + (used - 1) + Unpublished
    BY <1>1, <2>4 DEF TxStream
  <2>14. QED BY <2>1, <2>4, <2>7, <2>9, <2>11, <2>12, <2>13 DEF TxStream
<1>5. CASE HostReceive
  <2>1. /\ txFifo # <<>> /\ txFifo' = Tail(txFifo) /\ txSeen' = txSeen + 1
        /\ UNCHANGED <<tx_in, tx_out, tx_buf, pc, n, txAccepted>>
    BY <1>5 DEF HostReceive, driver, txRing, call
  <2>2. UNCHANGED used /\ UNCHANGED Unpublished /\ Unpublished \in Nat
    BY <1>1, <2>1 DEF Used, Unpublished
  <2>3. Len(txFifo') = Len(txFifo) - 1 /\ \A k \in 1 .. Len(txFifo') : txFifo'[k] = txFifo[k + 1]
    BY <1>1, <2>1
  <2>4. ASSUME NEW k \in 1 .. Len(txFifo')
        PROVE  txFifo'[k] = txSeen' + k - 1
    <3>1. k + 1 \in 1 .. Len(txFifo)
      BY <1>1, <2>3
    <3>2. txFifo[k + 1] = txSeen + (k + 1) - 1
      BY <3>1 DEF TxStream
    <3>3. QED BY <1>1, <2>1, <2>3, <3>2
  <2>5. txSeen' + Len(txFifo') = txSeen + Len(txFifo)
    BY <1>1, <2>1, <2>3
  <2>6. QED BY <2>1, <2>2, <2>4, <2>5 DEF TxStream
<1>6. CASE UNCHANGED <<txRing, txFifo, txSeen, txAccepted, Unpublished>>
  BY <1>6 DEF txRing, TxStream, Used, Slot
<1>7. QED BY <1>2, <1>3, <1>4, <1>5, <1>6, TxFrame

\* The receive stream, likewise; what read() put in the caller's buffer is its last part.
LEMMA RxStreamStep ==
  ASSUME TypeOK, CallInv, RxStream, Next
  PROVE  RxStream'
<1> DEFINE used == Used(rx_in, rx_out)
           first == rxTaken - Unreleased
<1>1. /\ rx_in \in Index /\ rx_out \in Index /\ used \in 0 .. (BUF_LEN - 1)
      /\ rx_buf \in [Index -> Nat] /\ BUF_LEN \in Nat /\ BUF_LEN >= 2
      /\ rxTaken \in Nat /\ rxSent \in Nat /\ n \in Nat
      /\ rxFifo \in Seq(Nat) /\ Len(rxFifo) \in Nat
      /\ ubuf \in Seq(Nat) /\ Len(ubuf) \in Nat
  <2>1. rx_in \in Index /\ rx_out \in Index /\ rx_buf \in [Index -> Nat]
    BY DEF TypeOK, RingType
  <2>2. used \in 0 .. (BUF_LEN - 1)
    BY <2>1, UsedFacts
  <2>3. rxTaken \in Nat /\ rxSent \in Nat /\ n \in Nat /\ ubuf \in Seq(Nat)
    BY DEF TypeOK, StreamType, CallType
  <2>4. rxFifo \in Seq(Nat) /\ Len(rxFifo) \in Nat
    BY DEF TypeOK, DeviceType
  <2>5. QED BY <2>1, <2>2, <2>3, <2>4, ConstantsAssumption
<1>2. first \in Int /\ Unreleased \in Nat
  BY <1>1 DEF Unreleased
<1>3. /\ rxSent = first + used + Len(rxFifo)
      /\ \A k \in 0 .. (used - 1) : rx_buf[Slot(rx_out, k)] = first + k
      /\ \A k \in 1 .. Len(rxFifo) : rxFifo[k] = first + used + k - 1
      /\ \A k \in 1 .. Len(ubuf) : ubuf[k] = rxTaken - Len(ubuf) + k - 1
  BY DEF RxStream
<1>4. CASE ReadCopy
  <2>1. /\ pc = "r_copy" /\ pc' = "r_release"
        /\ UNCHANGED <<n, rx_in, rx_out, rx_buf, rxFifo, rxSent>>
        /\ rxTaken' = rxTaken + n
        /\ ubuf' = ubuf \o [i \in 1 .. n |-> rx_buf[out + i - 1]]
    BY <1>4 DEF ReadCopy, At, driver, rxRing, device
  <2>2. Unreleased = 0 /\ Unreleased' = n
    BY <2>1 DEF Unreleased
  <2>3. UNCHANGED used /\ UNCHANGED first
    BY <1>1, <2>1, <2>2 DEF Used
  <2>4. out = rx_out /\ n >= 1 /\ rx_out + n <= BUF_LEN /\ n <= used
    BY <2>1 DEF CallInv
  <2>5. /\ Len(ubuf') = Len(ubuf) + n
        /\ \A k \in 1 .. Len(ubuf) : ubuf'[k] = ubuf[k]
        /\ \A k \in (Len(ubuf) + 1) .. (Len(ubuf) + n) :
             ubuf'[k] = rx_buf[rx_out + (k - Len(ubuf)) - 1]
    <3> DEFINE chunk == [i \in 1 .. n |-> rx_buf[rx_out + i - 1]]
    <3>1. chunk \in Seq(Nat)
      <4>1. \A i \in 1 .. n : rx_out + i - 1 \in Index
        BY <1>1, <2>4 DEF Index
      <4>2. \A i \in 1 .. n : rx_buf[rx_out + i - 1] \in Nat
        BY <1>1, <4>1
      <4>3. QED BY <1>1, <4>2
    <3>2. Len(chunk) = n
      BY <1>1, <3>1
    <3>3. ubuf' = ubuf \o chunk
      BY <2>1, <2>4
    <3>4. \A i \in 1 .. n : chunk[i] = rx_buf[rx_out + i - 1]
      OBVIOUS
    <3> HIDE DEF chunk
    <3>5. /\ Len(ubuf') = Len(ubuf) + n
          /\ \A k \in 1 .. Len(ubuf) : ubuf'[k] = ubuf[k]
          /\ \A k \in (Len(ubuf) + 1) .. (Len(ubuf) + n) : ubuf'[k] = chunk[k - Len(ubuf)]
      <4>1. Len(ubuf') = Len(ubuf) + n
        <5>1. Len(ubuf \o chunk) = Len(ubuf) + Len(chunk)
          BY <1>1, <3>1
        <5>2. QED BY <3>2, <3>3, <5>1
      <4>2. \A k \in 1 .. Len(ubuf) : ubuf'[k] = ubuf[k]
        BY <1>1, <3>1, <3>2, <3>3
      <4>3. ASSUME NEW k \in (Len(ubuf) + 1) .. (Len(ubuf) + n)
            PROVE  ubuf'[k] = chunk[k - Len(ubuf)]
        <5>1. k \in 1 .. (Len(ubuf) + Len(chunk)) /\ k > Len(ubuf)
          BY <1>1, <3>2
        <5>2. QED BY <1>1, <3>1, <3>3, <5>1
      <4>4. QED BY <4>1, <4>2, <4>3
    <3>6. \A k \in (Len(ubuf) + 1) .. (Len(ubuf) + n) : k - Len(ubuf) \in 1 .. n
      BY <1>1
    <3>7. QED BY <3>4, <3>5, <3>6
  <2>6. ASSUME NEW k \in 1 .. Len(ubuf')
        PROVE  ubuf'[k] = rxTaken' - Len(ubuf') + k - 1
    <3>1. rxTaken' - Len(ubuf') = rxTaken - Len(ubuf)
      BY <1>1, <2>1, <2>5
    <3>2. CASE k \in 1 .. Len(ubuf)
      BY <1>3, <2>5, <3>1, <3>2
    <3>3. CASE k \in (Len(ubuf) + 1) .. (Len(ubuf) + n)
      <4> DEFINE j == k - Len(ubuf) - 1
      <4>1. j \in 0 .. (used - 1) /\ j \in 0 .. (n - 1)
        BY <1>1, <2>4, <3>3
      <4>2. Slot(rx_out, j) = rx_out + j
        <5>1. rx_out + j < BUF_LEN
          BY <1>1, <2>4, <4>1 DEF Index
        <5>2. QED BY <5>1 DEF Slot
      <4>3. rx_buf[rx_out + j] = rxTaken + j
        BY <1>1, <1>3, <2>2, <4>1, <4>2
      <4>4. rx_out + (k - Len(ubuf)) - 1 = rx_out + j
        BY <1>1, <3>3 DEF Index
      <4>5. ubuf'[k] = rxTaken + j
        BY <2>5, <3>3, <4>3, <4>4
      <4>6. QED BY <1>1, <3>1, <3>3, <4>5
    <3>4. QED BY <1>1, <2>5, <3>2, <3>3
  <2>7. QED BY <1>3, <2>1, <2>3, <2>6 DEF RxStream
<1>5. CASE ReadRelease
  <2>1. /\ pc = "r_release" /\ pc' # "r_release" /\ rx_out' = Advance(out, n)
        /\ UNCHANGED <<rx_in, rx_buf, rxFifo, rxSent, rxTaken, ubuf>>
    BY <1>5 DEF ReadRelease, At, device, streams
  <2>2. Unreleased = n /\ Unreleased' = 0
    BY <2>1 DEF Unreleased
  <2>3. out = rx_out /\ n <= used
    BY <2>1 DEF CallInv
  <2>4. /\ Used(rx_in, Advance(rx_out, n)) = used - n
        /\ \A j \in 0 .. (used - n - 1) : Slot(Advance(rx_out, n), j) = Slot(rx_out, j + n)
    BY <1>1, <2>3, RingMoves
  <2>5. used' = used - n
    BY <2>1, <2>3, <2>4 DEF Used
  <2>6. rxTaken' - Unreleased' = first + n
    BY <1>1, <1>2, <2>1, <2>2
  <2>7. ASSUME NEW k \in 0 .. (used - n - 1)
        PROVE  rx_buf[Slot(Advance(rx_out, n), k)] = first + n + k
    <3>1. k + n \in 0 .. (used - 1) /\ k \in Nat
      BY <1>1, <2>3
    <3>2. rx_buf[Slot(rx_out, k + n)] = first + (k + n)
      BY <1>3, <3>1
    <3>3. QED BY <1>1, <1>2, <2>4, <3>1, <3>2
  <2>8. /\ first + used = first + n + (used - n)
        /\ rxSent = first + n + (used - n) + Len(rxFifo)
    BY <1>1, <1>2, <1>3
  <2>9. \A k \in 1 .. Len(rxFifo) : rxFifo[k] = first + n + (used - n) + k - 1
    BY <1>3, <2>8
  <2>10. QED BY <1>3, <2>1, <2>3, <2>5, <2>6, <2>7, <2>8, <2>9 DEF RxStream
<1>6. CASE IrqReceive
  <2>1. UNCHANGED <<rx_out, pc, n, rxSent, rxTaken, ubuf>>
    BY <1>6 DEF IrqReceive, call, streams
  <2>2. UNCHANGED first
    BY <2>1 DEF Unreleased
  <2>3. CASE RxFull(rx_in, rx_out) \/ rxFifo = <<>>
    <3>1. UNCHANGED <<rx_buf, rx_in, rxFifo>>
      BY <1>6, <2>3 DEF IrqReceive
    <3>2. UNCHANGED used
      BY <2>1, <3>1 DEF Used
    <3>3. QED BY <1>3, <2>1, <2>2, <3>1, <3>2 DEF RxStream
  <2>4. CASE ~RxFull(rx_in, rx_out) /\ rxFifo # <<>>
    <3>1. /\ rx_buf' = [rx_buf EXCEPT ![rx_in] = Head(rxFifo)]
          /\ rx_in' = Advance(rx_in, 1) /\ rxFifo' = Tail(rxFifo)
      BY <1>6, <2>4 DEF IrqReceive
    <3>2. used + 1 <= BUF_LEN - 1
      <4>1. used # BUF_LEN - 1
        BY <1>1, <2>4, UsedFacts
      <4>2. QED BY <1>1, <4>1
    <3>3. Used(Advance(rx_in, 1), rx_out) = used + 1
      BY <1>1, <3>2, RingMoves
    <3>4. used' = used + 1
      BY <2>1, <3>1, <3>3 DEF Used
    <3>5. /\ Len(rxFifo) >= 1 /\ Len(rxFifo') = Len(rxFifo) - 1 /\ Head(rxFifo) = rxFifo[1]
          /\ \A k \in 1 .. Len(rxFifo') : rxFifo'[k] = rxFifo[k + 1]
      BY <1>1, <2>4, <3>1
    <3>6. Head(rxFifo) = first + used
      <4>1. 1 \in 1 .. Len(rxFifo)
        BY <1>1, <3>5
      <4>2. rxFifo[1] = first + used + 1 - 1
        BY <1>3, <4>1
      <4>3. QED BY <1>1, <1>2, <3>5, <4>2
    <3>7. ASSUME NEW k \in 0 .. (used + 1 - 1)
          PROVE  rx_buf'[Slot(rx_out, k)] = first + k
      <4>1. Slot(rx_out, k) \in Index
        BY <1>1, SlotFacts
      <4>2. CASE k = used
        <5>1. Slot(rx_out, k) = rx_in
          BY <1>1, <4>2, SlotFacts
        <5>2. QED BY <1>1, <3>1, <3>6, <4>2, <5>1
      <4>3. CASE k \in 0 .. (used - 1)
        <5>1. Slot(rx_out, k) # rx_in
          BY <1>1, <4>3, SlotFacts
        <5>2. QED BY <1>1, <1>3, <3>1, <4>1, <4>3, <5>1
      <4>4. QED BY <1>1, <4>2, <4>3
    <3>8. ASSUME NEW k \in 1 .. Len(rxFifo')
          PROVE  rxFifo'[k] = first + (used + 1) + k - 1
      <4>1. k + 1 \in 1 .. Len(rxFifo) /\ k \in Nat
        BY <1>1, <3>5
      <4>2. rxFifo[k + 1] = first + used + (k + 1) - 1
        BY <1>3, <4>1
      <4>3. QED BY <1>1, <1>2, <3>5, <4>1, <4>2
    <3>9. rxSent = first + (used + 1) + Len(rxFifo')
      BY <1>1, <1>2, <1>3, <3>5
    <3>10. \A k \in 0 .. (used' - 1) : rx_buf'[Slot(rx_out', k)] = first' + k
      <4>1. used' \in Nat /\ used \in Nat
        BY <1>1, <3>4
      <4>2. \A k \in 0 .. (used' - 1) : k \in 0 .. (used + 1 - 1)
        BY <3>4, <4>1
      <4>3. QED BY <2>1, <2>2, <3>7, <4>2
    <3>11. \A k \in 1 .. Len(rxFifo') : rxFifo'[k] = first' + used' + k - 1
      BY <2>2, <3>4, <3>8
    <3>12. rxSent' = first' + used' + Len(rxFifo')
      BY <2>1, <2>2, <3>4, <3>9
    <3>13. QED BY <1>3, <2>1, <3>10, <3>11, <3>12 DEF RxStream
  <2>5. QED BY <2>3, <2>4
<1>7. CASE HostSend
  <2>1. /\ rxFifo' = Append(rxFifo, rxSent) /\ rxSent' = rxSent + 1
        /\ UNCHANGED <<rx_in, rx_out, rx_buf, pc, n, rxTaken, ubuf>>
    BY <1>7 DEF HostSend, driver, rxRing, call
  <2>2. UNCHANGED used /\ UNCHANGED first
    BY <2>1 DEF Used, Unreleased
  <2>3. /\ Len(rxFifo') = Len(rxFifo) + 1 /\ rxFifo'[Len(rxFifo) + 1] = rxSent
        /\ \A k \in 1 .. Len(rxFifo) : rxFifo'[k] = rxFifo[k]
    BY <1>1, <2>1
  <2>4. ASSUME NEW k \in 1 .. Len(rxFifo')
        PROVE  rxFifo'[k] = first + used + k - 1
    <3>1. CASE k \in 1 .. Len(rxFifo)
      BY <1>3, <2>3, <3>1
    <3>2. CASE k = Len(rxFifo) + 1
      BY <1>1, <1>2, <1>3, <2>3, <3>2
    <3>3. QED BY <1>1, <2>3, <3>1, <3>2
  <2>5. rxSent' = first + used + Len(rxFifo')
    BY <1>1, <1>2, <1>3, <2>1, <2>3
  <2>6. QED BY <1>3, <2>1, <2>2, <2>4, <2>5 DEF RxStream
<1>8. CASE /\ UNCHANGED <<rxRing, rxFifo, rxSent, rxTaken, Unreleased>>
           /\ ubuf' = ubuf \/ ubuf' = <<>>
  <2>1. UNCHANGED <<rx_in, rx_out, rx_buf, rxFifo, rxSent, rxTaken, used, first>>
    BY <1>8 DEF rxRing, Used
  <2>2. \A k \in 1 .. Len(ubuf') : ubuf'[k] = rxTaken - Len(ubuf') + k - 1
    <3>1. CASE ubuf' = ubuf
      BY <1>3, <3>1
    <3>2. CASE ubuf' = <<>>
      BY <3>2
    <3>3. QED BY <1>8, <3>1, <3>2
  <2>3. QED BY <1>3, <2>1, <2>2 DEF RxStream
<1>9. QED BY <1>4, <1>5, <1>6, <1>7, <1>8, RxFrame

----------------------------------------------------------------------------
(* Wakeups and timeouts *)

\* A call that publishes bytes is still before the point where it turns the transmit
\* interrupt on, and the interrupt routine turns it off only for an empty ring.
LEMMA TxWakeupStep ==
  ASSUME TypeOK, IrqInv, TxWakeup, Next
  PROVE  TxWakeup'
<1> USE DEF TxWakeup
<1>1. CASE Call
  BY <1>1 DEF Call, WriteCall, ReadCall, CloseCall, IoctlTimeout, IoctlConnected, Return, At,
     driver, control, txRing
<1>2. CASE Write
  <2>1. CASE WriteKick
    BY <2>1 DEF WriteKick
  <2>2. CASE WriteFill \/ WriteCopy \/ WritePublish \/ WriteSpin \/ WriteCheck
    BY <2>2 DEF WriteFill, WriteCopy, WritePublish, WriteSpin, WriteCheck, Return, Goto, At,
       driver, control, txRing
  <2>3. QED BY <1>2, <2>1, <2>2 DEF Write
<1>3. CASE Read
  BY <1>3 DEF Read, ReadFetch, ReadCopy, ReadRelease, ReadSpin, ReadCheck, ReadEnable,
     Return, Goto, At, driver, control, txRing
<1>4. CASE CloseDrain
  BY <1>4 DEF CloseDrain, Return, At, driver, control, txRing
<1>5. CASE Irq
  <2>1. CASE IrqTransmit
    <3>1. UNCHANGED <<irq_enable, tx_in, pc>> /\ tx_in # tx_out
      BY <2>1 DEF IrqTransmit, control, call
    <3>2. QED BY <3>1
  <2>2. CASE IrqTransmitEnd
    <3>1. UNCHANGED <<tx_in, tx_out, pc>>
      BY <2>2 DEF IrqTransmitEnd, txRing, call
    <3>2. CASE space > 0
      BY <2>2, <3>1, <3>2 DEF IrqTransmitEnd, TypeOK, IrqType
    <3>3. CASE ~(space > 0)
      BY <2>2, <3>1, <3>3 DEF IrqTransmitEnd
    <3>4. QED BY <3>2, <3>3
  <2>3. CASE IrqReceiveEnd
    BY <2>3 DEF IrqReceiveEnd, txRing, call
  <2>4. CASE IrqEnter \/ IrqControl \/ IrqReceive
    BY <2>4 DEF IrqEnter, IrqControl, IrqReceive, driver, control, txRing, call
  <2>5. QED BY <1>5, <2>1, <2>2, <2>3, <2>4 DEF Irq
<1>6. CASE AlarmTimeout
  BY <1>6 DEF AlarmTimeout, txRing, call
<1>7. CASE Host
  BY <1>7 DEF Host, HostReceive, HostSend, HostPoll, HostPlug, driver, control, txRing, call
<1>8. QED BY <1>1, <1>2, <1>3, <1>4, <1>5, <1>6, <1>7 DEF Next

\* The interrupt routine turns receive interrupts off for a full ring only, and a read()
\* that makes room does not end without turning them on.
LEMMA RxWakeupStep ==
  ASSUME TypeOK, CallInv, IrqInv, RxWakeup, Next
  PROVE  RxWakeup'
<1> USE DEF RxWakeup
<1>1. CASE Call
  BY <1>1 DEF Call, WriteCall, ReadCall, CloseCall, IoctlTimeout, IoctlConnected, Return, At,
     driver, control, rxRing, RxFull, Advance
<1>2. CASE Write
  BY <1>2 DEF Write, WriteFill, WriteCopy, WritePublish, WriteKick, WriteSpin, WriteCheck,
     Return, Goto, At, driver, control, rxRing, RxFull, Advance
<1>3. CASE Read
  <2>1. CASE ReadFetch
    <3>1. UNCHANGED <<irq_enable, rx_in, rx_out>> /\ pc = "r_fetch"
      BY <2>1 DEF ReadFetch, At, driver, control, rxRing
    <3>2. done > 0 => pc' \in {"r_copy", "r_enable"} /\ UNCHANGED done
      <4>1. done > 0 => done # 0
        BY DEF TypeOK, CallType
      <4>2. QED BY <2>1, <4>1 DEF ReadFetch, Goto
    <3>3. QED BY <3>1, <3>2 DEF RxFull, Advance
  <2>2. CASE ReadCopy
    <3>1. /\ UNCHANGED <<irq_enable, rx_in, rx_out>> /\ pc = "r_copy" /\ pc' = "r_release"
          /\ done' = done + n
      BY <2>2 DEF ReadCopy, At, driver, control, rxRing
    <3>2. done' > 0
      BY <3>1 DEF CallInv, TypeOK, CallType
    <3>3. QED BY <3>1, <3>2
  <2>3. CASE ReadRelease
    <3>1. UNCHANGED <<irq_enable, done>> /\ pc = "r_release" /\ pc' \in {"r_fetch", "r_enable"}
      BY <2>3 DEF ReadRelease, At, control
    <3>2. QED BY <3>1 DEF CallInv
  <2>4. CASE ReadEnable
    BY <2>4 DEF ReadEnable
  <2>5. CASE ReadSpin \/ ReadCheck
    BY <2>5 DEF ReadSpin, ReadCheck, Return, Goto, At, driver, control, rxRing, RxFull, Advance
  <2>6. QED BY <1>3, <2>1, <2>2, <2>3, <2>4, <2>5 DEF Read
<1>4. CASE CloseDrain
  BY <1>4 DEF CloseDrain, Return, At, driver, control, rxRing, RxFull, Advance
<1>5. CASE Irq
  <2>1. CASE IrqReceive
    <3>1. UNCHANGED <<irq_enable, rx_out, pc, done>>
      BY <2>1 DEF IrqReceive, control, call
    <3>2. RxFull(rx_in, rx_out) => UNCHANGED rx_in
      BY <2>1 DEF IrqReceive
    <3>3. QED BY <3>1, <3>2 DEF RxFull, Advance
  <2>2. CASE IrqReceiveEnd
    <3>1. UNCHANGED <<rx_in, rx_out, pc, done>>
      BY <2>2 DEF IrqReceiveEnd, rxRing, call
    <3>2. CASE ravail
      BY <2>2, <3>1, <3>2 DEF IrqReceiveEnd, IrqInv, RxFull, Advance
    <3>3. CASE ~ravail
      BY <2>2, <3>1, <3>3 DEF IrqReceiveEnd, RxFull, Advance
    <3>4. QED BY <3>2, <3>3
  <2>3. CASE IrqTransmitEnd
    BY <2>3 DEF IrqTransmitEnd, rxRing, call, RxFull, Advance
  <2>4. CASE IrqEnter \/ IrqControl \/ IrqTransmit
    BY <2>4 DEF IrqEnter, IrqControl, IrqTransmit, driver, control, rxRing, call, RxFull,
       Advance
  <2>5. QED BY <1>5, <2>1, <2>2, <2>3, <2>4 DEF Irq
<1>6. CASE AlarmTimeout
  BY <1>6 DEF AlarmTimeout, rxRing, call, RxFull, Advance
<1>7. CASE Host
  BY <1>7 DEF Host, HostReceive, HostSend, HostPoll, HostPlug, driver, control, rxRing, call,
     RxFull, Advance
<1>8. QED BY <1>1, <1>2, <1>3, <1>4, <1>5, <1>6, <1>7 DEF Next

\* The inactivity count saturates below both values that stand for "no timeout".
LEMMA TypesGiveNeverTimesOut ==
  ASSUME ControlType
  PROVE  NeverTimesOut
BY ConstantsAssumption DEF ControlType, NeverTimesOut

----------------------------------------------------------------------------
(* The inductive invariant *)

\* The initial states satisfy the inductive invariant.
LEMMA InitIInv == Init => IInv
<1> SUFFICES ASSUME Init
             PROVE  IInv
  OBVIOUS
<1> USE DEF Init
<1>1. /\ 0 \in Index /\ 0 \in 0 .. TxDepth /\ 0 \in 0 .. (INT_MAX - 2) /\ 0 \in Returned
      /\ TxDepth \in Nat /\ RxDepth \in Nat
  BY ConstantsAssumption DEF Index, Returned
<1>2. <<>> \in Seq(Nat) /\ Len(<<>>) = 0
  OBVIOUS
<1>3. ControlType
  BY <1>1, ConstantsAssumption DEF ControlType
<1>4. RingType
  BY <1>1 DEF RingType
<1>5. DeviceType
  <2>1. rxFifo \in Seq(Nat) /\ txFifo \in Seq(Nat)
    BY <1>2
  <2>2. Len(rxFifo) <= RxDepth /\ Len(txFifo) <= TxDepth
    BY <1>2, <1>1
  <2>3. QED BY <2>1, <2>2 DEF DeviceType
<1>6. IrqType
  BY <1>1 DEF IrqType, IrqLabels
<1>7. CallType
  BY <1>2, <1>1 DEF CallType, Labels
<1>8. StreamType
  BY DEF StreamType
<1>9. CallInv /\ ReadInv /\ IrqInv
  BY DEF CallInv, ReadInv, IrqInv
<1>10. Used(0, 0) = 0
  BY DEF Used
<1>11. TxStream
  BY <1>10 DEF TxStream, Unpublished
<1>12. RxStream
  BY <1>10 DEF RxStream, Unreleased
<1>13. TxWakeup /\ RxWakeup
  BY DEF TxWakeup, RxWakeup
<1>14. QED
  BY <1>3, <1>4, <1>5, <1>6, <1>7, <1>8, <1>9, <1>11, <1>12, <1>13, TypesGiveNeverTimesOut
  DEF IInv, TypeOK

\* Every step, and every stuttering step, preserves it.
LEMMA NextIInv == IInv /\ [Next]_vars => IInv'
<1>1. ASSUME IInv, Next
      PROVE  IInv'
  <2>1. /\ TypeOK /\ CallInv /\ ReadInv /\ IrqInv
        /\ TxStream /\ RxStream /\ TxWakeup /\ RxWakeup
    BY <1>1 DEF IInv
  <2>2. /\ ControlType /\ RingType /\ DeviceType /\ IrqType /\ CallType /\ StreamType
    BY <2>1 DEF TypeOK
  <2>3. ControlType' /\ RingType' /\ DeviceType'
    BY <1>1, <2>1, <2>2, ControlTypeStep, RingTypeStep, DeviceTypeStep
  <2>4. IrqType' /\ CallType' /\ StreamType'
    BY <1>1, <2>1, <2>2, IrqTypeStep, CallTypeStep, StreamTypeStep
  <2>5. CallInv' /\ ReadInv' /\ IrqInv'
    BY <1>1, <2>1, <2>2, CallInvStep, ReadInvStep, IrqInvStep
  <2>6. TxStream' /\ RxStream'
    BY <1>1, <2>1, TxStreamStep, RxStreamStep
  <2>7. TxWakeup' /\ RxWakeup'
    BY <1>1, <2>1, TxWakeupStep, RxWakeupStep
  <2>8. NeverTimesOut'
    BY <2>3, ConstantsAssumption DEF ControlType, NeverTimesOut
  <2>9. QED BY <2>3, <2>4, <2>5, <2>6, <2>7, <2>8 DEF IInv, TypeOK
<1>2. ASSUME IInv, UNCHANGED vars
      PROVE  IInv'
  <2>1. UNCHANGED <<control, txRing, rxRing, device, isr, call, streams>>
    BY <1>2 DEF vars, driver
  <2>2. UNCHANGED <<TypeOK, NeverTimesOut>>
    BY <2>1 DEF TypeOK, ControlType, RingType, DeviceType, IrqType, CallType, StreamType,
       NeverTimesOut, control, txRing, rxRing, device, isr, call, streams
  <2>3. UNCHANGED <<CallInv, ReadInv, IrqInv>>
    BY <2>1 DEF CallInv, ReadInv, IrqInv, Used, RxFull, Advance, txRing, rxRing, device, isr,
       call
  <2>4. UNCHANGED <<TxStream, RxStream>>
    BY <2>1 DEF TxStream, RxStream, Unpublished, Unreleased, Used, Slot, txRing, rxRing,
       device, call, streams
  <2>5. UNCHANGED <<TxWakeup, RxWakeup>>
    BY <2>1 DEF TxWakeup, RxWakeup, RxFull, Advance, control, txRing, rxRing, call
  <2>6. QED BY <1>2, <2>2, <2>3, <2>4, <2>5 DEF IInv
<1>3. QED BY <1>1, <1>2

\* The inductive invariant holds in every reachable state.
THEOREM Invariance == Spec => []IInv
BY InitIInv, NextIInv, PTL DEF Spec

----------------------------------------------------------------------------
(* What the driver guarantees *)

\* Every field, index, FIFO and local keeps its type.
THEOREM TypeCorrect == Spec => []TypeOK
<1>1. IInv => TypeOK BY DEF IInv
<1>2. QED BY <1>1, Invariance, PTL

\* No accepted byte is lost, repeated, reordered or overwritten on its way to the host,
\* however write() and the interrupt routine interleave.
THEOREM TxStreamCorrect == Spec => []TxStream
<1>1. IInv => TxStream BY DEF IInv
<1>2. QED BY <1>1, Invariance, PTL

\* No byte the host sent is, on its way to the caller of read().
THEOREM RxStreamCorrect == Spec => []RxStream
<1>1. IInv => RxStream BY DEF IInv
<1>2. QED BY <1>1, Invariance, PTL

\* Published bytes never wait with the transmit interrupt off and nobody to turn it on.
THEOREM NoLostTxWakeup == Spec => []TxWakeup
<1>1. IInv => TxWakeup BY DEF IInv
<1>2. QED BY <1>1, Invariance, PTL

\* The receive interrupt is never left off with room in the receive ring.
THEOREM NoLostRxWakeup == Spec => []RxWakeup
<1>1. IInv => RxWakeup BY DEF IInv
<1>2. QED BY <1>1, Invariance, PTL

\* The two "never" timeouts never expire.
THEOREM NeverMeansNever == Spec => []NeverTimesOut
<1>1. IInv => NeverTimesOut BY DEF IInv
<1>2. QED BY <1>1, Invariance, PTL

\* Neither direction loses a wakeup, for every ring length and FIFO depth.
THEOREM WakeupsSound == Spec => []NoLostWakeup
BY NoLostTxWakeup, NoLostRxWakeup, PTL DEF NoLostWakeup

----------------------------------------------------------------------------
(* Each direction is a bounded byte pipe *)

\* The stretch of the stream from position got to just before put.
Stretch(got, put) == [j \in 1 .. (put - got) |-> got + j - 1]

\* It is a sequence of that many bytes, in the order of the stream.
LEMMA StretchFacts ==
  ASSUME NEW got \in Nat, NEW put \in Nat, got <= put
  PROVE  /\ Stretch(got, put) \in Seq(Nat) /\ Len(Stretch(got, put)) = put - got
         /\ \A j \in 1 .. (put - got) : Stretch(got, put)[j] = got + j - 1
<1> DEFINE length == put - got
           stretch == [j \in 1 .. length |-> got + j - 1]
<1>1. length \in Nat /\ \A j \in 1 .. length : got + j - 1 \in Nat OBVIOUS
<1>2. stretch \in [1 .. length -> Nat] BY <1>1
<1> HIDE DEF length
<1>3. stretch \in Seq(Nat) /\ Len(stretch) = length BY <1>1, <1>2
<1> QED BY <1>3 DEF Stretch, length

\* A sequence of the right length whose k-th byte is the k-th of the stretch is the
\* stretch.
LEMMA IsStretch ==
  ASSUME NEW got \in Nat, NEW put \in Nat, got <= put,
         NEW s \in Seq(Nat), Len(s) = put - got,
         \A j \in 1 .. (put - got) : s[j] = got + j - 1
  PROVE  s = Stretch(got, put)
<1> DEFINE stretch == Stretch(got, put)
<1>1. /\ stretch \in Seq(Nat) /\ Len(stretch) = put - got
      /\ \A j \in 1 .. (put - got) : stretch[j] = got + j - 1
  BY StretchFacts
<1> HIDE DEF stretch
<1>2. Len(s) = Len(stretch) /\ \A j \in 1 .. Len(s) : s[j] = stretch[j] BY <1>1
<1>3. s = stretch BY <1>1, <1>2, SeqEqual
<1> QED BY <1>3 DEF stretch

\* Two stretches, one after the other, are a stretch.
LEMMA Joined ==
  ASSUME NEW got \in Nat, NEW put \in Nat, NEW s \in Seq(Nat), NEW t \in Seq(Nat),
         put - got = Len(s) + Len(t),
         \A j \in 1 .. Len(s) : s[j] = got + j - 1,
         \A j \in 1 .. Len(t) : t[j] = got + Len(s) + j - 1
  PROVE  s \o t = Stretch(got, put)
<1>1. Len(s) \in Nat /\ Len(t) \in Nat BY LenProperties
<1>2. /\ s \o t \in Seq(Nat) /\ Len(s \o t) = Len(s) + Len(t)
      /\ \A j \in 1 .. Len(s) + Len(t) :
           (s \o t)[j] = IF j <= Len(s) THEN s[j] ELSE t[j - Len(s)]
  BY ConcatProperties
<1>3. ASSUME NEW j \in 1 .. (put - got) PROVE (s \o t)[j] = got + j - 1
  <2>1. j \in 1 .. Len(s) + Len(t) BY <1>3
  <2>2. CASE j <= Len(s)
    <3>1. j \in 1 .. Len(s) BY <1>1, <2>2
    <3> QED BY <1>2, <2>1, <2>2, <3>1
  <2>3. CASE j > Len(s)
    <3>1. j - Len(s) \in 1 .. Len(t) BY <1>1, <2>1, <2>3
    <3>2. (s \o t)[j] = t[j - Len(s)] BY <1>1, <1>2, <2>1, <2>3
    <3>3. t[j - Len(s)] = got + Len(s) + (j - Len(s)) - 1 BY <3>1
    <3> QED BY <1>1, <3>2, <3>3
  <2> QED BY <1>1, <2>2, <2>3
<1>4. got <= put BY <1>1
<1> QED BY <1>2, <1>3, <1>4, IsStretch

\* The next k bytes of the stream, appended, extend it.
LEMMA StretchGrows ==
  ASSUME NEW got \in Nat, NEW put \in Nat, got <= put, NEW k \in Nat
  PROVE  Stretch(got, put + k) = Stretch(got, put) \o [j \in 1 .. k |-> put + j - 1]
<1> DEFINE tail == [j \in 1 .. k |-> put + j - 1]
           old == Stretch(got, put)
<1>1. old \in Seq(Nat) /\ Len(old) = put - got
      /\ \A j \in 1 .. (put - got) : old[j] = got + j - 1
  BY StretchFacts
<1>2. tail \in [1 .. k -> Nat] OBVIOUS
<1>3. tail \in Seq(Nat) /\ Len(tail) = k BY <1>2
<1>4. \A j \in 1 .. k : tail[j] = put + j - 1 OBVIOUS
<1> HIDE DEF tail, old
<1>5. put + k \in Nat /\ (put + k) - got = Len(old) + Len(tail) BY <1>1, <1>3
<1>6. \A j \in 1 .. Len(old) : old[j] = got + j - 1 BY <1>1
<1>7. \A j \in 1 .. Len(tail) : tail[j] = got + Len(old) + j - 1 BY <1>1, <1>3, <1>4
<1>8. old \o tail = Stretch(got, put + k) BY <1>1, <1>3, <1>5, <1>6, <1>7, Joined
<1> QED BY <1>8 DEF old, tail

\* Taking its first k bytes off moves its start by k.
LEMMA StretchShrinks ==
  ASSUME NEW got \in Nat, NEW put \in Nat, NEW k \in Nat, got + k <= put
  PROVE  /\ k <= Len(Stretch(got, put))
         /\ \A j \in 1 .. k : Stretch(got, put)[j] = got + j - 1
         /\ Stretch(got + k, put)
              = SubSeq(Stretch(got, put), k + 1, Len(Stretch(got, put)))
<1> DEFINE old == Stretch(got, put)
           rest == SubSeq(old, k + 1, Len(old))
<1>1. old \in Seq(Nat) /\ Len(old) = put - got
      /\ \A j \in 1 .. (put - got) : old[j] = got + j - 1
  BY StretchFacts
<1> HIDE DEF old
<1>2. \A i \in (k + 1) .. Len(old) : old[i] \in Nat BY <1>1
<1>3. k + 1 \in Int /\ Len(old) \in Int BY <1>1
<1>4. /\ rest \in Seq(Nat)
      /\ Len(rest) = IF k + 1 <= Len(old) THEN Len(old) - (k + 1) + 1 ELSE 0
      /\ \A i \in 1 .. (Len(old) - (k + 1) + 1) : rest[i] = old[(k + 1) + i - 1]
  BY <1>2, <1>3, SubSeqProperties
<1> HIDE DEF rest
<1>5. Len(rest) = put - (got + k) BY <1>1, <1>4
<1>6. ASSUME NEW j \in 1 .. (put - (got + k)) PROVE rest[j] = (got + k) + j - 1
  <2>1. j \in 1 .. (Len(old) - (k + 1) + 1) BY <1>1
  <2>2. rest[j] = old[(k + 1) + j - 1] BY <1>4, <2>1
  <2>3. (k + 1) + j - 1 \in 1 .. (put - got) BY <1>1
  <2> QED BY <1>1, <2>2, <2>3
<1>7. rest = Stretch(got + k, put) BY <1>4, <1>5, <1>6, IsStretch
<1>8. k <= Len(old) /\ \A j \in 1 .. k : old[j] = got + j - 1 BY <1>1
<1> QED BY <1>7, <1>8 DEF old, rest

\* k slots of a ring, from slot o on, hold the stream from position first on: read in
\* order they are a sequence of those bytes.
Holds(buf, o, k, first) == \A j \in 0 .. (k - 1) : buf[Slot(o, j)] = first + j

LEMMA RingStretch ==
  ASSUME NEW buf, NEW o, NEW k \in Nat, NEW first \in Nat, Holds(buf, o, k, first)
  PROVE  /\ RingBytes(buf, o, k) \in Seq(Nat) /\ Len(RingBytes(buf, o, k)) = k
         /\ \A j \in 1 .. k : RingBytes(buf, o, k)[j] = first + j - 1
<1> DEFINE ring == [j \in 1 .. k |-> buf[Slot(o, j - 1)]]
<1>1. ASSUME NEW j \in 1 .. k PROVE buf[Slot(o, j - 1)] = first + j - 1
  <2>1. j - 1 \in 0 .. (k - 1) BY <1>1
  <2>2. buf[Slot(o, j - 1)] = first + (j - 1) BY <2>1 DEF Holds
  <2> QED BY <2>2
<1>2. \A j \in 1 .. k : ring[j] = first + j - 1 BY <1>1
<1>3. \A j \in 1 .. k : buf[Slot(o, j - 1)] \in Nat
  <2> SUFFICES ASSUME NEW j \in 1 .. k PROVE buf[Slot(o, j - 1)] \in Nat OBVIOUS
  <2>1. buf[Slot(o, j - 1)] = first + j - 1 BY <1>1
  <2> QED BY <2>1
<1>4. ring \in [1 .. k -> Nat] BY <1>3
<1>5. ring \in Seq(Nat) /\ Len(ring) = k BY <1>4
<1> QED BY <1>2, <1>5 DEF RingBytes

TxOnWire == txFifo \o RingBytes(tx_buf, tx_out, Used(tx_in, tx_out) + Unpublished)
RxOnWire ==
  RingBytes(rx_buf, Slot(rx_out, Unreleased), Used(rx_in, rx_out) - Unreleased) \o rxFifo

\* Each wire is the stretch of its stream that entered and did not leave, and it never
\* exceeds one ring and one FIFO.
TxWireInv ==
  /\ TxOnWire = Stretch(txSeen, txAccepted)
  /\ txSeen <= txAccepted /\ txAccepted - txSeen <= TxDepth + BUF_LEN - 1
RxWireInv ==
  /\ RxOnWire = Stretch(rxTaken, rxSent)
  /\ rxTaken <= rxSent /\ rxSent - rxTaken <= RxDepth + BUF_LEN - 1

\* What write() accepted and the host has not seen is in the FIFO, then in the ring.
LEMMA TxWire == IInv => TxWireInv
<1> SUFFICES ASSUME IInv PROVE TxWireInv OBVIOUS
<1> DEFINE inRing == Used(tx_in, tx_out) + Unpublished
           ring == RingBytes(tx_buf, tx_out, inRing)
<1>1. Used(tx_in, tx_out) \in 0 .. (BUF_LEN - 1) BY UsedFacts DEF IInv, TypeOK, RingType
<1>2. inRing \in 0 .. (BUF_LEN - 1)
  <2>1. CASE pc = "w_publish"
    BY <1>1, <2>1, ConstantsAssumption DEF Unpublished, IInv, CallInv, TypeOK, CallType
  <2>2. CASE pc # "w_publish" BY <1>1, <2>2 DEF Unpublished
  <2> QED BY <2>1, <2>2
<1>3. txSeen \in Nat /\ txAccepted \in Nat /\ txFifo \in Seq(Nat) /\ Len(txFifo) <= TxDepth
  BY DEF IInv, TypeOK, StreamType, DeviceType
<1>4. Len(txFifo) \in Nat BY <1>3, LenProperties
<1>5. Unpublished \in Nat BY DEF Unpublished, IInv, TypeOK, CallType
<1>6. /\ txAccepted = txSeen + Len(txFifo) + Used(tx_in, tx_out) + Unpublished
      /\ \A k \in 1 .. Len(txFifo) : txFifo[k] = txSeen + k - 1
      /\ \A k \in 0 .. (inRing - 1) : tx_buf[Slot(tx_out, k)] = txSeen + Len(txFifo) + k
  <2> HIDE DEF inRing
  <2>1. TxStream BY DEF IInv
  <2>2. \A k \in 0 .. (inRing - 1) : tx_buf[Slot(tx_out, k)] = txSeen + Len(txFifo) + k
    <3> SUFFICES ASSUME NEW k \in 0 .. (inRing - 1)
                 PROVE  tx_buf[Slot(tx_out, k)] = txSeen + Len(txFifo) + k
      OBVIOUS
    <3>1. k \in 0 .. (Used(tx_in, tx_out) + Unpublished - 1) BY <1>1, <1>5 DEF inRing
    <3> QED BY <2>1, <3>1 DEF TxStream
  <2>3. \A k \in 1 .. Len(txFifo) : txFifo[k] = txSeen + k - 1 BY <2>1, Zenon DEF TxStream
  <2>4. txAccepted = txSeen + Len(txFifo) + Used(tx_in, tx_out) + Unpublished
    BY <2>1, Zenon DEF TxStream
  <2> QED BY <2>2, <2>3, <2>4
<1>7. txAccepted - txSeen = Len(txFifo) + inRing BY <1>1, <1>3, <1>4, <1>5, <1>6
<1> HIDE DEF inRing
<1>8. txSeen + Len(txFifo) \in Nat /\ inRing \in Nat BY <1>2, <1>3, <1>4
<1>9. /\ ring \in Seq(Nat) /\ Len(ring) = inRing
      /\ \A j \in 1 .. inRing : ring[j] = txSeen + Len(txFifo) + j - 1
  <2>1. Holds(tx_buf, tx_out, inRing, txSeen + Len(txFifo)) BY <1>6 DEF Holds
  <2> QED BY <1>8, <2>1, RingStretch
<1> HIDE DEF ring
<1>10. txFifo \o ring = Stretch(txSeen, txAccepted) BY <1>3, <1>6, <1>7, <1>9, Joined
<1>11. TxOnWire = Stretch(txSeen, txAccepted) BY <1>10 DEF TxOnWire, ring, inRing
<1>12. txSeen <= txAccepted /\ txAccepted - txSeen <= TxDepth + BUF_LEN - 1
  BY <1>2, <1>3, <1>4, <1>7, ConstantsAssumption
<1> QED BY <1>11, <1>12 DEF TxWireInv

\* What the host sent and read() has not delivered is in the ring, then in the FIFO.
LEMMA RxWire == IInv => RxWireInv
<1> SUFFICES ASSUME IInv PROVE RxWireInv OBVIOUS
<1> DEFINE used == Used(rx_in, rx_out)
           gone == Unreleased
           ring == RingBytes(rx_buf, Slot(rx_out, gone), used - gone)
<1>1. used \in 0 .. (BUF_LEN - 1) /\ rx_out \in Index
  BY UsedFacts DEF IInv, TypeOK, RingType
<1>2. gone \in 0 .. used
  <2>1. CASE pc = "r_release"
    BY <1>1, <2>1 DEF Unreleased, IInv, CallInv, TypeOK, CallType
  <2>2. CASE pc # "r_release" BY <1>1, <2>2 DEF Unreleased
  <2> QED BY <2>1, <2>2
<1>3. rxTaken \in Nat /\ rxSent \in Nat /\ rxFifo \in Seq(Nat) /\ Len(rxFifo) <= RxDepth
  BY DEF IInv, TypeOK, StreamType, DeviceType
<1>4. Len(rxFifo) \in Nat BY <1>3, LenProperties
<1>5. /\ rxSent = rxTaken - gone + used + Len(rxFifo)
      /\ \A k \in 0 .. (used - 1) : rx_buf[Slot(rx_out, k)] = rxTaken - gone + k
      /\ \A k \in 1 .. Len(rxFifo) : rxFifo[k] = rxTaken - gone + used + k - 1
  BY DEF IInv, RxStream
<1> HIDE DEF used, gone
<1>6. rxSent - rxTaken = (used - gone) + Len(rxFifo) BY <1>1, <1>2, <1>3, <1>4, <1>5
<1>7. ASSUME NEW k \in 0 .. (used - gone - 1)
      PROVE  rx_buf[Slot(Slot(rx_out, gone), k)] = rxTaken + k
  <2>1. gone + k \in 0 .. (used - 1) BY <1>1, <1>2
  <2>2. Slot(Slot(rx_out, gone), k) = Slot(rx_out, gone + k)
    BY <1>1, <1>2, ConstantsAssumption DEF Slot, Index
  <2>3. rx_buf[Slot(rx_out, gone + k)] = rxTaken - gone + (gone + k) BY <1>5, <2>1
  <2> QED BY <1>1, <1>2, <1>3, <2>2, <2>3
<1>8. used - gone \in Nat BY <1>1, <1>2
<1>9. /\ ring \in Seq(Nat) /\ Len(ring) = used - gone
      /\ \A j \in 1 .. (used - gone) : ring[j] = rxTaken + j - 1
  <2> DEFINE length == used - gone
             slot == Slot(rx_out, gone)
  <2>1. length \in Nat /\ rxTaken \in Nat /\ Holds(rx_buf, slot, length, rxTaken)
    BY <1>3, <1>7, <1>8 DEF Holds
  <2> HIDE DEF length, slot
  <2>2. /\ RingBytes(rx_buf, slot, length) \in Seq(Nat)
        /\ Len(RingBytes(rx_buf, slot, length)) = length
        /\ \A j \in 1 .. length : RingBytes(rx_buf, slot, length)[j] = rxTaken + j - 1
    BY <2>1, RingStretch
  <2> QED BY <2>2 DEF length, slot
<1> HIDE DEF ring
<1>10. \A k \in 1 .. Len(rxFifo) : rxFifo[k] = rxTaken + Len(ring) + k - 1
  BY <1>1, <1>2, <1>3, <1>4, <1>5, <1>9
<1>11. ring \o rxFifo = Stretch(rxTaken, rxSent)
  <2>1. rxSent - rxTaken = Len(ring) + Len(rxFifo)
        /\ \A j \in 1 .. Len(ring) : ring[j] = rxTaken + j - 1
    BY <1>6, <1>9
  <2> QED BY <1>3, <1>9, <1>10, <2>1, Joined
<1>12. RxOnWire = Stretch(rxTaken, rxSent) BY <1>11 DEF RxOnWire, ring, used, gone
<1>13. rxTaken <= rxSent /\ rxSent - rxTaken <= RxDepth + BUF_LEN - 1
  BY <1>1, <1>2, <1>3, <1>4, <1>6, ConstantsAssumption
<1> QED BY <1>12, <1>13 DEF RxWireInv

\* The same of the state after a step.
LEMMA TxWireNext == IInv' => TxWireInv'
BY TxWire, PTL

\* And of the other direction.
LEMMA RxWireNext == IInv' => RxWireInv'
BY RxWire, PTL

\* Bytes enter towards the host in write()'s copy, and leave one at a time.
LEMMA TxPipeStep ==
  ASSUME IInv, IInv', Next
  PROVE  TxPipe!Next \/ UNCHANGED <<txAccepted, txSeen, TxOnWire>>
<1> DEFINE cap == TxDepth + BUF_LEN - 1
<1>1. TxWireInv /\ TxWireInv' BY TxWire, TxWireNext
<1>2. /\ TxOnWire = Stretch(txSeen, txAccepted)
      /\ TxOnWire' = Stretch(txSeen', txAccepted')
      /\ txSeen <= txAccepted /\ txSeen' <= txAccepted'
      /\ txAccepted - txSeen <= cap /\ txAccepted' - txSeen' <= cap
  BY <1>1 DEF TxWireInv, Stretch
<1>3. txSeen \in Nat /\ txAccepted \in Nat /\ txSeen' \in Nat /\ txAccepted' \in Nat
  BY DEF IInv, TypeOK, StreamType
<1>4. cap \in Nat BY ConstantsAssumption
<1> HIDE DEF cap
<1>5. CASE WriteCopy
  <2>1. n \in Nat \ {0} /\ txAccepted' = txAccepted + n /\ txSeen' = txSeen
    BY <1>5 DEF WriteCopy, At, IInv, CallInv, TypeOK, CallType
  <2>2. /\ Len(TxOnWire) + n <= cap
        /\ TxOnWire' = TxOnWire \o [j \in 1 .. n |-> txAccepted + j - 1]
    <3>1. txSeen \in Nat /\ txAccepted \in Nat /\ txSeen <= txAccepted /\ n \in Nat
      BY <1>2, <1>3, <2>1
    <3>2. Stretch(txSeen, txAccepted + n)
            = Stretch(txSeen, txAccepted) \o [j \in 1 .. n |-> txAccepted + j - 1]
      BY <3>1, StretchGrows
    <3>3. Len(Stretch(txSeen, txAccepted)) = txAccepted - txSeen BY <3>1, StretchFacts
    <3>4. txAccepted + n - txSeen <= cap BY <1>2, <1>3, <1>4, <2>1
    <3>5. Len(TxOnWire) + n <= cap BY <1>2, <1>4, <3>1, <3>3, <3>4
    <3>6. TxOnWire' = Stretch(txSeen, txAccepted + n) BY <1>2, <2>1
    <3> QED BY <1>2, <3>2, <3>5, <3>6
  <2>3. n \in 1 .. cap BY <1>2, <1>3, <1>4, <2>1
  <2>4. TxPipe!Put(n) BY <2>1, <2>2 DEF TxPipe!Put, TxOnWire, cap
  <2> QED BY <2>3, <2>4 DEF TxPipe!Next, cap
<1>6. CASE HostReceive
  <2>1. txSeen' = txSeen + 1 /\ txAccepted' = txAccepted BY <1>6 DEF HostReceive
  <2>2. /\ 1 <= Len(TxOnWire) /\ \A j \in 1 .. 1 : TxOnWire[j] = txSeen + j - 1
        /\ TxOnWire' = SubSeq(TxOnWire, 1 + 1, Len(TxOnWire))
    <3>1. txSeen \in Nat /\ txAccepted \in Nat /\ 1 \in Nat BY <1>3, <2>1
    <3>2. txSeen + 1 <= txAccepted BY <1>2, <2>1
    <3>3. /\ 1 <= Len(Stretch(txSeen, txAccepted))
          /\ \A j \in 1 .. 1 : Stretch(txSeen, txAccepted)[j] = txSeen + j - 1
          /\ Stretch(txSeen + 1, txAccepted)
               = SubSeq(Stretch(txSeen, txAccepted), 1 + 1, Len(Stretch(txSeen, txAccepted)))
      BY <3>1, <3>2, StretchShrinks
    <3>4. TxOnWire' = Stretch(txSeen + 1, txAccepted) BY <1>2, <2>1
    <3> QED BY <1>2, <3>3, <3>4
  <2>3. 1 \in 1 .. cap BY <1>2, <1>3, <1>4, <2>1
  <2>4. TxPipe!Get(1) BY <2>1, <2>2 DEF TxPipe!Get, TxOnWire
  <2> QED BY <2>3, <2>4 DEF TxPipe!Next, cap
<1>7. CASE txAccepted' = txAccepted /\ txSeen' = txSeen
  BY <1>2, <1>7
<1>8. CASE ReadCopy BY <1>7, <1>8 DEF ReadCopy
<1>9. CASE HostSend BY <1>7, <1>9 DEF HostSend
<1> QED BY <1>5, <1>6, <1>7, <1>8, <1>9, StreamFrame DEF streams

\* Bytes enter from the host one at a time, and leave in read()'s copy.
LEMMA RxPipeStep ==
  ASSUME IInv, IInv', Next
  PROVE  RxPipe!Next \/ UNCHANGED <<rxSent, rxTaken, RxOnWire>>
<1> DEFINE cap == RxDepth + BUF_LEN - 1
<1>1. RxWireInv /\ RxWireInv' BY RxWire, RxWireNext
<1>2. /\ RxOnWire = Stretch(rxTaken, rxSent)
      /\ RxOnWire' = Stretch(rxTaken', rxSent')
      /\ rxTaken <= rxSent /\ rxTaken' <= rxSent'
      /\ rxSent - rxTaken <= cap /\ rxSent' - rxTaken' <= cap
  BY <1>1 DEF RxWireInv, Stretch
<1>3. rxTaken \in Nat /\ rxSent \in Nat /\ rxTaken' \in Nat /\ rxSent' \in Nat
  BY DEF IInv, TypeOK, StreamType
<1>4. cap \in Nat BY ConstantsAssumption
<1> HIDE DEF cap
<1>5. CASE HostSend
  <2>1. rxSent' = rxSent + 1 /\ rxTaken' = rxTaken BY <1>5 DEF HostSend
  <2>2. /\ Len(RxOnWire) + 1 <= cap
        /\ RxOnWire' = RxOnWire \o [j \in 1 .. 1 |-> rxSent + j - 1]
    <3>1. rxTaken \in Nat /\ rxSent \in Nat /\ rxTaken <= rxSent /\ 1 \in Nat
      BY <1>2, <1>3, <2>1
    <3>2. Stretch(rxTaken, rxSent + 1)
            = Stretch(rxTaken, rxSent) \o [j \in 1 .. 1 |-> rxSent + j - 1]
      BY <3>1, StretchGrows
    <3>3. Len(Stretch(rxTaken, rxSent)) = rxSent - rxTaken BY <3>1, StretchFacts
    <3>4. rxSent + 1 - rxTaken <= cap BY <1>2, <1>3, <1>4, <2>1
    <3>5. Len(RxOnWire) + 1 <= cap BY <1>2, <1>4, <3>1, <3>3, <3>4
    <3>6. RxOnWire' = Stretch(rxTaken, rxSent + 1) BY <1>2, <2>1
    <3> QED BY <1>2, <3>2, <3>5, <3>6
  <2>3. 1 \in 1 .. cap BY <1>2, <1>3, <1>4, <2>1
  <2>4. RxPipe!Put(1) BY <2>1, <2>2 DEF RxPipe!Put, RxOnWire, cap
  <2> QED BY <2>3, <2>4 DEF RxPipe!Next, cap
<1>6. CASE ReadCopy
  <2>1. n \in Nat \ {0} /\ rxTaken' = rxTaken + n /\ rxSent' = rxSent
    BY <1>6 DEF ReadCopy, At, IInv, CallInv, TypeOK, CallType
  <2>2. /\ n <= Len(RxOnWire) /\ \A j \in 1 .. n : RxOnWire[j] = rxTaken + j - 1
        /\ RxOnWire' = SubSeq(RxOnWire, n + 1, Len(RxOnWire))
    <3>1. rxTaken \in Nat /\ rxSent \in Nat /\ n \in Nat BY <1>3, <2>1
    <3>2. rxTaken + n <= rxSent BY <1>2, <2>1
    <3>3. /\ n <= Len(Stretch(rxTaken, rxSent))
          /\ \A j \in 1 .. n : Stretch(rxTaken, rxSent)[j] = rxTaken + j - 1
          /\ Stretch(rxTaken + n, rxSent)
               = SubSeq(Stretch(rxTaken, rxSent), n + 1, Len(Stretch(rxTaken, rxSent)))
      BY <3>1, <3>2, StretchShrinks
    <3>4. RxOnWire' = Stretch(rxTaken + n, rxSent) BY <1>2, <2>1
    <3> QED BY <1>2, <3>3, <3>4
  <2>3. n \in 1 .. cap BY <1>2, <1>3, <1>4, <2>1
  <2>4. RxPipe!Get(n) BY <2>1, <2>2 DEF RxPipe!Get, RxOnWire
  <2> QED BY <2>3, <2>4 DEF RxPipe!Next, cap
<1>7. CASE rxSent' = rxSent /\ rxTaken' = rxTaken
  BY <1>2, <1>7
<1>8. CASE WriteCopy BY <1>7, <1>8 DEF WriteCopy
<1>9. CASE HostReceive BY <1>7, <1>9 DEF HostReceive
<1> QED BY <1>5, <1>6, <1>7, <1>8, <1>9, StreamFrame DEF streams

\* Both pipes start empty.
LEMMA PipesInit == Init => TxPipe!Init /\ RxPipe!Init
<1> SUFFICES ASSUME Init PROVE TxPipe!Init /\ RxPipe!Init OBVIOUS
<1>1. IInv BY InitIInv
<1>2. /\ txAccepted = 0 /\ txSeen = 0 /\ rxSent = 0 /\ rxTaken = 0 BY DEF Init
<1>3. TxOnWire = Stretch(0, 0) /\ RxOnWire = Stretch(0, 0)
  BY <1>1, <1>2, TxWire, RxWire DEF TxWireInv, RxWireInv
<1>4. Stretch(0, 0) = <<>>
  <2>1. Stretch(0, 0) \in Seq(Nat) /\ Len(Stretch(0, 0)) = 0 BY StretchFacts
  <2> QED BY <2>1, EmptySeq
<1> QED BY <1>2, <1>3, <1>4 DEF TxPipe!Init, RxPipe!Init, TxOnWire, RxOnWire

\* From write() to the host and from the host to read(), the driver and the device
\* implement a bounded first-in first-out pipe, for every ring length and FIFO depth.
THEOREM PipesImplemented == Spec => ImplementsPipes
<1>1. IInv /\ IInv' /\ [Next]_vars
        => [TxPipe!Next]_(TxPipe!pipeVars) /\ [RxPipe!Next]_(RxPipe!pipeVars)
  <2> SUFFICES ASSUME IInv, IInv', [Next]_vars
               PROVE  [TxPipe!Next]_(TxPipe!pipeVars) /\ [RxPipe!Next]_(RxPipe!pipeVars)
    OBVIOUS
  <2>1. CASE Next
    BY <2>1, TxPipeStep, RxPipeStep
    DEF TxPipe!pipeVars, RxPipe!pipeVars, TxOnWire, RxOnWire
  <2>2. CASE UNCHANGED vars
    <3>1. UNCHANGED <<txAccepted, txSeen, rxSent, rxTaken>> BY <2>2 DEF vars, streams
    <3>2. TxWireInv /\ TxWireInv' /\ RxWireInv /\ RxWireInv'
      BY TxWire, TxWireNext, RxWire, RxWireNext
    <3>3. UNCHANGED <<TxOnWire, RxOnWire>>
      BY <3>1, <3>2 DEF TxWireInv, RxWireInv, Stretch
    <3> QED BY <3>1, <3>3 DEF TxPipe!pipeVars, RxPipe!pipeVars, TxOnWire, RxOnWire
  <2> QED BY <2>1, <2>2
<1> QED
  BY <1>1, PipesInit, Invariance, PTL
  DEF Spec, ImplementsPipes, TxImplementsPipe, RxImplementsPipe, TxPipe!Spec, RxPipe!Spec
=============================================================================
