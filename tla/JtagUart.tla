------------------------------ MODULE JtagUart ------------------------------
(***************************************************************************)
(* The interrupt-driven ("fast") Altera Avalon JTAG UART driver of the     *)
(* HAL: the application's read(), write(), close() and ioctl() calls, the  *)
(* interrupt service routine, and the once-a-second host presence alarm,   *)
(* around two circular buffers shared without locks.                       *)
(*                                                                         *)
(* Four parties act here.                                                  *)
(*   - The application (pc): single threaded, one driver call at a time,   *)
(*     interruptible between any two accesses to the shared structure.     *)
(*   - The interrupt routine (ipc): runs to completion with respect to the *)
(*     application (the CPU takes no nested interrupt), but the device and *)
(*     the host move between its register accesses.                        *)
(*   - The alarm callback: runs in the timer interrupt, so never inside    *)
(*     the UART's interrupt routine nor in a critical section.             *)
(*   - The device's two FIFOs and the host at the other end of the cable.  *)
(*                                                                         *)
(* A byte is its position in the stream it belongs to: the application     *)
(* writes the bytes 0, 1, 2, ... and the host sends the bytes 0, 1, 2, ... *)
(* so that a lost, repeated, reordered or overwritten byte is visible.     *)
(*                                                                         *)
(* A definition named Mut... is the one after it with a plausible bug put  *)
(* in; the model does not use it, and each property fails with one of them.*)
(***************************************************************************)
EXTENDS Integers, Sequences

CONSTANTS
  BUF_LEN,          \* ALTERA_AVALON_JTAG_UART_BUF_LEN, slots of a software ring
  TxDepth,          \* depth of the device's write FIFO
  RxDepth,          \* depth of the device's read FIFO
  TxThreshold,      \* the write interrupt pends at this fill level or below
  INT_MAX,          \* the largest int, scaled down
  DefaultTimeout,   \* ALTERA_AVALON_JTAG_UART_DEFAULT_TIMEOUT
  Unplugging,       \* whether the cable may be moved while the system runs
  TimeoutArgs,      \* arguments of ioctl(TIOCSTIMEOUT)
  CallSizes,        \* bound: the byte counts read() and write() are called with
  MaxBytes          \* bound: bytes written and sent, when a write or a send begins

(***************************************************************************)
(* What the constants must satisfy: a ring has at least two slots (one is  *)
(* kept free), the FIFOs hold something, the write interrupt only pends    *)
(* with room in the FIFO, and the default timeout is neither of the two    *)
(* values near INT_MAX that mean "never".                                  *)
(***************************************************************************)
ASSUME ConstantsAssumption ==
  /\ BUF_LEN \in Nat /\ BUF_LEN >= 2
  /\ TxDepth \in Nat \ {0} /\ RxDepth \in Nat \ {0}
  /\ TxThreshold \in 0 .. (TxDepth - 1)
  /\ INT_MAX \in Nat /\ INT_MAX >= 4
  /\ DefaultTimeout \in 1 .. (INT_MAX - 2)
  /\ Unplugging \in BOOLEAN /\ TimeoutArgs \subseteq Int
  /\ CallSizes \subseteq Nat /\ MaxBytes \in Nat

VARIABLES
  \* struct altera_avalon_jtag_uart_state_s
  timeout, irq_enable, host_inactive, rx_in, rx_out, tx_in, tx_out, rx_buf, tx_buf,
  \* the device and the host
  rxFifo, txFifo, ac, connected,
  \* the interrupt routine: where it is, the control bits it read, its locals
  ipc, wi, space, ravail,
  \* the application: where it is in which call, that call's locals, its result
  pc, in, out, n, count, done, nonblock, ret,
  \* ubuf: what the running read() has delivered
  ubuf,
  \* stream positions: bytes accepted by write(), seen by the host, sent by the
  \* host, delivered by read()
  txAccepted, txSeen, rxSent, rxTaken

control == <<timeout, irq_enable, host_inactive>>
txRing == <<tx_in, tx_out, tx_buf>>
rxRing == <<rx_in, rx_out, rx_buf>>
driver == <<control, txRing, rxRing>>
device == <<rxFifo, txFifo, ac, connected>>
isr == <<ipc, wi, space, ravail>>
call == <<pc, in, out, n, count, done, nonblock, ret, ubuf>>
streams == <<txAccepted, txSeen, rxSent, rxTaken>>
vars == <<driver, device, isr, call, streams>>

Index == 0 .. (BUF_LEN - 1)
EIO == 5
EWOULDBLOCK == 11
ENOTTY == 25

-----------------------------------------------------------------------------
(* Ring arithmetic, as the code writes it. *)

\* Index i moved on by k slots.
Advance(i, k) == (i + k) % BUF_LEN

\* The receive ring is full: one more byte would make rx_in meet rx_out.
MutRxFull(i, o) == FALSE
RxFull(i, o) == Advance(i, 1) = o

\* Contiguous free slots from tx_in on.
MutTxRoom(i, o) == IF i < o THEN o - 1 - i ELSE BUF_LEN - i
TxRoom(i, o) ==
  IF i < o THEN o - 1 - i ELSE IF o > 0 THEN BUF_LEN - i ELSE BUF_LEN - 1 - i

\* Contiguous bytes to read from rx_out on.
RxReady(i, o) == IF i >= o THEN i - o ELSE BUF_LEN - o

AtMost(a, b) == IF a > b THEN b ELSE a

\* rc of a call that moved k bytes, or none.
Result(k, nb) == IF k # 0 THEN k ELSE IF nb THEN -EWOULDBLOCK ELSE -EIO

-----------------------------------------------------------------------------
(* The device: what a read of its control register shows. The interrupt    *)
(* bits are masked by their enables.                                       *)
RI == "RE" \in irq_enable /\ rxFifo # <<>>
WI == "WE" \in irq_enable /\ Len(txFifo) <= TxThreshold
WSPACE == TxDepth - Len(txFifo)

(***************************************************************************)
(* altera_avalon_jtag_uart_init leaves the receive interrupt enabled and   *)
(* the rings empty. When the alarm cannot be started (no tick rate yet) it *)
(* records timeout = INT_MAX; both outcomes are initial states.            *)
(***************************************************************************)
Init ==
  /\ timeout \in {DefaultTimeout, INT_MAX}
  /\ irq_enable = {"RE"}
  /\ host_inactive = 0
  /\ rx_in = 0 /\ rx_out = 0 /\ tx_in = 0 /\ tx_out = 0
  /\ rx_buf = [i \in Index |-> 0] /\ tx_buf = [i \in Index |-> 0]
  /\ rxFifo = <<>> /\ txFifo = <<>> /\ ac = FALSE /\ connected \in BOOLEAN
  /\ ipc = "off" /\ wi = FALSE /\ space = 0 /\ ravail = FALSE
  /\ pc = "idle" /\ in = 0 /\ out = 0 /\ n = 0 /\ count = 0 /\ done = 0
  /\ nonblock = FALSE /\ ret = 0 /\ ubuf = <<>>
  /\ txAccepted = 0 /\ txSeen = 0 /\ rxSent = 0 /\ rxTaken = 0

\* The application runs only while no interrupt routine does.
At(label) == ipc = "off" /\ pc = label

locals == <<in, out, n, count, done, nonblock, ubuf>>

\* The call ends with r; its locals are gone.
Return(r) ==
  /\ pc' = "idle" /\ ret' = r
  /\ in' = 0 /\ out' = 0 /\ n' = 0 /\ count' = 0 /\ done' = 0 /\ nonblock' = FALSE
  /\ ubuf' = <<>>

\* The call goes on at label.
Goto(label) == pc' = label /\ UNCHANGED ret

-----------------------------------------------------------------------------
(* write() *)

WriteCall(c, nb) ==
  /\ At("idle") /\ txAccepted + c + rxSent <= MaxBytes
  /\ pc' = "w_fill" /\ count' = c /\ nonblock' = nb /\ ret' = 0
  /\ UNCHANGED <<driver, device, isr, in, out, n, done, ubuf, streams>>

\* Snapshot both indices and size the next chunk; nothing left or no room ends
\* the copying.
WriteFill ==
  /\ At("w_fill")
  /\ IF count = 0 THEN pc' = "w_kick" /\ UNCHANGED <<in, out, n>>
     ELSE /\ in' = tx_in /\ out' = tx_out
          /\ n' = AtMost(TxRoom(tx_in, tx_out), count)
          /\ pc' = IF TxRoom(tx_in, tx_out) = 0 THEN "w_kick" ELSE "w_copy"
  /\ UNCHANGED <<driver, device, isr, count, done, nonblock, ret, ubuf, streams>>

\* memcpy(sp->tx_buf + in, ptr, n); ptr += n; count -= n.
WriteCopy ==
  /\ At("w_copy")
  /\ tx_buf' = [i \in Index |->
       IF i \in in .. (in + n - 1) THEN txAccepted + (i - in) ELSE tx_buf[i]]
  /\ txAccepted' = txAccepted + n /\ count' = count - n /\ done' = done + n
  /\ pc' = "w_publish"
  /\ UNCHANGED <<control, tx_in, tx_out, rxRing, device, isr, in, out, n, nonblock,
                 ret, ubuf, txSeen, rxSent, rxTaken>>

\* sp->tx_in = (in + n) % BUF_LEN.
WritePublish ==
  /\ At("w_publish")
  /\ tx_in' = Advance(in, n) /\ pc' = "w_fill"
  /\ UNCHANGED <<control, tx_out, tx_buf, rxRing, device, isr, in, out, n, count,
                 done, nonblock, ret, ubuf, streams>>

\* With interrupts disabled, turn the transmit interrupt on. A full ring is then
\* waited for, unless the file is non-blocking.
WriteKick ==
  /\ At("w_kick")
  /\ irq_enable' = irq_enable \cup {"WE"}
  /\ IF count > 0 /\ ~nonblock
     THEN Goto("w_spin") /\ UNCHANGED locals
     ELSE Return(Result(done, nonblock))
  /\ UNCHANGED <<timeout, host_inactive, txRing, rxRing, device, isr, streams>>

\* while (out == sp->tx_out && sp->host_inactive < sp->timeout) ;
MutWriteSpin ==
  /\ At("w_spin")
  /\ out # tx_out
  /\ pc' = "w_check"
  /\ UNCHANGED <<driver, device, isr, in, out, n, count, done, nonblock, ret, ubuf,
                 streams>>
WriteSpin ==
  /\ At("w_spin")
  /\ out # tx_out \/ host_inactive >= timeout
  /\ pc' = "w_check"
  /\ UNCHANGED <<driver, device, isr, in, out, n, count, done, nonblock, ret, ubuf,
                 streams>>

\* if (sp->host_inactive) break; -- any missed second ends the call.
WriteCheck ==
  /\ At("w_check")
  /\ IF host_inactive > 0
     THEN Return(Result(done, nonblock))
     ELSE Goto("w_fill") /\ UNCHANGED locals
  /\ UNCHANGED <<driver, device, isr, streams>>

-----------------------------------------------------------------------------
(* read() *)

\* A call for no bytes skips the loop and fails.
ReadCall(c, nb) ==
  /\ At("idle")
  /\ IF c = 0 THEN Return(Result(0, nb))
     ELSE /\ pc' = "r_fetch" /\ count' = c /\ nonblock' = nb /\ ret' = 0
          /\ UNCHANGED <<in, out, n, done, ubuf>>
  /\ UNCHANGED <<driver, device, isr, streams>>

\* Snapshot both indices; n = 0 means the ring has no more.
ReadFetch ==
  /\ At("r_fetch")
  /\ IF RxReady(rx_in, rx_out) = 0 /\ done = 0 /\ nonblock
     THEN Return(Result(0, TRUE))
     ELSE /\ Goto(IF RxReady(rx_in, rx_out) > 0 THEN "r_copy"
                  ELSE IF done > 0 THEN "r_enable" ELSE "r_spin")
          /\ in' = rx_in /\ out' = rx_out
          /\ n' = AtMost(RxReady(rx_in, rx_out), count)
          /\ UNCHANGED <<count, done, nonblock, ubuf>>
  /\ UNCHANGED <<driver, device, isr, streams>>

\* memcpy(ptr, sp->rx_buf + out, n); ptr += n; space -= n.
ReadCopy ==
  /\ At("r_copy")
  /\ ubuf' = ubuf \o [i \in 1 .. n |-> rx_buf[out + i - 1]]
  /\ rxTaken' = rxTaken + n /\ count' = count - n /\ done' = done + n
  /\ pc' = "r_release"
  /\ UNCHANGED <<driver, device, isr, in, out, n, nonblock, ret, txAccepted, txSeen,
                 rxSent>>

\* sp->rx_out = (out + n) % BUF_LEN; do ... while (space > 0).
ReadRelease ==
  /\ At("r_release")
  /\ rx_out' = Advance(out, n)
  /\ pc' = IF count > 0 THEN "r_fetch" ELSE "r_enable"
  /\ UNCHANGED <<control, txRing, rx_in, rx_buf, device, isr, in, out, n, count, done,
                 nonblock, ret, ubuf, streams>>

\* while (in == sp->rx_in && sp->host_inactive < sp->timeout) ;
ReadSpin ==
  /\ At("r_spin")
  /\ in # rx_in \/ host_inactive >= timeout
  /\ pc' = "r_check"
  /\ UNCHANGED <<driver, device, isr, in, out, n, count, done, nonblock, ret, ubuf,
                 streams>>

\* if (in == sp->rx_in) break; -- otherwise round the outer loop again.
ReadCheck ==
  /\ At("r_check")
  /\ IF in = rx_in THEN Return(Result(done, nonblock))
     ELSE Goto("r_fetch") /\ UNCHANGED locals
  /\ UNCHANGED <<driver, device, isr, streams>>

\* Bytes were taken, so there is room: with interrupts disabled, turn the receive
\* interrupt back on.
MutReadEnable ==
  /\ At("r_enable")
  /\ irq_enable' = IF count > 0 THEN irq_enable ELSE irq_enable \cup {"RE"}
  /\ Return(Result(done, nonblock))
  /\ UNCHANGED <<timeout, host_inactive, txRing, rxRing, device, isr, streams>>
ReadEnable ==
  /\ At("r_enable")
  /\ irq_enable' = irq_enable \cup {"RE"}
  /\ Return(Result(done, nonblock))
  /\ UNCHANGED <<timeout, host_inactive, txRing, rxRing, device, isr, streams>>

-----------------------------------------------------------------------------
(* close() and ioctl() *)

CloseCall(nb) ==
  /\ At("idle")
  /\ pc' = "c_drain" /\ nonblock' = nb /\ ret' = 0
  /\ UNCHANGED <<driver, device, isr, in, out, n, count, done, ubuf, streams>>

\* while (tx_out != tx_in && host_inactive < timeout) if (O_NONBLOCK) return
CloseDrain ==
  /\ At("c_drain")
  /\ LET busy == tx_out # tx_in /\ host_inactive < timeout
     IN  /\ nonblock \/ ~busy
         /\ Return(IF busy THEN -EWOULDBLOCK ELSE 0)
  /\ UNCHANGED <<driver, device, isr, streams>>

\* TIOCSTIMEOUT: an unreasonable value means "never"; no alarm, no timeout.
IoctlTimeout(t) ==
  /\ At("idle")
  /\ IF timeout # INT_MAX
     THEN /\ timeout' = IF t >= 2 /\ t < INT_MAX THEN t ELSE INT_MAX - 1
          /\ ret' = 0
     ELSE ret' = -ENOTTY /\ UNCHANGED timeout
  /\ UNCHANGED <<irq_enable, host_inactive, txRing, rxRing, device, isr, pc, locals,
                 streams>>

\* TIOCGCONNECTED: when it succeeds, ret is the answer it stores for the caller.
IoctlConnected ==
  /\ At("idle")
  /\ ret' = IF timeout = INT_MAX THEN -ENOTTY
            ELSE IF host_inactive < timeout THEN 1 ELSE 0
  /\ UNCHANGED <<driver, device, isr, pc, locals, streams>>

-----------------------------------------------------------------------------
(* altera_avalon_jtag_uart_irq *)

\* The CPU takes the interrupt.
IrqEnter ==
  /\ ipc = "off" /\ (RI \/ WI)
  /\ ipc' = "control"
  /\ UNCHANGED <<driver, device, wi, space, ravail, call, streams>>

\* Read the control register; return once it shows neither interrupt.
IrqControl ==
  /\ ipc = "control"
  /\ IF RI \/ WI
     THEN /\ ipc' = (IF RI THEN "rx" ELSE "tx")
          /\ wi' = WI /\ space' = WSPACE /\ ravail' = RI
     ELSE ipc' = "off" /\ wi' = FALSE /\ space' = 0 /\ ravail' = FALSE
  /\ UNCHANGED <<driver, device, call, streams>>

\* One round of the receive loop: a full ring or an empty FIFO ends it.
IrqReceive ==
  /\ ipc = "rx"
  /\ IF RxFull(rx_in, rx_out)
     THEN ipc' = "rx_end" /\ UNCHANGED <<rx_buf, rx_in, rxFifo, ravail>>
     ELSE IF rxFifo = <<>>
     THEN ipc' = "rx_end" /\ ravail' = FALSE /\ UNCHANGED <<rx_buf, rx_in, rxFifo>>
     ELSE /\ rx_buf' = [rx_buf EXCEPT ![rx_in] = Head(rxFifo)]
          /\ rx_in' = Advance(rx_in, 1)
          /\ rxFifo' = Tail(rxFifo) /\ ravail' = (Tail(rxFifo) # <<>>)
          /\ UNCHANGED ipc
  /\ UNCHANGED <<control, txRing, rx_out, txFifo, ac, connected, wi, space, call,
                 streams>>

\* Bytes remain in the FIFO, so the ring is full: stop receive interrupts.
IrqReceiveEnd ==
  /\ ipc = "rx_end"
  /\ irq_enable' = IF ravail THEN irq_enable \ {"RE"} ELSE irq_enable
  /\ ipc' = (IF wi THEN "tx" ELSE "control") /\ ravail' = FALSE
  /\ UNCHANGED <<timeout, host_inactive, txRing, rxRing, device, wi, space, call,
                 streams>>

MutIrqTransmit ==
  /\ ipc = "tx" /\ tx_out # tx_in
  /\ txFifo' = IF Len(txFifo) < TxDepth THEN Append(txFifo, tx_buf[tx_out]) ELSE txFifo
  /\ tx_out' = Advance(tx_out, 1) /\ space' = IF space > 0 THEN space - 1 ELSE 0
  /\ UNCHANGED <<control, tx_in, tx_buf, rxRing, rxFifo, ac, connected, ipc, wi,
                 ravail, call, streams>>
\* One round of the transmit loop. The device drops a byte written to a full FIFO.
IrqTransmit ==
  /\ ipc = "tx" /\ space > 0 /\ tx_out # tx_in
  /\ txFifo' = IF Len(txFifo) < TxDepth THEN Append(txFifo, tx_buf[tx_out]) ELSE txFifo
  /\ tx_out' = Advance(tx_out, 1) /\ space' = space - 1
  /\ UNCHANGED <<control, tx_in, tx_buf, rxRing, rxFifo, ac, connected, ipc, wi,
                 ravail, call, streams>>

\* FIFO room left over means nothing is left to send: stop transmit interrupts.
MutIrqTransmitEnd ==
  /\ ipc = "tx" /\ (space = 0 \/ tx_out = tx_in)
  /\ irq_enable' = irq_enable \ {"WE"}
  /\ ipc' = "control" /\ wi' = FALSE /\ space' = 0
  /\ UNCHANGED <<timeout, host_inactive, txRing, rxRing, device, ravail, call, streams>>
IrqTransmitEnd ==
  /\ ipc = "tx" /\ (space = 0 \/ tx_out = tx_in)
  /\ irq_enable' = IF space > 0 THEN irq_enable \ {"WE"} ELSE irq_enable
  /\ ipc' = "control" /\ wi' = FALSE /\ space' = 0
  /\ UNCHANGED <<timeout, host_inactive, txRing, rxRing, device, ravail, call, streams>>

-----------------------------------------------------------------------------
(* altera_avalon_jtag_uart_timeout, once a second while its alarm runs *)

\* The count of silent seconds saturates.
MutOneMoreSecond(h) == IF h < INT_MAX - 1 THEN h + 1 ELSE h
OneMoreSecond(h) == IF h < INT_MAX - 2 THEN h + 1 ELSE h

AlarmTimeout ==
  /\ ipc = "off" /\ timeout # INT_MAX
  /\ IF ac THEN ac' = FALSE /\ host_inactive' = 0
     ELSE host_inactive' = OneMoreSecond(host_inactive) /\ UNCHANGED ac
  /\ UNCHANGED <<timeout, irq_enable, txRing, rxRing, rxFifo, txFifo, connected, isr,
                 call, streams>>

-----------------------------------------------------------------------------
(* The host: it moves bytes only while the cable is connected, and all it  *)
(* does sets the device's activity bit.                                    *)

HostReceive ==
  /\ connected /\ txFifo # <<>>
  /\ txFifo' = Tail(txFifo) /\ txSeen' = txSeen + 1 /\ ac' = TRUE
  /\ UNCHANGED <<driver, rxFifo, connected, isr, call, txAccepted, rxSent, rxTaken>>

HostSend ==
  /\ connected /\ Len(rxFifo) < RxDepth /\ txAccepted + rxSent < MaxBytes
  /\ rxFifo' = Append(rxFifo, rxSent) /\ rxSent' = rxSent + 1 /\ ac' = TRUE
  /\ UNCHANGED <<driver, txFifo, connected, isr, call, txAccepted, txSeen, rxTaken>>

HostPoll ==
  /\ connected /\ ~ac /\ ac' = TRUE
  /\ UNCHANGED <<driver, rxFifo, txFifo, connected, isr, call, streams>>

HostPlug ==
  /\ Unplugging /\ connected' = ~connected
  /\ UNCHANGED <<driver, rxFifo, txFifo, ac, isr, call, streams>>

-----------------------------------------------------------------------------
Write == WriteFill \/ WriteCopy \/ WritePublish \/ WriteKick \/ WriteSpin \/ WriteCheck
Read == ReadFetch \/ ReadCopy \/ ReadRelease \/ ReadSpin \/ ReadCheck \/ ReadEnable
Irq == IrqEnter \/ IrqControl \/ IrqReceive \/ IrqReceiveEnd \/ IrqTransmit
       \/ IrqTransmitEnd
Host == HostReceive \/ HostSend \/ HostPoll \/ HostPlug

\* A call the application may begin.
Call ==
  \/ \E c \in CallSizes, nb \in BOOLEAN : WriteCall(c, nb) \/ ReadCall(c, nb)
  \/ \E nb \in BOOLEAN : CloseCall(nb)
  \/ \E t \in TimeoutArgs : IoctlTimeout(t)
  \/ IoctlConnected

Next == Call \/ Write \/ Read \/ CloseDrain \/ Irq \/ AlarmTimeout \/ Host

Spec == Init /\ [][Next]_vars

\* The CPU keeps running the call and the interrupt routine; the alarm fires once a
\* second, an age compared with a round of a spin loop, so a loop sees every value
\* host_inactive takes (hence SF); an attached host reads what it is sent.
Fairness ==
  /\ SF_vars(Write \/ Read \/ CloseDrain)
  /\ WF_vars(Irq) /\ WF_vars(AlarmTimeout)
  /\ SF_vars(HostReceive)
FairSpec == Spec /\ Fairness

-----------------------------------------------------------------------------
(* Type invariant *)

Labels == {"idle", "w_fill", "w_copy", "w_publish", "w_kick", "w_spin", "w_check",
           "r_fetch", "r_copy", "r_release", "r_enable", "r_spin", "r_check", "c_drain"}
IrqLabels == {"off", "control", "rx", "rx_end", "tx"}
Returned == {-EIO, -EWOULDBLOCK, -ENOTTY} \cup Nat

ControlType ==
  /\ timeout \in 1 .. INT_MAX /\ host_inactive \in 0 .. (INT_MAX - 2)
  /\ irq_enable \subseteq {"RE", "WE"}
RingType ==
  /\ rx_in \in Index /\ rx_out \in Index /\ tx_in \in Index /\ tx_out \in Index
  /\ rx_buf \in [Index -> Nat] /\ tx_buf \in [Index -> Nat]
DeviceType ==
  /\ rxFifo \in Seq(Nat) /\ Len(rxFifo) <= RxDepth
  /\ txFifo \in Seq(Nat) /\ Len(txFifo) <= TxDepth
  /\ ac \in BOOLEAN /\ connected \in BOOLEAN
IrqType ==
  /\ ipc \in IrqLabels /\ wi \in BOOLEAN /\ ravail \in BOOLEAN /\ space \in 0 .. TxDepth
CallType ==
  /\ pc \in Labels /\ in \in Index /\ out \in Index /\ n \in Nat
  /\ count \in Nat /\ done \in Nat /\ nonblock \in BOOLEAN /\ ret \in Returned
  /\ ubuf \in Seq(Nat)
StreamType == txAccepted \in Nat /\ txSeen \in Nat /\ rxSent \in Nat /\ rxTaken \in Nat

\* Every variable of the driver, the device and the running call has its type; in
\* particular the FIFOs never exceed their depth and host_inactive saturates.
TypeOK ==
  ControlType /\ RingType /\ DeviceType /\ IrqType /\ CallType /\ StreamType

-----------------------------------------------------------------------------
(* The two byte streams *)

\* Bytes in a ring, and the slot of its k-th byte.
Used(i, o) == IF i >= o THEN i - o ELSE i + BUF_LEN - o
Slot(o, k) == IF o + k < BUF_LEN THEN o + k ELSE o + k - BUF_LEN

\* Copied into the ring by write() and not yet published in tx_in; copied out of the
\* ring by read() and not yet released in rx_out.
Unpublished == IF pc = "w_publish" THEN n ELSE 0
Unreleased == IF pc = "r_release" THEN n ELSE 0

\* The bytes write() accepted are, in order and each exactly once, those the host
\* has seen, those in the device's FIFO and those in the transmit ring: no
\* interleaving of write() with the interrupt routine loses, repeats or reorders one.
TxStream ==
  /\ txAccepted = txSeen + Len(txFifo) + Used(tx_in, tx_out) + Unpublished
  /\ \A k \in 1 .. Len(txFifo) : txFifo[k] = txSeen + k - 1
  /\ \A k \in 0 .. (Used(tx_in, tx_out) + Unpublished - 1) :
       tx_buf[Slot(tx_out, k)] = txSeen + Len(txFifo) + k

\* The bytes the host sent are, in order and each exactly once, those read()
\* delivered, those in the receive ring and those in the device's FIFO; and what the
\* running read() put in the caller's buffer is the last it delivered.
RxStream ==
  LET first == rxTaken - Unreleased
      used == Used(rx_in, rx_out)
  IN  /\ rxSent = first + used + Len(rxFifo)
      /\ \A k \in 0 .. (used - 1) : rx_buf[Slot(rx_out, k)] = first + k
      /\ \A k \in 1 .. Len(rxFifo) : rxFifo[k] = first + used + k - 1
      /\ \A k \in 1 .. Len(ubuf) : ubuf[k] = rxTaken - Len(ubuf) + k - 1

\* No lost transmit wakeup: while bytes are published in the transmit ring, the
\* transmit interrupt is on, or a write() on its way to turning it on is running.
TxWakeup ==
  "WE" \notin irq_enable /\ tx_in # tx_out
    => pc \in {"w_fill", "w_copy", "w_publish", "w_kick"}

\* No lost receive wakeup: the receive interrupt is off only while the ring is full,
\* or while a read() that has taken bytes out is on its way to turning it on.
RxWakeup ==
  "RE" \notin irq_enable
    => \/ RxFull(rx_in, rx_out)
       \/ pc \in {"r_fetch", "r_copy", "r_release", "r_enable"} /\ done > 0

\* Neither interrupt is left off when the other side waits for it.
NoLostWakeup == TxWakeup /\ RxWakeup

\* The two values that stand for "no timeout" really do: INT_MAX (no alarm) and
\* INT_MAX - 1 (an unreasonable TIOCSTIMEOUT) stay above every inactivity count.
NeverTimesOut == timeout >= INT_MAX - 1 => host_inactive < timeout

-----------------------------------------------------------------------------
(* Each direction is a bounded byte pipe *)

RingBytes(buf, o, k) == [j \in 1 .. k |-> buf[Slot(o, j - 1)]]

TxPipe == INSTANCE BytePipe WITH
  Cap <- TxDepth + BUF_LEN - 1, put <- txAccepted, got <- txSeen,
  wire <- txFifo \o RingBytes(tx_buf, tx_out, Used(tx_in, tx_out) + Unpublished)

RxPipe == INSTANCE BytePipe WITH
  Cap <- RxDepth + BUF_LEN - 1, put <- rxSent, got <- rxTaken,
  wire <- RingBytes(rx_buf, Slot(rx_out, Unreleased), Used(rx_in, rx_out) - Unreleased)
          \o rxFifo

\* From write() to the host, and from the host to read(), the driver and the device
\* implement a first-in first-out pipe of one ring's and one FIFO's capacity.
TxImplementsPipe == TxPipe!Spec
RxImplementsPipe == RxPipe!Spec
ImplementsPipes == TxImplementsPipe /\ RxImplementsPipe

-----------------------------------------------------------------------------
(* Liveness *)

Draining == pc \in {"w_fill", "w_copy", "w_publish", "w_kick", "w_spin", "w_check",
                    "c_drain"}

\* With the alarm running and a timeout set, write() and close() return whatever
\* the host does: unplugged, silent, or coming and going.
TimeoutFreesCaller == [](timeout < INT_MAX - 1) => (Draining ~> ~Draining)

\* With a host that stays, they return even when no timeout ever frees them.
HostFreesCaller == <>[]connected => (Draining ~> ~Draining)

\* Either way no caller of write() or close() is kept for ever.
CallersAreFreed == TimeoutFreesCaller /\ HostFreesCaller

\* Every byte write() accepted reaches a host that stays, with no further call.
AcceptedIsSent ==
  <>[]connected => \A k \in 1 .. MaxBytes : (txAccepted >= k) ~> (txSeen >= k)

\* A read() spinning for data returns once the host has sent some.
ReadGetsData == (pc = "r_spin" /\ rxFifo # <<>>) ~> pc = "idle"

\* What either end has sent arrives at the other.
BytesArrive == AcceptedIsSent /\ ReadGetsData
=============================================================================
