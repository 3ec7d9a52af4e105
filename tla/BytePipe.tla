------------------------------ MODULE BytePipe ------------------------------
(***************************************************************************)
(* What either direction of the JTAG UART promises: a bounded first-in     *)
(* first-out pipe of bytes. A byte is its position in the stream; put and  *)
(* got count the bytes that entered and left, and wire holds those inside. *)
(***************************************************************************)
EXTENDS Integers, Sequences

CONSTANT Cap    \* most bytes the pipe holds

VARIABLES put, got, wire

pipeVars == <<put, got, wire>>

Init == put = 0 /\ got = 0 /\ wire = <<>>

\* The next k bytes of the stream enter at the back.
Put(k) ==
  /\ Len(wire) + k <= Cap
  /\ wire' = wire \o [j \in 1 .. k |-> put + j - 1]
  /\ put' = put + k /\ UNCHANGED got

\* k bytes leave at the front, and they are the next k of the stream.
Get(k) ==
  /\ k <= Len(wire) /\ \A j \in 1 .. k : wire[j] = got + j - 1
  /\ wire' = SubSeq(wire, k + 1, Len(wire))
  /\ got' = got + k /\ UNCHANGED put

Next == \E k \in 1 .. Cap : Put(k) \/ Get(k)

Spec == Init /\ [][Next]_pipeVars
=============================================================================
