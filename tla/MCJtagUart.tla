----------------------------- MODULE MCJtagUart -----------------------------
(* Values for the constants of JtagUart that a configuration cannot write. *)
EXTENDS JtagUart

\* An argument of TIOCSTIMEOUT that stands for no timeout, and one that is taken as it is.
MCTimeoutArgs == {1, 2}
=============================================================================
