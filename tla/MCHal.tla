------------------------------- MODULE MCHal --------------------------------
(***************************************************************************)
(* Small values for the constants of the services.                         *)
(***************************************************************************)
EXTENDS Hal, MCFdTable, MCFeatures

\* Sections that are empty or not, but .data and .bss.
MCLayouts == [tdata : {0, 1}, tbss : {0, 2}, data : {1}, bss : {1, 2}, part : {0, 1}]

\* Times to set, in seconds of four microseconds.
MCTimes == {[tv_sec |-> 0, tv_usec |-> 3], [tv_sec |-> 2, tv_usec |-> 1]}

\* Functions and their callers; f is called from two places, one of them g.
MCArcs == {[self |-> "f", from |-> "m"], [self |-> "f", from |-> "g"],
           [self |-> "g", from |-> "m"]}

\* Conversions with and without a width, a leading zero, a precision, a length and a letter
\* that the printers know.
Unadorned(letter) ==
  [zero |-> FALSE, width |-> -1, after |-> -1, long |-> FALSE, letter |-> letter]
MCPieces ==
  [zero : BOOLEAN, width : {-1, 3, 10}, after : {-1}, long : {FALSE},
   letter : {"d", "X", "o", "c", "s"}]
    \cup [zero : {TRUE}, width : {6}, after : {2}, long : {TRUE}, letter : {"i", "u"}]
    \cup {Unadorned(letter) : letter \in {"x", "%", "q", "", "literal"}}

\* What is written: less than the echo takes, with a control character, and more.
Char(letter) == <<letter, 0>>
MCTexts ==
  {<<Char("a")>>, <<Char("a"), Char("ctrl-d")>>,
   <<Char("a"), Char("b"), Char("ctrl-d"), Char("d"), Char("e")>>}

\* Two devices of one name, one of a longer one with a '/' at its end, and one without.
MCNames == [d1 |-> <<1>>, d2 |-> <<1, 2, 47>>, d3 |-> <<1>>, d4 |-> <<>>]
\* Names of which one begins another, one given twice and one missing.
MCWanted == {<<1>>, <<1, 2, 47>>, <<1, 2>>, <<2>>}
\* Files below and beside filesystems of these names.
MCFiles == {<<1, 47, 2>>, <<1, 2>>, <<1, 2, 47, 1>>, <<2>>}
=============================================================================
