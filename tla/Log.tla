--------------------------------- MODULE Log ---------------------------------
(***************************************************************************)
(* The two small printf's, that of the log (alt_log_printf.c) and that of  *)
(* programs (alt_printf.c), character by character, and the messages that  *)
(* the HAL logs: the echo of a write, the state of the UART, the clock.    *)
(*                                                                         *)
(* A message is given in pieces: literals and conversions. Its spelling is *)
(* the format string that is printed from, and Rendered what should come   *)
(* out. A character is a pair: a digit of a value, or a letter and 0.      *)
(*                                                                         *)
(* A definition named Mut... is the one after it with a plausible bug in.  *)
(***************************************************************************)
EXTENDS Integers, SequencesExt

CONSTANTS
  Pieces,    \* what formats are made of, as [zero, width, after, long, letter]
  Values,    \* machine words printed
  WordSize,  \* bits of a machine word
  Texts,     \* what is written to a descriptor
  ALT_LOG_WRITE_ECHO_LEN,
  ALT_LOG_SYS_CLK_INTERVAL,  \* in ticks
  ALT_PUTBUF_SIZE,  \* characters that are kept for the host of a semihosted program
  None

Ch(letter) == <<letter, 0>>
Digit(n) == <<"digit", n>>
CtrlD == Ch("ctrl-d")

VARIABLES
  level,             \* ALT_LOG_FLAGS: -1, 0 or undefined, 1 .. 3
  semihosting,       \* ALT_SEMIHOSTING, for alt_printf
  message,           \* being printed, as [printer, pieces, args], or None
  fmt, args, state,  \* what is left of its format and arguments; the state of the parser
  fmtFlags,          \* what a conversion has said so far
  out,               \* what was printed of it
  buf,               \* alt_putcharbuf: characters not yet written, fill_index of them
  alt_log_write_buf,
  alt_log_sys_clk_count, alt_system_clock_in_sec

printer == <<fmt, args, state, fmtFlags, out, buf>>
clock == <<alt_log_sys_clk_count, alt_system_clock_in_sec>>
logVars == <<level, semihosting, message, printer, alt_log_write_buf, clock>>

-----------------------------------------------------------------------------
(* Formats *)

\* A conversion without a letter is one that the end of the format cuts off.
Spelled(n) == IF n < 10 THEN <<Digit(n)>> ELSE <<Digit(n \div 10), Digit(n % 10)>>
Spelling(p) ==
  IF p.letter = "literal" THEN <<Ch("literal")>>
  ELSE <<Ch("%")>> \o (IF p.zero THEN <<Digit(0)>> ELSE <<>>)
       \o (IF p.width = -1 THEN <<>> ELSE Spelled(p.width))
       \o (IF p.after = -1 THEN <<>> ELSE <<Ch(".")>> \o Spelled(p.after))
       \o (IF p.long THEN <<Ch("l")>> ELSE <<>>)
       \o (IF p.letter = "" THEN <<>> ELSE <<Ch(p.letter)>>)
Format(pieces) == FlattenSeq([i \in DOMAIN pieces |-> Spelling(pieces[i])])

\* The digits of v: its largest place is found first.
HasPlaces(v, base, n) == v < base^n /\ (n > 1 => v >= base^(n - 1))
Places(v, base) == CHOOSE n \in 1 .. WordSize : HasPlaces(v, base, n)
Digits(v, base, upper) ==
  LET n == Places(v, base)
      d(i) == (v \div base^(n - i)) % base
  IN  [i \in 1 .. n |-> IF upper /\ d(i) > 9 THEN <<"DIGIT", d(i)>> ELSE Digit(d(i))]
Repeat(c, n) == [i \in 1 .. n |-> c]

Signed == {"d", "i"}
Numbers == Signed \cup {"u", "o", "x", "X"}
Base(letter) == CASE letter \in {"x", "X"} -> 16 [] letter = "o" -> 8 [] OTHER -> 10
TakesArgument(letter) == letter \in Numbers \cup {"c", "s"}
Negative(v) == v >= 2^(WordSize - 1)
Magnitude(v, signed) == IF signed /\ Negative(v) THEN 2^WordSize - v ELSE v

\* What printf promises of a piece: its value, to the right in a field of its width, a
\* number with zeros to the left of it behind its sign if the width begins with zero.
Field(p, arg) ==
  LET minus == p.letter \in Signed /\ Negative(arg)
      body == CASE p.letter \in Numbers -> Digits(Magnitude(arg, p.letter \in Signed),
                                                  Base(p.letter), p.letter = "X")
                [] p.letter = "c" -> <<arg>>
                [] p.letter = "s" -> arg
      sign == IF minus THEN <<Ch("-")>> ELSE <<>>
      missing == p.width - Len(body) - Len(sign)
  IN  IF p.letter \in Numbers /\ p.zero THEN sign \o Repeat(Digit(0), missing) \o body
      ELSE Repeat(Ch(" "), missing) \o sign \o body
Consumed(pieces, n) == Cardinality({i \in 1 .. n : TakesArgument(pieces[i].letter)})
Rendered(pieces, given) ==
  FlattenSeq([i \in DOMAIN pieces |->
    CASE pieces[i].letter \in {"literal", "%"} -> <<Ch(pieces[i].letter)>>
      [] TakesArgument(pieces[i].letter) -> Field(pieces[i], given[Consumed(pieces, i)])
      [] OTHER -> <<>>])

-----------------------------------------------------------------------------
(* The messages *)

Plain(letter) == [zero |-> FALSE, width |-> -1, after |-> -1, long |-> FALSE, letter |-> letter]
Literal == Plain("literal")

\* Formats are written with a piece in these ways: a width begins with a digit that is not
\* zero, and nothing is said of a percent sign.
IsPiece(p) ==
  /\ p = [zero |-> p.zero, width |-> p.width, after |-> p.after, long |-> p.long,
          letter |-> p.letter]
  /\ p.zero \in BOOLEAN /\ p.width \in {-1} \cup 1 .. 99 /\ p.after \in -1 .. 99
  /\ p.letter \notin {"digit", ".", "l"} /\ (p.letter = "%" => p = Plain("%"))

NoFlags == [leadingZero |-> FALSE, before |-> -1, after |-> -1]
Init ==
  /\ level \in -1 .. 3 /\ message = None /\ fmt = <<>> /\ args = <<>> /\ state = "idle"
  /\ fmtFlags = NoFlags /\ out = <<>> /\ alt_log_write_buf = <<>>
  /\ semihosting \in BOOLEAN /\ (semihosting => level = 0) /\ buf = <<>>
  /\ alt_log_sys_clk_count = 0 /\ alt_system_clock_in_sec = 0

Begin(which, pieces, given) ==
  /\ message' = [printer |-> which, pieces |-> pieces, args |-> given]
  /\ fmt' = Format(pieces) /\ args' = given /\ state' = "chars"
  /\ out' = <<>> /\ fmtFlags' = NoFlags /\ UNCHANGED buf
Idle == state = "idle"

\* The flags that each level turns on.
FlagOn(flag) ==
  CASE flag = "boot"                                  -> level # -1
    [] flag \in {"sys_clk", "jtag_uart_startup_info"} -> level >= 1
    [] flag \in {"write", "jtag_uart_alarm"}          -> level >= 2
    [] flag = "jtag_uart_isr"                         -> level >= 3

\* A program prints, or the start does.
Arguments(letter) ==
  CASE letter \in Numbers -> Values
    [] letter = "c" -> {Ch("c")}
    [] letter = "s" -> {Repeat(Ch("s"), n) : n \in {0, 2}}
    [] OTHER -> {None}
PrintMessage(which, p, arg) ==
  /\ Idle
  /\ Begin(which, <<Literal, p>> \o (IF p.letter = "" THEN <<>> ELSE <<Literal>>),
           IF TakesArgument(p.letter) THEN <<arg>> ELSE <<>>)
  /\ UNCHANGED <<level, semihosting, alt_log_write_buf, clock>>

ALT_LOG_PRINT_BOOT(p, arg) == FlagOn("boot") /\ PrintMessage("boot", p, arg)
AltLetters == {"%", "c", "x", "s", ""}
alt_printf(p, arg) ==
  p = Plain(p.letter) /\ p.letter \in AltLetters /\ PrintMessage("alt_printf", p, arg)

\* The control register's fields, and the length of the circular buffer, here two of them,
\* after a header that says who reports them.
alt_log_jtag_uart_print_control_reg(header, space) ==
  /\ Idle
  /\ Begin("log", <<Plain("s"), Literal, Plain("d"), Plain("d")>>, <<<<Ch(header)>>, space, 1>>)
  /\ UNCHANGED <<level, semihosting, alt_log_write_buf, clock>>

\* The driver's start registers an alarm and reports once; the alarm reports at each call
\* (it is registered only while its flag is on); the handler reports when the UART's
\* buffer is almost empty.
altera_avalon_jtag_uart_report_log(space) ==
  FlagOn("jtag_uart_alarm") /\ alt_log_jtag_uart_print_control_reg("JTAG Alarm:", space)
ALT_LOG_JTAG_UART_ALARM_REGISTER(space) ==
  /\ FlagOn("jtag_uart_startup_info")
  /\ alt_log_jtag_uart_print_control_reg("JTAG Startup Info:", space)
alt_log_jtag_uart_isr_proc(space) ==
  FlagOn("jtag_uart_isr") /\ alt_log_jtag_uart_print_control_reg("JTAG IRQ:", space)

\* A tick: a message whenever the count passes the interval.
alt_log_system_clock ==
  /\ Idle /\ FlagOn("sys_clk") /\ alt_system_clock_in_sec < 1
  /\ IF alt_log_sys_clk_count + 1 > ALT_LOG_SYS_CLK_INTERVAL
     THEN /\ alt_log_sys_clk_count' = 0
          /\ alt_system_clock_in_sec' = alt_system_clock_in_sec + 1
          /\ Begin("log", <<Literal, Plain("u")>>, <<alt_system_clock_in_sec>>)
     ELSE /\ alt_log_sys_clk_count' = alt_log_sys_clk_count + 1
          /\ UNCHANGED <<alt_system_clock_in_sec, message, printer>>
  /\ UNCHANGED <<level, semihosting, alt_log_write_buf>>

\* The echo of a write: its last character makes room for a new line.
EchoLength(text) == Min({ALT_LOG_WRITE_ECHO_LEN, Len(text)})
Echoed(text) ==
  LET length == EchoLength(text)
      kept(c) == IF c = CtrlD THEN Ch("D") ELSE c
  IN  [i \in 1 .. (length - 1) |-> kept(text[i])] \o <<Ch("\n"), Ch("\r"), Ch("0")>>
\* What the buffer held behind what is written now stays.
Over(old, new) == new \o SubSeq(old, Len(new) + 1, Len(old))
StringIn(chars) == SubSeq(chars, 1, Min({i \in DOMAIN chars : chars[i] = Ch("0")}) - 1)
alt_log_write(text) ==
  /\ Idle /\ FlagOn("write") /\ EchoLength(text) >= 2
  /\ alt_log_write_buf' = Over(alt_log_write_buf, Echoed(text))
  /\ Begin("log", <<Literal, Plain("s")>>, <<StringIn(alt_log_write_buf')>>)
  /\ UNCHANGED <<level, semihosting, clock>>

-----------------------------------------------------------------------------
(* alt_log_private_printf, a character of the format at a time *)

Logs == message # None /\ message.printer # "alt_printf" /\ fmt # <<>>
char == Head(fmt)
alt_log_repchar(ch, n) == Repeat(ch, n)
Advance(to) == fmt' = Tail(fmt) /\ state' = to
Unchanged == UNCHANGED <<level, semihosting, message, alt_log_write_buf, clock>>

Chars ==
  /\ Logs /\ state = "chars"
  /\ IF char = Ch("%") THEN Advance("firstFmtChar") /\ fmtFlags' = NoFlags /\ UNCHANGED out
                    ELSE Advance("chars") /\ out' = Append(out, char) /\ UNCHANGED fmtFlags
  /\ UNCHANGED <<args, buf>> /\ Unchanged
FirstFmtChar ==
  /\ Logs /\ state = "firstFmtChar" /\ char \in {Digit(0), Ch("%")}
  /\ IF char = Ch("%") THEN Advance("chars") /\ out' = Append(out, char) /\ UNCHANGED fmtFlags
     ELSE Advance("otherFmtChar") /\ fmtFlags' = [fmtFlags EXCEPT !.leadingZero = TRUE]
          /\ UNCHANGED out
  /\ UNCHANGED <<args, buf>> /\ Unchanged

InConversion ==
  /\ Logs /\ \/ state = "otherFmtChar"
             \/ state = "firstFmtChar" /\ char \notin {Digit(0), Ch("%")}
FmtModifier ==
  /\ InConversion /\ char[1] \in {".", "digit", "l"} /\ Advance("otherFmtChar")
  /\ fmtFlags' =
       CASE char[1] = "." -> [fmtFlags EXCEPT !.after = 0]
         [] char[1] = "l" -> fmtFlags
         [] char[1] = "digit" /\ fmtFlags.after >= 0 -> [fmtFlags EXCEPT !.after = @ * 10 + char[2]]
         [] char[1] = "digit" /\ fmtFlags.after < 0 ->
              [fmtFlags EXCEPT !.before = (IF @ < 0 THEN 0 ELSE @ * 10) + char[2]]
  /\ UNCHANGED <<args, out, buf>> /\ Unchanged

\* doIntegerPrint. The width left shrinks by the digits and the sign.
MutIntegerPrint(letter, v) ==
  LET sign == letter \in Signed /\ Negative(v)
      number == Digits(Magnitude(v, letter \in Signed), Base(letter), letter = "X")
      before == fmtFlags.before - Len(number)
  IN  IF fmtFlags.leadingZero
      THEN (IF sign THEN <<Ch("-")>> ELSE <<>>) \o alt_log_repchar(Digit(0), before) \o number
      ELSE alt_log_repchar(Ch(" "), before) \o (IF sign THEN <<Ch("-")>> ELSE <<>>) \o number
IntegerPrint(letter, v) ==
  LET sign == letter \in Signed /\ Negative(v)
      number == Digits(Magnitude(v, letter \in Signed), Base(letter), letter = "X")
      before == fmtFlags.before - Len(number) - (IF sign THEN 1 ELSE 0)
  IN  IF fmtFlags.leadingZero
      THEN (IF sign THEN <<Ch("-")>> ELSE <<>>) \o alt_log_repchar(Digit(0), before) \o number
      ELSE alt_log_repchar(Ch(" "), before) \o (IF sign THEN <<Ch("-")>> ELSE <<>>) \o number
Conversion ==
  /\ InConversion /\ char[1] \notin {".", "digit", "l"} /\ Advance("chars")
  /\ out' = out \o
       (CASE char[1] \in Numbers -> IntegerPrint(char[1], Head(args))
          [] char[1] = "c" -> alt_log_repchar(Ch(" "), fmtFlags.before - 1) \o <<Head(args)>>
          [] char[1] = "s" -> alt_log_repchar(Ch(" "), fmtFlags.before - Len(Head(args)))
                           \o Head(args)
          [] OTHER -> <<>>)
  /\ args' = IF TakesArgument(char[1]) THEN Tail(args) ELSE args
  /\ UNCHANGED <<fmtFlags, buf>> /\ Unchanged

EndOfFormat ==
  /\ message # None /\ fmt = <<>> /\ buf = <<>> /\ message' = None
  /\ state' = "idle" /\ fmtFlags' = NoFlags /\ args' = <<>> /\ out' = <<>>
  /\ UNCHANGED <<level, semihosting, fmt, buf, alt_log_write_buf, clock>>

-----------------------------------------------------------------------------
(* alt_printf *)

\* alt_putchar writes each character. A semihosted program keeps them, a buffer at a time:
\* alt_putcharbuf writes it when it is full, and alt_printf what is left at its end.
alt_putchar(chars) == out' = out \o chars /\ UNCHANGED buf
Mutalt_putcharbuf(chars) ==
  LET kept == buf \o chars
      full == ALT_PUTBUF_SIZE * ((Len(kept) - 1) \div ALT_PUTBUF_SIZE)
  IN  out' = out \o SubSeq(kept, 1, full) /\ buf' = SubSeq(kept, full + 1, Len(kept))
alt_putcharbuf(chars) ==
  LET kept == buf \o chars
      full == ALT_PUTBUF_SIZE * (Len(kept) \div ALT_PUTBUF_SIZE)
  IN  /\ out' = out \o SubSeq(kept, 1, full)
      /\ buf' = SubSeq(kept, full + 1, Len(kept))
Put(chars) == IF semihosting THEN alt_putcharbuf(chars) ELSE alt_putchar(chars)
alt_putbufflush ==
  /\ message # None /\ fmt = <<>> /\ buf # <<>> /\ out' = out \o buf /\ buf' = <<>>
  /\ UNCHANGED <<fmt, args, state, fmtFlags>> /\ Unchanged

AltChar ==
  /\ message # None /\ message.printer = "alt_printf" /\ fmt # <<>> /\ char # Ch("%")
  /\ Advance("chars") /\ Put(<<char>>) /\ UNCHANGED <<args, fmtFlags>> /\ Unchanged

\* A hexadecimal number begins with its first digit that is not zero; zero is a digit.
AltConversion ==
  /\ message # None /\ message.printer = "alt_printf" /\ fmt # <<>> /\ char = Ch("%")
  /\ state' = "chars" /\ fmt' = IF Len(fmt) = 1 THEN <<>> ELSE Tail(Tail(fmt))
  /\ LET letter == IF Len(fmt) = 1 THEN "" ELSE fmt[2][1]
     IN  /\ Put(CASE letter = "%" -> <<Ch("%")>>
                  [] letter = "c" -> <<Head(args)>>
                  [] letter = "x" -> Digits(Head(args), 16, FALSE)
                  [] letter = "s" -> Head(args)
                  [] OTHER -> <<>>)
         /\ args' = IF letter \in {"c", "x", "s"} THEN Tail(args) ELSE args
  /\ UNCHANGED fmtFlags /\ Unchanged

-----------------------------------------------------------------------------
Next ==
  \/ \E p \in Pieces : \E arg \in Arguments(p.letter) :
       ALT_LOG_PRINT_BOOT(p, arg) \/ alt_printf(p, arg)
  \/ \E space \in Values :
       \/ altera_avalon_jtag_uart_report_log(space) \/ alt_log_jtag_uart_isr_proc(space)
       \/ ALT_LOG_JTAG_UART_ALARM_REGISTER(space)
  \/ alt_log_system_clock \/ \E text \in Texts : alt_log_write(text)
  \/ Chars \/ FirstFmtChar \/ FmtModifier \/ Conversion \/ EndOfFormat
  \/ AltChar \/ AltConversion \/ alt_putbufflush

Spec == Init /\ [][Next]_logVars

-----------------------------------------------------------------------------
(* Properties *)

TypeOK ==
  /\ level \in -1 .. 3 /\ state \in {"idle", "chars", "firstFmtChar", "otherFmtChar"}
  /\ fmtFlags.leadingZero \in BOOLEAN /\ fmtFlags.before \in Int /\ fmtFlags.after \in Int
  /\ semihosting \in BOOLEAN /\ Len(buf) < ALT_PUTBUF_SIZE
  /\ Len(alt_log_write_buf) <= ALT_LOG_WRITE_ECHO_LEN + 2
  /\ alt_log_sys_clk_count \in 0 .. ALT_LOG_SYS_CLK_INTERVAL

\* A format is printed as it reads, piece by piece, each conversion with the argument that
\* is its own, in the width and the base it asks for, whatever conversions precede it, and
\* all of it when the printer returns.
MessagesAsAsked ==
  message # None /\ fmt = <<>> /\ buf = <<>> => out = Rendered(message.pieces, message.args) /\ args = <<>>

\* The echo of a write never ends the terminal's connection, and is one line of at most the
\* echo's length, whatever the buffer held of the echo before.
EchoIsALine ==
  Idle /\ alt_log_write_buf # <<>> =>
    LET echo == StringIn(alt_log_write_buf)
    IN  /\ CtrlD \notin ToSet(echo) /\ Len(echo) <= ALT_LOG_WRITE_ECHO_LEN + 1
        /\ Last(echo) = Ch("\r") /\ echo[Len(echo) - 1] = Ch("\n")

LogIsSound == MessagesAsAsked /\ EchoIsALine
=============================================================================
