----------------------------- MODULE Log_proofs -----------------------------
(***************************************************************************)
(* Proofs about the log, the service of the HAL with the longest argument: *)
(* for any pieces of a format, any words, any texts and any lengths of the *)
(* echo and of what is kept for the host.                                  *)
(*                                                                         *)
(* The state of a parser, in the middle of a conversion, stands for what   *)
(* is left of the piece's spelling. So MessageInv relates, at every char-  *)
(* acter, what is left of the format and of the arguments, what has been   *)
(* printed, and the piece that is being read.                              *)
(*                                                                         *)
(* The types of all of the services follow at the end.                     *)
(***************************************************************************)
EXTENDS Hal_proofs

-----------------------------------------------------------------------------
(* A format is printed piece by piece *)

IsSeq(s) == s \in Seq({s[i] : i \in DOMAIN s})

\* What is left of the sequences in ss behind the first j, and these.
Rest(ss, j) == Logging!FlattenSeq(SubSeq(ss, j + 1, Len(ss)))
Done(ss, j) == Logging!FlattenSeq(SubSeq(ss, 1, j))

Spellings(pieces) == [i \in DOMAIN pieces |-> Logging!Spelling(pieces[i])]
RenderedAt(pieces, given, i) ==
  CASE pieces[i].letter \in {"literal", "%"} -> <<Logging!Ch(pieces[i].letter)>>
    [] Logging!TakesArgument(pieces[i].letter) ->
         Logging!Field(pieces[i], given[Logging!Consumed(pieces, i)])
    [] OTHER -> <<>>
Renderings(pieces, given) == [i \in DOMAIN pieces |-> RenderedAt(pieces, given, i)]

\* An argument is what a conversion of that letter prints.
Fits(letter, arg) ==
  /\ letter = "s" => IsSeq(arg)
  /\ letter \in Logging!Numbers => \E n \in 1 .. WordSize :
       Logging!HasPlaces(Logging!Magnitude(arg, letter \in Logging!Signed), Logging!Base(letter), n)
IsMessage(pieces, given) ==
  /\ IsSeq(pieces) /\ IsSeq(given) /\ Len(given) = Logging!Consumed(pieces, Len(pieces))
  /\ \A i \in 1 .. Len(pieces) :
       /\ Logging!IsPiece(pieces[i]) /\ (pieces[i].letter = "" => i = Len(pieces))
       /\ Logging!TakesArgument(pieces[i].letter) =>
            Fits(pieces[i].letter, given[Logging!Consumed(pieces, i)])

\* The parts of a conversion behind its percent sign and its zero, before rest.
Letters(p, rest) == IF p.letter = "" THEN rest ELSE <<Logging!Ch(p.letter)>> \o rest
FromLong(p, rest) == IF p.long THEN <<Logging!Ch("l")>> \o Letters(p, rest) ELSE Letters(p, rest)
FromAfter(p, rest) ==
  IF p.after = -1 THEN FromLong(p, rest)
  ELSE <<Logging!Ch(".")>> \o (Logging!Spelled(p.after) \o FromLong(p, rest))
FromWidth(p, rest) ==
  IF p.width = -1 THEN FromAfter(p, rest) ELSE Logging!Spelled(p.width) \o FromAfter(p, rest)
FromZero(p, rest) ==
  IF p.zero THEN <<Logging!Digit(0)>> \o FromWidth(p, rest) ELSE FromWidth(p, rest)

\* What the flags say, where the format has come to: at the width, behind its first digit,
\* behind it, and likewise at and behind the digits after the point.
AtWidth(p, flags, chars, rest) ==
  chars = FromWidth(p, rest) /\ flags.before = -1 /\ flags.after = -1
InWidth(p, flags, chars, rest) ==
  /\ p.width >= 10 /\ chars = <<Logging!Digit(p.width % 10)>> \o FromAfter(p, rest)
  /\ flags.before = p.width \div 10 /\ flags.after = -1
AtAfter(p, flags, chars, rest) ==
  chars = FromAfter(p, rest) /\ flags.before = p.width /\ flags.after = -1
BehindPoint(p, flags, chars, rest) ==
  /\ p.after >= 0 /\ chars = Logging!Spelled(p.after) \o FromLong(p, rest)
  /\ flags.before = p.width /\ flags.after = 0
InAfter(p, flags, chars, rest) ==
  /\ p.after >= 10 /\ chars = <<Logging!Digit(p.after % 10)>> \o FromLong(p, rest)
  /\ flags.before = p.width /\ flags.after = p.after \div 10
AtLong(p, flags, chars, rest) == chars = FromLong(p, rest) /\ flags.before = p.width
AtLetter(p, flags, chars, rest) == chars = Letters(p, rest) /\ flags.before = p.width
Converting(p, flags, chars, rest) ==
  /\ flags.leadingZero = p.zero
  /\ \/ AtWidth(p, flags, chars, rest) \/ InWidth(p, flags, chars, rest)
     \/ AtAfter(p, flags, chars, rest) \/ BehindPoint(p, flags, chars, rest)
     \/ InAfter(p, flags, chars, rest) \/ AtLong(p, flags, chars, rest)
     \/ AtLetter(p, flags, chars, rest)

FlagTypes(flags) ==
  /\ flags = [leadingZero |-> flags.leadingZero, before |-> flags.before, after |-> flags.after]
  /\ flags.leadingZero \in BOOLEAN /\ flags.before \in Int /\ flags.after \in Int

\* The first j pieces are printed, and the next perhaps begun.
Printing(pieces, given, j) ==
  /\ out \o putbuf = Done(Renderings(pieces, given), j)
  /\ args = SubSeq(given, Logging!Consumed(pieces, j) + 1, Len(given))
  /\ \/ parser = "chars" /\ fmt = Rest(Spellings(pieces), j)
     \/ /\ parser \in {"firstFmtChar", "otherFmtChar"} /\ message.printer # "alt_printf"
        /\ j < Len(pieces) /\ pieces[j + 1].letter # "literal"
        /\ LET p == pieces[j + 1]
               rest == Rest(Spellings(pieces), j + 1)
           IN  IF parser = "firstFmtChar" THEN fmt = FromZero(p, rest) /\ fmtFlags = Logging!NoFlags
               ELSE p.letter # "%" /\ Converting(p, fmtFlags, fmt, rest)

\* The echo in the buffer of a write: a line and the NUL behind it.
IsEcho(chars, m) ==
  /\ m \in 3 .. (ALT_LOG_WRITE_ECHO_LEN + 2) /\ m <= Len(chars)
  /\ chars[m] = Logging!Ch("0") /\ chars[m - 1] = Logging!Ch("\r")
  /\ chars[m - 2] = Logging!Ch("\n")
  /\ \A i \in 1 .. (m - 1) : chars[i] # Logging!Ch("0") /\ chars[i] # Logging!CtrlD

EchoInv == alt_log_write_buf # <<>> => \E m \in Nat : IsEcho(alt_log_write_buf, m)

PrinterTypes ==
  /\ parser \in {"idle", "chars", "firstFmtChar", "otherFmtChar"} /\ FlagTypes(fmtFlags)
  /\ IsSeq(out) /\ IsSeq(putbuf) /\ Len(putbuf) < ALT_PUTBUF_SIZE
  /\ parser = "idle" \/ ~semihosting => putbuf = <<>>
LogTypes ==
  /\ logging \in -1 .. 3 /\ semihosting \in BOOLEAN
  /\ IsSeq(alt_log_write_buf) /\ Len(alt_log_write_buf) <= ALT_LOG_WRITE_ECHO_LEN + 2
  /\ alt_log_sys_clk_count \in 0 .. ALT_LOG_SYS_CLK_INTERVAL /\ alt_system_clock_in_sec \in {0, 1}

AltPieces(pieces) == \A i \in 1 .. Len(pieces) :
  /\ pieces[i] = Logging!Plain(pieces[i].letter)
  /\ pieces[i].letter \in Logging!AltLetters \cup {"literal"}
Told(which, pieces, given) ==
  /\ message = [printer |-> which, pieces |-> pieces, args |-> given]
  /\ IsMessage(pieces, given)
  /\ which # "alt_printf" => putbuf = <<>>
  /\ which = "alt_printf" => AltPieces(pieces)
MessageInv == message # None => \E which, pieces, given : Told(which, pieces, given)
                                 /\ \E j \in Nat : j <= Len(pieces) /\ Printing(pieces, given, j)
LogInv == LogTypes /\ PrinterTypes /\ EchoInv /\ MessageInv

LEMMA SeqOf ==
  ASSUME NEW S, NEW s \in Seq(S)
  PROVE  IsSeq(s)
<1> DEFINE T == {s[i] : i \in DOMAIN s}
<1>1. s \in [1 .. Len(s) -> T] /\ Len(s) \in Nat OBVIOUS
<1> HIDE DEF T
<1>2. s \in Seq(T) BY <1>1
<1> QED BY <1>2 DEF IsSeq, T

LEMMA IsList ==
  ASSUME NEW s, NEW n \in Nat, s = [i \in 1 .. n |-> s[i]]
  PROVE  IsSeq(s) /\ Len(s) = n
<1> DEFINE T == {s[i] : i \in 1 .. n}
<1>1. s \in [1 .. n -> T] OBVIOUS
<1> HIDE DEF T
<1>2. s \in Seq(T) /\ Len(s) = n BY <1>1
<1> QED BY <1>2, SeqOf

LEMMA Joined ==
  ASSUME NEW a, NEW b, IsSeq(a), IsSeq(b)
  PROVE  /\ IsSeq(a \o b) /\ Len(a \o b) = Len(a) + Len(b) /\ Len(a) \in Nat /\ Len(b) \in Nat
         /\ a \o <<>> = a /\ <<>> \o a = a
         /\ \A i \in 1 .. Len(a) : (a \o b)[i] = a[i]
<1> DEFINE S == {a[i] : i \in DOMAIN a}
<1> DEFINE T == {b[i] : i \in DOMAIN b}
<1> DEFINE U == S \cup T
<1>1. a \in Seq(S) /\ b \in Seq(T) BY DEF IsSeq
<1> HIDE DEF S, T
<1>2. a \in Seq(U) /\ b \in Seq(U) BY <1>1
<1> HIDE DEF U
<1>3. a \o b \in Seq(U) /\ Len(a \o b) = Len(a) + Len(b) BY <1>2
<1>4. IsSeq(a \o b) BY <1>3, SeqOf, Zenon
<1>5. a \o <<>> = a /\ <<>> \o a = a BY <1>2
<1> QED BY <1>2, <1>3, <1>4, <1>5

Associates(a, b, c) == (a \o b) \o c = a \o (b \o c)

LEMMA Associated ==
  ASSUME NEW a, NEW b, NEW c, IsSeq(a), IsSeq(b), IsSeq(c)
  PROVE  Associates(a, b, c)
<1> DEFINE S == {a[i] : i \in DOMAIN a}
<1> DEFINE T == {b[i] : i \in DOMAIN b}
<1> DEFINE R == {c[i] : i \in DOMAIN c}
<1> DEFINE U == S \cup T \cup R
<1>1. a \in Seq(S) /\ b \in Seq(T) /\ c \in Seq(R) BY DEF IsSeq
<1> HIDE DEF S, T, R
<1>2. a \in Seq(U) /\ b \in Seq(U) /\ c \in Seq(U) BY <1>1
<1> HIDE DEF U
<1> QED BY <1>2 DEF Associates

LEMMA OneFirst ==
  ASSUME NEW x, NEW a, IsSeq(a)
  PROVE  /\ IsSeq(<<x>>) /\ IsSeq(<<x>> \o a) /\ <<x>> \o a # <<>>
         /\ Head(<<x>> \o a) = x /\ Tail(<<x>> \o a) = a
         /\ Len(<<x>> \o a) = Len(a) + 1
<1> DEFINE T == {a[i] : i \in DOMAIN a} \cup {x}
<1>1. a \in Seq({a[i] : i \in DOMAIN a}) BY DEF IsSeq
<1>2. a \in Seq(T) /\ x \in T BY <1>1
<1> HIDE DEF T
<1>3. <<x>> \in Seq(T) /\ <<x>> \o a \in Seq(T) BY <1>2
<1>4. /\ <<x>> \o a # <<>> /\ Head(<<x>> \o a) = x /\ Len(<<x>> \o a) = Len(a) + 1
  BY <1>2, <1>3
<1>5. Tail(<<x>> \o a) = a BY <1>2, <1>3
<1> QED BY <1>3, <1>4, <1>5, SeqOf, Zenon

\* The function by which FlattenSeq is defined.
FlatStep(ss, f, i) == IF i = 1 THEN ss[i] ELSE f[i - 1] \o ss[i]
Flattens(ss, f) == f = [i \in 1 .. Len(ss) |-> FlatStep(ss, f, i)]

LEMMA FlattenIs ==
  ASSUME NEW ss, Len(ss) # 0
  PROVE  Logging!FlattenSeq(ss) = (CHOOSE f : Flattens(ss, f))[Len(ss)]
BY DEF Logging!FlattenSeq, Flattens, FlatStep

LEMMA FlattenExists ==
  ASSUME NEW S, NEW ss \in Seq(Seq(S)), ss # <<>>
  PROVE  \E f : Flattens(ss, f)
<1> DEFINE N == Len(ss)
<1> DEFINE Upto(n, f) == f = [i \in 1 .. n |-> FlatStep(ss, f, i)]
<1> DEFINE C == {n \in Nat : \E f : Upto(n, f)}
<1>1. 0 \in C
  <2>1. Upto(0, [i \in 1 .. 0 |-> 0])
    <3>1. 1 .. 0 = {} OBVIOUS
    <3> QED BY <3>1
  <2> QED BY <2>1, Zenon
<1>2. ASSUME NEW n \in Nat, n \in C PROVE n + 1 \in C
  <2>1. PICK f : Upto(n, f) BY <1>2
  <2> DEFINE g == [i \in 1 .. (n + 1) |->
                     IF i <= n THEN f[i] ELSE FlatStep(ss, f, i)]
  <2>2. \A i \in 1 .. n : g[i] = f[i] OBVIOUS
  <2>3. \A i \in 1 .. (n + 1) : g[i] = FlatStep(ss, g, i)
    <3> SUFFICES ASSUME NEW i \in 1 .. (n + 1) PROVE g[i] = FlatStep(ss, g, i) OBVIOUS
    <3>0. FlatStep(ss, g, i) = FlatStep(ss, f, i)
      <4>1. i # 1 => g[i - 1] = f[i - 1] BY <2>2
      <4> HIDE DEF g
      <4> QED BY <4>1 DEF FlatStep
    <3>1. CASE i <= n
      <4>1. f[i] = FlatStep(ss, f, i)
        <5>1. i \in 1 .. n BY <3>1
        <5>2. f = [k \in 1 .. n |-> FlatStep(ss, f, k)] BY <2>1, Zenon
        <5> HIDE DEF g, C, Upto
        <5> QED BY <5>1, <5>2, Zenon
      <4>2. g[i] = f[i] BY <2>2, <3>1
      <4> QED BY <3>0, <4>1, <4>2
    <3>2. CASE i = n + 1
      <4>1. g[i] = FlatStep(ss, f, i) BY <3>2
      <4> QED BY <3>0, <4>1
    <3> QED BY <3>1, <3>2
  <2>4. g = [i \in 1 .. (n + 1) |-> g[i]] OBVIOUS
  <2> HIDE DEF g
  <2>5. Upto(n + 1, g) BY <2>3, <2>4
  <2> HIDE DEF Upto
  <2> QED BY <2>5
<1>3. N \in C
  <2>1. Nat \subseteq C
    <3> HIDE DEF C
    <3> QED BY <1>1, <1>2, Induct, Zenon
  <2>2. N \in Nat OBVIOUS
  <2> HIDE DEF C
  <2> QED BY <2>1, <2>2
<1>4. PICK f : Upto(N, f) BY <1>3
<1>5. Flattens(ss, f) BY <1>4, Zenon DEF Flattens
<1> QED BY <1>5

LEMMA FlattenOne ==
  ASSUME NEW S, NEW ss \in Seq(Seq(S)), NEW f, Flattens(ss, f), NEW i \in 1 .. Len(ss)
  PROVE  f[i] = IF i = 1 THEN ss[i] ELSE f[i - 1] \o ss[i]
<1>1. f[i] = FlatStep(ss, f, i) BY Zenon DEF Flattens
<1> QED BY <1>1 DEF FlatStep

\* A function that flattens a sequence begins with one that flattens its beginning.
LEMMA FlattenSame ==
  ASSUME NEW S, NEW ss \in Seq(Seq(S)), NEW tt \in Seq(Seq(S)), Len(tt) <= Len(ss),
         \A i \in 1 .. Len(tt) : tt[i] = ss[i],
         NEW f, NEW g, Flattens(ss, f), Flattens(tt, g), NEW k \in 1 .. Len(tt)
  PROVE  f[k] = g[k] /\ f[k] \in Seq(S)
<1> DEFINE C == {n \in Nat : n + 1 <= Len(tt) => f[n + 1] = g[n + 1] /\ f[n + 1] \in Seq(S)}
<1>0. \A i \in 1 .. Len(ss) : ss[i] \in Seq(S) OBVIOUS
<1>1. 0 \in C
  <2>1. ASSUME 1 <= Len(tt) PROVE f[1] = g[1] /\ f[1] \in Seq(S)
    <3>1. 1 \in 1 .. Len(tt) /\ 1 \in 1 .. Len(ss) BY <2>1
    <3>2. f[1] = ss[1] /\ g[1] = tt[1] BY <3>1, FlattenOne
    <3> QED BY <1>0, <3>1, <3>2
  <2> QED BY <2>1
<1>2. ASSUME NEW n \in Nat, n \in C PROVE n + 1 \in C
  <2>1. ASSUME (n + 1) + 1 <= Len(tt)
        PROVE  f[(n + 1) + 1] = g[(n + 1) + 1] /\ f[(n + 1) + 1] \in Seq(S)
    <3> DEFINE m == (n + 1) + 1
    <3>1. m \in 1 .. Len(tt) /\ m \in 1 .. Len(ss) /\ m # 1 /\ m - 1 = n + 1 /\ n + 1 <= Len(tt)
      BY <2>1
    <3>2. f[n + 1] = g[n + 1] /\ f[n + 1] \in Seq(S) BY <1>2, <3>1
    <3> HIDE DEF m
    <3>3. f[m] = f[m - 1] \o ss[m] /\ g[m] = g[m - 1] \o tt[m]
      <4>1. f[m] = IF m = 1 THEN ss[m] ELSE f[m - 1] \o ss[m] BY <3>1, FlattenOne, ZenonT(40)
      <4>2. g[m] = IF m = 1 THEN tt[m] ELSE g[m - 1] \o tt[m] BY <3>1, FlattenOne, ZenonT(40)
      <4> QED BY <3>1, <4>1, <4>2, Zenon
    <3>4. f[m - 1] = g[m - 1] /\ f[m - 1] \in Seq(S) /\ ss[m] = tt[m] /\ ss[m] \in Seq(S)
      BY <1>0, <3>1, <3>2, Zenon
    <3>5. f[m] = g[m] /\ f[m] \in Seq(S) BY <3>3, <3>4
    <3> QED BY <3>5 DEF m
  <2> QED BY <2>1
<1>3. Nat \subseteq C
  <2> HIDE DEF C
  <2> QED BY <1>1, <1>2, Induct, Zenon
<1>4. k - 1 \in Nat /\ (k - 1) + 1 = k OBVIOUS
<1>5. k - 1 \in C
  <2> HIDE DEF C
  <2> QED BY <1>3, <1>4
<1>6. (k - 1) + 1 <= Len(tt) => f[(k - 1) + 1] = g[(k - 1) + 1] /\ f[(k - 1) + 1] \in Seq(S)
  BY <1>5
<1> QED BY <1>4, <1>6

LEMMA FlattenLast ==
  ASSUME NEW S, NEW ss \in Seq(Seq(S)), ss # <<>>
  PROVE  LET front == SubSeq(ss, 1, Len(ss) - 1)
         IN  /\ front \in Seq(Seq(S))
             /\ Logging!FlattenSeq(ss) = Logging!FlattenSeq(front) \o ss[Len(ss)]
             /\ Logging!FlattenSeq(ss) \in Seq(S)
<1> DEFINE N == Len(ss)
<1> DEFINE tt == SubSeq(ss, 1, N - 1)
<1> DEFINE F == CHOOSE f : Flattens(ss, f)
<1> DEFINE G == CHOOSE g : Flattens(tt, g)
<1>1. N \in Nat \ {0} /\ ss[N] \in Seq(S) OBVIOUS
<1>2. tt \in Seq(Seq(S)) /\ Len(tt) = N - 1 /\ \A i \in 1 .. (N - 1) : tt[i] = ss[i]
  <2> DEFINE T == Seq(S)
  <2>1. N - 1 \in 0 .. Len(ss) /\ ss \in Seq(T) BY <1>1
  <2> HIDE DEF N, T
  <2>2. tt \in Seq(T) /\ Len(tt) = N - 1 /\ \A i \in 1 .. (N - 1) : tt[i] = ss[i] BY <2>1
  <2> QED BY <2>2 DEF T
<1>3. Flattens(ss, F) BY FlattenExists
<1>4. Logging!FlattenSeq(ss) = F[N] BY <1>1, FlattenIs
<1> HIDE DEF F, tt
<1>5. F[N] = IF N = 1 THEN ss[N] ELSE F[N - 1] \o ss[N]
  <2>1. N \in 1 .. Len(ss) BY <1>1
  <2> HIDE DEF N
  <2> QED BY <1>3, <2>1, FlattenOne
<1>6. CASE N = 1
  <2>1. Len(tt) = 0 /\ tt = <<>> BY <1>2, <1>6
  <2>2. Logging!FlattenSeq(tt) = <<>> BY <2>1 DEF Logging!FlattenSeq
  <2>3. Logging!FlattenSeq(ss) = ss[N] BY <1>4, <1>5, <1>6
  <2> HIDE DEF N
  <2>4. <<>> \o ss[N] = ss[N] BY <1>1
  <2> QED BY <1>1, <1>2, <2>2, <2>3, <2>4, Zenon DEF tt, N
<1>7. CASE N # 1
  <2>1. tt # <<>> /\ N - 1 \in 1 .. Len(tt) /\ Len(tt) # 0 BY <1>1, <1>2, <1>7
  <2>2. Flattens(tt, G) BY <1>2, <2>1, FlattenExists
  <2>3. Logging!FlattenSeq(tt) = G[N - 1] BY <1>2, <2>1, FlattenIs, Zenon
  <2> HIDE DEF G
  <2>4. F[N - 1] = G[N - 1] /\ F[N - 1] \in Seq(S)
    <3>1. Len(tt) <= Len(ss) /\ \A i \in 1 .. Len(tt) : tt[i] = ss[i] BY <1>1, <1>2
    <3> HIDE DEF N
    <3> QED BY <1>2, <1>3, <2>1, <2>2, <3>1, FlattenSame, Zenon
  <2> HIDE DEF N
  <2>5. Logging!FlattenSeq(ss) = Logging!FlattenSeq(tt) \o ss[N]
    BY <1>4, <1>5, <1>7, <2>3, <2>4, Zenon
  <2>6. F[N] = F[N - 1] \o ss[N] BY <1>5, <1>7, Zenon
  <2>7. Logging!FlattenSeq(ss) \in Seq(S) BY <1>1, <1>4, <2>4, <2>6
  <2> QED BY <1>2, <2>5, <2>7 DEF tt, N
<1> QED BY <1>6, <1>7, Zenon
LEMMA Cut ==
  ASSUME NEW T, NEW s \in Seq(T), s # <<>>
  PROVE  LET n == Len(s)
             front == SubSeq(s, 1, n - 1)
             tail == SubSeq(s, 2, n)
         IN  /\ n \in Nat /\ n >= 1 /\ s[1] \in T /\ s[n] \in T
             /\ front \in Seq(T) /\ Len(front) = n - 1 /\ tail \in Seq(T) /\ Len(tail) = n - 1
             /\ n = 1 => front = <<>> /\ tail = <<>>
             /\ n > 1 => /\ front # <<>> /\ front[1] = s[1] /\ tail # <<>> /\ tail[n - 1] = s[n]
                         /\ SubSeq(front, 2, n - 1) = SubSeq(tail, 1, n - 2)
<1> DEFINE n == Len(s)
<1> DEFINE front == SubSeq(s, 1, n - 1)
<1> DEFINE tail == SubSeq(s, 2, n)
<1>1. n \in Nat /\ n >= 1 /\ s[1] \in T /\ s[n] \in T OBVIOUS
<1>2. n = Len(s) OBVIOUS
<1> HIDE DEF n
<1>3. front \in Seq(T) /\ Len(front) = n - 1 /\ \A i \in 1 .. (n - 1) : front[i] = s[i]
  BY <1>1, <1>2
<1>4. tail \in Seq(T) /\ Len(tail) = n - 1 /\ \A i \in 1 .. (n - 1) : tail[i] = s[i + 1]
  BY <1>1, <1>2
<1>5. n = 1 => front = <<>> /\ tail = <<>> BY <1>1, <1>2
<1> HIDE DEF front, tail
<1>6. ASSUME n > 1 PROVE SubSeq(front, 2, n - 1) = SubSeq(tail, 1, n - 2)
  <2> DEFINE a == SubSeq(front, 2, n - 1)
  <2> DEFINE b == SubSeq(tail, 1, n - 2)
  <2>1. a \in Seq(T) /\ Len(a) = n - 2 /\ \A i \in 1 .. (n - 2) : a[i] = front[i + 1]
    BY <1>1, <1>3, <1>6
  <2>2. b \in Seq(T) /\ Len(b) = n - 2 /\ \A i \in 1 .. (n - 2) : b[i] = tail[i]
    BY <1>1, <1>4, <1>6
  <2>3. \A i \in 1 .. (n - 2) : front[i + 1] = tail[i] BY <1>1, <1>3, <1>4
  <2> HIDE DEF a, b
  <2>4. a = b BY <1>1, <2>1, <2>2, <2>3
  <2> QED BY <2>4, Zenon DEF a, b
<1>7. ASSUME n > 1 PROVE front # <<>> /\ front[1] = s[1] /\ tail # <<>> /\ tail[n - 1] = s[n]
  BY <1>1, <1>3, <1>4, <1>7
<1> QED BY <1>1, <1>3, <1>4, <1>5, <1>6, <1>7 DEF n, front, tail

FirstApart(tt) == Logging!FlattenSeq(tt) = tt[1] \o Logging!FlattenSeq(SubSeq(tt, 2, Len(tt)))

LEMMA FlattenNone == Logging!FlattenSeq(<<>>) = <<>>
BY DEF Logging!FlattenSeq

LEMMA FlattenSeqs ==
  ASSUME NEW S, NEW ss \in Seq(Seq(S))
  PROVE  Logging!FlattenSeq(ss) \in Seq(S)
<1>1. CASE ss = <<>>
  <2>1. <<>> \in Seq(S) OBVIOUS
  <2> QED BY <1>1, <2>1, FlattenNone, Zenon
<1>2. CASE ss # <<>> BY <1>2, FlattenLast, Zenon
<1> QED BY <1>1, <1>2

LEMMA FlattenFirst ==
  ASSUME NEW S, NEW ss \in Seq(Seq(S)), ss # <<>>
  PROVE  FirstApart(ss)
<1> DEFINE T == Seq(S)
<1> DEFINE C == {n \in Nat : \A tt \in Seq(T) : Len(tt) = n + 1 => FirstApart(tt)}
<1>1. ASSUME NEW tt \in Seq(T), Len(tt) = 1 PROVE FirstApart(tt)
  <2>1. tt # <<>>
    <3>1. Len(<<>>) = 0 /\ 1 # 0 OBVIOUS
    <3> QED BY <1>1, <3>1, Zenon
  <2>2. tt[1] \in T /\ SubSeq(tt, 1, Len(tt) - 1) = <<>> /\ SubSeq(tt, 2, Len(tt)) = <<>>
    <3> HIDE DEF T
    <3> QED BY <1>1, <2>1, Cut
  <2>3. Logging!FlattenSeq(tt) = Logging!FlattenSeq(<<>>) \o tt[1]
    BY <1>1, <2>1, <2>2, FlattenLast, Zenon
  <2>4. <<>> \o tt[1] = tt[1] /\ tt[1] \o <<>> = tt[1] BY <2>2
  <2> QED BY <2>2, <2>3, <2>4, FlattenNone, Zenon DEF FirstApart
<1>2. ASSUME NEW n \in Nat, n \in C, NEW tt \in Seq(T), Len(tt) = (n + 1) + 1
      PROVE  FirstApart(tt)
  <2> DEFINE N == Len(tt)
  <2> DEFINE front == SubSeq(tt, 1, N - 1)
  <2> DEFINE tail == SubSeq(tt, 2, N)
  <2> DEFINE mid == SubSeq(tail, 1, N - 2)
  <2>1. tt # <<>> /\ N = n + 2 /\ N > 1 BY <1>2
  <2>2. /\ N \in Nat /\ tt[1] \in T /\ tt[N] \in T
        /\ front \in Seq(T) /\ Len(front) = N - 1 /\ tail \in Seq(T) /\ Len(tail) = N - 1
        /\ front # <<>> /\ front[1] = tt[1] /\ tail # <<>> /\ tail[N - 1] = tt[N]
        /\ SubSeq(front, 2, N - 1) = mid
    <3> HIDE DEF T
    <3> QED BY <2>1, Cut, Zenon
  <2>3. N - 1 - 1 = N - 2 /\ N - 1 = n + 1 BY <1>2, <2>1, <2>2
  <2>4. SubSeq(tail, 1, Len(tail) - 1) = mid BY <2>2, <2>3
  <2>5. tt[1] \in Seq(S) /\ tt[N] \in Seq(S) BY <2>2
  <2> HIDE DEF mid
  <2> HIDE DEF front
  <2>6. FirstApart(front)
    <3> HIDE DEF N, T
    <3> QED BY <1>2, <2>2, <2>3
  <2>7. Logging!FlattenSeq(tt) = Logging!FlattenSeq(front) \o tt[N] BY <2>1, FlattenLast, Zenon DEF front
  <2> HIDE DEF tail
  <2>8. /\ Logging!FlattenSeq(tail) = Logging!FlattenSeq(mid) \o tt[N]
        /\ mid \in Seq(Seq(S))
    <3>1. tail \in Seq(Seq(S)) BY <2>2
    <3> HIDE DEF T, N
    <3>2. SubSeq(tail, 1, Len(tail) - 1) \in Seq(Seq(S))
          /\ Logging!FlattenSeq(tail)
             = Logging!FlattenSeq(SubSeq(tail, 1, Len(tail) - 1)) \o tail[Len(tail)]
      BY <3>1, <2>2, FlattenLast, Zenon
    <3> QED BY <3>2, <2>2, <2>4, Zenon
  <2>9. Logging!FlattenSeq(mid) \in Seq(S) BY <2>8, FlattenSeqs
  <2> HIDE DEF N, T
  <2>10. Logging!FlattenSeq(front) = tt[1] \o Logging!FlattenSeq(mid)
    BY <2>2, <2>6, Zenon DEF FirstApart
  <2> DEFINE m == Logging!FlattenSeq(mid)
  <2>11. (tt[1] \o m) \o tt[N] = tt[1] \o (m \o tt[N])
    <3>1. m \in Seq(S) BY <2>9
    <3> HIDE DEF m
    <3>2. IsSeq(tt[1]) /\ IsSeq(m) /\ IsSeq(tt[N]) BY <2>5, <3>1, SeqOf
    <3>3. Associates(tt[1], m, tt[N]) BY <3>2, Associated, Zenon
    <3> QED BY <3>3 DEF Associates
  <2> QED BY <2>7, <2>8, <2>10, <2>11, Zenon DEF FirstApart, tail, N
<1>3. Nat \subseteq C
  <2>1. 0 \in C
    <3> HIDE DEF T
    <3> QED BY <1>1
  <2>2. ASSUME NEW n \in Nat, n \in C PROVE n + 1 \in C
    <3>1. \A tt \in Seq(T) : Len(tt) = (n + 1) + 1 => FirstApart(tt) BY <1>2, <2>2, Zenon
    <3> HIDE DEF T
    <3> QED BY <3>1
  <2> HIDE DEF C
  <2> QED BY <2>1, <2>2, Induct, Zenon
<1>4. Len(ss) - 1 \in Nat /\ (Len(ss) - 1) + 1 = Len(ss) OBVIOUS
<1>5. Len(ss) - 1 \in C
  <2> HIDE DEF C
  <2> QED BY <1>3, <1>4
<1> QED BY <1>4, <1>5

\* Sequences of sequences.
IsLists(ss) == IsSeq(ss) /\ \A i \in 1 .. Len(ss) : IsSeq(ss[i])

LEMMA ListsOf ==
  ASSUME NEW ss, IsLists(ss)
  PROVE  \E S : ss \in Seq(Seq(S))
<1> DEFINE elements(s) == {s[k] : k \in DOMAIN s}
<1> DEFINE S == UNION {elements(ss[i]) : i \in 1 .. Len(ss)}
<1>1. ss \in Seq({ss[i] : i \in DOMAIN ss}) BY DEF IsLists, IsSeq
<1>2. Len(ss) \in Nat /\ ss \in [1 .. Len(ss) -> {ss[i] : i \in 1 .. Len(ss)}] BY <1>1
<1>3. ASSUME NEW i \in 1 .. Len(ss) PROVE ss[i] \in Seq(S)
  <2>1. ss[i] \in Seq(elements(ss[i])) BY DEF IsLists, IsSeq
  <2>2. elements(ss[i]) \subseteq S BY Zenon
  <2> HIDE DEF S, elements
  <2> QED BY <2>1, <2>2
<1> HIDE DEF S
<1>4. ss \in [1 .. Len(ss) -> Seq(S)] BY <1>2, <1>3
<1>5. ss \in Seq(Seq(S)) BY <1>2, <1>4
<1> QED BY <1>5

LEMMA FromPlace ==
  ASSUME NEW T, NEW s \in Seq(T), NEW j \in Nat, j < Len(s)
  PROVE  LET b == SubSeq(s, (j + 1) + 1, Len(s))
         IN  /\ b \in Seq(T) /\ Len(b) = Len(s) - j - 1
             /\ \A i \in 1 .. (Len(s) - j - 1) : b[i] = s[j + (i + 1)]
OBVIOUS

LEMMA SubSub ==
  ASSUME NEW T, NEW s \in Seq(T), NEW j \in Nat, j < Len(s)
  PROVE  LET r == SubSeq(s, j + 1, Len(s))
             d == SubSeq(s, 1, j + 1)
         IN  /\ SubSeq(r, 2, Len(r)) = SubSeq(s, (j + 1) + 1, Len(s))
             /\ SubSeq(d, 1, Len(d) - 1) = SubSeq(s, 1, j)
<1> DEFINE n == Len(s)
<1> DEFINE r == SubSeq(s, j + 1, n)
<1> DEFINE d == SubSeq(s, 1, j + 1)
<1>1. n \in Nat /\ n = Len(s) OBVIOUS
<1> HIDE DEF n
<1>2. r \in Seq(T) /\ Len(r) = n - j /\ \A i \in 1 .. (n - j) : r[i] = s[j + i] BY <1>1
<1>3. d \in Seq(T) /\ Len(d) = j + 1 /\ \A i \in 1 .. (j + 1) : d[i] = s[i] BY <1>1
<1> HIDE DEF r, d
<1>4. SubSeq(r, 2, Len(r)) = SubSeq(s, (j + 1) + 1, n)
  <2> DEFINE a == SubSeq(r, 2, Len(r))
  <2> DEFINE b == SubSeq(s, (j + 1) + 1, n)
  <2>1. a \in Seq(T) /\ Len(a) = n - j - 1 /\ \A i \in 1 .. (n - j - 1) : a[i] = r[i + 1]
    BY <1>1, <1>2
  <2>2. b \in Seq(T) /\ Len(b) = n - j - 1 /\ \A i \in 1 .. (n - j - 1) : b[i] = s[j + (i + 1)]
    BY <1>1, FromPlace
  <2> HIDE DEF a, b
  <2>3. \A i \in 1 .. (n - j - 1) : r[i + 1] = s[j + (i + 1)] BY <1>1, <1>2
  <2>4. \A i \in 1 .. (n - j - 1) : a[i] = b[i] BY <2>1, <2>2, <2>3, Zenon
  <2>5. n - j - 1 \in Nat BY <1>1
  <2>6. a = b BY <2>1, <2>2, <2>4, <2>5
  <2> QED BY <2>6, Zenon DEF a, b
<1>5. SubSeq(d, 1, Len(d) - 1) = SubSeq(s, 1, j)
  <2> DEFINE a == SubSeq(d, 1, Len(d) - 1)
  <2> DEFINE b == SubSeq(s, 1, j)
  <2>1. a \in Seq(T) /\ Len(a) = j /\ \A i \in 1 .. j : a[i] = d[i] BY <1>1, <1>3
  <2>2. b \in Seq(T) /\ Len(b) = j /\ \A i \in 1 .. j : b[i] = s[i] BY <1>1
  <2> HIDE DEF a, b
  <2>3. a = b BY <1>1, <1>3, <2>1, <2>2
  <2> QED BY <2>3 DEF a, b
<1> QED BY <1>4, <1>5 DEF n, r, d

LEMMA FlattenParts ==
  ASSUME NEW ss, IsLists(ss), NEW j \in 0 .. Len(ss)
  PROVE  /\ IsSeq(Rest(ss, j)) /\ IsSeq(Done(ss, j)) /\ Len(ss) \in Nat
         /\ j = Len(ss) => Rest(ss, j) = <<>> /\ Done(ss, j) = Logging!FlattenSeq(ss)
         /\ j = 0 => Rest(ss, j) = Logging!FlattenSeq(ss) /\ Done(ss, j) = <<>>
         /\ j < Len(ss) => /\ Rest(ss, j) = ss[j + 1] \o Rest(ss, j + 1)
                           /\ Done(ss, j + 1) = Done(ss, j) \o ss[j + 1]
<1> DEFINE N == Len(ss)
<1> DEFINE flat(tt) == Logging!FlattenSeq(tt)
<1>1. PICK S : ss \in Seq(Seq(S)) BY ListsOf
<1> DEFINE T == Seq(S)
<1>2. N \in Nat /\ ss \in Seq(T) BY <1>1
<1>3. flat(<<>>) = <<>> BY FlattenNone
<1>4. ASSUME NEW tt \in Seq(T) PROVE flat(tt) \in Seq(S)
  BY <1>4, FlattenSeqs
<1>5. \A k \in 0 .. N : /\ SubSeq(ss, k + 1, N) \in Seq(T) /\ SubSeq(ss, 1, k) \in Seq(T)
                        /\ Len(SubSeq(ss, k + 1, N)) = N - k /\ Len(SubSeq(ss, 1, k)) = k
                        /\ \A i \in 1 .. k : SubSeq(ss, 1, k)[i] = ss[i]
                        /\ \A i \in 1 .. (N - k) : SubSeq(ss, k + 1, N)[i] = ss[k + i]
  <2> SUFFICES ASSUME NEW k \in 0 .. N
               PROVE  /\ SubSeq(ss, k + 1, N) \in Seq(T) /\ SubSeq(ss, 1, k) \in Seq(T)
                      /\ Len(SubSeq(ss, k + 1, N)) = N - k /\ Len(SubSeq(ss, 1, k)) = k
                      /\ \A i \in 1 .. k : SubSeq(ss, 1, k)[i] = ss[i]
                      /\ \A i \in 1 .. (N - k) : SubSeq(ss, k + 1, N)[i] = ss[k + i]
    OBVIOUS
  <2>1. N = Len(ss) OBVIOUS
  <2> HIDE DEF N, T
  <2>2. SubSeq(ss, k + 1, N) \in Seq(T) /\ SubSeq(ss, 1, k) \in Seq(T) BY <1>2, <2>1
  <2>3. Len(SubSeq(ss, k + 1, N)) = N - k /\ Len(SubSeq(ss, 1, k)) = k BY <1>2, <2>1
  <2>4. \A i \in 1 .. k : SubSeq(ss, 1, k)[i] = ss[i] BY <1>2, <2>1
  <2>5. \A i \in 1 .. (N - k) : SubSeq(ss, k + 1, N)[i] = ss[k + i] BY <1>2, <2>1
  <2> QED BY <2>2, <2>3, <2>4, <2>5
<1>6. IsSeq(Rest(ss, j)) /\ IsSeq(Done(ss, j)) BY <1>4, <1>5, SeqOf, Zenon DEF Rest, Done
<1>7. ASSUME j = N PROVE Rest(ss, j) = <<>> /\ Done(ss, j) = flat(ss)
  <2>1. SubSeq(ss, j + 1, N) = <<>>
    <3> HIDE DEF T
    <3> QED BY <1>2, <1>7
  <2>2. SubSeq(ss, 1, j) = ss
    <3> HIDE DEF T
    <3> QED BY <1>2, <1>7
  <2> QED BY <1>3, <2>1, <2>2, Zenon DEF Rest, Done
<1>8. ASSUME j = 0 PROVE Rest(ss, j) = flat(ss) /\ Done(ss, j) = <<>>
  <2>1. SubSeq(ss, 1, N) = ss /\ j + 1 = 1
    <3> HIDE DEF T
    <3> QED BY <1>2, <1>8
  <2>2. SubSeq(ss, 1, j) = <<>>
    <3> HIDE DEF T
    <3> QED BY <1>2, <1>8
  <2> HIDE DEF N
  <2> QED BY <1>3, <2>1, <2>2, Zenon DEF Rest, Done, N
<1>9. ASSUME j < N
      PROVE  Rest(ss, j) = ss[j + 1] \o Rest(ss, j + 1) /\ Done(ss, j + 1) = Done(ss, j) \o ss[j + 1]
  <2> DEFINE r == SubSeq(ss, j + 1, N)
  <2> DEFINE d == SubSeq(ss, 1, j + 1)
  <2>1. j \in Nat /\ j + 1 \in 0 .. N /\ j \in 0 .. N /\ 1 \in 1 .. (N - j) /\ j + 1 \in 1 .. (j + 1)
    BY <1>2, <1>9
  <2>2. r \in Seq(T) /\ Len(r) = N - j /\ r[1] = ss[j + 1] /\ d \in Seq(T) /\ Len(d) = j + 1
        /\ d[j + 1] = ss[j + 1]
    <3> HIDE DEF N, T
    <3> QED BY <1>5, <2>1
  <2>3. SubSeq(r, 2, Len(r)) = SubSeq(ss, (j + 1) + 1, N) /\ SubSeq(d, 1, Len(d) - 1) = SubSeq(ss, 1, j)
    <3> HIDE DEF T, N
    <3>1. N = Len(ss) BY DEF N
    <3> QED BY <1>2, <1>9, <2>1, <2>2, <3>1, SubSub, Zenon
  <2>5. r # <<>> /\ d # <<>>
    <3> HIDE DEF T, N, r, d
    <3> QED BY <1>2, <1>9, <2>1, <2>2
  <2> HIDE DEF r, d, N
  <2>6. Logging!FlattenSeq(r) = r[1] \o Logging!FlattenSeq(SubSeq(r, 2, Len(r)))
    BY <2>2, <2>5, FlattenFirst, Zenon DEF FirstApart
  <2>7. Logging!FlattenSeq(d) = Logging!FlattenSeq(SubSeq(d, 1, Len(d) - 1)) \o d[Len(d)]
    BY <2>2, <2>5, FlattenLast, Zenon
  <2> QED BY <2>2, <2>3, <2>6, <2>7, Zenon DEF Rest, Done, r, d, N
<1> QED BY <1>2, <1>6, <1>7, <1>8, <1>9, Zenon

LEMMA RepeatSeq ==
  ASSUME NEW c, NEW n \in Int
  PROVE  IsSeq(Logging!Repeat(c, n))
<1> DEFINE m == IF n < 0 THEN 0 ELSE n
<1> DEFINE s == Logging!Repeat(c, n)
<1>1. m \in Nat /\ 1 .. n = 1 .. m OBVIOUS
<1> HIDE DEF m
<1>2. s = [i \in 1 .. m |-> s[i]] BY <1>1 DEF Logging!Repeat
<1> HIDE DEF s
<1>3. IsSeq(s) BY <1>1, <1>2, IsList
<1> QED BY <1>3 DEF s

LEMMA DigitsSeq ==
  ASSUME NEW v, NEW base, NEW upper, \E n \in 1 .. WordSize : Logging!HasPlaces(v, base, n)
  PROVE  IsSeq(Logging!Digits(v, base, upper))
<1> DEFINE n == Logging!Places(v, base)
<1> DEFINE s == Logging!Digits(v, base, upper)
<1>1. n \in Nat BY DEF Logging!Places
<1> HIDE DEF n
<1>2. s = [i \in 1 .. n |-> s[i]] BY DEF Logging!Digits, n
<1> HIDE DEF s
<1>3. IsSeq(s) BY <1>1, <1>2, IsList
<1> QED BY <1>3 DEF s

LEMMA SpelledSeq ==
  ASSUME NEW n
  PROVE  IsSeq(Logging!Spelled(n))
<1>1. ASSUME NEW x, NEW y PROVE IsSeq(<<x>>) /\ IsSeq(<<x, y>>)
  <2>1. <<x>> \in Seq({x}) /\ <<x, y>> \in Seq({x, y}) OBVIOUS
  <2> QED BY <2>1, SeqOf, Zenon
<1> QED BY <1>1, Zenon DEF Logging!Spelled

LEMMA EmptySeq == IsSeq(<<>>) /\ Len(<<>>) = 0
<1>1. <<>> \in Seq({}) /\ Len(<<>>) = 0 OBVIOUS
<1> QED BY <1>1, SeqOf, Zenon

LEMMA OneSeq ==
  ASSUME NEW x
  PROVE  IsSeq(<<x>>) /\ Len(<<x>>) = 1
<1>1. <<x>> \in Seq({x}) /\ Len(<<x>>) = 1 OBVIOUS
<1> QED BY <1>1, SeqOf, Zenon

\* What a conversion prints is a sequence.
LEMMA FieldSeq ==
  ASSUME NEW p, NEW arg, Logging!IsPiece(p), Logging!TakesArgument(p.letter), Fits(p.letter, arg)
  PROVE  IsSeq(Logging!Field(p, arg))
<1> DEFINE minus == p.letter \in Logging!Signed /\ Logging!Negative(arg)
<1> DEFINE number == Logging!Digits(Logging!Magnitude(arg, p.letter \in Logging!Signed),
                                    Logging!Base(p.letter), p.letter = "X")
<1> DEFINE body == CASE p.letter \in Logging!Numbers -> number
                     [] p.letter = "c" -> <<arg>>
                     [] p.letter = "s" -> arg
<1> DEFINE sign == IF minus THEN <<Logging!Ch("-")>> ELSE <<>>
<1> DEFINE missing == p.width - Len(body) - Len(sign)
<1> DEFINE zeros == Logging!Repeat(Logging!Digit(0), missing)
<1> DEFINE blanks == Logging!Repeat(Logging!Ch(" "), missing)
<1>1. p.letter \in Logging!Numbers => IsSeq(number) BY DigitsSeq DEF Fits
<1>2. p.letter = "s" => IsSeq(arg) BY DEF Fits
<1>3. p.letter \in Logging!Numbers \/ p.letter = "c" \/ p.letter = "s" BY DEF Logging!TakesArgument
<1>4. p.letter \notin {"c", "s"} \/ p.letter \notin Logging!Numbers
  BY DEF Logging!Numbers, Logging!Signed
<1> HIDE DEF number
<1>5. IsSeq(body) BY <1>1, <1>2, <1>3, <1>4, OneSeq
<1>6. IsSeq(sign) BY OneSeq, EmptySeq
<1>7. Logging!Field(p, arg) = IF p.letter \in Logging!Numbers /\ p.zero THEN (sign \o zeros) \o body
                              ELSE (blanks \o sign) \o body
  BY DEF Logging!Field, number
<1> HIDE DEF body, sign
<1>8. Len(body) \in Nat /\ Len(sign) \in Nat BY <1>5, <1>6, Joined
<1>9. missing \in Int
  <2>1. p.width \in Int BY DEF Logging!IsPiece
  <2> QED BY <1>8, <2>1
<1> HIDE DEF missing
<1>10. IsSeq(zeros) /\ IsSeq(blanks)
  <2>1. \A c : IsSeq(Logging!Repeat(c, missing)) BY <1>9, RepeatSeq
  <2> QED BY <2>1, Zenon
<1> HIDE DEF zeros, blanks
<1>11. IsSeq((sign \o zeros) \o body) /\ IsSeq((blanks \o sign) \o body)
  BY <1>5, <1>6, <1>10, Joined
<1> QED BY <1>7, <1>11

\* A message's spelling and what should come out of it, piece by piece.
LEMMA RenderedSeqs ==
  ASSUME NEW pieces, NEW given, IsMessage(pieces, given)
  PROVE  /\ IsLists(Renderings(pieces, given)) /\ Len(Renderings(pieces, given)) = Len(pieces)
         /\ Len(pieces) \in Nat /\ DOMAIN pieces = 1 .. Len(pieces)
         /\ \A i \in 1 .. Len(pieces) : Renderings(pieces, given)[i] = RenderedAt(pieces, given, i)
         /\ Logging!Rendered(pieces, given) = Logging!FlattenSeq(Renderings(pieces, given))
<1> DEFINE r == Renderings(pieces, given)
<1> DEFINE N == Len(pieces)
<1>1. N \in Nat /\ DOMAIN pieces = 1 .. N
  <2>1. IsSeq(pieces) BY Zenon DEF IsMessage
  <2> QED BY <2>1 DEF IsSeq
<1>2. ASSUME NEW i \in 1 .. N PROVE IsSeq(RenderedAt(pieces, given, i))
  <2>1. Logging!IsPiece(pieces[i])
        /\ (Logging!TakesArgument(pieces[i].letter) =>
              Fits(pieces[i].letter, given[Logging!Consumed(pieces, i)]))
    BY <1>2, Zenon DEF IsMessage
  <2>2. Logging!TakesArgument(pieces[i].letter)
          => IsSeq(Logging!Field(pieces[i], given[Logging!Consumed(pieces, i)]))
    BY <2>1, FieldSeq
  <2>3. IsSeq(<<Logging!Ch(pieces[i].letter)>>) /\ IsSeq(<<>>) BY OneSeq, EmptySeq
  <2>4. RenderedAt(pieces, given, i) \in
          {<<Logging!Ch(pieces[i].letter)>>, <<>>}
        \/ (Logging!TakesArgument(pieces[i].letter)
            /\ RenderedAt(pieces, given, i)
                 = Logging!Field(pieces[i], given[Logging!Consumed(pieces, i)]))
    BY DEF RenderedAt
  <2> QED BY <2>2, <2>3, <2>4
<1>3. r = [i \in 1 .. N |-> RenderedAt(pieces, given, i)] BY <1>1 DEF Renderings
<1>4. Logging!Rendered(pieces, given) = Logging!FlattenSeq(r)
  BY DEF Logging!Rendered, Renderings, RenderedAt
<1> HIDE DEF r, N
<1>5. r = [i \in 1 .. N |-> r[i]] BY <1>3
<1>6. IsSeq(r) /\ Len(r) = N BY <1>1, <1>5, IsList
<1>7. \A i \in 1 .. N : r[i] = RenderedAt(pieces, given, i) BY <1>3
<1>8. IsLists(r) BY <1>2, <1>6, <1>7 DEF IsLists
<1> QED BY <1>1, <1>4, <1>6, <1>7, <1>8 DEF r, N

\* A format, piece by piece.
LEMMA SpellingSeq ==
  ASSUME NEW p
  PROVE  IsSeq(Logging!Spelling(p))
<1> DEFINE z == IF p.zero THEN <<Logging!Digit(0)>> ELSE <<>>
<1> DEFINE w == IF p.width = -1 THEN <<>> ELSE Logging!Spelled(p.width)
<1> DEFINE a == IF p.after = -1 THEN <<>> ELSE <<Logging!Ch(".")>> \o Logging!Spelled(p.after)
<1> DEFINE l == IF p.long THEN <<Logging!Ch("l")>> ELSE <<>>
<1> DEFINE t == IF p.letter = "" THEN <<>> ELSE <<Logging!Ch(p.letter)>>
<1>1. IsSeq(z) /\ IsSeq(l) BY OneSeq, EmptySeq
<1>2. IsSeq(w) BY SpelledSeq, EmptySeq
<1>3. IsSeq(a)
  <2>1. IsSeq(<<Logging!Ch(".")>>) /\ IsSeq(Logging!Spelled(p.after)) /\ IsSeq(<<>>)
    BY OneSeq, SpelledSeq, EmptySeq
  <2>2. IsSeq(<<Logging!Ch(".")>> \o Logging!Spelled(p.after)) BY <2>1, Joined
  <2> QED BY <2>1, <2>2
<1>4. IsSeq(t) BY OneSeq, EmptySeq, Zenon
<1>5. IsSeq(<<Logging!Ch("%")>>) /\ IsSeq(<<Logging!Ch("literal")>>) BY OneSeq
<1>6. Logging!Spelling(p) = IF p.letter = "literal" THEN <<Logging!Ch("literal")>>
        ELSE ((((<<Logging!Ch("%")>> \o z) \o w) \o a) \o l) \o t
  BY Zenon DEF Logging!Spelling
<1> HIDE DEF z, w, a, l, t
<1>7. IsSeq(((((<<Logging!Ch("%")>> \o z) \o w) \o a) \o l) \o t)
  BY <1>1, <1>2, <1>3, <1>4, <1>5, Joined
<1> QED BY <1>5, <1>6, <1>7

LEMMA SpellingFrom ==
  ASSUME NEW p, NEW rest, IsSeq(rest), p.letter # "literal"
  PROVE  /\ Logging!Spelling(p) \o rest = <<Logging!Ch("%")>> \o FromZero(p, rest)
         /\ IsSeq(FromZero(p, rest)) /\ IsSeq(FromWidth(p, rest)) /\ IsSeq(FromAfter(p, rest))
         /\ IsSeq(FromLong(p, rest)) /\ IsSeq(Letters(p, rest))
<1> DEFINE z == IF p.zero THEN <<Logging!Digit(0)>> ELSE <<>>
<1> DEFINE w == IF p.width = -1 THEN <<>> ELSE Logging!Spelled(p.width)
<1> DEFINE dot == <<Logging!Ch(".")>>
<1> DEFINE digits == Logging!Spelled(p.after)
<1> DEFINE a == IF p.after = -1 THEN <<>> ELSE dot \o digits
<1> DEFINE l == IF p.long THEN <<Logging!Ch("l")>> ELSE <<>>
<1> DEFINE t == IF p.letter = "" THEN <<>> ELSE <<Logging!Ch(p.letter)>>
<1> DEFINE x == <<Logging!Ch("%")>>
<1>1. IsSeq(z) /\ IsSeq(l) BY OneSeq, EmptySeq
<1>2. IsSeq(w) BY SpelledSeq, EmptySeq
<1>3. IsSeq(dot) /\ IsSeq(digits) /\ IsSeq(<<>>) BY OneSeq, SpelledSeq, EmptySeq
<1>4. IsSeq(t) BY OneSeq, EmptySeq, Zenon
<1>5. IsSeq(x) BY OneSeq
<1>6. Logging!Spelling(p) = ((((x \o z) \o w) \o a) \o l) \o t
  BY Zenon DEF Logging!Spelling
<1>7. \A r : IsSeq(r) => <<>> \o r = r BY Joined
<1>8. Letters(p, rest) = t \o rest BY <1>7, Zenon DEF Letters
<1>9. FromLong(p, rest) = l \o Letters(p, rest) /\ IsSeq(Letters(p, rest))
  <2>1. IsSeq(Letters(p, rest)) BY <1>4, <1>8, Joined, ZenonT(40)
  <2> QED BY <1>7, <2>1, Zenon DEF FromLong
<1>10. IsSeq(FromLong(p, rest)) BY <1>1, <1>9, Joined, Zenon
<1>11. FromAfter(p, rest) = a \o FromLong(p, rest) /\ IsSeq(a)
  <2>1. Associates(dot, digits, FromLong(p, rest)) BY <1>3, <1>10, Associated, Zenon
  <2>2. (dot \o digits) \o FromLong(p, rest) = dot \o (digits \o FromLong(p, rest))
    BY <2>1, Zenon DEF Associates
  <2>3. IsSeq(dot \o digits) BY <1>3, Joined
  <2>4. FromAfter(p, rest) = IF p.after = -1 THEN FromLong(p, rest)
                             ELSE dot \o (digits \o FromLong(p, rest))
    BY DEF FromAfter
  <2> HIDE DEF dot, digits
  <2>5. CASE p.after = -1 BY <1>3, <1>7, <1>10, <2>4, <2>5, Zenon
  <2>6. CASE p.after # -1 BY <2>2, <2>3, <2>4, <2>6, Zenon
  <2> QED BY <2>5, <2>6
<1> HIDE DEF dot, digits
<1>12. IsSeq(FromAfter(p, rest)) BY <1>10, <1>11, Joined, ZenonT(40)
<1>13. FromWidth(p, rest) = w \o FromAfter(p, rest) BY <1>7, <1>12, Zenon DEF FromWidth
<1>14. IsSeq(FromWidth(p, rest)) BY <1>2, <1>12, <1>13, Joined, ZenonT(40)
<1>15. FromZero(p, rest) = z \o FromWidth(p, rest) BY <1>7, <1>14, Zenon DEF FromZero
<1>16. IsSeq(FromZero(p, rest)) BY <1>1, <1>14, <1>15, Joined, ZenonT(40)
<1>17. Logging!Spelling(p) \o rest = x \o FromZero(p, rest)
  <2> HIDE DEF x, z, w, a, l, t
  <2>1. IsSeq(x \o z) /\ IsSeq((x \o z) \o w) /\ IsSeq(((x \o z) \o w) \o a)
        /\ IsSeq((((x \o z) \o w) \o a) \o l)
    BY <1>1, <1>2, <1>5, <1>11, Joined
  <2>2. Associates((((x \o z) \o w) \o a) \o l, t, rest) BY <1>4, <2>1, Associated, Zenon
  <2>3. Associates(((x \o z) \o w) \o a, l, Letters(p, rest)) BY <1>1, <1>9, <2>1, Associated, Zenon
  <2>4. Associates((x \o z) \o w, a, FromLong(p, rest)) BY <1>10, <1>11, <2>1, Associated, Zenon
  <2>5. Associates(x \o z, w, FromAfter(p, rest)) BY <1>2, <1>12, <2>1, Associated, Zenon
  <2>6. Associates(x, z, FromWidth(p, rest)) BY <1>1, <1>5, <1>14, Associated, Zenon
  <2>7. (((((x \o z) \o w) \o a) \o l) \o t) \o rest = ((((x \o z) \o w) \o a) \o l) \o Letters(p, rest)
    BY <1>8, <2>2, Zenon DEF Associates
  <2>8. ((((x \o z) \o w) \o a) \o l) \o Letters(p, rest) = (((x \o z) \o w) \o a) \o FromLong(p, rest)
    BY <1>9, <2>3, Zenon DEF Associates
  <2>9. (((x \o z) \o w) \o a) \o FromLong(p, rest) = ((x \o z) \o w) \o FromAfter(p, rest)
    BY <1>11, <2>4, Zenon DEF Associates
  <2>10. ((x \o z) \o w) \o FromAfter(p, rest) = (x \o z) \o FromWidth(p, rest)
    BY <1>13, <2>5, Zenon DEF Associates
  <2>11. (x \o z) \o FromWidth(p, rest) = x \o FromZero(p, rest)
    BY <1>15, <2>6, Zenon DEF Associates
  <2> QED BY <1>6, <2>7, <2>8, <2>9, <2>10, <2>11, Zenon
<1> QED BY <1>9, <1>10, <1>12, <1>14, <1>16, <1>17 DEF x

\* One character of a conversion.
Modified(flags, c) ==
  CASE c[1] = "." -> [flags EXCEPT !.after = 0]
    [] c[1] = "l" -> flags
    [] c[1] = "digit" /\ flags.after >= 0 -> [flags EXCEPT !.after = @ * 10 + c[2]]
    [] c[1] = "digit" /\ flags.after < 0 -> [flags EXCEPT !.before = (IF @ < 0 THEN 0 ELSE @ * 10) + c[2]]
Modifies(p, flags, chars, rest) ==
  /\ chars # <<>> /\ Head(chars)[1] \in {".", "digit", "l"}
  /\ FlagTypes(Modified(flags, Head(chars)))
  /\ Converting(p, Modified(flags, Head(chars)), Tail(chars), rest)
Converts(p, flags, chars, rest) ==
  /\ chars # <<>> /\ p.letter # "" /\ Head(chars) = Logging!Ch(p.letter) /\ Tail(chars) = rest
  /\ Head(chars)[1] = p.letter /\ p.letter \notin {".", "digit", "l"}
  /\ flags.leadingZero = p.zero /\ flags.before = p.width
Outcome(p, flags, chars, rest) ==
  \/ p.letter = "" /\ chars = rest
  \/ Modifies(p, flags, chars, rest)
  \/ Converts(p, flags, chars, rest)

LEMMA SpelledParts ==
  ASSUME NEW n \in Nat, NEW x, IsSeq(x)
  PROVE  /\ n < 10 => Logging!Spelled(n) \o x = <<Logging!Digit(n)>> \o x
         /\ n >= 10 => Logging!Spelled(n) \o x
                         = <<Logging!Digit(n \div 10)>> \o (<<Logging!Digit(n % 10)>> \o x)
<1>1. ASSUME NEW a, NEW b PROVE <<a, b>> \o x = <<a>> \o (<<b>> \o x)
  <2>1. <<a, b>> = <<a>> \o <<b>>
    <3> DEFINE T == {a, b}
    <3>1. <<a>> \in Seq(T) /\ <<b>> \in Seq(T) /\ <<a, b>> \in Seq(T) OBVIOUS
    <3>2. Len(<<a>>) = 1 /\ Len(<<b>>) = 1 /\ Len(<<a, b>>) = 2 OBVIOUS
    <3>3. <<a>>[1] = a /\ <<b>>[1] = b /\ <<a, b>>[1] = a /\ <<a, b>>[2] = b OBVIOUS
    <3> DEFINE u == <<a>>
    <3> DEFINE v == <<b>>
    <3> DEFINE uv == <<a, b>>
    <3> HIDE DEF T, u, v, uv
    <3>4. u \o v \in Seq(T) /\ Len(u \o v) = 2 /\ (u \o v)[1] = a /\ (u \o v)[2] = b
      BY <3>1, <3>2, <3>3 DEF u, v, uv
    <3>5. uv \in Seq(T) /\ Len(uv) = 2 /\ uv[1] = a /\ uv[2] = b BY <3>1, <3>2, <3>3 DEF uv
    <3> DEFINE w == u \o v
    <3>6. w \in Seq(T) /\ Len(w) = 2 /\ w[1] = a /\ w[2] = b BY <3>4
    <3> HIDE DEF w
    <3>7. uv = w BY <3>5, <3>6
    <3> QED BY <3>7 DEF u, v, uv, w
  <2>2. Associates(<<a>>, <<b>>, x) BY OneSeq, Associated
  <2> QED BY <2>1, <2>2 DEF Associates
<1>2. CASE n < 10
  <2>1. Logging!Spelled(n) = <<Logging!Digit(n)>> /\ ~(n >= 10) BY <1>2 DEF Logging!Spelled
  <2> QED BY <2>1, Zenon
<1>3. CASE n >= 10
  <2>1. Logging!Spelled(n) = <<Logging!Digit(n \div 10), Logging!Digit(n % 10)>> /\ ~(n < 10)
    BY <1>3 DEF Logging!Spelled
  <2> QED BY <1>1, <2>1, Zenon
<1>4. n < 10 \/ n >= 10 OBVIOUS
<1> QED BY <1>2, <1>3, <1>4

LEMMA PieceTypes ==
  ASSUME NEW p, Logging!IsPiece(p)
  PROVE  /\ p.zero \in BOOLEAN /\ p.width \in Int /\ p.after \in Int
         /\ p.width = -1 \/ (p.width >= 1 /\ p.width <= 99)
         /\ p.after = -1 \/ (p.after >= 0 /\ p.after <= 99)
         /\ p.letter \notin {"digit", ".", "l"}
BY DEF Logging!IsPiece

LEMMA LetterOutcome ==
  ASSUME NEW p, NEW flags, NEW chars, NEW rest, Logging!IsPiece(p), IsSeq(rest),
         flags.leadingZero = p.zero, AtLetter(p, flags, chars, rest)
  PROVE  Outcome(p, flags, chars, rest)
<1>1. chars = Letters(p, rest) /\ flags.before = p.width BY DEF AtLetter
<1>2. CASE p.letter = "" BY <1>1, <1>2, Zenon DEF Outcome, Letters
<1>3. CASE p.letter # ""
  <2>1. chars = <<Logging!Ch(p.letter)>> \o rest BY <1>1, <1>3, Zenon DEF Letters
  <2>2. chars # <<>> /\ Head(chars) = Logging!Ch(p.letter) /\ Tail(chars) = rest
    BY <2>1, OneFirst
  <2>3. Head(chars)[1] = p.letter BY <2>2 DEF Logging!Ch
  <2>4. p.letter \notin {".", "digit", "l"} BY PieceTypes
  <2> QED BY <1>1, <1>3, <2>2, <2>3, <2>4, Zenon DEF Outcome, Converts
<1> QED BY <1>2, <1>3, Zenon

\* The character is a modifier, and leads to one of the places in a conversion.
LEMMA Leads ==
  ASSUME NEW p, NEW flags, NEW chars, NEW rest, NEW c, NEW next,
         chars = <<c>> \o next, IsSeq(next), c[1] \in {".", "digit", "l"},
         NEW flags2, flags2 = Modified(flags, c), FlagTypes(flags2), Converting(p, flags2, next, rest)
  PROVE  Outcome(p, flags, chars, rest)
<1>1. chars # <<>> /\ Head(chars) = c /\ Tail(chars) = next BY OneFirst
<1> QED BY <1>1, Zenon DEF Outcome, Modifies

LEMMA LongOutcome ==
  ASSUME NEW p, NEW flags, NEW chars, NEW rest, Logging!IsPiece(p), IsSeq(rest), p.letter # "literal",
         FlagTypes(flags), flags.leadingZero = p.zero, AtLong(p, flags, chars, rest)
  PROVE  Outcome(p, flags, chars, rest)
<1>1. chars = FromLong(p, rest) /\ flags.before = p.width BY DEF AtLong
<1>2. CASE ~p.long
  <2>1. chars = Letters(p, rest) BY <1>1, <1>2 DEF FromLong
  <2> QED BY <1>1, <2>1, LetterOutcome DEF AtLetter
<1>3. CASE p.long
  <2> DEFINE c == Logging!Ch("l")
  <2>1. chars = <<c>> \o Letters(p, rest) BY <1>1, <1>3 DEF FromLong
  <2>2. c[1] = "l" BY DEF Logging!Ch
  <2>3. Modified(flags, c) = flags BY <2>2 DEF Modified
  <2>4. Converting(p, flags, Letters(p, rest), rest) BY <1>1 DEF Converting, AtLetter
  <2>5. IsSeq(Letters(p, rest)) BY SpellingFrom
  <2> HIDE DEF c
  <2> QED BY <2>1, <2>2, <2>3, <2>4, <2>5, Leads, Zenon
<1> QED BY <1>2, <1>3

LEMMA DigitModifies ==
  ASSUME NEW flags, NEW d \in Nat, FlagTypes(flags)
  PROVE  LET c == Logging!Digit(d)
             flags2 == Modified(flags, c)
         IN  /\ c[1] = "digit" /\ FlagTypes(flags2) /\ flags2.leadingZero = flags.leadingZero
             /\ flags.after >= 0 => flags2.after = flags.after * 10 + d /\ flags2.before = flags.before
             /\ flags.after < 0 => /\ flags2.after = flags.after
                                   /\ flags2.before = (IF flags.before < 0 THEN 0 ELSE flags.before * 10) + d
<1> DEFINE c == Logging!Digit(d)
<1> DEFINE flags2 == Modified(flags, c)
<1>1. c[1] = "digit" /\ c[2] = d BY DEF Logging!Digit
<1> HIDE DEF c
<1>2. flags = [leadingZero |-> flags.leadingZero, before |-> flags.before, after |-> flags.after]
      /\ flags.leadingZero \in BOOLEAN /\ flags.before \in Int /\ flags.after \in Int
  BY DEF FlagTypes
<1>3. CASE flags.after >= 0
  <2>1. flags2 = [flags EXCEPT !.after = flags.after * 10 + d] BY <1>1, <1>2, <1>3 DEF Modified
  <2>2. flags2 = [leadingZero |-> flags.leadingZero, before |-> flags.before,
                  after |-> flags.after * 10 + d]
    BY <1>2, <2>1
  <2>3. flags.after * 10 + d \in Int BY <1>2
  <2> HIDE DEF flags2
  <2> QED BY <1>1, <1>2, <1>3, <2>2, <2>3 DEF FlagTypes, flags2, c
<1>4. CASE flags.after < 0
  <2> DEFINE b == (IF flags.before < 0 THEN 0 ELSE flags.before * 10) + d
  <2>1. flags2 = [flags EXCEPT !.before = b] BY <1>1, <1>2, <1>4 DEF Modified
  <2>2. flags2 = [leadingZero |-> flags.leadingZero, before |-> b, after |-> flags.after]
    BY <1>2, <2>1
  <2>3. b \in Int BY <1>2
  <2> HIDE DEF flags2, b
  <2> QED BY <1>1, <1>2, <1>4, <2>2, <2>3 DEF FlagTypes, flags2, c, b
<1> QED BY <1>2, <1>3, <1>4

LEMMA InAfterOutcome ==
  ASSUME NEW p, NEW flags, NEW chars, NEW rest, Logging!IsPiece(p), IsSeq(rest), p.letter # "literal",
         FlagTypes(flags), flags.leadingZero = p.zero, InAfter(p, flags, chars, rest)
  PROVE  Outcome(p, flags, chars, rest)
<1> DEFINE d == p.after % 10
<1> DEFINE c == Logging!Digit(d)
<1> DEFINE flags2 == Modified(flags, c)
<1>1. /\ p.after >= 10 /\ chars = <<c>> \o FromLong(p, rest)
      /\ flags.before = p.width /\ flags.after = p.after \div 10
  BY DEF InAfter
<1>2. d \in Nat /\ (p.after \div 10) * 10 + d = p.after /\ p.after \div 10 >= 0
  BY <1>1, PieceTypes
<1> HIDE DEF d
<1>3. c[1] = "digit" /\ FlagTypes(flags2) /\ flags2.leadingZero = p.zero /\ flags2.before = p.width
  BY <1>1, <1>2, DigitModifies
<1> HIDE DEF c, flags2
<1>4. Converting(p, flags2, FromLong(p, rest), rest) BY <1>3 DEF Converting, AtLong
<1>5. IsSeq(FromLong(p, rest)) BY SpellingFrom
<1> QED BY <1>1, <1>3, <1>4, <1>5, Leads, Zenon DEF flags2

LEMMA BehindPointOutcome ==
  ASSUME NEW p, NEW flags, NEW chars, NEW rest, Logging!IsPiece(p), IsSeq(rest), p.letter # "literal",
         FlagTypes(flags), flags.leadingZero = p.zero, BehindPoint(p, flags, chars, rest)
  PROVE  Outcome(p, flags, chars, rest)
<1> DEFINE n == p.after
<1> DEFINE long == FromLong(p, rest)
<1>1. /\ n \in Nat /\ chars = Logging!Spelled(n) \o long
      /\ flags.before = p.width /\ flags.after = 0
  <2>1. n \in Int BY PieceTypes
  <2> QED BY <2>1 DEF BehindPoint
<1>2. IsSeq(long) BY SpellingFrom
<1>3. CASE n < 10
  <2> DEFINE c == Logging!Digit(n)
  <2> DEFINE flags2 == Modified(flags, c)
  <2>1. chars = <<c>> \o long
    <3> HIDE DEF n, long
    <3> QED BY <1>1, <1>2, <1>3, SpelledParts, Zenon
  <2>2. c[1] = "digit" /\ FlagTypes(flags2) /\ flags2.leadingZero = p.zero /\ flags2.before = p.width
    BY <1>1, DigitModifies
  <2> HIDE DEF c, flags2
  <2>3. Converting(p, flags2, long, rest) BY <2>2 DEF Converting, AtLong
  <2> QED BY <1>2, <2>1, <2>2, <2>3, Leads, Zenon DEF flags2
<1>4. CASE n >= 10
  <2> DEFINE d == n \div 10
  <2> DEFINE c == Logging!Digit(d)
  <2> DEFINE next == <<Logging!Digit(n % 10)>> \o long
  <2> DEFINE flags2 == Modified(flags, c)
  <2>1. chars = <<c>> \o next
    <3> HIDE DEF n, long
    <3> QED BY <1>1, <1>2, <1>4, SpelledParts, ZenonT(40)
  <2>2. d \in Nat /\ 0 * 10 + d = d BY <1>1
  <2> HIDE DEF d
  <2>3. /\ c[1] = "digit" /\ FlagTypes(flags2) /\ flags2.leadingZero = p.zero
        /\ flags2.before = p.width /\ flags2.after = d
    BY <1>1, <2>2, DigitModifies
  <2>4. IsSeq(next) BY <1>2, OneFirst
  <2> HIDE DEF c, flags2
  <2>5. Converting(p, flags2, next, rest) BY <1>4, <2>3 DEF Converting, InAfter, d
  <2> QED BY <2>1, <2>3, <2>4, <2>5, Leads, Zenon DEF flags2
<1> QED BY <1>1, <1>3, <1>4

LEMMA AfterOutcome ==
  ASSUME NEW p, NEW flags, NEW chars, NEW rest, Logging!IsPiece(p), IsSeq(rest), p.letter # "literal",
         FlagTypes(flags), flags.leadingZero = p.zero, AtAfter(p, flags, chars, rest)
  PROVE  Outcome(p, flags, chars, rest)
<1>1. chars = FromAfter(p, rest) /\ flags.before = p.width /\ flags.after = -1 BY DEF AtAfter
<1>2. CASE p.after = -1
  <2>1. chars = FromLong(p, rest) BY <1>1, <1>2 DEF FromAfter
  <2> QED BY <1>1, <2>1, LongOutcome DEF AtLong
<1>3. CASE p.after # -1
  <2> DEFINE c == Logging!Ch(".")
  <2> DEFINE next == Logging!Spelled(p.after) \o FromLong(p, rest)
  <2> DEFINE flags2 == Modified(flags, c)
  <2>1. chars = <<c>> \o next BY <1>1, <1>3 DEF FromAfter
  <2>2. c[1] = "." BY DEF Logging!Ch
  <2>3. flags2 = [flags EXCEPT !.after = 0] BY <2>2 DEF Modified
  <2>4. flags = [leadingZero |-> flags.leadingZero, before |-> flags.before, after |-> flags.after]
        /\ flags.leadingZero \in BOOLEAN /\ flags.before \in Int
    BY DEF FlagTypes
  <2>5. flags2 = [leadingZero |-> flags.leadingZero, before |-> flags.before, after |-> 0]
    BY <2>3, <2>4
  <2> HIDE DEF c, flags2
  <2>6. FlagTypes(flags2) /\ flags2.leadingZero = p.zero /\ flags2.before = p.width
        /\ flags2.after = 0
    BY <1>1, <2>4, <2>5 DEF FlagTypes
  <2>7. IsSeq(next)
    <3>1. IsSeq(Logging!Spelled(p.after)) /\ IsSeq(FromLong(p, rest)) BY SpelledSeq, SpellingFrom
    <3> QED BY <3>1, Joined
  <2>8. p.after >= 0 BY <1>3, PieceTypes
  <2>9. Converting(p, flags2, next, rest) BY <2>6, <2>8 DEF Converting, BehindPoint
  <2> HIDE DEF next
  <2> QED BY <2>1, <2>2, <2>6, <2>7, <2>9, Leads, Zenon DEF flags2
<1> QED BY <1>2, <1>3

LEMMA InWidthOutcome ==
  ASSUME NEW p, NEW flags, NEW chars, NEW rest, Logging!IsPiece(p), IsSeq(rest), p.letter # "literal",
         FlagTypes(flags), flags.leadingZero = p.zero, InWidth(p, flags, chars, rest)
  PROVE  Outcome(p, flags, chars, rest)
<1> DEFINE d == p.width % 10
<1> DEFINE c == Logging!Digit(d)
<1> DEFINE flags2 == Modified(flags, c)
<1>1. /\ p.width >= 10 /\ chars = <<c>> \o FromAfter(p, rest)
      /\ flags.before = p.width \div 10 /\ flags.after = -1
  BY DEF InWidth
<1>2. d \in Nat /\ (p.width \div 10) * 10 + d = p.width /\ ~(p.width \div 10 < 0)
  BY <1>1, PieceTypes
<1> HIDE DEF d
<1>3. /\ c[1] = "digit" /\ FlagTypes(flags2) /\ flags2.leadingZero = p.zero
      /\ flags2.before = p.width /\ flags2.after = -1
  BY <1>1, <1>2, DigitModifies, SMTT(30)
<1> HIDE DEF c, flags2
<1>4. Converting(p, flags2, FromAfter(p, rest), rest) BY <1>3 DEF Converting, AtAfter
<1>5. IsSeq(FromAfter(p, rest)) BY SpellingFrom
<1> QED BY <1>1, <1>3, <1>4, <1>5, Leads, Zenon DEF flags2

LEMMA WidthOutcome ==
  ASSUME NEW p, NEW flags, NEW chars, NEW rest, Logging!IsPiece(p), IsSeq(rest), p.letter # "literal",
         FlagTypes(flags), flags.leadingZero = p.zero, AtWidth(p, flags, chars, rest)
  PROVE  Outcome(p, flags, chars, rest)
<1> DEFINE n == p.width
<1> DEFINE after == FromAfter(p, rest)
<1>1. chars = FromWidth(p, rest) /\ flags.before = -1 /\ flags.after = -1 BY DEF AtWidth
<1>2. IsSeq(after) BY SpellingFrom
<1>3. CASE n = -1
  <2>1. chars = FromAfter(p, rest) BY <1>1, <1>3 DEF FromWidth
  <2> QED BY <1>1, <1>3, <2>1, AfterOutcome DEF AtAfter
<1>4. ASSUME n # -1 PROVE n \in Nat /\ chars = Logging!Spelled(n) \o after
  BY <1>1, <1>4, PieceTypes DEF FromWidth
<1>5. CASE n # -1 /\ n < 10
  <2> DEFINE c == Logging!Digit(n)
  <2> DEFINE flags2 == Modified(flags, c)
  <2>1. n \in Nat /\ chars = <<c>> \o after
    <3> HIDE DEF n, after
    <3> QED BY <1>2, <1>4, <1>5, SpelledParts, Zenon
  <2>2. /\ c[1] = "digit" /\ FlagTypes(flags2) /\ flags2.leadingZero = p.zero
        /\ flags2.before = p.width /\ flags2.after = -1
    BY <1>1, <2>1, DigitModifies
  <2> HIDE DEF c, flags2
  <2>3. Converting(p, flags2, after, rest) BY <2>2 DEF Converting, AtAfter
  <2> QED BY <1>2, <2>1, <2>2, <2>3, Leads, Zenon DEF flags2
<1>6. CASE n # -1 /\ n >= 10
  <2> DEFINE d == n \div 10
  <2> DEFINE c == Logging!Digit(d)
  <2> DEFINE next == <<Logging!Digit(n % 10)>> \o after
  <2> DEFINE flags2 == Modified(flags, c)
  <2>1. n \in Nat /\ chars = <<c>> \o next
    <3> HIDE DEF n, after
    <3> QED BY <1>2, <1>4, <1>6, SpelledParts, Zenon
  <2>2. d \in Nat /\ 0 + d = d BY <2>1
  <2> HIDE DEF d
  <2>3. /\ c[1] = "digit" /\ FlagTypes(flags2) /\ flags2.leadingZero = p.zero
        /\ flags2.before = d /\ flags2.after = -1
    BY <1>1, <2>2, DigitModifies
  <2>4. IsSeq(next) BY <1>2, OneFirst
  <2> HIDE DEF c, flags2
  <2>5. Converting(p, flags2, next, rest) BY <1>6, <2>3 DEF Converting, InWidth, d
  <2> QED BY <2>1, <2>3, <2>4, <2>5, Leads, Zenon DEF flags2
<1> QED BY <1>3, <1>4, <1>5, <1>6

LEMMA CharOutcome ==
  ASSUME NEW p, NEW flags, NEW chars, NEW rest, Logging!IsPiece(p), IsSeq(rest), p.letter # "literal",
         FlagTypes(flags), Converting(p, flags, chars, rest)
  PROVE  Outcome(p, flags, chars, rest)
<1>1. flags.leadingZero = p.zero BY DEF Converting
<1>2. \/ AtWidth(p, flags, chars, rest) \/ InWidth(p, flags, chars, rest)
      \/ AtAfter(p, flags, chars, rest) \/ BehindPoint(p, flags, chars, rest)
      \/ InAfter(p, flags, chars, rest) \/ AtLong(p, flags, chars, rest)
      \/ AtLetter(p, flags, chars, rest)
  BY DEF Converting
<1> QED
  BY <1>1, <1>2, WidthOutcome, InWidthOutcome, AfterOutcome, BehindPointOutcome, InAfterOutcome,
     LongOutcome, LetterOutcome, Zenon

\* Only the end of a format cuts a conversion off.
CutOff(p, rest) == p.letter = "" => rest = <<>>

LEMMA NotZero ==
  ASSUME NEW p, NEW rest, Logging!IsPiece(p), IsSeq(rest), p.letter # "literal",
         CutOff(p, rest), FromWidth(p, rest) # <<>>
  PROVE  Head(FromWidth(p, rest)) # Logging!Digit(0)
<1> DEFINE w == FromWidth(p, rest)
<1>1. ASSUME NEW c, NEW next, IsSeq(next), w = <<c>> \o next, c # Logging!Digit(0)
      PROVE  Head(w) # Logging!Digit(0)
  BY <1>1, OneFirst
<1>2. ASSUME NEW letter, letter # "digit" PROVE Logging!Ch(letter) # Logging!Digit(0)
  BY <1>2 DEF Logging!Ch, Logging!Digit
<1>3. ASSUME NEW n \in Nat, n # 0 PROVE Logging!Digit(n) # Logging!Digit(0)
  BY <1>3 DEF Logging!Digit
<1>4. IsSeq(FromAfter(p, rest)) /\ IsSeq(FromLong(p, rest)) /\ IsSeq(Letters(p, rest))
  BY SpellingFrom
<1>5. CASE p.width # -1
  <2> DEFINE n == p.width
  <2> DEFINE after == FromAfter(p, rest)
  <2>1. n \in Nat /\ n # 0 /\ w = Logging!Spelled(n) \o after BY <1>5, PieceTypes DEF FromWidth
  <2> HIDE DEF w, n, after
  <2>2. CASE n < 10
    <3>1. w = <<Logging!Digit(n)>> \o after BY <1>4, <2>1, <2>2, SpelledParts, Zenon DEF after
    <3> QED BY <1>1, <1>3, <1>4, <2>1, <3>1 DEF after, w
  <2>3. CASE n >= 10
    <3> DEFINE d == n \div 10
    <3> DEFINE next == <<Logging!Digit(n % 10)>> \o after
    <3>1. w = <<Logging!Digit(d)>> \o next BY <1>4, <2>1, <2>3, SpelledParts, Zenon DEF after
    <3>2. d \in Nat /\ d # 0 BY <2>1, <2>3
    <3>3. IsSeq(next) BY <1>4, OneFirst DEF after
    <3> HIDE DEF d, next
    <3> QED BY <1>1, <1>3, <3>1, <3>2, <3>3 DEF w
  <2> QED BY <2>1, <2>2, <2>3 DEF w
<1>6. CASE p.width = -1 /\ p.after # -1
  <2> DEFINE next == Logging!Spelled(p.after) \o FromLong(p, rest)
  <2>1. w = <<Logging!Ch(".")>> \o next BY <1>6 DEF FromWidth, FromAfter
  <2>2. IsSeq(Logging!Spelled(p.after)) BY SpelledSeq
  <2>3. IsSeq(next) BY <1>4, <2>2, Joined
  <2>4. Logging!Ch(".") # Logging!Digit(0) BY <1>2
  <2> HIDE DEF w, next
  <2> QED BY <1>1, <2>1, <2>3, <2>4 DEF w
<1>7. CASE p.width = -1 /\ p.after = -1
  <2>1. w = FromLong(p, rest) BY <1>7 DEF FromWidth, FromAfter
  <2> HIDE DEF w
  <2>2. CASE p.long
    <3>1. w = <<Logging!Ch("l")>> \o Letters(p, rest) BY <2>1, <2>2 DEF FromLong
    <3>2. Logging!Ch("l") # Logging!Digit(0) BY <1>2
    <3> QED BY <1>1, <1>4, <3>1, <3>2 DEF w
  <2>3. CASE ~p.long
    <3>1. w = Letters(p, rest) /\ w # <<>> BY <2>1, <2>3 DEF FromLong, w
    <3>2. p.letter # "" /\ w = <<Logging!Ch(p.letter)>> \o rest
      BY <3>1, Zenon DEF CutOff, Letters
    <3>3. p.letter # "digit" BY PieceTypes
    <3>4. Logging!Ch(p.letter) # Logging!Digit(0) BY <1>2, <3>3
    <3> QED BY <1>1, <3>2, <3>4, Zenon DEF w
  <2> QED BY <2>2, <2>3 DEF w
<1> QED BY <1>5, <1>6, <1>7

\* The character behind the percent sign, and the zero perhaps there.
LEMMA FirstOutcome ==
  ASSUME NEW p, NEW chars, NEW rest, Logging!IsPiece(p), IsSeq(rest), p.letter # "literal",
         CutOff(p, rest), chars = FromZero(p, rest)
  PROVE  \/ /\ p.zero /\ chars # <<>> /\ Head(chars) = Logging!Digit(0)
            /\ p.letter # "%" /\ Tail(chars) = FromWidth(p, rest)
         \/ /\ p.letter = "%" /\ chars # <<>> /\ Head(chars) = Logging!Ch("%") /\ Tail(chars) = rest
         \/ /\ ~p.zero /\ p.letter # "%" /\ Converting(p, Logging!NoFlags, chars, rest)
            /\ FlagTypes(Logging!NoFlags)
            /\ chars # <<>> => Head(chars) \notin {Logging!Digit(0), Logging!Ch("%")}
<1>1. CASE p.letter = "%"
  <2>1. p = Logging!Plain("%") BY <1>1 DEF Logging!IsPiece
  <2>2. ~p.zero /\ p.width = -1 /\ p.after = -1 /\ ~p.long BY <2>1, Zenon DEF Logging!Plain
  <2>3. chars = Letters(p, rest) BY <2>2, Zenon DEF FromZero, FromWidth, FromAfter, FromLong
  <2>4. chars = <<Logging!Ch("%")>> \o rest BY <1>1, <2>3, Zenon DEF Letters
  <2>5. chars # <<>> /\ Head(chars) = Logging!Ch("%") /\ Tail(chars) = rest BY <2>4, OneFirst
  <2> QED BY <1>1, <2>5
<1>2. CASE p.letter # "%" /\ p.zero
  <2>1. chars = <<Logging!Digit(0)>> \o FromWidth(p, rest) BY <1>2 DEF FromZero
  <2>2. IsSeq(FromWidth(p, rest)) BY SpellingFrom
  <2>3. chars # <<>> /\ Head(chars) = Logging!Digit(0) /\ Tail(chars) = FromWidth(p, rest)
    BY <2>1, <2>2, OneFirst
  <2> QED BY <1>2, <2>3
<1>3. CASE p.letter # "%" /\ ~p.zero
  <2> DEFINE flags == Logging!NoFlags
  <2>1. /\ FlagTypes(flags) /\ ~flags.leadingZero /\ flags.before = -1 /\ flags.after = -1
    <3>1. flags = [leadingZero |-> FALSE, before |-> -1, after |-> -1] BY DEF Logging!NoFlags
    <3> HIDE DEF flags
    <3>2. ~flags.leadingZero /\ flags.leadingZero \in BOOLEAN /\ flags.before = -1 /\ flags.after = -1
      BY <3>1
    <3>3. flags = [leadingZero |-> flags.leadingZero, before |-> flags.before, after |-> flags.after]
      BY <3>1
    <3> QED BY <3>2, <3>3 DEF FlagTypes
  <2>2. chars = FromWidth(p, rest) BY <1>3 DEF FromZero
  <2>3. p.zero = FALSE BY <1>3, PieceTypes
  <2>4. flags.leadingZero = FALSE BY DEF Logging!NoFlags
  <2> HIDE DEF flags
  <2>5. AtWidth(p, flags, chars, rest) /\ Converting(p, flags, chars, rest)
    BY <2>1, <2>2, <2>3, <2>4, Zenon DEF Converting, AtWidth
  <2>6. Outcome(p, flags, chars, rest) BY <2>1, <2>5, CharOutcome
  <2>7. ASSUME chars # <<>> PROVE Head(chars) # Logging!Ch("%")
    <3>1. Logging!Ch("%")[1] = "%" BY DEF Logging!Ch
    <3>2. CASE p.letter = "" /\ chars = rest BY <2>7, <3>2, Zenon DEF CutOff
    <3>3. CASE Modifies(p, flags, chars, rest) BY <3>1, <3>3, Zenon DEF Modifies
    <3>4. CASE Converts(p, flags, chars, rest) BY <1>3, <3>1, <3>4, Zenon DEF Converts
    <3> QED BY <2>6, <3>2, <3>3, <3>4, Zenon DEF Outcome
  <2>8. ASSUME chars # <<>> PROVE Head(chars) # Logging!Digit(0) BY <2>2, <2>8, NotZero, Zenon
  <2> QED BY <1>3, <2>1, <2>5, <2>7, <2>8 DEF flags
<1> QED BY <1>1, <1>2, <1>3

\* The arguments that pieces have taken.
LEMMA ConsumedStep ==
  ASSUME NEW pieces, NEW j \in Nat
  PROVE  /\ Logging!Consumed(pieces, 0) = 0 /\ Logging!Consumed(pieces, j) \in Nat
         /\ Logging!Consumed(pieces, j + 1)
              = Logging!Consumed(pieces, j)
                + (IF Logging!TakesArgument(pieces[j + 1].letter) THEN 1 ELSE 0)
<1> DEFINE S(n) == {i \in 1 .. n : Logging!TakesArgument(pieces[i].letter)}
<1>1. \A T : Logging!Cardinality(T) = Cardinality(T) BY DEF Logging!Cardinality, Cardinality
<1>2. \A n : Logging!Consumed(pieces, n) = Cardinality(S(n)) BY <1>1 DEF Logging!Consumed
<1>3. IsFiniteSet(S(j)) /\ Cardinality(S(j)) \in Nat
  <2>1. IsFiniteSet(1 .. j) BY FS_Interval
  <2>2. S(j) \subseteq 1 .. j OBVIOUS
  <2> HIDE DEF S
  <2> QED BY <2>1, <2>2, FS_Subset, FS_CardinalityType
<1>4. S(0) = {} OBVIOUS
<1>5. Cardinality(S(0)) = 0 BY <1>4, FS_EmptySet
<1>6. CASE Logging!TakesArgument(pieces[j + 1].letter)
  <2>1. S(j + 1) = S(j) \cup {j + 1} BY <1>6
  <2>2. j + 1 \notin S(j) OBVIOUS
  <2> HIDE DEF S
  <2>3. Cardinality(S(j + 1)) = Cardinality(S(j)) + 1 BY <1>3, <2>1, <2>2, FS_AddElement
  <2> QED BY <1>2, <1>3, <1>5, <1>6, <2>3
<1>7. CASE ~Logging!TakesArgument(pieces[j + 1].letter)
  <2>1. S(j + 1) = S(j) BY <1>7
  <2> HIDE DEF S
  <2> QED BY <1>2, <1>3, <1>5, <1>7, <2>1
<1> QED BY <1>6, <1>7

LEMMA ConsumedOrder ==
  ASSUME NEW pieces, NEW i \in Nat, NEW j \in Nat, i <= j
  PROVE  Logging!Consumed(pieces, i) <= Logging!Consumed(pieces, j)
<1> DEFINE S(n) == {k \in 1 .. n : Logging!TakesArgument(pieces[k].letter)}
<1>1. \A T : Logging!Cardinality(T) = Cardinality(T) BY DEF Logging!Cardinality, Cardinality
<1>2. \A n : Logging!Consumed(pieces, n) = Cardinality(S(n)) BY <1>1 DEF Logging!Consumed
<1>3. IsFiniteSet(S(j)) /\ S(i) \subseteq S(j)
  <2>1. IsFiniteSet(1 .. j) BY FS_Interval
  <2>2. S(j) \subseteq 1 .. j OBVIOUS
  <2>3. S(i) \subseteq S(j) OBVIOUS
  <2> HIDE DEF S
  <2> QED BY <2>1, <2>2, <2>3, FS_Subset
<1> HIDE DEF S
<1> QED BY <1>2, <1>3, FS_Subset

LEMMA Behind ==
  ASSUME NEW s, IsSeq(s), NEW c \in Nat, c <= Len(s)
  PROVE  LET r == SubSeq(s, c + 1, Len(s))
         IN  /\ c < Len(s) => Head(r) = s[c + 1] /\ Tail(r) = SubSeq(s, (c + 1) + 1, Len(s))
             /\ c = Len(s) => r = <<>>
             /\ c = 0 => r = s
<1> DEFINE T == {s[i] : i \in DOMAIN s}
<1> DEFINE n == Len(s)
<1> DEFINE r == SubSeq(s, c + 1, n)
<1>1. s \in Seq(T) /\ n \in Nat BY DEF IsSeq
<1>2. n = Len(s) OBVIOUS
<1> HIDE DEF n, T
<1>3. r \in Seq(T) /\ Len(r) = n - c /\ \A i \in 1 .. (n - c) : r[i] = s[c + i] BY <1>1, <1>2
<1>4. c = n => r = <<>> BY <1>1, <1>2
<1>5. c = 0 => r = s BY <1>1, <1>2
<1>6. ASSUME c < n PROVE Head(r) = s[c + 1] /\ Tail(r) = SubSeq(s, (c + 1) + 1, n)
  <2>1. SubSeq(r, 2, Len(r)) = SubSeq(s, (c + 1) + 1, n) BY <1>1, <1>2, <1>6, SubSub
  <2> HIDE DEF r
  <2>2. r # <<>> /\ 1 \in 1 .. (n - c) BY <1>1, <1>3, <1>6
  <2>3. Head(r) = r[1] /\ Tail(r) = SubSeq(r, 2, Len(r)) BY <1>3, <2>2
  <2> QED BY <1>3, <2>1, <2>2, <2>3, Zenon
<1> QED BY <1>2, <1>4, <1>5, <1>6 DEF n, r

LEMMA SpellingsLists ==
  ASSUME NEW pieces, IsSeq(pieces)
  PROVE  LET s == Spellings(pieces)
         IN  /\ IsLists(s) /\ Len(s) = Len(pieces) /\ Len(pieces) \in Nat
             /\ \A i \in 1 .. Len(pieces) : s[i] = Logging!Spelling(pieces[i])
             /\ Logging!Format(pieces) = Logging!FlattenSeq(s)
<1> DEFINE s == Spellings(pieces)
<1> DEFINE N == Len(pieces)
<1>1. N \in Nat /\ DOMAIN pieces = 1 .. N BY DEF IsSeq
<1>2. s = [i \in 1 .. N |-> Logging!Spelling(pieces[i])] BY <1>1 DEF Spellings
<1>3. Logging!Format(pieces) = Logging!FlattenSeq(s) BY DEF Logging!Format, Spellings
<1> HIDE DEF s, N
<1>4. s = [i \in 1 .. N |-> s[i]] BY <1>2
<1>5. IsSeq(s) /\ Len(s) = N BY <1>1, <1>4, IsList
<1>6. \A i \in 1 .. N : s[i] = Logging!Spelling(pieces[i]) BY <1>2
<1>7. IsLists(s) BY <1>5, <1>6, SpellingSeq DEF IsLists
<1> QED BY <1>1, <1>3, <1>5, <1>6, <1>7 DEF s, N

\* What a message promises of its next piece.
LEMMA NextPiece ==
  ASSUME NEW pieces, NEW given, IsMessage(pieces, given), NEW j \in Nat, j < Len(pieces)
  PROVE  LET p == pieces[j + 1]
             left == SubSeq(given, Logging!Consumed(pieces, j) + 1, Len(given))
             rest == Rest(Spellings(pieces), j + 1)
         IN  /\ Rest(Spellings(pieces), j) = Logging!Spelling(p) \o rest /\ IsSeq(rest)
             /\ IsSeq(Done(Renderings(pieces, given), j))
             /\ Done(Renderings(pieces, given), j + 1)
                  = Done(Renderings(pieces, given), j) \o RenderedAt(pieces, given, j + 1)
             /\ Logging!IsPiece(p) /\ CutOff(p, rest) /\ j + 1 \in 0 .. Len(pieces)
             /\ SubSeq(given, Logging!Consumed(pieces, j + 1) + 1, Len(given))
                  = IF Logging!TakesArgument(p.letter) THEN Tail(left) ELSE left
             /\ Logging!TakesArgument(p.letter) =>
                  /\ Fits(p.letter, Head(left))
                  /\ RenderedAt(pieces, given, j + 1) = Logging!Field(p, Head(left))
             /\ ~Logging!TakesArgument(p.letter) =>
                  RenderedAt(pieces, given, j + 1)
                    = IF p.letter \in {"literal", "%"} THEN <<Logging!Ch(p.letter)>> ELSE <<>>
<1> DEFINE N == Len(pieces)
<1> DEFINE p == pieces[j + 1]
<1> DEFINE s == Spellings(pieces)
<1> DEFINE r == Renderings(pieces, given)
<1> DEFINE c == Logging!Consumed(pieces, j)
<1> DEFINE left == SubSeq(given, c + 1, Len(given))
<1> DEFINE at == RenderedAt(pieces, given, j + 1)
<1>1. /\ N \in Nat /\ DOMAIN pieces = 1 .. N /\ IsLists(r) /\ Len(r) = N
      /\ \A i \in 1 .. N : r[i] = RenderedAt(pieces, given, i)
  BY RenderedSeqs
<1>2. j + 1 \in 1 .. N /\ j \in 0 .. N /\ j + 1 \in 0 .. N BY <1>1
<1>3. IsLists(s) /\ Len(s) = N /\ s[j + 1] = Logging!Spelling(p)
  <2>1. IsSeq(pieces) BY Zenon DEF IsMessage
  <2> QED BY <1>2, <2>1, SpellingsLists
<1>4. /\ IsSeq(given) /\ Len(given) = Logging!Consumed(pieces, N) /\ Logging!IsPiece(p)
      /\ (p.letter = "" => j + 1 = N)
      /\ Logging!TakesArgument(p.letter) => Fits(p.letter, given[Logging!Consumed(pieces, j + 1)])
  BY <1>2, Zenon DEF IsMessage
<1> HIDE DEF s, r
<1>5. Rest(s, j) = Logging!Spelling(p) \o Rest(s, j + 1) /\ IsSeq(Rest(s, j + 1))
      /\ (j + 1 = N => Rest(s, j + 1) = <<>>)
  <2>1. j < Len(s) /\ j \in 0 .. Len(s) /\ j + 1 \in 0 .. Len(s) BY <1>2, <1>3
  <2>2. Rest(s, j) = s[j + 1] \o Rest(s, j + 1) BY <1>3, <2>1, FlattenParts, Zenon
  <2>3. IsSeq(Rest(s, j + 1)) /\ (j + 1 = Len(s) => Rest(s, j + 1) = <<>>)
    BY <1>3, <2>1, FlattenParts, Zenon
  <2> QED BY <1>3, <2>2, <2>3
<1>6. IsSeq(Done(r, j)) /\ Done(r, j + 1) = Done(r, j) \o at
  <2>1. j < Len(r) /\ j \in 0 .. Len(r) BY <1>1, <1>2
  <2>2. IsSeq(Done(r, j)) /\ Done(r, j + 1) = Done(r, j) \o r[j + 1] BY <1>1, <2>1, FlattenParts, Zenon
  <2> QED BY <1>1, <1>2, <2>2, Zenon
<1>7. CutOff(p, Rest(s, j + 1)) BY <1>4, <1>5, Zenon DEF CutOff
<1> DEFINE takes == Logging!TakesArgument(p.letter)
<1>8. /\ c \in Nat /\ Logging!Consumed(pieces, j + 1) = c + (IF takes THEN 1 ELSE 0)
      /\ Logging!Consumed(pieces, j + 1) <= Len(given)
  <2>1. Logging!Consumed(pieces, j + 1) <= Logging!Consumed(pieces, N)
    BY <1>1, <1>2, ConsumedOrder
  <2>2. Len(given) = Logging!Consumed(pieces, N) BY <1>4, Zenon
  <2>3. c \in Nat /\ Logging!Consumed(pieces, j + 1) = c + (IF takes THEN 1 ELSE 0) BY ConsumedStep, Zenon
  <2> QED BY <2>1, <2>2, <2>3
<1>9. Len(given) \in Nat /\ IsSeq(given)
  <2>1. IsSeq(given) BY <1>4, Zenon
  <2> QED BY <2>1 DEF IsSeq
<1>10. CASE takes
  <2>1. c < Len(given) /\ Logging!Consumed(pieces, j + 1) = c + 1 BY <1>8, <1>9, <1>10
  <2>2. Head(left) = given[c + 1] /\ Tail(left) = SubSeq(given, (c + 1) + 1, Len(given))
    <3>1. c \in Nat /\ c <= Len(given) BY <1>8, <1>9, <2>1
    <3> HIDE DEF c
    <3> QED BY <1>9, <2>1, <3>1, Behind
  <2>3. Fits(p.letter, given[c + 1]) BY <1>4, <1>10, <2>1, Zenon
  <2>4. at = Logging!Field(p, given[c + 1])
    <3>1. p.letter \notin {"literal", "%"}
      BY <1>10 DEF Logging!TakesArgument, Logging!Numbers, Logging!Signed
    <3> QED BY <1>10, <2>1, <3>1 DEF RenderedAt
  <2> HIDE DEF at, left, takes
  <2>5. /\ SubSeq(given, Logging!Consumed(pieces, j + 1) + 1, Len(given)) = Tail(left)
        /\ Fits(p.letter, Head(left)) /\ at = Logging!Field(p, Head(left))
    BY <2>1, <2>2, <2>3, <2>4, Zenon
  <2> QED BY <1>2, <1>4, <1>5, <1>6, <1>7, <1>10, <2>5, Zenon DEF s, r, at, left, takes
<1>11. CASE ~takes
  <2>1. Logging!Consumed(pieces, j + 1) = c BY <1>8, <1>11
  <2>2. at = IF p.letter \in {"literal", "%"} THEN <<Logging!Ch(p.letter)>> ELSE <<>>
    BY <1>11 DEF RenderedAt
  <2> HIDE DEF at
  <2>3. SubSeq(given, Logging!Consumed(pieces, j + 1) + 1, Len(given)) = left BY <2>1, Zenon
  <2> HIDE DEF left
  <2> QED BY <1>2, <1>4, <1>5, <1>6, <1>7, <1>11, <2>2, <2>3, Zenon DEF s, r, at, left
<1> QED BY <1>10, <1>11, Zenon

\* A message that is asked for. The pieces between which what is asked stands are literals.
LEMMA PlainPiece ==
  ASSUME NEW letter, letter \notin {"digit", ".", "l"}
  PROVE  Logging!IsPiece(Logging!Plain(letter)) /\ Logging!Plain(letter).letter = letter
<1> DEFINE p == Logging!Plain(letter)
<1>1. p = [zero |-> FALSE, width |-> -1, after |-> -1, long |-> FALSE, letter |-> letter]
  BY DEF Logging!Plain
<1> HIDE DEF p
<1>2. /\ p.zero = FALSE /\ p.width = -1 /\ p.after = -1 /\ p.long = FALSE /\ p.letter = letter BY <1>1
<1>3. p = [zero |-> p.zero, width |-> p.width, after |-> p.after, long |-> p.long,
           letter |-> p.letter]
  BY <1>1, <1>2, Zenon
<1>4. p.zero \in BOOLEAN /\ p.width \in {-1} \cup 1 .. 99 /\ p.after \in -1 .. 99
  <2>1. FALSE \in BOOLEAN /\ -1 \in {-1} \cup 1 .. 99 /\ -1 \in -1 .. 99 OBVIOUS
  <2> QED BY <1>2, <2>1, Zenon
<1>5. p.letter = "%" => p = Logging!Plain("%") BY <1>2, Zenon DEF p
<1>6. Logging!IsPiece(p) BY <1>2, <1>3, <1>4, <1>5, Zenon DEF Logging!IsPiece
<1> QED BY <1>2, <1>6 DEF p

LEMMA LiteralPiece ==
  /\ Logging!IsPiece(Logging!Literal) /\ Logging!Literal.letter = "literal"
  /\ ~Logging!TakesArgument("literal") /\ Logging!Literal = Logging!Plain("literal")
<1>1. Logging!Literal = Logging!Plain("literal") BY DEF Logging!Literal
<1>2. ~Logging!TakesArgument("literal")
  BY DEF Logging!TakesArgument, Logging!Numbers, Logging!Signed
<1> QED BY <1>1, <1>2, PlainPiece

LEMMA NoArgument == ~Logging!TakesArgument("")
<1>1. "" \notin {"d", "i", "u", "o", "x", "X", "c", "s"} BY Zenon
<1> QED BY <1>1, Zenon DEF Logging!TakesArgument, Logging!Numbers, Logging!Signed

Given(p, arg) == IF Logging!TakesArgument(p.letter) THEN <<arg>> ELSE <<>>

LEMMA MessageOfTwo ==
  ASSUME NEW p, NEW arg, Logging!IsPiece(p), Logging!TakesArgument(p.letter) => Fits(p.letter, arg)
  PROVE  IsMessage(<<Logging!Literal, p>>, Given(p, arg))
<1> DEFINE pieces == <<Logging!Literal, p>>
<1> DEFINE given == Given(p, arg)
<1> DEFINE takes == Logging!TakesArgument(p.letter)
<1>1. IsSeq(pieces) /\ Len(pieces) = 2 /\ pieces[1] = Logging!Literal /\ pieces[2] = p
  <2>1. pieces \in Seq({Logging!Literal, p}) OBVIOUS
  <2> QED BY <2>1, SeqOf, Zenon
<1>2. IsSeq(given) /\ Len(given) = (IF takes THEN 1 ELSE 0) /\ (takes => given[1] = arg)
  BY OneSeq, EmptySeq DEF Given
<1> HIDE DEF pieces, given, takes
<1>3. Logging!Consumed(pieces, 0) = 0 BY ConsumedStep
<1>4. Logging!Consumed(pieces, 1) = 0
  <2>1. Logging!Consumed(pieces, 0 + 1) = 0 + 0 BY <1>1, <1>3, ConsumedStep, LiteralPiece
  <2> QED BY <2>1
<1>5. Logging!Consumed(pieces, 2) = IF takes THEN 1 ELSE 0
  <2>1. Logging!Consumed(pieces, 1 + 1) = 0 + (IF takes THEN 1 ELSE 0)
    BY <1>1, <1>4, ConsumedStep DEF takes
  <2> QED BY <2>1
<1>6. Len(given) = Logging!Consumed(pieces, Len(pieces)) BY <1>1, <1>2, <1>5
<1>7. 1 .. Len(pieces) = {1, 2} BY <1>1
<1>8. takes => Fits(p.letter, given[Logging!Consumed(pieces, 2)]) BY <1>2, <1>5 DEF takes
<1>9. "literal" # "" BY Zenon
<1>10. \A i \in {1, 2} :
         /\ Logging!IsPiece(pieces[i]) /\ (pieces[i].letter = "" => i = Len(pieces))
         /\ Logging!TakesArgument(pieces[i].letter) =>
              Fits(pieces[i].letter, given[Logging!Consumed(pieces, i)])
  BY <1>1, <1>8, <1>9, LiteralPiece, Zenon DEF takes
<1>11. IsMessage(pieces, given) BY <1>1, <1>2, <1>6, <1>7, <1>10, Zenon DEF IsMessage
<1> QED BY <1>11 DEF pieces, given

\* Behind a conversion with a letter, there may be a literal.
HasLetter(p) == p.letter # ""

LEMMA MessageOfThree ==
  ASSUME NEW p, NEW arg, Logging!IsPiece(p), Logging!TakesArgument(p.letter) => Fits(p.letter, arg),
         HasLetter(p)
  PROVE  IsMessage(<<Logging!Literal, p, Logging!Literal>>, Given(p, arg))
<1> DEFINE pieces == <<Logging!Literal, p, Logging!Literal>>
<1> DEFINE given == Given(p, arg)
<1> DEFINE takes == Logging!TakesArgument(p.letter)
<1>1. IsSeq(pieces) /\ Len(pieces) = 3 /\ pieces[1] = Logging!Literal /\ pieces[2] = p
      /\ pieces[3] = Logging!Literal
  <2>1. pieces \in Seq({Logging!Literal, p}) OBVIOUS
  <2> QED BY <2>1, SeqOf, Zenon
<1>2. IsSeq(given) /\ Len(given) = (IF takes THEN 1 ELSE 0) /\ (takes => given[1] = arg)
  BY OneSeq, EmptySeq DEF Given
<1>3. p.letter # "" BY Zenon DEF HasLetter
<1> HIDE DEF pieces, given, takes
<1>4. Logging!Consumed(pieces, 0) = 0 BY ConsumedStep, Zenon
<1>5. Logging!Consumed(pieces, 1) = 0
  <2>1. Logging!Consumed(pieces, 0 + 1) = 0 + 0 BY <1>1, <1>4, ConsumedStep, LiteralPiece
  <2> QED BY <2>1
<1>6. Logging!Consumed(pieces, 2) = IF takes THEN 1 ELSE 0
  <2>1. Logging!Consumed(pieces, 1 + 1) = 0 + (IF takes THEN 1 ELSE 0)
    BY <1>1, <1>5, ConsumedStep DEF takes
  <2> QED BY <2>1
<1>7. Logging!Consumed(pieces, 3) = IF takes THEN 1 ELSE 0
  <2>1. Logging!Consumed(pieces, 2 + 1) = Logging!Consumed(pieces, 2) + 0
    BY <1>1, ConsumedStep, LiteralPiece
  <2> QED BY <1>6, <2>1
<1>8. Len(given) = Logging!Consumed(pieces, Len(pieces)) BY <1>1, <1>2, <1>7
<1>9. 1 .. Len(pieces) = {1, 2, 3} BY <1>1
<1>10. takes => Fits(p.letter, given[Logging!Consumed(pieces, 2)]) BY <1>2, <1>6 DEF takes
<1>11. "literal" # "" BY Zenon
<1>12. \A i \in {1, 2, 3} :
         /\ Logging!IsPiece(pieces[i]) /\ (pieces[i].letter = "" => i = Len(pieces))
         /\ Logging!TakesArgument(pieces[i].letter) =>
              Fits(pieces[i].letter, given[Logging!Consumed(pieces, i)])
  BY <1>1, <1>3, <1>10, <1>11, LiteralPiece, Zenon DEF takes
<1>13. IsMessage(pieces, given) BY <1>1, <1>2, <1>8, <1>9, <1>12, Zenon DEF IsMessage
<1> QED BY <1>13 DEF pieces, given

LEMMA MessageOfFour ==
  ASSUME NEW header, NEW space, Fits("s", header), Fits("d", space), Fits("d", 1)
  PROVE  IsMessage(<<Logging!Plain("s"), Logging!Literal, Logging!Plain("d"), Logging!Plain("d")>>,
                   <<header, space, 1>>)
<1> DEFINE pieces == <<Logging!Plain("s"), Logging!Literal, Logging!Plain("d"), Logging!Plain("d")>>
<1> DEFINE given == <<header, space, 1>>
<1>1. IsSeq(pieces) /\ Len(pieces) = 4 /\ pieces[1] = Logging!Plain("s")
      /\ pieces[2] = Logging!Literal /\ pieces[3] = Logging!Plain("d") /\ pieces[4] = Logging!Plain("d")
  <2>1. pieces \in Seq({Logging!Literal, Logging!Plain("s"), Logging!Plain("d")}) OBVIOUS
  <2> QED BY <2>1, SeqOf, Zenon
<1>2. IsSeq(given) /\ Len(given) = 3 /\ given[1] = header /\ given[2] = space /\ given[3] = 1
  <2>1. given \in Seq({header, space, 1}) OBVIOUS
  <2> QED BY <2>1, SeqOf, Zenon
<1>3. /\ Logging!IsPiece(Logging!Plain("s")) /\ Logging!Plain("s").letter = "s"
      /\ Logging!IsPiece(Logging!Plain("d")) /\ Logging!Plain("d").letter = "d"
  BY PlainPiece
<1>4. Logging!TakesArgument("s") /\ Logging!TakesArgument("d")
  BY DEF Logging!TakesArgument, Logging!Numbers, Logging!Signed
<1> HIDE DEF pieces, given
<1>5. Logging!Consumed(pieces, 0) = 0 BY ConsumedStep
<1>6. Logging!Consumed(pieces, 1) = 1
  <2>1. Logging!Consumed(pieces, 0 + 1) = 0 + 1 BY <1>1, <1>3, <1>4, <1>5, ConsumedStep
  <2> QED BY <2>1
<1>7. Logging!Consumed(pieces, 2) = 1
  <2>1. Logging!Consumed(pieces, 1 + 1) = 1 + 0 BY <1>1, <1>6, ConsumedStep, LiteralPiece
  <2> QED BY <2>1
<1>8. Logging!Consumed(pieces, 3) = 2
  <2>1. Logging!Consumed(pieces, 2 + 1) = 1 + 1 BY <1>1, <1>3, <1>4, <1>7, ConsumedStep
  <2> QED BY <2>1
<1>9. Logging!Consumed(pieces, 4) = 3
  <2>1. Logging!Consumed(pieces, 3 + 1) = 2 + 1 BY <1>1, <1>3, <1>4, <1>8, ConsumedStep
  <2> QED BY <2>1
<1>10. Len(given) = Logging!Consumed(pieces, Len(pieces)) BY <1>1, <1>2, <1>9
<1>11. 1 .. Len(pieces) = {1, 2, 3, 4} BY <1>1
<1>12. "literal" # "" /\ "s" # "" /\ "d" # "" BY Zenon
<1>13. \A i \in {1, 2, 3, 4} :
         /\ Logging!IsPiece(pieces[i]) /\ (pieces[i].letter = "" => i = Len(pieces))
         /\ Logging!TakesArgument(pieces[i].letter) =>
              Fits(pieces[i].letter, given[Logging!Consumed(pieces, i)])
  BY <1>1, <1>2, <1>3, <1>6, <1>7, <1>8, <1>9, <1>12, LiteralPiece, Zenon
<1>14. IsMessage(pieces, given) BY <1>1, <1>2, <1>10, <1>11, <1>13, Zenon DEF IsMessage
<1> QED BY <1>14 DEF pieces, given

\* The invariant at a message's begin.
LEMMA Begins ==
  ASSUME NEW which, NEW pieces, NEW given, LogInv, Logging!Idle,
         Logging!Begin(which, pieces, given), IsMessage(pieces, given),
         which = "alt_printf" => AltPieces(pieces), UNCHANGED semihosting
  PROVE  PrinterTypes' /\ MessageInv'
<1> DEFINE s == Spellings(pieces)
<1> DEFINE r == Renderings(pieces, given)
<1>1. putbuf = <<>> BY DEF LogInv, PrinterTypes, Logging!Idle
<1>2. /\ message' = [printer |-> which, pieces |-> pieces, args |-> given]
      /\ fmt' = Logging!Format(pieces) /\ args' = given /\ parser' = "chars"
      /\ out' = <<>> /\ fmtFlags' = Logging!NoFlags /\ putbuf' = putbuf
  BY DEF Logging!Begin
<1>3. FlagTypes(Logging!NoFlags)
  <2>1. Logging!NoFlags = [leadingZero |-> FALSE, before |-> -1, after |-> -1]
    BY DEF Logging!NoFlags
  <2> QED BY <2>1 DEF FlagTypes
<1>4. PrinterTypes'
  <2>1. Len(putbuf) < ALT_PUTBUF_SIZE BY DEF LogInv, PrinterTypes
  <2> QED BY <1>1, <1>2, <1>3, <2>1, EmptySeq DEF PrinterTypes
<1>5. fmt' = Rest(s, 0) /\ (out \o putbuf)' = Done(r, 0) /\ Len(pieces) \in Nat
  <2>1. IsSeq(pieces) BY Zenon DEF IsMessage
  <2>2. IsLists(s) /\ Logging!Format(pieces) = Logging!FlattenSeq(s) /\ Len(s) \in Nat
    BY <2>1, SpellingsLists
  <2>3. IsLists(r) /\ Len(r) \in Nat /\ Len(pieces) \in Nat BY RenderedSeqs
  <2>4. 0 \in 0 .. Len(s) /\ 0 \in 0 .. Len(r) BY <2>2, <2>3
  <2> HIDE DEF s, r
  <2>5. Rest(s, 0) = Logging!FlattenSeq(s) BY <2>2, <2>4, FlattenParts, Zenon
  <2>6. Done(r, 0) = <<>> BY <2>3, <2>4, FlattenParts, Zenon
  <2>7. <<>> \o <<>> = <<>> BY EmptySeq, Joined
  <2> QED BY <1>1, <1>2, <2>2, <2>3, <2>5, <2>6, <2>7
<1>6. given = SubSeq(given, Logging!Consumed(pieces, 0) + 1, Len(given))
  <2>1. IsSeq(given) BY Zenon DEF IsMessage
  <2>2. 0 \in Nat /\ 0 <= Len(given) BY <2>1, EmptySeq, Joined
  <2>3. SubSeq(given, 0 + 1, Len(given)) = given BY <2>1, <2>2, Behind
  <2>4. Logging!Consumed(pieces, 0) = 0 BY ConsumedStep
  <2> QED BY <2>3, <2>4
<1> HIDE DEF s, r
<1>7. Printing(pieces, given, 0)' BY <1>2, <1>5, <1>6, Zenon DEF Printing, s, r
<1>8. Told(which, pieces, given)' BY <1>1, <1>2, Zenon DEF Told
<1>9. 0 \in Nat /\ 0 <= Len(pieces) BY <1>5
<1>10. MessageInv' BY <1>7, <1>8, <1>9, Zenon DEF MessageInv
<1> QED BY <1>4, <1>10

\* The message that is printed, at its piece, and the printer's step to that piece or the next.
Prints(which, pieces, given, j) ==
  /\ LogInv /\ message # None /\ Told(which, pieces, given) /\ IsMessage(pieces, given)
  /\ Printing(pieces, given, j) /\ j \in Nat /\ j <= Len(pieces) /\ Len(pieces) \in Nat

LEMMA IsPrinting ==
  ASSUME LogInv, message # None
  PROVE  \E which, pieces, given, j : Prints(which, pieces, given, j)
<1>1. PICK which, pieces, given : Told(which, pieces, given)
                               /\ \E j \in Nat : j <= Len(pieces) /\ Printing(pieces, given, j)
  BY Zenon DEF LogInv, MessageInv
<1>2. PICK j \in Nat : j <= Len(pieces) /\ Printing(pieces, given, j) BY <1>1
<1>3. IsMessage(pieces, given) BY <1>1 DEF Told
<1>4. Len(pieces) \in Nat BY <1>3, RenderedSeqs
<1>5. Prints(which, pieces, given, j) BY <1>1, <1>2, <1>3, <1>4, Zenon DEF Prints
<1> QED BY <1>5

LEMMA StillPrints ==
  ASSUME NEW which, NEW pieces, NEW given, NEW j, Prints(which, pieces, given, j),
         Logging!Unchanged, PrinterTypes', which # "alt_printf" => putbuf' = <<>>,
         NEW k \in Nat, k <= Len(pieces), Printing(pieces, given, k)'
  PROVE  LogInv'
<1>1. /\ LogInv /\ Told(which, pieces, given) BY DEF Prints
<1>2. /\ logging' = logging /\ semihosting' = semihosting /\ message' = message
      /\ alt_log_write_buf' = alt_log_write_buf
      /\ alt_log_sys_clk_count' = alt_log_sys_clk_count
      /\ alt_system_clock_in_sec' = alt_system_clock_in_sec
  BY DEF Logging!Unchanged, Logging!clock
<1>3. LogTypes' BY <1>1, <1>2, Zenon DEF LogInv, LogTypes
<1>4. EchoInv' BY <1>1, <1>2, Zenon DEF LogInv, EchoInv
<1>5. Told(which, pieces, given)' BY <1>1, <1>2, Zenon DEF Told
<1>6. MessageInv' BY <1>5, Zenon DEF MessageInv
<1> QED BY <1>3, <1>4, <1>6 DEF LogInv

\* What an action of the log's printer knows.
LEMMA LogPrints ==
  ASSUME NEW which, NEW pieces, NEW given, NEW j, Prints(which, pieces, given, j), Logging!Logs
  PROVE  /\ which # "alt_printf" /\ putbuf = <<>> /\ IsSeq(out) /\ fmt # <<>>
         /\ out = Done(Renderings(pieces, given), j) /\ PrinterTypes /\ semihosting \in BOOLEAN
<1>1. Told(which, pieces, given) /\ Printing(pieces, given, j) /\ LogInv BY DEF Prints
<1>2. message.printer # "alt_printf" /\ fmt # <<>> BY DEF Logging!Logs
<1>3. message.printer = which BY <1>1 DEF Told
<1>4. putbuf = <<>> BY <1>1, <1>2, <1>3 DEF Told
<1>5. IsSeq(out) /\ PrinterTypes /\ semihosting \in BOOLEAN
  BY <1>1 DEF LogInv, PrinterTypes, LogTypes
<1>6. out \o <<>> = out BY <1>5, EmptySeq, Joined
<1>7. out \o putbuf = Done(Renderings(pieces, given), j) BY <1>1, Zenon DEF Printing
<1> QED BY <1>2, <1>3, <1>4, <1>5, <1>6, <1>7

LEMMA MessageEnd ==
  ASSUME NEW pieces, NEW given, IsMessage(pieces, given)
  PROVE  LET N == Len(pieces)
         IN  /\ Rest(Spellings(pieces), N) = <<>>
             /\ Done(Renderings(pieces, given), N) = Logging!Rendered(pieces, given)
             /\ SubSeq(given, Logging!Consumed(pieces, N) + 1, Len(given)) = <<>>
<1> DEFINE N == Len(pieces)
<1> DEFINE s == Spellings(pieces)
<1> DEFINE r == Renderings(pieces, given)
<1>1. IsSeq(pieces) /\ IsSeq(given) /\ Len(given) = Logging!Consumed(pieces, N)
  BY Zenon DEF IsMessage
<1>2. IsLists(s) /\ Len(s) = N /\ N \in Nat BY <1>1, SpellingsLists
<1>3. IsLists(r) /\ Len(r) = N /\ Logging!Rendered(pieces, given) = Logging!FlattenSeq(r)
  BY RenderedSeqs
<1> HIDE DEF s, r
<1>4. Rest(s, N) = <<>>
  <2>1. N \in 0 .. Len(s) /\ N = Len(s) BY <1>2
  <2> QED BY <1>2, <2>1, FlattenParts, Zenon
<1>5. Done(r, N) = Logging!FlattenSeq(r)
  <2>1. N \in 0 .. Len(r) /\ N = Len(r) BY <1>2, <1>3
  <2> QED BY <1>3, <2>1, FlattenParts, Zenon
<1>6. SubSeq(given, Logging!Consumed(pieces, N) + 1, Len(given)) = <<>>
  <2>1. Len(given) \in Nat BY <1>1, EmptySeq, Joined
  <2>2. Logging!Consumed(pieces, N) \in Nat /\ Logging!Consumed(pieces, N) <= Len(given)
    BY <1>1, <2>1
  <2> QED BY <1>1, <2>2, Behind
<1> QED BY <1>3, <1>4, <1>5, <1>6 DEF s, r

LEMMA AppendJoins ==
  ASSUME NEW s, IsSeq(s), NEW c
  PROVE  Append(s, c) = s \o <<c>> /\ IsSeq(Append(s, c))
<1> DEFINE T == {s[i] : i \in DOMAIN s} \cup {c}
<1>1. s \in Seq({s[i] : i \in DOMAIN s}) BY DEF IsSeq
<1>2. s \in Seq(T) /\ c \in T BY <1>1
<1> HIDE DEF T
<1>3. Append(s, c) \in Seq(T) /\ Append(s, c) = s \o <<c>> BY <1>2
<1> QED BY <1>3, SeqOf, Zenon

\* The printer is done with a piece, and has printed of it what it should.
LEMMA PieceDone ==
  ASSUME NEW which, NEW pieces, NEW given, NEW j, Prints(which, pieces, given, j), j < Len(pieces),
         Logging!Unchanged, PrinterTypes', which # "alt_printf" => putbuf' = <<>>,
         (out \o putbuf)' = (out \o putbuf) \o RenderedAt(pieces, given, j + 1),
         parser' = "chars", fmt' = Rest(Spellings(pieces), j + 1),
         args' = IF Logging!TakesArgument(pieces[j + 1].letter) THEN Tail(args) ELSE args
  PROVE  LogInv'
<1> DEFINE next == SubSeq(given, Logging!Consumed(pieces, j + 1) + 1, Len(given))
<1>1. /\ IsMessage(pieces, given) /\ Printing(pieces, given, j) /\ j \in Nat BY DEF Prints
<1>2. j + 1 \in 0 .. Len(pieces)
      /\ Done(Renderings(pieces, given), j + 1)
           = Done(Renderings(pieces, given), j) \o RenderedAt(pieces, given, j + 1)
      /\ next = IF Logging!TakesArgument(pieces[j + 1].letter)
                THEN Tail(SubSeq(given, Logging!Consumed(pieces, j) + 1, Len(given)))
                ELSE SubSeq(given, Logging!Consumed(pieces, j) + 1, Len(given))
  BY <1>1, NextPiece, Zenon
<1>3. out \o putbuf = Done(Renderings(pieces, given), j)
      /\ args = SubSeq(given, Logging!Consumed(pieces, j) + 1, Len(given))
  BY <1>1, Zenon DEF Printing
<1>4. args' = next BY <1>2, <1>3, Zenon
<1> HIDE DEF next
<1>5. (out \o putbuf)' = Done(Renderings(pieces, given), j + 1) BY <1>2, <1>3, Zenon
<1>6. Printing(pieces, given, j + 1)' BY <1>4, <1>5, Zenon DEF Printing, next
<1>7. j + 1 \in Nat /\ j + 1 <= Len(pieces) BY <1>1, <1>2 DEF Prints
<1> QED BY <1>6, <1>7, StillPrints

LEMMA CharsInv ==
  ASSUME LogInv, Logging!Chars
  PROVE  LogInv'
<1>1. message # None /\ Logging!Logs /\ parser = "chars" /\ Logging!Unchanged
  BY DEF Logging!Chars, Logging!Logs
<1>2. PICK which, pieces, given, j : Prints(which, pieces, given, j) BY <1>1, IsPrinting
<1>3. /\ which # "alt_printf" /\ putbuf = <<>> /\ IsSeq(out) /\ fmt # <<>>
      /\ PrinterTypes /\ semihosting \in BOOLEAN
  BY <1>1, <1>2, LogPrints
<1>4. /\ IsMessage(pieces, given) /\ Printing(pieces, given, j) /\ j \in Nat
      /\ j <= Len(pieces) /\ Len(pieces) \in Nat
  BY <1>2 DEF Prints
<1>5. fmt = Rest(Spellings(pieces), j)
  <2>1. parser \notin {"firstFmtChar", "otherFmtChar"} BY <1>1
  <2> QED BY <1>4, <2>1, Zenon DEF Printing
<1>6. j < Len(pieces)
  <2>1. j # Len(pieces) BY <1>3, <1>4, <1>5, MessageEnd
  <2> QED BY <1>4, <2>1
<1> DEFINE p == pieces[j + 1]
<1> DEFINE rest == Rest(Spellings(pieces), j + 1)
<1>7. fmt = Logging!Spelling(p) \o rest /\ IsSeq(rest) BY <1>4, <1>5, <1>6, NextPiece, Zenon
<1>8. args' = args /\ putbuf' = putbuf BY DEF Logging!Chars
<1>9. CASE p.letter = "literal"
  <2>1. Logging!Spelling(p) = <<Logging!Ch("literal")>> BY <1>9, Zenon DEF Logging!Spelling
  <2>2. Logging!char = Logging!Ch("literal") /\ Tail(fmt) = rest
    BY <1>7, <2>1, OneFirst DEF Logging!char
  <2>3. Logging!Ch("literal") # Logging!Ch("%") BY DEF Logging!Ch
  <2>4. fmt' = rest /\ parser' = "chars" /\ out' = Append(out, Logging!Ch("literal"))
        /\ fmtFlags' = fmtFlags
    BY <2>2, <2>3, Zenon DEF Logging!Chars, Logging!Advance
  <2>5. ~Logging!TakesArgument(p.letter) BY <1>9, LiteralPiece
  <2>6. RenderedAt(pieces, given, j + 1) = <<Logging!Ch("literal")>>
    <3>1. RenderedAt(pieces, given, j + 1)
            = IF p.letter \in {"literal", "%"} THEN <<Logging!Ch(p.letter)>> ELSE <<>>
      BY <1>4, <1>6, <2>5, NextPiece, Zenon
    <3> QED BY <1>9, <3>1, Zenon
  <2>7. out' = out \o <<Logging!Ch("literal")>> /\ IsSeq(out') BY <1>3, <2>4, AppendJoins
  <2>8. (out \o putbuf)' = (out \o putbuf) \o <<Logging!Ch("literal")>>
    <3>1. out' \o <<>> = out' /\ out \o <<>> = out BY <1>3, <2>7, EmptySeq, Joined
    <3> QED BY <1>3, <1>8, <2>7, <3>1, Zenon
  <2>9. PrinterTypes'
    BY <1>1, <1>3, <1>8, <2>4, <2>7, Zenon DEF PrinterTypes, Logging!Unchanged
  <2>10. args' = IF Logging!TakesArgument(p.letter) THEN Tail(args) ELSE args BY <1>8, <2>5
  <2> HIDE DEF p, rest
  <2> QED BY <1>1, <1>2, <1>3, <1>6, <1>8, <2>4, <2>6, <2>8, <2>9, <2>10, PieceDone, Zenon DEF p, rest
<1>10. CASE p.letter # "literal"
  <2>1. fmt = <<Logging!Ch("%")>> \o FromZero(p, rest) /\ IsSeq(FromZero(p, rest))
    BY <1>7, <1>10, SpellingFrom, Zenon
  <2>2. Logging!char = Logging!Ch("%") /\ Tail(fmt) = FromZero(p, rest)
    BY <2>1, OneFirst DEF Logging!char
  <2>3. fmt' = FromZero(p, rest) /\ parser' = "firstFmtChar" /\ out' = out
        /\ fmtFlags' = Logging!NoFlags
    BY <2>2, Zenon DEF Logging!Chars, Logging!Advance
  <2>4. FlagTypes(Logging!NoFlags)
    <3>1. Logging!NoFlags = [leadingZero |-> FALSE, before |-> -1, after |-> -1]
      BY DEF Logging!NoFlags
    <3> QED BY <3>1 DEF FlagTypes
  <2>5. PrinterTypes' BY <1>1, <1>3, <1>8, <2>3, <2>4, Zenon DEF PrinterTypes, Logging!Unchanged
  <2>6. message'.printer # "alt_printf"
    <3>1. message' = message BY <1>1 DEF Logging!Unchanged
    <3> QED BY <1>1, <3>1 DEF Logging!Logs
  <2>7. Printing(pieces, given, j)'
    BY <1>4, <1>6, <1>8, <1>10, <2>3, <2>6, Zenon DEF Printing
  <2> QED BY <1>1, <1>2, <1>3, <1>4, <1>8, <2>5, <2>7, StillPrints
<1> QED BY <1>9, <1>10

\* The conversion that the printer is in.
LEMMA PrintsConversion ==
  ASSUME NEW which, NEW pieces, NEW given, NEW j, Prints(which, pieces, given, j),
         parser \in {"firstFmtChar", "otherFmtChar"}
  PROVE  LET p == pieces[j + 1]
             rest == Rest(Spellings(pieces), j + 1)
         IN  /\ j < Len(pieces) /\ p.letter # "literal" /\ Logging!IsPiece(p)
             /\ IsSeq(rest) /\ CutOff(p, rest) /\ FlagTypes(fmtFlags)
             /\ parser = "firstFmtChar" => fmt = FromZero(p, rest) /\ fmtFlags = Logging!NoFlags
             /\ parser # "firstFmtChar" => p.letter # "%" /\ Converting(p, fmtFlags, fmt, rest)
<1>1. /\ IsMessage(pieces, given) /\ Printing(pieces, given, j) /\ j \in Nat /\ LogInv
  BY DEF Prints
<1>2. parser # "chars" OBVIOUS
<1>3. /\ j < Len(pieces) /\ pieces[j + 1].letter # "literal"
      /\ LET p == pieces[j + 1]
             rest == Rest(Spellings(pieces), j + 1)
         IN  IF parser = "firstFmtChar" THEN fmt = FromZero(p, rest) /\ fmtFlags = Logging!NoFlags
             ELSE p.letter # "%" /\ Converting(p, fmtFlags, fmt, rest)
  BY <1>1, <1>2, Zenon DEF Printing
<1>4. FlagTypes(fmtFlags) BY <1>1 DEF LogInv, PrinterTypes
<1>5. /\ Logging!IsPiece(pieces[j + 1]) /\ IsSeq(Rest(Spellings(pieces), j + 1))
      /\ CutOff(pieces[j + 1], Rest(Spellings(pieces), j + 1))
  BY <1>1, <1>3, NextPiece, Zenon
<1> QED BY <1>3, <1>4, <1>5, Zenon

LEMMA FirstFmtCharInv ==
  ASSUME LogInv, Logging!FirstFmtChar
  PROVE  LogInv'
<1>1. /\ message # None /\ Logging!Logs /\ parser = "firstFmtChar" /\ Logging!Unchanged
      /\ Logging!char \in {Logging!Digit(0), Logging!Ch("%")} /\ args' = args /\ putbuf' = putbuf
      /\ message.printer # "alt_printf"
  BY DEF Logging!FirstFmtChar, Logging!Logs
<1>2. PICK which, pieces, given, j : Prints(which, pieces, given, j) BY <1>1, IsPrinting
<1>3. /\ which # "alt_printf" /\ putbuf = <<>> /\ IsSeq(out) /\ fmt # <<>>
      /\ PrinterTypes /\ semihosting \in BOOLEAN
  BY <1>1, <1>2, LogPrints
<1>4. /\ IsMessage(pieces, given) /\ Printing(pieces, given, j) /\ j \in Nat
      /\ j <= Len(pieces) /\ Len(pieces) \in Nat
  BY <1>2 DEF Prints
<1> DEFINE p == pieces[j + 1]
<1> DEFINE rest == Rest(Spellings(pieces), j + 1)
<1>5. /\ j < Len(pieces) /\ p.letter # "literal" /\ Logging!IsPiece(p)
      /\ IsSeq(rest) /\ CutOff(p, rest) /\ FlagTypes(fmtFlags)
      /\ fmt = FromZero(p, rest) /\ fmtFlags = Logging!NoFlags
  BY <1>1, <1>2, PrintsConversion
<1>6. Logging!char = Head(fmt) BY DEF Logging!char
<1>7. Logging!Digit(0) # Logging!Ch("%") BY DEF Logging!Digit, Logging!Ch
<1> HIDE DEF p, rest
<1>8. \/ /\ p.zero /\ Head(fmt) = Logging!Digit(0)
         /\ p.letter # "%" /\ Tail(fmt) = FromWidth(p, rest)
      \/ p.letter = "%" /\ Head(fmt) = Logging!Ch("%") /\ Tail(fmt) = rest
  BY <1>1, <1>3, <1>5, <1>6, FirstOutcome, Zenon
<1>9. CASE p.letter = "%" /\ Head(fmt) = Logging!Ch("%") /\ Tail(fmt) = rest
  <2>1. fmt' = rest /\ parser' = "chars" /\ out' = Append(out, Logging!Ch("%"))
        /\ fmtFlags' = fmtFlags
    BY <1>6, <1>9, Zenon DEF Logging!FirstFmtChar, Logging!Advance
  <2>2. ~Logging!TakesArgument(p.letter)
    BY <1>9 DEF Logging!TakesArgument, Logging!Numbers, Logging!Signed
  <2>3. RenderedAt(pieces, given, j + 1) = <<Logging!Ch("%")>>
    <3>1. RenderedAt(pieces, given, j + 1)
            = IF p.letter \in {"literal", "%"} THEN <<Logging!Ch(p.letter)>> ELSE <<>>
      BY <1>4, <1>5, <2>2, NextPiece, Zenon DEF p
    <3> QED BY <1>9, <3>1, Zenon
  <2>4. out' = out \o <<Logging!Ch("%")>> /\ IsSeq(out') BY <1>3, <2>1, AppendJoins
  <2>5. (out \o putbuf)' = (out \o putbuf) \o <<Logging!Ch("%")>>
    <3>1. out' \o <<>> = out' /\ out \o <<>> = out BY <1>3, <2>4, EmptySeq, Joined
    <3> QED BY <1>1, <1>3, <2>4, <3>1, Zenon
  <2>6. PrinterTypes'
    BY <1>1, <1>3, <2>1, <2>4, Zenon DEF PrinterTypes, Logging!Unchanged
  <2>7. args' = IF Logging!TakesArgument(p.letter) THEN Tail(args) ELSE args BY <1>1, <2>2
  <2> QED BY <1>1, <1>2, <1>3, <1>5, <2>1, <2>3, <2>5, <2>6, <2>7, PieceDone, Zenon DEF p, rest
<1>10. CASE /\ p.zero /\ Head(fmt) = Logging!Digit(0)
            /\ p.letter # "%" /\ Tail(fmt) = FromWidth(p, rest)
  <2> DEFINE flags == [fmtFlags EXCEPT !.leadingZero = TRUE]
  <2>1. fmt' = FromWidth(p, rest) /\ parser' = "otherFmtChar" /\ out' = out /\ fmtFlags' = flags
    BY <1>6, <1>7, <1>10, Zenon DEF Logging!FirstFmtChar, Logging!Advance
  <2>2. flags = [leadingZero |-> TRUE, before |-> -1, after |-> -1]
    <3>1. fmtFlags = [leadingZero |-> FALSE, before |-> -1, after |-> -1]
      BY <1>5, Zenon DEF Logging!NoFlags
    <3>2. \A z : [[leadingZero |-> FALSE, before |-> -1, after |-> -1] EXCEPT !.leadingZero = z]
            = [leadingZero |-> z, before |-> -1, after |-> -1]
      OBVIOUS
    <3> QED BY <3>1, <3>2, Zenon
  <2> HIDE DEF flags
  <2>3. flags.leadingZero = TRUE /\ flags.before = -1 /\ flags.after = -1 BY <2>2
  <2>4. FlagTypes(flags) BY <2>2 DEF FlagTypes
  <2>5. Converting(p, flags, FromWidth(p, rest), rest)
    <3>1. p.zero = TRUE BY <1>5, <1>10, PieceTypes
    <3> QED BY <2>3, <3>1, Zenon DEF Converting, AtWidth
  <2>6. PrinterTypes' BY <1>1, <1>3, <2>1, <2>4, Zenon DEF PrinterTypes, Logging!Unchanged
  <2>7. message' = message BY <1>1 DEF Logging!Unchanged
  <2>8. Printing(pieces, given, j)'
    <3>1. parser' \in {"firstFmtChar", "otherFmtChar"} /\ parser' # "firstFmtChar" BY <2>1
    <3>2. out' \o putbuf' = Done(Renderings(pieces, given), j)
          /\ args' = SubSeq(given, Logging!Consumed(pieces, j) + 1, Len(given))
      BY <1>1, <1>4, <2>1, Zenon DEF Printing
    <3>3. Converting(p, fmtFlags', fmt', rest) BY <2>1, <2>5, Zenon
    <3> QED BY <1>1, <1>5, <1>10, <2>7, <3>1, <3>2, <3>3, Zenon DEF Printing, p, rest
  <2> QED BY <1>1, <1>2, <1>3, <1>4, <2>6, <2>8, StillPrints
<1> QED BY <1>8, <1>9, <1>10

\* A step in a conversion, at its first character or behind it.
LEMMA InsideConversion ==
  ASSUME NEW which, NEW pieces, NEW given, NEW j, Prints(which, pieces, given, j),
         Logging!InConversion
  PROVE  LET p == pieces[j + 1]
             rest == Rest(Spellings(pieces), j + 1)
         IN  /\ j < Len(pieces) /\ p.letter # "literal" /\ p.letter # "%" /\ Logging!IsPiece(p)
             /\ IsSeq(rest) /\ CutOff(p, rest) /\ FlagTypes(fmtFlags)
             /\ Modifies(p, fmtFlags, fmt, rest) \/ Converts(p, fmtFlags, fmt, rest)
<1> DEFINE p == pieces[j + 1]
<1> DEFINE rest == Rest(Spellings(pieces), j + 1)
<1>1. /\ parser \in {"firstFmtChar", "otherFmtChar"} /\ fmt # <<>>
      /\ parser = "firstFmtChar" => Head(fmt) \notin {Logging!Digit(0), Logging!Ch("%")}
  BY DEF Logging!InConversion, Logging!Logs, Logging!char
<1>2. /\ j < Len(pieces) /\ p.letter # "literal" /\ Logging!IsPiece(p)
      /\ IsSeq(rest) /\ CutOff(p, rest) /\ FlagTypes(fmtFlags)
      /\ parser = "firstFmtChar" => fmt = FromZero(p, rest) /\ fmtFlags = Logging!NoFlags
      /\ parser # "firstFmtChar" => p.letter # "%" /\ Converting(p, fmtFlags, fmt, rest)
  BY <1>1, PrintsConversion
<1> HIDE DEF p, rest
<1>3. p.letter # "%" /\ Converting(p, fmtFlags, fmt, rest)
  <2>1. CASE parser = "firstFmtChar"
    <3>1. fmt = FromZero(p, rest) /\ Head(fmt) # Logging!Digit(0) /\ Head(fmt) # Logging!Ch("%")
          /\ fmtFlags = Logging!NoFlags
      BY <1>1, <1>2, <2>1
    <3> QED BY <1>2, <3>1, FirstOutcome, Zenon
  <2> QED BY <1>2, <2>1
<1>4. Outcome(p, fmtFlags, fmt, rest) BY <1>2, <1>3, CharOutcome, Zenon
<1>5. ~(p.letter = "" /\ fmt = rest) BY <1>1, <1>2, Zenon DEF CutOff
<1>6. Modifies(p, fmtFlags, fmt, rest) \/ Converts(p, fmtFlags, fmt, rest)
  BY <1>4, <1>5, Zenon DEF Outcome
<1> QED BY <1>2, <1>3, <1>6, Zenon DEF p, rest

LEMMA FmtModifierInv ==
  ASSUME LogInv, Logging!FmtModifier
  PROVE  LogInv'
<1>1. /\ message # None /\ Logging!Logs /\ Logging!InConversion /\ Logging!Unchanged
      /\ args' = args /\ putbuf' = putbuf /\ out' = out
      /\ message.printer # "alt_printf" /\ Head(fmt)[1] \in {".", "digit", "l"}
      /\ fmt' = Tail(fmt) /\ parser' = "otherFmtChar" /\ fmtFlags' = Modified(fmtFlags, Head(fmt))
  BY DEF Logging!FmtModifier, Logging!InConversion, Logging!Logs, Logging!char, Logging!Advance,
         Modified
<1>2. PICK which, pieces, given, j : Prints(which, pieces, given, j) BY <1>1, IsPrinting
<1>3. /\ which # "alt_printf" /\ putbuf = <<>> /\ IsSeq(out) /\ PrinterTypes
  BY <1>1, <1>2, LogPrints
<1>4. /\ Printing(pieces, given, j) /\ j \in Nat /\ j <= Len(pieces) BY <1>2 DEF Prints
<1> DEFINE p == pieces[j + 1]
<1> DEFINE rest == Rest(Spellings(pieces), j + 1)
<1>5. /\ j < Len(pieces) /\ p.letter # "literal" /\ p.letter # "%"
      /\ Modifies(p, fmtFlags, fmt, rest) \/ Converts(p, fmtFlags, fmt, rest)
  BY <1>1, <1>2, InsideConversion
<1> HIDE DEF p, rest
<1>6. Modifies(p, fmtFlags, fmt, rest) BY <1>1, <1>5, Zenon DEF Converts
<1>7. FlagTypes(fmtFlags') /\ Converting(p, fmtFlags', fmt', rest)
  BY <1>1, <1>6, Zenon DEF Modifies
<1>8. PrinterTypes' BY <1>1, <1>3, <1>7, Zenon DEF PrinterTypes, Logging!Unchanged
<1>9. message' = message BY <1>1 DEF Logging!Unchanged
<1>10. Printing(pieces, given, j)'
  <2>1. parser' \in {"firstFmtChar", "otherFmtChar"} /\ parser' # "firstFmtChar" BY <1>1
  <2>2. out' \o putbuf' = Done(Renderings(pieces, given), j)
        /\ args' = SubSeq(given, Logging!Consumed(pieces, j) + 1, Len(given))
    BY <1>1, <1>4, Zenon DEF Printing
  <2> QED BY <1>1, <1>5, <1>7, <1>9, <2>1, <2>2, Zenon DEF Printing, p, rest
<1> QED BY <1>1, <1>2, <1>3, <1>4, <1>8, <1>10, StillPrints

\* What a conversion prints is its field.
LEMMA ConversionPrints ==
  ASSUME NEW p, NEW arg, NEW flags, Logging!IsPiece(p), Logging!TakesArgument(p.letter),
         Fits(p.letter, arg), flags = fmtFlags, flags.leadingZero = p.zero, flags.before = p.width
  PROVE  Logging!Field(p, arg) =
           CASE p.letter \in Logging!Numbers -> Logging!IntegerPrint(p.letter, arg)
             [] p.letter = "c" ->
                  Logging!alt_log_repchar(Logging!Ch(" "), fmtFlags.before - 1) \o <<arg>>
             [] p.letter = "s" ->
                  Logging!alt_log_repchar(Logging!Ch(" "), fmtFlags.before - Len(arg)) \o arg
             [] OTHER -> <<>>
<1> DEFINE minus == p.letter \in Logging!Signed /\ Logging!Negative(arg)
<1> DEFINE number == Logging!Digits(Logging!Magnitude(arg, p.letter \in Logging!Signed),
                                    Logging!Base(p.letter), p.letter = "X")
<1> DEFINE sign == IF minus THEN <<Logging!Ch("-")>> ELSE <<>>
<1> DEFINE blank == Logging!Ch(" ")
<1> DEFINE nought == Logging!Digit(0)
<1> DEFINE Right(c, n) == Logging!Repeat(c, p.width - n)
<1>1. p.width \in Int BY PieceTypes
<1>2. sign = (IF minus THEN <<Logging!Ch("-")>> ELSE <<>>) /\ IsSeq(sign)
      /\ Len(sign) = IF minus THEN 1 ELSE 0
  BY OneSeq, EmptySeq
<1>3. CASE p.letter \in Logging!Numbers
  <2>1. IsSeq(number) /\ Len(number) \in Nat
    <3>1. IsSeq(number) BY <1>3, DigitsSeq DEF Fits
    <3> QED BY <3>1, EmptySeq, Joined
  <2>0. p.letter # "c" /\ p.letter # "s" BY <1>3 DEF Logging!Numbers, Logging!Signed
  <2> DEFINE body == CASE p.letter \in Logging!Numbers -> number
                       [] p.letter = "c" -> <<arg>>
                       [] p.letter = "s" -> arg
  <2> DEFINE missing == p.width - Len(number) - Len(sign)
  <2> DEFINE before == fmtFlags.before - Len(number) - (IF minus THEN 1 ELSE 0)
  <2>2. missing = before
    <3> HIDE DEF number, sign, minus
    <3> QED BY <1>2
  <2>3. Logging!Field(p, arg) =
          IF p.zero THEN (sign \o Logging!Repeat(nought, missing)) \o number
          ELSE (Logging!Repeat(blank, missing) \o sign) \o number
    <3>1. Logging!Field(p, arg) =
            IF p.letter \in Logging!Numbers /\ p.zero
            THEN (sign \o Logging!Repeat(nought, p.width - Len(body) - Len(sign))) \o body
            ELSE (Logging!Repeat(blank, p.width - Len(body) - Len(sign)) \o sign) \o body
      BY DEF Logging!Field
    <3> HIDE DEF number, sign
    <3>2. body = number BY <1>3, <2>0, Zenon
    <3> HIDE DEF body
    <3> QED BY <1>3, <3>1, <3>2, Zenon
  <2>4. Logging!IntegerPrint(p.letter, arg) =
          IF fmtFlags.leadingZero THEN (sign \o Logging!Repeat(nought, before)) \o number
          ELSE (Logging!Repeat(blank, before) \o sign) \o number
    BY Zenon DEF Logging!IntegerPrint, Logging!alt_log_repchar
  <2> HIDE DEF number, sign, minus, missing, before, blank, nought
  <2>5. Logging!Field(p, arg) = Logging!IntegerPrint(p.letter, arg) BY <2>2, <2>3, <2>4, Zenon
  <2> QED BY <1>3, <2>0, <2>5, Zenon
<1>4. CASE p.letter = "c"
  <2>1. p.letter \notin Logging!Numbers /\ p.letter \notin Logging!Signed
    BY <1>4 DEF Logging!Numbers, Logging!Signed
  <2>2. Len(<<arg>>) = 1 /\ Len(<<>>) = 0 BY OneSeq, EmptySeq
  <2>3. Logging!Field(p, arg)
          = (Logging!Repeat(blank, p.width - Len(<<arg>>) - Len(<<>>)) \o <<>>) \o <<arg>>
    BY <1>4, <2>1, Zenon DEF Logging!Field
  <2> HIDE DEF blank
  <2>4. p.width - Len(<<arg>>) - Len(<<>>) = p.width - 1 /\ p.width - 1 \in Int BY <1>1, <2>2
  <2>5. IsSeq(Logging!Repeat(blank, p.width - 1)) BY <2>4, RepeatSeq
  <2>6. Logging!Repeat(blank, p.width - 1) \o <<>> = Logging!Repeat(blank, p.width - 1)
    BY <2>5, EmptySeq, Joined
  <2>7. Logging!Field(p, arg) = Logging!Repeat(blank, fmtFlags.before - 1) \o <<arg>>
    BY <2>3, <2>4, <2>6, Zenon
  <2> QED BY <1>4, <2>1, <2>7, Zenon DEF Logging!alt_log_repchar, blank
<1>5. CASE p.letter = "s"
  <2>1. p.letter \notin Logging!Numbers /\ p.letter \notin Logging!Signed /\ p.letter # "c"
    BY <1>5 DEF Logging!Numbers, Logging!Signed
  <2>2. Len(arg) \in Nat /\ Len(<<>>) = 0
    <3>1. IsSeq(arg) BY <1>5, Zenon DEF Fits
    <3> QED BY <3>1, EmptySeq, Joined
  <2>3. Logging!Field(p, arg)
          = (Logging!Repeat(blank, p.width - Len(arg) - Len(<<>>)) \o <<>>) \o arg
    BY <1>5, <2>1, Zenon DEF Logging!Field
  <2> HIDE DEF blank
  <2>4. p.width - Len(arg) - Len(<<>>) = p.width - Len(arg) /\ p.width - Len(arg) \in Int
    BY <1>1, <2>2
  <2>5. IsSeq(Logging!Repeat(blank, p.width - Len(arg))) BY <2>4, RepeatSeq
  <2>6. Logging!Repeat(blank, p.width - Len(arg)) \o <<>> = Logging!Repeat(blank, p.width - Len(arg))
    BY <2>5, EmptySeq, Joined
  <2>7. Logging!Field(p, arg) = Logging!Repeat(blank, fmtFlags.before - Len(arg)) \o arg
    BY <2>3, <2>4, <2>6, Zenon
  <2> QED BY <1>5, <2>1, <2>7, Zenon DEF Logging!alt_log_repchar, blank
<1> QED BY <1>3, <1>4, <1>5, Zenon DEF Logging!TakesArgument

LEMMA ConversionInv ==
  ASSUME LogInv, Logging!Conversion
  PROVE  LogInv'
<1> DEFINE X(c, arg) ==
      CASE c \in Logging!Numbers -> Logging!IntegerPrint(c, arg)
        [] c = "c" -> Logging!alt_log_repchar(Logging!Ch(" "), fmtFlags.before - 1) \o <<arg>>
        [] c = "s" -> Logging!alt_log_repchar(Logging!Ch(" "), fmtFlags.before - Len(arg)) \o arg
        [] OTHER -> <<>>
<1>1. /\ message # None /\ Logging!Logs /\ Logging!InConversion /\ Logging!Unchanged
      /\ putbuf' = putbuf /\ fmtFlags' = fmtFlags
      /\ Head(fmt)[1] \notin {".", "digit", "l"}
      /\ fmt' = Tail(fmt) /\ parser' = "chars" /\ out' = out \o X(Head(fmt)[1], Head(args))
      /\ args' = IF Logging!TakesArgument(Head(fmt)[1]) THEN Tail(args) ELSE args
  BY Zenon DEF Logging!Conversion, Logging!InConversion, Logging!Logs, Logging!char, Logging!Advance
<1>2. PICK which, pieces, given, j : Prints(which, pieces, given, j)
  BY <1>1, IsPrinting, Zenon
<1>3. /\ which # "alt_printf" /\ putbuf = <<>> /\ IsSeq(out) /\ PrinterTypes
  BY <1>1, <1>2, LogPrints, Zenon
<1>4. /\ IsMessage(pieces, given) /\ Printing(pieces, given, j) /\ j \in Nat
  BY <1>2, Zenon DEF Prints
<1> DEFINE p == pieces[j + 1]
<1> DEFINE rest == Rest(Spellings(pieces), j + 1)
<1> DEFINE text == RenderedAt(pieces, given, j + 1)
<1>5. /\ j < Len(pieces) /\ p.letter # "literal" /\ p.letter # "%" /\ Logging!IsPiece(p)
      /\ Modifies(p, fmtFlags, fmt, rest) \/ Converts(p, fmtFlags, fmt, rest)
  BY <1>1, <1>2, InsideConversion, Zenon
<1>6. /\ args = SubSeq(given, Logging!Consumed(pieces, j) + 1, Len(given))
  BY <1>4, Zenon DEF Printing
<1>7. /\ Logging!TakesArgument(p.letter) =>
           Fits(p.letter, Head(args)) /\ text = Logging!Field(p, Head(args))
      /\ ~Logging!TakesArgument(p.letter) =>
           text = IF p.letter \in {"literal", "%"} THEN <<Logging!Ch(p.letter)>> ELSE <<>>
  <2>1. j < Len(pieces) BY <1>5, Zenon
  <2> QED BY <1>4, <1>6, <2>1, NextPiece, Zenon
<1> HIDE DEF p, rest, text
<1>8. Converts(p, fmtFlags, fmt, rest) BY <1>1, <1>5, Zenon DEF Modifies
<1>9. /\ Head(fmt)[1] = p.letter /\ fmt' = rest
      /\ fmtFlags.leadingZero = p.zero /\ fmtFlags.before = p.width
  BY <1>1, <1>8, Zenon DEF Converts
<1>10. out' = out \o X(p.letter, Head(args)) BY <1>1, <1>9, Zenon
<1>11. X(p.letter, Head(args)) = text
  <2>1. CASE Logging!TakesArgument(p.letter)
    <3>1. Fits(p.letter, Head(args)) BY <1>7, <2>1, Zenon
    <3>2. Logging!Field(p, Head(args)) = X(p.letter, Head(args))
      BY <1>5, <1>9, <2>1, <3>1, ConversionPrints, Zenon
    <3> QED BY <1>7, <2>1, <3>2, Zenon
  <2>2. CASE ~Logging!TakesArgument(p.letter)
    <3>1. p.letter \notin Logging!Numbers /\ p.letter # "c" /\ p.letter # "s"
      BY <2>2, Zenon DEF Logging!TakesArgument
    <3>2. X(p.letter, Head(args)) = <<>> BY <3>1, Zenon
    <3>3. p.letter \notin {"literal", "%"} BY <1>5, Zenon
    <3> QED BY <1>7, <2>2, <3>2, <3>3, Zenon
  <2> QED BY <2>1, <2>2, Zenon
<1> HIDE DEF X
<1>12. IsSeq(text)
  <2>1. CASE Logging!TakesArgument(p.letter) BY <1>5, <1>7, <2>1, FieldSeq, Zenon
  <2>2. CASE ~Logging!TakesArgument(p.letter) BY <1>7, <2>2, OneSeq, EmptySeq, Zenon
  <2> QED BY <2>1, <2>2
<1>13. out' = out \o text /\ IsSeq(out') BY <1>3, <1>10, <1>11, <1>12, Joined
<1>14. (out \o putbuf)' = (out \o putbuf) \o text
  <2>1. out' \o <<>> = out' /\ out \o <<>> = out BY <1>3, <1>13, EmptySeq, Joined
  <2> QED BY <1>1, <1>3, <1>13, <2>1, Zenon
<1>15. PrinterTypes' BY <1>1, <1>3, <1>13, Zenon DEF PrinterTypes, Logging!Unchanged
<1>16. args' = IF Logging!TakesArgument(p.letter) THEN Tail(args) ELSE args
  BY <1>1, <1>9, Zenon
<1> QED BY <1>1, <1>2, <1>3, <1>5, <1>9, <1>14, <1>15, <1>16, PieceDone, Zenon DEF p, rest, text

LEMMA EndOfFormatInv ==
  ASSUME LogInv, Logging!EndOfFormat
  PROVE  LogInv'
<1>1. /\ message' = None /\ parser' = "idle" /\ fmtFlags' = Logging!NoFlags /\ out' = <<>>
      /\ logging' = logging /\ semihosting' = semihosting /\ putbuf' = putbuf /\ putbuf = <<>>
      /\ alt_log_write_buf' = alt_log_write_buf
      /\ alt_log_sys_clk_count' = alt_log_sys_clk_count
      /\ alt_system_clock_in_sec' = alt_system_clock_in_sec
  BY DEF Logging!EndOfFormat, Logging!clock
<1>2. FlagTypes(Logging!NoFlags)
  <2>1. Logging!NoFlags = [leadingZero |-> FALSE, before |-> -1, after |-> -1]
    BY DEF Logging!NoFlags
  <2> QED BY <2>1 DEF FlagTypes
<1>3. LogTypes' BY <1>1, Zenon DEF LogInv, LogTypes
<1>4. EchoInv' BY <1>1, Zenon DEF LogInv, EchoInv
<1>5. PrinterTypes' BY <1>1, <1>2, EmptySeq, Zenon DEF LogInv, PrinterTypes
<1>6. MessageInv' BY <1>1, Zenon DEF MessageInv
<1> QED BY <1>3, <1>4, <1>5, <1>6 DEF LogInv

\* alt_printf: characters go to the host at once, or a buffer at a time.
LEMMA SplitAt ==
  ASSUME NEW s, IsSeq(s), NEW k \in Nat, k <= Len(s)
  PROVE  LET a == SubSeq(s, 1, k)
             b == SubSeq(s, k + 1, Len(s))
         IN  /\ IsSeq(a) /\ IsSeq(b) /\ a \o b = s /\ Len(a) = k /\ Len(b) = Len(s) - k
             /\ \A i \in 1 .. k : a[i] = s[i]
             /\ \A i \in 1 .. (Len(s) - k) : b[i] = s[k + i]
<1> DEFINE T == {s[i] : i \in DOMAIN s}
<1> DEFINE n == Len(s)
<1> DEFINE a == SubSeq(s, 1, k)
<1> DEFINE b == SubSeq(s, k + 1, n)
<1>1. s \in Seq(T) /\ n \in Nat BY DEF IsSeq
<1>2. n = Len(s) OBVIOUS
<1> HIDE DEF n, T
<1>3. a \in Seq(T) /\ Len(a) = k /\ \A i \in 1 .. k : a[i] = s[i] BY <1>1, <1>2
<1>4. b \in Seq(T) /\ Len(b) = n - k /\ \A i \in 1 .. (n - k) : b[i] = s[k + i] BY <1>1, <1>2
<1> HIDE DEF a, b
<1> DEFINE ab == a \o b
<1>5. ab \in Seq(T) /\ Len(ab) = n BY <1>1, <1>2, <1>3, <1>4
<1>6. ASSUME NEW i \in 1 .. n PROVE ab[i] = s[i]
  <2>1. CASE i <= k BY <1>1, <1>3, <1>4, <2>1
  <2>2. CASE i > k
    <3>1. ab[i] = b[i - k] BY <1>1, <1>3, <1>4, <2>2
    <3>2. i - k \in 1 .. (n - k) /\ k + (i - k) = i BY <1>1, <2>2
    <3> QED BY <1>4, <3>1, <3>2
  <2>3. i <= k \/ i > k BY <1>1
  <2> QED BY <2>1, <2>2, <2>3, Zenon
<1> HIDE DEF ab
<1>7. ab = s BY <1>1, <1>2, <1>5, <1>6
<1>8. IsSeq(a) /\ IsSeq(b) BY <1>3, <1>4, SeqOf
<1> QED BY <1>2, <1>3, <1>4, <1>7, <1>8, Zenon DEF n, a, b, ab

LEMMA LastMultiple ==
  ASSUME NEW n \in Nat, NEW m \in Nat \ {0}
  PROVE  LET f == m * (n \div m) IN f \in Nat /\ f <= n /\ n - f < m
OBVIOUS

LEMMA PutSays ==
  ASSUME NEW chars, IsSeq(chars), PrinterTypes, parser # "idle", Logging!Put(chars)
  PROVE  /\ IsSeq(out') /\ IsSeq(putbuf') /\ Len(putbuf') < ALT_PUTBUF_SIZE
         /\ ~semihosting => putbuf' = <<>>
         /\ (out \o putbuf)' = (out \o putbuf) \o chars
<1>1. IsSeq(out) /\ IsSeq(putbuf) /\ (~semihosting => putbuf = <<>>)
      /\ Len(putbuf) < ALT_PUTBUF_SIZE
  BY DEF PrinterTypes
<1>2. ALT_PUTBUF_SIZE \in Nat \ {0} BY LogAssumption
<1>3. CASE ~semihosting
  <2>1. out' = out \o chars /\ putbuf' = putbuf /\ putbuf = <<>>
    BY <1>1, <1>3 DEF Logging!Put, Logging!alt_putchar
  <2>2. IsSeq(out \o chars) BY <1>1, Joined
  <2>3. (out \o chars) \o <<>> = out \o chars /\ out \o <<>> = out
    BY <1>1, <2>2, EmptySeq, Joined
  <2> QED BY <1>1, <2>1, <2>2, <2>3, Zenon
<1>4. CASE semihosting
  <2> DEFINE kept == putbuf \o chars
  <2> DEFINE full == ALT_PUTBUF_SIZE * (Len(kept) \div ALT_PUTBUF_SIZE)
  <2>1. out' = out \o SubSeq(kept, 1, full) /\ putbuf' = SubSeq(kept, full + 1, Len(kept))
    BY <1>4, Zenon DEF Logging!Put, Logging!alt_putcharbuf
  <2>2. IsSeq(kept) /\ Len(kept) \in Nat
    <3>1. IsSeq(kept) BY <1>1, Joined
    <3> QED BY <3>1, EmptySeq, Joined
  <2> HIDE DEF kept
  <2>3. full \in Nat /\ full <= Len(kept) /\ Len(kept) - full < ALT_PUTBUF_SIZE
    BY <1>2, <2>2, LastMultiple
  <2> HIDE DEF full
  <2> DEFINE a == SubSeq(kept, 1, full)
  <2> DEFINE b == SubSeq(kept, full + 1, Len(kept))
  <2>4. IsSeq(a) /\ IsSeq(b) /\ a \o b = kept /\ Len(b) = Len(kept) - full
    BY <2>2, <2>3, SplitAt, Zenon
  <2> HIDE DEF a, b
  <2>5. out' = out \o a /\ putbuf' = b BY <2>1 DEF a, b
  <2>6. IsSeq(out \o a) BY <1>1, <2>4, Joined
  <2>7. (out \o a) \o b = out \o kept
    <3>1. Associates(out, a, b) BY <1>1, <2>4, Associated, Zenon
    <3> QED BY <2>4, <3>1, Zenon DEF Associates
  <2>8. out \o kept = (out \o putbuf) \o chars
    <3>1. Associates(out, putbuf, chars) BY <1>1, Associated, Zenon
    <3> QED BY <3>1, Zenon DEF Associates, kept
  <2> QED BY <1>4, <2>3, <2>4, <2>5, <2>6, <2>7, <2>8
<1> QED BY <1>3, <1>4, Zenon

LEMMA AltPrints ==
  ASSUME NEW which, NEW pieces, NEW given, NEW j, Prints(which, pieces, given, j),
         message.printer = "alt_printf"
  PROVE  /\ which = "alt_printf" /\ parser = "chars" /\ fmt = Rest(Spellings(pieces), j)
         /\ AltPieces(pieces) /\ PrinterTypes
         /\ args = SubSeq(given, Logging!Consumed(pieces, j) + 1, Len(given))
         /\ IsMessage(pieces, given) /\ j \in Nat /\ j <= Len(pieces) /\ Len(pieces) \in Nat
<1>1. Told(which, pieces, given) /\ Printing(pieces, given, j) /\ LogInv
      /\ IsMessage(pieces, given) /\ j \in Nat /\ j <= Len(pieces) /\ Len(pieces) \in Nat
  BY DEF Prints
<1>2. which = "alt_printf" BY <1>1 DEF Told
<1>3. AltPieces(pieces) BY <1>1, <1>2 DEF Told
<1>4. parser = "chars" /\ fmt = Rest(Spellings(pieces), j)
      /\ args = SubSeq(given, Logging!Consumed(pieces, j) + 1, Len(given))
  BY <1>1, Zenon DEF Printing
<1>5. PrinterTypes BY <1>1 DEF LogInv
<1> QED BY <1>1, <1>2, <1>3, <1>4, <1>5

LEMMA NotNought == \A n \in Nat : n + 1 \in Nat /\ n + 1 # 0
OBVIOUS

LEMMA PlainParts ==
  ASSUME NEW p, NEW letter, p = Logging!Plain(letter)
  PROVE  ~p.zero /\ p.width = -1 /\ p.after = -1 /\ ~p.long /\ p.letter = letter
BY Zenon DEF Logging!Plain

LEMMA AltCh ==
  ASSUME NEW letter
  PROVE  Logging!Ch(letter)[1] = letter
BY DEF Logging!Ch

LEMMA AltLetter ==
  ASSUME NEW c, NEW rest, IsSeq(rest)
  PROVE  LET letters == <<c>> \o rest
         IN  /\ Tail(letters) = rest /\ Len(letters) = Len(rest) + 1 /\ Len(rest) \in Nat
             /\ letters[1] = c /\ IsSeq(letters)
<1> DEFINE letters == <<c>> \o rest
<1>1. Tail(letters) = rest /\ Head(letters) = c /\ IsSeq(letters) /\ letters # <<>>
      /\ Len(letters) = Len(rest) + 1
  BY OneFirst
<1>2. Len(rest) \in Nat BY EmptySeq, Joined
<1> HIDE DEF letters
<1>3. Head(letters) = letters[1] BY <1>1 DEF IsSeq
<1> QED BY <1>1, <1>2, <1>3 DEF letters

LEMMA AltSecond ==
  ASSUME NEW c, NEW letters, IsSeq(letters), Len(letters) \in Nat, Len(letters) # 0
  PROVE  (<<c>> \o letters)[2] = letters[1] /\ Len(<<c>> \o letters) # 1
<1> DEFINE s == <<c>> \o letters
<1>1. Tail(s) = letters /\ IsSeq(s) /\ s # <<>> /\ Len(s) = Len(letters) + 1 BY OneFirst
<1>2. 1 \in 1 .. Len(letters) /\ Len(s) # 1 BY <1>1
<1> HIDE DEF s
<1>3. Tail(s)[1] = s[2] BY <1>1, <1>2 DEF IsSeq
<1> QED BY <1>1, <1>2, <1>3 DEF s

\* A conversion of alt_printf is a percent sign and a letter.
LEMMA AltSpelling ==
  ASSUME NEW p, NEW rest, IsSeq(rest), p = Logging!Plain(p.letter), p.letter # "literal",
         CutOff(p, rest)
  PROVE  LET fmt1 == Logging!Spelling(p) \o rest
         IN  /\ fmt1 # <<>> /\ Head(fmt1) = Logging!Ch("%")
             /\ p.letter = "" => Len(fmt1) = 1 /\ rest = <<>>
             /\ p.letter # "" => /\ Len(fmt1) # 1 /\ fmt1[2][1] = p.letter
                                 /\ Tail(Tail(fmt1)) = rest
<1> DEFINE fmt1 == Logging!Spelling(p) \o rest
<1>1. fmt1 = <<Logging!Ch("%")>> \o FromZero(p, rest) BY SpellingFrom, Zenon
<1>2. FromZero(p, rest) = Letters(p, rest)
  <2>1. ~p.zero /\ p.width = -1 /\ p.after = -1 /\ ~p.long BY PlainParts, Zenon
  <2> QED BY <2>1, Zenon DEF FromZero, FromWidth, FromAfter, FromLong
<1>3. IsSeq(Letters(p, rest)) BY SpellingFrom, Zenon
<1> HIDE DEF fmt1
<1>4. /\ fmt1 # <<>> /\ Head(fmt1) = Logging!Ch("%") /\ Tail(fmt1) = Letters(p, rest)
      /\ Len(fmt1) = Len(Letters(p, rest)) + 1
  BY <1>1, <1>2, <1>3, OneFirst, Zenon
<1>5. ASSUME p.letter = "" PROVE Len(fmt1) = 1 /\ rest = <<>>
  <2>1. rest = <<>> /\ Letters(p, rest) = <<>> BY <1>5, Zenon DEF CutOff, Letters
  <2>2. Len(Letters(p, rest)) + 1 = 1
    <3>1. Len(<<>>) + 1 = 1 BY EmptySeq
    <3> QED BY <2>1, <3>1, Zenon
  <2> QED BY <1>4, <2>1, <2>2, Zenon
<1>6. ASSUME p.letter # ""
      PROVE  Len(fmt1) # 1 /\ fmt1[2][1] = p.letter /\ Tail(Tail(fmt1)) = rest
  <2> DEFINE c == Logging!Ch(p.letter)
  <2> DEFINE letters == <<c>> \o rest
  <2>1. Letters(p, rest) = letters BY <1>6, Zenon DEF Letters
  <2>2. Tail(letters) = rest /\ Len(letters) = Len(rest) + 1 /\ Len(rest) \in Nat
        /\ letters[1] = c /\ IsSeq(letters)
    BY AltLetter, Zenon
  <2>3. c[1] = p.letter BY AltCh, Zenon
  <2>4. fmt1 = <<Logging!Ch("%")>> \o letters BY <1>1, <1>2, <2>1, Zenon
  <2> HIDE DEF letters
  <2>5. fmt1[2] = letters[1] /\ Len(fmt1) # 1
    <3>1. Len(letters) \in Nat /\ Len(letters) # 0 BY <2>2, NotNought, Zenon
    <3> QED BY <2>2, <2>4, <3>1, AltSecond, Zenon
  <2> QED BY <1>4, <2>1, <2>2, <2>3, <2>5, Zenon DEF letters
<1> QED BY <1>4, <1>5, <1>6, Zenon DEF fmt1

\* In no width, a conversion's field is just what it prints.
LEMMA PlainField ==
  ASSUME NEW p, NEW arg, p = Logging!Plain(p.letter), p.letter \in {"c", "x", "s"}, Fits(p.letter, arg)
  PROVE  /\ p.letter = "c" => Logging!Field(p, arg) = <<arg>>
         /\ p.letter = "x" => Logging!Field(p, arg) = Logging!Digits(arg, 16, FALSE)
         /\ p.letter = "s" => Logging!Field(p, arg) = arg
         /\ IsSeq(Logging!Field(p, arg))
<1>1. p.width = -1 /\ ~p.zero BY PlainParts, Zenon
<1>2. p.letter \notin Logging!Signed /\ Logging!TakesArgument(p.letter)
  BY DEF Logging!Signed, Logging!TakesArgument, Logging!Numbers
<1>3. Logging!IsPiece(p)
  <2>1. p.letter \notin {"digit", ".", "l"} OBVIOUS
  <2> QED BY <2>1, PlainPiece, Zenon
<1>4. IsSeq(Logging!Field(p, arg)) BY <1>2, <1>3, FieldSeq, Zenon
<1> DEFINE body == CASE p.letter \in Logging!Numbers ->
                          Logging!Digits(Logging!Magnitude(arg, p.letter \in Logging!Signed),
                                         Logging!Base(p.letter), p.letter = "X")
                     [] p.letter = "c" -> <<arg>>
                     [] p.letter = "s" -> arg
<1> DEFINE blank == Logging!Ch(" ")
<1> DEFINE missing == p.width - Len(body) - Len(<<>>)
<1>5. Logging!Field(p, arg) = (Logging!Repeat(blank, missing) \o <<>>) \o body
  BY <1>1, <1>2, Zenon DEF Logging!Field
<1>6. p.letter = "c" => body = <<arg>>
  BY Zenon DEF Logging!Numbers, Logging!Signed
<1>7. p.letter = "s" => body = arg
  BY Zenon DEF Logging!Numbers, Logging!Signed
<1>8. p.letter = "x" => body = Logging!Digits(arg, 16, FALSE)
  <2> SUFFICES ASSUME p.letter = "x" PROVE body = Logging!Digits(arg, 16, FALSE) BY Zenon
  <2>1. p.letter \in Logging!Numbers /\ p.letter # "c" /\ p.letter # "s"
    BY DEF Logging!Numbers, Logging!Signed
  <2>2. Logging!Magnitude(arg, p.letter \in Logging!Signed) = arg
    BY <1>2, Zenon DEF Logging!Magnitude
  <2>3. Logging!Base(p.letter) = 16 BY Zenon DEF Logging!Base
  <2>4. (p.letter = "X") = FALSE BY Zenon
  <2> QED BY <2>1, <2>2, <2>3, <2>4, Zenon
<1>9. IsSeq(body)
  <2>1. p.letter = "c" => IsSeq(body) BY <1>6, OneSeq, Zenon
  <2>2. p.letter = "s" => IsSeq(body) BY <1>7, Zenon DEF Fits
  <2>3. p.letter = "x" => IsSeq(body)
    <3> SUFFICES ASSUME p.letter = "x" PROVE IsSeq(body) BY Zenon
    <3>1. p.letter \in Logging!Numbers BY DEF Logging!Numbers
    <3>2. IsSeq(Logging!Digits(Logging!Magnitude(arg, p.letter \in Logging!Signed),
                               Logging!Base(p.letter), p.letter = "X"))
      BY <3>1, DigitsSeq, Zenon DEF Fits
    <3>3. p.letter # "c" /\ p.letter # "s" OBVIOUS
    <3> QED BY <3>1, <3>2, <3>3, Zenon
  <2> QED BY <2>1, <2>2, <2>3, Zenon
<1> HIDE DEF body, blank
<1>10. Logging!Repeat(blank, missing) = <<>>
  <2>1. Len(body) \in Nat /\ Len(<<>>) = 0 BY <1>9, EmptySeq, Joined
  <2>2. missing \in Int /\ missing < 0 BY <1>1, <2>1
  <2> HIDE DEF missing
  <2>3. IsSeq(Logging!Repeat(blank, missing)) /\ DOMAIN Logging!Repeat(blank, missing) = {}
    BY <2>2, RepeatSeq DEF Logging!Repeat
  <2> DEFINE s == Logging!Repeat(blank, missing)
  <2> HIDE DEF s
  <2>4. IsSeq(s) /\ DOMAIN s = {} BY <2>3 DEF s
  <2>5. s = <<>> BY <2>4 DEF IsSeq
  <2> QED BY <2>5 DEF s
<1>11. Logging!Field(p, arg) = body
  <2>1. <<>> \o <<>> = <<>> /\ <<>> \o body = body BY <1>9, EmptySeq, Joined
  <2> QED BY <1>5, <1>10, <2>1, Zenon
<1> QED BY <1>4, <1>6, <1>7, <1>8, <1>11, Zenon

LEMMA AltCharInv ==
  ASSUME LogInv, Logging!AltChar
  PROVE  LogInv'
<1>1. /\ message # None /\ Logging!Unchanged /\ args' = args /\ fmtFlags' = fmtFlags
      /\ message.printer = "alt_printf" /\ fmt # <<>> /\ Head(fmt) # Logging!Ch("%")
      /\ fmt' = Tail(fmt) /\ parser' = "chars" /\ Logging!Put(<<Head(fmt)>>)
  BY DEF Logging!AltChar, Logging!char, Logging!Advance
<1>2. PICK which, pieces, given, j : Prints(which, pieces, given, j) BY <1>1, IsPrinting
<1>3. /\ which = "alt_printf" /\ parser = "chars" /\ fmt = Rest(Spellings(pieces), j)
      /\ AltPieces(pieces) /\ PrinterTypes
      /\ IsMessage(pieces, given) /\ j \in Nat /\ j <= Len(pieces) /\ Len(pieces) \in Nat
  BY <1>1, <1>2, AltPrints
<1>4. j < Len(pieces)
  <2>1. j # Len(pieces) BY <1>1, <1>3, MessageEnd
  <2> QED BY <1>3, <2>1
<1> DEFINE p == pieces[j + 1]
<1> DEFINE rest == Rest(Spellings(pieces), j + 1)
<1>5. fmt = Logging!Spelling(p) \o rest /\ IsSeq(rest) /\ CutOff(p, rest)
  BY <1>3, <1>4, NextPiece, Zenon
<1>6. p = Logging!Plain(p.letter)
  <2>1. j + 1 \in 1 .. Len(pieces) BY <1>3, <1>4
  <2> QED BY <1>3, <2>1, Zenon DEF AltPieces
<1>7. p.letter = "literal" BY <1>1, <1>5, <1>6, AltSpelling, Zenon
<1>8. Logging!Spelling(p) = <<Logging!Ch("literal")>> BY <1>7, Zenon DEF Logging!Spelling
<1>9. Head(fmt) = Logging!Ch("literal") /\ Tail(fmt) = rest BY <1>5, <1>8, OneFirst
<1>10. RenderedAt(pieces, given, j + 1) = <<Logging!Ch("literal")>>
       /\ ~Logging!TakesArgument(p.letter)
  <2>1. ~Logging!TakesArgument(p.letter) BY <1>7, LiteralPiece
  <2>2. RenderedAt(pieces, given, j + 1)
          = IF p.letter \in {"literal", "%"} THEN <<Logging!Ch(p.letter)>> ELSE <<>>
    BY <1>3, <1>4, <2>1, NextPiece, Zenon
  <2> QED BY <1>7, <2>1, <2>2, Zenon
<1> HIDE DEF p, rest
<1>11. parser # "idle" BY <1>3
<1>12. /\ IsSeq(out') /\ IsSeq(putbuf') /\ Len(putbuf') < ALT_PUTBUF_SIZE
       /\ ~semihosting => putbuf' = <<>>
       /\ (out \o putbuf)' = (out \o putbuf) \o <<Head(fmt)>>
  BY <1>1, <1>3, <1>11, OneSeq, PutSays, Zenon
<1>13. PrinterTypes'
  <2>1. parser' # "idle" /\ semihosting' = semihosting BY <1>1 DEF Logging!Unchanged
  <2> QED BY <1>1, <1>3, <1>12, <2>1, Zenon DEF PrinterTypes
<1>14. args' = IF Logging!TakesArgument(p.letter) THEN Tail(args) ELSE args BY <1>1, <1>10
<1>15. (out \o putbuf)' = (out \o putbuf) \o RenderedAt(pieces, given, j + 1)
  BY <1>9, <1>10, <1>12, Zenon
<1>16. ~(which # "alt_printf") /\ fmt' = rest /\ parser' = "chars" BY <1>1, <1>3, <1>9
<1> QED BY <1>1, <1>2, <1>4, <1>13, <1>14, <1>15, <1>16, PieceDone, Zenon DEF p, rest

LEMMA AltTakes ==
  ASSUME NEW letter \in Logging!AltLetters
  PROVE  Logging!TakesArgument(letter) <=> letter \in {"c", "x", "s"}
BY Zenon DEF Logging!AltLetters, Logging!TakesArgument, Logging!Numbers, Logging!Signed

LEMMA AltConversionInv ==
  ASSUME LogInv, Logging!AltConversion
  PROVE  LogInv'
<1> DEFINE X(letter, arg) ==
      CASE letter = "%" -> <<Logging!Ch("%")>>
        [] letter = "c" -> <<arg>>
        [] letter = "x" -> Logging!Digits(arg, 16, FALSE)
        [] letter = "s" -> arg
        [] OTHER -> <<>>
<1> DEFINE l == IF Len(fmt) = 1 THEN "" ELSE fmt[2][1]
<1>1. /\ message # None /\ Logging!Unchanged /\ fmtFlags' = fmtFlags
      /\ message.printer = "alt_printf" /\ fmt # <<>> /\ Head(fmt) = Logging!Ch("%")
      /\ fmt' = (IF Len(fmt) = 1 THEN <<>> ELSE Tail(Tail(fmt))) /\ parser' = "chars"
      /\ Logging!Put(X(l, Head(args)))
      /\ args' = IF l \in {"c", "x", "s"} THEN Tail(args) ELSE args
  BY Zenon DEF Logging!AltConversion, Logging!char
<1>2. PICK which, pieces, given, j : Prints(which, pieces, given, j)
  BY <1>1, IsPrinting, Zenon
<1> HIDE DEF l
<1>3. /\ which = "alt_printf" /\ parser = "chars" /\ fmt = Rest(Spellings(pieces), j)
      /\ AltPieces(pieces) /\ PrinterTypes
      /\ args = SubSeq(given, Logging!Consumed(pieces, j) + 1, Len(given))
      /\ IsMessage(pieces, given) /\ j \in Nat /\ j <= Len(pieces) /\ Len(pieces) \in Nat
  BY <1>1, <1>2, AltPrints, Zenon
<1>4. j < Len(pieces)
  <2>1. j # Len(pieces) BY <1>1, <1>3, MessageEnd, Zenon
  <2> QED BY <1>3, <2>1
<1> DEFINE p == pieces[j + 1]
<1> DEFINE rest == Rest(Spellings(pieces), j + 1)
<1> DEFINE text == RenderedAt(pieces, given, j + 1)
<1>5. fmt = Logging!Spelling(p) \o rest /\ IsSeq(rest) /\ CutOff(p, rest)
      /\ (Logging!TakesArgument(p.letter) =>
            Fits(p.letter, Head(args)) /\ text = Logging!Field(p, Head(args)))
      /\ (~Logging!TakesArgument(p.letter) =>
            text = IF p.letter \in {"literal", "%"} THEN <<Logging!Ch(p.letter)>> ELSE <<>>)
  BY <1>3, <1>4, NextPiece, Zenon
<1>6. p = Logging!Plain(p.letter) /\ p.letter \in Logging!AltLetters \cup {"literal"}
  <2>1. j + 1 \in 1 .. Len(pieces) BY <1>3, <1>4
  <2> QED BY <1>3, <2>1, Zenon DEF AltPieces
<1> HIDE DEF p, rest, text
<1>7. p.letter # "literal"
  <2> SUFFICES ASSUME p.letter = "literal" PROVE FALSE OBVIOUS
  <2>1. Logging!Spelling(p) = <<Logging!Ch("literal")>> BY Zenon DEF Logging!Spelling
  <2>2. Head(fmt) = Logging!Ch("literal") BY <1>5, <2>1, OneFirst
  <2>3. Logging!Ch("literal") # Logging!Ch("%") BY DEF Logging!Ch
  <2> QED BY <1>1, <2>2, <2>3, Zenon
<1>8. /\ p.letter = "" => Len(fmt) = 1 /\ rest = <<>>
      /\ p.letter # "" => Len(fmt) # 1 /\ fmt[2][1] = p.letter /\ Tail(Tail(fmt)) = rest
  BY <1>5, <1>6, <1>7, AltSpelling, Zenon
<1>9. l = p.letter /\ fmt' = rest BY <1>1, <1>8, Zenon DEF l
<1>10. Logging!TakesArgument(p.letter) <=> p.letter \in {"c", "x", "s"}
  BY <1>6, <1>7, AltTakes, Zenon
<1>11. X(p.letter, Head(args)) = text /\ IsSeq(text)
  <2>1. CASE p.letter \in {"c", "x", "s"}
    <3>1. Fits(p.letter, Head(args)) /\ text = Logging!Field(p, Head(args))
      BY <1>5, <1>10, <2>1, Zenon
    <3>2. /\ p.letter = "c" => Logging!Field(p, Head(args)) = <<Head(args)>>
          /\ p.letter = "x" => Logging!Field(p, Head(args)) = Logging!Digits(Head(args), 16, FALSE)
          /\ p.letter = "s" => Logging!Field(p, Head(args)) = Head(args)
          /\ IsSeq(Logging!Field(p, Head(args)))
      BY <1>6, <2>1, <3>1, PlainField, Zenon
    <3>3. p.letter = "c" => X(p.letter, Head(args)) = <<Head(args)>> BY Zenon
    <3>4. p.letter = "x" => X(p.letter, Head(args)) = Logging!Digits(Head(args), 16, FALSE) BY Zenon
    <3>5. p.letter = "s" => X(p.letter, Head(args)) = Head(args) BY Zenon
    <3> HIDE DEF X
    <3> QED BY <2>1, <3>1, <3>2, <3>3, <3>4, <3>5, Zenon
  <2>2. CASE p.letter = "%"
    <3>1. text = <<Logging!Ch("%")>> BY <1>5, <1>10, <2>2, Zenon
    <3>2. X(p.letter, Head(args)) = <<Logging!Ch("%")>> BY <2>2, Zenon
    <3> QED BY <3>1, <3>2, OneSeq, Zenon
  <2>3. CASE p.letter = ""
    <3>1. text = <<>> BY <1>5, <1>10, <2>3, Zenon
    <3>2. X(p.letter, Head(args)) = <<>> BY <2>3, Zenon
    <3> QED BY <3>1, <3>2, EmptySeq, Zenon
  <2> QED BY <1>6, <1>7, <2>1, <2>2, <2>3, Zenon DEF Logging!AltLetters
<1>12. Logging!Put(text) BY <1>1, <1>9, <1>11, Zenon
<1> HIDE DEF X
<1>13. parser # "idle" BY <1>3
<1>14. /\ IsSeq(out') /\ IsSeq(putbuf') /\ Len(putbuf') < ALT_PUTBUF_SIZE
       /\ ~semihosting => putbuf' = <<>>
       /\ (out \o putbuf)' = (out \o putbuf) \o text
  BY <1>3, <1>11, <1>12, <1>13, PutSays, Zenon
<1>15. PrinterTypes'
  <2>1. parser' # "idle" /\ semihosting' = semihosting BY <1>1, Zenon DEF Logging!Unchanged
  <2> QED BY <1>1, <1>3, <1>14, <2>1, Zenon DEF PrinterTypes
<1>16. args' = IF Logging!TakesArgument(p.letter) THEN Tail(args) ELSE args
  BY <1>1, <1>9, <1>10, Zenon
<1>17. ~(which # "alt_printf") BY <1>3
<1> QED BY <1>1, <1>2, <1>4, <1>9, <1>14, <1>15, <1>16, <1>17, PieceDone, Zenon DEF p, rest, text

LEMMA PutbufflushInv ==
  ASSUME LogInv, Logging!alt_putbufflush
  PROVE  LogInv'
<1>1. /\ message # None /\ Logging!Unchanged /\ args' = args /\ fmtFlags' = fmtFlags
      /\ fmt' = fmt /\ parser' = parser /\ out' = out \o putbuf /\ putbuf' = <<>>
  BY DEF Logging!alt_putbufflush
<1>2. PICK which, pieces, given, j : Prints(which, pieces, given, j) BY <1>1, IsPrinting
<1>3. Printing(pieces, given, j) /\ j \in Nat /\ j <= Len(pieces) /\ PrinterTypes
  BY <1>2 DEF Prints, LogInv
<1>4. IsSeq(out \o putbuf) BY <1>3, Joined DEF PrinterTypes
<1>5. (out \o putbuf) \o <<>> = out \o putbuf BY <1>4, EmptySeq, Joined
<1>6. PrinterTypes'
  <2>1. Len(<<>>) < ALT_PUTBUF_SIZE BY LogAssumption, EmptySeq
  <2> QED BY <1>1, <1>3, <1>4, <2>1, EmptySeq, Zenon DEF PrinterTypes, Logging!Unchanged
<1>7. message' = message BY <1>1 DEF Logging!Unchanged
<1>8. (out \o putbuf)' = Done(Renderings(pieces, given), j)
  BY <1>1, <1>3, <1>5, Zenon DEF Printing
<1>9. Printing(pieces, given, j)' BY <1>1, <1>3, <1>7, <1>8, Zenon DEF Printing
<1> QED BY <1>1, <1>2, <1>3, <1>6, <1>9, StillPrints

\* Messages that are asked for.
LEMMA BeginKeeps ==
  ASSUME LogInv, UNCHANGED <<logging, semihosting, alt_log_write_buf>>, UNCHANGED Logging!clock
  PROVE  LogTypes' /\ EchoInv'
<1>1. /\ logging' = logging /\ semihosting' = semihosting /\ alt_log_write_buf' = alt_log_write_buf
      /\ alt_log_sys_clk_count' = alt_log_sys_clk_count
      /\ alt_system_clock_in_sec' = alt_system_clock_in_sec
  BY DEF Logging!clock
<1>2. LogTypes' BY <1>1, Zenon DEF LogInv, LogTypes
<1>3. EchoInv' BY <1>1, Zenon DEF LogInv, EchoInv
<1> QED BY <1>2, <1>3

LEMMA PrinterKept ==
  ASSUME LogInv, UNCHANGED <<message, semihosting>>, UNCHANGED Logging!printer
  PROVE  PrinterTypes' /\ MessageInv'
<1>1. /\ message' = message /\ semihosting' = semihosting /\ fmt' = fmt /\ args' = args
      /\ parser' = parser /\ fmtFlags' = fmtFlags /\ out' = out /\ putbuf' = putbuf
  BY DEF Logging!printer
<1>2. PrinterTypes' BY <1>1 DEF LogInv, PrinterTypes
<1>3. MessageInv'
  <2>1. CASE message' = None BY <2>1, Zenon DEF MessageInv
  <2>2. CASE message' # None
    <3>1. message # None BY <1>1, <2>2
    <3>2. PICK which, pieces, given : Told(which, pieces, given)
                           /\ \E j \in Nat : j <= Len(pieces) /\ Printing(pieces, given, j)
      BY <3>1, Zenon DEF LogInv, MessageInv
    <3>3. PICK j \in Nat : j <= Len(pieces) /\ Printing(pieces, given, j) BY <3>2
    <3>4. Told(which, pieces, given)' BY <1>1, <3>2, Zenon DEF Told
    <3>5. Printing(pieces, given, j)' BY <1>1, <3>3, Zenon DEF Printing
    <3> QED BY <3>3, <3>4, <3>5, Zenon DEF MessageInv
  <2> QED BY <2>1, <2>2
<1> QED BY <1>2, <1>3

LEMMA NumberFits ==
  ASSUME NEW letter \in Logging!Numbers, NEW v \in Values \cup {0, 1}
  PROVE  Fits(letter, v)
<1>1. \E n \in 1 .. WordSize :
        Logging!HasPlaces(Logging!Magnitude(v, letter \in Logging!Signed), Logging!Base(letter), n)
  BY LogAssumption, Zenon
<1>2. letter # "s" BY DEF Logging!Numbers, Logging!Signed
<1> QED BY <1>1, <1>2, Zenon DEF Fits

LEMMA ArgumentFits ==
  ASSUME NEW letter, NEW arg \in Logging!Arguments(letter), Logging!TakesArgument(letter)
  PROVE  Fits(letter, arg)
<1>1. CASE letter \in Logging!Numbers
  <2>1. letter # "c" /\ letter # "s" BY <1>1 DEF Logging!Numbers, Logging!Signed
  <2>2. arg \in Values BY <1>1, <2>1, Zenon DEF Logging!Arguments
  <2> QED BY <1>1, <2>2, NumberFits
<1>2. CASE letter = "c"
  <2>1. letter \notin Logging!Numbers BY <1>2 DEF Logging!Numbers, Logging!Signed
  <2> QED BY <1>2, <2>1 DEF Fits
<1>3. CASE letter = "s"
  <2>1. letter \notin Logging!Numbers /\ letter # "c" BY <1>3 DEF Logging!Numbers, Logging!Signed
  <2>2. arg \in {Logging!Repeat(Logging!Ch("s"), n) : n \in {0, 2}}
    BY <1>3, <2>1, Zenon DEF Logging!Arguments
  <2>3. \A n \in {0, 2} : IsSeq(Logging!Repeat(Logging!Ch("s"), n)) BY RepeatSeq
  <2> QED BY <2>1, <2>2, <2>3, Zenon DEF Fits
<1> QED BY <1>1, <1>2, <1>3 DEF Logging!TakesArgument

LEMMA JoinedAt ==
  ASSUME NEW a, NEW b, IsSeq(a), IsSeq(b), NEW k \in 1 .. Len(b)
  PROVE  (a \o b)[Len(a) + k] = b[k]
<1> DEFINE S == {a[i] : i \in DOMAIN a}
<1> DEFINE T == {b[i] : i \in DOMAIN b}
<1> DEFINE U == S \cup T
<1>1. a \in Seq(S) /\ b \in Seq(T) BY DEF IsSeq
<1> HIDE DEF S, T
<1>2. a \in Seq(U) /\ b \in Seq(U) BY <1>1
<1> HIDE DEF U
<1> QED BY <1>2

LEMMA Triple ==
  ASSUME NEW a, NEW b, NEW c
  PROVE  <<a, b>> \o <<c>> = <<a, b, c>> /\ <<a, b>> \o <<>> = <<a, b>>
<1> DEFINE T == {a, b, c}
<1> DEFINE u == <<a, b>>
<1> DEFINE v == <<c>>
<1> DEFINE uv == <<a, b, c>>
<1>1. u \in Seq(T) /\ v \in Seq(T) /\ uv \in Seq(T) /\ Len(u) = 2 /\ Len(v) = 1 /\ Len(uv) = 3
  OBVIOUS
<1>2. u[1] = a /\ u[2] = b /\ v[1] = c /\ uv[1] = a /\ uv[2] = b /\ uv[3] = c OBVIOUS
<1> HIDE DEF T, u, v, uv
<1>3. u \o v \in Seq(T) /\ Len(u \o v) = 3 /\ (u \o v)[1] = a /\ (u \o v)[2] = b /\ (u \o v)[3] = c
  <2>1. /\ IsSeq(u) /\ IsSeq(v) BY <1>1, SeqOf
  <2>2. (u \o v)[1] = u[1] /\ (u \o v)[2] = u[2]
    <3>1. 1 \in 1 .. Len(u) /\ 2 \in 1 .. Len(u) BY <1>1
    <3> QED BY <2>1, <3>1, Joined
  <2>3. (u \o v)[Len(u) + 1] = v[1]
    <3>1. 1 \in 1 .. Len(v) BY <1>1
    <3> QED BY <2>1, <3>1, JoinedAt
  <2>4. u \o v \in Seq(T) BY <1>1
  <2>5. Len(u \o v) = Len(u) + Len(v) BY <2>1, Joined
  <2>6. Len(u) + 1 = 3 /\ Len(u) + Len(v) = 3 BY <1>1
  <2> QED BY <1>2, <2>2, <2>3, <2>4, <2>5, <2>6, Zenon
<1>4. u \o v = uv BY <1>1, <1>2, <1>3
<1>5. u \o <<>> = u BY <1>1
<1> QED BY <1>4, <1>5 DEF u, v, uv

LEMMA AnyOf ==
  ASSUME NEW a, NEW b
  PROVE  /\ \A i \in 1 .. Len(<<a, b>>) : <<a, b>>[i] = b \/ <<a, b>>[i] = a
         /\ \A i \in 1 .. Len(<<a, b, a>>) : <<a, b, a>>[i] = b \/ <<a, b, a>>[i] = a
OBVIOUS

LEMMA PrintMessageInv ==
  ASSUME NEW which, NEW p \in Pieces, NEW arg \in Logging!Arguments(p.letter), LogInv,
         Logging!PrintMessage(which, p, arg),
         which = "alt_printf" => p = Logging!Plain(p.letter) /\ p.letter \in Logging!AltLetters
  PROVE  LogInv'
<1> DEFINE pieces == <<Logging!Literal, p>> \o (IF p.letter = "" THEN <<>> ELSE <<Logging!Literal>>)
<1> DEFINE given == Given(p, arg)
<1>1. /\ Logging!Idle /\ Logging!Begin(which, pieces, given)
      /\ UNCHANGED <<logging, semihosting, alt_log_write_buf>> /\ UNCHANGED Logging!clock
  BY Zenon DEF Logging!PrintMessage, Given
<1>2. Logging!IsPiece(p) BY LogAssumption, Zenon
<1>3. Logging!TakesArgument(p.letter) => Fits(p.letter, arg) BY ArgumentFits, Zenon
<1>4. pieces = (IF p.letter = "" THEN <<Logging!Literal, p>>
                ELSE <<Logging!Literal, p, Logging!Literal>>)
  BY Triple, Zenon
<1>5. IsMessage(pieces, given)
  <2>1. CASE p.letter = "" BY <1>2, <1>3, <1>4, <2>1, MessageOfTwo, Zenon
  <2>2. CASE p.letter # "" BY <1>2, <1>3, <1>4, <2>2, MessageOfThree, Zenon DEF HasLetter
  <2> QED BY <2>1, <2>2, Zenon
<1>6. which = "alt_printf" => AltPieces(pieces)
  <2> SUFFICES ASSUME which = "alt_printf" PROVE AltPieces(pieces) BY Zenon
  <2>1. /\ p = Logging!Plain(p.letter) /\ p.letter \in Logging!AltLetters \cup {"literal"}
        /\ Logging!Literal = Logging!Plain(Logging!Literal.letter)
        /\ Logging!Literal.letter \in Logging!AltLetters \cup {"literal"}
    BY LiteralPiece, Zenon
  <2>2. \A i \in 1 .. Len(pieces) : pieces[i] = p \/ pieces[i] = Logging!Literal
    <3>1. \A s : s = <<Logging!Literal, p>> \/ s = <<Logging!Literal, p, Logging!Literal>>
                  => \A i \in 1 .. Len(s) : s[i] = p \/ s[i] = Logging!Literal
      BY AnyOf
    <3> HIDE DEF pieces
    <3>2. CASE p.letter = "" BY <1>4, <3>1, <3>2, Zenon
    <3>3. CASE p.letter # "" BY <1>4, <3>1, <3>3, Zenon
    <3> QED BY <3>2, <3>3, Zenon
  <2> HIDE DEF pieces
  <2> QED BY <2>1, <2>2, Zenon DEF AltPieces
<1> HIDE DEF pieces, given
<1>7. PrinterTypes' /\ MessageInv' BY <1>1, <1>5, <1>6, Begins, Zenon
<1>8. LogTypes' /\ EchoInv' BY <1>1, BeginKeeps, Zenon
<1> QED BY <1>7, <1>8, Zenon DEF LogInv

LEMMA ControlRegInv ==
  ASSUME NEW header, NEW space \in Values, LogInv,
         Logging!alt_log_jtag_uart_print_control_reg(header, space)
  PROVE  LogInv'
<1> DEFINE pieces ==
      <<Logging!Plain("s"), Logging!Literal, Logging!Plain("d"), Logging!Plain("d")>>
<1> DEFINE given == <<<<Logging!Ch(header)>>, space, 1>>
<1>1. /\ Logging!Idle /\ Logging!Begin("log", pieces, given)
      /\ UNCHANGED <<logging, semihosting, alt_log_write_buf>> /\ UNCHANGED Logging!clock
  BY Zenon DEF Logging!alt_log_jtag_uart_print_control_reg
<1>2. Fits("s", <<Logging!Ch(header)>>)
  <2>1. "s" \notin Logging!Numbers BY DEF Logging!Numbers, Logging!Signed
  <2> QED BY <2>1, OneSeq, Zenon DEF Fits
<1>3. Fits("d", space) /\ Fits("d", 1)
  <2>1. "d" \in Logging!Numbers BY DEF Logging!Numbers, Logging!Signed
  <2> QED BY <2>1, NumberFits
<1>4. IsMessage(pieces, given) BY <1>2, <1>3, MessageOfFour
<1>5. "log" # "alt_printf" OBVIOUS
<1> HIDE DEF pieces, given
<1>6. PrinterTypes' /\ MessageInv' BY <1>1, <1>4, <1>5, Begins, Zenon
<1>7. LogTypes' /\ EchoInv' BY <1>1, BeginKeeps, Zenon
<1> QED BY <1>6, <1>7, Zenon DEF LogInv

LEMMA SystemClockInv ==
  ASSUME LogInv, Logging!alt_log_system_clock
  PROVE  LogInv'
<1>1. LogTypes /\ EchoInv BY DEF LogInv
<1>2. /\ logging' = logging /\ semihosting' = semihosting /\ alt_log_write_buf' = alt_log_write_buf
      /\ Logging!Idle /\ alt_system_clock_in_sec < 1
  BY DEF Logging!alt_log_system_clock
<1>3. EchoInv' BY <1>1, <1>2, Zenon DEF EchoInv
<1>4. ALT_LOG_SYS_CLK_INTERVAL \in Nat BY LogAssumption
<1>5. alt_system_clock_in_sec = 0 /\ alt_log_sys_clk_count \in 0 .. ALT_LOG_SYS_CLK_INTERVAL
  BY <1>1, <1>2 DEF LogTypes
<1>6. CASE alt_log_sys_clk_count + 1 > ALT_LOG_SYS_CLK_INTERVAL
  <2> DEFINE pieces == <<Logging!Literal, Logging!Plain("u")>>
  <2> DEFINE given == <<alt_system_clock_in_sec>>
  <2>1. /\ alt_log_sys_clk_count' = 0 /\ alt_system_clock_in_sec' = alt_system_clock_in_sec + 1
        /\ Logging!Begin("log", pieces, given)
    BY <1>6 DEF Logging!alt_log_system_clock
  <2>2. Logging!IsPiece(Logging!Plain("u")) /\ Logging!Plain("u").letter = "u" BY PlainPiece
  <2>3. "u" \in Logging!Numbers /\ Logging!TakesArgument("u")
    BY DEF Logging!Numbers, Logging!Signed, Logging!TakesArgument
  <2>4. Fits("u", alt_system_clock_in_sec) BY <1>5, <2>3, NumberFits
  <2>5. given = Given(Logging!Plain("u"), alt_system_clock_in_sec) BY <2>2, <2>3 DEF Given
  <2>6. IsMessage(pieces, given) BY <2>2, <2>4, <2>5, MessageOfTwo
  <2>7. "log" # "alt_printf" OBVIOUS
  <2>8. alt_log_sys_clk_count' \in 0 .. ALT_LOG_SYS_CLK_INTERVAL
        /\ alt_system_clock_in_sec' \in {0, 1}
    BY <1>4, <1>5, <2>1
  <2>9. LogTypes' BY <1>1, <1>2, <2>8, Zenon DEF LogTypes
  <2>10. PICK now : now = alt_system_clock_in_sec OBVIOUS
  <2>11. given = <<now>> BY <2>10
  <2> HIDE DEF pieces, given
  <2>12. PrinterTypes' /\ MessageInv' BY <1>2, <2>1, <2>6, <2>7, <2>11, Begins, Zenon
  <2> QED BY <1>3, <2>9, <2>12, Zenon DEF LogInv
<1>7. CASE ~(alt_log_sys_clk_count + 1 > ALT_LOG_SYS_CLK_INTERVAL)
  <2>1. /\ alt_log_sys_clk_count' = alt_log_sys_clk_count + 1
        /\ alt_system_clock_in_sec' = alt_system_clock_in_sec
        /\ UNCHANGED message /\ UNCHANGED Logging!printer
    BY <1>7 DEF Logging!alt_log_system_clock
  <2>2. alt_log_sys_clk_count' \in 0 .. ALT_LOG_SYS_CLK_INTERVAL BY <1>4, <1>5, <1>7, <2>1
  <2>3. LogTypes' BY <1>1, <1>2, <2>1, <2>2, Zenon DEF LogTypes
  <2>4. PrinterTypes' /\ MessageInv' BY <1>2, <2>1, PrinterKept
  <2> QED BY <1>3, <2>3, <2>4, Zenon DEF LogInv
<1> QED BY <1>6, <1>7

\* The echo of a write.
LEMMA MinOfTwo ==
  ASSUME NEW a \in Nat, NEW b \in Nat
  PROVE  LET m == Logging!Min({a, b}) IN m \in Nat /\ m <= a /\ m <= b
<1>1. \E x \in {a, b} : \A y \in {a, b} : x <= y OBVIOUS
<1>2. Logging!Min({a, b}) = CHOOSE x \in {a, b} : \A y \in {a, b} : x <= y BY DEF Logging!Min
<1> QED BY <1>1, <1>2

LEMMA EchoString ==
  ASSUME NEW chars, NEW m \in Nat, IsSeq(chars), IsEcho(chars, m)
  PROVE  LET echo == Logging!StringIn(chars)
         IN  /\ IsSeq(echo) /\ Len(echo) = m - 1 /\ \A i \in 1 .. (m - 1) : echo[i] = chars[i]
<1> DEFINE S == {i \in DOMAIN chars : chars[i] = Logging!Ch("0")}
<1>1. DOMAIN chars = 1 .. Len(chars) /\ Len(chars) \in Nat BY DEF IsSeq
<1>2. m >= 3 /\ m <= Len(chars) /\ chars[m] = Logging!Ch("0")
      /\ \A i \in 1 .. (m - 1) : chars[i] # Logging!Ch("0")
  BY DEF IsEcho
<1>3. S \subseteq Nat /\ m \in S /\ \A i \in S : m <= i BY <1>1, <1>2
<1>4. Logging!StringIn(chars) = SubSeq(chars, 1, Logging!Min(S) - 1) BY DEF Logging!StringIn
<1>5. Logging!Min(S) = CHOOSE x \in S : \A y \in S : x <= y BY DEF Logging!Min
<1> HIDE DEF S
<1>6. Logging!Min(S) = m
  <2> DEFINE q == Logging!Min(S)
  <2>1. q = CHOOSE x \in S : \A y \in S : x <= y BY <1>5
  <2> HIDE DEF q
  <2>2. \E x \in S : \A y \in S : x <= y BY <1>3
  <2>3. q \in S /\ \A y \in S : q <= y BY <2>1, <2>2, Zenon
  <2>4. q \in Nat /\ q <= m /\ m <= q BY <1>3, <2>3
  <2>5. q = m BY <2>4
  <2> QED BY <2>5 DEF q
<1> DEFINE k == m - 1
<1>7. k \in Nat /\ k <= Len(chars) BY <1>1, <1>2
<1> HIDE DEF k
<1>8. /\ IsSeq(SubSeq(chars, 1, k)) /\ Len(SubSeq(chars, 1, k)) = k
      /\ \A i \in 1 .. k : SubSeq(chars, 1, k)[i] = chars[i]
  BY <1>7, SplitAt, Zenon
<1> QED BY <1>4, <1>6, <1>8 DEF k

LEMMA EchoIsEcho ==
  ASSUME NEW text \in Texts, NEW old, IsSeq(old), Len(old) <= ALT_LOG_WRITE_ECHO_LEN + 2,
         Logging!EchoLength(text) >= 2
  PROVE  LET chars == Logging!Over(old, Logging!Echoed(text))
         IN  /\ IsSeq(chars) /\ Len(chars) <= ALT_LOG_WRITE_ECHO_LEN + 2
             /\ \E m \in Nat : IsEcho(chars, m)
<1> DEFINE length == Logging!EchoLength(text)
<1> DEFINE kept(c) == IF c = Logging!CtrlD THEN Logging!Ch("D") ELSE c
<1> DEFINE line == [i \in 1 .. (length - 1) |-> kept(text[i])]
<1> DEFINE end == <<Logging!Ch("\n"), Logging!Ch("\r"), Logging!Ch("0")>>
<1> DEFINE new == line \o end
<1> DEFINE m == length + 2
<1>1. ALT_LOG_WRITE_ECHO_LEN \in Nat /\ text \in Seq({text[i] : i \in DOMAIN text})
      /\ \A i \in DOMAIN text : text[i] # Logging!Ch("0")
  BY LogAssumption
<1>2. Len(text) \in Nat /\ DOMAIN text = 1 .. Len(text) BY <1>1
<1>3. length \in Nat /\ length >= 2 /\ length <= ALT_LOG_WRITE_ECHO_LEN /\ length <= Len(text)
  BY <1>1, <1>2, MinOfTwo, Zenon DEF Logging!EchoLength
<1>4. Logging!Echoed(text) = new BY DEF Logging!Echoed
<1> HIDE DEF length
<1>5. \A c : c # Logging!Ch("0") => kept(c) # Logging!Ch("0") /\ kept(c) # Logging!CtrlD
  BY DEF Logging!CtrlD, Logging!Ch
<1>6. \A i \in 1 .. (length - 1) : line[i] # Logging!Ch("0") /\ line[i] # Logging!CtrlD
  <2> HIDE DEF kept
  <2>1. \A i \in 1 .. (length - 1) : i \in DOMAIN text /\ line[i] = kept(text[i]) BY <1>2, <1>3
  <2> QED BY <1>1, <1>5, <2>1
<1>7. IsSeq(line) /\ Len(line) = length - 1
  <2> DEFINE n == length - 1
  <2>1. n \in Nat BY <1>3
  <2> HIDE DEF n, kept
  <2>2. line = [i \in 1 .. n |-> line[i]] BY DEF n
  <2> HIDE DEF line
  <2> QED BY <2>1, <2>2, IsList DEF n
<1>8. IsSeq(end) /\ Len(end) = 3 /\ end[1] = Logging!Ch("\n") /\ end[2] = Logging!Ch("\r")
      /\ end[3] = Logging!Ch("0")
  <2>1. end \in Seq({Logging!Ch("\n"), Logging!Ch("\r"), Logging!Ch("0")}) OBVIOUS
  <2> QED BY <2>1, SeqOf, Zenon
<1> HIDE DEF line, end
<1>9. IsSeq(new) /\ Len(new) = m /\ \A i \in 1 .. (length - 1) : new[i] = line[i]
  <2>1. IsSeq(new) /\ Len(new) = Len(line) + Len(end)
        /\ \A i \in 1 .. Len(line) : new[i] = line[i]
    BY <1>7, <1>8, Joined, Zenon
  <2> HIDE DEF new
  <2> QED BY <1>3, <1>7, <1>8, <2>1
<1>10. new[m] = end[3] /\ new[m - 1] = end[2] /\ new[m - 2] = end[1]
  <2>1. 1 \in 1 .. Len(end) /\ 2 \in 1 .. Len(end) /\ 3 \in 1 .. Len(end) BY <1>8
  <2>2. new[Len(line) + 1] = end[1] /\ new[Len(line) + 2] = end[2] /\ new[Len(line) + 3] = end[3]
    <3>1. IsSeq(line) /\ IsSeq(end) BY <1>7, <1>8
    <3> QED BY <2>1, <3>1, JoinedAt
  <2>3. Len(line) + 1 = m - 2 /\ Len(line) + 2 = m - 1 /\ Len(line) + 3 = m BY <1>3, <1>7
  <2> HIDE DEF new, m
  <2> QED BY <2>2, <2>3
<1> HIDE DEF new
<1> DEFINE behind == SubSeq(old, Len(new) + 1, Len(old))
<1> DEFINE chars == new \o behind
<1>11. IsSeq(behind) /\ Len(behind) \in Nat
       /\ (Len(behind) = 0 \/ Len(behind) = Len(old) - m) /\ Len(old) \in Nat
  <2>1. Len(old) \in Nat BY EmptySeq, Joined
  <2>2. m \in Nat /\ Len(new) = m BY <1>3, <1>9
  <2> HIDE DEF m
  <2>3. CASE m <= Len(old)
    <3>1. IsSeq(behind) /\ Len(behind) = Len(old) - m BY <2>2, <2>3, SplitAt, Zenon
    <3> QED BY <2>1, <2>2, <2>3, <3>1
  <2>4. CASE m > Len(old)
    <3>1. behind = <<>>
      <4>1. old \in Seq({old[i] : i \in DOMAIN old}) BY DEF IsSeq
      <4> DEFINE T == {old[i] : i \in DOMAIN old}
      <4> HIDE DEF T
      <4>2. old \in Seq(T) BY <4>1 DEF T
      <4> QED BY <2>1, <2>2, <2>4, <4>2
    <3> QED BY <2>1, <3>1, EmptySeq, Zenon
  <2> QED BY <2>1, <2>2, <2>3, <2>4
<1>12. Logging!Over(old, new) = chars BY DEF Logging!Over
<1> HIDE DEF behind
<1>13. /\ IsSeq(chars) /\ Len(chars) = m + Len(behind)
       /\ \A i \in 1 .. m : chars[i] = new[i]
  BY <1>9, <1>11, Joined
<1> HIDE DEF chars
<1>14. Len(chars) <= ALT_LOG_WRITE_ECHO_LEN + 2 /\ m \in Nat /\ m >= 3 /\ m <= Len(chars)
       /\ m <= ALT_LOG_WRITE_ECHO_LEN + 2 /\ m - 1 = length + 1
  BY <1>1, <1>3, <1>11, <1>13
<1>15. Logging!Ch("\n") # Logging!Ch("0") /\ Logging!Ch("\n") # Logging!CtrlD
  BY Zenon DEF Logging!Ch, Logging!CtrlD
<1>16. ASSUME NEW i \in 1 .. (m - 1)
       PROVE  chars[i] # Logging!Ch("0") /\ chars[i] # Logging!CtrlD
  <2>1. i \in 1 .. m /\ (i \in 1 .. (length - 1) \/ i = m - 2 \/ i = m - 1) BY <1>3
  <2>2. chars[i] = new[i] BY <1>13, <2>1
  <2>3. Logging!Ch("\r") # Logging!Ch("0") /\ Logging!Ch("\r") # Logging!CtrlD
    BY Zenon DEF Logging!Ch, Logging!CtrlD
  <2> HIDE DEF m
  <2> QED BY <1>6, <1>8, <1>9, <1>10, <1>15, <2>1, <2>2, <2>3, Zenon
<1>17. chars[m] = Logging!Ch("0") /\ chars[m - 1] = Logging!Ch("\r") /\ chars[m - 2] = Logging!Ch("\n")
  <2>1. m \in 1 .. m /\ m - 1 \in 1 .. m /\ m - 2 \in 1 .. m BY <1>14
  <2> HIDE DEF m
  <2> QED BY <1>8, <1>10, <1>13, <2>1
<1>18. m \in 3 .. (ALT_LOG_WRITE_ECHO_LEN + 2) BY <1>1, <1>14
<1> HIDE DEF m
<1>19. IsEcho(chars, m) BY <1>14, <1>16, <1>17, <1>18, Zenon DEF IsEcho
<1> QED BY <1>4, <1>12, <1>13, <1>14, <1>19

LEMMA WriteInv ==
  ASSUME NEW text \in Texts, LogInv, Logging!alt_log_write(text)
  PROVE  LogInv'
<1>1. LogTypes /\ EchoInv BY DEF LogInv
<1> DEFINE old == alt_log_write_buf
<1> DEFINE pieces == <<Logging!Literal, Logging!Plain("s")>>
<1>2. /\ alt_log_write_buf' = Logging!Over(old, Logging!Echoed(text))
      /\ Logging!Begin("log", pieces, <<Logging!StringIn(alt_log_write_buf')>>)
      /\ Logging!Idle /\ Logging!EchoLength(text) >= 2
      /\ logging' = logging /\ semihosting' = semihosting
      /\ alt_log_sys_clk_count' = alt_log_sys_clk_count
      /\ alt_system_clock_in_sec' = alt_system_clock_in_sec
  BY DEF Logging!alt_log_write, Logging!clock
<1>3. IsSeq(old) /\ Len(old) <= ALT_LOG_WRITE_ECHO_LEN + 2 BY <1>1 DEF LogTypes
<1>4. PICK chars : chars = Logging!Over(old, Logging!Echoed(text)) OBVIOUS
<1>5. IsSeq(chars) /\ Len(chars) <= ALT_LOG_WRITE_ECHO_LEN + 2 /\ \E m \in Nat : IsEcho(chars, m)
  BY <1>2, <1>3, <1>4, EchoIsEcho
<1>6. alt_log_write_buf' = chars BY <1>2, <1>4
<1>7. EchoInv' BY <1>5, <1>6, Zenon DEF EchoInv
<1>8. LogTypes' BY <1>1, <1>2, <1>5, <1>6, Zenon DEF LogTypes
<1>9. PICK m \in Nat : IsEcho(chars, m) BY <1>5
<1> DEFINE echo == Logging!StringIn(chars)
<1>10. IsSeq(echo) BY <1>5, <1>9, EchoString
<1>11. Logging!IsPiece(Logging!Plain("s")) /\ Logging!Plain("s").letter = "s" BY PlainPiece
<1>12. Logging!TakesArgument("s") /\ "s" \notin Logging!Numbers
  BY DEF Logging!TakesArgument, Logging!Numbers, Logging!Signed
<1> HIDE DEF echo
<1>13. Fits("s", echo) BY <1>10, <1>12, Zenon DEF Fits
<1>14. <<echo>> = Given(Logging!Plain("s"), echo) BY <1>11, <1>12 DEF Given
<1>15. IsMessage(pieces, <<echo>>) BY <1>11, <1>12, <1>13, <1>14, MessageOfTwo
<1>16. Logging!Begin("log", pieces, <<echo>>) BY <1>2, <1>6 DEF echo
<1>17. "log" # "alt_printf" OBVIOUS
<1> HIDE DEF pieces
<1>18. PrinterTypes' /\ MessageInv' BY <1>2, <1>15, <1>16, <1>17, Begins, Zenon
<1> QED BY <1>7, <1>8, <1>18, Zenon DEF LogInv

LEMMA LogInit ==
  ASSUME Logging!Init
  PROVE  LogInv
<1>1. /\ logging \in -1 .. 3 /\ message = None /\ parser = "idle" /\ fmtFlags = Logging!NoFlags
      /\ out = <<>> /\ alt_log_write_buf = <<>> /\ semihosting \in BOOLEAN /\ putbuf = <<>>
      /\ alt_log_sys_clk_count = 0 /\ alt_system_clock_in_sec = 0
  BY DEF Logging!Init
<1>2. IsSeq(<<>>) /\ Len(<<>>) = 0 BY EmptySeq
<1>3. ALT_LOG_WRITE_ECHO_LEN \in Nat /\ ALT_LOG_SYS_CLK_INTERVAL \in Nat
      /\ ALT_PUTBUF_SIZE \in Nat \ {0}
  BY LogAssumption
<1>4. FlagTypes(Logging!NoFlags)
  <2>1. Logging!NoFlags = [leadingZero |-> FALSE, before |-> -1, after |-> -1]
    BY DEF Logging!NoFlags
  <2> QED BY <2>1 DEF FlagTypes
<1>5. LogTypes BY <1>1, <1>2, <1>3 DEF LogTypes
<1>6. PrinterTypes BY <1>1, <1>2, <1>3, <1>4 DEF PrinterTypes
<1>7. EchoInv BY <1>1, Zenon DEF EchoInv
<1>8. MessageInv BY <1>1, Zenon DEF MessageInv
<1> QED BY <1>5, <1>6, <1>7, <1>8 DEF LogInv

LEMMA LogStep ==
  ASSUME LogInv, [Logging!Next]_log
  PROVE  LogInv'
<1>1. ASSUME NEW p \in Pieces, NEW arg \in Logging!Arguments(p.letter),
             Logging!ALT_LOG_PRINT_BOOT(p, arg)
      PROVE  LogInv'
  <2>1. Logging!PrintMessage("boot", p, arg) BY <1>1, Zenon DEF Logging!ALT_LOG_PRINT_BOOT
  <2>2. "boot" # "alt_printf" OBVIOUS
  <2> QED BY <2>1, <2>2, PrintMessageInv, Zenon
<1>2. ASSUME NEW p \in Pieces, NEW arg \in Logging!Arguments(p.letter), Logging!alt_printf(p, arg)
      PROVE  LogInv'
  <2>1. /\ Logging!PrintMessage("alt_printf", p, arg)
        /\ p = Logging!Plain(p.letter) /\ p.letter \in Logging!AltLetters
    BY <1>2, Zenon DEF Logging!alt_printf
  <2> QED BY <2>1, PrintMessageInv, Zenon
<1>3. ASSUME NEW space \in Values,
             \/ Logging!altera_avalon_jtag_uart_report_log(space)
             \/ Logging!alt_log_jtag_uart_isr_proc(space)
             \/ Logging!ALT_LOG_JTAG_UART_ALARM_REGISTER(space)
      PROVE  LogInv'
  <2>1. \E header : Logging!alt_log_jtag_uart_print_control_reg(header, space)
    BY <1>3, Zenon DEF Logging!altera_avalon_jtag_uart_report_log,
         Logging!alt_log_jtag_uart_isr_proc, Logging!ALT_LOG_JTAG_UART_ALARM_REGISTER
  <2> QED BY <2>1, ControlRegInv, Zenon
<1>4. CASE UNCHANGED log
  <2>1. /\ logging' = logging /\ semihosting' = semihosting /\ message' = message /\ fmt' = fmt
        /\ args' = args /\ parser' = parser /\ fmtFlags' = fmtFlags /\ out' = out
        /\ putbuf' = putbuf /\ alt_log_write_buf' = alt_log_write_buf
        /\ alt_log_sys_clk_count' = alt_log_sys_clk_count
        /\ alt_system_clock_in_sec' = alt_system_clock_in_sec
    BY <1>4 DEF log
  <2>2. PrinterTypes' /\ MessageInv' BY <2>1, PrinterKept DEF Logging!printer
  <2>3. LogTypes' /\ EchoInv' BY <2>1, BeginKeeps DEF Logging!clock
  <2> QED BY <2>2, <2>3 DEF LogInv
<1>5. CASE Logging!Next
  BY <1>1, <1>2, <1>3, <1>5, SystemClockInv, WriteInv, CharsInv, FirstFmtCharInv, FmtModifierInv,
     ConversionInv, EndOfFormatInv, AltCharInv, AltConversionInv, PutbufflushInv, Zenon
     DEF Logging!Next
<1> QED BY <1>4, <1>5

\* When the format and the buffer are empty, every piece is printed.
LEMMA LogAsAsked ==
  ASSUME LogInv
  PROVE  Logging!MessagesAsAsked
<1> SUFFICES ASSUME message # None, fmt = <<>>, putbuf = <<>>
             PROVE  out = Logging!Rendered(message.pieces, message.args) /\ args = <<>>
  BY Zenon DEF Logging!MessagesAsAsked
<1>1. PICK which, pieces, given, j : Prints(which, pieces, given, j) BY IsPrinting
<1>2. /\ IsMessage(pieces, given) /\ Printing(pieces, given, j) /\ j \in Nat
      /\ j <= Len(pieces) /\ Len(pieces) \in Nat /\ Told(which, pieces, given) /\ LogInv
  BY <1>1 DEF Prints
<1>3. message.pieces = pieces /\ message.args = given BY <1>2 DEF Told
<1> DEFINE r == Renderings(pieces, given)
<1> DEFINE left(k) == SubSeq(given, Logging!Consumed(pieces, k) + 1, Len(given))
<1>4. out = Done(r, j) /\ args = left(j)
  <2>1. IsSeq(out) BY <1>2 DEF LogInv, PrinterTypes
  <2>2. out \o <<>> = out BY <2>1, EmptySeq, Joined
  <2> QED BY <1>2, <2>2, Zenon DEF Printing
<1>5. CASE j = Len(pieces)
  BY <1>2, <1>3, <1>4, <1>5, MessageEnd
<1>6. CASE j # Len(pieces)
  <2>1. j < Len(pieces) BY <1>2, <1>6
  <2> DEFINE p == pieces[j + 1]
  <2> DEFINE rest == Rest(Spellings(pieces), j + 1)
  <2>2. /\ Rest(Spellings(pieces), j) = Logging!Spelling(p) \o rest /\ IsSeq(rest)
        /\ IsSeq(Done(r, j)) /\ Done(r, j + 1) = Done(r, j) \o RenderedAt(pieces, given, j + 1)
        /\ left(j + 1) = (IF Logging!TakesArgument(p.letter) THEN Tail(left(j)) ELSE left(j))
        /\ (~Logging!TakesArgument(p.letter) =>
              RenderedAt(pieces, given, j + 1)
                = IF p.letter \in {"literal", "%"} THEN <<Logging!Ch(p.letter)>> ELSE <<>>)
    BY <1>2, <2>1, NextPiece, Zenon
  <2> HIDE DEF r, left
  <2>3. parser \in {"firstFmtChar", "otherFmtChar"}
    <3> SUFFICES ASSUME parser \notin {"firstFmtChar", "otherFmtChar"} PROVE FALSE OBVIOUS
    <3>1. Logging!Spelling(p) \o rest = <<>> BY <1>2, <2>2, Zenon DEF Printing
    <3>2. CASE p.letter = "literal"
      <4>1. Logging!Spelling(p) = <<Logging!Ch("literal")>> BY <3>2, Zenon DEF Logging!Spelling
      <4> QED BY <2>2, <3>1, <4>1, OneFirst
    <3>3. CASE p.letter # "literal"
      <4>1. Logging!Spelling(p) \o rest = <<Logging!Ch("%")>> \o FromZero(p, rest)
            /\ IsSeq(FromZero(p, rest))
        BY <2>2, <3>3, SpellingFrom, Zenon
      <4> QED BY <3>1, <4>1, OneFirst
    <3> QED BY <3>2, <3>3
  <2>4. /\ p.letter # "literal" /\ Logging!IsPiece(p) /\ CutOff(p, rest) /\ FlagTypes(fmtFlags)
        /\ parser = "firstFmtChar" => fmt = FromZero(p, rest) /\ fmtFlags = Logging!NoFlags
        /\ parser # "firstFmtChar" => p.letter # "%" /\ Converting(p, fmtFlags, fmt, rest)
    BY <1>1, <2>3, PrintsConversion
  <2>5. IsSeq(rest) BY <2>2
  <2> HIDE DEF p, rest
  <2>6. p.letter # "%" /\ Converting(p, fmtFlags, fmt, rest)
    <3>1. CASE parser = "firstFmtChar" BY <2>4, <2>5, <3>1, FirstOutcome, Zenon
    <3> QED BY <2>4, <3>1, Zenon
  <2>7. Outcome(p, fmtFlags, fmt, rest) BY <2>4, <2>5, <2>6, CharOutcome, Zenon
  <2>8. p.letter = "" /\ rest = <<>> BY <2>4, <2>7, Zenon DEF Outcome, Modifies, Converts, CutOff
  <2>9. ~Logging!TakesArgument(p.letter) BY <2>8, NoArgument, Zenon
  <2>10. p.letter \notin {"literal", "%"} BY <2>4, <2>6, Zenon
  <2>11. RenderedAt(pieces, given, j + 1) = <<>> /\ left(j + 1) = left(j)
    BY <2>2, <2>9, <2>10, Zenon DEF p
  <2>12. Done(r, j + 1) = Done(r, j)
    <3>1. Done(r, j) \o <<>> = Done(r, j) BY <2>2, EmptySeq, Joined, Zenon
    <3> QED BY <2>2, <2>11, <3>1, Zenon
  <2>13. j + 1 = Len(pieces)
    <3>1. j + 1 \in 1 .. Len(pieces) BY <1>2, <2>1
    <3> QED BY <1>2, <2>8, <3>1, Zenon DEF IsMessage, p
  <2>14. Done(r, Len(pieces)) = Logging!Rendered(pieces, given) /\ left(Len(pieces)) = <<>>
    BY <1>2, MessageEnd DEF r, left
  <2> QED BY <1>3, <1>4, <2>11, <2>12, <2>13, <2>14, Zenon
<1> QED BY <1>5, <1>6, Zenon

LEMMA LogEcho ==
  ASSUME LogInv
  PROVE  Logging!EchoIsALine
<1> SUFFICES ASSUME alt_log_write_buf # <<>>
             PROVE  LET echo == Logging!StringIn(alt_log_write_buf)
                    IN  /\ Logging!CtrlD \notin Logging!ToSet(echo)
                        /\ Len(echo) <= ALT_LOG_WRITE_ECHO_LEN + 1
                        /\ Logging!Last(echo) = Logging!Ch("\r")
                        /\ echo[Len(echo) - 1] = Logging!Ch("\n")
  BY Zenon DEF Logging!EchoIsALine
<1> DEFINE chars == alt_log_write_buf
<1> DEFINE echo == Logging!StringIn(chars)
<1>1. PICK m \in Nat : IsEcho(chars, m) BY DEF LogInv, EchoInv
<1>2. IsSeq(chars) /\ ALT_LOG_WRITE_ECHO_LEN \in Nat BY LogAssumption DEF LogInv, LogTypes
<1>3. IsSeq(echo) /\ Len(echo) = m - 1 /\ \A i \in 1 .. (m - 1) : echo[i] = chars[i]
  BY <1>1, <1>2, EchoString
<1>4. /\ m >= 3 /\ m <= ALT_LOG_WRITE_ECHO_LEN + 2
      /\ chars[m - 1] = Logging!Ch("\r") /\ chars[m - 2] = Logging!Ch("\n")
      /\ \A i \in 1 .. (m - 1) : chars[i] # Logging!CtrlD
  BY <1>1 DEF IsEcho
<1> HIDE DEF echo, chars
<1>5. DOMAIN echo = 1 .. (m - 1) BY <1>3 DEF IsSeq
<1>6. Logging!CtrlD \notin Logging!ToSet(echo) BY <1>3, <1>4, <1>5 DEF Logging!ToSet
<1>7. Len(echo) <= ALT_LOG_WRITE_ECHO_LEN + 1 BY <1>2, <1>3, <1>4
<1>8. Logging!Last(echo) = Logging!Ch("\r")
  <2>1. m - 1 \in 1 .. (m - 1) BY <1>4
  <2>2. echo[Len(echo)] = chars[m - 1] BY <1>3, <2>1
  <2> QED BY <1>4, <2>2 DEF Logging!Last
<1>9. echo[Len(echo) - 1] = Logging!Ch("\n")
  <2>1. m - 2 \in 1 .. (m - 1) /\ (m - 1) - 1 = m - 2 BY <1>4
  <2> QED BY <1>3, <1>4, <2>1
<1> QED BY <1>6, <1>7, <1>8, <1>9 DEF echo, chars

\* Log: a format is printed as it reads, with every argument where it belongs, and an echo
\* stays a line that ends behind its text, whatever was printed and written before.
THEOREM LogSound == HalSpec => []LogIsSound
<1>1. HalInit => LogInv BY LogInit DEF HalInit
<1>2. [HalNext]_halVars => [Logging!Next]_log BY DEF HalNext, halVars, Only
<1>3. LogInv => LogIsSound BY LogAsAsked, LogEcho DEF LogIsSound, Logging!LogIsSound
<1> QED BY <1>1, <1>2, <1>3, LogStep, PTL DEF HalSpec

-----------------------------------------------------------------------------
(* The types of the services; what their invariants leave open of them *)

ClockTypes ==
  /\ todCall.of \in {"none", "gettimeofday", "settimeofday", "times"}
  /\ nticks.low \in -1 .. (Word - 1) /\ nticks.high \in -1 .. (MaxTicks \div Word)

\* The quotient and the remainder of a count are no larger than those of the largest.
LEMMA CountParts ==
  ASSUME NEW w \in Nat \ {0}, NEW most \in Nat, NEW t \in 0 .. most
  PROVE  t % w \in -1 .. (w - 1) /\ t \div w \in -1 .. (most \div w)
<1> DEFINE q == t \div w
           p == most \div w
<1>1. q \in Nat /\ p \in Nat /\ t % w \in 0 .. (w - 1) /\ most % w \in 0 .. (w - 1)
      /\ t = w * q + (t % w) /\ most = w * p + (most % w)
  OBVIOUS
<1> HIDE DEF q, p
<1>2. q <= p
  <2> SUFFICES ASSUME p + 1 <= q PROVE FALSE BY <1>1
  <2>1. w * (p + 1) <= w * q BY <1>1
  <2>2. w * (p + 1) = w * p + w BY <1>1
  <2> QED BY <1>1, <2>1, <2>2
<1> QED BY <1>1, <1>2 DEF q, p

LEMMA ClockTypesInit == Time!Init => ClockTypes
<1>1. 0 \div Word \in Nat /\ MaxTicks \div Word \in Nat BY ClockAssumption
<1> QED BY <1>1, ClockAssumption DEF Time!Init, ClockTypes, Time!Idle, Time!NotRead

LEMMA ClockTypesStep == ClockInv /\ ClockTypes /\ [Time!Next]_times => ClockTypes'
<1> SUFFICES ASSUME ClockInv, ClockTypes, [Time!Next]_times PROVE ClockTypes' OBVIOUS
<1>1. CASE UNCHANGED <<todCall, nticks>> BY <1>1 DEF ClockTypes
<1>2. CASE UNCHANGED times \/ Time!SysclkInit \/ Time!Tick
  BY <1>1, <1>2 DEF times, Time!SysclkInit, Time!Tick
<1>3. CASE Time!ReadLow \/ Time!ReadHigh
  <2>1. ticks % Word \in -1 .. (Word - 1) /\ ticks \div Word \in -1 .. (MaxTicks \div Word)
    BY CountParts, ClockAssumption DEF ClockInv, WordsInv
  <2>2. DOMAIN nticks = {"low", "high"} /\ todCall' = todCall
    BY <1>3 DEF ClockInv, WordsInv, Time!ReadLow, Time!ReadHigh, Time!ReadWord
  <2>3. \/ nticks' = [nticks EXCEPT !["low"] = ticks % Word]
        \/ nticks' = [nticks EXCEPT !["high"] = ticks \div Word]
    BY <1>3 DEF Time!ReadLow, Time!ReadHigh, Time!ReadWord
  <2> QED BY <2>1, <2>2, <2>3 DEF ClockTypes
<1>4. ASSUME NEW c \in {[of |-> "gettimeofday"], [of |-> "times"]}
                         \cup [of : {"settimeofday"}, t : Times], Time!Call(c)
      PROVE  ClockTypes'
  <2>1. c.of \in {"gettimeofday", "settimeofday", "times"} OBVIOUS
  <2>2. MaxTicks \div Word \in Nat BY ClockAssumption
  <2> QED BY <1>4, <2>1, <2>2, ClockAssumption DEF Time!Call, ClockTypes, Time!NotRead
<1>5. CASE Time!gettimeofday \/ Time!settimeofday \/ Time!times
  <2>1. todCall' = Time!Idle /\ nticks' = nticks
    BY <1>5 DEF Time!gettimeofday, Time!settimeofday, Time!times, Time!Return
  <2> QED BY <2>1 DEF ClockTypes, Time!Idle
<1> QED BY <1>2, <1>3, <1>4, <1>5 DEF Time!Next

LEMMA ClockTyped == ClockInv /\ ClockTypes => Time!TypeOK
BY ClockAssumption DEF ClockInv, WordsInv, TimeInv, ClockTypes, Time!TypeOK

\* The program is started as often as the bound allows.
LEMMA StartsInit == Start!Init => starts <= MaxStarts
BY StartAssumption DEF Start!Init

LEMMA StartsStep == StartInv /\ starts <= MaxStarts /\ [Start!Next]_start => starts' <= MaxStarts
<1> SUFFICES ASSUME StartInv, starts <= MaxStarts, [Start!Next]_start PROVE starts' <= MaxStarts
  OBVIOUS
<1>1. starts \in Nat BY DEF StartInv, StartTypes
<1>2. CASE Start!Reset BY <1>1, <1>2, StartAssumption DEF Start!Reset
<1>3. CASE UNCHANGED starts BY <1>3
<1>4. CASE ~Start!Reset
  BY <1>3, <1>4 DEF Start!Next, start, Start!boot, Start!Start, Start!ClearBss, Start!Load, Start!ClearTbss,
    Start!CopyTdata, Start!IrqInit, Start!UartInit, Start!ClockInit, Start!Redirect, Start!Ctor,
    Start!CallMain, Start!Dtor, Start!Stop, Start!Write, Start!Exit, Start!Kill
<1> QED BY <1>2, <1>4

LEMMA StartTyped == StartInv /\ starts <= MaxStarts => Start!TypeOK
BY StartAssumption DEF StartInv, StartTypes, Start!TypeOK

\* The end of the heap is beyond its limit only where it has been aligned.
HeapTypes ==
  /\ heap_end \in Nat /\ stack_limit \in 0 .. heap_limit
  /\ heap_end <= heap_limit \/ (heap_end <= heap_limit + 3 /\ heap_end % 4 = 0)
  /\ checks \in BOOLEAN /\ overflow \in BOOLEAN
SlabTypes ==
  /\ mcount_slab_ptr \in Nat /\ mcount_slab_size \in 0 .. MCOUNT_SLAB_INCREMENT
  /\ failed \in BOOLEAN
At == {"idle", "arcs", "load", "store", "start", "clear", "init", "record", "arc"}
McountTypes ==
  /\ mcountPc \in [Profile!Contexts -> At]
  /\ calling \in [Profile!Contexts -> Arcs \cup {Profile!NoCall}]
  /\ fn \in [Profile!Contexts -> 0 .. Len(fns)]
AlarmTypes == alarmList \in [Profile!Nodes -> Profile!Nodes] /\ hung \in BOOLEAN
ProfileTypes == HeapTypes /\ SlabTypes /\ McountTypes /\ AlarmTypes

LEMMA ProfileTypesInit == Profile!Init => ProfileTypes
<1> SUFFICES ASSUME Profile!Init PROVE ProfileTypes OBVIOUS
<1>1. HeapTypes
  <2>1. heap_limit \in Nat BY ProfileAssumption
  <2>2. heap_end = 0 /\ stack_limit = 0 BY DEF Profile!Init
  <2>3. checks \in BOOLEAN /\ overflow \in BOOLEAN BY Zenon DEF Profile!Init
  <2> QED BY <2>1, <2>2, <2>3 DEF HeapTypes
<1>2. SlabTypes
  <2>1. MCOUNT_SLAB_INCREMENT \in Nat BY ProfileAssumption
  <2>2. mcount_slab_ptr = 0 /\ mcount_slab_size = 0 /\ failed = FALSE BY DEF Profile!Init
  <2>3. failed \in BOOLEAN BY <2>2, Zenon
  <2>4. mcount_slab_ptr \in Nat /\ mcount_slab_size \in 0 .. MCOUNT_SLAB_INCREMENT
    BY <2>1, <2>2
  <2> QED BY <2>3, <2>4 DEF SlabTypes
<1>3. McountTypes
  <2>1. Len(<<>>) = 0 OBVIOUS
  <2>2. 0 \in 0 .. Len(fns) BY <2>1 DEF Profile!Init
  <2> QED BY <2>2, Zenon DEF Profile!Init, McountTypes, At, Profile!Each
<1>4. AlarmTypes BY Zenon DEF Profile!Init, AlarmTypes, Profile!Nodes
<1> QED BY <1>1, <1>2, <1>3, <1>4 DEF ProfileTypes

LEMMA AlignedClose ==
  ASSUME NEW a \in Nat
  PROVE  Profile!Aligned(a) <= a + 3
<1> DEFINE q == (a + 3) \div 4
<1>1. q \in Nat /\ (a + 3) % 4 \in 0 .. 3 /\ a + 3 = 4 * q + ((a + 3) % 4) OBVIOUS
<1> HIDE DEF q
<1> QED BY <1>1 DEF Profile!Aligned, q

LEMMA ExtendTypes ==
  ASSUME HeapTypes, NEW incr \in Nat, NEW sp, NEW owner,
         Profile!Fits(incr), Profile!Extend(incr, sp, owner)
  PROVE  HeapTypes' /\ Profile!Aligned(heap_end) \in Nat
<1> DEFINE e == Profile!Aligned(heap_end)
<1>1. e \in Nat BY AlignedUp DEF HeapTypes
<1>2. /\ heap_end' = e + incr /\ e + incr <= heap_limit /\ checks' = checks
      /\ stack_limit' = e + incr \/ stack_limit' = stack_limit
      /\ overflow' = TRUE \/ overflow' = overflow
  BY DEF Profile!Extend, Profile!Fits, Profile!alt_set_stack_limit, Profile!alt_stack_limit,
    Profile!alt_report_stack_overflow
<1>3. heap_limit \in Nat BY ProfileAssumption
<1> HIDE DEF e
<1>4. overflow' \in BOOLEAN /\ checks' \in BOOLEAN BY <1>2, Zenon DEF HeapTypes
<1>5. heap_end' \in Nat /\ heap_end' <= heap_limit BY <1>1, <1>2, <1>3
<1>6. stack_limit' \in 0 .. heap_limit BY <1>1, <1>2, <1>3 DEF HeapTypes
<1>7. HeapTypes' BY <1>4, <1>5, <1>6 DEF HeapTypes
<1> QED BY <1>1, <1>7 DEF e

LEMMA RefuseTypes ==
  ASSUME HeapTypes, Profile!Refuse
  PROVE  HeapTypes'
<1> DEFINE e == Profile!Aligned(heap_end)
<1>1. /\ e \in Nat /\ heap_end \in Nat /\ e <= heap_end + 3 /\ e % 4 = 0
      /\ heap_end % 4 = 0 => e = heap_end
  BY AlignedUp, AlignedClose DEF HeapTypes
<1>2. heap_end' = e /\ UNCHANGED <<checks, stack_limit, overflow>> BY DEF Profile!Refuse
<1> HIDE DEF e
<1> QED BY <1>1, <1>2, ProfileAssumption DEF HeapTypes

LEMMA AllocateTypes ==
  ASSUME HeapTypes, SlabTypes, Profile!Allocate
  PROVE  HeapTypes' /\ SlabTypes'
<1>1. CASE Profile!EntrySize <= mcount_slab_size
  <2>1. /\ mcount_slab_ptr' = mcount_slab_ptr + 12 /\ mcount_slab_size' = mcount_slab_size - 12
        /\ UNCHANGED <<heap_end, checks, stack_limit, overflow, failed>>
        /\ mcount_slab_size >= 12
    BY <1>1 DEF Profile!Allocate, Profile!heap, Profile!EntrySize, SlabTypes
  <2> QED BY <2>1, ProfileAssumption DEF HeapTypes, SlabTypes
<1>2. CASE ~(Profile!EntrySize <= mcount_slab_size) /\ Profile!Fits(MCOUNT_SLAB_INCREMENT)
  <2>1. PICK sp \in StackTops : Profile!Extend(MCOUNT_SLAB_INCREMENT, sp, "slab")
    BY <1>2 DEF Profile!Allocate
  <2>2. /\ mcount_slab_ptr' = Profile!Aligned(heap_end) + 12
        /\ mcount_slab_size' = MCOUNT_SLAB_INCREMENT - 12 /\ failed' = failed
    BY <1>2 DEF Profile!Allocate, Profile!EntrySize
  <2>3. HeapTypes' /\ Profile!Aligned(heap_end) \in Nat
    BY <1>2, <2>1, ProfileAssumption, ExtendTypes
  <2>4. MCOUNT_SLAB_INCREMENT \in Nat /\ 12 <= MCOUNT_SLAB_INCREMENT
    BY ProfileAssumption DEF Profile!EntrySize
  <2> QED BY <2>2, <2>3, <2>4 DEF SlabTypes
<1>3. CASE ~(Profile!EntrySize <= mcount_slab_size) /\ ~Profile!Fits(MCOUNT_SLAB_INCREMENT)
  <2>1. Profile!Refuse /\ UNCHANGED Profile!slab /\ failed' = TRUE BY <1>3 DEF Profile!Allocate
  <2> QED BY <2>1, RefuseTypes DEF SlabTypes, Profile!slab
<1> QED BY <1>1, <1>2, <1>3

LEMMA MemoryTypes ==
  ASSUME HeapTypes, SlabTypes, [Profile!Next]_profile
  PROVE  HeapTypes' /\ SlabTypes'
<1> DEFINE Same == UNCHANGED <<heap_end, checks, stack_limit, overflow, mcount_slab_ptr,
                               mcount_slab_size, failed>>
<1>1. CASE Same BY <1>1 DEF HeapTypes, SlabTypes
<1>2. ASSUME NEW incr \in Increments, NEW sp \in StackTops, Profile!Malloc(incr, sp)
      PROVE  HeapTypes' /\ SlabTypes'
  <2>1. SlabTypes' BY <1>2 DEF Profile!Malloc, Profile!slab, SlabTypes
  <2>2. CASE Profile!Fits(incr)
    <3>1. Profile!Extend(incr, sp, "malloc") /\ incr \in Nat
      BY <1>2, <2>2, ProfileAssumption DEF Profile!Malloc
    <3> QED BY <2>1, <2>2, <3>1, ExtendTypes
  <2>3. CASE ~Profile!Fits(incr) BY <1>2, <2>1, <2>3, RefuseTypes DEF Profile!Malloc
  <2> QED BY <2>2, <2>3
<1>3. ASSUME NEW c \in Profile!Contexts, Profile!RecordFunction(c) \/ Profile!RecordArc(c)
      PROVE  HeapTypes' /\ SlabTypes'
  <2>1. Profile!Allocate \/ Same
    BY <1>3 DEF Profile!RecordFunction, Profile!RecordArc, Profile!heap, Profile!slab
  <2> QED BY <1>1, <2>1, AllocateTypes
<1>4. ASSUME NEW c \in Profile!Contexts, Profile!niosv_pcsample_init(c)
      PROVE  HeapTypes' /\ SlabTypes'
  <2>1. Profile!Pcsamples \in Nat
    <3>1. TextSize \div 32 \in Nat BY ProfileAssumption
    <3> QED BY <3>1 DEF Profile!Pcsamples, Profile!PCSAMPLE_BYTES_PER_BUCKET
  <2>2. UNCHANGED <<mcount_slab_ptr, mcount_slab_size>>
    BY <1>4 DEF Profile!niosv_pcsample_init, Profile!slab
  <2>3. CASE Profile!heap' = Profile!heap /\ failed' = failed
    BY <1>1, <2>2, <2>3 DEF Profile!heap
  <2>4. CASE Profile!Refuse /\ failed' = TRUE BY <2>2, <2>4, RefuseTypes DEF SlabTypes
  <2>5. ASSUME NEW sp, Profile!Fits(Profile!Pcsamples),
               Profile!Extend(Profile!Pcsamples, sp, "samples"), failed' = failed
        PROVE  HeapTypes' /\ SlabTypes'
    <3>1. HeapTypes' BY <2>1, <2>5, ExtendTypes
    <3> QED BY <2>2, <2>5, <3>1 DEF SlabTypes
  <2> QED BY <1>4, <2>3, <2>4, <2>5 DEF Profile!niosv_pcsample_init
<1>5. ASSUME NEW c \in Profile!Contexts,
             \/ \E a \in Arcs : Profile!Enter(c, a)
             \/ Profile!WalkArcs(c) \/ Profile!LoadCount(c) \/ Profile!StoreCount(c)
             \/ Profile!TestSampler(c) \/ Profile!ClearFlag(c)
      PROVE  Same
  BY <1>5 DEF Profile!Enter, Profile!WalkArcs, Profile!LoadCount, Profile!StoreCount,
    Profile!TestSampler, Profile!ClearFlag, Profile!heap, Profile!slab
<1>6. CASE Profile!SysclkInit \/ UNCHANGED profile
  <2>1. Same BY <1>6 DEF Profile!SysclkInit, Profile!heap, Profile!slab, profile
  <2> QED BY <1>1, <2>1
<1>7. ASSUME NEW offset, Profile!Sample(offset) PROVE HeapTypes' /\ SlabTypes'
  <2>1. UNCHANGED <<heap_end, checks, stack_limit, overflow, mcount_slab_ptr, mcount_slab_size>>
    BY <1>7 DEF Profile!Sample, Profile!heap, Profile!slab
  <2>2. failed' \in BOOLEAN
    <3>1. Profile!Count(offset) BY <1>7 DEF Profile!Sample
    <3>2. CASE offset \in 0 .. (TextSize - 1) BY <3>1, <3>2, Zenon DEF Profile!Count
    <3>3. CASE offset \notin 0 .. (TextSize - 1)
      <4>1. failed' = failed BY <3>1, <3>3 DEF Profile!Count
      <4> QED BY <4>1 DEF SlabTypes
    <3> QED BY <3>2, <3>3
  <2> QED BY <2>1, <2>2 DEF HeapTypes, SlabTypes
<1> HIDE DEF Same
<1> QED BY <1>1, <1>2, <1>3, <1>4, <1>5, <1>6, <1>7 DEF Profile!Next

LEMMA AlarmStep == ASSUME AlarmTypes, [Profile!Next]_profile PROVE AlarmTypes'
<1>1. CASE UNCHANGED <<alarmList, hung>> BY <1>1 DEF AlarmTypes
<1>2. ASSUME NEW c, Profile!niosv_pcsample_init(c) PROVE AlarmTypes'
  <2>1. hung' = hung /\ (alarmList' = alarmList \/ alarmList' = Profile!Inserted)
    BY <1>2 DEF Profile!niosv_pcsample_init
  <2>2. Profile!Inserted \in [Profile!Nodes -> Profile!Nodes]
    BY DEF AlarmTypes, Profile!Inserted, Profile!Nodes
  <2> QED BY <2>1, <2>2 DEF AlarmTypes
<1>3. ASSUME NEW offset, Profile!Sample(offset) PROVE AlarmTypes'
  <2>1. alarmList' = alarmList /\ hung' = (alarmList["alarm"] = "alarm")
    BY <1>3 DEF Profile!Sample
  <2>2. hung' \in BOOLEAN BY <2>1, Zenon
  <2> QED BY <2>1, <2>2 DEF AlarmTypes
<1>4. ASSUME NEW c,
             \/ \E a \in Arcs : Profile!Enter(c, a)
             \/ Profile!WalkArcs(c) \/ Profile!LoadCount(c) \/ Profile!StoreCount(c)
             \/ Profile!RecordFunction(c) \/ Profile!RecordArc(c)
             \/ Profile!TestSampler(c) \/ Profile!ClearFlag(c)
      PROVE  UNCHANGED <<alarmList, hung>>
  BY <1>4 DEF Profile!Enter, Profile!WalkArcs, Profile!LoadCount, Profile!StoreCount,
    Profile!RecordFunction, Profile!RecordArc, Profile!TestSampler, Profile!ClearFlag,
    Profile!sampler
<1>5. CASE \/ \E incr \in Increments, sp \in StackTops : Profile!Malloc(incr, sp)
           \/ Profile!SysclkInit \/ UNCHANGED profile
  <2>1. UNCHANGED <<alarmList, hung>>
    BY <1>5 DEF Profile!Malloc, Profile!SysclkInit, Profile!sampler, profile
  <2> QED BY <1>1, <2>1
<1> QED BY <1>1, <1>2, <1>3, <1>4, <1>5 DEF Profile!Next

\* mcount moves in one context: what it has found is still an entry of the list.
Moves(c) ==
  /\ Len(fns) <= Len(fns')
  /\ \E to \in At : mcountPc' = [mcountPc EXCEPT ![c] = to]
  /\ calling' = calling \/ \E a \in Arcs : calling' = [calling EXCEPT ![c] = a]
  /\ fn' = fn \/ \E k \in 0 .. Len(fns') : fn' = [fn EXCEPT ![c] = k]

LEMMA McountMoves ==
  ASSUME McountTypes, Len(fns) \in Nat, Len(fns') \in Nat, NEW c \in Profile!Contexts, Moves(c)
  PROVE  McountTypes'
<1>1. mcountPc' \in [Profile!Contexts -> At] BY DEF McountTypes, Moves
<1>2. calling' \in [Profile!Contexts -> Arcs \cup {Profile!NoCall}] BY DEF McountTypes, Moves
<1>3. fn' \in [Profile!Contexts -> 0 .. Len(fns')]
  <2>1. fn \in [Profile!Contexts -> 0 .. Len(fns')]
    <3>1. \A k \in 0 .. Len(fns) : k \in 0 .. Len(fns') BY DEF Moves
    <3> QED BY <3>1 DEF McountTypes
  <2> QED BY <2>1 DEF Moves
<1> QED BY <1>1, <1>2, <1>3 DEF McountTypes

LEMMA McountStep ==
  ASSUME GraphInv, GraphInv', McountTypes, [Profile!Next]_profile
  PROVE  McountTypes'
<1>1. Len(fns) \in Nat /\ Len(fns') \in Nat BY DEF GraphInv, WalkInv
<1>2. CASE UNCHANGED <<mcountPc, calling, fn, fns>> BY <1>2 DEF McountTypes
<1>3. ASSUME NEW c \in Profile!Contexts, NEW a \in Arcs, Profile!Enter(c, a) PROVE McountTypes'
  <2> DEFINE k == Profile!FindFunction(a.self, Len(fns))
             to == IF fn'[c] = 0 THEN "start" ELSE "arcs"
  <2>1. /\ calling' = [calling EXCEPT ![c] = a] /\ fn' = [fn EXCEPT ![c] = k] /\ fns' = fns
        /\ mcountPc' = [mcountPc EXCEPT ![c] = to]
    BY <1>3 DEF Profile!Enter, Profile!GoTo
  <2>2. to \in At /\ to # "idle" BY DEF At
  <2>3. fn'[c] = k /\ mcountPc'[c] = to BY <2>1 DEF GraphInv, WalkInv
  <2>4. fn'[c] # 0 => fn'[c] \in 1 .. Len(fns')
    BY <2>2, <2>3 DEF GraphInv, WalkInv, McountInv
  <2> HIDE DEF k, to
  <2>5. k \in 0 .. Len(fns') BY <1>1, <2>3, <2>4
  <2>6. Len(fns) <= Len(fns') BY <1>1, <2>1
  <2>7. Moves(c) BY <2>1, <2>2, <2>5, <2>6, Zenon DEF Moves
  <2> QED BY <1>1, <2>7, McountMoves
<1>4. ASSUME NEW c \in Profile!Contexts,
             \/ Profile!WalkArcs(c) \/ Profile!LoadCount(c)
             \/ Profile!TestSampler(c) \/ Profile!ClearFlag(c) \/ Profile!niosv_pcsample_init(c)
      PROVE  McountTypes'
  <2>1. UNCHANGED <<calling, fn, fns>>
    BY <1>4 DEF Profile!WalkArcs, Profile!LoadCount, Profile!TestSampler, Profile!ClearFlag,
      Profile!niosv_pcsample_init
  <2>2. PICK to \in At : mcountPc' = [mcountPc EXCEPT ![c] = to]
    BY <1>4, Zenon DEF Profile!WalkArcs, Profile!LoadCount, Profile!TestSampler, Profile!ClearFlag,
      Profile!niosv_pcsample_init, Profile!GoTo, At
  <2>3. Len(fns) <= Len(fns') BY <1>1, <2>1
  <2>4. Moves(c) BY <2>1, <2>2, <2>3, Zenon DEF Moves
  <2> QED BY <1>1, <2>4, McountMoves
<1>5. ASSUME NEW c \in Profile!Contexts, Profile!StoreCount(c) \/ Profile!RecordArc(c)
      PROVE  McountTypes'
  <2>1. UNCHANGED <<calling, fn>> /\ mcountPc' = [mcountPc EXCEPT ![c] = "idle"]
    BY <1>5 DEF Profile!StoreCount, Profile!RecordArc, Profile!GoTo
  <2>2. DOMAIN fns' = DOMAIN fns BY <1>5 DEF Profile!StoreCount, Profile!RecordArc
  <2>3. Len(fns') = Len(fns) BY <2>2 DEF GraphInv, WalkInv
  <2>4. "idle" \in At BY DEF At
  <2>5. Len(fns) <= Len(fns') BY <1>1, <2>3
  <2>6. Moves(c) BY <2>1, <2>4, <2>5, Zenon DEF Moves
  <2> QED BY <1>1, <2>6, McountMoves
<1>6. ASSUME NEW c \in Profile!Contexts, Profile!RecordFunction(c) PROVE McountTypes'
  <2>1. calling' = calling /\ mcountPc' = [mcountPc EXCEPT ![c] = "arc"] /\ "arc" \in At
    BY <1>6 DEF Profile!RecordFunction, Profile!GoTo, At
  <2>2. CASE fn' = fn /\ fns' = fns
    <3>1. Len(fns) <= Len(fns') BY <1>1, <2>2
    <3>2. Moves(c) BY <2>1, <2>2, <3>1, Zenon DEF Moves
    <3> QED BY <1>1, <3>2, McountMoves
  <2>3. ASSUME NEW r, fns' = Append(fns, r), fn' = [fn EXCEPT ![c] = Len(fns) + 1]
        PROVE  McountTypes'
    <3>1. Len(fns') = Len(fns) + 1 BY <2>3 DEF GraphInv, WalkInv
    <3>2. Len(fns) + 1 \in 0 .. Len(fns') BY <1>1, <3>1
    <3>3. Len(fns) <= Len(fns') BY <1>1, <3>1
    <3>4. Moves(c) BY <2>1, <2>3, <3>2, <3>3, Zenon DEF Moves
    <3> QED BY <1>1, <3>4, McountMoves
  <2> QED BY <1>6, <2>2, <2>3 DEF Profile!RecordFunction
<1>7. CASE \/ \E incr \in Increments, sp \in StackTops : Profile!Malloc(incr, sp)
           \/ Profile!SysclkInit \/ UNCHANGED profile
           \/ \E offset \in {-1, 0, TextSize - 1} : Profile!Sample(offset)
  <2>1. UNCHANGED <<mcountPc, calling, fn, fns>>
    BY <1>7 DEF Profile!Malloc, Profile!SysclkInit, Profile!Sample, Profile!walk, profile
  <2> QED BY <1>2, <2>1
<1> QED BY <1>3, <1>4, <1>5, <1>6, <1>7 DEF Profile!Next

LEMMA ProfileTyped == ProfileTypes /\ AccountInv => Profile!TypeOK
<1> SUFFICES ASSUME ProfileTypes, AccountInv PROVE Profile!TypeOK OBVIOUS
<1>1. heap_end \in 0 .. heap_limit + 3 /\ stack_limit \in 0 .. heap_limit
  BY ProfileAssumption DEF ProfileTypes, HeapTypes
<1>2. checks \in BOOLEAN /\ overflow \in BOOLEAN BY Zenon DEF ProfileTypes, HeapTypes
<1> QED BY <1>1, <1>2, Zenon DEF ProfileTypes, SlabTypes, McountTypes, At, AlarmTypes, AccountInv,
  Profile!TypeOK

LEMMA ProfileTypesStep ==
  GraphInv /\ ProfileTypes /\ [Profile!Next]_profile => ProfileTypes'
<1> SUFFICES ASSUME GraphInv, ProfileTypes, [Profile!Next]_profile PROVE ProfileTypes' OBVIOUS
<1>1. HeapTypes' /\ SlabTypes' BY MemoryTypes DEF ProfileTypes
<1>2. McountTypes' BY GraphStep, McountStep DEF ProfileTypes
<1>3. AlarmTypes' BY AlarmStep DEF ProfileTypes
<1> QED BY <1>1, <1>2, <1>3 DEF ProfileTypes

LEMMA IrqTyped == IrqInv => Irq!TypeOK
BY InterruptsAssumption DEF IrqInv, IrqTypes, MaskInv, RunningInv, Irq!TypeOK

LEMMA TrapTyped == TrapInv => Trap!TypeOK
BY DEF TrapInv, TrapTypes, Csr, Trap!TypeOK, Trap!Depth

LEMMA ClicTyped == ClicInv => Configuration!TypeOK
BY DEF ClicInv, ClicTypes, Configuration!TypeOK

LEMMA ScanTyped == ScanInv => Platform!TypeOK
<1> SUFFICES ASSUME ScanTypes PROVE Platform!TypeOK BY DEF ScanInv
<1>1. \A i \in 1 .. Len(walk) : walk[i].dfh \in DOMAIN dfl.headers /\ walk[i].block \in Nat
  <2>1. \A i \in 1 .. Len(walk) : walk[i] \in Frames(dfl) BY DEF ScanTypes
  <2> QED BY <2>1 DEF Frames, Addresses
<1>2. \A i \in 1 .. Len(vec) : DOMAIN vec[i] = DOMAIN Platform!NoInfo
  <2>1. PICK n \in Nat : Vector(vec, n) BY DEF ScanTypes
  <2>2. Len(vec) = n BY <2>1 DEF Vector
  <2>3. \A i \in 1 .. Len(vec) : InfoFields(vec[i]) BY <2>1, <2>2 DEF Vector
  <2> QED BY <2>3 DEF InfoFields, Platform!NoInfo
<1> QED BY <1>1, <1>2 DEF ScanTypes, Platform!TypeOK

LEMMA ChannelTyped == ChannelInv => Channel!TypeOK
<1> SUFFICES ASSUME ChannelInv PROVE Channel!TypeOK OBVIOUS
<1>1. search # NULL => search.at \in Channel!Nodes BY DEF ChannelInv, SearchInv
<1> QED BY <1>1 DEF ChannelInv, ListsInv, ChannelTypes, Channel!TypeOK

LEMMA CacheTyped == CacheInv => Cache!TypeOK
BY DEF CacheInv, CacheTypes, Cache!TypeOK

LEMMA LogTyped == LogInv => Logging!TypeOK
BY DEF LogInv, LogTypes, PrinterTypes, FlagTypes, Logging!TypeOK

\* Every service keeps its types: its invariant has them, with what is above.
LEMMA FilesTyped == HalSpec => []TypeOK
<1>1. HalInit => IInv BY InitInv DEF HalInit
<1>2. [HalNext]_halVars => [Next]_vars BY DEF HalNext, halVars, Only
<1>3. IInv => TypeOK BY DEF IInv, PoolInv, StdioInv, LentInv, TypeOK, Entry
<1> QED BY <1>1, <1>2, <1>3, StepInv, PTL DEF HalSpec

LEMMA ProcessorTyped ==
  ASSUME "clic" \notin Builds
  PROVE  HalSpec => [](/\ Irq!TypeOK /\ Trap!TypeOK /\ Configuration!TypeOK
                       /\ Platform!TypeOK /\ Cache!TypeOK)
<1> DEFINE I == IrqInv /\ TrapInv /\ ClicInv /\ ScanInv /\ CacheInv
<1>1. HalInit => I BY IrqInit, TrapInit, ClicInit, ScanInit, CacheInit DEF HalInit
<1>2. I /\ [HalNext]_halVars => I'
  <2> SUFFICES ASSUME I, [HalNext]_halVars PROVE I' OBVIOUS
  <2>1. [Irq!Next]_interrupts BY DEF HalNext, halVars, Only
  <2>2. [Trap!Next]_traps BY DEF HalNext, halVars, Only
  <2>3. [Configuration!Next]_clic BY DEF HalNext, halVars, Only
  <2>4. [Platform!Next]_platform BY DEF HalNext, halVars, Only
  <2>5. [Cache!Next]_caches BY DEF HalNext, halVars, Only
  <2> QED BY <2>1, <2>2, <2>3, <2>4, <2>5, IrqStep, TrapStep, ClicStep, ScanStep, CacheStep
<1>3. I => /\ Irq!TypeOK /\ Trap!TypeOK /\ Configuration!TypeOK
           /\ Platform!TypeOK /\ Cache!TypeOK
  BY IrqTyped, TrapTyped, ClicTyped, ScanTyped, CacheTyped
<1> HIDE DEF I
<1> QED BY <1>1, <1>2, <1>3, PTL DEF HalSpec

LEMMA SystemTyped ==
  HalSpec => [](/\ Time!TypeOK /\ Start!TypeOK /\ Profile!TypeOK /\ Logging!TypeOK
                /\ Channel!TypeOK)
<1> DEFINE C == ClockInv /\ ClockTypes
           S == StartInv /\ starts <= MaxStarts
           P == GraphInv /\ ProfileTypes
           I == C /\ S /\ P /\ LogInv /\ ChannelInv
<1>1. HalInit => I
  BY ClockInit, ClockTypesInit, StartInit, StartsInit, GraphInit, ProfileTypesInit, LogInit,
    ChannelInit DEF HalInit
<1>2. I /\ [HalNext]_halVars => I'
  <2> SUFFICES ASSUME I, [HalNext]_halVars PROVE I' OBVIOUS
  <2>1. [Time!Next]_times BY DEF HalNext, halVars, Only
  <2>2. [Start!Next]_start BY DEF HalNext, halVars, Only
  <2>3. [Profile!Next]_profile BY DEF HalNext, halVars, Only
  <2>4. [Logging!Next]_log BY DEF HalNext, halVars, Only
  <2>5. [Channel!Next]_channels BY DEF HalNext, halVars, Only
  <2>6. C' BY <2>1, ClockStep, ClockTypesStep
  <2>7. S' BY <2>2, BootStep, StartsStep
  <2>8. P' BY <2>3, GraphStep, ProfileTypesStep
  <2> QED BY <2>4, <2>5, <2>6, <2>7, <2>8, LogStep, ChannelStep
<1>3. I => /\ Time!TypeOK /\ Start!TypeOK /\ Profile!TypeOK /\ Logging!TypeOK
           /\ Channel!TypeOK
  BY ClockTyped, StartTyped, ProfileTyped, LogTyped, ChannelTyped DEF GraphInv
<1> HIDE DEF I
<1> QED BY <1>1, <1>2, <1>3, PTL DEF HalSpec

Services == {"files", "interrupts", "traps", "clic", "platform", "times", "start", "profile", "log",
             "channels", "caches"}
LEMMA OneServes == HalSpec => [](serving \in Services)
<1>1. HalInit => serving \in Services BY Zenon DEF HalInit, Services
<1>2. serving \in Services /\ [HalNext]_halVars => (serving \in Services)'
  <2>1. [HalNext]_halVars => serving' = serving BY DEF HalNext, halVars, Only
  <2> QED BY <2>1
<1> QED BY <1>1, <1>2, PTL DEF HalSpec

\* Every service of the HAL keeps its types, in the builds without a CLIC and in the one with a
\* CLIC whose handlers may be interrupted: indices and pointers stay inside of what they index,
\* buffers inside of their sizes, counters below their bounds.
THEOREM TypesHold ==
  ASSUME "clic" \notin Builds
  PROVE  HalSpec => []HalTypeOK
<1>1. /\ TypeOK /\ serving \in Services
      /\ Irq!TypeOK /\ Trap!TypeOK /\ Configuration!TypeOK /\ Platform!TypeOK /\ Cache!TypeOK
      /\ Time!TypeOK /\ Start!TypeOK /\ Profile!TypeOK /\ Logging!TypeOK /\ Channel!TypeOK
      => HalTypeOK
  BY DEF HalTypeOK, Services
<1> QED BY <1>1, FilesTyped, ProcessorTyped, SystemTyped, OneServes, PTL
=============================================================================
