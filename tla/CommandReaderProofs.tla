-------------------------- MODULE CommandReaderProofs --------------------------
(***************************************************************************)
(* What clients send is executed as it was meant: proofs for               *)
(* CommandReader.  parse_text_command takes back what quoting did, for     *)
(* commands of any length and with any number of arguments, and on_read    *)
(* finds exactly one line in its buffer when a client waits for the reply  *)
(* and its lines arrive whole.                                             *)
(***************************************************************************)
EXTENDS CommandReader, SequenceTheorems, WellFoundedInduction, TLAPS

-----------------------------------------------------------------------------
(* Induction, for a set of numbers: it is the least one outside that would *)
(* contradict the step.                                                    *)
LEMMA SetInduction ==
  ASSUME NEW S, 0 \in S, \A n \in Nat : n \in S => n + 1 \in S
  PROVE  \A n \in Nat : n \in S
<1> SUFFICES ASSUME NEW n \in Nat, n \notin S PROVE FALSE
  OBVIOUS
<1> DEFINE T == Nat \ S
           R == OpToRel(<, Nat)
<1>1. T \subseteq Nat /\ T # {}
  OBVIOUS
<1>2. IsWellFoundedOn(R, Nat)
  BY NatLessThanWellFounded
<1>3. \A x, y \in Nat : x < y => <<x, y>> \in R
  BY DEF OpToRel
<1> HIDE DEF R, T
<1>4. PICK x \in T : \A y \in T : ~(<<y, x>> \in R)
  BY <1>1, <1>2, WFMin
<1>5. x \in Nat /\ x # 0 /\ x \notin S
  BY <1>4 DEF T
<1>6. x - 1 \in Nat /\ x - 1 < x /\ (x - 1) + 1 = x
  BY <1>5
<1>7. x - 1 \notin T
  BY <1>3, <1>4, <1>5, <1>6
<1> QED BY <1>5, <1>6, <1>7 DEF T

-----------------------------------------------------------------------------
(* Runs of the parser                                                      *)

(* g is the states the parser goes through from p to q when it reads x.    *)
Run(g, p, x, q) ==
    /\ g[0] = p
    /\ \A n \in 1..Len(x) : g[n] = ParseChar(g[n - 1], x[n])
    /\ g[Len(x)] = q

Parses(p, x, q) == \E g : Run(g, p, x, q)

LEMMA ParseNothing == \A p : Parses(p, <<>>, p)
<1> TAKE p
<1>1. Run([n \in {0} |-> p], p, <<>>, p)
  BY DEF Run
<1> QED BY <1>1 DEF Parses

LEMMA ParseOne ==
  ASSUME NEW p, NEW c
  PROVE  Parses(p, <<c>>, ParseChar(p, c))
<1> DEFINE g == [n \in {0, 1} |-> IF n = 0 THEN p ELSE ParseChar(p, c)]
<1>1. Len(<<c>>) = 1 /\ <<c>>[1] = c
  OBVIOUS
<1>2. g[0] = p /\ g[1] = ParseChar(p, c)
  OBVIOUS
<1> HIDE DEF g
<1>3. Run(g, p, <<c>>, ParseChar(p, c))
  BY <1>1, <1>2 DEF Run
<1> QED BY <1>3 DEF Parses

LEMMA ParseConcat ==
  ASSUME NEW S, NEW x \in Seq(S), NEW y \in Seq(S), NEW p, NEW q, NEW r,
         Parses(p, x, q), Parses(q, y, r)
  PROVE  Parses(p, x \o y, r)
<1>1. PICK g : Run(g, p, x, q)
  BY DEF Parses
<1>2. PICK h : Run(h, q, y, r)
  BY DEF Parses
<1> DEFINE z == x \o y
           k == [n \in 0..Len(z) |-> IF n <= Len(x) THEN g[n] ELSE h[n - Len(x)]]
<1>3. /\ Len(x) \in Nat /\ Len(y) \in Nat /\ Len(z) = Len(x) + Len(y)
      /\ \A n \in 1..Len(z) : z[n] = IF n <= Len(x) THEN x[n] ELSE y[n - Len(x)]
  BY ConcatProperties
<1> HIDE DEF z
<1>4. \A n \in 0..Len(z) : k[n] = IF n <= Len(x) THEN g[n] ELSE h[n - Len(x)]
  OBVIOUS
<1> HIDE DEF k
<1>5. k[0] = p
  BY <1>1, <1>3, <1>4 DEF Run
<1>6. ASSUME NEW n \in 1..Len(z)
      PROVE  k[n] = ParseChar(k[n - 1], z[n])
  <2>1. CASE n <= Len(x)
    <3>1. n \in 1..Len(x) /\ n \in 0..Len(z) /\ n - 1 \in 0..Len(z) /\ n - 1 <= Len(x)
      BY <1>3, <2>1
    <3>2. k[n] = g[n] /\ k[n - 1] = g[n - 1] /\ z[n] = x[n]
      BY <1>3, <1>4, <2>1, <3>1
    <3> QED BY <1>1, <3>1, <3>2 DEF Run
  <2>2. CASE n > Len(x)
    <3> DEFINE m == n - Len(x)
    <3>1. m \in 1..Len(y) /\ n \in 0..Len(z) /\ n - 1 \in 0..Len(z) /\ ~(n <= Len(x))
      BY <1>3, <2>2
    <3>2. k[n] = h[m] /\ z[n] = y[m]
      BY <1>3, <1>4, <3>1
    <3>3. k[n - 1] = h[m - 1]
      <4>1. CASE m = 1
        <5>1. n - 1 = Len(x) /\ m - 1 = 0
          BY <1>3, <3>1, <4>1
        <5> QED BY <1>1, <1>2, <1>4, <3>1, <5>1 DEF Run
      <4>2. CASE m # 1
        <5>1. ~(n - 1 <= Len(x)) /\ (n - 1) - Len(x) = m - 1
          BY <1>3, <3>1, <4>2
        <5> QED BY <1>4, <3>1, <5>1
      <4> QED BY <4>1, <4>2
    <3> HIDE DEF m
    <3> QED BY <1>2, <3>1, <3>2, <3>3 DEF Run
  <2> QED BY <1>3, <2>1, <2>2
<1>7. k[Len(z)] = r
  <2>1. CASE Len(y) = 0
    BY <1>1, <1>2, <1>3, <1>4, <2>1 DEF Run
  <2>2. CASE Len(y) # 0
    <3>1. ~(Len(z) <= Len(x)) /\ Len(z) - Len(x) = Len(y) /\ Len(z) \in 0..Len(z)
      BY <1>3, <2>2
    <3> QED BY <1>2, <1>4, <3>1 DEF Run
  <2> QED BY <2>1, <2>2
<1>8. Run(k, p, z, r)
  BY <1>5, <1>6, <1>7 DEF Run
<1> QED BY <1>8 DEF Parses, z

(* The recursive function of parse_text_command.                           *)
IsAfter(f, input) ==
    f = [n \in 0..Len(input) |-> IF n = 0 THEN {Start}
                                 ELSE {ParseChar(p, input[n]) : p \in f[n - 1]}]

After(input) == CHOOSE f : IsAfter(f, input)

Result(p) == [command |-> p.command, args |-> p.args]

LEMMA ParserIs ==
  ASSUME NEW input
  PROVE  parse_text_command(input) =
            Result(EndOfInput(CHOOSE p \in After(input)[Len(input)] : TRUE))
BY DEF parse_text_command, After, IsAfter, Result

LEMMA RunIsResult ==
  ASSUME NEW input \in Seq(Char), NEW q, Parses(Start, input, q)
  PROVE  parse_text_command(input) = Result(EndOfInput(q))
<1> DEFINE L == Len(input)
           f == After(input)
<1>1. PICK g : Run(g, Start, input, q)
  BY DEF Parses
<1>2. L \in Nat
  OBVIOUS
<1> HIDE DEF L
<1>3. IsAfter(f, input)
  <2> DEFINE h == [n \in 0..L |-> {g[n]}]
  <2>1. \A n \in 0..L : h[n] = IF n = 0 THEN {Start}
                               ELSE {ParseChar(p, input[n]) : p \in h[n - 1]}
    <3> SUFFICES ASSUME NEW n \in 0..L
                 PROVE  h[n] = IF n = 0 THEN {Start}
                               ELSE {ParseChar(p, input[n]) : p \in h[n - 1]}
      OBVIOUS
    <3>1. CASE n = 0
      BY <1>1, <3>1 DEF Run
    <3>2. CASE n # 0
      <4>1. n \in 1..L /\ n - 1 \in 0..L
        BY <1>2, <3>2
      <4>2. g[n] = ParseChar(g[n - 1], input[n])
        BY <1>1, <4>1 DEF Run, L
      <4> QED BY <3>2, <4>1, <4>2
    <3> QED BY <3>1, <3>2
  <2>2. h = [n \in 0..L |-> IF n = 0 THEN {Start}
                            ELSE {ParseChar(p, input[n]) : p \in h[n - 1]}]
    BY <2>1
  <2> HIDE DEF h
  <2>3. IsAfter(h, input)
    BY <2>2 DEF IsAfter, L
  <2> QED BY <2>3 DEF After
<1> HIDE DEF f
<1> DEFINE S == {n \in Nat : n <= L => f[n] = {g[n]}}
<1>4. 0 \in S
  BY <1>1, <1>2, <1>3 DEF IsAfter, Run, L
<1>5. ASSUME NEW n \in Nat, n \in S
      PROVE  n + 1 \in S
  <2> SUFFICES ASSUME n + 1 <= L PROVE f[n + 1] = {g[n + 1]}
    OBVIOUS
  <2>1. n + 1 \in 1..L /\ n + 1 \in 0..L /\ (n + 1) - 1 = n /\ n <= L /\ n + 1 # 0
    BY <1>2
  <2>2. f[n] = {g[n]}
    BY <1>5, <2>1
  <2>3. f[n + 1] = {ParseChar(p, input[n + 1]) : p \in f[n]}
    BY <1>3, <2>1 DEF IsAfter, L
  <2>4. g[n + 1] = ParseChar(g[n], input[n + 1])
    BY <1>1, <2>1 DEF Run, L
  <2> QED BY <2>2, <2>3, <2>4
<1> HIDE DEF S
<1>6. L \in S
  BY <1>2, <1>4, <1>5, SetInduction
<1>7. f[L] = {q}
  BY <1>1, <1>2, <1>6 DEF S, Run, L
<1>8. (CHOOSE p \in {q} : TRUE) = q
  OBVIOUS
<1> QED BY <1>7, <1>8, ParserIs DEF f, L

-----------------------------------------------------------------------------
(* The states of the parser                                                *)

State == [at : {"lead", "cmd", "gap", "arg", "full"}, command : Seq(Char),
          args : Seq(Seq(Char)), arg : Seq(Char), in_quotes : BOOLEAN,
          escaped : BOOLEAN]

(* There is room for the argument that is read.                            *)
Bounded(p) ==
    /\ p \in State
    /\ Len(p.args) <= MAX_ARGS
    /\ p.at = "arg" => Len(p.args) < MAX_ARGS

LEMMA StartBounded == Bounded(Start)
BY ReaderAssumption DEF Bounded, State, Start

LEMMA EndArgIs ==
  ASSUME NEW p \in State, Len(p.args) < MAX_ARGS
  PROVE  /\ Bounded(EndArg(p))
         /\ EndArg(p).command = p.command /\ EndArg(p).args = Append(p.args, p.arg)
<1>1. /\ p.args \in Seq(Seq(Char)) /\ p.arg \in Seq(Char)
  BY DEF State
<1>2. /\ Append(p.args, p.arg) \in Seq(Seq(Char))
      /\ Len(Append(p.args, p.arg)) = Len(p.args) + 1
      /\ Len(p.args) \in Nat
  BY <1>1, AppendProperties
<1>3. <<>> \in Seq(Char)
  OBVIOUS
<1>4. /\ EndArg(p) \in State /\ EndArg(p).at = "gap"
      /\ EndArg(p).args = Append(p.args, p.arg) /\ EndArg(p).command = p.command
  BY <1>2, <1>3 DEF EndArg, State
<1> HIDE DEF EndArg
<1> QED BY <1>2, <1>4, ReaderAssumption DEF Bounded

LEMMA InArgBounded ==
  ASSUME NEW p \in State, Len(p.args) < MAX_ARGS, NEW c \in Char
  PROVE  Bounded(InArg(p, c))
<1>1. Len(p.args) \in Nat /\ Len(p.args) <= MAX_ARGS
  BY ReaderAssumption DEF State
<1>2. Append(p.arg, c) \in Seq(Char)
  BY AppendProperties DEF State
<1>3. Bounded(EndArg(p))
  BY EndArgIs
<1>4. Bounded([p EXCEPT !.arg = Append(@, c), !.escaped = FALSE])
  BY <1>1, <1>2 DEF Bounded, State
<1>5. Bounded([p EXCEPT !.at = "arg", !.in_quotes = ~@])
  BY <1>1 DEF Bounded, State
<1>6. Bounded([p EXCEPT !.at = "arg", !.escaped = TRUE])
  BY <1>1 DEF Bounded, State
<1>7. Bounded([p EXCEPT !.at = "arg", !.arg = Append(@, c)])
  BY <1>1, <1>2 DEF Bounded, State
<1> HIDE DEF Bounded, EndArg
<1> QED BY <1>3, <1>4, <1>5, <1>6, <1>7 DEF InArg

LEMMA ParseCharBounded ==
  ASSUME NEW p, Bounded(p), NEW c \in Char
  PROVE  Bounded(ParseChar(p, c))
<1>1. p \in State /\ Len(p.args) \in Nat /\ Len(p.args) <= MAX_ARGS /\ MAX_ARGS \in Nat
  BY ReaderAssumption DEF Bounded, State
<1>2. ASSUME Len(p.args) # MAX_ARGS
      PROVE  Bounded(InArg(p, c))
  BY <1>1, <1>2, InArgBounded
<1>3. p.at = "arg" => Len(p.args) # MAX_ARGS
  BY <1>1 DEF Bounded
<1>4. Bounded([p EXCEPT !.at = "gap"])
  BY <1>1 DEF Bounded, State
<1>5. Bounded([p EXCEPT !.at = "full"])
  BY <1>1 DEF Bounded, State
<1>6. Bounded([p EXCEPT !.at = "cmd", !.command = Append(@, toupper(c))])
  <2>1. toupper(c) \in Char
    BY DEF toupper, Char
  <2>2. Append(p.command, toupper(c)) \in Seq(Char)
    BY <1>1, <2>1, AppendProperties DEF State
  <2> QED BY <1>1, <2>2 DEF Bounded, State
<1>7. p.at \in {"lead", "cmd", "gap", "arg", "full"}
  BY <1>1 DEF State
<1> HIDE DEF Bounded, InArg
<1> QED BY <1>2, <1>3, <1>4, <1>5, <1>6, <1>7 DEF ParseChar

(* Whatever the input is, the parser comes to the end of it.               *)
LEMMA ParserRuns ==
  ASSUME NEW input \in Seq(Char)
  PROVE  \E q : Bounded(q) /\ Parses(Start, input, q)
<1> DEFINE L == Len(input)
           Upto(n) == SubSeq(input, 1, n)
           S == {n \in Nat : n <= L =>
                    \E q : Bounded(q) /\ Parses(Start, Upto(n), q)}
<1>1. L \in Nat
  OBVIOUS
<1>2. 0 \in S
  <2>1. Upto(0) = <<>>
    OBVIOUS
  <2> QED BY <2>1, ParseNothing, StartBounded
<1>3. ASSUME NEW n \in Nat, n \in S
      PROVE  n + 1 \in S
  <2> SUFFICES ASSUME n + 1 <= L
               PROVE  \E q : Bounded(q) /\ Parses(Start, Upto(n + 1), q)
    OBVIOUS
  <2>1. n + 1 \in 1..L /\ n <= L
    BY <1>1
  <2>2. PICK q : Bounded(q) /\ Parses(Start, Upto(n), q)
    BY <1>3, <2>1
  <2> DEFINE c == input[n + 1]
  <2>3. c \in Char /\ Upto(n) \in Seq(Char) /\ <<c>> \in Seq(Char)
    BY <2>1
  <2>4. Upto(n + 1) = Upto(n) \o <<c>>
    <3>1. Len(Upto(n + 1)) = n + 1 /\ Len(Upto(n)) = n
      BY <1>1, <2>1
    <3>2. Upto(n + 1) \in Seq(Char) /\ Upto(n) \o <<c>> \in Seq(Char)
      BY <2>1, <2>3
    <3>3. Len(Upto(n) \o <<c>>) = n + 1
      BY <2>3, <3>1
    <3>4. \A i \in 1..(n + 1) : Upto(n + 1)[i] = (Upto(n) \o <<c>>)[i]
      BY <1>1, <2>1, <2>3, <3>1
    <3> HIDE DEF Upto, c
    <3> QED BY <3>1, <3>2, <3>3, <3>4, SeqEqual
  <2>5. Bounded(ParseChar(q, c)) /\ Parses(q, <<c>>, ParseChar(q, c))
    BY <2>2, <2>3, ParseCharBounded, ParseOne
  <2> HIDE DEF Upto, c
  <2> QED BY <2>2, <2>3, <2>4, <2>5, ParseConcat
<1> HIDE DEF S
<1>4. L \in S
  BY <1>1, <1>2, <1>3, SetInduction
<1>5. Upto(L) = input
  BY SubSeqProperties, SeqEqual
<1> HIDE DEF Upto, L
<1>6. \E q : Bounded(q) /\ Parses(Start, Upto(L), q)
  BY <1>1, <1>4 DEF S
<1> QED BY <1>5, <1>6

LEMMA ParserTyped ==
  ASSUME NEW input \in Seq(Char)
  PROVE  /\ parse_text_command(input) \in Parsed
         /\ Len(parse_text_command(input).args) <= MAX_ARGS
<1>1. PICK p : Bounded(p) /\ Parses(Start, input, p)
  BY ParserRuns
<1> DEFINE q == IF p.escaped THEN [p EXCEPT !.arg = Append(@, Escape)] ELSE p
<1>2. p \in State /\ Len(p.args) <= MAX_ARGS /\ (p.at = "arg" => Len(p.args) < MAX_ARGS)
  BY <1>1 DEF Bounded
<1>3. q \in State /\ q.args = p.args /\ q.command = p.command
  <2>1. Append(p.arg, Escape) \in Seq(Char)
    BY <1>2, AppendProperties DEF State, Char
  <2> QED BY <1>2, <2>1 DEF State
<1>4. EndOfInput(p) = IF p.at = "arg" THEN EndArg(q) ELSE q
  BY DEF EndOfInput
<1> HIDE DEF q
<1>5. EndOfInput(p) \in State /\ Len(EndOfInput(p).args) <= MAX_ARGS
  BY <1>2, <1>3, <1>4, EndArgIs DEF Bounded
<1>6. Result(EndOfInput(p)) \in Parsed
      /\ Len(Result(EndOfInput(p)).args) <= MAX_ARGS
  BY <1>5 DEF Result, Parsed, State
<1> QED BY <1>1, <1>6, RunIsResult

-----------------------------------------------------------------------------
(* What FlattenSeq puts together                                           *)

(* f holds what the first n sequences of s are in one.                     *)
Flat(f, s, n) ==
    /\ DOMAIN f = 1..n
    /\ f[1] = s[1]
    /\ \A i \in 2..n : f[i] = f[i - 1] \o s[i]

IsFlatten(f, s) == f = [i \in 1..Len(s) |-> IF i = 1 THEN s[i] ELSE f[i - 1] \o s[i]]

Flatten(s) == CHOOSE f : IsFlatten(f, s)

LEMMA FlattenDef ==
  ASSUME NEW s, Len(s) # 0
  PROVE  FlattenSeq(s) = Flatten(s)[Len(s)]
BY DEF FlattenSeq, Flatten, IsFlatten

LEMMA FlatExists ==
  ASSUME NEW s \in Seq(Seq(Char)), Len(s) # 0
  PROVE  \E f : Flat(f, s, Len(s))
<1> DEFINE L == Len(s)
           S == {n \in Nat : n + 1 <= L => \E f : Flat(f, s, n + 1)}
<1>1. L \in Nat /\ L >= 1
  OBVIOUS
<1>2. 0 \in S
  <2>1. Flat([i \in 1..1 |-> s[1]], s, 1)
    BY DEF Flat
  <2> QED BY <2>1
<1>3. ASSUME NEW n \in Nat, n \in S
      PROVE  n + 1 \in S
  <2> SUFFICES ASSUME (n + 1) + 1 <= L
               PROVE  \E f : Flat(f, s, (n + 1) + 1)
    OBVIOUS
  <2>1. PICK f : Flat(f, s, n + 1)
    BY <1>1, <1>3
  <2> DEFINE m == n + 1
             g == [i \in 1..(m + 1) |-> IF i <= m THEN f[i] ELSE f[m] \o s[m + 1]]
  <2>2. m \in Nat /\ m >= 1
    OBVIOUS
  <2>3. DOMAIN g = 1..(m + 1)
        /\ \A i \in 1..(m + 1) : g[i] = IF i <= m THEN f[i] ELSE f[m] \o s[m + 1]
    OBVIOUS
  <2> HIDE DEF m, g
  <2>4. g[1] = s[1]
    <3>1. 1 \in 1..(m + 1) /\ 1 <= m
      BY <2>2
    <3>2. g[1] = f[1]
      BY <2>3, <3>1
    <3> QED BY <2>1, <3>2 DEF Flat
  <2>5. ASSUME NEW i \in 2..(m + 1)
        PROVE  g[i] = g[i - 1] \o s[i]
    <3>1. i \in 1..(m + 1) /\ i - 1 \in 1..(m + 1) /\ i - 1 <= m /\ (i <= m \/ i = m + 1)
      BY <2>2
    <3>2. CASE i <= m
      <4>1. i \in 2..(n + 1)
        BY <2>2, <3>2 DEF m
      <4> QED BY <2>1, <2>3, <3>1, <3>2, <4>1 DEF Flat
    <3>3. CASE i = m + 1
      <4>1. ~(i <= m) /\ i - 1 = m
        BY <2>2, <3>3
      <4> QED BY <2>3, <3>1, <3>3, <4>1
    <3> QED BY <3>1, <3>2, <3>3
  <2>6. Flat(g, s, m + 1)
    BY <2>3, <2>4, <2>5 DEF Flat
  <2> QED BY <2>6 DEF m
<1> HIDE DEF S
<1>4. L - 1 \in Nat /\ (L - 1) + 1 = L
  BY <1>1
<1>5. L - 1 \in S
  BY <1>2, <1>3, <1>4, SetInduction
<1>6. \E f : Flat(f, s, (L - 1) + 1)
  BY <1>1, <1>4, <1>5 DEF S
<1> QED BY <1>4, <1>6

LEMMA FlattenIs ==
  ASSUME NEW s \in Seq(Seq(Char)), Len(s) # 0
  PROVE  /\ Flat(Flatten(s), s, Len(s))
         /\ \A i \in 1..Len(s) : Flatten(s)[i] \in Seq(Char)
         /\ FlattenSeq(s) = Flatten(s)[Len(s)]
<1> DEFINE L == Len(s)
           f == Flatten(s)
<1>1. L \in Nat /\ L >= 1
  OBVIOUS
<1>2. IsFlatten(f, s)
  <2>1. PICK g : Flat(g, s, L)
    BY FlatExists
  <2>2. ASSUME NEW i \in 1..L
        PROVE  g[i] = IF i = 1 THEN s[i] ELSE g[i - 1] \o s[i]
    <3>1. i = 1 \/ i \in 2..L
      BY <1>1
    <3> QED BY <2>1, <3>1 DEF Flat
  <2> DEFINE h == [i \in 1..L |-> g[i]]
  <2>3. ASSUME NEW i \in 1..L
        PROVE  h[i] = IF i = 1 THEN s[i] ELSE h[i - 1] \o s[i]
    <3>1. CASE i = 1
      BY <2>2, <3>1
    <3>2. CASE i # 1
      <4>1. i - 1 \in 1..L
        BY <1>1, <3>2
      <4> QED BY <2>2, <3>2, <4>1
    <3> QED BY <3>1, <3>2
  <2>4. h = [i \in 1..L |-> IF i = 1 THEN s[i] ELSE h[i - 1] \o s[i]]
    BY <2>3
  <2> HIDE DEF h
  <2>5. IsFlatten(h, s)
    BY <2>4 DEF IsFlatten
  <2> QED BY <2>5 DEF Flatten
<1> HIDE DEF f
<1>3. /\ DOMAIN f = 1..L
      /\ \A i \in 1..L : f[i] = IF i = 1 THEN s[i] ELSE f[i - 1] \o s[i]
  BY <1>2 DEF IsFlatten
<1>4. Flat(f, s, L)
  <2>1. f[1] = s[1]
    <3>1. 1 \in 1..L
      BY <1>1
    <3> QED BY <1>3, <3>1
  <2>2. \A i \in 2..L : i \in 1..L /\ i # 1
    BY <1>1
  <2> QED BY <1>3, <2>1, <2>2 DEF Flat
<1> DEFINE S == {n \in Nat : n + 1 <= L => f[n + 1] \in Seq(Char)}
<1>5. 0 \in S
  BY <1>1, <1>4 DEF Flat
<1>6. ASSUME NEW n \in Nat, n \in S
      PROVE  n + 1 \in S
  <2> SUFFICES ASSUME (n + 1) + 1 <= L
               PROVE  f[(n + 1) + 1] \in Seq(Char)
    OBVIOUS
  <2>1. (n + 1) + 1 \in 2..L /\ ((n + 1) + 1) - 1 = n + 1 /\ n + 1 <= L /\ (n + 1) + 1 \in 1..L
    BY <1>1
  <2>2. f[n + 1] \in Seq(Char) /\ s[(n + 1) + 1] \in Seq(Char)
    BY <1>6, <2>1
  <2>3. f[(n + 1) + 1] = f[n + 1] \o s[(n + 1) + 1]
    BY <1>4, <2>1 DEF Flat
  <2> QED BY <2>2, <2>3, ConcatProperties
<1> HIDE DEF S
<1>7. ASSUME NEW i \in 1..L
      PROVE  f[i] \in Seq(Char)
  <2>1. i - 1 \in Nat /\ (i - 1) + 1 = i /\ i <= L
    BY <1>1
  <2>2. i - 1 \in S
    BY <1>5, <1>6, <2>1, SetInduction
  <2>3. (i - 1) + 1 <= L => f[(i - 1) + 1] \in Seq(Char)
    BY <2>2 DEF S
  <2> QED BY <2>1, <2>3
<1> QED BY <1>4, <1>7, FlattenDef DEF f

LEMMA FlattenTyped ==
  ASSUME NEW s \in Seq(Seq(Char))
  PROVE  FlattenSeq(s) \in Seq(Char)
<1>1. CASE Len(s) = 0
  <2>1. FlattenSeq(s) = s /\ s = <<>>
    BY <1>1 DEF FlattenSeq
  <2> QED BY <2>1
<1>2. CASE Len(s) # 0
  <2>1. Len(s) \in 1..Len(s)
    BY <1>2
  <2> QED BY <1>2, <2>1, FlattenIs
<1> QED BY <1>1, <1>2

(* The parser reads one sequence after the other.                          *)
LEMMA ParseFlatten ==
  ASSUME NEW s \in Seq(Seq(Char)), NEW P,
         \A i \in 1..Len(s) : Parses(P[i - 1], s[i], P[i])
  PROVE  Parses(P[0], FlattenSeq(s), P[Len(s)])
<1>1. CASE Len(s) = 0
  <2>1. FlattenSeq(s) = s /\ s = <<>>
    BY <1>1 DEF FlattenSeq
  <2> QED BY <1>1, <2>1, ParseNothing
<1>2. CASE Len(s) # 0
  <2> DEFINE L == Len(s)
             f == Flatten(s)
             S == {n \in Nat : n + 1 <= L => Parses(P[0], f[n + 1], P[n + 1])}
  <2>1. L \in Nat /\ L >= 1
    BY <1>2
  <2>2. Flat(f, s, L) /\ (\A i \in 1..L : f[i] \in Seq(Char)) /\ FlattenSeq(s) = f[L]
    BY <1>2, FlattenIs
  <2> HIDE DEF f
  <2>3. 0 \in S
    <3>1. 1 \in 1..L /\ f[1] = s[1]
      BY <2>1, <2>2 DEF Flat
    <3>2. Parses(P[1 - 1], s[1], P[1])
      BY <3>1
    <3> QED BY <3>1, <3>2
  <2>4. ASSUME NEW n \in Nat, n \in S
        PROVE  n + 1 \in S
    <3> DEFINE m == n + 1
    <3> SUFFICES ASSUME m + 1 <= L
                 PROVE  Parses(P[0], f[m + 1], P[m + 1])
      OBVIOUS
    <3>1. m \in 1..L /\ m + 1 \in 2..L /\ m + 1 \in 1..L /\ (m + 1) - 1 = m /\ m <= L
      BY <2>1
    <3>2. Parses(P[0], f[m], P[m])
      BY <2>4, <3>1
    <3> HIDE DEF m
    <3>3. Parses(P[(m + 1) - 1], s[m + 1], P[m + 1])
      BY <3>1
    <3>4. f[m + 1] = f[m] \o s[m + 1] /\ f[m] \in Seq(Char) /\ s[m + 1] \in Seq(Char)
      <4>1. f[m + 1] = f[(m + 1) - 1] \o s[m + 1]
        BY <2>2, <3>1 DEF Flat
      <4>2. f[m] \in Seq(Char)
        BY <2>2, <3>1
      <4>3. s[m + 1] \in Seq(Char)
        BY <3>1
      <4> QED BY <3>1, <4>1, <4>2, <4>3
    <3>5. Parses(P[m], s[m + 1], P[m + 1])
      BY <3>1, <3>3
    <3>6. Parses(P[0], f[m] \o s[m + 1], P[m + 1])
      BY <3>2, <3>4, <3>5, ParseConcat
    <3> QED BY <3>4, <3>6
  <2> HIDE DEF S
  <2>5. L - 1 \in Nat /\ (L - 1) + 1 = L /\ (L - 1) + 1 <= L
    BY <2>1
  <2>6. L - 1 \in S
    BY <2>3, <2>4, <2>5, SetInduction
  <2>7. Parses(P[0], f[(L - 1) + 1], P[(L - 1) + 1])
    BY <2>5, <2>6 DEF S
  <2> QED BY <2>2, <2>5, <2>7
<1> QED BY <1>1, <1>2

-----------------------------------------------------------------------------
(* The parser reads what clients send                                      *)

At == {"lead", "cmd", "gap", "arg", "full"}

(* The state of the parser between two characters, none of them escaped.   *)
St(a, cmd, args, arg, q) ==
    [at |-> a, command |-> cmd, args |-> args, arg |-> arg, in_quotes |-> q,
     escaped |-> FALSE]

LEMMA StateIs ==
  ASSUME NEW p \in State, p.escaped = FALSE
  PROVE  p = St(p.at, p.command, p.args, p.arg, p.in_quotes)
BY DEF St, State

LEMMA Letters ==
  ASSUME NEW c \in {"a", "A"}
  PROVE  c \in Char /\ c \notin Space /\ c # Quote /\ c # Escape
BY DEF Char, Space, Quote, Escape

LEMMA Signs ==
  /\ Quote \in Char /\ Escape \in Char /\ Quote # Escape
  /\ Quote \notin Space /\ Escape \notin Space
  /\ " " \in Space /\ "\n" \in Space /\ Space \subseteq Char
BY DEF Char, Space, Quote, Escape

(* An argument is read or begins.                                          *)
Open(a, s) == a = "arg" \/ (a = "gap" /\ Len(s) # MAX_ARGS)

(* What one character does                                                 *)
LEMMA StepCommand ==
  ASSUME NEW a \in {"lead", "cmd"}, NEW k \in Seq(Char), NEW c \in Char, c \notin Space
  PROVE  /\ Append(k, toupper(c)) \in Seq(Char)
         /\ ParseChar(St(a, k, <<>>, <<>>, FALSE), c)
               = St("cmd", Append(k, toupper(c)), <<>>, <<>>, FALSE)
<1> DEFINE p == St(a, k, <<>>, <<>>, FALSE)
           e == [p EXCEPT !.at = "cmd", !.command = Append(@, toupper(c))]
<1>1. /\ p \in State /\ p.at = a /\ p.command = k /\ p.args = <<>> /\ p.arg = <<>>
      /\ p.in_quotes = FALSE /\ p.escaped = FALSE
  BY DEF St, State, At
<1>2. Append(k, toupper(c)) \in Seq(Char)
  <2>1. toupper(c) \in Char
    BY DEF toupper, Char
  <2> QED BY <2>1, AppendProperties
<1> HIDE DEF p
<1>3. ParseChar(p, c) = e
  BY <1>1 DEF ParseChar
<1>4. /\ e \in State /\ e.at = "cmd" /\ e.command = Append(k, toupper(c))
      /\ e.args = <<>> /\ e.arg = <<>> /\ e.in_quotes = FALSE /\ e.escaped = FALSE
  BY <1>1, <1>2 DEF State
<1> HIDE DEF e
<1>5. e = St("cmd", Append(k, toupper(c)), <<>>, <<>>, FALSE)
  BY <1>4, StateIs
<1> QED BY <1>2, <1>3, <1>5 DEF p

LEMMA StepCommandEnd ==
  ASSUME NEW k \in Seq(Char), NEW c \in Space
  PROVE  ParseChar(St("cmd", k, <<>>, <<>>, FALSE), c) = St("gap", k, <<>>, <<>>, FALSE)
<1> DEFINE p == St("cmd", k, <<>>, <<>>, FALSE)
           e == [p EXCEPT !.at = "gap"]
<1>1. /\ p \in State /\ p.at = "cmd" /\ p.command = k /\ p.args = <<>> /\ p.arg = <<>>
      /\ p.in_quotes = FALSE /\ p.escaped = FALSE
  BY DEF St, State, At
<1> HIDE DEF p
<1>2. ParseChar(p, c) = e
  BY <1>1 DEF ParseChar
<1>3. /\ e \in State /\ e.at = "gap" /\ e.command = k
      /\ e.args = <<>> /\ e.arg = <<>> /\ e.in_quotes = FALSE /\ e.escaped = FALSE
  BY <1>1 DEF State
<1> HIDE DEF e
<1>4. e = St("gap", k, <<>>, <<>>, FALSE)
  BY <1>3, StateIs
<1> QED BY <1>2, <1>4 DEF p

LEMMA StepArgEnd ==
  ASSUME NEW k \in Seq(Char), NEW s \in Seq(Seq(Char)), NEW x \in Seq(Char), NEW c \in Space
  PROVE  ParseChar(St("arg", k, s, x, FALSE), c) = St("gap", k, Append(s, x), <<>>, FALSE)
<1> DEFINE p == St("arg", k, s, x, FALSE)
           e == EndArg(p)
<1>1. /\ p \in State /\ p.at = "arg" /\ p.command = k /\ p.args = s /\ p.arg = x
      /\ p.in_quotes = FALSE /\ p.escaped = FALSE
  BY DEF St, State, At
<1> HIDE DEF p
<1>2. ParseChar(p, c) = InArg(p, c)
  BY <1>1 DEF ParseChar
<1>3. InArg(p, c) = e
  BY <1>1, Signs DEF InArg
<1>4. Append(s, x) \in Seq(Seq(Char))
  BY AppendProperties
<1>5. /\ e \in State /\ e.at = "gap" /\ e.command = k /\ e.args = Append(s, x)
      /\ e.arg = <<>> /\ e.in_quotes = FALSE /\ e.escaped = FALSE
  <2>1. <<>> \in Seq(Char)
    OBVIOUS
  <2> QED BY <1>1, <1>4, <2>1 DEF State, EndArg
<1> HIDE DEF e
<1>6. e = St("gap", k, Append(s, x), <<>>, FALSE)
  BY <1>5, StateIs
<1> QED BY <1>2, <1>3, <1>6 DEF p

LEMMA StepFull ==
  ASSUME NEW k \in Seq(Char), NEW s \in Seq(Seq(Char)), NEW c
  PROVE  ParseChar(St("full", k, s, <<>>, FALSE), c) = St("full", k, s, <<>>, FALSE)
<1> DEFINE p == St("full", k, s, <<>>, FALSE)
<1>1. p.at = "full"
  BY DEF St, State, At
<1> HIDE DEF p
<1>2. ParseChar(p, c) = p
  BY <1>1 DEF ParseChar
<1> QED BY <1>2 DEF p

LEMMA StepTooMany ==
  ASSUME NEW k \in Seq(Char), NEW s \in Seq(Seq(Char)), NEW c, c \notin Space,
         Len(s) = MAX_ARGS
  PROVE  ParseChar(St("gap", k, s, <<>>, FALSE), c) = St("full", k, s, <<>>, FALSE)
<1> DEFINE p == St("gap", k, s, <<>>, FALSE)
           e == [p EXCEPT !.at = "full"]
<1>1. /\ p \in State /\ p.at = "gap" /\ p.command = k /\ p.args = s /\ p.arg = <<>>
      /\ p.in_quotes = FALSE /\ p.escaped = FALSE
  BY DEF St, State, At
<1> HIDE DEF p
<1>2. ParseChar(p, c) = e
  BY <1>1 DEF ParseChar
<1>3. /\ e \in State /\ e.at = "full" /\ e.command = k
      /\ e.args = s /\ e.arg = <<>> /\ e.in_quotes = FALSE /\ e.escaped = FALSE
  BY <1>1 DEF State
<1> HIDE DEF e
<1>4. e = St("full", k, s, <<>>, FALSE)
  BY <1>3, StateIs
<1> QED BY <1>2, <1>4 DEF p

LEMMA StepInArg ==
  ASSUME NEW p, Open(p.at, p.args), NEW c, p.at = "gap" => c \notin Space
  PROVE  ParseChar(p, c) = InArg(p, c)
BY DEF ParseChar, Open

(* A character that stands for itself.                                     *)
LEMMA StepPlain ==
  ASSUME NEW a \in At, NEW k \in Seq(Char), NEW s \in Seq(Seq(Char)), NEW x \in Seq(Char),
         NEW c \in {"a", "A"}, Open(a, s)
  PROVE  ParseChar(St(a, k, s, x, FALSE), c) = St("arg", k, s, Append(x, c), FALSE)
<1> DEFINE p == St(a, k, s, x, FALSE)
           e == [p EXCEPT !.at = "arg", !.arg = Append(@, c)]
<1>1. /\ p \in State /\ p.at = a /\ p.command = k /\ p.args = s /\ p.arg = x
      /\ p.in_quotes = FALSE /\ p.escaped = FALSE
  BY DEF St, State, At
<1>2. c \in Char /\ c \notin Space /\ c # Quote /\ c # Escape
  BY Letters
<1> HIDE DEF p
<1>3. ParseChar(p, c) = InArg(p, c)
  BY <1>1, <1>2, StepInArg
<1>4. InArg(p, c) = e
  BY <1>1, <1>2 DEF InArg
<1>5. Append(x, c) \in Seq(Char)
  BY <1>2, AppendProperties
<1>6. /\ e \in State /\ e.at = "arg" /\ e.command = k /\ e.args = s
      /\ e.arg = Append(x, c) /\ e.in_quotes = FALSE /\ e.escaped = FALSE
  BY <1>1, <1>5 DEF State
<1> HIDE DEF e
<1>7. e = St("arg", k, s, Append(x, c), FALSE)
  BY <1>6, StateIs
<1> QED BY <1>3, <1>4, <1>7 DEF p

LEMMA StepQuoted ==
  ASSUME NEW k \in Seq(Char), NEW s \in Seq(Seq(Char)), NEW x \in Seq(Char),
         NEW c \in Char \ {Quote, Escape}
  PROVE  ParseChar(St("arg", k, s, x, TRUE), c) = St("arg", k, s, Append(x, c), TRUE)
<1> DEFINE p == St("arg", k, s, x, TRUE)
           e == [p EXCEPT !.at = "arg", !.arg = Append(@, c)]
<1>1. /\ p \in State /\ p.at = "arg" /\ p.command = k /\ p.args = s /\ p.arg = x
      /\ p.in_quotes = TRUE /\ p.escaped = FALSE
  BY DEF St, State, At
<1> HIDE DEF p
<1>2. ParseChar(p, c) = InArg(p, c)
  BY <1>1, StepInArg DEF Open
<1>3. InArg(p, c) = e
  BY <1>1 DEF InArg
<1>4. Append(x, c) \in Seq(Char)
  BY AppendProperties
<1>5. /\ e \in State /\ e.at = "arg" /\ e.command = k /\ e.args = s
      /\ e.arg = Append(x, c) /\ e.in_quotes = TRUE /\ e.escaped = FALSE
  BY <1>1, <1>4 DEF State
<1> HIDE DEF e
<1>6. e = St("arg", k, s, Append(x, c), TRUE)
  BY <1>5, StateIs
<1> QED BY <1>2, <1>3, <1>6 DEF p

LEMMA StepQuote ==
  ASSUME NEW a \in At, NEW k \in Seq(Char), NEW s \in Seq(Seq(Char)), NEW x \in Seq(Char),
         NEW q \in BOOLEAN, Open(a, s), NEW r \in BOOLEAN, r = ~q
  PROVE  ParseChar(St(a, k, s, x, q), Quote) = St("arg", k, s, x, r)
<1> DEFINE p == St(a, k, s, x, q)
           e == [p EXCEPT !.at = "arg", !.in_quotes = ~@]
<1>1. /\ p \in State /\ p.at = a /\ p.command = k /\ p.args = s /\ p.arg = x
      /\ p.in_quotes = q /\ p.escaped = FALSE
  BY DEF St, State, At
<1> HIDE DEF p
<1>2. ParseChar(p, Quote) = InArg(p, Quote)
  BY <1>1, StepInArg, Signs
<1>3. InArg(p, Quote) = e
  BY <1>1, Signs DEF InArg
<1>4. /\ e \in State /\ e.at = "arg" /\ e.command = k /\ e.args = s
      /\ e.arg = x /\ e.in_quotes = r /\ e.escaped = FALSE
  BY <1>1 DEF State
<1> HIDE DEF e
<1>5. e = St("arg", k, s, x, r)
  BY <1>4, StateIs
<1> QED BY <1>2, <1>3, <1>5 DEF p

LEMMA StepOpens ==
  ASSUME NEW k \in Seq(Char), NEW s \in Seq(Seq(Char)), Len(s) # MAX_ARGS
  PROVE  ParseChar(St("gap", k, s, <<>>, FALSE), Quote) = St("arg", k, s, <<>>, TRUE)
<1>1. "gap" \in At /\ Open("gap", s) /\ <<>> \in Seq(Char)
  BY DEF At, Open
<1> QED BY <1>1, StepQuote, Zenon

LEMMA StepCloses ==
  ASSUME NEW k \in Seq(Char), NEW s \in Seq(Seq(Char)), NEW x \in Seq(Char)
  PROVE  ParseChar(St("arg", k, s, x, TRUE), Quote) = St("arg", k, s, x, FALSE)
<1>1. "arg" \in At /\ Open("arg", s)
  BY DEF At, Open
<1> QED BY <1>1, StepQuote, Zenon

LEMMA StepEscaped ==
  ASSUME NEW k \in Seq(Char), NEW s \in Seq(Seq(Char)), NEW x \in Seq(Char), NEW c \in Char
  PROVE  ParseChar(ParseChar(St("arg", k, s, x, TRUE), Escape), c)
            = St("arg", k, s, Append(x, c), TRUE)
<1> DEFINE p == St("arg", k, s, x, TRUE)
           o == [p EXCEPT !.at = "arg", !.escaped = TRUE]
           e == [o EXCEPT !.arg = Append(@, c), !.escaped = FALSE]
<1>1. /\ p \in State /\ p.at = "arg" /\ p.command = k /\ p.args = s /\ p.arg = x
      /\ p.in_quotes = TRUE /\ p.escaped = FALSE
  BY DEF St, State, At
<1> HIDE DEF p
<1>2. ParseChar(p, Escape) = o
  <2>1. ParseChar(p, Escape) = InArg(p, Escape)
    BY <1>1, StepInArg DEF Open
  <2> QED BY <1>1, <2>1, Signs DEF InArg
<1>3. /\ o \in State /\ o.at = "arg" /\ o.command = k /\ o.args = s /\ o.arg = x
      /\ o.in_quotes = TRUE /\ o.escaped = TRUE
  BY <1>1 DEF State
<1> HIDE DEF o
<1>4. ParseChar(o, c) = e
  <2>1. ParseChar(o, c) = InArg(o, c)
    BY <1>3, StepInArg DEF Open
  <2> QED BY <1>3, <2>1 DEF InArg
<1>5. Append(x, c) \in Seq(Char)
  BY AppendProperties
<1>6. /\ e \in State /\ e.at = "arg" /\ e.command = k /\ e.args = s
      /\ e.arg = Append(x, c) /\ e.in_quotes = TRUE /\ e.escaped = FALSE
  BY <1>3, <1>5 DEF State
<1> HIDE DEF e
<1>7. e = St("arg", k, s, Append(x, c), TRUE)
  BY <1>6, StateIs
<1> QED BY <1>2, <1>4, <1>7 DEF p

-----------------------------------------------------------------------------
(* The parser reads a line                                                 *)

LEMMA PrefixNext ==
  ASSUME NEW S, NEW x \in Seq(S), NEW n \in 1..Len(x)
  PROVE  /\ SubSeq(x, 1, n - 1) \in Seq(S) /\ Len(SubSeq(x, 1, n - 1)) = n - 1
         /\ SubSeq(x, 1, n) \in Seq(S) /\ Len(SubSeq(x, 1, n)) = n
         /\ SubSeq(x, 1, n) = Append(SubSeq(x, 1, n - 1), x[n])
<1> DEFINE y == SubSeq(x, 1, n)
           z == SubSeq(x, 1, n - 1)
<1>1. Len(x) \in Nat /\ n \in Nat /\ n - 1 \in Nat /\ x[n] \in S
  OBVIOUS
<1>2. y \in Seq(S) /\ Len(y) = n /\ \A i \in 1..n : y[i] = x[i]
  BY <1>1
<1>3. z \in Seq(S) /\ Len(z) = n - 1 /\ \A i \in 1..(n - 1) : z[i] = x[i]
  BY <1>1
<1> HIDE DEF y, z
<1>4. /\ Append(z, x[n]) \in Seq(S) /\ Len(Append(z, x[n])) = n
      /\ Append(z, x[n])[n] = x[n]
      /\ \A i \in 1..(n - 1) : Append(z, x[n])[i] = z[i]
  <2>1. Len(z) + 1 = n
    BY <1>1, <1>3
  <2> QED BY <1>1, <1>3, <2>1, AppendProperties
<1>5. ASSUME NEW i \in 1..n
      PROVE  y[i] = Append(z, x[n])[i]
  <2>1. i = n \/ i \in 1..(n - 1)
    BY <1>1
  <2> QED BY <1>2, <1>3, <1>4, <2>1
<1>6. y = Append(z, x[n])
  BY <1>2, <1>4, <1>5, SeqEqual
<1> QED BY <1>2, <1>3, <1>6 DEF y, z

LEMMA PrefixEnds ==
  ASSUME NEW S, NEW x \in Seq(S)
  PROVE  SubSeq(x, 1, 0) = <<>> /\ SubSeq(x, 1, Len(x)) = x
<1>1. SubSeq(x, 1, Len(x)) = x
  BY SubSeqProperties, SeqEqual
<1> QED BY <1>1

Up(cmd) == [i \in DOMAIN cmd |-> toupper(cmd[i])]

LEMMA ReadCommand ==
  ASSUME NEW x \in Seq(Char), x # <<>>, \A i \in DOMAIN x : x[i] \notin Space
  PROVE  Up(x) \in Seq(Char) /\ Parses(Start, x, St("cmd", Up(x), <<>>, <<>>, FALSE))
<1> DEFINE u == Up(x)
           L == Len(x)
           a(n) == IF n = 0 THEN "lead" ELSE "cmd"
           g == [n \in 0..L |-> St(a(n), SubSeq(u, 1, n), <<>>, <<>>, FALSE)]
<1>1. L \in Nat /\ L >= 1 /\ DOMAIN x = 1..L
  OBVIOUS
<1>2. u \in Seq(Char) /\ Len(u) = L /\ \A i \in 1..L : u[i] = toupper(x[i])
  <2>1. \A c \in Char : toupper(c) \in Char
    BY DEF toupper, Char
  <2> QED BY <1>1, <2>1 DEF Up
<1> HIDE DEF u
<1>3. \A n \in 0..L : g[n] = St(a(n), SubSeq(u, 1, n), <<>>, <<>>, FALSE)
  OBVIOUS
<1> HIDE DEF g
<1>4. g[0] = Start
  <2>1. 0 \in 0..L /\ a(0) = "lead" /\ SubSeq(u, 1, 0) = <<>>
    BY <1>1, <1>2, PrefixEnds
  <2>2. g[0] = St(a(0), SubSeq(u, 1, 0), <<>>, <<>>, FALSE)
    BY <1>3, <2>1
  <2> QED BY <2>1, <2>2 DEF St, Start
<1>5. ASSUME NEW n \in 1..L
      PROVE  g[n] = ParseChar(g[n - 1], x[n])
  <2>1. n \in 0..L /\ n - 1 \in 0..L /\ n # 0 /\ n \in 1..Len(u)
    BY <1>1, <1>2
  <2>2. SubSeq(u, 1, n - 1) \in Seq(Char)
        /\ SubSeq(u, 1, n) = Append(SubSeq(u, 1, n - 1), toupper(x[n]))
    BY <1>2, <2>1, PrefixNext
  <2>3. x[n] \in Char /\ x[n] \notin Space /\ a(n - 1) \in {"lead", "cmd"}
    BY <1>1
  <2> HIDE DEF a
  <2>4. ParseChar(St(a(n - 1), SubSeq(u, 1, n - 1), <<>>, <<>>, FALSE), x[n])
           = St("cmd", SubSeq(u, 1, n), <<>>, <<>>, FALSE)
    <3> DEFINE k == SubSeq(u, 1, n - 1)
               b == a(n - 1)
    <3>1. k \in Seq(Char) /\ b \in {"lead", "cmd"}
      BY <2>2, <2>3
    <3> HIDE DEF k, b
    <3>2. ParseChar(St(b, k, <<>>, <<>>, FALSE), x[n])
             = St("cmd", Append(k, toupper(x[n])), <<>>, <<>>, FALSE)
      BY <2>3, <3>1, StepCommand, Zenon
    <3> QED BY <2>2, <3>2, Zenon DEF k, b
  <2>5. a(n) = "cmd"
    BY <2>1 DEF a
  <2> QED BY <1>3, <2>1, <2>4, <2>5
<1>6. g[L] = St("cmd", u, <<>>, <<>>, FALSE)
  <2>1. L \in 0..L /\ a(L) = "cmd"
    BY <1>1
  <2>2. SubSeq(u, 1, L) = u
    BY <1>2, PrefixEnds
  <2> HIDE DEF a
  <2> QED BY <1>3, <2>1, <2>2
<1>7. Run(g, Start, x, St("cmd", u, <<>>, <<>>, FALSE))
  BY <1>4, <1>5, <1>6 DEF Run
<1> QED BY <1>2, <1>7 DEF Parses, u

LEMMA ReadPlain ==
  ASSUME NEW k \in Seq(Char), NEW s \in Seq(Seq(Char)), Len(s) # MAX_ARGS,
         NEW x \in Seq(Char), Plain(x)
  PROVE  Parses(St("gap", k, s, <<>>, FALSE), x, St("arg", k, s, x, FALSE))
<1> DEFINE L == Len(x)
           a(n) == IF n = 0 THEN "gap" ELSE "arg"
           g == [n \in 0..L |-> St(a(n), k, s, SubSeq(x, 1, n), FALSE)]
<1>1. L \in Nat /\ L >= 1 /\ DOMAIN x = 1..L
  BY DEF Plain
<1>2. \A n \in 0..L : g[n] = St(a(n), k, s, SubSeq(x, 1, n), FALSE)
  OBVIOUS
<1> HIDE DEF g
<1>3. g[0] = St("gap", k, s, <<>>, FALSE)
  <2>1. 0 \in 0..L /\ a(0) = "gap"
    BY <1>1
  <2>2. SubSeq(x, 1, 0) = <<>>
    BY PrefixEnds
  <2> HIDE DEF a
  <2> QED BY <1>2, <2>1, <2>2
<1>4. ASSUME NEW n \in 1..L
      PROVE  g[n] = ParseChar(g[n - 1], x[n])
  <2>1. n \in 0..L /\ n - 1 \in 0..L /\ n # 0
    BY <1>1
  <2>2. SubSeq(x, 1, n - 1) \in Seq(Char)
        /\ SubSeq(x, 1, n) = Append(SubSeq(x, 1, n - 1), x[n])
    BY PrefixNext
  <2>3. x[n] \in {"a", "A"}
    BY <1>1 DEF Plain
  <2>4. a(n - 1) \in At /\ Open(a(n - 1), s)
    BY DEF At, Open
  <2> HIDE DEF a
  <2>5. ParseChar(St(a(n - 1), k, s, SubSeq(x, 1, n - 1), FALSE), x[n])
           = St("arg", k, s, SubSeq(x, 1, n), FALSE)
    <3> DEFINE b == a(n - 1)
               y == SubSeq(x, 1, n - 1)
               c == x[n]
    <3>1. b \in At /\ y \in Seq(Char) /\ c \in {"a", "A"} /\ Open(b, s)
      BY <2>2, <2>3, <2>4
    <3> HIDE DEF b, y, c
    <3>2. ParseChar(St(b, k, s, y, FALSE), c) = St("arg", k, s, Append(y, c), FALSE)
      BY <3>1, StepPlain, Zenon
    <3> QED BY <2>2, <3>2 DEF b, y, c
  <2>6. a(n) = "arg"
    BY <2>1 DEF a
  <2> QED BY <1>2, <2>1, <2>5, <2>6
<1>5. g[L] = St("arg", k, s, x, FALSE)
  <2>1. L \in 0..L /\ a(L) = "arg"
    BY <1>1
  <2>2. SubSeq(x, 1, L) = x
    BY PrefixEnds
  <2> HIDE DEF a
  <2> QED BY <1>2, <2>1, <2>2
<1>6. Run(g, St("gap", k, s, <<>>, FALSE), x, St("arg", k, s, x, FALSE))
  BY <1>3, <1>4, <1>5 DEF Run
<1> QED BY <1>6 DEF Parses

LEMMA OneChar ==
  ASSUME NEW c \in Char
  PROVE  <<c>> \in Seq(Char)
OBVIOUS

LEMMA TwoChars ==
  ASSUME NEW c \in Char, NEW d \in Char
  PROVE  <<c, d>> \in Seq(Char) /\ <<c>> \o <<d>> = <<c, d>>
<1> DEFINE y == <<c>> \o <<d>>
           z == <<c, d>>
<1>1. z \in Seq(Char) /\ Len(z) = 2 /\ z[1] = c /\ z[2] = d
  OBVIOUS
<1>2. <<c>> \in Seq(Char) /\ <<d>> \in Seq(Char)
  BY OneChar
<1>3. y \in Seq(Char) /\ Len(y) = 2 /\ y[1] = c /\ y[2] = d
  <2>1. Len(<<c>>) = 1 /\ Len(<<d>>) = 1 /\ <<c>>[1] = c /\ <<d>>[1] = d
    OBVIOUS
  <2> QED BY <1>2, <2>1, ConcatProperties
<1> HIDE DEF y, z
<1>4. \A i \in 1..Len(y) : y[i] = z[i]
  <2>1. \A i \in 1..2 : i = 1 \/ i = 2
    OBVIOUS
  <2> QED BY <1>1, <1>3, <2>1
<1>5. y = z
  BY <1>1, <1>3, <1>4, SeqEqual
<1> QED BY <1>1, <1>5 DEF y, z

(* The characters of an argument as they stand in quotes.                  *)
Shown(c) == IF c \in {Quote, Escape} THEN <<Escape, c>> ELSE <<c>>

Inner(x) == [i \in DOMAIN x |-> Shown(x[i])]

LEMMA QuotedIs ==
  ASSUME NEW x
  PROVE  Quoted(x) = (<<Quote>> \o FlattenSeq(Inner(x))) \o <<Quote>>
BY DEF Quoted, Inner, Shown

LEMMA ShownIs ==
  ASSUME NEW c \in Char
  PROVE  Shown(c) \in Seq(Char)
<1>1. <<c>> \in Seq(Char)
  BY OneChar
<1>2. <<Escape, c>> \in Seq(Char)
  BY TwoChars, Signs
<1> QED BY <1>1, <1>2 DEF Shown

LEMMA InnerIs ==
  ASSUME NEW x \in Seq(Char)
  PROVE  /\ Inner(x) \in Seq(Seq(Char)) /\ Len(Inner(x)) = Len(x)
         /\ \A i \in 1..Len(x) : Inner(x)[i] = Shown(x[i])
<1>1. \A i \in 1..Len(x) : Shown(x[i]) \in Seq(Char)
  BY ShownIs
<1>2. DOMAIN x = 1..Len(x) /\ Len(x) \in Nat
  OBVIOUS
<1> HIDE DEF Shown
<1> QED BY <1>1, <1>2 DEF Inner

LEMMA ReadShown ==
  ASSUME NEW k \in Seq(Char), NEW s \in Seq(Seq(Char)), NEW x \in Seq(Char), NEW c \in Char
  PROVE  Parses(St("arg", k, s, x, TRUE), Shown(c), St("arg", k, s, Append(x, c), TRUE))
<1> DEFINE p == St("arg", k, s, x, TRUE)
           q == St("arg", k, s, Append(x, c), TRUE)
<1>1. CASE c \in {Quote, Escape}
  <2>1. ParseChar(ParseChar(p, Escape), c) = q
    BY StepEscaped
  <2> HIDE DEF p, q
  <2>2. Parses(p, <<Escape>>, ParseChar(p, Escape))
        /\ Parses(ParseChar(p, Escape), <<c>>, q)
    BY <2>1, ParseOne
  <2>3. <<Escape>> \in Seq(Char) /\ <<c>> \in Seq(Char) /\ <<Escape>> \o <<c>> = <<Escape, c>>
    BY Signs, OneChar, TwoChars
  <2>4. Parses(p, <<Escape>> \o <<c>>, q)
    BY <2>2, <2>3, ParseConcat
  <2> QED BY <1>1, <2>3, <2>4 DEF p, q, Shown
<1>2. CASE c \notin {Quote, Escape}
  <2>1. ParseChar(p, c) = q
    BY <1>2, StepQuoted, Zenon
  <2> HIDE DEF p, q
  <2>2. Parses(p, <<c>>, q)
    BY <2>1, ParseOne
  <2> QED BY <1>2, <2>2 DEF p, q, Shown
<1> QED BY <1>1, <1>2

LEMMA ReadQuoted ==
  ASSUME NEW k \in Seq(Char), NEW s \in Seq(Seq(Char)), Len(s) # MAX_ARGS,
         NEW x \in Seq(Char)
  PROVE  Parses(St("gap", k, s, <<>>, FALSE), Quoted(x), St("arg", k, s, x, FALSE))
<1> DEFINE L == Len(x)
           P == [i \in 0..L |-> St("arg", k, s, SubSeq(x, 1, i), TRUE)]
           f == Inner(x)
<1>1. L \in Nat
  OBVIOUS
<1>2. f \in Seq(Seq(Char)) /\ Len(f) = L /\ \A i \in 1..L : f[i] = Shown(x[i])
  BY InnerIs
<1>3. \A i \in 0..L : P[i] = St("arg", k, s, SubSeq(x, 1, i), TRUE)
  OBVIOUS
<1> HIDE DEF P, f
<1>4. P[0] = St("arg", k, s, <<>>, TRUE) /\ P[L] = St("arg", k, s, x, TRUE)
  <2>1. SubSeq(x, 1, 0) = <<>> /\ SubSeq(x, 1, L) = x
    BY PrefixEnds
  <2>2. 0 \in 0..L /\ L \in 0..L
    BY <1>1
  <2> QED BY <1>3, <2>1, <2>2
<1>5. ASSUME NEW i \in 1..L
      PROVE  Parses(P[i - 1], f[i], P[i])
  <2> DEFINE y == SubSeq(x, 1, i - 1)
             c == x[i]
  <2>1. i \in 0..L /\ i - 1 \in 0..L
    BY <1>1
  <2>2. y \in Seq(Char) /\ SubSeq(x, 1, i) = Append(y, c) /\ c \in Char
    BY PrefixNext
  <2>3. P[i - 1] = St("arg", k, s, y, TRUE) /\ P[i] = St("arg", k, s, Append(y, c), TRUE)
    BY <1>3, <2>1, <2>2
  <2>4. f[i] = Shown(c)
    BY <1>2
  <2> HIDE DEF y, c
  <2>5. Parses(St("arg", k, s, y, TRUE), Shown(c), St("arg", k, s, Append(y, c), TRUE))
    BY <2>2, ReadShown
  <2> QED BY <2>3, <2>4, <2>5
<1>6. Parses(P[0], FlattenSeq(f), P[L]) /\ FlattenSeq(f) \in Seq(Char)
  BY <1>2, <1>5, ParseFlatten, FlattenTyped
<1> DEFINE p == St("gap", k, s, <<>>, FALSE)
           r == St("arg", k, s, x, FALSE)
<1>7. ParseChar(p, Quote) = P[0]
  BY <1>4, StepOpens
<1>8. ParseChar(P[L], Quote) = r
  BY <1>4, StepCloses
<1> HIDE DEF p, r
<1>9. Parses(p, <<Quote>>, P[0]) /\ Parses(P[L], <<Quote>>, r) /\ <<Quote>> \in Seq(Char)
  <2>1. <<Quote>> \in Seq(Char)
    BY OneChar, Signs
  <2> QED BY <1>7, <1>8, <2>1, ParseOne
<1> DEFINE z == FlattenSeq(f)
<1>10. z \in Seq(Char) /\ Parses(P[0], z, P[L])
  BY <1>6
<1>11. Quoted(x) = (<<Quote>> \o z) \o <<Quote>>
  BY QuotedIs DEF f
<1> HIDE DEF z
<1>12. Parses(p, <<Quote>> \o z, P[L])
  BY <1>9, <1>10, ParseConcat
<1>13. <<Quote>> \o z \in Seq(Char)
  BY <1>9, <1>10, ConcatProperties
<1>14. Parses(p, (<<Quote>> \o z) \o <<Quote>>, r)
  BY <1>9, <1>12, <1>13, ParseConcat
<1> QED BY <1>11, <1>14 DEF p, r

(* An argument on the line                                                 *)
Text(x) == IF Plain(x) THEN x ELSE Quoted(x)

LEMMA TextIs ==
  ASSUME NEW x \in Seq(Char)
  PROVE  Text(x) \in Seq(Char) /\ Len(Text(x)) >= 1 /\ Text(x)[1] \notin Space
<1>1. CASE Plain(x)
  <2>1. x \in Seq(Char) /\ Len(x) >= 1 /\ 1 \in DOMAIN x
    BY <1>1 DEF Plain
  <2>2. x[1] \notin Space
    BY <1>1, <2>1, Letters DEF Plain
  <2> QED BY <1>1, <2>1, <2>2 DEF Text
<1>2. CASE ~Plain(x)
  <2> DEFINE z == FlattenSeq(Inner(x))
  <2>1. z \in Seq(Char) /\ <<Quote>> \in Seq(Char)
    <3>1. z \in Seq(Char)
      BY InnerIs, FlattenTyped
    <3>2. <<Quote>> \in Seq(Char)
      BY OneChar, Signs
    <3> QED BY <3>1, <3>2
  <2>2. Quoted(x) = (<<Quote>> \o z) \o <<Quote>>
    BY QuotedIs
  <2> HIDE DEF z
  <2>3. /\ <<Quote>> \o z \in Seq(Char) /\ Len(<<Quote>> \o z) = 1 + Len(z)
        /\ (<<Quote>> \o z)[1] = Quote
    BY <2>1
  <2> DEFINE y == <<Quote>> \o z
  <2>4. Len(y) \in Nat /\ Len(y) >= 1
    BY <2>1, <2>3
  <2> HIDE DEF y
  <2>5. y \o <<Quote>> \in Seq(Char) /\ Len(y \o <<Quote>>) = Len(y) + 1
        /\ (y \o <<Quote>>)[1] = y[1]
    BY <2>1, <2>3, <2>4 DEF y
  <2>6. Text(x) = y \o <<Quote>>
    BY <1>2, <2>2 DEF Text, y
  <2>7. y[1] = Quote
    BY <2>3 DEF y
  <2>8. Len(y) + 1 >= 1
    BY <2>4
  <2> QED BY <2>5, <2>6, <2>7, <2>8, Signs
<1> QED BY <1>1, <1>2

LEMMA ReadArg ==
  ASSUME NEW k \in Seq(Char), NEW s \in Seq(Seq(Char)), Len(s) # MAX_ARGS,
         NEW x \in Seq(Char)
  PROVE  Parses(St("gap", k, s, <<>>, FALSE), Text(x), St("arg", k, s, x, FALSE))
BY ReadPlain, ReadQuoted, Zenon DEF Text

(* More arguments than there may be are passed over.                       *)
LEMMA FullStays ==
  ASSUME NEW k \in Seq(Char), NEW s \in Seq(Seq(Char)), NEW y \in Seq(Char)
  PROVE  Parses(St("full", k, s, <<>>, FALSE), y, St("full", k, s, <<>>, FALSE))
<1> DEFINE p == St("full", k, s, <<>>, FALSE)
           g == [n \in 0..Len(y) |-> p]
<1>1. \A c : ParseChar(p, c) = p
  BY StepFull
<1>2. Len(y) \in Nat
  OBVIOUS
<1> HIDE DEF p
<1>3. \A n \in 0..Len(y) : g[n] = p
  OBVIOUS
<1> HIDE DEF g
<1>4. \A n \in 1..Len(y) : n \in 0..Len(y) /\ n - 1 \in 0..Len(y)
  BY <1>2
<1>5. 0 \in 0..Len(y) /\ Len(y) \in 0..Len(y)
  BY <1>2
<1>6. Run(g, p, y, p)
  BY <1>1, <1>3, <1>4, <1>5 DEF Run
<1> QED BY <1>6 DEF Parses, p

LEMMA SkipArg ==
  ASSUME NEW k \in Seq(Char), NEW s \in Seq(Seq(Char)), Len(s) = MAX_ARGS,
         NEW y \in Seq(Char), Len(y) >= 1, y[1] \notin Space
  PROVE  Parses(St("gap", k, s, <<>>, FALSE), y, St("full", k, s, <<>>, FALSE))
<1> DEFINE p == St("gap", k, s, <<>>, FALSE)
           q == St("full", k, s, <<>>, FALSE)
           g == [n \in 0..Len(y) |-> IF n = 0 THEN p ELSE q]
<1>1. ParseChar(p, y[1]) = q /\ \A c : ParseChar(q, c) = q
  BY StepTooMany, StepFull
<1>2. Len(y) \in Nat
  OBVIOUS
<1> HIDE DEF p, q
<1>3. \A n \in 0..Len(y) : g[n] = IF n = 0 THEN p ELSE q
  OBVIOUS
<1> HIDE DEF g
<1>4. ASSUME NEW n \in 1..Len(y)
      PROVE  g[n] = ParseChar(g[n - 1], y[n])
  <2>1. n \in 0..Len(y) /\ n - 1 \in 0..Len(y) /\ n # 0 /\ (n - 1 = 0 => n = 1)
    BY <1>2
  <2> QED BY <1>1, <1>3, <2>1
<1>5. 0 \in 0..Len(y) /\ Len(y) \in 0..Len(y) /\ Len(y) # 0
  BY <1>2
<1>6. Run(g, p, y, q)
  BY <1>3, <1>4, <1>5 DEF Run
<1> QED BY <1>6 DEF Parses, p, q

(* The state after the command and i of its arguments.                     *)
Read(k, args, i) ==
    CASE i = 0                 -> St("cmd", k, <<>>, <<>>, FALSE)
      [] i \in 1..MAX_ARGS     -> St("arg", k, SubSeq(args, 1, i - 1), args[i], FALSE)
      [] i > MAX_ARGS /\ i # 0 -> St("full", k, SubSeq(args, 1, MAX_ARGS), <<>>, FALSE)

LEMMA ReadIs ==
  ASSUME NEW k, NEW args
  PROVE  /\ Read(k, args, 0) = St("cmd", k, <<>>, <<>>, FALSE)
         /\ \A i \in 1..MAX_ARGS :
               Read(k, args, i) = St("arg", k, SubSeq(args, 1, i - 1), args[i], FALSE)
         /\ \A i \in Nat : i > MAX_ARGS =>
               i = 0 \/ Read(k, args, i) = St("full", k, SubSeq(args, 1, MAX_ARGS), <<>>, FALSE)
<1>1. MAX_ARGS \in Nat
  BY ReaderAssumption
<1> HIDE DEF St
<1>2. Read(k, args, 0) = St("cmd", k, <<>>, <<>>, FALSE)
  BY <1>1 DEF Read
<1>3. ASSUME NEW i \in 1..MAX_ARGS
      PROVE  Read(k, args, i) = St("arg", k, SubSeq(args, 1, i - 1), args[i], FALSE)
  <2>1. i # 0 /\ ~(i > MAX_ARGS)
    BY <1>1
  <2> QED BY <2>1 DEF Read
<1>4. ASSUME NEW i \in Nat, i > MAX_ARGS, i # 0
      PROVE  Read(k, args, i) = St("full", k, SubSeq(args, 1, MAX_ARGS), <<>>, FALSE)
  <2>1. i \notin 1..MAX_ARGS
    BY <1>1, <1>4
  <2> QED BY <1>4, <2>1 DEF Read
<1> QED BY <1>2, <1>3, <1>4

(* A space or the end of the line, after i arguments of no more than there *)
(* may be.                                                                 *)
LEMMA ReadSpace ==
  ASSUME NEW k \in Seq(Char), NEW args \in Seq(Seq(Char)), NEW i \in 0..Len(args),
         i <= MAX_ARGS, NEW c \in Space
  PROVE  /\ ParseChar(Read(k, args, i), c) = St("gap", k, SubSeq(args, 1, i), <<>>, FALSE)
         /\ SubSeq(args, 1, i) \in Seq(Seq(Char)) /\ Len(SubSeq(args, 1, i)) = i
<1>1. MAX_ARGS \in Nat /\ Len(args) \in Nat
  BY ReaderAssumption
<1>2. CASE i = 0
  <2>1. SubSeq(args, 1, 0) = <<>>
    BY PrefixEnds
  <2>2. ParseChar(Read(k, args, 0), c) = St("gap", k, <<>>, <<>>, FALSE)
    BY ReadIs, StepCommandEnd
  <2>3. <<>> \in Seq(Seq(Char)) /\ Len(<<>>) = 0
    OBVIOUS
  <2> QED BY <1>2, <2>1, <2>2, <2>3
<1>3. CASE i # 0
  <2> DEFINE s == SubSeq(args, 1, i - 1)
  <2>1. i \in 1..MAX_ARGS /\ i \in 1..Len(args)
    BY <1>1, <1>3
  <2>2. /\ s \in Seq(Seq(Char)) /\ SubSeq(args, 1, i) = Append(s, args[i])
        /\ SubSeq(args, 1, i) \in Seq(Seq(Char)) /\ Len(SubSeq(args, 1, i)) = i
    BY <2>1, PrefixNext
  <2>3. args[i] \in Seq(Char)
    BY <2>1
  <2>4. Read(k, args, i) = St("arg", k, s, args[i], FALSE)
    BY <2>1, ReadIs
  <2> HIDE DEF s
  <2>5. ParseChar(St("arg", k, s, args[i], FALSE), c)
           = St("gap", k, Append(s, args[i]), <<>>, FALSE)
    BY <2>2, <2>3, StepArgEnd
  <2> QED BY <2>2, <2>4, <2>5
<1> QED BY <1>2, <1>3

(* An argument and the space before it.                                    *)
LEMMA ReadBlock ==
  ASSUME NEW k \in Seq(Char), NEW args \in Seq(Seq(Char)), NEW i \in 1..Len(args)
  PROVE  /\ <<" ">> \o Text(args[i]) \in Seq(Char)
         /\ Parses(Read(k, args, i - 1), <<" ">> \o Text(args[i]), Read(k, args, i))
<1> DEFINE y == Text(args[i])
           o == Read(k, args, i - 1)
           q == Read(k, args, i)
<1>1. MAX_ARGS \in Nat /\ Len(args) \in Nat /\ args[i] \in Seq(Char) /\ i - 1 \in Nat
  BY ReaderAssumption
<1>2. y \in Seq(Char) /\ Len(y) >= 1 /\ y[1] \notin Space
  BY <1>1, TextIs
<1>3. <<" ">> \in Seq(Char)
  BY OneChar, Signs
<1>4. <<" ">> \o y \in Seq(Char)
  BY <1>2, <1>3, ConcatProperties
<1>5. CASE i - 1 <= MAX_ARGS
  <2> DEFINE s == SubSeq(args, 1, i - 1)
             p == St("gap", k, s, <<>>, FALSE)
  <2>1. i - 1 \in 0..Len(args)
    BY <1>1
  <2>2. ParseChar(o, " ") = p /\ s \in Seq(Seq(Char)) /\ Len(s) = i - 1
    BY <1>5, <2>1, ReadSpace, Signs
  <2>3. Parses(p, y, q)
    <3>1. CASE i - 1 # MAX_ARGS
      <4>1. i \in 1..MAX_ARGS
        BY <1>1, <1>5, <3>1
      <4>2. q = St("arg", k, s, args[i], FALSE)
        BY <4>1, ReadIs
      <4> HIDE DEF s, q
      <4>3. Parses(p, y, St("arg", k, s, args[i], FALSE))
        BY <1>1, <2>2, <3>1, ReadArg
      <4> QED BY <4>2, <4>3
    <3>2. CASE i - 1 = MAX_ARGS
      <4>1. i \in Nat /\ i > MAX_ARGS /\ i # 0
        BY <1>1, <3>2
      <4>2. q = St("full", k, s, <<>>, FALSE)
        BY <3>2, <4>1, ReadIs
      <4> HIDE DEF s, y, q
      <4>3. Parses(p, y, St("full", k, s, <<>>, FALSE))
        BY <1>2, <2>2, <3>2, SkipArg
      <4> QED BY <4>2, <4>3
    <3> QED BY <3>1, <3>2
  <2> HIDE DEF o, p, q, y
  <2>4. Parses(o, <<" ">>, p)
    BY <2>2, ParseOne
  <2>5. Parses(o, <<" ">> \o y, q)
    BY <1>2, <1>3, <2>3, <2>4, ParseConcat
  <2> QED BY <1>4, <2>5 DEF o, q, y
<1>6. CASE ~(i - 1 <= MAX_ARGS)
  <2> DEFINE s == SubSeq(args, 1, MAX_ARGS)
  <2>1. i \in Nat /\ i > MAX_ARGS /\ i # 0 /\ i - 1 > MAX_ARGS /\ i - 1 # 0
    BY <1>1, <1>6
  <2>2. o = St("full", k, s, <<>>, FALSE) /\ q = St("full", k, s, <<>>, FALSE)
    BY <1>1, <2>1, ReadIs
  <2>3. s \in Seq(Seq(Char))
    BY <1>1, <2>1
  <2> HIDE DEF s, o, q, y
  <2>4. Parses(o, <<" ">> \o y, q)
    BY <1>4, <2>2, <2>3, FullStays
  <2> QED BY <1>4, <2>4 DEF o, q, y
<1> QED BY <1>5, <1>6

-----------------------------------------------------------------------------
(* A line is read as it was meant                                          *)

(* The arguments of a line, each with the space before it.                 *)
Blocks(args) == [i \in DOMAIN args |-> <<" ">> \o Text(args[i])]

LEMMA LineDef ==
  ASSUME NEW cmd
  PROVE  Line(cmd) = (cmd.command \o FlattenSeq(Blocks(cmd.args))) \o <<"\n">>
BY DEF Line, Blocks, Text

LEMMA BlocksTyped ==
  ASSUME NEW args \in Seq(Seq(Char))
  PROVE  /\ Blocks(args) \in Seq(Seq(Char)) /\ Len(Blocks(args)) = Len(args)
         /\ \A i \in 1..Len(args) : Blocks(args)[i] = <<" ">> \o Text(args[i])
<1>1. <<>> \in Seq(Char)
  OBVIOUS
<1>2. \A i \in 1..Len(args) : <<" ">> \o Text(args[i]) \in Seq(Char)
  BY <1>1, ReadBlock
<1>3. DOMAIN args = 1..Len(args) /\ Len(args) \in Nat
  OBVIOUS
<1> DEFINE T == Seq(Char)
           b(i) == <<" ">> \o Text(args[i])
           B == [i \in 1..Len(args) |-> b(i)]
<1>4. Blocks(args) = B
  BY <1>3 DEF Blocks
<1>5. \A i \in 1..Len(args) : b(i) \in T
  BY <1>2
<1> HIDE DEF T, b
<1>6. B \in Seq(T) /\ Len(B) = Len(args) /\ \A i \in 1..Len(args) : B[i] = b(i)
  BY <1>3, <1>5
<1> QED BY <1>4, <1>6 DEF T, b

LEMMA CommandIs ==
  ASSUME NEW cmd \in Commands
  PROVE  /\ cmd.command \in Seq(Char) /\ cmd.args \in Seq(Seq(Char))
         /\ cmd.command # <<>>
         /\ \A i \in DOMAIN cmd.command : cmd.command[i] \notin Space
<1>1. cmd \in [command : Seq(Char), args : Seq(Seq(Char))]
  BY ReaderAssumption
<1>2. cmd.command \in Seq(Char) /\ cmd.args \in Seq(Seq(Char))
  BY <1>1
<1> QED BY <1>2, ReaderAssumption

LEMMA LineTyped ==
  ASSUME NEW cmd \in Commands
  PROVE  Line(cmd) \in Seq(Char) /\ Line(cmd) # <<>>
<1> DEFINE x == cmd.command
           y == FlattenSeq(Blocks(cmd.args))
<1>1. x \in Seq(Char) /\ y \in Seq(Char)
  BY CommandIs, BlocksTyped, FlattenTyped
<1>2. <<"\n">> \in Seq(Char)
  BY OneChar, Signs
<1>3. Line(cmd) = (x \o y) \o <<"\n">>
  BY LineDef
<1> HIDE DEF x, y
<1>4. x \o y \in Seq(Char)
  BY <1>1, ConcatProperties
<1>5. (x \o y) \o <<"\n">> \in Seq(Char) /\ Len((x \o y) \o <<"\n">>) = Len(x \o y) + 1
  BY <1>2, <1>4, ConcatProperties
<1>6. Len(x \o y) \in Nat
  BY <1>4
<1>7. Len(Line(cmd)) # 0
  BY <1>3, <1>5, <1>6
<1> QED BY <1>3, <1>5, <1>7

LEMMA MeantIs ==
  ASSUME NEW cmd
  PROVE  Meant(cmd) = [command |-> Up(cmd.command),
                       args |-> SubSeq(cmd.args, 1, IF Len(cmd.args) < MAX_ARGS
                                                    THEN Len(cmd.args) ELSE MAX_ARGS)]
BY DEF Meant, Up

LEMMA EndIs ==
  ASSUME NEW a \in {"gap", "full"}, NEW k, NEW s
  PROVE  Result(EndOfInput(St(a, k, s, <<>>, FALSE))) = [command |-> k, args |-> s]
<1> DEFINE p == St(a, k, s, <<>>, FALSE)
<1>1. p.at # "arg" /\ p.escaped = FALSE /\ p.command = k /\ p.args = s
  BY DEF St
<1> HIDE DEF p
<1>2. EndOfInput(p) = p
  BY <1>1 DEF EndOfInput
<1> QED BY <1>1, <1>2 DEF Result, p

(* What the parser makes of a line is the command that was meant: the name *)
(* in capitals, and the first MAX_ARGS arguments, whatever was in them.    *)
THEOREM ParsesBack ==
  ASSUME NEW cmd \in Commands
  PROVE  parse_text_command(Line(cmd)) = Meant(cmd)
<1> DEFINE k == Up(cmd.command)
           args == cmd.args
           L == Len(args)
           B == Blocks(args)
           P == [i \in 0..L |-> Read(k, args, i)]
           m == IF L < MAX_ARGS THEN L ELSE MAX_ARGS
           s == SubSeq(args, 1, m)
           x == cmd.command
           y == FlattenSeq(B)
           a == IF L <= MAX_ARGS THEN "gap" ELSE "full"
           q == St(a, k, s, <<>>, FALSE)
<1>1. MAX_ARGS \in Nat /\ L \in Nat /\ args \in Seq(Seq(Char)) /\ x \in Seq(Char)
  BY ReaderAssumption, CommandIs
<1>2. k \in Seq(Char) /\ Parses(Start, x, St("cmd", k, <<>>, <<>>, FALSE))
  BY CommandIs, ReadCommand
<1>3. Parses(Read(k, args, 0), y, Read(k, args, L))
  <2> HIDE DEF k
  <2>1. /\ B \in Seq(Seq(Char)) /\ Len(B) = L
        /\ \A i \in 1..L : B[i] = <<" ">> \o Text(args[i])
    BY <1>1, BlocksTyped
  <2>2. \A i \in 1..L : Parses(Read(k, args, i - 1), <<" ">> \o Text(args[i]), Read(k, args, i))
    BY <1>1, <1>2, ReadBlock
  <2>3. \A i \in 1..L : i \in 0..L /\ i - 1 \in 0..L
    BY <1>1
  <2>4. \A i \in 0..L : P[i] = Read(k, args, i)
    OBVIOUS
  <2>5. 0 \in 0..L /\ L \in 0..L
    BY <1>1
  <2> HIDE DEF P, B, args, L
  <2>6. \A i \in 1..Len(B) : Parses(P[i - 1], B[i], P[i])
    BY <2>1, <2>2, <2>3, <2>4
  <2>7. Parses(P[0], FlattenSeq(B), P[Len(B)])
    BY <2>1, <2>6, ParseFlatten
  <2> QED BY <2>1, <2>4, <2>5, <2>7
<1>4. ParseChar(Read(k, args, L), "\n") = q
  <2> HIDE DEF k
  <2>1. CASE L <= MAX_ARGS
    <3>1. m = L /\ a = "gap" /\ L \in 0..Len(args)
      BY <1>1, <2>1
    <3>2. ParseChar(Read(k, args, L), "\n") = St("gap", k, SubSeq(args, 1, L), <<>>, FALSE)
      <4>1. "\n" \in Space
        BY Signs
      <4> HIDE DEF L, args
      <4> QED BY <1>1, <1>2, <2>1, <3>1, <4>1, ReadSpace, Zenon
    <3> QED BY <3>1, <3>2
  <2>2. CASE ~(L <= MAX_ARGS)
    <3>1. m = MAX_ARGS /\ a = "full" /\ L > MAX_ARGS /\ L # 0
      BY <1>1, <2>2
    <3>2. Read(k, args, L) = q
      BY <1>1, <3>1, ReadIs
    <3>3. s \in Seq(Seq(Char))
      BY <1>1, <3>1
    <3>4. ParseChar(St("full", k, s, <<>>, FALSE), "\n") = St("full", k, s, <<>>, FALSE)
      BY <1>2, <3>3, StepFull
    <3> QED BY <3>1, <3>2, <3>4
  <2> QED BY <2>1, <2>2
<1>5. Parses(Start, (x \o y) \o <<"\n">>, q)
  <2>1. y \in Seq(Char) /\ <<"\n">> \in Seq(Char)
    BY <1>1, BlocksTyped, FlattenTyped, OneChar, Signs
  <2>2. Read(k, args, 0) = St("cmd", k, <<>>, <<>>, FALSE)
    BY ReadIs
  <2>3. Parses(Read(k, args, L), <<"\n">>, q)
    BY <1>4, ParseOne
  <2> HIDE DEF k, args, L, y, x, q
  <2>4. Parses(Start, x \o y, Read(k, args, L))
    BY <1>1, <1>2, <1>3, <2>1, <2>2, ParseConcat
  <2>5. x \o y \in Seq(Char)
    BY <1>1, <2>1, ConcatProperties
  <2> QED BY <2>1, <2>3, <2>4, <2>5, ParseConcat
<1>6. parse_text_command(Line(cmd)) = Result(EndOfInput(q))
  <2> HIDE DEF q, y, x
  <2>1. Line(cmd) = (x \o y) \o <<"\n">>
    BY LineDef DEF x, y
  <2>2. Parses(Start, Line(cmd), q)
    BY <1>5, <2>1
  <2> QED BY <2>2, LineTyped, RunIsResult
<1>7. a \in {"gap", "full"}
  OBVIOUS
<1>8. Result(EndOfInput(q)) = [command |-> k, args |-> s]
  <2> HIDE DEF a, k, s
  <2> QED BY <1>7, EndIs
<1>9. Meant(cmd) = [command |-> k, args |-> s]
  BY MeantIs
<1> HIDE DEF q, k, s
<1> QED BY <1>6, <1>8, <1>9

-----------------------------------------------------------------------------
(* Every state is of its type                                              *)

LEMMA SegmentsTyped ==
  ASSUME NEW cmd \in Commands, NEW seg \in Segments(Line(cmd))
  PROVE  seg \in Seq(Seq(Char))
<1> DEFINE line == Line(cmd)
<1>1. line \in Seq(Char) /\ Len(line) \in Nat
  BY LineTyped
<1> HIDE DEF line
<1>2. CASE habit = "split"
  <2>1. PICK n \in 1..(Len(line) - 1) :
             seg = <<SubSeq(line, 1, n), SubSeq(line, n + 1, Len(line))>>
    BY <1>2 DEF Segments, line
  <2>2. SubSeq(line, 1, n) \in Seq(Char) /\ SubSeq(line, n + 1, Len(line)) \in Seq(Char)
    BY <1>1, SubSeqProperties
  <2> QED BY <2>1, <2>2
<1>3. CASE habit # "split"
  <2>1. seg = <<line>>
    BY <1>3 DEF Segments, line
  <2> QED BY <1>1, <2>1
<1> QED BY <1>2, <1>3

(* The read callback takes the first n characters of the buffer.           *)
LEMMA TakenTyped ==
  ASSUME NEW x \in Seq(Char), NEW n \in Nat, n <= Len(x)
  PROVE  SubSeq(x, 1, n) \in Seq(Char) /\ SubSeq(x, n + 1, Len(x)) \in Seq(Char)
BY SubSeqProperties

LEMMA AppendParsed ==
  ASSUME NEW e \in Seq(Parsed), \A i \in DOMAIN e : Len(e[i].args) <= MAX_ARGS,
         NEW p \in Parsed, Len(p.args) <= MAX_ARGS
  PROVE  /\ Append(e, p) \in Seq(Parsed)
         /\ \A i \in DOMAIN Append(e, p) : Len(Append(e, p)[i].args) <= MAX_ARGS
<1>1. /\ Append(e, p) \in Seq(Parsed) /\ Len(Append(e, p)) = Len(e) + 1
      /\ \A i \in 1..Len(e) : Append(e, p)[i] = e[i]
      /\ Append(e, p)[Len(e) + 1] = p
  BY AppendProperties
<1>2. DOMAIN Append(e, p) = 1..(Len(e) + 1) /\ DOMAIN e = 1..Len(e) /\ Len(e) \in Nat
  BY <1>1
<1>3. \A i \in 1..(Len(e) + 1) : i \in 1..Len(e) \/ i = Len(e) + 1
  BY <1>2
<1> QED BY <1>1, <1>2, <1>3

LEMMA SendTyped ==
  ASSUME TypeOK, Send
  PROVE  TypeOK'
<1>1. PICK cmd \in Commands : /\ sent' = Append(sent, cmd)
                              /\ \E seg \in Segments(Line(cmd)) : wire' = wire \o seg
  BY DEF Send
<1>2. PICK seg \in Segments(Line(cmd)) : wire' = wire \o seg
  BY <1>1
<1>3. seg \in Seq(Seq(Char))
  BY SegmentsTyped
<1>4. wire' \in Seq(Seq(Char))
  <2> DEFINE T == Seq(Char)
  <2>1. wire \in Seq(T) /\ seg \in Seq(T)
    BY <1>3 DEF TypeOK
  <2> HIDE DEF T
  <2>2. wire \o seg \in Seq(T)
    BY <2>1, ConcatProperties
  <2> QED BY <1>2, <2>2 DEF T
<1>5. sent' \in Seq(Commands) /\ Len(sent') <= MaxLines
  BY <1>1, ReaderAssumption DEF TypeOK, Send
<1> QED BY <1>4, <1>5 DEF TypeOK, Send

LEMMA DeliverTyped ==
  ASSUME TypeOK, Deliver
  PROVE  TypeOK'
<1>1. Head(wire) \in Seq(Char) /\ Tail(wire) \in Seq(Seq(Char))
  <2> DEFINE T == Seq(Char)
  <2>1. wire \in Seq(T) /\ wire # <<>>
    BY DEF TypeOK, Deliver
  <2> HIDE DEF T
  <2>2. Head(wire) \in T /\ Tail(wire) \in Seq(T)
    BY <2>1, HeadTailProperties
  <2> QED BY <2>2 DEF T
<1>2. input_buf \o Head(wire) \in Seq(Char)
  BY <1>1, ConcatProperties DEF TypeOK
<1> QED BY <1>1, <1>2 DEF TypeOK, Deliver

(* How much the read callback takes.                                       *)
Taken == IF Len(input_buf) < MaxInput THEN Len(input_buf) ELSE MaxInput

LEMMA OnReadIs ==
  ASSUME on_read
  PROVE  /\ pending /\ pending' = FALSE
         /\ executed' = Append(executed, parse_text_command(SubSeq(input_buf, 1, Taken)))
         /\ input_buf' = SubSeq(input_buf, Taken + 1, Len(input_buf))
         /\ waiting' = FALSE /\ UNCHANGED <<habit, sent, wire>>
BY DEF on_read, Taken

LEMMA OnReadTyped ==
  ASSUME TypeOK, on_read
  PROVE  TypeOK'
<1>1. Taken \in Nat /\ Taken <= Len(input_buf) /\ input_buf \in Seq(Char)
  BY ReaderAssumption DEF TypeOK, Taken
<1> DEFINE x == SubSeq(input_buf, 1, Taken)
           p == parse_text_command(x)
<1>2. x \in Seq(Char) /\ input_buf' \in Seq(Char)
  BY <1>1, OnReadIs, TakenTyped
<1>3. p \in Parsed /\ Len(p.args) <= MAX_ARGS
  BY <1>2, ParserTyped
<1>4. executed' = Append(executed, p)
  BY OnReadIs
<1> HIDE DEF p
<1>5. executed' \in Seq(Parsed) /\ \A i \in DOMAIN executed' : Len(executed'[i].args) <= MAX_ARGS
  BY <1>3, <1>4, AppendParsed DEF TypeOK
<1> QED BY <1>2, <1>5, OnReadIs DEF TypeOK

LEMMA ReaderInit == Init => TypeOK
<1> SUFFICES ASSUME Init PROVE TypeOK
  OBVIOUS
<1>1. MaxLines \in Nat
  BY ReaderAssumption
<1>2. <<>> \in Seq(Commands) /\ <<>> \in Seq(Seq(Char)) /\ <<>> \in Seq(Char)
      /\ <<>> \in Seq(Parsed) /\ Len(<<>>) = 0 /\ DOMAIN <<>> = {}
  BY EmptySeq
<1>3. Len(sent) <= MaxLines
  BY <1>1 DEF Init
<1> QED BY <1>2, <1>3 DEF Init, TypeOK

LEMMA ReaderStep == TypeOK /\ [Next]_vars => TypeOK'
<1> SUFFICES ASSUME TypeOK, [Next]_vars PROVE TypeOK'
  OBVIOUS
<1>1. CASE Send
  BY <1>1, SendTyped
<1>2. CASE Deliver
  BY <1>2, DeliverTyped
<1>3. CASE on_read
  BY <1>3, OnReadTyped
<1>4. CASE UNCHANGED vars
  BY <1>4 DEF TypeOK, vars
<1> QED BY <1>1, <1>2, <1>3, <1>4 DEF Next

(* Whatever arrives and however it is cut, execute_ftp_command gets a      *)
(* command with no more arguments than its array holds.                    *)
THEOREM ReaderTyped == Spec => []TypeOK
BY ReaderInit, ReaderStep, PTL DEF Spec

-----------------------------------------------------------------------------
(* A client that waits, and lines that arrive whole                        *)

Agrees == \A i \in 1..Len(executed) : executed[i] = Meant(sent[i])

Idle ==
    /\ ~waiting /\ ~pending
    /\ wire = <<>> /\ input_buf = <<>>
    /\ Len(executed) = Len(sent)

(* One line is on the wire or in the buffer, and nothing else is.          *)
UnderWay ==
    /\ waiting
    /\ Len(sent) = Len(executed) + 1
    /\ \/ wire = <<Line(sent[Len(sent)])>> /\ input_buf = <<>> /\ ~pending
       \/ wire = <<>> /\ input_buf = Line(sent[Len(sent)]) /\ pending

Framed == habit = "whole" /\ Fits => Agrees /\ (Idle \/ UnderWay)

LEMMA FramedInit == Init => Framed
BY DEF Init, Framed, Agrees, Idle

LEMMA FramedSend ==
  ASSUME TypeOK, Framed, Send
  PROVE  Framed'
<1> SUFFICES ASSUME habit = "whole", Fits'
             PROVE  Agrees' /\ UnderWay'
  BY DEF Framed, Send
<1>1. PICK cmd \in Commands : /\ sent' = Append(sent, cmd)
                              /\ \E seg \in Segments(Line(cmd)) : wire' = wire \o seg
  BY DEF Send
<1>2. /\ sent \in Seq(Commands) /\ executed \in Seq(Parsed)
      /\ Len(sent) \in Nat /\ Len(executed) \in Nat /\ ~waiting
  BY DEF TypeOK, Send
<1>3. /\ Len(sent') = Len(sent) + 1 /\ sent'[Len(sent) + 1] = cmd
      /\ DOMAIN sent = 1..Len(sent) /\ DOMAIN sent' = 1..(Len(sent) + 1)
      /\ \A i \in 1..Len(sent) : sent'[i] = sent[i]
  BY <1>1, <1>2, AppendProperties
<1>4. Fits
  <2>1. \A i \in 1..Len(sent) : i \in 1..(Len(sent) + 1)
    BY <1>2
  <2> QED BY <1>3, <2>1 DEF Fits
<1>5. Agrees /\ Idle
  BY <1>2, <1>4 DEF Framed, UnderWay
<1>6. wire' = <<Line(cmd)>>
  <2>1. wire' = wire \o <<Line(cmd)>> /\ wire = <<>>
    BY <1>1, <1>5 DEF Segments, Idle
  <2> QED BY <2>1
<1>7. Agrees'
  BY <1>3, <1>5 DEF Agrees, Idle, Send
<1>8. UnderWay'
  BY <1>3, <1>5, <1>6 DEF UnderWay, Idle, Send
<1> QED BY <1>7, <1>8

LEMMA FramedDeliver ==
  ASSUME TypeOK, Framed, Deliver
  PROVE  Framed'
<1> SUFFICES ASSUME habit = "whole", Fits
             PROVE  Agrees' /\ UnderWay'
  BY DEF Framed, Deliver, Fits
<1> DEFINE x == Line(sent[Len(sent)])
<1>1. Agrees /\ UnderWay /\ wire = <<x>> /\ input_buf = <<>>
  BY DEF Framed, Deliver, Idle, UnderWay
<1>2. x \in Seq(Char)
  <2>1. sent[Len(sent)] \in Commands
    BY <1>1 DEF TypeOK, UnderWay
  <2> QED BY <2>1, LineTyped
<1> HIDE DEF x
<1>3. wire' = <<>> /\ input_buf' = x /\ pending'
  BY <1>1, <1>2 DEF Deliver
<1>4. Agrees'
  BY <1>1 DEF Agrees, Deliver
<1>5. UnderWay'
  BY <1>1, <1>3 DEF UnderWay, Deliver, x
<1> QED BY <1>4, <1>5

LEMMA FramedOnRead ==
  ASSUME TypeOK, Framed, on_read
  PROVE  Framed'
<1> SUFFICES ASSUME habit = "whole", Fits
             PROVE  Agrees' /\ Idle'
  BY OnReadIs DEF Framed, Fits
<1> DEFINE cmd == sent[Len(sent)]
           x == Line(cmd)
<1>1. Agrees /\ UnderWay /\ wire = <<>> /\ input_buf = x
  BY OnReadIs DEF Framed, Idle, UnderWay
<1>2. /\ sent \in Seq(Commands) /\ executed \in Seq(Parsed)
      /\ Len(sent) = Len(executed) + 1 /\ Len(executed) \in Nat
  BY <1>1 DEF TypeOK, UnderWay
<1>3. cmd \in Commands /\ Len(sent) \in DOMAIN sent
  BY <1>2
<1>4. x \in Seq(Char) /\ Len(x) <= MaxInput /\ parse_text_command(x) = Meant(cmd)
  BY <1>3, LineTyped, ParsesBack DEF Fits
<1>5. Taken = Len(x)
  BY <1>1, <1>4, ReaderAssumption DEF Taken
<1> HIDE DEF x
<1>6. SubSeq(x, 1, Len(x)) = x /\ SubSeq(x, Len(x) + 1, Len(x)) = <<>>
  BY <1>4
<1>7. executed' = Append(executed, Meant(cmd)) /\ input_buf' = <<>>
  BY <1>1, <1>4, <1>5, <1>6, OnReadIs
<1>8. Meant(cmd) \in Parsed
  <2>1. parse_text_command(x) \in Parsed
    BY <1>4, ParserTyped
  <2> QED BY <1>4, <2>1
<1>9. /\ Len(executed') = Len(executed) + 1 /\ executed'[Len(executed) + 1] = Meant(cmd)
      /\ \A i \in 1..Len(executed) : executed'[i] = executed[i]
  <2> HIDE DEF cmd
  <2> QED BY <1>2, <1>7, <1>8, AppendProperties
<1>10. Agrees'
  <2>1. \A i \in 1..(Len(executed) + 1) : i \in 1..Len(executed) \/ i = Len(executed) + 1
    BY <1>2
  <2>2. sent' = sent /\ cmd = sent[Len(executed) + 1]
    BY <1>2, OnReadIs
  <2> HIDE DEF cmd
  <2> QED BY <1>1, <1>9, <2>1, <2>2 DEF Agrees
<1>11. Idle'
  BY <1>1, <1>2, <1>7, <1>9, OnReadIs DEF Idle
<1> QED BY <1>10, <1>11

LEMMA FramedStep == TypeOK /\ Framed /\ [Next]_vars => Framed'
<1> SUFFICES ASSUME TypeOK, Framed, [Next]_vars PROVE Framed'
  OBVIOUS
<1>1. CASE Send
  BY <1>1, FramedSend
<1>2. CASE Deliver
  BY <1>2, FramedDeliver
<1>3. CASE on_read
  BY <1>3, FramedOnRead
<1>4. CASE UNCHANGED vars
  BY <1>4 DEF Framed, Fits, Agrees, Idle, UnderWay, vars
<1> QED BY <1>1, <1>2, <1>3, <1>4 DEF Next

LEMMA FramedIsExecuted == TypeOK /\ Framed => ExecutedAsSent
<1> SUFFICES ASSUME TypeOK, Agrees, Idle \/ UnderWay
             PROVE  IsPrefix(executed, [i \in DOMAIN sent |-> Meant(sent[i])])
  BY DEF Framed, ExecutedAsSent
<1> DEFINE E == executed
           M == [i \in DOMAIN sent |-> Meant(sent[i])]
<1>1. /\ sent \in Seq(Commands) /\ E \in Seq(Parsed)
      /\ Len(E) \in Nat /\ Len(sent) \in Nat /\ Len(E) <= Len(sent)
  BY DEF TypeOK, Idle, UnderWay
<1>2. DOMAIN sent = 1..Len(sent)
  BY <1>1
<1>3. M = [i \in 1..Len(sent) |-> Meant(sent[i])]
  BY <1>2
<1>4. Len(M) = Len(sent) /\ \A i \in 1..Len(sent) : M[i] = Meant(sent[i])
  <2> HIDE DEF Meant
  <2> QED BY <1>1, <1>3
<1>5. \A i \in 1..Len(E) : E[i] = M[i]
  BY <1>1, <1>4 DEF Agrees
<1> HIDE DEF M, E
<1>6. SubSeq(E, 1, Len(E)) = [i \in 1..Len(E) |-> E[i]]
  BY <1>1
<1>7. SubSeq(M, 1, Len(E)) = [i \in 1..Len(E) |-> M[i]]
  BY <1>1
<1>8. [i \in 1..Len(E) |-> E[i]] = [i \in 1..Len(E) |-> M[i]]
  BY <1>5
<1>9. IsPrefix(E, M)
  BY <1>1, <1>4, <1>6, <1>7, <1>8 DEF IsPrefix
<1> QED BY <1>9 DEF E, M

(* For every set of commands, whatever characters their arguments are made *)
(* of, and every limit: when the client waits for each reply and its lines *)
(* arrive whole and fit the buffer of on_read, the commands are executed   *)
(* as they were meant and in their order.                                  *)
THEOREM LinesExecuted == Spec => []ExecutedAsSent
<1>1. TypeOK /\ Framed /\ [Next]_vars => (TypeOK /\ Framed)'
  BY ReaderStep, FramedStep
<1>2. Init => TypeOK /\ Framed
  BY ReaderInit, FramedInit
<1> QED BY <1>1, <1>2, FramedIsExecuted, PTL DEF Spec

=============================================================================
