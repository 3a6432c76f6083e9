----------------------------- MODULE SerialProofs -----------------------------
(***************************************************************************)
(* Proofs about the two programs that are fed through the polled mini      *)
(* UART: the shell and the bootloader.                                     *)
(*                                                                         *)
(* Every character typed at the shell ends up in exactly one line, in      *)
(* order, for every size of the two buffers and every number of lines,     *)
(* with timers, tasks and the GPU going on meanwhile.  The kernel comes up *)
(* with the device tree of the firmware and with all that an interrupt     *)
(* needs, and one wrong size is final, however the board is switched on    *)
(* and off and whatever the script sends.  An image that is sent to an     *)
(* empty line is entered byte by byte.  The files of the archive are       *)
(* listed and read as they were packed, for every archive.                 *)
(***************************************************************************)
EXTENDS Shell, Loader, SequenceTheorems, WellFoundedInduction, TLAPS

-----------------------------------------------------------------------------
(* What the operators on sequences return.                                 *)

LEMMA SetInduction ==
  ASSUME NEW T, 0 \in T, \A n \in Nat : n \in T => n + 1 \in T
  PROVE  Nat \subseteq T
  <1> DEFINE R == Nat \ T
  <1>1. R # {} => \E n \in R : \A m \in R : ~ (<<m, n>> \in OpToRel(<, Nat))
    BY WFMin, NatLessThanWellFounded
  <1>2. R # {} => \E n \in R : \A m \in R : ~ (m < n)
    BY <1>1 DEF OpToRel
  <1>3. ASSUME NEW n \in R, \A m \in R : ~ (m < n)
        PROVE  FALSE
    <2>1. n # 0
      OBVIOUS
    <2>2. n - 1 \in Nat /\ n - 1 < n /\ (n - 1) + 1 = n
      BY <2>1
    <2> QED
      BY <1>3, <2>2
  <1> QED
    BY <1>2, <1>3

(* f is the concatenation of the first i sequences of s, for every i.      *)
Flattens(f, s, n) ==
  \A i \in 1 .. n : f[i] = IF i = 1 THEN s[i] ELSE f[i - 1] \o s[i]

LEMMA FlattensExists ==
  ASSUME NEW S, NEW s \in Seq(Seq(S))
  PROVE  \A n \in Nat : n <= Len(s) =>
           \E f \in [1 .. n -> Seq(S)] : Flattens(f, s, n)
  <1> DEFINE T == {n \in Nat : n <= Len(s) => \E f \in [1 .. n -> Seq(S)] : Flattens(f, s, n)}
  <1>1. 0 \in T
    <2>1. [i \in 1 .. 0 |-> <<>>] \in [1 .. 0 -> Seq(S)] /\ Flattens([i \in 1 .. 0 |-> <<>>], s, 0)
      BY DEF Flattens
    <2> QED
      BY <2>1
  <1>2. ASSUME NEW n \in Nat, n \in T
        PROVE  n + 1 \in T
    <2> SUFFICES ASSUME n + 1 <= Len(s)
                 PROVE  \E f \in [1 .. n + 1 -> Seq(S)] : Flattens(f, s, n + 1)
      OBVIOUS
    <2>1. Len(s) \in Nat /\ n + 1 \in 1 .. Len(s) /\ s[n + 1] \in Seq(S)
      BY ElementOfSeq, LenProperties
    <2>2. PICK f \in [1 .. n -> Seq(S)] : Flattens(f, s, n)
      BY <1>2, <2>1
    <2> DEFINE e == IF n = 0 THEN s[n + 1] ELSE f[n] \o s[n + 1]
               g == [i \in 1 .. n + 1 |-> IF i = n + 1 THEN e ELSE f[i]]
    <2>3. e \in Seq(S)
      <3>1. CASE n = 0
        BY <2>1, <3>1
      <3>2. CASE n # 0
        <4>1. f[n] \in Seq(S)
          BY <3>2
        <4> QED
          BY <2>1, <3>2, <4>1, ConcatProperties
      <3> QED
        BY <3>1, <3>2
    <2>4. n + 1 = 1 <=> n = 0
      OBVIOUS
    <2>5. g[n + 1] = IF n + 1 = 1 THEN s[n + 1] ELSE f[n] \o s[n + 1]
      BY <2>4
    <2> HIDE DEF e
    <2>6. g \in [1 .. n + 1 -> Seq(S)] /\ \A i \in 1 .. n : g[i] = f[i]
      BY <2>3
    <2>7. g[n + 1] = IF n + 1 = 1 THEN s[n + 1] ELSE g[n] \o s[n + 1]
      BY <2>5, <2>6
    <2> HIDE DEF g
    <2>8. ASSUME NEW i \in 1 .. n + 1
          PROVE  g[i] = IF i = 1 THEN s[i] ELSE g[i - 1] \o s[i]
      <3>1. CASE i = n + 1
        BY <2>7, <3>1
      <3>2. CASE i # n + 1
        <4>1. i \in 1 .. n /\ (i # 1 => i - 1 \in 1 .. n)
          BY <3>2
        <4>2. f[i] = IF i = 1 THEN s[i] ELSE f[i - 1] \o s[i]
          BY <2>2, <4>1 DEF Flattens
        <4> QED
          BY <2>6, <4>1, <4>2
      <3> QED
        BY <3>1, <3>2
    <2> QED
      BY <2>6, <2>8 DEF Flattens
  <1>3. Nat \subseteq T
    BY <1>1, <1>2, SetInduction
  <1> QED
    BY <1>3

LEMMA FlattensUnique ==
  ASSUME NEW s, NEW f, NEW g, NEW n \in Nat, Flattens(f, s, n), Flattens(g, s, n)
  PROVE  \A i \in 1 .. n : f[i] = g[i]
  <1> DEFINE T == {i \in Nat : i \in 1 .. n => f[i] = g[i]}
  <1>1. 0 \in T
    OBVIOUS
  <1>2. ASSUME NEW i \in Nat, i \in T
        PROVE  i + 1 \in T
    <2> SUFFICES ASSUME i + 1 \in 1 .. n
                 PROVE  f[i + 1] = g[i + 1]
      OBVIOUS
    <2>1. (i + 1) - 1 = i /\ (i # 0 => i \in 1 .. n /\ i + 1 # 1) /\ (i = 0 => i + 1 = 1)
      OBVIOUS
    <2>2. /\ f[i + 1] = IF i + 1 = 1 THEN s[i + 1] ELSE f[(i + 1) - 1] \o s[i + 1]
          /\ g[i + 1] = IF i + 1 = 1 THEN s[i + 1] ELSE g[(i + 1) - 1] \o s[i + 1]
      BY DEF Flattens
    <2> QED
      BY <1>2, <2>1, <2>2
  <1>3. Nat \subseteq T
    BY <1>1, <1>2, SetInduction
  <1> QED
    BY <1>3

(* The community modules' FlattenSeq.                                      *)
LEMMA FlattenSeqIs ==
  ASSUME NEW S, NEW s \in Seq(Seq(S)), Len(s) # 0
  PROVE  \E f \in [1 .. Len(s) -> Seq(S)] :
           Flattens(f, s, Len(s)) /\ FlattenSeq(s) = f[Len(s)]
  <1> DEFINE n == Len(s)
             Extended(f) == [i \in 1 .. n |-> IF i = 1 THEN s[i] ELSE f[i - 1] \o s[i]]
             h == CHOOSE f : f = Extended(f)
  <1>1. n \in Nat /\ n <= Len(s)
    BY LenProperties
  <1>3. FlattenSeq(s) = h[n]
    BY DEF FlattenSeq
  <1> HIDE DEF n
  <1>2. PICK g \in [1 .. n -> Seq(S)] : Flattens(g, s, n)
    BY <1>1, FlattensExists
  <1>4. g = Extended(g)
    BY <1>2 DEF Flattens
  <1>5. h = Extended(h)
    BY <1>4
  <1> HIDE DEF h
  <1>6. Flattens(h, s, n) /\ DOMAIN h = 1 .. n /\ h = [i \in 1 .. n |-> h[i]]
    BY <1>5 DEF Flattens
  <1>7. \A i \in 1 .. n : h[i] = g[i]
    BY <1>1, <1>2, <1>6, FlattensUnique
  <1>8. h \in [1 .. n -> Seq(S)]
    BY <1>6, <1>7
  <1> QED
    BY <1>3, <1>6, <1>8 DEF n

LEMMA FlattenOfAppend ==
  ASSUME NEW S, NEW s \in Seq(Seq(S)), NEW e \in Seq(S)
  PROVE  /\ FlattenSeq(s) \in Seq(S)
         /\ FlattenSeq(Append(s, e)) = FlattenSeq(s) \o e
  <1> SUFFICES ASSUME NEW n, n = Len(s), NEW a, a = Append(s, e)
               PROVE  /\ FlattenSeq(s) \in Seq(S)
                      /\ FlattenSeq(a) = FlattenSeq(s) \o e
    OBVIOUS
  <1>1. n \in Nat /\ a \in Seq(Seq(S)) /\ Len(a) = n + 1 /\ Len(a) # 0
        /\ a[n + 1] = e /\ \A i \in 1 .. n : a[i] = s[i]
    BY AppendProperties, LenProperties
  <1>2. PICK g \in [1 .. n + 1 -> Seq(S)] : Flattens(g, a, n + 1) /\ FlattenSeq(a) = g[n + 1]
    <2>1. \E g \in [1 .. Len(a) -> Seq(S)] : Flattens(g, a, Len(a)) /\ FlattenSeq(a) = g[Len(a)]
      BY <1>1, FlattenSeqIs
    <2>2. Len(a) = n + 1
      BY <1>1
    <2> QED
      BY ONLY <2>1, <2>2
  <1>3. g[n + 1] = IF n + 1 = 1 THEN e ELSE g[n] \o e
    <2>1. n + 1 \in 1 .. n + 1 /\ (n + 1) - 1 = n
      BY <1>1
    <2> QED
      BY <1>1, <1>2, <2>1 DEF Flattens
  <1>4. CASE n = 0
    <2>1. FlattenSeq(s) = s /\ s = <<>>
      BY <1>4, EmptySeq DEF FlattenSeq
    <2>2. <<>> \in Seq(S) /\ <<>> \o e = e
      BY EmptySeq, ConcatEmptySeq
    <2> QED
      BY <1>2, <1>3, <1>4, <2>1, <2>2
  <1>5. CASE n # 0
    <2>1. PICK f : f \in [1 .. n -> Seq(S)] /\ Flattens(f, s, n) /\ FlattenSeq(s) = f[n]
      BY <1>5, FlattenSeqIs
    <2>2. Flattens(g, s, n)
      <3>1. \A i \in 1 .. n : i \in 1 .. n + 1 /\ a[i] = s[i]
        BY <1>1
      <3> QED
        BY <1>2, <3>1 DEF Flattens
    <2>3. n \in 1 .. n
      BY <1>1, <1>5
    <2>4. g[n] = f[n]
      <3>1. n \in Nat /\ Flattens(f, s, n)
        BY <1>1, <2>1
      <3>2. \A i \in 1 .. n : f[i] = g[i]
        BY ONLY <3>1, <2>2, FlattensUnique
      <3> QED
        BY <2>3, <3>2
    <2>5. n + 1 # 1
      BY <1>1, <1>5
    <2>6. f[n] \in Seq(S)
      BY <2>1, <2>3
    <2> QED
      BY <1>2, <1>3, <2>1, <2>4, <2>5, <2>6
  <1>6. FlattenSeq(a) = FlattenSeq(s) \o e /\ FlattenSeq(s) \in Seq(S)
    BY <1>4, <1>5
  <1> QED
    BY <1>6

-----------------------------------------------------------------------------
(* What the terminal sends and what the shell makes of it.                 *)

LEMMA CharactersSent ==
  \A l \in Lines : Append(l, Return) \in Seq(Nat)
  <1>1. \A w \in {"info", "reboot", "ls", "cat", "dtb_test", "load_program",
                  "alloc", "_test", "setTimer"} : Word[w] \in Nat
    BY DEF Word
  <1>2. Letter \in Nat /\ Space \in Nat /\ Return \in Nat /\ Char(1) \in Nat
    BY DEF Letter, Space, Return, Char
  <1> HIDE DEF Word
  <1>3. ASSUME NEW l \in Lines
        PROVE  l \in Seq(Nat)
    <2>1. \A w \in {"info", "reboot", "ls", "cat", "dtb_test", "load_program"} :
            <<Word[w]>> \in Seq(Nat)
      BY <1>1
    <2>2. <<Letter>> \in Seq(Nat) /\ <<Letter, Letter>> \in Seq(Nat) /\ <<>> \in Seq(Nat)
      BY <1>2
    <2>3. <<Word["alloc"], Word["_test"]>> \in Seq(Nat)
      BY <1>1
    <2>4. /\ <<Word["setTimer"], Space, Letter, Space, Char(1)>> \in Seq(Nat)
          /\ <<Word["setTimer"], Space, Letter, Space>> \in Seq(Nat)
      BY <1>1, <1>2
    <2>5. <<Word["setTimer"], Letter, Letter, Letter, Letter, Word["reboot"]>> \in Seq(Nat)
      BY <1>1, <1>2
    <2> QED
      BY <2>1, <2>2, <2>3, <2>4, <2>5 DEF Lines
  <1> QED
    BY <1>2, <1>3, AppendProperties

LEMMA AppendIs ==
  ASSUME NEW S, NEW s \in Seq(S), NEW c \in S, NEW m \in Seq(S),
         Len(m) = Len(s) + 1, m[Len(s) + 1] = c, \A i \in 1 .. Len(s) : m[i] = s[i]
  PROVE  m = Append(s, c)
  <1>1. \A i \in 1 .. Len(s) + 1 : m[i] = Append(s, c)[i]
    BY AppendProperties
  <1>2. Len(m) = Len(Append(s, c)) /\ Append(s, c) \in Seq(S)
    BY AppendProperties
  <1> QED
    BY <1>1, <1>2, SeqEqual

LEMMA AsReadIs ==
  ASSUME NEW s \in Seq(Nat)
  PROVE  /\ AsRead(s) \in Seq(Nat) /\ Len(AsRead(s)) = Len(s)
         /\ \A i \in 1 .. Len(s) : AsRead(s)[i] = mini_uart_read(s[i])
  <1>1. \A d \in Nat : mini_uart_read(d) \in Nat
    BY DEF mini_uart_read, Newline
  <1>2. Len(s) \in Nat /\ DOMAIN s = 1 .. Len(s) /\ \A i \in 1 .. Len(s) : s[i] \in Nat
    OBVIOUS
  <1>3. AsRead(s) = [i \in 1 .. Len(s) |-> mini_uart_read(s[i])]
    BY <1>2 DEF AsRead
  <1>4. AsRead(s) \in [1 .. Len(s) -> Nat]
    BY <1>1, <1>2, <1>3
  <1> QED
    BY <1>2, <1>3, <1>4, SeqDef, LenProperties

LEMMA AsReadGrows ==
  ASSUME NEW s \in Seq(Nat), NEW c \in Nat
  PROVE  /\ AsRead(Append(s, c)) = AsRead(s) \o <<mini_uart_read(c)>>
         /\ AsRead(<<c>>) = <<mini_uart_read(c)>>
         /\ mini_uart_read(c) \in Nat
  <1>1. mini_uart_read(c) \in Nat
    BY DEF mini_uart_read, Newline
  <1>2. /\ Append(s, c) \in Seq(Nat) /\ Len(Append(s, c)) = Len(s) + 1
        /\ Append(s, c)[Len(s) + 1] = c /\ \A i \in 1 .. Len(s) : Append(s, c)[i] = s[i]
    BY AppendProperties
  <1>3. AsRead(s) \in Seq(Nat) /\ Len(AsRead(s)) = Len(s)
        /\ \A i \in 1 .. Len(s) : AsRead(s)[i] = mini_uart_read(s[i])
    BY AsReadIs
  <1>4. AsRead(Append(s, c)) = Append(AsRead(s), mini_uart_read(c))
    <2> DEFINE m == AsRead(Append(s, c))
    <2>1. /\ m \in Seq(Nat) /\ Len(m) = Len(s) + 1
          /\ \A i \in 1 .. Len(s) + 1 : m[i] = mini_uart_read(Append(s, c)[i])
      BY <1>2, AsReadIs
    <2> HIDE DEF m
    <2>2. /\ \A i \in 1 .. Len(s) : m[i] = AsRead(s)[i]
          /\ m[Len(s) + 1] = mini_uart_read(c)
      <3>1. /\ Len(s) + 1 \in 1 .. Len(s) + 1
            /\ \A i \in 1 .. Len(s) : i \in 1 .. Len(s) + 1
        BY LenProperties
      <3>2. ASSUME NEW i \in 1 .. Len(s)
            PROVE  m[i] = AsRead(s)[i]
        BY <1>2, <1>3, <2>1, <3>1
      <3>3. m[Len(s) + 1] = mini_uart_read(c)
        BY <1>2, <2>1, <3>1
      <3> QED
        BY <3>2, <3>3
    <2> QED
      BY <1>1, <1>3, <2>1, <2>2, AppendIs DEF m
  <1>5. AsRead(<<c>>) = <<mini_uart_read(c)>>
    BY <1>1 DEF AsRead
  <1> QED
    BY <1>1, <1>3, <1>4, <1>5, AppendIsConcat

\* The lab's commands are the same after every step.
LEMMA SameCommands ==
  ASSUME lab' = lab
  PROVE  \A l : get_command_id(l)' = get_command_id(l)
  <1>1. Commands' = Commands
    BY DEF Commands
  <1> QED
    BY <1>1 DEF get_command_id

-----------------------------------------------------------------------------
(***************************************************************************)
(* The inductive invariant.  Every character is in a line taken, in the    *)
(* line being read or still waits; whoever reads has been asked for by the *)
(* line before.                                                            *)
(***************************************************************************)
Readers == {"shell", "cat", "load_program"}

Characters ==
  /\ typing \in Seq(Nat) /\ typed \in Seq(Nat) /\ buffer \in Seq(Nat)
  /\ fifo = <<>> \/ \E c \in Nat : fifo = <<c>>
  /\ taken \in Seq([by : Readers, line : Seq(Nat)])

NoneLost == Past \o Reading \o AsRead(fifo) = AsRead(typed)

NamesAskedFor ==
  \A k \in DOMAIN taken : taken[k].by = IF k = 1 THEN "shell" ELSE AsksFor(taken[k - 1])

ReaderAskedFor ==
  /\ reader \in Readers
  /\ reader = IF taken = <<>> THEN "shell" ELSE AsksFor(taken[Len(taken)])

IInv == Characters /\ NoneLost /\ NamesAskedFor /\ ReaderAskedFor

\* Of what a reader needs, a step leaves everything as it was.
Aside ==
  /\ UNCHANGED <<lab, fifo, typed, buffer, reader, taken>>
  /\ pc = "parse" <=> pc' = "parse"

LEMMA EndedIs ==
  ASSUME NEW by, NEW l \in Seq(Nat)
  PROVE  Ended(by, l) \in Seq(Nat)
  <1>1. Newline \in Nat
    BY DEF Newline
  <1> QED
    BY <1>1, AppendProperties DEF Ended

LEMMA InitReads == Init => IInv
  <1> SUFFICES ASSUME Init
               PROVE  IInv
    OBVIOUS
  <1>1. Characters
    BY DEF Init, Characters
  <1>2. NoneLost
    <2>1. [k \in DOMAIN taken |-> Ended(taken[k].by, taken[k].line)] = <<>>
      BY DEF Init
    <2>2. Past = <<>>
      BY <2>1 DEF Past, FlattenSeq
    <2>3. AsRead(<<>>) = <<>>
      BY DEF AsRead
    <2>4. Reading = <<>> /\ AsRead(fifo) = <<>> /\ AsRead(typed) = <<>>
      BY <2>3 DEF Init, Reading
    <2> QED
      BY <2>2, <2>4 DEF NoneLost
  <1>3. NamesAskedFor
    BY DEF Init, NamesAskedFor
  <1>4. ReaderAskedFor
    BY DEF Init, ReaderAskedFor, Readers
  <1> QED
    BY <1>1, <1>2, <1>3, <1>4 DEF IInv

\* Who asked for whom is a matter of the lines taken alone.
LEMMA AskedForStays ==
  ASSUME NamesAskedFor, ReaderAskedFor, UNCHANGED <<lab, reader, taken>>
  PROVE  NamesAskedFor' /\ ReaderAskedFor'
  <1>1. \A t : AsksFor(t)' = AsksFor(t)
    BY SameCommands DEF AsksFor
  <1>2. NamesAskedFor'
    BY <1>1 DEF NamesAskedFor
  <1>3. ReaderAskedFor'
    BY <1>1 DEF ReaderAskedFor
  <1> QED
    BY <1>2, <1>3

LEMMA AsideReads ==
  ASSUME IInv, Aside, typing' \in Seq(Nat)
  PROVE  IInv'
  <1>1. Characters'
    BY DEF IInv, Characters, Aside
  <1>2. Past' = Past
    BY DEF Past, Aside
  <1>3. Reading' = Reading
    BY DEF Reading, Aside
  <1>4. NoneLost'
    BY <1>2, <1>3 DEF IInv, NoneLost, Aside
  <1>5. NamesAskedFor' /\ ReaderAskedFor'
    BY AskedForStays DEF IInv, Aside
  <1> QED
    BY <1>1, <1>4, <1>5 DEF IInv

-----------------------------------------------------------------------------
(* A character more, a line more.                                          *)

LEMMA TakenIs ==
  ASSUME Characters
  PROVE  /\ Len(taken) \in Nat /\ DOMAIN taken = 1 .. Len(taken)
         /\ \A k \in 1 .. Len(taken) : taken[k].by \in Readers /\ taken[k].line \in Seq(Nat)
  <1>1. taken \in Seq([by : Readers, line : Seq(Nat)])
    BY DEF Characters
  <1>2. \A k \in 1 .. Len(taken) : taken[k] \in [by : Readers, line : Seq(Nat)]
    BY <1>1, ElementOfSeq
  <1> QED
    BY <1>1, <1>2, LenProperties

LEMMA PastIs ==
  ASSUME Characters
  PROVE  Past \in Seq(Nat)
  <1> DEFINE s == [k \in DOMAIN taken |-> Ended(taken[k].by, taken[k].line)]
  <1>1. /\ Len(taken) \in Nat /\ DOMAIN taken = 1 .. Len(taken)
        /\ \A k \in 1 .. Len(taken) : taken[k].line \in Seq(Nat)
    BY TakenIs
  <1>2. \A k \in 1 .. Len(taken) : Ended(taken[k].by, taken[k].line) \in Seq(Nat)
    BY <1>1, EndedIs
  <1>3. s \in [1 .. Len(taken) -> Seq(Nat)]
    BY <1>1, <1>2
  <1>4. s \in Seq(Seq(Nat))
    BY <1>1, <1>3, SeqDef
  <1> HIDE DEF s
  <1>5. FlattenSeq(s) \in Seq(Nat)
    BY <1>4, FlattenOfAppend, EmptySeq
  <1> QED
    BY <1>5 DEF Past, s

LEMMA PastGrows ==
  ASSUME Characters, NEW by \in Readers, NEW l \in Seq(Nat),
         taken' = Append(taken, [by |-> by, line |-> l])
  PROVE  Past' = Past \o Ended(by, l)
  <1> DEFINE s == [k \in DOMAIN taken |-> Ended(taken[k].by, taken[k].line)]
             t == [k \in DOMAIN taken' |-> Ended(taken'[k].by, taken'[k].line)]
  <1>1. /\ Len(taken) \in Nat /\ DOMAIN taken = 1 .. Len(taken)
        /\ \A k \in 1 .. Len(taken) : taken[k].line \in Seq(Nat)
    BY TakenIs
  <1>2. \A k \in 1 .. Len(taken) : Ended(taken[k].by, taken[k].line) \in Seq(Nat)
    BY <1>1, EndedIs
  <1>3. s \in [1 .. Len(taken) -> Seq(Nat)]
    BY <1>1, <1>2
  <1>4. s \in Seq(Seq(Nat)) /\ Len(s) = Len(taken)
    BY <1>1, <1>3, SeqDef, LenProperties
  <1>5. [by |-> by, line |-> l] \in [by : Readers, line : Seq(Nat)]
    OBVIOUS
  <1>6. /\ DOMAIN taken' = 1 .. Len(taken) + 1
        /\ taken'[Len(taken) + 1] = [by |-> by, line |-> l]
        /\ \A k \in 1 .. Len(taken) : taken'[k] = taken[k]
    BY <1>5, AppendProperties, LenProperties DEF Characters
  <1>7. t = Append(s, Ended(by, l))
    <2>1. \A k \in 1 .. Len(taken) + 1 :
            t[k] = IF k = Len(taken) + 1 THEN Ended(by, l) ELSE s[k]
      BY <1>1, <1>6
    <2>2. DOMAIN t = 1 .. Len(taken) + 1 /\ t = [k \in DOMAIN t |-> t[k]]
      BY <1>6
    <2> HIDE DEF s, t
    <2>3. t \in [1 .. Len(taken) + 1 -> Seq(Nat)]
      BY <1>1, <1>4, <2>1, <2>2, EndedIs, ElementOfSeq
    <2>4. t \in Seq(Seq(Nat)) /\ Len(t) = Len(taken) + 1
      <3>1. ASSUME NEW n \in Nat, n = Len(taken) + 1
            PROVE  t \in Seq(Seq(Nat)) /\ Len(t) = n
        <4>1. t \in [1 .. n -> Seq(Nat)]
          BY <2>3, <3>1
        <4>2. t \in Seq(Seq(Nat))
          BY <4>1, SeqDef
        <4>3. Len(t) \in Nat /\ 1 .. Len(t) = 1 .. n
          BY <4>1, <4>2, LenProperties
        <4> QED
          BY <4>2, <4>3
      <3> QED
        BY <1>1, <3>1
    <2>5. t[Len(s) + 1] = Ended(by, l) /\ \A k \in 1 .. Len(s) : t[k] = s[k]
      <3>1. /\ Len(taken) + 1 \in 1 .. Len(taken) + 1
            /\ \A k \in 1 .. Len(taken) : k \in 1 .. Len(taken) + 1 /\ k # Len(taken) + 1
        BY <1>1
      <3>2. t[Len(taken) + 1] = Ended(by, l) /\ \A k \in 1 .. Len(taken) : t[k] = s[k]
        BY <2>1, <3>1
      <3> QED
        BY <1>4, <3>2
    <2> QED
      BY <1>4, <2>4, <2>5, EndedIs, AppendIs
  <1> HIDE DEF s, t
  <1>8. FlattenSeq(t) = FlattenSeq(s) \o Ended(by, l)
    BY <1>4, <1>7, EndedIs, FlattenOfAppend
  <1> QED
    BY <1>8 DEF Past, s, t

LEMMA TypeReads ==
  ASSUME IInv, Type
  PROVE  IInv'
  <1> DEFINE c == Head(typing)
  <1>1. /\ typing \in Seq(Nat) /\ typing # <<>> /\ typed \in Seq(Nat) /\ fifo = <<>>
        /\ fifo' = <<c>> /\ typed' = Append(typed, c) /\ typing' = Tail(typing)
    BY DEF IInv, Characters, Type
  <1>2. c \in Nat /\ Tail(typing) \in Seq(Nat)
    BY <1>1, HeadTailProperties
  <1> HIDE DEF c
  <1>3. Characters'
    <2>1. typed' \in Seq(Nat)
      BY <1>1, <1>2, AppendProperties
    <2> QED
      BY <1>1, <1>2, <2>1 DEF IInv, Characters, Type
  <1>4. Past' = Past /\ Reading' = Reading
    BY DEF Past, Reading, Type
  <1>5. NoneLost'
    <2>1. AsRead(<<>>) = <<>>
      BY DEF AsRead
    <2>2. /\ AsRead(typed') = AsRead(typed) \o <<mini_uart_read(c)>>
          /\ AsRead(fifo') = <<mini_uart_read(c)>> /\ AsRead(fifo) = <<>>
      BY <1>1, <1>2, <2>1, AsReadGrows
    <2>3. Past \in Seq(Nat) /\ Reading \in Seq(Nat)
      BY PastIs, EndedIs DEF IInv, Characters, Reading
    <2>4. Past \o Reading \in Seq(Nat) /\ Past \o Reading \o AsRead(fifo) = Past \o Reading
      BY <2>2, <2>3, ConcatProperties, ConcatEmptySeq
    <2>5. Past \o Reading = AsRead(typed)
      BY <2>4 DEF IInv, NoneLost
    <2>6. Past' \o Reading' \o AsRead(fifo') = AsRead(typed')
      BY <1>4, <2>2, <2>5
    <2> QED
      BY <2>6 DEF NoneLost
  <1>6. NamesAskedFor' /\ ReaderAskedFor'
    BY AskedForStays DEF IInv, Type, memory
  <1> QED
    BY <1>3, <1>5, <1>6 DEF IInv

LEMMA ReadCharReads ==
  ASSUME IInv, ReadChar
  PROVE  IInv'
  <1>1. PICK c \in Nat : fifo = <<c>>
    BY DEF IInv, Characters, ReadChar
  <1>2. /\ pc = "read" /\ fifo' = <<>> /\ Head(fifo) = c
        /\ Len(buffer) < MaxLen(reader) - 1 /\ buffer \in Seq(Nat)
        /\ UNCHANGED <<lab, typing, typed, reader, taken>>
    BY <1>1 DEF IInv, Characters, ReadChar, memory
  <1>3. Characters'
    <2>1. buffer' = buffer \/ buffer' = Append(buffer, c)
      BY <1>2 DEF ReadChar
    <2>2. buffer' \in Seq(Nat)
      BY <1>2, <2>1, AppendProperties
    <2> QED
      BY <1>2, <2>2 DEF IInv, Characters
  <1>4. Past' = Past /\ Past \in Seq(Nat)
    BY <1>2, PastIs DEF Past, IInv
  <1>5. mini_uart_read(c) \in Nat /\ AsRead(fifo) = <<mini_uart_read(c)>>
        /\ AsRead(fifo') = <<>>
    <2>1. AsRead(<<>>) = <<>>
      BY DEF AsRead
    <2> QED
      BY <1>1, <1>2, <2>1, AsReadGrows
  <1>6. Reading = buffer
    BY <1>2 DEF Reading
  <1>7. Reading' = Append(buffer, mini_uart_read(c))
    <2>1. CASE mini_uart_read(c) = Newline
      <3>1. pc' = "parse" /\ buffer' = buffer
        BY <1>2, <2>1 DEF ReadChar
      <3>2. Ended(reader, buffer) = Append(buffer, Newline)
        <4>1. Len(buffer) # MaxLen(reader) - 1
          <5>1. MaxLen(reader) \in Nat /\ Len(buffer) \in Nat
            BY <1>2, CmdBufferSizeAssumption, MaxReaderBufferAssumption, LenProperties
               DEF MaxLen
          <5> QED
            BY <1>2, <5>1
        <4> QED
          BY <4>1 DEF Ended
      <3> QED
        BY <1>2, <2>1, <3>1, <3>2 DEF Reading
    <2>2. CASE mini_uart_read(c) # Newline
      <3>1. pc' = "read" /\ buffer' = Append(buffer, c)
        BY <1>2, <2>2 DEF ReadChar
      <3>2. mini_uart_read(c) = c
        BY <2>2 DEF mini_uart_read
      <3> QED
        BY <3>1, <3>2 DEF Reading
    <2> QED
      BY <2>1, <2>2
  <1>8. NoneLost'
    <2>1. ASSUME NEW d \in Nat, d = mini_uart_read(c)
          PROVE  Past' \o Reading' \o AsRead(fifo') = Past \o Reading \o AsRead(fifo)
      <3>1. Reading' = buffer \o <<d>> /\ <<d>> \in Seq(Nat) /\ Reading' \in Seq(Nat)
        BY <1>2, <1>7, <2>1, AppendIsConcat, AppendProperties
      <3>2. Past \o (buffer \o <<d>>) = (Past \o buffer) \o <<d>>
        BY <1>2, <1>4, <3>1, ConcatAssociative
      <3>3. (Past \o Reading') \o <<>> = Past \o Reading'
        BY <1>4, <3>1, ConcatProperties, ConcatEmptySeq
      <3> QED
        BY <1>4, <1>5, <1>6, <2>1, <3>1, <3>2, <3>3
    <2> QED
      BY <1>2, <1>5, <2>1 DEF IInv, NoneLost
  <1>9. NamesAskedFor' /\ ReaderAskedFor'
    BY <1>2, AskedForStays DEF IInv
  <1> QED
    BY <1>3, <1>8, <1>9 DEF IInv

\* A full line ends without a character of its own.
LEMMA LineFullReads ==
  ASSUME IInv, LineFull
  PROVE  IInv'
  <1>1. /\ pc = "read" /\ pc' = "parse" /\ Len(buffer) = MaxLen(reader) - 1
        /\ UNCHANGED <<lab, typing, typed, fifo, buffer, reader, taken>>
    BY DEF LineFull, memory, line
  <1>2. Reading' = Reading /\ Past' = Past
    BY <1>1 DEF Reading, Ended, Past
  <1>3. Characters' /\ NoneLost'
    BY <1>1, <1>2 DEF IInv, Characters, NoneLost
  <1>4. NamesAskedFor' /\ ReaderAskedFor'
    BY <1>1, AskedForStays DEF IInv
  <1> QED
    BY <1>3, <1>4 DEF IInv

\* The line is taken; who reads the next one is told by it.
LEMMA TakesReads ==
  ASSUME IInv, Takes(reader), pc' # "parse",
         reader' = AsksFor([by |-> reader, line |-> buffer])
  PROVE  IInv'
  <1> DEFINE t == [by |-> reader, line |-> buffer]
  <1>1. /\ pc = "parse" /\ taken' = Append(taken, t) /\ buffer' = <<>>
        /\ UNCHANGED <<lab, typing, typed, fifo>>
    BY DEF Takes, memory, line
  <1>2. /\ reader \in Readers /\ buffer \in Seq(Nat) /\ Characters
        /\ taken \in Seq([by : Readers, line : Seq(Nat)])
    BY DEF IInv, Characters, ReaderAskedFor
  <1>3. t \in [by : Readers, line : Seq(Nat)]
    BY <1>2
  <1>4. Characters'
    <2>1. taken' \in Seq([by : Readers, line : Seq(Nat)])
      BY <1>1, <1>2, <1>3, AppendProperties
    <2> QED
      BY <1>1, <1>2, <2>1 DEF Characters
  <1>5. NoneLost'
    <2>1. Past' = Past \o Reading
      BY <1>1, <1>2, PastGrows DEF Reading
    <2>2. Reading' = <<>>
      BY <1>1 DEF Reading
    <2>3. Past \in Seq(Nat) /\ Reading \in Seq(Nat)
      BY <1>2, PastIs, EndedIs DEF Reading
    <2>4. (Past \o Reading) \o <<>> = Past \o Reading
      BY <2>3, ConcatProperties, ConcatEmptySeq
    <2> QED
      BY <1>1, <2>1, <2>2, <2>4 DEF IInv, NoneLost
  <1>6. \A r : AsksFor(r)' = AsksFor(r)
    BY <1>1, SameCommands DEF AsksFor
  <1>7. /\ Len(taken) \in Nat /\ DOMAIN taken = 1 .. Len(taken)
        /\ Len(taken') = Len(taken) + 1 /\ DOMAIN taken' = 1 .. Len(taken) + 1
        /\ taken' # <<>> /\ taken'[Len(taken) + 1] = t
        /\ \A k \in 1 .. Len(taken) : taken'[k] = taken[k]
    BY <1>1, <1>2, <1>3, AppendProperties, LenProperties
  <1> HIDE DEF t
  <1>8. NamesAskedFor'
    <2>1. ASSUME NEW k \in 1 .. Len(taken) + 1
          PROVE  taken'[k].by = IF k = 1 THEN "shell" ELSE AsksFor(taken'[k - 1])
      <3>1. CASE k = Len(taken) + 1
        <4>1. taken'[k].by = reader
          BY <1>7, <3>1 DEF t
        <4>2. CASE taken = <<>>
          <5>1. k = 1
            BY <3>1, <4>2
          <5> QED
            BY <4>1, <4>2, <5>1 DEF IInv, ReaderAskedFor
        <4>3. CASE taken # <<>>
          <5>1. Len(taken) \in 1 .. Len(taken) /\ k # 1 /\ k - 1 = Len(taken)
            BY <1>2, <1>7, <3>1, <4>3, EmptySeq
          <5>2. taken'[k - 1] = taken[Len(taken)]
            BY <1>7, <5>1
          <5> QED
            BY <4>1, <4>3, <5>1, <5>2 DEF IInv, ReaderAskedFor
        <4> QED
          BY <4>2, <4>3
      <3>2. CASE k # Len(taken) + 1
        <4>1. k \in 1 .. Len(taken) /\ (k # 1 => k - 1 \in 1 .. Len(taken))
          BY <1>7, <3>2
        <4>2. taken[k].by = IF k = 1 THEN "shell" ELSE AsksFor(taken[k - 1])
          BY <1>7, <4>1 DEF IInv, NamesAskedFor
        <4> QED
          BY <1>7, <4>1, <4>2
      <3> QED
        BY <3>1, <3>2
    <2> QED
      BY <1>6, <1>7, <2>1 DEF NamesAskedFor
  <1>9. ReaderAskedFor'
    <2>1. reader' \in Readers
      BY DEF AsksFor, Readers
    <2>2. reader' = AsksFor(taken'[Len(taken')])
      BY <1>7 DEF t
    <2> QED
      BY <1>6, <1>7, <2>1, <2>2 DEF ReaderAskedFor
  <1> QED
    BY <1>4, <1>5, <1>8, <1>9 DEF IInv

-----------------------------------------------------------------------------
(* Every step of the shell and of what goes on around it.                  *)

LEMMA CommandReads ==
  ASSUME IInv, parse_command
  PROVE  IInv'
  <1>1. /\ Takes("shell") /\ pc' # "parse"
        /\ reader' = IF get_command_id(buffer) \in {"cat", "load_program"}
                       THEN get_command_id(buffer) ELSE "shell"
    <2>1. ASSUME show \/ info \/ reboot \/ dtb_test
          PROVE  /\ Takes("shell") /\ pc' # "parse" /\ reader' = "shell"
                 /\ get_command_id(buffer) \notin {"cat", "load_program"}
      BY <2>1 DEF show, info, reboot, dtb_test, Is, IsOneOf, Done
    <2>2. ASSUME SetTimer \/ alloc_test \/ ls
          PROVE  /\ Takes("shell") /\ pc' # "parse" /\ reader' = "shell"
                 /\ get_command_id(buffer) \notin {"cat", "load_program"}
      BY <2>2 DEF SetTimer, alloc_test, ls, Is, IsOneOf, Done
    <2>3. ASSUME AskName
          PROVE  /\ Takes("shell") /\ pc' # "parse" /\ reader' = get_command_id(buffer)
                 /\ get_command_id(buffer) \in {"cat", "load_program"}
      BY <2>3 DEF AskName, IsOneOf, Done
    <2> QED
      BY <2>1, <2>2, <2>3 DEF parse_command
  <1>2. reader = "shell" /\ Takes(reader)
    BY <1>1 DEF Takes
  <1>3. reader' = AsksFor([by |-> reader, line |-> buffer])
    BY <1>1, <1>2 DEF AsksFor
  <1> QED
    BY <1>1, <1>2, <1>3, TakesReads

LEMMA NameReads ==
  ASSUME IInv, cpio_cat \/ cpio_load_program
  PROVE  IInv'
  <1>1. /\ reader \in {"cat", "load_program"} /\ Takes(reader)
        /\ pc' # "parse" /\ reader' = "shell"
    <2>1. CASE cpio_cat
      BY <2>1 DEF cpio_cat, Takes, Done
    <2>2. CASE cpio_load_program
      BY <2>2 DEF cpio_load_program, Takes, Done
    <2> QED
      BY <2>1, <2>2
  <1>2. reader' = AsksFor([by |-> reader, line |-> buffer])
    BY <1>1 DEF AsksFor
  <1> QED
    BY <1>1, <1>2, TakesReads

LEMMA StepReads == IInv /\ [Next]_vars => IInv'
  <1> SUFFICES ASSUME IInv, [Next]_vars
               PROVE  IInv'
    OBVIOUS
  <1>1. typing \in Seq(Nat)
    BY DEF IInv, Characters
  <1>2. CASE BeginLine
    <2>1. Aside
      BY <1>2 DEF BeginLine, Aside, memory
    <2>2. typing' \in Seq(Nat)
      BY <1>2, CharactersSent DEF BeginLine
    <2> QED
      BY <2>1, <2>2, AsideReads
  <1>3. CASE Type
    BY <1>3, TypeReads
  <1>4. CASE TimerIrq \/ Gpu \/ task_dispatcher \/ Prompt
    <2>1. Aside /\ typing' = typing
      BY <1>4 DEF TimerIrq, Gpu, task_dispatcher, Prompt, Aside, memory, line
    <2> QED
      BY <1>1, <2>1, AsideReads
  <1>5. CASE ReadChar
    BY <1>5, ReadCharReads
  <1>6. CASE LineFull
    BY <1>6, LineFullReads
  <1>7. CASE parse_command
    BY <1>7, CommandReads
  <1>8. CASE mailbox_write \/ mailbox_read \/ test_allocator_exhaustion
    <2>1. Aside /\ typing' = typing
      BY <1>8 DEF mailbox_write, mailbox_read, test_allocator_exhaustion, Aside, memory, line
    <2> QED
      BY <1>1, <2>1, AsideReads
  <1>9. CASE cpio_cat \/ cpio_load_program
    BY <1>9, NameReads
  <1>10. CASE UNCHANGED vars
    <2>1. Aside /\ typing' = typing
      BY <1>10 DEF vars, Aside
    <2> QED
      BY <1>1, <2>1, AsideReads
  <1> QED
    BY <1>2, <1>3, <1>4, <1>5, <1>6, <1>7, <1>8, <1>9, <1>10 DEF Next, shell

\* Each character typed, mini_uart_read_string and cpio_cat's loop put into
\* exactly one line, in order, and the line after cat or load_program is
\* read by that command: whatever the two buffers' sizes and however timers,
\* tasks and the GPU interleave.
THEOREM LinesAsTyped == Spec => []TakenAsTyped
  <1>1. Init => IInv
    BY InitReads
  <1>2. IInv /\ [Next]_vars => IInv'
    BY StepReads
  <1>3. IInv => TakenAsTyped
    BY DEF IInv, NoneLost, NamesAskedFor, TakenAsTyped
  <1> QED
    BY <1>1, <1>2, <1>3, PTL DEF Spec

-----------------------------------------------------------------------------
(* The bootloader: an error in the size is final.                          *)

IsSeq(s) == \E S : s \in Seq(S)

(* What is before the first NUL of a buffer.                               *)
LEMMA StringEnds ==
  ASSUME NEW S, NEW s \in Seq(S)
  PROVE  \E end \in 0 .. Len(s) :
           /\ UpToNul(s) = SubSeq(s, 1, end)
           /\ end < Len(s) => s[end + 1] = 0
           /\ \A i \in 1 .. end : s[i] # 0
  <1> DEFINE Ends(n) == /\ n < Len(s) => s[n + 1] = 0
                        /\ \A i \in 1 .. n : s[i] # 0
             T == {n \in Nat : n <= Len(s) /\ \A i \in 1 .. n : s[i] # 0}
  <1>1. Len(s) \in Nat
    BY LenProperties
  <1>2. \E n \in 0 .. Len(s) : Ends(n)
    <2> SUFFICES ASSUME \A n \in 0 .. Len(s) : ~Ends(n)
                 PROVE  FALSE
      OBVIOUS
    <2>1. 0 \in T
      BY <1>1
    <2>2. ASSUME NEW n \in Nat, n \in T
          PROVE  n + 1 \in T
      <3>1. n < Len(s) /\ s[n + 1] # 0
        BY <1>1, <2>2
      <3> QED
        BY <1>1, <2>2, <3>1
    <2> HIDE DEF T
    <2>3. Len(s) + 1 \in T
      BY <1>1, <2>1, <2>2, SetInduction
    <2> QED
      BY <1>1, <2>3 DEF T
  <1>3. UpToNul(s) = SubSeq(s, 1, CHOOSE n \in 0 .. Len(s) : Ends(n))
    BY DEF UpToNul
  <1> HIDE DEF Ends
  <1>4. PICK end \in 0 .. Len(s) : end = (CHOOSE n \in 0 .. Len(s) : Ends(n)) /\ Ends(end)
    BY <1>2
  <1> QED
    BY <1>3, <1>4 DEF Ends

(* A character that is no digit, with no NUL before it.                    *)
Wrong(s) == \E i \in DOMAIN s : ~IsDigit(s[i]) /\ \A j \in 1 .. i : s[j] # 0

LEMMA WrongIsRefused ==
  ASSUME NEW s, IsSeq(s)
  PROVE  parse2int(s) = <<>> <=> Wrong(s)
  <1>1. PICK S : s \in Seq(S)
    BY DEF IsSeq
  <1>2. PICK end \in 0 .. Len(s) :
           /\ UpToNul(s) = SubSeq(s, 1, end)
           /\ end < Len(s) => s[end + 1] = 0
           /\ \A i \in 1 .. end : s[i] # 0
    BY <1>1, StringEnds
  <1> DEFINE t == UpToNul(s)
  <1>3. Len(s) \in Nat /\ DOMAIN s = 1 .. Len(s)
    BY <1>1, LenProperties
  <1>4. DOMAIN t = 1 .. end /\ \A i \in 1 .. end : t[i] = s[i]
    BY <1>1, <1>2, <1>3, SubSeqProperties
  <1>5. parse2int(s) = <<>> <=> ~IsNumber(t)
    BY DEF parse2int
  <1> HIDE DEF t
  <1>6. ~IsNumber(t) <=> \E i \in 1 .. end : ~IsDigit(s[i])
    BY <1>4 DEF IsNumber
  <1>7. ASSUME NEW i \in 1 .. end, ~IsDigit(s[i])
        PROVE  Wrong(s)
    BY <1>2, <1>3, <1>7 DEF Wrong
  <1>8. ASSUME NEW i \in DOMAIN s, ~IsDigit(s[i]), \A j \in 1 .. i : s[j] # 0
        PROVE  i \in 1 .. end
    BY <1>2, <1>3, <1>8
  <1> QED
    BY <1>5, <1>6, <1>7, <1>8 DEF Wrong

LEMMA AppendStaysSeq ==
  ASSUME NEW s, IsSeq(s), NEW c
  PROVE  /\ IsSeq(Append(s, c))
         /\ Wrong(s) => Wrong(Append(s, c))
  <1>1. PICK S : s \in Seq(S)
    BY DEF IsSeq
  <1> DEFINE T == S \cup {c}
  <1>2. s \in Seq(T) /\ c \in T
    BY <1>1, SeqMonotonic
  <1> HIDE DEF T
  <1>3. /\ Append(s, c) \in Seq(T) /\ Len(s) \in Nat
        /\ DOMAIN s = 1 .. Len(s) /\ DOMAIN Append(s, c) = 1 .. Len(s) + 1
        /\ \A i \in 1 .. Len(s) : Append(s, c)[i] = s[i]
    BY <1>2, AppendProperties, LenProperties
  <1>4. ASSUME NEW i \in DOMAIN s, ~IsDigit(s[i]), \A j \in 1 .. i : s[j] # 0
        PROVE  /\ i \in DOMAIN Append(s, c) /\ ~IsDigit(Append(s, c)[i])
               /\ \A j \in 1 .. i : Append(s, c)[j] # 0
    BY <1>3, <1>4
  <1>5. Wrong(s) => Wrong(Append(s, c))
    BY <1>4 DEF Wrong
  <1> QED
    BY <1>3, <1>5 DEF IsSeq

\* The wrong character stays in the line.
ErrorKept ==
  /\ IsSeq(size_line)
  /\ failed => stage \in {"prompt", "size"} /\ Wrong(size_line)

LEMMA ReadSizeKeepsError ==
  ASSUME ErrorKept, ReadSize
  PROVE  ErrorKept'
  <1>1. stage = "size"
    BY DEF ReadSize
  <1>2. CASE get_char
    <2>1. /\ size_line' = size_line \/ \E c : size_line' = Append(size_line, c)
          /\ UNCHANGED <<stage, failed>>
      BY <1>2 DEF get_char
    <2>2. IsSeq(size_line') /\ (Wrong(size_line) => Wrong(size_line'))
      BY <2>1, AppendStaysSeq DEF ErrorKept
    <2> QED
      BY <2>1, <2>2 DEF ErrorKept, IsSeq, Wrong
  <1>3. CASE get_size
    <2>1. parse2int(size_line) = <<>> <=> Wrong(size_line)
      BY WrongIsRefused DEF ErrorKept
    <2>2. CASE ~Wrong(size_line)
      <3>1. ~failed /\ failed' = failed /\ size_line' = size_line
        BY <1>3, <2>1, <2>2 DEF ErrorKept, get_size
      <3> QED
        BY <3>1 DEF ErrorKept, IsSeq
    <2>3. CASE Wrong(size_line)
      <3>1. stage' = "prompt" /\ size_line' = size_line
        BY <1>3, <2>1, <2>3 DEF get_size
      <3> QED
        BY <2>3, <3>1 DEF ErrorKept, IsSeq, Wrong
    <2> QED
      BY <2>2, <2>3
  <1> QED
    BY <1>2, <1>3 DEF ReadSize

LEMMA ErrorStays == ErrorKept /\ [LoaderNext]_loader_vars => ErrorKept'
  <1> SUFFICES ASSUME ErrorKept, [LoaderNext]_loader_vars
               PROVE  ErrorKept'
    OBVIOUS
  <1>1. CASE SendSize \/ SendImage \/ Deliver \/ UNCHANGED loader_vars
    <2>1. UNCHANGED <<stage, size_line, failed>>
      BY <1>1 DEF SendSize, SendImage, Deliver, board, loader_vars
    <2> QED
      BY <2>1 DEF ErrorKept, IsSeq, Wrong
  <1>2. CASE PowerOff
    <2>1. size_line' = <<>> /\ ~failed'
      BY <1>2 DEF PowerOff
    <2>2. size_line' \in Seq({})
      BY <2>1
    <2> QED
      BY <2>1, <2>2 DEF ErrorKept, IsSeq
  <1>3. CASE PowerOn \/ Relocate \/ dtb_init \/ bss_init
             \/ StartLoader \/ jump_to_kernel \/ main
    <2>1. stage \notin {"prompt", "size"} /\ UNCHANGED <<size_line, failed>>
      BY <1>3 DEF PowerOn, Relocate, dtb_init, bss_init,
                  StartLoader, jump_to_kernel, main
    <2> QED
      BY <2>1 DEF ErrorKept, IsSeq, Wrong
  <1>4. CASE recieve_and_load_img
    <2>1. CASE Printed("prompt", "size")
      BY <2>1 DEF ErrorKept, IsSeq, Wrong, Printed
    <2>2. CASE Printed("ready", "raw") \/ ReadImage \/ Printed("raw", "jump")
      <3>1. stage \notin {"prompt", "size"} /\ UNCHANGED <<size_line, failed>>
        BY <2>2 DEF Printed, ReadImage
      <3> QED
        BY <3>1 DEF ErrorKept, IsSeq, Wrong
    <2>3. CASE ReadSize
      BY <2>3, ReadSizeKeepsError
    <2> QED
      BY <1>4, <2>1, <2>2, <2>3 DEF recieve_and_load_img
  <1> QED
    BY <1>1, <1>2, <1>3, <1>4 DEF LoaderNext, Run, bootloader_main

\* recieve_and_load_img never resets the index into the line: after one wrong
\* size every later one is wrong, whatever the line's length and however
\* often the script is run, until the board is switched off.
THEOREM WrongSizeIsFinal == LoaderSpec => []ErrorIsFinal
  <1>1. LoaderInit => ErrorKept
    <2>1. <<>> \in Seq({})
      OBVIOUS
    <2> QED
      BY <2>1 DEF LoaderInit, ErrorKept, IsSeq
  <1>2. ErrorKept /\ [LoaderNext]_loader_vars => ErrorKept'
    BY ErrorStays
  <1>3. ErrorKept => ErrorIsFinal
    BY DEF ErrorKept, ErrorIsFinal
  <1> QED
    BY <1>1, <1>2, <1>3, PTL DEF LoaderSpec

-----------------------------------------------------------------------------
(* The bootloader: what the kernel finds when it starts.                   *)

\* What has to come before what in every lab's start.
Steps == {"dtb", "el1", "vectors", "bss", "stack", "uart", "ramfs", "tasks", "irq",
          "timer", "buddy", "pools", "thread", "shell"}

BeforeIrq == {"el1", "vectors", "bss", "stack", "tasks"}

Ordered(boot) ==
  /\ boot \in Seq(Steps) /\ boot # <<>>
  /\ \A i \in 1 .. Len(boot) :
       /\ boot[i] = "dtb" => i = 1
       /\ boot[i] = "ramfs" => i # 1 /\ boot[1] = "dtb"
       /\ boot[i] = "irq" => BeforeIrq \subseteq {boot[j] : j \in 1 .. i - 1}

\* From lab3 on.
LEMMA LateStartOrdered ==
  ASSUME NEW boot \in Seq(Steps), Len(boot) >= 9,
         boot[1] = "dtb", boot[2] = "el1", boot[3] = "vectors", boot[4] = "bss",
         boot[5] = "stack", boot[6] = "uart", boot[7] = "ramfs", boot[8] = "tasks",
         boot[9] = "irq",
         \A i \in 10 .. Len(boot) : boot[i] \notin {"dtb", "ramfs", "irq"}
  PROVE  Ordered(boot)
  <1>1. ASSUME NEW i \in 1 .. Len(boot)
        PROVE  /\ boot[i] = "dtb" => i = 1
               /\ boot[i] = "ramfs" => i = 7
               /\ boot[i] = "irq" => i = 9
    <2>1. Len(boot) \in Nat
      BY LenProperties
    <2>2. \/ i = 1 \/ i = 2 \/ i = 3 \/ i = 4 \/ i = 5 \/ i = 6 \/ i = 7 \/ i = 8 \/ i = 9
          \/ i \in 10 .. Len(boot)
      BY <2>1
    <2> QED
      BY <2>2
  <1>2. BeforeIrq \subseteq {boot[j] : j \in 1 .. 9 - 1}
    <2>1. 2 \in 1 .. 9 - 1 /\ 3 \in 1 .. 9 - 1 /\ 4 \in 1 .. 9 - 1 /\ 5 \in 1 .. 9 - 1
          /\ 8 \in 1 .. 9 - 1
      OBVIOUS
    <2> QED
      BY <2>1 DEF BeforeIrq
  <1>3. boot # <<>>
    BY EmptySeq
  <1>4. ASSUME NEW i \in 1 .. Len(boot)
        PROVE  /\ boot[i] = "dtb" => i = 1
               /\ boot[i] = "ramfs" => i # 1 /\ boot[1] = "dtb"
               /\ boot[i] = "irq" => BeforeIrq \subseteq {boot[j] : j \in 1 .. i - 1}
    BY <1>1, <1>2
  <1> QED
    BY <1>3, <1>4 DEF Ordered

LEMMA StartsOrdered == \A boot \in Boots : Ordered(boot)
  <1>1. ASSUME NEW boot, boot = StartLab1 \o MainLab1
        PROVE  Ordered(boot)
    <2>1. StartLab1 \in Seq(Steps) /\ MainLab1 \in Seq(Steps)
      BY DEF StartLab1, MainLab1, Steps
    <2>2. boot \in Seq(Steps)
      BY <1>1, <2>1, ConcatProperties
    <2>3. Len(boot) = 4
      BY <1>1 DEF StartLab1, MainLab1
    <2>4. /\ boot[1] = "bss" /\ boot[2] = "stack" /\ boot[3] = "uart"
          /\ boot[4] = "shell"
      BY <1>1 DEF StartLab1, MainLab1
    <2>5. \A i \in 1 .. 4 : i = 1 \/ i = 2 \/ i = 3 \/ i = 4
      OBVIOUS
    <2>6. \A i \in 1 .. 4 : boot[i] \notin {"dtb", "ramfs", "irq"}
      BY <2>4, <2>5
    <2>7. boot # <<>>
      <3>1. Len(<<>>) = 0
        OBVIOUS
      <3> QED
        BY ONLY <2>3, <3>1
    <2> QED
      BY <2>2, <2>3, <2>6, <2>7 DEF Ordered
  <1>2. ASSUME NEW boot, boot = StartLab2 \o MainLab2
        PROVE  Ordered(boot)
    <2>1. StartLab2 \in Seq(Steps) /\ MainLab2 \in Seq(Steps)
      BY DEF StartLab2, MainLab2, Steps
    <2>2. boot \in Seq(Steps)
      BY <1>2, <2>1, ConcatProperties
    <2>3. Len(boot) = 6
      BY <1>2 DEF StartLab2, MainLab2
    <2>4. /\ boot[1] = "dtb" /\ boot[2] = "bss" /\ boot[3] = "stack" /\ boot[4] = "uart"
          /\ boot[5] = "ramfs" /\ boot[6] = "shell"
      BY <1>2 DEF StartLab2, MainLab2
    <2>5. \A i \in 1 .. 6 : i = 1 \/ i = 2 \/ i = 3 \/ i = 4 \/ i = 5 \/ i = 6
      OBVIOUS
    <2>6. \A i \in 1 .. 6 : boot[i] # "irq" /\ (boot[i] = "dtb" => i = 1) /\ (boot[i] = "ramfs" => i = 5)
      BY <2>4, <2>5
    <2>7. boot # <<>>
      <3>1. Len(<<>>) = 0
        OBVIOUS
      <3> QED
        BY ONLY <2>3, <3>1
    <2> QED
      BY <2>2, <2>3, <2>4, <2>6, <2>7 DEF Ordered
  <1>3. ASSUME NEW boot, boot = Start \o MainLab3
        PROVE  Ordered(boot)
    <2>1. Start \in Seq(Steps) /\ MainLab3 \in Seq(Steps)
      BY DEF Start, MainLab3, irq_init, Steps
    <2>2. boot \in Seq(Steps)
      BY <1>3, <2>1, ConcatProperties
    <2>3. Len(boot) = 11
      BY <1>3 DEF Start, MainLab3, irq_init
    <2>4. /\ boot[1] = "dtb" /\ boot[2] = "el1" /\ boot[3] = "vectors"
          /\ boot[4] = "bss" /\ boot[5] = "stack" /\ boot[6] = "uart"
          /\ boot[7] = "ramfs" /\ boot[8] = "tasks" /\ boot[9] = "irq"
          /\ boot[10] = "timer" /\ boot[11] = "shell"
      BY <1>3 DEF Start, MainLab3, irq_init
    <2>5. \A i \in 10 .. 11 : i = 10 \/ i = 11
      OBVIOUS
    <2>6. \A i \in 10 .. 11 : boot[i] \notin {"dtb", "ramfs", "irq"}
      BY <2>4, <2>5
    <2>7. Len(boot) >= 9 /\ \A i \in 10 .. Len(boot) : boot[i] \notin {"dtb", "ramfs", "irq"}
      BY <2>3, <2>6
    <2> QED
      BY <2>2, <2>4, <2>7, LateStartOrdered, Zenon
  <1>4. ASSUME NEW boot, boot = Start \o MainLab4
        PROVE  Ordered(boot)
    <2>1. Start \in Seq(Steps) /\ MainLab4 \in Seq(Steps)
      BY DEF Start, MainLab4, irq_init, Steps
    <2>2. boot \in Seq(Steps)
      BY <1>4, <2>1, ConcatProperties
    <2>3. Len(boot) = 13
      BY <1>4 DEF Start, MainLab4, irq_init
    <2>4. /\ boot[1] = "dtb" /\ boot[2] = "el1" /\ boot[3] = "vectors"
          /\ boot[4] = "bss" /\ boot[5] = "stack" /\ boot[6] = "uart"
          /\ boot[7] = "ramfs" /\ boot[8] = "tasks" /\ boot[9] = "irq"
          /\ boot[10] = "timer" /\ boot[11] = "buddy" /\ boot[12] = "pools"
          /\ boot[13] = "shell"
      BY <1>4 DEF Start, MainLab4, irq_init
    <2>5. \A i \in 10 .. 13 : i = 10 \/ i = 11 \/ i = 12 \/ i = 13
      OBVIOUS
    <2>6. \A i \in 10 .. 13 : boot[i] \notin {"dtb", "ramfs", "irq"}
      BY <2>4, <2>5
    <2>7. Len(boot) >= 9 /\ \A i \in 10 .. Len(boot) : boot[i] \notin {"dtb", "ramfs", "irq"}
      BY <2>3, <2>6
    <2> QED
      BY <2>2, <2>4, <2>7, LateStartOrdered, Zenon
  <1>5. ASSUME NEW boot, boot = Start \o Main
        PROVE  Ordered(boot)
    <2>1. Start \in Seq(Steps) /\ Main \in Seq(Steps)
      BY DEF Start, Main, irq_init, Steps
    <2>2. boot \in Seq(Steps)
      BY <1>5, <2>1, ConcatProperties
    <2>3. Len(boot) = 14
      BY <1>5 DEF Start, Main, irq_init
    <2>4. /\ boot[1] = "dtb" /\ boot[2] = "el1" /\ boot[3] = "vectors"
          /\ boot[4] = "bss" /\ boot[5] = "stack" /\ boot[6] = "uart"
          /\ boot[7] = "ramfs" /\ boot[8] = "tasks" /\ boot[9] = "irq"
          /\ boot[10] = "timer" /\ boot[11] = "buddy" /\ boot[12] = "pools"
          /\ boot[13] = "thread" /\ boot[14] = "shell"
      BY <1>5 DEF Start, Main, irq_init
    <2>5. \A i \in 10 .. 14 : i = 10 \/ i = 11 \/ i = 12 \/ i = 13 \/ i = 14
      OBVIOUS
    <2>6. \A i \in 10 .. 14 : boot[i] \notin {"dtb", "ramfs", "irq"}
      BY <2>4, <2>5
    <2>7. Len(boot) >= 9 /\ \A i \in 10 .. Len(boot) : boot[i] \notin {"dtb", "ramfs", "irq"}
      BY <2>3, <2>6
    <2> QED
      BY <2>2, <2>4, <2>7, LateStartOrdered, Zenon
  <1> QED
    BY <1>1, <1>2, <1>3, <1>4, <1>5 DEF Boots

\* k steps of boot have been made.
Made(boot, k) ==
  /\ todo \in Seq(Steps) /\ Len(todo) = Len(boot) - k
  /\ \A i \in 1 .. Len(todo) : todo[i] = boot[k + i]
  /\ ready = {boot[j] : j \in 1 .. k}
  /\ IF k = 0 THEN x0 = "dtb" ELSE boot[1] = "dtb" => dtb_addr = "dtb"

\* The address is in x0, then in the bootloader's variable, then in x0 again,
\* then in the kernel's variable.
AddressKept ==
  /\ stage \in {"relocate", "dtb"} => x0 = "dtb"
  /\ stage \in {"bss", "uart", "prompt", "size", "ready", "raw", "jump"} => dtb_addr = "dtb"
  /\ stage # "kernel" => ready = {}
  /\ stage = "kernel" => \E boot \in Boots, k \in Nat : k <= Len(boot) /\ Made(boot, k)

LEMMA MainKeepsAddress ==
  ASSUME AddressKept, main
  PROVE  AddressKept'
  <1>1. stage = "kernel" /\ stage' = "kernel" /\ todo # <<>>
    BY DEF main
  <1>2. PICK boot \in Boots, k \in Nat : k <= Len(boot) /\ Made(boot, k)
    BY <1>1 DEF AddressKept
  <1>3. boot \in Seq(Steps) /\ Len(boot) \in Nat /\ Ordered(boot)
    BY StartsOrdered, LenProperties DEF Ordered
  <1> DEFINE step == Head(todo)
  <1>4. /\ todo' = Tail(todo) /\ ready' = ready \cup {step}
        /\ dtb_addr' = IF step = "dtb" THEN x0 ELSE dtb_addr
    BY DEF main
  <1>5. todo \in Seq(Steps) /\ Len(todo) \in Nat /\ Len(todo) # 0 /\ step = todo[1]
    BY <1>1, <1>2, EmptySeq, LenProperties DEF Made
  <1> HIDE DEF step
  <1>6. k + 1 <= Len(boot) /\ 1 \in 1 .. Len(todo) /\ step = boot[k + 1]
    BY <1>2, <1>3, <1>5 DEF Made
  <1>7. Made(boot, k + 1)'
    <2>1. /\ todo' \in Seq(Steps) /\ Len(todo') = Len(todo) - 1
          /\ \A i \in 1 .. Len(todo') : todo'[i] = todo[i + 1]
      BY <1>1, <1>4, <1>5, HeadTailProperties
    <2>2. Len(todo') = Len(boot) - (k + 1)
      BY <1>2, <1>3, <2>1 DEF Made
    <2>3. ASSUME NEW i \in 1 .. Len(todo')
          PROVE  todo'[i] = boot[(k + 1) + i]
      <3>1. i + 1 \in 1 .. Len(todo) /\ k + (i + 1) = (k + 1) + i
        BY <1>5, <2>1
      <3> QED
        BY <1>2, <2>1, <3>1 DEF Made
    <2>4. ready' = {boot[j] : j \in 1 .. k + 1}
      <3>1. \A j : j \in 1 .. k + 1 <=> j \in 1 .. k \/ j = k + 1
        OBVIOUS
      <3> QED
        BY <1>2, <1>4, <1>6, <3>1 DEF Made
    <2>5. boot[1] = "dtb" => dtb_addr' = "dtb"
      <3>1. step = "dtb" => k = 0
        <4>1. k + 1 \in 1 .. Len(boot)
          BY <1>3, <1>6
        <4>2. \A i \in 1 .. Len(boot) : boot[i] = "dtb" => i = 1
          BY <1>3 DEF Ordered
        <4>3. boot[k + 1] = "dtb" => k + 1 = 1
          BY <4>1, <4>2
        <4> QED
          BY <1>6, <4>3
      <3>2. k = 0 => step = boot[1]
        BY <1>6
      <3> QED
        BY <1>2, <1>4, <3>1, <3>2 DEF Made
    <2>6. k + 1 # 0
      OBVIOUS
    <2> QED
      BY <2>1, <2>2, <2>3, <2>4, <2>5, <2>6 DEF Made
  <1> QED
    BY <1>1, <1>6, <1>7 DEF AddressKept

LEMMA AddressStays == AddressKept /\ [LoaderNext]_loader_vars => AddressKept'
  <1> SUFFICES ASSUME AddressKept, [LoaderNext]_loader_vars
               PROVE  AddressKept'
    OBVIOUS
  <1>1. CASE SendSize \/ SendImage \/ Deliver \/ UNCHANGED loader_vars
    <2>1. UNCHANGED <<stage, x0, dtb_addr, todo, ready>>
      BY <1>1 DEF SendSize, SendImage, Deliver, board, loader_vars
    <2> QED
      BY <2>1 DEF AddressKept, Made
  <1>2. CASE PowerOn \/ PowerOff
    BY <1>2 DEF AddressKept, PowerOn, PowerOff
  <1>3. CASE Relocate \/ dtb_init \/ bss_init \/ StartLoader
    BY <1>3 DEF AddressKept, Relocate, dtb_init, bss_init, StartLoader
  <1>4. CASE recieve_and_load_img
    <2> DEFINE Reads == {"prompt", "size", "ready", "raw", "jump"}
    <2>1. stage \in Reads /\ stage' \in Reads /\ UNCHANGED <<dtb_addr, ready>>
      BY <1>4 DEF recieve_and_load_img, Printed, ReadSize, ReadImage,
                  get_char, get_size
    <2> QED
      BY <2>1 DEF AddressKept
  <1>5. CASE jump_to_kernel
    <2>1. /\ stage' = "kernel" /\ x0' = "dtb" /\ ready' = {} /\ todo' \in Boots
      BY <1>5 DEF AddressKept, jump_to_kernel
    <2>2. todo' \in Seq(Steps) /\ Len(todo') \in Nat
      BY <2>1, StartsOrdered, LenProperties DEF Ordered
    <2>3. Made(todo, 0)'
      BY <2>1, <2>2 DEF Made
    <2>4. \E boot \in Boots, k \in Nat : k <= Len(boot) /\ Made(boot, k)'
      <3>1. 0 \in Nat /\ 0 <= Len(todo')
        BY <2>2
      <3> QED
        BY <2>1, <2>3, <3>1
    <2> QED
      BY <2>1, <2>4 DEF AddressKept
  <1>6. CASE main
    BY <1>6, MainKeepsAddress
  <1> QED
    BY <1>1, <1>2, <1>3, <1>4, <1>5, <1>6 DEF LoaderNext, Run, bootloader_main

\* Through the bootloader's relocation, which overwrites its variables, its C
\* code, which overwrites x0, and the jump, the address of the device tree
\* reaches the kernel that parses it; irq_init comes when the stack, the
\* vectors and the task queue are there.  In every lab's start, for every
\* image, line and FIFO, and however often the board is switched off.
THEOREM KernelFindsAll == LoaderSpec => []KernelComesUp
  <1>1. LoaderInit => AddressKept
    BY DEF LoaderInit, AddressKept
  <1>2. AddressKept /\ [LoaderNext]_loader_vars => AddressKept'
    BY AddressStays
  <1>3. AddressKept => KernelComesUp
    <2> SUFFICES ASSUME AddressKept, ready # {}
                 PROVE  KernelComesUp
      BY DEF KernelComesUp
    <2>1. PICK boot \in Boots, k \in Nat : k <= Len(boot) /\ Made(boot, k)
      BY DEF AddressKept
    <2>2. Ordered(boot) /\ Len(boot) \in Nat
      BY StartsOrdered, LenProperties DEF Ordered
    <2>3. ready = {boot[j] : j \in 1 .. k} /\ 1 .. k \subseteq 1 .. Len(boot)
      BY <2>1, <2>2 DEF Made
    <2>4. "ramfs" \in ready => dtb_addr = "dtb"
      <3>1. "ramfs" \in ready => boot[1] = "dtb" /\ k # 0
        BY <2>2, <2>3 DEF Ordered
      <3> QED
        BY <2>1, <3>1 DEF Made
    <2>5. "irq" \in ready => {"el1", "vectors", "bss", "stack", "tasks"} \subseteq ready
      <3>1. ASSUME NEW i \in 1 .. k, boot[i] = "irq"
            PROVE  BeforeIrq \subseteq ready
        <4>1. i \in 1 .. Len(boot) /\ 1 .. i - 1 \subseteq 1 .. k
          BY <2>3
        <4>2. BeforeIrq \subseteq {boot[j] : j \in 1 .. i - 1}
          BY <2>2, <3>1, <4>1 DEF Ordered
        <4> QED
          BY <2>3, <4>1, <4>2
      <3> QED
        BY <2>3, <3>1 DEF BeforeIrq
    <2> QED
      BY <2>4, <2>5 DEF KernelComesUp
  <1> QED
    BY <1>1, <1>2, <1>3, PTL DEF LoaderSpec

-----------------------------------------------------------------------------
(* Numbers written and read back.                                          *)

LEMMA Remainder ==
  ASSUME NEW x \in Nat, NEW w \in Nat, w # 0
  PROVE  x % w \in Nat /\ (x < w => x % w = x)
  OBVIOUS

(* What Number computes, digit by digit.                                   *)
LEMMA NumberIs ==
  ASSUME NEW base \in Nat, NEW d \in Seq(Nat)
  PROVE  \E v \in [0 .. Len(d) -> Nat] :
           /\ v[0] = 0 /\ \A k \in 1 .. Len(d) : v[k] = (v[k - 1] * base + d[k]) % Width
           /\ Number(base, d) = v[Len(d)]
  <1> DEFINE n == Len(d)
             Unfolded(f) == [k \in 0 .. n |-> IF k = 0 THEN 0 ELSE (f[k - 1] * base + d[k]) % Width]
             h == CHOOSE f : f = Unfolded(f)
  <1>1. n \in Nat /\ \A k \in 1 .. n : d[k] \in Nat
    OBVIOUS
  <1>2. Number(base, d) = h[n]
    BY DEF Number
  <1> HIDE DEF n
  <1>3. ASSUME NEW k \in 1 .. n, NEW x \in Nat
        PROVE  (x * base + d[k]) % Width \in Nat
    <2>1. x * base + d[k] \in Nat
      BY <1>1
    <2> QED
      BY <2>1, WidthAssumption, Remainder
  <1> DEFINE Good(f, m) ==
               /\ f \in [0 .. m -> Nat] /\ f[0] = 0
               /\ \A k \in 1 .. m : f[k] = (f[k - 1] * base + d[k]) % Width
             T == {m \in Nat : m <= n => \E f : Good(f, m)}
  <1> HIDE DEF Good
  <1>4. 0 \in T
    <2>1. Good([k \in 0 .. 0 |-> 0], 0)
      BY DEF Good
    <2> QED
      BY <2>1
  <1>5. ASSUME NEW m \in Nat, m \in T
        PROVE  m + 1 \in T
    <2> SUFFICES ASSUME m + 1 <= n
                 PROVE  \E f : Good(f, m + 1)
      OBVIOUS
    <2>1. PICK f : Good(f, m)
      BY <1>1, <1>5
    <2> DEFINE x == (f[m] * base + d[m + 1]) % Width
    <2>2. f[m] \in Nat /\ m + 1 \in 1 .. n
      BY <2>1 DEF Good
    <2>3. x \in Nat
      BY <1>3, <2>2
    <2> HIDE DEF x
    <2> DEFINE g == [k \in 0 .. m + 1 |-> IF k = m + 1 THEN x ELSE f[k]]
    <2>4. g \in [0 .. m + 1 -> Nat] /\ g[0] = 0
      BY <2>1, <2>3 DEF Good
    <2>5. ASSUME NEW k \in 1 .. m + 1
          PROVE  g[k] = (g[k - 1] * base + d[k]) % Width
      <3>1. CASE k = m + 1
        <4>1. g[m + 1] = x /\ g[m] = f[m] /\ k - 1 = m
          BY <3>1
        <4> QED
          BY <3>1, <4>1 DEF x
      <3>2. CASE k # m + 1
        <4>1. k \in 1 .. m /\ g[k] = f[k] /\ g[k - 1] = f[k - 1]
          BY <3>2
        <4> QED
          BY <4>1, <2>1 DEF Good
      <3> QED
        BY <3>1, <3>2
    <2> HIDE DEF g
    <2>6. Good(g, m + 1)
      BY <2>4, <2>5 DEF Good
    <2> QED
      BY <2>6
  <1>6. \E f : f = Unfolded(f)
    <2>1. Nat \subseteq T
      BY <1>4, <1>5, SetInduction
    <2>2. n \in T /\ n <= n
      BY <1>1, <2>1
    <2>3. PICK f : Good(f, n)
      BY <2>2
    <2>4. f = Unfolded(f)
      BY <1>1, <2>3 DEF Good
    <2> QED
      BY <2>4
  <1> HIDE DEF T
  <1>7. h = Unfolded(h)
    BY <1>6
  <1> HIDE DEF h
  <1>8. /\ h[0] = 0 /\ DOMAIN h = 0 .. n
        /\ \A k \in 1 .. n : h[k] = (h[k - 1] * base + d[k]) % Width
    BY <1>1, <1>7
  <1>9. \A k \in 0 .. n : h[k] \in Nat
    <2> DEFINE U == {k \in Nat : k \in 0 .. n => h[k] \in Nat}
    <2>1. 0 \in U
      BY <1>8
    <2>2. ASSUME NEW k \in Nat, k \in U
          PROVE  k + 1 \in U
      <3> SUFFICES ASSUME k + 1 \in 0 .. n
                   PROVE  h[k + 1] \in Nat
        OBVIOUS
      <3>1. k + 1 \in 1 .. n /\ h[k] \in Nat /\ (k + 1) - 1 = k
        BY <1>1, <2>2
      <3>2. (h[k] * base + d[k + 1]) % Width \in Nat
        BY <1>3, <3>1
      <3> QED
        BY <1>8, <3>1, <3>2
    <2>3. Nat \subseteq U
      BY <2>1, <2>2, SetInduction
    <2> QED
      BY <1>1, <2>3
  <1>10. h \in [0 .. n -> Nat]
    <2>1. h = [k \in 0 .. n |-> h[k]]
      BY <1>7
    <2> QED
      BY <1>9, <2>1
  <1> QED
    BY <1>2, <1>8, <1>10 DEF n

LEMMA NumberGrows ==
  ASSUME NEW base \in Nat, NEW d \in Seq(Nat), NEW c \in Nat
  PROVE  /\ Number(base, d) \in Nat /\ Number(base, <<>>) = 0
         /\ Number(base, Append(d, c)) = (Number(base, d) * base + c) % Width
  <1>1. Number(base, <<>>) = 0
    <2>1. <<>> \in Seq(Nat) /\ Len(<<>>) = 0
      OBVIOUS
    <2> QED
      BY <2>1, NumberIs
  <1> SUFFICES ASSUME NEW n, n = Len(d), NEW a, a = Append(d, c)
               PROVE  /\ Number(base, d) \in Nat
                      /\ Number(base, a) = (Number(base, d) * base + c) % Width
    BY <1>1
  <1>2. n \in Nat /\ a \in Seq(Nat) /\ Len(a) = n + 1 /\ a[n + 1] = c
        /\ \A k \in 1 .. n : a[k] = d[k]
    BY AppendProperties
  <1>3. PICK v \in [0 .. n -> Nat] :
          /\ v[0] = 0 /\ \A k \in 1 .. n : v[k] = (v[k - 1] * base + d[k]) % Width
          /\ Number(base, d) = v[n]
    BY NumberIs
  <1>4. PICK w \in [0 .. n + 1 -> Nat] :
          /\ w[0] = 0 /\ \A k \in 1 .. n + 1 : w[k] = (w[k - 1] * base + a[k]) % Width
          /\ Number(base, a) = w[n + 1]
    <2>1. Len(a) = n + 1
      BY <1>2
    <2>2. \E w \in [0 .. Len(a) -> Nat] :
            /\ w[0] = 0 /\ \A k \in 1 .. Len(a) : w[k] = (w[k - 1] * base + a[k]) % Width
            /\ Number(base, a) = w[Len(a)]
      BY <1>2, NumberIs
    <2> QED
      BY ONLY <2>1, <2>2
  <1>5. w[n] = v[n]
    <2> DEFINE T == {k \in Nat : k \in 0 .. n => w[k] = v[k]}
    <2>1. 0 \in T
      BY <1>3, <1>4
    <2>2. ASSUME NEW k \in Nat, k \in T
          PROVE  k + 1 \in T
      <3> SUFFICES ASSUME k + 1 \in 0 .. n
                   PROVE  w[k + 1] = v[k + 1]
        OBVIOUS
      <3>1. k + 1 \in 1 .. n /\ k + 1 \in 1 .. n + 1 /\ w[k] = v[k] /\ (k + 1) - 1 = k
        BY <1>2, <2>2
      <3>2. w[k + 1] = (w[k] * base + a[k + 1]) % Width /\ v[k + 1] = (v[k] * base + d[k + 1]) % Width
        BY <1>3, <1>4, <3>1
      <3> QED
        BY <1>2, <3>1, <3>2
    <2>3. Nat \subseteq T
      BY <2>1, <2>2, SetInduction
    <2> QED
      BY <1>2, <2>3
  <1>6. n + 1 \in 1 .. n + 1 /\ (n + 1) - 1 = n /\ n \in 0 .. n
    BY <1>2
  <1>7. w[n + 1] = (w[n] * base + a[n + 1]) % Width
    BY <1>4, <1>6
  <1> QED
    BY <1>2, <1>3, <1>4, <1>5, <1>6, <1>7

DigitChar == 48 .. 57

LEMMA DigitsGrow ==
  ASSUME NEW s \in Seq(DigitChar), NEW c \in DigitChar
  PROVE  /\ Digits(s) \in Seq(Nat) /\ c - Char(0) \in Nat /\ IsNumber(s)
         /\ Digits(Append(s, c)) = Append(Digits(s), c - Char(0))
         /\ Digits(<<c>>) = Append(<<>>, c - Char(0))
  <1> USE DEF DigitChar, Char
  <1>1. \A t \in Seq(DigitChar) :
          /\ Digits(t) \in Seq(Nat) /\ Len(Digits(t)) = Len(t)
          /\ \A i \in 1 .. Len(t) : Digits(t)[i] = t[i] - 48
    <2> SUFFICES ASSUME NEW t \in Seq(DigitChar)
                 PROVE  /\ Digits(t) \in Seq(Nat) /\ Len(Digits(t)) = Len(t)
                        /\ \A i \in 1 .. Len(t) : Digits(t)[i] = t[i] - 48
      OBVIOUS
    <2>1. Len(t) \in Nat /\ DOMAIN t = 1 .. Len(t) /\ \A i \in 1 .. Len(t) : t[i] \in 48 .. 57
      OBVIOUS
    <2>2. Digits(t) = [i \in 1 .. Len(t) |-> t[i] - 48]
      BY <2>1 DEF Digits
    <2>3. Digits(t) \in [1 .. Len(t) -> Nat]
      BY <2>1, <2>2
    <2> QED
      BY <2>1, <2>2, <2>3, SeqDef, LenProperties
  <1>2. c - Char(0) \in Nat
    OBVIOUS
  <1>3. IsNumber(s)
    <2>1. DOMAIN s = 1 .. Len(s) /\ \A i \in 1 .. Len(s) : s[i] \in 48 .. 57
      OBVIOUS
    <2> QED
      BY <2>1 DEF IsNumber, IsDigit
  <1>4. Digits(Append(s, c)) = Append(Digits(s), c - Char(0))
    <2>1. /\ Append(s, c) \in Seq(DigitChar) /\ Len(Append(s, c)) = Len(s) + 1
          /\ Append(s, c)[Len(s) + 1] = c /\ \A i \in 1 .. Len(s) : Append(s, c)[i] = s[i]
      BY AppendProperties
    <2> DEFINE m == Digits(Append(s, c))
    <2>2. /\ m \in Seq(Nat) /\ Len(m) = Len(s) + 1
          /\ \A i \in 1 .. Len(s) + 1 : m[i] = Append(s, c)[i] - 48
      BY <1>1, <2>1
    <2>3. Digits(s) \in Seq(Nat) /\ Len(Digits(s)) = Len(s) /\ Len(s) \in Nat
          /\ \A i \in 1 .. Len(s) : Digits(s)[i] = s[i] - 48
      BY <1>1
    <2> HIDE DEF m
    <2>4. /\ \A i \in 1 .. Len(s) : m[i] = Digits(s)[i]
          /\ m[Len(s) + 1] = c - 48
      BY <2>1, <2>2, <2>3
    <2>5. m = Append(Digits(s), c - 48)
      BY <1>2, <2>2, <2>3, <2>4, AppendIs
    <2> QED
      BY <2>5 DEF m
  <1>5. Digits(<<c>>) = Append(<<>>, c - Char(0))
    BY DEF Digits
  <1> QED
    BY <1>1, <1>2, <1>3, <1>4, <1>5

LEMMA NoNulInDigits ==
  ASSUME NEW s \in Seq(DigitChar)
  PROVE  UpToNul(s) = s
  <1>1. PICK end \in 0 .. Len(s) :
           /\ UpToNul(s) = SubSeq(s, 1, end)
           /\ end < Len(s) => s[end + 1] = 0
    BY StringEnds
  <1>2. Len(s) \in Nat /\ \A i \in 1 .. Len(s) : s[i] # 0
    BY LenProperties, ElementOfSeq DEF DigitChar
  <1>3. end = Len(s)
    BY <1>1, <1>2
  <1> QED
    BY <1>1, <1>2, <1>3, SubSeqProperties

(* The host writes a number in decimal, the board reads it back.           *)
LEMMA NumberComesBack ==
  ASSUME NEW n \in Nat, n < Width
  PROVE  int2char(n) \in Seq(DigitChar) /\ parse2int(int2char(n)) = <<n>>
  <1> DEFINE Unfolded(f) == [v \in 0 .. n |-> IF v < 10 THEN <<Char(v)>>
                                          ELSE Append(f[v \div 10], Char(v % 10))]
             h == CHOOSE f : f = Unfolded(f)
             Good(f, m) ==
               /\ f \in [0 .. m -> Seq(DigitChar)]
               /\ \A v \in 0 .. m : f[v] = IF v < 10 THEN <<Char(v)>>
                                           ELSE Append(f[v \div 10], Char(v % 10))
             T == {m \in Nat : m <= n => \E f : Good(f, m)}
  <1>1. int2char(n) = h[n]
    <2>1. ~ (n < 0)
      OBVIOUS
    <2> QED
      BY <2>1 DEF int2char
  <1>2. ASSUME NEW v \in Nat
        PROVE  /\ v % 10 \in 0 .. 9 /\ v = (v \div 10) * 10 + (v % 10) /\ v \div 10 \in Nat
               /\ v >= 10 => v \div 10 < v
               /\ v < 10 => Char(v) \in DigitChar
               /\ Char(v % 10) \in DigitChar
    BY DEF Char, DigitChar
  <1> HIDE DEF Good
  <1>3. 0 \in T
    <2>1. <<Char(0)>> \in Seq(DigitChar)
      BY DEF Char, DigitChar
    <2>2. Good([v \in 0 .. 0 |-> <<Char(0)>>], 0)
      BY <2>1 DEF Good
    <2> QED
      BY <2>2
  <1>4. ASSUME NEW m \in Nat, m \in T
        PROVE  m + 1 \in T
    <2> SUFFICES ASSUME m + 1 <= n
                 PROVE  \E f : Good(f, m + 1)
      OBVIOUS
    <2>1. PICK f : Good(f, m)
      BY <1>4
    <2> DEFINE x == IF m + 1 < 10 THEN <<Char(m + 1)>>
                    ELSE Append(f[(m + 1) \div 10], Char((m + 1) % 10))
    <2>2. x \in Seq(DigitChar)
      <3>1. CASE m + 1 < 10
        <4>1. Char(m + 1) \in DigitChar
          BY <1>2, <3>1
        <4> QED
          BY <3>1, <4>1
      <3>2. CASE ~ (m + 1 < 10)
        <4>1. (m + 1) \div 10 \in 0 .. m /\ Char((m + 1) % 10) \in DigitChar
          BY <1>2, <3>2
        <4>2. f[(m + 1) \div 10] \in Seq(DigitChar)
          BY <2>1, <4>1 DEF Good
        <4> QED
          BY <3>2, <4>1, <4>2, AppendProperties
      <3> QED
        BY <3>1, <3>2
    <2> HIDE DEF x
    <2> DEFINE g == [v \in 0 .. m + 1 |-> IF v = m + 1 THEN x ELSE f[v]]
    <2>3. g \in [0 .. m + 1 -> Seq(DigitChar)]
      BY <2>1, <2>2 DEF Good
    <2>4. ASSUME NEW v \in 0 .. m + 1
          PROVE  g[v] = IF v < 10 THEN <<Char(v)>> ELSE Append(g[v \div 10], Char(v % 10))
      <3>1. v \in Nat /\ (v >= 10 => v \div 10 \in 0 .. m /\ v \div 10 # m + 1)
        BY <1>2
      <3>2. v >= 10 => g[v \div 10] = f[v \div 10]
        BY <3>1
      <3>3. CASE v = m + 1
        BY <3>1, <3>2, <3>3 DEF x
      <3>4. CASE v # m + 1
        <4>1. v \in 0 .. m /\ g[v] = f[v]
          BY <3>4
        <4>2. f[v] = IF v < 10 THEN <<Char(v)>> ELSE Append(f[v \div 10], Char(v % 10))
          BY <2>1, <4>1 DEF Good
        <4> QED
          BY <3>1, <3>2, <4>1, <4>2
      <3> QED
        BY <3>3, <3>4
    <2> HIDE DEF g
    <2>5. Good(g, m + 1)
      BY <2>3, <2>4 DEF Good
    <2> QED
      BY <2>5
  <1>5. \E f : f = Unfolded(f)
    <2>1. Nat \subseteq T
      BY <1>3, <1>4, SetInduction
    <2>2. n \in T /\ n <= n
      BY <2>1
    <2>3. PICK f : Good(f, n)
      BY <2>2
    <2>4. f = Unfolded(f)
      BY <2>3 DEF Good
    <2> QED
      BY <2>4
  <1> HIDE DEF T
  <1>6. h = Unfolded(h)
    BY <1>5
  <1> HIDE DEF h
  <1>7. \A v \in 0 .. n : h[v] = IF v < 10 THEN <<Char(v)>> ELSE Append(h[v \div 10], Char(v % 10))
    BY <1>6
  <1> DEFINE Right(v) == h[v] \in Seq(DigitChar) /\ Number(10, Digits(h[v])) = v
             R == {m \in Nat : \A v \in 0 .. m : v <= n => Right(v)}
  <1> HIDE DEF Right
  <1>8. ASSUME NEW v \in 0 .. n, \A u \in 0 .. v - 1 : Right(u)
        PROVE  Right(v)
    <2>1. v \in Nat /\ v <= n /\ v < Width
      BY WidthAssumption
    <2>2. CASE v < 10
      <3>1. h[v] = <<Char(v)>> /\ Char(v) \in DigitChar /\ Char(v) - Char(0) = v
        <4>1. h[v] = <<Char(v)>>
          BY <1>7, <2>2
        <4>2. Char(v) - Char(0) = v
          BY <2>1 DEF Char
        <4> QED
          BY <1>2, <2>1, <2>2, <4>1, <4>2
      <3>2. <<>> \in Seq(DigitChar) /\ <<>> \in Seq(Nat)
        OBVIOUS
      <3>3. Digits(h[v]) = Append(<<>>, v)
        BY <3>1, <3>2, DigitsGrow
      <3>4. Number(10, <<>>) = 0 /\ Number(10, Append(<<>>, v)) = (Number(10, <<>>) * 10 + v) % Width
        BY <2>1, <3>2, NumberGrows
      <3>5. (0 * 10 + v) % Width = v
        BY <2>1, WidthAssumption, Remainder
      <3>6. <<Char(v)>> \in Seq(DigitChar)
        BY <3>1
      <3> QED
        BY <3>1, <3>3, <3>4, <3>5, <3>6 DEF Right
    <2>3. CASE ~ (v < 10)
      <3> DEFINE u == v \div 10
                 r == v % 10
      <3>1. u \in 0 .. v - 1 /\ r \in 0 .. 9 /\ v = u * 10 + r /\ Char(r) \in DigitChar
            /\ Char(r) - Char(0) = r
        BY <1>2, <2>1, <2>3 DEF Char
      <3>2. h[v] = Append(h[u], Char(r))
        BY <1>7, <2>3
      <3> HIDE DEF u, r
      <3>3. h[u] \in Seq(DigitChar) /\ Number(10, Digits(h[u])) = u
        BY <1>8, <3>1 DEF Right
      <3>4. /\ Digits(h[u]) \in Seq(Nat)
            /\ Digits(Append(h[u], Char(r))) = Append(Digits(h[u]), Char(r) - Char(0))
        BY <3>1, <3>3, DigitsGrow
      <3>5. Number(10, Append(Digits(h[u]), r)) = (u * 10 + r) % Width
        <4>1. r \in Nat
          BY <3>1
        <4>2. Number(10, Append(Digits(h[u]), r)) = (Number(10, Digits(h[u])) * 10 + r) % Width
          BY <3>4, <4>1, NumberGrows
        <4> QED
          BY <3>3, <4>2
      <3>6. v % Width = v
        BY <2>1, WidthAssumption, Remainder
      <3>7. h[v] \in Seq(DigitChar)
        BY <3>1, <3>2, <3>3, AppendProperties
      <3> QED
        BY <3>1, <3>2, <3>4, <3>5, <3>6, <3>7 DEF Right
    <2> QED
      BY <2>2, <2>3
  <1>9. Right(n)
    <2>1. 0 \in R
      BY <1>8
    <2>2. ASSUME NEW m \in Nat, m \in R
          PROVE  m + 1 \in R
      <3>1. m + 1 <= n => Right(m + 1)
        BY <1>8, <2>2
      <3> QED
        BY <2>2, <3>1
    <2>3. Nat \subseteq R
      BY <2>1, <2>2, SetInduction
    <2> QED
      BY <2>3
  <1>10. IsNumber(h[n])
    <2>1. 48 \in DigitChar
      BY DEF DigitChar
    <2> QED
      BY <1>9, <2>1, DigitsGrow DEF Right
  <1>11. UpToNul(h[n]) = h[n]
    BY <1>9, NoNulInDigits DEF Right
  <1> QED
    BY <1>1, <1>9, <1>10, <1>11 DEF Right, parse2int

LEMMA HexDigitRead ==
  ASSUME NEW d \in 0 .. 15
  PROVE  HexValue(HexDigit(d)) = d
  <1>1. CASE d < 10
    <2>1. HexDigit(d) = 48 + d /\ IsDigit(48 + d) /\ ~ (48 + d \in 65 .. 70) /\ ~ (48 + d \in 97 .. 102)
      BY <1>1 DEF HexDigit, IsDigit, Char
    <2> QED
      BY <2>1 DEF HexValue, Char
  <1>2. CASE ~ (d < 10)
    <2>1. HexDigit(d) = 55 + d /\ ~IsDigit(55 + d) /\ 55 + d \in 65 .. 70 /\ ~ (55 + d \in 97 .. 102)
      BY <1>2 DEF HexDigit, IsDigit, Char
    <2> QED
      BY <2>1 DEF HexValue
  <1> QED
    BY <1>1, <1>2

(* cpio writes a size in eight hexadecimal digits, the kernel reads it.    *)
LEMMA SizeComesBack ==
  ASSUME NEW n \in Nat, IsSize(n)
  PROVE  hex2int(Hex8(n)) = n
  <1> DEFINE Unfolded(f) == [k \in 0 .. 8 |-> IF k = 0 THEN n ELSE f[k - 1] \div 16]
             left == CHOOSE f : f = Unfolded(f)
             d == [i \in DOMAIN Hex8(n) |-> HexValue(Hex8(n)[i])]
  <1>1. Hex8(n) = [k \in 1 .. 8 |-> HexDigit(left[8 - k] % 16)]
    BY DEF Hex8
  <1>2. \E f : f = Unfolded(f)
    <2> DEFINE n1 == n \div 16
               n2 == n1 \div 16
               n3 == n2 \div 16
               n4 == n3 \div 16
               n5 == n4 \div 16
               n6 == n5 \div 16
               n7 == n6 \div 16
               n8 == n7 \div 16
               f == [k \in 0 .. 8 |-> CASE k = 0 -> n [] k = 1 -> n1 [] k = 2 -> n2 [] k = 3 -> n3
                                        [] k = 4 -> n4 [] k = 5 -> n5 [] k = 6 -> n6
                                        [] k = 7 -> n7 [] k = 8 -> n8]
    <2> SUFFICES f = Unfolded(f)
      OBVIOUS
    <2>1. /\ f[0] = n /\ f[1] = n1 /\ f[2] = n2 /\ f[3] = n3 /\ f[4] = n4
          /\ f[5] = n5 /\ f[6] = n6 /\ f[7] = n7 /\ f[8] = n8 /\ DOMAIN f = 0 .. 8
          /\ f = [k \in 0 .. 8 |-> f[k]]
      OBVIOUS
    <2> HIDE DEF f
    <2>2. ASSUME NEW k \in 0 .. 8
          PROVE  f[k] = IF k = 0 THEN n ELSE f[k - 1] \div 16
      <3>1. k \in {0, 1, 2, 3, 4, 5, 6, 7, 8}
        OBVIOUS
      <3> QED
        BY <2>1, <3>1
    <2> QED
      BY <2>1, <2>2
  <1>3. left = Unfolded(left)
    BY <1>2
  <1> HIDE DEF left
  <1>4. /\ left[0] = n /\ left[1] = left[0] \div 16 /\ left[2] = left[1] \div 16
        /\ left[3] = left[2] \div 16 /\ left[4] = left[3] \div 16 /\ left[5] = left[4] \div 16
        /\ left[6] = left[5] \div 16 /\ left[7] = left[6] \div 16 /\ left[8] = left[7] \div 16
    BY <1>3
  <1>5. /\ \A k \in 0 .. 8 : left[k] \in Nat /\ left[k] <= n
        /\ left[8] = 0
    <2>1. n \div 268435456 < 16
      BY DEF IsSize
    <2>2. n < 4294967296
      BY <2>1, SMT
    <2>3. \A x \in Nat : x \div 16 \in Nat /\ (x \div 16) * 16 <= x /\ x \div 16 <= x
      OBVIOUS
    <2>4. left[1] \in Nat /\ left[1] * 16 <= left[0] /\ left[1] <= left[0]
      BY <1>4, <2>3
    <2>5. left[2] \in Nat /\ left[2] * 16 <= left[1] /\ left[2] <= left[1]
      BY <1>4, <2>3, <2>4
    <2>6. left[3] \in Nat /\ left[3] * 16 <= left[2] /\ left[3] <= left[2]
      BY <1>4, <2>3, <2>5
    <2>7. left[4] \in Nat /\ left[4] * 16 <= left[3] /\ left[4] <= left[3]
      BY <1>4, <2>3, <2>6
    <2>8. left[5] \in Nat /\ left[5] * 16 <= left[4] /\ left[5] <= left[4]
      BY <1>4, <2>3, <2>7
    <2>9. left[6] \in Nat /\ left[6] * 16 <= left[5] /\ left[6] <= left[5]
      BY <1>4, <2>3, <2>8
    <2>10. left[7] \in Nat /\ left[7] * 16 <= left[6] /\ left[7] <= left[6]
      BY <1>4, <2>3, <2>9
    <2>11. left[8] \in Nat /\ left[8] * 16 <= left[7] /\ left[8] <= left[7]
      BY <1>4, <2>3, <2>10
    <2>12. left[0] = n
      BY <1>4
    <2>13. left[8] * 4294967296 <= left[0]
      BY <2>4, <2>5, <2>6, <2>7, <2>8, <2>9, <2>10, <2>11, <2>12, SMT
    <2>14. left[8] = 0
      BY <2>2, <2>11, <2>12, <2>13, SMT
    <2>15. \A k \in 0 .. 8 : k \in {0, 1, 2, 3, 4, 5, 6, 7, 8}
      OBVIOUS
    <2> QED
      BY <2>4, <2>5, <2>6, <2>7, <2>8, <2>9, <2>10, <2>11, <2>12, <2>14, <2>15
  <1>6. \A k \in 1 .. 8 : /\ left[8 - k] \in Nat /\ left[9 - k] \in Nat /\ left[8 - k] <= n
                          /\ left[9 - k] = left[8 - k] \div 16 /\ left[8 - k] % 16 \in 0 .. 15
                          /\ left[8 - k] = left[9 - k] * 16 + (left[8 - k] % 16)
    <2> SUFFICES ASSUME NEW k \in 1 .. 8
                 PROVE  /\ left[8 - k] \in Nat /\ left[9 - k] \in Nat /\ left[8 - k] <= n
                        /\ left[9 - k] = left[8 - k] \div 16 /\ left[8 - k] % 16 \in 0 .. 15
                        /\ left[8 - k] = left[9 - k] * 16 + (left[8 - k] % 16)
      OBVIOUS
    <2>1. 8 - k \in 0 .. 8 /\ 9 - k \in 0 .. 8 /\ 9 - k # 0 /\ (9 - k) - 1 = 8 - k
      OBVIOUS
    <2>2. left[9 - k] = left[8 - k] \div 16
      BY <1>3, <2>1
    <2>3. left[8 - k] \in Nat /\ left[9 - k] \in Nat /\ left[8 - k] <= n
      BY <1>5, <2>1
    <2>4. \A x \in Nat : x % 16 \in 0 .. 15 /\ x = (x \div 16) * 16 + (x % 16)
      OBVIOUS
    <2> QED
      BY <2>2, <2>3, <2>4
  <1>7. /\ d = [i \in 1 .. 8 |-> left[8 - i] % 16]
        /\ d \in Seq(Nat) /\ Len(d) = 8
    <2>1. DOMAIN Hex8(n) = 1 .. 8 /\ \A i \in 1 .. 8 : Hex8(n)[i] = HexDigit(left[8 - i] % 16)
      BY <1>1
    <2>2. \A i \in 1 .. 8 : HexValue(Hex8(n)[i]) = left[8 - i] % 16
      BY <1>6, <2>1, HexDigitRead
    <2>3. d = [i \in 1 .. 8 |-> left[8 - i] % 16]
      BY <2>1, <2>2
    <2> HIDE DEF d
    <2>4. d \in [1 .. 8 -> Nat]
      <3>1. \A i \in 1 .. 8 : left[8 - i] % 16 \in Nat
        <4>1. \A x \in 0 .. 15 : x \in Nat
          OBVIOUS
        <4>2. TAKE i \in 1 .. 8
        <4>3. (left[8 - i] % 16) \in 0 .. 15
          BY <1>6
        <4> HIDE DEF left
        <4> QED
          BY <4>1, <4>3, Zenon
      <3> QED
        BY <2>3, <3>1
    <2> QED
      BY <2>3, <2>4, SeqDef, LenProperties
  <1>8. hex2int(Hex8(n)) = LET value == Number(16, d)
                           IN  IF value < Width \div 2 THEN value ELSE value - Width
    BY DEF hex2int
  <1> HIDE DEF d
  <1>9. Number(16, d) = n
    <2>1. PICK v \in [0 .. 8 -> Nat] :
            /\ v[0] = 0 /\ \A k \in 1 .. 8 : v[k] = (v[k - 1] * 16 + d[k]) % Width
            /\ Number(16, d) = v[8]
      <3>1. \E v \in [0 .. Len(d) -> Nat] :
              /\ v[0] = 0 /\ \A k \in 1 .. Len(d) : v[k] = (v[k - 1] * 16 + d[k]) % Width
              /\ Number(16, d) = v[Len(d)]
        BY <1>7, NumberIs
      <3> QED
        BY ONLY <1>7, <3>1
    <2>2. ASSUME NEW k \in 1 .. 8, v[k - 1] = left[9 - k]
          PROVE  v[k] = left[8 - k]
      <3>1. v[k] = (left[9 - k] * 16 + (left[8 - k] % 16)) % Width
        BY <1>7, <2>1, <2>2
      <3>2. v[k] = left[8 - k] % Width
        BY <1>6, <3>1
      <3>3. left[8 - k] \in Nat /\ left[8 - k] < Width
        <4>1. left[8 - k] \in Nat /\ left[8 - k] <= n
          BY <1>6
        <4>2. n < Width \div 2 /\ Width \in Nat
          BY WidthAssumption DEF IsSize
        <4>3. Width \div 2 <= Width
          BY <4>2
        <4> QED
          BY <4>1, <4>2, <4>3
      <3> QED
        BY <3>2, <3>3, WidthAssumption, Remainder
    <2>3. /\ v[1] = left[7]
      BY <1>5, <2>1, <2>2
    <2>4. v[2] = left[6]
      BY <2>2, <2>3
    <2>5. v[3] = left[5]
      BY <2>2, <2>4
    <2>6. v[4] = left[4]
      BY <2>2, <2>5
    <2>7. v[5] = left[3]
      BY <2>2, <2>6
    <2>8. v[6] = left[2]
      BY <2>2, <2>7
    <2>9. v[7] = left[1]
      BY <2>2, <2>8
    <2>10. v[8] = left[0]
      BY <2>2, <2>9
    <2> QED
      BY <1>4, <2>1, <2>10
  <1> QED
    BY <1>8, <1>9, SMT DEF IsSize

-----------------------------------------------------------------------------
(* The bootloader: types, and the image.                                   *)

Starting == {"off", "relocate", "dtb", "bss", "uart"}

\* Where a run that nothing disturbs is: the size on its way, read, the image
\* on its way, there.
Transfer ==
  /\ stage \in Starting =>
       host = "wait" /\ wire = SizeLine /\ device = <<>> /\ size_line = <<>>
  /\ stage \in {"prompt", "size"} =>
       /\ host = "wait" /\ size_line \o (device \o wire) = SizeLine
       /\ device \o wire # <<>>
  /\ stage = "ready" =>
       host = "wait" /\ wire = <<>> /\ device = <<>> /\ img_size = ImageSize
  /\ stage = "raw" =>
       /\ img_size = ImageSize
       /\ \/ host = "wait" /\ wire = <<>> /\ device = <<>> /\ kernel = <<>>
          \/ host = "idle" /\ kernel \o (device \o wire) = Image
  /\ stage \in {"jump", "kernel"} => kernel = Image

LoaderIInv ==
  /\ LoaderTypeOK
  /\ img_size \in Nat
  /\ stage \notin {"raw", "jump", "kernel"} => kernel = <<>>
  /\ ~disturbed => Transfer

LEMMA ConcatIs ==
  ASSUME NEW S, NEW s \in Seq(S), NEW t \in Seq(S)
  PROVE  /\ s \o t \in Seq(S) /\ Len(s \o t) = Len(s) + Len(t)
         /\ Len(s) \in Nat /\ Len(t) \in Nat
         /\ \A i \in 1 .. Len(s \o t) :
              (s \o t)[i] = IF i <= Len(s) THEN s[i] ELSE t[i - Len(s)]
  BY ConcatProperties, LenProperties

Associate(a, b, c) == (a \o b) \o c = a \o (b \o c)

LEMMA Associates == \A a, b, c \in Seq(Byte) : Associate(a, b, c)
  <1> TAKE a, b, c \in Seq(Byte)
  <1>1. (a \o b) \o c = a \o (b \o c)
    BY ONLY ConcatAssociative
  <1> QED
    BY <1>1 DEF Associate

\* The first character of d goes behind s, and w follows: nothing is lost.
OneRead(s, d, w) ==
  /\ Head(d) \in Byte /\ Tail(d) \in Seq(Byte)
  /\ Append(s, Head(d)) \in Seq(Byte)
  /\ Append(s, Head(d)) \o (Tail(d) \o w) = s \o (d \o w)

LEMMA ReadOne ==
  ASSUME NEW s \in Seq(Byte), NEW d \in Seq(Byte), NEW w \in Seq(Byte), d # <<>>
  PROVE  OneRead(s, d, w)
  <1> DEFINE h == Head(d)
             t == Tail(d)
  <1>1. h \in Byte /\ t \in Seq(Byte) /\ <<h>> \in Seq(Byte)
    BY HeadTailProperties
  <1>2. <<h>> \o t = d
    <2>1. /\ Len(d) \in Nat \ {0} /\ Len(t) = Len(d) - 1 /\ Len(<<h>>) = 1 /\ <<h>>[1] = h /\ d[1] = h
          /\ \A i \in 1 .. Len(t) : t[i] = d[i + 1]
      BY HeadTailProperties, LenProperties, EmptySeq
    <2>2. /\ <<h>> \o t \in Seq(Byte) /\ Len(<<h>> \o t) = Len(<<h>>) + Len(t)
          /\ \A i \in 1 .. Len(<<h>> \o t) :
              (<<h>> \o t)[i] = IF i <= Len(<<h>>) THEN <<h>>[i] ELSE t[i - Len(<<h>>)]
      BY <1>1, ConcatIs
    <2> HIDE DEF h, t
    <2>3. Len(<<h>> \o t) = Len(d)
      BY <2>1, <2>2
    <2>4. ASSUME NEW i \in 1 .. Len(d)
          PROVE  (<<h>> \o t)[i] = d[i]
      <3>1. CASE i = 1
        BY <2>1, <2>2, <2>3, <3>1
      <3>2. CASE i # 1
        <4>1. i - 1 \in 1 .. Len(t) /\ (i - 1) + 1 = i /\ ~ (i <= 1)
          BY <2>1, <3>2
        <4> QED
          BY <2>1, <2>2, <2>3, <4>1
      <3> QED
        BY <3>1, <3>2
    <2> QED
      BY <2>2, <2>3, <2>4, SeqEqual
  <1> DEFINE one == <<h>>
             r == t \o w
  <1> HIDE DEF h, t
  <1>3. Append(s, h) = s \o one /\ r \in Seq(Byte)
    BY <1>1, AppendIsConcat, ConcatProperties
  <1>4. one \in Seq(Byte) /\ t \in Seq(Byte) /\ one \o t = d
    BY <1>1, <1>2
  <1>5. one \o r = d \o w
    <2> HIDE DEF one
    <2>1. Associate(one, t, w)
      BY <1>4, Associates, Zenon
    <2> QED
      BY <1>4, <2>1, Zenon DEF Associate
  <1>6. (s \o one) \o r = s \o (one \o r)
    <2> HIDE DEF one, r
    <2>1. Associate(s, one, r)
      BY <1>3, <1>4, Associates, Zenon
    <2> QED
      BY <2>1, Zenon DEF Associate
  <1>7. Append(s, h) \o r = s \o (d \o w)
    <2> HIDE DEF one, r
    <2> QED
      BY <1>3, <1>5, <1>6, Zenon
  <1> QED
    BY <1>1, <1>7, AppendProperties DEF OneRead, h, t

LEMMA DeliverOne ==
  ASSUME NEW d \in Seq(Byte), NEW w \in Seq(Byte), w # <<>>
  PROVE  /\ Head(w) \in Byte /\ Tail(w) \in Seq(Byte) /\ Append(d, Head(w)) \in Seq(Byte)
         /\ Append(d, Head(w)) \o Tail(w) = d \o w
  <1>1. <<>> \in Seq(Byte)
    BY EmptySeq
  <1>2. /\ Head(w) \in Byte /\ Tail(w) \in Seq(Byte)
        /\ Append(d, Head(w)) \o (Tail(w) \o <<>>) = d \o (w \o <<>>)
    BY <1>1, ReadOne DEF OneRead
  <1>3. Tail(w) \o <<>> = Tail(w) /\ w \o <<>> = w
    BY <1>2, ConcatEmptySeq
  <1> QED
    BY <1>2, <1>3, AppendProperties

\* The line with the size, after its next character.
LEMMA SplitLine ==
  ASSUME NEW s \in Seq(Byte), NEW h \in Byte, NEW r \in Seq(Byte), NEW n \in Seq(DigitChar),
         Append(s, h) \o r = Append(n, Newline)
  PROVE  \/ r = <<>> /\ s = n /\ h = Newline
         \/ r # <<>> /\ h \in DigitChar /\ Len(s) < Len(n)
  <1>1. DigitChar \subseteq Byte /\ Newline \in Byte
    BY DEF DigitChar, Byte, Newline
  <1>2. n \in Seq(Byte)
    BY <1>1, SeqMonotonic
  <1>3. Append(s, h) \in Seq(Byte) /\ Len(Append(s, h)) = Len(s) + 1 /\ Append(s, h)[Len(s) + 1] = h
    BY AppendProperties
  <1>4. Append(n, Newline) \in Seq(Byte) /\ Len(Append(n, Newline)) = Len(n) + 1
        /\ \A i \in 1 .. Len(n) : Append(n, Newline)[i] = n[i]
    BY <1>1, <1>2, AppendProperties
  <1>5. CASE r = <<>>
    <2>1. Append(s, h) = Append(n, Newline)
      BY <1>3, <1>5, ConcatEmptySeq
    <2> QED
      BY <1>1, <1>2, <1>5, <2>1, AppendInjective
  <1>6. CASE r # <<>>
    <2>1. Len(r) \in Nat \ {0} /\ Len(s) \in Nat /\ Len(n) \in Nat
      BY <1>6, EmptySeq, LenProperties
    <2>2. /\ Len(Append(s, h) \o r) = Len(Append(s, h)) + Len(r)
          /\ \A i \in 1 .. Len(Append(s, h) \o r) :
              (Append(s, h) \o r)[i] = IF i <= Len(Append(s, h)) THEN Append(s, h)[i]
                                        ELSE r[i - Len(Append(s, h))]
      BY <1>3, ConcatIs
    <2> DEFINE a == Append(s, h)
               b == Append(n, Newline)
               k == Len(s) + 1
    <2> HIDE DEF a, b
    <2>3. /\ a \o r = b /\ Len(a) = k /\ a[k] = h /\ Len(b) = Len(n) + 1
          /\ Len(a \o r) = Len(a) + Len(r)
          /\ \A i \in 1 .. Len(n) : b[i] = n[i]
          /\ \A i \in 1 .. Len(a \o r) : (a \o r)[i] = IF i <= Len(a) THEN a[i] ELSE r[i - Len(a)]
      BY <1>3, <1>4, <2>2 DEF a, b
    <2>4. k <= Len(n) /\ k \in 1 .. Len(n) /\ k \in 1 .. Len(a \o r)
      BY <2>1, <2>3
    <2>5. n[k] = h
      BY <2>3, <2>4
    <2>6. n[k] \in DigitChar
      BY <2>4, ElementOfSeq
    <2> QED
      BY <1>6, <2>1, <2>4, <2>5, <2>6
  <1> QED
    BY <1>5, <1>6

LEMMA SizeLineIs ==
  /\ Image \in Seq(Byte) /\ ImageSize \in Nat
  /\ int2char(ImageSize) \in Seq(DigitChar) /\ parse2int(int2char(ImageSize)) = <<ImageSize>>
  /\ SizeLine \in Seq(Byte) /\ SizeLine # <<>> /\ SizeLine = Append(int2char(ImageSize), Newline)
  /\ MaxReadBuffer \in Nat /\ Len(int2char(ImageSize)) < MaxReadBuffer
  <1>1. Image \in Seq(Byte) /\ ImageSize \in Nat /\ ImageSize < Width
    BY ImageAssumption, LenProperties DEF ImageSize
  <1>2. int2char(ImageSize) \in Seq(DigitChar) /\ parse2int(int2char(ImageSize)) = <<ImageSize>>
    BY <1>1, NumberComesBack
  <1>3. DigitChar \subseteq Byte /\ Newline \in Byte
    BY DEF DigitChar, Byte, Newline
  <1>4. int2char(ImageSize) \in Seq(Byte)
    BY <1>2, <1>3, SeqMonotonic
  <1>5. SizeLine = Append(int2char(ImageSize), Newline)
    BY DEF SizeLine
  <1>6. SizeLine \in Seq(Byte) /\ SizeLine # <<>>
    BY <1>3, <1>4, <1>5, AppendProperties
  <1> QED
    BY <1>1, <1>2, <1>5, <1>6, MaxReadBufferAssumption

LEMMA AcceptedSize ==
  ASSUME NEW s \in Seq(Byte), parse2int(s) # <<>>
  PROVE  parse2int(s)[1] \in Nat
  <1> DEFINE t == UpToNul(s)
  <1>1. IsNumber(t) /\ parse2int(s) = <<Number(10, Digits(t))>>
    BY DEF parse2int
  <1>2. Digits(t) \in Seq(Nat)
    <2>1. t \in Seq(Byte)
      <3>1. PICK end \in 0 .. Len(s) : t = SubSeq(s, 1, end)
        BY StringEnds
      <3> QED
        BY <3>1, LenProperties, SubSeqProperties
    <2> HIDE DEF t
    <2>2. DOMAIN t = 1 .. Len(t) /\ Len(t) \in Nat
      BY <2>1, LenProperties
    <2>3. \A i \in 1 .. Len(t) : t[i] - Char(0) \in Nat
      BY <1>1, <2>2 DEF IsNumber, IsDigit, Char
    <2>4. Digits(t) \in [1 .. Len(t) -> Nat]
      BY <2>2, <2>3 DEF Digits
    <2> QED
      BY <2>2, <2>4, SeqDef
  <1>3. Number(10, Digits(t)) \in Nat
    BY <1>2, NumberGrows
  <1> QED
    BY <1>1, <1>3

LEMMA BootsAreSteps == \A boot \in Boots : boot \in Seq(Step)
  <1> SUFFICES ASSUME NEW boot \in Boots
               PROVE  boot \in Seq(Step)
    OBVIOUS
  <1>1. boot \in Seq(Steps)
    BY StartsOrdered DEF Ordered
  <1>2. \A i \in 1 .. Len(boot) : boot[i] \in Step
    <2>1. DOMAIN boot = 1 .. Len(boot)
      BY <1>1, LenProperties
    <2> QED
      BY <2>1 DEF Step
  <1>3. boot \in [1 .. Len(boot) -> Step] /\ Len(boot) \in Nat
    BY <1>1, <1>2, LenProperties
  <1> QED
    BY <1>3, SeqDef

LEMMA InitLoads == LoaderInit => LoaderIInv
  <1> SUFFICES ASSUME LoaderInit
               PROVE  LoaderIInv
    OBVIOUS
  <1>1. <<>> \in Seq(Byte) /\ <<>> \in Seq(Step) /\ Len(<<>>) = 0
    OBVIOUS
  <1>2. MaxReadBuffer - 1 >= 0 /\ MaxRuns >= 0 /\ MaxResets >= 0
    <2>1. Len(int2char(ImageSize)) \in Nat
      BY SizeLineIs, LenProperties
    <2> QED
      BY <2>1, SizeLineIs, MaxRunsAssumption, MaxResetsAssumption
  <1>3. runs \in 0 .. MaxRuns /\ resets \in 0 .. MaxResets
    BY <1>2, MaxRunsAssumption, MaxResetsAssumption DEF LoaderInit
  <1>4. Len(size_line) <= MaxReadBuffer - 1 /\ Len(kernel) <= img_size /\ img_size \in Nat
    BY <1>1, <1>2, SizeLineIs DEF LoaderInit
  <1>5. disturbed /\ disturbed \in BOOLEAN /\ failed \in BOOLEAN
    BY DEF LoaderInit
  <1>6. LoaderTypeOK
    BY <1>1, <1>3, <1>4, <1>5 DEF LoaderInit, LoaderTypeOK, Stage
  <1> QED
    BY <1>4, <1>5, <1>6 DEF LoaderInit, LoaderIInv

LEMMA ReadSizeTypes ==
  ASSUME LoaderTypeOK, kernel = <<>>, img_size \in Nat, ReadSize
  PROVE  /\ LoaderTypeOK' /\ img_size' \in Nat /\ kernel' = <<>>
         /\ stage' \in {"size", "prompt", "ready"}
  <1> USE DEF LoaderTypeOK, ReadSize
  <1>1. /\ Head(device) \in Byte /\ Tail(device) \in Seq(Byte)
        /\ UNCHANGED <<host, runs, wire, disturbed, kernel, x0, dtb_addr, todo, ready, resets>>
        /\ device' = Tail(device) /\ stage = "size"
    BY HeadTailProperties
  <1>2. AsText \in Byte
    BY <1>1 DEF AsText, mini_uart_read, Newline, Return, Byte
  <1>3. CASE get_char
    <2>1. /\ size_line' = IF Len(size_line) < MaxReadBuffer - 1
                             THEN Append(size_line, AsText) ELSE size_line
          /\ UNCHANGED <<stage, img_size, failed>>
      BY <1>3 DEF get_char
    <2>2. /\ Append(size_line, AsText) \in Seq(Byte) /\ Len(size_line) \in Nat
          /\ Len(Append(size_line, AsText)) = Len(size_line) + 1
      BY <1>2, AppendProperties, LenProperties
    <2>3. size_line' \in Seq(Byte) /\ Len(size_line') <= MaxReadBuffer - 1
      BY <2>1, <2>2, SizeLineIs
    <2> QED
      BY <1>1, <2>1, <2>3
  <1>4. CASE get_size
    <2>1. /\ size_line' = size_line /\ failed' \in BOOLEAN
          /\ \/ stage' = "prompt" /\ img_size' = img_size
             \/ stage' = "ready" /\ parse2int(size_line) # <<>> /\ img_size' = parse2int(size_line)[1]
      BY <1>4 DEF get_size
    <2>2. img_size' \in Nat
      BY <2>1, AcceptedSize
    <2>3. Len(kernel) = 0 /\ kernel' = <<>>
      BY <1>1
    <2> QED
      BY <1>1, <2>1, <2>2, <2>3 DEF Stage
  <1> QED
    BY <1>3, <1>4

LEMMA MainTypes ==
  ASSUME LoaderTypeOK, main
  PROVE  LoaderTypeOK'
  <1> USE DEF LoaderTypeOK, main
  <1>1. Head(todo) \in Step /\ Tail(todo) \in Seq(Step)
    BY HeadTailProperties
  <1>2. /\ todo' = Tail(todo) /\ ready' = ready \cup {Head(todo)}
        /\ UNCHANGED <<host, runs, wire, stage, size_line, img_size, kernel, failed, resets>>
        /\ dtb_addr' \in {"none", "junk", "dtb"} /\ x0' \in {"none", "junk", "dtb"}
    OBVIOUS
  <1>3. device' \in Seq(Byte) /\ disturbed' \in BOOLEAN
    <2>1. <<>> \in Seq(Byte)
      OBVIOUS
    <2> QED
      BY <2>1 DEF mini_uart_init
  <1> QED
    BY <1>1, <1>2, <1>3

LEMMA StepTypes ==
  ASSUME LoaderTypeOK, img_size \in Nat,
         stage \notin {"raw", "jump", "kernel"} => kernel = <<>>,
         [LoaderNext]_loader_vars
  PROVE  /\ LoaderTypeOK' /\ img_size' \in Nat
         /\ stage' \notin {"raw", "jump", "kernel"} => kernel' = <<>>
  <1> USE DEF LoaderTypeOK
  <1>0. <<>> \in Seq(Byte) /\ <<>> \in Seq(Step) /\ Len(<<>>) = 0
        /\ 0 <= MaxReadBuffer - 1
    <2>1. Len(int2char(ImageSize)) \in Nat
      BY SizeLineIs, LenProperties
    <2> QED
      BY <2>1, SizeLineIs
  <1>1. CASE SendSize
    <2>1. wire' \in Seq(Byte) /\ runs' \in 0 .. MaxRuns
      BY <1>1, SizeLineIs, MaxRunsAssumption DEF SendSize
    <2>2. disturbed' \in BOOLEAN /\ host' = "wait" /\ UNCHANGED board
      BY <1>1 DEF SendSize
    <2>3. UNCHANGED resets
      BY <1>1 DEF SendSize, board
    <2> QED
      BY <2>1, <2>2, <2>3 DEF board
  <1>2. CASE SendImage
    BY <1>2, SizeLineIs DEF SendImage, board
  <1>3. CASE Deliver
    <2>1. /\ Head(wire) \in Byte /\ Tail(wire) \in Seq(Byte)
          /\ Append(device, Head(wire)) \in Seq(Byte)
      BY <1>3, DeliverOne DEF Deliver
    <2>2. disturbed' \in BOOLEAN /\ device' \in Seq(Byte) /\ wire' \in Seq(Byte)
      BY <1>3, <2>1 DEF Deliver
    <2> QED
      BY <1>3, <2>2 DEF Deliver
  <1>4. CASE PowerOn
    BY <1>4 DEF PowerOn, host_side, Stage
  <1>5. CASE PowerOff
    <2>1. resets' \in 0 .. MaxResets
      BY <1>5, MaxResetsAssumption DEF PowerOff
    <2>2. disturbed' \in BOOLEAN /\ failed' \in BOOLEAN
      BY <1>5 DEF PowerOff
    <2> QED
      BY <1>0, <1>5, <2>1, <2>2 DEF PowerOff, Stage
  <1>6. CASE Relocate \/ dtb_init \/ bss_init
    BY <1>6 DEF Relocate, dtb_init, bss_init, host_side, Stage
  <1>7. CASE StartLoader
    <2>1. disturbed' \in BOOLEAN
      BY <1>7 DEF StartLoader, mini_uart_init
    <2> QED
      BY <1>0, <1>7, <2>1 DEF StartLoader, mini_uart_init, Stage
  <1>8. CASE Printed("prompt", "size") \/ Printed("ready", "raw") \/ Printed("raw", "jump")
    BY <1>8 DEF Printed, host_side, Stage
  <1>9. CASE ReadSize
    <2>1. kernel = <<>>
      BY <1>9 DEF ReadSize
    <2> QED
      BY <1>9, <2>1, ReadSizeTypes
  <1>10. CASE ReadImage
    <2>1. /\ Head(device) \in Byte /\ Tail(device) \in Seq(Byte)
          /\ Append(kernel, Head(device)) \in Seq(Byte)
          /\ Len(Append(kernel, Head(device))) = Len(kernel) + 1 /\ Len(kernel) \in Nat
      BY <1>10, HeadTailProperties, AppendProperties, LenProperties DEF ReadImage
    <2>2. kernel' = Append(kernel, Head(device)) /\ Len(kernel') <= img_size
      BY <1>10, <2>1 DEF ReadImage, mini_uart_read_raw
    <2> QED
      BY <1>10, <2>1, <2>2 DEF ReadImage
  <1>11. CASE jump_to_kernel
    BY <1>11, BootsAreSteps DEF jump_to_kernel, host_side, Stage
  <1>12. CASE main
    <2>1. LoaderTypeOK'
      BY <1>12, MainTypes
    <2> QED
      BY <1>12, <2>1 DEF main
  <1>13. CASE UNCHANGED loader_vars
    BY <1>13 DEF loader_vars
  <1> QED
    BY <1>1, <1>2, <1>3, <1>4, <1>5, <1>6, <1>7, <1>8, <1>9, <1>10, <1>11, <1>12, <1>13
    DEF LoaderNext, Run, bootloader_main, recieve_and_load_img

LEMMA ReadSizeTransfers ==
  ASSUME LoaderIInv, ReadSize, ~disturbed
  PROVE  Transfer'
  <1> DEFINE h == Head(device)
             r == Tail(device) \o wire
             n == int2char(ImageSize)
  <1>1. /\ stage = "size" /\ host = "wait" /\ size_line \o (device \o wire) = SizeLine
        /\ device # <<>> /\ device' = Tail(device) /\ UNCHANGED <<host, wire>>
    BY DEF LoaderIInv, Transfer, ReadSize
  <1>2. size_line \in Seq(Byte) /\ device \in Seq(Byte) /\ wire \in Seq(Byte)
    BY DEF LoaderIInv, LoaderTypeOK
  <1>3. /\ h \in Byte /\ Tail(device) \in Seq(Byte) /\ Append(size_line, h) \in Seq(Byte)
        /\ Append(size_line, h) \o r = SizeLine
    <2>1. /\ Head(device) \in Byte /\ Tail(device) \in Seq(Byte)
          /\ Append(size_line, Head(device)) \in Seq(Byte)
          /\ Append(size_line, Head(device)) \o (Tail(device) \o wire)
               = size_line \o (device \o wire)
      <3>1. device # <<>>
        BY <1>1
      <3>2. OneRead(size_line, device, wire)
        BY <1>2, <3>1, ReadOne, Zenon
      <3> QED
        BY <3>2 DEF OneRead
    <2> QED
      BY <1>1, <2>1
  <1>4. r \in Seq(Byte) /\ r = device' \o wire'
    BY <1>1, <1>2, <1>3, ConcatProperties
  <1>5. n \in Seq(DigitChar) /\ SizeLine = Append(n, Newline) /\ Len(n) < MaxReadBuffer
        /\ parse2int(n) = <<ImageSize>> /\ MaxReadBuffer \in Nat
    BY SizeLineIs
  <1> HIDE DEF h, r, n
  <1>6. \/ r = <<>> /\ size_line = n /\ h = Newline
        \/ r # <<>> /\ h \in DigitChar /\ Len(size_line) < Len(n)
    BY <1>2, <1>3, <1>4, <1>5, SplitLine
  <1>7. AsText = h /\ (h \in DigitChar => AsText # Newline)
    BY <1>6 DEF AsText, mini_uart_read, h, DigitChar, Newline, Return
  <1>8. CASE r = <<>> /\ size_line = n /\ h = Newline
    <2>1. get_size
      BY <1>7, <1>8 DEF ReadSize, get_char
    <2>2. parse2int(size_line) = <<ImageSize>> /\ <<ImageSize>> # <<>>
      BY <1>5, <1>8
    <2>3. stage' = "ready" /\ img_size' = ImageSize
      BY <2>1, <2>2 DEF get_size
    <2>4. device' = <<>> /\ wire' = <<>>
      <3>1. device' \in Seq(Byte) /\ wire' \in Seq(Byte) /\ device' \o wire' = <<>>
        BY <1>1, <1>2, <1>3, <1>4, <1>8
      <3>2. Len(device') + Len(wire') = 0 /\ Len(device') \in Nat /\ Len(wire') \in Nat
        BY <3>1, ConcatIs
      <3> QED
        BY <3>1, <3>2, EmptySeq
    <2> QED
      BY <1>1, <2>3, <2>4 DEF Transfer, Starting
  <1>9. CASE r # <<>> /\ h \in DigitChar /\ Len(size_line) < Len(n)
    <2>1. get_char
      BY <1>7, <1>9 DEF ReadSize, get_size
    <2>2. Len(size_line) < MaxReadBuffer - 1
      BY <1>2, <1>5, <1>9, LenProperties
    <2>3. size_line' = Append(size_line, h) /\ stage' = "size"
      BY <1>1, <1>7, <2>1, <2>2 DEF get_char
    <2>4. SizeLine' = SizeLine
      BY DEF SizeLine, ImageSize
    <2> QED
      BY <1>1, <1>3, <1>4, <1>9, <2>3, <2>4 DEF Transfer, Starting
  <1> QED
    BY <1>6, <1>8, <1>9

LEMMA StepTransfers ==
  ASSUME LoaderIInv, [LoaderNext]_loader_vars, ~disturbed'
  PROVE  Transfer'
  <1>0. /\ size_line \in Seq(Byte) /\ device \in Seq(Byte) /\ wire \in Seq(Byte)
        /\ kernel \in Seq(Byte) /\ stage \in Stage /\ <<>> \in Seq(Byte)
        /\ Image \in Seq(Byte) /\ SizeLine \in Seq(Byte) /\ SizeLine # <<>>
        /\ Len(Image) = ImageSize
        /\ stage \notin {"raw", "jump", "kernel"} => kernel = <<>>
    BY SizeLineIs DEF LoaderIInv, LoaderTypeOK, ImageSize
  <1>00. ~disturbed => Transfer
    BY DEF LoaderIInv
  <1>000. SizeLine' = SizeLine /\ ImageSize' = ImageSize
    BY DEF SizeLine, ImageSize
  <1>1. CASE SendSize
    <2>1. /\ AtEmptyLine /\ host' = "wait" /\ wire' = SizeLine
          /\ UNCHANGED <<device, stage, size_line, img_size, kernel>>
      BY <1>1 DEF SendSize, board
    <2>2. /\ stage \in {"off", "relocate", "dtb", "bss", "uart", "prompt", "size"}
          /\ device = <<>> /\ size_line = <<>>
      BY <2>1 DEF AtEmptyLine
    <2>3. <<>> \o (<<>> \o SizeLine) = SizeLine /\ <<>> \o SizeLine = SizeLine
      BY <1>0, ConcatEmptySeq
    <2> QED
      BY <1>0, <1>000, <2>1, <2>2, <2>3 DEF Transfer, Starting
  <1>2. CASE SendImage
    <2>1. /\ host = "wait" /\ wire = <<>> /\ stage # "ready" /\ (device = <<>> \/ stage = "kernel")
          /\ host' = "idle" /\ wire' = Image /\ ~disturbed
          /\ UNCHANGED <<device, stage, size_line, img_size, kernel>>
      BY <1>2 DEF SendImage, board
    <2>2. Transfer
      BY <1>00, <2>1
    <2>3. <<>> \o <<>> = <<>>
      BY <1>0, ConcatEmptySeq
    <2>4. stage \in {"raw", "jump", "kernel"}
      BY <1>0, <2>1, <2>2, <2>3 DEF Transfer, Starting, Stage
    <2>5. <<>> \o (<<>> \o Image) = Image
      BY <1>0, ConcatEmptySeq
    <2>6. CASE stage = "raw"
      <3>1. \/ device = <<>> /\ kernel = <<>>
            \/ host = "idle"
        BY <2>2, <2>6 DEF Transfer
      <3> QED
        BY <1>000, <2>1, <2>2, <2>5, <2>6, <3>1 DEF Transfer, Starting
    <2>7. CASE stage \in {"jump", "kernel"}
      BY <2>1, <2>2, <2>7 DEF Transfer, Starting
    <2> QED
      BY <2>4, <2>6, <2>7
  <1>3. CASE Deliver
    <2>1. /\ wire # <<>> /\ wire' = Tail(wire) /\ ~disturbed /\ Listening
          /\ device' = Append(device, Head(wire))
          /\ UNCHANGED <<host, stage, size_line, img_size, kernel>>
      BY <1>3 DEF Deliver
    <2>2. device' \o wire' = device \o wire
      <3>1. device \in Seq(Byte) /\ wire \in Seq(Byte) /\ wire # <<>>
        BY <1>0, <2>1
      <3>2. Append(device, Head(wire)) \o Tail(wire) = device \o wire
        BY ONLY <3>1, DeliverOne
      <3> QED
        BY <2>1, <3>2
    <2>3. Transfer
      BY <1>00, <2>1
    <2> HIDE DEF Deliver
    <2>4. stage \in {"prompt", "size", "raw", "jump", "kernel"}
      BY <2>1, <2>3 DEF Listening, Transfer
    <2>5. CASE stage \in {"prompt", "size"}
      BY <1>000, <2>1, <2>2, <2>3, <2>5 DEF Transfer, Starting
    <2>6. CASE stage = "raw"
      <3>1. host = "idle" /\ kernel \o (device \o wire) = Image /\ img_size = ImageSize
        BY <2>1, <2>3, <2>6 DEF Transfer
      <3> QED
        BY <1>000, <2>1, <2>2, <2>6, <3>1 DEF Transfer, Starting
    <2>7. CASE stage \in {"jump", "kernel"}
      BY <2>1, <2>3, <2>7 DEF Transfer, Starting
    <2> QED
      BY <2>4, <2>5, <2>6, <2>7
  <1>4. CASE PowerOn \/ Relocate \/ dtb_init \/ bss_init
    <2>1. /\ stage \in Starting /\ stage' \in Starting /\ ~disturbed
          /\ UNCHANGED <<host, wire, device, size_line>>
      BY <1>4 DEF PowerOn, Relocate, dtb_init, bss_init, host_side, Starting
    <2> QED
      BY <1>00, <1>000, <2>1 DEF Transfer, Starting
  <1>5. CASE PowerOff
    BY <1>5 DEF PowerOff
  <1>6. CASE StartLoader
    <2>1. /\ stage = "uart" /\ stage' = "prompt" /\ device = <<>> /\ device' = <<>> /\ ~disturbed
          /\ UNCHANGED <<host, wire, size_line>>
      BY <1>6 DEF StartLoader, mini_uart_init
    <2>2. host = "wait" /\ wire = SizeLine /\ size_line = <<>>
      BY <1>00, <2>1 DEF Transfer, Starting
    <2>3. <<>> \o (<<>> \o SizeLine) = SizeLine /\ <<>> \o SizeLine = SizeLine
      BY <1>0, ConcatEmptySeq
    <2> QED
      BY <1>0, <1>000, <2>1, <2>2, <2>3 DEF Transfer, Starting
  <1>7. CASE Printed("prompt", "size")
    <2>1. /\ stage = "prompt" /\ stage' = "size" /\ ~disturbed
          /\ UNCHANGED <<host, wire, device, size_line>>
      BY <1>7 DEF Printed, host_side
    <2> QED
      BY <1>00, <1>000, <2>1 DEF Transfer, Starting
  <1>8. CASE Printed("ready", "raw")
    <2>1. /\ stage = "ready" /\ stage' = "raw" /\ ~disturbed
          /\ UNCHANGED <<host, wire, device, img_size, kernel>>
      BY <1>8 DEF Printed, host_side
    <2> QED
      BY <1>0, <1>00, <1>000, <2>1 DEF Transfer, Starting
  <1>9. CASE Len(kernel) = img_size /\ Printed("raw", "jump")
    <2>1. stage = "raw" /\ stage' = "jump" /\ ~disturbed /\ kernel' = kernel /\ Len(kernel) = img_size
      BY <1>9 DEF Printed, host_side
    <2>2. /\ img_size = ImageSize
          /\ kernel = <<>> \/ kernel \o (device \o wire) = Image
      BY <1>00, <2>1 DEF Transfer
    <2>3. kernel = Image
      <3>1. CASE kernel = <<>>
        <4>1. Len(Image) = 0
          BY <1>0, <2>1, <2>2, <3>1
        <4> QED
          BY <1>0, <3>1, <4>1, EmptySeq
      <3>2. CASE kernel \o (device \o wire) = Image
        <4> DEFINE rest == device \o wire
        <4>1. rest \in Seq(Byte)
          BY <1>0, ConcatProperties
        <4>2. Len(kernel) = Len(kernel) + Len(rest) /\ Len(kernel) \in Nat /\ Len(rest) \in Nat
          <5>1. Len(kernel \o rest) = Len(kernel) + Len(rest) /\ Len(kernel) \in Nat /\ Len(rest) \in Nat
            BY <1>0, <4>1, ConcatIs
          <5>2. Len(kernel \o rest) = Len(kernel)
            BY <1>0, <2>1, <2>2, <3>2
          <5> QED
            BY <5>1, <5>2
        <4>3. Len(rest) = 0
          BY <4>2
        <4>4. rest = <<>>
          BY <4>1, <4>3, EmptySeq
        <4> QED
          BY <1>0, <3>2, <4>4, ConcatEmptySeq
      <3> QED
        BY <2>2, <3>1, <3>2
    <2> QED
      BY <2>1, <2>3 DEF Transfer, Starting
  <1>10. CASE ReadSize
    <2>1. ~disturbed
      BY <1>10 DEF ReadSize
    <2> QED
      BY <1>10, <2>1, ReadSizeTransfers
  <1>11. CASE ReadImage
    <2>1. /\ stage = "raw" /\ stage' = "raw" /\ ~disturbed /\ device # <<>>
          /\ device' = Tail(device) /\ kernel' = Append(kernel, Head(device))
          /\ UNCHANGED <<host, wire, img_size>>
      BY <1>11 DEF ReadImage, mini_uart_read_raw
    <2>2. host = "idle" /\ kernel \o (device \o wire) = Image /\ img_size = ImageSize
      BY <1>00, <2>1 DEF Transfer
    <2>3. Append(kernel, Head(device)) \o (Tail(device) \o wire) = kernel \o (device \o wire)
      <3>1. kernel \in Seq(Byte) /\ device \in Seq(Byte) /\ wire \in Seq(Byte) /\ device # <<>>
        BY <1>0, <2>1
      <3>2. OneRead(kernel, device, wire)
        BY <3>1, ReadOne, Zenon
      <3> QED
        BY <3>2 DEF OneRead
    <2>4. kernel' \o (device' \o wire') = Image
      BY <2>1, <2>2, <2>3
    <2> QED
      BY <1>000, <2>1, <2>2, <2>4 DEF Transfer, Starting
  <1>12. CASE jump_to_kernel \/ main
    <2>1. stage \in {"jump", "kernel"} /\ stage' = "kernel" /\ kernel' = kernel /\ ~disturbed
      BY <1>12 DEF jump_to_kernel, main, host_side, mini_uart_init
    <2> QED
      BY <1>00, <2>1 DEF Transfer, Starting
  <1>13. CASE UNCHANGED loader_vars
    <2>1. ~disturbed /\ UNCHANGED <<host, wire, device, stage, size_line, img_size, kernel>>
      BY <1>13 DEF loader_vars
    <2> QED
      BY <1>00, <1>000, <2>1 DEF Transfer, Starting
  <1> QED
    BY <1>1, <1>2, <1>3, <1>4, <1>5, <1>6, <1>7, <1>8, <1>9, <1>10, <1>11, <1>12, <1>13
    DEF LoaderNext, Run, bootloader_main, recieve_and_load_img

LEMMA LoaderInvariant ==
  /\ LoaderInit => LoaderIInv
  /\ LoaderIInv /\ [LoaderNext]_loader_vars => LoaderIInv'
  <1>1. ASSUME LoaderIInv, [LoaderNext]_loader_vars
        PROVE  LoaderIInv'
    <2>1. /\ LoaderTypeOK' /\ img_size' \in Nat
          /\ stage' \notin {"raw", "jump", "kernel"} => kernel' = <<>>
      BY <1>1, StepTypes DEF LoaderIInv
    <2>2. ~disturbed' => Transfer'
      BY <1>1, StepTransfers
    <2> QED
      BY <2>1, <2>2 DEF LoaderIInv
  <1> QED
    BY <1>1, InitLoads

\* A line leaves room for its NUL and an image is not longer than announced:
\* for every image, line, FIFO, number of runs and of power-ups.
THEOREM LoaderTypesCorrect == LoaderSpec => []LoaderTypeOK
  <1>1. LoaderIInv => LoaderTypeOK
    BY DEF LoaderIInv
  <1> QED
    BY <1>1, LoaderInvariant, PTL DEF LoaderSpec

\* A script started at an empty line whose characters all arrive gets its
\* image entered byte by byte: the digits it writes are the number the board
\* reads, and the board reads the image raw, whatever bytes are in it.
THEOREM ImageIsLoaded == LoaderSpec => []ImageLoaded
  <1>1. LoaderIInv => ImageLoaded
    BY DEF LoaderIInv, Transfer, ImageLoaded
  <1> QED
    BY <1>1, LoaderInvariant, PTL DEF LoaderSpec

-----------------------------------------------------------------------------
(* The device tree.                                                        *)

\* Where a walk can be, and where it ends.
Places == [ptr : Nat \ {0}, depth : Nat, addr : Nat]
AtEnd(words, s) == s.depth = 0 \/ s.ptr > Len(words)

\* Every property is there to its third word, and every node's name ends.
Readable(words) ==
  /\ words \in Seq(Nat)
  /\ \A p \in 1 .. Len(words) :
       /\ words[p] = FDT_PROP => p + 3 <= Len(words)
       /\ words[p] = FDT_BEGIN_NODE => \E i \in p + 1 .. Len(words) : HasNul(words[i])

\* A name ends at its first word with a NUL.
LEMMA SkipNameIs ==
  ASSUME NEW words, NEW n \in Nat, n = Len(words), NEW p \in Nat,
         \E i \in p .. n : HasNul(words[i])
  PROVE  \E i \in p .. n : /\ SkipName(words, p) = 1 + i /\ HasNul(words[i])
                           /\ \A j \in p .. i - 1 : ~HasNul(words[j])
  <1> DEFINE R == {i \in Nat : i \in p .. n /\ HasNul(words[i])}
  <1> HIDE DEF HasNul
  <1>1. R # {} => \E i \in R : \A m \in R : ~ (<<m, i>> \in OpToRel(<, Nat))
    BY WFMin, NatLessThanWellFounded
  <1>2. R # {} => \E i \in R : \A m \in R : ~ (m < i)
    BY <1>1 DEF OpToRel
  <1>3. \A i \in p .. n : i \in Nat
    OBVIOUS
  <1>4. PICK i \in R : \A m \in R : ~ (m < i)
    BY <1>2, <1>3
  <1>5. i \in p .. n /\ HasNul(words[i])
    OBVIOUS
  <1>6. \A j \in p .. i - 1 : ~HasNul(words[j])
    <2>1. \A j \in p .. i - 1 : j \in p .. n /\ j \in Nat /\ j < i
      BY <1>5
    <2> QED
      BY <1>4, <2>1
  <1>7. \E k \in p .. Len(words) : HasNul(words[k]) /\ \A j \in p .. k - 1 : ~HasNul(words[j])
    BY <1>5, <1>6
  <1> DEFINE k == CHOOSE k \in p .. Len(words) : HasNul(words[k]) /\ \A j \in p .. k - 1 : ~HasNul(words[j])
  <1>8. k \in p .. Len(words) /\ HasNul(words[k]) /\ \A j \in p .. k - 1 : ~HasNul(words[j])
    BY <1>7
  <1>9. SkipName(words, p) = 1 + k
    BY DEF SkipName
  <1> QED
    BY <1>8, <1>9

\* One round at each of the four kinds of token.
LEMMA ReadTokenIs ==
  ASSUME NEW words, NEW s
  PROVE  /\ words[s.ptr] = FDT_PROP =>
              ReadToken(words, s) =
                At(s.ptr + 3 + align(words[s.ptr + 1], 4) \div 4, s.depth,
                   get_ramfs_addr(words[s.ptr + 2], words[s.ptr + 1], words[s.ptr + 3], s.addr))
         /\ words[s.ptr] = FDT_BEGIN_NODE =>
              ReadToken(words, s) = At(SkipName(words, s.ptr + 1), s.depth + 1, s.addr)
         /\ words[s.ptr] = FDT_NOP => ReadToken(words, s) = At(s.ptr + 1, s.depth, s.addr)
         /\ words[s.ptr] \notin {FDT_PROP, FDT_BEGIN_NODE, FDT_NOP} =>
              ReadToken(words, s) = At(s.ptr + 1, s.depth - 1, s.addr)
  <1>1. CASE words[s.ptr] = FDT_PROP
    BY <1>1, SMT DEF ReadToken, FDT_PROP, FDT_BEGIN_NODE, FDT_NOP
  <1>2. CASE words[s.ptr] = FDT_BEGIN_NODE
    BY <1>2, SMT DEF ReadToken, FDT_PROP, FDT_BEGIN_NODE, FDT_NOP
  <1>3. CASE words[s.ptr] = FDT_NOP
    BY <1>3, SMT DEF ReadToken, FDT_PROP, FDT_BEGIN_NODE, FDT_NOP
  <1>4. CASE words[s.ptr] \notin {FDT_PROP, FDT_BEGIN_NODE, FDT_NOP}
    BY <1>4, SMT DEF ReadToken, FDT_PROP, FDT_BEGIN_NODE, FDT_NOP
  <1> QED
    BY <1>1, <1>2, <1>3, <1>4

\* A walk of such words goes forward and stays a walk: so it ends.
LEMMA ReadTokenMoves ==
  ASSUME NEW words, Readable(words), NEW s \in Places, ~AtEnd(words, s)
  PROVE  ReadToken(words, s) \in Places /\ ReadToken(words, s).ptr > s.ptr
  <1> DEFINE n == Len(words)
             p == s.ptr
  <1>1. n \in Nat /\ p \in 1 .. n /\ s.depth \in Nat \ {0} /\ s.addr \in Nat
        /\ s.depth - 1 \in Nat /\ s.depth + 1 \in Nat
        /\ \A i \in 1 .. n : words[i] \in Nat
    BY DEF Readable, Places, AtEnd
  <1>2. ASSUME NEW q \in Nat, q > p, NEW d \in Nat, NEW a \in Nat, ReadToken(words, s) = At(q, d, a)
        PROVE  ReadToken(words, s) \in Places /\ ReadToken(words, s).ptr > s.ptr
    BY <1>1, <1>2 DEF At, Places
  <1>3. CASE words[p] = FDT_PROP
    <2>1. p + 3 <= n
      BY <1>1, <1>3 DEF Readable
    <2>2. words[p + 1] \in Nat /\ words[p + 2] \in Nat /\ words[p + 3] \in Nat
      <3>1. p + 1 \in 1 .. n /\ p + 2 \in 1 .. n /\ p + 3 \in 1 .. n
        <4> HIDE DEF p, n
        <4>1. n \in Nat /\ p \in 1 .. n
          BY <1>1
        <4> QED
          BY ONLY <2>1, <4>1
      <3> QED
        BY <1>1, <3>1
    <2>3. align(words[p + 1], 4) \div 4 \in Nat
      BY <2>2 DEF align
    <2>4. get_ramfs_addr(words[p + 2], words[p + 1], words[p + 3], s.addr) \in Nat
      BY <1>1, <2>2 DEF get_ramfs_addr
    <2>5. p + 3 + align(words[p + 1], 4) \div 4 \in Nat /\ p + 3 + align(words[p + 1], 4) \div 4 > p
      <3> DEFINE skip == align(words[p + 1], 4) \div 4
      <3> HIDE DEF p, n, skip
      <3>1. p \in Nat /\ skip \in Nat
        BY <1>1, <2>3 DEF skip
      <3>2. p + 3 + skip \in Nat /\ p + 3 + skip > p
        BY ONLY <3>1
      <3> QED
        BY <3>2 DEF skip
    <2>6. ReadToken(words, s) =
            At(p + 3 + align(words[p + 1], 4) \div 4, s.depth,
               get_ramfs_addr(words[p + 2], words[p + 1], words[p + 3], s.addr))
      BY <1>3, ReadTokenIs
    <2> QED
      BY ONLY <1>1, <1>2, <2>4, <2>5, <2>6
  <1>4. CASE words[p] = FDT_BEGIN_NODE
    <2>1. \E i \in p + 1 .. n : HasNul(words[i])
      BY <1>1, <1>4 DEF Readable
    <2>2. SkipName(words, p + 1) \in Nat /\ SkipName(words, p + 1) > p
      <3> DEFINE q == p + 1
      <3>1. q \in Nat /\ q > p /\ n \in Nat /\ n = Len(words) /\ \E i \in q .. n : HasNul(words[i])
        <4>1. p \in Nat
          BY <1>1
        <4>2. p + 1 \in Nat /\ p + 1 > p
          BY ONLY <4>1
        <4> QED
          BY <1>1, <2>1, <4>2, Zenon
      <3> HIDE DEF q, p, n
      <3>2. \E i \in q .. n : SkipName(words, q) = 1 + i
        BY ONLY <3>1, SkipNameIs
      <3>3. SkipName(words, q) \in Nat /\ SkipName(words, q) > p
        <4>1. PICK i \in q .. n : SkipName(words, q) = 1 + i
          BY ONLY <3>2
        <4>2. p \in Nat
          BY ONLY <1>1
        <4>3. i \in Nat /\ i >= q
          BY ONLY <3>1
        <4>4. 1 + i \in Nat /\ 1 + i > p
          BY ONLY <3>1, <4>2, <4>3
        <4> QED
          BY ONLY <4>1, <4>4
      <3> QED
        BY <3>3 DEF q
    <2>3. ReadToken(words, s) = At(SkipName(words, p + 1), s.depth + 1, s.addr)
      BY <1>4, ReadTokenIs
    <2> QED
      BY ONLY <1>1, <1>2, <2>2, <2>3
  <1>5. CASE words[p] = FDT_NOP
    <2>1. ReadToken(words, s) = At(p + 1, s.depth, s.addr)
      BY <1>5, ReadTokenIs
    <2>2. p + 1 \in Nat /\ p + 1 > p
      BY <1>1
    <2> QED
      BY ONLY <1>1, <1>2, <2>1, <2>2
  <1>6. CASE words[p] \notin {FDT_PROP, FDT_BEGIN_NODE, FDT_NOP}
    <2>1. ReadToken(words, s) = At(p + 1, s.depth - 1, s.addr)
      BY <1>6, ReadTokenIs
    <2>2. p + 1 \in Nat /\ p + 1 > p
      BY <1>1
    <2> QED
      BY ONLY <1>1, <1>2, <2>1, <2>2
  <1> QED
    BY <1>3, <1>4, <1>5, <1>6

\* What fdt_parse_node computes, token by token.
LEMMA WalkIs ==
  ASSUME NEW words, Readable(words)
  PROVE  \E w \in [Places -> Nat] :
           /\ \A s \in Places :
                w[s] = IF AtEnd(words, s) THEN s.addr ELSE w[ReadToken(words, s)]
           /\ \A s \in Places : fdt_parse_node(words, s) = w[s]
  <1> DEFINE n == Len(words)
             Next1(s) == ReadToken(words, s)
             Ended1(s) == AtEnd(words, s)
             Unfolded(f) == [s \in Places |-> IF Ended1(s) THEN s.addr ELSE f[Next1(s)]]
             h == CHOOSE f : f = Unfolded(f)
  <1>1. \A s : fdt_parse_node(words, s) = h[s]
    BY DEF fdt_parse_node, AtEnd, Places
  <1>2. n \in Nat
    BY LenProperties DEF Readable
  <1>3. \A s \in Places : ~Ended1(s) => Next1(s) \in Places /\ Next1(s).ptr > s.ptr
    BY ReadTokenMoves
  <1>4. \A s \in Places : s.ptr \in Nat \ {0} /\ s.addr \in Nat /\ (s.ptr > n => Ended1(s))
    BY <1>2 DEF Places, AtEnd
  <1> HIDE DEF n, Next1, Ended1
  <1> DEFINE Good(f, m) ==
               /\ f \in [Places -> Nat]
               /\ \A s \in Places : s.ptr + m > n =>
                    f[s] = IF Ended1(s) THEN s.addr ELSE f[Next1(s)]
             T == {m \in Nat : \E f : Good(f, m)}
  <1> HIDE DEF Good
  <1>5. 0 \in T
    <2>1. Good([s \in Places |-> s.addr], 0)
      BY <1>2, <1>4 DEF Good
    <2> QED
      BY <2>1
  <1>6. ASSUME NEW m \in Nat, m \in T
        PROVE  m + 1 \in T
    <2>1. PICK f : Good(f, m)
      BY <1>6
    <2> DEFINE g == [s \in Places |-> IF Ended1(s) THEN s.addr ELSE f[Next1(s)]]
    <2>2. g \in [Places -> Nat]
      <3>1. \A s \in Places : (IF Ended1(s) THEN s.addr ELSE f[Next1(s)]) \in Nat
        BY <1>3, <1>4, <2>1 DEF Good
      <3> QED
        BY <3>1
    <2>3. ASSUME NEW s \in Places, s.ptr + (m + 1) > n
          PROVE  g[s] = IF Ended1(s) THEN s.addr ELSE g[Next1(s)]
      <3>1. CASE Ended1(s)
        BY <3>1
      <3>2. CASE ~Ended1(s)
        <4> DEFINE t == Next1(s)
        <4>1. t \in Places /\ t.ptr > s.ptr /\ t.ptr \in Nat /\ s.ptr \in Nat
          BY <1>3, <1>4, <3>2
        <4>2. t.ptr + m > n
          BY <1>2, <2>3, <4>1
        <4>3. g[s] = f[t]
          BY <3>2
        <4> HIDE DEF t
        <4>4. f[t] = IF Ended1(t) THEN t.addr ELSE f[Next1(t)]
          BY <2>1, <4>1, <4>2 DEF Good
        <4>5. g[t] = IF Ended1(t) THEN t.addr ELSE f[Next1(t)]
          BY <4>1
        <4> QED
          BY <3>2, <4>3, <4>4, <4>5 DEF t
      <3> QED
        BY <3>1, <3>2
    <2> HIDE DEF g
    <2>4. Good(g, m + 1)
      BY <2>2, <2>3 DEF Good
    <2> QED
      BY <2>4
  <1>7. \E f : f \in [Places -> Nat] /\ f = Unfolded(f)
    <2>1. Nat \subseteq T
      BY <1>5, <1>6, SetInduction
    <2>2. PICK f : Good(f, n)
      BY <1>2, <2>1
    <2>3. \A s \in Places : s.ptr + n > n
      BY <1>2, <1>4
    <2>4. f \in [Places -> Nat] /\ \A s \in Places : f[s] = IF Ended1(s) THEN s.addr ELSE f[Next1(s)]
      BY <2>2, <2>3 DEF Good
    <2> QED
      BY <2>4
  <1> HIDE DEF T
  <1>8. h = Unfolded(h)
    BY <1>7
  <1> HIDE DEF h
  <1>9. \A s \in Places : h[s] = IF Ended1(s) THEN s.addr ELSE h[Next1(s)]
    BY <1>8
  <1>10. h \in [Places -> Nat]
    <2> DEFINE U == {m \in Nat : \A s \in Places : s.ptr + m > n => h[s] \in Nat}
    <2>1. 0 \in U
      BY <1>2, <1>4, <1>9
    <2>2. ASSUME NEW m \in Nat, m \in U
          PROVE  m + 1 \in U
      <3> SUFFICES ASSUME NEW s \in Places, s.ptr + (m + 1) > n
                   PROVE  h[s] \in Nat
        OBVIOUS
      <3>1. CASE Ended1(s)
        BY <1>4, <1>9, <3>1
      <3>2. CASE ~Ended1(s)
        <4>1. Next1(s) \in Places /\ Next1(s).ptr > s.ptr /\ Next1(s).ptr \in Nat /\ s.ptr \in Nat
          BY <1>3, <1>4, <3>2
        <4>2. Next1(s).ptr + m > n
          BY <1>2, <4>1
        <4> QED
          BY <1>9, <2>2, <3>2, <4>1, <4>2
      <3> QED
        BY <3>1, <3>2
    <2>3. Nat \subseteq U
      BY <2>1, <2>2, SetInduction
    <2>4. n \in U /\ \A s \in Places : s.ptr + n > n
      BY <1>2, <1>4, <2>3
    <2>5. \A s \in Places : h[s] \in Nat
      BY <2>4
    <2>6. h = [s \in Places |-> h[s]]
      BY <1>8
    <2> QED
      BY <2>5, <2>6
  <1> QED
    BY <1>1, <1>9, <1>10 DEF Next1, Ended1

LEMMA WalkStep ==
  ASSUME NEW words, Readable(words), NEW s \in Places
  PROVE  /\ AtEnd(words, s) => fdt_parse_node(words, s) = s.addr
         /\ ~AtEnd(words, s) => /\ fdt_parse_node(words, s) = fdt_parse_node(words, ReadToken(words, s))
                                /\ ReadToken(words, s) \in Places
  <1>1. PICK w \in [Places -> Nat] :
           /\ \A t \in Places :
                w[t] = IF AtEnd(words, t) THEN t.addr ELSE w[ReadToken(words, t)]
           /\ \A t \in Places : fdt_parse_node(words, t) = w[t]
    BY WalkIs
  <1>2. CASE AtEnd(words, s)
    BY <1>1, <1>2
  <1>3. CASE ~AtEnd(words, s)
    <2>1. ReadToken(words, s) \in Places
      BY <1>3, ReadTokenMoves
    <2> QED
      BY <1>1, <1>3, <2>1
  <1> QED
    BY <1>2, <1>3

\* What a round leaves of the walk, at each kind of token.
LEMMA TokenStep ==
  ASSUME NEW words, Readable(words), NEW p \in 1 .. Len(words), NEW d \in Nat \ {0}, NEW a \in Nat
  PROVE  /\ words[p] = FDT_PROP =>
              fdt_parse_node(words, At(p, d, a)) =
                fdt_parse_node(words,
                  At(p + 3 + align(words[p + 1], 4) \div 4, d,
                     get_ramfs_addr(words[p + 2], words[p + 1], words[p + 3], a)))
         /\ words[p] = FDT_BEGIN_NODE =>
              fdt_parse_node(words, At(p, d, a)) =
                fdt_parse_node(words, At(SkipName(words, p + 1), d + 1, a))
         /\ words[p] = FDT_NOP =>
              fdt_parse_node(words, At(p, d, a)) = fdt_parse_node(words, At(p + 1, d, a))
         /\ words[p] \notin {FDT_PROP, FDT_BEGIN_NODE, FDT_NOP} =>
              fdt_parse_node(words, At(p, d, a)) = fdt_parse_node(words, At(p + 1, d - 1, a))
  <1> DEFINE s == At(p, d, a)
  <1>1. s.ptr = p /\ s.depth = d /\ s.addr = a
    BY DEF At
  <1>2. Len(words) \in Nat
    BY LenProperties DEF Readable
  <1>3. s \in Places /\ ~AtEnd(words, s)
    BY <1>1, <1>2 DEF At, Places, AtEnd
  <1> HIDE DEF s
  <1>4. fdt_parse_node(words, s) = fdt_parse_node(words, ReadToken(words, s))
    BY <1>3, WalkStep
  <1>5. ASSUME NEW t, ReadToken(words, s) = t
        PROVE  fdt_parse_node(words, At(p, d, a)) = fdt_parse_node(words, t)
    BY <1>4, <1>5 DEF s
  <1>6. ASSUME words[p] = FDT_PROP
        PROVE  fdt_parse_node(words, At(p, d, a)) =
                 fdt_parse_node(words,
                   At(p + 3 + align(words[p + 1], 4) \div 4, d,
                      get_ramfs_addr(words[p + 2], words[p + 1], words[p + 3], a)))
    <2>1. ReadToken(words, s) =
            At(s.ptr + 3 + align(words[s.ptr + 1], 4) \div 4, s.depth,
               get_ramfs_addr(words[s.ptr + 2], words[s.ptr + 1], words[s.ptr + 3], s.addr))
      BY <1>1, <1>6, ReadTokenIs
    <2> QED
      BY <1>1, <1>5, <2>1, Zenon
  <1>7. ASSUME words[p] = FDT_BEGIN_NODE
        PROVE  fdt_parse_node(words, At(p, d, a)) =
                 fdt_parse_node(words, At(SkipName(words, p + 1), d + 1, a))
    <2>1. ReadToken(words, s) = At(SkipName(words, s.ptr + 1), s.depth + 1, s.addr)
      BY <1>1, <1>7, ReadTokenIs
    <2> QED
      BY <1>1, <1>5, <2>1, Zenon
  <1>8. ASSUME words[p] = FDT_NOP
        PROVE  fdt_parse_node(words, At(p, d, a)) = fdt_parse_node(words, At(p + 1, d, a))
    <2>1. ReadToken(words, s) = At(s.ptr + 1, s.depth, s.addr)
      BY <1>1, <1>8, ReadTokenIs
    <2> QED
      BY <1>1, <1>5, <2>1, Zenon
  <1>9. ASSUME words[p] \notin {FDT_PROP, FDT_BEGIN_NODE, FDT_NOP}
        PROVE  fdt_parse_node(words, At(p, d, a)) = fdt_parse_node(words, At(p + 1, d - 1, a))
    <2>1. ReadToken(words, s) = At(s.ptr + 1, s.depth - 1, s.addr)
      BY <1>1, <1>9, ReadTokenIs
    <2> QED
      BY <1>1, <1>5, <2>1, Zenon
  <1> QED
    BY <1>6, <1>7, <1>8, <1>9, Zenon

LEMMA LastToken ==
  ASSUME NEW words, Readable(words), NEW p \in Nat \ {0}, NEW a \in Nat
  PROVE  fdt_parse_node(words, At(p, 0, a)) = a
  <1>1. At(p, 0, a) \in Places /\ AtEnd(words, At(p, 0, a)) /\ At(p, 0, a).addr = a
    BY DEF At, Places, AtEnd
  <1> QED
    BY <1>1, WalkStep

LEMMA ShortName ==
  ASSUME NEW words \in Seq(Nat), NEW p \in Nat, NEW q, q = p + 1, q <= Len(words),
         words[p] # 65, words[q] = 65
  PROVE  SkipName(words, p) = p + 2
  <1>1. Len(words) \in Nat /\ p + 1 \in p .. Len(words)
    BY LenProperties
  <1>2. HasNul(words[p + 1]) /\ ~HasNul(words[p])
    BY DEF HasNul
  <1>3. PICK i \in p .. Len(words) : /\ SkipName(words, p) = 1 + i /\ HasNul(words[i])
                                     /\ \A j \in p .. i - 1 : ~HasNul(words[j])
    <2> DEFINE n == Len(words)
    <2>1. n \in Nat /\ p \in Nat /\ n = Len(words)
      BY <1>1
    <2> HIDE DEF n
    <2>2. \E i \in p .. n : HasNul(words[i])
      BY <1>1, <1>2, <2>1
    <2>3. \E i \in p .. n : /\ SkipName(words, p) = 1 + i /\ HasNul(words[i])
                            /\ \A j \in p .. i - 1 : ~HasNul(words[j])
      BY ONLY <2>1, <2>2, SkipNameIs
    <2> QED
      BY <2>1, <2>3
  <1>4. i # p
    BY <1>2, <1>3
  <1>5. ~ (p + 1 \in p .. i - 1)
    BY <1>2, <1>3
  <1> QED
    BY <1>1, <1>3, <1>4, <1>5

\* What every tree begins with: the root, its properties, a child.
Begins(words) ==
  /\ words[1] = 1 /\ words[2] = 66 /\ words[3] = 65 /\ words[4] = 3 /\ words[5] = 6
  /\ words[6] = 5 /\ words[7] = 2 /\ words[8] = 1 /\ words[9] = 4
  /\ words[10] = 1 /\ words[11] = 66 /\ words[12] = 65 /\ words[13] = 3 /\ words[14] = 6
  /\ words[15] = 5 /\ words[16] = 2 /\ words[17] = 1 /\ words[18] = 4 /\ words[19] = 2
  /\ words[20] = 1 /\ words[21] = 66 /\ words[22] = 65 /\ words[23] = 3

LEMMA TreesBegin ==
  ASSUME NEW words, Readable(words), Begins(words), Len(words) >= 29, NEW a \in Nat
  PROVE  fdt_parse_node(words, At(SkipName(words, 2), 1, a)) = fdt_parse_node(words, At(23, 2, a))
  <1>0. Len(words) \in Nat /\ words \in Seq(Nat)
    BY LenProperties DEF Readable
  <1> USE DEF FDT_PROP, FDT_BEGIN_NODE, FDT_NOP
  <1>1. SkipName(words, 2) = 4 /\ SkipName(words, 11) = 13 /\ SkipName(words, 21) = 23
    <2>1. /\ words[2] = 66 /\ words[3] = 65 /\ words[11] = 66 /\ words[12] = 65
          /\ words[21] = 66 /\ words[22] = 65
      BY DEF Begins
    <2>2. 3 <= Len(words) /\ 12 <= Len(words) /\ 22 <= Len(words)
      BY <1>0
    <2>3. SkipName(words, 2) = 4
      <3>1. 2 \in Nat /\ 3 = 2 + 1 /\ 2 + 2 = 4 /\ words[2] # 65
        BY <2>1
      <3>2. SkipName(words, 2) = 2 + 2
        BY ONLY <1>0, <2>1, <2>2, <3>1, ShortName
      <3> QED
        BY <3>2
    <2>4. SkipName(words, 11) = 13
      <3>1. 11 \in Nat /\ 12 = 11 + 1 /\ words[11] # 65
        BY <2>1
      <3>2. SkipName(words, 11) = 11 + 2
        BY ONLY <1>0, <2>1, <2>2, <3>1, ShortName
      <3> QED
        BY <3>2
    <2>5. SkipName(words, 21) = 23
      <3>1. 21 \in Nat /\ 22 = 21 + 1 /\ words[21] # 65
        BY <2>1
      <3>2. SkipName(words, 21) = 21 + 2
        BY ONLY <1>0, <2>1, <2>2, <3>1, ShortName
      <3> QED
        BY <3>2
    <2> QED
      BY <2>3, <2>4, <2>5
  <1>2. align(6, 4) \div 4 = 2
    BY DEF align
  <1>3. get_ramfs_addr(5, 6, 2, a) = a
    BY DEF get_ramfs_addr, InitrdStart
  <1>4. fdt_parse_node(words, At(4, 1, a)) = fdt_parse_node(words, At(9, 1, a))
    <2>1. 4 \in 1 .. Len(words) /\ words[4] = 3 /\ words[4 + 1] = 6 /\ words[4 + 2] = 5 /\ words[4 + 3] = 2
      BY <1>0 DEF Begins
    <2>2. fdt_parse_node(words, At(4, 1, a)) = fdt_parse_node(words, At(4 + 3 + 2, 1, a))
      BY <1>2, <1>3, <2>1, TokenStep
    <2> QED
      BY <2>2
  <1>5. fdt_parse_node(words, At(9, 1, a)) = fdt_parse_node(words, At(10, 1, a))
    <2>1. 9 \in 1 .. Len(words) /\ words[9] = 4
      BY <1>0 DEF Begins
    <2>2. fdt_parse_node(words, At(9, 1, a)) = fdt_parse_node(words, At(9 + 1, 1, a))
      BY <2>1, TokenStep
    <2> QED
      BY <2>2
  <1>6. fdt_parse_node(words, At(10, 1, a)) = fdt_parse_node(words, At(13, 2, a))
    <2>1. 10 \in 1 .. Len(words) /\ words[10] = 1
      BY <1>0 DEF Begins
    <2>2. fdt_parse_node(words, At(10, 1, a)) = fdt_parse_node(words, At(SkipName(words, 10 + 1), 1 + 1, a))
      BY <2>1, TokenStep
    <2> QED
      BY <1>1, <2>2
  <1>7. fdt_parse_node(words, At(13, 2, a)) = fdt_parse_node(words, At(18, 2, a))
    <2>1. 13 \in 1 .. Len(words) /\ words[13] = 3 /\ words[13 + 1] = 6 /\ words[13 + 2] = 5 /\ words[13 + 3] = 2
      BY <1>0 DEF Begins
    <2>2. fdt_parse_node(words, At(13, 2, a)) = fdt_parse_node(words, At(13 + 3 + 2, 2, a))
      BY <1>2, <1>3, <2>1, TokenStep
    <2> QED
      BY <2>2
  <1>8. fdt_parse_node(words, At(18, 2, a)) = fdt_parse_node(words, At(19, 2, a))
    <2>1. 18 \in 1 .. Len(words) /\ words[18] = 4
      BY <1>0 DEF Begins
    <2>2. fdt_parse_node(words, At(18, 2, a)) = fdt_parse_node(words, At(18 + 1, 2, a))
      BY <2>1, TokenStep
    <2> QED
      BY <2>2
  <1>9. fdt_parse_node(words, At(19, 2, a)) = fdt_parse_node(words, At(20, 1, a))
    <2>1. 19 \in 1 .. Len(words) /\ words[19] = 2
      BY <1>0 DEF Begins
    <2>2. fdt_parse_node(words, At(19, 2, a)) = fdt_parse_node(words, At(19 + 1, 2 - 1, a))
      BY <2>1, TokenStep
    <2> QED
      BY <2>2
  <1>10. fdt_parse_node(words, At(20, 1, a)) = fdt_parse_node(words, At(23, 2, a))
    <2>1. 20 \in 1 .. Len(words) /\ words[20] = 1
      BY <1>0 DEF Begins
    <2>2. fdt_parse_node(words, At(20, 1, a)) = fdt_parse_node(words, At(SkipName(words, 20 + 1), 1 + 1, a))
      BY <2>1, TokenStep
    <2> QED
      BY <1>1, <2>2
  <1> QED
    BY <1>1, <1>4, <1>5, <1>6, <1>7, <1>8, <1>9, <1>10

\* The two trees with a magic number, word by word, where they differ.
LEMMA GoodWords ==
  ASSUME NEW w, w = GoodTree.words
  PROVE  /\ w \in Seq(Nat) /\ Len(w) = 29 /\ Begins(w)
         /\ w[24] = 4 /\ w[25] = 7 /\ w[26] = Base /\ w[27] = 2 /\ w[28] = 2 /\ w[29] = 9
  <1>1. w = (((<<1, 66, 65>> \o (((<<3, 6, 5>> \o <<2, 1>>) \o << 4 >>)
              \o ((<<1, 66, 65>> \o ((<<3, 6, 5>> \o <<2, 1>>) \o << 4 >>)) \o << 2 >>)
              \o ((<<1, 66, 65>> \o (<<3, 4, 7>> \o <<Base>>)) \o << 2 >>))) \o << 2 >>) \o << 9 >>)
    BY Zenon DEF GoodTree, Tree, Node, Decoys, Prop, FDT_BEGIN_NODE, FDT_END_NODE, FDT_PROP,
                FDT_NOP, FDT_END, InitrdStart
  <1> QED
    BY <1>1, BaseAssumption DEF Begins

LEMMA DecoysAre ==
  /\ Decoys = <<3, 6, 5, 2, 1, 4>>
  /\ Node(Decoys) = <<1, 66, 65, 3, 6, 5, 2, 1, 4, 2>>
  <1>1. ASSUME NEW d, d = (<<3, 6, 5>> \o <<2, 1>>) \o << 4 >>
        PROVE  d = <<3, 6, 5, 2, 1, 4>>
    <2>1. /\ d \in Seq(Nat) /\ Len(d) = 6 /\ d[1] = 3 /\ d[2] = 6 /\ d[3] = 5 /\ d[4] = 2
          /\ d[5] = 1 /\ d[6] = 4
      BY <1>1
    <2> QED
      BY <2>1
  <1>2. Decoys = <<3, 6, 5, 2, 1, 4>>
    <2>1. Decoys = (<<3, 6, 5>> \o <<2, 1>>) \o << 4 >>
      BY Zenon DEF Decoys, Prop, FDT_PROP, FDT_END_NODE, FDT_BEGIN_NODE, FDT_NOP
    <2> QED
      BY <1>1, <2>1
  <1>3. ASSUME NEW d, d = (<<1, 66, 65>> \o <<3, 6, 5, 2, 1, 4>>) \o << 2 >>
        PROVE  d = <<1, 66, 65, 3, 6, 5, 2, 1, 4, 2>>
    <2>1. /\ d \in Seq(Nat) /\ Len(d) = 10 /\ d[1] = 1 /\ d[2] = 66 /\ d[3] = 65 /\ d[4] = 3
          /\ d[5] = 6 /\ d[6] = 5 /\ d[7] = 2 /\ d[8] = 1 /\ d[9] = 4 /\ d[10] = 2
      BY <1>3
    <2> QED
      BY <2>1
  <1>4. Node(Decoys) = (<<1, 66, 65>> \o <<3, 6, 5, 2, 1, 4>>) \o << 2 >>
    BY <1>2, Zenon DEF Node, FDT_END_NODE, FDT_BEGIN_NODE
  <1> QED
    BY <1>2, <1>3, <1>4

LEMMA TreeReadable ==
  ASSUME NEW w \in Seq(Nat), Begins(w), NEW n, n \in {29, 30}, Len(w) = n,
         \A p \in 24 .. n : w[p] # 1 /\ w[p] # 3
  PROVE  Readable(w)
  <1>1. \A p \in 1 .. n : p \in 24 .. n \/ p \in 1 .. 8 \/ p \in 9 .. 16 \/ p \in 17 .. 23
    OBVIOUS
  <1>2. /\ \A p \in 1 .. 8 : p = 1 \/ p = 2 \/ p = 3 \/ p = 4 \/ p = 5 \/ p = 6 \/ p = 7 \/ p = 8
        /\ \A p \in 9 .. 16 : p = 9 \/ p = 10 \/ p = 11 \/ p = 12 \/ p = 13 \/ p = 14 \/ p = 15 \/ p = 16
        /\ \A p \in 17 .. 23 : p = 17 \/ p = 18 \/ p = 19 \/ p = 20 \/ p = 21 \/ p = 22 \/ p = 23
    OBVIOUS
  <1>3. ASSUME NEW p \in 1 .. n
        PROVE  /\ w[p] = 3 => p <= 23
               /\ w[p] = 1 => p <= 20
    <2>1. CASE p \in 24 .. n
      BY <2>1
    <2>2. CASE p \in 1 .. 8
      BY <2>2 DEF Begins
    <2>3. CASE p \in 9 .. 16
      BY <2>3 DEF Begins
    <2>4. CASE p \in 17 .. 23
      <3>1. w[21] # 1 /\ w[22] # 1 /\ w[23] # 1
        BY DEF Begins
      <3>2. p <= 23 /\ (p <= 20 \/ p = 21 \/ p = 22 \/ p = 23)
        BY ONLY <2>4
      <3> QED
        BY ONLY <3>1, <3>2
    <2> QED
      BY <1>1, <2>1, <2>2, <2>3, <2>4
  <1>4. w[22] = 65 /\ 22 \in 1 .. n /\ n >= 29
    BY DEF Begins
  <1>5. ASSUME NEW p \in 1 .. n, w[p] = FDT_PROP
        PROVE  p + 3 <= n
    BY <1>3, <1>4, <1>5 DEF FDT_PROP
  <1>6. ASSUME NEW p \in 1 .. n, w[p] = FDT_BEGIN_NODE
        PROVE  \E i \in p + 1 .. n : HasNul(w[i])
    <2>1. 22 \in p + 1 .. n
      BY <1>3, <1>4, <1>6 DEF FDT_BEGIN_NODE
    <2> QED
      BY <1>4, <2>1 DEF HasNul
  <1> QED
    BY <1>5, <1>6 DEF Readable

LEMMA BadWords ==
  ASSUME NEW w, w = Tree(TRUE, Prop(InitrdStart, 8, <<0, Base>>)).words
  PROVE  /\ w \in Seq(Nat) /\ Len(w) = 30 /\ Begins(w)
         /\ w[24] = 8 /\ w[25] = 7 /\ w[26] = 0 /\ w[27] = Base /\ w[28] = 2 /\ w[29] = 2 /\ w[30] = 9
  <1> DEFINE k == (<<1, 66, 65>> \o (<<3, 8, 7>> \o <<0, Base>>)) \o << 2 >>
  <1>1. w = ((<<1, 66, 65>> \o ((Decoys \o Node(Decoys)) \o k)) \o << 2 >>) \o << 9 >>
    BY Zenon DEF Tree, Node, Prop, FDT_BEGIN_NODE, FDT_END_NODE, FDT_PROP,
                FDT_END, InitrdStart
  <1>2. k = <<1, 66, 65, 3, 8, 7, 0, Base, 2>>
    <2>1. /\ k \in Seq(Nat) /\ Len(k) = 9 /\ k[1] = 1 /\ k[2] = 66 /\ k[3] = 65 /\ k[4] = 3
          /\ k[5] = 8 /\ k[6] = 7 /\ k[7] = 0 /\ k[8] = Base /\ k[9] = 2
      BY BaseAssumption
    <2>2. Base \in Nat
      BY BaseAssumption
    <2> HIDE DEF k
    <2> QED
      BY <2>1, <2>2
  <1> HIDE DEF k
  <1>3. w = ((<<1, 66, 65>> \o ((<<3, 6, 5, 2, 1, 4>> \o <<1, 66, 65, 3, 6, 5, 2, 1, 4, 2>>)
                  \o <<1, 66, 65, 3, 8, 7, 0, Base, 2>>)) \o << 2 >>) \o << 9 >>
    BY <1>1, <1>2, DecoysAre, Zenon
  <1>4. ASSUME NEW v, NEW b \in Nat,
               v = ((<<1, 66, 65>> \o ((<<3, 6, 5, 2, 1, 4>> \o <<1, 66, 65, 3, 6, 5, 2, 1, 4, 2>>)
                  \o <<1, 66, 65, 3, 8, 7, 0, b, 2>>)) \o << 2 >>) \o << 9 >>
        PROVE  /\ v \in Seq(Nat) /\ Len(v) = 30 /\ Begins(v)
               /\ v[24] = 8 /\ v[25] = 7 /\ v[26] = 0 /\ v[27] = b /\ v[28] = 2 /\ v[29] = 2 /\ v[30] = 9
    <2>1. v \in Seq(Nat) /\ Len(v) = 30
      BY ONLY <1>4
    <2>2. Begins(v)
      BY ONLY <1>4 DEF Begins
    <2>3. v[24] = 8 /\ v[25] = 7 /\ v[26] = 0 /\ v[27] = b /\ v[28] = 2 /\ v[29] = 2 /\ v[30] = 9
      BY ONLY <1>4
    <2> QED
      BY <2>1, <2>2, <2>3
  <1>5. Base \in Nat
    BY BaseAssumption
  <1> QED
    <2>1. w = ((<<1, 66, 65>> \o ((<<3, 6, 5, 2, 1, 4>> \o <<1, 66, 65, 3, 6, 5, 2, 1, 4, 2>>)
                  \o <<1, 66, 65, 3, 8, 7, 0, Base, 2>>)) \o << 2 >>) \o << 9 >>
      BY <1>3
    <2> HIDE <1>3
    <2> QED
      BY <1>4, <1>5, <2>1, Zenon

LEMMA TreesDiffer ==
  ASSUME NEW t \in BadTrees
  PROVE  t # GoodTree
  <1>1. GoodTree.magic = TRUE /\ Len(GoodTree.words) = 29
    BY GoodWords DEF GoodTree, Tree
  <1>2. CASE t = Tree(FALSE, Prop(InitrdStart, 4, <<Base>>))
    <2>1. t.magic = FALSE
      BY <1>2 DEF Tree
    <2> QED
      BY <1>1, <2>1
  <1>3. CASE t = Tree(TRUE, Prop(InitrdStart, 8, <<0, Base>>))
    <2>1. Len(t.words) = 30
      BY <1>3, BadWords
    <2> QED
      BY <1>1, <2>1
  <1> QED
    BY <1>2, <1>3 DEF BadTrees

\* The walk of the good tree finds the archive.
LEMMA GoodAddress ==
  ASSUME NEW a \in Nat
  PROVE  fdt_traverse(GoodTree, a) = Base
  <1> DEFINE w == GoodTree.words
  <1>1. /\ w \in Seq(Nat) /\ Len(w) = 29 /\ Begins(w)
        /\ w[24] = 4 /\ w[25] = 7 /\ w[26] = Base /\ w[27] = 2 /\ w[28] = 2 /\ w[29] = 9
    BY GoodWords
  <1>2. GoodTree.magic /\ fdt_traverse(GoodTree, a) =
          IF ~GoodTree.magic \/ w[1] # FDT_BEGIN_NODE
            THEN a ELSE fdt_parse_node(w, At(SkipName(w, 2), 1, a))
    <2>1. GoodTree.magic
      BY DEF GoodTree, Tree
    <2> QED
      BY <2>1, Zenon DEF fdt_traverse
  <1> HIDE DEF w
  <1>3. Base \in Nat /\ Base # 1 /\ Base # 3
    BY BaseAssumption
  <1>4. Readable(w)
    <2>1. \A p \in 24 .. 29 : p = 24 \/ p = 25 \/ p = 26 \/ p = 27 \/ p = 28 \/ p = 29
      OBVIOUS
    <2>2. \A p \in 24 .. 29 : w[p] # 1 /\ w[p] # 3
      BY <1>1, <1>3, <2>1
    <2> QED
      BY ONLY <1>1, <2>2, TreeReadable
  <1>5. fdt_traverse(GoodTree, a) = fdt_parse_node(w, At(23, 2, a))
    <2>1. w[1] = FDT_BEGIN_NODE
      BY <1>1 DEF Begins, FDT_BEGIN_NODE
    <2>2. Len(w) >= 29
      BY <1>1
    <2>3. fdt_parse_node(w, At(SkipName(w, 2), 1, a)) = fdt_parse_node(w, At(23, 2, a))
      BY <1>1, <1>4, <2>2, TreesBegin
    <2> QED
      BY <1>2, <2>1, <2>3
  <1>6. fdt_parse_node(w, At(23, 2, a)) = fdt_parse_node(w, At(27, 2, Base))
    <2>1. 23 \in 1 .. Len(w) /\ w[23] = FDT_PROP /\ w[23 + 1] = 4 /\ w[23 + 2] = 7 /\ w[23 + 3] = Base
      BY <1>1 DEF Begins, FDT_PROP
    <2>2. 2 \in Nat \ {0} /\ align(4, 4) \div 4 = 1 /\ get_ramfs_addr(7, 4, Base, a) = Base
      BY DEF align, get_ramfs_addr, InitrdStart
    <2>3. fdt_parse_node(w, At(23, 2, a)) =
            fdt_parse_node(w, At(23 + 3 + align(w[23 + 1], 4) \div 4, 2,
                                 get_ramfs_addr(w[23 + 2], w[23 + 1], w[23 + 3], a)))
      BY <1>4, <2>1, <2>2, TokenStep
    <2>4. fdt_parse_node(w, At(23, 2, a)) = fdt_parse_node(w, At(23 + 3 + 1, 2, Base))
      BY ONLY <2>1, <2>2, <2>3
    <2> QED
      BY <2>4
  <1>7. fdt_parse_node(w, At(27, 2, Base)) = fdt_parse_node(w, At(28, 1, Base))
    <2>1. 27 \in 1 .. Len(w) /\ w[27] \notin {FDT_PROP, FDT_BEGIN_NODE, FDT_NOP} /\ 2 \in Nat \ {0}
      BY <1>1 DEF FDT_PROP, FDT_BEGIN_NODE, FDT_NOP
    <2>2. fdt_parse_node(w, At(27, 2, Base)) = fdt_parse_node(w, At(27 + 1, 2 - 1, Base))
      BY ONLY <1>3, <1>4, <2>1, TokenStep
    <2> QED
      BY <2>2
  <1>8. fdt_parse_node(w, At(28, 1, Base)) = fdt_parse_node(w, At(29, 0, Base))
    <2>1. 28 \in 1 .. Len(w) /\ w[28] \notin {FDT_PROP, FDT_BEGIN_NODE, FDT_NOP} /\ 1 \in Nat \ {0}
      BY <1>1 DEF FDT_PROP, FDT_BEGIN_NODE, FDT_NOP
    <2>2. fdt_parse_node(w, At(28, 1, Base)) = fdt_parse_node(w, At(28 + 1, 1 - 1, Base))
      BY ONLY <1>3, <1>4, <2>1, TokenStep
    <2> QED
      BY <2>2
  <1>9. fdt_parse_node(w, At(29, 0, Base)) = Base
    BY <1>3, <1>4, LastToken
  <1> QED
    BY <1>5, <1>6, <1>7, <1>8, <1>9

\* The others leave the address as it was.
LEMMA BadAddress ==
  ASSUME NEW t \in BadTrees, NEW a \in Nat
  PROVE  fdt_traverse(t, a) = a
  <1>1. CASE t = Tree(FALSE, Prop(InitrdStart, 4, <<Base>>))
    BY <1>1 DEF Tree, fdt_traverse
  <1>2. CASE t = Tree(TRUE, Prop(InitrdStart, 8, <<0, Base>>))
    <2> DEFINE w == t.words
    <2>1. /\ w \in Seq(Nat) /\ Len(w) = 30 /\ Begins(w)
          /\ w[24] = 8 /\ w[25] = 7 /\ w[26] = 0 /\ w[27] = Base /\ w[28] = 2 /\ w[29] = 2 /\ w[30] = 9
      BY <1>2, BadWords
    <2>2. t.magic /\ fdt_traverse(t, a) =
            IF ~t.magic \/ w[1] # FDT_BEGIN_NODE
              THEN a ELSE fdt_parse_node(w, At(SkipName(w, 2), 1, a))
      <3>1. t.magic
        BY <1>2 DEF Tree
      <3> QED
        BY <3>1, Zenon DEF fdt_traverse
    <2> HIDE DEF w
    <2>3. Base \in Nat /\ Base # 1 /\ Base # 3
      BY BaseAssumption
    <2>4. Readable(w)
      <3>1. \A p \in 24 .. 30 : p = 24 \/ p = 25 \/ p = 26 \/ p = 27 \/ p = 28 \/ p = 29 \/ p = 30
        OBVIOUS
      <3>2. \A p \in 24 .. 30 : w[p] # 1 /\ w[p] # 3
        BY <2>1, <2>3, <3>1
      <3> QED
        BY ONLY <2>1, <3>2, TreeReadable
    <2>5. fdt_traverse(t, a) = fdt_parse_node(w, At(23, 2, a))
      <3>1. w[1] = FDT_BEGIN_NODE
        BY <2>1 DEF Begins, FDT_BEGIN_NODE
      <3>2. Len(w) >= 29
        BY <2>1
      <3>3. fdt_parse_node(w, At(SkipName(w, 2), 1, a)) = fdt_parse_node(w, At(23, 2, a))
        BY <2>1, <2>4, <3>2, TreesBegin
      <3> QED
        BY <2>2, <3>1, <3>3
    <2>6. fdt_parse_node(w, At(23, 2, a)) = fdt_parse_node(w, At(28, 2, a))
      <3>1. 23 \in 1 .. Len(w) /\ w[23] = FDT_PROP /\ w[23 + 1] = 8 /\ w[23 + 2] = 7 /\ w[23 + 3] = 0
        BY <2>1 DEF Begins, FDT_PROP
      <3>2. 2 \in Nat \ {0} /\ align(8, 4) \div 4 = 2 /\ get_ramfs_addr(7, 8, 0, a) = a
        BY DEF align, get_ramfs_addr, InitrdStart
      <3>3. fdt_parse_node(w, At(23, 2, a)) =
              fdt_parse_node(w, At(23 + 3 + align(w[23 + 1], 4) \div 4, 2,
                                   get_ramfs_addr(w[23 + 2], w[23 + 1], w[23 + 3], a)))
        BY <2>4, <3>1, <3>2, TokenStep
      <3>4. fdt_parse_node(w, At(23, 2, a)) = fdt_parse_node(w, At(23 + 3 + 2, 2, a))
        BY ONLY <3>1, <3>2, <3>3
      <3> QED
        BY <3>4
    <2>7. fdt_parse_node(w, At(28, 2, a)) = fdt_parse_node(w, At(29, 1, a))
      <3>1. 28 \in 1 .. Len(w) /\ w[28] \notin {FDT_PROP, FDT_BEGIN_NODE, FDT_NOP} /\ 2 \in Nat \ {0}
        BY <2>1 DEF FDT_PROP, FDT_BEGIN_NODE, FDT_NOP
      <3>2. fdt_parse_node(w, At(28, 2, a)) = fdt_parse_node(w, At(28 + 1, 2 - 1, a))
        BY <2>4, <3>1, TokenStep
      <3> QED
        BY <3>2
    <2>8. fdt_parse_node(w, At(29, 1, a)) = fdt_parse_node(w, At(30, 0, a))
      <3>1. 29 \in 1 .. Len(w) /\ w[29] \notin {FDT_PROP, FDT_BEGIN_NODE, FDT_NOP} /\ 1 \in Nat \ {0}
        BY <2>1 DEF FDT_PROP, FDT_BEGIN_NODE, FDT_NOP
      <3>2. fdt_parse_node(w, At(29, 1, a)) = fdt_parse_node(w, At(29 + 1, 1 - 1, a))
        BY <2>4, <3>1, TokenStep
      <3> QED
        BY <3>2
    <2>9. fdt_parse_node(w, At(30, 0, a)) = a
      BY <2>4, LastToken
    <2> QED
      BY <2>5, <2>6, <2>7, <2>8, <2>9
  <1> QED
    BY <1>1, <1>2 DEF BadTrees

-----------------------------------------------------------------------------
(***************************************************************************)
(* The shell's types.  The address is none, or the archive's, which is     *)
(* what each walk of the tree leaves it; a mailbox call that is made is    *)
(* one of the two.                                                         *)
(***************************************************************************)
AddressFound ==
  /\ lab \in {1, 2, 3, 5}
  /\ mem = newc(Base, files)
  /\ \/ files \in Archives /\ dtb = GoodTree
     \/ files = <<>> /\ dtb \in BadTrees
  /\ fdt_cpio_addr = IF lab = 1 \/ dtb # GoodTree THEN 0 ELSE Base
  /\ lab = 1 => reader = "shell"

CallsLeft == pc \in {"mailbox_write", "mailbox_read"} => calls \in 1 .. 2

ShellIInv == IInv /\ AddressFound /\ TypeOK /\ CallsLeft

LEMMA CommandsOfLab1 ==
  ASSUME NEW cmd, lab = 1
  PROVE  get_command_id(cmd) \in CommandsLab1 \cup {"unknown"}
  <1> DEFINE whole == {w \in Commands : cmd = <<Word[w]>>}
  <1>1. Commands = CommandsLab1
    BY DEF Commands
  <1>2. CASE whole # {}
    <2>1. get_command_id(cmd) = CHOOSE w \in whole : TRUE
      BY <1>2 DEF get_command_id
    <2>2. (CHOOSE w \in whole : TRUE) \in whole
      BY <1>2
    <2> QED
      BY <1>1, <2>1, <2>2
  <1>3. CASE whole = {}
    <2>1. get_command_id(cmd) = "unknown"
      BY <1>3 DEF get_command_id
    <2> QED
      BY <2>1
  <1> QED
    BY <1>2, <1>3

LEMMA LabHasCommand ==
  ASSUME NEW cmd, get_command_id(cmd) \in {"ls", "cat", "load_program", "dtb_test"}
  PROVE  lab # 1
  BY CommandsOfLab1 DEF CommandsLab1

\* Whatever address was known, the walk finds the archive or changes nothing.
LEMMA WalkFinds ==
  ASSUME \/ files \in Archives /\ dtb = GoodTree
         \/ files = <<>> /\ dtb \in BadTrees,
         NEW a \in Nat
  PROVE  fdt_traverse(dtb, a) = IF dtb = GoodTree THEN Base ELSE a
  BY GoodAddress, BadAddress, TreesDiffer

LEMMA InitTypes == Init => ShellIInv
  <1> SUFFICES ASSUME Init
               PROVE  ShellIInv
    OBVIOUS
  <1>1. AddressFound
    <2>1. fdt_traverse(dtb, 0) = IF dtb = GoodTree THEN Base ELSE 0
      BY WalkFinds DEF Init
    <2> QED
      BY <2>1 DEF Init, AddressFound
  <1>2. fdt_cpio_addr \in Nat
    BY <1>1, BaseAssumption DEF AddressFound
  <1>3. TypeOK
    BY <1>2, CmdBufferSizeAssumption, HeapSizeAssumption, MaxTimersAssumption
       DEF Init, TypeOK, MaxLen
  <1>4. CallsLeft
    BY DEF Init, CallsLeft
  <1> QED
    BY <1>1, <1>3, <1>4, InitReads DEF ShellIInv

LEMMA AddressStaysFound ==
  ASSUME ShellIInv, [Next]_vars
  PROVE  AddressFound'
  <1>1. AddressFound /\ fdt_cpio_addr \in Nat
    BY DEF ShellIInv, TypeOK
  <1>2. CASE UNCHANGED <<lab, files, mem, dtb, fdt_cpio_addr>> /\ (lab = 1 => reader' = "shell")
    BY <1>1, <1>2 DEF AddressFound
  <1>3. CASE BeginLine \/ Type \/ TimerIrq \/ Gpu \/ task_dispatcher \/ Prompt \/ ReadChar \/ LineFull
             \/ mailbox_write \/ mailbox_read \/ test_allocator_exhaustion \/ UNCHANGED vars
    BY <1>1, <1>2, <1>3 DEF AddressFound, BeginLine, Type, TimerIrq, Gpu, task_dispatcher, Prompt,
       ReadChar, LineFull, mailbox_write, mailbox_read, test_allocator_exhaustion, vars, memory
  <1>4. CASE show \/ info \/ reboot \/ SetTimer \/ alloc_test \/ ls \/ cpio_cat \/ cpio_load_program
    BY <1>1, <1>2, <1>4 DEF show, info, reboot, SetTimer, alloc_test, ls, cpio_cat,
       cpio_load_program, Is, IsOneOf, Takes, Done, memory
  <1>5. CASE AskName
    BY <1>1, <1>2, <1>5, LabHasCommand DEF AskName, IsOneOf, Takes, Done, memory
  <1>6. CASE dtb_test
    <2>1. /\ lab # 1 /\ UNCHANGED <<lab, files, mem, dtb>> /\ reader' = "shell"
          /\ fdt_cpio_addr' = fdt_traverse(dtb, fdt_cpio_addr)
      BY <1>6, LabHasCommand DEF dtb_test, Is, IsOneOf, Takes, Done, memory
    <2>2. fdt_cpio_addr' = fdt_cpio_addr
      BY <1>1, <2>1, WalkFinds DEF AddressFound
    <2> QED
      BY <1>1, <2>1, <2>2 DEF AddressFound
  <1> QED
    BY <1>3, <1>4, <1>5, <1>6 DEF Next, shell, parse_command

LEMMA TakesTypes ==
  ASSUME NEW by, Takes(by), TypeOK, reader' \in Readers
  PROVE  buffer' \in Seq(Nat) /\ Len(buffer') <= MaxLen(reader)' - 1
  BY CmdBufferSizeAssumption, MaxReaderBufferAssumption DEF Takes, MaxLen

LEMMA CommandTypes ==
  ASSUME ShellIInv, AddressFound', parse_command \/ cpio_cat \/ cpio_load_program
  PROVE  TypeOK' /\ CallsLeft'
  <1> USE DEF Done
  <1>1. /\ TypeOK /\ fdt_cpio_addr' \in Nat
    BY BaseAssumption DEF ShellIInv, AddressFound
  <1>2. /\ pc' \in {"dispatch", "read", "mailbox_write", "alloc_test", "hang", "program"}
        /\ reader' \in Readers /\ \E by \in Readers : Takes(by)
    <2>1. CASE show \/ reboot \/ dtb_test \/ SetTimer \/ alloc_test \/ ls \/ info
      BY <2>1 DEF show, reboot, dtb_test, SetTimer, alloc_test, ls, info, Is, IsOneOf, Readers
    <2>2. CASE AskName
      BY <2>2 DEF AskName, IsOneOf, Readers
    <2>3. CASE cpio_cat
      BY <2>3 DEF cpio_cat, Readers
    <2>4. CASE cpio_load_program
      BY <2>4 DEF cpio_load_program, Readers
    <2> QED
      BY <2>1, <2>2, <2>3, <2>4 DEF parse_command
  <1>3. buffer' \in Seq(Nat) /\ Len(buffer') <= MaxLen(reader)' - 1
    BY <1>1, <1>2, TakesTypes
  <1>4. /\ heap_ptr' = heap_ptr /\ tasks' = tasks
        /\ timers' = timers \/ (timers' = timers + 1 /\ timers < MaxTimers)
    <2>1. CASE show \/ reboot \/ dtb_test \/ alloc_test \/ ls \/ info \/ AskName \/ cpio_cat
               \/ cpio_load_program
      BY <2>1 DEF show, reboot, dtb_test, alloc_test, ls, info, AskName, cpio_cat,
                  cpio_load_program, queue
    <2>2. CASE SetTimer
      BY <2>2 DEF SetTimer
    <2> QED
      BY <2>1, <2>2 DEF parse_command
  <1>5. \/ calls' = 2 /\ mailbox' \in {"free", "full"}
        \/ UNCHANGED <<calls, mailbox>> /\ pc' # "mailbox_write"
    <2>1. CASE show \/ reboot \/ dtb_test \/ alloc_test \/ ls \/ SetTimer \/ cpio_cat
      BY <2>1 DEF show, reboot, dtb_test, alloc_test, ls, SetTimer, cpio_cat
    <2>2. CASE AskName \/ cpio_load_program
      BY <2>2 DEF AskName, cpio_load_program
    <2>3. CASE info
      BY <2>3 DEF info
    <2> QED
      BY <2>1, <2>2, <2>3 DEF parse_command
  <1>6. CallsLeft'
    BY <1>2, <1>5 DEF CallsLeft
  <1>7. /\ calls' \in 0 .. 2 /\ mailbox' \in {"free", "full", "sent", "answered"}
        /\ timers' \in 0 .. MaxTimers /\ tasks' \in Nat /\ heap_ptr' \in 0 .. HeapSize
    BY <1>1, <1>4, <1>5, MaxTimersAssumption DEF TypeOK
  <1> QED
    BY <1>1, <1>2, <1>3, <1>6, <1>7 DEF TypeOK, Readers

LEMMA AllocatorTypes ==
  ASSUME TypeOK
  PROVE  simple_allocator(64) \in 0 .. HeapSize
  BY HeapSizeAssumption DEF TypeOK, simple_allocator, align

LEMMA AroundTypes ==
  ASSUME ShellIInv, AddressFound', Characters',
         \/ BeginLine \/ Type \/ TimerIrq \/ Gpu \/ task_dispatcher \/ Prompt
         \/ UNCHANGED vars
  PROVE  TypeOK' /\ CallsLeft'
  <1>1. TypeOK /\ CallsLeft /\ buffer' \in Seq(Nat) /\ fdt_cpio_addr' \in Nat
    BY BaseAssumption DEF ShellIInv, AddressFound, Characters
  <1>2. UNCHANGED <<reader, buffer, calls, heap_ptr>>
    BY DEF BeginLine, Type, TimerIrq, Gpu, task_dispatcher, Prompt, vars, queue
  <1>3. Len(buffer') <= MaxLen(reader)' - 1
    BY <1>1, <1>2 DEF TypeOK, MaxLen
  <1>4. /\ pc' = pc \/ pc' = "read"
        /\ mailbox' = mailbox \/ mailbox' \in {"free", "answered"}
    BY DEF BeginLine, Type, TimerIrq, Gpu, task_dispatcher, Prompt, vars
  <1>5. timers' \in 0 .. MaxTimers /\ tasks' \in Nat
    <2>1. CASE TimerIrq
      BY <1>1, <2>1, MaxTimersAssumption DEF TimerIrq, TypeOK
    <2>2. CASE task_dispatcher
      BY <1>1, <2>2 DEF task_dispatcher, TypeOK
    <2>3. CASE BeginLine \/ Type \/ Gpu \/ Prompt \/ UNCHANGED vars
      BY <1>1, <2>3 DEF BeginLine, Type, Gpu, Prompt, vars, queue, TypeOK
    <2> QED
      BY <2>1, <2>2, <2>3
  <1>6. CallsLeft'
    BY <1>1, <1>2, <1>4 DEF CallsLeft
  <1> QED
    BY <1>1, <1>2, <1>3, <1>4, <1>5, <1>6 DEF TypeOK

LEMMA ReadingTypes ==
  ASSUME ShellIInv, AddressFound', Characters', ReadChar \/ LineFull
  PROVE  TypeOK' /\ CallsLeft'
  <1>1. TypeOK /\ CallsLeft /\ buffer' \in Seq(Nat) /\ fdt_cpio_addr' \in Nat
    BY BaseAssumption DEF ShellIInv, AddressFound, Characters
  <1>2. UNCHANGED <<reader, calls, mailbox, timers, tasks, heap_ptr>> /\ pc' \in {"read", "parse"}
    BY DEF ReadChar, LineFull, queue
  <1>3. Len(buffer') <= MaxLen(reader)' - 1
    <2>1. CASE buffer' = buffer
      BY <1>1, <1>2, <2>1 DEF TypeOK, MaxLen
    <2>2. CASE buffer' # buffer
      <3>1. Len(buffer) < MaxLen(reader) - 1 /\ buffer' = Append(buffer, Head(fifo))
        BY <2>2 DEF ReadChar, LineFull
      <3>2. MaxLen(reader) \in Nat /\ MaxLen(reader)' = MaxLen(reader)
        BY <1>2, CmdBufferSizeAssumption, MaxReaderBufferAssumption DEF MaxLen
      <3>3. fifo # <<>> /\ Head(fifo) \in Nat
        BY <2>2 DEF ReadChar, LineFull, ShellIInv, IInv, Characters
      <3>4. buffer \in Seq(Nat) /\ Len(buffer) \in Nat
        BY <1>1, LenProperties DEF TypeOK
      <3>5. Len(buffer') = Len(buffer) + 1
        BY <3>1, <3>3, <3>4, AppendProperties
      <3> QED
        BY <3>1, <3>2, <3>4, <3>5
    <2> QED
      BY <2>1, <2>2
  <1>4. CallsLeft'
    BY <1>2 DEF CallsLeft
  <1> QED
    BY <1>1, <1>2, <1>3, <1>4 DEF TypeOK

LEMMA CallingTypes ==
  ASSUME ShellIInv, AddressFound', Characters',
         mailbox_write \/ mailbox_read \/ test_allocator_exhaustion
  PROVE  TypeOK' /\ CallsLeft'
  <1>1. TypeOK /\ CallsLeft /\ buffer' \in Seq(Nat) /\ fdt_cpio_addr' \in Nat
    BY BaseAssumption DEF ShellIInv, AddressFound, Characters
  <1>2. UNCHANGED <<reader, buffer, timers, tasks>>
    BY DEF mailbox_write, mailbox_read, test_allocator_exhaustion, queue
  <1>3. Len(buffer') <= MaxLen(reader)' - 1
    BY <1>1, <1>2 DEF TypeOK, MaxLen
  <1>4. heap_ptr' \in 0 .. HeapSize
    BY <1>1, AllocatorTypes DEF TypeOK, mailbox_write, mailbox_read, test_allocator_exhaustion, queue
  <1>5. /\ calls' \in 0 .. 2 /\ CallsLeft' /\ mailbox' \in {"free", "full", "sent", "answered"}
        /\ pc' \in {"dispatch", "alloc_test", "mailbox_write", "mailbox_read"}
    <2>1. CASE mailbox_write
      BY <1>1, <2>1 DEF mailbox_write, CallsLeft, TypeOK
    <2>2. CASE mailbox_read
      <3>1. /\ calls \in 1 .. 2 /\ calls' = calls - 1 /\ mailbox' \in {"free", "full"}
            /\ pc' = IF calls' = 0 THEN "dispatch" ELSE "mailbox_write"
        BY <1>1, <2>2 DEF mailbox_read, CallsLeft
      <3>2. calls' = 0 \/ calls' = 1
        BY <3>1
      <3> QED
        BY <3>1, <3>2 DEF CallsLeft
    <2>3. CASE test_allocator_exhaustion
      BY <1>1, <2>3 DEF test_allocator_exhaustion, CallsLeft, TypeOK
    <2> QED
      BY <2>1, <2>2, <2>3
  <1> QED
    BY <1>1, <1>2, <1>3, <1>4, <1>5 DEF TypeOK

LEMMA ShellTypes == ShellIInv /\ [Next]_vars => ShellIInv'
  <1> SUFFICES ASSUME ShellIInv, [Next]_vars
               PROVE  ShellIInv'
    OBVIOUS
  <1>1. IInv' /\ Characters' /\ AddressFound'
    BY StepReads, AddressStaysFound DEF ShellIInv, IInv
  <1>2. TypeOK' /\ CallsLeft'
    BY <1>1, CommandTypes, AroundTypes, ReadingTypes, CallingTypes DEF Next, shell
  <1> QED
    BY <1>1, <1>2 DEF ShellIInv

\* For every size of the buffers, archive, heap and number of timers, a line
\* leaves room for its NUL in its buffer, simple_allocator stays within the
\* heap, and each mailbox call that is made is one of info's two.
THEOREM ShellTypesCorrect == Spec => []TypeOK
  <1>1. ShellIInv => TypeOK
    BY DEF ShellIInv
  <1> QED
    BY <1>1, InitTypes, ShellTypes, PTL DEF Spec

-----------------------------------------------------------------------------
(* Where an archive's entries are.                                         *)

\* Sums of positive numbers: each is above the ones before.
SumsOf(f, base, d, n) ==
  /\ f \in [1 .. n -> Nat] /\ f[1] = base
  /\ \A k \in 2 .. n : f[k] = f[k - 1] + d[k - 1]

LEMMA SumsExist ==
  ASSUME NEW n \in Nat \ {0}, NEW base \in Nat, NEW d, \A k \in 1 .. n : d[k] \in Nat
  PROVE  \E f : SumsOf(f, base, d, n)
  <1> DEFINE T == {m \in Nat : m + 1 <= n => \E f : SumsOf(f, base, d, m + 1)}
  <1>1. 0 \in T
    <2>1. SumsOf([k \in 1 .. 1 |-> base], base, d, 1)
      BY DEF SumsOf
    <2> QED
      BY <2>1
  <1>2. ASSUME NEW m \in Nat, m \in T
        PROVE  m + 1 \in T
    <2> SUFFICES ASSUME m + 2 <= n
                 PROVE  \E f : SumsOf(f, base, d, m + 2)
      OBVIOUS
    <2>1. PICK f : SumsOf(f, base, d, m + 1)
      BY <1>2
    <2> DEFINE x == f[m + 1] + d[m + 1]
    <2>2. x \in Nat
      BY <2>1 DEF SumsOf
    <2> HIDE DEF x
    <2> DEFINE g == [k \in 1 .. m + 2 |-> IF k = m + 2 THEN x ELSE f[k]]
    <2>3. g \in [1 .. m + 2 -> Nat] /\ g[1] = base
      BY <2>1, <2>2 DEF SumsOf
    <2>4. ASSUME NEW k \in 2 .. m + 2
          PROVE  g[k] = g[k - 1] + d[k - 1]
      <3>1. CASE k = m + 2
        <4>1. g[k] = x /\ g[k - 1] = f[m + 1] /\ k - 1 = m + 1
          BY <3>1
        <4> QED
          BY <4>1 DEF x
      <3>2. CASE k # m + 2
        <4>1. k \in 2 .. m + 1 /\ g[k] = f[k] /\ g[k - 1] = f[k - 1]
          BY <3>2
        <4> QED
          BY <4>1, <2>1 DEF SumsOf
      <3> QED
        BY <3>1, <3>2
    <2> HIDE DEF g
    <2>5. SumsOf(g, base, d, m + 2)
      BY <2>3, <2>4 DEF SumsOf
    <2> QED
      BY <2>5
  <1>3. Nat \subseteq T
    BY <1>1, <1>2, SetInduction
  <1>4. n - 1 \in T /\ (n - 1) + 1 = n
    BY <1>3
  <1> QED
    BY <1>4

LEMMA SumsGrow ==
  ASSUME NEW n \in Nat \ {0}, NEW base \in Nat, NEW d, \A k \in 1 .. n : d[k] \in Nat,
         NEW f, SumsOf(f, base, d, n), NEW j \in 1 .. n
  PROVE  \A k \in 1 .. n : j < k => f[j] + d[j] <= f[k]
  <1> DEFINE T == {m \in Nat : j + m + 1 <= n => f[j] + d[j] <= f[j + m + 1]}
  <1>1. 0 \in T
    BY DEF SumsOf
  <1>2. ASSUME NEW m \in Nat, m \in T
        PROVE  m + 1 \in T
    <2> SUFFICES ASSUME j + m + 2 <= n
                 PROVE  f[j] + d[j] <= f[j + m + 2]
      OBVIOUS
    <2>1. f[j] + d[j] <= f[j + m + 1]
      BY <1>2
    <2>2. j + m + 2 \in 2 .. n /\ (j + m + 2) - 1 = j + m + 1 /\ j + m + 1 \in 1 .. n
      OBVIOUS
    <2>3. /\ f[j + m + 2] = f[j + m + 1] + d[j + m + 1] /\ d[j + m + 1] \in Nat
          /\ f[j + m + 1] \in Nat /\ f[j + m + 2] \in Nat /\ f[j] \in Nat /\ d[j] \in Nat
      BY <2>2 DEF SumsOf
    <2> QED
      BY ONLY <2>1, <2>3
  <1>3. Nat \subseteq T
    BY <1>1, <1>2, SetInduction
  <1>4. ASSUME NEW k \in 1 .. n, j < k
        PROVE  f[j] + d[j] <= f[k]
    <2>1. k - j - 1 \in Nat /\ j + (k - j - 1) + 1 = k
      BY <1>4
    <2>2. k - j - 1 \in T
      BY <1>3, <2>1
    <2> QED
      BY <2>1, <2>2
  <1> QED
    BY <1>4

\* What newc pads is what the kernel's rounding up skips.
LEMMA PaddingIs ==
  ASSUME NEW n \in Nat
  PROVE  /\ Pad4(n) \in Nat /\ Pad4(n) >= n /\ Pad4(n) % 4 = 0
         /\ \A p \in Nat : p % 4 = 0 => align(p + n, 4) = p + Pad4(n)
  <1> DEFINE q == n \div 4
             r == n % 4
  <1>1. q \in Nat /\ r \in {0, 1, 2, 3} /\ n = 4 * q + r
    BY Z3
  <1>2. Pad4(n) = n + ((4 - r) % 4)
    BY DEF Pad4
  <1> HIDE DEF q, r
  <1>3. /\ r = 0 => Pad4(n) = 4 * q
        /\ r # 0 => Pad4(n) = 4 * q + 4
    BY <1>1, <1>2
  <1>4. ASSUME NEW p \in Nat, p % 4 = 0
        PROVE  align(p + n, 4) = p + Pad4(n)
    <2>1. PICK m \in Nat : p = 4 * m
      <3>1. p \div 4 \in Nat /\ p = 4 * (p \div 4)
        BY <1>4
      <3> QED
        BY <3>1
    <2>2. align(p + n, 4) = ((4 * m + (4 * q + r) + 4 - 1) \div 4) * 4
      BY <1>1, <2>1 DEF align
    <2>3. (4 * m + (4 * q + r) + 4 - 1) \div 4 = IF r = 0 THEN m + q ELSE m + q + 1
      BY <1>1
    <2> QED
      BY <1>1, <1>3, <2>1, <2>2, <2>3
  <1>5. Pad4(n) \in Nat /\ Pad4(n) >= n /\ Pad4(n) % 4 = 0
    BY <1>1, <1>3
  <1> QED
    BY <1>4, <1>5

HeaderAndName(f) == Pad4(SIZE_OF_CPIO_HEADER + Len(f.name) + 1)

\* The entries of the archive are at place, the trailer last, and the bytes
\* of each file behind its name.
Laid(m, fs, base, place) ==
  /\ place \in [1 .. Len(fs) + 1 -> Nat] /\ place[1] = base
  /\ \A k \in 1 .. Len(fs) + 1 : place[k] % 4 = 0
  /\ \A j, k \in 1 .. Len(fs) + 1 : place[j] = place[k] => j = k
  /\ \A k \in 1 .. Len(fs) : place[k + 1] = place[k] + HeaderAndName(fs[k]) + Pad4(Len(fs[k].data))
  /\ DOMAIN m.header = {place[k] : k \in 1 .. Len(fs) + 1}
  /\ \A k \in 1 .. Len(fs) :
       /\ m.header[place[k]] = [c_namesize |-> Hex8(Len(fs[k].name) + 1),
                                c_filesize |-> Hex8(Len(fs[k].data)), name |-> fs[k].name]
       /\ place[k] + HeaderAndName(fs[k]) \in DOMAIN m.bytes
       /\ m.bytes[place[k] + HeaderAndName(fs[k])] = fs[k].data
  /\ m.header[place[Len(fs) + 1]].name = Trailer

\* newc puts the headers where none covers another, all at multiples of four.
LEMMA NewcLays ==
  ASSUME NEW fs, IsArchive(fs), NEW base \in Nat, base % 4 = 0
  PROVE  \E place : Laid(newc(base, fs), fs, base, place)
  <1> DEFINE E == Append(fs, [name |-> Trailer, data |-> <<>>])
             front(f) == Pad4(SIZE_OF_CPIO_HEADER + Len(f.name) + 1)
             Unfolded(f) == [k \in 1 .. Len(E) |->
                IF k = 1 THEN base ELSE f[k - 1] + front(E[k - 1]) + Pad4(Len(E[k - 1].data))]
             offset == CHOOSE f : f = Unfolded(f)
             place == [k \in DOMAIN E |-> offset[k]]
             data == [k \in DOMAIN E |-> offset[k] + front(E[k])]
             header == [a \in {place[k] : k \in DOMAIN E} |->
                    LET f == E[CHOOSE k \in DOMAIN E : place[k] = a]
                    IN  [c_namesize |-> Hex8(Len(f.name) + 1),
                         c_filesize |-> Hex8(Len(f.data)), name |-> f.name]]
             bytes == [a \in {data[k] : k \in DOMAIN fs} |->
                    fs[CHOOSE k \in DOMAIN fs : data[k] = a].data]
             m == Len(fs)
             n == m + 1
             d == [k \in 1 .. n |-> front(E[k]) + Pad4(Len(E[k].data))]
  <1>1. newc(base, fs) = [header |-> header, bytes |-> bytes]
    BY DEF newc
  <1>2. /\ fs \in Seq([name : Seq(Nat), data : Seq(Nat)]) /\ m \in Nat /\ n \in Nat \ {0}
        /\ DOMAIN fs = 1 .. m
    BY LenProperties DEF IsArchive
  <1>3. /\ E \in Seq([name : Seq(Nat), data : Seq(Nat)]) /\ Len(E) = n /\ DOMAIN E = 1 .. n
        /\ E[n] = [name |-> Trailer, data |-> <<>>] /\ \A k \in 1 .. m : E[k] = fs[k]
    <2>1. [name |-> Trailer, data |-> <<>>] \in [name : Seq(Nat), data : Seq(Nat)]
      BY DEF Trailer
    <2> QED
      BY <1>2, <2>1, AppendProperties, LenProperties
  <1> HIDE DEF E, m
  <1>4. ASSUME NEW k \in 1 .. n
        PROVE  /\ front(E[k]) \in Nat /\ front(E[k]) > 0 /\ front(E[k]) % 4 = 0
               /\ Pad4(Len(E[k].data)) \in Nat /\ Pad4(Len(E[k].data)) % 4 = 0
    <2>1. E[k] \in [name : Seq(Nat), data : Seq(Nat)]
      BY <1>2, <1>3, ElementOfSeq
    <2>2. Len(E[k].name) \in Nat /\ Len(E[k].data) \in Nat
      BY <2>1, LenProperties
    <2>3. SIZE_OF_CPIO_HEADER + Len(E[k].name) + 1 \in Nat /\ SIZE_OF_CPIO_HEADER + Len(E[k].name) + 1 > 0
      BY <2>2 DEF SIZE_OF_CPIO_HEADER
    <2>4. /\ Pad4(SIZE_OF_CPIO_HEADER + Len(E[k].name) + 1) \in Nat
          /\ Pad4(SIZE_OF_CPIO_HEADER + Len(E[k].name) + 1) >= SIZE_OF_CPIO_HEADER + Len(E[k].name) + 1
          /\ Pad4(SIZE_OF_CPIO_HEADER + Len(E[k].name) + 1) % 4 = 0
      BY <2>3, PaddingIs
    <2>5. Pad4(Len(E[k].data)) \in Nat /\ Pad4(Len(E[k].data)) % 4 = 0
      BY <2>2, PaddingIs
    <2> QED
      BY <2>3, <2>4, <2>5
  <1>5. \A k \in 1 .. n : d[k] = front(E[k]) + Pad4(Len(E[k].data))
    BY DEF d
  <1> HIDE DEF front, d
  <1>6. \A k \in 1 .. n : d[k] \in Nat /\ d[k] > 0 /\ front(E[k]) <= d[k] /\ d[k] % 4 = 0
    <2>1. ASSUME NEW x \in Nat, NEW y \in Nat, x % 4 = 0, y % 4 = 0
          PROVE  (x + y) % 4 = 0
      BY <2>1
    <2>2. ASSUME NEW k \in 1 .. n
          PROVE  d[k] \in Nat /\ d[k] > 0 /\ front(E[k]) <= d[k] /\ d[k] % 4 = 0
      <3> DEFINE x == front(E[k])
                 y == Pad4(Len(E[k].data))
      <3>1. /\ x \in Nat /\ x > 0 /\ x % 4 = 0 /\ y \in Nat /\ y % 4 = 0 /\ d[k] = x + y
        BY <1>4, <1>5
      <3> HIDE DEF x, y
      <3>2. x <= d[k] /\ d[k] \in Nat /\ d[k] > 0
        BY ONLY <3>1
      <3>3. d[k] % 4 = 0
        BY ONLY <2>1, <3>1
      <3> QED
        BY <3>2, <3>3 DEF x
    <2> QED
      BY <2>2
  <1>7. \E f : f = Unfolded(f)
    <2>1. PICK f : SumsOf(f, base, d, n)
      BY <1>2, <1>6, SumsExist
    <2>2. ASSUME NEW k \in 1 .. n
          PROVE  f[k] = IF k = 1 THEN base ELSE f[k - 1] + front(E[k - 1]) + Pad4(Len(E[k - 1].data))
      <3>1. CASE k = 1
        BY <2>1, <3>1 DEF SumsOf
      <3>2. CASE k # 1
        <4>1. k \in 2 .. n /\ k - 1 \in 1 .. n
          BY <1>2, <3>2
        <4>2. f[k] = f[k - 1] + d[k - 1] /\ f[k - 1] \in Nat
          BY <2>1, <4>1 DEF SumsOf
        <4>3. /\ d[k - 1] = front(E[k - 1]) + Pad4(Len(E[k - 1].data))
              /\ front(E[k - 1]) \in Nat /\ Pad4(Len(E[k - 1].data)) \in Nat
          BY <1>4, <1>5, <4>1
        <4> QED
          BY <3>2, <4>2, <4>3
      <3> QED
        BY <3>1, <3>2
    <2>3. f = [k \in 1 .. n |-> f[k]]
      BY <2>1 DEF SumsOf
    <2>4. f = Unfolded(f)
      BY <1>3, <2>2, <2>3
    <2> QED
      BY <2>4
  <1>8. offset = Unfolded(offset)
    BY <1>7
  <1> HIDE DEF offset
  <1>9. /\ DOMAIN offset = 1 .. n /\ offset[1] = base
        /\ \A k \in 2 .. n : offset[k] = offset[k - 1] + front(E[k - 1]) + Pad4(Len(E[k - 1].data))
    <2>1. offset = [k \in 1 .. n |->
                IF k = 1 THEN base ELSE offset[k - 1] + front(E[k - 1]) + Pad4(Len(E[k - 1].data))]
      BY <1>3, <1>8
    <2>2. 1 \in 1 .. n /\ \A k \in 2 .. n : k \in 1 .. n /\ k # 1
      BY <1>2
    <2>3. DOMAIN offset = 1 .. n /\ offset[1] = base
      BY <2>1, <2>2, Zenon
    <2>4. ASSUME NEW k \in 2 .. n
          PROVE  offset[k] = offset[k - 1] + front(E[k - 1]) + Pad4(Len(E[k - 1].data))
      <3>1. k \in 1 .. n /\ k # 1
        BY <2>2
      <3> QED
        BY <2>1, <3>1, Zenon
    <2> QED
      BY <2>3, <2>4
  <1>10. SumsOf(offset, base, d, n)
    <2>1. \A k \in 1 .. n : offset[k] \in Nat
      <3> DEFINE U == {j \in Nat : j + 1 \in 1 .. n => offset[j + 1] \in Nat}
      <3>1. 0 \in U
        BY <1>9
      <3>2. ASSUME NEW j \in Nat, j \in U
            PROVE  j + 1 \in U
        <4> SUFFICES ASSUME j + 2 \in 1 .. n
                     PROVE  offset[j + 2] \in Nat
          OBVIOUS
        <4>1. j + 2 \in 2 .. n /\ (j + 2) - 1 = j + 1 /\ j + 1 \in 1 .. n
          BY <1>2
        <4>2. offset[j + 1] \in Nat
          BY <3>2, <4>1
        <4>3. front(E[j + 1]) \in Nat /\ Pad4(Len(E[j + 1].data)) \in Nat
          BY <1>4, <4>1
        <4>4. offset[j + 2] = offset[j + 1] + front(E[j + 1]) + Pad4(Len(E[j + 1].data))
          BY <1>9, <4>1
        <4> QED
          BY <4>2, <4>3, <4>4
      <3>3. Nat \subseteq U
        BY <3>1, <3>2, SetInduction
      <3>4. ASSUME NEW k \in 1 .. n
            PROVE  offset[k] \in Nat
        <4>1. k - 1 \in Nat /\ (k - 1) + 1 = k
          BY <1>2
        <4>2. (k - 1) + 1 \in 1 .. n => offset[(k - 1) + 1] \in Nat
          BY ONLY <3>3, <4>1
        <4> QED
          BY <4>1, <4>2
      <3> QED
        BY <3>4
    <2>2. offset \in [1 .. n -> Nat]
      <3>1. offset = [k \in 1 .. n |-> offset[k]]
        BY <1>3, <1>8
      <3> QED
        BY <2>1, <3>1
    <2>3. ASSUME NEW k \in 2 .. n
          PROVE  offset[k] = offset[k - 1] + d[k - 1]
      <3>1. k - 1 \in 1 .. n
        BY <1>2
      <3>2. /\ d[k - 1] = front(E[k - 1]) + Pad4(Len(E[k - 1].data)) /\ offset[k - 1] \in Nat
            /\ front(E[k - 1]) \in Nat /\ Pad4(Len(E[k - 1].data)) \in Nat
        BY <1>4, <1>5, <2>1, <3>1
      <3> QED
        BY <1>9, <3>2
    <2> QED
      BY <1>9, <2>2, <2>3 DEF SumsOf
  <1>11. place = offset
    BY <1>3, <1>9, <1>10 DEF SumsOf
  <1>12. /\ \A k \in 1 .. n : offset[k] \in Nat
         /\ \A j, k \in 1 .. n : j < k => offset[j] + d[j] <= offset[k]
    BY <1>2, <1>6, <1>10, SumsGrow DEF SumsOf
  <1>13. \A j, k \in 1 .. n : j = k \/ j < k \/ k < j
    BY <1>2
  <1>14. /\ \A k \in 1 .. n : data[k] = offset[k] + front(E[k])
         /\ \A k \in 1 .. n : place[k] = offset[k]
    BY <1>3
  <1> HIDE DEF place, data
  <1>15. \A j, k \in 1 .. n : place[j] = place[k] => j = k
    <2>1. ASSUME NEW j \in 1 .. n, NEW k \in 1 .. n, j < k
          PROVE  place[j] # place[k]
      <3>1. /\ d[j] \in Nat /\ d[j] > 0 /\ offset[j] \in Nat /\ offset[k] \in Nat
            /\ offset[j] + d[j] <= offset[k] /\ place[j] = offset[j] /\ place[k] = offset[k]
        BY <1>6, <1>12, <1>14, <2>1
      <3> QED
        BY ONLY <3>1
    <2> QED
      BY ONLY <1>13, <2>1
  <1>16. \A j, k \in 1 .. n : data[j] = data[k] => j = k
    <2>1. ASSUME NEW j \in 1 .. n, NEW k \in 1 .. n, j < k
          PROVE  data[j] # data[k]
      <3>1. data[j] = offset[j] + front(E[j]) /\ data[k] = offset[k] + front(E[k])
        BY <1>14
      <3>2. /\ front(E[j]) \in Nat /\ front(E[k]) \in Nat /\ front(E[k]) > 0 /\ front(E[j]) <= d[j]
            /\ d[j] \in Nat /\ offset[j] \in Nat /\ offset[k] \in Nat
            /\ offset[j] + d[j] <= offset[k]
        BY <1>4, <1>6, <1>12, <2>1
      <3> QED
        BY ONLY <3>1, <3>2
    <2> QED
      BY ONLY <1>13, <2>1
  <1>17. \A k \in 1 .. n : place[k] % 4 = 0
    <2> DEFINE U == {j \in Nat : j + 1 \in 1 .. n => offset[j + 1] % 4 = 0}
    <2>1. 0 \in U
      BY <1>9
    <2>2. ASSUME NEW j \in Nat, j \in U
          PROVE  j + 1 \in U
      <3> SUFFICES ASSUME j + 2 \in 1 .. n
                   PROVE  offset[j + 2] % 4 = 0
        OBVIOUS
      <3>1. j + 2 \in 2 .. n /\ (j + 2) - 1 = j + 1 /\ j + 1 \in 1 .. n
        BY <1>2
      <3>2. offset[j + 2] = offset[j + 1] + d[j + 1] /\ offset[j + 1] \in Nat /\ offset[j + 1] % 4 = 0
        BY <1>10, <2>2, <3>1 DEF SumsOf
      <3>3. d[j + 1] \in Nat /\ d[j + 1] % 4 = 0
        BY <1>6, <3>1
      <3> QED
        BY ONLY <3>2, <3>3
    <2>3. Nat \subseteq U
      BY <2>1, <2>2, SetInduction
    <2>4. ASSUME NEW k \in 1 .. n
          PROVE  place[k] % 4 = 0
      <3>1. k - 1 \in Nat /\ (k - 1) + 1 = k
        BY <1>2
      <3>2. (k - 1) + 1 \in 1 .. n => offset[(k - 1) + 1] % 4 = 0
        BY ONLY <2>3, <3>1
      <3> QED
        BY <1>14, <3>1, <3>2
    <2> QED
      BY <2>4
  <1>18. /\ DOMAIN header = {place[k] : k \in 1 .. n}
         /\ \A k \in 1 .. n :
              header[place[k]] = [c_namesize |-> Hex8(Len(E[k].name) + 1),
                                  c_filesize |-> Hex8(Len(E[k].data)), name |-> E[k].name]
    <2>1. DOMAIN header = {place[k] : k \in 1 .. n}
      BY <1>3
    <2>2. ASSUME NEW k \in 1 .. n
          PROVE  header[place[k]] = [c_namesize |-> Hex8(Len(E[k].name) + 1),
                                  c_filesize |-> Hex8(Len(E[k].data)), name |-> E[k].name]
      <3> DEFINE i == CHOOSE i \in DOMAIN E : place[i] = place[k]
      <3>1. i \in DOMAIN E /\ place[i] = place[k]
        BY <1>3
      <3>2. i = k
        BY <1>3, <1>15, <3>1
      <3>3. place[k] \in {place[j] : j \in DOMAIN E}
        BY <1>3
      <3>4. header[place[k]] = [c_namesize |-> Hex8(Len(E[i].name) + 1),
                                c_filesize |-> Hex8(Len(E[i].data)), name |-> E[i].name]
        BY <3>3
      <3> HIDE DEF i
      <3> QED
        BY <3>2, <3>4
    <2> QED
      BY <2>1, <2>2
  <1>19. \A k \in 1 .. m : data[k] \in DOMAIN bytes /\ bytes[data[k]] = fs[k].data
    <2> SUFFICES ASSUME NEW k \in 1 .. m
                 PROVE  data[k] \in DOMAIN bytes /\ bytes[data[k]] = fs[k].data
      OBVIOUS
    <2> DEFINE i == CHOOSE i \in DOMAIN fs : data[i] = data[k]
    <2>1. i \in DOMAIN fs /\ data[i] = data[k]
      BY <1>2
    <2>2. i = k
      BY <1>2, <1>16, <2>1
    <2>3. data[k] \in {data[j] : j \in DOMAIN fs}
      BY <1>2
    <2>4. bytes[data[k]] = fs[i].data
      BY <2>3
    <2> HIDE DEF i
    <2> QED
      BY <2>2, <2>3, <2>4
  <1>20. \A k \in 1 .. m : data[k] = place[k] + HeaderAndName(fs[k]) /\ HeaderAndName(fs[k]) = front(E[k])
    <2> SUFFICES ASSUME NEW k \in 1 .. m
                 PROVE  data[k] = place[k] + HeaderAndName(fs[k]) /\ HeaderAndName(fs[k]) = front(E[k])
      OBVIOUS
    <2>1. k \in 1 .. n /\ E[k] = fs[k]
      BY <1>2, <1>3
    <2>2. HeaderAndName(E[k]) = front(E[k])
      BY DEF HeaderAndName, front
    <2> QED
      BY <1>14, <2>1, <2>2
  <1>21. \A k \in 1 .. m : place[k + 1] = place[k] + HeaderAndName(fs[k]) + Pad4(Len(fs[k].data))
    <2> SUFFICES ASSUME NEW k \in 1 .. m
                 PROVE  place[k + 1] = place[k] + HeaderAndName(fs[k]) + Pad4(Len(fs[k].data))
      OBVIOUS
    <2>1. k + 1 \in 2 .. n /\ (k + 1) - 1 = k
      BY <1>2
    <2>2. offset[k + 1] = offset[k] + front(E[k]) + Pad4(Len(E[k].data))
      BY <1>9, <2>1
    <2> QED
      BY <1>3, <1>11, <1>20, <2>2
  <1>22. place \in [1 .. n -> Nat] /\ place[1] = base
    BY <1>9, <1>10, <1>11 DEF SumsOf
  <1> HIDE DEF header, bytes
  <1>23. newc(base, fs).header = header /\ newc(base, fs).bytes = bytes
    BY <1>1
  <1>24. header[place[n]].name = Trailer
    <2>1. n \in 1 .. n /\ E[n].name = Trailer
      BY <1>2, <1>3
    <2>2. header[place[n]] = [c_namesize |-> Hex8(Len(E[n].name) + 1),
                              c_filesize |-> Hex8(Len(E[n].data)), name |-> E[n].name]
      BY <1>18, <2>1, Zenon
    <2> QED
      BY <2>1, <2>2
  <1>25. \A k \in 1 .. m : header[place[k]] = [c_namesize |-> Hex8(Len(fs[k].name) + 1),
                                c_filesize |-> Hex8(Len(fs[k].data)), name |-> fs[k].name]
    <2>1. \A k \in 1 .. m : k \in 1 .. n /\ E[k] = fs[k]
      BY <1>2, <1>3
    <2> QED
      BY <1>18, <2>1
  <1>26. Laid(newc(base, fs), fs, base, place)
    BY <1>17, <1>18, <1>19, <1>20, <1>21, <1>22, <1>23, <1>24, <1>25, <1>15 DEF Laid, m
  <1> QED
    BY <1>26

\* The kernel reads a header as newc has written it: the bytes are where they
\* were put, the next header where the next entry is.
LEMMA HeaderIs ==
  ASSUME NEW fs, IsArchive(fs), NEW m, NEW base, NEW place, Laid(m, fs, base, place),
         NEW k \in 1 .. Len(fs)
  PROVE  /\ IsHeader(m, place[k]) /\ place[k] \in Nat
         /\ m.header[place[k]].name = fs[k].name /\ fs[k].name # Trailer
         /\ FileData(place[k], m.header[place[k]]) = place[k] + HeaderAndName(fs[k])
         /\ hex2int(m.header[place[k]].c_filesize) = Len(fs[k].data)
         /\ NextHeader(place[k], m.header[place[k]]) = place[k + 1]
  <1> DEFINE p == place[k]
             h == m.header[p]
             a == Len(fs[k].name) + 1
             b == Len(fs[k].data)
  <1>1. fs \in Seq([name : Seq(Nat), data : Seq(Nat)]) /\ Len(fs) \in Nat /\ k \in DOMAIN fs
    BY LenProperties DEF IsArchive
  <1>2. a \in Nat /\ b \in Nat /\ IsSize(a) /\ IsSize(b) /\ fs[k].name # Trailer
    <2>1. fs[k] \in [name : Seq(Nat), data : Seq(Nat)]
      BY <1>1, ElementOfSeq
    <2> QED
      BY <1>1, <2>1, LenProperties DEF IsArchive
  <1>3. /\ h = [c_namesize |-> Hex8(a), c_filesize |-> Hex8(b), name |-> fs[k].name]
        /\ p \in Nat /\ p % 4 = 0 /\ p \in DOMAIN m.header
        /\ place[k + 1] = p + HeaderAndName(fs[k]) + Pad4(b)
    <2>1. k \in 1 .. Len(fs) + 1
      BY <1>1
    <2> QED
      BY <2>1 DEF Laid
  <1> HIDE DEF h, a, b
  <1>4. hex2int(h.c_namesize) = a /\ hex2int(h.c_filesize) = b
    BY <1>2, <1>3, SizeComesBack
  <1>5. HeaderAndName(fs[k]) = Pad4(SIZE_OF_CPIO_HEADER + a) /\ SIZE_OF_CPIO_HEADER + a \in Nat
    <2>1. SIZE_OF_CPIO_HEADER + Len(fs[k].name) + 1 = SIZE_OF_CPIO_HEADER + a
      BY <1>1, <1>2 DEF a, SIZE_OF_CPIO_HEADER
    <2> QED
      BY <1>2, <2>1 DEF HeaderAndName, SIZE_OF_CPIO_HEADER
  <1> HIDE DEF p
  <1>6. /\ HeaderAndName(fs[k]) \in Nat /\ HeaderAndName(fs[k]) % 4 = 0
        /\ align(p + (SIZE_OF_CPIO_HEADER + a), 4) = p + HeaderAndName(fs[k])
    BY <1>3, <1>5, PaddingIs
  <1>7. FileData(p, h) = p + HeaderAndName(fs[k])
    <2>1. p + SIZE_OF_CPIO_HEADER + a = p + (SIZE_OF_CPIO_HEADER + a)
      BY <1>2, <1>3 DEF SIZE_OF_CPIO_HEADER
    <2> QED
      BY <1>4, <1>6, <2>1 DEF FileData
  <1>8. NextHeader(p, h) = place[k + 1]
    <2>1. p + HeaderAndName(fs[k]) \in Nat /\ (p + HeaderAndName(fs[k])) % 4 = 0
      <3>1. ASSUME NEW x \in Nat, NEW y \in Nat, x % 4 = 0, y % 4 = 0
            PROVE  x + y \in Nat /\ (x + y) % 4 = 0
        BY <3>1
      <3> QED
        BY <1>3, <1>6, <3>1
    <2>2. align((p + HeaderAndName(fs[k])) + b, 4) = (p + HeaderAndName(fs[k])) + Pad4(b)
      BY <1>2, <2>1, PaddingIs
    <2> QED
      BY <1>3, <1>4, <1>7, <2>2 DEF NextHeader
  <1> QED
    BY <1>2, <1>3, <1>4, <1>7, <1>8 DEF p, h, b, IsHeader

LEMMA TrailerIs ==
  ASSUME NEW fs, IsArchive(fs), NEW m, NEW base, NEW place, Laid(m, fs, base, place)
  PROVE  /\ Len(fs) \in Nat
         /\ IsHeader(m, place[Len(fs) + 1]) /\ m.header[place[Len(fs) + 1]].name = Trailer
         /\ \A k \in 1 .. Len(fs) + 1 : place[k] \in Nat
         /\ \A j, k \in 1 .. Len(fs) + 1 : place[j] = place[k] => j = k
         /\ \A ptr : IsHeader(m, ptr) <=> \E k \in 1 .. Len(fs) + 1 : ptr = place[k]
  <1>1. Len(fs) \in Nat
    BY LenProperties DEF IsArchive
  <1>2. Len(fs) + 1 \in 1 .. Len(fs) + 1
    BY <1>1
  <1>3. \A ptr : IsHeader(m, ptr) <=> \E k \in 1 .. Len(fs) + 1 : ptr = place[k]
    BY Zenon DEF Laid, IsHeader
  <1> QED
    BY <1>1, <1>2, <1>3 DEF Laid

\* The names of the files from the k-th on.
NamesFrom(fs, k) == [i \in 1 .. Len(fs) + 1 - k |-> fs[k + i - 1].name]

LEMMA NamesFromIs ==
  ASSUME NEW fs, IsArchive(fs)
  PROVE  /\ NamesFrom(fs, Len(fs) + 1) = <<>>
         /\ NamesFrom(fs, 1) = [k \in DOMAIN fs |-> fs[k].name]
         /\ \A k \in 1 .. Len(fs) : <<fs[k].name>> \o NamesFrom(fs, k + 1) = NamesFrom(fs, k)
  <1>1. /\ fs \in Seq([name : Seq(Nat), data : Seq(Nat)]) /\ Len(fs) \in Nat
        /\ DOMAIN fs = 1 .. Len(fs)
    BY LenProperties DEF IsArchive
  <1>2. \A k \in 1 .. Len(fs) : fs[k].name \in Seq(Nat)
    <2>1. \A k \in 1 .. Len(fs) : fs[k] \in [name : Seq(Nat), data : Seq(Nat)]
      BY <1>1, ElementOfSeq
    <2> QED
      BY <2>1
  <1>3. NamesFrom(fs, Len(fs) + 1) = <<>>
    BY <1>1 DEF NamesFrom
  <1>4. NamesFrom(fs, 1) = [k \in DOMAIN fs |-> fs[k].name]
    <2>1. Len(fs) + 1 - 1 = Len(fs) /\ \A k \in 1 .. Len(fs) : 1 + k - 1 = k
      BY <1>1
    <2> QED
      BY <1>1, <2>1 DEF NamesFrom
  <1>5. ASSUME NEW k \in 1 .. Len(fs)
        PROVE  <<fs[k].name>> \o NamesFrom(fs, k + 1) = NamesFrom(fs, k)
    <2> DEFINE x == fs[k].name
               r == NamesFrom(fs, k + 1)
               s == NamesFrom(fs, k)
               n == Len(fs) + 1 - k
    <2>1. n \in Nat /\ n >= 1 /\ Len(fs) + 1 - (k + 1) = n - 1
      BY <1>1
    <2>2. /\ r \in Seq(Seq(Nat)) /\ Len(r) = n - 1
          /\ \A i \in 1 .. n - 1 : r[i] = fs[k + (i + 1) - 1].name
      <3>1. r = [i \in 1 .. n - 1 |-> fs[(k + 1) + i - 1].name]
        BY <2>1 DEF NamesFrom
      <3>2. \A i \in 1 .. n - 1 : (k + 1) + i - 1 = k + (i + 1) - 1 /\ (k + 1) + i - 1 \in 1 .. Len(fs)
        BY <1>1
      <3>3. \A i \in 1 .. n - 1 : fs[(k + 1) + i - 1].name \in Seq(Nat)
        BY <1>2, <3>2
      <3> HIDE DEF r, n
      <3>4. \A i \in 1 .. n - 1 : r[i] = fs[k + (i + 1) - 1].name /\ r[i] \in Seq(Nat)
        BY <3>1, <3>2, <3>3
      <3>5. r = [i \in 1 .. n - 1 |-> r[i]]
        BY <3>1
      <3>6. r \in Seq(Seq(Nat)) /\ Len(r) = n - 1
        BY ONLY <2>1, <3>4, <3>5
      <3> QED
        BY <3>4, <3>6
    <2>3. s = [i \in 1 .. n |-> fs[k + i - 1].name]
      BY DEF NamesFrom
    <2>4. x \in Seq(Nat) /\ k + 1 - 1 = k
      BY <1>1, <1>2
    <2> HIDE DEF x, r, s, n
    <2>5. /\ <<x>> \o r \in Seq(Seq(Nat)) /\ Len(<<x>> \o r) = n /\ (<<x>> \o r)[1] = x
          /\ \A i \in 2 .. n : (<<x>> \o r)[i] = r[i - 1]
      BY <2>1, <2>2, <2>4
    <2>6. ASSUME NEW i \in 1 .. n
          PROVE  (<<x>> \o r)[i] = fs[k + i - 1].name
      <3>1. CASE i = 1
        BY <2>4, <2>5, <3>1 DEF x
      <3>2. CASE i # 1
        <4>1. i \in 2 .. n /\ i - 1 \in 1 .. n - 1 /\ (i - 1) + 1 = i
          BY <2>1, <3>2
        <4>2. r[i - 1] = fs[k + ((i - 1) + 1) - 1].name
          BY <2>2, <4>1
        <4> QED
          BY <2>5, <4>1, <4>2
      <3> QED
        BY <3>1, <3>2
    <2>7. <<x>> \o r = [i \in 1 .. n |-> (<<x>> \o r)[i]]
      BY <2>1, <2>5
    <2>8. <<x>> \o r = s
      BY <2>3, <2>6, <2>7
    <2> QED
      BY <2>8 DEF x, r, s
  <1> QED
    BY <1>3, <1>4, <1>5

\* What ls lists: the names of all files, in their order; nothing where there
\* is no header.
LEMMA ListIs ==
  ASSUME NEW fs, IsArchive(fs), NEW m, NEW base, NEW place, Laid(m, fs, base, place)
  PROVE  /\ cpio_ls(m, base) = [k \in DOMAIN fs |-> fs[k].name]
         /\ \A ptr \in Nat : ~IsHeader(m, ptr) => cpio_ls(m, ptr) = <<>>
  <1> DEFINE n == Len(fs) + 1
             Unfolded(f) == [ptr \in Nat |->
                IF ~IsHeader(m, ptr) \/ m.header[ptr].name = Trailer THEN <<>>
                ELSE <<m.header[ptr].name>> \o f[NextHeader(ptr, m.header[ptr])]]
             list == CHOOSE f : f = Unfolded(f)
  <1>1. \A ptr : cpio_ls(m, ptr) = list[ptr]
    BY DEF cpio_ls
  <1>2. /\ n \in Nat \ {0} /\ IsHeader(m, place[n]) /\ m.header[place[n]].name = Trailer
        /\ \A k \in 1 .. n : place[k] \in Nat
        /\ \A j, k \in 1 .. n : place[j] = place[k] => j = k
        /\ \A ptr : IsHeader(m, ptr) <=> \E k \in 1 .. n : ptr = place[k]
        /\ \A k \in 1 .. n : k = n \/ k \in 1 .. Len(fs)
    BY TrailerIs
  <1>3. \A k \in 1 .. Len(fs) :
          /\ k \in 1 .. n /\ k + 1 \in 1 .. n /\ IsHeader(m, place[k])
          /\ m.header[place[k]].name = fs[k].name /\ fs[k].name # Trailer
          /\ NextHeader(place[k], m.header[place[k]]) = place[k + 1]
    BY <1>2, HeaderIs
  <1>4. /\ NamesFrom(fs, n) = <<>>
        /\ NamesFrom(fs, 1) = [k \in DOMAIN fs |-> fs[k].name]
        /\ \A k \in 1 .. Len(fs) : <<fs[k].name>> \o NamesFrom(fs, k + 1) = NamesFrom(fs, k)
    BY NamesFromIs
  <1>5. \E f : f = Unfolded(f)
    <2> DEFINE g == [ptr \in Nat |-> IF IsHeader(m, ptr)
                       THEN NamesFrom(fs, CHOOSE k \in 1 .. n : ptr = place[k]) ELSE <<>>]
    <2>1. ASSUME NEW k \in 1 .. n
          PROVE  g[place[k]] = NamesFrom(fs, k)
      <3>1. place[k] \in Nat /\ IsHeader(m, place[k])
        BY <1>2
      <3>2. (CHOOSE i \in 1 .. n : place[k] = place[i]) = k
        BY <1>2
      <3> QED
        BY <3>1, <3>2
    <2>2. \A ptr \in Nat : ~IsHeader(m, ptr) => g[ptr] = <<>>
      OBVIOUS
    <2>3. g = [ptr \in Nat |-> g[ptr]]
      OBVIOUS
    <2> HIDE DEF g, n
    <2>4. ASSUME NEW ptr \in Nat
          PROVE  g[ptr] = IF ~IsHeader(m, ptr) \/ m.header[ptr].name = Trailer THEN <<>>
                          ELSE <<m.header[ptr].name>> \o g[NextHeader(ptr, m.header[ptr])]
      <3>1. CASE ~IsHeader(m, ptr)
        BY <2>2, <3>1
      <3>2. CASE ptr = place[n]
        <4>1. g[ptr] = <<>>
          BY <1>2, <1>4, <2>1, <3>2
        <4> QED
          BY <1>2, <3>2, <4>1
      <3>3. ASSUME NEW k \in 1 .. Len(fs), ptr = place[k]
            PROVE  g[ptr] = IF ~IsHeader(m, ptr) \/ m.header[ptr].name = Trailer THEN <<>>
                          ELSE <<m.header[ptr].name>> \o g[NextHeader(ptr, m.header[ptr])]
        <4>1. g[place[k]] = NamesFrom(fs, k) /\ g[place[k + 1]] = NamesFrom(fs, k + 1)
          BY <1>3, <2>1
        <4>2. g[place[k]] = <<fs[k].name>> \o g[place[k + 1]]
          BY <1>4, <4>1
        <4> QED
          BY <1>3, <3>3, <4>2
      <3> QED
        BY <1>2, <3>1, <3>2, <3>3
    <2>5. g = Unfolded(g)
      BY <2>3, <2>4
    <2> QED
      BY <2>5
  <1>6. list = Unfolded(list)
    BY <1>5
  <1> HIDE DEF list
  <1>7. \A ptr \in Nat : ~IsHeader(m, ptr) => list[ptr] = <<>>
    BY <1>6
  <1>8. list[place[n]] = <<>>
    BY <1>2, <1>6
  <1>9. ASSUME NEW k \in 1 .. Len(fs)
        PROVE  list[place[k]] = <<fs[k].name>> \o list[place[k + 1]]
    <2>1. place[k] \in Nat
      BY <1>2, <1>3
    <2> QED
      BY <1>3, <1>6, <2>1
  <1>10. list[place[1]] = NamesFrom(fs, 1)
    <2> DEFINE U == {j \in Nat : j + 1 <= n => list[place[n - j]] = NamesFrom(fs, n - j)}
    <2>1. 0 \in U
      <3>1. n - 0 = n
        BY <1>2
      <3> QED
        BY <1>4, <1>8, <3>1
    <2>2. ASSUME NEW j \in Nat, j \in U
          PROVE  j + 1 \in U
      <3> SUFFICES ASSUME j + 2 <= n
                   PROVE  list[place[n - (j + 1)]] = NamesFrom(fs, n - (j + 1))
        OBVIOUS
      <3>1. n - (j + 1) \in 1 .. Len(fs) /\ (n - (j + 1)) + 1 = n - j
        BY <1>2
      <3>2. list[place[n - j]] = NamesFrom(fs, n - j)
        BY <1>2, <2>2
      <3> DEFINE k == n - (j + 1)
      <3>3. k \in 1 .. Len(fs) /\ k + 1 = n - j
        BY <3>1
      <3> HIDE DEF k
      <3>4. list[place[k]] = NamesFrom(fs, k)
        <4>1. list[place[k]] = <<fs[k].name>> \o list[place[k + 1]]
          BY <1>9, <3>3, Zenon
        <4>2. <<fs[k].name>> \o NamesFrom(fs, k + 1) = NamesFrom(fs, k)
          BY <1>4, <3>3, Zenon
        <4>3. list[place[k + 1]] = NamesFrom(fs, k + 1)
          BY <3>2, <3>3, Zenon
        <4> QED
          BY <4>1, <4>2, <4>3, Zenon
      <3> QED
        BY <3>4 DEF k
    <2>3. Nat \subseteq U
      BY <2>1, <2>2, SetInduction
    <2>4. n - 1 \in Nat /\ (n - 1) + 1 <= n /\ n - (n - 1) = 1
      BY <1>2
    <2>5. list[place[n - (n - 1)]] = NamesFrom(fs, n - (n - 1))
      BY ONLY <2>3, <2>4
    <2> QED
      BY <2>4, <2>5
  <1>11. place[1] = base
    BY DEF Laid
  <1> QED
    BY <1>1, <1>4, <1>7, <1>10, <1>11

\* The first file with a name, from the k-th on.
NamedFrom(fs, name, k) == {j \in k .. Len(fs) : fs[j].name = name}
Least(S) == CHOOSE j \in S : \A i \in S : j <= i
FileAt(fs, place, j) == <<place[j] + HeaderAndName(fs[j]), Len(fs[j].data)>>

FoundFrom(fs, place, name, k) ==
  IF NamedFrom(fs, name, k) = {} THEN <<>> ELSE FileAt(fs, place, Least(NamedFrom(fs, name, k)))

LEMMA LeastIs ==
  ASSUME NEW S, S \subseteq Nat, S # {}
  PROVE  Least(S) \in S
  <1>1. S # {} => \E j \in S : \A i \in S : ~ (<<i, j>> \in OpToRel(<, Nat))
    BY WFMin, NatLessThanWellFounded
  <1>2. \E j \in S : \A i \in S : ~ (i < j)
    BY <1>1 DEF OpToRel
  <1>3. \E j \in S : \A i \in S : j <= i
    BY <1>2
  <1> QED
    BY <1>3 DEF Least

LEMMA FoundFromIs ==
  ASSUME NEW fs, IsArchive(fs), NEW place, NEW name
  PROVE  /\ FoundFrom(fs, place, name, Len(fs) + 1) = <<>>
         /\ \A k \in 1 .. Len(fs) :
              /\ fs[k].name = name => FoundFrom(fs, place, name, k) = FileAt(fs, place, k)
              /\ fs[k].name # name => FoundFrom(fs, place, name, k) = FoundFrom(fs, place, name, k + 1)
  <1>0. Len(fs) \in Nat
    BY LenProperties DEF IsArchive
  <1>1. NamedFrom(fs, name, Len(fs) + 1) = {}
    BY <1>0 DEF NamedFrom
  <1>2. ASSUME NEW k \in 1 .. Len(fs), fs[k].name = name
        PROVE  FoundFrom(fs, place, name, k) = FileAt(fs, place, k)
    <2>1. k \in NamedFrom(fs, name, k) /\ \A i \in NamedFrom(fs, name, k) : i \in Nat /\ k <= i
      BY <1>0, <1>2 DEF NamedFrom
    <2>2. \A j \in NamedFrom(fs, name, k) : (\A i \in NamedFrom(fs, name, k) : j <= i) => j = k
      BY <2>1
    <2>3. Least(NamedFrom(fs, name, k)) = k
      BY ONLY <2>1, <2>2 DEF Least
    <2> QED
      BY <2>1, <2>3 DEF FoundFrom
  <1>3. ASSUME NEW k \in 1 .. Len(fs), fs[k].name # name
        PROVE  FoundFrom(fs, place, name, k) = FoundFrom(fs, place, name, k + 1)
    <2>1. \A j \in k .. Len(fs) : j = k \/ j \in k + 1 .. Len(fs)
      BY <1>0
    <2>2. NamedFrom(fs, name, k) = NamedFrom(fs, name, k + 1)
      BY <1>3, <2>1 DEF NamedFrom
    <2> QED
      BY <2>2 DEF FoundFrom
  <1>4. FoundFrom(fs, place, name, Len(fs) + 1) = <<>>
    BY <1>1 DEF FoundFrom
  <1> QED
    BY <1>2, <1>3, <1>4

\* What cat and load_program find: the first file of the name.
LEMMA FindIs ==
  ASSUME NEW fs, IsArchive(fs), NEW m, NEW base, NEW place, Laid(m, fs, base, place), NEW name
  PROVE  /\ cpio_findFile(m, base, name) = FoundFrom(fs, place, name, 1)
         /\ \A ptr \in Nat : ~IsHeader(m, ptr) => cpio_findFile(m, ptr, name) = <<>>
  <1> DEFINE n == Len(fs) + 1
             Unfolded(f) == [ptr \in Nat |->
                IF ~IsHeader(m, ptr) \/ m.header[ptr].name = Trailer THEN <<>>
                ELSE IF m.header[ptr].name = name
                  THEN <<FileData(ptr, m.header[ptr]), hex2int(m.header[ptr].c_filesize)>>
                  ELSE f[NextHeader(ptr, m.header[ptr])]]
             find == CHOOSE f : f = Unfolded(f)
             found(k) == FoundFrom(fs, place, name, k)
  <1>1. \A ptr : cpio_findFile(m, ptr, name) = find[ptr]
    BY DEF cpio_findFile
  <1>2. /\ n \in Nat \ {0} /\ IsHeader(m, place[n]) /\ m.header[place[n]].name = Trailer
        /\ \A k \in 1 .. n : place[k] \in Nat
        /\ \A j, k \in 1 .. n : place[j] = place[k] => j = k
        /\ \A ptr : IsHeader(m, ptr) <=> \E k \in 1 .. n : ptr = place[k]
        /\ \A k \in 1 .. n : k = n \/ k \in 1 .. Len(fs)
    BY TrailerIs
  <1>3. \A k \in 1 .. Len(fs) :
          /\ k \in 1 .. n /\ k + 1 \in 1 .. n /\ IsHeader(m, place[k])
          /\ m.header[place[k]].name = fs[k].name /\ fs[k].name # Trailer
          /\ <<FileData(place[k], m.header[place[k]]), hex2int(m.header[place[k]].c_filesize)>>
               = FileAt(fs, place, k)
          /\ NextHeader(place[k], m.header[place[k]]) = place[k + 1]
    BY <1>2, HeaderIs DEF FileAt
  <1>4. /\ found(n) = <<>>
        /\ \A k \in 1 .. Len(fs) :
             found(k) = IF fs[k].name = name THEN FileAt(fs, place, k) ELSE found(k + 1)
    <2>1. found(n) = <<>>
      BY FoundFromIs
    <2>2. ASSUME NEW k \in 1 .. Len(fs)
          PROVE  found(k) = IF fs[k].name = name THEN FileAt(fs, place, k) ELSE found(k + 1)
      <3>1. CASE fs[k].name = name
        BY <3>1, FoundFromIs
      <3>2. CASE fs[k].name # name
        BY <3>2, FoundFromIs
      <3> QED
        BY <3>1, <3>2
    <2> QED
      BY <2>1, <2>2
  <1> HIDE DEF found
  <1>5. \E f : f = Unfolded(f)
    <2> DEFINE g == [ptr \in Nat |-> IF IsHeader(m, ptr)
                       THEN found(CHOOSE k \in 1 .. n : ptr = place[k]) ELSE <<>>]
    <2>1. ASSUME NEW k \in 1 .. n
          PROVE  g[place[k]] = found(k)
      <3>1. place[k] \in Nat /\ IsHeader(m, place[k])
        BY <1>2
      <3>2. (CHOOSE i \in 1 .. n : place[k] = place[i]) = k
        BY <1>2
      <3> QED
        BY <3>1, <3>2
    <2>2. \A ptr \in Nat : ~IsHeader(m, ptr) => g[ptr] = <<>>
      OBVIOUS
    <2>3. g = [ptr \in Nat |-> g[ptr]]
      OBVIOUS
    <2> HIDE DEF g, n
    <2> DEFINE Right(ptr) == g[ptr] =
                 IF ~IsHeader(m, ptr) \/ m.header[ptr].name = Trailer THEN <<>>
                 ELSE IF m.header[ptr].name = name
                   THEN <<FileData(ptr, m.header[ptr]), hex2int(m.header[ptr].c_filesize)>>
                   ELSE g[NextHeader(ptr, m.header[ptr])]
    <2>4. ASSUME NEW ptr \in Nat
          PROVE  Right(ptr)
      <3>1. CASE ~IsHeader(m, ptr)
        BY <2>2, <3>1
      <3>2. CASE ptr = place[n]
        <4>1. g[ptr] = <<>>
          BY <1>2, <1>4, <2>1, <3>2
        <4> QED
          BY <1>2, <3>2, <4>1
      <3>3. ASSUME NEW k \in 1 .. Len(fs), ptr = place[k]
            PROVE  Right(ptr)
        <4>1. g[place[k]] = found(k) /\ g[place[k + 1]] = found(k + 1)
          BY <1>3, <2>1
        <4>2. g[place[k]] = IF fs[k].name = name THEN FileAt(fs, place, k) ELSE g[place[k + 1]]
          BY <1>4, <4>1
        <4> QED
          BY <1>3, <3>3, <4>2
      <3> QED
        BY <1>2, <3>1, <3>2, <3>3
    <2>5. g = Unfolded(g)
      BY <2>3, <2>4
    <2> QED
      BY <2>5
  <1>6. find = Unfolded(find)
    BY <1>5
  <1> HIDE DEF find
  <1>7. \A ptr \in Nat : ~IsHeader(m, ptr) => find[ptr] = <<>>
    BY <1>6
  <1>8. find[place[n]] = <<>>
    BY <1>2, <1>6
  <1>9. ASSUME NEW k \in 1 .. Len(fs)
        PROVE  find[place[k]] = IF fs[k].name = name THEN FileAt(fs, place, k) ELSE find[place[k + 1]]
    <2>1. place[k] \in Nat
      BY <1>2, <1>3
    <2>2. find[place[k]] = IF m.header[place[k]].name = name
                  THEN <<FileData(place[k], m.header[place[k]]), hex2int(m.header[place[k]].c_filesize)>>
                  ELSE find[NextHeader(place[k], m.header[place[k]])]
      BY <1>3, <1>6, <2>1
    <2> QED
      BY <1>3, <2>2
  <1>10. find[place[1]] = found(1)
    <2> DEFINE U == {j \in Nat : j + 1 <= n => find[place[n - j]] = found(n - j)}
    <2>1. 0 \in U
      <3>1. n - 0 = n
        BY <1>2
      <3> QED
        BY <1>4, <1>8, <3>1
    <2>2. ASSUME NEW j \in Nat, j \in U
          PROVE  j + 1 \in U
      <3> SUFFICES ASSUME j + 2 <= n
                   PROVE  find[place[n - (j + 1)]] = found(n - (j + 1))
        OBVIOUS
      <3>1. n - (j + 1) \in 1 .. Len(fs) /\ (n - (j + 1)) + 1 = n - j
        BY <1>2
      <3>2. find[place[n - j]] = found(n - j)
        BY <1>2, <2>2
      <3> QED
        BY <1>4, <1>9, <3>1, <3>2
    <2>3. Nat \subseteq U
      BY <2>1, <2>2, SetInduction
    <2>4. n - 1 \in Nat /\ (n - 1) + 1 <= n /\ n - (n - 1) = 1
      BY <1>2
    <2>5. find[place[n - (n - 1)]] = found(n - (n - 1))
      BY ONLY <2>3, <2>4
    <2> QED
      BY <2>4, <2>5
  <1>11. place[1] = base
    BY DEF Laid
  <1> QED
    BY <1>1, <1>7, <1>10, <1>11 DEF found

\* What they then read is the file's bytes.
LEMMA FileServed ==
  ASSUME NEW fs, IsArchive(fs), NEW m, NEW base, NEW place, Laid(m, fs, base, place), NEW name
  PROVE  (IF cpio_findFile(m, base, name) = <<>> THEN <<>>
            ELSE <<Bytes(m, cpio_findFile(m, base, name))>>)
           = IF NamedFrom(fs, name, 1) = {} THEN <<>>
               ELSE <<fs[Least(NamedFrom(fs, name, 1))].data>>
  <1> DEFINE named == NamedFrom(fs, name, 1)
             j == Least(named)
  <1>1. cpio_findFile(m, base, name) = IF named = {} THEN <<>> ELSE FileAt(fs, place, j)
    <2>1. cpio_findFile(m, base, name) = FoundFrom(fs, place, name, 1)
      BY FindIs
    <2> QED
      BY <2>1, Zenon DEF FoundFrom
  <1>2. ASSUME named # {}
        PROVE  Bytes(m, FileAt(fs, place, j)) = fs[j].data /\ FileAt(fs, place, j) # <<>>
    <2>1. named \subseteq Nat /\ named \subseteq 1 .. Len(fs)
      BY TrailerIs DEF NamedFrom
    <2>2. j \in 1 .. Len(fs)
      BY <1>2, <2>1, LeastIs
    <2>3. fs[j].data \in Seq(Nat)
      <3>1. fs[j] \in [name : Seq(Nat), data : Seq(Nat)]
        BY <2>2, ElementOfSeq DEF IsArchive
      <3> QED
        BY <3>1
    <2> HIDE DEF j
    <2>4. /\ place[j] + HeaderAndName(fs[j]) \in DOMAIN m.bytes
          /\ m.bytes[place[j] + HeaderAndName(fs[j])] = fs[j].data
      BY <2>2 DEF Laid
    <2>5. FileAt(fs, place, j)[1] = place[j] + HeaderAndName(fs[j]) /\ FileAt(fs, place, j)[2] = Len(fs[j].data)
          /\ FileAt(fs, place, j) # <<>>
      BY DEF FileAt
    <2>6. Bytes(m, FileAt(fs, place, j)) =
            [i \in 1 .. Len(fs[j].data) |-> IF i <= Len(fs[j].data) THEN fs[j].data[i] ELSE -1]
      BY <2>4, <2>5 DEF Bytes
    <2>7. fs[j].data = [i \in 1 .. Len(fs[j].data) |-> fs[j].data[i]]
      BY <2>3, LenProperties
    <2>8. Bytes(m, FileAt(fs, place, j)) = [i \in 1 .. Len(fs[j].data) |-> fs[j].data[i]]
      BY <2>3, <2>6, LenProperties
    <2> QED
      BY <2>5, <2>7, <2>8
  <1> HIDE DEF named, j
  <1> QED
    BY <1>1, <1>2 DEF named, j

-----------------------------------------------------------------------------
(***************************************************************************)
(* What the shell has shown.  The tree and the archive never change, so    *)
(* what was right when it was shown stays so.                              *)
(***************************************************************************)
There == IF dtb = GoodTree THEN files ELSE <<>>

LEMMA ArchiveIs ==
  ASSUME AddressFound
  PROVE  /\ IsArchive(files)
         /\ \E place : Laid(mem, files, Base, place)
         /\ dtb # GoodTree => files = <<>> /\ ~IsHeader(mem, 0)
  <1>1. IsArchive(files)
    <2>1. IsArchive(<<>>)
      BY DEF IsArchive
    <2> QED
      BY <2>1, ArchivesAssumption DEF AddressFound
  <1>2. PICK place : Laid(mem, files, Base, place)
    BY <1>1, BaseAssumption, NewcLays DEF AddressFound
  <1>3. ASSUME dtb # GoodTree
        PROVE  files = <<>> /\ ~IsHeader(mem, 0)
    <2>1. files = <<>>
      BY <1>3 DEF AddressFound
    <2>2. Len(files) + 1 = 1 /\ \A k \in 1 .. 1 : k = 1
      BY <2>1
    <2>3. \A ptr : IsHeader(mem, ptr) <=> \E k \in 1 .. Len(files) + 1 : ptr = place[k]
      BY <1>1, <1>2, TrailerIs
    <2>4. \A ptr : IsHeader(mem, ptr) => ptr = place[1]
      BY ONLY <2>2, <2>3
    <2>5. place[1] = Base /\ 0 # Base
      BY <1>2, BaseAssumption DEF Laid
    <2> QED
      BY <2>1, <2>4, <2>5
  <1> QED
    BY <1>1, <1>2, <1>3

LEMMA LsServes ==
  ASSUME AddressFound, lab # 1
  PROVE  cpio_ls(mem, fdt_cpio_addr) = [k \in DOMAIN There |-> There[k].name]
  <1>1. PICK place : Laid(mem, files, Base, place)
    BY ArchiveIs
  <1>2. /\ cpio_ls(mem, Base) = [k \in DOMAIN files |-> files[k].name]
        /\ \A ptr \in Nat : ~IsHeader(mem, ptr) => cpio_ls(mem, ptr) = <<>>
    BY <1>1, ArchiveIs, ListIs
  <1>3. CASE dtb = GoodTree
    BY <1>2, <1>3 DEF There, AddressFound
  <1>4. CASE dtb # GoodTree
    <2>1. fdt_cpio_addr = 0 /\ ~IsHeader(mem, 0) /\ There = <<>>
      BY <1>4, ArchiveIs DEF There, AddressFound
    <2>2. cpio_ls(mem, 0) = <<>>
      BY <1>2, <2>1
    <2>3. [k \in DOMAIN There |-> There[k].name] = <<>>
      BY <2>1
    <2> QED
      BY <2>1, <2>2, <2>3
  <1> QED
    BY <1>3, <1>4

LEMMA NameServes ==
  ASSUME AddressFound, lab # 1, NEW name
  PROVE  (IF Found(name) = <<>> THEN <<>> ELSE <<Bytes(mem, Found(name))>>)
           = IF NamedFrom(There, name, 1) = {} THEN <<>>
               ELSE <<There[Least(NamedFrom(There, name, 1))].data>>
  <1>1. PICK place : Laid(mem, files, Base, place)
    BY ArchiveIs
  <1>2. CASE dtb = GoodTree
    <2>1. Found(name) = cpio_findFile(mem, Base, name) /\ There = files
      BY <1>2 DEF Found, There, AddressFound
    <2> QED
      BY <1>1, <2>1, ArchiveIs, FileServed
  <1>3. CASE dtb # GoodTree
    <2>1. fdt_cpio_addr = 0 /\ ~IsHeader(mem, 0) /\ There = <<>>
      BY <1>3, ArchiveIs DEF There, AddressFound
    <2>2. \A ptr \in Nat : ~IsHeader(mem, ptr) => cpio_findFile(mem, ptr, name) = <<>>
      BY <1>1, ArchiveIs, FindIs
    <2>3. Found(name) = <<>>
      BY <2>1, <2>2 DEF Found
    <2>4. NamedFrom(There, name, 1) = {}
      BY <2>1 DEF NamedFrom
    <2> QED
      BY <2>3, <2>4
  <1> QED
    BY <1>2, <1>3

\* What ArchiveServed says, in the terms of the lemmas.
Served ==
  /\ shown.as \in {"none", "ls", "file"}
  /\ shown.as = "ls" => shown.got = [k \in DOMAIN There |-> There[k].name]
  /\ shown.as = "file" =>
       shown.got = IF NamedFrom(There, shown.name, 1) = {} THEN <<>>
                     ELSE <<There[Least(NamedFrom(There, shown.name, 1))].data>>

ServedIInv == ShellIInv /\ Served

LEMMA ServedMeans ==
  ASSUME AddressFound, Served
  PROVE  ArchiveServed
  <1> DEFINE there == IF dtb = GoodTree THEN files ELSE <<>>
             named == {k \in DOMAIN there : there[k].name = shown.name}
  <1>1. there = There
    BY DEF There
  <1>2. there \in Seq([name : Seq(Nat), data : Seq(Nat)])
    BY ArchiveIs DEF IsArchive
  <1>3. DOMAIN there = 1 .. Len(there)
    BY <1>2, LenProperties
  <1>4. named = NamedFrom(There, shown.name, 1)
    BY <1>1, <1>3 DEF NamedFrom
  <1> HIDE DEF there, named
  <1>5. CASE shown.as = "none"
    BY <1>5 DEF ArchiveServed
  <1>6. CASE shown.as = "ls"
    <2>1. shown.got = [k \in DOMAIN there |-> there[k].name]
      BY <1>1, <1>6 DEF Served
    <2> QED
      BY <1>6, <2>1 DEF ArchiveServed, there
  <1>7. CASE shown.as = "file"
    <2>1. shown.got = IF named = {} THEN <<>>
                        ELSE <<there[CHOOSE k \in named : \A j \in named : k <= j].data>>
      BY <1>1, <1>4, <1>7 DEF Served, Least
    <2> QED
      BY <1>7, <2>1 DEF ArchiveServed, there, named
  <1> QED
    BY <1>5, <1>6, <1>7 DEF Served

LEMMA ServedStays ==
  ASSUME Served, UNCHANGED <<files, dtb, shown>>
  PROVE  Served'
  BY DEF Served, There, NamedFrom, Least

LEMMA NamesServed ==
  ASSUME AddressFound, lab # 1, NEW name, Shows(name), UNCHANGED <<files, dtb>>
  PROVE  Served'
  <1>1. /\ shown'.as = "file" /\ shown'.name = name
        /\ shown'.got = IF Found(name) = <<>> THEN <<>> ELSE <<Bytes(mem, Found(name))>>
    BY DEF Shows
  <1>2. There' = There
    BY DEF There
  <1>3. shown'.got = IF NamedFrom(There, name, 1) = {} THEN <<>>
               ELSE <<There[Least(NamedFrom(There, name, 1))].data>>
    BY <1>1, NameServes
  <1>4. Served' = /\ shown'.as \in {"none", "ls", "file"}
                  /\ shown'.as = "ls" => shown'.got = [k \in DOMAIN There' |-> There'[k].name]
                  /\ shown'.as = "file" =>
                       shown'.got = IF NamedFrom(There', shown'.name, 1) = {} THEN <<>>
                          ELSE <<There'[Least(NamedFrom(There', shown'.name, 1))].data>>
    BY DEF Served, NamedFrom, Least
  <1> QED
    BY <1>1, <1>2, <1>3, <1>4

LEMMA StepServes ==
  ASSUME ShellIInv, Served, [Next]_vars
  PROVE  Served'
  <1>1. AddressFound
    BY DEF ShellIInv
  <1>2. CASE BeginLine \/ Type \/ TimerIrq \/ Gpu \/ task_dispatcher \/ Prompt \/ ReadChar \/ LineFull
             \/ mailbox_write \/ mailbox_read \/ test_allocator_exhaustion \/ UNCHANGED vars
    <2>1. UNCHANGED <<files, dtb, shown>>
      BY <1>2 DEF BeginLine, Type, TimerIrq, Gpu, task_dispatcher, Prompt, ReadChar, LineFull,
         mailbox_write, mailbox_read, test_allocator_exhaustion, vars, memory
    <2> QED
      BY <2>1, ServedStays
  <1>3. CASE show \/ info \/ reboot \/ dtb_test \/ SetTimer \/ alloc_test \/ AskName
    <2>1. UNCHANGED <<files, dtb, shown>>
      BY <1>3 DEF show, info, reboot, dtb_test, SetTimer, alloc_test, AskName, Is, IsOneOf, Takes, memory
    <2> QED
      BY <2>1, ServedStays
  <1>4. CASE ls
    <2>1. /\ lab # 1 /\ UNCHANGED <<files, dtb>> /\ shown'.as = "ls"
          /\ shown'.got = cpio_ls(mem, fdt_cpio_addr)
      BY <1>4, LabHasCommand DEF ls, Is, IsOneOf, Takes, memory
    <2>2. shown'.got = [k \in DOMAIN There |-> There[k].name]
      BY <1>1, <2>1, LsServes
    <2>3. There' = There
      BY <2>1 DEF There
    <2> QED
      BY <2>1, <2>2, <2>3 DEF Served
  <1>5. CASE cpio_cat \/ cpio_load_program
    <2>1. /\ reader # "shell" /\ UNCHANGED <<files, dtb>> /\ Shows(buffer)
      BY <1>5 DEF cpio_cat, cpio_load_program, Takes, memory
    <2>2. lab # 1
      BY <1>1, <2>1 DEF AddressFound
    <2> QED
      BY <1>1, <2>1, <2>2, NamesServed
  <1> QED
    BY <1>2, <1>3, <1>4, <1>5 DEF Next, shell, parse_command

\* For every archive that newc writes, at every aligned address, and every
\* size of the buffers: ls lists its files, cat and load_program get the
\* bytes of the first file of the name that was typed; the sizes in the
\* headers come back as the numbers they were, each rounding up lands on the
\* next header, and the walk of the device tree has found the first one.
THEOREM ArchiveIsServed == Spec => []ArchiveServed
  <1>1. Init => ServedIInv
    BY InitTypes DEF Init, Served, ServedIInv
  <1>2. ServedIInv /\ [Next]_vars => ServedIInv'
    BY ShellTypes, StepServes DEF ServedIInv
  <1>3. ServedIInv => ArchiveServed
    BY ServedMeans DEF ShellIInv, ServedIInv
  <1> QED
    BY <1>1, <1>2, <1>3, PTL DEF Spec

=============================================================================
