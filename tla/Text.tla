--------------------------------- MODULE Text ---------------------------------
(***************************************************************************)
(* The string helpers of src/utils.c.  A character is its ASCII code and a *)
(* string the sequence of what was stored before the closing NUL; a NUL    *)
(* that was received is a character like any other, and ends the string    *)
(* for the functions that look for its end (UpToNul).                      *)
(***************************************************************************)
EXTENDS Integers, Sequences, SequencesExt

CONSTANT Width  \* an unsigned int is below it: 2^32

\* C gives an int at least 16 bits.
ASSUME WidthAssumption == Width \in Nat /\ Width >= 65536

Newline == 10
Return == 13
Space == 32
Char(digit) == 48 + digit
IsDigit(c) == c \in Char(0) .. Char(9)

\* What the polled reads make of a character, except the raw one.
mini_uart_read(c) == IF c = Return THEN Newline ELSE c

\* 0 when the first size characters agree; past its end a string has a NUL.
strcmp(s1, s2, size) ==
  LET at(s, i) == IF i <= Len(s) THEN s[i] ELSE 0
  IN  IF \A i \in 1 .. size : at(s1, i) = at(s2, i) THEN 0 ELSE 1

\* What a loop that ends at the first NUL sees.
UpToNul(buffer) ==
  LET end == CHOOSE n \in 0 .. Len(buffer) :
               /\ n < Len(buffer) => buffer[n + 1] = 0
               /\ \A i \in 1 .. n : buffer[i] # 0
  IN  SubSeq(buffer, 1, end)

IsNumber(text) == \A i \in DOMAIN text : IsDigit(text[i])

\* The number with these digits, the first one counting most.
Number(base, digits) ==
  LET value[k \in 0 .. Len(digits)] ==
        IF k = 0 THEN 0 ELSE (value[k - 1] * base + digits[k]) % Width
  IN  value[Len(digits)]

Digits(text) == [i \in DOMAIN text |-> text[i] - Char(0)]

\* [mutant of parse2int] the number starts from the last digit
ParseBackwards(buffer) ==
  LET text == UpToNul(buffer)
  IN  IF IsNumber(text) THEN <<Number(10, Reverse(Digits(text)))>> ELSE <<>>

\* <<value>>, or <<>> for the status -1; an empty string is the number 0.
parse2int(buffer) ==
  LET text == UpToNul(buffer)
  IN  IF IsNumber(text) THEN <<Number(10, Digits(text))>> ELSE <<>>

HexValue(c) ==
  CASE IsDigit(c) -> c - Char(0)
    [] c \in 65 .. 70 -> c - 55
    [] c \in 97 .. 102 -> c - 87
    [] OTHER -> 0

\* What is not a hexadecimal digit counts as 0; int wraps.
hex2int(str) ==
  LET value == Number(16, [i \in DOMAIN str |-> HexValue(str[i])])
  IN  IF value < Width \div 2 THEN value ELSE value - Width

\* The next multiple of n, a power of two.
align(p, n) == ((p + n - 1) \div n) * n

\* The decimal digits; the sign is dropped.
int2char(value) ==
  LET abs == IF value < 0 THEN -value ELSE value
      digits[v \in 0 .. abs] ==
        IF v < 10 THEN <<Char(v)>> ELSE Append(digits[v \div 10], Char(v % 10))
  IN  digits[abs]

\* "message seconds", cut at the last space: <<message, seconds>>, or <<>>
\* when there is no message or what follows is no number.
parse_msg_secs(buffer) ==
  LET text == UpToNul(buffer)
      spaces == {i \in DOMAIN text : text[i] = Space}
      last == CHOOSE i \in spaces : \A j \in spaces : j <= i
      delay == parse2int(SubSeq(text, last + 1, Len(text)))
  IN  IF spaces = {} \/ last = 1 \/ delay = <<>>
        THEN <<>>
        ELSE <<SubSeq(text, 1, last - 1)>> \o delay

==============================================================================
