------------------------------ MODULE Numbers ------------------------------
(***************************************************************************)
(* Integers as text: string2ll, ll2string, ull2string, digits10 and        *)
(* memtoull of util.c, and the numeric configuration values of config.c    *)
(* built on them.  Text is a sequence of one-character strings.            *)
(***************************************************************************)
EXTENDS Integers, Sequences

CONSTANTS
  W,    \* bits of a long long, 64 in the code
  Unit  \* the factors of the suffixes k, kb, m, mb, g and gb

LLONG_MAX == 2^(W - 1) - 1
LLONG_MIN == -(2^(W - 1))
ULLONG_MAX == 2^W - 1

ASSUME NumbersAssumption ==
  /\ W \in 4 .. 16
  /\ DOMAIN Unit = {s \in UNION {[1 .. n -> {"k", "m", "g", "b"}] : n \in 1 .. 2} :
                      s[1] # "b" /\ (Len(s) = 2 => s[2] = "b")}
  /\ \A s \in DOMAIN Unit : Unit[s] \in 1 .. 2^14

DigitOf == <<"1", "2", "3", "4", "5", "6", "7", "8", "9">>
Text(d) == IF d = 0 THEN "0" ELSE DigitOf[d]
Digits == {Text(d) : d \in 0 .. 9}
Value(ch) == CHOOSE d \in 0 .. 9 : Text(d) = ch

-----------------------------------------------------------------------------
(* Numbers to text                                                         *)

\* The comparisons of digits10, as far as TLC's integers reach.
digits10(v) ==
  IF v < 10 THEN 1 ELSE IF v < 100 THEN 2 ELSE IF v < 1000 THEN 3
  ELSE IF v < 1000000
       THEN IF v < 10000 THEN 4 ELSE IF v >= 100000 THEN 6 ELSE 5
  ELSE IF v >= 10000000 THEN 8 ELSE 7

Magnitude(v) == IF v < 0 THEN -v ELSE v
sdigits10(v) == digits10(Magnitude(v)) + IF v < 0 THEN 1 ELSE 0

Pair(v) == <<Text(v \div 10), Text(v % 10)>>

\* Two digits at a time, from the last.
RECURSIVE Written(_)
Written(v) ==
  IF v >= 100 THEN Written(v \div 100) \o Pair(v % 100)
  ELSE IF v < 10 THEN <<Text(v)>> ELSE Pair(v)

\* What is in dst up to its terminator, and the result, 0 for no room.
NoRoom == [length |-> 0, dst |-> << >>]

ull2string(dstlen, v) ==
  IF digits10(v) >= dstlen THEN NoRoom
  ELSE [length |-> digits10(v), dst |-> Written(v)]

ll2string(dstlen, v) ==
  LET u == ull2string(dstlen - 1, Magnitude(v))
  IN  IF v >= 0 THEN ull2string(dstlen, v)
      ELSE IF dstlen < 2 \/ u.length = 0 THEN NoRoom
      ELSE [length |-> u.length + 1, dst |-> <<"-">> \o u.dst]

-----------------------------------------------------------------------------
(* Text to numbers                                                         *)

\* "-" and the digits of the smallest long long, and the terminator.
LONG_STR_SIZE == digits10(-LLONG_MIN) + 2

\* An unsigned long long stored in a long long.
AsLongLong(v) == IF v > LLONG_MAX THEN v - 2^W ELSE v

NotANumber == [ok |-> FALSE, value |-> 0]
Number(v) == [ok |-> TRUE, value |-> v]

\* The digits from p on, added to v; not ok when an unsigned long long overflows.
RECURSIVE Scan(_, _, _)
Scan(s, p, v) ==
  IF p > Len(s) \/ (p <= Len(s) /\ s[p] \notin Digits) THEN [ok |-> TRUE, p |-> p, v |-> v]
  ELSE IF v > ULLONG_MAX \div 10 \/ v * 10 > ULLONG_MAX - Value(s[p])
  THEN [ok |-> FALSE, p |-> p, v |-> v]
  ELSE Scan(s, p + 1, v * 10 + Value(s[p]))

Limit_unsigned(negative) == ULLONG_MAX

\* The largest magnitude.
Limit(negative) == IF negative THEN -LLONG_MIN ELSE LLONG_MAX

string2ll(s) ==
  LET negative == s # << >> /\ s[1] = "-"
      first == IF negative THEN 2 ELSE 1
      r == Scan(s, first + 1, Value(s[first]))
  IN  IF s = << >> \/ Len(s) >= LONG_STR_SIZE THEN NotANumber
      ELSE IF s = <<"0">> THEN Number(0)
      ELSE IF first > Len(s) \/ (first <= Len(s) /\ s[first] \notin Digits \ {"0"})
      THEN NotANumber
      ELSE IF ~ r.ok \/ r.p <= Len(s) \/ r.v > Limit(negative) THEN NotANumber
      ELSE Number(AsLongLong((IF negative THEN -r.v ELSE r.v) % 2^W))

\* strtoull of the C library on digits: too large a number is ULLONG_MAX, which
\* memtoull does not tell from an exact one.
strtoull(s) == LET r == Scan(s, 1, 0) IN IF r.ok THEN r.v ELSE ULLONG_MAX

\* How many digits s starts with.
Leading(s) == CHOOSE n \in 0 .. Len(s) :
  /\ \A i \in 1 .. n : s[i] \in Digits
  /\ n < Len(s) => s[n + 1] \notin Digits

memtoull(s) ==
  LET n == Leading(s)
      suffix == SubSeq(s, n + 1, Len(s))
      val == strtoull(SubSeq(s, 1, n))
  IN  IF suffix \in {<< >>, <<"b">>} THEN Number(val)
      ELSE IF suffix \in DOMAIN Unit THEN Number((val * Unit[suffix]) % 2^W)
      ELSE NotANumber

-----------------------------------------------------------------------------
(* Numeric configuration values, of type int or long long.  A config has   *)
(* the bounds of its value, and memory when its flag is MEMORY_CONFIG.     *)

numericParseString(config, s) ==
  LET m == memtoull(s)
  IN  IF ~ config.memory THEN string2ll(s)
      ELSE IF m.ok THEN Number(AsLongLong(m.value)) ELSE NotANumber

numericBoundaryCheck(config, ll) == config.lower <= ll /\ ll <= config.upper

\* The value a config has after it is set to s; not ok when s is refused.
numericConfigSet(config, s) ==
  LET r == numericParseString(config, s)
  IN  IF r.ok /\ numericBoundaryCheck(config, r.value) THEN r ELSE NotANumber

numericConfigGet(config, value) ==
  IF config.memory THEN ull2string(128, value % 2^W).dst ELSE ll2string(128, value).dst
=============================================================================
