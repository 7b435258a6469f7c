---------------------------- MODULE MCAlgorithms ----------------------------
(***************************************************************************)
(* The pure functions of the server on all their inputs up to a bound,     *)
(* each against what it is meant to compute.  Numbers are enumerated, text *)
(* and patterns are built one character at a time.                         *)
(***************************************************************************)
EXTENDS SplitArgs, Numbers, GlobMatch

CONSTANTS
  ArgChar, MaxArgs,     \* bytes and total length of two arguments
  TextChar, MaxText,    \* characters and length of a number's text
  GlobChar, MaxPattern, \* characters and length of a pattern
  MaxString             \* length of the strings a pattern is matched with

MCArgChar == {"x", "n", "0", "1", "'", "\"", "\\", " ", "\n", "^"}
MCTextChar == {"-", "0", "1", "2", "7", "8", "9", "k", "b"}
MCGlobChar == {Star, Question, Open, Close, Caret, Backslash, Minus, 10, 12}
MCUnit == [s \in {<<"k">>, <<"k", "b">>, <<"m">>, <<"m", "b">>, <<"g">>, <<"g", "b">>} |->
             (CASE s[1] = "k" -> 10 [] s[1] = "m" -> 100 [] s[1] = "g" -> 1000) + Len(s) - 1]

VARIABLE input

Init ==
  \/ input = [kind |-> "args", first |-> << >>, second |-> << >>]
  \/ input = [kind |-> "text", text |-> << >>]
  \/ input = [kind |-> "pattern", pattern |-> << >>]
  \/ \E v \in LLONG_MIN .. LLONG_MAX : input = [kind |-> "number", number |-> v]

GrowFirst ==
  /\ input.kind = "args" /\ Len(input.first) + Len(input.second) < MaxArgs
  /\ \E ch \in ArgChar : input' = [input EXCEPT !.first = Append(@, ch)]
GrowSecond ==
  /\ input.kind = "args" /\ Len(input.first) + Len(input.second) < MaxArgs
  /\ \E ch \in ArgChar : input' = [input EXCEPT !.second = Append(@, ch)]
GrowText ==
  /\ input.kind = "text" /\ Len(input.text) < MaxText
  /\ \E ch \in TextChar : input' = [input EXCEPT !.text = Append(@, ch)]
GrowPattern ==
  /\ input.kind = "pattern" /\ Len(input.pattern) < MaxPattern
  /\ \E ch \in GlobChar : input' = [input EXCEPT !.pattern = Append(@, ch)]

Next == GrowFirst \/ GrowSecond \/ GrowText \/ GrowPattern
Spec == Init /\ [][Next]_input

-----------------------------------------------------------------------------
\* "Note that sdscatrepr() is able to convert back a string into a quoted string
\* in the same format sdssplitargs() is able to parse": arguments that main()
\* quotes are read back as they were, and one never runs into the next.
QuotedIsReadBack ==
  input.kind = "args" =>
    LET line == Append(sdscatrepr(<< >>, input.first), " ")
    IN  sdssplitargs(sdscatrepr(line, input.second))
          = [ok |-> TRUE, argv |-> <<input.first, input.second>>]

\* An inline request is refused for its quotes only: a line without quotes is
\* always split, into arguments that hold no blank and lose no other byte.
PlainIsSplit ==
  input.kind = "args" /\ Range(input.first) \cap {"\"", "'"} = {}
    => LET r == sdssplitargs(input.first)
           blank == {" ", "\n", "\r", "\t"}
       IN  /\ r.ok
           /\ \A i \in DOMAIN r.argv : r.argv[i] # << >> /\ Range(r.argv[i]) \cap blank = {}
           /\ FlattenSeq(r.argv) = SelectSeq(input.first, LAMBDA ch : ch \notin blank)

\* Splitting undoes quoting, and cuts a plain line at its blanks.
SplitExact == QuotedIsReadBack /\ PlainIsSplit

\* Every long long, the smallest included, is written by ll2string in a buffer
\* of LONG_STR_SIZE and read back by string2ll; the length that was computed
\* beforehand is the one that is written.
NumbersReadBack ==
  input.kind = "number" =>
    LET r == ll2string(LONG_STR_SIZE, input.number)
    IN  /\ string2ll(r.dst) = Number(input.number)
        /\ r.length = Len(r.dst) /\ r.length = sdigits10(input.number)

\* "obtain back the string from the number without any loss in the string
\* representation": a text string2ll accepts is the one ll2string writes for its
\* value, so that a number has no second spelling in the protocol.
OneTextPerNumber ==
  input.kind = "text" /\ string2ll(input.text).ok
    => ll2string(LONG_STR_SIZE, string2ll(input.text).value).dst = input.text

\* A numeric configuration value is within its bounds after any text it
\* accepts, and the text CONFIG GET and REWRITE produce for it sets it again.
Configs == {[memory |-> FALSE, lower |-> 0, upper |-> LLONG_MAX - 1],
            [memory |-> TRUE, lower |-> 8, upper |-> LLONG_MAX]}
ConfigReadBack ==
  input.kind = "text" => \A c \in Configs :
    LET r == numericConfigSet(c, input.text)
    IN  r.ok => /\ c.lower <= r.value /\ r.value <= c.upper
                /\ numericConfigSet(c, numericConfigGet(c, r.value)) = r

\* A number and its text determine each other, in the protocol and in the configuration.
NumbersExact == NumbersReadBack /\ OneTextPerNumber /\ ConfigReadBack

\* What a pattern means, item by item: the string is cut into one piece per
\* item, of any length for a star and of one matching character for others.
RECURSIVE Items(_, _)
Items(pattern, p) ==
  IF p > Len(pattern) THEN << >>
  ELSE IF pattern[p] = Star THEN <<p>> \o Items(pattern, p + 1)
  ELSE <<p>> \o Items(pattern, Item(pattern, p, 0).p + 1)

Means(pattern, string) ==
  LET items == Items(pattern, 1)
      n == Len(items)
  IN  \E cut \in [0 .. n -> 0 .. Len(string)] :
        /\ cut[0] = 0 /\ cut[n] = Len(string)
        /\ \A i \in 1 .. n :
             IF pattern[items[i]] = Star THEN cut[i - 1] <= cut[i]
             ELSE /\ cut[i] = cut[i - 1] + 1
                  /\ Item(pattern, items[i], string[cut[i]]).match

\* "Glob-style pattern matching": stringmatchlen, which scans once and tries
\* again only after a star, finds a match exactly when there is one, for
\* every string that is not empty.
GlobExact ==
  input.kind = "pattern" =>
    \A string \in UNION {[1 .. n -> {10, 11, 12}] : n \in 1 .. MaxString} :
      stringmatchlen(input.pattern, string) = Means(input.pattern, string)
=============================================================================
