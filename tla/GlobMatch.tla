----------------------------- MODULE GlobMatch -----------------------------
(***************************************************************************)
(* stringmatchlen of util.c: glob-style matching with *, ?, [...] and \.   *)
(* Characters are numbers, as the ranges of [a-b] need their order; the    *)
(* special ones are named.  Case is not modelled (nocase is 0).            *)
(***************************************************************************)
EXTENDS Integers, Sequences

Star == 1
Question == 2
Open == 3
Close == 4
Caret == 5
Backslash == 6
Minus == 7

\* pattern[p] in C: the terminator after the last character.
CharAt(pattern, p) == IF p <= Len(pattern) THEN pattern[p] ELSE 0

\* patternLen when pattern points to p.
Left(pattern, p) == Len(pattern) - p + 1

Between(c, x, y) == (x <= c /\ c <= y) \/ (y <= c /\ c <= x)

\* The list of [...] from p on: whether c is in it, and where the pattern
\* stands after the loop, on the "]" or, without one, on the last character.
RECURSIVE InList(_, _, _, _)
InList(pattern, p, c, match) ==
  LET ch == CharAt(pattern, p)
      n == Left(pattern, p)
  IN  IF ch = Backslash /\ n >= 2
      THEN InList(pattern, p + 2, c, match \/ CharAt(pattern, p + 1) = c)
      ELSE IF ch = Close THEN [p |-> p, match |-> match]
      ELSE IF n = 0 THEN [p |-> p - 1, match |-> match]
      ELSE IF n >= 3 /\ CharAt(pattern, p + 1) = Minus
      THEN InList(pattern, p + 3, c, match \/ Between(c, ch, CharAt(pattern, p + 2)))
      ELSE InList(pattern, p + 1, c, match \/ ch = c)

\* The item at p, which is not a star, against the character c.
Item(pattern, p, c) ==
  LET ch == CharAt(pattern, p)
      not == CharAt(pattern, p + 1) = Caret
      list == InList(pattern, IF not THEN p + 2 ELSE p + 1, c, FALSE)
      lit == IF ch = Backslash /\ Left(pattern, p) >= 2 THEN p + 1 ELSE p
  IN  IF ch = Question THEN [p |-> p, match |-> TRUE]
      ELSE IF ch = Open THEN [p |-> list.p, match |-> list.match # not]
      ELSE [p |-> lit, match |-> CharAt(pattern, lit) = c]

\* The first character from p on that is not a star.
AfterStars(pattern, p) == CHOOSE q \in p .. Len(pattern) + 1 :
  CharAt(pattern, q) # Star /\ \A r \in p .. q - 1 : pattern[r] = Star

RECURSIVE Loop_no_backtracking(_, _, _, _)
Loop_no_backtracking(pattern, string, p, q) ==
  LET next == AfterStars(pattern, p)
      item == Item(pattern, p, string[q])
  IN  IF p > Len(pattern) \/ q > Len(string) THEN p > Len(pattern) /\ q > Len(string)
      ELSE IF pattern[p] = Star THEN next > Len(pattern)
           \/ Loop_no_backtracking(pattern, string, next, q)
      ELSE /\ item.match
           /\ IF q = Len(string) THEN AfterStars(pattern, item.p + 1) > Len(pattern)
              ELSE Loop_no_backtracking(pattern, string, item.p + 1, q + 1)

\* The loop with pattern at p and string at q.
RECURSIVE Loop(_, _, _, _)
Loop(pattern, string, p, q) ==
  LET next == AfterStars(pattern, p)
      item == Item(pattern, p, string[q])
  IN  IF p > Len(pattern) \/ q > Len(string) THEN p > Len(pattern) /\ q > Len(string)
      ELSE IF pattern[p] = Star
      THEN next > Len(pattern) \/ \E k \in q .. Len(string) : Loop(pattern, string, next, k)
      ELSE /\ item.match
           /\ IF q = Len(string) THEN AfterStars(pattern, item.p + 1) > Len(pattern)
              ELSE Loop(pattern, string, item.p + 1, q + 1)

stringmatchlen(pattern, string) == Loop(pattern, string, 1, 1)
=============================================================================
