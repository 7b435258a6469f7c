----------------------------- MODULE SplitArgs -----------------------------
(***************************************************************************)
(* The quoting of sds.c: sdssplitargs splits a line into arguments (inline *)
(* requests, configuration lines), sdscatrepr writes an argument so that   *)
(* sdssplitargs reads it back (command-line options handed to the          *)
(* configuration parser).                                                  *)
(*                                                                         *)
(* A byte is a one-character string; "^" stands for the byte 0x01, the     *)
(* only one here that is not printable and has no escape of its own.       *)
(***************************************************************************)
EXTENDS Integers, SequencesExt

Blank == {" ", "\n", "\r", "\t"}       \* isspace
Unprintable == {"^"}

\* What \c stands for between double quotes.
Escape == ("n" :> "\n") @@ ("r" :> "\r") @@ ("t" :> "\t")
Unescape(ch) == IF ch \in DOMAIN Escape THEN Escape[ch] ELSE ch

At(s, p) == IF p <= Len(s) THEN s[p] ELSE "nul"

\* The value of a hexadecimal escape: "\x01" is the only one that stands for a
\* byte of this model.
IsHex(s, p) == p + 3 <= Len(s) /\ SubSeq(s, p, p + 3) = <<"\\", "x", "0", "1">>

NoArgs == [ok |-> FALSE, argv |-> << >>]

\* The closing quote must end the argument.
Closes(line, p) == At(line, p + 1) \in Blank \cup {"nul"}

\* The argument that is being read at p: quote is the kind of quotes p is in.
\* Returns where it ends, or fails.
RECURSIVE Argument(_, _, _, _)
Argument(line, p, quote, cur) ==
  LET ch == At(line, p)
      add(n, x) == Argument(line, p + n, quote, Append(cur, x))
      failed == [ok |-> FALSE, p |-> p, arg |-> << >>]
      ended(q) == [ok |-> TRUE, p |-> q, arg |-> cur]
  IN  CASE quote = "\"" /\ IsHex(line, p) -> add(4, "^")
        [] quote = "\"" /\ ~ IsHex(line, p) /\ ch = "\\" /\ At(line, p + 1) # "nul" ->
             add(2, Unescape(line[p + 1]))
        [] quote = "'" /\ ch = "\\" /\ At(line, p + 1) = "'" -> add(2, "'")
        [] quote # "" /\ ch = quote -> IF Closes(line, p) THEN ended(p + 1) ELSE failed
        [] quote # "" /\ ch = "nul" -> failed
        [] quote = "" /\ ch \in Blank \cup {"nul"} -> ended(p)
        [] quote = "" /\ ch \in {"\"", "'"} -> Argument(line, p + 1, ch, cur)
        [] OTHER -> add(1, ch)

RECURSIVE SplitFrom(_, _, _)
SplitFrom(line, p, argv) ==
  LET a == Argument(line, p, "", << >>)
  IN  IF At(line, p) = "nul" THEN [ok |-> TRUE, argv |-> argv]
      ELSE IF At(line, p) \in Blank THEN SplitFrom(line, p + 1, argv)
      ELSE IF a.ok THEN SplitFrom(line, a.p, Append(argv, a.arg)) ELSE NoArgs

\* The arguments of a line; not ok is the code's NULL.
sdssplitargs(line) == SplitFrom(line, 1, << >>)

\* How a byte is written between double quotes.
ReprOf_raw_quote(ch) ==
  CASE ch = "\n" -> <<"\\", "n">> [] ch = "\r" -> <<"\\", "r">> [] ch = "\t" -> <<"\\", "t">>
    [] ch \in Unprintable -> <<"\\", "x", "0", "1">>
    [] OTHER -> <<ch>>

ReprOf(ch) ==
  CASE ch \in {"\\", "\""} -> <<"\\", ch>>
    [] ch = "\n" -> <<"\\", "n">> [] ch = "\r" -> <<"\\", "r">> [] ch = "\t" -> <<"\\", "t">>
    [] ch \in Unprintable -> <<"\\", "x", "0", "1">>
    [] OTHER -> <<ch>>

sdscatrepr(s, arg) ==
  s \o <<"\"">> \o FlattenSeq([i \in DOMAIN arg |-> ReprOf(arg[i])]) \o <<"\"">>
=============================================================================
