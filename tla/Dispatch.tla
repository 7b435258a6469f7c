------------------------------ MODULE Dispatch ------------------------------
(***************************************************************************)
(* From a request to its reply (server.c, networking.c): processCommand,   *)
(* the lookup in the command table, call, and the one command a client can *)
(* reach, ping.                                                            *)
(*                                                                         *)
(* A reply is the sequence of the chunks its addReply... calls append, a   *)
(* chunk a sequence of symbols: a character of an argument, or a fixed     *)
(* piece of protocol.                                                      *)
(***************************************************************************)
EXTENDS Integers, Sequences, TLC

CONSTANT Aborting   \* the words "host:" and "post", in any case, as sequences of characters

\* The result of dictFetchValue(server.commands, name): dictFind looks one bucket after
\* the name's own and finds no command (FindFindsPresent of Dict); NULL either way.
dictFetchValue(name) == "NULL"

\* _debugCommand stands in for every name: ping, if populateCommandTable set it.  It compares
\* the addresses of two literals "ping" of different files: the build decides (merged).
lookupCommand(argv, merged) ==
  IF dictFetchValue(argv[1]) # "NULL" THEN dictFetchValue(argv[1])
  ELSE IF merged THEN "ping" ELSE "NULL"

\* addReplyErrorLength, with the code when the text has none of its own.
addReplyError(text) == << <<"-ERR ">>, <<text>>, <<"\r\n">> >>

addReplyLongLongWithPrefix(ll, prefix) == << <<prefix, ll, "\r\n">> >>

\* addReplyBulk: the length, the bytes, the end of the line.
addReplyBulk(arg) ==
  addReplyLongLongWithPrefix(ToString(Len(arg)), "$") \o <<arg>> \o << <<"\r\n">> >>

\* No client subscribes to anything, so the first reply of pingCommand's two is never used.
pingCommand(argv) ==
  CASE Len(argv) > 2 -> addReplyError("wrong number of arguments")
    [] Len(argv) = 1 -> << <<"+PONG", "\r\n">> >>
    [] Len(argv) = 2 -> addReplyBulk(argv[2])

\* call: nothing runs, and nothing is answered, for a command that is NULL.
call(cmd, argv) == IF cmd = "NULL" THEN << >> ELSE pingCommand(argv)

\* C_ERR: securityWarningCommand has scheduled the client to be freed.
processCommandRefuses(argv) == argv[1] \in Aborting

processCommand(argv, merged) ==
  IF processCommandRefuses(argv) THEN << >> ELSE call(lookupCommand(argv, merged), argv)
=============================================================================
