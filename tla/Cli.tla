-------------------------------- MODULE Cli --------------------------------
(***************************************************************************)
(* An interactive session of redis-cli: what it believes of its connection *)
(* (the database and the transaction its prompt shows, the mode it reads   *)
(* in) while commands are answered, refused or redirected, the connection  *)
(* breaks at any moment and the user presses Ctrl-C.                       *)
(*                                                                         *)
(* The server and the protocol library hiredis are external: the server is *)
(* one that answers these commands as the client expects of any server,    *)
(* and a reply is known by the type the client looks at.  Formatting,      *)
(* history, preferences, help and the Lua debugger are left out.           *)
(***************************************************************************)
EXTENDS Integers, Sequences

CONSTANTS
    CliOptions,  \* what the command line may set: [n, auth, resp3, cluster_mode]
    CliCommand,  \* the commands the user types, of those below
    Repeats,     \* the number typed in front of a command
    CliBounds    \* bounds: lines typed; connections that break, Ctrl-C and messages pushed

\* repl refuses a number in front of a command that is not positive.
ASSUME CliAssumption ==
    /\ CliOptions \subseteq [n : {0, 1, 9}, auth : BOOLEAN, resp3 : 0..2, cluster_mode : BOOLEAN]
    /\ Repeats \subseteq Nat \ {0}
    /\ CliBounds \subseteq [lines : Nat, events : Nat]

VARIABLES
    config,      \* the fields of config that outlive a command
    context,     \* NULL, up, lost (by the peer, unnoticed), closed (by Ctrl-C), err
    remote,      \* the server's side of the connection
    replies,     \* replies on their way
    command,     \* the command being issued, how often, what is left of it, the loop it is read in
    cliPc,       \* where the program is
    caller,      \* who called cliConnect or cliSelect
    odd,         \* history: what makes the prompt or the replies unreliable
    bounds       \* the lines and the events still to come

clivars == <<config, context, remote, replies, command, cliPc, caller, odd, bounds>>

-----------------------------------------------------------------------------
(* The server                                                              *)

Fresh == [db |-> 0, tx |-> FALSE, qdb |-> 0, feed |-> FALSE]
Selects == [select0 |-> 0, select1 |-> 1, select9 |-> 9]
Databases == {0, 1}

\* The replies to command c: a command may always be refused, in a transaction it is
\* queued, and a node of a cluster may redirect it.
Answers(s, c) ==
    LET ok(t) == [type |-> "status", remote |-> t]
        error == [type |-> "error", remote |-> s]
        n == Selects[c]
    IN  CASE c = "multi" -> {error} \cup (IF s.tx THEN {} ELSE {ok([s EXCEPT !.tx = TRUE, !.qdb = s.db])})
          [] c = "discard" -> IF s.tx THEN {ok([s EXCEPT !.tx = FALSE])} ELSE {error}
          [] c = "exec" -> IF s.tx THEN {ok([s EXCEPT !.tx = FALSE, !.db = s.qdb])}
                                          \cup [type : {"nil", "error"}, remote : {[s EXCEPT !.tx = FALSE]}]
                           ELSE {error}
          [] c = "reset" -> {error, ok(Fresh)}
          [] c = "shutdown" -> {error} \cup (IF s.tx THEN {ok(s)} ELSE {})
          [] c \in DOMAIN Selects ->
               {error} \cup (IF s.tx THEN {ok([s EXCEPT !.qdb = IF n \in Databases THEN n ELSE @])}
                             ELSE IF n \in Databases THEN {ok([s EXCEPT !.db = n])} ELSE {})
          [] c \in {"subscribe", "monitor"} -> {error, ok([s EXCEPT !.feed = ~ s.tx])}
          [] c = "get" -> {error, ok(s)}
                            \cup (IF config.cluster_mode THEN [type : {"moved", "ask"}, remote : {s}] ELSE {})
          [] OTHER -> {error, ok(s)}

-----------------------------------------------------------------------------
(* Connecting                                                              *)

CliInit ==
    /\ \E o \in CliOptions :
         config = [dbnum |-> 0, input_dbnum |-> o.n, in_multi |-> FALSE, pre_multi_dbnum |-> 0,
                   auth |-> o.auth, resp3 |-> o.resp3, cluster_mode |-> o.cluster_mode,
                   cluster_reissue_command |-> FALSE, cluster_send_asking |-> FALSE,
                   shutdown |-> FALSE, monitor_mode |-> FALSE, pubsub_mode |-> FALSE,
                   slave_mode |-> FALSE, blocking_state_aborted |-> FALSE, last_cmd_type |-> "none"]
    /\ context = "NULL" /\ remote = Fresh /\ replies = << >>
    /\ command = [cmd |-> "none", count |-> 0, repeat |-> 0, loop |-> "plain"]
    /\ cliPc = "connect" /\ caller = "repl"
    /\ odd = {} /\ bounds \in CliBounds

\* cliConnect, or cliSelect, returns to its caller, with config as it is then.
Return(ok, cfg) ==
    /\ cliPc' = CASE caller = "repl" -> "repl"
                  [] caller = "issue" -> IF ok THEN "asking" ELSE "repl"
                  [] caller = "read" -> IF ok THEN "readOk" ELSE "readFailed"
                  [] caller = "auth" -> "next"
    /\ config' = IF caller = "issue" THEN [cfg EXCEPT !.cluster_reissue_command = FALSE] ELSE cfg

\* Mutant: a new connection is taken to be in the transaction of the old one.
cliConnect_keeps_multi ==
    /\ cliPc = "connect"
    /\ LET cfg == IF context = "NULL" THEN config ELSE [config EXCEPT !.dbnum = 0]
       IN  \/ context' = "up" /\ cliPc' = "auth" /\ config' = cfg
           \/ context' = "NULL" /\ Return(FALSE, cfg)
    /\ remote' = Fresh /\ replies' = << >>
    /\ UNCHANGED <<command, caller, odd, bounds>>

\* The last fields of the prompt are forgotten with the connection, if there is one.
cliConnect ==
    /\ cliPc = "connect"
    /\ LET cfg == IF context = "NULL" THEN config ELSE [config EXCEPT !.dbnum = 0, !.in_multi = FALSE]
       IN  \/ context' = "up" /\ cliPc' = "auth" /\ config' = cfg
           \/ context' = "NULL" /\ Return(FALSE, cfg)
    /\ remote' = Fresh /\ replies' = << >>
    /\ UNCHANGED <<command, caller, odd, bounds>>

Refused == {"error", "moved", "ask"}
Positive == {"status", "nil"}

\* redisCommand: c is sent and one reply, r, is taken, "none" if the connection breaks.
redisCommand(c, r) ==
    \/ /\ context = "up"
       /\ \E a \in Answers(remote, c) :
            LET all == Append(replies, a.type)
            IN  remote' = a.remote /\ replies' = Tail(all) /\ r = Head(all)
       /\ UNCHANGED context
    \/ /\ context # "NULL" /\ context' = "err" /\ r = "none"
       /\ UNCHANGED <<remote, replies>>

cliAuth ==
    /\ cliPc = "auth"
    /\ IF config.auth
       THEN \/ \E r \in Refused \cup {"none"} : redisCommand("auth", r) /\ Return(FALSE, config)
            \/ \E r \in Positive : redisCommand("auth", r) /\ cliPc' = "select" /\ UNCHANGED config
       ELSE cliPc' = "select" /\ UNCHANGED <<config, context, remote, replies>>
    /\ UNCHANGED <<command, caller, odd, bounds>>

cliSelect ==
    /\ cliPc = "select"
    /\ LET cfg == [config EXCEPT !.dbnum = config.input_dbnum]
           goOn(c) == IF caller = "auth" THEN Return(TRUE, c) ELSE cliPc' = "hello" /\ config' = c
           c == CHOOSE s \in DOMAIN Selects : Selects[s] = config.input_dbnum
       IN  \/ cfg = config /\ goOn(config) /\ UNCHANGED <<context, remote, replies>>
           \/ /\ cfg # config
              /\ \/ \E r \in Refused \cup {"none"} : redisCommand(c, r) /\ Return(FALSE, config)
                 \/ \E r \in Positive : redisCommand(c, r) /\ goOn(cfg)
           \/ /\ cfg # config /\ context = "NULL"
              /\ cliPc' = "crashed" /\ UNCHANGED <<config, context, remote, replies>>
    /\ odd' = IF config.dbnum # config.input_dbnum /\ config.input_dbnum \notin Databases /\ remote.tx
              THEN odd \cup {"queued"} ELSE odd
    /\ UNCHANGED <<command, caller, bounds>>

\* A refused HELLO matters only if the user asked for RESP3 (1), not for JSON (2).
cliSwitchProto ==
    /\ cliPc = "hello"
    /\ IF config.resp3 = 0 THEN Return(TRUE, config) /\ UNCHANGED <<context, remote, replies>>
       ELSE \E r \in Positive \cup Refused \cup {"none"} :
              /\ redisCommand("hello", r)
              /\ Return(r # "none" /\ (r \in Refused => config.resp3 = 2), config)
    /\ UNCHANGED <<command, caller, odd, bounds>>

-----------------------------------------------------------------------------
(* Issuing a command                                                       *)

\* A line is typed: a command, "connect host port", or "quit".
repl ==
    /\ cliPc = "repl" /\ bounds.lines > 0
    /\ bounds' = [bounds EXCEPT !.lines = @ - 1]
    /\ \/ \E c \in CliCommand, n \in Repeats :
            cliPc' = "issue" /\ command' = [cmd |-> c, count |-> n, repeat |-> 0, loop |-> "plain"] /\ UNCHANGED caller
       \/ cliPc' = "connect" /\ caller' = "repl" /\ UNCHANGED command
       \/ cliPc' = "exited" /\ UNCHANGED <<command, caller>>
    /\ UNCHANGED <<config, context, remote, replies, odd>>

issueCommandRepeat ==
    /\ cliPc = "issue"
    /\ IF config.cluster_reissue_command \/ context \in {"NULL", "err"}
       THEN cliPc' = "connect" /\ caller' = "issue"
       ELSE cliPc' = "asking" /\ UNCHANGED caller
    /\ UNCHANGED <<config, context, remote, replies, command, odd, bounds>>

cliSendAsking ==
    /\ cliPc = "asking"
    /\ IF config.cluster_send_asking
       THEN \/ \E r \in Refused \cup {"none"} : redisCommand("asking", r) /\ cliPc' = "repl"
            \/ \E r \in Positive : redisCommand("asking", r) /\ cliPc' = "send"
       ELSE cliPc' = "send" /\ UNCHANGED <<context, remote, replies>>
    /\ config' = [config EXCEPT !.cluster_send_asking = FALSE]
    /\ UNCHANGED <<command, caller, odd, bounds>>

\* cliSendCommand, before its loop (issueCommandRepeat has seen to it that context is not
\* NULL).  A command that is issued again is repeated as often as the first time.
cliSendCommand ==
    /\ cliPc = "send"
    /\ config' = CASE command.cmd = "shutdown" -> [config EXCEPT !.shutdown = TRUE]
                   [] command.cmd = "monitor" -> [config EXCEPT !.monitor_mode = TRUE]
                   [] command.cmd = "subscribe" -> [config EXCEPT !.pubsub_mode = TRUE]
                   [] command.cmd = "sync" -> [config EXCEPT !.slave_mode = TRUE]
                   [] OTHER -> config
    /\ command' = [command EXCEPT !.repeat = command.count, !.loop = "plain"]
    /\ cliPc' = "loop"
    /\ UNCHANGED <<context, remote, replies, caller, odd, bounds>>

\* cliSendCommand is done: a redirected command is issued again.
Issued(cfg) == IF cfg.cluster_mode /\ cfg.cluster_reissue_command THEN "issue" ELSE "repl"

\* issueCommandRepeat gives up a connection on which a command failed.
Drop(c) ==
    /\ context' = "NULL"
    /\ odd' = IF c.dbnum # 0 \/ c.in_multi THEN odd \cup {"dropped"} ELSE odd

\* The head of cliSendCommand's loop; the library writes the command when a reply is asked for.
AppendCommand ==
    /\ cliPc = "loop"
    /\ \/ /\ command.repeat = 0
          /\ cliPc' = Issued(config)
          /\ UNCHANGED <<config, context, remote, replies, command, odd>>
       \/ /\ command.repeat > 0 /\ context = "NULL"
          /\ cliPc' = "crashed"
          /\ UNCHANGED <<config, context, remote, replies, command, odd>>
       \/ /\ command.repeat > 0 /\ context # "NULL" /\ config.slave_mode
          /\ config' = [config EXCEPT !.slave_mode = FALSE]
          /\ Drop(config) /\ cliPc' = "repl"
          /\ UNCHANGED <<remote, replies, command>>
       \/ /\ command.repeat > 0 /\ context # "NULL" /\ ~ config.slave_mode
          /\ command' = [command EXCEPT !.repeat = @ - 1,
                        !.loop = IF config.monitor_mode THEN "monitor"
                                 ELSE IF config.pubsub_mode THEN "pubsub" ELSE "plain"]
          /\ \/ /\ context = "up"
                /\ \E a \in Answers(remote, command.cmd) : remote' = a.remote /\ replies' = Append(replies, a.type)
                /\ UNCHANGED context
             \/ /\ context = "up" /\ command.cmd = "shutdown"
                /\ context' = "lost" /\ UNCHANGED <<remote, replies>>
             \/ context # "up" /\ UNCHANGED <<context, remote, replies>>
          /\ odd' = odd \cup (IF command.cmd = "subscribe" /\ ~ config.pubsub_mode THEN {"subscribed"} ELSE {})
                        \cup (IF command.cmd = "select9" /\ remote.tx THEN {"queued"} ELSE {})
          /\ cliPc' = "read" /\ UNCHANGED config
    /\ UNCHANGED <<caller, bounds>>

-----------------------------------------------------------------------------
(* Reading a reply                                                         *)

\* cliReadReply with a reply: a redirection asks for the command to be issued again.
ReplyRead ==
    /\ cliPc = "read" /\ context \in {"up", "lost", "closed"} /\ replies # << >>
    /\ LET r == Head(replies)
       IN  config' = [config EXCEPT !.last_cmd_type = IF r \in {"moved", "ask"} THEN "error" ELSE r,
                        !.cluster_reissue_command = @ \/ r \in {"moved", "ask"},
                        !.cluster_send_asking = @ \/ r = "ask"]
    /\ replies' = Tail(replies) /\ cliPc' = "readOk"
    /\ UNCHANGED <<context, remote, command, caller, odd, bounds>>

\* Mutant: the mode that was interrupted goes on over the new connection.
ReadFails_keeps_mode ==
    /\ cliPc = "read"
    /\ context \in {"closed", "err"} \/ (context = "lost" /\ replies = << >>)
    /\ config' = [config EXCEPT !.blocking_state_aborted = FALSE]
    /\ IF config.blocking_state_aborted THEN cliPc' = "connect" /\ caller' = "read"
       ELSE cliPc' = "readFailed" /\ UNCHANGED caller
    /\ UNCHANGED <<context, remote, replies, command, odd, bounds>>

\* cliReadReply without one: what Ctrl-C has closed is opened again, a SHUTDOWN explains it,
\* and some errors end the program.
ReadFails ==
    /\ cliPc = "read"
    /\ context \in {"closed", "err"} \/ (context = "lost" /\ replies = << >>)
    /\ IF config.blocking_state_aborted
       THEN /\ config' = [config EXCEPT !.blocking_state_aborted = FALSE,
                            !.monitor_mode = FALSE, !.pubsub_mode = FALSE]
            /\ cliPc' = "connect" /\ caller' = "read"
            /\ odd' = IF command.loop = "plain" THEN odd \cup {"late"} ELSE odd
            /\ UNCHANGED context
       ELSE /\ UNCHANGED <<config, caller>>
            /\ IF config.shutdown
               THEN context' = "NULL" /\ cliPc' = "readOk" /\ odd' = odd \cup {"dropped"}
               ELSE context' = "err" /\ cliPc' \in {"readFailed", "exited"} /\ UNCHANGED odd
    /\ UNCHANGED <<remote, replies, command, bounds>>

\* A reply is asked of no connection at all.
ReadNull ==
    /\ cliPc = "read" /\ context = "NULL"
    /\ cliPc' = "crashed"
    /\ UNCHANGED <<config, context, remote, replies, command, caller, odd, bounds>>

\* What the session learns from a reply to c.
Learnt(cfg, c) ==
    LET error == cfg.last_cmd_type = "error"
        before == [cfg EXCEPT !.in_multi = FALSE, !.dbnum = cfg.pre_multi_dbnum, !.input_dbnum = cfg.pre_multi_dbnum]
    IN  CASE c \in DOMAIN Selects /\ ~ error -> [cfg EXCEPT !.dbnum = Selects[c], !.input_dbnum = Selects[c]]
          [] c = "multi" /\ ~ error -> [cfg EXCEPT !.in_multi = TRUE, !.pre_multi_dbnum = cfg.dbnum]
          [] c = "exec" /\ cfg.in_multi ->
               IF cfg.last_cmd_type \in {"error", "nil"} THEN before ELSE [cfg EXCEPT !.in_multi = FALSE]
          [] c = "discard" /\ ~ error -> before
          [] c = "reset" /\ ~ error ->
               [cfg EXCEPT !.in_multi = FALSE, !.dbnum = 0, !.input_dbnum = 0, !.resp3 = 0]
          [] OTHER -> cfg

\* cliSendCommand goes on after a reply, in the loop of its mode.
ReadOk ==
    /\ cliPc = "readOk"
    /\ LET error == config.last_cmd_type = "error"
       IN  \/ /\ command.loop = "monitor"
              /\ config' = [config EXCEPT !.monitor_mode = @ /\ ~ error]
              /\ cliPc' = IF config'.monitor_mode THEN "read" ELSE Issued(config)
              /\ UNCHANGED caller
           \/ /\ command.loop = "pubsub"
              /\ config' = [config EXCEPT !.pubsub_mode = @ /\ ~ error]
              /\ cliPc' = IF config'.pubsub_mode THEN "read" ELSE "loop"
              /\ UNCHANGED caller
           \/ /\ command.loop = "plain"
              /\ config' = Learnt(config, command.cmd)
              /\ IF command.cmd = "auth" THEN cliPc' = "select" /\ caller' = "auth"
                 ELSE cliPc' = "next" /\ UNCHANGED caller
    /\ UNCHANGED <<context, remote, replies, command, odd, bounds>>

NextRepeat ==
    /\ cliPc = "next"
    /\ cliPc' = IF config.cluster_reissue_command THEN Issued(config) ELSE "loop"
    /\ UNCHANGED <<config, context, remote, replies, command, caller, odd, bounds>>

\* A mode cannot go on without its connection; another command fails with it.
ReadFailed ==
    /\ cliPc = "readFailed"
    /\ IF command.loop = "plain" THEN Drop(config) /\ cliPc' = "repl"
       ELSE cliPc' = "exited" /\ UNCHANGED <<context, odd>>
    /\ UNCHANGED <<config, remote, replies, command, caller, bounds>>

-----------------------------------------------------------------------------
(* What happens to the program                                             *)

Ended == cliPc \in {"exited", "crashed"}
Event == ~ Ended /\ bounds.events > 0 /\ bounds' = [bounds EXCEPT !.events = @ - 1]

sigIntHandler ==
    /\ Event
    /\ IF ~ (config.monitor_mode \/ config.pubsub_mode)
       THEN cliPc' = "exited" /\ UNCHANGED <<config, context>>
       ELSE IF context = "NULL" THEN cliPc' = "crashed" /\ UNCHANGED <<config, context>>
       ELSE /\ context' = "closed" /\ UNCHANGED cliPc
            /\ config' = [config EXCEPT !.blocking_state_aborted = TRUE]
    /\ UNCHANGED <<remote, replies, command, caller, odd>>

PeerLost ==
    /\ Event
    /\ context = "up" /\ context' = "lost"
    /\ UNCHANGED <<config, remote, replies, command, cliPc, caller, odd>>

Pushed ==
    /\ Event
    /\ context = "up" /\ remote.feed
    /\ replies' = Append(replies, "status")
    /\ UNCHANGED <<config, context, remote, command, cliPc, caller, odd>>

CliStep ==
    \/ cliConnect \/ cliAuth \/ cliSelect \/ cliSwitchProto
    \/ issueCommandRepeat \/ cliSendAsking \/ cliSendCommand \/ AppendCommand
    \/ ReplyRead \/ ReadFails \/ ReadNull \/ ReadOk \/ NextRepeat \/ ReadFailed

CliNext == CliStep \/ repl \/ sigIntHandler \/ PeerLost \/ Pushed

CliSpec == CliInit /\ [][CliNext]_clivars

-----------------------------------------------------------------------------
(* Properties                                                              *)

CliTypeOK ==
    /\ context \in {"NULL", "up", "lost", "closed", "err"}
    /\ config.dbnum \in {0, 1, 9} /\ config.last_cmd_type \in {"none", "status", "error", "nil"}
    /\ command.count \in {0} \cup Repeats /\ command.repeat \in 0..command.count
    /\ odd \subseteq {"dropped", "queued", "subscribed", "late"}

AtPrompt == cliPc = "repl" /\ context = "up"

\* "[dbnum]" and "(TX)" in the prompt are the database and the transaction of the
\* connection (in a transaction, the database it will be in after EXEC), unless the
\* connection of an earlier command was given up without forgetting them, the server
\* queued a SELECT that it will refuse, a repeated SUBSCRIBE put replies out of step, or a
\* Ctrl-C that came as its mode ended was taken for the failure of a later command.
PromptTrue ==
    AtPrompt /\ odd = {} =>
      /\ config.in_multi = remote.tx
      /\ config.dbnum = IF remote.tx THEN remote.qdb ELSE remote.db

\* A reply is shown for the command it answers: none is left for the next one, and no
\* connection that is sent messages is used for commands, unless a subscription was repeated.
InStep == AtPrompt /\ "subscribed" \notin odd => replies = << >> /\ ~ remote.feed

\* The program uses no context it has freed, before a SHUTDOWN was sent.
NoNullContext == cliPc = "crashed" => config.shutdown

\* What the session believes is true after any sequence of commands, replies, broken
\* connections and interrupts, but for the cases named.
SessionSound == CliTypeOK /\ PromptTrue /\ InStep /\ NoNullContext

\* A Ctrl-C that closes the connection of a mode gets the user out of it: back to the
\* prompt, or out of the program, unless a repeated subscription put replies out of step.
InterruptReturns == context = "closed" /\ command.loop # "plain" /\ "subscribed" \notin odd ~> (cliPc = "repl" \/ Ended)
=============================================================================
