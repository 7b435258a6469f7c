---------------------------- MODULE MCConnection ----------------------------
(***************************************************************************)
(* The two ends of a connection, each with all that the other may do: the  *)
(* server with its clients, and a session of redis-cli.  `end' says which  *)
(* one a behaviour runs; the other stays as it begins.                     *)
(***************************************************************************)
EXTENDS MCClientIO, Cli

\* Plain options, all that make cliConnect talk, and a database there is not; longer
\* sessions have fewer mishaps.
MCOptions == {[n |-> 0, auth |-> FALSE, resp3 |-> 0, cluster_mode |-> FALSE],
              [n |-> 1, auth |-> TRUE, resp3 |-> 1, cluster_mode |-> TRUE],
              [n |-> 9, auth |-> FALSE, resp3 |-> 2, cluster_mode |-> FALSE]}
MCBounds == {[lines |-> 3, events |-> 1], [lines |-> 2, events |-> 2]}

VARIABLE end
connvars == <<end, vars, clivars>>

ConnInit ==
  /\ end \in {"server", "redis-cli"}
  /\ Init /\ CliInit
  /\ end = "server" => config.input_dbnum = 0 /\ bounds = CHOOSE b \in MCBounds : TRUE

RunServer(A) == end = "server" /\ A /\ UNCHANGED <<end, clivars>>
RunCli(A) == end = "redis-cli" /\ A /\ UNCHANGED <<end, vars>>

ConnNext == RunServer(Next) \/ RunCli(CliNext)

\* The event loop goes on, and so does redis-cli while it can; nobody has to send
\* anything, to type a line or to press Ctrl-C.
ConnSpec ==
  /\ ConnInit /\ [][ConnNext]_connvars
  /\ WF_connvars(RunServer(EventLoop)) /\ WF_connvars(RunCli(CliStep))
=============================================================================
