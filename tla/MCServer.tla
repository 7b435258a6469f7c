------------------------------ MODULE MCServer ------------------------------
(***************************************************************************)
(* Four parts of the server that share no state, each on its own: the      *)
(* process and its listeners, the output buffer of a client, the memory of *)
(* the clients and the timer over it, the lists.  `part` says which one a  *)
(* behaviour runs; the others stay in their initial state.                 *)
(***************************************************************************)
EXTENDS Listeners, ReplyBuffer, ClientsCron, AdList, TLC

VARIABLE part
servervars == <<part, lsnvars, rbvars, cronvars, advars>>

\* Addresses: an IPv4 one, the two of the default "* -::*" and a name nobody knows.
v4 == [v6 |-> FALSE, optional |-> FALSE, resolves |-> TRUE]
v6 == [v6 |-> TRUE, optional |-> TRUE, resolves |-> TRUE]
v6Wanted == [v6 |-> TRUE, optional |-> FALSE, resolves |-> TRUE]
unknown == [v6 |-> FALSE, optional |-> FALSE, resolves |-> FALSE]
MCBindLists == {<<v4, v6>>, <<v6Wanted, v4>>, <<v6, unknown>>, << >>}

\* One client sends an argument that gets the buffer for itself and a short one after it, the
\* other a short one.
MCArgLengths == ("c1" :> <<40000, 6>>) @@ ("c2" :> <<6>>)

\* Which part runs; what a part that does not run could start from makes no difference.
MCInit ==
  /\ part \in {"listeners", "output", "cron", "lists"}
  /\ LsnInit /\ RbInit /\ CronInit /\ AdInit
  /\ part # "listeners" =>
       conf = CHOOSE x \in [bindaddr : BindLists, port : BOOLEAN, tls : BOOLEAN, unix : BOOLEAN, ipv6 : BOOLEAN] : TRUE

RunListeners == part = "listeners" /\ LsnNext /\ UNCHANGED <<part, rbvars, cronvars, advars>>
RunOutput == part = "output" /\ RbNext /\ UNCHANGED <<part, lsnvars, cronvars, advars>>
RunCron == part = "cron" /\ CronNext /\ UNCHANGED <<part, lsnvars, rbvars, advars>>
RunLists == part = "lists" /\ AdNext /\ UNCHANGED <<part, lsnvars, rbvars, cronvars>>

MCNext == RunListeners \/ RunOutput \/ RunCron \/ RunLists

MCSpec == MCInit /\ [][MCNext]_servervars
=============================================================================
