------------------------------ MODULE CliProofs ------------------------------
(***************************************************************************)
(* What a session of redis-cli believes of its connection, proved for any  *)
(* options, any commands, repeated any number of times, and any number of  *)
(* broken connections, interrupts and pushed messages.                     *)
(***************************************************************************)
EXTENDS Cli, TLAPS

Place == {"connect", "auth", "select", "hello", "repl", "issue", "asking", "send", "loop",
          "read", "readOk", "readFailed", "next", "exited", "crashed"}
Type == {"status", "error", "nil", "moved", "ask"}
Number == {0, 1, 9}
Loops == {"plain", "monitor", "pubsub"}
Oddities == {"dropped", "queued", "subscribed", "late"}

Config == [dbnum : Number, input_dbnum : Number, in_multi : BOOLEAN, pre_multi_dbnum : Number,
           auth : BOOLEAN, resp3 : 0..2, cluster_mode : BOOLEAN,
           cluster_reissue_command : BOOLEAN, cluster_send_asking : BOOLEAN,
           shutdown : BOOLEAN, monitor_mode : BOOLEAN, pubsub_mode : BOOLEAN,
           slave_mode : BOOLEAN, blocking_state_aborted : BOOLEAN,
           last_cmd_type : {"none", "status", "error", "nil"}]
Remote == [db : Databases, tx : BOOLEAN, qdb : Databases, feed : BOOLEAN]
Command == [cmd : CliCommand \cup {"none"}, count : {0} \cup Repeats, repeat : Nat, loop : Loops]

Types ==
  /\ config \in Config /\ remote \in Remote /\ replies \in Seq(Type) /\ command \in Command
  /\ context \in {"NULL", "up", "lost", "closed", "err"} /\ cliPc \in Place
  /\ caller \in {"repl", "issue", "read", "auth"} /\ odd \subseteq Oddities
  /\ command.repeat <= command.count
  /\ command.count = 0 => cliPc \in {"connect", "auth", "select", "hello", "repl", "exited", "crashed"}
                          /\ caller = "repl"

\* The places at which no command is under way on the connection.
Settled == {"auth", "select", "hello", "repl", "issue", "asking", "send", "loop", "next"}
Connecting == {"connect", "auth", "select", "hello"}

\* A mode belongs to its command, from its first sending to the end of its loop.
InMode == config.monitor_mode \/ config.pubsub_mode
ModeOf(loop) == IF loop = "monitor" THEN config.monitor_mode ELSE config.pubsub_mode
Modes ==
  /\ config.monitor_mode => command.cmd = "monitor"
  /\ config.pubsub_mode => command.cmd = "subscribe"
  /\ config.slave_mode => command.cmd = "sync" /\ cliPc \in {"loop", "exited", "crashed"}
  /\ InMode => cliPc \in {"loop", "read", "readOk", "readFailed", "exited", "crashed"}
  /\ command.loop = "monitor" => command.cmd = "monitor"
  /\ command.loop = "pubsub" => command.cmd = "subscribe"
  /\ cliPc = "loop" => (InMode \/ config.slave_mode => command.repeat > 0)
  /\ cliPc = "loop" /\ command.cmd = "monitor" => config.monitor_mode
  /\ cliPc = "read" /\ command.loop # "plain" => ModeOf(command.loop)
  /\ cliPc \in {"read", "readOk", "readFailed"} /\ command.loop = "plain" => ~ InMode /\ command.cmd # "monitor"
  /\ cliPc \in Connecting /\ caller = "read" /\ command.loop = "plain" => command.cmd # "monitor"
  /\ cliPc = "next" \/ (cliPc = "select" /\ caller = "auth") => command.cmd # "monitor"
  /\ cliPc \in {"connect", "auth", "hello"} => caller # "auth"

\* Before a SHUTDOWN, or while the prompt is reliable, the program is without a context only
\* where it will ask for one.
Contexts ==
  ~ config.shutdown \/ odd = {} =>
    /\ cliPc # "crashed"
    /\ context = "NULL" => cliPc \in {"connect", "repl", "issue", "readFailed", "exited"} /\ ~ InMode

\* What may be on its way on a connection that is up, while no subscription is repeated.
Quiet == replies = << >> /\ ~ remote.feed
Feeding(most) ==
  /\ remote.feed => \A i \in 1..Len(replies) : replies[i] = "status"
  /\ ~ remote.feed => replies \in most
Answered ==
  context = "up" /\ "subscribed" \notin odd =>
    /\ cliPc \in Settled => Quiet
    /\ command.loop = "plain" =>
         /\ cliPc = "read" => Len(replies) = 1 /\ ~ remote.feed
         /\ cliPc = "readOk" => Quiet
    /\ command.loop # "plain" =>
         /\ cliPc = "read" => Feeding({<< >>, <<"error">>, <<"status">>})
         /\ cliPc = "readOk" => IF ModeOf(command.loop) /\ config.last_cmd_type # "error"
                                THEN Feeding({<< >>}) ELSE Quiet

\* The fields of the prompt are those of the connection, and EXEC or DISCARD will find the
\* database the connection was in before its transaction.
Agrees(cfg, r) ==
  /\ cfg.in_multi = r.tx
  /\ cfg.dbnum = IF r.tx THEN r.qdb ELSE r.db
  /\ cfg.in_multi => cfg.pre_multi_dbnum = r.db
Told(cfg, t) == [cfg EXCEPT !.last_cmd_type = IF t \in {"moved", "ask"} THEN "error" ELSE t]

Believed ==
  odd = {} =>
    /\ cliPc \in Connecting /\ caller = "read" => command.loop # "plain"
    /\ context = "NULL" => config.dbnum = 0 /\ ~ config.in_multi
    /\ context = "up" =>
         /\ cliPc \in Settled => Agrees(config, remote)
         /\ cliPc \in {"read", "readOk"} /\ command.loop # "plain" => Agrees(config, remote)
         /\ command.loop = "plain" =>
              /\ cliPc = "read" => Agrees(Learnt(Told(config, replies[1]), command.cmd), remote)
              /\ cliPc = "readOk" => Agrees(Learnt(config, command.cmd), remote)

CliInv == Types /\ Modes /\ Contexts /\ Answered /\ Believed

-----------------------------------------------------------------------------
(* The server's answers, and what the session learns from them             *)

\* Command c is answered with a reply of type t and leaves the connection as r.
Answer(s, c, t, r) ==
  \/ t = "error" /\ r = s /\ ~ (c = "exec" /\ s.tx)
  \/ c = "multi" /\ t = "status" /\ ~ s.tx /\ r = [s EXCEPT !.tx = TRUE, !.qdb = s.db]
  \/ c = "discard" /\ t = "status" /\ s.tx /\ r = [s EXCEPT !.tx = FALSE]
  \/ c = "exec" /\ t = "status" /\ s.tx /\ r = [s EXCEPT !.tx = FALSE, !.db = s.qdb]
  \/ c = "exec" /\ t \in {"nil", "error"} /\ s.tx /\ r = [s EXCEPT !.tx = FALSE]
  \/ c = "reset" /\ t = "status" /\ r = Fresh
  \/ c \in DOMAIN Selects /\ t = "status" /\ s.tx /\ Selects[c] \in Databases /\ r = [s EXCEPT !.qdb = Selects[c]]
  \/ c \in DOMAIN Selects /\ t = "status" /\ s.tx /\ Selects[c] \notin Databases /\ r = s
  \/ c \in DOMAIN Selects /\ t = "status" /\ ~ s.tx /\ Selects[c] \in Databases /\ r = [s EXCEPT !.db = Selects[c]]
  \/ c \in {"subscribe", "monitor"} /\ t = "status" /\ r = [s EXCEPT !.feed = ~ s.tx]
  \/ c = "shutdown" /\ t = "status" /\ s.tx /\ r = s
  \/ c = "get" /\ t \in {"status", "moved", "ask"} /\ r = s
  \/ /\ c \notin {"multi", "discard", "exec", "reset", "shutdown", "subscribe", "monitor", "get"} \cup DOMAIN Selects
     /\ t = "status" /\ r = s

\* Answers has no other.
LEMMA AnswerForms ==
  ASSUME NEW s \in Remote, NEW c, NEW a \in Answers(s, c)
  PROVE  Answer(s, c, a.type, a.remote)
PROOF
  <1>0. DOMAIN Selects = {"select0", "select1", "select9"} BY DEF Selects
  <1>1. CASE c = "multi"
    <2>1. \/ a = [type |-> "error", remote |-> s]
          \/ ~ s.tx /\ a = [type |-> "status", remote |-> [s EXCEPT !.tx = TRUE, !.qdb = s.db]]
      BY <1>0, <1>1 DEF Answers
    <2> QED BY <1>1, <2>1 DEF Answer
  <1>2. CASE c = "discard"
    <2>1. \/ a = [type |-> "error", remote |-> s]
          \/ s.tx /\ a = [type |-> "status", remote |-> [s EXCEPT !.tx = FALSE]]
      BY <1>0, <1>2 DEF Answers
    <2>2. \A t, r : a = [type |-> t, remote |-> r] => a.type = t /\ a.remote = r OBVIOUS
    <2> QED BY <1>2, <2>1, <2>2, Zenon DEF Answer
  <1>3. CASE c = "exec"
    <2> DEFINE R == [s EXCEPT !.tx = FALSE]
               Q == [s EXCEPT !.tx = FALSE, !.db = s.qdb]
    <2>1. a \in IF s.tx THEN {[type |-> "status", remote |-> Q]} \cup [type : {"nil", "error"}, remote : {R}]
                ELSE {[type |-> "error", remote |-> s]}
      BY <1>0, <1>3 DEF Answers
    <2> HIDE DEF R, Q
    <2>2. a \in [type : {"nil", "error"}, remote : {R}] => a.type \in {"nil", "error"} /\ a.remote = R OBVIOUS
    <2>3. \A t, r : a = [type |-> t, remote |-> r] => a.type = t /\ a.remote = r OBVIOUS
    <2>4. \/ ~ s.tx /\ a.type = "error" /\ a.remote = s
          \/ s.tx /\ a.type = "status" /\ a.remote = Q
          \/ s.tx /\ a.type \in {"nil", "error"} /\ a.remote = R
      BY <2>1, <2>2, <2>3, Zenon
    <2> QED BY <1>3, <2>4, Zenon DEF Answer, R, Q
  <1>4. CASE c = "reset"
    <2>1. a = [type |-> "error", remote |-> s] \/ a = [type |-> "status", remote |-> Fresh]
      BY <1>0, <1>4 DEF Answers
    <2> QED BY <1>4, <2>1 DEF Answer
  <1>5. CASE c = "shutdown"
    <2>1. \/ a = [type |-> "error", remote |-> s]
          \/ s.tx /\ a = [type |-> "status", remote |-> s]
      BY <1>0, <1>5 DEF Answers
    <2> QED BY <1>5, <2>1 DEF Answer
  <1>6. CASE c \in DOMAIN Selects
    <2>1. \/ a = [type |-> "error", remote |-> s]
          \/ s.tx /\ a = [type |-> "status", remote |-> [s EXCEPT !.qdb = IF Selects[c] \in Databases THEN Selects[c] ELSE @]]
          \/ ~ s.tx /\ Selects[c] \in Databases /\ a = [type |-> "status", remote |-> [s EXCEPT !.db = Selects[c]]]
      BY <1>0, <1>6 DEF Answers
    <2>2. [s EXCEPT !.qdb = s.qdb] = s BY DEF Remote
    <2>3. a = [type |-> "error", remote |-> s] => a.type = "error" /\ a.remote = s OBVIOUS
    <2>4. \A r : a = [type |-> "status", remote |-> r] => a.type = "status" /\ a.remote = r OBVIOUS
    <2>5. CASE Selects[c] \in Databases BY <1>0, <1>6, <2>1, <2>3, <2>4, <2>5 DEF Answer
    <2>6. CASE Selects[c] \notin Databases BY <1>0, <1>6, <2>1, <2>2, <2>3, <2>4, <2>6 DEF Answer
    <2> QED BY <2>5, <2>6
  <1>7. CASE c \in {"subscribe", "monitor"}
    <2>1. a = [type |-> "error", remote |-> s] \/ a = [type |-> "status", remote |-> [s EXCEPT !.feed = ~ s.tx]]
      BY <1>0, <1>7 DEF Answers
    <2> QED BY <1>7, <2>1 DEF Answer
  <1>8. CASE c = "get"
    <2>1. \/ a = [type |-> "error", remote |-> s] \/ a = [type |-> "status", remote |-> s]
          \/ a \in [type : {"moved", "ask"}, remote : {s}]
      BY <1>0, <1>8 DEF Answers
    <2> QED BY <1>8, <2>1 DEF Answer
  <1>9. CASE c \notin {"multi", "discard", "exec", "reset", "shutdown", "subscribe", "monitor", "get"} \cup DOMAIN Selects
    <2>1. a = [type |-> "error", remote |-> s] \/ a = [type |-> "status", remote |-> s] BY <1>9 DEF Answers
    <2> QED BY <1>9, <2>1 DEF Answer
  <1> QED BY <1>1, <1>2, <1>3, <1>4, <1>5, <1>6, <1>7, <1>8, <1>9

\* What any answer leaves of the connection.
LEMMA AnswersOK ==
  ASSUME NEW s \in Remote, NEW c, NEW a \in Answers(s, c)
  PROVE  /\ a.type \in Type /\ a.remote \in Remote
         /\ c \notin {"subscribe", "monitor"} /\ ~ s.feed => ~ a.remote.feed
PROOF
  <1>1. Answer(s, c, a.type, a.remote) BY AnswerForms
  <1>2. a.type \in Type BY <1>1, Zenon DEF Answer, Type
  <1>3. ASSUME NEW d \in Databases, NEW b \in BOOLEAN
        PROVE  /\ [s EXCEPT !.tx = b] \in Remote /\ [s EXCEPT !.tx = b].feed = s.feed
               /\ [s EXCEPT !.tx = b, !.qdb = d] \in Remote /\ [s EXCEPT !.tx = b, !.qdb = d].feed = s.feed
               /\ [s EXCEPT !.tx = b, !.db = d] \in Remote /\ [s EXCEPT !.tx = b, !.db = d].feed = s.feed
               /\ [s EXCEPT !.qdb = d] \in Remote /\ [s EXCEPT !.qdb = d].feed = s.feed
               /\ [s EXCEPT !.db = d] \in Remote /\ [s EXCEPT !.db = d].feed = s.feed
               /\ [s EXCEPT !.feed = b] \in Remote
    BY Zenon DEF Remote
  <1>4. s.db \in Databases /\ s.qdb \in Databases /\ (~ s.tx) \in BOOLEAN BY DEF Remote
  <1>5. Fresh \in Remote /\ ~ Fresh.feed BY DEF Fresh, Remote, Databases
  <1>6. a.remote \in Remote BY <1>1, <1>3, <1>4, <1>5, Zenon DEF Answer
  <1>7. c \notin {"subscribe", "monitor"} /\ ~ s.feed => ~ a.remote.feed
    <2>1. ASSUME c \notin {"subscribe", "monitor"}
          PROVE  \/ a.remote = s \/ a.remote = Fresh
                 \/ \E d \in Databases, b \in BOOLEAN :
                      a.remote \in {[s EXCEPT !.tx = b], [s EXCEPT !.tx = b, !.qdb = d], [s EXCEPT !.tx = b, !.db = d],
                                    [s EXCEPT !.qdb = d], [s EXCEPT !.db = d]}
      BY <1>1, <1>4, <2>1, Zenon DEF Answer
    <2>2. ASSUME NEW d \in Databases, NEW b \in BOOLEAN,
                 a.remote \in {[s EXCEPT !.tx = b], [s EXCEPT !.tx = b, !.qdb = d], [s EXCEPT !.tx = b, !.db = d],
                               [s EXCEPT !.qdb = d], [s EXCEPT !.db = d]}
          PROVE  a.remote.feed = s.feed
      BY <2>2, Zenon DEF Remote
    <2> QED BY <1>5, <2>1, <2>2, Zenon
  <1> QED BY <1>2, <1>6, <1>7

\* A mode is refused, or its messages follow one reply, unless it is only queued.
LEMMA ModeAnswers ==
  ASSUME NEW s \in Remote, NEW c \in {"subscribe", "monitor"}, NEW a \in Answers(s, c)
  PROVE  \/ a.type = "error" /\ a.remote = s
         \/ a.type = "status" /\ a.remote = [s EXCEPT !.feed = ~ s.tx]
PROOF
  <1>1. Answer(s, c, a.type, a.remote) BY AnswerForms
  <1>2. DOMAIN Selects = {"select0", "select1", "select9"} BY DEF Selects
  <1> QED BY <1>1, <1>2 DEF Answer

\* What cliAuth, cliSwitchProto and cliSendAsking send changes nothing.
LEMMA PlainAnswers ==
  ASSUME NEW s \in Remote, NEW c \in {"auth", "hello", "asking"}, NEW a \in Answers(s, c)
  PROVE  a.remote = s
PROOF
  <1>1. Answer(s, c, a.type, a.remote) BY AnswerForms
  <1>2. DOMAIN Selects = {"select0", "select1", "select9"} BY DEF Selects
  <1> QED BY <1>1, <1>2 DEF Answer

\* A SELECT that is not refused, unless the server queues one it will refuse.
LEMMA SelectAnswers ==
  ASSUME NEW s \in Remote, NEW c \in DOMAIN Selects, NEW a \in Answers(s, c), a.type # "error",
         Selects[c] \in Databases \/ ~ s.tx
  PROVE  /\ s.tx => a.remote = [s EXCEPT !.qdb = Selects[c]]
         /\ ~ s.tx => a.remote = [s EXCEPT !.db = Selects[c]]
PROOF
  <1>1. Answer(s, c, a.type, a.remote) BY AnswerForms
  <1>2. c \in {"select0", "select1", "select9"} BY DEF Selects
  <1> QED BY <1>1, <1>2 DEF Answer

\* A refused one changes nothing.
LEMMA SelectRefused ==
  ASSUME NEW s \in Remote, NEW c \in DOMAIN Selects, NEW a \in Answers(s, c), a.type \notin {"status", "nil"}
  PROVE  a.remote = s
PROOF
  <1>1. Answer(s, c, a.type, a.remote) BY AnswerForms
  <1>2. c \in {"select0", "select1", "select9"} BY DEF Selects
  <1> QED BY <1>1, <1>2 DEF Answer

\* The fields Learnt looks at and those it leaves alone.
LEMMA LearntOK ==
  ASSUME NEW cfg \in Config, NEW c
  PROVE  /\ Learnt(cfg, c) \in Config
         /\ Learnt(cfg, c).monitor_mode = cfg.monitor_mode /\ Learnt(cfg, c).pubsub_mode = cfg.pubsub_mode
         /\ Learnt(cfg, c).slave_mode = cfg.slave_mode /\ Learnt(cfg, c).shutdown = cfg.shutdown
PROOF
  <1>0. c \in DOMAIN Selects => Selects[c] \in Number BY DEF Selects, Number
  <1> DEFINE Fine(x) == /\ x \in Config
                        /\ x.monitor_mode = cfg.monitor_mode /\ x.pubsub_mode = cfg.pubsub_mode
                        /\ x.slave_mode = cfg.slave_mode /\ x.shutdown = cfg.shutdown
  <1>1. ASSUME NEW d \in Number
        PROVE  /\ Fine([cfg EXCEPT !.in_multi = FALSE, !.dbnum = d, !.input_dbnum = d])
               /\ Fine([cfg EXCEPT !.dbnum = d, !.input_dbnum = d])
               /\ Fine([cfg EXCEPT !.in_multi = TRUE, !.pre_multi_dbnum = d])
    <2>1. Fine([cfg EXCEPT !.in_multi = FALSE, !.dbnum = d, !.input_dbnum = d]) BY Zenon DEF Config
    <2>2. Fine([cfg EXCEPT !.dbnum = d, !.input_dbnum = d]) BY Zenon DEF Config
    <2>3. Fine([cfg EXCEPT !.in_multi = TRUE, !.pre_multi_dbnum = d]) BY Zenon DEF Config
    <2> QED BY <2>1, <2>2, <2>3
  <1>3. Fine([cfg EXCEPT !.in_multi = FALSE]) BY Zenon DEF Config
  <1>4. Fine([cfg EXCEPT !.in_multi = FALSE, !.dbnum = 0, !.input_dbnum = 0, !.resp3 = 0])
    <2>1. 0 \in Number /\ 0 \in 0..2 BY DEF Number
    <2> QED BY <2>1, Zenon DEF Config
  <1>5. Fine(cfg) OBVIOUS
  <1>2. cfg.dbnum \in Number /\ cfg.pre_multi_dbnum \in Number BY DEF Config
  <1> HIDE DEF Fine
  <1>6. Fine(Learnt(cfg, c)) BY <1>0, <1>1, <1>2, <1>3, <1>4, <1>5, Zenon DEF Learnt
  <1> QED BY <1>6 DEF Fine

\* The three fields Learnt changes, by command and type of reply.
Fields(l, m, d, p) == l.in_multi = m /\ l.dbnum = d /\ l.pre_multi_dbnum = p
Telling == {"multi", "exec", "discard", "reset", "select0", "select1", "select9"}
Learns(l, cfg, c) ==
  LET error == cfg.last_cmd_type = "error"
      m == cfg.in_multi
      d == cfg.dbnum
      p == cfg.pre_multi_dbnum
  IN  /\ c \in DOMAIN Selects /\ ~ error => Fields(l, m, Selects[c], p)
      /\ c = "multi" /\ ~ error => Fields(l, TRUE, d, d)
      /\ c = "exec" /\ m /\ cfg.last_cmd_type \in {"error", "nil"} => Fields(l, FALSE, p, p)
      /\ c = "exec" /\ m /\ cfg.last_cmd_type \notin {"error", "nil"} => Fields(l, FALSE, d, p)
      /\ c = "discard" /\ ~ error => Fields(l, FALSE, p, p)
      /\ c = "reset" /\ ~ error => Fields(l, FALSE, 0, p)
      /\ c = "exec" /\ ~ m => Fields(l, m, d, p)
      /\ c # "exec" /\ error => Fields(l, m, d, p)
      /\ c \notin Telling => Fields(l, m, d, p)

LEMMA LearntForms ==
  ASSUME NEW cfg \in Config, NEW c
  PROVE  Learns(Learnt(cfg, c), cfg, c)
PROOF
  <1>0. DOMAIN Selects = {"select0", "select1", "select9"} BY DEF Selects
  <1> DEFINE D(d) == [cfg EXCEPT !.in_multi = FALSE, !.dbnum = d, !.input_dbnum = d]
             S(d) == [cfg EXCEPT !.dbnum = d, !.input_dbnum = d]
             M == [cfg EXCEPT !.in_multi = TRUE, !.pre_multi_dbnum = cfg.dbnum]
             E == [cfg EXCEPT !.in_multi = FALSE]
             Z == [cfg EXCEPT !.in_multi = FALSE, !.dbnum = 0, !.input_dbnum = 0, !.resp3 = 0]
  <1>1. \A d : Fields(D(d), FALSE, d, cfg.pre_multi_dbnum) BY DEF Config, Fields
  <1>2. \A d : Fields(S(d), cfg.in_multi, d, cfg.pre_multi_dbnum) BY DEF Config, Fields
  <1>3. Fields(M, TRUE, cfg.dbnum, cfg.dbnum) BY DEF Config, Fields
  <1>4. Fields(E, FALSE, cfg.dbnum, cfg.pre_multi_dbnum) BY DEF Config, Fields
  <1>5. Fields(Z, FALSE, 0, cfg.pre_multi_dbnum) BY DEF Config, Fields
  <1>6. Fields(cfg, cfg.in_multi, cfg.dbnum, cfg.pre_multi_dbnum) BY DEF Fields
  <1>7. Learnt(cfg, c) = CASE c \in DOMAIN Selects /\ ~ (cfg.last_cmd_type = "error") -> S(Selects[c])
                           [] c = "multi" /\ ~ (cfg.last_cmd_type = "error") -> M
                           [] c = "exec" /\ cfg.in_multi ->
                                IF cfg.last_cmd_type \in {"error", "nil"} THEN D(cfg.pre_multi_dbnum) ELSE E
                           [] c = "discard" /\ ~ (cfg.last_cmd_type = "error") -> D(cfg.pre_multi_dbnum)
                           [] c = "reset" /\ ~ (cfg.last_cmd_type = "error") -> Z
                           [] OTHER -> cfg
    BY DEF Learnt
  <1> HIDE DEF D, S, M, E, Z
  <1>8. \/ c \in DOMAIN Selects /\ cfg.last_cmd_type # "error" /\ Learnt(cfg, c) = S(Selects[c])
        \/ c = "multi" /\ cfg.last_cmd_type # "error" /\ Learnt(cfg, c) = M
        \/ c = "exec" /\ cfg.in_multi /\ cfg.last_cmd_type \in {"error", "nil"} /\ Learnt(cfg, c) = D(cfg.pre_multi_dbnum)
        \/ c = "exec" /\ cfg.in_multi /\ cfg.last_cmd_type \notin {"error", "nil"} /\ Learnt(cfg, c) = E
        \/ c = "discard" /\ cfg.last_cmd_type # "error" /\ Learnt(cfg, c) = D(cfg.pre_multi_dbnum)
        \/ c = "reset" /\ cfg.last_cmd_type # "error" /\ Learnt(cfg, c) = Z
        \/ c = "exec" /\ ~ cfg.in_multi /\ Learnt(cfg, c) = cfg
        \/ c # "exec" /\ cfg.last_cmd_type = "error" /\ Learnt(cfg, c) = cfg
        \/ c \notin Telling /\ Learnt(cfg, c) = cfg
    BY <1>0, <1>7 DEF Telling
  <1> QED BY <1>0, <1>1, <1>2, <1>3, <1>4, <1>5, <1>6, <1>8, Zenon DEF Learns, Telling

\* Whether what is learnt agrees with the connection depends on four fields.
LEMMA LearntAlike ==
  ASSUME NEW x \in Config, NEW y \in Config, NEW c, NEW r \in Remote,
         Fields(x, y.in_multi, y.dbnum, y.pre_multi_dbnum), x.last_cmd_type = y.last_cmd_type,
         Agrees(Learnt(x, c), r)
  PROVE  Agrees(Learnt(y, c), r)
PROOF
  <1>1. Learns(Learnt(x, c), x, c) /\ Learns(Learnt(y, c), y, c) BY LearntForms
  <1>2. DOMAIN Selects = {"select0", "select1", "select9"} BY DEF Selects
  <1>3. \E m, d, p : Fields(Learnt(x, c), m, d, p) /\ Fields(Learnt(y, c), m, d, p)
    BY <1>1, <1>2, Zenon DEF Learns, Fields, Telling
  <1> QED BY <1>3 DEF Agrees, Fields

\* A command that is answered: what the session learns from the reply is the state the
\* command leaves the connection in.
LEMMA LearntAgrees ==
  ASSUME NEW cfg \in Config, NEW s \in Remote, Agrees(cfg, s), NEW c, NEW a \in Answers(s, c),
         ~ (c = "select9" /\ s.tx)
  PROVE  Agrees(Learnt(Told(cfg, a.type), c), a.remote)
PROOF
  <1> DEFINE t == Told(cfg, a.type)
             l == Learnt(t, c)
  <1>1. Answer(s, c, a.type, a.remote) BY AnswerForms
  <1>2. a.type \in Type BY AnswersOK
  <1>3. /\ t \in Config /\ Fields(t, cfg.in_multi, cfg.dbnum, cfg.pre_multi_dbnum)
        /\ t.last_cmd_type = IF a.type \in {"moved", "ask"} THEN "error" ELSE a.type
    BY <1>2 DEF Told, Config, Fields, Type
  <1>4. Learns(l, t, c) BY <1>3, LearntForms
  <1>5. DOMAIN Selects = {"select0", "select1", "select9"} BY DEF Selects
  <1>6. Selects["select9"] \notin Databases BY DEF Selects, Databases
  <1>7. cfg.in_multi = s.tx /\ cfg.dbnum = (IF s.tx THEN s.qdb ELSE s.db) /\ (s.tx => cfg.pre_multi_dbnum = s.db)
    BY DEF Agrees
  <1> SUFFICES Agrees(l, a.remote) OBVIOUS
  <1> HIDE DEF t, l
  <1>8. CASE c = "multi"
    <2>1. \/ a.type = "error" /\ a.remote = s
          \/ a.type = "status" /\ ~ s.tx /\ a.remote = [s EXCEPT !.tx = TRUE, !.qdb = s.db]
      BY <1>1, <1>5, <1>8 DEF Answer
    <2> QED BY <1>3, <1>4, <1>7, <1>8, <2>1, Zenon DEF Learns, Fields, Agrees, Remote
  <1>9. CASE c = "discard"
    <2>1. \/ a.type = "error" /\ a.remote = s
          \/ a.type = "status" /\ s.tx /\ a.remote = [s EXCEPT !.tx = FALSE]
      BY <1>1, <1>5, <1>9 DEF Answer
    <2> QED BY <1>3, <1>4, <1>7, <1>9, <2>1, Zenon DEF Learns, Fields, Agrees, Remote
  <1>10. CASE c = "exec"
    <2>1. \/ a.type = "error" /\ ~ s.tx /\ a.remote = s
          \/ a.type = "status" /\ s.tx /\ a.remote = [s EXCEPT !.tx = FALSE, !.db = s.qdb]
          \/ a.type \in {"nil", "error"} /\ s.tx /\ a.remote = [s EXCEPT !.tx = FALSE]
      BY <1>1, <1>5, <1>10 DEF Answer
    <2> QED BY <1>3, <1>4, <1>7, <1>10, <2>1, Zenon DEF Learns, Fields, Agrees, Remote
  <1>11. CASE c = "reset"
    <2>1. \/ a.type = "error" /\ a.remote = s
          \/ a.type = "status" /\ a.remote = Fresh
      BY <1>1, <1>5, <1>11 DEF Answer
    <2>2. Fresh.tx = FALSE /\ Fresh.db = 0 BY DEF Fresh
    <2>3. a.type = "error" => Agrees(l, s) BY <1>3, <1>4, <1>7, <1>11 DEF Learns, Fields, Agrees
    <2>4. a.type = "status" => l.in_multi = FALSE /\ l.dbnum = 0 BY <1>3, <1>4, <1>11 DEF Learns, Fields
    <2> QED BY <2>1, <2>2, <2>3, <2>4, Zenon DEF Agrees
  <1>12. CASE c \in DOMAIN Selects
    <2>1. \/ a.type = "error" /\ a.remote = s
          \/ a.type = "status" /\ s.tx /\ a.remote = [s EXCEPT !.qdb = Selects[c]]
          \/ a.type = "status" /\ ~ s.tx /\ a.remote = [s EXCEPT !.db = Selects[c]]
      BY <1>1, <1>5, <1>6, <1>12 DEF Answer, Selects, Databases
    <2> QED BY <1>3, <1>4, <1>5, <1>7, <1>12, <2>1 DEF Learns, Fields, Agrees, Remote
  <1>13. CASE c \notin Telling
    <2>1. a.remote = s \/ a.remote = [s EXCEPT !.feed = ~ s.tx]
      BY <1>1, <1>5, <1>13 DEF Answer, Telling
    <2> QED BY <1>3, <1>4, <1>7, <1>13, <2>1 DEF Learns, Fields, Agrees, Remote
  <1> QED BY <1>5, <1>8, <1>9, <1>10, <1>11, <1>12, <1>13 DEF Telling

-----------------------------------------------------------------------------
(* What the helpers of the actions do                                      *)

\* The fields the invariant looks at.
Same(x, y) ==
  /\ Fields(x, y.in_multi, y.dbnum, y.pre_multi_dbnum) /\ x.last_cmd_type = y.last_cmd_type
  /\ x.shutdown = y.shutdown /\ x.monitor_mode = y.monitor_mode
  /\ x.pubsub_mode = y.pubsub_mode /\ x.slave_mode = y.slave_mode

\* Where cliConnect and cliSelect return to.
Back ==
  \/ caller = "repl" /\ cliPc' = "repl"
  \/ caller = "issue" /\ cliPc' \in {"asking", "repl"}
  \/ caller = "read" /\ cliPc' \in {"readOk", "readFailed"}
  \/ caller = "auth" /\ cliPc' = "next"

LEMMA Returned ==
  ASSUME NEW ok \in BOOLEAN, NEW cfg \in Config, caller \in {"repl", "issue", "read", "auth"}, Return(ok, cfg)
  PROVE  /\ config' \in Config /\ Same(config', cfg) /\ Back
         /\ ~ ok /\ caller # "auth" => cliPc' \in {"repl", "readFailed"}
PROOF
  <1>1. config' \in Config /\ Same(config', cfg)
    <2>1. [cfg EXCEPT !.cluster_reissue_command = FALSE] \in Config BY Zenon DEF Config
    <2>2. Same([cfg EXCEPT !.cluster_reissue_command = FALSE], cfg) BY DEF Config, Same, Fields
    <2>3. Same(cfg, cfg) BY Zenon DEF Same, Fields
    <2> QED BY <2>1, <2>2, <2>3, Zenon DEF Return
  <1>2. Back BY DEF Return, Back
  <1>3. ~ ok /\ caller # "auth" => cliPc' \in {"repl", "readFailed"} BY DEF Return
  <1> QED BY <1>1, <1>2, <1>3

\* redisCommand takes the reply of the command it sends when no other is on its way.
LEMMA Sent ==
  ASSUME remote \in Remote, replies \in Seq(Type), NEW c, NEW r, redisCommand(c, r)
  PROVE  /\ remote' \in Remote /\ replies' \in Seq(Type) /\ context # "NULL"
         /\ \/ context' = "err"
            \/ /\ context = "up" /\ context' = "up"
               /\ \E a \in Answers(remote, c) :
                    remote' = a.remote /\ (replies = << >> => replies' = << >> /\ r = a.type)
PROOF
  <1>1. CASE context # "NULL" /\ context' = "err" /\ UNCHANGED <<remote, replies>>
    BY <1>1, Zenon
  <1>2. ASSUME context = "up", NEW a \in Answers(remote, c), UNCHANGED context,
               remote' = a.remote, replies' = Tail(Append(replies, a.type)), r = Head(Append(replies, a.type))
        PROVE  /\ remote' \in Remote /\ replies' \in Seq(Type)
               /\ replies = << >> => replies' = << >> /\ r = a.type
    <2>1. a.type \in Type /\ a.remote \in Remote BY AnswersOK
    <2>2. Append(replies, a.type) \in Seq(Type) /\ Append(replies, a.type) # << >> BY <2>1
    <2>3. replies' \in Seq(Type) BY <1>2, <2>2
    <2>4. replies = << >> => replies' = << >> /\ r = a.type
      <3>1. ASSUME replies = << >> PROVE replies' = << >> /\ r = a.type
        <4>1. Append(replies, a.type) = <<a.type>> BY <3>1
        <4> QED BY <1>2, <4>1
      <3> QED BY <3>1
    <2> QED BY <1>2, <2>1, <2>3, <2>4, Zenon
  <1>3. context = "up" => context # "NULL" OBVIOUS
  <1> QED BY <1>1, <1>2, <1>3, Zenon DEF redisCommand

-----------------------------------------------------------------------------
(* Connecting                                                              *)

\* No mode outlives its loop.
LEMMA NoMode ==
  ASSUME Modes, cliPc \in Connecting \cup {"repl", "issue", "asking", "send", "next"}
  PROVE  ~ config.monitor_mode /\ ~ config.pubsub_mode /\ ~ config.slave_mode
PROOF
  <1>1. cliPc \notin {"loop", "read", "readOk", "readFailed", "exited", "crashed"} BY DEF Connecting
  <1> QED BY <1>1, Zenon DEF Modes, InMode

\* Every step of cliConnect, of cliSelect after an AUTH and of their return keeps the
\* invariant, if the new connection is quiet and agrees with the prompt.
LEMMA Connects ==
  ASSUME CliInv, cliPc \in Connecting,
         config' \in Config, remote' \in Remote, replies' \in Seq(Type),
         context' \in {"NULL", "up", "lost", "closed", "err"},
         config'.monitor_mode = config.monitor_mode, config'.pubsub_mode = config.pubsub_mode,
         config'.slave_mode = config.slave_mode, config'.shutdown = config.shutdown,
         UNCHANGED <<command, caller>>, odd \subseteq odd', odd' \subseteq Oddities,
         Back \/ (caller # "auth" /\ cliPc' \in {"auth", "select", "hello"}),
         (~ config.shutdown \/ odd = {}) /\ context' = "NULL" => cliPc' \in {"repl", "readFailed"},
         context' = "up" /\ "subscribed" \notin odd' => replies' = << >> /\ ~ remote'.feed,
         odd' = {} /\ context' = "NULL" => config'.dbnum = 0 /\ ~ config'.in_multi,
         odd' = {} /\ context' = "up" => Agrees(config', remote')
  PROVE  CliInv'
PROOF
  <1>1. Types /\ Modes /\ Contexts /\ Answered /\ Believed BY Zenon DEF CliInv
  <1>2. ~ config'.monitor_mode /\ ~ config'.pubsub_mode /\ ~ config'.slave_mode
    BY <1>1, NoMode, Zenon
  <1>3. /\ cliPc' \in {"auth", "select", "hello", "repl", "asking", "readOk", "readFailed", "next"}
        /\ cliPc' \in {"auth", "hello"} => caller # "auth"
        /\ cliPc' = "select" => caller # "auth"
        /\ cliPc' \in {"readOk", "readFailed"} => caller = "read"
        /\ cliPc' = "next" => caller = "auth"
        /\ caller = "repl" => cliPc' \in {"auth", "select", "hello", "repl"}
    BY DEF Back
  <1>4. Types'
    <2>1. cliPc' \in Place BY <1>3 DEF Place
    <2>2. command.count = 0 => caller = "repl" BY <1>1, Zenon DEF Types
    <2>3. command.count = 0 => cliPc' \in {"connect", "auth", "select", "hello", "repl", "exited", "crashed"}
      BY <1>3, <2>2
    <2> QED BY <1>1, <2>1, <2>2, <2>3, Zenon DEF Types
  <1>5. Modes'
    <2>1. caller = "read" /\ command.loop = "plain" => command.cmd # "monitor" BY <1>1, Zenon DEF Modes
    <2>2. cliPc # "next" /\ (caller = "auth" => cliPc = "select") BY <1>1 DEF Modes, Connecting
    <2>3. caller = "auth" => command.cmd # "monitor" BY <1>1, <2>2, Zenon DEF Modes
    <2>4. /\ command.loop = "monitor" => command.cmd = "monitor"
          /\ command.loop = "pubsub" => command.cmd = "subscribe"
      BY <1>1, Zenon DEF Modes
    <2>5. /\ cliPc' \notin {"loop", "read"}
          /\ cliPc' = "next" \/ (cliPc' = "select" /\ caller = "auth") => command.cmd # "monitor"
          /\ cliPc' \in {"connect", "auth", "hello"} => caller # "auth"
          /\ cliPc' \in {"read", "readOk", "readFailed"} /\ command.loop = "plain" => command.cmd # "monitor"
          /\ cliPc' \in Connecting /\ caller = "read" /\ command.loop = "plain" => command.cmd # "monitor"
      BY <1>3, <2>1, <2>3
    <2>6. cliPc' # "loop" /\ cliPc' # "read" BY <2>5
    <2> QED BY <1>2, <2>1, <2>4, <2>5, <2>6, Zenon DEF Modes, InMode, ModeOf
  <1>6. Contexts'
    <2>1. cliPc' # "crashed" BY <1>3
    <2>2. odd' = {} => odd = {} OBVIOUS
    <2>3. cliPc' \in {"repl", "readFailed"} => cliPc' \in {"connect", "repl", "issue", "readFailed", "exited"} OBVIOUS
    <2> QED BY <1>2, <2>1, <2>2, <2>3, Zenon DEF Contexts, InMode
  <1>7. Answered'
    <2>1. cliPc' # "read" BY <1>3
    <2>2. ~ ModeOf(command.loop)' BY <1>2, Zenon DEF ModeOf
    <2> QED BY <2>1, <2>2, Zenon DEF Answered, Quiet
  <1>8. Believed'
    <2>1. ASSUME odd' = {} PROVE caller = "read" => command.loop # "plain"
      <3>1. odd = {} BY <2>1
      <3> QED BY <1>1, <3>1, Zenon DEF Believed
    <2>2. cliPc' # "read" BY <1>3
    <2>3. odd' = {} /\ cliPc' = "readOk" => command.loop # "plain" BY <1>3, <2>1
    <2> QED BY <2>1, <2>2, <2>3, Zenon DEF Believed
  <1> QED BY <1>4, <1>5, <1>6, <1>7, <1>8, Zenon DEF CliInv

LEMMA ConnectStep ==
  ASSUME CliInv, cliConnect
  PROVE  CliInv'
PROOF
  <1> DEFINE cfg == IF context = "NULL" THEN config ELSE [config EXCEPT !.dbnum = 0, !.in_multi = FALSE]
  <1>1. Types /\ Modes /\ Contexts /\ Believed BY Zenon DEF CliInv
  <1>2. cliPc = "connect" /\ cliPc \in Connecting /\ caller # "auth" /\ caller \in {"repl", "issue", "read", "auth"}
        /\ config \in Config /\ odd \subseteq Oddities
    BY <1>1 DEF cliConnect, Connecting, Modes, Types
  <1>3. /\ cfg \in Config /\ cfg.shutdown = config.shutdown /\ cfg.monitor_mode = config.monitor_mode
        /\ cfg.pubsub_mode = config.pubsub_mode /\ cfg.slave_mode = config.slave_mode
        /\ context # "NULL" => cfg.dbnum = 0 /\ cfg.in_multi = FALSE
    <2>1. 0 \in Number BY DEF Number
    <2>2. [config EXCEPT !.dbnum = 0, !.in_multi = FALSE] \in Config BY <1>2, <2>1, Zenon DEF Config
    <2> QED BY <1>2, <2>2 DEF Config
  <1>4. odd = {} => cfg.dbnum = 0 /\ cfg.in_multi = FALSE
    <2>1. config.in_multi \in BOOLEAN BY <1>2 DEF Config
    <2> QED BY <1>1, <1>3, <2>1 DEF Believed
  <1>5. /\ remote' = Fresh /\ replies' = << >> /\ UNCHANGED <<command, caller, odd, bounds>>
        /\ \/ context' = "up" /\ cliPc' = "auth" /\ config' = cfg
           \/ context' = "NULL" /\ Return(FALSE, cfg)
    BY Zenon DEF cliConnect
  <1> HIDE DEF cfg
  <1>6. Fresh \in Remote /\ ~ Fresh.feed /\ Fresh.tx = FALSE /\ Fresh.db = 0 BY DEF Fresh, Remote, Databases
  <1>7. replies' \in Seq(Type) BY <1>5
  <1>8. CASE context' = "up" /\ cliPc' = "auth" /\ config' = cfg
    <2>1. odd' = {} => Agrees(config', remote') BY <1>4, <1>5, <1>6, <1>8, Zenon DEF Agrees
    <2> QED BY <1>2, <1>3, <1>5, <1>6, <1>7, <1>8, <2>1, Connects
  <1>9. CASE context' = "NULL" /\ Return(FALSE, cfg)
    <2>1. config' \in Config /\ Same(config', cfg) /\ Back /\ cliPc' \in {"repl", "readFailed"}
      BY <1>2, <1>3, <1>9, Returned, Zenon
    <2>2. odd' = {} => config'.dbnum = 0 /\ ~ config'.in_multi
      BY <1>4, <1>5, <2>1 DEF Same, Fields
    <2>3. /\ config'.shutdown = config.shutdown /\ config'.monitor_mode = config.monitor_mode
          /\ config'.pubsub_mode = config.pubsub_mode /\ config'.slave_mode = config.slave_mode
      BY <1>3, <2>1 DEF Same
    <2> QED BY <1>2, <1>5, <1>6, <1>7, <1>9, <2>1, <2>2, <2>3, Connects
  <1> QED BY <1>5, <1>8, <1>9, Zenon

\* A command the program sends on its own changes nothing but the connection's state.
LEMMA SentPlain ==
  ASSUME CliInv, cliPc \in Settled, NEW c \in {"auth", "hello", "asking"}, NEW r, redisCommand(c, r)
  PROVE  /\ remote' \in Remote /\ replies' \in Seq(Type) /\ context # "NULL" /\ context' \in {"up", "err"}
         /\ context' = "up" /\ "subscribed" \notin odd => replies' = << >> /\ ~ remote'.feed
         /\ context' = "up" /\ odd = {} => Agrees(config, remote')
PROOF
  <1>1. Types /\ Answered /\ Believed BY Zenon DEF CliInv
  <1>2. remote \in Remote /\ replies \in Seq(Type) BY <1>1, Zenon DEF Types
  <1>3. /\ remote' \in Remote /\ replies' \in Seq(Type) /\ context # "NULL"
        /\ \/ context' = "err"
           \/ /\ context = "up" /\ context' = "up"
              /\ \E a \in Answers(remote, c) :
                   remote' = a.remote /\ (replies = << >> => replies' = << >> /\ r = a.type)
    BY <1>2, Sent, Zenon
  <1>4. \A a \in Answers(remote, c) : a.remote = remote BY <1>2, PlainAnswers
  <1>5. context' = "err" \/ (context = "up" /\ context' = "up" /\ remote' = remote /\ (replies = << >> => replies' = << >>))
    BY <1>3, <1>4, Zenon
  <1>6. context = "up" /\ "subscribed" \notin odd => replies = << >> /\ ~ remote.feed
    BY <1>1, Zenon DEF Answered, Quiet
  <1>7. context = "up" /\ odd = {} => Agrees(config, remote) BY <1>1, Zenon DEF Believed
  <1>8. "up" # "err" OBVIOUS
  <1> QED BY <1>3, <1>5, <1>6, <1>7, <1>8, Zenon

\* A return with config as it is.
LEMMA ReturnsSame ==
  ASSUME CliInv, NEW ok \in BOOLEAN, Return(ok, config)
  PROVE  /\ config' \in Config /\ Same(config', config) /\ Back
         /\ \A r : Agrees(config, r) => Agrees(config', r)
PROOF
  <1>1. config \in Config /\ caller \in {"repl", "issue", "read", "auth"} BY Zenon DEF CliInv, Types
  <1>2. config' \in Config /\ Same(config', config) /\ Back BY <1>1, Returned, Zenon
  <1> QED BY <1>2 DEF Same, Fields, Agrees

LEMMA AuthStep ==
  ASSUME CliInv, cliAuth
  PROVE  CliInv'
PROOF
  <1>1. Types /\ Modes /\ Contexts /\ Answered /\ Believed BY Zenon DEF CliInv
  <1>2. cliPc = "auth" /\ UNCHANGED <<command, caller, odd, bounds>> BY Zenon DEF cliAuth
  <1>3. cliPc \in Connecting /\ cliPc \in Settled /\ caller # "auth" /\ odd \subseteq Oddities
    BY <1>1, <1>2 DEF Connecting, Settled, Modes, Types
  <1>4. CASE ~ config.auth
    <2>1. cliPc' = "select" /\ UNCHANGED <<config, context, remote, replies>> BY <1>4, Zenon DEF cliAuth
    <2>2. /\ config \in Config /\ remote \in Remote /\ replies \in Seq(Type)
          /\ context \in {"NULL", "up", "lost", "closed", "err"}
      BY <1>1, Zenon DEF Types
    <2>3. /\ context = "up" /\ "subscribed" \notin odd => replies = << >> /\ ~ remote.feed
          /\ context = "up" /\ odd = {} => Agrees(config, remote)
          /\ context = "NULL" /\ odd = {} => config.dbnum = 0 /\ ~ config.in_multi
      BY <1>1, <1>3, Zenon DEF Answered, Quiet, Believed
    <2>4. ~ config.shutdown \/ odd = {} => context # "NULL" BY <1>1, <1>2 DEF Contexts
    <2>5. odd' = {} /\ context' = "up" => Agrees(config', remote') BY <1>2, <2>1, <2>3
    <2> QED BY <1>2, <1>3, <2>1, <2>2, <2>3, <2>4, <2>5, Connects
  <1>5. ASSUME NEW r, redisCommand("auth", r),
               Return(FALSE, config) \/ (cliPc' = "select" /\ UNCHANGED config)
        PROVE  CliInv'
    <2>1. /\ remote' \in Remote /\ replies' \in Seq(Type) /\ context # "NULL" /\ context' \in {"up", "err"}
          /\ context' = "up" /\ "subscribed" \notin odd => replies' = << >> /\ ~ remote'.feed
          /\ context' = "up" /\ odd = {} => Agrees(config, remote')
      BY <1>3, <1>5, SentPlain
    <2>2. config \in Config /\ Same(config, config) BY <1>1, Zenon DEF Types, Same, Fields
    <2>3. /\ config' \in Config /\ Same(config', config) /\ (Back \/ cliPc' = "select")
          /\ \A q : Agrees(config, q) => Agrees(config', q)
      BY <1>5, <2>2, ReturnsSame, Zenon
    <2>4. /\ config'.shutdown = config.shutdown /\ config'.monitor_mode = config.monitor_mode
          /\ config'.pubsub_mode = config.pubsub_mode /\ config'.slave_mode = config.slave_mode
      BY <2>3, Zenon DEF Same
    <2>5. odd' = {} /\ context' = "up" => Agrees(config', remote') BY <1>2, <2>1, <2>3
    <2> QED BY <1>2, <1>3, <2>1, <2>3, <2>4, <2>5, Connects
  <1> QED BY <1>4, <1>5, Zenon DEF cliAuth

LEMMA HelloStep ==
  ASSUME CliInv, cliSwitchProto
  PROVE  CliInv'
PROOF
  <1>1. Types /\ Modes /\ Contexts /\ Answered /\ Believed BY Zenon DEF CliInv
  <1>2. cliPc = "hello" /\ UNCHANGED <<command, caller, odd, bounds>> BY Zenon DEF cliSwitchProto
  <1>3. cliPc \in Connecting /\ cliPc \in Settled /\ caller # "auth" /\ odd \subseteq Oddities
    BY <1>1, <1>2 DEF Connecting, Settled, Modes, Types
  <1>4. ASSUME NEW ok \in BOOLEAN, Return(ok, config)
        PROVE  /\ config' \in Config /\ Back /\ (\A q : Agrees(config, q) => Agrees(config', q))
               /\ config'.shutdown = config.shutdown /\ config'.monitor_mode = config.monitor_mode
               /\ config'.pubsub_mode = config.pubsub_mode /\ config'.slave_mode = config.slave_mode
               /\ config'.dbnum = config.dbnum /\ config'.in_multi = config.in_multi
    <2>1. config' \in Config /\ Same(config', config) /\ Back /\ \A q : Agrees(config, q) => Agrees(config', q)
      BY <1>4, ReturnsSame, Zenon
    <2> QED BY <2>1, Zenon DEF Same, Fields
  <1>5. CASE config.resp3 = 0
    <2>1. Return(TRUE, config) /\ UNCHANGED <<context, remote, replies>> BY <1>5, Zenon DEF cliSwitchProto
    <2>2. /\ remote \in Remote /\ replies \in Seq(Type) /\ context \in {"NULL", "up", "lost", "closed", "err"}
      BY <1>1, Zenon DEF Types
    <2>3. /\ context = "up" /\ "subscribed" \notin odd => replies = << >> /\ ~ remote.feed
          /\ context = "up" /\ odd = {} => Agrees(config, remote)
          /\ context = "NULL" /\ odd = {} => config.dbnum = 0 /\ ~ config.in_multi
      BY <1>1, <1>3, Zenon DEF Answered, Quiet, Believed
    <2>4. ~ config.shutdown \/ odd = {} => context # "NULL" BY <1>1, <1>2 DEF Contexts
    <2>5. /\ config' \in Config /\ Back /\ (\A q : Agrees(config, q) => Agrees(config', q))
          /\ config'.shutdown = config.shutdown /\ config'.monitor_mode = config.monitor_mode
          /\ config'.pubsub_mode = config.pubsub_mode /\ config'.slave_mode = config.slave_mode
          /\ config'.dbnum = config.dbnum /\ config'.in_multi = config.in_multi
      BY <1>4, <2>1, Zenon
    <2>6. odd' = {} /\ context' = "up" => Agrees(config', remote') BY <1>2, <2>1, <2>3, <2>5
    <2> QED BY <1>2, <1>3, <2>1, <2>2, <2>3, <2>4, <2>5, <2>6, Connects
  <1>6. ASSUME NEW r, redisCommand("hello", r), NEW ok \in BOOLEAN, Return(ok, config)
        PROVE  CliInv'
    <2>1. /\ remote' \in Remote /\ replies' \in Seq(Type) /\ context # "NULL" /\ context' \in {"up", "err"}
          /\ context' = "up" /\ "subscribed" \notin odd => replies' = << >> /\ ~ remote'.feed
          /\ context' = "up" /\ odd = {} => Agrees(config, remote')
      BY <1>3, <1>6, SentPlain
    <2>2. /\ config' \in Config /\ Back /\ (\A q : Agrees(config, q) => Agrees(config', q))
          /\ config'.shutdown = config.shutdown /\ config'.monitor_mode = config.monitor_mode
          /\ config'.pubsub_mode = config.pubsub_mode /\ config'.slave_mode = config.slave_mode
      BY <1>4, <1>6, Zenon
    <2>3. odd' = {} /\ context' = "up" => Agrees(config', remote') BY <1>2, <2>1, <2>2
    <2> QED BY <1>2, <1>3, <2>1, <2>2, <2>3, Connects
  <1>7. \A r : (r # "none" /\ (r \in Refused => config.resp3 = 2)) \in BOOLEAN OBVIOUS
  <1> QED BY <1>5, <1>6, <1>7, Zenon DEF cliSwitchProto

\* The program ends: without a context only after a SHUTDOWN.
LEMMA Ends ==
  ASSUME CliInv, cliPc' \in {"exited", "crashed"}, UNCHANGED <<config, remote, replies, command, caller>>,
         context' \in {context, "err"}, odd \subseteq odd', odd' \subseteq Oddities,
         cliPc' = "crashed" => config.shutdown /\ odd # {}
  PROVE  CliInv'
PROOF
  <1>1. Types /\ Modes /\ Contexts /\ Answered /\ Believed BY Zenon DEF CliInv
  <1>2. cliPc' \notin Settled \cup Connecting \cup {"read", "readOk", "readFailed"} BY DEF Settled, Connecting
  <1>3. /\ cliPc' \notin Settled /\ cliPc' \notin Connecting /\ cliPc' # "read" /\ cliPc' # "readOk"
        /\ cliPc' # "readFailed" /\ cliPc' # "loop" /\ cliPc' # "next" /\ cliPc' # "select"
        /\ cliPc' \notin {"connect", "auth", "hello"} /\ cliPc' \notin {"read", "readOk"}
        /\ cliPc' \notin {"read", "readOk", "readFailed"}
    BY <1>2 DEF Settled, Connecting
  <1>4. odd' = {} => odd = {} OBVIOUS
  <1>5. Types'
    <2>1. cliPc' \in Place /\ context' \in {"NULL", "up", "lost", "closed", "err"} BY <1>1 DEF Place, Types
    <2>2. cliPc' \in {"connect", "auth", "select", "hello", "repl", "exited", "crashed"} OBVIOUS
    <2> QED BY <1>1, <2>1, <2>2, Zenon DEF Types
  <1>6. Modes'
    <2>1. /\ cliPc' \in {"loop", "exited", "crashed"}
          /\ cliPc' \in {"loop", "read", "readOk", "readFailed", "exited", "crashed"}
      OBVIOUS
    <2>2. /\ config.monitor_mode => command.cmd = "monitor"
          /\ config.pubsub_mode => command.cmd = "subscribe"
          /\ config.slave_mode => command.cmd = "sync"
          /\ command.loop = "monitor" => command.cmd = "monitor"
          /\ command.loop = "pubsub" => command.cmd = "subscribe"
      BY <1>1, Zenon DEF Modes
    <2> QED BY <1>3, <2>1, <2>2, Zenon DEF Modes
  <1>7. Contexts'
    <2>1. cliPc' = "exited" => cliPc' \in {"connect", "repl", "issue", "readFailed", "exited"} OBVIOUS
    <2>2. cliPc' = "exited" => cliPc' # "crashed" OBVIOUS
    <2>3. context' = "NULL" => context = "NULL" OBVIOUS
    <2> QED BY <1>1, <1>4, <2>1, <2>2, <2>3, Zenon DEF Contexts, InMode
  <1>8. Answered' BY <1>3, Zenon DEF Answered
  <1>9. Believed'
    <2>1. context' = "NULL" => context = "NULL" OBVIOUS
    <2> QED BY <1>1, <1>3, <1>4, <2>1, Zenon DEF Believed
  <1> QED BY <1>5, <1>6, <1>7, <1>8, <1>9, Zenon DEF CliInv

LEMMA SelectStep ==
  ASSUME CliInv, cliSelect
  PROVE  CliInv'
PROOF
  <1> DEFINE cfg == [config EXCEPT !.dbnum = config.input_dbnum]
             c == CHOOSE s \in DOMAIN Selects : Selects[s] = config.input_dbnum
             goOn(x) == IF caller = "auth" THEN Return(TRUE, x) ELSE cliPc' = "hello" /\ config' = x
  <1>1. Types /\ Modes /\ Contexts /\ Answered /\ Believed BY Zenon DEF CliInv
  <1>2. /\ cliPc = "select" /\ UNCHANGED <<command, caller, bounds>>
        /\ odd' = IF config.dbnum # config.input_dbnum /\ config.input_dbnum \notin Databases /\ remote.tx
                  THEN odd \cup {"queued"} ELSE odd
    BY Zenon DEF cliSelect
  <1>3. \/ cfg = config /\ goOn(config) /\ UNCHANGED <<context, remote, replies>>
        \/ cfg # config /\ \E r \in Refused \cup {"none"} : redisCommand(c, r) /\ Return(FALSE, config)
        \/ cfg # config /\ \E r \in Positive : redisCommand(c, r) /\ goOn(cfg)
        \/ cfg # config /\ context = "NULL" /\ cliPc' = "crashed" /\ UNCHANGED <<config, context, remote, replies>>
    BY Zenon DEF cliSelect
  <1>4. /\ config \in Config /\ remote \in Remote /\ replies \in Seq(Type) /\ odd \subseteq Oddities
        /\ context \in {"NULL", "up", "lost", "closed", "err"}
    BY <1>1, Zenon DEF Types
  <1>5. cliPc \in Connecting /\ cliPc \in Settled BY <1>2 DEF Connecting, Settled
  <1>6. caller \in {"repl", "issue", "read", "auth"} BY <1>1, Zenon DEF Types
  <1>7. c \in DOMAIN Selects /\ Selects[c] = config.input_dbnum
    <2>1. config.input_dbnum \in Number BY <1>4 DEF Config
    <2>2. \E s \in DOMAIN Selects : Selects[s] = config.input_dbnum
      <3>1. "select0" \in DOMAIN Selects /\ Selects["select0"] = 0 BY DEF Selects
      <3>2. "select1" \in DOMAIN Selects /\ Selects["select1"] = 1 BY DEF Selects
      <3>3. "select9" \in DOMAIN Selects /\ Selects["select9"] = 9 BY DEF Selects
      <3> QED BY <2>1, <3>1, <3>2, <3>3, Zenon DEF Number
    <2> QED BY <2>2, Zenon
  <1>8. odd \subseteq odd' /\ odd' \subseteq Oddities BY <1>2, <1>4 DEF Oddities
  <1>9. /\ cfg \in Config /\ cfg.dbnum = config.input_dbnum /\ cfg.in_multi = config.in_multi
        /\ cfg.pre_multi_dbnum = config.pre_multi_dbnum
        /\ cfg.shutdown = config.shutdown /\ cfg.monitor_mode = config.monitor_mode
        /\ cfg.pubsub_mode = config.pubsub_mode /\ cfg.slave_mode = config.slave_mode
    BY <1>4 DEF Config
  <1>10. cfg # config => config.dbnum # config.input_dbnum BY <1>4 DEF Config
  <1>11. /\ context = "up" /\ "subscribed" \notin odd => replies = << >> /\ ~ remote.feed
         /\ context = "up" /\ odd = {} => Agrees(config, remote)
         /\ context = "NULL" /\ odd = {} => config.dbnum = 0 /\ ~ config.in_multi
    BY <1>1, <1>5, Zenon DEF Answered, Quiet, Believed
  <1>12. ~ config.shutdown \/ odd = {} => context # "NULL" BY <1>1, <1>2 DEF Contexts
  <1>13. odd' = {} => odd = {} BY <1>8
  <1>14. "subscribed" \notin odd' => "subscribed" \notin odd BY <1>8
  <1> HIDE DEF cfg, c
  \* What either return does to config.
  <1>15. ASSUME NEW x \in Config, NEW ok \in BOOLEAN,
                Return(ok, x) \/ (caller # "auth" /\ cliPc' = "hello" /\ config' = x),
                x.shutdown = config.shutdown, x.monitor_mode = config.monitor_mode,
                x.pubsub_mode = config.pubsub_mode, x.slave_mode = config.slave_mode
         PROVE  /\ config' \in Config /\ (Back \/ (caller # "auth" /\ cliPc' = "hello"))
                /\ config'.shutdown = config.shutdown /\ config'.monitor_mode = config.monitor_mode
                /\ config'.pubsub_mode = config.pubsub_mode /\ config'.slave_mode = config.slave_mode
                /\ config'.dbnum = x.dbnum /\ config'.in_multi = x.in_multi
                /\ \A q : Agrees(x, q) => Agrees(config', q)
    <2>1. CASE Return(ok, x)
      <3>1. config' \in Config /\ Same(config', x) /\ Back BY <1>6, <1>15, <2>1, Returned, Zenon
      <3> QED BY <1>15, <3>1, Zenon DEF Same, Fields, Agrees
    <2> QED BY <1>15, <2>1, Zenon
  <1>16. CASE cfg = config /\ goOn(config) /\ UNCHANGED <<context, remote, replies>>
    <2>1. Return(TRUE, config) \/ (caller # "auth" /\ cliPc' = "hello" /\ config' = config) BY <1>16, Zenon
    <2>2. /\ config' \in Config /\ (Back \/ (caller # "auth" /\ cliPc' = "hello"))
          /\ config'.shutdown = config.shutdown /\ config'.monitor_mode = config.monitor_mode
          /\ config'.pubsub_mode = config.pubsub_mode /\ config'.slave_mode = config.slave_mode
          /\ config'.dbnum = config.dbnum /\ config'.in_multi = config.in_multi
          /\ \A q : Agrees(config, q) => Agrees(config', q)
      BY <1>4, <1>15, <2>1, Zenon
    <2>3. odd' = {} /\ context' = "up" => Agrees(config', remote') BY <1>11, <1>13, <1>16, <2>2
    <2>4. UNCHANGED <<context, remote, replies>> BY <1>16
    <2> QED BY <1>2, <1>4, <1>5, <1>8, <1>11, <1>12, <1>13, <1>14, <2>2, <2>3, <2>4, Connects
  <1>17. ASSUME NEW r, redisCommand(c, r)
         PROVE  /\ remote' \in Remote /\ replies' \in Seq(Type) /\ context # "NULL" /\ context' \in {"up", "err"}
                /\ context' = "up" /\ "subscribed" \notin odd' => replies' = << >> /\ ~ remote'.feed
                /\ context' = "up" /\ "subscribed" \notin odd' =>
                     \E a \in Answers(remote, c) : remote' = a.remote /\ r = a.type
                /\ context' = "up" => context = "up"
    <2>1. /\ remote' \in Remote /\ replies' \in Seq(Type) /\ context # "NULL"
          /\ \/ context' = "err"
             \/ /\ context = "up" /\ context' = "up"
                /\ \E a \in Answers(remote, c) :
                     remote' = a.remote /\ (replies = << >> => replies' = << >> /\ r = a.type)
      BY <1>4, <1>17, Sent, Zenon
    <2>2. c \notin {"subscribe", "monitor"} BY <1>7 DEF Selects
    <2>3. \A a \in Answers(remote, c) : ~ remote.feed => ~ a.remote.feed BY <1>4, <2>2, AnswersOK
    <2>4. "err" # "up" OBVIOUS
    <2> QED BY <1>11, <1>14, <2>1, <2>3, <2>4, Zenon
  <1>18. ASSUME cfg # config, NEW r \in Refused \cup {"none"}, redisCommand(c, r), Return(FALSE, config)
         PROVE  CliInv'
    <2>1. /\ config' \in Config /\ (Back \/ (caller # "auth" /\ cliPc' = "hello"))
          /\ config'.shutdown = config.shutdown /\ config'.monitor_mode = config.monitor_mode
          /\ config'.pubsub_mode = config.pubsub_mode /\ config'.slave_mode = config.slave_mode
          /\ config'.dbnum = config.dbnum /\ config'.in_multi = config.in_multi
          /\ \A q : Agrees(config, q) => Agrees(config', q)
      BY <1>4, <1>15, <1>18, Zenon
    <2>2. /\ remote' \in Remote /\ replies' \in Seq(Type) /\ context # "NULL" /\ context' \in {"up", "err"}
          /\ context' = "up" /\ "subscribed" \notin odd' => replies' = << >> /\ ~ remote'.feed
          /\ context' = "up" /\ "subscribed" \notin odd' =>
               \E a \in Answers(remote, c) : remote' = a.remote /\ r = a.type
          /\ context' = "up" => context = "up"
      BY <1>17, <1>18, Zenon
    <2>3. odd' = {} /\ context' = "up" => Agrees(config', remote')
      <3>1. ASSUME odd' = {}, context' = "up" PROVE Agrees(config', remote')
        <4>1. PICK a \in Answers(remote, c) : remote' = a.remote /\ r = a.type BY <2>2, <3>1
        <4>2. r \notin {"status", "nil"} BY <1>18 DEF Refused
        <4>3. remote' = remote BY <1>4, <1>7, <4>1, <4>2, SelectRefused
        <4> QED BY <1>11, <1>13, <2>1, <2>2, <3>1, <4>3, Zenon
      <3> QED BY <3>1
    <2>4. context' \in {"NULL", "up", "lost", "closed", "err"} /\ context' # "NULL" BY <2>2
    <2> QED BY <1>2, <1>5, <1>8, <2>1, <2>2, <2>3, <2>4, Connects
  <1>19. ASSUME cfg # config, NEW r \in Positive, redisCommand(c, r), goOn(cfg)
         PROVE  CliInv'
    <2>0. Return(TRUE, cfg) \/ (caller # "auth" /\ cliPc' = "hello" /\ config' = cfg) BY <1>19, Zenon
    <2>1. /\ config' \in Config /\ (Back \/ (caller # "auth" /\ cliPc' = "hello"))
          /\ config'.shutdown = config.shutdown /\ config'.monitor_mode = config.monitor_mode
          /\ config'.pubsub_mode = config.pubsub_mode /\ config'.slave_mode = config.slave_mode
          /\ config'.dbnum = cfg.dbnum /\ config'.in_multi = cfg.in_multi
          /\ \A q : Agrees(cfg, q) => Agrees(config', q)
      BY <1>9, <1>15, <2>0, Zenon
    <2>2. /\ remote' \in Remote /\ replies' \in Seq(Type) /\ context # "NULL" /\ context' \in {"up", "err"}
          /\ context' = "up" /\ "subscribed" \notin odd' => replies' = << >> /\ ~ remote'.feed
          /\ context' = "up" /\ "subscribed" \notin odd' =>
               \E a \in Answers(remote, c) : remote' = a.remote /\ r = a.type
          /\ context' = "up" => context = "up"
      BY <1>17, <1>19, Zenon
    <2>3. odd' = {} /\ context' = "up" => Agrees(config', remote')
      <3>1. ASSUME odd' = {}, context' = "up" PROVE Agrees(config', remote')
        <4>1. PICK a \in Answers(remote, c) : remote' = a.remote /\ r = a.type BY <2>2, <3>1
        <4>2. a.type # "error" BY <1>19, <4>1 DEF Positive
        <4>3. Selects[c] \in Databases \/ ~ remote.tx BY <1>2, <1>7, <1>10, <1>19, <3>1
        <4>4. /\ remote.tx => remote' = [remote EXCEPT !.qdb = config.input_dbnum]
              /\ ~ remote.tx => remote' = [remote EXCEPT !.db = config.input_dbnum]
          BY <1>4, <1>7, <4>1, <4>2, <4>3, SelectAnswers
        <4>5. Agrees(config, remote) BY <1>11, <1>13, <2>2, <3>1, Zenon
        <4>6. Agrees(cfg, remote') BY <1>4, <1>9, <4>4, <4>5 DEF Agrees, Remote
        <4> QED BY <2>1, <4>6, Zenon
      <3> QED BY <3>1
    <2>4. context' \in {"NULL", "up", "lost", "closed", "err"} /\ context' # "NULL" BY <2>2
    <2> QED BY <1>2, <1>5, <1>8, <2>1, <2>2, <2>3, <2>4, Connects
  <1>20. CASE context = "NULL" /\ cliPc' = "crashed" /\ UNCHANGED <<config, context, remote, replies>>
    <2>1. config.shutdown /\ odd # {} BY <1>12, <1>20, Zenon
    <2>2. context' \in {context, "err"} /\ cliPc' \in {"exited", "crashed"} BY <1>20
    <2>3. UNCHANGED <<config, remote, replies, command, caller>> BY <1>2, <1>20, Zenon
    <2> QED BY <1>8, <2>1, <2>2, <2>3, Ends, Zenon
  <1> QED BY <1>3, <1>16, <1>18, <1>19, <1>20, Zenon

-----------------------------------------------------------------------------
(* Issuing a command                                                       *)

\* A step between two places at which no command is under way.
LEMMA Moves ==
  ASSUME CliInv, cliPc \in {"repl", "issue", "asking", "next"},
         cliPc' \in {"connect", "repl", "issue", "asking", "send"},
         cliPc' # "repl" => command'.count # 0,
         config' \in Config, Same(config', config), UNCHANGED odd, command' \in Command, command'.repeat <= command'.count,
         command' = command \/ command'.loop = "plain",
         command'.count = 0 => caller' = "repl",
         caller' \in {"repl", "issue"} \/ (caller' = caller /\ cliPc' # "connect"),
         remote' \in Remote, replies' \in Seq(Type), context' \in {"NULL", "up", "lost", "closed", "err"},
         context' = "up" /\ "subscribed" \notin odd => replies' = << >> /\ ~ remote'.feed,
         context' = "up" /\ odd = {} => Agrees(config, remote'),
         context' = "NULL" => context = "NULL" /\ (~ config.shutdown \/ odd = {} => cliPc' \in {"connect", "repl", "issue"})
  PROVE  CliInv'
PROOF
  <1>1. Types /\ Modes /\ Contexts /\ Answered /\ Believed BY Zenon DEF CliInv
  <1>2. ~ config.monitor_mode /\ ~ config.pubsub_mode /\ ~ config.slave_mode
    BY <1>1, NoMode
  <1>3. /\ config'.monitor_mode = config.monitor_mode /\ config'.pubsub_mode = config.pubsub_mode
        /\ config'.slave_mode = config.slave_mode /\ config'.shutdown = config.shutdown
        /\ config'.dbnum = config.dbnum /\ config'.in_multi = config.in_multi
    BY Zenon DEF Same, Fields
  <1>4. /\ cliPc' # "read" /\ cliPc' # "readOk" /\ cliPc' # "readFailed" /\ cliPc' # "loop" /\ cliPc' # "next"
        /\ cliPc' # "select" /\ cliPc' # "crashed"
        /\ cliPc' \notin {"read", "readOk"} /\ cliPc' \notin {"read", "readOk", "readFailed"}
        /\ cliPc' \in Connecting => cliPc' = "connect"
        /\ cliPc' \in {"connect", "auth", "hello"} => cliPc' = "connect"
        /\ cliPc' = "connect" => caller' # "auth" /\ caller' # "read"
    BY DEF Connecting
  <1>5. Types'
    <2>1. cliPc' \in Place BY DEF Place
    <2>2. caller' \in {"repl", "issue", "read", "auth"} BY <1>1 DEF Types
    <2>3. cliPc' = "repl" => cliPc' \in {"connect", "auth", "select", "hello", "repl", "exited", "crashed"} OBVIOUS
    <2> QED BY <1>1, <2>1, <2>2, <2>3, Zenon DEF Types
  <1>6. Modes'
    <2>1. /\ command'.loop = "monitor" => command'.cmd = "monitor"
          /\ command'.loop = "pubsub" => command'.cmd = "subscribe"
      <3>1. "plain" # "monitor" /\ "plain" # "pubsub" OBVIOUS
      <3> QED BY <1>1, <3>1, Zenon DEF Modes
    <2> QED BY <1>2, <1>3, <1>4, <2>1, Zenon DEF Modes, InMode
  <1>7. Contexts'
    <2>1. cliPc' \in {"connect", "repl", "issue"} => cliPc' \in {"connect", "repl", "issue", "readFailed", "exited"} OBVIOUS
    <2> QED BY <1>2, <1>3, <1>4, <2>1, Zenon DEF Contexts, InMode
  <1>8. Answered' BY <1>4, Zenon DEF Answered, Quiet
  <1>9. Believed'
    <2>1. \A r : Agrees(config, r) => Agrees(config', r) BY Zenon DEF Same, Fields, Agrees
    <2> QED BY <1>1, <1>3, <1>4, <2>1, Zenon DEF Believed
  <1> QED BY <1>5, <1>6, <1>7, <1>8, <1>9, Zenon DEF CliInv

\* What the invariant says where no command is under way.
LEMMA AtRest ==
  ASSUME CliInv
  PROVE  /\ config \in Config /\ Same(config, config) /\ remote \in Remote /\ replies \in Seq(Type)
         /\ command \in Command /\ command.repeat <= command.count
         /\ context \in {"NULL", "up", "lost", "closed", "err"} /\ odd \subseteq Oddities
         /\ caller \in {"repl", "issue", "read", "auth"}
         /\ cliPc \in Settled /\ context = "up" /\ "subscribed" \notin odd => replies = << >> /\ ~ remote.feed
         /\ cliPc \in Settled /\ context = "up" /\ odd = {} => Agrees(config, remote)
         /\ context = "NULL" /\ odd = {} => config.dbnum = 0 /\ ~ config.in_multi
         /\ cliPc \notin {"connect", "auth", "select", "hello", "repl", "exited", "crashed"} => command.count # 0
         /\ command.count = 0 => caller = "repl"
PROOF
  BY Zenon DEF CliInv, Types, Same, Fields, Answered, Quiet, Believed

LEMMA IssueStep ==
  ASSUME CliInv, issueCommandRepeat
  PROVE  CliInv'
PROOF
  <1>1. /\ cliPc = "issue" /\ UNCHANGED <<config, context, remote, replies, command, odd, bounds>>
        /\ \/ cliPc' = "connect" /\ caller' = "issue"
           \/ cliPc' = "asking" /\ UNCHANGED caller /\ context # "NULL"
    BY DEF issueCommandRepeat
  <1>2. cliPc \in Settled /\ cliPc \notin {"connect", "auth", "select", "hello", "repl", "exited", "crashed"}
    BY <1>1 DEF Settled
  <1>3. context' = "up" /\ odd = {} => Agrees(config, remote') BY <1>1, <1>2, AtRest
  <1>4. context' = "up" /\ "subscribed" \notin odd => replies' = << >> /\ ~ remote'.feed BY <1>1, <1>2, AtRest
  <1>5. config' \in Config /\ Same(config', config) BY <1>1, AtRest
  <1> QED BY <1>1, <1>2, <1>3, <1>4, <1>5, AtRest, Moves

LEMMA AskingStep ==
  ASSUME CliInv, cliSendAsking
  PROVE  CliInv'
PROOF
  <1>1. /\ cliPc = "asking" /\ config' = [config EXCEPT !.cluster_send_asking = FALSE]
        /\ UNCHANGED <<command, caller, odd, bounds>> /\ cliPc' \in {"repl", "send"}
    BY DEF cliSendAsking
  <1>2. cliPc \in Settled /\ cliPc \notin {"connect", "auth", "select", "hello", "repl", "exited", "crashed"}
    BY <1>1 DEF Settled
  <1>3. config' \in Config /\ Same(config', config)
    <2>1. config \in Config BY AtRest, Zenon
    <2> QED BY <1>1, <2>1, Zenon DEF Config, Same, Fields
  <1>4. ~ config.shutdown \/ odd = {} => context # "NULL" BY <1>1 DEF CliInv, Contexts
  <1>5. /\ remote' \in Remote /\ replies' \in Seq(Type) /\ context' \in {"NULL", "up", "lost", "closed", "err"}
        /\ context' = "up" /\ "subscribed" \notin odd => replies' = << >> /\ ~ remote'.feed
        /\ context' = "up" /\ odd = {} => Agrees(config, remote')
        /\ context' = "NULL" => context = "NULL"
    <2>1. CASE UNCHANGED <<context, remote, replies>>
      <3>1. context' = "up" /\ odd = {} => Agrees(config, remote') BY <1>2, <2>1, AtRest
      <3> QED BY <1>2, <2>1, <3>1, AtRest
    <2>2. ASSUME NEW r, redisCommand("asking", r)
          PROVE  /\ remote' \in Remote /\ replies' \in Seq(Type) /\ context' \in {"NULL", "up", "lost", "closed", "err"}
                 /\ context' = "up" /\ "subscribed" \notin odd => replies' = << >> /\ ~ remote'.feed
                 /\ context' = "up" /\ odd = {} => Agrees(config, remote')
                 /\ context' = "NULL" => context = "NULL"
      BY <1>2, <2>2, SentPlain
    <2> QED BY <2>1, <2>2, Zenon DEF cliSendAsking
  <1> QED BY <1>1, <1>2, <1>3, <1>4, <1>5, AtRest, Moves

LEMMA NextStep ==
  ASSUME CliInv, NextRepeat
  PROVE  CliInv'
PROOF
  <1>1. /\ cliPc = "next" /\ UNCHANGED <<config, context, remote, replies, command, caller, odd, bounds>>
        /\ cliPc' \in {"issue", "repl", "loop"}
    BY DEF NextRepeat, Issued
  <1>2. cliPc \in Settled /\ cliPc \notin {"connect", "auth", "select", "hello", "repl", "exited", "crashed"}
    BY <1>1 DEF Settled
  <1>3. ~ config.shutdown \/ odd = {} => context # "NULL" BY <1>1 DEF CliInv, Contexts
  <1>4. CASE cliPc' \in {"issue", "repl"}
    <2>1. context' = "up" /\ odd = {} => Agrees(config, remote') BY <1>1, <1>2, AtRest
    <2>2. context' = "up" /\ "subscribed" \notin odd => replies' = << >> /\ ~ remote'.feed BY <1>1, <1>2, AtRest
    <2>3. config' \in Config /\ Same(config', config) BY <1>1, AtRest
    <2> QED BY <1>1, <1>2, <1>3, <1>4, <2>1, <2>2, <2>3, AtRest, Moves
  <1>5. CASE cliPc' = "loop"
    <2>1. Types /\ Modes /\ Contexts /\ Answered /\ Believed BY Zenon DEF CliInv
    <2>2. ~ config.monitor_mode /\ ~ config.pubsub_mode /\ ~ config.slave_mode /\ command.cmd # "monitor"
      BY <1>1, <2>1, NoMode DEF Modes
    <2>3. Types' BY <1>1, <1>2, <1>5, <2>1 DEF Types, Place
    <2>4. Modes' BY <1>1, <1>5, <2>1, <2>2 DEF Modes, InMode, Connecting
    <2>5. Contexts' BY <1>1, <1>3, <1>5, <2>2 DEF Contexts, InMode
    <2>6. Answered' BY <1>1, <1>2, <1>5, <2>1 DEF Answered, Quiet
    <2>7. Believed'
      <3>1. context' = "up" /\ odd' = {} => Agrees(config', remote') BY <1>1, <1>2, AtRest
      <3>2. odd' = {} => context' # "NULL" BY <1>1, <1>3
      <3>3. cliPc' \notin Connecting /\ cliPc' # "read" /\ cliPc' # "readOk" /\ cliPc' \notin {"read", "readOk"}
        BY <1>5 DEF Connecting
      <3> QED BY <3>1, <3>2, <3>3, Zenon DEF Believed
    <2> QED BY <2>3, <2>4, <2>5, <2>6, <2>7, Zenon DEF CliInv
  <1> QED BY <1>1, <1>4, <1>5

LEMMA ReplStep ==
  ASSUME CliInv, repl
  PROVE  CliInv'
PROOF
  <1>1. cliPc = "repl" /\ UNCHANGED <<config, context, remote, replies, odd>> BY Zenon DEF repl
  <1>2. cliPc \in Settled BY <1>1 DEF Settled
  <1>3. /\ context' = "up" /\ odd = {} => Agrees(config, remote')
        /\ context' = "up" /\ "subscribed" \notin odd => replies' = << >> /\ ~ remote'.feed
        /\ config' \in Config /\ Same(config', config)
    <2>1. context = "up" /\ odd = {} => Agrees(config, remote) BY <1>2, AtRest, Zenon
    <2> QED BY <1>1, <1>2, <2>1, AtRest
  <1>4. ASSUME NEW c \in CliCommand, NEW n \in Repeats, cliPc' = "issue", UNCHANGED caller,
               command' = [cmd |-> c, count |-> n, repeat |-> 0, loop |-> "plain"]
        PROVE  CliInv'
    <2>1. n \in Nat \ {0} BY CliAssumption
    <2>2. /\ command' \in Command /\ command'.repeat <= command'.count /\ command'.count # 0
          /\ command'.loop = "plain"
      BY <1>4, <2>1 DEF Command, Loops
    <2> QED BY <1>1, <1>3, <1>4, <2>2, AtRest, Moves
  <1>5. CASE cliPc' = "connect" /\ caller' = "repl" /\ UNCHANGED command
    <2>1. Types /\ Modes /\ Contexts /\ Answered /\ Believed BY Zenon DEF CliInv
    <2>2. ~ config.monitor_mode /\ ~ config.pubsub_mode /\ ~ config.slave_mode BY <1>1, <2>1, NoMode
    <2>3. Types' BY <1>1, <1>5, <2>1 DEF Types, Place
    <2>4. Modes' BY <1>1, <1>5, <2>1, <2>2 DEF Modes, InMode, Connecting
    <2>5. Contexts' BY <1>1, <1>5, <2>2 DEF Contexts, InMode
    <2>6. Answered' BY <1>5 DEF Answered, Settled
    <2>7. Believed'
      <3>1. /\ cliPc' \notin Settled /\ cliPc' # "read" /\ cliPc' # "readOk" /\ cliPc' \notin {"read", "readOk"}
            /\ caller' # "read"
        BY <1>5 DEF Settled
      <3> QED BY <1>1, <2>1, <3>1, Zenon DEF Believed
    <2> QED BY <2>3, <2>4, <2>5, <2>6, <2>7, Zenon DEF CliInv
  <1>6. CASE cliPc' = "exited" /\ UNCHANGED <<command, caller>>
    <2>1. /\ cliPc' \in {"exited", "crashed"} /\ cliPc' # "crashed" /\ context' \in {context, "err"}
          /\ odd \subseteq odd' /\ odd' \subseteq Oddities /\ UNCHANGED <<config, remote, replies, command, caller>>
      BY <1>1, <1>6, AtRest
    <2> QED BY <2>1, Ends, Zenon
  <1> QED BY <1>4, <1>5, <1>6, Zenon DEF repl

LEMMA SendStep ==
  ASSUME CliInv, cliSendCommand
  PROVE  CliInv'
PROOF
  <1>1. Types /\ Modes /\ Contexts /\ Answered /\ Believed BY Zenon DEF CliInv
  <1>2. /\ cliPc = "send" /\ cliPc' = "loop" /\ command' = [command EXCEPT !.repeat = command.count, !.loop = "plain"]
        /\ UNCHANGED <<context, remote, replies, caller, odd, bounds>>
    BY Zenon DEF cliSendCommand
  <1>3. cliPc \in Settled /\ cliPc \notin {"connect", "auth", "select", "hello", "repl", "exited", "crashed"}
    BY <1>2 DEF Settled
  <1>4. ~ config.monitor_mode /\ ~ config.pubsub_mode /\ ~ config.slave_mode BY <1>1, <1>2, NoMode
  <1>5. config \in Config /\ command \in Command /\ command.count # 0 BY <1>3, AtRest, Zenon
  <1>6. /\ config' \in Config
        /\ Fields(config', config.in_multi, config.dbnum, config.pre_multi_dbnum)
        /\ config.shutdown => config'.shutdown
        /\ config'.monitor_mode => command.cmd = "monitor"
        /\ command.cmd = "monitor" => config'.monitor_mode
        /\ config'.pubsub_mode => command.cmd = "subscribe"
        /\ config'.slave_mode => command.cmd = "sync"
    <2>1. CASE command.cmd = "shutdown"
      <3>1. config' = [config EXCEPT !.shutdown = TRUE] BY <2>1 DEF cliSendCommand
      <3> QED BY <1>4, <1>5, <2>1, <3>1, Zenon DEF Config, Fields
    <2>2. CASE command.cmd = "monitor"
      <3>1. config' = [config EXCEPT !.monitor_mode = TRUE] BY <2>2 DEF cliSendCommand
      <3> QED BY <1>4, <1>5, <2>2, <3>1, Zenon DEF Config, Fields
    <2>3. CASE command.cmd = "subscribe"
      <3>1. config' = [config EXCEPT !.pubsub_mode = TRUE] BY <2>3 DEF cliSendCommand
      <3> QED BY <1>4, <1>5, <2>3, <3>1, Zenon DEF Config, Fields
    <2>4. CASE command.cmd = "sync"
      <3>1. config' = [config EXCEPT !.slave_mode = TRUE] BY <2>4 DEF cliSendCommand
      <3> QED BY <1>4, <1>5, <2>4, <3>1, Zenon DEF Config, Fields
    <2>5. CASE command.cmd \notin {"shutdown", "monitor", "subscribe", "sync"}
      <3>1. config' = config BY <2>5 DEF cliSendCommand
      <3> QED BY <1>4, <1>5, <2>5, <3>1 DEF Fields
    <2> QED BY <2>1, <2>2, <2>3, <2>4, <2>5
  <1>7. /\ command' \in Command /\ command'.cmd = command.cmd /\ command'.count = command.count
        /\ command'.repeat = command.count /\ command'.loop = "plain" /\ command'.repeat > 0
        /\ command'.repeat <= command'.count
    <2>1. Repeats \subseteq Nat \ {0} BY CliAssumption, Zenon
    <2>2. command.count \in {0} \cup Repeats BY <1>5 DEF Command
    <2>3. command.count \in Nat /\ command.count > 0
      <3>1. command.count \in Repeats BY <1>5, <2>2, Zenon
      <3>2. command.count \in Nat \ {0} BY <2>1, <3>1, Zenon
      <3>3. \A n \in Nat \ {0} : n > 0 OBVIOUS
      <3> QED BY <3>2, <3>3, Zenon
    <2>4. "plain" \in Loops BY DEF Loops
    <2>5. command' \in Command BY <1>2, <1>5, <2>3, <2>4, Zenon DEF Command
    <2> QED BY <1>2, <1>5, <2>3, <2>5 DEF Command
  <1>8. ~ config.shutdown \/ odd = {} => context # "NULL" BY <1>1, <1>2 DEF Contexts
  <1>9. Types' BY <1>1, <1>2, <1>5, <1>6, <1>7 DEF Types, Place
  <1>10. Modes' BY <1>2, <1>6, <1>7 DEF Modes, InMode, Connecting
  <1>11. Contexts' BY <1>2, <1>6, <1>8 DEF Contexts
  <1>12. Answered' BY <1>1, <1>2, <1>3 DEF Answered, Quiet
  <1>13. Believed'
    <2>1. context = "up" /\ odd = {} => Agrees(config, remote) BY <1>3, AtRest, Zenon
    <2>2. context' = "up" /\ odd' = {} => Agrees(config', remote') BY <1>2, <1>6, <2>1 DEF Fields, Agrees
    <2>3. odd' = {} => context' # "NULL" BY <1>2, <1>8
    <2>4. cliPc' \notin Connecting /\ cliPc' # "read" /\ cliPc' # "readOk" /\ cliPc' \notin {"read", "readOk"}
      BY <1>2 DEF Connecting
    <2> QED BY <2>2, <2>3, <2>4, Zenon DEF Believed
  <1> QED BY <1>9, <1>10, <1>11, <1>12, <1>13, Zenon DEF CliInv

\* The connection of a command that failed is given up.
LEMMA Drops ==
  ASSUME CliInv, Drop(config), cliPc' = "repl", UNCHANGED <<remote, replies, command, caller>>,
         cliPc \notin {"connect", "auth", "select", "hello", "repl", "exited", "crashed"},
         config' \in Config, Fields(config', config.in_multi, config.dbnum, config.pre_multi_dbnum),
         ~ config'.monitor_mode, ~ config'.pubsub_mode, ~ config'.slave_mode
  PROVE  CliInv'
PROOF
  <1>1. Types /\ Modes BY Zenon DEF CliInv
  <1>2. /\ context' = "NULL" /\ odd \subseteq odd' /\ odd' \subseteq Oddities
        /\ odd' = {} => config.dbnum = 0 /\ ~ config.in_multi
    BY AtRest DEF Drop, Oddities
  <1>3. /\ cliPc' # "read" /\ cliPc' # "readOk" /\ cliPc' # "readFailed" /\ cliPc' # "loop" /\ cliPc' # "next"
        /\ cliPc' # "select" /\ cliPc' # "crashed" /\ cliPc' \notin Connecting
        /\ cliPc' \notin {"read", "readOk"} /\ cliPc' \notin {"read", "readOk", "readFailed"}
        /\ cliPc' \notin {"connect", "auth", "hello"} /\ context' # "up"
        /\ cliPc' \in {"connect", "repl", "issue", "readFailed", "exited"}
    BY <1>2 DEF Connecting
  <1>4. Types'
    <2>1. cliPc' \in Place /\ context' \in {"NULL", "up", "lost", "closed", "err"} BY <1>2 DEF Place
    <2>2. command.count # 0 BY AtRest, Zenon
    <2> QED BY <1>1, <1>2, <2>1, <2>2, Zenon DEF Types
  <1>5. Modes' BY <1>1, <1>3, Zenon DEF Modes, InMode
  <1>6. Contexts' BY <1>3, Zenon DEF Contexts, InMode
  <1>7. Answered' BY <1>3, Zenon DEF Answered
  <1>8. Believed' BY <1>2, <1>3, Zenon DEF Believed, Fields
  <1> QED BY <1>4, <1>5, <1>6, <1>7, <1>8, Zenon DEF CliInv

\* A command is written: what is on its way is its reply, with the messages of its mode.
LEMMA Appended ==
  ASSUME CliInv, cliPc = "loop", context = "up", "subscribed" \notin odd, NEW a \in Answers(remote, command.cmd),
         remote' = a.remote, replies' = Append(replies, a.type)
  PROVE  /\ replies' = <<a.type>>
         /\ command.cmd \notin {"subscribe", "monitor"} => ~ remote'.feed
         /\ command.cmd \in {"subscribe", "monitor"} =>
              /\ remote'.feed => \A i \in 1..Len(replies') : replies'[i] = "status"
              /\ ~ remote'.feed => replies' \in {<< >>, <<"error">>, <<"status">>}
              /\ \A cfg : Agrees(cfg, remote) => Agrees(cfg, remote')
PROOF
  <1>1. cliPc \in Settled BY DEF Settled
  <1>2. remote \in Remote /\ replies = << >> /\ ~ remote.feed BY <1>1, AtRest, Zenon
  <1>3. a.type \in Type /\ (command.cmd \notin {"subscribe", "monitor"} => ~ a.remote.feed)
    BY <1>2, AnswersOK
  <1>4. replies' = <<a.type>> BY <1>2, <1>3
  <1>5. CASE command.cmd \in {"subscribe", "monitor"}
    <2>1. \/ a.type = "error" /\ remote' = remote
          \/ a.type = "status" /\ remote' = [remote EXCEPT !.feed = ~ remote.tx]
      BY <1>2, <1>5, ModeAnswers
    <2>2. remote'.feed => a.type = "status" BY <1>2, <2>1
    <2>3. remote'.feed => \A i \in 1..Len(replies') : replies'[i] = "status" BY <1>4, <2>2
    <2>4. replies' \in {<< >>, <<"error">>, <<"status">>} BY <1>4, <2>1
    <2>5. remote'.tx = remote.tx /\ remote'.db = remote.db /\ remote'.qdb = remote.qdb BY <1>2, <2>1 DEF Remote
    <2>6. \A cfg : Agrees(cfg, remote) => Agrees(cfg, remote') BY <2>5, Zenon DEF Agrees
    <2> QED BY <1>4, <1>5, <2>3, <2>4, <2>6, Zenon
  <1>6. CASE command.cmd \notin {"subscribe", "monitor"}
    BY <1>3, <1>4, <1>6, Zenon
  <1> QED BY <1>5, <1>6, Zenon

LEMMA AppendStep ==
  ASSUME CliInv, AppendCommand
  PROVE  CliInv'
PROOF
  <1>1. Types /\ Modes /\ Contexts /\ Answered /\ Believed BY Zenon DEF CliInv
  <1>2. cliPc = "loop" /\ UNCHANGED <<caller, bounds>> BY Zenon DEF AppendCommand
  <1>3. cliPc \in Settled /\ cliPc \notin {"connect", "auth", "select", "hello", "repl", "exited", "crashed"}
    BY <1>2 DEF Settled
  <1>4. ~ config.shutdown \/ odd = {} => context # "NULL" BY <1>1, <1>2 DEF Contexts
  <1>5. command.count # 0 /\ odd \subseteq Oddities /\ command \in Command /\ config \in Config BY <1>3, AtRest, Zenon
  <1>6. CASE /\ command.repeat = 0 /\ cliPc' = Issued(config)
             /\ UNCHANGED <<config, context, remote, replies, command, odd>>
    <2>1. ~ config.monitor_mode /\ ~ config.pubsub_mode /\ ~ config.slave_mode
      BY <1>1, <1>2, <1>6 DEF Modes, InMode
    <2>2. cliPc' \in {"issue", "repl"} BY <1>6 DEF Issued
    <2>3. Types' BY <1>1, <1>2, <1>5, <1>6, <2>2 DEF Types, Place
    <2>4. Modes' BY <1>1, <1>6, <2>1, <2>2 DEF Modes, InMode, Connecting
    <2>5. Contexts' BY <1>4, <1>6, <2>1, <2>2 DEF Contexts, InMode
    <2>6. Answered' BY <1>1, <1>3, <1>6, <2>2 DEF Answered, Quiet
    <2>7. Believed'
      <3>1. context = "up" /\ odd = {} => Agrees(config, remote) BY <1>3, AtRest, Zenon
      <3>2. odd' = {} => context' # "NULL" BY <1>4, <1>6
      <3>3. cliPc' \notin Connecting /\ cliPc' # "read" /\ cliPc' # "readOk" /\ cliPc' \notin {"read", "readOk"}
        BY <2>2 DEF Connecting
      <3> QED BY <1>6, <3>1, <3>2, <3>3, Zenon DEF Believed
    <2> QED BY <2>3, <2>4, <2>5, <2>6, <2>7, Zenon DEF CliInv
  <1>7. CASE /\ context = "NULL" /\ cliPc' = "crashed"
             /\ UNCHANGED <<config, context, remote, replies, command, odd>>
    <2>1. cliPc' \in {"exited", "crashed"} /\ context' \in {context, "err"} /\ odd' \subseteq Oddities BY <1>5, <1>7
    <2> QED BY <1>2, <1>4, <1>7, <2>1, Ends, Zenon
  <1>8. CASE /\ config.slave_mode /\ config' = [config EXCEPT !.slave_mode = FALSE]
             /\ Drop(config) /\ cliPc' = "repl" /\ UNCHANGED <<remote, replies, command>>
    <2>1. ~ config.monitor_mode /\ ~ config.pubsub_mode BY <1>1, <1>8 DEF Modes
    <2>2. /\ config' \in Config /\ Fields(config', config.in_multi, config.dbnum, config.pre_multi_dbnum)
          /\ ~ config'.monitor_mode /\ ~ config'.pubsub_mode /\ ~ config'.slave_mode
      BY <1>5, <1>8, <2>1, Zenon DEF Config, Fields
    <2> QED BY <1>2, <1>3, <1>8, <2>2, Drops, Zenon
  <1>9. ASSUME command.repeat > 0, context # "NULL", ~ config.slave_mode, cliPc' = "read", UNCHANGED config,
               command' = [command EXCEPT !.repeat = @ - 1,
                             !.loop = IF config.monitor_mode THEN "monitor"
                                      ELSE IF config.pubsub_mode THEN "pubsub" ELSE "plain"],
               odd' = odd \cup (IF command.cmd = "subscribe" /\ ~ config.pubsub_mode THEN {"subscribed"} ELSE {})
                          \cup (IF command.cmd = "select9" /\ remote.tx THEN {"queued"} ELSE {}),
               \/ /\ context = "up" /\ UNCHANGED context
                  /\ \E a \in Answers(remote, command.cmd) : remote' = a.remote /\ replies' = Append(replies, a.type)
               \/ context = "up" /\ context' = "lost" /\ UNCHANGED <<remote, replies>>
               \/ context # "up" /\ UNCHANGED <<context, remote, replies>>
        PROVE  CliInv'
    <2>1. /\ command' \in Command /\ command'.cmd = command.cmd /\ command'.count = command.count
          /\ command'.repeat <= command'.count
          /\ command'.loop = (IF config.monitor_mode THEN "monitor"
                              ELSE IF config.pubsub_mode THEN "pubsub" ELSE "plain")
      <3>1. command.repeat <= command.count BY <1>1, Zenon DEF Types
      <3>2. command.count \in Nat
        <4>1. Repeats \subseteq Nat BY CliAssumption, Zenon
        <4>2. command.count \in {0} \cup Repeats BY <1>5 DEF Command
        <4>3. 0 \in Nat OBVIOUS
        <4> QED BY <4>1, <4>2, <4>3, Zenon
      <3>3. command.repeat \in Nat /\ command.repeat - 1 \in Nat /\ command.repeat - 1 <= command.count
        BY <1>5, <1>9, <3>1, <3>2 DEF Command
      <3> QED BY <1>5, <1>9, <3>3, Zenon DEF Command, Loops
    <2>2. /\ odd \subseteq odd' /\ odd' \subseteq Oddities /\ (odd' = {} => odd = {})
          /\ "subscribed" \notin odd' => "subscribed" \notin odd /\ (command.cmd = "subscribe" => config.pubsub_mode)
          /\ odd' = {} => ~ (command.cmd = "select9" /\ remote.tx)
          /\ odd' = {} => "subscribed" \notin odd'
      BY <1>5, <1>9 DEF Oddities
    <2>3. /\ config.monitor_mode => command.cmd = "monitor" 
          /\ config.pubsub_mode => command.cmd = "subscribe"
          /\ command.cmd = "monitor" => config.monitor_mode
      BY <1>1, <1>2, Zenon DEF Modes
    <2>4. remote \in Remote /\ replies \in Seq(Type) /\ context \in {"NULL", "up", "lost", "closed", "err"} BY AtRest, Zenon
    <2>5. /\ remote' \in Remote /\ replies' \in Seq(Type) /\ context' \in {"up", "lost", "closed", "err"}
          /\ context' = "up" => /\ context = "up"
                                /\ \E a \in Answers(remote, command.cmd) :
                                     remote' = a.remote /\ replies' = Append(replies, a.type)
      <3>1. \A a \in Answers(remote, command.cmd) : a.type \in Type /\ a.remote \in Remote BY <2>4, AnswersOK
      <3>2. \A a \in Answers(remote, command.cmd) : Append(replies, a.type) \in Seq(Type) BY <2>4, <3>1
      <3>3. "lost" # "up" OBVIOUS
      <3>4. context' \in {"up", "lost", "closed", "err"} BY <1>9, <2>4
      <3> QED BY <1>9, <2>4, <3>1, <3>2, <3>3, <3>4, Zenon
    <2>6. Types'
      <3>1. cliPc' \in Place /\ context' \in {"NULL", "up", "lost", "closed", "err"} BY <1>9, <2>5 DEF Place
      <3> QED BY <1>1, <1>2, <1>5, <1>9, <2>1, <2>2, <2>5, <3>1, Zenon DEF Types
    <2>7. Modes' BY <1>9, <2>1, <2>3 DEF Modes, InMode, ModeOf, Connecting
    <2>8. Contexts' BY <1>9, <2>5 DEF Contexts
    <2>9. Answered'
      <3>1. ASSUME context' = "up", "subscribed" \notin odd' PROVE Answered'
        <4>1. PICK a \in Answers(remote, command.cmd) : remote' = a.remote /\ replies' = Append(replies, a.type)
          BY <2>5, <3>1
        <4>2. /\ replies' = <<a.type>>
              /\ command.cmd \notin {"subscribe", "monitor"} => ~ remote'.feed
              /\ command.cmd \in {"subscribe", "monitor"} =>
                   /\ remote'.feed => \A i \in 1..Len(replies') : replies'[i] = "status"
                   /\ ~ remote'.feed => replies' \in {<< >>, <<"error">>, <<"status">>}
          BY <1>2, <2>2, <2>5, <3>1, <4>1, Appended, Zenon
        <4>3. Len(replies') = 1 BY <4>2
        <4>4. command'.loop = "plain" => ~ remote'.feed BY <2>1, <2>2, <2>3, <3>1, <4>2
        <4>5. command'.loop # "plain" => command.cmd \in {"subscribe", "monitor"} BY <2>1, <2>3
        <4>6. cliPc' \notin Settled /\ cliPc' # "readOk" BY <1>9 DEF Settled
        <4> QED BY <4>2, <4>3, <4>4, <4>5, <4>6, Zenon DEF Answered, Feeding
      <3> QED BY <3>1, Zenon DEF Answered
    <2>10. Believed'
      <3>1. ASSUME odd' = {}, context' = "up"
            PROVE  /\ command'.loop # "plain" => Agrees(config', remote')
                   /\ command'.loop = "plain" => Agrees(Learnt(Told(config', replies'[1]), command'.cmd), remote')
        <4>1. PICK a \in Answers(remote, command.cmd) : remote' = a.remote /\ replies' = Append(replies, a.type)
          BY <2>5, <3>1
        <4>2. Agrees(config, remote) BY <1>3, <2>2, <2>5, <3>1, AtRest, Zenon
        <4>3. /\ replies' = <<a.type>>
              /\ command.cmd \in {"subscribe", "monitor"} => \A cfg : Agrees(cfg, remote) => Agrees(cfg, remote')
          BY <1>2, <2>2, <2>5, <3>1, <4>1, Appended, Zenon
        <4>4. command'.loop # "plain" => command.cmd \in {"subscribe", "monitor"} BY <2>1, <2>3
        <4>5. Agrees(Learnt(Told(config, a.type), command.cmd), a.remote)
          BY <1>5, <2>2, <2>4, <3>1, <4>2, LearntAgrees, Zenon
        <4>6. replies'[1] = a.type BY <4>3
        <4> QED BY <1>9, <2>1, <4>1, <4>2, <4>3, <4>4, <4>5, <4>6, Zenon
      <3>2. /\ cliPc' \notin Connecting /\ cliPc' \notin Settled /\ cliPc' # "readOk" /\ context' # "NULL"
        BY <1>9, <2>5 DEF Connecting, Settled
      <3> QED BY <3>1, <3>2, Zenon DEF Believed
    <2> QED BY <2>6, <2>7, <2>8, <2>9, <2>10, Zenon DEF CliInv
  <1> QED BY <1>6, <1>7, <1>8, <1>9, Zenon DEF AppendCommand

-----------------------------------------------------------------------------
(* Reading a reply                                                         *)

LEMMA ReplyReadStep ==
  ASSUME CliInv, ReplyRead
  PROVE  CliInv'
PROOF
  <1> DEFINE r == Head(replies)
  <1>1. Types /\ Modes /\ Contexts /\ Answered /\ Believed BY Zenon DEF CliInv
  <1>2. /\ cliPc = "read" /\ context # "NULL" /\ replies # << >> /\ cliPc' = "readOk" /\ replies' = Tail(replies)
        /\ UNCHANGED <<context, remote, command, caller, odd, bounds>>
        /\ config' = [config EXCEPT !.last_cmd_type = IF r \in {"moved", "ask"} THEN "error" ELSE r,
                        !.cluster_reissue_command = @ \/ r \in {"moved", "ask"},
                        !.cluster_send_asking = @ \/ r = "ask"]
    BY DEF ReplyRead
  <1>3. config \in Config /\ replies \in Seq(Type) /\ command.count # 0 /\ remote \in Remote
    BY <1>2, AtRest
  <1>4. r \in Type /\ r = replies[1] /\ replies' \in Seq(Type) /\ Len(replies') = Len(replies) - 1
        /\ \A i \in 1..Len(replies') : replies'[i] = replies[i + 1]
    BY <1>2, <1>3
  <1> HIDE DEF r
  <1>5. /\ config' \in Config /\ Fields(config', config.in_multi, config.dbnum, config.pre_multi_dbnum)
        /\ config'.last_cmd_type = (IF r \in {"moved", "ask"} THEN "error" ELSE r)
        /\ config'.shutdown = config.shutdown /\ config'.monitor_mode = config.monitor_mode
        /\ config'.pubsub_mode = config.pubsub_mode /\ config'.slave_mode = config.slave_mode
    <2>1. (IF r \in {"moved", "ask"} THEN "error" ELSE r) \in {"none", "status", "error", "nil"} BY <1>4 DEF Type
    <2>2. /\ (config.cluster_reissue_command \/ r \in {"moved", "ask"}) \in BOOLEAN
          /\ (config.cluster_send_asking \/ r = "ask") \in BOOLEAN
      OBVIOUS
    <2>3. \A t \in {"none", "status", "error", "nil"}, b \in BOOLEAN, d \in BOOLEAN :
            [config EXCEPT !.last_cmd_type = t, !.cluster_reissue_command = b, !.cluster_send_asking = d] \in Config
      BY <1>3, Zenon DEF Config
    <2>4. config' = [config EXCEPT !.last_cmd_type = IF r \in {"moved", "ask"} THEN "error" ELSE r,
                       !.cluster_reissue_command = config.cluster_reissue_command \/ r \in {"moved", "ask"},
                       !.cluster_send_asking = config.cluster_send_asking \/ r = "ask"]
      BY <1>2, <1>3 DEF Config
    <2>5. config' \in Config BY <2>1, <2>2, <2>3, <2>4, Zenon
    <2> QED BY <1>2, <1>3, <2>5 DEF Config, Fields
  <1>6. Types' BY <1>1, <1>2, <1>3, <1>4, <1>5 DEF Types, Place
  <1>7. Modes' BY <1>1, <1>2, <1>5 DEF Modes, InMode, Connecting
  <1>8. Contexts' BY <1>2 DEF Contexts
  <1>9. Answered'
    <2>1. ASSUME context = "up", "subscribed" \notin odd, command.loop = "plain" PROVE replies' = << >> /\ ~ remote'.feed
      <3>1. Len(replies) = 1 /\ ~ remote.feed BY <1>1, <1>2, <2>1, Zenon DEF Answered
      <3> QED BY <1>2, <1>3, <3>1
    <2>2. ASSUME context = "up", "subscribed" \notin odd, command.loop # "plain"
          PROVE  IF ModeOf(command.loop) /\ config'.last_cmd_type # "error"
                 THEN Feeding({<< >>})' ELSE replies' = << >> /\ ~ remote'.feed
      <3>1. ModeOf(command.loop) BY <1>1, <1>2, <2>2, Zenon DEF Modes
      <3>2. /\ remote.feed => \A i \in 1..Len(replies) : replies[i] = "status"
            /\ ~ remote.feed => replies \in {<< >>, <<"error">>, <<"status">>}
        BY <1>1, <1>2, <2>2, Zenon DEF Answered, Feeding
      <3>3. CASE remote.feed
        <4>1. 1 \in 1..Len(replies) BY <1>2, <1>3
        <4>2. r = "status" /\ config'.last_cmd_type # "error" BY <1>4, <1>5, <3>2, <3>3, <4>1
        <4>3. \A i \in 1..Len(replies') : i + 1 \in 1..Len(replies) BY <1>3, <1>4
        <4>4. \A i \in 1..Len(replies') : replies'[i] = "status" BY <1>4, <3>2, <3>3, <4>3
        <4> QED BY <1>2, <3>1, <3>3, <4>2, <4>4, Zenon DEF Feeding
      <3>4. CASE ~ remote.feed
        <4>1. replies = <<"error">> \/ replies = <<"status">> BY <1>2, <3>2, <3>4
        <4>2. replies' = << >> BY <1>2, <4>1
        <4> QED BY <1>2, <3>4, <4>2 DEF Feeding
      <3> QED BY <3>3, <3>4, Zenon
    <2>3. ModeOf(command.loop)' = ModeOf(command.loop) BY <1>2, <1>5, Zenon DEF ModeOf
    <2>4. cliPc' \notin Settled /\ cliPc' # "read" BY <1>2 DEF Settled
    <2> QED BY <1>2, <2>1, <2>2, <2>3, <2>4, Zenon DEF Answered, Quiet
  <1>10. Believed'
    <2>1. ASSUME odd = {}, context = "up", command.loop # "plain" PROVE Agrees(config', remote)
      <3>1. Agrees(config, remote)
        <4>1. cliPc \in {"read", "readOk"} BY <1>2
        <4> QED BY <1>1, <2>1, <4>1, Zenon DEF Believed
      <3> QED BY <1>5, <3>1, Zenon DEF Fields, Agrees
    <2>2. ASSUME odd = {}, context = "up", command.loop = "plain" PROVE Agrees(Learnt(config', command.cmd), remote)
      <3> DEFINE t == Told(config, r)
      <3>1. Agrees(Learnt(t, command.cmd), remote) BY <1>1, <1>2, <1>4, <2>2, Zenon DEF Believed
      <3>2. /\ t \in Config /\ t.last_cmd_type = config'.last_cmd_type
            /\ Fields(t, config'.in_multi, config'.dbnum, config'.pre_multi_dbnum)
        BY <1>3, <1>4, <1>5, Zenon DEF Told, Config, Fields, Type
      <3> HIDE DEF t
      <3> QED BY <1>3, <1>5, <3>1, <3>2, LearntAlike
    <2>3. cliPc' \notin Settled /\ cliPc' \notin Connecting /\ cliPc' # "read" BY <1>2 DEF Settled, Connecting
    <2> QED BY <1>2, <2>1, <2>2, <2>3, Zenon DEF Believed
  <1> QED BY <1>6, <1>7, <1>8, <1>9, <1>10, Zenon DEF CliInv

LEMMA ReadFailsStep ==
  ASSUME CliInv, ReadFails
  PROVE  CliInv'
PROOF
  <1>1. Types /\ Modes /\ Contexts /\ Answered /\ Believed BY Zenon DEF CliInv
  <1>2. cliPc = "read" /\ context \in {"lost", "closed", "err"} /\ UNCHANGED <<remote, replies, command, bounds>>
    BY DEF ReadFails
  <1>3. /\ config \in Config /\ command.count # 0 /\ odd \subseteq Oddities /\ context # "up" /\ context # "NULL"
    BY <1>2, AtRest
  <1>4. ~ config.slave_mode BY <1>1, <1>2 DEF Modes
  <1>5. CASE /\ config' = [config EXCEPT !.blocking_state_aborted = FALSE, !.monitor_mode = FALSE, !.pubsub_mode = FALSE]
             /\ cliPc' = "connect" /\ caller' = "read" /\ UNCHANGED context
             /\ odd' = IF command.loop = "plain" THEN odd \cup {"late"} ELSE odd
    <2>1. /\ config' \in Config /\ ~ config'.monitor_mode /\ ~ config'.pubsub_mode /\ ~ config'.slave_mode
      BY <1>3, <1>4, <1>5, Zenon DEF Config
    <2>2. odd' \subseteq Oddities /\ (odd' = {} => command.loop # "plain") BY <1>3, <1>5 DEF Oddities
    <2>3. Types' BY <1>1, <1>2, <1>3, <1>5, <2>1, <2>2 DEF Types, Place
    <2>4. Modes' BY <1>1, <1>2, <1>5, <2>1 DEF Modes, InMode, Connecting
    <2>5. Contexts' BY <1>3, <1>5 DEF Contexts
    <2>6. Answered' BY <1>3, <1>5 DEF Answered
    <2>7. Believed' BY <1>2, <1>3, <1>5, <2>2, Zenon DEF Believed
    <2> QED BY <2>3, <2>4, <2>5, <2>6, <2>7, Zenon DEF CliInv
  <1>6. CASE /\ config.shutdown /\ context' = "NULL" /\ cliPc' = "readOk" /\ odd' = odd \cup {"dropped"}
             /\ UNCHANGED <<config, caller>>
    <2>1. odd' \subseteq Oddities /\ odd' # {} BY <1>3, <1>6 DEF Oddities
    <2>2. Types' BY <1>1, <1>2, <1>3, <1>6, <2>1 DEF Types, Place
    <2>3. Modes' BY <1>1, <1>2, <1>6 DEF Modes, InMode, Connecting
    <2>4. Contexts' BY <1>6, <2>1, Zenon DEF Contexts
    <2>5. Answered' BY <1>6 DEF Answered
    <2>6. Believed' BY <2>1, Zenon DEF Believed
    <2> QED BY <2>2, <2>3, <2>4, <2>5, <2>6, Zenon DEF CliInv
  <1>7. CASE context' = "err" /\ cliPc' = "readFailed" /\ UNCHANGED <<config, caller, odd>>
    <2>1. Types' BY <1>1, <1>2, <1>3, <1>7 DEF Types, Place
    <2>2. Modes' BY <1>1, <1>2, <1>7 DEF Modes, InMode, Connecting
    <2>3. Contexts' BY <1>7 DEF Contexts
    <2>4. Answered' BY <1>7 DEF Answered
    <2>5. Believed'
      <3>1. cliPc' \notin Connecting /\ context' # "NULL" /\ context' # "up" BY <1>7 DEF Connecting
      <3> QED BY <3>1, Zenon DEF Believed
    <2> QED BY <2>1, <2>2, <2>3, <2>4, <2>5, Zenon DEF CliInv
  <1>8. CASE context' = "err" /\ cliPc' = "exited" /\ UNCHANGED <<config, caller, odd>>
    <2>1. cliPc' \in {"exited", "crashed"} /\ cliPc' # "crashed" /\ context' \in {context, "err"} BY <1>8
    <2> QED BY <1>2, <1>3, <1>8, <2>1, Ends, Zenon
  <1>9. \/ /\ config' = [config EXCEPT !.blocking_state_aborted = FALSE, !.monitor_mode = FALSE, !.pubsub_mode = FALSE]
           /\ cliPc' = "connect" /\ caller' = "read" /\ UNCHANGED context
           /\ odd' = IF command.loop = "plain" THEN odd \cup {"late"} ELSE odd
        \/ /\ config.shutdown /\ context' = "NULL" /\ cliPc' = "readOk" /\ odd' = odd \cup {"dropped"}
           /\ UNCHANGED <<config, caller>>
        \/ context' = "err" /\ cliPc' \in {"readFailed", "exited"} /\ UNCHANGED <<config, caller, odd>>
    BY Zenon DEF ReadFails
  <1> QED BY <1>5, <1>6, <1>7, <1>8, <1>9, Zenon

LEMMA ReadNullStep ==
  ASSUME CliInv, ReadNull
  PROVE  CliInv'
PROOF
  <1>1. /\ cliPc = "read" /\ context = "NULL" /\ cliPc' \in {"exited", "crashed"} /\ context' \in {context, "err"}
        /\ UNCHANGED <<config, context, remote, replies, command, caller, odd, bounds>>
    BY DEF ReadNull
  <1>2. config.shutdown /\ odd # {} BY <1>1 DEF CliInv, Contexts
  <1> QED BY <1>1, <1>2, AtRest, Ends, Zenon

LEMMA ReadFailedStep ==
  ASSUME CliInv, ReadFailed
  PROVE  CliInv'
PROOF
  <1>1. cliPc = "readFailed" /\ UNCHANGED <<config, remote, replies, command, caller, bounds>> BY Zenon DEF ReadFailed
  <1>2. CASE command.loop = "plain" /\ Drop(config) /\ cliPc' = "repl"
    <2>1. ~ config.monitor_mode /\ ~ config.pubsub_mode /\ ~ config.slave_mode
      BY <1>1, <1>2 DEF CliInv, Modes, InMode
    <2>2. cliPc \notin {"connect", "auth", "select", "hello", "repl", "exited", "crashed"} BY <1>1
    <2>3. config' \in Config /\ Fields(config', config.in_multi, config.dbnum, config.pre_multi_dbnum)
      BY <1>1, AtRest, Zenon DEF Fields
    <2> QED BY <1>1, <1>2, <2>1, <2>2, <2>3, Drops, Zenon
  <1>3. CASE cliPc' = "exited" /\ UNCHANGED <<context, odd>>
    <2>1. cliPc' \in {"exited", "crashed"} /\ cliPc' # "crashed" /\ context' \in {context, "err"} BY <1>3
    <2> QED BY <1>1, <1>3, <2>1, AtRest, Ends, Zenon
  <1> QED BY <1>2, <1>3, Zenon DEF ReadFailed

\* A mode goes on, or ends with its last reply.
LEMMA ModeReadOk ==
  ASSUME CliInv, cliPc = "readOk", command.loop # "plain", UNCHANGED <<context, remote, replies, command, caller, odd>>,
         config' \in Config, Fields(config', config.in_multi, config.dbnum, config.pre_multi_dbnum),
         config'.shutdown = config.shutdown, config'.slave_mode = config.slave_mode,
         config'.monitor_mode => config.monitor_mode, config'.pubsub_mode => config.pubsub_mode,
         \/ /\ cliPc' = "read" /\ ModeOf(command.loop)' /\ ModeOf(command.loop) /\ config.last_cmd_type # "error"
         \/ /\ cliPc' \in {"issue", "repl"} \cup (IF command.loop = "pubsub" THEN {"loop"} ELSE {})
            /\ ~ ModeOf(command.loop)' /\ ~ (ModeOf(command.loop) /\ config.last_cmd_type # "error")
  PROVE  CliInv'
PROOF
  <1>1. Types /\ Modes /\ Contexts /\ Answered /\ Believed BY Zenon DEF CliInv
  <1>2. command.count # 0 /\ command.loop \in Loops BY AtRest DEF Command
  <1>3. /\ ~ config'.slave_mode
        /\ config'.monitor_mode => command.cmd = "monitor"
        /\ config'.pubsub_mode => command.cmd = "subscribe"
        /\ command.loop = "monitor" => command.cmd = "monitor"
        /\ command.loop = "pubsub" => command.cmd = "subscribe"
    BY <1>1 DEF Modes
  <1>4. cliPc' # "read" => ~ config'.monitor_mode /\ ~ config'.pubsub_mode BY <1>2, <1>3 DEF ModeOf, Loops
  <1>5. cliPc' \in {"read", "issue", "repl", "loop"} /\ (cliPc' = "loop" => command.cmd # "monitor") BY <1>3
  <1>6. Types' BY <1>1, <1>2, <1>5 DEF Types, Place
  <1>7. Modes' 
    <2>1. /\ cliPc' \notin Connecting /\ cliPc' # "readOk" /\ cliPc' # "readFailed" /\ cliPc' # "next" /\ cliPc' # "select"
          /\ cliPc' \notin {"connect", "auth", "hello"}
          /\ cliPc' \in {"read", "readOk", "readFailed"} => cliPc' = "read"
          /\ cliPc' = "read" => cliPc' \in {"loop", "read", "readOk", "readFailed", "exited", "crashed"}
          /\ cliPc' = "read" => ModeOf(command.loop)' /\ cliPc' # "loop"
      BY <1>5 DEF Connecting
    <2> QED BY <1>3, <1>4, <1>5, <2>1, Zenon DEF Modes, InMode, ModeOf
  <1>8. Contexts'
    <2>1. ~ config.shutdown \/ odd = {} => context # "NULL" BY <1>1 DEF Contexts
    <2>2. cliPc' # "crashed" BY <1>5
    <2> QED BY <2>1, <2>2, Zenon DEF Contexts
  <1>9. Answered'
    <2>1. ASSUME context = "up", "subscribed" \notin odd
          PROVE  IF ModeOf(command.loop) /\ config.last_cmd_type # "error"
                 THEN Feeding({<< >>}) ELSE replies = << >> /\ ~ remote.feed
      BY <1>1, <2>1, Zenon DEF Answered, Quiet
    <2>2. Feeding({<< >>}) => Feeding({<< >>, <<"error">>, <<"status">>}) BY DEF Feeding
    <2>3. Feeding({<< >>, <<"error">>, <<"status">>}) => Feeding({<< >>, <<"error">>, <<"status">>})' BY Zenon DEF Feeding
    <2>4. cliPc' # "readOk" /\ (cliPc' = "read" => cliPc' \notin Settled) BY <1>5 DEF Settled
    <2> QED BY <2>1, <2>2, <2>3, <2>4, Zenon DEF Answered, Quiet
  <1>10. Believed'
    <2>1. cliPc \in {"read", "readOk"} OBVIOUS
    <2>2. odd = {} /\ context = "up" => Agrees(config, remote) BY <1>1, <2>1, Zenon DEF Believed
    <2>3. odd = {} /\ context = "up" => Agrees(config', remote) BY <2>2, Zenon DEF Fields, Agrees
    <2>4. cliPc' \notin Connecting BY <1>5 DEF Connecting
    <2>5. odd = {} => context # "NULL" BY <1>1 DEF Contexts
    <2> QED BY <2>3, <2>4, <2>5, Zenon DEF Believed
  <1> QED BY <1>6, <1>7, <1>8, <1>9, <1>10, Zenon DEF CliInv

LEMMA ReadOkStep ==
  ASSUME CliInv, ReadOk
  PROVE  CliInv'
PROOF
  <1>1. Types /\ Modes /\ Contexts /\ Answered /\ Believed BY Zenon DEF CliInv
  <1>2. cliPc = "readOk" /\ UNCHANGED <<context, remote, replies, command, odd, bounds>> BY Zenon DEF ReadOk
  <1>3. config \in Config /\ command.count # 0 /\ remote \in Remote BY <1>2, AtRest
  <1>4. config.monitor_mode \in BOOLEAN /\ config.pubsub_mode \in BOOLEAN BY <1>3 DEF Config
  <1>5. CASE /\ command.loop = "monitor" /\ UNCHANGED caller
             /\ config' = [config EXCEPT !.monitor_mode = @ /\ ~ (config.last_cmd_type = "error")]
             /\ cliPc' = IF config'.monitor_mode THEN "read" ELSE Issued(config)
    <2>1. /\ config' \in Config /\ Fields(config', config.in_multi, config.dbnum, config.pre_multi_dbnum)
          /\ config'.shutdown = config.shutdown /\ config'.slave_mode = config.slave_mode
          /\ config'.monitor_mode = (config.monitor_mode /\ config.last_cmd_type # "error")
          /\ config'.pubsub_mode = config.pubsub_mode
      BY <1>3, <1>4, <1>5, Zenon DEF Config, Fields
    <2>2. Issued(config) \in {"issue", "repl"} BY DEF Issued
    <2>3. ModeOf(command.loop) = config.monitor_mode /\ ModeOf(command.loop)' = config'.monitor_mode
      BY <1>2, <1>5 DEF ModeOf
    <2>4. \/ /\ cliPc' = "read" /\ ModeOf(command.loop)' /\ ModeOf(command.loop) /\ config.last_cmd_type # "error"
          \/ /\ cliPc' \in {"issue", "repl"} \cup (IF command.loop = "pubsub" THEN {"loop"} ELSE {})
             /\ ~ ModeOf(command.loop)' /\ ~ (ModeOf(command.loop) /\ config.last_cmd_type # "error")
      BY <1>5, <2>1, <2>2, <2>3, Zenon
    <2>5. command.loop # "plain" BY <1>5
    <2> QED BY <1>2, <1>5, <2>1, <2>4, <2>5, ModeReadOk, Zenon
  <1>6. CASE /\ command.loop = "pubsub" /\ UNCHANGED caller
             /\ config' = [config EXCEPT !.pubsub_mode = @ /\ ~ (config.last_cmd_type = "error")]
             /\ cliPc' = IF config'.pubsub_mode THEN "read" ELSE "loop"
    <2>1. /\ config' \in Config /\ Fields(config', config.in_multi, config.dbnum, config.pre_multi_dbnum)
          /\ config'.shutdown = config.shutdown /\ config'.slave_mode = config.slave_mode
          /\ config'.pubsub_mode = (config.pubsub_mode /\ config.last_cmd_type # "error")
          /\ config'.monitor_mode = config.monitor_mode
      BY <1>3, <1>4, <1>6, Zenon DEF Config, Fields
    <2>2. ModeOf(command.loop) = config.pubsub_mode /\ ModeOf(command.loop)' = config'.pubsub_mode
      BY <1>2, <1>6 DEF ModeOf
    <2>3. \/ /\ cliPc' = "read" /\ ModeOf(command.loop)' /\ ModeOf(command.loop) /\ config.last_cmd_type # "error"
          \/ /\ cliPc' \in {"issue", "repl"} \cup (IF command.loop = "pubsub" THEN {"loop"} ELSE {})
             /\ ~ ModeOf(command.loop)' /\ ~ (ModeOf(command.loop) /\ config.last_cmd_type # "error")
      BY <1>6, <2>1, <2>2, Zenon
    <2>4. command.loop # "plain" BY <1>6
    <2> QED BY <1>2, <1>6, <2>1, <2>3, <2>4, ModeReadOk, Zenon
  <1>7. CASE /\ command.loop = "plain" /\ config' = Learnt(config, command.cmd)
             /\ \/ cliPc' = "select" /\ caller' = "auth"
                \/ cliPc' = "next" /\ UNCHANGED caller
    <2>1. ~ config.monitor_mode /\ ~ config.pubsub_mode /\ ~ config.slave_mode /\ command.cmd # "monitor"
      BY <1>1, <1>2, <1>7 DEF Modes, InMode
    <2>2. /\ config' \in Config /\ config'.shutdown = config.shutdown
          /\ ~ config'.monitor_mode /\ ~ config'.pubsub_mode /\ ~ config'.slave_mode
      BY <1>3, <1>7, <2>1, LearntOK, Zenon
    <2>3. Types' BY <1>1, <1>2, <1>3, <1>7, <2>2, Zenon DEF Types, Place
    <2>4. Modes' BY <1>1, <1>2, <1>7, <2>1, <2>2 DEF Modes, InMode, Connecting
    <2>5. Contexts'
      <3>1. ~ config.shutdown \/ odd = {} => context # "NULL" BY <1>1, <1>2 DEF Contexts
      <3>2. cliPc' # "crashed" BY <1>7
      <3> QED BY <1>2, <2>2, <3>1, <3>2, Zenon DEF Contexts
    <2>6. Answered'
      <3>1. context = "up" /\ "subscribed" \notin odd => replies = << >> /\ ~ remote.feed
        BY <1>1, <1>2, <1>7, Zenon DEF Answered, Quiet
      <3>2. cliPc' # "read" /\ cliPc' # "readOk" BY <1>7
      <3> QED BY <1>2, <3>1, <3>2, Zenon DEF Answered, Quiet
    <2>7. Believed'
      <3>1. context = "up" /\ odd = {} => Agrees(config', remote) BY <1>1, <1>2, <1>7, Zenon DEF Believed
      <3>2. odd = {} => context # "NULL" BY <1>1, <1>2 DEF Contexts
      <3>3. /\ cliPc' # "read" /\ cliPc' # "readOk" /\ cliPc' \notin {"read", "readOk"}
            /\ cliPc' \in Connecting => caller' # "read"
        BY <1>7 DEF Connecting
      <3> QED BY <1>2, <3>1, <3>2, <3>3, Zenon DEF Believed
    <2> QED BY <2>3, <2>4, <2>5, <2>6, <2>7, Zenon DEF CliInv
  <1> QED BY <1>5, <1>6, <1>7, Zenon DEF ReadOk

-----------------------------------------------------------------------------
(* What happens to the program                                             *)

LEMMA InterruptStep ==
  ASSUME CliInv, sigIntHandler
  PROVE  CliInv'
PROOF
  <1>1. Types /\ Modes /\ Contexts /\ Answered /\ Believed BY Zenon DEF CliInv
  <1>2. UNCHANGED <<remote, replies, command, caller, odd>> BY Zenon DEF sigIntHandler
  <1>3. CASE ~ InMode /\ cliPc' = "exited" /\ UNCHANGED <<config, context>>
    <2>1. cliPc' \in {"exited", "crashed"} /\ cliPc' # "crashed" /\ context' \in {context, "err"} BY <1>3
    <2> QED BY <1>2, <1>3, <2>1, AtRest, Ends, Zenon
  <1>4. CASE InMode /\ context = "NULL" /\ cliPc' = "crashed" /\ UNCHANGED <<config, context>>
    <2>1. cliPc' \in {"exited", "crashed"} /\ context' \in {context, "err"} BY <1>4
    <2>2. config.shutdown /\ odd # {} BY <1>1, <1>4, Zenon DEF Contexts
    <2> QED BY <1>2, <1>4, <2>1, <2>2, AtRest, Ends, Zenon
  <1>5. CASE /\ context' = "closed" /\ UNCHANGED cliPc
             /\ config' = [config EXCEPT !.blocking_state_aborted = TRUE] /\ context # "NULL"
    <2>1. config \in Config BY AtRest, Zenon
    <2>2. config' \in Config /\ Same(config', config) BY <1>5, <2>1, Zenon DEF Config, Same, Fields
    <2>3. Types' BY <1>1, <1>2, <1>5, <2>2 DEF Types
    <2>4. /\ config'.monitor_mode = config.monitor_mode /\ config'.pubsub_mode = config.pubsub_mode
          /\ config'.slave_mode = config.slave_mode /\ config'.shutdown = config.shutdown
          /\ config'.dbnum = config.dbnum /\ config'.in_multi = config.in_multi
      BY <2>2, Zenon DEF Same, Fields
    <2>5. Modes'
      <3>1. InMode' = InMode /\ ModeOf(command.loop)' = ModeOf(command.loop)
        BY <1>2, <2>4, Zenon DEF InMode, ModeOf
      <3> QED BY <1>1, <1>2, <1>5, <2>4, <3>1, Zenon DEF Modes
    <2>6. context' # "up" /\ context' # "NULL" BY <1>5
    <2>7. Contexts' BY <1>1, <1>2, <1>5, <2>4, <2>6, Zenon DEF Contexts
    <2>8. Answered' BY <2>6, Zenon DEF Answered
    <2>9. Believed' BY <1>1, <1>2, <1>5, <2>6, Zenon DEF Believed
    <2> QED BY <2>3, <2>5, <2>7, <2>8, <2>9, Zenon DEF CliInv
  <1> QED BY <1>3, <1>4, <1>5, Zenon DEF sigIntHandler, InMode

LEMMA LostStep ==
  ASSUME CliInv, PeerLost
  PROVE  CliInv'
PROOF
  <1>1. Types /\ Modes /\ Contexts /\ Believed BY Zenon DEF CliInv
  <1>2. context' = "lost" /\ UNCHANGED <<config, remote, replies, command, cliPc, caller, odd>> BY Zenon DEF PeerLost
  <1>3. context' # "up" /\ context' # "NULL" /\ context' \in {"NULL", "up", "lost", "closed", "err"} BY <1>2
  <1>4. Types' BY <1>1, <1>2, <1>3, Zenon DEF Types
  <1>5. Modes' BY <1>1, <1>2, Zenon DEF Modes, InMode, ModeOf
  <1>6. Contexts' BY <1>1, <1>2, <1>3, Zenon DEF Contexts
  <1>7. Answered' BY <1>3, Zenon DEF Answered
  <1>8. Believed' BY <1>1, <1>2, <1>3, Zenon DEF Believed
  <1> QED BY <1>4, <1>5, <1>6, <1>7, <1>8, Zenon DEF CliInv

\* Messages are pushed only to a connection in a mode.
LEMMA PushedStep ==
  ASSUME CliInv, Pushed
  PROVE  CliInv'
PROOF
  <1>1. Types /\ Modes /\ Contexts /\ Answered /\ Believed BY Zenon DEF CliInv
  <1>2. /\ context = "up" /\ remote.feed /\ replies' = Append(replies, "status")
        /\ UNCHANGED <<config, context, remote, command, cliPc, caller, odd>>
    BY Zenon DEF Pushed
  <1>3. replies \in Seq(Type) /\ "status" \in Type BY AtRest DEF Type
  <1>4. replies' \in Seq(Type) BY <1>2, <1>3
  <1>5. Types' BY <1>1, <1>2, <1>4, Zenon DEF Types
  <1>6. Modes' BY <1>1, <1>2, Zenon DEF Modes, InMode, ModeOf
  <1>7. Contexts' BY <1>1, <1>2, Zenon DEF Contexts, InMode
  <1>8. ASSUME "subscribed" \notin odd
        PROVE  /\ cliPc \notin Settled
               /\ cliPc \in {"read", "readOk"} => command.loop # "plain"
               /\ cliPc = "readOk" => ModeOf(command.loop) /\ config.last_cmd_type # "error"
               /\ cliPc \in {"read", "readOk"} => \A i \in 1..Len(replies) : replies[i] = "status"
    BY <1>1, <1>2, <1>8, Zenon DEF Answered, Quiet, Feeding
  <1>9. (\A i \in 1..Len(replies) : replies[i] = "status") => \A i \in 1..Len(replies') : replies'[i] = "status"
    BY <1>2, <1>3
  <1>10. Answered'
    <2>1. cliPc = "read" \/ cliPc = "readOk" <=> cliPc \in {"read", "readOk"} OBVIOUS
    <2> QED BY <1>2, <1>8, <1>9, <2>1, Zenon DEF Answered, Quiet, Feeding, ModeOf
  <1>11. Believed'
    <2>1. odd = {} => "subscribed" \notin odd OBVIOUS
    <2>2. cliPc = "read" \/ cliPc = "readOk" <=> cliPc \in {"read", "readOk"} OBVIOUS
    <2> QED BY <1>1, <1>2, <1>8, <2>1, <2>2, Zenon DEF Believed
  <1> QED BY <1>5, <1>6, <1>7, <1>10, <1>11, Zenon DEF CliInv

LEMMA StartsSound == CliInit => CliInv
PROOF
  <1> SUFFICES ASSUME CliInit PROVE CliInv OBVIOUS
  <1>1. PICK o \in CliOptions :
          config = [dbnum |-> 0, input_dbnum |-> o.n, in_multi |-> FALSE, pre_multi_dbnum |-> 0,
                    auth |-> o.auth, resp3 |-> o.resp3, cluster_mode |-> o.cluster_mode,
                    cluster_reissue_command |-> FALSE, cluster_send_asking |-> FALSE,
                    shutdown |-> FALSE, monitor_mode |-> FALSE, pubsub_mode |-> FALSE,
                    slave_mode |-> FALSE, blocking_state_aborted |-> FALSE, last_cmd_type |-> "none"]
    BY Zenon DEF CliInit
  <1>2. /\ context = "NULL" /\ remote = Fresh /\ replies = << >> /\ odd = {}
        /\ command = [cmd |-> "none", count |-> 0, repeat |-> 0, loop |-> "plain"]
        /\ cliPc = "connect" /\ caller = "repl"
    BY Zenon DEF CliInit
  <1>3. o.n \in {0, 1, 9} /\ o.auth \in BOOLEAN /\ o.resp3 \in 0..2 /\ o.cluster_mode \in BOOLEAN
    <2>1. o \in [n : {0, 1, 9}, auth : BOOLEAN, resp3 : 0..2, cluster_mode : BOOLEAN] BY CliAssumption, Zenon
    <2> QED BY <2>1
  <1>4. /\ config \in Config /\ ~ config.monitor_mode /\ ~ config.pubsub_mode /\ ~ config.slave_mode
        /\ config.dbnum = 0 /\ ~ config.in_multi
    <2>1. 0 \in Number /\ o.n \in Number BY <1>3 DEF Number
    <2> QED BY <1>1, <1>3, <2>1 DEF Config
  <1>5. Types
    <2>1. remote \in Remote BY <1>2 DEF Fresh, Remote, Databases
    <2>2. command \in Command /\ command.repeat <= command.count /\ command.count = 0 BY <1>2 DEF Command, Loops
    <2>3. replies \in Seq(Type) BY <1>2
    <2> QED BY <1>2, <1>4, <2>1, <2>2, <2>3 DEF Types, Place
  <1>6. Modes BY <1>2, <1>4 DEF Modes, InMode, Connecting
  <1>7. Contexts BY <1>2, <1>4 DEF Contexts, InMode
  <1>8. Answered BY <1>2 DEF Answered
  <1>9. Believed
    <2>1. caller # "read" /\ context # "up" BY <1>2
    <2> QED BY <1>4, <2>1, Zenon DEF Believed
  <1> QED BY <1>5, <1>6, <1>7, <1>8, <1>9, Zenon DEF CliInv

LEMMA StepsSound == CliInv /\ [CliNext]_clivars => CliInv'
PROOF
  <1> SUFFICES ASSUME CliInv, [CliNext]_clivars PROVE CliInv' OBVIOUS
  <1>1. ASSUME CliStep PROVE CliInv'
    BY <1>1, ConnectStep, AuthStep, SelectStep, HelloStep, IssueStep, AskingStep, SendStep, AppendStep,
       ReplyReadStep, ReadFailsStep, ReadNullStep, ReadOkStep, NextStep, ReadFailedStep, Zenon DEF CliStep
  <1>2. CASE UNCHANGED clivars
    <2>1. UNCHANGED <<config, context, remote, replies, command, cliPc, caller, odd>> BY <1>2, Zenon DEF clivars
    <2>2. Types' /\ Contexts' BY <2>1, Zenon DEF CliInv, Types, Contexts, InMode
    <2>3. Modes' BY <2>1, Zenon DEF CliInv, Modes, InMode, ModeOf
    <2>4. Answered' BY <2>1, Zenon DEF CliInv, Answered, Quiet, Feeding, ModeOf
    <2>5. Believed' BY <2>1, Zenon DEF CliInv, Believed
    <2> QED BY <2>2, <2>3, <2>4, <2>5, Zenon DEF CliInv
  <1> QED BY <1>1, <1>2, ReplStep, InterruptStep, LostStep, PushedStep, Zenon DEF CliNext

LEMMA InvSound == CliInv => SessionSound
PROOF
  <1> SUFFICES ASSUME CliInv PROVE SessionSound OBVIOUS
  <1>1. Types /\ Contexts /\ Answered /\ Believed BY Zenon DEF CliInv
  <1>2. CliTypeOK
    <2>1. config.dbnum \in {0, 1, 9} /\ config.last_cmd_type \in {"none", "status", "error", "nil"}
      BY <1>1 DEF Types, Config, Number
    <2>2. command.count \in {0} \cup Repeats /\ command.repeat \in Nat BY <1>1 DEF Types, Command
    <2>3. command.repeat \in 0..command.count
      <3>1. Repeats \subseteq Nat BY CliAssumption, Zenon
      <3>2. 0 \in Nat OBVIOUS
      <3>3. command.count \in Nat BY <2>2, <3>1, <3>2, Zenon
      <3>4. command.repeat <= command.count BY <1>1, Zenon DEF Types
      <3> QED BY <2>2, <3>3, <3>4
    <2> QED BY <1>1, <2>1, <2>2, <2>3, Zenon DEF CliTypeOK, Types, Oddities
  <1>3. cliPc = "repl" => cliPc \in Settled BY DEF Settled
  <1>4. PromptTrue BY <1>1, <1>3, Zenon DEF PromptTrue, AtPrompt, Believed, Agrees
  <1>5. InStep BY <1>1, <1>3, Zenon DEF InStep, AtPrompt, Answered, Quiet
  <1>6. NoNullContext BY <1>1, Zenon DEF NoNullContext, Contexts
  <1> QED BY <1>2, <1>4, <1>5, <1>6, Zenon DEF SessionSound

\* Whatever commands are typed, however often each is repeated, whatever the server answers
\* and whenever the connection breaks, a message is pushed or Ctrl-C is pressed, redis-cli's
\* prompt shows the database and the transaction of its connection, no reply is left for the
\* next command, and no context that was freed is used before a SHUTDOWN, but for the cases
\* SessionSound names.
THEOREM AlwaysSessionSound == CliSpec => []SessionSound
PROOF
  <1>1. CliSpec => []CliInv BY StartsSound, StepsSound, PTL DEF CliSpec
  <1> QED BY <1>1, InvSound, PTL
=============================================================================
