------------------------------ MODULE Dialler ------------------------------
(***************************************************************************)
(* testgoroutine.go: main reads a list of links, starts a goroutine per    *)
(* host that dials it, collects one result per host from an unbuffered     *)
(* channel, sorts the hosts that answered by their delay and prints them.  *)
(***************************************************************************)
EXTENDS Integers, Sequences, FiniteSets

CONSTANTS
    Links,          \* the possible contents of the file: sequences of link kinds
    Delays          \* the delays measured, in some unit

LinkKind == {"wrong", "ip", "host"}
ASSUME DialAssumption == Delays \subseteq Nat /\ \A l \in Links : l \in Seq(LinkKind)

VARIABLES
    file,           \* the lines of the file, by kind
    main,           \* where main is
    worker,         \* per host: "dial", "send" or "done"
    delay,          \* per host: what pingHost returned, -1 for an error
    received,       \* results received by main
    ipTimes         \* the hosts that answered

dialvars == <<file, main, worker, delay, received, ipTimes>>

\* readHostsFromFile keeps the links that parse and name no address.
Hosts(f) == {i \in DOMAIN f : f[i] = "host"}

DialInit ==
    /\ file \in Links /\ main = "read"
    /\ worker = [h \in {} |-> ""] /\ delay = [h \in {} |-> 0]
    /\ received = 0 /\ ipTimes = <<>>

\* The file cannot be read, or it can and every host gets its goroutine.
startDialling ==
    /\ main = "read"
    /\ \/ main' = "exit" /\ UNCHANGED <<worker, delay>>
       \/ /\ main' = "collect"
          /\ worker' = [h \in Hosts(file) |-> "dial"]
          /\ delay' = [h \in Hosts(file) |-> 0]
    /\ UNCHANGED <<file, received, ipTimes>>

\* DialTimeout returns after two seconds at the latest.
pingHost(h) ==
    /\ worker[h] = "dial"
    /\ \E d \in Delays \cup {-1} : delay' = [delay EXCEPT ![h] = d]
    /\ worker' = [worker EXCEPT ![h] = "send"]
    /\ UNCHANGED <<file, main, received, ipTimes>>

\* Only hosts that answered are counted.
receiveCounted(h) ==
    /\ worker[h] = "send" /\ main = "collect"
    /\ received < Cardinality(Hosts(file))
    /\ worker' = [worker EXCEPT ![h] = "done"]
    /\ received' = IF delay[h] = -1 THEN received ELSE received + 1
    /\ ipTimes' = IF delay[h] = -1 THEN ipTimes ELSE Append(ipTimes, h)
    /\ UNCHANGED <<file, main, delay>>

\* ch <- result meets result := <-ch.
receive(h) ==
    /\ worker[h] = "send" /\ main = "collect"
    /\ received < Cardinality(Hosts(file))
    /\ worker' = [worker EXCEPT ![h] = "done"]
    /\ received' = received + 1
    /\ ipTimes' = IF delay[h] = -1 THEN ipTimes ELSE Append(ipTimes, h)
    /\ UNCHANGED <<file, main, delay>>

ByDelay(s) == \A i, j \in DOMAIN s : i < j => delay[s[i]] <= delay[s[j]]

\* sort.Slice, which keeps no order among equals, and the printing.
sortAndPrint ==
    /\ main = "collect" /\ received = Cardinality(Hosts(file))
    /\ \E p \in [DOMAIN ipTimes -> DOMAIN ipTimes] :
         /\ \A i, j \in DOMAIN p : p[i] = p[j] => i = j
         /\ LET s == [i \in DOMAIN ipTimes |-> ipTimes[p[i]]] IN
              ByDelay(s) /\ ipTimes' = s
    /\ main' = "exit"
    /\ UNCHANGED <<file, worker, delay, received>>

DialNext == startDialling \/ sortAndPrint \/ \E h \in DOMAIN worker : pingHost(h) \/ receive(h)
-----------------------------------------------------------------------------
(* Properties.                                                             *)

\* When main ends, no goroutine is left waiting on the channel, and the list is
\* every host that answered, once, the quickest first.
AllCollected ==
    main = "exit" =>
      /\ \A h \in DOMAIN worker : worker[h] = "done"
      /\ ByDelay(ipTimes)
      /\ \A h \in DOMAIN worker :
           Cardinality({i \in DOMAIN ipTimes : ipTimes[i] = h}) = (IF delay[h] = -1 THEN 0 ELSE 1)

\* main ends, whatever the hosts do, with everything collected.
DialEnds == <>(main = "exit") /\ []AllCollected
=============================================================================
