------------------------------ MODULE MergedStore ------------------------------
(***************************************************************************)
(* Several hosts that serve one service together: mergeLoadBalancers       *)
(* (traefik_kop.go) composed with the stores of all hosts.                 *)
(*                                                                         *)
(* With the label kop.merge-lbs the handler reads the servers of a service *)
(* from Redis, adds those of its own containers and stores the union.  It  *)
(* reads with Gets, one command at a time and without the mutex, so the    *)
(* other hosts and its own renewals go on between what it reads and what   *)
(* it writes.                                                              *)
(***************************************************************************)
EXTENDS RedisStore

CONSTANTS
    MergeName,  \* the names of services with the label kop.merge-lbs
    ServerSeq,  \* the fields of ServerField by their index in the list of servers
    NoMerge,    \* the handler is not merging
    MaxChanges  \* bound on the number of configurations the handlers are given

ASSUME MergeAssumption ==
    /\ MergeName \subseteq Name
    /\ ServerField = {ServerSeq[i] : i \in DOMAIN ServerSeq}
    /\ \A i, j \in DOMAIN ServerSeq : ServerSeq[i] = ServerSeq[j] => i = j
    /\ MaxChanges \in Nat

\* Servers are numbered without a bound: there are fields for every list of
\* addresses, and keys for every field.
ASSUME ServerAssumption ==
    /\ \A S \in SUBSET (Value \cup {Absent}) : 1..Cardinality(S) \subseteq DOMAIN ServerSeq
    /\ \A c \in ServiceCat, n \in MergeName, f \in ServerField :
          [cat |-> c, name |-> n, field |-> f] \in Key

VARIABLES
    own,        \* the configuration of each host's containers, as last handed over
    merge,      \* what each handler has merged so far
    changes     \* the number of configurations handed over so far

mergeVars == <<own, merge, changes>>
allVars == <<vars, mergeVars>>

\* The addresses that a configuration has for service n of category c.
Servers(conf, c, n) ==
    {conf[k] : k \in {j \in Key : j.cat = c /\ j.name = n /\ j.field \in ServerField}} \ {Absent}

\* The services of a configuration that have the label.
ToMerge(conf) == {s \in ServiceCat \X MergeName : s[2] \in Names(conf, s[1])}

\* conf with the addresses in list as the servers of service s.  An empty
\* address (a key that was gone when it was read) takes an index but no key.
WithServers(conf, s, list) ==
    [k \in Entry |->
        IF k \in Key /\ k.cat = s[1] /\ k.name = s[2] /\ k.field \in ServerField
          THEN IF \E i \in DOMAIN list : ServerSeq[i] = k.field
                 THEN list[CHOOSE i \in DOMAIN list : ServerSeq[i] = k.field]
                 ELSE Absent
          ELSE conf[k]]

\* The lists of all elements of S, each of them once: Go's map order.
Arrangements(S) ==
    {list \in [1..Cardinality(S) -> S] : \A v \in S : \E i \in DOMAIN list : list[i] = v}

-------------------------------------------------------------------------------
MergeInit ==
    /\ Init
    /\ own = [x \in Host |-> NoConf]
    /\ merge = [g \in Handler |-> NoMerge]
    /\ changes = 0

\* The watcher hands the handler a configuration other than the last one.
Receive(g) ==
    /\ pc[g] = "idle"
    /\ merge[g] = NoMerge
    /\ changes < MaxChanges
    /\ \E conf \in Confs[HostOf[g]] \ {own[HostOf[g]]} :
          /\ own' = [own EXCEPT ![HostOf[g]] = conf]
          /\ merge' = [merge EXCEPT ![g] =
                [conf |-> conf, todo |-> ToMerge(conf), at |-> NoMerge, left |-> {}, got |-> {}]]
    /\ changes' = changes + 1
    /\ UNCHANGED vars

\* Mutant: the configuration is stored without a look at Redis.
SkipGets(g) ==
    /\ merge[g] # NoMerge
    /\ merge[g].at = NoMerge
    /\ \E s \in merge[g].todo : merge' = [merge EXCEPT ![g].todo = @ \ {s}]
    /\ UNCHANGED <<vars, own, changes>>

\* Gets: KEYS of the servers of the next service.  When there are none, or the
\* command fails, the service keeps the servers it has.
GetsKeys(g) ==
    /\ merge[g] # NoMerge
    /\ merge[g].at = NoMerge
    /\ \E s \in merge[g].todo :
          LET keys == ServerKeysOf(s[1], s[2])
              passed == [merge[g] EXCEPT !.todo = @ \ {s}]
          IN  \/ /\ NoFault
                 /\ merge' = [merge EXCEPT ![g] =
                       IF keys = {} THEN passed ELSE [passed EXCEPT !.at = s, !.left = keys]]
              \/ /\ Faulty("error")
                 /\ merge' = [merge EXCEPT ![g] = passed]
    /\ UNCHANGED <<redis, mu, lastConfig, local, arg, own, changes>>

\* Gets: GET of one of the keys found.  A key that has gone since reads as "";
\* an error drops what was read.
GetsValue(g) ==
    /\ merge[g] # NoMerge
    /\ \E k \in merge[g].left :
          \/ /\ NoFault
             /\ merge' = [merge EXCEPT ![g].left = @ \ {k}, ![g].got = @ \cup {kv[k]}]
          \/ /\ Faulty("error")
             /\ merge' = [merge EXCEPT ![g].at = NoMerge, ![g].left = {}, ![g].got = {}]
    /\ UNCHANGED <<redis, mu, lastConfig, local, arg, own, changes>>

\* Mutant: the servers become those read.
MergeServersRead(g) ==
    /\ merge[g] # NoMerge
    /\ merge[g].at # NoMerge
    /\ merge[g].left = {}
    /\ \E list \in Arrangements(merge[g].got) :
          merge' = [merge EXCEPT ![g].conf = WithServers(@, merge[g].at, list), ![g].at = NoMerge, ![g].got = {}]
    /\ UNCHANGED <<vars, own, changes>>

\* All values are read: the servers become those read and the host's own.
MergeServers(g) ==
    /\ merge[g] # NoMerge
    /\ merge[g].at # NoMerge
    /\ merge[g].left = {}
    /\ LET s == merge[g].at
           all == merge[g].got \cup Servers(merge[g].conf, s[1], s[2])
       IN  \E list \in Arrangements(all) :
              merge' = [merge EXCEPT ![g].conf = WithServers(@, s, list), ![g].at = NoMerge, ![g].got = {}]
    /\ UNCHANGED <<vars, own, changes>>

\* The handler calls Store with what it has merged.
StoreMerged(g) ==
    /\ merge[g] # NoMerge
    /\ merge[g].at = NoMerge
    /\ merge[g].todo = {}
    /\ StoreCall(g, merge[g].conf)
    /\ merge' = [merge EXCEPT ![g] = NoMerge]
    /\ UNCHANGED <<own, changes>>

\* The process of host x dies and forgets its merge, too.
MergeCrash(x) ==
    /\ Crash(x)
    /\ own' = [own EXCEPT ![x] = NoConf]
    /\ merge' = [g \in Handler |-> IF HostOf[g] = x THEN NoMerge ELSE merge[g]]
    /\ UNCHANGED changes

Merging(g) == GetsKeys(g) \/ GetsValue(g) \/ MergeServers(g)

MergeNext ==
    \/ \E g \in Handler : Receive(g) \/ Merging(g) \/ StoreMerged(g)
    \/ \E g \in Goroutine : (KeepLock(g) \/ Work(g)) /\ UNCHANGED mergeVars
    \/ (Flush \/ ExpireEarly \/ \E k \in Key : Lapse(k)) /\ UNCHANGED mergeVars
    \/ \E x \in Host : MergeCrash(x)

MergeSpec == MergeInit /\ [][MergeNext]_allVars

\* As in RedisStore; a handler that waits for the mutex gets it in the end, also
\* when the renewers take it again and again (sync.Mutex does not starve).
MergeFairSpec ==
    /\ MergeSpec
    /\ \A g \in Goroutine : WF_allVars(Work(g) /\ UNCHANGED mergeVars)
    /\ \A g \in Goroutine : WF_allVars(KeepLock(g) /\ UNCHANGED mergeVars)
    /\ \A g \in Handler : WF_allVars(Merging(g)) /\ SF_allVars(StoreMerged(g))
    /\ \A k \in Key : WF_allVars(Lapse(k) /\ UNCHANGED mergeVars)

-------------------------------------------------------------------------------
(***************************************************************************)
(* Properties.                                                             *)
(***************************************************************************)

\* The goroutine is between what it read and the end of its Store.
Busy(g) == pc[g] \in Storing \/ (g \in Handler /\ merge[g] # NoMerge)

\* Every server of every host's own containers is in Redis.
AllServed ==
    \A x \in Host : own[x] # NoConf =>
        \A c \in ServiceCat, n \in Name : Servers(own[x], c, n) \subseteq Servers(kv, c, n)

\* Every host has handed over a configuration, and containers stop changing.
HandlersRest ==
    <>[](\A g \in Handler : ~Busy(g) /\ pc[g] = "idle" /\ own[HostOf[g]] # NoConf)

\* No host merges or stores while another one does.
OneAtATime == [](\A g, h \in Goroutine : Busy(g) /\ Busy(h) => HostOf[g] = HostOf[h])

\* No containers change once Redis or a process has failed.
CalmAfterFault == [](faults > 0 => \A g \in Handler : ~Busy(g))

\* Hosts that change one after the other all end up in the load balancer, for
\* good.  When Redis then loses everything they find their way back by
\* themselves: a restore by a host that changed early takes the servers of the
\* later ones away, and they put them back, until all are there.
MergedInTurn == HandlersRest /\ OneAtATime /\ CalmAfterFault => <>[]AllServed

\* "This allows kops running on multiple nodes to add their respective IPs":
\* once containers stop changing, every host's servers are in Redis for good.
MergedAlways == HandlersRest => <>[]AllServed

-------------------------------------------------------------------------------
(***************************************************************************)
(* The abstract specification.                                             *)
(***************************************************************************)

\* conf is base with other servers in the services that have the label, among
\* them those of base.
Extended(conf, base) ==
    /\ \A k \in Entry : conf[k] = base[k] \/
          (k \in Key /\ k.field \in ServerField /\ <<k.cat, k.name>> \in ToMerge(base))
    /\ \A s \in ToMerge(base) : Servers(base, s[1], s[2]) \subseteq Servers(conf, s[1], s[2])

\* What the containers of host x may give once it is merged.
MergedConfs(x) == {conf \in Conf : \E base \in Confs[x] : Extended(conf, base)}

MergedAbstract == INSTANCE Publication
    WITH Offered <- [x \in Host |-> MergedConfs(x)],
         current <- [x \in Host |-> Installing(x)],
         last <- lastConfig,
         clean <- faults = 0

\* Hosts that merge do what Publication allows, whatever the others do to the
\* services they share: each installs what its own containers ask for, with
\* nothing but servers of merged services added and none of its own lost.
ImplementsMergedPublication == MergedAbstract!Spec
===============================================================================
