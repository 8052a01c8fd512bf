------------------------------ MODULE RedisStore ------------------------------
(***************************************************************************)
(* The Redis store of traefik-kop (store.go).                              *)
(*                                                                         *)
(* Every host runs one traefik-kop process, and all processes share one    *)
(* Redis.  In a process, the configuration handler calls Store(conf) for   *)
(* each configuration that Docker produces, and other goroutines (the      *)
(* TTL/3 timer of keepStoreAlive and the polling provider) call            *)
(* KeepConfAlive().  Both hold RedisStore.mu for the whole call.           *)
(*                                                                         *)
(* A step of this model is one Redis command together with the local code  *)
(* up to the next one: the mutex excludes the goroutines of one process,   *)
(* but not the other hosts, nor a restart of Redis, nor a failed command,  *)
(* nor a crash of the process between two commands.                        *)
(*                                                                         *)
(* A configuration is a function from its entries to values.  The key      *)
(* "traefik/http/services/web/loadBalancer/servers/0/url" is the entry     *)
(* [cat |-> "http_services", name |-> "web", field |-> server 0]; silent   *)
(* entries are in the configuration, but ConfigToKV makes no key of them.  *)
(***************************************************************************)
EXTENDS Configurations, Integers, Sequences, FiniteSets

CONSTANTS
    Goroutine,  \* the goroutines that use a store
    HostOf,     \* the host whose process a goroutine belongs to
    Handler,    \* the goroutines that run the configuration handler
    CatSeq,     \* the categories, in the order store() goes through them
    ServiceCat, \* the categories of services, which have servers/N keys
    Name,       \* names of routers, services and middlewares
    ServerField,\* the fields below loadBalancer/servers/
    Rank,       \* the position of a key in the sorted order
    Value,      \* the values published
    Free,       \* the mutex is not held
    HasTTL,     \* RedisTTL > 0: keys expire unless renewed
    Fault,      \* the kinds of fault that happen
    MaxFaults   \* bound on the number of faults of a behaviour

Cat == {CatSeq[i] : i \in DOMAIN CatSeq}

Conf == [Entry -> Value \cup {Absent}]

\* What Redis may hold.
Contents == [Key -> Value \cup {Absent}]

ASSUME StoreAssumption ==
    /\ HostOf \in [Goroutine -> Host]
    /\ Handler \subseteq Goroutine
    /\ CatSeq \in Seq(STRING)
    /\ Len(CatSeq) > 0
    /\ \A e \in Entry : e.cat \in Cat /\ e.name \in Name
    /\ Rank \in [Key -> Nat]
    /\ \A j, k \in Key : Rank[j] = Rank[k] => j = k
    /\ Absent \notin Value
    /\ Free \notin Goroutine
    /\ NoConf \notin Conf
    /\ Confs \in [Host -> SUBSET Conf]
    /\ HasTTL \in BOOLEAN
    /\ Fault \subseteq {"error", "retry", "flush", "crash", "expire"}
    /\ MaxFaults \in Nat

\* store() goes through each category once.
ASSUME CatSeqAssumption == \A i, j \in DOMAIN CatSeq : CatSeq[i] = CatSeq[j] => i = j

VARIABLES
    kv,         \* Redis: the configuration keys
    members,    \* Redis: the sets traefik_<cat>@<host>, absent when empty
    membersNew, \* Redis: the sets traefik_<cat>@<host>_new
    stamped,    \* Redis: the sentinel traefik_kop_last_update@<host> exists
    mu,         \* RedisStore.mu of each host
    lastConfig, \* RedisStore.lastConfig of each host
    pc,         \* the command each goroutine is about to send
    arg,        \* the configuration it is storing
    cat,        \* the category it has reached, an index of CatSeq
    todo,       \* the names it still has to look at
    found,      \* the keys it still has to work on
    faults      \* the number of faults so far

redis == <<kv, members, membersNew, stamped>>
local == <<pc, cat, todo, found>>
vars == <<redis, mu, lastConfig, local, arg, faults>>

-------------------------------------------------------------------------------
\* What KEYS traefik/<cat>/<name>/* returns.
KeysOf(c, n) == {k \in Key : k.cat = c /\ k.name = n /\ kv[k] # Absent}

\* What KEYS traefik/<proto>/services/<name>/loadBalancer/servers/* returns.
ServerKeysOf(c, n) == {k \in KeysOf(c, n) : k.field \in ServerField}

\* kv once the keys of D are unlinked.
Without(D) == [k \in Key |-> IF k \in D THEN Absent ELSE kv[k]]

\* The category a goroutine has reached.
CatOf(g) == CatSeq[cat[g]]

\* A fault of kind f happens in this step.
Faulty(f) ==
    /\ f \in Fault
    /\ faults < MaxFaults
    /\ faults' = faults + 1

NoFault == UNCHANGED faults

\* The goroutine goes on at p, in category i, with names t and keys f left.
At(g, p, i, t, f) ==
    /\ pc' = [pc EXCEPT ![g] = p]
    /\ cat' = [cat EXCEPT ![g] = i]
    /\ todo' = [todo EXCEPT ![g] = t]
    /\ found' = [found EXCEPT ![g] = f]

\* The deferred Unlock: the call returns.
Return(g, p) ==
    /\ mu' = [mu EXCEPT ![HostOf[g]] = Free]
    /\ arg' = [arg EXCEPT ![g] = NoConf]
    /\ At(g, p, 1, {}, {})

\* store() returns an error.  The handler panics: the pool's recover ends its
\* goroutine and the process goes on without it.  A renewer only logs it.
Fail(g) == Return(g, IF g \in Handler THEN "down" ELSE "idle")

\* store(conf) starts; mu is held.
BeginStore(g, conf) ==
    /\ arg' = [arg EXCEPT ![g] = conf]
    /\ At(g, "track", 1, {}, {})

-------------------------------------------------------------------------------
(***************************************************************************)
(* The two entry points.                                                   *)
(***************************************************************************)
Init ==
    /\ kv = [k \in Key |-> Absent]
    /\ members = [x \in Host |-> [d \in Cat |-> {}]]
    /\ membersNew = [x \in Host |-> [d \in Cat |-> {}]]
    /\ stamped = [x \in Host |-> FALSE]
    /\ mu = [x \in Host |-> Free]
    /\ lastConfig = [x \in Host |-> NoConf]
    /\ pc = [g \in Goroutine |-> "idle"]
    /\ arg = [g \in Goroutine |-> NoConf]
    /\ cat = [g \in Goroutine |-> 1]
    /\ todo = [g \in Goroutine |-> {}]
    /\ found = [g \in Goroutine |-> {}]
    /\ faults = 0

\* Store(conf): the handler takes the mutex.
StoreCall(g, conf) ==
    /\ g \in Handler
    /\ pc[g] = "idle"
    /\ mu[HostOf[g]] = Free
    /\ mu' = [mu EXCEPT ![HostOf[g]] = g]
    /\ BeginStore(g, conf)
    /\ UNCHANGED <<redis, lastConfig, faults>>

StoreLock(g) == \E conf \in Confs[HostOf[g]] : StoreCall(g, conf)

\* Mutant: KeepConfAlive without its Lock.
KeepLockUnguarded(g) ==
    /\ g \notin Handler
    /\ pc[g] = "idle"
    /\ lastConfig[HostOf[g]] # NoConf
    /\ At(g, "exists", 1, {}, {})
    /\ UNCHANGED <<redis, mu, lastConfig, arg, faults>>

\* Mutant: KeepConfAlive without its look at lastConfig.
KeepLockTooEarly(g) ==
    /\ g \notin Handler
    /\ pc[g] = "idle"
    /\ mu[HostOf[g]] = Free
    /\ mu' = [mu EXCEPT ![HostOf[g]] = g]
    /\ At(g, "exists", 1, {}, {})
    /\ UNCHANGED <<redis, lastConfig, arg, faults>>

\* KeepConfAlive(): a renewer takes the mutex; with no configuration yet the
\* call does nothing.
KeepLock(g) ==
    /\ g \notin Handler
    /\ pc[g] = "idle"
    /\ mu[HostOf[g]] = Free
    /\ lastConfig[HostOf[g]] # NoConf
    /\ mu' = [mu EXCEPT ![HostOf[g]] = g]
    /\ At(g, "exists", 1, {}, {})
    /\ UNCHANGED <<redis, lastConfig, arg, faults>>

\* EXISTS of the sentinel: restore when it is gone, else renew (or return when
\* keys never expire).
Exists(g) ==
    /\ pc[g] = "exists"
    /\ \/ /\ NoFault
          /\ ~stamped[HostOf[g]]
          /\ BeginStore(g, lastConfig[HostOf[g]])
          /\ UNCHANGED mu
       \/ /\ NoFault
          /\ stamped[HostOf[g]]
          /\ HasTTL
          /\ At(g, "renew", 1, {}, Published(lastConfig[HostOf[g]]))
          /\ UNCHANGED <<mu, arg>>
       \/ /\ NoFault
          /\ stamped[HostOf[g]]
          /\ ~HasTTL
          /\ Return(g, "idle")
       \/ /\ Faulty("error")
          /\ Return(g, "idle")
    /\ UNCHANGED <<redis, lastConfig>>

\* Mutant: the replies of the pipeline are not looked at.
RenewBlindly(g) ==
    /\ pc[g] = "renew"
    /\ NoFault
    /\ Return(g, "idle")
    /\ UNCHANGED <<redis, lastConfig>>

\* The pipeline of PEXPIREs, one for each key of lastConfig in any order and
\* the sentinel's last.  A key that is gone makes the call store lastConfig
\* again (the commands of the pipeline after it change nothing this model shows).
Renew(g) ==
    /\ pc[g] = "renew"
    /\ \/ /\ NoFault
          /\ \E k \in found[g] :
                \/ /\ kv[k] # Absent
                   /\ At(g, "renew", 1, {}, found[g] \ {k})
                   /\ UNCHANGED arg
                \/ /\ kv[k] = Absent
                   /\ BeginStore(g, lastConfig[HostOf[g]])
          /\ UNCHANGED mu
       \/ /\ NoFault
          /\ found[g] = {}
          /\ ~stamped[HostOf[g]]
          /\ BeginStore(g, lastConfig[HostOf[g]])
          /\ UNCHANGED mu
       \/ /\ NoFault
          /\ found[g] = {}
          /\ stamped[HostOf[g]]
          /\ Return(g, "idle")
       \/ /\ Faulty("error")
          /\ Return(g, "idle")
    /\ UNCHANGED <<redis, lastConfig>>

-------------------------------------------------------------------------------
(***************************************************************************)
(* store(), first part: removeOldKeys and removeKeys for every category.   *)
(* Their errors are dropped by store(): one ends the work on its category. *)
(***************************************************************************)

\* Mutant: SADD of an empty name list instead of the new names.
TrackNothing(g) ==
    /\ pc[g] = "track"
    /\ NoFault
    /\ At(g, "diff", cat[g], {}, {})
    /\ UNCHANGED <<redis, mu, lastConfig, arg>>

\* SMEMBERS when the category is empty in the new configuration: every name
\* has to go.  Otherwise SADD of the new names to the _new set, which may hold
\* names from an earlier attempt.
Track(g) ==
    /\ pc[g] = "track"
    /\ LET new == Names(arg[g], CatOf(g))
           tracked == [membersNew EXCEPT ![HostOf[g]][CatOf(g)] = @ \cup new]
       IN  \/ /\ NoFault
              /\ new = {}
              /\ At(g, "scan", cat[g], members[HostOf[g]][CatOf(g)], {})
              /\ UNCHANGED membersNew
           \/ /\ NoFault
              /\ new # {}
              /\ membersNew' = tracked
              /\ At(g, "diff", cat[g], {}, {})
           \/ /\ Faulty("error")
              /\ membersNew' \in {membersNew, tracked}
              /\ At(g, "scan", cat[g], {}, {})
    /\ UNCHANGED <<kv, members, stamped, mu, lastConfig, arg>>

\* Mutant: the old set is not compared with the new one.
DiffAgainstNothing(g) ==
    /\ pc[g] = "diff"
    /\ NoFault
    /\ At(g, "scan", cat[g], members[HostOf[g]][CatOf(g)], {})
    /\ UNCHANGED <<redis, mu, lastConfig, arg>>

\* SDIFF of the tracking set and the _new set.
Diff(g) ==
    /\ pc[g] = "diff"
    /\ \/ /\ NoFault
          /\ At(g, "scan", cat[g], members[HostOf[g]][CatOf(g)] \ membersNew[HostOf[g]][CatOf(g)], {})
       \/ /\ Faulty("error")
          /\ At(g, "scan", cat[g], {}, {})
    /\ UNCHANGED <<redis, mu, lastConfig, arg>>

\* removeKeys: KEYS for the next name to remove.
Scan(g) ==
    /\ pc[g] = "scan"
    /\ \/ /\ NoFault
          /\ \E n \in todo[g] :
                At(g, "unlink", cat[g], todo[g] \ {n}, KeysOf(CatOf(g), n))
       \/ /\ todo[g] # {}
          /\ Faulty("error")
          /\ At(g, "scan", cat[g], {}, {})
    /\ UNCHANGED <<redis, mu, lastConfig, arg>>

\* removeKeys: one UNLINK of all keys found.  Redis refuses UNLINK without
\* keys, so a name with no keys left ends the category like any other error.
Unlink(g) ==
    /\ pc[g] = "unlink"
    /\ \/ /\ NoFault
          /\ found[g] # {}
          /\ kv' = Without(found[g])
          /\ At(g, "scan", cat[g], todo[g], {})
       \/ /\ NoFault
          /\ found[g] = {}
          /\ UNCHANGED kv
          /\ At(g, "scan", cat[g], {}, {})
       \/ /\ found[g] # {}
          /\ Faulty("error")
          /\ kv' \in {kv, Without(found[g])}
          /\ At(g, "scan", cat[g], {}, {})
    /\ UNCHANGED <<members, membersNew, stamped, mu, lastConfig, arg>>

\* The category is finished: on to the next one, or to writing the keys.
CategoryDone(g) ==
    /\ pc[g] = "scan"
    /\ todo[g] = {}
    /\ IF cat[g] < Len(CatSeq)
         THEN At(g, "track", cat[g] + 1, {}, {})
         ELSE At(g, "write", 1, {}, Published(arg[g]))
    /\ UNCHANGED <<redis, mu, lastConfig, arg, faults>>

-------------------------------------------------------------------------------
(***************************************************************************)
(* store(), second part: the keys are written in sorted order, stale       *)
(* servers removed, the tracking sets swapped and the sentinel written.    *)
(***************************************************************************)

\* Names whose servers removeStaleServerKeys looks at in category i.
StaleNames(g, i) == IF CatSeq[i] \in ServiceCat THEN Names(arg[g], CatSeq[i]) ELSE {}

\* SET of the next key.
Write(g) ==
    /\ pc[g] = "write"
    /\ \E k \in found[g] :
          /\ \A j \in found[g] : Rank[k] <= Rank[j]
          /\ LET written == [kv EXCEPT ![k] = arg[g][k]]
             IN  \/ /\ NoFault
                    /\ kv' = written
                    /\ At(g, "write", 1, {}, found[g] \ {k})
                    /\ UNCHANGED <<mu, arg>>
                 \/ /\ Faulty("error")
                    /\ kv' \in {kv, written}
                    /\ Fail(g)
    /\ UNCHANGED <<members, membersNew, stamped, lastConfig>>

WriteDone(g) ==
    /\ pc[g] = "write"
    /\ found[g] = {}
    /\ At(g, "stale", 1, StaleNames(g, 1), {})
    /\ UNCHANGED <<redis, mu, lastConfig, arg, faults>>

\* Mutant: the servers of every service are looked at, not this service's.
StaleEverywhere(g) ==
    /\ pc[g] = "stale"
    /\ NoFault
    /\ \E n \in todo[g] :
          At(g, "purge", cat[g], todo[g] \ {n},
             {k \in Key : /\ k.cat = CatOf(g)
                          /\ k.field \in ServerField
                          /\ kv[k] # Absent
                          /\ arg[g][k] = Absent})
    /\ UNCHANGED <<redis, mu, lastConfig, arg>>

\* Mutant: the servers left over are not looked for.
StaleNever(g) ==
    /\ pc[g] = "stale"
    /\ NoFault
    /\ \E n \in todo[g] : At(g, "stale", cat[g], todo[g] \ {n}, {})
    /\ UNCHANGED <<redis, mu, lastConfig, arg>>

\* removeStaleServerKeys: KEYS below the servers of the next service.  An error
\* passes over the service.
Stale(g) ==
    /\ pc[g] = "stale"
    /\ \E n \in todo[g] :
          \/ /\ NoFault
             /\ At(g, "purge", cat[g], todo[g] \ {n},
                   {k \in ServerKeysOf(CatOf(g), n) : arg[g][k] = Absent})
          \/ /\ Faulty("error")
             /\ At(g, "stale", cat[g], todo[g] \ {n}, {})
    /\ UNCHANGED <<redis, mu, lastConfig, arg>>

\* removeStaleServerKeys: UNLINK of one key; its error is not looked at.
Purge(g) ==
    /\ pc[g] = "purge"
    /\ \/ \E k \in found[g] :
             /\ \/ NoFault /\ kv' = Without({k})
                \/ Faulty("error") /\ kv' = kv
             /\ At(g, "purge", cat[g], todo[g], found[g] \ {k})
       \/ /\ found[g] = {}
          /\ NoFault
          /\ At(g, "stale", cat[g], todo[g], {})
          /\ UNCHANGED kv
    /\ UNCHANGED <<members, membersNew, stamped, mu, lastConfig, arg>>

StaleDone(g) ==
    /\ pc[g] = "stale"
    /\ todo[g] = {}
    /\ IF cat[g] < Len(CatSeq)
         THEN At(g, "stale", cat[g] + 1, StaleNames(g, cat[g] + 1), {})
         ELSE At(g, "swap", 1, {}, {})
    /\ UNCHANGED <<redis, mu, lastConfig, arg, faults>>

\* swapKeys: RENAME of the _new set; "no such key" (the set is empty) unlinks
\* the tracking set, and so does a RENAME that the client sent again after
\* losing the first reply.  Other errors leave both sets.
Swap(g) ==
    /\ pc[g] = "swap"
    /\ LET cleared == [membersNew EXCEPT ![HostOf[g]][CatOf(g)] = {}]
           renamed == [members EXCEPT ![HostOf[g]][CatOf(g)] = membersNew[HostOf[g]][CatOf(g)]]
       IN  \/ /\ NoFault
              /\ members' = renamed
              /\ membersNew' = cleared
           \/ /\ Faulty("retry")
              /\ members' = [members EXCEPT ![HostOf[g]][CatOf(g)] = {}]
              /\ membersNew' = cleared
           \/ /\ Faulty("error")
              /\ UNCHANGED <<members, membersNew>>
    /\ IF cat[g] < Len(CatSeq)
         THEN At(g, "swap", cat[g] + 1, {}, {})
         ELSE At(g, "stamp", 1, {}, {})
    /\ UNCHANGED <<kv, stamped, mu, lastConfig, arg>>

\* SET of the sentinel; store() then remembers the configuration and returns.
Stamp(g) ==
    /\ pc[g] = "stamp"
    /\ \/ /\ NoFault
          /\ stamped' = [stamped EXCEPT ![HostOf[g]] = TRUE]
          /\ lastConfig' = [lastConfig EXCEPT ![HostOf[g]] = arg[g]]
          /\ Return(g, "idle")
       \/ /\ Faulty("error")
          /\ stamped' \in {stamped, [stamped EXCEPT ![HostOf[g]] = TRUE]}
          /\ UNCHANGED lastConfig
          /\ Fail(g)
    /\ UNCHANGED <<kv, members, membersNew>>

-------------------------------------------------------------------------------
(***************************************************************************)
(* The environment: Redis restarts empty, keys expire, processes crash.    *)
(***************************************************************************)
Flush ==
    /\ Faulty("flush")
    /\ kv' = [k \in Key |-> Absent]
    /\ members' = [x \in Host |-> [d \in Cat |-> {}]]
    /\ membersNew' = [x \in Host |-> [d \in Cat |-> {}]]
    /\ stamped' = [x \in Host |-> FALSE]
    /\ UNCHANGED <<mu, lastConfig, local, arg>>

\* Some process keeps renewing k, or is about to have written it.
Renewed(k) ==
    \/ \E x \in Host : lastConfig[x] # NoConf /\ lastConfig[x][k] # Absent
    \/ \E g \in Goroutine : arg[g] # NoConf /\ arg[g][k] # Absent

\* A key that nobody renews expires.
Lapse(k) ==
    /\ HasTTL
    /\ kv[k] # Absent
    /\ ~Renewed(k)
    /\ kv' = Without({k})
    /\ UNCHANGED <<members, membersNew, stamped, mu, lastConfig, local, arg, faults>>

\* A renewal comes too late, for a key or for the sentinel.
ExpireEarly ==
    /\ HasTTL
    /\ Faulty("expire")
    /\ \/ /\ \E k \in Key : kv[k] # Absent /\ kv' = Without({k})
          /\ UNCHANGED stamped
       \/ /\ \E x \in Host : stamped[x] /\ stamped' = [stamped EXCEPT ![x] = FALSE]
          /\ UNCHANGED kv
    /\ UNCHANGED <<members, membersNew, mu, lastConfig, local, arg>>

\* The process of host x dies, wherever it is, and is started again.
Crash(x) ==
    /\ Faulty("crash")
    /\ mu' = [mu EXCEPT ![x] = Free]
    /\ lastConfig' = [lastConfig EXCEPT ![x] = NoConf]
    /\ pc' = [g \in Goroutine |-> IF HostOf[g] = x THEN "idle" ELSE pc[g]]
    /\ arg' = [g \in Goroutine |-> IF HostOf[g] = x THEN NoConf ELSE arg[g]]
    /\ cat' = [g \in Goroutine |-> IF HostOf[g] = x THEN 1 ELSE cat[g]]
    /\ todo' = [g \in Goroutine |-> IF HostOf[g] = x THEN {} ELSE todo[g]]
    /\ found' = [g \in Goroutine |-> IF HostOf[g] = x THEN {} ELSE found[g]]
    /\ UNCHANGED redis

-------------------------------------------------------------------------------
\* What a goroutine does once it is inside Store or KeepConfAlive.
Work(g) ==
    \/ Exists(g) \/ Renew(g)
    \/ Track(g) \/ Diff(g) \/ Scan(g) \/ Unlink(g) \/ CategoryDone(g)
    \/ Write(g) \/ WriteDone(g)
    \/ Stale(g) \/ Purge(g) \/ StaleDone(g)
    \/ Swap(g) \/ Stamp(g)

Run(g) == StoreLock(g) \/ KeepLock(g) \/ Work(g)

Environment ==
    \/ Flush
    \/ ExpireEarly
    \/ \E k \in Key : Lapse(k)
    \/ \E x \in Host : Crash(x)

Next ==
    \/ \E g \in Goroutine : Run(g)
    \/ Environment

Spec == Init /\ [][Next]_vars

\* A goroutine that holds the mutex goes on, the timer and the poller keep
\* calling KeepConfAlive, and Redis expires what nobody renews.  Nothing makes
\* containers change: StoreLock is not fair.
Fairness ==
    /\ \A g \in Goroutine : WF_vars(Work(g)) /\ WF_vars(KeepLock(g))
    /\ \A k \in Key : WF_vars(Lapse(k))

FairSpec == Spec /\ Fairness

-------------------------------------------------------------------------------
(***************************************************************************)
(* Invariants.                                                             *)
(***************************************************************************)
Outside == {"idle", "down"}
Removing == {"scan", "unlink"}
Storing == {"track", "diff", "scan", "unlink", "write", "stale", "purge", "swap", "stamp"}
Inside == {"exists", "renew"} \cup Storing

\* Every variable has its type: at most the goroutine inside Store or
\* KeepConfAlive has a category, names and keys to work on.
TypeOK ==
    /\ kv \in Contents
    /\ members \in [Host -> [Cat -> SUBSET Name]]
    /\ membersNew \in [Host -> [Cat -> SUBSET Name]]
    /\ stamped \in [Host -> BOOLEAN]
    /\ mu \in [Host -> Goroutine \cup {Free}]
    /\ lastConfig \in [Host -> Conf \cup {NoConf}]
    /\ pc \in [Goroutine -> Inside \cup Outside]
    /\ arg \in [Goroutine -> Conf \cup {NoConf}]
    /\ cat \in [Goroutine -> DOMAIN CatSeq]
    /\ todo \in [Goroutine -> SUBSET Name]
    /\ found \in [Goroutine -> SUBSET Key]
    /\ faults \in 0..MaxFaults

\* A goroutine that stores a configuration has one, and one that checks or
\* renews is a renewer with a configuration to renew.
HoldInv ==
    \A g \in Goroutine :
        /\ pc[g] \in Storing => arg[g] # NoConf
        /\ pc[g] \in {"exists", "renew"} =>
              g \notin Handler /\ lastConfig[HostOf[g]] # NoConf

\* In every state, whatever failed before, the variables have their types and
\* nobody stores or renews a configuration that is not there (store() would
\* read through a nil lastConfig).
StateOK == TypeOK /\ HoldInv

\* A goroutine is inside Store or KeepConfAlive exactly when it holds the mutex
\* of its own host: so no two of one process are.
LockInv ==
    /\ \A g \in Goroutine : pc[g] \in Inside <=> mu[HostOf[g]] = g
    /\ \A x \in Host : mu[x] # Free => HostOf[mu[x]] = x

\* The timer and the poller only ever store the newest configuration that a
\* Store of this host has finished: a renewal that overlaps a change of the
\* containers never puts the older configuration back.
RenewalIsCurrent ==
    \A g \in Goroutine \ Handler :
        pc[g] \in Storing => arg[g] = lastConfig[HostOf[g]]

\* The host has published a configuration and is not storing another one.
Settled(x) ==
    /\ lastConfig[x] # NoConf
    /\ \A g \in Goroutine : HostOf[g] = x => pc[g] \notin Storing

\* As long as nothing fails, a finished Store leaves Redis with every key and
\* value of the configuration, unless another host publishes the same names.
\* In a category where the host shares no name and has no name without keys, no
\* key of a name that is not in the configuration remains, and no server but the
\* configuration's.
InstalledWhenIdle ==
    faults = 0 => \A x \in Host : Settled(x) =>
        /\ \A k \in Own(x) : lastConfig[x][k] # Absent => kv[k] = lastConfig[x][k]
        /\ \A k \in Removable(x) : kv[k] # Absent =>
              /\ k.name \in Names(lastConfig[x], k.cat)
              /\ k.cat \in ServiceCat /\ k.field \in ServerField => lastConfig[x][k] # Absent

\* Every key in Redis belongs to a name that some tracking set holds, so that
\* a later Store can still remove it.
NoOrphans ==
    \A k \in Key : kv[k] # Absent =>
        \E x \in Host : k.name \in members[x][k.cat] \cup membersNew[x][k.cat]

\* As long as nothing fails, no order of the commands of store() leaves a key
\* untracked at any moment, so that a process that dies between two of them
\* leaves nothing behind that its successor cannot find.  That holds in
\* categories where the host shares no name with another one and where each of
\* its names has keys: UNLINK fails for a name without keys, the names after it
\* are not removed, and swapKeys forgets them all.
TrackedWhileClean ==
    faults = 0 => \A x \in Host : \A k \in Removable(x) :
        kv[k] # Absent => k.name \in members[x][k.cat] \cup membersNew[x][k.cat]

\* Redis holds all that the hosts last published, and nothing else.
Complete ==
    \A x \in Host : lastConfig[x] # NoConf =>
        \A k \in Published(lastConfig[x]) : kv[k] = lastConfig[x][k]

Exact ==
    /\ Complete
    /\ \A k \in Key : kv[k] # Absent =>
          \E x \in Host : lastConfig[x] # NoConf /\ lastConfig[x][k] # Absent

-------------------------------------------------------------------------------
(***************************************************************************)
(* Action and liveness properties.                                         *)
(***************************************************************************)

\* This step is one of goroutine g's own.
Moves(g) == <<pc[g], cat[g], todo[g], found[g]>>' # <<pc[g], cat[g], todo[g], found[g]>>

\* No gap in service: while a process installs a configuration, whatever
\* failed before, it never deletes a key that the configuration publishes.
NoGapStep ==
    \A g \in Goroutine : \A k \in Key :
        /\ pc[g] \in Storing
        /\ Moves(g)
        /\ arg[g][k] # Absent
        /\ kv[k] # Absent
        => kv'[k] # Absent

NoGap == [][NoGapStep]_vars

\* A process, whatever failed before and whichever hosts share names with it,
\* changes no key below a name that its own containers never have, and writes
\* nothing but the configuration it was given; a renewal nothing but the last
\* one.
StaysHomeStep ==
    \A g \in Goroutine : \A k \in Key :
        Moves(g) /\ kv'[k] # kv[k] =>
            /\ k \in KeysUnder(HostOf[g])
            /\ kv'[k] \in {Absent, IF g \in Handler THEN arg[g][k] ELSE lastConfig[HostOf[g]][k]}

StaysHome == [][StaysHomeStep]_vars

\* "Only touch keys in this instance's last published configuration": a
\* renewal changes no key outside lastConfig.
OwnKeysOnlyStep ==
    \A g \in Goroutine \ Handler : \A k \in Key :
        /\ pc[g] \in Inside
        /\ Moves(g)
        /\ kv'[k] # kv[k]
        => lastConfig[HostOf[g]][k] # Absent

OwnKeysOnly == [][OwnKeysOnlyStep]_vars

\* Containers stop changing, and no handler has died of a failed Store.
ContainersStop == <>[](\A g \in Handler : pc[g] = "idle")

\* Once containers stop changing, Redis comes to hold exactly what the hosts
\* last published, for good, whatever was lost on the way.
SelfHealing == ContainersStop => <>[]Exact

\* "Restore the configuration if Redis lost it": once containers stop changing,
\* every key the hosts last published is in Redis for good.
Restored == ContainersStop => <>[]Complete

-------------------------------------------------------------------------------
(***************************************************************************)
(* The abstract specification.                                             *)
(***************************************************************************)

\* The configuration that the process of host x is installing.
Installing(x) ==
    IF mu[x] # Free /\ pc[mu[x]] \in Storing THEN arg[mu[x]] ELSE NoConf

Abstract == INSTANCE Publication
    WITH Offered <- Confs,
         current <- [x \in Host |-> Installing(x)],
         last <- lastConfig,
         clean <- faults = 0

\* store() and KeepConfAlive(), command by command and whatever fails, do only
\* what Publication allows: keys move towards the configuration being installed
\* and a call that returns without error has installed it.
ImplementsPublication == Abstract!Spec
===============================================================================
