--------------------------- MODULE MergedStoreProofs ---------------------------
(***************************************************************************)
(* The store keeps its guarantees when handlers merge what other hosts     *)
(* have published: mutual exclusion, StaysHome and InstalledWhenIdle hold  *)
(* of hosts that share a service, too, and all of them together implement  *)
(* Publication with what merging may make of a configuration.              *)
(***************************************************************************)
EXTENDS MergedStore, PublicationProofs

USE StoreAssumption, MergeAssumption

\* The services that can be merged.
Mergeable == ServiceCat \X MergeName

\* What a handler knows while it merges.
MergeRecord ==
    [conf : Conf, todo : SUBSET Mergeable, at : Mergeable \cup {NoMerge},
     left : SUBSET Key, got : SUBSET (Value \cup {Absent})]

MergeTypeOK == merge \in [Handler -> MergeRecord \cup {NoMerge}]

\* r is on the way from base, which the containers gave: no server of base is
\* lost so far, and only services of base are looked up.
MergesFrom(r, base) ==
    /\ Extended(r.conf, base)
    /\ r.todo \subseteq ToMerge(base)
    /\ r.at # NoMerge => r.at \in ToMerge(base)

MergesOwn(g, r) == r # NoMerge => \E base \in Confs[HostOf[g]] : MergesFrom(r, base)

MergeInv == MergeTypeOK /\ \A g \in Handler : MergesOwn(g, merge[g])

-------------------------------------------------------------------------------
\* The services that a configuration has merged.
LEMMA ToMergeType ==
    ASSUME NEW conf
    PROVE  /\ ToMerge(conf) \subseteq Mergeable
           /\ \A s \in ToMerge(conf) : s = <<s[1], s[2]>> /\ s[2] \in Names(conf, s[1])
  BY DEF ToMerge, Mergeable

\* A configuration is an extension of itself.
LEMMA ExtendedSelf ==
    ASSUME NEW conf
    PROVE  Extended(conf, conf)
  BY DEF Extended

\* What merging makes of a configuration of host x has names of x only, and a
\* key for every name if the configuration has: no server is lost.
LEMMA ExtendedHome ==
    ASSUME NEW x \in Host, NEW base \in Confs[x], NEW conf \in Conf, Extended(conf, base)
    PROVE  conf \in HomeConf(x) /\ conf \in MergedConfs(x)
  <1>1. ASSUME NEW d
        PROVE  Names(conf, d) \subseteq Names(base, d)
    <2> SUFFICES ASSUME NEW e \in Entry, conf[e] # Absent, e.cat = d
                 PROVE  e.name \in Names(base, d)
      BY DEF Names
    <2>1. CASE conf[e] = base[e]
      BY <2>1 DEF Names
    <2>2. CASE <<e.cat, e.name>> \in ToMerge(base)
      BY <2>2 DEF ToMerge
    <2> QED
      BY <2>1, <2>2 DEF Extended
  <1>2. \A d : Names(conf, d) \subseteq NamesUnder(x, d)
    BY <1>1 DEF NamesUnder
  <1>3. ASSUME NEW d, Keyed(x, d), NEW n \in Names(conf, d)
        PROVE  \E k \in Published(conf) : k.cat = d /\ k.name = n
    <2>1. n \in Names(base, d)
      BY <1>1, <1>3
    <2>2. PICK k \in Published(base) : k.cat = d /\ k.name = n
      BY <1>3, <2>1 DEF Keyed, AllKeyed
    <2>3. k \in Key /\ k \in Entry /\ base[k] # Absent
      BY <2>2 DEF Published, Entry
    <2>4. CASE conf[k] = base[k]
      BY <2>2, <2>3, <2>4 DEF Published
    <2>5. CASE k.field \in ServerField /\ <<k.cat, k.name>> \in ToMerge(base)
      <3> DEFINE s == <<d, n>>
      <3>1. s \in ToMerge(base) /\ s[1] = d /\ s[2] = n
        BY <2>2, <2>5
      <3>2. base[k] \in Servers(base, d, n)
        BY <2>2, <2>3, <2>5 DEF Servers
      <3>3. base[k] \in Servers(conf, d, n)
        BY <3>1, <3>2 DEF Extended
      <3>4. PICK j \in Key : j.cat = d /\ j.name = n /\ conf[j] = base[k]
        BY <3>3 DEF Servers
      <3> QED
        BY <2>3, <3>4 DEF Published
    <2> QED
      BY <2>3, <2>4, <2>5 DEF Extended
  <1> QED
    BY <1>2, <1>3 DEF HomeConf, MergedConfs, AllKeyed

\* The addresses of a configuration are values.
LEMMA ServersType ==
    ASSUME NEW conf \in Conf, NEW c, NEW n
    PROVE  Servers(conf, c, n) \subseteq Value \cup {Absent}
  BY DEF Servers, Conf, Entry

\* Other addresses for the servers of one service change nothing else.
LEMMA WithServersElsewhere ==
    ASSUME NEW conf \in Conf, NEW s \in Mergeable, NEW list, NEW k \in Entry,
           ~(k \in Key /\ k.cat = s[1] /\ k.name = s[2] /\ k.field \in ServerField)
    PROVE  WithServers(conf, s, list)[k] = conf[k]
  BY DEF WithServers

\* Every address of the list is published as a server of the service.
LEMMA WithServersAll ==
    ASSUME NEW conf \in Conf, NEW s \in Mergeable, NEW S \in SUBSET (Value \cup {Absent}),
           NEW list \in Arrangements(S), NEW v \in S, v # Absent
    PROVE  v \in Servers(WithServers(conf, s, list), s[1], s[2])
  <1> DEFINE new == WithServers(conf, s, list)
  <1>1. PICK i \in DOMAIN list : list[i] = v
    BY DEF Arrangements
  <1>2. DOMAIN list \subseteq DOMAIN ServerSeq
    BY ServerAssumption DEF Arrangements
  <1>3. ServerSeq[i] \in ServerField
    BY <1>1, <1>2
  <1> DEFINE k == [cat |-> s[1], name |-> s[2], field |-> ServerSeq[i]]
  <1>4. k \in Key /\ k.cat = s[1] /\ k.name = s[2] /\ k.field = ServerSeq[i]
    BY <1>3, ServerAssumption DEF Mergeable
  <1> HIDE DEF k
  <1>5. (CHOOSE j \in DOMAIN list : ServerSeq[j] = k.field) = i
    <2>1. \A j \in DOMAIN list : ServerSeq[j] = k.field <=> j = i
      BY <1>1, <1>2, <1>4
    <2> QED
      BY <1>1, <2>1
  <1>6. new[k] = v
    <2>1. \E j \in DOMAIN list : ServerSeq[j] = k.field
      BY <1>1, <1>4
    <2>2. new[k] = list[CHOOSE j \in DOMAIN list : ServerSeq[j] = k.field]
      BY <1>3, <1>4, <2>1 DEF WithServers, Entry
    <2> QED
      BY <1>1, <1>5, <2>2
  <1> QED
    BY <1>3, <1>4, <1>6 DEF Servers

\* What it makes is a configuration.
LEMMA WithServersType ==
    ASSUME NEW conf \in Conf, NEW s \in Mergeable, NEW S \in SUBSET (Value \cup {Absent}),
           NEW list \in Arrangements(S)
    PROVE  WithServers(conf, s, list) \in Conf
  <1>1. \A i \in DOMAIN list : list[i] \in Value \cup {Absent}
    BY DEF Arrangements
  <1>2. ASSUME NEW k \in Entry
        PROVE  WithServers(conf, s, list)[k] \in Value \cup {Absent}
    <2>1. CASE /\ k \in Key /\ k.cat = s[1] /\ k.name = s[2] /\ k.field \in ServerField
               /\ \E i \in DOMAIN list : ServerSeq[i] = k.field
      <3> DEFINE at == CHOOSE i \in DOMAIN list : ServerSeq[i] = k.field
      <3>1. at \in DOMAIN list
        BY <2>1
      <3>2. WithServers(conf, s, list)[k] = list[at]
        BY <2>1 DEF WithServers
      <3> HIDE DEF at
      <3> QED
        BY <1>1, <3>1, <3>2
    <2>2. CASE /\ k \in Key /\ k.cat = s[1] /\ k.name = s[2] /\ k.field \in ServerField
               /\ ~\E i \in DOMAIN list : ServerSeq[i] = k.field
      BY <2>2 DEF WithServers
    <2>3. CASE ~(k \in Key /\ k.cat = s[1] /\ k.name = s[2] /\ k.field \in ServerField)
      BY <2>3, WithServersElsewhere DEF Conf
    <2> QED
      BY <2>1, <2>2, <2>3
  <1> QED
    BY <1>2 DEF WithServers, Conf

\* Merging one more service of base keeps an extension of base one: the list has
\* what was read and all the servers that the service had.
LEMMA WithServersExtends ==
    ASSUME NEW base, NEW conf \in Conf, Extended(conf, base), NEW s \in ToMerge(base),
           NEW got \in SUBSET (Value \cup {Absent}),
           NEW list \in Arrangements(got \cup Servers(conf, s[1], s[2]))
    PROVE  WithServers(conf, s, list) \in Conf /\ Extended(WithServers(conf, s, list), base)
  <1> DEFINE new == WithServers(conf, s, list)
             all == got \cup Servers(conf, s[1], s[2])
  <1>1. s \in Mergeable /\ s = <<s[1], s[2]>>
    BY ToMergeType
  <1>2. all \in SUBSET (Value \cup {Absent})
    BY ServersType
  <1>3. new \in Conf
    BY <1>1, <1>2, WithServersType
  <1>4. ASSUME NEW k \in Entry
        PROVE  new[k] = base[k] \/ (k \in Key /\ k.field \in ServerField /\ <<k.cat, k.name>> \in ToMerge(base))
    <2>1. CASE k \in Key /\ k.cat = s[1] /\ k.name = s[2] /\ k.field \in ServerField
      BY <1>1, <2>1
    <2>2. CASE ~(k \in Key /\ k.cat = s[1] /\ k.name = s[2] /\ k.field \in ServerField)
      BY <1>1, <2>2, WithServersElsewhere DEF Extended
    <2> QED
      BY <2>1, <2>2
  <1>5. ASSUME NEW t \in ToMerge(base), NEW v \in Servers(base, t[1], t[2])
        PROVE  v \in Servers(new, t[1], t[2])
    <2>1. v \in Servers(conf, t[1], t[2]) /\ v # Absent
      BY <1>5 DEF Extended, Servers
    <2>2. CASE t = s
      <3>1. v \in all
        BY <2>1, <2>2
      <3> HIDE DEF all
      <3> QED
        BY <1>1, <1>2, <2>1, <2>2, <3>1, WithServersAll DEF all
    <2>3. CASE t # s
      <3>1. t = <<t[1], t[2]>>
        BY <1>5, ToMergeType
      <3>2. PICK k \in Key : k.cat = t[1] /\ k.name = t[2] /\ k.field \in ServerField /\ conf[k] = v
        BY <2>1 DEF Servers
      <3>3. ~(k.cat = s[1] /\ k.name = s[2])
        BY <1>1, <2>3, <3>1, <3>2
      <3>4. new[k] = v
        BY <1>1, <3>2, <3>3, WithServersElsewhere DEF Entry
      <3> QED
        BY <2>1, <3>2, <3>4 DEF Servers
    <2> QED
      BY <2>2, <2>3
  <1> QED
    BY <1>3, <1>4, <1>5 DEF Extended

-------------------------------------------------------------------------------
(***************************************************************************)
(* The steps of the handlers.                                              *)
(***************************************************************************)

\* MergesOwn of the next state is about the next merge.
LEMMA MergesOwnNext ==
    ASSUME NEW g \in Handler, NEW r, merge'[g] = r
    PROVE  MergesOwn(g, merge[g])' <=> MergesOwn(g, r)
  <1>1. \A conf : ToMerge(conf)' = ToMerge(conf)
    BY DEF ToMerge, Names
  <1>2. \A conf, c, n : Servers(conf, c, n)' = Servers(conf, c, n)
    BY DEF Servers
  <1>3. \A c, n : Servers(merge[g].conf, c, n)' = Servers(r.conf, c, n)
    BY DEF Servers
  <1>4. \A base : Extended(merge[g].conf, base)' <=> Extended(r.conf, base)
    BY <1>1, <1>2, <1>3 DEF Extended
  <1> QED
    BY <1>1, <1>4 DEF MergesOwn, MergesFrom

\* When the merge of g is replaced by r, only g's part has to be looked at.
LEMMA MergeReplaced ==
    ASSUME MergeInv, NEW g \in Handler, NEW r \in MergeRecord \cup {NoMerge},
           merge' = [merge EXCEPT ![g] = r], MergesOwn(g, r)
    PROVE  MergeInv'
  <1>1. MergeTypeOK'
    BY DEF MergeInv, MergeTypeOK
  <1>2. ASSUME NEW h \in Handler
        PROVE  MergesOwn(h, merge[h])'
    <2>1. CASE h = g
      <3>1. merge'[h] = r
        BY <2>1 DEF MergeInv, MergeTypeOK
      <3> QED
        BY <2>1, <3>1, MergesOwnNext
    <2>2. CASE h # g
      <3>1. merge'[h] = merge[h]
        BY <2>2 DEF MergeInv, MergeTypeOK
      <3> QED
        BY <3>1, MergesOwnNext DEF MergeInv
    <2> QED
      BY <2>1, <2>2
  <1> QED
    BY <1>1, <1>2 DEF MergeInv

\* Receiving a configuration and reading from Redis keep the merge on its way
\* from what the containers gave.
LEMMA MergeSteps ==
    ASSUME TypeOK, MergeInv, NEW g \in Handler, Receive(g) \/ Merging(g) \/ StoreMerged(g)
    PROVE  MergeInv'
  <1> DEFINE x == HostOf[g]
             m == merge[g]
  <1>1. g \in Goroutine /\ x \in Host
    OBVIOUS
  <1>2. m # NoMerge => m \in MergeRecord /\ \E base \in Confs[x] : MergesFrom(m, base)
    BY DEF MergeInv, MergeTypeOK, MergesOwn
  <1>3. CASE Receive(g)
    <2>1. PICK conf \in Confs[x] :
             merge' = [merge EXCEPT ![g] = [conf |-> conf, todo |-> ToMerge(conf), at |-> NoMerge,
                                            left |-> {}, got |-> {}]]
      BY <1>3 DEF Receive
    <2> DEFINE r == [conf |-> conf, todo |-> ToMerge(conf), at |-> NoMerge, left |-> {}, got |-> {}]
    <2>2. r \in MergeRecord
      <3>1. conf \in Conf /\ ToMerge(conf) \in SUBSET Mergeable
        BY <1>1, <2>1, ToMergeType
      <3> QED
        BY <3>1 DEF MergeRecord
    <2>3. r.conf = conf /\ r.todo = ToMerge(conf) /\ r.at = NoMerge
      OBVIOUS
    <2>4. merge' = [merge EXCEPT ![g] = r]
      BY <2>1
    <2> HIDE DEF r
    <2>5. MergesFrom(r, conf)
      BY <2>3, ExtendedSelf DEF MergesFrom
    <2> QED
      BY <2>1, <2>2, <2>4, <2>5, MergeReplaced DEF MergesOwn
  <1>4. CASE GetsKeys(g)
    <2>1. m # NoMerge /\ m \in MergeRecord
      BY <1>2, <1>4 DEF GetsKeys
    <2>2. PICK base \in Confs[x] : MergesFrom(m, base)
      BY <1>2, <2>1
    <2>3. PICK s \in m.todo :
             LET keys == ServerKeysOf(s[1], s[2])
                 passed == [m EXCEPT !.todo = @ \ {s}]
             IN  merge' \in {[merge EXCEPT ![g] = passed],
                             [merge EXCEPT ![g] = [passed EXCEPT !.at = s, !.left = keys]]}
      BY <1>4 DEF GetsKeys
    <2> DEFINE keys == ServerKeysOf(s[1], s[2])
               passed == [m EXCEPT !.todo = @ \ {s}]
               reading == [passed EXCEPT !.at = s, !.left = keys]
    <2>4. /\ passed \in MergeRecord /\ reading \in MergeRecord
          /\ passed.conf = m.conf /\ passed.todo = m.todo \ {s} /\ passed.at = m.at
          /\ reading.conf = m.conf /\ reading.todo = m.todo \ {s} /\ reading.at = s
      <3>1. keys \in SUBSET Key /\ s \in Mergeable
        BY <2>1 DEF ServerKeysOf, KeysOf, MergeRecord
      <3> QED
        BY <2>1, <3>1 DEF MergeRecord
    <2>5. merge' = [merge EXCEPT ![g] = passed] \/ merge' = [merge EXCEPT ![g] = reading]
      BY <2>3
    <2> HIDE DEF passed, reading
    <2>6. MergesFrom(passed, base) /\ MergesFrom(reading, base)
      BY <2>2, <2>3, <2>4 DEF MergesFrom
    <2> QED
      BY <2>4, <2>5, <2>6, MergeReplaced DEF MergesOwn
  <1>5. CASE GetsValue(g)
    <2>1. m # NoMerge /\ m \in MergeRecord
      BY <1>2, <1>5 DEF GetsValue
    <2>2. PICK base \in Confs[x] : MergesFrom(m, base)
      BY <1>2, <2>1
    <2>3. PICK k \in m.left :
             merge' \in {[merge EXCEPT ![g].left = @ \ {k}, ![g].got = @ \cup {kv[k]}],
                         [merge EXCEPT ![g].at = NoMerge, ![g].left = {}, ![g].got = {}]}
      BY <1>5 DEF GetsValue
    <2> DEFINE read == [m EXCEPT !.left = @ \ {k}, !.got = @ \cup {kv[k]}]
               given == [m EXCEPT !.at = NoMerge, !.left = {}, !.got = {}]
    <2>4. k \in Key /\ kv[k] \in Value \cup {Absent}
      BY <2>1, <2>3 DEF MergeRecord, TypeOK, Contents
    <2>5. /\ read \in MergeRecord /\ given \in MergeRecord
          /\ read.conf = m.conf /\ read.todo = m.todo /\ read.at = m.at
          /\ given.conf = m.conf /\ given.todo = m.todo /\ given.at = NoMerge
      BY <2>1, <2>4 DEF MergeRecord
    <2>6. merge' = [merge EXCEPT ![g] = read] \/ merge' = [merge EXCEPT ![g] = given]
      BY <2>3 DEF MergeInv, MergeTypeOK
    <2> HIDE DEF read, given
    <2>7. MergesFrom(read, base) /\ MergesFrom(given, base)
      BY <2>2, <2>5 DEF MergesFrom
    <2> QED
      BY <2>5, <2>6, <2>7, MergeReplaced DEF MergesOwn
  <1>6. CASE MergeServers(g)
    <2>1. m # NoMerge /\ m \in MergeRecord /\ m.at # NoMerge
      BY <1>2, <1>6 DEF MergeServers
    <2>2. PICK base \in Confs[x] : MergesFrom(m, base)
      BY <1>2, <2>1
    <2> DEFINE s == m.at
    <2>3. s \in ToMerge(base) /\ m.conf \in Conf /\ m.got \in SUBSET (Value \cup {Absent})
      BY <2>1, <2>2 DEF MergeRecord, MergesFrom
    <2>4. PICK list \in Arrangements(m.got \cup Servers(m.conf, s[1], s[2])) :
             merge' = [merge EXCEPT ![g].conf = WithServers(@, s, list), ![g].at = NoMerge, ![g].got = {}]
      BY <1>6 DEF MergeServers
    <2> DEFINE new == WithServers(m.conf, s, list)
    <2>5. new \in Conf /\ Extended(new, base)
      BY <2>2, <2>3, <2>4, WithServersExtends DEF MergesFrom
    <2> DEFINE r == [m EXCEPT !.conf = WithServers(@, s, list), !.at = NoMerge, !.got = {}]
    <2>6. r \in MergeRecord /\ r.conf = new /\ r.todo = m.todo /\ r.at = NoMerge
      BY <2>1, <2>5 DEF MergeRecord
    <2>7. merge' = [merge EXCEPT ![g] = r]
      BY <2>4 DEF MergeInv, MergeTypeOK
    <2> HIDE DEF r, new
    <2>8. MergesFrom(r, base)
      BY <2>2, <2>5, <2>6 DEF MergesFrom
    <2> QED
      BY <2>6, <2>7, <2>8, MergeReplaced DEF MergesOwn
  <1>7. CASE StoreMerged(g)
    <2>1. merge' = [merge EXCEPT ![g] = NoMerge]
      BY <1>7 DEF StoreMerged
    <2> QED
      BY <2>1, MergeReplaced DEF MergesOwn
  <1> QED
    BY <1>3, <1>4, <1>5, <1>6, <1>7 DEF Merging

-------------------------------------------------------------------------------
(***************************************************************************)
(* The store's own invariants in the composition.                          *)
(***************************************************************************)
MergedInv == StoreInv /\ HomeInv /\ CleanInv /\ MergeInv

\* A step that changes nothing of the stores but the count of faults.
Reads ==
    /\ NoFault \/ Faulty("error")
    /\ UNCHANGED <<redis, mu, lastConfig, local, arg>>

LEMMA ReadsKeep ==
    ASSUME StoreInv, HomeInv, CleanInv, Reads
    PROVE  StoreInv' /\ HomeInv' /\ CleanInv'
  <1>1. UNCHANGED <<kv, members, membersNew, stamped, mu, lastConfig, pc, cat, todo, found, arg>>
    BY DEF Reads, redis, local
  <1>2. faults' \in 0..MaxFaults
    BY FaultsType DEF Reads, StoreInv
  <1>3. TypeOK' /\ LockInv'
    BY <1>1, <1>2 DEF StoreInv, TypeOK, LockInv
  <1>4. \A o \in Goroutine : Holds(o)' /\ Current(o)' /\ SafeRemoval(o)'
    BY <1>1, Untouched
  <1>5. StoreInv'
    BY <1>3, <1>4 DEF StoreInv, HoldInv, RenewalIsCurrent, RemovalInv, Holds, Current, SafeRemoval
  <1>6. HomeInv'
    BY <1>1, HomeUntouched DEF HomeInv
  <1>7. CleanInv'
    <2>1. faults' = 0 => faults = 0
      BY DEF Reads, NoFault, Faulty, StoreInv, TypeOK
    <2>2. \A x \in Host : SameKeys(x)
      BY <1>1 DEF SameKeys
    <2> QED
      BY <1>1, <2>1, <2>2, CleanSame DEF local
  <1> QED
    BY <1>5, <1>6, <1>7

\* The handler is called with what its containers may give once it is merged.
CallsMerged(g) == \A conf : StoreCall(g, conf) => conf \in MergedConfs(HostOf[g])

\* A handler that calls Store with what it merged calls it with a configuration
\* below its host's names that has all of its own servers.
LEMMA StoreMergedCalls ==
    ASSUME TypeOK, MergeInv, NEW g \in Handler, StoreMerged(g)
    PROVE  g \in Goroutine /\ Act(g) /\ CallsMerged(g)
  <1> DEFINE m == merge[g]
             x == HostOf[g]
  <1>1. g \in Goroutine /\ x \in Host /\ m # NoMerge /\ StoreCall(g, m.conf)
    BY DEF StoreMerged
  <1>2. m.conf \in Conf
    BY <1>1 DEF MergeInv, MergeTypeOK, MergeRecord
  <1>3. PICK base \in Confs[x] : Extended(m.conf, base)
    BY <1>1 DEF MergeInv, MergesOwn, MergesFrom
  <1>4. m.conf \in HomeConf(x) /\ m.conf \in MergedConfs(x)
    BY <1>1, <1>2, <1>3, ExtendedHome
  <1>5. Act(g)
    BY <1>1, <1>4 DEF Act, Calls
  <1>6. ASSUME NEW conf, StoreCall(g, conf)
        PROVE  conf \in MergedConfs(x)
    <2>1. arg'[g] = conf /\ arg'[g] = m.conf
      BY <1>1, <1>6, CalledWith
    <2> QED
      BY <1>4, <2>1
  <1> QED
    BY <1>1, <1>5, <1>6 DEF CallsMerged

\* What a step of the composition is to the stores.
LEMMA MergedStep ==
    ASSUME MergedInv, [MergeNext]_allVars
    PROVE  \/ Reads
           \/ \E g \in Goroutine : Act(g) /\ CallsMerged(g)
           \/ Environment
  <1>1. ASSUME NEW g \in Handler, Receive(g) \/ MergeServers(g)
        PROVE  Reads
    BY <1>1 DEF Receive, MergeServers, Reads, NoFault, vars
  <1>2. ASSUME NEW g \in Handler, GetsKeys(g) \/ GetsValue(g)
        PROVE  Reads
    BY <1>2 DEF GetsKeys, GetsValue, Reads
  <1>3. ASSUME NEW g \in Handler, StoreMerged(g)
        PROVE  \E o \in Goroutine : Act(o) /\ CallsMerged(o)
    BY <1>3, StoreMergedCalls DEF MergedInv, StoreInv
  <1>4. ASSUME NEW g \in Goroutine, KeepLock(g) \/ Work(g)
        PROVE  Act(g) /\ CallsMerged(g)
    <2>1. \A conf : ~StoreCall(g, conf)
      BY <1>4 DEF StoreCall, KeepLock, Work, Exists, Renew, Track, Diff, Scan, Unlink, CategoryDone,
             Write, WriteDone, Stale, Purge, StaleDone, Swap, Stamp
    <2> QED
      BY <1>4, <2>1 DEF Act, CallsMerged
  <1>5. CASE Flush \/ ExpireEarly \/ (\E k \in Key : Lapse(k)) \/ \E x \in Host : MergeCrash(x)
    BY <1>5 DEF Environment, MergeCrash
  <1>6. CASE UNCHANGED allVars
    BY <1>6 DEF allVars, vars, Reads, NoFault
  <1> QED
    BY <1>1, <1>2, <1>3, <1>4, <1>5, <1>6 DEF MergeNext, Merging

\* The stores keep their invariants, and a handler always has a configuration of
\* its containers in hand that merging has extended.
THEOREM MergedInvariant == MergeSpec => []MergedInv
  <1>1. MergeInit => MergedInv
    <2> SUFFICES ASSUME MergeInit
                 PROVE  MergedInv
      OBVIOUS
    <2>1. StoreInv /\ HomeInv /\ CleanInv
      BY InitInv, HomeInit, CleanInit DEF MergeInit, StoreInv
    <2>2. MergeInv
      BY DEF MergeInit, MergeInv, MergeTypeOK, MergesOwn
    <2> QED
      BY <2>1, <2>2 DEF MergedInv
  <1>2. MergedInv /\ [MergeNext]_allVars => MergedInv'
    <2> SUFFICES ASSUME MergedInv, [MergeNext]_allVars
                 PROVE  MergedInv'
      OBVIOUS
    <2> USE DEF MergedInv
    <2>1. StoreInv' /\ HomeInv'
      BY MergedStep, ReadsKeep, RunInv, HomeAct, EnvironmentInv, HomeEnvironment
    <2>2. CleanInv'
      BY MergedStep, ReadsKeep, CleanAct, CleanEnvironment
    <2>3. ASSUME merge' \in [Handler -> MergeRecord \cup {NoMerge}],
                 \A g \in Handler : merge'[g] \in {NoMerge, merge[g]}
          PROVE  MergeInv'
      <3>1. ASSUME NEW g \in Handler
            PROVE  MergesOwn(g, merge[g])'
        <4>1. MergesOwn(g, merge[g]) /\ MergesOwn(g, NoMerge)
          BY DEF MergeInv, MergesOwn
        <4> QED
          BY <2>3, <4>1, MergesOwnNext
      <3> QED
        BY <2>3, <3>1 DEF MergeInv, MergeTypeOK
    <2>4. ASSUME UNCHANGED merge
          PROVE  MergeInv'
      BY <2>3, <2>4 DEF MergeInv, MergeTypeOK
    <2>5. ASSUME NEW g \in Handler, Receive(g) \/ Merging(g) \/ StoreMerged(g)
          PROVE  MergeInv'
      BY <2>5, MergeSteps DEF StoreInv
    <2>6. ASSUME NEW x \in Host, MergeCrash(x)
          PROVE  MergeInv'
      <3>1. merge' = [g \in Handler |-> IF HostOf[g] = x THEN NoMerge ELSE merge[g]]
        BY <2>6 DEF MergeCrash
      <3> QED
        BY <2>3, <3>1 DEF MergeInv, MergeTypeOK
    <2> QED
      BY <2>1, <2>2, <2>4, <2>5, <2>6 DEF MergeNext, mergeVars, allVars
  <1> QED
    BY <1>1, <1>2, PTL DEF MergeSpec

\* Merging keeps the handlers at home: a host that takes over the servers of
\* others still changes no key below a name that its own containers never have,
\* and a renewal writes nothing but what was stored last.
THEOREM MergedStaysHome == MergeSpec => StaysHome
  <1>1. ASSUME MergedInv, [MergeNext]_allVars
        PROVE  [StaysHomeStep]_vars
    <2>1. CASE Reads
      BY <2>1 DEF Reads, redis, local, StaysHomeStep, Moves
    <2> QED
      BY <1>1, <2>1, MergedStep, StaysHomeAct, StaysHomeEnvironment DEF MergedInv
  <1> QED
    BY <1>1, MergedInvariant, PTL DEF MergeSpec, StaysHome

\* As long as nothing fails, a Store of a merged configuration that has returned
\* has installed it under the host's own names, whatever the other hosts merge
\* and store meanwhile.
THEOREM MergedInstalledHolds == MergeSpec => []InstalledWhenIdle
  <1>1. MergedInv => InstalledWhenIdle
    BY CleanInstalls DEF MergedInv
  <1> QED
    BY <1>1, MergedInvariant, PTL

\* Also between a merge and the Store after it, and after any fault, the timer
\* and the poller store nothing but what this host has finished last.
THEOREM MergedRenewalCurrent == MergeSpec => []RenewalIsCurrent
  <1>1. MergedInv => RenewalIsCurrent
    BY DEF MergedInv, StoreInv
  <1> QED
    BY <1>1, MergedInvariant, PTL

\* As long as nothing fails, no key of a category that a merging host shares
\* with nobody is untracked, between any two commands.
THEOREM MergedTrackedHolds == MergeSpec => []TrackedWhileClean
  <1>1. MergedInv => TrackedWhileClean
    BY CleanTracks DEF MergedInv, StoreInv
  <1> QED
    BY <1>1, MergedInvariant, PTL

\* A host that installs what it has merged deletes no key of it, the keys that
\* servers of other hosts have in it included.
THEOREM MergedNoGap == MergeSpec => NoGap
  <1>1. ASSUME MergedInv, [MergeNext]_allVars
        PROVE  [NoGapStep]_vars
    <2>1. CASE Reads
      BY <2>1 DEF Reads, redis, NoGapStep
    <2> QED
      BY <1>1, <2>1, MergedStep, NoGapAct, NoGapEnvironment DEF MergedInv
  <1> QED
    BY <1>1, MergedInvariant, PTL DEF MergeSpec, NoGap

-------------------------------------------------------------------------------
(***************************************************************************)
(* The refinement.                                                         *)
(***************************************************************************)

\* Apart from what hosts begin with, the two instances of Publication agree.
LEMMA SamePublication ==
    /\ Abstract!Init => MergedAbstract!Init
    /\ \A x \in Host : /\ Abstract!Install(x) => MergedAbstract!Install(x)
                       /\ Abstract!Finish(x) => MergedAbstract!Finish(x)
                       /\ Abstract!Abort(x) => MergedAbstract!Abort(x)
                       /\ Abstract!Restart(x) => MergedAbstract!Restart(x)
    /\ Abstract!Lose => MergedAbstract!Lose
    /\ Abstract!Expire => MergedAbstract!Expire
    /\ UNCHANGED Abstract!vars => UNCHANGED MergedAbstract!vars
  <1>1. \A conf : MergedAbstract!Published(conf) = Published(conf)
    BY DEF MergedAbstract!Published, Published
  <1>2. \A conf, c : MergedAbstract!Names(conf, c) = Names(conf, c)
    BY DEF MergedAbstract!Names, MergedAbstract!Entry, Names, Entry
  <1>3. \A x : MergedAbstract!KeysUnder(x) = KeysUnder(x)
    BY <1>2 DEF MergedAbstract!KeysUnder, KeysUnder
  <1>4. \A x : MergedAbstract!Own(x) = Own(x)
    BY <1>3 DEF MergedAbstract!Own, Own
  <1>5. \A x : MergedAbstract!Removable(x) = Removable(x)
    <2>1. \A conf, c : MergedAbstract!AllKeyed(conf, c) <=> AllKeyed(conf, c)
      BY <1>1, <1>2 DEF MergedAbstract!AllKeyed, AllKeyed
    <2> QED
      BY <1>3, <1>4, <2>1 DEF MergedAbstract!Removable, Removable
  <1>6. \A x, conf : Abstract!Installed(x, conf) <=> MergedAbstract!Installed(x, conf)
    BY <1>2, <1>4, <1>5, SameNotions DEF Abstract!Installed, MergedAbstract!Installed
  <1>7. ASSUME NEW x \in Host
        PROVE  Abstract!Toward(x) <=> MergedAbstract!Toward(x)
    BY DEF Abstract!Toward, MergedAbstract!Toward
  <1>8. ASSUME NEW x \in Host
        PROVE  Abstract!Install(x) => MergedAbstract!Install(x)
    BY <1>7 DEF Abstract!Install, MergedAbstract!Install
  <1>9. ASSUME NEW x \in Host
        PROVE  Abstract!Finish(x) => MergedAbstract!Finish(x)
    BY <1>6 DEF Abstract!Finish, MergedAbstract!Finish
  <1>10. ASSUME NEW x \in Host
         PROVE  Abstract!Abort(x) => MergedAbstract!Abort(x)
    BY <1>7 DEF Abstract!Abort, MergedAbstract!Abort
  <1>11. ASSUME NEW x \in Host
         PROVE  Abstract!Restart(x) => MergedAbstract!Restart(x)
    BY DEF Abstract!Restart, MergedAbstract!Restart
  <1>12. Abstract!Lose => MergedAbstract!Lose
    BY DEF Abstract!Lose, MergedAbstract!Lose
  <1>13. Abstract!Expire => MergedAbstract!Expire
    BY DEF Abstract!Expire, MergedAbstract!Expire
  <1>14. Abstract!Init => MergedAbstract!Init
    BY DEF Abstract!Init, MergedAbstract!Init
  <1>15. UNCHANGED Abstract!vars => UNCHANGED MergedAbstract!vars
    BY DEF Abstract!vars, MergedAbstract!vars
  <1> QED
    BY <1>8, <1>9, <1>10, <1>11, <1>12, <1>13, <1>14, <1>15

\* A host begins with what its containers give once it is merged, or with its
\* last configuration.
LEMMA MergedStart ==
    ASSUME NEW g \in Goroutine, CallsMerged(g), NEW conf, StartsWith(HostOf[g], conf),
           StoreCall(g, conf) \/ conf \in {lastConfig[HostOf[g]]} \ {NoConf}
    PROVE  MergedAbstract!Start(HostOf[g])
  <1> DEFINE x == HostOf[g]
             offered == [y \in Host |-> MergedConfs(y)]
  <1>1. x \in Host /\ offered[x] = MergedConfs(x)
    OBVIOUS
  <1>2. conf \in offered[x] \cup ({lastConfig[x]} \ {NoConf})
    BY <1>1 DEF CallsMerged
  <1>3. /\ Progress[x] = NoConf /\ Progress'[x] = conf
        /\ Progress' = [Progress EXCEPT ![x] = Progress'[x]]
        /\ UNCHANGED <<kv, lastConfig, faults = 0>>
    BY <1>1 DEF StartsWith, Turns, Progress
  <1> QED
    BY <1>2, <1>3 DEF MergedAbstract!Start, Progress

\* Hosts that merge implement Publication with what merging may make of their
\* configurations, for any hosts, services and addresses, whatever fails and in
\* whichever order what they read and write reaches Redis.
THEOREM MergedRefinement == MergeSpec => ImplementsMergedPublication
  <1>1. MergeInit => MergedAbstract!Init
    BY InitAbstract, SamePublication DEF MergeInit
  <1>2. MergedInv /\ MergedInv' /\ [MergeNext]_allVars => [MergedAbstract!Next]_(MergedAbstract!vars)
    <2> SUFFICES ASSUME MergedInv, MergedInv', [MergeNext]_allVars
                 PROVE  MergedAbstract!Next \/ UNCHANGED MergedAbstract!vars
      OBVIOUS
    <2>1. CASE Reads
      <3>1. UNCHANGED <<kv, lastConfig, mu, pc, arg>>
        BY <2>1 DEF Reads, redis, local
      <3>2. UNCHANGED Progress
        BY <3>1 DEF Progress, Installing
      <3>3. CASE NoFault
        BY <3>1, <3>2, <3>3 DEF NoFault, MergedAbstract!vars, Progress
      <3>4. CASE Faulty("error")
        <4>1. faults' # 0
          BY <3>4 DEF Faulty, MergedInv, StoreInv, TypeOK
        <4>2. (faults' = 0) = FALSE
          BY <4>1, Zenon
        <4>3. MergedAbstract!Lose
          BY <3>1, <3>2, <4>2 DEF MergedAbstract!Lose, Progress
        <4> QED
          BY <4>3 DEF MergedAbstract!Next
      <3> QED
        BY <2>1, <3>3, <3>4 DEF Reads
    <2>2. ASSUME NEW g \in Goroutine, Act(g), CallsMerged(g)
          PROVE  MergedAbstract!Next \/ UNCHANGED MergedAbstract!vars
      <3>1. StoreInv /\ StoreInv' /\ HomeInv /\ CleanInv
        BY DEF MergedInv
      <3>2. HostOf[g] \in Host
        OBVIOUS
      <3>3. \/ MergedAbstract!Start(HostOf[g])
            \/ \E x \in Host : Abstract!Install(x) \/ Abstract!Finish(x) \/ Abstract!Abort(x)
            \/ Abstract!Lose
            \/ UNCHANGED Abstract!vars
        BY <2>2, <3>1, ActAbstract, MergedStart
      <3> QED
        BY <3>2, <3>3, SamePublication DEF MergedAbstract!Next
    <2>3. CASE Environment
      <3>1. Abstract!Lose \/ Abstract!Expire \/ \E x \in Host : Abstract!Restart(x)
        BY <2>3, EnvironmentAbstract DEF MergedInv
      <3> QED
        BY <3>1, SamePublication DEF MergedAbstract!Next
    <2> QED
      BY <2>1, <2>2, <2>3, MergedStep
  <1> QED
    BY <1>1, <1>2, MergedInvariant, PTL
       DEF MergeSpec, ImplementsMergedPublication, MergedAbstract!Spec
===============================================================================
