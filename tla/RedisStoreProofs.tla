--------------------------- MODULE RedisStoreProofs ---------------------------
(***************************************************************************)
(* What RedisStore guarantees for any hosts, goroutines, keys and          *)
(* configurations, and under any faults: the types, the mutual exclusion   *)
(* of the goroutines of a process, RenewalIsCurrent and NoGap.             *)
(***************************************************************************)
EXTENDS RedisStore, TLAPS

USE StoreAssumption

\* The names of its configuration that a goroutine about to send SDIFF would be
\* told to remove.
Endangered(g) ==
    Names(arg[g], CatOf(g)) \cap
        (members[HostOf[g]][CatOf(g)] \ membersNew[HostOf[g]][CatOf(g)])

\* What a goroutine is about to remove is not in its configuration.
RemovalInv ==
    \A g \in Goroutine :
        /\ pc[g] = "diff" => Endangered(g) = {}
        /\ pc[g] \in Removing => todo[g] \cap Names(arg[g], CatOf(g)) = {}
        /\ pc[g] \in {"unlink", "purge"} => \A k \in found[g] : arg[g][k] = Absent

-------------------------------------------------------------------------------
\* The keys and the names of a configuration are keys and names.
LEMMA PublishedType ==
    ASSUME NEW conf \in Conf, NEW d
    PROVE  Published(conf) \subseteq Key /\ Names(conf, d) \subseteq Name
  BY DEF Published, Names, Entry

\* A key that a configuration publishes has a name of the configuration.
LEMMA PublishedName ==
    ASSUME NEW conf \in Conf, NEW k \in Key, conf[k] # Absent
    PROVE  k.name \in Names(conf, k.cat)
  BY DEF Names, Entry

\* Deleting keys from Redis leaves a function of the same type.
LEMMA WithoutType ==
    ASSUME TypeOK, NEW D
    PROVE  Without(D) \in Contents
  BY DEF TypeOK, Without, Contents

\* The names of category d that host x may publish, and whether each of them
\* always comes with keys.
NamesUnder(x, d) == UNION {Names(conf, d) : conf \in Confs[x]}

Keyed(x, d) == \A conf \in Confs[x] : AllKeyed(conf, d)

\* The configurations that host x may come to store: its containers' own, or
\* (MergedStore) ones that another host has added servers to.
HomeConf(x) ==
    {conf \in Conf : \A d :
        /\ Names(conf, d) \subseteq NamesUnder(x, d)
        /\ Keyed(x, d) => AllKeyed(conf, d)}

\* A step of goroutine g, with any such configuration.
Calls(g) == \E conf \in HomeConf(HostOf[g]) : StoreCall(g, conf)

Act(g) == Calls(g) \/ KeepLock(g) \/ Work(g)

\* The steps of the specification are such steps.
LEMMA RunIsAct ==
    ASSUME NEW g \in Goroutine, Run(g)
    PROVE  Act(g)
  <1>1. CASE StoreLock(g)
    <2>1. PICK conf \in Confs[HostOf[g]] : StoreCall(g, conf)
      BY <1>1 DEF StoreLock
    <2>2. conf \in Conf
      BY <2>1
    <2>3. \A d : Names(conf, d) \subseteq NamesUnder(HostOf[g], d)
      BY <2>1 DEF NamesUnder
    <2>4. \A d : Keyed(HostOf[g], d) => AllKeyed(conf, d)
      BY <2>1 DEF Keyed
    <2> QED
      BY <2>1, <2>2, <2>3, <2>4 DEF Act, Calls, HomeConf
  <1> QED
    BY <1>1 DEF Run, Act

\* The initial state satisfies every part of the invariant.
LEMMA InitInv == Init => TypeOK /\ LockInv /\ HoldInv /\ RenewalIsCurrent /\ RemovalInv
  <1> SUFFICES ASSUME Init
               PROVE  TypeOK /\ LockInv /\ HoldInv /\ RenewalIsCurrent /\ RemovalInv
    OBVIOUS
  <1>1. 1 \in DOMAIN CatSeq
    OBVIOUS
  <1>2. TypeOK
    BY <1>1 DEF Init, TypeOK, Inside, Outside, Storing, Contents, Cat
  <1>3. LockInv /\ HoldInv /\ RenewalIsCurrent /\ RemovalInv
    BY DEF Init, LockInv, HoldInv, RenewalIsCurrent, RemovalInv, Inside, Storing, Removing
  <1> QED
    BY <1>2, <1>3

-------------------------------------------------------------------------------
(***************************************************************************)
(* Types.                                                                  *)
(***************************************************************************)
LocalOK ==
    /\ pc \in [Goroutine -> Inside \cup Outside]
    /\ cat \in [Goroutine -> DOMAIN CatSeq]
    /\ todo \in [Goroutine -> SUBSET Name]
    /\ found \in [Goroutine -> SUBSET Key]

\* There is a first category.
LEMMA FirstCat == 1 \in DOMAIN CatSeq
  OBVIOUS

\* Moving a goroutine on to a place of the right type keeps the local types.
LEMMA AtType ==
    ASSUME TypeOK, NEW g \in Goroutine, NEW p \in Inside \cup Outside,
           NEW i \in DOMAIN CatSeq, NEW t \in SUBSET Name, NEW f \in SUBSET Key,
           At(g, p, i, t, f)
    PROVE  LocalOK'
  BY DEF TypeOK, At, LocalOK

\* The mutex, the configuration and the local variables after a return.
LEMMA ReturnType ==
    ASSUME TypeOK, NEW g \in Goroutine, NEW p \in Outside, Return(g, p)
    PROVE  /\ LocalOK'
           /\ mu' \in [Host -> Goroutine \cup {Free}]
           /\ arg' \in [Goroutine -> Conf \cup {NoConf}]
  <1>1. At(g, p, 1, {}, {})
    BY DEF Return
  <1>2. LocalOK'
    BY <1>1, AtType, FirstCat
  <1> QED
    BY <1>2 DEF Return, TypeOK

\* The configuration and the local variables when store() starts.
LEMMA BeginStoreType ==
    ASSUME TypeOK, NEW g \in Goroutine, NEW conf \in Conf, BeginStore(g, conf)
    PROVE  LocalOK' /\ arg' \in [Goroutine -> Conf \cup {NoConf}]
  <1>1. At(g, "track", 1, {}, {})
    BY DEF BeginStore
  <1>2. LocalOK'
    BY <1>1, AtType, FirstCat DEF Inside, Storing
  <1> QED
    BY <1>2 DEF BeginStore, TypeOK

\* The number of faults stays within its bound.
LEMMA FaultsType ==
    ASSUME TypeOK, NoFault \/ \E f : Faulty(f)
    PROVE  faults' \in 0..MaxFaults
  BY DEF TypeOK, NoFault, Faulty

\* Every step of a goroutine preserves the types.
LEMMA WorkType ==
    ASSUME TypeOK, LockInv, HoldInv, NEW g \in Goroutine, Act(g)
    PROVE  TypeOK'
  <1>1. CASE Calls(g)
    <2>1. PICK conf \in HomeConf(HostOf[g]) : BeginStore(g, conf)
      BY <1>1 DEF Calls, StoreCall
    <2>2. conf \in Conf
      BY <2>1 DEF HomeConf
    <2> QED
      BY <1>1, <2>1, <2>2, BeginStoreType DEF Calls, StoreCall, TypeOK, LocalOK, redis
  <1>2. CASE KeepLock(g)
    <2>1. LocalOK'
      BY <1>2, AtType, FirstCat DEF KeepLock, Inside
    <2> QED
      BY <1>2, <2>1 DEF KeepLock, TypeOK, LocalOK, redis
  <1>3. CASE Exists(g)
    <2>1. lastConfig[HostOf[g]] \in Conf
      BY <1>3 DEF Exists, HoldInv, TypeOK
    <2>2. faults' \in 0..MaxFaults
      BY <1>3, FaultsType DEF Exists
    <2>3. CASE BeginStore(g, lastConfig[HostOf[g]]) /\ UNCHANGED mu
      BY <1>3, <2>1, <2>2, <2>3, BeginStoreType DEF Exists, TypeOK, LocalOK, redis
    <2>4. CASE At(g, "renew", 1, {}, Published(lastConfig[HostOf[g]])) /\ UNCHANGED <<mu, arg>>
      <3>1. LocalOK'
        BY <2>1, <2>4, PublishedType, AtType, FirstCat DEF Inside
      <3> QED
        BY <1>3, <2>2, <2>4, <3>1 DEF Exists, TypeOK, LocalOK, redis
    <2>5. CASE Return(g, "idle")
      BY <1>3, <2>2, <2>5, ReturnType DEF Exists, TypeOK, LocalOK, redis, Outside
    <2> QED
      BY <1>3, <2>3, <2>4, <2>5 DEF Exists
  <1>4. CASE Renew(g)
    <2>1. lastConfig[HostOf[g]] \in Conf
      BY <1>4 DEF Renew, HoldInv, TypeOK
    <2>2. faults' \in 0..MaxFaults
      BY <1>4, FaultsType DEF Renew
    <2>3. CASE BeginStore(g, lastConfig[HostOf[g]]) /\ UNCHANGED mu
      BY <1>4, <2>1, <2>2, <2>3, BeginStoreType DEF Renew, TypeOK, LocalOK, redis
    <2>4. CASE \E k \in found[g] : At(g, "renew", 1, {}, found[g] \ {k}) /\ UNCHANGED <<mu, arg>>
      <3>1. LocalOK'
        <4>1. PICK k \in found[g] : At(g, "renew", 1, {}, found[g] \ {k})
          BY <2>4
        <4>2. found[g] \ {k} \in SUBSET Key
          BY DEF TypeOK, LocalOK
        <4> QED
          BY <4>1, <4>2, AtType, FirstCat DEF Inside
      <3> QED
        BY <1>4, <2>2, <2>4, <3>1 DEF Renew, TypeOK, LocalOK, redis
    <2>5. CASE Return(g, "idle")
      BY <1>4, <2>2, <2>5, ReturnType DEF Renew, TypeOK, LocalOK, redis, Outside
    <2> QED
      BY <1>4, <2>3, <2>4, <2>5 DEF Renew
  <1>5. CASE Track(g)
    <2> DEFINE new == Names(arg[g], CatOf(g))
    <2>1. arg[g] \in Conf /\ cat[g] \in DOMAIN CatSeq /\ CatOf(g) \in Cat
      BY <1>5 DEF Track, HoldInv, TypeOK, Storing, CatOf, Cat
    <2>2. new \in SUBSET Name
      BY <2>1, PublishedType
    <2>3. members[HostOf[g]][CatOf(g)] \in SUBSET Name
      BY <2>1 DEF TypeOK, LocalOK
    <2>4. faults' \in 0..MaxFaults
      BY <1>5, FaultsType DEF Track
    <2>5. LocalOK'
      <3>1. \/ At(g, "diff", cat[g], {}, {})
            \/ At(g, "scan", cat[g], {}, {})
            \/ At(g, "scan", cat[g], members[HostOf[g]][CatOf(g)], {})
        BY <1>5 DEF Track
      <3>2. CASE At(g, "diff", cat[g], {}, {})
        BY <2>1, <3>2, AtType DEF Inside, Storing
      <3>3. CASE At(g, "scan", cat[g], {}, {})
        BY <2>1, <3>3, AtType DEF Inside, Storing
      <3>4. CASE At(g, "scan", cat[g], members[HostOf[g]][CatOf(g)], {})
        BY <2>1, <2>3, <3>4, AtType DEF Inside, Storing
      <3> QED
        BY <3>1, <3>2, <3>3, <3>4
    <2>6. [membersNew EXCEPT ![HostOf[g]][CatOf(g)] = @ \cup new] \in [Host -> [Cat -> SUBSET Name]]
      BY <2>1, <2>2 DEF TypeOK, LocalOK
    <2>7. membersNew' \in [Host -> [Cat -> SUBSET Name]]
      BY <1>5, <2>6 DEF Track, TypeOK, LocalOK
    <2> QED
      BY <1>5, <2>4, <2>5, <2>7 DEF Track, TypeOK, LocalOK
  <1>6. CASE Diff(g)
    <2>1. cat[g] \in DOMAIN CatSeq /\ CatOf(g) \in Cat
      BY DEF TypeOK, LocalOK, CatOf, Cat
    <2>2. members[HostOf[g]][CatOf(g)] \ membersNew[HostOf[g]][CatOf(g)] \in SUBSET Name
      BY <2>1 DEF TypeOK, LocalOK
    <2>3. faults' \in 0..MaxFaults
      BY <1>6, FaultsType DEF Diff
    <2>4. LocalOK'
      <3> DEFINE old == members[HostOf[g]][CatOf(g)] \ membersNew[HostOf[g]][CatOf(g)]
      <3>1. At(g, "scan", cat[g], old, {}) \/ At(g, "scan", cat[g], {}, {})
        BY <1>6 DEF Diff
      <3>2. old \in SUBSET Name
        BY <2>2
      <3> HIDE DEF old
      <3>3. CASE At(g, "scan", cat[g], old, {})
        BY <2>1, <3>2, <3>3, AtType DEF Inside, Storing
      <3>4. CASE At(g, "scan", cat[g], {}, {})
        BY <2>1, <3>4, AtType DEF Inside, Storing
      <3> QED
        BY <3>1, <3>3, <3>4
    <2> QED
      BY <1>6, <2>3, <2>4 DEF Diff, TypeOK, LocalOK, redis
  <1>7. CASE Scan(g)
    <2>1. cat[g] \in DOMAIN CatSeq /\ todo[g] \in SUBSET Name
      BY DEF TypeOK, LocalOK
    <2>2. \A n : KeysOf(CatOf(g), n) \in SUBSET Key /\ todo[g] \ {n} \in SUBSET Name
      BY <2>1 DEF KeysOf
    <2>3. faults' \in 0..MaxFaults
      BY <1>7, FaultsType DEF Scan
    <2>4. LocalOK'
      <3>1. CASE \E n \in todo[g] :
                   At(g, "unlink", cat[g], todo[g] \ {n}, KeysOf(CatOf(g), n))
        <4>1. PICK n \in todo[g] : At(g, "unlink", cat[g], todo[g] \ {n}, KeysOf(CatOf(g), n))
          BY <3>1
        <4>2. "unlink" \in Inside \cup Outside
          BY DEF Inside, Storing
        <4> QED
          BY <2>1, <2>2, <4>1, <4>2, AtType
      <3>2. CASE At(g, "scan", cat[g], {}, {})
        <4>1. "scan" \in Inside \cup Outside
          BY DEF Inside, Storing
        <4>2. {} \in SUBSET Name /\ {} \in SUBSET Key
          OBVIOUS
        <4> QED
          BY <2>1, <3>2, <4>1, <4>2, AtType
      <3> QED
        BY <1>7, <3>1, <3>2 DEF Scan
    <2> QED
      BY <1>7, <2>3, <2>4 DEF Scan, TypeOK, LocalOK, redis
  <1>8. CASE Unlink(g)
    <2>1. cat[g] \in DOMAIN CatSeq /\ todo[g] \in SUBSET Name
      BY DEF TypeOK, LocalOK
    <2>2. faults' \in 0..MaxFaults
      BY <1>8, FaultsType DEF Unlink
    <2>3. LocalOK'
      BY <1>8, <2>1, AtType DEF Unlink, Inside, Storing
    <2>4. kv' \in Contents
      BY <1>8, WithoutType DEF Unlink, TypeOK, LocalOK
    <2> QED
      BY <1>8, <2>2, <2>3, <2>4 DEF Unlink, TypeOK, LocalOK
  <1>9. CASE CategoryDone(g)
    <2>1. arg[g] \in Conf /\ cat[g] \in 1..Len(CatSeq)
      BY <1>9 DEF CategoryDone, HoldInv, TypeOK, Storing
    <2>2. CASE cat[g] < Len(CatSeq)
      <3>1. cat[g] + 1 \in DOMAIN CatSeq
        BY <2>1, <2>2
      <3>2. LocalOK'
        BY <1>9, <2>2, <3>1, AtType DEF CategoryDone, Inside, Storing
      <3> QED
        BY <1>9, <3>2 DEF CategoryDone, TypeOK, LocalOK, redis
    <2>3. CASE ~(cat[g] < Len(CatSeq))
      <3>1. Published(arg[g]) \in SUBSET Key
        BY <2>1, PublishedType
      <3>2. LocalOK'
        BY <1>9, <2>3, <3>1, AtType, FirstCat DEF CategoryDone, Inside, Storing
      <3> QED
        BY <1>9, <3>2 DEF CategoryDone, TypeOK, LocalOK, redis
    <2> QED
      BY <2>2, <2>3
  <1>10. CASE Write(g)
    <2>1. arg[g] \in Conf
      BY <1>10 DEF Write, HoldInv, TypeOK, Storing
    <2>2. PICK k \in found[g] :
             LET written == [kv EXCEPT ![k] = arg[g][k]]
             IN  \/ /\ NoFault
                    /\ kv' = written
                    /\ At(g, "write", 1, {}, found[g] \ {k})
                    /\ UNCHANGED <<mu, arg>>
                 \/ /\ Faulty("error")
                    /\ kv' \in {kv, written}
                    /\ Fail(g)
      BY <1>10 DEF Write
    <2>3. k \in Key /\ found[g] \ {k} \in SUBSET Key
      BY <2>2 DEF TypeOK, LocalOK
    <2>4. kv' \in Contents
      BY <2>1, <2>2, <2>3 DEF TypeOK, LocalOK, Conf, Contents, Entry
    <2>5. faults' \in 0..MaxFaults
      BY <2>2, FaultsType
    <2>6. CASE At(g, "write", 1, {}, found[g] \ {k}) /\ UNCHANGED <<mu, arg>>
      <3>1. LocalOK'
        BY <2>3, <2>6, AtType, FirstCat DEF Inside, Storing
      <3> QED
        BY <1>10, <2>4, <2>5, <2>6, <3>1 DEF Write, TypeOK, LocalOK
    <2>7. CASE Fail(g)
      <3>1. \E p \in Outside : Return(g, p)
        BY <2>7 DEF Fail, Outside
      <3> QED
        BY <1>10, <2>4, <2>5, <3>1, ReturnType DEF Write, TypeOK, LocalOK
    <2> QED
      BY <2>2, <2>6, <2>7
  <1>11. ASSUME NEW i \in DOMAIN CatSeq, pc[g] \in Storing
         PROVE  StaleNames(g, i) \in SUBSET Name
    <2>1. arg[g] \in Conf
      BY <1>11 DEF HoldInv, TypeOK
    <2> QED
      BY <2>1, PublishedType DEF StaleNames
  <1>12. CASE WriteDone(g)
    <2>1. LocalOK'
      BY <1>11, <1>12, AtType, FirstCat DEF WriteDone, Inside, Storing
    <2> QED
      BY <1>12, <2>1 DEF WriteDone, TypeOK, LocalOK, redis
  <1>13. CASE Stale(g)
    <2>1. cat[g] \in DOMAIN CatSeq /\ todo[g] \in SUBSET Name
      BY DEF TypeOK, LocalOK
    <2>2. faults' \in 0..MaxFaults
      BY <1>13, FaultsType DEF Stale
    <2>3. \A n : {k \in ServerKeysOf(CatOf(g), n) : arg[g][k] = Absent} \in SUBSET Key
      BY DEF ServerKeysOf, KeysOf
    <2>4. LocalOK'
      <3>1. PICK n \in todo[g] :
               \/ At(g, "purge", cat[g], todo[g] \ {n},
                     {k \in ServerKeysOf(CatOf(g), n) : arg[g][k] = Absent})
               \/ At(g, "stale", cat[g], todo[g] \ {n}, {})
        BY <1>13 DEF Stale
      <3> DEFINE t == todo[g] \ {n}
                 f == {k \in ServerKeysOf(CatOf(g), n) : arg[g][k] = Absent}
      <3>2. t \in SUBSET Name /\ f \in SUBSET Key
        BY <2>1, <2>3
      <3>3. At(g, "purge", cat[g], t, f) \/ At(g, "stale", cat[g], t, {})
        BY <3>1
      <3> HIDE DEF t, f
      <3>4. CASE At(g, "purge", cat[g], t, f)
        BY <2>1, <3>2, <3>4, AtType DEF Inside, Storing
      <3>5. CASE At(g, "stale", cat[g], t, {})
        BY <2>1, <3>2, <3>5, AtType DEF Inside, Storing
      <3> QED
        BY <3>3, <3>4, <3>5
    <2> QED
      BY <1>13, <2>2, <2>4 DEF Stale, TypeOK, LocalOK, redis
  <1>14. CASE Purge(g)
    <2>1. /\ cat[g] \in DOMAIN CatSeq
          /\ todo[g] \in SUBSET Name
          /\ \A k : found[g] \ {k} \in SUBSET Key
      BY DEF TypeOK, LocalOK
    <2>2. faults' \in 0..MaxFaults
      BY <1>14, FaultsType DEF Purge
    <2>3. LocalOK'
      <3>1. \/ \E k \in found[g] : At(g, "purge", cat[g], todo[g], found[g] \ {k})
            \/ At(g, "stale", cat[g], todo[g], {})
        BY <1>14 DEF Purge
      <3>2. ASSUME NEW k \in found[g], At(g, "purge", cat[g], todo[g], found[g] \ {k})
            PROVE  LocalOK'
        <4>1. found[g] \ {k} \in SUBSET Key /\ "purge" \in Inside \cup Outside
          BY <2>1 DEF Inside, Storing
        <4> QED
          BY <2>1, <3>2, <4>1, AtType
      <3>3. CASE At(g, "stale", cat[g], todo[g], {})
        BY <2>1, <3>3, AtType DEF Inside, Storing
      <3> QED
        BY <3>1, <3>2, <3>3
    <2>4. kv' \in Contents
      <3>1. kv' = kv \/ \E k \in found[g] : kv' = Without({k})
        BY <1>14 DEF Purge
      <3>2. kv \in Contents /\ \A D : Without(D) \in Contents
        BY WithoutType DEF TypeOK
      <3> QED
        BY <3>1, <3>2
    <2> QED
      BY <1>14, <2>2, <2>3, <2>4 DEF Purge, TypeOK, LocalOK
  <1>15. CASE StaleDone(g)
    <2>1. cat[g] \in 1..Len(CatSeq)
      BY DEF TypeOK, LocalOK
    <2>2. LocalOK'
      <3>1. CASE cat[g] < Len(CatSeq)
        <4>1. cat[g] + 1 \in DOMAIN CatSeq
          BY <2>1, <3>1
        <4>2. StaleNames(g, cat[g] + 1) \in SUBSET Name
          BY <4>1, <1>11, <1>15 DEF StaleDone, Storing
        <4> QED
          BY <1>15, <3>1, <4>1, <4>2, AtType DEF StaleDone, Inside, Storing
      <3>2. CASE ~(cat[g] < Len(CatSeq))
        BY <1>15, <3>2, AtType, FirstCat DEF StaleDone, Inside, Storing
      <3> QED
        BY <3>1, <3>2
    <2> QED
      BY <1>15, <2>2 DEF StaleDone, TypeOK, LocalOK, redis
  <1>16. CASE Swap(g)
    <2>1. cat[g] \in 1..Len(CatSeq) /\ CatOf(g) \in Cat
      BY DEF TypeOK, LocalOK, CatOf, Cat
    <2>2. faults' \in 0..MaxFaults
      BY <1>16, FaultsType DEF Swap
    <2>3. LocalOK'
      <3>1. cat[g] < Len(CatSeq) => cat[g] + 1 \in DOMAIN CatSeq
        BY <2>1
      <3>2. QED
        <4>1. \/ At(g, "swap", cat[g] + 1, {}, {}) /\ cat[g] < Len(CatSeq)
              \/ At(g, "stamp", 1, {}, {})
          BY <1>16 DEF Swap
        <4>2. CASE At(g, "swap", cat[g] + 1, {}, {}) /\ cat[g] < Len(CatSeq)
          BY <3>1, <4>2, AtType DEF Inside, Storing
        <4>3. CASE At(g, "stamp", 1, {}, {})
          BY <4>3, AtType, FirstCat DEF Inside, Storing
        <4> QED
          BY <4>1, <4>2, <4>3
    <2>4. /\ [membersNew EXCEPT ![HostOf[g]][CatOf(g)] = {}] \in [Host -> [Cat -> SUBSET Name]]
          /\ [members EXCEPT ![HostOf[g]][CatOf(g)] = {}] \in [Host -> [Cat -> SUBSET Name]]
          /\ [members EXCEPT ![HostOf[g]][CatOf(g)] = membersNew[HostOf[g]][CatOf(g)]]
                \in [Host -> [Cat -> SUBSET Name]]
      BY <2>1 DEF TypeOK, LocalOK
    <2>5. members' \in [Host -> [Cat -> SUBSET Name]] /\ membersNew' \in [Host -> [Cat -> SUBSET Name]]
      BY <1>16, <2>4 DEF Swap, TypeOK, LocalOK
    <2> QED
      BY <1>16, <2>2, <2>3, <2>5 DEF Swap, TypeOK, LocalOK
  <1>17. CASE Stamp(g)
    <2>1. arg[g] \in Conf
      BY <1>17 DEF Stamp, HoldInv, TypeOK, Storing
    <2>2. faults' \in 0..MaxFaults
      BY <1>17, FaultsType DEF Stamp
    <2>3. \E p \in Outside : Return(g, p)
      BY <1>17 DEF Stamp, Fail, Outside
    <2>4. stamped' \in [Host -> BOOLEAN] /\ lastConfig' \in [Host -> Conf \cup {NoConf}]
      BY <1>17, <2>1 DEF Stamp, TypeOK, LocalOK
    <2> QED
      BY <1>17, <2>2, <2>3, <2>4, ReturnType DEF Stamp, TypeOK, LocalOK
  <1> QED
    BY <1>1, <1>2, <1>3, <1>4, <1>5, <1>6, <1>7, <1>8, <1>9, <1>10, <1>12, <1>13,
       <1>14, <1>15, <1>16, <1>17 DEF Act, Work

\* Every step of the environment preserves the types.
LEMMA EnvironmentType ==
    ASSUME TypeOK, Environment
    PROVE  TypeOK'
  <1>1. CASE Flush
    <2>1. faults' \in 0..MaxFaults
      BY <1>1, FaultsType DEF Flush
    <2> QED
      BY <1>1, <2>1 DEF Flush, TypeOK, local, Contents
  <1>2. CASE ExpireEarly
    <2>1. faults' \in 0..MaxFaults
      BY <1>2, FaultsType DEF ExpireEarly
    <2>2. kv' \in Contents
      <3>1. kv' = kv \/ \E k \in Key : kv' = Without({k})
        BY <1>2 DEF ExpireEarly
      <3>2. kv \in Contents /\ \A D : Without(D) \in Contents
        BY WithoutType DEF TypeOK
      <3> QED
        BY <3>1, <3>2
    <2>3. stamped' \in [Host -> BOOLEAN]
      BY <1>2 DEF ExpireEarly, TypeOK
    <2> QED
      BY <1>2, <2>1, <2>2, <2>3 DEF ExpireEarly, TypeOK, local
  <1>3. ASSUME NEW k \in Key, Lapse(k)
        PROVE  TypeOK'
    <2>1. kv' \in Contents
      BY <1>3, WithoutType DEF Lapse
    <2> QED
      BY <1>3, <2>1 DEF Lapse, TypeOK, local
  <1>4. ASSUME NEW x \in Host, Crash(x)
        PROVE  TypeOK'
    <2>1. faults' \in 0..MaxFaults
      BY <1>4, FaultsType DEF Crash
    <2>2. /\ mu' \in [Host -> Goroutine \cup {Free}]
          /\ lastConfig' \in [Host -> Conf \cup {NoConf}]
          /\ arg' \in [Goroutine -> Conf \cup {NoConf}]
      BY <1>4 DEF Crash, TypeOK
    <2>3. pc' \in [Goroutine -> Inside \cup Outside]
      BY <1>4 DEF Crash, TypeOK, Outside
    <2>4. cat' \in [Goroutine -> DOMAIN CatSeq]
      BY <1>4, FirstCat DEF Crash, TypeOK
    <2>5. todo' \in [Goroutine -> SUBSET Name] /\ found' \in [Goroutine -> SUBSET Key]
      BY <1>4 DEF Crash, TypeOK
    <2> QED
      BY <1>4, <2>1, <2>2, <2>3, <2>4, <2>5 DEF Crash, TypeOK, redis
  <1> QED
    BY <1>1, <1>2, <1>3, <1>4 DEF Environment

-------------------------------------------------------------------------------
(***************************************************************************)
(* A step of goroutine g leaves the other goroutines, and the tracking     *)
(* sets, the mutex and the last configuration of other hosts, alone.       *)
(***************************************************************************)
Frame(g) ==
    /\ \A o \in Goroutine \ {g} :
          /\ pc'[o] = pc[o]
          /\ cat'[o] = cat[o]
          /\ todo'[o] = todo[o]
          /\ found'[o] = found[o]
          /\ arg'[o] = arg[o]
    /\ \A x \in Host \ {HostOf[g]} :
          /\ members'[x] = members[x]
          /\ membersNew'[x] = membersNew[x]
          /\ mu'[x] = mu[x]
          /\ lastConfig'[x] = lastConfig[x]

\* Moving g on changes the local variables of g only.
LEMMA AtFrame ==
    ASSUME TypeOK, NEW g \in Goroutine, NEW p, NEW i, NEW t, NEW f, At(g, p, i, t, f)
    PROVE  /\ \A o \in Goroutine \ {g} :
                 /\ pc'[o] = pc[o]
                 /\ cat'[o] = cat[o]
                 /\ todo'[o] = todo[o]
                 /\ found'[o] = found[o]
           /\ pc'[g] = p
           /\ cat'[g] = i
           /\ todo'[g] = t
           /\ found'[g] = f
  BY DEF TypeOK, At

\* How a step of g uses the mutex: it takes it, keeps it or gives it up, and
\* only giving it up changes the last configuration.
Takes(g) ==
    /\ pc[g] = "idle" /\ pc'[g] \in Inside
    /\ mu[HostOf[g]] = Free /\ mu'[HostOf[g]] = g
    /\ lastConfig'[HostOf[g]] = lastConfig[HostOf[g]]

Keeps(g) ==
    /\ pc[g] \in Inside /\ pc'[g] \in Inside
    /\ mu'[HostOf[g]] = mu[HostOf[g]]
    /\ lastConfig'[HostOf[g]] = lastConfig[HostOf[g]]

GivesUp(g) ==
    /\ pc[g] \in Inside /\ pc'[g] \in Outside
    /\ mu'[HostOf[g]] = Free

\* Every step of g stays within its frame and uses the mutex in one of these ways.
LEMMA RunFrame ==
    ASSUME TypeOK, NEW g \in Goroutine, Act(g)
    PROVE  Frame(g) /\ (Takes(g) \/ Keeps(g) \/ GivesUp(g))
  <1> USE DEF Frame, Takes, Keeps, GivesUp
  <1>1. ASSUME NEW p \in Outside, Return(g, p)
        PROVE  /\ \A o \in Goroutine \ {g} : arg'[o] = arg[o]
               /\ \A o \in Goroutine \ {g} : /\ pc'[o] = pc[o]
                                              /\ cat'[o] = cat[o]
                                              /\ todo'[o] = todo[o]
                                              /\ found'[o] = found[o]
               /\ \A x \in Host \ {HostOf[g]} : mu'[x] = mu[x]
               /\ mu'[HostOf[g]] = Free
               /\ pc'[g] \in Outside
    BY <1>1, AtFrame DEF Return, TypeOK
  <1>2. ASSUME NEW conf, BeginStore(g, conf)
        PROVE  /\ \A o \in Goroutine \ {g} : arg'[o] = arg[o]
               /\ \A o \in Goroutine \ {g} : /\ pc'[o] = pc[o]
                                              /\ cat'[o] = cat[o]
                                              /\ todo'[o] = todo[o]
                                              /\ found'[o] = found[o]
               /\ pc'[g] \in Inside
    BY <1>2, AtFrame DEF BeginStore, TypeOK, Inside, Storing
  <1>3. CASE Calls(g)
    BY <1>2, <1>3 DEF Calls, StoreCall, redis, TypeOK
  <1>4. CASE KeepLock(g)
    BY <1>4, AtFrame DEF KeepLock, redis, TypeOK, Inside
  <1>5. CASE Exists(g)
    BY <1>1, <1>2, <1>5, AtFrame DEF Exists, redis, TypeOK, Inside, Storing, Outside
  <1>6. CASE Renew(g)
    BY <1>1, <1>2, <1>6, AtFrame DEF Renew, redis, TypeOK, Inside, Storing, Outside
  <1>7. CASE Track(g)
    BY <1>1, <1>2, <1>7, AtFrame DEF Track, redis, TypeOK, Inside, Storing, Outside
  <1>8. CASE Diff(g)
    BY <1>1, <1>2, <1>8, AtFrame DEF Diff, redis, TypeOK, Inside, Storing, Outside
  <1>9. CASE Scan(g)
    BY <1>1, <1>2, <1>9, AtFrame DEF Scan, redis, TypeOK, Inside, Storing, Outside
  <1>10. CASE Unlink(g)
    BY <1>1, <1>2, <1>10, AtFrame DEF Unlink, redis, TypeOK, Inside, Storing, Outside
  <1>11. CASE CategoryDone(g)
    BY <1>1, <1>2, <1>11, AtFrame DEF CategoryDone, redis, TypeOK, Inside, Storing, Outside
  <1>12. CASE Write(g)
    BY <1>1, <1>2, <1>12, AtFrame DEF Write, Fail, redis, TypeOK, Inside, Storing, Outside
  <1>13. CASE WriteDone(g)
    BY <1>1, <1>2, <1>13, AtFrame DEF WriteDone, redis, TypeOK, Inside, Storing, Outside
  <1>14. CASE Stale(g)
    BY <1>1, <1>2, <1>14, AtFrame DEF Stale, redis, TypeOK, Inside, Storing, Outside
  <1>15. CASE Purge(g)
    BY <1>1, <1>2, <1>15, AtFrame DEF Purge, redis, TypeOK, Inside, Storing, Outside
  <1>16. CASE StaleDone(g)
    BY <1>1, <1>2, <1>16, AtFrame DEF StaleDone, redis, TypeOK, Inside, Storing, Outside
  <1>17. CASE Swap(g)
    BY <1>1, <1>2, <1>17, AtFrame DEF Swap, redis, TypeOK, Inside, Storing, Outside
  <1>18. CASE Stamp(g)
    BY <1>1, <1>2, <1>18, AtFrame DEF Stamp, Fail, redis, TypeOK, Inside, Storing, Outside
  <1> QED
    BY <1>3, <1>4, <1>5, <1>6, <1>7, <1>8, <1>9, <1>10, <1>11, <1>12, <1>13, <1>14, <1>15, <1>16, <1>17, <1>18 DEF Act, Work

\* The mutex: the holder is the goroutine inside.
LEMMA RunLock ==
    ASSUME TypeOK, LockInv, NEW g \in Goroutine, Act(g)
    PROVE  LockInv'
  <1>1. Frame(g) /\ (Takes(g) \/ Keeps(g) \/ GivesUp(g))
    BY RunFrame
  <1>2. Inside \cap Outside = {} /\ "idle" \in Outside
    BY DEF Inside, Outside, Storing
  <1>3. ASSUME NEW o \in Goroutine
        PROVE  (pc[o] \in Inside <=> mu[HostOf[o]] = o)'
    <2>1. CASE o = g
      BY <1>1, <1>2, <2>1 DEF Takes, Keeps, GivesUp, LockInv
    <2>2. CASE o # g /\ HostOf[o] # HostOf[g]
      BY <1>1, <2>2 DEF Frame, LockInv
    <2>3. CASE o # g /\ HostOf[o] = HostOf[g]
      <3>1. pc'[o] = pc[o]
        BY <1>1, <2>3 DEF Frame
      <3>2. mu[HostOf[g]] \in {Free, g}
        BY <1>1 DEF Takes, Keeps, GivesUp, LockInv
      <3>3. mu'[HostOf[g]] \in {Free, g}
        BY <1>1, <3>2 DEF Takes, Keeps, GivesUp
      <3> QED
        BY <2>3, <3>1, <3>2, <3>3 DEF LockInv
    <2> QED
      BY <2>1, <2>2, <2>3
  <1>4. ASSUME NEW x \in Host, mu'[x] # Free
        PROVE  HostOf[mu'[x]] = x
    BY <1>1, <1>4 DEF Frame, Takes, Keeps, GivesUp, LockInv
  <1> QED
    BY <1>3, <1>4 DEF LockInv

\* While g takes a step, no other goroutine of its process is inside.
LEMMA OthersOutside ==
    ASSUME TypeOK, LockInv, NEW g \in Goroutine, Act(g),
           NEW o \in Goroutine, o # g, pc[o] \in Inside
    PROVE  HostOf[o] # HostOf[g]
  BY RunFrame DEF Takes, Keeps, GivesUp, LockInv

-------------------------------------------------------------------------------
(***************************************************************************)
(* The goroutine that takes the step keeps its own part of the invariant.  *)
(***************************************************************************)
Holds(g) ==
    /\ pc[g] \in Storing => arg[g] # NoConf
    /\ pc[g] \in {"exists", "renew"} =>
          g \notin Handler /\ lastConfig[HostOf[g]] # NoConf

Current(g) == g \notin Handler /\ pc[g] \in Storing => arg[g] = lastConfig[HostOf[g]]

SafeRemoval(g) ==
    /\ pc[g] = "diff" => Endangered(g) = {}
    /\ pc[g] \in Removing => todo[g] \cap Names(arg[g], CatOf(g)) = {}
    /\ pc[g] \in {"unlink", "purge"} => \A k \in found[g] : arg[g][k] = Absent

\* store(conf) starts with no name and no key chosen.
LEMMA BeginStoreSelf ==
    ASSUME TypeOK, NEW g \in Goroutine, NEW conf \in Conf, BeginStore(g, conf)
    PROVE  pc'[g] = "track" /\ arg'[g] = conf
  BY AtFrame DEF BeginStore, TypeOK

\* After a step of g, g has a configuration while it stores one, and a renewer
\* has the newest.
LEMMA HoldsStep ==
    ASSUME TypeOK, HoldInv, RenewalIsCurrent, NEW g \in Goroutine, Act(g)
    PROVE  Holds(g)' /\ Current(g)'
  <1> USE DEF Holds, Current
  <1>1. ASSUME pc'[g] \in Outside
        PROVE  Holds(g)' /\ Current(g)'
    BY <1>1 DEF Outside, Storing
  <1>2. ASSUME NEW p \in Outside, Return(g, p)
        PROVE  pc'[g] \in Outside
    BY <1>2, AtFrame DEF Return
  <1>3. ASSUME BeginStore(g, lastConfig[HostOf[g]]), UNCHANGED lastConfig,
               lastConfig[HostOf[g]] # NoConf
        PROVE  Holds(g)' /\ Current(g)'
    <2>1. lastConfig[HostOf[g]] \in Conf
      BY <1>3 DEF TypeOK
    <2> QED
      BY <1>3, <2>1, BeginStoreSelf
  <1>4. ASSUME pc[g] \in Storing, pc'[g] \in Storing, UNCHANGED <<arg, lastConfig>>
        PROVE  Holds(g)' /\ Current(g)'
    BY <1>4 DEF HoldInv, RenewalIsCurrent, Storing
  <1>5. CASE Calls(g)
    <2>1. PICK conf \in HomeConf(HostOf[g]) : BeginStore(g, conf)
      BY <1>5 DEF Calls, StoreCall
    <2>2. conf \in Conf
      BY <2>1 DEF HomeConf
    <2> QED
      BY <1>5, <2>1, <2>2, BeginStoreSelf DEF Calls, StoreCall
  <1>6. CASE KeepLock(g)
    <2>1. pc'[g] = "exists"
      BY <1>6, AtFrame DEF KeepLock
    <2> QED
      BY <1>6, <2>1 DEF KeepLock, Storing
  <1>7. CASE Exists(g)
    <2>1. g \notin Handler /\ lastConfig[HostOf[g]] # NoConf /\ UNCHANGED lastConfig
      BY <1>7 DEF Exists, HoldInv
    <2>2. CASE BeginStore(g, lastConfig[HostOf[g]])
      BY <1>3, <2>1, <2>2
    <2>3. CASE At(g, "renew", 1, {}, Published(lastConfig[HostOf[g]]))
      BY <2>1, <2>3, AtFrame DEF Storing
    <2>4. CASE Return(g, "idle")
      BY <1>1, <1>2, <2>4 DEF Outside
    <2> QED
      BY <1>7, <2>2, <2>3, <2>4 DEF Exists
  <1>8. CASE Renew(g)
    <2>1. g \notin Handler /\ lastConfig[HostOf[g]] # NoConf /\ UNCHANGED lastConfig
      BY <1>8 DEF Renew, HoldInv
    <2>2. CASE BeginStore(g, lastConfig[HostOf[g]])
      BY <1>3, <2>1, <2>2
    <2>3. CASE \E k \in found[g] : At(g, "renew", 1, {}, found[g] \ {k})
      <3>1. pc'[g] = "renew"
        BY <2>3, AtFrame
      <3> QED
        BY <2>1, <3>1 DEF Storing
    <2>4. CASE Return(g, "idle")
      BY <1>1, <1>2, <2>4 DEF Outside
    <2> QED
      BY <1>8, <2>2, <2>3, <2>4 DEF Renew
  <1>9. CASE Track(g) \/ Diff(g) \/ Scan(g) \/ Unlink(g) \/ CategoryDone(g)
    <2>1. UNCHANGED <<arg, lastConfig>>
      BY <1>9 DEF Track, Diff, Scan, Unlink, CategoryDone
    <2>2. pc[g] \in Storing
      BY <1>9 DEF Track, Diff, Scan, Unlink, CategoryDone, Storing
    <2>3. pc'[g] \in Storing
      BY <1>9, AtFrame DEF Track, Diff, Scan, Unlink, CategoryDone, Storing
    <2> QED
      BY <1>4, <2>1, <2>2, <2>3
  <1>10. CASE WriteDone(g) \/ Stale(g) \/ Purge(g) \/ StaleDone(g) \/ Swap(g)
    <2>1. UNCHANGED <<arg, lastConfig>>
      BY <1>10 DEF WriteDone, Stale, Purge, StaleDone, Swap
    <2>2. pc[g] \in Storing
      BY <1>10 DEF WriteDone, Stale, Purge, StaleDone, Swap, Storing
    <2>3. pc'[g] \in Storing
      BY <1>10, AtFrame DEF WriteDone, Stale, Purge, StaleDone, Swap, Storing
    <2> QED
      BY <1>4, <2>1, <2>2, <2>3
  <1>11. CASE Write(g)
    <2>1. UNCHANGED lastConfig /\ pc[g] \in Storing
      BY <1>11 DEF Write, Storing
    <2>2. CASE Fail(g)
      BY <1>1, <1>2, <2>2 DEF Fail, Outside
    <2>3. CASE UNCHANGED arg /\ \E k \in found[g] : At(g, "write", 1, {}, found[g] \ {k})
      <3>1. pc'[g] \in Storing
        BY <2>3, AtFrame DEF Storing
      <3> QED
        BY <1>4, <2>1, <2>3, <3>1
    <2> QED
      BY <1>11, <2>2, <2>3 DEF Write
  <1>12. CASE Stamp(g)
    BY <1>1, <1>2, <1>12 DEF Stamp, Fail, Outside
  <1> QED
    BY <1>5, <1>6, <1>7, <1>8, <1>9, <1>10, <1>11, <1>12 DEF Act, Work

\* What g chooses for removal is never in its configuration.
LEMMA SafeRemovalStep ==
    ASSUME TypeOK, HoldInv, RemovalInv, NEW g \in Goroutine, Act(g)
    PROVE  SafeRemoval(g)'
  <1> DEFINE x == HostOf[g]
             d == CatOf(g)
             new == Names(arg[g], CatOf(g))
  <1>1. ASSUME pc'[g] \notin {"diff", "scan", "unlink", "purge"}
        PROVE  SafeRemoval(g)'
    BY <1>1 DEF SafeRemoval, Removing
  <1>2. x \in Host /\ d \in Cat
    BY DEF TypeOK, CatOf, Cat
  <1>3. ASSUME pc'[g] = "scan", UNCHANGED arg, cat'[g] = cat[g], todo'[g] \cap new = {}
        PROVE  SafeRemoval(g)'
    <2>1. Names(arg[g], CatOf(g))' = new
      BY <1>3 DEF Names, Published, CatOf
    <2> QED
      BY <1>3, <2>1 DEF SafeRemoval, Removing
  <1>4. CASE Track(g)
    <2>1. UNCHANGED <<arg, members>>
      BY <1>4 DEF Track
    <2>2. CASE /\ new # {}
               /\ membersNew' = [membersNew EXCEPT ![x][d] = @ \cup new]
               /\ At(g, "diff", cat[g], {}, {})
      <3>1. pc'[g] = "diff" /\ cat'[g] = cat[g]
        BY <2>2, AtFrame
      <3>2. Names(arg[g], CatOf(g))' = new /\ CatOf(g)' = d
        BY <2>1, <3>1 DEF Names, Published, CatOf
      <3>3. membersNew'[x][d] = membersNew[x][d] \cup new
        BY <1>2, <2>2 DEF TypeOK
      <3>4. Endangered(g)' = {}
        BY <2>1, <3>2, <3>3 DEF Endangered
      <3> QED
        BY <3>1, <3>4 DEF SafeRemoval, Removing
    <2>3. CASE new = {} /\ At(g, "scan", cat[g], members[x][d], {})
      <3>1. pc'[g] = "scan" /\ cat'[g] = cat[g]
        BY <2>3, AtFrame
      <3> QED
        BY <1>3, <2>1, <2>3, <3>1
    <2>4. CASE At(g, "scan", cat[g], {}, {})
      BY <1>3, <2>1, <2>4, AtFrame
    <2> QED
      BY <1>4, <2>2, <2>3, <2>4 DEF Track
  <1>5. CASE Diff(g)
    <2>1. UNCHANGED arg /\ Endangered(g) = {}
      BY <1>5 DEF Diff, RemovalInv
    <2>2. CASE At(g, "scan", cat[g], members[x][d] \ membersNew[x][d], {})
      <3>1. pc'[g] = "scan" /\ cat'[g] = cat[g] /\ todo'[g] = members[x][d] \ membersNew[x][d]
        BY <2>2, AtFrame
      <3>2. todo'[g] \cap new = {}
        BY <2>1, <3>1 DEF Endangered
      <3> QED
        BY <1>3, <2>1, <3>1, <3>2
    <2>3. CASE At(g, "scan", cat[g], {}, {})
      BY <1>3, <2>1, <2>3, AtFrame
    <2> QED
      BY <1>5, <2>2, <2>3 DEF Diff
  <1>6. CASE Scan(g)
    <2>1. UNCHANGED arg /\ todo[g] \cap new = {} /\ arg[g] \in Conf
      BY <1>6 DEF Scan, RemovalInv, Removing, HoldInv, TypeOK, Storing
    <2>2. ASSUME NEW n \in todo[g],
                 At(g, "unlink", cat[g], todo[g] \ {n}, KeysOf(CatOf(g), n))
          PROVE  SafeRemoval(g)'
      <3>1. /\ pc'[g] = "unlink" /\ cat'[g] = cat[g]
            /\ todo'[g] = todo[g] \ {n}
            /\ found'[g] = KeysOf(d, n)
        BY <2>2, AtFrame
      <3>2. ASSUME NEW k \in KeysOf(d, n)
            PROVE  arg[g][k] = Absent
        <4>1. k \in Key /\ k.cat = d /\ k.name = n
          BY DEF KeysOf
        <4>2. k.name \notin Names(arg[g], k.cat)
          BY <2>1, <4>1
        <4> QED
          BY <2>1, <4>1, <4>2, PublishedName
      <3>3. Names(arg[g], CatOf(g))' = new
        BY <2>1, <3>1 DEF Names, Published, CatOf
      <3> QED
        BY <2>1, <3>1, <3>2, <3>3 DEF SafeRemoval, Removing
    <2>3. CASE At(g, "scan", cat[g], {}, {})
      BY <1>3, <2>1, <2>3, AtFrame
    <2> QED
      BY <1>6, <2>2, <2>3 DEF Scan
  <1>7. CASE Unlink(g)
    <2>1. UNCHANGED arg /\ todo[g] \cap new = {}
      BY <1>7 DEF Unlink, RemovalInv, Removing
    <2>2. CASE At(g, "scan", cat[g], todo[g], {})
      BY <1>3, <2>1, <2>2, AtFrame
    <2>3. CASE At(g, "scan", cat[g], {}, {})
      BY <1>3, <2>1, <2>3, AtFrame
    <2> QED
      BY <1>7, <2>2, <2>3 DEF Unlink
  <1>8. CASE Stale(g)
    <2>1. UNCHANGED arg
      BY <1>8 DEF Stale
    <2>2. PICK n \in todo[g] :
             \/ At(g, "purge", cat[g], todo[g] \ {n},
                   {k \in ServerKeysOf(CatOf(g), n) : arg[g][k] = Absent})
             \/ At(g, "stale", cat[g], todo[g] \ {n}, {})
      BY <1>8 DEF Stale
    <2>3. CASE At(g, "stale", cat[g], todo[g] \ {n}, {})
      BY <1>1, <2>3, AtFrame
    <2>4. CASE At(g, "purge", cat[g], todo[g] \ {n},
                  {k \in ServerKeysOf(CatOf(g), n) : arg[g][k] = Absent})
      BY <2>1, <2>4, AtFrame DEF SafeRemoval, Removing
    <2> QED
      BY <2>2, <2>3, <2>4
  <1>9. CASE Purge(g)
    <2>1. UNCHANGED arg /\ \A k \in found[g] : arg[g][k] = Absent
      BY <1>9 DEF Purge, RemovalInv
    <2>2. ASSUME NEW k \in found[g], At(g, "purge", cat[g], todo[g], found[g] \ {k})
          PROVE  SafeRemoval(g)'
      BY <2>1, <2>2, AtFrame DEF SafeRemoval, Removing
    <2>3. CASE At(g, "stale", cat[g], todo[g], {})
      BY <1>1, <2>3, AtFrame
    <2> QED
      BY <1>9, <2>2, <2>3 DEF Purge
  <1>10. CASE Calls(g) \/ KeepLock(g) \/ Exists(g) \/ Renew(g)
    <2>1. pc'[g] \in {"track", "exists", "renew", "idle"}
      BY <1>10, AtFrame DEF Calls, StoreCall, KeepLock, Exists, Renew, BeginStore, Return
    <2> QED
      BY <1>1, <2>1
  <1>11. CASE CategoryDone(g) \/ Write(g) \/ WriteDone(g) \/ StaleDone(g)
    <2>1. pc'[g] \in {"track", "write", "stale", "swap", "idle", "down"}
      <3>1. CASE CategoryDone(g)
        BY <3>1, AtFrame DEF CategoryDone
      <3>2. CASE Write(g)
        BY <3>2, AtFrame DEF Write, Fail, Return
      <3>3. CASE WriteDone(g)
        BY <3>3, AtFrame DEF WriteDone
      <3>4. CASE StaleDone(g)
        BY <3>4, AtFrame DEF StaleDone
      <3> QED
        BY <1>11, <3>1, <3>2, <3>3, <3>4
    <2> QED
      BY <1>1, <2>1
  <1>12. CASE Swap(g) \/ Stamp(g)
    <2>1. pc'[g] \in {"swap", "stamp", "idle", "down"}
      BY <1>12, AtFrame DEF Swap, Stamp, Fail, Return
    <2> QED
      BY <1>1, <2>1
  <1> QED
    BY <1>4, <1>5, <1>6, <1>7, <1>8, <1>9, <1>10, <1>11, <1>12 DEF Act, Work

-------------------------------------------------------------------------------
(***************************************************************************)
(* The whole invariant.                                                    *)
(***************************************************************************)
StoreInv == TypeOK /\ LockInv /\ HoldInv /\ RenewalIsCurrent /\ RemovalInv

\* A goroutine whose own state and whose host's state do not change keeps its
\* part of the invariant.
LEMMA Untouched ==
    ASSUME StoreInv, NEW o \in Goroutine,
           pc'[o] = pc[o], cat'[o] = cat[o], todo'[o] = todo[o], found'[o] = found[o],
           arg'[o] = arg[o],
           pc[o] \in Inside => /\ lastConfig'[HostOf[o]] = lastConfig[HostOf[o]]
                               /\ members'[HostOf[o]] = members[HostOf[o]]
                               /\ membersNew'[HostOf[o]] = membersNew[HostOf[o]]
    PROVE  Holds(o)' /\ Current(o)' /\ SafeRemoval(o)'
  <1>1. Holds(o)' /\ Current(o)'
    BY DEF StoreInv, HoldInv, RenewalIsCurrent, Holds, Current, Inside
  <1>2. CatOf(o)' = CatOf(o)
    BY DEF CatOf
  <1>3. Names(arg[o], CatOf(o))' = Names(arg[o], CatOf(o))
    BY <1>2 DEF Names, Published
  <1>4. pc[o] \in Inside => Endangered(o)' = Endangered(o)
    BY <1>2, <1>3 DEF Endangered
  <1>5. SafeRemoval(o)'
    BY <1>2, <1>3, <1>4 DEF StoreInv, RemovalInv, SafeRemoval, Inside, Storing
  <1> QED
    BY <1>1, <1>5

\* A step of a goroutine preserves the invariant.
LEMMA RunInv ==
    ASSUME StoreInv, NEW g \in Goroutine, Act(g)
    PROVE  StoreInv'
  <1> USE DEF StoreInv
  <1>1. TypeOK' /\ LockInv'
    BY WorkType, RunLock
  <1>2. ASSUME NEW o \in Goroutine
        PROVE  Holds(o)' /\ Current(o)' /\ SafeRemoval(o)'
    <2>1. CASE o = g
      BY <2>1, HoldsStep, SafeRemovalStep
    <2>2. CASE o # g
      <3>1. Frame(g)
        BY RunFrame
      <3>2. pc[o] \in Inside => HostOf[o] # HostOf[g]
        BY <2>2, OthersOutside
      <3> QED
        BY <2>2, <3>1, <3>2, Untouched DEF Frame
    <2> QED
      BY <2>1, <2>2
  <1> QED
    BY <1>1, <1>2 DEF HoldInv, RenewalIsCurrent, RemovalInv, Holds, Current, SafeRemoval

\* A fault or an expiry preserves the invariant.
LEMMA EnvironmentInv ==
    ASSUME StoreInv, Environment
    PROVE  StoreInv'
  <1> USE DEF StoreInv
  <1>1. TypeOK'
    BY EnvironmentType
  <1>2. ASSUME LockInv', \A o \in Goroutine : Holds(o)' /\ Current(o)' /\ SafeRemoval(o)'
        PROVE  StoreInv'
    BY <1>1, <1>2 DEF HoldInv, RenewalIsCurrent, RemovalInv, Holds, Current, SafeRemoval
  <1>3. CASE Flush
    <2>1. UNCHANGED <<mu, lastConfig, pc, cat, todo, found, arg>>
      BY <1>3 DEF Flush, local
    <2>2. LockInv'
      BY <2>1 DEF LockInv
    <2>3. ASSUME NEW o \in Goroutine
          PROVE  Holds(o)' /\ Current(o)' /\ SafeRemoval(o)'
      <3>1. Holds(o)' /\ Current(o)'
        BY <2>1 DEF HoldInv, RenewalIsCurrent, Holds, Current
      <3>2. Endangered(o)' = {}
        <4>1. CatOf(o)' \in Cat
          BY <1>1 DEF TypeOK, CatOf, Cat
        <4>2. members'[HostOf[o]][CatOf(o)'] = {}
          BY <1>3, <4>1 DEF Flush
        <4> QED
          BY <4>2 DEF Endangered
      <3>3. Names(arg[o], CatOf(o))' = Names(arg[o], CatOf(o))
        BY <2>1 DEF Names, Published, CatOf
      <3>4. SafeRemoval(o)'
        BY <2>1, <3>2, <3>3 DEF RemovalInv, SafeRemoval
      <3> QED
        BY <3>1, <3>4
    <2> QED
      BY <1>2, <2>2, <2>3
  <1>4. CASE ExpireEarly \/ \E k \in Key : Lapse(k)
    <2>1. UNCHANGED <<mu, lastConfig, members, membersNew, pc, cat, todo, found, arg>>
      BY <1>4 DEF ExpireEarly, Lapse, local
    <2>2. LockInv'
      BY <2>1 DEF LockInv
    <2>3. \A o \in Goroutine : Holds(o)' /\ Current(o)' /\ SafeRemoval(o)'
      BY <2>1, Untouched
    <2> QED
      BY <1>2, <2>2, <2>3
  <1>5. ASSUME NEW x \in Host, Crash(x)
        PROVE  StoreInv'
    <2>1. ASSUME NEW o \in Goroutine, HostOf[o] = x
          PROVE  pc'[o] = "idle"
      BY <1>5, <2>1 DEF Crash
    <2>2. ASSUME NEW o \in Goroutine, HostOf[o] # x
          PROVE  /\ pc'[o] = pc[o] /\ cat'[o] = cat[o] /\ todo'[o] = todo[o]
                 /\ found'[o] = found[o] /\ arg'[o] = arg[o]
                 /\ mu'[HostOf[o]] = mu[HostOf[o]]
                 /\ lastConfig'[HostOf[o]] = lastConfig[HostOf[o]]
                 /\ members' = members /\ membersNew' = membersNew
      BY <1>5, <2>2 DEF Crash, TypeOK, redis
    <2>3. mu'[x] = Free /\ \A y \in Host \ {x} : mu'[y] = mu[y]
      BY <1>5 DEF Crash, TypeOK
    <2>4. LockInv'
      <3>1. ASSUME NEW o \in Goroutine
            PROVE  (pc[o] \in Inside <=> mu[HostOf[o]] = o)'
        <4>1. CASE HostOf[o] = x
          BY <2>1, <2>3, <4>1 DEF Inside, Storing
        <4>2. CASE HostOf[o] # x
          BY <2>2, <4>2 DEF LockInv
        <4> QED
          BY <4>1, <4>2
      <3>2. \A y \in Host : mu'[y] # Free => HostOf[mu'[y]] = y
        BY <2>3 DEF LockInv
      <3> QED
        BY <3>1, <3>2 DEF LockInv
    <2>5. ASSUME NEW o \in Goroutine
          PROVE  Holds(o)' /\ Current(o)' /\ SafeRemoval(o)'
      <3>1. CASE HostOf[o] = x
        BY <2>1, <3>1 DEF Holds, Current, SafeRemoval, Storing, Removing
      <3>2. CASE HostOf[o] # x
        BY <2>2, <3>2, Untouched
      <3> QED
        BY <3>1, <3>2
    <2> QED
      BY <1>2, <2>4, <2>5
  <1> QED
    BY <1>3, <1>4, <1>5 DEF Environment

\* StoreInv is an invariant, for any hosts, configurations and faults.
THEOREM StoreInvariant == Spec => []StoreInv
  <1>1. Init => StoreInv
    BY InitInv DEF StoreInv
  <1>2. StoreInv /\ [Next]_vars => StoreInv'
    <2> SUFFICES ASSUME StoreInv, [Next]_vars
                 PROVE  StoreInv'
      OBVIOUS
    <2>1. ASSUME NEW g \in Goroutine, Run(g)
          PROVE  StoreInv'
      BY <2>1, RunIsAct, RunInv
    <2>2. CASE Environment
      BY <2>2, EnvironmentInv
    <2>3. CASE UNCHANGED vars
      <3>1. UNCHANGED <<kv, members, membersNew, stamped, mu, lastConfig,
                        pc, cat, todo, found, arg, faults>>
        BY <2>3 DEF vars, redis, local
      <3>2. TypeOK' /\ LockInv'
        BY <3>1 DEF StoreInv, TypeOK, LockInv
      <3>3. \A o \in Goroutine : Holds(o)' /\ Current(o)' /\ SafeRemoval(o)'
        BY <3>1, Untouched
      <3> QED
        BY <3>2, <3>3 DEF StoreInv, HoldInv, RenewalIsCurrent, RemovalInv,
                          Holds, Current, SafeRemoval
    <2> QED
      BY <2>1, <2>2, <2>3 DEF Next
  <1> QED
    BY <1>1, <1>2, PTL DEF Spec

-------------------------------------------------------------------------------
(***************************************************************************)
(* The theorems.                                                           *)
(***************************************************************************)

\* In every reachable state the variables have their types, and whoever stores
\* or renews a configuration has one.
THEOREM StateCorrect == Spec => []StateOK
  <1>1. StoreInv => StateOK
    BY DEF StoreInv, StateOK
  <1> QED
    BY <1>1, StoreInvariant, PTL

\* Mutual exclusion: a goroutine is inside Store or KeepConfAlive exactly when
\* it holds the mutex of its own process, so Store and KeepConfAlive of one
\* process never overlap.
THEOREM MutualExclusion == Spec => []LockInv
  <1>1. StoreInv => LockInv
    BY DEF StoreInv
  <1> QED
    BY <1>1, StoreInvariant, PTL

\* The timer and the poller never publish anything but the newest
\* configuration that a Store of their host has finished.
THEOREM RenewalCurrent == Spec => []RenewalIsCurrent
  <1>1. StoreInv => RenewalIsCurrent
    BY DEF StoreInv
  <1> QED
    BY <1>1, StoreInvariant, PTL

\* A step of a goroutine, in whichever specification, obeys NoGap.
LEMMA NoGapAct ==
    ASSUME StoreInv, NEW o \in Goroutine, Act(o)
    PROVE  NoGapStep
  <1> SUFFICES ASSUME NEW g \in Goroutine, NEW k \in Key,
                      pc[g] \in Storing, Moves(g), arg[g][k] # Absent, kv[k] # Absent
               PROVE  kv'[k] # Absent
    BY DEF NoGapStep
  <1>1. Act(g)
    BY RunFrame DEF StoreInv, Frame, Moves
  <1>2. CASE Unlink(g)
    <2>1. k \notin found[g]
      BY <1>2 DEF Unlink, StoreInv, RemovalInv
    <2> QED
      BY <1>2, <2>1 DEF Unlink, Without
  <1>3. CASE Purge(g)
    <2>1. k \notin found[g]
      BY <1>3 DEF Purge, StoreInv, RemovalInv
    <2> QED
      BY <1>3, <2>1 DEF Purge, Without
  <1>4. CASE Write(g)
    <2>1. \A j \in found[g] : [kv EXCEPT ![j] = arg[g][j]][k] # Absent
      BY DEF StoreInv, TypeOK, Contents
    <2> QED
      BY <1>4, <2>1 DEF Write
  <1>5. CASE UNCHANGED kv
    BY <1>5
  <1> QED
    BY <1>1, <1>2, <1>3, <1>4, <1>5 DEF Act, Calls, Work, StoreCall, KeepLock, Exists, Renew, Track,
       Diff, Scan, CategoryDone, WriteDone, Stale, StaleDone, Swap, Stamp, redis

\* A step of the environment is nobody's, or changes no key.
LEMMA NoGapEnvironment ==
    ASSUME Environment
    PROVE  NoGapStep
  <1>1. CASE \E x \in Host : Crash(x)
    BY <1>1 DEF Crash, redis, NoGapStep
  <1>2. CASE Flush \/ ExpireEarly \/ \E j \in Key : Lapse(j)
    BY <1>2 DEF Flush, ExpireEarly, Lapse, local, Moves, NoGapStep
  <1> QED
    BY <1>1, <1>2 DEF Environment

\* A process that installs a configuration never deletes a key of it: not after
\* a crash, not with leftovers in a _new set, not when a command failed.
THEOREM NoGapHolds == Spec => NoGap
  <1>1. ASSUME StoreInv, [Next]_vars
        PROVE  [NoGapStep]_vars
    <2>1. ASSUME NEW g \in Goroutine, Run(g)
          PROVE  NoGapStep
      BY <1>1, <2>1, RunIsAct, NoGapAct
    <2> QED
      BY <1>1, <2>1, NoGapEnvironment DEF Next
  <1> QED
    BY <1>1, StoreInvariant, PTL DEF Spec, NoGap
===============================================================================
