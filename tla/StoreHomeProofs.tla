---------------------------- MODULE StoreHomeProofs ----------------------------
(***************************************************************************)
(* Whatever fails, a process works on its own host's names only            *)
(* (StaysHome): what it tracks, what it removes and what it writes lies    *)
(* below the names of its own containers.                                  *)
(***************************************************************************)
EXTENDS RedisStoreProofs

USE StoreAssumption

\* What a goroutine has in hand belongs to its host.
HomeOf(g) ==
    /\ arg[g] # NoConf => arg[g] \in HomeConf(HostOf[g])
    /\ pc[g] \in Removing \cup {"stale", "purge"} => todo[g] \subseteq NamesUnder(HostOf[g], CatOf(g))
    /\ pc[g] \in {"unlink", "purge"} => found[g] \subseteq KeysUnder(HostOf[g])
    /\ pc[g] = "write" => found[g] \subseteq Published(arg[g])

\* What Redis tracks for a host, and what the host remembers, belongs to it.
HomeAt(x) ==
    /\ lastConfig[x] # NoConf => lastConfig[x] \in HomeConf(x)
    /\ \A d \in Cat : members[x][d] \cup membersNew[x][d] \subseteq NamesUnder(x, d)

HomeInv == (\A x \in Host : HomeAt(x)) /\ (\A g \in Goroutine : HomeOf(g))

-------------------------------------------------------------------------------
\* The keys below a host's names are keys.
LEMMA KeysUnderType == \A x \in Host : KeysUnder(x) \subseteq Key
  BY DEF KeysUnder

\* A key with a name of host x is one of the keys below the host's names.
LEMMA NameHome ==
    ASSUME NEW x \in Host, NEW k \in Key, k.name \in NamesUnder(x, k.cat)
    PROVE  k \in KeysUnder(x)
  BY DEF NamesUnder, KeysUnder

\* The names of a configuration that the host may store are the host's, and so
\* are its keys.
LEMMA ConfHome ==
    ASSUME NEW x \in Host, NEW conf \in HomeConf(x)
    PROVE  /\ conf \in Conf
           /\ \A d : Names(conf, d) \subseteq NamesUnder(x, d)
           /\ Published(conf) \subseteq KeysUnder(x)
  <1>1. conf \in Conf /\ \A d : Names(conf, d) \subseteq NamesUnder(x, d)
    BY DEF HomeConf
  <1>2. ASSUME NEW k \in Published(conf)
        PROVE  k \in KeysUnder(x)
    <2>1. k \in Key /\ k.name \in Names(conf, k.cat)
      BY <1>1, PublishedName DEF Published
    <2> QED
      BY <1>1, <2>1, NameHome
  <1> QED
    BY <1>1, <1>2

\* The initial state is at home.
LEMMA HomeInit == Init => HomeInv
  BY DEF Init, HomeInv, HomeAt, HomeOf, Removing

-------------------------------------------------------------------------------
(***************************************************************************)
(* What a step of a goroutine does to the keys.                            *)
(***************************************************************************)

\* The key is one the goroutine has found: deleted, or written with what the
\* configuration says.
Touches(g, k) ==
    /\ k \in found[g]
    /\ \/ pc[g] \in {"unlink", "purge"} /\ kv'[k] = Absent
       \/ pc[g] = "write" /\ kv'[k] = arg[g][k]

\* A step of g changes a key only in these ways.
LEMMA KvStep ==
    ASSUME TypeOK, NEW g \in Goroutine, Act(g), NEW k \in Key
    PROVE  kv'[k] = kv[k] \/ Touches(g, k)
  <1> USE DEF Touches
  <1>1. CASE Unlink(g)
    BY <1>1 DEF Unlink, Without
  <1>2. CASE Purge(g)
    BY <1>2 DEF Purge, Without
  <1>3. CASE Write(g)
    <2>1. PICK j \in found[g] : kv' \in {kv, [kv EXCEPT ![j] = arg[g][j]]}
      BY <1>3 DEF Write
    <2>2. pc[g] = "write" /\ kv \in [Key -> Value \cup {Absent}]
      BY <1>3 DEF Write, TypeOK, Contents
    <2> QED
      BY <2>1, <2>2
  <1>4. CASE UNCHANGED kv
    BY <1>4
  <1> QED
    BY <1>1, <1>2, <1>3, <1>4 DEF Act, Calls, Work, StoreCall, KeepLock, Exists, Renew,
       Track, Diff, Scan, CategoryDone, WriteDone, Stale, StaleDone, Swap, Stamp, redis

\* Every key that a step of g changes lies below its host's names.
LEMMA KvHome ==
    ASSUME TypeOK, HoldInv, HomeInv, NEW g \in Goroutine, Act(g), NEW k \in Key, kv'[k] # kv[k]
    PROVE  k \in KeysUnder(HostOf[g])
  <1>1. Touches(g, k)
    BY KvStep
  <1>2. CASE pc[g] \in {"unlink", "purge"}
    BY <1>1, <1>2 DEF Touches, HomeInv, HomeOf
  <1>3. CASE pc[g] = "write"
    <2>1. arg[g] \in HomeConf(HostOf[g])
      BY <1>3 DEF HoldInv, Storing, HomeInv, HomeOf
    <2>2. Published(arg[g]) \subseteq KeysUnder(HostOf[g])
      BY <2>1, ConfHome
    <2> QED
      BY <1>1, <1>3, <2>2 DEF Touches, HomeInv, HomeOf
  <1> QED
    BY <1>1, <1>2, <1>3 DEF Touches

-------------------------------------------------------------------------------
(***************************************************************************)
(* The goroutine that takes the step stays at home.                        *)
(***************************************************************************)

\* A goroutine that returns has nothing in hand.
LEMMA ReturnHome ==
    ASSUME TypeOK, NEW g \in Goroutine, NEW p \in Outside, Return(g, p)
    PROVE  HomeOf(g)'
  <1>1. pc'[g] \in Outside /\ arg'[g] = NoConf
    BY AtFrame DEF Return, TypeOK
  <1> QED
    BY <1>1 DEF HomeOf, Outside, Removing

\* One that starts to store has only the configuration.
LEMMA BeginHome ==
    ASSUME TypeOK, NEW g \in Goroutine, NEW conf \in HomeConf(HostOf[g]), BeginStore(g, conf)
    PROVE  HomeOf(g)'
  <1>1. pc'[g] = "track" /\ arg'[g] = conf
    BY BeginStoreSelf DEF HomeConf
  <1> QED
    BY <1>1 DEF HomeOf, Removing

\* One that goes on with the same configuration, in category i, with names t
\* and keys f left.
LEMMA GoesOnHome ==
    ASSUME TypeOK, HomeInv, NEW g \in Goroutine, NEW p, NEW i, NEW t, NEW f,
           At(g, p, i, t, f), UNCHANGED arg,
           p \in Removing \cup {"stale", "purge"} => t \subseteq NamesUnder(HostOf[g], CatSeq[i]),
           p \in {"unlink", "purge"} => f \subseteq KeysUnder(HostOf[g]),
           p = "write" => f \subseteq Published(arg[g])
    PROVE  HomeOf(g)'
  <1>1. pc'[g] = p /\ cat'[g] = i /\ todo'[g] = t /\ found'[g] = f
    BY AtFrame
  <1>2. Published(arg[g])' = Published(arg[g]) /\ CatOf(g)' = CatSeq[i]
    BY <1>1 DEF Published, CatOf
  <1> QED
    BY <1>1, <1>2 DEF HomeOf, HomeInv

\* The names of g's configuration belong to its host.
LEMMA ArgHome ==
    ASSUME HomeInv, HoldInv, NEW g \in Goroutine, pc[g] \in Storing, NEW d
    PROVE  Names(arg[g], d) \subseteq NamesUnder(HostOf[g], d)
  <1>1. arg[g] \in HomeConf(HostOf[g])
    BY DEF HoldInv, HomeInv, HomeOf
  <1> QED
    BY <1>1, ConfHome

\* After a step of g, what g has in hand belongs to its host.
LEMMA HomeSelf ==
    ASSUME TypeOK, HoldInv, HomeInv, NEW g \in Goroutine, Act(g)
    PROVE  HomeOf(g)'
  <1> DEFINE x == HostOf[g]
  <1>1. x \in Host /\ CatOf(g) \in Cat /\ CatOf(g) = CatSeq[cat[g]]
    BY DEF TypeOK, CatOf, Cat
  <1>2. members[x][CatOf(g)] \subseteq NamesUnder(x, CatOf(g))
    BY <1>1 DEF HomeInv, HomeAt
  <1>3. pc[g] \in Removing \cup {"stale", "purge"} => todo[g] \subseteq NamesUnder(x, CatOf(g))
    BY DEF HomeInv, HomeOf
  <1>4. pc[g] \in {"unlink", "purge"} => found[g] \subseteq KeysUnder(x)
    BY DEF HomeInv, HomeOf
  <1>5. ASSUME NEW n \in NamesUnder(x, CatOf(g))
        PROVE  KeysOf(CatOf(g), n) \subseteq KeysUnder(x)
    BY <1>1, <1>5, NameHome DEF KeysOf
  <1>6. ASSUME BeginStore(g, lastConfig[x]), lastConfig[x] # NoConf
        PROVE  HomeOf(g)'
    <2>1. lastConfig[x] \in HomeConf(x)
      BY <1>1, <1>6 DEF HomeInv, HomeAt
    <2> QED
      BY <1>6, <2>1, BeginHome
  <1>7. CASE Calls(g)
    BY <1>7, BeginHome DEF Calls, StoreCall
  <1>8. CASE KeepLock(g)
    BY <1>8, GoesOnHome DEF KeepLock, Removing
  <1>9. CASE Exists(g)
    <2>1. lastConfig[x] # NoConf
      BY <1>9 DEF Exists, HoldInv
    <2>2. CASE At(g, "renew", 1, {}, Published(lastConfig[x])) /\ UNCHANGED arg
      BY <2>2, GoesOnHome DEF Removing
    <2>3. CASE Return(g, "idle")
      BY <2>3, ReturnHome DEF Outside
    <2> QED
      BY <1>6, <1>9, <2>1, <2>2, <2>3 DEF Exists
  <1>10. CASE Renew(g)
    <2>1. lastConfig[x] # NoConf
      BY <1>10 DEF Renew, HoldInv
    <2>2. CASE UNCHANGED arg /\ \E k \in found[g] : At(g, "renew", 1, {}, found[g] \ {k})
      BY <2>2, GoesOnHome DEF Removing
    <2>3. CASE Return(g, "idle")
      BY <2>3, ReturnHome DEF Outside
    <2> QED
      BY <1>6, <1>10, <2>1, <2>2, <2>3 DEF Renew
  <1>11. CASE Track(g)
    <2>1. UNCHANGED arg
      BY <1>11 DEF Track
    <2>2. CASE At(g, "scan", cat[g], members[x][CatOf(g)], {})
      BY <1>1, <1>2, <2>1, <2>2, GoesOnHome
    <2>3. CASE At(g, "diff", cat[g], {}, {}) \/ At(g, "scan", cat[g], {}, {})
      BY <2>1, <2>3, GoesOnHome DEF Removing
    <2> QED
      BY <1>11, <2>2, <2>3 DEF Track
  <1>12. CASE Diff(g)
    <2>1. UNCHANGED arg
      BY <1>12 DEF Diff
    <2>2. CASE At(g, "scan", cat[g], members[x][CatOf(g)] \ membersNew[x][CatOf(g)], {})
      BY <1>1, <1>2, <2>1, <2>2, GoesOnHome
    <2>3. CASE At(g, "scan", cat[g], {}, {})
      BY <2>1, <2>3, GoesOnHome
    <2> QED
      BY <1>12, <2>2, <2>3 DEF Diff
  <1>13. CASE Scan(g)
    <2>1. UNCHANGED arg /\ todo[g] \subseteq NamesUnder(x, CatOf(g))
      BY <1>3, <1>13 DEF Scan, Removing
    <2>2. ASSUME NEW n \in todo[g], At(g, "unlink", cat[g], todo[g] \ {n}, KeysOf(CatOf(g), n))
          PROVE  HomeOf(g)'
      <3>1. KeysOf(CatOf(g), n) \subseteq KeysUnder(x)
        BY <1>5, <2>1
      <3> QED
        BY <1>1, <2>1, <2>2, <3>1, GoesOnHome
    <2>3. CASE At(g, "scan", cat[g], {}, {})
      BY <2>1, <2>3, GoesOnHome
    <2> QED
      BY <1>13, <2>2, <2>3 DEF Scan
  <1>14. CASE Unlink(g)
    <2>1. UNCHANGED arg /\ todo[g] \subseteq NamesUnder(x, CatOf(g))
      BY <1>3, <1>14 DEF Unlink, Removing
    <2>2. CASE At(g, "scan", cat[g], todo[g], {}) \/ At(g, "scan", cat[g], {}, {})
      BY <1>1, <2>1, <2>2, GoesOnHome
    <2> QED
      BY <1>14, <2>2 DEF Unlink
  <1>15. CASE CategoryDone(g)
    <2>1. UNCHANGED arg
      BY <1>15 DEF CategoryDone
    <2>2. CASE At(g, "track", cat[g] + 1, {}, {}) \/ At(g, "write", 1, {}, Published(arg[g]))
      BY <2>1, <2>2, GoesOnHome DEF Removing
    <2> QED
      BY <1>15, <2>2 DEF CategoryDone
  <1>16. CASE Write(g)
    <2>1. found[g] \subseteq Published(arg[g])
      BY <1>16 DEF Write, HomeInv, HomeOf
    <2>2. CASE UNCHANGED arg /\ \E k \in found[g] : At(g, "write", 1, {}, found[g] \ {k})
      BY <2>1, <2>2, GoesOnHome DEF Removing
    <2>3. CASE Fail(g)
      BY <2>3, ReturnHome DEF Fail, Outside
    <2> QED
      BY <1>16, <2>2, <2>3 DEF Write
  <1>17. ASSUME NEW i, pc[g] \in Storing
         PROVE  StaleNames(g, i) \subseteq NamesUnder(x, CatSeq[i])
    BY <1>17, ArgHome DEF StaleNames
  <1>18. CASE WriteDone(g)
    <2>1. StaleNames(g, 1) \subseteq NamesUnder(x, CatSeq[1])
      BY <1>17, <1>18 DEF WriteDone, Storing
    <2> QED
      BY <1>18, <2>1, GoesOnHome DEF WriteDone
  <1>19. CASE Stale(g)
    <2>1. UNCHANGED arg /\ todo[g] \subseteq NamesUnder(x, CatOf(g))
      BY <1>3, <1>19 DEF Stale
    <2>2. ASSUME NEW n \in todo[g],
                 At(g, "purge", cat[g], todo[g] \ {n}, {k \in ServerKeysOf(CatOf(g), n) : arg[g][k] = Absent})
          PROVE  HomeOf(g)'
      <3>1. {k \in ServerKeysOf(CatOf(g), n) : arg[g][k] = Absent} \subseteq KeysUnder(x)
        BY <1>5, <2>1 DEF ServerKeysOf
      <3> QED
        BY <1>1, <2>1, <2>2, <3>1, GoesOnHome
    <2>3. ASSUME NEW n \in todo[g], At(g, "stale", cat[g], todo[g] \ {n}, {})
          PROVE  HomeOf(g)'
      BY <1>1, <2>1, <2>3, GoesOnHome
    <2> QED
      BY <1>19, <2>2, <2>3 DEF Stale
  <1>20. CASE Purge(g)
    <2>1. UNCHANGED arg /\ todo[g] \subseteq NamesUnder(x, CatOf(g)) /\ found[g] \subseteq KeysUnder(x)
      BY <1>3, <1>4, <1>20 DEF Purge
    <2>2. ASSUME NEW k \in found[g], At(g, "purge", cat[g], todo[g], found[g] \ {k})
          PROVE  HomeOf(g)'
      BY <1>1, <2>1, <2>2, GoesOnHome
    <2>3. CASE At(g, "stale", cat[g], todo[g], {})
      BY <1>1, <2>1, <2>3, GoesOnHome
    <2> QED
      BY <1>20, <2>2, <2>3 DEF Purge
  <1>21. CASE StaleDone(g)
    <2>1. UNCHANGED arg /\ StaleNames(g, cat[g] + 1) \subseteq NamesUnder(x, CatSeq[cat[g] + 1])
      BY <1>17, <1>21 DEF StaleDone, Storing
    <2>2. CASE At(g, "stale", cat[g] + 1, StaleNames(g, cat[g] + 1), {})
      BY <2>1, <2>2, GoesOnHome
    <2>3. CASE At(g, "swap", 1, {}, {})
      BY <2>1, <2>3, GoesOnHome DEF Removing
    <2> QED
      BY <1>21, <2>2, <2>3 DEF StaleDone
  <1>22. CASE Swap(g)
    <2>1. UNCHANGED arg /\ (At(g, "swap", cat[g] + 1, {}, {}) \/ At(g, "stamp", 1, {}, {}))
      BY <1>22 DEF Swap
    <2> QED
      BY <2>1, GoesOnHome DEF Removing
  <1>23. CASE Stamp(g)
    BY <1>23, ReturnHome DEF Stamp, Fail, Outside
  <1> QED
    BY <1>7, <1>8, <1>9, <1>10, <1>11, <1>12, <1>13, <1>14, <1>15, <1>16, <1>18, <1>19, <1>20,
       <1>21, <1>22, <1>23 DEF Act, Work

\* After a step of g, what is tracked and remembered for its host belongs to it.
LEMMA HomeHost ==
    ASSUME TypeOK, HoldInv, HomeInv, NEW g \in Goroutine, Act(g)
    PROVE  HomeAt(HostOf[g])'
  <1> DEFINE x == HostOf[g]
             c == CatOf(g)
  <1>1. x \in Host /\ c \in Cat
    BY DEF TypeOK, CatOf, Cat
  <1>2. HomeAt(x)
    BY <1>1 DEF HomeInv
  <1>3. ASSUME UNCHANGED <<members, membersNew, lastConfig>>
        PROVE  HomeAt(x)'
    BY <1>2, <1>3 DEF HomeAt
  <1>4. CASE Track(g)
    <2>1. Names(arg[g], c) \subseteq NamesUnder(x, c)
      BY <1>4, ArgHome DEF Track, Storing
    <2>2. \A d \in Cat : membersNew'[x][d] \in {membersNew[x][d], membersNew[x][d] \cup Names(arg[g], c)}
                      /\ (d # c => membersNew'[x][d] = membersNew[x][d])
      BY <1>1, <1>4 DEF Track, TypeOK
    <2>3. UNCHANGED <<members, lastConfig>>
      BY <1>4 DEF Track
    <2> QED
      BY <1>1, <1>2, <2>1, <2>2, <2>3 DEF HomeAt
  <1>5. CASE Swap(g)
    <2>1. \A d \in Cat : members'[x][d] \cup membersNew'[x][d] \subseteq members[x][d] \cup membersNew[x][d]
      <3>1. UNCHANGED <<members, membersNew>>
            \/ /\ membersNew' = [membersNew EXCEPT ![x][c] = {}]
               /\ \/ members' = [members EXCEPT ![x][c] = {}]
                  \/ members' = [members EXCEPT ![x][c] = membersNew[x][c]]
        BY <1>5 DEF Swap
      <3>2. ASSUME NEW d \in Cat
            PROVE  /\ membersNew'[x][d] \in {{}, membersNew[x][d]}
                   /\ members'[x][d] \in {{}, members[x][d], membersNew[x][d]}
        <4>1. CASE d = c
          BY <1>1, <3>1, <4>1 DEF TypeOK
        <4>2. CASE d # c
          BY <1>1, <3>1, <4>2 DEF TypeOK
        <4> QED
          BY <4>1, <4>2
      <3> QED
        BY <3>2
    <2>2. UNCHANGED lastConfig
      BY <1>5 DEF Swap
    <2> QED
      BY <1>2, <2>1, <2>2 DEF HomeAt
  <1>6. CASE Stamp(g)
    <2>1. arg[g] \in HomeConf(x)
      BY <1>6 DEF Stamp, HoldInv, HomeInv, HomeOf, Storing
    <2>2. UNCHANGED <<members, membersNew>> /\ lastConfig'[x] \in {lastConfig[x], arg[g]}
      BY <1>1, <1>6 DEF Stamp, TypeOK
    <2> QED
      BY <1>2, <2>1, <2>2 DEF HomeAt
  <1>7. CASE UNCHANGED <<members, membersNew, lastConfig>>
    BY <1>3, <1>7
  <1> QED
    BY <1>4, <1>5, <1>6, <1>7 DEF Act, Calls, Work, StoreCall, KeepLock, Exists, Renew, Diff, Scan,
       Unlink, CategoryDone, Write, WriteDone, Stale, Purge, StaleDone, redis

\* A goroutine that does not move, and a host that nobody works for, stay at home.
LEMMA HomeUntouched ==
    ASSUME HomeInv
    PROVE  /\ \A o \in Goroutine :
                 /\ pc'[o] = pc[o] /\ cat'[o] = cat[o] /\ todo'[o] = todo[o]
                 /\ found'[o] = found[o] /\ arg'[o] = arg[o]
                 => HomeOf(o)'
           /\ \A x \in Host :
                 /\ members'[x] = members[x] /\ membersNew'[x] = membersNew[x]
                 /\ lastConfig'[x] = lastConfig[x]
                 => HomeAt(x)'
  BY DEF HomeInv, HomeOf, HomeAt, Published, CatOf

\* Every step of a goroutine preserves HomeInv.
LEMMA HomeAct ==
    ASSUME StoreInv, HomeInv, NEW g \in Goroutine, Act(g)
    PROVE  HomeInv'
  <1>1. Frame(g)
    BY RunFrame DEF StoreInv
  <1>2. HomeOf(g)' /\ HomeAt(HostOf[g])'
    BY HomeSelf, HomeHost DEF StoreInv
  <1>3. \A o \in Goroutine : HomeOf(o)'
    BY <1>1, <1>2, HomeUntouched DEF Frame
  <1>4. \A x \in Host : HomeAt(x)'
    BY <1>1, <1>2, HomeUntouched DEF Frame
  <1> QED
    BY <1>3, <1>4 DEF HomeInv

\* And so does every step of the environment.
LEMMA HomeEnvironment ==
    ASSUME StoreInv, HomeInv, Environment
    PROVE  HomeInv'
  <1>1. CASE Flush
    <2>1. \A o \in Goroutine : HomeOf(o)'
      BY <1>1, HomeUntouched DEF Flush, local
    <2>2. \A x \in Host : HomeAt(x)'
      BY <1>1 DEF Flush, HomeInv, HomeAt
    <2> QED
      BY <2>1, <2>2 DEF HomeInv
  <1>2. CASE ExpireEarly \/ \E k \in Key : Lapse(k)
    BY <1>2, HomeUntouched DEF ExpireEarly, Lapse, local, HomeInv
  <1>3. ASSUME NEW y \in Host, Crash(y)
        PROVE  HomeInv'
    <2>1. ASSUME NEW o \in Goroutine
          PROVE  HomeOf(o)'
      <3>1. CASE HostOf[o] = y
        BY <1>3, <3>1 DEF Crash, HomeOf, Removing
      <3>2. CASE HostOf[o] # y
        <4>1. /\ pc'[o] = pc[o] /\ cat'[o] = cat[o] /\ todo'[o] = todo[o]
              /\ found'[o] = found[o] /\ arg'[o] = arg[o]
          BY <1>3, <3>2 DEF Crash
        <4> QED
          BY <4>1, HomeUntouched
      <3> QED
        BY <3>1, <3>2
    <2>2. ASSUME NEW x \in Host
          PROVE  HomeAt(x)'
      <3>1. UNCHANGED <<members, membersNew>> /\ lastConfig'[x] \in {lastConfig[x], NoConf}
        BY <1>3 DEF Crash, redis, StoreInv, TypeOK
      <3> QED
        BY <3>1 DEF HomeInv, HomeAt
    <2> QED
      BY <2>1, <2>2 DEF HomeInv
  <1> QED
    BY <1>1, <1>2, <1>3 DEF Environment

\* HomeInv is an invariant, for any hosts, configurations and faults.
THEOREM HomeInvariant == Spec => []HomeInv
  <1>1. Init => HomeInv
    BY HomeInit
  <1>2. StoreInv /\ HomeInv /\ [Next]_vars => HomeInv'
    <2> SUFFICES ASSUME StoreInv, HomeInv, [Next]_vars
                 PROVE  HomeInv'
      OBVIOUS
    <2>1. ASSUME NEW g \in Goroutine, Run(g)
          PROVE  HomeInv'
      BY <2>1, RunIsAct, HomeAct
    <2>2. CASE Environment
      BY <2>2, HomeEnvironment
    <2>3. CASE UNCHANGED vars
      BY <2>3, HomeUntouched DEF vars, redis, local, HomeInv
    <2> QED
      BY <2>1, <2>2, <2>3 DEF Next
  <1> QED
    BY <1>1, <1>2, StoreInvariant, PTL DEF Spec

-------------------------------------------------------------------------------
\* A step of a goroutine, in whichever specification, obeys StaysHome.
LEMMA StaysHomeAct ==
    ASSUME StoreInv, HomeInv, NEW o \in Goroutine, Act(o)
    PROVE  StaysHomeStep
  <1> SUFFICES ASSUME NEW g \in Goroutine, NEW k \in Key, Moves(g), kv'[k] # kv[k]
               PROVE  /\ k \in KeysUnder(HostOf[g])
                      /\ kv'[k] \in {Absent, IF g \in Handler THEN arg[g][k]
                                             ELSE lastConfig[HostOf[g]][k]}
    BY DEF StaysHomeStep
  <1>1. o = g
    BY RunFrame DEF StoreInv, Frame, Moves
  <1>2. k \in KeysUnder(HostOf[g])
    BY <1>1, KvHome DEF StoreInv
  <1>3. Touches(g, k)
    BY <1>1, KvStep DEF StoreInv
  <1>4. g \notin Handler => arg[g] = lastConfig[HostOf[g]]
    BY <1>3 DEF Touches, StoreInv, RenewalIsCurrent, Storing
  <1> QED
    BY <1>2, <1>3, <1>4 DEF Touches

\* A step of the environment is nobody's, or changes no key.
LEMMA StaysHomeEnvironment ==
    ASSUME Environment
    PROVE  StaysHomeStep
  <1>1. CASE \E x \in Host : Crash(x)
    BY <1>1 DEF Crash, redis, StaysHomeStep
  <1>2. CASE Flush \/ ExpireEarly \/ \E k \in Key : Lapse(k)
    BY <1>2 DEF Flush, ExpireEarly, Lapse, local, StaysHomeStep, Moves
  <1> QED
    BY <1>1, <1>2 DEF Environment

\* No process changes a key below a name that its own containers never have,
\* and it writes nothing but its own configuration, whatever failed before and
\* whichever names the hosts share.
THEOREM StaysHomeHolds == Spec => StaysHome
  <1>1. ASSUME StoreInv, HomeInv, [Next]_vars
        PROVE  [StaysHomeStep]_vars
    <2>1. ASSUME NEW g \in Goroutine, Run(g)
          PROVE  StaysHomeStep
      BY <1>1, <2>1, RunIsAct, StaysHomeAct
    <2> QED
      BY <1>1, <2>1, StaysHomeEnvironment DEF Next
  <1> QED
    BY <1>1, StoreInvariant, HomeInvariant, PTL DEF Spec, StaysHome

===============================================================================
