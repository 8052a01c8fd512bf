--------------------------- MODULE PublicationProofs ---------------------------
(***************************************************************************)
(* The store implements Publication: every step of a goroutine, of Redis   *)
(* or of a crash is one of the abstract steps, or none.                    *)
(***************************************************************************)
EXTENDS StoreCleanProofs

USE StoreAssumption

\* The abstract variable current.
Progress == [x \in Host |-> Installing(x)]

\* Host x goes over to conf, or to NoConf, and the others go on as before.
Turns(x, conf) == Progress' = [Progress EXCEPT ![x] = conf]

\* Host x begins with conf.
StartsWith(x, conf) ==
    /\ Progress[x] = NoConf
    /\ Turns(x, conf)
    /\ UNCHANGED <<kv, lastConfig, faults>>

-------------------------------------------------------------------------------
\* Publication speaks of the same keys.
LEMMA SameNotions ==
    /\ \A conf, c : Abstract!Names(conf, c) = Names(conf, c)
    /\ \A x : Abstract!Own(x) = Own(x)
    /\ \A x : Abstract!Removable(x) = Removable(x)
  <1>1. \A conf : Abstract!Published(conf) = Published(conf)
    BY DEF Abstract!Published, Published
  <1>2. \A conf, c : Abstract!Names(conf, c) = Names(conf, c)
    BY DEF Abstract!Names, Abstract!Entry, Names, Entry
  <1>3. \A x : Abstract!KeysUnder(x) = KeysUnder(x)
    BY <1>2 DEF Abstract!KeysUnder, KeysUnder
  <1>4. \A x : Abstract!Own(x) = Own(x)
    BY <1>3 DEF Abstract!Own, Own
  <1>5. \A conf, c : Abstract!AllKeyed(conf, c) <=> AllKeyed(conf, c)
    BY <1>1, <1>2 DEF Abstract!AllKeyed, AllKeyed
  <1>6. \A x : Abstract!Removable(x) = Removable(x)
    BY <1>3, <1>4, <1>5 DEF Abstract!Removable, Removable
  <1> QED
    BY <1>2, <1>4, <1>6

\* What the process of a goroutine that takes a step is installing.
LEMMA InstallingSelf ==
    ASSUME TypeOK, LockInv, NEW g \in Goroutine, pc[g] \in Inside \/ mu[HostOf[g]] = Free
    PROVE  Installing(HostOf[g]) = IF pc[g] \in Storing THEN arg[g] ELSE NoConf
  <1>1. Storing \subseteq Inside /\ g # Free
    BY DEF Inside
  <1> QED
    BY <1>1 DEF LockInv, Installing

\* A step of g turns its own host only.
LEMMA ActTurns ==
    ASSUME StoreInv, StoreInv', NEW g \in Goroutine, Act(g)
    PROVE  /\ Installing(HostOf[g]) = IF pc[g] \in Storing THEN arg[g] ELSE NoConf
           /\ Turns(HostOf[g], IF pc'[g] \in Storing THEN arg'[g] ELSE NoConf)
  <1> USE DEF StoreInv
  <1> DEFINE x == HostOf[g]
  <1>1. Frame(g) /\ (Takes(g) \/ Keeps(g) \/ GivesUp(g))
    BY RunFrame
  <1>2. pc[g] \in Inside \/ mu[x] = Free
    BY <1>1 DEF Takes, Keeps, GivesUp
  <1>3. Installing(x) = IF pc[g] \in Storing THEN arg[g] ELSE NoConf
    BY <1>2, InstallingSelf
  <1>4. Installing(x)' = IF pc'[g] \in Storing THEN arg'[g] ELSE NoConf
    <2>1. pc'[g] \in Inside \/ mu'[x] = Free
      BY <1>1 DEF Takes, Keeps, GivesUp
    <2>2. Storing \subseteq Inside /\ g # Free
      BY DEF Inside
    <2> QED
      BY <2>1, <2>2 DEF LockInv, Installing
  <1>5. ASSUME NEW y \in Host, y # x
        PROVE  Installing(y)' = Installing(y)
    <2>1. mu'[y] = mu[y]
      BY <1>1, <1>5 DEF Frame
    <2>2. mu[y] # Free => mu[y] \in Goroutine \ {g}
      BY <1>5 DEF LockInv, TypeOK
    <2> QED
      BY <1>1, <2>1, <2>2 DEF Frame, Installing
  <1>6. x \in Host
    OBVIOUS
  <1>7. Turns(x, IF pc'[g] \in Storing THEN arg'[g] ELSE NoConf)
    BY <1>4, <1>5, <1>6 DEF Turns, Progress
  <1> QED
    BY <1>3, <1>7

\* A step of g moves keys towards the configuration it installs.
LEMMA ActToward ==
    ASSUME StoreInv, NEW g \in Goroutine, Act(g), pc[g] \in Storing, NEW k \in Key
    PROVE  kv'[k] \in {kv[k], arg[g][k]}
  <1>1. kv'[k] = kv[k] \/ Touches(g, k)
    BY KvStep DEF StoreInv
  <1>2. pc[g] \in {"unlink", "purge"} /\ k \in found[g] => arg[g][k] = Absent
    BY DEF StoreInv, RemovalInv
  <1> QED
    BY <1>1, <1>2 DEF Touches

-------------------------------------------------------------------------------
(***************************************************************************)
(* The four kinds of steps of a goroutine.                                 *)
(***************************************************************************)

\* A call of Store begins with the configuration it is given.
LEMMA CalledWith ==
    ASSUME TypeOK, NEW g \in Goroutine, NEW conf, StoreCall(g, conf)
    PROVE  arg'[g] = conf
  BY DEF StoreCall, BeginStore, TypeOK

\* It begins to store what it is called with, or the last configuration.
LEMMA Begins ==
    ASSUME StoreInv, NEW g \in Goroutine, Act(g), pc[g] \notin Storing, pc'[g] \in Storing
    PROVE  /\ StoreCall(g, arg'[g]) \/ arg'[g] \in {lastConfig[HostOf[g]]} \ {NoConf}
           /\ UNCHANGED <<kv, lastConfig, faults>>
  <1> USE DEF StoreInv
  <1> DEFINE x == HostOf[g]
  <1>1. Calls(g) \/ KeepLock(g) \/ Exists(g) \/ Renew(g)
    BY DEF Act, Work, Track, Diff, Scan, Unlink, CategoryDone, Write, WriteDone, Stale, Purge,
           StaleDone, Swap, Stamp, Storing
  <1>2. CASE Calls(g)
    <2>1. PICK conf \in HomeConf(x) : StoreCall(g, conf)
      BY <1>2 DEF Calls
    <2>2. arg'[g] = conf
      BY <2>1, CalledWith
    <2> QED
      BY <2>1, <2>2 DEF StoreCall, redis
  <1>3. CASE KeepLock(g)
    BY <1>3, AtFrame DEF KeepLock, Storing
  <1>4. CASE Exists(g) \/ Renew(g)
    <2>1. lastConfig[x] # NoConf
      BY <1>4 DEF Exists, Renew, HoldInv
    <2>2. ~Return(g, "idle")
      BY AtFrame DEF Return, Storing
    <2>3. \A f : ~At(g, "renew", 1, {}, f)
      BY AtFrame DEF Storing
    <2>4. BeginStore(g, lastConfig[x]) /\ UNCHANGED faults
      BY <1>4, <2>2, <2>3 DEF Exists, Renew, NoFault
    <2>5. arg'[g] = lastConfig[x]
      BY <2>4 DEF BeginStore, TypeOK
    <2> QED
      BY <1>4, <2>1, <2>4, <2>5 DEF Exists, Renew, redis
  <1> QED
    BY <1>1, <1>2, <1>3, <1>4

\* It checks or renews, which shows no effect.
LEMMA Checks ==
    ASSUME StoreInv, NEW g \in Goroutine, Act(g), pc[g] \notin Storing, pc'[g] \notin Storing
    PROVE  /\ UNCHANGED <<kv, lastConfig>>
           /\ UNCHANGED faults \/ Faulty("error")
  <1>1. Calls(g) \/ KeepLock(g) \/ Exists(g) \/ Renew(g)
    BY DEF Act, Work, Track, Diff, Scan, Unlink, CategoryDone, Write, WriteDone, Stale, Purge,
           StaleDone, Swap, Stamp, Storing
  <1> QED
    BY <1>1 DEF Calls, StoreCall, KeepLock, Exists, Renew, NoFault, redis

\* It goes on storing.
LEMMA GoesOn ==
    ASSUME StoreInv, NEW g \in Goroutine, Act(g), pc[g] \in Storing, pc'[g] \in Storing
    PROVE  arg'[g] = arg[g] /\ UNCHANGED lastConfig
  <1>1. ~Calls(g) /\ ~KeepLock(g) /\ ~Exists(g) /\ ~Renew(g)
    BY DEF Calls, StoreCall, KeepLock, Exists, Renew, Storing
  <1>2. \A p \in Outside : ~Return(g, p)
    BY AtFrame DEF StoreInv, Return, Storing, Outside
  <1>3. ~Fail(g) /\ ~Return(g, "idle")
    BY <1>2 DEF Fail, Outside
  <1> QED
    BY <1>1, <1>3 DEF Act, Work, Track, Diff, Scan, Unlink, CategoryDone, Write, WriteDone, Stale,
       Purge, StaleDone, Swap, Stamp

\* It stops: Stamp was its last command, or a command failed.
LEMMA Stops ==
    ASSUME StoreInv, NEW g \in Goroutine, Act(g), pc[g] \in Storing, pc'[g] \notin Storing
    PROVE  \/ Stamp(g) /\ UNCHANGED faults
           \/ Faulty("error") /\ UNCHANGED lastConfig
  <1> USE DEF StoreInv
  <1>1. ~Calls(g) /\ ~KeepLock(g) /\ ~Exists(g) /\ ~Renew(g)
    BY DEF Calls, StoreCall, KeepLock, Exists, Renew, Storing
  <1>2. ~Track(g) /\ ~Diff(g) /\ ~Scan(g) /\ ~Unlink(g) /\ ~CategoryDone(g)
    BY AtFrame DEF Track, Diff, Scan, Unlink, CategoryDone, Storing
  <1>3. ~WriteDone(g) /\ ~Stale(g) /\ ~Purge(g) /\ ~StaleDone(g) /\ ~Swap(g)
    BY AtFrame DEF WriteDone, Stale, Purge, StaleDone, Swap, Storing
  <1>4. CASE Write(g)
    <2>1. \A f : ~At(g, "write", 1, {}, f)
      BY AtFrame DEF Storing
    <2> QED
      BY <1>4, <2>1 DEF Write
  <1>5. CASE Stamp(g)
    BY <1>5 DEF Stamp, NoFault
  <1> QED
    BY <1>1, <1>2, <1>3, <1>4, <1>5 DEF Act, Work

-------------------------------------------------------------------------------
(***************************************************************************)
(* They are steps of Publication.                                          *)
(***************************************************************************)

\* A fault makes the abstract clean false, and nothing makes it true.
LEMMA CleanFalls ==
    ASSUME StoreInv, Environment \/ \E g \in Goroutine : Act(g)
    PROVE  /\ (faults' = 0) \in {faults = 0, FALSE}
           /\ \A f : Faulty(f) => (faults' = 0) = FALSE
  <1>1. faults' = 0 => faults = 0
    BY FaultsGrow
  <1>2. \A f : Faulty(f) => faults' # 0
    BY DEF Faulty, StoreInv, TypeOK
  <1>3. (faults' = 0) \in {faults = 0, FALSE}
    BY <1>1, Zenon
  <1>4. \A f : Faulty(f) => (faults' = 0) = FALSE
    BY <1>2, Zenon
  <1> QED
    BY <1>3, <1>4

\* A step of a goroutine, with whatever configuration it is called, begins with
\* that configuration or with the last one, or is another step of its host.
LEMMA ActAbstract ==
    ASSUME StoreInv, StoreInv', HomeInv, CleanInv, NEW g \in Goroutine, Act(g)
    PROVE  \/ \E conf : /\ StartsWith(HostOf[g], conf)
                        /\ StoreCall(g, conf) \/ conf \in {lastConfig[HostOf[g]]} \ {NoConf}
           \/ \E x \in Host : Abstract!Install(x) \/ Abstract!Finish(x) \/ Abstract!Abort(x)
           \/ Abstract!Lose
           \/ UNCHANGED Abstract!vars
  <1> DEFINE x == HostOf[g]
  <1>1. x \in Host
    OBVIOUS
  <1>2. /\ Progress[x] = IF pc[g] \in Storing THEN arg[g] ELSE NoConf
        /\ Turns(x, IF pc'[g] \in Storing THEN arg'[g] ELSE NoConf)
    BY ActTurns DEF Progress
  <1>3. Progress \in [Host -> Conf \cup {NoConf}]
    BY DEF StoreInv, TypeOK, Progress, Installing
  <1>4. /\ (faults' = 0) \in {faults = 0, FALSE}
        /\ \A f : Faulty(f) => (faults' = 0) = FALSE
    BY CleanFalls
  <1>5. pc[g] \in Storing => arg[g] # NoConf
    BY DEF StoreInv, HoldInv
  <1>6. CASE pc[g] \notin Storing /\ pc'[g] \in Storing
    <2>1. /\ StoreCall(g, arg'[g]) \/ arg'[g] \in {lastConfig[x]} \ {NoConf}
          /\ UNCHANGED <<kv, lastConfig, faults>>
      BY <1>6, Begins
    <2>2. StartsWith(x, arg'[g])
      BY <1>2, <1>6, <2>1 DEF StartsWith
    <2> QED
      BY <2>1, <2>2
  <1>7. CASE pc[g] \notin Storing /\ pc'[g] \notin Storing
    <2>1. UNCHANGED <<kv, lastConfig>>
      BY <1>7, Checks
    <2>2. UNCHANGED Progress
      BY <1>2, <1>3, <1>7 DEF Turns
    <2>3. CASE UNCHANGED faults
      BY <2>1, <2>2, <2>3 DEF Abstract!vars, Progress
    <2>4. CASE Faulty("error")
      <3>1. (faults' = 0) = FALSE
        BY <1>4, <2>4
      <3>2. Abstract!Lose
        BY <2>1, <2>2, <3>1 DEF Abstract!Lose, Progress
      <3> QED
        BY <3>2
    <2> QED
      BY <1>7, <2>3, <2>4, Checks
  <1>8. ASSUME pc[g] \in Storing
        PROVE  Progress[x] = arg[g] /\ Progress[x] # NoConf /\ Abstract!Toward(x)
    <2>1. Progress[x] = arg[g] /\ Progress[x] # NoConf
      BY <1>2, <1>5, <1>8
    <2>2. \A k \in Key : kv'[k] \in {kv[k], Progress[x][k]}
      BY <1>8, <2>1, ActToward
    <2> QED
      BY <2>1, <2>2 DEF Abstract!Toward, Progress
  <1>9. CASE pc[g] \in Storing /\ pc'[g] \in Storing
    <2>1. arg'[g] = arg[g] /\ UNCHANGED lastConfig
      BY <1>9, GoesOn
    <2>2. UNCHANGED Progress
      BY <1>2, <1>3, <1>9, <2>1 DEF Turns
    <2>3. Abstract!Install(x)
      BY <1>4, <1>8, <1>9, <2>1, <2>2 DEF Abstract!Install, Progress
    <2> QED
      BY <1>1, <2>3
  <1>10. CASE pc[g] \in Storing /\ pc'[g] \notin Storing
    <2>1. Progress' = [Progress EXCEPT ![x] = NoConf]
      BY <1>2, <1>10 DEF Turns
    <2>2. CASE Faulty("error") /\ UNCHANGED lastConfig
      <3>1. (faults' = 0) = FALSE
        BY <1>4, <2>2
      <3>2. Abstract!Abort(x)
        BY <1>8, <1>10, <2>1, <2>2, <3>1 DEF Abstract!Abort, Progress
      <3> QED
        BY <1>1, <3>2
    <2>3. CASE Stamp(g) /\ UNCHANGED faults
      <3>1. kv' = kv /\ lastConfig' = [lastConfig EXCEPT ![x] = Progress[x]]
        BY <1>8, <1>10, <2>3, NoFaultStep DEF Stamp, StoreInv
      <3>2. ASSUME faults = 0
            PROVE  Abstract!Installed(x, Progress[x])
        <4>1. CleanBusy(g)
          BY <1>10, <3>2 DEF CleanInv
        <4>2. CleanIdle(x)'
          BY <2>3, <4>1, StampClean DEF StoreInv
        <4>3. lastConfig'[x] = Progress[x]
          BY <1>1, <3>1 DEF StoreInv, TypeOK
        <4>4. \A d : LastNames(x, d)' = Names(Progress[x], d)
          BY <1>8, <1>10, <4>3 DEF LastNames, Names
        <4>5. \A k \in Own(x) : Progress[x][k] # Absent => kv[k] = Progress[x][k]
          BY <1>8, <1>10, <3>1, <4>2, <4>3 DEF CleanIdle, InLast
        <4>6. \A k \in Removable(x) : kv[k] # Absent => k.name \in Names(Progress[x], k.cat)
          BY <3>1, <4>2, <4>4 DEF CleanIdle
        <4> QED
          BY <4>5, <4>6, SameNotions DEF Abstract!Installed
      <3>3. Abstract!Finish(x)
        BY <1>8, <1>10, <2>1, <2>3, <3>1, <3>2 DEF Abstract!Finish, Progress
      <3> QED
        BY <1>1, <3>3
    <2> QED
      BY <1>10, <2>2, <2>3, Stops
  <1> QED
    BY <1>6, <1>7, <1>9, <1>10

\* Without merging, a goroutine is called with a configuration of its containers.
LEMMA RunAbstract ==
    ASSUME StoreInv, StoreInv', HomeInv, CleanInv, NEW g \in Goroutine, Run(g)
    PROVE  Abstract!Next \/ UNCHANGED Abstract!vars
  <1> DEFINE x == HostOf[g]
  <1>1. Act(g) /\ x \in Host
    BY RunIsAct
  <1>2. ASSUME NEW conf, StartsWith(x, conf),
               StoreCall(g, conf) \/ conf \in {lastConfig[x]} \ {NoConf}
        PROVE  Abstract!Start(x)
    <2>1. StoreCall(g, conf) => conf \in Confs[x]
      <3> SUFFICES ASSUME StoreCall(g, conf)
                   PROVE  conf \in Confs[x]
        OBVIOUS
      <3>1. StoreLock(g)
        BY DEF Run, StoreCall, KeepLock, Work, Exists, Renew, Track, Diff, Scan, Unlink, CategoryDone,
               Write, WriteDone, Stale, Purge, StaleDone, Swap, Stamp
      <3>2. PICK given \in Confs[x] : StoreCall(g, given)
        BY <3>1 DEF StoreLock
      <3>3. arg'[g] = given /\ arg'[g] = conf
        BY <3>2, CalledWith DEF StoreInv
      <3> QED
        BY <3>2, <3>3
    <2>2. conf \in Confs[x] \cup ({lastConfig[x]} \ {NoConf})
      BY <1>2, <2>1
    <2>3. /\ Progress[x] = NoConf /\ Progress'[x] = conf
          /\ Progress' = [Progress EXCEPT ![x] = Progress'[x]]
          /\ UNCHANGED <<kv, lastConfig, faults = 0>>
      BY <1>1, <1>2 DEF StartsWith, Turns, Progress
    <2> QED
      BY <2>2, <2>3 DEF Abstract!Start, Progress
  <1> QED
    BY <1>1, <1>2, ActAbstract DEF Abstract!Next

\* Redis loses keys, keys expire, processes start over.
LEMMA EnvironmentAbstract ==
    ASSUME StoreInv, Environment
    PROVE  Abstract!Lose \/ Abstract!Expire \/ \E x \in Host : Abstract!Restart(x)
  <1>1. \A f : Faulty(f) => (faults' = 0) = FALSE
    BY CleanFalls
  <1>2. ASSUME UNCHANGED <<mu, pc, arg>>
        PROVE  UNCHANGED Progress
    BY <1>2 DEF Progress, Installing
  <1>3. CASE Flush \/ ExpireEarly
    <2>1. \A k \in Key : kv'[k] \in {kv[k], Absent}
      BY <1>3 DEF Flush, ExpireEarly, Without
    <2>2. UNCHANGED <<mu, pc, arg, lastConfig>>
      BY <1>3 DEF Flush, ExpireEarly, local
    <2>3. (faults' = 0) = FALSE
      BY <1>1, <1>3 DEF Flush, ExpireEarly
    <2> QED
      BY <1>2, <2>1, <2>2, <2>3 DEF Abstract!Lose, Progress
  <1>4. ASSUME NEW j \in Key, Lapse(j)
        PROVE  Abstract!Expire
    <2>1. UNCHANGED <<mu, pc, arg, lastConfig, faults>>
      BY <1>4 DEF Lapse, local
    <2>2. ~Renewed(j) /\ \A k \in Key : kv'[k] = IF k = j THEN Absent ELSE kv[k]
      BY <1>4 DEF Lapse, Without
    <2>3. ASSUME NEW x \in Host, NEW conf \in {Progress[x], lastConfig[x]} \ {NoConf}
          PROVE  conf[j] = Absent
      <3>1. CASE conf = lastConfig[x]
        BY <2>2, <2>3, <3>1 DEF Renewed
      <3>2. CASE conf = Progress[x]
        <4>1. mu[x] \in Goroutine /\ conf = arg[mu[x]]
          BY <2>3, <3>2 DEF Progress, Installing, StoreInv, TypeOK
        <4> QED
          BY <2>2, <2>3, <4>1 DEF Renewed
      <3> QED
        BY <2>3, <3>1, <3>2
    <2>4. UNCHANGED Progress
      BY <1>2, <2>1
    <2> QED
      BY <2>1, <2>2, <2>3, <2>4 DEF Abstract!Expire, Progress
  <1>5. ASSUME NEW x \in Host, Crash(x)
        PROVE  Abstract!Restart(x)
    <2>1. kv' = kv /\ lastConfig' = [lastConfig EXCEPT ![x] = NoConf]
      BY <1>5 DEF Crash, redis
    <2>2. mu'[x] = Free /\ \A y \in Host \ {x} : mu'[y] = mu[y]
      BY <1>5 DEF Crash, StoreInv, TypeOK
    <2>3. \A o \in Goroutine : HostOf[o] # x => pc'[o] = pc[o] /\ arg'[o] = arg[o]
      BY <1>5 DEF Crash
    <2>4. Installing(x)' = NoConf
      BY <2>2 DEF Installing
    <2>5. ASSUME NEW y \in Host, y # x
          PROVE  Installing(y)' = Installing(y)
      <3>1. mu[y] # Free => mu[y] \in Goroutine /\ HostOf[mu[y]] = y
        BY DEF StoreInv, TypeOK, LockInv
      <3> QED
        BY <2>2, <2>3, <2>5, <3>1 DEF Installing
    <2>6. Progress' = [Progress EXCEPT ![x] = NoConf]
      BY <2>4, <2>5 DEF Progress
    <2>7. (faults' = 0) = FALSE
      BY <1>1, <1>5 DEF Crash
    <2> QED
      BY <2>1, <2>6, <2>7 DEF Abstract!Restart, Progress
  <1> QED
    BY <1>3, <1>4, <1>5 DEF Environment

\* In the beginning nothing is published and nothing has failed.
LEMMA InitAbstract == Init => Abstract!Init
  <1> SUFFICES ASSUME Init
               PROVE  Abstract!Init
    OBVIOUS
  <1>1. \A x \in Host : Installing(x) = NoConf
    BY DEF Init, Installing
  <1>2. (faults = 0) = TRUE
    BY DEF Init
  <1> QED
    BY <1>1, <1>2 DEF Init, Abstract!Init

\* store() and KeepConfAlive() implement Publication, for any hosts, keys and
\* configurations, whatever fails and in whichever order the commands of the
\* hosts reach Redis.
THEOREM Refinement == Spec => ImplementsPublication
  <1>1. Init => Abstract!Init
    BY InitAbstract
  <1>2. StoreInv /\ StoreInv' /\ HomeInv /\ CleanInv /\ [Next]_vars => [Abstract!Next]_(Abstract!vars)
    <2> SUFFICES ASSUME StoreInv, StoreInv', HomeInv, CleanInv, [Next]_vars
                 PROVE  [Abstract!Next]_(Abstract!vars)
      OBVIOUS
    <2>1. CASE UNCHANGED vars
      BY <2>1 DEF vars, redis, local, Abstract!vars, Installing
    <2> QED
      BY <2>1, RunAbstract, EnvironmentAbstract DEF Next, Abstract!Next
  <1> QED
    BY <1>1, <1>2, StoreInvariant, HomeInvariant, CleanInvariant, PTL
       DEF Spec, ImplementsPublication, Abstract!Spec
===============================================================================
