--------------------------- MODULE StoreCleanProofs ---------------------------
(***************************************************************************)
(* What the store guarantees as long as nothing fails, for any hosts, also *)
(* ones that share names: a finished Store has installed its configuration *)
(* (InstalledWhenIdle) and no key is ever untracked (TrackedWhileClean).   *)
(***************************************************************************)
EXTENDS StoreHomeProofs

USE StoreAssumption

\* What host x published last under k, and the names it published last.
InLast(x, k) == lastConfig[x] # NoConf /\ lastConfig[x][k] # Absent

LastNames(x, d) == IF lastConfig[x] = NoConf THEN {} ELSE Names(lastConfig[x], d)

(***************************************************************************)
(* How far goroutine g is with category number i.                          *)
(***************************************************************************)
Cleaning == {"track", "diff", "scan", "unlink"}
Writing == {"write", "stale", "purge", "swap", "stamp"}

\* The new names are in the _new set.
Added(g, i) ==
    \/ pc[g] = "track" /\ i < cat[g]
    \/ pc[g] \in {"diff", "scan", "unlink"} /\ i <= cat[g]
    \/ pc[g] \in {"write", "stale", "purge"}
    \/ pc[g] = "swap" /\ i >= cat[g]

\* The _new set has become the tracking set.
Swapped(g, i) == pc[g] = "stamp" \/ (pc[g] = "swap" /\ i < cat[g])

\* The old names have been removed.
Removed(g, i) == pc[g] \in Writing \/ (pc[g] \in Cleaning /\ i < cat[g])

\* Name n has still to be removed, if it has to be.
StillThere(g, i, n) ==
    \/ pc[g] \in Cleaning /\ i > cat[g]
    \/ pc[g] \in {"track", "diff"} /\ i = cat[g]
    \/ pc[g] \in Removing /\ i = cat[g] /\ n \in todo[g]

IsServer(k) == k.cat \in ServiceCat /\ k.field \in ServerField

(***************************************************************************)
(* The invariant of a goroutine that stores.                               *)
(***************************************************************************)

\* The tracking sets hold the names of the last configuration until they are
\* swapped, and the _new sets those of the new one from SADD to the swap.
SetsExact(g) ==
    \A i \in DOMAIN CatSeq :
        /\ members[HostOf[g]][CatSeq[i]] =
              IF Swapped(g, i) THEN Names(arg[g], CatSeq[i]) ELSE LastNames(HostOf[g], CatSeq[i])
        /\ membersNew[HostOf[g]][CatSeq[i]] =
              IF Added(g, i) THEN Names(arg[g], CatSeq[i]) ELSE {}

\* The keys of the last configuration are there until their names are removed.
LastPresent(g) ==
    \A i \in DOMAIN CatSeq : \A k \in Own(HostOf[g]) :
        /\ k.cat = CatSeq[i]
        /\ InLast(HostOf[g], k)
        /\ StillThere(g, i, k.name)
        => kv[k] = lastConfig[HostOf[g]][k]

\* The names in Redis are old ones before the removal and new ones after it.
NamesExact(g) ==
    \A i \in DOMAIN CatSeq : \A k \in Removable(HostOf[g]) :
        k.cat = CatSeq[i] /\ kv[k] # Absent =>
            /\ ~Removed(g, i) => k.name \in LastNames(HostOf[g], CatSeq[i])
            /\ Removed(g, i) => k.name \in Names(arg[g], CatSeq[i])
            /\ pc[g] \in Removing /\ i = cat[g] =>
                  \/ k.name \in Names(arg[g], CatSeq[i]) \cup todo[g]
                  \/ pc[g] = "unlink" /\ k \in found[g]

\* Names are removed one by one, and where the host is alone and all its names
\* have keys each of them still has some, so that UNLINK does not fail.
RemovesSome(g) ==
    /\ pc[g] \in Removing => todo[g] \subseteq LastNames(HostOf[g], CatOf(g))
    /\ pc[g] = "unlink" =>
          /\ \A k \in found[g] : k.cat = CatOf(g) /\ k.name \notin todo[g]
          /\ (\E j \in Removable(HostOf[g]) : j.cat = CatOf(g)) => found[g] # {}

\* What has been written is there.
WrittenPresent(g) ==
    \A k \in Own(HostOf[g]) :
        /\ arg[g][k] # Absent
        /\ \/ pc[g] = "write" /\ k \notin found[g]
           \/ pc[g] \in Writing \ {"write"}
        => kv[k] = arg[g][k]

\* Servers that are left over are still to be looked at.
ServersLeft(g) ==
    \A i \in DOMAIN CatSeq : \A k \in Removable(HostOf[g]) :
        k.cat = CatSeq[i] /\ IsServer(k) /\ kv[k] # Absent /\ arg[g][k] = Absent =>
            /\ pc[g] \notin {"swap", "stamp"}
            /\ pc[g] \in {"stale", "purge"} =>
                  /\ i >= cat[g]
                  /\ i = cat[g] => k.name \in todo[g] \/ (pc[g] = "purge" /\ k \in found[g])

CleanBusy(g) ==
    /\ SetsExact(g) /\ LastPresent(g) /\ NamesExact(g)
    /\ RemovesSome(g) /\ WrittenPresent(g) /\ ServersLeft(g)

\* The invariant of a host that is not storing.
CleanIdle(x) ==
    /\ \A d \in Cat : members[x][d] = LastNames(x, d) /\ membersNew[x][d] = {}
    /\ \A k \in Own(x) : InLast(x, k) => kv[k] = lastConfig[x][k]
    /\ \A k \in Removable(x) : kv[k] # Absent =>
          /\ k.name \in LastNames(x, k.cat)
          /\ IsServer(k) => InLast(x, k)

NotStoring(x) == \A g \in Goroutine : HostOf[g] = x => pc[g] \notin Storing

CleanInv ==
    faults = 0 =>
        /\ \A x \in Host : NotStoring(x) => CleanIdle(x)
        /\ \A g \in Goroutine : pc[g] \in Storing => CleanBusy(g)

-------------------------------------------------------------------------------
\* Keys that the host can always remove are among its own, and all of these are
\* keys.
LEMMA OwnKeys == \A x \in Host : Removable(x) \subseteq Own(x) /\ Own(x) \subseteq Key
  BY DEF Removable, Own, KeysUnder

\* The categories by their number.
LEMMA CatNumbers ==
    /\ Len(CatSeq) \in Nat
    /\ DOMAIN CatSeq = 1..Len(CatSeq)
    /\ \A d : d \in Cat <=> \E i \in DOMAIN CatSeq : d = CatSeq[i]
  BY DEF Cat

\* The initial state is clean.
LEMMA CleanInit == Init => CleanInv
  <1> SUFFICES ASSUME Init
               PROVE  CleanInv
    OBVIOUS
  <1>1. ASSUME NEW x \in Host
        PROVE  CleanIdle(x)
    BY OwnKeys DEF Init, CleanIdle, LastNames, InLast
  <1> QED
    BY <1>1 DEF Init, CleanInv, Storing

\* What a goroutine, or a host, depends on: its own state, the host's sets and
\* last configuration, and the keys that are the host's own, as far as anybody
\* keeps them.
SameKeys(x) ==
    \A k \in Own(x) : kv'[k] = kv[k] \/ (kv'[k] = Absent /\ ~Renewed(k))

SameHost(x) ==
    /\ members'[x] = members[x] /\ membersNew'[x] = membersNew[x]
    /\ lastConfig'[x] = lastConfig[x]
    /\ SameKeys(x)

LEMMA CleanIdleSame ==
    ASSUME NEW x \in Host, CleanIdle(x), SameHost(x)
    PROVE  CleanIdle(x)'
  <1>1. \A d : LastNames(x, d)' = LastNames(x, d)
    BY DEF SameHost, LastNames, Names
  <1>2. \A k \in Own(x) : InLast(x, k)' <=> InLast(x, k)
    BY DEF SameHost, InLast
  <1>3. \A k \in Own(x) : InLast(x, k) => kv'[k] = kv[k]
    BY DEF SameHost, SameKeys, Renewed, InLast
  <1>4. \A k \in Own(x) : kv'[k] # Absent => kv[k] # Absent
    BY DEF SameHost, SameKeys
  <1> QED
    BY <1>1, <1>2, <1>3, <1>4, OwnKeys DEF CleanIdle, SameHost

LEMMA CleanBusySame ==
    ASSUME NEW o \in Goroutine, HoldInv, pc[o] \in Storing, CleanBusy(o), SameHost(HostOf[o]),
           pc'[o] = pc[o], cat'[o] = cat[o], todo'[o] = todo[o], found'[o] = found[o],
           arg'[o] = arg[o]
    PROVE  CleanBusy(o)'
  <1> DEFINE x == HostOf[o]
  <1>1. \A d : LastNames(x, d)' = LastNames(x, d) /\ Names(arg[o], d)' = Names(arg[o], d)
    BY DEF SameHost, LastNames, Names
  <1>2. \A k \in Own(x) : InLast(x, k)' <=> InLast(x, k)
    BY DEF SameHost, InLast
  <1>3. \A k \in Own(x) : InLast(x, k) \/ arg[o][k] # Absent => kv'[k] = kv[k]
    BY DEF SameHost, SameKeys, Renewed, InLast, HoldInv
  <1>4. \A k \in Own(x) : kv'[k] # Absent => kv[k] # Absent
    BY DEF SameHost, SameKeys
  <1>5. x \in Host
    OBVIOUS
  <1>6. \A i \in DOMAIN CatSeq :
           /\ Added(o, i)' <=> Added(o, i)
           /\ Swapped(o, i)' <=> Swapped(o, i)
           /\ Removed(o, i)' <=> Removed(o, i)
           /\ \A n : StillThere(o, i, n)' <=> StillThere(o, i, n)
    BY DEF Added, Swapped, Removed, StillThere
  <1>7. SetsExact(o)'
    BY <1>1, <1>6 DEF CleanBusy, SetsExact, SameHost
  <1>8. LastPresent(o)'
    BY <1>2, <1>3, <1>6 DEF CleanBusy, LastPresent, SameHost
  <1>9. NamesExact(o)'
    BY <1>1, <1>4, <1>5, <1>6, OwnKeys DEF CleanBusy, NamesExact
  <1>10. RemovesSome(o)'
    BY <1>1 DEF CleanBusy, RemovesSome, CatOf
  <1>11. WrittenPresent(o)'
    BY <1>3 DEF CleanBusy, WrittenPresent
  <1>12. ServersLeft(o)'
    BY <1>4, <1>5, OwnKeys DEF CleanBusy, ServersLeft, IsServer
  <1> QED
    BY <1>7, <1>8, <1>9, <1>10, <1>11, <1>12 DEF CleanBusy
-------------------------------------------------------------------------------
(***************************************************************************)
(* The goroutine that takes the step.                                      *)
(***************************************************************************)

\* A step without a fault is none of the faulty ones.
LEMMA NoFaultStep ==
    ASSUME TypeOK, UNCHANGED faults
    PROVE  \A f : ~Faulty(f)
  BY DEF TypeOK, Faulty

\* A goroutine goes on with the same configuration.
LEMMA Onward ==
    ASSUME TypeOK, NEW g \in Goroutine, NEW p, NEW i, NEW t, NEW f,
           At(g, p, i, t, f), UNCHANGED <<arg, lastConfig>>
    PROVE  /\ pc'[g] = p /\ cat'[g] = i /\ todo'[g] = t /\ found'[g] = f
           /\ \A d : Names(arg[g], d)' = Names(arg[g], d)
           /\ \A d : LastNames(HostOf[g], d)' = LastNames(HostOf[g], d)
           /\ \A k : InLast(HostOf[g], k)' <=> InLast(HostOf[g], k)
  BY AtFrame DEF LastNames, Names, InLast

\* A goroutine that begins to store finds what the last Store has left.
LEMMA BeginClean ==
    ASSUME TypeOK, NEW g \in Goroutine, NEW conf \in Conf, BeginStore(g, conf),
           CleanIdle(HostOf[g]), UNCHANGED <<redis, lastConfig>>
    PROVE  CleanBusy(g)'
  <1> DEFINE x == HostOf[g]
  <1>1. x \in Host
    OBVIOUS
  <1>2. pc'[g] = "track" /\ cat'[g] = 1
    BY AtFrame DEF BeginStore
  <1>3. \A d : LastNames(x, d)' = LastNames(x, d)
    BY DEF LastNames, Names
  <1>4. \A k : InLast(x, k)' <=> InLast(x, k)
    BY DEF InLast
  <1>5. UNCHANGED <<kv, members, membersNew>>
    BY DEF redis
  <1>6. \A i \in DOMAIN CatSeq : CatSeq[i] \in Cat /\ i >= 1
    BY CatNumbers
  <1>7. SetsExact(g)'
    <2>1. \A i \in DOMAIN CatSeq : ~Added(g, i)' /\ ~Swapped(g, i)'
      BY <1>2, CatNumbers DEF Added, Swapped
    <2>2. \A i \in DOMAIN CatSeq : /\ members'[x][CatSeq[i]] = LastNames(x, CatSeq[i])
                                   /\ membersNew'[x][CatSeq[i]] = {}
      BY <1>5, <1>6 DEF CleanIdle
    <2> QED
      BY <1>3, <2>1, <2>2 DEF SetsExact
  <1>8. LastPresent(g)'
    BY <1>4, <1>5 DEF LastPresent, CleanIdle
  <1>9. NamesExact(g)'
    BY <1>2, <1>3, <1>5, <1>6, CatNumbers DEF NamesExact, CleanIdle, Removed, Removing, Writing
  <1>10. RemovesSome(g)' /\ WrittenPresent(g)' /\ ServersLeft(g)'
    BY <1>2 DEF RemovesSome, WrittenPresent, ServersLeft, Removing, Writing
  <1> QED
    BY <1>7, <1>8, <1>9, <1>10 DEF CleanBusy

\* SADD, or SMEMBERS: the old names are those of the last configuration.
LEMMA TrackClean ==
    ASSUME TypeOK, NEW g \in Goroutine, CleanBusy(g), Track(g), UNCHANGED faults
    PROVE  CleanBusy(g)'
  <1> DEFINE x == HostOf[g]
             new == Names(arg[g], CatOf(g))
             old == members[x][CatOf(g)]
  <1>1. /\ x \in Host /\ cat[g] \in DOMAIN CatSeq /\ CatOf(g) = CatSeq[cat[g]] /\ CatOf(g) \in Cat
        /\ pc[g] = "track"
    BY DEF TypeOK, CatOf, Cat, Track
  <1>2. UNCHANGED <<kv, members, arg, lastConfig>>
    BY DEF Track
  <1>3. \/ new = {} /\ At(g, "scan", cat[g], old, {}) /\ membersNew' = membersNew
        \/ /\ new # {} /\ At(g, "diff", cat[g], {}, {})
           /\ membersNew' = [membersNew EXCEPT ![x][CatOf(g)] = @ \cup new]
    BY NoFaultStep DEF Track
  <1>4. /\ (pc'[g] = "scan" /\ todo'[g] = old) \/ pc'[g] = "diff"
        /\ cat'[g] = cat[g]
        /\ \A d : Names(arg[g], d)' = Names(arg[g], d)
        /\ \A d : LastNames(x, d)' = LastNames(x, d)
        /\ \A k : InLast(x, k)' <=> InLast(x, k)
    BY <1>2, <1>3, Onward
  <1>5. old = LastNames(x, CatOf(g)) /\ membersNew[x][CatOf(g)] = {}
    BY <1>1, CatNumbers DEF CleanBusy, SetsExact, Added, Swapped
  <1>6. /\ membersNew'[x][CatOf(g)] = new
        /\ \A d \in Cat \ {CatOf(g)} : membersNew'[x][d] = membersNew[x][d]
    <2>1. CASE membersNew' = membersNew /\ new = {}
      BY <1>5, <2>1
    <2>2. CASE membersNew' = [membersNew EXCEPT ![x][CatOf(g)] = @ \cup new]
      <3>1. membersNew \in [Host -> [Cat -> SUBSET Name]]
        BY DEF TypeOK
      <3> HIDE DEF new
      <3> QED
        BY <1>1, <1>5, <2>2, <3>1
    <2> QED
      BY <1>3, <2>1, <2>2
  <1>7. SetsExact(g)'
    <2> SUFFICES ASSUME NEW i \in DOMAIN CatSeq
                 PROVE  /\ members'[x][CatSeq[i]] = LastNames(x, CatSeq[i])
                        /\ membersNew'[x][CatSeq[i]] = IF i <= cat[g] THEN Names(arg[g], CatSeq[i]) ELSE {}
      BY <1>4 DEF SetsExact, Added, Swapped
    <2>1. members[x][CatSeq[i]] = LastNames(x, CatSeq[i])
      BY <1>1 DEF CleanBusy, SetsExact, Swapped
    <2>2. membersNew[x][CatSeq[i]] = IF i < cat[g] THEN Names(arg[g], CatSeq[i]) ELSE {}
      BY <1>1 DEF CleanBusy, SetsExact, Added
    <2>3. i # cat[g] => CatSeq[i] \in Cat \ {CatOf(g)}
      BY <1>1, CatSeqAssumption, CatNumbers
    <2> QED
      BY <1>1, <1>2, <1>6, <2>1, <2>2, <2>3, CatNumbers
  <1>8. LastPresent(g)'
    BY <1>1, <1>2, <1>4 DEF CleanBusy, LastPresent, StillThere, Cleaning, Removing
  <1>9. NamesExact(g)'
    BY <1>1, <1>2, <1>4, <1>5 DEF CleanBusy, NamesExact, Removed, Cleaning, Writing, Removing
  <1>10. RemovesSome(g)'
    BY <1>1, <1>4, <1>5 DEF RemovesSome, CatOf, Removing
  <1>11. WrittenPresent(g)' /\ ServersLeft(g)'
    BY <1>4 DEF WrittenPresent, ServersLeft, Writing
  <1> QED
    BY <1>7, <1>8, <1>9, <1>10, <1>11 DEF CleanBusy

\* SDIFF: what is not in the new configuration has to go.
LEMMA DiffClean ==
    ASSUME TypeOK, NEW g \in Goroutine, CleanBusy(g), Diff(g), UNCHANGED faults
    PROVE  CleanBusy(g)'
  <1> DEFINE x == HostOf[g]
             old == members[x][CatOf(g)] \ membersNew[x][CatOf(g)]
  <1>1. /\ x \in Host /\ cat[g] \in DOMAIN CatSeq /\ CatOf(g) = CatSeq[cat[g]] /\ pc[g] = "diff"
    BY DEF TypeOK, CatOf, Diff
  <1>2. UNCHANGED <<kv, members, membersNew, arg, lastConfig>>
    BY DEF Diff, redis
  <1>3. At(g, "scan", cat[g], old, {})
    BY NoFaultStep DEF Diff
  <1>4. /\ pc'[g] = "scan" /\ todo'[g] = old /\ cat'[g] = cat[g]
        /\ \A d : Names(arg[g], d)' = Names(arg[g], d)
        /\ \A d : LastNames(x, d)' = LastNames(x, d)
        /\ \A k : InLast(x, k)' <=> InLast(x, k)
    BY <1>2, <1>3, Onward
  <1>5. old = LastNames(x, CatOf(g)) \ Names(arg[g], CatOf(g))
    BY <1>1, CatNumbers DEF CleanBusy, SetsExact, Added, Swapped
  <1>6. SetsExact(g)'
    BY <1>1, <1>2, <1>4 DEF CleanBusy, SetsExact, Added, Swapped
  <1>7. LastPresent(g)'
    BY <1>1, <1>2, <1>4 DEF CleanBusy, LastPresent, StillThere, Cleaning, Removing
  <1>8. NamesExact(g)'
    BY <1>1, <1>2, <1>4, <1>5, CatNumbers DEF CleanBusy, NamesExact, Removed, Cleaning, Writing, Removing
  <1>9. RemovesSome(g)'
    BY <1>1, <1>4, <1>5 DEF RemovesSome, CatOf, Removing
  <1>10. WrittenPresent(g)' /\ ServersLeft(g)'
    BY <1>4 DEF WrittenPresent, ServersLeft, Writing
  <1> QED
    BY <1>6, <1>7, <1>8, <1>9, <1>10 DEF CleanBusy

\* KEYS: where the host shares no name, a name that it published last with keys
\* still has them.
LEMMA ScanClean ==
    ASSUME TypeOK, HomeInv, NEW g \in Goroutine, CleanBusy(g), Scan(g), UNCHANGED faults
    PROVE  CleanBusy(g)'
  <1> DEFINE x == HostOf[g]
  <1>1. /\ x \in Host /\ cat[g] \in DOMAIN CatSeq /\ CatOf(g) = CatSeq[cat[g]] /\ pc[g] = "scan"
    BY DEF TypeOK, CatOf, Scan
  <1>2. UNCHANGED <<kv, members, membersNew, arg, lastConfig>>
    BY DEF Scan, redis
  <1>3. PICK n \in todo[g] : At(g, "unlink", cat[g], todo[g] \ {n}, KeysOf(CatOf(g), n))
    BY NoFaultStep DEF Scan
  <1>4. /\ pc'[g] = "unlink" /\ todo'[g] = todo[g] \ {n} /\ cat'[g] = cat[g]
        /\ found'[g] = KeysOf(CatOf(g), n)
        /\ \A d : Names(arg[g], d)' = Names(arg[g], d)
        /\ \A d : LastNames(x, d)' = LastNames(x, d)
        /\ \A k : InLast(x, k)' <=> InLast(x, k)
    BY <1>2, <1>3, Onward
  <1>5. n \in LastNames(x, CatOf(g))
    BY <1>1 DEF CleanBusy, RemovesSome, Removing
  <1>6. SetsExact(g)'
    BY <1>1, <1>2, <1>4 DEF CleanBusy, SetsExact, Added, Swapped
  <1>7. LastPresent(g)'
    BY <1>1, <1>2, <1>4 DEF CleanBusy, LastPresent, StillThere, Cleaning, Removing
  <1>8. NamesExact(g)'
    <2>1. \A k \in Key : k.cat = CatOf(g) /\ k.name = n /\ kv[k] # Absent => k \in found'[g]
      BY <1>4 DEF KeysOf
    <2> QED
      BY <1>1, <1>2, <1>4, <2>1, OwnKeys DEF CleanBusy, NamesExact, Removed, Cleaning, Writing, Removing
  <1>9. ASSUME NEW j \in Removable(x), j.cat = CatOf(g)
        PROVE  KeysOf(CatOf(g), n) # {}
    <2>1. lastConfig[x] # NoConf /\ lastConfig[x] \in HomeConf(x)
      BY <1>1, <1>5 DEF LastNames, HomeInv, HomeAt
    <2>2. PICK k \in Published(lastConfig[x]) : k.cat = CatOf(g) /\ k.name = n
      <3>1. Keyed(x, CatOf(g))
        BY <1>9 DEF Removable, Keyed
      <3>2. AllKeyed(lastConfig[x], CatOf(g))
        BY <2>1, <3>1 DEF HomeConf
      <3> QED
        BY <1>5, <2>1, <3>2 DEF LastNames, AllKeyed
    <2>3. k \in Key /\ InLast(x, k)
      BY <2>1, <2>2 DEF Published, InLast
    <2>4. k \in KeysUnder(x)
      BY <1>1, <2>1, <2>2, ConfHome
    <2>5. k \in Own(x)
      BY <1>9, <2>2, <2>4 DEF Removable
    <2>6. StillThere(g, cat[g], k.name)
      BY <1>1, <2>2 DEF StillThere, Removing
    <2>7. kv[k] = lastConfig[x][k]
      BY <1>1, <2>2, <2>3, <2>5, <2>6 DEF CleanBusy, LastPresent
    <2> QED
      BY <2>2, <2>3, <2>7 DEF InLast, KeysOf
  <1>10. RemovesSome(g)'
    <2>1. CatOf(g)' = CatOf(g)
      BY <1>4 DEF CatOf
    <2>2. todo'[g] \subseteq LastNames(x, CatOf(g))
      BY <1>1, <1>4 DEF CleanBusy, RemovesSome, Removing
    <2>3. \A k \in found'[g] : k.cat = CatOf(g) /\ k.name \notin todo'[g]
      BY <1>4 DEF KeysOf
    <2> QED
      BY <1>4, <1>9, <2>1, <2>2, <2>3 DEF RemovesSome
  <1>11. WrittenPresent(g)' /\ ServersLeft(g)'
    BY <1>4 DEF WrittenPresent, ServersLeft, Writing
  <1> QED
    BY <1>6, <1>7, <1>8, <1>10, <1>11 DEF CleanBusy

\* UNLINK: the keys of one name go, and those of the names still to be removed
\* stay.  A name without keys ends the category only where names are shared or
\* where the host has such names.
LEMMA UnlinkClean ==
    ASSUME TypeOK, NEW g \in Goroutine, CleanBusy(g), Unlink(g), UNCHANGED faults
    PROVE  CleanBusy(g)'
  <1> DEFINE x == HostOf[g]
  <1>1. /\ x \in Host /\ cat[g] \in DOMAIN CatSeq /\ CatOf(g) = CatSeq[cat[g]] /\ pc[g] = "unlink"
    BY DEF TypeOK, CatOf, Unlink
  <1>2. UNCHANGED <<members, membersNew, arg, lastConfig>>
    BY DEF Unlink
  <1>3. \/ found[g] # {} /\ kv' = Without(found[g]) /\ At(g, "scan", cat[g], todo[g], {})
        \/ found[g] = {} /\ kv' = kv /\ At(g, "scan", cat[g], {}, {})
    BY NoFaultStep DEF Unlink
  <1>4. /\ pc'[g] = "scan" /\ cat'[g] = cat[g]
        /\ todo'[g] \subseteq todo[g]
        /\ found[g] # {} => todo'[g] = todo[g]
        /\ \A d : Names(arg[g], d)' = Names(arg[g], d)
        /\ \A d : LastNames(x, d)' = LastNames(x, d)
        /\ \A k : InLast(x, k)' <=> InLast(x, k)
    BY <1>2, <1>3, Onward
  <1>5. \A k \in Key : IF k \in found[g] THEN kv'[k] = Absent ELSE kv'[k] = kv[k]
    BY <1>3 DEF Without
  <1>6. SetsExact(g)'
    BY <1>1, <1>2, <1>4 DEF CleanBusy, SetsExact, Added, Swapped
  <1>7. LastPresent(g)'
    <2> SUFFICES ASSUME NEW i \in DOMAIN CatSeq, NEW k \in Own(x),
                        k.cat = CatSeq[i], InLast(x, k), StillThere(g, i, k.name)'
                 PROVE  kv'[k] = lastConfig[x][k]
      BY <1>2, <1>4 DEF LastPresent
    <2>1. StillThere(g, i, k.name) /\ (i = cat[g] => k.name \in todo[g])
      BY <1>1, <1>4 DEF StillThere, Cleaning, Removing
    <2>2. k \notin found[g]
      <3>1. k \in found[g] => k.cat = CatSeq[cat[g]] /\ k.name \notin todo[g]
        BY <1>1 DEF CleanBusy, RemovesSome
      <3> QED
        BY <1>1, <2>1, <3>1, CatSeqAssumption
    <2>3. kv[k] = lastConfig[x][k]
      BY <2>1 DEF CleanBusy, LastPresent
    <2> QED
      BY <1>1, <1>5, <2>2, <2>3, OwnKeys
  <1>8. NamesExact(g)'
    <2> SUFFICES ASSUME NEW i \in DOMAIN CatSeq, NEW k \in Removable(x), k.cat = CatSeq[i], kv'[k] # Absent
                 PROVE  /\ ~Removed(g, i)' => k.name \in LastNames(x, CatSeq[i])
                        /\ Removed(g, i)' => k.name \in Names(arg[g], CatSeq[i])
                        /\ i = cat[g] => k.name \in Names(arg[g], CatSeq[i]) \cup todo'[g]
      BY <1>4 DEF NamesExact, Removing
    <2>1. kv[k] # Absent /\ k \notin found[g]
      BY <1>1, <1>5, OwnKeys
    <2>2. Removed(g, i)' <=> Removed(g, i)
      BY <1>1, <1>4 DEF Removed, Cleaning, Writing
    <2>3. i = cat[g] => found[g] # {}
      BY <1>1 DEF CleanBusy, RemovesSome
    <2> QED
      BY <1>1, <1>4, <2>1, <2>2, <2>3 DEF CleanBusy, NamesExact, Removing
  <1>9. RemovesSome(g)'
    <2>1. todo[g] \subseteq LastNames(x, CatOf(g))
      BY <1>1 DEF CleanBusy, RemovesSome, Removing
    <2> QED
      BY <1>4, <2>1 DEF RemovesSome, CatOf
  <1>10. WrittenPresent(g)' /\ ServersLeft(g)'
    BY <1>4 DEF WrittenPresent, ServersLeft, Writing
  <1> QED
    BY <1>6, <1>7, <1>8, <1>9, <1>10 DEF CleanBusy

\* A category is through once only names of the new configuration are left.
LEMMA CategoryClean ==
    ASSUME TypeOK, NEW g \in Goroutine, CleanBusy(g), CategoryDone(g)
    PROVE  CleanBusy(g)'
  <1> DEFINE x == HostOf[g]
  <1>1. /\ x \in Host /\ cat[g] \in DOMAIN CatSeq /\ CatOf(g) = CatSeq[cat[g]] /\ pc[g] = "scan"
        /\ todo[g] = {}
    BY DEF TypeOK, CatOf, CategoryDone
  <1>2. UNCHANGED <<kv, members, membersNew, arg, lastConfig>>
    BY DEF CategoryDone, redis
  <1>3. \/ At(g, "track", cat[g] + 1, {}, {})
        \/ cat[g] >= Len(CatSeq) /\ At(g, "write", 1, {}, Published(arg[g]))
    BY <1>1, CatNumbers DEF CategoryDone
  <1>4. /\ \/ pc'[g] = "track" /\ cat'[g] = cat[g] + 1
           \/ pc'[g] = "write" /\ found'[g] = Published(arg[g]) /\ cat[g] >= Len(CatSeq)
        /\ \A d : Names(arg[g], d)' = Names(arg[g], d)
        /\ \A d : LastNames(x, d)' = LastNames(x, d)
        /\ \A k : InLast(x, k)' <=> InLast(x, k)
    BY <1>2, <1>3, Onward
  <1>5. ASSUME NEW i \in DOMAIN CatSeq
        PROVE  /\ Added(g, i)' <=> Added(g, i)
               /\ ~Swapped(g, i)' /\ ~Swapped(g, i)
               /\ Removed(g, i)' <=> i <= cat[g]
               /\ Removed(g, i) <=> i < cat[g]
               /\ \A n : StillThere(g, i, n)' => StillThere(g, i, n)
    BY <1>1, <1>4, CatNumbers DEF Added, Swapped, Removed, StillThere, Cleaning, Writing, Removing
  <1>6. SetsExact(g)'
    BY <1>1, <1>2, <1>4, <1>5 DEF CleanBusy, SetsExact
  <1>7. LastPresent(g)'
    BY <1>1, <1>2, <1>4, <1>5 DEF CleanBusy, LastPresent
  <1>8. NamesExact(g)'
    BY <1>1, <1>2, <1>4, <1>5, CatNumbers DEF CleanBusy, NamesExact, Removing
  <1>9. RemovesSome(g)' /\ ServersLeft(g)'
    BY <1>4 DEF RemovesSome, ServersLeft, Removing
  <1>10. WrittenPresent(g)'
    BY <1>1, <1>2, <1>4, OwnKeys DEF WrittenPresent, Published, Writing
  <1> QED
    BY <1>6, <1>7, <1>8, <1>9, <1>10 DEF CleanBusy

\* In the second part of store() the sets and the names stay exact as long as
\* only the local state and keys of the new configuration change.
LEMMA WritingKeeps ==
    ASSUME NEW g \in Goroutine, CleanBusy(g),
           pc[g] \in {"write", "stale", "purge"},
           \/ pc'[g] \in {"write", "stale", "purge"}
           \/ pc'[g] = "swap" /\ cat'[g] = 1,
           UNCHANGED <<members, membersNew, lastConfig, arg>>,
           \A k \in Key : kv'[k] # Absent => kv[k] # Absent \/ k.name \in Names(arg[g], k.cat)
    PROVE  SetsExact(g)' /\ LastPresent(g)' /\ NamesExact(g)' /\ RemovesSome(g)'
  <1>1. \A d : Names(arg[g], d)' = Names(arg[g], d) /\ LastNames(HostOf[g], d)' = LastNames(HostOf[g], d)
    BY DEF LastNames, Names
  <1>2. ASSUME NEW i \in DOMAIN CatSeq
        PROVE  /\ Added(g, i)' /\ Added(g, i)
               /\ ~Swapped(g, i)' /\ ~Swapped(g, i)
               /\ Removed(g, i)' /\ Removed(g, i)
               /\ \A n : ~StillThere(g, i, n)'
    BY CatNumbers DEF Added, Swapped, Removed, StillThere, Cleaning, Writing, Removing
  <1>3. SetsExact(g)' /\ LastPresent(g)'
    BY <1>1, <1>2 DEF CleanBusy, SetsExact, LastPresent
  <1>4. NamesExact(g)'
    BY <1>1, <1>2, OwnKeys DEF CleanBusy, NamesExact, Removing
  <1>5. RemovesSome(g)'
    BY DEF RemovesSome, Removing
  <1> QED
    BY <1>3, <1>4, <1>5

\* SET: what is written stays.
LEMMA WriteClean ==
    ASSUME TypeOK, HoldInv, HomeInv, NEW g \in Goroutine, CleanBusy(g), Write(g), UNCHANGED faults
    PROVE  CleanBusy(g)'
  <1> DEFINE x == HostOf[g]
  <1>1. x \in Host /\ pc[g] = "write"
    BY DEF Write
  <1>2. PICK k \in found[g] : /\ kv' = [kv EXCEPT ![k] = arg[g][k]]
                              /\ At(g, "write", 1, {}, found[g] \ {k})
                              /\ UNCHANGED arg
    BY NoFaultStep DEF Write
  <1>3. UNCHANGED <<members, membersNew, arg, lastConfig>>
    BY <1>2 DEF Write
  <1>4. pc'[g] = "write" /\ found'[g] = found[g] \ {k}
    BY <1>2, AtFrame
  <1>5. arg[g] \in Conf /\ k \in Key /\ arg[g][k] # Absent
    <2>1. arg[g] \in Conf
      BY <1>1 DEF HoldInv, TypeOK, Storing
    <2>2. found[g] \subseteq Published(arg[g])
      BY <1>1 DEF HomeInv, HomeOf
    <2> QED
      BY <1>2, <2>1, <2>2 DEF Published
  <1>6. \A j \in Key : kv'[j] = IF j = k THEN arg[g][k] ELSE kv[j]
    BY <1>2 DEF TypeOK, Contents
  <1>7. \A j \in Key : kv'[j] # Absent => kv[j] # Absent \/ j.name \in Names(arg[g], j.cat)
    BY <1>5, <1>6, PublishedName
  <1>8. SetsExact(g)' /\ LastPresent(g)' /\ NamesExact(g)' /\ RemovesSome(g)'
    BY <1>1, <1>3, <1>4, <1>7, WritingKeeps
  <1>9. WrittenPresent(g)'
    BY <1>1, <1>3, <1>4, <1>6, OwnKeys DEF CleanBusy, WrittenPresent, Writing
  <1>10. ServersLeft(g)'
    BY <1>4 DEF ServersLeft
  <1> QED
    BY <1>8, <1>9, <1>10 DEF CleanBusy

\* In the part that follows no key of the configuration is deleted.
LEMMA WrittenStays ==
    ASSUME NEW g \in Goroutine, CleanBusy(g), UNCHANGED arg,
           \/ pc[g] = "write" /\ found[g] = {}
           \/ pc[g] \in Writing \ {"write"},
           pc'[g] \in Writing \ {"write"},
           \A k \in Own(HostOf[g]) : arg[g][k] # Absent => kv'[k] = kv[k]
    PROVE  WrittenPresent(g)'
  BY DEF CleanBusy, WrittenPresent, Writing

\* All is written; the servers of the first category are looked at.
LEMMA WriteDoneClean ==
    ASSUME TypeOK, NEW g \in Goroutine, CleanBusy(g), WriteDone(g)
    PROVE  CleanBusy(g)'
  <1> DEFINE x == HostOf[g]
  <1>1. x \in Host /\ pc[g] = "write" /\ found[g] = {}
    BY DEF WriteDone
  <1>2. UNCHANGED <<kv, members, membersNew, arg, lastConfig>>
    BY DEF WriteDone, redis
  <1>3. pc'[g] = "stale" /\ cat'[g] = 1 /\ todo'[g] = StaleNames(g, 1)
    BY AtFrame DEF WriteDone
  <1>4. SetsExact(g)' /\ LastPresent(g)' /\ NamesExact(g)' /\ RemovesSome(g)'
    BY <1>1, <1>2, <1>3, WritingKeeps
  <1>5. WrittenPresent(g)'
    BY <1>1, <1>2, <1>3, WrittenStays DEF Writing
  <1>6. ServersLeft(g)'
    <2> SUFFICES ASSUME NEW i \in DOMAIN CatSeq, NEW k \in Removable(x),
                        k.cat = CatSeq[i], IsServer(k), kv[k] # Absent
                 PROVE  i >= 1 /\ (i = 1 => k.name \in StaleNames(g, 1))
      BY <1>2, <1>3 DEF ServersLeft, IsServer
    <2>1. k.name \in Names(arg[g], CatSeq[i])
      BY <1>1 DEF CleanBusy, NamesExact, Removed, Writing
    <2> QED
      BY <2>1, CatNumbers DEF StaleNames, IsServer
  <1> QED
    BY <1>4, <1>5, <1>6 DEF CleanBusy

\* KEYS below the servers of a service finds what is left over of it.
LEMMA StaleClean ==
    ASSUME TypeOK, NEW g \in Goroutine, CleanBusy(g), Stale(g), UNCHANGED faults
    PROVE  CleanBusy(g)'
  <1> DEFINE x == HostOf[g]
  <1>1. /\ x \in Host /\ pc[g] = "stale" /\ cat[g] \in DOMAIN CatSeq /\ CatOf(g) = CatSeq[cat[g]]
    BY DEF Stale, TypeOK, CatOf
  <1>2. UNCHANGED <<kv, members, membersNew, arg, lastConfig>>
    BY DEF Stale, redis
  <1>3. PICK n \in todo[g] : At(g, "purge", cat[g], todo[g] \ {n},
                                {k \in ServerKeysOf(CatOf(g), n) : arg[g][k] = Absent})
    BY NoFaultStep DEF Stale
  <1>4. /\ pc'[g] = "purge" /\ cat'[g] = cat[g] /\ todo'[g] = todo[g] \ {n}
        /\ found'[g] = {k \in ServerKeysOf(CatOf(g), n) : arg[g][k] = Absent}
    BY <1>3, AtFrame
  <1>5. SetsExact(g)' /\ LastPresent(g)' /\ NamesExact(g)' /\ RemovesSome(g)'
    BY <1>1, <1>2, <1>4, WritingKeeps
  <1>6. WrittenPresent(g)'
    BY <1>1, <1>2, <1>4, WrittenStays DEF Writing
  <1>7. ServersLeft(g)'
    <2>1. \A k \in Key : /\ k.cat = CatOf(g) /\ k.name = n /\ k.field \in ServerField
                         /\ kv[k] # Absent /\ arg[g][k] = Absent
                         => k \in found'[g]
      BY <1>4 DEF ServerKeysOf, KeysOf
    <2> QED
      BY <1>1, <1>2, <1>4, <2>1, OwnKeys DEF CleanBusy, ServersLeft, IsServer
  <1> QED
    BY <1>5, <1>6, <1>7 DEF CleanBusy

\* UNLINK of a server that is left over.
LEMMA PurgeClean ==
    ASSUME TypeOK, RemovalInv, NEW g \in Goroutine, CleanBusy(g), Purge(g), UNCHANGED faults
    PROVE  CleanBusy(g)'
  <1> DEFINE x == HostOf[g]
  <1>1. x \in Host /\ pc[g] = "purge" /\ found[g] \subseteq Key
    BY DEF Purge, TypeOK
  <1>2. UNCHANGED <<members, membersNew, arg, lastConfig>>
    BY DEF Purge
  <1>3. \A k \in found[g] : arg[g][k] = Absent
    BY <1>1 DEF RemovalInv
  <1>4. CASE found[g] = {}
    <2>1. At(g, "stale", cat[g], todo[g], {}) /\ kv' = kv
      BY <1>4 DEF Purge
    <2>2. pc'[g] = "stale" /\ cat'[g] = cat[g] /\ todo'[g] = todo[g]
      BY <2>1, AtFrame
    <2>3. SetsExact(g)' /\ LastPresent(g)' /\ NamesExact(g)' /\ RemovesSome(g)'
      BY <1>1, <1>2, <2>1, <2>2, WritingKeeps
    <2>4. WrittenPresent(g)'
      BY <1>1, <1>2, <2>1, <2>2, WrittenStays DEF Writing
    <2>5. ServersLeft(g)'
      BY <1>1, <1>2, <1>4, <2>1, <2>2 DEF CleanBusy, ServersLeft, IsServer
    <2> QED
      BY <2>3, <2>4, <2>5 DEF CleanBusy
  <1>5. CASE found[g] # {}
    <2>1. PICK j \in found[g] : kv' = Without({j}) /\ At(g, "purge", cat[g], todo[g], found[g] \ {j})
      BY <1>5, NoFaultStep DEF Purge
    <2>2. pc'[g] = "purge" /\ cat'[g] = cat[g] /\ todo'[g] = todo[g] /\ found'[g] = found[g] \ {j}
      BY <2>1, AtFrame
    <2>3. \A k \in Key : IF k = j THEN kv'[k] = Absent ELSE kv'[k] = kv[k]
      BY <2>1 DEF Without
    <2>4. SetsExact(g)' /\ LastPresent(g)' /\ NamesExact(g)' /\ RemovesSome(g)'
      BY <1>1, <1>2, <2>2, <2>3, WritingKeeps
    <2>5. WrittenPresent(g)'
      BY <1>1, <1>2, <1>3, <2>2, <2>3, WrittenStays, OwnKeys DEF Writing
    <2>6. ServersLeft(g)'
      BY <1>1, <1>2, <2>2, <2>3, OwnKeys DEF CleanBusy, ServersLeft, IsServer
    <2> QED
      BY <2>4, <2>5, <2>6 DEF CleanBusy
  <1> QED
    BY <1>4, <1>5

\* The servers of a category are through; after the last one none is left over.
LEMMA StaleDoneClean ==
    ASSUME TypeOK, NEW g \in Goroutine, CleanBusy(g), StaleDone(g)
    PROVE  CleanBusy(g)'
  <1> DEFINE x == HostOf[g]
  <1>1. x \in Host /\ pc[g] = "stale" /\ todo[g] = {} /\ cat[g] \in DOMAIN CatSeq
    BY DEF StaleDone, TypeOK
  <1>2. UNCHANGED <<kv, members, membersNew, arg, lastConfig>>
    BY DEF StaleDone, redis
  <1>3. \/ /\ pc'[g] = "stale" /\ cat'[g] = cat[g] + 1 /\ todo'[g] = StaleNames(g, cat[g] + 1)
        \/ pc'[g] = "swap" /\ cat'[g] = 1 /\ cat[g] >= Len(CatSeq)
    BY <1>1, AtFrame, CatNumbers DEF StaleDone
  <1>4. SetsExact(g)' /\ LastPresent(g)' /\ NamesExact(g)' /\ RemovesSome(g)'
    BY <1>1, <1>2, <1>3, WritingKeeps
  <1>5. WrittenPresent(g)'
    BY <1>1, <1>2, <1>3, WrittenStays DEF Writing
  <1>6. ServersLeft(g)'
    <2> SUFFICES ASSUME NEW i \in DOMAIN CatSeq, NEW k \in Removable(x),
                        k.cat = CatSeq[i], IsServer(k), kv[k] # Absent, arg[g][k] = Absent
                 PROVE  /\ pc'[g] = "stale"
                        /\ i >= cat'[g]
                        /\ i = cat'[g] => k.name \in todo'[g]
      BY <1>2, <1>3 DEF ServersLeft, IsServer
    <2>1. i > cat[g]
      BY <1>1, CatNumbers DEF CleanBusy, ServersLeft
    <2>2. k.name \in Names(arg[g], CatSeq[i])
      BY <1>1 DEF CleanBusy, NamesExact, Removed, Writing
    <2> QED
      BY <1>1, <1>3, <2>1, <2>2, CatNumbers DEF StaleNames, IsServer
  <1> QED
    BY <1>4, <1>5, <1>6 DEF CleanBusy

\* RENAME: one tracking set after the other becomes that of the new
\* configuration.
LEMMA SwapClean ==
    ASSUME TypeOK, NEW g \in Goroutine, CleanBusy(g), Swap(g), UNCHANGED faults
    PROVE  CleanBusy(g)'
  <1> DEFINE x == HostOf[g]
             c == CatOf(g)
  <1>1. /\ x \in Host /\ pc[g] = "swap" /\ cat[g] \in DOMAIN CatSeq /\ c = CatSeq[cat[g]] /\ c \in Cat
    BY DEF Swap, TypeOK, CatOf, Cat
  <1>2. UNCHANGED <<kv, arg, lastConfig>>
    BY DEF Swap
  <1>3. /\ members' = [members EXCEPT ![x][c] = membersNew[x][c]]
        /\ membersNew' = [membersNew EXCEPT ![x][c] = {}]
    BY NoFaultStep DEF Swap
  <1>4. \/ At(g, "swap", cat[g] + 1, {}, {})
        \/ cat[g] >= Len(CatSeq) /\ At(g, "stamp", 1, {}, {})
    BY <1>1, CatNumbers DEF Swap
  <1>5. /\ \/ pc'[g] = "swap" /\ cat'[g] = cat[g] + 1
           \/ pc'[g] = "stamp" /\ cat[g] >= Len(CatSeq)
        /\ \A d : Names(arg[g], d)' = Names(arg[g], d)
        /\ \A d : LastNames(x, d)' = LastNames(x, d)
    BY <1>2, <1>4, Onward
  <1>6. /\ members'[x][c] = membersNew[x][c] /\ membersNew'[x][c] = {}
        /\ \A d \in Cat \ {c} : members'[x][d] = members[x][d] /\ membersNew'[x][d] = membersNew[x][d]
    <2>1. members \in [Host -> [Cat -> SUBSET Name]] /\ membersNew \in [Host -> [Cat -> SUBSET Name]]
      BY DEF TypeOK
    <2> HIDE DEF c
    <2> QED
      BY <1>1, <1>3, <2>1
  <1>7. SetsExact(g)'
    <2> SUFFICES ASSUME NEW i \in DOMAIN CatSeq
                 PROVE  /\ members'[x][CatSeq[i]] =
                              IF i <= cat[g] THEN Names(arg[g], CatSeq[i]) ELSE LastNames(x, CatSeq[i])
                        /\ membersNew'[x][CatSeq[i]] =
                              IF i <= cat[g] THEN {} ELSE Names(arg[g], CatSeq[i])
      BY <1>1, <1>5, CatNumbers DEF SetsExact, Added, Swapped
    <2>1. /\ members[x][CatSeq[i]] =
                IF i < cat[g] THEN Names(arg[g], CatSeq[i]) ELSE LastNames(x, CatSeq[i])
          /\ membersNew[x][CatSeq[i]] =
                IF i < cat[g] THEN {} ELSE Names(arg[g], CatSeq[i])
      BY <1>1, CatNumbers DEF CleanBusy, SetsExact, Added, Swapped
    <2>2. i # cat[g] => CatSeq[i] \in Cat \ {c}
      BY <1>1, CatSeqAssumption, CatNumbers
    <2> HIDE DEF c
    <2>3. CASE i = cat[g]
      <3>1. ~(i < cat[g]) /\ i <= cat[g] /\ CatSeq[i] = c
        BY <1>1, <2>3, CatNumbers
      <3> QED
        BY <1>6, <2>1, <3>1
    <2>4. CASE i # cat[g]
      <3>1. i \in Nat /\ cat[g] \in Nat /\ (i <= cat[g] <=> i < cat[g])
        BY <1>1, <2>4, CatNumbers
      <3> QED
        BY <1>6, <2>1, <2>2, <2>4, <3>1
    <2> QED
      BY <2>3, <2>4
  <1>8. LastPresent(g)'
    BY <1>5 DEF LastPresent, StillThere, Cleaning, Removing
  <1>9. NamesExact(g)'
    BY <1>1, <1>2, <1>5 DEF CleanBusy, NamesExact, Removed, Writing, Removing
  <1>10. RemovesSome(g)'
    BY <1>5 DEF RemovesSome, Removing
  <1>11. WrittenPresent(g)'
    BY <1>1, <1>2, <1>5, WrittenStays DEF Writing
  <1>12. ServersLeft(g)'
    BY <1>1, <1>2 DEF CleanBusy, ServersLeft, IsServer
  <1> QED
    BY <1>7, <1>8, <1>9, <1>10, <1>11, <1>12 DEF CleanBusy

\* The sentinel: the configuration becomes the last one, and it is installed.
LEMMA StampClean ==
    ASSUME TypeOK, HoldInv, NEW g \in Goroutine, CleanBusy(g), Stamp(g), UNCHANGED faults
    PROVE  CleanIdle(HostOf[g])'
  <1> DEFINE x == HostOf[g]
  <1>1. x \in Host /\ pc[g] = "stamp" /\ arg[g] # NoConf
    BY DEF Stamp, HoldInv, Storing
  <1>2. UNCHANGED <<kv, members, membersNew>>
    BY DEF Stamp
  <1>3. lastConfig'[x] = arg[g]
    BY <1>1, NoFaultStep DEF Stamp, TypeOK
  <1>4. \A d : LastNames(x, d)' = Names(arg[g], d)
    BY <1>1, <1>3 DEF LastNames, Names
  <1>5. \A k : InLast(x, k)' <=> arg[g][k] # Absent
    BY <1>1, <1>3 DEF InLast
  <1>6. ASSUME NEW d \in Cat
        PROVE  members'[x][d] = LastNames(x, d)' /\ membersNew'[x][d] = {}
    <2>1. PICK i \in DOMAIN CatSeq : d = CatSeq[i]
      BY CatNumbers
    <2> QED
      BY <1>1, <1>2, <1>4, <2>1 DEF CleanBusy, SetsExact, Added, Swapped
  <1>7. ASSUME NEW k \in Own(x), InLast(x, k)'
        PROVE  kv'[k] = lastConfig'[x][k]
    BY <1>1, <1>2, <1>3, <1>5, <1>7 DEF CleanBusy, WrittenPresent, Writing
  <1>8. ASSUME NEW k \in Removable(x), kv'[k] # Absent
        PROVE  k.name \in LastNames(x, k.cat)' /\ (IsServer(k) => InLast(x, k)')
    <2>1. k \in Key
      BY <1>1, OwnKeys
    <2>2. PICK i \in DOMAIN CatSeq : k.cat = CatSeq[i]
      BY <2>1, CatNumbers DEF Entry
    <2>3. k.name \in Names(arg[g], CatSeq[i])
      BY <1>1, <1>2, <1>8, <2>2 DEF CleanBusy, NamesExact, Removed, Writing
    <2>4. IsServer(k) => arg[g][k] # Absent
      BY <1>1, <1>2, <1>8, <2>2 DEF CleanBusy, ServersLeft
    <2> QED
      BY <1>4, <1>5, <2>2, <2>3, <2>4
  <1> QED
    BY <1>6, <1>7, <1>8 DEF CleanIdle, IsServer

-------------------------------------------------------------------------------
(***************************************************************************)
(* All steps.                                                              *)
(***************************************************************************)

\* A step of a goroutine that stores.
LEMMA StoringClean ==
    ASSUME StoreInv, HomeInv, NEW g \in Goroutine, pc[g] \in Storing, CleanBusy(g), Act(g),
           UNCHANGED faults
    PROVE  IF pc'[g] \in Storing THEN CleanBusy(g)' ELSE CleanIdle(HostOf[g])'
  <1> USE DEF StoreInv
  <1>1. ~Calls(g) /\ ~KeepLock(g) /\ ~Exists(g) /\ ~Renew(g)
    BY DEF Calls, StoreCall, KeepLock, Exists, Renew, Storing
  <1>2. CASE Track(g) \/ Diff(g) \/ Scan(g) \/ Unlink(g) \/ CategoryDone(g)
    <2>1. pc'[g] \in Storing
      BY <1>2, AtFrame DEF Track, Diff, Scan, Unlink, CategoryDone, Storing
    <2> QED
      BY <1>2, <2>1, TrackClean, DiffClean, ScanClean, UnlinkClean, CategoryClean
  <1>3. CASE Write(g) \/ WriteDone(g) \/ Stale(g) \/ Purge(g) \/ StaleDone(g)
    <2>1. pc'[g] \in Storing
      <3>1. CASE Write(g)
        <4>1. \E k \in found[g] : At(g, "write", 1, {}, found[g] \ {k})
          BY <3>1, NoFaultStep DEF Write
        <4> QED
          BY <4>1, AtFrame DEF Storing
      <3>2. CASE WriteDone(g) \/ Stale(g) \/ Purge(g) \/ StaleDone(g)
        BY <3>2, AtFrame DEF WriteDone, Stale, Purge, StaleDone, Storing
      <3> QED
        BY <1>3, <3>1, <3>2
    <2> QED
      BY <1>3, <2>1, WriteClean, WriteDoneClean, StaleClean, PurgeClean, StaleDoneClean
  <1>4. CASE Swap(g)
    <2>1. pc'[g] \in Storing
      BY <1>4, AtFrame DEF Swap, Storing
    <2> QED
      BY <1>4, <2>1, SwapClean
  <1>5. CASE Stamp(g)
    <2>1. pc'[g] \notin Storing
      BY <1>5, AtFrame, NoFaultStep DEF Stamp, Return, Storing
    <2> QED
      BY <1>5, <2>1, StampClean
  <1> QED
    BY <1>1, <1>2, <1>3, <1>4, <1>5 DEF Act, Work

\* A step of a goroutine that does not store (yet).
LEMMA IdleClean ==
    ASSUME StoreInv, HomeInv, NEW g \in Goroutine, pc[g] \notin Storing, CleanIdle(HostOf[g]), Act(g)
    PROVE  IF pc'[g] \in Storing THEN CleanBusy(g)' ELSE CleanIdle(HostOf[g])'
  <1> USE DEF StoreInv
  <1> DEFINE x == HostOf[g]
  <1>1. Calls(g) \/ KeepLock(g) \/ Exists(g) \/ Renew(g)
    BY DEF Act, Work, Track, Diff, Scan, Unlink, CategoryDone, Write, WriteDone, Stale, Purge,
           StaleDone, Swap, Stamp, Storing
  <1>2. UNCHANGED <<redis, lastConfig>>
    BY <1>1 DEF Calls, StoreCall, KeepLock, Exists, Renew
  <1>3. CleanIdle(x)'
    BY <1>2, CleanIdleSame DEF redis, SameHost, SameKeys
  <1>4. ASSUME NEW conf \in Conf, BeginStore(g, conf)
        PROVE  CleanBusy(g)'
    BY <1>2, <1>4, BeginClean
  <1>5. (\E conf \in Conf : BeginStore(g, conf)) \/ pc'[g] \notin Storing
    <2>1. CASE Calls(g)
      BY <2>1 DEF Calls, StoreCall, HomeConf
    <2>2. CASE KeepLock(g)
      BY <2>2, AtFrame DEF KeepLock, Storing
    <2>3. CASE Exists(g) \/ Renew(g)
      <3>1. lastConfig[x] \in Conf
        BY <2>3 DEF Exists, Renew, HoldInv, TypeOK
      <3>2. CASE BeginStore(g, lastConfig[x])
        BY <3>1, <3>2
      <3>3. CASE Return(g, "idle") \/ \E f : At(g, "renew", 1, {}, f)
        BY <3>3, AtFrame DEF Return, Storing
      <3> QED
        BY <2>3, <3>2, <3>3 DEF Exists, Renew
    <2> QED
      BY <1>1, <2>1, <2>2, <2>3
  <1> QED
    BY <1>3, <1>4, <1>5

\* The keys that are another host's own are left alone by a step of g.
LEMMA OthersKeys ==
    ASSUME StoreInv, HomeInv, NEW g \in Goroutine, Act(g), NEW y \in Host, y # HostOf[g]
    PROVE  SameHost(y)
  <1>1. ASSUME NEW k \in Own(y)
        PROVE  kv'[k] = kv[k]
    <2>1. k \in Key /\ k \notin KeysUnder(HostOf[g])
      BY OwnKeys DEF Own
    <2> QED
      BY <2>1, KvHome DEF StoreInv
  <1>2. Frame(g)
    BY RunFrame DEF StoreInv
  <1> QED
    BY <1>1, <1>2 DEF SameHost, SameKeys, Frame

\* The count of faults never falls.
LEMMA FaultsGrow ==
    ASSUME StoreInv, Environment \/ \E g \in Goroutine : Act(g), faults' = 0
    PROVE  faults = 0
  <1>1. faults \in Nat
    BY DEF StoreInv, TypeOK
  <1>2. (\E f : Faulty(f)) \/ UNCHANGED faults
    <2>1. CASE Environment
      BY <2>1 DEF Environment, Flush, ExpireEarly, Lapse, Crash
    <2>2. ASSUME NEW g \in Goroutine, Calls(g) \/ KeepLock(g) \/ Exists(g) \/ Renew(g) \/ Track(g) \/ Diff(g)
          PROVE  (\E f : Faulty(f)) \/ UNCHANGED faults
      BY <2>2 DEF Calls, StoreCall, KeepLock, Exists, Renew, Track, Diff, NoFault
    <2>3. ASSUME NEW g \in Goroutine, Scan(g) \/ Unlink(g) \/ CategoryDone(g) \/ Write(g) \/ WriteDone(g)
          PROVE  (\E f : Faulty(f)) \/ UNCHANGED faults
      BY <2>3 DEF Scan, Unlink, CategoryDone, Write, WriteDone, NoFault
    <2>4. ASSUME NEW g \in Goroutine, Stale(g) \/ Purge(g) \/ StaleDone(g) \/ Swap(g) \/ Stamp(g)
          PROVE  (\E f : Faulty(f)) \/ UNCHANGED faults
      BY <2>4 DEF Stale, Purge, StaleDone, Swap, Stamp, NoFault
    <2> QED
      BY <2>1, <2>2, <2>3, <2>4 DEF Act, Work
  <1> QED
    BY <1>1, <1>2 DEF Faulty

\* Every step of a goroutine preserves CleanInv.
LEMMA CleanAct ==
    ASSUME StoreInv, HomeInv, CleanInv, NEW g \in Goroutine, Act(g)
    PROVE  CleanInv'
  <1> SUFFICES ASSUME faults' = 0
               PROVE  /\ \A x \in Host : NotStoring(x)' => CleanIdle(x)'
                      /\ \A o \in Goroutine : pc'[o] \in Storing => CleanBusy(o)'
    BY DEF CleanInv
  <1>1. faults = 0 /\ UNCHANGED faults
    BY FaultsGrow
  <1>2. Frame(g) /\ HostOf[g] \in Host
    BY RunFrame DEF StoreInv
  <1>3. Storing \subseteq Inside
    BY DEF Inside
  <1>4. ASSUME NEW o \in Goroutine, o # g, pc[o] \in Storing
        PROVE  HostOf[o] # HostOf[g]
    BY <1>3, <1>4, OthersOutside DEF StoreInv
  <1>5. IF pc'[g] \in Storing THEN CleanBusy(g)' ELSE CleanIdle(HostOf[g])'
    <2>1. CASE pc[g] \in Storing
      <3>1. CleanBusy(g)
        BY <1>1, <2>1 DEF CleanInv
      <3> QED
        BY <1>1, <2>1, <3>1, StoringClean
    <2>2. CASE pc[g] \notin Storing
      <3>1. NotStoring(HostOf[g])
        BY <1>4, <2>2 DEF NotStoring
      <3>2. CleanIdle(HostOf[g])
        BY <1>1, <1>2, <3>1 DEF CleanInv
      <3> QED
        BY <2>2, <3>2, IdleClean
    <2> QED
      BY <2>1, <2>2
  <1>6. ASSUME NEW x \in Host, NotStoring(x)'
        PROVE  CleanIdle(x)'
    <2>1. CASE x = HostOf[g]
      BY <1>5, <1>6, <2>1 DEF NotStoring
    <2>2. CASE x # HostOf[g]
      <3>1. NotStoring(x)
        BY <1>2, <1>6, <2>2 DEF NotStoring, Frame
      <3>2. CleanIdle(x)
        BY <1>1, <3>1 DEF CleanInv
      <3> QED
        BY <2>2, <3>2, OthersKeys, CleanIdleSame
    <2> QED
      BY <2>1, <2>2
  <1>7. ASSUME NEW o \in Goroutine, pc'[o] \in Storing
        PROVE  CleanBusy(o)'
    <2>1. CASE o = g
      BY <1>5, <1>7, <2>1
    <2>2. CASE o # g
      <3>1. /\ pc'[o] = pc[o] /\ cat'[o] = cat[o] /\ todo'[o] = todo[o]
            /\ found'[o] = found[o] /\ arg'[o] = arg[o]
        BY <1>2, <2>2 DEF Frame
      <3>2. HostOf[o] # HostOf[g] /\ HostOf[o] \in Host /\ CleanBusy(o)
        BY <1>1, <1>4, <1>7, <2>2, <3>1 DEF CleanInv
      <3>3. SameHost(HostOf[o])
        BY <3>2, OthersKeys
      <3> QED
        BY <1>7, <3>1, <3>2, <3>3, CleanBusySame DEF StoreInv
    <2> QED
      BY <2>1, <2>2
  <1> QED
    BY <1>6, <1>7

\* A step that leaves goroutines, sets and configurations alone, and only keys
\* that nobody renews may lapse in it, preserves CleanInv.
LEMMA CleanSame ==
    ASSUME StoreInv, CleanInv, UNCHANGED <<members, membersNew, lastConfig, local, arg>>,
           faults' = 0 => faults = 0, \A x \in Host : SameKeys(x)
    PROVE  CleanInv'
  <1> SUFFICES ASSUME faults' = 0
               PROVE  /\ \A x \in Host : NotStoring(x)' => CleanIdle(x)'
                      /\ \A o \in Goroutine : pc'[o] \in Storing => CleanBusy(o)'
    BY DEF CleanInv
  <1>1. UNCHANGED <<pc, cat, todo, found>>
    BY DEF local
  <1>2. \A x \in Host : SameHost(x)
    BY DEF SameHost
  <1>3. ASSUME NEW x \in Host, NotStoring(x)'
        PROVE  CleanIdle(x)'
    <2>1. CleanIdle(x)
      BY <1>1, <1>3 DEF NotStoring, CleanInv
    <2> QED
      BY <1>2, <2>1, CleanIdleSame
  <1>4. ASSUME NEW o \in Goroutine, pc'[o] \in Storing
        PROVE  CleanBusy(o)'
    <2>1. pc[o] \in Storing /\ CleanBusy(o) /\ SameHost(HostOf[o])
      BY <1>1, <1>2, <1>4 DEF CleanInv
    <2> QED
      BY <1>1, <2>1, CleanBusySame DEF StoreInv
  <1> QED
    BY <1>3, <1>4

\* A fault ends what CleanInv promises; a key that nobody renews may lapse.
LEMMA CleanEnvironment ==
    ASSUME StoreInv, CleanInv, Environment
    PROVE  CleanInv'
  <1>1. CASE \E f : Faulty(f)
    <2>1. faults' # 0
      BY <1>1 DEF Faulty, StoreInv, TypeOK
    <2> QED
      BY <2>1 DEF CleanInv
  <1>2. ASSUME NEW k \in Key, Lapse(k)
        PROVE  CleanInv'
    <2>1. ~Renewed(k) /\ \A j \in Key : kv'[j] = IF j = k THEN Absent ELSE kv[j]
      BY <1>2 DEF Lapse, Without
    <2>2. \A x \in Host : SameKeys(x)
      BY <2>1, OwnKeys DEF SameKeys
    <2> QED
      BY <1>2, <2>2, CleanSame DEF Lapse
  <1> QED
    BY <1>1, <1>2 DEF Environment, Flush, ExpireEarly, Crash

\* CleanInv is an invariant, for any hosts and configurations.
THEOREM CleanInvariant == Spec => []CleanInv
  <1>1. Init => CleanInv
    BY CleanInit
  <1>2. StoreInv /\ HomeInv /\ CleanInv /\ [Next]_vars => CleanInv'
    <2> SUFFICES ASSUME StoreInv, HomeInv, CleanInv, [Next]_vars
                 PROVE  CleanInv'
      OBVIOUS
    <2>1. ASSUME NEW g \in Goroutine, Run(g)
          PROVE  CleanInv'
      BY <2>1, RunIsAct, CleanAct
    <2>2. CASE Environment
      BY <2>2, CleanEnvironment
    <2>3. CASE UNCHANGED vars
      BY <2>3, CleanSame DEF vars, redis, SameKeys
    <2> QED
      BY <2>1, <2>2, <2>3 DEF Next
  <1> QED
    BY <1>1, <1>2, StoreInvariant, HomeInvariant, PTL DEF Spec

-------------------------------------------------------------------------------
\* What CleanInv means once a host is through.
LEMMA CleanInstalls == CleanInv => InstalledWhenIdle
  <1> SUFFICES ASSUME CleanInv, faults = 0, NEW x \in Host, Settled(x)
               PROVE  /\ \A k \in Own(x) : lastConfig[x][k] # Absent => kv[k] = lastConfig[x][k]
                      /\ \A k \in Removable(x) : kv[k] # Absent =>
                            /\ k.name \in Names(lastConfig[x], k.cat)
                            /\ k.cat \in ServiceCat /\ k.field \in ServerField => lastConfig[x][k] # Absent
    BY DEF InstalledWhenIdle
  <1>1. lastConfig[x] # NoConf /\ CleanIdle(x)
    BY DEF Settled, NotStoring, CleanInv
  <1> QED
    BY <1>1 DEF CleanIdle, InLast, LastNames, IsServer

\* While a host stores, every key is tracked by the old set or by the new one.
LEMMA CleanTracks == TypeOK /\ CleanInv => TrackedWhileClean
  <1> SUFFICES ASSUME TypeOK, CleanInv, faults = 0, NEW x \in Host, NEW k \in Removable(x), kv[k] # Absent
               PROVE  k.name \in members[x][k.cat] \cup membersNew[x][k.cat]
    BY DEF TrackedWhileClean
  <1>1. k \in Key /\ k.cat \in Cat
    BY OwnKeys DEF Entry
  <1>2. CASE NotStoring(x)
    BY <1>1, <1>2 DEF CleanInv, CleanIdle
  <1>3. CASE ~NotStoring(x)
    <2>1. PICK g \in Goroutine : HostOf[g] = x /\ pc[g] \in Storing
      BY <1>3 DEF NotStoring
    <2>2. PICK i \in DOMAIN CatSeq : k.cat = CatSeq[i]
      BY <1>1, CatNumbers
    <2>3. CleanBusy(g)
      BY <2>1 DEF CleanInv
    <2>4. /\ ~Removed(g, i) => k.name \in LastNames(x, CatSeq[i])
          /\ Removed(g, i) => k.name \in Names(arg[g], CatSeq[i])
      BY <2>1, <2>2, <2>3 DEF CleanBusy, NamesExact
    <2>5. Removed(g, i) => Added(g, i) \/ Swapped(g, i)
      BY CatNumbers DEF TypeOK, Removed, Added, Swapped, Cleaning, Writing
    <2>6. Swapped(g, i) => Removed(g, i)
      BY DEF Removed, Swapped, Writing
    <2>7. /\ members[x][k.cat] =
                IF Swapped(g, i) THEN Names(arg[g], CatSeq[i]) ELSE LastNames(x, CatSeq[i])
          /\ Added(g, i) => membersNew[x][k.cat] = Names(arg[g], CatSeq[i])
      BY <2>1, <2>2, <2>3 DEF CleanBusy, SetsExact
    <2> QED
      BY <2>4, <2>5, <2>6, <2>7
  <1> QED
    BY <1>2, <1>3

\* As long as nothing fails, a Store that has returned has installed its
\* configuration, for any hosts, also ones that share names.
THEOREM InstalledHolds == Spec => []InstalledWhenIdle
  BY CleanInvariant, CleanInstalls, PTL

\* As long as nothing fails, no key is untracked between any two commands, in
\* categories that the host shares with nobody and where its names have keys.
THEOREM TrackedHolds == Spec => []TrackedWhileClean
  BY StateCorrect, CleanInvariant, CleanTracks, PTL DEF StateOK
===============================================================================
