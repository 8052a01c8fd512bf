------------------------- MODULE ConfigHandlerProofs -------------------------
(***************************************************************************)
(* What holds of the configuration handler for any services, routers,      *)
(* containers and labels: the types, that no service of a foreign          *)
(* namespace is stored (NamespaceRespected), and that services and routers *)
(* are filtered alike (RoutersResolve).                                    *)
(***************************************************************************)
EXTENDS ConfigHandler, SequenceTheorems, TLAPS

USE HandlerAssumption

-------------------------------------------------------------------------------
(***************************************************************************)
(* Types.                                                                  *)
(***************************************************************************)
LEMMA TypesAre ==
    /\ Types[1] = "http" /\ Types[2] = "tcp" /\ Types[3] = "udp"
    /\ Len(Types) = 3 /\ DOMAIN Types = 1..3
  BY DEF Types

\* What the steps that look nothing up, and a step with one, do to Docker, the
\* cache and the faults.
DockerType ==
    /\ running \in [Container -> Inspect \cup {Gone}]
    /\ details \subseteq Cached
    /\ fresh \in BOOLEAN
    /\ faults \in Seq(Fault)
    /\ Len(faults) <= MaxFaults

\* Containers of the cache have lower-case labels of routers, and the port maps
\* they were inspected with.
LEMMA CachedType ==
    ASSUME NEW c \in Cached
    PROVE  /\ c # NotFound
           /\ c.routers \subseteq Router
           /\ \E d \in Inspect : c.bound = d.bound /\ c.configured = d.configured
  <1>1. PICK d \in Inspect : c = Normalize(d)
    BY DEF Cached
  <1>2. c.routers = {Lower[r] : r \in d.routers} /\ c.bound = d.bound /\ c.configured = d.configured
    BY <1>1 DEF Normalize
  <1>3. d.routers \subseteq Router /\ \A r \in Router : Lower[r] \in Router
    BY HandlerAssumption
  <1> QED
    BY <1>2, <1>3, NotFoundAssumption

\* A fault is recorded.
LEMMA FaultType ==
    ASSUME DockerType, NEW f, Faulty(f)
    PROVE  faults' \in Seq(Fault) /\ Len(faults') <= MaxFaults
  <1>1. f \in Fault /\ faults \in Seq(Fault) /\ Len(faults) < MaxFaults /\ faults' = Append(faults, f)
    BY DEF Faulty, DockerType
  <1> QED
    BY <1>1, AppendProperties

\* A lookup finds a container in the cache, or none.
LEMMA LookupType ==
    ASSUME DockerType, NEW s, NEW r, NEW c, FindContainerByServiceName(s, r, c)
    PROVE  DockerType' /\ c \in details' \cup {NotFound} /\ running' = running
  <1>1. PICK ok \in BOOLEAN :
          /\ Populate(ok)
          /\ LET match == IF ok THEN Labelled(details', s, r) ELSE {}
             IN  IF match = {} THEN c = NotFound ELSE c \in match
    BY DEF FindContainerByServiceName
  <1>2. Listing \subseteq Cached
    BY DEF Listing, DockerType, Cached
  <1>3. details' \subseteq Cached /\ fresh' \in BOOLEAN /\ running' = running
    BY <1>1, <1>2 DEF Populate, DockerType, docker
  <1>4. faults' \in Seq(Fault) /\ Len(faults') <= MaxFaults
    BY <1>1, FaultType DEF Populate, DockerType
  <1>5. c \in details' \cup {NotFound}
    BY <1>1 DEF Labelled
  <1> QED
    BY <1>3, <1>4, <1>5 DEF DockerType

\* The services and routers left, and the place the handler has reached.
LoopType ==
    /\ services \subseteq in.services
    /\ routers \subseteq in.routers
    /\ pc \in {"idle", "filterServices", "filterRouters", "replace", "bind", "network", "port",
               "merge", "store"}
    /\ type \in 1..3
    /\ todo \subseteq OfType(IF pc = "filterRouters" THEN routers ELSE services, T)
    /\ DOMAIN at = {"service", "server", "ip"}
    /\ pc \in {"bind", "network", "port"} =>
          at.service \in OfType(services, T) /\ at.server \in DOMAIN in.servers[at.service]

LEMMA TypeParts ==
    TypeOK <=> DockerType /\ LoopType /\ settings \in Settings /\ in \in Input /\ DOMAIN addrs = Service
  BY TypesAre DEF TypeOK, DockerType, LoopType

\* Every step of the handler's filters keeps its place.
LEMMA FilterLoopStep ==
    ASSUME TypeOK, FilterService \/ FilterServicesDone \/ FilterRouter \/ FilterRoutersDone
    PROVE  LoopType' /\ UNCHANGED <<settings, in, addrs, ip, at>>
  <1> USE TypesAre, TypeParts
  <1>1. CASE FilterService
    <2>1. PICK s \in todo :
            /\ services' \in {services, services \ {s}} /\ todo' = todo \ {s} /\ pc' = pc /\ type' = type
            /\ pc = "filterServices"
      BY <1>1 DEF FilterService, Goto
    <2>2. UNCHANGED <<settings, in, routers, addrs, ip, at>>
      BY <1>1 DEF FilterService
    <2> QED
      BY <2>1, <2>2 DEF LoopType, OfType, T
  <1>2. CASE FilterServicesDone
    BY <1>2 DEF FilterServicesDone, Goto, LoopType, OfType, T
  <1>3. CASE FilterRouter
    <2>1. PICK r \in todo :
            /\ routers' \in {routers, routers \ {r}} /\ todo' = todo \ {r} /\ pc' = pc /\ type' = type
            /\ pc = "filterRouters"
      BY <1>3 DEF FilterRouter, Goto
    <2>2. UNCHANGED <<settings, in, services, addrs, ip, at>>
      BY <1>3 DEF FilterRouter
    <2> QED
      BY <2>1, <2>2 DEF LoopType, OfType, T
  <1>4. CASE FilterRoutersDone
    BY <1>4 DEF FilterRoutersDone, Goto, LoopType, OfType, T
  <1> QED
    BY <1>1, <1>2, <1>3, <1>4

\* Every step after the filters leaves services and routers alone.
LEMMA ReplaceLoopStep ==
    ASSUME TypeOK,
           ReplaceService \/ BindLookup \/ NetworkLookup \/ PortLookup \/ ReplaceDone \/ MergeService \/ MergeDone
    PROVE  LoopType' /\ UNCHANGED <<settings, in, services, routers>> /\ DOMAIN addrs' = Service
  <1> USE TypesAre, TypeParts
  <1>1. CASE ReplaceService
    <2>1. PICK s \in todo : ReplaceServer(s, 1) /\ addrs' = [addrs EXCEPT ![s] = {}]
      BY <1>1 DEF ReplaceService
    <2>2. UNCHANGED <<settings, in, services, routers>> /\ pc = "replace"
      BY <1>1 DEF ReplaceService
    <2>3. s \in in.services /\ 1 \in DOMAIN in.servers[s]
      BY <2>1, <2>2 DEF LoopType, OfType
    <2> QED
      BY <2>1, <2>2, <2>3 DEF ReplaceServer, Goto, LoopType, OfType, T
  <1>2. CASE BindLookup
    BY <1>2 DEF BindLookup, LoopType, OfType, T
  <1>3. CASE NetworkLookup
    BY <1>3 DEF NetworkLookup, LoopType, OfType, T
  <1>4. CASE PortLookup
    <2> DEFINE s == at.service
    <2>1. /\ pc = "port" /\ UNCHANGED <<settings, in, services, routers>> /\ DOMAIN addrs' = Service
          /\ IF at.server < Len(in.servers[s])
               THEN ReplaceServer(s, at.server + 1)
               ELSE Goto("replace", type, todo) /\ at' = Nowhere
      BY <1>4 DEF PortLookup
    <2>2. s \in in.services /\ s \in OfType(services, T) /\ at.server \in DOMAIN in.servers[s]
      BY <2>1 DEF LoopType, OfType
    <2>3. at.server < Len(in.servers[s]) => at.server + 1 \in DOMAIN in.servers[s]
      BY <2>2
    <2> HIDE DEF s
    <2> QED
      BY <2>1, <2>2, <2>3 DEF ReplaceServer, Goto, LoopType, OfType, T, Nowhere
  <1>5. CASE ReplaceDone
    BY <1>5 DEF ReplaceDone, Goto, LoopType, OfType, T
  <1>6. CASE MergeService
    <2>1. PICK s \in todo : Goto(pc, type, todo \ {s})
      BY <1>6 DEF MergeService
    <2>2. UNCHANGED <<settings, in, services, routers, at>> /\ DOMAIN addrs' = Service /\ pc = "merge"
      BY <1>6 DEF MergeService
    <2> QED
      BY <2>1, <2>2 DEF Goto, LoopType, OfType, T
  <1>7. CASE MergeDone
    BY <1>7 DEF MergeDone, Goto, LoopType, OfType, T
  <1> QED
    BY <1>1, <1>2, <1>3, <1>4, <1>5, <1>6, <1>7

\* Every step preserves what Docker, the cache and the faults are.
LEMMA DockerStep ==
    ASSUME TypeOK, Next
    PROVE  DockerType'
  <1> USE TypeParts
  <1>1. ASSUME NEW s, NEW r, NEW c, FindContainerByServiceName(s, r, c)
        PROVE  DockerType'
    BY <1>1, LookupType
  <1>2. CASE UNCHANGED <<docker, faults>>
    BY <1>2 DEF DockerType, docker
  <1>3. CASE Begin
    BY <1>3 DEF Begin, DockerType
  <1>4. CASE ContainerChanges
    BY <1>4, FaultType DEF ContainerChanges, DockerType
  <1>5. CASE CacheExpires
    BY <1>5, FaultType DEF CacheExpires, DockerType
  <1>6. ASSUME NEW s, NEW c, Lookup(s, c)
        PROVE  DockerType'
    BY <1>1, <1>6 DEF Lookup
  <1>7. FilterService \/ FilterServicesDone \/ FilterRouter \/ FilterRoutersDone => DockerType'
    BY <1>1, <1>2, <1>6 DEF FilterService, FilterServicesDone, FilterRouter, FilterRoutersDone
  <1>8. ReplaceService \/ BindLookup \/ NetworkLookup \/ PortLookup \/ ReplaceDone => DockerType'
    BY <1>2, <1>6 DEF ReplaceService, BindLookup, NetworkLookup, PortLookup, ReplaceDone
  <1>9. MergeService \/ MergeDone => DockerType'
    BY <1>2, <1>6 DEF MergeService, MergeDone
  <1> QED
    BY <1>3, <1>4, <1>5, <1>7, <1>8, <1>9 DEF Next, Handle

LEMMA TypeStep ==
    ASSUME TypeOK, Next
    PROVE  TypeOK'
  <1> USE TypeParts
  <1>1. DockerType'
    BY DockerStep
  <1>2. LoopType' /\ settings' \in Settings /\ in' \in Input /\ DOMAIN addrs' = Service
    <2>1. CASE Begin
      <3>1. /\ settings' = settings /\ in' \in Input /\ DOMAIN addrs' = Service /\ at' = Nowhere
            /\ services' = in'.services /\ routers' = in'.routers
            /\ Goto("filterServices", 1, OfType(in'.services, "http"))
        BY <2>1 DEF Begin
      <3> QED
        BY <3>1, TypesAre DEF Goto, LoopType, OfType, T, Nowhere
    <2>2. CASE FilterService \/ FilterServicesDone \/ FilterRouter \/ FilterRoutersDone
      BY <2>2, FilterLoopStep
    <2>3. CASE ReplaceService \/ BindLookup \/ NetworkLookup \/ PortLookup \/ ReplaceDone \/ MergeService \/ MergeDone
      BY <2>3, ReplaceLoopStep
    <2>4. CASE ContainerChanges \/ CacheExpires
      BY <2>4 DEF ContainerChanges, CacheExpires, LoopType, OfType, T
    <2> QED
      BY <2>1, <2>2, <2>3, <2>4 DEF Next, Handle
  <1>3. TypeOK' <=> DockerType' /\ LoopType' /\ settings' \in Settings /\ in' \in Input /\ DOMAIN addrs' = Service
    BY TypesAre DEF TypeOK, DockerType, LoopType
  <1> QED
    BY <1>1, <1>2, <1>3

\* The handler's place, the cache and the faults are always what the types say:
\* each lookup is for a service that is left, each server one that it has.
THEOREM TypeCorrect == Spec => []TypeOK
  <1>1. Init => TypeOK
    <2>1. ASSUME Init
          PROVE  DockerType /\ LoopType
      <3>1. DockerType
        <4>1. running \in [Container -> Inspect \cup {Gone}]
          BY <2>1 DEF Init
        <4>2. faults \in Seq(Fault) /\ Len(faults) <= MaxFaults
          BY <2>1 DEF Init
        <4> QED
          BY <2>1, <4>1, <4>2 DEF Init, DockerType
      <3>2. services = {} /\ routers = {} /\ todo = {} /\ pc = "idle" /\ type = 1 /\ at = Nowhere
        BY <2>1 DEF Init
      <3>3. LoopType
        BY <3>2 DEF LoopType, Nowhere
      <3> QED
        BY <3>1, <3>3
    <2> QED
      BY <2>1, TypeParts DEF Init
  <1>2. TypeOK /\ [Next]_vars => TypeOK'
    <2>1. ASSUME TypeOK, UNCHANGED vars
          PROVE  TypeOK'
      BY <2>1 DEF TypeOK, vars, docker, OfType, T
    <2> QED
      BY <2>1, TypeStep
  <1> QED
    BY <1>1, <1>2, PTL DEF Spec

-------------------------------------------------------------------------------
(***************************************************************************)
(* The filters.  A verdict is for good because every later lookup of the   *)
(* configuration sees the same containers, and it is right because the     *)
(* lookup of a service still has all of its routers to look with: those of *)
(* a protocol are filtered after its services.                             *)
(***************************************************************************)
\* The services and the routers that filterServices has come to.
Earlier(x) == \E i \in 1..(type - 1) : x.type = Types[i]

Filtering == pc \in {"filterServices", "filterRouters"}

DoneServices ==
    {s \in in.services : Filtering =>
        Earlier(s) \/ (s.type = T /\ (pc = "filterRouters" \/ s \notin todo))}

DoneRouters ==
    {r \in in.routers : Filtering =>
        Earlier(r) \/ (r.type = T /\ pc = "filterRouters" /\ r \notin todo)}

\* The others are all still there.
Untouched ==
    /\ in.services \ DoneServices \subseteq services
    /\ in.routers \ DoneRouters \subseteq routers

\* Once anything was looked up, another lookup finds the same containers: the
\* cache is fresh, or it is filled again with what it had.
Snapshot ==
    OneSnapshot =>
        /\ fresh /\ ~Happened("change") => details = Listing
        /\ DoneServices \cup DoneRouters # {} => fresh \/ (Happened("expire") /\ details = Listing)

\* Each is kept as the namespaces of its container say.
JudgedServices ==
    OneSnapshot => \A s \in DoneServices, c \in details :
        Identified(s, c) => (s \in services <=> KeepContainer(settings.ns, c))

JudgedRouters ==
    OneSnapshot => \A r \in DoneRouters, c \in details :
        Identified(in.target[r], c) => (r \in routers <=> KeepContainer(settings.ns, c))

FilterInv == pc # "idle" => Untouched /\ Snapshot /\ JudgedServices /\ JudgedRouters

\* What has happened, after a fault.
LEMMA Happens ==
    ASSUME DockerType, NEW f, Faulty(f), NEW g
    PROVE  Happened(g)' <=> Happened(g) \/ g = f
  <1>1. faults \in Seq(Fault) /\ f \in Fault /\ faults' = Append(faults, f)
    BY DEF DockerType, Faulty
  <1>2. /\ faults' \in Seq(Fault) /\ Len(faults') = Len(faults) + 1
        /\ faults'[Len(faults) + 1] = f
        /\ \A i \in 1..Len(faults) : faults'[i] = faults[i]
    BY <1>1, AppendProperties
  <1>3. DOMAIN faults = 1..Len(faults) /\ DOMAIN faults' = 1..(Len(faults) + 1) /\ Len(faults) \in Nat
    BY <1>1, <1>2
  <1> QED
    BY <1>2, <1>3 DEF Happened

LEMMA NothingHappens ==
    ASSUME UNCHANGED faults
    PROVE  (OneSnapshot' <=> OneSnapshot) /\ \A g : Happened(g)' <=> Happened(g)
  BY DEF Happened, OneSnapshot

\* A lookup while there is one snapshot: Docker has answered, and the cache is
\* as it was unless nothing has been looked up yet.
LEMMA LookupCache ==
    ASSUME DockerType, Snapshot, NEW s, NEW r, NEW c, FindContainerByServiceName(s, r, c), OneSnapshot'
    PROVE  /\ OneSnapshot
           /\ fresh' = TRUE
           /\ ~Happened("change")' => details' = Listing'
           /\ DoneServices \cup DoneRouters # {} => details' = details
           /\ LET match == Labelled(details', s, r)
              IN  IF match = {} THEN c = NotFound ELSE c \in match
  <1>1. PICK ok \in BOOLEAN :
          /\ Populate(ok)
          /\ LET match == IF ok THEN Labelled(details', s, r) ELSE {}
             IN  IF match = {} THEN c = NotFound ELSE c \in match
    BY DEF FindContainerByServiceName
  <1>2. ~Faulty("docker")
    <2>1. Faulty("docker") => Happened("docker")'
      BY Happens
    <2> QED
      BY <2>1 DEF OneSnapshot
  <1>3. ok = TRUE /\ UNCHANGED <<faults, running>> /\ fresh' = TRUE
    BY <1>1, <1>2 DEF Populate, docker, DockerType
  <1>4. details' = IF fresh THEN details ELSE Listing
    BY <1>1, <1>2, <1>3 DEF Populate, docker
  <1>5. OneSnapshot /\ (Happened("change")' <=> Happened("change")) /\ Listing' = Listing
    BY <1>3, NothingHappens DEF Listing
  <1> QED
    BY <1>1, <1>3, <1>4, <1>5 DEF Snapshot

\* The container that a service is identified with is the one that is found,
\* through any of its routers or, when it has none, through its own label.
LEMMA FindsIt ==
    ASSUME in \in Input, NEW cache \in SUBSET Cached, NEW s, NEW d, NEW r,
           d \in cache, Belongs(d, s), \A e \in cache : Belongs(e, s) => e = d,
           s \in d.services \/ Targets(s) \subseteq d.routers,
           r \in Targets(s) \/ (Targets(s) = {} /\ r = NoRouter)
    PROVE  Labelled(cache, s, r) = {d}
  <1>1. ASSUME NEW e \in Labelled(cache, s, r)
        PROVE  e = d
    <2>1. e \in cache /\ (s \in e.services \/ r \in e.routers)
      BY <1>1 DEF Labelled
    <2>2. e.routers \subseteq Router
      BY <2>1, CachedType
    <2>3. Belongs(e, s)
      BY <2>1, <2>2 DEF Belongs
    <2> QED
      BY <2>1, <2>3
  <1>2. d \in Labelled(cache, s, r)
    BY DEF Labelled, Belongs
  <1> QED
    BY <1>1, <1>2

\* FindsIt for a lookup of now, and the containers after it.
LEMMA LookupFinds ==
    ASSUME TypeOK, Snapshot, NEW s, NEW r, NEW c, FindContainerByServiceName(s, r, c), OneSnapshot', in' = in,
           r \in Targets(s) \/ (Targets(s) = {} /\ r = NoRouter),
           NEW d \in details', Identified(s, d)'
    PROVE  c = d
  <1>1. DockerType /\ in \in Input
    BY TypeParts
  <1>2. details' \in SUBSET Cached
    BY <1>1, LookupType DEF DockerType
  <1>3. \A e, x : Belongs(e, x)' <=> Belongs(e, x)
    BY DEF Belongs, Targets
  <1>4. Belongs(d, s) /\ \A e \in details' : Belongs(e, s) => e = d
    BY <1>3 DEF Identified
  <1>5. s \in d.services \/ Targets(s) \subseteq d.routers
    BY DEF Identified, Targets
  <1>6. Labelled(details', s, r) = {d}
    BY <1>1, <1>2, <1>4, <1>5, FindsIt
  <1>7. IF Labelled(details', s, r) = {} THEN c = NotFound ELSE c \in Labelled(details', s, r)
    BY <1>1, LookupCache
  <1> QED
    BY <1>6, <1>7

\* A step that visits nothing: with a lookup or without, verdicts stay right.
LEMMA VerdictsStay ==
    ASSUME TypeOK, FilterInv, pc # "idle",
           UNCHANGED <<in, settings, services, routers, DoneServices, DoneRouters>>,
           \/ UNCHANGED <<docker, faults>>
           \/ \E s, r, c : FindContainerByServiceName(s, r, c)
    PROVE  FilterInv'
  <1>1. DockerType
    BY TypeParts
  <1>2. Untouched'
    BY DEF FilterInv, Untouched
  <1>3. CASE UNCHANGED <<docker, faults>>
    <2>1. (OneSnapshot' <=> OneSnapshot) /\ (Happened("change")' <=> Happened("change"))
          /\ (Happened("expire")' <=> Happened("expire"))
      BY <1>3, NothingHappens
    <2>2. Listing' = Listing /\ details' = details /\ fresh' = fresh
      BY <1>3 DEF Listing, docker
    <2>3. \A s, c : Identified(s, c)' <=> Identified(s, c)
      BY <2>2 DEF Identified, Belongs, Targets
    <2>4. Snapshot'
      BY <2>1, <2>2 DEF FilterInv, Snapshot
    <2>5. JudgedServices' /\ JudgedRouters'
      BY <2>1, <2>2, <2>3 DEF FilterInv, JudgedServices, JudgedRouters
    <2> QED
      BY <1>2, <2>4, <2>5 DEF FilterInv
  <1>4. ASSUME NEW s, NEW r, NEW c, FindContainerByServiceName(s, r, c)
        PROVE  FilterInv'
    <2>1. ASSUME OneSnapshot'
          PROVE  /\ OneSnapshot /\ fresh' = TRUE /\ (~Happened("change")' => details' = Listing')
                 /\ DoneServices \cup DoneRouters # {} => details' = details
      BY <1>1, <1>4, <2>1, LookupCache DEF FilterInv
    <2>2. Snapshot'
      BY <2>1 DEF Snapshot
    <2>3. details' = details => \A x, d : Identified(x, d)' <=> Identified(x, d)
      BY DEF Identified, Belongs, Targets
    <2>4. JudgedServices' /\ JudgedRouters'
      BY <2>1, <2>3 DEF FilterInv, JudgedServices, JudgedRouters
    <2> QED
      BY <1>2, <2>2, <2>4 DEF FilterInv
  <1> QED
    BY <1>3, <1>4

\* A container changes, or the cache expires.
LEMMA FaultStep ==
    ASSUME TypeOK, FilterInv, ContainerChanges \/ CacheExpires
    PROVE  FilterInv'
  <1>1. DockerType
    BY TypeParts
  <1>2. UNCHANGED <<details, settings, in, services, routers, pc, type, todo>>
    BY DEF ContainerChanges, CacheExpires
  <1>3. UNCHANGED <<DoneServices, DoneRouters>>
    BY <1>2 DEF DoneServices, DoneRouters, Filtering, Earlier, T
  <1>4. \A s, c : Identified(s, c)' <=> Identified(s, c)
    BY <1>2 DEF Identified, Belongs, Targets
  <1>5. ASSUME pc # "idle"
        PROVE  Snapshot' /\ (OneSnapshot' => OneSnapshot)
    <2>1. CASE ContainerChanges
      <3>1. \A g : Happened(g)' <=> Happened(g) \/ g = "change"
        BY <1>1, <2>1, Happens DEF ContainerChanges
      <3>2. fresh' = fresh
        BY <2>1 DEF ContainerChanges
      <3> QED
        BY <1>3, <1>5, <3>1, <3>2 DEF FilterInv, Snapshot, OneSnapshot
    <2>2. CASE CacheExpires
      <3>1. \A g : Happened(g)' <=> Happened(g) \/ g = "expire"
        BY <1>1, <2>2, Happens DEF CacheExpires
      <3>2. fresh /\ fresh' = FALSE /\ Listing' = Listing
        BY <2>2 DEF CacheExpires, Listing
      <3> QED
        BY <1>2, <1>5, <3>1, <3>2 DEF FilterInv, Snapshot, OneSnapshot
    <2> QED
      BY <2>1, <2>2
  <1> QED
    BY <1>2, <1>3, <1>4, <1>5 DEF FilterInv, Untouched, JudgedServices, JudgedRouters

\* The handler begins with nothing visited, and nothing lost.
LEMMA BeginStep ==
    ASSUME Begin
    PROVE  FilterInv'
  <1>1. /\ in' \in Input /\ services' = in'.services /\ routers' = in'.routers
        /\ pc' = "filterServices" /\ type' = 1 /\ todo' = OfType(in'.services, "http")
        /\ fresh' = FALSE
    BY DEF Begin, Goto
  <1>2. DoneServices' = {} /\ DoneRouters' = {}
    BY <1>1, TypesAre DEF DoneServices, DoneRouters, Filtering, Earlier, OfType, T
  <1> QED
    BY <1>1, <1>2 DEF FilterInv, Untouched, Snapshot, JudgedServices, JudgedRouters

\* A service is kept or dropped by what its lookup finds.
LEMMA FilterServiceStep ==
    ASSUME TypeOK, FilterInv, FilterService
    PROVE  FilterInv'
  <1>1. PICK s \in todo, c \in Found :
          /\ Lookup(s, c)
          /\ services' = IF c # NotFound /\ ~KeepContainer(settings.ns, c)
                           THEN services \ {s} ELSE services
          /\ Goto(pc, type, todo \ {s})
    BY DEF FilterService
  <1>2. pc = "filterServices" /\ pc' = pc /\ type' = type /\ todo' = todo \ {s}
        /\ UNCHANGED <<settings, in, routers>>
    BY <1>1 DEF FilterService, Goto
  <1>3. DockerType /\ LoopType /\ in \in Input /\ type \in 1..3
    BY TypeParts DEF LoopType
  <1>4. s \in services /\ s \in in.services /\ s.type = T
    BY <1>2, <1>3 DEF LoopType, OfType
  <1>5. DoneServices' = DoneServices \cup {s} /\ DoneRouters' = DoneRouters
    BY <1>2, <1>3, <1>4 DEF DoneServices, DoneRouters, Filtering, Earlier, T
  <1>6. PICK r \in GetRouterOfService(s) : FindContainerByServiceName(s, r, c)
    BY <1>1 DEF Lookup
  <1>7. r \in Targets(s) \/ (Targets(s) = {} /\ r = NoRouter)
    <2>1. ASSUME NEW x \in Targets(s)
          PROVE  x \in OfType(routers, s.type) /\ in.target[x] = s
      <3>1. x \in in.routers /\ x \in Router /\ in.target[x] = s /\ x.type = s.type
        BY <1>3, <2>1 DEF Targets
      <3>2. x \notin DoneRouters
        BY <1>2, <1>3, <1>4, <3>1, TypesAre DEF DoneRouters, Filtering, Earlier, T
      <3> QED
        BY <1>2, <3>1, <3>2 DEF FilterInv, Untouched, OfType
    <2>2. {x \in OfType(routers, s.type) : in.target[x] = s} = Targets(s)
      BY <1>3, <2>1 DEF Targets, OfType, LoopType
    <2> QED
      BY <1>6, <2>2 DEF GetRouterOfService
  <1>8. ASSUME OneSnapshot'
        PROVE  /\ OneSnapshot /\ fresh' = TRUE /\ (~Happened("change")' => details' = Listing')
               /\ DoneServices \cup DoneRouters # {} => details' = details
    BY <1>2, <1>3, <1>6, <1>8, LookupCache DEF FilterInv
  <1>9. Untouched' /\ Snapshot'
    BY <1>1, <1>2, <1>5, <1>8 DEF FilterInv, Untouched, Snapshot
  <1>10. details' = details => \A x, d : Identified(x, d)' <=> Identified(x, d)
    BY <1>2 DEF Identified, Belongs, Targets
  <1>11. JudgedRouters'
    BY <1>2, <1>5, <1>8, <1>10 DEF FilterInv, JudgedRouters
  <1>12. ASSUME OneSnapshot', NEW x \in DoneServices', NEW d \in details', Identified(x, d)'
         PROVE  x \in services' <=> KeepContainer(settings.ns, d)
    <2>1. CASE x # s
      <3>1. x \in DoneServices /\ (x \in services' <=> x \in services)
        BY <1>1, <1>5, <1>12, <2>1
      <3>2. details' = details /\ OneSnapshot
        BY <1>8, <1>12, <3>1
      <3> QED
        BY <1>2, <1>10, <1>12, <3>1, <3>2 DEF FilterInv, JudgedServices
    <2>2. CASE x = s
      <3>1. c = d
        BY <1>2, <1>6, <1>7, <1>12, <2>2, LookupFinds DEF FilterInv
      <3>2. d # NotFound
        BY <1>3, <1>6, <1>12, LookupType, CachedType DEF DockerType
      <3> QED
        BY <1>1, <1>4, <2>2, <3>1, <3>2
    <2> QED
      BY <2>1, <2>2
  <1>13. JudgedServices'
    BY <1>2, <1>12 DEF JudgedServices
  <1> QED
    BY <1>9, <1>11, <1>13 DEF FilterInv

\* A router is kept or dropped by what its lookup finds.
LEMMA FilterRouterStep ==
    ASSUME TypeOK, FilterInv, FilterRouter
    PROVE  FilterInv'
  <1>1. PICK r \in todo, c \in Found :
          /\ FindContainerByServiceName(in.target[r], r, c)
          /\ routers' = IF c # NotFound /\ ~KeepContainer(settings.ns, c)
                          THEN routers \ {r} ELSE routers
          /\ Goto(pc, type, todo \ {r})
    BY DEF FilterRouter
  <1>2. pc = "filterRouters" /\ pc' = pc /\ type' = type /\ todo' = todo \ {r}
        /\ UNCHANGED <<settings, in, services>>
    BY <1>1 DEF FilterRouter, Goto
  <1>3. DockerType /\ LoopType /\ in \in Input /\ type \in 1..3
    BY TypeParts DEF LoopType
  <1>4. r \in routers /\ r \in in.routers /\ r.type = T
    BY <1>2, <1>3 DEF LoopType, OfType
  <1>5. DoneServices' = DoneServices /\ DoneRouters' = DoneRouters \cup {r}
    BY <1>2, <1>3, <1>4 DEF DoneServices, DoneRouters, Filtering, Earlier, T
  <1>6. r \in Targets(in.target[r])
    BY <1>4 DEF Targets
  <1>7. ASSUME OneSnapshot'
        PROVE  /\ OneSnapshot /\ fresh' = TRUE /\ (~Happened("change")' => details' = Listing')
               /\ DoneServices \cup DoneRouters # {} => details' = details
    BY <1>1, <1>2, <1>3, <1>7, LookupCache DEF FilterInv
  <1>8. Untouched' /\ Snapshot'
    BY <1>1, <1>2, <1>5, <1>7 DEF FilterInv, Untouched, Snapshot
  <1>9. details' = details => \A x, d : Identified(x, d)' <=> Identified(x, d)
    BY <1>2 DEF Identified, Belongs, Targets
  <1>10. JudgedServices'
    BY <1>2, <1>5, <1>7, <1>9 DEF FilterInv, JudgedServices
  <1>11. ASSUME OneSnapshot', NEW x \in DoneRouters', NEW d \in details', Identified(in.target[x], d)'
         PROVE  x \in routers' <=> KeepContainer(settings.ns, d)
    <2>1. CASE x # r
      <3>1. x \in DoneRouters /\ (x \in routers' <=> x \in routers)
        BY <1>1, <1>5, <1>11, <2>1
      <3>2. details' = details /\ OneSnapshot
        BY <1>7, <1>11, <3>1
      <3> QED
        BY <1>2, <1>9, <1>11, <3>1, <3>2 DEF FilterInv, JudgedRouters
    <2>2. CASE x = r
      <3>1. c = d
        BY <1>1, <1>2, <1>6, <1>11, <2>2, LookupFinds DEF FilterInv
      <3>2. d # NotFound
        BY <1>1, <1>3, <1>11, LookupType, CachedType DEF DockerType
      <3> QED
        BY <1>1, <1>4, <2>2, <3>1, <3>2
    <2> QED
      BY <2>1, <2>2
  <1>12. JudgedRouters'
    BY <1>2, <1>11 DEF JudgedRouters
  <1> QED
    BY <1>8, <1>10, <1>12 DEF FilterInv

\* On to the routers, to the next protocol, or to the end of the filters:
\* what was visited is the same.
LEMMA FilterDoneStep ==
    ASSUME TypeOK, FilterInv, FilterServicesDone \/ FilterRoutersDone
    PROVE  FilterInv'
  <1>1. LoopType /\ in \in Input /\ type \in 1..3
    BY TypeParts DEF LoopType
  <1>2. UNCHANGED <<docker, settings, in, services, routers, faults>> /\ todo = {} /\ pc # "idle"
    BY DEF FilterServicesDone, FilterRoutersDone
  <1>3. \A x \in in.services \cup in.routers : x.type \in {Types[1], Types[2], Types[3]}
    BY <1>1, TypesAre
  <1>4. UNCHANGED <<DoneServices, DoneRouters>>
    <2> USE DEF DoneServices, DoneRouters, Filtering, Earlier, T, OfType, Goto
    <2>1. CASE FilterServicesDone
      <3>1. pc = "filterServices" /\ pc' = "filterRouters" /\ type' = type /\ todo' = OfType(routers, T)
        BY <2>1 DEF FilterServicesDone
      <3>2. DoneServices' = DoneServices
        BY <1>2, <3>1
      <3>3. \A r \in in.routers : r.type = T => r \in routers
        BY <1>1, <3>1, TypesAre DEF FilterInv, Untouched
      <3>4. DoneRouters' = DoneRouters
        BY <1>2, <3>1, <3>3
      <3> QED
        BY <3>2, <3>4
    <2>2. CASE FilterRoutersDone /\ type < 3
      <3>1. /\ pc = "filterRouters" /\ pc' = "filterServices" /\ type' = type + 1
            /\ todo' = OfType(services, Types[type + 1])
        BY <2>2, TypesAre DEF FilterRoutersDone
      <3>2. \A s \in in.services : s.type = Types[type + 1] => s \in services
        BY <1>1, <2>2, <3>1, TypesAre DEF FilterInv, Untouched
      <3>3. \A x : Earlier(x)' <=> Earlier(x) \/ x.type = T
        <4>1. 1..(type' - 1) = 1..(type - 1) \cup {type}
          BY <1>1, <3>1
        <4> QED
          BY <4>1
      <3>4. DoneServices' = DoneServices
        BY <1>2, <3>1, <3>2, <3>3
      <3>5. DoneRouters' = DoneRouters
        BY <1>2, <3>1, <3>3
      <3> QED
        BY <3>4, <3>5
    <2>3. CASE FilterRoutersDone /\ type = 3
      <3>1. pc = "filterRouters" /\ pc' \in {"replace", "merge"}
        BY <2>3, TypesAre DEF FilterRoutersDone
      <3>2. \A x \in in.services \cup in.routers : Earlier(x) \/ x.type = T
        BY <1>3, <2>3
      <3> QED
        BY <1>2, <3>1, <3>2
    <2> QED
      BY <1>1, <2>1, <2>2, <2>3
  <1> QED
    BY <1>2, <1>4, VerdictsStay

\* After the filters, everything has been visited.
LEMMA AfterFilterStep ==
    ASSUME TypeOK, FilterInv,
           ReplaceService \/ BindLookup \/ NetworkLookup \/ PortLookup \/ ReplaceDone \/ MergeService \/ MergeDone
    PROVE  FilterInv'
  <1>1. UNCHANGED <<settings, in, services, routers>>
    BY ReplaceLoopStep
  <1>2. pc \in {"replace", "bind", "network", "port", "merge"}
        /\ pc' \in {"replace", "bind", "network", "port", "merge", "store"}
    BY DEF ReplaceService, BindLookup, NetworkLookup, PortLookup, ReplaceDone, MergeService, MergeDone,
       Goto, ReplaceServer
  <1>3. UNCHANGED <<DoneServices, DoneRouters>>
    BY <1>1, <1>2 DEF DoneServices, DoneRouters, Filtering
  <1>4. \/ UNCHANGED <<docker, faults>>
        \/ \E s, r, c : FindContainerByServiceName(s, r, c)
    BY DEF ReplaceService, BindLookup, NetworkLookup, PortLookup, ReplaceDone, MergeService, MergeDone, Lookup
  <1> QED
    BY <1>1, <1>2, <1>3, <1>4, VerdictsStay

LEMMA FilterStep ==
    ASSUME TypeOK, FilterInv, [Next]_vars
    PROVE  FilterInv'
  <1>1. CASE UNCHANGED vars
    <2>1. UNCHANGED <<DoneServices, DoneRouters>>
      BY <1>1 DEF vars, DoneServices, DoneRouters, Filtering, Earlier, T
    <2>2. pc' = pc /\ UNCHANGED <<in, settings, services, routers, docker, faults>>
      BY <1>1 DEF vars
    <2> QED
      BY <2>1, <2>2, VerdictsStay DEF FilterInv
  <1> QED
    BY <1>1, BeginStep, FilterServiceStep, FilterRouterStep, FilterDoneStep, AfterFilterStep, FaultStep
       DEF Next, Handle

LEMMA FilterInvariant == Spec => []FilterInv
  <1>1. Init => FilterInv
    BY DEF Init, FilterInv
  <1>2. TypeOK /\ FilterInv /\ [Next]_vars => FilterInv'
    BY FilterStep
  <1> QED
    BY <1>1, <1>2, TypeCorrect, PTL DEF Spec

\* Whatever order the maps are walked in and however containers change, no
\* service is stored whose container is outside the handler's namespaces, and
\* none of the others is lost.
THEOREM NamespacesHold == Spec => []NamespaceRespected
  <1>1. FilterInv => NamespaceRespected
    BY DEF FilterInv, NamespaceRespected, Checked, JudgedServices, DoneServices, Filtering
  <1> QED
    BY <1>1, FilterInvariant, PTL

\* Services and routers are filtered by lookups of their own, and yet no router
\* is stored for a service that was dropped, nor dropped when it is kept.
THEOREM RoutersHold == Spec => []RoutersResolve
  <1>1. FilterInv => RoutersResolve
    BY DEF FilterInv, RoutersResolve, Checked, JudgedServices, JudgedRouters, DoneServices, DoneRouters, Filtering
  <1> QED
    BY <1>1, FilterInvariant, PTL
===============================================================================
