----------------------------- MODULE ConfigHandler -----------------------------
(***************************************************************************)
(* The configuration handler of traefik-kop (createConfigHandler in        *)
(* traefik_kop.go) up to its call of Store, with the dockerCache it looks  *)
(* containers up in (docker.go).                                           *)
(*                                                                         *)
(* The handler gets a configuration from traefik's Docker provider, drops  *)
(* what is outside its namespaces, replaces the addresses of the servers   *)
(* and merges in the servers found in Redis.  Go's maps are iterated in    *)
(* any order: each loop picks an element of todo.  Every lookup of a       *)
(* container is a step, since between two of them containers may change    *)
(* and the cache may expire.                                               *)
(*                                                                         *)
(* Labels are modelled by what the handler reads from them: an inspected   *)
(* container is a record with a field for each kind of label and for its   *)
(* port maps.  The keys of labels are put in lower case when the cache is  *)
(* filled, the names that are looked up are not: Lower gives each name's   *)
(* lower-case form.  A server is its address, a host and a port.           *)
(***************************************************************************)
EXTENDS Integers, Sequences, FiniteSets

CONSTANTS
    Service,    \* services, records with a type and a name
    Router,     \* routers, records with a type and a name
    Lower,      \* the service or router whose name is the lower-case form of a name
    Container,  \* container ids
    Gone,       \* the container is not running
    Inspect,    \* what inspecting a container may return, its labels as they are written
    NotFound,   \* no container for a lookup
    NoRouter,   \* no router for a service
    Unset,      \* a label is not set
    Blank,      \* the empty port
    Zero,       \* the port "0"
    BindIP,     \* the host's own IP
    LocalIP,    \* container-local IPs, as traefik finds them
    Input,      \* configurations of traefik's Docker provider
    Settings,   \* namespaces and skip-replace flags to run with
    Peers,      \* addresses that Redis may already hold for a service
    Dockers,    \* initial states of Docker
    Fault,      \* the kinds of fault that happen
    MaxFaults   \* bound on the number of faults of a behaviour

Types == <<"http", "tcp", "udp">>

ASSUME HandlerAssumption ==
    /\ \A s \in Service \cup Router : s.type \in {"http", "tcp", "udp"}
    /\ NoRouter \notin Router
    /\ \A s \in Service : Lower[s] \in Service
    /\ \A r \in Router : Lower[r] \in Router
    /\ Gone \notin Inspect
    /\ \A c \in Inspect : c.services \subseteq Service /\ c.routers \subseteq Router
    /\ \A in \in Input :
          /\ in.services \subseteq Service
          /\ in.routers \subseteq Router
          /\ in.target \in [Router -> Service]
          /\ \A r \in Router : in.target[r].type = r.type
          /\ \A s \in in.services :
                /\ Len(in.servers[s]) \in Nat \ {0}
                /\ DOMAIN in.servers[s] = 1..Len(in.servers[s])
    /\ Dockers \subseteq [Container -> Inspect \cup {Gone}]
    /\ Fault \subseteq {"change", "expire", "docker"}
    /\ MaxFaults \in Nat

\* No container has two labels whose keys differ in case only: the order of Go's
\* map would decide which of them is kept.
ASSUME LabelAssumption ==
    \A c \in Inspect : \A s, x \in Service : s # x /\ Lower[s] = Lower[x] =>
        /\ Unset \in {c.bind[s], c.bind[x]}
        /\ Blank \in {c.port[s], c.port[x]}

\* Port maps give lists of host ports.  In Docker's runtime bindings the ephemeral
\* port "0" has become a real one ("Runtime bindings contain the actual host port
\* for ephemeral publications", docker.go).
ASSUME PortAssumption ==
    LET Listed(list) == {list[i] : i \in DOMAIN list}
    IN  \A c \in Inspect :
            /\ \A k \in DOMAIN c.bound : c.bound[k] \in Seq(Listed(c.bound[k]) \ {Zero})
            /\ \A k \in DOMAIN c.configured : c.configured[k] \in Seq(Listed(c.configured[k]))

\* populate, "normalize labels": the labels of an inspected container, with their
\* keys in lower case.
LowerKeys(label, none) ==
    [s \in Service |->
        LET written == {x \in Service : Lower[x] = s /\ label[x] # none}
        IN  IF written = {} THEN none ELSE label[CHOOSE x \in written : TRUE]]

Normalize(c) ==
    [services |-> {Lower[s] : s \in c.services}, routers |-> {Lower[r] : r \in c.routers},
     bind |-> LowerKeys(c.bind, Unset), port |-> LowerKeys(c.port, Blank),
     ns |-> c.ns, merge |-> c.merge, bindAll |-> c.bindAll, network |-> c.network,
     bound |-> c.bound, configured |-> c.configured]

\* What the cache may hold, and what a lookup may return.
Cached == {Normalize(c) : c \in Inspect}

Found == Cached \cup {NotFound}

ASSUME NotFoundAssumption == NotFound \notin Cached

VARIABLES
    running,    \* Docker: the running containers
    details,    \* dockerCache.details
    fresh,      \* dockerCache.expires has not passed
    settings,   \* Config.Namespace and Config.SkipReplace
    in,         \* the configuration the handler was called with
    services,   \* the services left in it
    routers,    \* the routers left in it
    addrs,      \* the addresses of each service's servers
    pc,         \* the loop the handler is in, or its next lookup
    type,       \* the protocol it has reached, an index of Types
    todo,       \* services or routers still to visit
    ip,         \* the ip parameter of replaceIPs
    at,         \* the service, the server and the IP being worked on
    faults      \* the faults so far

docker == <<running, details, fresh>>
vars == <<docker, settings, in, services, routers, addrs, pc, type, todo, ip, at, faults>>

-------------------------------------------------------------------------------
(***************************************************************************)
(* What the handler decides from one inspected container.                  *)
(***************************************************************************)
KeepContainer(ns, c) ==
    \/ ns = {} /\ c.ns = {}
    \/ ns \cap c.ns # {}

\* The entries of a port map for a key, and the first with a real host port.
Entries(map, key) == IF key \in DOMAIN map THEN map[key] ELSE <<>>

FirstPort(list) ==
    LET real == {i \in DOMAIN list : list[i] \notin {Blank, Zero}}
    IN  IF real = {} THEN Blank ELSE list[CHOOSE i \in real : \A j \in real : i <= j]

\* The host port of an internal port: runtime bindings come before configured ones.
GetServicePortBinding(c, t, port) ==
    LET key == <<port, IF t = "udp" THEN "udp" ELSE "tcp">>
    IN  FirstPort(Entries(c.bound, key) \o Entries(c.configured, key))

\* The host port of a container that has only one.
GetPortBinding(c) ==
    IF \E j, k \in DOMAIN c.configured : j # k \/ Len(c.configured[k]) > 1
      THEN Blank
    ELSE IF \E k \in DOMAIN c.configured : FirstPort(c.configured[k]) # Blank
      THEN FirstPort(c.configured[CHOOSE k \in DOMAIN c.configured : TRUE])
    ELSE IF \E k \in DOMAIN c.bound : DOMAIN c.bound = {k} /\ c.bound[k] # <<>>
      THEN Head(c.bound[CHOOSE k \in DOMAIN c.bound : TRUE])
    ELSE Blank

\* The port to publish for service s, which traefik has at port.
GetContainerPort(c, s, port) ==
    IF c = NotFound THEN port
    ELSE LET explicit == c.port[s]
             bound == GetServicePortBinding(c, s.type, IF explicit # Blank THEN explicit ELSE port)
         IN  IF bound # Blank THEN bound
             ELSE IF explicit # Blank THEN explicit
             ELSE IF GetPortBinding(c) # Blank THEN GetPortBinding(c)
             ELSE port

\* The IP of the container in the network its label names.
GetContainerNetworkIP(c, hostIP) ==
    IF c = NotFound \/ c.network = Unset THEN hostIP ELSE c.network

\* The IP that kop.<service>.bind.ip or kop.bind.ip sets.
GetKopOverrideBinding(c, s) ==
    IF c = NotFound THEN Unset
    ELSE IF c.bind[s] # Unset THEN c.bind[s]
    ELSE c.bindAll

-------------------------------------------------------------------------------
(***************************************************************************)
(* Lookups.                                                                *)
(***************************************************************************)
OfType(S, t) == {s \in S : s.type = t}

T == Types[type]

\* getRouterOfService: any router of the configuration that names the service.
GetRouterOfService(s) ==
    LET candidates == {r \in OfType(routers, s.type) : in.target[r] = s}
    IN  IF candidates = {} THEN {NoRouter} ELSE candidates

\* The containers that have a label of service s or of router r, by the names as
\* traefik has them: a name with a capital letter is in no label of the cache.
Labelled(cache, s, r) ==
    {c \in cache : s \in c.services \/ r \in c.routers}

\* A fault of kind f happens in this step.
Faulty(f) ==
    /\ f \in Fault
    /\ Len(faults) < MaxFaults
    /\ faults' = Append(faults, f)

\* What the cache holds once the running containers are listed and inspected.
Listing == {Normalize(running[i]) : i \in {j \in Container : running[j] # Gone}}

\* populate: list and inspect the containers unless the cache is fresh; on an
\* error the lookup fails and the next one tries again.
Populate(ok) ==
    \/ fresh /\ ok /\ UNCHANGED <<docker, faults>>
    \/ /\ ~fresh /\ ok
       /\ details' = Listing
       /\ fresh' = TRUE
       /\ UNCHANGED <<running, faults>>
    \/ /\ ~fresh /\ ~ok
       /\ Faulty("docker")
       /\ details' = {}
       /\ UNCHANGED <<running, fresh>>

\* findContainerByServiceName returns c.
FindContainerByServiceName(s, r, c) ==
    \E ok \in BOOLEAN :
        /\ Populate(ok)
        /\ LET match == IF ok THEN Labelled(details', s, r) ELSE {}
           IN  IF match = {} THEN c = NotFound ELSE c \in match

\* The lookup of a service, through any of its routers.
Lookup(s, c) == \E r \in GetRouterOfService(s) : FindContainerByServiceName(s, r, c)

-------------------------------------------------------------------------------
(***************************************************************************)
(* The handler.                                                            *)
(***************************************************************************)
Nowhere == [service |-> NotFound, server |-> 0, ip |-> BindIP]

\* The addresses traefik found for service s.
Native(conf, s) == {<<LocalIP, conf.servers[s][i]>> : i \in DOMAIN conf.servers[s]}

\* The process has started; Docker's first configuration is to come.
Init ==
    /\ running \in Dockers
    /\ settings \in Settings
    /\ in \in Input
    /\ services = {} /\ routers = {}
    /\ addrs = [s \in Service |-> {}]
    /\ details = {} /\ fresh = FALSE
    /\ pc = "idle" /\ type = 1 /\ todo = {}
    /\ ip = BindIP /\ at = Nowhere
    /\ faults = <<>>

\* On to the loop p over S.
Goto(p, i, S) ==
    /\ pc' = p
    /\ type' = i
    /\ todo' = S

\* The handler is called with a configuration, and makes itself a new cache.
Begin ==
    /\ pc \in {"idle", "store"}
    /\ \E conf \in Input :
          /\ in' = conf
          /\ services' = conf.services
          /\ routers' = conf.routers
          /\ addrs' = [s \in Service |-> IF s \in conf.services THEN Native(conf, s) ELSE {}]
          /\ Goto("filterServices", 1, OfType(conf.services, "http"))
    /\ details' = {}
    /\ fresh' = FALSE
    /\ ip' = BindIP
    /\ at' = Nowhere
    /\ UNCHANGED <<running, settings, faults>>

\* Mutant: a service is kept when its container has any namespace.
FilterAnyNamespace ==
    /\ pc = "filterServices"
    /\ \E s \in todo, c \in Found :
          /\ Lookup(s, c)
          /\ services' = IF c # NotFound /\ c.ns = {} /\ settings.ns # {}
                           THEN services \ {s} ELSE services
          /\ Goto(pc, type, todo \ {s})
    /\ UNCHANGED <<settings, in, routers, addrs, ip, at>>

\* filterServices, the loop over the services of a protocol.  A service whose
\* container is not found stays.
FilterService ==
    /\ pc = "filterServices"
    /\ \E s \in todo, c \in Found :
          /\ Lookup(s, c)
          /\ services' = IF c # NotFound /\ ~KeepContainer(settings.ns, c)
                           THEN services \ {s} ELSE services
          /\ Goto(pc, type, todo \ {s})
    /\ UNCHANGED <<settings, in, routers, addrs, ip, at>>

FilterServicesDone ==
    /\ pc = "filterServices"
    /\ todo = {}
    /\ Goto("filterRouters", type, OfType(routers, T))
    /\ UNCHANGED <<docker, settings, in, services, routers, addrs, ip, at, faults>>

\* Mutant: the routers are not filtered.
FilterNoRouter ==
    /\ pc = "filterRouters"
    /\ \E r \in todo : Goto(pc, type, todo \ {r})
    /\ UNCHANGED <<docker, settings, in, services, routers, addrs, ip, at, faults>>

\* filterServices, the loop over the routers of a protocol.
FilterRouter ==
    /\ pc = "filterRouters"
    /\ \E r \in todo, c \in Found :
          /\ FindContainerByServiceName(in.target[r], r, c)
          /\ routers' = IF c # NotFound /\ ~KeepContainer(settings.ns, c)
                          THEN routers \ {r} ELSE routers
          /\ Goto(pc, type, todo \ {r})
    /\ UNCHANGED <<settings, in, services, addrs, ip, at>>

FilterRoutersDone ==
    /\ pc = "filterRouters"
    /\ todo = {}
    /\ IF type < Len(Types)
         THEN Goto("filterServices", type + 1, OfType(services, Types[type + 1]))
         ELSE Goto(IF settings.skip THEN "merge" ELSE "replace", 1, OfType(services, "http"))
    /\ UNCHANGED <<docker, settings, in, services, routers, addrs, ip, at, faults>>

\* replaceIPs, the loops over the services of a protocol and over their servers.
\* Only HTTP looks at the bind.ip labels.
ReplaceServer(s, i) ==
    /\ Goto(IF s.type = "http" THEN "bind" ELSE "network", type, todo \ {s})
    /\ at' = [service |-> s, server |-> i, ip |-> ip]

ReplaceService ==
    /\ pc = "replace"
    /\ \E s \in todo :
          /\ ReplaceServer(s, 1)
          /\ addrs' = [addrs EXCEPT ![s] = {}]
    /\ UNCHANGED <<docker, settings, in, services, routers, ip, faults>>

\* The lookup of getKopOverrideBinding.
BindLookup ==
    /\ pc = "bind"
    /\ \E c \in Found :
          /\ Lookup(at.service, c)
          /\ LET bind == GetKopOverrideBinding(c, at.service)
             IN  \/ bind # Unset /\ at' = [at EXCEPT !.ip = bind] /\ pc' = "port"
                 \/ bind = Unset /\ at' = at /\ pc' = "network"
    /\ UNCHANGED <<settings, in, services, routers, addrs, type, todo, ip>>

\* Mutant: HTTP, too, assigns to the ip parameter.
NetworkLookupLeaks ==
    /\ pc = "network"
    /\ \E c \in Found :
          /\ Lookup(at.service, c)
          /\ at' = [at EXCEPT !.ip = GetContainerNetworkIP(c, ip)]
          /\ ip' = GetContainerNetworkIP(c, ip)
    /\ pc' = "port"
    /\ UNCHANGED <<settings, in, services, routers, addrs, type, todo>>

\* The lookup of getContainerNetworkIP.  HTTP has an ip of its own in each
\* iteration; TCP and UDP assign to the parameter, which later servers use.
NetworkLookup ==
    /\ pc = "network"
    /\ \E c \in Found :
          /\ Lookup(at.service, c)
          /\ at' = [at EXCEPT !.ip = GetContainerNetworkIP(c, ip)]
          /\ ip' = IF T = "http" THEN ip ELSE GetContainerNetworkIP(c, ip)
    /\ pc' = "port"
    /\ UNCHANGED <<settings, in, services, routers, addrs, type, todo>>

\* Mutant: the loop over the servers goes one too far.
PortLookupTooFar ==
    /\ pc = "port"
    /\ \E c \in Found :
          /\ Lookup(at.service, c)
          /\ addrs' = [addrs EXCEPT ![at.service] =
                @ \cup {<<at.ip, GetContainerPort(c, at.service, in.servers[at.service][at.server])>>}]
    /\ IF at.server <= Len(in.servers[at.service])
         THEN ReplaceServer(at.service, at.server + 1)
         ELSE Goto("replace", type, todo) /\ at' = Nowhere
    /\ UNCHANGED <<settings, in, services, routers, ip>>

\* The lookup of getContainerPort: the server's address is complete.
PortLookup ==
    /\ pc = "port"
    /\ LET s == at.service
           port == in.servers[s][at.server]
       IN  /\ \E c \in Found :
                 /\ Lookup(s, c)
                 /\ addrs' = [addrs EXCEPT ![s] = @ \cup {<<at.ip, GetContainerPort(c, s, port)>>}]
           /\ IF at.server < Len(in.servers[s])
                THEN ReplaceServer(s, at.server + 1)
                ELSE Goto("replace", type, todo) /\ at' = Nowhere
    /\ UNCHANGED <<settings, in, services, routers, ip>>

ReplaceDone ==
    /\ pc = "replace"
    /\ todo = {}
    /\ IF type < Len(Types)
         THEN Goto("replace", type + 1, OfType(services, Types[type + 1]))
         ELSE Goto("merge", 1, OfType(services, "http"))
    /\ UNCHANGED <<docker, settings, in, services, routers, addrs, ip, at, faults>>

\* mergeLoadBalancers: with the merge-lbs label, the addresses Gets returns are
\* joined with the service's own; if Gets fails the service stays as it is.
MergeService ==
    /\ pc = "merge"
    /\ \E s \in todo, c \in Found :
          /\ Lookup(s, c)
          /\ IF c # NotFound /\ c.merge
               THEN \E existing \in SUBSET Peers :
                       addrs' = [addrs EXCEPT ![s] = @ \cup existing]
               ELSE UNCHANGED addrs
          /\ Goto(pc, type, todo \ {s})
    /\ UNCHANGED <<settings, in, services, routers, ip, at>>

MergeDone ==
    /\ pc = "merge"
    /\ todo = {}
    /\ IF type < Len(Types)
         THEN Goto("merge", type + 1, OfType(services, Types[type + 1]))
         ELSE Goto("store", 1, {})   \* Store(conf) is called
    /\ UNCHANGED <<docker, settings, in, services, routers, addrs, ip, at, faults>>

Handle ==
    \/ Begin
    \/ FilterService \/ FilterServicesDone \/ FilterRouter \/ FilterRoutersDone
    \/ ReplaceService \/ BindLookup \/ NetworkLookup \/ PortLookup \/ ReplaceDone
    \/ MergeService \/ MergeDone

-------------------------------------------------------------------------------
(***************************************************************************)
(* Docker.                                                                 *)
(***************************************************************************)

\* A container stops, starts or is replaced.
ContainerChanges ==
    /\ Faulty("change")
    /\ \E i \in Container, c \in Inspect \cup {Gone} : running' = [running EXCEPT ![i] = c]
    /\ UNCHANGED <<details, fresh, settings, in, services, routers, addrs, pc, type, todo, ip, at>>

\* More than five seconds pass between two lookups.
CacheExpires ==
    /\ fresh
    /\ Faulty("expire")
    /\ fresh' = FALSE
    /\ UNCHANGED <<running, details, settings, in, services, routers, addrs, pc, type, todo, ip, at>>

Next == Handle \/ ContainerChanges \/ CacheExpires

Spec == Init /\ [][Next]_vars

-------------------------------------------------------------------------------
(***************************************************************************)
(* Properties.                                                             *)
(***************************************************************************)
\* Every variable has its type.
TypeOK ==
    /\ running \in [Container -> Inspect \cup {Gone}]
    /\ details \subseteq Cached
    /\ fresh \in BOOLEAN
    /\ settings \in Settings
    /\ in \in Input
    /\ services \subseteq in.services
    /\ routers \subseteq in.routers
    /\ DOMAIN addrs = Service
    /\ pc \in {"idle", "filterServices", "filterRouters", "replace", "bind", "network", "port",
               "merge", "store"}
    /\ type \in DOMAIN Types
    /\ todo \subseteq OfType(IF pc = "filterRouters" THEN routers ELSE services, T)
    /\ DOMAIN at = {"service", "server", "ip"}
    /\ pc \in {"bind", "network", "port"} =>
          at.service \in OfType(services, T) /\ at.server \in DOMAIN in.servers[at.service]
    /\ faults \in Seq(Fault)
    /\ Len(faults) <= MaxFaults

Happened(f) == \E i \in DOMAIN faults : faults[i] = f

\* All lookups of this configuration saw the same containers: Docker answered,
\* and no container changed while the cache also expired.
OneSnapshot == ~Happened("docker") /\ ~(Happened("change") /\ Happened("expire"))

\* The service's container is c, and no other container could be taken for it.
\* A service and routers that have a capital letter in their names have none.
Targets(s) == {r \in in.routers : in.target[r] = s}

Belongs(c, s) == s \in c.services \/ Targets(s) \cap c.routers # {}

Identified(s, c) ==
    /\ {d \in details : Belongs(d, s)} = {c}
    /\ s \in c.services \/ Targets(s) \subseteq c.routers

Checked == pc = "store" /\ OneSnapshot

\* Namespaces: whatever order the maps are walked in, no service is stored
\* whose container is outside the handler's namespaces, and none of the others
\* is lost.
NamespaceRespected ==
    Checked => \A s \in in.services, c \in details :
        Identified(s, c) => (s \in services <=> KeepContainer(settings.ns, c))

\* No router is stored for a service that was filtered out, although services
\* and routers are filtered by lookups of their own.
RoutersResolve ==
    Checked => \A r \in in.routers, c \in details :
        in.target[r] \in in.services /\ Identified(in.target[r], c)
            => (r \in routers <=> in.target[r] \in services)

\* The IP that the documentation gives the servers of service s in container c,
\* whatever the protocol: that of a kop.<service>.bind.ip or a kop.bind.ip label,
\* else the container's own in the network its label names, else the host's.
RealIP(c, s) ==
    IF c.bind[s] # Unset THEN c.bind[s]
    ELSE IF c.bindAll # Unset THEN c.bindAll
    ELSE IF c.network # Unset THEN c.network
    ELSE BindIP

\* Networks of the containers that TCP and UDP services are in.
OtherNetworks ==
    {d.network : d \in {e \in details : \E x \in services : x.type # "http" /\ Belongs(e, x)}}
        \ {Unset}

\* Service s in container c is not in one of the two cases in which the code does
\* not do as documented (DocumentedIP): TCP and UDP look at no bind.ip label, and
\* take the network of a container they came to earlier for one that names none.
AsDocumented(c, s) ==
    \/ s.type = "http"
    \/ /\ c.bind[s] = Unset /\ c.bindAll = Unset
       /\ c.network # Unset \/ OtherNetworks = {}

\* The host ports that a port map has for the internal ports K.
HostPorts(map, K) ==
    {p \in UNION {{map[k][i] : i \in DOMAIN map[k]} : k \in K \cap DOMAIN map} :
        p \notin {Blank, Zero}}

\* The port maps hold a single internal port, and a single host port for it.
OnePort(map) == \E k \in DOMAIN map : DOMAIN map = {k}

OneBinding(map) == \E k \in DOMAIN map : DOMAIN map = {k} /\ Len(map[k]) = 1

\* The ports that the documentation gives the server that traefik has at port:
\* a host port published for the labelled or else that internal port, of the
\* right protocol; else the label's own port; else the container's only
\* configured host port or, when none is configured, a host port of the only
\* internal port that Docker has bound; else port itself.
RealPorts(c, s, port) ==
    LET explicit == c.port[s]
        key == <<IF explicit = Blank THEN port ELSE explicit, IF s.type = "udp" THEN "udp" ELSE "tcp">>
        mapped == HostPorts(c.bound, {key}) \cup HostPorts(c.configured, {key})
        configured == HostPorts(c.configured, DOMAIN c.configured)
    IN  IF mapped # {} THEN mapped
        ELSE IF explicit # Blank THEN {explicit}
        ELSE IF configured # {} THEN IF OneBinding(c.configured) THEN configured ELSE {port}
        ELSE {port} \cup (IF OnePort(c.bound) THEN HostPorts(c.bound, DOMAIN c.bound) ELSE {})

\* Address a is right for server number i of service s in container c: it has the
\* documented IP and port or, with --skip-replace, is the one traefik has found.
RealAddress(a, s, c, i) ==
    IF settings.skip THEN a = <<LocalIP, in.servers[s][i]>>
    ELSE /\ a[2] \in RealPorts(c, s, in.servers[s][i])
         /\ AsDocumented(c, s) => a[1] = RealIP(c, s)

\* Every server of every service that is stored is there, at the port and, but for
\* the two cases above, at the IP that its own container's labels and port maps
\* give it, whichever services were handled before; and nothing else is, but what
\* the merge has read from Redis.
ServersReal ==
    Checked => \A s \in services, c \in details : Identified(s, c) =>
        /\ \A i \in DOMAIN in.servers[s] : \E a \in addrs[s] : RealAddress(a, s, c, i)
        /\ \A a \in addrs[s] \ Peers : \E i \in DOMAIN in.servers[s] : RealAddress(a, s, c, i)

\* README.md, "IP Binding", "the order of precedence (highest first)", for TCP and
\* UDP too: a service is stored at the IP of its bind.ip labels, else of its own
\* container's network, else the host's.
DocumentedIP ==
    Checked /\ ~settings.skip => \A s \in services, c \in details :
        Identified(s, c) => \A a \in addrs[s] \ Peers : a[1] = RealIP(c, s)
===============================================================================
