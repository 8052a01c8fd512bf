------------------------- MODULE ServerAddressProofs -------------------------
(***************************************************************************)
(* The addresses that the configuration handler stores, for any services,  *)
(* containers, labels and port maps: every server is at the address of its *)
(* own container (ServersReal).                                            *)
(***************************************************************************)
EXTENDS ConfigHandlerProofs, WellFoundedInduction

-------------------------------------------------------------------------------
(***************************************************************************)
(* Ports.                                                                  *)
(***************************************************************************)
LEMMA LeastNumber ==
    ASSUME NEW S \in SUBSET Nat, S # {}
    PROVE  \E i \in S : \A j \in S : i <= j
  <1>1. PICK i \in S : \A j \in S : ~(<<j, i>> \in OpToRel(<, Nat))
    BY NatLessThanWellFounded, WFMin
  <1>2. \A j \in S : ~(j < i)
    BY <1>1 DEF OpToRel
  <1> QED
    BY <1>2

\* The entries of a list, and those that are real host ports.
Values(list) == {list[i] : i \in DOMAIN list}

Reals(list) == {p \in Values(list) : p \notin {Blank, Zero}}

\* FirstPort finds one of them when there is any.
LEMMA FirstPortReal ==
    ASSUME NEW list, DOMAIN list \subseteq Nat
    PROVE  IF Reals(list) = {} THEN FirstPort(list) = Blank
           ELSE FirstPort(list) \in Reals(list) /\ FirstPort(list) # Blank
  <1> DEFINE real == {i \in DOMAIN list : list[i] \notin {Blank, Zero}}
             least == CHOOSE i \in real : \A j \in real : i <= j
  <1>1. real = {} <=> Reals(list) = {}
    BY DEF Reals, Values
  <1>2. real = {} => FirstPort(list) = Blank
    BY DEF FirstPort
  <1>3. ASSUME real # {}
        PROVE  FirstPort(list) = list[least] /\ least \in real
    <2>1. real \in SUBSET Nat
      OBVIOUS
    <2>2. \E i \in real : \A j \in real : i <= j
      BY <1>3, <2>1, LeastNumber
    <2>3. least \in real
      BY <2>2
    <2>4. FirstPort(list) = list[least]
      BY <1>3 DEF FirstPort
    <2> QED
      BY <2>3, <2>4
  <1>4. ASSUME real # {}
        PROVE  FirstPort(list) \in Reals(list) /\ FirstPort(list) # Blank
    <2>1. \A i \in real : list[i] \in Reals(list) /\ list[i] # Blank
      BY DEF Reals, Values
    <2> HIDE DEF real, least
    <2> QED
      BY <1>3, <1>4, <2>1
  <1> QED
    BY <1>1, <1>2, <1>4

\* A port map as Docker reports one.
PortMap(map) == \A k \in DOMAIN map : map[k] \in Seq(Values(map[k]))

LEMMA MapsAreLists ==
    ASSUME NEW c \in Cached
    PROVE  /\ PortMap(c.bound) /\ PortMap(c.configured)
           /\ \A k \in DOMAIN c.bound : \A i \in DOMAIN c.bound[k] : c.bound[k][i] # Zero
  <1>1. PICK d \in Inspect : c.bound = d.bound /\ c.configured = d.configured
    BY CachedType
  <1>2. ASSUME NEW k \in DOMAIN c.bound
        PROVE  c.bound[k] \in Seq(Values(c.bound[k]) \ {Zero})
    <2>1. d.bound[k] \in Seq(Values(d.bound[k]) \ {Zero})
      BY <1>1, PortAssumption DEF Values
    <2> QED
      BY <1>1, <2>1
  <1>3. ASSUME NEW k \in DOMAIN c.bound
        PROVE  /\ c.bound[k] \in Seq(Values(c.bound[k]))
               /\ \A i \in DOMAIN c.bound[k] : c.bound[k][i] # Zero
    <2> DEFINE list == c.bound[k]
               S == Values(c.bound[k])
    <2>1. list \in Seq(S \ {Zero})
      BY <1>2
    <2> HIDE DEF list, S
    <2>2. list \in Seq(S) /\ \A i \in DOMAIN list : list[i] # Zero
      BY <2>1
    <2> QED
      BY <2>2 DEF list, S
  <1>4. PortMap(d.configured)
    BY PortAssumption DEF PortMap, Values
  <1> QED
    BY <1>1, <1>3, <1>4 DEF PortMap

\* The real ports of a key of a port map.
LEMMA EntriesReal ==
    ASSUME NEW map, NEW key, PortMap(map)
    PROVE  /\ Entries(map, key) \in Seq(Values(Entries(map, key)))
           /\ Reals(Entries(map, key)) = HostPorts(map, {key})
  <1>1. CASE key \in DOMAIN map
    <2>1. Entries(map, key) = map[key] /\ {key} \cap DOMAIN map = {key}
      BY <1>1 DEF Entries
    <2> QED
      BY <1>1, <2>1 DEF PortMap, Reals, Values, HostPorts
  <1>2. CASE key \notin DOMAIN map
    <2>1. Entries(map, key) = << >> /\ {key} \cap DOMAIN map = {}
      BY <1>2 DEF Entries
    <2> QED
      BY <2>1 DEF Reals, Values, HostPorts
  <1> QED
    BY <1>1, <1>2

LEMMA JoinedReal ==
    ASSUME NEW S, NEW U, NEW a \in Seq(S), NEW b \in Seq(U)
    PROVE  /\ DOMAIN (a \o b) \subseteq Nat
           /\ Reals(a \o b) = Reals(a) \cup Reals(b)
  <1>1. a \in Seq(S \cup U) /\ b \in Seq(S \cup U)
    OBVIOUS
  <1>2. /\ a \o b \in Seq(S \cup U) /\ Len(a \o b) = Len(a) + Len(b)
        /\ \A i \in 1..(Len(a) + Len(b)) : (a \o b)[i] = IF i <= Len(a) THEN a[i] ELSE b[i - Len(a)]
    BY <1>1, ConcatProperties
  <1>3. /\ DOMAIN (a \o b) = 1..(Len(a) + Len(b)) /\ DOMAIN a = 1..Len(a) /\ DOMAIN b = 1..Len(b)
        /\ Len(a) \in Nat /\ Len(b) \in Nat
    BY <1>1, <1>2
  <1> DEFINE ab == a \o b
  <1>4. \A i \in DOMAIN a : i \in DOMAIN ab /\ ab[i] = a[i]
    BY <1>2, <1>3
  <1>5. \A i \in DOMAIN b : i + Len(a) \in DOMAIN ab /\ ab[i + Len(a)] = b[i]
    BY <1>2, <1>3
  <1>6. \A i \in DOMAIN ab : \/ i \in DOMAIN a /\ ab[i] = a[i]
                             \/ i - Len(a) \in DOMAIN b /\ ab[i] = b[i - Len(a)]
    BY <1>2, <1>3
  <1>7. DOMAIN ab \subseteq Nat
    BY <1>3
  <1> HIDE DEF ab
  <1>8. Values(ab) = Values(a) \cup Values(b)
    BY <1>4, <1>5, <1>6 DEF Values
  <1>9. Reals(ab) = Reals(a) \cup Reals(b)
    BY <1>8 DEF Reals
  <1> QED
    BY <1>7, <1>9 DEF ab

\* The host port of an internal port is one that is published for it.
LEMMA ServicePortReal ==
    ASSUME NEW c \in Cached, NEW t, NEW port
    PROVE  LET key == <<port, IF t = "udp" THEN "udp" ELSE "tcp">>
               mapped == HostPorts(c.bound, {key}) \cup HostPorts(c.configured, {key})
               found == GetServicePortBinding(c, t, port)
           IN  IF mapped = {} THEN found = Blank ELSE found \in mapped /\ found # Blank
  <1> DEFINE key == <<port, IF t = "udp" THEN "udp" ELSE "tcp">>
             a == Entries(c.bound, key)
             b == Entries(c.configured, key)
  <1>1. /\ a \in Seq(Values(a)) /\ Reals(a) = HostPorts(c.bound, {key})
        /\ b \in Seq(Values(b)) /\ Reals(b) = HostPorts(c.configured, {key})
    <2>1. PortMap(c.bound) /\ PortMap(c.configured)
      BY MapsAreLists
    <2> QED
      BY <2>1, EntriesReal
  <1>2. GetServicePortBinding(c, t, port) = FirstPort(a \o b)
    BY DEF GetServicePortBinding
  <1> HIDE DEF a, b, key
  <1>3. DOMAIN (a \o b) \subseteq Nat /\ Reals(a \o b) = Reals(a) \cup Reals(b)
    BY <1>1, JoinedReal
  <1>4. IF Reals(a \o b) = {} THEN FirstPort(a \o b) = Blank
        ELSE FirstPort(a \o b) \in Reals(a \o b) /\ FirstPort(a \o b) # Blank
    BY <1>3, FirstPortReal
  <1> QED
    BY <1>1, <1>2, <1>3, <1>4 DEF key

\* Several internal ports, or several host ports for one, are no single binding.
LEMMA SingleBinding ==
    ASSUME NEW map, PortMap(map)
    PROVE  LET several == \E j, k \in DOMAIN map : j # k \/ Len(map[k]) > 1
           IN  /\ several => ~OneBinding(map)
               /\ ~several => \A k \in DOMAIN map : Reals(map[k]) # {} => OneBinding(map)
  <1>1. ASSUME NEW k \in DOMAIN map
        PROVE  Len(map[k]) \in Nat /\ DOMAIN map[k] = 1..Len(map[k])
    BY DEF PortMap
  <1>2. ASSUME NEW j \in DOMAIN map, NEW k \in DOMAIN map, j # k \/ Len(map[k]) > 1
        PROVE  ~OneBinding(map)
    <2>1. Len(map[k]) \in Nat
      BY <1>1
    <2>2. Len(map[k]) > 1 => Len(map[k]) # 1
      <3>1. \A n \in Nat : n > 1 => n # 1
        OBVIOUS
      <3> QED
        BY <2>1, <3>1
    <2>3. ASSUME NEW l \in DOMAIN map, DOMAIN map = {l}, Len(map[l]) = 1
          PROVE  FALSE
      <3>1. j = k /\ k = l
        BY <2>3
      <3> QED
        BY <1>2, <2>2, <2>3, <3>1
    <2> QED
      BY <2>3 DEF OneBinding
  <1>3. ASSUME ~\E j, k \in DOMAIN map : j # k \/ Len(map[k]) > 1,
               NEW k \in DOMAIN map, Reals(map[k]) # {}
        PROVE  OneBinding(map)
    <2>1. DOMAIN map = {k} /\ ~(Len(map[k]) > 1)
      BY <1>3
    <2>2. DOMAIN map[k] # {}
      BY <1>3 DEF Reals, Values
    <2>3. Len(map[k]) = 1
      BY <1>1, <2>1, <2>2
    <2> QED
      BY <2>1, <2>3 DEF OneBinding
  <1> QED
    BY <1>2, <1>3

\* The container's only host port: the only one configured, or the first that
\* Docker has bound to its only internal port.
LEMMA PortBindingReal ==
    ASSUME NEW c \in Cached
    PROVE  LET configured == HostPorts(c.configured, DOMAIN c.configured)
               only == GetPortBinding(c)
           IN  \/ only = Blank /\ (configured # {} => ~OneBinding(c.configured))
               \/ only \in configured /\ OneBinding(c.configured)
               \/ configured = {} /\ OnePort(c.bound) /\ only \in HostPorts(c.bound, DOMAIN c.bound)
  <1> DEFINE map == c.configured
             configured == HostPorts(map, DOMAIN map)
  <1>1. /\ PortMap(map) /\ PortMap(c.bound)
        /\ \A k \in DOMAIN c.bound : \A i \in DOMAIN c.bound[k] : c.bound[k][i] # Zero
    BY MapsAreLists
  <1>2. \A k \in DOMAIN map : map[k] \in Seq(Values(map[k]))
    BY <1>1 DEF PortMap
  <1>3. \A k \in DOMAIN map : Len(map[k]) \in Nat /\ DOMAIN map[k] = 1..Len(map[k])
    BY <1>2
  <1>4. \A k \in DOMAIN map : Reals(map[k]) \subseteq configured
    BY DEF Reals, Values, HostPorts
  <1>5. \A p \in configured : \E k \in DOMAIN map : p \in Reals(map[k])
    BY DEF Reals, Values, HostPorts
  <1>6. \A k \in DOMAIN map : IF Reals(map[k]) = {} THEN FirstPort(map[k]) = Blank
                              ELSE FirstPort(map[k]) \in Reals(map[k]) /\ FirstPort(map[k]) # Blank
    BY <1>3, FirstPortReal
  <1>7. CASE \E j, k \in DOMAIN map : j # k \/ Len(map[k]) > 1
    <2>1. GetPortBinding(c) = Blank
      BY <1>7 DEF GetPortBinding
    <2>2. ~OneBinding(map)
      BY <1>1, <1>7, SingleBinding
    <2> QED
      BY <2>1, <2>2
  <1>8. CASE /\ ~\E j, k \in DOMAIN map : j # k \/ Len(map[k]) > 1
             /\ \E k \in DOMAIN map : FirstPort(map[k]) # Blank
    <2>1. PICK k \in DOMAIN map : FirstPort(map[k]) # Blank
      BY <1>8
    <2>2. DOMAIN map = {k} /\ ~(Len(map[k]) > 1)
      BY <1>8, <2>1
    <2>3. GetPortBinding(c) = FirstPort(map[k])
      BY <1>8, <2>2 DEF GetPortBinding
    <2>4. FirstPort(map[k]) \in Reals(map[k]) /\ FirstPort(map[k]) \in configured
      BY <1>4, <1>6, <2>1
    <2>5. OneBinding(map)
      BY <1>1, <1>8, <2>1, <2>4, SingleBinding
    <2> QED
      BY <2>3, <2>4, <2>5
  <1>9. CASE /\ ~\E j, k \in DOMAIN map : j # k \/ Len(map[k]) > 1
             /\ \A k \in DOMAIN map : FirstPort(map[k]) = Blank
    <2>1. configured = {}
      BY <1>5, <1>6, <1>9
    <2>2. CASE \E k \in DOMAIN c.bound : DOMAIN c.bound = {k} /\ c.bound[k] # << >>
      <3>1. PICK k \in DOMAIN c.bound : DOMAIN c.bound = {k} /\ c.bound[k] # << >>
        BY <2>2
      <3>2. GetPortBinding(c) = Head(c.bound[k])
        BY <1>9, <3>1 DEF GetPortBinding
      <3>3. c.bound[k] \in Seq(Values(c.bound[k]))
        BY <1>1 DEF PortMap
      <3>4. Head(c.bound[k]) = c.bound[k][1] /\ 1 \in DOMAIN c.bound[k]
        BY <3>1, <3>3
      <3>5. OnePort(c.bound)
        BY <3>1 DEF OnePort
      <3>6. c.bound[k][1] = Blank \/ c.bound[k][1] \in HostPorts(c.bound, DOMAIN c.bound)
        BY <1>1, <3>1, <3>4 DEF HostPorts
      <3> QED
        BY <2>1, <3>2, <3>4, <3>5, <3>6
    <2>3. CASE ~\E k \in DOMAIN c.bound : DOMAIN c.bound = {k} /\ c.bound[k] # << >>
      <3>1. GetPortBinding(c) = Blank
        BY <1>9, <2>3 DEF GetPortBinding
      <3> QED
        BY <2>1, <3>1
    <2> QED
      BY <2>2, <2>3
  <1> QED
    BY <1>7, <1>8, <1>9

\* The port that is published for a server is one of those documented.
LEMMA ContainerPortReal ==
    ASSUME NEW c \in Cached, NEW s, NEW port
    PROVE  GetContainerPort(c, s, port) \in RealPorts(c, s, port)
  <1> DEFINE explicit == c.port[s]
             inner == IF explicit = Blank THEN port ELSE explicit
             key == <<inner, IF s.type = "udp" THEN "udp" ELSE "tcp">>
             mapped == HostPorts(c.bound, {key}) \cup HostPorts(c.configured, {key})
             configured == HostPorts(c.configured, DOMAIN c.configured)
             found == GetServicePortBinding(c, s.type, inner)
             only == GetPortBinding(c)
  <1>1. c # NotFound
    BY CachedType
  <1>2. GetContainerPort(c, s, port) =
            IF found # Blank THEN found ELSE IF explicit # Blank THEN explicit
            ELSE IF only # Blank THEN only ELSE port
    BY <1>1 DEF GetContainerPort
  <1>3. RealPorts(c, s, port) =
            IF mapped # {} THEN mapped
            ELSE IF explicit # Blank THEN {explicit}
            ELSE IF configured # {} THEN IF OneBinding(c.configured) THEN configured ELSE {port}
            ELSE {port} \cup (IF OnePort(c.bound) THEN HostPorts(c.bound, DOMAIN c.bound) ELSE {})
    BY DEF RealPorts
  <1>4. IF mapped = {} THEN found = Blank ELSE found \in mapped /\ found # Blank
    BY ServicePortReal
  <1>5. \/ only = Blank /\ (configured # {} => ~OneBinding(c.configured))
        \/ only \in configured /\ OneBinding(c.configured)
        \/ configured = {} /\ OnePort(c.bound) /\ only \in HostPorts(c.bound, DOMAIN c.bound)
    BY PortBindingReal
  <1>6. \A p \in configured \cup HostPorts(c.bound, DOMAIN c.bound) : p # Blank
    BY DEF HostPorts
  <1> HIDE DEF explicit, inner, key, mapped, configured, found, only
  <1> QED
    BY <1>2, <1>3, <1>4, <1>5, <1>6

-------------------------------------------------------------------------------
(***************************************************************************)
(* The invariant.  With --skip-replace the addresses are traefik's own     *)
(* throughout.  Otherwise those of a service are right as soon as its      *)
(* servers were replaced, and those of the service being replaced as far   *)
(* as it has come: the three lookups of a server find one container.       *)
(***************************************************************************)
Replacing == pc \in {"bind", "network", "port"}

\* The services whose servers have all been replaced.
Replaced(s) ==
    \/ pc \in {"merge", "store"}
    \/ pc = "replace" /\ (Earlier(s) \/ (s.type = T /\ s \notin todo))
    \/ Replacing /\ (Earlier(s) \/ (s.type = T /\ s \notin todo \cup {at.service}))

\* Server number i of s is there, at an address right for container c.
Covered(s, c, i) == \E a \in addrs[s] : RealAddress(a, s, c, i)

\* Every address of s is right for one of its servers, or Redis had it.
Within(s, c) == \A a \in addrs[s] \ Peers : \E i \in DOMAIN in.servers[s] : RealAddress(a, s, c, i)

ReplacedRight ==
    \A s \in services, c \in details :
        Identified(s, c) /\ Replaced(s) => Within(s, c) /\ \A i \in DOMAIN in.servers[s] : Covered(s, c, i)

\* The service at work: its earlier servers, and what is known of this one.
CurrentRight ==
    Replacing => \A s \in services, c \in details :
        s = at.service /\ Identified(s, c) =>
            /\ Within(s, c) /\ \A i \in DOMAIN in.servers[s] : i < at.server => Covered(s, c, i)
            /\ pc = "bind" => T = "http"
            /\ pc = "network" /\ T = "http" => c.bind[s] = Unset /\ c.bindAll = Unset
            /\ pc = "port" /\ AsDocumented(c, s) => at.ip = RealIP(c, s)

\* The parameter that TCP and UDP assign to: the host's IP, or the network of a
\* container of theirs.
IPs == {BindIP} \cup OtherNetworks

Parameter ==
    /\ Filtering \/ ((pc = "replace" \/ Replacing) /\ T = "http") => ip = BindIP
    /\ (pc = "replace" \/ Replacing) /\ OneSnapshot => ip \in IPs

\* With --skip-replace nothing is replaced.
Skipped ==
    /\ pc # "replace" /\ ~Replacing
    /\ pc # "idle" => \A s \in in.services :
          Native(in, s) \subseteq addrs[s] /\ addrs[s] \ Peers \subseteq Native(in, s)

AddressInv ==
    /\ Parameter
    /\ settings.skip => Skipped
    /\ ~settings.skip /\ OneSnapshot => ReplacedRight /\ CurrentRight

-------------------------------------------------------------------------------
(***************************************************************************)
(* Lookups after the filters.                                              *)
(***************************************************************************)
\* A service that is left is found in its own container by every lookup: the
\* filters have left all of its routers, so the lookup goes through one of them.
LEMMA LaterLookup ==
    ASSUME TypeOK, FilterInv, pc \in {"bind", "network", "port", "merge"},
           NEW s \in services, NEW c, Lookup(s, c), UNCHANGED in, OneSnapshot'
    PROVE  /\ OneSnapshot /\ details' = details
           /\ c \in details \cup {NotFound}
           /\ c # NotFound => Belongs(c, s)
           /\ \A d \in details : Identified(s, d) => c = d
  <1>1. DockerType /\ LoopType /\ in \in Input /\ s \in in.services
    BY TypeParts DEF LoopType
  <1>2. Snapshot /\ JudgedServices /\ JudgedRouters
    BY DEF FilterInv
  <1>3. DoneServices = in.services /\ DoneRouters = in.routers
    BY DEF DoneServices, DoneRouters, Filtering
  <1>4. PICK r \in GetRouterOfService(s) : FindContainerByServiceName(s, r, c)
    BY DEF Lookup
  <1>5. OneSnapshot /\ details' = details
    BY <1>1, <1>2, <1>3, <1>4, LookupCache
  <1>6. c \in details \cup {NotFound}
    BY <1>1, <1>4, <1>5, LookupType
  <1>7. ASSUME NEW d \in details, Identified(s, d)
        PROVE  c = d
    <2>1. KeepContainer(settings.ns, d)
      BY <1>1, <1>2, <1>3, <1>5, <1>7 DEF JudgedServices
    <2>2. ASSUME NEW x \in Targets(s)
          PROVE  x \in OfType(routers, s.type) /\ in.target[x] = s
      <3>1. x \in in.routers /\ x \in Router /\ in.target[x] = s /\ x.type = s.type
        BY <1>1, <2>2, HandlerAssumption DEF Targets
      <3>2. x \in routers
        BY <1>2, <1>3, <1>5, <1>7, <2>1, <3>1 DEF JudgedRouters
      <3> QED
        BY <3>1, <3>2 DEF OfType
    <2>3. {x \in OfType(routers, s.type) : in.target[x] = s} = Targets(s)
      BY <1>1, <2>2 DEF Targets, OfType, LoopType
    <2>4. r \in Targets(s) \/ (Targets(s) = {} /\ r = NoRouter)
      BY <1>4, <2>3 DEF GetRouterOfService
    <2>5. Identified(s, d)' /\ d \in details'
      BY <1>5, <1>7 DEF Identified, Belongs, Targets
    <2> QED
      BY <1>2, <1>4, <2>4, <2>5, LookupFinds
  <1>8. ASSUME c # NotFound
        PROVE  Belongs(c, s)
    <2>1. c \in Labelled(details', s, r)
      BY <1>1, <1>2, <1>4, <1>8, LookupCache
    <2>2. c.routers \subseteq Router
      BY <1>1, <1>6, <1>8, CachedType DEF DockerType
    <2>3. s \in c.services \/ r \in c.routers
      BY <2>1 DEF Labelled
    <2>4. {x \in OfType(routers, s.type) : in.target[x] = s} \subseteq Targets(s)
      BY <1>1 DEF Targets, OfType, LoopType
    <2>5. r = NoRouter \/ r \in Targets(s)
      BY <1>4, <2>4 DEF GetRouterOfService
    <2>6. r \in c.routers => r \in Targets(s)
      BY <2>2, <2>5, HandlerAssumption
    <2> QED
      BY <2>3, <2>6 DEF Belongs
  <1> QED
    BY <1>5, <1>6, <1>7, <1>8

\* What is right for a server depends on the configuration and the cache alone.
LEMMA SameRight ==
    ASSUME UNCHANGED <<settings, in, services, details>>
    PROVE  /\ \A s, c : AsDocumented(c, s)' <=> AsDocumented(c, s)
           /\ \A a, s, c, i : RealAddress(a, s, c, i)' <=> RealAddress(a, s, c, i)
           /\ \A s, c : Identified(s, c)' <=> Identified(s, c)
           /\ IPs' = IPs
  <1>1. ASSUME NEW CONSTANT s, NEW CONSTANT c
        PROVE  (Belongs(c, s)' <=> Belongs(c, s)) /\ (Identified(s, c)' <=> Identified(s, c))
    BY DEF Identified, Belongs, Targets
  <1>2. OtherNetworks' = OtherNetworks
    BY <1>1 DEF OtherNetworks
  <1>3. ASSUME NEW CONSTANT s, NEW CONSTANT c
        PROVE  AsDocumented(c, s)' <=> AsDocumented(c, s)
    BY <1>2 DEF AsDocumented
  <1>4. ASSUME NEW CONSTANT a, NEW CONSTANT s, NEW CONSTANT c, NEW CONSTANT i
        PROVE  RealAddress(a, s, c, i)' <=> RealAddress(a, s, c, i)
    BY <1>3 DEF RealAddress
  <1> QED
    BY <1>1, <1>2, <1>3, <1>4 DEF IPs

\* A service whose addresses are left alone stays right.
LEMMA StaysRight ==
    ASSUME UNCHANGED <<settings, in, services, details>>, NEW CONSTANT s, addrs'[s] = addrs[s]
    PROVE  \A c : /\ Within(s, c)' <=> Within(s, c)
                  /\ \A i : Covered(s, c, i)' <=> Covered(s, c, i)
  <1>1. ASSUME NEW CONSTANT c, NEW CONSTANT i
        PROVE  (Within(s, c)' <=> Within(s, c)) /\ (Covered(s, c, i)' <=> Covered(s, c, i))
    BY SameRight DEF Within, Covered
  <1> QED
    BY <1>1

-------------------------------------------------------------------------------
(***************************************************************************)
(* One lemma for each step of the handler.                                 *)
(***************************************************************************)
\* A step that leaves the handler where it is.
LEMMA NothingReplaced ==
    ASSUME AddressInv, UNCHANGED <<settings, in, services, addrs, pc, type, todo, ip, at, details>>,
           OneSnapshot' => OneSnapshot
    PROVE  AddressInv'
  <1>1. /\ \A s, c : /\ AsDocumented(c, s)' <=> AsDocumented(c, s)
                     /\ (Identified(s, c)' <=> Identified(s, c))
                     /\ Within(s, c)' <=> Within(s, c)
                     /\ \A i : Covered(s, c, i)' <=> Covered(s, c, i)
        /\ IPs' = IPs
    BY SameRight, StaysRight
  <1>2. (Replacing' <=> Replacing) /\ (Filtering' <=> Filtering) /\ T' = T
        /\ \A s : (Replaced(s)' <=> Replaced(s))
    BY DEF Replacing, Filtering, Replaced, Earlier, T
  <1>3. Parameter'
    BY <1>1, <1>2 DEF AddressInv, Parameter
  <1>4. settings'.skip => Skipped'
    BY <1>2 DEF AddressInv, Skipped, Native
  <1>5. ReplacedRight => ReplacedRight'
    BY <1>1, <1>2 DEF ReplacedRight
  <1>6. CurrentRight => CurrentRight'
    BY <1>1, <1>2 DEF CurrentRight
  <1> QED
    BY <1>3, <1>4, <1>5, <1>6 DEF AddressInv

\* Faults of Docker and the clock.
LEMMA FaultAddresses ==
    ASSUME TypeOK, AddressInv, ContainerChanges \/ CacheExpires
    PROVE  AddressInv'
  <1>1. OneSnapshot' => OneSnapshot
    <2>1. DockerType
      BY TypeParts
    <2>2. PICK f : Faulty(f)
      BY DEF ContainerChanges, CacheExpires
    <2>3. \A g : Happened(g) => Happened(g)'
      BY <2>1, <2>2, Happens
    <2> QED
      BY <2>3 DEF OneSnapshot
  <1> QED
    BY <1>1, NothingReplaced DEF ContainerChanges, CacheExpires

\* The handler begins with the addresses that traefik found.
LEMMA BeginAddresses ==
    ASSUME Begin
    PROVE  AddressInv'
  <1>1. /\ in' \in Input /\ services' = in'.services /\ ip' = BindIP
        /\ addrs' = [s \in Service |-> IF s \in in'.services THEN Native(in', s) ELSE {}]
        /\ pc' = "filterServices"
    BY DEF Begin, Goto
  <1>2. \A s \in in'.services : addrs'[s] = Native(in', s)
    BY <1>1, HandlerAssumption
  <1>3. Parameter' /\ Skipped'
    BY <1>1, <1>2 DEF Parameter, Skipped, Filtering, Replacing
  <1>4. ReplacedRight' /\ CurrentRight'
    BY <1>1 DEF ReplacedRight, CurrentRight, Replaced, Replacing
  <1> QED
    BY <1>3, <1>4 DEF AddressInv

\* The filters touch no address.
LEMMA FilterAddresses ==
    ASSUME TypeOK, AddressInv, FilterService \/ FilterServicesDone \/ FilterRouter \/ FilterRoutersDone
    PROVE  AddressInv'
  <1>1. UNCHANGED <<settings, in, addrs, ip, at>> /\ LoopType /\ ip = BindIP /\ Filtering
    <2>1. Filtering
      BY DEF FilterService, FilterServicesDone, FilterRouter, FilterRoutersDone, Filtering
    <2> QED
      BY <2>1, TypeParts, FilterLoopStep DEF AddressInv, Parameter
  <1>2. \/ pc' \in {"filterServices", "filterRouters"}
        \/ pc' = "merge" /\ settings.skip
        \/ pc' = "replace" /\ ~settings.skip /\ type' = 1 /\ todo' = OfType(services, "http") /\ services' = services
    BY DEF FilterService, FilterServicesDone, FilterRouter, FilterRoutersDone, Goto
  <1>3. Parameter'
    BY <1>1, <1>2 DEF Parameter, Filtering, Replacing, IPs
  <1>4. settings'.skip => Skipped'
    <2>1. pc # "idle"
      BY <1>1 DEF Filtering
    <2> QED
      BY <1>1, <1>2, <2>1 DEF AddressInv, Skipped, Replacing, Native
  <1>5. CurrentRight'
    BY <1>2 DEF CurrentRight, Replacing
  <1>6. ASSUME ~settings'.skip, NEW s \in services'
        PROVE  ~Replaced(s)'
    BY <1>1, <1>2, <1>6, TypesAre DEF Replaced, Replacing, Earlier, OfType, T
  <1>7. ~settings'.skip => ReplacedRight'
    BY <1>6 DEF ReplacedRight
  <1> QED
    BY <1>3, <1>4, <1>5, <1>7 DEF AddressInv

\* What a step of replaceIPs or mergeLoadBalancers leaves alone.
LEMMA ReplaceFrame ==
    ASSUME TypeOK, AddressInv,
           ReplaceService \/ BindLookup \/ NetworkLookup \/ PortLookup \/ ReplaceDone
    PROVE  /\ UNCHANGED <<settings, in, services, routers>>
           /\ ~settings.skip
           /\ pc = "replace" \/ Replacing
           /\ LoopType /\ in \in Input /\ details \subseteq Cached
  <1>1. pc = "replace" \/ Replacing
    BY DEF ReplaceService, BindLookup, NetworkLookup, PortLookup, ReplaceDone, Replacing
  <1> QED
    BY <1>1, ReplaceLoopStep, TypeParts DEF AddressInv, Skipped, DockerType

\* No service is of the protocol at work and of an earlier one.
LEMMA NotEarlier ==
    ASSUME LoopType, NEW s, s.type = T
    PROVE  ~Earlier(s)
  <1>1. type \in 1..3
    BY DEF LoopType
  <1> QED
    BY <1>1, TypesAre DEF Earlier, T

\* A service is taken up: it has no address yet.
LEMMA ReplaceServiceAddresses ==
    ASSUME TypeOK, AddressInv, ReplaceService
    PROVE  AddressInv'
  <1>1. /\ UNCHANGED <<settings, in, services, routers>> /\ ~settings.skip
        /\ LoopType /\ in \in Input
    BY ReplaceFrame
  <1>2. PICK s \in todo : ReplaceServer(s, 1) /\ addrs' = [addrs EXCEPT ![s] = {}]
    BY DEF ReplaceService
  <1>3. /\ pc = "replace" /\ UNCHANGED <<docker, ip, faults>>
        /\ pc' = (IF s.type = "http" THEN "bind" ELSE "network")
        /\ type' = type /\ todo' = todo \ {s} /\ at' = [service |-> s, server |-> 1, ip |-> ip]
    BY <1>2 DEF ReplaceService, ReplaceServer, Goto
  <1>4. details' = details /\ (OneSnapshot' <=> OneSnapshot) /\ T' = T
    BY <1>3, NothingHappens DEF docker, T
  <1>5. s \in services /\ s.type = T /\ ~Earlier(s) /\ s \in Service /\ DOMAIN addrs = Service
    BY <1>1, <1>3, NotEarlier, HandlerAssumption, TypeParts DEF LoopType, OfType
  <1>6. addrs'[s] = {} /\ \A x : x # s => addrs'[x] = addrs[x]
    BY <1>2, <1>5
  <1>7. Parameter'
    BY <1>3, <1>4, SameRight, <1>1 DEF AddressInv, Parameter, Filtering, Replacing
  <1>8. ASSUME ReplacedRight
        PROVE  ReplacedRight'
    <2>1. ASSUME NEW x \in services', NEW c \in details', Identified(x, c)', Replaced(x)'
          PROVE  (Within(x, c) /\ \A i \in DOMAIN in.servers[x] : Covered(x, c, i))'
      <3>1. x # s /\ Replaced(x)
        BY <1>3, <1>4, <1>5, <2>1 DEF Replaced, Replacing, Earlier
      <3>2. Identified(x, c)
        BY <1>1, <1>4, <2>1, SameRight
      <3>3. Within(x, c) /\ \A i \in DOMAIN in.servers[x] : Covered(x, c, i)
        BY <1>1, <1>4, <1>8, <2>1, <3>1, <3>2 DEF ReplacedRight
      <3> QED
        BY <1>1, <1>4, <1>6, <3>1, <3>3, StaysRight
    <2> QED
      BY <2>1 DEF ReplacedRight
  <1>9. CurrentRight'
    <2>1. ASSUME NEW x \in services', NEW c \in details', x = at'.service
          PROVE  /\ (Within(x, c) /\ \A i \in DOMAIN in.servers[x] : i < at.server => Covered(x, c, i))'
                 /\ pc' = "bind" => T' = "http"
                 /\ ~(pc' = "network" /\ T' = "http")
                 /\ pc' # "port"
      <3>1. x = s /\ at'.server = 1 /\ DOMAIN in'.servers[x] = 1..Len(in'.servers[x])
        BY <1>1, <1>3, <1>5, <2>1, HandlerAssumption DEF LoopType
      <3>2. \A i \in DOMAIN in'.servers[x] : ~(i < at'.server)
        BY <3>1
      <3> QED
        BY <1>3, <1>4, <1>5, <1>6, <3>1, <3>2 DEF Within
    <2> QED
      BY <2>1 DEF CurrentRight
  <1> QED
    BY <1>1, <1>4, <1>7, <1>8, <1>9 DEF AddressInv

\* The IPs of HTTP, and of the others.
LEMMA HttpIP ==
    ASSUME NEW c, NEW s, c # NotFound
    PROVE  /\ GetKopOverrideBinding(c, s) # Unset => GetKopOverrideBinding(c, s) = RealIP(c, s)
           /\ GetKopOverrideBinding(c, s) = Unset => c.bind[s] = Unset /\ c.bindAll = Unset
           /\ c.bind[s] = Unset /\ c.bindAll = Unset => GetContainerNetworkIP(c, BindIP) = RealIP(c, s)
  BY DEF GetKopOverrideBinding, GetContainerNetworkIP, RealIP

LEMMA OtherIP ==
    ASSUME NEW c \in details \cup {NotFound}, NEW s \in services, s.type # "http", NEW p \in IPs,
           c # NotFound => Belongs(c, s)
    PROVE  /\ GetContainerNetworkIP(c, p) \in IPs
           /\ c # NotFound /\ AsDocumented(c, s) => GetContainerNetworkIP(c, p) = RealIP(c, s)
  <1>1. c # NotFound /\ c.network # Unset => c.network \in OtherNetworks
    BY DEF OtherNetworks
  <1>2. OtherNetworks = {} => p = BindIP
    BY DEF IPs
  <1> QED
    BY <1>1, <1>2 DEF GetContainerNetworkIP, AsDocumented, RealIP, IPs

\* The lookups of the IPs touch no address; they find the service's container.
LEMMA LookupAddresses ==
    ASSUME TypeOK, FilterInv, AddressInv, BindLookup \/ NetworkLookup
    PROVE  AddressInv'
  <1>1. /\ UNCHANGED <<settings, in, services, routers>> /\ ~settings.skip
        /\ LoopType /\ in \in Input /\ details \subseteq Cached
    BY ReplaceFrame
  <1>2. PICK c : /\ Lookup(at.service, c)
                 /\ \/ /\ pc = "bind" /\ UNCHANGED ip
                       /\ LET bind == GetKopOverrideBinding(c, at.service)
                          IN  \/ bind # Unset /\ at' = [at EXCEPT !.ip = bind] /\ pc' = "port"
                              \/ bind = Unset /\ at' = at /\ pc' = "network"
                    \/ /\ pc = "network" /\ pc' = "port"
                       /\ at' = [at EXCEPT !.ip = GetContainerNetworkIP(c, ip)]
                       /\ ip' = IF T = "http" THEN ip ELSE GetContainerNetworkIP(c, ip)
    BY DEF BindLookup, NetworkLookup
  <1>3. UNCHANGED <<addrs, type, todo>> /\ Replacing /\ Replacing' /\ T' = T /\ pc \in {"bind", "network"}
    BY <1>2 DEF BindLookup, NetworkLookup, Replacing, T
  <1>4. PICK s \in services : s = at.service /\ s.type = T
    BY <1>1, <1>3 DEF LoopType, OfType, Replacing
  <1>5. at'.service = s /\ at'.server = at.server
    BY <1>1, <1>2, <1>4 DEF LoopType
  <1>6. \A x : Replaced(x)' <=> Replaced(x)
    BY <1>3, <1>4, <1>5 DEF Replaced, Replacing, Earlier
  <1>7. ASSUME OneSnapshot'
        PROVE  /\ OneSnapshot /\ details' = details
               /\ c \in details \cup {NotFound} /\ (c # NotFound => Belongs(c, s))
               /\ \A d \in details : Identified(s, d) => c = d
    BY <1>1, <1>2, <1>3, <1>4, <1>7, LaterLookup
  <1>8. NotFound \notin details
    BY <1>1, CachedType
  <1>9. Parameter'
    <2>1. T = "http" => ip' = BindIP
      BY <1>2, <1>3 DEF AddressInv, Parameter
    <2>2. ASSUME OneSnapshot'
          PROVE  ip' \in IPs'
      <3>1. ip \in IPs /\ IPs' = IPs
        BY <1>1, <1>3, <1>7, <2>2, SameRight DEF AddressInv, Parameter
      <3>2. s.type # "http" => GetContainerNetworkIP(c, ip) \in IPs
        BY <1>4, <1>7, <2>2, <3>1, OtherIP
      <3> QED
        BY <1>2, <1>4, <3>1, <3>2
    <2> QED
      BY <1>3, <2>1, <2>2 DEF Parameter, Filtering, Replacing
  <1>10. ASSUME OneSnapshot'
         PROVE  ReplacedRight' /\ CurrentRight'
    <2>1. ReplacedRight /\ CurrentRight /\ UNCHANGED <<settings, in, services, details>>
      BY <1>1, <1>7, <1>10 DEF AddressInv
    <2>2. \A x, d : /\ Identified(x, d)' <=> Identified(x, d)
                    /\ AsDocumented(d, x)' <=> AsDocumented(d, x)
                    /\ Within(x, d)' <=> Within(x, d)
                    /\ \A i : Covered(x, d, i)' <=> Covered(x, d, i)
      BY <1>3, <2>1, SameRight, StaysRight
    <2>3. ReplacedRight'
      BY <1>1, <1>6, <2>1, <2>2 DEF ReplacedRight
    <2>4. ASSUME NEW d \in details, Identified(s, d)
          PROVE  /\ pc' # "bind"
                 /\ pc' = "network" /\ T = "http" => d.bind[s] = Unset /\ d.bindAll = Unset
                 /\ pc' = "port" /\ AsDocumented(d, s) => at'.ip = RealIP(d, s)
      <3>1. c = d /\ c # NotFound
        BY <1>7, <1>8, <1>10, <2>4
      <3>2. CASE pc = "bind"
        <4>1. T = "http"
          BY <1>3, <1>4, <2>1, <2>4, <3>2 DEF CurrentRight
        <4> QED
          BY <1>1, <1>2, <1>4, <3>1, <3>2, <4>1, HttpIP DEF LoopType
      <3>3. CASE pc = "network" /\ T = "http"
        <4>1. d.bind[s] = Unset /\ d.bindAll = Unset /\ ip = BindIP
          BY <1>3, <1>4, <2>1, <2>4, <3>3 DEF CurrentRight, AddressInv, Parameter
        <4>2. at'.ip = GetContainerNetworkIP(c, BindIP) /\ pc' = "port"
          BY <1>1, <1>2, <3>3, <4>1 DEF LoopType
        <4> QED
          BY <1>4, <3>1, <3>3, <4>1, <4>2, HttpIP
      <3>4. CASE pc = "network" /\ T # "http"
        <4>1. at'.ip = GetContainerNetworkIP(c, ip) /\ pc' = "port"
          BY <1>1, <1>2, <3>4 DEF LoopType
        <4>2. ip \in IPs
          BY <1>3, <1>7, <1>10 DEF AddressInv, Parameter
        <4> QED
          BY <1>4, <1>7, <1>8, <1>10, <3>1, <3>4, <4>1, <4>2, OtherIP
      <3> QED
        BY <1>3, <3>2, <3>3, <3>4
    <2>5. CurrentRight'
      BY <1>1, <1>3, <1>4, <1>5, <2>1, <2>2, <2>4 DEF CurrentRight
    <2> QED
      BY <2>3, <2>5
  <1> QED
    BY <1>1, <1>9, <1>10 DEF AddressInv

\* A server's address is complete: the IP and the port are of one container.
LEMMA PortLookupAddresses ==
    ASSUME TypeOK, FilterInv, AddressInv, PortLookup
    PROVE  AddressInv'
  <1>1. /\ UNCHANGED <<settings, in, services, routers>> /\ ~settings.skip
        /\ LoopType /\ in \in Input /\ details \subseteq Cached
    BY ReplaceFrame
  <1>2. pc = "port" /\ Replacing /\ UNCHANGED ip
    BY DEF PortLookup, Replacing
  <1>3. PICK s \in services : s = at.service /\ s.type = T /\ at.server \in DOMAIN in.servers[s] /\ ~Earlier(s)
    BY <1>1, <1>2, NotEarlier DEF LoopType, OfType
  <1>4. PICK c : /\ Lookup(s, c)
                 /\ addrs' = [addrs EXCEPT ![s] = @ \cup {<<at.ip, GetContainerPort(c, s, in.servers[s][at.server])>>}]
    BY <1>3 DEF PortLookup
  <1>5. PICK n : n = at.server
    OBVIOUS
  <1> DEFINE new == <<at.ip, GetContainerPort(c, s, in.servers[s][n])>>
  <1>6. DOMAIN in.servers[s] = 1..Len(in.servers[s]) /\ Len(in.servers[s]) \in Nat /\ n \in 1..Len(in.servers[s])
        /\ s \in Service /\ DOMAIN addrs = Service
    BY <1>1, <1>3, <1>5, HandlerAssumption, TypeParts DEF LoopType
  <1>7. addrs'[s] = addrs[s] \cup {new} /\ \A x : x # s => addrs'[x] = addrs[x]
    BY <1>4, <1>5, <1>6
  <1>8. IF n < Len(in.servers[s])
          THEN /\ Replacing' /\ pc' = (IF s.type = "http" THEN "bind" ELSE "network")
               /\ type' = type /\ todo' = todo \ {s} /\ at' = [service |-> s, server |-> n + 1, ip |-> ip]
          ELSE ~Replacing' /\ pc' = "replace" /\ type' = type /\ todo' = todo /\ n = Len(in.servers[s])
    <2>1. IF n < Len(in.servers[s]) THEN ReplaceServer(s, n + 1)
          ELSE Goto("replace", type, todo) /\ at' = Nowhere
      BY <1>3, <1>5 DEF PortLookup
    <2> QED
      BY <1>6, <2>1 DEF ReplaceServer, Goto, Replacing
  <1>9. T' = T
    BY <1>8 DEF T
  <1>10. ASSUME OneSnapshot'
         PROVE  /\ OneSnapshot /\ details' = details
                /\ \A d \in details : Identified(s, d) => c = d
    BY <1>1, <1>2, <1>3, <1>4, <1>10, LaterLookup
  <1>11. Parameter'
    <2>1. OneSnapshot' => IPs' = IPs
      BY <1>1, <1>10, SameRight
    <2> QED
      BY <1>2, <1>8, <1>9, <1>10, <2>1 DEF AddressInv, Parameter, Filtering, Replacing
  <1>12. ASSUME OneSnapshot'
         PROVE  ReplacedRight' /\ CurrentRight'
    <2>1. ReplacedRight /\ CurrentRight /\ UNCHANGED <<settings, in, services, details>>
      BY <1>1, <1>10, <1>12 DEF AddressInv
    <2>2. \A x, d : /\ Identified(x, d)' <=> Identified(x, d)
                    /\ \A a, i : RealAddress(a, x, d, i)' <=> RealAddress(a, x, d, i)
      BY <2>1, SameRight
    <2>3. ASSUME NEW d \in details, Identified(s, d)
          PROVE  Within(s, d)' /\ \A i \in 1..n : Covered(s, d, i)'
      <3>1. Within(s, d) /\ (\A i \in 1..(n - 1) : Covered(s, d, i)) /\ (AsDocumented(d, s) => at.ip = RealIP(d, s))
        BY <1>2, <1>3, <1>5, <1>6, <2>1, <2>3 DEF CurrentRight
      <3>2. c = d /\ d \in Cached
        BY <1>1, <1>10, <1>12, <2>3
      <3>3. PICK a : a = new
        OBVIOUS
      <3>4. RealAddress(a, s, d, n) /\ addrs'[s] = addrs[s] \cup {a}
        BY <1>1, <1>7, <3>1, <3>2, <3>3, ContainerPortReal DEF RealAddress
      <3> HIDE DEF new
      <3>5. Within(s, d)'
        BY <1>6, <2>1, <2>2, <3>1, <3>4 DEF Within
      <3>6. \A i \in 1..(n - 1) : Covered(s, d, i)'
        BY <2>2, <3>1, <3>4 DEF Covered
      <3>7. Covered(s, d, n)'
        BY <2>2, <3>4 DEF Covered
      <3>8. 1..n = 1..(n - 1) \cup {n}
        BY <1>6
      <3> QED
        BY <3>5, <3>6, <3>7, <3>8
    <2>4. ASSUME NEW x \in services', NEW d \in details', Identified(x, d)', Replaced(x)'
          PROVE  (Within(x, d) /\ \A i \in DOMAIN in.servers[x] : Covered(x, d, i))'
      <3>1. CASE x = s
        <4>1. n = Len(in.servers[s])
          BY <1>3, <1>8, <2>4, <3>1 DEF Replaced, Replacing, Earlier
        <4> QED
          BY <1>6, <2>1, <2>2, <2>3, <2>4, <3>1, <4>1
      <3>2. CASE x # s
        <4>1. Replaced(x)
          BY <1>2, <1>3, <1>8, <1>9, <2>4, <3>2 DEF Replaced, Replacing, Earlier
        <4>2. Within(x, d) /\ \A i \in DOMAIN in.servers[x] : Covered(x, d, i)
          BY <1>1, <2>1, <2>2, <2>4, <4>1 DEF ReplacedRight
        <4> QED
          BY <1>7, <2>1, <3>2, <4>2, StaysRight
      <3> QED
        BY <3>1, <3>2
    <2>5. ReplacedRight'
      BY <2>4 DEF ReplacedRight
    <2>6. ASSUME Replacing', NEW x \in services', NEW d \in details', x = at'.service, Identified(x, d)'
          PROVE  /\ (Within(x, d) /\ \A i \in DOMAIN in.servers[x] : i < at.server => Covered(x, d, i))'
                 /\ pc' = "bind" => T' = "http"
                 /\ ~(pc' = "network" /\ T' = "http")
                 /\ pc' # "port"
      <3>1. x = s /\ at'.server = n + 1
        BY <1>8, <2>6
      <3>2. \A i \in DOMAIN in'.servers[x] : i < at'.server => i \in 1..n
        BY <1>6, <2>1, <3>1
      <3> QED
        BY <1>3, <1>8, <1>9, <2>1, <2>2, <2>3, <2>6, <3>1, <3>2
    <2>7. CurrentRight'
      BY <2>6 DEF CurrentRight
    <2> QED
      BY <2>5, <2>7
  <1> QED
    BY <1>1, <1>11, <1>12 DEF AddressInv

\* The next protocol, or the end of replaceIPs: every service that is left has
\* been replaced.
LEMMA ReplaceDoneAddresses ==
    ASSUME TypeOK, AddressInv, ReplaceDone
    PROVE  AddressInv'
  <1>1. /\ UNCHANGED <<settings, in, services, routers>> /\ ~settings.skip
        /\ LoopType /\ in \in Input
    BY ReplaceFrame
  <1>2. pc = "replace" /\ todo = {} /\ UNCHANGED <<docker, addrs, ip, at, faults>>
        /\ IF type < 3 THEN Goto("replace", type + 1, OfType(services, Types[type + 1]))
           ELSE Goto("merge", 1, OfType(services, "http"))
    BY TypesAre DEF ReplaceDone
  <1>3. type \in 1..3 /\ details' = details /\ (OneSnapshot' <=> OneSnapshot) /\ IPs' = IPs
    BY <1>1, <1>2, NothingHappens, SameRight DEF LoopType, docker
  <1>4. Parameter'
    BY <1>2, <1>3, TypesAre DEF AddressInv, Parameter, Goto, Filtering, Replacing, T
  <1>5. \A x \in services : Replaced(x)' => Replaced(x)
    <2>1. CASE type < 3
      <3>1. pc' = "replace" /\ type' = type + 1 /\ todo' = OfType(services, T')
        BY <1>2, <2>1 DEF Goto, T
      <3>2. 1..(type' - 1) = 1..(type - 1) \cup {type}
        BY <1>3, <3>1
      <3>3. \A x : Earlier(x)' => Earlier(x) \/ x.type = T
        BY <3>2 DEF Earlier, T
      <3> QED
        BY <1>2, <3>1, <3>3 DEF Replaced, Replacing, OfType
    <2>2. CASE type = 3
      <3>1. \A x \in services : x.type \in {Types[1], Types[2], Types[3]}
        BY <1>1, TypesAre, HandlerAssumption DEF LoopType
      <3>2. \A x \in services : Earlier(x) \/ x.type = T
        BY <2>2, <3>1 DEF Earlier, T
      <3> QED
        BY <1>2, <3>2 DEF Replaced
    <2> QED
      BY <1>3, <2>1, <2>2
  <1>6. \A x, d : /\ Identified(x, d)' <=> Identified(x, d)
                  /\ Within(x, d)' <=> Within(x, d)
                  /\ \A i : Covered(x, d, i)' <=> Covered(x, d, i)
    BY <1>1, <1>2, <1>3, SameRight, StaysRight
  <1>7. ReplacedRight => ReplacedRight'
    BY <1>1, <1>3, <1>5, <1>6 DEF ReplacedRight
  <1>8. CurrentRight'
    BY <1>2 DEF CurrentRight, Replacing, Goto
  <1> QED
    BY <1>1, <1>3, <1>4, <1>7, <1>8 DEF AddressInv

\* The merge adds what Redis had.
LEMMA MergeAddresses ==
    ASSUME TypeOK, FilterInv, AddressInv, MergeService \/ MergeDone
    PROVE  AddressInv'
  <1>1. UNCHANGED <<settings, in, services, routers>> /\ LoopType /\ in \in Input /\ DOMAIN addrs = Service
    BY ReplaceLoopStep, TypeParts
  <1>2. pc = "merge" /\ pc' \in {"merge", "store"}
    BY DEF MergeService, MergeDone, Goto
  <1>3. OneSnapshot' => OneSnapshot /\ details' = details
    <2>1. CASE MergeDone
      BY <2>1, NothingHappens DEF MergeDone, docker
    <2>2. CASE MergeService
      <3>1. PICK s \in todo, c \in Found : Lookup(s, c)
        BY <2>2 DEF MergeService
      <3>2. s \in services
        BY <1>1, <1>2, <3>1 DEF LoopType, OfType
      <3> QED
        BY <1>1, <1>2, <3>1, <3>2, LaterLookup
    <2> QED
      BY <2>1, <2>2
  <1>4. \A x \in services : addrs[x] \subseteq addrs'[x] /\ addrs'[x] \ Peers \subseteq addrs[x]
    <2>1. \/ addrs' = addrs
          \/ \E s \in todo : \E existing \in SUBSET Peers : addrs' = [addrs EXCEPT ![s] = @ \cup existing]
      BY DEF MergeService, MergeDone
    <2>2. services \subseteq Service
      BY <1>1, HandlerAssumption DEF LoopType
    <2> QED
      BY <1>1, <2>1, <2>2
  <1>5. Parameter' /\ CurrentRight'
    BY <1>2 DEF Parameter, CurrentRight, Filtering, Replacing
  <1>6. settings.skip => Skipped'
    <2>1. \A x \in in.services : addrs[x] \subseteq addrs'[x] /\ addrs'[x] \ Peers \subseteq addrs[x] \ Peers
      <3>1. \/ addrs' = addrs
            \/ \E s \in todo : \E existing \in SUBSET Peers : addrs' = [addrs EXCEPT ![s] = @ \cup existing]
        BY DEF MergeService, MergeDone
      <3>2. in.services \subseteq Service
        BY <1>1, HandlerAssumption
      <3> QED
        BY <1>1, <3>1, <3>2
    <2>2. \A x : Native(in', x) = Native(in, x)
      BY <1>1
    <2> QED
      BY <1>1, <1>2, <2>1, <2>2 DEF AddressInv, Skipped, Replacing
  <1>7. ASSUME ~settings.skip, OneSnapshot'
        PROVE  ReplacedRight'
    <2>1. ReplacedRight /\ UNCHANGED <<settings, in, services, details>>
      BY <1>1, <1>3, <1>7 DEF AddressInv
    <2>2. ASSUME NEW x \in services, NEW d \in details, Identified(x, d)
          PROVE  (Within(x, d) /\ \A i \in DOMAIN in.servers[x] : Covered(x, d, i))'
      <3>1. Within(x, d) /\ \A i \in DOMAIN in.servers[x] : Covered(x, d, i)
        BY <1>2, <2>1, <2>2 DEF ReplacedRight, Replaced
      <3>2. \A a, i : RealAddress(a, x, d, i)' <=> RealAddress(a, x, d, i)
        BY <2>1, SameRight
      <3>3. Within(x, d)'
        BY <1>4, <2>1, <3>1, <3>2 DEF Within
      <3>4. \A i \in DOMAIN in.servers[x] : Covered(x, d, i)'
        BY <1>4, <3>1, <3>2 DEF Covered
      <3> QED
        BY <2>1, <3>3, <3>4
    <2>3. \A x, d : Identified(x, d)' <=> Identified(x, d)
      BY <2>1, SameRight
    <2> QED
      BY <1>1, <2>1, <2>2, <2>3 DEF ReplacedRight
  <1> QED
    BY <1>1, <1>5, <1>6, <1>7 DEF AddressInv

LEMMA AddressStep ==
    ASSUME TypeOK, FilterInv, AddressInv, [Next]_vars
    PROVE  AddressInv'
  <1>1. CASE UNCHANGED vars
    BY <1>1, NothingHappens, NothingReplaced DEF vars, docker
  <1> QED
    BY <1>1, FaultAddresses, BeginAddresses, FilterAddresses, ReplaceServiceAddresses, LookupAddresses,
       PortLookupAddresses, ReplaceDoneAddresses, MergeAddresses DEF Next, Handle

LEMMA AddressInvariant == Spec => []AddressInv
  <1>1. Init => AddressInv
    BY DEF Init, AddressInv, Parameter, Skipped, ReplacedRight, CurrentRight, Replaced, Filtering, Replacing
  <1>2. TypeOK /\ FilterInv /\ AddressInv /\ [Next]_vars => AddressInv'
    BY AddressStep
  <1> QED
    BY <1>1, <1>2, TypeCorrect, FilterInvariant, PTL DEF Spec

\* Every server of every service that is stored is there, at the port that its own
\* container's labels and port maps give it and, but where TCP and UDP do not do as
\* documented, at the IP that its own container's labels give it, whichever services
\* replaceIPs came to before it; and nothing else is, but what the merge has read
\* from Redis.
THEOREM AddressesHold == Spec => []ServersReal
  <1>1. ASSUME TypeOK, AddressInv
        PROVE  ServersReal
    <2>1. SUFFICES ASSUME Checked, NEW s \in services, NEW c \in details, Identified(s, c)
                   PROVE  /\ \A i \in DOMAIN in.servers[s] : \E a \in addrs[s] : RealAddress(a, s, c, i)
                          /\ \A a \in addrs[s] \ Peers :
                                \E i \in DOMAIN in.servers[s] : RealAddress(a, s, c, i)
      BY DEF ServersReal
    <2>2. pc = "store" /\ OneSnapshot /\ s \in in.services
      BY <1>1, <2>1, TypeParts DEF Checked, LoopType
    <2>3. CASE settings.skip
      <3>1. Native(in, s) \subseteq addrs[s] /\ addrs[s] \ Peers \subseteq Native(in, s)
        BY <1>1, <2>2, <2>3 DEF AddressInv, Skipped
      <3>2. \A a, i : RealAddress(a, s, c, i) <=> a = <<LocalIP, in.servers[s][i]>>
        BY <2>3 DEF RealAddress
      <3> QED
        BY <3>1, <3>2 DEF Native
    <2>4. CASE ~settings.skip
      BY <1>1, <2>1, <2>2, <2>4 DEF AddressInv, ReplacedRight, Replaced, Within, Covered
    <2> QED
      BY <2>3, <2>4
  <1> QED
    BY <1>1, TypeCorrect, AddressInvariant, PTL
===============================================================================
