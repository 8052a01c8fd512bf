------------------------------ MODULE DockerProxy ------------------------------
(***************************************************************************)
(* The Docker API proxy of traefik-kop (docker_proxy.go) and the Docker    *)
(* daemon behind it.                                                       *)
(*                                                                         *)
(* Traefik's Docker provider talks to the proxy, which strips the label    *)
(* prefix and hides the containers that are not to be exposed, both when   *)
(* containers are listed and in the stream of events.  The provider only   *)
(* lists the containers again when an event reaches it, so an event that   *)
(* is dropped for a container that a listing shows is a change lost.       *)
(***************************************************************************)
EXTENDS Integers, Sequences, FiniteSets

CONSTANTS
    Container,        \* the containers that may run
    Labels,           \* the labels of each container, a function from LabelKey
    LabelName,        \* the names of labels without the prefix
    TraefikName,      \* those of them that begin with "traefik."
    LabelValue,       \* the values of labels
    LabelPrefix,      \* a prefix is configured (createProxy adds its dot)
    ExposedByDefault, \* the provider's setting
    Initially,        \* the containers that run when traefik-kop starts
    MaxChanges,       \* bound on the containers started and stopped
    MaxFaults         \* bound on the number of faults of a behaviour

LabelKey == [prefixed : BOOLEAN, name : LabelName]

ASSUME ProxyAssumption ==
    /\ DOMAIN Labels = Container
    /\ \A c \in Container : \A k \in DOMAIN Labels[c] : k \in LabelKey /\ Labels[c][k] \in LabelValue
    /\ TraefikName \subseteq LabelName
    /\ "traefik.enable" \in TraefikName
    /\ LabelPrefix \in BOOLEAN
    /\ ExposedByDefault \in BOOLEAN
    /\ Initially \subseteq Container
    /\ MaxChanges \in Nat
    /\ MaxFaults \in Nat

VARIABLES
    running,  \* Docker: the containers that run
    upstream, \* events that Docker has sent and handleEvents has not read
    pushed,   \* events that handleEvents has written and the client has not read
    stream,   \* the event stream between the client and the proxy
    changes,  \* the number of containers started and stopped so far
    faults    \* the number of faults so far

events == <<upstream, pushed, stream>>
proxyVars == <<running, events, changes, faults>>

-------------------------------------------------------------------------------
\* filterLabels: a label with the prefix loses it, other "traefik." labels are
\* dropped, the rest is kept.  When two labels end up with one name, the order
\* of Go's map decides.
FilterLabels(labels) ==
    LET strip(k) == [k EXCEPT !.prefixed = FALSE]
        kept == {k \in DOMAIN labels : k.prefixed \/ k.name \notin TraefikName}
    IN  IF LabelPrefix
          THEN {new \in [{strip(k) : k \in kept} -> LabelValue] :
                   \A n \in DOMAIN new : \E k \in kept : strip(k) = n /\ new[n] = labels[k]}
          ELSE {labels}

\* shouldExpose: traefik.enable decides when it is there and parses.
ShouldExpose(labels) ==
    LET enable == [prefixed |-> FALSE, name |-> "traefik.enable"]
    IN  IF enable \in DOMAIN labels /\ labels[enable] \in {"true", "false"}
          THEN labels[enable] = "true"
          ELSE ExposedByDefault

\* handleContainersList keeps container c.
Listed(c) == \E labels \in FilterLabels(Labels[c]) : ShouldExpose(labels)

\* What handleContainersList answers.
Listing == {c \in running : Listed(c)}

\* Mutant: the labels of an event are looked at before the prefix is stripped.
ForwardsUnfiltered(c) == ShouldExpose(Labels[c])

\* handleEvents passes on an event of container c.
Forwards(c) == \E labels \in FilterLabels(Labels[c]) : ShouldExpose(labels)

-------------------------------------------------------------------------------
ProxyInit ==
    /\ running = Initially
    /\ upstream = <<>>
    /\ pushed = <<>>
    /\ stream = "closed"
    /\ changes = 0
    /\ faults = 0

NoFault == UNCHANGED faults

Fault ==
    /\ faults < MaxFaults
    /\ faults' = faults + 1

\* A container starts or stops.  Docker tells the streams that are open.
Change(c) ==
    /\ changes < MaxChanges
    /\ changes' = changes + 1
    /\ running' = IF c \in running THEN running \ {c} ELSE running \cup {c}

ContainerChanges(c) ==
    /\ Change(c)
    /\ NoFault
    /\ upstream' = IF stream = "open" THEN Append(upstream, c) ELSE upstream
    /\ UNCHANGED <<pushed, stream>>

\* "In some circumstances, a change may not be pushed correctly."
ChangesSilently(c) ==
    /\ Change(c)
    /\ Fault
    /\ UNCHANGED events

\* handleEvents: the next event is passed on, or dropped with its container.
HandleEvent ==
    /\ stream = "open"
    /\ upstream # <<>>
    /\ upstream' = Tail(upstream)
    /\ pushed' = IF Forwards(Head(upstream)) THEN Append(pushed, Head(upstream)) ELSE pushed
    /\ UNCHANGED <<running, stream, changes, faults>>

\* handleEvents: Docker's stream ends with an error.  What it had not delivered
\* is lost, and so is the stream to the client once it has read the rest.
UpstreamError ==
    /\ stream = "open"
    /\ Fault
    /\ stream' = "broken"
    /\ upstream' = <<>>
    /\ UNCHANGED <<running, pushed, changes>>

ProxyTypeOK ==
    /\ running \subseteq Container
    /\ upstream \in Seq(Container)
    /\ pushed \in Seq(Container)
    /\ stream \in {"closed", "open", "broken"}
    /\ changes \in 0..MaxChanges
    /\ faults \in 0..MaxFaults
===============================================================================
