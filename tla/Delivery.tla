------------------------------- MODULE Delivery -------------------------------
(***************************************************************************)
(* How a change of the containers reaches Redis: the two Docker providers, *)
(* the poller around the second one (polling_provider.go), the             *)
(* configuration watcher and its listeners (configuration_watcher.go) and  *)
(* the configuration handler (traefik_kop.go), over the Docker API proxy.  *)
(*                                                                         *)
(* multi_provider.go starts both providers on one channel.  The watching   *)
(* one lists the containers, sends the configuration, subscribes to the    *)
(* events and lists again for each event that reaches it.  The polling one *)
(* is started anew at every tick.  Traefik's watcher drains the channel,   *)
(* drops what it already has, and hands the newest configuration to the    *)
(* listeners, one at a time: the first removes the default entry point     *)
(* that the watcher put in, the second is the configuration handler, which *)
(* panics when Store fails.  Traefik's parts are external: they are        *)
(* modelled as far as the code depends on them.                            *)
(***************************************************************************)
EXTENDS DockerProxy

CONSTANTS
    EntryPoints,       \* the entry points that each router of a container asks for
    DefaultEntryPoint, \* "traefik-kop-default-internal"
    None,              \* no configuration
    ChanCap            \* bound on the configurations in the channel

ASSUME DeliveryAssumption ==
    /\ \A c \in Container :
          /\ EntryPoints[c] = [r \in DOMAIN EntryPoints[c] |-> EntryPoints[c][r]]
          /\ \A r \in DOMAIN EntryPoints[c] : EntryPoints[c][r] # <<DefaultEntryPoint>>
    /\ None \notin {[c \in S |-> EntryPoints[c]] : S \in SUBSET Container}
    /\ ChanCap \in Nat \ {0}

VARIABLES
    docker,   \* "up", or "hung": Docker does not answer
    missed,   \* a change since the last listing of the watching provider was not pushed
    watch,    \* the watching provider: where it is, and what it has listed
    polling,  \* KOP_POLL_INTERVAL is not 0
    poller,   \* the loop of PollingProvider.Provide
    live,     \* the polling attempts whose goroutine runs
    chan,     \* the channel of configurations
    latest,   \* the watcher's newest configuration
    handled,  \* what the configuration handler was given last
    handler,  \* "idle", "store" or "dead"
    stored    \* what the handler has stored

deliveryVars == <<docker, missed, watch, polling, poller, live, chan, latest, handled, handler, stored>>
all == <<proxyVars, deliveryVars>>

-------------------------------------------------------------------------------
\* What a provider makes of a listing: the routers of each container.
Config(listing) == [c \in listing |-> EntryPoints[c]]

\* conf with the entry points `from` of a router replaced by `to`.
Replace(conf, from, to) ==
    [c \in DOMAIN conf |-> [r \in DOMAIN conf[c] |-> IF conf[c][r] = from THEN to ELSE conf[c][r]]]

\* The watcher gives routers without entry points the default one.
WithDefault(conf) == Replace(conf, <<>>, <<DefaultEntryPoint>>)

\* Mutant: no listener takes it away.
KeepDefault(conf) == conf

\* The listener of newConfigurationWatcher takes it away again.
StripDefault(conf) == Replace(conf, <<DefaultEntryPoint>>, <<>>)

\* The listing a provider gets now, and how recent it is.
Now == [listing |-> Listing, at |-> changes]

\* The configuration of listing m on its way to the watcher.
Send(m) ==
    /\ Len(chan) < ChanCap
    /\ chan' = Append(chan, [conf |-> Config(m.listing), at |-> m.at])

\* The age does not matter for the watching provider.
Ageless == 0 - 1
Nothing == [listing |-> {}, at |-> Ageless]

DeliveryInit ==
    /\ ProxyInit
    /\ docker = "up"
    /\ missed = FALSE
    /\ watch = [pc |-> "list", last |-> Nothing]
    /\ polling \in BOOLEAN
    /\ poller = "wait"
    /\ live = {}
    /\ chan = <<>>
    /\ latest = None
    /\ handled = None
    /\ handler = "idle"
    /\ stored = None

-------------------------------------------------------------------------------
(***************************************************************************)
(* Docker and the proxy.                                                   *)
(***************************************************************************)
downstream == <<watch, polling, poller, live, chan, latest, handled, handler, stored>>

Docker ==
    \/ /\ \E c \in Container : ContainerChanges(c)
       /\ missed' = (missed \/ stream # "open")
       /\ UNCHANGED <<docker, downstream>>
    \/ /\ \E c \in Container : ChangesSilently(c)
       /\ missed' = TRUE
       /\ UNCHANGED <<docker, downstream>>
    \/ UpstreamError /\ UNCHANGED deliveryVars
    \/ /\ docker = "up" /\ Fault /\ docker' = "hung"
       /\ UNCHANGED <<running, events, changes, missed, downstream>>

DockerAnswers ==
    /\ docker = "hung"
    /\ docker' = "up"
    /\ UNCHANGED <<proxyVars, missed, downstream>>

Proxy == HandleEvent /\ UNCHANGED deliveryVars

-------------------------------------------------------------------------------
(***************************************************************************)
(* The watching provider (Traefik).                                        *)
(***************************************************************************)
restOfWatch == <<docker, polling, poller, live, latest, handled, handler, stored>>

\* It lists the containers: at first, after its stream broke, or for an event.
\* A listing for an event that fails is given up.
WatchList(from, to) ==
    /\ watch.pc = from
    /\ docker = "up"
    /\ \/ /\ NoFault
          /\ watch' = [pc |-> to, last |-> [Now EXCEPT !.at = Ageless]]
          /\ missed' = FALSE
       \/ /\ from = "relist"
          /\ Fault
          /\ watch' = [watch EXCEPT !.pc = "watch"]
          /\ missed' = TRUE
    /\ UNCHANGED <<running, events, changes, chan, restOfWatch>>

WatchSend(from, to) ==
    /\ watch.pc = from
    /\ Send(watch.last)
    /\ watch' = [watch EXCEPT !.pc = to]
    /\ UNCHANGED <<proxyVars, missed, restOfWatch>>

\* handleEvents begins: events from now on are pushed.
WatchSubscribe ==
    /\ watch.pc = "subscribe"
    /\ docker = "up"
    /\ watch' = [watch EXCEPT !.pc = "watch"]
    /\ stream' = "open"
    /\ UNCHANGED <<running, upstream, pushed, changes, faults, missed, chan, restOfWatch>>

WatchEvent ==
    /\ watch.pc = "watch"
    /\ pushed # <<>>
    /\ pushed' = Tail(pushed)
    /\ watch' = [watch EXCEPT !.pc = "relist"]
    /\ UNCHANGED <<running, upstream, stream, changes, faults, missed, chan, restOfWatch>>

\* The stream has ended: all over again.
WatchRetry ==
    /\ watch.pc = "watch"
    /\ stream = "broken"
    /\ pushed = <<>>
    /\ stream' = "closed"
    /\ watch' = [watch EXCEPT !.pc = "list"]
    /\ UNCHANGED <<running, upstream, pushed, changes, faults, missed, chan, restOfWatch>>

WatchingProvider ==
    \/ WatchList("list", "send") \/ WatchSend("send", "subscribe") \/ WatchSubscribe
    \/ WatchEvent \/ WatchList("relist", "resend") \/ WatchSend("resend", "watch")
    \/ WatchRetry

-------------------------------------------------------------------------------
(***************************************************************************)
(* The polling provider.                                                   *)
(***************************************************************************)
restOfPoll == <<docker, missed, watch, polling, latest, handled, handler, stored>>

\* Mutant: the previous attempt is waited for, and not cancelled.
TickWithoutCancel ==
    /\ polling
    /\ poller = "wait"
    /\ poller' = "stop"
    /\ UNCHANGED <<proxyVars, live, chan, restOfPoll>>

\* A tick: startPollAttempt cancels the previous attempt...
Tick ==
    /\ polling
    /\ poller = "wait"
    /\ poller' = "stop"
    /\ live' = {[a EXCEPT !.cancelled = TRUE] : a \in live}
    /\ UNCHANGED <<proxyVars, chan, restOfPoll>>

NewAttempt == [pc |-> "list", last |-> Nothing, cancelled |-> FALSE]

\* Mutant: Stop does not wait for the previous attempt.
StartAtOnce ==
    /\ poller = "stop"
    /\ live' = live \cup {NewAttempt}
    /\ poller' = "keep"
    /\ UNCHANGED <<proxyVars, chan, restOfPoll>>

\* Mutant: the ticks only renew.
StartNothing ==
    /\ poller = "stop"
    /\ live = {}
    /\ poller' = "keep"
    /\ UNCHANGED <<proxyVars, live, chan, restOfPoll>>

\* ... waits until it has ended, and starts a new one.
StartAttempt ==
    /\ poller = "stop"
    /\ live = {}
    /\ live' = {NewAttempt}
    /\ poller' = "keep"
    /\ UNCHANGED <<proxyVars, chan, restOfPoll>>

\* The loop calls KeepConfAlive, which RedisStore describes.
KeepConfAlive ==
    /\ poller = "keep"
    /\ poller' = "wait"
    /\ UNCHANGED <<proxyVars, live, chan, restOfPoll>>

\* An attempt lists the containers (again and again while Docker fails)...
AttemptList(a) ==
    /\ a.pc = "list"
    /\ docker = "up"
    /\ live' = (live \ {a}) \cup {[a EXCEPT !.pc = "send", !.last = Now]}
    /\ UNCHANGED <<proxyVars, poller, chan, restOfPoll>>

\* ... sends the configuration, also when it was cancelled since, and ends.
AttemptSend(a) ==
    /\ a.pc = "send"
    /\ Send(a.last)
    /\ live' = live \ {a}
    /\ UNCHANGED <<proxyVars, poller, restOfPoll>>

AttemptCancelled(a) ==
    /\ a.cancelled
    /\ a.pc = "list"
    /\ live' = live \ {a}
    /\ UNCHANGED <<proxyVars, poller, chan, restOfPoll>>

Attempt == \E a \in live : AttemptList(a) \/ AttemptSend(a) \/ AttemptCancelled(a)

-------------------------------------------------------------------------------
(***************************************************************************)
(* The configuration watcher (Traefik) and its listeners.                  *)
(***************************************************************************)
restOfWatcher == <<docker, missed, watch, polling, poller, live>>

\* Messages come from one provider by name: a newer one replaces the last.
ReceiveConfiguration ==
    /\ chan # <<>>
    /\ chan' = Tail(chan)
    /\ latest' = Head(chan).conf
    /\ UNCHANGED <<proxyVars, handled, handler, stored, restOfWatcher>>

\* The watcher hands its configuration to the listeners, unless they had it last.
ApplyConfiguration ==
    /\ handler = "idle"
    /\ latest # handled
    /\ handled' = latest
    /\ handler' = "store"
    /\ UNCHANGED <<proxyVars, chan, latest, stored, restOfWatcher>>

\* The configuration handler: Store returns, or fails and the handler panics.
HandleConfiguration ==
    /\ handler = "store"
    /\ \/ /\ NoFault
          /\ stored' = StripDefault(WithDefault(handled))
          /\ handler' = "idle"
       \/ /\ Fault
          /\ handler' = "dead"
          /\ UNCHANGED stored
    /\ UNCHANGED <<running, events, changes, chan, latest, handled, restOfWatcher>>

-------------------------------------------------------------------------------
DeliveryNext ==
    \/ Docker \/ DockerAnswers \/ Proxy
    \/ WatchingProvider
    \/ Tick \/ StartAttempt \/ KeepConfAlive \/ Attempt
    \/ ReceiveConfiguration \/ ApplyConfiguration \/ HandleConfiguration

\* Goroutines that can go on do, and the ticker ticks.  Nothing makes Docker
\* answer; when it does it is not slower than the poll interval each time, so
\* that some attempts have listed the containers before they are cancelled.
Fairness ==
    /\ WF_all(Proxy)
    /\ WF_all(WatchingProvider)
    /\ WF_all(Tick) /\ WF_all(StartAttempt) /\ WF_all(KeepConfAlive)
    /\ WF_all(Attempt) /\ SF_all(\E a \in live : AttemptList(a))
    /\ WF_all(ReceiveConfiguration)
    /\ WF_all(ApplyConfiguration)
    /\ WF_all(HandleConfiguration)

DeliverySpec == DeliveryInit /\ [][DeliveryNext]_all /\ Fairness

-------------------------------------------------------------------------------
(***************************************************************************)
(* Properties.                                                             *)
(***************************************************************************)
Age == 0..MaxChanges \cup {Ageless}

Message == [conf : {Config(S) : S \in SUBSET Container}, at : Age]

Listings == [listing : SUBSET Container, at : Age]

TypeOK ==
    /\ ProxyTypeOK
    /\ docker \in {"up", "hung"}
    /\ missed \in BOOLEAN
    /\ watch \in [pc : {"list", "send", "subscribe", "watch", "relist", "resend"}, last : Listings]
    /\ polling \in BOOLEAN
    /\ poller \in {"wait", "stop", "keep"}
    /\ live \subseteq [pc : {"list", "send"}, last : Listings, cancelled : BOOLEAN]
    /\ chan \in Seq(Message)
    /\ Len(chan) <= ChanCap
    /\ {latest, handled, stored} \subseteq {None} \cup {m.conf : m \in Message}
    /\ handler \in {"idle", "store", "dead"}

\* The proxy's two filters agree: while the stream is open and Docker pushes
\* everything, a watching provider whose listing is out of date has an event
\* before it, so that it will list again.
NoMissedChange ==
    watch.pc = "watch" /\ stream = "open" /\ ~missed =>
        \/ watch.last.listing = Listing
        \/ pushed # <<>>
        \/ \E i \in DOMAIN upstream : Forwards(upstream[i])

\* Polling never goes back: no attempt, cancelled or not, still has to send a
\* listing older than one that another attempt has sent.
PollsInOrder ==
    \A a \in live : \A i \in DOMAIN chan : a.pc = "send" => chan[i].at <= a.last.at

\* The poller renews the configuration in Redis again and again, also while
\* Docker does not answer and its attempts hang.
PollerRenews == []polling => []<>(poller = "keep")

InRedis == stored = Config(Listing)

DockerRecovers == <>[](docker = "up")

\* Once containers stop changing, Redis comes to hold what the running ones ask
\* for, for good, when the poller is there to see what was not pushed or when
\* nothing is missed, and unless a failed Store has ended the handler.
EventuallyStored ==
    DockerRecovers /\ <>[](polling \/ ~missed) /\ []<>(handler # "dead") => <>[]InRedis

\* "As a failsafe, there is an additional polling mechanism to detect those
\* missed changes": with polling, Redis comes to hold what the containers ask for.
PollingIsFailsafe == DockerRecovers /\ []polling => <>[]InRedis
===============================================================================
