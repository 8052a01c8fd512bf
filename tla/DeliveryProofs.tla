---------------------------- MODULE DeliveryProofs ----------------------------
(***************************************************************************)
(* What holds of the way from Docker to the store for any containers,      *)
(* labels and entry points: the types, that no change is missed while the  *)
(* stream of events is open (NoMissedChange), and that polling never goes  *)
(* back (PollsInOrder).                                                    *)
(***************************************************************************)
EXTENDS Delivery, SequenceTheorems, TLAPS

USE ProxyAssumption, DeliveryAssumption

-------------------------------------------------------------------------------
\* The default entry point that the watcher puts in is taken out again, and no
\* entry point of a container with it: the store gets what the labels ask for.
LEMMA DefaultStripped ==
    ASSUME NEW S \in SUBSET Container
    PROVE  StripDefault(WithDefault(Config(S))) = Config(S)
  <1> DEFINE with == WithDefault(Config(S))
             strip == StripDefault(with)
  <1>1. /\ DOMAIN with = S
        /\ \A c \in S : with[c] = [r \in DOMAIN EntryPoints[c] |->
              IF EntryPoints[c][r] = <<>> THEN <<DefaultEntryPoint>> ELSE EntryPoints[c][r]]
    BY DEF WithDefault, Replace, Config
  <1>2. strip = [c \in S |-> [r \in DOMAIN with[c] |->
              IF with[c][r] = <<DefaultEntryPoint>> THEN <<>> ELSE with[c][r]]]
    BY <1>1 DEF StripDefault, Replace
  <1>3. ASSUME NEW c \in S
        PROVE  strip[c] = EntryPoints[c]
    <2>1. ASSUME NEW r \in DOMAIN EntryPoints[c]
          PROVE  (IF with[c][r] = <<DefaultEntryPoint>> THEN <<>> ELSE with[c][r]) = EntryPoints[c][r]
      <3>1. with[c][r] = IF EntryPoints[c][r] = <<>> THEN <<DefaultEntryPoint>> ELSE EntryPoints[c][r]
        BY <1>1, <2>1
      <3>2. EntryPoints[c][r] # <<DefaultEntryPoint>>
        BY <2>1
      <3> HIDE DEF with
      <3> QED
        BY <3>1, <3>2
    <2>2. strip[c] = [r \in DOMAIN EntryPoints[c] |-> EntryPoints[c][r]]
      BY <1>1, <1>2, <2>1
    <2> QED
      BY <2>2
  <1> QED
    BY <1>2, <1>3 DEF Config

\* The proxy passes on the events of the containers that its listings show.
LEMMA FiltersAgree == \A c : Forwards(c) <=> Listed(c)
  BY DEF Forwards, Listed

\* A change of a container that listings do not show leaves them the same.
LEMMA ListingChanges ==
    ASSUME NEW c, Change(c), ~Listed(c)
    PROVE  Listing' = Listing
  <1>1. \A d \in running' : d # c => d \in running
    BY DEF Change
  <1>2. \A d \in running : d # c => d \in running'
    BY DEF Change
  <1> QED
    BY <1>1, <1>2 DEF Listing

-------------------------------------------------------------------------------
(***************************************************************************)
(* Types.                                                                  *)
(***************************************************************************)
Confs == {Config(S) : S \in SUBSET Container}

\* The handler is only ever given configurations.
HandlerInv ==
    /\ latest = None => handled = None
    /\ handler = "store" => handled # None

Provided == [pc : {"list", "send"}, last : Listings, cancelled : BOOLEAN]

Watcher == [pc : {"list", "send", "subscribe", "watch", "relist", "resend"}, last : Listings]

\* Configurations are what messages carry, and no configuration is None.
LEMMA ConfsCarried ==
    /\ {m.conf : m \in Message} = Confs
    /\ None \notin Confs
  <1>1. ASSUME NEW conf \in Confs
        PROVE  \E m \in Message : conf = m.conf
    <2>1. [conf |-> conf, at |-> Ageless] \in Message
      BY <1>1 DEF Message, Confs, Age
    <2> QED
      BY <2>1
  <1>2. \A m \in Message : m.conf \in Confs
    BY DEF Message, Confs
  <1>3. None \notin Confs
    BY DEF Confs, Config
  <1> QED
    BY <1>1, <1>2, <1>3

\* What a provider lists is a listing, of the state of now.
LEMMA NowType ==
    ASSUME TypeOK
    PROVE  Now \in Listings /\ Now.at = changes /\ Now.listing = Listing
  <1>1. Listing \in SUBSET Container /\ changes \in Age
    BY DEF TypeOK, ProxyTypeOK, Listing, Age
  <1> QED
    BY <1>1 DEF Now, Listings

\* Sending a listing puts a message into the channel.
LEMMA SendType ==
    ASSUME TypeOK, NEW m \in Listings, Send(m)
    PROVE  /\ chan' \in Seq(Message) /\ Len(chan') <= ChanCap
           /\ Len(chan') = Len(chan) + 1
           /\ chan'[Len(chan) + 1].at = m.at
           /\ \A i \in DOMAIN chan : chan'[i] = chan[i]
  <1> DEFINE e == [conf |-> Config(m.listing), at |-> m.at]
  <1>1. e \in Message /\ e.at = m.at
    BY DEF Listings, Message
  <1>2. chan \in Seq(Message) /\ chan' = Append(chan, e) /\ Len(chan) < ChanCap
    BY DEF Send, TypeOK
  <1> HIDE DEF e
  <1> QED
    BY <1>1, <1>2, AppendProperties

\* A cancelled attempt is an attempt.
LEMMA CancelledType ==
    ASSUME NEW a \in Provided
    PROVE  [a EXCEPT !.cancelled = TRUE] \in Provided
  BY DEF Provided

\* A step of Docker or of the proxy preserves the proxy's types.
LEMMA ProxyType ==
    ASSUME TypeOK, Docker \/ DockerAnswers \/ Proxy
    PROVE  ProxyTypeOK'
  <1> USE DEF TypeOK, ProxyTypeOK
  <1>1. ASSUME NEW c \in Container, Change(c)
        PROVE  running' \subseteq Container /\ changes' \in 0..MaxChanges
    BY <1>1 DEF Change
  <1>2. ASSUME NEW c \in Container, ContainerChanges(c) \/ ChangesSilently(c)
        PROVE  ProxyTypeOK'
    <2>1. running' \subseteq Container /\ changes' \in 0..MaxChanges
      BY <1>1, <1>2 DEF ContainerChanges, ChangesSilently
    <2>2. faults' \in 0..MaxFaults
      BY <1>2 DEF ContainerChanges, ChangesSilently, NoFault, Fault
    <2>3. Append(upstream, c) \in Seq(Container)
      BY AppendProperties
    <2>4. upstream' \in Seq(Container) /\ UNCHANGED <<pushed, stream>>
      BY <1>2, <2>3 DEF ContainerChanges, ChangesSilently, events
    <2> QED
      BY <2>1, <2>2, <2>4
  <1>3. CASE UpstreamError
    BY <1>3 DEF UpstreamError, Fault
  <1>4. CASE HandleEvent
    <2>1. Head(upstream) \in Container /\ Tail(upstream) \in Seq(Container)
      BY <1>4, HeadTailProperties DEF HandleEvent
    <2>2. upstream' \in Seq(Container) /\ pushed' \in Seq(Container)
      BY <1>4, <2>1, AppendProperties DEF HandleEvent
    <2> QED
      BY <1>4, <2>2 DEF HandleEvent
  <1>5. CASE Fault /\ UNCHANGED <<running, events, changes>>
    BY <1>5 DEF Fault, events
  <1>6. CASE UNCHANGED proxyVars
    BY <1>6 DEF proxyVars, events
  <1> QED
    BY <1>2, <1>3, <1>4, <1>5, <1>6 DEF Docker, DockerAnswers, Proxy

\* Every step preserves the types.
LEMMA TypeStep ==
    ASSUME TypeOK, HandlerInv, DeliveryNext
    PROVE  TypeOK'
  <1> USE DEF TypeOK, ProxyTypeOK
  <1>1. Nothing \in Listings /\ Now \in Listings /\ [Now EXCEPT !.at = Ageless] \in Listings
    <2>1. Nothing \in Listings
      BY DEF Nothing, Listings, Age
    <2>2. Now \in Listings
      BY NowType
    <2>3. [Now EXCEPT !.at = Ageless] \in Listings
      BY <2>2 DEF Listings, Age
    <2> QED
      BY <2>1, <2>2, <2>3
  <1>2. CASE Docker \/ DockerAnswers \/ Proxy
    <2>1. ProxyTypeOK'
      BY <1>2, ProxyType
    <2>2. UNCHANGED downstream
      BY <1>2 DEF Docker, DockerAnswers, Proxy, downstream, deliveryVars
    <2>3. docker' \in {"up", "hung"} /\ missed' \in BOOLEAN
      BY <1>2 DEF Docker, DockerAnswers, Proxy, deliveryVars
    <2> QED
      BY <2>1, <2>2, <2>3 DEF downstream
  <1>3. ASSUME WatchList("list", "send") \/ WatchList("relist", "resend")
        PROVE  TypeOK'
    <2>1. watch' \in Watcher
      <3>1. CASE WatchList("list", "send")
        BY <1>1, <3>1 DEF WatchList, Watcher
      <3>2. CASE WatchList("relist", "resend")
        <4>1. watch \in Watcher
          BY DEF Watcher
        <4>2. [watch EXCEPT !.pc = "watch"] \in Watcher
          BY <4>1 DEF Watcher
        <4>3. [pc |-> "resend", last |-> [Now EXCEPT !.at = Ageless]] \in Watcher
          BY <1>1 DEF Watcher
        <4> QED
          BY <3>2, <4>2, <4>3 DEF WatchList
      <3> QED
        BY <1>3, <3>1, <3>2
    <2>2. missed' \in BOOLEAN
      BY <1>3 DEF WatchList
    <2>3. faults' \in 0..MaxFaults
      BY <1>3 DEF WatchList, NoFault, Fault
    <2> QED
      BY <1>3, <2>1, <2>2, <2>3 DEF WatchList, restOfWatch, events, Watcher
  <1>4. ASSUME WatchSend("send", "subscribe") \/ WatchSend("resend", "watch")
        PROVE  TypeOK'
    <2>1. watch' \in Watcher
      BY <1>4 DEF WatchSend, Watcher
    <2>2. watch.last \in Listings /\ Send(watch.last)
      BY <1>4 DEF WatchSend
    <2>3. chan' \in Seq(Message) /\ Len(chan') <= ChanCap
      BY <2>2, SendType
    <2> QED
      BY <1>4, <2>1, <2>3 DEF WatchSend, restOfWatch, proxyVars, events, Watcher
  <1>5. CASE WatchSubscribe \/ WatchEvent \/ WatchRetry
    <2>1. watch' \in Watcher
      BY <1>5 DEF WatchSubscribe, WatchEvent, WatchRetry, Watcher
    <2>2. pushed # <<>> => Tail(pushed) \in Seq(Container)
      BY HeadTailProperties
    <2>3. pushed' \in Seq(Container) /\ stream' \in {"closed", "open", "broken"}
      BY <1>5, <2>2 DEF WatchSubscribe, WatchEvent, WatchRetry
    <2> QED
      BY <1>5, <2>1, <2>3 DEF WatchSubscribe, WatchEvent, WatchRetry, restOfWatch, Watcher
  <1>6. CASE Tick \/ StartAttempt \/ KeepConfAlive
    <2>1. live \subseteq Provided
      BY DEF Provided
    <2>2. NewAttempt \in Provided
      BY <1>1 DEF NewAttempt, Provided
    <2>3. \A a \in live : [a EXCEPT !.cancelled = TRUE] \in Provided
      BY <2>1, CancelledType
    <2>4. live' \subseteq Provided
      <3>1. CASE Tick
        BY <2>3, <3>1 DEF Tick
      <3>2. CASE StartAttempt
        BY <2>2, <3>2 DEF StartAttempt
      <3>3. CASE KeepConfAlive
        BY <2>1, <3>3 DEF KeepConfAlive
      <3> QED
        BY <1>6, <3>1, <3>2, <3>3
    <2> QED
      BY <1>6, <2>4 DEF Tick, StartAttempt, KeepConfAlive, restOfPoll, proxyVars, events, Provided
  <1>7. ASSUME NEW a \in live, AttemptList(a) \/ AttemptSend(a) \/ AttemptCancelled(a)
        PROVE  TypeOK'
    <2>1. live' \subseteq Provided
      <3>1. live \subseteq Provided
        BY DEF Provided
      <3>2. [a EXCEPT !.pc = "send", !.last = Now] \in Provided
        BY <1>1, <3>1 DEF Provided
      <3> QED
        BY <1>7, <3>1, <3>2 DEF AttemptList, AttemptSend, AttemptCancelled
    <2>2. chan' \in Seq(Message) /\ Len(chan') <= ChanCap
      <3>1. CASE AttemptSend(a)
        <4>1. a.last \in Listings /\ Send(a.last)
          BY <3>1 DEF AttemptSend
        <4> QED
          BY <4>1, SendType
      <3>2. CASE UNCHANGED chan
        BY <3>2
      <3> QED
        BY <1>7, <3>1, <3>2 DEF AttemptList, AttemptCancelled
    <2> QED
      BY <1>7, <2>1, <2>2 DEF AttemptList, AttemptSend, AttemptCancelled, restOfPoll, proxyVars,
         events, Provided
  <1>8. CASE ReceiveConfiguration
    <2>1. Head(chan) \in Message /\ chan' \in Seq(Message) /\ Len(chan') <= ChanCap
      BY <1>8, HeadTailProperties DEF ReceiveConfiguration
    <2>2. latest' \in {None} \cup {m.conf : m \in Message}
      BY <1>8, <2>1 DEF ReceiveConfiguration
    <2> QED
      BY <1>8, <2>1, <2>2 DEF ReceiveConfiguration, restOfWatcher, proxyVars, events
  <1>9. CASE ApplyConfiguration
    BY <1>9 DEF ApplyConfiguration, restOfWatcher, proxyVars, events
  <1>10. CASE HandleConfiguration
    <2>1. PICK S \in SUBSET Container : handled = Config(S)
      BY <1>10, ConfsCarried DEF HandleConfiguration, HandlerInv, Confs
    <2>2. stored' \in {stored, handled}
      BY <1>10, <2>1, DefaultStripped DEF HandleConfiguration
    <2>3. faults' \in 0..MaxFaults /\ handler' \in {"idle", "dead"}
      BY <1>10 DEF HandleConfiguration, NoFault, Fault
    <2> QED
      BY <1>10, <2>2, <2>3 DEF HandleConfiguration, restOfWatcher, events
  <1> QED
    BY <1>2, <1>3, <1>4, <1>5, <1>6, <1>7, <1>8, <1>9, <1>10 DEF DeliveryNext, WatchingProvider, Attempt

\* Every step gives the handler configurations only.
LEMMA HandlerStep ==
    ASSUME TypeOK, HandlerInv, DeliveryNext
    PROVE  HandlerInv'
  <1>1. CASE ReceiveConfiguration
    <2>1. Head(chan) \in Message
      BY <1>1, HeadTailProperties DEF ReceiveConfiguration, TypeOK
    <2>2. latest' # None
      BY <1>1, <2>1, ConfsCarried DEF ReceiveConfiguration
    <2> QED
      BY <1>1, <2>2 DEF ReceiveConfiguration, HandlerInv
  <1>2. CASE ApplyConfiguration
    BY <1>2 DEF ApplyConfiguration, HandlerInv
  <1>3. CASE HandleConfiguration
    BY <1>3 DEF HandleConfiguration, HandlerInv
  <1>4. CASE UNCHANGED <<latest, handled, handler>>
    BY <1>4 DEF HandlerInv
  <1> QED
    BY <1>1, <1>2, <1>3, <1>4 DEF DeliveryNext, Docker, DockerAnswers, Proxy, downstream, deliveryVars,
       WatchingProvider, WatchList, WatchSend, WatchSubscribe, WatchEvent, WatchRetry, restOfWatch,
       Tick, StartAttempt, KeepConfAlive, Attempt, AttemptList, AttemptSend, AttemptCancelled, restOfPoll

\* The types, and what they need of the handler, always hold.
TypeInv == TypeOK /\ HandlerInv

LEMMA TypeInvariant == DeliverySpec => []TypeInv
  <1>1. DeliveryInit => TypeInv
    <2>1. ASSUME DeliveryInit
          PROVE  TypeInv
      <3>1. Nothing \in Listings
        BY DEF Nothing, Listings, Age
      <3>2. ProxyTypeOK
        BY <2>1 DEF DeliveryInit, ProxyInit, ProxyTypeOK
      <3>3. watch \in Watcher
        BY <2>1, <3>1 DEF DeliveryInit, Watcher
      <3>4. chan \in Seq(Message) /\ Len(chan) <= ChanCap
        BY <2>1 DEF DeliveryInit
      <3> QED
        BY <2>1, <3>2, <3>3, <3>4 DEF DeliveryInit, TypeInv, TypeOK, HandlerInv, Watcher
    <2> QED
      BY <2>1
  <1>2. TypeInv /\ [DeliveryNext]_all => TypeInv'
    <2>1. ASSUME TypeInv, DeliveryNext
          PROVE  TypeInv'
      BY <2>1, TypeStep, HandlerStep DEF TypeInv
    <2>2. ASSUME TypeInv, UNCHANGED all
          PROVE  TypeInv'
      BY <2>2 DEF TypeInv, TypeOK, ProxyTypeOK, HandlerInv, all, proxyVars, events, deliveryVars
    <2> QED
      BY <2>1, <2>2
  <1> QED
    BY <1>1, <1>2, PTL DEF DeliverySpec

\* The channel, the attempts and the watcher only ever hold what their types
\* say, whatever the containers and their entry points.
THEOREM TypeCorrect == DeliverySpec => []TypeOK
  <1>1. TypeInv => TypeOK
    BY DEF TypeInv
  <1> QED
    BY <1>1, TypeInvariant, PTL

-------------------------------------------------------------------------------
(***************************************************************************)
(* No change is missed.  While the stream is closed, a change is missed;   *)
(* so what was listed before the subscription is still so when it begins.  *)
(***************************************************************************)
\* The watching provider has listed what there is, or will list again.
UpToDate ==
    \/ watch.last.listing = Listing
    \/ pushed # <<>>
    \/ \E i \in DOMAIN upstream : Forwards(upstream[i])

Begins == {"list", "send", "subscribe"}

WatchInv ==
    /\ watch.pc \in Begins => stream = "closed"
    /\ watch.pc \in {"send", "subscribe"} /\ ~missed => watch.last.listing = Listing
    /\ watch.pc \in {"watch", "resend"} /\ stream = "open" /\ ~missed => UpToDate

\* An event goes with each change that Docker pushes and that listings show.
LEMMA ChangePushed ==
    ASSUME TypeInv, NEW c \in Container, ContainerChanges(c), stream = "open", UpToDate, UNCHANGED watch
    PROVE  UpToDate'
  <1>1. /\ upstream \in Seq(Container) /\ upstream' = Append(upstream, c) /\ pushed' = pushed
        /\ Change(c)
    BY DEF ContainerChanges, TypeInv, TypeOK, ProxyTypeOK
  <1>2. /\ Len(upstream) + 1 \in DOMAIN upstream' /\ upstream'[Len(upstream) + 1] = c
        /\ \A i \in DOMAIN upstream : i \in DOMAIN upstream' /\ upstream'[i] = upstream[i]
    BY <1>1, AppendProperties
  <1>3. CASE Forwards(c)
    BY <1>2, <1>3 DEF UpToDate, Forwards
  <1>4. CASE ~Forwards(c)
    <2>1. Listing' = Listing
      BY <1>1, <1>4, FiltersAgree, ListingChanges
    <2> QED
      BY <1>1, <1>2, <2>1 DEF UpToDate, Forwards
  <1> QED
    BY <1>3, <1>4

\* handleEvents drops an event only when no listing shows its container.
LEMMA EventKept ==
    ASSUME TypeInv, HandleEvent, UpToDate, UNCHANGED watch
    PROVE  UpToDate'
  <1>1. /\ upstream \in Seq(Container) /\ upstream # <<>> /\ upstream' = Tail(upstream)
        /\ pushed \in Seq(Container)
        /\ pushed' = IF Forwards(Head(upstream)) THEN Append(pushed, Head(upstream)) ELSE pushed
        /\ running' = running
    BY DEF HandleEvent, TypeInv, TypeOK, ProxyTypeOK
  <1>2. /\ Head(upstream) = upstream[1] /\ Head(upstream) \in Container
        /\ Len(upstream') = Len(upstream) - 1
        /\ \A i \in 1..(Len(upstream) - 1) : upstream'[i] = upstream[i + 1]
        /\ upstream' \in Seq(Container)
    BY <1>1, HeadTailProperties
  <1>3. CASE watch.last.listing = Listing
    BY <1>1, <1>3 DEF UpToDate, Listing, Listed
  <1>4. CASE pushed # <<>> \/ Forwards(Head(upstream))
    <2>1. Append(pushed, Head(upstream)) # <<>>
      BY <1>1, <1>2, AppendProperties
    <2>2. pushed' # <<>>
      BY <1>1, <1>4, <2>1
    <2> QED
      BY <2>2 DEF UpToDate
  <1>5. ASSUME NEW i \in DOMAIN upstream, Forwards(upstream[i]), ~Forwards(Head(upstream))
        PROVE  UpToDate'
    <2>1. i \in 2..Len(upstream)
      BY <1>1, <1>2, <1>5
    <2>2. i - 1 \in DOMAIN upstream' /\ upstream'[i - 1] = upstream[i]
      BY <1>1, <1>2, <2>1
    <2> QED
      BY <1>5, <2>2 DEF UpToDate, Forwards
  <1> QED
    BY <1>3, <1>4, <1>5 DEF UpToDate

\* What the provider sees is the same.
LEMMA WatchSame ==
    ASSUME WatchInv, UNCHANGED <<running, upstream, pushed, stream, missed, watch>>
    PROVE  WatchInv'
  BY DEF WatchInv, UpToDate, Listing, Listed, Forwards

LEMMA WatchStep ==
    ASSUME TypeInv, WatchInv, DeliveryNext
    PROVE  WatchInv'
  <1> USE DEF TypeInv, TypeOK, ProxyTypeOK
  <1>1. ASSUME NEW c \in Container, ContainerChanges(c), missed' = (missed \/ stream # "open"), UNCHANGED watch
        PROVE  WatchInv'
    <2>1. stream' = stream
      BY <1>1 DEF ContainerChanges
    <2>2. CASE stream # "open"
      BY <1>1, <2>1, <2>2 DEF WatchInv
    <2>3. CASE stream = "open" /\ ~missed /\ watch.pc \in {"watch", "resend"}
      <3>1. UpToDate'
        BY <1>1, <2>3, ChangePushed DEF WatchInv
      <3> QED
        BY <1>1, <2>1, <2>3, <3>1 DEF WatchInv, Begins
    <2>4. CASE stream = "open" /\ (missed \/ watch.pc \notin {"watch", "resend"})
      BY <1>1, <2>1, <2>4 DEF WatchInv, Begins
    <2> QED
      BY <2>2, <2>3, <2>4
  <1>2. ASSUME NEW c \in Container, ChangesSilently(c), missed' = TRUE, UNCHANGED watch
        PROVE  WatchInv'
    BY <1>2 DEF ChangesSilently, events, WatchInv
  <1>3. CASE UpstreamError /\ UNCHANGED deliveryVars
    BY <1>3 DEF UpstreamError, deliveryVars, WatchInv, Begins
  <1>4. CASE Proxy
    <2>1. /\ stream = "open" /\ UNCHANGED <<watch, stream, missed, running>>
          /\ HandleEvent
      BY <1>4 DEF Proxy, HandleEvent, deliveryVars
    <2>2. UpToDate => UpToDate'
      BY <2>1, EventKept
    <2> QED
      BY <2>1, <2>2 DEF WatchInv, Begins
  <1>5. ASSUME NEW from, NEW to, <<from, to>> \in {<<"list", "send">>, <<"relist", "resend">>},
               WatchList(from, to)
        PROVE  WatchInv'
    <2>1. UNCHANGED <<running, upstream, pushed, stream>> /\ watch.pc = from
      BY <1>5 DEF WatchList, events
    <2>2. Listing' = Listing
      BY <2>1 DEF Listing, Listed
    <2>3. CASE watch' = [pc |-> to, last |-> [Now EXCEPT !.at = Ageless]]
      <3>1. watch'.pc = to /\ watch'.last.listing = Listing'
        BY <2>2, <2>3 DEF Now
      <3>2. UpToDate'
        BY <3>1 DEF UpToDate
      <3> QED
        BY <1>5, <2>1, <3>1, <3>2 DEF WatchInv, Begins
    <2>4. CASE from = "relist" /\ watch' = [watch EXCEPT !.pc = "watch"] /\ missed' = TRUE
      BY <2>1, <2>4 DEF WatchInv, Begins
    <2> QED
      BY <1>5, <2>3, <2>4 DEF WatchList
  <1>6. CASE WatchSend("send", "subscribe") \/ WatchSend("resend", "watch")
    <2>1. UNCHANGED <<running, upstream, pushed, stream, missed>> /\ watch'.last = watch.last
      BY <1>6 DEF WatchSend, proxyVars, events
    <2>2. Listing' = Listing /\ (UpToDate => UpToDate')
      BY <2>1 DEF Listing, Listed, UpToDate, Forwards
    <2>3. \/ watch.pc = "send" /\ watch'.pc = "subscribe"
          \/ watch.pc = "resend" /\ watch'.pc = "watch"
      BY <1>6 DEF WatchSend
    <2> QED
      BY <2>1, <2>2, <2>3 DEF WatchInv, Begins
  <1>7. CASE WatchSubscribe
    <2>1. /\ watch.pc = "subscribe" /\ watch'.pc = "watch" /\ watch'.last = watch.last
          /\ UNCHANGED <<running, upstream, pushed, missed>>
      BY <1>7 DEF WatchSubscribe
    <2>2. ~missed => watch'.last.listing = Listing'
      BY <2>1 DEF WatchInv, Listing, Listed
    <2> QED
      BY <2>1, <2>2 DEF WatchInv, Begins, UpToDate
  <1>8. CASE WatchEvent
    BY <1>8 DEF WatchEvent, WatchInv, Begins
  <1>9. CASE WatchRetry
    BY <1>9 DEF WatchRetry, WatchInv, Begins
  <1>10. CASE UNCHANGED <<running, upstream, pushed, stream, missed, watch>>
    BY <1>10, WatchSame
  <1>11. Docker => WatchInv'
    BY <1>1, <1>2, <1>3, <1>10 DEF Docker, downstream, events
  <1>12. WatchingProvider => WatchInv'
    BY <1>5, <1>6, <1>7, <1>8, <1>9 DEF WatchingProvider
  <1> QED
    BY <1>4, <1>10, <1>11, <1>12 DEF DeliveryNext, DockerAnswers, downstream, proxyVars, events,
       Tick, StartAttempt, KeepConfAlive, Attempt, AttemptList, AttemptSend, AttemptCancelled, restOfPoll,
       ReceiveConfiguration, ApplyConfiguration, HandleConfiguration, restOfWatcher

\* While the stream is open and Docker pushes everything, a provider whose
\* listing is out of date has an event before it: the proxy's two filters never
\* disagree, and nothing changes unseen between a listing and the subscription.
THEOREM NoMissedChangeHolds == DeliverySpec => []NoMissedChange
  <1>1. DeliveryInit => WatchInv
    BY DEF DeliveryInit, ProxyInit, WatchInv, Begins
  <1>2. TypeInv /\ WatchInv /\ [DeliveryNext]_all => WatchInv'
    BY WatchStep, WatchSame DEF all, proxyVars, events, deliveryVars
  <1>3. WatchInv => NoMissedChange
    BY DEF WatchInv, NoMissedChange, UpToDate
  <1> QED
    BY <1>1, <1>2, <1>3, TypeInvariant, PTL DEF DeliverySpec

-------------------------------------------------------------------------------
(***************************************************************************)
(* Polling never goes back.  Stop waits until the attempt has ended, so    *)
(* there is one at most, and it lists after all others have sent.          *)
(***************************************************************************)
PollInv ==
    /\ \A a, b \in live : a = b
    /\ watch.last.at = Ageless
    /\ \A a \in live : a.last.at <= changes
    /\ \A i \in DOMAIN chan : chan[i].at <= changes
    /\ PollsInOrder

\* Listings and messages have an age that compares.
LEMMA Ages ==
    ASSUME TypeInv
    PROVE  /\ \A a \in live : a.last \in Listings /\ a.last.at \in Int /\ Ageless <= a.last.at
           /\ \A i \in DOMAIN chan : chan[i].at \in Int /\ Ageless <= chan[i].at
  <1>1. \A x \in Age : x \in Int /\ Ageless <= x
    BY DEF Age, Ageless
  <1>2. \A a \in live : a.last \in Listings /\ a.last.at \in Age
    BY DEF TypeInv, TypeOK, Listings
  <1>3. \A i \in DOMAIN chan : chan[i] \in Message
    BY DEF TypeInv, TypeOK
  <1>4. \A m \in Message : m.at \in Age
    BY DEF Message
  <1> QED
    BY <1>1, <1>2, <1>3, <1>4

\* Nothing that PollInv is about changes, or containers change.
LEMMA PollSame ==
    ASSUME TypeInv, PollInv, UNCHANGED <<live, chan>>, watch'.last.at = Ageless, changes' \in Nat, changes <= changes'
    PROVE  PollInv'
  <1>1. changes \in Nat
    BY DEF TypeInv, TypeOK, ProxyTypeOK
  <1> QED
    BY <1>1, Ages DEF PollInv, PollsInOrder

\* A listing is sent that is not from later, and not before what is left to send.
LEMMA SendInOrder ==
    ASSUME TypeInv, PollInv, NEW m \in Listings, Send(m), m.at <= changes,
           live' \subseteq live, \A a \in live' : m.at <= a.last.at,
           watch'.last = watch.last, changes' = changes
    PROVE  PollInv'
  <1>1. /\ chan \in Seq(Message) /\ chan' \in Seq(Message) /\ Len(chan') = Len(chan) + 1
        /\ chan'[Len(chan) + 1].at = m.at
        /\ \A i \in DOMAIN chan : chan'[i] = chan[i]
    BY SendType DEF TypeInv, TypeOK
  <1>2. \A i \in DOMAIN chan' : chan'[i].at = m.at \/ (i \in DOMAIN chan /\ chan'[i].at = chan[i].at)
    BY <1>1
  <1> QED
    BY <1>2 DEF PollInv, PollsInOrder

LEMMA PollStep ==
    ASSUME TypeInv, PollInv, DeliveryNext
    PROVE  PollInv'
  <1>1. live \subseteq Provided /\ watch.last \in Listings /\ changes \in 0..MaxChanges /\ chan \in Seq(Message)
    BY DEF TypeInv, TypeOK, ProxyTypeOK, Provided
  <1>2. \A a \in live : a.last \in Listings /\ a.last.at \in Int /\ Ageless <= a.last.at
    BY Ages
  <1>3. \A i \in DOMAIN chan : chan[i].at \in Int /\ Ageless <= chan[i].at
    BY Ages
  <1>4. CASE Docker \/ DockerAnswers \/ Proxy
    <2>1. UNCHANGED <<live, chan, watch>>
      BY <1>4 DEF Docker, DockerAnswers, Proxy, downstream, deliveryVars
    <2>2. changes' = changes \/ changes' = changes + 1
      BY <1>4 DEF Docker, DockerAnswers, Proxy, ContainerChanges, ChangesSilently, Change, UpstreamError,
         HandleEvent, proxyVars
    <2> QED
      BY <1>1, <2>1, <2>2, PollSame DEF PollInv
  <1>5. CASE WatchList("list", "send") \/ WatchList("relist", "resend")
    <2>1. UNCHANGED <<live, chan, changes>>
      BY <1>5 DEF WatchList, restOfWatch
    <2>2. watch'.last.at = Ageless
      <3>1. [Now EXCEPT !.at = Ageless].at = Ageless
        BY DEF Now
      <3>2. watch'.last = watch.last \/ watch'.last = [Now EXCEPT !.at = Ageless]
        BY <1>5 DEF WatchList, TypeInv, TypeOK
      <3> QED
        BY <3>1, <3>2 DEF PollInv
    <2> QED
      BY <1>1, <2>1, <2>2, PollSame
  <1>6. CASE WatchSend("send", "subscribe") \/ WatchSend("resend", "watch")
    <2>1. Send(watch.last) /\ watch'.last = watch.last /\ UNCHANGED <<live, changes>>
      BY <1>6 DEF WatchSend, restOfWatch, proxyVars, TypeInv, TypeOK
    <2>2. watch.last.at = Ageless /\ Ageless <= changes
      BY <1>1 DEF PollInv, Ageless
    <2> QED
      BY <1>1, <1>2, <2>1, <2>2, SendInOrder
  <1>7. CASE WatchSubscribe \/ WatchEvent \/ WatchRetry
    <2>1. UNCHANGED <<live, chan, changes>> /\ watch'.last = watch.last
      BY <1>7 DEF WatchSubscribe, WatchEvent, WatchRetry, restOfWatch, TypeInv, TypeOK
    <2> QED
      BY <1>1, <2>1, PollSame DEF PollInv
  <1>8. CASE Tick
    <2>1. live' = {[a EXCEPT !.cancelled = TRUE] : a \in live} /\ UNCHANGED <<chan, watch, changes>>
      BY <1>8 DEF Tick, restOfPoll, proxyVars
    <2>2. \A b \in live' : \E a \in live : b.pc = a.pc /\ b.last = a.last
      <3> DEFINE cancel(a) == [a EXCEPT !.cancelled = TRUE]
      <3>1. \A a \in Provided : cancel(a).pc = a.pc /\ cancel(a).last = a.last
        BY DEF Provided
      <3>2. live' = {cancel(a) : a \in live}
        BY <2>1
      <3> HIDE DEF cancel
      <3>3. \A b \in live' : \E a \in live : b = cancel(a)
        BY <3>2
      <3> QED
        BY <1>1, <3>1, <3>3
    <2>3. \A a, b \in live' : a = b
      BY <2>1 DEF PollInv
    <2> QED
      BY <2>1, <2>2, <2>3 DEF PollInv, PollsInOrder
  <1>9. CASE StartAttempt
    <2>1. live' = {NewAttempt} /\ UNCHANGED <<chan, watch, changes>>
      BY <1>9 DEF StartAttempt, restOfPoll, proxyVars
    <2>2. NewAttempt.pc = "list" /\ NewAttempt.last.at <= changes
      BY <1>1 DEF NewAttempt, Nothing, Ageless
    <2> QED
      BY <2>1, <2>2 DEF PollInv, PollsInOrder
  <1>10. ASSUME NEW a \in live, AttemptList(a)
         PROVE  PollInv'
    <2> DEFINE b == [a EXCEPT !.pc = "send", !.last = Now]
    <2>1. live' = {b} /\ UNCHANGED <<chan, watch, changes>>
      BY <1>10 DEF AttemptList, restOfPoll, proxyVars, PollInv
    <2>2. b.last.at = changes
      BY <1>1 DEF Now, Provided
    <2> HIDE DEF b
    <2> QED
      BY <1>1, <1>3, <2>1, <2>2 DEF PollInv, PollsInOrder
  <1>11. ASSUME NEW a \in live, AttemptSend(a)
         PROVE  PollInv'
    <2>1. Send(a.last) /\ live' = {} /\ UNCHANGED <<watch, changes>>
      BY <1>11 DEF AttemptSend, restOfPoll, proxyVars, PollInv
    <2>2. a.last \in Listings /\ a.last.at <= changes
      BY <1>2 DEF PollInv
    <2> QED
      BY <2>1, <2>2, SendInOrder
  <1>12. ASSUME NEW a \in live, AttemptCancelled(a)
         PROVE  PollInv'
    BY <1>12 DEF AttemptCancelled, restOfPoll, proxyVars, PollInv, PollsInOrder
  <1>13. CASE ReceiveConfiguration
    <2>1. /\ UNCHANGED <<live, watch, changes>> /\ Len(chan') = Len(chan) - 1
          /\ chan' \in Seq(Message)
          /\ \A i \in 1..(Len(chan) - 1) : chan'[i] = chan[i + 1]
      BY <1>1, <1>13, HeadTailProperties DEF ReceiveConfiguration, restOfWatcher, proxyVars
    <2>2. \A i \in DOMAIN chan' : \E j \in DOMAIN chan : chan'[i] = chan[j]
      <3>1. ASSUME NEW i \in DOMAIN chan'
            PROVE  i + 1 \in DOMAIN chan /\ chan'[i] = chan[i + 1]
        BY <1>1, <2>1, <3>1
      <3> QED
        BY <3>1
    <2> QED
      BY <2>1, <2>2 DEF PollInv, PollsInOrder
  <1>14. CASE KeepConfAlive \/ ApplyConfiguration \/ HandleConfiguration
    <2>1. UNCHANGED <<live, chan, watch, changes>>
      BY <1>14 DEF KeepConfAlive, ApplyConfiguration, HandleConfiguration, restOfPoll, restOfWatcher, proxyVars
    <2> QED
      BY <1>1, <2>1, PollSame DEF PollInv
  <1> QED
    BY <1>4, <1>5, <1>6, <1>7, <1>8, <1>9, <1>10, <1>11, <1>12, <1>13, <1>14
       DEF DeliveryNext, WatchingProvider, Attempt

\* No attempt, cancelled or not, still has to send a listing older than one that
\* another attempt has sent: cancel and Stop keep the attempts apart, whenever
\* the ticks come and however long Docker takes to answer.
THEOREM PollsInOrderHolds == DeliverySpec => []PollsInOrder
  <1>1. DeliveryInit => PollInv
    BY DEF DeliveryInit, ProxyInit, PollInv, PollsInOrder, Nothing
  <1>2. TypeInv /\ PollInv /\ [DeliveryNext]_all => PollInv'
    <2>1. ASSUME TypeInv, PollInv, UNCHANGED all
          PROVE  PollInv'
      BY <2>1 DEF PollInv, PollsInOrder, all, proxyVars, deliveryVars
    <2> QED
      BY <2>1, PollStep
  <1>3. PollInv => PollsInOrder
    BY DEF PollInv
  <1> QED
    BY <1>1, <1>2, <1>3, TypeInvariant, PTL DEF DeliverySpec
===============================================================================
