# traefik-kop in TLA+

traefik-kop runs on every Docker host. It turns the labels of the local
containers into a Traefik configuration, replaces container addresses by
addresses that are reachable from outside the host, and writes the result as
keys into a Redis that all hosts share and a central Traefik reads.

This directory holds TLA+ models of the parts of that program that are hard to
test, the TLC configurations that check them on small instances, and proofs
that TLAPS checks for every instance. `PROJECT.json` lists the runs, the source
lines behind every definition, the hazards and the theorems.

    tlc -workers 2 -config StoreFaults.cfg MCRedisStore     # one run
    tlapm RedisStoreProofs.tla                              # the proofs of a module

## 1. Inventory

| Component | State | Operations |
|---|---|---|
| Redis store, `store.go` | in Redis: the configuration keys, for each host and category a set of names `traefik_<cat>@<host>` and its `_new` twin, a sentinel `traefik_kop_last_update@<host>`; in the process: `mu`, `lastConfig` | `Store`, `KeepConfAlive`, `Get`, `Gets`, `Ping` |
| configuration handler, `traefik_kop.go` | none between calls | `createConfigHandler`'s closure: `filterServices`, `replaceIPs`, `mergeLoadBalancers`, `Store` |
| container cache, `docker.go` | `list`, `details`, `expires`, new for every call of the handler | `populate`, `findContainerByServiceName`, port resolution |
| KV flattening, `kv.go` | none | `ConfigToKV` |
| polling provider, `polling_provider.go` | `activeAttempt`, its cancel function, `attemptNumber`, a mutex | the tick loop, `startPollAttempt`, `cancelActiveAttempt` |
| renewal timer, `traefik_kop.go` | a ticker of TTL/3 | `keepStoreAlive` |
| multi provider, configuration watcher | the list of providers; the watcher itself is Traefik's | `Provide`, the listeners |
| Docker API proxy, `docker_proxy.go` | none that lasts; one loop per event stream | list, inspect, events |
| configuration, TLS, command line | read once at start | |

How they interact. Two providers (one watching Docker's events, one polling)
send configurations to one channel. The watcher's goroutine passes them to the
handler, which looks containers up, reads Redis through `Gets` when it merges
load balancers, and calls `Store`. A second goroutine (`keepStoreAlive`, only
with a TTL) and a third (the poller) call `KeepConfAlive`. All three share the
store's mutex. Hosts meet only in Redis. When `Store` fails the handler panics;
the pool that runs the watcher recovers, so that goroutine ends and the rest of
the process lives on.

What is hard. A `Store` is dozens of Redis commands without a transaction:
any of them can fail, Redis can restart between two of them, and so can the
process; the next `Store` starts from what was left. Renewals come at any moment
between `Store`s. Two hosts may write the same service. The handler walks Go
maps, whose order is random, and looks each container up several times through
a cache that may expire in between.

What makes each part correct:

* store: a finished `Store` has installed its configuration; nothing in Redis
  is forgotten; an update never takes down what it is about to publish; a
  renewal never brings an old configuration back and touches no foreign key;
  what Redis loses comes back;
* handler: only services of its namespaces are published, routers only with
  their services, servers only at addresses of their own container, in
  whichever order maps are walked;
* providers and watcher: the newest configuration is stored in the end; a poll
  attempt that hangs does not stop renewals;
* proxy: a container that is not exposed is never seen, and one that is
  exposed is not lost.

## 2. Modules

| Module | What it is |
|---|---|
| `Configurations` | configurations, their keys and their names, with keys or without; which keys hosts share |
| `Publication` | what a store promises, without its commands: the abstract specification |
| `RedisStore` | the store, any number of hosts, one Redis; properties; the mapping to `Publication` |
| `RedisStoreProofs` | its theorems under any faults: types, mutual exclusion, renewals, no gap |
| `StoreHomeProofs` | a host works below its own names |
| `StoreCleanProofs` | what holds as long as nothing fails |
| `PublicationProofs` | the store implements `Publication` |
| `MCRedisStore`, `Store*.cfg` | small instances for TLC |
| `MergedStore` (extends `RedisStore`) | the handler's merge of load balancers, reading and then storing, on several hosts; its mapping to `Publication` |
| `MergedStoreProofs` | the store's theorems with merging handlers, and their refinement of `Publication` |
| `MCMergedStore`, `Merged*.cfg` | two hosts that share a service |
| `ConfigHandler` | the handler up to `Store`, with the container cache; properties |
| `ConfigHandlerProofs` | its types and its filters |
| `ServerAddressProofs` | its ports, IPs and addresses |
| `MCConfigHandler`, `Handler*.cfg` | a small instance for TLC |
| `DockerProxy` | label filtering, listings and the event stream of the proxy; Docker behind it |
| `Delivery` (extends `DockerProxy`) | from Docker to the handler: both providers, the channel, the watcher, its listeners |
| `DeliveryProofs` | its types, missed changes, the order of polls |
| `MCDelivery`, `Delivery*.cfg` | a small instance for TLC |
| `KVWalk` | `ConfigToKV`, a recursive walk over a tree of Go values |
| `MCKVWalk`, `KV.cfg` | its inputs |

### RedisStore

A step is one Redis command with the local code up to the next one. The
goroutine's place is `pc`:

| `pc` | command about to be sent | code |
|---|---|---|
| `idle` | none: `StoreLock`, `KeepLock` take `mu` | `Store`, `KeepConfAlive` |
| `exists` | `EXISTS` sentinel | `KeepConfAlive` |
| `renew` | `PEXPIRE` of each key, then of the sentinel | `KeepConfAlive` |
| `track` | `SMEMBERS`, or `SADD` to the `_new` set | `removeOldKeys` |
| `diff` | `SDIFF` | `removeOldKeys` |
| `scan`, `unlink` | `KEYS`, `UNLINK` | `removeKeys` |
| `write` | `SET`, in sorted order | `store` |
| `stale`, `purge` | `KEYS`, `UNLINK` of one key | `removeStaleServerKeys` |
| `swap` | `RENAME`, else `UNLINK` | `swapKeys` |
| `stamp` | `SET` sentinel, then `lastConfig` | `store` |
| `down` | none: the handler has panicked | `createConfigHandler` |

Errors go where the code sends them: one in `removeOldKeys` or `removeKeys`
ends only the category (`store` drops the result), one in
`removeStaleServerKeys` passes over a service or a key, one in `SET` makes
`store` return, which ends the handler and is logged by a renewer. Redis rejects
`UNLINK` without keys, so a name that has no keys ends its category as well.

A failed command may or may not have taken effect. The other faults are a
repeated `RENAME` (the client lost the first reply; the repetition finds no
`_new` set and the tracking set is unlinked), a Redis restart that loses
everything (`Flush`), a process crash (`Crash`), and a renewal that comes too
late (`ExpireEarly`). `MaxFaults` bounds their number in a behaviour. `Lapse` is
no fault: Redis expires a key that no process renews.

A configuration says of each entry what it holds. `Key` are the entries that
`ConfigToKV` writes, `Silent` those that it drops because their text is empty:
the empty headers of a middleware, for one. `Names` are the names of the maps
(`collectKeys`), whether they have keys or only silent entries, and these are
what the tracking sets hold. So a name may be tracked without a key in Redis, and
its removal makes `UNLINK` fail without any fault.

Abstractions: the values are those that `ConfigToKV` makes; its errors are left
out. Names contain no glob characters. TTLs are not timed. Strings of keys are
records of category, name and field.

### Publication, and how RedisStore implements it

`Publication` knows, for each host, the configuration it is installing
(`current`), the one it installed last (`last`), and whether anything has failed
so far (`clean`). A host starts with a configuration that it may be offered (the
constant `Offered`: without merging, those of its containers) or once more with
`last`. While it installs, a key keeps its value or gets the one of
`current`, in any order and in steps of any size; it never takes a third value
and a key of `current` never disappears. Finishing makes `current` the new
`last`; as long as all is clean, Redis then holds the configuration (`Installed`).
A host may give up or restart, and Redis may lose keys or expire those that
nobody installs or keeps.

What a clean `Store` promises depends on what hosts share and on names without
keys. `KeysUnder(x)` are the keys below names that the containers of x may give,
`Own(x)` those below names that only x has, `Removable(x)` those in categories of
which x shares no name at all and in which all names of x have keys. A published
key of `Own(x)` has its value. But that the names a host no longer publishes are
gone, and that every key is tracked, holds for `Removable(x)` only: one name
without keys, because it never had any or because another host has removed them,
makes `UNLINK` fail, and the other names of its category are passed over. That is
a loss without any fault, and `store_orphan` shows it (section 3).

`RedisStore` implements it (`ImplementsPublication`, checked by `store_faults` and
proved in `PublicationProofs`):
`current` is the argument of the goroutine that holds the mutex and stores,
`last` is `lastConfig`, `clean` is `faults = 0`. All commands between `track`
and `stamp` map to `Install` or to nothing; `Stamp` is `Finish`.

### MergedStore

The handler gets a configuration of its own containers (`Receive`). For each
service with the merge label it sends `KEYS` (`GetsKeys`), one `GET` per key
(`GetsValue`), and makes the union with its own servers (`MergeServers`), in any
order, since the code ranges over a Go map. Then it calls `Store`, which is
`RedisStore` unchanged. Nothing holds the mutex between the first `KEYS` and
`Store`. A key that has gone reads as the empty address and uses up an index.

All hosts together implement `Publication` here, too
(`ImplementsMergedPublication`), with the same mapping. What a host is offered is
then made at run time from what others have written; `MergedConfs` says what it
may be: a configuration of the host's own containers with other servers in
services that have the label, and none of the host's own servers missing
(`Extended`). That holds although keys go and commands fail between two reads. It
does not say that the servers of others are all there, which is what
`merged_lost` refutes. Nor does `NoGap` say it: it is about keys, and a merge may
put another address under a key.

### ConfigHandler

A step is one lookup of a container, the only points where the handler can see
Docker change. Loops over Go maps pick any element of `todo`. An inspected
container is a record of what the handler reads from it: its service and router
labels, namespaces, merge flag, bind and network IPs, port label and the two
port maps. The cache puts the keys of the labels in lower case (`Normalize`),
while services and routers are looked up by the names that Traefik has for them:
`Lower` gives the lower-case form of a name, and one that is not its own
lower-case form is found in no container. A server is a pair of host and port. The port resolution
(`GetContainerPort` and below) is translated as operators.

Faults: a container changes while the handler works, the cache expires, Docker
fails. `Populate` lists and inspects at one moment, or fails. `Peers` are the
addresses that Redis may already hold for a service with the merge label;
`Gets` returning none of them, or failing, are the same. Left out: containers
without `HostConfig` or `NetworkSettings`, and services without servers. A
network label without an endpoint counts as no label.

### DockerProxy and Delivery

A label is a name with or without the prefix. `FilterLabels` gives all results
that Go's map order allows. `Listing` and `Forwards` are the two places where
the proxy filters. The watching provider lists, sends, subscribes, and lists
again for each event; when its stream ends it starts over. The poller's tick
cancels the previous attempt, waits for it, starts a new one and calls
`KeepConfAlive`. An attempt that has its listing sends it even when cancelled.
The watcher keeps the newest configuration and hands it to the listeners when it
differs from the last one. The handler stores it or dies. Traefik's provider and
watcher are external: modelled as far as this code depends on them (where they
list, what they send, which goroutine runs the listeners).

`missed` says whether a change since the last listing of the watching provider
went unseen by an open stream. Listings of the poller carry the number of
changes before them, so that their order can be told. Faults: a change without
an event (the documentation says it happens), the stream breaks, Docker does not
answer, the listing for an event fails, `Store` fails.

Left out: `handleContainerInspect` and `handleVersion`, which answer from Docker
alone; a client that leaves its event stream (both ends are one process);
`cancelActiveAttempt`, which runs when the pool stops, and `Start` never stops
it.

### KVWalk

A Go value is a tree of leaves, pointers, structs with tagged fields, maps and
slices; a path is a sequence of names. `Walk` is `walkTypedValue`. `Setting` is
what labels may set, `Configuration` the value Traefik's provider builds from
it, `ReadBack` what Traefik's KV provider makes of the entries, and `Meaning`
drops TLS options, which the code leaves out on purpose, and what is empty: list
elements and headers. Empty texts are not written, so no reader can have them
back.

## 3. Runs

| Run | Result |
|---|---|
| `store_faults` | any two faults: types, and who is at work on what (`StateOK`); a renewer stores only the newest finished configuration (`RenewalIsCurrent`); an update deletes no key that it publishes (`NoGap`); the store implements `Publication`. Before the first fault: a finished `Store` has installed the configuration (`InstalledWhenIdle`) and, where all names of a category have keys, every key stays tracked (`TrackedWhileClean`) |
| `store_heal` | a TTL and any two faults: once containers stop changing, and unless a handler died, Redis comes to hold exactly the last configuration, for good (`SelfHealing`) |
| `merged` | two hosts with a merged service, one fault: hosts that change in turn, and without a failure during a merge, all stay in the load balancer; after Redis lost everything they restore each other's servers until all are there (`MergedInTurn`). A host changes no key below a name its containers never have, and writes only what it was given or published last (`StaysHome`). What a host does to the shared service does not disturb the other's own one (`InstalledWhenIdle`). In any order and after a fault, each installs what its containers ask for, with none of its own servers lost (`ImplementsMergedPublication`) |
| `delivery` | two changes, one fault: the proxy drops no event that the provider needs (`NoMissedChange`), polls do not go back in time (`PollsInOrder`), the poller renews even while Docker hangs (`PollerRenews`), and what containers ask for is stored in the end (`EventuallyStored`) |
| `kv` | 6250 settings: Traefik reads back what was set (`RoundTrip`); keys lie below the names that `store` tracks, none has two values, and the names without keys are exactly the middlewares all of whose headers are empty (`KeysFollowNames`) |
| `handler` | 5 services, 2 Docker states, 3 settings, any two faults: `NamespaceRespected`, `RoutersResolve`, and every server at the port and the IP that its own container gives it (`ServersReal`; the IP but for the two cases of `handler_documented`), for every configuration whose lookups saw one set of containers |

The instance of the store has a category of middlewares, of routers and of
services, four names and six keys: enough for a name to come, go and stay, for one
and two servers of a service, for two names to be removed from one category, and
for a middleware without keys (`quiet`) to be removed with one that has some. The
routers and services of `store_faults` are `Removable`, the middlewares are not.
One host has a handler and one renewer; a second renewer would only take the
place of the first, since the mutex excludes them. Two faults make a fault during
the recovery from another
one. `store_faults` runs without a TTL, where Redis forgets nothing by itself,
`store_heal` with one and with late renewals.

`merged` has three server keys for two addresses, since an address that has
gone takes an index too; every name has keys there (`Silent` is empty). Both hosts keep the service in that run; two changes
and one fault (also in the middle of a restore) cover a merge into nothing, a
merge behind another host, and a restore of both. `merged_lost` lets the service
stop and come back, with three changes.

`delivery` has a container with a prefixed label and one for another instance, a
router with and one without entry points, and starts with and without polling.
The channel holds one configuration (100 in Traefik): senders wait more often
than they would.

The instance of the handler has a service of each protocol and two of HTTP, one
with two servers; containers with all labels, with router labels only, in a
labelled network, with bind labels, with several ports and with ports that
differ in protocol only. The TCP service is in a labelled network in one Docker
state and not in the other, where `ServersReal` therefore claims the IP of the UDP
service too. The UDP service's name is written in capitals in one container and in
one configuration.

The runs `store_faults`, `store_heal`, `merged`, `delivery` and `kv` let the
system stop: a handler that died before anything was stored, a process that was
restarted and gets no configuration, a watcher without polling and without
changes have nothing to do.

Every property is broken by a mutant of the code listed in `PROJECT.json`.

### Fairness

`FairSpec` assumes that a goroutine inside `Store` or `KeepConfAlive` goes on
(it only waits for Redis, whose client has time limits), that `KeepLock` is
taken when it stays possible (a ticker calls it for ever: the timer, and the
poller when there is no TTL), and that Redis expires what nobody renews.
`StoreLock` is not fair: nothing makes containers change. Weak fairness of
`KeepLock` is enough because the liveness properties only speak of behaviours
in which the handlers stay idle from some time on, so the mutex then only goes
from renewer to renewer.

`MergeFairSpec` adds that the handler goes on with its merge and, strongly, that
it gets the mutex although renewers take it again and again: Go's mutex hands
itself to a waiter after a millisecond.

`Delivery` assumes that each goroutine that can go on does and that the ticker
ticks. Nothing makes Docker answer: `PollerRenews` holds without it,
`EventuallyStored` is stated for a Docker that answers from some time on. One
assumption is about speed: a listing does not take longer than the poll interval
every time (strong fairness of `AttemptList`). Without it each attempt may be
cancelled before it has listed anything, and polling detects nothing; the
default of 60 seconds makes that unlikely, an interval of a second does not.

### Disagreements with the code's own description

These runs expect a violation. Each states what a comment or a document says.

* `store_orphan` (`NoOrphans`, one host, no fault). A middleware that has only
  empty headers is tracked and has no keys. When it is removed together with
  another middleware, `UNLINK` without keys fails, `removeKeys` returns before the
  other name, and `swapKeys` forgets it: its keys stay in Redis without any set
  that names them.
  Names without keys come about in two more ways. A crash after `SADD` leaves
  names in the `_new` set, which the next `Store` adopts. And when one of two
  hosts that share a service withdraws it and unlinks all its keys, the other
  has a name without keys; if it withdraws the service together with a second
  one, the second one's keys are forgotten in the same way.
* `store_flush_nottl` (`Restored`, one restart of Redis, no TTL). A restart
  while `Store` writes loses the keys written so far; the sentinel is written at
  the end all the same, and without a TTL `KeepConfAlive` looks at nothing else.
* `store_shared` (`OwnKeysOnly`, two hosts with a merged service). Restoring the
  first host's configuration runs `removeStaleServerKeys`, which deletes the
  second host's server.
* `merged_lost` (`MergedAlways`, two hosts with a merged service, no fault). The
  merges of two hosts overlap and the later one writes its server over the other
  host's. Renewals do not repair it: they look whether their keys exist, not
  what they hold. TLC finds the same loss in three other ways when the
  conditions of `MergedInTurn` are dropped one by one: a host withdraws the service and publishes
  it again before the others have restored their servers (no overlap at all);
  a host crashes between two `SET`s; two hosts restore at the same time after
  Redis lost everything.
* `delivery_dead` (`PollingIsFailsafe`, one failed `Store`). The handler panics
  in the watcher's goroutine, the pool recovers, and nobody handles
  configurations any more, while both providers and the renewals go on.
* `handler_documented` (`DocumentedIP`, no fault). The README puts the `bind.ip`
  labels first, then the container's network, then the host's IP, for every
  service. The TCP service of the run has a `bind.ip` label and is stored at its
  network IP all the same: only the HTTP loop of `replaceIPs` reads these labels.
  The UDP service of the run has no label and is stored at the TCP container's
  network IP instead of the host's: the TCP and UDP loops assign the network IP to
  the `ip` parameter, which the services after it start from.

Not a disagreement, since no document promises more: a label that disappears
from a router that stays leaves its key in Redis (only names and servers are
cleaned up) until the name goes or, with a TTL, until the key expires. The
properties allow such leftovers (`InstalledWhenIdle`, `Publication`); under a
TTL `SelfHealing` shows that they go. Empty texts are never written, so that a
header set to the empty string, by which Traefik removes it, does not reach the
other Traefik. And a service or router with a capital letter in its name is found
in no container: the cache has labels in lower case. It is published at the host's
IP and at the port Traefik has for it, and its namespace is not checked; the
handler's properties speak of services whose container can be found.

## 4. Proofs

All theorems hold for every value of the constants: any hosts, goroutines,
categories, keys, configurations, containers, labels, services, routers, and any
number of faults. They rest on the assumptions that the models name:

* `StoreAssumption`: every goroutine has a host, there is at least one category,
  keys and silent entries have a category and a name, the sorted order is strict, special values
  differ from ordinary ones. `CatSeqAssumption` (used by `StoreCleanProofs` and
  what rests on it): `store` goes through each category once, as its list of
  categories does.
* `MergeAssumption`: the server fields of a service are listed in an order.
  `ServerAssumption`: servers are numbered without a bound, so that there is a
  field for every place in a list of addresses, and a key for every field.
* `ProxyAssumption`, `DeliveryAssumption`: labels have keys and values; no
  container asks for the internal default entry point by name; an entry point
  list is a function from router names; "no configuration" is not one.
* `HandlerAssumption`: routers and services have one of the three protocols, a
  router and its service the same; services have servers, numbered from 1; the
  labels of a container name services and routers, and so do their lower-case
  forms. `NotFoundAssumption`: "not found" is no container. `LabelAssumption`: no
  container has two labels that differ in case only.
  `PortAssumption` (used by `ServerAddressProofs`): port maps give lists, and
  Docker's runtime bindings have real host ports where the configuration may ask
  for port "0", as `docker.go` says. It is needed: the fallback of
  `getPortBinding` to the runtime bindings, unlike the other places, takes any
  port but the empty one.

| Module | Theorem | Statement |
|---|---|---|
| `RedisStoreProofs` | `StateCorrect` | `Spec => []StateOK` |
| | `MutualExclusion` | `Spec => []LockInv`: a goroutine is inside `Store` or `KeepConfAlive` exactly when it holds the mutex of its process |
| | `RenewalCurrent` | `Spec => []RenewalIsCurrent` |
| | `NoGapHolds` | `Spec => NoGap` |
| `StoreHomeProofs` | `StaysHomeHolds` | `Spec => StaysHome` |
| `StoreCleanProofs` | `InstalledHolds` | `Spec => []InstalledWhenIdle` |
| | `TrackedHolds` | `Spec => []TrackedWhileClean` |
| `PublicationProofs` | `Refinement` | `Spec => ImplementsPublication` |
| `MergedStoreProofs` | `MergedInvariant` | `MergeSpec => []MergedInv` |
| | `MergedStaysHome` | `MergeSpec => StaysHome` |
| | `MergedInstalledHolds` | `MergeSpec => []InstalledWhenIdle` |
| | `MergedRenewalCurrent` | `MergeSpec => []RenewalIsCurrent` |
| | `MergedTrackedHolds` | `MergeSpec => []TrackedWhileClean` |
| | `MergedNoGap` | `MergeSpec => NoGap` |
| | `MergedRefinement` | `MergeSpec => ImplementsMergedPublication` |
| `DeliveryProofs` | `TypeCorrect` | `DeliverySpec => []TypeOK` |
| | `NoMissedChangeHolds` | `DeliverySpec => []NoMissedChange` |
| | `PollsInOrderHolds` | `DeliverySpec => []PollsInOrder` |
| `ConfigHandlerProofs` | `TypeCorrect` | `Spec => []TypeOK` |
| | `NamespacesHold` | `Spec => []NamespaceRespected` |
| | `RoutersHold` | `Spec => []RoutersResolve` |
| `ServerAddressProofs` | `AddressesHold` | `Spec => []ServersReal` |

### The store under any faults

One inductive invariant, `StoreInv`:

* `TypeOK` and `LockInv`;
* `HoldInv`: who stores has a configuration, and who checks or renews is a
  renewer whose host has a `lastConfig`. `TypeOK` needs it, since a restore
  makes `lastConfig` its argument;
* `RenewalIsCurrent`: kept because only the holder of the mutex changes
  `lastConfig`, which is where `LockInv` is used;
* `RemovalInv`: before `SDIFF`, no name of the new configuration is in the
  tracking set without being in the `_new` set; while removing, no name to
  remove is in the configuration; what is about to be unlinked is not published
  by it. `NoGap` is not inductive, and follows from this: a stale `_new` set may
  hold too many names but never too few, whatever crash left it.

Two frame lemmas carry it from a goroutine to the others: a step of `g` changes
no local variable of another goroutine (`RunFrame`), and another goroutine that
is inside belongs to another host (`OthersOutside`), whose sets `g` does not
touch. A Redis restart empties both sets at once, which keeps `RemovalInv`.

The lemmas are about `Act(g)`, a step of `g` that may store any configuration
with names of its own host, and with keys for all names of a category in which the
host's own configurations have them (`HomeConf`). The steps of `RedisStore` are such steps,
and so are those of `MergedStore`, whose configurations are made at run time.

`HomeInv` adds where things belong: tracking sets, arguments, `lastConfig` and
what a goroutine has found lie below the host's own names. Since `KEYS` and
`UNLINK` are sent for tracked names only, no step reaches a foreign one.

### The store as long as nothing fails

`CleanInv` says, for each host, how far a `Store` has come with each category.
Idle (`CleanIdle`): the tracking sets are the names of `lastConfig`, the `_new`
sets are empty, own keys have their values, removable keys have published names.
Busy (`CleanBusy`): a set is old before its swap and new after it (`SetsExact`);
own keys of the last configuration are there until their name is removed
(`LastPresent`), so that `KEYS` finds some for every name of a removable category
and `UNLINK` does not fail (`RemovesSome`); names in Redis are old before the removal of their
category and new after it (`NamesExact`); what is written stays
(`WrittenPresent`); a server that the configuration does not have is still to be
looked at (`ServersLeft`). `StaysHome` keeps all of this true under the steps of
other hosts: they do not reach `Own(x)`.

### The refinement

The mapping of `ImplementsPublication` turns a step of `g` into a step of its
host: taking the mutex for `Store`, or finding keys gone, is `Start`; commands
from `track` to `swap` are `Install`, where `RemovalInv` gives `Toward` (what is
unlinked is not in `current`); `Stamp` is `Finish`, where `CleanInv` gives
`Installed`; errors that end `store` are `Abort`; `Crash` is `Restart`; `Flush`,
early expiry and errors without effect are `Lose`; `Lapse` is `Expire`. The rest
are stutters. `ActAbstract` says this of any `Act`, and leaves open only what a
host starts with; `RunAbstract` adds that without merging it is a configuration
of the containers.

### Merging handlers

`MergeInv` says of a handler at work that some configuration `base` of its
containers is behind what it has in hand (`MergesFrom`): the configuration is an
extension of `base`, and only services of `base` are looked up. A merge of one
more service keeps that (`WithServersExtends`): the list has every server the
service had, each of them gets a field of its own (`WithServersAll`, where
`ServerAssumption` is used), and other services are not touched. That the names
are the host's own follows from it (`ExtendedHome`).

So the step that stores it is an `Act`, and `StoreInv`, `HomeInv` and `CleanInv`
follow as before. Reads of the merge are stutters of `Publication`, or `Lose` when
they fail; the `Store` after them is `Start` with an element of `MergedConfs`; for
all else the two instances of `Publication` agree (`SamePublication`).

### From Docker to the handler

`NoMissedChange` speaks of a provider that watches. Its invariant (`WatchInv`)
also says that before the subscription the stream is closed, when a change
counts as missed, so that a listing sent before it is still right when it
begins. A change that is pushed puts its event into the stream (`ChangePushed`)
or, if listings hide its container, changes no listing; `handleEvents` drops only
such events (`EventKept`). Both rest on `FiltersAgree`: listings and events use
the same filter.

`PollsInOrder` needs that there is at most one attempt, since `Stop` waits; that
no listing is from the future; and that messages of the watching provider have
no age.

The types need one fact about data, `DefaultStripped`: removing the default entry
point undoes adding it, given that no container asks for it itself.

### The handler's filters

`FilterInv` says of every service and router that `filterServices` has come to,
by protocol and by `todo`, that it is left exactly when its container is in the
namespaces. Two facts make it inductive. `Snapshot`: once something was looked
up, another lookup finds the same containers, because the cache is fresh or,
after it expired, is filled again with what it had; a container that changes and
an expiry, together, are excluded by `OneSnapshot`. `Untouched`: what has not been
visited is still there, so that a service is looked up with all its routers:
those of its protocol are filtered after it. `FindsIt` is where the order of
`filterServices` matters: were routers filtered first, a service whose container
only has router labels would be looked up without any, not be found, and stay.

### The handler's addresses

`ServersReal` compares what is stored with a reference that does not look at the
handler's steps: `RealIP`, the README's precedence for the service's own
container, whatever the protocol, and `RealPorts`, which is a set where the
documentation leaves open which of several published ports is meant. The code
departs from `RealIP` in two cases (run `handler_documented`), and `AsDocumented`
names them: a TCP or UDP service whose container has a `bind.ip` label, and one
whose container has no network label while that of another TCP or UDP service
has. In these `ServersReal` speaks of the port only; otherwise it demands exactly
the documented IP.

Containers of the cache are normalised ones (`Cached`); of these the proofs need
that they have the port maps of an inspected container (`CachedType`).

Ports first. `FirstPortReal` needs the least of a set of numbers
(`LeastNumber`, from the well-foundedness of `<`); `ServicePortReal`,
`PortBindingReal` and `ContainerPortReal` say that each level of the resolution
returns a port of the reference. Then lookups: after the filters, a lookup of a
service that is left finds its own container (`LaterLookup`). That rests on
`FilterInv`: the service is left because its container is in the namespaces, and
so all of its routers are left too, through which it is found.

`AddressInv` says that services `replaceIPs` has done with are right
(`ReplacedRight`); that the one at work is right up to the server it has reached,
and what the earlier lookups of this server have shown (`CurrentRight`), so that
the IP and the port of an address come from one container; that `ip` is the
host's IP as long as HTTP is at work, and later that or the network IP of a
container of a TCP or UDP service (`Parameter`); and that with `--skip-replace` the
addresses are Traefik's own (`Skipped`). From `Parameter` it follows that the
parameter still is the host's IP when no such container has a network label, which
is what `AsDocumented` asks for.

### Only model-checked

* All liveness: `SelfHealing`, `MergedInTurn`, `PollerRenews`, `EventuallyStored`.
  Liveness under fairness is out of the prover's reach.
* `KVWalk`: recursive operators, and what they compute for every input needs
  induction over data.

## 5. Not modelled, and the plan

Left, in this order:

1. A timed renewal: TTL/3 against the TTL.
2. Replicas: what several containers of one service should give.

Loading of configuration and TLS files, the command line and the test service
run once or keep no state; they stay outside. So do the texts of keys: a name
with glob characters or a percent sign is not modelled, and of case only that it
is lost.
