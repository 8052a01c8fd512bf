----------------------------- MODULE MCRedisStore -----------------------------
(***************************************************************************)
(* A small instance of RedisStore for TLC: a router and a service with up   *)
(* to two servers under the name "a", a router and a service named "b", and *)
(* two middlewares, of which the one named "quiet" has no keys.             *)
(***************************************************************************)
EXTENDS RedisStore

CONSTANTS h1, h2, handler1, handler2, renewer1, renewer2

K(c, n, f) == [cat |-> c, name |-> n, field |-> f]

MCCatSeq == <<"http_middlewares", "http_routers", "http_services">>
MCServiceCat == {"http_services"}
MCName == {"a", "b", "auth", "quiet"}
MCServerField == {"server0", "server1"}

\* The keys in the order sort.Strings gives them.
Sorted ==
    << K("http_middlewares", "auth", "users"),
       K("http_routers", "a", "rule"),
       K("http_routers", "b", "rule"),
       K("http_services", "a", "server0"),
       K("http_services", "a", "server1"),
       K("http_services", "b", "server0") >>

MCKey == {Sorted[i] : i \in DOMAIN Sorted}
MCRank == [k \in MCKey |-> CHOOSE i \in DOMAIN Sorted : Sorted[i] = k]

\* The empty headers of the middleware without keys.
Headers == K("http_middlewares", "quiet", "headers")
MCSilent == {Headers}

\* The configuration with value v under the keys at the positions S.
Publish(S, v) ==
    [k \in MCKey \cup MCSilent |-> IF k \in MCKey /\ MCRank[k] \in S THEN v ELSE Absent]

Nothing == Publish({}, "v1")        \* no container
OneServer == Publish({2, 4}, "v1")  \* a, with one server
TwoServers == Publish({1, 2, 4, 5}, "v2")  \* a, with a middleware and two servers
OnlyB == Publish({3, 6}, "v1")      \* b
Both == Publish({2, 3, 4, 6}, "v2") \* a and b
Quiet == [Publish({1, 2, 4}, "v1") EXCEPT ![Headers] = "v1"]  \* a, with both middlewares

\* One host.
SoloHost == {h1}
SoloGoroutine == {handler1, renewer1}
SoloHostOf == [g \in SoloGoroutine |-> h1]
SoloHandler == {handler1}
SoloConfs == [x \in SoloHost |-> {Nothing, Quiet, TwoServers, OnlyB, Both}]
HealConfs == [x \in SoloHost |-> {Quiet, OnlyB}]

\* Two hosts that both serve "a".
PairHost == {h1, h2}
PairGoroutine == {handler1, renewer1, handler2, renewer2}
PairHostOf ==
    [g \in PairGoroutine |-> IF g \in {handler1, renewer1} THEN h1 ELSE h2]
PairHandler == {handler1, handler2}
\* The second host has merged its own server behind the first host's.
Merged == [OneServer EXCEPT ![Sorted[5]] = "v2"]
SharedConfs ==
    [x \in PairHost |-> IF x = h1 THEN {OneServer} ELSE {Merged}]
===============================================================================
