----------------------------- MODULE MCMergedStore -----------------------------
(***************************************************************************)
(* Two hosts that share service "a"; the second one also has a service "b" *)
(* of its own.                                                             *)
(***************************************************************************)
EXTENDS MergedStore

CONSTANTS h1, h2, handler1, handler2, renewer1, renewer2

Sv(n, f) == [cat |-> "http_services", name |-> n, field |-> f]

MCServerSeq == <<"server0", "server1", "server2">>
Sorted == <<Sv("a", "server0"), Sv("a", "server1"), Sv("a", "server2"), Sv("b", "server0")>>

MCCatSeq == <<"http_services">>
MCServiceCat == {"http_services"}
MCName == {"a", "b"}
MCServerField == {"server0", "server1", "server2"}
MCKey == {Sorted[i] : i \in DOMAIN Sorted}
MCRank == [k \in MCKey |-> CHOOSE i \in DOMAIN Sorted : Sorted[i] = k]

MCHost == {h1, h2}
MCGoroutine == {handler1, renewer1, handler2, renewer2}
MCHostOf == [g \in MCGoroutine |-> IF g \in {handler1, renewer1} THEN h1 ELSE h2]
MCHandler == {handler1, handler2}

Empty == [k \in MCKey |-> Absent]
FirstHost == [Empty EXCEPT ![Sorted[1]] = "addr1"]
OnlyOwn == [Empty EXCEPT ![Sorted[4]] = "addr2"]
SharedOnly == [Empty EXCEPT ![Sorted[1]] = "addr2"]
SecondHost == [OnlyOwn EXCEPT ![Sorted[1]] = "addr2"]

\* The containers of both hosts always have service "a".
Steady == [x \in MCHost |-> IF x = h1 THEN {FirstHost} ELSE {SecondHost, SharedOnly}]

\* They may also stop and come back.
Redeployed == [x \in MCHost |-> IF x = h1 THEN {Empty, FirstHost} ELSE {SecondHost, OnlyOwn}]
===============================================================================
