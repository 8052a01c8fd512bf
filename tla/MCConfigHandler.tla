---------------------------- MODULE MCConfigHandler ----------------------------
(***************************************************************************)
(* Two HTTP services, a TCP and a UDP service, each in a container of its  *)
(* own until a container is replaced.  The UDP service's name is written   *)
(* in capitals in one container and in one configuration.                  *)
(***************************************************************************)
EXTENDS ConfigHandler, TLC

web == [type |-> "http", name |-> "web"]
api == [type |-> "http", name |-> "api"]
db  == [type |-> "tcp",  name |-> "db"]
dns == [type |-> "udp",  name |-> "dns"]
DNS == [type |-> "udp",  name |-> "DNS"]

MCService == {web, api, db, dns, DNS}
MCRouter == MCService   \* each service has a router with its name
MCLower == [s \in MCService |-> IF s = DNS THEN dns ELSE s]

NoPorts == [k \in {} |-> <<>>]
Ports(port, proto, list) == [k \in {<<port, proto>>} |-> list]

Plain ==
    [services |-> {}, routers |-> {}, ns |-> {}, merge |-> FALSE,
     bind |-> [s \in MCService |-> Unset], bindAll |-> Unset, network |-> Unset,
     port |-> [s \in MCService |-> ""], bound |-> NoPorts, configured |-> NoPorts]

\* A container with all labels of its service.
Web == [Plain EXCEPT !.services = {web}, !.routers = {web}, !.ns = {"prod", "test"},
            !.merge = TRUE, !.port[web] = "80",
            !.bound = Ports("80", "tcp", <<"", "8080">>)]
WebBound == [Web EXCEPT !.bindAll = "ip2"]
\* A container with router labels only, an overlay network and one port.
Api == [Plain EXCEPT !.routers = {api}, !.network = "net1",
            !.configured = Ports("81", "tcp", <<"0">>),
            !.bound = Ports("81", "tcp", <<"8181">>)]
\* The same service in a namespace, with several ports.
ApiProd == [Plain EXCEPT !.services = {api}, !.routers = {api}, !.ns = {"prod"},
            !.bind[api] = "ip3", !.bindAll = "ip2",
            !.configured = Ports("82", "udp", <<"8282">>) @@ Ports("83", "tcp", <<"8383">>)]
\* TCP in an overlay network, or at the host's address; UDP at the host's address.
DbNet == [Plain EXCEPT !.services = {db}, !.routers = {db}, !.network = "net2", !.ns = {"prod"},
            !.configured = Ports("53", "tcp", <<"5353">>)]
Db == [DbNet EXCEPT !.network = Unset]
Dns == [Plain EXCEPT !.services = {dns}, !.routers = {dns}, !.ns = {"prod"}, !.merge = TRUE,
            !.configured = Ports("53", "udp", <<"5354">>)]
\* The same with its labels in capitals, and with a port label.
DnsCapitals == [Dns EXCEPT !.services = {DNS}, !.routers = {DNS}, !.port[DNS] = "53"]

MCInspect == {Web, WebBound, Api, ApiProd, DbNet, Db, Dns, DnsCapitals}

MCContainer == 1..4
MCDockers == {<<Web, Api, DbNet, Dns>>, <<WebBound, ApiProd, Db, DnsCapitals>>}

\* TCP has a bind.ip label and an overlay network; UDP has no label.
DbBound == [DbNet EXCEPT !.bind[db] = "ip4"]
BindInspect == {Web, Api, DbBound, Dns}
BindDockers == {<<Web, Api, DbBound, Dns>>}

Servers ==
    [s \in MCService |-> CASE s = web -> <<"80", "8000">> [] s = api -> <<"81">> [] OTHER -> <<"53">>]

Conf(S) == [services |-> S, routers |-> S, target |-> [r \in MCRouter |-> r], servers |-> Servers]
MCInput == {Conf({web, api, db, dns}), Conf({db, DNS})}
BindInput == {Conf({db, dns})}

MCSettings == {[ns |-> {}, skip |-> FALSE], [ns |-> {"prod"}, skip |-> FALSE],
               [ns |-> {"prod"}, skip |-> TRUE]}

MCPeers == {<<"peer", "80">>}
===============================================================================
