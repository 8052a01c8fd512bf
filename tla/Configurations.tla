---------------------------- MODULE Configurations ----------------------------
(***************************************************************************)
(* Configurations, the keys of Redis that they publish, and the keys that  *)
(* the hosts share or have for themselves.                                 *)
(*                                                                         *)
(* A configuration says of each entry what it holds.  Most entries are     *)
(* keys: ConfigToKV writes them to Redis.  The silent ones are settings    *)
(* that it drops, such as the empty headers of a middleware: a name may    *)
(* be in the configuration, and be tracked, without any key below it.      *)
(***************************************************************************)
CONSTANTS
    Host,       \* the hosts, one traefik-kop process on each
    Key,        \* the keys of Redis, records with a category, a name and a field
    Silent,     \* the settings that become no key, records as the keys
    Absent,     \* the entry is not there
    Confs,      \* the configurations a host's containers may give
    NoConf      \* no configuration

Entry == Key \cup Silent

\* The keys a configuration publishes (ConfigToKV).
Published(conf) == {k \in Key : conf[k] # Absent}

\* The names in the map of one category (collectKeys), with keys or without.
Names(conf, c) == {e.name : e \in {j \in Entry : conf[j] # Absent /\ j.cat = c}}

\* The keys below the names that configurations of host x may hold.
KeysUnder(x) == {k \in Key : \E conf \in Confs[x] : k.name \in Names(conf, k.cat)}

\* Those of them that lie below no name of another host.
Own(x) == {k \in KeysUnder(x) : \A y \in Host \ {x} : k \notin KeysUnder(y)}

\* Every name that conf has in category c comes with a key.
AllKeyed(conf, c) ==
    \A n \in Names(conf, c) : \E k \in Published(conf) : k.cat = c /\ k.name = n

\* Those in categories of which x shares no name with another host, and in
\* which no configuration of x has a name without keys.
Removable(x) ==
    {k \in KeysUnder(x) :
        /\ \A j \in KeysUnder(x) : j.cat = k.cat => j \in Own(x)
        /\ \A conf \in Confs[x] : AllKeyed(conf, k.cat)}
===============================================================================
