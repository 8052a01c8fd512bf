------------------------------ MODULE Publication ------------------------------
(***************************************************************************)
(* What the stores of traefik-kop promise to a Traefik that reads Redis,   *)
(* without mutexes, commands or tracking sets.                             *)
(*                                                                         *)
(* A host installs one configuration at a time.  Each step of it moves     *)
(* some keys to what the configuration says of them, and no key away from  *)
(* it.  When the host is through, and nothing was lost on the way, the     *)
(* configuration is in Redis and names that it no longer has are gone, in  *)
(* categories where they are the host's alone and all have keys.           *)
(***************************************************************************)
EXTENDS Configurations

CONSTANT
    Offered     \* the configurations that a host may begin with

VARIABLES
    kv,         \* what Traefik reads
    current,    \* the configuration each host is installing
    last,       \* the configuration each host keeps alive
    clean       \* nothing was lost and nothing failed so far

vars == <<kv, current, last, clean>>

\* Redis has the keys of the configuration, with their values, as far as no
\* other host publishes under the same names; and none of the names of x that the
\* configuration does not have, in categories where x shares no name and all its
\* names have keys.
Installed(x, conf) ==
    /\ \A k \in Own(x) : conf[k] # Absent => kv[k] = conf[k]
    /\ \A k \in Removable(x) : kv[k] # Absent => k.name \in Names(conf, k.cat)

\* Keys stay as they are or become what host x installs.
Toward(x) == \A k \in Key : kv'[k] \in {kv[k], current[x][k]}

Init ==
    /\ kv = [k \in Key |-> Absent]
    /\ current = [x \in Host |-> NoConf]
    /\ last = [x \in Host |-> NoConf]
    /\ clean = TRUE

\* A host begins with a new configuration, or once more with its last one.
Start(x) ==
    /\ current[x] = NoConf
    /\ current'[x] \in Offered[x] \cup ({last[x]} \ {NoConf})
    /\ current' = [current EXCEPT ![x] = current'[x]]
    /\ UNCHANGED <<kv, last, clean>>

Install(x) ==
    /\ current[x] # NoConf
    /\ Toward(x)
    /\ clean' \in {clean, FALSE}
    /\ UNCHANGED <<current, last>>

Finish(x) ==
    /\ current[x] # NoConf
    /\ clean => Installed(x, current[x])
    /\ last' = [last EXCEPT ![x] = current[x]]
    /\ current' = [current EXCEPT ![x] = NoConf]
    /\ UNCHANGED <<kv, clean>>

\* The host gives up, in the middle of a step.
Abort(x) ==
    /\ current[x] # NoConf
    /\ Toward(x)
    /\ current' = [current EXCEPT ![x] = NoConf]
    /\ clean' = FALSE
    /\ UNCHANGED last

\* The host starts over without its memory.
Restart(x) ==
    /\ current' = [current EXCEPT ![x] = NoConf]
    /\ last' = [last EXCEPT ![x] = NoConf]
    /\ clean' = FALSE
    /\ UNCHANGED kv

\* Redis loses keys, or an operation fails that shows no effect.
Lose ==
    /\ \A k \in Key : kv'[k] \in {kv[k], Absent}
    /\ clean' = FALSE
    /\ UNCHANGED <<current, last>>

\* Keys expire that no host installs or keeps alive.
Expire ==
    /\ \A k \in Key :
          \/ kv'[k] = kv[k]
          \/ /\ kv'[k] = Absent
             /\ \A x \in Host : \A conf \in {current[x], last[x]} \ {NoConf} : conf[k] = Absent
    /\ UNCHANGED <<current, last, clean>>

Next ==
    \/ \E x \in Host : Start(x) \/ Install(x) \/ Finish(x) \/ Abort(x) \/ Restart(x)
    \/ Lose
    \/ Expire

Spec == Init /\ [][Next]_vars
===============================================================================
