------------------------------ MODULE MCDelivery ------------------------------
(***************************************************************************)
(* Two containers: one enabled by a label with the prefix, and one that    *)
(* only has labels for another traefik-kop or Traefik.                     *)
(***************************************************************************)
EXTENDS Delivery

CONSTANTS web, other

Prefixed(n) == [prefixed |-> TRUE, name |-> n]
Plain(n) == [prefixed |-> FALSE, name |-> n]

MCContainer == {web, other}

MCLabels ==
    [c \in MCContainer |->
        IF c = web
          THEN [k \in {Prefixed("traefik.enable"), Prefixed("kop.namespace"), Plain("kop.namespace")} |-> "true"]
          ELSE [k \in {Plain("traefik.enable")} |-> "true"]]

MCEntryPoints == [c \in MCContainer |-> [http |-> <<>>, https |-> <<"websecure">>]]
===============================================================================
