-------------------------------- MODULE KVWalk --------------------------------
(***************************************************************************)
(* ConfigToKV (kv.go): a configuration becomes the keys and values that    *)
(* are written to Redis, from which Traefik's KV provider reads it back on *)
(* another host.                                                           *)
(*                                                                         *)
(* A Go value is a tree: leaves with their text, pointers, structs with    *)
(* the json and label tags of their fields, maps and slices.  A path is    *)
(* the sequence of its parts.  The configurations are those that Traefik's *)
(* Docker provider builds, cut down to the types of field that the walk    *)
(* treats differently.                                                     *)
(***************************************************************************)
EXTENDS Integers, Sequences, FiniteSets

CONSTANTS
    EntryPointLists, \* the entry points that a router may list
    ServerLists,     \* the addresses that a load balancer may list
    Index,           \* the indices of slices as they appear in paths
    Missing          \* there is no such router, service, middleware or setting

-------------------------------------------------------------------------------
(***************************************************************************)
(* Go values.                                                              *)
(***************************************************************************)
Nil == [kind |-> "nil"]
Leaf(text, zero) == [kind |-> "leaf", text |-> text, zero |-> zero]
Ptr(v) == [kind |-> "ptr", to |-> v]
Struct(fields) == [kind |-> "struct", fields |-> fields]
Map(entries) == [kind |-> "map", entries |-> entries]
Slice(elems) == [kind |-> "slice", elems |-> elems]

\* A struct field with its tags json:"<name>[,omitempty]" (or "-") and label:"allowEmpty".
Field(name, v) == [name |-> name, value |-> v, omit |-> FALSE, skip |-> FALSE, allowEmpty |-> FALSE]
Omit(f) == [f EXCEPT !.omit = TRUE]
Hidden(f) == [f EXCEPT !.skip = TRUE]
AllowEmpty(f) == [f EXCEPT !.allowEmpty = TRUE]

\* isEmptyJSONValue
IsEmptyJSONValue(v) ==
    \/ v.kind = "nil"
    \/ v.kind = "leaf" /\ v.zero
    \/ v.kind = "map" /\ DOMAIN v.entries = {}
    \/ v.kind = "slice" /\ v.elems = <<>>

-------------------------------------------------------------------------------
(***************************************************************************)
(* The walk: the entries that are added, and whether any was.              *)
(***************************************************************************)
Nothing == [data |-> {}, added |-> FALSE]

\* KV.add: an entry below traefik/tls/ is not kept, but counts as added.
Add(path, text) ==
    [data |-> IF Len(path) > 2 /\ path[2] = "tls" THEN {} ELSE {[path |-> path, text |-> text]},
     added |-> TRUE]

\* What several children add.
All(results) == [data |-> UNION {r.data : r \in results}, added |-> \E r \in results : r.added]

\* reKeyName: the maps whose keys are names.
IsNameMap(path) == Len(path) = 3 /\ path[3] \in {"routers", "services", "middlewares"}

\* Mutant: only the names of routers and services lose the provider.
KeepProvider(path, key) == IF IsNameMap(path) /\ path[3] # "middlewares" THEN key.name ELSE key.full

\* The part of the path for an entry: names lose their "@docker" (stripDocker).
MapKey(path, key) == IF IsNameMap(path) THEN key.name ELSE key.full

RECURSIVE Walk(_, _, _)

\* Mutant: a struct without fields that are set is passed over.
WalkPointerPlainly(path, v, allowEmpty) == Walk(path, v.to, FALSE)

\* walkTypedValue for a pointer: allowEmpty marks a struct in which nothing is set.
WalkPointer(path, v, allowEmpty) ==
    LET walked == Walk(path, v.to, FALSE)
    IN  IF ~walked.added /\ allowEmpty /\ v.to.kind = "struct"
          THEN Add(path, "true")
          ELSE walked

WalkLeaf(path, v) == IF v.text # "" THEN Add(path, v.text) ELSE Nothing

WalkStruct(path, v) ==
    All({Walk(Append(path, f.name), f.value, f.allowEmpty) :
            f \in {v.fields[i] : i \in {j \in DOMAIN v.fields :
                      /\ ~v.fields[j].skip
                      /\ ~(v.fields[j].omit /\ IsEmptyJSONValue(v.fields[j].value))}}})

WalkMap(path, v) ==
    All({Walk(Append(path, MapKey(path, k)), v.entries[k], FALSE) : k \in DOMAIN v.entries})

\* Elements have their index, also when some add nothing.
WalkSlice(path, v) ==
    All({Walk(Append(path, Index[i]), v.elems[i], FALSE) : i \in DOMAIN v.elems})

\* walkTypedValue
Walk(path, v, allowEmpty) ==
    CASE v.kind = "nil"    -> Nothing
      [] v.kind = "ptr"    -> WalkPointer(path, v, allowEmpty)
      [] v.kind = "leaf"   -> WalkLeaf(path, v)
      [] v.kind = "struct" -> WalkStruct(path, v)
      [] v.kind = "map"    -> WalkMap(path, v)
      [] v.kind = "slice"  -> WalkSlice(path, v)

ConfigToKV(conf) == Walk(<<"traefik">>, conf, FALSE).data

-------------------------------------------------------------------------------
(***************************************************************************)
(* The configurations: what the labels of a container set, and what the    *)
(* Docker provider makes of it.                                            *)
(***************************************************************************)
Setting ==
    [router     : [entryPoints : EntryPointLists, priority : {0, 5}, tls : {Missing, "default", "resolver"}]
                      \cup {Missing},
     service    : [servers : ServerLists, passHostHeader : BOOLEAN, sticky : {Missing, "default", "named"}]
                      \cup {Missing},
     middleware : {Missing, "compress", "headers", "some headers", "no headers"},
     tlsOptions : BOOLEAN]

Text(t) == Leaf(t, t = "")
Texts(list) == Slice([i \in DOMAIN list |-> Text(list[i])])
Name(n) == [name |-> n, full |-> n \o "@docker"]

\* A map with one entry, or the empty map.
MapOf(n, v) == Map([k \in (IF v = Nil THEN {} ELSE {Name(n)}) |-> v])

\* A pointer to a struct that may be there without any of its fields set.
Optional(kind, set, f) ==
    CASE kind = Missing -> Nil
      [] kind = set     -> Ptr(Struct(<<f>>))
      [] OTHER          -> Ptr(Struct(<<Omit([f EXCEPT !.value = Text("")])>>))

RouterOf(r) ==
    IF r = Missing THEN Nil ELSE Ptr(Struct(<<
        Omit(Field("entryPoints", Texts(r.entryPoints))),
        Omit(Field("service", Text("web"))),
        Omit(Field("priority", Leaf(IF r.priority = 0 THEN "0" ELSE "5", r.priority = 0))),
        AllowEmpty(Omit(Field("tls", Optional(r.tls, "resolver", Field("certResolver", Text("le")))))) >>))

ServiceOf(s) ==
    IF s = Missing THEN Nil ELSE Ptr(Struct(<<
        Omit(Field("loadBalancer", Ptr(Struct(<<
            AllowEmpty(Omit(Field("sticky", Optional(s.sticky, "named", Field("cookie", Text("id")))))),
            Omit(Field("servers", Slice([i \in DOMAIN s.servers |-> Struct(<<
                Omit(Field("url", Text(s.servers[i]))),
                Hidden(Field("scheme", Text("http"))) >>)]))),
            Omit(Field("passHostHeader",
                Ptr(Leaf(IF s.passHostHeader THEN "true" ELSE "false", ~s.passHostHeader)))) >>)))) >>))

\* The headers of a middleware, of which some or all may have an empty text.
HeadersOf(m) ==
    CASE m = "headers"      -> [k \in {Name("env")} |-> Text("prod")]
      [] m = "some headers" -> [k \in {Name("env"), Name("via")} |-> Text(IF k.name = "env" THEN "prod" ELSE "")]
      [] m = "no headers"   -> [k \in {Name("via")} |-> Text("")]

MiddlewareOf(m) ==
    IF m = Missing THEN Nil ELSE Ptr(Struct(<<
        AllowEmpty(Omit(Field("compress", IF m = "compress" THEN Ptr(Struct(<<>>)) ELSE Nil))),
        Omit(Field("headers", IF m = "compress" THEN Nil ELSE Ptr(Struct(<<
            Omit(Field("customRequestHeaders", Map(HeadersOf(m)))) >>)))) >>))

Configuration(set) ==
    Struct(<<
        Omit(Field("http", Ptr(Struct(<<
            Omit(Field("routers", MapOf("web", RouterOf(set.router)))),
            Omit(Field("services", MapOf("web", ServiceOf(set.service)))),
            Omit(Field("middlewares", MapOf("mw", MiddlewareOf(set.middleware)))) >>)))),
        Omit(Field("tls", Ptr(Struct(<<
            Omit(Field("options", IF set.tlsOptions
                THEN Map([k \in {Name("default")} |-> Struct(<<Field("sniStrict", Text("true"))>>)])
                ELSE Nil)) >>)))) >>)

\* What a setting comes to in Redis: empty elements of a list do not count,
\* headers with an empty text are lost (and with them a middleware that has no
\* others), and the TLS options are left out.
Meaning(set) ==
    LET real(list) == SelectSeq(list, LAMBDA t : t # "")
    IN  [set EXCEPT !.router = IF @ = Missing THEN @ ELSE [@ EXCEPT !.entryPoints = real(@)],
                    !.service = IF @ = Missing THEN @ ELSE [@ EXCEPT !.servers = real(@)],
                    !.middleware = CASE @ = "some headers" -> "headers" [] @ = "no headers" -> Missing [] OTHER -> @,
                    !.tlsOptions = FALSE]

-------------------------------------------------------------------------------
VARIABLES
    set,    \* what the labels set
    data    \* the entries that ConfigToKV returns for it, Missing before the call

vars == <<set, data>>

Init == set \in Setting /\ data = Missing

Store ==
    /\ data = Missing
    /\ data' = ConfigToKV(Configuration(set))
    /\ UNCHANGED set

Spec == Init /\ [][Store]_vars

-------------------------------------------------------------------------------
(***************************************************************************)
(* Properties.                                                             *)
(***************************************************************************)

\* The texts under a path, and the list of texts that slice path/<i>/tail holds.
At(path) == {e.text : e \in {d \in data : d.path = path}}

ListAt(path, tail) ==
    LET of(i) == At(path \o <<i>> \o tail)
        there == SelectSeq(Index, LAMBDA i : of(i) # {})
    IN  [n \in DOMAIN there |-> CHOOSE t \in of(there[n]) : TRUE]

\* A struct that is there, with its field set or not.
OptionalAt(path, field, whenSet) ==
    IF At(Append(path, field)) # {} THEN whenSet
    ELSE IF At(path) = {"true"} THEN "default" ELSE Missing

\* What Traefik's KV provider reads back from the entries.
ReadBack ==
    LET router == <<"traefik", "http", "routers", "web">>
        lb == <<"traefik", "http", "services", "web", "loadBalancer">>
        mw == <<"traefik", "http", "middlewares", "mw">>
    IN  [router |-> IF At(Append(router, "service")) = {} THEN Missing ELSE
             [entryPoints |-> ListAt(Append(router, "entryPoints"), <<>>),
              priority |-> IF At(Append(router, "priority")) = {"5"} THEN 5 ELSE 0,
              tls |-> OptionalAt(Append(router, "tls"), "certResolver", "resolver")],
         service |-> IF At(Append(lb, "passHostHeader")) = {} THEN Missing ELSE
             [servers |-> ListAt(Append(lb, "servers"), <<"url">>),
              passHostHeader |-> At(Append(lb, "passHostHeader")) = {"true"},
              sticky |-> OptionalAt(Append(lb, "sticky"), "cookie", "named")],
         middleware |-> IF At(Append(mw, "compress")) = {"true"} THEN "compress"
             ELSE IF At(mw \o <<"headers", "customRequestHeaders", "env@docker">>) = {"prod"} THEN "headers"
             ELSE Missing,
         tlsOptions |-> FALSE]

\* Nothing is lost on the way to Redis but empty texts, and nothing is made up:
\* the Traefik that reads the entries gets what the labels set.
RoundTrip == data # Missing => ReadBack = Meaning(set)

\* Below(c, n): the entries that removeKeys finds for name n of category c.
Below(c, n) == {e \in data : Len(e.path) > 4 /\ SubSeq(e.path, 1, 4) = <<"traefik", "http", c, n>>}

\* store() tracks the names of the configuration's maps and finds the keys of a
\* name again with KEYS <name>/*: every key of a router, service or middleware is
\* below its name, no key has two values, and the names without keys are exactly
\* the middlewares all of whose headers are empty texts.
KeysFollowNames ==
    data # Missing =>
        /\ set.router # Missing <=> Below("routers", "web") # {}
        /\ set.service # Missing <=> Below("services", "web") # {}
        /\ set.middleware \notin {Missing, "no headers"} <=> Below("middlewares", "mw") # {}
        /\ data = Below("routers", "web") \cup Below("services", "web") \cup Below("middlewares", "mw")
        /\ \A e, f \in data : e.path = f.path => e = f
===============================================================================
