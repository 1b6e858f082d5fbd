------------------------------ MODULE MCMmgir ------------------------------
(* mmgir with an input namespace A, namespaces B and C that it may include,   *)
(* and one use of a type in A, at any place and of any form.                  *)
EXTENDS Mmgir

Level(ns, id, c_type) == [name |-> [ns |-> ns, id |-> id], c_type |-> c_type]
Site(holder, member, type) ==
    [holder |-> holder, holder_name |-> "Shown", member |-> member, name |-> "shown",
     role |-> "param", type |-> type, skip |-> FALSE, can_throw |-> TRUE,
     c_identifier |-> TRUE, param_name |-> TRUE, getter |-> <<>>, introspectable |-> TRUE,
     readable |-> "", writable |-> "#t", flags |-> [action |-> "#f", detailed |-> ""]]

BT == <<Level("B", "T", "")>>
CT == <<Level("C", "T", "")>>
Types == {BT, CT, <<Level("", "Own", "")>>, <<Level("", "gint", "")>>,
          <<Level("", "gsize", "")>>, <<Level("B", "T", "BT*")>>, <<Level("", "", "")>>,
          <<Level("", "", ""), Level("B", "T", "")>>,
          <<Level("", "", "gint*"), Level("", "none", "")>>}
Places == {<<"namespace", "function">>, <<"enumeration", "function-inline">>,
           <<"bitfield", "function">>, <<"union", "method">>, <<"record", "constructor">>,
           <<"interface", "method-inline">>, <<"class", "virtual-method">>,
           <<"class", "property">>, <<"interface", "glib:signal">>,
           <<"nested_union", "method">>, <<"nested_record", "function">>}

Plain == {Site(p[1], p[2], t) : p \in Places, t \in Types}
Special ==
    {[Site(p[1], p[2], BT) EXCEPT !.holder_name = "_private"] : p \in Places} \cup
    {[Site("class", "method", BT) EXCEPT !.name = "_private"],
     [Site("class", "method", BT) EXCEPT !.skip = TRUE],
     [Site("class", "constructor", <<Level("", "none", "")>>) EXCEPT !.role = "return"],
     [Site("class", "property", <<Level("B", "T", "BT*")>>) EXCEPT !.getter = BT],
     [Site("interface", "property", BT) EXCEPT !.introspectable = FALSE]}

Ref(name, version) == [name |-> name, version |-> version]
Ns(name, version, defs, sites) ==
    [name |-> name, version |-> version, defs |-> defs, sites |-> sites]
Repo(ns, includes, errors) ==
    [namespaces |-> ns, includes |-> includes, errors |-> errors,
     id_prefixes |-> << <<"G">>, <<"G", "t", "k">>, <<"G">> >>]
TypeDef(kind, name, c_type) == [kind |-> kind, name |-> name, c_type |-> c_type]

A(includes, sites) ==
    Repo(<<Ns("A", "1", <<TypeDef("alias", "Own", "AOwn")>>, sites)>>, includes, FALSE)
B(version, includes, sites, errors) ==
    Repo(<<Ns("B", version, <<TypeDef("class", "T", "BT"), TypeDef("enumeration", "T", "BE")>>,
              sites)>>, includes, errors)
C == Repo(<<Ns("C", "1", <<TypeDef("record", "T", "CT"), TypeDef("union", "", "CU")>>, {})>>,
          <<Ref("B", "1")>>, FALSE)
\* A file with two namespaces, one of them without a name.
D == Repo(<<Ns("C", "1", <<TypeDef("bitfield", "T", "CT")>>, {}), Ns("", "1", <<>>, {}),
            Ns("D", "", <<>>, {})>>, <<>>, TRUE)

Includes == {<<>>, <<Ref("B", "1")>>, <<Ref("C", "1"), Ref("B", "1")>>, <<Ref("B", "2")>>,
             <<Ref("B", "")>>, <<Ref("D", ""), Ref("C", "1"), Ref("C", "1")>>}

Gint == <<Level("", "gint", "")>>
FlawedSite(f) ==
    CASE f[2] = "c:identifier" -> [Site("class", f[1], Gint) EXCEPT !.c_identifier = FALSE]
      [] f = <<"parameter", "name">> -> [Site("class", "method", Gint) EXCEPT !.param_name = FALSE]
      [] f = <<"property", "type">> -> Site("class", "property", <<>>)
      [] f \in {<<"return-value", "type">>, <<"array", "type">>} -> Site("class", "method", <<>>)
      [] OTHER -> Site("class", "method", Gint)

\* A file without c:identifier-prefixes.
NoPrefixes == [Repo(<<Ns("A", "1", <<>>, {})>>, <<>>, FALSE) EXCEPT !.id_prefixes = <<>>]
OneFile(repo) == [inputs |-> <<repo>>, supporting |-> <<>>, dir |-> {}, stored |-> {}]

MCWorlds ==
    {OneFile(NoPrefixes)} \cup
    \* The place of the type.
    {[inputs |-> <<A(<<Ref("B", "1"), Ref("C", "1")>>, {s})>>, supporting |-> <<>>,
      dir |-> {B("1", <<>>, {}, FALSE), C}, stored |-> {}] : s \in Plain \cup Special} \cup
    \* The includes and the files.
    {[inputs |-> <<A(i, {Site("class", "property", t)})>>, supporting |-> more, dir |-> dir,
      stored |-> {}] :
        i \in Includes, t \in {BT, CT}, more \in {<<>>, <<C>>, <<C, D>>},
        dir \in UNION {{{B(v, j, {Site("class", "method", CT)}, e), C},
                        {B(v, j, {}, e), D}, {B(v, j, {}, e), C, D},
                        {B(v, j, {}, e)}} :
                  v \in {"1", "2"}, e \in BOOLEAN,
                  j \in {<<>>, <<Ref("C", "1"), Ref("A", "1")>>, <<Ref("A", "2")>>}}} \cup
    \* Two input files, in both orders, and one with errors.
    {[inputs |-> <<A(<<>>, {Site("class", "method", BT)}), B("1", <<Ref("A", "1")>>, {}, e)>>,
      supporting |-> <<>>, dir |-> {}, stored |-> {}] : e \in BOOLEAN} \cup
    {[inputs |-> <<B("1", <<>>, {}, FALSE), A(<<Ref("B", "2")>>, {Site("class", "method", CT)})>>,
      supporting |-> <<>>, dir |-> {C}, stored |-> {}]} \cup
    \* Objects without a field that the parser does not insist on.
    {[inputs |-> <<Repo(<<Ns("A", "1", <<TypeDef("record", "Own",
                                IF f[1] = "record" THEN "" ELSE "AOwn")>>,
                             {FlawedSite(f)})>>, <<>>, FALSE)>>,
      supporting |-> <<>>, dir |-> {}, stored |-> {f}] : f \in Unchecked}

MCMemberValues == {[negative |-> s, magnitude |-> m] : s \in BOOLEAN,
                     m \in {0, 1, 2, 3, 7, 8, 9, 15, 16, 17, 63, 64}}
MCMemberSets == {{v} : v \in MCMemberValues} \cup {{}, MCMemberValues}
MCCNames == {<<"G", "t", "k", "B", "o", "x">>, <<"G", "V">>, <<"G", "o", "k">>}
============================================================================
