---------------------------- MODULE TypeResolver ----------------------------
(* The type resolver of mmgir: tools/mmgir/type_resolver.{h,cc}.              *)
(*                                                                            *)
(* A name is a record [ns, id], with ns = "" for one without a dot. A type    *)
(* (AnyType) is a sequence of levels [name, c_type], each field possibly      *)
(* absent (""): arrays from the outermost one inwards, the last level is a    *)
(* plain Type. The empty sequence is a null pointer, or an array of one. A    *)
(* resolver is a record of m_name_to_type_info, m_unknown_types and           *)
(* m_has_errors, and of whether a null pointer has been followed.             *)
(* A namespace is [name, defs, sites]: the types it defines, in the order of  *)
(* the document, and the places where it uses a type.                         *)
EXTENDS Naturals, Sequences, SequencesExt, FiniteSets, TLC

\* Nameless and private objects are not looked at.
is_skippable(name) == name \in {"", "_private"}

SameName == {"GType", "gboolean", "gsize", "gssize", "goffset", "gpointer",
    "gconstpointer", "gintptr", "guintptr", "gchar", "gint", "glong", "gfloat", "gdouble",
    "guchar", "guint", "gulong", "gint8", "gint16", "gint32", "gint64", "guint8",
    "guint16", "guint32", "guint64", "gunichar", "va_list", "time_t"}
s_builtin_type_to_c_type ==
    [n \in SameName |-> n] @@ "gshort" :> "glong" @@ "gushort" :> "gulong" @@
    "utf8" :> "const gchar*" @@ "filename" :> "const gchar*" @@ "none" :> "void"

\* Names of builtin types that a property can have, "GLib.Variant" apart.
s_builtin_name_to_g_param ==
    [GType |-> "GTYPE", gboolean |-> "BOOLEAN", gpointer |-> "POINTER",
     gconstpointer |-> "POINTER", gchar |-> "CHAR", guchar |-> "UCHAR", glong |-> "LONG",
     gulong |-> "ULONG", gint64 |-> "INT64", guint64 |-> "UINT64", gfloat |-> "FLOAT",
     gdouble |-> "DOUBLE", gunichar |-> "UNICHAR", utf8 |-> "STRING", filename |-> "STRING",
     gint |-> "INT", gshort |-> "INT", gint8 |-> "INT", gint16 |-> "INT", gint32 |-> "INT",
     guint |-> "UINT", gushort |-> "UINT", guint8 |-> "UINT", guint16 |-> "UINT",
     guint32 |-> "UINT"]

NONE == ""   \* std::nullopt
Unresolved == <<>>

is_builtin_type(name) == name.ns = "" /\ name.id \in DOMAIN s_builtin_type_to_c_type

(* qualify_name() leaves builtin names alone; qualify_non_builtin_name() is   *)
(* called after they have been looked up.                                     *)
qualify_non_builtin_name(name, ns_name) ==
    IF name.ns = "" THEN [name EXCEPT !.ns = ns_name] ELSE name
is_qualified_name(name) == is_builtin_type(name) \/ name.ns # ""
qualify_name(name, ns_name) ==
    IF is_qualified_name(name) THEN name ELSE [name EXCEPT !.ns = ns_name]

-----------------------------------------------------------------------------
(* TypeMapper: what a namespace adds to the resolver.                         *)

EmptyResolver == [info |-> <<>>, unknown |-> {}, has_errors |-> FALSE,
                  crashed |-> FALSE]

(* The first C type of a name stays; another one is only reported. *)

record_mapping(r, name, ns_name, c_type, param_spec) ==
    LET qualified == qualify_name(name, ns_name) IN
    IF qualified \in DOMAIN r.info
    THEN [r EXCEPT !.has_errors = @ \/ r.info[qualified].c_type # c_type,
                   !.unknown = @ \ {qualified}]
    ELSE [r EXCEPT !.info = [q \in DOMAIN @ \cup {qualified} |->
                                IF q \in DOMAIN @ THEN @[q]
                                ELSE [c_type |-> c_type, param_spec |-> param_spec]],
                   !.unknown = @ \ {qualified}]

\* The mutant does not look for the mapping.
record_unknown_always(r, names, ns_name) ==
    [r EXCEPT !.unknown = @ \cup {qualify_name(n, ns_name) : n \in {m \in names : ~is_builtin_type(m)}}]

(* Called for one name after the other, in an order that does not matter:     *)
(* the mappings stay as they are.                                             *)
record_unknown(r, names, ns_name) ==
    LET qualified == {qualify_name(n, ns_name) : n \in {m \in names : ~is_builtin_type(m)}}
    IN [r EXCEPT !.unknown = @ \cup (qualified \ DOMAIN r.info)]

(* One pass over the namespace per kind of object, in this order. Unions      *)
(* without a name and records and unions without a C type are left out.       *)
SpecOf == [alias |-> "NA", enumeration |-> "ENUM", bitfield |-> "FLAGS",
           union |-> "BOXED", record |-> "BOXED", interface |-> "OBJECT", class |-> "OBJECT"]
IsOfKind(d, kind) == d.kind = kind /\ (kind \in {"union", "record"} =>
                                        d.name # "" /\ d.c_type # NONE)
record_mappings(r, ns, kind) ==
    LET after[i \in 0 .. Len(ns.defs)] ==
            IF i = 0 THEN r
            ELSE IF ~IsOfKind(ns.defs[i], kind) THEN after[i - 1]
            ELSE record_mapping(after[i - 1], [ns |-> "", id |-> ns.defs[i].name], ns.name,
                                ns.defs[i].c_type, SpecOf[kind])
    IN after[Len(ns.defs)]
extract_simple_types(r, ns) ==
    LET aliases    == record_mappings(r, ns, "alias")
        enums      == record_mappings(aliases, ns, "enumeration")
        bitfields  == record_mappings(enums, ns, "bitfield")
        unions     == record_mappings(bitfields, ns, "union")
        records    == record_mappings(unions, ns, "record")
        interfaces == record_mappings(records, ns, "interface")
    IN record_mappings(interfaces, ns, "class")

(* Every level of a type that has a name and no C type. *)
find_unknown_types_for_any_type(type) ==
    {type[i].name : i \in {j \in DOMAIN type : type[j].c_type = NONE /\ type[j].name.id # ""}}

(* The callables whose types are looked at. Properties are looked at in       *)
(* another pass, signals are not.                                             *)
ForFunctions == {"function", "function-inline"}
ForMethods == {"method", "method-inline"}
ForConstructors == {"constructor"}
ForVirtualMethods == {"virtual-method"}
find_for_union == ForFunctions \cup ForMethods \cup ForConstructors
find_for_record == ForFunctions \cup ForMethods \cup ForConstructors
LookedAt ==
    [namespace |-> ForFunctions, enumeration |-> ForFunctions, bitfield |-> ForFunctions,
     union |-> find_for_union, record |-> find_for_record,
     nested_union |-> find_for_union, nested_record |-> find_for_record,
     interface |-> ForFunctions \cup ForMethods \cup ForVirtualMethods \cup ForConstructors,
     class |-> ForFunctions \cup ForMethods \cup ForVirtualMethods \cup ForConstructors]

(* A parameter or return value with skip="1" is not looked at. *)
find_unknown_types_for_callable(site) ==
    ~is_skippable(site.name) /\ site.member \in LookedAt[site.holder] /\ ~site.skip
find_unknown_types(ns) ==
    {s \in ns.sites : ~is_skippable(s.holder_name) /\ find_unknown_types_for_callable(s)}

extract_property_types(ns) ==
    {s \in ns.sites : /\ s.member = "property" /\ s.holder \in {"interface", "class"}
                      /\ ~is_skippable(s.holder_name) /\ ~is_skippable(s.name)}

(* The names that a namespace uses. *)
NamesUsed(ns) == UNION {find_unknown_types_for_any_type(s.type) :
                        s \in find_unknown_types(ns) \cup extract_property_types(ns)}

TypeMapper(r, ns) ==
    record_unknown([extract_simple_types(r, ns) EXCEPT !.crashed = @ \/
                       \E s \in find_unknown_types(ns) \cup extract_property_types(ns) :
                           s.type = <<>>],
                   NamesUsed(ns), ns.name)

(* A namespace without a name, of an included file with errors, is skipped. *)
register_repo_types(r, repo) ==
    LET after[i \in 0 .. Len(repo.namespaces)] ==
            IF i = 0 THEN r
            ELSE IF repo.namespaces[i].name = "" THEN [after[i - 1] EXCEPT !.has_errors = TRUE]
            ELSE TypeMapper(after[i - 1], repo.namespaces[i])
    IN after[Len(repo.namespaces)]

has_unknown_types(r) == r.unknown # {}

-----------------------------------------------------------------------------
(* Questions the generator asks. A C type that has been resolved is a pair    *)
(* <<base, number of "*" added>>, or Unresolved.                              *)

find_type(r, type, ns_name) ==
    IF type.c_type # NONE THEN type.c_type
    ELSE IF type.name.id = "" THEN NONE
    ELSE IF is_builtin_type(type.name) THEN s_builtin_type_to_c_type[type.name.id]
    ELSE LET q == qualify_non_builtin_name(type.name, ns_name)
         IN IF q \in DOMAIN r.info THEN r.info[q].c_type ELSE NONE

(* The outermost level that has a C type, or the plain type. *)
resolve_any_type(r, type, ns_name) ==
    LET outer == {i \in DOMAIN type : type[i].c_type # NONE \/ i = Len(type)}
        i == CHOOSE j \in outer : \A k \in outer : j <= k
        base == find_type(r, type[i], ns_name)
    IN IF base = NONE THEN Unresolved ELSE <<base, i - 1>>

(* For a parameter a type that is found by name gets a pointer if it is a     *)
(* boxed type or an object.                                                   *)
resolve_callable_param_type(r, type, ns_name) ==
    LET found == resolve_any_type(r, type, ns_name)
        q == qualify_non_builtin_name(type[1].name, ns_name)
        byName == Len(type) = 1 /\ type[1].c_type = NONE /\ ~is_builtin_type(type[1].name)
    IN IF found # Unresolved /\ byName /\ r.info[q].param_spec \in {"BOXED", "OBJECT"}
       THEN <<found[1], 1>> ELSE found

resolve_return_type(r, type, ns_name) ==
    IF type = <<>> THEN <<"void", 0>> ELSE resolve_any_type(r, type, ns_name)

find_property_type(r, type, ns_name) ==
    LET name == type[1].name
        q == qualify_non_builtin_name(name, ns_name)
    IN IF Len(type) > 1 THEN "BOXED"
       ELSE IF name.id = "" THEN NONE
       ELSE IF name.ns = "" /\ name.id \in DOMAIN s_builtin_name_to_g_param
       THEN s_builtin_name_to_g_param[name.id]
       ELSE IF name = [ns |-> "GLib", id |-> "Variant"] THEN "VARIANT"
       ELSE IF q \in DOMAIN r.info THEN r.info[q].param_spec ELSE NONE
==============================================================================
