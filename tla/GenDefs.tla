------------------------------ MODULE GenDefs ------------------------------
(* The generator of mmgir: tools/mmgir/gen_defs.cc.                           *)
(*                                                                            *)
(* A definition that is printed is a record; the layout is left out. C names  *)
(* are sequences of letters, of which the ones in Upper are capital letters.  *)
(* Flag values are numbers of LongBits bits of which IntBits may be used (64  *)
(* and 32 in the code).                                                       *)
EXTENDS TypeResolver, Integers

CONSTANTS LongBits, IntBits, Upper

ASSUME GenDefsAssumption == /\ LongBits \in Nat \ {0} /\ IntBits \in 1 .. LongBits - 1

-----------------------------------------------------------------------------
(* build_identifier_prefixes(): a set that is ordered by length alone, so     *)
(* that of several prefixes of one length only the first is kept.             *)
build_identifier_prefixes(repo_prefixes, ns_prefixes) ==
    LET all == repo_prefixes \o ns_prefixes
    IN {all[i] : i \in {j \in DOMAIN all : \A k \in 1 .. j - 1 : Len(all[k]) # Len(all[j])}}

(* gen_c_type_cast() splits a C type: the prefix, "_TYPE_", the rest. Of the  *)
(* known prefixes that fit the longest comes first. Without one the prefix is *)
(* the first word, and the rest starts one letter before the second capital   *)
(* letter.                                                                    *)
FirstWord(c_type) ==
    LET caps == {i \in 2 .. Len(c_type) : c_type[i] \in Upper}
    IN IF caps = {} THEN Len(c_type) ELSE (CHOOSE i \in caps : \A j \in caps : i <= j) - 1

KnownFor(c_type, prefixes) == {p \in prefixes : IsPrefix(p, c_type)}
gen_c_type_cast(c_type, prefixes) ==
    LET known == KnownFor(c_type, prefixes)
        it == CHOOSE p \in known : \A q \in known : Len(q) <= Len(p)
        pos == FirstWord(c_type)
    IN IF known # {}
       THEN [prefix |-> it, rest |-> SubSeq(c_type, Len(it) + 1, Len(c_type))]
       ELSE [prefix |-> SubSeq(c_type, 1, pos), rest |-> SubSeq(c_type, pos, Len(c_type))]

convert_bool(value, default_value) == IF value = NONE THEN default_value ELSE value

-----------------------------------------------------------------------------
(* format_bitfield_members(). A member value is a sign and a magnitude; what  *)
(* is printed is NotPrinted, "1 << n", a number, or a negative number.        *)

TwoTo[n \in 0 .. LongBits] == IF n = 0 THEN 1 ELSE 2 * TwoTo[n - 1]   \* 1UL << n

NotPrinted == [form |-> "none", n |-> 0]
stoul(value) == IF value.negative THEN (TwoTo[LongBits] - value.magnitude) % TwoTo[LongBits]
                ELSE value.magnitude
IsPowerOfTwo(n) == \E k \in 0 .. LongBits : n = TwoTo[k]
Position(n) == CHOOSE k \in 0 .. LongBits : n = TwoTo[k]

format_as_signed_negative(n) ==
    LET magnitude == (TwoTo[LongBits] - n) % TwoTo[LongBits]
    IN IF magnitude > TwoTo[IntBits - 1] - 1 THEN NotPrinted
       ELSE [form |-> "negative", n |-> magnitude]

\* The mutant takes the width of an int for that of the magnitude.
format_as_unsigned_int(n) ==
    IF n > TwoTo[IntBits - 1] - 1 THEN NotPrinted
    ELSE IF IsPowerOfTwo(n) THEN [form |-> "shift", n |-> Position(n)]
    ELSE [form |-> "hex", n |-> n]

format_as_unsigned(n) ==
    IF n > TwoTo[IntBits] - 1 THEN NotPrinted
    ELSE IF IsPowerOfTwo(n) THEN [form |-> "shift", n |-> Position(n)]
    ELSE [form |-> "hex", n |-> n]
format_bitfield_members(value) ==
    IF value.magnitude > TwoTo[LongBits] - 1 THEN NotPrinted   \* std::out_of_range
    ELSE IF value.negative THEN format_as_signed_negative(stoul(value))
    ELSE format_as_unsigned(stoul(value))

(* The definition of an enum has every member, that of a bitfield the ones    *)
(* whose value can be printed. A nickname is printed for enums only.          *)
generate_extended_enum_def(name, members) ==
    IF is_skippable(name) THEN {} ELSE {<<m, m.value>> : m \in members}
generate_extended_bitfield_def(name, members) ==
    IF is_skippable(name) THEN {}
    ELSE {d \in {<<m, format_bitfield_members(m.value)>> : m \in members} :
              d[2] # NotPrinted}

-----------------------------------------------------------------------------
(* Functions, methods and virtual functions.                                  *)

(* The C type of the outermost level that has one, the name of the plain      *)
(* type, or "void".                                                           *)
flatten_any_type(type) ==
    LET outer == {i \in DOMAIN type : type[i].c_type # NONE \/ i = Len(type)}
        i == CHOOSE j \in outer : \A k \in outer : j <= k
    IN IF type[i].c_type # NONE THEN <<type[i].c_type, i - 1>>
       ELSE IF type[i].name.id # "" THEN <<type[i].name.id, i - 1>>
       ELSE <<"void", i - 1>>
process_return_type(type, void_type) ==
    IF flatten_any_type(type) = <<"void", 0>> THEN <<void_type, 0>> ELSE flatten_any_type(type)

(* ParamProcessor::print_param(): GError** is added for a function that can   *)
(* throw.                                                                     *)
print_param(site) ==
    <<flatten_any_type(site.type)>> \o (IF site.can_throw THEN << <<"GError", 2>> >> ELSE <<>>)

Def(form, site, void_type) ==
    [form |-> form, site |-> site,
     types |-> IF site.role = "return" THEN <<process_return_type(site.type, void_type)>>
               ELSE print_param(site)]
generate_func_def(site) == Def("define-function", site, "none")
generate_constructor_def(site) == Def("define-function", site, "none")
generate_method_def_using_func(site) == Def("define-method", site, "none")
generate_vfunc_def(site) == Def("define-vfunc", site, "void")

SitesOf(ns, holder, members) ==
    {s \in ns.sites : s.holder = holder /\ s.member \in members /\ ~is_skippable(s.name)}
Shown(sites) == {s \in sites : ~is_skippable(s.holder_name)}

generate_free_function_defs(ns, holder) ==
    {generate_func_def(s) : s \in SitesOf(ns, holder, {"function", "function-inline"})}
generate_standard_function_defs(ns, holder) ==
    {generate_func_def(s) :
        s \in Shown(SitesOf(ns, holder, {"function", "function-inline"}))} \cup
    {generate_method_def_using_func(s) :
        s \in Shown(SitesOf(ns, holder, {"method", "method-inline"}))}
Constructors(ns, holder) ==
    {generate_constructor_def(s) : s \in Shown(SitesOf(ns, holder, {"constructor"}))}
generate_record_function_defs(ns) ==
    generate_standard_function_defs(ns, "record") \cup Constructors(ns, "record")
generate_interface_function_defs(ns) ==
    generate_standard_function_defs(ns, "interface") \cup Constructors(ns, "interface")
generate_class_function_defs(ns) ==
    generate_standard_function_defs(ns, "class") \cup Constructors(ns, "class")

(* The holders are not looked at for the functions of enums and bitfields;    *)
(* unions and what is nested in classes have no definitions.                  *)
generate_function_defs(ns) ==
    generate_free_function_defs(ns, "namespace") \cup
    generate_free_function_defs(ns, "enumeration") \cup
    generate_free_function_defs(ns, "bitfield") \cup
    generate_record_function_defs(ns) \cup
    generate_interface_function_defs(ns) \cup
    generate_class_function_defs(ns)

generate_vfunc_defs(ns) ==
    {generate_vfunc_def(s) : s \in Shown(SitesOf(ns, "interface", {"virtual-method"}) \cup
                                         SitesOf(ns, "class", {"virtual-method"}))}

(* value() of an optional that is empty throws, and nobody catches that: a    *)
(* function without a C identifier, a parameter without a name, a record      *)
(* without a C type.                                                          *)
generate_record_object_def(d) == d.kind = "record" /\ ~is_skippable(d.name) => d.c_type # NONE
FunctionDefsThrow(ns) ==
    \/ \E d \in generate_function_defs(ns) : ~d.site.c_identifier \/ ~d.site.param_name
    \/ \E i \in DOMAIN ns.defs : ~generate_record_object_def(ns.defs[i])

-----------------------------------------------------------------------------
(* Properties and signals.                                                    *)

try_find_property_type_from_getter(r, site, ns_name) ==
    IF site.getter = <<>> THEN Unresolved ELSE resolve_return_type(r, site.getter, ns_name)

(* A property whose type is not found is printed without it. *)
generate_property_def(r, site, ns_name) ==
    LET param == find_property_type(r, site.type, ns_name)
    IN [form |-> "define-property", site |-> site,
        readable |-> convert_bool(site.readable, "#t"),
        writable |-> convert_bool(site.writable, "#f"),
        types |-> IF param # NONE THEN <<param, 0>>
                  ELSE try_find_property_type_from_getter(r, site, ns_name)]

(* A flag is printed when its attribute is there, whatever its value is. *)
SignalFlags(flags) == {f \in DOMAIN flags : flags[f] # NONE}
(* A parameter whose type is not found is not printed. *)
generate_signal_def(r, site, ns_name) ==
    [form |-> "define-signal", site |-> site, flags |-> SignalFlags(site.flags),
     types |-> resolve_callable_param_type(r, site.type, ns_name)]

ObjectSites(ns, member) == Shown(SitesOf(ns, "interface", {member}) \cup
                                 SitesOf(ns, "class", {member}))
generate_signal_defs(r, ns) ==
    {generate_property_def(r, s, ns.name) :
        s \in {t \in ObjectSites(ns, "property") : t.introspectable}} \cup
    {generate_signal_def(r, s, ns.name) : s \in ObjectSites(ns, "glib:signal")}
==============================================================================
