------------------------------ MODULE GirParser ------------------------------
(* The GIR parser of mmgir: class Parser of tools/mmgir/parse_gir.cc.         *)
(*                                                                            *)
(* The parser walks the XML tree: every parse_...() function reads the        *)
(* attributes of its element and then its child elements, and calls another   *)
(* one for each child it knows. Elements it does not know are skipped with    *)
(* everything in them. The document is not fixed: the next start or end tag   *)
(* is chosen at every step, so that every document up to MaxDepth is read.    *)
(* An element may have one flaw: an attribute that is missing or illegal.     *)
(* The GIR grammar has at most one element of Once in a callable.             *)
EXTENDS GirSchema, Naturals, Sequences, FiniteSets, TLC

CONSTANTS MaxDepth,   \* bound: nesting of elements
          MaxFlaws,   \* bound: flawed elements in a document
          NULL

ASSUME ParserAssumption == MaxDepth \in Nat /\ MaxFlaws \in Nat

VARIABLES stack,      \* the active parse functions: their element, what they found
          m_has_errors,
          m_working_namespace,   \* NULL or the stack height of its parse_namespace()
          stored,     \* <<element, field>>: objects without a legal value of a field
          state       \* "load", "parse", "parsed", "failed"

parserVars == <<stack, m_has_errors, m_working_namespace, stored, state>>

-----------------------------------------------------------------------------
(* Conversions of attribute values: which texts have a value. Any other text  *)
(* is reported, and a default taken.                                          *)

Illegal == "?"   \* a text that no conversion accepts

is_legal_prefix_char(text) == text # Illegal
parse_opt_bool(text) == text \in {"0", "1"}
parse_dir(text) == text \in {"in", "out", "inout"}
parse_run_signal(text) == text \in {"first", "last", "cleanup"}
parse_scope(text) == text \in {"notified", "async", "call", "forever"}
parse_stability(text) == text \in {"Stable", "Unstable", "Private"}
parse_ownership(text) == text \in {"none", "container", "full"}
parse_id_prefixes(text) == is_legal_prefix_char(text)
parse_symbol_prefixes(text) == is_legal_prefix_char(text)

Converts(attr, text) ==
    CASE attr = "direction" -> parse_dir(text)
      [] attr = "when" -> parse_run_signal(text)
      [] attr = "scope" -> parse_scope(text)
      [] attr = "stability" -> parse_stability(text)
      [] attr = "transfer-ownership" -> parse_ownership(text)
      [] attr = "c:identifier-prefixes" -> parse_id_prefixes(text)
      [] attr = "c:symbol-prefixes" -> parse_symbol_prefixes(text)
      [] OTHER -> parse_opt_bool(text)

(* A mandatory attribute that is missing is reported and stays empty. *)
populate_str_attr(rule, attr) == attr \notin rule.mandatory

(* One rule per parse function: the attributes it insists on, the attributes  *)
(* whose value is converted, the child elements it parses, and the errors it  *)
(* reports at the end: something it needs, something it does not allow.       *)

Rule(mandatory, converted, children) ==
    [mandatory |-> mandatory, converted |-> converted, children |-> children,
     need |-> {}, ban |-> {}]

(* Attributes and elements that several functions share. *)
parse_info_attributes == {"introspectable", "deprecated", "stability"}
parse_doc_elements == {"doc", "source-position"}
parse_info_elements == {"attribute"} \cup parse_doc_elements
parse_any_type == {"type", "array"}
parse_inline_function_elements == parse_doc_elements \cup {"parameters", "return-value"}
parse_function_elements == parse_inline_function_elements \cup {"attribute"}
parse_callable_attributes == parse_info_attributes \cup {"throws"}

parse_repo == Rule({}, {"c:identifier-prefixes", "c:symbol-prefixes"}, {"include", "namespace"})
parse_bitfield == Rule({"name", "c:type"}, parse_info_attributes,
    {"member", "function-inline", "function"} \cup parse_info_elements)
parse_enum == Rule({"name", "c:type"}, parse_info_attributes,
    {"member", "function-inline", "function"} \cup parse_info_elements)
parse_type == Rule({}, {}, parse_doc_elements)
parse_array_type == Rule({}, {"zero-terminated"}, {"type", "array"})
parse_param == [Rule({}, {"nullable", "scope", "direction", "caller-allocates", "optional",
                          "skip", "transfer-ownership"},
                     parse_info_elements \cup parse_any_type \cup {"varargs"})
                EXCEPT !.need = {"type"}]
parse_instance_param == Rule({"name"}, {"nullable", "direction", "caller-allocates",
    "transfer-ownership"}, parse_doc_elements \cup {"type"})
parse_alias == Rule({"name", "c:type"}, parse_info_attributes,
    parse_info_elements \cup parse_any_type)
parse_annotation == Rule({"name", "value"}, {}, {})
parse_callable_params == Rule({}, {}, {"parameter", "instance-parameter"})
parse_callable_return == Rule({}, {"nullable", "scope", "skip", "transfer-ownership"},
    parse_info_elements \cup parse_any_type)
parse_class == Rule({"name", "glib:type-name", "glib:get-type"},
    parse_info_attributes \cup {"abstract", "glib:fundamental", "final"},
    parse_info_elements \cup {"implements", "constructor", "method", "method-inline",
        "function", "function-inline", "virtual-method", "property", "glib:signal",
        "union", "record"})
parse_doc == Rule({"text"}, {}, {})
parse_source_position == Rule({}, {}, {})
parse_doc_section == Rule({"name"}, {}, parse_doc_elements)
parse_inline_function == [Rule({"name"}, parse_callable_attributes,
                               parse_inline_function_elements) EXCEPT !.ban = {"inst"}]
parse_function == [Rule({"name"}, parse_callable_attributes, parse_function_elements)
                   EXCEPT !.ban = {"inst"}]
parse_constructor == parse_function
parse_implements == Rule({"name"}, {}, {})
parse_include == Rule({"name"}, {}, {})

parse_interface == Rule({"name", "glib:type-name", "glib:get-type"}, parse_info_attributes,
    parse_info_elements \cup {"prerequisite", "implements", "function", "function-inline",
        "constructor", "method", "method-inline", "virtual-method", "property",
        "glib:signal"})
parse_member == Rule({"name", "value", "c:identifier"}, parse_info_attributes,
                     parse_info_elements)
parse_inline_method == [Rule({"name"}, parse_callable_attributes, parse_function_elements)
                        EXCEPT !.need = {"inst"}]
parse_method == [Rule({"name"}, parse_callable_attributes, parse_function_elements)
                 EXCEPT !.need = {"inst"}]

\* The mutant does not miss the instance parameter.
parse_virtual_method_lax == Rule({"name"}, parse_callable_attributes,
                                 parse_function_elements)
parse_virtual_method == [Rule({"name"}, parse_callable_attributes, parse_function_elements)
                         EXCEPT !.need = {"inst"}]
(* The name of a namespace is looked at after its children. *)
parse_namespace == Rule({"name"}, {"c:identifier-prefixes", "c:symbol-prefixes"},
    {"alias", "class", "interface", "record", "enumeration", "function",
     "function-inline", "union", "bitfield", "attribute", "docsection"})
parse_prerequisite == Rule({"name"}, {}, {})
parse_property == Rule({"name"}, parse_info_attributes \cup {"writable", "readable",
    "construct", "construct-only", "transfer-ownership"},
    parse_info_elements \cup parse_any_type)
parse_record == Rule({"name"}, parse_info_attributes \cup {"opaque", "pointer", "foreign"},
    parse_info_elements \cup {"function", "function-inline", "method", "method-inline",
        "constructor"})
parse_signal == [Rule({"name"}, parse_info_attributes \cup {"detailed", "when", "action",
                       "no-hooks", "no-recurse"},
                      parse_info_elements \cup {"parameters", "return-value"})
                 EXCEPT !.ban = {"inst", "varargs"}]
parse_union == Rule({}, parse_info_attributes, parse_info_elements \cup {"constructor",
    "method", "method-inline", "function", "function-inline"})

(* The element names, the function that reads the element and the object it   *)
(* builds.                                                                    *)
ElementNames ==
    {"repository", "include", "namespace", "alias", "attribute", "array",
     "bitfield", "parameters", "return-value", "class", "constructor",
     "doc", "source-position", "docsection", "enumeration", "function",
     "function-inline", "implements", "interface", "instance-parameter",
     "member", "method", "method-inline", "parameter", "prerequisite",
     "property", "record", "glib:signal", "type", "union", "varargs",
     "virtual-method"}

Elements == [el \in ElementNames |->
    CASE el = "repository" -> <<parse_repo, Repository>>
      [] el = "include" -> <<parse_include, Include>>
      [] el = "namespace" -> <<parse_namespace, Namespace>>
      [] el = "alias" -> <<parse_alias, Alias>>
      [] el = "attribute" -> <<parse_annotation, Annotation>>
      [] el = "array" -> <<parse_array_type, ArrayType>>
      [] el = "bitfield" -> <<parse_bitfield, Bitfield>>
      [] el = "parameters" -> <<parse_callable_params, CallableParams>>
      [] el = "return-value" -> <<parse_callable_return, CallableReturn>>
      [] el = "class" -> <<parse_class, Class>>
      [] el = "constructor" -> <<parse_constructor, Constructor>>
      [] el = "doc" -> <<parse_doc, Documentation>>
      [] el = "source-position" -> <<parse_source_position, SourcePosition>>
      [] el = "docsection" -> <<parse_doc_section, DocSection>>
      [] el = "enumeration" -> <<parse_enum, Enum>>
      [] el = "function" -> <<parse_function, Function>>
      [] el = "function-inline" -> <<parse_inline_function, FunctionInline>>
      [] el = "implements" -> <<parse_implements, Implements>>
      [] el = "interface" -> <<parse_interface, Interface>>
      [] el = "instance-parameter" -> <<parse_instance_param, InstanceParam>>
      [] el = "member" -> <<parse_member, Member>>
      [] el = "method" -> <<parse_method, Method>>
      [] el = "method-inline" -> <<parse_inline_method, MethodInline>>
      [] el = "parameter" -> <<parse_param, Param>>
      [] el = "prerequisite" -> <<parse_prerequisite, Prerequisite>>
      [] el = "property" -> <<parse_property, Property>>
      [] el = "record" -> <<parse_record, Record>>
      [] el = "glib:signal" -> <<parse_signal, Signal>>
      [] el = "type" -> <<parse_type, Type>>
      [] el = "union" -> <<parse_union, Union>>
      [] el = "varargs" -> <<Rule({}, {}, {}), VarArgs>>
      [] el = "virtual-method" -> <<parse_virtual_method, VirtualMethod>>]

RuleOf(el) == Elements[el][1]
StructOf(el) == Elements[el][2]

-----------------------------------------------------------------------------
(* The walk.                                                                  *)

Once == {"parameters", "return-value"}
Frame(el) == [el |-> el, found |-> {}]
Top == stack[Len(stack)]

ParserTypeOK ==
    /\ state \in {"load", "parse", "parsed", "failed"}
    /\ \A i \in DOMAIN stack :
          /\ stack[i].el \in ElementNames
          /\ stack[i].found \subseteq {"type", "varargs", "inst"} \cup Once
    /\ m_has_errors \in BOOLEAN
    /\ m_working_namespace \in {NULL} \cup (1 .. MaxDepth)

ParserInit ==
    /\ stack = <<>>
    /\ m_has_errors = FALSE
    /\ m_working_namespace = NULL
    /\ stored = {}
    /\ state = "load"

(* What an element may be without, and whether its parse function notices.    *)
Fields(el) == LET s == StructOf(el) IN s.must \cup s.typed \cup s.deref
Noticed(el, field) ==
    IF field \in StructOf(el).typed
    THEN field \in RuleOf(el).converted /\ ~Converts(field, Illegal)
    ELSE ~populate_str_attr(RuleOf(el), field)

(* The start tag of an element: its attributes. *)
WorkingNamespace(el) ==
    IF el = "namespace" THEN Len(stack) + 1 ELSE m_working_namespace

Start(el, flaws) ==
    /\ stack' = Append(stack, Frame(el))
    /\ stored' = stored \cup ({el} \X flaws)
    /\ m_has_errors' = (m_has_errors \/ \E f \in flaws : Noticed(el, f))
    /\ m_working_namespace' = WorkingNamespace(el)

FlawsOf(el) == {{}} \cup (IF Cardinality(stored) < MaxFlaws
                         THEN {{f} : f \in Fields(el)} ELSE {})

(* LoadFile() fails, or the root element is not a repository: an exception. *)
load_fails ==
    /\ state = "load"
    /\ state' = "failed"
    /\ UNCHANGED <<stack, m_has_errors, m_working_namespace, stored>>

load_repository ==
    /\ state = "load"
    /\ \E flaws \in FlawsOf("repository") : Start("repository", flaws)
    /\ state' = "parse"

(* Levels that an element without flaws has at least. *)
Height(el) == IF "inst" \in StructOf(el).need THEN 4
              ELSE IF "type" \in StructOf(el).need THEN 2 ELSE 1

parse_element(el) ==
    /\ state = "parse"
    /\ Len(stack) + Height(el) <= MaxDepth
    /\ el \in RuleOf(Top.el).children
    /\ ~(el \in Once /\ el \in Top.found)
    /\ \E flaws \in FlawsOf(el) : Start(el, flaws)
    /\ UNCHANGED state

(* What the function of the parent learns from a child: the type of a         *)
(* parameter is that of its last type element, an instance parameter and      *)
(* variable arguments are seen through the parameters element.                *)
Learns(found, child) ==
    CASE child.el \in AnyType -> (found \ {"varargs"}) \cup {"type"}
      [] child.el = "varargs" -> found \cup {"type", "varargs"}
      [] child.el = "instance-parameter" -> found \cup {"inst"}
      [] child.el = "parameter" -> found \cup (child.found \cap {"varargs"})
      [] child.el \in Once -> found \cup {child.el} \cup (child.found \cap {"inst", "varargs"})
      [] OTHER -> found

(* Errors that are reported after the children have been read, and what the   *)
(* object is without.                                                         *)
Complains(rule, found) == ~(rule.need \subseteq found) \/ rule.ban \cap found # {}
Lacks(struct, found) == (struct.need \ found) \cup (struct.ban \cap found)

(* The end tag. The WorkingNamespaceScope of parse_namespace() is left; the   *)
(* end of the document is the end of load_repository_from_file(), which       *)
(* throws if there have been errors.                                          *)
end_element ==
    /\ state = "parse"
    /\ LET rest == SubSeq(stack, 1, Len(stack) - 1)
           errors == m_has_errors \/ Complains(RuleOf(Top.el), Top.found)
       IN /\ m_has_errors' = errors
          /\ stored' = stored \cup ({Top.el} \X Lacks(StructOf(Top.el), Top.found))
          /\ Cardinality(stored') <= MaxFlaws
          /\ m_working_namespace' = IF m_working_namespace = Len(stack) THEN NULL
                                    ELSE m_working_namespace
          /\ IF rest = <<>>
             THEN /\ stack' = <<>>
                  /\ state' = IF errors THEN "failed" ELSE "parsed"
             ELSE /\ stack' = [rest EXCEPT ![Len(rest)].found = Learns(@, Top)]
                  /\ UNCHANGED state

ParserNext ==
    \/ load_fails
    \/ load_repository
    \/ \E el \in ElementNames : parse_element(el)
    \/ end_element

ParserSpec == ParserInit /\ [][ParserNext]_parserVars

-----------------------------------------------------------------------------
(* Fields that a later stage reads although no parse function insists on      *)
(* them: the generator throws std::bad_optional_access for the first three,   *)
(* TypeMapper dereferences a null pointer for the other ones.                 *)
ReadUnchecked ==
    {<<el, "c:identifier">> : el \in Functions \cup Methods \cup {"constructor"}}
    \cup {<<"record", "c:type">>, <<"parameter", "name">>}
    \cup {<<el, "type">> : el \in {"return-value", "property", "array"}}

(* Fields that are not optional in schema.h, that no parse function insists   *)
(* on, and that nothing reads: the version in which something was introduced, *)
(* the file of a position, and the type of an instance parameter, a pointer   *)
(* that has no value at all then.                                             *)
Informed == {"alias", "bitfield", "class", "constructor", "enumeration", "interface", "member",
             "property", "record", "glib:signal", "union", "virtual-method"}
            \cup Functions \cup Methods
UnreadUnchecked ==
    {<<el, "version">> : el \in Informed}
    \cup {<<"doc", "filename">>, <<"source-position", "filename">>,
          <<"instance-parameter", "type">>}

Unchecked == ReadUnchecked \cup UnreadUnchecked

(* m_has_errors is set if and only if some object that has been built lacks a *)
(* field that schema.h says it has and that is not one of Unchecked, or       *)
(* breaks a rule that schema.h and the generator state for it: an instance    *)
(* parameter for every method and for no function or signal, a type for every *)
(* parameter, no variable arguments for signals. Otherwise a broken GIR file  *)
(* would be taken, or a good one refused. The fields of Unchecked are the     *)
(* ones with which a broken file is taken indeed.                             *)
ErrorsExact == m_has_errors <=> ~(stored \subseteq Unchecked)

(* parse_type() and parse_array_type() hand their object to the working       *)
(* namespace: there is one whenever they run, and the scope of an inner       *)
(* element does not end it.                                                   *)
TypesOwned == \A i \in DOMAIN stack :
    stack[i].el \in AnyType => m_working_namespace \in 1 .. i - 1

(* No child element is dropped that has a place in the struct of the element  *)
(* that is being read.                                                        *)
PartsParsed == \A i \in DOMAIN stack :
    StructOf(stack[i].el).parts \subseteq RuleOf(stack[i].el).children

(* What schema.h says of the objects the parser builds: errors are noticed if *)
(* and only if there are some, types have an owner and no part is dropped.    *)
ParserFaithful == ErrorsExact /\ TypesOwned /\ PartsParsed
==============================================================================
