----------------------------- MODULE MmgirProofs -----------------------------
(***************************************************************************)
(* Proofs about mmgir.                                                     *)
(***************************************************************************)
EXTENDS Mmgir, SequenceTheorems, FiniteSetTheorems, WellFoundedInduction, TLAPS

-----------------------------------------------------------------------------
(* The tables: what the parse function of an element does, and what the      *)
(* struct it builds asks for.                                                *)

Facts == {"type", "varargs", "inst"} \cup Once

\* The errors reported at the end of an element are those of its object; only the type
\* of four elements is not insisted on.
SameFacts(el) ==
  LET rule == RuleOf(el)
      struct == StructOf(el)
  IN  \/ /\ rule.need = struct.need /\ rule.ban = struct.ban
         /\ rule.need \cup rule.ban \subseteq {"type", "varargs", "inst"}
         /\ \A f \in {"type", "varargs", "inst"} : <<el, f>> \notin Unchecked
      \/ /\ rule.need = {} /\ rule.ban = {}
         /\ struct.need = {"type"} /\ struct.ban = {}
         /\ <<el, "type">> \in Unchecked

\* The errors reported at the start of an element are those of its attributes, apart
\* from the ones nobody insists on; and no part of the object is left out.
Agrees(el) ==
  /\ SameFacts(el)
  /\ \A f \in Fields(el) : Noticed(el, f) <=> <<el, f>> \notin Unchecked
  /\ StructOf(el).parts \subseteq RuleOf(el).children

\* Types occur below a namespace only, and a namespace is a child of the repository.
Nested(el) ==
  LET children == RuleOf(el).children
  IN  /\ children \subseteq ElementNames
      /\ "repository" \notin children
      /\ "namespace" \in children => el = "repository"
      /\ el = "repository" => children = {"include", "namespace"}
      /\ el = "include" => children = {}

LEMMA Lookup ==
  /\ RuleOf("repository") = parse_repo /\ StructOf("repository") = Repository
  /\ RuleOf("include") = parse_include /\ StructOf("include") = Include
  /\ RuleOf("namespace") = parse_namespace /\ StructOf("namespace") = Namespace
  /\ RuleOf("alias") = parse_alias /\ StructOf("alias") = Alias
  /\ RuleOf("attribute") = parse_annotation /\ StructOf("attribute") = Annotation
  /\ RuleOf("array") = parse_array_type /\ StructOf("array") = ArrayType
  /\ RuleOf("bitfield") = parse_bitfield /\ StructOf("bitfield") = Bitfield
  /\ RuleOf("parameters") = parse_callable_params /\ StructOf("parameters") = CallableParams
  /\ RuleOf("return-value") = parse_callable_return /\ StructOf("return-value") = CallableReturn
  /\ RuleOf("class") = parse_class /\ StructOf("class") = Class
  /\ RuleOf("constructor") = parse_constructor /\ StructOf("constructor") = Constructor
  /\ RuleOf("doc") = parse_doc /\ StructOf("doc") = Documentation
  /\ RuleOf("source-position") = parse_source_position /\ StructOf("source-position") = SourcePosition
  /\ RuleOf("docsection") = parse_doc_section /\ StructOf("docsection") = DocSection
  /\ RuleOf("enumeration") = parse_enum /\ StructOf("enumeration") = Enum
  /\ RuleOf("function") = parse_function /\ StructOf("function") = Function
  /\ RuleOf("function-inline") = parse_inline_function /\ StructOf("function-inline") = FunctionInline
  /\ RuleOf("implements") = parse_implements /\ StructOf("implements") = Implements
  /\ RuleOf("interface") = parse_interface /\ StructOf("interface") = Interface
  /\ RuleOf("instance-parameter") = parse_instance_param /\ StructOf("instance-parameter") = InstanceParam
  /\ RuleOf("member") = parse_member /\ StructOf("member") = Member
  /\ RuleOf("method") = parse_method /\ StructOf("method") = Method
  /\ RuleOf("method-inline") = parse_inline_method /\ StructOf("method-inline") = MethodInline
  /\ RuleOf("parameter") = parse_param /\ StructOf("parameter") = Param
  /\ RuleOf("prerequisite") = parse_prerequisite /\ StructOf("prerequisite") = Prerequisite
  /\ RuleOf("property") = parse_property /\ StructOf("property") = Property
  /\ RuleOf("record") = parse_record /\ StructOf("record") = Record
  /\ RuleOf("glib:signal") = parse_signal /\ StructOf("glib:signal") = Signal
  /\ RuleOf("type") = parse_type /\ StructOf("type") = Type
  /\ RuleOf("union") = parse_union /\ StructOf("union") = Union
  /\ RuleOf("varargs") = Rule({}, {}, {}) /\ StructOf("varargs") = VarArgs
  /\ RuleOf("virtual-method") = parse_virtual_method /\ StructOf("virtual-method") = VirtualMethod
  BY DEF RuleOf, StructOf, Elements, ElementNames

\* The structs and rules of callables, field by field.
LEMMA Callables ==
  LET function == parse_inline_function_elements \cup {"attribute"}
  IN  /\ FunctionInline = [Struct({"name"} \cup InfoVersion, CallableAttributes,
                                  {"c:identifier"}, DocElements \cup {"parameters", "return-value"})
                           EXCEPT !.ban = {"inst"}]
      /\ \A s \in {Function, MethodInline, VirtualMethod} :
           /\ s.must = {"name"} \cup InfoVersion /\ s.typed = CallableAttributes
           /\ s.parts = InfoElements \cup {"parameters", "return-value"}
      /\ Function.deref = {"c:identifier"} /\ MethodInline.deref = {"c:identifier"}
      /\ VirtualMethod.deref = {}
      /\ Function.need = {} /\ Function.ban = {"inst"}
      /\ \A s \in {MethodInline, VirtualMethod} : s.need = {"inst"} /\ s.ban = {}
      /\ \A r \in {parse_function, parse_method, parse_inline_method, parse_virtual_method} :
           /\ r.mandatory = {"name"} /\ r.converted = parse_callable_attributes
           /\ r.children = parse_function_elements
      /\ parse_function.need = {} /\ parse_function.ban = {"inst"}
      /\ \A r \in {parse_method, parse_inline_method, parse_virtual_method} :
           r.need = {"inst"} /\ r.ban = {}
  BY DEF FunctionInline, Function, MethodInline, Method, VirtualMethod, Banning, Struct,
         parse_function, parse_method, parse_inline_method, parse_virtual_method, Rule,
         InfoElements, DocElements

LEMMA Table ==
  ASSUME NEW el \in ElementNames
  PROVE  Agrees(el) /\ Nested(el)
  <1> USE DEF Agrees, Nested, SameFacts, Fields, Noticed, Unchecked, ReadUnchecked,
              UnreadUnchecked, Informed, InfoVersion, ElementNames,
              Rule, Struct, Needing, Banning, populate_str_attr, Converts, Illegal,
              parse_opt_bool, parse_dir, parse_run_signal, parse_scope, parse_stability,
              parse_ownership, parse_id_prefixes, parse_symbol_prefixes, is_legal_prefix_char,
              parse_info_attributes, parse_doc_elements, parse_info_elements, parse_any_type,
              parse_inline_function_elements, parse_function_elements,
              parse_callable_attributes, InfoAttributes, DocElements, InfoElements, AnyType,
              PrefixLists, CallableAttributes, ObjectFields, Functions, Methods
  <1>1. CASE el = "repository"
    BY <1>1, Lookup DEF parse_repo, Repository
  <1>2. CASE el = "include"
    BY <1>2, Lookup DEF parse_include, Include
  <1>3. CASE el = "namespace"
    BY <1>3, Lookup DEF parse_namespace, Namespace
  <1>4. CASE el = "alias"
    BY <1>4, Lookup DEF parse_alias, Alias
  <1>5. CASE el = "attribute"
    BY <1>5, Lookup DEF parse_annotation, Annotation
  <1>6. CASE el = "array"
    BY <1>6, Lookup DEF parse_array_type, ArrayType
  <1>7. CASE el = "bitfield"
    BY <1>7, Lookup DEF parse_bitfield, Bitfield
  <1>8. CASE el = "parameters"
    BY <1>8, Lookup DEF parse_callable_params, CallableParams
  <1>9. CASE el = "return-value"
    BY <1>9, Lookup DEF parse_callable_return, CallableReturn
  <1>10. CASE el = "class"
    BY <1>10, Lookup, SMTT(60) DEF parse_class, Class
  <1>11. CASE el = "constructor"
    <2>1. RuleOf(el) = parse_function /\ StructOf(el) = Function
      BY <1>11, Lookup DEF parse_constructor, Constructor
    <2>2. SameFacts(el)
      BY <1>11, <2>1, Callables
    <2>3. \A f \in Fields(el) : Noticed(el, f) <=> <<el, f>> \notin Unchecked
      BY <1>11, <2>1, Callables
    <2>4. StructOf(el).parts \subseteq RuleOf(el).children
      BY <1>11, <2>1, Callables
    <2>5. Nested(el)
      BY <1>11, <2>1, Callables
    <2> QED  BY <2>2, <2>3, <2>4, <2>5
  <1>12. CASE el = "doc"
    BY <1>12, Lookup DEF parse_doc, Documentation
  <1>13. CASE el = "source-position"
    <2>1. RuleOf(el) = Rule({}, {}, {}) /\ StructOf(el) = Struct({"filename"}, {}, {}, {})
      BY <1>13, Lookup DEF parse_source_position, SourcePosition
    <2>2. SameFacts(el)
      BY <1>13, <2>1
    <2>3. \A f \in Fields(el) : Noticed(el, f) <=> <<el, f>> \notin Unchecked
      BY <1>13, <2>1
    <2>4. StructOf(el).parts \subseteq RuleOf(el).children
      BY <1>13, <2>1
    <2>5. Nested(el)
      BY <1>13, <2>1
    <2> QED  BY <2>2, <2>3, <2>4, <2>5
  <1>14. CASE el = "docsection"
    BY <1>14, Lookup DEF parse_doc_section, DocSection
  <1>15. CASE el = "enumeration"
    BY <1>15, Lookup DEF parse_enum, Enum
  <1>16. CASE el = "function"
    <2>1. RuleOf(el) = parse_function /\ StructOf(el) = Function
      BY <1>16, Lookup
    <2>2. SameFacts(el)
      BY <1>16, <2>1, Callables
    <2>3. \A f \in Fields(el) : Noticed(el, f) <=> <<el, f>> \notin Unchecked
      BY <1>16, <2>1, Callables
    <2>4. StructOf(el).parts \subseteq RuleOf(el).children
      BY <1>16, <2>1, Callables
    <2>5. Nested(el)
      BY <1>16, <2>1, Callables
    <2> QED  BY <2>2, <2>3, <2>4, <2>5
  <1>17. CASE el = "function-inline"
    BY <1>17, Lookup, SMTT(60) DEF parse_inline_function, FunctionInline
  <1>18. CASE el = "implements"
    BY <1>18, Lookup, SMTT(60) DEF parse_implements, Implements
  <1>19. CASE el = "interface"
    BY <1>19, Lookup, SMTT(60) DEF parse_interface, Interface
  <1>20. CASE el = "instance-parameter"
    BY <1>20, Lookup, SMTT(60) DEF parse_instance_param, InstanceParam
  <1>21. CASE el = "member"
    BY <1>21, Lookup, SMTT(60) DEF parse_member, Member
  <1>22. CASE el = "method"
    <2>1. RuleOf(el) = parse_method /\ StructOf(el) = MethodInline
      BY <1>22, Lookup DEF Method
    <2>2. SameFacts(el)
      BY <1>22, <2>1, Callables
    <2>3. \A f \in Fields(el) : Noticed(el, f) <=> <<el, f>> \notin Unchecked
      BY <1>22, <2>1, Callables
    <2>4. StructOf(el).parts \subseteq RuleOf(el).children
      BY <1>22, <2>1, Callables
    <2>5. Nested(el)
      BY <1>22, <2>1, Callables
    <2> QED  BY <2>2, <2>3, <2>4, <2>5
  <1>23. CASE el = "method-inline"
    <2>1. RuleOf(el) = parse_inline_method /\ StructOf(el) = MethodInline
      BY <1>23, Lookup
    <2>2. SameFacts(el)
      BY <1>23, <2>1, Callables
    <2>3. \A f \in Fields(el) : Noticed(el, f) <=> <<el, f>> \notin Unchecked
      BY <1>23, <2>1, Callables
    <2>4. StructOf(el).parts \subseteq RuleOf(el).children
      BY <1>23, <2>1, Callables
    <2>5. Nested(el)
      BY <1>23, <2>1, Callables
    <2> QED  BY <2>2, <2>3, <2>4, <2>5
  <1>24. CASE el = "parameter"
    BY <1>24, Lookup, SMTT(60) DEF parse_param, Param
  <1>25. CASE el = "prerequisite"
    BY <1>25, Lookup DEF parse_prerequisite, Prerequisite
  <1>26. CASE el = "property"
    BY <1>26, Lookup, SMTT(60) DEF parse_property, Property
  <1>27. CASE el = "record"
    BY <1>27, Lookup, SMTT(60) DEF parse_record, Record
  <1>28. CASE el = "glib:signal"
    BY <1>28, Lookup, SMTT(60) DEF parse_signal, Signal
  <1>29. CASE el = "type"
    BY <1>29, Lookup DEF parse_type, Type
  <1>30. CASE el = "union"
    BY <1>30, Lookup, SMTT(60) DEF parse_union, Union
  <1>31. CASE el = "varargs"
    BY <1>31, Lookup DEF VarArgs
  <1>32. CASE el = "virtual-method"
    <2>1. RuleOf(el) = parse_virtual_method /\ StructOf(el) = VirtualMethod
      BY <1>32, Lookup
    <2>2. SameFacts(el)
      BY <1>32, <2>1, Callables
    <2>3. \A f \in Fields(el) : Noticed(el, f) <=> <<el, f>> \notin Unchecked
      BY <1>32, <2>1, Callables
    <2>4. StructOf(el).parts \subseteq RuleOf(el).children
      BY <1>32, <2>1, Callables
    <2>5. Nested(el)
      BY <1>32, <2>1, Callables
    <2> QED  BY <2>2, <2>3, <2>4, <2>5
  <1> HIDE DEF Agrees, Nested
  <1> QED  BY <1>1, <1>2, <1>3, <1>4, <1>5, <1>6, <1>7, <1>8, <1>9, <1>10, <1>11, <1>12,
              <1>13, <1>14, <1>15, <1>16, <1>17, <1>18, <1>19, <1>20, <1>21, <1>22,
              <1>23, <1>24, <1>25, <1>26, <1>27, <1>28, <1>29, <1>30, <1>31, <1>32 DEF
              ElementNames

-----------------------------------------------------------------------------
(* The walk.                                                                 *)

Frames == [el : ElementNames, found : SUBSET Facts]

\* What is open starts at the repository, every element is a child of the one around it,
\* and an open namespace, which is the second, is the working namespace.
Open ==
  /\ state = "load" => stack = <<>>
  /\ state = "parse" => stack # <<>>
  /\ stack # <<>> => stack[1].el = "repository"
  /\ \A i \in DOMAIN stack : i > 1 => stack[i].el \in RuleOf(stack[i - 1].el).children
  /\ Len(stack) >= 2 /\ stack[2].el = "namespace" => m_working_namespace = 2

ParserInv == ParserTypeOK /\ stack \in Seq(Frames) /\ Open /\ ErrorsExact

LEMMA Empty == <<>> \in Seq(Frames) /\ Len(<<>>) = 0 /\ DOMAIN <<>> = {}
  OBVIOUS

\* The types of the variables, in the form the steps need them.
LEMMA ParserTypes ==
  ASSUME stack \in Seq(Frames)
  PROVE  /\ Len(stack) \in Nat /\ DOMAIN stack = 1 .. Len(stack)
         /\ \A i \in DOMAIN stack : stack[i] \in Frames
         /\ stack # <<>> => Len(stack) \in DOMAIN stack /\ 1 \in DOMAIN stack
  <1>1. Len(stack) \in Nat /\ DOMAIN stack = 1 .. Len(stack)
    OBVIOUS
  <1>2. \A i \in DOMAIN stack : stack[i] \in Frames
    OBVIOUS
  <1>3. stack # <<>> => Len(stack) > 0
    OBVIOUS
  <1> QED  BY <1>1, <1>2, <1>3

\* The start of an element that belongs where it is: the errors that are reported are
\* those of the object.
LEMMA StartErrors ==
  ASSUME ErrorsExact, m_has_errors \in BOOLEAN, NEW el \in ElementNames,
         NEW flaws \in FlawsOf(el), Start(el, flaws)
  PROVE  m_has_errors' \in BOOLEAN /\ ErrorsExact'
  <1>1. flaws \subseteq Fields(el)
    BY DEF FlawsOf
  <1>2. \A f \in flaws : Noticed(el, f) <=> <<el, f>> \notin Unchecked
    BY <1>1, Table DEF Agrees
  <1>3. stored' \subseteq Unchecked
          <=> stored \subseteq Unchecked /\ \A f \in flaws : <<el, f>> \in Unchecked
    BY DEF Start
  <1>4. m_has_errors' = (m_has_errors \/ \E f \in flaws : Noticed(el, f))
    BY DEF Start
  <1>5. (\E f \in flaws : Noticed(el, f)) <=> ~(\A f \in flaws : <<el, f>> \in Unchecked)
    BY <1>2
  <1> QED  BY <1>3, <1>4, <1>5 DEF ErrorsExact

\* The end of an element: the errors that are reported are those of what it is without.
LEMMA EndErrors ==
  ASSUME NEW el \in ElementNames, NEW found \in SUBSET Facts
  PROVE  Complains(RuleOf(el), found)
           <=> ~({el} \X Lacks(StructOf(el), found) \subseteq Unchecked)
  <1>1. SameFacts(el)
    BY Table DEF Agrees
  <1> DEFINE rule == RuleOf(el)
             struct == StructOf(el)
  <1>2. {el} \X Lacks(struct, found) \subseteq Unchecked
          <=> \A f \in (struct.need \ found) \cup (struct.ban \cap found) : <<el, f>> \in Unchecked
    BY DEF Lacks
  <1>3. CASE /\ rule.need = struct.need /\ rule.ban = struct.ban
             /\ rule.need \cup rule.ban \subseteq {"type", "varargs", "inst"}
             /\ \A f \in {"type", "varargs", "inst"} : <<el, f>> \notin Unchecked
    <2>1. \A f \in (struct.need \ found) \cup (struct.ban \cap found) : <<el, f>> \notin Unchecked
      BY <1>3
    <2>2. Complains(rule, found)
            <=> \E f \in (struct.need \ found) \cup (struct.ban \cap found) : TRUE
      <3> HIDE DEF rule, struct
      <3> QED  BY <1>3 DEF Complains
    <2> QED  BY <1>2, <2>1, <2>2
  <1>4. CASE /\ rule.need = {} /\ rule.ban = {}
             /\ struct.need = {"type"} /\ struct.ban = {}
             /\ <<el, "type">> \in Unchecked
    <2>1. ~Complains(rule, found)
      <3> HIDE DEF rule, struct
      <3> QED  BY <1>4 DEF Complains
    <2> QED  BY <1>2, <1>4, <2>1
  <1> QED  BY <1>1, <1>3, <1>4 DEF SameFacts

LEMMA LoadRepository ==
  ASSUME ParserInv, load_repository
  PROVE  ParserInv'
  <1> USE DEF ParserInv, Open
  <1>1. PICK flaws \in FlawsOf("repository") : Start("repository", flaws)
    BY DEF load_repository
  <1>2. "repository" \in ElementNames
    BY DEF ElementNames
  <1>3. m_has_errors' \in BOOLEAN /\ ErrorsExact'
    BY <1>1, <1>2, StartErrors DEF ParserTypeOK
  <1>4. stack' = <<[el |-> "repository", found |-> {}]>>
    <2>1. stack = <<>> /\ stack' = Append(stack, [el |-> "repository", found |-> {}])
      BY <1>1 DEF Start, Frame, load_repository
    <2> QED  BY <2>1
  <1>5. m_working_namespace' = m_working_namespace
    BY <1>1 DEF Start, WorkingNamespace
  <1>6. stack' \in Seq(Frames)
    BY <1>2, <1>4 DEF Frames
  <1>7. ParserTypeOK'
    BY <1>2, <1>3, <1>4, <1>5 DEF ParserTypeOK, load_repository
  <1>8. Open'
    BY <1>4 DEF load_repository
  <1> QED  BY <1>3, <1>6, <1>7, <1>8

LEMMA ParseElement ==
  ASSUME ParserInv, NEW el \in ElementNames, parse_element(el)
  PROVE  ParserInv'
  <1> USE DEF ParserInv
  <1>1. PICK flaws \in FlawsOf(el) : Start(el, flaws)
    BY DEF parse_element
  <1>2. m_has_errors' \in BOOLEAN /\ ErrorsExact'
    BY <1>1, StartErrors DEF ParserTypeOK
  <1>3. /\ state = "parse" /\ state' = "parse" /\ stack # <<>>
        /\ Len(stack) + Height(el) <= MaxDepth
        /\ el \in RuleOf(stack[Len(stack)].el).children
    BY DEF parse_element, Open, Top
  <1>4. stack' = Append(stack, [el |-> el, found |-> {}])
    BY <1>1 DEF Start, Frame
  <1>5. /\ Len(stack) \in Nat /\ Len(stack) > 0 /\ DOMAIN stack = 1 .. Len(stack)
        /\ \A i \in DOMAIN stack : stack[i] \in Frames
    BY <1>3, ParserTypes
  <1>6. /\ stack' \in Seq(Frames) /\ Len(stack') = Len(stack) + 1
        /\ DOMAIN stack' = 1 .. Len(stack) + 1
        /\ \A i \in DOMAIN stack : stack'[i] = stack[i]
        /\ stack'[Len(stack) + 1] = [el |-> el, found |-> {}]
    BY <1>4, <1>5 DEF Frames
  <1>7. m_working_namespace'
          = IF el = "namespace" THEN Len(stack) + 1 ELSE m_working_namespace
    BY <1>1 DEF Start, WorkingNamespace
  <1>8. el = "namespace" => Len(stack) = 1
    <2> SUFFICES ASSUME el = "namespace", Len(stack) > 1 PROVE FALSE
      BY <1>5
    <2>1. stack[Len(stack)].el = "repository"
      <3>1. stack[Len(stack)].el \in ElementNames
        BY <1>5 DEF Frames
      <3> QED  BY <1>3, <3>1, Table DEF Nested
    <2>2. stack[Len(stack)].el \in RuleOf(stack[Len(stack) - 1].el).children
      BY <1>5 DEF Open
    <2>3. stack[Len(stack) - 1].el \in ElementNames
      BY <1>5 DEF Frames
    <2> QED  BY <2>1, <2>2, <2>3, Table DEF Nested
  <1>9. Open'
    <2>1. \A i \in DOMAIN stack' : i > 1 => stack'[i].el \in RuleOf(stack'[i - 1].el).children
      BY <1>3, <1>5, <1>6 DEF Open
    <2>2. Len(stack') >= 2 /\ stack'[2].el = "namespace" => m_working_namespace' = 2
      BY <1>5, <1>6, <1>7, <1>8 DEF Open
    <2> QED  BY <1>3, <1>5, <1>6, <2>1, <2>2 DEF Open
  <1>10. ParserTypeOK'
    <2>1. m_working_namespace' \in {NULL} \cup (1 .. MaxDepth)
      <3>1. Height(el) >= 1 /\ Height(el) \in Nat
        BY DEF Height
      <3> QED  BY <1>3, <1>5, <1>7, <3>1, ParserAssumption DEF ParserTypeOK
    <2>2. \A i \in DOMAIN stack' : /\ stack'[i].el \in ElementNames
                                   /\ stack'[i].found \subseteq Facts
      <3>1. \A i \in DOMAIN stack : /\ stack[i].el \in ElementNames
                                    /\ stack[i].found \subseteq Facts
        BY <1>5 DEF Frames
      <3> QED  BY <1>5, <1>6, <3>1
    <2> QED  BY <1>2, <1>3, <2>1, <2>2 DEF ParserTypeOK, Facts
  <1> QED  BY <1>2, <1>6, <1>9, <1>10

LEMMA EndElement ==
  ASSUME ParserInv, end_element
  PROVE  ParserInv'
  <1> USE DEF ParserInv
  <1> DEFINE rest == SubSeq(stack, 1, Len(stack) - 1)
             errors == m_has_errors \/ Complains(RuleOf(Top.el), Top.found)
  <1>1. /\ state = "parse" /\ stack # <<>>
        /\ m_has_errors' = errors
        /\ stored' = stored \cup ({Top.el} \X Lacks(StructOf(Top.el), Top.found))
        /\ m_working_namespace' = IF m_working_namespace = Len(stack) THEN NULL
                                  ELSE m_working_namespace
        /\ rest = <<>> => stack' = <<>> /\ state' \in {"failed", "parsed"}
        /\ rest # <<>> => /\ stack' = [rest EXCEPT ![Len(rest)].found = Learns(@, Top)]
                          /\ state' = state
    BY DEF end_element, Open
  <1>2. /\ Len(stack) \in Nat /\ Len(stack) > 0 /\ DOMAIN stack = 1 .. Len(stack)
        /\ \A i \in DOMAIN stack : stack[i] \in Frames
        /\ Top \in Frames
    BY <1>1, ParserTypes DEF Top
  <1>3. m_has_errors' \in BOOLEAN /\ ErrorsExact'
    <2>1. Complains(RuleOf(Top.el), Top.found)
            <=> ~({Top.el} \X Lacks(StructOf(Top.el), Top.found) \subseteq Unchecked)
      BY <1>2, EndErrors DEF Frames
    <2>2. stored' \subseteq Unchecked
            <=> /\ stored \subseteq Unchecked
                /\ {Top.el} \X Lacks(StructOf(Top.el), Top.found) \subseteq Unchecked
      BY <1>1
    <2>3. m_has_errors' = (m_has_errors \/ Complains(RuleOf(Top.el), Top.found))
      BY <1>1
    <2>4. Complains(RuleOf(Top.el), Top.found) \in BOOLEAN
      BY DEF Complains
    <2> QED  BY <2>1, <2>2, <2>3, <2>4 DEF ErrorsExact, ParserTypeOK
  <1>4. m_working_namespace' \in {NULL} \cup (1 .. MaxDepth)
    BY <1>1 DEF ParserTypeOK
  <1>5. CASE rest = <<>>
    <2>1. stack' = <<>> /\ DOMAIN stack' = {} /\ Len(stack') = 0 /\ stack' \in Seq(Frames)
      BY <1>1, <1>5, Empty
    <2>2. Open'
      BY <1>1, <1>5, <2>1 DEF Open
    <2> QED  BY <1>1, <1>3, <1>4, <1>5, <2>1, <2>2 DEF ParserTypeOK
  <1>6. CASE rest # <<>>
    <2> DEFINE n == Len(stack) - 1
    <2>1. /\ n \in Nat /\ n > 0 /\ Len(rest) = n /\ DOMAIN rest = 1 .. n
          /\ \A i \in 1 .. n : rest[i] = stack[i] /\ rest[i] \in Frames
      BY <1>2, <1>6
    <2>2. Learns(rest[n].found, Top) \in SUBSET Facts
      BY <1>2, <2>1 DEF Learns, Frames, Facts, AnyType
    <2>3. /\ DOMAIN stack' = 1 .. n /\ Len(stack') = n
          /\ \A i \in 1 .. n : stack'[i] \in Frames /\ stack'[i].el = stack[i].el
          /\ stack' \in Seq(Frames)
      <3>1. stack' = [i \in 1 .. n |-> IF i = n THEN [rest[n] EXCEPT !.found = Learns(@, Top)]
                                       ELSE rest[i]]
        BY <1>1, <1>6, <2>1
      <3>2. [rest[n] EXCEPT !.found = Learns(@, Top)] \in Frames
        BY SMTT(30), <2>1, <2>2 DEF Frames
      <3>3. [rest[n] EXCEPT !.found = Learns(@, Top)].el = rest[n].el
        BY <2>1 DEF Frames
      <3>4. \A i \in 1 .. n : stack'[i] \in Frames /\ stack'[i].el = stack[i].el
        BY <2>1, <3>1, <3>2, <3>3
      <3> HIDE DEF n
      <3>5. stack' \in [1 .. n -> Frames]
        BY <3>1, <3>4
      <3> QED  BY <2>1, <3>4, <3>5
    <2>4. Open'
      <3>1. \A i \in DOMAIN stack' : i > 1 => stack'[i].el \in RuleOf(stack'[i - 1].el).children
        BY <1>2, <2>1, <2>3 DEF Open
      <3>2. Len(stack') >= 2 /\ stack'[2].el = "namespace" => m_working_namespace' = 2
        <4> SUFFICES ASSUME Len(stack') >= 2, stack'[2].el = "namespace"
                     PROVE  m_working_namespace' = 2
          OBVIOUS
        <4>1. Len(stack) > 2 /\ stack[2].el = "namespace"
          BY <1>2, <2>1, <2>3
        <4> QED  BY <1>1, <1>2, <4>1 DEF Open
      <3> QED  BY SMTT(30), <1>1, <1>2, <1>6, <2>1, <2>3, <3>1, <3>2 DEF Open
    <2>5. ParserTypeOK'
      BY <1>1, <1>3, <1>4, <1>6, <2>3 DEF ParserTypeOK, Frames, Facts
    <2> QED  BY <1>3, <2>3, <2>4, <2>5
  <1> QED  BY <1>5, <1>6

LEMMA ParserStarts == ParserInit => ParserInv
  <1> SUFFICES ASSUME ParserInit PROVE ParserInv
    OBVIOUS
  <1>1. stack = <<>> /\ DOMAIN stack = {} /\ Len(stack) = 0 /\ stack \in Seq(Frames)
    BY Empty DEF ParserInit
  <1>2. ParserTypeOK
    BY <1>1 DEF ParserInit, ParserTypeOK
  <1>3. Open /\ ErrorsExact
    BY <1>1 DEF ParserInit, Open, ErrorsExact
  <1> QED  BY <1>1, <1>2, <1>3 DEF ParserInv

LEMMA ParserStep == ParserInv /\ [ParserNext]_parserVars => ParserInv'
  <1> SUFFICES ASSUME ParserInv, [ParserNext]_parserVars PROVE ParserInv'
    OBVIOUS
  <1>1. CASE load_fails
    BY <1>1 DEF ParserInv, ParserTypeOK, Open, ErrorsExact, load_fails
  <1>2. CASE UNCHANGED parserVars
    BY <1>2 DEF ParserInv, ParserTypeOK, Open, ErrorsExact, parserVars
  <1> QED  BY <1>1, <1>2, LoadRepository, ParseElement, EndElement DEF ParserNext

LEMMA ParserInvFaithful == ParserInv => ParserFaithful
  <1> SUFFICES ASSUME ParserInv PROVE ParserFaithful
    OBVIOUS
  <1> USE DEF ParserInv
  <1>1. /\ Len(stack) \in Nat /\ DOMAIN stack = 1 .. Len(stack)
        /\ \A i \in DOMAIN stack : stack[i].el \in ElementNames
    BY ParserTypes DEF Frames
  <1>2. ASSUME NEW i \in DOMAIN stack, stack[i].el \in AnyType
        PROVE  m_working_namespace \in 1 .. i - 1
    <2>1. stack # <<>> /\ stack[1].el = "repository" /\ i # 1
      BY <1>1, <1>2 DEF Open, AnyType
    <2>2. stack[2].el \in {"include", "namespace"}
      <3>1. 2 \in DOMAIN stack /\ stack[2].el \in RuleOf("repository").children
        <4>1. 2 \in DOMAIN stack /\ 2 > 1 /\ 2 - 1 = 1
          BY <1>1, <1>2, <2>1
        <4> QED  BY <2>1, <4>1 DEF Open
      <3> QED  BY <3>1, Table DEF Nested, ElementNames
    <2>3. i # 2
      BY <1>2, <2>2 DEF AnyType
    <2>4. stack[3].el \in RuleOf(stack[2].el).children
      BY SMTT(30), <1>1, <2>1, <2>3 DEF Open
    <2>5. stack[2].el = "namespace"
      BY <1>1, <2>2, <2>4, Table DEF Nested, ElementNames
    <2> QED  BY <1>1, <2>1, <2>3, <2>5 DEF Open
  <1>3. PartsParsed
    BY <1>1, Table DEF PartsParsed, Agrees
  <1> QED  BY <1>2, <1>3 DEF ParserFaithful, TypesOwned

(***************************************************************************)
(* The program is a parser and what it does when that has ended.           *)
(***************************************************************************)
LEMMA RunsParser == Spec => ParserSpec
  <1>1. Init => ParserInit
    BY DEF Init
  <1>2. [Next]_vars => [ParserNext]_parserVars
    BY DEF Next, Step, ended, vars, parserVars, load_inputs, register_inputs,
           load_supporting_repositories, search_for_included_namespaces, search_begins, run,
           run_ends, check_unknown, write_enum_defs, write_function_defs, write_signal_defs,
           write_vfunc_defs
  <1> QED  BY <1>1, <1>2, PTL DEF Spec, ParserSpec

(***************************************************************************)
(* Whatever document the parser reads, however deeply nested and with      *)
(* however many flaws: it reports an error if and only if an object it has *)
(* built lacks something that schema.h says it has (but for the fields of  *)
(* Unchecked), every type it reads has a namespace to be owned by, and no  *)
(* part of an object is dropped.                                           *)
(***************************************************************************)
THEOREM ParserReportsErrors == Spec => []ParserFaithful
  BY ParserStarts, ParserStep, ParserInvFaithful, RunsParser, PTL DEF ParserSpec

-----------------------------------------------------------------------------
(* The search for included namespaces.                                       *)

Repos == world.inputs \o supporting
Everything == ToSet(world.inputs) \cup ToSet(supporting)

\* Phases before the search, and after it.
Before == {"load", "register", "supporting"}
After == {"unknown", "enums", "functions", "signals", "vfuncs"}

\* The name has been marked with this version.
MarkedIn(v, name, version) == name \in DOMAIN v /\ v[name] = version

\* What the search knows, with the names v, the queue q and the missing files miss, when
\* it has taken the namespaces and the includes of repos: every namespace of them has
\* been marked,
NamesTaken(repos, v) ==
  \A repo \in repos : \A i \in Named(repo) :
    MarkedIn(v, repo.namespaces[i].name, repo.namespaces[i].version)

\* every include of them is in the queue or has been marked,
IncludesTaken(repos, v, q) ==
  \A repo \in repos : \A inc \in ToSet(repo.includes) :
    inc \in ToSet(q) \/ MarkedIn(v, inc.name, inc.version)

\* and every name that has been marked belongs to a namespace of them or to a file that
\* is missing.
NamesExplained(repos, v, miss) ==
  \A name \in DOMAIN v :
    <<name, v[name]>> \in miss \/ \E repo \in repos : <<name, v[name]>> \in Keys(repo)

Searched(repos) ==
  NamesTaken(repos, visited) /\ IncludesTaken(repos, visited, queue)
  /\ NamesExplained(repos, visited, missing)

Fresh == docs = <<>> /\ visited = <<>> /\ queue = <<>> /\ missing = {} /\ read = <<>>

SearchTypes ==
  /\ world \in Worlds \cup {NoWorld}
  /\ next \in Nat \ {0}
  /\ supporting \in Seq(Repositories)
  /\ docs \in Seq(Repositories)
  /\ queue \in Seq(IncludesOf(Repositories))
  /\ read \in Seq(Nat)

\* A namespace with a version that has been reported as missing is in no file of the
\* search directories.
MissingAbsent == \A key \in missing : \A repo \in world.dir : key \notin Versioned(repo)

\* A file that has been read is one of the supporting repositories.
ReadOnce ==
  /\ NoFileTwice
  /\ \A i \in DOMAIN read : read[i] \in DOMAIN docs /\ docs[read[i]] \in ToSet(supporting)

SearchInv ==
  /\ SearchTypes
  /\ ReadOnce
  /\ phase \in {"load", "supporting"} => next = 1
  /\ phase \in Before => Fresh
  /\ phase = "includes" => /\ docs = <<>> /\ read = <<>> /\ missing = {}
                           /\ next - 1 <= Len(Repos)
                           /\ Searched({Repos[i] : i \in 1 .. next - 1})
  /\ MissingAbsent
  /\ phase = "search" => Searched(Everything) /\ world.dir \subseteq ToSet(docs)
  /\ SearchEnded => queue = <<>> /\ Searched(Everything)

\* The files of a world.
LEMMA WorldTypes ==
  ASSUME NEW w \in Worlds \cup {NoWorld}
  PROVE  /\ w.inputs \in Seq(Repositories) /\ w.supporting \in Seq(Repositories)
         /\ IsFiniteSet(w.dir) /\ w.dir \subseteq Repositories
  <1>1. CASE w \in Worlds
    <2>1. /\ w.inputs \in Seq(Repositories) /\ w.supporting \in Seq(Repositories)
          /\ IsFiniteSet(w.dir)
      BY <1>1, WorldsAssumption
    <2>2. w.dir \subseteq Repositories
      BY <1>1 DEF Repositories
    <2> QED  BY <2>1, <2>2
  <1>2. CASE w = NoWorld
    <2>1. w.inputs = <<>> /\ w.supporting = <<>> /\ w.dir = {}
      BY <1>2 DEF NoWorld
    <2> QED  BY <2>1, FS_EmptySet
  <1> QED  BY <1>1, <1>2

\* The repositories that are searched, in their order and as a set.
LEMMA ReposTypes ==
  ASSUME SearchTypes
  PROVE  /\ Repos \in Seq(Repositories) /\ Len(Repos) \in Nat /\ DOMAIN Repos = 1 .. Len(Repos)
         /\ \A i \in DOMAIN Repos : Repos[i] \in Repositories
         /\ {Repos[i] : i \in 1 .. Len(Repos)} = Everything
  <1> DEFINE a == world.inputs
  <1>1. a \in Seq(Repositories) /\ supporting \in Seq(Repositories)
    BY WorldTypes DEF SearchTypes
  <1>2. /\ Len(a) \in Nat /\ Len(supporting) \in Nat
        /\ DOMAIN a = 1 .. Len(a) /\ DOMAIN supporting = 1 .. Len(supporting)
    BY <1>1
  <1>3. Repos = a \o supporting
    BY DEF Repos
  <1>4. Everything = {a[i] : i \in DOMAIN a} \cup {supporting[i] : i \in DOMAIN supporting}
    BY DEF Everything, ToSet
  <1> HIDE DEF a
  <1>5. /\ Repos \in Seq(Repositories) /\ Len(Repos) = Len(a) + Len(supporting)
        /\ DOMAIN Repos = 1 .. Len(Repos)
        /\ \A i \in 1 .. Len(Repos) :
              Repos[i] = IF i <= Len(a) THEN a[i] ELSE supporting[i - Len(a)]
    BY <1>1, <1>2, <1>3
  <1>6. \A i \in 1 .. Len(Repos) : Repos[i] \in Everything
    BY SMTT(30), <1>2, <1>4, <1>5
  <1>7. ASSUME NEW r \in Everything PROVE r \in {Repos[i] : i \in 1 .. Len(Repos)}
    <2>1. CASE \E i \in DOMAIN a : r = a[i]
      BY <1>2, <1>5, <2>1
    <2>2. CASE \E i \in DOMAIN supporting : r = supporting[i]
      <3>1. PICK i \in DOMAIN supporting : r = supporting[i]
        BY <2>2
      <3>2. i + Len(a) \in 1 .. Len(Repos) /\ Repos[i + Len(a)] = r
        BY <1>2, <1>5, <3>1
      <3> QED  BY <3>2
    <2> QED  BY <1>4, <1>7, <2>1, <2>2
  <1> QED  BY <1>2, <1>5, <1>6, <1>7

\* The least of some natural numbers.
LEMMA Least ==
  ASSUME NEW T, T \subseteq Nat, T # {}
  PROVE  \E x \in T : \A y \in T : x <= y
  <1> DEFINE R == OpToRel(<, Nat)
  <1>1. IsWellFoundedOn(R, Nat)
    BY NatLessThanWellFounded
  <1>2. \A x, y \in Nat : y < x => <<y, x>> \in R
    <2>1. R = {ss \in Nat \X Nat : ss[1] < ss[2]}
      BY DEF OpToRel
    <2> HIDE DEF R
    <2> QED  BY <2>1
  <1> HIDE DEF R
  <1>3. PICK x \in T : \A y \in T : <<y, x>> \notin R
    BY <1>1, WFMin
  <1>4. ASSUME NEW y \in T PROVE x <= y
    <2>1. x \in Nat /\ y \in Nat
      OBVIOUS
    <2>2. ~(y < x)
      BY <1>2, <1>3, <2>1, Zenon
    <2> QED  BY <2>1, <2>2
  <1> QED  BY <1>4

\* The file of a namespace has this namespace, in this version.
LEMMA FileOfNamespace ==
  ASSUME docs \in Seq(Repositories), NEW key, m_namespace_to_doc(key) # 0
  PROVE  /\ m_namespace_to_doc(key) \in DOMAIN docs
         /\ key \in Versioned(docs[m_namespace_to_doc(key)])
  <1> DEFINE having == {i \in DOMAIN docs : key \in Versioned(docs[i])}
  <1>1. having # {} /\ m_namespace_to_doc(key) = CHOOSE i \in having : \A j \in having : i <= j
    BY DEF m_namespace_to_doc
  <1>2. having \subseteq Nat
    <2>1. DOMAIN docs = 1 .. Len(docs) /\ Len(docs) \in Nat
      OBVIOUS
    <2> QED  BY <2>1
  <1>3. m_namespace_to_doc(key) \in having
    <2>1. \E i \in having : \A j \in having : i <= j
      BY <1>1, <1>2, Least
    <2> HIDE DEF having
    <2> QED  BY <1>1, <2>1
  <1> QED  BY <1>3

\* A namespace with a version has a file if one of those listed has it.
LEMMA FileOfListed ==
  ASSUME docs \in Seq(Repositories), NEW repo \in ToSet(docs), NEW key \in Versioned(repo)
  PROVE  m_namespace_to_doc(key) # 0
  <1> DEFINE having == {i \in DOMAIN docs : key \in Versioned(docs[i])}
  <1>1. PICK i \in DOMAIN docs : docs[i] = repo
    BY DEF ToSet
  <1>2. i \in having
    BY <1>1
  <1>3. having \subseteq Nat \ {0}
    <2>1. DOMAIN docs = 1 .. Len(docs) /\ Len(docs) \in Nat
      OBVIOUS
    <2> QED  BY <2>1
  <1>4. m_namespace_to_doc(key) = CHOOSE j \in having : \A k \in having : j <= k
    BY <1>2 DEF m_namespace_to_doc
  <1> HIDE DEF having
  <1>5. \E j \in having : \A k \in having : j <= k
    BY <1>2, <1>3, Least
  <1> QED  BY <1>3, <1>4, <1>5

\* Marking keeps what has been marked and adds the namespaces of the repository, in
\* their versions unless there is a conflict.
LEMMA Marking ==
  ASSUME NEW v, NEW repo, ~NamesConflict(v, repo)
  PROVE  LET w == NamesMarked(v, repo)
         IN  /\ DOMAIN v \subseteq DOMAIN w
             /\ \A n \in DOMAIN v : w[n] = v[n]
             /\ \A i \in Named(repo) : /\ repo.namespaces[i].name \in DOMAIN w
                                       /\ w[repo.namespaces[i].name] = repo.namespaces[i].version
             /\ \A n \in DOMAIN w \ DOMAIN v :
                  \E i \in Named(repo) : n = repo.namespaces[i].name
  <1> DEFINE w == NamesMarked(v, repo)
             names == {repo.namespaces[i].name : i \in Named(repo)}
  <1>1. w = [n \in DOMAIN v \cup names |-> IF n \in DOMAIN v THEN v[n] ELSE VersionIn(repo, n)]
    BY DEF NamesMarked
  <1>2. \A i \in Named(repo) :
           ~Conflicts(w, repo.namespaces[i].name, repo.namespaces[i].version)
    BY DEF NamesConflict
  <1> HIDE DEF w
  <1>3. DOMAIN w = DOMAIN v \cup names
    BY <1>1
  <1>4. \A n \in DOMAIN v : w[n] = v[n]
    BY <1>1
  <1>5. \A i \in Named(repo) : repo.namespaces[i].name \in DOMAIN w
    BY <1>3
  <1>6. \A i \in Named(repo) : w[repo.namespaces[i].name] = repo.namespaces[i].version
    BY <1>2, <1>5 DEF Conflicts
  <1>7. \A n \in DOMAIN w \ DOMAIN v : \E i \in Named(repo) : n = repo.namespaces[i].name
    BY <1>3
  <1> QED  BY <1>3, <1>4, <1>5, <1>6, <1>7 DEF w

\* Marking one name that is new.
LEMMA MarkingOne ==
  ASSUME NEW v, NEW name, NEW version, name \notin DOMAIN v
  PROVE  LET w == mark_visited_namespace(v, name, version)
         IN  /\ DOMAIN w = DOMAIN v \cup {name}
             /\ \A n \in DOMAIN v : w[n] = v[n]
             /\ w[name] = version
  BY DEF mark_visited_namespace

\* The members of a sequence that is lengthened or loses its head.
LEMMA SeqSets ==
  ASSUME NEW S, NEW s \in Seq(S), NEW t \in Seq(S)
  PROVE  /\ s \o t \in Seq(S) /\ ToSet(s \o t) = ToSet(s) \cup ToSet(t)
         /\ \A e \in S : Append(s, e) \in Seq(S) /\ ToSet(Append(s, e)) = ToSet(s) \cup {e}
         /\ s # <<>> => /\ Head(s) \in S /\ Tail(s) \in Seq(S)
                        /\ ToSet(s) = {Head(s)} \cup ToSet(Tail(s))
  <1>1. /\ Len(s) \in Nat /\ DOMAIN s = 1 .. Len(s)
        /\ Len(t) \in Nat /\ DOMAIN t = 1 .. Len(t)
    OBVIOUS
  <1>2. s \o t \in Seq(S) /\ ToSet(s \o t) = ToSet(s) \cup ToSet(t)
    <2>1. /\ s \o t \in Seq(S) /\ DOMAIN (s \o t) = 1 .. Len(s) + Len(t)
          /\ \A i \in 1 .. Len(s) + Len(t) :
                (s \o t)[i] = IF i <= Len(s) THEN s[i] ELSE t[i - Len(s)]
      BY <1>1
    <2>2. ASSUME NEW x \in ToSet(s \o t) PROVE x \in ToSet(s) \cup ToSet(t)
      <3>1. PICK i \in 1 .. Len(s) + Len(t) : x = (s \o t)[i]
        BY <2>1 DEF ToSet
      <3>2. CASE i <= Len(s)
        BY <1>1, <2>1, <3>1, <3>2 DEF ToSet
      <3>3. CASE ~(i <= Len(s))
        <4>1. i - Len(s) \in DOMAIN t /\ x = t[i - Len(s)]
          BY <1>1, <2>1, <3>1, <3>3
        <4> QED  BY <4>1 DEF ToSet
      <3> QED  BY <3>2, <3>3
    <2>3. ASSUME NEW i \in DOMAIN s PROVE s[i] \in ToSet(s \o t)
      <3>1. i \in DOMAIN (s \o t) /\ (s \o t)[i] = s[i]
        BY <1>1, <2>1
      <3> QED  BY <3>1 DEF ToSet
    <2>4. ASSUME NEW i \in DOMAIN t PROVE t[i] \in ToSet(s \o t)
      <3>1. i + Len(s) \in DOMAIN (s \o t) /\ (s \o t)[i + Len(s)] = t[i]
        BY <1>1, <2>1
      <3> QED  BY <3>1 DEF ToSet
    <2>5. ToSet(s) \cup ToSet(t) \subseteq ToSet(s \o t)
      BY <2>3, <2>4 DEF ToSet
    <2> QED  BY <2>1, <2>2, <2>5
  <1>3. ASSUME NEW e \in S
        PROVE  Append(s, e) \in Seq(S) /\ ToSet(Append(s, e)) = ToSet(s) \cup {e}
    <2>1. /\ Append(s, e) \in Seq(S) /\ DOMAIN Append(s, e) = 1 .. Len(s) + 1
          /\ \A i \in 1 .. Len(s) : Append(s, e)[i] = s[i]
          /\ Append(s, e)[Len(s) + 1] = e
      BY <1>1
    <2>2. \A i \in 1 .. Len(s) + 1 : i \in 1 .. Len(s) \/ i = Len(s) + 1
      BY <1>1
    <2> QED  BY <1>1, <2>1, <2>2 DEF ToSet
  <1>4. ASSUME s # <<>>
        PROVE  Head(s) \in S /\ Tail(s) \in Seq(S) /\ ToSet(s) = {Head(s)} \cup ToSet(Tail(s))
    <2>1. /\ Head(s) \in S /\ Tail(s) \in Seq(S) /\ Head(s) = s[1] /\ 1 \in DOMAIN s
          /\ DOMAIN Tail(s) = 1 .. Len(s) - 1 /\ \A i \in 1 .. Len(s) - 1 : Tail(s)[i] = s[i + 1]
      BY <1>1, <1>4
    <2>2. ASSUME NEW i \in DOMAIN s PROVE s[i] \in {Head(s)} \cup ToSet(Tail(s))
      <3>1. CASE i = 1
        BY <2>1, <3>1
      <3>2. CASE i # 1
        <4>1. i - 1 \in DOMAIN Tail(s) /\ Tail(s)[i - 1] = s[i]
          BY <1>1, <2>1, <3>2
        <4> QED  BY <4>1 DEF ToSet
      <3> QED  BY <3>1, <3>2
    <2>3. \A i \in DOMAIN Tail(s) : i + 1 \in DOMAIN s /\ Tail(s)[i] = s[i + 1]
      BY <1>1, <2>1
    <2> QED  BY <2>1, <2>2, <2>3 DEF ToSet
  <1> QED  BY <1>2, <1>3, <1>4

\* Taking one more repository.
LEMMA TakeOne ==
  ASSUME NEW repos, NEW v, NEW q \in Seq(IncludesOf(Repositories)), NEW miss,
         NEW repo \in Repositories, ~NamesConflict(v, repo),
         NamesTaken(repos, v), IncludesTaken(repos, v, q),
         NamesExplained(repos \cup {repo}, v, miss)
  PROVE  LET added == add_includes(v, repo)
         IN  /\ NamesTaken(repos \cup {repo}, added.visited)
             /\ IncludesTaken(repos \cup {repo}, added.visited, q \o added.queue)
             /\ NamesExplained(repos \cup {repo}, added.visited, miss)
             /\ q \o added.queue \in Seq(IncludesOf(Repositories))
  <1> DEFINE w == NamesMarked(v, repo)
  <1>1. add_includes(v, repo).visited = w /\ add_includes(v, repo).queue = repo.includes
    BY DEF add_includes
  <1>2. /\ \A n \in DOMAIN v : n \in DOMAIN w /\ w[n] = v[n]
        /\ \A i \in Named(repo) : MarkedIn(w, repo.namespaces[i].name, repo.namespaces[i].version)
        /\ \A n \in DOMAIN w \ DOMAIN v : \E i \in Named(repo) : n = repo.namespaces[i].name
    BY Marking DEF MarkedIn
  <1> HIDE DEF w
  <1>3. repo.includes \in Seq(IncludesOf(Repositories))
    BY WorldsAssumption
  <1>4. /\ q \o repo.includes \in Seq(IncludesOf(Repositories))
        /\ ToSet(q \o repo.includes) = ToSet(q) \cup ToSet(repo.includes)
    BY <1>3, SeqSets
  <1>5. NamesTaken(repos \cup {repo}, w)
    BY <1>2 DEF NamesTaken, MarkedIn
  <1>6. IncludesTaken(repos \cup {repo}, w, q \o repo.includes)
    BY <1>2, <1>4 DEF IncludesTaken, MarkedIn
  <1>7. NamesExplained(repos \cup {repo}, w, miss)
    <2> SUFFICES ASSUME NEW n \in DOMAIN w
                 PROVE  <<n, w[n]>> \in miss
                        \/ \E r \in repos \cup {repo} : <<n, w[n]>> \in Keys(r)
      BY DEF NamesExplained
    <2>1. CASE n \in DOMAIN v
      BY <1>2, <2>1 DEF NamesExplained
    <2>2. CASE n \notin DOMAIN v
      <3>1. PICK i \in Named(repo) : n = repo.namespaces[i].name
        BY <1>2, <2>2
      <3>2. w[n] = repo.namespaces[i].version
        BY <1>2, <3>1 DEF MarkedIn
      <3>3. <<n, w[n]>> \in Keys(repo)
        BY <3>1, <3>2 DEF Keys, combined_name, Named
      <3> QED  BY <3>3
    <2> QED  BY <2>1, <2>2
  <1> QED  BY <1>1, <1>4, <1>5, <1>6, <1>7

searchVars == <<world, next, supporting, docs, visited, queue, missing, read>>

\* Steps that search nothing: the same phase, the end of the program, or another phase
\* after the search.
LEMMA SearchStands ==
  ASSUME SearchInv, UNCHANGED searchVars,
         phase' \in {phase, "done", "terminated"} \/ (phase \in After /\ phase' \in After)
  PROVE  SearchInv'
  <1> USE DEF searchVars
  <1>1. SearchTypes' /\ ReadOnce'
    BY DEF SearchInv, SearchTypes, ReadOnce, NoFileTwice
  <1>2. Fresh' = Fresh /\ Repos' = Repos /\ Everything' = Everything
    BY DEF Fresh, Repos, Everything
  <1>3. \A repos : Searched(repos)' = Searched(repos)
    BY DEF Searched
  <1>4. /\ phase' \in {"load", "supporting", "register", "includes", "search"} => phase' = phase
        /\ SearchEnded' => SearchEnded
    BY DEF After, SearchEnded
  <1>5. /\ phase' \in {"load", "supporting"} => next' = 1
        /\ phase' \in Before => Fresh'
        /\ phase' = "search" => Searched(Everything)' /\ world.dir' \subseteq ToSet(docs')
        /\ MissingAbsent'
        /\ SearchEnded' => queue' = <<>> /\ Searched(Everything)'
    BY <1>2, <1>3, <1>4 DEF SearchInv, Before, Searched, MissingAbsent
  <1>6. phase' = "includes" =>
          /\ docs' = <<>> /\ read' = <<>> /\ missing' = {}
          /\ next' - 1 <= Len(Repos')
          /\ Searched({Repos[i] : i \in 1 .. next - 1})'
    BY <1>2, <1>3, <1>4 DEF SearchInv, Searched
  <1> QED  BY <1>1, <1>5, <1>6 DEF SearchInv

\* Nothing has been searched as long as nothing has been read.
LEMMA FreshFacts ==
  ASSUME Fresh
  PROVE  /\ docs \in Seq(Repositories) /\ queue \in Seq(IncludesOf(Repositories))
         /\ read \in Seq(Nat) /\ ReadOnce
         /\ Searched({}) /\ ~SearchEnded
  <1>1. DOMAIN read = {} /\ DOMAIN visited = {}
    BY Empty DEF Fresh
  <1> QED  BY <1>1 DEF Fresh, ReadOnce, NoFileTwice, SearchEnded, Searched, NamesTaken,
                       IncludesTaken, NamesExplained

LEMMA SearchInit ==
  ASSUME Init
  PROVE  SearchInv
  <1>1. Fresh
    BY DEF Init, Fresh
  <1>2. SearchTypes
    BY <1>1, FreshFacts DEF Init, SearchTypes
  <1> QED  BY <1>1, <1>2, FreshFacts DEF Init, SearchInv, MissingAbsent, Fresh

\* Steps before the search.
LEMMA SearchWaits ==
  ASSUME SearchInv, phase \in Before, UNCHANGED SearchVars,
         world' \in Worlds \cup {NoWorld}, next' \in Nat \ {0}, supporting' \in Seq(Repositories),
         phase' \in Before \cup {"includes", "unknown"},
         phase' \in {"load", "supporting", "includes"} => next' = 1
  PROVE  SearchInv'
  <1>1. Fresh /\ Fresh'
    BY DEF SearchInv, Fresh, SearchVars
  <1>2. SearchTypes'
    BY <1>1 DEF SearchInv, SearchTypes, Fresh
  <1>3. ReadOnce'
    BY <1>1, Empty DEF ReadOnce, NoFileTwice, Fresh
  <1>4. ~SearchEnded'
    BY <1>1, Empty DEF SearchEnded, Fresh
  <1>5. ASSUME phase' = "includes"
        PROVE  next' - 1 <= Len(Repos') /\ Searched({Repos[i] : i \in 1 .. next - 1})'
    <2>1. next' - 1 = 0 /\ {Repos'[i] : i \in 1 .. next' - 1} = {}
      BY <1>5
    <2>2. Len(Repos') \in Nat
      <3>1. world.inputs' \in Seq(Repositories) /\ supporting' \in Seq(Repositories)
        BY WorldTypes
      <3>2. Repos' \in Seq(Repositories)
        BY <3>1 DEF Repos
      <3> QED  BY <3>2
    <2>3. DOMAIN visited' = {}
      BY <1>1, Empty DEF Fresh
    <2>4. Searched({Repos[i] : i \in 1 .. next - 1})'
      BY <2>1, <2>3 DEF Searched, NamesTaken, IncludesTaken, NamesExplained
    <2> QED  BY <2>1, <2>2, <2>4
  <1>6. MissingAbsent'
    BY <1>1 DEF MissingAbsent, Fresh
  <1> QED  BY <1>1, <1>2, <1>3, <1>4, <1>5, <1>6 DEF SearchInv, Fresh, Before

\* The search begins.
LEMMA SearchBegins ==
  ASSUME SearchInv, search_begins
  PROVE  SearchInv'
  <1> DEFINE taken == {Repos[i] : i \in 1 .. next - 1}
             repo == Repos[next]
             added == add_includes(visited, repo)
  <1>1. /\ phase = "includes" /\ docs = <<>> /\ read = <<>> /\ missing = {}
        /\ next \in Nat \ {0} /\ next - 1 <= Len(Repos) /\ Searched(taken)
        /\ queue \in Seq(IncludesOf(Repositories))
        /\ world \in Worlds \cup {NoWorld} /\ supporting \in Seq(Repositories)
    BY DEF search_begins, SearchInv, SearchTypes
  <1>2. /\ Repos \in Seq(Repositories) /\ Len(Repos) \in Nat
        /\ \A i \in 1 .. Len(Repos) : Repos[i] \in Repositories
        /\ {Repos[i] : i \in 1 .. Len(Repos)} = Everything
    BY ReposTypes DEF SearchInv
  <1>3. UNCHANGED <<world, supporting, missing, read>> /\ Repos' = Repos /\ Everything' = Everything
    BY DEF search_begins, Repos, Everything
  <1>4. CASE next <= Len(Repos) /\ NamesConflict(visited, repo)
    <2>1. UNCHANGED searchVars /\ phase' = "done"
      BY <1>3, <1>4 DEF search_begins, searchVars, Return, Repos
    <2> QED  BY <2>1, SearchStands
  <1>5. CASE next <= Len(Repos) /\ ~NamesConflict(visited, repo)
    <2>1. /\ visited' = added.visited /\ queue' = queue \o added.queue
          /\ next' = next + 1 /\ phase' = phase /\ docs' = docs
      BY <1>5 DEF search_begins, Repos
    <2>2. repo \in Repositories
      BY <1>1, <1>2, <1>5
    <2>3. /\ NamesTaken(taken, visited) /\ IncludesTaken(taken, visited, queue)
          /\ NamesExplained(taken \cup {repo}, visited, missing)
      BY <1>1 DEF Searched, NamesExplained
    <2>4. /\ NamesTaken(taken \cup {repo}, added.visited)
          /\ IncludesTaken(taken \cup {repo}, added.visited, queue \o added.queue)
          /\ NamesExplained(taken \cup {repo}, added.visited, missing)
          /\ queue \o added.queue \in Seq(IncludesOf(Repositories))
      <3> HIDE DEF taken, repo
      <3> QED  BY <1>1, <1>5, <2>2, <2>3, TakeOne
    <2>5. taken \cup {repo} = {Repos[i] : i \in 1 .. next}
      <3>1. \A i \in 1 .. next : i \in 1 .. next - 1 \/ i = next
        BY <1>1
      <3> QED  BY <1>1, <3>1
    <2>6. next' - 1 = next
      BY <1>1, <2>1
    <2>7. Searched({Repos[i] : i \in 1 .. next - 1})'
      <3> HIDE DEF repo, added
      <3> QED  BY <1>3, <2>1, <2>4, <2>5, <2>6 DEF Searched
    <2>8. SearchTypes'
      <3> HIDE DEF repo, added
      <3> QED  BY <1>1, <1>3, <2>1, <2>4 DEF SearchInv, SearchTypes
    <2>9. ReadOnce'
      BY <1>1, <1>3, Empty DEF ReadOnce, NoFileTwice
    <2>10. MissingAbsent'
      BY <1>1, <1>3 DEF MissingAbsent
    <2> QED  BY SMTT(30), <1>1, <1>3, <1>5, <2>1, <2>6, <2>7, <2>8, <2>9, <2>10
             DEF SearchInv, SearchEnded, Before
  <1>6. CASE ~(next <= Len(Repos))
    <2>1. /\ docs' \in SetToSeqs(world.dir) /\ phase' = "search"
          /\ next' = next /\ visited' = visited /\ queue' = queue
      BY <1>6 DEF search_begins, Repos
    <2>2. docs' \in Seq(Repositories) /\ world.dir \subseteq ToSet(docs')
      <3>1. world.dir \subseteq Repositories /\ IsFiniteSet(world.dir)
        BY <1>1, WorldTypes
      <3> DEFINE n == Cardinality(world.dir)
      <3>2. n \in Nat
        BY <3>1, FS_CardinalityType
      <3>3. docs' \in [1 .. n -> world.dir]
        BY <2>1 DEF SetToSeqs
      <3>4. docs' \in [1 .. n -> Repositories]
        BY <3>1, <3>3
      <3>5. docs' \in Surjection(1 .. n, world.dir)
        <4>1. docs' \in Injection(1 .. n, world.dir)
          BY <2>1, <3>3 DEF SetToSeqs, Injection, IsInjective
        <4>2. Cardinality(1 .. n) = n
          BY <3>2, FS_Interval
        <4> HIDE DEF n
        <4> QED  BY <3>1, <4>1, <4>2, FS_Injection DEF n
      <3>6. DOMAIN docs' = 1 .. n
        BY <3>3
      <3> HIDE DEF n
      <3>7. world.dir \subseteq ToSet(docs')
        BY <3>5, <3>6 DEF Surjection, ToSet
      <3> QED  BY <3>2, <3>4, <3>7
    <2>3. taken = Everything
      BY SMTT(30), <1>1, <1>2, <1>6
    <2>4. Searched(Everything)'
      BY <1>1, <1>3, <2>1, <2>3 DEF Searched
    <2>5. SearchTypes'
      BY <1>1, <1>3, <2>1, <2>2 DEF SearchInv, SearchTypes
    <2>6. ReadOnce'
      BY <1>1, <1>3, Empty DEF ReadOnce, NoFileTwice
    <2>7. MissingAbsent'
      BY <1>1, <1>3 DEF MissingAbsent
    <2> QED  BY <1>3, <2>1, <2>2, <2>4, <2>5, <2>6, <2>7 DEF SearchInv, SearchEnded, Before
  <1> QED  BY <1>4, <1>5, <1>6

\* A round of the search that finds no file for the namespace.
LEMMA FileMissing ==
  ASSUME SearchInv, phase = "search", queue # <<>>, Head(queue).name \notin DOMAIN visited,
         m_namespace_to_doc(combined_name(Head(queue).name, Head(queue).version)) = 0,
         run_visits(Head(queue)), UNCHANGED <<world, next, docs>>
  PROVE  SearchInv'
  <1> DEFINE dependency == Head(queue)
             seen == mark_visited_namespace(visited, dependency.name, dependency.version)
  <1>1. /\ missing' = missing \cup {<<dependency.name, dependency.version>>}
        /\ visited' = seen /\ queue' = Tail(queue)
        /\ UNCHANGED <<supporting, read, phase>>
    BY DEF run_visits, combined_name
  <1>2. Searched(Everything) /\ queue \in Seq(IncludesOf(Repositories))
    BY DEF SearchInv, SearchTypes
  <1>3. /\ Tail(queue) \in Seq(IncludesOf(Repositories))
        /\ ToSet(queue) = {dependency} \cup ToSet(Tail(queue))
    BY <1>2, SeqSets
  <1>4. /\ DOMAIN seen = DOMAIN visited \cup {dependency.name}
        /\ \A n \in DOMAIN visited : seen[n] = visited[n]
        /\ seen[dependency.name] = dependency.version
    BY DEF mark_visited_namespace
  <1> HIDE DEF dependency, seen
  <1>5. NamesTaken(Everything, seen)
    BY <1>2, <1>4 DEF Searched, NamesTaken, MarkedIn
  <1>6. IncludesTaken(Everything, seen, Tail(queue))
    BY <1>2, <1>3, <1>4 DEF Searched, IncludesTaken, MarkedIn
  <1>7. NamesExplained(Everything, seen, missing')
    BY <1>1, <1>2, <1>4 DEF Searched, NamesExplained
  <1>8. Everything' = Everything /\ phase' = "search"
    BY <1>1 DEF Everything
  <1>9. Searched(Everything)'
    BY <1>1, <1>5, <1>6, <1>7, <1>8 DEF Searched
  <1>10. SearchTypes' /\ ReadOnce'
    BY <1>1, <1>3 DEF SearchInv, SearchTypes, ReadOnce, NoFileTwice
  <1>11. docs \in Seq(Repositories) /\ MissingAbsent /\ world.dir \subseteq ToSet(docs)
    BY DEF SearchInv, SearchTypes
  <1>12. MissingAbsent'
    <2>1. \A repo \in world.dir : <<dependency.name, dependency.version>> \notin Versioned(repo)
      BY <1>11, FileOfListed DEF dependency, combined_name
    <2> QED  BY <1>1, <1>11, <2>1 DEF MissingAbsent
  <1> QED  BY <1>8, <1>9, <1>10, <1>11, <1>12 DEF SearchInv, SearchEnded, Before

\* A round that finds a file, whose namespaces conflict with others or do not.
LEMMA FileFound ==
  ASSUME SearchInv, phase = "search", queue # <<>>, Head(queue).name \notin DOMAIN visited,
         m_namespace_to_doc(combined_name(Head(queue).name, Head(queue).version)) # 0,
         run_visits(Head(queue)), UNCHANGED <<world, next, docs>>
  PROVE  SearchInv'
  <1> DEFINE dependency == Head(queue)
             key == <<dependency.name, dependency.version>>
             doc == m_namespace_to_doc(key)
             seen == mark_visited_namespace(visited, dependency.name, dependency.version)
             added == add_includes(seen, docs[doc])
  <1>1. /\ supporting' = Append(supporting, docs[doc]) /\ read' = Append(read, doc)
        /\ missing' = missing
        /\ IF NamesConflict(seen, docs[doc])
           THEN phase' = "done" /\ UNCHANGED <<visited, queue>>
           ELSE /\ visited' = added.visited /\ queue' = Tail(queue) \o added.queue
                /\ phase' = phase
    BY DEF run_visits, combined_name, Return
  <1>2. /\ Searched(Everything) /\ queue \in Seq(IncludesOf(Repositories))
        /\ supporting \in Seq(Repositories) /\ docs \in Seq(Repositories) /\ read \in Seq(Nat)
        /\ world \in Worlds \cup {NoWorld} /\ next \in Nat \ {0} /\ ReadOnce
        /\ MissingAbsent /\ world.dir \subseteq ToSet(docs)
    BY DEF SearchInv, SearchTypes
  <1>3. /\ Tail(queue) \in Seq(IncludesOf(Repositories))
        /\ ToSet(queue) = {dependency} \cup ToSet(Tail(queue))
    BY <1>2, SeqSets
  <1>4. /\ DOMAIN seen = DOMAIN visited \cup {dependency.name}
        /\ \A n \in DOMAIN visited : seen[n] = visited[n]
        /\ seen[dependency.name] = dependency.version
    BY DEF mark_visited_namespace
  <1>5. doc \in DOMAIN docs /\ key \in Versioned(docs[doc])
    BY <1>2, FileOfNamespace DEF combined_name
  <1>6. docs[doc] \in Repositories /\ doc \in Nat
    BY <1>2, <1>5
  <1>7. PICK i \in Named(docs[doc]) : docs[doc].namespaces[i].name = dependency.name
    BY <1>5 DEF Versioned, Keys, combined_name, Named
  <1> HIDE DEF dependency, doc, seen, added
  <1>8. docs[doc] \notin Everything
    BY <1>2, <1>7 DEF Searched, NamesTaken, MarkedIn, dependency
  <1>9. \A j \in DOMAIN read : read[j] # doc
    BY <1>2, <1>8 DEF ReadOnce, Everything
  <1>10. /\ supporting' \in Seq(Repositories)
         /\ ToSet(supporting') = ToSet(supporting) \cup {docs[doc]}
    BY <1>1, <1>2, <1>6, SeqSets
  <1>11. Everything' = Everything \cup {docs[doc]}
    BY <1>10 DEF Everything
  <1>12. ReadOnce'
    <2>1. /\ Len(read) \in Nat /\ DOMAIN read = 1 .. Len(read) /\ read' \in Seq(Nat)
          /\ DOMAIN read' = 1 .. Len(read) + 1
          /\ \A j \in 1 .. Len(read) : read'[j] = read[j]
          /\ read'[Len(read) + 1] = doc
      BY <1>1, <1>2, <1>6
    <2>2. \A j \in DOMAIN read' : j \in DOMAIN read \/ j = Len(read) + 1
      BY <2>1
    <2>3. NoFileTwice'
      BY <1>2, <1>9, <2>1, <2>2 DEF ReadOnce, NoFileTwice
    <2>4. \A j \in DOMAIN read' :
             read'[j] \in DOMAIN docs /\ docs[read'[j]] \in ToSet(supporting')
      BY <1>2, <1>5, <1>10, <2>1, <2>2 DEF ReadOnce
    <2> QED  BY <2>3, <2>4 DEF ReadOnce
  <1>13. read' \in Seq(Nat)
    BY <1>1, <1>2, <1>6
  <1>14. MissingAbsent'
    BY <1>1, <1>2 DEF MissingAbsent
  <1>15. CASE NamesConflict(seen, docs[doc])
    <2>1. phase' = "done" /\ SearchTypes'
      BY <1>1, <1>2, <1>10, <1>13, <1>15 DEF SearchTypes
    <2> QED  BY <1>12, <1>14, <2>1 DEF SearchInv, SearchEnded, Before
  <1>16. CASE ~NamesConflict(seen, docs[doc])
    <2>1. /\ NamesTaken(Everything, seen) /\ IncludesTaken(Everything, seen, Tail(queue))
      BY <1>2, <1>3, <1>4 DEF Searched, NamesTaken, IncludesTaken, MarkedIn
    <2>2. NamesExplained(Everything \cup {docs[doc]}, seen, missing)
      BY <1>2, <1>4, <1>5 DEF Searched, NamesExplained, Versioned
    <2>3. /\ NamesTaken(Everything', visited') /\ IncludesTaken(Everything', visited', queue')
          /\ NamesExplained(Everything', visited', missing')
          /\ queue' \in Seq(IncludesOf(Repositories))
      <3>1. /\ NamesTaken(Everything \cup {docs[doc]}, added.visited)
            /\ IncludesTaken(Everything \cup {docs[doc]}, added.visited,
                             Tail(queue) \o added.queue)
            /\ NamesExplained(Everything \cup {docs[doc]}, added.visited, missing)
            /\ Tail(queue) \o added.queue \in Seq(IncludesOf(Repositories))
        BY <1>3, <1>6, <1>16, <2>1, <2>2, TakeOne DEF added
      <3> QED  BY <1>1, <1>11, <1>16, <3>1
    <2>4. SearchTypes' /\ phase' = "search"
      BY <1>1, <1>2, <1>10, <1>13, <1>16, <2>3 DEF SearchTypes
    <2> QED  BY <1>2, <1>12, <1>14, <2>3, <2>4 DEF SearchInv, SearchEnded, Before, Searched
  <1> QED  BY <1>15, <1>16, Zenon

\* One round of the search.
LEMMA SearchRuns ==
  ASSUME SearchInv, run
  PROVE  SearchInv'
  <1> DEFINE dependency == Head(queue)
  <1>1. phase = "search" /\ queue # <<>> /\ UNCHANGED <<world, next, docs>>
    BY DEF run
  <1>2. CASE Conflicts(visited, dependency.name, dependency.version)
    <2>1. UNCHANGED searchVars /\ phase' = "done"
      BY <1>2 DEF run, searchVars, Return
    <2> QED  BY <2>1, SearchStands
  <1>3. CASE /\ ~Conflicts(visited, dependency.name, dependency.version)
             /\ Skipped(dependency)
    <2>1. /\ queue' = Tail(queue)
          /\ UNCHANGED <<world, next, docs, supporting, visited, missing, read, phase>>
      BY <1>3 DEF run
    <2>2. Searched(Everything) /\ queue \in Seq(IncludesOf(Repositories))
      BY <1>1 DEF SearchInv, SearchTypes
    <2>3. /\ Tail(queue) \in Seq(IncludesOf(Repositories))
          /\ ToSet(queue) = {dependency} \cup ToSet(Tail(queue))
      BY <1>1, <2>2, SeqSets
    <2>4. MarkedIn(visited, dependency.name, dependency.version)
      BY <1>3 DEF Conflicts, Skipped, MarkedIn
    <2> HIDE DEF dependency
    <2>5. IncludesTaken(Everything, visited, Tail(queue))
      BY <2>2, <2>3, <2>4 DEF Searched, IncludesTaken
    <2>6. Everything' = Everything
      BY <2>1 DEF Everything
    <2>7. Searched(Everything)'
      BY <2>1, <2>2, <2>5, <2>6 DEF Searched
    <2>8. SearchTypes' /\ ReadOnce' /\ MissingAbsent' /\ world.dir \subseteq ToSet(docs)
      BY <1>1, <2>1, <2>3 DEF SearchInv, SearchTypes, ReadOnce, NoFileTwice, MissingAbsent
    <2> QED  BY <1>1, <2>1, <2>7, <2>8 DEF SearchInv, SearchEnded, Before
  <1>4. CASE /\ ~Conflicts(visited, dependency.name, dependency.version)
             /\ ~Skipped(dependency)
    <2>1. run_visits(dependency) /\ dependency.name \notin DOMAIN visited
      BY <1>4 DEF run, Skipped
    <2> QED  BY <1>1, <2>1, FileMissing, FileFound
  <1> QED  BY <1>2, <1>3, <1>4

\* The steps of main() around the search.
LEMMA SearchStep ==
  ASSUME SearchInv, [Next]_vars
  PROVE  SearchInv'
  <1>1. CASE UNCHANGED mainVars
    BY <1>1, SearchStands DEF mainVars, searchVars
  <1>2. CASE load_inputs
    <2>1. phase \in Before /\ UNCHANGED <<next, supporting, SearchVars>> /\ next = 1
      BY <1>2 DEF load_inputs, Before, SearchInv
    <2>2. CASE phase' = "done" /\ UNCHANGED world
      BY <2>1, <2>2, SearchStands DEF searchVars, SearchVars
    <2>3. CASE phase' = "register" /\ world' \in Worlds
      <3>1. next' \in Nat \ {0} /\ supporting' \in Seq(Repositories)
        BY <2>1 DEF SearchInv, SearchTypes
      <3>2. phase' \in Before /\ next' = 1
        BY <2>1, <2>3 DEF Before
      <3> QED  BY <2>1, <2>3, <3>1, <3>2, SearchWaits
    <2> QED  BY <1>2, <2>2, <2>3 DEF load_inputs, Return
  <1>3. CASE register_inputs
    <2>1. phase \in Before /\ UNCHANGED <<world, supporting, SearchVars>>
      BY <1>3 DEF register_inputs, Before
    <2>2. world' \in Worlds \cup {NoWorld} /\ supporting' \in Seq(Repositories) /\ next \in Nat
      BY <2>1 DEF SearchInv, SearchTypes
    <2>3. \/ phase' = "register" /\ next' = next + 1
          \/ phase' = "supporting" /\ next' = 1
      BY <1>3 DEF register_inputs
    <2>4. next' \in Nat \ {0} /\ phase' \in Before /\ (phase' # "register" => next' = 1)
      BY <2>2, <2>3 DEF Before
    <2> QED  BY <2>1, <2>2, <2>4, SearchWaits
  <1>4. CASE load_supporting_repositories
    <2> DEFINE repo == world.supporting[Len(supporting) + 1]
    <2>1. /\ phase = "supporting" /\ phase \in Before
          /\ UNCHANGED <<world, next, SearchVars>> /\ next = 1
      BY <1>4 DEF load_supporting_repositories, Before, SearchInv
    <2>2. CASE phase' = "done" /\ UNCHANGED supporting
      BY <2>1, <2>2, SearchStands DEF searchVars, SearchVars
    <2>3. CASE phase' = phase /\ supporting' = Append(supporting, repo)
      <3>1. world \in Worlds \cup {NoWorld} /\ supporting \in Seq(Repositories)
        BY DEF SearchInv, SearchTypes
      <3>2. world.supporting \in Seq(Repositories) /\ Len(supporting) \in Nat
        BY <3>1, WorldTypes
      <3>3. Len(supporting) < Len(world.supporting)
        BY <1>4 DEF load_supporting_repositories
      <3>4. repo \in Repositories
        BY <3>2, <3>3
      <3>5. supporting' \in Seq(Repositories)
        BY <2>3, <3>1, <3>4
      <3> QED  BY <2>1, <2>3, <3>1, <3>5, SearchWaits
    <2> QED  BY <1>4, <2>2, <2>3 DEF load_supporting_repositories, Return
  <1>5. CASE search_for_included_namespaces
    <2>1. /\ phase \in Before /\ phase' \in {"includes", "unknown"} /\ next' = 1
          /\ UNCHANGED <<world, supporting, SearchVars>>
      BY <1>5 DEF search_for_included_namespaces, Before, SearchInv
    <2>2. world' \in Worlds \cup {NoWorld} /\ supporting' \in Seq(Repositories)
      BY <2>1 DEF SearchInv, SearchTypes
    <2> QED  BY <2>1, <2>2, SearchWaits
  <1>6. CASE search_begins
    BY <1>6, SearchBegins
  <1>7. CASE run
    BY <1>7, SearchRuns
  <1>8. CASE run_ends
    <2>1. /\ phase = "search" /\ queue = <<>>
          /\ UNCHANGED <<world, next, supporting, SearchVars>>
      BY <1>8 DEF run_ends
    <2>2. CASE phase' = "done"
      BY <2>1, <2>2, SearchStands DEF searchVars, SearchVars
    <2>3. CASE phase' = "unknown"
      <3>1. Everything' = Everything /\ Searched(Everything)
        BY <2>1 DEF Everything, SearchInv
      <3>2. Searched(Everything)'
        BY <2>1, <3>1 DEF Searched, SearchVars
      <3>3. SearchTypes' /\ ReadOnce' /\ MissingAbsent'
        BY <2>1 DEF SearchInv, SearchTypes, ReadOnce, NoFileTwice, SearchVars, MissingAbsent
      <3> QED  BY <2>1, <2>3, <3>2, <3>3 DEF SearchInv, Before, SearchVars
    <2> QED  BY <1>8, <2>2, <2>3 DEF run_ends, Return
  <1>9. CASE \/ check_unknown \/ write_enum_defs \/ write_function_defs
             \/ write_signal_defs \/ write_vfunc_defs
    <2>1. UNCHANGED searchVars /\ phase \in After /\ phase' \in After \cup {"done", "terminated"}
      BY <1>9 DEF check_unknown, write_enum_defs, write_function_defs, write_signal_defs,
                  write_vfunc_defs, searchVars, SearchVars, After, Return
    <2> QED  BY <2>1, SearchStands
  <1> QED  BY <1>1, <1>2, <1>3, <1>4, <1>5, <1>6, <1>7, <1>8, <1>9
           DEF Next, Step, ended, vars

\* What the invariant says when the search has ended.
LEMMA SearchInvAgrees ==
  ASSUME SearchInv
  PROVE  VersionsAgree /\ SearchComplete
  <1>1. NoFileTwice
    BY DEF SearchInv, ReadOnce
  <1>2. ASSUME SearchEnded
        PROVE  \A repo \in Registered :
                 /\ \A i \in Named(repo) :
                       MarkedIn(visited, repo.namespaces[i].name, repo.namespaces[i].version)
                 /\ \A inc \in ToSet(repo.includes) :
                       /\ MarkedIn(visited, inc.name, inc.version)
                       /\ \/ <<inc.name, inc.version>> \in missing
                          \/ \E r \in Registered : <<inc.name, inc.version>> \in Keys(r)
    <2>1. Registered = Everything
      BY <1>2 DEF SearchEnded, Registered, Everything
    <2>2. Searched(Everything) /\ ToSet(queue) = {}
      BY <1>2, Empty DEF SearchInv, ToSet
    <2> HIDE DEF Everything, Registered
    <2> QED  BY <2>1, <2>2 DEF Searched, NamesTaken, IncludesTaken, NamesExplained, MarkedIn
  <1>3. VersionsAgree
    <2>1. ASSUME SearchEnded, NEW repo \in Registered, NEW inc \in ToSet(repo.includes)
          PROVE  visited[inc.name] = inc.version
      BY <1>2, <2>1 DEF MarkedIn
    <2>2. ASSUME SearchEnded, NEW repo \in Registered, NEW ns \in ToSet(repo.namespaces), ns.name # ""
          PROVE  visited[ns.name] = ns.version
      <3>1. PICK i \in DOMAIN repo.namespaces : repo.namespaces[i] = ns
        BY <2>2 DEF ToSet
      <3>2. i \in Named(repo)
        BY <2>2, <3>1 DEF Named
      <3> QED  BY <1>2, <2>2, <3>1, <3>2 DEF MarkedIn
    <2> QED  BY <1>1, <2>1, <2>2 DEF VersionsAgree
  <1>4. SearchComplete
    <2>1. MissingAbsent
      BY DEF SearchInv
    <2> SUFFICES ASSUME SearchEnded, NEW repo \in Registered, NEW inc \in ToSet(repo.includes),
                        <<inc.name, inc.version>> \in UNION {Versioned(r) : r \in world.dir}
                 PROVE  <<inc.name, inc.version>> \in UNION {Keys(r) : r \in Registered}
      BY DEF SearchComplete, combined_name
    <2>2. <<inc.name, inc.version>> \notin missing
      BY <2>1 DEF MissingAbsent
    <2> QED  BY <1>2, <2>2
  <1> QED  BY <1>3, <1>4

(***************************************************************************)
(* Whatever files include each other, in a circle or not, and in whatever  *)
(* order the directory lists them: no file is read twice, and there is one *)
(* version of every namespace when the search has ended.                   *)
(***************************************************************************)
THEOREM OneVersion == Spec => []VersionsAgree
  BY SearchInit, SearchStep, SearchInvAgrees, PTL DEF Spec

(***************************************************************************)
(* And every include, with a version, of a file that has been read has led *)
(* to a file with that namespace and version, if one of the files of the   *)
(* search directories has it.                                              *)
(***************************************************************************)
THEOREM NoIncludeLost == Spec => []SearchComplete
  BY SearchInit, SearchStep, SearchInvAgrees, PTL DEF Spec
-----------------------------------------------------------------------------
(* The type resolver.                                                        *)

\* What holds of 0, and of a number when it holds of the one before it, holds of all.
LEMMA Induction ==
  ASSUME NEW n \in Nat, NEW S, 0 \in S, \A i \in 1 .. n : i - 1 \in S => i \in S
  PROVE  \A i \in 0 .. n : i \in S
  <1> DEFINE T == {i \in 0 .. n : i \notin S}
  <1> SUFFICES ASSUME T # {} PROVE FALSE
    OBVIOUS
  <1>1. PICK x \in T : \A y \in T : x <= y
    <2>1. T \subseteq Nat
      OBVIOUS
    <2> HIDE DEF T
    <2> QED  BY <2>1, Least
  <1>2. x \in 1 .. n /\ x - 1 \in 0 .. n
    BY <1>1
  <1>3. x - 1 \notin T
    BY <1>1, <1>2
  <1> QED  BY <1>1, <1>2, <1>3

Builtins == {[ns |-> "", id |-> b] : b \in DOMAIN s_builtin_type_to_c_type}

\* A resolver has four fields, a name that is known is not among the unknown ones, and
\* has a GParam.
Specified(info) == \A q \in DOMAIN info : info[q].param_spec # NONE
IsResolver(r) ==
  /\ r = [info |-> r.info, unknown |-> r.unknown, has_errors |-> r.has_errors,
          crashed |-> r.crashed]
  /\ r.unknown \cap DOMAIN r.info = {}
  /\ Specified(r.info)

\* From r to t mappings have been recorded, and nothing else.
Maps(r, t) ==
  /\ IsResolver(t)
  /\ DOMAIN r.info \subseteq DOMAIN t.info
  /\ t.unknown = r.unknown \ DOMAIN t.info
  /\ t.crashed = r.crashed

LEMMA MapsOn ==
  ASSUME NEW r, NEW t, NEW u, Maps(r, t), Maps(t, u)
  PROVE  Maps(r, u)
  BY DEF Maps

LEMMA MappingRecorded ==
  ASSUME NEW r, IsResolver(r), NEW name, NEW ns_name, NEW c_type, NEW param_spec,
         param_spec # NONE
  PROVE  Maps(r, record_mapping(r, name, ns_name, c_type, param_spec))
  <1> DEFINE q == qualify_name(name, ns_name)
             t == record_mapping(r, name, ns_name, c_type, param_spec)
  <1>1. CASE q \in DOMAIN r.info
    <2>1. t = [info |-> r.info, unknown |-> r.unknown \ {q},
               has_errors |-> r.has_errors \/ r.info[q].c_type # c_type, crashed |-> r.crashed]
      BY <1>1 DEF record_mapping, IsResolver
    <2> HIDE DEF q, t
    <2>2. t.info = r.info /\ t.unknown = r.unknown \ {q} /\ t.crashed = r.crashed
      BY <2>1
    <2>3. r.unknown \cap DOMAIN r.info = {} /\ Specified(r.info)
      BY DEF IsResolver
    <2>4. IsResolver(t)
      BY <2>1, <2>3 DEF IsResolver
    <2> QED  BY <1>1, <2>2, <2>3, <2>4 DEF Maps, t
  <1>2. CASE q \notin DOMAIN r.info
    <2> DEFINE more == [p \in DOMAIN r.info \cup {q} |->
                          IF p \in DOMAIN r.info THEN r.info[p]
                          ELSE [c_type |-> c_type, param_spec |-> param_spec]]
    <2>1. t = [info |-> more, unknown |-> r.unknown \ {q},
               has_errors |-> r.has_errors, crashed |-> r.crashed]
      BY <1>2 DEF record_mapping, IsResolver
    <2>2. DOMAIN more = DOMAIN r.info \cup {q}
      OBVIOUS
    <2>6. Specified(more)
      <3>1. \A p \in DOMAIN more : more[p].param_spec = IF p \in DOMAIN r.info
                                                      THEN r.info[p].param_spec ELSE param_spec
        OBVIOUS
      <3> HIDE DEF more
      <3> QED  BY <2>2, <3>1 DEF Specified, IsResolver
    <2> HIDE DEF q, t, more
    <2>3. t.info = more /\ t.unknown = r.unknown \ {q} /\ t.crashed = r.crashed
      BY <2>1
    <2>4. r.unknown \cap DOMAIN r.info = {}
      BY DEF IsResolver
    <2>5. IsResolver(t)
      BY <2>1, <2>2, <2>3, <2>4, <2>6 DEF IsResolver
    <2> QED  BY <1>2, <2>2, <2>3, <2>4, <2>5 DEF Maps, t
  <1> QED  BY <1>1, <1>2

\* One pass over the definitions.
LEMMA MappingsRecorded ==
  ASSUME NEW r, IsResolver(r), NEW ns, Len(ns.defs) \in Nat, NEW kind \in DOMAIN SpecOf
  PROVE  Maps(r, record_mappings(r, ns, kind))
  <1> DEFINE n == Len(ns.defs)
             Round(x, i) ==
               IF ~IsOfKind(ns.defs[i], kind) THEN x
               ELSE record_mapping(x, [ns |-> "", id |-> ns.defs[i].name], ns.name,
                                   ns.defs[i].c_type, SpecOf[kind])
             Rounds(m, g) == g = [i \in 0 .. m |-> IF i = 0 THEN r ELSE Round(g[i - 1], i)]
             after == CHOOSE g : Rounds(n, g)
  <1>1. record_mappings(r, ns, kind) = after[n]
    BY DEF record_mappings
  <1>2. ASSUME NEW x, IsResolver(x), NEW i PROVE Maps(x, Round(x, i))
    <2>1. Maps(x, x)
      BY <1>2 DEF Maps, IsResolver
    <2>2. SpecOf[kind] # NONE
      <3>1. SpecOf[kind] \in {"NA", "ENUM", "FLAGS", "BOXED", "OBJECT"}
        BY DEF SpecOf
      <3> QED  BY <3>1, Zenon DEF NONE
    <2> QED  BY <1>2, <2>1, <2>2, MappingRecorded
  <1> HIDE DEF Round
  <1>3. \E g : Rounds(n, g)
    <2> DEFINE S == {m \in 0 .. n : \E g : Rounds(m, g)}
    <2>1. 0 \in S
      <3>1. Rounds(0, [i \in 0 .. 0 |-> r])
        OBVIOUS
      <3> HIDE DEF Rounds
      <3> QED  BY <3>1
    <2>2. ASSUME NEW m \in 1 .. n, m - 1 \in S PROVE m \in S
      <3>1. PICK g : Rounds(m - 1, g)
        BY <2>2
      <3> DEFINE h == [i \in 0 .. m |-> IF i = m THEN Round(g[m - 1], m) ELSE g[i]]
      <3>2. Rounds(m, h)
        <4>1. ASSUME NEW i \in 0 .. m
              PROVE  h[i] = IF i = 0 THEN r ELSE Round(h[i - 1], i)
          <5>1. CASE i = m
            BY <5>1
          <5>2. CASE i # m
            <6>1. i \in 0 .. m - 1 /\ (i # 0 => i - 1 \in 0 .. m - 1 /\ i - 1 # m)
              BY <5>2
            <6> QED  BY <3>1, <6>1
          <5> QED  BY <5>1, <5>2
        <4> QED  BY <4>1
      <3> HIDE DEF Rounds, h
      <3> QED  BY <3>2
    <2> HIDE DEF S, n
    <2>3. \A m \in 1 .. n : m - 1 \in S => m \in S
      BY <2>2
    <2>4. n \in 0 .. n
      BY DEF n
    <2>5. n \in S
      BY <2>1, <2>3, <2>4, Induction DEF n
    <2> HIDE DEF Rounds
    <2> QED  BY <2>5 DEF S
  <1>4. Rounds(n, after)
    BY <1>3
  <1> HIDE DEF after
  <1>5. after[0] = r /\ \A i \in 1 .. n : after[i] = Round(after[i - 1], i)
    <2>1. \A i \in 0 .. n : after[i] = IF i = 0 THEN r ELSE Round(after[i - 1], i)
      BY <1>4
    <2> QED  BY <2>1
  <1> DEFINE S == {i \in 0 .. n : Maps(r, after[i])}
  <1>6. 0 \in S
    BY <1>5 DEF Maps, IsResolver
  <1>7. ASSUME NEW i \in 1 .. n, i - 1 \in S PROVE i \in S
    <2>1. Maps(r, after[i - 1]) /\ IsResolver(after[i - 1])
      BY <1>7 DEF Maps
    <2>2. Maps(after[i - 1], after[i])
      BY <1>2, <1>5, <2>1
    <2> QED  BY <2>1, <2>2, MapsOn
  <1> HIDE DEF S, n
  <1>8. \A i \in 1 .. n : i - 1 \in S => i \in S
    BY <1>7
  <1>9. n \in 0 .. n
    BY DEF n
  <1>10. n \in S
    BY <1>6, <1>8, <1>9, Induction DEF n
  <1> QED  BY <1>1, <1>10 DEF S

LEMMA SimpleTypesExtracted ==
  ASSUME NEW r, IsResolver(r), NEW ns, Len(ns.defs) \in Nat
  PROVE  Maps(r, extract_simple_types(r, ns))
  <1> DEFINE r1 == record_mappings(r, ns, "alias")
             r2 == record_mappings(r1, ns, "enumeration")
             r3 == record_mappings(r2, ns, "bitfield")
             r4 == record_mappings(r3, ns, "union")
             r5 == record_mappings(r4, ns, "record")
             r6 == record_mappings(r5, ns, "interface")
             r7 == record_mappings(r6, ns, "class")
  <1>1. extract_simple_types(r, ns) = r7
    BY DEF extract_simple_types
  <1>2. ASSUME NEW x, Maps(r, x), NEW kind \in DOMAIN SpecOf
        PROVE  Maps(r, record_mappings(x, ns, kind))
    <2>1. IsResolver(x)
      BY <1>2 DEF Maps
    <2>2. Maps(x, record_mappings(x, ns, kind))
      BY <2>1, MappingsRecorded
    <2> QED  BY <1>2, <2>2, MapsOn
  <1>3. Maps(r, r)
    BY DEF Maps, IsResolver
  <1>8. {"alias", "enumeration", "bitfield", "union", "record", "interface", "class"}
          = DOMAIN SpecOf
    BY DEF SpecOf
  <1>4. Maps(r, r1) /\ Maps(r, r2)
    BY <1>2, <1>3, <1>8
  <1>5. Maps(r, r3) /\ Maps(r, r4)
    BY <1>2, <1>4, <1>8
  <1>6. Maps(r, r5) /\ Maps(r, r6)
    BY <1>2, <1>5, <1>8
  <1>7. Maps(r, r7)
    BY <1>2, <1>6, <1>8
  <1> QED  BY <1>1, <1>7

\* The qualified names a namespace uses, and those of several; the namespaces of
\* repositories that are not skipped.
UsedIn(ns) == {qualify_name(n, ns.name) : n \in NamesUsed(ns)}
Uses(spaces) == UNION {UsedIn(ns) : ns \in spaces}
Labelled(repos) == {m \in NamespacesOf(repos) : m.name # ""}
PropertiesHaveTypes(spaces) == \A ns \in spaces : \A s \in extract_property_types(ns) : s.type # <<>>

\* The unknown types of r are those the namespaces use that are neither known nor builtin,
\* and it has survived all their properties.
Exact(r, spaces) ==
  /\ IsResolver(r)
  /\ r.unknown = Uses(spaces) \ (DOMAIN r.info \cup Builtins)
  /\ ~r.crashed => PropertiesHaveTypes(spaces)

\* What WorldsAssumption says of a namespace.
IsNamespace(ns) == Len(ns.defs) \in Nat /\ NamesUsed(ns) \subseteq [ns : STRING, id : STRING]

LEMMA Namespaces ==
  ASSUME NEW ns \in NamespacesOf(Repositories)
  PROVE  IsNamespace(ns)
  <1>1. ns.defs \in Seq(ToSet(ns.defs))
    BY WorldsAssumption
  <1>2. \A s \in ns.sites : \A i \in DOMAIN s.type : s.type[i].name \in [ns : STRING, id : STRING]
    BY WorldsAssumption
  <1>3. find_unknown_types(ns) \cup extract_property_types(ns) \subseteq ns.sites
    BY DEF find_unknown_types, extract_property_types
  <1>4. NamesUsed(ns) \subseteq [ns : STRING, id : STRING]
    <2> SUFFICES ASSUME NEW name \in NamesUsed(ns)
                 PROVE  name \in [ns : STRING, id : STRING]
      OBVIOUS
    <2>1. PICK s \in find_unknown_types(ns) \cup extract_property_types(ns) :
                 name \in find_unknown_types_for_any_type(s.type)
      BY DEF NamesUsed
    <2>2. PICK i \in DOMAIN s.type : name = s.type[i].name
      BY <2>1 DEF find_unknown_types_for_any_type
    <2> QED  BY <1>2, <1>3, <2>2
  <1>5. Len(ns.defs) \in Nat
    BY <1>1
  <1> QED  BY <1>4, <1>5 DEF IsNamespace

\* A name is builtin when it has been qualified exactly if it was builtin before.
LEMMA Qualified ==
  ASSUME NEW n \in [ns : STRING, id : STRING], NEW ns_name, ns_name # ""
  PROVE  qualify_name(n, ns_name) \in Builtins <=> is_builtin_type(n)
  <1> DEFINE B == DOMAIN s_builtin_type_to_c_type
  <1>1. is_builtin_type(n) <=> n.ns = "" /\ n.id \in B
    BY DEF is_builtin_type
  <1>2. Builtins = {[ns |-> "", id |-> b] : b \in B}
    BY DEF Builtins
  <1> HIDE DEF B
  <1>3. n = [ns |-> n.ns, id |-> n.id]
    OBVIOUS
  <1>4. CASE n.ns # "" \/ is_builtin_type(n)
    <2>1. qualify_name(n, ns_name) = n
      BY <1>4 DEF qualify_name, is_qualified_name
    <2>2. n \in Builtins <=> n.ns = "" /\ n.id \in B
      <3>1. ASSUME n \in Builtins PROVE n.ns = "" /\ n.id \in B
        <4>1. PICK b \in B : n = [ns |-> "", id |-> b]
          BY <1>2, <3>1, Zenon
        <4> QED  BY <4>1, Zenon
      <3>2. ASSUME n.ns = "", n.id \in B PROVE n \in Builtins
        <4>1. n = [ns |-> "", id |-> n.id]
          BY <1>3, <3>2
        <4> QED  BY <1>2, <3>2, <4>1, Zenon
      <3> QED  BY <3>1, <3>2
    <2> QED  BY <1>1, <2>1, <2>2
  <1>5. CASE n.ns = "" /\ ~is_builtin_type(n)
    <2>1. qualify_name(n, ns_name) = [ns |-> ns_name, id |-> n.id]
      BY <1>3, <1>5 DEF qualify_name, is_qualified_name
    <2> DEFINE q == [ns |-> ns_name, id |-> n.id]
    <2>2. \A b \in B : [ns |-> "", id |-> b].ns = ""
      OBVIOUS
    <2>3. q.ns = ns_name
      OBVIOUS
    <2> HIDE DEF q
    <2>4. q \notin Builtins
      BY <1>2, <2>2, <2>3
    <2> QED  BY <1>5, <2>1, <2>4 DEF q
  <1> QED  BY <1>4, <1>5

LEMMA CrashRecorded ==
  ASSUME NEW r, IsResolver(r), NEW c
  PROVE  [r EXCEPT !.crashed = c] = [info |-> r.info, unknown |-> r.unknown,
                                     has_errors |-> r.has_errors, crashed |-> c]
  BY DEF IsResolver

LEMMA ErrorRecorded ==
  ASSUME NEW r, IsResolver(r), NEW c
  PROVE  [r EXCEPT !.has_errors = c] = [info |-> r.info, unknown |-> r.unknown,
                                        has_errors |-> c, crashed |-> r.crashed]
  BY DEF IsResolver

\* One namespace: its types are struck off the list, and what it uses is put on it.
LEMMA NamespaceRegistered ==
  ASSUME NEW r, NEW spaces, Exact(r, spaces), NEW ns, IsNamespace(ns), ns.name # ""
  PROVE  Exact(TypeMapper(r, ns), spaces \cup {ns})
  <1> DEFINE simple == extract_simple_types(r, ns)
             crash == \E s \in find_unknown_types(ns) \cup extract_property_types(ns) : s.type = <<>>
             crashed == simple.crashed \/ crash
             x == [simple EXCEPT !.crashed = crashed]
             qualified == {qualify_name(n, ns.name) :
                             n \in {m \in NamesUsed(ns) : ~is_builtin_type(m)}}
             t == TypeMapper(r, ns)
  <1>1. Maps(r, simple) /\ IsResolver(simple)
    BY SimpleTypesExtracted DEF Exact, IsNamespace, Maps
  <1>2. t = [x EXCEPT !.unknown = @ \cup (qualified \ DOMAIN x.info)]
    BY DEF TypeMapper, record_unknown
  <1>3. qualified = UsedIn(ns) \ Builtins
    <2>1. \A n \in NamesUsed(ns) : qualify_name(n, ns.name) \in Builtins <=> is_builtin_type(n)
      BY Qualified DEF IsNamespace
    <2> QED  BY <2>1 DEF UsedIn
  <1>10. ~crashed => ~r.crashed /\ PropertiesHaveTypes({ns})
    BY <1>1 DEF Maps, PropertiesHaveTypes
  <1> HIDE DEF simple, crashed, qualified, t
  <1>4. x = [info |-> simple.info, unknown |-> simple.unknown,
             has_errors |-> simple.has_errors, crashed |-> crashed]
    BY <1>1, CrashRecorded DEF IsResolver
  <1> HIDE DEF x
  <1>5. t = [info |-> simple.info,
             unknown |-> simple.unknown \cup (qualified \ DOMAIN simple.info),
             has_errors |-> simple.has_errors, crashed |-> crashed]
    BY <1>2, <1>4
  <1>6. /\ t.info = simple.info
        /\ t.unknown = simple.unknown \cup (qualified \ DOMAIN simple.info)
        /\ t.crashed = crashed
    BY <1>5
  <1>7. IsResolver(t)
    BY <1>1, <1>5, <1>6 DEF IsResolver
  <1>8. /\ simple.unknown = r.unknown \ DOMAIN simple.info
        /\ DOMAIN r.info \subseteq DOMAIN simple.info
        /\ r.unknown = Uses(spaces) \ (DOMAIN r.info \cup Builtins)
    BY <1>1 DEF Maps, Exact
  <1>9. t.unknown = Uses(spaces \cup {ns}) \ (DOMAIN t.info \cup Builtins)
    <2>1. Uses(spaces \cup {ns}) = Uses(spaces) \cup UsedIn(ns)
      BY DEF Uses
    <2> QED  BY <1>3, <1>6, <1>8, <2>1
  <1>11. ~t.crashed => PropertiesHaveTypes(spaces \cup {ns})
    BY <1>6, <1>10 DEF Exact, PropertiesHaveTypes
  <1> QED  BY <1>7, <1>9, <1>11 DEF Exact, t

\* All namespaces of a repository, one after the other.
LEMMA RepositoryRegistered ==
  ASSUME NEW r, NEW spaces, Exact(r, spaces), NEW repo \in Repositories
  PROVE  Exact(register_repo_types(r, repo), spaces \cup Labelled({repo}))
  <1> DEFINE namespaces == repo.namespaces
             n == Len(namespaces)
             Round(x, i) == IF namespaces[i].name = "" THEN [x EXCEPT !.has_errors = TRUE]
                            ELSE TypeMapper(x, namespaces[i])
             Rounds(m, g) == g = [i \in 0 .. m |-> IF i = 0 THEN r ELSE Round(g[i - 1], i)]
             after == CHOOSE g : Rounds(n, g)
             Taken(i) == {namespaces[j] : j \in {k \in 1 .. i : namespaces[k].name # ""}}
  <1>1. register_repo_types(r, repo) = after[n]
    BY DEF register_repo_types
  <1>2. n \in Nat /\ DOMAIN namespaces = 1 .. n
    <2>1. namespaces \in Seq(NamespacesOf(Repositories))
      BY WorldsAssumption
    <2> QED  BY <2>1
  <1>3. \A i \in 1 .. n : IsNamespace(namespaces[i])
    <2>1. \A i \in 1 .. n : namespaces[i] \in NamespacesOf(Repositories)
      BY <1>2 DEF NamespacesOf, ToSet
    <2> QED  BY <2>1, Namespaces
  <1>4. ASSUME NEW i \in 1 .. n, NEW x, Exact(x, spaces \cup Taken(i - 1))
        PROVE  Exact(Round(x, i), spaces \cup Taken(i))
    <2>1. \A k \in 1 .. i : k \in 1 .. i - 1 \/ k = i
      BY <1>2
    <2>2. 1 .. i - 1 \subseteq 1 .. i /\ i \in 1 .. i
      BY <1>2
    <2>3. CASE namespaces[i].name = ""
      <3>1. Taken(i) = Taken(i - 1)
        BY <2>1, <2>2, <2>3
      <3>2. /\ Round(x, i).info = x.info /\ Round(x, i).unknown = x.unknown
            /\ IsResolver(Round(x, i)) /\ Round(x, i).crashed = x.crashed
        <4> DEFINE t == [info |-> x.info, unknown |-> x.unknown, has_errors |-> TRUE,
                         crashed |-> x.crashed]
        <4>1. Round(x, i) = t
          BY <1>4, <2>3, ErrorRecorded, Zenon DEF Exact
        <4>2. t.info = x.info /\ t.unknown = x.unknown /\ t.crashed = x.crashed
          OBVIOUS
        <4>3. IsResolver(t)
          BY <1>4 DEF Exact, IsResolver
        <4> QED  BY <4>1, <4>2, <4>3, Zenon
      <3> HIDE DEF Taken, Round
      <3> QED  BY <1>4, <3>1, <3>2 DEF Exact
    <2>4. CASE namespaces[i].name # ""
      <3>1. Taken(i) = Taken(i - 1) \cup {namespaces[i]}
        BY <2>1, <2>2, <2>4
      <3>2. Exact(Round(x, i), (spaces \cup Taken(i - 1)) \cup {namespaces[i]})
        <4> HIDE DEF Taken
        <4> QED  BY <1>3, <1>4, <2>4, NamespaceRegistered
      <3>3. spaces \cup Taken(i) = (spaces \cup Taken(i - 1)) \cup {namespaces[i]}
        BY <3>1
      <3> HIDE DEF Taken, Round
      <3> QED  BY <3>2, <3>3
    <2> QED  BY <2>3, <2>4
  <1>5. Taken(0) = {}
    OBVIOUS
  <1>6. Taken(n) = Labelled({repo})
    <2>1. ToSet(namespaces) = {namespaces[j] : j \in 1 .. n}
      BY <1>2 DEF ToSet
    <2>2. NamespacesOf({repo}) = ToSet(namespaces)
      BY DEF NamespacesOf
    <2> HIDE DEF namespaces, n
    <2> QED  BY <2>1, <2>2 DEF Labelled
  <1> HIDE DEF Round, Taken, namespaces
  <1>7. \E g : Rounds(n, g)
    <2> DEFINE S == {m \in 0 .. n : \E g : Rounds(m, g)}
    <2>1. 0 \in S
      <3>1. Rounds(0, [i \in 0 .. 0 |-> r])
        OBVIOUS
      <3> HIDE DEF Rounds
      <3> QED  BY <1>2, <3>1
    <2>2. ASSUME NEW m \in 1 .. n, m - 1 \in S PROVE m \in S
      <3>1. PICK g : Rounds(m - 1, g)
        BY <2>2
      <3> DEFINE h == [i \in 0 .. m |-> IF i = m THEN Round(g[m - 1], m) ELSE g[i]]
      <3>2. Rounds(m, h)
        <4>1. ASSUME NEW i \in 0 .. m
              PROVE  h[i] = IF i = 0 THEN r ELSE Round(h[i - 1], i)
          <5>1. CASE i = m
            BY <1>2, <5>1
          <5>2. CASE i # m
            <6>1. i \in 0 .. m - 1 /\ (i # 0 => i - 1 \in 0 .. m - 1 /\ i - 1 # m)
              BY <1>2, <5>2
            <6> QED  BY <3>1, <6>1
          <5> QED  BY <5>1, <5>2
        <4> QED  BY <4>1
      <3> HIDE DEF Rounds, h
      <3> QED  BY <1>2, <3>2
    <2> HIDE DEF S, n
    <2>3. \A m \in 1 .. n : m - 1 \in S => m \in S
      BY <2>2
    <2>4. n \in 0 .. n
      BY <1>2
    <2>5. n \in S
      BY <1>2, <2>1, <2>3, <2>4, Induction
    <2> HIDE DEF Rounds
    <2> QED  BY <2>5 DEF S
  <1>8. Rounds(n, after)
    BY <1>7
  <1> HIDE DEF after, n
  <1>9. after[0] = r /\ \A i \in 1 .. n : after[i] = Round(after[i - 1], i)
    <2>1. \A i \in 0 .. n : after[i] = IF i = 0 THEN r ELSE Round(after[i - 1], i)
      BY <1>8
    <2> QED  BY <1>2, <2>1
  <1> DEFINE S == {i \in 0 .. n : Exact(after[i], spaces \cup Taken(i))}
  <1>10. 0 \in S
    <2>1. spaces \cup Taken(0) = spaces
      BY <1>5
    <2>2. Exact(after[0], spaces \cup Taken(0))
      BY <1>9, <2>1, Zenon
    <2> QED  BY <1>2, <2>2
  <1>11. \A i \in 1 .. n : i - 1 \in S => i \in S
    BY <1>2, <1>4, <1>9
  <1>12. n \in 0 .. n
    BY <1>2
  <1> HIDE DEF S
  <1>13. n \in S
    BY <1>2, <1>10, <1>11, <1>12, Induction
  <1> QED  BY <1>1, <1>6, <1>13 DEF S

-----------------------------------------------------------------------------
(* The unknown types of the program: those of the repositories that have     *)
(* been registered, in the order in which main() and the search do it.       *)

UnknownInv ==
  /\ phase \in Phases /\ exit_code \in {NULL, 0, 1}
  /\ phase = "load" => world = NoWorld
  /\ phase \in {"load", "register"} => supporting = <<>>
  /\ phase = "register" => next - 1 <= Len(world.inputs)
  /\ Exact(resolver, Labelled(Registered))

LEMMA MoreNamespaces ==
  ASSUME NEW repos, NEW repo
  PROVE  Labelled(repos \cup {repo}) = Labelled(repos) \cup Labelled({repo})
  <1>1. NamespacesOf(repos \cup {repo}) = NamespacesOf(repos) \cup NamespacesOf({repo})
    BY DEF NamespacesOf
  <1> QED  BY <1>1 DEF Labelled

\* What has been registered before the inputs have been, and after that.
LEMMA RegisteredIs ==
  /\ phase = "load" => Registered = {}
  /\ phase = "register" => Registered = {world.inputs[i] : i \in 1 .. next - 1}
  /\ phase \notin {"load", "register"} => Registered = Everything
  BY DEF Registered, Everything

LEMMA RegisteredAfter ==
  /\ phase' = "load" => Registered' = {}
  /\ phase' = "register" => Registered' = {world'.inputs[i] : i \in 1 .. next' - 1}
  /\ phase' \notin {"load", "register"} => Registered' = Everything'
  BY DEF Registered, Everything

LEMMA UnknownInit == Init => UnknownInv
  <1> SUFFICES ASSUME Init PROVE UnknownInv
    OBVIOUS
  <1>1. Registered = {} /\ resolver = EmptyResolver
    BY RegisteredIs DEF Init
  <1>2. Labelled({}) = {} /\ Uses({}) = {}
    BY DEF Labelled, Uses, NamespacesOf
  <1>3. Exact(EmptyResolver, {})
    <2>1. EmptyResolver.unknown = {} /\ IsResolver(EmptyResolver)
      BY DEF EmptyResolver, IsResolver, Specified
    <2> QED  BY <1>2, <2>1 DEF Exact, PropertiesHaveTypes
  <1> QED  BY <1>1, <1>2, <1>3 DEF Init, UnknownInv, Phases

\* Steps of the search and the output, and every one that registers nothing.
LEMMA UnknownStands ==
  ASSUME UnknownInv, Registered' = Registered, resolver' = resolver,
         phase' \in Phases \ {"load", "register"}, exit_code' \in {NULL, 0, 1}
  PROVE  UnknownInv'
  BY DEF UnknownInv

\* Another file has been read.
LEMMA UnknownGrows ==
  ASSUME UnknownInv, NEW repo \in Repositories,
         resolver' = register_repo_types(resolver, repo),
         Registered' = Registered \cup {repo}
  PROVE  Exact(resolver', Labelled(Registered'))
  <1>1. Exact(register_repo_types(resolver, repo), Labelled(Registered) \cup Labelled({repo}))
    BY RepositoryRegistered DEF UnknownInv
  <1> QED  BY <1>1, MoreNamespaces

LEMMA UnknownStep ==
  ASSUME SearchInv, UnknownInv, [Next]_vars
  PROVE  UnknownInv'
  <1> USE DEF Phases
  <1>0. /\ world \in Worlds \cup {NoWorld} /\ next \in Nat \ {0}
        /\ supporting \in Seq(Repositories) /\ docs \in Seq(Repositories)
        /\ phase \in Phases /\ exit_code \in {NULL, 0, 1}
    BY DEF SearchInv, SearchTypes, UnknownInv
  <1>1. CASE UNCHANGED mainVars
    BY <1>1 DEF UnknownInv, mainVars, Registered
  <1>2. CASE load_inputs
    <2>1. /\ phase = "load" /\ world = NoWorld /\ next = 1
          /\ UNCHANGED <<next, supporting, resolver>> /\ supporting = <<>>
      BY <1>2 DEF load_inputs, UnknownInv, SearchInv
    <2>2. CASE phase' = "done" /\ exit_code' = 1 /\ UNCHANGED world
      <3>1. Everything' = {}
        BY <2>1, <2>2 DEF Everything, NoWorld, ToSet
      <3>2. Registered' = Registered
        BY <2>1, <2>2, <3>1, RegisteredIs, RegisteredAfter
      <3> QED  BY <2>1, <2>2, <3>2, UnknownStands
    <2>3. CASE phase' = "register" /\ world' \in Worlds /\ UNCHANGED exit_code
      <3>1. Len(world'.inputs) \in Nat
        BY <2>3, WorldsAssumption
      <3>2. Registered' = {} /\ Registered = {}
        BY <2>1, <2>3, RegisteredIs, RegisteredAfter
      <3> QED  BY <1>0, <2>1, <2>3, <3>1, <3>2 DEF UnknownInv
    <2> QED  BY <1>2, <2>2, <2>3 DEF load_inputs, Return
  <1>3. CASE register_inputs
    <2>1. /\ phase = "register" /\ UNCHANGED <<world, supporting, exit_code>>
          /\ supporting = <<>> /\ next - 1 <= Len(world.inputs)
      BY <1>3 DEF register_inputs, UnknownInv
    <2>2. /\ Registered = {world.inputs[i] : i \in 1 .. next - 1}
          /\ world.inputs \in Seq(Repositories) /\ Len(world.inputs) \in Nat
      BY <1>0, <2>1, RegisteredIs, WorldTypes
    <2>3. CASE next <= Len(world.inputs)
      <3>1. /\ resolver' = register_repo_types(resolver, world.inputs[next])
            /\ next' = next + 1 /\ phase' = "register"
        BY <1>3, <2>1, <2>3 DEF register_inputs
      <3>2. world.inputs[next] \in Repositories
        BY <1>0, <2>2, <2>3
      <3>3. \A i : i \in 1 .. next' - 1 <=> i \in 1 .. next - 1 \/ i = next
        BY <1>0, <3>1
      <3>4. Registered' = Registered \cup {world.inputs[next]}
        BY <2>1, <2>2, <3>1, <3>3, RegisteredAfter
      <3> QED  BY <1>0, <2>1, <2>2, <2>3, <3>1, <3>2, <3>4, UnknownGrows DEF UnknownInv
    <2>4. CASE next > Len(world.inputs)
      <3>1. phase' = "supporting" /\ resolver' = resolver
        BY <1>0, <1>3, <2>2, <2>4 DEF register_inputs
      <3>2. 1 .. next - 1 = DOMAIN world.inputs
        BY <1>0, <2>1, <2>2, <2>4
      <3>3. Registered = ToSet(world.inputs)
        BY <2>2, <3>2 DEF ToSet
      <3>4. Everything' = Registered
        BY <2>1, <3>3 DEF Everything, ToSet
      <3> QED  BY <1>0, <2>1, <3>1, <3>4, RegisteredAfter, UnknownStands
    <2> QED  BY <1>0, <2>2, <2>3, <2>4
  <1>4. CASE load_supporting_repositories
    <2> DEFINE repo == world.supporting[Len(supporting) + 1]
    <2>1. phase = "supporting" /\ UNCHANGED world /\ Registered = Everything
      BY <1>4, RegisteredIs DEF load_supporting_repositories
    <2>2. CASE phase' = "done" /\ exit_code' = 1 /\ UNCHANGED <<supporting, resolver>>
      <3>1. Registered' = Registered
        BY <2>1, <2>2, RegisteredAfter DEF Everything
      <3> QED  BY <2>2, <3>1, UnknownStands
    <2>3. CASE /\ supporting' = Append(supporting, repo)
               /\ resolver' = register_repo_types(resolver, repo)
               /\ UNCHANGED <<phase, exit_code>>
      <3>1. world.supporting \in Seq(Repositories) /\ Len(supporting) < Len(world.supporting)
        BY <1>0, <1>4, WorldTypes DEF load_supporting_repositories
      <3>2. repo \in Repositories
        BY <1>0, <3>1
      <3>3. ToSet(supporting') = ToSet(supporting) \cup {repo}
        BY <1>0, <2>3, <3>2, SeqSets
      <3>4. Registered' = Registered \cup {repo}
        BY <2>1, <2>3, <3>3, RegisteredAfter DEF Everything
      <3> QED  BY <1>0, <2>1, <2>3, <3>2, <3>4, UnknownGrows DEF UnknownInv
    <2> QED  BY <1>4, <2>2, <2>3 DEF load_supporting_repositories, Return
  <1>5. CASE run
    <2> DEFINE dependency == Head(queue)
               doc == m_namespace_to_doc(<<dependency.name, dependency.version>>)
    <2>1. phase = "search" /\ UNCHANGED world /\ Registered = Everything
      BY <1>5, RegisteredIs DEF run
    <2>2. /\ phase' \in {"search", "done"} /\ exit_code' \in {NULL, 0, 1}
      BY <1>0, <1>5, <2>1 DEF run, run_visits, Return
    <2>3. CASE UNCHANGED <<supporting, resolver>>
      <3>1. Registered' = Registered
        BY <2>1, <2>2, <2>3, RegisteredAfter DEF Everything
      <3> QED  BY <2>2, <2>3, <3>1, UnknownStands
    <2>4. CASE /\ supporting' = Append(supporting, docs[doc]) /\ doc # 0
               /\ resolver' = register_repo_types(resolver, docs[doc])
      <3>1. doc \in DOMAIN docs
        BY <1>0, <2>4, FileOfNamespace
      <3>2. docs[doc] \in Repositories
        BY <1>0, <3>1
      <3>3. ToSet(supporting') = ToSet(supporting) \cup {docs[doc]}
        BY <1>0, <2>4, <3>2, SeqSets
      <3>4. Registered' = Registered \cup {docs[doc]}
        BY <2>1, <2>2, <3>3, RegisteredAfter DEF Everything
      <3> QED  BY <1>0, <2>2, <2>4, <3>2, <3>4, UnknownGrows DEF UnknownInv
    <2> QED  BY <1>5, <2>3, <2>4 DEF run, run_visits, combined_name
  <1>6. CASE \/ search_for_included_namespaces \/ search_begins \/ run_ends
             \/ check_unknown \/ write_enum_defs \/ write_function_defs
             \/ write_signal_defs \/ write_vfunc_defs
    <2>1. /\ phase \notin {"load", "register"} /\ phase' \in Phases \ {"load", "register"}
          /\ UNCHANGED <<world, supporting, resolver>> /\ exit_code' \in {NULL, 0, 1}
      BY <1>0, <1>6
         DEF search_for_included_namespaces, search_begins, run_ends, check_unknown, Return,
             write_enum_defs, write_function_defs, write_signal_defs, write_vfunc_defs
    <2>2. Registered' = Registered
      BY <2>1, RegisteredIs, RegisteredAfter DEF Everything
    <2> QED  BY SMTT(30), <2>1, <2>2, UnknownStands
  <1> QED  BY <1>1, <1>2, <1>3, <1>4, <1>5, <1>6 DEF Next, Step, ended, vars

LEMMA UnknownInvExact == ParserTypeOK /\ SearchInv /\ UnknownInv => UnknownExact
  <1> SUFFICES ASSUME ParserTypeOK, SearchInv, UnknownInv PROVE UnknownExact
    OBVIOUS
  <1>1. TypeOK
    BY DEF TypeOK, SearchInv, ReadOnce, UnknownInv, Exact, IsResolver
  <1>2. resolver.unknown = Uses(Labelled(Registered)) \ (DOMAIN resolver.info \cup Builtins)
    BY DEF UnknownInv, Exact
  <1> QED  BY <1>1, <1>2 DEF UnknownExact, Uses, Labelled, UsedIn, Builtins

(***************************************************************************)
(* Whatever files there are, and in whatever order they are read and       *)
(* define and use types: the types that stop the program are exactly those *)
(* that are used by name and defined nowhere, and no type is both known    *)
(* and unknown.                                                            *)
(***************************************************************************)
THEOREM UnknownTypesExact == Spec => []UnknownExact
  <1>1. ParserInv => ParserTypeOK
    BY DEF ParserInv
  <1>2. ParserSpec => []ParserInv
    BY ParserStarts, ParserStep, PTL DEF ParserSpec
  <1>3. Init => SearchInv /\ UnknownInv
    BY SearchInit, UnknownInit
  <1>4. SearchInv /\ UnknownInv /\ [Next]_vars => (SearchInv /\ UnknownInv)'
    BY SearchStep, UnknownStep
  <1> QED  BY <1>1, <1>2, <1>3, <1>4, UnknownInvExact, RunsParser, PTL DEF Spec

-----------------------------------------------------------------------------
(* The types of properties: a name that is not unknown has a GParam.         *)

LEMMA GParams ==
  ASSUME NEW n \in DOMAIN s_builtin_name_to_g_param
  PROVE  s_builtin_name_to_g_param[n] # NONE
  <1>1. s_builtin_name_to_g_param[n] \in
          {"GTYPE", "BOOLEAN", "POINTER", "CHAR", "UCHAR", "LONG", "ULONG", "INT64", "UINT64",
           "FLOAT", "DOUBLE", "UNICHAR", "STRING", "INT", "UINT"}
    BY DEF s_builtin_name_to_g_param
  <1> QED  BY <1>1, Zenon DEF NONE

\* What PropertiesTyped says of one definition.
Typed(d) ==
  d.form = "define-property" /\ d.site.type[1].c_type = NONE
  /\ d.site.type[1].name.id # "" /\ HasGParam(d.site.type) => d.types # Unresolved

LEMMA PropertyTypeFound ==
  ASSUME NEW r, NEW spaces, Exact(r, spaces), r.unknown = {}, ~r.crashed,
         NEW ns \in spaces, ns \in NamespacesOf(Repositories), ns.name # NONE,
         NEW s \in extract_property_types(ns),
         s.type[1].c_type = NONE, s.type[1].name.id # NONE, HasGParam(s.type)
  PROVE  find_property_type(r, s.type, ns.name) # NONE
  <1> DEFINE name == s.type[1].name
             q == qualify_non_builtin_name(name, ns.name)
             found == find_property_type(r, s.type, ns.name)
  <1>1. s.type \in Seq(ToSet(s.type)) /\ s.type # <<>>
    <2>1. s \in ns.sites
      BY DEF extract_property_types
    <2> QED  BY <2>1, WorldsAssumption DEF Exact, PropertiesHaveTypes
  <1>2. 1 \in DOMAIN s.type
    BY <1>1
  <1>3. name \in NamesUsed(ns)
    <2> DEFINE unnamed == {j \in DOMAIN s.type : s.type[j].c_type = NONE /\ s.type[j].name.id # NONE}
    <2>2. find_unknown_types_for_any_type(s.type) = {s.type[i].name : i \in unnamed}
      BY Zenon DEF find_unknown_types_for_any_type, NONE
    <2>3. 1 \in unnamed
      BY <1>2
    <2> HIDE DEF unnamed
    <2>1. name \in find_unknown_types_for_any_type(s.type)
      BY <2>2, <2>3
    <2> QED  BY <2>1 DEF NamesUsed
  <1>4. name \in [ns : STRING, id : STRING]
    BY <1>3, Namespaces DEF IsNamespace
  <1>5. qualify_name(name, ns.name) \in DOMAIN r.info \cup Builtins
    BY <1>3 DEF Exact, Uses, UsedIn
  <1> DEFINE noDot == name.ns = ""
  <1>8. found = IF Len(s.type) > 1 THEN "BOXED"
                ELSE IF name.id = NONE THEN NONE
                ELSE IF noDot /\ name.id \in DOMAIN s_builtin_name_to_g_param
                THEN s_builtin_name_to_g_param[name.id]
                ELSE IF name = [ns |-> "GLib", id |-> "Variant"] THEN "VARIANT"
                ELSE IF q \in DOMAIN r.info THEN r.info[q].param_spec ELSE NONE
    BY Zenon DEF find_property_type, NONE
  <1>9. "BOXED" # NONE /\ "VARIANT" # NONE
    BY Zenon DEF NONE
  <1> SUFFICES found # NONE
    OBVIOUS
  <1> HIDE DEF noDot, q, found
  <1>6. CASE is_builtin_type(name)
    <2>1. noDot /\ name.id \in DOMAIN s_builtin_name_to_g_param
      BY <1>6 DEF is_builtin_type, HasGParam, noDot
    <2>2. found = "BOXED" \/ found = s_builtin_name_to_g_param[name.id]
      BY <1>8, <2>1
    <2> QED  BY <1>9, <2>1, <2>2, GParams
  <1>7. CASE ~is_builtin_type(name)
    <2>1. q = qualify_name(name, ns.name)
      BY <1>7 DEF qualify_non_builtin_name, qualify_name, is_qualified_name, q
    <2>2. q \in DOMAIN r.info
      BY <1>4, <1>5, <1>7, <2>1, Qualified DEF NONE
    <2>3. r.info[q].param_spec # NONE
      BY <2>2 DEF Exact, IsResolver, Specified
    <2>4. \/ found = "BOXED" \/ found = "VARIANT" \/ found = r.info[q].param_spec
          \/ name.id \in DOMAIN s_builtin_name_to_g_param
             /\ found = s_builtin_name_to_g_param[name.id]
      BY <1>8, <2>2
    <2> QED  BY <1>9, <2>3, <2>4, GParams
  <1> QED  BY <1>6, <1>7

LEMMA SignalDefsTyped ==
  ASSUME NEW r, NEW spaces, Exact(r, spaces), r.unknown = {}, ~r.crashed,
         NEW ns \in spaces, ns \in NamespacesOf(Repositories), ns.name # NONE,
         NEW d \in generate_signal_defs(r, ns)
  PROVE  Typed(d)
  <1>1. CASE \E s \in ObjectSites(ns, "property") : d = generate_property_def(r, s, ns.name)
    <2>1. PICK s \in ObjectSites(ns, "property") : d = generate_property_def(r, s, ns.name)
      BY <1>1
    <2>2. s \in extract_property_types(ns)
      BY DEF ObjectSites, Shown, SitesOf, extract_property_types
    <2> DEFINE param == find_property_type(r, s.type, ns.name)
    <2>3. d.site = s /\ (param # NONE => d.types = <<param, 0>>)
      BY <2>1 DEF generate_property_def
    <2>4. <<param, 0>> # Unresolved
      BY DEF Unresolved
    <2> HIDE DEF param
    <2>5. ASSUME s.type[1].c_type = NONE, s.type[1].name.id # NONE, HasGParam(s.type)
          PROVE  param # NONE
      BY <2>2, <2>5, PropertyTypeFound DEF param
    <2> QED  BY <2>3, <2>4, <2>5 DEF Typed, NONE
  <1>2. CASE \E s \in ObjectSites(ns, "glib:signal") : d = generate_signal_def(r, s, ns.name)
    <2>1. d.form = "define-signal"
      BY <1>2 DEF generate_signal_def
    <2> QED  BY <2>1 DEF Typed
  <1> QED  BY <1>1, <1>2 DEF generate_signal_defs

-----------------------------------------------------------------------------
(* The values of flags.                                                      *)

\* TwoTo is what its equation says: such a function exists.
LEMMA TwoToIs ==
  /\ TwoTo[0] = 1
  /\ \A n \in 1 .. LongBits : TwoTo[n] = 2 * TwoTo[n - 1]
  <1> DEFINE Powers(m, f) == f = [n \in 0 .. m |-> IF n = 0 THEN 1 ELSE 2 * f[n - 1]]
             S == {m \in 0 .. LongBits : \E f : Powers(m, f)}
  <1>1. LongBits \in Nat
    BY GenDefsAssumption
  <1>2. 0 \in S
    <2>1. Powers(0, [n \in 0 .. 0 |-> 1])
      OBVIOUS
    <2> HIDE DEF Powers
    <2> QED  BY <1>1, <2>1
  <1>3. ASSUME NEW m \in 1 .. LongBits, m - 1 \in S PROVE m \in S
    <2>1. PICK f : Powers(m - 1, f)
      BY <1>3
    <2> DEFINE g == [n \in 0 .. m |-> IF n = m THEN 2 * f[m - 1] ELSE f[n]]
    <2>2. Powers(m, g)
      <3>1. ASSUME NEW n \in 0 .. m PROVE g[n] = IF n = 0 THEN 1 ELSE 2 * g[n - 1]
        <4>1. CASE n = m
          BY <1>1, <4>1
        <4>2. CASE n # m
          <5>1. n \in 0 .. m - 1 /\ (n # 0 => n - 1 \in 0 .. m - 1 /\ n - 1 # m)
            BY <1>1, <4>2
          <5> QED  BY <2>1, <5>1
        <4> QED  BY <4>1, <4>2
      <3> QED  BY <3>1
    <2> HIDE DEF Powers, g
    <2> QED  BY <1>1, <2>2
  <1> HIDE DEF S
  <1>4. \A m \in 1 .. LongBits : m - 1 \in S => m \in S
    BY <1>3
  <1>5. LongBits \in 0 .. LongBits
    BY <1>1
  <1>6. LongBits \in S
    BY <1>1, <1>2, <1>4, <1>5, Induction
  <1>7. Powers(LongBits, TwoTo)
    <2>1. \E f : Powers(LongBits, f)
      BY <1>6 DEF S
    <2>2. TwoTo = CHOOSE f : Powers(LongBits, f)
      BY DEF TwoTo
    <2> HIDE DEF Powers
    <2> QED  BY <2>1, <2>2
  <1>8. \A n \in 0 .. LongBits : TwoTo[n] = IF n = 0 THEN 1 ELSE 2 * TwoTo[n - 1]
    BY <1>7
  <1> QED  BY <1>1, <1>8

\* The powers of two are numbers, and greater the later they come.
LEMMA TwoToGrows ==
  /\ \A n \in 0 .. LongBits : TwoTo[n] \in Nat \ {0}
  /\ \A n \in 0 .. LongBits : TwoTo[n] <= TwoTo[LongBits]
  <1> DEFINE S == {n \in 0 .. LongBits : /\ TwoTo[n] \in Nat \ {0}
                                        /\ \A m \in 0 .. n : TwoTo[m] \in Nat /\ TwoTo[m] <= TwoTo[n]}
  <1>1. LongBits \in Nat
    BY GenDefsAssumption
  <1>2. 0 \in S
    BY <1>1, TwoToIs
  <1>3. ASSUME NEW n \in 1 .. LongBits, n - 1 \in S PROVE n \in S
    <2>1. /\ TwoTo[n - 1] \in Nat \ {0}
          /\ \A m \in 0 .. n - 1 : TwoTo[m] \in Nat /\ TwoTo[m] <= TwoTo[n - 1]
      BY <1>3
    <2>2. TwoTo[n] = 2 * TwoTo[n - 1]
      BY TwoToIs
    <2>3. TwoTo[n] \in Nat \ {0} /\ TwoTo[n - 1] <= TwoTo[n]
      BY <2>1, <2>2
    <2>4. ASSUME NEW m \in 0 .. n PROVE TwoTo[m] \in Nat /\ TwoTo[m] <= TwoTo[n]
      <3>1. CASE m = n
        BY <2>3, <3>1
      <3>2. CASE m # n
        <4>1. m \in 0 .. n - 1
          BY <1>1, <3>2
        <4>2. TwoTo[m] \in Nat /\ TwoTo[m] <= TwoTo[n - 1]
          BY <2>1, <4>1
        <4> QED  BY <4>2, <2>1, <2>2, <2>3
      <3> QED  BY <3>1, <3>2
    <2> QED  BY <1>1, <2>3, <2>4
  <1> HIDE DEF S
  <1>4. \A n \in 1 .. LongBits : n - 1 \in S => n \in S
    BY <1>3
  <1>5. \A n \in 0 .. LongBits : n \in S
    BY <1>1, <1>2, <1>4, Induction
  <1> QED  BY <1>1, <1>5 DEF S

\* The bounds of an int, of an unsigned int and of a long.
LEMMA Widths ==
  /\ TwoTo[IntBits - 1] \in Nat \ {0} /\ TwoTo[IntBits] = 2 * TwoTo[IntBits - 1]
  /\ TwoTo[LongBits] \in Nat /\ TwoTo[IntBits] <= TwoTo[LongBits]
  <1>1. IntBits \in 1 .. LongBits /\ IntBits - 1 \in 0 .. LongBits /\ LongBits \in Nat
    BY GenDefsAssumption
  <1> QED  BY <1>1, TwoToIs, TwoToGrows

\* The number whose negation is n, where longs are numbers below l.
LEMMA Complement ==
  ASSUME NEW l \in Nat, NEW n \in Nat, n < l
  PROVE  (l - n) % l = IF n = 0 THEN 0 ELSE l - n
  OBVIOUS

LEMMA PowerShifted ==
  ASSUME NEW n, IsPowerOfTwo(n)
  PROVE  TwoTo[Position(n)] = n
  BY DEF IsPowerOfTwo, Position

\* What is printed of a value, and when.
LEMMA ValuePrinted ==
  ASSUME NEW v, v.negative \in BOOLEAN, v.magnitude \in Nat
  PROVE  /\ Fits(v) <=> format_bitfield_members(v) # NotPrinted
         /\ Fits(v) => ValueOf(format_bitfield_members(v)) = Signed(v)
  <1> DEFINE h == TwoTo[IntBits - 1]
             l == TwoTo[LongBits]
             m == v.magnitude
             printed == format_bitfield_members(v)
             fits == Signed(v) \in 1 - h .. TwoTo[IntBits] - 1
  <1> SUFFICES (fits <=> printed # NotPrinted) /\ (fits => ValueOf(printed) = Signed(v))
    BY Zenon DEF Fits
  <1>1. h \in Nat \ {0} /\ TwoTo[IntBits] = 2 * h /\ l \in Nat /\ 2 * h <= l /\ m \in Nat
    BY Widths
  <1>2. Signed(v) = IF v.negative THEN 0 - m ELSE m
    BY DEF Signed
  <1>3. printed = IF m > l - 1 THEN NotPrinted
                  ELSE IF v.negative THEN format_as_signed_negative((l - m) % l)
                  ELSE format_as_unsigned(m)
    BY DEF format_bitfield_members, stoul
  <1>4. CASE m > l - 1
    BY <1>1, <1>2, <1>3, <1>4
  <1>5. CASE m <= l - 1 /\ v.negative
    <2> DEFINE n == IF m = 0 THEN 0 ELSE l - m
    <2>1. (l - m) % l = n /\ (l - n) % l = m
      <3>1. m \in Nat /\ l \in Nat /\ m < l
        BY <1>1, <1>5
      <3>2. n \in Nat /\ n < l /\ m = IF n = 0 THEN 0 ELSE l - n
        BY <3>1
      <3> HIDE DEF l, m
      <3>3. (l - m) % l = n
        BY <3>1, Complement
      <3> HIDE DEF n
      <3> QED  BY <3>1, <3>2, <3>3, Complement
    <2>2. printed = IF m > h - 1 THEN NotPrinted ELSE [form |-> "negative", n |-> m]
      <3>1. format_as_signed_negative(n) = IF m > h - 1 THEN NotPrinted
                                           ELSE [form |-> "negative", n |-> m]
        <4> HIDE DEF n, m
        <4> QED  BY <2>1, Zenon DEF format_as_signed_negative
      <3>2. printed = format_as_signed_negative((l - m) % l)
        <4> HIDE DEF printed
        <4> QED  BY <1>1, <1>3, <1>5
      <3> QED  BY <2>1, <3>1, <3>2, Zenon
    <2>3. fits <=> m <= h - 1
      BY <1>1, <1>2, <1>5
    <2> HIDE DEF fits, printed, h, l, m
    <2>4. CASE m > h - 1
      BY <1>1, <2>2, <2>3, <2>4
    <2>5. CASE m <= h - 1
      <3>1. printed = [form |-> "negative", n |-> m]
        BY <1>1, <2>2, <2>5
      <3> QED  BY <1>2, <1>5, <2>3, <2>5, <3>1 DEF NotPrinted, ValueOf
    <2> QED  BY <1>1, <2>4, <2>5
  <1>6. CASE m <= l - 1 /\ ~v.negative
    <2>1. printed = IF m > 2 * h - 1 THEN NotPrinted
                    ELSE IF IsPowerOfTwo(m) THEN [form |-> "shift", n |-> Position(m)]
                    ELSE [form |-> "hex", n |-> m]
      BY <1>1, <1>3, <1>6 DEF format_as_unsigned
    <2>2. fits <=> m <= 2 * h - 1
      BY <1>1, <1>2, <1>6
    <2> HIDE DEF fits, printed, h, l, m
    <2>3. CASE m > 2 * h - 1
      BY <1>1, <2>1, <2>2, <2>3
    <2>4. CASE m <= 2 * h - 1 /\ IsPowerOfTwo(m)
      <3>1. printed = [form |-> "shift", n |-> Position(m)]
        BY <1>1, <2>1, <2>4
      <3>2. TwoTo[Position(m)] = m
        BY <2>4, PowerShifted
      <3> QED  BY <1>2, <1>6, <2>2, <2>4, <3>1, <3>2 DEF NotPrinted, ValueOf
    <2>5. CASE m <= 2 * h - 1 /\ ~IsPowerOfTwo(m)
      <3>1. printed = [form |-> "hex", n |-> m]
        BY <1>1, <2>1, <2>5
      <3> QED  BY <1>2, <1>6, <2>2, <2>5, <3>1 DEF NotPrinted, ValueOf
    <2> QED  BY <1>1, <2>3, <2>4, <2>5
  <1> QED  BY <1>1, <1>4, <1>5, <1>6

\* The definition of a bitfield has the values of the members that fit.
LEMMA FlagsWritten ==
  ASSUME NEW members, \A m \in members : m.value.negative \in BOOLEAN /\ m.value.magnitude \in Nat
  PROVE  {<<d[1], ValueOf(d[2])>> : d \in generate_extended_bitfield_def("Flags", members)} =
           {<<m, Signed(m.value)>> : m \in {n \in members : Fits(n.value)}}
  <1> DEFINE Printed(m) == format_bitfield_members(m.value)
             Definition(m) == <<m, Printed(m)>>
             Meaning(d) == <<d[1], ValueOf(d[2])>>
             Stated(m) == <<m, Signed(m.value)>>
             fitting == {n \in members : Fits(n.value)}
             defs == generate_extended_bitfield_def("Flags", members)
  <1>1. \A m \in members : /\ Fits(m.value) <=> Printed(m) # NotPrinted
                           /\ Fits(m.value) => ValueOf(Printed(m)) = Signed(m.value)
    BY ValuePrinted
  <1>2. ~is_skippable("Flags")
    BY Zenon DEF is_skippable
  <1>3. defs = {d \in {<<m, Printed(m)>> : m \in members} : d[2] # NotPrinted}
    BY <1>2 DEF generate_extended_bitfield_def
  <1> HIDE DEF Printed, defs
  <1>4. defs = {Definition(m) : m \in fitting}
    BY <1>1, <1>3
  <1>5. \A m \in fitting : Meaning(Definition(m)) = Stated(m)
    BY <1>1
  <1>6. {Meaning(d) : d \in defs} = {Stated(m) : m \in fitting}
    <2> HIDE DEF Definition, Meaning, Stated, fitting
    <2> QED  BY <1>4, <1>5
  <1> QED  BY <1>6 DEF defs

-----------------------------------------------------------------------------
(* What has been written.                                                    *)

\* The phases of a program that has loaded its files and not ended.
Running == Phases \ {"load", "done", "terminated"}

OutputInv ==
  /\ phase \in Running => world \in Worlds
  /\ phase \in {"enums", "functions", "signals", "vfuncs"} => resolver.unknown = {}
  /\ "signals" \in DOMAIN out => \A d \in out["signals"] : Typed(d)
  /\ FlagsKeepValue

\* The other files are as they were.
LEMMA Written ==
  ASSUME NEW file, NEW defs, Write(file, defs)
  PROVE  /\ DOMAIN out' = DOMAIN out \cup {file} /\ out'[file] = defs
         /\ \A f \in DOMAIN out \ {file} : out'[f] = out[f]
  BY DEF Write

\* A file keeps what is said of its definitions when another one is written.
LEMMA OthersKept ==
  ASSUME OutputInv, NEW file, NEW defs, Write(file, defs)
  PROVE  /\ file # "signals" => ("signals" \in DOMAIN out' => \A d \in out'["signals"] : Typed(d))
         /\ file # "enums" => FlagsKeepValue'
  <1>1. /\ DOMAIN out' = DOMAIN out \cup {file}
        /\ \A f \in DOMAIN out \ {file} : out'[f] = out[f]
    BY Written
  <1>2. file # "signals" => ("signals" \in DOMAIN out' => \A d \in out'["signals"] : Typed(d))
    BY <1>1 DEF OutputInv
  <1>3. file # "enums" => FlagsKeepValue'
    BY <1>1 DEF OutputInv, FlagsKeepValue
  <1> QED  BY <1>2, <1>3

LEMMA OutputInit == Init => OutputInv
  BY DEF Init, OutputInv, Running, FlagsKeepValue, EmptyResolver

\* Steps that write nothing.
LEMMA NothingWritten ==
  ASSUME OutputInv, UNCHANGED out, phase' \in Running => world' \in Worlds,
         phase' \in {"enums", "functions", "signals", "vfuncs"} => resolver'.unknown = {}
  PROVE  OutputInv'
  BY DEF OutputInv, FlagsKeepValue

LEMMA EnumsWritten ==
  ASSUME OutputInv, write_enum_defs
  PROVE  FlagsKeepValue'
  <1>1. PICK values \in MemberSets :
          LET members == {[value |-> v] : v \in values}
          IN Write("enums", [members |-> members,
                             enum |-> generate_extended_enum_def("Kind", members),
                             flags |-> generate_extended_bitfield_def("Flags", members)])
    BY DEF write_enum_defs
  <1> DEFINE members == {[value |-> v] : v \in values}
             enum == generate_extended_enum_def("Kind", members)
             flags == generate_extended_bitfield_def("Flags", members)
  <1>2. out'["enums"] = [members |-> members, enum |-> enum, flags |-> flags]
    BY <1>1, Written
  <1>3. \A m \in members : m.value.negative \in BOOLEAN /\ m.value.magnitude \in Nat
    BY OutputAssumption
  <1>4. {d[1] : d \in enum} = members
    <2>1. ~is_skippable("Kind")
      BY Zenon DEF is_skippable
    <2> HIDE DEF members
    <2> DEFINE Definition(m) == <<m, m.value>>
               First(d) == d[1]
    <2>2. enum = {Definition(m) : m \in members}
      BY <2>1 DEF generate_extended_enum_def
    <2>3. \A m \in members : First(Definition(m)) = m
      OBVIOUS
    <2>4. {First(d) : d \in enum} = members
      <3> HIDE DEF enum, Definition, First
      <3> QED  BY <2>2, <2>3
    <2> QED  BY <2>4
  <1> HIDE DEF members
  <1>5. {<<d[1], ValueOf(d[2])>> : d \in flags} =
           {<<m, Signed(m.value)>> : m \in {n \in members : Fits(n.value)}}
    BY <1>3, FlagsWritten
  <1> HIDE DEF enum, flags
  <1>6. /\ out'["enums"].members = members /\ out'["enums"].enum = enum
        /\ out'["enums"].flags = flags
    BY <1>2
  <1> QED  BY <1>4, <1>5, <1>6 DEF FlagsKeepValue

\* A file that is being written is one of a loaded world's.
LEMMA InputFacts ==
  ASSUME world \in Worlds
  PROVE  /\ world.inputs[1] \in Repositories
         /\ \A ns \in InputNamespaces : ns \in NamespacesOf(Everything)
         /\ \A ns \in InputNamespaces : ns \in NamespacesOf(Repositories)
  <1>1. world.inputs \in Seq(Repositories) \ {<<>>}
    BY WorldsAssumption
  <1>2. 1 \in DOMAIN world.inputs
    BY <1>1
  <1>3. \A i \in DOMAIN world.inputs : /\ world.inputs[i] \in Everything
                                       /\ world.inputs[i] \in Repositories
    BY <1>1 DEF Everything, ToSet
  <1>4. \A ns \in InputNamespaces : \E i \in DOMAIN world.inputs :
            ns \in ToSet(world.inputs[i].namespaces)
    BY DEF InputNamespaces, ToSet
  <1> QED  BY <1>1, <1>2, <1>3, <1>4 DEF NamespacesOf

LEMMA SignalsWritten ==
  ASSUME UnknownInv, OutputInv, ~resolver.crashed, phase = "signals",
         Write("signals", UNION {generate_signal_defs(resolver, ns) : ns \in NamedNamespaces})
  PROVE  \A d \in out'["signals"] : Typed(d)
  <1>1. out'["signals"] = UNION {generate_signal_defs(resolver, ns) : ns \in NamedNamespaces}
    BY Written
  <1>2. world \in Worlds /\ resolver.unknown = {}
    BY DEF OutputInv, Running, Phases
  <1>3. Registered = Everything
    BY RegisteredIs
  <1>4. Exact(resolver, Labelled(Everything))
    BY <1>3 DEF UnknownInv
  <1>5. ASSUME NEW ns \in NamedNamespaces, NEW d \in generate_signal_defs(resolver, ns)
        PROVE  Typed(d)
    <2>1. ns \in InputNamespaces /\ ns.name # NONE
      BY Zenon DEF NamedNamespaces, NONE
    <2>2. ns \in NamespacesOf(Repositories) /\ ns \in NamespacesOf(Everything)
      BY <1>2, <2>1, InputFacts
    <2>3. ns \in Labelled(Everything)
      BY <2>1, <2>2, Zenon DEF Labelled, NONE
    <2> QED  BY <1>2, <1>4, <2>1, <2>2, <2>3, SignalDefsTyped
  <1> QED  BY <1>1, <1>5

\* The phase tells what is known of the world and of the unknown types.
LEMMA PhaseStep ==
  ASSUME SearchInv, UnknownInv, OutputInv, Next
  PROVE  /\ phase' \in Running => world' \in Worlds
         /\ phase' \in {"enums", "functions", "signals", "vfuncs"} => resolver'.unknown = {}
  <1> USE DEF Running, Phases
  <1>1. CASE UNCHANGED mainVars
    BY <1>1 DEF OutputInv, mainVars
  <1>2. CASE load_inputs
    BY <1>2 DEF load_inputs, Return
  <1>3. CASE register_inputs
    BY <1>3 DEF register_inputs, OutputInv
  <1>4. CASE load_supporting_repositories
    BY <1>4 DEF load_supporting_repositories, Return, OutputInv
  <1>5. CASE search_for_included_namespaces \/ search_begins \/ run_ends
    BY <1>5 DEF search_for_included_namespaces, search_begins, run_ends, Return, OutputInv
  <1>6. CASE run
    <2>1. phase = "search" /\ phase' \in {"search", "done"} /\ UNCHANGED world
      BY <1>6 DEF run, run_visits, Return
    <2> QED  BY <2>1 DEF OutputInv
  <1>7. CASE check_unknown
    BY <1>7 DEF check_unknown, has_unknown_types, Return, OutputInv
  <1>8. CASE write_enum_defs \/ write_function_defs \/ write_signal_defs \/ write_vfunc_defs
    BY <1>8 DEF write_enum_defs, write_function_defs, write_signal_defs, write_vfunc_defs, Return,
                OutputInv
  <1> QED  BY <1>1, <1>2, <1>3, <1>4, <1>5, <1>6, <1>7, <1>8 DEF Next, Step, ended, vars

LEMMA OutputStep ==
  ASSUME SearchInv, UnknownInv, OutputInv, [Next]_vars
  PROVE  OutputInv'
  <1>1. CASE UNCHANGED vars
    BY <1>1 DEF vars, mainVars, OutputInv, FlagsKeepValue
  <1>2. CASE Next
    <2>1. /\ phase' \in Running => world' \in Worlds
          /\ phase' \in {"enums", "functions", "signals", "vfuncs"} => resolver'.unknown = {}
      BY <1>2, PhaseStep
    <2>2. CASE UNCHANGED out
      BY <2>1, <2>2, NothingWritten
    <2>3. CASE write_enum_defs
      <3>1. FlagsKeepValue'
        BY <2>3, EnumsWritten
      <3>2. \E d : Write("enums", d)
        BY <2>3 DEF write_enum_defs
      <3>3. "signals" \in DOMAIN out' => \A d \in out'["signals"] : Typed(d)
        BY <3>2, OthersKept
      <3> QED  BY <2>1, <3>1, <3>3 DEF OutputInv
    <2>4. CASE write_function_defs /\ out' # out
      <3>1. \E d : Write("functions", d)
        BY <2>4 DEF write_function_defs
      <3>2. /\ "signals" \in DOMAIN out' => \A d \in out'["signals"] : Typed(d)
            /\ FlagsKeepValue'
        BY <3>1, OthersKept
      <3> QED  BY <2>1, <3>2 DEF OutputInv
    <2>5. CASE write_signal_defs /\ out' # out
      <3>1. /\ phase = "signals"
            /\ Write("signals", UNION {generate_signal_defs(resolver, ns) : ns \in NamedNamespaces})
        BY <2>5 DEF write_signal_defs
      <3>2. ~resolver.crashed
        BY <1>2, <2>5, <3>1 DEF Next, ended, vars, mainVars
      <3>3. \A d \in out'["signals"] : Typed(d)
        BY <3>1, <3>2, SignalsWritten
      <3>4. \E d : Write("signals", d)
        BY <3>1
      <3>5. FlagsKeepValue'
        BY <3>4, OthersKept
      <3> QED  BY <2>1, <3>3, <3>5 DEF OutputInv
    <2>6. CASE write_vfunc_defs /\ out' # out
      <3>1. \E d : Write("vfuncs", d)
        BY <2>6 DEF write_vfunc_defs
      <3>2. /\ "signals" \in DOMAIN out' => \A d \in out'["signals"] : Typed(d)
            /\ FlagsKeepValue'
        BY <3>1, OthersKept
      <3> QED  BY <2>1, <3>2 DEF OutputInv
    <2>7. \/ UNCHANGED out \/ write_enum_defs \/ write_function_defs
          \/ write_signal_defs \/ write_vfunc_defs
      BY <1>2, ZenonT(40)
         DEF Next, Step, ended, vars, mainVars, load_inputs, register_inputs,
             load_supporting_repositories, search_for_included_namespaces, search_begins, run,
             run_ends, check_unknown
    <2> QED  BY <2>2, <2>3, <2>4, <2>5, <2>6, <2>7
  <1> QED  BY <1>1, <1>2

(***************************************************************************)
(* Whatever files there are and whatever they use and define, whatever     *)
(* widths the numbers have and whatever values the members of enumerations *)
(* and bitfields: a program that writes its output finds a GParam for      *)
(* every property whose type is given by name (generate_property_def()),   *)
(* prints every flag with its own value and leaves out only those that do  *)
(* not fit (format_bitfield_members()).                                    *)
(***************************************************************************)
THEOREM OutputIsFaithful == Spec => []OutputFaithful
  <1>1. Init => SearchInv /\ UnknownInv /\ OutputInv
    BY SearchInit, UnknownInit, OutputInit
  <1>2. SearchInv /\ UnknownInv /\ OutputInv /\ [Next]_vars => (SearchInv /\ UnknownInv /\ OutputInv)'
    BY SearchStep, UnknownStep, OutputStep
  <1>3. OutputInv => OutputFaithful
    BY DEF OutputInv, OutputFaithful, PropertiesTyped, Typed
  <1> QED  BY <1>1, <1>2, <1>3, PTL DEF Spec
=============================================================================
