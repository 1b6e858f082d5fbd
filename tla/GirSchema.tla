------------------------------ MODULE GirSchema ------------------------------
(* The objects mmgir builds from a GIR file: tools/mmgir/schema.h.            *)
(*                                                                            *)
(* A struct is described by the XML names of its fields:                      *)
(*   must    texts that are not optional: the empty one that a struct starts  *)
(*           with is not a value,                                             *)
(*   typed   fields of a type that not every text is a value of (bool, an     *)
(*           enum class, a list of prefixes),                                 *)
(*   deref   optional fields that a later stage reads with value(),           *)
(*   parts   the child elements that have a place in the struct,              *)
(*   need    what must have been found among its parts: a pointer to a type   *)
(*           is not optional,                                                 *)
(*   ban     what must not have been found among its parts.                   *)
(* Optional texts that nobody dereferences and integers are left out.         *)

Struct(must, typed, deref, parts) ==
    [must |-> must, typed |-> typed, deref |-> deref, parts |-> parts,
     need |-> {}, ban |-> {}]

(* "Instance parameter is mandatory", "Must not have instance parameter". *)
Needing(s, facts) == [s EXCEPT !.need = facts]
Banning(s, facts) == [s EXCEPT !.ban = facts]

(* InfoAttributes has a text that is not optional, too. *)
InfoAttributes == {"introspectable", "deprecated", "stability"}
InfoVersion == {"version"}
DocElements == {"doc", "source-position"}
InfoElements == DocElements \cup {"attribute"}
AnyType == {"type", "array"}
PrefixLists == {"c:identifier-prefixes", "c:symbol-prefixes"}

Include == Struct({"name"}, {}, {}, {})
Repository == Struct({}, PrefixLists, {}, {"include", "namespace"})
Annotation == Struct({"name", "value"}, {}, {}, {})
SourcePosition == Struct({"filename"}, {}, {}, {})
(* The position of a documentation is among its attributes. *)
Documentation == Struct({"filename", "text"}, {}, {}, {})
VarArgs == Struct({}, {}, {}, {})
Type == Struct({}, {}, {}, DocElements)
ArrayType == Needing(Struct({}, {"zero-terminated"}, {}, AnyType), {"type"})
Alias == Struct({"name", "c:type"} \cup InfoVersion, InfoAttributes, {},
                InfoElements \cup AnyType)
Member == Struct({"name", "value", "c:identifier"} \cup InfoVersion, InfoAttributes, {},
                 InfoElements)

Param == Needing(Struct({}, {"nullable", "scope", "direction", "caller-allocates",
                            "optional", "skip", "transfer-ownership"},
                        {"name"}, InfoElements \cup AnyType \cup {"varargs"}),
                 {"type"})
InstanceParam == Needing(Struct({"name"}, {"nullable", "direction", "caller-allocates",
                                           "transfer-ownership"},
                                {}, DocElements \cup {"type"}), {"type"})
CallableParams == Struct({}, {}, {}, {"parameter", "instance-parameter"})
CallableReturn == Needing(Struct({}, {"nullable", "scope", "skip", "transfer-ownership"},
                                 {}, InfoElements \cup AnyType), {"type"})

(* A callable: CallableAttributes, parameters, return value. *)
CallableAttributes == InfoAttributes \cup {"throws"}
FunctionInline == Banning(Struct({"name"} \cup InfoVersion, CallableAttributes,
                                 {"c:identifier"},
                                 DocElements \cup {"parameters", "return-value"}), {"inst"})
Function == [FunctionInline EXCEPT !.parts = @ \cup {"attribute"}]
MethodInline == [Function EXCEPT !.need = {"inst"}, !.ban = {}]
Method == MethodInline
Constructor == Function
VirtualMethod == [Method EXCEPT !.deref = {}]
Signal == Banning(Struct({"name"} \cup InfoVersion,
                         InfoAttributes \cup {"detailed", "when", "action", "no-hooks",
                                              "no-recurse"}, {},
                         InfoElements \cup {"parameters", "return-value"}),
                  {"inst", "varargs"})
Property == Needing(Struct({"name"} \cup InfoVersion,
                           InfoAttributes \cup {"writable", "readable", "construct",
                                                "construct-only", "transfer-ownership"}, {},
                           InfoElements \cup AnyType), {"type"})

Functions == {"function", "function-inline"}
Methods == {"method", "method-inline"}
Bitfield == Struct({"name", "c:type"} \cup InfoVersion, InfoAttributes, {},
                   InfoElements \cup Functions \cup {"member"})
Enum == Struct({"name", "c:type"} \cup InfoVersion, InfoAttributes, {},
               InfoElements \cup Functions \cup {"member"})
Union == Struct(InfoVersion, InfoAttributes, {},
                InfoElements \cup Functions \cup Methods \cup {"constructor"})
Record == Struct({"name"} \cup InfoVersion,
                 InfoAttributes \cup {"opaque", "pointer", "foreign"}, {"c:type"},
                 InfoElements \cup Functions \cup Methods \cup {"constructor"})
Prerequisite == Struct({"name"}, {}, {}, {})
Implements == Struct({"name"}, {}, {}, {})
ObjectFields == {"name", "glib:type-name", "glib:get-type"} \cup InfoVersion
Interface == Struct(ObjectFields, InfoAttributes, {},
                    InfoElements \cup Functions \cup Methods \cup
                    {"prerequisite", "implements", "virtual-method", "property",
                     "glib:signal", "constructor"})
Class == Struct(ObjectFields, InfoAttributes \cup {"abstract", "glib:fundamental", "final"}, {},
                InfoElements \cup Functions \cup Methods \cup
                {"implements", "constructor", "virtual-method", "property",
                 "glib:signal", "union", "record"})
DocSection == Struct({"name"}, {}, {}, DocElements)
Namespace == Struct({}, PrefixLists, {"name"},
                    Functions \cup {"alias", "class", "interface", "record", "enumeration",
                                    "union", "bitfield", "attribute", "docsection"})
==============================================================================
