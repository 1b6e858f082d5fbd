---------------------------- MODULE MCProperties ----------------------------
(* Instances of Properties: two interfaces that share a property name, one   *)
(* of whose properties the base type has overridden already, and three       *)
(* Glib::Property members.                                                   *)
EXTENDS Properties, TLC

MCIfaceProps == [i |-> <<"a", "c">>, j |-> <<"a", "b">>]
MCBaseProps == {"c"}
MCProps == [p |-> [mode |-> "rw", default |-> "default"],
            q |-> [mode |-> "wo", default |-> Zero],
            r |-> [mode |-> "ro", default |-> "default"]]

iface(i) == [op |-> "iface", arg |-> i]
extra(f) == [op |-> "extra", arg |-> f]
prop(p) == [op |-> "prop", arg |-> p]
object == [op |-> "object", arg |-> NULL]

(* All interfaces before Glib::Object; one after it, before all properties;  *)
(* no interface, and class init functions before and after Glib::Object.     *)
SafeLayouts ==
  {<<iface("i"), extra("f"), iface("j"), object, prop("r"), prop("p")>>,
   <<extra("f"), object, iface("i"), prop("p")>>,
   <<extra("f"), extra("g"), object, prop("q"), extra("h"), prop("p")>>}

Symmetry == Permutations(Objects) \cup Permutations(Wrappers)
=============================================================================
