----------------------------- MODULE Properties -----------------------------
(***************************************************************************)
(* Custom types and their properties: glib/glibmm/class.cc, interface.cc,   *)
(* object.cc, extraclassinit.cc, property.h and property.cc.                *)
(*                                                                         *)
(* A class derived from Glib::Object that names its type gets a GType of    *)
(* its own when its first instance is constructed.  The constructors of its *)
(* bases and members run one after another; each may change the GType:      *)
(* interfaces bring properties of their own, and the first Glib::Property   *)
(* of a name installs it.  A property is known to GObject by a number, and  *)
(* the callbacks must find from an object and that number the place where   *)
(* the value is: in the class, in the GObject, or in the C++ wrapper.  C    *)
(* code may create GObjects of the type, and read and write properties,     *)
(* between any two of these steps, with or without a wrapper.               *)
(***************************************************************************)
EXTENDS Naturals, Sequences, FiniteSets, SequencesExt

CONSTANTS
  Objects,      \* the GObjects of the custom type
  Wrappers,     \* the C++ objects
  NULL,
  Layouts,      \* the orders in which bases and members may be constructed
  IfaceProps,   \* interface -> sequence of the names of its properties
  BaseProps,    \* names of interface properties that the base type has overridden
  Props,        \* name of a Glib::Property -> [mode, default]
  Values,       \* what is written
  Rewrap        \* a GObject gets a second wrapper after its first one was deleted

\* What g_value_init() gives: zero, an empty string, a null pointer.
Zero == "zero"
AnyValue == Values \cup {Zero, "default"}

IfaceNames == UNION {Range(IfaceProps[i]) : i \in DOMAIN IfaceProps}

\* An interface has no two properties of one name, and a Glib::Property does not take the
\* name of a property of an interface.
ASSUME NamesAssumption ==
  /\ \A i \in DOMAIN IfaceProps : IfaceProps[i] \in Seq(IfaceNames) /\ IsInjective(IfaceProps[i])
  /\ IsFiniteSet(IfaceNames)
  /\ DOMAIN Props \cap IfaceNames = {}
  /\ \A p \in DOMAIN Props : Props[p].mode \in {"rw", "ro", "wo"} /\ Props[p].default \in AnyValue

\* A null pointer is neither an object nor a vector; what a callback returns without a
\* value is none.
ASSUME NullAssumption ==
  /\ NULL \notin Objects \cup Wrappers \cup Seq(AnyValue) \cup [w : Wrappers, p : DOMAIN Props]
  /\ {"undefined", "warning"} \cap AnyValue = {}

(* A layout is a sequence of steps [op, arg]: "iface" i is the base          *)
(* Interface(i), "extra" f the base ExtraClassInit, "object" the base        *)
(* Glib::Object and "prop" p a member Glib::Property.                        *)
StepsOf(l, op) == {k \in DOMAIN l : l[k].op = op}

(* A class has one base Glib::Object, whose constructor comes before those   *)
(* of the members that are given it, and no two of these have one name.      *)
ASSUME LayoutsAssumption ==
  \A l \in Layouts :
    /\ l \in Seq([op : {"iface", "extra", "object", "prop"}, arg : {l[k].arg : k \in DOMAIN l}])
    /\ \A k \in StepsOf(l, "iface") : l[k].arg \in DOMAIN IfaceProps
    /\ \A k \in StepsOf(l, "prop") : l[k].arg \in DOMAIN Props
    /\ \E b \in DOMAIN l : StepsOf(l, "object") = {b} /\ \A k \in StepsOf(l, "prop") : b < k
    /\ \A j, k \in StepsOf(l, "prop") : l[j].arg = l[k].arg => j = k

(* What the numbers of properties rely on: all interfaces come before        *)
(* Glib::Object, or there is one only and it comes before the members.       *)
InterfacesInTime(l) ==
  \/ \A j \in StepsOf(l, "iface"), b \in StepsOf(l, "object") : j < b
  \/ \E j \in StepsOf(l, "iface") :
        StepsOf(l, "iface") = {j} /\ \A k \in StepsOf(l, "prop") : j < k

VARIABLES
  layout,   \* the constructors of this class
  klass,    \* the GType
  obj,      \* the GObjects with their qdata
  wr,       \* the wrappers with their PropertyBase members
  stack,    \* the wrappers under construction, the innermost first
  last,     \* history: the last value that was accepted for a property
  notice    \* history: the property that this step notified

vars == <<layout, klass, obj, wr, stack, last, notice>>

\* custom_properties_type, and the two vectors of interface property values.
NoObject == [st |-> "none", wrapper |-> NULL, base |-> <<>>, map |-> <<>>, iface |-> NULL]

NoWrapper == [st |-> "none", steps |-> <<>>, at |-> 1, gobject |-> NULL, cast |-> NULL,
              ifaces |-> <<>>, inits |-> <<>>, val |-> <<>>]

NoClass == [registered |-> FALSE, ifaces |-> {}, defaults |-> <<>>, spec |-> <<>>,
            inits |-> <<>>]

Init ==
  /\ layout \in Layouts
  /\ klass = NoClass
  /\ obj = [o \in Objects |-> NoObject]
  /\ wr = [w \in Wrappers |-> NoWrapper]
  /\ stack = <<>>
  /\ last = [o \in Objects |-> <<>>]
  /\ notice = NULL

-----------------------------------------------------------------------------
(* Helpers.                                                                 *)

Put(f, x, v) == [y \in DOMAIN f \cup {x} |-> IF y = x THEN v ELSE f[y]]

Forget(f, names) == [y \in DOMAIN f \ names |-> f[y]]

Alive(o) == obj[o].st = "alive"

Readable(n) == n \in DOMAIN Props => Props[n].mode # "wo"
Writable(n) == n \in DOMAIN Props => Props[n].mode # "ro"

\* The default value in the GParamSpec: create_param_spec() takes it from value_.
Default(n) == IF n \in DOMAIN Props THEN Props[n].default ELSE "default"

IfaceSize(c) == Len(c.defaults)

(* The GParamSpecs of properties are installed in the class once: GObject    *)
(* refuses a name that the class itself has.                                 *)
InstallInClass(c, n, id) == IF n \in DOMAIN c.spec THEN c ELSE [c EXCEPT !.spec = Put(@, n, id)]

-----------------------------------------------------------------------------
(* The GType.                                                               *)

\* Interface_Class::add_interface().
add_interface(c, i) == [c EXCEPT !.ifaces = @ \cup {i}]

\* Class::clone_custom_type(): the type is registered by the first instance only.
clone_custom_type(c, ifaces) ==
  IF c.registered THEN c ELSE [c EXCEPT !.registered = TRUE, !.ifaces = Range(ifaces)]

(* The properties of the interfaces that no base type has overridden, with   *)
(* their numbers, in any order: that in which GLib lists interfaces and      *)
(* properties.                                                               *)
OverriddenIn(c) == (UNION {Range(IfaceProps[i]) : i \in c.ifaces}) \ BaseProps
Numbered(names) == Bijection(names, 1 .. Cardinality(names))

(* Class::custom_class_init_function(), called for the first instance: the   *)
(* extra class init functions, then the properties of all interfaces.        *)
custom_class_init_function(c, inits, numbers) ==
  [c EXCEPT !.inits = @ \o inits,
            !.spec = numbers,
            !.defaults = [id \in 1 .. Cardinality(DOMAIN numbers) |-> "default"]]

(* Interface(interface_class) after Glib::Object, in a type that does not    *)
(* have the interface: its properties are appended to those of the class.    *)
OverrideInInterface(c, i) ==
  LET names    == IfaceProps[i]
      existing == IfaceSize(c)
      number(n) == existing + CHOOSE p \in DOMAIN names : names[p] = n
  IN  add_interface(
        [c EXCEPT !.defaults = @ \o [p \in DOMAIN names |-> Default(names[p])],
                  !.spec = [n \in DOMAIN c.spec \cup Range(names) |->
                              IF n \in DOMAIN c.spec THEN c.spec[n] ELSE number(n)]],
        i)

-----------------------------------------------------------------------------
(* Construction of a wrapper, one base or member at a time.                  *)

(* ObjectBase(custom_type_name): a new instance, or a wrapper for a GObject  *)
(* that C code created: by a class with all the members (Gtk::Builder), or   *)
(* by Glib::wrap(), which knows only the wrapper of the base type.           *)
Begin(w, cast, steps) ==
  /\ wr[w].st = "none"
  /\ cast # NULL => /\ Alive(cast)
                    /\ obj[cast].wrapper = NULL
                    /\ \A k \in DOMAIN stack : wr[stack[k]].cast # cast
                    /\ Rewrap \/ obj[cast].base = <<>>
  /\ wr' = [wr EXCEPT ![w] = [NoWrapper EXCEPT !.st = "constructing", !.steps = steps,
                                               !.cast = cast]]
  /\ stack' = <<w>> \o stack
  /\ notice' = NULL
  /\ UNCHANGED <<layout, klass, obj, last>>

ConstructNew(w) == Begin(w, NULL, layout)
ConstructDerived(w, o) == Begin(w, o, layout)
WrapPlain(w, o) == Begin(w, o, <<[op |-> "object", arg |-> NULL]>>)

\* The innermost wrapper has its next base or member constructed as new.
Advance(w, new) ==
  LET finished == new.at = Len(new.steps)
  IN  /\ wr' = [wr EXCEPT ![w] = [new EXCEPT !.at = @ + 1,
                                     !.st = IF finished THEN "finished" ELSE @]]
      /\ stack' = IF finished THEN Tail(stack) ELSE stack
      /\ notice' = NULL
      /\ UNCHANGED <<layout, last>>

Constructs(w, op) == /\ stack # <<>> /\ w = Head(stack)
                     /\ wr[w].steps[wr[w].at].op = op

Arg(w) == wr[w].steps[wr[w].at].arg

\* The lists that ObjectBase keeps for the type of this instance, until there is one; a
\* function stands in the list by its place in the layout.
add_custom_interface_class(x, i) == [x EXCEPT !.ifaces = Append(@, i)]
add_custom_class_init_function(x) == [x EXCEPT !.inits = Append(@, x.at)]
custom_class_init_finished(x) == [x EXCEPT !.ifaces = <<>>, !.inits = <<>>]

\* Interface::Interface(const Interface_Class&).
Interface(w) ==
  /\ Constructs(w, "iface")
  /\ IF wr[w].gobject # NULL
     THEN /\ klass' = IF Arg(w) \in klass.ifaces THEN klass ELSE OverrideInInterface(klass, Arg(w))
          /\ Advance(w, wr[w])
     ELSE /\ klass' = klass
          /\ Advance(w, add_custom_interface_class(wr[w], Arg(w)))
  /\ UNCHANGED obj

\* ExtraClassInit::ExtraClassInit(): too late for the class once there is a GObject.
ExtraClassInit(w) ==
  /\ Constructs(w, "extra")
  /\ Advance(w, add_custom_class_init_function(wr[w]))
  /\ UNCHANGED <<klass, obj>>

\* ObjectBase::initialize().
initialize(w, o) == [wr[w] EXCEPT !.gobject = o]

\* The mutant: the class init functions of every instance run.
Object_reinit(w, o) ==
  /\ Constructs(w, "object")
  /\ wr[w].cast = NULL /\ obj[o].st = "none"
  /\ klass' = custom_class_init_function(clone_custom_type(klass, wr[w].ifaces), wr[w].inits,
                                         klass.spec)
  /\ obj' = [obj EXCEPT ![o] = [NoObject EXCEPT !.st = "alive", !.wrapper = w]]
  /\ Advance(w, initialize(w, o))

(* Object::Object(): the type is registered and its class initialised by the *)
(* first instance; the lists of this instance are discarded.                 *)
Object(w, o) ==
  /\ Constructs(w, "object")
  /\ wr[w].cast = NULL /\ obj[o].st = "none"
  /\ LET c == clone_custom_type(klass, wr[w].ifaces)
     IN  \E numbers \in Numbered(OverriddenIn(c)) :
           klass' = IF klass.registered THEN c
                    ELSE custom_class_init_function(c, wr[w].inits, numbers)
  /\ obj' = [obj EXCEPT ![o] = [NoObject EXCEPT !.st = "alive", !.wrapper = w]]
  /\ Advance(w, custom_class_init_finished(initialize(w, o)))

\* Object::Object(GObject* castitem).
ObjectCast(w) ==
  /\ Constructs(w, "object")
  /\ wr[w].cast # NULL
  /\ obj' = [obj EXCEPT ![wr[w].cast].wrapper = w]
  /\ Advance(w, initialize(w, wr[w].cast))
  /\ UNCHANGED klass

\* The mutant: a value that C code has set is not looked for.
lookup_property_no_map(w, p) ==
  LET o == wr[w].gobject
  IN  /\ p \in DOMAIN klass.spec
      /\ obj' = [obj EXCEPT ![o].base = Append(@, [w |-> w, p |-> p])]
      /\ Advance(w, [wr[w] EXCEPT !.val = Put(@, p, Props[p].default)])
      /\ UNCHANGED klass

\* PropertyBase::lookup_property(): the value C code has set is kept by its position.
lookup_property(w, p) ==
  LET o   == wr[w].gobject
      pos == Len(obj[o].base) + 1
      v   == IF pos \in DOMAIN obj[o].map THEN obj[o].map[pos] ELSE Props[p].default
  IN  /\ p \in DOMAIN klass.spec
      /\ obj' = [obj EXCEPT ![o].base = Append(@, [w |-> w, p |-> p])]
      /\ Advance(w, [wr[w] EXCEPT !.val = Put(@, p, v)])
      /\ UNCHANGED klass

\* The mutant: the property is installed under another number.
InstallAs(w, p, id) ==
  /\ p \notin DOMAIN klass.spec
  /\ obj' = [obj EXCEPT ![wr[w].gobject].base = Append(@, [w |-> w, p |-> p])]
  /\ klass' = InstallInClass(klass, p, id)
  /\ Advance(w, [wr[w] EXCEPT !.val = Put(@, p, Props[p].default)])

\* The mutant: numbers are not offset by those of the interfaces.
install_property_no_offset(w, p) == InstallAs(w, p, Len(obj[wr[w].gobject].base) + 1)

\* PropertyBase::install_property(): the number follows those of the interfaces.
install_property(w, p) ==
  LET o  == wr[w].gobject
      id == Len(obj[o].base) + IfaceSize(klass) + 1
  IN  /\ p \notin DOMAIN klass.spec
      /\ obj' = [obj EXCEPT ![o].base = Append(@, [w |-> w, p |-> p])]
      /\ klass' = InstallInClass(klass, p, id)
      /\ Advance(w, [wr[w] EXCEPT !.val = Put(@, p, Props[p].default)])

\* The constructors of Property, Property_ReadOnly and Property_WriteOnly.
Property(w) ==
  /\ Constructs(w, "prop")
  /\ lookup_property(w, Arg(w)) \/ install_property(w, Arg(w))

-----------------------------------------------------------------------------
(* The callbacks of the class.                                               *)

IsIface(n) == klass.spec[n] <= IfaceSize(klass)

\* The position in prop_base_vector and in prop_value_map, counted from 1.
index(n) == klass.spec[n] - IfaceSize(klass)

\* The pointer in prop_base_vector, NULL past the end of the vector.
Entry(o, n) == IF index(n) \in DOMAIN obj[o].base THEN obj[o].base[index(n)] ELSE NULL

\* prop_base->object_ == wrapper && prop_base->param_spec_ == param_spec.
Found(o, n) == Entry(o, n) = [w |-> obj[o].wrapper, p |-> n]

\* A pointer to a deleted PropertyBase is followed.
Dangles(o, n) == /\ Entry(o, n) # NULL
                 /\ wr[Entry(o, n).w].st = "deleted"

(* What glibmm_custom_get_property_callback() returns: a value, "warning"    *)
(* when it returns none, "undefined" when it reads what is not there.        *)
glibmm_custom_get_property_callback(o, n) ==
  LET id == klass.spec[n]
      at == index(n)
  IN  CASE IsIface(n) /\ obj[o].iface = NULL -> klass.defaults[id]
        [] IsIface(n) /\ obj[o].iface # NULL ->
             IF id \in DOMAIN obj[o].iface THEN obj[o].iface[id] ELSE "undefined"
        [] ~IsIface(n) /\ obj[o].wrapper # NULL ->
             IF Dangles(o, n) THEN "undefined"
             ELSE IF Found(o, n) THEN wr[obj[o].wrapper].val[n] ELSE "warning"
        [] ~IsIface(n) /\ obj[o].wrapper = NULL ->
             IF at \in DOMAIN obj[o].map THEN obj[o].map[at] ELSE Default(n)

\* A value has been accepted for a property.
Accepted(o, n, v) == /\ last' = [last EXCEPT ![o] = Put(@, n, v)]
                     /\ notice' = <<o, n>>

\* The mutant: only the values up to the one that is set are copied from the class.
SetInterfaceProperty_short(o, n, v) ==
  LET id     == klass.spec[n]
      values == IF obj[o].iface = NULL THEN SubSeq(klass.defaults, 1, id) ELSE obj[o].iface
  IN  /\ IsIface(n)
      /\ id \in DOMAIN values
      /\ obj' = [obj EXCEPT ![o].iface = [values EXCEPT ![id] = v]]
      /\ Accepted(o, n, v)
      /\ UNCHANGED wr

\* An interface property: the object gets values of its own with the first one set.
SetInterfaceProperty(o, n, v) ==
  LET id     == klass.spec[n]
      values == IF obj[o].iface = NULL THEN klass.defaults ELSE obj[o].iface
  IN  /\ IsIface(n)
      /\ id \in DOMAIN values
      /\ obj' = [obj EXCEPT ![o].iface = [values EXCEPT ![id] = v]]
      /\ Accepted(o, n, v)
      /\ UNCHANGED wr

\* There is a wrapper, and it has the property.
SetInWrapper(o, n, v) ==
  /\ ~IsIface(n)
  /\ obj[o].wrapper # NULL
  /\ Found(o, n)
  /\ wr' = [wr EXCEPT ![obj[o].wrapper].val[n] = v]
  /\ Accepted(o, n, v)
  /\ UNCHANGED obj

\* There is no wrapper: the value is kept for it.
SetInMap(o, n, v) ==
  /\ ~IsIface(n)
  /\ obj[o].wrapper = NULL
  /\ obj' = [obj EXCEPT ![o].map = Put(@, index(n), v)]
  /\ Accepted(o, n, v)
  /\ UNCHANGED wr

\* There is a wrapper, but not (or not yet) one with the property: a warning.
SetRefused(o, n, v) ==
  /\ ~IsIface(n)
  /\ obj[o].wrapper # NULL
  /\ ~Found(o, n)
  /\ notice' = NULL
  /\ UNCHANGED <<obj, wr, last>>

glibmm_custom_set_property_callback(o, n, v) ==
  \/ SetInterfaceProperty(o, n, v)
  \/ SetInWrapper(o, n, v)
  \/ SetInMap(o, n, v)
  \/ SetRefused(o, n, v)

-----------------------------------------------------------------------------
(* What C code and C++ code do with objects and their properties.            *)

\* g_object_set_property(): GObject looks the name up and refuses one that is not writable.
g_object_set_property(o, n, v) ==
  /\ Alive(o)
  /\ Writable(n)
  /\ n \in DOMAIN klass.spec
  /\ glibmm_custom_set_property_callback(o, n, v)
  /\ UNCHANGED <<layout, klass, stack>>

\* ObjectBase::set_property_value() and PropertyProxy::set_value() need a wrapper.
ProxySet(w, n, v) == /\ wr[w].st = "finished"
                     /\ g_object_set_property(wr[w].gobject, n, v)

\* PropertyProxy_Base::reset_property_() sets the initial value of the type.
reset_property_(w, n) == ProxySet(w, n, Zero)

\* The mutant: nobody is notified.
notify_nobody(w, p, v) == /\ last' = [last EXCEPT ![wr[w].gobject] = Put(@, p, v)]
                          /\ notice' = NULL

\* PropertyBase::notify(), after v was stored in the member.
notify(w, p, v) == Accepted(wr[w].gobject, p, v)

\* The members of a wrapper that is not deleted may be used, in its constructor too.
HasMember(w, p, modes) == /\ wr[w].st \in {"constructing", "finished"}
                          /\ p \in DOMAIN wr[w].val
                          /\ Props[p].mode \in modes

\* Property::set_value() and operator=().
set_value(w, p, v) ==
  /\ HasMember(w, p, {"rw"})
  /\ wr' = [wr EXCEPT ![w].val[p] = v]
  /\ notify(w, p, v)
  /\ UNCHANGED <<layout, klass, obj, stack>>

\* Property_WriteOnly::set_value() and operator=().
set_value_WriteOnly(w, p, v) ==
  /\ HasMember(w, p, {"wo"})
  /\ wr' = [wr EXCEPT ![w].val[p] = v]
  /\ notify(w, p, v)
  /\ UNCHANGED <<layout, klass, obj, stack>>

\* Property::get_value() and Property_ReadOnly::get_value() read the member itself.
get_value(w, p) == wr[w].val[p]

\* g_object_new() by C code, once the type is registered.
CreateInC(o) ==
  /\ klass.registered
  /\ obj[o].st = "none"
  /\ obj' = [obj EXCEPT ![o].st = "alive"]
  /\ notice' = NULL
  /\ UNCHANGED <<layout, klass, wr, stack, last>>

(* The wrapper is deleted, or its constructor throws: ~PropertyBase() for    *)
(* each property, then ~ObjectBase(), which drops the wrapper's reference.   *)
(* The GObject survives if C code has one.  One step: a GObject's properties *)
(* are used from one thread, and of the class's own code only the destructor *)
(* of a member could ask for a property in between.                          *)
DeleteWrapper(w, survives) ==
  LET o == wr[w].gobject
  IN  /\ wr[w].st = "finished" \/ (stack # <<>> /\ w = Head(stack))
      /\ wr' = [wr EXCEPT ![w] = [NoWrapper EXCEPT !.st = "deleted"]]
      /\ stack' = IF wr[w].st = "constructing" THEN Tail(stack) ELSE stack
      /\ notice' = NULL
      /\ IF o = NULL
         THEN survives /\ UNCHANGED <<obj, last>>
         ELSE /\ obj' = [obj EXCEPT ![o] = IF survives THEN [@ EXCEPT !.wrapper = NULL]
                                           ELSE [NoObject EXCEPT !.st = "gone"]]
              /\ last' = [last EXCEPT ![o] = Forget(@, IF survives THEN DOMAIN Props ELSE DOMAIN @)]
      /\ UNCHANGED <<layout, klass>>

(* C code drops the last reference of a GObject without a wrapper: the       *)
(* destroy notifications free its values.                                    *)
Finalize(o) ==
  /\ Alive(o)
  /\ obj[o].wrapper = NULL
  /\ \A k \in DOMAIN stack : wr[stack[k]].cast # o
  /\ obj' = [obj EXCEPT ![o] = [NoObject EXCEPT !.st = "gone"]]
  /\ last' = [last EXCEPT ![o] = <<>>]
  /\ notice' = NULL
  /\ UNCHANGED <<layout, klass, wr, stack>>

Next ==
  \/ \E w \in Wrappers :
       \/ ConstructNew(w)
       \/ \E o \in Objects : ConstructDerived(w, o) \/ WrapPlain(w, o) \/ Object(w, o)
       \/ Interface(w) \/ ExtraClassInit(w) \/ ObjectCast(w) \/ Property(w)
       \/ \E n \in DOMAIN klass.spec :
            reset_property_(w, n) \/ \E v \in Values : ProxySet(w, n, v)
       \/ \E p \in DOMAIN Props, v \in Values : set_value(w, p, v) \/ set_value_WriteOnly(w, p, v)
       \/ \E survives \in BOOLEAN : DeleteWrapper(w, survives)
  \/ \E o \in Objects :
       \/ CreateInC(o) \/ Finalize(o)
       \/ \E n \in DOMAIN klass.spec, v \in Values : g_object_set_property(o, n, v)

Spec == Init /\ [][Next]_vars

-----------------------------------------------------------------------------
(* Properties.                                                               *)

\* Every variable has the type its comment gives it.
TypeOK ==
  /\ layout \in Layouts
  /\ klass.registered \in BOOLEAN
  /\ klass.ifaces \subseteq DOMAIN IfaceProps
  /\ klass.defaults \in Seq(AnyValue)
  /\ DOMAIN klass.spec \subseteq DOMAIN Props \cup IfaceNames
  /\ \A n \in DOMAIN klass.spec : klass.spec[n] \in Nat \ {0}
  /\ \A o \in Objects :
       /\ obj[o].st \in {"none", "alive", "gone"}
       /\ obj[o].wrapper \in Wrappers \cup {NULL}
       /\ \A k \in DOMAIN obj[o].base : obj[o].base[k] \in [w : Wrappers, p : DOMAIN Props]
       /\ \A k \in DOMAIN obj[o].map : k \in Nat /\ obj[o].map[k] \in AnyValue
       /\ obj[o].iface # NULL => obj[o].iface \in Seq(AnyValue)
  /\ \A w \in Wrappers :
       /\ wr[w].st \in {"none", "constructing", "finished", "deleted"}
       /\ wr[w].gobject \in Objects \cup {NULL}
       /\ \A p \in DOMAIN wr[w].val : p \in DOMAIN Props /\ wr[w].val[p] \in AnyValue
  /\ stack \in Seq(Wrappers)
  /\ notice \in {NULL} \cup (Objects \X (DOMAIN Props \cup IfaceNames))

(* Whatever C code asks for next, neither callback follows a pointer to a    *)
(* deleted PropertyBase in prop_base_vector, nor reads past the object's     *)
(* interface property values (property.cc:177 and :190).                     *)
NothingUndefined ==
  /\ TypeOK
  /\ \A o \in Objects : Alive(o) => \A n \in DOMAIN klass.spec :
       glibmm_custom_get_property_callback(o, n) # "undefined"

(* Requirement c) at property.cc:39: with only a GObject and a property ID   *)
(* the PropertyBase of the wrapper is found, however far the constructors of *)
(* this and of other instances have come.                                    *)
IdFindsProperty ==
  \A w \in Wrappers : \A p \in DOMAIN wr[w].val :
    /\ ~IsIface(p)
    /\ Found(wr[w].gobject, p)

(* A read that is answered, by the callback or by Property::get_value(),     *)
(* gives the last value that was accepted, whether it was written by C code  *)
(* before there was a wrapper (property.cc:327), by C code later, or by      *)
(* Property::set_value(); the values a wrapper has are forgotten with it.    *)
ReadsLastWrite ==
  /\ \A o \in Objects : \A n \in DOMAIN last[o] :
       Readable(n) => glibmm_custom_get_property_callback(o, n) \in {last[o][n], "warning"}
  /\ \A w \in Wrappers : \A p \in DOMAIN wr[w].val :
       p \in DOMAIN last[wr[w].gobject] => get_value(w, p) = last[wr[w].gobject][p]

(* The extra class init functions of the first instance, and of no other,    *)
(* have run, once each and in the order of the constructors.                 *)
ClassInitOnce ==
  klass.registered =>
    /\ Range(klass.inits) = {k \in StepsOf(layout, "extra") :
                              \A b \in StepsOf(layout, "object") : k < b}
    /\ \A i, j \in DOMAIN klass.inits : i < j => klass.inits[i] < klass.inits[j]

(* What a reader of a property sees changes only with a notification of that *)
(* property, unless the object's own constructor or destructor is at work:   *)
(* the construction of another instance, a type that grows, or a write to    *)
(* another property does not change it.                                      *)
ChangeNotifies ==
  [][\A o \in Objects :
       (Alive(o) /\ Alive(o)' /\ obj[o].wrapper' = obj[o].wrapper /\ obj[o].base' = obj[o].base)
       => \A n \in DOMAIN klass.spec :
            (Readable(n) /\ glibmm_custom_get_property_callback(o, n)'
                              # glibmm_custom_get_property_callback(o, n))
            => notice' = <<o, n>>]_vars
=============================================================================
