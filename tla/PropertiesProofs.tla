-------------------------- MODULE PropertiesProofs --------------------------
(***************************************************************************)
(* Proofs about custom types and their properties.                         *)
(***************************************************************************)
EXTENDS Properties, SequenceTheorems, FiniteSetTheorems, TLAPS

Partial(S, T) == UNION {[D -> T] : D \in SUBSET S}
Names == DOMAIN Props \cup IfaceNames
PlainSteps == <<[op |-> "object", arg |-> NULL]>>

ClassType == [registered : BOOLEAN, ifaces : SUBSET DOMAIN IfaceProps, defaults : Seq(AnyValue),
              spec : Partial(Names, Nat \ {0}), inits : Seq(Nat)]
ObjectType == [st : {"none", "alive", "gone"}, wrapper : Wrappers \cup {NULL},
               base : Seq([w : Wrappers, p : DOMAIN Props]), map : Partial(Nat, AnyValue),
               iface : Seq(AnyValue) \cup {NULL}]
WrapperType == [st : {"none", "constructing", "finished", "deleted"},
                steps : Layouts \cup {<<>>, PlainSteps}, at : Nat \ {0},
                gobject : Objects \cup {NULL}, cast : Objects \cup {NULL},
                ifaces : Seq(DOMAIN IfaceProps), inits : Seq(Nat),
                val : Partial(DOMAIN Props, AnyValue)]

TypeInv ==
  /\ layout \in Layouts
  /\ klass \in ClassType
  /\ obj \in [Objects -> ObjectType]
  /\ wr \in [Wrappers -> WrapperType]
  /\ stack \in Seq(Wrappers)
  /\ last \in [Objects -> Partial(Names, AnyValue)]
  /\ notice \in {NULL} \cup (Objects \X Names)

-----------------------------------------------------------------------------
(* Functions and sequences.                                                  *)

LEMMA Empty ==
  /\ DOMAIN <<>> = {} /\ Len(<<>>) = 0 /\ Range(<<>>) = {}
  /\ \A S, T : <<>> \in Seq(S) /\ <<>> \in Partial(S, T)
  <1>1. DOMAIN <<>> = {} /\ Len(<<>>) = 0 /\ \A S : <<>> \in Seq(S)
    OBVIOUS
  <1>2. Range(<<>>) = {}
    BY <1>1 DEF Range
  <1>3. ASSUME NEW S, NEW T PROVE <<>> \in Partial(S, T)
    <2>1. <<>> \in [{} -> T]
      BY <1>1
    <2> QED  BY <2>1 DEF Partial
  <1> QED  BY <1>1, <1>2, <1>3

LEMMA PartialFacts ==
  ASSUME NEW S, NEW T, NEW f \in Partial(S, T)
  PROVE  /\ DOMAIN f \subseteq S
         /\ \A x \in DOMAIN f : f[x] \in T
         /\ \A x \in S, v \in T : Put(f, x, v) \in Partial(S, T)
         /\ \A n : Forget(f, n) \in Partial(S, T)
  <1>1. PICK D \in SUBSET S : f \in [D -> T]
    BY DEF Partial
  <1>2. ASSUME NEW x \in S, NEW v \in T PROVE Put(f, x, v) \in Partial(S, T)
    <2>1. Put(f, x, v) \in [D \cup {x} -> T]
      BY <1>1 DEF Put
    <2> QED  BY <2>1 DEF Partial
  <1>3. ASSUME NEW n PROVE Forget(f, n) \in Partial(S, T)
    <2>1. Forget(f, n) \in [D \ n -> T]
      BY <1>1 DEF Forget
    <2> QED  BY <2>1 DEF Partial
  <1> QED  BY <1>1, <1>2, <1>3

LEMMA PutFacts ==
  ASSUME NEW f, NEW x, NEW v
  PROVE  /\ DOMAIN Put(f, x, v) = DOMAIN f \cup {x} /\ Put(f, x, v)[x] = v
         /\ \A y \in DOMAIN f : y # x => Put(f, x, v)[y] = f[y]
  BY DEF Put

LEMMA ForgetFacts ==
  ASSUME NEW f, NEW n
  PROVE  DOMAIN Forget(f, n) = DOMAIN f \ n /\ \A y \in DOMAIN f \ n : Forget(f, n)[y] = f[y]
  BY DEF Forget

LEMMA AppendFacts ==
  ASSUME NEW S, NEW s \in Seq(S), NEW e \in S
  PROVE  /\ Len(s) \in Nat /\ DOMAIN s = 1 .. Len(s) /\ \A i \in 1 .. Len(s) : s[i] \in S
         /\ Append(s, e) \in Seq(S) /\ Len(Append(s, e)) = Len(s) + 1
         /\ DOMAIN Append(s, e) = 1 .. Len(s) + 1
         /\ \A i \in 1 .. Len(s) : Append(s, e)[i] = s[i]
         /\ Append(s, e)[Len(s) + 1] = e
         /\ Range(Append(s, e)) = Range(s) \cup {e}
  <1>1. /\ Len(s) \in Nat /\ DOMAIN s = 1 .. Len(s) /\ \A i \in 1 .. Len(s) : s[i] \in S
        /\ Append(s, e) \in Seq(S) /\ Len(Append(s, e)) = Len(s) + 1
        /\ DOMAIN Append(s, e) = 1 .. Len(s) + 1
        /\ \A i \in 1 .. Len(s) : Append(s, e)[i] = s[i]
        /\ Append(s, e)[Len(s) + 1] = e
    OBVIOUS
  <1>2. \A i \in 1 .. Len(s) + 1 : i \in 1 .. Len(s) \/ i = Len(s) + 1
    BY <1>1
  <1>3. Range(Append(s, e)) = Range(s) \cup {e}
    BY <1>1, <1>2 DEF Range
  <1> QED  BY <1>1, <1>3

-----------------------------------------------------------------------------
(* Orders of constructors.                                                   *)

\* How many of the first k steps construct a Glib::Property.
Ordinal(s, k) == Cardinality({j \in 1 .. k : s[j].op = "prop"})

LEMMA OrdinalNext ==
  ASSUME NEW s, NEW k \in Nat
  PROVE  /\ Ordinal(s, 0) = 0 /\ Ordinal(s, k) \in Nat
         /\ s[k + 1].op = "prop" => Ordinal(s, k + 1) = Ordinal(s, k) + 1
         /\ s[k + 1].op # "prop" => Ordinal(s, k + 1) = Ordinal(s, k)
  <1> DEFINE upto(n) == {j \in 1 .. n : s[j].op = "prop"}
  <1>1. IsFiniteSet(upto(k)) /\ Cardinality(upto(k)) \in Nat
    <2>1. IsFiniteSet(1 .. k)
      BY FS_Interval
    <2>2. IsFiniteSet(upto(k))
      BY <2>1, FS_Subset
    <2> QED  BY <2>2, FS_CardinalityType
  <1>2. upto(0) = {} /\ Cardinality({}) = 0
    BY FS_EmptySet
  <1>3. 1 .. k + 1 = (1 .. k) \cup {k + 1} /\ k + 1 \notin 1 .. k
    OBVIOUS
  <1>4. ASSUME s[k + 1].op = "prop" PROVE Ordinal(s, k + 1) = Ordinal(s, k) + 1
    <2>1. upto(k + 1) = upto(k) \cup {k + 1} /\ k + 1 \notin upto(k)
      BY <1>3, <1>4
    <2> HIDE DEF upto
    <2>2. Cardinality(upto(k + 1)) = Cardinality(upto(k)) + 1
      BY <1>1, <2>1, FS_AddElement
    <2> QED  BY <2>2 DEF Ordinal, upto
  <1>5. ASSUME s[k + 1].op # "prop" PROVE Ordinal(s, k + 1) = Ordinal(s, k)
    <2>1. upto(k + 1) = upto(k)
      BY <1>3, <1>5
    <2> QED  BY <2>1 DEF Ordinal
  <1> QED  BY <1>1, <1>2, <1>4, <1>5 DEF Ordinal

LEMMA OrdinalMonotone ==
  ASSUME NEW s, NEW j \in Nat, NEW k \in Nat, j < k
  PROVE  /\ Ordinal(s, j) <= Ordinal(s, k)
         /\ s[k].op = "prop" => Ordinal(s, j) < Ordinal(s, k) /\ Ordinal(s, k) >= 1
  <1> DEFINE upto(n) == {i \in 1 .. n : s[i].op = "prop"}
  <1>1. ASSUME NEW n \in Nat, j <= n PROVE Ordinal(s, j) <= Ordinal(s, n)
    <2>1. IsFiniteSet(1 .. n)
      BY FS_Interval
    <2>2. IsFiniteSet(upto(n)) /\ upto(j) \subseteq upto(n)
      BY <1>1, <2>1, FS_Subset
    <2> QED  BY <2>2, FS_Subset DEF Ordinal
  <1>2. k - 1 \in Nat /\ j <= k - 1 /\ k - 1 + 1 = k
    OBVIOUS
  <1>3. Ordinal(s, j) \in Nat /\ Ordinal(s, k - 1) \in Nat /\ Ordinal(s, k) \in Nat
    BY <1>2, OrdinalNext
  <1>4. s[k].op = "prop" => Ordinal(s, k) = Ordinal(s, k - 1) + 1
    BY <1>2, OrdinalNext
  <1>5. Ordinal(s, j) <= Ordinal(s, k) /\ Ordinal(s, j) <= Ordinal(s, k - 1)
    BY <1>1, <1>2
  <1> QED  BY <1>3, <1>4, <1>5

\* A layout, or the steps of a wrapper.
Ordered(s) ==
  /\ s \in Layouts \cup {PlainSteps}
  /\ Len(s) \in Nat /\ DOMAIN s = 1 .. Len(s)
  /\ \A k \in DOMAIN s : s[k].op \in {"iface", "extra", "object", "prop"}
  /\ \A k \in DOMAIN s : s[k].op = "iface" => s[k].arg \in DOMAIN IfaceProps
  /\ \A k \in DOMAIN s : s[k].op = "prop" => s[k].arg \in DOMAIN Props
  /\ \A j, k \in DOMAIN s : s[j].op = "prop" /\ s[k].op = "prop" /\ s[j].arg = s[k].arg => j = k
  /\ \E b \in DOMAIN s : /\ s[b].op = "object"
                         /\ \A k \in DOMAIN s : s[k].op = "object" => k = b
                         /\ \A k \in DOMAIN s : s[k].op = "prop" => b < k

LEMMA LayoutOrdered ==
  ASSUME NEW s \in Layouts \cup {PlainSteps}
  PROVE  Ordered(s)
  <1>1. CASE s \in Layouts
    <2>1. Len(s) \in Nat /\ DOMAIN s = 1 .. Len(s)
          /\ \A k \in DOMAIN s : s[k].op \in {"iface", "extra", "object", "prop"}
      <3> DEFINE R == [op : {"iface", "extra", "object", "prop"}, arg : {s[k].arg : k \in DOMAIN s}]
      <3>1. s \in Seq(R)
        BY <1>1, LayoutsAssumption
      <3>2. \A r \in R : r.op \in {"iface", "extra", "object", "prop"}
        OBVIOUS
      <3> HIDE DEF R
      <3>3. Len(s) \in Nat /\ DOMAIN s = 1 .. Len(s) /\ \A k \in DOMAIN s : s[k] \in R
        BY <3>1
      <3> QED  BY <3>2, <3>3
    <2>2. PICK b \in DOMAIN s : StepsOf(s, "object") = {b} /\ \A k \in StepsOf(s, "prop") : b < k
      BY <1>1, LayoutsAssumption
    <2>3. /\ \A k \in StepsOf(s, "iface") : s[k].arg \in DOMAIN IfaceProps
          /\ \A k \in StepsOf(s, "prop") : s[k].arg \in DOMAIN Props
          /\ \A j, k \in StepsOf(s, "prop") : s[j].arg = s[k].arg => j = k
      BY <1>1, LayoutsAssumption
    <2> QED  BY <1>1, <2>1, <2>2, <2>3 DEF Ordered, StepsOf
  <1>2. CASE s = PlainSteps
    <2>1. DOMAIN s = {1} /\ Len(s) = 1 /\ s[1].op = "object"
      BY <1>2 DEF PlainSteps
    <2> QED  BY <1>2, <2>1 DEF Ordered
  <1> QED  BY <1>1, <1>2

-----------------------------------------------------------------------------
(* The inductive invariant.                                                  *)

Live(w) == wr[w].st \in {"constructing", "finished"}

\* The steps of a wrapper that have been done.
Done(w) == 1 .. wr[w].at - 1

\* A wrapper has got as far as its steps say: until its Glib::Object it collects
\* interfaces and class init functions, then it has a GObject, whose vector has its
\* members in their order.
Collects(w) ==
  /\ \A k \in Done(w) : wr[w].steps[k].op # "object"
  /\ Range(wr[w].ifaces) = {wr[w].steps[k].arg : k \in {j \in Done(w) : wr[w].steps[j].op = "iface"}}
  /\ Range(wr[w].inits) = {k \in Done(w) : wr[w].steps[k].op = "extra"}
  /\ \A i, j \in DOMAIN wr[w].inits : i < j => wr[w].inits[i] < wr[w].inits[j]

WaitsForCast(w) ==
  wr[w].cast # NULL => /\ Alive(wr[w].cast) /\ obj[wr[w].cast].wrapper = NULL
                       /\ obj[wr[w].cast].base = <<>>
                       /\ \A x \in Wrappers : Live(x) /\ wr[x].gobject = NULL
                                              /\ wr[x].cast = wr[w].cast => x = w

HasObject(w) ==
  /\ Alive(wr[w].gobject) /\ obj[wr[w].gobject].wrapper = w
  /\ \E k \in Done(w) : wr[w].steps[k].op = "object"
  /\ \A k \in Done(w) : wr[w].steps[k].op = "iface" => wr[w].steps[k].arg \in klass.ifaces

HasMembers(w) ==
  LET base == obj[wr[w].gobject].base
  IN  /\ Len(base) = Ordinal(wr[w].steps, wr[w].at - 1)
      /\ \A k \in Done(w) : wr[w].steps[k].op = "prop" =>
            base[Ordinal(wr[w].steps, k)] = [w |-> w, p |-> wr[w].steps[k].arg]
      /\ \A i \in DOMAIN base : base[i].w = w /\ base[i].p \in DOMAIN wr[w].val

WrapperInv(w) ==
  /\ wr[w].st = "none" => wr[w] = NoWrapper
  /\ wr[w].st = "deleted" => wr[w].gobject = NULL /\ wr[w].val = <<>>
  /\ Live(w) =>
       /\ wr[w].steps = layout \/ wr[w].steps = PlainSteps
       /\ wr[w].cast = NULL => wr[w].steps = layout
       /\ wr[w].at - 1 <= Len(wr[w].steps)
       /\ wr[w].st = "constructing" <=> wr[w].at <= Len(wr[w].steps)
       /\ DOMAIN wr[w].val = {wr[w].steps[k].arg : k \in {j \in Done(w) : wr[w].steps[j].op = "prop"}}
       /\ \A p \in DOMAIN wr[w].val : p \in DOMAIN klass.spec
       /\ wr[w].gobject = NULL => Collects(w) /\ WaitsForCast(w)
       /\ wr[w].gobject # NULL => HasObject(w) /\ HasMembers(w)

\* The constructors under way, the innermost first.
StackInv ==
  /\ \A i \in DOMAIN stack : wr[stack[i]].st = "constructing"
  /\ \A i, j \in DOMAIN stack : stack[i] = stack[j] => i = j
  /\ \A w \in Wrappers : wr[w].st = "constructing" => \E i \in DOMAIN stack : stack[i] = w

ObjectInv(o) ==
  /\ obj[o].st = "none" => obj[o] = NoObject
  /\ ~Alive(o) => obj[o].wrapper = NULL /\ obj[o].iface = NULL /\ DOMAIN last[o] = {}
  /\ Alive(o) => klass.registered
  /\ obj[o].wrapper # NULL => Live(obj[o].wrapper) /\ wr[obj[o].wrapper].gobject = o
  /\ obj[o].iface # NULL => Len(obj[o].iface) = IfaceSize(klass) /\ IfaceSize(klass) > 0

\* The numbers of the class: those of interface properties first, then those of the
\* members in their order, which there are only when it has all its interfaces.
NumbersInv ==
  /\ DOMAIN klass.spec \subseteq IfaceNames \cup {layout[k].arg : k \in StepsOf(layout, "prop")}
  /\ \A n \in DOMAIN klass.spec \cap IfaceNames : klass.spec[n] <= IfaceSize(klass)
  /\ \A m, n \in DOMAIN klass.spec \cap IfaceNames : klass.spec[m] = klass.spec[n] => m = n
  /\ \A k \in StepsOf(layout, "prop") : layout[k].arg \in DOMAIN klass.spec =>
        klass.spec[layout[k].arg] = IfaceSize(klass) + Ordinal(layout, k)
  /\ DOMAIN klass.spec \cap DOMAIN Props # {} =>
        \A k \in StepsOf(layout, "iface") : layout[k].arg \in klass.ifaces

ClassInv ==
  /\ ~klass.registered => klass = NoClass
  /\ klass.registered =>
       \A k \in StepsOf(layout, "iface"), b \in StepsOf(layout, "object") :
          k < b => layout[k].arg \in klass.ifaces
  /\ klass.ifaces \subseteq {layout[k].arg : k \in StepsOf(layout, "iface")}
  /\ klass.ifaces = {} => IfaceSize(klass) = 0
  /\ ClassInitOnce

\* Where the last value of a property is: in the object's interface values, in the
\* wrapper, or in the map as long as the wrapper does not have the member.
Holds(o, n) == obj[o].wrapper # NULL /\ n \in DOMAIN wr[obj[o].wrapper].val

LastInv ==
  \A o \in Objects : \A n \in DOMAIN last[o] :
    /\ n \in DOMAIN klass.spec
    /\ n \in IfaceNames => obj[o].iface # NULL /\ obj[o].iface[klass.spec[n]] = last[o][n]
    /\ n \in DOMAIN Props =>
         IF Holds(o, n) THEN wr[obj[o].wrapper].val[n] = last[o][n]
         ELSE index(n) \in DOMAIN obj[o].map /\ obj[o].map[index(n)] = last[o][n]

IInv ==
  /\ TypeInv
  /\ \A w \in Wrappers : WrapperInv(w)
  /\ StackInv
  /\ \A o \in Objects : ObjectInv(o)
  /\ NumbersInv
  /\ ClassInv
  /\ LastInv

-----------------------------------------------------------------------------
(* What the invariant says of numbers and values.                            *)

LEMMA Layout ==
  ASSUME TypeInv
  PROVE  /\ Ordered(layout) /\ IfaceSize(klass) \in Nat
         /\ \A op : StepsOf(layout, op) = {k \in DOMAIN layout : layout[k].op = op}
         /\ DOMAIN klass.spec \subseteq Names /\ \A n \in DOMAIN klass.spec : klass.spec[n] \in Nat \ {0}
  <1>1. klass.defaults \in Seq(AnyValue) /\ klass.spec \in Partial(Names, Nat \ {0})
    BY DEF TypeInv, ClassType
  <1>2. DOMAIN klass.spec \subseteq Names /\ \A n \in DOMAIN klass.spec : klass.spec[n] \in Nat \ {0}
    BY <1>1, PartialFacts
  <1> QED  BY <1>1, <1>2, LayoutOrdered DEF TypeInv, IfaceSize, StepsOf

\* The types of one object and one wrapper.
LEMMA Types ==
  ASSUME TypeInv
  PROVE  /\ \A o \in Objects :
              /\ obj[o] \in ObjectType /\ obj[o].wrapper \in Wrappers \cup {NULL}
              /\ obj[o].st \in {"none", "alive", "gone"}
              /\ obj[o].base \in Seq([w : Wrappers, p : DOMAIN Props])
              /\ obj[o].map \in Partial(Nat, AnyValue)
              /\ obj[o].iface \in Seq(AnyValue) \cup {NULL}
              /\ last[o] \in Partial(Names, AnyValue)
         /\ \A w \in Wrappers :
              /\ wr[w] \in WrapperType
              /\ wr[w].st \in {"none", "constructing", "finished", "deleted"}
              /\ wr[w].steps \in Layouts \cup {<<>>, PlainSteps} /\ wr[w].at \in Nat \ {0}
              /\ wr[w].gobject \in Objects \cup {NULL} /\ wr[w].cast \in Objects \cup {NULL}
              /\ wr[w].ifaces \in Seq(DOMAIN IfaceProps) /\ wr[w].inits \in Seq(Nat)
              /\ wr[w].val \in Partial(DOMAIN Props, AnyValue)
  BY DEF TypeInv, ObjectType, WrapperType

\* The steps of a wrapper that is constructed; those with members are the layout.
LEMMA StepsOrdered ==
  ASSUME IInv, NEW w \in Wrappers, Live(w)
  PROVE  /\ Ordered(wr[w].steps) /\ wr[w].at \in Nat \ {0}
         /\ Done(w) \subseteq DOMAIN wr[w].steps
         /\ wr[w].steps = layout \/ wr[w].steps = PlainSteps
         /\ \A k \in DOMAIN wr[w].steps : wr[w].steps[k].op # "object" => wr[w].steps = layout
  <1>1. /\ wr[w].steps = layout \/ wr[w].steps = PlainSteps
        /\ wr[w].at \in Nat \ {0} /\ wr[w].at - 1 <= Len(wr[w].steps)
    BY Types DEF IInv, WrapperInv
  <1>2. Ordered(wr[w].steps)
    BY <1>1, LayoutOrdered DEF IInv, TypeInv
  <1>3. Done(w) \subseteq DOMAIN wr[w].steps
    BY <1>1, <1>2 DEF Done, Ordered
  <1>4. \A k \in DOMAIN PlainSteps : PlainSteps[k].op = "object"
    BY DEF PlainSteps
  <1> QED  BY <1>1, <1>2, <1>3, <1>4

\* The number of a member is its place after those of the interfaces.
LEMMA MemberNumbers ==
  ASSUME IInv, NEW n \in DOMAIN klass.spec
  PROVE  /\ n \in IfaceNames => ~(n \in DOMAIN Props) /\ IsIface(n)
         /\ n \in DOMAIN Props =>
              /\ ~IsIface(n) /\ index(n) \in Nat \ {0}
              /\ \E k \in DOMAIN layout : layout[k].op = "prop" /\ layout[k].arg = n
                                          /\ index(n) = Ordinal(layout, k)
         /\ n \in IfaceNames \/ n \in DOMAIN Props
  <1>1. /\ TypeInv /\ Ordered(layout) /\ IfaceSize(klass) \in Nat /\ klass.spec[n] \in Nat \ {0}
        /\ n \in IfaceNames \/ n \in DOMAIN Props
    BY Layout DEF IInv, Names
  <1>2. n \in IfaceNames => ~(n \in DOMAIN Props) /\ IsIface(n)
    BY NamesAssumption DEF IInv, NumbersInv, IsIface
  <1>3. ASSUME n \in DOMAIN Props
        PROVE  /\ ~IsIface(n) /\ index(n) \in Nat \ {0}
               /\ \E k \in DOMAIN layout : layout[k].op = "prop" /\ layout[k].arg = n
                                           /\ index(n) = Ordinal(layout, k)
    <2>1. n \notin IfaceNames
      BY <1>3, NamesAssumption
    <2>2. PICK k \in StepsOf(layout, "prop") : layout[k].arg = n
      BY <2>1 DEF IInv, NumbersInv
    <2>3. klass.spec[n] = IfaceSize(klass) + Ordinal(layout, k)
      BY <2>2 DEF IInv, NumbersInv
    <2>4. k \in DOMAIN layout /\ layout[k].op = "prop" /\ k \in Nat /\ 0 < k
      BY <1>1, <2>2 DEF StepsOf, Ordered
    <2>5. Ordinal(layout, k) \in Nat /\ Ordinal(layout, k) >= 1
      BY <2>4, OrdinalNext, OrdinalMonotone
    <2> QED  BY <1>1, <2>2, <2>3, <2>4, <2>5 DEF IsIface, index
  <1> QED  BY <1>1, <1>2, <1>3

\* The members of a wrapper are found by their numbers.
LEMMA MembersFound ==
  ASSUME IInv, NEW w \in Wrappers, NEW p \in DOMAIN wr[w].val
  PROVE  /\ Live(w) /\ wr[w].gobject \in Objects /\ Alive(wr[w].gobject)
         /\ obj[wr[w].gobject].wrapper = w
         /\ p \in DOMAIN Props /\ p \in DOMAIN klass.spec /\ ~IsIface(p)
         /\ index(p) \in DOMAIN obj[wr[w].gobject].base
         /\ obj[wr[w].gobject].base[index(p)] = [w |-> w, p |-> p]
  <1>1. TypeInv /\ WrapperInv(w)
    BY DEF IInv
  <1>2. Live(w)
    <2>1. wr[w].st \in {"none", "deleted"} => wr[w].val = <<>>
      BY <1>1 DEF WrapperInv, NoWrapper
    <2> QED  BY <1>1, <2>1, Empty, Types DEF Live
  <1>3. PICK k \in Done(w) : wr[w].steps[k].op = "prop" /\ wr[w].steps[k].arg = p
    BY <1>1, <1>2 DEF WrapperInv
  <1>4. /\ Ordered(wr[w].steps) /\ wr[w].at \in Nat \ {0} /\ k \in DOMAIN wr[w].steps
        /\ wr[w].steps = layout
    BY <1>2, <1>3, StepsOrdered
  <1>5. wr[w].gobject # NULL
    <2>1. PICK b \in DOMAIN layout : layout[b].op = "object" /\ b < k
      BY <1>3, <1>4 DEF Ordered
    <2>2. b \in Done(w)
      BY <1>3, <1>4, <2>1 DEF Done, Ordered
    <2> QED  BY <1>1, <1>2, <1>4, <2>1, <2>2 DEF WrapperInv, Collects
  <1>6. wr[w].gobject \in Objects /\ HasObject(w) /\ HasMembers(w) /\ p \in DOMAIN klass.spec
    BY <1>1, <1>2, <1>5, Types DEF WrapperInv
  <1>7. k \in DOMAIN layout /\ layout[k].op = "prop" /\ layout[k].arg = p /\ p \in DOMAIN Props
    BY <1>3, <1>4 DEF Ordered
  <1>8. ~IsIface(p) /\ index(p) = Ordinal(layout, k)
    <2>1. PICK j \in DOMAIN layout : layout[j].op = "prop" /\ layout[j].arg = p
                                     /\ index(p) = Ordinal(layout, j)
      BY <1>6, <1>7, MemberNumbers
    <2>2. j = k
      BY <1>4, <1>7, <2>1 DEF Ordered
    <2> QED  BY <1>6, <1>7, <2>1, <2>2, MemberNumbers
  <1>9. index(p) \in DOMAIN obj[wr[w].gobject].base
    <2>1. k \in Nat /\ wr[w].at - 1 \in Nat /\ k <= wr[w].at - 1 /\ 0 < k
      BY <1>3, <1>4 DEF Done
    <2>2. /\ Ordinal(layout, k) \in Nat /\ Ordinal(layout, k) >= 1
          /\ Ordinal(layout, k) <= Ordinal(layout, wr[w].at - 1)
      <3>1. k = wr[w].at - 1 \/ k < wr[w].at - 1
        BY <2>1
      <3>2. Ordinal(layout, k) \in Nat /\ Ordinal(layout, k) >= 1
        BY <1>7, <2>1, OrdinalNext, OrdinalMonotone
      <3> QED  BY <2>1, <3>1, <3>2, OrdinalMonotone
    <2>3. obj[wr[w].gobject].base \in Seq([w : Wrappers, p : DOMAIN Props])
      BY <1>1, <1>6, Types
    <2>4. Len(obj[wr[w].gobject].base) = Ordinal(layout, wr[w].at - 1)
      BY <1>4, <1>6 DEF HasMembers
    <2> QED  BY <1>8, <2>2, <2>3, <2>4
  <1>10. obj[wr[w].gobject].base[index(p)] = [w |-> w, p |-> p]
    BY <1>3, <1>4, <1>6, <1>8 DEF HasMembers
  <1> QED  BY <1>2, <1>6, <1>7, <1>8, <1>9, <1>10 DEF HasObject

\* What a reader sees.
Seen(o, n) ==
  IF n \in IfaceNames
  THEN IF obj[o].iface = NULL THEN klass.defaults[klass.spec[n]] ELSE obj[o].iface[klass.spec[n]]
  ELSE IF obj[o].wrapper # NULL
  THEN IF Holds(o, n) THEN wr[obj[o].wrapper].val[n] ELSE "warning"
  ELSE IF index(n) \in DOMAIN obj[o].map THEN obj[o].map[index(n)] ELSE Default(n)

LEMMA ReaderSees ==
  ASSUME IInv, NEW o \in Objects, Alive(o), NEW n \in DOMAIN klass.spec
  PROVE  /\ glibmm_custom_get_property_callback(o, n) = Seen(o, n)
         /\ Seen(o, n) \in AnyValue \cup {"warning"}
         /\ n \in DOMAIN Props /\ obj[o].wrapper # NULL => (Found(o, n) <=> Holds(o, n))
  <1>1. TypeInv /\ ObjectInv(o) /\ NumbersInv /\ IfaceSize(klass) \in Nat
        /\ klass.spec[n] \in Nat \ {0}
    BY Layout DEF IInv
  <1>2. CASE n \in IfaceNames
    <2>1. IsIface(n) /\ klass.spec[n] <= IfaceSize(klass) /\ n \notin DOMAIN Props
      BY <1>2, MemberNumbers DEF IsIface
    <2>2. klass.defaults \in Seq(AnyValue) /\ klass.spec[n] \in DOMAIN klass.defaults
      BY <1>1, <2>1 DEF TypeInv, ClassType, IfaceSize
    <2>3. obj[o].iface # NULL => obj[o].iface \in Seq(AnyValue) /\ klass.spec[n] \in DOMAIN obj[o].iface
      BY <1>1, <2>1, Types DEF ObjectInv
    <2>4. klass.defaults[klass.spec[n]] \in AnyValue
      BY <2>2
    <2>5. obj[o].iface # NULL => obj[o].iface[klass.spec[n]] \in AnyValue
      BY <2>3
    <2> QED  BY <1>2, <2>1, <2>3, <2>4, <2>5 DEF glibmm_custom_get_property_callback, Seen
  <1>3. CASE n \in DOMAIN Props /\ obj[o].wrapper = NULL
    <2>1. ~IsIface(n) /\ n \notin IfaceNames
      BY <1>3, MemberNumbers, NamesAssumption
    <2>2. Default(n) \in AnyValue
      BY <1>3, NamesAssumption DEF Default
    <2>3. index(n) \in DOMAIN obj[o].map => obj[o].map[index(n)] \in AnyValue
      BY <1>1, Types, PartialFacts
    <2> QED  BY <1>3, <2>1, <2>2, <2>3 DEF glibmm_custom_get_property_callback, Seen
  <1>4. CASE n \in DOMAIN Props /\ obj[o].wrapper # NULL
    <2> DEFINE w == obj[o].wrapper
    <2>1. ~IsIface(n) /\ n \notin IfaceNames
      BY <1>4, MemberNumbers, NamesAssumption
    <2>2. w \in Wrappers /\ Live(w) /\ wr[w].gobject = o /\ wr[w].gobject # NULL
      BY <1>1, <1>4, Types, NullAssumption DEF ObjectInv
    <2>3. HasMembers(w)
      BY <2>2 DEF IInv, WrapperInv
    <2>4. obj[o].base \in Seq([w : Wrappers, p : DOMAIN Props])
      BY <1>1, Types
    <2>5. \/ Entry(o, n) = NULL
          \/ Entry(o, n).w = w /\ Entry(o, n).p \in DOMAIN wr[w].val
      BY <2>2, <2>3 DEF Entry, HasMembers
    <2>6. ~Dangles(o, n)
      BY <2>2, <2>5 DEF Dangles, Live
    <2>7. ASSUME Found(o, n) PROVE Holds(o, n)
      <3>1. Entry(o, n) = [w |-> w, p |-> n]
        BY <2>7 DEF Found
      <3>2. Entry(o, n) \in [w : Wrappers, p : DOMAIN Props] /\ Entry(o, n).p = n
        BY <1>4, <2>2, <3>1
      <3>3. Entry(o, n) # NULL
        BY <3>2, NullAssumption
      <3> QED  BY <1>4, <2>5, <3>2, <3>3 DEF Holds
    <2>8. ASSUME Holds(o, n) PROVE Found(o, n)
      BY <2>2, <2>8, MembersFound DEF Found, Entry, Holds
    <2>9. Holds(o, n) => wr[w].val[n] \in AnyValue
      BY <1>1, <2>2, Types, PartialFacts DEF Holds
    <2> QED  BY <1>4, <2>1, <2>6, <2>7, <2>8, <2>9
             DEF glibmm_custom_get_property_callback, Seen
  <1> QED  BY <1>2, <1>3, <1>4, MemberNumbers

-----------------------------------------------------------------------------
(* The invariant implies the properties.                                     *)

LEMMA InvTypeOK == IInv => TypeOK
  <1> SUFFICES ASSUME IInv PROVE TypeOK
    OBVIOUS
  <1>1. TypeInv
    BY DEF IInv
  <1>2. klass \in ClassType
    BY <1>1 DEF TypeInv
  <1>3. klass.registered \in BOOLEAN
    BY <1>2, Zenon DEF ClassType
  <1>4. klass.ifaces \subseteq DOMAIN IfaceProps /\ klass.defaults \in Seq(AnyValue)
    BY <1>2 DEF ClassType
  <1>5. /\ DOMAIN klass.spec \subseteq DOMAIN Props \cup IfaceNames
        /\ \A n \in DOMAIN klass.spec : klass.spec[n] \in Nat \ {0}
    BY <1>1, Layout DEF Names
  <1>6. ASSUME NEW o \in Objects
        PROVE  /\ obj[o].st \in {"none", "alive", "gone"}
               /\ obj[o].wrapper \in Wrappers \cup {NULL}
               /\ \A k \in DOMAIN obj[o].base : obj[o].base[k] \in [w : Wrappers, p : DOMAIN Props]
               /\ \A k \in DOMAIN obj[o].map : k \in Nat /\ obj[o].map[k] \in AnyValue
               /\ obj[o].iface # NULL => obj[o].iface \in Seq(AnyValue)
    <2>1. obj[o].map \in Partial(Nat, AnyValue)
      BY <1>1, Types
    <2>2. \A k \in DOMAIN obj[o].map : k \in Nat /\ obj[o].map[k] \in AnyValue
      BY <2>1, PartialFacts
    <2> DEFINE R == [w : Wrappers, p : DOMAIN Props]
    <2>3. obj[o].base \in Seq(R)
      BY <1>1, Types
    <2> HIDE DEF R
    <2>4. \A k \in DOMAIN obj[o].base : obj[o].base[k] \in R
      BY <2>3
    <2> QED  BY <1>1, <2>2, <2>4, Types DEF R
  <1>7. ASSUME NEW w \in Wrappers
        PROVE  /\ wr[w].st \in {"none", "constructing", "finished", "deleted"}
               /\ wr[w].gobject \in Objects \cup {NULL}
               /\ \A p \in DOMAIN wr[w].val : p \in DOMAIN Props /\ wr[w].val[p] \in AnyValue
    <2>1. wr[w].val \in Partial(DOMAIN Props, AnyValue)
      BY <1>1, Types
    <2>2. \A p \in DOMAIN wr[w].val : p \in DOMAIN Props /\ wr[w].val[p] \in AnyValue
      BY <2>1, PartialFacts
    <2> QED  BY <1>1, <2>2, Types
  <1>8. /\ layout \in Layouts /\ stack \in Seq(Wrappers)
        /\ notice \in {NULL} \cup (Objects \X (DOMAIN Props \cup IfaceNames))
    BY <1>1 DEF TypeInv, Names
  <1> QED  BY <1>3, <1>4, <1>5, <1>6, <1>7, <1>8 DEF TypeOK

LEMMA InvIdFindsProperty == IInv => IdFindsProperty
  <1> SUFFICES ASSUME IInv, NEW w \in Wrappers, NEW p \in DOMAIN wr[w].val
      PROVE  ~IsIface(p) /\ Found(wr[w].gobject, p)
    BY DEF IdFindsProperty
  <1> DEFINE o == wr[w].gobject
  <1>1. /\ obj[o].wrapper = w /\ ~IsIface(p) /\ index(p) \in DOMAIN obj[o].base
        /\ obj[o].base[index(p)] = [w |-> w, p |-> p]
    BY MembersFound
  <1> HIDE DEF o
  <1>2. Found(o, p)
    BY <1>1 DEF Found, Entry
  <1> QED  BY <1>1, <1>2 DEF o

LEMMA InvReadsLastWrite == IInv => ReadsLastWrite
  <1> SUFFICES ASSUME IInv PROVE ReadsLastWrite
    OBVIOUS
  <1>1. ASSUME NEW o \in Objects, NEW n \in DOMAIN last[o]
        PROVE  glibmm_custom_get_property_callback(o, n) \in {last[o][n], "warning"}
    <2>1. Alive(o) /\ n \in DOMAIN klass.spec
      BY <1>1 DEF IInv, ObjectInv, LastInv
    <2>2. glibmm_custom_get_property_callback(o, n) = Seen(o, n)
      BY <2>1, ReaderSees
    <2>3. n \in IfaceNames \/ (n \in DOMAIN Props /\ n \notin IfaceNames)
      BY <2>1, MemberNumbers
    <2> QED  BY <1>1, <2>2, <2>3 DEF Seen, IInv, LastInv, Holds
  <1>2. ASSUME NEW w \in Wrappers, NEW p \in DOMAIN wr[w].val, p \in DOMAIN last[wr[w].gobject]
        PROVE  get_value(w, p) = last[wr[w].gobject][p]
    <2> DEFINE o == wr[w].gobject
    <2>1. o \in Objects /\ obj[o].wrapper = w /\ p \in DOMAIN Props
      BY <1>2, MembersFound
    <2> HIDE DEF o
    <2>2. Holds(o, p)
      BY <1>2, <2>1, NullAssumption DEF Holds
    <2>3. p \in DOMAIN last[o]
      BY <1>2 DEF o
    <2>4. wr[obj[o].wrapper].val[p] = last[o][p]
      BY <2>1, <2>2, <2>3 DEF IInv, LastInv
    <2> QED  BY <2>1, <2>4 DEF get_value, o
  <1> QED  BY <1>1, <1>2 DEF ReadsLastWrite

LEMMA InvClassInitOnce == IInv => ClassInitOnce
  BY DEF IInv, ClassInv

LEMMA InitInv == Init => IInv
  <1> SUFFICES ASSUME Init PROVE IInv
    OBVIOUS
  <1>1. /\ layout \in Layouts /\ klass = NoClass /\ stack = <<>> /\ notice = NULL
        /\ \A o \in Objects : obj[o] = NoObject /\ last[o] = <<>>
        /\ \A w \in Wrappers : wr[w] = NoWrapper
    BY DEF Init
  <1>2. TypeInv
    <2>1. NoClass \in ClassType
      <3>1. <<>> \in Partial(Names, Nat \ {0}) /\ <<>> \in Seq(AnyValue) /\ <<>> \in Seq(Nat)
        BY Empty
      <3> QED  BY <3>1 DEF NoClass, ClassType
    <2>2. NoObject \in ObjectType
      BY Empty DEF NoObject, ObjectType
    <2>3. NoWrapper \in WrapperType
      BY Empty DEF NoWrapper, WrapperType
    <2>4. \A o \in Objects : <<>> \in Partial(Names, AnyValue)
      BY Empty
    <2> QED  BY <1>1, <2>1, <2>2, <2>3, <2>4, Empty DEF Init, TypeInv
  <1>3. \A w \in Wrappers : WrapperInv(w)
    BY <1>1 DEF WrapperInv, NoWrapper, Live
  <1>4. StackInv
    BY <1>1, Empty DEF StackInv, NoWrapper
  <1>5. \A o \in Objects : ObjectInv(o)
    BY <1>1, Empty DEF ObjectInv, NoObject, Alive
  <1>6. NumbersInv
    BY <1>1, Empty DEF NumbersInv, NoClass
  <1>7. ClassInv
    BY <1>1, Empty DEF ClassInv, NoClass, ClassInitOnce, IfaceSize
  <1>8. LastInv
    BY <1>1, Empty DEF LastInv
  <1> QED  BY <1>2, <1>3, <1>4, <1>5, <1>6, <1>7, <1>8 DEF IInv

-----------------------------------------------------------------------------
(* What a step leaves as it is.                                              *)

SameObject(o) == obj'[o].st = obj[o].st /\ obj'[o].wrapper = obj[o].wrapper /\ obj'[o].base = obj[o].base

\* All of a wrapper but the values of its members.
SameWrapper(w) ==
  /\ wr'[w].st = wr[w].st /\ wr'[w].steps = wr[w].steps /\ wr'[w].at = wr[w].at
  /\ wr'[w].gobject = wr[w].gobject /\ wr'[w].cast = wr[w].cast
  /\ wr'[w].ifaces = wr[w].ifaces /\ wr'[w].inits = wr[w].inits
  /\ DOMAIN wr'[w].val = DOMAIN wr[w].val
  /\ ~Live(w) => wr'[w] = wr[w]

ClassGrows == DOMAIN klass.spec \subseteq DOMAIN klass'.spec /\ klass.ifaces \subseteq klass'.ifaces

\* No other wrapper waits for the GObject that w waits for.
WaitsAlone(w) ==
  \A x \in Wrappers : Live(x) /\ wr[x].gobject = NULL /\ wr[x].cast = wr[w].cast => x = w

LEMMA WrapperFrame ==
  ASSUME NEW w \in Wrappers, WrapperInv(w), SameWrapper(w), layout' = layout, ClassGrows,
         Live(w) /\ wr[w].gobject # NULL => SameObject(wr[w].gobject),
         Live(w) /\ wr[w].gobject = NULL /\ wr[w].cast # NULL =>
            SameObject(wr[w].cast) /\ WaitsAlone(w)'
  PROVE  WrapperInv(w)'
  <1>1. CASE ~Live(w)
    <2>1. wr'[w] = wr[w]
      BY <1>1 DEF SameWrapper
    <2> QED  BY <1>1, <2>1 DEF WrapperInv, Live
  <1>2. CASE Live(w)
    <2>1. Live(w)' /\ wr'[w].st # "none" /\ wr'[w].st # "deleted" /\ Done(w)' = Done(w)
      BY <1>2 DEF SameWrapper, Live, Done
    <2>2. Collects(w) => Collects(w)'
      BY <2>1 DEF SameWrapper, Collects
    <2>3. wr[w].gobject = NULL /\ WaitsForCast(w) => WaitsForCast(w)'
      BY <1>2 DEF SameWrapper, WaitsForCast, WaitsAlone, SameObject, Alive
    <2>4. wr[w].gobject # NULL /\ HasObject(w) => HasObject(w)'
      BY SMTT(30), <1>2, <2>1 DEF SameWrapper, HasObject, SameObject, Alive, ClassGrows
    <2>5. wr[w].gobject # NULL /\ HasMembers(w) => HasMembers(w)'
      BY <1>2, <2>1 DEF SameWrapper, HasMembers, SameObject
    <2> QED  BY <1>2, <2>1, <2>2, <2>3, <2>4, <2>5 DEF SameWrapper, WrapperInv, ClassGrows
  <1> QED  BY <1>1, <1>2

LEMMA ObjectFrame ==
  ASSUME NEW o \in Objects, ObjectInv(o), obj'[o] = obj[o], last'[o] = last[o],
         klass.registered => klass'.registered,
         Alive(o) => IfaceSize(klass') = IfaceSize(klass),
         obj[o].wrapper # NULL => SameWrapper(obj[o].wrapper)
  PROVE  ObjectInv(o)'
  BY DEF ObjectInv, Alive, SameWrapper, Live

\* The part of LastInv for one object.
LastOf(o) ==
  \A n \in DOMAIN last[o] :
    /\ n \in DOMAIN klass.spec
    /\ n \in IfaceNames => obj[o].iface # NULL /\ obj[o].iface[klass.spec[n]] = last[o][n]
    /\ n \in DOMAIN Props =>
         IF Holds(o, n) THEN wr[obj[o].wrapper].val[n] = last[o][n]
         ELSE index(n) \in DOMAIN obj[o].map /\ obj[o].map[index(n)] = last[o][n]

LEMMA LastFrame ==
  ASSUME NEW o \in Objects, LastOf(o), obj'[o] = obj[o], last'[o] = last[o],
         \A n \in DOMAIN klass.spec :
            n \in DOMAIN klass'.spec /\ klass'.spec[n] = klass.spec[n],
         DOMAIN last[o] = {} \/ IfaceSize(klass') = IfaceSize(klass),
         obj[o].wrapper # NULL => wr'[obj[o].wrapper].val = wr[obj[o].wrapper].val
  PROVE  LastOf(o)'
  <1>1. \A n \in DOMAIN last[o] : index(n)' = index(n)
    BY DEF index, LastOf
  <1>2. \A n : Holds(o, n)' <=> Holds(o, n)
    BY DEF Holds
  <1> QED  BY <1>1, <1>2 DEF LastOf, Holds

\* What a reader sees of an object changes only with a notification.
Quiet(o) ==
  Alive(o) /\ Alive(o)' /\ obj[o].wrapper' = obj[o].wrapper /\ obj[o].base' = obj[o].base
  => \A n \in DOMAIN klass.spec : Seen(o, n)' = Seen(o, n) \/ notice' = <<o, n>>

LEMMA QuietFrame ==
  ASSUME NEW o \in Objects, obj'[o] = obj[o],
         \A n \in DOMAIN klass.spec :
            n \in DOMAIN klass'.spec /\ klass'.spec[n] = klass.spec[n],
         \A n \in DOMAIN klass.spec :
            klass'.defaults[klass.spec[n]] = klass.defaults[klass.spec[n]],
         DOMAIN klass.spec = {} \/ IfaceSize(klass') = IfaceSize(klass),
         obj[o].wrapper # NULL => wr'[obj[o].wrapper].val = wr[obj[o].wrapper].val
  PROVE  Quiet(o)
  <1>1. \A n \in DOMAIN klass.spec : index(n)' = index(n)
    BY DEF index
  <1>2. \A n : Holds(o, n)' <=> Holds(o, n)
    BY DEF Holds
  <1>3. \A n \in DOMAIN klass.spec : Seen(o, n)' = Seen(o, n)
    <2> TAKE n \in DOMAIN klass.spec
    <2>1. obj'[o].wrapper = obj[o].wrapper /\ obj'[o].iface = obj[o].iface /\ obj'[o].map = obj[o].map
      OBVIOUS
    <2> QED  BY <1>1, <1>2, <2>1 DEF Seen, Holds
  <1> QED  BY <1>3 DEF Quiet

-----------------------------------------------------------------------------
(* Steps that set a value.                                                   *)

LEMMA ValueFrame ==
  ASSUME IInv, NEW o \in Objects, Alive(o), NEW n \in DOMAIN klass.spec, NEW v \in AnyValue,
         UNCHANGED <<layout, klass, stack>>, Accepted(o, n, v),
         obj' \in [Objects -> ObjectType], wr' \in [Wrappers -> WrapperType],
         \A w \in Wrappers : SameWrapper(w), SameObject(o),
         \A x \in Objects \ {o} :
            /\ obj'[x] = obj[x]
            /\ obj[x].wrapper # NULL => wr'[obj[x].wrapper].val = wr[obj[x].wrapper].val,
         obj'[o].iface # NULL => Len(obj'[o].iface) = IfaceSize(klass) /\ IfaceSize(klass) > 0,
         LastOf(o)',
         \A m \in DOMAIN klass.spec \ {n} : Seen(o, m)' = Seen(o, m)
  PROVE  IInv' /\ \A x \in Objects : Quiet(x)
  <1>1. layout' = layout /\ klass' = klass /\ stack' = stack /\ notice' = <<o, n>>
    BY DEF Accepted
  <1>2. n \in Names
    BY Layout DEF IInv
  <1>3. last' \in [Objects -> Partial(Names, AnyValue)]
        /\ \A x \in Objects \ {o} : last'[x] = last[x]
    <2>1. last[o] \in Partial(Names, AnyValue)
      BY Types DEF IInv
    <2>2. Put(last[o], n, v) \in Partial(Names, AnyValue)
      BY <1>2, <2>1, PartialFacts
    <2> QED  BY <2>2 DEF Accepted, IInv, TypeInv
  <1>4. TypeInv'
    BY <1>1, <1>2, <1>3 DEF IInv, TypeInv
  <1>5. ASSUME NEW x \in Objects PROVE SameObject(x)
    BY DEF SameObject
  <1>6. ASSUME NEW w \in Wrappers PROVE WrapperInv(w)'
    <2>1. WrapperInv(w) /\ SameWrapper(w) /\ ClassGrows
      BY <1>1 DEF IInv, ClassGrows
    <2>2. Live(w) /\ wr[w].gobject # NULL => SameObject(wr[w].gobject)
      BY <1>5, Types DEF IInv
    <2>3. Live(w) /\ wr[w].gobject = NULL /\ wr[w].cast # NULL =>
             SameObject(wr[w].cast) /\ WaitsAlone(w)'
      <3>1. SUFFICES ASSUME Live(w), wr[w].gobject = NULL, wr[w].cast # NULL
                     PROVE  SameObject(wr[w].cast) /\ WaitsAlone(w)'
        OBVIOUS
      <3>2. SameObject(wr[w].cast)
        BY <1>5, <3>1, Types DEF IInv
      <3>3. WaitsAlone(w)
        BY <2>1, <3>1 DEF WrapperInv, WaitsForCast, WaitsAlone
      <3>4. WaitsAlone(w)'
        BY <3>3 DEF WaitsAlone, SameWrapper, Live
      <3> QED  BY <3>2, <3>4
    <2> QED  BY <1>1, <2>1, <2>2, <2>3, WrapperFrame
  <1>7. StackInv'
    <2>1. \A w \in Wrappers : wr'[w].st = wr[w].st
      BY DEF SameWrapper
    <2>2. \A i \in DOMAIN stack : stack[i] \in Wrappers
      BY DEF IInv, TypeInv
    <2> QED  BY <1>1, <2>1, <2>2 DEF IInv, StackInv
  <1>8. ASSUME NEW x \in Objects PROVE ObjectInv(x)'
    <2>1. ObjectInv(x) /\ (obj[x].wrapper # NULL => obj[x].wrapper \in Wrappers)
      BY Types DEF IInv
    <2>2. CASE x = o
      <3>1. Alive(o)' /\ obj'[o].wrapper = obj[o].wrapper /\ obj'[o].st # "none"
        BY DEF SameObject, Alive
      <3>2. obj[o].wrapper # NULL => /\ wr'[obj[o].wrapper].st \in {"constructing", "finished"}
                                     /\ wr'[obj[o].wrapper].gobject = o
        BY <2>1, <2>2 DEF ObjectInv, SameWrapper, Live
      <3> QED  BY <1>1, <2>1, <2>2, <3>1, <3>2 DEF ObjectInv, Live
    <2>3. CASE x # o
      BY <1>1, <1>3, <2>1, <2>3, ObjectFrame
    <2> QED  BY <2>2, <2>3
  <1>9. NumbersInv' /\ ClassInv'
    BY <1>1 DEF IInv, NumbersInv, ClassInv, ClassInitOnce
  <1>10. ASSUME NEW x \in Objects PROVE LastOf(x)'
    <2>1. LastOf(x)
      BY DEF IInv, LastInv, LastOf
    <2>2. CASE x = o
      BY <2>2
    <2>3. CASE x # o
      BY <1>1, <1>3, <2>1, <2>3, LastFrame
    <2> QED  BY <2>2, <2>3
  <1>11. ASSUME NEW x \in Objects PROVE Quiet(x)
    <2>1. CASE x = o
      BY <1>1, <2>1 DEF Quiet
    <2>2. CASE x # o
      BY <1>1, <2>2, QuietFrame
    <2> QED  BY <2>1, <2>2
  <1> QED  BY <1>4, <1>6, <1>7, <1>8, <1>9, <1>10, <1>11 DEF IInv, LastInv, LastOf

LEMMA LastOfInv == ASSUME IInv, NEW o \in Objects PROVE LastOf(o)
  BY DEF IInv, LastInv, LastOf

LEMMA SetInterfacePropertyInv ==
  ASSUME IInv, NEW o \in Objects, Alive(o), NEW n \in DOMAIN klass.spec, NEW v \in AnyValue,
         UNCHANGED <<layout, klass, stack>>, SetInterfaceProperty(o, n, v)
  PROVE  IInv' /\ \A x \in Objects : Quiet(x)
  <1> DEFINE id == klass.spec[n]
             values == IF obj[o].iface = NULL THEN klass.defaults ELSE obj[o].iface
             new == [values EXCEPT ![id] = v]
  <1>1. n \in IfaceNames /\ n \notin DOMAIN Props /\ id \in Nat \ {0} /\ id <= IfaceSize(klass)
    <2>1. IsIface(n)
      BY DEF SetInterfaceProperty
    <2>2. n \in IfaceNames /\ n \notin DOMAIN Props
      BY <2>1, MemberNumbers
    <2> QED  BY <2>1, <2>2, Layout DEF IInv, IsIface
  <1>2. /\ values \in Seq(AnyValue) /\ Len(values) = IfaceSize(klass) /\ values # NULL
        /\ IfaceSize(klass) \in Nat
    <2>1. klass.defaults \in Seq(AnyValue)
      BY DEF IInv, TypeInv, ClassType
    <2>2. obj[o].iface # NULL => obj[o].iface \in Seq(AnyValue) /\ Len(obj[o].iface) = IfaceSize(klass)
      BY Types DEF IInv, ObjectInv
    <2>3. NULL \notin Seq(AnyValue)
      BY NullAssumption
    <2> QED  BY <2>1, <2>2, <2>3 DEF IfaceSize
  <1> HIDE DEF values
  <1>3. /\ new \in Seq(AnyValue) /\ Len(new) = IfaceSize(klass) /\ new # NULL /\ new[id] = v
        /\ \A i \in 1 .. IfaceSize(klass) : i # id => new[i] = values[i]
    <2>1. new \in Seq(AnyValue) /\ Len(new) = IfaceSize(klass) /\ new[id] = v
          /\ \A i \in 1 .. IfaceSize(klass) : i # id => new[i] = values[i]
      BY <1>1, <1>2
    <2> QED  BY <2>1, NullAssumption
  <1>4. obj' = [obj EXCEPT ![o].iface = new] /\ wr' = wr
    BY DEF SetInterfaceProperty, values
  <1> HIDE DEF new
  <1>5. /\ obj' \in [Objects -> ObjectType] /\ obj'[o].iface = new /\ SameObject(o)
        /\ obj'[o].map = obj[o].map
        /\ \A x \in Objects \ {o} : obj'[x] = obj[x]
    BY ZenonT(40), <1>3, <1>4 DEF IInv, TypeInv, ObjectType, SameObject
  <1>6. /\ \A w \in Wrappers : SameWrapper(w) /\ wr'[w] = wr[w]
        /\ wr' \in [Wrappers -> WrapperType] /\ klass' = klass
        /\ Accepted(o, n, v)
    BY <1>4 DEF SameWrapper, SetInterfaceProperty, IInv, TypeInv
  <1>7. LastOf(o)'
    <2>1. LastOf(o) /\ (obj[o].iface # NULL => values = obj[o].iface)
      BY LastOfInv DEF values
    <2>2. last'[o] = Put(last[o], n, v) /\ obj'[o].wrapper = obj[o].wrapper
      BY <1>5, <1>6 DEF Accepted, SameObject, IInv, TypeInv
    <2>3. last'[o][n] = v /\ DOMAIN last'[o] = DOMAIN last[o] \cup {n}
          /\ \A m \in DOMAIN last[o] : m # n => last'[o][m] = last[o][m]
      BY <2>2 DEF Put
    <2> SUFFICES ASSUME NEW m \in DOMAIN last'[o]
        PROVE  /\ m \in DOMAIN klass.spec
               /\ m \in IfaceNames => new # NULL /\ new[klass.spec[m]] = last'[o][m]
               /\ m \in DOMAIN Props =>
                    IF Holds(o, m) THEN wr[obj[o].wrapper].val[m] = last'[o][m]
                    ELSE index(m) \in DOMAIN obj[o].map /\ obj[o].map[index(m)] = last'[o][m]
      BY <1>4, <1>5, <1>6, <2>2 DEF LastOf, Holds, index
    <2>4. CASE m = n
      BY <1>1, <1>3, <2>3, <2>4
    <2>5. CASE m # n
      <3>1. m \in DOMAIN last[o] /\ last'[o][m] = last[o][m] /\ m \in DOMAIN klass.spec
        BY <2>1, <2>3, <2>5 DEF LastOf
      <3>2. ASSUME m \in IfaceNames PROVE new[klass.spec[m]] = last'[o][m]
        <4>1. klass.spec[m] # id /\ klass.spec[m] \in 1 .. IfaceSize(klass)
          BY <1>1, <1>2, <2>5, <3>1, <3>2, Layout DEF IInv, NumbersInv
        <4> QED  BY <1>3, <2>1, <3>1, <3>2, <4>1 DEF LastOf
      <3> QED  BY <1>3, <2>1, <3>1, <3>2 DEF LastOf
    <2> QED  BY <2>4, <2>5
  <1>8. ASSUME NEW m \in DOMAIN klass.spec \ {n} PROVE Seen(o, m)' = Seen(o, m)
    <2>1. ASSUME m \in IfaceNames PROVE new[klass.spec[m]] = values[klass.spec[m]]
      <3>1. klass.spec[m] # id /\ klass.spec[m] \in 1 .. IfaceSize(klass)
        BY <1>1, <1>2, <2>1, Layout DEF IInv, NumbersInv
      <3> QED  BY <1>3, <3>1
    <2> QED  BY <1>3, <1>4, <1>5, <1>6, <2>1 DEF Seen, Holds, index, values, SameObject
  <1> HIDE DEF id
  <1>9. obj'[o].iface # NULL => Len(obj'[o].iface) = IfaceSize(klass) /\ IfaceSize(klass) > 0
    BY <1>1, <1>2, <1>3, <1>5 DEF id
  <1>10. \A w \in Wrappers : SameWrapper(w)
    BY <1>6
  <1>11. \A x \in Objects \ {o} :
            /\ obj'[x] = obj[x]
            /\ obj[x].wrapper # NULL => wr'[obj[x].wrapper].val = wr[obj[x].wrapper].val
    BY <1>4, <1>5
  <1>12. Accepted(o, n, v) /\ wr' \in [Wrappers -> WrapperType] /\ obj' \in [Objects -> ObjectType]
         /\ SameObject(o)
    BY <1>5, <1>6
  <1> QED  BY <1>7, <1>8, <1>9, <1>10, <1>11, <1>12, ValueFrame

\* A member of a wrapper is set, by C code through the callback or by the member itself.
LEMMA MemberSetInv ==
  ASSUME IInv, NEW w \in Wrappers, NEW p \in DOMAIN wr[w].val, NEW v \in AnyValue,
         NEW o, o = wr[w].gobject,
         UNCHANGED <<layout, klass, obj, stack>>, wr' = [wr EXCEPT ![w].val[p] = v],
         Accepted(o, p, v)
  PROVE  IInv' /\ \A x \in Objects : Quiet(x)
  <1>1. /\ Live(w) /\ o \in Objects /\ Alive(o) /\ obj[o].wrapper = w
        /\ p \in DOMAIN Props /\ p \in DOMAIN klass.spec
    BY MembersFound
  <1>2. p \notin IfaceNames /\ w # NULL
    BY <1>1, NamesAssumption, NullAssumption
  <1>3. wr[w] \in WrapperType /\ wr[w].val \in Partial(DOMAIN Props, AnyValue)
        /\ wr \in [Wrappers -> WrapperType]
    BY Types DEF IInv, TypeInv
  <1> DEFINE val == [wr[w].val EXCEPT ![p] = v]
  <1>4. /\ val \in Partial(DOMAIN Props, AnyValue) /\ DOMAIN val = DOMAIN wr[w].val /\ val[p] = v
        /\ \A n \in DOMAIN wr[w].val : n # p => val[n] = wr[w].val[n]
    <2>1. PICK D \in SUBSET DOMAIN Props : wr[w].val \in [D -> AnyValue]
      BY <1>3 DEF Partial
    <2>2. val \in [D -> AnyValue]
      BY <2>1
    <2>3. val \in Partial(DOMAIN Props, AnyValue)
      BY <2>2 DEF Partial
    <2> QED  BY <2>3
  <1>5. wr' = [wr EXCEPT ![w].val = val]
    BY <1>3 DEF WrapperType
  <1> HIDE DEF val
  <1>6. wr' \in [Wrappers -> WrapperType] /\ wr'[w].val = val /\ SameWrapper(w)
    <2>1. wr' \in [Wrappers -> WrapperType]
      <3>1. [wr[w] EXCEPT !.val = val] \in WrapperType
        BY <1>3, <1>4 DEF WrapperType
      <3> QED  BY <1>3, <1>5, <3>1
    <2>2. wr'[w] = [wr[w] EXCEPT !.val = val]
      BY <1>3, <1>5
    <2>3. /\ wr'[w].st = wr[w].st /\ wr'[w].steps = wr[w].steps /\ wr'[w].at = wr[w].at
          /\ wr'[w].gobject = wr[w].gobject /\ wr'[w].cast = wr[w].cast
          /\ wr'[w].ifaces = wr[w].ifaces /\ wr'[w].inits = wr[w].inits /\ wr'[w].val = val
      BY <1>3, <2>2 DEF WrapperType
    <2> QED  BY <1>1, <1>4, <2>1, <2>3 DEF SameWrapper
  <1>7. \A x \in Wrappers \ {w} : wr'[x] = wr[x]
    BY <1>5, <1>6, <1>3
  <1>8. \A x \in Wrappers : SameWrapper(x)
    BY <1>6, <1>7 DEF SameWrapper
  <1>9. obj' = obj /\ klass' = klass /\ SameObject(o)
    BY DEF SameObject
  <1>10. \A x \in Objects \ {o} :
            /\ obj'[x] = obj[x]
            /\ obj[x].wrapper # NULL => wr'[obj[x].wrapper].val = wr[obj[x].wrapper].val
    <2> TAKE x \in Objects \ {o}
    <2>1. obj[x].wrapper # NULL => obj[x].wrapper \in Wrappers /\ wr[obj[x].wrapper].gobject = x
      BY Types DEF IInv, ObjectInv
    <2>2. obj[x].wrapper # NULL => obj[x].wrapper # w
      BY <2>1
    <2> QED  BY <1>7, <1>9, <2>1, <2>2
  <1>11. obj'[o].iface # NULL => Len(obj'[o].iface) = IfaceSize(klass) /\ IfaceSize(klass) > 0
    BY <1>1, <1>9 DEF IInv, ObjectInv
  <1>12. \A n : Holds(o, n) <=> n \in DOMAIN wr[w].val
    BY <1>1, <1>2 DEF Holds
  <1>13. \A n : Holds(o, n)' <=> n \in DOMAIN wr[w].val
    BY <1>1, <1>2, <1>4, <1>6, <1>9 DEF Holds
  <1>14. LastOf(o)'
    <2>1. LastOf(o)
      BY <1>1, LastOfInv
    <2>2. last'[o] = Put(last[o], p, v)
      BY <1>1 DEF Accepted, IInv, TypeInv
    <2>3. last'[o][p] = v /\ DOMAIN last'[o] = DOMAIN last[o] \cup {p}
          /\ \A m \in DOMAIN last[o] : m # p => last'[o][m] = last[o][m]
      BY <2>2 DEF Put
    <2> SUFFICES ASSUME NEW m \in DOMAIN last'[o]
        PROVE  /\ m \in DOMAIN klass.spec
               /\ m \in IfaceNames => obj[o].iface # NULL /\ obj[o].iface[klass.spec[m]] = last'[o][m]
               /\ m \in DOMAIN Props =>
                    IF m \in DOMAIN wr[w].val THEN val[m] = last'[o][m]
                    ELSE index(m) \in DOMAIN obj[o].map /\ obj[o].map[index(m)] = last'[o][m]
      BY <1>1, <1>6, <1>9, <1>13 DEF LastOf, index
    <2>4. CASE m = p
      BY <1>1, <1>2, <1>4, <2>3, <2>4
    <2>5. CASE m # p
      BY <1>1, <1>4, <1>12, <2>1, <2>3, <2>5 DEF LastOf
    <2> QED  BY <2>4, <2>5
  <1>15. ASSUME NEW m \in DOMAIN klass.spec \ {p} PROVE Seen(o, m)' = Seen(o, m)
    BY <1>1, <1>2, <1>4, <1>6, <1>9, <1>12, <1>13 DEF Seen, index
  <1> QED  BY <1>1, <1>6, <1>8, <1>9, <1>10, <1>11, <1>14, <1>15, ValueFrame DEF IInv, TypeInv

LEMMA SetInMapInv ==
  ASSUME IInv, NEW o \in Objects, Alive(o), NEW n \in DOMAIN klass.spec, NEW v \in AnyValue,
         UNCHANGED <<layout, klass, stack>>, SetInMap(o, n, v)
  PROVE  IInv' /\ \A x \in Objects : Quiet(x)
  <1>1. n \in DOMAIN Props /\ n \notin IfaceNames /\ index(n) \in Nat \ {0} /\ obj[o].wrapper = NULL
    BY MemberNumbers, NamesAssumption DEF SetInMap
  <1> DEFINE map == Put(obj[o].map, index(n), v)
  <1>2. obj[o].map \in Partial(Nat, AnyValue) /\ obj \in [Objects -> ObjectType]
    BY Types DEF IInv, TypeInv
  <1>3. /\ map \in Partial(Nat, AnyValue) /\ map[index(n)] = v
        /\ DOMAIN map = DOMAIN obj[o].map \cup {index(n)}
        /\ \A i \in DOMAIN obj[o].map : i # index(n) => map[i] = obj[o].map[i]
    <2>1. map \in Partial(Nat, AnyValue)
      BY <1>1, <1>2, PartialFacts
    <2> QED  BY <2>1 DEF Put
  <1>4. obj' = [obj EXCEPT ![o].map = map] /\ wr' = wr /\ klass' = klass
    BY <1>2 DEF SetInMap, ObjectType
  <1> HIDE DEF map
  <1>5. /\ obj' \in [Objects -> ObjectType] /\ obj'[o].map = map /\ SameObject(o)
        /\ obj'[o].iface = obj[o].iface /\ obj'[o].wrapper = NULL
    BY ZenonT(40), <1>1, <1>2, <1>3, <1>4 DEF ObjectType, SameObject
  <1>6. \A x \in Objects \ {o} :
            /\ obj'[x] = obj[x]
            /\ obj[x].wrapper # NULL => wr'[obj[x].wrapper].val = wr[obj[x].wrapper].val
    BY <1>2, <1>4
  <1>7. \A w \in Wrappers : SameWrapper(w)
    BY <1>4 DEF SameWrapper
  <1>8. obj'[o].iface # NULL => Len(obj'[o].iface) = IfaceSize(klass) /\ IfaceSize(klass) > 0
    BY <1>5 DEF IInv, ObjectInv
  <1>9. \A m : ~Holds(o, m) /\ ~Holds(o, m)'
    BY <1>1, <1>5 DEF Holds
  <1>10. \A m \in DOMAIN klass.spec \cap DOMAIN Props : m # n => index(m) # index(n)
    <2> SUFFICES ASSUME NEW m \in DOMAIN klass.spec, m \in DOMAIN Props, index(m) = index(n)
                 PROVE  m = n
      OBVIOUS
    <2>1. PICK j \in DOMAIN layout : layout[j].op = "prop" /\ layout[j].arg = m
                                     /\ index(m) = Ordinal(layout, j)
      BY MemberNumbers
    <2>2. PICK k \in DOMAIN layout : layout[k].op = "prop" /\ layout[k].arg = n
                                     /\ index(n) = Ordinal(layout, k)
      BY <1>1, MemberNumbers
    <2>3. j \in Nat /\ k \in Nat
      BY Layout DEF IInv, Ordered
    <2>4. Ordinal(layout, j) \in Nat /\ Ordinal(layout, k) \in Nat
      BY <2>3, OrdinalNext
    <2>5. Ordinal(layout, j) = Ordinal(layout, k)
      BY <2>1, <2>2
    <2>6. ASSUME j < k PROVE FALSE
      <3>1. Ordinal(layout, j) < Ordinal(layout, k)
        BY <2>2, <2>3, <2>6, OrdinalMonotone
      <3> QED  BY <2>4, <2>5, <3>1
    <2>7. ASSUME k < j PROVE FALSE
      <3>1. Ordinal(layout, k) < Ordinal(layout, j)
        BY <2>1, <2>3, <2>7, OrdinalMonotone
      <3> QED  BY <2>4, <2>5, <3>1
    <2> QED  BY <2>1, <2>2, <2>3, <2>6, <2>7
  <1>11. LastOf(o)'
    <2>1. LastOf(o) /\ Accepted(o, n, v)
      BY LastOfInv DEF SetInMap
    <2>2. last'[o] = Put(last[o], n, v)
      BY <2>1 DEF Accepted, IInv, TypeInv
    <2>3. last'[o][n] = v /\ DOMAIN last'[o] = DOMAIN last[o] \cup {n}
          /\ \A m \in DOMAIN last[o] : m # n => last'[o][m] = last[o][m]
      BY <2>2 DEF Put
    <2> SUFFICES ASSUME NEW m \in DOMAIN last'[o]
        PROVE  /\ m \in DOMAIN klass.spec
               /\ m \in IfaceNames => obj[o].iface # NULL /\ obj[o].iface[klass.spec[m]] = last'[o][m]
               /\ m \in DOMAIN Props => index(m) \in DOMAIN map /\ map[index(m)] = last'[o][m]
      BY <1>4, <1>5, <1>9 DEF LastOf, index
    <2>4. CASE m = n
      BY <1>1, <1>3, <2>3, <2>4
    <2>5. CASE m # n
      <3>1. m \in DOMAIN last[o] /\ m \in DOMAIN klass.spec /\ last'[o][m] = last[o][m]
        BY <2>1, <2>3, <2>5 DEF LastOf
      <3>2. m \in DOMAIN Props => index(m) # index(n) /\ index(m) \in DOMAIN obj[o].map
                                  /\ obj[o].map[index(m)] = last[o][m]
        BY <1>9, <1>10, <2>1, <2>5, <3>1 DEF LastOf
      <3> QED  BY <1>3, <2>1, <3>1, <3>2 DEF LastOf
    <2> QED  BY <2>4, <2>5
  <1>12. ASSUME NEW m \in DOMAIN klass.spec \ {n} PROVE Seen(o, m)' = Seen(o, m)
    <2>1. CASE m \in IfaceNames
      BY <1>4, <1>5, <2>1 DEF Seen
    <2>2. CASE m \notin IfaceNames
      <3>1. index(m)' = index(m) /\ index(m) # index(n)
        BY <1>4, <1>10, <2>2, MemberNumbers DEF index
      <3> QED  BY <1>1, <1>3, <1>5, <2>2, <3>1 DEF Seen
    <2> QED  BY <2>1, <2>2
  <1>13. Accepted(o, n, v) /\ wr' \in [Wrappers -> WrapperType]
    BY <1>4 DEF SetInMap, IInv, TypeInv
  <1> QED  BY <1>5, <1>6, <1>7, <1>8, <1>11, <1>12, <1>13, ValueFrame

LEMMA SetRefusedInv ==
  ASSUME IInv, NEW o \in Objects, NEW n, NEW v,
         UNCHANGED <<layout, klass, stack>>, SetRefused(o, n, v)
  PROVE  IInv' /\ \A x \in Objects : Quiet(x)
  <1>1. /\ layout' = layout /\ klass' = klass /\ stack' = stack /\ obj' = obj /\ wr' = wr
        /\ last' = last /\ notice' = NULL
    BY DEF SetRefused
  <1>2. IInv'
    <2>1. TypeInv'
      BY <1>1 DEF IInv, TypeInv
    <2>2. \A w \in Wrappers : WrapperInv(w)'
      BY <1>1 DEF IInv, WrapperInv, Live, Collects, WaitsForCast, HasObject, HasMembers, Done, Alive
    <2>3. StackInv' /\ \A x \in Objects : ObjectInv(x)'
      BY <1>1 DEF IInv, StackInv, ObjectInv, Live, Alive
    <2>4. NumbersInv' /\ ClassInv' /\ LastInv'
      BY <1>1 DEF IInv, NumbersInv, ClassInv, ClassInitOnce, LastInv, Holds, index
    <2> QED  BY <2>1, <2>2, <2>3, <2>4 DEF IInv
  <1>3. ASSUME NEW x \in Objects PROVE Quiet(x)
    BY <1>1, QuietFrame
  <1> QED  BY <1>2, <1>3

LEMMA SetPropertyInv ==
  ASSUME IInv, NEW o \in Objects, NEW n \in DOMAIN klass.spec, NEW v \in AnyValue,
         g_object_set_property(o, n, v)
  PROVE  IInv' /\ \A x \in Objects : Quiet(x)
  <1>1. /\ Alive(o) /\ UNCHANGED <<layout, klass, stack>>
        /\ glibmm_custom_set_property_callback(o, n, v)
    BY DEF g_object_set_property
  <1>2. CASE SetInterfaceProperty(o, n, v)
    BY <1>1, <1>2, SetInterfacePropertyInv
  <1>3. CASE SetInWrapper(o, n, v)
    <2> DEFINE w == obj[o].wrapper
    <2>1. w # NULL /\ w \in Wrappers /\ wr[w].gobject = o
      BY <1>3, Types DEF SetInWrapper, IInv, ObjectInv
    <2>2. n \in DOMAIN Props
      BY <1>3, MemberNumbers DEF SetInWrapper
    <2>3. n \in DOMAIN wr[w].val
      BY <1>1, <1>3, <2>1, <2>2, ReaderSees DEF SetInWrapper, Holds
    <2>4. wr' = [wr EXCEPT ![w].val[n] = v] /\ Accepted(o, n, v) /\ UNCHANGED <<layout, klass, obj, stack>>
      BY <1>1, <1>3 DEF SetInWrapper
    <2> HIDE DEF w
    <2> QED  BY <2>1, <2>3, <2>4, MemberSetInv
  <1>4. CASE SetInMap(o, n, v)
    BY <1>1, <1>4, SetInMapInv
  <1>5. CASE SetRefused(o, n, v)
    BY <1>1, <1>5, SetRefusedInv
  <1> QED  BY <1>1, <1>2, <1>3, <1>4, <1>5 DEF glibmm_custom_set_property_callback

\* A wrapper without a GObject is under construction.
LEMMA WithoutObject ==
  ASSUME IInv, NEW w \in Wrappers, Live(w), wr[w].gobject = NULL
  PROVE  /\ wr[w].st = "constructing" /\ Collects(w) /\ WaitsForCast(w)
         /\ \E i \in DOMAIN stack : stack[i] = w
  <1>1. WrapperInv(w) /\ Collects(w) /\ WaitsForCast(w)
    BY DEF IInv, WrapperInv
  <1>2. wr[w].st = "constructing"
    <2>1. /\ Ordered(wr[w].steps) /\ wr[w].at \in Nat \ {0}
          /\ wr[w].st # "constructing" => wr[w].at > Len(wr[w].steps)
      BY <1>1, StepsOrdered DEF WrapperInv, Ordered
    <2>2. PICK b \in DOMAIN wr[w].steps : wr[w].steps[b].op = "object"
      BY <2>1 DEF Ordered
    <2>3. wr[w].at > Len(wr[w].steps) => b \in Done(w)
      BY <2>1, <2>2 DEF Done, Ordered
    <2> QED  BY <1>1, <2>1, <2>2, <2>3 DEF Collects
  <1> QED  BY <1>1, <1>2 DEF IInv, StackInv

LEMMA ProxySetInv ==
  ASSUME IInv, NEW w \in Wrappers, NEW n \in DOMAIN klass.spec, NEW v \in AnyValue,
         ProxySet(w, n, v)
  PROVE  IInv' /\ \A x \in Objects : Quiet(x)
  <1>1. wr[w].gobject # NULL
    BY WithoutObject DEF ProxySet, Live
  <1>2. wr[w].gobject \in Objects /\ g_object_set_property(wr[w].gobject, n, v)
    BY <1>1, Types DEF ProxySet, IInv
  <1> QED  BY <1>2, SetPropertyInv

LEMMA SetValueInv ==
  ASSUME IInv, NEW w \in Wrappers, NEW p \in DOMAIN Props, NEW v \in Values,
         set_value(w, p, v) \/ set_value_WriteOnly(w, p, v)
  PROVE  IInv' /\ \A x \in Objects : Quiet(x)
  <1>1. /\ p \in DOMAIN wr[w].val /\ wr' = [wr EXCEPT ![w].val[p] = v]
        /\ Accepted(wr[w].gobject, p, v) /\ UNCHANGED <<layout, klass, obj, stack>>
    BY DEF set_value, set_value_WriteOnly, HasMember, notify
  <1>2. v \in AnyValue
    BY DEF AnyValue
  <1> QED  BY <1>1, <1>2, MemberSetInv

-----------------------------------------------------------------------------
(* Steps of C code.                                                          *)

\* A GObject that no wrapper has comes or goes.
LEMMA OtherObjects ==
  ASSUME IInv, NEW o \in Objects, obj[o].wrapper = NULL,
         \A w \in Wrappers : Live(w) /\ wr[w].gobject = NULL => wr[w].cast # o,
         UNCHANGED <<layout, klass, wr, stack>>, notice' = NULL,
         obj' \in [Objects -> ObjectType], last' \in [Objects -> Partial(Names, AnyValue)],
         \A x \in Objects \ {o} : obj'[x] = obj[x] /\ last'[x] = last[x],
         ObjectInv(o)', LastOf(o)', Alive(o) => ~Alive(o)'
  PROVE  IInv' /\ \A x \in Objects : Quiet(x)
  <1>1. layout' = layout /\ klass' = klass /\ wr' = wr /\ stack' = stack /\ notice' = NULL
    OBVIOUS
  <1>2. TypeInv'
    BY <1>1 DEF IInv, TypeInv
  <1>3. ASSUME NEW w \in Wrappers PROVE WrapperInv(w)'
    <2>1. WrapperInv(w) /\ SameWrapper(w) /\ ClassGrows
      BY <1>1 DEF IInv, SameWrapper, ClassGrows
    <2>2. Live(w) /\ wr[w].gobject # NULL => SameObject(wr[w].gobject)
      <3>1. SUFFICES ASSUME Live(w), wr[w].gobject # NULL PROVE SameObject(wr[w].gobject)
        OBVIOUS
      <3>2. obj[wr[w].gobject].wrapper = w /\ w # NULL
        BY <2>1, <3>1, NullAssumption DEF WrapperInv, HasObject
      <3>3. wr[w].gobject \in Objects \ {o}
        BY <3>1, <3>2, Types DEF IInv
      <3> QED  BY <3>3 DEF SameObject
    <2>3. Live(w) /\ wr[w].gobject = NULL /\ wr[w].cast # NULL =>
             SameObject(wr[w].cast) /\ WaitsAlone(w)'
      <3>1. SUFFICES ASSUME Live(w), wr[w].gobject = NULL, wr[w].cast # NULL
                     PROVE  SameObject(wr[w].cast) /\ WaitsAlone(w)'
        OBVIOUS
      <3>2. wr[w].cast \in Objects \ {o}
        BY <3>1, Types DEF IInv
      <3>3. WaitsAlone(w)
        BY <2>1, <3>1 DEF WrapperInv, WaitsForCast, WaitsAlone
      <3> QED  BY <1>1, <3>2, <3>3 DEF SameObject, WaitsAlone, Live
    <2> QED  BY <1>1, <2>1, <2>2, <2>3, WrapperFrame
  <1>4. StackInv' /\ NumbersInv' /\ ClassInv'
    BY <1>1 DEF IInv, StackInv, NumbersInv, ClassInv, ClassInitOnce
  <1>5. \A w \in Wrappers : SameWrapper(w)
    BY <1>1 DEF SameWrapper
  <1>6. ASSUME NEW x \in Objects PROVE ObjectInv(x)' /\ LastOf(x)' /\ Quiet(x)
    <2>1. ObjectInv(x) /\ LastOf(x)
      BY LastOfInv DEF IInv
    <2>2. CASE x = o
      BY <2>2 DEF Quiet
    <2>3. CASE x # o
      <3>1. obj[x].wrapper # NULL => SameWrapper(obj[x].wrapper)
        BY <1>5, Types DEF IInv
      <3>2. ObjectInv(x)'
        BY <1>1, <2>1, <2>3, <3>1, ObjectFrame
      <3>3. LastOf(x)'
        BY <1>1, <2>1, <2>3, LastFrame
      <3>4. Quiet(x)
        BY <1>1, <2>3, QuietFrame
      <3> QED  BY <3>2, <3>3, <3>4
    <2> QED  BY <2>2, <2>3
  <1> QED  BY <1>2, <1>3, <1>4, <1>6 DEF IInv, LastInv, LastOf

LEMMA CreateInCInv ==
  ASSUME IInv, NEW o \in Objects, CreateInC(o)
  PROVE  IInv' /\ \A x \in Objects : Quiet(x)
  <1>1. /\ klass.registered /\ obj[o].st = "none" /\ obj' = [obj EXCEPT ![o].st = "alive"]
        /\ UNCHANGED <<layout, klass, wr, stack>> /\ notice' = NULL /\ last' = last
    BY DEF CreateInC
  <1>2. obj[o] = NoObject /\ ~Alive(o) /\ DOMAIN last[o] = {} /\ obj[o].wrapper = NULL
    BY <1>1 DEF IInv, ObjectInv, NoObject, Alive
  <1>3. obj \in [Objects -> ObjectType] /\ last' \in [Objects -> Partial(Names, AnyValue)]
    BY <1>1 DEF IInv, TypeInv
  <1>4. obj' \in [Objects -> ObjectType] /\ obj'[o] = [NoObject EXCEPT !.st = "alive"]
        /\ \A x \in Objects \ {o} : obj'[x] = obj[x] /\ last'[x] = last[x]
    <2>1. [obj[o] EXCEPT !.st = "alive"] \in ObjectType
      BY <1>3 DEF ObjectType
    <2> QED  BY <1>1, <1>2, <1>3, <2>1
  <1>5. \A w \in Wrappers : Live(w) /\ wr[w].gobject = NULL => wr[w].cast # o
    <2> SUFFICES ASSUME NEW w \in Wrappers, Live(w), wr[w].gobject = NULL, wr[w].cast = o PROVE FALSE
      OBVIOUS
    <2> QED  BY <1>2, WithoutObject, NullAssumption DEF WaitsForCast
  <1>6. ObjectInv(o)' /\ LastOf(o)'
    <2>1. /\ obj'[o].st = "alive" /\ obj'[o].wrapper = NULL /\ obj'[o].iface = NULL
      BY <1>4 DEF NoObject
    <2> QED  BY <1>1, <1>2, <2>1 DEF ObjectInv, Alive, LastOf
  <1> QED  BY <1>1, <1>2, <1>3, <1>4, <1>5, <1>6, OtherObjects

LEMMA FinalizeInv ==
  ASSUME IInv, NEW o \in Objects, Finalize(o)
  PROVE  IInv' /\ \A x \in Objects : Quiet(x)
  <1>1. /\ Alive(o) /\ obj[o].wrapper = NULL
        /\ \A k \in DOMAIN stack : wr[stack[k]].cast # o
        /\ obj' = [obj EXCEPT ![o] = [NoObject EXCEPT !.st = "gone"]]
        /\ last' = [last EXCEPT ![o] = <<>>]
        /\ UNCHANGED <<layout, klass, wr, stack>> /\ notice' = NULL
    BY DEF Finalize
  <1>2. /\ obj \in [Objects -> ObjectType] /\ last \in [Objects -> Partial(Names, AnyValue)]
        /\ [NoObject EXCEPT !.st = "gone"] \in ObjectType /\ <<>> \in Partial(Names, AnyValue)
    <2>1. <<>> \in Seq([w : Wrappers, p : DOMAIN Props]) /\ <<>> \in Partial(Nat, AnyValue)
          /\ <<>> \in Partial(Names, AnyValue)
      BY Empty
    <2>2. [NoObject EXCEPT !.st = "gone"] \in ObjectType
      BY <2>1 DEF NoObject, ObjectType
    <2> QED  BY <2>1, <2>2 DEF IInv, TypeInv
  <1>3. /\ obj' \in [Objects -> ObjectType] /\ obj'[o] = [NoObject EXCEPT !.st = "gone"]
        /\ last' \in [Objects -> Partial(Names, AnyValue)] /\ last'[o] = <<>>
        /\ \A x \in Objects \ {o} : obj'[x] = obj[x] /\ last'[x] = last[x]
    BY <1>1, <1>2
  <1>4. \A w \in Wrappers : Live(w) /\ wr[w].gobject = NULL => wr[w].cast # o
    BY <1>1, WithoutObject
  <1>5. /\ obj'[o].st = "gone" /\ obj'[o].wrapper = NULL /\ obj'[o].iface = NULL
    BY <1>3 DEF NoObject
  <1>6. ObjectInv(o)' /\ LastOf(o)' /\ ~Alive(o)'
    BY <1>3, <1>5, Empty DEF ObjectInv, Alive, LastOf
  <1> QED  BY <1>1, <1>3, <1>4, <1>6, OtherObjects

-----------------------------------------------------------------------------
(* The constructors of wrappers.                                             *)

LEMMA PushFacts ==
  ASSUME NEW S, NEW s \in Seq(S), NEW e \in S
  PROVE  /\ <<e>> \o s \in Seq(S) /\ Len(s) \in Nat /\ DOMAIN s = 1 .. Len(s)
         /\ DOMAIN (<<e>> \o s) = 1 .. Len(s) + 1 /\ (<<e>> \o s)[1] = e
         /\ \A i \in 1 .. Len(s) : (<<e>> \o s)[i + 1] = s[i]
         /\ \A i \in 2 .. Len(s) + 1 : (<<e>> \o s)[i] = s[i - 1]
  OBVIOUS

\* Before its GObject was created, the members of the wrapper did not exist; a wrapper
\* that is given one must be the only one.
LEMMA BeginInv ==
  ASSUME IInv, ~Rewrap, NEW w \in Wrappers, NEW cast \in Objects \cup {NULL},
         NEW steps, steps = layout \/ (steps = PlainSteps /\ cast # NULL), Begin(w, cast, steps)
  PROVE  IInv' /\ \A x \in Objects : Quiet(x)
  <1> DEFINE new == [NoWrapper EXCEPT !.st = "constructing", !.steps = steps, !.cast = cast]
  <1>1. /\ wr[w].st = "none" /\ wr' = [wr EXCEPT ![w] = new] /\ stack' = <<w>> \o stack
        /\ notice' = NULL /\ UNCHANGED <<layout, klass, obj, last>>
        /\ cast # NULL => /\ Alive(cast) /\ obj[cast].wrapper = NULL /\ obj[cast].base = <<>>
                          /\ \A k \in DOMAIN stack : wr[stack[k]].cast # cast
    BY DEF Begin
  <1>2. layout' = layout /\ klass' = klass /\ obj' = obj /\ last' = last
    BY <1>1
  <1>3. wr \in [Wrappers -> WrapperType] /\ stack \in Seq(Wrappers) /\ ~Live(w)
    BY <1>1 DEF IInv, TypeInv, Live
  <1>4. new \in WrapperType
    <2>1. NoWrapper \in WrapperType
      BY Empty DEF NoWrapper, WrapperType
    <2>2. steps \in Layouts \cup {<<>>, PlainSteps}
      BY DEF IInv, TypeInv
    <2> QED  BY <2>1, <2>2 DEF WrapperType
  <1>5. /\ new.st = "constructing" /\ new.steps = steps /\ new.at = 1 /\ new.gobject = NULL
        /\ new.cast = cast /\ new.ifaces = <<>> /\ new.inits = <<>> /\ new.val = <<>>
    BY DEF NoWrapper
  <1> HIDE DEF new
  <1>6. /\ wr' \in [Wrappers -> WrapperType] /\ wr'[w] = new
        /\ \A x \in Wrappers \ {w} : wr'[x] = wr[x]
    BY <1>1, <1>3, <1>4
  <1>7. /\ stack' \in Seq(Wrappers) /\ Len(stack) \in Nat /\ DOMAIN stack = 1 .. Len(stack)
        /\ DOMAIN stack' = 1 .. Len(stack) + 1 /\ stack'[1] = w
        /\ \A i \in 1 .. Len(stack) : stack'[i + 1] = stack[i]
        /\ \A i \in 2 .. Len(stack) + 1 : stack'[i] = stack[i - 1]
    BY <1>1, <1>3, PushFacts
  <1>8. TypeInv'
    BY <1>1, <1>2, <1>6, <1>7 DEF IInv, TypeInv
  <1>9. Live(w)' /\ Done(w)' = {}
    BY <1>5, <1>6 DEF Live, Done
  <1>10. \A x \in Wrappers \ {w} : (Live(x)' <=> Live(x)) /\ SameWrapper(x)
    BY <1>6 DEF Live, SameWrapper
  <1>11. \A x \in Wrappers : Live(x) /\ wr[x].gobject = NULL /\ cast # NULL => wr[x].cast # cast
    BY <1>1, WithoutObject
  <1>12. ASSUME NEW x \in Wrappers PROVE WrapperInv(x)'
    <2>1. CASE x = w
      <3>1. Ordered(steps)
        BY LayoutOrdered DEF IInv, TypeInv
      <3>2. 1 <= Len(steps) /\ Len(steps) \in Nat
        BY <3>1 DEF Ordered
      <3>3. Collects(w)'
        BY <1>5, <1>6, <1>9, Empty DEF Collects
      <3>4. WaitsForCast(w)'
        BY <1>1, <1>2, <1>5, <1>6, <1>10, <1>11 DEF WaitsForCast, Alive
      <3> QED  BY <1>2, <1>5, <1>6, <1>9, <2>1, <3>2, <3>3, <3>4, Empty DEF WrapperInv
    <2>2. CASE x # w
      <3>1. WrapperInv(x) /\ SameWrapper(x) /\ ClassGrows
        BY <1>2, <1>10, <2>2 DEF IInv, ClassGrows
      <3>2. \A o \in Objects : SameObject(o)
        BY <1>2 DEF SameObject
      <3>3. Live(x) /\ wr[x].gobject # NULL => SameObject(wr[x].gobject)
        BY <3>2, Types DEF IInv
      <3>4. Live(x) /\ wr[x].gobject = NULL /\ wr[x].cast # NULL =>
               SameObject(wr[x].cast) /\ WaitsAlone(x)'
        <4> SUFFICES ASSUME Live(x), wr[x].gobject = NULL, wr[x].cast # NULL
                     PROVE  SameObject(wr[x].cast) /\ WaitsAlone(x)'
          OBVIOUS
        <4>1. SameObject(wr[x].cast)
          BY <3>2, Types DEF IInv
        <4>2. WaitsAlone(x)
          BY <3>1 DEF WrapperInv, WaitsForCast, WaitsAlone
        <4>3. wr[x].cast # cast
          BY <1>11
        <4>4. wr'[x].cast = wr[x].cast /\ wr'[w].cast = cast
          BY <1>5, <1>6, <2>2
        <4>5. \A y \in Wrappers \ {w} : wr'[y] = wr[y] /\ (Live(y)' <=> Live(y))
          BY <1>6, <1>10
        <4> QED  BY <4>1, <4>2, <4>3, <4>4, <4>5 DEF WaitsAlone
      <3> QED  BY <1>2, <3>1, <3>3, <3>4, WrapperFrame
    <2> QED  BY <2>1, <2>2
  <1>13. StackInv'
    <2>1. \A i \in DOMAIN stack : stack[i] \in Wrappers /\ wr[stack[i]].st = "constructing"
                                  /\ stack[i] # w
      BY <1>1, <1>3 DEF IInv, StackInv
    <2>2. \A i \in DOMAIN stack' : i = 1 \/ (i \in 2 .. Len(stack) + 1 /\ i - 1 \in DOMAIN stack)
      BY <1>7
    <2>3. \A i \in DOMAIN stack' : wr'[stack'[i]].st = "constructing"
      BY <1>5, <1>6, <1>7, <2>1, <2>2
    <2>4. \A i, j \in DOMAIN stack' : stack'[i] = stack'[j] => i = j
      <3> SUFFICES ASSUME NEW i \in DOMAIN stack', NEW j \in DOMAIN stack', stack'[i] = stack'[j]
                   PROVE  i = j
        OBVIOUS
      <3>1. i = 1 <=> j = 1
        BY <1>7, <2>1, <2>2
      <3>2. i # 1 /\ j # 1 => i - 1 = j - 1
        BY <1>7, <2>2 DEF IInv, StackInv
      <3> QED  BY <1>7, <3>1, <3>2
    <2>5. \A x \in Wrappers : wr'[x].st = "constructing" => \E i \in DOMAIN stack' : stack'[i] = x
      <3> SUFFICES ASSUME NEW x \in Wrappers, wr'[x].st = "constructing"
                   PROVE  \E i \in DOMAIN stack' : stack'[i] = x
        OBVIOUS
      <3>1. CASE x = w
        BY <1>7, <3>1
      <3>2. CASE x # w
        <4>1. PICK i \in DOMAIN stack : stack[i] = x
          BY <1>6, <3>2 DEF IInv, StackInv
        <4> QED  BY <1>7, <4>1
      <3> QED  BY <3>1, <3>2
    <2> QED  BY <2>3, <2>4, <2>5 DEF StackInv
  <1>14. ASSUME NEW o \in Objects PROVE ObjectInv(o)' /\ LastOf(o)' /\ Quiet(o)
    <2>1. ObjectInv(o) /\ LastOf(o)
      BY LastOfInv DEF IInv
    <2>2. obj[o].wrapper # NULL => obj[o].wrapper \in Wrappers \ {w}
      BY <1>3, <2>1, Types DEF IInv, ObjectInv
    <2>3. obj[o].wrapper # NULL => SameWrapper(obj[o].wrapper)
                                   /\ wr'[obj[o].wrapper].val = wr[obj[o].wrapper].val
      BY <1>6, <1>10, <2>2
    <2>4. ObjectInv(o)'
      BY <1>2, <2>1, <2>3, ObjectFrame
    <2>5. LastOf(o)'
      BY <1>2, <2>1, <2>3, LastFrame
    <2>6. Quiet(o)
      BY <1>2, <2>3, QuietFrame
    <2> QED  BY <2>4, <2>5, <2>6
  <1>15. NumbersInv' /\ ClassInv'
    BY <1>2 DEF IInv, NumbersInv, ClassInv, ClassInitOnce
  <1> QED  BY <1>8, <1>12, <1>13, <1>14, <1>15 DEF IInv, LastInv, LastOf

LEMMA PopFacts ==
  ASSUME NEW S, NEW s \in Seq(S), s # <<>>
  PROVE  /\ Tail(s) \in Seq(S) /\ Len(s) \in Nat \ {0} /\ DOMAIN s = 1 .. Len(s)
         /\ DOMAIN Tail(s) = 1 .. Len(s) - 1
         /\ \A i \in 1 .. Len(s) - 1 : Tail(s)[i] = s[i + 1]
         /\ Head(s) = s[1]
  OBVIOUS

\* The innermost constructor ends, by success or by an exception.
LEMMA PopInv ==
  ASSUME TypeInv, StackInv, NEW w \in Wrappers, stack # <<>>, w = Head(stack), stack' = Tail(stack),
         wr'[w].st # "constructing", \A x \in Wrappers \ {w} : wr'[x].st = wr[x].st
  PROVE  StackInv' /\ stack' \in Seq(Wrappers)
  <1>1. stack \in Seq(Wrappers)
    BY DEF TypeInv
  <1>2. /\ stack' \in Seq(Wrappers) /\ Len(stack) \in Nat \ {0} /\ DOMAIN stack = 1 .. Len(stack)
        /\ DOMAIN stack' = 1 .. Len(stack) - 1
        /\ \A i \in 1 .. Len(stack) - 1 : stack'[i] = stack[i + 1]
        /\ w = stack[1]
    BY <1>1, PopFacts
  <1>3. \A i \in DOMAIN stack' : /\ i + 1 \in DOMAIN stack /\ stack'[i] = stack[i + 1]
                                 /\ stack[i + 1] \in Wrappers \ {w}
    <2> SUFFICES ASSUME NEW i \in DOMAIN stack'
                 PROVE  i + 1 \in DOMAIN stack /\ stack[i + 1] \in Wrappers \ {w}
      BY <1>2
    <2>1. i + 1 \in DOMAIN stack /\ i + 1 # 1 /\ 1 \in DOMAIN stack
      BY <1>2
    <2> QED  BY <1>1, <1>2, <2>1 DEF StackInv
  <1>4. \A i \in DOMAIN stack' : wr'[stack'[i]].st = "constructing"
    BY <1>3 DEF StackInv
  <1>5. \A i, j \in DOMAIN stack' : stack'[i] = stack'[j] => i = j
    <2> SUFFICES ASSUME NEW i \in DOMAIN stack', NEW j \in DOMAIN stack', stack'[i] = stack'[j]
                 PROVE  i = j
      OBVIOUS
    <2>1. i + 1 = j + 1
      BY <1>3 DEF StackInv
    <2> QED  BY <1>2, <2>1
  <1>6. \A x \in Wrappers : wr'[x].st = "constructing" => \E i \in DOMAIN stack' : stack'[i] = x
    <2> SUFFICES ASSUME NEW x \in Wrappers, wr'[x].st = "constructing"
                 PROVE  \E i \in DOMAIN stack' : stack'[i] = x
      OBVIOUS
    <2>1. PICK k \in DOMAIN stack : stack[k] = x
      BY DEF StackInv
    <2>2. k # 1
      BY <1>2, <2>1
    <2>3. k - 1 \in DOMAIN stack' /\ stack'[k - 1] = stack[k]
      BY <1>2, <2>2
    <2> QED  BY <2>1, <2>3
  <1> QED  BY <1>2, <1>4, <1>5, <1>6 DEF StackInv

LEMMA DeleteWrapperInv ==
  ASSUME IInv, NEW w \in Wrappers, NEW survives \in BOOLEAN, DeleteWrapper(w, survives)
  PROVE  IInv' /\ \A x \in Objects : Quiet(x)
  <1> DEFINE o == wr[w].gobject
             new == [NoWrapper EXCEPT !.st = "deleted"]
             gone == [NoObject EXCEPT !.st = "gone"]
             left == IF survives THEN [obj[o] EXCEPT !.wrapper = NULL] ELSE gone
             kept == Forget(last[o], IF survives THEN DOMAIN Props ELSE DOMAIN last[o])
  <1>1. /\ wr[w].st = "finished" \/ (stack # <<>> /\ w = Head(stack))
        /\ wr' = [wr EXCEPT ![w] = new]
        /\ stack' = IF wr[w].st = "constructing" THEN Tail(stack) ELSE stack
        /\ notice' = NULL /\ UNCHANGED <<layout, klass>>
        /\ o = NULL => UNCHANGED <<obj, last>>
        /\ o # NULL => obj' = [obj EXCEPT ![o] = left] /\ last' = [last EXCEPT ![o] = kept]
    <2>1. /\ wr[w].st = "finished" \/ (stack # <<>> /\ w = Head(stack))
          /\ wr' = [wr EXCEPT ![w] = new]
          /\ stack' = IF wr[w].st = "constructing" THEN Tail(stack) ELSE stack
          /\ notice' = NULL /\ UNCHANGED <<layout, klass>>
      BY DEF DeleteWrapper
    <2>2. o = NULL => UNCHANGED <<obj, last>>
      BY DEF DeleteWrapper
    <2>3. o # NULL => obj' = [obj EXCEPT ![o] = left] /\ last' = [last EXCEPT ![o] = kept]
      BY DEF DeleteWrapper
    <2> QED  BY <2>1, <2>2, <2>3
  <1>2. /\ layout' = layout /\ klass' = klass /\ TypeInv /\ StackInv
        /\ wr \in [Wrappers -> WrapperType] /\ obj \in [Objects -> ObjectType]
        /\ last \in [Objects -> Partial(Names, AnyValue)] /\ stack \in Seq(Wrappers)
    BY <1>1 DEF IInv, TypeInv
  <1>3. Live(w) /\ WrapperInv(w)
        /\ (wr[w].st # "finished" => wr[w].st = "constructing" /\ stack # <<>> /\ w = Head(stack))
    <2>1. stack # <<>> => Head(stack) = stack[1] /\ 1 \in DOMAIN stack
      BY <1>2, PopFacts
    <2> QED  BY <1>1, <1>2, <2>1 DEF IInv, StackInv, Live
  <1>4. /\ new \in WrapperType /\ new.st = "deleted" /\ new.gobject = NULL /\ new.val = <<>>
    <2>1. NoWrapper \in WrapperType
      BY Empty DEF NoWrapper, WrapperType
    <2> QED  BY <2>1 DEF WrapperType, NoWrapper
  <1> HIDE DEF new
  <1>5. /\ wr' \in [Wrappers -> WrapperType] /\ wr'[w] = new
        /\ \A x \in Wrappers \ {w} : wr'[x] = wr[x]
    BY <1>1, <1>2, <1>4
  <1>6. o # NULL => o \in Objects /\ Alive(o) /\ obj[o].wrapper = w /\ w # NULL
    BY <1>2, <1>3, Types, NullAssumption DEF WrapperInv, HasObject
  <1>7. o \in Objects => left \in ObjectType /\ kept \in Partial(Names, AnyValue)
    <2>1. ASSUME o \in Objects PROVE [obj[o] EXCEPT !.wrapper = NULL] \in ObjectType
      BY ZenonT(40), <1>2, <2>1 DEF ObjectType
    <2>2. gone \in ObjectType
      BY Empty DEF NoObject, ObjectType
    <2>3. ASSUME o \in Objects PROVE kept \in Partial(Names, AnyValue)
      BY <1>2, <2>3, PartialFacts
    <2> QED  BY <2>1, <2>2, <2>3
  <1>8. ASSUME o # NULL
        PROVE  /\ left.wrapper = NULL
               /\ left.st = "alive" => left.iface = obj[o].iface /\ DOMAIN kept \cap DOMAIN Props = {}
               /\ left.st = "gone" => left.iface = NULL /\ DOMAIN kept = {}
               /\ left.st \in {"alive", "gone"}
               /\ \A n \in DOMAIN kept : n \in DOMAIN last[o] /\ kept[n] = last[o][n]
    <2>1. o \in Objects /\ obj[o] \in ObjectType /\ obj[o].st = "alive"
      BY <1>2, <1>6, <1>8 DEF Alive
    <2>2. \A n \in DOMAIN kept : n \in DOMAIN last[o] /\ kept[n] = last[o][n]
      BY DEF Forget
    <2>3. CASE survives
      <3>1. left = [obj[o] EXCEPT !.wrapper = NULL] /\ DOMAIN kept \cap DOMAIN Props = {}
        BY <2>3 DEF Forget
      <3> QED  BY <2>1, <2>2, <3>1 DEF ObjectType
    <2>4. CASE ~survives
      <3>1. left = gone /\ DOMAIN kept = {}
        BY <2>4 DEF Forget
      <3> QED  BY <2>2, <3>1 DEF NoObject
    <2> QED  BY <2>3, <2>4
  <1> HIDE DEF left, kept, gone
  <1>9. \A x \in Objects : x # o => obj'[x] = obj[x] /\ last'[x] = last[x]
    BY <1>1, <1>2
  <1>10. o # NULL => obj'[o] = left /\ last'[o] = kept
    BY <1>1, <1>2, <1>6
  <1>11. obj' \in [Objects -> ObjectType] /\ last' \in [Objects -> Partial(Names, AnyValue)]
    BY <1>1, <1>2, <1>6, <1>7
  <1>12. StackInv' /\ stack' \in Seq(Wrappers)
    <2>1. wr'[w].st = "deleted" /\ \A x \in Wrappers \ {w} : wr'[x].st = wr[x].st
      BY <1>4, <1>5
    <2>2. CASE wr[w].st = "constructing"
      <3>1. stack' = Tail(stack) /\ stack # <<>> /\ w = Head(stack)
        BY <1>1, <1>3, <2>2
      <3> QED  BY <1>2, <2>1, <3>1, PopInv
    <2>3. CASE wr[w].st # "constructing"
      <3>1. stack' = stack
        BY <1>1, <2>3
      <3>2. \A i \in DOMAIN stack : stack[i] \in Wrappers \ {w}
        BY <1>2, <2>3 DEF StackInv
      <3> QED  BY <1>2, <2>1, <2>3, <3>1, <3>2 DEF StackInv
    <2> QED  BY <2>2, <2>3
  <1>13. TypeInv'
    BY <1>1, <1>2, <1>5, <1>11, <1>12 DEF TypeInv
  <1>14. \A x \in Wrappers \ {w} : SameWrapper(x) /\ (Live(x)' <=> Live(x))
    BY <1>5 DEF SameWrapper, Live
  <1>15. ASSUME NEW x \in Wrappers PROVE WrapperInv(x)'
    <2>1. CASE x = w
      BY <1>4, <1>5, <2>1 DEF WrapperInv, Live
    <2>2. CASE x # w
      <3>1. WrapperInv(x) /\ SameWrapper(x) /\ ClassGrows
        BY <1>2, <1>14, <2>2 DEF IInv, ClassGrows
      <3>2. Live(x) /\ wr[x].gobject # NULL => SameObject(wr[x].gobject)
        <4>1. SUFFICES ASSUME Live(x), wr[x].gobject # NULL PROVE SameObject(wr[x].gobject)
          OBVIOUS
        <4>2. obj[wr[x].gobject].wrapper = x /\ wr[x].gobject \in Objects
          BY <1>2, <3>1, <4>1, Types DEF WrapperInv, HasObject
        <4>3. wr[x].gobject # o
          BY <1>6, <2>2, <4>1, <4>2
        <4> QED  BY <1>9, <4>2, <4>3 DEF SameObject
      <3>3. Live(x) /\ wr[x].gobject = NULL /\ wr[x].cast # NULL =>
               SameObject(wr[x].cast) /\ WaitsAlone(x)'
        <4> SUFFICES ASSUME Live(x), wr[x].gobject = NULL, wr[x].cast # NULL
                     PROVE  SameObject(wr[x].cast) /\ WaitsAlone(x)'
          OBVIOUS
        <4>1. WaitsForCast(x)
          BY <3>1 DEF WrapperInv
        <4>2. wr[x].cast \in Objects /\ obj[wr[x].cast].wrapper = NULL
          BY <1>2, <4>1, Types DEF WaitsForCast
        <4>3. wr[x].cast # o
          BY <1>6, <4>2
        <4>4. SameObject(wr[x].cast)
          BY <1>9, <4>2, <4>3 DEF SameObject
        <4>5. ~Live(w)'
          BY <1>4, <1>5 DEF Live
        <4>6. WaitsAlone(x)'
          BY <1>5, <1>14, <2>2, <4>1, <4>5 DEF WaitsAlone, WaitsForCast
        <4> QED  BY <4>4, <4>6
      <3> QED  BY <1>2, <3>1, <3>2, <3>3, WrapperFrame
    <2> QED  BY <2>1, <2>2
  <1>16. ASSUME NEW x \in Objects PROVE ObjectInv(x)' /\ LastOf(x)' /\ Quiet(x)
    <2>1. ObjectInv(x) /\ LastOf(x)
      BY LastOfInv DEF IInv
    <2>2. CASE x = o
      <3>1. x # NULL /\ obj'[x] = left /\ last'[x] = kept /\ o # NULL /\ Alive(x)
        BY <1>6, <1>10, <2>2, NullAssumption
      <3>2. ObjectInv(x)'
        BY <1>2, <1>8, <2>1, <2>2, <3>1 DEF ObjectInv, Alive
      <3>3. LastOf(x)'
        <4> SUFFICES ASSUME NEW n \in DOMAIN kept
                     PROVE  /\ n \in DOMAIN klass.spec
                            /\ n \in IfaceNames => left.iface # NULL
                                                   /\ left.iface[klass.spec[n]] = kept[n]
                            /\ n \notin DOMAIN Props
          BY <1>2, <3>1 DEF LastOf
        <4>1. n \in DOMAIN last[o] /\ kept[n] = last[o][n] /\ left.st = "alive"
          BY <1>8, <3>1
        <4>2. left.iface = obj[o].iface /\ n \notin DOMAIN Props
          BY <1>8, <3>1, <4>1
        <4> QED  BY <2>1, <2>2, <4>1, <4>2 DEF LastOf
      <3>4. obj'[x].wrapper # obj[x].wrapper
        BY <1>6, <1>8, <2>2, <3>1
      <3> QED  BY <3>2, <3>3, <3>4 DEF Quiet
    <2>3. CASE x # o
      <3>1. obj[x].wrapper # NULL => obj[x].wrapper \in Wrappers \ {w}
        BY <1>2, <2>1, <2>3, Types DEF ObjectInv
      <3>2. obj[x].wrapper # NULL => SameWrapper(obj[x].wrapper)
                                     /\ wr'[obj[x].wrapper].val = wr[obj[x].wrapper].val
        BY <1>5, <1>14, <3>1
      <3>3. ObjectInv(x)'
        BY <1>2, <1>9, <2>1, <2>3, <3>2, ObjectFrame
      <3>4. LastOf(x)'
        BY <1>2, <1>9, <2>1, <2>3, <3>2, LastFrame
      <3>5. Quiet(x)
        BY <1>2, <1>9, <2>3, <3>2, QuietFrame
      <3> QED  BY <3>3, <3>4, <3>5
    <2> QED  BY <2>2, <2>3
  <1>17. NumbersInv' /\ ClassInv'
    BY <1>2 DEF IInv, NumbersInv, ClassInv, ClassInitOnce
  <1> QED  BY <1>12, <1>13, <1>15, <1>16, <1>17 DEF IInv, LastInv, LastOf

\* The next base or member of the innermost wrapper has been constructed.
Advanced(w, op, new) ==
  /\ Live(w) /\ wr[w].at \in DOMAIN wr[w].steps /\ wr[w].steps[wr[w].at].op = op
  /\ Ordered(wr[w].steps) /\ wr[w].at \in Nat \ {0}
  /\ wr' \in [Wrappers -> WrapperType] /\ stack' \in Seq(Wrappers) /\ StackInv'
  /\ layout' = layout /\ last' = last /\ notice' = NULL
  /\ \A x \in Wrappers \ {w} : wr'[x] = wr[x]
  /\ Live(w)' /\ wr'[w].steps = wr[w].steps /\ wr'[w].at = wr[w].at + 1
  /\ wr'[w].st \notin {"none", "deleted"}
  /\ wr'[w].st = "constructing" <=> wr'[w].at <= Len(wr[w].steps)
  /\ wr'[w].at - 1 <= Len(wr[w].steps)
  /\ wr'[w].gobject = new.gobject /\ wr'[w].cast = new.cast /\ wr'[w].ifaces = new.ifaces
  /\ wr'[w].inits = new.inits /\ wr'[w].val = new.val
  /\ Done(w)' = Done(w) \cup {wr[w].at} /\ wr[w].at \notin Done(w)

LEMMA AdvanceFacts ==
  ASSUME IInv, NEW w \in Wrappers, NEW op, Constructs(w, op), NEW new \in WrapperType,
         new.st = wr[w].st, new.steps = wr[w].steps, new.at = wr[w].at, Advance(w, new)
  PROVE  Advanced(w, op, new)
  <1> DEFINE finished == new.at = Len(new.steps)
             next == [new EXCEPT !.at = @ + 1, !.st = IF finished THEN "finished" ELSE @]
  <1>1. /\ stack # <<>> /\ w = Head(stack) /\ wr[w].steps[wr[w].at].op = op
        /\ wr' = [wr EXCEPT ![w] = next]
        /\ stack' = IF finished THEN Tail(stack) ELSE stack
        /\ notice' = NULL /\ layout' = layout /\ last' = last
    BY DEF Constructs, Advance
  <1>2. TypeInv /\ StackInv /\ wr \in [Wrappers -> WrapperType] /\ stack \in Seq(Wrappers)
    BY DEF IInv, TypeInv
  <1>3. wr[w].st = "constructing" /\ Live(w)
    <2>1. Head(stack) = stack[1] /\ 1 \in DOMAIN stack
      BY <1>1, <1>2, PopFacts
    <2> QED  BY <1>1, <1>2, <2>1 DEF StackInv, Live
  <1>4. /\ Ordered(wr[w].steps) /\ wr[w].at \in Nat \ {0} /\ wr[w].at <= Len(wr[w].steps)
        /\ Len(wr[w].steps) \in Nat /\ DOMAIN wr[w].steps = 1 .. Len(wr[w].steps)
    BY <1>3, StepsOrdered DEF IInv, WrapperInv, Ordered
  <1>5. next \in WrapperType
    <2>1. new.at + 1 \in Nat \ {0}
      BY <1>4
    <2>2. (IF finished THEN "finished" ELSE new.st) \in {"none", "constructing", "finished", "deleted"}
      BY <1>3
    <2> QED  BY <2>1, <2>2 DEF WrapperType
  <1>6. /\ next.at = wr[w].at + 1 /\ next.st = (IF finished THEN "finished" ELSE "constructing")
        /\ next.steps = wr[w].steps /\ next.gobject = new.gobject /\ next.cast = new.cast
        /\ next.ifaces = new.ifaces /\ next.inits = new.inits /\ next.val = new.val
    BY <1>3 DEF WrapperType
  <1>7. finished <=> wr[w].at = Len(wr[w].steps)
    OBVIOUS
  <1> HIDE DEF next, finished
  <1>8. /\ wr' \in [Wrappers -> WrapperType] /\ wr'[w] = next
        /\ \A x \in Wrappers \ {w} : wr'[x] = wr[x]
    BY <1>1, <1>2, <1>5
  <1>9. StackInv' /\ stack' \in Seq(Wrappers)
    <2>1. CASE finished
      BY <1>1, <1>2, <1>6, <1>8, <2>1, PopInv
    <2>2. CASE ~finished
      <3>1. stack' = stack /\ \A x \in Wrappers : wr'[x].st = wr[x].st
        BY <1>1, <1>3, <1>6, <1>8, <2>2
      <3>2. \A i \in DOMAIN stack : stack[i] \in Wrappers
        BY <1>2
      <3> QED  BY <1>2, <3>1, <3>2 DEF StackInv
    <2> QED  BY <2>1, <2>2
  <1>10. /\ Live(w)' /\ wr'[w].st \notin {"none", "deleted"}
         /\ wr'[w].st = "constructing" <=> wr'[w].at <= Len(wr[w].steps)
         /\ wr'[w].at - 1 <= Len(wr[w].steps)
    <2>1. CASE finished
      BY <1>4, <1>6, <1>7, <1>8, <2>1 DEF Live
    <2>2. CASE ~finished
      BY <1>4, <1>6, <1>7, <1>8, <2>2 DEF Live
    <2> QED  BY <2>1, <2>2
  <1>11. Done(w)' = Done(w) \cup {wr[w].at} /\ wr[w].at \notin Done(w)
    <2>1. wr'[w].at = wr[w].at + 1
      BY <1>6, <1>8
    <2> QED  BY <1>4, <2>1 DEF Done
  <1> QED  BY <1>1, <1>3, <1>4, <1>6, <1>8, <1>9, <1>10, <1>11 DEF Advanced

\* The step before its GObject is there, and the one after.
LEMMA ObjectOrMembers ==
  ASSUME IInv, NEW w \in Wrappers, Live(w), wr[w].at \in DOMAIN wr[w].steps
  PROVE  /\ wr[w].gobject = NULL => Collects(w) /\ WaitsForCast(w)
                                    /\ wr[w].steps[wr[w].at].op # "prop"
         /\ wr[w].gobject # NULL => HasObject(w) /\ HasMembers(w) /\ wr[w].gobject \in Objects
                                    /\ wr[w].steps[wr[w].at].op # "object"
  <1>1. /\ Ordered(wr[w].steps) /\ wr[w].at \in Nat \ {0} /\ Done(w) \subseteq DOMAIN wr[w].steps
        /\ WrapperInv(w)
    BY StepsOrdered DEF IInv
  <1>2. ASSUME wr[w].gobject = NULL
        PROVE  Collects(w) /\ WaitsForCast(w) /\ wr[w].steps[wr[w].at].op # "prop"
    <2>1. Collects(w) /\ WaitsForCast(w)
      BY <1>1, <1>2 DEF WrapperInv
    <2>2. ASSUME wr[w].steps[wr[w].at].op = "prop" PROVE FALSE
      <3>1. PICK b \in DOMAIN wr[w].steps : wr[w].steps[b].op = "object" /\ b < wr[w].at
        BY <1>1, <2>2 DEF Ordered
      <3>2. b \in Done(w)
        BY <1>1, <3>1 DEF Done, Ordered
      <3> QED  BY <2>1, <3>1, <3>2 DEF Collects
    <2> QED  BY <2>1, <2>2
  <1>3. ASSUME wr[w].gobject # NULL
        PROVE  HasObject(w) /\ HasMembers(w) /\ wr[w].gobject \in Objects
               /\ wr[w].steps[wr[w].at].op # "object"
    <2>1. HasObject(w) /\ HasMembers(w) /\ wr[w].gobject \in Objects
      BY <1>1, <1>3, Types DEF WrapperInv, IInv
    <2>2. PICK k \in Done(w) : wr[w].steps[k].op = "object"
      BY <2>1 DEF HasObject
    <2>3. k # wr[w].at /\ k \in DOMAIN wr[w].steps
      BY <1>1, <2>2 DEF Done
    <2> QED  BY <1>1, <2>1, <2>2, <2>3 DEF Ordered
  <1> QED  BY <1>2, <1>3

\* The other wrappers see the construction of w only through the GObjects it changes.
LEMMA AdvanceOthers ==
  ASSUME IInv, NEW w \in Wrappers, NEW op, NEW new, Advanced(w, op, new), ClassGrows,
         NEW changed \in SUBSET Objects, \A y \in Objects \ changed : obj'[y] = obj[y],
         new.cast = wr[w].cast, new.gobject = NULL => wr[w].gobject = NULL,
         \A x \in Wrappers \ {w} :
            Live(x) => wr[x].gobject \notin changed
                       /\ (wr[x].gobject = NULL => wr[x].cast \notin changed)
  PROVE  /\ \A x \in Wrappers \ {w} : WrapperInv(x)'
         /\ \A o \in Objects : obj[o].wrapper # NULL /\ obj[o].wrapper # w =>
              SameWrapper(obj[o].wrapper) /\ wr'[obj[o].wrapper].val = wr[obj[o].wrapper].val
  <1>1. /\ layout' = layout /\ Live(w) /\ Live(w)'
        /\ wr'[w].gobject = new.gobject /\ wr'[w].cast = new.cast
        /\ \A x \in Wrappers \ {w} : wr'[x] = wr[x]
    BY DEF Advanced
  <1>2. \A x \in Wrappers \ {w} : SameWrapper(x) /\ (Live(x)' <=> Live(x)) /\ wr'[x].val = wr[x].val
    BY <1>1 DEF SameWrapper, Live
  <1>3. ASSUME NEW x \in Wrappers \ {w} PROVE WrapperInv(x)'
    <2>1. WrapperInv(x) /\ SameWrapper(x) /\ TypeInv
      BY <1>2 DEF IInv
    <2>2. Live(x) /\ wr[x].gobject # NULL => SameObject(wr[x].gobject)
      <3> SUFFICES ASSUME Live(x), wr[x].gobject # NULL PROVE SameObject(wr[x].gobject)
        OBVIOUS
      <3>1. wr[x].gobject \in Objects \ changed
        BY <2>1, Types
      <3> QED  BY <3>1 DEF SameObject
    <2>3. Live(x) /\ wr[x].gobject = NULL /\ wr[x].cast # NULL =>
             SameObject(wr[x].cast) /\ WaitsAlone(x)'
      <3> SUFFICES ASSUME Live(x), wr[x].gobject = NULL, wr[x].cast # NULL
                   PROVE  SameObject(wr[x].cast) /\ WaitsAlone(x)'
        OBVIOUS
      <3>1. wr[x].cast \in Objects \ changed
        BY <2>1, Types
      <3>2. SameObject(wr[x].cast)
        BY <3>1 DEF SameObject
      <3>3. WaitsForCast(x)
        BY <2>1 DEF WrapperInv
      <3>4. ~(wr'[w].gobject = NULL /\ wr'[w].cast = wr[x].cast)
        BY <1>1, <3>3 DEF WaitsForCast
      <3>5. WaitsAlone(x)'
        BY <1>1, <1>2, <3>3, <3>4 DEF WaitsAlone, WaitsForCast
      <3> QED  BY <3>2, <3>5
    <2> QED  BY <1>1, <2>1, <2>2, <2>3, WrapperFrame
  <1>4. ASSUME NEW o \in Objects, obj[o].wrapper # NULL, obj[o].wrapper # w
        PROVE  SameWrapper(obj[o].wrapper) /\ wr'[obj[o].wrapper].val = wr[obj[o].wrapper].val
    <2>1. obj[o].wrapper \in Wrappers \ {w}
      BY <1>4, Types DEF IInv
    <2> QED  BY <1>2, <2>1
  <1> QED  BY <1>3, <1>4

\* A step that constructs neither the GObject nor a member, and changes no GObject.
LEMMA CollectInv ==
  ASSUME IInv, NEW w \in Wrappers, NEW op \in {"iface", "extra"}, NEW new \in WrapperType,
         Constructs(w, op), Advance(w, new), obj' = obj, klass' = klass,
         new.st = wr[w].st, new.steps = wr[w].steps, new.at = wr[w].at, new.cast = wr[w].cast,
         new.gobject = wr[w].gobject, new.val = wr[w].val,
         wr[w].gobject = NULL /\ op = "iface" =>
            new.ifaces = Append(wr[w].ifaces, Arg(w)) /\ new.inits = wr[w].inits,
         wr[w].gobject = NULL /\ op = "extra" =>
            new.ifaces = wr[w].ifaces /\ new.inits = Append(wr[w].inits, wr[w].at),
         wr[w].gobject # NULL /\ op = "iface" => Arg(w) \in klass.ifaces
  PROVE  IInv' /\ \A x \in Objects : Quiet(x)
  <1>1. Advanced(w, op, new)
    BY AdvanceFacts
  <1>2. /\ Live(w) /\ wr[w].at \in DOMAIN wr[w].steps /\ wr[w].steps[wr[w].at].op = op
        /\ Ordered(wr[w].steps) /\ wr[w].at \in Nat \ {0}
        /\ wr' \in [Wrappers -> WrapperType] /\ stack' \in Seq(Wrappers) /\ StackInv'
        /\ layout' = layout /\ last' = last /\ notice' = NULL
        /\ \A x \in Wrappers \ {w} : wr'[x] = wr[x]
        /\ Live(w)' /\ wr'[w].steps = wr[w].steps /\ wr'[w].at = wr[w].at + 1
        /\ wr'[w].gobject = new.gobject /\ wr'[w].cast = new.cast /\ wr'[w].val = new.val
        /\ Done(w)' = Done(w) \cup {wr[w].at} /\ wr[w].at \notin Done(w)
    BY <1>1 DEF Advanced
  <1>3. TypeInv /\ TypeInv' /\ ClassGrows
    BY <1>2 DEF IInv, TypeInv, ClassGrows
  <1>4. /\ \A x \in Wrappers \ {w} : WrapperInv(x)'
        /\ \A o \in Objects : obj[o].wrapper # NULL /\ obj[o].wrapper # w =>
             SameWrapper(obj[o].wrapper) /\ wr'[obj[o].wrapper].val = wr[obj[o].wrapper].val
    <2> DEFINE changed == {}
    <2>1. /\ changed \in SUBSET Objects /\ \A y \in Objects \ changed : obj'[y] = obj[y]
          /\ \A x \in Wrappers \ {w} :
               Live(x) => wr[x].gobject \notin changed
                          /\ (wr[x].gobject = NULL => wr[x].cast \notin changed)
      OBVIOUS
    <2> HIDE DEF changed
    <2>2. new.cast = wr[w].cast /\ (new.gobject = NULL => wr[w].gobject = NULL)
      OBVIOUS
    <2>3. ClassGrows
      BY <1>3
    <2> QED  BY <1>1, <2>1, <2>2, <2>3, AdvanceOthers, ZenonT(60)
  <1>5. WrapperInv(w)'
    <2>1. WrapperInv(w) /\ Arg(w) = wr[w].steps[wr[w].at].arg
      BY DEF IInv, Arg
    <2>2. {j \in Done(w)' : wr[w].steps[j].op = "prop"} = {j \in Done(w) : wr[w].steps[j].op = "prop"}
      BY <1>2
    <2>3. DOMAIN wr'[w].val = {wr[w].steps[k].arg : k \in {j \in Done(w)' : wr[w].steps[j].op = "prop"}}
      BY <1>2, <2>1, <2>2 DEF WrapperInv
    <2>4. ASSUME wr[w].gobject = NULL PROVE Collects(w)' /\ WaitsForCast(w)'
      <3>1. Collects(w) /\ WaitsForCast(w)
        BY <1>2, <2>4, ObjectOrMembers
      <3>2. \A k \in Done(w)' : wr[w].steps[k].op # "object"
        BY <1>2, <3>1 DEF Collects
      <3>3. WaitsForCast(w)'
        BY <1>2, <2>4, <3>1 DEF WaitsForCast, Live, Alive
      <3>4. wr[w].ifaces \in Seq(DOMAIN IfaceProps) /\ wr[w].inits \in Seq(Nat)
        BY <1>3, Types
      <3>5. CASE op = "iface"
        <4>1. wr'[w].ifaces = Append(wr[w].ifaces, Arg(w)) /\ wr'[w].inits = wr[w].inits
          BY <1>1, <2>4, <3>5 DEF Advanced
        <4>2. Arg(w) \in DOMAIN IfaceProps
          BY <1>2, <2>1, <3>5 DEF Ordered
        <4>3. Range(wr'[w].ifaces) = Range(wr[w].ifaces) \cup {Arg(w)}
          BY <3>4, <4>1, <4>2, AppendFacts
        <4>4. {wr[w].steps[k].arg : k \in {j \in Done(w)' : wr[w].steps[j].op = "iface"}}
              = {wr[w].steps[k].arg : k \in {j \in Done(w) : wr[w].steps[j].op = "iface"}} \cup {Arg(w)}
          BY <1>2, <2>1, <3>5
        <4>5. {k \in Done(w)' : wr[w].steps[k].op = "extra"} = {k \in Done(w) : wr[w].steps[k].op = "extra"}
          BY <1>2, <3>5
        <4>6. /\ Range(wr'[w].inits) = {k \in Done(w)' : wr[w].steps[k].op = "extra"}
              /\ \A i, j \in DOMAIN wr'[w].inits : i < j => wr'[w].inits[i] < wr'[w].inits[j]
          BY <3>1, <4>1, <4>5 DEF Collects
        <4>7. Range(wr'[w].ifaces)
              = {wr[w].steps[k].arg : k \in {j \in Done(w)' : wr[w].steps[j].op = "iface"}}
          BY <3>1, <4>3, <4>4 DEF Collects
        <4>8. Collects(w)'
          BY <1>2, <3>2, <4>6, <4>7 DEF Collects
        <4> QED  BY <3>3, <4>8
      <3>6. CASE op = "extra"
        <4>1. wr'[w].ifaces = wr[w].ifaces /\ wr'[w].inits = Append(wr[w].inits, wr[w].at)
          BY <1>1, <2>4, <3>6 DEF Advanced
        <4>2. /\ Len(wr[w].inits) \in Nat /\ DOMAIN wr[w].inits = 1 .. Len(wr[w].inits)
              /\ DOMAIN wr'[w].inits = 1 .. Len(wr[w].inits) + 1
              /\ \A i \in 1 .. Len(wr[w].inits) : wr'[w].inits[i] = wr[w].inits[i]
              /\ wr'[w].inits[Len(wr[w].inits) + 1] = wr[w].at
              /\ Range(wr'[w].inits) = Range(wr[w].inits) \cup {wr[w].at}
          <5>1. wr[w].at \in Nat
            BY <1>2
          <5> QED  BY SMTT(30), <3>4, <4>1, <5>1, AppendFacts
        <4>3. {wr[w].steps[k].arg : k \in {j \in Done(w)' : wr[w].steps[j].op = "iface"}}
              = {wr[w].steps[k].arg : k \in {j \in Done(w) : wr[w].steps[j].op = "iface"}}
          BY <1>2, <3>6
        <4>4. {k \in Done(w)' : wr[w].steps[k].op = "extra"}
              = {k \in Done(w) : wr[w].steps[k].op = "extra"} \cup {wr[w].at}
          BY <1>2, <3>6
        <4>5. \A i \in DOMAIN wr[w].inits : wr[w].inits[i] < wr[w].at
          <5> TAKE i \in DOMAIN wr[w].inits
          <5>1. wr[w].inits[i] \in Range(wr[w].inits)
            BY DEF Range
          <5>2. wr[w].inits[i] \in Done(w)
            BY <3>1, <5>1 DEF Collects
          <5> QED  BY <1>2, <5>2 DEF Done
        <4>6. \A i, j \in DOMAIN wr'[w].inits : i < j => wr'[w].inits[i] < wr'[w].inits[j]
          <5> SUFFICES ASSUME NEW i \in DOMAIN wr'[w].inits, NEW j \in DOMAIN wr'[w].inits, i < j
                       PROVE  wr'[w].inits[i] < wr'[w].inits[j]
            OBVIOUS
          <5>1. i \in DOMAIN wr[w].inits /\ wr'[w].inits[i] = wr[w].inits[i]
            BY <4>2
          <5>2. CASE j = Len(wr[w].inits) + 1
            BY <4>2, <4>5, <5>1, <5>2
          <5>3. CASE j # Len(wr[w].inits) + 1
            <6>1. j \in DOMAIN wr[w].inits /\ wr'[w].inits[j] = wr[w].inits[j]
              BY <4>2, <5>3
            <6> QED  BY <3>1, <5>1, <6>1 DEF Collects
          <5> QED  BY <5>2, <5>3
        <4>7. Range(wr'[w].inits) = {k \in Done(w)' : wr[w].steps[k].op = "extra"}
              /\ Range(wr'[w].ifaces)
                 = {wr[w].steps[k].arg : k \in {j \in Done(w)' : wr[w].steps[j].op = "iface"}}
          BY <3>1, <4>1, <4>2, <4>3, <4>4 DEF Collects
        <4>8. Collects(w)'
          BY <1>2, <3>2, <4>6, <4>7 DEF Collects
        <4> QED  BY <3>3, <4>8
      <3> QED  BY <3>5, <3>6
    <2>5. ASSUME wr[w].gobject # NULL PROVE HasObject(w)' /\ HasMembers(w)'
      <3>1. HasObject(w) /\ HasMembers(w) /\ wr'[w].gobject = wr[w].gobject
        BY <1>2, <2>5, ObjectOrMembers
      <3>2. HasObject(w)'
        BY <1>2, <2>1, <2>5, <3>1 DEF HasObject, Alive
      <3>3. Ordinal(wr[w].steps, wr'[w].at - 1) = Ordinal(wr[w].steps, wr[w].at - 1)
        <4>1. wr[w].at - 1 \in Nat /\ wr[w].at - 1 + 1 = wr[w].at /\ wr'[w].at - 1 = wr[w].at
          BY <1>2
        <4>2. wr[w].steps[wr[w].at - 1 + 1].op # "prop"
          BY <1>2, <4>1
        <4> QED  BY <4>1, <4>2, OrdinalNext
      <3>4. HasMembers(w)'
        <4>1. \A k \in Done(w)' : wr[w].steps[k].op = "prop" => k \in Done(w)
          BY <1>2
        <4> QED  BY <1>2, <3>1, <3>3, <4>1 DEF HasMembers
      <3> QED  BY <3>2, <3>4
    <2>6. /\ wr[w].steps = layout \/ wr[w].steps = PlainSteps
          /\ wr[w].cast = NULL => wr[w].steps = layout
          /\ \A p \in DOMAIN wr[w].val : p \in DOMAIN klass.spec
      BY <1>2, <2>1 DEF WrapperInv
    <2>7. /\ wr'[w].st \notin {"none", "deleted"}
          /\ wr'[w].st = "constructing" <=> wr'[w].at <= Len(wr[w].steps)
          /\ wr'[w].at - 1 <= Len(wr[w].steps)
      BY <1>1 DEF Advanced
    <2> QED  BY <1>2, <2>3, <2>4, <2>5, <2>6, <2>7 DEF WrapperInv
  <1>6. ASSUME NEW o \in Objects PROVE ObjectInv(o)' /\ LastOf(o)' /\ Quiet(o)
    <2>1. ObjectInv(o) /\ LastOf(o)
      BY LastOfInv DEF IInv
    <2>2. obj[o].wrapper # NULL => wr'[obj[o].wrapper].val = wr[obj[o].wrapper].val
      BY <1>2, <1>4
    <2>3. ObjectInv(o)'
      <3>1. obj[o].wrapper = w => Live(w)' /\ wr'[w].gobject = wr[w].gobject
        BY <1>2
      <3>2. CASE obj[o].wrapper = w
        BY <1>2, <2>1, <3>1, <3>2 DEF ObjectInv, Alive, Live
      <3>3. CASE obj[o].wrapper # w
        BY <1>2, <1>4, <2>1, <3>3, ObjectFrame
      <3> QED  BY <3>2, <3>3
    <2>4. LastOf(o)'
      BY <1>2, <2>1, <2>2, LastFrame
    <2>5. Quiet(o)
      BY <1>2, <2>2, QuietFrame
    <2> QED  BY <2>3, <2>4, <2>5
  <1>7. NumbersInv' /\ ClassInv'
    BY <1>2 DEF IInv, NumbersInv, ClassInv, ClassInitOnce
  <1>8. \A x \in Wrappers : WrapperInv(x)'
    BY <1>4, <1>5
  <1> QED  BY <1>2, <1>3, <1>6, <1>7, <1>8 DEF IInv, LastInv, LastOf

LEMMA ExtraClassInitInv ==
  ASSUME IInv, NEW w \in Wrappers, ExtraClassInit(w)
  PROVE  IInv' /\ \A x \in Objects : Quiet(x)
  <1> DEFINE new == add_custom_class_init_function(wr[w])
  <1>1. Constructs(w, "extra") /\ Advance(w, new) /\ klass' = klass /\ obj' = obj
    BY DEF ExtraClassInit
  <1>2. wr[w] \in WrapperType /\ wr[w].inits \in Seq(Nat) /\ wr[w].at \in Nat
    BY Types DEF IInv
  <1>3. Append(wr[w].inits, wr[w].at) \in Seq(Nat)
    BY <1>2, AppendFacts
  <1>4. new \in WrapperType /\ new.inits = Append(wr[w].inits, wr[w].at)
        /\ new.st = wr[w].st /\ new.steps = wr[w].steps /\ new.at = wr[w].at
        /\ new.cast = wr[w].cast /\ new.gobject = wr[w].gobject /\ new.val = wr[w].val
        /\ new.ifaces = wr[w].ifaces
    BY <1>2, <1>3 DEF add_custom_class_init_function, WrapperType
  <1> HIDE DEF new
  <1>5. "extra" \in {"iface", "extra"} /\ "extra" # "iface"
    OBVIOUS
  <1> QED  BY <1>1, <1>4, <1>5, CollectInv

LEMMA ConcatFacts ==
  ASSUME NEW S, NEW s \in Seq(S), NEW t \in Seq(S)
  PROVE  /\ s \o t \in Seq(S) /\ Len(s \o t) = Len(s) + Len(t) /\ Len(s) \in Nat /\ Len(t) \in Nat
         /\ \A k \in 1 .. Len(s) : (s \o t)[k] = s[k]
         /\ s = <<>> => s \o t = t
  OBVIOUS

\* The class that an interface after Glib::Object grows has no properties yet.
LEMMA GrowsFromNothing ==
  ASSUME IInv, InterfacesInTime(layout), NEW w \in Wrappers, Live(w), wr[w].gobject # NULL,
         wr[w].at \in DOMAIN wr[w].steps, wr[w].steps[wr[w].at].op = "iface",
         Arg(w) \notin klass.ifaces
  PROVE  /\ wr[w].steps = layout /\ StepsOf(layout, "iface") = {wr[w].at}
         /\ klass.ifaces = {} /\ IfaceSize(klass) = 0 /\ DOMAIN klass.spec = {}
         /\ klass.registered
         /\ \A o \in Objects : obj[o].iface = NULL /\ DOMAIN last[o] = {}
         /\ ~\A k \in StepsOf(layout, "iface"), b \in StepsOf(layout, "object") : k < b
  <1>1. /\ wr[w].steps = layout /\ Ordered(layout) /\ wr[w].at \in Nat \ {0}
        /\ \A op : StepsOf(layout, op) = {k \in DOMAIN layout : layout[k].op = op}
        /\ Arg(w) = layout[wr[w].at].arg
    BY StepsOrdered, Layout DEF IInv, Arg
  <1>2. wr[w].at \in StepsOf(layout, "iface")
    BY <1>1
  <1>3. HasObject(w)
    BY ObjectOrMembers
  <1>4. PICK b \in Done(w) : layout[b].op = "object"
    BY <1>1, <1>3 DEF HasObject
  <1>5. b \in StepsOf(layout, "object") /\ ~(wr[w].at < b)
    BY <1>1, <1>4 DEF Done, Ordered
  <1>6. StepsOf(layout, "iface") = {wr[w].at}
    <2>1. PICK j \in StepsOf(layout, "iface") : StepsOf(layout, "iface") = {j}
      BY <1>2, <1>5 DEF InterfacesInTime
    <2> QED  BY <1>2, <2>1
  <1>7. klass.ifaces = {} /\ IfaceSize(klass) = 0
    <2>1. klass.ifaces \subseteq {layout[k].arg : k \in StepsOf(layout, "iface")}
      BY DEF IInv, ClassInv
    <2>2. klass.ifaces = {}
      BY <1>1, <1>6, <2>1
    <2> QED  BY <2>2 DEF IInv, ClassInv
  <1>8. DOMAIN klass.spec = {}
    <2>1. DOMAIN klass.spec \cap DOMAIN Props = {}
      BY <1>1, <1>2 DEF IInv, NumbersInv
    <2>2. ASSUME NEW n \in DOMAIN klass.spec, n \in IfaceNames PROVE FALSE
      <3>1. klass.spec[n] <= 0 /\ klass.spec[n] \in Nat \ {0}
        BY <1>7, <2>2, Layout DEF IInv, NumbersInv
      <3> QED  BY <3>1
    <2> QED  BY <2>1, <2>2, Layout DEF IInv, Names
  <1>9. klass.registered
    BY <1>3, ObjectOrMembers DEF HasObject, IInv, ObjectInv
  <1>10. ASSUME NEW o \in Objects PROVE obj[o].iface = NULL /\ DOMAIN last[o] = {}
    <2>1. ~(IfaceSize(klass) > 0)
      BY <1>7
    <2>2. obj[o].iface = NULL
      BY <2>1 DEF IInv, ObjectInv
    <2> QED  BY <1>8, <2>2 DEF IInv, LastInv
  <1> QED  BY <1>1, <1>2, <1>5, <1>6, <1>7, <1>8, <1>9, <1>10

LEMMA OverrideFacts ==
  ASSUME IInv, NEW i \in DOMAIN IfaceProps, DOMAIN klass.spec = {}, IfaceSize(klass) = 0,
         klass.ifaces = {}
  PROVE  LET c == OverrideInInterface(klass, i)
         IN  /\ c \in ClassType /\ c.ifaces = {i} /\ c.inits = klass.inits
             /\ c.registered = klass.registered
             /\ DOMAIN c.spec \subseteq IfaceNames /\ IfaceSize(c) \in Nat
             /\ \A n \in DOMAIN c.spec : c.spec[n] \in 1 .. IfaceSize(c)
             /\ \A m, n \in DOMAIN c.spec : c.spec[m] = c.spec[n] => m = n
  <1> DEFINE names == IfaceProps[i]
             number(n) == CHOOSE p \in DOMAIN names : names[p] = n
             fresh == [p \in DOMAIN names |-> Default(names[p])]
             spec == [n \in Range(names) |-> number(n)]
             c == OverrideInInterface(klass, i)
  <1>1. /\ names \in Seq(IfaceNames) /\ Len(names) \in Nat /\ DOMAIN names = 1 .. Len(names)
        /\ \A p \in DOMAIN names : names[p] \in IfaceNames
    BY NamesAssumption
  <1>2. Range(names) = {names[p] : p \in DOMAIN names}
    BY DEF Range
  <1>3. \A n \in Range(names) : number(n) \in DOMAIN names /\ names[number(n)] = n
    BY <1>2
  <1>4. fresh \in Seq(AnyValue) /\ Len(fresh) = Len(names)
    <2>1. \A p \in DOMAIN names : Default(names[p]) = "default" /\ "default" \in AnyValue
      BY <1>1, NamesAssumption DEF Default, AnyValue
    <2>2. fresh \in [1 .. Len(names) -> AnyValue]
      BY <1>1, <2>1
    <2> QED  BY <1>1, <2>2
  <1>5. klass \in ClassType /\ klass.defaults \in Seq(AnyValue) /\ Len(klass.defaults) = 0
    BY DEF IInv, TypeInv, ClassType, IfaceSize
  <1>6. klass.defaults \o fresh \in Seq(AnyValue) /\ Len(klass.defaults \o fresh) = Len(names)
    <2> HIDE DEF fresh
    <2>1. klass.defaults \o fresh \in Seq(AnyValue)
          /\ Len(klass.defaults \o fresh) = Len(klass.defaults) + Len(fresh)
      BY <1>4, <1>5, ConcatFacts
    <2> HIDE DEF names
    <2>2. Len(klass.defaults) = 0 /\ Len(fresh) = Len(names) /\ Len(names) \in Nat
      BY <1>1, <1>4, <1>5
    <2> QED  BY <2>1, <2>2
  <1>7. c = [klass EXCEPT !.defaults = klass.defaults \o fresh, !.spec = spec, !.ifaces = {i}]
    <2> DEFINE grown == [n \in DOMAIN klass.spec \cup Range(names) |->
                            IF n \in DOMAIN klass.spec THEN klass.spec[n]
                            ELSE IfaceSize(klass) + number(n)]
    <2>1. \A n \in Range(names) : IfaceSize(klass) + number(n) = number(n)
      BY <1>1, <1>3
    <2>2. grown = spec
      BY <2>1
    <2>3. c = add_interface([klass EXCEPT !.defaults = @ \o fresh, !.spec = grown], i)
      BY DEF OverrideInInterface
    <2> HIDE DEF grown, spec, fresh
    <2> QED  BY <1>5, <2>2, <2>3 DEF add_interface, ClassType
  <1>8. spec \in Partial(Names, Nat \ {0})
    <2>1. Range(names) \in SUBSET Names
      BY <1>1, <1>2 DEF Names
    <2>2. \A n \in Range(names) : number(n) \in Nat \ {0}
      BY <1>1, <1>3
    <2>3. spec \in [Range(names) -> Nat \ {0}]
      BY <2>2
    <2> QED  BY <2>1, <2>3 DEF Partial
  <1>9. /\ DOMAIN spec = Range(names) /\ \A n \in DOMAIN spec : spec[n] = number(n)
    OBVIOUS
  <1> HIDE DEF spec, fresh, c, number
  <1>10. /\ c.defaults = klass.defaults \o fresh /\ c.spec = spec /\ c.ifaces = {i}
         /\ c.inits = klass.inits
    BY <1>5, <1>7 DEF ClassType
  <1>11. c.registered = klass.registered
    BY <1>7
  <1>12. c \in ClassType
    BY <1>5, <1>6, <1>7, <1>8 DEF ClassType
  <1>13. IfaceSize(c) = Len(names)
    BY <1>6, <1>10 DEF IfaceSize
  <1>14. /\ DOMAIN c.spec \subseteq IfaceNames
         /\ \A n \in DOMAIN c.spec : c.spec[n] \in 1 .. IfaceSize(c)
         /\ \A m, n \in DOMAIN c.spec : c.spec[m] = c.spec[n] => m = n
    <2>1. DOMAIN c.spec \subseteq IfaceNames
      BY <1>1, <1>2, <1>9, <1>10
    <2>2. \A n \in DOMAIN c.spec : c.spec[n] \in 1 .. IfaceSize(c)
      BY <1>1, <1>3, <1>9, <1>10, <1>13
    <2>3. \A m, n \in DOMAIN c.spec : c.spec[m] = c.spec[n] => m = n
      <3> SUFFICES ASSUME NEW m \in DOMAIN c.spec, NEW n \in DOMAIN c.spec, c.spec[m] = c.spec[n]
                   PROVE  m = n
        OBVIOUS
      <3>1. number(m) = number(n) /\ names[number(m)] = m /\ names[number(n)] = n
        BY <1>3, <1>9, <1>10
      <3> QED  BY <3>1
    <2> QED  BY <2>1, <2>2, <2>3
  <1>15. IfaceSize(c) \in Nat
    BY <1>1, <1>13
  <1> QED  BY <1>10, <1>11, <1>12, <1>14, <1>15 DEF c

LEMMA InterfaceInv ==
  ASSUME IInv, InterfacesInTime(layout), NEW w \in Wrappers, Interface(w)
  PROVE  IInv' /\ \A x \in Objects : Quiet(x)
  <1>1. Constructs(w, "iface") /\ obj' = obj
    BY DEF Interface
  <1>2. wr[w] \in WrapperType /\ wr[w].ifaces \in Seq(DOMAIN IfaceProps)
    BY Types DEF IInv
  <1>3. CASE wr[w].gobject = NULL
    <2> DEFINE new == add_custom_interface_class(wr[w], Arg(w))
    <2>1. klass' = klass /\ Advance(w, new)
      BY <1>3 DEF Interface
    <2>2. Arg(w) \in DOMAIN IfaceProps
      <3>1. stack # <<>> /\ w = Head(stack) /\ wr[w].steps[wr[w].at].op = "iface"
        BY <1>1 DEF Constructs
      <3>2. Live(w) /\ wr[w].st = "constructing"
        <4>1. Head(stack) = stack[1] /\ 1 \in DOMAIN stack
          BY <3>1, PopFacts DEF IInv, TypeInv
        <4> QED  BY <3>1, <4>1 DEF IInv, StackInv, Live
      <3>3. Ordered(wr[w].steps) /\ wr[w].at \in Nat \ {0} /\ wr[w].at <= Len(wr[w].steps)
        BY <3>2, StepsOrdered DEF IInv, WrapperInv
      <3> QED  BY <3>1, <3>3 DEF Ordered, Arg
    <2>3. Append(wr[w].ifaces, Arg(w)) \in Seq(DOMAIN IfaceProps)
      BY <1>2, <2>2, AppendFacts
    <2>4. new \in WrapperType /\ new.ifaces = Append(wr[w].ifaces, Arg(w))
          /\ new.st = wr[w].st /\ new.steps = wr[w].steps /\ new.at = wr[w].at
          /\ new.cast = wr[w].cast /\ new.gobject = wr[w].gobject /\ new.val = wr[w].val
          /\ new.inits = wr[w].inits
      BY <1>2, <2>3 DEF add_custom_interface_class, WrapperType
    <2> HIDE DEF new
    <2>5. "iface" \in {"iface", "extra"} /\ "extra" # "iface"
      OBVIOUS
    <2> QED  BY <1>1, <1>3, <2>1, <2>4, <2>5, CollectInv
  <1>4. CASE wr[w].gobject # NULL /\ Arg(w) \in klass.ifaces
    <2>1. klass' = klass /\ Advance(w, wr[w])
      BY <1>4 DEF Interface
    <2>2. "iface" \in {"iface", "extra"}
      OBVIOUS
    <2> QED  BY <1>1, <1>2, <1>4, <2>1, <2>2, CollectInv
  <1>5. CASE wr[w].gobject # NULL /\ Arg(w) \notin klass.ifaces
    <2>1. klass' = OverrideInInterface(klass, Arg(w)) /\ Advance(w, wr[w])
      BY <1>5 DEF Interface
    <2>2. Advanced(w, "iface", wr[w])
      BY <1>1, <1>2, <2>1, AdvanceFacts
    <2>3. /\ Live(w) /\ wr[w].at \in DOMAIN wr[w].steps /\ wr[w].steps[wr[w].at].op = "iface"
          /\ Ordered(wr[w].steps) /\ wr[w].at \in Nat \ {0}
          /\ wr' \in [Wrappers -> WrapperType] /\ stack' \in Seq(Wrappers) /\ StackInv'
          /\ layout' = layout /\ last' = last /\ notice' = NULL
          /\ \A x \in Wrappers \ {w} : wr'[x] = wr[x]
          /\ Live(w)' /\ wr'[w].steps = wr[w].steps /\ wr'[w].at = wr[w].at + 1
          /\ wr'[w].gobject = wr[w].gobject /\ wr'[w].cast = wr[w].cast /\ wr'[w].val = wr[w].val
          /\ Done(w)' = Done(w) \cup {wr[w].at} /\ wr[w].at \notin Done(w)
      BY <2>2 DEF Advanced
    <2>4. /\ wr[w].steps = layout /\ StepsOf(layout, "iface") = {wr[w].at}
          /\ klass.ifaces = {} /\ IfaceSize(klass) = 0 /\ DOMAIN klass.spec = {}
          /\ klass.registered
          /\ \A o \in Objects : obj[o].iface = NULL /\ DOMAIN last[o] = {}
          /\ ~\A k \in StepsOf(layout, "iface"), b \in StepsOf(layout, "object") : k < b
      BY <1>5, <2>3, GrowsFromNothing
    <2>5. Arg(w) \in DOMAIN IfaceProps /\ Arg(w) = layout[wr[w].at].arg
      BY SMTT(30), <2>3, <2>4 DEF Ordered, Arg
    <2>6. /\ klass' \in ClassType /\ klass'.ifaces = {Arg(w)} /\ klass'.inits = klass.inits
          /\ klass'.registered = klass.registered
          /\ DOMAIN klass'.spec \subseteq IfaceNames /\ IfaceSize(klass') \in Nat
          /\ \A n \in DOMAIN klass'.spec : klass'.spec[n] \in 1 .. IfaceSize(klass')
          /\ \A m, n \in DOMAIN klass'.spec : klass'.spec[m] = klass'.spec[n] => m = n
      BY <2>1, <2>4, <2>5, OverrideFacts
    <2>7. TypeInv' /\ TypeInv
      BY <1>1, <2>3, <2>6 DEF IInv, TypeInv
    <2>8. ClassGrows
      BY <2>4, <2>6 DEF ClassGrows
    <2>9. /\ \A x \in Wrappers \ {w} : WrapperInv(x)'
          /\ \A o \in Objects : obj[o].wrapper # NULL /\ obj[o].wrapper # w =>
               SameWrapper(obj[o].wrapper) /\ wr'[obj[o].wrapper].val = wr[obj[o].wrapper].val
      <3> DEFINE changed == {}
      <3>1. /\ changed \in SUBSET Objects /\ \A y \in Objects \ changed : obj'[y] = obj[y]
            /\ \A x \in Wrappers \ {w} :
                 Live(x) => wr[x].gobject \notin changed
                            /\ (wr[x].gobject = NULL => wr[x].cast \notin changed)
        BY <1>1
      <3> HIDE DEF changed
      <3> QED  BY <2>2, <2>8, <3>1, AdvanceOthers
    <2>10. WrapperInv(w)'
      <3>1. WrapperInv(w) /\ HasObject(w) /\ HasMembers(w)
        BY <1>5, <2>3, ObjectOrMembers DEF IInv
      <3>2. {j \in Done(w)' : layout[j].op = "prop"} = {j \in Done(w) : layout[j].op = "prop"}
        BY <2>3, <2>4
      <3>3. DOMAIN wr'[w].val = {layout[k].arg : k \in {j \in Done(w)' : layout[j].op = "prop"}}
        BY <2>3, <2>4, <3>1, <3>2 DEF WrapperInv
      <3>4. HasObject(w)'
        <4>1. \A k \in Done(w)' : layout[k].op = "iface" => layout[k].arg \in klass'.ifaces
          <5> SUFFICES ASSUME NEW k \in Done(w)', layout[k].op = "iface"
                       PROVE  k = wr[w].at
            BY <2>5, <2>6
          <5>1. k \in DOMAIN layout
            BY <2>3, <2>4, StepsOrdered
          <5> QED  BY <2>4, <5>1 DEF StepsOf
        <4> QED  BY <1>1, <2>3, <2>4, <3>1, <4>1 DEF HasObject, Alive
      <3>5. HasMembers(w)'
        <4>1. wr[w].at - 1 \in Nat /\ wr[w].at - 1 + 1 = wr[w].at /\ wr'[w].at - 1 = wr[w].at
          BY <2>3
        <4>2. layout[wr[w].at - 1 + 1].op # "prop"
          BY <2>3, <2>4, <4>1
        <4>3. Ordinal(layout, wr'[w].at - 1) = Ordinal(layout, wr[w].at - 1)
          BY <4>1, <4>2, OrdinalNext
        <4>4. \A k \in Done(w)' : layout[k].op = "prop" => k \in Done(w)
          BY <2>3, <2>4
        <4> QED  BY <1>1, <2>3, <2>4, <3>1, <4>3, <4>4 DEF HasMembers
      <3>6. \A p \in DOMAIN wr[w].val : p \in DOMAIN klass'.spec
        BY <2>3, <2>4, <3>1 DEF WrapperInv
      <3>7. /\ wr'[w].st \notin {"none", "deleted"}
            /\ wr'[w].st = "constructing" <=> wr'[w].at <= Len(wr[w].steps)
            /\ wr'[w].at - 1 <= Len(wr[w].steps)
        BY <2>2 DEF Advanced
      <3> QED  BY <1>5, <2>3, <2>4, <3>3, <3>4, <3>5, <3>6, <3>7 DEF WrapperInv
    <2>11. ASSUME NEW o \in Objects PROVE ObjectInv(o)' /\ LastOf(o)' /\ Quiet(o)
      <3>1. ObjectInv(o)
        BY DEF IInv
      <3>2. obj[o].iface = NULL /\ DOMAIN last[o] = {}
        BY <2>4
      <3>3. obj[o].wrapper # NULL => /\ wr'[obj[o].wrapper].st \in {"constructing", "finished"}
                                     /\ wr'[obj[o].wrapper].gobject = o
        BY <2>3, <2>9, <3>1 DEF ObjectInv, SameWrapper, Live
      <3>4. ObjectInv(o)'
        BY <1>1, <2>3, <2>4, <2>6, <3>1, <3>2, <3>3 DEF ObjectInv, Alive, Live
      <3>5. LastOf(o)'
        BY <2>3, <3>2 DEF LastOf
      <3>6. Quiet(o)
        BY <2>4 DEF Quiet
      <3> QED  BY <3>4, <3>5, <3>6
    <2>12. NumbersInv'
      <3>1. DOMAIN klass'.spec \cap DOMAIN Props = {}
        BY <2>6, NamesAssumption
      <3>2. \A k \in StepsOf(layout, "prop") : layout[k].arg \in DOMAIN Props
        BY <2>3, <2>4 DEF StepsOf, Ordered
      <3>3. \A n \in DOMAIN klass'.spec \cap IfaceNames : klass'.spec[n] <= IfaceSize(klass')
        BY <2>6
      <3> QED  BY <2>3, <2>6, <3>1, <3>2, <3>3 DEF NumbersInv
    <2>13. ClassInv'
      <3>1. klass'.registered /\ klass'.ifaces # {}
        BY <2>4, <2>6
      <3>2. /\ \A k \in StepsOf(layout, "iface") : layout[k].arg \in klass'.ifaces
            /\ klass'.ifaces \subseteq {layout[k].arg : k \in StepsOf(layout, "iface")}
        BY <2>4, <2>5, <2>6
      <3>3. ClassInitOnce'
        BY <2>3, <2>4, <2>6 DEF IInv, ClassInv, ClassInitOnce
      <3> QED  BY <2>3, <3>1, <3>2, <3>3 DEF ClassInv
    <2>14. \A x \in Wrappers : WrapperInv(x)'
      BY <2>9, <2>10
    <2> QED  BY <2>3, <2>7, <2>11, <2>12, <2>13, <2>14 DEF IInv, LastInv, LastOf
  <1> QED  BY <1>3, <1>4, <1>5

-----------------------------------------------------------------------------
(* The constructor of Glib::Object.                                          *)

\* The class as custom_class_init_function() makes it for the first instance.
LEMMA FirstClass ==
  ASSUME IInv, ~klass.registered, NEW w \in Wrappers,
         NEW numbers \in Numbered(OverriddenIn(clone_custom_type(klass, wr[w].ifaces)))
  PROVE  LET c == custom_class_init_function(clone_custom_type(klass, wr[w].ifaces),
                                             wr[w].inits, numbers)
         IN  /\ c \in ClassType /\ c.registered /\ c.ifaces = Range(wr[w].ifaces)
             /\ c.inits = wr[w].inits /\ IfaceSize(c) \in Nat
             /\ c.ifaces = {} => IfaceSize(c) = 0
             /\ DOMAIN c.spec \subseteq IfaceNames
             /\ \A n \in DOMAIN c.spec : c.spec[n] \in 1 .. IfaceSize(c)
             /\ \A m, n \in DOMAIN c.spec : c.spec[m] = c.spec[n] => m = n
  <1> DEFINE k == clone_custom_type(klass, wr[w].ifaces)
             S == OverriddenIn(k)
             d == [id \in 1 .. Cardinality(DOMAIN numbers) |-> "default"]
             c == custom_class_init_function(k, wr[w].inits, numbers)
  <1>1. /\ klass = NoClass /\ wr[w].ifaces \in Seq(DOMAIN IfaceProps) /\ wr[w].inits \in Seq(Nat)
    BY Types DEF IInv, ClassInv
  <1>2. k = [registered |-> TRUE, ifaces |-> Range(wr[w].ifaces), defaults |-> <<>>,
             spec |-> <<>>, inits |-> <<>>]
    BY <1>1 DEF clone_custom_type, NoClass
  <1>3. Range(wr[w].ifaces) \subseteq DOMAIN IfaceProps
    BY <1>1 DEF Range
  <1>4. S \subseteq IfaceNames /\ (Range(wr[w].ifaces) = {} => S = {})
    BY <1>2, <1>3 DEF OverriddenIn, IfaceNames
  <1>5. IsFiniteSet(S) /\ Cardinality(S) \in Nat /\ (S = {} => Cardinality(S) = 0)
    <2>1. IsFiniteSet(S)
      BY <1>4, NamesAssumption, FS_Subset
    <2> QED  BY <2>1, FS_CardinalityType, FS_EmptySet
  <1> HIDE DEF S
  <1>6. /\ numbers \in [S -> 1 .. Cardinality(S)] /\ DOMAIN numbers = S
        /\ \A m, n \in S : numbers[m] = numbers[n] => m = n
    BY DEF S, Numbered, Bijection, Injection, Surjection, IsInjective
  <1>7. d \in Seq(AnyValue) /\ Len(d) = Cardinality(S)
    <2>1. d \in [1 .. Cardinality(S) -> AnyValue]
      BY <1>6 DEF AnyValue
    <2> HIDE DEF d
    <2>2. d \in UNION {[1 .. n -> AnyValue] : n \in Nat} /\ DOMAIN d = 1 .. Cardinality(S)
      BY <1>5, <2>1
    <2> QED  BY <1>5, <2>2
  <1>8. numbers \in Partial(Names, Nat \ {0})
    <2>1. S \in SUBSET Names
      BY <1>4 DEF Names
    <2>2. numbers \in [S -> Nat \ {0}]
      BY <1>5, <1>6
    <2> QED  BY <2>1, <2>2 DEF Partial
  <1> HIDE DEF d
  <1>9. c = [registered |-> TRUE, ifaces |-> Range(wr[w].ifaces), defaults |-> d,
             spec |-> numbers, inits |-> wr[w].inits]
    <2>1. c = [k EXCEPT !.inits = @ \o wr[w].inits, !.spec = numbers, !.defaults = d]
      BY DEF custom_class_init_function, d
    <2>2. <<>> \o wr[w].inits = wr[w].inits
      BY <1>1
    <2> HIDE DEF c, k
    <2>3. c = [registered |-> k.registered, ifaces |-> k.ifaces, defaults |-> d,
               spec |-> numbers, inits |-> k.inits \o wr[w].inits]
      BY <1>2, <2>1
    <2>4. k.registered = TRUE /\ k.ifaces = Range(wr[w].ifaces) /\ k.inits = <<>>
      BY <1>2
    <2> QED  BY <2>2, <2>3, <2>4
  <1> HIDE DEF c
  <1>10. c \in ClassType
    BY <1>1, <1>3, <1>7, <1>8, <1>9 DEF ClassType
  <1>11. /\ c.registered /\ c.ifaces = Range(wr[w].ifaces) /\ c.inits = wr[w].inits
         /\ IfaceSize(c) = Cardinality(S) /\ c.spec = numbers
    BY <1>7, <1>9 DEF IfaceSize
  <1>12. c.ifaces = {} => IfaceSize(c) = 0
    BY <1>4, <1>5, <1>11 DEF S
  <1>13. /\ DOMAIN c.spec \subseteq IfaceNames
         /\ \A n \in DOMAIN c.spec : c.spec[n] \in 1 .. IfaceSize(c)
         /\ \A m, n \in DOMAIN c.spec : c.spec[m] = c.spec[n] => m = n
    BY <1>4, <1>6, <1>11 DEF S
  <1> QED  BY <1>5, <1>10, <1>11, <1>12, <1>13 DEF c

\* The class after the constructor of Glib::Object of any instance.
LEMMA ClassOfObject ==
  ASSUME IInv, NEW w \in Wrappers, Live(w), wr[w].gobject = NULL, wr[w].steps = layout,
         wr[w].at \in DOMAIN layout, layout[wr[w].at].op = "object", layout' = layout,
         NEW numbers \in Numbered(OverriddenIn(clone_custom_type(klass, wr[w].ifaces))),
         klass' = IF klass.registered THEN clone_custom_type(klass, wr[w].ifaces)
                  ELSE custom_class_init_function(clone_custom_type(klass, wr[w].ifaces),
                                                  wr[w].inits, numbers)
  PROVE  /\ klass' \in ClassType /\ NumbersInv' /\ ClassInv' /\ klass'.registered /\ ClassGrows
         /\ klass.registered => klass' = klass
         /\ \A k \in Done(w) : layout[k].op = "iface" => layout[k].arg \in klass'.ifaces
  <1>1. /\ Ordered(layout) /\ Done(w) \subseteq DOMAIN layout /\ wr[w].at \in Nat \ {0}
        /\ Collects(w)
        /\ \A op : StepsOf(layout, op) = {k \in DOMAIN layout : layout[k].op = op}
    BY StepsOrdered, Layout, WithoutObject DEF IInv
  <1>2. StepsOf(layout, "object") = {wr[w].at}
    BY <1>1 DEF Ordered
  <1>3. Done(w) = {k \in DOMAIN layout : k < wr[w].at}
    BY <1>1 DEF Done, Ordered
  <1>4. CASE klass.registered
    <2>1. klass' = klass
      BY <1>4 DEF clone_custom_type
    <2>2. NumbersInv' /\ ClassInv' /\ klass' \in ClassType
      BY <2>1 DEF IInv, NumbersInv, ClassInv, ClassInitOnce, TypeInv
    <2>3. \A k \in Done(w) : layout[k].op = "iface" => layout[k].arg \in klass'.ifaces
      BY <1>1, <1>2, <1>3, <1>4, <2>1 DEF IInv, ClassInv
    <2> QED  BY <1>4, <2>1, <2>2, <2>3 DEF ClassGrows
  <1>5. CASE ~klass.registered
    <2>1. /\ klass' \in ClassType /\ klass'.registered /\ klass'.ifaces = Range(wr[w].ifaces)
          /\ klass'.inits = wr[w].inits /\ IfaceSize(klass') \in Nat
          /\ klass'.ifaces = {} => IfaceSize(klass') = 0
          /\ DOMAIN klass'.spec \subseteq IfaceNames
          /\ \A n \in DOMAIN klass'.spec : klass'.spec[n] \in 1 .. IfaceSize(klass')
          /\ \A m, n \in DOMAIN klass'.spec : klass'.spec[m] = klass'.spec[n] => m = n
      BY <1>5, FirstClass
    <2>2. klass'.ifaces = {layout[k].arg : k \in {j \in Done(w) : layout[j].op = "iface"}}
      BY SMTT(30), <1>1, <2>1 DEF Collects
    <2>3. NumbersInv'
      <3>1. DOMAIN klass'.spec \cap DOMAIN Props = {}
        BY <2>1, NamesAssumption
      <3>2. \A k \in StepsOf(layout, "prop") : layout[k].arg \in DOMAIN Props
        BY <1>1 DEF Ordered
      <3>3. \A n \in DOMAIN klass'.spec \cap IfaceNames : klass'.spec[n] <= IfaceSize(klass')
        BY <2>1
      <3> QED  BY <2>1, <3>1, <3>2, <3>3 DEF NumbersInv
    <2>4. /\ \A k \in StepsOf(layout, "iface"), b \in StepsOf(layout, "object") :
               k < b => layout[k].arg \in klass'.ifaces
          /\ klass'.ifaces \subseteq {layout[k].arg : k \in StepsOf(layout, "iface")}
      BY <1>1, <1>2, <1>3, <2>2
    <2>5. ClassInitOnce'
      <3>1. Range(klass'.inits) = {k \in Done(w) : layout[k].op = "extra"}
            /\ \A i, j \in DOMAIN klass'.inits : i < j => klass'.inits[i] < klass'.inits[j]
        BY <1>1, <2>1 DEF Collects
      <3>2. {k \in Done(w) : layout[k].op = "extra"}
            = {k \in StepsOf(layout, "extra") : \A b \in StepsOf(layout, "object") : k < b}
        BY <1>1, <1>2, <1>3
      <3> QED  BY <3>1, <3>2 DEF ClassInitOnce
    <2>6. ClassInv'
      BY <2>1, <2>4, <2>5 DEF ClassInv
    <2>7. ClassGrows
      <3>1. klass = NoClass
        BY <1>5 DEF IInv, ClassInv
      <3> QED  BY <3>1, Empty DEF NoClass, ClassGrows
    <2> QED  BY <1>5, <2>1, <2>2, <2>3, <2>6, <2>7
  <1> QED  BY <1>4, <1>5

\* A wrapper gets its GObject, a new one or the one it waits for.
LEMMA GetsObject ==
  ASSUME IInv, NEW w \in Wrappers, NEW new, Advanced(w, "object", new), wr[w].gobject = NULL,
         NEW o \in Objects, new.gobject = o, new.cast = wr[w].cast, new.val = wr[w].val,
         obj[o].wrapper = NULL, obj[o].st = "none" \/ (Alive(o) /\ wr[w].cast = o),
         obj' \in [Objects -> ObjectType], \A y \in Objects \ {o} : obj'[y] = obj[y],
         obj'[o].st = "alive", obj'[o].wrapper = w, obj'[o].base = <<>>,
         obj'[o].map = obj[o].map, obj'[o].iface = obj[o].iface,
         klass' \in ClassType, NumbersInv', ClassInv', klass'.registered, ClassGrows,
         klass.registered => klass' = klass,
         \A k \in Done(w) : wr[w].steps[k].op = "iface" => wr[w].steps[k].arg \in klass'.ifaces
  PROVE  IInv' /\ \A x \in Objects : Quiet(x)
  <1>1. /\ Live(w) /\ wr[w].at \in DOMAIN wr[w].steps /\ wr[w].steps[wr[w].at].op = "object"
        /\ Ordered(wr[w].steps) /\ wr[w].at \in Nat \ {0}
        /\ wr' \in [Wrappers -> WrapperType] /\ stack' \in Seq(Wrappers) /\ StackInv'
        /\ layout' = layout /\ last' = last /\ notice' = NULL
        /\ \A x \in Wrappers \ {w} : wr'[x] = wr[x]
        /\ Live(w)' /\ wr'[w].steps = wr[w].steps /\ wr'[w].at = wr[w].at + 1
        /\ wr'[w].gobject = o /\ wr'[w].cast = wr[w].cast /\ wr'[w].val = wr[w].val
        /\ Done(w)' = Done(w) \cup {wr[w].at} /\ wr[w].at \notin Done(w)
    BY DEF Advanced
  <1>2. TypeInv /\ TypeInv' /\ WrapperInv(w)
    BY <1>1 DEF IInv, TypeInv
  <1>3. o # NULL /\ w # NULL
    BY NullAssumption
  <1>4. \A x \in Wrappers \ {w} :
           Live(x) => wr[x].gobject \notin {o} /\ (wr[x].gobject = NULL => wr[x].cast \notin {o})
    <2> SUFFICES ASSUME NEW x \in Wrappers \ {w}, Live(x)
                 PROVE  wr[x].gobject # o /\ (wr[x].gobject = NULL => wr[x].cast # o)
      OBVIOUS
    <2>1. WrapperInv(x) /\ x # NULL
      BY NullAssumption DEF IInv
    <2>2. wr[x].gobject # o
      BY <1>3, <2>1 DEF WrapperInv, HasObject
    <2>3. ASSUME wr[x].gobject = NULL, wr[x].cast = o PROVE FALSE
      <3>1. Alive(o) /\ \A y \in Wrappers : Live(y) /\ wr[y].gobject = NULL /\ wr[y].cast = o => y = x
        BY <1>3, <2>1, <2>3 DEF WrapperInv, WaitsForCast
      <3>2. wr[w].cast = o
        BY <3>1 DEF Alive
      <3> QED  BY <1>1, <3>1, <3>2
    <2> QED  BY <2>2, <2>3
  <1>5. /\ \A x \in Wrappers \ {w} : WrapperInv(x)'
        /\ \A y \in Objects : obj[y].wrapper # NULL /\ obj[y].wrapper # w =>
             SameWrapper(obj[y].wrapper) /\ wr'[obj[y].wrapper].val = wr[obj[y].wrapper].val
    <2> DEFINE changed == {o}
    <2>1. /\ changed \in SUBSET Objects /\ \A y \in Objects \ changed : obj'[y] = obj[y]
          /\ \A x \in Wrappers \ {w} :
               Live(x) => wr[x].gobject \notin changed
                          /\ (wr[x].gobject = NULL => wr[x].cast \notin changed)
      BY <1>4
    <2> HIDE DEF changed
    <2> QED  BY SMTT(30), <1>3, <2>1, AdvanceOthers
  <1>6. \A k \in Done(w)' : wr[w].steps[k].op # "prop"
    <2> SUFFICES ASSUME NEW k \in Done(w)', wr[w].steps[k].op = "prop" PROVE FALSE
      OBVIOUS
    <2>1. k \in Nat /\ k >= 1 /\ k <= wr[w].at
      BY <1>1 DEF Done
    <2>2. k \in DOMAIN wr[w].steps
      BY <1>1, <2>1 DEF Ordered
    <2>3. wr[w].at < k
      BY <1>1, <2>2 DEF Ordered
    <2> QED  BY <1>1, <2>1, <2>3
  <1>7. WrapperInv(w)'
    <2>1. {j \in Done(w)' : wr[w].steps[j].op = "prop"} = {j \in Done(w) : wr[w].steps[j].op = "prop"}
      BY <1>1, <1>6
    <2>2. DOMAIN wr'[w].val = {wr[w].steps[k].arg : k \in {j \in Done(w)' : wr[w].steps[j].op = "prop"}}
      BY <1>1, <1>2, <2>1 DEF WrapperInv
    <2>3. HasObject(w)'
      <3>1. \A k \in Done(w)' : wr[w].steps[k].op = "iface" => wr[w].steps[k].arg \in klass'.ifaces
        BY <1>1
      <3> QED  BY <1>1, <3>1 DEF HasObject, Alive
    <2>4. HasMembers(w)'
      <3>1. Ordinal(wr[w].steps, wr'[w].at - 1) = 0
        <4>1. wr'[w].at - 1 = wr[w].at /\ Done(w)' = 1 .. wr[w].at
          BY <1>1 DEF Done
        <4>2. {j \in 1 .. wr[w].at : wr[w].steps[j].op = "prop"} = {}
          BY <1>6, <4>1
        <4> QED  BY <4>1, <4>2, FS_EmptySet DEF Ordinal
      <3> QED  BY <1>1, <1>6, <3>1, Empty DEF HasMembers
    <2>5. /\ wr[w].steps = layout \/ wr[w].steps = PlainSteps
          /\ wr[w].cast = NULL => wr[w].steps = layout
          /\ \A p \in DOMAIN wr[w].val : p \in DOMAIN klass'.spec
      BY <1>1, <1>2 DEF WrapperInv, ClassGrows
    <2>6. /\ wr'[w].st \notin {"none", "deleted"}
          /\ wr'[w].st = "constructing" <=> wr'[w].at <= Len(wr[w].steps)
          /\ wr'[w].at - 1 <= Len(wr[w].steps)
      BY DEF Advanced
    <2> QED  BY <1>1, <1>3, <2>2, <2>3, <2>4, <2>5, <2>6 DEF WrapperInv
  <1>8. DOMAIN wr[w].val = {}
    <2>1. \A k \in Done(w) : wr[w].steps[k].op # "prop"
      BY <1>1, <1>6
    <2> QED  BY SMTT(30), <1>1, <1>2, <2>1 DEF WrapperInv
  <1>9. ASSUME NEW x \in Objects PROVE ObjectInv(x)' /\ LastOf(x)' /\ Quiet(x)
    <2>1. ObjectInv(x) /\ LastOf(x)
      BY LastOfInv DEF IInv
    <2>2. Alive(x) => klass' = klass
      BY <2>1 DEF ObjectInv
    <2>3. CASE x = o
      <3>1. obj[o].st = "none" => obj[o].iface = NULL /\ DOMAIN last[o] = {}
        BY <2>1, <2>3 DEF ObjectInv, Alive
      <3>2. ObjectInv(x)'
        <4>1. obj'[o].iface # NULL => Len(obj'[o].iface) = IfaceSize(klass') /\ IfaceSize(klass') > 0
          BY <2>1, <2>2, <2>3, <3>1 DEF ObjectInv
        <4> QED  BY <1>1, <2>3, <4>1 DEF ObjectInv, Alive
      <3>3. LastOf(x)'
        <4>1. CASE DOMAIN last[o] = {}
          BY <1>1, <2>3, <4>1 DEF LastOf
        <4>2. CASE DOMAIN last[o] # {}
          <5>1. klass' = klass
            BY <2>2, <2>3, <3>1, <4>2
          <5>2. \A n : ~Holds(o, n) /\ ~Holds(o, n)'
            BY <1>1, <1>8 DEF Holds
          <5> QED  BY <1>1, <2>1, <2>3, <5>1, <5>2 DEF LastOf, index
        <4> QED  BY <4>1, <4>2
      <3>4. Quiet(x)
        BY <1>3, <2>3 DEF Quiet
      <3> QED  BY <3>2, <3>3, <3>4
    <2>4. CASE x # o
      <3>1. obj'[x] = obj[x] /\ obj[x].wrapper # w
        <4>1. obj[x].wrapper = w => wr[w].gobject = x
          BY <1>3, <2>1 DEF ObjectInv
        <4> QED  BY <2>4, <4>1, NullAssumption
      <3>2. obj[x].wrapper # NULL => SameWrapper(obj[x].wrapper)
                                     /\ wr'[obj[x].wrapper].val = wr[obj[x].wrapper].val
        BY <1>5, <3>1
      <3>3. ObjectInv(x)'
        <4>1. Alive(x) => IfaceSize(klass') = IfaceSize(klass)
          BY <2>2
        <4> QED  BY <1>1, <2>1, <3>1, <3>2, <4>1, ObjectFrame
      <3>4. LastOf(x)'
        <4>1. CASE Alive(x)
          BY <1>1, <2>1, <2>2, <3>1, <3>2, <4>1, LastFrame
        <4>2. CASE ~Alive(x)
          BY <1>1, <2>1, <4>2 DEF ObjectInv, LastOf
        <4> QED  BY <4>1, <4>2
      <3>5. Quiet(x)
        <4>1. CASE Alive(x)
          BY <2>2, <3>1, <3>2, <4>1, QuietFrame
        <4>2. CASE ~Alive(x)
          BY <4>2 DEF Quiet
        <4> QED  BY <4>1, <4>2
      <3> QED  BY <3>3, <3>4, <3>5
    <2> QED  BY <2>3, <2>4
  <1>10. \A x \in Wrappers : WrapperInv(x)'
    BY <1>5, <1>7
  <1> QED  BY <1>1, <1>2, <1>9, <1>10 DEF IInv, LastInv, LastOf

LEMMA ObjectStepInv ==
  ASSUME IInv, NEW w \in Wrappers, NEW o \in Objects, Object(w, o)
  PROVE  IInv' /\ \A x \in Objects : Quiet(x)
  <1> DEFINE new == custom_class_init_finished(initialize(w, o))
             fresh == [NoObject EXCEPT !.st = "alive", !.wrapper = w]
  <1>1. /\ Constructs(w, "object") /\ wr[w].cast = NULL /\ obj[o].st = "none"
        /\ obj' = [obj EXCEPT ![o] = fresh] /\ Advance(w, new)
    BY DEF Object
  <1>2. PICK numbers \in Numbered(OverriddenIn(clone_custom_type(klass, wr[w].ifaces))) :
           klass' = IF klass.registered THEN clone_custom_type(klass, wr[w].ifaces)
                    ELSE custom_class_init_function(clone_custom_type(klass, wr[w].ifaces),
                                                    wr[w].inits, numbers)
    BY DEF Object
  <1>3. wr[w] \in WrapperType /\ obj \in [Objects -> ObjectType]
    BY Types DEF IInv, TypeInv
  <1>4. /\ new \in WrapperType /\ new.st = wr[w].st /\ new.steps = wr[w].steps
        /\ new.at = wr[w].at /\ new.gobject = o /\ new.cast = wr[w].cast /\ new.val = wr[w].val
    <2>1. <<>> \in Seq(DOMAIN IfaceProps) /\ <<>> \in Seq(Nat)
      BY Empty
    <2> QED  BY <1>3, <2>1 DEF custom_class_init_finished, initialize, WrapperType
  <1> HIDE DEF new
  <1>5. Advanced(w, "object", new)
    BY <1>1, <1>4, AdvanceFacts
  <1>6. /\ Live(w) /\ wr[w].at \in DOMAIN wr[w].steps /\ wr[w].steps[wr[w].at].op = "object"
        /\ layout' = layout
    BY <1>5 DEF Advanced
  <1>7. wr[w].gobject = NULL
    BY <1>6, ObjectOrMembers
  <1>8. wr[w].steps = layout
    BY <1>1, <1>6 DEF IInv, WrapperInv
  <1>9. /\ klass' \in ClassType /\ NumbersInv' /\ ClassInv' /\ klass'.registered /\ ClassGrows
        /\ klass.registered => klass' = klass
        /\ \A k \in Done(w) : layout[k].op = "iface" => layout[k].arg \in klass'.ifaces
    BY <1>2, <1>6, <1>7, <1>8, ClassOfObject
  <1>10. obj[o] = NoObject
    BY <1>1 DEF IInv, ObjectInv
  <1>11. fresh \in ObjectType
    BY Empty DEF NoObject, ObjectType
  <1>12. /\ obj' \in [Objects -> ObjectType] /\ \A y \in Objects \ {o} : obj'[y] = obj[y]
         /\ obj'[o] = fresh
    BY <1>1, <1>3, <1>11
  <1>13. /\ obj'[o].st = "alive" /\ obj'[o].wrapper = w /\ obj'[o].base = <<>>
         /\ obj'[o].map = obj[o].map /\ obj'[o].iface = obj[o].iface /\ obj[o].wrapper = NULL
    BY <1>10, <1>12 DEF NoObject
  <1> QED  BY <1>1, <1>4, <1>5, <1>7, <1>8, <1>9, <1>12, <1>13, GetsObject

LEMMA ObjectCastInv ==
  ASSUME IInv, NEW w \in Wrappers, ObjectCast(w)
  PROVE  IInv' /\ \A x \in Objects : Quiet(x)
  <1> DEFINE o == wr[w].cast
             new == initialize(w, o)
  <1>1. /\ Constructs(w, "object") /\ o # NULL /\ obj' = [obj EXCEPT ![o].wrapper = w]
        /\ Advance(w, new) /\ klass' = klass
    BY DEF ObjectCast
  <1>2. wr[w] \in WrapperType /\ obj \in [Objects -> ObjectType] /\ o \in Objects
    BY <1>1, Types DEF IInv, TypeInv
  <1>3. /\ new \in WrapperType /\ new.st = wr[w].st /\ new.steps = wr[w].steps
        /\ new.at = wr[w].at /\ new.gobject = o /\ new.cast = wr[w].cast /\ new.val = wr[w].val
    BY <1>2 DEF initialize, WrapperType
  <1> HIDE DEF new
  <1>4. Advanced(w, "object", new)
    BY <1>1, <1>3, AdvanceFacts
  <1>5. /\ Live(w) /\ wr[w].at \in DOMAIN wr[w].steps /\ wr[w].steps[wr[w].at].op = "object"
        /\ Ordered(wr[w].steps) /\ wr[w].at \in Nat \ {0} /\ layout' = layout
    BY <1>4 DEF Advanced
  <1>6. wr[w].gobject = NULL
    BY <1>5, ObjectOrMembers
  <1>7. Alive(o) /\ obj[o].wrapper = NULL /\ obj[o].base = <<>> /\ klass.registered
    <2>1. WaitsForCast(w)
      BY <1>5, <1>6, WithoutObject
    <2> QED  BY <1>1, <1>2, <2>1 DEF WaitsForCast, IInv, ObjectInv
  <1>8. [obj[o] EXCEPT !.wrapper = w] \in ObjectType
    BY <1>2 DEF ObjectType
  <1>9. /\ obj' \in [Objects -> ObjectType] /\ \A y \in Objects \ {o} : obj'[y] = obj[y]
        /\ obj'[o] = [obj[o] EXCEPT !.wrapper = w]
    BY <1>1, <1>2, <1>8
  <1>10. /\ obj'[o].st = "alive" /\ obj'[o].wrapper = w /\ obj'[o].base = <<>>
         /\ obj'[o].map = obj[o].map /\ obj'[o].iface = obj[o].iface
    BY <1>2, <1>7, <1>9 DEF ObjectType, Alive
  <1>11. klass' \in ClassType /\ NumbersInv' /\ ClassInv' /\ klass'.registered /\ ClassGrows
    BY <1>1, <1>5, <1>7 DEF IInv, TypeInv, NumbersInv, ClassInv, ClassInitOnce, ClassGrows
  <1>12. \A k \in Done(w) : wr[w].steps[k].op = "iface" => wr[w].steps[k].arg \in klass'.ifaces
    <2> SUFFICES ASSUME NEW k \in Done(w), wr[w].steps[k].op = "iface"
                 PROVE  wr[w].steps[k].arg \in klass.ifaces
      BY <1>1
    <2>1. wr[w].steps = layout /\ k \in DOMAIN layout /\ k < wr[w].at
      BY <1>5, StepsOrdered DEF Done
    <2>2. k \in StepsOf(layout, "iface") /\ wr[w].at \in StepsOf(layout, "object")
      BY <1>5, <2>1 DEF StepsOf
    <2> QED  BY <1>7, <2>1, <2>2 DEF IInv, ClassInv
  <1> HIDE DEF o
  <1> QED  BY <1>1, <1>2, <1>3, <1>4, <1>6, <1>7, <1>9, <1>10, <1>11, <1>12, GetsObject DEF o

-----------------------------------------------------------------------------
(* The constructors of Glib::Property.                                       *)

\* Where the next member comes in the vector of its object.
LEMMA NextMember ==
  ASSUME IInv, NEW w \in Wrappers, Live(w), wr[w].at \in DOMAIN wr[w].steps,
         wr[w].steps[wr[w].at].op = "prop"
  PROVE  LET base == obj[wr[w].gobject].base
         IN  /\ wr[w].steps = layout /\ wr[w].gobject \in Objects /\ Alive(wr[w].gobject)
             /\ HasObject(w) /\ HasMembers(w) /\ obj[wr[w].gobject].wrapper = w /\ w # NULL
             /\ base \in Seq([w : Wrappers, p : DOMAIN Props]) /\ Len(base) \in Nat
             /\ Ordinal(layout, wr[w].at) = Len(base) + 1
             /\ \A k \in Done(w) : layout[k].op = "prop" => Ordinal(layout, k) \in 1 .. Len(base)
             /\ Arg(w) \in DOMAIN Props /\ Arg(w) = layout[wr[w].at].arg /\ Arg(w) \notin DOMAIN wr[w].val
             /\ wr[w].at \in StepsOf(layout, "prop")
             /\ \A k \in StepsOf(layout, "prop") : layout[k].arg = Arg(w) => k = wr[w].at
             /\ klass.registered
  <1> DEFINE base == obj[wr[w].gobject].base
  <1>1. /\ Ordered(wr[w].steps) /\ wr[w].at \in Nat \ {0} /\ wr[w].steps = layout
        /\ Done(w) \subseteq DOMAIN layout
    BY StepsOrdered
  <1>2. wr[w].gobject # NULL /\ HasObject(w) /\ HasMembers(w) /\ wr[w].gobject \in Objects /\ w # NULL
    BY ObjectOrMembers, NullAssumption
  <1>3. Alive(wr[w].gobject) /\ obj[wr[w].gobject].wrapper = w /\ klass.registered
    BY <1>2 DEF HasObject, IInv, ObjectInv
  <1>4. base \in Seq([w : Wrappers, p : DOMAIN Props])
    BY <1>2, Types DEF IInv
  <1>5. Len(base) \in Nat
    BY <1>4
  <1>6. wr[w].at - 1 \in Nat /\ wr[w].at - 1 + 1 = wr[w].at
    BY <1>1
  <1>7. Len(base) = Ordinal(layout, wr[w].at - 1)
    BY <1>1, <1>2 DEF HasMembers
  <1> HIDE DEF base
  <1>8. Ordinal(layout, wr[w].at) = Len(base) + 1
    BY <1>1, <1>6, <1>7, OrdinalNext
  <1>9. ASSUME NEW k \in Done(w), layout[k].op = "prop"
        PROVE  Ordinal(layout, k) \in 1 .. Len(base)
    <2>1. k \in Nat /\ 0 < k /\ (k = wr[w].at - 1 \/ k < wr[w].at - 1)
      BY <1>1 DEF Done
    <2>2. Ordinal(layout, k) \in Nat /\ Ordinal(layout, k) >= 1
      BY <1>9, <2>1, OrdinalNext, OrdinalMonotone
    <2>3. Ordinal(layout, k) <= Ordinal(layout, wr[w].at - 1)
      BY <1>6, <2>1, <2>2, OrdinalMonotone
    <2> QED  BY <1>5, <1>7, <2>2, <2>3
  <1>10. /\ Arg(w) \in DOMAIN Props /\ Arg(w) = layout[wr[w].at].arg
         /\ wr[w].at \in StepsOf(layout, "prop")
         /\ \A k \in StepsOf(layout, "prop") : layout[k].arg = Arg(w) => k = wr[w].at
    BY <1>1 DEF Ordered, Arg, StepsOf
  <1>11. Arg(w) \notin DOMAIN wr[w].val
    <2> SUFFICES ASSUME Arg(w) \in DOMAIN wr[w].val PROVE FALSE
      OBVIOUS
    <2>1. PICK k \in Done(w) : layout[k].op = "prop" /\ layout[k].arg = Arg(w)
      BY SMTT(60), <1>1 DEF IInv, WrapperInv
    <2>2. k = wr[w].at
      BY <1>1, <1>10, <2>1 DEF StepsOf
    <2> QED  BY <1>1, <2>2 DEF Done
  <1> QED  BY <1>1, <1>2, <1>3, <1>4, <1>5, <1>8, <1>9, <1>10, <1>11 DEF base

LEMMA GetsMember ==
  ASSUME IInv, NEW w \in Wrappers, NEW new, NEW v \in AnyValue, Advanced(w, "prop", new),
         new.gobject = wr[w].gobject, new.cast = wr[w].cast, new.val = Put(wr[w].val, Arg(w), v),
         obj' = [obj EXCEPT ![wr[w].gobject].base = Append(@, [w |-> w, p |-> Arg(w)])],
         klass' \in ClassType, NumbersInv', ClassInv', klass'.registered,
         klass'.ifaces = klass.ifaces, klass'.defaults = klass.defaults,
         \A n \in DOMAIN klass.spec : n \in DOMAIN klass'.spec /\ klass'.spec[n] = klass.spec[n],
         Arg(w) \in DOMAIN klass'.spec,
         Arg(w) \in DOMAIN last[wr[w].gobject] => v = last[wr[w].gobject][Arg(w)]
  PROVE  IInv' /\ \A x \in Objects : Quiet(x)
  <1> DEFINE o == wr[w].gobject
             p == Arg(w)
             base == obj[o].base
             entry == [w |-> w, p |-> p]
  <1>1. /\ Live(w) /\ wr[w].at \in DOMAIN wr[w].steps /\ wr[w].steps[wr[w].at].op = "prop"
        /\ Ordered(wr[w].steps) /\ wr[w].at \in Nat \ {0}
        /\ wr' \in [Wrappers -> WrapperType] /\ stack' \in Seq(Wrappers) /\ StackInv'
        /\ layout' = layout /\ last' = last /\ notice' = NULL
        /\ \A x \in Wrappers \ {w} : wr'[x] = wr[x]
        /\ Live(w)' /\ wr'[w].steps = wr[w].steps /\ wr'[w].at = wr[w].at + 1
        /\ wr'[w].gobject = o /\ wr'[w].cast = wr[w].cast /\ wr'[w].val = Put(wr[w].val, p, v)
        /\ Done(w)' = Done(w) \cup {wr[w].at} /\ wr[w].at \notin Done(w)
    BY DEF Advanced
  <1>2. /\ wr[w].steps = layout /\ o \in Objects /\ Alive(o)
        /\ HasObject(w) /\ HasMembers(w) /\ obj[o].wrapper = w /\ w # NULL
        /\ base \in Seq([w : Wrappers, p : DOMAIN Props]) /\ Len(base) \in Nat
        /\ Ordinal(layout, wr[w].at) = Len(base) + 1
        /\ \A k \in Done(w) : layout[k].op = "prop" => Ordinal(layout, k) \in 1 .. Len(base)
        /\ p \in DOMAIN Props /\ p = layout[wr[w].at].arg /\ p \notin DOMAIN wr[w].val
    BY <1>1, NextMember
  <1>3. obj \in [Objects -> ObjectType] /\ obj[o] \in ObjectType /\ TypeInv /\ WrapperInv(w)
    BY <1>2 DEF IInv, TypeInv
  <1>4. /\ Append(base, entry) \in Seq([w : Wrappers, p : DOMAIN Props])
        /\ Len(Append(base, entry)) = Len(base) + 1
        /\ DOMAIN Append(base, entry) = 1 .. Len(base) + 1 /\ DOMAIN base = 1 .. Len(base)
        /\ \A i \in 1 .. Len(base) : Append(base, entry)[i] = base[i]
        /\ Append(base, entry)[Len(base) + 1] = entry
    <2> DEFINE R == [w : Wrappers, p : DOMAIN Props]
    <2>1. entry \in R /\ base \in Seq(R)
      BY <1>2
    <2> HIDE DEF R, entry, base
    <2> QED  BY <2>1, AppendFacts DEF R
  <1> HIDE DEF base
  <1>5. /\ obj' \in [Objects -> ObjectType] /\ \A y \in Objects \ {o} : obj'[y] = obj[y]
        /\ obj'[o] = [obj[o] EXCEPT !.base = Append(base, entry)]
    <2>1. obj' = [obj EXCEPT ![o] = [obj[o] EXCEPT !.base = Append(base, entry)]]
      BY <1>2, <1>3 DEF ObjectType, base
    <2> HIDE DEF o, entry
    <2> DEFINE X == [obj[o] EXCEPT !.base = Append(base, entry)]
    <2>2. X \in ObjectType
      BY <1>3, <1>4 DEF ObjectType
    <2>3. o \in Objects /\ obj' = [obj EXCEPT ![o] = X]
      BY <1>2, <2>1
    <2> HIDE DEF X
    <2>4. obj' \in [Objects -> ObjectType] /\ obj'[o] = X
      BY <1>3, <2>2, <2>3
    <2>5. \A y \in Objects \ {o} : obj'[y] = obj[y]
      BY <1>3, <2>3
    <2> QED  BY <2>4, <2>5 DEF X
  <1>6. /\ obj'[o].base = Append(base, entry) /\ obj'[o].st = obj[o].st
        /\ obj'[o].wrapper = w /\ obj'[o].map = obj[o].map /\ obj'[o].iface = obj[o].iface
    <2>1. obj[o] \in ObjectType /\ obj[o].wrapper = w
      BY <1>2, <1>3
    <2> HIDE DEF o, p, base, entry
    <2>2. obj'[o] = [obj[o] EXCEPT !.base = Append(base, entry)]
      BY <1>5
    <2> QED  BY <2>1, <2>2 DEF ObjectType
  <1> HIDE DEF o, p
  <1>7. TypeInv' /\ ClassGrows /\ IfaceSize(klass') = IfaceSize(klass)
    BY <1>1, <1>3, <1>5 DEF TypeInv, ClassGrows, IfaceSize
  <1>8. /\ DOMAIN wr'[w].val = DOMAIN wr[w].val \cup {p} /\ wr'[w].val[p] = v
        /\ \A n \in DOMAIN wr[w].val : n # p => wr'[w].val[n] = wr[w].val[n]
    BY <1>1 DEF Put
  <1>9. \A x \in Wrappers \ {w} :
           Live(x) => wr[x].gobject \notin {o} /\ (wr[x].gobject = NULL => wr[x].cast \notin {o})
    <2> SUFFICES ASSUME NEW x \in Wrappers \ {w}, Live(x)
                 PROVE  wr[x].gobject # o /\ (wr[x].gobject = NULL => wr[x].cast # o)
      OBVIOUS
    <2>1. WrapperInv(x) /\ o # NULL
      BY <1>2, NullAssumption DEF IInv
    <2> QED  BY <1>2, <2>1 DEF WrapperInv, HasObject, WaitsForCast
  <1>10. /\ \A x \in Wrappers \ {w} : WrapperInv(x)'
         /\ \A y \in Objects : obj[y].wrapper # NULL /\ obj[y].wrapper # w =>
              SameWrapper(obj[y].wrapper) /\ wr'[obj[y].wrapper].val = wr[obj[y].wrapper].val
    <2> DEFINE changed == {o}
    <2>1. /\ changed \in SUBSET Objects /\ \A y \in Objects \ changed : obj'[y] = obj[y]
          /\ \A x \in Wrappers \ {w} :
               Live(x) => wr[x].gobject \notin changed
                          /\ (wr[x].gobject = NULL => wr[x].cast \notin changed)
      BY <1>2, <1>5, <1>9
    <2> HIDE DEF changed
    <2> QED  BY <1>7, <2>1, AdvanceOthers
  <1>11. WrapperInv(w)'
    <2>1. DOMAIN wr'[w].val = {layout[k].arg : k \in {j \in Done(w)' : layout[j].op = "prop"}}
      <3>1. DOMAIN wr[w].val = {layout[k].arg : k \in {j \in Done(w) : layout[j].op = "prop"}}
        BY <1>1, <1>2, <1>3 DEF WrapperInv
      <3>2. {j \in Done(w)' : layout[j].op = "prop"}
            = {j \in Done(w) : layout[j].op = "prop"} \cup {wr[w].at}
        BY <1>1, <1>2
      <3> QED  BY <1>2, <1>8, <3>1, <3>2
    <2>2. HasObject(w)'
      <3>1. \A k \in Done(w)' : layout[k].op = "iface" => k \in Done(w)
        BY SMTT(30), <1>1, <1>2
      <3> QED  BY <1>1, <1>2, <1>6, <3>1 DEF HasObject, Alive
    <2>3. HasMembers(w)'
      <3>1. wr'[w].at - 1 = wr[w].at
        BY <1>1
      <3>2. Len(obj'[o].base) = Ordinal(layout, wr'[w].at - 1)
        BY <1>2, <1>4, <1>6, <3>1 DEF base
      <3>3. \A k \in Done(w)' : layout[k].op = "prop" =>
               obj'[o].base[Ordinal(layout, k)] = [w |-> w, p |-> layout[k].arg]
        <4> SUFFICES ASSUME NEW k \in Done(w)', layout[k].op = "prop"
                     PROVE  obj'[o].base[Ordinal(layout, k)] = [w |-> w, p |-> layout[k].arg]
          OBVIOUS
        <4>1. CASE k \in Done(w)
          <5>1. base[Ordinal(layout, k)] = [w |-> w, p |-> layout[k].arg]
            BY <1>2, <4>1 DEF HasMembers, base, o
          <5>2. Ordinal(layout, k) \in 1 .. Len(base)
            BY <1>2, <4>1 DEF base
          <5> QED  BY <1>4, <1>6, <5>1, <5>2
        <4>2. CASE k = wr[w].at
          <5>1. Ordinal(layout, k) = Len(base) + 1 /\ p = layout[k].arg
            BY <1>2, <4>2 DEF base
          <5> QED  BY <1>4, <1>6, <5>1
        <4> QED  BY <1>1, <4>1, <4>2
      <3>4. \A i \in DOMAIN obj'[o].base : obj'[o].base[i].w = w /\ obj'[o].base[i].p \in DOMAIN wr'[w].val
        <4> SUFFICES ASSUME NEW i \in 1 .. Len(base) + 1
                     PROVE  /\ Append(base, entry)[i].w = w
                            /\ Append(base, entry)[i].p \in DOMAIN wr'[w].val
          BY SMTT(30), <1>4, <1>6
        <4>1. CASE i = Len(base) + 1
          BY <1>4, <1>8, <4>1
        <4>2. CASE i \in 1 .. Len(base)
          <5>1. base[i].w = w /\ base[i].p \in DOMAIN wr[w].val
            BY <1>2, <1>4, <4>2 DEF HasMembers, base, o
          <5> QED  BY <1>4, <1>8, <4>2, <5>1
        <4> QED  BY SMTT(30), <1>2, <4>1, <4>2 DEF base
      <3>5. wr'[w].gobject = o /\ wr'[w].steps = layout
        BY <1>1, <1>2
      <3> QED  BY <3>2, <3>3, <3>4, <3>5 DEF HasMembers
    <2>4. /\ wr[w].cast = NULL => wr[w].steps = layout
          /\ \A n \in DOMAIN wr'[w].val : n \in DOMAIN klass'.spec
      BY <1>1, <1>2, <1>3, <1>8 DEF WrapperInv, p
    <2>5. /\ wr'[w].st \notin {"none", "deleted"}
          /\ wr'[w].st = "constructing" <=> wr'[w].at <= Len(wr[w].steps)
          /\ wr'[w].at - 1 <= Len(wr[w].steps)
      BY DEF Advanced
    <2>6. o # NULL
      BY <1>2, NullAssumption
    <2> QED  BY <1>1, <1>2, <2>1, <2>2, <2>3, <2>4, <2>5, <2>6 DEF WrapperInv
  <1>12. ASSUME NEW x \in Objects PROVE ObjectInv(x)' /\ LastOf(x)' /\ Quiet(x)
    <2>1. ObjectInv(x) /\ LastOf(x)
      BY LastOfInv DEF IInv
    <2>2. CASE x = o
      <3>1. ObjectInv(x)'
        BY <1>1, <1>2, <1>6, <1>7, <2>1, <2>2 DEF ObjectInv, Alive
      <3>2. LastOf(x)'
        <4> SUFFICES ASSUME NEW n \in DOMAIN last[o]
                     PROVE  /\ n \in DOMAIN klass'.spec
                            /\ n \in IfaceNames => obj[o].iface # NULL
                                                   /\ obj[o].iface[klass'.spec[n]] = last[o][n]
                            /\ n \in DOMAIN Props =>
                                 IF n \in DOMAIN wr'[w].val THEN wr'[w].val[n] = last[o][n]
                                 ELSE index(n)' \in DOMAIN obj[o].map
                                      /\ obj[o].map[index(n)'] = last[o][n]
          BY <1>1, <1>2, <1>6, <2>2 DEF LastOf, Holds
        <4>1. n \in DOMAIN klass.spec /\ n \in DOMAIN klass'.spec /\ klass'.spec[n] = klass.spec[n]
          BY <2>1, <2>2 DEF LastOf
        <4>2. index(n)' = index(n)
          BY <1>7, <4>1 DEF index
        <4>3. CASE n = p
          <5>1. v = last[o][n]
            BY <4>3 DEF o, p
          <5>2. n \notin IfaceNames
            BY <1>2, <4>3, NamesAssumption
          <5> QED  BY <1>8, <4>1, <4>3, <5>1, <5>2
        <4>4. CASE n # p
          <5>1. Holds(o, n) <=> n \in DOMAIN wr[w].val
            BY <1>2 DEF Holds
          <5> QED  BY <1>2, <1>8, <2>1, <2>2, <4>1, <4>2, <4>4, <5>1 DEF LastOf
        <4> QED  BY SMTT(30), <4>3, <4>4
      <3>3. obj'[x].base # obj[x].base
        <4>1. Len(obj'[o].base) = Len(base) + 1 /\ Len(base) \in Nat
          BY <1>2, <1>4, <1>6 DEF base
        <4>2. obj[x].base = base /\ Len(base) + 1 # Len(base)
          BY <2>2, <4>1 DEF base
        <4>3. Len(obj'[x].base) # Len(base)
          BY <2>2, <4>1, <4>2
        <4> QED  BY SMTT(30), <4>2, <4>3
      <3> QED  BY SMTT(30), <3>1, <3>2, <3>3 DEF Quiet
    <2>3. CASE x # o
      <3>1. obj'[x] = obj[x] /\ obj[x].wrapper # w
        <4>1. obj[x].wrapper = w => wr[w].gobject = x
          BY <1>2, <2>1 DEF ObjectInv
        <4> QED  BY <1>5, <2>3, <4>1 DEF o
      <3>2. obj[x].wrapper # NULL => SameWrapper(obj[x].wrapper)
                                     /\ wr'[obj[x].wrapper].val = wr[obj[x].wrapper].val
        BY <1>10, <3>1
      <3>3. ObjectInv(x)'
        BY <1>1, <1>7, <2>1, <3>1, <3>2, ObjectFrame
      <3>4. LastOf(x)'
        BY <1>1, <1>7, <2>1, <3>1, <3>2, LastFrame
      <3>5. Quiet(x)
        BY <1>7, <3>1, <3>2, QuietFrame
      <3> QED  BY <3>3, <3>4, <3>5
    <2> QED  BY <2>2, <2>3
  <1>13. \A x \in Wrappers : WrapperInv(x)'
    BY <1>10, <1>11
  <1> QED  BY <1>1, <1>7, <1>12, <1>13 DEF IInv, LastInv, LastOf

LEMMA LookupInv ==
  ASSUME IInv, NEW w \in Wrappers, Constructs(w, "prop"), lookup_property(w, Arg(w))
  PROVE  IInv' /\ \A x \in Objects : Quiet(x)
  <1> DEFINE o == wr[w].gobject
             p == Arg(w)
             pos == Len(obj[o].base) + 1
             v == IF pos \in DOMAIN obj[o].map THEN obj[o].map[pos] ELSE Props[p].default
             new == [wr[w] EXCEPT !.val = Put(@, p, v)]
  <1>1. /\ p \in DOMAIN klass.spec /\ klass' = klass /\ Advance(w, new)
        /\ obj' = [obj EXCEPT ![wr[w].gobject].base = Append(@, [w |-> w, p |-> Arg(w)])]
    BY DEF lookup_property
  <1>2. /\ Live(w) /\ wr[w].at \in DOMAIN wr[w].steps /\ wr[w].steps[wr[w].at].op = "prop"
    <2>1. stack # <<>> /\ w = Head(stack) /\ wr[w].steps[wr[w].at].op = "prop"
      BY DEF Constructs
    <2>2. Head(stack) = stack[1] /\ 1 \in DOMAIN stack
      BY <2>1, PopFacts DEF IInv, TypeInv
    <2>3. Live(w) /\ wr[w].st = "constructing"
      BY <2>1, <2>2 DEF IInv, StackInv, Live
    <2>4. Ordered(wr[w].steps) /\ wr[w].at \in Nat \ {0} /\ wr[w].at <= Len(wr[w].steps)
      BY <2>3, StepsOrdered DEF IInv, WrapperInv
    <2> QED  BY <2>1, <2>3, <2>4 DEF Ordered
  <1>3. /\ o \in Objects /\ Alive(o) /\ obj[o].wrapper = w /\ p \in DOMAIN Props
        /\ Ordinal(layout, wr[w].at) = pos /\ p \notin DOMAIN wr[w].val
        /\ wr[w].at \in StepsOf(layout, "prop") /\ p = layout[wr[w].at].arg /\ klass.registered
    BY <1>2, NextMember
  <1>4. v \in AnyValue
    <2>1. obj[o].map \in Partial(Nat, AnyValue)
      BY <1>3, Types DEF IInv
    <2>2. \A x \in DOMAIN obj[o].map : obj[o].map[x] \in AnyValue
      BY <2>1, PartialFacts
    <2>3. Props[p].default \in AnyValue
      BY SMTT(30), <1>3, NamesAssumption
    <2> HIDE DEF o, p, pos
    <2> QED  BY <2>2, <2>3
  <1>5. ASSUME p \in DOMAIN last[o] PROVE v = last[o][p]
    <2>1. klass.spec[p] = IfaceSize(klass) + Ordinal(layout, wr[w].at)
      BY <1>1, <1>3 DEF IInv, NumbersInv
    <2>2. IfaceSize(klass) \in Nat /\ pos \in Nat
      <3>1. IfaceSize(klass) \in Nat
        BY Layout DEF IInv
      <3>2. pos \in Nat
        BY <1>2, NextMember
      <3> QED  BY <3>1, <3>2
    <2>3. index(p) = pos
      <3> HIDE DEF pos, p
      <3>1. klass.spec[p] = IfaceSize(klass) + pos
        BY <1>3, <2>1
      <3>2. (IfaceSize(klass) + pos) - IfaceSize(klass) = pos
        BY <2>2
      <3> QED  BY <3>1, <3>2 DEF index
    <2>4. ~Holds(o, p)
      BY <1>3 DEF Holds
    <2>5. LastOf(o)
      BY <1>3, LastOfInv
    <2> QED  BY SMTT(30), <1>3, <1>5, <2>3, <2>4, <2>5 DEF LastOf
  <1> HIDE DEF v
  <1>6. wr[w] \in WrapperType /\ wr[w].val \in Partial(DOMAIN Props, AnyValue)
    BY Types DEF IInv
  <1>7. Put(wr[w].val, p, v) \in Partial(DOMAIN Props, AnyValue)
    BY <1>3, <1>4, <1>6, PartialFacts
  <1>8. /\ new \in WrapperType /\ new.st = wr[w].st /\ new.steps = wr[w].steps
        /\ new.at = wr[w].at /\ new.gobject = wr[w].gobject /\ new.cast = wr[w].cast
        /\ new.val = Put(wr[w].val, Arg(w), v)
    BY <1>6, <1>7 DEF WrapperType
  <1> HIDE DEF new
  <1>9. Advanced(w, "prop", new)
    BY <1>1, <1>8, AdvanceFacts
  <1>10. /\ klass' \in ClassType /\ NumbersInv' /\ ClassInv' /\ klass'.registered
         /\ klass'.ifaces = klass.ifaces /\ klass'.defaults = klass.defaults
         /\ \A n \in DOMAIN klass.spec : n \in DOMAIN klass'.spec /\ klass'.spec[n] = klass.spec[n]
         /\ Arg(w) \in DOMAIN klass'.spec
    <2>1. layout' = layout
      BY <1>9 DEF Advanced
    <2> QED  BY <1>1, <1>3, <2>1 DEF IInv, TypeInv, NumbersInv, ClassInv, ClassInitOnce
  <1>11. Arg(w) \in DOMAIN last[wr[w].gobject] => v = last[wr[w].gobject][Arg(w)]
    BY SMTT(30), <1>5
  <1> HIDE DEF o, p
  <1> QED  BY <1>1, <1>4, <1>8, <1>9, <1>10, <1>11, GetsMember

LEMMA InstallInv ==
  ASSUME IInv, InterfacesInTime(layout), NEW w \in Wrappers, Constructs(w, "prop"),
         install_property(w, Arg(w))
  PROVE  IInv' /\ \A x \in Objects : Quiet(x)
  <1> DEFINE o == wr[w].gobject
             p == Arg(w)
             id == Len(obj[o].base) + IfaceSize(klass) + 1
             v == Props[p].default
             new == [wr[w] EXCEPT !.val = Put(@, p, v)]
             spec == Put(klass.spec, p, id)
  <1>1. /\ p \notin DOMAIN klass.spec /\ klass' = InstallInClass(klass, p, id) /\ Advance(w, new)
        /\ obj' = [obj EXCEPT ![wr[w].gobject].base = Append(@, [w |-> w, p |-> Arg(w)])]
    BY DEF install_property
  <1>2. /\ Live(w) /\ wr[w].at \in DOMAIN wr[w].steps /\ wr[w].steps[wr[w].at].op = "prop"
    <2>1. stack # <<>> /\ w = Head(stack) /\ wr[w].steps[wr[w].at].op = "prop"
      BY DEF Constructs
    <2>2. Head(stack) = stack[1] /\ 1 \in DOMAIN stack
      BY <2>1, PopFacts DEF IInv, TypeInv
    <2>3. Live(w) /\ wr[w].st = "constructing"
      BY <2>1, <2>2 DEF IInv, StackInv, Live
    <2>4. Ordered(wr[w].steps) /\ wr[w].at \in Nat \ {0} /\ wr[w].at <= Len(wr[w].steps)
      BY <2>3, StepsOrdered DEF IInv, WrapperInv
    <2> QED  BY <2>1, <2>3, <2>4 DEF Ordered
  <1>3. /\ o \in Objects /\ Alive(o) /\ obj[o].wrapper = w /\ p \in DOMAIN Props /\ HasObject(w)
        /\ Ordinal(layout, wr[w].at) = Len(obj[o].base) + 1 /\ Len(obj[o].base) \in Nat
        /\ wr[w].at \in StepsOf(layout, "prop") /\ p = layout[wr[w].at].arg /\ klass.registered
        /\ \A k \in StepsOf(layout, "prop") : layout[k].arg = p => k = wr[w].at
        /\ wr[w].steps = layout
    BY <1>2, NextMember
  <1>4. /\ IfaceSize(klass) \in Nat /\ id = IfaceSize(klass) + Ordinal(layout, wr[w].at)
        /\ id \in Nat \ {0} /\ v \in AnyValue /\ p \in Names /\ p \notin IfaceNames
    <2>1. IfaceSize(klass) \in Nat
      BY Layout DEF IInv
    <2>2. id = IfaceSize(klass) + Ordinal(layout, wr[w].at) /\ id \in Nat \ {0}
      <3> DEFINE n == Len(obj[o].base)
                 m == IfaceSize(klass)
      <3>1. n \in Nat /\ m \in Nat /\ Ordinal(layout, wr[w].at) = n + 1
        BY <1>3, <2>1
      <3> HIDE DEF n, m
      <3>2. n + m + 1 = m + (n + 1) /\ n + m + 1 \in Nat \ {0}
        BY <3>1
      <3> QED  BY <3>1, <3>2 DEF n, m
    <2>3. v \in AnyValue /\ p \in Names /\ p \notin IfaceNames
      BY <1>3, NamesAssumption DEF Names
    <2> QED  BY <2>1, <2>2, <2>3
  <1> HIDE DEF id, v
  <1>5. klass \in ClassType /\ klass.spec \in Partial(Names, Nat \ {0})
    BY DEF IInv, TypeInv, ClassType
  <1>6. /\ spec \in Partial(Names, Nat \ {0}) /\ DOMAIN spec = DOMAIN klass.spec \cup {p}
        /\ spec[p] = id /\ \A n \in DOMAIN klass.spec : spec[n] = klass.spec[n]
    <2>1. spec \in Partial(Names, Nat \ {0})
      BY <1>4, <1>5, PartialFacts
    <2> QED  BY <1>1, <2>1 DEF Put
  <1>7. klass' = [klass EXCEPT !.spec = spec]
    BY <1>1 DEF InstallInClass
  <1> HIDE DEF spec
  <1>8. /\ klass' \in ClassType /\ klass'.spec = spec /\ klass'.ifaces = klass.ifaces
        /\ klass'.defaults = klass.defaults /\ klass'.inits = klass.inits
    BY <1>5, <1>6, <1>7 DEF ClassType
  <1>9. klass'.registered
    <2>1. klass'.registered = klass.registered
      BY <1>7
    <2> QED  BY <1>3, <2>1
  <1>10. wr[w] \in WrapperType /\ wr[w].val \in Partial(DOMAIN Props, AnyValue)
    BY Types DEF IInv
  <1>11. Put(wr[w].val, p, v) \in Partial(DOMAIN Props, AnyValue)
    BY <1>3, <1>4, <1>10, PartialFacts
  <1>12. /\ new \in WrapperType /\ new.st = wr[w].st /\ new.steps = wr[w].steps
         /\ new.at = wr[w].at /\ new.gobject = wr[w].gobject /\ new.cast = wr[w].cast
         /\ new.val = Put(wr[w].val, Arg(w), v)
    BY <1>10, <1>11 DEF WrapperType
  <1> HIDE DEF new
  <1>13. Advanced(w, "prop", new)
    BY <1>1, <1>12, AdvanceFacts
  <1>14. layout' = layout
    BY <1>13 DEF Advanced
  <1>15. \A k \in StepsOf(layout, "iface") : layout[k].arg \in klass.ifaces
    <2>1. CASE \A j \in StepsOf(layout, "iface"), b \in StepsOf(layout, "object") : j < b
      <3>1. PICK b \in DOMAIN layout : layout[b].op = "object"
        BY Layout DEF IInv, Ordered
      <3>2. b \in StepsOf(layout, "object")
        BY <3>1 DEF StepsOf
      <3> QED  BY <1>3, <2>1, <3>2 DEF IInv, ClassInv
    <2>2. CASE \E j \in StepsOf(layout, "iface") :
                 StepsOf(layout, "iface") = {j} /\ \A k \in StepsOf(layout, "prop") : j < k
      <3>1. PICK j \in StepsOf(layout, "iface") :
              StepsOf(layout, "iface") = {j} /\ \A k \in StepsOf(layout, "prop") : j < k
        BY <2>2
      <3>2. j \in DOMAIN layout /\ layout[j].op = "iface" /\ j < wr[w].at
        BY <1>3, <3>1 DEF StepsOf
      <3>3. j \in Done(w)
        <4>1. Ordered(layout) /\ wr[w].at \in Nat \ {0}
          BY <1>2, <1>3, StepsOrdered
        <4> QED  BY <3>2, <4>1 DEF Done, Ordered
      <3> QED  BY <1>3, <3>1, <3>2, <3>3 DEF HasObject
    <2> QED  BY <2>1, <2>2 DEF InterfacesInTime
  <1>16. NumbersInv'
    <2>1. IfaceSize(klass') = IfaceSize(klass) /\ NumbersInv
      BY <1>8 DEF IfaceSize, IInv
    <2>2. DOMAIN spec \subseteq IfaceNames \cup {layout[k].arg : k \in StepsOf(layout, "prop")}
      BY <1>3, <1>6, <2>1 DEF NumbersInv
    <2>3. /\ \A n \in DOMAIN spec \cap IfaceNames : spec[n] <= IfaceSize(klass)
          /\ \A m, n \in DOMAIN spec \cap IfaceNames : spec[m] = spec[n] => m = n
      BY <1>4, <1>6, <2>1 DEF NumbersInv
    <2>4. \A k \in StepsOf(layout, "prop") : layout[k].arg \in DOMAIN spec =>
             spec[layout[k].arg] = IfaceSize(klass) + Ordinal(layout, k)
      BY <1>3, <1>4, <1>6, <2>1 DEF NumbersInv
    <2> QED  BY <1>8, <1>14, <1>15, <2>1, <2>2, <2>3, <2>4 DEF NumbersInv
  <1>17. ClassInv'
    <2>1. ClassInitOnce'
      BY <1>3, <1>8, <1>14 DEF IInv, ClassInv, ClassInitOnce
    <2> QED  BY <1>3, <1>8, <1>9, <1>14, <2>1 DEF IInv, ClassInv, IfaceSize
  <1>18. /\ \A n \in DOMAIN klass.spec : n \in DOMAIN klass'.spec /\ klass'.spec[n] = klass.spec[n]
         /\ Arg(w) \in DOMAIN klass'.spec
    BY <1>6, <1>8
  <1>19. Arg(w) \notin DOMAIN last[wr[w].gobject]
    BY <1>1, <1>3, LastOfInv DEF LastOf
  <1> HIDE DEF o, p
  <1> QED  BY <1>1, <1>4, <1>8, <1>9, <1>12, <1>13, <1>16, <1>17, <1>18, <1>19, GetsMember

-----------------------------------------------------------------------------
(* The theorems.                                                             *)

(* What they need: no GObject gets a second wrapper (property.cc appends its *)
(* members to the vector that still has those of the first), and interfaces  *)
(* do not come too late for the numbers of the class.                        *)
InTime == ~Rewrap /\ \A l \in Layouts : InterfacesInTime(l)

LEMMA PropertyInv ==
  ASSUME IInv, InTime, NEW w \in Wrappers, Property(w)
  PROVE  IInv' /\ \A x \in Objects : Quiet(x)
  <1>1. InterfacesInTime(layout)
    BY DEF IInv, TypeInv, InTime
  <1>2. Constructs(w, "prop") /\ (lookup_property(w, Arg(w)) \/ install_property(w, Arg(w)))
    BY DEF Property
  <1> QED  BY <1>1, <1>2, LookupInv, InstallInv

LEMMA NextIInv ==
  ASSUME IInv, InTime, [Next]_vars
  PROVE  IInv' /\ \A x \in Objects : Quiet(x)
  <1>1. InterfacesInTime(layout) /\ ~Rewrap
    BY DEF IInv, TypeInv, InTime
  <1>2. Zero \in AnyValue /\ Values \subseteq AnyValue
    BY DEF AnyValue
  <1>3. ASSUME NEW w \in Wrappers, ConstructNew(w) PROVE IInv' /\ \A x \in Objects : Quiet(x)
    BY <1>1, <1>3, BeginInv DEF ConstructNew
  <1>4. ASSUME NEW w \in Wrappers, NEW o \in Objects, ConstructDerived(w, o)
        PROVE  IInv' /\ \A x \in Objects : Quiet(x)
    BY <1>1, <1>4, BeginInv DEF ConstructDerived
  <1>5. ASSUME NEW w \in Wrappers, NEW o \in Objects, WrapPlain(w, o)
        PROVE  IInv' /\ \A x \in Objects : Quiet(x)
    <2>1. Begin(w, o, PlainSteps) /\ o # NULL
      BY <1>5, NullAssumption DEF WrapPlain, PlainSteps
    <2> QED  BY <1>1, <2>1, BeginInv
  <1>6. ASSUME NEW w \in Wrappers, NEW o \in Objects, Object(w, o)
        PROVE  IInv' /\ \A x \in Objects : Quiet(x)
    BY <1>6, ObjectStepInv
  <1>7. ASSUME NEW w \in Wrappers, Interface(w) \/ ExtraClassInit(w) \/ ObjectCast(w) \/ Property(w)
        PROVE  IInv' /\ \A x \in Objects : Quiet(x)
    BY <1>1, <1>7, InterfaceInv, ExtraClassInitInv, ObjectCastInv, PropertyInv
  <1>8. ASSUME NEW w \in Wrappers, NEW n \in DOMAIN klass.spec, NEW v \in AnyValue, ProxySet(w, n, v)
        PROVE  IInv' /\ \A x \in Objects : Quiet(x)
    BY <1>8, ProxySetInv
  <1>9. ASSUME NEW w \in Wrappers, NEW n \in DOMAIN klass.spec, reset_property_(w, n)
        PROVE  IInv' /\ \A x \in Objects : Quiet(x)
    BY <1>2, <1>8, <1>9 DEF reset_property_
  <1>10. ASSUME NEW w \in Wrappers, NEW p \in DOMAIN Props, NEW v \in Values,
                set_value(w, p, v) \/ set_value_WriteOnly(w, p, v)
         PROVE  IInv' /\ \A x \in Objects : Quiet(x)
    BY <1>10, SetValueInv
  <1>11. ASSUME NEW w \in Wrappers, NEW survives \in BOOLEAN, DeleteWrapper(w, survives)
         PROVE  IInv' /\ \A x \in Objects : Quiet(x)
    BY <1>11, DeleteWrapperInv
  <1>12. ASSUME NEW o \in Objects, CreateInC(o) \/ Finalize(o)
         PROVE  IInv' /\ \A x \in Objects : Quiet(x)
    BY <1>12, CreateInCInv, FinalizeInv
  <1>13. ASSUME NEW o \in Objects, NEW n \in DOMAIN klass.spec, NEW v \in Values,
                g_object_set_property(o, n, v)
         PROVE  IInv' /\ \A x \in Objects : Quiet(x)
    BY <1>2, <1>13, SetPropertyInv
  <1>14. CASE UNCHANGED vars
    <2>1. /\ layout' = layout /\ klass' = klass /\ stack' = stack /\ obj' = obj /\ wr' = wr
          /\ last' = last /\ notice' = notice
      BY <1>14 DEF vars
    <2>2. TypeInv'
      BY SMTT(30), <2>1 DEF IInv, TypeInv
    <2>3. \A w \in Wrappers : WrapperInv(w)'
      BY <2>1 DEF IInv, WrapperInv, Live, Collects, WaitsForCast, HasObject, HasMembers, Done, Alive
    <2>4. StackInv' /\ \A x \in Objects : ObjectInv(x)'
      BY <2>1 DEF IInv, StackInv, ObjectInv, Live, Alive
    <2>5. NumbersInv' /\ ClassInv' /\ LastInv'
      BY <2>1 DEF IInv, NumbersInv, ClassInv, ClassInitOnce, LastInv, Holds, index
    <2>6. ASSUME NEW x \in Objects PROVE Quiet(x)
      BY <2>1, QuietFrame
    <2> QED  BY <2>2, <2>3, <2>4, <2>5, <2>6 DEF IInv
  <1>15. CASE Next
    <2>1. CASE \E w \in Wrappers :
                 \/ ConstructNew(w)
                 \/ \E o \in Objects : ConstructDerived(w, o) \/ WrapPlain(w, o) \/ Object(w, o)
                 \/ Interface(w) \/ ExtraClassInit(w) \/ ObjectCast(w) \/ Property(w)
      BY <1>3, <1>4, <1>5, <1>6, <1>7, <2>1
    <2>2. CASE \E w \in Wrappers : \E n \in DOMAIN klass.spec :
                 reset_property_(w, n) \/ \E v \in Values : ProxySet(w, n, v)
      BY <1>2, <1>8, <1>9, <2>2
    <2>3. CASE \E w \in Wrappers :
                 \/ \E p \in DOMAIN Props, v \in Values :
                      set_value(w, p, v) \/ set_value_WriteOnly(w, p, v)
                 \/ \E survives \in BOOLEAN : DeleteWrapper(w, survives)
      BY <1>10, <1>11, <2>3
    <2>4. CASE \E o \in Objects :
                 \/ CreateInC(o) \/ Finalize(o)
                 \/ \E n \in DOMAIN klass.spec, v \in Values : g_object_set_property(o, n, v)
      BY <1>12, <1>13, <2>4
    <2> QED  BY <1>15, <2>1, <2>2, <2>3, <2>4 DEF Next
  <1> QED  BY <1>14, <1>15

LEMMA InvariantHolds ==
  ASSUME InTime
  PROVE  Spec => []IInv
  <1>1. Init => IInv
    BY InitInv
  <1>2. IInv /\ [Next]_vars => IInv'
    BY NextIInv
  <1> QED  BY <1>1, <1>2, PTL DEF Spec

(***************************************************************************)
(* With a GObject and the number of a property the member of the wrapper   *)
(* is found, for any order of constructors, any interfaces with any number *)
(* of properties, and any number of instances under construction.          *)
(***************************************************************************)
THEOREM MembersStayFound ==
  ASSUME InTime
  PROVE  Spec => []IdFindsProperty
  BY InvariantHolds, InvIdFindsProperty, PTL

(***************************************************************************)
(* A read that is answered gives the last value that was accepted.         *)
(***************************************************************************)
THEOREM LastWriteIsRead ==
  ASSUME InTime
  PROVE  Spec => []ReadsLastWrite
  BY InvariantHolds, InvReadsLastWrite, PTL

(***************************************************************************)
(* The class init functions of the first instance run, once each and in    *)
(* order, and those of no other instance.                                  *)
(***************************************************************************)
THEOREM ClassInitsRunOnce ==
  ASSUME InTime
  PROVE  Spec => []ClassInitOnce
  BY InvariantHolds, InvClassInitOnce, PTL

\* A type does not lose a property.
LEMMA SpecGrows ==
  ASSUME IInv, [Next]_vars
  PROVE  DOMAIN klass.spec \subseteq DOMAIN klass'.spec
  <1>1. TypeInv /\ klass \in ClassType
    BY DEF IInv, TypeInv
  <1>2. ASSUME NEW w \in Wrappers, NEW o \in Objects, Object(w, o)
        PROVE  DOMAIN klass.spec \subseteq DOMAIN klass'.spec
    <2>1. klass.registered => klass' = klass
      BY <1>2 DEF Object, clone_custom_type
    <2>2. ~klass.registered => DOMAIN klass.spec = {}
      BY Empty DEF IInv, ClassInv, NoClass
    <2> QED  BY <2>1, <2>2
  <1>3. ASSUME NEW w \in Wrappers, Interface(w)
        PROVE  DOMAIN klass.spec \subseteq DOMAIN klass'.spec
    <2>1. klass' = klass \/ klass' = OverrideInInterface(klass, Arg(w))
      BY <1>3 DEF Interface
    <2>2. ASSUME NEW i PROVE DOMAIN klass.spec \subseteq DOMAIN OverrideInInterface(klass, i).spec
      BY <1>1 DEF OverrideInInterface, add_interface, ClassType
    <2> QED  BY <2>1, <2>2
  <1>4. ASSUME NEW w \in Wrappers, Property(w)
        PROVE  DOMAIN klass.spec \subseteq DOMAIN klass'.spec
    <2>1. klass' = klass \/ \E n, id : klass' = InstallInClass(klass, n, id)
      BY <1>4 DEF Property, lookup_property, install_property
    <2>2. ASSUME NEW n, NEW id
          PROVE  DOMAIN klass.spec \subseteq DOMAIN InstallInClass(klass, n, id).spec
      BY <1>1 DEF InstallInClass, Put, ClassType
    <2> QED  BY <2>1, <2>2
  <1>5. CASE klass' = klass
    BY <1>5
  <1>6. \/ klass' = klass
        \/ \E w \in Wrappers : Interface(w) \/ Property(w) \/ \E o \in Objects : Object(w, o)
    BY ZenonT(40) DEF Next, vars, ConstructNew, ConstructDerived, WrapPlain, Begin, ExtraClassInit, ObjectCast,
           reset_property_, ProxySet, g_object_set_property, set_value, set_value_WriteOnly,
           DeleteWrapper, CreateInC, Finalize
  <1> QED  BY <1>2, <1>3, <1>4, <1>5, <1>6

\* The callback returns what a reader sees, before a step and after it.
Answers ==
  \A o \in Objects : \A n \in DOMAIN klass.spec :
    Alive(o) => glibmm_custom_get_property_callback(o, n) = Seen(o, n)

LEMMA InvAnswers == IInv => Answers
  BY ReaderSees DEF Answers

(***************************************************************************)
(* What a reader of a property sees changes only with a notification of    *)
(* that property, unless the constructor or destructor of the object's own *)
(* wrapper is at work.                                                     *)
(***************************************************************************)
THEOREM ChangesAreNotified ==
  ASSUME InTime
  PROVE  Spec => ChangeNotifies
  <1> DEFINE Step ==
        \A o \in Objects :
          (Alive(o) /\ Alive(o)' /\ obj[o].wrapper' = obj[o].wrapper /\ obj[o].base' = obj[o].base)
          => \A n \in DOMAIN klass.spec :
               (Readable(n) /\ glibmm_custom_get_property_callback(o, n)'
                                 # glibmm_custom_get_property_callback(o, n))
               => notice' = <<o, n>>
  <1>1. IInv /\ Answers /\ Answers' /\ [Next]_vars => [Step]_vars
    <2> SUFFICES ASSUME IInv, Answers, Answers', [Next]_vars, NEW o \in Objects,
                        Alive(o), Alive(o)', obj[o].wrapper' = obj[o].wrapper,
                        obj[o].base' = obj[o].base, NEW n \in DOMAIN klass.spec,
                        glibmm_custom_get_property_callback(o, n)'
                          # glibmm_custom_get_property_callback(o, n)
                 PROVE  notice' = <<o, n>>
      OBVIOUS
    <2>1. Quiet(o)
      BY NextIInv
    <2>2. Seen(o, n)' = Seen(o, n) \/ notice' = <<o, n>>
      BY <2>1 DEF Quiet
    <2>3. glibmm_custom_get_property_callback(o, n) = Seen(o, n)
      BY DEF Answers
    <2>4. n \in DOMAIN klass'.spec
      BY SpecGrows
    <2>5. glibmm_custom_get_property_callback(o, n)' = Seen(o, n)'
      BY <2>4 DEF Answers
    <2> QED  BY <2>2, <2>3, <2>5
  <1>2. Spec => [][Step]_vars
    BY <1>1, InvariantHolds, InvAnswers, PTL DEF Spec
  <1> QED  BY <1>2 DEF ChangeNotifies

=============================================================================
