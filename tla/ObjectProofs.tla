---------------------------- MODULE ObjectProofs ----------------------------
(***************************************************************************)
(* Proofs about GObjects: their wrappers (ObjectBase), for any number of   *)
(* GObjects, wrappers and threads, of a wrap() that uses wrap_mutex, and   *)
(* the slots connected to them (SignalProxy), for any number of connection *)
(* nodes and exception handlers and any depth of nested emissions.         *)
(***************************************************************************)
EXTENDS ObjectBase, SignalProxy, FiniteSetTheorems, SequenceTheorems, TLAPS

(***************************************************************************)
(* The wrappers.                                                           *)
(*                                                                         *)
(* None of SingleWrapper, WrappersAlive and RefCountExact is inductive     *)
(* alone.  That a call of wrap() finds the wrapper it has seen rests on    *)
(* its reference, which keeps the GObject; that an object is finalized     *)
(* only when nobody uses it rests on the counts being exact; and counting  *)
(* rests on an object having one wrapper.  IInv joins them: what a call of *)
(* wrap() knows at each step (CallsOK), how the two sides point to each    *)
(* other (WrappersOK, ObjectsOK), and the counts (Exact).                  *)
(***************************************************************************)

\* The call c is one of wrap(); it is a constructor that throws.
Wraps(c) == c.pc \notin {"idle", "threw", "release"}
Throws(c) == c.pc \in {"threw", "release"}

\* A constructor throws in thread t: nobody else knows the new object.
ThrowOK(t, c) ==
  /\ c.obj \in Objects /\ gobj[c.obj] = "live" /\ cHolders[c.obj] \subseteq {t}
  /\ c.w \in Variables /\ wrapper[c.w] = "constructing"
  /\ c.pc = "threw" => qdata[c.obj] = c.w /\ gobject[c.w] = c.obj
  /\ c.pc = "release" => qdata[c.obj] = NULL /\ gobject[c.w] = NULL
  /\ \A u \in Threads : u # t /\ Throws(call[u]) => call[u].obj # c.obj /\ call[u].w # c.w

\* The call c by thread t.
CallOK(t, c) ==
  /\ c.pc = "idle" => c = Idle
  /\ Throws(c) => ThrowOK(t, c)
  /\ Wraps(c) => c.obj \in Objects /\ t \in cHolders[c.obj]
  /\ c.pc \in {"create", "set", "construct"} => mutex = t
  /\ mutex = t => Wraps(c) /\ c.pc # "lock"
  /\ c.pc = "lookup" /\ mutex # t => qdata[c.obj] # NULL
  /\ c.pc \in {"create", "set"} => qdata[c.obj] = NULL
  /\ c.pc = "set" =>
       c.w \in HeapWrappers /\ wrapper[c.w] = "constructing" /\ gobject[c.w] = c.obj
  /\ c.pc \in {"construct", "finish"} => c.w \in Wrappers /\ qdata[c.obj] = c.w
  /\ c.pc = "construct" => c.w \in HeapWrappers

CallsOK == \A t \in Threads : CallOK(t, call[t])

\* Thread t is about to make w the current wrapper of its object.
Setting(t, w) == call[t].pc = "set" /\ call[t].w = w

WrapperOK(w) ==
  /\ refptrs[w] > 0 => wrapper[w] = "live"
  /\ gobject[w] # NULL =>
       /\ gobj[gobject[w]] = "live"
       /\ wrapper[w] \in {"constructing", "live"}
       /\ qdata[gobject[w]] = w \/ \E t \in Threads : Setting(t, w)
  /\ gobject[w] = NULL =>
       /\ refptrs[w] = 0
       /\ w \in HeapWrappers => wrapper[w] # "live"

WrappersOK == \A w \in Wrappers : WrapperOK(w)

ObjectOK(o) ==
  /\ qdata[o] # NULL => gobject[qdata[o]] = o
  /\ cHolders[o] # {} => gobj[o] = "live"
  /\ gobj[o] = "unborn" => leaked[o] = 0

ObjectsOK == \A o \in Objects : ObjectOK(o)

\* A wrapper that is a variable owns a reference.
Var(w) == IF w \in Variables /\ wrapper[w] = "live" THEN 1 ELSE 0

\* So does a constructor that throws; other references are lost.
Thrown(o) == IF \E t \in Threads : Throws(call[t]) /\ call[t].obj = o THEN 1 ELSE 0
Extra(o) == Thrown(o) + leaked[o]

Exact(o) ==
  gobj[o] = "live" =>
    /\ \A w \in Wrappers :
         gobject[w] = o => gref[o] = Cardinality(cHolders[o]) + refptrs[w] + Var(w) + Extra(o)
    /\ (\A w \in Wrappers : gobject[w] # o) => gref[o] = Cardinality(cHolders[o]) + Extra(o)

Counts == \A o \in Objects : Exact(o)

IInv == TypeOK /\ CallsOK /\ WrappersOK /\ ObjectsOK /\ Counts

-----------------------------------------------------------------------------
(* What the invariant says in one state. *)

LEMMA ExtraNat ==
  ASSUME TypeOK, NEW o \in Objects
  PROVE  /\ Extra(o) \in Nat
         /\ Extra(o) = 0 => \A t \in Threads : Throws(call[t]) => call[t].obj # o
  BY DEF TypeOK, Extra, Thrown

\* Steps that leave the constructors that throw, and what is lost, alone.
LEMMA ExtraKept ==
  ASSUME NEW o, leaked'[o] = leaked[o],
         \A t \in Threads : \/ call'[t] = call[t]
                            \/ ~Throws(call[t]) /\ ~Throws(call[t])'
  PROVE  Extra(o)' = Extra(o)
  <1>1. \A t \in Threads : (Throws(call[t]) /\ call[t].obj = o)' <=> Throws(call[t]) /\ call[t].obj = o
    BY DEF Throws
  <1>2. Thrown(o)' = Thrown(o)
    BY <1>1 DEF Thrown
  <1> QED  BY <1>2 DEF Extra

\* Two wrappers never wrap the same object.
LEMMA Single ==
  ASSUME IInv, NEW w \in Wrappers, NEW x \in Wrappers,
         gobject[w] # NULL, gobject[w] = gobject[x]
  PROVE  w = x
  <1> DEFINE o == gobject[w]
  <1>1. o \in Objects /\ WrapperOK(w) /\ WrapperOK(x)
    BY DEF IInv, TypeOK, WrappersOK
  <1>2. ASSUME NEW t \in Threads, NEW y \in Wrappers, gobject[y] = o, Setting(t, y)
        PROVE  mutex = t /\ qdata[o] = NULL
    BY <1>2 DEF IInv, CallsOK, CallOK, Setting, Wraps
  <1>3. CASE qdata[o] = w \/ qdata[o] = x
    BY <1>1, <1>2, <1>3, ObjectBaseAssumption DEF WrapperOK
  <1>4. CASE qdata[o] # w /\ qdata[o] # x
    <2>1. PICK t \in Threads, u \in Threads : Setting(t, w) /\ Setting(u, x)
      BY <1>1, <1>4 DEF WrapperOK
    <2> QED  BY <1>2, <2>1 DEF Setting
  <1> QED  BY <1>3, <1>4

\* The threads that hold references can be counted.
LEMMA HoldersFinite ==
  ASSUME TypeOK, NEW o \in Objects
  PROVE  /\ IsFiniteSet(cHolders[o]) /\ Cardinality(cHolders[o]) \in Nat
         /\ Cardinality(cHolders[o]) = 0 <=> cHolders[o] = {}
         /\ \A t \in cHolders[o] :
              /\ Cardinality(cHolders[o] \ {t}) = Cardinality(cHolders[o]) - 1
              /\ Cardinality(cHolders[o]) >= 1
              /\ Cardinality(cHolders[o]) = 1 => cHolders[o] = {t}
         /\ \A t \in Threads \ cHolders[o] :
              Cardinality(cHolders[o] \cup {t}) = Cardinality(cHolders[o]) + 1
  <1>1. cHolders[o] \in SUBSET Threads /\ IsFiniteSet(Threads)
    BY ObjectBaseAssumption DEF TypeOK
  <1>2. IsFiniteSet(cHolders[o])
    BY <1>1, FS_Subset
  <1>3. Cardinality(cHolders[o]) \in Nat /\ (Cardinality(cHolders[o]) = 0 <=> cHolders[o] = {})
    BY <1>2, FS_CardinalityType, FS_EmptySet
  <1>4. ASSUME NEW t \in cHolders[o]
        PROVE  /\ Cardinality(cHolders[o] \ {t}) = Cardinality(cHolders[o]) - 1
               /\ Cardinality(cHolders[o]) >= 1
               /\ Cardinality(cHolders[o]) = 1 => cHolders[o] = {t}
    <2>1. Cardinality(cHolders[o] \ {t}) = Cardinality(cHolders[o]) - 1
      BY <1>2, <1>4, FS_RemoveElement
    <2>2. Cardinality(cHolders[o]) >= 1
      BY <1>3, <1>4
    <2>3. ASSUME Cardinality(cHolders[o]) = 1 PROVE cHolders[o] = {t}
      BY <1>2, <2>3, FS_Singleton
    <2> QED  BY <2>1, <2>2, <2>3
  <1>5. \A t \in Threads \ cHolders[o] :
          Cardinality(cHolders[o] \cup {t}) = Cardinality(cHolders[o]) + 1
    BY <1>2, FS_AddElement
  <1> QED  BY <1>2, <1>3, <1>4, <1>5

\* Who holds a reference on o when there is one left: nobody else.
LEMMA LastReference ==
  ASSUME IInv, NEW o \in Objects, gobj[o] = "live"
  PROVE  /\ \A t \in cHolders[o] :
              /\ gref[o] >= 1
              /\ gref[o] = 1 =>
                   /\ cHolders[o] = {t} /\ Extra(o) = 0
                   /\ \A w \in Wrappers : gobject[w] = o => refptrs[w] = 0
         /\ \A w \in Wrappers : gobject[w] = o /\ refptrs[w] + Var(w) > 0 =>
              /\ gref[o] >= 1
              /\ gref[o] = 1 => cHolders[o] = {} /\ refptrs[w] + Var(w) = 1 /\ Extra(o) = 0
  <1>1. /\ gref[o] \in Nat /\ refptrs \in [Wrappers -> Nat] /\ Exact(o) /\ Extra(o) \in Nat
        /\ \A w \in Wrappers : Var(w) \in {0, 1}
    BY ExtraNat DEF IInv, TypeOK, Counts, Var
  <1>2. Cardinality(cHolders[o]) \in Nat
    BY HoldersFinite DEF IInv
  <1>3. ASSUME NEW t \in cHolders[o]
        PROVE  /\ gref[o] >= 1
               /\ gref[o] = 1 =>
                   /\ cHolders[o] = {t} /\ Extra(o) = 0
                   /\ \A w \in Wrappers : gobject[w] = o => refptrs[w] = 0
    <2>1. /\ Cardinality(cHolders[o]) >= 1
          /\ Cardinality(cHolders[o]) = 1 => cHolders[o] = {t}
      BY <1>3, HoldersFinite DEF IInv
    <2>2. CASE \A w \in Wrappers : gobject[w] # o
      BY <1>1, <1>2, <2>1, <2>2 DEF Exact
    <2>3. CASE \E w \in Wrappers : gobject[w] = o
      <3>1. PICK w \in Wrappers : gobject[w] = o
        BY <2>3
      <3>2. gref[o] = Cardinality(cHolders[o]) + refptrs[w] + Var(w) + Extra(o)
        BY <1>1, <3>1 DEF Exact
      <3>3. \A x \in Wrappers : gobject[x] = o => x = w
        BY <3>1, Single, ObjectBaseAssumption
      <3>4. refptrs[w] \in Nat /\ Var(w) \in {0, 1} /\ Extra(o) \in Nat
        BY <1>1
      <3>5. gref[o] = 1 => Cardinality(cHolders[o]) = 1 /\ refptrs[w] = 0 /\ Extra(o) = 0
        BY <1>2, <2>1, <3>2, <3>4
      <3>6. gref[o] >= 1
        BY <1>2, <2>1, <3>2, <3>4
      <3> QED  BY <1>1, <2>1, <3>3, <3>5, <3>6
    <2> QED  BY <2>2, <2>3
  <1>4. ASSUME NEW w \in Wrappers, gobject[w] = o, refptrs[w] + Var(w) > 0
        PROVE  /\ gref[o] >= 1
               /\ gref[o] = 1 => cHolders[o] = {} /\ refptrs[w] + Var(w) = 1 /\ Extra(o) = 0
    <2>1. gref[o] = Cardinality(cHolders[o]) + refptrs[w] + Var(w) + Extra(o)
      BY <1>1, <1>4 DEF Exact
    <2>2. refptrs[w] \in Nat /\ Var(w) \in {0, 1} /\ Extra(o) \in Nat
      BY <1>1
    <2>3. gref[o] = 1 => Cardinality(cHolders[o]) = 0 /\ refptrs[w] + Var(w) = 1 /\ Extra(o) = 0
      BY <1>2, <1>4, <2>1, <2>2
    <2>4. gref[o] >= 1
      BY <1>2, <1>4, <2>1, <2>2
    <2> QED  BY <2>3, <2>4, HoldersFinite DEF IInv
  <1> QED  BY <1>3, <1>4

\* Nothing refers to an object that does not exist yet, or no longer.
LEMMA UnusedObject ==
  ASSUME IInv, NEW o \in Objects, gobj[o] # "live"
  PROVE  /\ cHolders[o] = {} /\ qdata[o] = NULL
         /\ \A w \in Wrappers : gobject[w] # o
         /\ \A u \in Threads : call[u].pc # "idle" => call[u].obj # o
         /\ gobj[o] = "unborn" => Extra(o) = 0
  <1>1. o # NULL
    BY ObjectBaseAssumption
  <1>2. cHolders[o] = {}
    BY DEF IInv, ObjectsOK, ObjectOK
  <1>3. \A w \in Wrappers : gobject[w] # o
    BY <1>1 DEF IInv, WrappersOK, WrapperOK
  <1>4. qdata[o] = NULL
    BY <1>3 DEF IInv, ObjectsOK, ObjectOK, TypeOK
  <1>5. \A u \in Threads : call[u].pc # "idle" => call[u].obj # o
    BY <1>2 DEF IInv, CallsOK, CallOK, ThrowOK, Wraps, Throws
  <1>6. gobj[o] = "unborn" => Extra(o) = 0
    BY <1>5 DEF IInv, ObjectsOK, ObjectOK, Extra, Thrown, Throws
  <1> QED  BY <1>2, <1>3, <1>4, <1>5, <1>6

\* The object that a constructor which throws has made is known to nobody else.
LEMMA ThrowsAlone ==
  ASSUME IInv, NEW t \in Threads, Throws(call[t])
  PROVE  /\ call[t].obj \in Objects /\ call[t].obj # NULL /\ call[t].w \in Wrappers
         /\ \A x \in Wrappers : gobject[x] = call[t].obj => x = call[t].w /\ call[t].pc = "threw"
         /\ \A u \in Threads : u # t /\ call[u].pc # "idle" => call[u].obj # call[t].obj
  <1> DEFINE o == call[t].obj
             w == call[t].w
  <1>1. ThrowOK(t, call[t]) /\ o \in Objects /\ w \in Wrappers /\ o # NULL
    BY ObjectBaseAssumption DEF IInv, CallsOK, CallOK, ThrowOK, Wrappers
  <1>2. \A u \in Threads : u # t /\ call[u].pc # "idle" => call[u].obj # o
    BY <1>1 DEF ThrowOK, IInv, CallsOK, CallOK, Wraps, Throws
  <1>3. ASSUME NEW x \in Wrappers, gobject[x] = o
        PROVE  x = w /\ call[t].pc = "threw"
    <2>1. CASE call[t].pc = "threw"
      BY <1>1, <1>3, <2>1, Single DEF ThrowOK
    <2>2. CASE call[t].pc # "threw"
      <3>1. qdata[o] = NULL
        BY <1>1, <2>2 DEF ThrowOK, Throws
      <3>2. PICK u \in Threads : Setting(u, x)
        BY <1>1, <1>3, <3>1, ObjectBaseAssumption DEF IInv, WrappersOK, WrapperOK
      <3>3. u # t /\ call[u].pc # "idle" /\ call[u].obj = o
        BY <1>3, <3>2 DEF Setting, Throws, IInv, CallsOK, CallOK
      <3> QED  BY <1>2, <3>3
    <2> QED  BY <2>1, <2>2
  <1> QED  BY <1>1, <1>2, <1>3

-----------------------------------------------------------------------------
(* References. *)

\* References come and go while the objects keep their wrappers: only the counts
\* have to be looked at.
LEMMA CountsOnly ==
  ASSUME IInv, UNCHANGED <<gobj, qdata, wrapper, gobject, leaked, call, mutex>>,
         gref' \in [Objects -> Nat], cHolders' \in [Objects -> SUBSET Threads],
         refptrs' \in [Wrappers -> Nat],
         \A o \in Objects : cHolders'[o] # {} => gobj[o] = "live",
         \A t \in Threads : Wraps(call[t]) => t \in cHolders'[call[t].obj],
         \A t \in Threads : Throws(call[t]) => cHolders'[call[t].obj] \subseteq {t},
         \A w \in Wrappers : gobject[w] = NULL => refptrs'[w] = 0,
         \A w \in Wrappers : refptrs'[w] > 0 => wrapper[w] = "live",
         Counts'
  PROVE  IInv'
  <1>1. TypeOK'
    BY DEF IInv, TypeOK
  <1>2. CallsOK'
    BY DEF IInv, CallsOK, CallOK, ThrowOK, Wraps, Throws
  <1>3. WrappersOK'
    BY DEF IInv, WrappersOK, WrapperOK, Setting
  <1>4. ObjectsOK'
    BY DEF IInv, ObjectsOK, ObjectOK
  <1> QED  BY <1>1, <1>2, <1>3, <1>4 DEF IInv

\* Threads are handed references on an object that exists.
LEMMA HolderAdded ==
  ASSUME IInv, NEW o \in Objects, NEW u \in Threads, gobj[o] = "live", u \notin cHolders[o],
         gref' = [gref EXCEPT ![o] = @ + 1],
         cHolders' = [cHolders EXCEPT ![o] = @ \cup {u}],
         \A t \in Threads : Throws(call[t]) => call[t].obj # o,
         UNCHANGED <<gobj, qdata, wvars, leaked, call, mutex>>
  PROVE  IInv'
  <1>1. /\ gref' \in [Objects -> Nat] /\ cHolders' \in [Objects -> SUBSET Threads]
        /\ refptrs' \in [Wrappers -> Nat] /\ gref[o] \in Nat
    BY DEF IInv, TypeOK, wvars
  <1>2. /\ gref'[o] = gref[o] + 1 /\ cHolders'[o] = cHolders[o] \cup {u}
        /\ \A p \in Objects \ {o} : gref'[p] = gref[p] /\ cHolders'[p] = cHolders[p]
    BY DEF IInv, TypeOK
  <1>3. Cardinality(cHolders'[o]) = Cardinality(cHolders[o]) + 1
        /\ Cardinality(cHolders[o]) \in Nat
    BY <1>2, HoldersFinite DEF IInv
  <1>4. Counts'
    <2> SUFFICES ASSUME NEW p \in Objects PROVE Exact(p)'
      BY DEF Counts
    <2>1. /\ Exact(p) /\ Extra(p) \in Nat /\ Extra(p)' = Extra(p)
          /\ \A w \in Wrappers : refptrs[w] \in Nat /\ Var(w) \in {0, 1} /\ Var(w)' = Var(w)
      BY ExtraNat, ExtraKept DEF IInv, Counts, TypeOK, Var, wvars
    <2>2. CASE p = o
      BY <1>1, <1>2, <1>3, <2>1, <2>2 DEF Exact, wvars
    <2>3. CASE p # o
      BY <1>2, <2>1, <2>3 DEF Exact, wvars
    <2> QED  BY <2>2, <2>3
  <1>5. /\ \A t \in Threads : Wraps(call[t]) => t \in cHolders'[call[t].obj]
        /\ \A t \in Threads : Throws(call[t]) => cHolders'[call[t].obj] \subseteq {t}
    BY <1>2 DEF IInv, CallsOK, CallOK, ThrowOK
  <1>6. /\ \A p \in Objects : cHolders'[p] # {} => gobj[p] = "live"
        /\ \A w \in Wrappers : gobject[w] = NULL => refptrs'[w] = 0
        /\ \A w \in Wrappers : refptrs'[w] > 0 => wrapper[w] = "live"
    BY <1>2 DEF IInv, ObjectsOK, ObjectOK, WrappersOK, WrapperOK, wvars
  <1> QED  BY <1>1, <1>4, <1>5, <1>6, CountsOnly DEF wvars

LEMMA CRefIInv ==
  ASSUME IInv, NEW t \in Threads, NEW u \in Threads, NEW o \in Objects, CRef(t, u, o)
  PROVE  IInv'
  <1>1. call[t] = Idle /\ t \in cHolders[o] /\ gobj[o] = "live"
    BY DEF CRef, Free, IInv, ObjectsOK, ObjectOK
  <1>2. \A v \in Threads : Throws(call[v]) => call[v].obj # o
    BY <1>1 DEF IInv, CallsOK, CallOK, ThrowOK, Throws, Idle
  <1> QED  BY <1>1, <1>2, HolderAdded DEF CRef

LEMMA GobjCopyIInv ==
  ASSUME IInv, NEW t \in Threads, NEW w \in Wrappers, GobjCopy(t, w)
  PROVE  IInv'
  <1>1. gobject[w] \in Objects /\ gobj[gobject[w]] = "live"
    BY DEF GobjCopy, IInv, TypeOK, WrappersOK, WrapperOK
  <1>2. ASSUME NEW v \in Threads, Throws(call[v]) PROVE call[v].obj # gobject[w]
    <2>1. wrapper[call[v].w] = "constructing" /\ wrapper[w] = "live"
      BY <1>2 DEF GobjCopy, IInv, CallsOK, CallOK, ThrowOK
    <2> QED  BY <1>2, <2>1, ThrowsAlone
  <1> QED  BY <1>1, <1>2, HolderAdded DEF GobjCopy

LEMMA CNewIInv ==
  ASSUME IInv, NEW t \in Threads, NEW o \in Objects, CNew(t, o)
  PROVE  IInv'
  <1>1. /\ gobj[o] = "unborn" /\ UNCHANGED <<qdata, wrapper, gobject, refptrs, leaked, call, mutex>>
        /\ gobj' = [gobj EXCEPT ![o] = "live"]
        /\ gref' = [gref EXCEPT ![o] = 1]
        /\ cHolders' = [cHolders EXCEPT ![o] = {t}]
    BY DEF CNew, wvars
  <1>2. /\ cHolders[o] = {}
        /\ \A w \in Wrappers : gobject[w] # o
        /\ \A u \in Threads : call[u].pc # "idle" => call[u].obj # o
        /\ Extra(o) = 0
    BY <1>1, UnusedObject
  <1>3. TypeOK'
    BY <1>1 DEF IInv, TypeOK
  <1>4. CallsOK'
    <2>1. \A u \in Threads : call[u].pc # "idle" =>
            /\ cHolders'[call[u].obj] = cHolders[call[u].obj]
            /\ gobj'[call[u].obj] = gobj[call[u].obj]
      BY <1>1, <1>2 DEF IInv, TypeOK, CallsOK, CallOK, ThrowOK, Wraps, Throws
    <2> QED  BY <1>1, <2>1 DEF IInv, CallsOK, CallOK, ThrowOK, Wraps, Throws
  <1>5. WrappersOK'
    BY <1>1, <1>2 DEF IInv, WrappersOK, WrapperOK, Setting, TypeOK
  <1>6. ObjectsOK'
    BY <1>1, <1>2 DEF IInv, ObjectsOK, ObjectOK, TypeOK
  <1>7. Counts'
    <2> SUFFICES ASSUME NEW p \in Objects PROVE Exact(p)'
      BY DEF Counts
    <2>1. CASE p = o
      <3>1. gref'[p] = 1 /\ Cardinality(cHolders'[p]) = 1 /\ Extra(p)' = 0
        BY <1>1, <1>2, <2>1, FS_Singleton, ExtraKept DEF IInv, TypeOK
      <3> QED  BY <1>1, <1>2, <2>1, <3>1 DEF Exact
    <2>2. CASE p # o
      <3>1. /\ gref'[p] = gref[p] /\ cHolders'[p] = cHolders[p] /\ gobj'[p] = gobj[p] /\ Exact(p)
            /\ Extra(p)' = Extra(p)
        BY <1>1, <2>2, ExtraKept DEF IInv, TypeOK, Counts
      <3> QED  BY <1>1, <3>1 DEF Exact, Var
    <2> QED  BY <2>1, <2>2
  <1> QED  BY <1>3, <1>4, <1>5, <1>6, <1>7 DEF IInv

\* The last reference is dropped: the object is finalized, and destroy_notify_()
\* deletes its wrapper.  No call of wrap() is under way for it.
LEMMA Finalized ==
  ASSUME IInv, NEW o \in Objects, gobj[o] = "live", gref[o] = 1, Unref(o),
         UNCHANGED <<leaked, call, mutex>>,
         cHolders' \in [Objects -> SUBSET Threads], refptrs' \in [Wrappers -> Nat],
         cHolders'[o] = {}, \A p \in Objects \ {o} : cHolders'[p] = cHolders[p],
         \A x \in Wrappers : gobject[x] # o => refptrs'[x] = refptrs[x],
         \A x \in Wrappers : gobject[x] = o => refptrs'[x] = 0,
         \A u \in Threads : call[u].pc # "idle" => call[u].obj # o
  PROVE  IInv'
  <1>1. /\ gref' = [gref EXCEPT ![o] = 0]
        /\ gobj' = [gobj EXCEPT ![o] = "finalized"]
        /\ qdata' = [qdata EXCEPT ![o] = NULL]
        /\ DestroyNotify(qdata[o])
    BY DEF Unref, IInv, TypeOK
  <1>2. /\ o # NULL
        /\ \A x \in Wrappers : gobject[x] = o => qdata[o] = x
        /\ \A x \in Wrappers : qdata[o] = x => gobject[x] = o
    <2>1. o # NULL
      BY ObjectBaseAssumption
    <2>2. ASSUME NEW x \in Wrappers, gobject[x] = o PROVE qdata[o] = x
      <3>1. WrapperOK(x)
        BY DEF IInv, WrappersOK
      <3>2. ~\E u \in Threads : Setting(u, x)
        BY <2>2 DEF Setting, IInv, CallsOK, CallOK, Wraps
      <3> QED  BY <2>1, <2>2, <3>1, <3>2 DEF WrapperOK
    <2>3. \A x \in Wrappers : qdata[o] = x => gobject[x] = o
      BY ObjectBaseAssumption DEF IInv, ObjectsOK, ObjectOK
    <2> QED  BY <2>1, <2>2, <2>3
  <1>3. \A x \in Wrappers :
          /\ gobject'[x] = IF gobject[x] = o THEN NULL ELSE gobject[x]
          /\ wrapper'[x] = IF gobject[x] = o THEN "deleted" ELSE wrapper[x]
    BY <1>1, <1>2 DEF DestroyNotify
  <1>4. /\ gref' \in [Objects -> Nat]
        /\ gobj' \in [Objects -> {"unborn", "live", "finalized"}]
        /\ qdata' \in [Objects -> Wrappers \cup {NULL}]
        /\ wrapper' \in [Wrappers -> {"unborn", "constructing", "live", "deleted"}]
        /\ gobject' \in [Wrappers -> Objects \cup {NULL}]
    BY <1>1 DEF IInv, TypeOK, DestroyNotify
  <1>5. TypeOK'
    BY <1>4 DEF IInv, TypeOK
  <1>6. CallsOK'
    <2> SUFFICES ASSUME NEW u \in Threads PROVE CallOK(u, call[u])'
      BY DEF CallsOK
    <2>1. CallOK(u, call[u]) /\ call'[u] = call[u] /\ mutex' = mutex
      BY DEF IInv, CallsOK
    <2>2. CASE call[u].pc = "idle"
      BY <2>1, <2>2 DEF CallOK, Wraps, Throws
    <2>3. CASE call[u].pc # "idle"
      <3>1. call[u].obj \in Objects /\ call[u].obj # o
        BY <2>1, <2>3 DEF CallOK, ThrowOK, Wraps, Throws
      <3>2. /\ qdata'[call[u].obj] = qdata[call[u].obj]
            /\ gobj'[call[u].obj] = gobj[call[u].obj]
            /\ cHolders'[call[u].obj] = cHolders[call[u].obj]
        BY <1>1, <3>1 DEF IInv, TypeOK
      <3>3. call[u].pc = "set" \/ Throws(call[u]) =>
              wrapper'[call[u].w] = wrapper[call[u].w] /\ gobject'[call[u].w] = gobject[call[u].w]
        <4>1. CASE call[u].pc = "set"
          BY <1>3, <2>1, <3>1, <4>1 DEF CallOK, Wrappers
        <4>2. CASE Throws(call[u])
          BY <1>2, <1>3, <2>1, <3>1, <4>2 DEF CallOK, ThrowOK, Throws, Wrappers
        <4> QED  BY <4>1, <4>2
      <3> QED  BY <2>1, <3>1, <3>2, <3>3 DEF CallOK, ThrowOK, Wraps, Throws
    <2> QED  BY <2>2, <2>3
  <1>7. WrappersOK'
    <2> SUFFICES ASSUME NEW x \in Wrappers PROVE WrapperOK(x)'
      BY DEF WrappersOK
    <2>1. WrapperOK(x) /\ gobject[x] \in Objects \cup {NULL}
      BY DEF IInv, WrappersOK, TypeOK
    <2>2. CASE gobject[x] = o
      BY <1>3, <2>2 DEF WrapperOK, IInv, TypeOK
    <2>3. CASE gobject[x] # o
      <3>1. gobject[x] # NULL => gobj'[gobject[x]] = gobj[gobject[x]] /\ qdata'[gobject[x]] = qdata[gobject[x]]
        BY <1>1, <2>1, <2>3 DEF IInv, TypeOK
      <3> QED  BY <1>3, <2>1, <2>3, <3>1 DEF WrapperOK, Setting
    <2> QED  BY <2>2, <2>3
  <1>8. ObjectsOK'
    <2> SUFFICES ASSUME NEW p \in Objects PROVE ObjectOK(p)'
      BY DEF ObjectsOK
    <2>1. CASE p = o
      BY <1>1, <2>1 DEF ObjectOK, IInv, TypeOK
    <2>2. CASE p # o
      <3>1. ObjectOK(p) /\ qdata[p] \in Wrappers \cup {NULL} /\ p # NULL
        BY ObjectBaseAssumption DEF IInv, ObjectsOK, TypeOK
      <3>2. qdata'[p] = qdata[p] /\ gobj'[p] = gobj[p] /\ cHolders'[p] = cHolders[p]
        BY <1>1, <2>2 DEF IInv, TypeOK
      <3> QED  BY <1>3, <2>2, <3>1, <3>2 DEF ObjectOK
    <2> QED  BY <2>1, <2>2
  <1>9. Counts'
    <2> SUFFICES ASSUME NEW p \in Objects PROVE Exact(p)'
      BY DEF Counts
    <2>1. CASE p = o
      BY <1>1, <2>1 DEF Exact, IInv, TypeOK
    <2>2. CASE p # o
      <3>1. Exact(p) /\ p # NULL
        BY ObjectBaseAssumption DEF IInv, Counts
      <3>2. gref'[p] = gref[p] /\ gobj'[p] = gobj[p] /\ cHolders'[p] = cHolders[p]
        BY <1>1, <2>2 DEF IInv, TypeOK
      <3>3. \A x \in Wrappers : gobject'[x] = p <=> gobject[x] = p
        BY <1>3, <2>2, <3>1
      <3>4. /\ Extra(p)' = Extra(p)
            /\ \A x \in Wrappers : gobject[x] = p => Var(x)' = Var(x)
        BY <1>3, <2>2, ExtraKept DEF Var
      <3> QED  BY <2>2, <3>1, <3>2, <3>3, <3>4 DEF Exact
    <2> QED  BY <2>1, <2>2
  <1> QED  BY <1>5, <1>6, <1>7, <1>8, <1>9 DEF IInv

LEMMA CUnrefIInv ==
  ASSUME IInv, NEW t \in Threads, NEW o \in Objects, CUnref(t, o)
  PROVE  IInv'
  <1>1. /\ call[t] = Idle /\ t \in cHolders[o] /\ Unref(o)
        /\ cHolders' = [cHolders EXCEPT ![o] = @ \ {t}]
        /\ UNCHANGED <<refptrs, leaked, call, mutex>>
    BY DEF CUnref, Free
  <1>2. gobj[o] = "live" /\ gref[o] \in Nat /\ gref[o] >= 1
    BY <1>1, LastReference DEF IInv, ObjectsOK, ObjectOK, TypeOK
  <1>3. /\ cHolders' \in [Objects -> SUBSET Threads] /\ refptrs' \in [Wrappers -> Nat]
        /\ cHolders'[o] = cHolders[o] \ {t}
        /\ \A p \in Objects \ {o} : cHolders'[p] = cHolders[p]
    BY <1>1 DEF IInv, TypeOK
  <1>4. \A u \in Threads : Wraps(call[u]) =>
          /\ call[u].obj \in Objects /\ u \in cHolders[call[u].obj] /\ u # t
    BY <1>1 DEF IInv, CallsOK, CallOK, Idle, Wraps
  <1>5. CASE gref[o] = 1
    <2>1. /\ cHolders[o] = {t} /\ Extra(o) = 0
          /\ \A x \in Wrappers : gobject[x] = o => refptrs[x] = 0
      BY <1>1, <1>2, <1>5, LastReference
    <2>2. \A u \in Threads : call[u].pc # "idle" => call[u].obj # o
      BY <1>4, <2>1, ExtraNat DEF Wraps, Throws, IInv
    <2> QED  BY <1>1, <1>2, <1>3, <1>5, <2>1, <2>2, Finalized
  <1>6. CASE gref[o] # 1
    <2>1. /\ UNCHANGED <<gobj, qdata, wrapper, gobject>>
          /\ gref' = [gref EXCEPT ![o] = @ - 1]
      BY <1>1, <1>6 DEF Unref
    <2>2. gref' \in [Objects -> Nat] /\ gref'[o] = gref[o] - 1
          /\ \A p \in Objects \ {o} : gref'[p] = gref[p]
      BY <1>2, <2>1 DEF IInv, TypeOK
    <2>3. Counts'
      <3> SUFFICES ASSUME NEW p \in Objects PROVE Exact(p)'
        BY DEF Counts
      <3>1. /\ Exact(p) /\ Extra(p) \in Nat /\ Extra(p)' = Extra(p)
            /\ \A w \in Wrappers : refptrs[w] \in Nat /\ Var(w) \in {0, 1} /\ Var(w)' = Var(w)
        BY <1>1, <2>1, ExtraNat, ExtraKept DEF IInv, Counts, TypeOK, Var
      <3>2. CASE p = o
        <4>1. /\ Cardinality(cHolders'[o]) = Cardinality(cHolders[o]) - 1
              /\ Cardinality(cHolders[o]) \in Nat
          BY <1>1, <1>3, HoldersFinite DEF IInv
        <4> QED  BY <1>1, <1>2, <2>1, <2>2, <3>1, <3>2, <4>1 DEF Exact
      <3>3. CASE p # o
        BY <1>1, <1>3, <2>1, <2>2, <3>1, <3>3 DEF Exact
      <3> QED  BY <3>2, <3>3
    <2>4. /\ \A u \in Threads : Wraps(call[u]) => u \in cHolders'[call[u].obj]
          /\ \A u \in Threads : Throws(call[u]) => cHolders'[call[u].obj] \subseteq {u}
      BY <1>3, <1>4 DEF IInv, CallsOK, CallOK, ThrowOK
    <2>5. /\ \A p \in Objects : cHolders'[p] # {} => gobj[p] = "live"
          /\ \A w \in Wrappers : gobject[w] = NULL => refptrs'[w] = 0
          /\ \A w \in Wrappers : refptrs'[w] > 0 => wrapper[w] = "live"
      BY <1>1, <1>2, <1>3 DEF IInv, ObjectsOK, ObjectOK, WrappersOK, WrapperOK
    <2> QED  BY <1>1, <1>3, <2>1, <2>2, <2>3, <2>4, <2>5, CountsOnly
  <1> QED  BY <1>5, <1>6

LEMMA DropRefPtrIInv ==
  ASSUME IInv, NEW t \in Threads, NEW w \in Wrappers, DropRefPtr(t, w)
  PROVE  IInv'
  <1> DEFINE o == gobject[w]
  <1>1. /\ refptrs[w] > 0 /\ Unref(o)
        /\ refptrs' = [refptrs EXCEPT ![w] = @ - 1]
        /\ UNCHANGED <<cHolders, leaked, call, mutex>>
    BY DEF DropRefPtr
  <1>2. /\ o \in Objects /\ o # NULL /\ gobj[o] = "live" /\ gref[o] \in Nat
        /\ refptrs[w] \in Nat /\ Var(w) \in {0, 1}
    <2>1. o # NULL
      BY <1>1 DEF IInv, WrappersOK, WrapperOK
    <2> QED  BY <2>1 DEF IInv, TypeOK, WrappersOK, WrapperOK, Var
  <1> HIDE DEF o
  <1>3. /\ gref[o] >= 1
        /\ gref[o] = 1 => cHolders[o] = {} /\ refptrs[w] + Var(w) = 1 /\ Extra(o) = 0
    BY <1>1, <1>2, LastReference DEF o
  <1>4. \A x \in Wrappers : gobject[x] = o => x = w
    BY <1>2, Single DEF o
  <1>5. /\ cHolders' \in [Objects -> SUBSET Threads] /\ refptrs' \in [Wrappers -> Nat]
        /\ refptrs'[w] = refptrs[w] - 1
        /\ \A x \in Wrappers \ {w} : refptrs'[x] = refptrs[x]
    BY <1>1, <1>2 DEF IInv, TypeOK
  <1>6. CASE gref[o] = 1
    <2>1. /\ cHolders[o] = {} /\ refptrs'[w] = 0
      BY <1>1, <1>2, <1>3, <1>5, <1>6
    <2>2. \A u \in Threads : call[u].pc # "idle" => call[u].obj # o
      BY <1>2, <1>3, <1>6, <2>1, ExtraNat DEF IInv, CallsOK, CallOK, Wraps, Throws
    <2>3. /\ \A x \in Wrappers : gobject[x] # o => refptrs'[x] = refptrs[x]
          /\ \A x \in Wrappers : gobject[x] = o => refptrs'[x] = 0
      BY <1>4, <1>5, <2>1 DEF o
    <2> QED  BY <1>1, <1>2, <1>5, <1>6, <2>1, <2>2, <2>3, Finalized
  <1>7. CASE gref[o] # 1
    <2>1. /\ UNCHANGED <<gobj, qdata, wrapper, gobject>>
          /\ gref' = [gref EXCEPT ![o] = @ - 1]
      BY <1>1, <1>7 DEF Unref
    <2>2. gref' \in [Objects -> Nat] /\ gref'[o] = gref[o] - 1
          /\ \A p \in Objects \ {o} : gref'[p] = gref[p]
      BY <1>2, <1>3, <2>1 DEF IInv, TypeOK
    <2>3. Counts'
      <3> SUFFICES ASSUME NEW p \in Objects PROVE Exact(p)'
        BY DEF Counts
      <3>1. /\ Exact(p) /\ Extra(p) \in Nat /\ Extra(p)' = Extra(p)
            /\ \A x \in Wrappers : Var(x)' = Var(x)
        BY <1>1, <2>1, ExtraNat, ExtraKept DEF IInv, Counts, Var
      <3>2. CASE p = o
        <4>1. Cardinality(cHolders[o]) \in Nat
          BY <1>2, HoldersFinite DEF IInv
        <4>2. gref[o] = Cardinality(cHolders[o]) + refptrs[w] + Var(w) + Extra(o) /\ gobject[w] = o
          BY <1>2, <3>1, <3>2 DEF Exact, o
        <4>3. gref'[o] = Cardinality(cHolders[o]) + refptrs'[w] + Var(w) + Extra(o)
          BY <1>2, <1>5, <2>2, <3>1, <3>2, <4>1, <4>2
        <4> QED  BY <1>1, <1>4, <2>1, <3>1, <3>2, <4>2, <4>3 DEF Exact
      <3>3. CASE p # o
        <4>1. \A x \in Wrappers : gobject[x] = p => refptrs'[x] = refptrs[x]
          BY <1>5, <3>3 DEF o
        <4> QED  BY <1>1, <2>1, <2>2, <3>1, <3>3, <4>1 DEF Exact
      <3> QED  BY <3>2, <3>3
    <2>4. /\ \A u \in Threads : Wraps(call[u]) => u \in cHolders'[call[u].obj]
          /\ \A u \in Threads : Throws(call[u]) => cHolders'[call[u].obj] \subseteq {u}
      BY <1>1 DEF IInv, CallsOK, CallOK, ThrowOK
    <2>5. /\ \A p \in Objects : cHolders'[p] # {} => gobj[p] = "live"
          /\ \A x \in Wrappers : gobject[x] = NULL => refptrs'[x] = 0
          /\ \A x \in Wrappers : refptrs'[x] > 0 => wrapper[x] = "live"
      BY <1>1, <1>2, <1>5 DEF IInv, ObjectsOK, ObjectOK, WrappersOK, WrapperOK, o
    <2> QED  BY <1>1, <1>5, <2>1, <2>2, <2>3, <2>4, <2>5, CountsOnly
  <1> QED  BY <1>6, <1>7

-----------------------------------------------------------------------------
(* Constructors, destructors and moves. *)

\* Calls of wrap() are not disturbed by what happens to other objects.
LEMMA CallsKept ==
  ASSUME IInv, UNCHANGED <<leaked, call, mutex>>,
         \A u \in Threads : call[u].pc # "idle" =>
           /\ qdata'[call[u].obj] = qdata[call[u].obj]
           /\ gobj'[call[u].obj] = gobj[call[u].obj]
           /\ cHolders'[call[u].obj] = cHolders[call[u].obj],
         \A x \in Wrappers : wrapper[x] = "constructing" =>
           wrapper'[x] = wrapper[x] /\ gobject'[x] = gobject[x]
  PROVE  CallsOK'
  <1> SUFFICES ASSUME NEW u \in Threads PROVE CallOK(u, call[u])'
    BY DEF CallsOK
  <1>1. CallOK(u, call[u]) /\ call'[u] = call[u] /\ mutex' = mutex
    BY DEF IInv, CallsOK
  <1>2. CASE call[u].pc = "idle"
    BY <1>1, <1>2 DEF CallOK, Wraps, Throws
  <1>3. CASE call[u].pc # "idle"
    BY <1>1, <1>3 DEF CallOK, ThrowOK, Wraps, Throws, Wrappers
  <1> QED  BY <1>2, <1>3

LEMMA NewIInv ==
  ASSUME IInv, NEW t \in Threads, NEW w \in Wrappers, NEW o \in Objects, New(t, w, o)
  PROVE  IInv'
  <1>1. /\ call[t] = Idle /\ wrapper[w] = "unborn" /\ UNCHANGED <<leaked, call, mutex>>
        /\ gobj' = [gobj EXCEPT ![o] = "live"]
        /\ cHolders' = [cHolders EXCEPT ![o] = @ \ {t}]
        /\ qdata' = [qdata EXCEPT ![o] = w]
        /\ wrapper' = [wrapper EXCEPT ![w] = "live"]
        /\ gobject' = [gobject EXCEPT ![w] = o]
        /\ refptrs' = [refptrs EXCEPT ![w] = IF w \in HeapWrappers THEN 1 ELSE 0]
        /\ \/ gobj[o] = "unborn" /\ gref' = [gref EXCEPT ![o] = 1]
           \/ /\ t \in cHolders[o] /\ qdata[o] = NULL /\ w \in Variables /\ gref' = gref
              /\ \A u \in Threads : call[u].obj # o
    BY DEF New, Free
  <1>2. /\ o # NULL /\ w # NULL /\ gobject[w] = NULL /\ qdata[o] = NULL
        /\ \A u \in Threads : call[u].pc # "idle" => call[u].obj # o /\ u # t
        /\ \A x \in Wrappers : gobject[x] # o
        /\ gobj[o] = "unborn" => Extra(o) = 0
    <2>1. o # NULL /\ w # NULL
      BY ObjectBaseAssumption
    <2>2. gobject[w] = NULL
      BY <1>1 DEF IInv, WrappersOK, WrapperOK
    <2>3. CASE gobj[o] = "unborn"
      BY <1>1, <2>1, <2>2, <2>3, UnusedObject DEF Idle
    <2>4. CASE gobj[o] # "unborn"
      <3>1. qdata[o] = NULL /\ \A u \in Threads : call[u].obj # o
        BY <1>1, <2>4
      <3>2. ASSUME NEW x \in Wrappers, gobject[x] = o PROVE FALSE
        <4>1. PICK u \in Threads : Setting(u, x)
          BY <2>1, <3>1, <3>2, ObjectBaseAssumption DEF IInv, WrappersOK, WrapperOK
        <4> QED  BY <3>1, <3>2, <4>1 DEF Setting, IInv, CallsOK, CallOK
      <3> QED  BY <1>1, <2>1, <2>2, <2>4, <3>1, <3>2 DEF Idle
    <2> QED  BY <2>3, <2>4
  <1>3. /\ \A x \in Wrappers : /\ gobject'[x] = IF x = w THEN o ELSE gobject[x]
                               /\ wrapper'[x] = IF x = w THEN "live" ELSE wrapper[x]
                               /\ x # w => refptrs'[x] = refptrs[x]
        /\ refptrs'[w] = IF w \in HeapWrappers THEN 1 ELSE 0
        /\ \A p \in Objects \ {o} : /\ qdata'[p] = qdata[p] /\ gobj'[p] = gobj[p]
                                    /\ cHolders'[p] = cHolders[p] /\ gref'[p] = gref[p]
        /\ qdata'[o] = w /\ gobj'[o] = "live" /\ cHolders'[o] = cHolders[o] \ {t}
    BY <1>1 DEF IInv, TypeOK
  <1>4. TypeOK'
    BY <1>1 DEF IInv, TypeOK
  <1>5. CallsOK'
    <2>1. \A u \in Threads : call[u].pc # "idle" => call[u].obj \in Objects \ {o}
      BY <1>2 DEF IInv, CallsOK, CallOK, ThrowOK, Wraps, Throws
    <2> QED  BY <1>1, <1>3, <2>1, CallsKept
  <1>6. WrappersOK'
    <2> SUFFICES ASSUME NEW x \in Wrappers PROVE WrapperOK(x)'
      BY DEF WrappersOK
    <2>1. WrapperOK(x) /\ gobject[x] \in Objects \cup {NULL} /\ call' = call
      BY <1>1 DEF IInv, WrappersOK, TypeOK
    <2>2. CASE x = w
      BY <1>2, <1>3, <2>2 DEF WrapperOK
    <2>3. CASE x # w
      BY <1>2, <1>3, <2>1, <2>3 DEF WrapperOK, Setting
    <2> QED  BY <2>2, <2>3
  <1>7. ObjectsOK'
    <2> SUFFICES ASSUME NEW p \in Objects PROVE ObjectOK(p)'
      BY DEF ObjectsOK
    <2>1. ObjectOK(p) /\ qdata[p] \in Wrappers \cup {NULL} /\ p # NULL
      BY ObjectBaseAssumption DEF IInv, ObjectsOK, TypeOK
    <2>2. CASE p = o
      BY <1>3, <2>2 DEF ObjectOK
    <2>3. CASE p # o
      BY <1>1, <1>2, <1>3, <2>1, <2>3 DEF ObjectOK
    <2> QED  BY <2>2, <2>3
  <1>8. Counts'
    <2> SUFFICES ASSUME NEW p \in Objects PROVE Exact(p)'
      BY DEF Counts
    <2>1. Exact(p) /\ Extra(p) \in Nat /\ Extra(p)' = Extra(p)
      BY <1>1, ExtraNat, ExtraKept DEF IInv, Counts
    <2>2. CASE p = o
      <3>1. \A x \in Wrappers : gobject'[x] = o <=> x = w
        BY <1>2, <1>3
      <3>2. gref'[o] = Cardinality(cHolders'[o]) + refptrs'[w] + Var(w)' + Extra(o)
        <4>1. CASE gobj[o] = "unborn"
          <5>1. cHolders'[o] = {} /\ gref'[o] = 1
            <6>1. cHolders[o] = {}
              BY <4>1, UnusedObject
            <6> QED  BY <1>1, <1>3, <4>1, <6>1 DEF IInv, TypeOK
          <5>2. refptrs'[w] \in {0, 1} /\ Var(w)' = 1 - refptrs'[w]
            BY <1>3, ObjectBaseAssumption DEF Var, Wrappers
          <5>3. Cardinality(cHolders'[o]) = 0 /\ Extra(o) = 0
            BY <1>2, <4>1, <5>1, FS_EmptySet
          <5> QED  BY <5>1, <5>2, <5>3
        <4>2. CASE gobj[o] # "unborn"
          <5>1. /\ t \in cHolders[o] /\ w \in Variables /\ gref' = gref
            BY <1>1, <4>2
          <5>2. /\ Cardinality(cHolders'[o]) = Cardinality(cHolders[o]) - 1
                /\ Cardinality(cHolders[o]) \in Nat
            BY <1>3, <5>1, HoldersFinite DEF IInv
          <5>3. gref[o] = Cardinality(cHolders[o]) + Extra(o) /\ Extra(o) \in Nat
            BY <1>2, <2>1, <2>2, <5>1 DEF Exact, IInv, ObjectsOK, ObjectOK
          <5>4. refptrs'[w] = 0 /\ Var(w)' = 1
            BY <1>3, <5>1, ObjectBaseAssumption DEF Var
          <5> QED  BY <5>1, <5>2, <5>3, <5>4
        <4> QED  BY <4>1, <4>2
      <3> QED  BY <2>1, <2>2, <3>1, <3>2 DEF Exact
    <2>3. CASE p # o
      <3>1. \A x \in Wrappers : gobject'[x] = p <=> gobject[x] = p
        BY <1>2, <1>3, <2>3, ObjectBaseAssumption
      <3>2. \A x \in Wrappers : gobject[x] = p => refptrs'[x] = refptrs[x] /\ Var(x)' = Var(x)
        BY <1>2, <1>3, ObjectBaseAssumption DEF Var
      <3> QED  BY <1>3, <2>1, <2>3, <3>1, <3>2 DEF Exact
    <2> QED  BY <2>2, <2>3
  <1> QED  BY <1>4, <1>5, <1>6, <1>7, <1>8 DEF IInv

LEMMA NewThrowsIInv ==
  ASSUME IInv, NEW t \in Threads, NEW w \in Wrappers, NEW o \in Objects, NewThrows(t, w, o)
  PROVE  IInv'
  <1> DEFINE c == [Idle EXCEPT !.pc = "threw", !.obj = o, !.w = w]
  <1>1. /\ call[t] = Idle /\ w \in Variables /\ wrapper[w] = "unborn" /\ gobj[o] = "unborn"
        /\ gobj' = [gobj EXCEPT ![o] = "live"]
        /\ qdata' = [qdata EXCEPT ![o] = w]
        /\ wrapper' = [wrapper EXCEPT ![w] = "constructing"]
        /\ gobject' = [gobject EXCEPT ![w] = o]
        /\ call' = [call EXCEPT ![t] = c]
        /\ UNCHANGED <<refptrs, leaked, mutex>>
    BY DEF NewThrows, Free
  <1>2. PICK kept \in SUBSET {t} :
          /\ cHolders' = [cHolders EXCEPT ![o] = kept]
          /\ gref' = [gref EXCEPT ![o] = 1 + Cardinality(kept)]
    BY DEF NewThrows
  <1>3. Cardinality(kept) \in Nat
    <2>1. kept = {} \/ kept = {t}
      OBVIOUS
    <2> QED  BY <2>1, FS_EmptySet, FS_Singleton
  <1>4. /\ c \in [pc : PC, obj : Objects \cup {NULL}, copy : BOOLEAN, w : Wrappers \cup {NULL}]
        /\ c.pc = "threw" /\ c.obj = o /\ c.w = w
    BY DEF PC, Idle
  <1> HIDE DEF c
  <1>5. /\ call' \in [Threads -> [pc : PC, obj : Objects \cup {NULL}, copy : BOOLEAN,
                                  w : Wrappers \cup {NULL}]]
        /\ call'[t] = c /\ \A u \in Threads \ {t} : call'[u] = call[u]
    BY <1>1, <1>4 DEF IInv, TypeOK
  <1>6. /\ o # NULL /\ w # NULL /\ gobject[w] = NULL /\ refptrs[w] = 0
        /\ \A u \in Threads : call[u].pc # "idle" => call[u].obj # o
        /\ \A x \in Wrappers : gobject[x] # o
        /\ Extra(o) = 0 /\ leaked[o] = 0
    BY <1>1, UnusedObject, ObjectBaseAssumption
       DEF IInv, WrappersOK, WrapperOK, ObjectsOK, ObjectOK
  <1>7. /\ \A x \in Wrappers : /\ gobject'[x] = IF x = w THEN o ELSE gobject[x]
                               /\ wrapper'[x] = IF x = w THEN "constructing" ELSE wrapper[x]
        /\ \A p \in Objects \ {o} : /\ qdata'[p] = qdata[p] /\ gobj'[p] = gobj[p]
                                    /\ cHolders'[p] = cHolders[p] /\ gref'[p] = gref[p]
        /\ qdata'[o] = w /\ gobj'[o] = "live" /\ cHolders'[o] = kept
        /\ gref'[o] = 1 + Cardinality(kept)
    BY <1>1, <1>2 DEF IInv, TypeOK
  <1>8. TypeOK'
    BY <1>1, <1>2, <1>3, <1>5 DEF IInv, TypeOK
  <1>9. CallsOK'
    <2> SUFFICES ASSUME NEW u \in Threads PROVE CallOK(u, call[u])'
      BY DEF CallsOK
    <2>1. \A v \in Threads : Throws(call[v]) => v # t /\ call[v].obj # o /\ call[v].w # w
      BY <1>1, <1>6 DEF Idle, Throws, IInv, CallsOK, CallOK, ThrowOK
    <2>2. mutex' = mutex /\ mutex # t
      BY <1>1 DEF IInv, CallsOK, CallOK, Idle, Wraps
    <2>3. CASE u = t
      <3>1. ThrowOK(u, call[u])'
        BY <1>1, <1>4, <1>5, <1>7, <2>1, <2>3 DEF ThrowOK, Throws
      <3> QED  BY <1>4, <1>5, <2>2, <2>3, <3>1 DEF CallOK, Wraps, Throws
    <2>4. CASE u # t
      <3>1. CallOK(u, call[u]) /\ call'[u] = call[u]
        BY <1>5, <2>4 DEF IInv, CallsOK
      <3>2. CASE call[u].pc = "idle"
        BY <2>2, <3>1, <3>2 DEF CallOK, Wraps, Throws
      <3>3. CASE Wraps(call[u])
        <4>1. call[u].obj \in Objects \ {o}
          BY <1>6, <3>1, <3>3 DEF CallOK, Wraps
        <4>2. call[u].pc = "set" => call[u].w # w /\ call[u].w \in Wrappers
          BY <1>1, <3>1 DEF CallOK, Wrappers
        <4> QED  BY <1>7, <2>2, <3>1, <3>3, <4>1, <4>2 DEF CallOK, Wraps, Throws
      <3>4. CASE Throws(call[u])
        <4>1. call[u].obj \in Objects \ {o} /\ call[u].w \in Wrappers \ {w}
          BY <2>1, <3>1, <3>4 DEF CallOK, ThrowOK, Wrappers
        <4>2. ThrowOK(u, call[u])'
          BY <1>4, <1>5, <1>7, <3>1, <3>4, <4>1 DEF CallOK, ThrowOK, Throws
        <4> QED  BY <2>2, <3>1, <3>4, <4>2 DEF CallOK, Wraps, Throws
      <3> QED  BY <3>2, <3>3, <3>4 DEF Wraps, Throws
    <2> QED  BY <2>3, <2>4
  <1>10. WrappersOK'
    <2> SUFFICES ASSUME NEW x \in Wrappers PROVE WrapperOK(x)'
      BY DEF WrappersOK
    <2>1. WrapperOK(x) /\ gobject[x] \in Objects \cup {NULL} /\ refptrs' = refptrs
      BY <1>1 DEF IInv, WrappersOK, TypeOK
    <2>2. CASE x = w
      BY <1>6, <1>7, <2>1, <2>2 DEF WrapperOK
    <2>3. CASE x # w
      <3>1. \A u \in Threads : Setting(u, x) => Setting(u, x)'
        BY <1>1, <1>5 DEF Setting, Idle
      <3> QED  BY <1>6, <1>7, <2>1, <2>3, <3>1 DEF WrapperOK
    <2> QED  BY <2>2, <2>3
  <1>11. ObjectsOK'
    <2> SUFFICES ASSUME NEW p \in Objects PROVE ObjectOK(p)'
      BY DEF ObjectsOK
    <2>1. ObjectOK(p) /\ qdata[p] \in Wrappers \cup {NULL} /\ p # NULL /\ leaked' = leaked
      BY <1>1, ObjectBaseAssumption DEF IInv, ObjectsOK, TypeOK
    <2>2. CASE p = o
      BY <1>7, <2>1, <2>2 DEF ObjectOK
    <2>3. CASE p # o
      BY <1>6, <1>7, <2>1, <2>3 DEF ObjectOK
    <2> QED  BY <2>2, <2>3
  <1>12. Counts'
    <2> SUFFICES ASSUME NEW p \in Objects PROVE Exact(p)'
      BY DEF Counts
    <2>1. Exact(p) /\ p # NULL
      BY ObjectBaseAssumption DEF IInv, Counts
    <2>2. CASE p = o
      <3>1. \A x \in Wrappers : gobject'[x] = o <=> x = w
        BY <1>6, <1>7
      <3>2. Extra(o)' = 1
        <4>1. (Throws(call[t]) /\ call[t].obj = o)'
          BY <1>4, <1>5 DEF Throws
        <4>2. Thrown(o)' = 1
          BY <4>1 DEF Thrown
        <4> QED  BY <1>1, <1>6, <4>2 DEF Extra
      <3>3. Var(w)' = 0 /\ refptrs'[w] = 0
        BY <1>1, <1>6, <1>7 DEF Var
      <3> QED  BY <1>3, <1>7, <2>2, <3>1, <3>2, <3>3 DEF Exact
    <2>3. CASE p # o
      <3>1. \A x \in Wrappers : gobject'[x] = p <=> gobject[x] = p
        BY <1>6, <1>7, <2>1, <2>3
      <3>2. \A x \in Wrappers : gobject[x] = p => refptrs'[x] = refptrs[x] /\ Var(x)' = Var(x)
        BY <1>1, <1>6, <1>7, <2>1 DEF Var
      <3>3. Extra(p)' = Extra(p)
        <4>1. \A u \in Threads : (Throws(call[u]) /\ call[u].obj = p)' <=> Throws(call[u]) /\ call[u].obj = p
          BY <1>1, <1>4, <1>5, <2>3 DEF Throws, Idle
        <4>2. Thrown(p)' = Thrown(p)
          BY <4>1 DEF Thrown
        <4> QED  BY <1>1, <4>2 DEF Extra
      <3> QED  BY <1>7, <2>1, <2>3, <3>1, <3>2, <3>3 DEF Exact
    <2> QED  BY <2>2, <2>3
  <1> QED  BY <1>8, <1>9, <1>10, <1>11, <1>12 DEF IInv

\* What the two steps of ~ObjectBase() after a throw start from.
LEMMA ThrownObject ==
  ASSUME IInv, NEW t \in Threads, Throws(call[t])
  PROVE  LET o == call[t].obj
             w == call[t].w
         IN /\ o \in Objects /\ o # NULL /\ gobj[o] = "live" /\ cHolders[o] \subseteq {t}
            /\ w \in Variables /\ w \in Wrappers /\ w # NULL
            /\ wrapper[w] = "constructing" /\ refptrs[w] = 0
            /\ mutex # t
            /\ gref[o] = Cardinality(cHolders[o]) + 1 + leaked[o]
            /\ leaked[o] \in Nat /\ Cardinality(cHolders[o]) \in Nat
            /\ Cardinality(cHolders[o]) = 0 <=> cHolders[o] = {}
            /\ \A u \in Threads : u # t /\ call[u].pc # "idle" => call[u].obj # o
            /\ \A u \in Threads : u # t /\ Throws(call[u]) => call[u].w # w
            /\ \A u \in Threads : ~Setting(u, w)
  <1> DEFINE o == call[t].obj
             w == call[t].w
  <1>1. ThrowOK(t, call[t]) /\ mutex # t
    BY DEF IInv, CallsOK, CallOK, Wraps, Throws
  <1>2. /\ o \in Objects /\ o # NULL /\ gobj[o] = "live" /\ cHolders[o] \subseteq {t}
        /\ w \in Variables /\ w \in Wrappers /\ w # NULL
        /\ wrapper[w] = "constructing"
        /\ \A u \in Threads : u # t /\ Throws(call[u]) => call[u].w # w
    BY <1>1, ObjectBaseAssumption DEF ThrowOK, Wrappers
  <1>3. refptrs[w] = 0
    BY <1>2 DEF IInv, TypeOK, WrappersOK, WrapperOK
  <1>4. /\ \A x \in Wrappers : gobject[x] = o => x = w
        /\ \A u \in Threads : u # t /\ call[u].pc # "idle" => call[u].obj # o
    BY ThrowsAlone
  <1>5. /\ Cardinality(cHolders[o]) \in Nat
        /\ Cardinality(cHolders[o]) = 0 <=> cHolders[o] = {}
    BY <1>2, HoldersFinite DEF IInv
  <1>6. Extra(o) = 1 + leaked[o] /\ leaked[o] \in Nat
    BY <1>2 DEF IInv, TypeOK, Extra, Thrown
  <1>7. Var(w) = 0
    BY <1>2 DEF Var
  <1>8. gref[o] = Cardinality(cHolders[o]) + 1 + leaked[o]
    <2>1. Exact(o)
      BY <1>2 DEF IInv, Counts
    <2>2. CASE gobject[w] = o
      BY <1>2, <1>3, <1>5, <1>6, <1>7, <2>1, <2>2 DEF Exact
    <2>3. CASE gobject[w] # o
      BY <1>2, <1>4, <1>5, <1>6, <2>1, <2>3 DEF Exact
    <2> QED  BY <2>2, <2>3
  <1>9. \A u \in Threads : ~Setting(u, w)
    BY <1>2, ObjectBaseAssumption DEF Setting, IInv, CallsOK, CallOK
  <1> QED  BY <1>1, <1>2, <1>3, <1>4, <1>5, <1>6, <1>8, <1>9

LEMMA ThrowStealIInv ==
  ASSUME IInv, NEW t \in Threads, ThrowSteal(t)
  PROVE  IInv'
  <1> DEFINE o == call[t].obj
             w == call[t].w
  <1>1. /\ call[t].pc = "threw"
        /\ gobject' = [gobject EXCEPT ![w] = NULL]
        /\ qdata' = [qdata EXCEPT ![o] = NULL]
        /\ call' = [call EXCEPT ![t].pc = "release"]
        /\ UNCHANGED <<gobj, gref, cHolders, wrapper, refptrs, leaked, mutex>>
    BY DEF ThrowSteal, Steal
  <1>2. /\ o \in Objects /\ o # NULL /\ gobj[o] = "live" /\ cHolders[o] \subseteq {t}
        /\ w \in Variables /\ w \in Wrappers /\ w # NULL
        /\ wrapper[w] = "constructing" /\ refptrs[w] = 0 /\ mutex # t
        /\ gref[o] = Cardinality(cHolders[o]) + 1 + leaked[o]
        /\ leaked[o] \in Nat /\ Cardinality(cHolders[o]) \in Nat
        /\ \A u \in Threads : u # t /\ call[u].pc # "idle" => call[u].obj # o
        /\ \A u \in Threads : u # t /\ Throws(call[u]) => call[u].w # w
        /\ \A u \in Threads : ~Setting(u, w)
    BY <1>1, ThrownObject DEF Throws
  <1>3. gobject[w] = o /\ qdata[o] = w /\ \A x \in Wrappers : gobject[x] = o => x = w
    BY <1>1, <1>2, ThrowsAlone DEF Throws, IInv, CallsOK, CallOK, ThrowOK
  <1>a. o = call[t].obj /\ w = call[t].w
    OBVIOUS
  <1> HIDE DEF o, w
  <1>4. /\ call' \in [Threads -> [pc : PC, obj : Objects \cup {NULL}, copy : BOOLEAN,
                                  w : Wrappers \cup {NULL}]]
        /\ call'[t].pc = "release" /\ call'[t].obj = o /\ call'[t].w = w
        /\ \A u \in Threads \ {t} : call'[u] = call[u]
    BY <1>a, <1>1 DEF IInv, TypeOK, PC
  <1>5. /\ \A x \in Wrappers : gobject'[x] = IF x = w THEN NULL ELSE gobject[x]
        /\ \A p \in Objects : qdata'[p] = IF p = o THEN NULL ELSE qdata[p]
    BY <1>1, <1>2 DEF IInv, TypeOK
  <1>6. TypeOK'
    BY <1>1, <1>4 DEF IInv, TypeOK
  <1>7. CallsOK'
    <2> SUFFICES ASSUME NEW u \in Threads PROVE CallOK(u, call[u])'
      BY DEF CallsOK
    <2>1. CASE u = t
      <3>1. ThrowOK(u, call[u])'
        BY <1>1, <1>2, <1>4, <1>5, <2>1 DEF ThrowOK, Throws
      <3> QED  BY <1>1, <1>2, <1>4, <2>1, <3>1 DEF CallOK, Wraps, Throws
    <2>2. CASE u # t
      <3>1. CallOK(u, call[u]) /\ call'[u] = call[u]
        BY <1>4, <2>2 DEF IInv, CallsOK
      <3>2. CASE call[u].pc = "idle"
        BY <1>1, <3>1, <3>2 DEF CallOK, Wraps, Throws
      <3>3. CASE Wraps(call[u])
        <4>1. call[u].obj \in Objects \ {o}
          BY <1>2, <2>2, <3>1, <3>3 DEF CallOK, Wraps
        <4>2. call[u].pc = "set" => call[u].w # w /\ call[u].w \in Wrappers
          BY <1>2, <3>1, ObjectBaseAssumption DEF CallOK, Wrappers
        <4> QED  BY <1>1, <1>5, <3>1, <3>3, <4>1, <4>2 DEF CallOK, Wraps, Throws
      <3>4. CASE Throws(call[u])
        <4>1. call[u].obj \in Objects \ {o} /\ call[u].w \in Wrappers \ {w}
          BY <1>2, <2>2, <3>1, <3>4 DEF CallOK, ThrowOK, Wrappers, Throws
        <4>2. ThrowOK(u, call[u])'
          BY <1>1, <1>4, <1>5, <3>1, <3>4, <4>1 DEF CallOK, ThrowOK, Throws
        <4> QED  BY <1>1, <3>1, <3>4, <4>2 DEF CallOK, Wraps, Throws
      <3> QED  BY <3>2, <3>3, <3>4 DEF Wraps, Throws
    <2> QED  BY <2>1, <2>2
  <1>8. WrappersOK'
    <2> SUFFICES ASSUME NEW x \in Wrappers PROVE WrapperOK(x)'
      BY DEF WrappersOK
    <2>1. WrapperOK(x) /\ gobject[x] \in Objects \cup {NULL}
      BY DEF IInv, WrappersOK, TypeOK
    <2>2. CASE x = w
      BY <1>1, <1>2, <1>5, <2>1, <2>2, ObjectBaseAssumption DEF WrapperOK
    <2>3. CASE x # w
      <3>1. \A u \in Threads : Setting(u, x) => Setting(u, x)'
        BY <1>1, <1>4 DEF Setting
      <3> QED  BY <1>1, <1>3, <1>5, <2>1, <2>3, <3>1 DEF WrapperOK
    <2> QED  BY <2>2, <2>3
  <1>9. ObjectsOK'
    <2> SUFFICES ASSUME NEW p \in Objects PROVE ObjectOK(p)'
      BY DEF ObjectsOK
    <2>1. ObjectOK(p) /\ qdata[p] \in Wrappers \cup {NULL}
      BY DEF IInv, ObjectsOK, TypeOK
    <2> QED  BY <1>1, <1>3, <1>5, <2>1 DEF ObjectOK
  <1>10. Counts'
    <2> SUFFICES ASSUME NEW p \in Objects PROVE Exact(p)'
      BY DEF Counts
    <2>1. Exact(p) /\ p # NULL /\ \A x \in Wrappers : Var(x)' = Var(x)
      BY <1>1, ObjectBaseAssumption DEF IInv, Counts, Var
    <2>2. Extra(p)' = Extra(p)
      <3>1. \A u \in Threads : (Throws(call[u]) /\ call[u].obj = p)' <=> Throws(call[u]) /\ call[u].obj = p
        BY <1>a, <1>1, <1>4 DEF Throws
      <3>2. Thrown(p)' = Thrown(p)
        BY <3>1 DEF Thrown
      <3> QED  BY <1>1, <3>2 DEF Extra
    <2>3. CASE p = o
      <3>1. \A x \in Wrappers : gobject'[x] # o
        BY <1>2, <1>3, <1>5
      <3>2. Extra(o) = 1 + leaked[o]
        BY <1>a, <1>1 DEF Extra, Thrown, Throws
      <3>3. gref[o] = Cardinality(cHolders[o]) + Extra(o)
        BY <1>2, <3>2
      <3> QED  BY <1>1, <2>2, <2>3, <3>1, <3>3 DEF Exact
    <2>4. CASE p # o
      <3>1. \A x \in Wrappers : gobject'[x] = p <=> gobject[x] = p
        BY <1>3, <1>5, <2>1, <2>4
      <3> QED  BY <1>1, <2>1, <2>2, <3>1 DEF Exact
    <2> QED  BY <2>3, <2>4
  <1> QED  BY <1>6, <1>7, <1>8, <1>9, <1>10 DEF IInv

LEMMA ThrowReleaseIInv ==
  ASSUME IInv, NEW t \in Threads, ThrowRelease(t)
  PROVE  IInv'
  <1> DEFINE o == call[t].obj
             w == call[t].w
  <1>1. /\ call[t].pc = "release"
        /\ gref' = [gref EXCEPT ![o] = @ - 1]
        /\ gobj' = [gobj EXCEPT ![o] = IF gref[o] = 1 THEN "finalized" ELSE @]
        /\ wrapper' = [wrapper EXCEPT ![w] = "deleted"]
        /\ call' = [call EXCEPT ![t] = Idle]
        /\ UNCHANGED <<cHolders, qdata, gobject, refptrs, leaked, mutex>>
    BY DEF ThrowRelease, Release
  <1>2. /\ o \in Objects /\ o # NULL /\ gobj[o] = "live" /\ cHolders[o] \subseteq {t}
        /\ w \in Variables /\ w \in Wrappers /\ w # NULL
        /\ wrapper[w] = "constructing" /\ refptrs[w] = 0 /\ mutex # t
        /\ gref[o] = Cardinality(cHolders[o]) + 1 + leaked[o]
        /\ leaked[o] \in Nat /\ Cardinality(cHolders[o]) \in Nat
        /\ Cardinality(cHolders[o]) = 0 <=> cHolders[o] = {}
        /\ \A u \in Threads : u # t /\ call[u].pc # "idle" => call[u].obj # o
        /\ \A u \in Threads : u # t /\ Throws(call[u]) => call[u].w # w
        /\ \A u \in Threads : ~Setting(u, w)
    BY <1>1, ThrownObject DEF Throws
  <1>3. gobject[w] = NULL /\ qdata[o] = NULL /\ \A x \in Wrappers : gobject[x] # o
    BY <1>1, <1>2, ThrowsAlone DEF Throws, IInv, CallsOK, CallOK, ThrowOK
  <1>a. o = call[t].obj /\ w = call[t].w
    OBVIOUS
  <1> HIDE DEF o, w
  <1>4. /\ call' \in [Threads -> [pc : PC, obj : Objects \cup {NULL}, copy : BOOLEAN,
                                  w : Wrappers \cup {NULL}]]
        /\ call'[t] = Idle /\ Idle.pc = "idle"
        /\ \A u \in Threads \ {t} : call'[u] = call[u]
    BY <1>1 DEF IInv, TypeOK, PC, Idle
  <1>5. /\ \A x \in Wrappers : wrapper'[x] = IF x = w THEN "deleted" ELSE wrapper[x]
        /\ \A p \in Objects \ {o} : gref'[p] = gref[p] /\ gobj'[p] = gobj[p]
        /\ gref'[o] = Cardinality(cHolders[o]) + leaked[o]
        /\ gref' \in [Objects -> Nat]
        /\ gobj'[o] \in {"live", "finalized"} /\ (cHolders[o] # {} => gobj'[o] = "live")
    <2>1. gref[o] - 1 = Cardinality(cHolders[o]) + leaked[o] /\ gref[o] - 1 \in Nat
      BY <1>2
    <2>2. cHolders[o] # {} => gref[o] # 1
      BY <1>2
    <2> QED  BY <1>1, <1>2, <2>1, <2>2 DEF IInv, TypeOK
  <1>6. TypeOK'
    BY <1>1, <1>4, <1>5 DEF IInv, TypeOK
  <1>7. CallsOK'
    <2> SUFFICES ASSUME NEW u \in Threads PROVE CallOK(u, call[u])'
      BY DEF CallsOK
    <2>1. CASE u = t
      BY <1>1, <1>2, <1>4, <2>1 DEF CallOK, Wraps, Throws
    <2>2. CASE u # t
      <3>1. CallOK(u, call[u]) /\ call'[u] = call[u]
        BY <1>4, <2>2 DEF IInv, CallsOK
      <3>2. CASE call[u].pc = "idle"
        BY <1>1, <3>1, <3>2 DEF CallOK, Wraps, Throws
      <3>3. CASE Wraps(call[u])
        <4>1. call[u].pc = "set" => call[u].w # w /\ call[u].w \in Wrappers
          BY <1>2, <3>1, ObjectBaseAssumption DEF CallOK, Wrappers
        <4> QED  BY <1>1, <1>5, <3>1, <3>3, <4>1 DEF CallOK, Wraps, Throws
      <3>4. CASE Throws(call[u])
        <4>1. call[u].obj \in Objects \ {o} /\ call[u].w \in Wrappers \ {w}
          BY <1>2, <2>2, <3>1, <3>4 DEF CallOK, ThrowOK, Wrappers, Throws
        <4>2. ThrowOK(u, call[u])'
          BY <1>1, <1>4, <1>5, <3>1, <3>4, <4>1 DEF CallOK, ThrowOK, Throws
        <4> QED  BY <1>1, <3>1, <3>4, <4>2 DEF CallOK, Wraps, Throws
      <3> QED  BY <3>2, <3>3, <3>4 DEF Wraps, Throws
    <2> QED  BY <2>1, <2>2
  <1>8. WrappersOK'
    <2> SUFFICES ASSUME NEW x \in Wrappers PROVE WrapperOK(x)'
      BY DEF WrappersOK
    <2>1. WrapperOK(x) /\ gobject[x] \in Objects \cup {NULL} /\ gobject[x] # o
      BY <1>3 DEF IInv, WrappersOK, TypeOK
    <2>2. CASE x = w
      BY <1>1, <1>2, <1>3, <1>5, <2>2 DEF WrapperOK
    <2>3. CASE x # w
      <3>1. \A u \in Threads : Setting(u, x) => Setting(u, x)'
        BY <1>1, <1>4 DEF Setting
      <3> QED  BY <1>1, <1>5, <2>1, <2>3, <3>1 DEF WrapperOK
    <2> QED  BY <2>2, <2>3
  <1>9. ObjectsOK'
    <2> SUFFICES ASSUME NEW p \in Objects PROVE ObjectOK(p)'
      BY DEF ObjectsOK
    <2>1. ObjectOK(p)
      BY DEF IInv, ObjectsOK
    <2> QED  BY <1>1, <1>5, <2>1 DEF ObjectOK
  <1>10. Counts'
    <2> SUFFICES ASSUME NEW p \in Objects PROVE Exact(p)'
      BY DEF Counts
    <2>1. Exact(p) /\ p # NULL
      BY ObjectBaseAssumption DEF IInv, Counts
    <2>2. CASE p = o
      <3>1. Extra(p)' = leaked[p]
        <4>1. \A u \in Threads : ~(Throws(call[u]) /\ call[u].obj = p)'
          BY <1>2, <1>4, <2>2 DEF Throws
        <4>2. Thrown(p)' = 0
          BY <4>1 DEF Thrown
        <4> QED  BY <1>1, <1>2, <2>2, <4>2 DEF Extra
      <3> QED  BY <1>1, <1>3, <1>5, <2>2, <3>1 DEF Exact
    <2>3. CASE p # o
      <3>1. Extra(p)' = Extra(p)
        <4>1. \A u \in Threads : (Throws(call[u]) /\ call[u].obj = p)' <=> Throws(call[u]) /\ call[u].obj = p
          BY <1>a, <1>4, <2>3 DEF Throws
        <4>2. Thrown(p)' = Thrown(p)
          BY <4>1 DEF Thrown
        <4> QED  BY <1>1, <4>2 DEF Extra
      <3>2. \A x \in Wrappers : gobject[x] = p => Var(x)' = Var(x)
        BY <1>3, <1>5, <2>1 DEF Var
      <3> QED  BY <1>1, <1>5, <2>1, <2>3, <3>1, <3>2 DEF Exact
    <2> QED  BY <2>2, <2>3
  <1> QED  BY <1>6, <1>7, <1>8, <1>9, <1>10 DEF IInv

\* What a variable that is moved or destroyed gives up: the reference of the wrapper v
\* on its object a, for which no call of wrap() is under way.
LEMMA VariableOf ==
  ASSUME IInv, NEW v \in Wrappers, IsVariable(v), gobject[v] # NULL
  PROVE  LET a == gobject[v]
         IN /\ a \in Objects /\ a # NULL /\ gobj[a] = "live" /\ qdata[a] = v
            /\ gref[a] = Cardinality(cHolders[a]) + 1 + leaked[a]
            /\ leaked[a] \in Nat /\ Extra(a) = leaked[a]
            /\ Cardinality(cHolders[a]) \in Nat
            /\ Cardinality(cHolders[a]) = 0 => cHolders[a] = {}
            /\ \A x \in Wrappers : gobject[x] = a => x = v
            /\ \A u \in Threads : call[u].obj # a
  <1> DEFINE a == gobject[v]
  <1>1. /\ a \in Objects /\ a # NULL /\ gobj[a] = "live" /\ refptrs[v] = 0 /\ v \in Variables
        /\ \A u \in Threads : call[u].obj # a
    BY DEF IInv, TypeOK, WrappersOK, WrapperOK, IsVariable
  <1>2. qdata[a] = v
    <2>1. qdata[a] = v \/ \E u \in Threads : Setting(u, v)
      BY DEF IInv, WrappersOK, WrapperOK
    <2>2. ASSUME NEW u \in Threads, Setting(u, v) PROVE FALSE
      BY <1>1, <2>2 DEF Setting, IInv, CallsOK, CallOK
    <2> QED  BY <2>1, <2>2
  <1>3. \A x \in Wrappers : gobject[x] = a => x = v
    BY <1>1, Single
  <1>4. /\ Cardinality(cHolders[a]) \in Nat
        /\ Cardinality(cHolders[a]) = 0 => cHolders[a] = {}
    BY <1>1, HoldersFinite DEF IInv
  <1>5. /\ Var(v) = 1 /\ refptrs[v] = 0
        /\ leaked[a] \in Nat /\ Extra(a) = leaked[a]
    BY <1>1 DEF IsVariable, Var, IInv, TypeOK, Extra, Thrown
  <1>6. gref[a] = Cardinality(cHolders[a]) + 1 + leaked[a]
    <2>1. gref[a] = Cardinality(cHolders[a]) + refptrs[v] + Var(v) + Extra(a)
      BY <1>1 DEF IInv, Counts, Exact
    <2> QED  BY <1>4, <1>5, <2>1
  <1> QED  BY <1>1, <1>2, <1>3, <1>4, <1>5, <1>6

\* The object a loses its wrapper v, a variable, and the reference of v.
LEMMA ReleaseProperties ==
  ASSUME IInv, NEW v \in Wrappers, IsVariable(v), gobject[v] # NULL, Release(gobject[v])
  PROVE  LET a == gobject[v]
         IN /\ gref' \in [Objects -> Nat]
            /\ gobj' \in [Objects -> {"unborn", "live", "finalized"}]
            /\ gref'[a] = Cardinality(cHolders[a]) + leaked[a]
            /\ gobj'[a] # "unborn"
            /\ cHolders[a] # {} => gobj'[a] = "live"
            /\ \A p \in Objects \ {a} : gref'[p] = gref[p] /\ gobj'[p] = gobj[p]
  <1> DEFINE a == gobject[v]
  <1>1. /\ a \in Objects /\ gobj[a] = "live"
        /\ gref[a] = Cardinality(cHolders[a]) + 1 + leaked[a] /\ leaked[a] \in Nat
        /\ Cardinality(cHolders[a]) \in Nat
        /\ Cardinality(cHolders[a]) = 0 => cHolders[a] = {}
    BY VariableOf
  <1> HIDE DEF a
  <1>2. /\ gref' = [gref EXCEPT ![a] = @ - 1]
        /\ gobj' = [gobj EXCEPT ![a] = IF gref[a] = 1 THEN "finalized" ELSE @]
    BY DEF Release, a
  <1>3. /\ gref' \in [Objects -> Nat] /\ gref'[a] = Cardinality(cHolders[a]) + leaked[a]
        /\ \A p \in Objects \ {a} : gref'[p] = gref[p]
    <2>1. gref[a] - 1 = Cardinality(cHolders[a]) + leaked[a] /\ gref[a] - 1 \in Nat
      BY <1>1
    <2> QED  BY <1>1, <1>2, <2>1 DEF IInv, TypeOK
  <1>4. /\ gobj' \in [Objects -> {"unborn", "live", "finalized"}]
        /\ gobj'[a] = IF gref[a] = 1 THEN "finalized" ELSE "live"
        /\ \A p \in Objects \ {a} : gobj'[p] = gobj[p]
    BY <1>1, <1>2 DEF IInv, TypeOK
  <1>5. cHolders[a] # {} => gobj'[a] = "live"
    BY <1>1, <1>4
  <1>6. gobj'[a] # "unborn"
    BY <1>4
  <1> QED  BY <1>3, <1>4, <1>5, <1>6 DEF a

LEMMA DestroyValueIInv ==
  ASSUME IInv, NEW t \in Threads, NEW v \in Wrappers, DestroyValue(t, v)
  PROVE  IInv'
  <1>1. /\ IsVariable(v) /\ UNCHANGED <<cHolders, refptrs, leaked, call, mutex>>
        /\ wrapper' = [wrapper EXCEPT ![v] = "deleted"]
        /\ gobject' = [gobject EXCEPT ![v] = NULL]
    BY DEF DestroyValue
  <1>2. /\ wrapper[v] = "live" /\ refptrs[v] = 0
        /\ \A x \in Wrappers : /\ wrapper'[x] = IF x = v THEN "deleted" ELSE wrapper[x]
                               /\ gobject'[x] = IF x = v THEN NULL ELSE gobject[x]
    BY <1>1 DEF IInv, TypeOK, IsVariable
  <1>3. CASE gobject[v] = NULL
    <2>1. UNCHANGED <<qdata, gobj, gref>>
      BY <1>3 DEF DestroyValue
    <2>2. gobject' = gobject
      BY <1>1, <1>3 DEF IInv, TypeOK
    <2>3. TypeOK'
      BY <1>1, <2>1, <2>2 DEF IInv, TypeOK
    <2>4. CallsOK'
      BY <1>1, <1>2, <2>1, <2>2, CallsKept
    <2>5. WrappersOK'
      BY <1>1, <1>2, <1>3, <2>1, <2>2 DEF IInv, WrappersOK, WrapperOK, Setting, TypeOK
    <2>6. ObjectsOK'
      BY <1>1, <2>1, <2>2 DEF IInv, ObjectsOK, ObjectOK
    <2>7. Counts'
      <3> SUFFICES ASSUME NEW p \in Objects PROVE Exact(p)'
        BY DEF Counts
      <3>1. /\ Exact(p) /\ Extra(p)' = Extra(p)
            /\ \A x \in Wrappers : gobject[x] = p => Var(x)' = Var(x)
        BY <1>1, <1>2, <1>3, ExtraKept, ObjectBaseAssumption DEF IInv, Counts, Var
      <3> QED  BY <1>1, <2>1, <2>2, <3>1 DEF Exact
    <2> QED  BY <2>3, <2>4, <2>5, <2>6, <2>7 DEF IInv
  <1>4. CASE gobject[v] # NULL
    <2> DEFINE a == gobject[v]
    <2>1. /\ a \in Objects /\ a # NULL /\ qdata[a] = v /\ Extra(a) = leaked[a]
          /\ \A x \in Wrappers : gobject[x] = a => x = v
          /\ \A u \in Threads : call[u].obj # a
      BY <1>1, <1>4, VariableOf
    <2>2. qdata' = [qdata EXCEPT ![a] = NULL] /\ Release(a)
      BY <1>4 DEF DestroyValue, Steal
    <2>3. /\ gref' \in [Objects -> Nat]
          /\ gobj' \in [Objects -> {"unborn", "live", "finalized"}]
          /\ gref'[a] = Cardinality(cHolders[a]) + leaked[a] /\ gobj'[a] # "unborn"
          /\ cHolders[a] # {} => gobj'[a] = "live"
          /\ \A p \in Objects \ {a} : gref'[p] = gref[p] /\ gobj'[p] = gobj[p]
      BY <1>1, <1>4, <2>2, ReleaseProperties
    <2>a. a = gobject[v]
      OBVIOUS
    <2> HIDE DEF a
    <2>4. \A p \in Objects : qdata'[p] = IF p = a THEN NULL ELSE qdata[p]
      BY <2>1, <2>2 DEF IInv, TypeOK
    <2>5. TypeOK'
      BY <1>1, <2>2, <2>3 DEF IInv, TypeOK
    <2>6. CallsOK'
      <3>1. \A u \in Threads : call[u].pc # "idle" => call[u].obj \in Objects \ {a}
        BY <2>1 DEF IInv, CallsOK, CallOK, ThrowOK, Wraps, Throws
      <3> QED  BY <1>1, <1>2, <2>3, <2>4, <3>1, CallsKept
    <2>7. WrappersOK'
      <3> SUFFICES ASSUME NEW x \in Wrappers PROVE WrapperOK(x)'
        BY DEF WrappersOK
      <3>1. WrapperOK(x) /\ gobject[x] \in Objects \cup {NULL}
        BY DEF IInv, WrappersOK, TypeOK
      <3>2. CASE x = v
        BY <1>1, <1>2, <3>2, ObjectBaseAssumption DEF WrapperOK
      <3>3. CASE x # v
        <4>1. gobject[x] # a
          BY <2>1, <3>3
        <4> QED  BY <1>1, <1>2, <2>3, <2>4, <3>1, <3>3, <4>1 DEF WrapperOK, Setting
      <3> QED  BY <3>2, <3>3
    <2>8. ObjectsOK'
      <3> SUFFICES ASSUME NEW p \in Objects PROVE ObjectOK(p)'
        BY DEF ObjectsOK
      <3>1. ObjectOK(p) /\ qdata[p] \in Wrappers \cup {NULL}
        BY DEF IInv, ObjectsOK, TypeOK
      <3>2. CASE p = a
        BY <1>1, <2>3, <2>4, <3>2 DEF ObjectOK
      <3>3. CASE p # a
        BY <1>1, <1>2, <2>a, <2>3, <2>4, <3>1, <3>3 DEF ObjectOK
      <3> QED  BY <3>2, <3>3
    <2>9. Counts'
      <3> SUFFICES ASSUME NEW p \in Objects PROVE Exact(p)'
        BY DEF Counts
      <3>1. Exact(p) /\ p # NULL /\ Extra(p)' = Extra(p)
        BY <1>1, ExtraKept, ObjectBaseAssumption DEF IInv, Counts
      <3>2. CASE p = a
        <4>1. \A x \in Wrappers : gobject'[x] # a
          BY <1>2, <2>1
        <4> QED  BY <1>1, <2>1, <2>3, <3>1, <3>2, <4>1 DEF Exact
      <3>3. CASE p # a
        <4>1. \A x \in Wrappers : gobject'[x] = p <=> gobject[x] = p
          BY <1>2, <2>a, <3>1, <3>3
        <4>2. \A x \in Wrappers : gobject[x] = p => Var(x)' = Var(x)
          BY <1>2, <2>a, <3>3 DEF Var
        <4> QED  BY <1>1, <2>3, <3>1, <3>3, <4>1, <4>2 DEF Exact
      <3> QED  BY <3>2, <3>3
    <2> QED  BY <2>5, <2>6, <2>7, <2>8, <2>9 DEF IInv
  <1> QED  BY <1>3, <1>4

\* The wrapper w takes the object o of src; the object a that w had, if any, loses its
\* wrapper and the reference of w.
LEMMA Moved ==
  ASSUME IInv, NEW w \in Wrappers, NEW src \in Wrappers, w # src,
         w \in Variables, wrapper[w] # "constructing", refptrs[w] = 0,
         IsVariable(src), gobject[src] # NULL,
         UNCHANGED <<cHolders, refptrs, leaked, call, mutex>>,
         gobject' = [gobject EXCEPT ![w] = gobject[src], ![src] = NULL],
         wrapper' = [wrapper EXCEPT ![w] = "live"],
         qdata' \in [Objects -> Wrappers \cup {NULL}],
         qdata'[gobject[src]] = w,
         \A p \in Objects \ {gobject[src]} :
           qdata'[p] = IF p = gobject[w] THEN NULL ELSE qdata[p],
         gref' \in [Objects -> Nat],
         gobj' \in [Objects -> {"unborn", "live", "finalized"}],
         \A p \in Objects \ {gobject[w]} : gref'[p] = gref[p] /\ gobj'[p] = gobj[p],
         gobject[w] # NULL =>
           /\ gref'[gobject[w]] = Cardinality(cHolders[gobject[w]]) + leaked[gobject[w]]
           /\ Extra(gobject[w]) = leaked[gobject[w]] /\ gobj'[gobject[w]] # "unborn"
           /\ cHolders[gobject[w]] # {} => gobj'[gobject[w]] = "live"
           /\ \A x \in Wrappers : gobject[x] = gobject[w] => x = w
           /\ \A u \in Threads : call[u].obj # gobject[w]
  PROVE  IInv'
  <1> DEFINE a == gobject[w]
             o == gobject[src]
  <1>a. /\ a = gobject[w] /\ o = gobject[src] /\ o # NULL
        /\ gobject' = [gobject EXCEPT ![w] = o, ![src] = NULL]
        /\ qdata'[o] = w
        /\ \A p \in Objects \ {o} : qdata'[p] = IF p = a THEN NULL ELSE qdata[p]
        /\ \A p \in Objects \ {a} : gref'[p] = gref[p] /\ gobj'[p] = gobj[p]
        /\ a # NULL =>
             /\ gref'[a] = Cardinality(cHolders[a]) + leaked[a]
             /\ Extra(a) = leaked[a] /\ gobj'[a] # "unborn"
             /\ cHolders[a] # {} => gobj'[a] = "live"
             /\ \A x \in Wrappers : gobject[x] = a => x = w
             /\ \A u \in Threads : call[u].obj # a
    OBVIOUS
  <1>1. /\ o \in Objects /\ o # NULL /\ gobj[o] = "live" /\ qdata[o] = src
        /\ gref[o] = Cardinality(cHolders[o]) + 1 + leaked[o]
        /\ Extra(o) = leaked[o] /\ leaked[o] \in Nat
        /\ Cardinality(cHolders[o]) \in Nat
        /\ \A x \in Wrappers : gobject[x] = o => x = src
        /\ \A u \in Threads : call[u].obj # o
        /\ wrapper[src] = "live" /\ src \in Variables /\ refptrs[src] = 0
    BY VariableOf DEF IsVariable
  <1> HIDE DEF a, o
  <1>2. a # o
    BY <1>a, <1>1
  <1>3. \A x \in Wrappers :
          /\ gobject'[x] = IF x = w THEN o ELSE IF x = src THEN NULL ELSE gobject[x]
          /\ wrapper'[x] = IF x = w THEN "live" ELSE wrapper[x]
    BY <1>a DEF IInv, TypeOK
  <1>4. TypeOK'
    BY <1>a, <1>1 DEF IInv, TypeOK
  <1>5. CallsOK'
    <2>1. \A u \in Threads : call[u].pc # "idle" =>
            call[u].obj \in Objects \ {o, a}
      BY <1>a, <1>1, ObjectBaseAssumption DEF IInv, CallsOK, CallOK, ThrowOK, Wraps, Throws
    <2>2. \A x \in Wrappers : wrapper[x] = "constructing" =>
            wrapper'[x] = wrapper[x] /\ gobject'[x] = gobject[x]
      <3>1. wrapper[w] # "constructing" /\ wrapper[src] # "constructing"
        BY <1>1
      <3> SUFFICES ASSUME NEW x \in Wrappers, x # w, x # src
                   PROVE  wrapper'[x] = wrapper[x] /\ gobject'[x] = gobject[x]
        BY <3>1
      <3> QED  BY <1>3
    <2> QED  BY <1>a, <2>1, <2>2, CallsKept
  <1>6. WrappersOK'
    <2> SUFFICES ASSUME NEW x \in Wrappers PROVE WrapperOK(x)'
      BY <1>a DEF WrappersOK
    <2>1. WrapperOK(x) /\ gobject[x] \in Objects \cup {NULL}
      BY <1>a DEF IInv, WrappersOK, TypeOK
    <2>2. CASE x = w
      <3>1. gobject'[x] = o /\ wrapper'[x] = "live" /\ gobj'[o] = "live" /\ qdata'[o] = x
        BY <1>a, <1>1, <1>2, <1>3, <2>2
      <3> QED  BY <1>a, <3>1 DEF WrapperOK
    <2>3. CASE x = src
      BY <1>a, <1>1, <1>3, <2>3, ObjectBaseAssumption, ZenonT(40) DEF WrapperOK
    <2>4. CASE x # w /\ x # src
      <3>1. gobject[x] # NULL => gobject[x] \in Objects \ {o, a}
        BY <1>a, <1>1, <2>1, <2>4
      <3>2. /\ gobject'[x] = gobject[x] /\ wrapper'[x] = wrapper[x]
            /\ refptrs' = refptrs /\ call' = call
        BY <1>3, <2>4
      <3>3. gobject[x] # NULL =>
              gobj'[gobject[x]] = gobj[gobject[x]] /\ qdata'[gobject[x]] = qdata[gobject[x]]
        BY <1>a, <3>1
      <3> QED  BY <2>1, <3>2, <3>3 DEF WrapperOK, Setting
    <2> QED  BY <1>a, <2>2, <2>3, <2>4
  <1>7. ObjectsOK'
    <2> SUFFICES ASSUME NEW p \in Objects PROVE ObjectOK(p)'
      BY <1>a DEF ObjectsOK
    <2>1. ObjectOK(p) /\ qdata[p] \in Wrappers \cup {NULL} /\ p # NULL
      BY <1>a, ObjectBaseAssumption DEF IInv, ObjectsOK, TypeOK
    <2>2. CASE p = o
      BY <1>a, <1>1, <1>2, <1>3, <2>2 DEF ObjectOK
    <2>3. CASE p = a
      BY <1>a, <1>2, <2>1, <2>3 DEF ObjectOK
    <2>4. CASE p # o /\ p # a
      <3>1. qdata'[p] = qdata[p] /\ gobj'[p] = gobj[p] /\ cHolders' = cHolders
        BY <1>a, <2>4
      <3>2. qdata[p] # NULL => gobject'[qdata[p]] = p
        BY <1>a, <1>3, <2>1, <2>4 DEF ObjectOK
      <3> QED  BY <2>1, <3>1, <3>2 DEF ObjectOK
    <2> QED  BY <1>a, <2>2, <2>3, <2>4
  <1>8. Counts'
    <2> SUFFICES ASSUME NEW p \in Objects PROVE Exact(p)'
      BY <1>a DEF Counts
    <2>1. Exact(p) /\ p # NULL /\ Extra(p)' = Extra(p)
      BY <1>a, ExtraKept, ObjectBaseAssumption DEF IInv, Counts
    <2>2. CASE p = o
      <3>1. \A x \in Wrappers : gobject'[x] = o <=> x = w
        <4> SUFFICES ASSUME NEW x \in Wrappers PROVE gobject'[x] = o <=> x = w
          OBVIOUS
        <4>1. o # NULL /\ (gobject[x] = o => x = src)
          BY <1>1
        <4>2. gobject'[x] = IF x = w THEN o ELSE IF x = src THEN NULL ELSE gobject[x]
          BY <1>3
        <4> QED  BY <4>1, <4>2
      <3>2. Var(w)' = 1 /\ refptrs'[w] = 0 /\ gref'[o] = gref[o] /\ cHolders' = cHolders
        BY <1>a, <1>1, <1>2, <1>3 DEF Var
      <3>3. gref'[o] = Cardinality(cHolders'[o]) + refptrs'[w] + Var(w)' + Extra(o)
        BY <1>1, <3>2
      <3> QED  BY <1>a, <2>1, <2>2, <3>1, <3>3 DEF Exact
    <2>3. CASE p = a
      <3>1. \A x \in Wrappers : gobject'[x] # a
        BY <1>a, <1>2, <1>3, <2>1, <2>3
      <3> QED  BY <1>a, <2>1, <2>3, <3>1 DEF Exact
    <2>4. CASE p # o /\ p # a
      <3>1. \A x \in Wrappers : gobject'[x] = p <=> gobject[x] = p
        BY <1>a, <1>3, <2>1, <2>4
      <3>2. gref'[p] = gref[p] /\ gobj'[p] = gobj[p] /\ cHolders' = cHolders /\ refptrs' = refptrs
        BY <1>a, <2>4
      <3>3. \A x \in Wrappers : gobject[x] = p => Var(x)' = Var(x)
        BY <1>a, <1>3, <2>4 DEF Var
      <3> QED  BY <2>1, <3>1, <3>2, <3>3 DEF Exact
    <2> QED  BY <1>a, <2>2, <2>3, <2>4
  <1> QED  BY <1>4, <1>5, <1>6, <1>7, <1>8 DEF IInv

LEMMA MoveConstructIInv ==
  ASSUME IInv, NEW t \in Threads, NEW w \in Wrappers, NEW src \in Wrappers,
         MoveConstruct(t, w, src)
  PROVE  IInv'
  <1> DEFINE o == gobject[src]
  <1>1. /\ w \in Variables /\ wrapper[w] = "unborn" /\ IsVariable(src) /\ o # NULL
        /\ UNCHANGED <<gobj, gref, cHolders, refptrs, leaked, call, mutex>>
        /\ gobject' = [gobject EXCEPT ![w] = o, ![src] = NULL]
        /\ wrapper' = [wrapper EXCEPT ![w] = "live"]
        /\ qdata' = [qdata EXCEPT ![o] = w]
    BY DEF MoveConstruct, MoveCurrentWrapper
  <1>2. gobject[w] = NULL /\ refptrs[w] = 0 /\ w # src
    BY <1>1 DEF IInv, TypeOK, WrappersOK, WrapperOK, IsVariable
  <1>3. o \in Objects
    BY <1>1 DEF IInv, TypeOK
  <1>4. /\ qdata' \in [Objects -> Wrappers \cup {NULL}] /\ qdata'[o] = w
        /\ \A p \in Objects \ {o} : qdata'[p] = qdata[p]
    BY <1>1, <1>3 DEF IInv, TypeOK
  <1>5. /\ gref' \in [Objects -> Nat] /\ gobj' \in [Objects -> {"unborn", "live", "finalized"}]
        /\ \A p \in Objects : p # NULL
    BY <1>1, ObjectBaseAssumption DEF IInv, TypeOK
  <1> HIDE DEF o
  <1>6. o = gobject[src]
    BY DEF o
  <1> QED  BY <1>1, <1>2, <1>4, <1>5, <1>6, Moved

LEMMA MoveAssignIInv ==
  ASSUME IInv, NEW t \in Threads, NEW w \in Wrappers, NEW src \in Wrappers,
         MoveAssign(t, w, src)
  PROVE  IInv'
  <1> DEFINE o == gobject[src]
             a == gobject[w]
  <1>1. /\ w # src /\ IsVariable(w) /\ IsVariable(src) /\ o # NULL
        /\ UNCHANGED <<cHolders, wrapper, refptrs, leaked, call, mutex>>
        /\ gobject' = [gobject EXCEPT ![w] = o, ![src] = NULL]
    BY DEF MoveAssign, MoveCurrentWrapper
  <1>2. /\ w \in Variables /\ wrapper[w] = "live" /\ refptrs[w] = 0
        /\ wrapper' = [wrapper EXCEPT ![w] = "live"]
    BY <1>1 DEF IsVariable, IInv, TypeOK
  <1>3. o \in Objects /\ \A p \in Objects : p # NULL
    BY <1>1, ObjectBaseAssumption DEF IInv, TypeOK
  <1>4. CASE a = NULL
    <2>1. qdata' = [qdata EXCEPT ![o] = w] /\ UNCHANGED <<gobj, gref>>
      BY <1>4 DEF MoveAssign, MoveCurrentWrapper
    <2>2. /\ qdata' \in [Objects -> Wrappers \cup {NULL}] /\ qdata'[o] = w
          /\ \A p \in Objects \ {o} : qdata'[p] = IF p = a THEN NULL ELSE qdata[p]
          /\ gref' \in [Objects -> Nat] /\ gobj' \in [Objects -> {"unborn", "live", "finalized"}]
          /\ \A p \in Objects \ {a} : gref'[p] = gref[p] /\ gobj'[p] = gobj[p]
      BY <1>3, <1>4, <2>1 DEF IInv, TypeOK
    <2>3. o = gobject[src] /\ a = gobject[w]
      OBVIOUS
    <2> HIDE DEF o, a
    <2>4. \A p \in Objects \ {gobject[src]} :
             qdata'[p] = IF p = gobject[w] THEN NULL ELSE qdata[p]
      BY <2>2, <2>3
    <2>5. \A p \in Objects \ {gobject[w]} : gref'[p] = gref[p] /\ gobj'[p] = gobj[p]
      BY <2>2, <2>3
    <2>6. gobject[src] # NULL /\ gobject[w] = NULL /\ qdata'[gobject[src]] = w
      BY <1>1, <1>4, <2>2, <2>3
    <2>7. /\ gobject' = [gobject EXCEPT ![w] = gobject[src], ![src] = NULL]
          /\ UNCHANGED <<cHolders, refptrs, leaked, call, mutex>>
      BY <1>1, <2>3
    <2>8. wrapper[w] # "constructing"
      BY <1>2
    <2> HIDE DEF Var
    <2> QED  BY <1>1, <1>2, <2>2, <2>4, <2>5, <2>6, <2>7, <2>8, Moved, Zenon
  <1>5. CASE a # NULL
    <2>1. qdata' = [[qdata EXCEPT ![a] = NULL] EXCEPT ![o] = w] /\ Release(a)
      BY <1>5 DEF MoveAssign, MoveCurrentWrapper, Steal
    <2>2. /\ a \in Objects /\ Extra(a) = leaked[a]
          /\ \A x \in Wrappers : gobject[x] = a => x = w
          /\ \A u \in Threads : call[u].obj # a
      BY <1>1, <1>5, VariableOf
    <2>3. /\ gref' \in [Objects -> Nat]
          /\ gobj' \in [Objects -> {"unborn", "live", "finalized"}]
          /\ gref'[a] = Cardinality(cHolders[a]) + leaked[a] /\ gobj'[a] # "unborn"
          /\ cHolders[a] # {} => gobj'[a] = "live"
          /\ \A p \in Objects \ {a} : gref'[p] = gref[p] /\ gobj'[p] = gobj[p]
      BY <1>1, <1>5, <2>1, ReleaseProperties
    <2>4. o = gobject[src] /\ a = gobject[w]
      OBVIOUS
    <2> HIDE DEF o, a
    <2>5. /\ qdata' \in [Objects -> Wrappers \cup {NULL}] /\ qdata'[o] = w
          /\ \A p \in Objects \ {o} : qdata'[p] = IF p = a THEN NULL ELSE qdata[p]
      BY <1>3, <2>1, <2>2 DEF IInv, TypeOK
    <2> QED  BY ZenonT(40), <1>1, <1>2, <1>5, <2>2, <2>3, <2>4, <2>5, Moved
  <1> QED  BY <1>4, <1>5

-----------------------------------------------------------------------------
(* wrap(). *)

\* A step of wrap() by t that leaves the objects and the references alone; under the
\* mutex it may complete a wrapper.
LEMMA CallStep ==
  ASSUME IInv, NEW t \in Threads, UNCHANGED <<ovars, gobject, refptrs, leaked>>,
         call[t].pc # "set", ~Throws(call[t]), ~Throws(call[t])',
         call' \in [Threads -> [pc : PC, obj : Objects \cup {NULL}, copy : BOOLEAN,
                                w : Wrappers \cup {NULL}]],
         \A u \in Threads \ {t} : call'[u] = call[u],
         CallOK(t, call[t])',
         mutex' = mutex \/ (mutex = NULL /\ mutex' = t),
         wrapper' \in [Wrappers -> {"unborn", "constructing", "live", "deleted"}],
         \A x \in Wrappers :
           \/ wrapper'[x] = wrapper[x]
           \/ /\ wrapper'[x] = "live" /\ gobject[x] # NULL /\ mutex = t
              /\ x \in HeapWrappers
  PROVE  IInv'
  <1>1. TypeOK'
    BY DEF IInv, TypeOK, ovars
  <1>2. CallsOK'
    <2> SUFFICES ASSUME NEW u \in Threads \ {t} PROVE CallOK(u, call[u])'
      BY DEF CallsOK
    <2>1. CallOK(u, call[u]) /\ call'[u] = call[u] /\ u # NULL
      BY ObjectBaseAssumption DEF IInv, CallsOK
    <2>2. mutex = u <=> mutex' = u
      BY <2>1
    <2>3. mutex = u => \A x \in Wrappers : wrapper'[x] = wrapper[x]
      OBVIOUS
    <2>4. CASE Throws(call[u])
      <3>1. call[u].w \in Wrappers /\ wrapper'[call[u].w] = wrapper[call[u].w]
        BY <2>1, <2>4, ObjectBaseAssumption DEF CallOK, ThrowOK, Wrappers
      <3>2. ThrowOK(u, call[u])'
        BY <2>1, <2>4, <3>1 DEF CallOK, ThrowOK, Throws, ovars
      <3> QED  BY <2>1, <2>2, <2>4, <3>2 DEF CallOK, Wraps, Throws
    <2>5. CASE ~Throws(call[u])
      BY <2>1, <2>2, <2>3, <2>5 DEF CallOK, Wraps, Throws, ovars, Wrappers
    <2> QED  BY <2>4, <2>5
  <1>3. WrappersOK'
    <2> SUFFICES ASSUME NEW x \in Wrappers PROVE WrapperOK(x)'
      BY DEF WrappersOK
    <2>1. WrapperOK(x)
      BY DEF IInv, WrappersOK
    <2>2. \A u \in Threads : Setting(u, x) => Setting(u, x)'
      BY DEF Setting
    <2> QED  BY <2>1, <2>2 DEF WrapperOK, ovars
  <1>4. ObjectsOK'
    BY DEF IInv, ObjectsOK, ObjectOK, ovars
  <1>5. Counts'
    <2> SUFFICES ASSUME NEW p \in Objects PROVE Exact(p)'
      BY DEF Counts
    <2>1. \A u \in Threads : \/ call'[u] = call[u]
                             \/ ~Throws(call[u]) /\ ~Throws(call[u])'
      OBVIOUS
    <2>2. Exact(p) /\ Extra(p)' = Extra(p)
      BY <2>1, ExtraKept DEF IInv, Counts
    <2>3. \A x \in Wrappers : Var(x)' = Var(x)
      BY ObjectBaseAssumption DEF Var
    <2> QED  BY <2>2, <2>3 DEF Exact, ovars
  <1> QED  BY <1>1, <1>2, <1>3, <1>4, <1>5 DEF IInv

LEMMA WrapBeginIInv ==
  ASSUME UsesMutex, IInv, NEW t \in Threads, NEW o \in Objects, NEW copy \in BOOLEAN,
         WrapBegin(t, o, copy)
  PROVE  IInv'
  <1> DEFINE pc == IF UsesMutex /\ qdata[o] = NULL THEN "lock" ELSE "lookup"
             c == [Idle EXCEPT !.pc = pc, !.obj = o, !.copy = copy]
  <1>1. /\ call[t] = Idle /\ t \in cHolders[o] /\ UNCHANGED <<ovars, wvars, leaked, mutex>>
        /\ call' = [call EXCEPT ![t] = c]
    BY DEF WrapBegin, Free
  <1>a. pc = IF qdata[o] = NULL THEN "lock" ELSE "lookup"
    OBVIOUS
  <1> HIDE DEF pc
  <1>2. /\ c \in [pc : PC, obj : Objects \cup {NULL}, copy : BOOLEAN, w : Wrappers \cup {NULL}]
        /\ c.pc = pc /\ c.obj = o
    BY <1>a DEF PC, Idle
  <1>3. /\ call' \in [Threads -> [pc : PC, obj : Objects \cup {NULL}, copy : BOOLEAN,
                                  w : Wrappers \cup {NULL}]]
        /\ call'[t] = c /\ \A u \in Threads \ {t} : call'[u] = call[u]
    <2> HIDE DEF c
    <2> QED  BY <1>1, <1>2 DEF IInv, TypeOK
  <1>4. mutex # t
    BY <1>1 DEF IInv, CallsOK, CallOK, Idle, Wraps
  <1> HIDE DEF c
  <1>5. /\ call'[t].pc \in {"lock", "lookup"} /\ call'[t].obj = o
        /\ call'[t].pc = "lookup" => qdata[o] # NULL
    BY <1>a, <1>2, <1>3
  <1>6. CallOK(t, call[t])'
    BY <1>1, <1>4, <1>5 DEF CallOK, Wraps, Throws, ovars
  <1>7. /\ call[t].pc # "set" /\ ~Throws(call[t]) /\ ~Throws(call[t])'
        /\ wrapper \in [Wrappers -> {"unborn", "constructing", "live", "deleted"}]
    BY <1>1, <1>5 DEF Throws, Idle, IInv, TypeOK
  <1> QED  BY <1>1, <1>3, <1>6, <1>7, CallStep DEF wvars

\* What a call of wrap() is about.
LEMMA CallAbout ==
  ASSUME IInv, NEW t \in Threads, Wraps(call[t])
  PROVE  /\ call[t].obj \in Objects /\ t \in cHolders[call[t].obj]
         /\ gobj[call[t].obj] = "live"
         /\ call[t].obj # NULL
  BY ObjectBaseAssumption DEF IInv, CallsOK, CallOK, ObjectsOK, ObjectOK

LEMMA WrapLockIInv ==
  ASSUME IInv, NEW t \in Threads, WrapLock(t)
  PROVE  IInv'
  <1>1. /\ call[t].pc = "lock" /\ mutex = NULL /\ mutex' = t
        /\ call' = [call EXCEPT ![t].pc = "lookup"]
        /\ UNCHANGED <<ovars, wvars, leaked>>
    BY DEF WrapLock
  <1>2. /\ call' \in [Threads -> [pc : PC, obj : Objects \cup {NULL}, copy : BOOLEAN,
                                  w : Wrappers \cup {NULL}]]
        /\ call'[t].pc = "lookup" /\ call'[t].obj = call[t].obj
        /\ \A u \in Threads \ {t} : call'[u] = call[u]
    BY <1>1 DEF IInv, TypeOK, PC
  <1>3. Wraps(call[t]) /\ ~Throws(call[t]) /\ ~Throws(call[t])'
    BY <1>1, <1>2 DEF Wraps, Throws
  <1>4. CallOK(t, call[t])'
    BY <1>1, <1>2, <1>3, CallAbout DEF CallOK, Wraps, Throws, ovars
  <1> QED  BY <1>1, <1>2, <1>3, <1>4, CallStep DEF wvars, IInv, TypeOK

LEMMA WrapLookupIInv ==
  ASSUME IInv, NEW t \in Threads, WrapLookup(t)
  PROVE  IInv'
  <1> DEFINE q == qdata[call[t].obj]
  <1>1. /\ call[t].pc = "lookup" /\ UNCHANGED <<ovars, wvars, leaked, mutex>>
        /\ call' = [call EXCEPT ![t].w = q, ![t].pc = IF q = NULL THEN "create" ELSE "finish"]
    BY DEF WrapLookup, CurrentWrapper
  <1>2. q \in Wrappers \cup {NULL} /\ Wraps(call[t]) /\ ~Throws(call[t])
    BY <1>1, CallAbout DEF IInv, TypeOK, Wraps, Throws
  <1>3. q = qdata[call[t].obj]
    OBVIOUS
  <1> HIDE DEF q
  <1>4. /\ call' \in [Threads -> [pc : PC, obj : Objects \cup {NULL}, copy : BOOLEAN,
                                  w : Wrappers \cup {NULL}]]
        /\ call'[t].pc = IF q = NULL THEN "create" ELSE "finish"
        /\ call'[t].obj = call[t].obj /\ call'[t].w = q
        /\ \A u \in Threads \ {t} : call'[u] = call[u]
    BY <1>1, <1>2 DEF IInv, TypeOK, PC
  <1>5. CallOK(t, call[t])
    BY DEF IInv, CallsOK
  <1>6. CallOK(t, call[t])'
    BY <1>1, <1>2, <1>3, <1>4, <1>5, CallAbout DEF CallOK, Wraps, Throws, ovars
  <1>7. ~Throws(call[t])'
    BY <1>4 DEF Throws
  <1> QED  BY <1>1, <1>2, <1>4, <1>6, <1>7, CallStep DEF wvars, IInv, TypeOK

LEMMA WrapConstructIInv ==
  ASSUME IInv, NEW t \in Threads, WrapConstruct(t)
  PROVE  IInv'
  <1> DEFINE w == call[t].w
  <1>1. /\ call[t].pc = "construct" /\ UNCHANGED <<ovars, gobject, refptrs, leaked, mutex>>
        /\ wrapper' = [wrapper EXCEPT ![w] = IF @ = "constructing" THEN "live" ELSE @]
        /\ call' = [call EXCEPT ![t].pc = "finish"]
    BY DEF WrapConstruct
  <1>2. /\ call' \in [Threads -> [pc : PC, obj : Objects \cup {NULL}, copy : BOOLEAN,
                                  w : Wrappers \cup {NULL}]]
        /\ call'[t].pc = "finish" /\ call'[t].obj = call[t].obj /\ call'[t].w = call[t].w
        /\ \A u \in Threads \ {t} : call'[u] = call[u]
    BY <1>1 DEF IInv, TypeOK, PC
  <1>3. /\ CallOK(t, call[t]) /\ call[t].obj \in Objects /\ call[t].obj # NULL
        /\ ObjectOK(call[t].obj) /\ Wraps(call[t]) /\ ~Throws(call[t]) /\ ~Throws(call[t])'
    BY <1>1, <1>2, CallAbout DEF IInv, CallsOK, ObjectsOK, Wraps, Throws
  <1>4. /\ mutex = t /\ w \in Wrappers /\ qdata[call[t].obj] = w /\ gobject[w] = call[t].obj
        /\ w \in HeapWrappers
    BY <1>1, <1>3, ObjectBaseAssumption DEF CallOK, ObjectOK
  <1>5. CallOK(t, call[t])'
    BY <1>1, <1>2, <1>3, <1>4, CallAbout DEF CallOK, Wraps, Throws, ovars
  <1> HIDE DEF w
  <1>6. /\ wrapper' \in [Wrappers -> {"unborn", "constructing", "live", "deleted"}]
        /\ \A x \in Wrappers :
             \/ wrapper'[x] = wrapper[x]
             \/ wrapper'[x] = "live" /\ x = w
    BY <1>1, <1>4 DEF IInv, TypeOK
  <1> QED  BY <1>1, <1>2, <1>3, <1>4, <1>5, <1>6, CallStep

\* The thread that holds the mutex makes the wrapper w of an object that has none: no
\* other wrapper points to the object.
LEMMA WrapCreateIInv ==
  ASSUME IInv, NEW t \in Threads, NEW w \in Wrappers, WrapCreate(t, w)
  PROVE  IInv'
  <1> DEFINE o == call[t].obj
  <1>1. /\ call[t].pc = "create" /\ w \in HeapWrappers /\ wrapper[w] = "unborn"
        /\ wrapper' = [wrapper EXCEPT ![w] = "constructing"]
        /\ gobject' = [gobject EXCEPT ![w] = o]
        /\ UNCHANGED <<ovars, refptrs, leaked, mutex>>
    BY DEF WrapCreate
  <1>2. CallOK(t, call[t]) /\ mutex = t /\ qdata[o] = NULL
    BY <1>1 DEF IInv, CallsOK, CallOK
  <1>3. /\ o \in Objects /\ t \in cHolders[o] /\ gobj[o] = "live" /\ o # NULL
        /\ ~Throws(call[t])
    BY <1>1, CallAbout DEF Wraps, Throws
  <1>a. o = call[t].obj
    OBVIOUS
  <1>4. call' = [call EXCEPT ![t].w = w, ![t].pc = "set"]
    BY <1>2 DEF WrapCreate
  <1> HIDE DEF o
  <1>5. /\ call' \in [Threads -> [pc : PC, obj : Objects \cup {NULL}, copy : BOOLEAN,
                                  w : Wrappers \cup {NULL}]]
        /\ call'[t].pc = "set" /\ call'[t].obj = o /\ call'[t].w = w
        /\ \A u \in Threads \ {t} : call'[u] = call[u]
    <2>1. call \in [Threads -> [pc : PC, obj : Objects \cup {NULL}, copy : BOOLEAN,
                                w : Wrappers \cup {NULL}]]
      BY DEF IInv, TypeOK
    <2> QED  BY <1>a, <1>4, <2>1 DEF PC
  <1>6. \A x \in Wrappers :
          /\ gobject'[x] = IF x = w THEN o ELSE gobject[x]
          /\ wrapper'[x] = IF x = w THEN "constructing" ELSE wrapper[x]
    BY <1>1 DEF IInv, TypeOK
  <1>7. /\ gobject[w] = NULL /\ refptrs[w] = 0
        /\ \A x \in Wrappers : gobject[x] # o
    <2>1. gobject[w] = NULL
      BY <1>1 DEF IInv, WrappersOK, WrapperOK, Wrappers
    <2>2. refptrs[w] = 0
      BY <2>1 DEF IInv, WrappersOK, WrapperOK
    <2>3. ASSUME NEW x \in Wrappers, gobject[x] = o PROVE FALSE
      <3>1. WrapperOK(x) /\ x # NULL
        BY ObjectBaseAssumption DEF IInv, WrappersOK
      <3>2. PICK u \in Threads : Setting(u, x)
        BY <1>2, <1>3, <2>3, <3>1 DEF WrapperOK
      <3>3. u = t
        BY <1>2, <3>2 DEF Setting, IInv, CallsOK, CallOK
      <3> QED  BY <1>1, <3>2, <3>3 DEF Setting
    <2> QED  BY <2>1, <2>2, <2>3
  <1>8. TypeOK'
    BY <1>1, <1>3, <1>5 DEF IInv, TypeOK, ovars
  <1>9. CallsOK'
    <2> SUFFICES ASSUME NEW u \in Threads PROVE CallOK(u, call[u])'
      BY DEF CallsOK
    <2>1. CASE u = t
      BY <1>1, <1>2, <1>3, <1>5, <1>6, <2>1 DEF CallOK, Wraps, Throws, ovars
    <2>2. CASE u # t
      <3>1. CallOK(u, call[u]) /\ call'[u] = call[u] /\ mutex # u /\ mutex' = mutex
        BY <1>1, <1>2, <1>5, <2>2 DEF IInv, CallsOK
      <3>2. CASE Throws(call[u])
        <4>1. call[u].w \in Wrappers \ {w}
          BY <1>1, <3>1, <3>2, ObjectBaseAssumption DEF CallOK, ThrowOK, Wrappers
        <4>2. ThrowOK(u, call[u])'
          BY <1>1, <1>3, <1>5, <1>6, <3>1, <3>2, <4>1 DEF CallOK, ThrowOK, Throws, ovars
        <4> QED  BY <3>1, <3>2, <4>2 DEF CallOK, Wraps, Throws
      <3>3. CASE ~Throws(call[u])
        BY <1>1, <3>1, <3>3 DEF CallOK, Wraps, Throws, ovars
      <3> QED  BY <3>2, <3>3
    <2> QED  BY <2>1, <2>2
  <1>10. WrappersOK'
    <2> SUFFICES ASSUME NEW x \in Wrappers PROVE WrapperOK(x)'
      BY DEF WrappersOK
    <2>1. WrapperOK(x)
      BY DEF IInv, WrappersOK
    <2>2. CASE x = w
      BY <1>1, <1>3, <1>5, <1>6, <1>7, <2>2 DEF WrapperOK, Setting, ovars
    <2>3. CASE x # w
      <3>1. \A u \in Threads : Setting(u, x) => Setting(u, x)'
        BY <1>1, <1>5 DEF Setting
      <3> QED  BY <1>1, <1>6, <2>1, <2>3, <3>1 DEF WrapperOK, ovars
    <2> QED  BY <2>2, <2>3
  <1>11. ObjectsOK'
    <2> SUFFICES ASSUME NEW p \in Objects PROVE ObjectOK(p)'
      BY DEF ObjectsOK
    <2>1. ObjectOK(p) /\ qdata[p] \in Wrappers \cup {NULL} /\ p # NULL
      BY ObjectBaseAssumption DEF IInv, ObjectsOK, TypeOK
    <2> QED  BY <1>1, <1>6, <1>7, <2>1 DEF ObjectOK, ovars
  <1>12. Counts'
    <2> SUFFICES ASSUME NEW p \in Objects PROVE Exact(p)'
      BY DEF Counts
    <2>1. Exact(p) /\ p # NULL
      BY ObjectBaseAssumption DEF IInv, Counts
    <2>a. Extra(p)' = Extra(p) /\ Extra(p) \in Nat
      <3>1. ~Throws(call[t])'
        BY <1>5 DEF Throws
      <3> QED  BY <1>1, <1>3, <1>5, <3>1, ExtraKept, ExtraNat DEF IInv
    <2>b. \A x \in Wrappers : Var(x)' = Var(x)
      BY <1>1, <1>6, ObjectBaseAssumption DEF Var
    <2>2. CASE p = o
      <3>1. \A x \in Wrappers : gobject'[x] = o <=> x = w
        BY <1>6, <1>7
      <3>2. /\ gref[o] = Cardinality(cHolders[o]) + Extra(p)
            /\ Cardinality(cHolders[o]) \in Nat
        BY <1>3, <1>7, <2>1, <2>2, HoldersFinite DEF Exact, IInv
      <3>3. Var(w) = 0
        BY <1>1, ObjectBaseAssumption DEF Var
      <3>4. gref[o] = Cardinality(cHolders[o]) + refptrs[w] + Var(w) + Extra(p)
        BY <1>7, <2>a, <3>2, <3>3
      <3> QED  BY <1>1, <2>a, <2>b, <2>2, <3>1, <3>4 DEF Exact, ovars
    <2>3. CASE p # o
      <3>1. \A x \in Wrappers : gobject'[x] = p <=> gobject[x] = p
        BY <1>6, <1>7, <2>1, <2>3
      <3> QED  BY <1>1, <2>1, <2>a, <2>b, <3>1 DEF Exact, ovars
    <2> QED  BY <2>2, <2>3
  <1> QED  BY <1>8, <1>9, <1>10, <1>11, <1>12 DEF IInv

\* No wrapper has been set meanwhile, so that none is replaced.
LEMMA WrapSetIInv ==
  ASSUME IInv, NEW t \in Threads, WrapSet(t)
  PROVE  IInv'
  <1> DEFINE o == call[t].obj
             w == call[t].w
  <1>1. /\ call[t].pc = "set" /\ DestroyNotify(qdata[o])
        /\ qdata' = [qdata EXCEPT ![o] = w]
        /\ call' = [call EXCEPT ![t].pc = "construct"]
        /\ UNCHANGED <<gobj, gref, cHolders, refptrs, leaked, mutex>>
    BY DEF WrapSet
  <1>2. /\ mutex = t /\ qdata[o] = NULL
        /\ w \in HeapWrappers /\ wrapper[w] = "constructing" /\ gobject[w] = o
    BY <1>1 DEF IInv, CallsOK, CallOK
  <1>3. /\ o \in Objects /\ t \in cHolders[o] /\ gobj[o] = "live" /\ o # NULL
        /\ ~Throws(call[t])
    BY <1>1, CallAbout DEF Wraps, Throws
  <1>a. o = call[t].obj /\ w = call[t].w /\ w \in Wrappers /\ w # NULL
    BY <1>2, ObjectBaseAssumption DEF Wrappers
  <1> HIDE DEF o, w
  <1>4. wrapper' = wrapper /\ gobject' = gobject
    BY <1>1, <1>2, ObjectBaseAssumption DEF DestroyNotify, IInv, TypeOK
  <1>5. /\ call' \in [Threads -> [pc : PC, obj : Objects \cup {NULL}, copy : BOOLEAN,
                                  w : Wrappers \cup {NULL}]]
        /\ call'[t].pc = "construct" /\ call'[t].obj = o /\ call'[t].w = w
        /\ \A u \in Threads \ {t} : call'[u] = call[u]
    BY <1>a, <1>1 DEF IInv, TypeOK, PC
  <1>6. \A p \in Objects : qdata'[p] = IF p = o THEN w ELSE qdata[p]
    BY <1>1 DEF IInv, TypeOK
  <1>7. TypeOK'
    BY <1>a, <1>1, <1>4, <1>5 DEF IInv, TypeOK
  <1>8. CallsOK'
    <2> SUFFICES ASSUME NEW u \in Threads PROVE CallOK(u, call[u])'
      BY DEF CallsOK
    <2>1. CASE u = t
      BY <1>a, <1>1, <1>2, <1>3, <1>5, <1>6, <2>1 DEF CallOK, Wraps, Throws
    <2>2. CASE u # t
      <3>1. CallOK(u, call[u]) /\ call'[u] = call[u] /\ mutex # u /\ mutex' = mutex
        BY <1>1, <1>2, <1>5, <2>2 DEF IInv, CallsOK
      <3>2. CASE call[u].pc = "idle"
        BY <3>1, <3>2 DEF CallOK, Wraps, Throws
      <3>3. CASE Wraps(call[u])
        <4>1. call[u].obj \in Objects /\ u \in cHolders'[call[u].obj]
          BY <1>1, <3>3, CallAbout
        <4>2. call[u].pc = "finish" => call[u].w # NULL
          BY <3>1, ObjectBaseAssumption DEF CallOK
        <4> QED  BY <1>a, <1>2, <1>4, <1>6, <3>1, <3>3, <4>1, <4>2 DEF CallOK, Wraps, Throws
      <3>4. CASE Throws(call[u])
        <4>1. call[u].obj \in Objects \ {o}
          BY <1>a, <1>1, <3>1, <3>4, ThrowsAlone, <2>2 DEF CallOK, ThrowOK, Throws
        <4>2. ThrowOK(u, call[u])'
          BY <1>1, <1>3, <1>4, <1>5, <1>6, <3>1, <3>4, <4>1 DEF CallOK, ThrowOK, Throws
        <4> QED  BY <3>1, <3>4, <4>2 DEF CallOK, Wraps, Throws
      <3> QED  BY <3>2, <3>3, <3>4 DEF Wraps, Throws
    <2> QED  BY <2>1, <2>2
  <1>9. WrappersOK'
    <2> SUFFICES ASSUME NEW x \in Wrappers PROVE WrapperOK(x)'
      BY DEF WrappersOK
    <2>1. WrapperOK(x) /\ gobject[x] \in Objects \cup {NULL} /\ x # NULL
      BY ObjectBaseAssumption DEF IInv, WrappersOK, TypeOK
    <2>2. CASE x = w
      BY <1>1, <1>2, <1>3, <1>4, <1>6, <2>1, <2>2 DEF WrapperOK
    <2>3. CASE x # w
      <3>1. \A u \in Threads : Setting(u, x) => Setting(u, x)'
        BY <1>a, <1>5, <2>3 DEF Setting
      <3>2. gobject[x] # o
        BY <1>a, <1>2, <1>3, <2>3, Single
      <3> QED  BY <1>1, <1>4, <1>6, <2>1, <3>1, <3>2 DEF WrapperOK
    <2> QED  BY <2>2, <2>3
  <1>10. ObjectsOK'
    <2> SUFFICES ASSUME NEW p \in Objects PROVE ObjectOK(p)'
      BY DEF ObjectsOK
    <2>1. ObjectOK(p)
      BY DEF IInv, ObjectsOK
    <2> QED  BY <1>1, <1>2, <1>4, <1>6, <2>1 DEF ObjectOK
  <1>11. Counts'
    <2> SUFFICES ASSUME NEW p \in Objects PROVE Exact(p)'
      BY DEF Counts
    <2>1. ~Throws(call[t])'
      BY <1>5 DEF Throws
    <2>2. Exact(p) /\ Extra(p)' = Extra(p)
      BY <1>1, <1>3, <1>5, <2>1, ExtraKept DEF IInv, Counts
    <2> QED  BY <1>1, <1>4, <2>2 DEF Exact, Var
  <1> QED  BY <1>7, <1>8, <1>9, <1>10, <1>11 DEF IInv

\* The RefPtr that wrap() returns takes over the reference of the thread, or a new one;
\* or the reference is lost.
LEMMA WrapFinishIInv ==
  ASSUME IInv, NEW t \in Threads, WrapFinish(t)
  PROVE  IInv'
  <1> DEFINE o == call[t].obj
             w == call[t].w
             copy == call[t].copy
  <1>1. /\ call[t].pc = "finish" /\ Unlock(t)
        /\ IF wrapper[w] = "constructing"
             THEN leaked' = [leaked EXCEPT ![o] = @ + 1] /\ UNCHANGED refptrs
             ELSE refptrs' = [refptrs EXCEPT ![w] = @ + 1] /\ UNCHANGED leaked
        /\ gref' = [gref EXCEPT ![o] = @ + TakeCopy(copy)]
        /\ cHolders' = [cHolders EXCEPT ![o] = IF copy THEN @ ELSE @ \ {t}]
        /\ call' = [call EXCEPT ![t] = Idle]
        /\ UNCHANGED <<gobj, qdata, wrapper, gobject>>
    BY DEF WrapFinish, CastFails
  <1>2. w \in Wrappers /\ qdata[o] = w
    BY <1>1 DEF IInv, CallsOK, CallOK
  <1>3. /\ o \in Objects /\ t \in cHolders[o] /\ gobj[o] = "live" /\ o # NULL /\ copy \in BOOLEAN
        /\ ~Throws(call[t])
    BY <1>1, CallAbout DEF IInv, TypeOK, Wraps, Throws
  <1>a. o = call[t].obj
    OBVIOUS
  <1> HIDE DEF o, w, copy
  <1>4. gobject[w] = o /\ wrapper[w] \in {"constructing", "live"}
    BY <1>2, <1>3, ObjectBaseAssumption DEF IInv, ObjectsOK, ObjectOK, WrappersOK, WrapperOK
  <1>5. Idle \in [pc : PC, obj : Objects \cup {NULL}, copy : BOOLEAN, w : Wrappers \cup {NULL}]
        /\ Idle.pc = "idle"
    BY DEF Idle, PC
  <1>6. /\ call' \in [Threads -> [pc : PC, obj : Objects \cup {NULL}, copy : BOOLEAN,
                                  w : Wrappers \cup {NULL}]]
        /\ call'[t] = Idle /\ \A u \in Threads \ {t} : call'[u] = call[u]
    BY <1>1, <1>5 DEF IInv, TypeOK
  <1>7. TakeCopy(copy) = (IF copy THEN 1 ELSE 0) /\ TakeCopy(copy) \in Nat
    BY DEF TakeCopy
  <1>8. mutex' = (IF mutex = t THEN NULL ELSE mutex) /\ mutex' \in Threads \cup {NULL}
    BY <1>1 DEF Unlock, IInv, TypeOK
  <1>9. /\ refptrs' \in [Wrappers -> Nat] /\ leaked' \in [Objects -> Nat]
        /\ refptrs'[w] + leaked'[o] = refptrs[w] + leaked[o] + 1
        /\ refptrs'[w] # refptrs[w] => wrapper[w] = "live"
        /\ \A x \in Wrappers \ {w} : refptrs'[x] = refptrs[x]
        /\ \A p \in Objects \ {o} : leaked'[p] = leaked[p]
    <2>1. refptrs[w] \in Nat /\ leaked[o] \in Nat
      BY <1>2, <1>3 DEF IInv, TypeOK
    <2>2. CASE wrapper[w] = "constructing"
      <3>1. leaked' = [leaked EXCEPT ![o] = @ + 1] /\ refptrs' = refptrs
        BY <1>1, <2>2
      <3>2. /\ leaked'[o] = leaked[o] + 1 /\ leaked' \in [Objects -> Nat]
            /\ refptrs' \in [Wrappers -> Nat]
            /\ \A p \in Objects \ {o} : leaked'[p] = leaked[p]
        BY <1>3, <2>1, <3>1 DEF IInv, TypeOK
      <3>3. refptrs'[w] + leaked'[o] = refptrs[w] + leaked[o] + 1
        BY <2>1, <3>1, <3>2
      <3> QED  BY <3>1, <3>2, <3>3
    <2>3. CASE wrapper[w] = "live"
      <3>1. refptrs' = [refptrs EXCEPT ![w] = @ + 1] /\ leaked' = leaked
        BY <1>1, <2>3
      <3>2. /\ refptrs'[w] = refptrs[w] + 1 /\ refptrs' \in [Wrappers -> Nat]
            /\ leaked' \in [Objects -> Nat]
            /\ \A x \in Wrappers \ {w} : refptrs'[x] = refptrs[x]
        BY <1>2, <2>1, <3>1 DEF IInv, TypeOK
      <3>3. refptrs'[w] + leaked'[o] = refptrs[w] + leaked[o] + 1
        BY <2>1, <3>1, <3>2
      <3> QED  BY <2>3, <3>1, <3>2, <3>3
    <2> QED  BY <1>4, <2>2, <2>3
  <1>10. /\ gref' \in [Objects -> Nat] /\ gref'[o] = gref[o] + TakeCopy(copy)
         /\ \A p \in Objects \ {o} : gref'[p] = gref[p]
    BY <1>1, <1>3, <1>7 DEF IInv, TypeOK
  <1>11. /\ cHolders' \in [Objects -> SUBSET Threads]
         /\ cHolders'[o] = IF copy THEN cHolders[o] ELSE cHolders[o] \ {t}
         /\ \A p \in Objects \ {o} : cHolders'[p] = cHolders[p]
    BY <1>1, <1>3 DEF IInv, TypeOK
  <1>12. TypeOK'
    BY <1>1, <1>6, <1>8, <1>9, <1>10, <1>11 DEF IInv, TypeOK
  <1>13. CallsOK'
    <2> SUFFICES ASSUME NEW u \in Threads PROVE CallOK(u, call[u])'
      BY DEF CallsOK
    <2>1. CASE u = t
      <3>1. mutex' # t
        BY <1>8, ObjectBaseAssumption
      <3> QED  BY <1>5, <1>6, <2>1, <3>1 DEF CallOK, Wraps, Throws
    <2>2. CASE u # t
      <3>1. CallOK(u, call[u]) /\ call'[u] = call[u] /\ (mutex = u <=> mutex' = u)
        BY <1>6, <1>8, <2>2, ObjectBaseAssumption DEF IInv, CallsOK
      <3>2. Wraps(call[u]) => u \in cHolders'[call[u].obj]
        BY <1>11, <2>2, CallAbout
      <3>3. CASE Throws(call[u])
        <4>1. cHolders'[call[u].obj] \subseteq {u}
          BY <1>11, <3>1, <3>3 DEF CallOK, ThrowOK
        <4>2. ThrowOK(u, call[u])'
          BY <1>1, <1>5, <1>6, <3>1, <3>3, <4>1 DEF CallOK, ThrowOK, Throws
        <4> QED  BY <3>1, <3>3, <4>2 DEF CallOK, Wraps, Throws
      <3>4. CASE ~Throws(call[u])
        BY <1>1, <3>1, <3>2, <3>4 DEF CallOK, Wraps, Throws
      <3> QED  BY <3>3, <3>4
    <2> QED  BY <2>1, <2>2
  <1>14. WrappersOK'
    <2> SUFFICES ASSUME NEW x \in Wrappers PROVE WrapperOK(x)'
      BY DEF WrappersOK
    <2>1. WrapperOK(x)
      BY DEF IInv, WrappersOK
    <2>2. \A u \in Threads : Setting(u, x) => Setting(u, x)'
      BY <1>1, <1>6 DEF Setting
    <2>3. gobject[x] = NULL => refptrs'[x] = refptrs[x]
      BY <1>3, <1>4, <1>9
    <2>4. refptrs'[x] > 0 => wrapper[x] = "live"
      BY <1>9, <2>1 DEF WrapperOK
    <2> QED  BY <1>1, <2>1, <2>2, <2>3, <2>4 DEF WrapperOK
  <1>15. ObjectsOK'
    BY <1>1, <1>3, <1>9, <1>11 DEF IInv, ObjectsOK, ObjectOK
  <1>16. Counts'
    <2> SUFFICES ASSUME NEW p \in Objects PROVE Exact(p)'
      BY DEF Counts
    <2>1. Exact(p)
      BY DEF IInv, Counts
    <2>a. Thrown(p)' = Thrown(p) /\ Thrown(p) \in Nat /\ \A x \in Wrappers : Var(x)' = Var(x)
      <3>1. \A u \in Threads : (Throws(call[u]) /\ call[u].obj = p)' <=> Throws(call[u]) /\ call[u].obj = p
        BY <1>3, <1>5, <1>6 DEF Throws
      <3> QED  BY <1>1, <3>1 DEF Thrown, Var
    <2>2. CASE p = o
      <3>1. \A x \in Wrappers : gobject'[x] = o <=> x = w
        BY <1>1, <1>2, <1>3, <1>4, Single
      <3>2. /\ Cardinality(cHolders[o]) \in Nat
            /\ Cardinality(cHolders[o] \ {t}) = Cardinality(cHolders[o]) - 1
        BY <1>3, HoldersFinite DEF IInv
      <3>3. /\ Var(w) \in Nat /\ refptrs[w] \in Nat /\ gref[o] \in Nat /\ leaked[o] \in Nat
            /\ refptrs'[w] \in Nat /\ leaked'[o] \in Nat /\ Thrown(p) \in Nat
        BY <1>2, <1>3, <1>9, <2>a DEF Var, IInv, TypeOK
      <3>4. gref[o] = Cardinality(cHolders[o]) + refptrs[w] + Var(w) + (Thrown(p) + leaked[o])
        BY <1>2, <1>3, <1>4, <2>1, <2>2 DEF Exact, Extra
      <3>5. gref'[o] = Cardinality(cHolders'[o]) + refptrs'[w] + Var(w) + (Thrown(p) + leaked'[o])
        <4>1. CASE copy
          BY <1>7, <1>9, <1>10, <1>11, <3>2, <3>3, <3>4, <4>1
        <4>2. CASE ~copy
          BY <1>7, <1>9, <1>10, <1>11, <3>2, <3>3, <3>4, <4>2
        <4> QED  BY <4>1, <4>2
      <3> QED  BY <1>1, <1>2, <2>a, <2>2, <3>1, <3>5 DEF Exact, Extra
    <2>3. CASE p # o
      <3>1. \A x \in Wrappers : gobject[x] = p => refptrs'[x] = refptrs[x]
        BY <1>4, <1>9, <2>3
      <3> QED  BY <1>1, <1>9, <1>10, <1>11, <2>1, <2>a, <2>3, <3>1 DEF Exact, Extra
    <2> QED  BY <2>2, <2>3
  <1> QED  BY <1>12, <1>13, <1>14, <1>15, <1>16 DEF IInv

-----------------------------------------------------------------------------
(* The specification. *)

LEMMA InitIInv ==
  ASSUME Init
  PROVE  IInv
  <1>1. Idle \in [pc : PC, obj : Objects \cup {NULL}, copy : BOOLEAN, w : Wrappers \cup {NULL}]
        /\ Idle.pc = "idle"
    BY DEF Idle, PC
  <1>2. TypeOK
    BY <1>1 DEF Init, TypeOK
  <1>3. CallsOK
    BY <1>1, ObjectBaseAssumption DEF Init, CallsOK, CallOK, Wraps, Throws
  <1>4. WrappersOK /\ ObjectsOK /\ Counts
    BY DEF Init, WrappersOK, WrapperOK, ObjectsOK, ObjectOK, Counts, Exact
  <1> QED  BY <1>2, <1>3, <1>4 DEF IInv

LEMMA NextIInv ==
  ASSUME UsesMutex, IInv, [Next]_vars
  PROVE  IInv'
  <1>1. ASSUME NEW t \in Threads, NEW o \in Objects, CNew(t, o) PROVE IInv'
    BY <1>1, CNewIInv
  <1>2. ASSUME NEW t \in Threads, NEW o \in Objects, CUnref(t, o) PROVE IInv'
    BY <1>2, CUnrefIInv
  <1>3. ASSUME NEW t \in Threads, NEW u \in Threads, NEW o \in Objects, CRef(t, u, o) PROVE IInv'
    BY <1>3, CRefIInv
  <1>4. ASSUME NEW t \in Threads, NEW w \in Wrappers, NEW o \in Objects, New(t, w, o) PROVE IInv'
    BY <1>4, NewIInv
  <1>5. ASSUME NEW t \in Threads, NEW w \in Wrappers, NEW o \in Objects, NewThrows(t, w, o)
        PROVE  IInv'
    BY <1>5, NewThrowsIInv
  <1>6. ASSUME NEW t \in Threads, NEW o \in Objects, NEW copy \in BOOLEAN, WrapBegin(t, o, copy)
        PROVE  IInv'
    BY <1>6, WrapBeginIInv
  <1>7. ASSUME NEW t \in Threads, NEW w \in Wrappers, GobjCopy(t, w) PROVE IInv'
    BY <1>7, GobjCopyIInv
  <1>8. ASSUME NEW t \in Threads, NEW w \in Wrappers, DropRefPtr(t, w) PROVE IInv'
    BY <1>8, DropRefPtrIInv
  <1>9. ASSUME NEW t \in Threads, NEW w \in Wrappers, DestroyValue(t, w) PROVE IInv'
    BY <1>9, DestroyValueIInv
  <1>10. ASSUME NEW t \in Threads, NEW w \in Wrappers, NEW src \in Wrappers,
                MoveConstruct(t, w, src)
         PROVE  IInv'
    BY <1>10, MoveConstructIInv
  <1>11. ASSUME NEW t \in Threads, NEW w \in Wrappers, NEW src \in Wrappers,
                MoveAssign(t, w, src)
         PROVE  IInv'
    BY <1>11, MoveAssignIInv
  <1>12. ASSUME NEW t \in Threads, WrapStep(t) PROVE IInv'
    BY <1>12, WrapLockIInv, WrapLookupIInv, WrapCreateIInv, WrapSetIInv, WrapConstructIInv,
       WrapFinishIInv DEF WrapStep
  <1>13. ASSUME NEW t \in Threads, ThrowSteal(t) \/ ThrowRelease(t) PROVE IInv'
    BY <1>13, ThrowStealIInv, ThrowReleaseIInv
  <1>14. CASE UNCHANGED vars
    <2>1. TypeOK' /\ CallsOK'
      BY <1>14 DEF vars, ovars, wvars, IInv, TypeOK, CallsOK, CallOK, ThrowOK, Wraps, Throws
    <2>2. WrappersOK' /\ ObjectsOK' /\ Counts'
      BY <1>14 DEF vars, ovars, wvars, IInv, WrappersOK, WrapperOK, Setting, ObjectsOK, ObjectOK,
                   Counts, Exact, Var, Extra, Thrown, Throws
    <2> QED  BY <2>1, <2>2 DEF IInv
  <1> QED  BY <1>1, <1>2, <1>3, <1>4, <1>5, <1>6, <1>7, <1>8, <1>9, <1>10, <1>11, <1>12, <1>13,
              <1>14
           DEF Next

LEMMA IInvHolds ==
  ASSUME UsesMutex
  PROVE  Spec => []IInv
  BY InitIInv, NextIInv, PTL DEF Spec

\* If wrap() takes the mutex, whatever threads do, two wrappers never wrap the same
\* GObject, and the wrapper a GObject names exists and names that GObject.
THEOREM OneWrapperPerObject ==
  ASSUME UsesMutex
  PROVE  Spec => []SingleWrapper
  <1>1. ASSUME IInv PROVE SingleWrapper
    <2>1. \A w, x \in Wrappers : gobject[w] # NULL /\ gobject[w] = gobject[x] => w = x
      BY <1>1, Single
    <2>2. ASSUME NEW o \in Objects, qdata[o] # NULL
          PROVE  /\ wrapper[qdata[o]] \in {"constructing", "live"}
                 /\ gobject[qdata[o]] = o
      <3>1. qdata[o] \in Wrappers /\ gobject[qdata[o]] = o /\ o # NULL
        BY <1>1, <2>2, ObjectBaseAssumption DEF IInv, TypeOK, ObjectsOK, ObjectOK
      <3> QED  BY <1>1, <3>1 DEF IInv, WrappersOK, WrapperOK
    <2> QED  BY <2>1, <2>2 DEF SingleWrapper
  <1> QED  BY <1>1, IInvHolds, PTL

\* Whoever holds a RefPtr has a whole wrapper, all its constructors done, and a GObject
\* that exists, and a wrapper on the heap does not outlive its GObject.
THEOREM RefPtrsKeepAlive ==
  ASSUME UsesMutex
  PROVE  Spec => []WrappersAlive
  <1>1. ASSUME IInv PROVE WrappersAlive
    <2> SUFFICES ASSUME NEW w \in Wrappers
                 PROVE  /\ refptrs[w] > 0 => wrapper[w] = "live"
                        /\ refptrs[w] > 0 \/ (wrapper[w] = "live" /\ w \in HeapWrappers) =>
                             gobject[w] # NULL /\ gobj[gobject[w]] = "live"
      BY DEF WrappersAlive
    <2>1. WrapperOK(w)
      BY <1>1 DEF IInv, WrappersOK
    <2>2. refptrs[w] \in Nat
      BY <1>1 DEF IInv, TypeOK
    <2> QED  BY <2>1, <2>2 DEF WrapperOK
  <1> QED  BY <1>1, IInvHolds, PTL

\* The references of one wrapper, numbered.
LEMMA Numbered ==
  ASSUME NEW w, NEW n \in Nat
  PROVE  Cardinality({w} \X (1..n)) = n
  <1>1. IsFiniteSet({w}) /\ Cardinality({w}) = 1
    BY FS_Singleton
  <1>2. IsFiniteSet(1..n) /\ Cardinality(1..n) = n
    BY FS_Interval
  <1>3. Cardinality({w} \X (1..n)) = Cardinality({w}) * Cardinality(1..n)
    BY <1>1, <1>2, FS_Product
  <1> QED  BY <1>1, <1>2, <1>3

\* At most one constructor that throws has a reference on an object.
LEMMA ThrowingCounted ==
  ASSUME IInv, NEW o \in Objects
  PROVE  Cardinality(Throwing(o)) = Thrown(o)
  <1>1. CASE \A t \in Threads : ~(Throws(call[t]) /\ call[t].obj = o)
    <2>1. Throwing(o) = {} /\ Thrown(o) = 0
      BY <1>1 DEF Throwing, Thrown, Throws
    <2> QED  BY <2>1, FS_EmptySet
  <1>2. ASSUME NEW t \in Threads, Throws(call[t]), call[t].obj = o
        PROVE  Cardinality(Throwing(o)) = Thrown(o)
    <2>1. \A u \in Threads : Throws(call[u]) /\ call[u].obj = o => u = t
      BY <1>2, ThrowsAlone DEF Throws
    <2>2. Throwing(o) = {t} /\ Thrown(o) = 1
      BY <1>2, <2>1 DEF Throwing, Thrown, Throws
    <2> QED  BY <2>2, FS_Singleton
  <1> QED  BY <1>1, <1>2

\* Every reference on a GObject has exactly one owner, through moves, copies and wrap();
\* only a call of wrap() that meets a wrapper half constructed leaves one without.
THEOREM ReferencesCounted ==
  ASSUME UsesMutex
  PROVE  Spec => []RefCountExact
  <1>1. ASSUME IInv PROVE RefCountExact
    <2> SUFFICES ASSUME NEW o \in Objects, gobj[o] = "live"
                 PROVE  gref[o] = Cardinality(cHolders[o]) + Cardinality(CppReferences(o))
                                  + Cardinality(Throwing(o)) + leaked[o]
      BY <1>1 DEF RefCountExact, IInv
    <2>1. /\ Exact(o) /\ gref[o] \in Nat /\ Cardinality(cHolders[o]) \in Nat
          /\ o # NULL /\ leaked[o] \in Nat
      BY <1>1, HoldersFinite, ObjectBaseAssumption DEF IInv, Counts, TypeOK
    <2>2. /\ Extra(o) = Cardinality(Throwing(o)) + leaked[o]
          /\ Cardinality(Throwing(o)) \in Nat
      BY <1>1, ThrowingCounted DEF Extra, Thrown
    <2>3. CASE \A w \in Wrappers : gobject[w] # o
      <3>1. CppReferences(o) = {}
        BY <2>3 DEF CppReferences
      <3> QED  BY <2>1, <2>2, <2>3, <3>1, FS_EmptySet DEF Exact
    <2>4. ASSUME NEW w \in Wrappers, gobject[w] = o
          PROVE  gref[o] = Cardinality(cHolders[o]) + Cardinality(CppReferences(o))
                           + Cardinality(Throwing(o)) + leaked[o]
      <3> DEFINE n == refptrs[w] + Var(w)
      <3>1. refptrs[w] \in Nat /\ Var(w) \in Nat
        BY <1>1 DEF IInv, TypeOK, Var
      <3>2. gref[o] = Cardinality(cHolders[o]) + refptrs[w] + Var(w) + Extra(o)
        BY <2>1, <2>4 DEF Exact
      <3>3. n \in Nat /\ gref[o] = Cardinality(cHolders[o]) + n + Cardinality(Throwing(o)) + leaked[o]
        BY <2>1, <2>2, <3>1, <3>2
      <3>4. {x \in Wrappers : gobject[x] = o} = {w}
        BY <1>1, <2>1, <2>4, Single
      <3>5. CppReferences(o) = {w} \X (1..n)
        BY <3>4 DEF CppReferences, Var, OwnsReference
      <3> HIDE DEF n
      <3> QED  BY <3>3, <3>5, Numbered
    <2> QED  BY <2>3, <2>4
  <1> QED  BY <1>1, IInvHolds, PTL

-----------------------------------------------------------------------------
(***************************************************************************)
(* The slots and the exception handlers.                                   *)
(*                                                                         *)
(* The nodes: NodesAlive needs what GLib knows of a node (HandlerNode) and *)
(* that only a live object has a wrapper to connect through (WrapperAlive).*)
(* The handlers: IteratorsValid and AllTried need that the list has no     *)
(* duplicates, that it holds every installed handler, and, of every call   *)
(* of exception_handlers_invoke() under way, that the handlers before its  *)
(* iterator have been tried (FramesTried).                                 *)
(***************************************************************************)

\* GLib and the node agree: a handler that is connected has a node.
HandlerNode ==
  \A n \in Nodes :
    /\ node[n] = "unborn" <=> handler[n] = "none"
    /\ handler[n] = "connected" => node[n] = "live"

\* A finalized object has no wrapper.
WrapperAlive == associated => object = "live"

NodeInv == SignalTypeOK /\ NodesAlive /\ HandlerNode /\ WrapperAlive

\* A slot is in the list once, and an installed one is in it.
Distinct == \A i, j \in DOMAIN list : list[i] = list[j] => i = j

Installed ==
  \A h \in Handlers :
    /\ handlerSlot[h] = "unused" => h \notin ToSet(list)
    /\ handlerSlot[h] = "ready" => h \in ToSet(list)

\* Position j of the list is before the iterator x.
Before(j, x) == \A k \in DOMAIN list : list[k] = x => j < k

\* A call of exception_handlers_invoke() with the frame f: its iterator is valid,
\* the handler that it calls is installed, and it has tried the ones before.
FrameTried(f) ==
  /\ f.at \in ToSet(list) \cup {END}
  /\ f.calling => f.at # END /\ handlerSlot[f.at] = "ready" /\ f.at \in f.tried
  /\ \A j \in DOMAIN list :
       handlerSlot[list[j]] = "ready" /\ Before(j, f.at) => list[j] \in f.tried

\* Only the innermost call may be between two handlers.
FramesTried ==
  \A i \in DOMAIN stack :
    stack[i].kind = "invoke" =>
      FrameTried(stack[i]) /\ (i # Len(stack) => stack[i].calling)

ListInv == SignalTypeOK /\ Distinct /\ Installed /\ FramesTried

\* What both rest on: the types, and a list without duplicates.
TypeInv ==
  /\ SignalTypeOK
  /\ Distinct
  /\ \A h \in Handlers : handlerSlot[h] = "unused" => h \notin ToSet(list)

-----------------------------------------------------------------------------
(* Lists. *)

\* Removing the element at p.
LEMMA RemoveAtProperties ==
  ASSUME NEW S, NEW q \in Seq(S), NEW p \in 1..Len(q)
  PROVE  /\ RemoveAt(q, p) \in Seq(S)
         /\ Len(RemoveAt(q, p)) = Len(q) - 1
         /\ \A i \in 1..(Len(q) - 1) :
              RemoveAt(q, p)[i] = IF i < p THEN q[i] ELSE q[i + 1]
  <1> DEFINE a == SubSeq(q, 1, p - 1)
             b == SubSeq(q, p + 1, Len(q))
  <1>1. /\ a \in Seq(S) /\ Len(a) = p - 1
        /\ \A i \in 1..(p - 1) : a[i] = q[i]
    BY SubSeqProperties
  <1>2. /\ b \in Seq(S) /\ Len(b) = Len(q) - p
        /\ \A i \in 1..(Len(q) - p) : b[i] = q[p + i]
    BY SubSeqProperties
  <1>3. RemoveAt(q, p) = a \o b
    BY DEF RemoveAt
  <1> HIDE DEF a, b
  <1>4. Len(a) + Len(b) = Len(q) - 1
    BY <1>1, <1>2
  <1>5. /\ a \o b \in Seq(S)
        /\ Len(a \o b) = Len(a) + Len(b)
        /\ \A i \in 1..(Len(a) + Len(b)) :
             (a \o b)[i] = IF i <= Len(a) THEN a[i] ELSE b[i - Len(a)]
    BY <1>1, <1>2, ConcatProperties
  <1> QED  BY <1>1, <1>2, <1>3, <1>4, <1>5, SMTT(40)

\* The list without the handler at p, whose slot is dead.
LEMMA RemoveFirstProperties ==
  ASSUME list \in Seq(Handlers), Distinct, NEW p \in DOMAIN list
  PROVE  RemoveFirst(list, list[p]) = RemoveAt(list, p)
  <1> DEFINE I == {i \in 1..Len(list) : list[i] = list[p]}
  <1>1. I = {p}
    BY DEF Distinct
  <1>2. Min(I) = p
    BY <1>1 DEF Min
  <1>3. SelectInSeq(list, LAMBDA v : v = list[p]) = p
    BY <1>1, <1>2 DEF SelectInSeq
  <1> QED  BY <1>3 DEF RemoveFirst

\* The element after the one at p, and after one that is not in the list.
LEMMA AfterProperties ==
  ASSUME list \in Seq(Handlers), Distinct, NEW h
  PROVE  /\ \A p \in DOMAIN list :
              list[p] = h => After(h) = IF p = Len(list) THEN END ELSE list[p + 1]
         /\ h \notin ToSet(list) => After(h) = END
         /\ After(h) \in Handlers \cup {END}
  <1> DEFINE rest == {i \in DOMAIN list : \E j \in DOMAIN list : j < i /\ list[j] = h}
  <1>1. ASSUME NEW p \in DOMAIN list, list[p] = h
        PROVE  After(h) = IF p = Len(list) THEN END ELSE list[p + 1]
    <2>1. \A i \in DOMAIN list : i \in rest <=> p < i
      BY <1>1 DEF Distinct
    <2>2. CASE p = Len(list)
      BY <2>1, <2>2 DEF After
    <2>3. CASE p # Len(list)
      <3>1. p + 1 \in rest /\ \A j \in rest : p + 1 <= j
        BY <2>1, <2>3
      <3>2. (CHOOSE i \in rest : \A j \in rest : i <= j) = p + 1
        BY <2>1, <3>1
      <3> QED  BY <2>3, <3>1, <3>2 DEF After
    <2> QED  BY <2>2, <2>3
  <1>2. h \notin ToSet(list) => After(h) = END
    BY DEF After, ToSet
  <1>3. After(h) \in Handlers \cup {END}
    <2>1. CASE h \in ToSet(list)
      <3>1. PICK p \in DOMAIN list : list[p] = h
        BY <2>1 DEF ToSet
      <3> QED  BY <1>1, <3>1
    <2> QED  BY <1>2, <2>1
  <1> QED  BY <1>1, <1>2, <1>3

-----------------------------------------------------------------------------
(* The stack. *)

Frame == SlotFrame \cup InvokeFrame

\* A call of exception_handlers_invoke() is on top of the slot that threw.
Shape(q) ==
  \A i \in DOMAIN q : q[i].kind = "invoke" => i > 1 /\ q[i - 1].kind = "slot"

LEMMA FrameKinds ==
  \A f \in Frame :
    /\ f.kind = "slot" => f \in SlotFrame /\ f.node \in Nodes
    /\ f.kind # "slot" => f \in InvokeFrame /\ f.kind = "invoke"
  BY DEF Frame, SlotFrame, InvokeFrame

\* The first m elements of a sequence.
LEMMA PrefixProperties ==
  ASSUME NEW S, NEW q \in Seq(S), NEW m \in 0..Len(q)
  PROVE  /\ SubSeq(q, 1, m) \in Seq(S)
         /\ Len(SubSeq(q, 1, m)) = m
         /\ \A i \in 1..m : SubSeq(q, 1, m)[i] = q[i]
  BY SubSeqProperties

\* A frame is popped.
LEMMA FrontProperties ==
  ASSUME NEW q \in Seq(Frame), q # <<>>
  PROVE  /\ Front(q) \in Seq(Frame)
         /\ Len(Front(q)) = Len(q) - 1
         /\ \A i \in 1..(Len(q) - 1) : Front(q)[i] = q[i]
         /\ Shape(q) => Shape(Front(q))
  <1>1. /\ Front(q) \in Seq(Frame)
        /\ Len(Front(q)) = Len(q) - 1
        /\ \A i \in 1..(Len(q) - 1) : Front(q)[i] = q[i]
    <2>1. Len(q) - 1 \in 0..Len(q)
      OBVIOUS
    <2>2. Front(q) = SubSeq(q, 1, Len(q) - 1)
      BY DEF Front
    <2> QED  BY <2>1, <2>2, PrefixProperties
  <1> QED  BY <1>1 DEF Shape

\* A frame is pushed.
LEMMA PushProperties ==
  ASSUME NEW q \in Seq(Frame), NEW f \in Frame
  PROVE  /\ Append(q, f) \in Seq(Frame)
         /\ Len(Append(q, f)) = Len(q) + 1
         /\ \A i \in 1..Len(q) : Append(q, f)[i] = q[i]
         /\ Append(q, f)[Len(q) + 1] = f
         /\ Shape(q) /\ (f.kind = "invoke" => q # <<>> /\ q[Len(q)].kind = "slot")
              => Shape(Append(q, f))
  <1>1. /\ Append(q, f) \in Seq(Frame)
        /\ Len(Append(q, f)) = Len(q) + 1
        /\ \A i \in 1..Len(q) : Append(q, f)[i] = q[i]
        /\ Append(q, f)[Len(q) + 1] = f
    BY AppendProperties
  <1>2. ASSUME Shape(q), f.kind = "invoke" => q # <<>> /\ q[Len(q)].kind = "slot"
        PROVE  Shape(Append(q, f))
    <2> SUFFICES ASSUME NEW i \in 1..(Len(q) + 1), Append(q, f)[i].kind = "invoke"
                 PROVE  i > 1 /\ Append(q, f)[i - 1].kind = "slot"
      BY <1>1 DEF Shape
    <2>1. CASE i = Len(q) + 1
      BY <1>1, <1>2, <2>1, EmptySeq
    <2>2. CASE i # Len(q) + 1
      BY <1>1, <1>2, <2>2 DEF Shape
    <2> QED  BY <2>1, <2>2
  <1> QED  BY <1>1, <1>2

\* The innermost frame is replaced by one of the same kind.
LEMMA SetTopProperties ==
  ASSUME SignalTypeOK, stack # <<>>, NEW f \in Frame, f.kind = Top.kind
  PROVE  /\ SetTop(f) \in Seq(Frame)
         /\ Len(SetTop(f)) = Len(stack)
         /\ \A i \in 1..(Len(stack) - 1) : SetTop(f)[i] = stack[i]
         /\ SetTop(f)[Len(stack)] = f
         /\ Shape(SetTop(f))
  <1>1. stack \in Seq(Frame) /\ Shape(stack) /\ Len(stack) \in 1..Len(stack)
    BY EmptySeq DEF SignalTypeOK, Frame, Shape
  <1>2. /\ SetTop(f) \in Seq(Frame)
        /\ Len(SetTop(f)) = Len(stack)
        /\ \A i \in 1..Len(stack) : SetTop(f)[i] = IF i = Len(stack) THEN f ELSE stack[i]
    BY <1>1, ExceptSeq DEF SetTop
  <1>3. \A i \in 1..Len(stack) : SetTop(f)[i].kind = stack[i].kind
    BY <1>1, <1>2 DEF Top
  <1>4. Shape(SetTop(f))
    BY <1>1, <1>2, <1>3 DEF Shape
  <1> QED  BY <1>1, <1>2, <1>4

\* In a slot, or in a call of exception_handlers_invoke() above one.
LEMMA TopProperties ==
  ASSUME SignalTypeOK
  PROVE  /\ stack \in Seq(Frame) /\ Shape(stack)
         /\ InSlot => /\ stack # <<>> /\ Len(stack) \in 1..Len(stack)
                      /\ Top \in SlotFrame /\ Top.node \in Nodes
         /\ Invoking => /\ stack # <<>> /\ Len(stack) - 1 \in 1..Len(stack)
                        /\ Top \in InvokeFrame
                        /\ stack[Len(stack) - 1].kind = "slot"
                        /\ stack[Len(stack) - 1].node \in Nodes
  <1>1. stack \in Seq(Frame) /\ Shape(stack)
    BY DEF SignalTypeOK, Frame, Shape
  <1>2. stack # <<>> => Len(stack) \in 1..Len(stack) /\ Top \in Frame
    BY <1>1, EmptySeq, ElementOfSeq DEF Top
  <1>3. ASSUME Invoking
        PROVE  /\ Len(stack) - 1 \in 1..Len(stack)
               /\ stack[Len(stack) - 1].kind = "slot"
    <2>1. Len(stack) \in DOMAIN stack /\ stack[Len(stack)].kind = "invoke"
      BY <1>1, <1>2, <1>3 DEF Invoking, Top
    <2>2. Len(stack) > 1 /\ stack[Len(stack) - 1].kind = "slot"
      BY <1>1, <2>1 DEF Shape
    <2> QED  BY <1>1, <2>2
  <1>4. Invoking => stack[Len(stack) - 1] \in Frame
    BY <1>1, <1>3, ElementOfSeq
  <1> QED  BY <1>1, <1>2, <1>3, <1>4, FrameKinds DEF InSlot, Invoking

-----------------------------------------------------------------------------
(* The types. *)

\* The destroy notification keeps the types of the nodes.
LEMMA DestroyNotifyTypes ==
  ASSUME SignalTypeOK, NEW S, NEW X, DestroyNotifyHandler(S, X)
  PROVE  /\ node' \in [Nodes -> {"unborn", "live", "deleted"}]
         /\ objectPtr' \in [Nodes -> BOOLEAN]
         /\ slot' \in [Nodes -> {"ready", "blocked", "empty"}]
  BY DEF SignalTypeOK, DestroyNotifyHandler

LEMMA DisconnectHandlersType ==
  ASSUME SignalTypeOK, NEW S, DisconnectHandlers(S)
  PROVE  handler' \in [Nodes -> {"none", "connected", "disconnected"}]
  BY DEF SignalTypeOK, DisconnectHandlers

\* Steps that leave the stack and the list of handlers alone.
LEMMA NodeActionTypes ==
  ASSUME TypeInv,
         \/ \E n \in Nodes : \/ Connect(n) \/ connect_property_changed(n)
                             \/ Block(n) \/ Disconnect(n)
         \/ Dispose \/ Disassociate \/ Finalize
  PROVE  TypeInv' /\ UNCHANGED <<hvars, stack, outcome>>
  <1> USE DEF TypeInv
  <1>0. ASSUME NEW n \in Nodes, Block(n)
        PROVE  TypeInv' /\ UNCHANGED <<hvars, stack, outcome>>
    <2>1. /\ slot' \in [Nodes -> {"ready", "blocked", "empty"}]
          /\ UNCHANGED <<object, associated, handler, node, objectPtr, hvars, stack, outcome>>
      BY <1>0 DEF Block, SignalTypeOK
    <2> QED  BY <2>1 DEF SignalTypeOK, Distinct, ToSet, hvars
  <1>1. ASSUME NEW n \in Nodes, Connect(n) \/ connect_property_changed(n)
        PROVE  TypeInv' /\ UNCHANGED <<hvars, stack, outcome>>
    <2>1. connect_impl_(n) /\ UNCHANGED <<object, associated, hvars, stack, outcome>>
      BY <1>1 DEF Connect, connect_property_changed, connect_changed
    <2>2. /\ node' \in [Nodes -> {"unborn", "live", "deleted"}]
          /\ handler' \in [Nodes -> {"none", "connected", "disconnected"}]
          /\ slot' \in [Nodes -> {"ready", "blocked", "empty"}]
      BY <2>1 DEF connect_impl_, SignalTypeOK
    <2>3. objectPtr' \in [Nodes -> BOOLEAN]
      BY <2>1 DEF connect_impl_, SignalTypeOK
    <2> QED  BY <2>1, <2>2, <2>3 DEF SignalTypeOK, Distinct, ToSet, hvars
  <1>2. ASSUME NEW n \in Nodes, Disconnect(n)
        PROVE  TypeInv' /\ UNCHANGED <<hvars, stack, outcome>>
    BY <1>2, DestroyNotifyTypes, DisconnectHandlersType
       DEF Disconnect, SignalTypeOK, Distinct, ToSet, hvars
  <1>3. CASE Dispose \/ Finalize
    <2>1. /\ object' \in {"live", "finalized"}
          /\ UNCHANGED <<hvars, stack, outcome>>
          /\ DisconnectHandlers(Connected)
          /\ \E S : DestroyNotifyHandler(S, {})
      BY <1>3 DEF Dispose, Finalize, SignalTypeOK
    <2>2. associated' \in BOOLEAN
      BY <1>3, Zenon DEF Dispose, Finalize, SignalTypeOK
    <2> QED  BY <2>1, <2>2, DestroyNotifyTypes, DisconnectHandlersType
             DEF SignalTypeOK, Distinct, ToSet, hvars
  <1>4. CASE Disassociate
    <2>1. associated' \in BOOLEAN
      BY <1>4, Zenon DEF Disassociate
    <2>2. UNCHANGED <<object, nvars, hvars, stack, outcome>>
      BY <1>4 DEF Disassociate
    <2> QED  BY <2>1, <2>2 DEF SignalTypeOK, Distinct, ToSet, hvars, nvars
  <1> QED  BY <1>0, <1>1, <1>2, <1>3, <1>4

\* Steps that push a frame.
LEMMA PushTypes ==
  ASSUME TypeInv,
         \/ \E n \in Nodes : Emit(n)
         \/ \E e \in Exceptions : SlotThrows(e)
  PROVE  TypeInv' /\ UNCHANGED <<object, associated, nvars, hvars>>
  <1> USE DEF TypeInv
  <1>1. ASSUME NEW n \in Nodes, Emit(n)
        PROVE  TypeInv' /\ UNCHANGED <<object, associated, nvars, hvars>>
    <2> DEFINE f == [kind |-> "slot", node |-> n]
    <2>1. f \in Frame /\ f.kind = "slot"
      BY DEF Frame, SlotFrame
    <2>2. stack' \in Seq(Frame) /\ Shape(stack')
      BY <1>1, <2>1, TopProperties, PushProperties DEF Emit
    <2> QED  BY <1>1, <2>2 DEF Emit, SignalTypeOK, Distinct, ToSet, hvars, nvars, Shape, Frame
  <1>2. ASSUME NEW e \in Exceptions, SlotThrows(e)
        PROVE  TypeInv' /\ UNCHANGED <<object, associated, nvars, hvars>>
    <2> DEFINE f == [kind |-> "invoke", at |-> Begin, calling |-> FALSE,
                     exc |-> e, tried |-> {}]
    <2>1. Begin \in Handlers \cup {END}
      BY HeadTailProperties DEF Begin, SignalTypeOK
    <2>2. f \in Frame /\ f.kind = "invoke"
      BY <2>1 DEF Frame, InvokeFrame
    <2>3. InSlot /\ stack # <<>> /\ stack[Len(stack)].kind = "slot"
      BY <1>2 DEF SlotThrows, InSlot, Top
    <2>4. Catch(e) \in Seq(Frame) /\ Shape(Catch(e))
      BY <2>2, <2>3, TopProperties, PushProperties DEF Catch
    <2>5. /\ stack' \in Seq(Frame) /\ Shape(stack')
          /\ outcome' \in {"running", "aborted", "escaped"}
      BY <1>2, <2>4, TopProperties DEF SlotThrows, SignalTypeOK
    <2> QED  BY <1>2, <2>5 DEF SlotThrows, SignalTypeOK, Distinct, ToSet, hvars, nvars, Shape, Frame
  <1> QED  BY <1>1, <1>2

\* The frames that are left when a callback returns: all but the slot and, if it
\* threw, the call of exception_handlers_invoke() above it.
LEMMA PopProperties ==
  ASSUME SignalTypeOK, Invoking
  PROVE  /\ Front(Front(stack)) \in Seq(Frame)
         /\ Len(Front(Front(stack))) = Len(stack) - 2
         /\ \A i \in 1..(Len(stack) - 2) : Front(Front(stack))[i] = stack[i]
         /\ Shape(Front(Front(stack)))
  <1>1. stack # <<>> /\ stack \in Seq(Frame) /\ Shape(stack) /\ Len(stack) - 1 >= 1
    BY TopProperties
  <1>2. /\ Front(stack) \in Seq(Frame) /\ Shape(Front(stack))
        /\ Len(Front(stack)) = Len(stack) - 1
        /\ \A i \in 1..(Len(stack) - 1) : Front(stack)[i] = stack[i]
    BY <1>1, FrontProperties
  <1>3. Front(stack) # <<>>
    BY <1>1, <1>2, EmptySeq
  <1>4. /\ Front(Front(stack)) \in Seq(Frame) /\ Shape(Front(Front(stack)))
        /\ Len(Front(Front(stack))) = Len(Front(stack)) - 1
        /\ \A i \in 1..(Len(Front(stack)) - 1) : Front(Front(stack))[i] = Front(stack)[i]
    BY <1>2, <1>3, FrontProperties
  <1> QED  BY <1>1, <1>2, <1>4

\* Steps that pop frames.
LEMMA ReturnTypes ==
  ASSUME TypeInv, NEW n \in Nodes, NEW q \in Seq(Frame), Shape(q), Return(n, q),
         UNCHANGED <<object, associated, hvars, outcome>>
  PROVE  TypeInv'
  <1>1. /\ node' \in [Nodes -> {"unborn", "live", "deleted"}]
        /\ objectPtr' \in [Nodes -> BOOLEAN]
        /\ slot' \in [Nodes -> {"ready", "blocked", "empty"}]
    BY DestroyNotifyTypes DEF Return, TypeInv
  <1> QED  BY <1>1 DEF TypeInv, SignalTypeOK, Return, Distinct, ToSet, hvars, Shape, Frame

LEMMA SlotReturnsTypes ==
  ASSUME TypeInv, SlotReturns
  PROVE  TypeInv'
  <1>1. /\ Front(stack) \in Seq(Frame) /\ Shape(Front(stack)) /\ Top.node \in Nodes
    BY TopProperties, FrontProperties DEF SlotReturns, TypeInv
  <1> QED  BY <1>1, ReturnTypes DEF SlotReturns

LEMMA HandlerReturnsTypes ==
  ASSUME TypeInv, HandlerReturns
  PROVE  TypeInv'
  <1>1. Invoking /\ SignalTypeOK
    BY DEF HandlerReturns, TypeInv
  <1> QED  BY <1>1, TopProperties, PopProperties, ReturnTypes DEF HandlerReturns

LEMMA UnexpectedTypes ==
  ASSUME TypeInv, Unexpected
  PROVE  TypeInv'
  <1>1. Invoking /\ SignalTypeOK
    BY DEF Unexpected, TypeInv
  <1>2. CASE Top.exc = "error"
    <2>1. /\ Return(stack[Len(stack) - 1].node, Front(Front(stack)))
          /\ UNCHANGED <<object, associated, hvars, outcome>>
      BY <1>2 DEF Unexpected
    <2> QED  BY <1>1, <2>1, TopProperties, PopProperties, ReturnTypes
  <1>3. CASE Top.exc # "error"
    <2>1. /\ UNCHANGED <<object, associated, nvars, hvars, stack>>
          /\ outcome' = "aborted"
      BY <1>3 DEF Unexpected
    <2> QED  BY <2>1 DEF TypeInv, SignalTypeOK, Distinct, ToSet, nvars, hvars
  <1> QED  BY <1>2, <1>3

LEMMA AddExceptionHandlerTypes ==
  ASSUME TypeInv, NEW h \in Handlers, AddExceptionHandler(h)
  PROVE  /\ TypeInv'
         /\ list' \in Seq(Handlers) /\ Len(list') = Len(list) + 1
         /\ \A i \in 1..Len(list) : list'[i] = list[i] /\ list[i] # h
         /\ list'[Len(list) + 1] = h
  <1>1. /\ list \in Seq(Handlers) /\ list' = Append(list, h)
        /\ handlerSlot[h] = "unused" /\ handlerSlot' = [handlerSlot EXCEPT ![h] = "ready"]
        /\ UNCHANGED <<object, associated, nvars, stack, outcome>>
    BY DEF AddExceptionHandler, TypeInv, SignalTypeOK
  <1>2. /\ list' \in Seq(Handlers) /\ Len(list') = Len(list) + 1
        /\ \A i \in 1..Len(list) : list'[i] = list[i]
        /\ list'[Len(list) + 1] = h
    BY <1>1, AppendProperties
  <1>3. \A i \in 1..Len(list) : list[i] # h
    BY <1>1 DEF TypeInv, ToSet
  <1>4. Distinct'
    BY <1>1, <1>2, <1>3 DEF Distinct, TypeInv
  <1>5. ASSUME NEW g \in Handlers, handlerSlot'[g] = "unused"
        PROVE  g \notin ToSet(list')
    <2>1. g # h /\ handlerSlot[g] = "unused"
      BY <1>1, <1>5 DEF TypeInv, SignalTypeOK
    <2>2. \A i \in 1..Len(list) : list[i] # g
      BY <1>1, <2>1 DEF TypeInv, ToSet
    <2> QED  BY <1>2, <2>1, <2>2 DEF ToSet
  <1>6. SignalTypeOK'
    BY <1>1, <1>2 DEF TypeInv, SignalTypeOK, nvars
  <1> QED  BY <1>2, <1>3, <1>4, <1>5, <1>6 DEF TypeInv

LEMMA RemoveExceptionHandlerTypes ==
  ASSUME TypeInv, NEW h \in Handlers, RemoveExceptionHandler(h)
  PROVE  TypeInv'
  <1>1. /\ handlerSlot' = [handlerSlot EXCEPT ![h] = "empty"]
        /\ UNCHANGED <<object, associated, nvars, list, stack, outcome>>
    BY DEF RemoveExceptionHandler
  <1> QED  BY <1>1 DEF TypeInv, SignalTypeOK, Distinct, ToSet, nvars

\* The innermost call of exception_handlers_invoke() changes its frame.
LEMMA SetTopTypes ==
  ASSUME SignalTypeOK, Invoking, NEW f \in InvokeFrame, stack' = SetTop(f),
         list' \in Seq(Handlers), UNCHANGED <<object, associated, nvars, handlerSlot, outcome>>
  PROVE  SignalTypeOK'
  <1>1. f \in Frame /\ f.kind = Top.kind /\ stack # <<>>
    BY DEF Frame, InvokeFrame, Invoking
  <1>2. stack' \in Seq(Frame) /\ Shape(stack')
    BY <1>1, SetTopProperties
  <1> QED  BY <1>2 DEF SignalTypeOK, nvars, Frame, Shape

\* The frames that SkipDead, CallHandler and HandlerThrows leave on top.
LEMMA SkipDeadFrame ==
  ASSUME TypeInv, SkipDead
  PROVE  /\ Invoking
         /\ \E f \in InvokeFrame :
              /\ stack' = SetTop(f)
              /\ f.at = Erase(Top.at) /\ f.calling = Top.calling /\ f.tried = Top.tried
  <1> DEFINE f == [Top EXCEPT !.at = Erase(Top.at)]
  <1>1. Invoking /\ Top \in InvokeFrame /\ Erase(Top.at) \in Handlers \cup {END}
    BY TopProperties, AfterProperties DEF SkipDead, TypeInv, SignalTypeOK, Erase, NextSlot
  <1>2. /\ f \in InvokeFrame
        /\ f.at = Erase(Top.at) /\ f.calling = Top.calling /\ f.tried = Top.tried
    BY <1>1 DEF InvokeFrame
  <1>3. stack' = SetTop(f)
    BY DEF SkipDead
  <1> QED  BY <1>1, <1>2, <1>3

LEMMA CallHandlerFrame ==
  ASSUME TypeInv, CallHandler
  PROVE  /\ Invoking
         /\ \E f \in InvokeFrame :
              /\ stack' = SetTop(f)
              /\ f.at = Top.at /\ f.calling /\ f.tried = Top.tried \cup {Top.at}
  <1> DEFINE f == [Top EXCEPT !.calling = TRUE, !.tried = @ \cup {Top.at}]
  <1>1. Invoking /\ Top \in InvokeFrame /\ Top.at # END
    BY TopProperties DEF CallHandler, TypeInv
  <1>2. /\ f \in InvokeFrame
        /\ f.at = Top.at /\ f.calling /\ f.tried = Top.tried \cup {Top.at}
    BY <1>1 DEF InvokeFrame
  <1>3. stack' = SetTop(f)
    BY DEF CallHandler
  <1> QED  BY <1>1, <1>2, <1>3

LEMMA HandlerThrowsFrame ==
  ASSUME TypeInv, HandlerThrows
  PROVE  /\ Invoking
         /\ \E f \in InvokeFrame :
              /\ stack' = SetTop(f)
              /\ f.at = NextSlot(Top.at) /\ ~f.calling /\ f.tried = Top.tried
  <1> DEFINE f == [Top EXCEPT !.calling = FALSE, !.at = NextSlot(Top.at)]
  <1>1. Invoking /\ Top \in InvokeFrame /\ NextSlot(Top.at) \in Handlers \cup {END}
    BY TopProperties, AfterProperties DEF HandlerThrows, TypeInv, SignalTypeOK, NextSlot
  <1>2. /\ f \in InvokeFrame
        /\ f.at = NextSlot(Top.at) /\ ~f.calling /\ f.tried = Top.tried
    BY <1>1 DEF InvokeFrame
  <1>3. stack' = SetTop(f)
    BY DEF HandlerThrows
  <1> QED  BY <1>1, <1>2, <1>3

LEMMA CallHandlerTypes ==
  ASSUME TypeInv, CallHandler \/ HandlerThrows
  PROVE  TypeInv'
  <1>1. Invoking /\ \E f \in InvokeFrame : stack' = SetTop(f)
    BY CallHandlerFrame, HandlerThrowsFrame
  <1>2. UNCHANGED <<object, associated, nvars, hvars, outcome>>
    BY DEF CallHandler, HandlerThrows
  <1>3. SignalTypeOK'
    BY <1>1, <1>2, SetTopTypes DEF hvars, TypeInv, SignalTypeOK
  <1> QED  BY <1>2, <1>3 DEF TypeInv, Distinct, ToSet, hvars

\* The dead slot at p is erased; what is left keeps its order.
LEMMA SkipDeadList ==
  ASSUME TypeInv, SkipDead, NEW p \in DOMAIN list, list[p] = Top.at
  PROVE  /\ list' \in Seq(Handlers) /\ Len(list') = Len(list) - 1
         /\ \A i \in 1..(Len(list) - 1) : list'[i] = IF i < p THEN list[i] ELSE list[i + 1]
         /\ Erase(Top.at) = IF p = Len(list) THEN END ELSE list[p + 1]
  <1>1. list \in Seq(Handlers) /\ Distinct /\ p \in 1..Len(list)
    BY DEF TypeInv, SignalTypeOK
  <1>2. list' = RemoveAt(list, p)
    BY <1>1, RemoveFirstProperties DEF SkipDead
  <1>3. Erase(Top.at) = IF p = Len(list) THEN END ELSE list[p + 1]
    BY <1>1, AfterProperties DEF Erase, NextSlot
  <1> QED  BY <1>1, <1>2, <1>3, RemoveAtProperties

LEMMA SkipDeadTypes ==
  ASSUME TypeInv, SkipDead
  PROVE  TypeInv'
  <1>1. /\ Invoking /\ SignalTypeOK /\ Distinct /\ list \in Seq(Handlers)
        /\ UNCHANGED <<object, associated, nvars, handlerSlot, outcome>>
    BY DEF SkipDead, TypeInv, SignalTypeOK
  <1>2. \E f \in InvokeFrame : stack' = SetTop(f)
    BY SkipDeadFrame
  <1>3. CASE Top.at \in ToSet(list)
    <2>1. PICK p \in DOMAIN list : list[p] = Top.at
      BY <1>3 DEF ToSet
    <2>2. /\ list' \in Seq(Handlers) /\ Len(list') = Len(list) - 1
          /\ \A i \in 1..(Len(list) - 1) : list'[i] = IF i < p THEN list[i] ELSE list[i + 1]
      BY <2>1, SkipDeadList
    <2>3. Distinct'
      <3> SUFFICES ASSUME NEW i \in DOMAIN list', NEW j \in DOMAIN list', list'[i] = list'[j]
                   PROVE  i = j
        BY DEF Distinct
      <3>1. /\ i \in 1..(Len(list) - 1) /\ j \in 1..(Len(list) - 1)
            /\ i \in DOMAIN list /\ i + 1 \in DOMAIN list
            /\ j \in DOMAIN list /\ j + 1 \in DOMAIN list
        BY <1>1, <2>2
      <3>2. (IF i < p THEN list[i] ELSE list[i + 1]) = (IF j < p THEN list[j] ELSE list[j + 1])
        BY <2>2, <3>1
      <3> QED  BY <1>1, <2>1, <3>1, <3>2 DEF Distinct
    <2>4. \A h : h \in ToSet(list') => h \in ToSet(list)
      BY <1>1, <2>2 DEF ToSet
    <2>5. SignalTypeOK'
      BY <1>1, <1>2, <2>2, SetTopTypes
    <2> QED  BY <2>3, <2>4, <2>5 DEF TypeInv, SkipDead
  <1>4. CASE Top.at \notin ToSet(list)
    <2>1. list' = list
      BY <1>1, <1>4 DEF SkipDead, RemoveFirst, ToSet
    <2>2. SignalTypeOK'
      BY <1>1, <1>2, <2>1, SetTopTypes
    <2> QED  BY <2>1, <2>2 DEF TypeInv, SkipDead, Distinct, ToSet
  <1> QED  BY <1>3, <1>4

LEMMA InitTypeInv == SignalInit => TypeInv
  <1> SUFFICES ASSUME SignalInit PROVE TypeInv
    OBVIOUS
  <1>1. list = <<>> /\ stack = <<>> /\ DOMAIN list = {} /\ DOMAIN stack = {}
    BY DEF SignalInit
  <1>2. associated \in BOOLEAN
    BY Zenon DEF SignalInit
  <1>3. SignalTypeOK
    BY <1>1, <1>2 DEF SignalInit, SignalTypeOK
  <1> QED  BY <1>1, <1>3 DEF TypeInv, Distinct, ToSet

LEMMA NextTypeInv == TypeInv /\ [SignalNext]_signalVars => TypeInv'
  <1> SUFFICES ASSUME TypeInv, [SignalNext]_signalVars PROVE TypeInv'
    OBVIOUS
  <1>1. CASE UNCHANGED signalVars
    BY <1>1 DEF signalVars, nvars, hvars, TypeInv, SignalTypeOK, Distinct, ToSet
  <1>2. CASE \/ \E n \in Nodes : \/ Connect(n) \/ connect_property_changed(n)
                                 \/ Block(n) \/ Disconnect(n)
             \/ Dispose \/ Disassociate \/ Finalize
    BY <1>2, NodeActionTypes
  <1>3. CASE \/ \E n \in Nodes : Emit(n)
             \/ \E e \in Exceptions : SlotThrows(e)
    BY <1>3, PushTypes
  <1>4. CASE \E h \in Handlers : AddExceptionHandler(h) \/ RemoveExceptionHandler(h)
    BY <1>4, AddExceptionHandlerTypes, RemoveExceptionHandlerTypes
  <1>5. CASE SlotReturns \/ SkipDead \/ CallHandler \/ HandlerReturns \/ HandlerThrows \/ Unexpected
    BY <1>5, SlotReturnsTypes, SkipDeadTypes, CallHandlerTypes, HandlerReturnsTypes,
       UnexpectedTypes
  <1> QED  BY <1>1, <1>2, <1>3, <1>4, <1>5 DEF SignalNext

-----------------------------------------------------------------------------
(* The nodes. *)

\* Handlers of D are disconnected while frames q are on the stack, and the nodes of
\* those that are not running are deleted.
LEMMA DisconnectNodes ==
  ASSUME NodeInv, NEW D \in SUBSET Connected, NEW X \in SUBSET Nodes,
         DisconnectHandlers(D), DestroyNotifyHandler(Finalizable(D, stack), X),
         UNCHANGED <<object, associated, stack>>
  PROVE  NodesAlive' /\ HandlerNode' /\ WrapperAlive'
  <1>1. \A n \in Nodes :
          /\ node'[n] = IF n \in D /\ ~Running(n, stack) THEN "deleted" ELSE node[n]
          /\ handler'[n] = IF n \in D THEN "disconnected" ELSE handler[n]
    BY DEF DestroyNotifyHandler, DisconnectHandlers, Finalizable, Connected
  <1>2. \A n \in D : n \in Nodes /\ handler[n] = "connected" /\ node[n] = "live"
    BY DEF Connected, NodeInv, HandlerNode
  <1>3. \A i \in DOMAIN stack : stack[i].kind = "slot" =>
           stack[i].node \in Nodes /\ Running(stack[i].node, stack)
    BY TopProperties, ElementOfSeq, FrameKinds DEF Running, NodeInv
  <1>4. \A i \in DOMAIN stack : stack[i].kind = "slot" => node'[stack[i].node] = "live"
    BY <1>1, <1>3 DEF NodeInv, NodesAlive
  <1>5. ASSUME NEW n \in Nodes, node'[n] = "live"
        PROVE  object = "live" /\ (handler'[n] = "connected" \/ Running(n, stack))
    BY <1>1, <1>2, <1>5 DEF NodeInv, NodesAlive
  <1>6. NodesAlive'
    BY <1>4, <1>5 DEF NodesAlive, Running
  <1>7. HandlerNode'
    BY <1>1, <1>2 DEF NodeInv, HandlerNode
  <1> QED  BY <1>6, <1>7 DEF WrapperAlive, NodeInv

\* The callback of n returns: it was running above q, and nothing else was.
LEMMA ReturnNodes ==
  ASSUME NodeInv, NEW n \in Nodes, NEW q \in Seq(Frame), Return(n, q),
         \A i \in DOMAIN q : i \in DOMAIN stack /\ q[i] = stack[i],
         \A m \in Nodes : Running(m, stack) => m = n \/ Running(m, q),
         UNCHANGED <<object, associated>>
  PROVE  NodesAlive' /\ HandlerNode' /\ WrapperAlive'
  <1>1. /\ stack' = q /\ handler' = handler
        /\ \A m \in Nodes : node'[m] = IF m = n /\ handler[m] = "disconnected" /\ ~Running(m, q)
                                         THEN "deleted" ELSE node[m]
    BY DEF Return, DestroyNotifyHandler, Finalizable
  <1>2. \A i \in DOMAIN q : q[i].kind = "slot" =>
           q[i].node \in Nodes /\ Running(q[i].node, q) /\ node[q[i].node] = "live"
    BY ElementOfSeq, FrameKinds DEF Running, NodeInv, NodesAlive
  <1>3. ASSUME NEW m \in Nodes, node'[m] = "live"
        PROVE  object = "live" /\ (handler[m] = "connected" \/ Running(m, q))
    <2>1. node[m] = "live" /\ object = "live" /\ (handler[m] = "connected" \/ Running(m, stack))
      BY <1>1, <1>3 DEF NodeInv, NodesAlive
    <2>2. handler[m] \in {"connected", "disconnected"}
      BY <2>1 DEF NodeInv, HandlerNode, SignalTypeOK
    <2> QED  BY <1>1, <1>3, <2>1, <2>2
  <1>4. NodesAlive'
    <2>1. \A i \in DOMAIN q : q[i].kind = "slot" => node'[q[i].node] = "live"
      BY <1>1, <1>2
    <2>2. \A m \in Nodes : Running(m, stack)' <=> Running(m, q)
      BY <1>1 DEF Running
    <2> QED  BY <1>1, <1>3, <2>1, <2>2 DEF NodesAlive
  <1>5. HandlerNode'
    BY <1>1 DEF NodeInv, HandlerNode
  <1> QED  BY <1>4, <1>5 DEF WrapperAlive, NodeInv

LEMMA ConnectNodes ==
  ASSUME NodeInv, NEW n \in Nodes, Connect(n) \/ connect_property_changed(n)
  PROVE  NodesAlive' /\ HandlerNode' /\ WrapperAlive'
  <1>1. /\ connect_impl_(n) /\ associated
        /\ UNCHANGED <<object, associated, stack>>
    BY DEF Connect, connect_property_changed, connect_changed
  <1>2. /\ node[n] = "unborn" /\ object = "live"
        /\ \A m \in Nodes : /\ node'[m] = IF m = n THEN "live" ELSE node[m]
                            /\ handler'[m] = IF m = n THEN "connected" ELSE handler[m]
    BY <1>1 DEF connect_impl_, NodeInv, SignalTypeOK, WrapperAlive
  <1>3. \A i \in DOMAIN stack : stack[i].kind = "slot" => stack[i].node \in Nodes
    BY TopProperties, ElementOfSeq, FrameKinds DEF NodeInv
  <1>4. NodesAlive'
    BY <1>1, <1>2, <1>3 DEF NodesAlive, Running, NodeInv
  <1>5. HandlerNode'
    BY <1>2 DEF NodeInv, HandlerNode
  <1> QED  BY <1>1, <1>4, <1>5 DEF WrapperAlive, NodeInv

LEMMA EmitNodes ==
  ASSUME NodeInv, NEW n \in Nodes, Emit(n)
  PROVE  NodesAlive' /\ HandlerNode' /\ WrapperAlive'
  <1> DEFINE f == [kind |-> "slot", node |-> n]
  <1>1. f \in Frame /\ f.kind = "slot" /\ f.node = n
    BY DEF Frame, SlotFrame
  <1>2. /\ stack \in Seq(Frame) /\ stack' = Append(stack, f) /\ handler[n] = "connected"
        /\ UNCHANGED <<object, associated, handler, node>>
    BY TopProperties DEF Emit, NodeInv, nvars
  <1>3. node[n] = "live"
    BY <1>2 DEF NodeInv, HandlerNode
  <1> HIDE DEF f
  <1>4. /\ stack' \in Seq(Frame) /\ Len(stack') = Len(stack) + 1
        /\ \A i \in 1..Len(stack) : stack'[i] = stack[i]
        /\ stack'[Len(stack) + 1] = f
    BY <1>1, <1>2, PushProperties
  <1>5. \A m \in Nodes : Running(m, stack) => Running(m, stack')
    BY <1>2, <1>4 DEF Running
  <1>6. \A i \in DOMAIN stack' : stack'[i].kind = "slot" => node[stack'[i].node] = "live"
    BY <1>1, <1>2, <1>3, <1>4 DEF NodeInv, NodesAlive
  <1>7. NodesAlive'
    BY <1>2, <1>5, <1>6 DEF NodesAlive, NodeInv
  <1> QED  BY <1>2, <1>7 DEF HandlerNode, WrapperAlive, NodeInv

\* Frames of exception_handlers_invoke() do not matter to the nodes.
LEMMA SlotsUnchangedNodes ==
  ASSUME NodeInv, NEW f \in InvokeFrame,
         stack' = Append(stack, f) \/ (Invoking /\ stack' = SetTop(f)),
         UNCHANGED <<object, associated, nvars>>
  PROVE  NodesAlive' /\ HandlerNode' /\ WrapperAlive'
  <1>1. f \in Frame /\ f.kind = "invoke" /\ f.kind # "slot"
    BY DEF Frame, InvokeFrame
  <1>2. stack \in Seq(Frame)
    BY TopProperties DEF NodeInv
  <1>3. /\ \A i \in DOMAIN stack' : stack'[i].kind = "slot" =>
             i \in DOMAIN stack /\ stack'[i] = stack[i]
        /\ \A i \in DOMAIN stack : stack[i].kind = "slot" =>
             i \in DOMAIN stack' /\ stack'[i] = stack[i]
    <2>1. CASE stack' = Append(stack, f)
      <3>1. /\ stack' \in Seq(Frame) /\ Len(stack') = Len(stack) + 1
            /\ \A i \in 1..Len(stack) : stack'[i] = stack[i]
            /\ stack'[Len(stack) + 1] = f
        BY <1>1, <1>2, <2>1, PushProperties
      <3> QED  BY <1>1, <1>2, <3>1
    <2>2. CASE Invoking /\ stack' = SetTop(f)
      <3>1. /\ stack' \in Seq(Frame) /\ Len(stack') = Len(stack)
            /\ \A i \in 1..(Len(stack) - 1) : stack'[i] = stack[i]
            /\ stack'[Len(stack)] = f
            /\ Top.kind = "invoke"
        BY <1>1, <2>2, SetTopProperties DEF Invoking, NodeInv
      <3> QED  BY <1>1, <1>2, <3>1 DEF Top
    <2> QED  BY <2>1, <2>2
  <1>4. \A m \in Nodes : Running(m, stack) => Running(m, stack')
    BY <1>3 DEF Running
  <1>5. NodesAlive'
    BY <1>3, <1>4 DEF NodesAlive, NodeInv, nvars
  <1> QED  BY <1>5 DEF HandlerNode, WrapperAlive, NodeInv, nvars

\* The slot on top returns.
LEMMA SlotReturnsNodes ==
  ASSUME NodeInv, SlotReturns
  PROVE  NodesAlive' /\ HandlerNode' /\ WrapperAlive'
  <1>1. /\ InSlot /\ stack # <<>> /\ stack \in Seq(Frame) /\ Top.node \in Nodes
        /\ Return(Top.node, Front(stack)) /\ UNCHANGED <<object, associated>>
    BY TopProperties DEF SlotReturns, NodeInv, InSlot
  <1>2. /\ Front(stack) \in Seq(Frame) /\ Len(Front(stack)) = Len(stack) - 1
        /\ \A i \in 1..(Len(stack) - 1) : Front(stack)[i] = stack[i]
    BY <1>1, FrontProperties
  <1>3. \A i \in DOMAIN Front(stack) : i \in DOMAIN stack /\ Front(stack)[i] = stack[i]
    BY <1>1, <1>2
  <1>4. ASSUME NEW m \in Nodes, Running(m, stack)
        PROVE  m = Top.node \/ Running(m, Front(stack))
    <2>1. PICK i \in DOMAIN stack : stack[i].kind = "slot" /\ stack[i].node = m
      BY <1>4 DEF Running
    <2>2. CASE i = Len(stack)
      BY <2>1, <2>2 DEF Top
    <2>3. CASE i # Len(stack)
      BY <1>1, <1>2, <2>1, <2>3 DEF Running
    <2> QED  BY <2>2, <2>3
  <1> QED  BY <1>1, <1>2, <1>3, <1>4, ReturnNodes

\* The callback returns after the exception of its slot has been handled.
LEMMA CallbackReturnsNodes ==
  ASSUME NodeInv, Invoking, UNCHANGED <<object, associated>>,
         Return(stack[Len(stack) - 1].node, Front(Front(stack)))
  PROVE  NodesAlive' /\ HandlerNode' /\ WrapperAlive'
  <1> DEFINE n == stack[Len(stack) - 1].node
             q == Front(Front(stack))
  <1>1. /\ stack \in Seq(Frame) /\ Len(stack) - 1 \in 1..Len(stack) /\ n \in Nodes
        /\ Top.kind = "invoke" /\ Top.kind # "slot"
    BY TopProperties DEF NodeInv, Invoking
  <1>2. /\ q \in Seq(Frame) /\ Len(q) = Len(stack) - 2
        /\ \A i \in 1..(Len(stack) - 2) : q[i] = stack[i]
    BY PopProperties DEF NodeInv
  <1>3. Return(n, q)
    OBVIOUS
  <1>4. ASSUME NEW m \in Nodes, Running(m, stack)
        PROVE  m = n \/ Running(m, q)
    <2>1. PICK i \in DOMAIN stack : stack[i].kind = "slot" /\ stack[i].node = m
      BY <1>4 DEF Running
    <2>2. i # Len(stack)
      BY <1>1, <2>1 DEF Top
    <2>3. CASE i = Len(stack) - 1
      BY <2>1, <2>3
    <2>4. CASE i # Len(stack) - 1
      <3>1. i \in 1..(Len(stack) - 2)
        BY <1>1, <2>1, <2>2, <2>4
      <3> HIDE DEF q
      <3> QED  BY SMTT(40), <1>2, <2>1, <3>1 DEF Running
    <2> QED  BY <2>3, <2>4
  <1> HIDE DEF n, q
  <1>5. \A i \in DOMAIN q : i \in DOMAIN stack /\ q[i] = stack[i]
    BY <1>1, <1>2
  <1> QED  BY <1>1, <1>2, <1>3, <1>4, <1>5, ReturnNodes

\* The last reference on the object is dropped when nothing is running.
LEMMA FinalizeNodes ==
  ASSUME NodeInv, Finalize
  PROVE  NodesAlive' /\ HandlerNode' /\ WrapperAlive'
  <1>1. /\ stack = <<>> /\ stack' = stack /\ associated' = FALSE
        /\ \A n \in Nodes :
             /\ node'[n] = IF handler[n] = "connected" THEN "deleted" ELSE node[n]
             /\ handler'[n] = IF handler[n] = "connected" THEN "disconnected" ELSE handler[n]
    BY DEF Finalize, DestroyNotifyHandler, DisconnectHandlers, Connected
  <1>2. DOMAIN stack = {}
    BY <1>1
  <1>3. \A n \in Nodes : node[n] = "live" => handler[n] = "connected"
    BY <1>2 DEF NodeInv, NodesAlive, Running
  <1>4. NodesAlive'
    BY <1>1, <1>2, <1>3 DEF NodesAlive
  <1>5. HandlerNode'
    BY <1>1 DEF NodeInv, HandlerNode
  <1> QED  BY <1>1, <1>4, <1>5 DEF WrapperAlive

\* No step leaves a slot running without its node, or a node that nobody deletes.
LEMMA NextNodeInv == TypeInv /\ NodeInv /\ [SignalNext]_signalVars => NodeInv'
  <1> SUFFICES ASSUME TypeInv, NodeInv, [SignalNext]_signalVars
               PROVE  NodesAlive' /\ HandlerNode' /\ WrapperAlive'
    BY NextTypeInv DEF NodeInv, TypeInv
  <1>1. CASE UNCHANGED signalVars
    BY <1>1 DEF signalVars, nvars, NodeInv, NodesAlive, Running, HandlerNode, WrapperAlive
  <1>2. CASE \E n \in Nodes : Connect(n) \/ connect_property_changed(n) \/ Emit(n)
    BY <1>2, ConnectNodes, EmitNodes
  <1>3. ASSUME NEW n \in Nodes, Block(n)
        PROVE  NodesAlive' /\ HandlerNode' /\ WrapperAlive'
    BY <1>3 DEF Block, NodeInv, NodesAlive, Running, HandlerNode, WrapperAlive
  <1>4. ASSUME NEW n \in Nodes, Disconnect(n)
        PROVE  NodesAlive' /\ HandlerNode' /\ WrapperAlive'
    <2>1. PICK D \in SUBSET Connected :
            DisconnectHandlers(D) /\ DestroyNotifyHandler(Finalizable(D, stack), {n})
      BY <1>4 DEF Disconnect, Connected
    <2>2. UNCHANGED <<object, associated, stack>>
      BY <1>4 DEF Disconnect
    <2> QED  BY <2>1, <2>2, DisconnectNodes
  <1>5. CASE Dispose
    BY <1>5, DisconnectNodes DEF Dispose
  <1>6. CASE Disassociate
    BY <1>6 DEF Disassociate, nvars, NodeInv, NodesAlive, Running, HandlerNode, WrapperAlive
  <1>7. CASE Finalize
    BY <1>7, FinalizeNodes
  <1>8. ASSUME NEW e \in Exceptions, SlotThrows(e)
        PROVE  NodesAlive' /\ HandlerNode' /\ WrapperAlive'
    <2> DEFINE f == [kind |-> "invoke", at |-> Begin, calling |-> FALSE,
                     exc |-> e, tried |-> {}]
    <2>1. f \in InvokeFrame
      BY HeadTailProperties DEF Begin, TypeInv, SignalTypeOK, InvokeFrame
    <2>2. UNCHANGED <<object, associated, nvars>> /\ (stack' = Append(stack, f) \/ stack' = stack)
      BY <1>8 DEF SlotThrows, Catch
    <2>3. CASE stack' = stack
      BY <2>2, <2>3 DEF nvars, NodeInv, NodesAlive, Running, HandlerNode, WrapperAlive
    <2> HIDE DEF f
    <2> QED  BY <2>1, <2>2, <2>3, SlotsUnchangedNodes
  <1>9. ASSUME NEW h \in Handlers, AddExceptionHandler(h) \/ RemoveExceptionHandler(h)
        PROVE  NodesAlive' /\ HandlerNode' /\ WrapperAlive'
    BY <1>9 DEF AddExceptionHandler, RemoveExceptionHandler, nvars, NodeInv, NodesAlive,
                Running, HandlerNode, WrapperAlive
  <1>10. CASE SkipDead \/ CallHandler \/ HandlerThrows
    <2>1. /\ Invoking /\ UNCHANGED <<object, associated, nvars>>
          /\ \E f \in InvokeFrame : stack' = SetTop(f)
      BY <1>10, SkipDeadFrame, CallHandlerFrame, HandlerThrowsFrame
         DEF SkipDead, CallHandler, HandlerThrows
    <2> QED  BY <2>1, SlotsUnchangedNodes
  <1>11. CASE SlotReturns
    BY <1>11, SlotReturnsNodes
  <1>12. CASE HandlerReturns
    BY <1>12, CallbackReturnsNodes DEF HandlerReturns
  <1>13. CASE Unexpected
    <2>1. CASE Top.exc = "error"
      BY <1>13, <2>1, CallbackReturnsNodes DEF Unexpected
    <2>2. CASE Top.exc # "error"
      BY <1>13, <2>2 DEF Unexpected, nvars, NodeInv, NodesAlive, Running, HandlerNode, WrapperAlive
    <2> QED  BY <2>1, <2>2
  <1> QED  BY <1>1, <1>2, <1>3, <1>4, <1>5, <1>6, <1>7, <1>8, <1>9, <1>10, <1>11, <1>12, <1>13
           DEF SignalNext

(***************************************************************************)
(* The node of a slot that is running, or whose exception is being         *)
(* handled, exists, whatever the slot does; and a node exists no longer    *)
(* than its object, and only while GLib has its handler or runs it.        *)
(***************************************************************************)
THEOREM NodesStayAlive == SignalSpec => []NodesAlive
  <1>1. SignalInit => TypeInv /\ NodeInv
    BY InitTypeInv DEF SignalInit, TypeInv, NodeInv, NodesAlive, HandlerNode, WrapperAlive
  <1>2. TypeInv /\ NodeInv /\ [SignalNext]_signalVars => TypeInv' /\ NodeInv'
    BY NextTypeInv, NextNodeInv
  <1>3. NodeInv => NodesAlive
    BY DEF NodeInv
  <1> QED  BY <1>1, <1>2, <1>3, PTL DEF SignalSpec

-----------------------------------------------------------------------------
(* The exception handlers.  A handler that is running is not disconnected. *)

\* While the list and its slots stay as they are, a call under way has tried as many
\* handlers as before.
LEMMA FrameKept ==
  ASSUME UNCHANGED hvars, NEW f, FrameTried(f)
  PROVE  FrameTried(f)'
  BY DEF FrameTried, Before, ToSet, hvars

\* In code of the program every call of exception_handlers_invoke() is calling.
LEMMA AllCalling ==
  ASSUME ListInv, InUserCode, NEW i \in DOMAIN stack, stack[i].kind = "invoke"
  PROVE  /\ stack[i].calling /\ stack[i].at \in ToSet(list)
         /\ handlerSlot[stack[i].at] = "ready"
  <1>1. stack # <<>> /\ stack \in Seq(Frame)
    BY TopProperties DEF ListInv
  <1>2. stack[i].calling
    BY <1>1 DEF ListInv, FramesTried, InUserCode, Top
  <1> QED  BY <1>2 DEF ListInv, FramesTried, FrameTried

LEMMA AddExceptionHandlerTried ==
  ASSUME TypeInv, ListInv, NEW h \in Handlers, AddExceptionHandler(h)
  PROVE  Installed' /\ FramesTried'
  <1>1. /\ list \in Seq(Handlers) /\ list' \in Seq(Handlers) /\ Len(list') = Len(list) + 1
        /\ \A i \in 1..Len(list) : list'[i] = list[i] /\ list[i] # h
        /\ list'[Len(list) + 1] = h
    BY AddExceptionHandlerTypes DEF TypeInv, SignalTypeOK
  <1>2. /\ InUserCode /\ stack' = stack /\ handlerSlot[h] = "unused"
        /\ \A g \in Handlers : handlerSlot'[g] = IF g = h THEN "ready" ELSE handlerSlot[g]
    BY DEF AddExceptionHandler, TypeInv, SignalTypeOK
  <1>3. /\ ToSet(list') = ToSet(list) \cup {h} /\ h \notin ToSet(list)
        /\ ToSet(list) \subseteq Handlers
    BY <1>1 DEF ToSet
  <1>4. Installed'
    BY <1>2, <1>3 DEF Installed, ListInv
  <1>5. ASSUME NEW i \in DOMAIN stack, stack[i].kind = "invoke"
        PROVE  FrameTried(stack[i])' /\ (i # Len(stack) => stack[i].calling)
    <2> DEFINE f == stack[i]
    <2>1. /\ f.calling /\ f.at \in ToSet(list) /\ FrameTried(f)
      BY <1>2, <1>5, AllCalling DEF ListInv, FramesTried
    <2>2. f.at # h /\ f.at # END /\ f.at \in Handlers /\ f.at \in f.tried /\ handlerSlot[f.at] = "ready"
      BY <1>3, <2>1 DEF FrameTried
    <2>3. PICK p \in DOMAIN list : list[p] = f.at
      BY <2>1 DEF ToSet
    <2>4. ASSUME NEW j \in DOMAIN list', handlerSlot'[list'[j]] = "ready",
                 \A k \in DOMAIN list' : list'[k] = f.at => j < k
          PROVE  list'[j] \in f.tried
      <3>1. p \in DOMAIN list' /\ list'[p] = f.at
        BY <1>1, <2>3
      <3>2. j < p /\ j \in 1..Len(list) /\ j \in DOMAIN list
        BY <1>1, <2>3, <2>4, <3>1
      <3>3. list'[j] = list[j] /\ list[j] # h /\ list[j] \in Handlers
        BY <1>1, <3>2
      <3>4. handlerSlot[list[j]] = "ready"
        BY <1>2, <2>4, <3>3
      <3>5. \A k \in DOMAIN list : list[k] = f.at => j < k
        BY <1>1, <2>4
      <3> QED  BY <2>1, <3>2, <3>3, <3>4, <3>5 DEF FrameTried, Before
    <2>5. handlerSlot'[f.at] = "ready" /\ f.at \in ToSet(list')
      BY <1>2, <1>3, <2>1, <2>2
    <2> QED  BY <1>2, <2>1, <2>2, <2>4, <2>5 DEF FrameTried, Before
  <1>6. FramesTried'
    BY <1>2, <1>5 DEF FramesTried
  <1> QED  BY <1>4, <1>6

LEMMA RemoveExceptionHandlerTried ==
  ASSUME TypeInv, ListInv, ~RemoveRunning, NEW h \in Handlers, RemoveExceptionHandler(h)
  PROVE  Installed' /\ FramesTried'
  <1>1. /\ ~RunningHandler(h) /\ UNCHANGED <<list, stack>>
        /\ \A g \in Handlers : handlerSlot'[g] = IF g = h THEN "empty" ELSE handlerSlot[g]
    BY DEF RemoveExceptionHandler, TypeInv, SignalTypeOK
  <1>2. Installed'
    BY <1>1 DEF Installed, ListInv
  <1>3. ToSet(list) \subseteq Handlers /\ \A j \in DOMAIN list : list[j] \in Handlers
    BY DEF TypeInv, SignalTypeOK, ToSet
  <1>4. ASSUME NEW i \in DOMAIN stack, stack[i].kind = "invoke"
        PROVE  FrameTried(stack[i])' /\ (i # Len(stack) => stack[i].calling)
    <2> DEFINE f == stack[i]
    <2>1. FrameTried(f) /\ (i # Len(stack) => f.calling)
      BY <1>4 DEF ListInv, FramesTried
    <2>2. f.calling => f.at # h /\ f.at \in Handlers
      BY <1>1, <1>3, <1>4, <2>1 DEF RunningHandler, FrameTried
    <2>3. f.calling => handlerSlot'[f.at] = "ready"
      BY <1>1, <2>1, <2>2 DEF FrameTried
    <2>4. \A j \in DOMAIN list : handlerSlot'[list[j]] = "ready" => handlerSlot[list[j]] = "ready"
      BY <1>1, <1>3
    <2> QED  BY <1>1, <2>1, <2>3, <2>4 DEF FrameTried, Before, ToSet
  <1>5. FramesTried'
    BY <1>1, <1>4 DEF FramesTried
  <1> QED  BY <1>2, <1>5

\* Frames are popped, or the stack stays as it is.
LEMMA PopTried ==
  ASSUME ListInv, UNCHANGED hvars,
         \A i \in DOMAIN stack' :
           i \in DOMAIN stack /\ stack'[i] = stack[i] /\ (i # Len(stack') => i # Len(stack))
  PROVE  Installed' /\ FramesTried'
  <1>1. Installed'
    BY DEF ListInv, Installed, ToSet, hvars
  <1>2. ASSUME NEW i \in DOMAIN stack', stack'[i].kind = "invoke"
        PROVE  FrameTried(stack[i])' /\ (i # Len(stack') => stack'[i].calling)
    <2>1. /\ stack'[i] = stack[i] /\ FrameTried(stack[i])
          /\ i # Len(stack') => stack[i].calling
      BY <1>2 DEF ListInv, FramesTried
    <2> QED  BY <2>1 DEF FrameTried, Before, ToSet, hvars
  <1> QED  BY <1>1, <1>2 DEF FramesTried

\* The innermost call changes its frame.
LEMMA SetTopTried ==
  ASSUME ListInv, UNCHANGED hvars, Invoking, NEW f \in InvokeFrame,
         stack' = SetTop(f), FrameTried(f)
  PROVE  Installed' /\ FramesTried'
  <1>1. Installed'
    BY DEF ListInv, Installed, ToSet, hvars
  <1>2. stack \in Seq(Frame) /\ f \in Frame /\ f.kind = Top.kind
    BY TopProperties DEF ListInv, Frame, InvokeFrame, Invoking
  <1>3. /\ stack' \in Seq(Frame) /\ Len(stack') = Len(stack)
        /\ \A i \in 1..(Len(stack) - 1) : stack'[i] = stack[i]
        /\ stack'[Len(stack)] = f
    BY <1>2, SetTopProperties DEF ListInv, Invoking
  <1>4. ASSUME NEW i \in DOMAIN stack', stack'[i].kind = "invoke"
        PROVE  FrameTried(stack[i])' /\ (i # Len(stack') => stack'[i].calling)
    <2>1. CASE i = Len(stack)
      BY <1>3, <2>1 DEF FrameTried, Before, ToSet, hvars
    <2>2. CASE i # Len(stack)
      <3>1. /\ stack'[i] = stack[i] /\ FrameTried(stack[i]) /\ stack[i].calling
        BY <1>2, <1>3, <1>4, <2>2 DEF ListInv, FramesTried
      <3> QED  BY <3>1 DEF FrameTried, Before, ToSet, hvars
    <2> QED  BY <2>1, <2>2
  <1> QED  BY <1>1, <1>4 DEF FramesTried

\* A frame is pushed: a slot above code of the program, or a call of
\* exception_handlers_invoke() above a slot.
LEMMA PushTried ==
  ASSUME ListInv, UNCHANGED hvars, NEW f \in Frame, stack' = Append(stack, f),
         \/ InUserCode /\ f.kind = "slot"
         \/ InSlot /\ f.kind = "invoke" /\ FrameTried(f)
  PROVE  Installed' /\ FramesTried'
  <1>1. Installed'
    BY DEF ListInv, Installed, ToSet, hvars
  <1>2. stack \in Seq(Frame)
    BY TopProperties DEF ListInv
  <1>3. /\ stack' \in Seq(Frame) /\ Len(stack') = Len(stack) + 1
        /\ \A i \in 1..Len(stack) : stack'[i] = stack[i]
        /\ stack'[Len(stack) + 1] = f
    BY <1>2, PushProperties
  <1>4. \A i \in DOMAIN stack : stack[i].kind = "invoke" => stack[i].calling
    <2>1. CASE InUserCode
      BY <2>1, AllCalling
    <2>2. CASE InSlot
      BY <1>2, <2>2 DEF InSlot, Top, ListInv, FramesTried
    <2> QED  BY <2>1, <2>2
  <1>5. ASSUME NEW i \in DOMAIN stack', stack'[i].kind = "invoke"
        PROVE  FrameTried(stack[i])' /\ (i # Len(stack') => stack'[i].calling)
    <2>1. CASE i = Len(stack) + 1
      <3>1. stack'[i] = f /\ f.kind = "invoke" /\ i = Len(stack')
        BY <1>3, <1>5, <2>1
      <3>2. FrameTried(f)
        BY <3>1
      <3> QED  BY <3>1, <3>2 DEF FrameTried, Before, ToSet, hvars
    <2>2. CASE i # Len(stack) + 1
      <3>1. i \in DOMAIN stack /\ stack'[i] = stack[i]
        BY <1>2, <1>3, <2>2
      <3>2. FrameTried(stack[i]) /\ stack[i].calling
        BY <1>4, <1>5, <3>1 DEF ListInv, FramesTried
      <3> QED  BY <3>1, <3>2 DEF FrameTried, Before, ToSet, hvars
    <2> QED  BY <2>1, <2>2
  <1> QED  BY <1>1, <1>5 DEF FramesTried

\* exception_handlers_invoke() begins with the first handler.
LEMMA SlotThrowsTried ==
  ASSUME ListInv, NEW e \in Exceptions, SlotThrows(e)
  PROVE  Installed' /\ FramesTried'
  <1> DEFINE f == [kind |-> "invoke", at |-> Begin, calling |-> FALSE,
                   exc |-> e, tried |-> {}]
  <1>1. /\ InSlot /\ UNCHANGED hvars /\ list \in Seq(Handlers)
        /\ stack' = Append(stack, f) \/ stack' = stack
    BY DEF SlotThrows, Catch, ListInv, SignalTypeOK
  <1>2. Begin \in ToSet(list) \cup {END} /\ ~\E j \in DOMAIN list : Before(j, Begin)
    <2>1. CASE list = <<>>
      BY <2>1 DEF Begin
    <2>2. CASE list # <<>>
      <3>1. 1 \in DOMAIN list /\ Begin = list[1]
        BY <1>1, <2>2, EmptySeq DEF Begin
      <3> QED  BY <1>1, <3>1 DEF ToSet, Before
    <2> QED  BY <2>1, <2>2
  <1>3. /\ f \in Frame /\ f.kind = "invoke" /\ f.at = Begin /\ ~f.calling
    BY <1>1, <1>2 DEF Frame, InvokeFrame, ToSet
  <1>4. FrameTried(f)
    BY <1>2, <1>3 DEF FrameTried
  <1> HIDE DEF f
  <1>5. CASE stack' = Append(stack, f)
    BY <1>1, <1>3, <1>4, <1>5, PushTried
  <1>6. CASE stack' = stack
    BY <1>1, <1>6, PopTried
  <1> QED  BY <1>1, <1>5, <1>6

LEMMA CallHandlerTried ==
  ASSUME TypeInv, ListInv, CallHandler
  PROVE  Installed' /\ FramesTried'
  <1>1. PICK f \in InvokeFrame :
          /\ stack' = SetTop(f)
          /\ f.at = Top.at /\ f.calling /\ f.tried = Top.tried \cup {Top.at}
    BY CallHandlerFrame
  <1>2. Invoking /\ UNCHANGED hvars /\ Top.at # END /\ handlerSlot[Top.at] = "ready"
    BY DEF CallHandler
  <1>3. FrameTried(Top)
    BY <1>2, TopProperties, EmptySeq DEF ListInv, FramesTried, Invoking, Top
  <1>4. FrameTried(f)
    BY <1>1, <1>2, <1>3 DEF FrameTried
  <1> QED  BY <1>1, <1>2, <1>4, SetTopTried

\* When the handler at p throws, the ones up to p have been tried.
LEMMA HandlerThrowsTried ==
  ASSUME TypeInv, ListInv, HandlerThrows
  PROVE  Installed' /\ FramesTried'
  <1>1. PICK f \in InvokeFrame :
          /\ stack' = SetTop(f)
          /\ f.at = NextSlot(Top.at) /\ ~f.calling /\ f.tried = Top.tried
    BY HandlerThrowsFrame
  <1>2. Invoking /\ UNCHANGED hvars /\ Top.calling /\ list \in Seq(Handlers) /\ Distinct
    BY DEF HandlerThrows, ListInv, SignalTypeOK
  <1>3. FrameTried(Top)
    BY <1>2, TopProperties, EmptySeq DEF ListInv, FramesTried, Invoking, Top
  <1>4. PICK p \in DOMAIN list : list[p] = Top.at
    BY <1>2, <1>3 DEF FrameTried, ToSet
  <1>5. f.at = IF p = Len(list) THEN END ELSE list[p + 1]
    BY <1>1, <1>2, <1>4, AfterProperties DEF NextSlot
  <1>6. f.at \in ToSet(list) \cup {END}
    BY <1>2, <1>5 DEF ToSet
  <1>7. ASSUME NEW j \in DOMAIN list, handlerSlot[list[j]] = "ready", Before(j, f.at)
        PROVE  list[j] \in f.tried
    <2>1. j <= p
      BY <1>2, <1>5, <1>7 DEF Before
    <2>2. CASE j = p
      BY <1>1, <1>2, <1>3, <1>4, <2>2 DEF FrameTried
    <2>3. CASE j < p
      <3>1. Before(j, Top.at)
        BY <1>2, <1>4, <2>3 DEF Before, Distinct
      <3> QED  BY <1>1, <1>3, <1>7, <3>1 DEF FrameTried
    <2> QED  BY <1>2, <2>1, <2>2, <2>3
  <1>8. FrameTried(f)
    BY <1>1, <1>6, <1>7 DEF FrameTried
  <1> QED  BY <1>1, <1>2, <1>8, SetTopTried

\* A nested call erases the dead slot at p.  The calls below it are at other slots,
\* which are not dead, and nothing that they have still to try is lost.
LEMMA SkipDeadTried ==
  ASSUME TypeInv, ListInv, SkipDead
  PROVE  Installed' /\ FramesTried'
  <1>1. PICK f \in InvokeFrame :
          /\ stack' = SetTop(f)
          /\ f.at = Erase(Top.at) /\ f.calling = Top.calling /\ f.tried = Top.tried
    BY SkipDeadFrame
  <1>2. /\ Invoking /\ ~Top.calling /\ Top.at # END /\ handlerSlot[Top.at] = "empty"
        /\ handlerSlot' = handlerSlot /\ list \in Seq(Handlers) /\ Distinct
    BY DEF SkipDead, ListInv, SignalTypeOK
  <1>3. FrameTried(Top)
    BY <1>2, TopProperties, EmptySeq DEF ListInv, FramesTried, Invoking, Top
  <1>4. PICK p \in DOMAIN list : list[p] = Top.at
    BY <1>2, <1>3 DEF FrameTried, ToSet
  <1>5. /\ list' \in Seq(Handlers) /\ Len(list') = Len(list) - 1
        /\ \A i \in 1..(Len(list) - 1) : list'[i] = IF i < p THEN list[i] ELSE list[i + 1]
        /\ Erase(Top.at) = IF p = Len(list) THEN END ELSE list[p + 1]
    BY <1>4, SkipDeadList
  \* Every element but the one at p is in the new list, and there is no other.
  <1>6. /\ \A k \in DOMAIN list : k < p => k \in DOMAIN list' /\ list'[k] = list[k]
        /\ \A k \in DOMAIN list : k > p => k - 1 \in DOMAIN list' /\ list'[k - 1] = list[k]
    BY <1>2, <1>4, <1>5
  <1>7. \A k \in DOMAIN list : list[k] # Top.at => list[k] \in ToSet(list')
    <2> SUFFICES ASSUME NEW k \in DOMAIN list, list[k] # Top.at PROVE list[k] \in ToSet(list')
      OBVIOUS
    <2>1. k < p \/ k > p
      BY <1>2, <1>4
    <2> QED  BY <1>6, <2>1 DEF ToSet
  <1>8. ToSet(list') \subseteq ToSet(list)
    BY SMTT(60), <1>2, <1>4, <1>5 DEF ToSet
  <1>9. Installed'
    <2> SUFFICES ASSUME NEW h \in Handlers
                 PROVE  /\ handlerSlot[h] = "unused" => h \notin ToSet(list')
                        /\ handlerSlot[h] = "ready" => h \in ToSet(list')
      BY <1>2 DEF Installed
    <2>1. handlerSlot[h] = "ready" => \E k \in DOMAIN list : list[k] = h /\ h # Top.at
      BY <1>2 DEF ListInv, Installed, ToSet
    <2> QED  BY <1>7, <1>8, <2>1 DEF ListInv, Installed
  <1>10. stack \in Seq(Frame) /\ f \in Frame /\ f.kind = Top.kind /\ stack # <<>>
    BY <1>2, TopProperties DEF ListInv, Frame, InvokeFrame, Invoking
  <1>11. /\ stack' \in Seq(Frame) /\ Len(stack') = Len(stack)
         /\ \A i \in 1..(Len(stack) - 1) : stack'[i] = stack[i]
         /\ stack'[Len(stack)] = f
    BY <1>1, <1>10, SetTopProperties DEF ListInv
  \* The call that erases goes on with the element after p.
  <1>12. FrameTried(f)'
    <2>1. f.at \in ToSet(list') \cup {END}
      <3>1. CASE p = Len(list)
        BY <1>1, <1>5, <3>1
      <3>2. CASE p # Len(list)
        <4>1. PICK k \in DOMAIN list : k = p + 1 /\ k > p /\ k - 1 = p
          BY <1>2, <1>4, <3>2
        <4>2. k - 1 \in DOMAIN list' /\ list'[k - 1] = list[k]
          BY <1>6, <4>1
        <4>3. f.at = list[k]
          BY <1>1, <1>5, <3>2, <4>1, ZenonT(40)
        <4> QED  BY <4>2, <4>3, Zenon DEF ToSet
      <3> QED  BY <3>1, <3>2
    <2>2. ASSUME NEW j \in DOMAIN list', handlerSlot[list'[j]] = "ready",
                 \A k \in DOMAIN list' : list'[k] = f.at => j < k
          PROVE  list'[j] \in f.tried
      <3>1. j < p
        <4>1. CASE p = Len(list)
          BY <1>2, <1>5, <4>1
        <4>2. CASE p # Len(list)
          <5>1. p \in DOMAIN list' /\ list'[p] = f.at
            BY <1>1, <1>2, <1>4, <1>5, <4>2
          <5> QED  BY <2>2, <5>1
        <4> QED  BY <4>1, <4>2
      <3>2. j \in DOMAIN list /\ list'[j] = list[j]
        BY SMTT(60), <1>2, <1>4, <1>5, <3>1
      <3>3. Before(j, Top.at)
        BY <1>2, <1>4, <3>1 DEF Before, Distinct
      <3> QED  BY <1>1, <1>3, <2>2, <3>2, <3>3 DEF FrameTried
    <2> QED  BY <1>1, <1>2, <2>1, <2>2 DEF FrameTried, Before
  \* A call below is calling its handler, which is not dead.
  <1>13. ASSUME NEW i \in DOMAIN stack, stack[i].kind = "invoke", i # Len(stack)
         PROVE  FrameTried(stack[i])' /\ stack'[i].calling
    <2> DEFINE g == stack[i]
    <2>1. /\ stack'[i] = g
      BY <1>10, <1>11, <1>13
    <2>2. /\ FrameTried(g) /\ g.calling
      BY <1>13 DEF ListInv, FramesTried
    <2> HIDE DEF g
    <2>3. /\ handlerSlot[g.at] = "ready" /\ g.at # END /\ g.at # Top.at
          /\ g.at \in ToSet(list) /\ g.at \in g.tried
      BY <1>2, <2>2 DEF FrameTried
    <2>4. PICK q \in DOMAIN list : list[q] = g.at
      BY <2>3 DEF ToSet
    <2>5. g.at \in ToSet(list')
      BY <1>7, <2>3, <2>4
    <2>6. ASSUME NEW j \in DOMAIN list', handlerSlot[list'[j]] = "ready",
                 \A k \in DOMAIN list' : list'[k] = g.at => j < k
          PROVE  list'[j] \in g.tried
      <3>1. PICK o \in DOMAIN list : list'[j] = list[o] /\ o = IF j < p THEN j ELSE j + 1
        BY <1>2, <1>4, <1>5, SMTT(40)
      <3>2. ASSUME NEW k \in DOMAIN list, list[k] = g.at
            PROVE  o < k
        <4>1. k # p
          BY <1>4, <2>3, <3>2
        <4>2. CASE k < p
          BY <1>2, <1>4, <1>5, <1>6, <2>6, <3>1, <3>2, <4>2
        <4>3. CASE k > p
          <5>1. j < k - 1
            BY <1>6, <2>6, <3>2, <4>3
          <5> QED  BY <1>2, <1>4, <1>5, <3>1, <5>1
        <4> QED  BY <1>2, <1>4, <4>1, <4>2, <4>3
      <3> QED  BY <2>2, <2>6, <3>1, <3>2 DEF FrameTried, Before
    <2>7. /\ \A j \in DOMAIN list' : handlerSlot[list'[j]] = "ready"
                 /\ (\A k \in DOMAIN list' : list'[k] = g.at => j < k) => list'[j] \in g.tried
      BY <2>6
    <2> QED  BY <1>2, <2>1, <2>2, <2>3, <2>5, <2>7 DEF FrameTried, Before
  <1>14. FramesTried'
    <2> SUFFICES ASSUME NEW i \in DOMAIN stack', stack'[i].kind = "invoke"
                 PROVE  FrameTried(stack[i])' /\ (i # Len(stack') => stack'[i].calling)
      BY DEF FramesTried
    <2>1. CASE i = Len(stack)
      BY <1>11, <1>12, <2>1 DEF FrameTried, Before
    <2>2. CASE i # Len(stack)
      BY <1>10, <1>11, <1>13, <2>2
    <2> QED  BY <2>1, <2>2
  <1> QED  BY <1>9, <1>14

LEMMA NextListInv ==
  ASSUME ~RemoveRunning
  PROVE  TypeInv /\ ListInv /\ [SignalNext]_signalVars => ListInv'
  <1> SUFFICES ASSUME TypeInv, ListInv, [SignalNext]_signalVars
               PROVE  Installed' /\ FramesTried'
    BY NextTypeInv DEF ListInv, TypeInv
  <1>0. SignalTypeOK /\ stack \in Seq(Frame)
    BY TopProperties DEF TypeInv
  <1>1. CASE UNCHANGED signalVars
    BY <1>1, PopTried DEF signalVars
  <1>2. CASE \/ \E n \in Nodes : \/ Connect(n) \/ connect_property_changed(n)
                                 \/ Block(n) \/ Disconnect(n)
             \/ Dispose \/ Disassociate \/ Finalize
    BY <1>2, NodeActionTypes, PopTried
  <1>3. ASSUME NEW n \in Nodes, Emit(n)
        PROVE  Installed' /\ FramesTried'
    <2> DEFINE f == [kind |-> "slot", node |-> n]
    <2>1. f \in Frame /\ f.kind = "slot"
      BY DEF Frame, SlotFrame
    <2>2. InUserCode /\ stack' = Append(stack, f) /\ UNCHANGED hvars
      BY <1>3 DEF Emit
    <2> HIDE DEF f
    <2> QED  BY <2>1, <2>2, PushTried
  <1>4. CASE \E e \in Exceptions : SlotThrows(e)
    BY <1>4, SlotThrowsTried
  <1>5. CASE \E h \in Handlers : AddExceptionHandler(h) \/ RemoveExceptionHandler(h)
    BY <1>5, AddExceptionHandlerTried, RemoveExceptionHandlerTried
  <1>6. CASE SkipDead \/ CallHandler \/ HandlerThrows
    BY <1>6, SkipDeadTried, CallHandlerTried, HandlerThrowsTried
  <1>7. CASE SlotReturns
    <2>1. stack # <<>> /\ stack' = Front(stack) /\ UNCHANGED hvars
      BY <1>7 DEF SlotReturns, Return, InSlot
    <2>2. /\ stack' \in Seq(Frame) /\ Len(stack') = Len(stack) - 1
          /\ \A i \in 1..(Len(stack) - 1) : stack'[i] = stack[i]
      BY <1>0, <2>1, FrontProperties
    <2>3. \A i \in DOMAIN stack' : i \in DOMAIN stack /\ stack'[i] = stack[i] /\ i # Len(stack)
      BY <1>0, <2>2
    <2> QED  BY <2>1, <2>3, PopTried
  <1>8. CASE HandlerReturns \/ Unexpected
    <2>1. Invoking /\ UNCHANGED hvars /\ (stack' = Front(Front(stack)) \/ stack' = stack)
      BY <1>8 DEF HandlerReturns, Unexpected, Return
    <2>2. CASE stack' = stack
      BY <2>1, <2>2, PopTried
    <2>3. CASE stack' = Front(Front(stack))
      <3>1. /\ stack' \in Seq(Frame) /\ Len(stack') = Len(stack) - 2
            /\ \A i \in 1..(Len(stack) - 2) : stack'[i] = stack[i]
        BY <1>0, <2>1, <2>3, PopProperties
      <3>2. \A i \in DOMAIN stack' : i \in DOMAIN stack /\ stack'[i] = stack[i] /\ i # Len(stack)
        BY <1>0, <3>1
      <3> QED  BY <2>1, <3>2, PopTried
    <2> QED  BY <2>1, <2>2, <2>3
  <1> QED  BY <1>1, <1>2, <1>3, <1>4, <1>5, <1>6, <1>7, <1>8 DEF SignalNext

\* Initially there is neither a handler nor a frame.
LEMMA InitListInv == SignalInit => ListInv
  <1> SUFFICES ASSUME SignalInit PROVE ListInv
    OBVIOUS
  <1>1. DOMAIN stack = {} /\ DOMAIN list = {} /\ SignalTypeOK /\ Distinct
    BY InitTypeInv DEF SignalInit, TypeInv
  <1> QED  BY <1>1 DEF SignalInit, ListInv, Installed, FramesTried, ToSet

(***************************************************************************)
(* If no handler is disconnected while it runs, no iterator of an          *)
(* exception_handlers_invoke() under way is ever left dangling by what     *)
(* nested calls add to the list, disconnect and erase from it.             *)
(***************************************************************************)
THEOREM IteratorsStayValid ==
  ASSUME ~RemoveRunning
  PROVE  SignalSpec => []IteratorsValid
  <1>1. SignalInit => TypeInv /\ ListInv
    BY InitTypeInv, InitListInv
  <1>2. TypeInv /\ ListInv /\ [SignalNext]_signalVars => TypeInv' /\ ListInv'
    BY NextTypeInv, NextListInv
  <1>3. ListInv => IteratorsValid
    BY DEF ListInv, IteratorsValid, FramesTried, FrameTried
  <1> QED  BY <1>1, <1>2, <1>3, PTL DEF SignalSpec

(***************************************************************************)
(* Under the same assumption exception_handlers_invoke() gives up only     *)
(* when it has tried every handler that is installed, in whatever order    *)
(* handlers were added and removed in the meantime.                        *)
(***************************************************************************)
THEOREM EveryHandlerTried ==
  ASSUME ~RemoveRunning
  PROVE  SignalSpec => []AllTried
  <1>1. SignalInit => TypeInv /\ ListInv
    BY InitTypeInv, InitListInv
  <1>2. TypeInv /\ ListInv /\ [SignalNext]_signalVars => TypeInv' /\ ListInv'
    BY NextTypeInv, NextListInv
  <1>3. ListInv => AllTried
    <2> SUFFICES ASSUME ListInv, Invoking, Top.at = END,
                        NEW h \in Handlers, handlerSlot[h] = "ready"
                 PROVE  h \in Top.tried
      BY DEF AllTried
    <2>1. FrameTried(Top)
      BY TopProperties, EmptySeq DEF ListInv, FramesTried, Invoking, Top
    <2>2. PICK j \in DOMAIN list : list[j] = h
      BY DEF ListInv, Installed, ToSet
    <2>3. Before(j, END)
      BY SignalProxyAssumption DEF Before, ListInv, SignalTypeOK
    <2> QED  BY <2>1, <2>2, <2>3 DEF FrameTried
  <1> QED  BY <1>1, <1>2, <1>3, PTL DEF SignalSpec

=============================================================================
