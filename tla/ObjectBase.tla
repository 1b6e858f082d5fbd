----------------------------- MODULE ObjectBase -----------------------------
(***************************************************************************)
(* Glib::ObjectBase, Glib::Object and Glib::wrap_auto(): the C++ wrapper   *)
(* of a GObject, which of the two keeps the other alive, and how a second  *)
(* wrapper is avoided.                                                     *)
(*                                                                         *)
(* The GObject points to its wrapper (qdata, Glib::quark_), the wrapper to *)
(* its GObject (gobject_).  A wrapper on the heap is deleted by the        *)
(* destroy notification of the qdata when the GObject is finalized.  A     *)
(* wrapper that is a variable of the program owns one reference and can be *)
(* moved.  References are also held by C code and by RefPtrs; copies of a  *)
(* RefPtr share one reference.                                             *)
(*                                                                         *)
(* wrap() is split into the steps between which another thread may run.    *)
(* UsesMutex chooses between the wrap() of most classes and the one of     *)
(* Gio::DBus::Connection, which takes a mutex if it finds no wrapper.      *)
(* ObjectBase makes a new wrapper visible before the constructors of the   *)
(* derived classes have run; until then a dynamic_cast of it to its class  *)
(* gives nullptr.                                                          *)
(*                                                                         *)
(* The types of all objects are registered, so that wrap_new() is always   *)
(* found: Glib::wrap_init() registers GObject itself.                      *)
(***************************************************************************)
EXTENDS Integers, FiniteSets

CONSTANTS
  Objects,     \* GObjects
  HeapWrappers,\* C++ objects that are deleted by destroy_notify_()
  Variables,   \* C++ objects that are variables of the program
  Threads,
  NULL,        \* nullptr
  MaxRefPtrs,  \* bound on the references RefPtrs hold through one wrapper, and
               \* on those that are lost on one object
  UsesMutex    \* does wrap() use wrap_mutex?

Wrappers == HeapWrappers \cup Variables

ASSUME ObjectBaseAssumption ==
  /\ IsFiniteSet(Wrappers)
  /\ IsFiniteSet(Threads)
  /\ HeapWrappers \cap Variables = {}
  /\ NULL \notin Objects \cup Wrappers \cup Threads
  /\ MaxRefPtrs \in Nat
  /\ UsesMutex \in BOOLEAN

VARIABLES
  gobj,      \* Objects -> "unborn", "live" or "finalized"
  gref,      \* ref_count of the GObject
  cHolders,  \* threads whose C code holds a reference
  qdata,     \* the current wrapper
  wrapper,   \* Wrappers -> "unborn", "constructing", "live" or "deleted"
  gobject,   \* gobject_
  refptrs,   \* Wrappers -> references held by RefPtrs
  leaked,    \* Objects -> references nobody will ever drop
  call,      \* Threads -> the call of wrap(), or throwing constructor, under way
  mutex      \* the thread that holds wrap_mutex

ovars == <<gobj, gref, cHolders, qdata>>
wvars == <<wrapper, gobject, refptrs>>
vars == <<ovars, wvars, leaked, call, mutex>>

PC == {"idle", "lock", "lookup", "create", "set", "construct", "finish", "threw", "release"}
Idle == [pc |-> "idle", obj |-> NULL, copy |-> FALSE, w |-> NULL]

(***************************************************************************)
(* The variables have the types of what they stand for; no reference count *)
(* becomes negative.                                                       *)
(***************************************************************************)
TypeOK ==
  /\ gobj \in [Objects -> {"unborn", "live", "finalized"}]
  /\ gref \in [Objects -> Nat]
  /\ cHolders \in [Objects -> SUBSET Threads]
  /\ qdata \in [Objects -> Wrappers \cup {NULL}]
  /\ wrapper \in [Wrappers -> {"unborn", "constructing", "live", "deleted"}]
  /\ gobject \in [Wrappers -> Objects \cup {NULL}]
  /\ refptrs \in [Wrappers -> Nat]
  /\ leaked \in [Objects -> Nat]
  /\ call \in [Threads -> [pc : PC, obj : Objects \cup {NULL}, copy : BOOLEAN,
                           w : Wrappers \cup {NULL}]]
  /\ mutex \in Threads \cup {NULL}

Init ==
  /\ gobj = [o \in Objects |-> "unborn"]
  /\ gref = [o \in Objects |-> 0]
  /\ cHolders = [o \in Objects |-> {}]
  /\ qdata = [o \in Objects |-> NULL]
  /\ wrapper = [w \in Wrappers |-> "unborn"]
  /\ gobject = [w \in Wrappers |-> NULL]
  /\ refptrs = [w \in Wrappers |-> 0]
  /\ leaked = [o \in Objects |-> 0]
  /\ call = [t \in Threads |-> Idle]
  /\ mutex = NULL

-----------------------------------------------------------------------------
(* What the actions share. *)

\* The thread is not in wrap(), nor in a constructor that throws.
Free(t) == call[t] = Idle

\* destroy_notify_().
DestroyNotify(w) ==
  /\ gobject' = [x \in Wrappers |-> IF x = w THEN NULL ELSE gobject[x]]
  /\ wrapper' = [x \in Wrappers |-> IF x = w THEN "deleted" ELSE wrapper[x]]

\* g_object_unref(): with the last reference the object is finalized and its
\* qdata destroyed, which notifies the wrapper.
Unref(o) ==
  /\ gref' = [gref EXCEPT ![o] = @ - 1]
  /\ IF gref[o] = 1
       THEN /\ gobj' = [gobj EXCEPT ![o] = "finalized"]
            /\ qdata' = [qdata EXCEPT ![o] = NULL]
            /\ DestroyNotify(qdata[o])
       ELSE UNCHANGED <<gobj, qdata, wrapper, gobject>>

\* g_object_steal_qdata(): no notification.
Steal(q, o) == [q EXCEPT ![o] = NULL]

\* g_object_unref() of an object that has lost its wrapper.  The mutant
\* forgets it.
ReleaseForgets(o) == UNCHANGED <<gobj, gref>>

Release(o) ==
  /\ gref' = [gref EXCEPT ![o] = @ - 1]
  /\ gobj' = [gobj EXCEPT ![o] = IF gref[o] = 1 THEN "finalized" ELSE @]

-----------------------------------------------------------------------------
(* C code. *)

\* g_object_new() in C.
CNew(t, o) ==
  /\ Free(t)
  /\ gobj[o] = "unborn"
  /\ gobj' = [gobj EXCEPT ![o] = "live"]
  /\ gref' = [gref EXCEPT ![o] = 1]
  /\ cHolders' = [cHolders EXCEPT ![o] = {t}]
  /\ UNCHANGED <<qdata, wvars, leaked, call, mutex>>

\* C code of thread t gives thread u a reference.
CRef(t, u, o) ==
  /\ Free(t)
  /\ t \in cHolders[o] /\ u \notin cHolders[o]
  /\ gref' = [gref EXCEPT ![o] = @ + 1]
  /\ cHolders' = [cHolders EXCEPT ![o] = @ \cup {u}]
  /\ UNCHANGED <<gobj, qdata, wvars, leaked, call, mutex>>

CUnref(t, o) ==
  /\ Free(t)
  /\ t \in cHolders[o]
  /\ cHolders' = [cHolders EXCEPT ![o] = @ \ {t}]
  /\ Unref(o)
  /\ UNCHANGED <<refptrs, leaked, call, mutex>>

-----------------------------------------------------------------------------
(* Wrappers of objects that C++ creates. *)

\* A constructor creates the GObject, or takes over the reference of thread t, and
\* connects the two: initialize() and _set_current_wrapper().  create() puts a
\* wrapper on the heap into a RefPtr.
New(t, w, o) ==
  /\ Free(t)
  /\ wrapper[w] = "unborn"
  /\ \/ gobj[o] = "unborn" /\ gref' = [gref EXCEPT ![o] = 1]
     \/ /\ t \in cHolders[o] /\ qdata[o] = NULL /\ w \in Variables
        /\ \A u \in Threads : call[u].obj # o
        /\ UNCHANGED gref
  /\ gobj' = [gobj EXCEPT ![o] = "live"]
  /\ cHolders' = [cHolders EXCEPT ![o] = @ \ {t}]
  /\ qdata' = [qdata EXCEPT ![o] = w]
  /\ wrapper' = [wrapper EXCEPT ![w] = "live"]
  /\ gobject' = [gobject EXCEPT ![w] = o]
  /\ refptrs' = [refptrs EXCEPT ![w] = IF w \in HeapWrappers THEN 1 ELSE 0]
  /\ UNCHANGED <<leaked, call, mutex>>

\* The constructor of a derived class throws, when the new wrapper is that of a new
\* object and C code of the thread may have got a reference from it.  It makes no
\* difference whether the C++ object is on the heap: w is one that is not.
NewThrows(t, w, o) ==
  /\ Free(t)
  /\ w \in Variables /\ wrapper[w] = "unborn" /\ gobj[o] = "unborn"
  /\ gobj' = [gobj EXCEPT ![o] = "live"]
  /\ \E kept \in SUBSET {t} :
       /\ cHolders' = [cHolders EXCEPT ![o] = kept]
       /\ gref' = [gref EXCEPT ![o] = 1 + Cardinality(kept)]
  /\ qdata' = [qdata EXCEPT ![o] = w]
  /\ wrapper' = [wrapper EXCEPT ![w] = "constructing"]
  /\ gobject' = [gobject EXCEPT ![w] = o]
  /\ call' = [call EXCEPT ![t] = [Idle EXCEPT !.pc = "threw", !.obj = o, !.w = w]]
  /\ UNCHANGED <<refptrs, leaked, mutex>>

\* ~ObjectBase() then takes the wrapper off the object,
ThrowSteal(t) ==
  /\ call[t].pc = "threw"
  /\ gobject' = [gobject EXCEPT ![call[t].w] = NULL]
  /\ qdata' = Steal(qdata, call[t].obj)
  /\ call' = [call EXCEPT ![t].pc = "release"]
  /\ UNCHANGED <<gobj, gref, cHolders, wrapper, refptrs, leaked, mutex>>

\* and drops its reference.
ThrowRelease(t) ==
  /\ call[t].pc = "release"
  /\ Release(call[t].obj)
  /\ wrapper' = [wrapper EXCEPT ![call[t].w] = "deleted"]
  /\ call' = [call EXCEPT ![t] = Idle]
  /\ UNCHANGED <<cHolders, qdata, gobject, refptrs, leaked, mutex>>

\* gobj_copy(), to give C code a reference.
GobjCopy(t, w) ==
  /\ Free(t)
  /\ wrapper[w] = "live" /\ gobject[w] # NULL
  /\ w \in Variables \/ refptrs[w] > 0
  /\ t \notin cHolders[gobject[w]]
  /\ gref' = [gref EXCEPT ![gobject[w]] = @ + 1]
  /\ cHolders' = [cHolders EXCEPT ![gobject[w]] = @ \cup {t}]
  /\ UNCHANGED <<gobj, qdata, wvars, leaked, call, mutex>>

\* RefPtrDeleter(): the last copy of a RefPtr calls unreference().
DropRefPtr(t, w) ==
  /\ Free(t)
  /\ refptrs[w] > 0
  /\ refptrs' = [refptrs EXCEPT ![w] = @ - 1]
  /\ Unref(gobject[w])
  /\ UNCHANGED <<cHolders, leaked, call, mutex>>

\* A wrapper the program may move or destroy: a variable to which no RefPtr and no
\* call of wrap() refers.
IsVariable(w) ==
  /\ wrapper[w] = "live" /\ w \in Variables /\ refptrs[w] = 0
  /\ gobject[w] # NULL => \A t \in Threads : call[t].obj # gobject[w]

\* ~ObjectBase(), of a wrapper that may have been moved from.
DestroyValue(t, w) ==
  /\ Free(t)
  /\ IsVariable(w)
  /\ wrapper' = [wrapper EXCEPT ![w] = "deleted"]
  /\ gobject' = [gobject EXCEPT ![w] = NULL]
  /\ IF gobject[w] # NULL
       THEN qdata' = Steal(qdata, gobject[w]) /\ Release(gobject[w])
       ELSE UNCHANGED <<qdata, gobj, gref>>
  /\ UNCHANGED <<cHolders, refptrs, leaked, call, mutex>>

\* _move_current_wrapper(): w becomes the wrapper of the object that src had.
MoveCurrentWrapper(qd, w, src) ==
  /\ qdata' = [qd EXCEPT ![gobject[src]] = w]
  /\ gobject' = [gobject EXCEPT ![w] = gobject[src], ![src] = NULL]

\* Object(Object&&): initialize_move().
MoveConstruct(t, w, src) ==
  /\ Free(t)
  /\ w \in Variables /\ wrapper[w] = "unborn"
  /\ IsVariable(src) /\ gobject[src] # NULL
  /\ wrapper' = [wrapper EXCEPT ![w] = "live"]
  /\ MoveCurrentWrapper(qdata, w, src)
  /\ UNCHANGED <<gobj, gref, cHolders, refptrs, leaked, call, mutex>>

\* operator=(ObjectBase&&): the old object loses its wrapper and a reference.
MoveAssign(t, w, src) ==
  /\ Free(t)
  /\ w # src
  /\ IsVariable(w)
  /\ IsVariable(src) /\ gobject[src] # NULL
  /\ IF gobject[w] # NULL
       THEN /\ MoveCurrentWrapper(Steal(qdata, gobject[w]), w, src)
            /\ Release(gobject[w])
       ELSE /\ MoveCurrentWrapper(qdata, w, src)
            /\ UNCHANGED <<gobj, gref>>
  /\ UNCHANGED <<cHolders, wrapper, refptrs, leaked, call, mutex>>

-----------------------------------------------------------------------------
(* wrap(). *)

\* Thread t passes an object of which it holds a reference, to be taken over or
\* (copy) kept.  With a mutex, it takes it if the object has no wrapper.
WrapBegin(t, o, copy) ==
  /\ Free(t)
  /\ t \in cHolders[o]
  /\ \A w \in Wrappers :
       refptrs[w] + Cardinality({u \in Threads : ~Free(u)}) < MaxRefPtrs
  /\ leaked[o] + Cardinality({u \in Threads : ~Free(u)}) < MaxRefPtrs
  /\ call' = [call EXCEPT ![t] =
       [Idle EXCEPT !.pc = IF UsesMutex /\ qdata[o] = NULL THEN "lock" ELSE "lookup",
                    !.obj = o, !.copy = copy]]
  /\ UNCHANGED <<ovars, wvars, leaked, mutex>>

WrapLock(t) ==
  /\ call[t].pc = "lock"
  /\ mutex = NULL
  /\ mutex' = t
  /\ call' = [call EXCEPT ![t].pc = "lookup"]
  /\ UNCHANGED <<ovars, wvars, leaked>>

\* _get_current_wrapper() in wrap_auto(); the mutant trusts the look it had before
\* it waited for the mutex.
CurrentWrapperTrusts(t) == IF mutex = t THEN NULL ELSE qdata[call[t].obj]

CurrentWrapper(t) == qdata[call[t].obj]

WrapLookup(t) ==
  /\ call[t].pc = "lookup"
  /\ call' = [call EXCEPT ![t].w = CurrentWrapper(t),
                          ![t].pc = IF CurrentWrapper(t) = NULL THEN "create" ELSE "finish"]
  /\ UNCHANGED <<ovars, wvars, leaked, mutex>>

\* wrap_create_new_wrapper(): initialize() of the new wrapper, which does not
\* become the current one if it finds another.
WrapCreate(t, w) ==
  /\ call[t].pc = "create"
  /\ w \in HeapWrappers /\ wrapper[w] = "unborn"
  /\ wrapper' = [wrapper EXCEPT ![w] = "constructing"]
  /\ gobject' = [gobject EXCEPT ![w] = call[t].obj]
  /\ call' = [call EXCEPT ![t].w = w,
                          ![t].pc = IF qdata[call[t].obj] = NULL THEN "set" ELSE "construct"]
  /\ UNCHANGED <<ovars, refptrs, leaked, mutex>>

\* g_object_set_qdata_full() in _set_current_wrapper(); if there is a value by now
\* it is replaced and destroyed.
WrapSet(t) ==
  /\ call[t].pc = "set"
  /\ DestroyNotify(qdata[call[t].obj])
  /\ qdata' = [qdata EXCEPT ![call[t].obj] = call[t].w]
  /\ call' = [call EXCEPT ![t].pc = "construct"]
  /\ UNCHANGED <<gobj, gref, cHolders, refptrs, leaked, mutex>>

\* The constructors of the derived classes have run.
WrapConstruct(t) ==
  /\ call[t].pc = "construct"
  /\ wrapper' = [wrapper EXCEPT ![call[t].w] =
                   IF @ = "constructing" THEN "live" ELSE @]
  /\ call' = [call EXCEPT ![t].pc = "finish"]
  /\ UNCHANGED <<ovars, gobject, refptrs, leaked, mutex>>

\* The reference that take_copy asks for, and the mutant that does not take it.
TakeCopyForgets(copy) == 0

TakeCopy(copy) == IF copy THEN 1 ELSE 0

\* The end of the lock_guard, if the thread had one; the mutant has none.
UnlockForgets(t) == UNCHANGED mutex

Unlock(t) == mutex' = IF mutex = t THEN NULL ELSE mutex

\* The dynamic_cast of a wrapper whose derived class is still to be constructed gives
\* nullptr.
CastFails(w) == wrapper[w] = "constructing"

\* wrap() returns a RefPtr, which is empty if the cast fails: then the reference
\* that it has taken, or that it was given, is lost.
WrapFinish(t) ==
  /\ call[t].pc = "finish"
  /\ LET o == call[t].obj
         w == call[t].w
     IN /\ gref' = [gref EXCEPT ![o] = @ + TakeCopy(call[t].copy)]
        /\ cHolders' = [cHolders EXCEPT ![o] = IF call[t].copy THEN @ ELSE @ \ {t}]
        /\ IF CastFails(w)
             THEN leaked' = [leaked EXCEPT ![o] = @ + 1] /\ UNCHANGED refptrs
             ELSE refptrs' = [refptrs EXCEPT ![w] = @ + 1] /\ UNCHANGED leaked
  /\ Unlock(t)
  /\ call' = [call EXCEPT ![t] = Idle]
  /\ UNCHANGED <<gobj, qdata, wrapper, gobject>>

-----------------------------------------------------------------------------

WrapStep(t) ==
  \/ WrapLock(t) \/ WrapLookup(t) \/ WrapSet(t) \/ WrapConstruct(t) \/ WrapFinish(t)
  \/ \E w \in Wrappers : WrapCreate(t, w)

Next ==
  \E t \in Threads :
    \/ \E o \in Objects :
         \/ CNew(t, o)
         \/ CUnref(t, o)
         \/ \E u \in Threads : CRef(t, u, o)
         \/ \E w \in Wrappers : New(t, w, o) \/ NewThrows(t, w, o)
         \/ \E copy \in BOOLEAN : WrapBegin(t, o, copy)
    \/ \E w \in Wrappers :
         \/ GobjCopy(t, w)
         \/ DropRefPtr(t, w)
         \/ DestroyValue(t, w)
         \/ \E src \in Wrappers : MoveConstruct(t, w, src) \/ MoveAssign(t, w, src)
    \/ WrapStep(t)
    \/ ThrowSteal(t) \/ ThrowRelease(t)

Spec == Init /\ [][Next]_vars

\* Threads go on with wrap().
Fairness == \A t \in Threads : WF_vars(WrapStep(t))

FairSpec == Spec /\ Fairness

-----------------------------------------------------------------------------
(* Properties. *)

(***************************************************************************)
(* Two wrappers never wrap the same GObject, even if several threads call  *)
(* wrap() for it before it has a wrapper: _set_current_wrapper() stores    *)
(* the wrapper "so that we never create a second wrapper for the same      *)
(* underlying instance".  The wrapper a GObject names exists and names     *)
(* that GObject: a later wrap() or destroy notification never meets a      *)
(* deleted or moved wrapper.                                               *)
(***************************************************************************)
SingleWrapper ==
  /\ \A w, x \in Wrappers : gobject[w] # NULL /\ gobject[w] = gobject[x] => w = x
  /\ \A o \in Objects :
       qdata[o] # NULL =>
         /\ wrapper[qdata[o]] \in {"constructing", "live"}
         /\ gobject[qdata[o]] = o

(***************************************************************************)
(* Whoever holds a RefPtr has a whole wrapper, all its constructors done,  *)
(* and a GObject that exists: "There should be no way to access the        *)
(* wrapper or the underlying object instance after" destroy_notify_().     *)
(* And a wrapper on the heap does not outlive its GObject:                 *)
(* destroy_notify_(), "the *only* place where we delete the C++ wrapper",  *)
(* is reached.                                                             *)
(***************************************************************************)
WrappersAlive ==
  \A w \in Wrappers :
    /\ refptrs[w] > 0 => wrapper[w] = "live"
    /\ refptrs[w] > 0 \/ (wrapper[w] = "live" /\ w \in HeapWrappers) =>
         gobject[w] # NULL /\ gobj[gobject[w]] = "live"

\* The wrapper w is a variable and has been constructed.
OwnsReference(w) == w \in Variables /\ wrapper[w] = "live"

\* The references RefPtrs and variables hold on o, numbered for each wrapper.
CppReferences(o) ==
  UNION {{w} \X (1..(refptrs[w] + (IF OwnsReference(w) THEN 1 ELSE 0))) :
           w \in {x \in Wrappers : gobject[x] = o}}

\* The threads in which a constructor has thrown that still has its reference on o.
Throwing(o) == {t \in Threads : call[t].pc \in {"threw", "release"} /\ call[t].obj = o}

(***************************************************************************)
(* Every reference on a GObject has exactly one owner: C code, a RefPtr, a *)
(* wrapper that is a variable or a constructor that throws, through moves, *)
(* copies and wrap(); the only ones nobody owns are those of calls of      *)
(* wrap() that met a wrapper half constructed, one for each.  No count     *)
(* becomes negative.                                                       *)
(***************************************************************************)
RefCountExact ==
  /\ TypeOK
  /\ \A o \in Objects :
       gobj[o] = "live" =>
         gref[o] = Cardinality(cHolders[o]) + Cardinality(CppReferences(o))
                   + Cardinality(Throwing(o)) + leaked[o]

(***************************************************************************)
(* wrap() hands out the wrapper: no call gives an empty RefPtr and loses a *)
(* reference because another thread is still constructing the wrapper,     *)
(* from which wrap_mutex is to protect.                                    *)
(***************************************************************************)
WrapProtected == \A o \in Objects : leaked[o] = 0

(***************************************************************************)
(* Every call of wrap() returns: nobody keeps wrap_mutex.                  *)
(***************************************************************************)
WrapReturns ==
  \A t \in Threads : call[t].pc = "lock" ~> call[t].pc = "idle"

=============================================================================
