-------------------------- MODULE DispatcherProofs --------------------------
(***************************************************************************)
(* Proofs about Dispatcher for any number of Dispatchers, threads and      *)
(* messages and any depth of nested main loops.                            *)
(*                                                                         *)
(* TypeOK is not inductive: that ref_count_ stays a natural number rests   *)
(* on its being exact, and that messages point to existing Impls rests on  *)
(* a thread in write() keeping its Dispatcher.  IInv joins the four.       *)
(***************************************************************************)
EXTENDS Dispatcher, FiniteSetTheorems, TLAPS

\* An Impl that has not been constructed has no notifier.
UnbornUnbound == \A d \in Impls : impl[d] = "unborn" => notifierOf[d] = NULL

\* Only a Dispatcher that exists, or was leaked, has slots.
SlotsOfLive == \A d \in Impls : slots[d] => impl[d] \in {"live", "leaked"}

IInv ==
  /\ TypeOK
  /\ RefCountExact
  /\ MessagesAlive
  /\ WritersAlive
  /\ UnbornUnbound
  /\ SlotsOfLive

-----------------------------------------------------------------------------

\* The users of a notifier can be counted.
LEMMA UsersFinite ==
  \A n : IsFiniteSet(Users(n)) /\ Cardinality(Users(n)) \in Nat
  <1> TAKE n
  <1>1. IsFiniteSet(Users(n))
    BY DispatcherAssumption, FS_Subset, Users(n) \subseteq Impls DEF Users
  <1> QED  BY <1>1, FS_CardinalityType

\* The initial states satisfy the invariant.
LEMMA InitIInv == Init => IInv
  <1> SUFFICES ASSUME Init PROVE IInv
    OBVIOUS
  <1> USE DispatcherAssumption DEF Init
  <1>1. TypeOK
    BY DEF TypeOK, ImplState, Threads
  <1>2. RefCountExact
    <2> SUFFICES ASSUME NEW n \in Notifiers
                 PROVE  /\ notifier[n] = "live" <=> instance = n
                        /\ refCount[n] = Cardinality(Users(n))
                        /\ instance = n <=> Users(n) # {}
                        /\ instance # n => Orphans(n) = {} /\ pipe[n] = <<>>
      BY DEF RefCountExact
    <2>1. Users(n) = {} /\ Orphans(n) = {}
      BY DEF Users, Orphans
    <2> QED  BY <2>1, FS_EmptySet
  <1>3. MessagesAlive /\ WritersAlive /\ UnbornUnbound /\ SlotsOfLive
    BY DEF MessagesAlive, WritersAlive, UnbornUnbound, SlotsOfLive
  <1> QED  BY <1>1, <1>2, <1>3 DEF IInv

-----------------------------------------------------------------------------
(* What creating and deleting an Impl does to the users of the notifiers.  *)

\* The Impl d becomes a user of n.
LEMMA UserAdded ==
  ASSUME TypeOK, UnbornUnbound, NEW d \in Impls, impl[d] = "unborn",
         NEW n \in Notifiers,
         impl' = [impl EXCEPT ![d] = "live"],
         notifierOf' = [notifierOf EXCEPT ![d] = n]
  PROVE  /\ Users(n)' = Users(n) \cup {d}
         /\ Cardinality(Users(n)') = Cardinality(Users(n)) + 1
         /\ \A m \in Notifiers \ {n} : Users(m)' = Users(m)
         /\ \A m \in Notifiers : Orphans(m)' = Orphans(m)
  <1> USE DispatcherAssumption DEF TypeOK, UnbornUnbound, ImplState
  <1>1. Users(n)' = Users(n) \cup {d} /\ d \notin Users(n)
    BY DEF Users
  <1>2. \A m \in Notifiers \ {n} : Users(m)' = Users(m)
    BY DEF Users
  <1>3. \A m \in Notifiers : Orphans(m)' = Orphans(m)
    BY DEF Orphans
  <1>4. Cardinality(Users(n) \cup {d}) = Cardinality(Users(n)) + 1
    BY <1>1, UsersFinite, FS_AddElement
  <1> QED  BY <1>1, <1>2, <1>3, <1>4

\* The Impl d, a user of n, becomes something else, and of the others only
\* Impls that are not live change.
LEMMA UserRemoved ==
  ASSUME TypeOK, NEW d \in Impls, NEW n \in Notifiers,
         impl[d] = "live", notifierOf[d] = n,
         impl'[d] # "live", notifierOf' = notifierOf,
         \A e \in Impls \ {d} : (impl'[e] = "live") <=> (impl[e] = "live")
  PROVE  /\ Users(n)' = Users(n) \ {d}
         /\ Cardinality(Users(n)') = Cardinality(Users(n)) - 1
         /\ \A m \in Notifiers \ {n} : Users(m)' = Users(m)
  <1>1. Users(n)' = Users(n) \ {d} /\ d \in Users(n)
    BY DEF Users
  <1>2. \A m \in Notifiers \ {n} : Users(m)' = Users(m)
    BY DEF Users
  <1>3. Cardinality(Users(n) \ {d}) = Cardinality(Users(n)) - 1
    BY <1>1, UsersFinite, FS_RemoveElement
  <1> QED  BY <1>1, <1>2, <1>3

\* If neither impl nor notifierOf change, users and orphans do not.
LEMMA UsersUnchanged ==
  ASSUME UNCHANGED <<impl, notifierOf>>
  PROVE  \A m : Users(m)' = Users(m) /\ Orphans(m)' = Orphans(m)
  BY DEF Users, Orphans

-----------------------------------------------------------------------------
(* Each action preserves the invariant. *)

LEMMA CreateFirstIInv ==
  ASSUME IInv, NEW d \in Impls, NEW c \in Contexts, CreateFirst(d, c)
  PROVE  IInv'
  <1> USE DispatcherAssumption DEF IInv
  <1>0. PICK n \in Notifiers :
          /\ notifier[n] = "unborn"
          /\ notifier' = [notifier EXCEPT ![n] = "live"]
          /\ context' = [context EXCEPT ![n] = c]
          /\ instance' = n
          /\ refCount' = [refCount EXCEPT ![n] = 1]
          /\ notifierOf' = [notifierOf EXCEPT ![d] = n]
    BY DEF CreateFirst
  <1>a. /\ impl[d] = "unborn" /\ instance = NULL
        /\ impl' = [impl EXCEPT ![d] = "live"]
        /\ UNCHANGED <<pipe, slots, stack, sending, budget>>
    BY DEF CreateFirst
  <1>1. TypeOK'
    BY <1>0, <1>a DEF TypeOK, ImplState, Frame
  <1>2. RefCountExact'
    <2>1. Users(n) = {} /\ Orphans(n) = {} /\ pipe[n] = <<>>
      BY <1>a DEF RefCountExact
    <2>a. /\ Users(n)' = Users(n) \cup {d}
          /\ Cardinality(Users(n)') = Cardinality(Users(n)) + 1
          /\ \A m \in Notifiers \ {n} : Users(m)' = Users(m)
          /\ \A m \in Notifiers : Orphans(m)' = Orphans(m)
      BY <1>0, <1>a, UserAdded
    <2>2. Users(n)' = {d} /\ Cardinality(Users(n)') = 1
      BY <2>a, <2>1, FS_EmptySet
    <2>3. ASSUME NEW m \in Notifiers
          PROVE  /\ notifier'[m] = "live" <=> instance' = m
                 /\ refCount'[m] = Cardinality(Users(m)')
                 /\ instance' = m <=> Users(m)' # {}
                 /\ instance' # m => Orphans(m)' = {} /\ pipe'[m] = <<>>
      <3>1. CASE m = n
        BY <1>0, <2>a, <2>2, <3>1 DEF TypeOK
      <3>2. CASE m # n
        BY <1>0, <1>a, <2>a, <3>2 DEF TypeOK, RefCountExact
      <3> QED  BY <3>1, <3>2
    <2> QED  BY <2>3 DEF RefCountExact
  <1>3. MessagesAlive'
    BY <1>0, <1>a DEF MessagesAlive, TypeOK
  <1>4. WritersAlive'
    BY <1>0, <1>a DEF WritersAlive, TypeOK
  <1>5. UnbornUnbound' /\ SlotsOfLive'
    BY <1>0, <1>a DEF UnbornUnbound, SlotsOfLive, TypeOK
  <1> QED  BY <1>1, <1>2, <1>3, <1>4, <1>5

LEMMA CreateNextIInv ==
  ASSUME IInv, NEW d \in Impls, NEW c \in Contexts, CreateNext(d, c)
  PROVE  IInv'
  <1> USE DispatcherAssumption DEF IInv
  <1>0. PICK n \in Notifiers : n = instance
    BY DEF CreateNext, TypeOK
  <1>a. /\ impl[d] = "unborn"
        /\ impl' = [impl EXCEPT ![d] = "live"]
        /\ UNCHANGED <<instance, notifier, context, pipe, slots, stack, sending, budget>>
    BY DEF CreateNext
  <1>b. \/ /\ refCount' = [refCount EXCEPT ![n] = @ + 1]
           /\ notifierOf' = [notifierOf EXCEPT ![d] = n]
        \/ UNCHANGED <<refCount, notifierOf>>
    BY <1>0 DEF CreateNext
  <1>1. TypeOK'
    <2>1. refCount' \in [Notifiers -> Nat]
      BY <1>b DEF TypeOK
    <2>2. notifierOf' \in [Impls -> Notifiers \cup {NULL}]
      BY <1>b DEF TypeOK
    <2> QED  BY <1>a, <2>1, <2>2 DEF TypeOK, ImplState
  <1>2. RefCountExact'
    <2>1. CASE /\ refCount' = [refCount EXCEPT ![n] = @ + 1]
               /\ notifierOf' = [notifierOf EXCEPT ![d] = n]
      <3>1. /\ Users(n)' = Users(n) \cup {d}
            /\ Cardinality(Users(n)') = Cardinality(Users(n)) + 1
            /\ \A m \in Notifiers \ {n} : Users(m)' = Users(m)
            /\ \A m \in Notifiers : Orphans(m)' = Orphans(m)
        BY <1>a, <2>1, UserAdded
      <3>2. ASSUME NEW m \in Notifiers
            PROVE  /\ notifier'[m] = "live" <=> instance' = m
                   /\ refCount'[m] = Cardinality(Users(m)')
                   /\ instance' = m <=> Users(m)' # {}
                   /\ instance' # m => Orphans(m)' = {} /\ pipe'[m] = <<>>
        BY <1>0, <1>a, <2>1, <3>1 DEF TypeOK, RefCountExact
      <3> QED  BY <3>2 DEF RefCountExact
    <2>2. CASE UNCHANGED <<refCount, notifierOf>>
      <3>1. \A m \in Notifiers : Users(m)' = Users(m) /\ Orphans(m)' = Orphans(m)
        BY <1>a, <2>2 DEF Users, Orphans, UnbornUnbound, TypeOK, ImplState
      <3> QED  BY <1>a, <2>2, <3>1  DEF RefCountExact
    <2> QED  BY <1>b, <2>1, <2>2
  <1>3. MessagesAlive'
    BY <1>a, <1>b DEF MessagesAlive, TypeOK
  <1>4. WritersAlive'
    BY <1>a, <1>b DEF WritersAlive, TypeOK
  <1>5. UnbornUnbound' /\ SlotsOfLive'
    BY <1>a, <1>b DEF UnbornUnbound, SlotsOfLive, TypeOK
  <1> QED  BY <1>1, <1>2, <1>3, <1>4, <1>5

\* What ~Dispatcher() relies on: its own notifier is the thread's, and nobody
\* is in emit() for it.
LEMMA MayDestroyFacts ==
  ASSUME IInv, NEW d \in Impls, MayDestroy(d)
  PROVE  /\ instance \in Notifiers /\ notifierOf[d] = instance
         /\ impl[d] = "live" /\ \A t \in Threads : sending[t] # d
         /\ d \in Users(instance)
  BY DispatcherAssumption DEF IInv, TypeOK, MayDestroy, Users

\* A deletion by Delete(S), and what it leaves alone.
LEMMA DeleteFacts ==
  ASSUME TypeOK, NEW S \in SUBSET Impls, Delete(S)
  PROVE  /\ impl' \in [Impls -> ImplState] /\ slots' \in [Impls -> BOOLEAN]
         /\ \A d \in S : impl'[d] = "deleted" /\ ~slots'[d]
         /\ \A d \in Impls \ S : impl'[d] = impl[d] /\ slots'[d] = slots[d]
  BY DEF TypeOK, Delete, ImplState

\* The first half of unreference_instance() leaves the other users alone and
\* keeps every Impl that a message in the pipe still names.
LEMMA DisposeFacts ==
  ASSUME IInv, NEW d \in Impls, NEW n \in Notifiers, instance = n,
         impl[d] = "live", notifierOf[d] = n, DisposeImpl(d)
  PROVE  /\ impl' \in [Impls -> ImplState] /\ slots' \in [Impls -> BOOLEAN]
         /\ impl'[d] \in {"orphan", "deleted"} /\ ~slots'[d]
         /\ \A e \in Impls \ {d} :
              \/ impl'[e] = impl[e] /\ slots'[e] = slots[e]
              \/ e \in Orphans(n) /\ impl'[e] = "deleted" /\ ~slots'[e]
         /\ pipe[n] # <<>> => impl'[d] = "orphan"
         /\ pipe[n] # <<>> => \A e \in Impls \ {d} : impl'[e] = impl[e]
  <1>1. CASE PipeIsEmpty(n)
    <2>1. Delete({d} \cup Orphans(n)) /\ ({d} \cup Orphans(n)) \subseteq Impls
      BY <1>1 DEF DisposeImpl, Orphans
    <2> QED  BY <1>1, <2>1, DeleteFacts DEF IInv, PipeIsEmpty
  <1>2. CASE ~PipeIsEmpty(n)
    <2>1. /\ impl' = [impl EXCEPT ![d] = "orphan"]
          /\ slots' = [slots EXCEPT ![d] = FALSE]
      BY <1>2 DEF DisposeImpl
    <2>2. impl' \in [Impls -> ImplState] /\ slots' \in [Impls -> BOOLEAN]
      BY <2>1 DEF IInv, TypeOK, ImplState
    <2>3. impl'[d] = "orphan" /\ slots'[d] = FALSE
      BY <2>1 DEF IInv, TypeOK
    <2>4. \A e \in Impls \ {d} : impl'[e] = impl[e] /\ slots'[e] = slots[e]
      BY <2>1 DEF IInv, TypeOK
    <2> QED  BY <2>2, <2>3, <2>4
  <1> QED  BY <1>1, <1>2

LEMMA DestroyOneIInv ==
  ASSUME IInv, NEW d \in Impls, DestroyOne(d)
  PROVE  IInv'
  <1> USE DispatcherAssumption DEF IInv
  <1>0. PICK n \in Notifiers : n = instance
    BY MayDestroyFacts DEF DestroyOne
  <1>a. /\ notifierOf[d] = n /\ impl[d] = "live" /\ d \in Users(n)
        /\ \A t \in Threads : sending[t] # d
    BY <1>0, MayDestroyFacts DEF DestroyOne
  <1>b. /\ refCount' = [refCount EXCEPT ![n] = @ - 1]
        /\ UNCHANGED <<instance, notifier, context, pipe, notifierOf, stack, sending, budget>>
        /\ ~(refCount[n] - 1 <= 0)
    BY <1>0 DEF DestroyOne, DropReference, LastReference
  <1>c. /\ impl' \in [Impls -> ImplState] /\ slots' \in [Impls -> BOOLEAN]
        /\ impl'[d] \in {"orphan", "deleted"} /\ ~slots'[d]
        /\ \A e \in Impls \ {d} :
             \/ impl'[e] = impl[e] /\ slots'[e] = slots[e]
             \/ e \in Orphans(n) /\ impl'[e] = "deleted" /\ ~slots'[e]
        /\ pipe[n] # <<>> => impl'[d] = "orphan"
        /\ pipe[n] # <<>> => \A e \in Impls \ {d} : impl'[e] = impl[e]
    BY <1>0, <1>a, DisposeFacts DEF DestroyOne
  <1>1. TypeOK'
    <2>1. refCount' \in [Notifiers -> Nat]
      BY <1>b DEF TypeOK
    <2> QED  BY <1>b, <1>c, <2>1 DEF TypeOK
  <1>2. RefCountExact'
    <2>1. /\ Users(n)' = Users(n) \ {d}
          /\ Cardinality(Users(n)') = Cardinality(Users(n)) - 1
          /\ \A m \in Notifiers \ {n} : Users(m)' = Users(m)
      <3>1. impl'[d] # "live" /\ notifierOf' = notifierOf
        BY <1>b, <1>c
      <3>2. \A e \in Impls \ {d} : (impl'[e] = "live") <=> (impl[e] = "live")
        BY <1>c DEF Orphans
      <3> QED  BY <1>a, <3>1, <3>2, UserRemoved
    <2>2. \A m \in Notifiers \ {n} : Orphans(m)' \subseteq Orphans(m)
      BY <1>a, <1>b, <1>c DEF Orphans
    <2>3. Users(n)' # {} /\ refCount'[n] = Cardinality(Users(n)')
      <3>1. refCount'[n] = Cardinality(Users(n)') /\ refCount'[n] > 0
        BY <1>b, <2>1 DEF RefCountExact, TypeOK
      <3> QED  BY <3>1, FS_EmptySet
    <2>4. ASSUME NEW m \in Notifiers
          PROVE  /\ notifier'[m] = "live" <=> instance' = m
                 /\ refCount'[m] = Cardinality(Users(m)')
                 /\ instance' = m <=> Users(m)' # {}
                 /\ instance' # m => Orphans(m)' = {} /\ pipe'[m] = <<>>
      BY <1>0, <1>b, <2>1, <2>2, <2>3 DEF TypeOK, RefCountExact
    <2> QED  BY <2>4 DEF RefCountExact
  <1>3. MessagesAlive'
    <2> SUFFICES ASSUME NEW m \in Notifiers, NEW i \in DOMAIN pipe[m]
                 PROVE  /\ impl'[pipe[m][i]] \in {"live", "orphan"}
                        /\ notifierOf[pipe[m][i]] = m
      BY <1>b DEF MessagesAlive
    <2>1. pipe[m] # <<>> /\ m = n
      BY <1>0 DEF RefCountExact, TypeOK
    <2>2. pipe[m][i] \in Impls /\ impl[pipe[m][i]] \in {"live", "orphan"}
      BY DEF MessagesAlive, TypeOK
    <2> QED  BY <1>c, <2>1, <2>2 DEF MessagesAlive
  <1>4. WritersAlive'
    <2> SUFFICES ASSUME NEW t \in Threads, sending[t] # NULL
                 PROVE  /\ impl'[sending[t]] = "live"
                        /\ notifierOf[sending[t]] \in Notifiers
                        /\ notifier[notifierOf[sending[t]]] = "live"
      BY <1>b DEF WritersAlive
    <2>1. sending[t] \in Impls \ {d} /\ impl[sending[t]] = "live"
      BY <1>a DEF WritersAlive, TypeOK
    <2> QED  BY <1>c, <2>1 DEF WritersAlive, Orphans
  <1>5. UnbornUnbound' /\ SlotsOfLive'
    BY <1>a, <1>b, <1>c DEF UnbornUnbound, SlotsOfLive, Orphans
  <1> QED  BY <1>1, <1>2, <1>3, <1>4, <1>5

LEMMA DestroyLastIInv ==
  ASSUME IInv, NEW d \in Impls, DestroyLast(d)
  PROVE  IInv'
  <1> USE DispatcherAssumption DEF IInv
  <1>0. PICK n \in Notifiers : n = instance
    BY MayDestroyFacts DEF DestroyLast
  <1>a. /\ notifierOf[d] = n /\ impl[d] = "live" /\ d \in Users(n)
        /\ \A t \in Threads : sending[t] # d
    BY <1>0, MayDestroyFacts DEF DestroyLast
  <1>b. /\ refCount' = [refCount EXCEPT ![n] = @ - 1]
        /\ notifier' = [notifier EXCEPT ![n] = "deleted"]
        /\ pipe' = [pipe EXCEPT ![n] = <<>>]
        /\ instance' = NULL
        /\ UNCHANGED <<context, notifierOf, stack, sending, budget>>
        /\ refCount[n] - 1 <= 0
    BY <1>0 DEF DestroyLast, DropReference, LastReference, DeleteNotifier
  <1>c. /\ impl' \in [Impls -> ImplState] /\ slots' \in [Impls -> BOOLEAN]
        /\ \A e \in {d} \cup Orphans(n) : impl'[e] = "deleted" /\ ~slots'[e]
        /\ \A e \in Impls \ ({d} \cup Orphans(n)) :
             impl'[e] = impl[e] /\ slots'[e] = slots[e]
    <2>1. Delete({d} \cup Orphans(n)) /\ ({d} \cup Orphans(n)) \subseteq Impls
      BY <1>0 DEF DestroyLast, Orphans
    <2> QED  BY <2>1, DeleteFacts
  <1>d. Users(n) = {d} /\ refCount[n] = 1
    <2>1. Cardinality(Users(n) \ {d}) = refCount[n] - 1 /\ IsFiniteSet(Users(n) \ {d})
      BY <1>a, UsersFinite, FS_RemoveElement DEF RefCountExact
    <2>2. Cardinality(Users(n) \ {d}) \in Nat /\ refCount[n] \in Nat
      BY <2>1, FS_CardinalityType DEF TypeOK
    <2>3. Cardinality(Users(n) \ {d}) = 0
      BY <1>b, <2>1, <2>2
    <2> QED  BY <1>a, <2>1, <2>2, <2>3, FS_EmptySet
  <1>1. TypeOK'
    <2>1. refCount' \in [Notifiers -> Nat]
      BY <1>b, <1>d DEF TypeOK
    <2> QED  BY <1>b, <1>c, <2>1 DEF TypeOK
  <1>2. RefCountExact'
    <2>1. /\ Users(n)' = {}
          /\ Orphans(n)' = {}
          /\ \A m \in Notifiers \ {n} : Users(m)' = Users(m) /\ Orphans(m)' = Orphans(m)
      BY <1>a, <1>b, <1>c, <1>d DEF Users, Orphans
    <2>2. refCount'[n] = 0 /\ Cardinality(Users(n)') = 0
      BY <1>b, <1>d, <2>1, FS_EmptySet DEF TypeOK
    <2>3. ASSUME NEW m \in Notifiers
          PROVE  /\ notifier'[m] = "live" <=> instance' = m
                 /\ refCount'[m] = Cardinality(Users(m)')
                 /\ instance' = m <=> Users(m)' # {}
                 /\ instance' # m => Orphans(m)' = {} /\ pipe'[m] = <<>>
      BY ZenonT(40), <1>0, <1>b, <2>1, <2>2 DEF TypeOK, RefCountExact
    <2> QED  BY <2>3 DEF RefCountExact
  <1>3. MessagesAlive'
    <2>1. \A m \in Notifiers : pipe'[m] = <<>>
      BY <1>0, <1>b DEF RefCountExact, TypeOK
    <2> QED  BY <2>1 DEF MessagesAlive
  <1>4. WritersAlive'
    <2>1. \A t \in Threads : sending[t] = NULL
      <3> SUFFICES ASSUME NEW t \in Threads, sending[t] # NULL PROVE FALSE
        OBVIOUS
      <3>1. sending[t] \in Impls \ {d} /\ sending[t] \in Users(n)
        BY <1>0, <1>a DEF WritersAlive, TypeOK, RefCountExact, Users
      <3> QED  BY <1>d, <3>1
    <2> QED  BY <1>b, <2>1 DEF WritersAlive
  <1>5. UnbornUnbound' /\ SlotsOfLive'
    BY <1>a, <1>b, <1>c DEF UnbornUnbound, SlotsOfLive, Orphans
  <1> QED  BY <1>1, <1>2, <1>3, <1>4, <1>5

LEMMA DestroyRefusedIInv ==
  ASSUME IInv, NEW d \in Impls, DestroyRefused(d)
  PROVE  IInv'
  <1> USE DispatcherAssumption DEF IInv
  <1>a. /\ impl[d] = "live" /\ notifierOf[d] = NULL
        /\ impl' = [impl EXCEPT ![d] = "leaked"]
        /\ UNCHANGED <<instance, notifier, refCount, context, pipe, notifierOf,
                       slots, stack, sending, budget>>
    BY DEF DestroyRefused, notifierVars
  <1>1. TypeOK'
    BY <1>a DEF TypeOK, ImplState
  <1>2. RefCountExact'
    <2>1. \A m \in Notifiers : Users(m)' = Users(m) /\ Orphans(m)' = Orphans(m)
      BY <1>a DEF Users, Orphans, TypeOK
    <2> QED  BY <1>a, <2>1 DEF RefCountExact
  <1>3. MessagesAlive'
    BY <1>a DEF MessagesAlive, TypeOK
  <1>4. WritersAlive'
    BY <1>a DEF WritersAlive, TypeOK
  <1>5. UnbornUnbound' /\ SlotsOfLive'
    BY <1>a DEF UnbornUnbound, SlotsOfLive, TypeOK
  <1> QED  BY <1>1, <1>2, <1>3, <1>4, <1>5

LEMMA ConnectIInv ==
  ASSUME IInv, NEW d \in Impls, Connect(d) \/ Disconnect(d)
  PROVE  IInv'
  <1> USE DispatcherAssumption DEF IInv
  <1>a. UNCHANGED <<instance, notifier, refCount, context, pipe, impl, notifierOf,
                    stack, sending, budget>>
    BY DEF Connect, Disconnect, notifierVars
  <1>b. slots' \in [Impls -> BOOLEAN] /\ SlotsOfLive'
    BY <1>a DEF Connect, Disconnect, TypeOK, SlotsOfLive
  <1>1. TypeOK'
    BY <1>a, <1>b DEF TypeOK
  <1>2. RefCountExact'
    BY <1>a, UsersUnchanged DEF RefCountExact
  <1>3. MessagesAlive' /\ WritersAlive' /\ UnbornUnbound'
    BY <1>a DEF MessagesAlive, WritersAlive, UnbornUnbound
  <1> QED  BY <1>b, <1>1, <1>2, <1>3

LEMMA EmitBeginIInv ==
  ASSUME IInv, NEW t \in Threads, NEW d \in Impls, EmitBegin(t, d)
  PROVE  IInv'
  <1> USE DispatcherAssumption DEF IInv
  <1>a. /\ impl[d] = "live" /\ notifierOf[d] # NULL /\ budget.emits > 0
        /\ budget' = [budget EXCEPT !.emits = @ - 1]
        /\ sending' = [sending EXCEPT ![t] = d]
        /\ UNCHANGED <<instance, notifier, refCount, context, pipe, impl, notifierOf,
                       slots, stack>>
    BY DEF EmitBegin, notifierVars, implVars
  <1>1. TypeOK'
    <2>0. budget \in [emits : Nat, faults : Nat] /\ budget.emits - 1 \in Nat
      BY <1>a DEF TypeOK
    <2>1. budget' \in [emits : Nat, faults : Nat]
      BY ONLY <1>a, <2>0
    <2> QED  BY <1>a, <2>1 DEF TypeOK
  <1>2. RefCountExact'
    BY <1>a, UsersUnchanged DEF RefCountExact
  <1>3. MessagesAlive' /\ UnbornUnbound' /\ SlotsOfLive'
    BY <1>a DEF MessagesAlive, UnbornUnbound, SlotsOfLive
  <1>4. WritersAlive'
    <2>1. notifierOf[d] \in Notifiers /\ d \in Users(notifierOf[d])
      BY <1>a DEF TypeOK, Users
    <2>2. notifier[notifierOf[d]] = "live"
      BY <2>1 DEF RefCountExact
    <2> QED  BY <1>a, <2>1, <2>2 DEF WritersAlive, TypeOK
  <1> QED  BY <1>1, <1>2, <1>3, <1>4

\* write() appends to the pipe of a live notifier the Impl of a live Dispatcher.
LEMMA WriteIInv ==
  ASSUME IInv, NEW t \in Threads, Write(t)
  PROVE  IInv'
  <1> USE DispatcherAssumption DEF IInv
  <1>0. PICK d \in Impls : d = sending[t]
    BY DEF Write, TypeOK
  <1>1. PICK n \in Notifiers : n = notifierOf[d]
    BY <1>0 DEF Write, WritersAlive
  <1>a. /\ Len(pipe[n]) < PipeCapacity
        /\ pipe' = [pipe EXCEPT ![n] = Append(@, d)]
        /\ sending' = [sending EXCEPT ![t] = NULL]
        /\ UNCHANGED <<instance, notifier, refCount, context, impl, notifierOf,
                       slots, stack, budget>>
    BY <1>0, <1>1 DEF Write, PipeHasRoom, notifierVars, implVars
  <1>b. impl[d] = "live" /\ notifier[n] = "live" /\ instance = n
    BY <1>0, <1>1 DEF Write, WritersAlive, RefCountExact
  <1>c. /\ pipe' \in [Notifiers -> Seq(Impls)]
        /\ \A m \in Notifiers \ {n} : pipe'[m] = pipe[m]
        /\ pipe'[n] = Append(pipe[n], d)
    BY <1>a DEF TypeOK
  <1>2. TypeOK'
    <2>1. \A m \in Notifiers : Len(pipe'[m]) <= PipeCapacity
      BY <1>a, <1>c DEF TypeOK
    <2> QED  BY <1>a, <1>c, <2>1 DEF TypeOK
  <1>3. RefCountExact'
    BY <1>a, <1>b, <1>c, UsersUnchanged DEF RefCountExact
  <1>4. MessagesAlive'
    <2> SUFFICES ASSUME NEW m \in Notifiers, NEW i \in DOMAIN pipe'[m]
                 PROVE  /\ impl[pipe'[m][i]] \in {"live", "orphan"}
                        /\ notifierOf[pipe'[m][i]] = m
      BY <1>a DEF MessagesAlive
    <2>1. CASE m # n
      BY <1>c, <2>1 DEF MessagesAlive
    <2>2. CASE m = n
      <3>0. pipe[n] \in Seq(Impls)
        BY DEF TypeOK
      <3>1. pipe'[n][i] = d \/ (i \in DOMAIN pipe[n] /\ pipe'[n][i] = pipe[n][i])
        BY <1>c, <2>2, <3>0
      <3> QED  BY <1>1, <1>b, <2>2, <3>1 DEF MessagesAlive
    <2> QED  BY <2>1, <2>2
  <1>5. WritersAlive' /\ UnbornUnbound' /\ SlotsOfLive'
    BY <1>a DEF WritersAlive, UnbornUnbound, SlotsOfLive, TypeOK
  <1> QED  BY <1>2, <1>3, <1>4, <1>5

LEMMA WriteFailsIInv ==
  ASSUME IInv, NEW t \in Threads, WriteFails(t)
  PROVE  IInv'
  <1> USE DispatcherAssumption DEF IInv
  <1>a. /\ budget.faults > 0
        /\ budget' = [budget EXCEPT !.faults = @ - 1]
        /\ sending' = [sending EXCEPT ![t] = NULL]
        /\ UNCHANGED <<instance, notifier, refCount, context, pipe, impl, notifierOf,
                       slots, stack>>
    BY DEF WriteFails, notifierVars, implVars
  <1>1. TypeOK'
    <2>0. budget \in [emits : Nat, faults : Nat] /\ budget.faults - 1 \in Nat
      BY <1>a DEF TypeOK
    <2>1. budget' \in [emits : Nat, faults : Nat]
      BY ONLY <1>a, <2>0
    <2> QED  BY <1>a, <2>1 DEF TypeOK
  <1>2. RefCountExact'
    BY <1>a, UsersUnchanged DEF RefCountExact
  <1>3. MessagesAlive' /\ WritersAlive' /\ UnbornUnbound' /\ SlotsOfLive'
    BY <1>a DEF MessagesAlive, WritersAlive, UnbornUnbound, SlotsOfLive, TypeOK
  <1> QED  BY <1>1, <1>2, <1>3

\* read() takes the message at the head away, the others move up by one.
LEMMA DispatchIInv ==
  ASSUME IInv, Dispatch
  PROVE  IInv'
  <1> USE DispatcherAssumption DEF IInv
  <1>0. PICK n \in Notifiers : n = instance
    BY DEF Dispatch, TypeOK
  <1>1. pipe[n] \in Seq(Impls) /\ pipe[n] # <<>>
    BY <1>0 DEF Dispatch, PipeIsEmpty, TypeOK
  <1>a. /\ stack' = Append(stack, [self |-> n, msg |-> Head(pipe[n]),
                                   inSlot |-> slots[Head(pipe[n])]])
        /\ pipe' = [pipe EXCEPT ![n] = Tail(@)]
        /\ UNCHANGED <<instance, notifier, refCount, context, impl, notifierOf,
                       slots, sending, budget>>
    BY <1>0 DEF Dispatch, EmitSignal, ReadMessage, notifierVars, implVars
  <1>b. /\ pipe' \in [Notifiers -> Seq(Impls)]
        /\ \A m \in Notifiers \ {n} : pipe'[m] = pipe[m]
        /\ pipe'[n] = Tail(pipe[n])
    BY <1>1, <1>a DEF TypeOK
  <1>2. TypeOK'
    <2>1. Head(pipe[n]) \in Impls /\ slots[Head(pipe[n])] \in BOOLEAN
      BY <1>1 DEF TypeOK
    <2>2. stack' \in Seq(Frame)
      BY <1>a, <2>1 DEF TypeOK, Frame
    <2>a. Len(Tail(pipe[n])) = Len(pipe[n]) - 1 /\ Len(pipe[n]) \in Nat
      BY <1>1
    <2>b. \A m \in Notifiers : Len(pipe[m]) <= PipeCapacity
      BY DEF TypeOK
    <2>c. Len(pipe'[n]) <= PipeCapacity
      BY ONLY <1>b, <2>a, <2>b, DispatcherAssumption, n \in Notifiers
    <2>3. \A m \in Notifiers : Len(pipe'[m]) <= PipeCapacity
      BY ONLY <1>b, <2>b, <2>c
    <2> QED  BY <1>a, <1>b, <2>2, <2>3 DEF TypeOK
  <1>3. RefCountExact'
    BY <1>0, <1>a, <1>b, UsersUnchanged DEF RefCountExact
  <1>4. MessagesAlive'
    <2> SUFFICES ASSUME NEW m \in Notifiers, NEW i \in DOMAIN pipe'[m]
                 PROVE  /\ impl[pipe'[m][i]] \in {"live", "orphan"}
                        /\ notifierOf[pipe'[m][i]] = m
      BY <1>a DEF MessagesAlive
    <2>1. CASE m # n
      BY <1>b, <2>1 DEF MessagesAlive
    <2>2. CASE m = n
      <3>1. i + 1 \in DOMAIN pipe[n] /\ pipe'[n][i] = pipe[n][i + 1]
        BY <1>1, <1>b, <2>2
      <3> QED  BY <2>2, <3>1 DEF MessagesAlive
    <2> QED  BY <2>1, <2>2
  <1>5. WritersAlive' /\ UnbornUnbound' /\ SlotsOfLive'
    BY <1>a DEF WritersAlive, UnbornUnbound, SlotsOfLive
  <1> QED  BY <1>2, <1>3, <1>4, <1>5

\* Clearing the orphans of a notifier touches orphans only, and none of them
\* while the pipe holds a message.
LEMMA FinishIInv ==
  ASSUME IInv, Finish
  PROVE  IInv'
  <1> USE DispatcherAssumption DEF IInv
  <1>0. Len(stack) \in Nat \ {0} /\ Top \in Frame
    BY DEF Finish, Top, TypeOK
  <1>1. PICK n \in Notifiers : n = Top.self
    BY <1>0 DEF Frame
  <1>a. /\ stack' = SubSeq(stack, 1, Len(stack) - 1)
        /\ UNCHANGED <<instance, notifier, refCount, context, pipe, notifierOf,
                       sending, budget>>
    BY DEF Finish, notifierVars
  <1>b. /\ impl' \in [Impls -> ImplState] /\ slots' \in [Impls -> BOOLEAN]
        /\ \A e \in Impls :
             \/ impl'[e] = impl[e] /\ slots'[e] = slots[e]
             \/ pipe[n] = <<>> /\ e \in Orphans(n) /\ impl'[e] = "deleted" /\ ~slots'[e]
    <2>1. \/ UNCHANGED <<impl, slots>>
          \/ pipe[n] = <<>> /\ Delete(Orphans(n))
      BY <1>1 DEF Finish, ClearOrphans, PipeIsEmpty
    <2>2. CASE UNCHANGED <<impl, slots>>
      BY <2>2 DEF TypeOK
    <2>3. CASE pipe[n] = <<>> /\ Delete(Orphans(n))
      <3>1. Orphans(n) \subseteq Impls
        BY DEF Orphans
      <3> QED  BY <2>3, <3>1, DeleteFacts
    <2> QED  BY <2>1, <2>2, <2>3
  <1>2. TypeOK'
    <2>1. stack' \in Seq(Frame)
      BY <1>0, <1>a DEF TypeOK
    <2> QED  BY <1>a, <1>b, <2>1 DEF TypeOK
  <1>3. RefCountExact'
    <2>1. \A m \in Notifiers : Users(m)' = Users(m) /\ Orphans(m)' \subseteq Orphans(m)
      BY <1>a, <1>b DEF Users, Orphans
    <2> QED  BY <1>a, <2>1 DEF RefCountExact
  <1>4. MessagesAlive'
    <2> SUFFICES ASSUME NEW m \in Notifiers, NEW i \in DOMAIN pipe[m]
                 PROVE  /\ impl'[pipe[m][i]] \in {"live", "orphan"}
                        /\ notifierOf[pipe[m][i]] = m
      BY <1>a DEF MessagesAlive
    <2>1. /\ pipe[m] # <<>> /\ pipe[m][i] \in Impls
          /\ impl[pipe[m][i]] \in {"live", "orphan"} /\ notifierOf[pipe[m][i]] = m
      BY DEF MessagesAlive, TypeOK
    <2> QED  BY <1>b, <2>1 DEF Orphans
  <1>5. WritersAlive' /\ UnbornUnbound' /\ SlotsOfLive'
    <2>1. WritersAlive'
      BY <1>a, <1>b DEF WritersAlive, Orphans, TypeOK
    <2>2. UnbornUnbound' /\ SlotsOfLive'
      BY <1>a, <1>b DEF UnbornUnbound, SlotsOfLive, Orphans
    <2> QED  BY <2>1, <2>2
  <1> QED  BY <1>2, <1>3, <1>4, <1>5

-----------------------------------------------------------------------------

LEMMA NextIInv == IInv /\ [Next]_vars => IInv'
  <1> SUFFICES ASSUME IInv, [Next]_vars PROVE IInv'
    OBVIOUS
  <1>1. ASSUME NEW d \in Impls, NEW c \in Contexts, CreateFirst(d, c) \/ CreateNext(d, c)
        PROVE  IInv'
    BY <1>1, CreateFirstIInv, CreateNextIInv
  <1>2. ASSUME NEW d \in Impls, DestroyOne(d) \/ DestroyLast(d) \/ DestroyRefused(d)
        PROVE  IInv'
    BY <1>2, DestroyOneIInv, DestroyLastIInv, DestroyRefusedIInv
  <1>3. ASSUME NEW d \in Impls, Connect(d) \/ Disconnect(d)
        PROVE  IInv'
    BY <1>3, ConnectIInv
  <1>4. ASSUME NEW t \in Threads, NEW d \in Impls, EmitBegin(t, d)
        PROVE  IInv'
    BY <1>4, EmitBeginIInv
  <1>5. ASSUME NEW t \in Threads, Write(t) \/ WriteFails(t)
        PROVE  IInv'
    BY <1>5, WriteIInv, WriteFailsIInv
  <1>6. CASE Dispatch
    BY <1>6, DispatchIInv
  <1>7. CASE Finish
    BY <1>7, FinishIInv
  <1>8. CASE UNCHANGED vars
    <2>1. UNCHANGED <<instance, notifier, refCount, context, pipe, impl, notifierOf,
                      slots, stack, sending, budget>>
      BY <1>8 DEF vars
    <2>2. RefCountExact'
      BY <2>1, UsersUnchanged DEF IInv, RefCountExact
    <2> QED
      BY <2>1, <2>2 DEF IInv, TypeOK, MessagesAlive, WritersAlive, UnbornUnbound, SlotsOfLive
  <1> QED
    BY <1>1, <1>2, <1>3, <1>4, <1>5, <1>6, <1>7, <1>8 DEF Next

(***************************************************************************)
(* The invariant holds in every reachable state, whatever the numbers of   *)
(* Dispatchers, notifiers and threads and the capacity of the pipe.        *)
(***************************************************************************)
THEOREM Invariance == Spec => []IInv
  BY InitIInv, NextIInv, PTL DEF Spec

(***************************************************************************)
(* ref_count_ never becomes negative and no pipe is overfull.              *)
(***************************************************************************)
THEOREM TypeCorrect == Spec => []TypeOK
  <1>1. IInv => TypeOK
    BY DEF IInv
  <1> QED  BY <1>1, Invariance, PTL

(***************************************************************************)
(* pipe_io_handler() never reads a message to an Impl that was deleted.    *)
(***************************************************************************)
THEOREM NoDanglingMessage == Spec => []MessagesAlive
  <1>1. IInv => MessagesAlive
    BY DEF IInv
  <1> QED  BY <1>1, Invariance, PTL

(***************************************************************************)
(* ref_count_ counts the Dispatchers that use the notifier, and a thread   *)
(* in write() has an open pipe.                                            *)
(***************************************************************************)
THEOREM CountedReferences == Spec => [](RefCountExact /\ WritersAlive)
  <1>1. IInv => RefCountExact /\ WritersAlive
    BY DEF IInv
  <1> QED  BY <1>1, Invariance, PTL

(***************************************************************************)
(* Only the slots of a Dispatcher that exists are ever started: a frame is *)
(* pushed by Dispatch alone, for the message at the head of the pipe, and  *)
(* an orphan has no slots.                                                 *)
(***************************************************************************)
THEOREM DeletedDispatchersStaySilent == Spec => NoSlotAfterDelete
  <1> DEFINE Silent ==
        \A d \in Impls :
          (Len(stack') > Len(stack) /\ stack'[Len(stack')].msg = d
             /\ stack'[Len(stack')].inSlot)
          => impl[d] = "live"
  <1>1. IInv /\ [Next]_vars => [Silent]_vars
    <2> SUFFICES ASSUME IInv, Next, NEW d \in Impls,
                        Len(stack') > Len(stack),
                        stack'[Len(stack')].msg = d,
                        stack'[Len(stack')].inSlot
                 PROVE  impl[d] = "live"
      OBVIOUS
    <2> USE DispatcherAssumption
    <2>0. stack \in Seq(Frame) /\ Len(stack) \in Nat
      BY DEF IInv, TypeOK
    <2>1. CASE stack' = stack
      BY <2>0, <2>1
    <2>2. CASE Finish
      <3>1. Len(stack') < Len(stack)
        BY <2>0, <2>2 DEF Finish
      <3> QED  BY <2>0, <3>1
    <2>3. CASE Dispatch
      <3>0. PICK n \in Notifiers : n = instance
        BY <2>3 DEF Dispatch, IInv, TypeOK
      <3>1. pipe[n] \in Seq(Impls) /\ pipe[n] # <<>>
        BY <2>3, <3>0 DEF Dispatch, PipeIsEmpty, IInv, TypeOK
      <3>2. PICK h \in Impls : h = Head(pipe[n])
        BY <3>1
      <3>3. impl[h] \in {"live", "orphan"}
        <4>1. 1 \in DOMAIN pipe[n] /\ pipe[n][1] = h
          BY <3>1, <3>2
        <4> QED  BY <4>1 DEF IInv, MessagesAlive
      <3>4. stack' = Append(stack, [self |-> n, msg |-> h, inSlot |-> slots[h]])
        BY <2>3, <3>0, <3>2 DEF Dispatch, EmitSignal
      <3>5. h = d /\ slots[h]
        BY <2>0, <3>4
      <3> QED  BY <3>3, <3>5 DEF IInv, SlotsOfLive
    <2>4. stack' = stack \/ Finish \/ Dispatch
      BY DEF Next, CreateFirst, CreateNext, DestroyOne, DestroyLast, DestroyRefused,
             Connect, Disconnect, EmitBegin, Write, WriteFails
    <2> QED  BY <2>1, <2>2, <2>3, <2>4
  <1> QED  BY <1>1, Invariance, PTL DEF Spec, NoSlotAfterDelete

-----------------------------------------------------------------------------
(* A slot that deletes the last Dispatcher.                                *)

\* Every running handler is a call on the thread's notifier.
FramesOfInstance ==
  instance # NULL => \A i \in DOMAIN stack : stack[i].self = instance

LEMMA FramesStep ==
  ASSUME ~RecreateInSlot, IInv, FramesOfInstance, [Next]_vars
  PROVE  FramesOfInstance'
  <1> USE DispatcherAssumption
  <1>0. stack \in Seq(Frame) /\ Len(stack) \in Nat
    BY DEF IInv, TypeOK
  <1>1. CASE UNCHANGED <<instance, stack>>
    BY <1>1 DEF FramesOfInstance
  <1>2. CASE \E d \in Impls, c \in Contexts : CreateFirst(d, c)
    <2>1. stack' = <<>>
      BY <1>2 DEF CreateFirst, NotifierGoneInSlot
    <2> QED  BY <2>1 DEF FramesOfInstance
  <1>3. CASE \E d \in Impls : DestroyLast(d)
    BY <1>3 DEF DestroyLast, DeleteNotifier, FramesOfInstance
  <1>4. CASE Dispatch
    <2>1. PICK f : f.self = instance /\ stack' = Append(stack, f)
                   /\ instance' = instance /\ instance # NULL
      BY <1>4 DEF Dispatch, EmitSignal, notifierVars
    <2>2. \A i \in DOMAIN stack' :
            stack'[i] = f \/ (i \in DOMAIN stack /\ stack'[i] = stack[i])
      BY <1>0, <2>1
    <2> QED  BY <2>1, <2>2 DEF FramesOfInstance
  <1>5. CASE Finish
    <2>1. stack' = SubSeq(stack, 1, Len(stack) - 1) /\ instance' = instance
      BY <1>5 DEF Finish, notifierVars
    <2>2. \A i \in DOMAIN stack' : i \in DOMAIN stack /\ stack'[i] = stack[i]
      BY <1>0, <2>1
    <2> QED  BY <2>1, <2>2 DEF FramesOfInstance
  <1> QED
    BY <1>1, <1>2, <1>3, <1>4, <1>5
    DEF Next, vars, notifierVars, CreateNext, DestroyOne, DestroyRefused,
        Connect, Disconnect, EmitBegin, Write, WriteFails

(***************************************************************************)
(* A slot may delete the last Dispatcher of the thread ("Allow destroy     *)
(* during emit", NEWS): as long as it does not create another one, no      *)
(* handler, however deeply nested, touches a deleted notifier.             *)
(***************************************************************************)
THEOREM DestroyDuringEmit ==
  ASSUME ~RecreateInSlot
  PROVE  Spec => []HandlersAlive
  <1>1. Init => FramesOfInstance
    BY DEF Init, FramesOfInstance
  <1>2. IInv /\ FramesOfInstance /\ [Next]_vars => FramesOfInstance'
    BY FramesStep
  <1>3. IInv /\ FramesOfInstance => HandlersAlive
    BY DispatcherAssumption
    DEF IInv, RefCountExact, TypeOK, FramesOfInstance, HandlersAlive
  <1> QED  BY <1>1, <1>2, <1>3, Invariance, PTL DEF Spec

=============================================================================
