----------------------------- MODULE Dispatcher -----------------------------
(***************************************************************************)
(* Glib::Dispatcher (glib/glibmm/dispatcher.cc): one receiver thread, its  *)
(* thread-specific DispatchNotifier with the pipe all its Dispatchers      *)
(* share, and the threads that emit.                                       *)
(*                                                                         *)
(* A Dispatcher is named by its Dispatcher::Impl; a message in the pipe is *)
(* the Impl it was sent to (DispatchNotifyData also carries the notifier,  *)
(* which is always the owner of the pipe).  The receiver's control state   *)
(* is the stack of running pipe_io_handler() calls: the source of the pipe *)
(* has can_recurse set, so a slot may run a nested main loop that calls    *)
(* pipe_io_handler() again.  Storage is never reused: an object that has   *)
(* been deleted stays "deleted", so that touching it can be stated.        *)
(*                                                                         *)
(* Rules of use that dispatcher.h imposes on the program are guards here:  *)
(* Dispatchers are created and deleted by the receiver, and a thread emits *)
(* only on a Dispatcher that outlives the call of emit().                  *)
(***************************************************************************)
EXTENDS Integers, Sequences, FiniteSets

CONSTANTS
  Impls,          \* Dispatcher::Impl objects the program may create
  Notifiers,      \* DispatchNotifier objects of the receiver thread
  Contexts,       \* main contexts passed to the constructor
  Receiver,       \* the receiver thread
  Senders,        \* the other threads
  NULL,           \* nullptr
  PipeCapacity,   \* messages the kernel's pipe buffer holds
  MaxDepth,       \* bound on nested main loops
  MaxEmits,       \* bound on the number of emit() calls
  MaxFaults,      \* bound on the number of failing write() calls
  ReceiverEmits,  \* does the receiver emit on its own Dispatchers?
  RecreateInSlot  \* may a slot create a Dispatcher after deleting the last one?

Threads == Senders \cup {Receiver}

ASSUME DispatcherAssumption ==
  /\ IsFiniteSet(Impls)
  /\ NULL \notin Impls \cup Notifiers \cup Contexts
  /\ Receiver \notin Senders
  /\ PipeCapacity \in Nat \ {0}
  /\ MaxDepth \in Nat \ {0}
  /\ MaxEmits \in Nat
  /\ MaxFaults \in Nat
  /\ ReceiverEmits \in BOOLEAN
  /\ RecreateInSlot \in BOOLEAN

VARIABLES
  instance,   \* thread_specific_instance_ of the receiver thread
  notifier,   \* Notifiers -> "unborn", "live" or "deleted"
  refCount,   \* ref_count_ of each notifier
  context,    \* context_ of each notifier
  pipe,       \* content of each notifier's pipe
  impl,       \* Impls -> "unborn", "live", "orphan", "deleted" or "leaked"
  notifierOf, \* notifier_ of each Impl
  slots,      \* does signal_ of the Impl have a connected slot?
  stack,      \* running pipe_io_handler() calls, innermost last
  sending,    \* the Impl whose emit() a thread is in
  budget      \* what is left of MaxEmits and MaxFaults

vars == <<instance, notifier, refCount, context, pipe, impl, notifierOf,
          slots, stack, sending, budget>>

notifierVars == <<instance, notifier, refCount, context>>
implVars == <<impl, notifierOf, slots>>

\* A call of pipe_io_handler(): this, the Impl of the message it has read,
\* and whether signal_() found slots to call.
Frame == [self : Notifiers, msg : Impls, inSlot : BOOLEAN]

ImplState == {"unborn", "live", "orphan", "deleted", "leaked"}

(***************************************************************************)
(* The variables have the types of the members they stand for, ref_count_  *)
(* never becomes negative and no pipe holds more than its capacity.        *)
(***************************************************************************)
TypeOK ==
  /\ instance \in Notifiers \cup {NULL}
  /\ notifier \in [Notifiers -> {"unborn", "live", "deleted"}]
  /\ refCount \in [Notifiers -> Nat]
  /\ context \in [Notifiers -> Contexts \cup {NULL}]
  /\ pipe \in [Notifiers -> Seq(Impls)]
  /\ \A n \in Notifiers : Len(pipe[n]) <= PipeCapacity
  /\ impl \in [Impls -> ImplState]
  /\ notifierOf \in [Impls -> Notifiers \cup {NULL}]
  /\ slots \in [Impls -> BOOLEAN]
  /\ stack \in Seq(Frame)
  /\ sending \in [Threads -> Impls \cup {NULL}]
  /\ budget \in [emits : Nat, faults : Nat]

Init ==
  /\ instance = NULL
  /\ notifier = [n \in Notifiers |-> "unborn"]
  /\ refCount = [n \in Notifiers |-> 0]
  /\ context = [n \in Notifiers |-> NULL]
  /\ pipe = [n \in Notifiers |-> <<>>]
  /\ impl = [d \in Impls |-> "unborn"]
  /\ notifierOf = [d \in Impls |-> NULL]
  /\ slots = [d \in Impls |-> FALSE]
  /\ stack = <<>>
  /\ sending = [t \in Threads |-> NULL]
  /\ budget = [emits |-> MaxEmits, faults |-> MaxFaults]

-----------------------------------------------------------------------------
(* What the actions share. *)

Top == stack[Len(stack)]

\* The receiver executes code of the program: outside of any handler, or in
\* a slot called by the innermost pipe_io_handler().
InUserCode ==
  /\ sending[Receiver] = NULL
  /\ stack # <<>> => Top.inSlot

\* orphaned_dispatcher_impl_ of a notifier.
Orphans(n) == {d \in Impls : impl[d] = "orphan" /\ notifierOf[d] = n}

\* The Dispatchers that hold a reference to the notifier.
Users(n) == {d \in Impls : impl[d] = "live" /\ notifierOf[d] = n}

\* pipe_is_empty(): g_poll() with timeout 0 finds nothing to read.
PipeIsEmpty(n) == pipe[n] = <<>>

\* The Impls of S are deleted, each with its signal_ and the slots in it.
Delete(S) ==
  /\ impl' = [d \in Impls |-> IF d \in S THEN "deleted" ELSE impl[d]]
  /\ slots' = [d \in Impls |-> slots[d] /\ d \notin S]

-----------------------------------------------------------------------------
(* Construction and destruction of a Dispatcher, by the receiver. *)

\* The slots that are still running belong to a notifier that is gone.
NotifierGoneInSlot == stack # <<>> /\ instance = NULL

\* First Dispatcher of the thread: reference_instance() creates the notifier,
\* its pipe and the source that watches the pipe.
CreateFirst(d, c) ==
  /\ InUserCode
  /\ impl[d] = "unborn"
  /\ instance = NULL
  /\ RecreateInSlot \/ ~NotifierGoneInSlot
  /\ \E n \in Notifiers :
       /\ notifier[n] = "unborn"
       /\ notifier' = [notifier EXCEPT ![n] = "live"]
       /\ context' = [context EXCEPT ![n] = c]
       /\ instance' = n
       /\ refCount' = [refCount EXCEPT ![n] = 1]
       /\ notifierOf' = [notifierOf EXCEPT ![d] = n]
  /\ impl' = [impl EXCEPT ![d] = "live"]
  /\ UNCHANGED <<pipe, slots, stack, sending, budget>>

\* Further Dispatchers share the notifier.  One that names another main
\* context is refused: its notifier_ is nullptr.
CreateNext(d, c) ==
  /\ InUserCode
  /\ impl[d] = "unborn"
  /\ instance # NULL
  /\ impl' = [impl EXCEPT ![d] = "live"]
  /\ \/ /\ context[instance] = c
        /\ refCount' = [refCount EXCEPT ![instance] = @ + 1]
        /\ notifierOf' = [notifierOf EXCEPT ![d] = instance]
     \/ /\ context[instance] # c
        /\ UNCHANGED <<refCount, notifierOf>>
  /\ UNCHANGED <<instance, notifier, context, pipe, slots, stack, sending, budget>>

\* Mutants: the Impl is freed whatever the pipe holds; an orphan keeps its
\* slots.
DisposeImplAlwaysFree(d) == Delete({d} \cup Orphans(instance))

DisposeImplKeepSlots(d) ==
  IF PipeIsEmpty(instance)
    THEN Delete({d} \cup Orphans(instance))
    ELSE /\ impl' = [impl EXCEPT ![d] = "orphan"]
         /\ UNCHANGED slots

\* First half of unreference_instance(): delete the Impl or orphan it.
DisposeImpl(d) ==
  IF PipeIsEmpty(instance)
    THEN Delete({d} \cup Orphans(instance))
    ELSE /\ impl' = [impl EXCEPT ![d] = "orphan"]
         /\ slots' = [slots EXCEPT ![d] = FALSE]

\* --instance->ref_count_; the mutant forgets it.
DropReferenceForgets == UNCHANGED refCount

DropReference == refCount' = [refCount EXCEPT ![instance] = @ - 1]

\* Does the decremented counter reach zero?
LastReference == refCount[instance] - 1 <= 0

\* delete thread_specific_instance_: the pipe is closed with what it holds, the
\* orphans are deleted with their list, and the slot of the I/O source dies
\* with the trackable notifier, so that the source is destroyed.  The mutant
\* leaves the pointer behind.
DeleteNotifierKeepsPointer ==
  /\ notifier' = [notifier EXCEPT ![instance] = "deleted"]
  /\ pipe' = [pipe EXCEPT ![instance] = <<>>]
  /\ UNCHANGED instance

DeleteNotifier ==
  /\ notifier' = [notifier EXCEPT ![instance] = "deleted"]
  /\ pipe' = [pipe EXCEPT ![instance] = <<>>]
  /\ instance' = NULL

\* ~Dispatcher() may be called: by the receiver, with no emit() under way, for
\* a Dispatcher that passes the sanity check.
MayDestroy(d) ==
  /\ InUserCode
  /\ impl[d] = "live"
  /\ \A t \in Threads : sending[t] # d
  /\ instance # NULL
  /\ notifierOf[d] = instance

\* ~Dispatcher() when other Dispatchers of the thread remain.
DestroyOne(d) ==
  /\ MayDestroy(d)
  /\ ~LastReference
  /\ DropReference
  /\ DisposeImpl(d)
  /\ UNCHANGED <<instance, notifier, context, pipe, notifierOf, stack, sending, budget>>

\* ~Dispatcher() of the last Dispatcher deletes the notifier too, and with it
\* the Impl if DisposeImpl has orphaned it.
DestroyLast(d) ==
  /\ MayDestroy(d)
  /\ LastReference
  /\ DropReference
  /\ Delete({d} \cup Orphans(instance))
  /\ DeleteNotifier
  /\ UNCHANGED <<context, notifierOf, stack, sending, budget>>

\* ~Dispatcher() of a refused Dispatcher fails the sanity check and leaks the
\* Impl.  With no instance the check compares nullptr with nullptr, passes, and
\* the next line dereferences nullptr: the program ends.
DestroyRefused(d) ==
  /\ InUserCode
  /\ impl[d] = "live"
  /\ notifierOf[d] = NULL
  /\ instance # NULL
  /\ impl' = [impl EXCEPT ![d] = "leaked"]
  /\ UNCHANGED <<notifierVars, pipe, notifierOf, slots, stack, sending, budget>>

-----------------------------------------------------------------------------
(* Connection of slots, by the receiver. *)

\* Dispatcher::connect().
Connect(d) ==
  /\ InUserCode
  /\ impl[d] = "live"
  /\ slots' = [slots EXCEPT ![d] = TRUE]
  /\ UNCHANGED <<notifierVars, pipe, impl, notifierOf, stack, sending, budget>>

\* sigc::connection::disconnect() on what connect() returned.
Disconnect(d) ==
  /\ InUserCode
  /\ slots[d]
  /\ slots' = [slots EXCEPT ![d] = FALSE]
  /\ UNCHANGED <<notifierVars, pipe, impl, notifierOf, stack, sending, budget>>

-----------------------------------------------------------------------------
(* Emission, by any thread. *)

\* emit() calls send_notification(), which reaches write().
EmitBegin(t, d) ==
  /\ sending[t] = NULL
  /\ t = Receiver => ReceiverEmits /\ InUserCode
  /\ impl[d] = "live"
  /\ notifierOf[d] # NULL
  /\ budget.emits > 0
  /\ budget' = [budget EXCEPT !.emits = @ - 1]
  /\ sending' = [sending EXCEPT ![t] = d]
  /\ UNCHANGED <<notifierVars, pipe, implVars, stack>>

\* The kernel finds room for the message.
PipeHasRoom(n) == Len(pipe[n]) < PipeCapacity

\* write() puts the message into the pipe in one piece, as soon as it fits;
\* until then the thread is blocked.  EINTR is retried.
Write(t) ==
  /\ sending[t] # NULL
  /\ PipeHasRoom(notifierOf[sending[t]])
  /\ pipe' = [pipe EXCEPT ![notifierOf[sending[t]]] = Append(@, sending[t])]
  /\ sending' = [sending EXCEPT ![t] = NULL]
  /\ UNCHANGED <<notifierVars, implVars, stack, budget>>

\* write() fails with another error: a warning, and the message is lost.
WriteFails(t) ==
  /\ sending[t] # NULL
  /\ budget.faults > 0
  /\ budget' = [budget EXCEPT !.faults = @ - 1]
  /\ sending' = [sending EXCEPT ![t] = NULL]
  /\ UNCHANGED <<notifierVars, pipe, implVars, stack>>

-----------------------------------------------------------------------------
(* The main loop of the receiver. *)

\* read() takes one message out of the pipe; the mutant leaves it there.
ReadMessagePeeks == UNCHANGED pipe

ReadMessage == pipe' = [pipe EXCEPT ![instance] = Tail(@)]

\* data.dispatcher_impl->signal_(); the mutant ignores the message.
EmitSignalNever(d) == UNCHANGED stack

EmitSignal(d) ==
  stack' = Append(stack, [self |-> instance, msg |-> d, inSlot |-> slots[d]])

\* The (possibly nested) main loop finds the pipe readable and calls
\* pipe_io_handler(), which reads one message and emits signal_.
Dispatch ==
  /\ InUserCode
  /\ Len(stack) < MaxDepth
  /\ instance # NULL
  /\ ~PipeIsEmpty(instance)
  /\ EmitSignal(Head(pipe[instance]))
  /\ ReadMessage
  /\ UNCHANGED <<notifierVars, implVars, sending, budget>>

\* The mutant never deletes the orphans.
ClearOrphansNever(n) == UNCHANGED <<impl, slots>>

\* Last lines of pipe_io_handler().
ClearOrphans(n) ==
  IF PipeIsEmpty(n) THEN Delete(Orphans(n)) ELSE UNCHANGED <<impl, slots>>

\* signal_() has returned or thrown.  The handler returns at once if there is
\* no notifier any more; otherwise it looks at the orphans of this.
Finish ==
  /\ stack # <<>>
  /\ sending[Receiver] = NULL
  /\ stack' = SubSeq(stack, 1, Len(stack) - 1)
  /\ IF instance = NULL THEN UNCHANGED <<impl, slots>> ELSE ClearOrphans(Top.self)
  /\ UNCHANGED <<notifierVars, pipe, notifierOf, sending, budget>>

-----------------------------------------------------------------------------

Next ==
  \/ \E d \in Impls, c \in Contexts : CreateFirst(d, c) \/ CreateNext(d, c)
  \/ \E d \in Impls : DestroyOne(d) \/ DestroyLast(d) \/ DestroyRefused(d)
  \/ \E d \in Impls : Connect(d) \/ Disconnect(d)
  \/ \E t \in Threads, d \in Impls : EmitBegin(t, d)
  \/ \E t \in Threads : Write(t) \/ WriteFails(t)
  \/ Dispatch
  \/ Finish

Spec == Init /\ [][Next]_vars

(***************************************************************************)
(* Fairness.  The program runs its main loop: outside of any handler a     *)
(* readable pipe is eventually dispatched, and slots return.  A thread in  *)
(* write() is eventually scheduled.  Nothing obliges a slot to run a       *)
(* nested main loop, nor a program to emit, create or delete anything.     *)
(***************************************************************************)
Fairness ==
  /\ WF_vars(Dispatch /\ stack = <<>>)
  /\ WF_vars(Finish)
  /\ \A t \in Threads : WF_vars(Write(t))

FairSpec == Spec /\ Fairness

-----------------------------------------------------------------------------
(* Safety. *)

(***************************************************************************)
(* A message in the pipe points to an Impl that still exists and belongs   *)
(* to the pipe's notifier, whatever the order of emissions, deletions and  *)
(* handlers: pipe_io_handler() never emits the signal_ of a freed Impl.    *)
(***************************************************************************)
MessagesAlive ==
  \A n \in Notifiers : \A i \in DOMAIN pipe[n] :
    /\ impl[pipe[n][i]] \in {"live", "orphan"}
    /\ notifierOf[pipe[n][i]] = n

(***************************************************************************)
(* A handler that finds a notifier after its slots have run is a call on   *)
(* that very notifier: the test of thread_specific_instance_ that guards   *)
(* the last lines of pipe_io_handler() keeps it from touching a deleted    *)
(* this.                                                                   *)
(***************************************************************************)
HandlersAlive ==
  instance # NULL => \A i \in DOMAIN stack : notifier[stack[i].self] = "live"

(***************************************************************************)
(* ref_count_ of the thread's notifier is the number of Dispatchers that   *)
(* use it, and without one there is no Dispatcher left that would, no      *)
(* orphan and no other notifier: nothing is leaked with the last           *)
(* Dispatcher and nothing is deleted too early.                            *)
(***************************************************************************)
RefCountExact ==
  \A n \in Notifiers :
    /\ notifier[n] = "live" <=> instance = n
    /\ refCount[n] = Cardinality(Users(n))
    /\ instance = n <=> Users(n) # {}
    /\ instance # n => Orphans(n) = {} /\ pipe[n] = <<>>

(***************************************************************************)
(* A thread in write() writes to an open pipe: its notifier exists until   *)
(* the call returns.                                                       *)
(***************************************************************************)
WritersAlive ==
  \A t \in Threads :
    sending[t] # NULL =>
      /\ impl[sending[t]] = "live"
      /\ notifierOf[sending[t]] \in Notifiers
      /\ notifier[notifierOf[sending[t]]] = "live"

(***************************************************************************)
(* No slot starts for a Dispatcher that the program has deleted, although  *)
(* messages to it may still be read ("Don't send messages to a deleted     *)
(* Dispatcher", NEWS 2.32.0).                                              *)
(***************************************************************************)
NoSlotAfterDelete ==
  [][\A d \in Impls :
       (Len(stack') > Len(stack) /\ stack'[Len(stack')].msg = d
          /\ stack'[Len(stack')].inSlot)
       => impl[d] = "live"]_vars

-----------------------------------------------------------------------------
(* Liveness. *)

InPipe(d) == \E n \in Notifiers : \E i \in DOMAIN pipe[n] : pipe[n][i] = d

(***************************************************************************)
(* A notification that is in the pipe reaches the signal of its Dispatcher *)
(* unless the program deletes the Dispatcher first.                        *)
(***************************************************************************)
Delivery ==
  \A d \in Impls :
    InPipe(d) ~> (impl[d] # "live" \/ \E i \in DOMAIN stack : stack[i].msg = d)

(***************************************************************************)
(* An orphaned Impl is deleted once the senders have stopped.              *)
(***************************************************************************)
OrphansReclaimed ==
  \A d \in Impls : (impl[d] = "orphan") ~> (impl[d] = "deleted")

(***************************************************************************)
(* emit() returns, even when the pipe was full, if the receiver does not   *)
(* itself block on its own pipe.                                           *)
(***************************************************************************)
EmitReturns ==
  \A t \in Threads : (sending[t] # NULL) ~> (sending[t] = NULL)

=============================================================================
