---------------------------- MODULE SignalProxy ----------------------------
(***************************************************************************)
(* Slots connected to signals and property notifications of a GObject      *)
(* (signalproxy.cc, signalproxy_connectionnode.cc, propertyproxy_base.cc), *)
(* and what happens to the exceptions they throw (exceptionhandler.cc).    *)
(*                                                                         *)
(* A SignalProxyConnectionNode holds a slot and is the data of a closure.  *)
(* It is deleted by the destroy notification of the closure, which comes   *)
(* when the handler has been disconnected and is not running.  An          *)
(* exception is caught by the callback, which hands it to the exception    *)
(* handlers of the thread, one after the other.  Slots and exception       *)
(* handlers are code of the program: they may connect and disconnect       *)
(* anything, emit signals and throw.                                       *)
(*                                                                         *)
(* GLib is external: the emission holds a reference on the object and on   *)
(* the closure that is running.                                            *)
(***************************************************************************)
EXTENDS Integers, Sequences, SequencesExt

CONSTANTS
  Nodes,              \* SignalProxyConnectionNodes
  PropertyNodes,      \* the PropertyProxyConnectionNodes among them
  Handlers,           \* slots passed to add_exception_handler()
  END,                \* the past-the-end iterator
  MaxDepth,           \* bound on the depth of the stack
  RemoveRunning,      \* may an exception handler be disconnected while it runs?
  PropertySlotsThrow  \* do slots connected to a property throw?

ASSUME SignalProxyAssumption ==
  /\ PropertyNodes \subseteq Nodes
  /\ END \notin Handlers
  /\ MaxDepth \in Nat
  /\ RemoveRunning \in BOOLEAN
  /\ PropertySlotsThrow \in BOOLEAN

VARIABLES
  object,      \* the GObject: "live" or "finalized"
  associated,  \* it has a C++ wrapper
  handler,     \* Nodes -> the GLib side: "none", "connected" or "disconnected"
  node,        \* Nodes -> "unborn", "live" or "deleted"
  objectPtr,   \* Nodes -> object_ is not nullptr
  slot,        \* Nodes -> slot_: "ready", "blocked" or "empty"
  list,        \* thread_specific_handler_list
  handlerSlot, \* Handlers -> "unused", "ready" or "empty"
  stack,       \* slots and calls of exception_handlers_invoke(), innermost last
  outcome      \* "running", "aborted" (g_error) or "escaped" into C code

nvars == <<handler, node, objectPtr, slot>>
hvars == <<list, handlerSlot>>
signalVars == <<object, associated, nvars, hvars, stack, outcome>>

Exceptions == {"error", "other"}   \* Glib::Error and anything else

SlotFrame == [kind : {"slot"}, node : Nodes]
InvokeFrame == [kind : {"invoke"}, at : Handlers \cup {END}, calling : BOOLEAN,
                exc : Exceptions, tried : SUBSET Handlers]

(***************************************************************************)
(* The variables have the types of what they stand for, and a call of      *)
(* exception_handlers_invoke() is on top of the slot that threw.           *)
(***************************************************************************)
SignalTypeOK ==
  /\ object \in {"live", "finalized"}
  /\ associated \in BOOLEAN
  /\ handler \in [Nodes -> {"none", "connected", "disconnected"}]
  /\ node \in [Nodes -> {"unborn", "live", "deleted"}]
  /\ objectPtr \in [Nodes -> BOOLEAN]
  /\ slot \in [Nodes -> {"ready", "blocked", "empty"}]
  /\ list \in Seq(Handlers)
  /\ handlerSlot \in [Handlers -> {"unused", "ready", "empty"}]
  /\ stack \in Seq(SlotFrame \cup InvokeFrame)
  /\ \A i \in DOMAIN stack :
       stack[i].kind = "invoke" => i > 1 /\ stack[i - 1].kind = "slot"
  /\ outcome \in {"running", "aborted", "escaped"}

SignalInit ==
  /\ object = "live"
  /\ associated = TRUE
  /\ handler = [n \in Nodes |-> "none"]
  /\ node = [n \in Nodes |-> "unborn"]
  /\ objectPtr = [n \in Nodes |-> FALSE]
  /\ slot = [n \in Nodes |-> "empty"]
  /\ list = <<>>
  /\ handlerSlot = [h \in Handlers |-> "unused"]
  /\ stack = <<>>
  /\ outcome = "running"

-----------------------------------------------------------------------------
(* What the actions share. *)

Top == stack[Len(stack)]

\* The slot that is running, or whose exception is being handled.
InSlot == outcome = "running" /\ stack # <<>> /\ Top.kind = "slot"
Invoking == outcome = "running" /\ stack # <<>> /\ Top.kind = "invoke"

\* Code of the program is running: outside of any emission, in a slot or in an
\* exception handler.
InUserCode ==
  /\ outcome = "running"
  /\ stack # <<>> => (Top.kind = "invoke" => Top.calling)

Running(n, frames) ==
  \E i \in DOMAIN frames : frames[i].kind = "slot" /\ frames[i].node = n

RunningHandler(h) ==
  \E i \in DOMAIN stack : stack[i].kind = "invoke" /\ stack[i].calling /\ stack[i].at = h

\* The nodes of S whose closures GLib can finalize.  The mutant does not care
\* whether they are running.
FinalizableNow(S, frames) == S

Finalizable(S, frames) == {n \in S : ~Running(n, frames)}

\* Slots of X have been disconnected, and destroy_notify_handler() is called for
\* the nodes of S.
DestroyNotifyHandler(S, X) ==
  /\ objectPtr' = [n \in Nodes |-> n \notin S \cup X /\ objectPtr[n]]
  /\ slot' = [n \in Nodes |-> IF n \in S \cup X THEN "empty" ELSE slot[n]]
  /\ node' = [n \in Nodes |-> IF n \in S THEN "deleted" ELSE node[n]]

\* GLib disconnects the handlers of S.
DisconnectHandlers(S) ==
  handler' = [n \in Nodes |-> IF n \in S THEN "disconnected" ELSE handler[n]]

Connected == {n \in Nodes : handler[n] = "connected"}

-----------------------------------------------------------------------------
(* Connection and disconnection. *)

\* connect_impl_(): a new node and a handler with the node as its data.
connect_impl_(n) ==
  /\ node[n] = "unborn"
  /\ node' = [node EXCEPT ![n] = "live"]
  /\ handler' = [handler EXCEPT ![n] = "connected"]
  /\ objectPtr' = [objectPtr EXCEPT ![n] = TRUE]
  /\ slot' = [slot EXCEPT ![n] = "ready"]

\* PropertyProxyConnectionNode::connect_changed().
connect_changed(n) == n \in PropertyNodes /\ connect_impl_(n)

\* SignalProxyNormal::connect(), through a wrapper.
Connect(n) ==
  /\ InUserCode
  /\ associated
  /\ n \notin PropertyNodes
  /\ connect_impl_(n)
  /\ UNCHANGED <<object, associated, hvars, stack, outcome>>

\* ObjectBase::connect_property_changed(), or signal_changed() of a proxy.
connect_property_changed(n) ==
  /\ InUserCode
  /\ associated
  /\ connect_changed(n)
  /\ UNCHANGED <<object, associated, hvars, stack, outcome>>

\* The program blocks or unblocks a connection.
Block(n) ==
  /\ InUserCode
  /\ slot[n] \in {"ready", "blocked"}
  /\ slot' = [slot EXCEPT ![n] = IF @ = "ready" THEN "blocked" ELSE "ready"]
  /\ UNCHANGED <<object, associated, handler, node, objectPtr, hvars, stack, outcome>>

\* The program disconnects a slot, or a trackable object of it dies: notify()
\* disconnects the handler if GLib has not done so before.
Disconnect(n) ==
  /\ InUserCode
  /\ slot[n] # "empty"
  /\ LET S == IF objectPtr[n] /\ handler[n] = "connected" THEN {n} ELSE {}
     IN DisconnectHandlers(S) /\ DestroyNotifyHandler(Finalizable(S, stack), {n})
  /\ UNCHANGED <<object, associated, hvars, stack, outcome>>

\* The object is disposed of while it is in use, which disconnects all handlers.
Dispose ==
  /\ InUserCode
  /\ object = "live"
  /\ Connected # {}
  /\ DisconnectHandlers(Connected)
  /\ DestroyNotifyHandler(Finalizable(Connected, stack), {})
  /\ UNCHANGED <<object, associated, hvars, stack, outcome>>

\* The wrapper is destroyed, and C code keeps the object.
Disassociate ==
  /\ InUserCode
  /\ associated
  /\ associated' = FALSE
  /\ UNCHANGED <<object, nvars, hvars, stack, outcome>>

\* The last reference is dropped.
Finalize ==
  /\ InUserCode
  /\ stack = <<>>
  /\ object = "live"
  /\ object' = "finalized"
  /\ associated' = FALSE
  /\ DisconnectHandlers(Connected)
  /\ DestroyNotifyHandler(Connected, {})
  /\ UNCHANGED <<hvars, stack, outcome>>

-----------------------------------------------------------------------------
(* Emission. *)

\* A signal is emitted and calls the slot of n: slot0_void_callback() does so if
\* the object has a wrapper, the callback of a property does not look.
Emit(n) ==
  /\ InUserCode
  /\ Len(stack) + 2 <= MaxDepth
  /\ handler[n] = "connected"
  /\ slot[n] = "ready"
  /\ n \notin PropertyNodes => associated
  /\ stack' = Append(stack, [kind |-> "slot", node |-> n])
  /\ UNCHANGED <<object, associated, nvars, hvars, outcome>>

\* The callback of n returns and frames are left: GLib drops its reference on the
\* closure.  The mutant forgets it.
ReturnForgets(n, frames) ==
  /\ stack' = frames
  /\ UNCHANGED nvars

Return(n, frames) ==
  /\ stack' = frames
  /\ DestroyNotifyHandler(Finalizable({m \in {n} : handler[m] = "disconnected"}, frames), {})
  /\ UNCHANGED handler

SlotReturns ==
  /\ InSlot
  /\ Return(Top.node, Front(stack))
  /\ UNCHANGED <<object, associated, hvars, outcome>>

\* The first handler of the list.
Begin == IF list = <<>> THEN END ELSE Head(list)

\* exception_handlers_invoke() is called.
Catch(e) ==
  Append(stack, [kind |-> "invoke", at |-> Begin, calling |-> FALSE,
                 exc |-> e, tried |-> {}])

\* A slot throws.  The callback of a property does not catch anything.
SlotThrows(e) ==
  /\ InSlot
  /\ IF Top.node \in PropertyNodes
       THEN /\ PropertySlotsThrow
            /\ outcome' = "escaped"
            /\ UNCHANGED stack
       ELSE /\ stack' = Catch(e)
            /\ UNCHANGED outcome
  /\ UNCHANGED <<object, associated, nvars, hvars>>

-----------------------------------------------------------------------------
(* Exception handlers. *)

AddExceptionHandler(h) ==
  /\ InUserCode
  /\ handlerSlot[h] = "unused"
  /\ handlerSlot' = [handlerSlot EXCEPT ![h] = "ready"]
  /\ list' = Append(list, h)
  /\ UNCHANGED <<object, associated, nvars, stack, outcome>>

\* The program disconnects a handler; its slot stays in the list.
RemoveExceptionHandler(h) ==
  /\ InUserCode
  /\ handlerSlot[h] = "ready"
  /\ RemoveRunning \/ ~RunningHandler(h)
  /\ handlerSlot' = [handlerSlot EXCEPT ![h] = "empty"]
  /\ UNCHANGED <<object, associated, nvars, list, stack, outcome>>

\* The element after h, and the mutant that goes two elements on.
After(h) ==
  LET rest == {i \in DOMAIN list : \E j \in DOMAIN list : j < i /\ list[j] = h}
  IN IF rest = {} THEN END ELSE list[CHOOSE i \in rest : \A j \in rest : i <= j]

NextSkips(h) == IF After(h) = END THEN END ELSE After(After(h))

NextSlot(h) == After(h)

SetTop(frame) == [stack EXCEPT ![Len(stack)] = frame]

\* Where the iterator points when h has been erased: at the next element, or (the
\* mutant) where it pointed before.
EraseKeeps(h) == h

Erase(h) == NextSlot(h)

\* A dead slot is erased.
SkipDead ==
  /\ Invoking /\ ~Top.calling /\ Top.at # END
  /\ handlerSlot[Top.at] = "empty"
  /\ stack' = SetTop([Top EXCEPT !.at = Erase(Top.at)])
  /\ list' = RemoveFirst(list, Top.at)
  /\ UNCHANGED <<object, associated, nvars, handlerSlot, outcome>>

\* A handler is called; it has handled or ignored the exception if it returns, and
\* the callback returns to GLib; if it throws, the next one is tried.
CallHandler ==
  /\ Invoking /\ ~Top.calling /\ Top.at # END
  /\ handlerSlot[Top.at] = "ready"
  /\ stack' = SetTop([Top EXCEPT !.calling = TRUE, !.tried = @ \cup {Top.at}])
  /\ UNCHANGED <<object, associated, nvars, hvars, outcome>>

HandlerReturns ==
  /\ Invoking /\ Top.calling
  /\ Return(stack[Len(stack) - 1].node, Front(Front(stack)))
  /\ UNCHANGED <<object, associated, hvars, outcome>>

HandlerThrows ==
  /\ Invoking /\ Top.calling
  /\ stack' = SetTop([Top EXCEPT !.calling = FALSE, !.at = NextSlot(Top.at)])
  /\ UNCHANGED <<object, associated, nvars, hvars, outcome>>

\* glibmm_unexpected_exception(): no handler is left.
Unexpected ==
  /\ Invoking /\ ~Top.calling /\ Top.at = END
  /\ IF Top.exc = "error"
       THEN /\ Return(stack[Len(stack) - 1].node, Front(Front(stack)))
            /\ UNCHANGED outcome
       ELSE /\ outcome' = "aborted"
            /\ UNCHANGED <<nvars, stack>>
  /\ UNCHANGED <<object, associated, hvars>>

-----------------------------------------------------------------------------

SignalNext ==
  \/ \E n \in Nodes : Connect(n) \/ connect_property_changed(n) \/ Block(n) \/ Disconnect(n) \/ Emit(n)
  \/ Dispose
  \/ Disassociate
  \/ Finalize
  \/ SlotReturns
  \/ \E e \in Exceptions : SlotThrows(e)
  \/ \E h \in Handlers : AddExceptionHandler(h) \/ RemoveExceptionHandler(h)
  \/ SkipDead
  \/ CallHandler
  \/ HandlerReturns
  \/ HandlerThrows
  \/ Unexpected

SignalSpec == SignalInit /\ [][SignalNext]_signalVars

\* Slots and exception handlers return or throw, however deeply nested and whatever
\* they emit before, and exception_handlers_invoke() goes on.
SignalFairness ==
  /\ \A d \in 1..MaxDepth :
       SF_signalVars(
         /\ Len(stack) = d
         /\ \/ SlotReturns \/ \E e \in Exceptions : SlotThrows(e)
            \/ HandlerReturns \/ HandlerThrows)
  /\ WF_signalVars(SkipDead \/ CallHandler \/ Unexpected)

SignalFairSpec == SignalSpec /\ SignalFairness

-----------------------------------------------------------------------------
(* Properties. *)

(***************************************************************************)
(* A node exists as long as it is needed and no longer.  That of a slot    *)
(* that is running, or whose exception is being handled, does, whatever    *)
(* the slot does to its own connection or its object; and one that exists  *)
(* has a live object and a handler that is connected or running:           *)
(* "destroy_notify_handler() will always be called".                       *)
(***************************************************************************)
NodesAlive ==
  /\ \A i \in DOMAIN stack : stack[i].kind = "slot" => node[stack[i].node] = "live"
  /\ \A n \in Nodes :
       node[n] = "live" =>
         object = "live" /\ (handler[n] = "connected" \/ Running(n, stack))

(***************************************************************************)
(* The iterator of every exception_handlers_invoke() under way is valid,   *)
(* though handlers are added, disconnected and erased by nested calls, and *)
(* every such call is above the slot that threw.                           *)
(***************************************************************************)
IteratorsValid ==
  /\ SignalTypeOK
  /\ \A i \in DOMAIN stack :
       stack[i].kind = "invoke" => stack[i].at \in ToSet(list) \cup {END}

(***************************************************************************)
(* "We now invoke each of the installed slots until the exception has been *)
(* handled": an exception is unexpected only after every handler that is   *)
(* installed has been tried.                                               *)
(***************************************************************************)
AllTried ==
  Invoking /\ Top.at = END =>
    \A h \in Handlers : handlerSlot[h] = "ready" => h \in Top.tried

(***************************************************************************)
(* A node whose slot or handler has been disconnected is deleted when the  *)
(* slot has returned, unless the program ends before.                      *)
(***************************************************************************)
NodesReclaimed ==
  \A n \in Nodes :
    (node[n] = "live" /\ handler[n] = "disconnected")
      ~> (node[n] = "deleted" \/ outcome # "running")

=============================================================================
