------------------------------- MODULE Source -------------------------------
(***************************************************************************)
(* Event sources (glib/glibmm/main.cc and gio/giomm/socketsource.cc):      *)
(* Glib::Source wrappers and the sources made by SignalTimeout,            *)
(* SignalIdle, SignalChildWatch and SignalSocket, the SourceConnectionNode *)
(* of each connected slot, the SourceCallbackData that ties a wrapper to   *)
(* its GSource, and their deletion.                                        *)
(*                                                                         *)
(* Three counters decide who is deleted when: ref_count of the GSource and *)
(* of its GSourceCallback (GLib), and keep_wrapper_ of the wrapper.  The   *)
(* operations that decrement them are split into the steps between which   *)
(* another thread may run; cont[t] is what thread t still has to do.       *)
(* connect_generic() and notify() read a pointer and use it later, with    *)
(* nothing that keeps other threads out in between; conn[t] is what they   *)
(* have read.                                                              *)
(*                                                                         *)
(* GLib itself is external: GSource and GSourceCallback are modelled by    *)
(* what main.cc relies on (g_source_destroy() takes the callback off an    *)
(* attached source, a dispatch holds references on both, the iteration     *)
(* over the sources holds one on the GSource only).                        *)
(***************************************************************************)
EXTENDS Integers, Sequences, FiniteSets

CONSTANTS
  Sources,          \* GSource objects, with their wrappers if they have one
  Nodes,            \* SourceConnectionNode objects
  Loop,             \* the thread that runs the main loop
  Others,           \* other threads
  NULL,             \* nullptr
  Kinds,            \* the kinds of source the program makes
  MaxDepth,         \* bound on nested dispatches
  ConnectRaces,     \* do threads disturb a connect() or disconnect() of another?
  ReconnectInSlot,  \* does a slot connect() another slot to its own source?
  ConnectDestroyed  \* does the program connect() to a destroyed source?

Threads == Others \cup {Loop}

\* A GSource of glibmm, one of GIOChannel or GSocket, each with a wrapper; those
\* of the Signal classes and of invoke() have none.
WrapperKinds == {"wrapped", "io", "socket_source"}
SignalKinds == {"signal", "child", "socket"}

ASSUME SourceAssumption ==
  /\ Kinds \subseteq WrapperKinds \cup SignalKinds \cup {"once", "invoke"}
  /\ Loop \notin Others
  /\ NULL \notin Sources \cup Nodes
  /\ MaxDepth \in Nat \ {0}
  /\ ConnectRaces \in BOOLEAN
  /\ ReconnectInSlot \in BOOLEAN
  /\ ConnectDestroyed \in BOOLEAN

VARIABLES
  kind,      \* Sources -> "none", or what made the source
  gsource,   \* the GSource: "unborn", "live" or "freed"
  gref,      \* its ref_count
  active,    \* not yet g_source_is_destroyed()
  attached,  \* it belongs to the main context
  callback,  \* source->callback_data and callback_funcs are set
  cbRef,     \* ref_count of the GSourceCallback
  data,      \* the user data: "none", "live" or "deleted"
  dataNode,  \* the node it holds, or is
  owns,      \* SourceCallbackData::wrapper is not nullptr
  wrapper,   \* the Glib::Source: "none", "live" or "deleted"
  refCount,  \* Source::ref_count_
  keep,      \* Source::keep_wrapper_
  holders,   \* threads that hold a RefPtr to the wrapper
  node,      \* Nodes -> "unborn", "live" or "deleted"
  nodeSrc,   \* SourceConnectionNode::source_
  connected, \* slot_ has not been invalidated
  stack,     \* dispatches under way in the loop, innermost last
  probe,     \* prepare_vfunc() or check_vfunc() under way in the loop
  conn,      \* Threads -> what connect_generic() or notify() has read, or NoConn
  cont       \* Threads -> steps still to be done, first one first

gvars == <<gsource, gref, active, attached, callback, cbRef>>
dvars == <<data, dataNode, owns>>
wvars == <<wrapper, refCount, keep, holders>>
nvars == <<node, nodeSrc, connected>>
lvars == <<stack, probe>>
vars == <<kind, gvars, dvars, wvars, nvars, lvars, conn, cont>>

Op == {"install", "attach", "destroy", "cbunref", "notify", "keep", "free",
       "gunref", "gfree"}
Frame == [src : Sources, node : Nodes \cup {NULL}]
Probe == [src : Sources, got : BOOLEAN]
NoProbe == [src |-> NULL, got |-> FALSE]
Conn == [src : Sources, node : Nodes \cup {NULL}, step : {"set_node", "install", "destroy"}]
NoConn == [src |-> NULL, node |-> NULL, step |-> "none"]

(***************************************************************************)
(* The variables have the types of what they stand for; no counter becomes *)
(* negative.                                                               *)
(***************************************************************************)
TypeOK ==
  /\ kind \in [Sources -> Kinds \cup {"none"}]
  /\ gsource \in [Sources -> {"unborn", "live", "freed"}]
  /\ gref \in [Sources -> Nat]
  /\ active \in [Sources -> BOOLEAN]
  /\ attached \in [Sources -> BOOLEAN]
  /\ callback \in [Sources -> BOOLEAN]
  /\ cbRef \in [Sources -> Nat]
  /\ data \in [Sources -> {"none", "live", "deleted"}]
  /\ dataNode \in [Sources -> Nodes \cup {NULL}]
  /\ owns \in [Sources -> BOOLEAN]
  /\ wrapper \in [Sources -> {"none", "live", "deleted"}]
  /\ refCount \in [Sources -> Nat]
  /\ keep \in [Sources -> Nat]
  /\ holders \in [Sources -> SUBSET Threads]
  /\ node \in [Nodes -> {"unborn", "live", "deleted"}]
  /\ nodeSrc \in [Nodes -> Sources \cup {NULL}]
  /\ connected \in [Nodes -> BOOLEAN]
  /\ stack \in Seq(Frame)
  /\ probe \in Probe \cup {NoProbe}
  /\ conn \in [Threads -> Conn \cup {NoConn}]
  /\ cont \in [Threads -> Seq([op : Op, src : Sources])]

Init ==
  /\ kind = [s \in Sources |-> "none"]
  /\ gsource = [s \in Sources |-> "unborn"]
  /\ gref = [s \in Sources |-> 0]
  /\ active = [s \in Sources |-> FALSE]
  /\ attached = [s \in Sources |-> FALSE]
  /\ callback = [s \in Sources |-> FALSE]
  /\ cbRef = [s \in Sources |-> 0]
  /\ data = [s \in Sources |-> "none"]
  /\ dataNode = [s \in Sources |-> NULL]
  /\ owns = [s \in Sources |-> FALSE]
  /\ wrapper = [s \in Sources |-> "none"]
  /\ refCount = [s \in Sources |-> 0]
  /\ keep = [s \in Sources |-> 0]
  /\ holders = [s \in Sources |-> {}]
  /\ node = [n \in Nodes |-> "unborn"]
  /\ nodeSrc = [n \in Nodes |-> NULL]
  /\ connected = [n \in Nodes |-> FALSE]
  /\ stack = <<>>
  /\ probe = NoProbe
  /\ conn = [t \in Threads |-> NoConn]
  /\ cont = [t \in Threads |-> <<>>]

-----------------------------------------------------------------------------
(* What the actions share. *)

\* Thread t executes code of the program: in the loop thread that is outside of
\* the main loop or in a slot.
InUserCode(t) == cont[t] = <<>> /\ conn[t] = NoConn /\ (t = Loop => probe = NoProbe)

\* Thread t is about to do op.
Doing(t, op) == cont[t] # <<>> /\ Head(cont[t]).op = op

Src(t) == Head(cont[t]).src

\* Thread t is doing something with s.
On(t, s) == cont[t] # <<>> /\ Src(t) = s

\* Nothing in glibmm keeps other threads from the source while connect() or a
\* disconnection uses what it has read.  What follows is the rule the program has
\* to obey instead: no other thread destroys, attaches, connects or drops s then,
\* and connect() and disconnect() wait until others have finished doing so.
Undisturbed(t, s) == ConnectRaces \/ \A u \in Threads \ {t} : conn[u].src # s
Alone(t, s) == Undisturbed(t, s) /\ (ConnectRaces \/ \A u \in Threads \ {t} : ~On(u, s))

\* ops on s, as a sequence of steps.
Steps(ops, s) == [i \in DOMAIN ops |-> [op |-> ops[i], src |-> s]]

\* Thread t has ops on s to do; it has done one step and has ops on the same
\* source to do before the rest.
Start(t, ops, s) == cont' = [cont EXCEPT ![t] = Steps(ops, s)]
Continue(t, ops) == cont' = [cont EXCEPT ![t] = Steps(ops, Src(t)) \o Tail(@)]

\* A new GSource with a callback.
NewGSource(s) ==
  /\ gsource' = [gsource EXCEPT ![s] = "live"]
  /\ gref' = [gref EXCEPT ![s] = 1]
  /\ active' = [active EXCEPT ![s] = TRUE]
  /\ callback' = [callback EXCEPT ![s] = TRUE]
  /\ cbRef' = [cbRef EXCEPT ![s] = 1]
  /\ UNCHANGED attached

-----------------------------------------------------------------------------
(* Glib::Source. *)

\* The initial value of keep_wrapper_; the mutant counts one owner only.
KeepWrapperOne == 1

KeepWrapper == 2

\* Source::Source(), with a new GSource or with one that is given to it.
NewWrapper(t, s, k) ==
  /\ InUserCode(t)
  /\ kind[s] = "none" /\ k \in Kinds
  /\ kind' = [kind EXCEPT ![s] = k]
  /\ NewGSource(s)
  /\ data' = [data EXCEPT ![s] = "live"]
  /\ owns' = [owns EXCEPT ![s] = TRUE]
  /\ wrapper' = [wrapper EXCEPT ![s] = "live"]
  /\ refCount' = [refCount EXCEPT ![s] = 1]
  /\ keep' = [keep EXCEPT ![s] = KeepWrapper]
  /\ holders' = [holders EXCEPT ![s] = {t}]
  /\ UNCHANGED <<dataNode, nvars, lvars, conn, cont>>

\* create() of IdleSource, TimeoutSource and of IOSource for a file descriptor.
Create(t, s) == NewWrapper(t, s, "wrapped")

\* IOSource::create() for a GIOChannel, SocketSource::create(): prepare and check
\* are those of the C library, the callback is called by its dispatch function.
CreateIO(t, s) == NewWrapper(t, s, "io")
CreateSocketSource(t, s) == NewWrapper(t, s, "socket_source")

\* The constructor of the derived class throws: ~Source() takes the wrapper out
\* of the callback data and drops the GSource.
CreateThrows(t, s) ==
  /\ InUserCode(t)
  /\ kind[s] = "none" /\ "wrapped" \in Kinds
  /\ kind' = [kind EXCEPT ![s] = "wrapped"]
  /\ NewGSource(s)
  /\ data' = [data EXCEPT ![s] = "live"]
  /\ wrapper' = [wrapper EXCEPT ![s] = "deleted"]
  /\ Start(t, <<"gunref">>, s)
  /\ UNCHANGED <<dataNode, owns, refCount, keep, holders, nvars, lvars, conn>>

\* reference(), for a RefPtr that is handed to thread u.
Reference(t, u, s) ==
  /\ InUserCode(t)
  /\ t \in holders[s]
  /\ u \notin holders[s]
  /\ refCount' = [refCount EXCEPT ![s] = @ + 1]
  /\ holders' = [holders EXCEPT ![s] = @ \cup {u}]
  /\ UNCHANGED <<kind, gvars, dvars, wrapper, keep, nvars, lvars, conn, cont>>

\* What the last unreference() goes on to do; the mutant forgets the GSource.
LastUnreferenceForgets == <<"keep">>

LastUnreference == <<"keep", "gunref">>

\* --ref_count_ == 0.
LastReference(s) == refCount[s] - 1 = 0

\* unreference().
Unreference(t, s) ==
  /\ InUserCode(t)
  /\ t \in holders[s]
  /\ Undisturbed(t, s)
  /\ refCount' = [refCount EXCEPT ![s] = @ - 1]
  /\ holders' = [holders EXCEPT ![s] = @ \ {t}]
  /\ IF LastReference(s) THEN Start(t, LastUnreference, s) ELSE UNCHANGED cont
  /\ UNCHANGED <<kind, gvars, dvars, wrapper, keep, nvars, lvars, conn>>

\* destroy_notify_callback2(): the second call deletes the wrapper.
KeepStep(t) ==
  /\ Doing(t, "keep")
  /\ keep' = [keep EXCEPT ![Src(t)] = @ - 1]
  /\ wrapper' = IF keep[Src(t)] = 1 THEN [wrapper EXCEPT ![Src(t)] = "deleted"] ELSE wrapper
  /\ Continue(t, <<>>)
  /\ UNCHANGED <<kind, gvars, dvars, refCount, holders, nvars, lvars, conn>>

\* attach().
Attach(t, s) ==
  /\ InUserCode(t)
  /\ t \in holders[s]
  /\ Undisturbed(t, s)
  /\ active[s] /\ ~attached[s]
  /\ attached' = [attached EXCEPT ![s] = TRUE]
  /\ gref' = [gref EXCEPT ![s] = @ + 1]
  /\ UNCHANGED <<kind, gsource, active, callback, cbRef, dvars, wvars, nvars, lvars, conn, cont>>

\* destroy().
Destroy(t, s) ==
  /\ InUserCode(t)
  /\ t \in holders[s]
  /\ Undisturbed(t, s)
  /\ Start(t, <<"destroy">>, s)
  /\ UNCHANGED <<kind, gvars, dvars, wvars, nvars, lvars, conn>>

\* glibmm_source_get_callback_data() finds the callback data.
GetCallbackData(s) == callback[s] /\ active[s]

\* Is the node's slot running?
Running(n) == \E i \in DOMAIN stack : stack[i].node = n

\* connect_generic(), called by a thread that holds the source; once the source
\* is attached only the loop thread may.  It makes the node and looks for the
\* callback data: set_node() is next if there are any, install() if not.
Connect(t, s, n) ==
  /\ InUserCode(t)
  /\ t \in holders[s]
  /\ attached[s] => t = Loop
  /\ Alone(t, s)
  /\ node[n] = "unborn"
  /\ \/ /\ GetCallbackData(s)
        /\ ReconnectInSlot \/ dataNode[s] = NULL \/ ~Running(dataNode[s])
        /\ conn' = [conn EXCEPT ![t] = [src |-> s, node |-> n, step |-> "set_node"]]
     \/ /\ ~GetCallbackData(s)
        /\ ConnectDestroyed
        /\ conn' = [conn EXCEPT ![t] = [src |-> s, node |-> n, step |-> "install"]]
  /\ node' = [node EXCEPT ![n] = "live"]
  /\ connected' = [connected EXCEPT ![n] = TRUE]
  /\ UNCHANGED <<kind, gvars, dvars, wvars, nodeSrc, lvars, cont>>

\* SourceCallbackData::set_node(), which deletes the node of the slot before.
SetNode(t) ==
  /\ conn[t].step = "set_node"
  /\ LET s == conn[t].src IN
     /\ dataNode' = [dataNode EXCEPT ![s] = conn[t].node]
     /\ node' = [n \in Nodes |-> IF n = dataNode[s] THEN "deleted" ELSE node[n]]
     /\ nodeSrc' = [n \in Nodes |-> IF n = dataNode[s] THEN NULL ELSE nodeSrc[n]]
  /\ conn' = [conn EXCEPT ![t].step = "install"]
  /\ UNCHANGED <<kind, gvars, data, owns, wvars, connected, lvars, cont>>

\* install() in connect_generic().
InstallNode(t) ==
  /\ conn[t].step = "install"
  /\ nodeSrc' = [nodeSrc EXCEPT ![conn[t].node] = conn[t].src]
  /\ conn' = [conn EXCEPT ![t] = NoConn]
  /\ UNCHANGED <<kind, gvars, dvars, wvars, node, connected, lvars, cont>>

-----------------------------------------------------------------------------
(* SignalTimeout, SignalIdle, SignalChildWatch, SignalIO and invoke(). *)

\* The order of the rest of connect(); the mutant installs the source last.
ConnectOrderLate == <<"attach", "install", "gunref">>

ConnectOrder == <<"install", "attach", "gunref">>

\* connect() in the loop thread, or connect_once() in any thread, creates the
\* node and the GSource; the node is the user data of its callback.  connect()
\* returns a connection, and a slot made in the loop thread may depend on a
\* trackable object; main.h forbids that for connect_once() in other threads.
ConnectSignal(t, s, n, k) ==
  /\ InUserCode(t)
  /\ k \in SignalKinds => t = Loop
  /\ kind[s] = "none" /\ k \in Kinds
  /\ node[n] = "unborn"
  /\ kind' = [kind EXCEPT ![s] = k]
  /\ NewGSource(s)
  /\ data' = [data EXCEPT ![s] = "live"]
  /\ dataNode' = [dataNode EXCEPT ![s] = n]
  /\ node' = [node EXCEPT ![n] = "live"]
  /\ connected' = [connected EXCEPT ![n] = t = Loop]
  /\ Start(t, ConnectOrder, s)
  /\ UNCHANGED <<owns, wvars, nodeSrc, lvars, conn>>

\* SignalChildWatch::connect().
ConnectChildWatch(s, n) == ConnectSignal(Loop, s, n, "child")

\* SignalSocket::connect().
ConnectSocket(s, n) == ConnectSignal(Loop, s, n, "socket")

\* SignalIO::connect(): the only RefPtr of the IOSource goes when it returns, and
\* the callback data keeps the wrapper.
ConnectIO(s, n) ==
  /\ InUserCode(Loop)
  /\ kind[s] = "none"
  /\ node[n] = "unborn"
  /\ \E k \in Kinds \cap {"wrapped", "io"} : kind' = [kind EXCEPT ![s] = k]
  /\ gsource' = [gsource EXCEPT ![s] = "live"]
  /\ gref' = [gref EXCEPT ![s] = 2]
  /\ active' = [active EXCEPT ![s] = TRUE]
  /\ attached' = [attached EXCEPT ![s] = TRUE]
  /\ callback' = [callback EXCEPT ![s] = TRUE]
  /\ cbRef' = [cbRef EXCEPT ![s] = 1]
  /\ data' = [data EXCEPT ![s] = "live"]
  /\ owns' = [owns EXCEPT ![s] = TRUE]
  /\ wrapper' = [wrapper EXCEPT ![s] = "live"]
  /\ keep' = [keep EXCEPT ![s] = KeepWrapper]
  /\ dataNode' = [dataNode EXCEPT ![s] = n]
  /\ node' = [node EXCEPT ![n] = "live"]
  /\ nodeSrc' = [nodeSrc EXCEPT ![n] = s]
  /\ connected' = [connected EXCEPT ![n] = TRUE]
  /\ Start(Loop, LastUnreference, s)
  /\ UNCHANGED <<refCount, holders, lvars, conn>>

\* MainContext::invoke() in another thread than the loop's: a copy of the slot is
\* the user data of an idle source; in the loop thread it is called at once.
Invoke(t, s, n) ==
  /\ InUserCode(t)
  /\ t # Loop
  /\ kind[s] = "none" /\ "invoke" \in Kinds
  /\ node[n] = "unborn"
  /\ kind' = [kind EXCEPT ![s] = "invoke"]
  /\ NewGSource(s)
  /\ data' = [data EXCEPT ![s] = "live"]
  /\ dataNode' = [dataNode EXCEPT ![s] = n]
  /\ node' = [node EXCEPT ![n] = "live"]
  /\ Start(t, <<"attach", "gunref">>, s)
  /\ UNCHANGED <<owns, wvars, nodeSrc, connected, lvars, conn>>

\* SourceConnectionNode::install().
Install(t) ==
  /\ Doing(t, "install")
  /\ nodeSrc' = [nodeSrc EXCEPT ![dataNode[Src(t)]] = Src(t)]
  /\ Continue(t, <<>>)
  /\ UNCHANGED <<kind, gvars, dvars, wvars, node, connected, lvars, conn>>

\* g_source_attach() in connect().
AttachSignal(t) ==
  /\ Doing(t, "attach")
  /\ attached' = [attached EXCEPT ![Src(t)] = TRUE]
  /\ gref' = [gref EXCEPT ![Src(t)] = @ + 1]
  /\ Continue(t, <<>>)
  /\ UNCHANGED <<kind, gsource, active, callback, cbRef, dvars, wvars, nvars, lvars, conn>>

-----------------------------------------------------------------------------
(* Disconnection and deletion. *)

\* SourceConnectionNode::notify(), when the program disconnects the slot in the
\* loop thread or a trackable object of the slot dies; the GSource it reads is
\* destroyed in the next step.
Disconnect(n) ==
  /\ InUserCode(Loop)
  /\ node[n] = "live" /\ connected[n]
  /\ connected' = [connected EXCEPT ![n] = FALSE]
  /\ nodeSrc' = [nodeSrc EXCEPT ![n] = NULL]
  /\ \/ /\ nodeSrc[n] # NULL
        /\ Alone(Loop, nodeSrc[n])
        /\ conn' = [conn EXCEPT ![Loop] = [src |-> nodeSrc[n], node |-> NULL, step |-> "destroy"]]
        /\ Start(Loop, <<"destroy">>, nodeSrc[n])
     \/ nodeSrc[n] = NULL /\ UNCHANGED <<conn, cont>>
  /\ UNCHANGED <<kind, gvars, dvars, wvars, node, lvars>>

\* g_source_destroy(): an attached source loses its callback and the reference
\* of the context; another one is only marked.
DestroyStep(t) ==
  /\ Doing(t, "destroy")
  /\ LET s == Src(t) IN
     /\ active' = [active EXCEPT ![s] = FALSE]
     /\ IF attached[s] /\ active[s]
          THEN /\ callback' = [callback EXCEPT ![s] = FALSE]
               /\ Continue(t, <<"cbunref", "gunref">>)
          ELSE /\ UNCHANGED callback
               /\ Continue(t, <<>>)
  /\ conn' = [conn EXCEPT ![t] = NoConn]
  /\ UNCHANGED <<kind, gsource, gref, attached, cbRef, dvars, wvars, nvars, lvars>>

\* The GSourceCallback is unreferenced; with the last reference the destroy
\* notification runs.
CbUnref(t) ==
  /\ Doing(t, "cbunref")
  /\ cbRef' = [cbRef EXCEPT ![Src(t)] = @ - 1]
  /\ Continue(t, IF cbRef[Src(t)] = 1 THEN <<"notify">> ELSE <<>>)
  /\ UNCHANGED <<kind, gsource, gref, active, attached, callback, dvars, wvars, nvars, lvars, conn>>

\* SourceConnectionNode::destroy_notify_callback(), and the mutant that does not
\* delete the node.
DeleteNodeForgets(s) == UNCHANGED <<node, nodeSrc>>

DeleteNode(s) ==
  /\ node' = [n \in Nodes |-> IF n = dataNode[s] THEN "deleted" ELSE node[n]]
  /\ nodeSrc' = [n \in Nodes |-> IF n = dataNode[s] THEN NULL ELSE nodeSrc[n]]

\* What follows the deletion of the node; the mutant forgets the wrapper.
AfterNodeForgets(s) == <<"free">>

AfterNode(s) == IF owns[s] THEN <<"keep", "free">> ELSE <<"free">>

\* glibmm_source_destroy_notify_callback() of a source without wrapper, and
\* SourceCallbackData::destroy_notify_callback(): the node goes first, then the
\* wrapper if it is there, then the callback data.
Notify(t) ==
  /\ Doing(t, "notify")
  /\ DeleteNode(Src(t))
  /\ Continue(t, AfterNode(Src(t)))
  /\ UNCHANGED <<kind, gvars, dvars, wvars, connected, lvars, conn>>

FreeData(t) ==
  /\ Doing(t, "free")
  /\ data' = [data EXCEPT ![Src(t)] = "deleted"]
  /\ dataNode' = [dataNode EXCEPT ![Src(t)] = NULL]
  /\ Continue(t, <<>>)
  /\ UNCHANGED <<kind, gvars, owns, wvars, nvars, lvars, conn>>

\* g_source_unref(): the last reference drops the callback, if it is still
\* there, and frees the GSource.
GUnref(t) ==
  /\ Doing(t, "gunref")
  /\ LET s == Src(t) IN
     /\ gref' = [gref EXCEPT ![s] = @ - 1]
     /\ callback' = [callback EXCEPT ![s] = @ /\ gref[s] # 1]
     /\ Continue(t, IF gref[s] # 1 THEN <<>>
                    ELSE IF callback[s] THEN <<"cbunref", "gfree">> ELSE <<"gfree">>)
  /\ UNCHANGED <<kind, gsource, active, attached, cbRef, dvars, wvars, nvars, lvars, conn>>

GFree(t) ==
  /\ Doing(t, "gfree")
  /\ gsource' = [gsource EXCEPT ![Src(t)] = "freed"]
  /\ Continue(t, <<>>)
  /\ UNCHANGED <<kind, gref, active, attached, callback, cbRef, dvars, wvars, nvars, lvars, conn>>

-----------------------------------------------------------------------------
(* The main loop. *)

\* The context calls prepare or check of one of its sources; it holds a reference
\* on the GSource but none on the callback.
ProbeCall(s) ==
  /\ InUserCode(Loop)
  /\ kind[s] = "wrapped"
  /\ attached[s] /\ active[s]
  /\ gref' = [gref EXCEPT ![s] = @ + 1]
  /\ probe' = [src |-> s, got |-> FALSE]
  /\ UNCHANGED <<kind, gsource, active, attached, callback, cbRef, dvars, wvars, nvars, stack, conn, cont>>

\* get_wrapper() finds the callback data.
ProbeGet ==
  /\ probe # NoProbe /\ ~probe.got
  /\ cont[Loop] = <<>>
  /\ GetCallbackData(probe.src)
  /\ probe' = [probe EXCEPT !.got = TRUE]
  /\ UNCHANGED <<kind, gvars, dvars, wvars, nvars, stack, conn, cont>>

\* prepare_vfunc() or check_vfunc() returns, after calling the virtual function
\* of the wrapper if there was one.
ProbeReturn ==
  /\ probe # NoProbe
  /\ cont[Loop] = <<>>
  /\ probe.got \/ ~GetCallbackData(probe.src)
  /\ probe' = NoProbe
  /\ Start(Loop, <<"gunref">>, probe.src)
  /\ UNCHANGED <<kind, gvars, dvars, wvars, nvars, stack, conn>>

\* The context dispatches a source that is ready, with references on the GSource
\* and on its callback; a source that is being dispatched is blocked.
DispatchBegin(s) ==
  /\ InUserCode(Loop)
  /\ Len(stack) < MaxDepth
  /\ attached[s] /\ GetCallbackData(s)
  /\ \A i \in DOMAIN stack : stack[i].src # s
  /\ gref' = [gref EXCEPT ![s] = @ + 1]
  /\ cbRef' = [cbRef EXCEPT ![s] = @ + 1]
  /\ stack' = Append(stack, [src |-> s, node |-> dataNode[s]])
  /\ UNCHANGED <<kind, gsource, active, attached, callback, dvars, wvars, nvars, probe, conn, cont>>

\* glibmm_source_callback(), glibmm_iosource_callback() and the dispatch() of the
\* wrappers return what the slot does, or 0 if they find no node;
\* glibmm_source_callback_once() returns 0 and a child watch is dispatched once.
SourceCallback(f) == kind[f.src] \in {"signal", "wrapped", "io"} /\ f.node # NULL

\* giomm_generic_socket_callback().
SocketCallback(f) == kind[f.src] \in {"socket", "socket_source"} /\ f.node # NULL

\* glibmm_main_context_invoke_callback().
InvokeCallback(f) == kind[f.src] = "invoke"

\* May the callback return TRUE?
MayReturnTrue(f) == SourceCallback(f) \/ SocketCallback(f) \/ InvokeCallback(f)

\* The callback returns, with 0 if the slot throws, and with 0 the source is
\* destroyed.
DispatchEnd(again) ==
  /\ stack # <<>>
  /\ InUserCode(Loop)
  /\ LET top == stack[Len(stack)] IN
     /\ again => MayReturnTrue(top)
     /\ Start(Loop, IF again THEN <<"cbunref", "gunref">>
                             ELSE <<"cbunref", "destroy", "gunref">>, top.src)
  /\ stack' = SubSeq(stack, 1, Len(stack) - 1)
  /\ UNCHANGED <<kind, gvars, dvars, wvars, nvars, probe, conn>>

-----------------------------------------------------------------------------

Step(t) ==
  \/ Install(t) \/ AttachSignal(t) \/ DestroyStep(t) \/ CbUnref(t) \/ Notify(t)
  \/ KeepStep(t) \/ FreeData(t) \/ GUnref(t) \/ GFree(t)
  \/ SetNode(t) \/ InstallNode(t)

LoopStep ==
  \/ \E s \in Sources : ProbeCall(s) \/ DispatchBegin(s)
  \/ ProbeGet
  \/ ProbeReturn
  \/ \E again \in BOOLEAN : DispatchEnd(again)

Next ==
  \/ \E t \in Threads, s \in Sources :
       Create(t, s) \/ CreateIO(t, s) \/ CreateSocketSource(t, s) \/ CreateThrows(t, s)
          \/ Unreference(t, s) \/ Attach(t, s) \/ Destroy(t, s)
  \/ \E t, u \in Threads, s \in Sources : Reference(t, u, s)
  \/ \E t \in Threads, s \in Sources, n \in Nodes : Connect(t, s, n)
  \/ \E t \in Threads, s \in Sources, n \in Nodes, k \in {"signal", "once"} :
       ConnectSignal(t, s, n, k)
  \/ \E s \in Sources, n \in Nodes : ConnectChildWatch(s, n) \/ ConnectSocket(s, n) \/ ConnectIO(s, n)
  \/ \E t \in Threads, s \in Sources, n \in Nodes : Invoke(t, s, n)
  \/ \E n \in Nodes : Disconnect(n)
  \/ \E t \in Threads : Step(t)
  \/ LoopStep

Spec == Init /\ [][Next]_vars

-----------------------------------------------------------------------------
(* Safety. *)

(***************************************************************************)
(* While a source is dispatched, its GSource, its callback data, its node  *)
(* and, if it has one, its wrapper exist, whatever the slot or the other   *)
(* threads do: disconnect, destroy(), dropping the last RefPtr.            *)
(***************************************************************************)
DispatchAlive ==
  \A i \in DOMAIN stack :
    LET f == stack[i] IN
    /\ gsource[f.src] = "live"
    /\ data[f.src] = "live"
    /\ kind[f.src] \in WrapperKinds => wrapper[f.src] = "live"
    /\ f.node # NULL => node[f.node] = "live"

(***************************************************************************)
(* Every node is the node of callback data that are still there, so that a *)
(* destroy notification, immediately or later, deletes it, or is about to  *)
(* be registered with them; and as long as it has not been told that the   *)
(* GLib side is disconnected it points to an existing GSource, so that     *)
(* notify() never destroys a freed one.                                    *)
(***************************************************************************)
NodesOwned ==
  \A n \in Nodes :
    node[n] = "live" =>
      /\ \/ \E s \in Sources : dataNode[s] = n /\ data[s] = "live"
         \/ \E t \in Threads : conn[t].step = "set_node" /\ conn[t].node = n
      /\ nodeSrc[n] # NULL => gsource[nodeSrc[n]] = "live"

(***************************************************************************)
(* What a thread is using exists whatever the others do.  While it holds a *)
(* RefPtr, the wrapper and the GSource do, even if the source has been     *)
(* destroyed and the other RefPtrs dropped.  connect_generic() registers   *)
(* its node with the callback data it has found before; install() writes   *)
(* to an existing node, even if another thread runs the context of the     *)
(* source; and g_source_destroy() gets the GSource that its caller has     *)
(* read while that still exists.                                           *)
(***************************************************************************)
CallersAlive ==
  /\ \A s \in Sources : holders[s] # {} => wrapper[s] = "live" /\ gsource[s] = "live"
  /\ \A t \in Threads :
       /\ conn[t].step = "set_node" => data[conn[t].src] = "live"
       /\ conn[t].step = "install" => node[conn[t].node] = "live"
       /\ Doing(t, "install") => node[dataNode[Src(t)]] = "live"
       /\ Doing(t, "destroy") => gsource[Src(t)] = "live"

(***************************************************************************)
(* No counter becomes negative, and a freed GSource leaves nothing behind: *)
(* no callback data, no wrapper, no node.                                  *)
(***************************************************************************)
NothingLeft ==
  /\ TypeOK
  /\ \A s \in Sources :
       gsource[s] = "freed" =>
         /\ data[s] = "deleted"
         /\ wrapper[s] # "live"
         /\ \A n \in Nodes : node[n] = "live" => nodeSrc[n] # s

(***************************************************************************)
(* Every GSource has a reason to exist: somebody holds its wrapper, the    *)
(* context has it and it has not been destroyed, or a thread or the loop   *)
(* is still at work on it.  So a source that nobody needs is freed by the  *)
(* last one to let go of it, whichever of the four lifetimes ends first    *)
(* and however many threads were at it.                                    *)
(***************************************************************************)
Reclaimed ==
  \A s \in Sources :
    gsource[s] = "live" =>
      \/ holders[s] # {}
      \/ attached[s] /\ active[s]
      \/ \E t \in Threads : On(t, s)
      \/ probe.src = s \/ \E i \in DOMAIN stack : stack[i].src = s

=============================================================================
