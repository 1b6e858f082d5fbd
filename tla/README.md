# A TLA+ verification of glibmm

glibmm is the C++ interface of GLib, GObject and GIO. Most of its 700 files are thin: they
convert arguments and call C. The code that is hard to get right is the layer underneath them,
which decides *who deletes what and when* on a border that two reference-counting systems, user
callbacks, C++ exceptions and several threads cross in both directions. Two other parts have
algorithms of their own: `Glib::ustring`, a string of characters kept as bytes, and `mmgir`, which
reads GIR files and writes the definitions that the rest of the library is generated from. This
project models these parts, checks them with TLC and proves most of their safety with TLAPS.

| module | models | checked by | proved in |
|---|---|---|---|
| `Dispatcher` | `glib/glibmm/dispatcher.{h,cc}` | `MCDispatcher`, 2 runs | `DispatcherProofs` |
| `Source` | sources, their connections and `invoke()` in `glib/glibmm/main.{h,cc}`, `gio/giomm/socketsource.cc` | `MCSource`, 1 run | `SourceProofs` |
| `TimeoutSource` | `Glib::TimeoutSource` in `glib/glibmm/main.cc` | `MCTimeoutSource`, 1 run | `SourceProofs` |
| `ObjectBase` | `objectbase.cc`, `object.cc`, `wrap.cc`, `refptr.h`, `wrap()` of `gio/src/dbusconnection.ccg` | `MCObjectBase`, 2 runs | `ObjectProofs` |
| `SignalProxy` | `signalproxy.cc`, `signalproxy_connectionnode.cc`, `propertyproxy_base.cc`, `exceptionhandler.cc` | `MCSignalProxy`, 1 run | `ObjectProofs` |
| `Properties` | `class.cc`, `interface.cc`, `extraclassinit.cc`, `property.{h,cc}` | `MCProperties`, 1 run | `PropertiesProofs` |
| `Containers` | `vectorutils.{h,cc}`, `containerhandle_shared.h` | `MCContainers`, 1 run | `ContainersProofs` |
| `Ustring`, which implements `CharString` | `ustring.{h,cc}` | `MCUstring`, 1 run | `UstringProofs`, `UstringRefinementProofs` |
| `Mmgir`, made of `GirSchema`, `GirParser`, `TypeResolver`, `GenDefs` | `tools/mmgir/*` | `MCMmgir`, 2 runs | `MmgirProofs` |

`tlc -config X.cfg M` repeats a run, `tlapm M.tla` a proof; `PROJECT.json` lists the runs, the
source lines behind every definition, one mutation of the code for every property (which TLC
must refute), the hazards and the findings.

Contents: 1 Inventory, 2 How the models are made, 3 The modules, 4 Runs and bounds, 5 Fairness,
6 Proofs, 7 Findings, 8 What is only model-checked and what is not modelled, 9 Plan.


## 1 Inventory

### Parts that keep state of their own

**Dispatcher** (`glib/glibmm/dispatcher.cc`). Lets any thread ask one receiver thread to emit a
signal. State: a thread-specific `DispatchNotifier` with a reference count, a main context, a
pipe and a list of orphaned `Dispatcher::Impl`s; one `Impl` with a signal per Dispatcher.
Operations: construct, destroy, connect, `emit()` (a `write()` in the calling thread) and
`pipe_io_handler()` (a `read()` and the signal, in the receiver's main loop). Hard: a message
names its `Impl` by address, and the receiver may delete the Dispatcher while messages to it are
in the pipe, from inside a slot, in a nested main loop; the pipe can be full. Correct if: no
message and no running handler ever names a freed object, counts are exact, nothing is leaked,
no slot of a deleted Dispatcher starts, every message arrives and no sender blocks for ever.

**Event sources** (`glib/glibmm/main.cc`). Wrap `GSource`s and tie slots to them. State per
source: the reference counts of the `GSource`, of its `GSourceCallback` and of the wrapper, and
`keep_wrapper_`, the number of parties (RefPtrs as one, callback data as the other) that still
need the wrapper; a `SourceConnectionNode` per slot. Operations: create, attach, connect,
`connect_once()`, disconnect, `destroy()`, reference, unreference; callbacks: prepare, check,
dispatch, destroy notification. Hard: any of them may happen in the slot that is running or in
another thread. Correct if: what a dispatch uses exists until it returns, nodes never point to
freed sources, and everything is reclaimed exactly once.

**TimeoutSource** (`glib/glibmm/main.cc`). State: an interval and an expiration time. Operations:
prepare, check, dispatch. Hard: the clock may be set back, the context caches the time, intervals
are unsigned and timeouts are `int`. Correct if: the loop never sleeps past the expiration, a slot
is hardly ever early, and a timeout is not put off by loop wake-ups.

**Wrappers of GObjects** (`objectbase.cc`, `object.cc`, `wrap.cc`, `refptr.h`). State: for every
GObject its reference count and its current wrapper (a qdata); for every wrapper its `gobject_`.
Operations: construct (which may throw), wrap a C object, reference, unreference, move, destroy;
callback: destroy notification of the qdata. Hard: deletion runs from C++ to C for variables and
from C to C++ for heap objects; threads may wrap the same object at once. Correct if: one wrapper
per object, both directions of the link agree, each reference has one owner.

**Signal connections** (`signalproxy.cc`, `signalproxy_connectionnode.cc`,
`propertyproxy_base.cc`). State: a node per connected slot with the handler id and the object.
Operations: connect, block, disconnect (from C++, by a dying trackable, by GLib), emission.
Hard: a slot may disconnect itself, dispose of its object or emit again. Correct if: the node of
a running slot exists and every node is deleted in the end.

**Exception handlers** (`exceptionhandler.cc`). State: a thread-specific list of slots.
Operations: add, disconnect, invoke. Hard: handlers are user code that may throw, add handlers or
cause a nested invocation that erases list elements. Correct if: iterators stay valid, every
handler gets its chance, no C++ exception crosses C code.

**Custom types and properties** (`class.cc`, `interface.cc`, `extraclassinit.cc`, `property.cc`,
`object.cc`). State: a GType that the first instance registers, with the numbers of its
properties; per GObject the values of interface properties, a map of values set before there is a
C++ object, and pointers to the `Property` members of the wrapper. Operations: the constructors of
bases and members, one after another; reading and writing from C and from C++; deletion. Hard: the
class is made while its first instances are constructed, C code creates objects and sets values
meanwhile, and numbers stand for places. Correct if: a number leads to the property it was given
to, no read follows a dead pointer, and a reader sees the last write.

**Containers of C data** (`vectorutils.h`). State: a C array or list with references of its
elements, a `std::vector`, and a keeper that owns the container not at all, without or with its
elements. Operations: conversion in both directions, copying and destruction of keepers. Hard: a
conversion may throw in the middle, and keepers are returned by value. Correct if: every reference
is given back once and C sees all elements, in order.

**ustring** (`ustring.h`, `ustring.cc`). State: bytes. Operations: those of `std::string` in
characters. Hard: two units of measure, `npos`, ends, NULs and iterators meet in every call.
Correct if: it behaves as a string of characters does and never holds half a character.

**mmgir** (`tools/mmgir`). State: the tree that is being parsed, the table of known and unknown
types, the queue of included namespaces, the files written. Hard: errors are collected rather than
thrown, types are used before they are defined, and namespaces include one another in circles and
versions. Correct if: broken files and only those are refused, the search ends and is complete, and
what is printed is what was read.

**Asynchronous operations** (`gio/src/slot_async.cc`, `file.ccg`, `cancellable.ccg` and the other
`*_async()` functions). State: copies of slots that the ready callback deletes. Not modelled yet.

**Application options** (`gio/src/application.ccg`). State: a map from option names to callbacks,
shared by all applications and guarded by a mutex. Not modelled yet.

**Command line options** (`glib/src/optiongroup.ccg`, `optioncontext.ccg`). State: a map of
entries with C arguments that are converted before and after parsing. Not modelled yet.

**Markup parser** (`glib/src/markup.ccg`). State: a parse context that may be moved, and the
parser it calls back. Not modelled yet.

**D-Bus registrations** (`gio/src/dbusconnection.ccg`, `dbusownname.ccg`, `dbuswatchname.ccg`).
State: slots that live until a name or an object is unregistered. Only `wrap()` is modelled.

**Node trees** (`glib/src/nodetree.ccg`). A sequential data structure. Not modelled yet.

### Parts that only pass calls on

MainContext and MainLoop, I/O channels, values and variants, bindings, errors, key files, spawning, dates, text utilities, files and environment,
streams, settings and actions, sockets and TLS, volumes, list models: the state is kept by
GLib or GIO, and the C++ code is a conversion and one call. `gmmproc` generates code, from what
`mmgir` writes, when glibmm is built. `PROJECT.json` has an entry with the reason for each.

### How the parts interact

```
 C code / GLib main loop                         program (slots, destructors, other threads)
   |  prepare, check, dispatch                     |  connect, disconnect, destroy, emit
   v                                               v
 Source --- SourceConnectionNode ---> slot ---> Dispatcher::emit() --> pipe --> pipe_io_handler()
   ^                                   |                                           |
   |   (the pipe is watched by an IOSource, which is a Source)  <------------------+
   |                                   v
 GObject -- closure -- SignalProxyConnectionNode --> slot --throws--> exception handlers
   |  qdata
   v
 ObjectBase (wrapper) <-- RefPtr
```

All callbacks enter C++ through static functions that C calls. Each must find a live C++ object
and must let no exception through. The models meet at these points: `Source` is the environment
of `Dispatcher` and `TimeoutSource` (`Dispatch` of `Dispatcher` is a dispatch of the I/O source,
the phases of `TimeoutSource` are the probe and dispatch steps of `Source`), and `SignalProxy`
composes connection nodes with the exception handlers that see what their slots throw. `Mmgir` is
the composition of its four parts: `GirParser` and the tables of `GirSchema` read the first input,
`TypeResolver` and the search run on what was read, `GenDefs` prints it.


## 2 How the models are made

- *Storage is never reused.* A deleted object keeps the state `"deleted"`, so that "nobody
  touches a deleted object" is a predicate. An identity is used once; the sets of identities are
  the bounds.
- *User code is an adversary.* Slots, exception handlers and other threads may do at any moment
  what the program is allowed to do. A stack of frames stands for C++ calls under way, so that a
  slot that deletes its own object is a step between the call and the return.
- *Granularity.* What one thread does without another one or user code being able to intervene is
  one action. Where counters are decremented and tested by different threads (`Source`,
  `ObjectBase`), or a pointer is read and used later without a lock (`Source`, `wrap()` in
  `ObjectBase`), the operation is split at those points.
- *GLib is external.* It is modelled by what the code relies on: reference counts, "a dispatch
  holds a reference on the source and its callback", "an emission holds the closure", "pipe writes
  of up to PIPE_BUF bytes are atomic".
- *Rules of use* that headers impose on the program are guards, each named in a comment. The
  rules that are not written down anywhere are switches (constants), so that both answers can be
  explored; section 4 says how.


## 3 The modules

### Dispatcher

| state | code |
|---|---|
| `instance` | `thread_specific_instance_` |
| `notifier`, `refCount`, `context`, `pipe` | a `DispatchNotifier`, its `ref_count_`, `context_` and the bytes between `fd_sender_` and `fd_receiver_`, in messages |
| `impl`, `notifierOf`, `slots` | an `Impl`: whether it exists, is orphaned or leaked; `notifier_`; whether `signal_` has a slot |
| `stack` | calls of `pipe_io_handler()` under way |
| `sending` | the Dispatcher whose `emit()` a thread is in |

| action | code |
|---|---|
| `CreateFirst`, `CreateNext` | constructors and `reference_instance()`, with the refusal of another context |
| `DestroyOne`, `DestroyLast`, `DestroyRefused` | `~Dispatcher()` and `unreference_instance()`: orphan or delete the Impl, drop the count, delete the notifier |
| `Connect`, `Disconnect` | `connect()` and the connection it returns |
| `EmitBegin`, `Write`, `WriteFails` | `emit()`, `send_notification()`: blocked on a full pipe, retried on EINTR, lost with a warning |
| `Dispatch` | the first half of `pipe_io_handler()`: `read()` and `signal_()` |
| `Finish` | its second half: the test of `thread_specific_instance_`, then the orphans |

Rules of use: only the receiver creates, deletes and connects; a Dispatcher outlives the `emit()`
calls on it. `dispatcher.h` states both. Properties: `MessagesAlive`, `HandlersAlive`,
`RefCountExact`, `NoSlotAfterDelete`, and the liveness properties
`Delivery`, `OrphansReclaimed`, `EmitReturns`.

### Source

`gsource`, `gref`, `active`, `attached`, `callback`, `cbRef` are the GLib side. `data`, `dataNode`
and `owns` are a `SourceCallbackData` (or, for the sources of `SignalTimeout` and its kin, the
node itself). `wrapper`, `refCount`, `keep`, `holders` are a `Glib::Source`. `node`, `nodeSrc`,
`connected` are the `SourceConnectionNode`s. `stack` and `probe` are what the loop is doing;
`cont[t]` is what thread `t` has left of an operation it has begun, as a list of steps
("install", "attach", "destroy", "cbunref", "notify", "keep", "free", "gunref", "gfree"); and
`conn[t]` is what `connect_generic()` or `notify()` has read in thread `t` and not used yet.

`Create`, `CreateThrows`, `CreateIO`, `CreateSocketSource`, `Reference`, `Unreference`, `Attach`,
`Destroy`, `Connect`, `ConnectIO`, `ConnectSocket` are the methods of `Glib::Source` and its
derived classes. `connect_generic()` is three steps: `Connect` looks for the callback data,
`SetNode` registers the node with them, `InstallNode` stores the GSource in the node; and
`SourceConnectionNode::notify()` two, `Disconnect`, which reads the GSource, and `DestroyStep`, the
`g_source_destroy()`. Other threads may run in between. `ConnectSignal` is `connect()` and
`connect_once()` of the signal proxies of the main context, `Invoke` is `MainContext::invoke()`.
`ProbeCall`, `ProbeGet`, `ProbeReturn` are `prepare_vfunc()` and `check_vfunc()` with
`get_wrapper()`; `DispatchBegin`, `DispatchEnd` are `dispatch_vfunc()` and the callbacks
(`SourceCallback`, `SocketCallback`, `InvokeCallback`). The remaining actions are the steps of
`cont`.

The `kind` of a source tells what made it: a wrapper ("wrapped", "io", "socket_source"), a signal
proxy ("signal", "child", "socket"), `connect_once()` ("once"), whose callback always returns 0 and
which any thread may call, or `invoke()` ("invoke"). `Kinds` are those an instance looks at.
Properties: `DispatchAlive`, `NodesOwned`, `CallersAlive`, `NothingLeft` and `Reclaimed`. The last is an
invariant: a GSource exists only as long as there is a reason for it, or somebody is at work on it.

### TimeoutSource

One source in one context. `cached` is the time the context caches, `phase` the position of the
loop, `timeout` what `prepare()` returned. `Prepare`, `Check`, `Dispatch` are the three virtual
functions; `Tick` and `SetClockBack` are the clock. `UsPerMs` and `MaxInt` stand for 1000 and
`G_MAXINT`, so that a small instance meets the truncation of the division and of the cast. The
names it would share with `Source` begin with `Timeout`: `SourceProofs` extends both.

### ObjectBase

`gobj`, `gref`, `cHolders`, `qdata` are the GObject, its count, the threads whose C code holds a
reference, and its current wrapper; `wrapper`, `gobject`, `refptrs` the C++ side; `call` and
`mutex` the calls of `wrap()` and the throwing constructors under way; `leaked` counts the references
that `wrap()` has lost. `CNew`, `CRef`, `CUnref` are C code. `New`, `GobjCopy`, `DropRefPtr`,
`DestroyValue`, `MoveConstruct`, `MoveAssign` are the constructors, `gobj_copy()`, `unreference()`,
`~ObjectBase()` and the move operations. A constructor of a derived class that throws is `NewThrows`,
then `ThrowSteal` (`~ObjectBase()` takes the qdata off) and `ThrowRelease` (and drops the reference); C
code has the object in between. `WrapBegin` to
`WrapFinish` are `wrap()`: look, lock, look again in `wrap_auto()`, construct the base class,
`_set_current_wrapper()`, construct the derived classes, take a reference, unlock, cast. `CastFails` is
the cast of a wrapper that another thread is still constructing: the `dynamic_cast` gives `nullptr`, so that
the caller gets an empty RefPtr and its reference is nobody's.
With `UsesMutex` it is the `wrap()` of `Gio::DBus::Connection`; without, that of other classes.

### SignalProxy

`handler` is the GLib side of a connection; `node`, `objectPtr`, `slot` are the
`SignalProxyConnectionNode`; `list` and `handlerSlot` the exception handlers of the thread;
`stack` alternates running slots and calls of `exception_handlers_invoke()` with the iterator
each of them holds (`at`). `Connect`, `Block`, `Disconnect`, `Dispose`, `Disassociate`, `Finalize`
change connections; `Emit`, `SlotReturns`, `SlotThrows` run slots; `AddExceptionHandler`,
`RemoveExceptionHandler`, `SkipDead`, `CallHandler`, `HandlerReturns`, `HandlerThrows`,
`Unexpected` are `exceptionhandler.cc`. The names it would share with `ObjectBase` begin with `Signal`:
`ObjectProofs` extends both.

### Properties

`layout` is the order in which a class constructs its bases and members: `Interface`s,
`ExtraClassInit`s, `Object` and `Property` members, each an action. `klass` is the GType: its
interfaces, the default values of their properties, and the number of every property. `obj` has, per
GObject, the wrapper, `prop_base_vector`, `prop_value_map` and the values of interface properties;
`wr` the wrapper with the values of its members; `stack` the constructors under way, one possibly
inside another. The numbers of the properties of interfaces are any (`Numbered`), because the order in which
GLib lists interfaces and their properties is not glibmm's. `CreateInC`, `g_object_set_property` and the read that the invariants make with
`glibmm_custom_get_property_callback` are C code, at any time. `ConstructNew`, `ConstructDerived`,
`WrapPlain`, `ObjectCast` tell the ways to a wrapper; `ProxySet`, `reset_property_`, `set_value` and
`set_value_WriteOnly` are writes from C++; `DeleteWrapper` leaves the GObject or not, in one step (section 8). `last` and
`notice` are history variables: the value a reader should see, and what was notified.

### Containers

One container at a time: `block` is the C array, `GList` or `GSList`; `refs` and `lib` count the
references of a datum, all and those of the library. `kind` is the type traits. `array_to_vector` with
and without a size, `list_to_vector`, `slist_to_vector` begin a conversion, `ConvertElement` and
`Throw` are its steps, so that it can fail after any element; `create_array`, `create_bool_array`,
`create_glist`, `create_gslist` build the container element by element; `CopyKeeper`, `KeeperGoes`
are the keepers, `CReturns` the C function that borrowed the container.

### Ustring and CharString

`CharString` says what the documentation of the class promises: two strings of characters, an iterator
that is an index, and for every call the new strings and the result. A NUL is a character there as any other. `Ustring` is the code: bytes, byte offsets,
`utf8_byte_offset()`, `Utf8SubstrBounds`, `utf8_find_first_of()`, iterators that step over
continuation bytes. GLib's UTF-8 functions and `std::string` are external. Every call leaves a record in
`call` (arguments and result), which both modules share; `Implements` says that with the bytes
decoded every step of `Ustring` is a step of `CharString`, exceptions and results included, or one of
`Departs`. These are the calls that do not keep the promise, each with what it answers instead:
`StopsAtNul` (`compare()`, the relations, `uppercase()` and its kin, `compose()`, which end at a NUL, and
`make_valid()`, which replaces it), `ValidatesUpToNul` (`validate()`), and `MatchesOthers`
(`find_first_of()` and its kin, which look for the characters before a NUL only and, given a count, for those
in so many bytes). Strings change in none of them.

### Mmgir

`GirSchema` has the structs of `schema.h`; `GirParser` has, for each `parse_*()` function, the
attributes and elements it accepts and insists on, and reads a document tag by tag, each element
with a missing or illegal attribute or without. `TypeResolver` registers the types of a repository and
keeps the list of unknown ones; `GenDefs` prints flags, casts, properties and signals. `Mmgir`
is `main()` and `GirSearch`: `load_inputs`, `register_inputs`, `load_supporting_repositories`,
`search_for_included_namespaces` and `search_begins` (is there a search, and what it starts from), `run`,
`run_ends`, `check_unknown` and the four files of output. A loop does one repository, file or dependency
per step; `next` is the index of the loops over repositories. `write_enum_defs` prints an enumeration and a
bitfield with the same set of members, one of `MemberSets`. An element is a name and an attribute is present, missing or illegal; the contents
of text are left out.


## 4 Runs and bounds

| run | shows |
|---|---|
| `dispatcher` | All properties of `Dispatcher`, with 3 Dispatchers (one may be refused), 2 notifiers (the thread can lose the first and get another), 2 senders, a pipe of 2, nested loops, 3 emissions and a lost write, and the fairness of section 5. 3 Impls are needed for "orphan, live one that keeps the notifier, message to a third"; a pipe of 2 for a message behind a message; 3 emissions to fill it and block a sender. The receiver does not emit: if it fills its own pipe it waits for itself for ever. |
| `dispatcher_recreate` | finding, section 7 |
| `source_safety` | All properties of `Source`, with 2 sources of all kinds and 2 nodes, the loop and one thread that attaches, destroys and drops sources too, nested dispatch: while one source is dispatched another one is made, dispatched and destroyed. |
| `timeout_safety` | All properties of `TimeoutSource` for intervals from 0 to above `MaxInt`, two setbacks of the clock to any earlier time. |
| `objectbase_safety` | All properties of `ObjectBase` except `WrapProtected`, with 2 objects, 2 heap wrappers and 2 variables (a move assignment needs two of each side), 2 threads in `wrap()` or in a constructor that throws. |
| `objectbase_wrap` | finding, section 7 |
| `signals_safety` | All properties of `SignalProxy`, with a signal and a property connection, 2 handlers, a stack of 4: a slot, its exception being handled, a nested slot, its exception being handled by the same list. |
| `properties_safety` | All properties of `Properties`, with 2 GObjects and 2 wrappers (one constructor inside another, an object from C that gets its wrapper late), 3 layouts: interfaces before `Object`, an interface after it and before all members, and members of all modes with class init functions between them. |
| `containers_safety` | All properties of `Containers`, with containers of up to 3 elements, equal and null ones among them, all six traits, two keepers: a throw before, between and after elements. |
| `ustring_characters` | `Utf8Valid` and `Implements`: two strings of together up to 3 characters of one, two and three bytes and NUL, every overload with every position and count at and past the boundaries. The functions look at the character at an offset and its neighbours, so that three characters have a first, a middle and a last one. |
| `mmgir_generate` | All properties of `Mmgir` except `CastKeepsLetters`: every document up to a type in an array in a parameter of a method, with one flaw; every place and form of a type; some thousand combinations of includes, versions, files, orders and errors; sets of members with values around both widths. |
| `mmgir_cast` | finding, section 7 |

A property of the table is often a conjunction of parts with names of their own, the type invariant
among them; `PROJECT.json` has one mutation of the code for each property.

Deadlock is not checked where the sets of identities run out or where the program has ended; the cfg
files say which.

Some constants are switches for things a program may or may not do. What the other setting shows:

- `ConnectRaces` (`Source`): with `TRUE`, `DispatchAlive`, `NodesOwned`, `CallersAlive` and `NothingLeft` fail.
  While a thread is between two steps of `connect()` or of a disconnection (`main.cc:1030-1036`, `:64-66`), another
  one destroys or drops the source: `set_node()` then writes to callback data that are gone, or leaves a node that
  nobody owns, and `g_source_destroy()` gets a freed GSource. With `FALSE` other threads do not use
  a source meanwhile, and may do with it at any other time what they like. `main.h` asks for as much of the signal
  proxies ("call it, or manipulate the returned sigc::connection object, only from the thread where the ...
  MainContext runs"), and says nothing of `Glib::Source`. `Reclaimed` holds with either setting.
- The race that `main.cc:152-155` describes has no switch and no property. `get_wrapper()` asks for the
  callback data, and another thread destroys the source before the wrapper is used (`ProbeCall`, `ProbeGet`,
  `ProbeReturn`). The test of `g_source_is_destroyed()` closes it for a source that has been destroyed before, and
  leaves the window after it. A property that these functions find what they use would be false as soon
  as another thread may call `destroy()`, which `source_safety` lets it do.
- `ReconnectInSlot` (`Source`): with `TRUE`, `DispatchAlive` fails, because `set_node()` deletes
  the node whose slot is running.
- `ReceiverEmits` (`Dispatcher`): with `TRUE`, a receiver that fills its own pipe blocks for good, so that the
  liveness properties fail. The theorems of section 6 hold with either setting.
- `UsesMutex` (`ObjectBase`): with `FALSE`, `SingleWrapper` fails when two threads wrap one object
  at once. glibmm's objects are not thread-safe in general; the mutex was added to the one class
  where this is to be expected.
- `RemoveRunning` (`SignalProxy`): with `TRUE`, `IteratorsValid` fails. An exception handler that
  disconnects itself and then causes another exception has its list element erased by the nested
  call.
- `RecreateInSlot` (`Dispatcher`): section 7.
- `ConnectDestroyed` (`Source`): with `TRUE`, `NodesOwned` fails. A slot connected to a destroyed
  source gets a node that belongs to no callback data (`main.cc:1032`): nothing deletes it.
- `PropertySlotsThrow` (`SignalProxy`): the callback of property notifications has no `try`, unlike that
  of signals (`propertyproxy_base.cc:87`, also `cancellable.ccg:42`): with `TRUE` an exception leaves
  through C code, past the exception handlers.
- `Rewrap` (`Properties`): with `TRUE`, `NothingUndefined` fails. The vector of pointers to `Property`
  members belongs to the GObject, and a second wrapper finds those of the first.
- `Layouts` (`Properties`) are the classes an instance looks at. The code relies on what `InterfacesInTime`
  says of them: all interfaces come before `Glib::Object`, or there is one only and it comes before the members.
  With an interface that brings a new property after a member, `IdFindsProperty` fails, because its properties
  take numbers the member has already. With the layout interface, object, interface, member,
  `NothingUndefined` fails (section 7).


## 5 Fairness

- `Dispatcher`: weak fairness of `Dispatch` outside of any handler (the program runs its main
  loop; GLib dispatches a readable source), of `Finish` (slots return) and of `Write` in each
  thread (the scheduler). No fairness for nested loops, creation, emission or deletion. The kernel
  wakes a blocked writer when there is room; with two senders TLC shows that weak fairness is
  enough because the number of emissions is bounded.
- `ObjectBase`: weak fairness of the steps of `wrap()` in each thread. The mutex is modelled
  without a queue; two threads and single-use objects make weak fairness enough.
- `SignalProxy`: slots and exception handlers finish. Each is finite code, but it may emit signals
  before it returns, which disables its own return for a while, again and again. Hence strong
  fairness of "the frame at depth d finishes" for each depth; weak fairness for the steps of
  `exception_handlers_invoke()`, which user code cannot interrupt.
- The other modules have safety properties only: what `Source` owes its users it owes them at once
  (`Reclaimed` is an invariant), `Properties` and `Containers` do what the program asks for, `Ustring` is a sequence of calls, and `mmgir` is one process whose search is shown to end by
  `VersionsAgree` (no file is read twice) rather than by fairness.


## 6 Proofs

Every invariant below is inductive: the initial states satisfy it, every step of `Next` and every
stutter preserves it, and it implies the property. A hypothesis in the tables is one of the switches
of section 4, which says why it is there and what happens without it.

### Dispatcher

TLAPS proves, for any number of Dispatchers, notifiers, contexts and threads and any pipe capacity
(`DispatcherAssumption`: the set of Impls is finite, `NULL` and the receiver are distinct from
what they are compared with, the bounds are naturals):

| theorem of `DispatcherProofs` | statement |
|---|---|
| `TypeCorrect` | `Spec => []TypeOK`: among others `ref_count_` never becomes negative |
| `NoDanglingMessage` | `Spec => []MessagesAlive` |
| `CountedReferences` | `Spec => [](RefCountExact /\ WritersAlive)` |
| `DeletedDispatchersStaySilent` | `Spec => NoSlotAfterDelete` |
| `DestroyDuringEmit` | `~RecreateInSlot => (Spec => []HandlersAlive)` |

*The argument.* `MessagesAlive` is not inductive: that an Impl in the pipe is not deleted depends
on the pipe being empty whenever the code deletes orphans, and that the right pipe is looked at
depends on the Impl, its notifier and `thread_specific_instance_` agreeing. The inductive invariant

    IInv == TypeOK /\ RefCountExact /\ MessagesAlive /\ WritersAlive /\ UnbornUnbound /\ SlotsOfLive

adds `RefCountExact` (the count is the cardinality of the Dispatchers that use the notifier, so
"the count reaches 0" and "no other user" are the same), `WritersAlive` (a thread in `write()` has
a live target, so that the message it adds is alive), `UnbornUnbound` (an Impl that has not been
created has no notifier) and `SlotsOfLive` (only live or leaked Impls have slots, so that
a message to an orphan calls nothing). There is one lemma per action; `UserAdded`, `UserRemoved` and
`UsersUnchanged` connect the counter with the cardinality. `HandlersAlive` needs no more than
`IInv` and an invariant of the frames: while the thread has a notifier, running handlers belong to
it, and once it is gone no other is created until the stack is empty. That last step is exactly
`~RecreateInSlot`; without it TLC finds the counterexample of section 7.

### TimeoutSource

For any clock, any unit (`UsPerMs >= 1`), any `MaxInt >= 1` and any set of intervals:

| theorem of `SourceProofs` | statement |
|---|---|
| `TimeoutTypeCorrect` | `TimeoutSpec => []TimeoutTypeOK`: what `prepare()` returns fits an `int` and is not negative |
| `LoopWakesInTime` | `TimeoutSpec => []NoOversleep` |
| `ArmedTimeoutsStay` | `TimeoutSpec => NeverPostponed` |
| `LessThanAMillisecondEarly` | `TimeoutSpec => NotMuchTooEarly` |

The invariant adds to `TimeoutTypeOK` and `NoOversleep` that, as long as the clock has not been set back,
the cached time is not in the future and the expiration is at most one interval after it: this is
why the branch of `prepare()` for a clock that was set back is never taken by mistake. Products
and quotients by `UsPerMs` are dealt with in three lemmas (`Product`, `Monotone`, `Quotient`).

### Source

For any number of sources, nodes and threads, even infinitely many, and any depth of nested dispatches
(`SourceAssumption`: `NULL` is no source or node, the loop is not one of the other threads):

| theorem of `SourceProofs` | statement |
|---|---|
| `SourceInvariant` | `~ConnectRaces => (Spec => []IInv)` |
| `DispatchesStayAlive` | `~ConnectRaces /\ ~ReconnectInSlot => (Spec => []DispatchAlive)` |
| `NodesStayOwned` | `~ConnectRaces /\ ~ConnectDestroyed => (Spec => []NodesOwned)` |
| `CallersStayAlive` | `~ConnectRaces /\ ~ConnectDestroyed => (Spec => []CallersAlive)` |
| `FreedLeavesNothing` | `~ConnectRaces /\ ~ConnectDestroyed => (Spec => []NothingLeft)` |
| `UnusedIsReclaimed` | `~ConnectRaces => (Spec => []Reclaimed)` |

*The argument.* Nothing here is inductive alone: an object exists because its counter is not 0, and
the counter is not 0 because somebody who holds the object has not let go yet. `Counted` says who
that is, for each of the four counters. The references on a GSource are those of the context (if it
is attached and active), of the RefPtrs (as one), of the dispatch and of the probe, and one for every
decrement that a thread has begun and not done; those on a `GSourceCallback` are the source's own and
those of dispatches and of threads about to drop one; `ref_count_` is the number of RefPtrs;
`keep_wrapper_` counts "some RefPtr" and "some callback data" as one each. So the invariant has to know
what a thread has left to do. This is always one of finitely many sequences (`Plans`), each about one source
and each ending with the release of the GSource, unless it is a lone `g_source_destroy()`. `GLife`,
`DataLife` and `WrapperLife` say of GSource, callback data and wrapper that they exist exactly
until the one thread that dropped the last reference has freed them, `NodesOK` that nodes and callback
data point to each other, `LoopOK` what a dispatch and a probe rely on, `Connecting` that until
`connect()` has attached a new source nobody else knows it, and `ConnsOK` that what `connect_generic()` and
`notify()` have read is still so when they use it: the callback data they found are there, the node is
registered, the GSource exists. `ConnsOK` is where `~ConnectRaces` is needed; the steps of one thread that it allows in
between are those of other sources. The other hypotheses stand in the theorems that need them. There is one lemma
per action and per step of `cont`, and under it one step per conjunct. That a step leaves a thread with a
plan is a matter of finitely many sequences (`PlanFacts`, `PlansClose` and others at the top of the module).
That a GSource has a reason to exist (`UnusedIsReclaimed`) is the exact count read the other way round: its
`ref_count` is not 0, so one of those counted is there.

### ObjectBase

For any number of GObjects, wrappers and threads, if `wrap()` takes `wrap_mutex` (`UsesMutex`, as
`Gio::DBus::Connection` does; without it `SingleWrapper` is false, section 4):

| theorem of `ObjectProofs` | statement |
|---|---|
| `OneWrapperPerObject` | `Spec => []SingleWrapper` |
| `RefPtrsKeepAlive` | `Spec => []WrappersAlive` |
| `ReferencesCounted` | `Spec => []RefCountExact` |

*The argument.* The three need each other. That the wrapper which `wrap()` has seen before it took the
mutex is still there when it uses it, rests on the reference its caller holds; that nobody's object
is finalized, on the counts being exact; and an increment or decrement is counted right only if the
GObject has one wrapper. `CallsOK` says what a call of `wrap()` knows at each of its steps (the thread
between lookup and set is the one that has the mutex, and the object has no wrapper then) and what a constructor
that throws has still to give back, `WrappersOK`
and `ObjectsOK` how wrappers and qdata point to each other, `Counts` that the count of
each object is the number of its owners and of the references lost (`leaked`). `RefPtrsKeepAlive` is about whole wrappers:
a wrapper whose constructors still run has no RefPtr, because the cast does not give one out.

### SignalProxy

For any number of connections and exception handlers and any depth of nested emissions:

| theorem of `ObjectProofs` | statement |
|---|---|
| `NodesStayAlive` | `Spec => []NodesAlive` |
| `IteratorsStayValid` | `~RemoveRunning => (Spec => []IteratorsValid)` |
| `EveryHandlerTried` | `~RemoveRunning => (Spec => []AllTried)` |

*The argument.* `NodesAlive` becomes inductive with what GLib knows of a node (`HandlerNode`) and with
`WrapperAlive`: only an object that has not been finalized has a wrapper to connect through. For the
handlers, `ListInv` says that the list has no duplicates (`Distinct`), that it holds every installed handler
(`Installed`), and, of each call of `exception_handlers_invoke()` on the stack, that the handlers before its
iterator have been tried (`FramesTried`). Nested calls erase disconnected handlers from the list
that outer calls iterate over. The lemmas on `RemoveAt` say what that does to positions.

### Containers

For any data, any number of keepers and any `MaxLen` (`DataAssumption`: a null pointer is neither a datum
nor a vector nor an `OwnershipType`):

| theorem of `ContainersProofs` | statement |
|---|---|
| `ReferencesExact` | `Spec => []RefsExact` |
| `KeepersLeaveNothing` | `Spec => []NothingLeft` |
| `LentVectorComplete` | `Spec => []CSeesVector` |
| `ConversionsComplete` | `Spec => []VectorComplete` |

*The argument.* `IInv == TypeInv /\ Phase /\ Balanced`. `Phase` has a conjunct for each phase of a call: which
keeper owns the container then, and how far the loop over its elements has come, so that its end gives
`CSeesVector` and `VectorComplete`. `Balanced` says of every datum that its references are
those of the library, those of the vector and those in the cells that somebody has still to release. A
loop moves one occurrence from one side to the other; `Occurrences` and its lemmas count them. A loop
step appends one element, so that no induction over a whole sequence is needed.

### Properties

For any number of GObjects and wrappers, any values, and any set of classes whose constructors have interfaces with
any number of properties, class init functions and members in any order that is `InTime` (`Rewrap` is `FALSE`
and `InterfacesInTime` holds of every layout; section 4 has the counterexamples without either):

| theorem of `PropertiesProofs` | statement |
|---|---|
| `MembersStayFound` | `InTime => (Spec => []IdFindsProperty)` |
| `LastWriteIsRead` | `InTime => (Spec => []ReadsLastWrite)` |
| `ClassInitsRunOnce` | `InTime => (Spec => []ClassInitOnce)` |
| `ChangesAreNotified` | `InTime => (Spec => ChangeNotifies)` |

The assumptions on the constants are those of C++ and GObject: a class has one base `Glib::Object`, constructed
before the members that are given it; no two properties of a class, and no two of an interface, have one name; a null
pointer is no object and no vector.

*The argument.* A number means the same in every object only if every constructor has counted the same things
before it. So the invariant says, for a wrapper under construction, what its constructors have done up to the
step `at`: `Collects` before there is a GObject (the interfaces and functions of the list are those of the steps
so far, in their order), `HasMembers` after it (the members so far are in `val` and, in the same order, in
`prop_base_vector`). `NumbersInv` says of the class that the numbers up to the number of interface values
belong to interface properties and the number past them by `k` to the `k`-th member of the layout, whichever instance
installed it; this is where a late interface would shift the members. `WaitsForCast` says that a GObject which a
wrapper is going to take has none yet and an empty `prop_base_vector` (`~Rewrap`), so that the vector never
has members of two wrappers; `ObjectInv` says that the interface values of an object are as many as those of its
class. `LastInv` finds the last accepted value in the place the get callback will look at: the object's
interface values, its map, or the member. `StackInv` says that the wrappers on the stack are those under
construction, and `ClassInv` which class init functions the class was made with. There is one lemma
per action; each also shows that the action leaves alone what readers of other properties see (`Quiet`), from which
`ChangeNotifies` follows.

### Mmgir

For documents of any depth with any number of flaws (`ParserAssumption`: the bounds are numbers), and any
files (`WorldsAssumption`: there is an input file, as `--gir` is required; a file has sequences of namespaces,
of includes and of prefixes, a directory finitely many files, a namespace a sequence of definitions, and names
are pairs of strings), values of flags and C names (`OutputAssumption`: numbers with a sign, sequences of letters):

| theorem of `MmgirProofs` | statement |
|---|---|
| `ParserReportsErrors` | `Spec => []ParserFaithful` |
| `OneVersion` | `Spec => []VersionsAgree` |
| `NoIncludeLost` | `Spec => []SearchComplete` |
| `UnknownTypesExact` | `Spec => []UnknownExact` |
| `OutputIsFaithful` | `Spec => []OutputFaithful` |

*The parser.* `Table` goes through the 32 elements: an element's parse function complains of what its
struct lacks (`Agrees`), and types occur below a namespace only (`Nested`). The invariant adds the
shape of the stack (`Open`: an active parse function was called by that of the element around it, and the
namespace it works in is the second frame) and ties `m_has_errors` to the objects stored so far
(`ErrorsExact`). The rest of `mmgir` does not touch the parser's state (`RunsParser`).

*The search.* `SearchInv` says of the repositories taken so far: their namespaces have been marked
(`NamesTaken`), their includes are in the queue or have been marked (`IncludesTaken`), and a name that
has been marked belongs to one of them or to a missing file (`NamesExplained`). So a file found for a
name that is not marked has not been read before, which is `NoFileTwice`. A file is missing only if no file
of the directories has that namespace and version (`MissingAbsent`). So when the queue is empty these are the
two theorems. A second version of a namespace is caught where it is marked, in `TakeOne`
for the namespaces of a file and in `SearchRuns` for an include.

*The type resolver.* `UnknownInv` says that the unknown types are those used by name in the repositories
registered so far, less the known and the builtin ones (`Exact`); a file adds its uses to both sides
(`RepositoryRegistered`, one namespace after the other by `NamespaceRegistered`). Recording a mapping never
takes one away and strikes its name off the list (`Maps`), which is why the order of definition and use is
of no account. A builtin name stays one when it is qualified and no other name becomes one (`Qualified`),
so that builtin types are left out in either place.

The passes over definitions and namespaces are recursive functions. What they compute is proved by
`Induction`, which is about a set in place of a predicate (what holds of 0, and of every number whose
predecessor it holds of, holds of all up to n: otherwise the set of the others would have a least
element); that such a function exists is proved in the same way, in `MappingsRecorded` and
`RepositoryRegistered`.

*The output.* Nothing is printed while there are unknown types. So the name of a property's type has been recorded
or is builtin, and either way there is a GParam for it (`GParams`, `PropertyTypeFound`); a property without any type
has stopped the program before (`PropertiesHaveTypes`). Types are not searched in namespaces without a name, and the
proof failed until the model left these out of the two files that the code leaves them out of
(`gen_defs.cc:922`, `:971`). `ValuePrinted` follows a value
through `stoul()`, which wraps negative ones, and the three ways to print it; `TwoTo` is a function, so that
`Induction` shows of powers of two what that needs (`TwoToIs`, `TwoToGrows`, `Complement`). An enumeration and a
bitfield have any set of members: no two members share a definition, and none is lost. `OutputInv` says when there
are no unknown types any more and that a file, once written, stays as it is.


### Ustring

For any characters of the 17 planes, any texts shorter than `npos` bytes, C strings without NUL (that is
where they end) and any positions and counts (`UstringAssumption`):

| theorem | statement |
|---|---|
| `ValidUtf8` of `UstringProofs` | `Spec => []Utf8Valid` |
| `UstringImplements` of `UstringRefinementProofs` | `Spec => Implements`: the class implements `CharString`, but for the calls of `Departs` |

`npos` is 65535 rather than 2^64 - 1, because the provers cannot calculate with large numbers; only that it is
larger than every size is used, which `Fits` and the assumption say of sizes as `max_size()` does of
`std::string`.

*The argument.* That all bytes decode and encode to themselves says nothing of a part of them. The
invariant looks at one character at a time:

    Good(b) == Boundary(b, 0) and at every Boundary(b, p) before the end stands a Character, behind which
               is a Boundary again
    Inv     == both strings are Good and shorter than npos, and an iterator is at a Boundary

`Boundary(b, p)` is that the byte at `p` is no continuation, or that `p` is the end. A part of a good string
between two boundaries is good (`SliceGood`), so are two good strings one behind the other (`ConcatGood`) and
with them every replacement (`ReplaceGood`). What remains is that the code cuts at boundaries only:
`ByteOffset` and `BoundsSpan` for `utf8_byte_offset()` and `Utf8SubstrBounds`, whatever position and count
they are given; `CStringCut` for a string that ends at a NUL; `NextCharacter` and `PreviousCharacter` for the
iterators. Characters that come from outside are encoded by `CharacterEncoded` and `EncodeGood`, which follow
the arithmetic of `g_unichar_to_utf8()`. At the end `EncodeDecoded` derives from `Good` that decoding and
encoding gives the same bytes: `SixBits` and `CharacterDecoded` are the arithmetic of one character, and
`DecodedStepwise` and `EncodedStepwise` take the two recursive functions one byte and one character further.
`Recursion` proves that such functions exist and do what their equations say, by `Induction` about sets.

*That the class implements `CharString`.* Every string of `Inv` is `Encode(cs)` for the text `cs` it decodes
to (`GoodText`, `DecodeEncode`), so that every lemma starts from a text and says what the code does to its
bytes. `Offset(cs, k)`, the number of bytes before character `k`, translates between the two levels: the
boundaries are the offsets (`Boundaries`), they are in the order of the characters (`OffsetOrder`), bytes
between two offsets are those of the characters between (`SliceEncoded`), `utf8_byte_offset()` and
`Utf8SubstrBounds` compute them (`ByteOffsetIs`, `BoundsAre`), `g_utf8_pointer_to_offset()` and `size()` go
back (`PointerToOffset`, `SizeIs`), and an iterator is at one (`IteratorAt`). With that, one lemma says of
each action that it is a step of `CharString`:

- The calls that change a string (`ModificationsStep`, `EditsStep`). `Yields(result, fault, cs)` is that a
  call gives the bytes of `cs` or the exception `fault`. Every argument yields the characters it stands for
  (`SourceYields`), a replacement of bytes yields the replacement of characters (`ReplaceYields`, by
  `SpliceEncoded`), with position and count at or past the end too, and a call either changes the string
  to what it yields or leaves it alone (`ChangeYields`).
- Iterators (`IterationsStep`): `PreviousIs`, `OffsetStep`, `IndexIs`, `ValidateIs`.
- Characters read from bytes: `get_unichar_from_std_iterator()`, with its test of a bit that moves up, and
  GLib's function give the character (`CharRead`, from the arithmetic in `BitsTwo`, `BitsThree` and
  `BitsFour`); a text is read or converted up to the first NUL (`ReadIs`, `Ucs4Is`, `CStringIs`).
- Searches: the byte places of a text are the offsets of the places of the text (`PlacesAre`; UTF-8
  is self-synchronising), and the least and the greatest place correspond (`LeastFound`, `GreatestFound`).
  The loops of `utf8_find_first_of()` and `utf8_find_last_of()` stop at the offset of the character
  that the abstract search finds (`FindFirstIs`, `FindLastIs`, `BackFrom`).
- Comparisons: bytes compare as characters do. `ByteOrder` is that of two characters, from their leading
  bytes and continuations; `EncodedPrecedes` and `EncodedBegins` that of two texts.
- Departures (`DepartStep`, `NotValid`): where a text ends at a NUL for the code and not for `CharString`, the
  result is that for the characters before it, and nothing has changed. A search among the characters of a C string with a
  count finds what the promised one does unless the characters taken are others (`SearchTaken`).
- `compose()` goes from percent sign to percent sign, `CharString` from character to character.
  Percent signs among the bytes are percent signs (`PercentPlace`), what is taken for one is the same on
  both sides (`FrontIs`), and both results agree from every character on, from the end to the start
  (`AgreesFrom`, `ComposeIs`).

Functions that go forwards or backwards by steps of their own exist and obey their equations by
`RankedRecursion`: what they go to has a smaller rank.


## 7 Findings

Three runs are expected to be violated: the code does not do what a comment of the code says.

`dispatcher_recreate` (`dispatcher.cc:474`). `pipe_io_handler()` asks whether the thread has *a*
notifier, not whether it still has *this* one. A slot that deletes the last Dispatcher and creates
another makes the handler go on with the deleted notifier.

`objectbase_wrap` (`dbusconnection.ccg:773`). `wrap()` looks for a wrapper before it takes `wrap_mutex`, and
`ObjectBase` makes a wrapper the current one before the constructors of the derived classes have run. So a
thread can find the wrapper that another one is still constructing: the `dynamic_cast` at `:783` gives
`nullptr`, the caller gets an empty RefPtr, and the reference that was meant for it is never dropped. The comment
at `:100-104` says that `wrap()` must be protected while a wrapper is being constructed, because it can be called
in different threads for the same object. What the model calls the outcome of the cast is that of a
`dynamic_cast` of an object whose most derived constructor has not begun; it is also a data race in C++.

`mmgir_cast` (`gen_defs.cc:110`). `gen_c_type_cast()` takes the letters before the second uppercase letter for
the prefix and then removes one letter less than that, so that the last letter of the prefix is printed twice; the
comment at `:97-98` says that the rest starts from the second uppercase letter. This happens in files without
`c:identifier-prefixes`.

Other things that came up while the models were made, and that the models have as they are in the
code:

- A Dispatcher refused because of its context has no notifier. If it is the last one of the thread,
  the sanity check of its destructor compares `nullptr` with `nullptr`, and the next line
  dereferences it (`dispatcher.cc:320`; `DestroyRefused` excludes it).
- Other threads that use a source during a `connect()` or a disconnection, and the race that `main.cc:152-155`
  describes: section 4.
- `PropertyProxy::reset_value()` sets a zero value, not the default of the property.
  `interface.cc:85-95` overrides properties that a base class has overridden, which `class.cc:278-282`
  avoids. A wrapper that is deleted before its GObject takes its values with it: C code sees those
  that were set before there was a wrapper, or defaults.
- An object copies the interface property values of its class with the first one that is set
  (`property.cc:231-247`). If a base class of the object sets one in its constructor, and an interface that is constructed
  after it adds properties to the class, the copy is too short, and reading or writing one of these goes past its end
  (`property.cc:177`, `:249`). This takes a GLib that lets a class with an instance get an interface, which
  `interface.cc:62-100` relies on. No document says where interfaces have to stand; the tests have them before
  `Glib::Object`.
- `mmgir`: the parser does not insist on some fields `schema.h` has; `Unchecked` lists them. Among them are the type
  of an instance parameter, a pointer that is not even initialised (`schema.h:255`, `parse_gir.cc:669-710`), the
  version of an element (`schema.h:77`) and the file name of a position (`:83`). The types
  of signals are never looked for among the unknown ones. The search is skipped if all types are
  known. Flags of the value -2^31 are left out.
- `mmgir`: an include without a version is never found. `add_includes()` gives it an empty version
  (`parse_gir.cc:1807`), so that the search looks for the key `<name>-`, while the comment at `:1824-1828` says that
  namespaces without a version are kept under their bare name; the branch for no version at `:1889` is dead.
- `ustring`: a count past the end of a C string makes `ustring(const char*, n)`, `append()` and
  others throw `length_error`.
- `ustring` and NULs, which a ustring may hold (`Departs`): `empty()` is documented as "Equivalent to *this == """
  (`ustring.h:649`), but `==` stops at a NUL, so that a string that begins with one equals the empty string and is not
  empty. `compare()` and the relations stop there too, and so do `uppercase()` "of all characters" (`:753`),
  `lowercase()`, and `compose()`. `validate()` and `make_valid()` (`:711-723`) take a NUL for invalid UTF-8.
- `ustring`: `find_first_of(const char*, i, n)` and its kin take `n` as a number of bytes, while
  "all operations are based on characters instead of bytes" (`ustring.h:332-333`; `Departs` again).
- `vectorutils.h`: the postfix operator of `SListIterator` declares a `ListIterator`. An array
  of values or bools is cut at the first 0 if its size is not given.


## 8 What is only model-checked, and what is not modelled

*Only model-checked.*
- All liveness properties (`Delivery`, `OrphansReclaimed`, `EmitReturns`, `WrapReturns`, `NodesReclaimed`): the
  prover does not handle fairness.
- `NothingUndefined` of `Properties`. Its run has `Rewrap = FALSE` and layouts that satisfy `InterfacesInTime`, so
  that it shows bounds and pointers for these; with either let go of it is false (section 4).

No module uses RECURSIVE operators.

*Only proved.* The type invariants of `Dispatcher` and `TimeoutSource`, `WritersAlive` of `Dispatcher`,
`IInv` of `Source` and the invariants of the other modules that section 6 names.

*Left out of modelled parts.*
- `Dispatcher`: the Windows branch (an event and a list under a mutex in place of the pipe); a
  pipe that cannot be created (the constructor throws, nothing is left); partial reads and writes
  (a message is smaller than `PIPE_BUF`).
- `Source`: file descriptors and priorities (data passed on to GLib), child watches beyond their
  source, destruction of a whole `MainContext`, source names.
- `ObjectBase`: multiple inheritance of `ObjectBase` as a virtual base, construct properties,
  `weak` references, types that have no wrapper registered.
- `SignalProxy`: `emission_stop()`, details, return values and the order in which GLib calls
  several slots of one signal.
- `Properties`: custom types that derive from custom types, the kinds of values a property may have, bindings. A
  wrapper is deleted in one step, where the code runs the destructors of the members before that of
  `ObjectBase`: the properties of an object are used from one thread, so that only the destructor of a
  member could ask its own object for a property in between. It would meet a deleted `PropertyBase`.
- `Containers`: arrays and lists of other C++ types than the six traits; threads.
- `Ustring`: invalid UTF-8 (the class does not define what it does with it), normalisation and
  collation (GLib), the streams beyond the text that goes through them.
- `Mmgir`: the XML reader (tinyxml2), documentation strings, the command line, the wording of messages.

*Not modelled.* The parts listed in section 1 as "not modelled yet" are in the plan. The others
hold no state of their own, are input and output of the operating system, or are generated or
build-time code; `PROJECT.json` gives the reason for each.


## 9 Plan

Done: the central ownership rules (`Dispatcher`, `Source`, `ObjectBase`, `SignalProxy`,
`TimeoutSource`), custom types (`Properties`), containers, `Ustring` with its abstract
specification, and `mmgir`; and the proofs of section 6. Next, proofs:

1. The invariant of `Properties` in place of the switch: which layouts beyond `InterfacesInTime` are safe.

Parts that are worth a module, each in place of a run that has been superseded by a proof:

2. `AsyncSlots`: slots copied for one call (`slot_async.cc`, `file.ccg` with a progress slot and a
   ready slot, `Cancellable`, `own_name()`, `watch_name()`, D-Bus filters and objects).
3. `AppOptions`: the option callbacks of `application.ccg`, with the slot called after the mutex has been
   released and applications that come and go.
4. `OptionGroup` and `ParseContext`: entries moved between C and C++, C arguments shared by entries; the
   address GMarkup keeps when a context is moved.
5. A composition of `Source` and `Dispatcher`: the receiver's pipe is watched by an `IOSource` whose slot is
   a member of the notifier.
