----------------------------- MODULE Containers -----------------------------
(***************************************************************************)
(* Containers of C data: glib/glibmm/vectorutils.h, vectorutils.cc and      *)
(* containerhandle_shared.h.                                                *)
(*                                                                         *)
(* A C function returns an array, a GList or a GSList; it becomes a         *)
(* std::vector, element by element, and a keeper destroys what the caller   *)
(* owns of it, also when the conversion of an element throws.  The other    *)
(* way round, a vector becomes an array or a list that is lent to a C       *)
(* function and destroyed after the call.  The data are strings, objects    *)
(* with a reference count, or plain values; the type traits say what a      *)
(* conversion does to their references.                                     *)
(***************************************************************************)
EXTENDS Integers, Sequences, SequencesExt, FiniteSets

CONSTANTS
  Items,      \* C data: pointers, or values other than 0
  NULL,       \* the null pointer, 0
  Garbage,    \* memory that has not been written
  Empty,      \* a string of length 0
  Keepers,    \* ArrayKeeper, GListKeeper and GSListKeeper objects
  Kinds,      \* the traits that are looked at
  MaxLen,     \* the longest container
  MaxRefs     \* the most references that the C side has to one datum

ASSUME KindsAssumption ==
  Kinds \subseteq {"value", "bool", "pointer", "refptr", "string", "variant"}

\* What a C++ value can be.
Elements == Items \cup {NULL, Empty} \cup BOOLEAN

\* No pointer of the data is null, and null is neither a vector nor an OwnershipType.
ASSUME DataAssumption ==
  /\ NULL \notin Items \cup Seq(Elements) \cup {"NONE", "SHALLOW", "DEEP"}
  /\ MaxLen \in Nat
  /\ MaxRefs \in Nat \ {0}

VARIABLES
  kind,    \* the traits of the handler
  refs,    \* references to a datum; a string has one owner or has been freed
  lib,     \* those that belong to the C side
  block,   \* the C container
  keeper,  \* what each keeper owns, or NULL
  vec,     \* the std::vector, or NULL
  call     \* the conversion at work

vars == <<kind, refs, lib, block, keeper, vec, call>>

\* enum OwnershipType.
OwnershipType == {"NONE", "SHALLOW", "DEEP"}

NoBlock == [st |-> "null", form |-> "array", cells |-> <<>>]

Idle == [op |-> "idle", pos |-> 0, size |-> 0, owner |-> "NONE", expected |-> NULL]

Init ==
  /\ kind \in Kinds
  /\ refs = [i \in Items |-> 0]
  /\ lib = [i \in Items |-> 0]
  /\ block = NoBlock
  /\ keeper = [k \in Keepers |-> NULL]
  /\ vec = NULL
  /\ call = Idle

-----------------------------------------------------------------------------
(* Type traits: the references that the C++ value takes, and those that      *)
(* release_c_type() gives back.                                              *)

TypeTraits_value   == [takes |-> 0, releases |-> 0]
TypeTraits_bool    == [takes |-> 0, releases |-> 0]
TypeTraits_pointer == [takes |-> 0, releases |-> 1]
TypeTraits_string  == [takes |-> 0, releases |-> 1]
TypeTraits_variant == [takes |-> 1, releases |-> 1]

\* The mutant: wrap_auto() without take_copy.
TypeTraits_refptr_borrows == [takes |-> 0, releases |-> 1]
TypeTraits_refptr  == [takes |-> 1, releases |-> 1]

TypeTraits == [value |-> TypeTraits_value, bool |-> TypeTraits_bool,
               pointer |-> TypeTraits_pointer, refptr |-> TypeTraits_refptr,
               string |-> TypeTraits_string, variant |-> TypeTraits_variant][kind]

(* The C++ value that an element becomes: a bool, a copy of a string, which  *)
(* is empty for a null pointer, or a wrapper of the same datum.              *)
to_cpp_type(c) ==
  CASE kind = "bool" -> c # NULL
    [] kind = "string" /\ c = NULL -> Empty
    [] OTHER -> c

\* The way back: the C string of an empty string is not null.
to_c_type(x) == IF kind = "bool" THEN (IF x THEN 1 ELSE NULL) ELSE x

\* Values of these kinds do not fit into the pointer of a list node.
Forms == IF kind \in {"value", "bool"} THEN {"array"} ELSE {"array", "glist", "gslist"}

\* The data have an owner.
Counted == TypeTraits.releases = 1

Occurrences(i, s) == Cardinality({n \in DOMAIN s : s[n] = i})

First(n, s) == SubSeq(s, 1, n)

\* The references r after n for each element of s have been added.
Add(r, s, n) == [i \in Items |-> r[i] + n * Occurrences(i, s)]

\* What the destructor of a C++ value gives back: only RefPtr and VariantBase do.
ElementOwns == IF kind \in {"refptr", "variant"} THEN 1 ELSE 0

Held(s) == IF s = NULL THEN <<>> ELSE s

-----------------------------------------------------------------------------
(* The C side.                                                               *)

InC == call.op \in {"idle", "c_call"}

\* The library makes a datum, copies a string it was lent, or takes a reference.
LibTakes(i) ==
  /\ InC /\ Counted
  /\ lib[i] < (IF kind = "string" THEN 1 ELSE MaxRefs)
  /\ call.op = "c_call" => i \in Range(block.cells)
  /\ refs' = [refs EXCEPT ![i] = @ + 1]
  /\ lib' = [lib EXCEPT ![i] = @ + 1]
  /\ UNCHANGED <<kind, block, keeper, vec, call>>

\* It drops one; a vector of plain pointers is not used for longer than the objects.
LibDrops(i) ==
  /\ InC /\ Counted
  /\ lib[i] > 0
  /\ kind = "pointer" /\ lib[i] = 1 => i \notin Range(Held(vec))
  /\ refs' = [refs EXCEPT ![i] = @ - 1]
  /\ lib' = [lib EXCEPT ![i] = @ - 1]
  /\ UNCHANGED <<kind, block, keeper, vec, call>>

-----------------------------------------------------------------------------
(* Keepers.                                                                  *)

Keep(k, ownership) == keeper' = [keeper EXCEPT ![k] = ownership]

\* g_free(), g_list_free() and g_slist_free().
FreeBlock(b) == [b EXCEPT !.st = IF @ = "live" THEN "freed" ELSE "twice"]

(* The elements that are released: as many as the keeper of an array was     *)
(* told, or those of every node of a list.                                   *)
ArrayElements(size) == First(size, block.cells)
ListElements == block.cells
Owned(size) == IF block.form = "array" THEN ArrayElements(size) ELSE ListElements

\* The mutant: a container whose elements are not owned is not freed.
DestroyKeeper_keeps(r, ownership, size) ==
  IF block.st = "null" \/ ownership # "DEEP"
  THEN [refs |-> r, block |-> block]
  ELSE [block |-> FreeBlock(block),
        refs |-> Add(r, Owned(size), -TypeTraits.releases)]

(* ~ArrayKeeper(), ~GListKeeper() and ~GSListKeeper(): the elements are      *)
(* released if they are owned, and the container is freed.                   *)
DestroyKeeper(r, ownership, size) ==
  IF block.st = "null" \/ ownership = "NONE"
  THEN [refs |-> r, block |-> block]
  ELSE [block |-> FreeBlock(block),
        refs |-> IF ownership = "DEEP"
                 THEN Add(r, Owned(size), -TypeTraits.releases) ELSE r]

\* The keeper k goes, after the references have become r.
KeeperGoesWith(k, r) ==
  LET after == DestroyKeeper(r, keeper[k], call.size)
  IN  /\ keeper[k] # NULL
      /\ refs' = after.refs
      /\ block' = after.block
      /\ Keep(k, NULL)

-----------------------------------------------------------------------------
(* From C to C++.                                                            *)

\* The mutant: the final 0 is counted.
compute_array_size2_with_0(cells) ==
  Cardinality({n \in DOMAIN cells : \A m \in 1 .. n - 1 : cells[m] # NULL})

\* compute_array_size2(): the elements before the first 0.
compute_array_size2(cells) ==
  Cardinality({n \in DOMAIN cells : \A m \in 1 .. n : cells[m] # NULL})

CellSeqs == UNION {[1 .. n -> Items \cup {NULL}] : n \in 0 .. MaxLen}

\* What the caller is given with a container of which it owns the elements.
Transfer(cells, ownership) ==
  IF ~Counted THEN UNCHANGED refs
  ELSE IF ownership = "DEEP"
  THEN /\ kind = "string" => \A i \in Items : Occurrences(i, cells) <= 1 - refs[i]
       /\ kind = "pointer" => \A i \in Items : Occurrences(i, cells) > 0 => lib[i] > 0
       /\ refs' = Add(refs, cells, 1)
  ELSE /\ \A i \in Items : Occurrences(i, cells) > 0 => lib[i] > 0
       /\ UNCHANGED refs

(* A C function returns a container, and a conversion of it begins: the      *)
(* keeper is made with the size of the container and the given ownership.    *)
BeginConversion(form, cells, size, ownership, expected) ==
  /\ call.op = "idle" /\ vec = NULL
  /\ Transfer(First(size, cells), ownership)
  /\ block' = [st |-> "live", form |-> form, cells |-> cells]
  /\ \E k \in Keepers : Keep(k, ownership)
  /\ vec' = <<>>
  /\ call' = [op |-> "to_vector", pos |-> 0, size |-> size, owner |-> ownership,
              expected |-> expected]
  /\ UNCHANGED <<kind, lib>>

\* The C++ values of a sequence, and those of the part before the first 0.
Values(cells) == [n \in DOMAIN cells |-> to_cpp_type(cells[n])]
ValuesBefore0(cells) ==
  LET zero == SelectInSeq(cells, LAMBDA c : c = NULL)
  IN  Values(IF zero = 0 THEN cells ELSE First(zero - 1, cells))

\* ArrayHandler::array_to_vector(array, array_size, ownership).
array_to_vector(cells, ownership) ==
  BeginConversion("array", cells, Len(cells), ownership, Values(cells))

\* ArrayHandler::array_to_vector(array, ownership): the array ends with a 0.
array_to_vector_0(cells, ownership) ==
  LET array == Append(cells, NULL)
  IN  BeginConversion("array", array, compute_array_size2(array), ownership,
                      ValuesBefore0(cells))

\* ListHandler::list_to_vector(); a list that is not null has a node.
list_to_vector(cells, ownership) ==
  /\ "glist" \in Forms /\ cells # <<>>
  /\ BeginConversion("glist", cells, Len(cells), ownership, Values(cells))

\* SListHandler::slist_to_vector().
slist_to_vector(cells, ownership) ==
  /\ "gslist" \in Forms /\ cells # <<>>
  /\ BeginConversion("gslist", cells, Len(cells), ownership, Values(cells))

\* A null pointer becomes an empty vector, whoever owns it.
null_to_vector(form) ==
  /\ call.op = "idle" /\ vec = NULL /\ form \in Forms
  /\ block' = [NoBlock EXCEPT !.form = form]
  /\ vec' = <<>>
  /\ call' = [Idle EXCEPT !.expected = <<>>]
  /\ UNCHANGED <<kind, refs, lib, keeper>>

\* operator*() of ArrayIterator, ListIterator and SListIterator, then operator++().
Element(n) == block.cells[n]

\* One element is converted and the next one is looked at.
ConvertElement ==
  LET c == Element(call.pos + 1)
  IN  /\ call.op = "to_vector"
      /\ call.pos < call.size
      /\ vec' = Append(vec, to_cpp_type(c))
      /\ refs' = Add(refs, <<c>>, TypeTraits.takes)
      /\ call' = [call EXCEPT !.pos = @ + 1]
      /\ UNCHANGED <<kind, lib, block, keeper>>

\* The conversion returns: the keeper goes, the vector is the result.
EndConversion ==
  /\ call.op = "to_vector"
  /\ call.pos = call.size
  /\ \E k \in Keepers : KeeperGoesWith(k, refs)
  /\ call' = [call EXCEPT !.op = "idle"]
  /\ UNCHANGED <<kind, lib, vec>>

(* The next element cannot be made, or has no room: the elements that were   *)
(* converted are destroyed, then the keeper.                                 *)
Throw ==
  /\ call.op = "to_vector"
  /\ call.pos < call.size
  /\ \E k \in Keepers : KeeperGoesWith(k, Add(refs, vec, -ElementOwns))
  /\ vec' = NULL
  /\ call' = [call EXCEPT !.op = "idle", !.expected = NULL]
  /\ UNCHANGED <<kind, lib>>

-----------------------------------------------------------------------------
(* From C++ to C.                                                            *)

\* A vector becomes a container b, which is filled by the steps that follow.
BeginCreate(b) ==
  /\ call.op = "idle" /\ vec # NULL
  /\ b.form \in Forms
  /\ block' = b
  /\ call' = [Idle EXCEPT !.op = "create", !.size = Len(vec), !.owner = "SHALLOW"]
  /\ UNCHANGED <<kind, refs, lib, keeper, vec>>

\* ArrayHandler::vector_to_array(): memory for one element more than the vector has.
vector_to_array ==
  BeginCreate([st |-> "live", form |-> "array",
               cells |-> [n \in 1 .. Len(Held(vec)) + 1 |-> Garbage]])

\* ListHandler::vector_to_list() and SListHandler::vector_to_slist(): no node yet.
vector_to_list == BeginCreate([NoBlock EXCEPT !.form = "glist"])
vector_to_slist == BeginCreate([NoBlock EXCEPT !.form = "gslist"])

\* create_array() writes the next element.
create_array ==
  /\ call.op = "create" /\ block.form = "array" /\ kind # "bool"
  /\ call.pos < call.size
  /\ block' = [block EXCEPT !.cells[call.pos + 1] = to_c_type(vec[call.pos + 1])]
  /\ call' = [call EXCEPT !.pos = @ + 1]
  /\ UNCHANGED <<kind, refs, lib, keeper, vec>>

\* create_bool_array() does; std::vector<bool> has no elements to point to.
create_bool_array ==
  /\ call.op = "create" /\ block.form = "array" /\ kind = "bool"
  /\ call.pos < call.size
  /\ block' = [block EXCEPT !.cells[call.pos + 1] = IF vec[call.pos + 1] THEN 1 ELSE NULL]
  /\ call' = [call EXCEPT !.pos = @ + 1]
  /\ UNCHANGED <<kind, refs, lib, keeper, vec>>

\* The mutant: the elements are taken from the front.
Prepended_front == <<to_c_type(vec[call.pos + 1])>> \o block.cells

\* g_list_prepend() and g_slist_prepend() of the elements from the back.
Prepended == <<to_c_type(vec[Len(vec) - call.pos])>> \o block.cells

\* create_glist().
create_glist ==
  /\ call.op = "create" /\ block.form = "glist"
  /\ call.pos < call.size
  /\ block' = [block EXCEPT !.st = "live", !.cells = Prepended]
  /\ call' = [call EXCEPT !.pos = @ + 1]
  /\ UNCHANGED <<kind, refs, lib, keeper, vec>>

\* create_gslist().
create_gslist ==
  /\ call.op = "create" /\ block.form = "gslist"
  /\ call.pos < call.size
  /\ block' = [block EXCEPT !.st = "live", !.cells = Prepended]
  /\ call' = [call EXCEPT !.pos = @ + 1]
  /\ UNCHANGED <<kind, refs, lib, keeper, vec>>

(* The container is complete, an array with its final 0; a keeper gets it,   *)
(* and data() goes to a C function.                                          *)
EndCreate ==
  /\ call.op = "create"
  /\ call.pos = call.size
  /\ block' = IF block.form = "array"
              THEN [block EXCEPT !.cells[call.size + 1] = NULL] ELSE block
  /\ \E k \in Keepers : Keep(k, "SHALLOW")
  /\ call' = [call EXCEPT !.op = "c_call"]
  /\ UNCHANGED <<kind, refs, lib, vec>>

\* The copy constructors: the copy owns what the original did.
Moved(k, l) == [keeper EXCEPT ![l] = keeper[k], ![k] = "NONE"]

CopyKeeper(k, l) ==
  /\ call.op = "c_call"
  /\ keeper[k] # NULL /\ keeper[l] = NULL
  /\ keeper' = Moved(k, l)
  /\ UNCHANGED <<kind, refs, lib, block, vec, call>>

\* A keeper is destroyed: the one that owns the container after the C function has returned.
KeeperGoes(k) ==
  /\ call.op \in {"c_call", "returned"}
  /\ call.op = "c_call" => keeper[k] = "NONE"
  /\ KeeperGoesWith(k, refs)
  /\ call' = IF \A l \in Keepers \ {k} : keeper[l] = NULL
             THEN [call EXCEPT !.op = "idle"] ELSE call
  /\ UNCHANGED <<kind, lib, vec>>

CReturns ==
  /\ call.op = "c_call"
  /\ call' = [call EXCEPT !.op = "returned"]
  /\ UNCHANGED <<kind, refs, lib, block, keeper, vec>>

\* The vector is destroyed, and its elements with it.
DropVector ==
  /\ call.op = "idle" /\ vec # NULL
  /\ refs' = Add(refs, vec, -ElementOwns)
  /\ vec' = NULL
  /\ call' = Idle
  /\ UNCHANGED <<kind, lib, block, keeper>>

Next ==
  \/ \E i \in Items : LibTakes(i) \/ LibDrops(i)
  \/ \E cells \in CellSeqs, ownership \in OwnershipType :
       \/ array_to_vector(cells, ownership)
       \/ array_to_vector_0(cells, ownership)
       \/ list_to_vector(cells, ownership)
       \/ slist_to_vector(cells, ownership)
  \/ \E form \in {"array", "glist", "gslist"} : null_to_vector(form)
  \/ vector_to_array \/ vector_to_list \/ vector_to_slist
  \/ ConvertElement \/ EndConversion \/ Throw
  \/ create_array \/ create_bool_array \/ create_glist \/ create_gslist \/ EndCreate
  \/ \E k, l \in Keepers : CopyKeeper(k, l)
  \/ \E k \in Keepers : KeeperGoes(k)
  \/ CReturns \/ DropVector

Spec == Init /\ [][Next]_vars

-----------------------------------------------------------------------------
(* Properties.                                                               *)

\* Every variable has the type its comment gives it.
TypeOK ==
  /\ kind \in Kinds
  /\ refs \in [Items -> 0 .. MaxRefs + 2 * MaxLen]
  /\ lib \in [Items -> 0 .. MaxRefs]
  /\ block.st \in {"null", "live", "freed"}
  /\ block.form \in Forms \cup {"array"}
  /\ keeper \in [Keepers -> OwnershipType \cup {NULL}]
  /\ vec # NULL => Len(vec) \in 0 .. MaxLen
  /\ call.op \in {"idle", "to_vector", "create", "c_call", "returned"}
  /\ call.pos \in 0 .. call.size

\* References that came with the container and have not been released yet.
Pending(i) ==
  IF Counted /\ call.op = "to_vector" /\ call.owner = "DEEP"
  THEN Occurrences(i, First(call.size, block.cells)) ELSE 0

(* No reference is lost and none is given back twice, at any step of a       *)
(* conversion and after one that threw in the middle: those of a datum are   *)
(* the library's, those that came with a container the caller owns deeply,   *)
(* and one for each element of a vector of RefPtrs or variants.              *)
RefsExact ==
  /\ TypeOK
  /\ \A i \in Items :
       refs[i] = lib[i] + Pending(i) + ElementOwns * Occurrences(i, Held(vec))

(* Between two conversions no keeper is left, and a container the caller     *)
(* owned has been freed, once, however often its keeper was copied.          *)
NothingLeft ==
  call.op = "idle" =>
    /\ \A k \in Keepers : keeper[k] = NULL
    /\ block.st \in (IF call.owner = "NONE" THEN {"null", "live", "freed"} ELSE {"null", "freed"})

(* While the C function runs it sees the elements of the vector in order,    *)
(* in memory that has been written and not been freed, an array with a 0 at  *)
(* its end.                                                                  *)
CSeesVector ==
  call.op = "c_call" =>
    LET cells == [n \in DOMAIN vec |-> to_c_type(vec[n])]
    IN  /\ block.cells = IF block.form = "array" THEN Append(cells, NULL) ELSE cells
        /\ block.st = (IF block.cells = <<>> THEN "null" ELSE "live")

(* A conversion that returns gives every element, in order; of an array      *)
(* whose size is not given, those before the first 0.                        *)
VectorComplete ==
  call.op = "idle" /\ call.expected # NULL /\ vec # NULL => vec = call.expected
=============================================================================
