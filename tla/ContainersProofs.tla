-------------------------- MODULE ContainersProofs --------------------------
(***************************************************************************)
(* Proofs about Containers for any data, any number of keepers and         *)
(* containers of any length.                                               *)
(*                                                                         *)
(* None of the four properties is inductive alone.  That the references    *)
(* are exact needs that a conversion has one keeper and that it owns what  *)
(* the call was given; that nothing is left needs the same of the way      *)
(* back, where keepers are copied.  What C sees and what a conversion      *)
(* returns are the end of a loop: the invariant says how far it has come.  *)
(* IInv has a conjunct for each phase of a call.                           *)
(***************************************************************************)
EXTENDS Containers, FiniteSetTheorems, SequenceTheorems, WellFoundedInduction, TLAPS

\* What a cell of a container can hold.
Cells == Elements \cup {Garbage, 1}

Blocks == [st : {"null", "live", "freed"}, form : {"array", "glist", "gslist"},
           cells : Seq(Cells)]

Calls == [op : {"idle", "to_vector", "create", "c_call", "returned"}, pos : Nat,
          size : 0..MaxLen, owner : OwnershipType, expected : Seq(Elements) \cup {NULL}]

TypeInv ==
  /\ kind \in Kinds
  /\ refs \in [Items -> Int]
  /\ lib \in [Items -> 0..MaxRefs]
  /\ block \in Blocks
  /\ block.form \in Forms \cup {"array"}
  /\ keeper \in [Keepers -> OwnershipType \cup {NULL}]
  /\ vec \in Seq(Elements) \cup {NULL}
  /\ vec # NULL => Len(vec) <= MaxLen
  /\ call \in Calls
  /\ call.pos <= call.size

NoKeeper == \A k \in Keepers : keeper[k] = NULL

\* The keeper k is the only one, and it owns o.
OnlyKeeper(k, o) == keeper[k] = o /\ \A l \in Keepers \ {k} : keeper[l] = NULL

\* The keeper k owns a container that it got with a vector, the other ones do not.
Lends(k) ==
  /\ keeper[k] = "SHALLOW"
  /\ \A l \in Keepers \ {k} : keeper[l] \in {"NONE", NULL}

\* A call that goes from a vector to C.
FromVector == call.owner = "SHALLOW" /\ call.expected = NULL

WhenIdle ==
  /\ NoKeeper
  /\ call.owner # "NONE" => block.st # "live"
  /\ call.expected # NULL /\ vec # NULL => vec = call.expected

\* As far as the conversion has come the vector is what it has to be.
WhenConverting ==
  /\ \E k \in Keepers : OnlyKeeper(k, call.owner)
  /\ block.st = "live"
  /\ call.size <= Len(block.cells)
  /\ block.form # "array" => call.size = Len(block.cells)
  /\ \A n \in 1..call.size : block.cells[n] \in Items \cup {NULL}
  /\ vec # NULL /\ Len(vec) = call.pos
  /\ call.expected # NULL /\ Len(call.expected) = call.size
  /\ \A n \in 1..call.size : call.expected[n] = to_cpp_type(block.cells[n])
  /\ \A n \in 1..call.pos : vec[n] = call.expected[n]

\* An array is filled from the front, a list from the back.
WhenCreating ==
  /\ NoKeeper /\ FromVector
  /\ vec # NULL /\ Len(vec) = call.size
  /\ block.form = "array" =>
       /\ block.st = "live"
       /\ Len(block.cells) = call.size + 1
       /\ \A n \in 1..call.pos : block.cells[n] = to_c_type(vec[n])
  /\ block.form # "array" =>
       /\ block.st = (IF call.pos = 0 THEN "null" ELSE "live")
       /\ Len(block.cells) = call.pos
       /\ \A n \in 1..call.pos : block.cells[n] = to_c_type(vec[call.size - call.pos + n])

WhenLent ==
  /\ FromVector /\ vec # NULL
  /\ \E k \in Keepers : Lends(k)
  /\ block.st # "freed"
  /\ CSeesVector

WhenReturned ==
  /\ FromVector
  /\ \/ block.st # "freed" /\ \E k \in Keepers : Lends(k)
     \/ /\ block.st # "live"
        /\ \A k \in Keepers : keeper[k] \in {"NONE", NULL}

Phase ==
  /\ call.op = "idle" => WhenIdle
  /\ call.op = "to_vector" => WhenConverting
  /\ call.op = "create" => WhenCreating
  /\ call.op = "c_call" => WhenLent
  /\ call.op = "returned" => WhenReturned

Balanced ==
  \A i \in Items :
    refs[i] = lib[i] + Pending(i) + ElementOwns * Occurrences(i, Held(vec))

IInv == TypeInv /\ Phase /\ Balanced

-----------------------------------------------------------------------------
(* Counting occurrences. *)

LEMMA OccurrencesType ==
  ASSUME NEW S, NEW s \in Seq(S), NEW i
  PROVE  /\ IsFiniteSet({n \in DOMAIN s : s[n] = i})
         /\ Occurrences(i, s) \in Nat
         /\ Occurrences(i, s) <= Len(s)
  <1>1. DOMAIN s = 1..Len(s) /\ Len(s) \in Nat
    BY LenProperties
  <1>2. IsFiniteSet(1..Len(s)) /\ Cardinality(1..Len(s)) = Len(s)
    BY SMTT(30), <1>1, FS_Interval
  <1>3. {n \in DOMAIN s : s[n] = i} \in SUBSET (1..Len(s))
    BY <1>1
  <1> QED  BY <1>2, <1>3, FS_Subset, FS_CardinalityType DEF Occurrences

LEMMA OccurrencesSingle ==
  ASSUME NEW i, NEW c
  PROVE  Occurrences(i, <<c>>) = IF c = i THEN 1 ELSE 0
  <1>1. CASE c = i
    <2>1. {n \in DOMAIN <<c>> : <<c>>[n] = i} = {1}
      BY <1>1
    <2> QED  BY <1>1, <2>1, FS_Singleton DEF Occurrences
  <1>2. CASE c # i
    <2>1. {n \in DOMAIN <<c>> : <<c>>[n] = i} = {}
      BY <1>2
    <2> QED  BY <1>2, <2>1, FS_EmptySet DEF Occurrences
  <1> QED  BY <1>1, <1>2

LEMMA OccurrencesEmpty ==
  ASSUME NEW i
  PROVE  Occurrences(i, <<>>) = 0
  <1>1. {n \in DOMAIN <<>> : <<>>[n] = i} = {}
    OBVIOUS
  <1> QED  BY <1>1, FS_EmptySet DEF Occurrences

LEMMA OccurrencesAppend ==
  ASSUME NEW S, NEW s \in Seq(S), NEW c \in S, NEW i
  PROVE  Occurrences(i, Append(s, c)) = Occurrences(i, s) + Occurrences(i, <<c>>)
  <1> DEFINE N == {n \in DOMAIN s : s[n] = i}
             l == Len(s) + 1
             t == Append(s, c)
  <1>1. /\ DOMAIN s = 1..Len(s) /\ Len(s) \in Nat /\ DOMAIN t = 1..l /\ t[l] = c
        /\ \A n \in DOMAIN s : t[n] = s[n]
    OBVIOUS
  <1>2. IsFiniteSet(N) /\ Cardinality(N) = Occurrences(i, s) /\ Occurrences(i, s) \in Nat
    BY OccurrencesType DEF Occurrences
  <1>3. Occurrences(i, t) = Cardinality({n \in DOMAIN t : t[n] = i})
    BY DEF Occurrences
  <1> HIDE DEF N, l, t
  <1>4. CASE c = i
    <2>1. {n \in DOMAIN t : t[n] = i} = N \cup {l}
      BY <1>1, <1>4 DEF N, l
    <2>2. l \notin N
      BY <1>1 DEF N, l
    <2>3. Occurrences(i, t) = Occurrences(i, s) + 1
      BY ZenonT(40), <1>2, <1>3, <2>1, <2>2, FS_AddElement
    <2> QED  BY <1>4, <2>3, OccurrencesSingle DEF t
  <1>5. CASE c # i
    <2>1. {n \in DOMAIN t : t[n] = i} = N
      BY <1>1, <1>5 DEF N, l
    <2>2. Occurrences(i, t) = Occurrences(i, s)
      BY <1>2, <1>3, <2>1
    <2>3. Occurrences(i, <<c>>) = 0
      BY <1>5, OccurrencesSingle
    <2> QED  BY <1>2, <2>2, <2>3 DEF t
  <1> QED  BY <1>4, <1>5

-----------------------------------------------------------------------------
(* Type traits. *)

\* Whatever the kind, the references that a C++ value takes are those that it gives back
\* when it is destroyed.
LEMMA Traits ==
  ASSUME kind \in Kinds
  PROVE  /\ TypeTraits.takes = ElementOwns
         /\ ElementOwns \in {0, 1}
         /\ TypeTraits.releases \in {0, 1}
         /\ Counted <=> TypeTraits.releases = 1
         /\ ElementOwns = 1 => Counted /\ kind \in {"refptr", "variant"}
  <1> USE DEF TypeTraits, TypeTraits_value, TypeTraits_bool, TypeTraits_pointer,
              TypeTraits_refptr, TypeTraits_string, TypeTraits_variant, ElementOwns, Counted
  <1>1. CASE kind = "value"
    BY <1>1
  <1>2. CASE kind = "bool"
    BY <1>2
  <1>3. CASE kind = "pointer"
    BY <1>3
  <1>4. CASE kind = "refptr"
    BY <1>4
  <1>5. CASE kind = "string"
    BY <1>5
  <1>6. CASE kind = "variant"
    BY <1>6
  <1> QED  BY <1>1, <1>2, <1>3, <1>4, <1>5, <1>6, KindsAssumption

LEMMA Conversions ==
  ASSUME kind \in Kinds
  PROVE  /\ \A c \in Items \cup {NULL} :
              /\ to_cpp_type(c) \in Elements
              /\ kind \in {"refptr", "variant"} => to_cpp_type(c) = c
         /\ \A x \in Elements : to_c_type(x) \in Cells
  BY DEF to_cpp_type, to_c_type, Elements, Cells

\* Adding n times the occurrences.
LEMMA AddProperties ==
  ASSUME NEW r \in [Items -> Int], NEW S, NEW s \in Seq(S), NEW n \in {-1, 0, 1}
  PROVE  /\ Add(r, s, n) \in [Items -> Int]
         /\ \A i \in Items :
              Add(r, s, n)[i] = IF n = 0 THEN r[i]
                                ELSE IF n = 1 THEN r[i] + Occurrences(i, s)
                                ELSE r[i] - Occurrences(i, s)
  <1>1. \A i \in Items : r[i] \in Int /\ Occurrences(i, s) \in Nat
    BY OccurrencesType
  <1> QED  BY <1>1 DEF Add

-----------------------------------------------------------------------------
(* What the actions share. *)

LEMMA Types ==
  ASSUME TypeInv
  PROVE  /\ call.op \in {"idle", "to_vector", "create", "c_call", "returned"}
         /\ call.pos \in Nat /\ call.size \in 0..MaxLen /\ call.pos <= call.size
         /\ call.owner \in OwnershipType /\ call.expected \in Seq(Elements) \cup {NULL}
         /\ block.st \in {"null", "live", "freed"}
         /\ block.form \in {"array", "glist", "gslist"}
         /\ block.cells \in Seq(Cells)
         /\ MaxLen \in Nat
         /\ Held(vec) \in Seq(Elements)
  BY DataAssumption DEF TypeInv, Calls, Blocks, Held

\* The first elements of a sequence.
LEMMA FirstProperties ==
  ASSUME NEW S, NEW s \in Seq(S), NEW n \in 0..Len(s)
  PROVE  /\ First(n, s) \in Seq(S)
         /\ Len(First(n, s)) = n
         /\ \A m \in 1..n : First(n, s)[m] = s[m]
         /\ n = Len(s) => First(n, s) = s
  <1>1. \A m \in 1..n : s[m] \in S
    OBVIOUS
  <1>2. /\ SubSeq(s, 1, n) \in Seq(S)
        /\ Len(SubSeq(s, 1, n)) = IF 1 <= n THEN n - 1 + 1 ELSE 0
        /\ \A m \in 1..(n - 1 + 1) : SubSeq(s, 1, n)[m] = s[1 + m - 1]
    BY <1>1, SubSeqProperties
  <1>3. n = Len(s) => SubSeq(s, 1, n) = s
    BY SubSeqFull
  <1> QED  BY <1>2, <1>3 DEF First

\* What is pending can be counted.
LEMMA PendingType ==
  ASSUME TypeInv, Phase, NEW i
  PROVE  Pending(i) \in Nat
  <1>1. CASE call.op = "to_vector"
    <2>1. First(call.size, block.cells) \in Seq(Cells)
      BY <1>1, Types, FirstProperties DEF Phase, WhenConverting
    <2> QED  BY <2>1, OccurrencesType DEF Pending
  <1>2. CASE call.op # "to_vector"
    BY <1>2 DEF Pending
  <1> QED  BY <1>1, <1>2

\* The library's references change in step with the count; nothing else does.
LEMMA LibBalanced ==
  ASSUME IInv, NEW i \in Items, NEW d \in {-1, 1},
         UNCHANGED <<kind, block, keeper, vec, call>>,
         refs' = [refs EXCEPT ![i] = @ + d],
         lib' = [lib EXCEPT ![i] = @ + d],
         lib[i] + d \in 0..MaxRefs
  PROVE  IInv'
  <1>1. refs \in [Items -> Int] /\ lib \in [Items -> 0..MaxRefs] /\ MaxRefs \in Nat
    BY DataAssumption DEF IInv, TypeInv
  <1>2. TypeInv'
    BY <1>1 DEF IInv, TypeInv, Forms
  <1>3. Phase'
    BY DEF IInv, Phase, WhenIdle, WhenConverting, WhenCreating, WhenLent, WhenReturned,
           NoKeeper, OnlyKeeper, Lends, FromVector, CSeesVector, to_c_type, to_cpp_type
  <1>4. Balanced'
    <2> SUFFICES ASSUME NEW j \in Items
                 PROVE  (refs[j] = lib[j] + Pending(j)
                                   + ElementOwns * Occurrences(j, Held(vec)))'
      BY DEF Balanced
    <2> DEFINE P == Pending(j)
               O == ElementOwns * Occurrences(j, Held(vec))
    <2>1. P' = P /\ O' = O
      BY DEF Pending, Counted, TypeTraits, ElementOwns, Held
    <2>2. refs[j] = lib[j] + P + O
      BY DEF IInv, Balanced
    <2>3. P \in Int /\ O \in Int
      <3>1. Occurrences(j, Held(vec)) \in Nat /\ ElementOwns \in {0, 1}
        BY Types, OccurrencesType, Traits DEF IInv, TypeInv
      <3>2. Pending(j) \in Nat
        BY PendingType DEF IInv
      <3> QED  BY <3>1, <3>2
    <2> HIDE DEF P, O
    <2>4. refs'[j] = lib'[j] + P + O
      BY <1>1, <2>2, <2>3
    <2> QED  BY <2>1, <2>4 DEF P, O
  <1> QED  BY <1>2, <1>3, <1>4 DEF IInv

LEMMA LibTakesIInv ==
  ASSUME IInv, NEW i \in Items, LibTakes(i)
  PROVE  IInv'
  <1>1. lib[i] \in 0..MaxRefs /\ MaxRefs \in Nat \ {0}
    BY DataAssumption DEF IInv, TypeInv
  <1>2. lib[i] + 1 \in 0..MaxRefs
    BY <1>1 DEF LibTakes
  <1> QED  BY <1>2, LibBalanced DEF LibTakes

LEMMA LibDropsIInv ==
  ASSUME IInv, NEW i \in Items, LibDrops(i)
  PROVE  IInv'
  <1>1. lib[i] \in 0..MaxRefs /\ MaxRefs \in Nat \ {0} /\ refs[i] \in Int
    BY DataAssumption DEF IInv, TypeInv
  <1>2. lib[i] + (-1) \in 0..MaxRefs
    BY <1>1 DEF LibDrops
  <1>3. /\ refs' = [refs EXCEPT ![i] = @ + (-1)] /\ lib' = [lib EXCEPT ![i] = @ + (-1)]
        /\ UNCHANGED <<kind, block, keeper, vec, call>>
    BY <1>1 DEF LibDrops
  <1> QED  BY <1>2, <1>3, LibBalanced

\* A keeper goes; the references have become r before.
LEMMA Destroyed ==
  ASSUME TypeInv, NEW k \in Keepers, NEW STATE r, r \in [Items -> Int], KeeperGoesWith(k, r),
         call.size <= Len(block.cells) \/ keeper[k] # "DEEP",
         block.st # "freed" \/ keeper[k] = "NONE"
  PROVE  /\ keeper' = [keeper EXCEPT ![k] = NULL]
         /\ block' \in Blocks
         /\ block'.form = block.form /\ block'.cells = block.cells
         /\ block'.st = IF block.st = "null" \/ keeper[k] = "NONE" THEN block.st ELSE "freed"
         /\ refs' \in [Items -> Int]
         /\ keeper[k] # "DEEP" => refs' = r
         /\ keeper[k] = "DEEP" /\ block.st = "live" =>
              \A i \in Items :
                refs'[i] = IF Counted THEN r[i] - Occurrences(i, Owned(call.size)) ELSE r[i]
  <1>1. /\ keeper' = [keeper EXCEPT ![k] = NULL] /\ keeper[k] # NULL
        /\ refs' = DestroyKeeper(r, keeper[k], call.size).refs
        /\ block' = DestroyKeeper(r, keeper[k], call.size).block
    BY DEF KeeperGoesWith, Keep
  <1>2. keeper[k] \in OwnershipType
    BY <1>1 DEF TypeInv
  <1>3. CASE block.st = "null" \/ keeper[k] = "NONE"
    <2>1. refs' = r /\ block' = block
      BY <1>1, <1>3 DEF DestroyKeeper
    <2> QED  BY <1>1, <1>3, <2>1 DEF TypeInv
  <1>4. CASE ~(block.st = "null" \/ keeper[k] = "NONE")
    <2>1. block.st = "live"
      BY <1>4, Types
    <2>2. /\ refs' = IF keeper[k] = "DEEP"
                     THEN Add(r, Owned(call.size), -TypeTraits.releases) ELSE r
          /\ block' = [block EXCEPT !.st = "freed"]
      BY <1>1, <1>4, <2>1 DEF DestroyKeeper, FreeBlock
    <2>3. /\ block' \in Blocks
          /\ block'.form = block.form /\ block'.cells = block.cells /\ block'.st = "freed"
      BY <2>2 DEF TypeInv, Blocks
    <2>4. CASE keeper[k] # "DEEP"
      BY <1>1, <1>4, <2>2, <2>3, <2>4
    <2>5. CASE keeper[k] = "DEEP"
      <3>1. Owned(call.size) \in Seq(Cells)
        BY <2>5, Types, FirstProperties DEF Owned, ArrayElements, ListElements
      <3>2. -TypeTraits.releases \in {-1, 0} /\ (Counted <=> -TypeTraits.releases = -1)
        BY Traits DEF TypeInv
      <3> DEFINE q == Owned(call.size)
                 n == -TypeTraits.releases
      <3>3. refs' = Add(r, q, n)
        BY <2>2, <2>5
      <3> HIDE DEF q, n
      <3>4. n \in {-1, 0} /\ (Counted <=> n = -1) /\ q \in Seq(Cells)
        BY <3>1, <3>2 DEF n, q
      <3>5. /\ refs' \in [Items -> Int]
            /\ \A i \in Items : refs'[i] = IF n = 0 THEN r[i] ELSE r[i] - Occurrences(i, q)
        BY <3>3, <3>4, AddProperties
      <3>6. \A i \in Items : refs'[i] = IF Counted THEN r[i] - Occurrences(i, q) ELSE r[i]
        BY <3>4, <3>5
      <3> QED  BY <1>1, <1>4, <2>3, <2>5, <3>5, <3>6 DEF q
    <2> QED  BY <2>4, <2>5
  <1> QED  BY <1>3, <1>4

-----------------------------------------------------------------------------
(* From C to C++. *)

\* The least of some natural numbers.
LEMMA Least ==
  ASSUME NEW T, T \subseteq Nat, T # {}
  PROVE  Min(T) \in T /\ \A y \in T : Min(T) <= y
  <1> DEFINE R == OpToRel(<, Nat)
  <1>1. IsWellFoundedOn(R, Nat)
    BY NatLessThanWellFounded
  <1>2. \A x, y \in Nat : y < x => <<y, x>> \in R
    <2>1. R = {ss \in Nat \X Nat : ss[1] < ss[2]}
      BY DEF OpToRel
    <2> HIDE DEF R
    <2> QED  BY <2>1
  <1> HIDE DEF R
  <1>3. PICK x \in T : \A y \in T : <<y, x>> \notin R
    BY <1>1, WFMin
  <1>4. ASSUME NEW y \in T PROVE x <= y
    <2>1. x \in Nat /\ y \in Nat
      OBVIOUS
    <2>2. ~(y < x)
      BY <1>2, <1>3, <2>1, Zenon
    <2> QED  BY <2>1, <2>2
  <1> QED  BY <1>4 DEF Min

\* compute_array_size2() and the elements before the first 0.
LEMMA ZeroTerminated ==
  ASSUME kind \in Kinds, NEW cells \in Seq(Items \cup {NULL})
  PROVE  LET array == Append(cells, NULL)
             size == compute_array_size2(array)
         IN  /\ size \in 0..Len(cells)
             /\ ValuesBefore0(cells) \in Seq(Elements)
             /\ Len(ValuesBefore0(cells)) = size
             /\ \A n \in 1..size : ValuesBefore0(cells)[n] = to_cpp_type(array[n])
  <1> DEFINE array == Append(cells, NULL)
             I == {n \in 1..Len(cells) : cells[n] = NULL}
             N == {n \in DOMAIN array : \A m \in 1..n : array[m] # NULL}
             z == SelectInSeq(cells, LAMBDA c : c = NULL)
  <1>1. /\ Len(cells) \in Nat /\ DOMAIN array = 1..(Len(cells) + 1)
        /\ array[Len(cells) + 1] = NULL
        /\ \A n \in 1..Len(cells) : array[n] = cells[n] /\ cells[n] \in Items \cup {NULL}
    OBVIOUS
  <1>2. z = IF I # {} THEN Min(I) ELSE 0
    BY DEF SelectInSeq
  <1>3. compute_array_size2(array) = Cardinality(N)
    BY DEF compute_array_size2
  <1>4. ValuesBefore0(cells) = Values(IF z = 0 THEN cells ELSE First(z - 1, cells))
    BY DEF ValuesBefore0
  <1>a. array = Append(cells, NULL)
    OBVIOUS
  <1> HIDE DEF array, z
  <1>5. PICK n \in 0..Len(cells) :
          /\ N = 1..n
          /\ IF z = 0 THEN n = Len(cells) ELSE n = z - 1
    <2>1. CASE I = {}
      <3>1. N = 1..Len(cells)
        BY <1>1, <2>1
      <3> QED  BY <1>1, <1>2, <2>1, <3>1
    <2>2. CASE I # {}
      <3>1. I \subseteq Nat
        BY <1>1
      <3>2. z \in I /\ \A y \in I : z <= y
        BY <1>2, <2>2, <3>1, Least
      <3>3. z \in 1..Len(cells) /\ cells[z] = NULL /\ \A m \in 1..(z - 1) : cells[m] # NULL
        BY <1>1, <3>2
      <3>4. N = 1..(z - 1)
        BY <1>1, <3>3
      <3> QED  BY <3>3, <3>4
    <2> QED  BY <2>1, <2>2
  <1> HIDE DEF N
  <1>6. compute_array_size2(array) = n
    BY <1>3, <1>5, FS_Interval
  <1>7. First(n, cells) = (IF z = 0 THEN cells ELSE First(z - 1, cells))
    BY <1>5, FirstProperties
  <1>8. /\ First(n, cells) \in Seq(Items \cup {NULL}) /\ Len(First(n, cells)) = n
        /\ \A m \in 1..n : First(n, cells)[m] = cells[m]
    BY FirstProperties
  <1>9. ValuesBefore0(cells) = [m \in 1..n |-> to_cpp_type(First(n, cells)[m])]
    BY <1>4, <1>7, <1>8 DEF Values
  <1>10. \A m \in 1..n : to_cpp_type(First(n, cells)[m]) \in Elements
                         /\ First(n, cells)[m] = array[m]
    BY <1>1, <1>8, Conversions
  <1> DEFINE v == [m \in 1..n |-> to_cpp_type(First(n, cells)[m])]
  <1>11. v \in Seq(Elements) /\ Len(v) = n
         /\ \A m \in 1..n : v[m] = to_cpp_type(First(n, cells)[m])
    BY <1>10
  <1> HIDE DEF v
  <1> QED  BY <1>6, <1>9, <1>10, <1>11, <1>a DEF v

\* A conversion begins: its references are the ones it was given.
LEMMA BeginConversionIInv ==
  ASSUME IInv, NEW form \in {"array", "glist", "gslist"}, form \in Forms \cup {"array"},
         NEW cells \in Seq(Items \cup {NULL}), NEW size \in 0..MaxLen,
         NEW ownership \in OwnershipType,
         NEW STATE expected, expected \in Seq(Elements), Len(expected) = size,
         size <= Len(cells), form # "array" => size = Len(cells),
         \A n \in 1..size : expected[n] = to_cpp_type(cells[n]),
         BeginConversion(form, cells, size, ownership, expected)
  PROVE  IInv'
  <1>1. /\ call.op = "idle" /\ vec = NULL /\ UNCHANGED <<kind, lib>>
        /\ Transfer(First(size, cells), ownership)
        /\ block' = [st |-> "live", form |-> form, cells |-> cells]
        /\ vec' = <<>>
        /\ call' = [op |-> "to_vector", pos |-> 0, size |-> size, owner |-> ownership,
                    expected |-> expected]
    BY DEF BeginConversion
  <1>2. PICK k \in Keepers : keeper' = [keeper EXCEPT ![k] = ownership]
    BY DEF BeginConversion, Keep
  <1>3. /\ kind \in Kinds /\ refs \in [Items -> Int] /\ keeper \in [Keepers -> OwnershipType \cup {NULL}]
        /\ lib \in [Items -> 0..MaxRefs]
        /\ NoKeeper
    BY <1>1 DEF IInv, TypeInv, Phase, WhenIdle
  <1>4. First(size, cells) \in Seq(Items \cup {NULL})
    BY FirstProperties
  <1>5. /\ refs' \in [Items -> Int]
        /\ \A i \in Items :
             refs'[i] = IF Counted /\ ownership = "DEEP"
                        THEN refs[i] + Occurrences(i, First(size, cells)) ELSE refs[i]
    <2>1. CASE Counted /\ ownership = "DEEP"
      <3>1. refs' = Add(refs, First(size, cells), 1)
        BY <1>1, <2>1 DEF Transfer
      <3> QED  BY <1>3, <1>4, <2>1, <3>1, AddProperties
    <2>2. CASE ~(Counted /\ ownership = "DEEP")
      <3>1. refs' = refs
        BY <1>1, <2>2 DEF Transfer
      <3> QED  BY <1>3, <2>2, <3>1
    <2> QED  BY <2>1, <2>2
  <1>6. cells \in Seq(Cells) /\ <<>> \in Seq(Elements) /\ Len(<<>>) = 0
        /\ NULL \notin Seq(Elements)
    <2>1. Items \cup {NULL} \subseteq Cells
      BY DEF Cells, Elements
    <2> QED  BY <2>1, SeqMonotonic, DataAssumption
  <1>7. TypeInv'
    <2>1. block' \in Blocks /\ block'.form \in (Forms \cup {"array"})'
      BY <1>1, <1>6 DEF Blocks, Forms
    <2>2. call' \in Calls /\ call'.pos <= call'.size
      BY <1>1 DEF Calls
    <2>3. keeper' \in [Keepers -> OwnershipType \cup {NULL}]
      BY <1>2, <1>3
    <2> QED  BY <1>1, <1>3, <1>5, <1>6, <2>1, <2>2, <2>3, DataAssumption DEF TypeInv
  <1>8. Phase'
    <2>1. \E l \in Keepers : OnlyKeeper(l, call.owner)'
      BY <1>1, <1>2, <1>3 DEF OnlyKeeper, NoKeeper
    <2>2. /\ block'.st = "live" /\ block'.cells = cells /\ block'.form = form
          /\ call'.op = "to_vector" /\ call'.pos = 0 /\ call'.size = size
          /\ call'.expected = expected
      BY <1>1
    <2>3. \A n \in 1..size : cells[n] \in Items \cup {NULL}
      OBVIOUS
    <2>4. \A n \in 1..size : expected[n] = to_cpp_type(block.cells[n])'
      BY <1>1, <2>2 DEF to_cpp_type
    <2>5. WhenConverting'
      <3>1. (/\ block.st = "live" /\ call.size <= Len(block.cells)
             /\ block.form # "array" => call.size = Len(block.cells)
             /\ \A n \in 1..call.size : block.cells[n] \in Items \cup {NULL})'
        BY <2>2, <2>3
      <3>2. (vec # NULL /\ Len(vec) = call.pos)'
        BY <1>1, <1>6, <2>2
      <3>3. (call.expected # NULL /\ Len(call.expected) = call.size)'
        BY <1>6, <2>2
      <3>4. (\A n \in 1..call.size : call.expected[n] = to_cpp_type(block.cells[n]))'
        BY <2>2, <2>4
      <3>5. (\A n \in 1..call.pos : vec[n] = call.expected[n])'
        BY <2>2
      <3> QED  BY <2>1, <3>1, <3>2, <3>3, <3>4, <3>5 DEF WhenConverting
    <2> QED  BY <2>2, <2>5 DEF Phase
  <1>9. Balanced'
    <2> SUFFICES ASSUME NEW i \in Items
                 PROVE  (refs[i] = lib[i] + Pending(i)
                                   + ElementOwns * Occurrences(i, Held(vec)))'
      BY DEF Balanced
    <2>1. refs[i] = lib[i] /\ lib[i] \in Int
      <3>1. Pending(i) = 0
        BY <1>1 DEF Pending
      <3>2. ElementOwns * Occurrences(i, Held(vec)) = 0
        <4>1. Occurrences(i, Held(vec)) = 0 /\ ElementOwns \in {0, 1}
          BY <1>1, <1>3, OccurrencesEmpty, Traits DEF Held
        <4> QED  BY <4>1
      <3>3. lib[i] \in Int
        BY <1>3, DataAssumption
      <3> QED  BY <3>1, <3>2, <3>3 DEF IInv, Balanced
    <2>2. Pending(i)' = IF Counted /\ ownership = "DEEP"
                        THEN Occurrences(i, First(size, cells)) ELSE 0
      BY <1>1 DEF Pending, Counted, TypeTraits
    <2>3. (ElementOwns * Occurrences(i, Held(vec)))' = 0
      <3>1. Occurrences(i, Held(vec))' = Occurrences(i, <<>>)
        BY <1>1 DEF Held, Occurrences
      <3>2. ElementOwns' \in {0, 1}
        BY <1>1 DEF ElementOwns
      <3>3. ElementOwns' * Occurrences(i, Held(vec))' = 0
        BY <3>1, <3>2, OccurrencesEmpty
      <3> QED  BY <3>3
    <2>4. Occurrences(i, First(size, cells)) \in Nat
      BY <1>4, OccurrencesType
    <2> QED  BY <1>1, <1>5, <2>1, <2>2, <2>3, <2>4
  <1> QED  BY <1>7, <1>8, <1>9 DEF IInv

LEMMA ConversionsBegin ==
  ASSUME IInv, NEW cells \in CellSeqs, NEW ownership \in OwnershipType,
         \/ array_to_vector(cells, ownership)
         \/ array_to_vector_0(cells, ownership)
         \/ list_to_vector(cells, ownership)
         \/ slist_to_vector(cells, ownership)
  PROVE  IInv'
  <1>1. cells \in Seq(Items \cup {NULL}) /\ Len(cells) \in 0..MaxLen /\ kind \in Kinds
    BY DataAssumption DEF CellSeqs, IInv, TypeInv
  <1>2. /\ Values(cells) \in Seq(Elements) /\ Len(Values(cells)) = Len(cells)
        /\ \A n \in 1..Len(cells) : Values(cells)[n] = to_cpp_type(cells[n])
    <2>1. \A n \in 1..Len(cells) : to_cpp_type(cells[n]) \in Elements
      BY <1>1, Conversions
    <2>2. Values(cells) = [n \in 1..Len(cells) |-> to_cpp_type(cells[n])]
      BY <1>1 DEF Values
    <2> QED  BY <1>1, <2>1, <2>2
  <1>3. CASE array_to_vector(cells, ownership)
    BY <1>1, <1>2, <1>3, BeginConversionIInv DEF array_to_vector
  <1>4. CASE list_to_vector(cells, ownership)
    BY <1>1, <1>2, <1>4, BeginConversionIInv DEF list_to_vector
  <1>5. CASE slist_to_vector(cells, ownership)
    BY <1>1, <1>2, <1>5, BeginConversionIInv DEF slist_to_vector
  <1>6. CASE array_to_vector_0(cells, ownership)
    <2> DEFINE array == Append(cells, NULL)
               size == compute_array_size2(array)
    <2>1. /\ size \in 0..Len(cells)
          /\ ValuesBefore0(cells) \in Seq(Elements)
          /\ Len(ValuesBefore0(cells)) = size
          /\ \A n \in 1..size : ValuesBefore0(cells)[n] = to_cpp_type(array[n])
      BY <1>1, ZeroTerminated
    <2>2. array \in Seq(Items \cup {NULL}) /\ Len(array) = Len(cells) + 1
      BY <1>1
    <2>3. BeginConversion("array", array, size, ownership, ValuesBefore0(cells))
      BY <1>6 DEF array_to_vector_0
    <2> HIDE DEF array, size
    <2>4. size \in 0..MaxLen /\ size <= Len(array)
      BY <1>1, <2>1, <2>2, DataAssumption
    <2> QED  BY <2>1, <2>2, <2>3, <2>4, BeginConversionIInv
  <1> QED  BY <1>3, <1>4, <1>5, <1>6

\* References do not change: they are still balanced if the vector has not changed and
\* none was and is pending.
LEMMA BalanceKept ==
  ASSUME IInv, UNCHANGED <<kind, refs, lib, vec>>,
         call.op # "to_vector", call'.op # "to_vector"
  PROVE  Balanced'
  <1> SUFFICES ASSUME NEW i \in Items
               PROVE  (refs[i] = lib[i] + Pending(i)
                                 + ElementOwns * Occurrences(i, Held(vec)))'
    BY DEF Balanced
  <1> DEFINE O == ElementOwns * Occurrences(i, Held(vec))
  <1>1. O' = O
    BY DEF ElementOwns, Held
  <1>2. Pending(i) = 0 /\ Pending(i)' = 0
    BY DEF Pending
  <1>3. refs[i] = lib[i] + Pending(i) + O
    BY DEF IInv, Balanced
  <1> HIDE DEF O
  <1>4. refs'[i] = lib'[i] + Pending(i)' + O'
    BY <1>1, <1>2, <1>3
  <1> QED  BY <1>4 DEF O

LEMMA NullToVectorIInv ==
  ASSUME IInv, NEW form \in {"array", "glist", "gslist"}, null_to_vector(form)
  PROVE  IInv'
  <1>1. /\ call.op = "idle" /\ vec = NULL /\ form \in Forms
        /\ block' = [st |-> "null", form |-> form, cells |-> <<>>]
        /\ vec' = <<>>
        /\ call' = [op |-> "idle", pos |-> 0, size |-> 0, owner |-> "NONE", expected |-> <<>>]
        /\ UNCHANGED <<kind, refs, lib, keeper>>
    BY DEF null_to_vector, NoBlock, Idle
  <1>2. <<>> \in Seq(Elements) /\ <<>> \in Seq(Cells) /\ Len(<<>>) = 0
    OBVIOUS
  <1>3. block' \in Blocks /\ block'.form \in (Forms \cup {"array"})'
    BY <1>1, <1>2 DEF Blocks, Forms
  <1>4. call' \in Calls /\ call'.pos <= call'.size
    BY <1>1, <1>2, DataAssumption DEF Calls, OwnershipType
  <1>5. TypeInv'
    BY <1>1, <1>2, <1>3, <1>4, DataAssumption DEF IInv, TypeInv
  <1>6. Phase'
    BY <1>1 DEF IInv, Phase, WhenIdle, NoKeeper
  <1>7. Balanced'
    <2> SUFFICES ASSUME NEW i \in Items
                 PROVE  (refs[i] = lib[i] + Pending(i)
                                   + ElementOwns * Occurrences(i, Held(vec)))'
      BY DEF Balanced
    <2>1. Held(vec) = <<>> /\ Held(vec)' = <<>>
      BY <1>1 DEF Held
    <2>2. Pending(i)' = Pending(i)
      BY <1>1 DEF Pending
    <2>3. ElementOwns' = ElementOwns
      BY <1>1 DEF ElementOwns
    <2>4. refs[i] = lib[i] + Pending(i) + ElementOwns * Occurrences(i, <<>>)
      BY <2>1 DEF IInv, Balanced
    <2> QED  BY <1>1, <2>1, <2>2, <2>3, <2>4
  <1> QED  BY <1>5, <1>6, <1>7 DEF IInv

LEMMA ConvertElementIInv ==
  ASSUME IInv, ConvertElement
  PROVE  IInv'
  <1> DEFINE c == block.cells[call.pos + 1]
             x == to_cpp_type(c)
  <1>1. /\ call.op = "to_vector" /\ call.pos < call.size
        /\ vec' = Append(vec, x)
        /\ refs' = Add(refs, <<c>>, TypeTraits.takes)
        /\ call' = [call EXCEPT !.pos = @ + 1]
        /\ UNCHANGED <<kind, lib, block, keeper>>
    BY DEF ConvertElement, Element
  <1>2. /\ call.pos \in Nat /\ call.size \in 0..MaxLen /\ MaxLen \in Nat
        /\ kind \in Kinds /\ refs \in [Items -> Int] /\ lib \in [Items -> 0..MaxRefs]
    BY Types DEF IInv, TypeInv
  <1>3. WhenConverting
    BY <1>1 DEF IInv, Phase
  <1>4. c \in Items \cup {NULL} /\ call.expected[call.pos + 1] = x
    <2>1. call.pos + 1 \in 1..call.size
      BY <1>1, <1>2
    <2> QED  BY <1>3, <2>1 DEF WhenConverting
  <1>5. x \in Elements /\ (kind \in {"refptr", "variant"} => x = c)
    BY <1>2, <1>4, Conversions
  <1>6. vec \in Seq(Elements) /\ vec # NULL /\ Len(vec) = call.pos
    BY <1>3 DEF WhenConverting, IInv, TypeInv
  <1> HIDE DEF c, x
  <1>7. /\ vec' \in Seq(Elements) /\ Len(vec') = call.pos + 1
        /\ vec'[call.pos + 1] = x /\ \A n \in 1..call.pos : vec'[n] = vec[n]
        /\ vec' # NULL
    <2>1. vec' = Append(vec, x) /\ x \in Elements /\ vec \in Seq(Elements) /\ Len(vec) = call.pos
      BY <1>1, <1>5, <1>6
    <2>2. /\ vec' \in Seq(Elements) /\ Len(vec') = Len(vec) + 1
          /\ vec'[Len(vec) + 1] = x /\ \A n \in 1..Len(vec) : vec'[n] = vec[n]
      BY <2>1
    <2>3. vec' # NULL
      BY <2>2, DataAssumption
    <2> QED  BY <2>1, <2>2, <2>3
  <1>8. /\ call' \in Calls
        /\ call'.op = "to_vector" /\ call'.pos = call.pos + 1 /\ call'.size = call.size
        /\ call'.owner = call.owner /\ call'.expected = call.expected
    <2>1. call \in Calls /\ call.pos + 1 \in Nat
      BY <1>2 DEF IInv, TypeInv
    <2> QED  BY <1>1, <2>1 DEF Calls
  <1>9. /\ refs' \in [Items -> Int]
        /\ \A i \in Items :
             refs'[i] = IF ElementOwns = 1 THEN refs[i] + Occurrences(i, <<c>>) ELSE refs[i]
    <2>1. TypeTraits.takes = ElementOwns /\ ElementOwns \in {0, 1}
      BY <1>2, Traits
    <2>2. <<c>> \in Seq(Items \cup {NULL}) /\ ElementOwns \in {-1, 0, 1}
      BY <1>4, <2>1
    <2>3. refs' = Add(refs, <<c>>, ElementOwns)
      BY <1>1, <2>1
    <2>4. Add(refs, <<c>>, ElementOwns) \in [Items -> Int]
          /\ \A i \in Items :
               Add(refs, <<c>>, ElementOwns)[i] =
                 IF ElementOwns = 0 THEN refs[i]
                 ELSE IF ElementOwns = 1 THEN refs[i] + Occurrences(i, <<c>>)
                 ELSE refs[i] - Occurrences(i, <<c>>)
      <3> DEFINE q == <<c>>
                 n == ElementOwns
      <3>1. q \in Seq(Items \cup {NULL}) /\ n \in {-1, 0, 1} /\ refs \in [Items -> Int]
        BY <1>2, <2>2
      <3> HIDE DEF q, n
      <3>2. /\ Add(refs, q, n) \in [Items -> Int]
            /\ \A i \in Items :
                 Add(refs, q, n)[i] =
                   IF n = 0 THEN refs[i]
                   ELSE IF n = 1 THEN refs[i] + Occurrences(i, q)
                   ELSE refs[i] - Occurrences(i, q)
        BY <3>1, AddProperties
      <3> QED  BY <3>2 DEF q, n
    <2> QED  BY <2>1, <2>3, <2>4
  <1>10. TypeInv'
    <2>1. call'.pos <= call'.size /\ Len(vec') <= MaxLen
      BY <1>1, <1>2, <1>7, <1>8
    <2> QED  BY <1>1, <1>7, <1>8, <1>9, <2>1 DEF IInv, TypeInv, Forms
  <1>11. Phase'
    <2>1. \A n \in 1..call'.pos : vec'[n] = call'.expected[n]
      <3>1. \A n \in 1..call.pos : vec[n] = call.expected[n]
        BY <1>3 DEF WhenConverting
      <3>2. \A n \in 1..(call.pos + 1) : n \in 1..call.pos \/ n = call.pos + 1
        BY <1>2
      <3> QED  BY <1>4, <1>7, <1>8, <3>1, <3>2
    <2>2. \E k \in Keepers : OnlyKeeper(k, call.owner)'
      BY <1>1, <1>3, <1>8 DEF WhenConverting, OnlyKeeper
    <2>3. WhenConverting'
      BY <1>1, <1>3, <1>7, <1>8, <2>1, <2>2 DEF WhenConverting, to_cpp_type
    <2> QED  BY <1>8, <2>3 DEF Phase
  <1>12. Balanced'
    <2> SUFFICES ASSUME NEW i \in Items
                 PROVE  (refs[i] = lib[i] + Pending(i)
                                   + ElementOwns * Occurrences(i, Held(vec)))'
      BY DEF Balanced
    <2> DEFINE P == Pending(i)
    <2>1. P' = P
      BY <1>1, <1>8 DEF Pending, Counted, TypeTraits
    <2>2. refs[i] = lib[i] + P + ElementOwns * Occurrences(i, vec)
      BY <1>6 DEF IInv, Balanced, Held
    <2>3. ElementOwns' = ElementOwns /\ Held(vec)' = vec'
      BY <1>1, <1>7 DEF ElementOwns, Held
    <2>4. Occurrences(i, vec') = Occurrences(i, vec) + Occurrences(i, <<x>>)
      BY <1>1, <1>5, <1>6, OccurrencesAppend
    <2>5. Occurrences(i, vec) \in Nat /\ Occurrences(i, <<x>>) \in Nat
      <3>1. <<x>> \in Seq({x})
        OBVIOUS
      <3> QED  BY <1>6, <3>1, OccurrencesType
    <2> HIDE DEF P
    <2>6. CASE ElementOwns = 1
      <3>1. x = c
        BY <1>2, <1>5, <2>6, Traits
      <3>2. refs'[i] = lib[i] + P + (Occurrences(i, vec) + Occurrences(i, <<x>>))
        <4>1. refs'[i] = refs[i] + Occurrences(i, <<x>>)
          BY <1>9, <2>6, <3>1
        <4>2. refs[i] = lib[i] + P + Occurrences(i, vec) /\ refs[i] \in Int
          BY <1>2, <2>2, <2>5, <2>6
        <4>3. lib[i] \in Int
          BY <1>2, DataAssumption
        <4>4. P \in Nat
          BY PendingType DEF P, IInv
        <4> QED  BY <2>5, <4>1, <4>2, <4>3, <4>4
      <3>3. ElementOwns * Occurrences(i, vec') = Occurrences(i, vec) + Occurrences(i, <<x>>)
        BY <2>4, <2>5, <2>6
      <3> QED  BY <1>1, <2>1, <2>3, <3>2, <3>3 DEF P
    <2>7. CASE ElementOwns = 0
      <3>1. ElementOwns * Occurrences(i, vec') = ElementOwns * Occurrences(i, vec)
        BY <2>4, <2>5, <2>7
      <3>2. refs'[i] = refs[i]
        BY <1>9, <2>7
      <3> QED  BY <1>1, <2>1, <2>2, <2>3, <3>1, <3>2 DEF P
    <2> QED  BY <1>2, <2>6, <2>7, Traits
  <1> QED  BY <1>10, <1>11, <1>12 DEF IInv

\* The conversion is over, its keeper k goes; r are the references after the C++ values
\* have been destroyed, if they were: what was pending is released.
LEMMA KeeperReleases ==
  ASSUME IInv, call.op = "to_vector", NEW k \in Keepers, NEW STATE r, r \in [Items -> Int],
         KeeperGoesWith(k, r)
  PROVE  /\ keeper' = [keeper EXCEPT ![k] = NULL]
         /\ \A l \in Keepers : keeper'[l] = NULL
         /\ block' \in Blocks /\ block'.form = block.form
         /\ call.owner # "NONE" => block'.st = "freed"
         /\ refs' \in [Items -> Int]
         /\ \A i \in Items : refs'[i] = r[i] - Pending(i)
  <1>1. WhenConverting /\ TypeInv
    BY DEF IInv, Phase
  <1>2. keeper[k] = call.owner /\ \A l \in Keepers \ {k} : keeper[l] = NULL
    BY <1>1 DEF WhenConverting, OnlyKeeper, KeeperGoesWith
  <1>3. /\ keeper' = [keeper EXCEPT ![k] = NULL]
        /\ block' \in Blocks /\ block'.form = block.form
        /\ block'.st = IF block.st = "null" \/ keeper[k] = "NONE" THEN block.st ELSE "freed"
        /\ refs' \in [Items -> Int]
        /\ keeper[k] # "DEEP" => refs' = r
        /\ keeper[k] = "DEEP" /\ block.st = "live" =>
             \A i \in Items :
               refs'[i] = IF Counted THEN r[i] - Occurrences(i, Owned(call.size)) ELSE r[i]
    <2>1. call.size <= Len(block.cells) /\ block.st # "freed"
      BY <1>1 DEF WhenConverting
    <2> QED  BY <1>1, <2>1, Destroyed
  <1>4. \A l \in Keepers : keeper'[l] = NULL
    BY <1>1, <1>2, <1>3 DEF TypeInv
  <1>5. Owned(call.size) = First(call.size, block.cells)
    <2>1. block.form # "array" => First(call.size, block.cells) = block.cells
      BY <1>1, Types, FirstProperties DEF WhenConverting
    <2> QED  BY <2>1 DEF Owned, ArrayElements, ListElements
  <1>6. \A i \in Items : refs'[i] = r[i] - Pending(i)
    <2> SUFFICES ASSUME NEW i \in Items PROVE refs'[i] = r[i] - Pending(i)
      OBVIOUS
    <2>1. Pending(i) = IF Counted /\ call.owner = "DEEP"
                       THEN Occurrences(i, Owned(call.size)) ELSE 0
      BY <1>5 DEF Pending
    <2>2. refs'[i] = IF Counted /\ call.owner = "DEEP"
                     THEN r[i] - Occurrences(i, Owned(call.size)) ELSE r[i]
      BY <1>1, <1>2, <1>3 DEF WhenConverting
    <2> QED  BY <2>1, <2>2
  <1> QED  BY <1>1, <1>2, <1>3, <1>4, <1>6 DEF WhenConverting

LEMMA EndConversionIInv ==
  ASSUME IInv, EndConversion
  PROVE  IInv'
  <1>1. /\ call.op = "to_vector" /\ call.pos = call.size
        /\ call' = [call EXCEPT !.op = "idle"]
        /\ UNCHANGED <<kind, lib, vec>>
    BY DEF EndConversion
  <1>2. PICK k \in Keepers : KeeperGoesWith(k, refs)
    BY DEF EndConversion
  <1>3. refs \in [Items -> Int] /\ lib \in [Items -> 0..MaxRefs] /\ WhenConverting /\ TypeInv
    BY <1>1 DEF IInv, TypeInv, Phase
  <1>4. /\ keeper' = [keeper EXCEPT ![k] = NULL]
        /\ \A l \in Keepers : keeper'[l] = NULL
        /\ block' \in Blocks /\ block'.form = block.form
        /\ call.owner # "NONE" => block'.st = "freed"
        /\ refs' \in [Items -> Int]
        /\ \A i \in Items : refs'[i] = refs[i] - Pending(i)
    BY <1>1, <1>2, <1>3, KeeperReleases
  <1>5. /\ call' \in Calls /\ call'.op = "idle" /\ call'.owner = call.owner
        /\ call'.expected = call.expected /\ call'.pos = call.pos /\ call'.size = call.size
    BY <1>1, <1>3 DEF TypeInv, Calls
  <1>6. TypeInv'
    <2>1. keeper' \in [Keepers -> OwnershipType \cup {NULL}]
      BY <1>3, <1>4 DEF TypeInv
    <2> QED  BY <1>1, <1>3, <1>4, <1>5, <2>1 DEF TypeInv, Forms
  <1>7. Phase'
    <2>1. call.expected # NULL => vec = call.expected
      <3>1. vec \in Seq(Elements) /\ call.expected \in Seq(Elements)
        BY <1>3, Types DEF WhenConverting, TypeInv
      <3>2. Len(vec) = Len(call.expected) /\ \A n \in 1..Len(vec) : vec[n] = call.expected[n]
        BY <1>1, <1>3 DEF WhenConverting
      <3> QED  BY <3>1, <3>2, SeqEqual
    <2> QED  BY <1>1, <1>4, <1>5, <2>1 DEF Phase, WhenIdle, NoKeeper
  <1>8. Balanced'
    <2> SUFFICES ASSUME NEW i \in Items
                 PROVE  (refs[i] = lib[i] + Pending(i)
                                   + ElementOwns * Occurrences(i, Held(vec)))'
      BY DEF Balanced
    <2> DEFINE O == ElementOwns * Occurrences(i, Held(vec))
    <2>1. O' = O
      BY <1>1 DEF ElementOwns, Held
    <2>2. Pending(i)' = 0
      BY <1>5 DEF Pending
    <2>3. refs[i] = lib[i] + Pending(i) + O
      BY DEF IInv, Balanced
    <2>4. O \in Nat
      <3>1. Occurrences(i, Held(vec)) \in Nat /\ ElementOwns \in {0, 1}
        BY <1>3, Types, Traits, OccurrencesType DEF TypeInv
      <3> QED  BY <3>1
    <2>5. Pending(i) \in Nat /\ lib[i] \in Int
      BY <1>3, PendingType, DataAssumption DEF IInv
    <2> HIDE DEF O
    <2>6. refs'[i] = lib[i] + 0 + O
      BY <1>4, <2>3, <2>4, <2>5
    <2>7. refs'[i] = lib'[i] + Pending(i)' + O'
      BY <1>1, <2>1, <2>2, <2>6
    <2> QED  BY <2>7 DEF O
  <1> QED  BY <1>6, <1>7, <1>8 DEF IInv

\* The references after the elements of the vector have been destroyed.
LEMMA Dropped ==
  ASSUME IInv, vec # NULL
  PROVE  LET r == Add(refs, vec, -ElementOwns)
         IN  /\ r \in [Items -> Int]
             /\ \A i \in Items : r[i] = lib[i] + Pending(i)
  <1> DEFINE n == -ElementOwns
  <1>1. /\ vec \in Seq(Elements) /\ ElementOwns \in {0, 1} /\ refs \in [Items -> Int]
        /\ lib \in [Items -> 0..MaxRefs]
    BY Traits DEF IInv, TypeInv
  <1>2. n \in {-1, 0, 1} /\ (n = 0 <=> ElementOwns = 0) /\ (n = -1 <=> ElementOwns = 1) /\ n # 1
    BY <1>1
  <1> HIDE DEF n
  <1>3. /\ Add(refs, vec, n) \in [Items -> Int]
        /\ \A i \in Items :
             Add(refs, vec, n)[i] = IF n = 0 THEN refs[i]
                                    ELSE IF n = 1 THEN refs[i] + Occurrences(i, vec)
                                    ELSE refs[i] - Occurrences(i, vec)
    BY <1>1, <1>2, AddProperties
  <1>4. ASSUME NEW i \in Items
        PROVE  Add(refs, vec, n)[i] = lib[i] + Pending(i)
    <2>1. refs[i] = lib[i] + Pending(i) + ElementOwns * Occurrences(i, vec)
      BY DEF IInv, Balanced, Held
    <2>2. /\ Occurrences(i, vec) \in Nat /\ Pending(i) \in Nat
      BY <1>1, OccurrencesType, PendingType DEF IInv
    <2>3. lib[i] \in Int
      BY <1>1, DataAssumption
    <2>4. CASE ElementOwns = 0
      <3>1. refs[i] = lib[i] + Pending(i) /\ Add(refs, vec, n)[i] = refs[i]
        BY <1>2, <1>3, <2>1, <2>2, <2>3, <2>4
      <3> QED  BY <3>1
    <2>5. CASE ElementOwns = 1
      <3>1. refs[i] = lib[i] + Pending(i) + Occurrences(i, vec)
            /\ Add(refs, vec, n)[i] = refs[i] - Occurrences(i, vec)
        BY <1>2, <1>3, <2>1, <2>2, <2>3, <2>5
      <3> QED  BY <2>2, <2>3, <3>1
    <2> QED  BY <1>1, <2>4, <2>5
  <1> QED  BY <1>3, <1>4 DEF n

LEMMA ThrowIInv ==
  ASSUME IInv, Throw
  PROVE  IInv'
  <1> DEFINE r == Add(refs, vec, -ElementOwns)
  <1>1. /\ call.op = "to_vector"
        /\ vec' = NULL
        /\ call' = [call EXCEPT !.op = "idle", !.expected = NULL]
        /\ UNCHANGED <<kind, lib>>
    BY DEF Throw
  <1>2. PICK k \in Keepers : KeeperGoesWith(k, r)
    BY DEF Throw
  <1>3. /\ lib \in [Items -> 0..MaxRefs] /\ WhenConverting /\ TypeInv
        /\ r \in [Items -> Int] /\ \A i \in Items : r[i] = lib[i] + Pending(i)
    BY <1>1, Dropped DEF IInv, TypeInv, Phase, WhenConverting
  <1> HIDE DEF r
  <1>4. /\ keeper' = [keeper EXCEPT ![k] = NULL]
        /\ \A l \in Keepers : keeper'[l] = NULL
        /\ block' \in Blocks /\ block'.form = block.form
        /\ call.owner # "NONE" => block'.st = "freed"
        /\ refs' \in [Items -> Int]
        /\ \A i \in Items : refs'[i] = r[i] - Pending(i)
    BY <1>1, <1>2, <1>3, KeeperReleases
  <1>5. /\ call' \in Calls /\ call'.op = "idle" /\ call'.owner = call.owner
        /\ call'.expected = NULL /\ call'.pos = call.pos /\ call'.size = call.size
    BY <1>1, <1>3 DEF TypeInv, Calls
  <1>6. TypeInv'
    <2>1. keeper' \in [Keepers -> OwnershipType \cup {NULL}]
      BY <1>3, <1>4 DEF TypeInv
    <2> QED  BY <1>1, <1>3, <1>4, <1>5, <2>1 DEF TypeInv, Forms
  <1>7. Phase'
    BY <1>1, <1>4, <1>5 DEF Phase, WhenIdle, NoKeeper
  <1>8. Balanced'
    <2> SUFFICES ASSUME NEW i \in Items
                 PROVE  (refs[i] = lib[i] + Pending(i)
                                   + ElementOwns * Occurrences(i, Held(vec)))'
      BY DEF Balanced
    <2>1. Pending(i)' = 0
      BY <1>5 DEF Pending
    <2>2. ElementOwns' * Occurrences(i, Held(vec))' = 0
      <3>1. Occurrences(i, Held(vec))' = Occurrences(i, <<>>)
        BY <1>1 DEF Held, Occurrences
      <3>2. ElementOwns' \in {0, 1}
        BY DEF ElementOwns
      <3> QED  BY <3>1, <3>2, OccurrencesEmpty
    <2>3. Pending(i) \in Nat /\ lib[i] \in Int
      BY <1>3, PendingType, DataAssumption DEF IInv
    <2>4. refs'[i] = lib[i]
      BY <1>3, <1>4, <2>3
    <2> QED  BY <1>1, <2>1, <2>2, <2>3, <2>4
  <1> QED  BY <1>6, <1>7, <1>8 DEF IInv

-----------------------------------------------------------------------------
(* From C++ to C. *)

\* The vector becomes the container b, an array with room for it or an empty list.
LEMMA BeginCreateIInv ==
  ASSUME IInv, NEW STATE b, b \in Blocks, BeginCreate(b),
         b.form = "array" => b.st = "live" /\ Len(b.cells) = Len(vec) + 1,
         b.form # "array" => b.st = "null" /\ b.cells = <<>>
  PROVE  IInv'
  <1>1. /\ call.op = "idle" /\ vec # NULL /\ b.form \in Forms /\ block' = b
        /\ call' = [op |-> "create", pos |-> 0, size |-> Len(vec), owner |-> "SHALLOW",
                    expected |-> NULL]
        /\ UNCHANGED <<kind, refs, lib, keeper, vec>>
    BY DEF BeginCreate, Idle
  <1>2. vec \in Seq(Elements) /\ Len(vec) \in 0..MaxLen
    BY <1>1, DataAssumption DEF IInv, TypeInv
  <1>3. call' \in Calls /\ call'.pos <= call'.size
    BY <1>1, <1>2 DEF Calls, OwnershipType
  <1>4. TypeInv'
    BY <1>1, <1>3 DEF IInv, TypeInv, Forms
  <1>5. Phase'
    BY <1>1, <1>2 DEF IInv, Phase, WhenIdle, WhenCreating, NoKeeper, FromVector
  <1>6. Balanced'
    BY <1>1, BalanceKept
  <1> QED  BY <1>4, <1>5, <1>6 DEF IInv

LEMMA CreationsBegin ==
  ASSUME IInv, vector_to_array \/ vector_to_list \/ vector_to_slist
  PROVE  IInv'
  <1>1. CASE vector_to_array
    <2> DEFINE b == [st |-> "live", form |-> "array",
                     cells |-> [n \in 1..(Len(Held(vec)) + 1) |-> Garbage]]
    <2>1. BeginCreate(b)
      BY <1>1 DEF vector_to_array
    <2>2. vec # NULL
      BY <2>1 DEF BeginCreate
    <2>3. Held(vec) = vec /\ Len(vec) \in Nat
      BY <2>2 DEF Held, IInv, TypeInv
    <2>4. Garbage \in Cells
      BY DEF Cells
    <2>5. [n \in 1..(Len(vec) + 1) |-> Garbage] \in Seq(Cells)
          /\ Len([n \in 1..(Len(vec) + 1) |-> Garbage]) = Len(vec) + 1
      BY <2>3, <2>4
    <2>6. b \in Blocks /\ b.form = "array" /\ b.st = "live" /\ Len(b.cells) = Len(vec) + 1
      BY <2>3, <2>5 DEF Blocks
    <2> HIDE DEF b
    <2> QED  BY <2>1, <2>6, BeginCreateIInv
  <1>2. ASSUME NEW form \in {"glist", "gslist"}, BeginCreate([NoBlock EXCEPT !.form = form])
        PROVE  IInv'
    <2> DEFINE b == [NoBlock EXCEPT !.form = form]
    <2>1. <<>> \in Seq(Cells)
      OBVIOUS
    <2>2. b \in Blocks /\ b.form = form /\ b.st = "null" /\ b.cells = <<>>
      BY <1>2, <2>1 DEF NoBlock, Blocks
    <2>3. BeginCreate(b)
      BY <1>2
    <2> HIDE DEF b
    <2> QED  BY <1>2, <2>2, <2>3, BeginCreateIInv
  <1> QED  BY <1>1, <1>2 DEF vector_to_list, vector_to_slist

\* A step of create_array(), create_bool_array(), create_glist() or create_gslist().
LEMMA CreateStep ==
  ASSUME IInv, call.op = "create", call.pos < call.size,
         call' = [call EXCEPT !.pos = @ + 1],
         UNCHANGED <<kind, refs, lib, keeper, vec>>,
         block' \in Blocks, block'.form = block.form, block'.st = "live",
         block.form = "array" =>
           /\ Len(block'.cells) = Len(block.cells)
           /\ block'.cells[call.pos + 1] = to_c_type(vec[call.pos + 1])
           /\ \A n \in 1..call.pos : block'.cells[n] = block.cells[n],
         block.form # "array" =>
           /\ Len(block'.cells) = call.pos + 1
           /\ block'.cells[1] = to_c_type(vec[Len(vec) - call.pos])
           /\ \A n \in 2..(call.pos + 1) : block'.cells[n] = block.cells[n - 1]
  PROVE  IInv'
  <1>1. WhenCreating /\ TypeInv
    BY DEF IInv, Phase
  <1>2. call.pos \in Nat /\ call.size \in Nat
    BY <1>1, Types
  <1>3. /\ call' \in Calls
        /\ call'.op = "create" /\ call'.pos = call.pos + 1 /\ call'.size = call.size
        /\ call'.owner = call.owner /\ call'.expected = call.expected
    <2>1. call \in Calls /\ call.pos + 1 \in Nat
      BY <1>1, <1>2 DEF TypeInv
    <2> QED  BY <2>1 DEF Calls
  <1>4. TypeInv'
    <2>1. call'.pos <= call'.size
      BY <1>2, <1>3
    <2> QED  BY <1>1, <1>3, <2>1 DEF TypeInv, Forms
  <1>5. WhenCreating'
    <2>1. (NoKeeper /\ FromVector /\ vec # NULL /\ Len(vec) = call.size)'
      BY <1>1, <1>3 DEF WhenCreating, NoKeeper, FromVector
    <2>2. ASSUME block.form = "array"
          PROVE  /\ Len(block'.cells) = call.size + 1
                 /\ \A n \in 1..(call.pos + 1) : block'.cells[n] = to_c_type(vec[n])
      <3>1. \A n \in 1..call.pos : block.cells[n] = to_c_type(vec[n])
        BY <1>1, <2>2 DEF WhenCreating
      <3>2. \A n \in 1..(call.pos + 1) : n \in 1..call.pos \/ n = call.pos + 1
        BY <1>2
      <3> QED  BY <1>1, <2>2, <3>1, <3>2 DEF WhenCreating
    <2>3. ASSUME block.form # "array", NEW n \in 1..(call.pos + 1)
          PROVE  block'.cells[n] = to_c_type(vec[call.size - (call.pos + 1) + n])
      <3>1. CASE n = 1
        <4>1. call.size - (call.pos + 1) + n = Len(vec) - call.pos
          BY <1>1, <1>2, <3>1 DEF WhenCreating
        <4> QED  BY <2>3, <3>1, <4>1
      <3>2. CASE n # 1
        <4>1. n - 1 \in 1..call.pos /\ n \in 2..(call.pos + 1)
          BY <1>2, <3>2
        <4>2. call.size - call.pos + (n - 1) = call.size - (call.pos + 1) + n
          BY <1>2
        <4>3. block.cells[n - 1] = to_c_type(vec[call.size - call.pos + (n - 1)])
          BY <1>1, <2>3, <4>1 DEF WhenCreating
        <4> QED  BY <2>3, <4>1, <4>2, <4>3
      <3> QED  BY <3>1, <3>2
    <2>4. (block.form = "array" =>
             /\ block.st = "live"
             /\ Len(block.cells) = call.size + 1
             /\ \A n \in 1..call.pos : block.cells[n] = to_c_type(vec[n]))'
      BY <1>3, <2>2 DEF to_c_type
    <2>5. (block.form # "array" =>
             /\ block.st = (IF call.pos = 0 THEN "null" ELSE "live")
             /\ Len(block.cells) = call.pos
             /\ \A n \in 1..call.pos :
                  block.cells[n] = to_c_type(vec[call.size - call.pos + n]))'
      BY <1>2, <1>3, <2>3 DEF to_c_type
    <2> QED  BY <2>1, <2>4, <2>5 DEF WhenCreating
  <1>6. Balanced'
    BY <1>3, BalanceKept
  <1> QED  BY <1>3, <1>4, <1>5, <1>6 DEF IInv, Phase

LEMMA CreateIInv ==
  ASSUME IInv, create_array \/ create_bool_array \/ create_glist \/ create_gslist
  PROVE  IInv'
  <1>1. /\ call.op = "create" /\ call.pos < call.size
        /\ call' = [call EXCEPT !.pos = @ + 1]
        /\ UNCHANGED <<kind, refs, lib, keeper, vec>>
    BY DEF create_array, create_bool_array, create_glist, create_gslist
  <1>2. /\ WhenCreating /\ TypeInv /\ kind \in Kinds
        /\ call.pos \in Nat /\ call.size \in Nat /\ block.cells \in Seq(Cells)
        /\ vec \in Seq(Elements) /\ Len(vec) = call.size
    BY <1>1, Types DEF IInv, Phase, TypeInv, WhenCreating
  <1>3. \A n \in 1..call.size : to_c_type(vec[n]) \in Cells
    BY <1>2, Conversions
  <1>4. CASE create_array \/ create_bool_array
    <2> DEFINE v == to_c_type(vec[call.pos + 1])
    <2>1. block.form = "array" /\ block' = [block EXCEPT !.cells[call.pos + 1] = v]
      BY <1>4 DEF create_array, create_bool_array, to_c_type
    <2>2. v \in Cells
      BY <1>1, <1>2, <1>3
    <2>3. block.st = "live" /\ Len(block.cells) = call.size + 1
      BY <1>2, <2>1 DEF WhenCreating
    <2> HIDE DEF v
    <2>4. block' = [block EXCEPT !.cells = [block.cells EXCEPT ![call.pos + 1] = v]]
      BY <2>1
    <2>5. call.pos + 1 \in 1..Len(block.cells)
      BY <1>1, <1>2, <2>3
    <2>6. LET c == [block.cells EXCEPT ![call.pos + 1] = v]
          IN  /\ c \in Seq(Cells) /\ Len(c) = Len(block.cells)
              /\ \A j \in 1..Len(block.cells) :
                   c[j] = IF j = call.pos + 1 THEN v ELSE block.cells[j]
      BY <1>2, <2>2, <2>5, ExceptSeq
    <2>7. /\ block' \in Blocks /\ block'.form = block.form /\ block'.st = "live"
          /\ block'.cells = [block.cells EXCEPT ![call.pos + 1] = v]
      BY <1>2, <2>3, <2>4, <2>6 DEF TypeInv, Blocks
    <2>8. /\ Len(block'.cells) = Len(block.cells)
          /\ block'.cells[call.pos + 1] = v
          /\ \A n \in 1..call.pos : block'.cells[n] = block.cells[n]
      BY <1>2, <2>3, <2>5, <2>6, <2>7
    <2> QED  BY <1>1, <2>1, <2>7, <2>8, CreateStep DEF v
  <1>5. CASE create_glist \/ create_gslist
    <2> DEFINE v == to_c_type(vec[Len(vec) - call.pos])
    <2>1. /\ block.form # "array"
          /\ block' = [block EXCEPT !.st = "live", !.cells = <<v>> \o block.cells]
      BY <1>5 DEF create_glist, create_gslist, Prepended
    <2>2. v \in Cells
      BY <1>1, <1>2, <1>3
    <2>3. Len(block.cells) = call.pos
      BY <1>2, <2>1 DEF WhenCreating
    <2> HIDE DEF v
    <2>4. <<v>> \in Seq(Cells) /\ Len(<<v>>) = 1 /\ <<v>>[1] = v
      BY <2>2
    <2>5. LET c == <<v>> \o block.cells
          IN  /\ c \in Seq(Cells) /\ Len(c) = call.pos + 1
              /\ c[1] = v /\ \A n \in 2..(call.pos + 1) : c[n] = block.cells[n - 1]
      BY <1>2, <2>3, <2>4, ConcatProperties
    <2>6. /\ block' \in Blocks /\ block'.form = block.form /\ block'.st = "live"
          /\ block'.cells = <<v>> \o block.cells
      BY <1>2, <2>1, <2>5 DEF TypeInv, Blocks
    <2> QED  BY <1>1, <2>1, <2>5, <2>6, CreateStep DEF v
  <1> QED  BY <1>4, <1>5

LEMMA EndCreateIInv ==
  ASSUME IInv, EndCreate
  PROVE  IInv'
  <1> DEFINE C == [n \in DOMAIN vec |-> to_c_type(vec[n])]
  <1>1. /\ call.op = "create" /\ call.pos = call.size
        /\ block' = IF block.form = "array"
                    THEN [block EXCEPT !.cells[call.size + 1] = NULL] ELSE block
        /\ call' = [call EXCEPT !.op = "c_call"]
        /\ UNCHANGED <<kind, refs, lib, vec>>
    BY DEF EndCreate
  <1>2. PICK k \in Keepers : keeper' = [keeper EXCEPT ![k] = "SHALLOW"]
    BY DEF EndCreate, Keep
  <1>3. /\ WhenCreating /\ TypeInv /\ kind \in Kinds
        /\ call.size \in Nat /\ block.cells \in Seq(Cells)
        /\ vec \in Seq(Elements) /\ Len(vec) = call.size /\ vec # NULL
    BY <1>1, Types DEF IInv, Phase, TypeInv, WhenCreating
  <1>4. /\ call' \in Calls /\ call'.op = "c_call" /\ call'.owner = call.owner
        /\ call'.expected = call.expected /\ call'.pos = call.pos /\ call'.size = call.size
    BY <1>1, <1>3 DEF TypeInv, Calls
  <1>5. C \in Seq(Cells) /\ Len(C) = call.size /\ \A n \in 1..call.size : C[n] = to_c_type(vec[n])
    <2>1. \A n \in 1..call.size : to_c_type(vec[n]) \in Cells
      BY <1>3, Conversions
    <2>2. DOMAIN vec = 1..call.size /\ call.size \in Nat
      BY <1>3
    <2>3. C \in [1..call.size -> Cells]
      BY <2>1, <2>2
    <2> QED  BY <2>2, <2>3
  <1>6. NULL \in Cells
    BY DEF Cells, Elements
  <1>7. /\ block' \in Blocks /\ block'.form = block.form /\ block'.st = block.st
        /\ block'.cells = IF block.form = "array" THEN Append(C, NULL) ELSE C
    <2> HIDE DEF C
    <2>1. CASE block.form = "array"
      <3> DEFINE c == [block.cells EXCEPT ![call.size + 1] = NULL]
      <3>1. /\ Len(block.cells) = call.size + 1
            /\ \A n \in 1..call.size : block.cells[n] = to_c_type(vec[n])
        BY <1>1, <1>3, <2>1 DEF WhenCreating
      <3>2. block' = [block EXCEPT !.cells = c]
        BY <1>1, <2>1
      <3>3. call.size + 1 \in 1..Len(block.cells)
        BY <1>3, <3>1
      <3>4. /\ c \in Seq(Cells) /\ Len(c) = Len(block.cells)
            /\ \A j \in 1..Len(block.cells) :
                 c[j] = IF j = call.size + 1 THEN NULL ELSE block.cells[j]
        BY <1>3, <1>6, <3>3, ExceptSeq
      <3> HIDE DEF c
      <3>5. /\ Append(C, NULL) \in Seq(Cells) /\ Len(Append(C, NULL)) = call.size + 1
            /\ \A j \in 1..(call.size + 1) :
                 Append(C, NULL)[j] = IF j = call.size + 1 THEN NULL ELSE C[j]
        BY <1>3, <1>5, <1>6
      <3>6. c = Append(C, NULL)
        <4>1. \A j \in 1..Len(c) : c[j] = Append(C, NULL)[j]
          <5> SUFFICES ASSUME NEW j \in 1..Len(c) PROVE c[j] = Append(C, NULL)[j]
            OBVIOUS
          <5>1. j \in 1..call.size \/ j = call.size + 1
            BY <1>3, <3>1, <3>4
          <5> QED  BY <1>3, <1>5, <3>1, <3>4, <3>5, <5>1
        <4> QED  BY <3>1, <3>4, <3>5, <4>1, SeqEqual
      <3> QED  BY <1>3, <2>1, <3>2, <3>4, <3>6 DEF TypeInv, Blocks
    <2>2. CASE block.form # "array"
      <3>1. /\ Len(block.cells) = call.size
            /\ \A n \in 1..call.size : block.cells[n] = to_c_type(vec[n])
        <4>1. \A n \in 1..call.pos : call.size - call.pos + n = n
          BY <1>1, <1>3
        <4> QED  BY <1>1, <1>3, <2>2, <4>1 DEF WhenCreating
      <3>2. block.cells = C
        BY <1>3, <1>5, <3>1, SeqEqual
      <3> QED  BY <1>1, <1>3, <2>2, <3>2 DEF TypeInv
    <2> QED  BY <2>1, <2>2
  <1>8. TypeInv'
    <2>1. keeper' \in [Keepers -> OwnershipType \cup {NULL}]
      BY <1>2, <1>3 DEF TypeInv, OwnershipType
    <2> QED  BY <1>1, <1>3, <1>4, <1>7, <2>1 DEF TypeInv, Forms
  <1>9. WhenLent'
    <2>1. block'.st = (IF block'.cells = <<>> THEN "null" ELSE "live")
      <3> HIDE DEF C
      <3>1. CASE block.form = "array"
        <4>1. block'.cells # <<>>
          BY <1>5, <1>6, <1>7, <3>1
        <4> QED  BY <1>3, <1>7, <3>1, <4>1 DEF WhenCreating
      <3>2. CASE block.form # "array"
        <4>1. block'.cells = <<>> <=> call.size = 0
          BY <1>5, <1>7, <3>2, EmptySeq
        <4> QED  BY <1>1, <1>3, <1>7, <3>2, <4>1 DEF WhenCreating
      <3> QED  BY <3>1, <3>2
    <2>2. C' = C
      BY <1>1 DEF to_c_type
    <2>3. CSeesVector'
      BY <1>7, <2>1, <2>2 DEF CSeesVector
    <2>4. (FromVector /\ vec # NULL /\ block.st # "freed")'
      BY <1>1, <1>3, <1>4, <2>1 DEF WhenCreating, FromVector
    <2>5. Lends(k)'
      BY <1>2, <1>3 DEF WhenCreating, NoKeeper, Lends, TypeInv
    <2> QED  BY <2>3, <2>4, <2>5 DEF WhenLent
  <1>10. Balanced'
    BY <1>1, <1>4, BalanceKept
  <1> QED  BY <1>4, <1>8, <1>9, <1>10 DEF IInv, Phase

LEMMA CopyKeeperIInv ==
  ASSUME IInv, NEW k \in Keepers, NEW l \in Keepers, CopyKeeper(k, l)
  PROVE  IInv'
  <1>1. /\ call.op = "c_call" /\ keeper[k] # NULL /\ keeper[l] = NULL
        /\ keeper' = [keeper EXCEPT ![l] = keeper[k], ![k] = "NONE"]
        /\ UNCHANGED <<kind, refs, lib, block, vec, call>>
    BY DEF CopyKeeper, Moved
  <1>2. WhenLent /\ TypeInv /\ keeper[k] \in OwnershipType /\ k # l
    BY <1>1 DEF IInv, Phase, TypeInv
  <1>3. /\ keeper' \in [Keepers -> OwnershipType \cup {NULL}]
        /\ \A m \in Keepers :
             keeper'[m] = IF m = k THEN "NONE" ELSE IF m = l THEN keeper[k] ELSE keeper[m]
    BY <1>1, <1>2 DEF TypeInv, OwnershipType
  <1>4. TypeInv'
    BY <1>1, <1>2, <1>3 DEF TypeInv, Forms
  <1>5. \E m \in Keepers : Lends(m)'
    <2>1. PICK m \in Keepers : Lends(m)
      BY <1>2 DEF WhenLent
    <2>2. CASE m = k
      <3>1. Lends(l)'
        BY <1>2, <1>3, <2>1, <2>2 DEF Lends
      <3> QED  BY <3>1
    <2>3. CASE m # k
      <3>1. m # l /\ keeper[k] \in {"NONE", NULL}
        BY <1>1, <2>1, <2>3, DataAssumption DEF Lends
      <3>2. Lends(m)'
        BY <1>3, <2>1, <2>3, <3>1 DEF Lends
      <3> QED  BY <3>2
    <2> QED  BY <2>2, <2>3
  <1>6. Phase'
    BY <1>1, <1>2, <1>5 DEF Phase, WhenLent, FromVector, CSeesVector, to_c_type
  <1>7. Balanced'
    BY <1>1, BalanceKept
  <1> QED  BY <1>4, <1>6, <1>7 DEF IInv

LEMMA KeeperGoesIInv ==
  ASSUME IInv, NEW k \in Keepers, KeeperGoes(k)
  PROVE  IInv'
  <1>1. /\ call.op \in {"c_call", "returned"}
        /\ call.op = "c_call" => keeper[k] = "NONE"
        /\ KeeperGoesWith(k, refs)
        /\ call' = IF \A l \in Keepers \ {k} : keeper[l] = NULL
                   THEN [call EXCEPT !.op = "idle"] ELSE call
        /\ UNCHANGED <<kind, lib, vec>>
    BY DEF KeeperGoes
  <1>2. TypeInv /\ refs \in [Items -> Int] /\ keeper[k] # NULL
    BY <1>1 DEF IInv, TypeInv, KeeperGoesWith
  <1>3. FromVector /\ keeper[k] \in {"NONE", "SHALLOW"}
        /\ (block.st # "freed" \/ keeper[k] = "NONE")
    <2>1. CASE call.op = "c_call"
      BY <1>1, <2>1 DEF IInv, Phase, WhenLent
    <2>2. CASE call.op = "returned"
      BY <1>2, <2>2 DEF IInv, Phase, WhenReturned, Lends
    <2> QED  BY <1>1, <2>1, <2>2
  <1>4. /\ keeper' = [keeper EXCEPT ![k] = NULL]
        /\ block' \in Blocks /\ block'.form = block.form /\ block'.cells = block.cells
        /\ block'.st = IF block.st = "null" \/ keeper[k] = "NONE" THEN block.st ELSE "freed"
        /\ refs' = refs
    BY <1>1, <1>2, <1>3, Destroyed
  <1>5. /\ call' \in Calls /\ call'.owner = call.owner /\ call'.expected = call.expected
        /\ call'.pos = call.pos /\ call'.size = call.size
        /\ call'.op = IF \A l \in Keepers \ {k} : keeper[l] = NULL THEN "idle" ELSE call.op
    <2>1. CASE \A l \in Keepers \ {k} : keeper[l] = NULL
      BY <1>1, <1>2, <2>1 DEF TypeInv, Calls
    <2>2. CASE ~\A l \in Keepers \ {k} : keeper[l] = NULL
      BY <1>1, <1>2, <2>2 DEF TypeInv
    <2> QED  BY <2>1, <2>2
  <1>6. /\ keeper' \in [Keepers -> OwnershipType \cup {NULL}]
        /\ \A l \in Keepers : keeper'[l] = IF l = k THEN NULL ELSE keeper[l]
    BY <1>2, <1>4 DEF TypeInv
  <1>7. TypeInv'
    BY <1>1, <1>2, <1>4, <1>5, <1>6 DEF TypeInv, Forms
  <1>8. FromVector'
    BY <1>3, <1>5 DEF FromVector
  <1>9. CASE call.op = "c_call"
    <2>1. keeper[k] = "NONE" /\ WhenLent /\ block'.st = block.st
      BY <1>1, <1>4, <1>9 DEF IInv, Phase
    <2>2. PICK m \in Keepers : Lends(m)
      BY <2>1 DEF WhenLent
    <2>3. m # k /\ keeper[m] # NULL
      BY <2>1, <2>2, DataAssumption DEF Lends
    <2>4. call'.op = "c_call"
      BY <1>5, <1>9, <2>3
    <2>5. Lends(m)'
      BY <1>6, <2>2, <2>3 DEF Lends
    <2>6. CSeesVector'
      BY <1>1, <1>4, <1>9, <2>1 DEF WhenLent, CSeesVector, to_c_type
    <2>7. WhenLent'
      BY <1>1, <1>8, <2>1, <2>5, <2>6 DEF WhenLent
    <2>8. Balanced'
      BY <1>1, <1>4, <1>9, <2>4, BalanceKept
    <2> QED  BY <1>7, <2>4, <2>7, <2>8 DEF IInv, Phase
  <1>10. CASE call.op = "returned"
    <2>1. WhenReturned /\ call'.op \in {"idle", "returned"}
      BY <1>5, <1>10 DEF IInv, Phase
    <2>2. Balanced'
      BY <1>1, <1>4, <1>10, <2>1, BalanceKept
    <2>3. \/ block'.st # "freed" /\ \E m \in Keepers : Lends(m)'
          \/ /\ block'.st # "live"
             /\ \A m \in Keepers : keeper'[m] \in {"NONE", NULL}
      <3>1. CASE block.st # "freed" /\ \E m \in Keepers : Lends(m)
        <4>1. PICK m \in Keepers : Lends(m)
          BY <3>1
        <4>2. CASE m = k
          <5>1. keeper[k] = "SHALLOW" /\ \A l \in Keepers : keeper'[l] \in {"NONE", NULL}
            BY <1>6, <4>1, <4>2 DEF Lends
          <5> QED  BY <1>4, <5>1
        <4>3. CASE m # k
          <5>1. keeper[k] = "NONE" /\ Lends(m)'
            BY <1>2, <1>6, <4>1, <4>3 DEF Lends
          <5> QED  BY <1>4, <3>1, <5>1
        <4> QED  BY <4>2, <4>3
      <3>2. CASE block.st # "live" /\ \A m \in Keepers : keeper[m] \in {"NONE", NULL}
        BY <1>4, <1>6, <3>2
      <3> QED  BY <2>1, <3>1, <3>2 DEF WhenReturned
    <2>4. CASE call'.op = "idle"
      <3>1. \A l \in Keepers : keeper'[l] = NULL
        BY <1>5, <1>6, <1>10, <2>4
      <3>2. block'.st # "live"
        BY <2>3, <3>1, DataAssumption DEF Lends
      <3>3. WhenIdle'
        BY <1>8, <3>1, <3>2 DEF WhenIdle, NoKeeper, FromVector
      <3> QED  BY <1>7, <2>2, <2>4, <3>3 DEF IInv, Phase
    <2>5. CASE call'.op = "returned"
      <3>1. WhenReturned'
        BY <1>8, <2>3 DEF WhenReturned
      <3> QED  BY <1>7, <2>2, <2>5, <3>1 DEF IInv, Phase
    <2> QED  BY <2>1, <2>4, <2>5
  <1> QED  BY <1>1, <1>9, <1>10

LEMMA CReturnsIInv ==
  ASSUME IInv, CReturns
  PROVE  IInv'
  <1>1. /\ call.op = "c_call" /\ call' = [call EXCEPT !.op = "returned"]
        /\ UNCHANGED <<kind, refs, lib, block, keeper, vec>>
    BY DEF CReturns
  <1>2. /\ call' \in Calls /\ call'.op = "returned" /\ call'.owner = call.owner
        /\ call'.expected = call.expected /\ call'.pos = call.pos /\ call'.size = call.size
    BY <1>1 DEF IInv, TypeInv, Calls
  <1>3. TypeInv'
    BY <1>1, <1>2 DEF IInv, TypeInv, Forms
  <1>4. Phase'
    BY <1>1, <1>2 DEF IInv, Phase, WhenLent, WhenReturned, FromVector, Lends
  <1>5. Balanced'
    BY <1>1, <1>2, BalanceKept
  <1> QED  BY <1>3, <1>4, <1>5 DEF IInv

LEMMA DropVectorIInv ==
  ASSUME IInv, DropVector
  PROVE  IInv'
  <1>1. /\ call.op = "idle" /\ vec # NULL
        /\ refs' = Add(refs, vec, -ElementOwns) /\ vec' = NULL /\ call' = Idle
        /\ UNCHANGED <<kind, lib, block, keeper>>
    BY DEF DropVector
  <1>2. refs' \in [Items -> Int] /\ \A i \in Items : refs'[i] = lib[i] + Pending(i)
    BY <1>1, Dropped
  <1>3. /\ Idle \in Calls /\ Idle.op = "idle" /\ Idle.owner = "NONE" /\ Idle.expected = NULL
        /\ Idle.pos = 0 /\ Idle.size = 0
    BY DataAssumption DEF Idle, Calls, OwnershipType
  <1>4. TypeInv'
    BY <1>1, <1>2, <1>3 DEF IInv, TypeInv, Forms
  <1>5. Phase'
    BY <1>1, <1>3 DEF IInv, Phase, WhenIdle, NoKeeper
  <1>6. Balanced'
    <2> SUFFICES ASSUME NEW i \in Items
                 PROVE  (refs[i] = lib[i] + Pending(i)
                                   + ElementOwns * Occurrences(i, Held(vec)))'
      BY DEF Balanced
    <2>1. Pending(i) = 0 /\ Pending(i)' = 0
      BY <1>1, <1>3 DEF Pending
    <2>2. ElementOwns' * Occurrences(i, Held(vec))' = 0
      <3>1. Occurrences(i, Held(vec))' = Occurrences(i, <<>>)
        BY <1>1 DEF Held, Occurrences
      <3>2. ElementOwns' \in {0, 1}
        BY DEF ElementOwns
      <3> QED  BY <3>1, <3>2, OccurrencesEmpty
    <2>3. lib[i] \in Int
      BY DataAssumption DEF IInv, TypeInv
    <2> QED  BY <1>1, <1>2, <2>1, <2>2, <2>3
  <1> QED  BY <1>4, <1>5, <1>6 DEF IInv

-----------------------------------------------------------------------------
(* The specification. *)

LEMMA InitIInv ==
  ASSUME Init
  PROVE  IInv
  <1>1. /\ Idle \in Calls /\ Idle.op = "idle" /\ Idle.owner = "NONE" /\ Idle.expected = NULL
        /\ Idle.pos = 0 /\ Idle.size = 0
    BY DataAssumption DEF Idle, Calls, OwnershipType
  <1>2. <<>> \in Seq(Cells)
    OBVIOUS
  <1>3. NoBlock \in Blocks /\ NoBlock.form = "array"
    BY <1>2 DEF NoBlock, Blocks
  <1>4. TypeInv
    BY <1>1, <1>3, DataAssumption DEF Init, TypeInv
  <1>5. Phase
    BY <1>1 DEF Init, Phase, WhenIdle, NoKeeper
  <1>6. Balanced
    <2> SUFFICES ASSUME NEW i \in Items
                 PROVE  refs[i] = lib[i] + Pending(i) + ElementOwns * Occurrences(i, Held(vec))
      BY DEF Balanced
    <2>1. Occurrences(i, Held(vec)) = 0 /\ ElementOwns \in {0, 1}
      BY OccurrencesEmpty DEF Init, Held, ElementOwns
    <2>2. Pending(i) = 0 /\ refs[i] = 0 /\ lib[i] = 0
      BY <1>1 DEF Init, Pending
    <2> QED  BY <2>1, <2>2
  <1> QED  BY <1>4, <1>5, <1>6 DEF IInv

LEMMA NextIInv ==
  ASSUME IInv, [Next]_vars
  PROVE  IInv'
  <1>1. ASSUME NEW i \in Items, LibTakes(i) \/ LibDrops(i) PROVE IInv'
    BY <1>1, LibTakesIInv, LibDropsIInv
  <1>2. ASSUME NEW cells \in CellSeqs, NEW ownership \in OwnershipType,
               \/ array_to_vector(cells, ownership)
               \/ array_to_vector_0(cells, ownership)
               \/ list_to_vector(cells, ownership)
               \/ slist_to_vector(cells, ownership)
        PROVE  IInv'
    BY <1>2, ConversionsBegin
  <1>3. ASSUME NEW form \in {"array", "glist", "gslist"}, null_to_vector(form) PROVE IInv'
    BY <1>3, NullToVectorIInv
  <1>4. CASE vector_to_array \/ vector_to_list \/ vector_to_slist
    BY <1>4, CreationsBegin
  <1>5. CASE ConvertElement \/ EndConversion \/ Throw
    BY <1>5, ConvertElementIInv, EndConversionIInv, ThrowIInv
  <1>6. CASE create_array \/ create_bool_array \/ create_glist \/ create_gslist
    BY <1>6, CreateIInv
  <1>7. CASE EndCreate \/ CReturns \/ DropVector
    BY <1>7, EndCreateIInv, CReturnsIInv, DropVectorIInv
  <1>8. ASSUME NEW k \in Keepers, NEW l \in Keepers, CopyKeeper(k, l) PROVE IInv'
    BY <1>8, CopyKeeperIInv
  <1>9. ASSUME NEW k \in Keepers, KeeperGoes(k) PROVE IInv'
    BY <1>9, KeeperGoesIInv
  <1>10. CASE UNCHANGED vars
    <2>1. UNCHANGED <<kind, refs, lib, block, keeper, vec, call>>
      BY <1>10 DEF vars
    <2>2. TypeInv'
      BY <2>1 DEF IInv, TypeInv, Forms
    <2>3. Phase'
      BY <2>1 DEF IInv, Phase, WhenIdle, WhenConverting, WhenCreating, WhenLent, WhenReturned,
                  NoKeeper, OnlyKeeper, Lends, FromVector, CSeesVector, to_c_type, to_cpp_type
    <2>4. Balanced'
      BY <2>1 DEF IInv, Balanced, Pending, Counted, TypeTraits, ElementOwns, Held
    <2> QED  BY <2>2, <2>3, <2>4 DEF IInv
  <1> QED  BY <1>1, <1>2, <1>3, <1>4, <1>5, <1>6, <1>7, <1>8, <1>9, <1>10 DEF Next

LEMMA IInvHolds == Spec => []IInv
  BY InitIInv, NextIInv, PTL DEF Spec

\* No reference is lost and none is given back twice: at every step of a conversion, of
\* one that throws too, and however its keeper is copied, those of a datum are the
\* library's, those that came with the container and those of the elements.
THEOREM ReferencesExact == Spec => []RefsExact
  <1>1. ASSUME IInv PROVE RefsExact
    <2>1. ASSUME NEW i \in Items
          PROVE  /\ refs[i] = lib[i] + Pending(i) + ElementOwns * Occurrences(i, Held(vec))
                 /\ refs[i] \in 0..(MaxRefs + 2 * MaxLen)
      <3>1. refs[i] = lib[i] + Pending(i) + ElementOwns * Occurrences(i, Held(vec))
        BY <1>1 DEF IInv, Balanced
      <3>2. lib[i] \in 0..MaxRefs /\ MaxRefs \in Nat /\ MaxLen \in Nat
        BY <1>1, DataAssumption DEF IInv, TypeInv
      <3>3. Pending(i) \in 0..MaxLen
        <4>1. CASE call.op = "to_vector"
          <5>1. call.size \in 0..MaxLen /\ call.size <= Len(block.cells)
                /\ block.cells \in Seq(Cells)
            BY <1>1, <4>1, Types DEF IInv, Phase, WhenConverting
          <5>2. /\ First(call.size, block.cells) \in Seq(Cells)
                /\ Len(First(call.size, block.cells)) = call.size
            BY <5>1, FirstProperties
          <5>3. /\ Occurrences(i, First(call.size, block.cells)) \in Nat
                /\ Occurrences(i, First(call.size, block.cells)) <= call.size
            BY <5>2, OccurrencesType
          <5> QED  BY <3>2, <5>1, <5>3 DEF Pending
        <4>2. CASE call.op # "to_vector"
          BY <3>2, <4>2 DEF Pending
        <4> QED  BY <4>1, <4>2
      <3>4. ElementOwns * Occurrences(i, Held(vec)) \in 0..MaxLen
        <4>1. Held(vec) \in Seq(Elements) /\ Len(Held(vec)) <= MaxLen
          BY <1>1, <3>2, Types DEF IInv, TypeInv, Held
        <4>2. Occurrences(i, Held(vec)) \in Nat /\ Occurrences(i, Held(vec)) <= Len(Held(vec))
          BY <4>1, OccurrencesType
        <4>3. ElementOwns \in {0, 1} /\ Len(Held(vec)) \in Nat
          BY <4>1 DEF ElementOwns
        <4> QED  BY <3>2, <4>1, <4>2, <4>3
      <3> QED  BY <3>1, <3>2, <3>3, <3>4
    <2>2. refs \in [Items -> 0..(MaxRefs + 2 * MaxLen)]
      BY <1>1, <2>1 DEF IInv, TypeInv
    <2>3. TypeOK
      <3>1. /\ vec # NULL => Len(vec) \in 0..MaxLen
            /\ call.pos \in 0..call.size
        BY <1>1, Types, DataAssumption DEF IInv, TypeInv
      <3> QED  BY <1>1, <2>2, <3>1, Types DEF IInv, TypeInv, TypeOK
    <2> QED  BY <2>1, <2>3 DEF RefsExact
  <1> QED  BY <1>1, IInvHolds, PTL

\* Between two conversions no keeper is left, and a container that the caller owned has
\* been freed, once.
THEOREM KeepersLeaveNothing == Spec => []NothingLeft
  <1>1. ASSUME IInv PROVE NothingLeft
    BY <1>1, Types DEF IInv, Phase, WhenIdle, NoKeeper, NothingLeft
  <1> QED  BY <1>1, IInvHolds, PTL

\* A C function sees the elements of the vector in order, an array with a 0 at its end,
\* in memory that is written and not freed.
THEOREM LentVectorComplete == Spec => []CSeesVector
  <1>1. ASSUME IInv PROVE CSeesVector
    BY <1>1 DEF IInv, Phase, WhenLent, CSeesVector
  <1> QED  BY <1>1, IInvHolds, PTL

\* A conversion that returns has given every element, in order; of an array whose size is
\* not given, those before the first 0.
THEOREM ConversionsComplete == Spec => []VectorComplete
  <1>1. ASSUME IInv PROVE VectorComplete
    BY <1>1 DEF IInv, Phase, WhenIdle, VectorComplete
  <1> QED  BY <1>1, IInvHolds, PTL

=============================================================================
