---------------------- MODULE UstringRefinementProofs ----------------------
(***************************************************************************)
(* Ustring implements CharString: a call on the bytes of a text does what  *)
(* the call on its characters promises.  A string of bytes stands for the  *)
(* characters that it decodes to (CharsOf), a position or a count in bytes *)
(* for one in characters (Offset), an iterator for the characters before   *)
(* it.  The sections take the calls group by group, the last one all.      *)
(***************************************************************************)
EXTENDS UstringProofs

-----------------------------------------------------------------------------
(* The calls that change the strings do to their characters what module      *)
(* CharString says.                                                          *)

\* A result becomes the characters of s, or an exception leaves them alone.
LEMMA ChangeYields ==
  ASSUME GoodStrings(str), NEW c, NEW result, NEW fault, NEW cs,
         Yields(result, fault, cs), Change(c, result)
  PROVE  /\ fault = "none" => CharsOf(str') = [CharsOf(str) EXCEPT !.s = cs]
                              /\ call' = [c EXCEPT !.ret = <<"done">>]
         /\ fault # "none" => CharsOf(str') = CharsOf(str) /\ call' = [c EXCEPT !.ret = <<fault>>]
  <1>1. CASE fault = "none"
    <2>1. result.err = "none" /\ cs \in Texts /\ result.b = Encode(cs)
      BY <1>1 DEF Yields
    <2>2. str' = [str EXCEPT !.s = Encode(cs)] /\ call' = [c EXCEPT !.ret = <<"done">>]
      BY <2>1 DEF Change
    <2>3. str'.s = Encode(cs) /\ str'.t = str.t
      BY <2>2 DEF GoodStrings
    <2>4. Decoded(Encode(cs)) = cs
      BY <2>1, DecodeEncode
    <2>5. CharsOf(str').s = cs /\ CharsOf(str').t = CharsOf(str).t
      BY <2>3, <2>4 DEF CharsOf
    <2>6. CharsOf(str') = [o \in {"s", "t"} |-> CharsOf(str')[o]]
          /\ CharsOf(str) = [o \in {"s", "t"} |-> CharsOf(str)[o]]
      BY DEF CharsOf
    <2>7. CharsOf(str') = [CharsOf(str) EXCEPT !.s = cs]
      BY <2>5, <2>6
    <2> QED  BY <1>1, <2>2, <2>7
  <1>2. CASE fault # "none"
    BY <1>2 DEF Yields, Change
  <1> QED  BY <1>1, <1>2

\* No iterator is in use, neither of the bytes nor of the characters.
LEMMA NoIterator ==
  ASSUME it = NoIter, it' = NoIter
  PROVE  IndexOf(str'.s, it') = IndexOf(str.s, it)
  BY DEF IndexOf

\* A call keeps what ustring.h promises, or is one that does not.
Allowed == Characters!Next \/ Departs

\* A text without a NUL is all of it.
LEMMA EndedIs ==
  ASSUME NEW cs \in Texts, ~HasNul(cs)
  PROVE  Characters!UpToNul(cs) = cs
  <1>1. 0 \notin Range(cs)
    BY DEF HasNul
  <1> QED  BY <1>1, CStringWhole

\* A call of the abstract specification is one of its steps.
LEMMA Called ==
  ASSUME call = NoCall, call'.op # "none",
         \/ Characters!Edit(call') \/ Characters!Plus(call') \/ Characters!Resize(call')
         \/ Characters!Exchange(call') \/ Characters!Extract(call') \/ Characters!Move(call')
         \/ Characters!EditAt(call') \/ Characters!Query(call')
  PROVE  Characters!Next
  <1>1. call' # NoCall
    BY DEF NoCall
  <1> QED  BY <1>1 DEF Characters!Next, NoCall, Characters!NoCall

EditOps == {"assign", "append", "insert", "replace", "erase"}

\* A change of s by position is one of the abstract specification.
LEMMA EditStep ==
  ASSUME Inv, Idle, NEW op \in EditOps, NEW i, NEW n, NEW src, NEW result,
         Modify(Edit(op, i, n, src), result),
         LET cs == CharsOf(str).s
             at == IF op = "append" THEN Len(cs) ELSE i
         IN  Yields(result, IF at > Len(cs) THEN "out_of_range" ELSE Characters!Fault(src),
                    Characters!Splice(cs, at, n, Characters!Text(src)))
  PROVE  Characters!Next
  <1> DEFINE cs == CharsOf(str).s
             at == IF op = "append" THEN Len(cs) ELSE i
             fault == IF at > Len(cs) THEN "out_of_range" ELSE Characters!Fault(src)
             new == Characters!Splice(cs, at, n, Characters!Text(src))
             c == Edit(op, i, n, src)
  <1>1. Yields(result, fault, new) /\ Change(c, result) /\ it = NoIter /\ it' = NoIter /\ call = NoCall
    BY DEF Modify, Idle
  <1> HIDE DEF fault, new
  <1>2. /\ fault = "none" => CharsOf(str') = [CharsOf(str) EXCEPT !.s = new]
                              /\ call' = [c EXCEPT !.ret = <<"done">>]
        /\ fault # "none" => CharsOf(str') = CharsOf(str) /\ call' = [c EXCEPT !.ret = <<fault>>]
    <2> HIDE DEF c
    <2> QED  BY <1>1, ChangeYields DEF Inv
  <1>3. call'.op = op /\ call'.i = i /\ call'.n = n /\ call'.src = src
        /\ call'.ret = IF fault = "none" THEN <<"done">> ELSE <<fault>>
    BY <1>2 DEF Edit
  <1>4. Characters!At(call') = at
    BY <1>3 DEF Characters!At
  <1>5. IndexOf(str'.s, it') = IndexOf(str.s, it)
    BY <1>1, NoIterator
  <1>6. Characters!Edit(call')
    BY <1>2, <1>3, <1>4, <1>5 DEF Characters!Edit, EditOps, fault, new
  <1> QED  BY <1>1, <1>3, <1>6, Called DEF EditOps

\* Everything is replaced, and nothing but the end.
LEMMA SpliceEnds ==
  ASSUME NEW cs \in Texts, Len(cs) < npos, NEW ts \in Texts
  PROVE  Characters!Splice(cs, 0, npos, ts) = ts /\ Characters!Splice(cs, Len(cs), 0, ts) = cs \o ts
  <1>1. /\ Len(cs) \in Nat /\ npos \in Nat /\ 0 \in 0 .. Len(cs) /\ Len(cs) \in 0 .. Len(cs)
        /\ ~(0 + npos <= Len(cs)) /\ Len(cs) + 0 <= Len(cs) /\ Len(cs) + 0 = Len(cs)
    BY DEF Texts, npos
  <1>2. SubSeq(cs, 1, 0) = <<>> /\ SubSeq(cs, Len(cs) + 1, Len(cs)) = <<>> /\ SubSeq(cs, 1, Len(cs)) = cs
    BY <1>1 DEF Texts
  <1>3. Characters!Splice(cs, 0, npos, ts) = SubSeq(cs, 1, 0) \o ts \o SubSeq(cs, Len(cs) + 1, Len(cs))
    BY <1>1, SpliceIs
  <1>4. Characters!Splice(cs, Len(cs), 0, ts)
          = SubSeq(cs, 1, Len(cs)) \o ts \o SubSeq(cs, Len(cs) + 1, Len(cs))
    BY <1>1, SpliceIs
  <1>5. <<>> \o ts \o <<>> = ts /\ cs \o ts \o <<>> = cs \o ts
    <2>1. cs \o ts \in Seq(Unicode) /\ ts \in Seq(Unicode)
      BY DEF Texts
    <2> QED  BY <2>1, ConcatEmptySeq
  <1> QED  BY <1>2, <1>3, <1>4, <1>5, Zenon

\* The characters of s, and that the bytes are theirs.
LEMMA TextOfS ==
  ASSUME Inv
  PROVE  /\ GoodStrings(str) /\ CharsOf(str).s \in Texts /\ str.s = Encode(CharsOf(str).s)
         /\ Len(Encode(CharsOf(str).s)) < npos /\ Len(CharsOf(str).s) < npos
         /\ Len(CharsOf(str).s) \in Nat
  <1>1. GoodStrings(str) /\ "s" \in {"s", "t"}
    BY DEF Inv
  <1>2. /\ CharsOf(str)["s"] \in Texts /\ str["s"] = Encode(CharsOf(str)["s"])
        /\ Len(Encode(CharsOf(str)["s"])) < npos /\ Len(CharsOf(str)["s"]) < npos
    BY <1>1, StringText
  <1> QED  BY <1>1, <1>2 DEF Texts

\* operator=() and assign()
LEMMA AssignStep ==
  ASSUME Inv, Idle, NEW src \in Sources \cup One, Modify(Edit("assign", 0, npos, src), ustring(src))
  PROVE  Characters!Next
  <1> DEFINE cs == CharsOf(str).s
             ts == Characters!Text(src)
             fault == Characters!Fault(src)
             result == ustring(src)
  <1>1. GoodStrings(str) /\ cs \in Texts /\ Len(cs) < npos /\ Len(cs) \in Nat
    BY TextOfS
  <1>2. Yields(result, fault, ts)
    BY <1>1, SourceYields
  <1> HIDE DEF ts, cs, fault, result
  <1>3. Yields(result, fault, Characters!Splice(cs, 0, npos, ts))
    <2>1. CASE fault = "none"
      <3>1. ts \in Texts
        BY <1>2, <2>1 DEF Yields
      <3>2. Characters!Splice(cs, 0, npos, ts) = ts
        BY <1>1, <3>1, SpliceEnds
      <3> QED  BY <1>2, <3>2
    <2>2. CASE fault # "none"
      BY <1>2, <2>2 DEF Yields
    <2> QED  BY <2>1, <2>2
  <1>4. (IF "assign" = "append" THEN Len(cs) ELSE 0) = 0 /\ ~(0 > Len(cs)) /\ "assign" \in EditOps
    BY <1>1 DEF EditOps
  <1>5. LET at == IF "assign" = "append" THEN Len(cs) ELSE 0
        IN  Yields(result, IF at > Len(cs) THEN "out_of_range" ELSE fault,
                   Characters!Splice(cs, at, npos, ts))
    BY <1>3, <1>4
  <1> QED  BY <1>4, <1>5, EditStep DEF ts, cs, fault, result

\* operator+=() and append()
LEMMA AppendStep ==
  ASSUME Inv, Idle, NEW src \in Sources \cup One, Modify(Edit("append", 0, 0, src), append(src))
  PROVE  Characters!Next
  <1> DEFINE cs == CharsOf(str).s
             ts == Characters!Text(src)
             fault == Characters!Fault(src)
             arg == ustring(src)
  <1>1. GoodStrings(str) /\ cs \in Texts /\ Len(cs) < npos /\ Len(cs) \in Nat /\ str.s = Encode(cs)
    BY TextOfS
  <1>2. Yields(arg, fault, ts)
    BY <1>1, SourceYields
  <1>3. append(src) = IF arg.err = "none" THEN ok(str.s \o arg.b) ELSE arg
    BY DEF append
  <1> HIDE DEF ts, cs, fault, arg
  <1>4. Yields(append(src), fault, Characters!Splice(cs, Len(cs), 0, ts))
    <2>1. CASE fault = "none"
      <3>1. ts \in Texts /\ arg.b = Encode(ts) /\ arg.err = "none"
        BY <1>2, <2>1 DEF Yields
      <3>2. Characters!Splice(cs, Len(cs), 0, ts) = cs \o ts /\ cs \o ts \in Texts
        BY <1>1, <3>1, SpliceEnds DEF Texts
      <3>3. Encode(cs \o ts) = Encode(cs) \o Encode(ts)
        BY <1>1, <3>1, EncodeConcat
      <3>4. append(src) = ok(Encode(cs \o ts))
        BY <1>1, <1>3, <3>1, <3>3
      <3> DEFINE all == cs \o ts
      <3>5. Yields(ok(Encode(all)), "none", all)
        <4>1. all \in Texts
          BY <3>2
        <4> HIDE DEF all
        <4> QED  BY <4>1 DEF Yields, ok
      <3> QED  BY <2>1, <3>2, <3>4, <3>5, Zenon
    <2>2. CASE fault # "none"
      BY <1>2, <1>3, <2>2 DEF Yields
    <2> QED  BY <2>1, <2>2
  <1>5. (IF "append" = "append" THEN Len(cs) ELSE 0) = Len(cs) /\ ~(Len(cs) > Len(cs)) /\ "append" \in EditOps
    BY <1>1 DEF EditOps
  <1>6. LET at == IF "append" = "append" THEN Len(cs) ELSE 0
        IN  Yields(append(src), IF at > Len(cs) THEN "out_of_range" ELSE fault,
                   Characters!Splice(cs, at, 0, ts))
    BY <1>4, <1>5
  <1> QED  BY <1>5, <1>6, EditStep DEF ts, cs, fault

\* Replacing at a position, whatever the byte offset of that is.
LEMMA PlaceYields ==
  ASSUME NEW cs \in Texts, Len(Encode(cs)) < npos, NEW i \in Nat, NEW n \in Nat, NEW p, NEW m,
         i > Len(cs) => p = npos,
         i <= Len(cs) =>
           /\ p = Offset(cs, i)
           /\ m = IF i + n <= Len(cs) THEN Offset(cs, i + n) - Offset(cs, i) ELSE npos,
         NEW arg, NEW fault, NEW ts, Yields(arg, fault, ts)
  PROVE  Yields(std_replace(Encode(cs), p, m, arg), IF i > Len(cs) THEN "out_of_range" ELSE fault,
                Characters!Splice(cs, i, n, ts))
  <1>1. Len(cs) \in Nat /\ Len(Encode(cs)) \in Nat /\ npos \in Nat
    BY EncodeBytes DEF Texts, npos
  <1>2. CASE i > Len(cs)
    <2>1. std_replace(Encode(cs), p, m, arg) = throw("out_of_range")
      BY <1>1, <1>2 DEF std_replace
    <2> QED  BY <1>2, <2>1 DEF Yields, throw
  <1>3. CASE i <= Len(cs)
    <2>1. i \in 0 .. Len(cs) /\ ~(i > Len(cs))
      BY <1>1, <1>3
    <2>2. Yields(std_replace(Encode(cs), Offset(cs, i), m, arg), fault, Characters!Splice(cs, i, n, ts))
      BY <1>3, <2>1, ReplaceYields
    <2> QED  BY <1>3, <2>1, <2>2
  <1> QED  BY <1>1, <1>2, <1>3

\* insert()
LEMMA InsertStep ==
  ASSUME Inv, Idle, NEW i \in Nat, NEW src \in Sources, Modify(Edit("insert", i, 0, src), insert(i, src))
  PROVE  Characters!Next
  <1> DEFINE cs == CharsOf(str).s
             ts == Characters!Text(src)
             fault == Characters!Fault(src)
             arg == ustring(src)
  <1>1. GoodStrings(str) /\ cs \in Texts /\ Len(Encode(cs)) < npos /\ Len(cs) \in Nat /\ str.s = Encode(cs)
    BY TextOfS
  <1>2. Yields(arg, fault, ts)
    BY <1>1, SourceYields
  <1>3. insert(i, src) = std_replace(str.s, utf8_byte_offset(str.s, i), 0, arg)
    BY DEF insert
  <1> HIDE DEF ts, cs, fault, arg
  <1>4. utf8_byte_offset(Encode(cs), i) = IF i <= Len(cs) THEN Offset(cs, i) ELSE npos
    BY <1>1, ByteOffsetIs
  <1> DEFINE p == utf8_byte_offset(Encode(cs), i)
  <1> HIDE DEF p
  <1>5. /\ i > Len(cs) => p = npos
        /\ i <= Len(cs) =>
             /\ p = Offset(cs, i)
             /\ 0 = IF i + 0 <= Len(cs) THEN Offset(cs, i + 0) - Offset(cs, i) ELSE npos
    <2>1. CASE i > Len(cs)
      BY <1>1, <1>4, <2>1 DEF p
    <2>2. CASE i <= Len(cs)
      <3>1. i \in 0 .. Len(cs) /\ i + 0 = i
        BY <1>1, <2>2
      <3>2. Offset(cs, i) \in Nat
        BY <1>1, <3>1, OffsetOrder
      <3>3. Offset(cs, i + 0) - Offset(cs, i) = 0
        BY <3>1, <3>2
      <3> QED  BY <1>1, <1>4, <2>2, <3>1, <3>3 DEF p
    <2> QED  BY <1>1, <2>1, <2>2
  <1>6. 0 \in Nat
    OBVIOUS
  <1>7. Yields(std_replace(Encode(cs), p, 0, arg), IF i > Len(cs) THEN "out_of_range" ELSE fault,
               Characters!Splice(cs, i, 0, ts))
    BY <1>1, <1>2, <1>5, <1>6, PlaceYields
  <1>8. (IF "insert" = "append" THEN Len(cs) ELSE i) = i /\ "insert" \in EditOps
    BY DEF EditOps
  <1>9. insert(i, src) = std_replace(Encode(cs), p, 0, arg)
    BY <1>1, <1>3 DEF p
  <1>10. LET at == IF "insert" = "append" THEN Len(cs) ELSE i
         IN  Yields(insert(i, src), IF at > Len(cs) THEN "out_of_range" ELSE fault,
                    Characters!Splice(cs, at, 0, ts))
    BY <1>7, <1>8, <1>9
  <1> QED  BY <1>8, <1>10, EditStep DEF ts, cs, fault

\* replace() and erase() take their bounds in bytes from Utf8SubstrBounds.
LEMMA BoundsStep ==
  ASSUME Inv, Idle, NEW op \in {"replace", "erase"}, NEW i \in Nat, NEW n \in Nat, NEW src, NEW arg,
         Yields(arg, Characters!Fault(src), Characters!Text(src)),
         LET bounds == Utf8SubstrBounds(str.s, i, n)
         IN  Modify(Edit(op, i, n, src), std_replace(str.s, bounds.i, bounds.n, arg))
  PROVE  Characters!Next
  <1> DEFINE cs == CharsOf(str).s
             ts == Characters!Text(src)
             fault == Characters!Fault(src)
             bounds == Utf8SubstrBounds(Encode(cs), i, n)
             p == bounds.i
             m == bounds.n
  <1>1. GoodStrings(str) /\ cs \in Texts /\ Len(Encode(cs)) < npos /\ Len(cs) \in Nat /\ str.s = Encode(cs)
    BY TextOfS
  <1>2. Yields(arg, fault, ts)
    OBVIOUS
  <1> HIDE DEF cs, ts, fault
  <1>3. /\ i > Len(cs) => p = npos
        /\ i <= Len(cs) =>
             /\ p = Offset(cs, i)
             /\ m = IF i + n <= Len(cs) THEN Offset(cs, i + n) - Offset(cs, i) ELSE npos
    BY <1>1, BoundsAre
  <1>4. Modify(Edit(op, i, n, src), std_replace(Encode(cs), p, m, arg))
    BY <1>1
  <1> HIDE DEF p, m, bounds
  <1>5. Yields(std_replace(Encode(cs), p, m, arg), IF i > Len(cs) THEN "out_of_range" ELSE fault,
               Characters!Splice(cs, i, n, ts))
    BY <1>1, <1>2, <1>3, PlaceYields
  <1>6. (IF op = "append" THEN Len(cs) ELSE i) = i /\ op \in EditOps
    BY DEF EditOps
  <1> DEFINE result == std_replace(Encode(cs), p, m, arg)
  <1> HIDE DEF result
  <1>7. LET at == IF op = "append" THEN Len(cs) ELSE i
         IN  Yields(result, IF at > Len(cs) THEN "out_of_range" ELSE fault,
                    Characters!Splice(cs, at, n, ts))
    BY <1>5, <1>6 DEF result
  <1> QED  BY <1>4, <1>6, <1>7, EditStep DEF ts, cs, fault, result

\* erase() by position
LEMMA EraseStep ==
  ASSUME Inv, Idle, NEW i \in Nat, NEW n \in Nat, Modify(Edit("erase", i, n, NoText), erase(i, n))
  PROVE  Characters!Next
  <1>1. Characters!Fault(NoText) = "none" /\ Characters!Text(NoText) = <<>>
    BY DEF Characters!Fault, Characters!Text, NoText
  <1>2. Yields(ok(<<>>), Characters!Fault(NoText), Characters!Text(NoText))
    <2>1. <<>> \in Texts /\ Encode(<<>>) = <<>>
      BY EncodeEmpty DEF Texts
    <2> QED  BY <1>1, <2>1 DEF Yields, ok
  <1>3. LET bounds == Utf8SubstrBounds(str.s, i, n)
        IN  Modify(Edit("erase", i, n, NoText), std_replace(str.s, bounds.i, bounds.n, ok(<<>>)))
    BY DEF erase
  <1>4. "erase" \in {"replace", "erase"}
    OBVIOUS
  <1> QED  BY <1>2, <1>3, <1>4, BoundsStep

\* clear()
LEMMA ClearStep ==
  ASSUME Inv, Clear
  PROVE  Characters!Next
  <1> DEFINE cs == CharsOf(str).s
  <1>1. cs \in Texts /\ Len(cs) < npos /\ Len(cs) \in Nat
    BY TextOfS
  <1>2. Characters!Fault(NoText) = "none" /\ Characters!Text(NoText) = <<>>
    BY DEF Characters!Fault, Characters!Text, NoText
  <1>3. Idle /\ Modify(Edit("erase", 0, npos, NoText), ok(<<>>))
    BY DEF Clear
  <1> HIDE DEF cs
  <1>4. <<>> \in Texts /\ Encode(<<>>) = <<>>
    BY EncodeEmpty DEF Texts
  <1>5. Characters!Splice(cs, 0, npos, <<>>) = <<>>
    BY <1>1, <1>4, SpliceEnds
  <1>6. Yields(ok(<<>>), "none", Characters!Splice(cs, 0, npos, <<>>))
    BY <1>4, <1>5 DEF Yields, ok
  <1>7. (IF "erase" = "append" THEN Len(cs) ELSE 0) = 0 /\ "erase" \in EditOps /\ ~(0 > Len(cs))
    BY <1>1 DEF EditOps
  <1>8. LET at == IF "erase" = "append" THEN Len(cs) ELSE 0
        IN  Yields(ok(<<>>), IF at > Len(cs) THEN "out_of_range" ELSE Characters!Fault(NoText),
                   Characters!Splice(cs, at, npos, Characters!Text(NoText)))
    BY <1>2, <1>6, <1>7
  <1> QED  BY <1>3, <1>7, <1>8, EditStep DEF cs

\* A change of s that is always made.
LEMMA DoneStep ==
  ASSUME Inv, Idle, NEW c, NEW cs \in Texts, Modify(c, ok(Encode(cs)))
  PROVE  /\ CharsOf(str') = [CharsOf(str) EXCEPT !.s = cs] /\ call' = [c EXCEPT !.ret = <<"done">>]
         /\ IndexOf(str'.s, it') = IndexOf(str.s, it) /\ call = NoCall
  <1>1. Yields(ok(Encode(cs)), "none", cs)
    BY DEF Yields, ok
  <1>2. Change(c, ok(Encode(cs))) /\ it = NoIter /\ it' = NoIter /\ call = NoCall /\ GoodStrings(str)
    BY DEF Modify, Idle, Inv
  <1>3. "none" = "none"
    OBVIOUS
  <1>4. CharsOf(str') = [CharsOf(str) EXCEPT !.s = cs] /\ call' = [c EXCEPT !.ret = <<"done">>]
    BY <1>1, <1>2, <1>3, ChangeYields
  <1> QED  BY <1>2, <1>4, NoIterator

\* resize()
LEMMA ResizeStep ==
  ASSUME Inv, Resize
  PROVE  Characters!Next
  <1> DEFINE cs == CharsOf(str).s
  <1>1. cs \in Texts /\ Len(Encode(cs)) < npos /\ Len(cs) \in Nat /\ str.s = Encode(cs) /\ Len(cs) < npos
    BY TextOfS
  <1>2. PICK n \in 0 .. MaxChars, uc \in Chars :
          Modify([op |-> "resize", n |-> n, uc |-> uc, ret |-> <<>>], resize(n, uc))
    BY DEF Resize
  <1>3. Idle /\ n \in Nat /\ uc \in Unicode /\ npos \in Nat
    BY UstringAssumption DEF Resize, npos
  <1> DEFINE new == [j \in 1 .. n |-> IF j <= Len(cs) THEN cs[j] ELSE uc]
             c == [op |-> "resize", n |-> n, uc |-> uc, ret |-> <<>>]
  <1>4. new \in Texts /\ resize(n, uc) = ok(Encode(new))
    <2> HIDE DEF cs, new
    <2>1. size(str.s) = Len(cs)
      BY <1>1, SizeIs
    <2>2. cs \in Seq(Unicode) /\ cs \in [1 .. Len(cs) -> Unicode]
      BY <1>1 DEF Texts
    <2>3. new \in Seq(Unicode) /\ Len(new) = n
      <3>1. \A j \in 1 .. n : (IF j <= Len(cs) THEN cs[j] ELSE uc) \in Unicode
        BY <1>1, <1>3, <2>2
      <3> QED  BY <1>3, <3>1 DEF new
    <2>4. \A j \in 1 .. n : new[j] = IF j <= Len(cs) THEN cs[j] ELSE uc
      BY DEF new
    <2>5. CASE n < Len(cs)
      <3>1. resize(n, uc) = erase(n, npos)
        BY <2>1, <2>5 DEF resize
      <3> DEFINE bounds == Utf8SubstrBounds(Encode(cs), n, npos)
                 p == bounds.i
                 m == bounds.n
      <3>2. erase(n, npos) = std_replace(Encode(cs), p, m, ok(<<>>))
        BY <1>1 DEF erase
      <3>3. /\ n > Len(cs) => p = npos
            /\ n <= Len(cs) =>
                 /\ p = Offset(cs, n)
                 /\ m = IF n + npos <= Len(cs) THEN Offset(cs, n + npos) - Offset(cs, n) ELSE npos
        BY <1>1, <1>3, BoundsAre
      <3> HIDE DEF p, m, bounds
      <3>4. Yields(ok(<<>>), "none", <<>>)
        <4>1. <<>> \in Texts /\ Encode(<<>>) = <<>>
          BY EncodeEmpty DEF Texts
        <4> QED  BY <4>1 DEF Yields, ok
      <3> DEFINE result == std_replace(Encode(cs), p, m, ok(<<>>))
                 cut == Characters!Splice(cs, n, npos, <<>>)
      <3>5. Yields(result, IF n > Len(cs) THEN "out_of_range" ELSE "none", cut)
        BY <1>1, <1>3, <3>3, <3>4, PlaceYields
      <3>6. cut = new
        <4>1. n \in 0 .. Len(cs) /\ ~(n + npos <= Len(cs))
          BY <1>1, <1>3, <2>5
        <4>2. cut = SubSeq(cs, 1, n) \o <<>> \o SubSeq(cs, Len(cs) + 1, Len(cs))
          BY <1>1, <1>3, <4>1, SpliceIs
        <4>3. SubSeq(cs, Len(cs) + 1, Len(cs)) = <<>> /\ SubSeq(cs, 1, n) \in Seq(Unicode)
          BY <1>1, <2>2, <4>1
        <4>4. SubSeq(cs, 1, n) \o <<>> = SubSeq(cs, 1, n)
          BY <4>3, ConcatEmptySeq
        <4>5. cut = SubSeq(cs, 1, n)
          BY <4>2, <4>3, <4>4, Zenon
        <4>6. Len(SubSeq(cs, 1, n)) = n /\ \A j \in 1 .. n : SubSeq(cs, 1, n)[j] = cs[j]
          BY <1>1, <2>2, <4>1
        <4>7. \A j \in 1 .. n : SubSeq(cs, 1, n)[j] = new[j]
          BY <1>1, <2>4, <2>5, <4>6
        <4>8. SubSeq(cs, 1, n) = new
          BY <2>3, <4>3, <4>6, <4>7, SeqEqual
        <4> QED  BY <4>5, <4>8
      <3>7. ~(n > Len(cs)) /\ result \in {ok(result.b)}
        <4>1. ~(n > Len(cs))
          BY <1>1, <1>3, <2>5
        <4>2. result.err = "none"
          <5> HIDE DEF result, cut
          <5> QED  BY <3>5, <4>1 DEF Yields
        <4>3. \E x : result = ok(x) \/ result = throw("out_of_range")
          BY DEF std_replace, ok
        <4> HIDE DEF result
        <4> QED  BY <4>1, <4>2, <4>3 DEF ok, throw
      <3> HIDE DEF result, cut
      <3>8. new \in Texts /\ result.b = Encode(new)
        BY <3>5, <3>6, <3>7 DEF Yields
      <3> QED  BY <3>1, <3>2, <3>7, <3>8 DEF result
    <2>6. CASE n > Len(cs)
      <3> DEFINE k == n - Len(cs)
                 row == [j \in 1 .. k |-> uc]
      <3>1. k \in Nat
        BY <1>1, <1>3, <2>6
      <3>2. resize(n, uc) = ok(str.s \o fill(k, uc))
        BY <1>1, <1>3, <2>1, <2>6 DEF resize
      <3>3. fill(k, uc) = Encode(row) /\ row \in Texts
        <4> HIDE DEF k
        <4> QED  BY <1>3, <3>1, FillIs
      <3>4. Len(row) = k /\ \A j \in 1 .. k : row[j] = uc
        BY <3>1
      <3> HIDE DEF row
      <3>5. Encode(cs \o row) = Encode(cs) \o Encode(row) /\ cs \o row \in Texts
        BY <1>1, <3>3, EncodeConcat DEF Texts
      <3>6. cs \o row = new
        <4>1. Len(cs \o row) = n /\ cs \o row \in Seq(Unicode)
          BY <1>1, <1>3, <3>1, <3>3, <3>4 DEF Texts
        <4>2. \A j \in 1 .. n : (cs \o row)[j] = new[j]
          <5> SUFFICES ASSUME NEW j \in 1 .. n PROVE (cs \o row)[j] = new[j]
            OBVIOUS
          <5>1. CASE j <= Len(cs)
            BY <1>1, <2>2, <2>4, <3>3, <5>1 DEF Texts
          <5>2. CASE ~(j <= Len(cs))
            <6>1. j - Len(cs) \in 1 .. k
              BY <1>1, <1>3, <5>2
            <6>2. (cs \o row)[j] = row[j - Len(cs)]
              BY <1>1, <1>3, <2>2, <3>3, <3>4, <3>1, <5>2, <6>1 DEF Texts
            <6> QED  BY <1>1, <2>4, <3>4, <5>2, <6>1, <6>2
          <5> QED  BY <5>1, <5>2
        <4> QED  BY <2>3, <4>1, <4>2, SeqEqual
      <3> QED  BY <1>1, <3>2, <3>3, <3>5, <3>6, Zenon
    <2>7. CASE n = Len(cs)
      <3>1. resize(n, uc) = ok(str.s)
        BY <1>1, <2>1, <2>7 DEF resize
      <3>2. \A j \in 1 .. n : new[j] = cs[j]
        BY <1>1, <2>4, <2>7
      <3>3. new = cs
        BY <2>2, <2>3, <2>7, <3>2, SeqEqual
      <3> QED  BY <1>1, <3>1, <3>3
    <2> QED  BY <1>1, <1>3, <2>5, <2>6, <2>7
  <1>5. Modify(c, ok(Encode(new)))
    <2>1. Modify(c, resize(n, uc))
      BY <1>2
    <2> HIDE DEF c, new
    <2>2. resize(n, uc) = ok(Encode(new))
      BY <1>4
    <2> QED  BY <2>1, <2>2 DEF Modify, Change
  <1> HIDE DEF cs, new, c
  <1>6. /\ CharsOf(str') = [CharsOf(str) EXCEPT !.s = new] /\ call' = [c EXCEPT !.ret = <<"done">>]
        /\ IndexOf(str'.s, it') = IndexOf(str.s, it) /\ call = NoCall
    BY <1>3, <1>4, <1>5, DoneStep
  <1>7. call'.op = "resize" /\ call'.n = n /\ call'.uc = uc /\ call'.ret = <<"done">>
    BY <1>6 DEF c
  <1>8. [CharsOf(str) EXCEPT !.s = [j \in 1 .. call'.n |-> IF j <= Len(@) THEN @[j] ELSE call'.uc]]
          = [CharsOf(str) EXCEPT !.s = new]
    <2>1. [j \in 1 .. call'.n |-> IF j <= Len(CharsOf(str).s) THEN CharsOf(str).s[j] ELSE call'.uc] = new
      BY <1>7, Zenon DEF cs, new
    <2> QED  BY <2>1, Zenon
  <1>9. Characters!Resize(call')
    BY <1>6, <1>7, <1>8 DEF Characters!Resize
  <1> QED  BY <1>6, <1>7, <1>9, Called

\* operator+() of strings, C strings and characters.
LEMMA PlusStep ==
  ASSUME Inv, OperatorPlus
  PROVE  Characters!Next
  <1>1. PICK lhs \in Whole \cup Cstr \cup One, rhs \in Whole \cup Cstr \cup One :
          Modify([op |-> "plus", src |-> lhs, src2 |-> rhs, ret |-> <<>>],
                 ok(ustring(lhs).b \o ustring(rhs).b))
    BY DEF OperatorPlus
  <1>2. Idle /\ GoodStrings(str)
    BY DEF OperatorPlus, Inv
  <1>3. ASSUME NEW src \in Whole \cup Cstr \cup One
        PROVE  Characters!Text(src) \in Texts /\ ustring(src).b = Encode(Characters!Text(src))
    <2>1. Characters!Fault(src) = "none"
      BY DEF Characters!Fault, Whole, Cstr, One
    <2>2. Yields(ustring(src), Characters!Fault(src), Characters!Text(src))
      BY <1>2, SourceYields DEF Sources
    <2> QED  BY <2>1, <2>2 DEF Yields
  <1> DEFINE x == Characters!Text(lhs)
             y == Characters!Text(rhs)
             c == [op |-> "plus", src |-> lhs, src2 |-> rhs, ret |-> <<>>]
             new == x \o y
  <1>4. x \in Texts /\ y \in Texts /\ ustring(lhs).b = Encode(x) /\ ustring(rhs).b = Encode(y)
    BY <1>3
  <1>5. Modify(c, ok(ustring(lhs).b \o ustring(rhs).b))
    BY <1>1
  <1> HIDE DEF x, y, c
  <1>6. new \in Texts /\ Encode(new) = Encode(x) \o Encode(y)
    BY <1>4, EncodeConcat DEF Texts
  <1>7. Modify(c, ok(Encode(new)))
    BY <1>4, <1>5, <1>6
  <1> HIDE DEF new
  <1>8. /\ CharsOf(str') = [CharsOf(str) EXCEPT !.s = new] /\ call' = [c EXCEPT !.ret = <<"done">>]
        /\ IndexOf(str'.s, it') = IndexOf(str.s, it) /\ call = NoCall
    BY <1>2, <1>6, <1>7, DoneStep
  <1>9. call'.op = "plus" /\ call'.src = lhs /\ call'.src2 = rhs /\ call'.ret = <<"done">>
    BY <1>8 DEF c
  <1>10. Characters!Plus(call')
    BY <1>8, <1>9 DEF Characters!Plus, x, y, new
  <1> QED  BY <1>8, <1>9, <1>10, Called

\* swap(), move and release()
LEMMA ExchangeStep ==
  ASSUME Inv, Exchange
  PROVE  Characters!Next
  <1>1. GoodStrings(str) /\ it = NoIter /\ it' = NoIter /\ call = NoCall
    BY DEF Inv, Exchange, Idle
  <1>2. IndexOf(str'.s, it') = IndexOf(str.s, it)
    BY <1>1, NoIterator
  <1>3. Decoded(<<>>) = <<>>
    <2>1. <<>> \in Texts /\ Encode(<<>>) = <<>>
      BY EncodeEmpty DEF Texts
    <2> QED  BY <2>1, DecodeEncode
  <1>4. CharsOf(str).s = Decoded(str.s) /\ CharsOf(str).t = Decoded(str.t)
    BY DEF CharsOf
  <1>5. CASE str' = [s |-> str.t, t |-> str.s] /\ call' = [op |-> "swap", ret |-> <<"done">>]
    <2>1. CharsOf(str') = [s |-> CharsOf(str).t, t |-> CharsOf(str).s]
      BY <1>4, <1>5 DEF CharsOf
    <2>2. call'.op = "swap" /\ call'.ret = <<"done">>
      BY <1>5
    <2>3. Characters!Exchange(call')
      BY <1>2, <2>1, <2>2 DEF Characters!Exchange
    <2> QED  BY <1>1, <2>2, <2>3, Called
  <1>6. CASE str' = [s |-> str.t, t |-> <<>>] /\ call' = [op |-> "move", ret |-> <<"done">>]
    <2>1. CharsOf(str') = [s |-> CharsOf(str).t, t |-> <<>>]
      BY <1>3, <1>4, <1>6 DEF CharsOf
    <2>2. call'.op = "move" /\ call'.ret = <<"done">>
      BY <1>6
    <2>3. Characters!Exchange(call')
      BY <1>2, <2>1, <2>2 DEF Characters!Exchange
    <2> QED  BY <1>1, <2>2, <2>3, Called
  <1>7. CASE str' = [str EXCEPT !.s = <<>>] /\ call' = [op |-> "release", ret |-> <<"done">>]
    <2>1. str'.s = <<>> /\ str'.t = str.t
      BY <1>1, <1>7 DEF GoodStrings
    <2>2. CharsOf(str') = [CharsOf(str) EXCEPT !.s = <<>>]
      BY <1>3, <2>1 DEF CharsOf
    <2>3. call'.op = "release" /\ call'.ret = <<"done">>
      BY <1>7
    <2>4. Characters!Exchange(call')
      BY <1>2, <2>2, <2>3 DEF Characters!Exchange
    <2> QED  BY <1>1, <2>3, <2>4, Called
  <1> QED  BY <1>5, <1>6, <1>7 DEF Exchange

\* A word or a formatted text is converted, or nothing changes.
LEMMA ExtractionStep ==
  ASSUME Inv, Idle, NEW text \in Texts, NEW wide, Modify(Extraction(text, wide), Converted(text, wide))
  PROVE  Characters!Next
  <1> DEFINE c == Extraction(text, wide)
             fault == IF Convertible(text, wide) THEN "none" ELSE "ConvertError"
  <1>1. Change(c, Converted(text, wide)) /\ it = NoIter /\ it' = NoIter /\ call = NoCall /\ GoodStrings(str)
    BY DEF Modify, Idle, Inv
  <1>2. Yields(Converted(text, wide), fault, text)
    BY DEF Converted, Yields, ok, throw
  <1>3. /\ fault = "none" => CharsOf(str') = [CharsOf(str) EXCEPT !.s = text]
                             /\ call' = [c EXCEPT !.ret = <<"done">>]
        /\ fault # "none" => CharsOf(str') = CharsOf(str) /\ call' = [c EXCEPT !.ret = <<fault>>]
    <2> HIDE DEF c, fault
    <2> QED  BY <1>1, <1>2, ChangeYields
  <1>4. call'.op = "extract" /\ call'.src.s = text /\ call'.wide = wide
        /\ call'.ret = IF fault = "none" THEN <<"done">> ELSE <<fault>>
    <2>1. \E r : call' = [c EXCEPT !.ret = r] /\ r = IF fault = "none" THEN <<"done">> ELSE <<fault>>
      <3> HIDE DEF c, fault
      <3> QED  BY <1>3
    <2> HIDE DEF fault
    <2> QED  BY <2>1 DEF Extraction
  <1>5. Characters!Convertible(call', text) <=> Convertible(text, wide)
    <2>1. Characters!Range(text) = Range(text)
      BY DEF Characters!Range, Range
    <2> QED  BY <1>4, <2>1 DEF Characters!Convertible, Convertible
  <1>6. IndexOf(str'.s, it') = IndexOf(str.s, it)
    BY <1>1, NoIterator
  <1> HIDE DEF c
  <1>7. CASE Convertible(text, wide)
    <2>1. CharsOf(str') = [CharsOf(str) EXCEPT !.s = text] /\ call'.ret = <<"done">>
      BY <1>3, <1>4, <1>7
    <2>2. Characters!Extract(call')
      BY <1>4, <1>5, <1>6, <1>7, <2>1 DEF Characters!Extract
    <2> QED  BY <1>1, <1>4, <2>2, Called
  <1>8. CASE ~Convertible(text, wide)
    <2>1. CharsOf(str') = CharsOf(str) /\ call'.ret = <<"ConvertError">>
      BY <1>3, <1>4, <1>8
    <2>2. Characters!Extract(call')
      BY <1>4, <1>5, <1>6, <1>8, <2>1 DEF Characters!Extract
    <2> QED  BY <1>1, <1>4, <2>2, Called
  <1> QED  BY <1>7, <1>8

\* Every call that changes s by position, and those that need no position.
LEMMA ModificationsStep ==
  ASSUME Inv,
         \/ Construct \/ OperatorAssign \/ Assign \/ OperatorAppend \/ AppendText
         \/ Insert \/ Replace \/ Erase \/ Clear \/ Resize \/ OperatorPlus \/ Exchange
         \/ Extract \/ ExtractWide \/ Format
  PROVE  Characters!Next
  <1>1. CASE Construct \/ OperatorAssign \/ Assign
    <2>1. Idle /\ \E src \in Sources \cup One : Modify(Edit("assign", 0, npos, src), ustring(src))
      BY <1>1 DEF Construct, OperatorAssign, Assign, Sources
    <2> QED  BY <2>1, AssignStep
  <1>2. CASE OperatorAppend \/ AppendText
    <2>1. Idle /\ \E src \in Sources \cup One : Modify(Edit("append", 0, 0, src), append(src))
      BY <1>2 DEF OperatorAppend, AppendText, Sources
    <2> QED  BY <2>1, AppendStep
  <1>3. CASE Insert
    <2>1. PICK i \in Positions, src \in Sources : Modify(Edit("insert", i, 0, src), insert(i, src))
      BY <1>3 DEF Insert
    <2>2. Idle /\ i \in Nat
      BY <1>3, UstringAssumption DEF Insert
    <2> QED  BY <2>1, <2>2, InsertStep
  <1>4. CASE Replace
    <2>1. PICK i \in Positions, n \in Counts, src \in Sources :
            Modify(Edit("replace", i, n, src), replace(i, n, src))
      BY <1>4 DEF Replace
    <2>2. Idle /\ i \in Nat /\ n \in Nat /\ GoodStrings(str)
      BY <1>4, UstringAssumption DEF Replace, Inv
    <2>3. Yields(ustring(src), Characters!Fault(src), Characters!Text(src))
      BY <2>2, SourceYields
    <2>4. LET bounds == Utf8SubstrBounds(str.s, i, n)
          IN  Modify(Edit("replace", i, n, src), std_replace(str.s, bounds.i, bounds.n, ustring(src)))
      BY <2>1 DEF replace
    <2>5. "replace" \in {"replace", "erase"}
      OBVIOUS
    <2> QED  BY <2>2, <2>3, <2>4, <2>5, BoundsStep
  <1>5. CASE Erase
    <2>1. PICK i \in Positions, n \in Counts : Modify(Edit("erase", i, n, NoText), erase(i, n))
      BY <1>5 DEF Erase
    <2>2. Idle /\ i \in Nat /\ n \in Nat
      BY <1>5, UstringAssumption DEF Erase
    <2> QED  BY <2>1, <2>2, EraseStep
  <1>6. CASE Extract \/ ExtractWide \/ Format
    <2>1. \E text \in Texts, wide \in BOOLEAN : Modify(Extraction(text, wide), Converted(text, wide))
      <3>1. CASE Extract \/ ExtractWide
        BY <1>6, <3>1, UstringAssumption DEF Extract, ExtractWide, Texts
      <3>2. CASE Format
        <4>1. PICK first \in Words, second \in Words :
                Modify(Extraction(first \o second, TRUE), Converted(first \o second, TRUE))
          BY <3>2 DEF Format
        <4>2. first \o second \in Texts
          BY UstringAssumption DEF Texts
        <4> QED  BY <4>1, <4>2
      <3> QED  BY <1>6, <3>1, <3>2
    <2>2. Idle
      BY <1>6 DEF Extract, ExtractWide, Format
    <2> QED  BY <2>1, <2>2, ExtractionStep
  <1> QED  BY <1>1, <1>2, <1>3, <1>4, <1>5, <1>6, ClearStep, ResizeStep, PlusStep, ExchangeStep

-----------------------------------------------------------------------------
(* One character of a string is read.                                        *)

(* The numbers that get_unichar_from_std_iterator() goes through. *)
TwoBytes(c, r1) ==
  c \in Nat /\ c < 2048 /\ r1 = (192 + c \div 64) * 64 + ((128 + (c % 64)) - 128)
ThreeBytes(c, r1, r2) ==
  /\ c \in Nat /\ c >= 2048 /\ c < 65536
  /\ r1 = (224 + c \div 4096) * 64 + ((128 + ((c \div 64) % 64)) - 128)
  /\ r2 = r1 * 64 + ((128 + (c % 64)) - 128)
FourBytes(c, r1, r2, r3) ==
  /\ c \in Nat /\ c >= 65536 /\ c < 1114112
  /\ r1 = (240 + (c \div 4096) \div 64) * 64 + ((128 + ((c \div 4096) % 64)) - 128)
  /\ r2 = r1 * 64 + ((128 + ((c \div 64) % 64)) - 128)
  /\ r3 = r2 * 64 + ((128 + (c % 64)) - 128)

\* The bits that say where it stops, and the character that is left.
LEMMA BitsTwo ==
  ASSUME NEW c, NEW r1, TwoBytes(c, r1)
  PROVE  (r1 \div 2048) % 2 = 0 /\ r1 % 2048 = c
  <1> USE DEF TwoBytes
  <1>1. (192 + c \div 64) * 64 + ((128 + (c % 64)) - 128) = 12288 + c
    BY SMT
  <1>2. ((12288 + c) \div 2048) % 2 = 0 /\ (12288 + c) % 2048 = c
    BY SMT
  <1> QED  BY <1>1, <1>2

\* The same for three bytes.
LEMMA BitsThree ==
  ASSUME NEW c, NEW r1, NEW r2, ThreeBytes(c, r1, r2)
  PROVE  (r1 \div 2048) % 2 = 1 /\ (r2 \div 65536) % 2 = 0 /\ r2 % 65536 = c
  <1> USE DEF ThreeBytes
  <1> DEFINE d == c \div 64
  <1>1. d \in Nat /\ d < 1024 /\ c = d * 64 + (c % 64) /\ c \div 4096 = d \div 64 /\ c % 64 \in Nat
    BY SMT
  <1> HIDE DEF d
  <1>2. (224 + d \div 64) * 64 + ((128 + (d % 64)) - 128) = 14336 + d
    BY <1>1, SMT
  <1>3. ((14336 + d) \div 2048) % 2 = 1
    BY <1>1, SMT
  <1>4. (14336 + d) * 64 + ((128 + (c % 64)) - 128) = 917504 + c
    BY <1>1, SMT
  <1>5. ((917504 + c) \div 65536) % 2 = 0 /\ (917504 + c) % 65536 = c
    BY SMT
  <1> QED  BY <1>1, <1>2, <1>3, <1>4, <1>5 DEF d

\* The same for four bytes.
LEMMA BitsFour ==
  ASSUME NEW c, NEW r1, NEW r2, NEW r3, FourBytes(c, r1, r2, r3)
  PROVE  /\ (r1 \div 2048) % 2 = 1 /\ (r2 \div 65536) % 2 = 1 /\ (r3 \div 2097152) % 2 = 0
         /\ r3 % 2097152 = c
  <1> USE DEF FourBytes
  <1> DEFINE d == c \div 64
             e == c \div 4096
  <1>1. /\ d \in Nat /\ d < 17408 /\ c = d * 64 + (c % 64) /\ c % 64 \in Nat
        /\ e \in Nat /\ e < 272 /\ d = e * 64 + (d % 64) /\ d % 64 \in Nat
    BY SMT
  <1> HIDE DEF d, e
  <1>2. (240 + e \div 64) * 64 + ((128 + (e % 64)) - 128) = 15360 + e
    BY <1>1, SMT
  <1>3. ((15360 + e) \div 2048) % 2 = 1
    BY <1>1, SMT
  <1>4. (15360 + e) * 64 + ((128 + (d % 64)) - 128) = 983040 + d
    BY <1>1, SMT
  <1>5. ((983040 + d) \div 65536) % 2 = 1
    BY <1>1, SMT
  <1>6. (983040 + d) * 64 + ((128 + (c % 64)) - 128) = 62914560 + c
    BY <1>1, SMT
  <1>7. ((62914560 + c) \div 2097152) % 2 = 0 /\ (62914560 + c) % 2097152 = c
    BY SMT
  <1> QED  BY <1>2, <1>3, <1>4, <1>5, <1>6, <1>7 DEF d, e

(* The recursion of get_unichar_from_std_iterator(). *)
Results(b, pos) ==
  CHOOSE f : f = [k \in 0 .. 3 |-> IF k = 0 THEN b[pos + 1] ELSE f[k - 1] * 64 + (b[pos + k + 1] - 128)]

\* The first four values of the loop.
LEMMA FourResults ==
  ASSUME NEW b, NEW pos
  PROVE  /\ Results(b, pos)[0] = b[pos + 1]
         /\ Results(b, pos)[1] = Results(b, pos)[0] * 64 + (b[pos + 1 + 1] - 128)
         /\ Results(b, pos)[2] = Results(b, pos)[1] * 64 + (b[pos + 2 + 1] - 128)
         /\ Results(b, pos)[3] = Results(b, pos)[2] * 64 + (b[pos + 3 + 1] - 128)
  <1> DEFINE Full(f) == f = [k \in 0 .. 3 |-> IF k = 0 THEN b[pos + 1] ELSE f[k - 1] * 64 + (b[pos + k + 1] - 128)]
             result == CHOOSE f : Full(f)
             r0 == b[pos + 1]
             r1 == r0 * 64 + (b[pos + 1 + 1] - 128)
             r2 == r1 * 64 + (b[pos + 2 + 1] - 128)
             r3 == r2 * 64 + (b[pos + 3 + 1] - 128)
             h == [k \in 0 .. 3 |-> IF k = 0 THEN r0 ELSE IF k = 1 THEN r1 ELSE IF k = 2 THEN r2 ELSE r3]
  <1>1. h[0] = r0 /\ h[1] = r1 /\ h[2] = r2 /\ h[3] = r3
    <2> HIDE DEF r0, r1, r2, r3
    <2> QED  OBVIOUS
  <1>2. h = [k \in 0 .. 3 |-> h[k]]
    <2> HIDE DEF r0, r1, r2, r3
    <2> QED  OBVIOUS
  <1> HIDE DEF h
  <1>3. ASSUME NEW k \in 0 .. 3
        PROVE  h[k] = IF k = 0 THEN b[pos + 1] ELSE h[k - 1] * 64 + (b[pos + k + 1] - 128)
    <2>1. CASE k = 0
      BY <1>1, <2>1
    <2>2. CASE k = 1
      <3>1. h[k - 1] = r0 /\ h[k] = r0 * 64 + (b[pos + k + 1] - 128) /\ k # 0
        <4>1. k - 1 = 0 /\ k # 0
          BY <2>2
        <4> QED  BY <1>1, <2>2, <4>1
      <3> QED  BY <3>1
    <2>3. CASE k = 2
      <3>1. h[k - 1] = r1 /\ h[k] = r1 * 64 + (b[pos + k + 1] - 128) /\ k # 0
        <4>1. k - 1 = 1 /\ k # 0
          BY <2>3
        <4> HIDE DEF r1
        <4> QED  BY <1>1, <2>3, <4>1
      <3> QED  BY <3>1
    <2>4. CASE k = 3
      <3>1. h[k - 1] = r2 /\ h[k] = r2 * 64 + (b[pos + k + 1] - 128) /\ k # 0
        <4>1. k - 1 = 2 /\ k # 0
          BY <2>4
        <4> HIDE DEF r2
        <4> QED  BY <1>1, <2>4, <4>1
      <3> QED  BY <3>1
    <2> QED  BY <2>1, <2>2, <2>3, <2>4
  <1>4. Full(h)
    BY <1>2, <1>3
  <1>5. Full(result)
    <2> HIDE DEF Full
    <2> QED  BY <1>4
  <1> HIDE DEF result
  <1>6. \A k \in 0 .. 3 : result[k] = IF k = 0 THEN b[pos + 1] ELSE result[k - 1] * 64 + (b[pos + k + 1] - 128)
    BY <1>5
  <1>7. /\ result[0] = b[pos + 1]
        /\ result[1] = result[0] * 64 + (b[pos + 1 + 1] - 128)
        /\ result[2] = result[1] * 64 + (b[pos + 2 + 1] - 128)
        /\ result[3] = result[2] * 64 + (b[pos + 3 + 1] - 128)
    <2>1. 1 - 1 = 0 /\ 2 - 1 = 1 /\ 3 - 1 = 2 /\ 0 \in 0 .. 3 /\ 1 \in 0 .. 3 /\ 2 \in 0 .. 3 /\ 3 \in 0 .. 3
          /\ 1 # 0 /\ 2 # 0 /\ 3 # 0
      OBVIOUS
    <2>2. result[0] = b[pos + 1]
      BY <1>6, <2>1
    <2>3. result[1] = result[1 - 1] * 64 + (b[pos + 1 + 1] - 128)
      BY <1>6, <2>1, Zenon
    <2>4. result[2] = result[2 - 1] * 64 + (b[pos + 2 + 1] - 128)
      BY <1>6, <2>1, Zenon
    <2>5. result[3] = result[3 - 1] * 64 + (b[pos + 3 + 1] - 128)
      BY <1>6, <2>1, Zenon
    <2> QED  BY <2>1, <2>2, <2>3, <2>4, <2>5
  <1>8. result = Results(b, pos)
    BY DEF result, Results
  <1> QED  BY <1>7, <1>8

\* The bytes of a character, whatever stands around them.
LEMMA UnicharIs ==
  ASSUME NEW b, NEW pos \in Nat, NEW c \in Unicode,
         \A j \in 1 .. Len(g_unichar_to_utf8(c)) : b[pos + j] = g_unichar_to_utf8(c)[j]
  PROVE  get_unichar_from_std_iterator(b, pos) = c
  <1> DEFINE result == Results(b, pos)
             mask(k) == 64 * 32 ^ k
             bit(k) == (result[k] \div mask(k)) % 2
             last == CHOOSE k \in 1 .. 3 : bit(k) = 0 /\ \A j \in 1 .. k - 1 : bit(j) = 1
  <1>1. get_unichar_from_std_iterator(b, pos) =
          IF b[pos + 1] < 128 THEN b[pos + 1] ELSE result[last] % mask(last)
    BY DEF get_unichar_from_std_iterator, Results
  <1>2. /\ result[0] = b[pos + 1]
        /\ result[1] = result[0] * 64 + (b[pos + 1 + 1] - 128)
        /\ result[2] = result[1] * 64 + (b[pos + 2 + 1] - 128)
        /\ result[3] = result[2] * 64 + (b[pos + 3 + 1] - 128)
    BY FourResults
  <1> HIDE DEF result
  <1>3. mask(1) = 2048 /\ mask(2) = 65536 /\ mask(3) = 2097152
    <2>1. 32 ^ 1 = 32 /\ 32 ^ 2 = 1024 /\ 32 ^ 3 = 32768
      OBVIOUS
    <2> QED  BY <2>1
  <1> HIDE DEF mask
  <1>4. ASSUME NEW n \in 1 .. 3, bit(n) = 0, \A j \in 1 .. n - 1 : bit(j) = 1
        PROVE  last = n
    <2> HIDE DEF bit
    <2>1. \A k \in 1 .. 3 : (bit(k) = 0 /\ \A j \in 1 .. k - 1 : bit(j) = 1) => k = n
      <3> SUFFICES ASSUME NEW k \in 1 .. 3, bit(k) = 0, \A j \in 1 .. k - 1 : bit(j) = 1, k # n PROVE FALSE
        OBVIOUS
      <3>1. CASE k < n
        <4>1. k \in 1 .. n - 1
          BY <3>1
        <4> QED  BY <1>4, <4>1
      <3>2. CASE n < k
        <4>1. n \in 1 .. k - 1
          BY <3>2
        <4> QED  BY <1>4, <4>1
      <3> QED  BY <3>1, <3>2
    <2> QED  BY <1>4, <2>1
  <1>5. pos + 1 + 1 = pos + 2 /\ pos + 2 + 1 = pos + 3 /\ pos + 3 + 1 = pos + 4
    OBVIOUS
  <1>6. c \in Nat /\ c < 1114112
    BY SMT DEF Unicode
  <1> HIDE DEF last, bit
  <1>7. CASE c < 128
    <2>1. g_unichar_to_utf8(c) = <<c>>
      BY <1>7 DEF g_unichar_to_utf8
    <2>2. b[pos + 1] = c
      BY <2>1
    <2> QED  BY <1>1, <1>7, <2>2
  <1>8. CASE c >= 128 /\ c < 2048
    <2>1. g_unichar_to_utf8(c) = <<192 + c \div 64, 128 + (c % 64)>>
      BY <1>6, <1>8 DEF g_unichar_to_utf8
    <2>2. b[pos + 1] = 192 + c \div 64 /\ b[pos + 2] = 128 + (c % 64)
      BY <2>1
    <2>3. result[1] = (192 + c \div 64) * 64 + ((128 + (c % 64)) - 128)
      BY <1>2, <1>5, <2>2
    <2>4. (result[1] \div 2048) % 2 = 0 /\ result[1] % 2048 = c
      <3>1. TwoBytes(c, result[1])
        BY <1>6, <1>8, <2>3 DEF TwoBytes
      <3> QED  BY <3>1, BitsTwo, SMT
    <2>5. bit(1) = 0
      BY <1>3, <2>4 DEF bit
    <2>6. last = 1
      <3>1. \A j \in 1 .. 1 - 1 : bit(j) = 1
        OBVIOUS
      <3> QED  BY <1>4, <2>5, <3>1
    <2>7. ~(b[pos + 1] < 128)
      BY <1>6, <2>2, SMT
    <2> QED  BY <1>1, <1>3, <2>4, <2>6, <2>7
  <1>9. CASE c >= 2048 /\ c < 65536
    <2>1. g_unichar_to_utf8(c) = <<224 + c \div 4096, 128 + ((c \div 64) % 64), 128 + (c % 64)>>
      BY <1>6, <1>9 DEF g_unichar_to_utf8
    <2>2. b[pos + 1] = 224 + c \div 4096 /\ b[pos + 2] = 128 + ((c \div 64) % 64) /\ b[pos + 3] = 128 + (c % 64)
      BY <2>1
    <2>3. /\ result[1] = (224 + c \div 4096) * 64 + ((128 + ((c \div 64) % 64)) - 128)
          /\ result[2] = result[1] * 64 + ((128 + (c % 64)) - 128)
      BY <1>2, <1>5, <2>2
    <2>4. (result[1] \div 2048) % 2 = 1 /\ (result[2] \div 65536) % 2 = 0 /\ result[2] % 65536 = c
      <3>1. ThreeBytes(c, result[1], result[2])
        BY <1>6, <1>9, <2>3, SMT DEF ThreeBytes
      <3> QED  BY <3>1, BitsThree, SMT
    <2>5. bit(1) = 1 /\ bit(2) = 0
      BY <1>3, <2>4 DEF bit
    <2>6. last = 2
      <3>1. \A j \in 1 .. 2 - 1 : bit(j) = 1
        <4>1. \A j \in 1 .. 2 - 1 : j = 1
          OBVIOUS
        <4> QED  BY <2>5, <4>1
      <3> QED  BY <1>4, <2>5, <3>1
    <2>7. ~(b[pos + 1] < 128)
      BY <1>6, <2>2, SMT
    <2> QED  BY <1>1, <1>3, <2>4, <2>6, <2>7
  <1>10. CASE c >= 65536
    <2>1. g_unichar_to_utf8(c) = <<240 + (c \div 4096) \div 64, 128 + ((c \div 4096) % 64),
                                   128 + ((c \div 64) % 64), 128 + (c % 64)>>
      BY <1>6, <1>10 DEF g_unichar_to_utf8
    <2>2. /\ b[pos + 1] = 240 + (c \div 4096) \div 64 /\ b[pos + 2] = 128 + ((c \div 4096) % 64)
          /\ b[pos + 3] = 128 + ((c \div 64) % 64) /\ b[pos + 4] = 128 + (c % 64)
      BY <2>1
    <2>3. /\ result[1] = (240 + (c \div 4096) \div 64) * 64 + ((128 + ((c \div 4096) % 64)) - 128)
          /\ result[2] = result[1] * 64 + ((128 + ((c \div 64) % 64)) - 128)
          /\ result[3] = result[2] * 64 + ((128 + (c % 64)) - 128)
      BY <1>2, <1>5, <2>2
    <2>4. /\ (result[1] \div 2048) % 2 = 1 /\ (result[2] \div 65536) % 2 = 1
          /\ (result[3] \div 2097152) % 2 = 0 /\ result[3] % 2097152 = c
      <3>1. FourBytes(c, result[1], result[2], result[3])
        BY <1>6, <1>10, <2>3, SMT DEF FourBytes
      <3> QED  BY <3>1, BitsFour, SMT
    <2>5. bit(1) = 1 /\ bit(2) = 1 /\ bit(3) = 0
      BY <1>3, <2>4 DEF bit
    <2>6. last = 3
      <3>1. \A j \in 1 .. 3 - 1 : bit(j) = 1
        <4>1. \A j \in 1 .. 3 - 1 : j = 1 \/ j = 2
          OBVIOUS
        <4> QED  BY <2>5, <4>1
      <3> QED  BY <1>4, <2>5, <3>1
    <2>7. ~(b[pos + 1] < 128)
      BY <1>6, <2>2, SMT
    <2> QED  BY <1>1, <1>3, <2>4, <2>6, <2>7
  <1> QED  BY <1>6, <1>7, <1>8, <1>9, <1>10

\* What is left of a continuation byte.
LEMMA LowBits ==
  ASSUME NEW n \in Nat
  PROVE  /\ (128 + (n % 64)) % 64 = n % 64 /\ (n \div 64) * 64 + (n % 64) = n
         /\ n % 64 \in 0 .. 63 /\ n % 64 \in Nat /\ n \div 64 \in Nat
  BY SMT

\* By the number of bytes.
LEMMA CharByLength ==
  ASSUME NEW b, Len(b) \in Nat, NEW p \in 0 .. Len(b) - 1
  PROVE  /\ g_utf8_skip(b[p + 1]) = 1 => g_utf8_get_char(b, p) = b[p + 1]
         /\ g_utf8_skip(b[p + 1]) = 2 =>
              g_utf8_get_char(b, p) = (b[p + 1] % 32) * 64 + (b[p + 1 + 1] % 64)
         /\ g_utf8_skip(b[p + 1]) = 3 =>
              g_utf8_get_char(b, p) = (b[p + 1] % 16) * 4096 + (b[p + 1 + 1] % 64) * 64 + (b[p + 2 + 1] % 64)
         /\ g_utf8_skip(b[p + 1]) = 4 =>
              g_utf8_get_char(b, p) = (b[p + 1] % 8) * 262144 + (b[p + 1 + 1] % 64) * 4096
                                        + (b[p + 2 + 1] % 64) * 64 + (b[p + 3 + 1] % 64)
  <1>1. ~(p >= Len(b))
    OBVIOUS
  <1> DEFINE skip == g_utf8_skip(b[p + 1])
  <1>2. CASE skip = 1
    BY <1>1, <1>2, SMT DEF g_utf8_get_char
  <1>3. CASE skip = 2
    BY <1>1, <1>3, SMT DEF g_utf8_get_char
  <1>4. CASE skip = 3
    BY <1>1, <1>4, SMT DEF g_utf8_get_char
  <1>5. CASE skip = 4
    BY <1>1, <1>5, SMT DEF g_utf8_get_char
  <1> QED  BY <1>2, <1>3, <1>4, <1>5

\* The same by GLib's function.
LEMMA Utf8GetCharIs ==
  ASSUME NEW b, Len(b) \in Nat, NEW p \in 0 .. Len(b) - 1, NEW c \in Unicode,
         \A j \in 1 .. Len(g_unichar_to_utf8(c)) : b[p + j] = g_unichar_to_utf8(c)[j]
  PROVE  g_utf8_get_char(b, p) = c
  <1>1. c \in Nat /\ c < 1114112
    BY SMT DEF Unicode
  <1>2. p + 1 + 1 = p + 2 /\ p + 2 + 1 = p + 3 /\ p + 3 + 1 = p + 4
    OBVIOUS
  <1>3. CASE c < 128
    <2>1. g_unichar_to_utf8(c) = <<c>>
      BY <1>3 DEF g_unichar_to_utf8
    <2>2. b[p + 1] = c
      BY <2>1
    <2>3. g_utf8_skip(c) = 1
      BY <1>1, <1>3 DEF g_utf8_skip
    <2> QED  BY <2>2, <2>3, CharByLength
  <1>4. CASE c >= 128 /\ c < 2048
    <2> DEFINE d == 192 + c \div 64
               e == 128 + (c % 64)
    <2>1. g_unichar_to_utf8(c) = <<d, e>>
      BY <1>1, <1>4 DEF g_unichar_to_utf8
    <2>2. g_utf8_skip(d) = 2 /\ (d % 32) * 64 + (e % 64) = c
      BY <1>1, <1>4, SMT DEF g_utf8_skip
    <2> HIDE DEF d, e
    <2>3. b[p + 1] = d /\ b[p + 1 + 1] = e
      BY <1>2, <2>1
    <2> QED  BY <2>2, <2>3, CharByLength
  <1>5. CASE c >= 2048 /\ c < 65536
    <2> DEFINE d == 224 + c \div 4096
               e == 128 + ((c \div 64) % 64)
               f == 128 + (c % 64)
    <2>1. g_unichar_to_utf8(c) = <<d, e, f>>
      BY <1>1, <1>5 DEF g_unichar_to_utf8
    <2>2. g_utf8_skip(d) = 3 /\ (d % 16) * 4096 + (e % 64) * 64 + (f % 64) = c
      <3> DEFINE h == c \div 64
      <3>1. h \in Nat /\ h < 1024 /\ c \div 4096 = h \div 64
        BY <1>1, <1>5, SMT
      <3> HIDE DEF h
      <3>2. g_utf8_skip(224 + h \div 64) = 3 /\ (224 + h \div 64) % 16 = h \div 64
        BY <3>1, SMT DEF g_utf8_skip
      <3>3. /\ (128 + (h % 64)) % 64 = h % 64 /\ (h \div 64) * 64 + (h % 64) = h
            /\ h % 64 \in Nat /\ h \div 64 \in Nat
        BY <3>1, LowBits
      <3>4. (128 + (c % 64)) % 64 = c % 64 /\ h * 64 + (c % 64) = c /\ c % 64 \in Nat
        BY <1>1, LowBits DEF h
      <3>5. (h \div 64) * 4096 + (h % 64) * 64 + (c % 64) = c
        <4> DEFINE x == h \div 64
                   y == h % 64
                   z == c % 64
        <4>1. x * 64 + y = h /\ h * 64 + z = c /\ x \in Nat /\ y \in Nat /\ z \in Nat
          BY <3>3, <3>4, Zenon
        <4> HIDE DEF x, y, z
        <4>2. x * 4096 + y * 64 + z = c
          BY <1>1, <3>1, <4>1, SMT
        <4> QED  BY <4>2 DEF x, y, z
      <3>6. d = 224 + h \div 64 /\ e = 128 + (h % 64) /\ f = 128 + (c % 64)
        BY <3>1 DEF h
      <3> HIDE DEF d, e, f
      <3> QED  BY <3>2, <3>3, <3>4, <3>5, <3>6
    <2> HIDE DEF d, e, f
    <2>3. b[p + 1] = d /\ b[p + 1 + 1] = e /\ b[p + 2 + 1] = f
      BY <1>2, <2>1
    <2> QED  BY <2>2, <2>3, CharByLength
  <1>6. CASE c >= 65536
    <2> DEFINE d == 240 + (c \div 4096) \div 64
               e == 128 + ((c \div 4096) % 64)
               f == 128 + ((c \div 64) % 64)
               g == 128 + (c % 64)
    <2>1. g_unichar_to_utf8(c) = <<d, e, f, g>>
      BY <1>1, <1>6 DEF g_unichar_to_utf8
    <2>2. g_utf8_skip(d) = 4 /\ (d % 8) * 262144 + (e % 64) * 4096 + (f % 64) * 64 + (g % 64) = c
      <3> DEFINE h == c \div 64
                 i == c \div 4096
      <3>1. h \in Nat /\ i \in Nat /\ i < 272 /\ h \div 64 = i
        BY <1>1, <1>6, SMT
      <3> HIDE DEF i
      <3>2. g_utf8_skip(240 + i \div 64) = 4 /\ (240 + i \div 64) % 8 = i \div 64
        BY <3>1, SMTT(40) DEF g_utf8_skip
      <3>3. /\ (128 + (i % 64)) % 64 = i % 64 /\ (i \div 64) * 64 + (i % 64) = i
            /\ i % 64 \in Nat /\ i \div 64 \in Nat
        BY <3>1, LowBits
      <3>4. (128 + (c % 64)) % 64 = c % 64 /\ h * 64 + (c % 64) = c /\ c % 64 \in Nat
        BY <1>1, LowBits
      <3> HIDE DEF h
      <3>5. (128 + (h % 64)) % 64 = h % 64 /\ i * 64 + (h % 64) = h /\ h % 64 \in Nat
        BY <3>1, LowBits
      <3>6. (i \div 64) * 262144 + (i % 64) * 4096 + (h % 64) * 64 + (c % 64) = c
        <4> DEFINE w == i \div 64
                   x == i % 64
                   y == h % 64
                   z == c % 64
        <4>1. w * 64 + x = i /\ i * 64 + y = h /\ h * 64 + z = c /\ w \in Nat /\ x \in Nat /\ y \in Nat /\ z \in Nat
          BY <3>3, <3>4, <3>5, Zenon
        <4> HIDE DEF w, x, y, z
        <4>2. w * 262144 + x * 4096 + y * 64 + z = c
          BY <1>1, <3>1, <4>1, SMT
        <4> QED  BY <4>2 DEF w, x, y, z
      <3>7. d = 240 + i \div 64 /\ e = 128 + (i % 64) /\ f = 128 + (h % 64) /\ g = 128 + (c % 64)
        BY DEF h, i
      <3> HIDE DEF d, e, f, g
      <3> QED  BY <3>2, <3>3, <3>4, <3>5, <3>6, <3>7
    <2> HIDE DEF d, e, f, g
    <2>3. b[p + 1] = d /\ b[p + 1 + 1] = e /\ b[p + 2 + 1] = f /\ b[p + 3 + 1] = g
      BY <1>2, <2>1
    <2> QED  BY <2>2, <2>3, CharByLength, SMTT(40)
  <1> QED  BY <1>1, <1>3, <1>4, <1>5, <1>6

\* Both read the characters of a text at their offsets.
LEMMA CharRead ==
  ASSUME NEW cs \in Texts, NEW k \in 0 .. Len(cs) - 1
  PROVE  /\ get_unichar_from_std_iterator(Encode(cs), Offset(cs, k)) = cs[k + 1]
         /\ g_utf8_get_char(Encode(cs), Offset(cs, k)) = cs[k + 1]
  <1>1. /\ Len(Encode(cs)) \in Nat /\ Offset(cs, k) \in 0 .. Len(Encode(cs)) - 1
        /\ k + 1 \in 1 .. Len(cs) /\ (k + 1) - 1 = k
    BY EncodeBytes, OffsetStep DEF Texts
  <1>2. /\ cs[k + 1] \in Unicode
        /\ \A j \in 1 .. Len(g_unichar_to_utf8(cs[k + 1])) :
              Encode(cs)[Offset(cs, (k + 1) - 1) + j] = g_unichar_to_utf8(cs[k + 1])[j]
    BY <1>1, CharacterOf
  <1>3. \A j \in 1 .. Len(g_unichar_to_utf8(cs[k + 1])) :
           Encode(cs)[Offset(cs, k) + j] = g_unichar_to_utf8(cs[k + 1])[j]
    BY <1>1, <1>2
  <1>4. Offset(cs, k) \in Nat
    BY <1>1
  <1> DEFINE b == Encode(cs)
             p == Offset(cs, k)
             c == cs[k + 1]
  <1>5. /\ c \in Unicode /\ Len(b) \in Nat /\ p \in 0 .. Len(b) - 1 /\ p \in Nat
        /\ \A j \in 1 .. Len(g_unichar_to_utf8(c)) : b[p + j] = g_unichar_to_utf8(c)[j]
    BY <1>1, <1>2, <1>3, <1>4
  <1> HIDE DEF b, p, c
  <1>6. get_unichar_from_std_iterator(b, p) = c
    BY <1>5, UnicharIs
  <1>7. g_utf8_get_char(b, p) = c
    BY <1>5, Utf8GetCharIs
  <1> QED  BY <1>6, <1>7 DEF b, p, c

-----------------------------------------------------------------------------
(* Iterators are at characters.                                              *)

\* At a boundary is the first byte of a character, or the end.
LEMMA BoundaryLead ==
  ASSUME NEW b \in Seq(Byte), NEW p, Boundary(b, p)
  PROVE  p = Len(b) \/ p + 1 \in Leads(b)
  <1>1. Len(b) \in Nat
    OBVIOUS
  <1>2. p \in 0 .. Len(b)
    BY DEF Boundary
  <1>3. CASE p # Len(b)
    <2>1. p < Len(b) /\ p + 1 \in 1 .. Len(b)
      BY <1>1, <1>2, <1>3
    <2>2. p + 1 \in DOMAIN b
      BY <2>1
    <2>3. ~IsContinuation(b[p + 1])
      BY <2>1 DEF Boundary
    <2> QED  BY <2>2, <2>3 DEF Leads
  <1> QED  BY <1>3

\* A first byte stands at an offset.
LEMMA LeadsAre ==
  ASSUME NEW cs \in Texts, NEW k \in 0 .. Len(cs), NEW x
  PROVE  (x \in Leads(Encode(cs)) /\ x <= Offset(cs, k)) <=> \E j \in 0 .. k - 1 : x = Offset(cs, j) + 1
  <1> DEFINE b == Encode(cs)
  <1>1. Len(cs) \in Nat /\ b \in Seq(Byte) /\ Len(b) \in Nat /\ DOMAIN b = 1 .. Len(b)
    BY EncodeBytes DEF Texts
  <1>2. ASSUME x \in Leads(b), x <= Offset(cs, k) PROVE \E j \in 0 .. k - 1 : x = Offset(cs, j) + 1
    <2>1. x \in 1 .. Len(b) /\ ~IsContinuation(b[x])
      BY <1>1, <1>2 DEF Leads
    <2>2. Boundary(b, x - 1)
      <3>1. x - 1 \in 0 .. Len(b) /\ (x - 1) + 1 = x
        BY <2>1
      <3> QED  BY <2>1, <3>1 DEF Boundary
    <2>3. PICK j \in 0 .. Len(cs) : x - 1 = Offset(cs, j)
      BY <2>2, Boundaries
    <2>4. Offset(cs, j) < Offset(cs, k) /\ Offset(cs, j) \in Nat /\ Offset(cs, k) \in Nat
      BY <1>2, <2>1, <2>3, OffsetOrder
    <2>5. j < k
      BY <2>4, OffsetOrder
    <2> QED  BY <2>1, <2>3, <2>5
  <1>3. ASSUME NEW j \in 0 .. k - 1, x = Offset(cs, j) + 1 PROVE x \in Leads(b) /\ x <= Offset(cs, k)
    <2>1. j \in 0 .. Len(cs) - 1 /\ j \in 0 .. Len(cs) /\ j < k
      BY <1>1
    <2>2. Offset(cs, j) \in 0 .. Len(b) - 1 /\ ~IsContinuation(b[Offset(cs, j) + 1])
      BY <2>1, OffsetStep
    <2>3. Offset(cs, j) < Offset(cs, k) /\ Offset(cs, k) \in Nat
      BY <2>1, OffsetOrder
    <2>4. x \in 1 .. Len(b) /\ ~IsContinuation(b[x]) /\ x <= Offset(cs, k)
      BY <1>3, <2>2, <2>3
    <2> HIDE DEF b
    <2> QED  BY <1>1, <2>4 DEF Leads
  <1> QED  BY <1>2, <1>3

\* The index of an iterator that is at the offset of a character, or at the end.
LEMMA IndexIs ==
  ASSUME NEW cs \in Texts, NEW k \in 0 .. Len(cs)
  PROVE  IndexOf(Encode(cs), [pos |-> Offset(cs, k)]) = [i |-> k]
  <1> DEFINE b == Encode(cs)
             p == Offset(cs, k)
             S == Starts(cs, 0, k)
             T == {x \in Leads(b) : x <= p}
             f == [x \in S |-> x + 1]
  <1>1. Len(cs) \in Nat /\ b \in Seq(Byte) /\ Len(b) \in Nat /\ DOMAIN b = 1 .. Len(b) /\ p \in 0 .. Len(b)
    BY EncodeBytes, OffsetOrder DEF Texts
  <1>2. Boundary(b, p)
    BY Boundaries
  <1>3. \A x : x \in T <=> \E j \in 0 .. k - 1 : x = Offset(cs, j) + 1
    BY LeadsAre
  <1>4. \A x : x \in S <=> \E j \in 0 .. k - 1 : x = Offset(cs, j)
    BY DEF Starts
  <1>5. \A x \in S : x \in Nat
    <2>1. \A j \in 0 .. k - 1 : Offset(cs, j) \in Nat
      <3> TAKE j \in 0 .. k - 1
      <3>1. j \in 0 .. Len(cs)
        BY <1>1
      <3> QED  BY <3>1, OffsetOrder
    <2> QED  BY <1>4, <2>1
  <1>6. IsFiniteSet(S) /\ Cardinality(S) = k
    <2>1. 0 \in 0 .. Len(cs) /\ k \in 0 .. Len(cs) /\ k - 0 = k
      BY <1>1
    <2> QED  BY <2>1, StartsCounted
  <1>7. p = Len(b) \/ p + 1 \in Leads(b)
    BY <1>1, <1>2, BoundaryLead
  <1> HIDE DEF b, p, S, T
  <1>8. f \in Bijection(S, T)
    <2>1. \A x \in S : x + 1 \in T
      BY <1>3, <1>4
    <2>2. \A y \in T : \E x \in S : y = x + 1
      BY <1>3, <1>4
    <2>3. \A x, y \in S : x + 1 = y + 1 => x = y
      BY <1>5
    <2>4. f \in [S -> T] /\ \A x \in S : f[x] = x + 1
      BY <2>1 DEF f
    <2> HIDE DEF f
    <2>5. f \in Injection(S, T)
      <3>1. DOMAIN f = S /\ \A x, y \in S : f[x] = f[y] => x = y
        BY <2>3, <2>4
      <3> QED  BY <2>4, <3>1 DEF Injection, IsInjective
    <2>6. f \in Surjection(S, T)
      <3>1. \A y \in T : \E x \in S : f[x] = y
        BY <2>2, <2>4
      <3> QED  BY <2>4, <3>1 DEF Surjection
    <2> QED  BY <2>5, <2>6 DEF Bijection
  <1>9. Cardinality(T) = k
    <2> HIDE DEF f
    <2>1. ExistsBijection(S, T)
      BY <1>8 DEF ExistsBijection
    <2> QED  BY <1>6, <2>1, FS_Bijection
  <1>10. [pos |-> p] # NoIter /\ [pos |-> p].pos = p
    <2>1. [pos |-> p].pos = p /\ NoIter.pos = -2
      BY DEF NoIter
    <2> QED  BY <1>1, <2>1
  <1>11. {x \in Leads(b) : x <= p} = T
    BY DEF T
  <1> QED  BY <1>7, <1>9, <1>10, <1>11 DEF IndexOf, b, p

\* Where an iterator that is in use is.
LEMMA IteratorAt ==
  ASSUME Inv, Iterating
  PROVE  LET cs == CharsOf(str).s
         IN  \E k \in 0 .. Len(cs) :
               /\ it = [pos |-> Offset(cs, k)] /\ it.pos = Offset(cs, k)
               /\ IndexOf(str.s, it) = [i |-> k]
  <1> DEFINE cs == CharsOf(str).s
  <1>1. cs \in Texts /\ str.s = Encode(cs)
    BY TextOfS
  <1>2. it = [pos |-> it.pos] /\ Boundary(str.s, it.pos)
    BY IteratorPlace
  <1> HIDE DEF cs
  <1>3. PICK k \in 0 .. Len(cs) : it.pos = Offset(cs, k)
    BY <1>1, <1>2, Boundaries
  <1>4. it = [pos |-> Offset(cs, k)]
    BY <1>2, <1>3, Zenon
  <1>5. IndexOf(Encode(cs), [pos |-> Offset(cs, k)]) = [i |-> k]
    BY <1>1, IndexIs
  <1>6. IndexOf(str.s, it) = [i |-> k]
    BY <1>1, <1>4, <1>5, Zenon
  <1> QED  BY <1>3, <1>4, <1>6 DEF cs

\* A call that moves an iterator, or only looks at it.
Moves(op, ret, k) ==
  LET cs == CharsOf(str).s
      from == IndexOf(str.s, it)
  IN  \/ op = "begin" /\ k = 0
      \/ op = "end" /\ k = Len(cs)
      \/ op = "++" /\ k = from.i + 1
      \/ op = "--" /\ k = from.i - 1
      \/ op = "*" /\ from = [i |-> k] /\ ret = <<"char", cs[k + 1]>>
      \/ /\ op = "compare_iterators" /\ from = [i |-> k]
         /\ ret = <<"bools", k = 0, k # 0, k < Len(cs), k > 0, k <= 0, k >= Len(cs)>>
      \/ op = "validate" /\ k = Len(cs) /\ ret = <<"bools", TRUE>>

\* Moving an iterator, or reading at it, is a step of the abstract specification.
LEMMA MoveStep ==
  ASSUME Inv, call = NoCall, NEW op, NEW ret, NEW k \in 0 .. Len(CharsOf(str).s), Moves(op, ret, k),
         Iterate(op, ret, Offset(CharsOf(str).s, k))
  PROVE  Characters!Next
  <1> DEFINE cs == CharsOf(str).s
             from == IndexOf(str.s, it)
  <1>1. cs \in Texts /\ str.s = Encode(cs)
    BY TextOfS
  <1>2. call' = [op |-> op, ret |-> ret] /\ it' = [pos |-> Offset(cs, k)] /\ str' = str
    BY DEF Iterate
  <1>3. CharsOf(str') = CharsOf(str)
    BY <1>2
  <1>4. IndexOf(str'.s, it') = [i |-> k]
    <2> HIDE DEF cs
    <2>1. IndexOf(Encode(cs), [pos |-> Offset(cs, k)]) = [i |-> k]
      BY <1>1, IndexIs DEF cs
    <2>2. str'.s = Encode(cs)
      BY <1>1, <1>2
    <2> QED  BY <1>2, <2>1, <2>2, Zenon
  <1>5. call'.op = op /\ call'.ret = ret
    BY <1>2
  <1>6. op # "none"
    BY DEF Moves
  <1>7. Characters!Move(call')
    <2>1. CASE op = "begin" \/ op = "end" \/ op = "++" \/ op = "--"
      BY <1>3, <1>4, <1>5, <2>1 DEF Moves, Characters!Move
    <2>2. CASE op = "*"
      <3>1. from = [i |-> k] /\ ret = <<"char", cs[k + 1]>>
        BY <2>2 DEF Moves
      <3>2. from.i = k
        BY <3>1
      <3> QED  BY <1>3, <1>4, <1>5, <2>2, <3>1, <3>2 DEF Characters!Move
    <2>3. CASE op = "compare_iterators"
      <3>1. /\ from = [i |-> k]
            /\ ret = <<"bools", k = 0, k # 0, k < Len(cs), k > 0, k <= 0, k >= Len(cs)>>
        BY <2>3 DEF Moves
      <3>2. from.i = k
        BY <3>1
      <3> QED  BY <1>3, <1>4, <1>5, <2>3, <3>1, <3>2 DEF Characters!Move
    <2>4. CASE op = "validate"
      <3>1. k = Len(cs) /\ ret = <<"bools", TRUE>>
        BY <2>4 DEF Moves
      <3> QED  BY <1>3, <1>4, <1>5, <2>4, <3>1 DEF Characters!Move
    <2> QED  BY <2>1, <2>2, <2>3, <2>4 DEF Moves
  <1> QED  BY <1>5, <1>6, <1>7, Called

\* validate() stops at a NUL.
LEMMA NotValid ==
  ASSUME Inv, call = NoCall, HasNul(CharsOf(str).s), NEW k \in 0 .. Len(CharsOf(str).s),
         k = Len(Characters!UpToNul(CharsOf(str).s)),
         Iterate("validate", <<"bools", FALSE>>, Offset(CharsOf(str).s, k))
  PROVE  Departs
  <1> DEFINE cs == CharsOf(str).s
             ret == <<"bools", FALSE>>
  <1>1. cs \in Texts /\ str.s = Encode(cs)
    BY TextOfS
  <1>2. call' = [op |-> "validate", ret |-> ret] /\ it' = [pos |-> Offset(cs, k)] /\ str' = str
    BY DEF Iterate
  <1>3. CharsOf(str)' = CharsOf(str)
    BY <1>2
  <1>4. IndexOf(str.s, it)' = [i |-> k]
    <2> HIDE DEF cs
    <2>1. IndexOf(Encode(cs), [pos |-> Offset(cs, k)]) = [i |-> k]
      BY <1>1, IndexIs DEF cs
    <2>2. str'.s = Encode(cs)
      BY <1>1, <1>2
    <2> QED  BY <1>2, <2>1, <2>2, Zenon
  <1> HIDE DEF ret
  <1>5. call'.op = "validate" /\ call'.ret = ret /\ call' # NoCall
    <2>1. call'.op = "validate" /\ call'.ret = ret
      BY <1>2
    <2> QED  BY <2>1 DEF NoCall
  <1>6. ValidatesUpToNul(call')
    BY <1>4, <1>5 DEF ValidatesUpToNul, Ended, ret
  <1> QED  BY <1>3, <1>5, <1>6 DEF Departs

\* The character before an offset.
LEMMA PreviousIs ==
  ASSUME NEW cs \in Texts, NEW k \in 1 .. Len(cs)
  PROVE  Previous(Encode(cs), Offset(cs, k)) = Offset(cs, k - 1)
  <1> DEFINE b == Encode(cs)
             p == Offset(cs, k)
             q == Previous(b, p)
  <1>1. Len(cs) \in Nat /\ k \in 0 .. Len(cs) /\ k - 1 \in 0 .. Len(cs) /\ k - 1 < k /\ 0 \in 0 .. Len(cs) /\ 0 < k
    BY DEF Texts
  <1>2. Good(b) /\ Boundary(b, p) /\ Boundary(b, Offset(cs, k - 1))
    BY <1>1, EncodeGood, Boundaries DEF Texts
  <1>3. p \in 1 .. Len(b) /\ Offset(cs, k - 1) \in 0 .. p - 1
    <2>1. p \in 0 .. Len(b) /\ Offset(cs, k - 1) \in 0 .. Len(b) /\ Offset(cs, k - 1) < p
      BY <1>1, OffsetOrder
    <2> HIDE DEF p, b
    <2> QED  BY <2>1
  <1>4. q \in 0 .. p - 1 /\ Boundary(b, q) /\ \A x \in q + 1 .. p - 1 : ~Boundary(b, x)
    BY <1>2, <1>3, PreviousCharacter
  <1>5. PICK j \in 0 .. Len(cs) : q = Offset(cs, j)
    BY <1>4, Boundaries
  <1> HIDE DEF q, p, b
  <1>6. j < k
    <2>1. Offset(cs, j) < Offset(cs, k)
      BY <1>3, <1>4, <1>5 DEF p
    <2> QED  BY <1>1, <2>1, OffsetOrder
  <1>7. ~(j < k - 1)
    <2> SUFFICES ASSUME j < k - 1 PROVE FALSE
      OBVIOUS
    <2>1. Offset(cs, j) < Offset(cs, k - 1)
      BY <1>1, OffsetOrder
    <2>2. Offset(cs, k - 1) \in q + 1 .. p - 1
      BY <1>3, <1>4, <1>5, <2>1
    <2> QED  BY <1>2, <1>4, <2>2
  <1>8. j = k - 1
    BY <1>6, <1>7
  <1> QED  BY <1>5, <1>8 DEF q, p, b

\* validate() takes a NUL for an invalid byte.
LEMMA ValidateIs ==
  ASSUME NEW cs \in Texts
  PROVE  \E k \in 0 .. Len(cs) :
           /\ k = Len(Characters!UpToNul(cs))
           /\ g_utf8_validate(Encode(cs)).valid_end = Offset(cs, k)
           /\ g_utf8_validate(Encode(cs)).ok = (0 \notin Range(cs))
  <1> DEFINE b == Encode(cs)
             u == Characters!UpToNul(cs)
  <1>1. PICK m \in 0 .. Len(cs) : u = SubSeq(cs, 1, m) /\ Len(u) = m
    BY UpToNulIs
  <1>2. c_str(b) = Encode(u)
    BY CStringIs
  <1>3. /\ g_utf8_validate(b).valid_end = Len(c_str(b))
        /\ g_utf8_validate(b).ok = (0 \notin Range(b))
    BY DEF g_utf8_validate
  <1>4. /\ b \in Seq(Byte) /\ DOMAIN b = 1 .. Len(b) /\ cs \in Seq(Unicode) /\ DOMAIN cs = 1 .. Len(cs)
        /\ Len(cs) \in Nat
    BY EncodeBytes DEF Texts
  <1>5. \A q : (q \in 1 .. Len(b) /\ b[q] = 0) <=> \E k \in 1 .. Len(cs) : cs[k] = 0 /\ q = Offset(cs, k - 1) + 1
    BY ZeroBytes
  <1> HIDE DEF b, u
  <1>6. Len(Encode(u)) = Offset(cs, m)
    BY <1>1 DEF Offset
  <1>7. 0 \in Range(b) <=> 0 \in Range(cs)
    <2>1. 0 \in Range(b) <=> \E q \in 1 .. Len(b) : b[q] = 0
      BY <1>4, Zenon DEF Range
    <2>2. 0 \in Range(cs) <=> \E k \in 1 .. Len(cs) : cs[k] = 0
      BY <1>4, Zenon DEF Range
    <2> QED  BY <1>5, <2>1, <2>2, Zenon
  <1>8. g_utf8_validate(b).valid_end = Offset(cs, m) /\ g_utf8_validate(b).ok = (0 \notin Range(cs))
    BY <1>2, <1>3, <1>6, <1>7
  <1> QED  BY <1>1, <1>8 DEF b, u

\* Every operation of iterators alone.
LEMMA IterationsStep ==
  ASSUME Inv,
         \/ begin \/ end \/ OperatorIncrement \/ OperatorDecrement \/ OperatorDereference
         \/ CompareIterators \/ Validate \/ DropIterator
  PROVE  Allowed
  <1> DEFINE cs == CharsOf(str).s
             from == IndexOf(str.s, it)
  <1>1. cs \in Texts /\ str.s = Encode(cs) /\ Len(cs) \in Nat /\ Len(Encode(cs)) \in Nat
    BY TextOfS, EncodeBytes
  <1>2. Offset(cs, 0) = 0 /\ Offset(cs, Len(cs)) = Len(str.s) /\ 0 \in 0 .. Len(cs) /\ Len(cs) \in 0 .. Len(cs)
    BY <1>1, OffsetEnds
  <1>3. CASE begin
    <2>1. Idle /\ Iterate("begin", <<"done">>, Offset(cs, 0))
      BY <1>2, <1>3 DEF begin
    <2>2. Moves("begin", <<"done">>, 0)
      BY DEF Moves
    <2> QED  BY <1>2, <2>1, <2>2, MoveStep DEF Idle, Allowed
  <1>4. CASE end
    <2>1. Idle /\ Iterate("end", <<"done">>, Offset(cs, Len(cs)))
      BY <1>2, <1>4 DEF end
    <2>2. Moves("end", <<"done">>, Len(cs))
      BY DEF Moves
    <2> QED  BY <1>2, <2>1, <2>2, MoveStep DEF Idle, Allowed
  <1>5. CASE Validate
    <2>1. PICK k \in 0 .. Len(cs) :
            /\ k = Len(Characters!UpToNul(cs))
            /\ g_utf8_validate(str.s).valid_end = Offset(cs, k)
            /\ g_utf8_validate(str.s).ok = (0 \notin Range(cs))
      BY <1>1, ValidateIs
    <2> DEFINE ret == <<"bools", g_utf8_validate(str.s).ok>>
    <2>2. Idle /\ Iterate("validate", ret, Offset(cs, k))
      BY <1>5, <2>1 DEF Validate
    <2>3. CASE HasNul(cs)
      <3>1. ret = <<"bools", FALSE>>
        BY <2>1, <2>3 DEF HasNul
      <3> HIDE DEF ret
      <3>2. Iterate("validate", <<"bools", FALSE>>, Offset(cs, k))
        BY <2>2, <3>1
      <3> QED  BY <2>1, <2>2, <2>3, <3>2, NotValid DEF Idle, Allowed
    <2>4. CASE ~HasNul(cs)
      <3>1. ret = <<"bools", TRUE>> /\ k = Len(cs)
        <4>1. g_utf8_validate(str.s).ok = TRUE
          BY <2>1, <2>4 DEF HasNul
        <4>2. Characters!UpToNul(cs) = cs
          BY <1>1, <2>4, EndedIs
        <4> QED  BY <2>1, <4>1, <4>2
      <3> HIDE DEF ret
      <3>2. Moves("validate", ret, k)
        BY <3>1 DEF Moves
      <3> QED  BY <2>2, <3>2, MoveStep DEF Idle, Allowed
    <2> QED  BY <2>3, <2>4
  <1>6. ASSUME Iterating, NEW k \in 0 .. Len(cs), it.pos = Offset(cs, k), from = [i |-> k], call = NoCall,
               OperatorIncrement \/ OperatorDecrement \/ OperatorDereference \/ CompareIterators
        PROVE  Characters!Next
    <2>1. from.i = k
      BY <1>6
    <2>2. it.pos < Len(str.s) <=> k < Len(cs)
      BY <1>1, <1>2, <1>6, OffsetOrder
    <2>3. it.pos > 0 <=> k > 0
      <3>1. 0 < k <=> Offset(cs, 0) < Offset(cs, k)
        BY <1>1, <1>2, OffsetOrder
      <3> HIDE DEF cs
      <3>2. Offset(cs, 0) < Offset(cs, k) <=> it.pos > 0
        BY <1>2, <1>6
      <3> QED  BY <3>1, <3>2
    <2>4. it.pos = 0 <=> k = 0
      <3>1. 0 = k <=> Offset(cs, 0) = Offset(cs, k)
        BY <1>1, <1>2, OffsetOrder
      <3> HIDE DEF cs
      <3> QED  BY <1>2, <1>6, <3>1
    <2>5. it.pos \in Nat /\ Len(str.s) \in Nat
      BY <1>1, <1>6, OffsetOrder
    <2>6. CASE OperatorIncrement
      <3>1. k \in 0 .. Len(cs) - 1 /\ k + 1 \in 0 .. Len(cs)
        BY <1>1, <2>2, <2>6 DEF OperatorIncrement
      <3>2. Increment(str.s, it.pos) = Offset(cs, k + 1)
        BY <1>1, <1>6, <3>1, OffsetStep DEF Increment
      <3>3. Iterate("++", <<"done">>, Offset(cs, k + 1))
        BY <2>6, <3>2 DEF OperatorIncrement
      <3>4. Moves("++", <<"done">>, k + 1)
        BY <2>1 DEF Moves
      <3> QED  BY <1>6, <3>1, <3>3, <3>4, MoveStep
    <2>7. CASE OperatorDecrement
      <3>1. k \in 1 .. Len(cs) /\ k - 1 \in 0 .. Len(cs)
        BY <1>1, <2>3, <2>7 DEF OperatorDecrement
      <3>2. Decrement(str.s, it.pos) = Offset(cs, k - 1)
        BY <1>1, <1>6, <3>1, PreviousIs DEF Decrement
      <3>3. Iterate("--", <<"done">>, Offset(cs, k - 1))
        BY <2>7, <3>2 DEF OperatorDecrement
      <3>4. Moves("--", <<"done">>, k - 1)
        BY <2>1 DEF Moves
      <3> QED  BY <1>6, <3>1, <3>3, <3>4, MoveStep
    <2>8. CASE OperatorDereference
      <3>1. k \in 0 .. Len(cs) - 1
        BY <1>1, <2>2, <2>8 DEF OperatorDereference
      <3>2. get_unichar_from_std_iterator(str.s, it.pos) = cs[k + 1]
        BY <1>1, <1>6, <3>1, CharRead
      <3>3. Iterate("*", <<"char", cs[k + 1]>>, Offset(cs, k))
        BY <1>6, <2>8, <3>2 DEF OperatorDereference
      <3>4. Moves("*", <<"char", cs[k + 1]>>, k)
        BY <1>6 DEF Moves
      <3> QED  BY <1>6, <3>3, <3>4, MoveStep
    <2>9. CASE CompareIterators
      <3> DEFINE ret == <<"bools", k = 0, k # 0, k < Len(cs), k > 0, k <= 0, k >= Len(cs)>>
                 bools == <<"bools", it.pos = 0, it.pos # 0, it.pos < Len(str.s), it.pos > 0,
                            it.pos <= 0, it.pos >= Len(str.s)>>
      <3>1. Iterate("compare_iterators", bools, it.pos)
        BY <2>9 DEF CompareIterators
      <3>2. /\ (it.pos = 0) = (k = 0) /\ (it.pos # 0) = (k # 0) /\ (it.pos < Len(str.s)) = (k < Len(cs))
            /\ (it.pos > 0) = (k > 0) /\ (it.pos <= 0) = (k <= 0) /\ (it.pos >= Len(str.s)) = (k >= Len(cs))
        <4>1. k \in Nat
          OBVIOUS
        <4>2. (it.pos <= 0 <=> ~(it.pos > 0)) /\ (k <= 0 <=> ~(k > 0))
          BY <2>5, <4>1
        <4>3. (it.pos >= Len(str.s) <=> ~(it.pos < Len(str.s))) /\ (k >= Len(cs) <=> ~(k < Len(cs)))
          BY <1>1, <2>5, <4>1
        <4> HIDE DEF cs
        <4> QED  BY <2>2, <2>3, <2>4, <4>2, <4>3
      <3>3. bools = ret
        BY <3>2
      <3> HIDE DEF bools
      <3>4. Iterate("compare_iterators", ret, Offset(cs, k))
        BY <1>6, <3>1, <3>3
      <3>5. Moves("compare_iterators", ret, k)
        BY <1>6 DEF Moves
      <3> HIDE DEF ret
      <3> QED  BY <1>6, <3>4, <3>5, MoveStep
    <2> QED  BY <1>6, <2>6, <2>7, <2>8, <2>9
  <1>7. CASE OperatorIncrement \/ OperatorDecrement \/ OperatorDereference \/ CompareIterators
    <2>1. Iterating /\ call = NoCall
      BY <1>7 DEF OperatorIncrement, OperatorDecrement, OperatorDereference, CompareIterators, Iterating
    <2>2. PICK k \in 0 .. Len(cs) : it.pos = Offset(cs, k) /\ from = [i |-> k]
      BY <2>1, IteratorAt
    <2> QED  BY <1>6, <1>7, <2>1, <2>2 DEF Allowed
  <1>8. CASE DropIterator
    <2>1. call = NoCall /\ call' = [op |-> "drop", ret |-> <<"done">>] /\ it' = NoIter /\ str' = str
      BY <1>8 DEF DropIterator, Iterating
    <2>2. IndexOf(str'.s, it') = Characters!NoIter /\ CharsOf(str') = CharsOf(str)
      BY <2>1 DEF IndexOf, Characters!NoIter
    <2>3. call'.op = "drop"
      BY <2>1
    <2>4. Characters!Move(call')
      BY <2>2, <2>3 DEF Characters!Move
    <2> QED  BY <2>1, <2>3, <2>4, Called DEF Allowed
  <1> QED  BY <1>3, <1>4, <1>5, <1>7, <1>8

\* What stands before the place of a change stays where it is.
LEMMA PrefixKept ==
  ASSUME NEW cs \in Texts, NEW i \in 0 .. Len(cs), NEW n \in Nat, NEW ts \in Texts
  PROVE  LET new == Characters!Splice(cs, i, n, ts)
         IN  new \in Texts /\ i \in 0 .. Len(new) /\ Offset(new, i) = Offset(cs, i)
  <1> DEFINE j == IF i + n <= Len(cs) THEN i + n ELSE Len(cs)
             x == SubSeq(cs, 1, i)
             z == SubSeq(cs, j + 1, Len(cs))
             y == ts \o z
             new == Characters!Splice(cs, i, n, ts)
  <1>1. Len(cs) \in Nat /\ j \in i .. Len(cs)
    BY DEF Texts
  <1>2. x \in Seq(Unicode) /\ Len(x) = i /\ z \in Seq(Unicode)
    BY <1>1, TextCut DEF Texts
  <1>3. ts \in Seq(Unicode)
    BY DEF Texts
  <1>4. new = x \o ts \o z
    BY SpliceIs
  <1> HIDE DEF x, j, z, new
  <1>5. y \in Seq(Unicode) /\ new = x \o y
    <2>1. y \in Seq(Unicode)
      BY <1>2, <1>3, ConcatProperties
    <2>2. (x \o ts) \o z = x \o y
      BY <1>2, <1>3, ConcatAssociative
    <2> QED  BY <1>4, <2>1, <2>2
  <1> HIDE DEF y
  <1>6. new \in Seq(Unicode) /\ i \in 0 .. Len(new) /\ SubSeq(new, 1, i) = x
    <2>1. x \o y \in Seq(Unicode) /\ Len(x \o y) = i + Len(y) /\ Len(y) \in Nat
      BY <1>2, <1>5, ConcatProperties
    <2>2. SubSeq(x \o y, 1, i) = x
      <3>1. i \in 0 .. Len(x) /\ SubSeq(x, 1, Len(x)) = x
        BY <1>1, <1>2, SubSeqFull
      <3>2. SubSeq(x \o y, 1, i) = SubSeq(x, 1, i)
        BY <1>2, <1>5, <3>1, SubSeqOfConcat1
      <3> QED  BY <1>2, <3>1, <3>2
    <2> QED  BY <1>2, <1>5, <2>1, <2>2
  <1>7. Offset(new, i) = Len(Encode(x)) /\ Offset(cs, i) = Len(Encode(x))
    BY <1>6 DEF Offset, x
  <1> QED  BY <1>6, <1>7 DEF new, Texts

\* The iterator after a change that returns it, and after one that returns none.
LEMMA EditAtIs ==
  ASSUME Inv, NEW op, NEW src, NEW result, NEW iter, EditAt(op, src, result, iter),
         NEW k \in 0 .. Len(CharsOf(str).s), NEW n \in Nat, NEW ts, NEW fault,
         Yields(result, fault, Characters!Splice(CharsOf(str).s, k, n, ts)),
         ts \in Texts, iter = NoIter \/ (iter = [pos |-> Offset(CharsOf(str).s, k)] /\ fault = "none")
  PROVE  /\ call'.op = op /\ call'.src = src /\ call'.ret = <<IF fault = "none" THEN "done" ELSE fault>>
         /\ fault = "none" =>
              CharsOf(str') = [CharsOf(str) EXCEPT !.s = Characters!Splice(CharsOf(str).s, k, n, ts)]
         /\ fault # "none" => CharsOf(str') = CharsOf(str)
         /\ IndexOf(str'.s, it') = IF iter = NoIter THEN Characters!NoIter ELSE [i |-> k]
  <1> DEFINE cs == CharsOf(str).s
             new == Characters!Splice(cs, k, n, ts)
             c == Edit(op, 0, 0, src)
  <1>1. cs \in Texts /\ str.s = Encode(cs) /\ Len(cs) \in Nat /\ GoodStrings(str)
    BY TextOfS
  <1>2. Change(c, result) /\ it' = iter
    BY DEF EditAt
  <1>3. Yields(result, fault, new)
    OBVIOUS
  <1> HIDE DEF c, new
  <1>4. /\ fault = "none" => CharsOf(str') = [CharsOf(str) EXCEPT !.s = new]
                              /\ call' = [c EXCEPT !.ret = <<"done">>]
        /\ fault # "none" => CharsOf(str') = CharsOf(str) /\ call' = [c EXCEPT !.ret = <<fault>>]
    BY <1>1, <1>2, <1>3, ChangeYields
  <1>5. call'.op = op /\ call'.src = src /\ call'.ret = <<IF fault = "none" THEN "done" ELSE fault>>
    BY <1>4 DEF c, Edit
  <1>6. IndexOf(str'.s, it') = IF iter = NoIter THEN Characters!NoIter ELSE [i |-> k]
    <2>1. CASE iter = NoIter
      BY <1>2, <2>1 DEF IndexOf, Characters!NoIter
    <2>2. CASE iter # NoIter
      <3>1. iter = [pos |-> Offset(cs, k)] /\ fault = "none"
        BY <2>2
      <3>2. result.err = "none" /\ result.b = Encode(new)
        BY <1>3, <3>1 DEF Yields
      <3>3. str' = [str EXCEPT !.s = Encode(new)]
        BY <1>2, <3>2 DEF Change
      <3>4. str'.s = Encode(new)
        BY <1>1, <3>3 DEF GoodStrings
      <3> HIDE DEF cs
      <3>5. new \in Texts /\ k \in 0 .. Len(new) /\ Offset(new, k) = Offset(cs, k)
        BY <1>1, PrefixKept DEF new, cs
      <3>6. IndexOf(Encode(new), [pos |-> Offset(new, k)]) = [i |-> k]
        BY <3>5, IndexIs
      <3>7. it' = [pos |-> Offset(new, k)]
        BY <1>2, <3>1, <3>5
      <3>8. IndexOf(str'.s, it') = [i |-> k]
        BY <3>4, <3>6, <3>7, Zenon
      <3> QED  BY <2>2, <3>8
    <2> QED  BY <2>1, <2>2
  <1> QED  BY <1>4, <1>5, <1>6 DEF new

\* What the calls at an iterator yield, in characters.
LEMMA PlacesYield ==
  ASSUME Inv, NEW k \in 0 .. Len(CharsOf(str).s), it.pos = Offset(CharsOf(str).s, k),
         NEW arg, NEW fault, NEW ts, Yields(arg, fault, ts)
  PROVE  LET cs == CharsOf(str).s IN
         /\ Yields(std_replace(str.s, it.pos, 0, arg), fault, Characters!Splice(cs, k, 0, ts))
         /\ k < Len(cs) =>
              Yields(std_replace(str.s, it.pos, Increment(str.s, it.pos) - it.pos, arg), fault,
                     Characters!Splice(cs, k, 1, ts))
         /\ Yields(std_replace(str.s, it.pos, Len(str.s) - it.pos, arg), fault,
                   Characters!Splice(cs, k, npos, ts))
         /\ Yields(std_replace(str.s, 0, it.pos, arg), fault, Characters!Splice(cs, 0, k, ts))
  <1> DEFINE cs == CharsOf(str).s
             p == Offset(cs, k)
  <1>1. /\ cs \in Texts /\ str.s = Encode(cs) /\ Len(Encode(cs)) < npos /\ Len(cs) < npos /\ Len(cs) \in Nat
        /\ npos \in Nat
    BY TextOfS DEF npos
  <1>2. it.pos = p /\ Yields(arg, fault, ts)
    OBVIOUS
  <1> HIDE DEF cs
  <1>3. k \in 0 .. Len(cs) /\ k \in Nat /\ k <= Len(cs) /\ k + 0 = k /\ 0 + k = k /\ 0 \in 0 .. Len(cs)
        /\ ~(k + npos < Len(cs)) /\ 0 \in Nat /\ 1 \in Nat
    BY <1>1 DEF cs
  <1>4. p \in Nat /\ Offset(cs, 0) = 0
    BY <1>1, <1>3, OffsetOrder, OffsetEnds
  <1>5. Yields(std_replace(Encode(cs), p, 0, arg), fault, Characters!Splice(cs, k, 0, ts))
    <2>1. 0 = IF k + 0 <= Len(cs) THEN Offset(cs, k + 0) - Offset(cs, k) ELSE npos
      BY <1>3, <1>4
    <2> QED  BY <1>1, <1>2, <1>3, <2>1, ReplaceYields
  <1>6. k < Len(cs) =>
          Yields(std_replace(Encode(cs), p, Increment(Encode(cs), p) - p, arg), fault,
                 Characters!Splice(cs, k, 1, ts))
    <2> SUFFICES ASSUME k < Len(cs)
                 PROVE  Yields(std_replace(Encode(cs), p, Increment(Encode(cs), p) - p, arg), fault,
                               Characters!Splice(cs, k, 1, ts))
      OBVIOUS
    <2>1. k \in 0 .. Len(cs) - 1 /\ k + 1 <= Len(cs)
      BY <1>1, <1>3
    <2>2. Increment(Encode(cs), p) = Offset(cs, k + 1)
      BY <1>1, <2>1, OffsetStep DEF Increment
    <2> DEFINE m == Increment(Encode(cs), p) - p
    <2>3. m = IF k + 1 <= Len(cs) THEN Offset(cs, k + 1) - Offset(cs, k) ELSE npos
      BY <2>1, <2>2
    <2> HIDE DEF m
    <2>4. Yields(std_replace(Encode(cs), Offset(cs, k), m, arg), fault, Characters!Splice(cs, k, 1, ts))
      BY <1>1, <1>2, <1>3, <2>3, ReplaceYields
    <2> QED  BY <2>4 DEF m
  <1>7. Yields(std_replace(Encode(cs), p, Len(Encode(cs)) - p, arg), fault,
               Characters!Splice(cs, k, npos, ts))
    <2> DEFINE m == Len(Encode(cs)) - p
    <2>1. m = Len(Encode(cs)) - Offset(cs, k)
      OBVIOUS
    <2> HIDE DEF m
    <2>2. Yields(std_replace(Encode(cs), Offset(cs, k), m, arg), fault, Characters!Splice(cs, k, npos, ts))
      BY <1>1, <1>2, <1>3, <2>1, ReplaceYields
    <2> QED  BY <2>2 DEF m
  <1>8. Yields(std_replace(Encode(cs), 0, p, arg), fault, Characters!Splice(cs, 0, k, ts))
    <2>1. p = IF 0 + k <= Len(cs) THEN Offset(cs, 0 + k) - Offset(cs, 0) ELSE npos
      BY <1>3, <1>4
    <2> HIDE DEF p
    <2>2. Yields(std_replace(Encode(cs), Offset(cs, 0), p, arg), fault, Characters!Splice(cs, 0, k, ts))
      BY <1>1, <1>2, <1>3, <2>1, ReplaceYields
    <2> QED  BY <1>4, <2>2
  <1> QED  BY <1>1, <1>2, <1>5, <1>6, <1>7, <1>8 DEF cs

\* The arguments of these calls.
LEMMA ArgumentsAt ==
  ASSUME Inv
  PROVE  /\ \A src \in One \cup Many \cup Pairs \cup Whole \cup Cstr \cup CstrN :
               Yields(ustring(src), Characters!Fault(src), Characters!Text(src))
         /\ \A src \in One \cup Many \cup Pairs : Characters!Fault(src) = "none"
         /\ Yields(ok(<<>>), "none", <<>>)
  <1>1. ASSUME NEW src \in One \cup Many \cup Pairs \cup Whole \cup Cstr \cup CstrN
        PROVE  Yields(ustring(src), Characters!Fault(src), Characters!Text(src))
    <2>1. src \in Sources \cup One \cup {NoText}
      BY DEF Sources
    <2> QED  BY <2>1, SourceYields DEF Inv
  <1>2. ASSUME NEW src \in One \cup Many \cup Pairs PROVE Characters!Fault(src) = "none"
    <2>1. src.k \in {"fill", "fillc", "range"}
      BY DEF One, Many, Pairs
    <2> QED  BY <2>1 DEF Characters!Fault
  <1>3. Yields(ok(<<>>), "none", <<>>)
    <2>1. <<>> \in Texts /\ Encode(<<>>) = <<>>
      BY EncodeEmpty DEF Texts
    <2> QED  BY <2>1 DEF Yields, ok
  <1> QED  BY <1>1, <1>2, <1>3

\* An argument of replace() is a text, also when it has more characters than the C string.
LEMMA ReplacementText ==
  ASSUME Inv, NEW src \in Whole \cup Cstr \cup CstrN \cup Many \cup Pairs
  PROVE  Characters!Text(src) \in Texts
  <1>1. CASE src \in CstrN
    <2>1. src.k = "cstrn" /\ src.s \in Literals /\ src.n \in Nat
      BY <1>1, UstringAssumption DEF CstrN
    <2>2. Characters!Text(src) = Characters!Mid(src.s, 0, src.n)
      BY <2>1 DEF Characters!Text
    <2>3. src.s \in Texts /\ 0 \in 0 .. Len(src.s)
      BY <2>1, LiteralText DEF Texts
    <2> QED  BY <2>1, <2>2, <2>3, MidIs
  <1>2. CASE src \in Whole \cup Cstr \cup Many \cup Pairs
    <2>1. src \in Sources \cup One \cup {NoText} /\ src.k \in {"ustring", "cstr", "fill", "fillc", "range"}
      BY <1>2 DEF Sources, Whole, Cstr, Many, Pairs
    <2>2. Characters!Fault(src) = "none"
      BY <2>1 DEF Characters!Fault
    <2>3. Yields(ustring(src), Characters!Fault(src), Characters!Text(src))
      BY <2>1, SourceYields DEF Inv
    <2> QED  BY <2>2, <2>3 DEF Yields
  <1> QED  BY <1>1, <1>2

\* A change at an iterator is the same change at its index.
LEMMA EditAtStep ==
  ASSUME Inv, Iterating, NEW op, NEW src, NEW result, NEW iter, EditAt(op, src, result, iter),
         NEW k \in 0 .. Len(CharsOf(str).s), NEW n \in Nat, NEW ts, NEW fault,
         Yields(result, fault, Characters!Splice(CharsOf(str).s, k, n, ts)),
         fault = Characters!Fault(src), ts = Characters!Text(src), ts \in Texts,
         LET i == IndexOf(str.s, it).i IN
         \/ op = "insert1" /\ k = i /\ n = 0 /\ iter = it /\ fault = "none"
         \/ op = "insertn" /\ k = i /\ n = 0 /\ iter = NoIter /\ fault = "none"
         \/ op = "erase1" /\ k = i /\ n = 1 /\ iter = it /\ ts = <<>> /\ fault = "none"
         \/ op = "erase_from" /\ k = i /\ n = npos /\ iter = it /\ ts = <<>> /\ fault = "none"
         \/ op = "erase_to" /\ k = 0 /\ n = i /\ iter = [pos |-> 0] /\ ts = <<>> /\ fault = "none"
         \/ op = "replace_from" /\ k = i /\ n = npos /\ iter = NoIter
         \/ op = "replace_to" /\ k = 0 /\ n = i /\ iter = NoIter
  PROVE  Characters!Next
  <1> DEFINE cs == CharsOf(str).s
             from == IndexOf(str.s, it)
             i == from.i
             new == Characters!Splice(cs, k, n, ts)
  <1>1. cs \in Texts /\ Len(cs) \in Nat /\ call = NoCall /\ it # NoIter
    BY TextOfS DEF Iterating
  <1>2. PICK h \in 0 .. Len(cs) : it = [pos |-> Offset(cs, h)] /\ from = [i |-> h]
    BY IteratorAt
  <1>3. i = h /\ from = [i |-> i]
    BY <1>2
  <1>4. Offset(cs, 0) = 0 /\ [pos |-> 0] # NoIter
    <2>1. [pos |-> 0].pos = 0 /\ NoIter.pos = -2
      BY DEF NoIter
    <2> QED  BY <1>1, <2>1, OffsetEnds
  <1>5. iter = NoIter \/ (iter = [pos |-> Offset(cs, k)] /\ fault = "none")
    <2> HIDE DEF cs, from
    <2> QED  BY <1>2, <1>3, <1>4 DEF from
  <1>6. /\ call'.op = op /\ call'.src = src /\ call'.ret = <<IF fault = "none" THEN "done" ELSE fault>>
        /\ fault = "none" => CharsOf(str') = [CharsOf(str) EXCEPT !.s = new]
        /\ fault # "none" => CharsOf(str') = CharsOf(str)
        /\ IndexOf(str'.s, it') = IF iter = NoIter THEN Characters!NoIter ELSE [i |-> k]
    BY <1>5, EditAtIs
  <1> HIDE DEF i, from
  <1>7. Characters!EditAt(call')
    <2>1. CASE op \in {"insert1", "insertn"}
      <3>1. k = i /\ n = 0 /\ fault = "none" /\ iter = IF op = "insert1" THEN it ELSE NoIter
        BY <2>1 DEF i, from
      <3>2. CharsOf(str') = [CharsOf(str) EXCEPT !.s = Characters!Splice(cs, i, 0, ts)]
        BY <1>6, <3>1
      <3>3. IndexOf(str'.s, it') = IF op = "insert1" THEN from ELSE Characters!NoIter
        BY <1>1, <1>3, <1>6, <2>1, <3>1
      <3> QED  BY <1>6, <2>1, <3>2, <3>3 DEF Characters!EditAt, i, from
    <2>2. CASE op = "erase1"
      <3>1. k = i /\ n = 1 /\ fault = "none" /\ iter = it /\ ts = <<>>
        BY <2>2 DEF i, from
      <3>2. CharsOf(str') = [CharsOf(str) EXCEPT !.s = Characters!Splice(cs, i, 1, <<>>)]
        BY <1>6, <3>1
      <3>3. IndexOf(str'.s, it') = from
        BY <1>1, <1>3, <1>6, <3>1
      <3> QED  BY <1>6, <2>2, <3>2, <3>3 DEF Characters!EditAt, i, from
    <2>3. CASE op = "erase_from"
      <3>1. k = i /\ n = npos /\ fault = "none" /\ iter = it /\ ts = <<>>
        BY <2>3 DEF i, from
      <3>2. CharsOf(str') = [CharsOf(str) EXCEPT !.s = Characters!Splice(cs, i, npos, <<>>)]
        BY <1>6, <3>1
      <3>3. IndexOf(str'.s, it') = from
        BY <1>1, <1>3, <1>6, <3>1
      <3> QED  BY <1>6, <2>3, <3>2, <3>3 DEF Characters!EditAt, i, from
    <2>4. CASE op = "erase_to"
      <3>1. k = 0 /\ n = i /\ fault = "none" /\ iter = [pos |-> 0] /\ ts = <<>>
        BY <2>4 DEF i, from
      <3>2. CharsOf(str') = [CharsOf(str) EXCEPT !.s = Characters!Splice(cs, 0, i, <<>>)]
        BY <1>6, <3>1
      <3>3. IndexOf(str'.s, it') = [i |-> 0]
        BY <1>4, <1>6, <3>1
      <3> QED  BY <1>6, <2>4, <3>2, <3>3 DEF Characters!EditAt, i, from
    <2>5. CASE op \in {"replace_from", "replace_to"}
      <3>1. /\ k = (IF op = "replace_from" THEN i ELSE 0) /\ n = (IF op = "replace_from" THEN npos ELSE i)
            /\ iter = NoIter
        BY <2>5 DEF i, from
      <3>2. IndexOf(str'.s, it') = Characters!NoIter
        BY <1>6, <3>1
      <3> DEFINE k0 == IF op = "replace_from" THEN i ELSE 0
                 n0 == IF op = "replace_from" THEN npos ELSE i
      <3>3. k0 = k /\ n0 = n
        BY <3>1
      <3> HIDE DEF k0, n0
      <3>4. /\ fault = "none" => CharsOf(str') = [CharsOf(str) EXCEPT !.s = Characters!Splice(cs, k0, n0, ts)]
                                 /\ call'.ret = <<"done">>
            /\ fault # "none" => CharsOf(str') = CharsOf(str) /\ call'.ret = <<fault>>
        BY <1>6, <3>3
      <3> QED  BY <1>6, <2>5, <3>2, <3>4 DEF Characters!EditAt, i, from, k0, n0
    <2> QED  BY <2>1, <2>2, <2>3, <2>4, <2>5
  <1>8. call'.op # "none"
    BY <1>6
  <1> QED  BY <1>1, <1>7, <1>8, Called

\* Every change at an iterator.
LEMMA EditsStep ==
  ASSUME Inv, InsertAtIterator \/ EraseAtIterator \/ ReplaceAtIterator
  PROVE  Characters!Next
  <1> DEFINE cs == CharsOf(str).s
             b == str.s
             p == it.pos
             from == IndexOf(b, it)
  <1>1. Iterating
    BY DEF InsertAtIterator, EraseAtIterator, ReplaceAtIterator
  <1>2. PICK k \in 0 .. Len(cs) : p = Offset(cs, k) /\ from = [i |-> k]
    BY <1>1, IteratorAt
  <1>3. /\ cs \in Texts /\ b = Encode(cs) /\ Len(cs) \in Nat /\ 0 \in 0 .. Len(cs) /\ Len(cs) \in 0 .. Len(cs)
        /\ k \in Nat /\ 0 \in Nat /\ 1 \in Nat /\ npos \in Nat /\ Offset(cs, Len(cs)) = Len(b)
    BY TextOfS, OffsetEnds DEF npos
  <1>4. from.i = k
    BY <1>2
  <1>5. ASSUME NEW arg, NEW fault, NEW ts, Yields(arg, fault, ts)
        PROVE  /\ Yields(std_replace(b, p, 0, arg), fault, Characters!Splice(cs, k, 0, ts))
               /\ k < Len(cs) =>
                    Yields(std_replace(b, p, Increment(b, p) - p, arg), fault, Characters!Splice(cs, k, 1, ts))
               /\ Yields(std_replace(b, p, Len(b) - p, arg), fault, Characters!Splice(cs, k, npos, ts))
               /\ Yields(std_replace(b, 0, p, arg), fault, Characters!Splice(cs, 0, k, ts))
    BY <1>2, <1>5, PlacesYield
  <1>6. /\ \A src \in One \cup Many \cup Pairs \cup Whole \cup Cstr \cup CstrN :
             Yields(ustring(src), Characters!Fault(src), Characters!Text(src))
        /\ \A src \in One \cup Many \cup Pairs : Characters!Fault(src) = "none"
        /\ Yields(ok(<<>>), "none", <<>>)
    BY ArgumentsAt
  <1>7. Characters!Fault(NoText) = "none" /\ Characters!Text(NoText) = <<>> /\ <<>> \in Texts
    BY DEF Characters!Fault, Characters!Text, NoText, Texts
  <1>8. CASE InsertAtIterator
    <2>1. PICK op \in {"insert1", "insertn"}, src \in One \cup Many \cup Pairs :
            EditAt(op, src, std_replace(b, p, 0, ustring(src)), IF op = "insert1" THEN it ELSE NoIter)
      BY <1>8 DEF InsertAtIterator
    <2> DEFINE iter == IF op = "insert1" THEN it ELSE NoIter
    <2> DEFINE ts == Characters!Text(src)
               fault == Characters!Fault(src)
               arg == ustring(src)
               result == std_replace(b, p, 0, arg)
    <2>2. Yields(arg, fault, ts) /\ fault = "none"
      BY <1>6
    <2>3. ts \in Texts
      BY <2>2 DEF Yields
    <2>4. Yields(result, fault, Characters!Splice(cs, k, 0, ts))
      <3> HIDE DEF ts, fault, arg, cs, b, p
      <3> QED  BY <1>5, <2>2
    <2>5. EditAt(op, src, result, iter)
      BY <2>1
    <2>6. (op = "insert1" /\ iter = it) \/ (op = "insertn" /\ iter = NoIter)
      <3>1. op = "insert1" \/ op = "insertn"
        OBVIOUS
      <3>2. "insertn" # "insert1"
        OBVIOUS
      <3> QED  BY <3>1, <3>2
    <2> HIDE DEF ts, fault, arg, result, iter
    <2> QED  BY <1>1, <1>3, <1>4, <2>2, <2>3, <2>4, <2>5, <2>6, EditAtStep DEF ts, fault
  <1>9. CASE EraseAtIterator
    <2> DEFINE ts == Characters!Text(NoText)
               fault == Characters!Fault(NoText)
               arg == ok(<<>>)
    <2>1. Yields(arg, fault, ts) /\ fault = "none" /\ ts \in Texts /\ ts = <<>>
      BY <1>6, <1>7
    <2> HIDE DEF ts, fault, arg
    <2>2. CASE p < Len(b) /\ EditAt("erase1", NoText, std_replace(b, p, Increment(b, p) - p, arg), it)
      <3> DEFINE result == std_replace(b, p, Increment(b, p) - p, arg)
      <3>1. k < Len(cs)
        BY <1>2, <1>3, <2>2, OffsetOrder
      <3>2. Yields(result, fault, Characters!Splice(cs, k, 1, ts))
        BY <1>5, <2>1, <3>1
      <3>3. EditAt("erase1", NoText, result, it)
        BY <2>2
      <3> HIDE DEF result
      <3> QED  BY <1>1, <1>3, <1>4, <2>1, <3>2, <3>3, EditAtStep DEF ts, fault
    <2>3. CASE EditAt("erase_from", NoText, std_replace(b, p, Len(b) - p, arg), it)
      <3> DEFINE result == std_replace(b, p, Len(b) - p, arg)
      <3>1. Yields(result, fault, Characters!Splice(cs, k, npos, ts))
        BY <1>5, <2>1
      <3>2. EditAt("erase_from", NoText, result, it)
        BY <2>3
      <3> HIDE DEF result
      <3> QED  BY <1>1, <1>3, <1>4, <2>1, <3>1, <3>2, EditAtStep DEF ts, fault
    <2>4. CASE EditAt("erase_to", NoText, std_replace(b, 0, p, arg), [pos |-> 0])
      <3> DEFINE result == std_replace(b, 0, p, arg)
                 iter == [pos |-> 0]
      <3>1. Yields(result, fault, Characters!Splice(cs, 0, k, ts))
        BY <1>5, <2>1
      <3>2. EditAt("erase_to", NoText, result, iter)
        BY <2>4
      <3> HIDE DEF result, iter
      <3> QED  BY <1>1, <1>3, <1>4, <2>1, <3>1, <3>2, EditAtStep DEF ts, fault, iter
    <2> QED  BY <1>9, <2>2, <2>3, <2>4 DEF EraseAtIterator, arg
  <1>10. CASE ReplaceAtIterator
    <2>1. PICK src \in Whole \cup Cstr \cup CstrN \cup Many \cup Pairs :
            \/ EditAt("replace_from", src, std_replace(b, p, Len(b) - p, ustring(src)), NoIter)
            \/ EditAt("replace_to", src, std_replace(b, 0, p, ustring(src)), NoIter)
      BY <1>10 DEF ReplaceAtIterator
    <2> DEFINE ts == Characters!Text(src)
               fault == Characters!Fault(src)
               arg == ustring(src)
    <2>2. Yields(arg, fault, ts)
      BY <1>6
    <2>3. ts \in Texts
      BY ReplacementText
    <2> HIDE DEF ts, fault, arg
    <2>4. CASE EditAt("replace_from", src, std_replace(b, p, Len(b) - p, arg), NoIter)
      <3> DEFINE result == std_replace(b, p, Len(b) - p, arg)
      <3>1. Yields(result, fault, Characters!Splice(cs, k, npos, ts))
        BY <1>5, <2>2
      <3>2. EditAt("replace_from", src, result, NoIter)
        BY <2>4
      <3> HIDE DEF result
      <3> QED  BY <1>1, <1>3, <1>4, <2>2, <2>3, <3>1, <3>2, EditAtStep DEF ts, fault
    <2>5. CASE EditAt("replace_to", src, std_replace(b, 0, p, arg), NoIter)
      <3> DEFINE result == std_replace(b, 0, p, arg)
      <3>1. Yields(result, fault, Characters!Splice(cs, 0, k, ts))
        BY <1>5, <2>2
      <3>2. EditAt("replace_to", src, result, NoIter)
        BY <2>5
      <3> HIDE DEF result
      <3> QED  BY <1>1, <1>3, <1>4, <2>2, <2>3, <3>1, <3>2, EditAtStep DEF ts, fault
    <2> QED  BY <2>1, <2>4, <2>5 DEF arg
  <1> QED  BY <1>8, <1>9, <1>10

-----------------------------------------------------------------------------
(* Calls that change nothing answer what module CharString says.             *)

QueryOps == {"find", "rfind", "find_first_of", "find_last_of", "find_first_not_of",
             "find_last_not_of", "find_char", "rfind_char", "find_first_not_char",
             "find_last_not_char", "at", "index", "sizes", "tests", "copy", "compare", "relations",
             "reversed_relations", "make_valid", "output", "compose", "uppercase", "sprintf",
             "sprintf_format"}

\* A call with the answer of the abstract specification is one of its steps.
LEMMA QueryStep ==
  ASSUME Inv, Idle, NEW c, NEW ret, Ask(c, ret), call'.op \in QueryOps, call'.ret = ret,
         Characters!Answer(call') = ret
  PROVE  Characters!Next
  <1>1. str' = str /\ it' = it /\ call = NoCall
    BY DEF Ask, Idle
  <1>2. CharsOf(str') = CharsOf(str) /\ IndexOf(str'.s, it') = IndexOf(str.s, it)
    BY <1>1
  <1>3. Characters!Query(call')
    BY <1>2 DEF Characters!Query, QueryOps, Characters!SetSearches, Characters!PlaceSearches
  <1>4. call'.op # "none"
    BY DEF QueryOps
  <1> QED  BY <1>1, <1>3, <1>4, Called

\* A call that answers for fewer characters than its arguments have.
LEMMA DepartStep ==
  ASSUME Inv, Idle, NEW c, NEW ret, Ask(c, ret), call'.op \in QueryOps,
         StopsAtNul(call') \/ MatchesOthers(call')
  PROVE  Departs
  <1>1. str' = str /\ it' = it /\ call = NoCall
    BY DEF Ask, Idle
  <1>2. CharsOf(str)' = CharsOf(str) /\ IndexOf(str.s, it)' = IndexOf(str.s, it)
    BY <1>1
  <1>3. call' # NoCall
    BY DEF QueryOps, NoCall
  <1> QED  BY <1>1, <1>2, <1>3 DEF Departs

\* at() and operator[] read the character of an index.
LEMMA IndexStep ==
  ASSUME Inv, Index
  PROVE  Characters!Next
  <1> DEFINE cs == CharsOf(str).s
             b == str.s
  <1>1. cs \in Texts /\ b = Encode(cs) /\ Len(cs) \in Nat /\ Len(Encode(cs)) < npos /\ Len(b) \in Nat /\ npos \in Nat
    BY TextOfS, EncodeBytes DEF npos
  <1>2. Idle
    BY DEF Index
  <1>3. ASSUME NEW i \in Positions,
               LET byte_offset == utf8_byte_offset(b, i)
               IN  Ask(Search("at", i, NoText), IF byte_offset < Len(b)
                                                THEN <<"char", g_utf8_get_char(b, byte_offset)>>
                                                ELSE <<"out_of_range">>)
        PROVE  Characters!Next
    <2> DEFINE p == utf8_byte_offset(b, i)
               ret == IF p < Len(b) THEN <<"char", g_utf8_get_char(b, p)>> ELSE <<"out_of_range">>
    <2>1. i \in Nat
      BY UstringAssumption
    <2>2. p = IF i <= Len(cs) THEN Offset(cs, i) ELSE npos
      BY <1>1, <2>1, ByteOffsetIs
    <2>3. ret = IF i < Len(cs) THEN <<"char", cs[i + 1]>> ELSE <<"out_of_range">>
      <3> HIDE DEF cs, b
      <3>1. CASE i < Len(cs)
        <4>1. i \in 0 .. Len(cs) - 1 /\ i <= Len(cs)
          BY <1>1, <2>1, <3>1
        <4>2. p = Offset(cs, i) /\ Offset(cs, i) < Len(b) /\ g_utf8_get_char(b, Offset(cs, i)) = cs[i + 1]
          <5>1. Offset(cs, i) \in 0 .. Len(Encode(cs)) - 1
            BY <1>1, <4>1, OffsetStep
          <5>2. p = Offset(cs, i)
            BY <2>2, <4>1
          <5>3. g_utf8_get_char(Encode(cs), Offset(cs, i)) = cs[i + 1]
            BY <1>1, <4>1, CharRead
          <5>4. Offset(cs, i) < Len(b)
            BY <1>1, <5>1
          <5> QED  BY <1>1, <5>2, <5>3, <5>4
        <4> QED  BY <3>1, <4>2
      <3>2. CASE i = Len(cs)
        <4>1. p = Len(b)
          BY <1>1, <2>2, <3>2, OffsetEnds
        <4> HIDE DEF p
        <4>2. ~(p < Len(b)) /\ ~(i < Len(cs))
          BY <1>1, <2>1, <3>2, <4>1
        <4> QED  BY <4>2
      <3>3. CASE i > Len(cs)
        <4>1. p = npos /\ ~(i < Len(cs))
          BY <1>1, <2>1, <2>2, <3>3
        <4> HIDE DEF p
        <4>2. ~(p < Len(b))
          BY <1>1, <4>1
        <4> QED  BY <4>1, <4>2
      <3> QED  BY <1>1, <2>1, <3>1, <3>2, <3>3
    <2>4. Ask(Search("at", i, NoText), ret)
      BY <1>3
    <2> HIDE DEF ret, b
    <2>5. call'.op = "at" /\ call'.i = i /\ call'.ret = ret
      BY <2>4 DEF Ask, Search
    <2>6. Characters!Answer(call') = ret
      BY <2>3, <2>5 DEF Characters!Answer, Characters!SetSearches, Characters!PlaceSearches
    <2>7. call'.op \in QueryOps
      BY <2>5 DEF QueryOps
    <2> QED  BY <1>2, <2>4, <2>5, <2>6, <2>7, QueryStep
  <1>4. ASSUME NEW i \in 0 .. size(b) - 1,
               LET pointer == CHOOSE p \in Steps(b) : g_utf8_pointer_to_offset(b, p) = i
               IN  Ask(Search("index", i, NoText), <<"char", g_utf8_get_char(b, pointer)>>)
        PROVE  Characters!Next
    <2> DEFINE pointer == CHOOSE p \in Steps(b) : g_utf8_pointer_to_offset(b, p) = i
               ret == <<"char", g_utf8_get_char(b, pointer)>>
    <2>1. size(b) = Len(cs)
      BY <1>1, SizeIs
    <2>2. i \in 0 .. Len(cs) - 1 /\ i \in 0 .. Len(cs)
      BY <1>1, <2>1
    <2>3. pointer = Offset(cs, i)
      <3>1. Steps(b) = {Offset(cs, k) : k \in 0 .. Len(cs) - 1}
        BY <1>1, StepsAre DEF Starts
      <3>2. \A k \in 0 .. Len(cs) - 1 : g_utf8_pointer_to_offset(b, Offset(cs, k)) = k
        <4> TAKE k \in 0 .. Len(cs) - 1
        <4>1. k \in 0 .. Len(cs)
          BY <1>1
        <4> QED  BY <1>1, <4>1, PointerToOffset
      <3> HIDE DEF cs, b
      <3>3. Offset(cs, i) \in Steps(b) /\ g_utf8_pointer_to_offset(b, Offset(cs, i)) = i
        BY <2>2, <3>1, <3>2
      <3>4. \A p \in Steps(b) : g_utf8_pointer_to_offset(b, p) = i => p = Offset(cs, i)
        BY <3>1, <3>2
      <3> QED  BY <3>3, <3>4
    <2> HIDE DEF pointer
    <2>4. ret = <<"char", cs[i + 1]>>
      <3>1. g_utf8_get_char(Encode(cs), Offset(cs, i)) = cs[i + 1]
        BY <1>1, <2>2, CharRead
      <3> HIDE DEF cs, b
      <3> QED  BY <1>1, <2>3, <3>1
    <2>5. Ask(Search("index", i, NoText), ret)
      BY <1>4 DEF pointer
    <2> HIDE DEF ret, b
    <2>6. call'.op = "index" /\ call'.i = i /\ call'.ret = ret
      BY <2>5 DEF Ask, Search
    <2>7. Characters!Answer(call') = ret
      BY <2>4, <2>6 DEF Characters!Answer, Characters!SetSearches, Characters!PlaceSearches
    <2>8. call'.op \in QueryOps
      BY <2>6 DEF QueryOps
    <2> QED  BY <1>2, <2>5, <2>6, <2>7, <2>8, QueryStep
  <1> QED  BY <1>3, <1>4 DEF Index

\* The bytes that characters take.
LEMMA WidthIs ==
  ASSUME NEW c \in Unicode
  PROVE  Characters!Width(c) = Len(g_unichar_to_utf8(c))
  <1>1. c \in Nat
    BY SMT DEF Unicode
  <1>2. CASE c < 128
    BY <1>2 DEF Characters!Width, g_unichar_to_utf8
  <1>3. CASE ~(c < 128) /\ c < 2048
    BY <1>3 DEF Characters!Width, g_unichar_to_utf8
  <1>4. CASE ~(c < 128) /\ ~(c < 2048) /\ c < 65536
    BY <1>4, SMT DEF Characters!Width, g_unichar_to_utf8
  <1>5. CASE ~(c < 128) /\ ~(c < 2048) /\ ~(c < 65536)
    BY <1>5, SMT DEF Characters!Width, g_unichar_to_utf8
  <1> QED  BY <1>2, <1>3, <1>4, <1>5

\* bytes() is the sum of the widths.
LEMMA BytesAre ==
  ASSUME NEW cs \in Texts
  PROVE  Characters!Bytes(cs) = Len(Encode(cs))
  <1> DEFINE n == Len(cs)
             Full(f) == f = [k \in 0 .. n |-> IF k = 0 THEN 0 ELSE f[k - 1] + Characters!Width(cs[k])]
             upto == CHOOSE f : Full(f)
             h == [k \in 0 .. n |-> Offset(cs, k)]
  <1>1. Characters!Bytes(cs) = upto[n]
    BY DEF Characters!Bytes
  <1>2. n \in Nat /\ Offset(cs, 0) = 0 /\ Offset(cs, n) = Len(Encode(cs))
    BY OffsetEnds DEF Texts
  <1>3. ASSUME NEW k \in 1 .. n
        PROVE  Offset(cs, k) = Offset(cs, k - 1) + Characters!Width(cs[k])
    <2>1. cs[k] \in Unicode /\ Offset(cs, k) = Offset(cs, k - 1) + Len(g_unichar_to_utf8(cs[k]))
      BY <1>3, CharacterOf
    <2> QED  BY <2>1, WidthIs
  <1> HIDE DEF n
  <1>4. Full(h)
    <2>1. ASSUME NEW k \in 0 .. n
          PROVE  h[k] = IF k = 0 THEN 0 ELSE h[k - 1] + Characters!Width(cs[k])
      <3>1. CASE k = 0
        BY <1>2, <3>1
      <3>2. CASE k # 0
        <4>1. k \in 1 .. n /\ k - 1 \in 0 .. n
          BY <1>2, <3>2
        <4> QED  BY <1>3, <3>2, <4>1
      <3> QED  BY <3>1, <3>2
    <2>2. h = [k \in 0 .. n |-> h[k]]
      OBVIOUS
    <2> HIDE DEF h
    <2> QED  BY <2>1, <2>2
  <1>5. Full(upto)
    <2> HIDE DEF Full, h
    <2> QED  BY <1>4
  <1> HIDE DEF upto
  <1>6. \A k \in 0 .. n : upto[k] = IF k = 0 THEN 0 ELSE upto[k - 1] + Characters!Width(cs[k])
    BY <1>5
  <1> DEFINE S == {k \in 0 .. n : upto[k] = Offset(cs, k)}
  <1>7. 0 \in S
    BY <1>2, <1>6
  <1>8. ASSUME NEW k \in 1 .. n, k - 1 \in S PROVE k \in S
    <2>1. k \in 0 .. n /\ k # 0 /\ upto[k - 1] = Offset(cs, k - 1)
      BY <1>2, <1>8
    <2>2. upto[k] = upto[k - 1] + Characters!Width(cs[k])
      BY <1>6, <2>1
    <2> QED  BY <1>3, <2>1, <2>2
  <1> HIDE DEF S
  <1>9. n \in S
    <2>1. \A k \in 0 .. n : k \in S
      BY <1>2, <1>7, <1>8, Induction
    <2> QED  BY <1>2, <2>1
  <1> QED  BY <1>1, <1>2, <1>9 DEF S

\* length(), size() and bytes()
LEMMA SizesStep ==
  ASSUME Inv, Sizes
  PROVE  Characters!Next
  <1> DEFINE cs == CharsOf(str).s
             ret == <<"nums", size(str.s), size(str.s), Len(str.s)>>
  <1>1. cs \in Texts /\ str.s = Encode(cs)
    BY TextOfS
  <1>2. size(str.s) = Len(cs) /\ Len(str.s) = Characters!Bytes(cs)
    BY <1>1, SizeIs, BytesAre
  <1>3. ret = <<"nums", Len(cs), Len(cs), Characters!Bytes(cs)>>
    BY <1>2
  <1>4. Idle /\ Ask([op |-> "sizes", ret |-> <<>>], ret)
    BY DEF Sizes
  <1> HIDE DEF ret
  <1>5. call'.op = "sizes" /\ call'.ret = ret
    BY <1>4 DEF Ask
  <1>6. Characters!Answer(call') = ret
    BY <1>3, <1>5 DEF Characters!Answer, Characters!SetSearches, Characters!PlaceSearches
  <1>7. call'.op \in QueryOps
    BY <1>5 DEF QueryOps
  <1> QED  BY <1>4, <1>5, <1>6, <1>7, QueryStep

\* A string is ASCII when its bytes are.
LEMMA AsciiIs ==
  ASSUME NEW cs \in Texts
  PROVE  is_ascii(Encode(cs)) = (\A k \in DOMAIN cs : cs[k] < 128)
  <1> DEFINE b == Encode(cs)
  <1>1. b \in Seq(Byte) /\ DOMAIN b = 1 .. Len(b) /\ cs \in Seq(Unicode) /\ DOMAIN cs = 1 .. Len(cs)
        /\ Len(cs) \in Nat /\ Len(b) \in Nat
    BY EncodeBytes DEF Texts
  <1>2. ASSUME NEW k \in 1 .. Len(cs)
        PROVE  /\ cs[k] \in Unicode /\ Len(g_unichar_to_utf8(cs[k])) >= 1
               /\ \A j \in 1 .. Len(g_unichar_to_utf8(cs[k])) :
                    /\ Offset(cs, k - 1) + j \in 1 .. Len(b)
                    /\ b[Offset(cs, k - 1) + j] = g_unichar_to_utf8(cs[k])[j]
    <2> DEFINE u == g_unichar_to_utf8(cs[k])
    <2>1. /\ cs[k] \in Unicode /\ OneCharacter(u) /\ Offset(cs, k - 1) \in Nat
          /\ Offset(cs, k) = Offset(cs, k - 1) + Len(u) /\ Offset(cs, k) <= Len(b)
          /\ \A j \in 1 .. Len(u) : b[Offset(cs, k - 1) + j] = u[j]
      BY <1>2, CharacterOf
    <2>2. Len(u) \in 1 .. 4
      BY <2>1 DEF OneCharacter
    <2> HIDE DEF u, b
    <2>3. \A j \in 1 .. Len(u) : Offset(cs, k - 1) + j \in 1 .. Len(b)
      BY <1>1, <2>1, <2>2
    <2>4. Len(u) >= 1
      BY <2>2
    <2> QED  BY <2>1, <2>3, <2>4 DEF u, b
  <1>3. ASSUME is_ascii(b), NEW k \in 1 .. Len(cs) PROVE cs[k] < 128
    <2> SUFFICES ASSUME ~(cs[k] < 128) PROVE FALSE
      OBVIOUS
    <2>1. cs[k] \in Unicode /\ cs[k] \in Nat /\ 1 \in 1 .. Len(g_unichar_to_utf8(cs[k]))
      <3>1. cs[k] \in Unicode /\ Len(g_unichar_to_utf8(cs[k])) >= 1
        BY <1>2, <1>3
      <3>2. Len(g_unichar_to_utf8(cs[k])) \in 1 .. 4
        BY <3>1, CharacterEncoded DEF OneCharacter
      <3> QED  BY <3>1, <3>2 DEF Unicode
    <2>2. g_unichar_to_utf8(cs[k])[1] >= 128
      BY <2>1, AsciiBytes
    <2>3. Offset(cs, k - 1) + 1 \in 1 .. Len(b) /\ b[Offset(cs, k - 1) + 1] = g_unichar_to_utf8(cs[k])[1]
      BY <1>2, <1>3, <2>1
    <2> DEFINE x == b[Offset(cs, k - 1) + 1]
    <2>4. x < 128 /\ x \in Byte
      BY <1>1, <1>3, <2>3 DEF is_ascii
    <2>5. x >= 128
      BY <2>2, <2>3
    <2> HIDE DEF x
    <2> QED  BY <2>4, <2>5 DEF Byte
  <1>4. ASSUME \A k \in 1 .. Len(cs) : cs[k] < 128, NEW q \in 1 .. Len(b) PROVE b[q] < 128
    <2>1. PICK k \in 1 .. Len(cs) : \E j \in 1 .. Len(g_unichar_to_utf8(cs[k])) : q = Offset(cs, k - 1) + j
      BY <1>4, Locate
    <2>2. PICK j \in 1 .. Len(g_unichar_to_utf8(cs[k])) : q = Offset(cs, k - 1) + j
      BY <2>1
    <2>3. cs[k] \in Unicode /\ b[q] = g_unichar_to_utf8(cs[k])[j]
      BY <1>2, <2>2
    <2>4. g_unichar_to_utf8(cs[k]) = <<cs[k]>>
      BY <1>4, <2>3, AsciiBytes
    <2>5. j = 1 /\ g_unichar_to_utf8(cs[k])[1] = cs[k]
      BY <2>2, <2>4
    <2> QED  BY <1>4, <2>3, <2>5
  <1> QED  BY <1>1, <1>3, <1>4 DEF is_ascii

\* empty() and is_ascii()
LEMMA TestsStep ==
  ASSUME Inv, Tests
  PROVE  Characters!Next
  <1> DEFINE cs == CharsOf(str).s
             ret == <<"bools", Len(str.s) = 0, is_ascii(str.s)>>
  <1>1. cs \in Texts /\ str.s = Encode(cs) /\ Len(cs) \in Nat /\ Len(str.s) \in Nat
    BY TextOfS, EncodeBytes
  <1>2. is_ascii(str.s) = (\A k \in DOMAIN cs : cs[k] < 128)
    BY <1>1, AsciiIs
  <1>3. (Len(str.s) = 0) = (cs = <<>>)
    <2>1. 0 \in 0 .. Len(cs) /\ Len(cs) \in 0 .. Len(cs) /\ Offset(cs, 0) = 0 /\ Offset(cs, Len(cs)) = Len(str.s)
      BY <1>1, OffsetEnds
    <2>2. 0 = Len(cs) <=> Offset(cs, 0) = Offset(cs, Len(cs))
      BY <1>1, <2>1, OffsetOrder
    <2>3. Len(cs) = 0 <=> cs = <<>>
      BY <1>1, EmptySeq DEF Texts
    <2> HIDE DEF cs
    <2> QED  BY <2>1, <2>2, <2>3
  <1>4. ret = <<"bools", cs = <<>>, \A k \in DOMAIN cs : cs[k] < 128>>
    BY <1>2, <1>3
  <1>5. Idle /\ Ask([op |-> "tests", ret |-> <<>>], ret)
    BY DEF Tests
  <1> HIDE DEF ret
  <1>6. call'.op = "tests" /\ call'.ret = ret
    BY <1>5 DEF Ask
  <1>7. Characters!Answer(call') = ret
    <2>1. Characters!Answer(call') = Characters!Properties
      BY <1>6 DEF Characters!Answer, Characters!SetSearches, Characters!PlaceSearches
    <2>2. Characters!Properties = <<"bools", cs = <<>>, \A k \in DOMAIN cs : cs[k] < 128>>
      BY DEF Characters!Properties
    <2> QED  BY <1>4, <2>1, <2>2
  <1>8. call'.op \in QueryOps
    BY <1>6 DEF QueryOps
  <1> QED  BY <1>5, <1>6, <1>7, <1>8, QueryStep

\* copy() is given characters and returns bytes.
LEMMA CopyStep ==
  ASSUME Inv, Copy
  PROVE  Characters!Next
  <1> DEFINE cs == CharsOf(str).s
  <1>1. cs \in Texts /\ str.s = Encode(cs) /\ Len(Encode(cs)) < npos /\ Len(cs) \in Nat
    BY TextOfS
  <1>2. PICK i \in Positions, n \in Counts :
          LET bounds == Utf8SubstrBounds(str.s, i, n)
              copied == std_sub(str.s, bounds.i, bounds.n)
          IN  Ask(Edit("copy", i, n, NoText),
                  IF copied.err = "none" THEN <<"num", Len(copied.b)>> ELSE <<copied.err>>)
    BY DEF Copy
  <1>3. Idle /\ i \in Nat /\ n \in Nat
    BY UstringAssumption DEF Copy
  <1> DEFINE bounds == Utf8SubstrBounds(str.s, i, n)
             copied == std_sub(str.s, bounds.i, bounds.n)
             fault == IF i > Len(cs) THEN "out_of_range" ELSE "none"
             mid == Characters!Mid(cs, i, n)
             ret == IF copied.err = "none" THEN <<"num", Len(copied.b)>> ELSE <<copied.err>>
  <1>4. Yields(copied, fault, mid)
    BY <1>1, <1>3, SubYields
  <1>5. Ask(Edit("copy", i, n, NoText), ret)
    BY <1>2
  <1> HIDE DEF copied, mid
  <1>6. ret = IF i > Len(cs) THEN <<"out_of_range">> ELSE <<"num", Characters!Bytes(mid)>>
    <2>1. CASE i > Len(cs)
      BY <1>4, <2>1 DEF Yields
    <2>2. CASE ~(i > Len(cs))
      <3>1. copied.err = "none" /\ mid \in Texts /\ copied.b = Encode(mid)
        BY <1>4, <2>2 DEF Yields
      <3>2. Len(copied.b) = Characters!Bytes(mid)
        BY <3>1, BytesAre
      <3> QED  BY <2>2, <3>1, <3>2
    <2> QED  BY <2>1, <2>2
  <1> HIDE DEF ret
  <1>7. call'.op = "copy" /\ call'.i = i /\ call'.n = n /\ call'.ret = ret
    BY <1>5 DEF Ask, Edit
  <1>8. Characters!Answer(call') = ret
    BY <1>6, <1>7 DEF Characters!Answer, Characters!SetSearches, Characters!PlaceSearches, mid
  <1>9. call'.op \in QueryOps
    BY <1>7 DEF QueryOps
  <1> QED  BY <1>3, <1>5, <1>7, <1>8, <1>9, QueryStep

-----------------------------------------------------------------------------
(* Texts that are read character by character.                               *)

\* Putting characters in front of what follows, from place to place.
Readable(b, W, stop, char) ==
  /\ Len(b) \in Nat /\ \A p \in 0 .. Len(b) + 4 : char[p] \in W
  /\ \A p \in 0 .. Len(b) + 4 : p >= Len(b) => p \in stop
Reads(f, b, W, stop, char) ==
  /\ f \in [0 .. Len(b) + 4 -> Seq(W)]
  /\ \A p \in 0 .. Len(b) + 4 :
       f[p] = IF p \in stop THEN <<>> ELSE <<char[p]>> \o f[p + g_utf8_skip(b[p + 1])]

\* There is such a function.
LEMMA PrependRecursion ==
  ASSUME NEW b, NEW W, NEW stop, NEW char, Readable(b, W, stop, char)
  PROVE  \E f : Reads(f, b, W, stop, char)
  <1>0. /\ Len(b) \in Nat /\ \A p \in 0 .. Len(b) + 4 : char[p] \in W
        /\ \A p \in 0 .. Len(b) + 4 : p >= Len(b) => p \in stop
    BY DEF Readable
  <1> DEFINE N == Len(b) + 4
             V == Seq(W)
             base == [p \in 0 .. N |-> <<>>]
             next == [p \in 0 .. N |-> p + g_utf8_skip(b[p + 1])]
             step == [p \in 0 .. N |-> [x \in V |-> <<char[p]>> \o x]]
  <1>1. N \in Nat /\ <<>> \in V
    BY <1>0
  <1>2. /\ \A p \in 0 .. N : base[p] = <<>>
        /\ \A p \in 0 .. N : next[p] = p + g_utf8_skip(b[p + 1])
        /\ \A p \in 0 .. N : \A x \in V : step[p][x] = <<char[p]>> \o x
    OBVIOUS
  <1> HIDE DEF base, next, step
  <1>3. ASSUME NEW p \in 0 .. N, p \notin stop PROVE next[p] \in p + 1 .. N
    <2> DEFINE skip == g_utf8_skip(b[p + 1])
    <2>1. skip \in 1 .. 4 /\ ~(p >= Len(b)) /\ next[p] = p + skip
      BY <1>0, <1>2, <1>3, Skips
    <2> HIDE DEF skip
    <2> QED  BY <1>0, <2>1
  <1>4. ASSUME NEW p \in 0 .. N, NEW x \in V PROVE step[p][x] \in V
    <2>1. char[p] \in W
      BY <1>0
    <2>2. <<char[p]>> \o x \in V
      BY <2>1
    <2> QED  BY <1>2, <2>2
  <1>5. Forward(N, V, <<>>, stop, base, next, step)
    <2> HIDE DEF N, V
    <2> QED  BY <1>1, <1>2, <1>3, <1>4 DEF Forward
  <1>6. PICK f \in [0 .. N -> V] :
          \A p \in 0 .. N : f[p] = IF p \in stop THEN base[p] ELSE step[p][f[next[p]]]
    BY <1>5, ForwardRecursion DEF Solves
  <1>7. ASSUME NEW p \in 0 .. N
        PROVE  f[p] = IF p \in stop THEN <<>> ELSE <<char[p]>> \o f[p + g_utf8_skip(b[p + 1])]
    <2>1. CASE p \in stop
      BY <1>2, <1>6, <2>1
    <2>2. CASE p \notin stop
      <3>1. next[p] \in p + 1 .. N
        BY <1>3, <2>2
      <3>2. next[p] \in 0 .. N
        BY <3>1
      <3>3. f[p] = step[p][f[next[p]]] /\ f[next[p]] \in V
        BY <1>6, <2>2, <3>2
      <3> HIDE DEF N, V
      <3> QED  BY <1>2, <2>2, <3>3
    <2> QED  BY <2>1, <2>2
  <1> QED  BY <1>6, <1>7 DEF Reads

\* The characters put in front of each other are the text up to the last one.
LEMMA Gathered ==
  ASSUME NEW cs \in Texts, NEW m \in 0 .. Len(cs), NEW f, f[Offset(cs, m)] = <<>>,
         \A k \in 0 .. m - 1 : f[Offset(cs, k)] = <<cs[k + 1]>> \o f[Offset(cs, k + 1)]
  PROVE  f[0] = SubSeq(cs, 1, m)
  <1> DEFINE S == {n \in 0 .. m : f[Offset(cs, m - n)] = SubSeq(cs, m - n + 1, m)}
  <1>1. Len(cs) \in Nat /\ cs \in Seq(Unicode) /\ m \in Nat /\ m <= Len(cs)
    BY DEF Texts
  <1>2. 0 \in S
    <2>1. m - 0 = m /\ 0 \in 0 .. m
      BY <1>1
    <2>2. SubSeq(cs, m + 1, m) = <<>>
      BY <1>1, SubSeqEmpty
    <2> QED  BY <2>1, <2>2
  <1>3. ASSUME NEW n \in 1 .. m, n - 1 \in S PROVE n \in S
    <2> DEFINE k == m - n
    <2>1. k \in 0 .. m - 1 /\ m - (n - 1) = k + 1 /\ n \in 0 .. m /\ k \in Nat /\ k + 1 \in 1 .. Len(cs)
      BY <1>1
    <2>2. f[Offset(cs, k + 1)] = SubSeq(cs, (k + 1) + 1, m)
      BY <1>3, <2>1
    <2>3. <<cs[k + 1]>> \o SubSeq(cs, (k + 1) + 1, m) = SubSeq(cs, k + 1, m)
      <3>1. k + 1 \in 1 .. Len(cs) /\ m \in k + 1 .. Len(cs)
        BY <1>1, <2>1
      <3> HIDE DEF k
      <3> QED  BY <1>1, <3>1, SubSeqRecursiveFirst
    <2>4. f[Offset(cs, k)] = SubSeq(cs, k + 1, m)
      BY <2>1, <2>2, <2>3
    <2> QED  BY <2>1, <2>4
  <1> HIDE DEF S
  <1>4. m \in S
    <2>1. \A n \in 0 .. m : n \in S
      BY <1>1, <1>2, <1>3, Induction
    <2> QED  BY <1>1, <2>1
  <1>5. m - m = 0 /\ 0 + 1 = 1 /\ Offset(cs, 0) = 0
    BY <1>1, OffsetEnds
  <1> QED  BY <1>4, <1>5 DEF S

\* A loop over all characters reads them.
LEMMA ReadIs ==
  ASSUME NEW cs \in Texts
  PROVE  Read(Encode(cs)) = cs
  <1> DEFINE b == Encode(cs)
             N == Len(b) + 4
             char == [p \in 0 .. N |-> get_unichar_from_std_iterator(b, p)]
             W == {char[p] : p \in 0 .. N}
             stop == {p \in 0 .. N : p >= Len(b)}
             Full(f) == f = [p \in 0 .. N |-> IF p >= Len(b) THEN <<>>
                                              ELSE <<get_unichar_from_std_iterator(b, p)>> \o f[Increment(b, p)]]
             from == CHOOSE f : Full(f)
  <1>1. Read(b) = from[0]
    BY DEF Read
  <1>2. Len(b) \in Nat /\ Len(cs) \in Nat /\ cs \in Seq(Unicode) /\ N \in Nat /\ 0 \in 0 .. N
    BY EncodeBytes DEF Texts
  <1>3. \E f : Full(f)
    <2>1. \A p \in 0 .. Len(b) + 4 : char[p] = get_unichar_from_std_iterator(b, p) /\ char[p] \in W
      OBVIOUS
    <2>2. \A p \in 0 .. Len(b) + 4 : p >= Len(b) <=> p \in stop
      OBVIOUS
    <2> HIDE DEF char, W, stop, b
    <2>3. Readable(b, W, stop, char)
      BY <1>2, <2>1, <2>2 DEF Readable
    <2>5. PICK f : Reads(f, b, W, stop, char)
      BY <2>3, PrependRecursion
    <2>4. \A p \in 0 .. N : f[p] = IF p >= Len(b) THEN <<>>
                                   ELSE <<get_unichar_from_std_iterator(b, p)>> \o f[Increment(b, p)]
      BY <2>1, <2>2, <2>5 DEF Increment, Reads
    <2>6. f \in [0 .. N -> Seq(W)]
      BY <2>5 DEF Reads
    <2> HIDE DEF N
    <2> QED  BY <2>4, <2>6
  <1>4. Full(from)
    <2> HIDE DEF Full
    <2> QED  BY <1>3
  <1> HIDE DEF from
  <1>5. \A p \in 0 .. N : from[p] = IF p >= Len(b) THEN <<>>
                                    ELSE <<get_unichar_from_std_iterator(b, p)>> \o from[Increment(b, p)]
    BY <1>4
  <1>6. from[Offset(cs, Len(cs))] = <<>>
    <2>1. Offset(cs, Len(cs)) = Len(b)
      BY OffsetEnds
    <2> HIDE DEF b
    <2>2. Len(b) \in 0 .. N /\ Len(b) >= Len(b)
      BY <1>2
    <2> QED  BY <1>5, <2>1, <2>2
  <1>7. ASSUME NEW k \in 0 .. Len(cs) - 1
        PROVE  from[Offset(cs, k)] = <<cs[k + 1]>> \o from[Offset(cs, k + 1)]
    <2> DEFINE p == Offset(cs, k)
    <2>1. p \in 0 .. Len(b) - 1 /\ Increment(b, p) = Offset(cs, k + 1)
      BY OffsetStep DEF Increment
    <2>2. get_unichar_from_std_iterator(b, p) = cs[k + 1]
      BY CharRead
    <2> HIDE DEF b, p
    <2>3. p \in 0 .. N /\ ~(p >= Len(b))
      BY <1>2, <2>1
    <2> HIDE DEF N
    <2>4. from[p] = <<cs[k + 1]>> \o from[Offset(cs, k + 1)]
      BY <1>5, <2>1, <2>2, <2>3
    <2> QED  BY <2>4 DEF p
  <1>8. Len(cs) \in 0 .. Len(cs)
    BY <1>2
  <1>9. from[0] = SubSeq(cs, 1, Len(cs))
    BY <1>6, <1>7, <1>8, Gathered
  <1>10. SubSeq(cs, 1, Len(cs)) = cs
    BY <1>2, SubSeqFull
  <1> QED  BY <1>1, <1>9, <1>10

\* The first byte tells an ASCII character, and NUL in particular, from others.
LEMMA FirstByte ==
  ASSUME NEW cs \in Texts, NEW k \in 0 .. Len(cs) - 1
  PROVE  /\ cs[k + 1] \in Unicode
         /\ cs[k + 1] < 128 => Encode(cs)[Offset(cs, k) + 1] = cs[k + 1]
         /\ cs[k + 1] >= 128 => Encode(cs)[Offset(cs, k) + 1] >= 128
  <1> DEFINE c == cs[k + 1]
             u == g_unichar_to_utf8(c)
  <1>1. Encode(cs)[Offset(cs, k) + 1] = u[1]
    BY OffsetStep
  <1>2. c \in Unicode
    BY DEF Texts
  <1>3. c < 128 => u = <<c>>
    BY <1>2, AsciiBytes
  <1>4. c >= 128 => \A j \in 1 .. Len(u) : u[j] >= 128
    BY <1>2, AsciiBytes
  <1>5. 1 \in 1 .. Len(u)
    <2>1. OneCharacter(u)
      BY <1>2, CharacterEncoded
    <2> QED  BY <2>1 DEF OneCharacter
  <1>6. c < 128 => u[1] = c
    <2> HIDE DEF u, c
    <2> QED  BY <1>3
  <1>7. c >= 128 => u[1] >= 128
    BY <1>4, <1>5
  <1> HIDE DEF u
  <1> QED  BY <1>1, <1>2, <1>6, <1>7

\* It is 0 for NUL alone.
LEMMA FirstByteZero ==
  ASSUME NEW cs \in Texts, NEW k \in 0 .. Len(cs) - 1
  PROVE  Encode(cs)[Offset(cs, k) + 1] = 0 <=> cs[k + 1] = 0
  <1> DEFINE c == cs[k + 1]
             x == Encode(cs)[Offset(cs, k) + 1]
  <1>1. c \in Unicode /\ (c < 128 => x = c) /\ (c >= 128 => x >= 128)
    BY FirstByte
  <1> HIDE DEF c, x
  <1>2. x = 0 <=> c = 0
    BY <1>1 DEF Unicode
  <1> QED  BY <1>2 DEF c, x

\* g_utf8_to_ucs4_fast() goes up to the first NUL or up to a number of bytes.
LEMMA Ucs4Is ==
  ASSUME NEW cs \in Texts, NEW len \in Int, NEW m \in 0 .. Len(cs),
         \A k \in 0 .. m - 1 : cs[k + 1] # 0 /\ (len < 0 \/ Offset(cs, k) < len),
         m < Len(cs) => cs[m + 1] = 0 \/ (len >= 0 /\ Offset(cs, m) >= len)
  PROVE  g_utf8_to_ucs4_fast(Encode(cs), len) = SubSeq(cs, 1, m)
  <1> DEFINE b == Encode(cs)
             N == Len(b) + 4
             char == [p \in 0 .. N |-> g_utf8_get_char(b, p)]
             W == {char[p] : p \in 0 .. N}
             Ends(p) == p >= Len(b) \/ (len >= 0 /\ p >= len)
             stop == {p \in 0 .. N : Ends(p) \/ b[p + 1] = 0}
             Full(f) == f = [p \in 0 .. N |-> IF p >= Len(b) \/ (len >= 0 /\ p >= len) THEN <<>>
                               ELSE IF b[p + 1] = 0 THEN <<>>
                               ELSE <<g_utf8_get_char(b, p)>> \o f[p + g_utf8_skip(b[p + 1])]]
             ucs4 == CHOOSE f : Full(f)
  <1>1. g_utf8_to_ucs4_fast(b, len) = ucs4[0]
    BY DEF g_utf8_to_ucs4_fast
  <1>2. Len(b) \in Nat /\ Len(cs) \in Nat /\ N \in Nat /\ 0 \in 0 .. N
    BY EncodeBytes DEF Texts
  <1>3. \E f : Full(f)
    <2>1. \A p \in 0 .. Len(b) + 4 : char[p] = g_utf8_get_char(b, p) /\ char[p] \in W
      OBVIOUS
    <2>2. \A p \in 0 .. Len(b) + 4 : (Ends(p) \/ b[p + 1] = 0) <=> p \in stop
      <3> HIDE DEF Ends
      <3> QED  OBVIOUS
    <2>3. \A p \in 0 .. Len(b) + 4 : p >= Len(b) => p \in stop
      BY <2>2
    <2> HIDE DEF char, W, stop, b, Ends
    <2>4. Readable(b, W, stop, char)
      BY <1>2, <2>1, <2>3 DEF Readable
    <2>5. PICK f : Reads(f, b, W, stop, char)
      BY <2>4, PrependRecursion
    <2>6. \A p \in 0 .. N : f[p] = IF Ends(p) THEN <<>>
                                   ELSE IF b[p + 1] = 0 THEN <<>>
                                   ELSE <<g_utf8_get_char(b, p)>> \o f[p + g_utf8_skip(b[p + 1])]
      BY <2>1, <2>2, <2>5 DEF Reads
    <2>7. f \in [0 .. N -> Seq(W)]
      BY <2>5 DEF Reads
    <2>8. f = [p \in 0 .. N |-> IF Ends(p) THEN <<>>
                                ELSE IF b[p + 1] = 0 THEN <<>>
                                ELSE <<g_utf8_get_char(b, p)>> \o f[p + g_utf8_skip(b[p + 1])]]
      <3> HIDE DEF N
      <3> QED  BY <2>6, <2>7
    <2> QED  BY <2>8 DEF Ends
  <1>4. Full(ucs4)
    <2> HIDE DEF Full
    <2> QED  BY <1>3
  <1> HIDE DEF ucs4
  <1>5. \A p \in 0 .. N : ucs4[p] = IF Ends(p) THEN <<>>
                                    ELSE IF b[p + 1] = 0 THEN <<>>
                                    ELSE <<g_utf8_get_char(b, p)>> \o ucs4[p + g_utf8_skip(b[p + 1])]
    BY <1>4
  <1> HIDE DEF Full, char, W, stop
  <1>6. ucs4[Offset(cs, m)] = <<>>
    <2> DEFINE p == Offset(cs, m)
    <2>1. CASE m < Len(cs)
      <3>1. m \in 0 .. Len(cs) - 1
        BY <1>2, <2>1
      <3>2. p \in 0 .. Len(b) - 1 /\ (b[p + 1] = 0 <=> cs[m + 1] = 0)
        BY <3>1, OffsetStep, FirstByteZero
      <3>3. b[p + 1] = 0 \/ Ends(p)
        BY <2>1, <3>2
      <3> HIDE DEF b, p, Ends
      <3>4. p \in 0 .. N
        BY <1>2, <3>2
      <3> HIDE DEF N
      <3>5. ucs4[p] = <<>>
        BY <1>5, <3>3, <3>4
      <3> QED  BY <3>5 DEF p
    <2>2. CASE ~(m < Len(cs))
      <3>1. m = Len(cs)
        BY <1>2, <2>2
      <3>2. p = Len(b)
        BY <3>1, OffsetEnds
      <3> HIDE DEF b, p
      <3>3. p \in 0 .. N /\ Ends(p)
        BY <1>2, <3>2
      <3> HIDE DEF N, Ends
      <3>4. ucs4[p] = <<>>
        BY <1>5, <3>3
      <3> QED  BY <3>4 DEF p
    <2> QED  BY <2>1, <2>2
  <1>7. ASSUME NEW k \in 0 .. m - 1
        PROVE  ucs4[Offset(cs, k)] = <<cs[k + 1]>> \o ucs4[Offset(cs, k + 1)]
    <2> DEFINE p == Offset(cs, k)
    <2>0. k \in 0 .. Len(cs) - 1
      BY <1>2
    <2>1. p \in 0 .. Len(b) - 1 /\ p + g_utf8_skip(b[p + 1]) = Offset(cs, k + 1)
      BY <2>0, OffsetStep
    <2>2. g_utf8_get_char(b, p) = cs[k + 1] /\ b[p + 1] # 0
      BY <2>0, CharRead, FirstByteZero
    <2>3. len < 0 \/ p < len
      OBVIOUS
    <2> HIDE DEF b, p
    <2>4. p \in 0 .. N /\ ~Ends(p)
      BY <1>2, <2>1, <2>3
    <2> HIDE DEF N, Ends
    <2>5. ucs4[p] = <<cs[k + 1]>> \o ucs4[Offset(cs, k + 1)]
      BY <1>5, <2>1, <2>2, <2>4
    <2> QED  BY <2>5 DEF p
  <1>8. ucs4[0] = SubSeq(cs, 1, m)
    BY <1>6, <1>7, Gathered
  <1> QED  BY <1>1, <1>8

\* Without a number of bytes, or with that of the whole text.
LEMMA Ucs4Whole ==
  ASSUME NEW cs \in Texts, NEW len \in Int, len < 0 \/ len >= Len(Encode(cs))
  PROVE  g_utf8_to_ucs4_fast(Encode(cs), len) = Characters!UpToNul(cs)
  <1>1. PICK m \in 0 .. Len(cs) :
          /\ Characters!UpToNul(cs) = SubSeq(cs, 1, m)
          /\ \A k \in 1 .. m : cs[k] # 0
          /\ m = Len(cs) \/ cs[m + 1] = 0
    BY UpToNulIs
  <1>2. Len(cs) \in Nat /\ Len(Encode(cs)) \in Nat
    BY EncodeBytes DEF Texts
  <1>3. ASSUME NEW k \in 0 .. m - 1
        PROVE  cs[k + 1] # 0 /\ (len < 0 \/ Offset(cs, k) < len)
    <2>1. k \in 0 .. Len(cs) - 1 /\ k + 1 \in 1 .. m
      BY <1>2
    <2>2. Offset(cs, k) \in 0 .. Len(Encode(cs)) - 1
      BY <2>1, OffsetStep
    <2> QED  BY <1>1, <1>2, <2>1, <2>2
  <1>4. m < Len(cs) => cs[m + 1] = 0
    BY <1>1, <1>2
  <1> QED  BY <1>1, <1>3, <1>4, Ucs4Is

\* The length of what a C string keeps; it has no NUL in it.
LEMMA UpToNulText ==
  ASSUME NEW cs \in Texts
  PROVE  /\ Characters!UpToNul(cs) \in Texts /\ 0 \notin Range(Characters!UpToNul(cs))
         /\ Characters!UpToNul(Characters!UpToNul(cs)) = Characters!UpToNul(cs)
         /\ \A k \in DOMAIN Characters!UpToNul(cs) : k \in DOMAIN cs /\ Characters!UpToNul(cs)[k] = cs[k]
  <1> DEFINE us == Characters!UpToNul(cs)
  <1>1. PICK m \in 0 .. Len(cs) :
          /\ us = SubSeq(cs, 1, m) /\ us \in Texts /\ Len(us) = m
          /\ \A k \in 1 .. m : cs[k] # 0
    BY UpToNulIs
  <1>2. Len(cs) \in Nat /\ cs \in Seq(Unicode)
    BY DEF Texts
  <1> HIDE DEF us
  <1>3. \A k \in 1 .. m : us[k] = cs[k] /\ k \in 1 .. Len(cs)
    BY <1>1, <1>2
  <1>4. DOMAIN us = 1 .. m /\ DOMAIN cs = 1 .. Len(cs)
    BY <1>1, <1>2 DEF Texts
  <1>5. 0 \notin Range(us)
    BY <1>1, <1>3, <1>4 DEF Range
  <1>6. Characters!UpToNul(us) = us
    BY <1>1, <1>5, CStringWhole
  <1> QED  BY <1>1, <1>3, <1>4, <1>5, <1>6 DEF us

\* Strings and C strings cause no exception.
LEMMA PlainText ==
  ASSUME Inv, NEW src \in Whole \cup Cstr
  PROVE  /\ Characters!Text(src) \in Texts /\ ustring(src).b = Encode(Characters!Text(src))
         /\ Characters!Fault(src) = "none" /\ ustring(src).err = "none"
  <1>1. GoodStrings(str)
    BY DEF Inv
  <1>2. Characters!Fault(src) = "none"
    BY DEF Characters!Fault, Whole, Cstr
  <1>3. Yields(ustring(src), Characters!Fault(src), Characters!Text(src))
    BY <1>1, SourceYields DEF Sources
  <1> QED  BY <1>2, <1>3 DEF Yields

\* What is not a character of the string is converted by neither.
LEMMA SameConvertible ==
  ASSUME NEW c, NEW text, NEW wide, c.wide = wide
  PROVE  Characters!Convertible(c, text) <=> Convertible(text, wide)
  <1>1. Characters!Range(text) = Range(text)
    BY DEF Characters!Range, Range
  <1> QED  BY <1>1 DEF Characters!Convertible, Convertible

\* operator<<()
LEMMA OutputStep ==
  ASSUME Inv, Output \/ OutputWide
  PROVE  Characters!Next
  <1> DEFINE cs == CharsOf(str).s
  <1>1. cs \in Texts /\ str.s = Encode(cs) /\ Len(str.s) \in Nat
    BY TextOfS, EncodeBytes
  <1>2. g_utf8_to_ucs4_fast(str.s, Len(str.s)) = cs
    <2>1. 0 \notin Range(str.s)
      BY DEF Output, OutputWide
    <2>2. g_utf8_validate(Encode(cs)).ok = (0 \notin Range(cs))
      BY <1>1, ValidateIs
    <2>3. g_utf8_validate(Encode(cs)).ok = (0 \notin Range(Encode(cs)))
      BY DEF g_utf8_validate
    <2> HIDE DEF cs
    <2>4. 0 \notin Range(cs)
      BY <1>1, <2>1, <2>2, <2>3
    <2>5. Characters!UpToNul(cs) = cs
      BY <1>1, <2>4, CStringWhole
    <2>6. Len(str.s) \in Int /\ Len(str.s) >= Len(Encode(cs))
      BY <1>1
    <2> QED  BY <1>1, <2>5, <2>6, Ucs4Whole
  <1> HIDE DEF cs
  <1>3. PICK wide \in BOOLEAN : Ask([op |-> "output", wide |-> wide, ret |-> <<>>], Printed(cs, wide))
    BY <1>2 DEF Output, OutputWide
  <1> DEFINE ret == Printed(cs, wide)
  <1>4. Idle /\ Ask([op |-> "output", wide |-> wide, ret |-> <<>>], ret)
    BY <1>3 DEF Output, OutputWide
  <1> HIDE DEF ret
  <1>5. call'.op = "output" /\ call'.wide = wide /\ call'.ret = ret
    BY <1>4 DEF Ask
  <1>6. Characters!Convertible(call', cs) <=> Convertible(cs, wide)
    BY <1>5, SameConvertible
  <1>7. Characters!Answer(call') = IF Characters!Convertible(call', cs) THEN <<"text", cs>> ELSE <<"ConvertError">>
    BY <1>5 DEF Characters!Answer, Characters!SetSearches, Characters!PlaceSearches, cs
  <1>8. Characters!Answer(call') = ret
    BY <1>6, <1>7 DEF ret, Printed
  <1>9. call'.op \in QueryOps
    BY <1>5 DEF QueryOps
  <1> QED  BY <1>4, <1>5, <1>8, <1>9, QueryStep

\* uppercase() is of what a C string keeps, character by character.
LEMMA UppercaseStep ==
  ASSUME Inv, Uppercase
  PROVE  Allowed
  <1> DEFINE cs == CharsOf(str).s
             us == Characters!UpToNul(cs)
             Upper(c) == CASE c \in 97 .. 122 -> c - 32 [] c \in 224 .. 254 \ {247} -> c - 32 [] OTHER -> c
             up == [k \in DOMAIN us |-> Upper(us[k])]
             text == Read(convert_return_gchar_ptr_to_ustring(g_utf8_strup(str.s)))
             ret == <<"text", text>>
  <1>1. cs \in Texts /\ str.s = Encode(cs)
    BY TextOfS
  <1>2. us \in Texts /\ 0 \notin Range(us) /\ \A k \in DOMAIN us : us[k] = cs[k]
    BY <1>1, UpToNulText
  <1>3. Read(c_str(str.s)) = us
    BY <1>1, <1>2, CStringIs, ReadIs
  <1>4. g_utf8_strup(str.s) = Encode(up)
    BY <1>3 DEF g_utf8_strup
  <1>5. ASSUME NEW c \in Unicode
        PROVE  Upper(c) = Characters!Capital(c) /\ Upper(c) \in Unicode /\ (c # 0 => Upper(c) # 0)
    <2>1. Upper(c) = IF c \in 97 .. 122 \cup (224 .. 254 \ {247}) THEN c - 32 ELSE c
      OBVIOUS
    <2> HIDE DEF Upper
    <2>2. c \in 97 .. 122 \cup (224 .. 254 \ {247}) => c - 32 \in Unicode /\ c - 32 # 0
      BY DEF Unicode
    <2> QED  BY <2>1, <2>2 DEF Characters!Capital
  <1>6. up \in Texts /\ 0 \notin Range(up)
    <2> HIDE DEF Upper, us
    <2>1. us \in Seq(Unicode) /\ DOMAIN us = 1 .. Len(us) /\ Len(us) \in Nat
      BY <1>2 DEF Texts
    <2>2. \A k \in 1 .. Len(us) : us[k] \in Unicode /\ us[k] # 0
      BY <1>2, <2>1 DEF Range
    <2>3. \A k \in 1 .. Len(us) : Upper(us[k]) \in Unicode /\ Upper(us[k]) # 0
      BY <1>5, <2>2
    <2>4. up \in Seq(Unicode) /\ DOMAIN up = 1 .. Len(us)
      BY <2>1, <2>3
    <2>5. \A k \in 1 .. Len(us) : up[k] # 0
      BY <2>1, <2>3
    <2> HIDE DEF up
    <2> QED  BY <2>4, <2>5 DEF Range, Texts
  <1>7. text = up
    <2> HIDE DEF up
    <2>1. c_str(Encode(up)) = Encode(up)
      BY <1>6, CStringIs, CStringWhole
    <2> QED  BY <1>4, <1>6, <2>1, ReadIs DEF convert_return_gchar_ptr_to_ustring
  <1>8. up = [k \in DOMAIN us |-> Characters!Capital(cs[k])]
    <2>1. \A k \in DOMAIN us : us[k] \in Unicode
      BY <1>2 DEF Texts
    <2> HIDE DEF us, Upper
    <2>2. \A k \in DOMAIN us : Upper(us[k]) = Characters!Capital(cs[k])
      BY <1>2, <1>5, <2>1
    <2> QED  BY <2>2
  <1>9. Idle /\ Ask([op |-> "uppercase", ret |-> <<>>], ret)
    BY DEF Uppercase
  <1> HIDE DEF text
  <1>10. call'.op = "uppercase" /\ call'.ret = ret
    <2> HIDE DEF ret
    <2> QED  BY <1>9 DEF Ask
  <1> HIDE DEF up
  <1>11. ret = <<"text", [k \in DOMAIN us |-> Characters!Capital(cs[k])]>>
    BY <1>7, <1>8
  <1>12. call'.op \in QueryOps
    BY <1>10 DEF QueryOps
  <1> HIDE DEF ret
  <1>13. CASE HasNul(cs)
    <2>1. StopsAtNul(call')
      BY <1>10, <1>11, <1>13 DEF StopsAtNul, Ended
    <2> QED  BY <1>9, <1>12, <2>1, DepartStep DEF Allowed
  <1>14. CASE ~HasNul(cs)
    <2>1. us = cs
      BY <1>1, <1>14, EndedIs
    <2>2. Characters!Answer(call') = <<"text", [k \in DOMAIN cs |-> Characters!Capital(cs[k])]>>
      BY <1>10 DEF Characters!Answer, Characters!SetSearches, Characters!PlaceSearches
    <2>3. Characters!Answer(call') = ret
      BY <1>11, <2>1, <2>2
    <2> QED  BY <1>9, <1>10, <1>12, <2>3, QueryStep DEF Allowed
  <1> QED  BY <1>13, <1>14

\* sprintf() of two strings, which go as C strings, and of a format alone.
LEMMA SprintfStep ==
  ASSUME Inv, Sprintf
  PROVE  Characters!Next
  <1>1. Idle
    BY DEF Sprintf
  <1>2. ASSUME NEW arg1 \in Whole \cup Cstr, NEW arg2 \in Whole \cup Cstr,
               Ask([op |-> "sprintf", src |-> arg1, src2 |-> arg2, ret |-> <<>>],
                   <<"text", Read(g_strdup_printf(sprintify(arg1), sprintify(arg2)))>>)
        PROVE  Characters!Next
    <2> DEFINE x == Characters!UpToNul(Characters!Text(arg1))
               y == Characters!UpToNul(Characters!Text(arg2))
               ret == <<"text", Read(g_strdup_printf(sprintify(arg1), sprintify(arg2)))>>
    <2>1. ASSUME NEW arg \in Whole \cup Cstr
          PROVE  /\ sprintify(arg) = Encode(Characters!UpToNul(Characters!Text(arg)))
                 /\ Characters!UpToNul(Characters!Text(arg)) \in Texts
      <3>1. Characters!Text(arg) \in Texts /\ ustring(arg).b = Encode(Characters!Text(arg))
        BY PlainText
      <3> QED  BY <3>1, CStringIs, UpToNulText DEF sprintify
    <2>2. x \in Texts /\ y \in Texts /\ sprintify(arg1) = Encode(x) /\ sprintify(arg2) = Encode(y)
      BY <2>1
    <2> HIDE DEF x, y
    <2>3. x \o y \in Texts /\ g_strdup_printf(sprintify(arg1), sprintify(arg2)) = Encode(x \o y)
      BY <2>2, EncodeConcat DEF g_strdup_printf, Texts
    <2>4. ret = <<"text", x \o y>>
      BY <2>3, ReadIs
    <2>5. Ask([op |-> "sprintf", src |-> arg1, src2 |-> arg2, ret |-> <<>>], ret)
      BY <1>2
    <2> HIDE DEF ret
    <2>6. call'.op = "sprintf" /\ call'.src = arg1 /\ call'.src2 = arg2 /\ call'.ret = ret
      BY <2>5 DEF Ask
    <2>7. Characters!Answer(call') = ret
      BY <2>4, <2>6 DEF Characters!Answer, Characters!SetSearches, Characters!PlaceSearches, x, y
    <2>8. call'.op \in QueryOps
      BY <2>6 DEF QueryOps
    <2> QED  BY <1>1, <2>5, <2>6, <2>7, <2>8, QueryStep
  <1>3. ASSUME NEW fmt \in Whole \cup [k : {"cstr"}, s : {f \in Formats : 0 \notin Range(f)}],
               Ask([op |-> "sprintf_format", src |-> fmt, ret |-> <<>>], <<"text", Read(ustring(fmt).b)>>)
        PROVE  Characters!Next
    <2> DEFINE x == Characters!Text(fmt)
               ret == <<"text", Read(ustring(fmt).b)>>
    <2>1. x \in Texts /\ ustring(fmt).b = Encode(x)
      <3>1. CASE fmt \in Whole
        BY <3>1, PlainText
      <3>2. CASE fmt \in [k : {"cstr"}, s : {f \in Formats : 0 \notin Range(f)}]
        <4>1. fmt.k = "cstr" /\ fmt.s \in Formats
          BY <3>2
        <4>2. x = fmt.s /\ ustring(fmt).b = Encode(fmt.s)
          BY <4>1 DEF Characters!Text, ustring, ok
        <4>3. fmt.s \in Texts
          BY <4>1, UstringAssumption DEF Texts
        <4> QED  BY <4>2, <4>3
      <3> QED  BY <3>1, <3>2
    <2> HIDE DEF x
    <2>2. ret = <<"text", x>>
      BY <2>1, ReadIs
    <2>3. Ask([op |-> "sprintf_format", src |-> fmt, ret |-> <<>>], ret)
      BY <1>3
    <2> HIDE DEF ret
    <2>4. call'.op = "sprintf_format" /\ call'.src = fmt /\ call'.ret = ret
      BY <2>3 DEF Ask
    <2>5. Characters!Answer(call') = ret
      BY <2>2, <2>4 DEF Characters!Answer, Characters!SetSearches, Characters!PlaceSearches, x
    <2>6. call'.op \in QueryOps
      BY <2>4 DEF QueryOps
    <2> QED  BY <1>1, <2>3, <2>4, <2>5, <2>6, QueryStep
  <1> QED  BY <1>2, <1>3 DEF Sprintf

\* make_valid() replaces byte by byte.
Replacement(x) == IF x = 0 THEN g_unichar_to_utf8(65533) ELSE <<x>>

\* g_utf8_make_valid() byte by byte.
LEMMA MakeValidStepwise ==
  ASSUME NEW b \in Seq(Byte)
  PROVE  \E f \in [0 .. Len(b) -> Seq(Byte)] :
           /\ f[0] = <<>> /\ g_utf8_make_valid(b) = f[Len(b)]
           /\ \A k \in 1 .. Len(b) : f[k] = f[k - 1] \o Replacement(b[k])
  <1> DEFINE n == Len(b)
             V == Seq(Byte)
             Step(x, k) == x \o Replacement(b[k])
             step == [k \in 1 .. n |-> [x \in V |-> Step(x, k)]]
             Round(f) == f = [k \in 0 .. n |-> IF k = 0 THEN <<>> ELSE Step(f[k - 1], k)]
             upto == CHOOSE f : Round(f)
  <1>1. g_utf8_make_valid(b) = upto[n]
    BY DEF g_utf8_make_valid, Replacement
  <1>2. n \in Nat /\ \A k \in 1 .. n : b[k] \in Byte
    OBVIOUS
  <1> HIDE DEF n
  <1>3. ASSUME NEW k \in 1 .. n, NEW x \in V
        PROVE  step[k][x] = Step(x, k) /\ step[k][x] \in V
    <2>1. g_unichar_to_utf8(65533) \in V
      <3>1. 65533 \in Unicode
        BY DEF Unicode
      <3> QED  BY <3>1, CharacterEncoded DEF OneCharacter
    <2>2. Replacement(b[k]) \in V
      BY <1>2, <2>1 DEF Replacement
    <2>3. Step(x, k) \in V
      BY <2>2
    <2> HIDE DEF Step, V
    <2> QED  BY <2>3
  <1> HIDE DEF step, Step
  <1>4. <<>> \in V
    OBVIOUS
  <1> HIDE DEF V
  <1>5. PICK f : Computes(f, n, V, <<>>, step)
    <2>1. IsRecursion(n, V, <<>>, step)
      BY <1>2, <1>3, <1>4 DEF IsRecursion
    <2> QED  BY <2>1, Recursion
  <1>6. \A k \in 1 .. n : f[k] = Step(f[k - 1], k)
    <2> TAKE k \in 1 .. n
    <2>1. k - 1 \in 0 .. n /\ f[k - 1] \in V
      BY <1>2, <1>5 DEF Computes
    <2> QED  BY <1>3, <1>5, <2>1 DEF Computes
  <1>7. Round(f)
    <2>1. ASSUME NEW k \in 0 .. n
          PROVE  f[k] = IF k = 0 THEN <<>> ELSE Step(f[k - 1], k)
      <3>1. k # 0 => k \in 1 .. n
        BY <1>2
      <3> QED  BY <1>5, <1>6, <3>1 DEF Computes
    <2> QED  BY <1>5, <2>1 DEF Computes
  <1>8. Round(upto)
    <2> HIDE DEF Round
    <2> QED  BY <1>7
  <1> HIDE DEF upto
  <1>9. \A k \in 0 .. n : upto[k] = IF k = 0 THEN <<>> ELSE Step(upto[k - 1], k)
    BY <1>8
  <1>10. \A k \in 0 .. n : upto[k] = f[k]
    <2> DEFINE S == {k \in 0 .. n : upto[k] = f[k]}
    <2>1. 0 \in S
      BY <1>2, <1>5, <1>9 DEF Computes
    <2>2. ASSUME NEW k \in 1 .. n, k - 1 \in S PROVE k \in S
      <3>1. k \in 0 .. n /\ k # 0
        BY <1>2
      <3> QED  BY <1>6, <1>9, <2>2, <3>1
    <2> HIDE DEF S
    <2>3. \A k \in 1 .. n : k - 1 \in S => k \in S
      BY <2>2
    <2>4. \A k \in 0 .. n : k \in S
      BY <1>2, <2>1, <2>3, Induction
    <2> QED  BY <2>4 DEF S
  <1>11. n \in 0 .. n
    BY <1>2
  <1> QED  BY <1>1, <1>5, <1>6, <1>10, <1>11 DEF n, V, Step, Computes

\* Three sequences of bytes joined in either order.
LEMMA Regrouped ==
  ASSUME NEW x \in Seq(Byte), NEW y \in Seq(Byte), NEW z \in Seq(Byte)
  PROVE  (x \o y) \o z = x \o (y \o z)
  BY ConcatAssociative

\* Bytes that are not NUL stay.
Replaces(f, q, u, b) ==
  /\ \A j \in 1 .. Len(u) : u[j] # 0
  /\ \A j \in 1 .. Len(u) : b[q + j] = u[j]
  /\ \A j \in 1 .. Len(u) : f[q + j] = f[(q + j) - 1] \o Replacement(b[q + j])

\* Bytes that are not 0 are kept.
LEMMA BytesKept ==
  ASSUME NEW f, NEW q \in Nat, NEW u \in Seq(Byte), NEW b, f[q] \in Seq(Byte), Replaces(f, q, u, b)
  PROVE  f[q + Len(u)] = f[q] \o u
  <1> DEFINE n == Len(u)
             S == {j \in 0 .. n : f[q + j] = f[q] \o SubSeq(u, 1, j)}
  <1>1. n \in Nat
    OBVIOUS
  <1>2. 0 \in S
    <2>1. q + 0 = q /\ SubSeq(u, 1, 0) = <<>> /\ f[q] \o <<>> = f[q] /\ 0 \in 0 .. n
      BY <1>1
    <2> QED  BY <2>1
  <1>3. ASSUME NEW j \in 1 .. n, j - 1 \in S PROVE j \in S
    <2>1. j \in 0 .. n /\ (q + j) - 1 = q + (j - 1) /\ j - 1 \in 0 .. n /\ j \in 1 .. Len(u) /\ 1 \in 1 .. Len(u)
      BY <1>1
    <2>2. f[q + j] = f[q + (j - 1)] \o Replacement(u[j])
      BY <2>1 DEF Replaces
    <2>3. Replacement(u[j]) = <<u[j]>>
      BY <2>1 DEF Replacement, Replaces
    <2>4. f[q + (j - 1)] = f[q] \o SubSeq(u, 1, j - 1)
      BY <1>3
    <2>5. SubSeq(u, 1, j) = SubSeq(u, 1, j - 1) \o <<u[j]>>
      BY <2>1, SubSeqRecursiveSecond
    <2>6. SubSeq(u, 1, j - 1) \in Seq(Byte) /\ <<u[j]>> \in Seq(Byte)
      <3>1. \A i \in 1 .. j - 1 : i \in 1 .. Len(u)
        BY <2>1
      <3> QED  BY <2>1, <3>1
    <2> DEFINE x == SubSeq(u, 1, j - 1)
               y == <<u[j]>>
               z == f[q]
    <2>9. x \in Seq(Byte) /\ y \in Seq(Byte) /\ z \in Seq(Byte)
      BY <2>6
    <2> HIDE DEF x, y, z, n, S
    <2>7. (z \o x) \o y = z \o (x \o y)
      BY <2>9, Regrouped, ZenonT(40)
    <2>8. f[q + j] = f[q] \o SubSeq(u, 1, j)
      BY <2>2, <2>3, <2>4, <2>5, <2>7 DEF x, y, z
    <2> QED  BY <2>1, <2>8 DEF S
  <1> HIDE DEF S
  <1>4. n \in S
    <2>1. \A j \in 0 .. n : j \in S
      BY <1>1, <1>2, <1>3, Induction
    <2> QED  BY <1>1, <2>1
  <1>5. SubSeq(u, 1, Len(u)) = u
    BY SubSeqFull
  <1> QED  BY <1>4, <1>5 DEF S

\* What a text is prolonged with.
LEMMA EncodePrefix ==
  ASSUME NEW cs \in Texts, NEW k \in 1 .. Len(cs)
  PROVE  Encode(SubSeq(cs, 1, k)) = Encode(SubSeq(cs, 1, k - 1)) \o g_unichar_to_utf8(cs[k])
  <1>1. cs \in Seq(Unicode) /\ Len(cs) \in Nat /\ 1 \in 1 .. Len(cs) /\ k \in 1 .. Len(cs)
    BY DEF Texts
  <1>2. SubSeq(cs, 1, k) = SubSeq(cs, 1, k - 1) \o <<cs[k]>>
    BY <1>1, SubSeqRecursiveSecond
  <1>3. cs[k] \in Unicode /\ <<cs[k]>> \in Texts /\ SubSeq(cs, 1, k - 1) \in Texts
    <2>1. \A i \in 1 .. k - 1 : i \in 1 .. Len(cs)
      BY <1>1
    <2> QED  BY <1>1, <2>1 DEF Texts
  <1> QED  BY <1>2, <1>3, EncodeConcat, OneEncoded

\* make_valid() replaces character by character: those that are NUL.
LEMMA MakeValidIs ==
  ASSUME NEW cs \in Texts
  PROVE  LET valid == [k \in DOMAIN cs |-> IF cs[k] = 0 THEN 65533 ELSE cs[k]]
         IN  valid \in Texts /\ g_utf8_make_valid(Encode(cs)) = Encode(valid)
  <1> DEFINE valid == [k \in DOMAIN cs |-> IF cs[k] = 0 THEN 65533 ELSE cs[k]]
             b == Encode(cs)
             L == Len(cs)
  <1>1. cs \in Seq(Unicode) /\ L \in Nat /\ DOMAIN cs = 1 .. L /\ b \in Seq(Byte) /\ Len(b) \in Nat
    BY EncodeBytes DEF Texts
  <1>2. valid \in Texts /\ Len(valid) = L /\ \A k \in 1 .. L : valid[k] = IF cs[k] = 0 THEN 65533 ELSE cs[k]
    <2>1. \A k \in 1 .. L : cs[k] \in Unicode /\ 65533 \in Unicode
      BY <1>1 DEF Unicode
    <2> QED  BY <1>1, <2>1 DEF Texts
  <1> HIDE DEF valid
  <1>3. PICK f \in [0 .. Len(b) -> Seq(Byte)] :
           /\ f[0] = <<>> /\ g_utf8_make_valid(b) = f[Len(b)]
           /\ \A k \in 1 .. Len(b) : f[k] = f[k - 1] \o Replacement(b[k])
    BY <1>1, MakeValidStepwise
  <1> DEFINE S == {k \in 0 .. L : f[Offset(cs, k)] = Encode(SubSeq(valid, 1, k))}
  <1>4. 0 \in S
    <2>1. Offset(cs, 0) = 0 /\ SubSeq(valid, 1, 0) = <<>> /\ 0 \in 0 .. L
      BY <1>1, <1>2, OffsetEnds DEF Texts
    <2> QED  BY <1>3, <2>1, EncodeEmpty
  <1>5. ASSUME NEW k \in 1 .. L, k - 1 \in S PROVE k \in S
    <2> DEFINE q == Offset(cs, k - 1)
               u == g_unichar_to_utf8(cs[k])
    <2>1. /\ cs[k] \in Unicode /\ OneCharacter(u) /\ q \in Nat /\ Offset(cs, k) = q + Len(u)
          /\ Offset(cs, k) <= Len(b) /\ \A j \in 1 .. Len(u) : b[q + j] = u[j]
      BY CharacterOf
    <2>2. f[q] = Encode(SubSeq(valid, 1, k - 1)) /\ k \in 0 .. L
      BY <1>5
    <2>3. Encode(SubSeq(valid, 1, k)) = Encode(SubSeq(valid, 1, k - 1)) \o g_unichar_to_utf8(valid[k])
      BY <1>2, EncodePrefix
    <2>4. u \in Seq(Byte) /\ Len(u) \in Nat
      BY <2>1 DEF OneCharacter
    <2> HIDE DEF b, q
    <2>5. \A j \in 1 .. Len(u) : q + j \in 1 .. Len(b)
      <3> HIDE DEF u
      <3> QED  BY <1>1, <2>1, <2>4
    <2>6. CASE cs[k] = 0
      <3>1. u = <<0>> /\ Len(u) = 1
        BY <2>1, <2>6, AsciiBytes
      <3>2. b[q + 1] = 0 /\ q + 1 \in 1 .. Len(b) /\ (q + 1) - 1 = q
        BY <2>1, <2>5, <3>1
      <3>3. f[q + 1] = f[q] \o Replacement(0)
        BY <1>3, <3>2
      <3>4. Replacement(0) = g_unichar_to_utf8(valid[k])
        BY <1>2, <2>6 DEF Replacement
      <3>5. f[Offset(cs, k)] = Encode(SubSeq(valid, 1, k))
        BY <2>1, <2>2, <2>3, <3>1, <3>3, <3>4
      <3> QED  BY <2>2, <3>5
    <2>7. CASE cs[k] # 0
      <3>1. \A j \in 1 .. Len(u) : u[j] # 0
        <4>1. CASE cs[k] < 128
          <5>1. u = <<cs[k]>>
            BY <2>1, <4>1, AsciiBytes
          <5> HIDE DEF u
          <5> QED  BY <2>7, <5>1
        <4>2. CASE ~(cs[k] < 128)
          <5>1. cs[k] >= 128
            BY <2>1, <4>2 DEF Unicode
          <5>2. \A j \in 1 .. Len(u) : u[j] >= 128
            BY <2>1, <5>1, AsciiBytes
          <5> HIDE DEF u
          <5> QED  BY <5>2
        <4> QED  BY <4>1, <4>2
      <3>2. \A j \in 1 .. Len(u) : f[q + j] = f[(q + j) - 1] \o Replacement(b[q + j])
        BY <1>3, <2>5
      <3>3. f[q] \in Seq(Byte)
        <4>1. SubSeq(valid, 1, k - 1) \in Texts
          <5>1. valid \in Seq(Unicode) /\ \A i \in 1 .. k - 1 : i \in 1 .. Len(valid)
            BY <1>1, <1>2 DEF Texts
          <5> QED  BY <5>1 DEF Texts
        <4> QED  BY <2>2, <4>1, EncodeBytes
      <3> HIDE DEF u
      <3>7. Replaces(f, q, u, b)
        BY <2>1, <3>1, <3>2 DEF Replaces
      <3>8. q \in Nat /\ u \in Seq(Byte)
        BY <2>1, <2>4
      <3>4. f[q + Len(u)] = f[q] \o u
        BY <3>3, <3>7, <3>8, BytesKept
      <3>5. g_unichar_to_utf8(valid[k]) = u
        BY <1>2, <2>7 DEF u
      <3>6. f[Offset(cs, k)] = Encode(SubSeq(valid, 1, k))
        BY <2>1, <2>2, <2>3, <3>4, <3>5
      <3> QED  BY <2>2, <3>6
    <2> QED  BY <2>6, <2>7
  <1> HIDE DEF S
  <1>6. L \in S
    <2>1. \A k \in 0 .. L : k \in S
      BY <1>1, <1>4, <1>5, Induction
    <2> QED  BY <1>1, <2>1
  <1>7. Offset(cs, L) = Len(b) /\ SubSeq(valid, 1, L) = valid
    BY <1>2, OffsetEnds, SubSeqFull DEF Texts
  <1>8. g_utf8_make_valid(b) = Encode(valid)
    BY <1>3, <1>6, <1>7 DEF S
  <1> QED  BY <1>2, <1>8 DEF valid

\* make_valid()
LEMMA MakeValidStep ==
  ASSUME Inv, MakeValid
  PROVE  Allowed
  <1> DEFINE cs == CharsOf(str).s
             valid == [k \in DOMAIN cs |-> IF cs[k] = 0 THEN 65533 ELSE cs[k]]
             ret == <<"text", Read(g_utf8_make_valid(str.s))>>
  <1>1. cs \in Texts /\ str.s = Encode(cs)
    BY TextOfS
  <1>2. valid \in Texts /\ g_utf8_make_valid(Encode(cs)) = Encode(valid)
    BY <1>1, MakeValidIs
  <1> HIDE DEF valid
  <1>3. ret = <<"text", valid>>
    BY <1>1, <1>2, ReadIs
  <1>4. Idle /\ Ask([op |-> "make_valid", ret |-> <<>>], ret)
    BY DEF MakeValid
  <1> HIDE DEF ret
  <1>5. call'.op = "make_valid" /\ call'.ret = ret
    BY <1>4 DEF Ask
  <1>6. call'.op \in QueryOps
    BY <1>5 DEF QueryOps
  <1>7. CASE HasNul(cs)
    <2>1. StopsAtNul(call')
      BY <1>3, <1>5, <1>7 DEF StopsAtNul, valid
    <2> QED  BY <1>4, <1>6, <2>1, DepartStep DEF Allowed
  <1>8. CASE ~HasNul(cs)
    <2>1. valid = cs
      <3>1. cs = [k \in DOMAIN cs |-> cs[k]]
        BY <1>1 DEF Texts
      <3>2. \A k \in DOMAIN cs : cs[k] # 0
        BY <1>8 DEF HasNul, Range
      <3> HIDE DEF cs
      <3> QED  BY <3>1, <3>2 DEF valid
    <2>2. Characters!Answer(call') = <<"text", cs>>
      BY <1>5 DEF Characters!Answer, Characters!SetSearches, Characters!PlaceSearches
    <2>3. Characters!Answer(call') = ret
      BY <1>3, <2>1, <2>2
    <2> QED  BY <1>4, <1>5, <1>6, <2>3, QueryStep DEF Allowed
  <1> QED  BY <1>7, <1>8

-----------------------------------------------------------------------------
(* Searches.                                                                 *)

\* The greatest of some numbers up to n.
LEMMA Highest ==
  ASSUME NEW n \in Nat, NEW T, T \subseteq 0 .. n, T # {}
  PROVE  \E x \in T : \A y \in T : y <= x
  <1> DEFINE R == {n - x : x \in T}
  <1>1. R \subseteq Nat /\ R # {}
    <2>1. \A x \in T : n - x \in Nat
      OBVIOUS
    <2> QED  BY <2>1
  <1>2. PICK r \in R : \A s \in R : r <= s
    <2> HIDE DEF R
    <2> QED  BY <1>1, Least
  <1>3. PICK x \in T : r = n - x
    OBVIOUS
  <1>4. ASSUME NEW y \in T PROVE y <= x
    <2>1. n - y \in R
      OBVIOUS
    <2>2. r <= n - y
      BY <1>2, <2>1
    <2>3. x \in 0 .. n /\ y \in 0 .. n
      OBVIOUS
    <2> HIDE DEF R
    <2> QED  BY <1>3, <2>2, <2>3
  <1> QED  BY <1>4

\* The index of the character at an offset.
LEMMA CharOffset ==
  ASSUME NEW cs \in Texts, Len(Encode(cs)) < npos, NEW k \in 0 .. Len(cs)
  PROVE  utf8_char_offset(Encode(cs), Offset(cs, k)) = <<"num", k>>
  <1>1. Offset(cs, k) \in 0 .. Len(Encode(cs)) /\ Len(Encode(cs)) \in Nat
    BY OffsetOrder, EncodeBytes
  <1>2. Offset(cs, k) # npos
    BY <1>1 DEF npos
  <1> QED  BY <1>2, PointerToOffset DEF utf8_char_offset

\* Places in the bytes are those in the characters, or are all of them: an
\* empty text is everywhere.
SamePlaces(cs, S, P) ==
  /\ S \subseteq 0 .. Len(cs) /\ P \subseteq 0 .. Len(Encode(cs))
  /\ \A k \in S : Offset(cs, k) \in P
  /\ S = 0 .. Len(cs) \/ \A p \in P : \E k \in S : p = Offset(cs, k)

LeastFrom(P, p) == LET H == {x \in P : x >= p} IN IF H = {} THEN npos ELSE Min(H)
GreatestTo(P, p) == LET H == {x \in P : x <= p} IN IF H = {} THEN npos ELSE Max(H)

\* The first place from a character on is the least index from it on.
LEMMA LeastFound ==
  ASSUME NEW cs \in Texts, Len(Encode(cs)) < npos, NEW S, NEW P, SamePlaces(cs, S, P), NEW i \in Nat
  PROVE  utf8_char_offset(Encode(cs), LeastFrom(P, utf8_byte_offset(Encode(cs), i)))
           = Characters!Least({k \in S : k >= i})
  <1> DEFINE b == Encode(cs)
             start == utf8_byte_offset(b, i)
             H == {p \in P : p >= start}
             T == {k \in S : k >= i}
             found == IF H = {} THEN npos ELSE Min(H)
  <1>1. Len(cs) \in Nat /\ Len(b) \in Nat /\ Len(b) < npos /\ npos \in Nat
    BY EncodeBytes DEF Texts, npos
  <1>2. start = IF i <= Len(cs) THEN Offset(cs, i) ELSE npos
    BY ByteOffsetIs
  <1>3. /\ S \subseteq 0 .. Len(cs) /\ P \subseteq 0 .. Len(b)
        /\ \A k \in S : Offset(cs, k) \in P
        /\ S = 0 .. Len(cs) \/ \A p \in P : \E k \in S : p = Offset(cs, k)
    BY DEF SamePlaces
  <1>8. S \subseteq 0 .. Len(cs) /\ P \subseteq 0 .. Len(b)
    BY <1>3
  <1>9. (\A k \in 0 .. Len(cs) : k \in Nat /\ k \in Int) /\ \A p \in 0 .. Len(b) : p \in Int
    OBVIOUS
  <1>4. \A j, k \in 0 .. Len(cs) : Offset(cs, j) \in 0 .. Len(b) /\ (j < k <=> Offset(cs, j) < Offset(cs, k))
    BY OffsetOrder
  <1>5. utf8_char_offset(b, npos) = <<"npos">>
    BY DEF utf8_char_offset
  <1>10. LeastFrom(P, start) = found
    BY DEF LeastFrom
  <1> HIDE DEF b, start
  <1>6. CASE i > Len(cs)
    <2>1. start = npos
      BY <1>1, <1>2, <1>6
    <2>2. H = {} /\ T = {}
      <3>1. \A p \in 0 .. Len(b) : ~(p >= start)
        BY <1>1, <2>1
      <3>2. \A k \in 0 .. Len(cs) : ~(k >= i)
        BY <1>1, <1>6
      <3> QED  BY <1>8, <3>1, <3>2
    <2> QED  BY <1>5, <1>10, <2>2 DEF Characters!Least, b, start
  <1>7. CASE i <= Len(cs)
    <2>1. start = Offset(cs, i) /\ i \in 0 .. Len(cs)
      BY <1>1, <1>2, <1>7
    <2>2. CASE T = {}
      <3>1. ~(S = 0 .. Len(cs))
        BY <2>1, <2>2
      <3>2. ASSUME NEW p \in H PROVE FALSE
        <4>1. PICK k \in S : p = Offset(cs, k)
          BY <1>3, <3>1
        <4>2. k < i
          BY <1>1, <1>3, <2>1, <2>2
        <4>3. Offset(cs, k) < Offset(cs, i) /\ Offset(cs, k) \in 0 .. Len(b) /\ Offset(cs, i) \in 0 .. Len(b)
          BY <1>3, <1>4, <2>1, <4>2
        <4> QED  BY <2>1, <4>1, <4>3
      <3> QED  BY <1>5, <1>10, <2>2, <3>2 DEF Characters!Least, b, start
    <2>3. CASE T # {}
      <3>1. PICK k \in T : \A j \in T : k <= j
        <4>1. T \subseteq Nat
          BY <1>8, <1>9
        <4> HIDE DEF T
        <4> QED  BY <2>3, <4>1, Least
      <3>2. k \in 0 .. Len(cs) /\ k \in S /\ k >= i
        BY <1>3
      <3>3. Offset(cs, k) \in H
        <4>1. ~(k < i)
          BY <2>1, <3>2
        <4>2. ~(Offset(cs, k) < Offset(cs, i)) /\ Offset(cs, k) \in 0 .. Len(b) /\ Offset(cs, i) \in 0 .. Len(b)
          BY <1>4, <2>1, <3>2, <4>1
        <4> QED  BY <1>3, <2>1, <3>2, <4>2
      <3>4. ASSUME NEW p \in H PROVE Offset(cs, k) <= p
        <4>1. CASE S = 0 .. Len(cs)
          <5>1. i \in T
            BY <2>1, <4>1
          <5>2. k = i
            BY <2>1, <3>1, <3>2, <5>1
          <5>3. p >= start /\ p \in Nat /\ start \in Nat
            BY <1>3, <1>4, <2>1
          <5> QED  BY <2>1, <5>2, <5>3
        <4>2. CASE ~(S = 0 .. Len(cs))
          <5>1. PICK j \in S : p = Offset(cs, j)
            BY <1>3, <4>2
          <5>2. j \in 0 .. Len(cs) /\ Offset(cs, j) >= Offset(cs, i)
            BY <1>3, <2>1, <5>1
          <5>3. ~(j < i)
            BY <1>4, <2>1, <5>2
          <5>4. j \in T
            BY <2>1, <5>2, <5>3
          <5>5. ~(j < k)
            BY <3>1, <3>2, <5>2, <5>4
          <5>6. ~(Offset(cs, j) < Offset(cs, k)) /\ Offset(cs, j) \in 0 .. Len(b) /\ Offset(cs, k) \in 0 .. Len(b)
            BY <1>4, <3>2, <5>2, <5>5
          <5> QED  BY <5>1, <5>6
        <4> QED  BY <4>1, <4>2
      <3>5. H \subseteq Int /\ T \subseteq Int
        BY <1>8, <1>9
      <3> HIDE DEF H, T
      <3>6. Min(H) = Offset(cs, k)
        BY <3>3, <3>4, <3>5, MinIs
      <3>7. Characters!Min(T) = k
        BY <3>1, <3>5, MinIs
      <3>8. H # {}
        BY <3>3
      <3>9. found = Offset(cs, k)
        BY <3>6, <3>8
      <3>10. utf8_char_offset(b, Offset(cs, k)) = <<"num", k>>
        BY <3>2, CharOffset DEF b
      <3>11. Characters!Least(T) = <<"num", k>>
        BY <2>3, <3>7 DEF Characters!Least
      <3> HIDE DEF found
      <3>12. utf8_char_offset(b, found) = Characters!Least(T)
        BY <3>9, <3>10, <3>11
      <3>13. LeastFrom(P, start) = found
        BY <1>10 DEF found, H
      <3> QED  BY <3>12, <3>13 DEF T, b, start
    <2> QED  BY <2>2, <2>3
  <1> QED  BY <1>1, <1>6, <1>7

\* The last place up to a character is the greatest index up to it.
LEMMA GreatestFound ==
  ASSUME NEW cs \in Texts, Len(Encode(cs)) < npos, NEW S, NEW P, SamePlaces(cs, S, P), NEW i \in Nat
  PROVE  utf8_char_offset(Encode(cs), GreatestTo(P, utf8_byte_offset(Encode(cs), i)))
           = Characters!Greatest({k \in S : k <= i})
  <1> DEFINE b == Encode(cs)
             start == utf8_byte_offset(b, i)
             H == {p \in P : p <= start}
             T == {k \in S : k <= i}
             found == IF H = {} THEN npos ELSE Max(H)
             top == IF i <= Len(cs) THEN i ELSE Len(cs)
  <1>1. Len(cs) \in Nat /\ Len(b) \in Nat /\ Len(b) < npos /\ npos \in Nat
    BY EncodeBytes DEF Texts, npos
  <1>2. start = IF i <= Len(cs) THEN Offset(cs, i) ELSE npos
    BY ByteOffsetIs
  <1>3. /\ S \subseteq 0 .. Len(cs) /\ P \subseteq 0 .. Len(b)
        /\ \A k \in S : Offset(cs, k) \in P
        /\ S = 0 .. Len(cs) \/ \A p \in P : \E k \in S : p = Offset(cs, k)
    BY DEF SamePlaces
  <1>4. \A j, k \in 0 .. Len(cs) : Offset(cs, j) \in 0 .. Len(b) /\ (j < k <=> Offset(cs, j) < Offset(cs, k))
    BY OffsetOrder
  <1>5. utf8_char_offset(b, npos) = <<"npos">>
    BY DEF utf8_char_offset
  <1>6. S \subseteq 0 .. Len(cs) /\ P \subseteq 0 .. Len(b)
    BY <1>3
  <1>7. (\A k \in 0 .. Len(cs) : k \in Nat /\ k \in Int) /\ \A p \in 0 .. Len(b) : p \in Int
    OBVIOUS
  <1>8. Offset(cs, Len(cs)) = Len(b)
    BY OffsetEnds
  <1>15. GreatestTo(P, start) = found
    BY DEF GreatestTo
  <1> HIDE DEF b, start
  <1>9. /\ top \in 0 .. Len(cs) /\ \A k \in 0 .. Len(cs) : k <= i <=> k <= top
        /\ \A p \in 0 .. Len(b) : p <= start <=> p <= Offset(cs, top)
    <2>1. CASE i <= Len(cs)
      BY <1>1, <1>2, <2>1
    <2>2. CASE ~(i <= Len(cs))
      <3>1. top = Len(cs) /\ start = npos
        BY <1>2, <2>2
      <3>2. Offset(cs, top) = Len(b)
        BY <1>8, <3>1
      <3>3. \A p \in 0 .. Len(b) : p <= start /\ p <= Offset(cs, top)
        BY <1>1, <3>1, <3>2
      <3>4. \A k \in 0 .. Len(cs) : k <= i /\ k <= top
        BY <1>1, <2>2, <3>1
      <3> QED  BY <1>1, <3>1, <3>3, <3>4
    <2> QED  BY <2>1, <2>2
  <1> HIDE DEF top
  <1>10. H = {p \in P : p <= Offset(cs, top)} /\ T = {k \in S : k <= top}
    BY <1>6, <1>9
  <1> HIDE DEF H, T
  <1>11. \A p : p \in H <=> p \in P /\ p <= Offset(cs, top)
    BY <1>10
  <1>12. \A k : k \in T <=> k \in S /\ k <= top
    BY <1>10
  <1>13. CASE T = {}
    <2>1. ~(S = 0 .. Len(cs))
      BY <1>1, <1>9, <1>12, <1>13
    <2>2. ASSUME NEW p \in H PROVE FALSE
      <3>1. PICK k \in S : p = Offset(cs, k)
        BY <1>3, <1>11, <2>1
      <3>2. k \in 0 .. Len(cs) /\ ~(k <= top)
        BY <1>6, <1>12, <1>13
      <3>3. top < k
        BY <1>9, <3>2
      <3>4. Offset(cs, top) < Offset(cs, k) /\ Offset(cs, k) \in 0 .. Len(b) /\ Offset(cs, top) \in 0 .. Len(b)
        BY <1>4, <1>9, <3>2, <3>3
      <3>5. p <= Offset(cs, top)
        BY <1>11
      <3> QED  BY <3>1, <3>4, <3>5
    <2>3. H = {}
      BY <2>2
    <2> QED  BY <1>5, <1>13, <1>15, <2>3 DEF Characters!Greatest, T, b, start
  <1>14. CASE T # {}
    <2>1. PICK k \in T : \A j \in T : j <= k
      <3>1. T \subseteq 0 .. Len(cs)
        BY <1>6, <1>12
      <3> QED  BY <1>1, <1>14, <3>1, Highest
    <2>2. k \in 0 .. Len(cs) /\ k \in S /\ k <= top
      BY <1>6, <1>12
    <2>3. Offset(cs, k) \in H
      <3>1. ~(top < k)
        BY <1>9, <2>2
      <3>2. ~(Offset(cs, top) < Offset(cs, k)) /\ Offset(cs, k) \in 0 .. Len(b) /\ Offset(cs, top) \in 0 .. Len(b)
        BY <1>4, <1>9, <2>2, <3>1
      <3>3. Offset(cs, k) <= Offset(cs, top)
        BY <3>2
      <3> QED  BY <1>3, <1>11, <2>2, <3>3
    <2>4. ASSUME NEW p \in H PROVE p <= Offset(cs, k)
      <3>1. CASE S = 0 .. Len(cs)
        <4>1. top \in T
          BY <1>9, <1>12, <3>1
        <4>2. k = top
          BY <1>9, <2>1, <2>2, <4>1
        <4> QED  BY <1>11, <4>2
      <3>2. CASE ~(S = 0 .. Len(cs))
        <4>1. PICK j \in S : p = Offset(cs, j)
          BY <1>3, <1>11, <3>2
        <4>2. j \in 0 .. Len(cs) /\ Offset(cs, j) <= Offset(cs, top)
          BY <1>6, <1>11, <4>1
        <4>3. ~(top < j)
          <5>1. Offset(cs, j) \in 0 .. Len(b) /\ Offset(cs, top) \in 0 .. Len(b)
            BY <1>4, <1>9, <4>2
          <5>2. ~(Offset(cs, top) < Offset(cs, j))
            BY <4>2, <5>1
          <5> QED  BY <1>4, <1>9, <4>2, <5>2
        <4>4. j \in T
          BY <1>9, <1>12, <4>2, <4>3
        <4>5. ~(k < j)
          BY <2>1, <2>2, <4>2, <4>4
        <4>6. ~(Offset(cs, k) < Offset(cs, j)) /\ Offset(cs, j) \in 0 .. Len(b) /\ Offset(cs, k) \in 0 .. Len(b)
          BY <1>4, <2>2, <4>2, <4>5
        <4> QED  BY <4>1, <4>6
      <3> QED  BY <3>1, <3>2
    <2>5. H \subseteq Int /\ T \subseteq Int
      BY <1>6, <1>7, <1>11, <1>12
    <2>6. Max(H) = Offset(cs, k)
      BY <2>3, <2>4, <2>5, MaxIs
    <2>7. Characters!Max(T) = k
      BY <2>1, <2>5, MaxIs
    <2>8. H # {}
      BY <2>3
    <2>9. found = Offset(cs, k)
      BY <2>6, <2>8
    <2>10. utf8_char_offset(b, Offset(cs, k)) = <<"num", k>>
      BY <2>2, CharOffset DEF b
    <2>11. Characters!Greatest(T) = <<"num", k>>
      BY <1>14, <2>7 DEF Characters!Greatest
    <2> HIDE DEF found
    <2>12. utf8_char_offset(b, found) = Characters!Greatest(T)
      BY <2>9, <2>10, <2>11
    <2>13. GreatestTo(P, start) = found
      BY <1>15 DEF found
    <2> QED  BY <2>12, <2>13 DEF T, b, start
  <1> QED  BY <1>13, <1>14

TextPlaces(cs, ts) == {k \in 0 .. Len(cs) - Len(ts) : Characters!Mid(cs, k, Len(ts)) = ts}

\* The middle of a text from k on.
LEMMA MidWithin ==
  ASSUME NEW cs \in Texts, NEW n \in 0 .. Len(cs), NEW k \in 0 .. Len(cs) - n
  PROVE  /\ k \in 0 .. Len(cs) /\ k + n \in k .. Len(cs)
         /\ Characters!Mid(cs, k, n) = SubSeq(cs, k + 1, k + n)
  <1>1. Len(cs) \in Nat
    BY DEF Texts
  <1>2. k \in 0 .. Len(cs) /\ k + n \in k .. Len(cs) /\ n \in Nat
    BY <1>1
  <1>3. k + n <= Len(cs)
    BY <1>1
  <1>4. LET j == IF k + n <= Len(cs) THEN k + n ELSE Len(cs) IN
        /\ j \in k .. Len(cs) /\ Characters!Mid(cs, k, n) = SubSeq(cs, k + 1, j)
    BY <1>2, MidIs
  <1> QED  BY <1>2, <1>3, <1>4

\* A place in the characters is a place in the bytes.
LEMMA PlaceEncoded ==
  ASSUME NEW cs \in Texts, NEW ts \in Texts, NEW k \in TextPlaces(cs, ts)
  PROVE  Offset(cs, k) \in Places(Encode(cs), Encode(ts))
  <1> DEFINE b == Encode(cs)
             e == Encode(ts)
             n == Len(ts)
  <1>1. Len(cs) \in Nat /\ n \in Nat /\ Len(b) \in Nat /\ Len(e) \in Nat
    BY EncodeBytes DEF Texts
  <1>2. k \in 0 .. Len(cs) - n /\ Characters!Mid(cs, k, n) = ts
    BY DEF TextPlaces
  <1>3. n \in 0 .. Len(cs)
    BY <1>1, <1>2
  <1>4. k \in 0 .. Len(cs) /\ k + n \in k .. Len(cs) /\ SubSeq(cs, k + 1, k + n) = ts
    BY <1>2, <1>3, MidWithin
  <1>5. /\ Offset(cs, k) \in Nat /\ Offset(cs, k + n) = Offset(cs, k) + Len(Encode(SubSeq(cs, k + 1, k + n)))
        /\ Offset(cs, k + n) <= Len(b)
        /\ SubSeq(b, Offset(cs, k) + 1, Offset(cs, k + n)) = Encode(SubSeq(cs, k + 1, k + n))
    BY <1>4, SliceEncoded
  <1> HIDE DEF b
  <1>6. /\ Offset(cs, k + n) = Offset(cs, k) + Len(e)
        /\ SubSeq(b, Offset(cs, k) + 1, Offset(cs, k) + Len(e)) = e
    BY <1>4, <1>5
  <1> HIDE DEF e
  <1>7. Offset(cs, k) \in 0 .. Len(b) - Len(e)
    BY <1>1, <1>5, <1>6
  <1> QED  BY <1>6, <1>7 DEF Places, b, e

\* A place of a text in the bytes starts and ends where characters do.
LEMMA PlaceDecoded ==
  ASSUME NEW cs \in Texts, NEW ts \in Texts, ts # <<>>, NEW p \in Places(Encode(cs), Encode(ts))
  PROVE  \E k \in TextPlaces(cs, ts) : p = Offset(cs, k)
  <1> DEFINE b == Encode(cs)
             e == Encode(ts)
             n == Len(ts)
             u == g_unichar_to_utf8(ts[n])
             q == Offset(ts, n - 1)
  <1>1. Len(cs) \in Nat /\ n \in 1 .. n /\ n \in Nat /\ Len(b) \in Nat /\ Len(e) \in Nat /\ b \in Seq(Byte) /\ e \in Seq(Byte)
    <2>1. ts \in Seq(Unicode)
      BY DEF Texts
    <2>2. Len(ts) # 0
      BY <2>1, EmptySeq
    <2> QED  BY <2>1, <2>2, EncodeBytes DEF Texts
  <1>2. p \in 0 .. Len(b) - Len(e) /\ SubSeq(b, p + 1, p + Len(e)) = e
    BY DEF Places
  <1>3. ASSUME NEW j \in 1 .. Len(e) PROVE b[p + j] = e[j] /\ p + j \in 1 .. Len(b)
    <2> HIDE DEF b, e
    <2>1. SubSeq(b, p + 1, p + Len(e))[j] = b[(p + 1) + j - 1]
      BY <1>1, <1>2, SMTT(40)
    <2>2. (p + 1) + j - 1 = p + j /\ p + j \in 1 .. Len(b)
      BY <1>1, <1>2
    <2> QED  BY <1>2, <2>1, <2>2
  <1>4. /\ OneCharacter(u) /\ q \in Nat /\ Offset(ts, n) = q + Len(u)
        /\ \A j \in 1 .. Len(u) : e[q + j] = u[j]
    BY <1>1, CharacterOf
  <1>5. Len(e) = q + Len(u)
    BY <1>4, OffsetEnds
  <1>6. Len(u) \in 1 .. 4 /\ Len(u) = g_utf8_skip(u[1]) /\ ~IsContinuation(u[1])
    BY <1>4 DEF OneCharacter
  <1>7. ~IsContinuation(e[1])
    <2>1. Boundary(e, 0)
      BY EncodeGood DEF Good, Texts
    <2> HIDE DEF e, u
    <2>2. 0 < Len(e) /\ 0 + 1 = 1
      BY <1>1, <1>4, <1>5, <1>6
    <2> QED  BY <2>1, <2>2 DEF Boundary
  <1> HIDE DEF b, e, u, q, n
  <1>8. p \in Nat /\ 1 \in 1 .. Len(e) /\ q + 1 \in 1 .. Len(e)
    <2>1. p \in 0 .. Len(b) - Len(e) /\ Len(b) \in Nat /\ Len(e) \in Nat
      BY <1>1, <1>2
    <2>2. Len(e) = q + Len(u) /\ q \in Nat /\ Len(u) \in 1 .. 4
      BY <1>4, <1>5, <1>6
    <2>3. p \in Nat
      BY <2>1
    <2> DEFINE l == Len(u)
    <2> HIDE DEF l
    <2>4. Len(e) = q + l /\ q \in Nat /\ l \in 1 .. 4
      BY <2>2 DEF l
    <2>5. 1 \in 1 .. Len(e) /\ q + 1 \in 1 .. Len(e)
      BY <2>4
    <2> QED  BY <2>3, <2>5
  <1>9. Boundary(b, p)
    <2>1. b[p + 1] = e[1] /\ p + 1 \in 1 .. Len(b)
      BY <1>3, <1>8
    <2>2. p \in 0 .. Len(b)
      BY <1>1, <1>8, <2>1
    <2> QED  BY <1>7, <2>1, <2>2 DEF Boundary
  <1>10. b[(p + q) + 1] = u[1] /\ p + q \in 0 .. Len(b) - 1
    <2>1. b[p + (q + 1)] = e[q + 1] /\ p + (q + 1) \in 1 .. Len(b)
      BY <1>3, <1>8
    <2>2. e[q + 1] = u[1]
      BY <1>4, <1>6
    <2>3. p + (q + 1) = (p + q) + 1 /\ p + q \in Nat
      BY <1>4, <1>8
    <2>4. p + q \in 0 .. Len(b) - 1
      BY <1>1, <2>1, <2>3
    <2> QED  BY <2>1, <2>2, <2>3, <2>4
  <1>11. Boundary(b, p + q)
    <2>1. p + q \in 0 .. Len(b)
      BY <1>1, <1>10
    <2> QED  BY <1>6, <1>10, <2>1 DEF Boundary
  <1>12. PICK k \in 0 .. Len(cs) : p = Offset(cs, k)
    BY <1>9, Boundaries DEF b
  <1>13. PICK j \in 0 .. Len(cs) : p + q = Offset(cs, j)
    BY <1>11, Boundaries DEF b
  <1>14. j \in 0 .. Len(cs) - 1
    <2>1. Offset(cs, Len(cs)) = Len(b)
      BY OffsetEnds DEF b
    <2>2. j # Len(cs)
      BY <1>1, <1>10, <1>13, <2>1
    <2> QED  BY <1>1, <2>2
  <1>15. Offset(cs, j + 1) = p + Len(e)
    <2>1. Offset(cs, j) + g_utf8_skip(b[Offset(cs, j) + 1]) = Offset(cs, j + 1)
      BY <1>14, OffsetStep DEF b
    <2>2. (p + q) + Len(u) = Offset(cs, j + 1)
      BY <1>6, <1>10, <1>13, <2>1
    <2> QED  BY <1>4, <1>5, <1>6, <1>8, <2>2
  <1>16. j + 1 \in k .. Len(cs)
    <2>1. j + 1 \in 0 .. Len(cs)
      BY <1>1, <1>14
    <2>2. k < j + 1 <=> Offset(cs, k) < Offset(cs, j + 1)
      BY <2>1, OffsetOrder
    <2>3. p < p + Len(e)
      BY <1>1, <1>4, <1>5, <1>6, <1>8
    <2> QED  BY <1>1, <1>12, <1>15, <2>1, <2>2, <2>3
  <1> DEFINE x == SubSeq(cs, k + 1, j + 1)
  <1>17. SubSeq(b, p + 1, p + Len(e)) = Encode(x)
    BY <1>12, <1>15, <1>16, SliceEncoded DEF b
  <1>18. x \in Texts /\ Len(x) = (j + 1) - k
    BY <1>16, TextCut
  <1>19. x = ts
    <2> HIDE DEF x
    <2>1. Encode(x) = Encode(ts)
      BY <1>2, <1>17 DEF e
    <2>2. Decoded(Encode(x)) = x
      BY <1>18, DecodeEncode
    <2>3. Decoded(Encode(ts)) = ts
      BY DecodeEncode
    <2> QED  BY <2>1, <2>2, <2>3
  <1>20. n = (j + 1) - k
    BY <1>18, <1>19 DEF n
  <1>21. n \in 0 .. Len(cs) /\ k \in 0 .. Len(cs) - n /\ k + n = j + 1
    BY <1>1, <1>14, <1>16, <1>20
  <1>22. Characters!Mid(cs, k, n) = ts
    BY <1>19, <1>21, MidWithin
  <1> QED  BY <1>12, <1>21, <1>22 DEF TextPlaces, n

\* The bytes of a text are where the text is.
LEMMA PlacesAre ==
  ASSUME NEW cs \in Texts, NEW ts \in Texts
  PROVE  SamePlaces(cs, TextPlaces(cs, ts), Places(Encode(cs), Encode(ts)))
  <1>1. Len(cs) \in Nat /\ Len(ts) \in Nat /\ Len(Encode(cs)) \in Nat /\ Len(Encode(ts)) \in Nat
    BY EncodeBytes DEF Texts
  <1>2. TextPlaces(cs, ts) \subseteq 0 .. Len(cs)
    <2>1. \A k \in 0 .. Len(cs) - Len(ts) : k \in 0 .. Len(cs)
      BY <1>1
    <2> QED  BY <2>1 DEF TextPlaces
  <1>3. Places(Encode(cs), Encode(ts)) \subseteq 0 .. Len(Encode(cs))
    <2>1. \A k \in 0 .. Len(Encode(cs)) - Len(Encode(ts)) : k \in 0 .. Len(Encode(cs))
      BY <1>1
    <2> QED  BY <2>1 DEF Places
  <1>4. \A k \in TextPlaces(cs, ts) : Offset(cs, k) \in Places(Encode(cs), Encode(ts))
    BY PlaceEncoded
  <1>5. CASE ts = <<>>
    <2>1. Len(ts) = 0 /\ 0 \in 0 .. Len(cs)
      BY <1>1, <1>5
    <2>2. ASSUME NEW k \in 0 .. Len(cs) PROVE k \in TextPlaces(cs, ts)
      <3>1. k \in 0 .. Len(cs) - 0 /\ k + 0 = k
        BY <1>1
      <3>2. Characters!Mid(cs, k, 0) = SubSeq(cs, k + 1, k)
        BY <2>1, <3>1, MidWithin
      <3>3. SubSeq(cs, k + 1, k) = <<>>
        BY SubSeqEmpty
      <3> QED  BY <1>5, <2>1, <3>1, <3>2, <3>3 DEF TextPlaces
    <2>3. TextPlaces(cs, ts) = 0 .. Len(cs)
      BY <1>2, <2>2
    <2> QED  BY <1>2, <1>3, <1>4, <2>3 DEF SamePlaces
  <1>6. CASE ts # <<>>
    BY <1>2, <1>3, <1>4, <1>6, PlaceDecoded DEF SamePlaces
  <1> QED  BY <1>5, <1>6

\* find() and rfind() of bytes that stand for a text.
LEMMA FindIs ==
  ASSUME Inv, NEW i \in Nat, NEW src, NEW fault, NEW ts, Yields(ustring(src), fault, ts)
  PROVE  LET S == TextPlaces(CharsOf(str).s, ts) IN
         /\ find(i, src) = IF fault = "none" THEN Characters!Least({k \in S : k >= i}) ELSE <<"npos">>
         /\ rfind(i, src) = IF fault = "none" THEN Characters!Greatest({k \in S : k <= i}) ELSE <<"npos">>
  <1> DEFINE cs == CharsOf(str).s
             S == TextPlaces(cs, ts)
             P == Places(str.s, ustring(src).b)
             start == utf8_byte_offset(str.s, i)
             fore == LeastFrom(P, start)
             back == GreatestTo(P, start)
  <1>1. cs \in Texts /\ str.s = Encode(cs) /\ Len(Encode(cs)) < npos
    BY TextOfS
  <1>2. CASE fault # "none"
    BY <1>2 DEF Yields, find, rfind
  <1>3. CASE fault = "none"
    <2>1. ustring(src).err = "none" /\ ts \in Texts /\ ustring(src).b = Encode(ts)
      BY <1>3 DEF Yields
    <2>2. SamePlaces(cs, S, P)
      BY <1>1, <2>1, PlacesAre
    <2>3. find(i, src) = utf8_char_offset(str.s, fore)
      BY <2>1 DEF find, std_find, LeastFrom
    <2>4. rfind(i, src) = utf8_char_offset(str.s, back)
      BY <2>1 DEF rfind, std_rfind, GreatestTo
    <2> HIDE DEF cs, S, P
    <2>5. utf8_char_offset(str.s, fore) = Characters!Least({k \in S : k >= i})
      BY <1>1, <2>2, LeastFound
    <2>6. utf8_char_offset(str.s, back) = Characters!Greatest({k \in S : k <= i})
      BY <1>1, <2>2, GreatestFound
    <2> HIDE DEF fore, back
    <2> QED  BY <1>3, <2>3, <2>4, <2>5, <2>6 DEF S, cs
  <1> QED  BY <1>2, <1>3

\* find() and rfind() of a text
LEMMA FindStep ==
  ASSUME Inv, Find
  PROVE  Characters!Next
  <1>1. PICK i \in Positions, src \in Whole \cup Cstr \cup CstrN :
          \/ Ask(Search("find", i, src), find(i, src))
          \/ Ask(Search("rfind", i, src), rfind(i, src))
    BY DEF Find
  <1> DEFINE cs == CharsOf(str).s
             ts == Characters!Text(src)
             fault == Characters!Fault(src)
             S == TextPlaces(cs, ts)
             fore == find(i, src)
             back == rfind(i, src)
  <1>2. Idle /\ i \in Nat /\ GoodStrings(str)
    BY UstringAssumption DEF Find, Inv
  <1>3. Yields(ustring(src), fault, ts)
    BY <1>2, SourceYields DEF Sources
  <1> HIDE DEF fault, ts
  <1>4. /\ fore = IF fault = "none" THEN Characters!Least({k \in S : k >= i}) ELSE <<"npos">>
        /\ back = IF fault = "none" THEN Characters!Greatest({k \in S : k <= i}) ELSE <<"npos">>
    BY <1>2, <1>3, FindIs
  <1>5. Characters!Places(ts) = S
    BY DEF Characters!Places, TextPlaces
  <1> HIDE DEF fore, back, S
  <1>6. CASE Ask(Search("find", i, src), fore)
    <2>1. call'.op = "find" /\ call'.i = i /\ call'.src = src /\ call'.ret = fore
      BY <1>6 DEF Ask, Search
    <2>2. Characters!Answer(call') = Characters!FoundPlace(call')
      BY <2>1 DEF Characters!Answer, Characters!SetSearches, Characters!PlaceSearches
    <2>3. Characters!FoundPlace(call') = IF fault = "none" THEN Characters!Least({k \in Characters!Places(ts) : k >= i})
                                    ELSE <<"npos">>
      BY <2>1 DEF Characters!FoundPlace, Characters!From, Characters!UpTo, fault, ts
    <2>4. Characters!Answer(call') = fore
      BY <1>4, <1>5, <2>2, <2>3
    <2>5. call'.op \in QueryOps
      BY <2>1 DEF QueryOps
    <2> QED  BY <1>2, <1>6, <2>1, <2>4, <2>5, QueryStep
  <1>7. CASE Ask(Search("rfind", i, src), back)
    <2>1. call'.op = "rfind" /\ call'.i = i /\ call'.src = src /\ call'.ret = back
      BY <1>7 DEF Ask, Search
    <2>2. Characters!Answer(call') = Characters!FoundPlace(call')
      BY <2>1 DEF Characters!Answer, Characters!SetSearches, Characters!PlaceSearches
    <2>3. Characters!FoundPlace(call') = IF fault = "none" THEN Characters!Greatest({k \in Characters!Places(ts) : k <= i})
                                    ELSE <<"npos">>
      BY <2>1 DEF Characters!FoundPlace, Characters!From, Characters!UpTo, fault, ts
    <2>4. Characters!Answer(call') = back
      BY <1>4, <1>5, <2>2, <2>3
    <2>5. call'.op \in QueryOps
      BY <2>1 DEF QueryOps
    <2> QED  BY <1>2, <1>7, <2>1, <2>4, <2>5, QueryStep
  <1> QED  BY <1>1, <1>6, <1>7 DEF fore, back

\* A slice of one element.
LEMMA OneSlice ==
  ASSUME NEW T, NEW s \in Seq(T), NEW m \in 1 .. Len(s)
  PROVE  SubSeq(s, m, m) = <<s[m]>>
  <1> DEFINE x == s[m]
             y == SubSeq(s, m, m)
  <1>1. m \in Int /\ m \in m .. Len(s) /\ m + 1 \in Int /\ m < m + 1
    OBVIOUS
  <1>2. y = <<s[m]>> \o SubSeq(s, m + 1, m)
    BY <1>1, SubSeqRecursiveFirst
  <1>3. SubSeq(s, m + 1, m) = <<>>
    BY <1>1, SubSeqEmpty
  <1>4. y = <<x>> \o <<>>
    BY <1>2, <1>3
  <1> HIDE DEF x, y
  <1>5. <<x>> \o <<>> = <<x>>
    OBVIOUS
  <1>6. y = <<x>>
    BY <1>4, <1>5
  <1> QED  BY <1>6 DEF x, y

\* The indices whose character is, or is not, the given one.
CharIn(cs, uc, not) == {k \in 0 .. Len(cs) - 1 : (cs[k + 1] = uc) # not}

\* The places of a text of one character.
LEMMA CharPlaces ==
  ASSUME NEW cs \in Texts, NEW uc, NEW ts, ts = [j \in 1 .. 1 |-> uc]
  PROVE  TextPlaces(cs, ts) = CharIn(cs, uc, FALSE)
  <1>1. Len(cs) \in Nat /\ cs \in Seq(Unicode) /\ Len(ts) = 1 /\ ts = <<uc>>
    BY DEF Texts
  <1>2. ASSUME NEW k \in 0 .. Len(cs) - 1
        PROVE  Characters!Mid(cs, k, 1) = ts <=> cs[k + 1] = uc
    <2>1. 1 \in 0 .. Len(cs) /\ k + 1 \in 1 .. Len(cs)
      BY <1>1
    <2>2. Characters!Mid(cs, k, 1) = SubSeq(cs, k + 1, k + 1)
      BY <2>1, MidWithin
    <2> DEFINE m == k + 1
    <2> HIDE DEF m
    <2>5. m \in 1 .. Len(cs) /\ m \in m .. Len(cs) /\ m \in Int /\ m + 1 \in Int /\ m < m + 1
      BY <1>1, <2>1 DEF m
    <2>3. SubSeq(cs, m, m) = <<cs[m]>>
      BY <1>1, <2>5, OneSlice
    <2>4. <<cs[m]>> = <<uc>> <=> cs[m] = uc
      OBVIOUS
    <2> QED  BY <1>1, <2>2, <2>3, <2>4 DEF m
  <1> QED  BY <1>1, <1>2 DEF TextPlaces, CharIn

\* find() and rfind() of a character
LEMMA FindCharStep ==
  ASSUME Inv, FindChar
  PROVE  Characters!Next
  <1>1. PICK i \in Positions, one \in One :
          \/ Ask(SearchChar("find_char", i, one.uc), find(i, one))
          \/ Ask(SearchChar("rfind_char", i, one.uc), rfind(i, one))
    BY DEF FindChar
  <1> DEFINE cs == CharsOf(str).s
             uc == one.uc
             ts == [j \in 1 .. 1 |-> uc]
             S == CharIn(cs, uc, FALSE)
             fore == find(i, one)
             back == rfind(i, one)
  <1>2. Idle /\ i \in Nat /\ GoodStrings(str)
    BY UstringAssumption DEF FindChar, Inv
  <1>3. Yields(ustring(one), "none", ts)
    <2>1. Characters!Fault(one) = "none" /\ Characters!Text(one) = ts
      BY DEF Characters!Fault, Characters!Text, One
    <2>2. Yields(ustring(one), Characters!Fault(one), Characters!Text(one))
      BY <1>2, SourceYields
    <2> HIDE DEF ts
    <2> QED  BY <2>1, <2>2
  <1>4. TextPlaces(cs, ts) = S
    <2>1. cs \in Texts
      BY TextOfS
    <2> HIDE DEF cs
    <2> QED  BY <2>1, CharPlaces
  <1> HIDE DEF S, ts
  <1>5. fore = Characters!Least({k \in S : k >= i}) /\ back = Characters!Greatest({k \in S : k <= i})
    BY <1>2, <1>3, <1>4, FindIs
  <1> HIDE DEF fore, back, uc, cs
  <1>6. CASE Ask(SearchChar("find_char", i, uc), fore)
    <2>1. call'.op = "find_char" /\ call'.i = i /\ call'.uc = uc /\ call'.ret = fore
      BY <1>6 DEF Ask, SearchChar
    <2>2. Characters!Answer(call') = Characters!FoundPlace(call')
      BY <2>1 DEF Characters!Answer, Characters!SetSearches, Characters!PlaceSearches
    <2>3. Characters!FoundPlace(call') = Characters!Least({k \in Characters!Among({call'.uc}, FALSE) : k >= i})
      BY <2>1 DEF Characters!FoundPlace, Characters!From, Characters!UpTo
    <2>4. Characters!Among({call'.uc}, FALSE) = S
      BY <2>1 DEF Characters!Among, S, cs, CharIn
    <2>5. call'.op \in QueryOps
      BY <2>1 DEF QueryOps
    <2> QED  BY <1>2, <1>5, <1>6, <2>1, <2>2, <2>3, <2>4, <2>5, QueryStep
  <1>7. CASE Ask(SearchChar("rfind_char", i, uc), back)
    <2>1. call'.op = "rfind_char" /\ call'.i = i /\ call'.uc = uc /\ call'.ret = back
      BY <1>7 DEF Ask, SearchChar
    <2>2. Characters!Answer(call') = Characters!FoundPlace(call')
      BY <2>1 DEF Characters!Answer, Characters!SetSearches, Characters!PlaceSearches
    <2>3. Characters!FoundPlace(call') = Characters!Greatest({k \in Characters!Among({call'.uc}, FALSE) : k <= i})
      BY <2>1 DEF Characters!FoundPlace, Characters!From, Characters!UpTo
    <2>4. Characters!Among({call'.uc}, FALSE) = S
      BY <2>1 DEF Characters!Among, S, cs, CharIn
    <2>5. call'.op \in QueryOps
      BY <2>1 DEF QueryOps
    <2> QED  BY <1>2, <1>5, <1>7, <2>1, <2>2, <2>3, <2>4, <2>5, QueryStep
  <1> QED  BY <1>1, <1>6, <1>7 DEF fore, back, uc

-----------------------------------------------------------------------------
(* Searches for one of several characters.                                   *)

\* What find_first_of() and its kin count: the characters from the start to the first hit.
Counted(b, start, i, hits) ==
  IF start = npos \/ hits = {} THEN <<"npos">>
  ELSE <<"num", i + Cardinality({p \in Steps(b) : start <= p /\ p < Min(hits)})>>
HitsFrom(cs, A, start, hits) == \A p : p \in hits <=> \E k \in A : p = Offset(cs, k) /\ p >= start

Onwards(A, i) == {k \in A : k >= i}

\* The first character of a set of indices, found by stepping through the bytes.
LEMMA FirstHit ==
  ASSUME NEW cs \in Texts, Len(Encode(cs)) < npos, NEW A, A \subseteq 0 .. Len(cs) - 1, NEW i \in Nat,
         NEW start, start = utf8_byte_offset(Encode(cs), i), NEW hits, HitsFrom(cs, A, start, hits)
  PROVE  Counted(Encode(cs), start, i, hits) = Characters!Least(Onwards(A, i))
  <1> DEFINE b == Encode(cs)
             L == Len(cs)
             T == Onwards(A, i)
             lim == Len(b)
  <1>1. L \in Nat /\ lim \in Nat /\ lim < npos /\ npos \in Nat
    BY EncodeBytes DEF Texts, npos
  <1>2. start = IF i <= L THEN Offset(cs, i) ELSE npos
    BY ByteOffsetIs
  <1>3. \A j, k \in 0 .. L : /\ Offset(cs, j) \in 0 .. lim
                             /\ j < k <=> Offset(cs, j) < Offset(cs, k)
    BY OffsetOrder
  <1>4. \A k \in 0 .. L - 1 : k \in 0 .. L /\ k \in Nat
    BY <1>1
  <1>5. \A p : p \in hits <=> \E k \in A : p = Offset(cs, k) /\ p >= start
    BY DEF HitsFrom
  <1>6. Steps(b) = {Offset(cs, k) : k \in 0 .. L - 1}
    BY StepsAre DEF Starts
  <1>9. T = {k \in A : k >= i}
    BY DEF Onwards
  <1> HIDE DEF b, L, lim, T
  <1>7. CASE ~(i <= L)
    <2>1. start = npos
      BY <1>2, <1>7
    <2>2. ASSUME NEW k \in A PROVE ~(k >= i)
      <3>1. k \in 0 .. L - 1
        BY DEF L
      <3> QED  BY <1>1, <1>7, <3>1
    <2>3. T = {}
      BY <1>9, <2>2
    <2> QED  BY <2>1, <2>3 DEF Counted, Characters!Least, T, b
  <1>8. CASE i <= L
    <2>1. i \in 0 .. L /\ start = Offset(cs, i) /\ start \in 0 .. lim /\ start # npos
      BY <1>1, <1>2, <1>3, <1>8
    <2>2. \A k \in A : k \in 0 .. L /\ k \in Nat /\ (k >= i <=> Offset(cs, k) >= start)
      <3> SUFFICES ASSUME NEW k \in A PROVE k \in 0 .. L /\ k \in Nat /\ (k >= i <=> Offset(cs, k) >= start)
        OBVIOUS
      <3>1. k \in 0 .. L /\ k \in Nat
        BY <1>4 DEF L
      <3>2. k < i <=> Offset(cs, k) < start
        BY <1>3, <2>1, <3>1
      <3>3. Offset(cs, k) \in 0 .. lim
        BY <1>3, <3>1
      <3> QED  BY <1>1, <2>1, <3>1, <3>2, <3>3
    <2>3. CASE T = {}
      <3>1. hits = {}
        BY <1>5, <1>9, <2>2, <2>3
      <3> QED  BY <2>3, <3>1 DEF Counted, Characters!Least, T, b
    <2>4. CASE T # {}
      <3>1. PICK m \in T : \A j \in T : m <= j
        <4>1. T \subseteq Nat
          BY <1>9, <2>2
        <4> QED  BY <2>4, <4>1, Least
      <3>2. m \in A /\ m >= i /\ m \in 0 .. L /\ m \in Nat
        BY <1>9, <2>2
      <3>3. Offset(cs, m) \in hits
        BY <1>5, <2>2, <3>2
      <3>4. ASSUME NEW p \in hits PROVE Offset(cs, m) <= p /\ p \in Int
        <4>1. PICK k \in A : p = Offset(cs, k) /\ p >= start
          BY <1>5
        <4>2. k \in T /\ k \in 0 .. L
          BY <1>9, <2>2, <4>1
        <4>3. ~(k < m)
          BY <3>1, <3>2, <4>2
        <4>4. ~(Offset(cs, k) < Offset(cs, m)) /\ Offset(cs, k) \in 0 .. lim /\ Offset(cs, m) \in 0 .. lim
          BY <1>3, <3>2, <4>2, <4>3
        <4> QED  BY <1>1, <4>1, <4>4
      <3>5. Min(hits) = Offset(cs, m)
        <4>1. hits \subseteq Int
          BY <3>4
        <4> QED  BY <3>3, <3>4, <4>1, MinIs
      <3>6. Characters!Min(T) = m
        <4>2. \A k \in A : k \in Int
          BY <2>2
        <4>1. T \subseteq Int
          BY <1>9, <4>2
        <4> QED  BY <3>1, <4>1, MinIs
      <3>7. {p \in Steps(b) : start <= p /\ p < Min(hits)} = Starts(cs, i, m)
        <4>1. ASSUME NEW k \in 0 .. L - 1
              PROVE  (start <= Offset(cs, k) /\ Offset(cs, k) < Min(hits)) <=> k \in i .. m - 1
          <5>1. k \in 0 .. L /\ k \in Nat
            BY <1>4
          <5>2. (k < i <=> Offset(cs, k) < start) /\ (k < m <=> Offset(cs, k) < Min(hits))
            BY <1>3, <2>1, <3>2, <3>5, <5>1
          <5>3. Offset(cs, k) \in 0 .. lim
            BY <1>3, <5>1
          <5> QED  BY <1>1, <2>1, <3>2, <5>1, <5>2, <5>3
        <4>2. \A k \in i .. m - 1 : k \in 0 .. L - 1
          BY <1>1, <2>1, <3>2
        <4> QED  BY <1>6, <4>1, <4>2 DEF Starts
      <3>8. Cardinality({p \in Steps(b) : start <= p /\ p < Min(hits)}) = m - i
        <4>1. m \in i .. L
          BY <2>1, <3>2
        <4>2. Cardinality(Starts(cs, i, m)) = m - i
          BY <2>1, <4>1, StartsCounted DEF L
        <4> QED  BY <3>7, <4>2
      <3>9. i + (m - i) = m
        BY <3>2
      <3>10. hits # {}
        BY <3>3
      <3>11. Counted(b, start, i, hits) = <<"num", m>>
        BY <2>1, <3>8, <3>9, <3>10 DEF Counted
      <3>12. Characters!Least(T) = <<"num", m>>
        BY <2>4, <3>6 DEF Characters!Least
      <3> QED  BY <3>11, <3>12 DEF T, b
    <2> QED  BY <2>3, <2>4
  <1> QED  BY <1>7, <1>8

\* The character before an offset within or after it.
LEMMA PreviousWithin ==
  ASSUME NEW cs \in Texts, NEW k \in 0 .. Len(cs) - 1, NEW p \in Offset(cs, k) + 1 .. Offset(cs, k + 1)
  PROVE  Previous(Encode(cs), p) = Offset(cs, k)
  <1> DEFINE b == Encode(cs)
             S == {q \in 0 .. p - 1 : ~IsContinuation(b[q + 1])}
             o == Offset(cs, k)
             u == g_unichar_to_utf8(cs[k + 1])
  <1>1. Len(cs) \in Nat /\ k \in 0 .. Len(cs) /\ k + 1 \in 0 .. Len(cs) /\ k + 1 \in 1 .. Len(cs) /\ (k + 1) - 1 = k
    BY DEF Texts
  <1>2. o \in Nat /\ Offset(cs, k + 1) = o + Len(u) /\ OneCharacter(u)
        /\ \A j \in 1 .. Len(u) : b[o + j] = u[j]
    <2>1. PICK m \in 1 .. Len(cs) : m = k + 1 /\ m - 1 = k
      BY <1>1
    <2>2. /\ OneCharacter(g_unichar_to_utf8(cs[m])) /\ Offset(cs, m - 1) \in Nat
          /\ Offset(cs, m) = Offset(cs, m - 1) + Len(g_unichar_to_utf8(cs[m]))
          /\ \A j \in 1 .. Len(g_unichar_to_utf8(cs[m])) :
               b[Offset(cs, m - 1) + j] = g_unichar_to_utf8(cs[m])[j]
      BY CharacterOf
    <2> HIDE DEF b
    <2> QED  BY <2>1, <2>2, Zenon
  <1>3. ~IsContinuation(b[o + 1])
    BY OffsetStep
  <1>4. Len(u) \in Nat /\ \A j \in 2 .. Len(u) : IsContinuation(u[j])
    BY <1>2 DEF OneCharacter
  <1> HIDE DEF b, u, o
  <1>5. p \in o + 1 .. o + Len(u)
    BY <1>2 DEF o
  <1>6. o \in S /\ S \subseteq Int
    BY <1>2, <1>3, <1>5
  <1>7. ASSUME NEW q \in S PROVE q <= o
    <2> SUFFICES ASSUME ~(q <= o) PROVE FALSE
      OBVIOUS
    <2>1. q \in 0 .. p - 1 /\ ~IsContinuation(b[q + 1])
      OBVIOUS
    <2> DEFINE j == (q + 1) - o
    <2>2. j \in 2 .. Len(u) /\ j \in 1 .. Len(u) /\ o + j = q + 1
      BY <1>2, <1>4, <1>5, <2>1
    <2> HIDE DEF j
    <2> QED  BY <1>2, <1>4, <2>1, <2>2
  <1>8. Max(S) = o
    BY <1>6, <1>7, MaxIs
  <1> QED  BY <1>8 DEF Previous, b, o

\* The indices of a text whose character is, or is not, in a set.
CharsIn(cs, M, not) == {k \in 0 .. Len(cs) - 1 : (cs[k + 1] \in M) # not}

\* An offset is that of the last of these indices before k, or npos.
LastIn(cs, A, k, x) ==
  \/ x = npos /\ \A j \in A : ~(j < k)
  \/ \E j \in A : j < k /\ x = Offset(cs, j) /\ \A m \in A : m < k => m <= j

\* The steps of the search backwards.
Backwards(b, back, M, not) ==
  \A p \in 0 .. Len(b) :
    back[p] = IF p = 0 THEN npos
              ELSE IF (g_utf8_get_char(b, Previous(b, p)) \in M) # not
              THEN Previous(b, p) ELSE back[Previous(b, p)]

\* A character starts before every offset.
LEMMA PreviousBefore ==
  ASSUME NEW cs \in Texts, NEW p \in 1 .. Len(Encode(cs))
  PROVE  \E k \in 0 .. Len(cs) - 1 :
           /\ p \in Offset(cs, k) + 1 .. Offset(cs, k + 1) /\ Previous(Encode(cs), p) = Offset(cs, k)
           /\ Offset(cs, k) \in 0 .. p - 1
  <1>1. PICK m \in 1 .. Len(cs) : \E j \in 1 .. Len(g_unichar_to_utf8(cs[m])) : p = Offset(cs, m - 1) + j
    BY Locate
  <1> DEFINE u == g_unichar_to_utf8(cs[m])
             k == m - 1
  <1>2. PICK j \in 1 .. Len(u) : p = Offset(cs, k) + j
    BY <1>1
  <1>3. Len(cs) \in Nat /\ k \in 0 .. Len(cs) - 1 /\ k + 1 = m
    BY DEF Texts
  <1>4. Offset(cs, k) \in Nat /\ Offset(cs, m) = Offset(cs, k) + Len(u) /\ Len(u) \in Nat
    BY CharacterOf DEF OneCharacter
  <1> HIDE DEF u, k
  <1>5. p \in Offset(cs, k) + 1 .. Offset(cs, k + 1) /\ Offset(cs, k) \in 0 .. p - 1
    <2> DEFINE o == Offset(cs, k)
               l == Len(u)
    <2>1. Offset(cs, k + 1) = o + l /\ p = o + j /\ j \in 1 .. l /\ o \in Nat /\ l \in Nat
      BY <1>2, <1>3, <1>4
    <2> HIDE DEF o, l
    <2>2. p \in o + 1 .. o + l /\ o \in 0 .. p - 1
      BY <2>1
    <2> QED  BY <2>1, <2>2 DEF o
  <1>6. Previous(Encode(cs), p) = Offset(cs, k)
    BY <1>3, <1>5, PreviousWithin
  <1> QED  BY <1>3, <1>5, <1>6

\* The recursion of the search backwards is defined.
LEMMA BackStepwise ==
  ASSUME NEW cs \in Texts, NEW M, NEW not
  PROVE  LET b == Encode(cs)
             Full(f) == f = [p \in 0 .. Len(b) |->
                              IF p = 0 THEN npos
                              ELSE LET q == Previous(b, p)
                                   IN  IF (g_utf8_get_char(b, q) \in M) # not THEN q ELSE f[q]]
         IN  \E f : Full(f)
  <1> DEFINE b == Encode(cs)
             N == Len(b)
             hit(q) == (g_utf8_get_char(b, q) \in M) # not
             D == 0 .. N
             rank == [p \in D |-> p]
             stop == {p \in D : p = 0 \/ hit(Previous(b, p))}
             base == [p \in D |-> IF p = 0 THEN npos ELSE Previous(b, p)]
             next == [p \in D |-> Previous(b, p)]
             step == [p \in D |-> [x \in Nat |-> x]]
  <1>1. N \in Nat /\ npos \in Nat
    BY EncodeBytes DEF npos
  <1>2. ASSUME NEW p \in D, p # 0 PROVE Previous(b, p) \in 0 .. p - 1
    <2>1. p \in 1 .. N
      BY <1>1, <1>2
    <2> QED  BY <2>1, PreviousBefore
  <1> HIDE DEF b, N, hit
  <1>3. rank \in [D -> 0 .. N] /\ \A p \in D : rank[p] = p
    OBVIOUS
  <1>4. \A p \in D : base[p] = (IF p = 0 THEN npos ELSE Previous(b, p)) /\ next[p] = Previous(b, p)
    OBVIOUS
  <1>5. \A p \in D : \A x \in Nat : step[p][x] = x
    OBVIOUS
  <1>6. \A p \in D : p \in stop <=> p = 0 \/ hit(Previous(b, p))
    OBVIOUS
  <1> HIDE DEF rank, base, next, step, stop
  <1>7. ASSUME NEW p \in D, p \in stop PROVE base[p] \in Nat
    <2>1. p # 0 => Previous(b, p) \in Nat
      BY <1>2
    <2> QED  BY <1>1, <1>4, <2>1
  <1>8. ASSUME NEW p \in D, p \notin stop
        PROVE  next[p] \in D /\ rank[next[p]] < rank[p] /\ \A x \in Nat : step[p][x] \in Nat
    <2>1. p # 0 /\ next[p] = Previous(b, p)
      BY <1>4, <1>6, <1>8
    <2>2. next[p] \in 0 .. p - 1
      BY <1>2, <2>1
    <2>3. next[p] \in D /\ next[p] < p
      BY <1>1, <2>2
    <2> QED  BY <1>3, <1>5, <2>3
  <1> HIDE DEF D
  <1>9. Descends(D, N, rank, Nat, 0, stop, base, next, step)
    BY <1>1, <1>3, <1>7, <1>8 DEF Descends
  <1>10. PICK f : Solves(f, D, Nat, stop, base, next, step)
    BY <1>9, RankedRecursion
  <1>11. f \in [D -> Nat] /\ \A p \in D : f[p] = IF p \in stop THEN base[p] ELSE step[p][f[next[p]]]
    BY <1>10 DEF Solves
  <1>12. ASSUME NEW p \in D
         PROVE  f[p] = IF p = 0 THEN npos
                       ELSE IF hit(Previous(b, p)) THEN Previous(b, p) ELSE f[Previous(b, p)]
    <2>1. CASE p \in stop
      BY <1>4, <1>6, <1>11, <2>1
    <2>2. CASE p \notin stop
      <3>1. next[p] \in D
        BY <1>8, <2>2
      <3>2. f[next[p]] \in Nat
        BY <1>11, <3>1
      <3>3. f[p] = f[next[p]]
        BY <1>5, <1>11, <2>2, <3>2
      <3> QED  BY <1>4, <1>6, <2>2, <3>3
    <2> QED  BY <2>1, <2>2
  <1>13. f = [p \in D |-> IF p = 0 THEN npos
                          ELSE LET q == Previous(b, p) IN IF hit(q) THEN q ELSE f[q]]
    BY <1>11, <1>12
  <1> QED  BY <1>13 DEF D, N, b, hit

\* From the end of a character, the search backwards finds the last index up to it.
LEMMA BackFrom ==
  ASSUME NEW cs \in Texts, NEW M, NEW not, NEW back, Backwards(Encode(cs), back, M, not)
  PROVE  \A k \in 0 .. Len(cs) - 1 : \A p \in Offset(cs, k) + 1 .. Offset(cs, k + 1) :
           LastIn(cs, CharsIn(cs, M, not), k + 1, back[p])
  <1> DEFINE b == Encode(cs)
             A == CharsIn(cs, M, not)
             L == Len(cs)
             S == {k \in 0 .. L : LastIn(cs, A, k, back[Offset(cs, k)])}
  <1>1. L \in Nat /\ Len(b) \in Nat /\ 0 \in 0 .. L
    BY EncodeBytes DEF Texts
  <1>2. \A k \in A : k \in 0 .. L - 1 /\ k \in Nat
    BY DEF CharsIn
  <1>3. ASSUME NEW k \in 0 .. L - 1, NEW p \in Offset(cs, k) + 1 .. Offset(cs, k + 1)
        PROVE  back[p] = IF k \in A THEN Offset(cs, k) ELSE back[Offset(cs, k)]
    <2>1. Previous(b, p) = Offset(cs, k)
      BY PreviousWithin
    <2>2. Offset(cs, k) \in 0 .. Len(b) /\ Offset(cs, k + 1) \in 0 .. Len(b)
      <3>1. k \in 0 .. L /\ k + 1 \in 0 .. L
        BY <1>1
      <3> QED  BY <3>1, OffsetOrder
    <2>3. g_utf8_get_char(b, Offset(cs, k)) = cs[k + 1]
      BY CharRead
    <2>4. k \in A <=> (cs[k + 1] \in M) # not
      BY DEF CharsIn
    <2> HIDE DEF A, b
    <2>5. p \in 0 .. Len(b) /\ p # 0
      BY <1>1, <2>2
    <2>6. back[p] = IF (g_utf8_get_char(b, Previous(b, p)) \in M) # not
                    THEN Previous(b, p) ELSE back[Previous(b, p)]
      BY <2>5 DEF Backwards, b
    <2> QED  BY <2>1, <2>3, <2>4, <2>6
  <1>4. ASSUME NEW k \in 0 .. L - 1, k \in S, NEW p \in Offset(cs, k) + 1 .. Offset(cs, k + 1)
        PROVE  LastIn(cs, A, k + 1, back[p])
    <2> HIDE DEF A
    <2>1. CASE k \in A
      <3>1. back[p] = Offset(cs, k)
        BY <1>3, <2>1
      <3>2. k < k + 1 /\ \A m \in A : m < k + 1 => m <= k
        BY <1>2
      <3> QED  BY <2>1, <3>1, <3>2 DEF LastIn
    <2>2. CASE k \notin A
      <3>1. back[p] = back[Offset(cs, k)]
        BY <1>3, <2>2
      <3>2. \A m \in A : m < k + 1 <=> m < k
        BY <1>2, <2>2
      <3>3. LastIn(cs, A, k, back[p])
        BY <1>4, <3>1
      <3> QED  BY <3>2, <3>3 DEF LastIn
    <2> QED  BY <2>1, <2>2
  <1>5. 0 \in S
    <2>1. back[0] = npos
      <3>1. 0 \in 0 .. Len(b)
        BY <1>1
      <3> QED  BY <3>1 DEF Backwards
    <2>2. Offset(cs, 0) = 0
      BY OffsetEnds
    <2>3. \A j \in A : ~(j < 0)
      BY <1>2
    <2> HIDE DEF A
    <2> QED  BY <1>1, <2>1, <2>2, <2>3 DEF LastIn
  <1>6. ASSUME NEW k \in 1 .. L, k - 1 \in S PROVE k \in S
    <2>1. k - 1 \in 0 .. L - 1 /\ (k - 1) + 1 = k /\ k \in 0 .. L /\ k - 1 \in 0 .. L /\ k - 1 < k
      BY <1>1
    <2>2. Offset(cs, k) \in Offset(cs, k - 1) + 1 .. Offset(cs, k)
      <3>1. Offset(cs, k) \in 0 .. Len(b) /\ Offset(cs, k - 1) \in 0 .. Len(b) /\ Offset(cs, k - 1) < Offset(cs, k)
        BY <2>1, OffsetOrder
      <3> HIDE DEF b
      <3> QED  BY <1>1, <3>1
    <2> HIDE DEF S, A
    <2>3. LastIn(cs, A, k, back[Offset(cs, k)])
      BY <1>4, <1>6, <2>1, <2>2
    <2> QED  BY <2>1, <2>3 DEF S
  <1> HIDE DEF S
  <1>7. \A k \in 0 .. L : k \in S
    BY <1>1, <1>5, <1>6, Induction
  <1>8. \A k \in 0 .. L - 1 : k \in 0 .. L
    BY <1>1
  <1> HIDE DEF A
  <1> QED  BY <1>4, <1>7, <1>8 DEF A, L

\* What is before k is what is up to i.
SameUpTo(A, k, i) == \A j \in A : j < k <=> j <= i
UpTo(A, i) == {k \in A : k <= i}

\* The offset of the last index before k gives the greatest index up to i.
LEMMA LastHit ==
  ASSUME NEW cs \in Texts, Len(Encode(cs)) < npos, NEW A, A \subseteq 0 .. Len(cs) - 1, NEW i, NEW k,
         SameUpTo(A, k, i), NEW x, LastIn(cs, A, k, x)
  PROVE  utf8_char_offset(Encode(cs), x) = Characters!Greatest(UpTo(A, i))
  <1> DEFINE T == UpTo(A, i)
             b == Encode(cs)
  <1>1. \A j \in A : j \in 0 .. Len(cs) /\ j \in Int
    <2>1. \A j \in 0 .. Len(cs) - 1 : j \in 0 .. Len(cs) /\ j \in Int
      BY DEF Texts
    <2> QED  BY <2>1
  <1>4. T = {j \in A : j <= i}
    BY DEF UpTo
  <1>5. \A j \in A : j < k <=> j <= i
    BY DEF SameUpTo
  <1> HIDE DEF T
  <1>2. CASE x = npos /\ \A j \in A : ~(j < k)
    <2>1. T = {}
      BY <1>2, <1>4, <1>5
    <2>2. utf8_char_offset(b, x) = <<"npos">>
      BY <1>2 DEF utf8_char_offset
    <2> QED  BY <2>1, <2>2 DEF Characters!Greatest, T
  <1>3. ASSUME NEW j \in A, j < k, x = Offset(cs, j), \A m \in A : m < k => m <= j
        PROVE  utf8_char_offset(b, x) = Characters!Greatest(T)
    <2>1. j \in T /\ T \subseteq Int /\ \A m \in T : m <= j
      BY <1>1, <1>3, <1>4, <1>5
    <2>2. utf8_char_offset(b, x) = <<"num", j>>
      BY <1>1, <1>3, CharOffset
    <2>3. Characters!Max(T) = j
      BY <2>1, MaxIs
    <2> QED  BY <2>1, <2>2, <2>3 DEF Characters!Greatest
  <1> QED  BY <1>2, <1>3 DEF LastIn, T

\* find_last_of() and find_last_not_of().
LEMMA FindLastIs ==
  ASSUME NEW cs \in Texts, Len(Encode(cs)) < npos, NEW i \in Nat, NEW match, NEW len, NEW M,
         M = Range(g_utf8_to_ucs4_fast(match, len)), NEW not
  PROVE  utf8_find_last_of(Encode(cs), i, match, len, not)
           = Characters!Greatest({k \in CharsIn(cs, M, not) : k <= i})
  <1> DEFINE b == Encode(cs)
             N == Len(b)
             L == Len(cs)
             A == CharsIn(cs, M, not)
             start == utf8_byte_offset(b, i)
             pstr == IF start < Len(b) THEN start + 1 ELSE Len(b)
             Full(f) == f = [p \in 0 .. Len(b) |->
                              IF p = 0 THEN npos
                              ELSE LET q == Previous(b, p)
                                   IN  IF (g_utf8_get_char(b, q) \in M) # not THEN q ELSE f[q]]
             back == CHOOSE f : Full(f)
  <1>1. utf8_find_last_of(b, i, match, len, not) = utf8_char_offset(b, back[pstr])
    BY DEF utf8_find_last_of
  <1>2. Full(back)
    <2>1. \E f : Full(f)
      BY BackStepwise
    <2> HIDE DEF Full
    <2> QED  BY <2>1
  <1>3. Backwards(b, back, M, not)
    <2> HIDE DEF back, b
    <2> QED  BY <1>2 DEF Backwards
  <1> HIDE DEF back, Full
  <1>4. \A k \in 0 .. L - 1 : \A p \in Offset(cs, k) + 1 .. Offset(cs, k + 1) : LastIn(cs, A, k + 1, back[p])
    BY <1>3, BackFrom
  <1>5. L \in Nat /\ N \in Nat /\ N < npos /\ npos \in Nat /\ Offset(cs, L) = N /\ Offset(cs, 0) = 0
    BY EncodeBytes, OffsetEnds DEF Texts, npos
  <1>6. start = IF i <= L THEN Offset(cs, i) ELSE npos
    BY ByteOffsetIs
  <1>7. A \subseteq 0 .. L - 1
    BY DEF CharsIn
  <1>8. \A j, k \in 0 .. L : Offset(cs, j) \in 0 .. N /\ (j < k <=> Offset(cs, j) < Offset(cs, k))
    BY OffsetOrder
  <1>9. back[0] = npos
    <2> HIDE DEF b
    <2>1. 0 \in 0 .. Len(b)
      BY <1>5
    <2> QED  BY <1>3, <2>1 DEF Backwards
  <1>14. pstr = IF start < N THEN start + 1 ELSE N
    OBVIOUS
  <1> HIDE DEF b, N, A, L, start, pstr
  <1>10. CASE i < L
    <2>1. i \in 0 .. L - 1 /\ i \in 0 .. L /\ L \in 0 .. L /\ i + 1 \in 0 .. L /\ i < i + 1
      BY <1>5, <1>10
    <2>2. start = Offset(cs, i) /\ start \in 0 .. N /\ start < N /\ Offset(cs, i + 1) \in 0 .. N /\ start < Offset(cs, i + 1)
      BY <1>5, <1>6, <1>8, <1>10, <2>1
    <2>3. pstr \in Offset(cs, i) + 1 .. Offset(cs, i + 1)
      BY <1>5, <1>14, <2>2
    <2>4. LastIn(cs, A, i + 1, back[pstr])
      BY <1>4, <2>1, <2>3
    <2>5. SameUpTo(A, i + 1, i)
      BY <1>7, <2>1 DEF SameUpTo
    <2> DEFINE x == back[pstr]
    <2>6. A \subseteq 0 .. Len(cs) - 1
      BY <1>7 DEF L
    <2> HIDE DEF x
    <2>7. LastIn(cs, A, i + 1, x)
      BY <2>4 DEF x
    <2>8. utf8_char_offset(Encode(cs), x) = Characters!Greatest(UpTo(A, i))
      BY <2>5, <2>6, <2>7, LastHit
    <2> QED  BY <1>1, <2>8 DEF A, b, x, UpTo
  <1>11. CASE ~(i < L)
    <2>1. L \in 0 .. L
      BY <1>5
    <2>2. pstr = N
      <3>1. ~(start < N)
        <4>1. CASE i = L
          BY <1>5, <1>6, <4>1
        <4>2. CASE i # L
          BY <1>5, <1>6, <1>11, <4>2
        <4> QED  BY <4>1, <4>2
      <3> QED  BY <1>14, <3>1
    <2>3. LastIn(cs, A, L, back[pstr])
      <3>1. CASE L = 0
        <4>1. back[pstr] = npos
          BY <1>5, <1>9, <2>2, <3>1
        <4>2. \A j \in A : ~(j < L)
          BY <1>7, <3>1
        <4> QED  BY <4>1, <4>2 DEF LastIn
      <3>2. CASE L # 0
        <4>1. L - 1 \in 0 .. L - 1 /\ (L - 1) + 1 = L /\ L - 1 \in 0 .. L /\ L - 1 < L
          BY <1>5, <3>2
        <4>2. Offset(cs, L - 1) < N /\ Offset(cs, L - 1) \in 0 .. N
          BY <1>5, <1>8, <2>1, <4>1
        <4>3. N \in Offset(cs, L - 1) + 1 .. Offset(cs, L)
          BY <1>5, <4>2
        <4> QED  BY <1>4, <2>2, <4>1, <4>3
      <3> QED  BY <3>1, <3>2
    <2>4. SameUpTo(A, L, i)
      BY <1>5, <1>7, <1>11 DEF SameUpTo
    <2> DEFINE x == back[pstr]
    <2>6. A \subseteq 0 .. Len(cs) - 1
      BY <1>7 DEF L
    <2> HIDE DEF x
    <2>7. LastIn(cs, A, L, x)
      BY <2>3 DEF x
    <2>8. utf8_char_offset(Encode(cs), x) = Characters!Greatest(UpTo(A, i))
      BY <2>4, <2>6, <2>7, LastHit
    <2> QED  BY <1>1, <2>8 DEF A, b, x, UpTo
  <1> QED  BY <1>10, <1>11

\* find_first_of() and find_first_not_of().
LEMMA FindFirstIs ==
  ASSUME NEW cs \in Texts, Len(Encode(cs)) < npos, NEW i \in Nat, NEW match, NEW len, NEW M,
         M = Range(g_utf8_to_ucs4_fast(match, len)), NEW not
  PROVE  utf8_find_first_of(Encode(cs), i, match, len, not)
           = Characters!Least({k \in CharsIn(cs, M, not) : k >= i})
  <1> DEFINE b == Encode(cs)
             A == CharsIn(cs, M, not)
             start == utf8_byte_offset(b, i)
             hits == {p \in Steps(b) : p >= start /\ (g_utf8_get_char(b, p) \in M) # not}
  <1>1. utf8_find_first_of(b, i, match, len, not) = Counted(b, start, i, hits)
    BY DEF utf8_find_first_of, Counted
  <1>2. HitsFrom(cs, A, start, hits)
    <2>1. \A k \in 0 .. Len(cs) - 1 : g_utf8_get_char(b, Offset(cs, k)) = cs[k + 1]
      BY CharRead
    <2>2. Steps(b) = {Offset(cs, k) : k \in 0 .. Len(cs) - 1}
      BY StepsAre DEF Starts
    <2> HIDE DEF b, start
    <2> QED  BY <2>1, <2>2 DEF HitsFrom, CharsIn
  <1>3. A \subseteq 0 .. Len(cs) - 1
    BY DEF CharsIn
  <1> HIDE DEF hits, A
  <1>4. Counted(b, start, i, hits) = Characters!Least(Onwards(A, i))
    BY <1>2, <1>3, FirstHit, ZenonT(60)
  <1> QED  BY <1>1, <1>4 DEF A, Onwards

\* A C string with a count of bytes: the characters that begin within it.
LEMMA CountedMatch ==
  ASSUME NEW s \in CountedMatches, NEW n \in Nat
  PROVE  Range(g_utf8_to_ucs4_fast(Encode(s), n))
           = {s[k] : k \in {j \in DOMAIN s : Characters!Bytes(SubSeq(s, 1, j - 1)) < n}}
  <1> DEFINE T == {k \in 0 .. Len(s) : k = 0 \/ Offset(s, k - 1) < n}
  <1>1. s \in Texts /\ 0 \notin Range(s) /\ Len(s) \in Nat /\ s \in Seq(Unicode) /\ DOMAIN s = 1 .. Len(s)
    BY UstringAssumption DEF Texts
  <1>2. 0 \in T /\ T \subseteq 0 .. Len(s)
    BY <1>1
  <1> HIDE DEF T
  <1>3. PICK m \in T : \A k \in T : k <= m
    BY <1>1, <1>2, Highest
  <1>4. m \in 0 .. Len(s) /\ (m = 0 \/ Offset(s, m - 1) < n)
    BY <1>3 DEF T
  <1>5. \A k \in 0 .. Len(s) : Offset(s, k) \in Nat
    BY <1>1, OffsetOrder
  <1>6. \A k \in 1 .. Len(s) : Offset(s, k - 1) < n <=> k <= m
    <2> SUFFICES ASSUME NEW k \in 1 .. Len(s) PROVE Offset(s, k - 1) < n <=> k <= m
      OBVIOUS
    <2>1. CASE Offset(s, k - 1) < n
      <3>1. k \in T
        BY <1>1, <2>1 DEF T
      <3> QED  BY <1>3, <2>1, <3>1
    <2>2. CASE k <= m
      <3>1. k - 1 \in 0 .. Len(s) /\ m - 1 \in 0 .. Len(s) /\ (k - 1 = m - 1 \/ k - 1 < m - 1) /\ m # 0
        BY <1>1, <1>4, <2>2
      <3>2. Offset(s, k - 1) = Offset(s, m - 1) \/ Offset(s, k - 1) < Offset(s, m - 1)
        BY <1>1, <3>1, OffsetOrder
      <3>3. Offset(s, k - 1) \in Nat /\ Offset(s, m - 1) \in Nat
        BY <1>5, <3>1
      <3> QED  BY <1>4, <2>2, <3>1, <3>2, <3>3
    <2> QED  BY <1>1, <1>4, <2>1, <2>2
  <1>7. g_utf8_to_ucs4_fast(Encode(s), n) = SubSeq(s, 1, m)
    <2>1. \A k \in 0 .. m - 1 : s[k + 1] # 0 /\ (n < 0 \/ Offset(s, k) < n)
      <3> SUFFICES ASSUME NEW k \in 0 .. m - 1 PROVE s[k + 1] # 0 /\ Offset(s, k) < n
        OBVIOUS
      <3>1. k + 1 \in 1 .. Len(s) /\ k + 1 <= m /\ (k + 1) - 1 = k
        BY <1>1, <1>4
      <3>2. Offset(s, k) < n
        BY <1>6, <3>1
      <3> QED  BY <1>1, <3>1, <3>2 DEF Range
    <2>2. m < Len(s) => s[m + 1] = 0 \/ (n >= 0 /\ Offset(s, m) >= n)
      <3> SUFFICES ASSUME m < Len(s) PROVE n >= 0 /\ Offset(s, m) >= n
        OBVIOUS
      <3>1. m + 1 \in 1 .. Len(s) /\ ~(m + 1 <= m) /\ (m + 1) - 1 = m
        BY <1>1, <1>4
      <3>2. ~(Offset(s, m) < n)
        BY <1>6, <3>1
      <3> QED  BY <1>4, <1>5, <3>2
    <2>3. n \in Int
      OBVIOUS
    <2> QED  BY <1>1, <1>4, <2>1, <2>2, <2>3, Ucs4Is
  <1>8. Range(SubSeq(s, 1, m)) = {s[k] : k \in 1 .. m}
    <2> DEFINE x == SubSeq(s, 1, m)
    <2>1. m \in Nat /\ m <= Len(s)
      BY <1>1, <1>4
    <2>2. x \in Seq(Unicode) /\ Len(x) = m /\ \A k \in 1 .. m : x[k] = s[k]
      BY <1>1, <2>1
    <2>3. DOMAIN x = 1 .. m
      BY <2>1, <2>2
    <2> HIDE DEF x
    <2> QED  BY <2>2, <2>3 DEF Range, x
  <1>9. {j \in DOMAIN s : Characters!Bytes(SubSeq(s, 1, j - 1)) < n} = 1 .. m
    <2>1. \A j \in 1 .. Len(s) : Characters!Bytes(SubSeq(s, 1, j - 1)) = Offset(s, j - 1)
      <3> SUFFICES ASSUME NEW j \in 1 .. Len(s)
                   PROVE  Characters!Bytes(SubSeq(s, 1, j - 1)) = Offset(s, j - 1)
        OBVIOUS
      <3>1. j - 1 \in 0 .. Len(s)
        BY <1>1
      <3>2. SubSeq(s, 1, j - 1) \in Texts
        BY <1>1, <3>1 DEF Texts
      <3> QED  BY <3>2, BytesAre DEF Offset
    <2>2. \A j \in 1 .. Len(s) : Characters!Bytes(SubSeq(s, 1, j - 1)) < n <=> j <= m
      BY <1>6, <2>1
    <2>3. \A j : j \in 1 .. m <=> j \in 1 .. Len(s) /\ j <= m
      BY <1>1, <1>4
    <2> QED  BY <1>1, <2>2, <2>3
  <1> QED  BY <1>7, <1>8, <1>9

\* A text that is shorter than npos is all of it.
LEMMA MidWhole ==
  ASSUME NEW s \in Texts, Len(Encode(s)) < npos
  PROVE  Characters!Mid(s, 0, npos) = s
  <1>1. Len(s) \in Nat /\ Len(Encode(s)) \in Nat /\ npos \in Nat /\ s \in Seq(Unicode)
    BY EncodeBytes DEF Texts, npos
  <1>2. 0 \in 0 .. Len(s) /\ Len(s) \in 0 .. Len(s)
    BY <1>1
  <1>3. Offset(s, 0) + (Len(s) - 0) <= Offset(s, Len(s))
    BY <1>1, <1>2, OffsetsGrow
  <1>4. Len(s) <= Len(Encode(s))
    BY <1>1, <1>3, OffsetEnds
  <1>5. Characters!Mid(s, 0, npos) = SubSeq(s, 1, Len(s))
    <2>1. ~(0 + npos <= Len(s)) /\ 0 + 1 = 1
      BY <1>1, <1>4
    <2> QED  BY <1>1, <1>2, <2>1, MidIs
  <1> QED  BY <1>1, <1>5, SubSeqFull

\* The characters that find_*_of() looks for.
LEMMA MatchIs ==
  ASSUME Inv, NEW src \in Matches
  PROVE  Range(g_utf8_to_ucs4_fast(MatchBytes(src), MatchSize(src))) = Taken(src)
  <1>1. CASE src \in Whole
    <2> DEFINE cs == CharsOf(str)[src.o]
    <2>1. src.k = "ustring" /\ src.o \in {"s", "t"}
      BY <1>1 DEF Whole
    <2>2. cs \in Texts /\ str[src.o] = Encode(cs)
      BY <2>1, StringText DEF Inv
    <2>3. Characters!Text(src) = cs /\ MatchBytes(src) = Encode(cs) /\ MatchSize(src) = Len(Encode(cs))
      BY <2>1, <2>2 DEF Characters!Text, MatchBytes, MatchSize
    <2> HIDE DEF cs
    <2>4. Len(Encode(cs)) \in Int /\ Len(Encode(cs)) >= Len(Encode(cs))
      BY <2>2, EncodeBytes
    <2> QED  BY <2>1, <2>2, <2>3, <2>4, Ucs4Whole DEF Taken, Ended
  <1>2. CASE src \in Cstr
    <2>1. src.k = "cstr" /\ src.s \in Literals
      BY <1>2 DEF Cstr
    <2>2. src.s \in Texts
      BY <2>1, LiteralText
    <2>3. Characters!Text(src) = src.s /\ MatchBytes(src) = Encode(src.s) /\ MatchSize(src) = -1
      BY <2>1 DEF Characters!Text, MatchBytes, MatchSize
    <2>4. -1 \in Int /\ -1 < 0
      OBVIOUS
    <2> QED  BY <2>1, <2>2, <2>3, <2>4, Ucs4Whole DEF Taken, Ended
  <1>3. CASE src \in [k : {"cstrn"}, s : CountedMatches, n : Counts]
    <2>1. src.k = "cstrn" /\ src.s \in CountedMatches /\ src.n \in Nat
      BY <1>3, UstringAssumption
    <2>2. /\ Characters!Text(src) = Characters!Mid(src.s, 0, src.n) /\ MatchBytes(src) = Encode(src.s)
          /\ MatchSize(src) = IF src.n = npos THEN -1 ELSE src.n
      BY <2>1 DEF Characters!Text, MatchBytes, MatchSize
    <2>3. CASE src.n = npos
      <3>1. src.s \in Texts /\ Len(Encode(src.s)) < npos
        BY <2>1, UstringAssumption DEF Texts
      <3>2. Characters!Text(src) = src.s
        BY <2>2, <2>3, <3>1, MidWhole
      <3>3. -1 \in Int /\ -1 < 0
        OBVIOUS
      <3> QED  BY <2>2, <2>3, <3>1, <3>2, <3>3, Ucs4Whole DEF Taken, Ended
    <2>4. CASE src.n # npos
      BY <2>1, <2>2, <2>4, CountedMatch DEF Taken
    <2> QED  BY <2>3, <2>4
  <1> QED  BY <1>1, <1>2, <1>3 DEF Matches

\* A search for the characters taken is the one promised, or departs from it.
LEMMA SearchTaken ==
  ASSUME Inv, Idle, NEW op \in Characters!SetSearches, NEW i, NEW src, NEW ret,
         Ask(Search(op, i, src), ret), call'.op = op, call'.src = src, call'.ret = ret,
         Characters!FoundAmong(call', Taken(src)) = ret
  PROVE  Allowed
  <1>1. call'.op \in QueryOps
    BY DEF Characters!SetSearches, QueryOps
  <1>2. CASE Taken(src) = Range(Characters!Text(src))
    <2>1. Characters!Answer(call') = Characters!FoundAmong(call', Characters!Range(Characters!Text(call'.src)))
      BY DEF Characters!Answer, Characters!SetSearches, Characters!PlaceSearches
    <2>2. Characters!Range(Characters!Text(src)) = Range(Characters!Text(src))
      BY DEF Characters!Range, Range
    <2>3. Characters!Answer(call') = ret
      BY <1>2, <2>1, <2>2
    <2> QED  BY <1>1, <2>3, QueryStep DEF Allowed
  <1>3. CASE Taken(src) # Range(Characters!Text(src))
    <2>1. MatchesOthers(call')
      BY <1>3 DEF MatchesOthers
    <2> QED  BY <1>1, <2>1, DepartStep DEF Allowed
  <1> QED  BY <1>2, <1>3

\* find_first_of(), find_last_of() and the complements.
LEMMA FindOfStep ==
  ASSUME Inv, FindFirstOf \/ FindLastOf \/ FindFirstNotOf \/ FindLastNotOf
  PROVE  Allowed
  <1> DEFINE cs == CharsOf(str).s
             first(i, src, not) == utf8_find_first_of(str.s, i, MatchBytes(src), MatchSize(src), not)
             last(i, src, not) == utf8_find_last_of(str.s, i, MatchBytes(src), MatchSize(src), not)
  <1>1. cs \in Texts /\ str.s = Encode(cs) /\ Len(Encode(cs)) < npos
    BY TextOfS
  <1>2. Idle
    BY DEF FindFirstOf, FindLastOf, FindFirstNotOf, FindLastNotOf
  <1>3. ASSUME NEW i \in Positions, NEW src \in Matches, NEW not
        PROVE  /\ first(i, src, not) = Characters!Least({k \in CharsIn(cs, Taken(src), not) : k >= i})
               /\ last(i, src, not) = Characters!Greatest({k \in CharsIn(cs, Taken(src), not) : k <= i})
    <2>1. i \in Nat
      BY UstringAssumption
    <2>2. Taken(src) = Range(g_utf8_to_ucs4_fast(MatchBytes(src), MatchSize(src)))
      BY MatchIs
    <2> DEFINE W == Taken(src)
               match == MatchBytes(src)
               len == MatchSize(src)
    <2>3. W = Range(g_utf8_to_ucs4_fast(match, len))
      BY <2>2
    <2> HIDE DEF W, match, len
    <2>4. utf8_find_first_of(Encode(cs), i, match, len, not) = Characters!Least({k \in CharsIn(cs, W, not) : k >= i})
      BY <1>1, <2>1, <2>3, FindFirstIs
    <2>5. utf8_find_last_of(Encode(cs), i, match, len, not) = Characters!Greatest({k \in CharsIn(cs, W, not) : k <= i})
      BY <1>1, <2>1, <2>3, FindLastIs, SMTT(40)
    <2> QED  BY <1>1, <2>4, <2>5 DEF W, match, len
  <1> HIDE DEF cs, first, last
  <1>5. ASSUME NEW op \in {"find_first_of", "find_first_not_of"}, NEW i \in Positions, NEW src \in Matches,
               NEW not, not = (op = "find_first_not_of"), Ask(Search(op, i, src), first(i, src, not))
        PROVE  Allowed
    <2>1. call'.op = op /\ call'.i = i /\ call'.src = src /\ call'.ret = first(i, src, not)
      BY <1>5 DEF Ask, Search
    <2>2. Characters!FoundAmong(call', Taken(src)) = Characters!Least({k \in Characters!Among(Taken(src), not) : k >= i})
      BY <1>5, <2>1 DEF Characters!FoundAmong, Characters!From
    <2>3. Characters!Among(Taken(src), not) = CharsIn(cs, Taken(src), not)
      BY DEF Characters!Among, CharsIn, cs
    <2>4. Characters!FoundAmong(call', Taken(src)) = first(i, src, not)
      BY <1>3, <2>2, <2>3
    <2>5. op \in Characters!SetSearches
      BY <1>5 DEF Characters!SetSearches
    <2> QED  BY <1>2, <1>5, <2>1, <2>4, <2>5, SearchTaken
  <1>6. ASSUME NEW op \in {"find_last_of", "find_last_not_of"}, NEW i \in Positions, NEW src \in Matches,
               NEW not, not = (op = "find_last_not_of"), Ask(Search(op, i, src), last(i, src, not))
        PROVE  Allowed
    <2>1. call'.op = op /\ call'.i = i /\ call'.src = src /\ call'.ret = last(i, src, not)
      BY <1>6 DEF Ask, Search
    <2>2. Characters!FoundAmong(call', Taken(src)) = Characters!Greatest({k \in Characters!Among(Taken(src), not) : k <= i})
      BY <1>6, <2>1 DEF Characters!FoundAmong, Characters!UpTo
    <2>3. Characters!Among(Taken(src), not) = CharsIn(cs, Taken(src), not)
      BY DEF Characters!Among, CharsIn, cs
    <2>4. Characters!FoundAmong(call', Taken(src)) = last(i, src, not)
      BY <1>3, <2>2, <2>3
    <2>5. op \in Characters!SetSearches
      BY <1>6 DEF Characters!SetSearches
    <2> QED  BY <1>2, <1>6, <2>1, <2>4, <2>5, SearchTaken
  <1>7. CASE FindFirstOf
    <2>1. PICK i \in Positions, src \in Matches : Ask(Search("find_first_of", i, src), first(i, src, FALSE))
      BY <1>7 DEF FindFirstOf, first
    <2> QED  BY <1>5, <2>1
  <1>8. CASE FindFirstNotOf
    <2>1. PICK i \in Positions, src \in Matches : Ask(Search("find_first_not_of", i, src), first(i, src, TRUE))
      BY <1>8 DEF FindFirstNotOf, first
    <2> QED  BY <1>5, <2>1
  <1>9. CASE FindLastOf
    <2>1. PICK i \in Positions, src \in Matches : Ask(Search("find_last_of", i, src), last(i, src, FALSE))
      BY <1>9 DEF FindLastOf, last
    <2> QED  BY <1>6, <2>1
  <1>10. CASE FindLastNotOf
    <2>1. PICK i \in Positions, src \in Matches : Ask(Search("find_last_not_of", i, src), last(i, src, TRUE))
      BY <1>10 DEF FindLastNotOf, last
    <2> QED  BY <1>6, <2>1
  <1> QED  BY <1>7, <1>8, <1>9, <1>10

\* find_first_not_of() of a character.
LEMMA FirstNotChar ==
  ASSUME Inv, NEW i \in Nat, NEW uc
  PROVE  find_first_not_char(i, uc) = Characters!Least({k \in CharIn(CharsOf(str).s, uc, TRUE) : k >= i})
  <1> DEFINE cs == CharsOf(str).s
             A == CharIn(cs, uc, TRUE)
             start == utf8_byte_offset(str.s, i)
             hits == {p \in Steps(str.s) : p >= start /\ g_utf8_get_char(str.s, p) # uc}
  <1>1. cs \in Texts /\ str.s = Encode(cs) /\ Len(Encode(cs)) < npos
    BY TextOfS
  <1>2. find_first_not_char(i, uc) = Counted(str.s, start, i, hits)
    BY DEF find_first_not_char, Counted
  <1> HIDE DEF cs
  <1>3. HitsFrom(cs, A, start, hits)
    <2>1. \A k \in 0 .. Len(cs) - 1 : g_utf8_get_char(str.s, Offset(cs, k)) = cs[k + 1]
      BY <1>1, CharRead
    <2>2. Steps(str.s) = {Offset(cs, k) : k \in 0 .. Len(cs) - 1}
      BY <1>1, StepsAre DEF Starts
    <2> HIDE DEF start
    <2> QED  BY <2>1, <2>2 DEF HitsFrom, CharIn
  <1>4. A \subseteq 0 .. Len(cs) - 1
    BY DEF CharIn
  <1>5. start = utf8_byte_offset(Encode(cs), i)
    BY <1>1
  <1> HIDE DEF hits, A, start
  <1>6. Counted(Encode(cs), start, i, hits) = Characters!Least(Onwards(A, i))
    BY <1>1, <1>3, <1>4, <1>5, FirstHit, ZenonT(60)
  <1> QED  BY <1>1, <1>2, <1>6 DEF A, cs, Onwards

\* find_last_not_of() of a character, which counts from the beginning.
LEMMA LastNotChar ==
  ASSUME Inv, NEW i \in Nat, NEW uc
  PROVE  find_last_not_char(i, uc) = Characters!Greatest({k \in CharIn(CharsOf(str).s, uc, TRUE) : k <= i})
  <1> DEFINE cs == CharsOf(str).s
             b == str.s
             index(p) == Cardinality({q \in Steps(b) : q < p})
             hits == {p \in Steps(b) : index(p) <= i /\ g_utf8_get_char(b, p) # uc}
             T == {k \in CharIn(cs, uc, TRUE) : k <= i}
  <1>1. cs \in Texts /\ b = Encode(cs) /\ Len(Encode(cs)) < npos /\ Len(cs) \in Nat
    BY TextOfS
  <1>2. find_last_not_char(i, uc) = IF hits = {} THEN <<"npos">> ELSE <<"num", index(Max(hits))>>
    BY DEF find_last_not_char
  <1> HIDE DEF cs, b
  <1>3. \A k \in 0 .. Len(cs) - 1 : g_utf8_get_char(b, Offset(cs, k)) = cs[k + 1]
    BY <1>1, CharRead
  <1>4. Steps(b) = {Offset(cs, k) : k \in 0 .. Len(cs) - 1}
    BY <1>1, StepsAre DEF Starts
  <1>5. \A k \in 0 .. Len(cs) - 1 : k \in 0 .. Len(cs) /\ k \in Int
    BY <1>1
  <1>6. \A k \in 0 .. Len(cs) : index(Offset(cs, k)) = k
    <2>1. \A k \in 0 .. Len(cs) : g_utf8_pointer_to_offset(b, Offset(cs, k)) = k
      BY <1>1, PointerToOffset
    <2> QED  BY <2>1 DEF g_utf8_pointer_to_offset
  <1>7. \A j, k \in 0 .. Len(cs) : Offset(cs, j) \in 0 .. Len(b) /\ (j < k <=> Offset(cs, j) < Offset(cs, k))
    BY <1>1, OffsetOrder
  <1> HIDE DEF index
  <1>8. \A p : p \in hits <=> \E k \in T : p = Offset(cs, k)
    <2>1. ASSUME NEW p \in hits PROVE \E k \in T : p = Offset(cs, k)
      <3>1. PICK k \in 0 .. Len(cs) - 1 : p = Offset(cs, k)
        BY <1>4
      <3>2. k <= i /\ (cs[k + 1] = uc) # TRUE
        BY <1>3, <1>5, <1>6, <3>1
      <3> QED  BY <3>1, <3>2 DEF CharIn
    <2>2. ASSUME NEW k \in T PROVE Offset(cs, k) \in hits
      <3>1. k \in 0 .. Len(cs) - 1 /\ k <= i /\ cs[k + 1] # uc
        BY DEF CharIn
      <3>2. Offset(cs, k) \in Steps(b) /\ index(Offset(cs, k)) <= i /\ g_utf8_get_char(b, Offset(cs, k)) # uc
        BY <1>3, <1>4, <1>5, <1>6, <3>1
      <3> QED  BY <3>2
    <2> HIDE DEF hits, T
    <2> QED  BY <2>1, <2>2
  <1>9. \A k \in T : k \in 0 .. Len(cs) /\ k \in Int
    BY <1>5 DEF CharIn
  <1> HIDE DEF hits, T
  <1>10. CASE T = {}
    <2>1. hits = {}
      BY <1>8, <1>10
    <2> QED  BY <1>2, <1>10, <2>1 DEF Characters!Greatest, T, cs
  <1>11. CASE T # {}
    <2>1. PICK m \in T : \A j \in T : j <= m
      <3>1. T \subseteq 0 .. Len(cs)
        BY <1>9
      <3> QED  BY <1>1, <1>11, <3>1, Highest
    <2>2. Offset(cs, m) \in hits
      BY <1>8
    <2>3. ASSUME NEW p \in hits PROVE p \in Int /\ p <= Offset(cs, m)
      <3>1. PICK j \in T : p = Offset(cs, j)
        BY <1>8
      <3>2. j \in 0 .. Len(cs) /\ m \in 0 .. Len(cs) /\ ~(m < j)
        BY <1>9, <2>1
      <3>3. Offset(cs, j) \in 0 .. Len(b) /\ Offset(cs, m) \in 0 .. Len(b) /\ ~(Offset(cs, m) < Offset(cs, j))
        BY <1>7, <3>2
      <3> QED  BY <3>1, <3>3
    <2>4. Max(hits) = Offset(cs, m)
      <3>1. hits \subseteq Int
        BY <2>3
      <3> QED  BY <2>2, <2>3, <3>1, MaxIs
    <2>5. Characters!Max(T) = m
      <3>1. T \subseteq Int
        BY <1>9
      <3> QED  BY <2>1, <3>1, MaxIs
    <2>6. index(Max(hits)) = m /\ hits # {}
      BY <1>6, <1>9, <2>2, <2>4
    <2>7. find_last_not_char(i, uc) = <<"num", m>>
      BY <1>2, <2>6
    <2>8. Characters!Greatest(T) = <<"num", m>>
      BY <1>11, <2>5 DEF Characters!Greatest
    <2> QED  BY <2>7, <2>8 DEF T, cs
  <1> QED  BY <1>10, <1>11

\* find_first_not_of() and find_last_not_of() of a character.
LEMMA FindNotCharStep ==
  ASSUME Inv, FindNotChar
  PROVE  Characters!Next
  <1>1. PICK i \in Positions, uc \in Chars :
          \/ Ask(SearchChar("find_first_not_char", i, uc), find_first_not_char(i, uc))
          \/ Ask(SearchChar("find_last_not_char", i, uc), find_last_not_char(i, uc))
    BY DEF FindNotChar
  <1> DEFINE cs == CharsOf(str).s
             S == CharIn(cs, uc, TRUE)
             fore == find_first_not_char(i, uc)
             back == find_last_not_char(i, uc)
  <1>2. Idle /\ i \in Nat
    BY UstringAssumption DEF FindNotChar
  <1>3. fore = Characters!Least({k \in S : k >= i}) /\ back = Characters!Greatest({k \in S : k <= i})
    BY <1>2, FirstNotChar, LastNotChar
  <1> HIDE DEF fore, back, S, cs
  <1>4. CASE Ask(SearchChar("find_first_not_char", i, uc), fore)
    <2>1. call'.op = "find_first_not_char" /\ call'.i = i /\ call'.uc = uc /\ call'.ret = fore
      BY <1>4 DEF Ask, SearchChar
    <2>2. Characters!Answer(call') = Characters!FoundPlace(call')
      BY <2>1 DEF Characters!Answer, Characters!SetSearches, Characters!PlaceSearches
    <2>3. Characters!FoundPlace(call') = Characters!Least({k \in Characters!Among({call'.uc}, TRUE) : k >= i})
      BY <2>1 DEF Characters!FoundPlace, Characters!From, Characters!UpTo
    <2>4. Characters!Among({call'.uc}, TRUE) = S
      BY <2>1 DEF Characters!Among, S, cs, CharIn
    <2>5. call'.op \in QueryOps
      BY <2>1 DEF QueryOps
    <2> QED  BY <1>2, <1>3, <1>4, <2>1, <2>2, <2>3, <2>4, <2>5, QueryStep
  <1>5. CASE Ask(SearchChar("find_last_not_char", i, uc), back)
    <2>1. call'.op = "find_last_not_char" /\ call'.i = i /\ call'.uc = uc /\ call'.ret = back
      BY <1>5 DEF Ask, SearchChar
    <2>2. Characters!Answer(call') = Characters!FoundPlace(call')
      BY <2>1 DEF Characters!Answer, Characters!SetSearches, Characters!PlaceSearches
    <2>3. Characters!FoundPlace(call') = Characters!Greatest({k \in Characters!Among({call'.uc}, TRUE) : k <= i})
      BY <2>1 DEF Characters!FoundPlace, Characters!From, Characters!UpTo
    <2>4. Characters!Among({call'.uc}, TRUE) = S
      BY <2>1 DEF Characters!Among, S, cs, CharIn
    <2>5. call'.op \in QueryOps
      BY <2>1 DEF QueryOps
    <2> QED  BY <1>2, <1>3, <1>5, <2>1, <2>2, <2>3, <2>4, <2>5, QueryStep
  <1> QED  BY <1>1, <1>4, <1>5 DEF fore, back

-----------------------------------------------------------------------------
(* Comparisons.                                                              *)

\* The order of sequences of numbers: by the first difference, or the end.
Precedes(a, b) ==
  \E j \in 1 .. Len(a) :
    /\ j \in 1 .. Len(b) /\ a[j] \in Nat /\ b[j] \in Nat /\ a[j] < b[j]
    /\ \A m \in 1 .. j - 1 : a[m] = b[m]
Begins(a, b) == Len(a) <= Len(b) /\ \A m \in 1 .. Len(a) : a[m] = b[m]

\* g_utf8_collate() and the order of characters, at the first difference.
LEMMA CollateFirst ==
  ASSUME NEW a, NEW b, Len(a) \in Nat, Len(b) \in Nat, Precedes(a, b)
  PROVE  /\ g_utf8_collate(a, b) = -1 /\ g_utf8_collate(b, a) = 1
         /\ Characters!Order(a, b) = -1 /\ Characters!Order(b, a) = 1
  <1>1. PICK j \in 1 .. Len(a) :
          /\ j \in 1 .. Len(b) /\ a[j] \in Nat /\ b[j] \in Nat /\ a[j] < b[j]
          /\ \A m \in 1 .. j - 1 : a[m] = b[m]
    BY DEF Precedes
  <1> DEFINE least(x, y) == Min({Len(x), Len(y)})
             differ(x, y) == {k \in 1 .. least(x, y) : x[k] # y[k]}
  <1>2. ASSUME NEW x, NEW y, Len(x) \in Nat, Len(y) \in Nat, j \in 1 .. Len(x), j \in 1 .. Len(y),
               x[j] # y[j], \A m \in 1 .. j - 1 : x[m] = y[m]
        PROVE  /\ Min(differ(x, y)) = j /\ differ(x, y) # {}
               /\ Characters!Min({Len(x), Len(y)}) = least(x, y)
               /\ Characters!Min(differ(x, y)) = j
    <2> DEFINE n == IF Len(x) <= Len(y) THEN Len(x) ELSE Len(y)
               T == {Len(x), Len(y)}
    <2>1. n \in T /\ T \subseteq Int /\ \A z \in T : n <= z
      BY <1>2
    <2>2. Min(T) = n /\ Characters!Min(T) = n
      <3> HIDE DEF n, T
      <3> QED  BY <2>1, MinIs
    <2>3. j \in 1 .. n /\ n \in Nat
      BY <1>2
    <2> DEFINE D == {k \in 1 .. n : x[k] # y[k]}
    <2> HIDE DEF n
    <2>4. \A k \in 1 .. n : k \in Int /\ (k < j => k \in 1 .. j - 1)
      BY <2>3
    <2>5. j \in D /\ D \subseteq Int /\ \A k \in D : ~(k < j)
      BY <1>2, <2>3, <2>4
    <2>6. \A k \in D : j <= k
      BY <2>3, <2>5
    <2> HIDE DEF D
    <2>7. Min(D) = j /\ Characters!Min(D) = j
      BY <2>5, <2>6, MinIs
    <2>8. differ(x, y) = D
      BY <2>2 DEF D
    <2> HIDE DEF differ
    <2> QED  BY <2>2, <2>5, <2>7, <2>8
  <1>3. a[j] # b[j] /\ b[j] # a[j] /\ ~(b[j] < a[j])
    BY <1>1
  <1>4. \A m \in 1 .. j - 1 : b[m] = a[m]
    BY <1>1
  <1>5. /\ Min(differ(a, b)) = j /\ differ(a, b) # {}
        /\ Characters!Min({Len(a), Len(b)}) = least(a, b)
        /\ Characters!Min(differ(a, b)) = j
    <2> HIDE DEF differ, least
    <2> QED  BY <1>1, <1>2, <1>3
  <1>6. /\ Min(differ(b, a)) = j /\ differ(b, a) # {}
        /\ Characters!Min({Len(b), Len(a)}) = least(b, a)
        /\ Characters!Min(differ(b, a)) = j
    <2> HIDE DEF differ, least
    <2> QED  BY <1>1, <1>2, <1>3, <1>4
  <1>7. g_utf8_collate(a, b) = IF differ(a, b) # {} THEN (IF a[Min(differ(a, b))] < b[Min(differ(a, b))] THEN -1 ELSE 1)
                               ELSE IF Len(a) = Len(b) THEN 0 ELSE IF Len(a) < Len(b) THEN -1 ELSE 1
    BY DEF g_utf8_collate
  <1>8. g_utf8_collate(b, a) = IF differ(b, a) # {} THEN (IF b[Min(differ(b, a))] < a[Min(differ(b, a))] THEN -1 ELSE 1)
                               ELSE IF Len(b) = Len(a) THEN 0 ELSE IF Len(b) < Len(a) THEN -1 ELSE 1
    BY DEF g_utf8_collate
  <1>9. Characters!Order(a, b) = IF differ(a, b) # {}
                                 THEN (IF a[Characters!Min(differ(a, b))] < b[Characters!Min(differ(a, b))] THEN -1 ELSE 1)
                                 ELSE IF Len(a) = Len(b) THEN 0 ELSE IF Len(a) < Len(b) THEN -1 ELSE 1
    BY <1>5 DEF Characters!Order
  <1>10. Characters!Order(b, a) = IF differ(b, a) # {}
                                  THEN (IF b[Characters!Min(differ(b, a))] < a[Characters!Min(differ(b, a))] THEN -1 ELSE 1)
                                  ELSE IF Len(b) = Len(a) THEN 0 ELSE IF Len(b) < Len(a) THEN -1 ELSE 1
    BY <1>6 DEF Characters!Order
  <1> HIDE DEF differ
  <1> QED  BY <1>1, <1>3, <1>5, <1>6, <1>7, <1>8, <1>9, <1>10

\* At the end of one of them.
LEMMA CollateEnd ==
  ASSUME NEW a, NEW b, Len(a) \in Nat, Len(b) \in Nat, Begins(a, b)
  PROVE  /\ g_utf8_collate(a, b) = (IF Len(a) = Len(b) THEN 0 ELSE -1)
         /\ g_utf8_collate(b, a) = (IF Len(a) = Len(b) THEN 0 ELSE 1)
         /\ Characters!Order(a, b) = (IF Len(a) = Len(b) THEN 0 ELSE -1)
         /\ Characters!Order(b, a) = (IF Len(a) = Len(b) THEN 0 ELSE 1)
  <1>1. Len(a) <= Len(b) /\ \A m \in 1 .. Len(a) : a[m] = b[m]
    BY DEF Begins
  <1>2. Min({Len(a), Len(b)}) = Len(a) /\ Characters!Min({Len(a), Len(b)}) = Len(a)
    <2> DEFINE T == {Len(a), Len(b)}
    <2>1. Len(a) \in T /\ T \subseteq Int /\ \A z \in T : Len(a) <= z
      BY <1>1
    <2> HIDE DEF T
    <2>2. Min(T) = Len(a) /\ Characters!Min(T) = Len(a)
      BY <2>1, MinIs
    <2> QED  BY <2>2 DEF T
  <1>3. {Len(b), Len(a)} = {Len(a), Len(b)}
    OBVIOUS
  <1>4. {k \in 1 .. Len(a) : a[k] # b[k]} = {} /\ {k \in 1 .. Len(a) : b[k] # a[k]} = {}
    BY <1>1
  <1>5. {k \in 1 .. Min({Len(a), Len(b)}) : a[k] # b[k]} = {} /\ {k \in 1 .. Min({Len(b), Len(a)}) : b[k] # a[k]} = {}
    BY <1>2, <1>3, <1>4
  <1>6. /\ {k \in 1 .. Characters!Min({Len(a), Len(b)}) : a[k] # b[k]} = {}
        /\ {k \in 1 .. Characters!Min({Len(b), Len(a)}) : b[k] # a[k]} = {}
    BY <1>2, <1>3, <1>4
  <1>7. g_utf8_collate(a, b) = IF Len(a) = Len(b) THEN 0 ELSE IF Len(a) < Len(b) THEN -1 ELSE 1
    BY <1>5 DEF g_utf8_collate
  <1>8. g_utf8_collate(b, a) = IF Len(b) = Len(a) THEN 0 ELSE IF Len(b) < Len(a) THEN -1 ELSE 1
    BY <1>5 DEF g_utf8_collate
  <1>9. Characters!Order(a, b) = IF Len(a) = Len(b) THEN 0 ELSE IF Len(a) < Len(b) THEN -1 ELSE 1
    BY <1>6 DEF Characters!Order
  <1>10. Characters!Order(b, a) = IF Len(b) = Len(a) THEN 0 ELSE IF Len(b) < Len(a) THEN -1 ELSE 1
    BY <1>6 DEF Characters!Order
  <1> QED  BY <1>1, <1>7, <1>8, <1>9, <1>10

\* One of them precedes the other or begins it.
LEMMA Trichotomy ==
  ASSUME NEW a \in Texts, NEW b \in Texts
  PROVE  Precedes(a, b) \/ Precedes(b, a) \/ Begins(a, b) \/ Begins(b, a)
  <1> DEFINE n == IF Len(a) <= Len(b) THEN Len(a) ELSE Len(b)
             D == {k \in 1 .. n : a[k] # b[k]}
  <1>1. Len(a) \in Nat /\ Len(b) \in Nat /\ n \in Nat /\ n <= Len(a) /\ n <= Len(b) /\ (n = Len(a) \/ n = Len(b))
    BY DEF Texts
  <1>2. (\A k \in 1 .. Len(a) : a[k] \in Nat) /\ \A k \in 1 .. Len(b) : b[k] \in Nat
    BY SMT DEF Texts, Unicode
  <1> HIDE DEF n
  <1>3. CASE D = {}
    <2>1. \A k \in 1 .. n : a[k] = b[k] /\ b[k] = a[k]
      BY <1>3
    <2> QED  BY <1>1, <2>1 DEF Begins
  <1>4. CASE D # {}
    <2>1. PICK j \in D : \A k \in D : j <= k
      <3>1. \A k \in 1 .. n : k \in Nat
        OBVIOUS
      <3>2. D \subseteq Nat
        BY <3>1
      <3> HIDE DEF D
      <3> QED  BY <1>4, <3>2, Least
    <2>2. j \in 1 .. n /\ a[j] # b[j]
      OBVIOUS
    <2>3. \A m \in 1 .. j - 1 : m \in 1 .. n /\ ~(j <= m)
      BY <1>1, <2>2
    <2>4. \A m \in 1 .. j - 1 : a[m] = b[m] /\ b[m] = a[m]
      BY <2>1, <2>3
    <2>5. j \in 1 .. Len(a) /\ j \in 1 .. Len(b)
      BY <1>1, <2>2
    <2>6. a[j] \in Nat /\ b[j] \in Nat /\ (a[j] < b[j] \/ b[j] < a[j])
      BY <1>2, <2>2, <2>5
    <2> HIDE DEF D
    <2> QED  BY <2>4, <2>5, <2>6 DEF Precedes
  <1> QED  BY <1>3, <1>4

\* Quotients and remainders order numbers.
LEMMA Quotients ==
  ASSUME NEW m \in Nat, NEW n \in Nat, m < n
  PROVE  m \div 64 < n \div 64 \/ (m \div 64 = n \div 64 /\ m % 64 < n % 64)
  <1> DEFINE x == m \div 64
             y == m % 64
             z == n \div 64
             w == n % 64
  <1>1. x * 64 + y = m /\ y \in 0 .. 63 /\ x \in Nat
    BY LowBits
  <1>2. z * 64 + w = n /\ w \in 0 .. 63 /\ z \in Nat
    BY LowBits
  <1> HIDE DEF x, y, z, w
  <1>3. x < z \/ (x = z /\ y < w)
    BY <1>1, <1>2, SMT
  <1> QED  BY <1>3 DEF x, y, z, w

\* Pairs, triples and quadruples of numbers.
LEMMA FirstDiffers ==
  ASSUME NEW u, NEW v, Len(u) \in Nat, Len(v) \in Nat, NEW n \in 1 .. 4, n <= Len(u), n <= Len(v),
         u[n] \in Nat, v[n] \in Nat, u[n] < v[n],
         n > 1 => u[1] = v[1], n > 2 => u[2] = v[2], n > 3 => u[3] = v[3]
  PROVE  Precedes(u, v)
  <1>1. \A m \in 1 .. n - 1 : u[m] = v[m]
    <2> SUFFICES ASSUME NEW m \in 1 .. n - 1 PROVE u[m] = v[m]
      OBVIOUS
    <2>1. (m = 1 /\ n > 1) \/ (m = 2 /\ n > 2) \/ (m = 3 /\ n > 3)
      OBVIOUS
    <2> QED  BY <2>1
  <1>2. n \in 1 .. Len(u) /\ n \in 1 .. Len(v)
    OBVIOUS
  <1> QED  BY <1>1, <1>2 DEF Precedes

\* The first byte grows with the number of bytes.
LEMMA LeadBytes ==
  ASSUME NEW c \in Unicode
  PROVE  LET u == g_unichar_to_utf8(c) IN
         /\ Len(u) \in 1 .. 4 /\ u[1] \in Nat
         /\ c < 128 => u[1] < 128
         /\ c >= 128 /\ c < 2048 => u[1] >= 192 /\ u[1] < 224
         /\ c >= 2048 /\ c < 65536 => u[1] >= 224 /\ u[1] < 240
         /\ c >= 65536 => u[1] >= 240
  <1> DEFINE u == g_unichar_to_utf8(c)
  <1>0. c \in Nat /\ c < 1114112
    BY SMT DEF Unicode
  <1>1. CASE c < 128
    <2>1. u = <<c>>
      BY <1>1 DEF g_unichar_to_utf8
    <2>2. Len(u) = 1 /\ u[1] = c
      <3> HIDE DEF u
      <3> QED  BY <2>1
    <2> HIDE DEF u
    <2>3. ~(c >= 128) /\ ~(c >= 2048) /\ ~(c >= 65536)
      BY <1>0, <1>1, SMT
    <2> QED  BY <1>0, <1>1, <2>2, <2>3 DEF u
  <1>2. CASE c >= 128 /\ c < 2048
    <2> DEFINE a == 192 + c \div 64
               x == 128 + (c % 64)
    <2>1. u = <<a, x>>
      BY <1>0, <1>2, SMT DEF g_unichar_to_utf8
    <2>2. a \in Nat /\ a >= 192 /\ a < 224
      BY <1>0, <1>2, SMT
    <2> HIDE DEF u, a, x
    <2>3. Len(u) = 2 /\ u[1] = a
      BY <2>1
    <2>4. ~(c < 128) /\ ~(c >= 2048) /\ ~(c >= 65536)
      BY <1>0, <1>2, SMT
    <2> QED  BY <2>2, <2>3, <2>4 DEF u
  <1>3. CASE c >= 2048 /\ c < 65536
    <2> DEFINE a == 224 + c \div 4096
               x == 128 + ((c \div 64) % 64)
               y == 128 + (c % 64)
    <2>1. u = <<a, x, y>>
      BY <1>0, <1>3, SMT DEF g_unichar_to_utf8
    <2>2. a \in Nat /\ a >= 224 /\ a < 240
      BY <1>0, <1>3, SMT
    <2> HIDE DEF u, a, x, y
    <2>3. Len(u) = 3 /\ u[1] = a
      BY <2>1
    <2>4. ~(c < 128) /\ ~(c < 2048) /\ ~(c >= 65536)
      BY <1>0, <1>3, SMT
    <2> QED  BY <2>2, <2>3, <2>4 DEF u
  <1>4. CASE c >= 65536
    <2> DEFINE a == 240 + (c \div 4096) \div 64
               x == 128 + ((c \div 4096) % 64)
               y == 128 + ((c \div 64) % 64)
               z == 128 + (c % 64)
    <2>1. u = <<a, x, y, z>>
      BY <1>0, <1>4, SMT DEF g_unichar_to_utf8
    <2>2. a \in Nat /\ a >= 240
      BY <1>0, <1>4, SMT
    <2> HIDE DEF u, a, x, y, z
    <2>3. Len(u) = 4 /\ u[1] = a
      BY <2>1
    <2>4. ~(c < 128) /\ ~(c < 2048) /\ ~(c < 65536)
      BY <1>0, <1>4, SMT
    <2> QED  BY <2>2, <2>3, <2>4 DEF u
  <1> QED  BY <1>0, <1>1, <1>2, <1>3, <1>4, SMT

\* The bytes of characters are in the order of the characters.
LEMMA ByteOrder ==
  ASSUME NEW c \in Unicode, NEW d \in Unicode, c < d
  PROVE  Precedes(g_unichar_to_utf8(c), g_unichar_to_utf8(d))
  <1> DEFINE u == g_unichar_to_utf8(c)
             v == g_unichar_to_utf8(d)
  <1>0. c \in Nat /\ c < 1114112 /\ d \in Nat /\ d < 1114112
    BY SMT DEF Unicode
  <1>1. /\ Len(u) \in 1 .. 4 /\ u[1] \in Nat
        /\ c < 128 => u[1] < 128
        /\ c >= 128 /\ c < 2048 => u[1] >= 192 /\ u[1] < 224
        /\ c >= 2048 /\ c < 65536 => u[1] >= 224 /\ u[1] < 240
        /\ c >= 65536 => u[1] >= 240
    BY LeadBytes
  <1>2. /\ Len(v) \in 1 .. 4 /\ v[1] \in Nat
        /\ d < 128 => v[1] < 128
        /\ d >= 128 /\ d < 2048 => v[1] >= 192 /\ v[1] < 224
        /\ d >= 2048 /\ d < 65536 => v[1] >= 224 /\ v[1] < 240
        /\ d >= 65536 => v[1] >= 240
    BY LeadBytes
  <1>3. c \div 64 < d \div 64 \/ (c \div 64 = d \div 64 /\ c % 64 < d % 64)
    BY <1>0, Quotients
  <1> DEFINE c1 == c \div 64
             d1 == d \div 64
             c2 == c \div 4096
             d2 == d \div 4096
  <1>4. c1 \in Nat /\ d1 \in Nat /\ c1 \div 64 = c2 /\ d1 \div 64 = d2 /\ c2 \in Nat /\ d2 \in Nat
    BY <1>0, SMT
  <1>5. c1 < d1 => c2 < d2 \/ (c2 = d2 /\ c1 % 64 < d1 % 64)
    <2>1. c1 < d1 => c1 \div 64 < d1 \div 64 \/ (c1 \div 64 = d1 \div 64 /\ c1 % 64 < d1 % 64)
      <3> HIDE DEF c1, d1
      <3> QED  BY <1>4, Quotients
    <2> HIDE DEF c1, d1, c2, d2
    <2> QED  BY <1>4, <2>1
  <1>6. c2 < d2 => c2 \div 64 < d2 \div 64 \/ (c2 \div 64 = d2 \div 64 /\ c2 % 64 < d2 % 64)
    <2> HIDE DEF c2, d2
    <2> QED  BY <1>4, Quotients
  <1>7. c % 64 \in Nat /\ d % 64 \in Nat /\ c1 % 64 \in Nat /\ d1 % 64 \in Nat /\ c2 % 64 \in Nat /\ d2 % 64 \in Nat
    BY <1>0, <1>4, LowBits
  <1>8. CASE u[1] < v[1]
    <2> HIDE DEF u, v
    <2>1. Precedes(u, v)
      BY <1>1, <1>2, <1>8, FirstDiffers
    <2> QED  BY <2>1 DEF u, v
  <1>9. CASE ~(u[1] < v[1])
    <2>1. CASE c < 128
      <3>1. d < 128
        <4> HIDE DEF u, v
        <4> QED  BY <1>0, <1>1, <1>2, <1>9, <2>1, SMT
      <3>2. u = <<c>> /\ v = <<d>>
        BY <2>1, <3>1 DEF g_unichar_to_utf8
      <3> HIDE DEF u, v
      <3> QED  BY <1>9, <3>2
    <2>2. CASE c >= 128 /\ c < 2048
      <3>1. d >= 128 /\ d < 2048
        <4> HIDE DEF u, v
        <4> QED  BY <1>0, <1>1, <1>2, <1>9, <2>2, SMT
      <3> DEFINE a == 192 + c1
                 x == 128 + (c % 64)
                 p == 192 + d1
                 q == 128 + (d % 64)
      <3>2. u = <<a, x>> /\ v = <<p, q>>
        BY <1>0, <2>2, <3>1, SMT DEF g_unichar_to_utf8
      <3>3. /\ a < p \/ (a = p /\ x < q)
            /\ a \in Nat /\ x \in Nat /\ p \in Nat /\ q \in Nat
        <4> DEFINE l == c % 64
                   k == d % 64
        <4>1. (c1 < d1 \/ (c1 = d1 /\ l < k)) /\ l \in Nat /\ k \in Nat
          BY <1>3, <1>7
        <4> HIDE DEF c1, d1, l, k
        <4> QED  BY <1>4, <4>1 DEF l, k
      <3> HIDE DEF a, x, p, q, u, v
      <3>4. Len(u) = 2 /\ Len(v) = 2 /\ u[1] = a /\ u[2] = x /\ v[1] = p /\ v[2] = q
        BY <3>2
      <3>5. Precedes(u, v)
        BY <1>9, <3>3, <3>4, FirstDiffers
      <3> QED  BY <3>5 DEF u, v
    <2>3. CASE c >= 2048 /\ c < 65536
      <3>1. d >= 2048 /\ d < 65536
        <4> HIDE DEF u, v
        <4> QED  BY <1>0, <1>1, <1>2, <1>9, <2>3, SMT
      <3> DEFINE a == 224 + c2
                 x == 128 + (c1 % 64)
                 y == 128 + (c % 64)
                 p == 224 + d2
                 q == 128 + (d1 % 64)
                 r == 128 + (d % 64)
      <3>2. u = <<a, x, y>> /\ v = <<p, q, r>>
        BY <1>0, <2>3, <3>1, SMT DEF g_unichar_to_utf8
      <3>3. /\ a < p \/ (a = p /\ x < q) \/ (a = p /\ x = q /\ y < r)
            /\ a \in Nat /\ x \in Nat /\ y \in Nat /\ p \in Nat /\ q \in Nat /\ r \in Nat
        <4> DEFINE l == c % 64
                   k == d % 64
                   i == c1 % 64
                   j == d1 % 64
        <4>1. /\ c1 < d1 \/ (c1 = d1 /\ l < k)
              /\ c1 < d1 => c2 < d2 \/ (c2 = d2 /\ i < j)
              /\ c1 = d1 => c2 = d2 /\ i = j
              /\ l \in Nat /\ k \in Nat /\ i \in Nat /\ j \in Nat
          <5>1. c1 = d1 => c2 = d2
            <6> HIDE DEF c1, d1, c2, d2
            <6> QED  BY <1>4
          <5> QED  BY <1>3, <1>5, <1>7, <5>1
        <4> HIDE DEF c1, d1, c2, d2, l, k, i, j
        <4> QED  BY <1>4, <4>1 DEF l, k, i, j
      <3> HIDE DEF a, x, y, p, q, r, u, v
      <3>4. /\ Len(u) = 3 /\ Len(v) = 3 /\ u[1] = a /\ u[2] = x /\ u[3] = y
            /\ v[1] = p /\ v[2] = q /\ v[3] = r
        BY <3>2
      <3>5. CASE x < q
        <4>1. Precedes(u, v)
          BY <1>9, <3>3, <3>4, <3>5, FirstDiffers
        <4> QED  BY <4>1 DEF u, v
      <3>6. CASE ~(x < q)
        <4>1. Precedes(u, v)
          BY <1>9, <3>3, <3>4, <3>6, FirstDiffers
        <4> QED  BY <4>1 DEF u, v
      <3> QED  BY <3>5, <3>6
    <2>4. CASE c >= 65536
      <3>1. d >= 65536
        BY <1>0, <2>4, SMT
      <3> DEFINE a == 240 + c2 \div 64
                 x == 128 + (c2 % 64)
                 y == 128 + (c1 % 64)
                 z == 128 + (c % 64)
                 p == 240 + d2 \div 64
                 q == 128 + (d2 % 64)
                 r == 128 + (d1 % 64)
                 s == 128 + (d % 64)
      <3>2. u = <<a, x, y, z>> /\ v = <<p, q, r, s>>
        BY <1>0, <2>4, <3>1, SMT DEF g_unichar_to_utf8
      <3>3. /\ a < p \/ (a = p /\ x < q) \/ (a = p /\ x = q /\ y < r) \/ (a = p /\ x = q /\ y = r /\ z < s)
            /\ a \in Nat /\ x \in Nat /\ y \in Nat /\ z \in Nat /\ p \in Nat /\ q \in Nat /\ r \in Nat /\ s \in Nat
        <4> DEFINE l == c % 64
                   k == d % 64
                   i == c1 % 64
                   j == d1 % 64
                   g == c2 % 64
                   h == d2 % 64
                   e == c2 \div 64
                   f == d2 \div 64
        <4>1. /\ c1 < d1 \/ (c1 = d1 /\ l < k)
              /\ c1 < d1 => c2 < d2 \/ (c2 = d2 /\ i < j)
              /\ c1 = d1 => c2 = d2 /\ i = j
              /\ c2 < d2 => e < f \/ (e = f /\ g < h)
              /\ c2 = d2 => e = f /\ g = h
              /\ l \in Nat /\ k \in Nat /\ i \in Nat /\ j \in Nat /\ g \in Nat /\ h \in Nat
          <5>1. c1 = d1 => c2 = d2
            <6> HIDE DEF c1, d1, c2, d2
            <6> QED  BY <1>4
          <5> QED  BY <1>3, <1>5, <1>6, <1>7, <5>1
        <4>2. e \in Nat /\ f \in Nat
          BY <1>4, LowBits
        <4> HIDE DEF c1, d1, c2, d2, l, k, i, j, g, h, e, f
        <4> QED  BY <1>4, <4>1, <4>2 DEF l, k, i, j, g, h, e, f
      <3> HIDE DEF a, x, y, z, p, q, r, s, u, v
      <3>4. /\ Len(u) = 4 /\ Len(v) = 4 /\ u[1] = a /\ u[2] = x /\ u[3] = y /\ u[4] = z
            /\ v[1] = p /\ v[2] = q /\ v[3] = r /\ v[4] = s
        BY <3>2
      <3>5. CASE x < q
        <4>1. Precedes(u, v)
          BY <1>9, <3>3, <3>4, <3>5, FirstDiffers, SMTT(40)
        <4> QED  BY <4>1 DEF u, v
      <3>6. CASE ~(x < q) /\ y < r
        <4>1. Precedes(u, v)
          BY <1>9, <3>3, <3>4, <3>6, FirstDiffers
        <4> QED  BY <4>1 DEF u, v
      <3>7. CASE ~(x < q) /\ ~(y < r)
        <4>2. a = p /\ x = q /\ y = r /\ z < s
          BY <1>9, <3>3, <3>4, <3>7
        <4>3. 4 \in 1 .. 4 /\ 4 <= Len(u) /\ 4 <= Len(v)
          BY <3>4
        <4>4. u[4] \in Nat /\ v[4] \in Nat /\ u[4] < v[4] /\ u[1] = v[1] /\ u[2] = v[2] /\ u[3] = v[3]
          BY <3>3, <3>4, <4>2
        <4>5. Len(u) \in Nat /\ Len(v) \in Nat
          BY <3>4
        <4>1. Precedes(u, v)
          BY <4>3, <4>4, <4>5, FirstDiffers
        <4> QED  BY <4>1 DEF u, v
      <3> QED  BY <3>5, <3>6, <3>7
    <2> QED  BY <1>0, <2>1, <2>2, <2>3, <2>4, SMT
  <1> QED  BY <1>8, <1>9

\* Texts that agree up to k have the same bytes up to there.
LEMMA SamePrefix ==
  ASSUME NEW xs \in Texts, NEW ys \in Texts, NEW k \in 0 .. Len(xs), k <= Len(ys),
         \A m \in 1 .. k : xs[m] = ys[m]
  PROVE  /\ k \in 0 .. Len(ys) /\ Offset(xs, k) = Offset(ys, k) /\ Offset(xs, k) \in Nat
         /\ Offset(xs, k) <= Len(Encode(xs)) /\ Offset(xs, k) <= Len(Encode(ys))
         /\ \A p \in 1 .. Offset(xs, k) : Encode(xs)[p] = Encode(ys)[p]
  <1> DEFINE o == Offset(xs, k)
             a == Encode(xs)
             b == Encode(ys)
  <1>1. Len(xs) \in Nat /\ Len(ys) \in Nat /\ k \in 0 .. Len(ys) /\ xs \in Seq(Unicode) /\ ys \in Seq(Unicode)
    BY DEF Texts
  <1>2. 0 \in 0 .. Len(xs) /\ k \in 0 .. Len(xs) /\ 0 \in 0 .. Len(ys) /\ 0 + 1 = 1
    BY <1>1
  <1>3. SubSeq(xs, 1, k) = SubSeq(ys, 1, k)
    BY <1>1
  <1>4. Offset(ys, k) = o
    BY <1>3 DEF Offset
  <1>5. o \in Nat /\ o <= Len(a) /\ SubSeq(a, Offset(xs, 0) + 1, o) = Encode(SubSeq(xs, 1, k))
    BY <1>2, SliceEncoded
  <1>6. o <= Len(b) /\ SubSeq(b, Offset(ys, 0) + 1, o) = Encode(SubSeq(ys, 1, k))
    BY <1>1, <1>2, <1>4, SliceEncoded
  <1>7. Offset(xs, 0) = 0 /\ Offset(ys, 0) = 0
    BY OffsetEnds
  <1>8. a \in Seq(Byte) /\ b \in Seq(Byte)
    BY EncodeBytes
  <1>9. SubSeq(a, 1, o) = SubSeq(b, 1, o)
    <2> HIDE DEF a, b, o
    <2> QED  BY <1>2, <1>3, <1>5, <1>6, <1>7
  <1> HIDE DEF a, b, o
  <1>10. \A p \in 1 .. o : a[p] = b[p]
    <2> SUFFICES ASSUME NEW p \in 1 .. o PROVE a[p] = b[p]
      OBVIOUS
    <2>1. SubSeq(a, 1, o)[p] = a[p]
      BY <1>5, <1>8
    <2>2. SubSeq(b, 1, o)[p] = b[p]
      BY <1>5, <1>6, <1>8
    <2> QED  BY <1>9, <2>1, <2>2
  <1> QED  BY <1>1, <1>4, <1>5, <1>6, <1>10 DEF o, a, b

\* UTF-8 keeps the order of texts.
LEMMA EncodedPrecedes ==
  ASSUME NEW xs \in Texts, NEW ys \in Texts, Precedes(xs, ys)
  PROVE  Precedes(Encode(xs), Encode(ys))
  <1>1. PICK k \in 1 .. Len(xs) :
          /\ k \in 1 .. Len(ys) /\ xs[k] \in Nat /\ ys[k] \in Nat /\ xs[k] < ys[k]
          /\ \A m \in 1 .. k - 1 : xs[m] = ys[m]
    BY DEF Precedes
  <1> DEFINE a == Encode(xs)
             b == Encode(ys)
             o == Offset(xs, k - 1)
             u == g_unichar_to_utf8(xs[k])
             v == g_unichar_to_utf8(ys[k])
  <1>2. Len(xs) \in Nat /\ Len(ys) \in Nat /\ k - 1 \in 0 .. Len(xs) /\ k - 1 <= Len(ys)
    BY <1>1 DEF Texts
  <1>3. /\ Offset(ys, k - 1) = o /\ o \in Nat
        /\ \A p \in 1 .. o : a[p] = b[p]
    BY <1>1, <1>2, SamePrefix, SMTT(40)
  <1>4. /\ xs[k] \in Unicode /\ Offset(xs, k) = o + Len(u) /\ Offset(xs, k) <= Len(a) /\ OneCharacter(u)
        /\ \A j \in 1 .. Len(u) : a[o + j] = u[j]
    BY CharacterOf
  <1>5. /\ ys[k] \in Unicode /\ Offset(ys, k) = o + Len(v) /\ Offset(ys, k) <= Len(b) /\ OneCharacter(v)
        /\ \A j \in 1 .. Len(v) : b[o + j] = v[j]
    BY <1>1, <1>3, CharacterOf, ZenonT(40)
  <1>6. Precedes(u, v)
    BY <1>1, <1>4, <1>5, ByteOrder
  <1>7. PICK j \in 1 .. Len(u) :
          /\ j \in 1 .. Len(v) /\ u[j] \in Nat /\ v[j] \in Nat /\ u[j] < v[j]
          /\ \A m \in 1 .. j - 1 : u[m] = v[m]
    BY <1>6 DEF Precedes
  <1>8. Len(u) \in Nat /\ Len(v) \in Nat /\ Len(a) \in Nat /\ Len(b) \in Nat
    BY <1>4, <1>5, EncodeBytes DEF OneCharacter
  <1> HIDE DEF a, b, o, u, v
  <1>9. o + j \in 1 .. Len(a) /\ o + j \in 1 .. Len(b)
    BY <1>3, <1>4, <1>5, <1>7, <1>8, SMTT(40)
  <1>10. a[o + j] = u[j] /\ b[o + j] = v[j]
    BY <1>4, <1>5, <1>7
  <1>11. \A p \in 1 .. (o + j) - 1 : a[p] = b[p]
    <2> SUFFICES ASSUME NEW p \in 1 .. (o + j) - 1, ~(p \in 1 .. o) PROVE a[p] = b[p]
      BY <1>3
    <2> DEFINE m == p - o
    <2>1. m \in 1 .. j - 1 /\ m \in 1 .. Len(u) /\ m \in 1 .. Len(v) /\ o + m = p
      BY <1>3, <1>7, <1>8
    <2> HIDE DEF m
    <2>2. a[o + m] = u[m] /\ b[o + m] = v[m] /\ u[m] = v[m]
      BY <1>4, <1>5, <1>7, <2>1
    <2> QED  BY <2>1, <2>2
  <1>12. Precedes(a, b)
    BY <1>7, <1>9, <1>10, <1>11 DEF Precedes
  <1> QED  BY <1>12 DEF a, b

\* A text that begins another, in bytes.
LEMMA EncodedBegins ==
  ASSUME NEW xs \in Texts, NEW ys \in Texts, Begins(xs, ys)
  PROVE  Begins(Encode(xs), Encode(ys)) /\ (Len(Encode(xs)) = Len(Encode(ys)) <=> Len(xs) = Len(ys))
  <1> DEFINE n == Len(xs)
  <1>1. n \in Nat /\ Len(ys) \in Nat /\ n <= Len(ys) /\ n \in 0 .. n /\ \A m \in 1 .. n : xs[m] = ys[m]
    BY DEF Texts, Begins
  <1>2. /\ Offset(xs, n) = Offset(ys, n) /\ Offset(xs, n) <= Len(Encode(ys))
        /\ \A p \in 1 .. Offset(xs, n) : Encode(xs)[p] = Encode(ys)[p]
    BY <1>1, SamePrefix
  <1>3. Offset(xs, n) = Len(Encode(xs)) /\ Offset(ys, Len(ys)) = Len(Encode(ys))
    BY OffsetEnds
  <1>4. Begins(Encode(xs), Encode(ys))
    BY <1>2, <1>3 DEF Begins
  <1>5. n \in 0 .. Len(ys) /\ Len(ys) \in 0 .. Len(ys)
    BY <1>1
  <1>6. n = Len(ys) <=> Offset(ys, n) = Offset(ys, Len(ys))
    BY <1>5, OffsetOrder
  <1> QED  BY <1>2, <1>3, <1>4, <1>6

\* g_utf8_collate() of UTF-8 is the order of the characters.
LEMMA CollateIs ==
  ASSUME NEW xs \in Texts, NEW ys \in Texts
  PROVE  g_utf8_collate(Encode(xs), Encode(ys)) = Characters!Order(xs, ys)
  <1> DEFINE a == Encode(xs)
             b == Encode(ys)
  <1>1. Len(xs) \in Nat /\ Len(ys) \in Nat /\ Len(a) \in Nat /\ Len(b) \in Nat
    BY EncodeBytes DEF Texts
  <1>2. CASE Precedes(xs, ys)
    <2>1. Precedes(a, b)
      BY <1>2, EncodedPrecedes
    <2> HIDE DEF a, b
    <2> QED  BY <1>1, <1>2, <2>1, CollateFirst DEF a, b
  <1>3. CASE Precedes(ys, xs)
    <2>1. Precedes(b, a)
      BY <1>3, EncodedPrecedes
    <2> HIDE DEF a, b
    <2> QED  BY <1>1, <1>3, <2>1, CollateFirst DEF a, b
  <1>4. CASE Begins(xs, ys)
    <2>1. Begins(a, b) /\ (Len(a) = Len(b) <=> Len(xs) = Len(ys))
      BY <1>4, EncodedBegins
    <2> HIDE DEF a, b
    <2> QED  BY <1>1, <1>4, <2>1, CollateEnd DEF a, b
  <1>5. CASE Begins(ys, xs)
    <2>1. Begins(b, a) /\ (Len(b) = Len(a) <=> Len(ys) = Len(xs))
      BY <1>5, EncodedBegins
    <2> HIDE DEF a, b
    <2> QED  BY <1>1, <1>5, <2>1, CollateEnd DEF a, b
  <1> QED  BY <1>2, <1>3, <1>4, <1>5, Trichotomy

\* Comparisons take what comes before a NUL.
LEMMA CompareIs ==
  ASSUME NEW xs \in Texts, NEW ys \in Texts
  PROVE  compare(Encode(xs), Encode(ys)) = Characters!Order(Characters!UpToNul(xs), Characters!UpToNul(ys))
  <1>1. c_str(Encode(xs)) = Encode(Characters!UpToNul(xs)) /\ c_str(Encode(ys)) = Encode(Characters!UpToNul(ys))
    BY CStringIs
  <1>2. Characters!UpToNul(xs) \in Texts /\ Characters!UpToNul(ys) \in Texts
    BY UpToNulText
  <1> DEFINE x == Characters!UpToNul(xs)
             y == Characters!UpToNul(ys)
  <1>3. compare(Encode(xs), Encode(ys)) = g_utf8_collate(Encode(x), Encode(y))
    BY <1>1 DEF compare
  <1>4. x \in Texts /\ y \in Texts
    BY <1>2
  <1> HIDE DEF x, y
  <1>5. g_utf8_collate(Encode(x), Encode(y)) = Characters!Order(x, y)
    BY <1>4, CollateIs
  <1> QED  BY <1>3, <1>5 DEF x, y

\* compare() of a part of the string.
LEMMA CompareStep ==
  ASSUME Inv, Compare
  PROVE  Allowed
  <1> DEFINE cs == CharsOf(str).s
  <1>1. PICK i \in Positions, n \in Counts, src \in Whole \cup Sub \cup Cstr \cup CstrN :
          LET lhs == ustring([k |-> "sub", o |-> "s", i |-> i, n |-> n])
              rhs == ustring(src)
          IN  Ask(Edit("compare", i, n, src),
                  CASE lhs.err # "none" -> <<lhs.err>>
                    [] lhs.err = "none" /\ rhs.err # "none" -> <<rhs.err>>
                    [] OTHER -> <<"num", compare(lhs.b, rhs.b)>>)
    BY DEF Compare
  <1>2. Idle /\ GoodStrings(str) /\ Len(cs) \in Nat /\ i \in Nat
    BY TextOfS, UstringAssumption DEF Compare, Inv
  <1> DEFINE part == [k |-> "sub", o |-> "s", i |-> i, n |-> n]
             lhs == ustring(part)
             rhs == ustring(src)
             ret == CASE lhs.err # "none" -> <<lhs.err>>
                      [] lhs.err = "none" /\ rhs.err # "none" -> <<rhs.err>>
                      [] OTHER -> <<"num", compare(lhs.b, rhs.b)>>
             fault == Characters!Fault(src)
             ts == Characters!Text(src)
             ms == Characters!Mid(cs, i, n)
             first == IF i > Len(cs) THEN "out_of_range" ELSE "none"
  <1>3. Ask(Edit("compare", i, n, src), ret)
    BY <1>1
  <1>4. Yields(rhs, fault, ts)
    BY <1>2, SourceYields DEF Sources
  <1>5. Yields(lhs, first, ms)
    <2>1. part \in Sub
      BY DEF Sub
    <2>2. part.k = "sub" /\ part.o = "s" /\ part.i = i /\ part.n = n
      OBVIOUS
    <2>3. Characters!Fault(part) = first
      BY <2>2 DEF Characters!Fault
    <2>4. Characters!Text(part) = ms
      BY <2>2 DEF Characters!Text
    <2> HIDE DEF part, first, ms
    <2>5. Yields(ustring(part), Characters!Fault(part), Characters!Text(part))
      BY <1>2, <2>1, SourceYields DEF Sources
    <2> QED  BY <2>3, <2>4, <2>5
  <1>6. first = IF i > Len(cs) THEN "out_of_range" ELSE "none"
    OBVIOUS
  <1> DEFINE order == Characters!Order(Characters!UpToNul(ms), Characters!UpToNul(ts))
             answer == IF i > Len(cs) \/ fault # "none"
                       THEN <<IF i > Len(cs) THEN "out_of_range" ELSE fault>>
                       ELSE <<"num", order>>
  <1> HIDE DEF lhs, rhs, fault, ts, ms, first
  <1>7. ret = answer
    <2>1. CASE i > Len(cs)
      <3>1. lhs.err = "out_of_range"
        BY <1>5, <1>6, <2>1 DEF Yields
      <3> QED  BY <2>1, <3>1
    <2>2. CASE ~(i > Len(cs)) /\ fault # "none"
      <3>1. lhs.err = "none" /\ rhs.err = fault
        BY <1>4, <1>5, <1>6, <2>2 DEF Yields
      <3> QED  BY <2>2, <3>1
    <2>3. CASE ~(i > Len(cs)) /\ fault = "none"
      <3>1. /\ lhs.err = "none" /\ rhs.err = "none" /\ ms \in Texts /\ ts \in Texts
            /\ lhs.b = Encode(ms) /\ rhs.b = Encode(ts)
        BY <1>4, <1>5, <1>6, <2>3 DEF Yields
      <3>2. compare(Encode(ms), Encode(ts)) = order
        BY <3>1, CompareIs
      <3> QED  BY <2>3, <3>1, <3>2
    <2> QED  BY <2>1, <2>2, <2>3
  <1>8. call'.op = "compare" /\ call'.i = i /\ call'.n = n /\ call'.src = src /\ call'.ret = ret
    BY <1>3 DEF Ask, Edit
  <1>9. call'.op \in QueryOps
    BY <1>8 DEF QueryOps
  <1> HIDE DEF ret
  <1>10. CASE ~(i > Len(cs)) /\ fault = "none" /\ (HasNul(ms) \/ HasNul(ts))
    <2>1. ret = <<"num", order>>
      BY <1>7, <1>10
    <2>2. i <= Len(cs)
      BY <1>2, <1>10
    <2>3. StopsAtNul(call')
      BY <1>8, <1>10, <2>1, <2>2 DEF StopsAtNul, Ended, fault, ts, ms
    <2> QED  BY <1>2, <1>3, <1>9, <2>3, DepartStep DEF Allowed
  <1>11. CASE i > Len(cs) \/ fault # "none" \/ (~HasNul(ms) /\ ~HasNul(ts))
    <2> DEFINE promised == IF i > Len(cs) \/ fault # "none"
                           THEN <<IF i > Len(cs) THEN "out_of_range" ELSE fault>>
                           ELSE <<"num", Characters!Order(ms, ts)>>
    <2>1. Characters!Answer(call') = promised
      BY <1>8 DEF Characters!Answer, Characters!SetSearches, Characters!PlaceSearches, fault, ts, ms
    <2>2. ~(i > Len(cs)) /\ fault = "none" => Characters!UpToNul(ms) = ms /\ Characters!UpToNul(ts) = ts
      BY <1>4, <1>5, <1>6, <1>11, EndedIs DEF Yields
    <2>3. answer = promised
      BY <2>2
    <2> HIDE DEF answer, promised
    <2> QED  BY <1>2, <1>3, <1>7, <1>8, <1>9, <2>1, <2>3, QueryStep DEF Allowed
  <1> QED  BY <1>10, <1>11

\* The relational operators.
LEMMA RelationalStep ==
  ASSUME Inv, Relational
  PROVE  Allowed
  <1> DEFINE cs == CharsOf(str).s
  <1>1. PICK src \in Whole \cup Cstr :
          \/ Ask([op |-> "relations", src |-> src, ret |-> <<>>], relational(str.s, ustring(src).b))
          \/ Ask([op |-> "reversed_relations", src |-> src, ret |-> <<>>],
                 relational_reversed(ustring(src).b, str.s))
    BY DEF Relational
  <1>2. Idle /\ cs \in Texts /\ str.s = Encode(cs)
    BY TextOfS DEF Relational
  <1> DEFINE ts == Characters!Text(src)
             x == Characters!Order(Characters!UpToNul(cs), Characters!UpToNul(ts))
             y == Characters!Order(Characters!UpToNul(ts), Characters!UpToNul(cs))
             there == relational(str.s, ustring(src).b)
             back == relational_reversed(ustring(src).b, str.s)
  <1>3. ts \in Texts /\ ustring(src).b = Encode(ts)
    BY PlainText
  <1> HIDE DEF ts, cs
  <1>4. compare(str.s, ustring(src).b) = x /\ compare(ustring(src).b, str.s) = y
    BY <1>2, <1>3, CompareIs
  <1>5. x \in {-1, 0, 1} /\ y \in {-1, 0, 1} /\ y = -x
    <2> DEFINE p == Characters!UpToNul(cs)
               q == Characters!UpToNul(ts)
    <2>1. p \in Texts /\ q \in Texts
      BY <1>2, <1>3, UpToNulText
    <2> HIDE DEF p, q
    <2>2. Len(p) \in Nat /\ Len(q) \in Nat
      BY <2>1 DEF Texts
    <2>3. Characters!Order(p, q) \in {-1, 0, 1} /\ Characters!Order(q, p) = -Characters!Order(p, q)
      <3>1. CASE Precedes(p, q)
        BY <2>2, <3>1, CollateFirst
      <3>2. CASE Precedes(q, p)
        BY <2>2, <3>2, CollateFirst
      <3>3. CASE Begins(p, q)
        BY <2>2, <3>3, CollateEnd
      <3>4. CASE Begins(q, p)
        BY <2>2, <3>4, CollateEnd
      <3> QED  BY <2>1, <3>1, <3>2, <3>3, <3>4, Trichotomy
    <2> QED  BY <2>3 DEF p, q
  <1>6. there = Characters!Relations(x)
    BY <1>4 DEF relational, Characters!Relations
  <1>7. back = Characters!Relations(y)
    <2>1. back = <<"bools", x = 0, x # 0, x > 0, x < 0, x >= 0, x <= 0>>
      BY <1>4 DEF relational_reversed
    <2>2. Characters!Relations(y) = <<"bools", y = 0, y # 0, y < 0, y > 0, y <= 0, y >= 0>>
      BY DEF Characters!Relations
    <2> HIDE DEF x, y
    <2>3. /\ (x = 0) = (y = 0) /\ (x # 0) = (y # 0) /\ (x > 0) = (y < 0) /\ (x < 0) = (y > 0)
          /\ (x >= 0) = (y <= 0) /\ (x <= 0) = (y >= 0)
      BY <1>5
    <2> HIDE DEF back
    <2> QED  BY <2>1, <2>2, <2>3
  <1>8. ~HasNul(cs) /\ ~HasNul(ts) => Characters!UpToNul(cs) = cs /\ Characters!UpToNul(ts) = ts
    BY <1>2, <1>3, EndedIs
  <1> HIDE DEF there, back
  <1>9. CASE Ask([op |-> "relations", src |-> src, ret |-> <<>>], there)
    <2>1. call'.op = "relations" /\ call'.src = src /\ call'.ret = there
      BY <1>9 DEF Ask
    <2>2. call'.op \in QueryOps
      BY <2>1 DEF QueryOps
    <2>3. CASE HasNul(cs) \/ HasNul(ts)
      <3>1. StopsAtNul(call')
        BY <1>6, <2>1, <2>3 DEF StopsAtNul, Ended, cs, ts
      <3> QED  BY <1>2, <1>9, <2>2, <3>1, DepartStep DEF Allowed
    <2>4. CASE ~HasNul(cs) /\ ~HasNul(ts)
      <3>1. Characters!Answer(call') = Characters!Relations(Characters!Order(cs, ts))
        BY <2>1 DEF Characters!Answer, Characters!SetSearches, Characters!PlaceSearches, cs, ts
      <3>2. Characters!Answer(call') = there
        BY <1>6, <1>8, <2>4, <3>1
      <3> QED  BY <1>2, <1>9, <2>1, <2>2, <3>2, QueryStep DEF Allowed
    <2> QED  BY <2>3, <2>4
  <1>10. CASE Ask([op |-> "reversed_relations", src |-> src, ret |-> <<>>], back)
    <2>1. call'.op = "reversed_relations" /\ call'.src = src /\ call'.ret = back
      BY <1>10 DEF Ask
    <2>2. call'.op \in QueryOps
      BY <2>1 DEF QueryOps
    <2>3. CASE HasNul(cs) \/ HasNul(ts)
      <3>1. StopsAtNul(call')
        BY <1>7, <2>1, <2>3 DEF StopsAtNul, Ended, cs, ts
      <3> QED  BY <1>2, <1>10, <2>2, <3>1, DepartStep DEF Allowed
    <2>4. CASE ~HasNul(cs) /\ ~HasNul(ts)
      <3>1. Characters!Answer(call') = Characters!Relations(Characters!Order(ts, cs))
        BY <2>1 DEF Characters!Answer, Characters!SetSearches, Characters!PlaceSearches, cs, ts
      <3>2. Characters!Answer(call') = back
        BY <1>7, <1>8, <2>4, <3>1
      <3> QED  BY <1>2, <1>10, <2>1, <2>2, <3>2, QueryStep DEF Allowed
    <2> QED  BY <2>3, <2>4
  <1> QED  BY <1>1, <1>9, <1>10 DEF there, back

-----------------------------------------------------------------------------
(* compose()                                                                 *)

\* compose_private(), one percent sign at a time.
Percents(b, start) == {p \in start .. Len(c_str(b)) - 1 : b[p + 1] = 37}
ByteAt(b, p) == IF p < Len(b) THEN b[p + 1] ELSE 0
Past(b, stop) ==
  IF ByteAt(b, stop + 1) # 0 THEN stop + 1 + g_utf8_skip(ByteAt(b, stop + 1)) ELSE stop + 1
Composes(b, ilist, f, start) ==
  IF Percents(b, start) = {} THEN SubSeq(b, start + 1, Len(b))
  ELSE LET stop == Min(Percents(b, start))
       IN  CASE ByteAt(b, stop + 1) = 37 -> SubSeq(b, start + 1, stop + 1) \o f[stop + 2]
             [] ByteAt(b, stop + 1) - 48 \in DOMAIN ilist ->
                  SubSeq(b, start + 1, stop) \o ilist[ByteAt(b, stop + 1) - 48] \o f[stop + 2]
             [] OTHER -> SubSeq(b, start + 1, Past(b, stop)) \o f[Past(b, stop)]

\* What a step puts in front of the rest, and where the rest starts.
FrontText(b, ilist, p, stop) ==
  IF ByteAt(b, stop + 1) = 37 THEN SubSeq(b, p + 1, stop + 1)
  ELSE IF ByteAt(b, stop + 1) - 48 \in DOMAIN ilist
  THEN SubSeq(b, p + 1, stop) \o ilist[ByteAt(b, stop + 1) - 48]
  ELSE SubSeq(b, p + 1, Past(b, stop))
Rest(b, ilist, stop) ==
  IF ByteAt(b, stop + 1) = 37 \/ ByteAt(b, stop + 1) - 48 \in DOMAIN ilist THEN stop + 2
  ELSE Past(b, stop)
Composed(b, ilist, f) ==
  \A p \in 0 .. Len(b) + 4 :
    /\ Percents(b, p) = {} => f[p] = SubSeq(b, p + 1, Len(b))
    /\ Percents(b, p) # {} =>
         f[p] = FrontText(b, ilist, p, Min(Percents(b, p))) \o f[Rest(b, ilist, Min(Percents(b, p)))]

\* A step puts its front before the rest.
LEMMA ComposesIs ==
  ASSUME NEW b, NEW ilist, DOMAIN ilist = 1 .. 2, NEW f, NEW p
  PROVE  Composes(b, ilist, f, p) =
           IF Percents(b, p) = {} THEN SubSeq(b, p + 1, Len(b))
           ELSE FrontText(b, ilist, p, Min(Percents(b, p))) \o f[Rest(b, ilist, Min(Percents(b, p)))]
  <1> DEFINE stop == Min(Percents(b, p))
             x == ByteAt(b, stop + 1)
             q == Past(b, stop)
             i == x - 48
  <1>1. Composes(b, ilist, f, p) =
          IF Percents(b, p) = {} THEN SubSeq(b, p + 1, Len(b))
          ELSE CASE x = 37 -> SubSeq(b, p + 1, stop + 1) \o f[stop + 2]
                 [] i \in DOMAIN ilist -> SubSeq(b, p + 1, stop) \o ilist[i] \o f[stop + 2]
                 [] OTHER -> SubSeq(b, p + 1, q) \o f[q]
    BY DEF Composes
  <1>2. FrontText(b, ilist, p, stop) = IF x = 37 THEN SubSeq(b, p + 1, stop + 1)
                                   ELSE IF i \in DOMAIN ilist THEN SubSeq(b, p + 1, stop) \o ilist[i]
                                   ELSE SubSeq(b, p + 1, q)
    BY DEF FrontText
  <1>3. Rest(b, ilist, stop) = IF x = 37 \/ i \in DOMAIN ilist THEN stop + 2 ELSE q
    BY DEF Rest
  <1>4. x = 37 => i \notin DOMAIN ilist
    <2> HIDE DEF x
    <2> QED  OBVIOUS
  <1> HIDE DEF stop, x, q, i
  <1>5. CASE x = 37
    BY <1>1, <1>2, <1>3, <1>4, <1>5 DEF stop
  <1>6. CASE x # 37 /\ i \in DOMAIN ilist
    BY <1>1, <1>2, <1>3, <1>6 DEF stop
  <1>7. CASE x # 37 /\ i \notin DOMAIN ilist
    BY <1>1, <1>2, <1>3, <1>7 DEF stop
  <1> QED  BY <1>5, <1>6, <1>7

\* The two lists of arguments, as bytes and as characters.
Arguments(ilist, args) ==
  /\ DOMAIN ilist = 1 .. 2 /\ DOMAIN args = 1 .. 2
  /\ \A j \in 1 .. 2 : args[j] \in Texts /\ ilist[j] = Encode(args[j])

\* Where a percent sign is, and what follows it.
LEMMA FirstPercent ==
  ASSUME NEW b \in Seq(Byte), Len(c_str(b)) \in 0 .. Len(b), NEW p \in Nat, Percents(b, p) # {}
  PROVE  LET stop == Min(Percents(b, p)) IN
         /\ stop \in p .. Len(b) - 1 /\ stop \in Percents(b, p) /\ b[stop + 1] = 37
         /\ stop < Len(c_str(b)) /\ \A q \in Percents(b, p) : stop <= q
         /\ Past(b, stop) \in stop + 1 .. Len(b) + 4
  <1> DEFINE P == Percents(b, p)
             stop == Min(P)
             l == Len(c_str(b))
  <1>1. Len(b) \in Nat /\ l \in 0 .. Len(b)
    OBVIOUS
  <1>2. \A q : q \in P <=> q \in p .. l - 1 /\ b[q + 1] = 37
    BY DEF Percents
  <1> HIDE DEF P, l
  <1>3. \A q \in p .. l - 1 : q \in Nat
    BY <1>1
  <1>4. P \subseteq Nat /\ P \subseteq Int
    BY <1>2, <1>3
  <1>5. PICK s \in P : \A q \in P : s <= q
    BY <1>4, Least DEF P
  <1>6. stop = s
    BY <1>4, <1>5, MinIs
  <1>7. s \in p .. Len(b) - 1 /\ b[s + 1] = 37 /\ s < l
    BY <1>1, <1>2
  <1>8. Past(b, s) \in s + 1 .. Len(b) + 4
    <2> DEFINE x == ByteAt(b, s + 1)
               k == g_utf8_skip(x)
    <2>1. x # 0 => s + 1 < Len(b)
      BY DEF ByteAt
    <2>2. k \in 1 .. 4
      BY Skips
    <2>3. Past(b, s) = IF x # 0 THEN s + 1 + k ELSE s + 1
      BY DEF Past
    <2> HIDE DEF x, k
    <2> QED  BY <1>1, <1>7, <2>1, <2>2, <2>3
  <1> QED  BY <1>5, <1>6, <1>7, <1>8 DEF P, l

\* The characters of a format that compose() looks at: those before a NUL.
Live(fs) == Len(Characters!UpToNul(fs))

\* They end at the first NUL, in bytes as in characters.
LEMMA LiveIs ==
  ASSUME NEW fs \in Texts
  PROVE  /\ Live(fs) \in 0 .. Len(fs) /\ Len(c_str(Encode(fs))) = Offset(fs, Live(fs))
         /\ \A k \in 1 .. Live(fs) : fs[k] # 0
         /\ Live(fs) = Len(fs) \/ fs[Live(fs) + 1] = 0
         /\ Offset(fs, Live(fs)) \in 0 .. Len(Encode(fs))
  <1>1. PICK m \in 0 .. Len(fs) :
           /\ Characters!UpToNul(fs) = SubSeq(fs, 1, m) /\ Len(Characters!UpToNul(fs)) = m
           /\ \A k \in 1 .. m : fs[k] # 0
           /\ m = Len(fs) \/ fs[m + 1] = 0
    BY UpToNulIs
  <1>2. Live(fs) = m
    BY <1>1 DEF Live
  <1>3. Len(c_str(Encode(fs))) = Offset(fs, m)
    BY <1>1, CStringIs DEF Offset
  <1>4. Offset(fs, m) \in 0 .. Len(Encode(fs))
    BY OffsetOrder
  <1> QED  BY <1>1, <1>2, <1>3, <1>4

\* A percent sign among the bytes is one among the characters.
LEMMA PercentPlace ==
  ASSUME NEW fs \in Texts, NEW p, NEW q
  PROVE  (q \in p .. Len(c_str(Encode(fs))) - 1 /\ Encode(fs)[q + 1] = 37 /\ q \in Nat)
            <=> \E k \in 0 .. Live(fs) - 1 : fs[k + 1] = 37 /\ q = Offset(fs, k) /\ q \in p .. q
  <1> DEFINE b == Encode(fs)
             m == Live(fs)
             o == Offset(fs, m)
  <1>1. Len(fs) \in Nat /\ Len(b) \in Nat /\ m \in 0 .. Len(fs) /\ Len(c_str(b)) = o /\ o \in 0 .. Len(b)
    BY EncodeBytes, LiveIs DEF Texts
  <1>2. ASSUME q \in p .. o - 1, b[q + 1] = 37, q \in Nat
        PROVE  \E k \in 0 .. m - 1 : fs[k + 1] = 37 /\ q = Offset(fs, k) /\ q \in p .. q
    <2>0. q + 1 \in 1 .. Len(b)
      <3> HIDE DEF m, o, b
      <3> QED  BY <1>1, <1>2
    <2>1. PICK k \in 1 .. Len(fs) :
            \E j \in 1 .. Len(g_unichar_to_utf8(fs[k])) : q + 1 = Offset(fs, k - 1) + j
      BY <2>0, Locate
    <2> DEFINE u == g_unichar_to_utf8(fs[k])
    <2>2. PICK j \in 1 .. Len(u) : q + 1 = Offset(fs, k - 1) + j
      BY <2>1
    <2>3. fs[k] \in Unicode /\ \A i \in 1 .. Len(u) : b[Offset(fs, k - 1) + i] = u[i]
      BY CharacterOf
    <2>4. u[j] = 37
      BY <1>2, <2>2, <2>3
    <2>5. fs[k] \in Nat
      BY <2>3 DEF Unicode
    <2>6. fs[k] < 128
      <3>1. fs[k] >= 128 => u[j] >= 128
        BY <2>3, AsciiBytes
      <3> QED  BY <2>4, <2>5, <3>1
    <2>7. j = 1 /\ fs[k] = 37
      <3>1. u = <<fs[k]>>
        BY <2>3, <2>6, AsciiBytes
      <3> HIDE DEF u
      <3> QED  BY <2>4, <3>1
    <2>8. k - 1 \in 0 .. Len(fs) /\ Offset(fs, k - 1) \in Nat /\ q = Offset(fs, k - 1)
      <3>1. k - 1 \in 0 .. Len(fs)
        BY <1>1
      <3>2. Offset(fs, k - 1) \in Nat
        BY CharacterOf
      <3> QED  BY <1>2, <2>2, <2>7, <3>1, <3>2
    <2>9. k - 1 < m
      <3>1. k - 1 < m <=> Offset(fs, k - 1) < o
        BY <1>1, <2>8, OffsetOrder
      <3> HIDE DEF m, o
      <3> QED  BY <1>1, <1>2, <2>8, <3>1
    <2>10. k - 1 \in 0 .. m - 1 /\ fs[(k - 1) + 1] = 37 /\ q \in p .. q
      <3> HIDE DEF m, o
      <3> QED  BY <1>1, <1>2, <2>7, <2>8, <2>9
    <2> HIDE DEF m
    <2> QED  BY <2>8, <2>10
  <1>3. ASSUME NEW k \in 0 .. m - 1, fs[k + 1] = 37, q = Offset(fs, k), q \in p .. q
        PROVE  q \in p .. o - 1 /\ b[q + 1] = 37 /\ q \in Nat
    <2>1. k \in 0 .. Len(fs) - 1 /\ k \in 0 .. Len(fs) /\ k < m
      <3> HIDE DEF m
      <3> QED  BY <1>1
    <2>2. b[q + 1] = 37
      BY <1>3, <2>1, FirstByte
    <2>3. q < o /\ q \in Nat
      <3>1. k < m <=> Offset(fs, k) < o
        BY <1>1, <2>1, OffsetOrder
      <3>2. Offset(fs, k) \in 0 .. Len(b)
        BY <1>1, <2>1, OffsetOrder
      <3> HIDE DEF m, o, b
      <3> QED  BY <1>1, <1>3, <2>1, <3>1, <3>2
    <2> HIDE DEF o, b
    <2> QED  BY <1>1, <1>3, <2>2, <2>3
  <1>4. Len(c_str(Encode(fs))) = o
    BY <1>1
  <1> HIDE DEF o
  <1> QED  BY <1>2, <1>3, <1>4

\* What follows a percent sign, in bytes.
LEMMA AfterPercent ==
  ASSUME NEW fs \in Texts, NEW k \in 0 .. Live(fs) - 1, fs[k + 1] = 37
  PROVE  LET b == Encode(fs)
             stop == Offset(fs, k)
         IN  /\ stop \in 0 .. Len(b) - 1 /\ Offset(fs, k + 1) = stop + 1
             /\ k + 1 < Live(fs) =>
                  /\ Past(b, stop) = Offset(fs, k + 2) /\ fs[k + 2] \in Nat
                  /\ fs[k + 2] < 128 => ByteAt(b, stop + 1) = fs[k + 2] /\ Offset(fs, k + 2) = stop + 2
                  /\ fs[k + 2] >= 128 => ByteAt(b, stop + 1) \in Nat /\ ByteAt(b, stop + 1) >= 128
             /\ ~(k + 1 < Live(fs)) => ByteAt(b, stop + 1) = 0 /\ Past(b, stop) = Offset(fs, k + 1)
  <1> DEFINE b == Encode(fs)
             m == Live(fs)
             stop == Offset(fs, k)
             o1 == Offset(fs, k + 1)
             o2 == Offset(fs, k + 2)
             l == Len(b)
             n == Len(fs)
  <1>1. /\ n \in Nat /\ l \in Nat /\ m \in 0 .. n /\ b \in Seq(Byte)
        /\ \A j \in 1 .. m : fs[j] # 0
        /\ m = n \/ fs[m + 1] = 0
    BY EncodeBytes, LiveIs DEF Texts
  <1>2. k \in 0 .. n - 1 /\ k \in Nat /\ k < m /\ k + 1 \in 1 .. n /\ (k + 1) - 1 = k
    <2>1. k \in 0 .. m - 1
      OBVIOUS
    <2> HIDE DEF m, n
    <2> QED  BY <1>1, <2>1
  <1>3. stop \in 0 .. l - 1 /\ o1 = stop + 1
    <2>1. stop \in 0 .. l - 1 /\ stop + g_utf8_skip(b[stop + 1]) = o1
      BY <1>2, OffsetStep
    <2>2. b[stop + 1] = 37
      BY <1>2, FirstByte
    <2>3. g_utf8_skip(b[stop + 1]) = 1
      BY <2>2 DEF g_utf8_skip
    <2> HIDE DEF o1, stop, b
    <2> QED  BY <2>1, <2>3
  <1>4. ASSUME NEW j \in 0 .. n - 1, j = k + 1
        PROVE  /\ ByteAt(b, o1) = b[o1 + 1] /\ b[o1 + 1] \in Nat
               /\ fs[j + 1] \in Nat
               /\ fs[j + 1] < 128 => b[o1 + 1] = fs[j + 1]
               /\ fs[j + 1] >= 128 => b[o1 + 1] >= 128
               /\ o1 + g_utf8_skip(b[o1 + 1]) = Offset(fs, j + 1)
    <2>1. o1 \in 0 .. l - 1 /\ o1 + g_utf8_skip(b[o1 + 1]) = Offset(fs, j + 1)
      BY <1>4, OffsetStep
    <2>2. ByteAt(b, o1) = b[o1 + 1]
      <3>1. o1 < Len(b)
        <4> HIDE DEF o1
        <4> QED  BY <1>1, <2>1
      <3> HIDE DEF o1, b
      <3> QED  BY <3>1 DEF ByteAt
    <2>3. fs[j + 1] \in Unicode /\ (fs[j + 1] < 128 => b[o1 + 1] = fs[j + 1])
          /\ (fs[j + 1] >= 128 => b[o1 + 1] >= 128)
      BY <1>4, FirstByte
    <2>4. fs[j + 1] \in Nat
      BY <2>3 DEF Unicode
    <2>5. b[o1 + 1] \in Nat
      <3>1. o1 + 1 \in 1 .. Len(b)
        <4> HIDE DEF o1, b
        <4> QED  BY <1>1, <2>1
      <3> HIDE DEF o1, b
      <3>2. b[o1 + 1] \in Byte
        BY <1>1, <3>1
      <3>3. \A x \in Byte : x \in Nat
        BY DEF Byte
      <3> QED  BY <3>2, <3>3
    <2> QED  BY <2>1, <2>2, <2>3, <2>4, <2>5
  <1>5. CASE k + 1 < m
    <2> DEFINE j == k + 1
    <2>1. j \in 0 .. n - 1 /\ j = k + 1 /\ j + 1 = k + 2 /\ k + 2 \in 1 .. m
      <3> HIDE DEF m, n
      <3> QED  BY <1>1, <1>2, <1>5
    <2>2. /\ ByteAt(b, o1) = b[o1 + 1] /\ b[o1 + 1] \in Nat
          /\ fs[k + 2] \in Nat
          /\ fs[k + 2] < 128 => b[o1 + 1] = fs[k + 2]
          /\ fs[k + 2] >= 128 => b[o1 + 1] >= 128
          /\ o1 + g_utf8_skip(b[o1 + 1]) = o2
      <3> HIDE DEF j
      <3>1. /\ ByteAt(b, o1) = b[o1 + 1] /\ b[o1 + 1] \in Nat
            /\ fs[j + 1] \in Nat
            /\ fs[j + 1] < 128 => b[o1 + 1] = fs[j + 1]
            /\ fs[j + 1] >= 128 => b[o1 + 1] >= 128
            /\ o1 + g_utf8_skip(b[o1 + 1]) = Offset(fs, j + 1)
        BY <1>4, <2>1
      <3>2. Offset(fs, j + 1) = o2 /\ fs[j + 1] = fs[k + 2]
        BY <2>1
      <3> HIDE DEF o1, o2
      <3> QED  BY <3>1, <3>2
    <2>3. fs[k + 2] # 0
      BY <1>1, <2>1
    <2> DEFINE x == ByteAt(b, stop + 1)
    <2>4. x = b[o1 + 1]
      <3> HIDE DEF stop, o1, b
      <3> QED  BY <1>3, <2>2
    <2>5. x # 0
      <3> HIDE DEF x, o1, b
      <3> QED  BY <2>2, <2>3, <2>4
    <2>6. Past(b, stop) = stop + 1 + g_utf8_skip(x)
      BY <2>5 DEF Past
    <2>7. g_utf8_skip(x) = g_utf8_skip(b[o1 + 1])
      <3> HIDE DEF x, o1, b
      <3> QED  BY <2>4
    <2>8. Past(b, stop) = o2
      <3> HIDE DEF x, o1, b, stop, o2
      <3> QED  BY <1>3, <2>2, <2>6, <2>7
    <2>9. fs[k + 2] < 128 => x = fs[k + 2] /\ o2 = stop + 2
      <3>1. SUFFICES ASSUME fs[k + 2] < 128 PROVE x = fs[k + 2] /\ o2 = stop + 2
        OBVIOUS
      <3>2. b[o1 + 1] = fs[k + 2]
        BY <2>2, <3>1
      <3>3. g_utf8_skip(b[o1 + 1]) = 1
        <4>1. \A z : z \in Nat /\ z < 128 => g_utf8_skip(z) = 1
          BY DEF g_utf8_skip
        <4> HIDE DEF o1, b
        <4> QED  BY <2>2, <3>1, <3>2, <4>1
      <3> HIDE DEF x, o1, b, stop, o2
      <3> QED  BY <1>3, <2>2, <2>4, <3>2, <3>3
    <2>10. fs[k + 2] >= 128 => x \in Nat /\ x >= 128
      <3> HIDE DEF x, o1, b
      <3> QED  BY <2>2, <2>4
    <2> QED  BY <1>3, <1>5, <2>2, <2>8, <2>9, <2>10
  <1>6. CASE ~(k + 1 < m)
    <2>1. k + 1 = m
      <3> HIDE DEF m
      <3> QED  BY <1>1, <1>2, <1>6
    <2>2. CASE m = n
      <3>1. o1 = l
        BY <2>1, <2>2, OffsetEnds
      <3>2. ByteAt(b, o1) = 0
        <4> HIDE DEF o1, b
        <4> QED  BY <1>1, <3>1 DEF ByteAt, l
      <3>3. ByteAt(b, stop + 1) = 0
        <4> HIDE DEF o1, b, stop
        <4> QED  BY <1>3, <3>2
      <3>4. Past(b, stop) = o1
        <4> HIDE DEF o1, b, stop
        <4> QED  BY <1>3, <3>3 DEF Past
      <3> QED  BY <1>3, <1>6, <3>3, <3>4
    <2>3. CASE m # n
      <3> DEFINE j == k + 1
      <3>1. j \in 0 .. n - 1 /\ j = k + 1 /\ fs[j + 1] = 0
        <4> HIDE DEF m, n
        <4> QED  BY <1>1, <1>2, <2>1, <2>3
      <3> HIDE DEF j
      <3>2. ByteAt(b, o1) = b[o1 + 1] /\ (fs[j + 1] < 128 => b[o1 + 1] = fs[j + 1])
        BY <1>4, <3>1
      <3>3. ByteAt(b, stop + 1) = 0
        <4> HIDE DEF o1, b, stop
        <4> QED  BY <1>3, <3>1, <3>2
      <3>4. Past(b, stop) = o1
        <4> HIDE DEF o1, b, stop
        <4> QED  BY <1>3, <3>3 DEF Past
      <3> QED  BY <1>3, <1>6, <3>3, <3>4
    <2> QED  BY <2>2, <2>3
  <1> QED  BY <1>5, <1>6

\* What compose() writes for the percent sign after k characters, and how
\* many characters it has read then.
Said(fs, args, k) ==
  IF k + 1 < Live(fs)
  THEN IF fs[k + 2] - 48 \in DOMAIN args THEN args[fs[k + 2] - 48]
       ELSE IF fs[k + 2] = 37 THEN <<37>> ELSE <<37, fs[k + 2]>>
  ELSE <<37>>
After(fs, k) == IF k + 1 < Live(fs) THEN k + 2 ELSE k + 1

\* Two elements, one after the other.
LEMMA Pair ==
  ASSUME NEW S, NEW a \in S, NEW c \in S
  PROVE  <<a>> \o <<c>> = <<a, c>>
  <1> DEFINE x == Append(<<a>>, c)
             y == <<a, c>>
  <1>1. x \in Seq(S) /\ y \in Seq(S) /\ <<a>> \in Seq(S)
    OBVIOUS
  <1>2. Len(x) = 2 /\ x[1] = a /\ x[2] = c
    BY <1>1, AppendProperties
  <1>3. Len(y) = 2 /\ y[1] = a /\ y[2] = c
    OBVIOUS
  <1>4. x = <<a>> \o <<c>>
    BY <1>1, AppendIsConcat
  <1> HIDE DEF x, y
  <1>5. x = y
    BY <1>1, <1>2, <1>3, SeqEqual
  <1> QED  BY <1>4, <1>5 DEF y

\* A run of characters and the next one.
LEMMA Prolongs ==
  ASSUME NEW fs \in Texts, NEW k \in 0 .. Len(fs) - 1, NEW j \in 0 .. k
  PROVE  /\ SubSeq(fs, j + 1, k) \in Texts
         /\ SubSeq(fs, j + 1, k + 1) = SubSeq(fs, j + 1, k) \o <<fs[k + 1]>>
         /\ <<fs[k + 1]>> \in Texts
  <1>1. Len(fs) \in Nat /\ fs \in Seq(Unicode) /\ k + 1 \in 1 .. Len(fs)
    BY DEF Texts
  <1>2. SubSeq(fs, j + 1, k) \in Texts
    <2>1. j \in 0 .. Len(fs) /\ k \in j .. Len(fs)
      BY <1>1
    <2> QED  BY <2>1, TextCut
  <1>3. SubSeq(fs, k + 1, k + 1) = <<fs[k + 1]>>
    BY <1>1, OneSlice
  <1>4. SubSeq(fs, j + 1, k) \o SubSeq(fs, k + 1, k + 1) = SubSeq(fs, j + 1, k + 1)
    <2>1. j + 1 \in 1 .. Len(fs) + 1 /\ k \in j .. Len(fs) /\ k + 1 \in k .. Len(fs)
      BY <1>1
    <2> QED  BY <1>1, <2>1, ConcatAdjacentSubSeq
  <1>5. fs[k + 1] \in Unicode
    BY <1>1
  <1>6. <<fs[k + 1]>> \in Texts
    BY <1>5 DEF Texts
  <1> QED  BY <1>2, <1>3, <1>4, <1>6

\* What a step of compose_private() puts in front, in characters.
LEMMA FrontIs ==
  ASSUME NEW fs \in Texts, NEW ilist, NEW args, Arguments(ilist, args),
         NEW k \in 0 .. Live(fs) - 1, fs[k + 1] = 37, NEW j \in 0 .. k
  PROVE  /\ Said(fs, args, k) \in Texts /\ After(fs, k) \in k + 1 .. Len(fs)
         /\ SubSeq(fs, j + 1, k) \in Texts
         /\ FrontText(Encode(fs), ilist, Offset(fs, j), Offset(fs, k))
              = Encode(SubSeq(fs, j + 1, k) \o Said(fs, args, k))
         /\ Rest(Encode(fs), ilist, Offset(fs, k)) = Offset(fs, After(fs, k))
  <1> DEFINE b == Encode(fs)
             m == Live(fs)
             p == Offset(fs, j)
             stop == Offset(fs, k)
             x == ByteAt(b, stop + 1)
             past == Past(b, stop)
             pre == SubSeq(fs, j + 1, k)
             said == Said(fs, args, k)
             front == FrontText(b, ilist, p, stop)
             rest == Rest(b, ilist, stop)
             n == Len(fs)
             c == fs[k + 2]
             o1 == Offset(fs, k + 1)
             o2 == Offset(fs, k + 2)
  <1>1. n \in Nat /\ m \in 0 .. n /\ k \in Nat /\ k < m /\ k \in 0 .. n - 1 /\ j \in Nat /\ j <= k
    <2>1. n \in Nat /\ m \in 0 .. n
      BY LiveIs DEF Texts
    <2>2. k \in 0 .. m - 1
      OBVIOUS
    <2> HIDE DEF m, n
    <2> QED  BY <2>1, <2>2
  <1>2. /\ o1 = stop + 1 /\ stop \in Nat
        /\ k + 1 < m =>
             /\ past = o2 /\ c \in Nat
             /\ c < 128 => x = c /\ o2 = stop + 2
             /\ c >= 128 => x \in Nat /\ x >= 128
        /\ ~(k + 1 < m) => x = 0 /\ past = o1
    <2>1. /\ stop \in 0 .. Len(b) - 1 /\ o1 = stop + 1
          /\ k + 1 < m =>
               /\ past = o2 /\ c \in Nat
               /\ c < 128 => x = c /\ o2 = stop + 2
               /\ c >= 128 => x \in Nat /\ x >= 128
          /\ ~(k + 1 < m) => x = 0 /\ past = o1
      BY AfterPercent
    <2> HIDE DEF o1, o2, stop, m, past, c, x, b
    <2> QED  BY <2>1
  <1>3. /\ DOMAIN ilist = 1 .. 2 /\ DOMAIN args = 1 .. 2
        /\ \A i \in 1 .. 2 : args[i] \in Texts /\ ilist[i] = Encode(args[i])
    BY DEF Arguments
  <1>4. /\ front = IF x = 37 THEN SubSeq(b, p + 1, stop + 1)
                   ELSE IF x - 48 \in 1 .. 2 THEN SubSeq(b, p + 1, stop) \o ilist[x - 48]
                   ELSE SubSeq(b, p + 1, past)
        /\ rest = IF x = 37 \/ x - 48 \in 1 .. 2 THEN stop + 2 ELSE past
    BY <1>3, Zenon DEF FrontText, Rest
  <1>5. said = IF k + 1 < m
               THEN IF c - 48 \in 1 .. 2 THEN args[c - 48] ELSE IF c = 37 THEN <<37>> ELSE <<37, c>>
               ELSE <<37>>
    BY <1>3, Zenon DEF Said
  <1>6. After(fs, k) = IF k + 1 < m THEN k + 2 ELSE k + 1
    BY DEF After
  <1>7. /\ pre \in Texts /\ <<37>> \in Texts
        /\ SubSeq(b, p + 1, stop) = Encode(pre) /\ SubSeq(b, p + 1, o1) = Encode(pre \o <<37>>)
    <2>1. pre \in Texts /\ SubSeq(fs, j + 1, k + 1) = pre \o <<fs[k + 1]>> /\ <<fs[k + 1]>> \in Texts
      BY <1>1, Prolongs
    <2>2. SubSeq(b, p + 1, stop) = Encode(pre)
      <3>1. j \in 0 .. n /\ k \in j .. n
        <4> HIDE DEF n, m
        <4> QED  BY <1>1
      <3> QED  BY <3>1, SliceEncoded
    <2>3. SubSeq(b, p + 1, o1) = Encode(SubSeq(fs, j + 1, k + 1))
      <3>1. j \in 0 .. n /\ k + 1 \in j .. n
        <4> HIDE DEF n, m
        <4> QED  BY <1>1
      <3> QED  BY <3>1, SliceEncoded
    <2> HIDE DEF pre
    <2> QED  BY <2>1, <2>2, <2>3
  <1>8. CASE k + 1 < m
    <2>1. /\ SubSeq(b, p + 1, o2) = Encode(pre \o <<37, c>>) /\ <<37, c>> \in Texts
          /\ k + 2 \in k + 1 .. n
      <3>1. k + 2 \in k + 1 .. n /\ k + 1 \in 0 .. n - 1 /\ j \in 0 .. k + 1 /\ j \in 0 .. n /\ k + 2 \in j .. n
            /\ (k + 1) + 1 = k + 2
        <4> HIDE DEF n, m
        <4> QED  BY <1>1, <1>8
      <3>2. SubSeq(b, p + 1, o2) = Encode(SubSeq(fs, j + 1, k + 2))
        BY <3>1, SliceEncoded
      <3>3. SubSeq(fs, j + 1, (k + 1) + 1) = SubSeq(fs, j + 1, k + 1) \o <<fs[(k + 1) + 1]>>
            /\ <<fs[(k + 1) + 1]>> \in Texts
        BY <3>1, Prolongs
      <3>4. SubSeq(fs, j + 1, k + 1) = pre \o <<37>> /\ pre \in Texts
        BY <1>1, Prolongs
      <3>5. SubSeq(fs, j + 1, k + 2) = (pre \o <<37>>) \o <<c>> /\ <<c>> \in Texts
        <4> HIDE DEF pre
        <4> QED  BY <3>1, <3>3, <3>4
      <3>6. (pre \o <<37>>) \o <<c>> = pre \o (<<37>> \o <<c>>)
        <4> HIDE DEF pre, c
        <4> QED  BY <1>7, <3>5, ConcatAssociative DEF Texts
      <3>7. <<37>> \o <<c>> = <<37, c>> /\ <<37, c>> \in Texts
        <4>1. c \in Unicode /\ 37 \in Unicode
          <5>1. c \in Unicode
            <6>1. k + 2 \in 1 .. n
              <7> HIDE DEF n
              <7> QED  BY <1>1, <3>1
            <6> QED  BY <6>1 DEF Texts
          <5>2. 37 \in Unicode
            BY DEF Unicode
          <5> QED  BY <5>1, <5>2
        <4> HIDE DEF c
        <4>2. <<37>> \o <<c>> = <<37, c>>
          BY <4>1, Pair
        <4>3. <<37, c>> \in Seq(Unicode)
          BY <4>1
        <4> QED  BY <4>2, <4>3 DEF Texts
      <3> HIDE DEF pre, c
      <3> QED  BY <3>1, <3>2, <3>5, <3>6, <3>7
    <2>2. CASE c = 37
      <3>1. x = 37 /\ o2 = stop + 2
        <4> HIDE DEF c, x, o2, stop, m, past, o1
        <4> QED  BY <1>2, <1>8, <2>2
      <3>2. said = <<37>>
        <4> HIDE DEF c, said, m
        <4> QED  BY <1>5, <1>8, <2>2
      <3>3. front = SubSeq(b, p + 1, o1) /\ rest = o2
        <4> HIDE DEF front, rest, b, p, o1, o2, x, stop, past
        <4> QED  BY <1>2, <1>4, <3>1
      <3>4. front = Encode(pre \o said) /\ said \in Texts
        <4> HIDE DEF front, b, p, o1, pre, said
        <4> QED  BY <1>7, <3>2, <3>3
      <3>5. After(fs, k) = k + 2
        BY <1>6, <1>8
      <3> QED  BY <1>7, <2>1, <3>3, <3>4, <3>5, Zenon
    <2>3. CASE c - 48 \in 1 .. 2
      <3> DEFINE i == c - 48
      <3>1. x = c /\ o2 = stop + 2 /\ x # 37
        <4> HIDE DEF c, x, o2, stop, m, past, o1
        <4> QED  BY <1>2, <1>8, <2>3
      <3>2. said = args[i]
        <4> HIDE DEF said, m
        <4> QED  BY <1>5, <1>8, <2>3, Zenon
      <3>3. front = SubSeq(b, p + 1, stop) \o ilist[i] /\ rest = o2
        <4>1. x - 48 = i
          <5> HIDE DEF x, c
          <5> QED  BY <3>1
        <4>2. i \in 1 .. 2
          BY <2>3
        <4> HIDE DEF front, rest, b, p, o1, o2, x, stop, past, i
        <4> QED  BY <1>2, <1>4, <3>1, <4>1, <4>2
      <3>4. args[i] \in Texts /\ ilist[i] = Encode(args[i])
        BY <1>3, <2>3
      <3>5. Encode(pre \o args[i]) = Encode(pre) \o Encode(args[i])
        BY <1>7, <3>4, EncodeConcat
      <3>6. front = Encode(pre \o said) /\ said \in Texts
        <4> HIDE DEF front, b, p, o1, pre, said, stop, i
        <4> QED  BY <1>7, <3>2, <3>3, <3>4, <3>5
      <3>7. After(fs, k) = k + 2
        BY <1>6, <1>8
      <3> QED  BY <1>7, <2>1, <3>3, <3>6, <3>7, Zenon
    <2>4. CASE c # 37 /\ c - 48 \notin 1 .. 2
      <3>1. x # 37 /\ x - 48 \notin 1 .. 2 /\ past = o2
        <4> HIDE DEF c, x, o2, stop, m, past, o1
        <4> QED  BY <1>2, <1>8, <2>4
      <3>2. said = <<37, c>>
        <4> HIDE DEF c, said, m
        <4> QED  BY <1>5, <1>8, <2>4
      <3>3. front = SubSeq(b, p + 1, o2) /\ rest = o2
        <4> HIDE DEF front, rest, b, p, o1, o2, x, stop, past
        <4> QED  BY <1>2, <1>4, <3>1
      <3>4. front = Encode(pre \o said) /\ said \in Texts
        <4> HIDE DEF front, b, p, o2, pre, said, c
        <4> QED  BY <2>1, <3>2, <3>3
      <3>5. After(fs, k) = k + 2
        BY <1>6, <1>8
      <3> QED  BY <1>7, <2>1, <3>3, <3>4, <3>5, Zenon
    <2> QED  BY <2>2, <2>3, <2>4
  <1>9. CASE ~(k + 1 < m)
    <2>1. x = 0 /\ past = o1
      BY <1>2, <1>9, Zenon
    <2>2. said = <<37>>
      BY <1>5, <1>9, Zenon
    <2>3. front = SubSeq(b, p + 1, o1) /\ rest = o1
      <3>2. x # 37 /\ x - 48 \notin 1 .. 2
        <4> HIDE DEF x
        <4> QED  BY <2>1
      <3>3. front = SubSeq(b, p + 1, past) /\ rest = past
        BY <1>4, <3>2, Zenon
      <3> HIDE DEF front, rest, b, p, o1, past
      <3> QED  BY <2>1, <3>3
    <2>4. front = Encode(pre \o said) /\ said \in Texts
      <3> HIDE DEF front, b, p, o1, pre, said
      <3> QED  BY <1>7, <2>2, <2>3
    <2>5. After(fs, k) = k + 1
      BY <1>6, <1>9, Zenon
    <2>6. k + 1 \in k + 1 .. n
      <3> HIDE DEF n, m
      <3> QED  BY <1>1
    <2> QED  BY <1>7, <2>3, <2>4, <2>5, <2>6, Zenon
  <1> QED  BY <1>8, <1>9

\* The bytes a step puts in front of the rest are bytes.
LEMMA FrontBytes ==
  ASSUME NEW b \in Seq(Byte), NEW ilist, DOMAIN ilist = 1 .. 2, \A j \in 1 .. 2 : ilist[j] \in Seq(Byte),
         NEW p \in Nat, NEW stop \in p .. Len(b) - 1, Past(b, stop) \in stop + 1 .. Len(b)
  PROVE  FrontText(b, ilist, p, stop) \in Seq(Byte) /\ Rest(b, ilist, stop) \in p + 1 .. Len(b) + 4
  <1> DEFINE x == ByteAt(b, stop + 1)
             i == x - 48
             q == Past(b, stop)
             pre == SubSeq(b, p + 1, stop)
             front == FrontText(b, ilist, p, stop)
             rest == Rest(b, ilist, stop)
             l == Len(b)
  <1>1. l \in Nat /\ stop \in Nat /\ stop \in p .. l - 1 /\ q \in stop + 1 .. l
    OBVIOUS
  <1>2. front = IF x = 37 THEN SubSeq(b, p + 1, stop + 1)
                ELSE IF i \in 1 .. 2 THEN pre \o ilist[i] ELSE SubSeq(b, p + 1, q)
    BY Zenon DEF FrontText
  <1>3. rest = IF x = 37 \/ i \in 1 .. 2 THEN stop + 2 ELSE q
    BY Zenon DEF Rest
  <1>4. ASSUME NEW e \in p .. l PROVE SubSeq(b, p + 1, e) \in Seq(Byte)
    <2>1. p + 1 \in 1 .. Len(b) + 1 /\ e \in p + 1 - 1 .. Len(b)
      BY <1>1
    <2> QED  BY <2>1, SubSeqProperties
  <1>5. stop \in p .. l /\ stop + 1 \in p .. l /\ q \in p .. l
    <2> HIDE DEF l, q
    <2> QED  BY <1>1
  <1>6. SubSeq(b, p + 1, stop + 1) \in Seq(Byte) /\ pre \in Seq(Byte) /\ SubSeq(b, p + 1, q) \in Seq(Byte)
    <2> HIDE DEF l, q
    <2> QED  BY <1>4, <1>5
  <1>7. front \in Seq(Byte)
    <2> HIDE DEF front, pre, q, x
    <2>1. CASE x = 37
      BY <1>2, <1>6, <2>1
    <2>2. CASE x # 37 /\ i \in 1 .. 2
      <3>1. front = pre \o ilist[i] /\ ilist[i] \in Seq(Byte)
        BY <1>2, <2>2, Zenon
      <3> HIDE DEF i
      <3> QED  BY <1>6, <3>1
    <2>3. CASE x # 37 /\ i \notin 1 .. 2
      BY <1>2, <1>6, <2>3, Zenon
    <2> QED  BY <2>1, <2>2, <2>3
  <1>8. rest \in p + 1 .. l + 4
    <2>1. rest = stop + 2 \/ rest = q
      BY <1>3, Zenon
    <2> HIDE DEF rest, q, l
    <2> QED  BY <1>1, <2>1
  <1> HIDE DEF front, rest
  <1> QED  BY <1>7, <1>8 DEF front, rest

\* Where the next percent sign is, in characters.
LEMMA NextPercent ==
  ASSUME NEW fs \in Texts, NEW p \in Nat, Percents(Encode(fs), p) # {}
  PROVE  LET b == Encode(fs)
             stop == Min(Percents(b, p))
         IN  /\ stop \in p .. Len(b) - 1 /\ Past(b, stop) \in stop + 1 .. Len(b)
             /\ \E k \in 0 .. Live(fs) - 1 :
                  /\ fs[k + 1] = 37 /\ stop = Offset(fs, k)
                  /\ \A i \in 0 .. k - 1 : fs[i + 1] = 37 => ~(p <= Offset(fs, i))
  <1> DEFINE b == Encode(fs)
             P == Percents(b, p)
             stop == Min(P)
             m == Live(fs)
             l == Len(b)
             n == Len(fs)
  <1>1. b \in Seq(Byte) /\ l \in Nat /\ Len(c_str(b)) \in 0 .. l /\ n \in Nat /\ m \in 0 .. n
    BY EncodeBytes, LiveIs DEF Texts
  <1>2. /\ stop \in p .. l - 1 /\ stop \in P /\ b[stop + 1] = 37 /\ stop < Len(c_str(b))
        /\ \A q \in P : stop <= q
    BY <1>1, FirstPercent
  <1>3. \A q : q \in P <=> q \in p .. Len(c_str(b)) - 1 /\ b[q + 1] = 37
    BY DEF Percents
  <1>4. \A q \in Nat : q \in P <=> \E k \in 0 .. m - 1 : fs[k + 1] = 37 /\ q = Offset(fs, k) /\ q \in p .. q
    <2> TAKE q \in Nat
    <2>1. (q \in p .. Len(c_str(b)) - 1 /\ b[q + 1] = 37 /\ q \in Nat)
            <=> \E k \in 0 .. m - 1 : fs[k + 1] = 37 /\ q = Offset(fs, k) /\ q \in p .. q
      BY PercentPlace
    <2> HIDE DEF P, b, m
    <2> QED  BY <1>3, <2>1
  <1>5. stop \in Nat
    <2> HIDE DEF stop, l
    <2> QED  BY <1>1, <1>2
  <1>6. PICK k \in 0 .. m - 1 : fs[k + 1] = 37 /\ stop = Offset(fs, k)
    <2> HIDE DEF stop, P, m
    <2> QED  BY <1>2, <1>4, <1>5
  <1>7. ASSUME NEW i \in 0 .. k - 1, fs[i + 1] = 37 PROVE ~(p <= Offset(fs, i))
    <2> DEFINE q == Offset(fs, i)
    <2>1. SUFFICES ASSUME p <= q PROVE FALSE
      OBVIOUS
    <2>2. i \in 0 .. n /\ k \in 0 .. n /\ i < k /\ i \in 0 .. m - 1
      <3> HIDE DEF m, n
      <3> QED  BY <1>1
    <2>3. q \in 0 .. l /\ q < Offset(fs, k)
      BY <2>2, OffsetOrder
    <2>4. q \in Nat /\ q \in p .. q
      <3> HIDE DEF q, l
      <3> QED  BY <1>1, <2>1, <2>3
    <2>5. q \in P
      <3> HIDE DEF P
      <3> QED  BY <1>4, <1>7, <2>2, <2>4
    <2>6. stop <= q /\ q < stop
      <3> HIDE DEF P, stop, q
      <3> QED  BY <1>2, <1>6, <2>3, <2>5
    <2> HIDE DEF q, stop
    <2> QED  BY <1>5, <2>4, <2>6
  <1>8. Past(b, stop) \in stop + 1 .. l
    <2>0. k \in 0 .. Live(fs) - 1 /\ fs[k + 1] = 37
      BY <1>6
    <2>1. /\ Offset(fs, k + 1) = Offset(fs, k) + 1
          /\ Past(b, Offset(fs, k)) = Offset(fs, k + 2) \/ Past(b, Offset(fs, k)) = Offset(fs, k + 1)
          /\ k + 1 < m \/ Past(b, Offset(fs, k)) = Offset(fs, k + 1)
      BY <2>0, AfterPercent
    <2>2. k + 1 \in 0 .. n /\ k \in 0 .. n
      <3> HIDE DEF m, n
      <3> QED  BY <1>1
    <2>3. Offset(fs, k + 1) \in 0 .. l
      BY <2>2, OffsetOrder
    <2>4. k + 1 < m => Offset(fs, k + 2) \in 0 .. l /\ Offset(fs, k + 1) < Offset(fs, k + 2)
      <3> SUFFICES ASSUME k + 1 < m PROVE Offset(fs, k + 2) \in 0 .. l /\ Offset(fs, k + 1) < Offset(fs, k + 2)
        OBVIOUS
      <3>1. k + 2 \in 0 .. n /\ k + 1 < k + 2
        <4> HIDE DEF m, n
        <4> QED  BY <1>1
      <3> QED  BY <2>2, <3>1, OffsetOrder
    <2> DEFINE past == Past(b, stop)
               o1 == Offset(fs, k + 1)
               o2 == Offset(fs, k + 2)
               o == Offset(fs, k)
    <2>5. past = Past(b, o) /\ o = stop
      <3> HIDE DEF stop, b
      <3> QED  BY <1>6
    <2>6. o1 = stop + 1 /\ o1 \in 0 .. l /\ (past = o1 \/ (past = o2 /\ o2 \in 0 .. l /\ o1 < o2))
      <3> HIDE DEF past, o1, o2, o, m, l, stop
      <3> QED  BY <2>1, <2>3, <2>4, <2>5 DEF past, o1, o2, o
    <2> HIDE DEF past, o1, o2, l, stop
    <2>7. past \in stop + 1 .. l
      BY <1>1, <1>5, <2>6
    <2> QED  BY <2>7 DEF past
  <1> QED  BY <1>2, <1>6, <1>7, <1>8

\* The results of compose_private() from every place on.
LEMMA ComposeStepwise ==
  ASSUME NEW fs \in Texts, NEW ilist, NEW args, Arguments(ilist, args)
  PROVE  \E f : /\ compose_private(Encode(fs), ilist) = f[0]
                /\ Composed(Encode(fs), ilist, f)
  <1> DEFINE b == Encode(fs)
             N == Len(b) + 4
             V == Seq(Byte)
             Full(f) == f = [start \in 0 .. N |-> Composes(b, ilist, f, start)]
             out == CHOOSE f : Full(f)
             stop == {p \in 0 .. N : Percents(b, p) = {}}
             first(p) == Min(Percents(b, p))
             base == [p \in 0 .. N |-> IF Percents(b, p) = {} THEN SubSeq(b, p + 1, Len(b)) ELSE <<>>]
             next == [p \in 0 .. N |-> Rest(b, ilist, first(p))]
             step == [p \in 0 .. N |-> [x \in V |-> FrontText(b, ilist, p, first(p)) \o x]]
  <1>1. compose_private(b, ilist) = out[0]
    BY DEF compose_private, Composes, Percents, ByteAt, Past
  <1>2. b \in V /\ Len(b) \in Nat /\ N \in Nat /\ <<>> \in V
    BY EncodeBytes
  <1>3. DOMAIN ilist = 1 .. 2 /\ \A j \in 1 .. 2 : ilist[j] \in V
    BY EncodeBytes DEF Arguments
  <1>4. ASSUME NEW p \in 0 .. N
        PROVE  /\ p \in stop <=> Percents(b, p) = {}
               /\ p \in stop => base[p] = SubSeq(b, p + 1, Len(b))
               /\ next[p] = Rest(b, ilist, first(p))
               /\ \A x \in V : step[p][x] = FrontText(b, ilist, p, first(p)) \o x
    <2> HIDE DEF b, N, V, first
    <2> QED  BY <1>4
  <1>5. ASSUME NEW p \in 0 .. N, p \notin stop
        PROVE  FrontText(b, ilist, p, first(p)) \in V /\ Rest(b, ilist, first(p)) \in p + 1 .. N
    <2>1. p \in Nat /\ Percents(b, p) # {}
      <3> HIDE DEF stop, b, N
      <3> QED  BY <1>2, <1>4, <1>5
    <2>2. first(p) \in p .. Len(b) - 1 /\ Past(b, first(p)) \in first(p) + 1 .. Len(b)
      BY <2>1, NextPercent
    <2> DEFINE s == first(p)
    <2> HIDE DEF stop, first, b
    <2> QED  BY <1>2, <1>3, <2>1, <2>2, FrontBytes, SMTT(40)
  <1>6. ASSUME NEW p \in 0 .. N, p \in stop
        PROVE  base[p] \in V
    <2>1. base[p] = SubSeq(b, p + 1, Len(b))
      BY <1>4, <1>6
    <2>2. CASE p <= Len(b)
      <3>1. p + 1 \in 1 .. Len(b) + 1 /\ Len(b) \in p + 1 - 1 .. Len(b)
        <4> HIDE DEF b
        <4> QED  BY <1>2, <2>2
      <3> HIDE DEF b, base
      <3> QED  BY <1>2, <2>1, <3>1, SubSeqProperties
    <2>3. CASE ~(p <= Len(b))
      <3>1. p + 1 > Len(b) /\ p + 1 \in Int
        <4> HIDE DEF b
        <4> QED  BY <1>2, <2>3
      <3>2. SubSeq(b, p + 1, Len(b)) = <<>>
        <4> HIDE DEF b
        <4> QED  BY <1>2, <3>1, SubSeqEmpty
      <3> HIDE DEF b, base
      <3> QED  BY <1>2, <2>1, <3>2
    <2> QED  BY <2>2, <2>3
  <1>7. Forward(N, V, <<>>, stop, base, next, step)
    <2>1. ASSUME NEW p \in 0 .. N, p \notin stop
          PROVE  next[p] \in p + 1 .. N /\ \A x \in V : step[p][x] \in V
      <3> DEFINE front == FrontText(b, ilist, p, first(p))
                 rest == Rest(b, ilist, first(p))
      <3>1. next[p] = rest /\ \A x \in V : step[p][x] = front \o x
        BY <1>4
      <3>2. front \in V /\ rest \in p + 1 .. N
        BY <1>5, <2>1
      <3> HIDE DEF front, rest, next, step, N
      <3>3. \A x \in V : front \o x \in V
        BY <3>2
      <3> HIDE DEF V
      <3> QED  BY <3>1, <3>2, <3>3
    <2>2. \A p \in 0 .. N : p \in stop => base[p] \in V
      BY <1>6
    <2> HIDE DEF N, V, stop, base, next, step
    <2> QED  BY <1>2, <2>1, <2>2 DEF Forward
  <1>8. PICK f \in [0 .. N -> V] :
          \A p \in 0 .. N : f[p] = IF p \in stop THEN base[p] ELSE step[p][f[next[p]]]
    <2> HIDE DEF N, V, stop, base, next, step
    <2> QED  BY <1>7, ForwardRecursion DEF Solves
  <1>9. ASSUME NEW p \in 0 .. N
        PROVE  f[p] = Composes(b, ilist, f, p)
    <2>1. Composes(b, ilist, f, p) =
            IF Percents(b, p) = {} THEN SubSeq(b, p + 1, Len(b))
            ELSE FrontText(b, ilist, p, first(p)) \o f[Rest(b, ilist, first(p))]
      BY <1>3, ComposesIs
    <2>2. CASE Percents(b, p) = {}
      <3>1. p \in stop /\ base[p] = SubSeq(b, p + 1, Len(b))
        BY <1>4, <2>2
      <3>2. f[p] = base[p]
        <4> HIDE DEF stop, base, next, step, N, V
        <4> QED  BY <1>8, <3>1
      <3> HIDE DEF base, b, first
      <3> QED  BY <2>1, <2>2, <3>1, <3>2, Zenon
    <2>3. CASE Percents(b, p) # {}
      <3>1. p \notin stop /\ next[p] = Rest(b, ilist, first(p))
        BY <1>4, <2>3
      <3>2. next[p] \in 0 .. N
        <4>1. next[p] \in p + 1 .. N
          <5> HIDE DEF stop, next, first, b, N, V
          <5> QED  BY <1>5, <3>1
        <4> HIDE DEF next, N
        <4> QED  BY <1>2, <4>1
      <3>3. f[p] = step[p][f[next[p]]] /\ f[next[p]] \in V
        <4> HIDE DEF stop, base, next, step, N, V
        <4> QED  BY <1>8, <3>1, <3>2
      <3>4. step[p][f[next[p]]] = FrontText(b, ilist, p, first(p)) \o f[next[p]]
        <4> HIDE DEF stop, base, next, step, N, V, first, b
        <4> QED  BY <1>4, <3>3
      <3> HIDE DEF next, step, b, first
      <3> QED  BY <2>1, <2>3, <3>1, <3>3, <3>4, Zenon
    <2> QED  BY <2>2, <2>3
  <1>10. Full(f)
    <2> HIDE DEF N, V, b
    <2> QED  BY <1>8, <1>9
  <1>11. Full(out)
    <2> HIDE DEF Full
    <2> QED  BY <1>10
  <1> HIDE DEF out
  <1>12. ASSUME NEW p \in 0 .. N
         PROVE  out[p] = Composes(b, ilist, out, p)
    <2> HIDE DEF N, b
    <2> QED  BY <1>11
  <1>13. Composed(b, ilist, out)
    <2> SUFFICES ASSUME NEW p \in 0 .. Len(b) + 4
                 PROVE  /\ Percents(b, p) = {} => out[p] = SubSeq(b, p + 1, Len(b))
                        /\ Percents(b, p) # {} =>
                             out[p] = FrontText(b, ilist, p, first(p)) \o out[Rest(b, ilist, first(p))]
      BY DEF Composed
    <2>1. out[p] = Composes(b, ilist, out, p)
      BY <1>12
    <2>2. Composes(b, ilist, out, p) =
            IF Percents(b, p) = {} THEN SubSeq(b, p + 1, Len(b))
            ELSE FrontText(b, ilist, p, first(p)) \o out[Rest(b, ilist, first(p))]
      BY <1>3, ComposesIs
    <2> HIDE DEF b, first
    <2> QED  BY <2>1, <2>2, Zenon
  <1> QED  BY <1>1, <1>13

\* compose() of the characters, one character or argument at a time.
Writing(fs, args, f, k) ==
  LET live == Live(fs)
      digit(m) == m <= live /\ fs[m] - 48 \in DOMAIN args
  IN  IF k > live THEN SubSeq(fs, k, Len(fs))
      ELSE IF fs[k] # 37 THEN <<fs[k]>> \o f[k + 1]
      ELSE IF digit(k + 1) THEN args[fs[k + 1] - 48] \o f[k + 2]
      ELSE IF k < live /\ fs[k + 1] = 37 THEN <<37>> \o f[k + 2]
      ELSE IF k < live THEN <<37, fs[k + 1]>> \o f[k + 2]
      ELSE <<37>> \o f[k + 1]
Piece(fs, args, k) == IF fs[k] # 37 THEN <<fs[k]>> ELSE Said(fs, args, k - 1)
Onward(fs, k) == IF fs[k] # 37 THEN k + 1 ELSE After(fs, k - 1) + 1

\* A step writes a piece before what comes after it.
LEMMA WritingIs ==
  ASSUME NEW fs \in Texts, NEW args, NEW f, NEW k \in 1 .. Live(fs)
  PROVE  Writing(fs, args, f, k) = Piece(fs, args, k) \o f[Onward(fs, k)]
  <1> DEFINE m == Live(fs)
             d == fs[k + 1] - 48
  <1>1. m \in Nat /\ k \in 1 .. m /\ k \in Nat
    BY LiveIs
  <1>2. /\ k - 1 + 1 = k /\ k - 1 + 2 = k + 1 /\ ~(k > m) /\ (k + 1 <= m <=> k < m)
        /\ (k + 1) + 1 = k + 2
    <2> HIDE DEF m
    <2> QED  BY <1>1
  <1>3. Writing(fs, args, f, k) =
          IF fs[k] # 37 THEN <<fs[k]>> \o f[k + 1]
          ELSE IF k < m /\ d \in DOMAIN args THEN args[d] \o f[k + 2]
          ELSE IF k < m /\ fs[k + 1] = 37 THEN <<37>> \o f[k + 2]
          ELSE IF k < m THEN <<37, fs[k + 1]>> \o f[k + 2]
          ELSE <<37>> \o f[k + 1]
    BY <1>2, Zenon DEF Writing
  <1>4. Said(fs, args, k - 1) = IF k < m
                                THEN IF d \in DOMAIN args THEN args[d]
                                     ELSE IF fs[k + 1] = 37 THEN <<37>> ELSE <<37, fs[k + 1]>>
                                ELSE <<37>>
    BY <1>2, Zenon DEF Said
  <1>5. After(fs, k - 1) + 1 = IF k < m THEN k + 2 ELSE k + 1
    <2>1. After(fs, k - 1) = IF k < m THEN k + 1 ELSE k
      BY <1>2, Zenon DEF After
    <2> HIDE DEF m
    <2> QED  BY <1>2, <2>1
  <1>6. /\ Piece(fs, args, k) = IF fs[k] # 37 THEN <<fs[k]>> ELSE Said(fs, args, k - 1)
        /\ Onward(fs, k) = IF fs[k] # 37 THEN k + 1 ELSE After(fs, k - 1) + 1
    BY Zenon DEF Piece, Onward
  <1> HIDE DEF m, d
  <1>7. CASE fs[k] # 37
    BY <1>3, <1>6, <1>7, Zenon
  <1>8. CASE fs[k] = 37
    <2>1. Piece(fs, args, k) = Said(fs, args, k - 1) /\ Onward(fs, k) = After(fs, k - 1) + 1
      BY <1>6, <1>8, Zenon
    <2>2. CASE k < m
      <3>1. Onward(fs, k) = k + 2
        BY <1>5, <2>1, <2>2, Zenon
      <3>2. CASE d \in DOMAIN args
        BY <1>3, <1>4, <1>8, <2>1, <2>2, <3>1, <3>2, Zenon
      <3>3. CASE d \notin DOMAIN args /\ fs[k + 1] = 37
        BY <1>3, <1>4, <1>8, <2>1, <2>2, <3>1, <3>3, Zenon
      <3>4. CASE d \notin DOMAIN args /\ fs[k + 1] # 37
        BY <1>3, <1>4, <1>8, <2>1, <2>2, <3>1, <3>4, Zenon
      <3> QED  BY <3>2, <3>3, <3>4
    <2>3. CASE ~(k < m)
      <3>1. Onward(fs, k) = k + 1 /\ Piece(fs, args, k) = <<37>>
        BY <1>4, <1>5, <2>1, <2>3, Zenon
      <3> QED  BY <1>3, <1>8, <2>3, <3>1, Zenon
    <2> QED  BY <2>2, <2>3
  <1> QED  BY <1>7, <1>8

\* The texts written from every character on.
Writes(fs, args, out) ==
  \A k \in 1 .. Len(fs) + 1 :
    /\ k > Live(fs) => out[k] = SubSeq(fs, k, Len(fs))
    /\ k \in 1 .. Live(fs) =>
         /\ Piece(fs, args, k) \in Texts /\ Onward(fs, k) \in k + 1 .. Len(fs) + 1
         /\ out[k] = Piece(fs, args, k) \o out[Onward(fs, k)]

\* A piece is a text, and something is read for it.
LEMMA PieceIs ==
  ASSUME NEW fs \in Texts, NEW ilist, NEW args, Arguments(ilist, args), NEW k \in 1 .. Live(fs)
  PROVE  Piece(fs, args, k) \in Texts /\ Onward(fs, k) \in k + 1 .. Len(fs) + 1
  <1>1. Len(fs) \in Nat /\ Live(fs) \in 0 .. Len(fs)
    BY LiveIs DEF Texts
  <1>2. CASE fs[k] # 37
    <2>1. Piece(fs, args, k) = <<fs[k]>> /\ Onward(fs, k) = k + 1
      BY <1>2 DEF Piece, Onward
    <2>2. fs[k] \in Unicode
      <3>1. k \in 1 .. Len(fs)
        BY <1>1
      <3> QED  BY <3>1 DEF Texts
    <2>3. <<fs[k]>> \in Texts
      BY <2>2 DEF Texts
    <2>4. k + 1 \in k + 1 .. Len(fs) + 1
      BY <1>1
    <2> QED  BY <2>1, <2>3, <2>4
  <1>3. CASE fs[k] = 37
    <2> DEFINE j == k - 1
    <2>1. j \in 0 .. Live(fs) - 1 /\ j + 1 = k /\ j \in 0 .. j
      BY <1>1
    <2>2. Piece(fs, args, k) = Said(fs, args, j) /\ Onward(fs, k) = After(fs, j) + 1
      BY <1>3, Zenon DEF Piece, Onward
    <2> HIDE DEF j
    <2>3. fs[j + 1] = 37
      BY <1>3, <2>1
    <2>4. Said(fs, args, j) \in Texts /\ After(fs, j) \in j + 1 .. Len(fs)
      BY <2>1, <2>3, FrontIs
    <2>5. After(fs, j) + 1 \in k + 1 .. Len(fs) + 1
      <3> DEFINE a == After(fs, j)
      <3> HIDE DEF a
      <3>1. a \in j + 1 .. Len(fs)
        BY <2>4 DEF a
      <3>2. a + 1 \in k + 1 .. Len(fs) + 1
        BY <1>1, <2>1, <3>1
      <3> QED  BY <3>2 DEF a
    <2> QED  BY <2>2, <2>4, <2>5
  <1> QED  BY <1>2, <1>3

\* What compose() promises, from every character on.
LEMMA WritesStepwise ==
  ASSUME NEW fs \in Texts, NEW ilist, NEW args, Arguments(ilist, args)
  PROVE  \E f : Characters!Composed(fs, args, Live(fs)) = f[1] /\ Writes(fs, args, f)
  <1> DEFINE n == Len(fs)
             D == 1 .. n + 1
             V == Texts
             m == Live(fs)
             Full(f) == f = [k \in D |-> Writing(fs, args, f, k)]
             out == CHOOSE f : Full(f)
             rank == [k \in D |-> (n + 1) - k]
             stop == {k \in D : k > m}
             base == [k \in D |-> SubSeq(fs, k, n)]
             next == [k \in D |-> Onward(fs, k)]
             step == [k \in D |-> [x \in V |-> Piece(fs, args, k) \o x]]
  <1>1. Characters!Composed(fs, args, Live(fs)) = out[1]
    BY DEF Characters!Composed, Writing, Live
  <1>2. n \in Nat /\ m \in 0 .. n /\ fs \in Seq(Unicode) /\ fs \in V
    BY LiveIs DEF Texts
  <1>3. ASSUME NEW k \in D
        PROVE  /\ k \in Nat /\ k \in 1 .. n + 1
               /\ rank[k] = (n + 1) - k
               /\ k \in stop <=> k > m
               /\ base[k] = SubSeq(fs, k, n)
               /\ next[k] = Onward(fs, k)
               /\ \A x \in V : step[k][x] = Piece(fs, args, k) \o x
    <2>1. k \in 1 .. n + 1
      OBVIOUS
    <2>2. k \in Nat
      <3> HIDE DEF n
      <3> QED  BY <1>2, <2>1
    <2> HIDE DEF n, m, V
    <2> QED  BY <2>1, <2>2
  <1>4. ASSUME NEW k \in D, k \notin stop
        PROVE  k \in 1 .. m /\ Piece(fs, args, k) \in V /\ Onward(fs, k) \in k + 1 .. n + 1
    <2>1. k \in 1 .. m
      <3>1. ~(k > m) /\ k \in 1 .. n + 1
        BY <1>3, <1>4
      <3> HIDE DEF m, n
      <3> QED  BY <1>2, <3>1
    <2> QED  BY <2>1, PieceIs
  <1>5. ASSUME NEW k \in D PROVE base[k] \in V
    <2>1. base[k] = SubSeq(fs, k, n) /\ k \in 1 .. n + 1
      BY <1>3
    <2>2. k \in 1 .. Len(fs) + 1 /\ n \in k - 1 .. Len(fs)
      BY <1>2, <2>1
    <2>3. SubSeq(fs, k, n) \in Seq(Unicode)
      BY <1>2, <2>2, SubSeqProperties
    <2> QED  BY <2>1, <2>3 DEF Texts
  <1>6. Descends(D, n, rank, V, fs, stop, base, next, step)
    <2>1. rank \in [D -> 0 .. n]
      <3>1. \A k \in D : (n + 1) - k \in 0 .. n
        <4> HIDE DEF n
        <4> QED  BY <1>2
      <3> HIDE DEF n, D
      <3> QED  BY <3>1
    <2>2. ASSUME NEW k \in D, k \notin stop
          PROVE  next[k] \in D /\ rank[next[k]] < rank[k] /\ \A x \in V : step[k][x] \in V
      <3>1. next[k] = Onward(fs, k) /\ \A x \in V : step[k][x] = Piece(fs, args, k) \o x
        BY <1>3
      <3>2. Piece(fs, args, k) \in V /\ Onward(fs, k) \in k + 1 .. n + 1 /\ k \in Nat
        BY <1>3, <1>4, <2>2
      <3> DEFINE piece == Piece(fs, args, k)
      <3> HIDE DEF piece
      <3>3. \A x \in V : piece \o x \in V
        BY <3>2 DEF piece, Texts
      <3>4. next[k] \in k + 1 .. n + 1
        <4> HIDE DEF next
        <4> QED  BY <3>1, <3>2
      <3>5. next[k] \in D
        <4> HIDE DEF next, n
        <4> QED  BY <1>2, <3>2, <3>4
      <3>6. rank[next[k]] = (n + 1) - next[k] /\ rank[k] = (n + 1) - k
        <4> HIDE DEF next, rank, D
        <4> QED  BY <1>3, <3>5
      <3>7. rank[next[k]] < rank[k]
        <4> HIDE DEF next, rank, n
        <4> QED  BY <1>2, <3>2, <3>4, <3>6
      <3>8. \A x \in V : step[k][x] \in V
        <4> HIDE DEF step, V
        <4> QED  BY <3>1, <3>3 DEF piece
      <3> QED  BY <3>5, <3>7, <3>8
    <2>3. \A k \in D : k \in stop => base[k] \in V
      BY <1>5
    <2> HIDE DEF n, D, V, rank, stop, base, next, step
    <2> QED  BY <1>2, <2>1, <2>2, <2>3 DEF Descends
  <1>7. PICK f \in [D -> V] :
          \A k \in D : f[k] = IF k \in stop THEN base[k] ELSE step[k][f[next[k]]]
    <2> HIDE DEF n, D, V, rank, stop, base, next, step
    <2> QED  BY <1>6, RankedRecursion DEF Solves
  <1>8. ASSUME NEW k \in D, NEW g
        PROVE  Writing(fs, args, g, k) = IF k > m THEN SubSeq(fs, k, n)
                                         ELSE Piece(fs, args, k) \o g[Onward(fs, k)]
    <2>1. CASE k > m
      BY <2>1, Zenon DEF Writing
    <2>2. CASE ~(k > m)
      <3>1. k \in 1 .. m
        <4>1. k \in 1 .. n + 1
          OBVIOUS
        <4> HIDE DEF m, n
        <4> QED  BY <1>2, <2>2, <4>1
      <3>2. Writing(fs, args, g, k) = Piece(fs, args, k) \o g[Onward(fs, k)]
        BY <3>1, WritingIs
      <3> QED  BY <2>2, <3>2, Zenon
    <2> QED  BY <2>1, <2>2
  <1>9. ASSUME NEW k \in D PROVE f[k] = Writing(fs, args, f, k)
    <2>1. Writing(fs, args, f, k) = IF k > m THEN SubSeq(fs, k, n)
                                    ELSE Piece(fs, args, k) \o f[Onward(fs, k)]
      BY <1>8
    <2>2. CASE k > m
      <3>1. k \in stop /\ base[k] = SubSeq(fs, k, n)
        BY <1>3, <2>2
      <3>2. f[k] = base[k]
        <4> HIDE DEF stop, base, next, step, D, V
        <4> QED  BY <1>7, <3>1
      <3> HIDE DEF base, m, n
      <3> QED  BY <2>1, <2>2, <3>1, <3>2, Zenon
    <2>3. CASE ~(k > m)
      <3>1. k \notin stop /\ next[k] = Onward(fs, k)
        BY <1>3, <2>3
      <3>2. next[k] \in D
        <4>1. next[k] \in k + 1 .. n + 1 /\ k \in Nat
          BY <1>3, <1>4, <3>1
        <4> HIDE DEF next, n
        <4> QED  BY <1>2, <4>1
      <3>3. f[k] = step[k][f[next[k]]] /\ f[next[k]] \in V
        <4> HIDE DEF stop, base, next, step, D, V
        <4> QED  BY <1>7, <3>1, <3>2
      <3>4. step[k][f[next[k]]] = Piece(fs, args, k) \o f[next[k]]
        <4> HIDE DEF stop, base, next, step, D, V
        <4> QED  BY <1>3, <3>3
      <3> HIDE DEF next, step, m, n
      <3> QED  BY <2>1, <2>3, <3>1, <3>3, <3>4, Zenon
    <2> QED  BY <2>2, <2>3
  <1>10. Full(f)
    <2> HIDE DEF D, V
    <2> QED  BY <1>7, <1>9
  <1>11. Full(out)
    <2> HIDE DEF Full
    <2> QED  BY <1>10
  <1> HIDE DEF out
  <1>12. ASSUME NEW k \in D
         PROVE  /\ k > m => out[k] = SubSeq(fs, k, n)
                /\ k \in 1 .. m =>
                     /\ Piece(fs, args, k) \in Texts /\ Onward(fs, k) \in k + 1 .. n + 1
                     /\ out[k] = Piece(fs, args, k) \o out[Onward(fs, k)]
    <2>1. out[k] = Writing(fs, args, out, k)
      <3> HIDE DEF D
      <3> QED  BY <1>11
    <2>2. Writing(fs, args, out, k) = IF k > m THEN SubSeq(fs, k, n)
                                      ELSE Piece(fs, args, k) \o out[Onward(fs, k)]
      BY <1>8
    <2>3. k \in 1 .. m => ~(k > m)
      <3> HIDE DEF m
      <3> QED  BY <1>2
    <2>4. k \in 1 .. m => Piece(fs, args, k) \in Texts /\ Onward(fs, k) \in k + 1 .. n + 1
      BY PieceIs
    <2> HIDE DEF m, n
    <2> QED  BY <2>1, <2>2, <2>3, <2>4, Zenon
  <1>13. Writes(fs, args, out)
    BY <1>12 DEF Writes
  <1> QED  BY <1>1, <1>13

\* Three texts joined in either order.
LEMMA TextsRegrouped ==
  ASSUME NEW x \in Texts, NEW y \in Texts, NEW z \in Texts
  PROVE  (x \o y) \o z = x \o (y \o z)
  <1>1. x \in Seq(Unicode) /\ y \in Seq(Unicode) /\ z \in Seq(Unicode)
    BY DEF Texts
  <1> QED  BY <1>1, ConcatAssociative

\* Characters that are no percent signs are written as they are.
LEMMA PlainRun ==
  ASSUME NEW fs \in Texts, NEW args, NEW out, Writes(fs, args, out),
         NEW k \in 0 .. Live(fs), NEW j \in 0 .. k, \A i \in j .. k - 1 : fs[i + 1] # 37,
         out[k + 1] \in Texts
  PROVE  out[j + 1] = SubSeq(fs, j + 1, k) \o out[k + 1]
  <1> DEFINE n == Len(fs)
             m == Live(fs)
             rest == out[k + 1]
             l == k - j
             S == {d \in 0 .. l : out[(k - d) + 1] = SubSeq(fs, (k - d) + 1, k) \o rest}
  <1>1. n \in Nat /\ m \in 0 .. n /\ fs \in Seq(Unicode) /\ rest \in Seq(Unicode)
    BY LiveIs DEF Texts
  <1>2. k \in Nat /\ j \in Nat /\ j <= k /\ k <= m /\ l \in Nat
    <2>1. k \in 0 .. m
      OBVIOUS
    <2> HIDE DEF m
    <2> QED  BY <1>1, <2>1
  <1>3. 0 \in S
    <2>1. SubSeq(fs, k + 1, k) = <<>>
      <3>1. k + 1 > k /\ k + 1 \in Int
        BY <1>2
      <3> QED  BY <1>1, <3>1, SubSeqEmpty
    <2>2. <<>> \o rest = rest
      <3> HIDE DEF rest
      <3> QED  BY <1>1, ConcatEmptySeq
    <2>3. k - 0 = k /\ 0 \in 0 .. l
      BY <1>2
    <2> HIDE DEF l
    <2> QED  BY <2>1, <2>2, <2>3
  <1>4. ASSUME NEW d \in 1 .. l, d - 1 \in S PROVE d \in S
    <2> DEFINE i == k - d
    <2>1. /\ i \in j .. k - 1 /\ i \in Nat /\ (k - (d - 1)) + 1 = (i + 1) + 1 /\ d \in 0 .. l
          /\ i + 1 \in 1 .. m /\ i + 1 \in 1 .. n + 1 /\ i \in 0 .. n - 1 /\ i + 1 \in i .. n /\ k \in i + 1 .. n
      <3> HIDE DEF m, n
      <3> QED  BY <1>1, <1>2
    <2>2. out[(k - (d - 1)) + 1] = SubSeq(fs, (k - (d - 1)) + 1, k) \o rest
      BY <1>4
    <2> HIDE DEF i
    <2>3. out[(i + 1) + 1] = SubSeq(fs, (i + 1) + 1, k) \o rest
      <3> HIDE DEF rest, S
      <3> QED  BY <2>1, <2>2
    <2>4. fs[i + 1] # 37
      BY <2>1
    <2>5. out[i + 1] = <<fs[i + 1]>> \o out[(i + 1) + 1]
      <3>1. out[i + 1] = Piece(fs, args, i + 1) \o out[Onward(fs, i + 1)]
        BY <2>1 DEF Writes
      <3>2. Piece(fs, args, i + 1) = <<fs[i + 1]>> /\ Onward(fs, i + 1) = (i + 1) + 1
        BY <2>4 DEF Piece, Onward
      <3> QED  BY <3>1, <3>2
    <2> DEFINE one == <<fs[i + 1]>>
               run == SubSeq(fs, (i + 1) + 1, k)
    <2>6. one \o run = SubSeq(fs, i + 1, k) /\ one \in Seq(Unicode) /\ run \in Seq(Unicode)
      <3>1. SubSeq(fs, i + 1, i + 1) = <<fs[i + 1]>>
        <4>1. i + 1 \in 1 .. Len(fs)
          BY <1>1, <2>1
        <4> QED  BY <1>1, <4>1, OneSlice
      <3>2. SubSeq(fs, i + 1, i + 1) \in Texts /\ SubSeq(fs, i + 1, i + 1) \o SubSeq(fs, (i + 1) + 1, k) = SubSeq(fs, i + 1, k)
        <4>1. i + 1 \in 1 .. Len(fs) + 1 /\ i + 1 \in i .. Len(fs) /\ k \in i + 1 .. Len(fs) /\ i \in 0 .. Len(fs)
          BY <1>1, <2>1
        <4>2. SubSeq(fs, i + 1, i + 1) \o SubSeq(fs, (i + 1) + 1, k) = SubSeq(fs, i + 1, k)
          BY <1>1, <4>1, ConcatAdjacentSubSeq
        <4>3. SubSeq(fs, i + 1, i + 1) \in Texts
          BY <4>1, TextCut
        <4> QED  BY <4>2, <4>3
      <3>3. SubSeq(fs, (i + 1) + 1, k) \in Texts
        <4>1. i + 1 \in 0 .. Len(fs) /\ k \in i + 1 .. Len(fs)
          BY <1>1, <2>1
        <4> QED  BY <4>1, TextCut
      <3> QED  BY <3>1, <3>2, <3>3 DEF Texts
    <2> HIDE DEF one, run
    <2>7. (one \o run) \o rest = one \o (run \o rest)
      <3>1. one \in Texts /\ run \in Texts /\ rest \in Texts
        BY <1>1, <2>6 DEF Texts
      <3> HIDE DEF rest
      <3> QED  BY <3>1, TextsRegrouped, SMTT(40)
    <2>8. out[i + 1] = SubSeq(fs, i + 1, k) \o rest
      <3>1. out[i + 1] = one \o (run \o rest)
        BY <2>3, <2>5, Zenon DEF one, run
      <3> HIDE DEF rest
      <3> QED  BY <2>6, <2>7, <3>1, Zenon
    <2> HIDE DEF l, rest
    <2> QED  BY <2>1, <2>8 DEF i
  <1> HIDE DEF S, l
  <1>5. \A d \in 0 .. l : d \in S
    BY <1>2, <1>3, <1>4, Induction
  <1>6. l \in S
    BY <1>2, <1>5
  <1>7. out[(k - l) + 1] = SubSeq(fs, (k - l) + 1, k) \o rest
    BY <1>6 DEF S
  <1>8. k - l = j
    BY <1>2 DEF l
  <1> QED  BY <1>7, <1>8

\* From every character on, both sides of compose() write the same.
Agrees(fs, f, out, k) == out[k + 1] \in Texts /\ f[Offset(fs, k)] = Encode(out[k + 1])

\* They agree on a place when they agree on all later ones.
LEMMA AgreesFrom ==
  ASSUME NEW fs \in Texts, NEW ilist, NEW args, Arguments(ilist, args),
         NEW f, Composed(Encode(fs), ilist, f), NEW out, Writes(fs, args, out),
         NEW j \in 0 .. Len(fs), \A a \in j + 1 .. Len(fs) : Agrees(fs, f, out, a)
  PROVE  Agrees(fs, f, out, j)
  <1> DEFINE n == Len(fs)
             m == Live(fs)
             b == Encode(fs)
             p == Offset(fs, j)
             P == Percents(b, p)
  <1>1. n \in Nat /\ m \in 0 .. n /\ b \in Seq(Byte) /\ Len(b) \in Nat /\ j \in Nat /\ j \in 0 .. n
    BY EncodeBytes, LiveIs DEF Texts
  <1>2. p \in 0 .. Len(b) /\ p \in Nat
    <2>1. p \in 0 .. Len(b)
      BY OffsetOrder
    <2> HIDE DEF p, b
    <2> QED  BY <1>1, <2>1
  <1>3. /\ P = {} => f[p] = SubSeq(b, p + 1, Len(b))
        /\ P # {} => f[p] = FrontText(b, ilist, p, Min(P)) \o f[Rest(b, ilist, Min(P))]
    <2>1. p \in 0 .. Len(b) + 4
      <3> HIDE DEF p, b
      <3> QED  BY <1>1, <1>2
    <2> QED  BY <2>1 DEF Composed
  <1>4. CASE P = {}
    <2>1. f[p] = Encode(SubSeq(fs, j + 1, n)) /\ SubSeq(fs, j + 1, n) \in Texts
      <3>1. SubSeq(b, p + 1, Len(b)) = Encode(SubSeq(fs, j + 1, n)) /\ SubSeq(fs, j + 1, n) \in Texts
        BY Remainder
      <3> HIDE DEF P, b, p, n
      <3> QED  BY <1>3, <1>4, <3>1, Zenon
    <2>2. CASE j >= m
      <3>1. j + 1 > m /\ j + 1 \in 1 .. n + 1
        <4> HIDE DEF m, n
        <4> QED  BY <1>1, <2>2
      <3>2. out[j + 1] = SubSeq(fs, j + 1, n)
        BY <3>1 DEF Writes
      <3> QED  BY <2>1, <3>2 DEF Agrees
    <2>3. CASE ~(j >= m)
      <3>1. j \in 0 .. m /\ m \in 0 .. m /\ m + 1 > m /\ m + 1 \in 1 .. n + 1 /\ m \in j .. n /\ j \in 0 .. n
        <4> HIDE DEF m, n
        <4> QED  BY <1>1, <2>3
      <3>2. out[m + 1] = SubSeq(fs, m + 1, n)
        BY <3>1 DEF Writes
      <3>3. /\ SubSeq(fs, j + 1, m) \o SubSeq(fs, m + 1, n) = SubSeq(fs, j + 1, n)
            /\ SubSeq(fs, m + 1, n) \in Texts
        <4>1. j \in 0 .. Len(fs) /\ m \in j .. Len(fs)
          BY <3>1
        <4> HIDE DEF m
        <4> QED  BY <4>1, TextCut
      <3>4. ASSUME NEW i \in j .. m - 1, fs[i + 1] = 37 PROVE FALSE
        <4> DEFINE q == Offset(fs, i)
        <4>1. i \in 0 .. m - 1 /\ i \in 0 .. n /\ j <= i
          <5> HIDE DEF m, n
          <5> QED  BY <1>1
        <4>2. q \in 0 .. Len(b) /\ ~(q < p)
          <5>1. q \in 0 .. Len(b) /\ (i < j <=> q < p)
            BY <4>1, OffsetOrder
          <5> HIDE DEF p, q
          <5> QED  BY <1>1, <4>1, <5>1
        <4>3. q \in p .. q
          <5> HIDE DEF p, q, b
          <5> QED  BY <1>1, <1>2, <4>2
        <4>4. q \in p .. Len(c_str(b)) - 1 /\ b[q + 1] = 37
          <5>1. \E k \in 0 .. Live(fs) - 1 : fs[k + 1] = 37 /\ q = Offset(fs, k) /\ q \in p .. q
            BY <3>4, <4>1, <4>3
          <5> HIDE DEF p, q
          <5> QED  BY <5>1, PercentPlace
        <4>5. q \in P
          <5> HIDE DEF p, q, b
          <5> QED  BY <4>4 DEF Percents
        <4> HIDE DEF P
        <4> QED  BY <1>4, <4>5
      <3>5. out[j + 1] = SubSeq(fs, j + 1, m) \o out[m + 1]
        <4>1. out[m + 1] \in Texts
          BY <3>2, <3>3
        <4>2. \A i \in j .. m - 1 : fs[i + 1] # 37
          BY <3>4
        <4>3. m \in 0 .. Live(fs) /\ j \in 0 .. m
          BY <3>1
        <4> HIDE DEF m
        <4> QED  BY <4>1, <4>2, <4>3, PlainRun, ZenonT(40)
      <3>6. out[j + 1] = SubSeq(fs, j + 1, n)
        <4> HIDE DEF m, n
        <4> QED  BY <3>2, <3>3, <3>5, Zenon
      <3> QED  BY <2>1, <3>6 DEF Agrees
    <2> QED  BY <2>2, <2>3
  <1>5. CASE P # {}
    <2> DEFINE stop == Min(P)
    <2>1. PICK k \in 0 .. m - 1 :
            /\ fs[k + 1] = 37 /\ stop = Offset(fs, k)
            /\ \A i \in 0 .. k - 1 : fs[i + 1] = 37 => ~(p <= Offset(fs, i))
      BY <1>2, <1>5, NextPercent
    <2>2. stop \in p .. Len(b) - 1
      BY <1>2, <1>5, NextPercent
    <2>3. k \in 0 .. n /\ k \in 0 .. n - 1 /\ k \in Nat /\ k < m /\ k + 1 \in 1 .. n + 1 /\ k + 1 \in 1 .. m
      <3> HIDE DEF m, n
      <3> QED  BY <1>1
    <2>4. j <= k
      <3>1. k < j <=> Offset(fs, k) < p
        BY <2>3, OffsetOrder
      <3> HIDE DEF stop, p, b, n
      <3> QED  BY <1>1, <1>2, <2>1, <2>2, <2>3, <3>1
    <2>5. j \in 0 .. k /\ k \in 0 .. m
      <3> HIDE DEF m, n
      <3> QED  BY <1>1, <2>3, <2>4
    <2>6. ASSUME NEW i \in j .. k - 1 PROVE fs[i + 1] # 37
      <3>1. i \in 0 .. k - 1 /\ i \in 0 .. n /\ ~(i < j)
        <4> HIDE DEF n
        <4> QED  BY <1>1, <2>3
      <3>2. (i < j <=> Offset(fs, i) < p) /\ Offset(fs, i) \in 0 .. Len(b)
        BY <3>1, OffsetOrder
      <3>3. p <= Offset(fs, i)
        <4> DEFINE q == Offset(fs, i)
        <4> HIDE DEF p, b, q
        <4>1. q \in 0 .. Len(b) /\ ~(q < p)
          BY <3>1, <3>2 DEF q
        <4>2. p <= q
          BY <1>1, <1>2, <4>1
        <4> QED  BY <4>2 DEF q
      <3> HIDE DEF p
      <3> QED  BY <2>1, <3>1, <3>3
    <2> DEFINE said == Said(fs, args, k)
               a == After(fs, k)
               pre == SubSeq(fs, j + 1, k)
               rest == out[a + 1]
    <2>7. /\ said \in Texts /\ a \in k + 1 .. n /\ pre \in Texts
          /\ FrontText(b, ilist, p, Offset(fs, k)) = Encode(pre \o said)
          /\ Rest(b, ilist, Offset(fs, k)) = Offset(fs, a)
      BY <2>1, <2>5, FrontIs
    <2>8. rest \in Texts /\ f[Offset(fs, a)] = Encode(rest)
      <3>1. a \in j + 1 .. n
        <4> HIDE DEF a, n
        <4> QED  BY <1>1, <2>3, <2>4, <2>7
      <3>2. Agrees(fs, f, out, a)
        <4> HIDE DEF a
        <4> QED  BY <3>1
      <3> QED  BY <3>2 DEF Agrees
    <2>9. f[p] = Encode(pre \o said) \o Encode(rest)
      <3>1. f[p] = FrontText(b, ilist, p, stop) \o f[Rest(b, ilist, stop)]
        BY <1>3, <1>5
      <3> HIDE DEF stop, p, b, a, pre, said, rest
      <3>2. f[p] = FrontText(b, ilist, p, Offset(fs, k)) \o f[Rest(b, ilist, Offset(fs, k))]
        BY <2>1, <3>1, Zenon
      <3> QED  BY <2>7, <2>8, <3>2, Zenon
    <2>10. /\ Encode((pre \o said) \o rest) = Encode(pre \o said) \o Encode(rest)
           /\ (pre \o said) \o rest = pre \o (said \o rest)
           /\ pre \o (said \o rest) \in Texts /\ said \o rest \in Texts
      <3> HIDE DEF pre, said, rest
      <3>1. pre \o said \in Texts
        BY <2>7 DEF Texts
      <3>2. Encode((pre \o said) \o rest) = Encode(pre \o said) \o Encode(rest)
        BY <2>8, <3>1, EncodeConcat
      <3>3. (pre \o said) \o rest = pre \o (said \o rest)
        BY <2>7, <2>8, TextsRegrouped
      <3>4. said \o rest \in Texts
        BY <2>7, <2>8 DEF Texts
      <3>5. pre \o (said \o rest) \in Texts
        BY <2>7, <3>4 DEF Texts
      <3> QED  BY <3>2, <3>3, <3>4, <3>5
    <2>11. out[k + 1] = said \o rest
      <3>1. out[k + 1] = Piece(fs, args, k + 1) \o out[Onward(fs, k + 1)]
        BY <2>3 DEF Writes
      <3>2. (k + 1) - 1 = k
        BY <2>3
      <3>3. Piece(fs, args, k + 1) = said /\ Onward(fs, k + 1) = a + 1
        BY <2>1, <3>2 DEF Piece, Onward
      <3> HIDE DEF said, a
      <3> QED  BY <3>1, <3>3
    <2>12. out[j + 1] = pre \o out[k + 1]
      <3>1. out[k + 1] \in Texts
        BY <2>10, <2>11
      <3>2. k \in 0 .. Live(fs) /\ j \in 0 .. k /\ \A i \in j .. k - 1 : fs[i + 1] # 37
        BY <2>5, <2>6
      <3> QED  BY <3>1, <3>2, PlainRun, ZenonT(40)
    <2> HIDE DEF pre, said, rest, p
    <2>13. out[j + 1] = pre \o (said \o rest)
      BY <2>11, <2>12, Zenon
    <2>14. f[p] = Encode(out[j + 1]) /\ out[j + 1] \in Texts
      BY <2>9, <2>10, <2>13, Zenon
    <2> QED  BY <2>14 DEF Agrees, p
  <1> QED  BY <1>4, <1>5

-----------------------------------------------------------------------------
(* The whole of the interface.                                               *)

\* compose_private() writes the bytes of what compose() promises.
LEMMA ComposeIs ==
  ASSUME NEW fs \in Texts, NEW ilist, NEW args, Arguments(ilist, args)
  PROVE  /\ Characters!Composed(fs, args, Live(fs)) \in Texts
         /\ compose_private(Encode(fs), ilist) = Encode(Characters!Composed(fs, args, Live(fs)))
  <1> DEFINE n == Len(fs)
             b == Encode(fs)
  <1>1. PICK f : compose_private(b, ilist) = f[0] /\ Composed(b, ilist, f)
    BY ComposeStepwise
  <1>2. PICK out : Characters!Composed(fs, args, Live(fs)) = out[1] /\ Writes(fs, args, out)
    BY WritesStepwise
  <1> DEFINE Upto(d) == \A a \in n - d .. n : Agrees(fs, f, out, a)
             S == {d \in 0 .. n : Upto(d)}
  <1>3. n \in Nat
    BY DEF Texts
  <1>4. ASSUME NEW j \in 0 .. n, \A a \in j + 1 .. n : Agrees(fs, f, out, a)
        PROVE  Agrees(fs, f, out, j)
    BY <1>1, <1>2, <1>4, AgreesFrom
  <1>5. 0 \in S
    <2>1. n \in 0 .. n /\ \A a \in n + 1 .. n : FALSE
      <3> HIDE DEF n
      <3> QED  BY <1>3
    <2>2. Agrees(fs, f, out, n)
      <3> HIDE DEF n
      <3> QED  BY <1>4, <2>1
    <2>3. \A a \in n - 0 .. n : a = n
      <3> HIDE DEF n
      <3> QED  BY <1>3
    <2>4. 0 \in 0 .. n
      <3> HIDE DEF n
      <3> QED  BY <1>3
    <2> QED  BY <2>2, <2>3, <2>4
  <1>6. ASSUME NEW d \in 1 .. n, d - 1 \in S PROVE d \in S
    <2> DEFINE j == n - d
    <2>1. j \in 0 .. n /\ d \in 0 .. n /\ j + 1 = n - (d - 1) /\ \A a \in j .. n : a = j \/ a \in j + 1 .. n
      <3> HIDE DEF n
      <3> QED  BY <1>3
    <2>2. Upto(d - 1)
      BY <1>6
    <2> HIDE DEF j
    <2>3. \A a \in j + 1 .. n : Agrees(fs, f, out, a)
      <3> HIDE DEF n
      <3> QED  BY <2>1, <2>2
    <2>4. Agrees(fs, f, out, j)
      <3> HIDE DEF n
      <3> QED  BY <1>4, <2>1, <2>3
    <2>5. \A a \in j .. n : Agrees(fs, f, out, a)
      <3> HIDE DEF n
      <3> QED  BY <2>1, <2>3, <2>4
    <2>6. Upto(d)
      BY <2>5 DEF j
    <2> HIDE DEF n, Upto
    <2> QED  BY <2>1, <2>6
  <1> HIDE DEF S
  <1>7. n \in S
    <2>1. \A d \in 0 .. n : d \in S
      <3> HIDE DEF n
      <3> QED  BY <1>3, <1>5, <1>6, Induction
    <2> HIDE DEF n
    <2> QED  BY <1>3, <2>1
  <1>8. Agrees(fs, f, out, 0)
    <2>1. Upto(n)
      <3> HIDE DEF Upto
      <3> QED  BY <1>7 DEF S
    <2>2. 0 \in n - n .. n
      <3> HIDE DEF n
      <3> QED  BY <1>3
    <2> HIDE DEF n
    <2> QED  BY <2>1, <2>2
  <1>9. 0 + 1 = 1 /\ Offset(fs, 0) = 0
    BY OffsetEnds
  <1>10. out[1] \in Texts /\ f[0] = Encode(out[1])
    BY <1>8, <1>9 DEF Agrees
  <1> QED  BY <1>1, <1>2, <1>10, Zenon

\* compose()
LEMMA ComposeStep ==
  ASSUME Inv, Compose
  PROVE  Allowed
  <1> DEFINE cs == CharsOf(str).s
             ts == CharsOf(str).t
  <1>1. /\ cs \in Texts /\ str.s = Encode(cs)
        /\ ts \in Texts /\ str.t = Encode(ts)
    BY StringText DEF Inv
  <1>2. PICK fmt \in Formats, arg2 \in {[k |-> "ustring", o |-> "t"], [k |-> "cstr", s |-> <<233>>]} :
          Ask([op |-> "compose", src |-> [k |-> "cstr", s |-> fmt], src2 |-> arg2, ret |-> <<>>],
              <<"text", Read(compose_private(Encode(fmt), <<str.s, Stringify(arg2)>>))>>)
    BY DEF Compose
  <1> DEFINE as2 == Characters!Text(arg2)
             ilist == <<str.s, Stringify(arg2)>>
             args == <<cs, as2>>
             text == Characters!Composed(fmt, args, Live(fmt))
             ret == <<"text", Read(compose_private(Encode(fmt), ilist))>>
  <1>3. as2 \in Texts /\ Stringify(arg2) = Encode(as2)
    <2>1. CASE arg2 = [k |-> "ustring", o |-> "t"]
      <3>1. as2 = ts
        BY <2>1 DEF Characters!Text
      <3>2. Stringify(arg2) = str.t
        BY <2>1 DEF Stringify, ustring, ok
      <3> HIDE DEF as2, ts
      <3> QED  BY <1>1, <3>1, <3>2
    <2>2. CASE arg2 = [k |-> "cstr", s |-> <<233>>]
      <3>1. as2 = <<233>>
        BY <2>2 DEF Characters!Text
      <3>2. Stringify(arg2) = Encode(<<233>>)
        BY <2>2 DEF Stringify, ustring, ok
      <3>3. 233 \in Unicode
        BY DEF Unicode
      <3>4. <<233>> \in Texts
        BY <3>3 DEF Texts
      <3> HIDE DEF as2
      <3> QED  BY <3>1, <3>2, <3>4
    <2> QED  BY <1>2, <2>1, <2>2
  <1>4. fmt \in Texts
    BY <1>2, UstringAssumption DEF Texts
  <1>5. Arguments(ilist, args)
    <2>1. DOMAIN ilist = 1 .. 2 /\ DOMAIN args = 1 .. 2 /\ args[1] = cs /\ args[2] = as2
          /\ ilist[1] = str.s /\ ilist[2] = Stringify(arg2)
      <3> HIDE DEF cs, as2
      <3> QED  OBVIOUS
    <2>2. \A j \in 1 .. 2 : j = 1 \/ j = 2
      OBVIOUS
    <2> HIDE DEF cs, as2, ilist, args
    <2> QED  BY <1>1, <1>3, <2>1, <2>2, Zenon DEF Arguments
  <1> HIDE DEF ilist, args, text
  <1>6. text \in Texts /\ compose_private(Encode(fmt), ilist) = Encode(text)
    BY <1>4, <1>5, ComposeIs DEF text
  <1>7. ret = <<"text", text>>
    BY <1>6, ReadIs
  <1>8. Ask([op |-> "compose", src |-> [k |-> "cstr", s |-> fmt], src2 |-> arg2, ret |-> <<>>], ret)
    BY <1>2 DEF ilist
  <1> HIDE DEF ret
  <1>9. /\ call'.op = "compose" /\ call'.src = [k |-> "cstr", s |-> fmt] /\ call'.src2 = arg2
        /\ call'.ret = ret
    BY <1>8 DEF Ask
  <1>10. call'.op \in QueryOps /\ call'.src.s = fmt
    BY <1>9 DEF QueryOps
  <1>11. Idle
    BY DEF Compose
  <1>12. CASE HasNul(fmt)
    <2>1. ret = <<"text", Characters!Composed(call'.src.s, <<CharsOf(str).s, Characters!Text(call'.src2)>>,
                                              Len(Ended(call'.src.s)))>>
      BY <1>7, <1>9, <1>10 DEF text, args, Live, Ended
    <2>2. StopsAtNul(call')
      BY <1>9, <1>10, <1>12, <2>1 DEF StopsAtNul
    <2> QED  BY <1>8, <1>10, <1>11, <2>2, DepartStep DEF Allowed
  <1>13. CASE ~HasNul(fmt)
    <2>1. Live(fmt) = Len(fmt)
      BY <1>4, <1>13, EndedIs DEF Live
    <2>2. Characters!Answer(call') =
            <<"text", Characters!Composed(call'.src.s, <<CharsOf(str).s, Characters!Text(call'.src2)>>,
                                          Len(call'.src.s))>>
      BY <1>9 DEF Characters!Answer, Characters!SetSearches, Characters!PlaceSearches
    <2>3. Characters!Answer(call') = ret
      BY <1>7, <1>9, <1>10, <2>1, <2>2 DEF text, args
    <2> QED  BY <1>8, <1>9, <1>10, <1>11, <2>3, QueryStep DEF Allowed
  <1> QED  BY <1>12, <1>13

\* Every query answers as the string of characters does.
LEMMA QueriesStep ==
  ASSUME Inv,
         \/ Find \/ FindChar \/ FindFirstOf \/ FindLastOf \/ FindFirstNotOf \/ FindLastNotOf
         \/ FindNotChar \/ Index \/ Sizes \/ Tests \/ Copy \/ Compare \/ Relational \/ MakeValid
         \/ Output \/ OutputWide \/ Compose \/ Uppercase \/ Sprintf
  PROVE  Allowed
  <1>1. CASE Find
    BY <1>1, FindStep DEF Allowed
  <1>2. CASE FindChar
    BY <1>2, FindCharStep DEF Allowed
  <1>3. CASE FindFirstOf \/ FindLastOf \/ FindFirstNotOf \/ FindLastNotOf
    BY <1>3, FindOfStep
  <1>4. CASE FindNotChar
    BY <1>4, FindNotCharStep DEF Allowed
  <1>5. CASE Index
    BY <1>5, IndexStep DEF Allowed
  <1>6. CASE Sizes
    BY <1>6, SizesStep DEF Allowed
  <1>7. CASE Tests
    BY <1>7, TestsStep DEF Allowed
  <1>8. CASE Copy
    BY <1>8, CopyStep DEF Allowed
  <1>9. CASE Compare
    BY <1>9, CompareStep
  <1>10. CASE Relational
    BY <1>10, RelationalStep
  <1>11. CASE MakeValid
    BY <1>11, MakeValidStep
  <1>12. CASE Output \/ OutputWide
    BY <1>12, OutputStep DEF Allowed
  <1>13. CASE Compose
    BY <1>13, ComposeStep
  <1>14. CASE Uppercase
    BY <1>14, UppercaseStep
  <1>15. CASE Sprintf
    BY <1>15, SprintfStep DEF Allowed
  <1> QED  BY <1>1, <1>2, <1>3, <1>4, <1>5, <1>6, <1>7, <1>8, <1>9, <1>10, <1>11, <1>12, <1>13,
              <1>14, <1>15, Zenon

\* The empty strings have no characters.
LEMMA InitialCharacters ==
  ASSUME Init
  PROVE  Characters!Init
  <1>1. str = [s |-> <<>>, t |-> <<>>] /\ it = NoIter /\ call = NoCall
    BY DEF Init
  <1>2. <<>> \in Texts /\ Encode(<<>>) = <<>>
    BY EncodeEmpty DEF Texts
  <1>3. Decoded(<<>>) = <<>>
    BY <1>2, DecodeEncode
  <1>4. CharsOf(str) = [s |-> <<>>, t |-> <<>>]
    <2>1. CharsOf(str) = [o \in {"s", "t"} |-> <<>>]
      <3>1. \A o \in {"s", "t"} : str[o] = <<>>
        BY <1>1
      <3> QED  BY <1>3, <3>1 DEF CharsOf
    <2> QED  BY <2>1
  <1>5. IndexOf(str.s, it) = Characters!NoIter
    BY <1>1 DEF IndexOf, Characters!NoIter
  <1> QED  BY <1>1, <1>4, <1>5 DEF Characters!Init, Characters!NoCall, NoCall

\* glib/glibmm/ustring.{h,cc}: the strings of UTF-8 bytes, and every
\* operation on them, implement strings of characters.
THEOREM UstringImplements == Spec => Implements
  <1>1. Init => Inv
    BY InitialInv
  <1>2. Inv /\ [Next]_vars => Inv'
    BY NextInv
  <1>3. Init => Characters!Init
    BY InitialCharacters
  <1>4. Inv /\ [Next]_vars => [Characters!Next \/ Departs]_(Characters!vars)
    <2> SUFFICES ASSUME Inv, [Next]_vars PROVE [Characters!Next \/ Departs]_(Characters!vars)
      OBVIOUS
    <2>1. CASE \/ Construct \/ OperatorAssign \/ Assign \/ OperatorAppend \/ AppendText
               \/ Insert \/ Replace \/ Erase \/ Clear \/ Resize \/ OperatorPlus \/ Exchange
               \/ Extract \/ ExtractWide \/ Format
      <3>1. Characters!Next
        BY <2>1, ModificationsStep
      <3> QED  BY <3>1
    <2>2. CASE \/ begin \/ end \/ OperatorIncrement \/ OperatorDecrement \/ OperatorDereference
               \/ CompareIterators \/ Validate \/ DropIterator
      <3>1. Allowed
        BY <2>2, IterationsStep
      <3> QED  BY <3>1 DEF Allowed
    <2>3. CASE InsertAtIterator \/ EraseAtIterator \/ ReplaceAtIterator
      <3>1. Characters!Next
        BY <2>3, EditsStep
      <3> QED  BY <3>1
    <2>4. CASE \/ Find \/ FindChar \/ FindFirstOf \/ FindLastOf \/ FindFirstNotOf \/ FindLastNotOf
               \/ FindNotChar \/ Index \/ Sizes \/ Tests \/ Copy \/ Compare \/ Relational \/ MakeValid
               \/ Output \/ OutputWide \/ Compose \/ Uppercase \/ Sprintf
      <3>1. Allowed
        BY <2>4, QueriesStep
      <3> QED  BY <3>1 DEF Allowed
    <2>5. CASE Return
      <3>1. Characters!Return
        BY <2>5 DEF Return, Characters!Return, Characters!NoCall, NoCall
      <3>2. Characters!Next
        BY <3>1 DEF Characters!Next
      <3> QED  BY <3>2
    <2>6. CASE UNCHANGED vars
      BY <2>6 DEF vars, Characters!vars
    <2> QED  BY <2>1, <2>2, <2>3, <2>4, <2>5, <2>6, Zenon DEF Next
  <1> QED  BY <1>1, <1>2, <1>3, <1>4, PTL DEF Spec, Implements
=============================================================================
