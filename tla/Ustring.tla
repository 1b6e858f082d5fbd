------------------------------ MODULE Ustring -------------------------------
(***************************************************************************)
(* Glib::ustring (glib/glibmm/ustring.{h,cc}): a std::string of UTF-8      *)
(* bytes with an interface in characters.  Every position and count of the *)
(* interface is translated into bytes by the utf8_*_offset helpers, given  *)
(* to std::string, and the result translated back.  Two objects s and t    *)
(* exist; calls are made on s, with s itself, t, C strings and characters  *)
(* as arguments, and t changes with s by swap and move.                    *)
(*                                                                         *)
(* Bytes are numbers 0..255, offsets count from 0.  The strings hold only  *)
(* valid UTF-8: the interface requires it (ustring.h, class documentation).*)
(***************************************************************************)
EXTENDS Integers, Sequences, FiniteSets, SequencesExt, FiniteSetsExt

CONSTANTS Chars,           \* the characters that programs use, NUL among them
          Literals,        \* C strings, as their characters
          CountedMatches,  \* the C strings given to find_*_of() with a count
          Formats,         \* format strings of compose()
          Words,           \* what input streams hold
          LocaleChars,     \* the characters the charset of the locale has
          Positions, Counts,
          MaxChars         \* bound: characters in s and t together

npos == 65535              \* larger than every size, as the largest size_type is
Unicode == {c \in Nat : c \div 65536 < 17}     \* 17 planes

----------------------------------------------------------------------------
(* GLib: UTF-8 itself. *)
g_utf8_skip(b) == IF b < 192 THEN 1 ELSE IF b < 224 THEN 2 ELSE IF b < 240 THEN 3 ELSE 4
IsContinuation(b) == b \div 64 = 2            \* (b & 0xC0) == 0x80

g_unichar_to_utf8(c) ==
  IF c < 128 THEN <<c>>
  ELSE IF c < 2048 THEN <<192 + c \div 64, 128 + (c % 64)>>
  ELSE IF c < 65536 THEN <<224 + c \div 4096, 128 + ((c \div 64) % 64), 128 + (c % 64)>>
  ELSE <<240 + (c \div 4096) \div 64, 128 + ((c \div 4096) % 64), 128 + ((c \div 64) % 64), 128 + (c % 64)>>

Encode(cs) ==
  LET upto[k \in 0 .. Len(cs)] ==
        IF k = 0 THEN <<>> ELSE upto[k - 1] \o g_unichar_to_utf8(cs[k])
  IN  upto[Len(cs)]

(* What programs pass: characters, positions, and texts that are shorter     *)
(* than npos bytes.  A C string has no NUL in it.                           *)
ASSUME UstringAssumption ==
  /\ Chars \subseteq Unicode
  /\ \A text \in Literals \cup CountedMatches : 0 \notin Range(text)
  /\ \A text \in Literals \cup CountedMatches \cup Formats \cup Words :
       text \in Seq(Unicode) /\ Len(Encode(text)) < npos
  /\ Positions \subseteq Nat /\ Counts \subseteq Nat /\ MaxChars \in Nat

VARIABLES str,             \* string_ of s and t
          it,              \* an iterator of s: pos_ as a byte offset, or NoIter
          call             \* the call that has just been made, or NoCall

vars == <<str, it, call>>

NoCall == [op |-> "none"]
NoIter == [pos |-> -2]

----------------------------------------------------------------------------
(* GLib: strings of UTF-8. *)

(* The character at offset p (g_utf8_get_char); a string ends in a NUL. *)
g_utf8_get_char(b, p) ==
  LET bits(k) == b[p + k + 1] % 64
  IN  IF p >= Len(b) THEN 0
      ELSE CASE g_utf8_skip(b[p + 1]) = 1 -> b[p + 1]
             [] g_utf8_skip(b[p + 1]) = 2 -> (b[p + 1] % 32) * 64 + bits(1)
             [] g_utf8_skip(b[p + 1]) = 3 -> (b[p + 1] % 16) * 4096 + bits(1) * 64 + bits(2)
             [] g_utf8_skip(b[p + 1]) = 4 ->
                  (b[p + 1] % 8) * 262144 + bits(1) * 4096 + bits(2) * 64 + bits(3)

(* The offsets that stepping with g_utf8_next_char from 0 visits. *)
Steps(b) ==
  LET at[p \in 0 .. Len(b) + 4] == IF p >= Len(b) THEN {} ELSE {p} \cup at[p + g_utf8_skip(b[p + 1])]
  IN  at[0]
g_utf8_pointer_to_offset(b, p) == Cardinality({k \in Steps(b) : k < p})

(* g_utf8_to_ucs4_fast: up to len bytes, all of them if len is negative,   *)
(* and never past a NUL.                                                   *)
g_utf8_to_ucs4_fast(b, len) ==
  LET ucs4[p \in 0 .. Len(b) + 4] ==
        IF p >= Len(b) \/ (len >= 0 /\ p >= len) THEN <<>>
        ELSE IF b[p + 1] = 0 THEN <<>>
        ELSE <<g_utf8_get_char(b, p)>> \o ucs4[p + g_utf8_skip(b[p + 1])]
  IN  ucs4[0]

(* c_str(): the bytes before the first NUL. *)
c_str(b) == SubSeq(b, 1, Min({Len(b)} \cup {k - 1 : k \in {j \in DOMAIN b : b[j] = 0}}))

(* g_utf8_validate() with a length takes a NUL for an invalid byte. *)
g_utf8_validate(b) == [ok |-> 0 \notin Range(b), valid_end |-> Len(c_str(b))]
g_utf8_make_valid(b) ==
  LET upto[k \in 0 .. Len(b)] ==
        IF k = 0 THEN <<>>
        ELSE upto[k - 1] \o IF b[k] = 0 THEN g_unichar_to_utf8(65533) ELSE <<b[k]>>
  IN  upto[Len(b)]

(* g_utf8_collate() in the C locale: the order of the bytes. *)
g_utf8_collate(a, b) ==
  LET differ == {k \in 1 .. Min({Len(a), Len(b)}) : a[k] # b[k]}
  IN  IF differ # {} THEN (IF a[Min(differ)] < b[Min(differ)] THEN -1 ELSE 1)
      ELSE IF Len(a) = Len(b) THEN 0 ELSE IF Len(a) < Len(b) THEN -1 ELSE 1

(* g_ucs4_to_utf8, g_locale_to_utf8 and back: bytes, or a GError. *)
Convertible(cs, wide) ==
  IF wide THEN \A k \in DOMAIN cs : cs[k] \notin 55296 .. 57343 ELSE Range(cs) \subseteq LocaleChars

----------------------------------------------------------------------------
(* std::string: a result is bytes or an exception. *)
ok(b) == [err |-> "none", b |-> b]
throw(e) == [err |-> e, b |-> <<>>]

std_sub(b, pos, n) ==
  IF pos > Len(b) THEN throw("out_of_range") ELSE ok(SubSeq(b, pos + 1, Min({Len(b), pos + n})))
(* A pointer and a count: a count of npos exceeds max_size(). *)
std_chars(b, n) == IF n = npos THEN throw("length_error") ELSE ok(SubSeq(b, 1, n))
std_replace(b, pos, n, arg) ==
  IF pos > Len(b) THEN throw("out_of_range")
  ELSE IF arg.err # "none" THEN arg
  ELSE ok(SubSeq(b, 1, pos) \o arg.b \o SubSeq(b, pos + n + 1, Len(b)))

Places(b, needle) == {k \in 0 .. Len(b) - Len(needle) : SubSeq(b, k + 1, k + Len(needle)) = needle}
std_find(b, needle, pos) ==
  LET S == {k \in Places(b, needle) : k >= pos} IN IF S = {} THEN npos ELSE Min(S)
std_rfind(b, needle, pos) ==
  LET S == {k \in Places(b, needle) : k <= pos} IN IF S = {} THEN npos ELSE Max(S)

----------------------------------------------------------------------------
(* The helpers of ustring.cc. *)

(* utf8_byte_offset, second and third overload: npos if offset characters  *)
(* reach past the end.                                                     *)
utf8_byte_offset(b, offset) ==
  LET after[k \in 0 .. offset] ==
        IF k = 0 THEN 0
        ELSE LET p == after[k - 1] IN IF p >= Len(b) THEN npos ELSE p + g_utf8_skip(b[p + 1])
  IN  IF offset = npos THEN npos ELSE after[offset]

(* First overload: a C string, which stops at its NUL. *)
utf8_byte_offset_cstr(b, offset) == utf8_byte_offset(c_str(b), offset)

(* A plausible bug: the count is taken for bytes. *)
Utf8SubstrBounds_bytes(b, ci, cn) == [i |-> utf8_byte_offset(b, ci), n |-> cn]

Utf8SubstrBounds(b, ci, cn) ==
  LET i == utf8_byte_offset(b, ci)
  IN  [i |-> i, n |-> IF i = npos THEN npos ELSE utf8_byte_offset(SubSeq(b, i + 1, Len(b)), cn)]

utf8_char_offset(b, offset) ==
  IF offset = npos THEN <<"npos">> ELSE <<"num", g_utf8_pointer_to_offset(b, offset)>>

(* The start of the character that ends before offset p. *)
Previous(b, p) == Max({k \in 0 .. p - 1 : ~IsContinuation(b[k + 1])})

utf8_find_first_of(b, offset, match, len, find_not_of) ==
  LET start == utf8_byte_offset(b, offset)
      ucs4_match == Range(g_utf8_to_ucs4_fast(match, len))
      hits == {p \in Steps(b) : p >= start /\ (g_utf8_get_char(b, p) \in ucs4_match) # find_not_of}
  IN  IF start = npos \/ hits = {} THEN <<"npos">>
      ELSE <<"num", offset + Cardinality({p \in Steps(b) : start <= p /\ p < Min(hits)})>>

(* A plausible bug: the search starts before the given position. *)
utf8_find_last_of_before(b, offset, match, len, find_not_of) ==
  LET ucs4_match == Range(g_utf8_to_ucs4_fast(match, len))
      byte_offset == utf8_byte_offset(b, offset)
      pstr == IF byte_offset < Len(b) THEN byte_offset ELSE Len(b)
      back[p \in 0 .. Len(b)] ==
        IF p = 0 THEN npos
        ELSE LET q == Previous(b, p)
             IN  IF (g_utf8_get_char(b, q) \in ucs4_match) # find_not_of THEN q ELSE back[q]
  IN  utf8_char_offset(b, back[pstr])

utf8_find_last_of(b, offset, match, len, find_not_of) ==
  LET ucs4_match == Range(g_utf8_to_ucs4_fast(match, len))
      byte_offset == utf8_byte_offset(b, offset)
      pstr == IF byte_offset < Len(b) THEN byte_offset + 1 ELSE Len(b)
      back[p \in 0 .. Len(b)] ==
        IF p = 0 THEN npos
        ELSE LET q == Previous(b, p)
             IN  IF (g_utf8_get_char(b, q) \in ucs4_match) # find_not_of THEN q ELSE back[q]
  IN  utf8_char_offset(b, back[pstr])

(* get_unichar_from_std_iterator: the length of the character is found by  *)
(* shifting the bits of its first byte out against a mask.                 *)
get_unichar_from_std_iterator(b, pos) ==
  LET result[k \in 0 .. 3] ==
        IF k = 0 THEN b[pos + 1] ELSE result[k - 1] * 64 + (b[pos + k + 1] - 128)
      mask(k) == 64 * 32 ^ k
      bit(k) == (result[k] \div mask(k)) % 2
      last == CHOOSE k \in 1 .. 3 : bit(k) = 0 /\ \A j \in 1 .. k - 1 : bit(j) = 1
  IN  IF b[pos + 1] < 128 THEN b[pos + 1] ELSE result[last] % mask(last)

(* ustring_Iterator::operator++ and operator--. *)
Increment(b, pos) == pos + g_utf8_skip(b[pos + 1])
Decrement(b, pos) == Previous(b, pos)

(* What a loop from begin() to end() reads. *)
Read(b) ==
  LET from[p \in 0 .. Len(b) + 4] ==
        IF p >= Len(b) THEN <<>> ELSE <<get_unichar_from_std_iterator(b, p)>> \o from[Increment(b, p)]
  IN  from[0]

----------------------------------------------------------------------------
(* The constructors: an argument as bytes.  A C string comes with or       *)
(* without a number of characters, `range' is a pair of gunichar           *)
(* iterators, `fill' and `fillc' repeat a gunichar or an ASCII char.       *)
fill(n, uc) ==
  IF uc < 128 THEN [j \in 1 .. n |-> uc]
  ELSE Encode([j \in 1 .. n |-> uc])

SequenceToString(cs) == Encode(cs)

ustring(src) ==
  IF src.k = "ustring" THEN ok(str[src.o])
  ELSE IF src.k = "sub"
  THEN LET bounds == Utf8SubstrBounds(str[src.o], src.i, src.n)
       IN  std_sub(str[src.o], bounds.i, bounds.n)
  ELSE IF src.k = "cstrn"
  THEN std_chars(Encode(src.s), utf8_byte_offset_cstr(Encode(src.s), src.n))
  ELSE IF src.k \in {"fill", "fillc"} THEN ok(fill(src.n, src.uc))
  ELSE IF src.k = "cstr" THEN ok(Encode(src.s))
  ELSE ok(SequenceToString(src.s))                             \* "range"

Whole == [k : {"ustring"}, o : {"s", "t"}]
Cstr == [k : {"cstr"}, s : Literals]
CstrN == [k : {"cstrn"}, s : Literals, n : Counts]
One == [k : {"fill"}, n : {1}, uc : Chars] \cup [k : {"fillc"}, n : {1}, uc : Chars \cap 0 .. 127]
Many == [k : {"fill"}, n : Counts \ {npos}, uc : Chars]
          \cup [k : {"fillc"}, n : Counts \ {npos}, uc : Chars \cap 0 .. 127]
Sub == [k : {"sub"}, o : {"s", "t"}, i : Positions, n : Counts]
Pairs == [k : {"range"}, s : Literals]
Sources == Whole \cup Sub \cup Cstr \cup CstrN \cup Many \cup Pairs
NoText == [k |-> "cstr", s |-> <<>>]

size(b) == g_utf8_pointer_to_offset(b, Len(b))

(* MaxChars, and max_size() of std::string. *)
Fits(strings) ==
  /\ size(strings.s) + size(strings.t) <= MaxChars
  /\ Len(strings.s) < npos /\ Len(strings.t) < npos

(* No call is under way, and no iterator, or one, is in use. *)
Idle == call = NoCall /\ it = NoIter
Iterating == call = NoCall /\ it # NoIter

(* A call that changes s: the new bytes, or the exception and s as it was. *)
Change(c, result) ==
  /\ str' = IF result.err = "none" THEN [str EXCEPT !.s = result.b] ELSE str
  /\ call' = [c EXCEPT !.ret = IF result.err = "none" THEN <<"done">> ELSE <<result.err>>]
  /\ Fits(str')

Modify(c, result) == Change(c, result) /\ UNCHANGED it

Edit(op, i, n, src) == [op |-> op, i |-> i, n |-> n, src |-> src, ret |-> <<>>]

(* s is constructed anew, with every constructor. *)
Construct == Idle /\ \E src \in Sources : Modify(Edit("assign", 0, npos, src), ustring(src))

(* operator=() and assign(). *)
OperatorAssign ==
  Idle /\ \E src \in Whole \cup Cstr \cup One :
    Modify(Edit("assign", 0, npos, src), ustring(src))
Assign == Idle /\ \E src \in Sources : Modify(Edit("assign", 0, npos, src), ustring(src))

(* operator+=(), push_back() and append(). *)
append(src) == LET arg == ustring(src) IN IF arg.err = "none" THEN ok(str.s \o arg.b) ELSE arg
OperatorAppend ==
  Idle /\ \E src \in Whole \cup Cstr \cup One : Modify(Edit("append", 0, 0, src), append(src))
AppendText == Idle /\ \E src \in Sources : Modify(Edit("append", 0, 0, src), append(src))

insert(i, src) == std_replace(str.s, utf8_byte_offset(str.s, i), 0, ustring(src))
Insert ==
  Idle /\ \E i \in Positions, src \in Sources : Modify(Edit("insert", i, 0, src), insert(i, src))

replace(i, n, src) ==
  LET bounds == Utf8SubstrBounds(str.s, i, n)
  IN  std_replace(str.s, bounds.i, bounds.n, ustring(src))
Replace ==
  Idle /\ \E i \in Positions, n \in Counts, src \in Sources :
    Modify(Edit("replace", i, n, src), replace(i, n, src))

(* erase() by position; clear() and erase() without arguments take all. *)
erase(i, n) ==
  LET bounds == Utf8SubstrBounds(str.s, i, n)
  IN  std_replace(str.s, bounds.i, bounds.n, ok(<<>>))
Erase ==
  Idle /\ \E i \in Positions, n \in Counts : Modify(Edit("erase", i, n, NoText), erase(i, n))
Clear == Idle /\ Modify(Edit("erase", 0, npos, NoText), ok(<<>>))

resize(n, uc) ==
  IF n < size(str.s) THEN erase(n, npos)
  ELSE IF n > size(str.s) THEN ok(str.s \o fill(n - size(str.s), uc))
  ELSE ok(str.s)
Resize ==
  Idle /\ \E n \in 0 .. MaxChars, uc \in Chars :
    Modify([op |-> "resize", n |-> n, uc |-> uc, ret |-> <<>>], resize(n, uc))

(* operator+(): a copy of the left operand, += the right one. *)
OperatorPlus ==
  Idle /\ \E lhs, rhs \in Whole \cup Cstr \cup One :
    /\ lhs \in Whole \/ rhs \in Whole
    /\ Modify([op |-> "plus", src |-> lhs, src2 |-> rhs, ret |-> <<>>],
              ok(ustring(lhs).b \o ustring(rhs).b))

(* swap(), the move operations and release(); a std::string that has been  *)
(* moved from is empty.                                                    *)
Exchange ==
  /\ Idle
  /\ \/ str' = [s |-> str.t, t |-> str.s] /\ call' = [op |-> "swap", ret |-> <<"done">>]
     \/ str' = [s |-> str.t, t |-> <<>>] /\ call' = [op |-> "move", ret |-> <<"done">>]
     \/ str' = [str EXCEPT !.s = <<>>] /\ call' = [op |-> "release", ret |-> <<"done">>]
  /\ UNCHANGED it

(* operator>>() and format(): the conversion comes first, so that a word   *)
(* that cannot be converted leaves the string alone.                       *)
Converted(text, wide) == IF Convertible(text, wide) THEN ok(Encode(text)) ELSE throw("ConvertError")
Extraction(text, wide) ==
  [op |-> "extract", src |-> [k |-> "range", s |-> text], wide |-> wide, ret |-> <<>>]

Extract == Idle /\ \E word \in Words : Modify(Extraction(word, FALSE), Converted(word, FALSE))
ExtractWide == Idle /\ \E word \in Words : Modify(Extraction(word, TRUE), Converted(word, TRUE))

(* format(): the values are streamed one after the other, all of them are  *)
(* converted, and s is what the FormatStream returns.                      *)
Format ==
  Idle /\ \E first, second \in Words :
    Modify(Extraction(first \o second, TRUE), Converted(first \o second, TRUE))

----------------------------------------------------------------------------
(* Iterators.  An iterator is used until a call that returns none changes  *)
(* the string; ++ and * need a character, -- needs one before.             *)
Iterate(op, ret, pos) ==
  /\ call' = [op |-> op, ret |-> ret]
  /\ it' = [pos |-> pos]
  /\ UNCHANGED str

begin == Idle /\ Iterate("begin", <<"done">>, 0)
end == Idle /\ Iterate("end", <<"done">>, Len(str.s))
OperatorIncrement ==
  Iterating /\ it.pos < Len(str.s) /\ Iterate("++", <<"done">>, Increment(str.s, it.pos))
OperatorDecrement ==
  Iterating /\ it.pos > 0 /\ Iterate("--", <<"done">>, Decrement(str.s, it.pos))
OperatorDereference ==
  /\ Iterating /\ it.pos < Len(str.s)
  /\ Iterate("*", <<"char", get_unichar_from_std_iterator(str.s, it.pos)>>, it.pos)
(* == and != with begin(), < with end(), > and <= with begin(), >= with end(). *)
CompareIterators ==
  /\ Iterating
  /\ Iterate("compare_iterators",
             <<"bools", it.pos = 0, it.pos # 0, it.pos < Len(str.s), it.pos > 0,
               it.pos <= 0, it.pos >= Len(str.s)>>, it.pos)
(* validate(first_invalid) *)
Validate ==
  LET valid == g_utf8_validate(str.s)
  IN  Idle /\ Iterate("validate", <<"bools", valid.ok>>, valid.valid_end)
DropIterator ==
  /\ Iterating
  /\ call' = [op |-> "drop", ret |-> <<"done">>]
  /\ it' = NoIter
  /\ UNCHANGED str

EditAt(op, src, result, iter) ==
  /\ Change(Edit(op, 0, 0, src), result)
  /\ it' = iter

(* insert(p, ...): one character returns an iterator, more return none. *)
InsertAtIterator ==
  /\ Iterating
  /\ \/ \E src \in One : EditAt("insert1", src, std_replace(str.s, it.pos, 0, ustring(src)), it)
     \/ \E src \in Many \cup Pairs :
          EditAt("insertn", src, std_replace(str.s, it.pos, 0, ustring(src)), NoIter)

(* erase(p), erase(p, end()), erase(begin(), p) *)
EraseAtIterator ==
  /\ Iterating
  /\ \/ /\ it.pos < Len(str.s)
        /\ EditAt("erase1", NoText,
                  std_replace(str.s, it.pos, Increment(str.s, it.pos) - it.pos, ok(<<>>)), it)
     \/ EditAt("erase_from", NoText, std_replace(str.s, it.pos, Len(str.s) - it.pos, ok(<<>>)), it)
     \/ EditAt("erase_to", NoText, std_replace(str.s, 0, it.pos, ok(<<>>)), [pos |-> 0])

(* replace(p, end(), ...), replace(begin(), p, ...) *)
ReplaceAtIterator ==
  Iterating /\ \E src \in Whole \cup Cstr \cup CstrN \cup Many \cup Pairs :
    \/ EditAt("replace_from", src,
              std_replace(str.s, it.pos, Len(str.s) - it.pos, ustring(src)), NoIter)
    \/ EditAt("replace_to", src, std_replace(str.s, 0, it.pos, ustring(src)), NoIter)

----------------------------------------------------------------------------
(* Calls that change nothing. *)
Ask(c, ret) ==
  /\ call' = [c EXCEPT !.ret = ret]
  /\ UNCHANGED <<str, it>>

Search(op, i, src) == [op |-> op, i |-> i, src |-> src, ret |-> <<>>]
SearchChar(op, i, uc) == [op |-> op, i |-> i, uc |-> uc, ret |-> <<>>]

(* find() and rfind(): the bytes of the argument in those of the string. *)
find(i, src) ==
  LET needle == ustring(src)
  IN  IF needle.err # "none" THEN <<"npos">>
      ELSE utf8_char_offset(str.s, std_find(str.s, needle.b, utf8_byte_offset(str.s, i)))
rfind(i, src) ==
  LET needle == ustring(src)
  IN  IF needle.err # "none" THEN <<"npos">>
      ELSE utf8_char_offset(str.s, std_rfind(str.s, needle.b, utf8_byte_offset(str.s, i)))
Find ==
  Idle /\ \E i \in Positions, src \in Whole \cup Cstr \cup CstrN :
    \/ Ask(Search("find", i, src), find(i, src))
    \/ Ask(Search("rfind", i, src), rfind(i, src))
FindChar ==
  Idle /\ \E i \in Positions, one \in One :
    \/ Ask(SearchChar("find_char", i, one.uc), find(i, one))
    \/ Ask(SearchChar("rfind_char", i, one.uc), rfind(i, one))

(* The characters of find_*_of(): a ustring with its size in bytes, a C    *)
(* string, or a C string and the n of the caller.                          *)
MatchBytes(src) == IF src.k = "ustring" THEN str[src.o] ELSE Encode(src.s)
MatchSize(src) ==
  CASE src.k = "ustring" -> Len(str[src.o])
    [] src.k = "cstr" -> -1
    [] src.k = "cstrn" -> IF src.n = npos THEN -1 ELSE src.n
Matches == Whole \cup Cstr \cup [k : {"cstrn"}, s : CountedMatches, n : Counts]

FindFirstOf ==
  Idle /\ \E i \in Positions, src \in Matches :
    Ask(Search("find_first_of", i, src),
        utf8_find_first_of(str.s, i, MatchBytes(src), MatchSize(src), FALSE))
FindLastOf ==
  Idle /\ \E i \in Positions, src \in Matches :
    Ask(Search("find_last_of", i, src),
        utf8_find_last_of(str.s, i, MatchBytes(src), MatchSize(src), FALSE))
FindFirstNotOf ==
  Idle /\ \E i \in Positions, src \in Matches :
    Ask(Search("find_first_not_of", i, src),
        utf8_find_first_of(str.s, i, MatchBytes(src), MatchSize(src), TRUE))
FindLastNotOf ==
  Idle /\ \E i \in Positions, src \in Matches :
    Ask(Search("find_last_not_of", i, src),
        utf8_find_last_of(str.s, i, MatchBytes(src), MatchSize(src), TRUE))

(* find_*_not_of() of one character compare in a loop of their own. *)
find_first_not_char(i, uc) ==
  LET bi == utf8_byte_offset(str.s, i)
      hits == {p \in Steps(str.s) : p >= bi /\ g_utf8_get_char(str.s, p) # uc}
  IN  IF bi = npos \/ hits = {} THEN <<"npos">>
      ELSE <<"num", i + Cardinality({p \in Steps(str.s) : bi <= p /\ p < Min(hits)})>>
find_last_not_char(i, uc) ==
  LET index(p) == Cardinality({q \in Steps(str.s) : q < p})
      hits == {p \in Steps(str.s) : index(p) <= i /\ g_utf8_get_char(str.s, p) # uc}
  IN  IF hits = {} THEN <<"npos">> ELSE <<"num", index(Max(hits))>>
FindNotChar ==
  Idle /\ \E i \in Positions, uc \in Chars :
    \/ Ask(SearchChar("find_first_not_char", i, uc), find_first_not_char(i, uc))
    \/ Ask(SearchChar("find_last_not_char", i, uc), find_last_not_char(i, uc))

(* at(), and operator[], which must be given an index of the string. *)
Index ==
  /\ Idle
  /\ \/ \E i \in Positions :
          LET byte_offset == utf8_byte_offset(str.s, i)
          IN  Ask(Search("at", i, NoText), IF byte_offset < Len(str.s)
                                           THEN <<"char", g_utf8_get_char(str.s, byte_offset)>>
                                           ELSE <<"out_of_range">>)
     \/ \E i \in 0 .. size(str.s) - 1 :
          LET pointer == CHOOSE p \in Steps(str.s) : g_utf8_pointer_to_offset(str.s, p) = i
          IN  Ask(Search("index", i, NoText), <<"char", g_utf8_get_char(str.s, pointer)>>)

(* size(), length() and bytes(). *)
Sizes == Idle /\ Ask([op |-> "sizes", ret |-> <<>>], <<"nums", size(str.s), size(str.s), Len(str.s)>>)

is_ascii(b) == \A k \in DOMAIN b : b[k] < 128
Tests == Idle /\ Ask([op |-> "tests", ret |-> <<>>], <<"bools", Len(str.s) = 0, is_ascii(str.s)>>)

(* copy() is given characters and returns the number of bytes. *)
Copy ==
  Idle /\ \E i \in Positions, n \in Counts :
    LET bounds == Utf8SubstrBounds(str.s, i, n)
        copied == std_sub(str.s, bounds.i, bounds.n)
    IN  Ask(Edit("copy", i, n, NoText),
            IF copied.err = "none" THEN <<"num", Len(copied.b)>> ELSE <<copied.err>>)

(* compare(i, n, ...): two temporary strings, compared as C strings. *)
compare(a, b) == g_utf8_collate(c_str(a), c_str(b))
Compare ==
  Idle /\ \E i \in Positions, n \in Counts, src \in Whole \cup Sub \cup Cstr \cup CstrN :
    LET lhs == ustring([k |-> "sub", o |-> "s", i |-> i, n |-> n])
        rhs == ustring(src)
    IN  Ask(Edit("compare", i, n, src),
            CASE lhs.err # "none" -> <<lhs.err>>
              [] lhs.err = "none" /\ rhs.err # "none" -> <<rhs.err>>
              [] OTHER -> <<"num", compare(lhs.b, rhs.b)>>)

(* The relational operators, with the string on the left and on the right; *)
(* the latter compare the other way round.                                 *)
relational(lhs, rhs) ==
  LET o == compare(lhs, rhs) IN <<"bools", o = 0, o # 0, o < 0, o > 0, o <= 0, o >= 0>>
relational_reversed(lhs, rhs) ==
  LET o == compare(rhs, lhs) IN <<"bools", o = 0, o # 0, o > 0, o < 0, o >= 0, o <= 0>>
Relational ==
  Idle /\ \E src \in Whole \cup Cstr :
    \/ Ask([op |-> "relations", src |-> src, ret |-> <<>>], relational(str.s, ustring(src).b))
    \/ Ask([op |-> "reversed_relations", src |-> src, ret |-> <<>>],
           relational_reversed(ustring(src).b, str.s))

MakeValid == Idle /\ Ask([op |-> "make_valid", ret |-> <<>>], <<"text", Read(g_utf8_make_valid(str.s))>>)

(* operator<<(), which is not meant for strings with NUL characters. *)
Printed(text, wide) == IF Convertible(text, wide) THEN <<"text", text>> ELSE <<"ConvertError">>
Output ==
  /\ Idle /\ 0 \notin Range(str.s)
  /\ Ask([op |-> "output", wide |-> FALSE, ret |-> <<>>],
         Printed(g_utf8_to_ucs4_fast(str.s, Len(str.s)), FALSE))
OutputWide ==
  /\ Idle /\ 0 \notin Range(str.s)
  /\ Ask([op |-> "output", wide |-> TRUE, ret |-> <<>>],
         Printed(g_utf8_to_ucs4_fast(str.s, Len(str.s)), TRUE))

(* compose_private(): strchr() looks for the next percent sign, and so     *)
(* never past a NUL; what follows it decides.                              *)
compose_private(fmt, ilist) ==
  LET strchr(start) == {p \in start .. Len(c_str(fmt)) - 1 : fmt[p + 1] = 37}
      byte(p) == IF p < Len(fmt) THEN fmt[p + 1] ELSE 0
      slice(p, q) == SubSeq(fmt, p + 1, q)
      result[start \in 0 .. Len(fmt) + 4] ==
        IF strchr(start) = {} THEN slice(start, Len(fmt))
        ELSE LET stop == Min(strchr(start))
                 index == byte(stop + 1) - 48
                 next == IF byte(stop + 1) # 0
                         THEN stop + 1 + g_utf8_skip(byte(stop + 1)) ELSE stop + 1
             IN  CASE byte(stop + 1) = 37 -> slice(start, stop + 1) \o result[stop + 2]
                   [] index \in DOMAIN ilist -> slice(start, stop) \o ilist[index] \o result[stop + 2]
                   [] OTHER -> slice(start, next) \o result[next]
  IN  result[0]

(* An argument of compose(): a ustring by reference, a C string copied. *)
Stringify(arg) == ustring(arg).b

Compose ==
  Idle /\ \E fmt \in Formats, arg2 \in {[k |-> "ustring", o |-> "t"], [k |-> "cstr", s |-> <<233>>]} :
    Ask([op |-> "compose", src |-> [k |-> "cstr", s |-> fmt], src2 |-> arg2, ret |-> <<>>],
        <<"text", Read(compose_private(Encode(fmt), <<str.s, Stringify(arg2)>>))>>)

(* uppercase(), which stands for the functions that give a new string of   *)
(* GLib's to convert_return_gchar_ptr_to_ustring(): g_utf8_strup() stops   *)
(* at a NUL, and so does the constructor from a C string.                  *)
g_utf8_strup(b) ==
  LET upper(c) == CASE c \in 97 .. 122 -> c - 32 [] c \in 224 .. 254 \ {247} -> c - 32 [] OTHER -> c
      text == Read(c_str(b))
  IN  Encode([k \in DOMAIN text |-> upper(text[k])])
convert_return_gchar_ptr_to_ustring(b) == c_str(b)
Uppercase ==
  Idle /\ Ask([op |-> "uppercase", ret |-> <<>>],
              <<"text", Read(convert_return_gchar_ptr_to_ustring(g_utf8_strup(str.s)))>>)

(* sprintf() of "%s%s" with two strings, which go as C strings.  Without   *)
(* arguments the format is the result, percent signs and all.              *)
sprintify(arg) == c_str(ustring(arg).b)
g_strdup_printf(arg1, arg2) == arg1 \o arg2
Sprintf ==
  /\ Idle
  /\ \/ \E arg1, arg2 \in Whole \cup Cstr :
          Ask([op |-> "sprintf", src |-> arg1, src2 |-> arg2, ret |-> <<>>],
              <<"text", Read(g_strdup_printf(sprintify(arg1), sprintify(arg2)))>>)
     \/ \E fmt \in Whole \cup [k : {"cstr"}, s : {f \in Formats : 0 \notin Range(f)}] :
          Ask([op |-> "sprintf_format", src |-> fmt, ret |-> <<>>], <<"text", Read(ustring(fmt).b)>>)

----------------------------------------------------------------------------
Init == str = [s |-> <<>>, t |-> <<>>] /\ it = NoIter /\ call = NoCall

(* The caller has the result and goes on. *)
Return == call # NoCall /\ call' = NoCall /\ UNCHANGED <<str, it>>

Next ==
  \/ Construct \/ OperatorAssign \/ Assign \/ OperatorAppend \/ AppendText
  \/ Insert \/ Replace \/ Erase \/ Clear \/ Resize \/ OperatorPlus \/ Exchange
  \/ Extract \/ ExtractWide \/ Format
  \/ begin \/ end \/ OperatorIncrement \/ OperatorDecrement \/ OperatorDereference
  \/ CompareIterators \/ Validate \/ DropIterator
  \/ InsertAtIterator \/ EraseAtIterator \/ ReplaceAtIterator
  \/ Find \/ FindChar \/ FindFirstOf \/ FindLastOf \/ FindFirstNotOf \/ FindLastNotOf
  \/ FindNotChar
  \/ Index \/ Sizes \/ Tests \/ Copy \/ Compare \/ Relational \/ MakeValid \/ Output \/ OutputWide
  \/ Compose \/ Uppercase \/ Sprintf
  \/ Return

Spec == Init /\ [][Next]_vars

----------------------------------------------------------------------------
(* string_ is bytes and the iterator an offset in them. *)
TypeOK ==
  /\ DOMAIN str = {"s", "t"}
  /\ \A o \in {"s", "t"} : Range(str[o]) \subseteq 0 .. 255
  /\ it = NoIter \/ it.pos \in 0 .. Len(str.s)

(* The characters of bytes, independently of the code: a byte that is not  *)
(* a continuation starts a character, the others add six bits each.        *)
Leads(b) == {k \in DOMAIN b : ~IsContinuation(b[k])}
WithByte(cs, x) ==
  IF IsContinuation(x) THEN [cs EXCEPT ![Len(cs)] = @ * 64 + (x % 64)]
  ELSE Append(cs, IF x < 128 THEN x ELSE IF x < 224 THEN x % 32 ELSE IF x < 240 THEN x % 16 ELSE x % 8)
Decoded(b) ==
  LET upto[k \in 0 .. Len(b)] == IF k = 0 THEN <<>> ELSE WithByte(upto[k - 1], b[k])
  IN  upto[Len(b)]

(* Every call leaves valid UTF-8, whatever positions, counts, NULs and     *)
(* iterators it is given: no character is cut, and none is left headless.  *)
(* An iterator is at the first byte of a character or at the end.          *)
Utf8Valid ==
  /\ TypeOK
  /\ \A o \in {"s", "t"} :
       /\ str[o] # <<>> => 1 \in Leads(str[o])
       /\ Encode(Decoded(str[o])) = str[o]
  /\ it # NoIter => it.pos = Len(str.s) \/ it.pos + 1 \in Leads(str.s)

(* The characters of both strings, and the index of the character that an  *)
(* iterator is at: the characters that start before it.                    *)
CharsOf(strings) == [o \in {"s", "t"} |-> Decoded(strings[o])]
IndexOf(b, iter) ==
  IF iter = NoIter THEN [i |-> -2]
  ELSE IF iter.pos = Len(b) \/ iter.pos + 1 \in Leads(b)
  THEN [i |-> Cardinality({k \in Leads(b) : k <= iter.pos})] ELSE [i |-> -1]

Characters ==
  INSTANCE CharString WITH
    Npos <- npos,
    chars <- CharsOf(str),
    it <- IndexOf(str.s, it)

HasNul(cs) == 0 \in Range(cs)
Ended(cs) == Characters!UpToNul(cs)

(* What some calls answer when s or an argument has a NUL: they take it for  *)
(* the end of the text, or, make_valid(), for an invalid byte.               *)
StopsAtNul(c) ==
  LET s == CharsOf(str).s
      part == Characters!Mid(s, c.i, c.n)
      arg == Characters!Text(c.src)
      fmt == c.src.s
      args == <<s, Characters!Text(c.src2)>>
  IN  \/ /\ c.op = "compare" /\ (HasNul(part) \/ HasNul(arg))
         /\ c.i <= Len(s) /\ Characters!Fault(c.src) = "none"
         /\ c.ret = <<"num", Characters!Order(Ended(part), Ended(arg))>>
      \/ /\ c.op = "relations" /\ (HasNul(s) \/ HasNul(arg))
         /\ c.ret = Characters!Relations(Characters!Order(Ended(s), Ended(arg)))
      \/ /\ c.op = "reversed_relations" /\ (HasNul(s) \/ HasNul(arg))
         /\ c.ret = Characters!Relations(Characters!Order(Ended(arg), Ended(s)))
      \/ /\ c.op = "uppercase" /\ HasNul(s)
         /\ c.ret = <<"text", [k \in DOMAIN Ended(s) |-> Characters!Capital(s[k])]>>
      \/ /\ c.op = "compose" /\ HasNul(fmt)
         /\ c.ret = <<"text", Characters!Composed(fmt, args, Len(Ended(fmt)))>>
      \/ /\ c.op = "make_valid" /\ HasNul(s)
         /\ c.ret = <<"text", [k \in DOMAIN s |-> IF s[k] = 0 THEN 65533 ELSE s[k]]>>

(* find_*_of() look for the characters before a NUL, and, given a count, for *)
(* those that begin in so many bytes.                                        *)
Taken(src) ==
  IF src.k = "cstrn" /\ src.n # npos
  THEN {src.s[k] : k \in {j \in DOMAIN src.s : Characters!Bytes(SubSeq(src.s, 1, j - 1)) < src.n}}
  ELSE Range(Ended(Characters!Text(src)))
MatchesOthers(c) ==
  /\ c.op \in Characters!SetSearches
  /\ Taken(c.src) # Range(Characters!Text(c.src))
  /\ c.ret = Characters!FoundAmong(c, Taken(c.src))

(* validate() takes a NUL for an invalid byte. *)
ValidatesUpToNul(c) ==
  LET s == CharsOf(str).s
  IN  /\ c.op = "validate" /\ HasNul(s)
      /\ IndexOf(str.s, it)' = [i |-> Len(Ended(s))]
      /\ c.ret = <<"bools", FALSE>>

(* The calls that do not keep what ustring.h promises, and what they answer  *)
(* instead.                                                                  *)
Departs ==
  /\ call = NoCall /\ call' # NoCall
  /\ CharsOf(str)' = CharsOf(str)
  /\ \/ ValidatesUpToNul(call')
     \/ /\ IndexOf(str.s, it)' = IndexOf(str.s, it)
        /\ StopsAtNul(call') \/ MatchesOthers(call')

(* Glib::ustring is a string of characters: every call on the bytes is the *)
(* call of CharString on the characters they encode, with the same result  *)
(* and the same exceptions ("all operations are based on characters        *)
(* instead of bytes", ustring.h), or one of those that depart from it.     *)
Implements == Characters!Init /\ [][Characters!Next \/ Departs]_(Characters!vars)
=============================================================================
