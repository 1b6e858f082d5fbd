---------------------------- MODULE CharString -----------------------------
(***************************************************************************)
(* What Glib::ustring promises: a string of Unicode characters with the    *)
(* interface of std::string, in which every position, count, size and      *)
(* iterator is a number of characters.  Nothing here knows about UTF-8     *)
(* except Width, which bytes() and copy() report.  NUL is a character like *)
(* every other.  The module says, for every call recorded in `call', what  *)
(* the strings, the iterator and the result are afterwards; module Ustring,*)
(* which works on bytes, implements it, and names the calls that keep      *)
(* their promise only for some arguments.                                  *)
(***************************************************************************)
EXTENDS Integers, Sequences, SequencesExt, FiniteSetsExt

CONSTANTS Npos,        \* ustring::npos, larger than every size
          LocaleChars  \* the characters the charset of the locale has

VARIABLES chars,       \* the characters of the two strings s and t
          it,          \* an iterator of s: the index of its character, or NoIter
          call         \* the call that has just been made, with its result, or NoCall

vars == <<chars, it, call>>

NoCall == [op |-> "none"]
NoIter == [i |-> -2]

Width(c) == IF c < 128 THEN 1 ELSE IF c < 2048 THEN 2 ELSE IF c < 65536 THEN 3 ELSE 4
Bytes(cs) ==
  LET upto[k \in 0 .. Len(cs)] == IF k = 0 THEN 0 ELSE upto[k - 1] + Width(cs[k])
  IN  upto[Len(cs)]

Mid(cs, i, n) == SubSeq(cs, i + 1, Min({Len(cs), i + n}))
Splice(cs, i, n, new) == SubSeq(cs, 1, i) \o new \o SubSeq(cs, i + n + 1, Len(cs))
\* What sprintf() is given of a string: c_str().
UpToNul(cs) == SubSeq(cs, 1, Min({Len(cs)} \cup {k - 1 : k \in {j \in DOMAIN cs : cs[j] = 0}}))

(* The characters an argument stands for, and the exception it causes. *)
Text(src) ==
  CASE src.k = "ustring" -> chars[src.o]
    [] src.k = "sub" -> Mid(chars[src.o], src.i, src.n)
    [] src.k \in {"cstr", "range"} -> src.s
    [] src.k = "cstrn" -> Mid(src.s, 0, src.n)
    [] src.k \in {"fill", "fillc"} -> [j \in 1 .. src.n |-> src.uc]

Fault(src) ==
  CASE src.k = "sub" /\ src.i > Len(chars[src.o]) -> "out_of_range"
    [] src.k = "cstrn" /\ src.n > Len(src.s) -> "length_error"
    [] OTHER -> "none"

----------------------------------------------------------------------------
(* Every change of s by position replaces n characters from i on. *)
At(c) == IF c.op = "append" THEN Len(chars.s) ELSE c.i

Edit(c) ==
  LET fault == IF At(c) > Len(chars.s) THEN "out_of_range" ELSE Fault(c.src)
  IN  /\ c.op \in {"assign", "append", "insert", "replace", "erase"}
      /\ IF fault = "none"
         THEN /\ chars' = [chars EXCEPT !.s = Splice(@, At(c), c.n, Text(c.src))]
              /\ c.ret = <<"done">>
         ELSE /\ chars' = chars
              /\ c.ret = <<fault>>
      /\ UNCHANGED it

Plus(c) ==
  /\ c.op = "plus"
  /\ chars' = [chars EXCEPT !.s = Text(c.src) \o Text(c.src2)]
  /\ c.ret = <<"done">>
  /\ UNCHANGED it

Resize(c) ==
  /\ c.op = "resize"
  /\ chars' = [chars EXCEPT !.s = [j \in 1 .. c.n |-> IF j <= Len(@) THEN @[j] ELSE c.uc]]
  /\ c.ret = <<"done">>
  /\ UNCHANGED it

Exchange(c) ==
  /\ \/ c.op = "swap" /\ chars' = [s |-> chars.t, t |-> chars.s]
     \/ c.op = "move" /\ chars' = [s |-> chars.t, t |-> <<>>]
     \/ c.op = "release" /\ chars' = [chars EXCEPT !.s = <<>>]
  /\ c.ret = <<"done">>
  /\ UNCHANGED it

(* A word of a stream, or the text of a format: all of it, or an exception *)
(* and the string is as it was.                                            *)
Convertible(c, cs) ==
  IF c.wide THEN \A k \in DOMAIN cs : cs[k] \notin 55296 .. 57343 ELSE Range(cs) \subseteq LocaleChars

Extract(c) ==
  /\ c.op = "extract"
  /\ IF ~Convertible(c, c.src.s)
     THEN chars' = chars /\ c.ret = <<"ConvertError">>
     ELSE chars' = [chars EXCEPT !.s = c.src.s] /\ c.ret = <<"done">>
  /\ UNCHANGED it

----------------------------------------------------------------------------
(* Iterators move from character to character; those that a change returns *)
(* denote the character at the place of the change.                        *)
Move(c) ==
  /\ \/ c.op = "begin" /\ it' = [i |-> 0]
     \/ c.op = "end" /\ it' = [i |-> Len(chars.s)]
     \/ c.op = "++" /\ it' = [i |-> it.i + 1]
     \/ c.op = "--" /\ it' = [i |-> it.i - 1]
     \/ c.op = "drop" /\ it' = NoIter
     \/ c.op = "*" /\ it' = it /\ c.ret = <<"char", chars.s[it.i + 1]>>
     \/ /\ c.op = "compare_iterators"
        /\ it' = it
        /\ c.ret = <<"bools", it.i = 0, it.i # 0, it.i < Len(chars.s), it.i > 0,
                     it.i <= 0, it.i >= Len(chars.s)>>
     \/ /\ c.op = "validate"                     \* there is no invalid character
        /\ it' = [i |-> Len(chars.s)]
        /\ c.ret = <<"bools", TRUE>>
  /\ UNCHANGED chars

EditAt(c) ==
  /\ \/ /\ c.op \in {"insert1", "insertn"}
        /\ chars' = [chars EXCEPT !.s = Splice(@, it.i, 0, Text(c.src))]
        /\ it' = IF c.op = "insert1" THEN it ELSE NoIter
     \/ /\ c.op = "erase1"
        /\ chars' = [chars EXCEPT !.s = Splice(@, it.i, 1, <<>>)]
        /\ it' = it
     \/ /\ c.op = "erase_from"
        /\ chars' = [chars EXCEPT !.s = Splice(@, it.i, Npos, <<>>)]
        /\ it' = it
     \/ /\ c.op = "erase_to"
        /\ chars' = [chars EXCEPT !.s = Splice(@, 0, it.i, <<>>)]
        /\ it' = [i |-> 0]
     \/ /\ c.op \in {"replace_from", "replace_to"}
        /\ LET i == IF c.op = "replace_from" THEN it.i ELSE 0
               n == IF c.op = "replace_from" THEN Npos ELSE it.i
           IN  IF Fault(c.src) = "none"
               THEN /\ chars' = [chars EXCEPT !.s = Splice(@, i, n, Text(c.src))]
                    /\ c.ret = <<"done">>
               ELSE /\ chars' = chars
                    /\ c.ret = <<Fault(c.src)>>
        /\ it' = NoIter

----------------------------------------------------------------------------
(* Searches.  A position beyond the string finds nothing forwards and      *)
(* means the end backwards.                                                *)
Places(needle) == {k \in 0 .. Len(chars.s) - Len(needle) : Mid(chars.s, k, Len(needle)) = needle}
Least(S) == IF S = {} THEN <<"npos">> ELSE <<"num", Min(S)>>
Greatest(S) == IF S = {} THEN <<"npos">> ELSE <<"num", Max(S)>>

(* The characters to look for, or, with `not', to look past. *)
Among(match, not) == {k \in 0 .. Len(chars.s) - 1 : (chars.s[k + 1] \in match) # not}

From(c, S) == Least({k \in S : k >= c.i})
UpTo(c, S) == Greatest({k \in S : k <= c.i})

FoundAmong(c, match) ==
  CASE c.op = "find_first_of" -> From(c, Among(match, FALSE))
    [] c.op = "find_last_of" -> UpTo(c, Among(match, FALSE))
    [] c.op = "find_first_not_of" -> From(c, Among(match, TRUE))
    [] c.op = "find_last_not_of" -> UpTo(c, Among(match, TRUE))

FoundPlace(c) ==
  CASE c.op = "find" -> IF Fault(c.src) = "none" THEN From(c, Places(Text(c.src))) ELSE <<"npos">>
    [] c.op = "rfind" -> IF Fault(c.src) = "none" THEN UpTo(c, Places(Text(c.src))) ELSE <<"npos">>
    [] c.op = "find_char" -> From(c, Among({c.uc}, FALSE))
    [] c.op = "rfind_char" -> UpTo(c, Among({c.uc}, FALSE))
    [] c.op = "find_first_not_char" -> From(c, Among({c.uc}, TRUE))
    [] c.op = "find_last_not_char" -> UpTo(c, Among({c.uc}, TRUE))

SetSearches == {"find_first_of", "find_last_of", "find_first_not_of", "find_last_not_of"}
PlaceSearches == {"find", "rfind", "find_char", "rfind_char", "find_first_not_char",
                  "find_last_not_char"}

(* The order of the characters, which is that of the C locale. *)
Order(a, b) ==
  LET differ == {k \in 1 .. Min({Len(a), Len(b)}) : a[k] # b[k]}
  IN  IF differ # {} THEN (IF a[Min(differ)] < b[Min(differ)] THEN -1 ELSE 1)
      ELSE IF Len(a) = Len(b) THEN 0 ELSE IF Len(a) < Len(b) THEN -1 ELSE 1

Relations(o) == <<"bools", o = 0, o # 0, o < 0, o > 0, o <= 0, o >= 0>>

(* compose(): a percent sign and a digit is the argument of that number,   *)
(* two percent signs are one, and everything else stands for itself; the   *)
(* first `live' characters of the format are looked at.                    *)
Composed(fmt, args, live) ==
  LET digit(k) == k <= live /\ fmt[k] - 48 \in DOMAIN args
      out[k \in 1 .. Len(fmt) + 1] ==
        IF k > live THEN SubSeq(fmt, k, Len(fmt))
        ELSE IF fmt[k] # 37 THEN <<fmt[k]>> \o out[k + 1]
        ELSE IF digit(k + 1) THEN args[fmt[k + 1] - 48] \o out[k + 2]
        ELSE IF k < live /\ fmt[k + 1] = 37 THEN <<37>> \o out[k + 2]
        ELSE IF k < live THEN <<37, fmt[k + 1]>> \o out[k + 2]
        ELSE <<37>> \o out[k + 1]
  IN  out[1]

Properties == <<"bools", chars.s = <<>>, \A k \in DOMAIN chars.s : chars.s[k] < 128>>

(* The small letters of the first 256 characters have a capital each. *)
Capital(c) == IF c \in 97 .. 122 \cup (224 .. 254 \ {247}) THEN c - 32 ELSE c

Answer(c) ==
  CASE c.op \in PlaceSearches -> FoundPlace(c)
    [] c.op \in SetSearches -> FoundAmong(c, Range(Text(c.src)))
    [] c.op = "at" -> IF c.i < Len(chars.s) THEN <<"char", chars.s[c.i + 1]>> ELSE <<"out_of_range">>
    [] c.op = "index" -> <<"char", chars.s[c.i + 1]>>
    [] c.op = "sizes" -> <<"nums", Len(chars.s), Len(chars.s), Bytes(chars.s)>>
    [] c.op = "tests" -> Properties
    [] c.op = "copy" -> IF c.i > Len(chars.s) THEN <<"out_of_range">>
                        ELSE <<"num", Bytes(Mid(chars.s, c.i, c.n))>>
    [] c.op = "compare" -> IF c.i > Len(chars.s) \/ Fault(c.src) # "none"
                           THEN <<IF c.i > Len(chars.s) THEN "out_of_range" ELSE Fault(c.src)>>
                           ELSE <<"num", Order(Mid(chars.s, c.i, c.n), Text(c.src))>>
    [] c.op = "relations" -> Relations(Order(chars.s, Text(c.src)))
    [] c.op = "reversed_relations" -> Relations(Order(Text(c.src), chars.s))
    [] c.op = "make_valid" -> <<"text", chars.s>>
    [] c.op = "output" -> IF Convertible(c, chars.s) THEN <<"text", chars.s>> ELSE <<"ConvertError">>
    [] c.op = "compose" -> <<"text", Composed(c.src.s, <<chars.s, Text(c.src2)>>, Len(c.src.s))>>
    [] c.op = "uppercase" -> <<"text", [k \in DOMAIN chars.s |-> Capital(chars.s[k])]>>
    [] c.op = "sprintf" -> <<"text", UpToNul(Text(c.src)) \o UpToNul(Text(c.src2))>>
    [] c.op = "sprintf_format" -> <<"text", Text(c.src)>>

Query(c) ==
  /\ c.op \in PlaceSearches \cup SetSearches
              \cup {"at", "index", "sizes", "tests", "copy", "compare", "relations",
                    "reversed_relations", "make_valid", "output", "compose", "uppercase",
                    "sprintf", "sprintf_format"}
  /\ c.ret = Answer(c)
  /\ UNCHANGED <<chars, it>>

----------------------------------------------------------------------------
Init == chars = [s |-> <<>>, t |-> <<>>] /\ it = NoIter /\ call = NoCall

Return == call # NoCall /\ call' = NoCall /\ UNCHANGED <<chars, it>>

Next ==
  \/ Return
  \/ /\ call = NoCall /\ call' # NoCall
     /\ \/ Edit(call') \/ Plus(call') \/ Resize(call') \/ Exchange(call') \/ Extract(call')
        \/ Move(call') \/ EditAt(call')
        \/ Query(call')

Spec == Init /\ [][Next]_vars
=============================================================================
