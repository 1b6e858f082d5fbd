--------------------------- MODULE UstringProofs ---------------------------
(***************************************************************************)
(* What Ustring promises for all characters, texts, positions and counts:  *)
(* the strings stay valid UTF-8, and what UstringRefinementProofs needs to *)
(* know of characters, their bytes, the arguments of calls and their       *)
(* results.                                                                *)
(***************************************************************************)
EXTENDS Ustring, FiniteSetTheorems, WellFoundedInduction, TLAPS, SequenceTheorems

\* The least of some natural numbers.
LEMMA Least ==
  ASSUME NEW T, T \subseteq Nat, T # {}
  PROVE  \E x \in T : \A y \in T : x <= y
  <1> DEFINE R == OpToRel(<, Nat)
  <1>1. IsWellFoundedOn(R, Nat)
    BY NatLessThanWellFounded
  <1>2. \A x, y \in Nat : y < x => <<y, x>> \in R
    <2>1. R = {ss \in Nat \X Nat : ss[1] < ss[2]}
      BY DEF OpToRel
    <2> HIDE DEF R
    <2> QED  BY <2>1
  <1> HIDE DEF R
  <1>3. PICK x \in T : \A y \in T : <<y, x>> \notin R
    BY <1>1, WFMin
  <1>4. ASSUME NEW y \in T PROVE x <= y
    <2>1. x \in Nat /\ y \in Nat
      OBVIOUS
    <2>2. ~(y < x)
      BY <1>2, <1>3, <2>1, Zenon
    <2> QED  BY <2>1, <2>2
  <1> QED  BY <1>4

\* What holds of 0, and of a number when it holds of the one before it, holds of all.
LEMMA Induction ==
  ASSUME NEW n \in Nat, NEW S, 0 \in S, \A i \in 1 .. n : i - 1 \in S => i \in S
  PROVE  \A i \in 0 .. n : i \in S
  <1> DEFINE T == {i \in 0 .. n : i \notin S}
  <1> SUFFICES ASSUME T # {} PROVE FALSE
    OBVIOUS
  <1>1. PICK x \in T : \A y \in T : x <= y
    <2>1. T \subseteq Nat
      OBVIOUS
    <2> HIDE DEF T
    <2> QED  BY <2>1, Least
  <1>2. x \in 1 .. n /\ x - 1 \in 0 .. n
    BY <1>1
  <1>3. x - 1 \notin T
    BY <1>1, <1>2
  <1> QED  BY <1>1, <1>2, <1>3

-----------------------------------------------------------------------------
(* One character.                                                            *)

Byte == 0 .. 255

(* The bytes of one character: the first says how many they are.             *)
OneCharacter(u) ==
  /\ u \in Seq(Byte) /\ Len(u) \in 1 .. 4 /\ Len(u) = g_utf8_skip(u[1])
  /\ ~IsContinuation(u[1])
  /\ \A j \in 2 .. Len(u) : IsContinuation(u[j])

\* A character becomes such bytes.
LEMMA CharacterEncoded ==
  ASSUME NEW c \in Unicode
  PROVE  OneCharacter(g_unichar_to_utf8(c))
  <1> DEFINE u == g_unichar_to_utf8(c)
  <1> SUFFICES OneCharacter(u)
    OBVIOUS
  <1>1. CASE c < 128
    <2>1. u = <<c>>
      BY <1>1, SMT DEF g_unichar_to_utf8, Unicode
    <2>2. c \in Byte /\ g_utf8_skip(c) = 1 /\ ~IsContinuation(c)
      BY <1>1, SMT DEF Unicode, Byte, g_utf8_skip, IsContinuation
    <2> HIDE DEF u
    <2> QED  BY <2>1, <2>2 DEF OneCharacter
  <1>2. CASE c >= 128 /\ c < 2048
    <2> DEFINE a == 192 + c \div 64
               x == 128 + (c % 64)
    <2>1. u = <<a, x>>
      BY <1>2, SMT DEF g_unichar_to_utf8, Unicode
    <2>2. a \in 192 .. 223 /\ x \in 128 .. 191
      BY <1>2, SMT DEF Unicode
    <2> HIDE DEF u, a, x
    <2>3. a \in Byte /\ x \in Byte /\ g_utf8_skip(a) = 2 /\ ~IsContinuation(a) /\ IsContinuation(x)
      BY <2>2, SMT DEF Byte, g_utf8_skip, IsContinuation
    <2> QED  BY <2>1, <2>3 DEF OneCharacter
  <1>3. CASE c >= 2048 /\ c < 65536
    <2> DEFINE a == 224 + c \div 4096
               x == 128 + ((c \div 64) % 64)
               y == 128 + (c % 64)
    <2>1. u = <<a, x, y>>
      BY <1>3, SMT DEF g_unichar_to_utf8, Unicode
    <2>2. a \in 224 .. 239 /\ x \in 128 .. 191 /\ y \in 128 .. 191
      BY <1>3, SMT DEF Unicode
    <2> HIDE DEF u, a, x, y
    <2>3. /\ a \in Byte /\ x \in Byte /\ y \in Byte /\ g_utf8_skip(a) = 3
          /\ ~IsContinuation(a) /\ IsContinuation(x) /\ IsContinuation(y)
      BY <2>2, SMT DEF Byte, g_utf8_skip, IsContinuation
    <2> QED  BY <2>1, <2>3 DEF OneCharacter
  <1>4. CASE c >= 65536
    <2> DEFINE a == 240 + (c \div 4096) \div 64
               x == 128 + ((c \div 4096) % 64)
               y == 128 + ((c \div 64) % 64)
               z == 128 + (c % 64)
    <2>1. u = <<a, x, y, z>>
      BY <1>4, SMT DEF g_unichar_to_utf8, Unicode
    <2>2. a \in 240 .. 244 /\ x \in 128 .. 191 /\ y \in 128 .. 191 /\ z \in 128 .. 191
      BY <1>4, SMT DEF Unicode
    <2> HIDE DEF u, a, x, y, z
    <2>3. /\ a \in Byte /\ x \in Byte /\ y \in Byte /\ z \in Byte /\ g_utf8_skip(a) = 4
          /\ ~IsContinuation(a) /\ IsContinuation(x) /\ IsContinuation(y) /\ IsContinuation(z)
      BY <2>2, SMT DEF Byte, g_utf8_skip, IsContinuation
    <2> QED  BY <2>1, <2>3 DEF OneCharacter
  <1> HIDE DEF u
  <1> QED  BY <1>1, <1>2, <1>3, <1>4, SMT DEF Unicode

-----------------------------------------------------------------------------
(* Strings of characters, one at a time.                                     *)

\* An offset where a character starts, or the end.
Boundary(b, p) == p \in 0 .. Len(b) /\ (p < Len(b) => ~IsContinuation(b[p + 1]))

\* At p there is a character, and then another one or the end.
Character(b, p) ==
  \E c \in Unicode :
    LET u == g_unichar_to_utf8(c)
    IN  /\ Boundary(b, p + Len(u))
        /\ \A j \in 1 .. Len(u) : b[p + j] = u[j]

Good(b) ==
  /\ b \in Seq(Byte)
  /\ Boundary(b, 0)
  /\ \A p \in 0 .. Len(b) - 1 : Boundary(b, p) => Character(b, p)

\* The empty string is well formed.
LEMMA EmptyGood == Good(<<>>)
  BY DEF Good, Boundary

\* So is one character.
LEMMA CharacterGood ==
  ASSUME NEW c \in Unicode
  PROVE  Good(g_unichar_to_utf8(c))
  <1> DEFINE u == g_unichar_to_utf8(c)
  <1>1. /\ u \in Seq(Byte) /\ Len(u) \in 1 .. 4
        /\ ~IsContinuation(u[1]) /\ \A j \in 2 .. Len(u) : IsContinuation(u[j])
    BY CharacterEncoded DEF OneCharacter
  <1>2. Character(u, 0)
    BY <1>1 DEF Character, Boundary
  <1> HIDE DEF u
  <1>3. Boundary(u, 0)
    BY <1>1 DEF Boundary
  <1>4. \A p \in 0 .. Len(u) - 1 : Boundary(u, p) => p = 0
    BY <1>1 DEF Boundary
  <1> QED  BY <1>1, <1>2, <1>3, <1>4 DEF Good, u

\* So are two well-formed strings joined, and boundaries stay boundaries.
LEMMA ConcatGood ==
  ASSUME NEW a, Good(a), NEW b, Good(b)
  PROVE  /\ Good(a \o b)
         /\ \A p \in 0 .. Len(a) : Boundary(a, p) => Boundary(a \o b, p)
  <1> DEFINE w == a \o b
  <1>1. /\ a \in Seq(Byte) /\ b \in Seq(Byte) /\ w \in Seq(Byte)
        /\ Len(a) \in Nat /\ Len(b) \in Nat /\ Len(w) = Len(a) + Len(b)
        /\ \A k \in 1 .. Len(a) : w[k] = a[k]
        /\ \A k \in 1 .. Len(b) : w[Len(a) + k] = b[k]
    BY DEF Good
  <1> HIDE DEF w
  <1>2. ASSUME NEW p \in 0 .. Len(a), Boundary(a, p) PROVE Boundary(w, p)
    <2>1. CASE p < Len(a)
      BY <1>1, <1>2, <2>1 DEF Boundary
    <2>2. CASE p = Len(a)
      <3>1. 0 < Len(b) => w[p + 1] = b[1] /\ ~IsContinuation(b[1])
        BY <1>1, <2>2 DEF Good, Boundary
      <3> QED  BY <1>1, <2>2, <3>1 DEF Boundary
    <2> QED  BY <1>1, <2>1, <2>2
  <1>3. ASSUME NEW p \in 0 .. Len(b), Boundary(b, p) PROVE Boundary(w, Len(a) + p)
    <2>1. p < Len(b) => w[Len(a) + (p + 1)] = b[p + 1]
      BY <1>1
    <2>2. Len(a) + (p + 1) = (Len(a) + p) + 1
      BY <1>1
    <2> QED  BY <1>1, <1>3, <2>1, <2>2 DEF Boundary
  <1>4. ASSUME NEW p \in 0 .. Len(w) - 1, Boundary(w, p) PROVE Character(w, p)
    <2>1. CASE p < Len(a)
      <3>1. Boundary(a, p)
        BY <1>1, <1>4, <2>1 DEF Boundary
      <3>2. PICK c \in Unicode : /\ Boundary(a, p + Len(g_unichar_to_utf8(c)))
                                 /\ \A j \in 1 .. Len(g_unichar_to_utf8(c)) :
                                       a[p + j] = g_unichar_to_utf8(c)[j]
        <4>1. p \in 0 .. Len(a) - 1
          BY <1>1, <2>1
        <4>2. Character(a, p)
          BY <3>1, <4>1 DEF Good
        <4> QED  BY <4>2 DEF Character
      <3> DEFINE u == g_unichar_to_utf8(c)
      <3>3. Len(u) \in Nat
        BY CharacterEncoded DEF OneCharacter
      <3> HIDE DEF u
      <3>4. p + Len(u) \in 0 .. Len(a) /\ Boundary(w, p + Len(u))
        BY <1>2, <3>2 DEF u, Boundary
      <3>5. \A j \in 1 .. Len(u) : w[p + j] = u[j]
        <4> SUFFICES ASSUME NEW j \in 1 .. Len(u) PROVE w[p + j] = u[j]
          OBVIOUS
        <4>1. p + j \in 1 .. Len(a)
          BY <3>3, <3>4, <1>1, <2>1
        <4> QED  BY <1>1, <3>2, <4>1 DEF u
      <3> QED  BY <3>4, <3>5 DEF Character, u
    <2>2. CASE p >= Len(a)
      <3> DEFINE q == p - Len(a)
      <3>1. q \in 0 .. Len(b) - 1 /\ p = Len(a) + q /\ p + 1 = Len(a) + (q + 1)
        BY <1>1, <2>2
      <3> HIDE DEF q
      <3>2. Boundary(b, q)
        BY <1>1, <1>4, <3>1 DEF Boundary
      <3>3. PICK c \in Unicode : /\ Boundary(b, q + Len(g_unichar_to_utf8(c)))
                                 /\ \A j \in 1 .. Len(g_unichar_to_utf8(c)) :
                                       b[q + j] = g_unichar_to_utf8(c)[j]
        BY <3>1, <3>2 DEF Good, Character
      <3> DEFINE u == g_unichar_to_utf8(c)
      <3>4. Len(u) \in Nat
        BY CharacterEncoded DEF OneCharacter
      <3> HIDE DEF u
      <3>5. q + Len(u) \in 0 .. Len(b) /\ Boundary(w, Len(a) + (q + Len(u)))
        BY <1>3, <3>3 DEF u, Boundary
      <3>6. Len(a) + (q + Len(u)) = p + Len(u)
        BY <1>1, <3>1, <3>4
      <3>7. ASSUME NEW j \in 1 .. Len(u) PROVE w[p + j] = u[j]
        <4>1. q + j \in 1 .. Len(b) /\ Len(a) + (q + j) = p + j
          BY <1>1, <3>1, <3>4, <3>5
        <4> QED  BY <1>1, <3>3, <4>1 DEF u
      <3> QED  BY <3>5, <3>6, <3>7 DEF Character, u
    <2> QED  BY <1>1, <2>1, <2>2
  <1>5. Boundary(w, 0)
    BY <1>1, <1>2 DEF Good
  <1> QED  BY <1>1, <1>2, <1>4, <1>5 DEF Good, w

\* The character at a boundary, and that no other one starts before its end.
LEMMA CharacterAt ==
  ASSUME NEW b, Good(b), NEW p \in 0 .. Len(b) - 1, Boundary(b, p)
  PROVE  \E c \in Unicode :
           LET u == g_unichar_to_utf8(c) IN
           /\ OneCharacter(u)
           /\ p + Len(u) \in p + 1 .. Len(b) /\ Boundary(b, p + Len(u))
           /\ \A j \in 1 .. Len(u) : b[p + j] = u[j]
           /\ \A q \in p + 1 .. p + Len(u) - 1 : ~Boundary(b, q)
  <1>1. Len(b) \in Nat /\ p \in Nat /\ p < Len(b)
    BY DEF Good
  <1>2. PICK c \in Unicode : /\ Boundary(b, p + Len(g_unichar_to_utf8(c)))
                             /\ \A j \in 1 .. Len(g_unichar_to_utf8(c)) :
                                   b[p + j] = g_unichar_to_utf8(c)[j]
    BY DEF Good, Character
  <1> DEFINE u == g_unichar_to_utf8(c)
  <1>3. OneCharacter(u)
    BY CharacterEncoded
  <1>4. Boundary(b, p + Len(u)) /\ \A j \in 1 .. Len(u) : b[p + j] = u[j]
    BY <1>2
  <1> HIDE DEF u
  <1>5. Len(u) \in 1 .. 4 /\ \A j \in 2 .. Len(u) : IsContinuation(u[j])
    BY <1>3 DEF OneCharacter
  <1>6. p + Len(u) \in p + 1 .. Len(b)
    <2>1. p + Len(u) \in 0 .. Len(b)
      BY <1>4 DEF Boundary
    <2>2. Len(u) \in 1 .. 4
      BY <1>5
    <2>3. ASSUME NEW n \in 1 .. 4, NEW len \in Nat, p + n \in 0 .. len PROVE p + n \in p + 1 .. len
      BY <1>1, <2>3
    <2> QED  BY <1>1, <2>1, <2>2, <2>3
  <1>7. ASSUME NEW q \in p + 1 .. p + Len(u) - 1 PROVE ~Boundary(b, q)
    <2> DEFINE j == q - p + 1
    <2>1. j \in 2 .. Len(u) /\ q + 1 = p + j /\ q < Len(b)
      BY <1>1, <1>5, <1>6
    <2> HIDE DEF j
    <2>2. IsContinuation(b[q + 1])
      BY <1>4, <1>5, <2>1
    <2> QED  BY <2>1, <2>2 DEF Boundary
  <1> QED  BY <1>3, <1>4, <1>6, <1>7 DEF u

\* The bytes between two boundaries.
LEMMA SliceGood ==
  ASSUME NEW b, Good(b), NEW i \in 0 .. Len(b), NEW j \in i .. Len(b), Boundary(b, i), Boundary(b, j)
  PROVE  /\ Good(SubSeq(b, i + 1, j)) /\ Len(SubSeq(b, i + 1, j)) = j - i
         /\ \A q \in 0 .. j - i : Boundary(SubSeq(b, i + 1, j), q) => Boundary(b, i + q)
  <1> DEFINE s == SubSeq(b, i + 1, j)
  <1>1. /\ b \in Seq(Byte) /\ Len(b) \in Nat /\ i \in Nat /\ j \in Nat /\ i <= j /\ j <= Len(b)
        /\ s \in Seq(Byte) /\ Len(s) = j - i /\ \A k \in 1 .. j - i : s[k] = b[i + k]
    BY DEF Good
  <1> HIDE DEF s
  <1>2. ASSUME NEW q \in 0 .. j - i, Boundary(s, q) PROVE Boundary(b, i + q)
    <2>1. CASE q < j - i
      <3>1. q + 1 \in 1 .. j - i /\ i + (q + 1) = (i + q) + 1
        BY <1>1, <2>1
      <3>2. b[(i + q) + 1] = s[q + 1] /\ ~IsContinuation(s[q + 1])
        BY <1>1, <1>2, <2>1, <3>1 DEF Boundary
      <3> QED  BY <1>1, <2>1, <3>2 DEF Boundary
    <2>2. CASE q = j - i
      BY <1>1, <2>2
    <2> QED  BY <1>1, <2>1, <2>2
  <1>3. ASSUME NEW q \in 0 .. j - i, Boundary(b, i + q) PROVE Boundary(s, q)
    <2>1. CASE q < j - i
      <3>1. q + 1 \in 1 .. j - i /\ i + (q + 1) = (i + q) + 1
        BY <1>1, <2>1
      <3>2. b[(i + q) + 1] = s[q + 1] /\ ~IsContinuation(b[(i + q) + 1])
        BY <1>1, <1>3, <2>1, <3>1 DEF Boundary
      <3> QED  BY <1>1, <2>1, <3>2 DEF Boundary
    <2>2. CASE q = j - i
      BY <1>1, <2>2 DEF Boundary
    <2> QED  BY <1>1, <2>1, <2>2
  <1>4. ASSUME NEW q \in 0 .. Len(s) - 1, Boundary(s, q) PROVE Character(s, q)
    <2>1. i + q \in 0 .. Len(b) - 1 /\ Boundary(b, i + q)
      BY <1>1, <1>2, <1>4
    <2>2. PICK c \in Unicode :
            LET u == g_unichar_to_utf8(c) IN
            /\ OneCharacter(u)
            /\ (i + q) + Len(u) \in (i + q) + 1 .. Len(b) /\ Boundary(b, (i + q) + Len(u))
            /\ \A k \in 1 .. Len(u) : b[(i + q) + k] = u[k]
            /\ \A r \in (i + q) + 1 .. (i + q) + Len(u) - 1 : ~Boundary(b, r)
      BY <2>1, CharacterAt
    <2> DEFINE u == g_unichar_to_utf8(c)
    <2>3. /\ Len(u) \in 1 .. 4 /\ Boundary(b, (i + q) + Len(u))
          /\ \A k \in 1 .. Len(u) : b[(i + q) + k] = u[k]
          /\ \A r \in (i + q) + 1 .. (i + q) + Len(u) - 1 : ~Boundary(b, r)
      BY <2>2 DEF OneCharacter
    <2> HIDE DEF u
    <2>4. (i + q) + Len(u) <= j
      <3> SUFFICES ASSUME (i + q) + Len(u) > j PROVE FALSE
        BY <1>1, <2>3
      <3>1. j \in (i + q) + 1 .. (i + q) + Len(u) - 1
        BY <1>1, <2>3
      <3> QED  BY <2>3, <3>1
    <2>5. q + Len(u) \in 0 .. j - i /\ i + (q + Len(u)) = (i + q) + Len(u)
      BY <1>1, <2>3, <2>4
    <2>6. Boundary(s, q + Len(u))
      BY <1>3, <2>3, <2>5
    <2>7. ASSUME NEW k \in 1 .. Len(u) PROVE s[q + k] = u[k]
      <3>1. q + k \in 1 .. j - i /\ i + (q + k) = (i + q) + k
        BY <1>1, <2>3, <2>5
      <3> QED  BY <1>1, <2>3, <3>1
    <2> QED  BY <2>6, <2>7 DEF Character, u
  <1>5. Boundary(s, 0)
    BY <1>1, <1>3
  <1> QED  BY <1>1, <1>2, <1>4, <1>5 DEF Good, s

\* The character before a boundary starts at Previous.
LEMMA PreviousCharacter ==
  ASSUME NEW b, Good(b), NEW p \in 1 .. Len(b), Boundary(b, p)
  PROVE  /\ Previous(b, p) \in 0 .. p - 1 /\ Boundary(b, Previous(b, p))
         /\ \A q \in Previous(b, p) + 1 .. p - 1 : ~Boundary(b, q)
  <1> DEFINE S == {k \in 0 .. p - 1 : ~IsContinuation(b[k + 1])}
             T == {p - 1 - k : k \in S}
  <1>1. Len(b) \in Nat /\ Boundary(b, 0)
    BY DEF Good
  <1>2. 0 \in S
    BY <1>1 DEF Boundary
  <1>3. T \subseteq Nat /\ T # {}
    BY <1>2
  <1>4. PICK x \in T : \A y \in T : x <= y
    <2> HIDE DEF T
    <2> QED  BY <1>3, Least
  <1>5. PICK m \in S : x = p - 1 - m
    BY <1>4
  <1>6. \A k \in S : k <= m
    <2> TAKE k \in S
    <2>1. p - 1 - k \in T
      OBVIOUS
    <2>2. p - 1 - m <= p - 1 - k
      BY <1>4, <1>5, <2>1
    <2> QED  BY <2>2
  <1> HIDE DEF T
  <1> DEFINE top == CHOOSE k \in S : \A l \in S : l <= k
  <1>7. top \in S /\ \A l \in S : l <= top
    <2> HIDE DEF S
    <2> QED  BY <1>6
  <1>8. Previous(b, p) = top
    BY DEF Previous, Max
  <1> HIDE DEF top
  <1>9. top \in 0 .. p - 1 /\ Boundary(b, top)
    BY <1>1, <1>7 DEF Boundary
  <1>10. ASSUME NEW q \in top + 1 .. p - 1 PROVE ~Boundary(b, q)
    <2>1. q \notin S /\ q \in 0 .. p - 1
      <3> HIDE DEF S
      <3> QED  BY <1>7, <1>9
    <2>2. q < Len(b)
      BY <1>1, <2>1
    <2> QED  BY <2>1, <2>2 DEF Boundary
  <1> QED  BY <1>8, <1>9, <1>10

-----------------------------------------------------------------------------
(* What is computed by recursion.                                            *)

(* A function on 0 .. n with value v at 0, whose every other value comes from *)
(* the one before it.                                                        *)
IsRecursion(n, V, v, step) == n \in Nat /\ v \in V /\ \A k \in 1 .. n : \A x \in V : step[k][x] \in V
Computes(f, n, V, v, step) ==
  f \in [0 .. n -> V] /\ f[0] = v /\ \A k \in 1 .. n : f[k] = step[k][f[k - 1]]

\* There is such a function.
LEMMA Recursion ==
  ASSUME NEW n, NEW V, NEW v, NEW step, IsRecursion(n, V, v, step)
  PROVE  \E f : Computes(f, n, V, v, step)
  <1> n \in Nat /\ v \in V /\ \A k \in 1 .. n : \A x \in V : step[k][x] \in V
    BY DEF IsRecursion
  <1> DEFINE Upto(m, f) == /\ f \in [0 .. m -> V] /\ f[0] = v
                           /\ \A k \in 1 .. m : f[k] = step[k][f[k - 1]]
             S == {m \in 0 .. n : \E f : Upto(m, f)}
  <1>1. 0 \in S
    <2>1. Upto(0, [k \in 0 .. 0 |-> v])
      OBVIOUS
    <2> HIDE DEF Upto
    <2> QED  BY <2>1
  <1>2. ASSUME NEW m \in 1 .. n, m - 1 \in S PROVE m \in S
    <2>1. PICK f : Upto(m - 1, f)
      BY <1>2
    <2> DEFINE x == step[m][f[m - 1]]
               h == [k \in 0 .. m |-> IF k = m THEN x ELSE f[k]]
    <2>2. m - 1 \in 0 .. m - 1 /\ f[m - 1] \in V
      BY <2>1
    <2>3. x \in V
      BY <2>2
    <2> HIDE DEF x
    <2>4. h \in [0 .. m -> V]
      <3> SUFFICES ASSUME NEW k \in 0 .. m PROVE (IF k = m THEN x ELSE f[k]) \in V
        OBVIOUS
      <3>1. k # m => k \in 0 .. m - 1
        OBVIOUS
      <3> QED  BY <2>1, <2>3, <3>1
    <2>5. h[0] = v /\ h[m] = x /\ h[m - 1] = f[m - 1]
      BY <2>1
    <2>6. ASSUME NEW k \in 1 .. m PROVE h[k] = step[k][h[k - 1]]
      <3>1. CASE k = m
        BY <2>5, <3>1 DEF x
      <3>2. CASE k # m
        <4>1. k \in 1 .. m - 1 /\ h[k] = f[k] /\ h[k - 1] = f[k - 1]
          BY <3>2
        <4> QED  BY <2>1, <4>1
      <3> QED  BY <3>1, <3>2
    <2> HIDE DEF h
    <2>7. Upto(m, h)
      BY <2>4, <2>5, <2>6
    <2> HIDE DEF Upto
    <2> QED  BY <2>7
  <1> HIDE DEF S
  <1>3. \A m \in 1 .. n : m - 1 \in S => m \in S
    BY <1>2
  <1>4. n \in S
    BY <1>1, <1>3, Induction
  <1>5. PICK f : Upto(n, f)
    BY <1>4 DEF S
  <1> QED  BY <1>5 DEF Computes

\* A string is encoded character by character.
LEMMA EncodedStepwise ==
  ASSUME NEW cs \in Seq(Unicode)
  PROVE  \E f \in [0 .. Len(cs) -> Seq(Byte)] :
           /\ f[0] = <<>> /\ Encode(cs) = f[Len(cs)]
           /\ \A k \in 1 .. Len(cs) : f[k] = f[k - 1] \o g_unichar_to_utf8(cs[k])
  <1> DEFINE n == Len(cs)
             V == Seq(Byte)
             Step(x, k) == x \o g_unichar_to_utf8(cs[k])
             step == [k \in 1 .. n |-> [x \in V |-> Step(x, k)]]
             Round(f) == f = [k \in 0 .. n |-> IF k = 0 THEN <<>> ELSE Step(f[k - 1], k)]
             upto == CHOOSE f : Round(f)
  <1>1. Encode(cs) = upto[n]
    BY DEF Encode
  <1>2. n \in Nat /\ \A k \in 1 .. n : cs[k] \in Unicode
    OBVIOUS
  <1> HIDE DEF n
  <1>3. ASSUME NEW k \in 1 .. n, NEW x \in V
        PROVE  step[k][x] = Step(x, k) /\ step[k][x] \in V
    <2>1. g_unichar_to_utf8(cs[k]) \in V
      BY <1>2, CharacterEncoded DEF OneCharacter
    <2>2. Step(x, k) \in V
      BY <2>1
    <2> HIDE DEF Step, V
    <2> QED  BY <2>2
  <1> HIDE DEF step, Step
  <1>4. <<>> \in V
    OBVIOUS
  <1> HIDE DEF V
  <1>5. PICK f : Computes(f, n, V, <<>>, step)
    <2>1. IsRecursion(n, V, <<>>, step)
      BY <1>2, <1>3, <1>4 DEF IsRecursion
    <2> QED  BY <2>1, Recursion
  <1>6. \A k \in 1 .. n : f[k] = Step(f[k - 1], k)
    <2> TAKE k \in 1 .. n
    <2>1. k - 1 \in 0 .. n /\ f[k - 1] \in V
      BY <1>2, <1>5 DEF Computes
    <2> QED  BY <1>3, <1>5, <2>1 DEF Computes
  <1>7. Round(f)
    <2>1. ASSUME NEW k \in 0 .. n
          PROVE  f[k] = IF k = 0 THEN <<>> ELSE Step(f[k - 1], k)
      <3>1. k # 0 => k \in 1 .. n
        BY <1>2
      <3> QED  BY <1>5, <1>6, <3>1 DEF Computes
    <2> QED  BY <1>5, <2>1 DEF Computes
  <1>8. Round(upto)
    <2> HIDE DEF Round
    <2> QED  BY <1>7
  <1> HIDE DEF upto
  <1>9. \A k \in 0 .. n : upto[k] = IF k = 0 THEN <<>> ELSE Step(upto[k - 1], k)
    BY <1>8
  <1>10. \A k \in 0 .. n : upto[k] = f[k]
    <2> DEFINE S == {k \in 0 .. n : upto[k] = f[k]}
    <2>1. 0 \in S
      BY <1>2, <1>5, <1>9 DEF Computes
    <2>2. ASSUME NEW k \in 1 .. n, k - 1 \in S PROVE k \in S
      <3>1. k \in 0 .. n /\ k # 0
        BY <1>2
      <3> QED  BY <1>6, <1>9, <2>2, <3>1
    <2> HIDE DEF S
    <2>3. \A k \in 1 .. n : k - 1 \in S => k \in S
      BY <2>2
    <2>4. \A k \in 0 .. n : k \in S
      BY <1>2, <2>1, <2>3, Induction
    <2> QED  BY <2>4 DEF S
  <1>11. n \in 0 .. n
    BY <1>2
  <1> QED  BY <1>1, <1>5, <1>6, <1>10, <1>11 DEF n, V, Step, Computes

\* The bytes of characters are good.
LEMMA EncodeGood ==
  ASSUME NEW cs \in Seq(Unicode)
  PROVE  Good(Encode(cs))
  <1>1. PICK f \in [0 .. Len(cs) -> Seq(Byte)] :
          /\ f[0] = <<>> /\ Encode(cs) = f[Len(cs)]
          /\ \A k \in 1 .. Len(cs) : f[k] = f[k - 1] \o g_unichar_to_utf8(cs[k])
    BY EncodedStepwise
  <1> DEFINE S == {k \in 0 .. Len(cs) : Good(f[k])}
  <1>2. Len(cs) \in Nat /\ \A k \in 1 .. Len(cs) : cs[k] \in Unicode
    OBVIOUS
  <1>3. 0 \in S
    BY <1>1, <1>2, EmptyGood
  <1>4. ASSUME NEW k \in 1 .. Len(cs), k - 1 \in S PROVE k \in S
    <2>1. Good(f[k - 1]) /\ Good(g_unichar_to_utf8(cs[k]))
      BY <1>2, <1>4, CharacterGood
    <2>2. Good(f[k])
      BY <1>1, <2>1, ConcatGood
    <2> QED  BY <1>2, <2>2
  <1> HIDE DEF S
  <1>5. \A k \in 1 .. Len(cs) : k - 1 \in S => k \in S
    BY <1>4
  <1>6. Len(cs) \in 0 .. Len(cs)
    BY <1>2
  <1>7. Len(cs) \in S
    BY <1>2, <1>3, <1>5, <1>6, Induction
  <1> QED  BY <1>1, <1>7 DEF S

\* One more character, one more sequence of bytes.
LEMMA EncodeAppend ==
  ASSUME NEW cs \in Seq(Unicode), NEW c \in Unicode
  PROVE  Encode(Append(cs, c)) = Encode(cs) \o g_unichar_to_utf8(c)
  <1> DEFINE ds == Append(cs, c)
             n == Len(cs)
  <1>1. /\ ds \in Seq(Unicode) /\ n \in Nat /\ Len(ds) = n + 1
        /\ ds[n + 1] = c /\ \A k \in 1 .. n : ds[k] = cs[k]
    OBVIOUS
  <1> HIDE DEF ds
  <1>2. PICK f \in [0 .. n -> Seq(Byte)] :
          /\ f[0] = <<>> /\ Encode(cs) = f[n]
          /\ \A k \in 1 .. n : f[k] = f[k - 1] \o g_unichar_to_utf8(cs[k])
    BY EncodedStepwise
  <1>3. PICK h \in [0 .. Len(ds) -> Seq(Byte)] :
          /\ h[0] = <<>> /\ Encode(ds) = h[Len(ds)]
          /\ \A k \in 1 .. Len(ds) : h[k] = h[k - 1] \o g_unichar_to_utf8(ds[k])
    BY <1>1, EncodedStepwise
  <1> HIDE DEF n
  <1> DEFINE S == {k \in 0 .. n : h[k] = f[k]}
  <1>4. 0 \in S
    BY <1>1, <1>2, <1>3
  <1>5. ASSUME NEW k \in 1 .. n, k - 1 \in S PROVE k \in S
    <2>1. k \in 1 .. Len(ds) /\ k \in 0 .. n /\ h[k - 1] = f[k - 1]
      BY <1>1, <1>5
    <2>2. h[k] = h[k - 1] \o g_unichar_to_utf8(cs[k])
      BY <1>1, <1>3, <2>1
    <2> QED  BY <1>2, <2>1, <2>2
  <1> HIDE DEF S
  <1>6. \A k \in 1 .. n : k - 1 \in S => k \in S
    BY <1>5
  <1>7. n \in 0 .. n /\ n + 1 \in 1 .. Len(ds) /\ (n + 1) - 1 = n
    BY <1>1
  <1>8. n \in S
    BY <1>1, <1>4, <1>6, <1>7, Induction
  <1>9. h[n] = f[n]
    BY <1>8 DEF S
  <1>10. h[n + 1] = h[n] \o g_unichar_to_utf8(c)
    BY <1>1, <1>3, <1>7
  <1> QED  BY <1>1, <1>2, <1>3, <1>9, <1>10 DEF ds

\* No characters, no bytes.
LEMMA EncodeEmpty == Encode(<<>>) = <<>>
  <1>1. <<>> \in Seq(Unicode) /\ Len(<<>>) = 0
    OBVIOUS
  <1>2. PICK f \in [0 .. Len(<<>>) -> Seq(Byte)] : f[0] = <<>> /\ Encode(<<>>) = f[Len(<<>>)]
    BY <1>1, EncodedStepwise
  <1> QED  BY <1>1, <1>2

\* g_utf8_skip() is one to four for every byte.
LEMMA Skips ==
  ASSUME NEW x
  PROVE  g_utf8_skip(x) \in 1 .. 4
  BY DEF g_utf8_skip

\* Characters are counted one by one.
LEMMA OffsetStepwise ==
  ASSUME NEW b, Good(b), Len(b) < npos, NEW offset \in Nat
  PROVE  \E after :
           /\ utf8_byte_offset(b, offset) = IF offset = npos THEN npos ELSE after[offset]
           /\ after[0] = 0
           /\ \A k \in 1 .. offset :
                after[k] = IF after[k - 1] >= Len(b) THEN npos
                           ELSE after[k - 1] + g_utf8_skip(b[after[k - 1] + 1])
           /\ \A k \in 0 .. offset :
                after[k] = npos \/ (after[k] \in 0 .. Len(b) /\ Boundary(b, after[k]))
  <1> DEFINE Step(p) == IF p >= Len(b) THEN npos ELSE p + g_utf8_skip(b[p + 1])
             V == {npos} \cup {p \in 0 .. Len(b) : Boundary(b, p)}
             step == [k \in 1 .. offset |-> [p \in V |-> Step(p)]]
             Round(f) == f = [k \in 0 .. offset |-> IF k = 0 THEN 0 ELSE Step(f[k - 1])]
             after == CHOOSE f : Round(f)
  <1>1. utf8_byte_offset(b, offset) = IF offset = npos THEN npos ELSE after[offset]
    BY DEF utf8_byte_offset
  <1>2. Len(b) \in Nat /\ npos \in Nat /\ 0 \in V
    BY DEF Good, Boundary, npos
  <1>3. ASSUME NEW p \in V PROVE Step(p) \in V
    <2>1. CASE p >= Len(b)
      BY <2>1
    <2>2. CASE ~(p >= Len(b))
      <3>1. p \in 0 .. Len(b) - 1 /\ Boundary(b, p)
        BY <1>2, <2>2
      <3>2. PICK c \in Unicode :
              LET u == g_unichar_to_utf8(c) IN
              /\ OneCharacter(u)
              /\ p + Len(u) \in p + 1 .. Len(b) /\ Boundary(b, p + Len(u))
              /\ \A j \in 1 .. Len(u) : b[p + j] = u[j]
              /\ \A q \in p + 1 .. p + Len(u) - 1 : ~Boundary(b, q)
        BY <3>1, CharacterAt
      <3> DEFINE u == g_unichar_to_utf8(c)
      <3>3. Len(u) = g_utf8_skip(u[1]) /\ b[p + 1] = u[1] /\ Boundary(b, p + Len(u))
        BY <3>2 DEF OneCharacter
      <3> HIDE DEF u
      <3>4. Step(p) = p + Len(u)
        BY <2>2, <3>3
      <3>5. Step(p) \in 0 .. Len(b) /\ Boundary(b, Step(p))
        BY <3>3, <3>4 DEF Boundary
      <3> QED  BY <3>5
    <2> QED  BY <2>1, <2>2
  <1> HIDE DEF Step, V
  <1>4. PICK f : Computes(f, offset, V, 0, step)
    <2>1. \A k \in 1 .. offset : \A p \in V : step[k][p] = Step(p)
      OBVIOUS
    <2> HIDE DEF step
    <2>2. IsRecursion(offset, V, 0, step)
      BY <1>2, <1>3, <2>1 DEF IsRecursion
    <2> QED  BY <2>2, Recursion
  <1>5. \A k \in 1 .. offset : k - 1 \in 0 .. offset /\ f[k] = Step(f[k - 1])
    <2> TAKE k \in 1 .. offset
    <2>1. k - 1 \in 0 .. offset /\ f[k - 1] \in V
      BY <1>4 DEF Computes
    <2>2. step[k][f[k - 1]] = Step(f[k - 1])
      BY <2>1
    <2> HIDE DEF step
    <2> QED  BY <1>4, <2>1, <2>2 DEF Computes
  <1> HIDE DEF step
  <1>6. Round(f)
    <2>1. ASSUME NEW k \in 0 .. offset PROVE f[k] = IF k = 0 THEN 0 ELSE Step(f[k - 1])
      <3>1. k # 0 => k \in 1 .. offset
        OBVIOUS
      <3> QED  BY <1>4, <1>5, <3>1 DEF Computes
    <2> QED  BY <1>4, <2>1 DEF Computes
  <1>7. Round(after)
    <2> HIDE DEF Round
    <2> QED  BY <1>6
  <1> HIDE DEF after
  <1>8. \A k \in 0 .. offset : after[k] = IF k = 0 THEN 0 ELSE Step(after[k - 1])
    BY <1>7
  <1> DEFINE S == {k \in 0 .. offset : after[k] \in V}
  <1>9. 0 \in S
    BY <1>2, <1>8
  <1>10. ASSUME NEW k \in 1 .. offset, k - 1 \in S PROVE k \in S
    BY <1>3, <1>8, <1>10
  <1> HIDE DEF S
  <1>11. \A k \in 1 .. offset : k - 1 \in S => k \in S
    BY <1>10
  <1>12. \A k \in 0 .. offset : k \in S
    BY <1>9, <1>11, Induction
  <1>13. \A k \in 0 .. offset : after[k] = npos \/ (after[k] \in 0 .. Len(b) /\ Boundary(b, after[k]))
    BY <1>12 DEF S, V
  <1>14. after[0] = 0 /\ \A k \in 1 .. offset : after[k] = Step(after[k - 1])
    BY <1>8
  <1> QED  BY <1>1, <1>13, <1>14 DEF Step

\* A number of characters is a number of bytes that ends at a boundary, or npos.
LEMMA ByteOffset ==
  ASSUME NEW b, Good(b), Len(b) < npos, NEW offset \in Nat
  PROVE  \/ utf8_byte_offset(b, offset) = npos
         \/ /\ utf8_byte_offset(b, offset) \in 0 .. Len(b)
            /\ Boundary(b, utf8_byte_offset(b, offset))
  <1>1. offset \in 0 .. offset
    OBVIOUS
  <1> QED  BY <1>1, OffsetStepwise

-----------------------------------------------------------------------------
(* Slices of strings, as std::string takes them.                             *)

\* A place in b and a number of bytes there, both of whole characters, or npos.
Span(b, i, n) ==
  \/ i = npos
  \/ /\ i \in 0 .. Len(b) /\ Boundary(b, i)
     /\ n = npos \/ (n \in 0 .. Len(b) - i /\ Boundary(b, i + n))

\* Utf8SubstrBounds gives a span between boundaries.
LEMMA BoundsSpan ==
  ASSUME NEW b, Good(b), Len(b) < npos, NEW ci \in Nat, NEW cn \in Nat
  PROVE  Span(b, Utf8SubstrBounds(b, ci, cn).i, Utf8SubstrBounds(b, ci, cn).n)
  <1> DEFINE i == utf8_byte_offset(b, ci)
             s == SubSeq(b, i + 1, Len(b))
             n == utf8_byte_offset(s, cn)
  <1>1. CASE i = npos
    BY <1>1 DEF Span, Utf8SubstrBounds
  <1>2. CASE i # npos
    <2>1. i \in 0 .. Len(b) /\ Boundary(b, i)
      BY <1>2, ByteOffset
    <2>2. /\ Utf8SubstrBounds(b, ci, cn).i = i
          /\ Utf8SubstrBounds(b, ci, cn).n = n
      BY <1>2 DEF Utf8SubstrBounds
    <2> HIDE DEF i
    <2>3. Len(b) \in Nat /\ Len(b) \in i .. Len(b) /\ Boundary(b, Len(b)) /\ npos \in Nat
      BY <2>1 DEF Good, Boundary, npos
    <2>4. /\ Good(s) /\ Len(s) = Len(b) - i
          /\ \A q \in 0 .. Len(b) - i : Boundary(s, q) => Boundary(b, i + q)
      BY <2>1, <2>3, SliceGood
    <2> HIDE DEF s
    <2>5. Len(s) < npos
      BY <2>1, <2>3, <2>4
    <2>6. n = npos \/ (n \in 0 .. Len(s) /\ Boundary(s, n))
      BY <2>4, <2>5, ByteOffset
    <2> HIDE DEF n
    <2> QED  BY <2>1, <2>2, <2>4, <2>6 DEF Span
  <1> QED  BY <1>1, <1>2

\* The minimum of two integers.
LEMMA LesserOfTwo ==
  ASSUME NEW x \in Int, NEW y \in Int
  PROVE  Min({x, y}) = IF x <= y THEN x ELSE y
  <1> DEFINE m == IF x <= y THEN x ELSE y
  <1>1. m \in {x, y} /\ \A z \in {x, y} : m <= z
    OBVIOUS
  <1>2. \A k \in {x, y} : (\A z \in {x, y} : k <= z) => k = m
    OBVIOUS
  <1> HIDE DEF m
  <1>3. (CHOOSE k \in {x, y} : \A z \in {x, y} : k <= z) = m
    BY <1>1, <1>2
  <1> QED  BY <1>3 DEF Min, m

\* A substring over a span is well formed.
LEMMA SubGood ==
  ASSUME NEW b, Good(b), Len(b) < npos, NEW i, NEW n, Span(b, i, n)
  PROVE  Good(std_sub(b, i, n).b)
  <1>1. Len(b) \in Nat /\ npos \in Nat /\ Boundary(b, Len(b))
    BY DEF Good, Boundary, npos
  <1>2. CASE i = npos
    <2>1. std_sub(b, i, n).b = <<>>
      BY <1>1, <1>2 DEF std_sub, throw
    <2> QED  BY <2>1, EmptyGood
  <1>3. CASE i # npos
    <2>1. i \in 0 .. Len(b) /\ Boundary(b, i) /\ (n = npos \/ (n \in 0 .. Len(b) - i /\ Boundary(b, i + n)))
      BY <1>3 DEF Span
    <2> DEFINE j == Min({Len(b), i + n})
    <2>2. j = IF Len(b) <= i + n THEN Len(b) ELSE i + n
      <3>1. i + n \in Int /\ Len(b) \in Int
        BY <1>1, <2>1
      <3> QED  BY <3>1, LesserOfTwo, Zenon
    <2>3. std_sub(b, i, n).b = SubSeq(b, i + 1, j)
      <3>1. ~(i > Len(b))
        BY <1>1, <2>1
      <3>2. std_sub(b, i, n) = ok(SubSeq(b, i + 1, j))
        BY <3>1, Zenon DEF std_sub
      <3> HIDE DEF j
      <3>3. ok(SubSeq(b, i + 1, j)).b = SubSeq(b, i + 1, j)
        BY DEF ok
      <3> QED  BY <3>2, <3>3, Zenon
    <2> HIDE DEF j
    <2>4. j \in i .. Len(b) /\ Boundary(b, j)
      BY <1>1, <2>1, <2>2
    <2> QED  BY <2>1, <2>3, <2>4, SliceGood
  <1> QED  BY <1>2, <1>3

\* So is a string with a span replaced, and its start stays a boundary.
LEMMA ReplaceGood ==
  ASSUME NEW b, Good(b), Len(b) < npos, NEW i, NEW n, Span(b, i, n), NEW arg, Good(arg.b)
  PROVE  /\ Good(std_replace(b, i, n, arg).b)
         /\ (std_replace(b, i, n, arg).err = "none" /\ i \in 0 .. Len(b))
               => arg.err = "none" /\ Boundary(std_replace(b, i, n, arg).b, i)
  <1> DEFINE w == SubSeq(b, 1, i) \o arg.b \o SubSeq(b, i + n + 1, Len(b))
  <1>1. b \in Seq(Byte) /\ Len(b) \in Nat /\ npos \in Nat /\ Boundary(b, Len(b)) /\ Boundary(b, 0)
    BY DEF Good, Boundary, npos
  <1>2. CASE i = npos
    <2>1. std_replace(b, i, n, arg) = throw("out_of_range") /\ ~(i \in 0 .. Len(b))
      BY <1>1, <1>2 DEF std_replace
    <2> QED  BY <2>1, EmptyGood DEF throw
  <1>3. CASE i # npos
    <2>1. i \in 0 .. Len(b) /\ Boundary(b, i) /\ (n = npos \/ (n \in 0 .. Len(b) - i /\ Boundary(b, i + n)))
      BY <1>3 DEF Span
    <2>2. CASE arg.err # "none"
      <3>1. std_replace(b, i, n, arg) = arg
        BY <1>1, <2>1, <2>2 DEF std_replace
      <3> QED  BY <2>2, <3>1
    <2>3. CASE arg.err = "none"
      <3>1. std_replace(b, i, n, arg) = ok(w)
        BY <1>1, <2>1, <2>3 DEF std_replace
      <3>2. Good(SubSeq(b, 1, i)) /\ Len(SubSeq(b, 1, i)) = i
        <4>1. 0 \in 0 .. Len(b) /\ i \in 0 .. Len(b) /\ 0 + 1 = 1 /\ i - 0 = i
          BY <1>1, <2>1
        <4> QED  BY <1>1, <2>1, <4>1, SliceGood
      <3>3. Good(SubSeq(b, i + n + 1, Len(b)))
        <4>1. CASE n = npos
          <5>1. i + n + 1 > Len(b)
            BY <1>1, <2>1, <4>1
          <5>2. SubSeq(b, i + n + 1, Len(b)) = <<>>
            BY <1>1, <2>1, <4>1, <5>1
          <5> QED  BY <5>2, EmptyGood
        <4>2. CASE n \in 0 .. Len(b) - i /\ Boundary(b, i + n)
          <5>1. i + n \in 0 .. Len(b) /\ Len(b) \in i + n .. Len(b)
            BY <1>1, <2>1, <4>2
          <5> QED  BY <1>1, <4>2, <5>1, SliceGood
        <4> QED  BY <2>1, <4>1, <4>2
      <3>4. /\ Good(SubSeq(b, 1, i) \o arg.b)
            /\ Boundary(SubSeq(b, 1, i) \o arg.b, i) /\ i \in 0 .. Len(SubSeq(b, 1, i) \o arg.b)
        <4>1. i \in 0 .. i /\ Boundary(SubSeq(b, 1, i), i)
          BY <2>1, <3>2 DEF Boundary
        <4>2. Boundary(SubSeq(b, 1, i) \o arg.b, i) /\ Good(SubSeq(b, 1, i) \o arg.b)
          BY <3>2, <4>1, ConcatGood
        <4> QED  BY <4>2 DEF Boundary
      <3>5. Good(w) /\ Boundary(w, i)
        BY <3>3, <3>4, ConcatGood
      <3> HIDE DEF w
      <3> QED  BY <2>3, <3>1, <3>5 DEF ok
    <2> QED  BY <2>2, <2>3
  <1> QED  BY <1>2, <1>3

\* A C string ends where its first NUL is, and that is a boundary.
LEMMA CStringCut ==
  ASSUME NEW b, Good(b)
  PROVE  \E m \in 0 .. Len(b) : c_str(b) = SubSeq(b, 1, m) /\ Boundary(b, m)
  <1> DEFINE S == {Len(b)} \cup {k - 1 : k \in {j \in DOMAIN b : b[j] = 0}}
             m == CHOOSE x \in S : \A y \in S : x <= y
  <1>1. b \in Seq(Byte) /\ Len(b) \in Nat /\ DOMAIN b = 1 .. Len(b)
    BY DEF Good
  <1>2. S \subseteq 0 .. Len(b) /\ S # {}
    BY <1>1
  <1>3. m \in S
    <2>1. S \subseteq Nat
      BY <1>1, <1>2
    <2> HIDE DEF S
    <2>2. \E x \in S : \A y \in S : x <= y
      BY <1>2, <2>1, Least
    <2> QED  BY <2>2
  <1>4. c_str(b) = SubSeq(b, 1, m)
    BY DEF c_str, Min
  <1> HIDE DEF m
  <1>5. Boundary(b, m)
    <2>1. CASE m = Len(b)
      BY <1>1, <2>1 DEF Boundary
    <2>2. CASE m # Len(b)
      <3>1. PICK k \in 1 .. Len(b) : b[k] = 0 /\ m = k - 1
        BY <1>1, <1>3, <2>2
      <3>2. ~IsContinuation(b[m + 1])
        <4>1. m + 1 = k
          BY <3>1
        <4>2. ~IsContinuation(0)
          BY DEF IsContinuation
        <4> QED  BY <3>1, <4>1, <4>2
      <3> QED  BY <1>1, <3>1, <3>2 DEF Boundary
    <2> QED  BY <2>1, <2>2
  <1> QED  BY <1>2, <1>3, <1>4, <1>5

\* A count of characters of a C string.
LEMMA CharsGood ==
  ASSUME NEW b, Good(b), Len(b) < npos, NEW n \in Nat
  PROVE  Good(std_chars(b, utf8_byte_offset_cstr(b, n)).b)
  <1>1. PICK m \in 0 .. Len(b) : c_str(b) = SubSeq(b, 1, m) /\ Boundary(b, m)
    BY CStringCut
  <1> DEFINE c == c_str(b)
             k == utf8_byte_offset(c, n)
  <1>2. Len(b) \in Nat /\ npos \in Nat /\ Boundary(b, 0)
    BY DEF Good, npos
  <1>3. Good(c) /\ Len(c) = m /\ \A q \in 0 .. m : Boundary(c, q) => Boundary(b, q)
    <2>1. 0 \in 0 .. Len(b) /\ m \in 0 .. Len(b) /\ 0 + 1 = 1 /\ m - 0 = m
      BY <1>2
    <2>2. /\ Good(SubSeq(b, 1, m)) /\ Len(SubSeq(b, 1, m)) = m
          /\ \A q \in 0 .. m : Boundary(SubSeq(b, 1, m), q) => Boundary(b, 0 + q)
      BY <1>1, <1>2, <2>1, SliceGood
    <2>3. \A q \in 0 .. m : 0 + q = q
      OBVIOUS
    <2> QED  BY <1>1, <2>2, <2>3
  <1> HIDE DEF c
  <1>4. k = npos \/ (k \in 0 .. m /\ Boundary(b, k))
    <2>1. Len(c) < npos
      BY <1>2, <1>3
    <2>2. k = npos \/ (k \in 0 .. Len(c) /\ Boundary(c, k))
      BY <1>3, <2>1, ByteOffset
    <2> HIDE DEF k
    <2> QED  BY <1>3, <2>2
  <1>5. std_chars(b, utf8_byte_offset_cstr(b, n)) = std_chars(b, k)
    BY DEF utf8_byte_offset_cstr, c
  <1> HIDE DEF k
  <1>6. CASE k = npos
    <2>1. std_chars(b, k).b = <<>>
      BY <1>6 DEF std_chars, throw
    <2> QED  BY <1>5, <2>1, EmptyGood
  <1>7. CASE k # npos
    <2>1. std_chars(b, k) = ok(SubSeq(b, 1, k))
      BY <1>7 DEF std_chars
    <2>2. ok(SubSeq(b, 1, k)).b = SubSeq(b, 1, k)
      BY DEF ok
    <2>3. 0 \in 0 .. Len(b) /\ k \in 0 .. Len(b) /\ 0 + 1 = 1 /\ Boundary(b, k)
      BY <1>2, <1>4, <1>7
    <2>4. Good(SubSeq(b, 1, k))
      BY <1>2, <2>3, SliceGood
    <2> QED  BY <1>5, <2>1, <2>2, <2>4, Zenon
  <1> QED  BY <1>6, <1>7

\* The same character again and again.
LEMMA FillGood ==
  ASSUME NEW n \in Nat, NEW uc \in Unicode
  PROVE  Good(fill(n, uc))
  <1> DEFINE cs == [j \in 1 .. n |-> uc]
  <1>1. cs \in Seq(Unicode) /\ Len(cs) = n /\ \A j \in 1 .. n : cs[j] = uc
    OBVIOUS
  <1>2. CASE uc < 128
    <2>1. fill(n, uc) = cs
      BY <1>2 DEF fill
    <2> HIDE DEF cs
    <2>2. uc \in Byte /\ ~IsContinuation(uc) /\ g_unichar_to_utf8(uc) = <<uc>>
      BY <1>2 DEF Unicode, Byte, IsContinuation, g_unichar_to_utf8
    <2>3. cs \in Seq(Byte)
      <3>1. \A j \in 1 .. n : cs[j] \in Byte
        BY <1>1, <2>2
      <3> QED  BY <1>1, <3>1
    <2>4. \A p \in 0 .. n : Boundary(cs, p)
      BY <1>1, <2>2 DEF Boundary
    <2>5. ASSUME NEW p \in 0 .. n - 1 PROVE Character(cs, p)
      <3>1. p + 1 \in 1 .. n /\ p + 1 \in 0 .. n
        OBVIOUS
      <3>2. Len(<<uc>>) = 1 /\ \A j \in 1 .. 1 : j = 1 /\ <<uc>>[j] = uc
        OBVIOUS
      <3>3. Boundary(cs, p + Len(<<uc>>)) /\ \A j \in 1 .. Len(<<uc>>) : cs[p + j] = <<uc>>[j]
        BY <1>1, <2>4, <3>1, <3>2
      <3> QED  BY <2>2, <3>3 DEF Character
    <2>6. Good(cs)
      BY <1>1, <2>3, <2>4, <2>5 DEF Good
    <2> QED  BY <2>1, <2>6
  <1>3. CASE ~(uc < 128)
    <2>1. fill(n, uc) = Encode(cs)
      BY <1>3 DEF fill
    <2> HIDE DEF cs
    <2> QED  BY <1>1, <2>1, EncodeGood
  <1> QED  BY <1>2, <1>3

-----------------------------------------------------------------------------
(* The size in characters.                                                   *)

\* Stepping from character to character visits offsets of the string.
LEMMA StepsInString ==
  ASSUME NEW b, Len(b) \in Nat
  PROVE  Steps(b) \subseteq 0 .. Len(b) - 1
  <1> DEFINE L == Len(b)
             N == L + 4
             Visit(f, p) == IF p >= L THEN {} ELSE {p} \cup f[p + g_utf8_skip(b[p + 1])]
             Round(m, f) == f = [p \in N - m .. N |-> Visit(f, p)]
             Full(f) == f = [p \in 0 .. N |-> Visit(f, p)]
             at == CHOOSE f : Full(f)
  <1>1. Steps(b) = at[0]
    BY DEF Steps
  <1>2. L \in Nat /\ N \in Nat /\ N = L + 4
    OBVIOUS
  <1> HIDE DEF L, N
  <1>3. ASSUME NEW f, NEW h, NEW m \in 0 .. N, NEW p \in N - m .. N,
               \A q \in N - m .. N : q > p => f[q] = h[q]
        PROVE  Visit(f, p) = Visit(h, p)
    <2>1. CASE p >= L
      BY <2>1
    <2>2. CASE ~(p >= L)
      <3>1. g_utf8_skip(b[p + 1]) \in 1 .. 4
        BY Skips
      <3>2. p + g_utf8_skip(b[p + 1]) \in N - m .. N /\ p + g_utf8_skip(b[p + 1]) > p
        BY <1>2, <2>2, <3>1
      <3> QED  BY <1>3, <2>2, <3>2
    <2> QED  BY <2>1, <2>2
  <1> DEFINE S == {m \in 0 .. N : \E f : Round(m, f)}
  <1>4. 0 \in S
    <2> DEFINE f == [p \in N - 0 .. N |-> {}]
    <2>1. \A p \in N - 0 .. N : p >= L /\ f[p] = {}
      BY <1>2
    <2> HIDE DEF f
    <2>2. \A p \in N - 0 .. N : Visit(f, p) = {}
      BY <2>1
    <2> HIDE DEF Visit
    <2>3. f = [p \in N - 0 .. N |-> Visit(f, p)]
      BY <2>2 DEF f
    <2> QED  BY <1>2, <2>3
  <1>5. ASSUME NEW m \in 1 .. N, m - 1 \in S PROVE m \in S
    <2>1. PICK f : Round(m - 1, f)
      BY <1>5
    <2> DEFINE h == [p \in N - m .. N |-> IF p = N - m THEN Visit(f, p) ELSE f[p]]
    <2>2. \A q \in N - m .. N : q > N - m => q \in N - (m - 1) .. N /\ q # N - m /\ f[q] = h[q]
      BY <1>2
    <2>3. h[N - m] = Visit(f, N - m)
      <3>1. N - m \in N - m .. N
        BY <1>2
      <3> HIDE DEF Visit
      <3> QED  BY <3>1
    <2>4. h = [p \in N - m .. N |-> h[p]]
      OBVIOUS
    <2> HIDE DEF h
    <2>5. ASSUME NEW p \in N - m .. N PROVE h[p] = Visit(h, p)
      <3>1. m \in 0 .. N /\ \A q \in N - m .. N : q > p => f[q] = h[q]
        BY <1>2, <2>2
      <3>2. Visit(f, p) = Visit(h, p)
        <4> HIDE DEF Visit
        <4> QED  BY <1>3, <3>1
      <3>3. p = N - m \/ (p # N - m /\ p > N - m)
        BY <1>2
      <3>4. CASE p = N - m
        <4> HIDE DEF Visit
        <4> QED  BY <2>3, <3>2, <3>4
      <3>5. CASE p > N - m
        <4>1. p \in N - (m - 1) .. N /\ f[p] = h[p]
          BY <2>2, <3>5
        <4> HIDE DEF Visit
        <4>2. f[p] = Visit(f, p)
          BY <2>1, <4>1
        <4> QED  BY <3>2, <4>1, <4>2
      <3> QED  BY <3>3, <3>4, <3>5
    <2> HIDE DEF Visit
    <2>6. Round(m, h)
      BY <2>4, <2>5
    <2> HIDE DEF Round
    <2> QED  BY <2>6
  <1> HIDE DEF Visit
  <1>6. Full(at)
    <2> HIDE DEF S
    <2>1. \A m \in 1 .. N : m - 1 \in S => m \in S
      BY <1>5
    <2>2. N \in 0 .. N
      BY <1>2
    <2>3. N \in S
      BY <1>2, <1>4, <2>1, <2>2, Induction
    <2>4. PICK f : Round(N, f)
      BY <2>3 DEF S
    <2>5. N - N = 0
      BY <1>2
    <2>6. Full(f)
      BY <2>4, <2>5
    <2> HIDE DEF Full
    <2> QED  BY <2>6
  <1> HIDE DEF at, S
  <1>7. \A p \in 0 .. N : at[p] = Visit(at, p)
    BY <1>6
  <1> DEFINE T == {m \in 0 .. N : \A p \in N - m .. N : at[p] \subseteq 0 .. L - 1}
  <1>8. 0 \in T
    <2>1. \A p \in N - 0 .. N : p \in 0 .. N /\ p >= L
      BY <1>2
    <2>2. \A p \in N - 0 .. N : at[p] = {}
      BY <1>7, <2>1 DEF Visit
    <2> QED  BY <1>2, <2>2
  <1>9. ASSUME NEW m \in 1 .. N, m - 1 \in T PROVE m \in T
    <2> SUFFICES ASSUME NEW p \in N - m .. N PROVE at[p] \subseteq 0 .. L - 1
      BY <1>2
    <2>1. p \in 0 .. N
      BY <1>2
    <2>2. CASE p >= L
      BY <1>7, <2>1, <2>2 DEF Visit
    <2>3. CASE ~(p >= L)
      <3> DEFINE q == p + g_utf8_skip(b[p + 1])
      <3>1. g_utf8_skip(b[p + 1]) \in 1 .. 4
        BY Skips
      <3>2. q \in N - (m - 1) .. N
        BY <1>2, <2>3, <3>1
      <3>3. at[p] = {p} \cup at[q]
        BY <1>7, <2>1, <2>3 DEF Visit
      <3> HIDE DEF q
      <3>4. at[q] \subseteq 0 .. L - 1 /\ p \in 0 .. L - 1
        BY <1>2, <1>9, <2>1, <2>3, <3>2
      <3> QED  BY <3>3, <3>4
    <2> QED  BY <2>2, <2>3
  <1> HIDE DEF T
  <1>10. \A m \in 1 .. N : m - 1 \in T => m \in T
    BY <1>9
  <1>11. N \in 0 .. N
    BY <1>2
  <1>12. N \in T
    BY <1>2, <1>8, <1>10, <1>11, Induction
  <1>13. 0 \in N - N .. N
    BY <1>2
  <1> QED  BY <1>1, <1>12, <1>13 DEF T, L

\* A size is a number.
LEMMA SizeNatural ==
  ASSUME NEW b, Good(b)
  PROVE  size(b) \in Nat
  <1> DEFINE S == {k \in Steps(b) : k < Len(b)}
  <1>1. Len(b) \in Nat
    BY DEF Good
  <1>2. S \subseteq 0 .. Len(b) - 1
    BY <1>1, StepsInString
  <1>3. size(b) = Cardinality(S)
    BY DEF size, g_utf8_pointer_to_offset
  <1> HIDE DEF S
  <1>4. IsFiniteSet(0 .. Len(b) - 1)
    <2>1. 0 \in Int /\ Len(b) - 1 \in Int
      BY <1>1
    <2> QED  BY <2>1, FS_Interval
  <1>5. IsFiniteSet(S)
    BY <1>2, <1>4, FS_Subset
  <1> QED  BY <1>3, <1>5, FS_CardinalityType

-----------------------------------------------------------------------------
(* Encoding what has been decoded gives the same bytes.                      *)

\* A continuation byte adds six bits to the last character.
LEMMA Continued ==
  ASSUME NEW cs \in Seq(Nat), NEW a \in Nat, NEW x \in 128 .. 191
  PROVE  WithByte(Append(cs, a), x) = Append(cs, a * 64 + (x - 128))
  <1> DEFINE ds == Append(cs, a)
             v == a * 64 + (x - 128)
             es == Append(cs, v)
             n == Len(cs)
  <1>1. IsContinuation(x) /\ x % 64 = x - 128
    BY DEF IsContinuation
  <1>2. v \in Nat
    OBVIOUS
  <1>3. ds[Len(ds)] * 64 + (x % 64) = v
    <2>1. ds[Len(ds)] = a
      OBVIOUS
    <2> HIDE DEF ds
    <2> QED  BY <1>1, <2>1
  <1>4. WithByte(ds, x) = [ds EXCEPT ![Len(ds)] = ds[Len(ds)] * 64 + (x % 64)]
    <2> HIDE DEF ds
    <2> QED  BY <1>1, Zenon DEF WithByte
  <1> HIDE DEF v
  <1>5. WithByte(ds, x) = [ds EXCEPT ![Len(ds)] = v]
    <2> HIDE DEF ds
    <2> QED  BY <1>3, <1>4
  <1>6. /\ ds \in Seq(Nat) /\ es \in Seq(Nat) /\ Len(ds) = n + 1 /\ Len(es) = n + 1 /\ n \in Nat
        /\ DOMAIN ds = 1 .. n + 1
        /\ es[n + 1] = v /\ \A k \in 1 .. n : ds[k] = es[k]
    BY <1>2
  <1> HIDE DEF ds, es, n
  <1>7. [ds EXCEPT ![Len(ds)] = v] = es
    <2> DEFINE w == [ds EXCEPT ![Len(ds)] = v]
    <2>1. w \in Seq(Nat) /\ Len(w) = n + 1
      BY <1>2, <1>6
    <2>2. \A k \in 1 .. n + 1 : w[k] = es[k]
      BY <1>6
    <2> HIDE DEF w
    <2>3. w = es
      BY <1>6, <2>1, <2>2
    <2> QED  BY <2>3 DEF w
  <1> QED  BY <1>5, <1>7 DEF ds, es, v

\* Any other byte starts a character with its lower bits.
LEMMA Started ==
  ASSUME NEW cs, NEW x \in Nat
  PROVE  /\ x \in 0 .. 127 => WithByte(cs, x) = Append(cs, x)
         /\ x \in 192 .. 223 => WithByte(cs, x) = Append(cs, x - 192)
         /\ x \in 224 .. 239 => WithByte(cs, x) = Append(cs, x - 224)
         /\ x \in 240 .. 247 => WithByte(cs, x) = Append(cs, x - 240)
  <1>1. ASSUME x \in 0 .. 127 PROVE WithByte(cs, x) = Append(cs, x)
    <2>1. ~IsContinuation(x) /\ x < 128
      BY <1>1 DEF IsContinuation
    <2> QED  BY <2>1 DEF WithByte
  <1>2. ASSUME x \in 192 .. 223 PROVE WithByte(cs, x) = Append(cs, x - 192)
    <2>1. ~IsContinuation(x) /\ x % 32 = x - 192 /\ ~(x < 128) /\ x < 224
      BY <1>2 DEF IsContinuation
    <2> QED  BY <2>1 DEF WithByte
  <1>3. ASSUME x \in 224 .. 239 PROVE WithByte(cs, x) = Append(cs, x - 224)
    <2>1. ~IsContinuation(x) /\ x % 16 = x - 224 /\ ~(x < 128) /\ ~(x < 224) /\ x < 240
      BY <1>3 DEF IsContinuation
    <2> QED  BY <2>1 DEF WithByte
  <1>4. ASSUME x \in 240 .. 247 PROVE WithByte(cs, x) = Append(cs, x - 240)
    <2>1. ~IsContinuation(x) /\ x % 8 = x - 240 /\ ~(x < 128) /\ ~(x < 224) /\ ~(x < 240)
      BY <1>4 DEF IsContinuation
    <2> QED  BY <2>1 DEF WithByte
  <1> QED  BY <1>1, <1>2, <1>3, <1>4

\* The next byte of a character holds the six lowest bits of what has been read.
LEMMA SixBits ==
  ASSUME NEW cs \in Seq(Nat), NEW n \in Nat
  PROVE  WithByte(Append(cs, n \div 64), 128 + (n % 64)) = Append(cs, n)
  <1> DEFINE a == n \div 64
             x == 128 + (n % 64)
  <1>1. a \in Nat /\ x \in 128 .. 191 /\ a * 64 + (x - 128) = n
    BY SMT
  <1> SUFFICES WithByte(Append(cs, a), x) = Append(cs, n)
    OBVIOUS
  <1> HIDE DEF a, x
  <1>2. WithByte(Append(cs, a), x) = Append(cs, a * 64 + (x - 128))
    <2>1. a \in Nat /\ x \in 128 .. 191
      BY <1>1
    <2> QED  BY <2>1, Continued, ZenonT(40)
  <1> QED  BY <1>1, <1>2

\* The bytes of a character add it to what has been decoded before.
LEMMA CharacterDecoded ==
  ASSUME NEW c \in Unicode, NEW f, NEW q \in Nat, f[q] \in Seq(Nat),
         \A j \in 1 .. Len(g_unichar_to_utf8(c)) :
            f[q + j] = WithByte(f[(q + j) - 1], g_unichar_to_utf8(c)[j])
  PROVE  f[q + Len(g_unichar_to_utf8(c))] = Append(f[q], c)
  <1> DEFINE u == g_unichar_to_utf8(c)
             cs == f[q]
  <1>1. \A j \in 1 .. Len(u) : f[q + j] = WithByte(f[q + (j - 1)], u[j])
    <2> TAKE j \in 1 .. Len(u)
    <2>1. Len(u) \in Nat
      BY CharacterEncoded DEF OneCharacter
    <2>2. (q + j) - 1 = q + (j - 1)
      BY <2>1
    <2> QED  BY <2>2
  <1>2. cs \in Seq(Nat) /\ f[q + 0] = cs
    OBVIOUS
  <1>3. c \in Nat /\ c \div 65536 < 17
    BY DEF Unicode
  <1> SUFFICES f[q + Len(u)] = Append(cs, c)
    OBVIOUS
  <1> HIDE DEF cs
  <1>4. CASE c < 128
    <2>1. u = <<c>>
      BY <1>3, <1>4, SMT DEF g_unichar_to_utf8
    <2> HIDE DEF u
    <2>2. f[q + 1] = WithByte(cs, c) /\ Len(u) = 1
      <3>1. 1 \in 1 .. Len(u) /\ 1 - 1 = 0 /\ u[1] = c /\ Len(u) = 1
        BY <2>1
      <3> QED  BY <1>1, <1>2, <3>1
    <2>3. WithByte(cs, c) = Append(cs, c)
      <3>1. c \in 0 .. 127
        BY <1>3, <1>4
      <3> QED  BY <1>2, <1>4, <3>1, Started
    <2> QED  BY <2>2, <2>3
  <1>5. CASE c >= 128 /\ c < 2048
    <2> DEFINE m == c \div 64
    <2>1. m \in Nat /\ c \in Nat /\ 192 + m \in 192 .. 223
      BY <1>3, <1>5, SMT
    <2>2. u = <<192 + m, 128 + (c % 64)>>
      BY <1>3, <1>5, SMT DEF g_unichar_to_utf8
    <2> HIDE DEF u, m
    <2>3. /\ f[q + 1] = WithByte(cs, 192 + m)
          /\ f[q + 2] = WithByte(f[q + 1], 128 + (c % 64))
          /\ Len(u) = 2
      <3>1. /\ 1 \in 1 .. Len(u) /\ 2 \in 1 .. Len(u)
            /\ 1 - 1 = 0 /\ 2 - 1 = 1
            /\ u[1] = 192 + m /\ u[2] = 128 + (c % 64)
            /\ Len(u) = 2
        BY <2>2
      <3> QED  BY <1>1, <1>2, <3>1
    <2>4. f[q + 1] = Append(cs, m)
      <3>1. 192 + m \in Nat /\ (192 + m) - 192 = m
        BY <2>1
      <3>2. WithByte(cs, 192 + m) = Append(cs, (192 + m) - 192)
        BY <2>1, <3>1, Started
      <3> QED  BY <2>3, <3>1, <3>2
    <2>5. f[q + 2] = Append(cs, c)
      <3>1. WithByte(Append(cs, m), 128 + (c % 64)) = Append(cs, c)
        BY <1>2, <2>1, SixBits, ZenonT(40) DEF m
      <3> QED  BY <2>3, <2>4, <3>1
    <2> QED  BY <2>3, <2>5
  <1>6. CASE c >= 2048 /\ c < 65536
    <2> DEFINE m == c \div 64
               l == m \div 64
    <2>1. l \in Nat /\ m \in Nat /\ c \in Nat /\ 224 + l \in 224 .. 239
      BY <1>3, <1>6, SMT
    <2>2. u = <<224 + l, 128 + (m % 64), 128 + (c % 64)>>
      <3>1. c \div 4096 = l
        BY <1>3, SMT
      <3>2. ~(c < 128) /\ ~(c < 2048) /\ c < 65536
        BY <1>3, <1>6, SMT
      <3> QED  BY <3>1, <3>2 DEF g_unichar_to_utf8
    <2> HIDE DEF u, l, m
    <2>3. /\ f[q + 1] = WithByte(cs, 224 + l)
          /\ f[q + 2] = WithByte(f[q + 1], 128 + (m % 64))
          /\ f[q + 3] = WithByte(f[q + 2], 128 + (c % 64))
          /\ Len(u) = 3
      <3>1. /\ 1 \in 1 .. Len(u) /\ 2 \in 1 .. Len(u) /\ 3 \in 1 .. Len(u)
            /\ 1 - 1 = 0 /\ 2 - 1 = 1 /\ 3 - 1 = 2
            /\ u[1] = 224 + l /\ u[2] = 128 + (m % 64) /\ u[3] = 128 + (c % 64)
            /\ Len(u) = 3
        BY <2>2
      <3> QED  BY <1>1, <1>2, <3>1
    <2>4. f[q + 1] = Append(cs, l)
      <3>1. 224 + l \in Nat /\ (224 + l) - 224 = l
        BY <2>1
      <3>2. WithByte(cs, 224 + l) = Append(cs, (224 + l) - 224)
        BY <2>1, <3>1, Started
      <3> QED  BY <2>3, <3>1, <3>2
    <2>5. f[q + 2] = Append(cs, m)
      <3>1. WithByte(Append(cs, l), 128 + (m % 64)) = Append(cs, m)
        BY <1>2, <2>1, SixBits, ZenonT(40) DEF l
      <3> QED  BY <2>3, <2>4, <3>1
    <2>6. f[q + 3] = Append(cs, c)
      <3>1. WithByte(Append(cs, m), 128 + (c % 64)) = Append(cs, c)
        BY <1>2, <2>1, SixBits, ZenonT(40) DEF m
      <3> QED  BY <2>3, <2>5, <3>1
    <2> QED  BY <2>3, <2>6
  <1>7. CASE c >= 65536
    <2> DEFINE m == c \div 64
               l == m \div 64
               k == l \div 64
    <2>1. k \in Nat /\ l \in Nat /\ m \in Nat /\ c \in Nat /\ 240 + k \in 240 .. 247
      BY <1>3, <1>7, SMT
    <2>2. u = <<240 + k, 128 + (l % 64), 128 + (m % 64), 128 + (c % 64)>>
      <3>1. c \div 4096 = l
        BY <1>3, SMT
      <3>2. ~(c < 128) /\ ~(c < 2048) /\ ~(c < 65536)
        BY <1>3, <1>7, SMT
      <3> QED  BY <3>1, <3>2 DEF g_unichar_to_utf8
    <2> HIDE DEF u, k, l, m
    <2>3. /\ f[q + 1] = WithByte(cs, 240 + k)
          /\ f[q + 2] = WithByte(f[q + 1], 128 + (l % 64))
          /\ f[q + 3] = WithByte(f[q + 2], 128 + (m % 64))
          /\ f[q + 4] = WithByte(f[q + 3], 128 + (c % 64))
          /\ Len(u) = 4
      <3>1. /\ 1 \in 1 .. Len(u) /\ 2 \in 1 .. Len(u) /\ 3 \in 1 .. Len(u) /\ 4 \in 1 .. Len(u)
            /\ 1 - 1 = 0 /\ 2 - 1 = 1 /\ 3 - 1 = 2 /\ 4 - 1 = 3
            /\ u[1] = 240 + k /\ u[2] = 128 + (l % 64) /\ u[3] = 128 + (m % 64) /\ u[4] = 128 + (c % 64)
            /\ Len(u) = 4
        BY <2>2
      <3> QED  BY <1>1, <1>2, <3>1
    <2>4. f[q + 1] = Append(cs, k)
      <3>1. 240 + k \in Nat /\ (240 + k) - 240 = k
        BY <2>1
      <3>2. WithByte(cs, 240 + k) = Append(cs, (240 + k) - 240)
        BY <2>1, <3>1, Started
      <3> QED  BY <2>3, <3>1, <3>2
    <2>5. f[q + 2] = Append(cs, l)
      <3>1. WithByte(Append(cs, k), 128 + (l % 64)) = Append(cs, l)
        BY <1>2, <2>1, SixBits DEF k
      <3> QED  BY <2>3, <2>4, <3>1
    <2>6. f[q + 3] = Append(cs, m)
      <3>1. WithByte(Append(cs, l), 128 + (m % 64)) = Append(cs, m)
        BY <1>2, <2>1, SixBits, ZenonT(40) DEF l
      <3> QED  BY <2>3, <2>5, <3>1
    <2>7. f[q + 4] = Append(cs, c)
      <3>1. WithByte(Append(cs, m), 128 + (c % 64)) = Append(cs, c)
        BY <1>2, <2>1, SixBits, ZenonT(40) DEF m
      <3> QED  BY <2>3, <2>6, <3>1
    <2> QED  BY <2>3, <2>7
  <1> HIDE DEF u
  <1> QED  BY <1>3, <1>4, <1>5, <1>6, <1>7, SMT

\* Bytes are decoded one by one.
LEMMA DecodedStepwise ==
  ASSUME NEW b \in Seq(Byte)
  PROVE  \E f : /\ f[0] = <<>> /\ Decoded(b) = f[Len(b)]
                /\ \A k \in 1 .. Len(b) : f[k] = WithByte(f[k - 1], b[k])
  <1> DEFINE n == Len(b)
             V == Seq(Nat)
             step == [k \in 1 .. n |-> [x \in V |-> WithByte(x, b[k])]]
             Round(f) == f = [k \in 0 .. n |-> IF k = 0 THEN <<>> ELSE WithByte(f[k - 1], b[k])]
             upto == CHOOSE f : Round(f)
  <1>1. Decoded(b) = upto[n]
    BY DEF Decoded
  <1>2. n \in Nat /\ \A k \in 1 .. n : b[k] \in Byte
    OBVIOUS
  <1> HIDE DEF n
  <1>3. ASSUME NEW k \in 1 .. n, NEW x \in V
        PROVE  step[k][x] = WithByte(x, b[k]) /\ step[k][x] \in V
    <2>1. b[k] \in Nat
      <3>1. b[k] \in Byte
        BY <1>2, Zenon
      <3>2. \A e \in Byte : e \in Nat
        BY DEF Byte
      <3> QED  BY <3>1, <3>2, Zenon
    <2>2. WithByte(x, b[k]) \in V
      <3> DEFINE v == b[k]
      <3>1. v \in Nat
        BY <2>1
      <3> HIDE DEF v
      <3>2. CASE IsContinuation(v) /\ x = <<>>
        <4>1. WithByte(x, v) = [x EXCEPT ![Len(x)] = x[Len(x)] * 64 + (v % 64)]
          BY <3>2 DEF WithByte
        <4>2. DOMAIN x = {}
          BY <3>2
        <4>3. \A a, e : [x EXCEPT ![a] = e] = x
          BY <3>2, <4>2
        <4> QED  BY <4>1, <4>3, Zenon DEF v
      <3>3. CASE IsContinuation(v) /\ x # <<>>
        <4> DEFINE e == x[Len(x)] * 64 + (v % 64)
        <4>1. x[Len(x)] \in Nat /\ v % 64 \in Nat
          BY <3>1, <3>3
        <4>2. e \in Nat
          BY <4>1
        <4>3. WithByte(x, v) = [x EXCEPT ![Len(x)] = e]
          BY <3>3, Zenon DEF WithByte
        <4> HIDE DEF e
        <4>4. [x EXCEPT ![Len(x)] = e] \in V
          <5>1. Len(x) \in Nat /\ DOMAIN x = 1 .. Len(x) /\ \A j \in 1 .. Len(x) : x[j] \in Nat
            OBVIOUS
          <5>2. [x EXCEPT ![Len(x)] = e] \in [1 .. Len(x) -> Nat]
            BY <4>2, <5>1
          <5> QED  BY <5>1, <5>2
        <4> QED  BY <4>3, <4>4, Zenon DEF v
      <3>4. CASE ~IsContinuation(v)
        <4> DEFINE e == IF v < 128 THEN v ELSE IF v < 224 THEN v % 32 ELSE IF v < 240 THEN v % 16 ELSE v % 8
        <4>1. e \in Nat
          BY <3>1
        <4>2. WithByte(x, v) = Append(x, e)
          BY <3>4, Zenon DEF WithByte
        <4> HIDE DEF e
        <4>3. Append(x, e) \in V
          BY <4>1
        <4> QED  BY <4>2, <4>3, Zenon DEF v
      <3> QED  BY <3>2, <3>3, <3>4
    <2> HIDE DEF V
    <2> QED  BY <2>2
  <1> HIDE DEF step
  <1>4. <<>> \in V
    OBVIOUS
  <1> HIDE DEF V
  <1>5. PICK f : Computes(f, n, V, <<>>, step)
    <2>1. IsRecursion(n, V, <<>>, step)
      BY <1>2, <1>3, <1>4 DEF IsRecursion
    <2> QED  BY <2>1, Recursion
  <1>6. \A k \in 1 .. n : f[k] = WithByte(f[k - 1], b[k])
    <2> TAKE k \in 1 .. n
    <2>1. k - 1 \in 0 .. n /\ f[k - 1] \in V
      BY <1>2, <1>5 DEF Computes
    <2> QED  BY <1>3, <1>5, <2>1 DEF Computes
  <1>7. Round(f)
    <2>1. ASSUME NEW k \in 0 .. n
          PROVE  f[k] = IF k = 0 THEN <<>> ELSE WithByte(f[k - 1], b[k])
      <3>1. k # 0 => k \in 1 .. n
        BY <1>2
      <3> QED  BY <1>5, <1>6, <3>1 DEF Computes
    <2> QED  BY <1>5, <2>1 DEF Computes
  <1>8. Round(upto)
    <2> HIDE DEF Round
    <2> QED  BY <1>7
  <1> HIDE DEF upto
  <1>9. \A k \in 0 .. n : upto[k] = IF k = 0 THEN <<>> ELSE WithByte(upto[k - 1], b[k])
    BY <1>8
  <1>10. upto[0] = <<>> /\ \A k \in 1 .. n : upto[k] = WithByte(upto[k - 1], b[k])
    <2>1. 0 \in 0 .. n /\ \A k \in 1 .. n : k \in 0 .. n /\ k # 0
      BY <1>2
    <2> QED  BY <1>9, <2>1
  <1> QED  BY <1>1, <1>10 DEF n

\* The beginning of a string, and the next bytes.
LEMMA Prolonged ==
  ASSUME NEW b \in Seq(Byte), NEW u \in Seq(Byte), NEW q \in Nat, q + Len(u) <= Len(b),
         \A j \in 1 .. Len(u) : b[q + j] = u[j]
  PROVE  SubSeq(b, 1, q) \o u = SubSeq(b, 1, q + Len(u))
  <1> DEFINE s == SubSeq(b, 1, q)
             w == s \o u
             t == SubSeq(b, 1, q + Len(u))
             n == q + Len(u)
  <1>1. /\ s \in Seq(Byte) /\ Len(s) = q /\ (\A k \in 1 .. q : s[k] = b[k])
        /\ t \in Seq(Byte) /\ Len(t) = n /\ (\A k \in 1 .. n : t[k] = b[k])
        /\ n \in Nat /\ Len(u) \in Nat /\ n = q + Len(u)
    OBVIOUS
  <1> HIDE DEF s, t, n
  <1>2. w \in Seq(Byte) /\ Len(w) = n
    <2>1. s \in Seq(Byte) /\ Len(s) = q /\ n = q + Len(u)
      BY <1>1
    <2> QED  BY SMTT(30), <2>1
  <1>3. ASSUME NEW k \in 1 .. n PROVE w[k] = t[k]
    <2>1. CASE k <= q
      BY <1>1, <2>1
    <2>2. CASE k > q
      <3> DEFINE j == k - q
      <3>1. j \in 1 .. Len(u) /\ q + j = k
        BY <1>1, <2>2
      <3>2. w[k] = u[j]
        BY <1>1, <2>2
      <3> QED  BY <1>1, <3>1, <3>2
    <2>3. k <= q \/ k > q
      BY <1>1
    <2> HIDE DEF w
    <2> QED  BY <2>1, <2>2, <2>3
  <1> HIDE DEF w
  <1>4. w = t
    BY <1>1, <1>2, <1>3
  <1> QED  BY <1>4 DEF w, s, t, n

\* Good bytes are those of the characters they encode.
LEMMA EncodeDecoded ==
  ASSUME NEW b, Good(b)
  PROVE  Encode(Decoded(b)) = b /\ Decoded(b) \in Seq(Unicode)
  <1>1. b \in Seq(Byte) /\ Len(b) \in Nat /\ Boundary(b, 0) /\ Boundary(b, Len(b))
    BY DEF Good, Boundary
  <1>2. PICK f : /\ f[0] = <<>> /\ Decoded(b) = f[Len(b)]
                 /\ \A k \in 1 .. Len(b) : f[k] = WithByte(f[k - 1], b[k])
    BY <1>1, DecodedStepwise
  <1> DEFINE P(p) == f[p] \in Seq(Unicode) /\ Encode(f[p]) = SubSeq(b, 1, p)
             T == {p \in 0 .. Len(b) : Boundary(b, p) /\ ~P(p)}
  <1>3. ASSUME T # {} PROVE FALSE
    <2>1. PICK p \in T : \A q \in T : p <= q
      <3>1. T \subseteq Nat
        OBVIOUS
      <3> HIDE DEF T
      <3> QED  BY <1>3, <3>1, Least
    <2>2. P(0)
      <3>1. SubSeq(b, 1, 0) = <<>> /\ <<>> \in Seq(Unicode)
        BY <1>1
      <3> QED  BY <1>2, <3>1, EncodeEmpty
    <2>3. p \in 1 .. Len(b) /\ Boundary(b, p) /\ ~P(p)
      BY <1>1, <2>1, <2>2
    <2> DEFINE q == Previous(b, p)
    <2>4. q \in 0 .. p - 1 /\ Boundary(b, q) /\ \A r \in q + 1 .. p - 1 : ~Boundary(b, r)
      BY <2>3, PreviousCharacter
    <2> HIDE DEF q
    <2>5. P(q)
      BY <1>1, <2>1, <2>3, <2>4
    <2>6. PICK c \in Unicode :
            LET u == g_unichar_to_utf8(c) IN
            /\ OneCharacter(u)
            /\ q + Len(u) \in q + 1 .. Len(b) /\ Boundary(b, q + Len(u))
            /\ \A j \in 1 .. Len(u) : b[q + j] = u[j]
            /\ \A r \in q + 1 .. q + Len(u) - 1 : ~Boundary(b, r)
      <3>1. q \in 0 .. Len(b) - 1
        BY <1>1, <2>3, <2>4
      <3> QED  BY <2>4, <3>1, CharacterAt
    <2> DEFINE u == g_unichar_to_utf8(c)
    <2>7. /\ u \in Seq(Byte) /\ Len(u) \in 1 .. 4
          /\ q + Len(u) \in q + 1 .. Len(b) /\ Boundary(b, q + Len(u))
          /\ \A j \in 1 .. Len(u) : b[q + j] = u[j]
          /\ \A r \in q + 1 .. q + Len(u) - 1 : ~Boundary(b, r)
      BY <2>6 DEF OneCharacter
    <2> HIDE DEF u, P
    <2>8. q + Len(u) = p
      <3>1. q \in Nat /\ p \in Nat /\ Len(u) \in Nat /\ q < p
        BY <2>3, <2>4, <2>7
      <3>2. ASSUME q + Len(u) < p PROVE FALSE
        <4>1. q + Len(u) \in q + 1 .. p - 1
          BY <2>7, <3>1, <3>2
        <4> QED  BY <2>4, <2>7, <4>1
      <3>3. ASSUME p < q + Len(u) PROVE FALSE
        <4>1. p \in q + 1 .. q + Len(u) - 1
          BY <2>7, <3>1, <3>3
        <4> QED  BY <2>3, <2>7, <4>1
      <3> QED  BY <3>1, <3>2, <3>3
    <2>9. f[p] = Append(f[q], c)
      <3>1. ASSUME NEW j \in 1 .. Len(u) PROVE f[q + j] = WithByte(f[(q + j) - 1], u[j])
        <4>1. q + j \in 1 .. Len(b)
          BY <2>3, <2>4, <2>7, <2>8
        <4> QED  BY <1>2, <2>7, <4>1
      <3>2. q \in Nat /\ f[q] \in Seq(Nat)
        <4>1. \A x \in Unicode : x \in Nat
          BY DEF Unicode
        <4>2. f[q] \in Seq(Unicode)
          BY <2>5 DEF P
        <4> QED  BY <2>4, <4>1, <4>2
      <3>3. f[q + Len(u)] = Append(f[q], c)
        BY <3>1, <3>2, CharacterDecoded DEF u
      <3> QED  BY <2>8, <3>3
    <2>10. P(p)
      <3>1. f[q] \in Seq(Unicode) /\ Encode(f[q]) = SubSeq(b, 1, q)
        BY <2>5 DEF P
      <3>2. Encode(f[p]) = SubSeq(b, 1, q) \o u
        BY <2>9, <3>1, EncodeAppend DEF u
      <3>3. SubSeq(b, 1, q) \o u = SubSeq(b, 1, q + Len(u))
        <4>1. q \in Nat /\ q + Len(u) <= Len(b)
          BY <1>1, <2>4, <2>7
        <4> QED  BY <1>1, <2>7, <4>1, Prolonged
      <3>4. f[p] \in Seq(Unicode)
        BY <2>9, <3>1
      <3> QED  BY <2>8, <3>2, <3>3, <3>4 DEF P
    <2> QED  BY <2>3, <2>10
  <1>4. P(Len(b))
    BY <1>1, <1>3
  <1>5. SubSeq(b, 1, Len(b)) = b
    BY <1>1
  <1> QED  BY <1>2, <1>4, <1>5

-----------------------------------------------------------------------------
(* The calls.                                                                *)

\* Both strings are good, and not longer than a std::string can be.
GoodStrings(strings) ==
  /\ strings \in [{"s", "t"} -> Seq(Byte)]
  /\ \A o \in {"s", "t"} : Good(strings[o]) /\ Len(strings[o]) < npos

(* The inductive invariant: characters one at a time in both strings, and an *)
(* iterator between them.                                                    *)
Inv ==
  /\ GoodStrings(str)
  /\ it = NoIter \/ \E p \in 0 .. Len(str.s) : it = [pos |-> p] /\ Boundary(str.s, p)

\* Every argument of every call is good, or an exception.
LEMMA SourceGood ==
  ASSUME GoodStrings(str), NEW src \in Sources \cup One
  PROVE  Good(ustring(src).b)
  <1> USE UstringAssumption
  <1>1. \A o \in {"s", "t"} : Good(str[o]) /\ Len(str[o]) < npos
    BY DEF GoodStrings
  <1>2. \A b : ok(b).b = b
    BY DEF ok
  <1>3. CASE src \in Whole
    <2>1. src.k = "ustring" /\ src.o \in {"s", "t"}
      BY <1>3 DEF Whole
    <2>2. ustring(src) = ok(str[src.o])
      BY <2>1 DEF ustring
    <2> QED  BY <1>1, <1>2, <2>1, <2>2
  <1>4. CASE src \in Sub
    <2>1. src.k = "sub" /\ src.o \in {"s", "t"} /\ src.i \in Nat /\ src.n \in Nat
      BY <1>4 DEF Sub
    <2> DEFINE b == str[src.o]
               bounds == Utf8SubstrBounds(b, src.i, src.n)
    <2>2. ustring(src) = std_sub(b, bounds.i, bounds.n)
      BY <2>1 DEF ustring
    <2>3. Good(b) /\ Len(b) < npos
      BY <1>1, <2>1
    <2> HIDE DEF b
    <2>4. Span(b, bounds.i, bounds.n)
      BY <2>1, <2>3, BoundsSpan
    <2> HIDE DEF bounds
    <2>5. Good(std_sub(b, bounds.i, bounds.n).b)
      BY <2>3, <2>4, SubGood
    <2> QED  BY <2>2, <2>5
  <1>5. CASE src \in CstrN
    <2>1. src.k = "cstrn" /\ src.s \in Literals /\ src.n \in Nat
      BY <1>5 DEF CstrN
    <2> DEFINE b == Encode(src.s)
    <2>2. ustring(src) = std_chars(b, utf8_byte_offset_cstr(b, src.n))
      BY <2>1 DEF ustring
    <2>3. Good(b) /\ Len(b) < npos
      BY <2>1, EncodeGood
    <2> HIDE DEF b
    <2>4. Good(std_chars(b, utf8_byte_offset_cstr(b, src.n)).b)
      BY <2>1, <2>3, CharsGood
    <2> QED  BY <2>2, <2>4
  <1>6. CASE src \in Many \cup One
    <2>1. src.k \in {"fill", "fillc"} /\ src.n \in Nat /\ src.uc \in Unicode
      <3>1. \A n \in Counts : n \in Nat
        OBVIOUS
      <3>2. \A uc \in Chars : uc \in Unicode
        OBVIOUS
      <3>3. src.k \in {"fill", "fillc"} /\ src.n \in Counts \cup {1} /\ src.uc \in Chars
        <4>1. CASE src \in Many
          BY <4>1 DEF Many
        <4>2. CASE src \in One
          BY <4>2 DEF One
        <4> QED  BY <1>6, <4>1, <4>2
      <3>4. 1 \in Nat
        OBVIOUS
      <3> QED  BY <3>1, <3>2, <3>3, <3>4, Zenon
    <2>2. ustring(src) = ok(fill(src.n, src.uc))
      BY <2>1 DEF ustring
    <2>3. Good(fill(src.n, src.uc))
      BY <2>1, FillGood
    <2> QED  BY <1>2, <2>2, <2>3
  <1>7. CASE src \in Cstr
    <2>1. src.k = "cstr" /\ src.s \in Seq(Unicode)
      BY <1>7 DEF Cstr
    <2>2. ustring(src) = ok(Encode(src.s))
      BY <2>1 DEF ustring
    <2> QED  BY <1>2, <2>1, <2>2, EncodeGood
  <1>8. CASE src \in Pairs
    <2>1. src.k = "range" /\ src.s \in Seq(Unicode)
      BY <1>8 DEF Pairs
    <2>2. ustring(src) = ok(Encode(src.s))
      BY <2>1 DEF ustring, SequenceToString
    <2> QED  BY <1>2, <2>1, <2>2, EncodeGood
  <1>9. src \in Whole \cup Sub \cup Cstr \cup CstrN \cup Many \cup Pairs \cup One
    BY DEF Sources
  <1> QED  BY <1>3, <1>4, <1>5, <1>6, <1>7, <1>8, <1>9

\* A call that puts good bytes into s, or throws.
LEMMA ChangeGood ==
  ASSUME GoodStrings(str), NEW c, NEW result, Good(result.b), Change(c, result)
  PROVE  /\ GoodStrings(str')
         /\ IF result.err = "none" THEN str'.s = result.b ELSE str' = str
  <1>1. Len(str'.s) < npos /\ Len(str'.t) < npos
    BY DEF Change, Fits
  <1>2. CASE result.err = "none"
    <2>1. str' = [str EXCEPT !.s = result.b]
      BY <1>2 DEF Change
    <2>2. result.b \in Seq(Byte)
      BY DEF Good
    <2>3. str' \in [{"s", "t"} -> Seq(Byte)] /\ str'.s = result.b /\ str'.t = str.t
      BY <2>1, <2>2 DEF GoodStrings
    <2>4. \A o \in {"s", "t"} : Good(str'[o]) /\ Len(str'[o]) < npos
      BY <1>1, <2>3 DEF GoodStrings
    <2> QED  BY <1>2, <2>3, <2>4 DEF GoodStrings
  <1>3. CASE result.err # "none"
    <2>1. str' = str
      BY <1>3 DEF Change
    <2> QED  BY <1>3, <2>1
  <1> QED  BY <1>2, <1>3

\* The same while no iterator is in use.
LEMMA ModifyGood ==
  ASSUME Inv, Idle, NEW c, NEW result, Good(result.b), Modify(c, result)
  PROVE  Inv'
  <1>1. GoodStrings(str') /\ it' = NoIter
    BY ChangeGood DEF Inv, Idle, Modify
  <1> QED  BY <1>1 DEF Inv, GoodStrings

\* A call that moves an iterator to a boundary.
LEMMA IterateGood ==
  ASSUME Inv, NEW op, NEW ret, NEW pos \in 0 .. Len(str.s), Boundary(str.s, pos), Iterate(op, ret, pos)
  PROVE  Inv'
  BY DEF Inv, Iterate

\* A call that changes nothing.
LEMMA AskKeeps ==
  ASSUME Inv, NEW c, NEW ret, Ask(c, ret)
  PROVE  Inv'
  BY DEF Inv, Ask

\* The results of the calls that change s, with arguments that are good.
LEMMA ResultsGood ==
  ASSUME Inv
  PROVE  /\ \A src \in Sources \cup One : Good(ustring(src).b) /\ Good(append(src).b)
         /\ \A i \in Positions, src \in Sources : Good(insert(i, src).b)
         /\ \A i \in Positions, n \in Counts, src \in Sources : Good(replace(i, n, src).b)
         /\ \A i \in Nat, n \in Nat : Good(erase(i, n).b)
  <1> DEFINE b == str.s
  <1>1. Good(b) /\ Len(b) < npos /\ Len(b) \in Nat /\ npos \in Nat
    BY DEF Inv, GoodStrings, Good, npos
  <1>2. Positions \subseteq Nat /\ Counts \subseteq Nat
    BY UstringAssumption
  <1>3. \A src \in Sources \cup One : Good(ustring(src).b)
    BY SourceGood DEF Inv
  <1>4. ASSUME NEW src \in Sources \cup One PROVE Good(append(src).b)
    <2> DEFINE arg == ustring(src)
    <2>1. Good(arg.b)
      BY <1>3
    <2>2. append(src) = IF arg.err = "none" THEN ok(b \o arg.b) ELSE arg
      BY DEF append
    <2> HIDE DEF arg
    <2>3. ok(b \o arg.b).b = b \o arg.b
      BY DEF ok
    <2>4. Good(b \o arg.b)
      BY <1>1, <2>1, ConcatGood
    <2> QED  BY <2>1, <2>2, <2>3, <2>4
  <1>5. ASSUME NEW i \in Positions, NEW src \in Sources PROVE Good(insert(i, src).b)
    <2> DEFINE at == utf8_byte_offset(b, i)
               arg == ustring(src)
    <2>1. at = npos \/ (at \in 0 .. Len(b) /\ Boundary(b, at))
      BY <1>1, <1>2, ByteOffset
    <2>2. insert(i, src) = std_replace(b, at, 0, arg)
      BY DEF insert
    <2>3. Good(arg.b)
      BY <1>3
    <2> HIDE DEF at, arg
    <2>4. Span(b, at, 0)
      <3>1. ASSUME at \in 0 .. Len(b) PROVE 0 \in 0 .. Len(b) - at /\ at + 0 = at
        BY <1>1, <3>1
      <3> QED  BY <2>1, <3>1 DEF Span
    <2> QED  BY <1>1, <2>2, <2>3, <2>4, ReplaceGood
  <1>6. ASSUME NEW i \in Nat, NEW n \in Nat, NEW arg, Good(arg.b)
        PROVE  Good(std_replace(b, Utf8SubstrBounds(b, i, n).i, Utf8SubstrBounds(b, i, n).n, arg).b)
    BY <1>1, <1>6, BoundsSpan, ReplaceGood
  <1>7. ASSUME NEW i \in Positions, NEW n \in Counts, NEW src \in Sources PROVE Good(replace(i, n, src).b)
    <2>1. Good(ustring(src).b) /\ i \in Nat /\ n \in Nat
      BY <1>2, <1>3
    <2> QED  BY <1>6, <2>1 DEF replace
  <1>8. ASSUME NEW i \in Nat, NEW n \in Nat PROVE Good(erase(i, n).b)
    <2>1. Good(ok(<<>>).b)
      BY EmptyGood DEF ok
    <2> QED  BY <1>6, <2>1 DEF erase
  <1> QED  BY <1>3, <1>4, <1>5, <1>7, <1>8

\* The text of a stream, if it can be converted.
LEMMA ConvertedGood ==
  ASSUME NEW text \in Seq(Unicode), NEW wide
  PROVE  Good(Converted(text, wide).b)
  <1>1. Good(ok(Encode(text)).b)
    BY EncodeGood DEF ok
  <1>2. Good(throw("ConvertError").b)
    BY EmptyGood DEF throw
  <1> QED  BY <1>1, <1>2 DEF Converted

\* Calls without an iterator that change the strings.
LEMMA ModificationsGood ==
  ASSUME Inv,
         \/ Construct \/ OperatorAssign \/ Assign \/ OperatorAppend \/ AppendText
         \/ Insert \/ Replace \/ Erase \/ Clear \/ Resize \/ OperatorPlus \/ Exchange
         \/ Extract \/ ExtractWide \/ Format
  PROVE  Inv'
  <1>1. /\ Whole \cup Cstr \cup One \subseteq Sources \cup One
        /\ Positions \subseteq Nat /\ Counts \subseteq Nat /\ 0 \in Nat /\ npos \in Nat
    BY UstringAssumption DEF Sources, npos
  <1>2. \A text \in Words : text \in Seq(Unicode)
    BY UstringAssumption
  <1>3. Good(str.s) /\ Good(str.t)
    BY DEF Inv, GoodStrings
  <1>4. CASE Construct
    BY <1>4, ResultsGood, ModifyGood DEF Construct
  <1>5. CASE OperatorAssign
    BY <1>1, <1>5, ResultsGood, ModifyGood DEF OperatorAssign
  <1>6. CASE Assign
    BY <1>6, ResultsGood, ModifyGood DEF Assign
  <1>7. CASE OperatorAppend
    BY <1>1, <1>7, ResultsGood, ModifyGood DEF OperatorAppend
  <1>8. CASE AppendText
    BY <1>8, ResultsGood, ModifyGood DEF AppendText
  <1>9. CASE Insert
    BY <1>9, ResultsGood, ModifyGood DEF Insert
  <1>10. CASE Replace
    BY <1>10, ResultsGood, ModifyGood DEF Replace
  <1>11. CASE Erase
    BY <1>1, <1>11, ResultsGood, ModifyGood DEF Erase
  <1>12. CASE Clear
    <2>1. Good(ok(<<>>).b)
      BY EmptyGood DEF ok
    <2> QED  BY <1>12, <2>1, ModifyGood DEF Clear
  <1>13. CASE Resize
    <2>1. PICK n \in 0 .. MaxChars, uc \in Chars :
                 Modify([op |-> "resize", n |-> n, uc |-> uc, ret |-> <<>>], resize(n, uc))
      BY <1>13 DEF Resize
    <2> DEFINE m == size(str.s)
    <2>2. n \in Nat /\ uc \in Unicode /\ m \in Nat
      BY <1>3, SizeNatural, UstringAssumption
    <2>3. Good(resize(n, uc).b)
      <3>1. resize(n, uc) = IF n < m THEN erase(n, npos)
                            ELSE IF n > m THEN ok(str.s \o fill(n - m, uc)) ELSE ok(str.s)
        BY DEF resize
      <3> HIDE DEF m
      <3>2. CASE n < m
        BY <1>1, <2>2, <3>1, <3>2, ResultsGood
      <3>3. CASE ~(n < m) /\ n > m
        <4>1. n - m \in Nat
          BY <2>2, <3>3
        <4>2. Good(str.s \o fill(n - m, uc))
          BY <1>3, <2>2, <4>1, FillGood, ConcatGood
        <4>3. ok(str.s \o fill(n - m, uc)).b = str.s \o fill(n - m, uc)
          BY DEF ok
        <4> QED  BY <3>1, <3>3, <4>2, <4>3, Zenon
      <3>4. CASE ~(n < m) /\ ~(n > m)
        <4>1. ok(str.s).b = str.s
          BY DEF ok
        <4> QED  BY <1>3, <3>1, <3>4, <4>1, Zenon
      <3> QED  BY <3>2, <3>3, <3>4
    <2>4. Idle
      BY <1>13 DEF Resize
    <2> QED  BY <2>1, <2>3, <2>4, ModifyGood
  <1>14. CASE OperatorPlus
    <2>1. PICK lhs \in Whole \cup Cstr \cup One, rhs \in Whole \cup Cstr \cup One :
                 Modify([op |-> "plus", src |-> lhs, src2 |-> rhs, ret |-> <<>>],
                        ok(ustring(lhs).b \o ustring(rhs).b))
      BY <1>14 DEF OperatorPlus
    <2> DEFINE a == ustring(lhs).b
               b == ustring(rhs).b
    <2>2. Good(a) /\ Good(b)
      BY <1>1, ResultsGood
    <2>3. ok(a \o b).b = a \o b
      BY DEF ok
    <2>4. Good(ok(a \o b).b)
      <3> HIDE DEF a, b
      <3> QED  BY <2>2, <2>3, ConcatGood
    <2>5. Idle
      BY <1>14 DEF OperatorPlus
    <2> QED  BY <2>1, <2>4, <2>5, ModifyGood
  <1>15. CASE Exchange
    <2>1. it' = NoIter
      BY <1>15 DEF Exchange, Idle
    <2>2. /\ str.s \in Seq(Byte) /\ str.t \in Seq(Byte) /\ <<>> \in Seq(Byte) /\ Good(<<>>)
          /\ Len(str.s) < npos /\ Len(str.t) < npos /\ Len(<<>>) < npos
      BY <1>3, EmptyGood DEF Inv, GoodStrings, Good, npos
    <2>3. str' \in [{"s", "t"} -> {str.s, str.t, <<>>}]
      <3>1. str \in [{"s", "t"} -> Seq(Byte)]
        BY DEF Inv, GoodStrings
      <3>2. CASE str' = [s |-> str.t, t |-> str.s]
        BY <3>2
      <3>3. CASE str' = [s |-> str.t, t |-> <<>>]
        BY <3>3
      <3>4. CASE str' = [str EXCEPT !.s = <<>>]
        BY <3>1, <3>4
      <3> QED  BY <1>15, <3>2, <3>3, <3>4 DEF Exchange
    <2>4. GoodStrings(str')
      BY <1>3, <2>2, <2>3 DEF GoodStrings
    <2> QED  BY <2>1, <2>4 DEF Inv, GoodStrings
  <1>16. CASE Extract
    BY <1>2, <1>16, ConvertedGood, ModifyGood DEF Extract
  <1>17. CASE ExtractWide
    BY <1>2, <1>17, ConvertedGood, ModifyGood DEF ExtractWide
  <1>18. CASE Format
    <2>1. PICK first \in Words, second \in Words :
                 Modify(Extraction(first \o second, TRUE), Converted(first \o second, TRUE))
      BY <1>18 DEF Format
    <2>2. first \o second \in Seq(Unicode)
      BY <1>2
    <2>3. Idle
      BY <1>18 DEF Format
    <2> QED  BY <2>1, <2>2, <2>3, ConvertedGood, ModifyGood
  <1> QED  BY <1>4, <1>5, <1>6, <1>7, <1>8, <1>9, <1>10, <1>11, <1>12, <1>13, <1>14, <1>15,
              <1>16, <1>17, <1>18

\* An iterator that can be dereferenced goes to the next boundary.
LEMMA NextCharacter ==
  ASSUME NEW b, Good(b), NEW p \in 0 .. Len(b) - 1, Boundary(b, p)
  PROVE  Increment(b, p) \in p + 1 .. Len(b) /\ Boundary(b, Increment(b, p))
  <1>1. PICK c \in Unicode :
          LET u == g_unichar_to_utf8(c) IN
          /\ OneCharacter(u)
          /\ p + Len(u) \in p + 1 .. Len(b) /\ Boundary(b, p + Len(u))
          /\ \A j \in 1 .. Len(u) : b[p + j] = u[j]
          /\ \A q \in p + 1 .. p + Len(u) - 1 : ~Boundary(b, q)
    BY CharacterAt
  <1> DEFINE u == g_unichar_to_utf8(c)
  <1>2. Len(u) = g_utf8_skip(u[1]) /\ 1 \in 1 .. Len(u)
    BY <1>1 DEF OneCharacter
  <1>3. p + Len(u) \in p + 1 .. Len(b) /\ Boundary(b, p + Len(u)) /\ b[p + 1] = u[1]
    BY <1>1, <1>2
  <1> HIDE DEF u
  <1>4. Increment(b, p) = p + Len(u)
    BY <1>2, <1>3 DEF Increment
  <1> QED  BY <1>3, <1>4

\* Where an iterator is.
LEMMA IteratorPlace ==
  ASSUME Inv, Iterating
  PROVE  it = [pos |-> it.pos] /\ it.pos \in 0 .. Len(str.s) /\ Boundary(str.s, it.pos)
  <1>1. PICK p \in 0 .. Len(str.s) : it = [pos |-> p] /\ Boundary(str.s, p)
    BY DEF Inv, Iterating
  <1> QED  BY <1>1

\* Iterators are created and moved between boundaries.
LEMMA IterationsGood ==
  ASSUME Inv,
         \/ begin \/ end \/ OperatorIncrement \/ OperatorDecrement \/ OperatorDereference
         \/ CompareIterators \/ Validate \/ DropIterator
  PROVE  Inv'
  <1>1. Good(str.s) /\ Len(str.s) \in Nat /\ Boundary(str.s, 0) /\ Boundary(str.s, Len(str.s))
    BY DEF Inv, GoodStrings, Good, Boundary
  <1>2. CASE begin
    <2>1. 0 \in 0 .. Len(str.s)
      BY <1>1
    <2> QED  BY <1>1, <1>2, <2>1, IterateGood DEF begin
  <1>3. CASE end
    <2>1. Len(str.s) \in 0 .. Len(str.s)
      BY <1>1
    <2> QED  BY <1>1, <1>3, <2>1, IterateGood DEF end
  <1>4. CASE OperatorIncrement
    <2>1. Iterating /\ it.pos < Len(str.s)
      BY <1>4 DEF OperatorIncrement
    <2>2. it.pos \in 0 .. Len(str.s) - 1 /\ Boundary(str.s, it.pos)
      BY <1>1, <2>1, IteratorPlace
    <2>3. Increment(str.s, it.pos) \in 0 .. Len(str.s) /\ Boundary(str.s, Increment(str.s, it.pos))
      BY <1>1, <2>2, NextCharacter
    <2> QED  BY <1>4, <2>3, IterateGood DEF OperatorIncrement
  <1>5. CASE OperatorDecrement
    <2>1. Iterating /\ it.pos > 0
      BY <1>5 DEF OperatorDecrement
    <2>2. it.pos \in 1 .. Len(str.s) /\ Boundary(str.s, it.pos)
      BY <1>1, <2>1, IteratorPlace
    <2>3. Decrement(str.s, it.pos) \in 0 .. it.pos - 1 /\ Boundary(str.s, Decrement(str.s, it.pos))
      BY <1>1, <2>2, PreviousCharacter DEF Decrement
    <2>4. Decrement(str.s, it.pos) \in 0 .. Len(str.s)
      BY <1>1, <2>2, <2>3
    <2> QED  BY <1>5, <2>3, <2>4, IterateGood DEF OperatorDecrement
  <1>6. CASE OperatorDereference
    <2>1. it.pos \in 0 .. Len(str.s) /\ Boundary(str.s, it.pos)
      BY <1>6, IteratorPlace DEF OperatorDereference
    <2> QED  BY <1>6, <2>1, IterateGood DEF OperatorDereference
  <1>7. CASE CompareIterators
    <2>1. it.pos \in 0 .. Len(str.s) /\ Boundary(str.s, it.pos)
      BY <1>7, IteratorPlace DEF CompareIterators
    <2> QED  BY <1>7, <2>1, IterateGood DEF CompareIterators
  <1>8. CASE Validate
    <2>1. PICK m \in 0 .. Len(str.s) : c_str(str.s) = SubSeq(str.s, 1, m) /\ Boundary(str.s, m)
      BY <1>1, CStringCut
    <2>2. g_utf8_validate(str.s).valid_end = m
      <3>1. g_utf8_validate(str.s).valid_end = Len(c_str(str.s))
        BY DEF g_utf8_validate
      <3>2. str.s \in Seq(Byte)
        BY <1>1 DEF Good
      <3>3. Len(SubSeq(str.s, 1, m)) = m
        BY <1>1, <3>2
      <3> QED  BY <2>1, <3>1, <3>3
    <2>3. Iterate("validate", <<"bools", g_utf8_validate(str.s).ok>>, g_utf8_validate(str.s).valid_end)
      BY <1>8 DEF Validate
    <2> QED  BY <2>1, <2>2, <2>3, IterateGood
  <1>9. CASE DropIterator
    BY <1>9 DEF DropIterator, Inv
  <1> QED  BY <1>2, <1>3, <1>4, <1>5, <1>6, <1>7, <1>8, <1>9

\* A change at an iterator, from which the caller gets another one, or none.
LEMMA EditAtGood ==
  ASSUME Inv, NEW op, NEW src, NEW i, NEW n, NEW arg, NEW iter, Span(str.s, i, n), Good(arg.b),
         EditAt(op, src, std_replace(str.s, i, n, arg), iter),
         \/ iter = NoIter
         \/ arg.err = "none" /\ i \in 0 .. Len(str.s) /\ iter = [pos |-> i]
  PROVE  Inv'
  <1> DEFINE r == std_replace(str.s, i, n, arg)
  <1>1. Good(str.s) /\ Len(str.s) < npos
    BY DEF Inv, GoodStrings
  <1>2. Good(r.b) /\ (r.err = "none" /\ i \in 0 .. Len(str.s) => Boundary(r.b, i))
    BY <1>1, ReplaceGood
  <1>3. arg.err = "none" /\ i \in 0 .. Len(str.s) => r.err = "none"
    <2>1. ASSUME arg.err = "none", i \in 0 .. Len(str.s) PROVE ~(i > Len(str.s))
      BY <1>1, <2>1 DEF Good
    <2>2. ASSUME arg.err = "none", ~(i > Len(str.s))
          PROVE  r = ok(SubSeq(str.s, 1, i) \o arg.b \o SubSeq(str.s, i + n + 1, Len(str.s)))
      BY <2>2 DEF std_replace
    <2>3. \A w : ok(w).err = "none"
      BY DEF ok
    <2> HIDE DEF r
    <2> QED  BY <2>1, <2>2, <2>3
  <1>4. Change(Edit(op, 0, 0, src), r) /\ it' = iter
    BY DEF EditAt
  <1> HIDE DEF r
  <1>5. /\ GoodStrings(str')
        /\ IF r.err = "none" THEN str'.s = r.b ELSE str' = str
    BY <1>2, <1>4, ChangeGood DEF Inv
  <1>6. CASE iter = NoIter
    BY <1>4, <1>5, <1>6 DEF Inv, GoodStrings
  <1>7. CASE arg.err = "none" /\ i \in 0 .. Len(str.s) /\ iter = [pos |-> i]
    <2>1. str'.s = r.b /\ Boundary(r.b, i)
      BY <1>2, <1>3, <1>5, <1>7
    <2>2. i \in 0 .. Len(str'.s) /\ Boundary(str'.s, i)
      BY <2>1 DEF Boundary
    <2> QED  BY <1>4, <1>5, <1>7, <2>2 DEF Inv, GoodStrings
  <1> QED  BY <1>6, <1>7

\* Changes at an iterator keep the string well formed, and the iterator at a boundary.
LEMMA EditsGood ==
  ASSUME Inv, InsertAtIterator \/ EraseAtIterator \/ ReplaceAtIterator
  PROVE  Inv'
  <1> DEFINE b == str.s
             p == it.pos
  <1>1. /\ it = [pos |-> p] /\ p \in 0 .. Len(b) /\ Boundary(b, p)
        /\ Good(b) /\ Len(b) \in Nat /\ Boundary(b, 0) /\ Boundary(b, Len(b))
    <2>1. Iterating
      BY DEF InsertAtIterator, EraseAtIterator, ReplaceAtIterator
    <2> QED  BY <2>1, IteratorPlace DEF Inv, GoodStrings, Good, Boundary
  <1>2. \A src \in Sources \cup One : Good(ustring(src).b)
    BY ResultsGood
  <1>3. Span(b, p, 0) /\ Span(b, p, Len(b) - p) /\ Span(b, 0, p)
    <2>1. /\ 0 \in 0 .. Len(b) - p /\ p + 0 = p
          /\ Len(b) - p \in 0 .. Len(b) - p /\ p + (Len(b) - p) = Len(b)
          /\ 0 \in 0 .. Len(b) /\ p \in 0 .. Len(b) - 0 /\ 0 + p = p
      BY <1>1
    <2> QED  BY <1>1, <2>1 DEF Span
  <1>4. ok(<<>>).err = "none" /\ Good(ok(<<>>).b)
    BY EmptyGood DEF ok
  <1>5. Many \cup Pairs \cup Whole \cup Cstr \cup CstrN \subseteq Sources
    BY DEF Sources
  <1>6. CASE InsertAtIterator
    <2>1. CASE \E src \in One : EditAt("insert1", src, std_replace(b, p, 0, ustring(src)), it)
      <3>1. PICK src \in One : EditAt("insert1", src, std_replace(b, p, 0, ustring(src)), it)
        BY <2>1
      <3>2. ustring(src).err = "none"
        <4>1. src.k \in {"fill", "fillc"}
          BY DEF One
        <4>2. ustring(src) = ok(fill(src.n, src.uc))
          BY <4>1 DEF ustring
        <4>3. \A w : ok(w).err = "none"
          BY DEF ok
        <4> QED  BY <4>2, <4>3
      <3> HIDE DEF b, p
      <3>3. Good(ustring(src).b)
        BY <1>2
      <3> QED  BY <1>1, <1>3, <3>1, <3>2, <3>3, EditAtGood DEF b, p
    <2>2. CASE \E src \in Many \cup Pairs :
                 EditAt("insertn", src, std_replace(b, p, 0, ustring(src)), NoIter)
      <3>1. PICK src \in Many \cup Pairs :
                   EditAt("insertn", src, std_replace(b, p, 0, ustring(src)), NoIter)
        BY <2>2
      <3>2. Good(ustring(src).b)
        BY <1>2, <1>5
      <3> QED  BY <1>3, <3>1, <3>2, EditAtGood
    <2> QED  BY <1>6, <2>1, <2>2 DEF InsertAtIterator
  <1>7. CASE EraseAtIterator
    <2>1. CASE /\ p < Len(b)
               /\ EditAt("erase1", NoText, std_replace(b, p, Increment(b, p) - p, ok(<<>>)), it)
      <3>1. p \in 0 .. Len(b) - 1
        BY <1>1, <2>1
      <3>2. Increment(b, p) \in p + 1 .. Len(b) /\ Boundary(b, Increment(b, p))
        BY <1>1, <3>1, NextCharacter
      <3>3. Span(b, p, Increment(b, p) - p)
        <4> DEFINE q == Increment(b, p)
        <4> HIDE DEF q, b, p
        <4>1. q - p \in 0 .. Len(b) - p /\ p + (q - p) = q
          BY <1>1, <3>1, <3>2 DEF q
        <4> QED  BY <1>1, <3>2, <4>1 DEF Span, q
      <3> QED  BY <1>1, <1>4, <2>1, <3>3, EditAtGood
    <2>2. CASE EditAt("erase_from", NoText, std_replace(b, p, Len(b) - p, ok(<<>>)), it)
      BY <1>1, <1>3, <1>4, <2>2, EditAtGood
    <2>3. CASE EditAt("erase_to", NoText, std_replace(b, 0, p, ok(<<>>)), [pos |-> 0])
      <3>1. 0 \in 0 .. Len(b)
        BY <1>1
      <3> QED  BY <1>3, <1>4, <2>3, <3>1, EditAtGood
    <2> QED  BY <1>7, <2>1, <2>2, <2>3 DEF EraseAtIterator
  <1>8. CASE ReplaceAtIterator
    <2>1. PICK src \in Whole \cup Cstr \cup CstrN \cup Many \cup Pairs :
            \/ EditAt("replace_from", src, std_replace(b, p, Len(b) - p, ustring(src)), NoIter)
            \/ EditAt("replace_to", src, std_replace(b, 0, p, ustring(src)), NoIter)
      BY <1>8 DEF ReplaceAtIterator
    <2>2. Good(ustring(src).b)
      BY <1>2, <1>5
    <2> HIDE DEF b, p
    <2> QED  BY <1>3, <2>1, <2>2, EditAtGood DEF b, p
  <1> QED  BY <1>6, <1>7, <1>8

\* Calls that change nothing.
LEMMA QueriesGood ==
  ASSUME Inv,
         \/ Find \/ FindChar \/ FindFirstOf \/ FindLastOf \/ FindFirstNotOf \/ FindLastNotOf
         \/ FindNotChar \/ Index \/ Sizes \/ Tests \/ Copy \/ Compare \/ Relational \/ MakeValid
         \/ Output \/ OutputWide \/ Compose \/ Uppercase \/ Sprintf
  PROVE  Inv'
  <1>1. CASE Find
    BY <1>1, AskKeeps DEF Find
  <1>2. CASE FindChar
    BY <1>2, AskKeeps DEF FindChar
  <1>3. CASE FindFirstOf
    BY <1>3, AskKeeps DEF FindFirstOf
  <1>4. CASE FindLastOf
    BY <1>4, AskKeeps DEF FindLastOf
  <1>5. CASE FindFirstNotOf
    BY <1>5, AskKeeps DEF FindFirstNotOf
  <1>6. CASE FindLastNotOf
    BY <1>6, AskKeeps DEF FindLastNotOf
  <1>7. CASE FindNotChar
    BY <1>7, AskKeeps DEF FindNotChar
  <1>8. CASE Index
    BY <1>8, AskKeeps DEF Index
  <1>9. CASE Sizes
    BY <1>9, AskKeeps DEF Sizes
  <1>10. CASE Tests
    BY <1>10, AskKeeps DEF Tests
  <1>11. CASE Copy
    BY <1>11, AskKeeps DEF Copy
  <1>12. CASE Compare
    BY <1>12, AskKeeps DEF Compare
  <1>13. CASE Relational
    BY <1>13, AskKeeps DEF Relational
  <1>14. CASE MakeValid
    BY <1>14, AskKeeps DEF MakeValid
  <1>15. CASE Output
    BY <1>15, AskKeeps DEF Output
  <1>16. CASE OutputWide
    BY <1>16, AskKeeps DEF OutputWide
  <1>17. CASE Compose
    BY <1>17, AskKeeps DEF Compose
  <1>18. CASE Uppercase
    BY <1>18, AskKeeps DEF Uppercase
  <1>19. CASE Sprintf
    BY <1>19, AskKeeps DEF Sprintf
  <1> QED  BY <1>1, <1>2, <1>3, <1>4, <1>5, <1>6, <1>7, <1>8, <1>9, <1>10, <1>11, <1>12, <1>13,
              <1>14, <1>15, <1>16, <1>17, <1>18, <1>19

-----------------------------------------------------------------------------
\* What the invariant is for.
LEMMA InvValid ==
  ASSUME Inv
  PROVE  Utf8Valid
  <1>1. \A o \in {"s", "t"} : Good(str[o])
    BY DEF Inv, GoodStrings
  <1>2. DOMAIN str = {"s", "t"}
    BY DEF Inv, GoodStrings
  <1>3. ASSUME NEW o \in {"s", "t"}
        PROVE  /\ Range(str[o]) \subseteq 0 .. 255
               /\ str[o] # <<>> => 1 \in Leads(str[o])
               /\ Encode(Decoded(str[o])) = str[o]
    <2> DEFINE b == str[o]
    <2>1. b \in Seq(Byte) /\ Boundary(b, 0) /\ Encode(Decoded(b)) = b
      BY <1>1, EncodeDecoded DEF Good
    <2> HIDE DEF b
    <2>2. Range(b) \subseteq 0 .. 255
      <3>1. \A i \in DOMAIN b : b[i] \in 0 .. 255
        <4>1. b \in Seq(Byte)
          BY <2>1
        <4>2. ASSUME NEW i \in DOMAIN b PROVE b[i] \in Byte
          <5>1. DOMAIN b = 1 .. Len(b) /\ b \in [1 .. Len(b) -> Byte]
            BY <4>1
          <5> QED  BY <5>1, Zenon
        <4> QED  BY <4>2, Zenon DEF Byte
      <3>2. Range(b) = {b[i] : i \in DOMAIN b}
        BY Zenon DEF Range
      <3> QED  BY <3>1, <3>2, Zenon
    <2>3. ASSUME b # <<>> PROVE 1 \in Leads(b)
      <3>1. 0 < Len(b) /\ 1 \in DOMAIN b
        BY <2>1, <2>3
      <3> QED  BY <2>1, <3>1 DEF Leads, Boundary
    <2> QED  BY <2>1, <2>2, <2>3 DEF b
  <1>4. /\ it = NoIter \/ it.pos \in 0 .. Len(str.s)
        /\ it # NoIter => it.pos = Len(str.s) \/ it.pos + 1 \in Leads(str.s)
    <2> SUFFICES ASSUME it # NoIter
                 PROVE  it.pos \in 0 .. Len(str.s) /\ (it.pos = Len(str.s) \/ it.pos + 1 \in Leads(str.s))
      OBVIOUS
    <2>1. PICK p \in 0 .. Len(str.s) : it = [pos |-> p] /\ Boundary(str.s, p)
      BY DEF Inv
    <2>2. str.s \in Seq(Byte)
      BY <1>1 DEF Good
    <2>3. p = Len(str.s) \/ p + 1 \in Leads(str.s)
      BY <2>1, <2>2 DEF Boundary, Leads
    <2> QED  BY <2>1, <2>3
  <1> QED  BY ZenonT(40), <1>2, <1>3, <1>4 DEF Utf8Valid, TypeOK

(* Two empty strings and no iterator. *)
LEMMA InitialInv ==
  ASSUME Init
  PROVE  Inv
  <1>1. Len(<<>>) < npos /\ <<>> \in Seq(Byte)
    BY DEF npos
  <1>2. str = [o \in {"s", "t"} |-> <<>>] /\ it = NoIter
    BY DEF Init
  <1>3. str \in [{"s", "t"} -> Seq(Byte)]
    BY <1>1, <1>2
  <1>4. \A o \in {"s", "t"} : str[o] = <<>>
    BY <1>2
  <1>5. \A o \in {"s", "t"} : Good(str[o]) /\ Len(str[o]) < npos
    BY <1>1, <1>4, EmptyGood
  <1> QED  BY <1>2, <1>3, <1>5, Zenon DEF Inv, GoodStrings

(* Every operation keeps the strings well formed. *)
LEMMA NextInv ==
  ASSUME Inv, [Next]_vars
  PROVE  Inv'
  <1>1. CASE \/ Construct \/ OperatorAssign \/ Assign \/ OperatorAppend \/ AppendText
             \/ Insert \/ Replace \/ Erase \/ Clear \/ Resize \/ OperatorPlus \/ Exchange
             \/ Extract \/ ExtractWide \/ Format
    BY <1>1, ModificationsGood
  <1>2. CASE \/ begin \/ end \/ OperatorIncrement \/ OperatorDecrement \/ OperatorDereference
             \/ CompareIterators \/ Validate \/ DropIterator
    BY <1>2, IterationsGood
  <1>3. CASE InsertAtIterator \/ EraseAtIterator \/ ReplaceAtIterator
    BY <1>3, EditsGood
  <1>4. CASE \/ Find \/ FindChar \/ FindFirstOf \/ FindLastOf \/ FindFirstNotOf \/ FindLastNotOf
             \/ FindNotChar \/ Index \/ Sizes \/ Tests \/ Copy \/ Compare \/ Relational \/ MakeValid
             \/ Output \/ OutputWide \/ Compose \/ Uppercase \/ Sprintf
    BY <1>4, QueriesGood
  <1>5. CASE Return
    BY <1>5 DEF Return, Inv
  <1>6. CASE UNCHANGED vars
    BY <1>6 DEF vars, Inv
  <1> QED  BY <1>1, <1>2, <1>3, <1>4, <1>5, <1>6, Zenon DEF Next

(* Whatever is done with strings, positions, counts and iterators, both      *)
(* strings are valid UTF-8 after every call, and an iterator is between two  *)
(* characters.                                                               *)
THEOREM ValidUtf8 == Spec => []Utf8Valid
  <1>1. Init => Inv
    BY InitialInv
  <1>2. Inv /\ [Next]_vars => Inv'
    BY NextInv
  <1> QED  BY <1>1, <1>2, InvValid, PTL DEF Spec

-----------------------------------------------------------------------------
(* Characters and their bytes.                                               *)

Texts == Seq(Unicode)

\* A text is encoded in bytes.
LEMMA EncodeBytes ==
  ASSUME NEW cs \in Texts
  PROVE  Encode(cs) \in Seq(Byte) /\ Len(Encode(cs)) \in Nat
  BY EncodeGood DEF Texts, Good

\* The bytes of two texts one behind the other.
LEMMA EncodeConcat ==
  ASSUME NEW cs \in Texts, NEW ds \in Texts
  PROVE  Encode(cs \o ds) = Encode(cs) \o Encode(ds)
  <1> DEFINE part(i) == SubSeq(ds, 1, i)
             S == {i \in 0 .. Len(ds) : Encode(cs \o part(i)) = Encode(cs) \o Encode(part(i))}
  <1>1. Len(ds) \in Nat
    BY DEF Texts
  <1>2. 0 \in S
    <2>1. part(0) = <<>>
      BY SubSeqEmpty
    <2>2. cs \o <<>> = cs /\ Encode(cs) \o <<>> = Encode(cs)
      BY EncodeBytes DEF Texts
    <2>3. Encode(cs \o part(0)) = Encode(cs) \o Encode(part(0))
      <3> HIDE DEF part
      <3> QED  BY <2>1, <2>2, EncodeEmpty
    <2> HIDE DEF part
    <2> QED  BY <1>1, <2>3
  <1>3. ASSUME NEW i \in 1 .. Len(ds), i - 1 \in S PROVE i \in S
    <2>1. /\ part(i - 1) \in Seq(Unicode) /\ ds[i] \in Unicode
          /\ part(i) = Append(part(i - 1), ds[i])
      BY <1>1 DEF Texts
    <2> DEFINE p == part(i - 1)
               u == g_unichar_to_utf8(ds[i])
    <2>2. Encode(cs \o p) = Encode(cs) \o Encode(p)
      BY <1>3
    <2>3. p \in Seq(Unicode) /\ part(i) = Append(p, ds[i]) /\ cs \o p \in Seq(Unicode)
      BY <2>1 DEF Texts
    <2> HIDE DEF p
    <2>4. cs \o Append(p, ds[i]) = Append(cs \o p, ds[i])
      BY <2>1, <2>3 DEF Texts
    <2>5. /\ Encode(Append(p, ds[i])) = Encode(p) \o u
          /\ Encode(Append(cs \o p, ds[i])) = Encode(cs \o p) \o u
      BY <2>1, <2>3, EncodeAppend
    <2>6. u \in Seq(Byte) /\ Encode(cs) \in Seq(Byte) /\ Encode(p) \in Seq(Byte)
      BY <2>1, <2>3, CharacterEncoded, EncodeBytes DEF OneCharacter, Texts
    <2> HIDE DEF u
    <2>7. (Encode(cs) \o Encode(p)) \o u = Encode(cs) \o (Encode(p) \o u)
      BY <2>6, ConcatAssociative
    <2>8. Encode(cs \o part(i)) = Encode(cs) \o Encode(part(i))
      BY <2>2, <2>3, <2>4, <2>5, <2>7
    <2> HIDE DEF part
    <2> QED  BY <1>3, <2>8
  <1> HIDE DEF S
  <1>4. \A i \in 0 .. Len(ds) : i \in S
    BY <1>1, <1>2, <1>3, Induction
  <1>5. part(Len(ds)) = ds
    BY DEF Texts
  <1> HIDE DEF part
  <1>6. Encode(cs \o part(Len(ds))) = Encode(cs) \o Encode(part(Len(ds)))
    BY <1>1, <1>4 DEF S
  <1> QED  BY <1>5, <1>6

\* A text cut in two, and in three.
LEMMA TextCut ==
  ASSUME NEW cs \in Texts, NEW i \in 0 .. Len(cs), NEW j \in i .. Len(cs)
  PROVE  /\ SubSeq(cs, 1, i) \in Texts /\ SubSeq(cs, i + 1, j) \in Texts
         /\ SubSeq(cs, j + 1, Len(cs)) \in Texts
         /\ Len(SubSeq(cs, 1, i)) = i /\ Len(SubSeq(cs, i + 1, j)) = j - i
         /\ Len(SubSeq(cs, j + 1, Len(cs))) = Len(cs) - j
         /\ SubSeq(cs, 1, i) \o SubSeq(cs, i + 1, j) = SubSeq(cs, 1, j)
         /\ SubSeq(cs, i + 1, j) \o SubSeq(cs, j + 1, Len(cs)) = SubSeq(cs, i + 1, Len(cs))
         /\ SubSeq(cs, 1, j) \o SubSeq(cs, j + 1, Len(cs)) = cs
  <1>1. cs \in Seq(Unicode) /\ Len(cs) \in Nat
    BY DEF Texts
  <1>2. /\ SubSeq(cs, 1, i) \in Seq(Unicode) /\ SubSeq(cs, i + 1, j) \in Seq(Unicode)
        /\ SubSeq(cs, j + 1, Len(cs)) \in Seq(Unicode)
    BY <1>1
  <1>3. /\ Len(SubSeq(cs, 1, i)) = i /\ Len(SubSeq(cs, i + 1, j)) = j - i
        /\ Len(SubSeq(cs, j + 1, Len(cs))) = Len(cs) - j
    BY <1>1
  <1>4. SubSeq(cs, 1, i) \o SubSeq(cs, i + 1, j) = SubSeq(cs, 1, j)
    <2>1. 1 \in 1 .. Len(cs) + 1 /\ i \in 1 - 1 .. Len(cs) /\ j \in i .. Len(cs)
      BY <1>1
    <2> QED  BY <1>1, <2>1, ConcatAdjacentSubSeq
  <1>5. SubSeq(cs, i + 1, j) \o SubSeq(cs, j + 1, Len(cs)) = SubSeq(cs, i + 1, Len(cs))
    <2>1. i + 1 \in 1 .. Len(cs) + 1 /\ j \in (i + 1) - 1 .. Len(cs) /\ Len(cs) \in j .. Len(cs)
      BY <1>1
    <2> QED  BY <1>1, <2>1, ConcatAdjacentSubSeq
  <1>6. SubSeq(cs, 1, j) \o SubSeq(cs, j + 1, Len(cs)) = cs
    <2>1. 1 \in 1 .. Len(cs) + 1 /\ j \in 1 - 1 .. Len(cs) /\ Len(cs) \in j .. Len(cs)
      BY <1>1
    <2>2. SubSeq(cs, 1, Len(cs)) = cs
      BY <1>1, SubSeqFull
    <2> QED  BY <1>1, <2>1, <2>2, ConcatAdjacentSubSeq
  <1> QED  BY <1>2, <1>3, <1>4, <1>5, <1>6 DEF Texts

\* Where the character number k (from 0) starts.
Offset(cs, k) == Len(Encode(SubSeq(cs, 1, k)))

\* The bytes of the characters between two of them.
LEMMA SliceEncoded ==
  ASSUME NEW cs \in Texts, NEW i \in 0 .. Len(cs), NEW j \in i .. Len(cs)
  PROVE  /\ Offset(cs, i) \in Nat /\ Offset(cs, j) \in Nat
         /\ Offset(cs, j) = Offset(cs, i) + Len(Encode(SubSeq(cs, i + 1, j)))
         /\ Offset(cs, j) <= Len(Encode(cs))
         /\ SubSeq(Encode(cs), Offset(cs, i) + 1, Offset(cs, j)) = Encode(SubSeq(cs, i + 1, j))
  <1> DEFINE x == SubSeq(cs, 1, i)
             y == SubSeq(cs, i + 1, j)
             z == SubSeq(cs, j + 1, Len(cs))
  <1>1. /\ x \in Texts /\ y \in Texts /\ z \in Texts
        /\ x \o y = SubSeq(cs, 1, j) /\ SubSeq(cs, 1, j) \o z = cs
    BY TextCut
  <1> HIDE DEF x, y, z
  <1> DEFINE a == Encode(x)
             b == Encode(y)
             c == Encode(z)
  <1>2. a \in Seq(Byte) /\ b \in Seq(Byte) /\ c \in Seq(Byte)
    BY <1>1, EncodeBytes
  <1>3. Encode(SubSeq(cs, 1, j)) = a \o b
    BY <1>1, EncodeConcat
  <1>4. x \o y \in Texts
    BY <1>1 DEF Texts
  <1>5. Encode(cs) = (a \o b) \o c
    BY <1>1, <1>3, <1>4, EncodeConcat, ZenonT(40)
  <1> HIDE DEF a, b, c
  <1>6. Offset(cs, i) = Len(a) /\ Offset(cs, j) = Len(a \o b)
    BY <1>3 DEF Offset, a, x
  <1>7. /\ Len(a) \in Nat /\ Len(a \o b) \in Nat /\ Len(a \o b) = Len(a) + Len(b)
        /\ Len(a \o b) <= Len((a \o b) \o c)
    BY <1>2
  <1>8. SubSeq((a \o b) \o c, Len(a) + 1, Len(a \o b)) = b
    BY <1>2
  <1> QED  BY <1>5, <1>6, <1>7, <1>8 DEF b, y

\* The first and the last offset.
LEMMA OffsetEnds ==
  ASSUME NEW cs \in Texts
  PROVE  Offset(cs, 0) = 0 /\ Offset(cs, Len(cs)) = Len(Encode(cs))
  <1>1. SubSeq(cs, 1, 0) = <<>> /\ SubSeq(cs, 1, Len(cs)) = cs
    BY DEF Texts
  <1>2. Len(<<>>) = 0
    OBVIOUS
  <1> QED  BY <1>1, <1>2, EncodeEmpty, Zenon DEF Offset

\* A character and its bytes.
LEMMA OneEncoded ==
  ASSUME NEW c \in Unicode
  PROVE  Encode(<<c>>) = g_unichar_to_utf8(c)
  <1>1. <<c>> = Append(<<>>, c) /\ <<>> \in Seq(Unicode)
    OBVIOUS
  <1>2. g_unichar_to_utf8(c) \in Seq(Byte)
    BY CharacterEncoded DEF OneCharacter
  <1>3. <<>> \o g_unichar_to_utf8(c) = g_unichar_to_utf8(c)
    BY <1>2
  <1> QED  BY <1>1, <1>3, EncodeAppend, EncodeEmpty

\* The bytes of a text from the offset of a character on.
LEMMA CharacterOf ==
  ASSUME NEW cs \in Texts, NEW k \in 1 .. Len(cs)
  PROVE  LET u == g_unichar_to_utf8(cs[k]) IN
         /\ cs[k] \in Unicode /\ OneCharacter(u)
         /\ Offset(cs, k - 1) \in Nat /\ Offset(cs, k) = Offset(cs, k - 1) + Len(u)
         /\ Offset(cs, k) <= Len(Encode(cs))
         /\ \A j \in 1 .. Len(u) : Encode(cs)[Offset(cs, k - 1) + j] = u[j]
  <1> DEFINE u == g_unichar_to_utf8(cs[k])
             p == Offset(cs, k - 1)
  <1>1. cs[k] \in Unicode /\ Len(cs) \in Nat
    BY DEF Texts
  <1>2. k - 1 \in 0 .. Len(cs) /\ k \in (k - 1) .. Len(cs) /\ (k - 1) + 1 = k
    BY <1>1
  <1>3. SubSeq(cs, k, k) = <<cs[k]>>
    <2>1. cs \in Seq(Unicode)
      BY DEF Texts
    <2>2. SubSeq(cs, k, k) = SubSeq(cs, k, k - 1) \o <<cs[k]>> /\ SubSeq(cs, k, k - 1) = <<>>
      BY <1>1, <2>1, SubSeqRecursiveSecond, SubSeqEmpty
    <2>3. <<>> \o <<cs[k]>> = <<cs[k]>>
      OBVIOUS
    <2> QED  BY <2>2, <2>3
  <1>4. Encode(SubSeq(cs, k, k)) = u
    BY <1>1, <1>3, OneEncoded
  <1>5. /\ p \in Nat /\ Offset(cs, k) = p + Len(u) /\ Offset(cs, k) <= Len(Encode(cs))
        /\ SubSeq(Encode(cs), p + 1, p + Len(u)) = u
    <2>1. /\ Offset(cs, k - 1) \in Nat
          /\ Offset(cs, k) = Offset(cs, k - 1) + Len(Encode(SubSeq(cs, (k - 1) + 1, k)))
          /\ Offset(cs, k) <= Len(Encode(cs))
          /\ SubSeq(Encode(cs), Offset(cs, k - 1) + 1, Offset(cs, k)) = Encode(SubSeq(cs, (k - 1) + 1, k))
      BY <1>2, SliceEncoded
    <2>2. Encode(SubSeq(cs, (k - 1) + 1, k)) = u
      BY <1>2, <1>4, Zenon
    <2> HIDE DEF u
    <2> QED  BY <2>1, <2>2, Zenon
  <1>6. OneCharacter(u)
    BY <1>1, CharacterEncoded
  <1> HIDE DEF u, p
  <1>7. Len(u) \in Nat
    BY <1>6 DEF OneCharacter
  <1>8. \A j \in 1 .. Len(u) : Encode(cs)[p + j] = u[j]
    <2>1. Encode(cs) \in Seq(Byte) /\ Len(Encode(cs)) \in Nat
      BY EncodeBytes
    <2> QED  BY <1>5, <1>7, <2>1, SMTT(40)
  <1> QED  BY <1>1, <1>5, <1>6, <1>8 DEF u, p

\* Decoding gives the characters back.
LEMMA DecodeEncode ==
  ASSUME NEW cs \in Texts
  PROVE  Decoded(Encode(cs)) = cs
  <1> DEFINE b == Encode(cs)
  <1>1. b \in Seq(Byte) /\ cs \in Seq(Unicode) /\ Len(cs) \in Nat
    BY EncodeBytes DEF Texts
  <1>2. PICK f : /\ f[0] = <<>> /\ Decoded(b) = f[Len(b)]
                 /\ \A k \in 1 .. Len(b) : f[k] = WithByte(f[k - 1], b[k])
    BY <1>1, DecodedStepwise
  <1> HIDE DEF b
  <1> DEFINE S == {k \in 0 .. Len(cs) : f[Offset(cs, k)] = SubSeq(cs, 1, k)}
  <1>3. 0 \in S
    <2>1. SubSeq(cs, 1, 0) = <<>>
      BY SubSeqEmpty
    <2>2. f[Offset(cs, 0)] = SubSeq(cs, 1, 0)
      BY <1>2, <2>1, OffsetEnds, Zenon
    <2>3. 0 \in 0 .. Len(cs)
      BY <1>1
    <2> QED  BY <2>2, <2>3, Zenon
  <1>4. ASSUME NEW k \in 1 .. Len(cs), k - 1 \in S PROVE k \in S
    <2> DEFINE u == g_unichar_to_utf8(cs[k])
               q == Offset(cs, k - 1)
    <2>1. /\ cs[k] \in Unicode /\ OneCharacter(u)
          /\ q \in Nat /\ Offset(cs, k) = q + Len(u) /\ q + Len(u) <= Len(b)
          /\ \A j \in 1 .. Len(u) : b[q + j] = u[j]
      BY CharacterOf DEF b
    <2>2. f[q] = SubSeq(cs, 1, k - 1)
      BY <1>4
    <2>3. SubSeq(cs, 1, k - 1) \in Seq(Nat)
      <3>1. \A c \in Unicode : c \in Nat
        BY DEF Unicode
      <3> QED  BY <1>1, <3>1
    <2>4. SubSeq(cs, 1, k) = Append(SubSeq(cs, 1, k - 1), cs[k])
      BY <1>1
    <2> HIDE DEF q
    <2>5. \A j \in 1 .. Len(u) : f[q + j] = WithByte(f[(q + j) - 1], u[j])
      <3> HIDE DEF u
      <3> TAKE j \in 1 .. Len(u)
      <3>1. Len(b) \in Nat /\ Len(u) \in Nat
        BY <1>1, <2>1 DEF OneCharacter
      <3>2. q + j \in 1 .. Len(b)
        BY <2>1, <3>1
      <3> QED  BY <1>2, <2>1, <3>2
    <2>6. f[q + Len(u)] = Append(f[q], cs[k])
      BY <2>1, <2>2, <2>3, <2>5, CharacterDecoded
    <2>7. f[Offset(cs, k)] = SubSeq(cs, 1, k)
      BY <2>1, <2>2, <2>4, <2>6
    <2> QED  BY <2>7
  <1> HIDE DEF S
  <1>5. \A k \in 0 .. Len(cs) : k \in S
    BY <1>1, <1>3, <1>4, Induction
  <1>6. f[Offset(cs, Len(cs))] = SubSeq(cs, 1, Len(cs))
    BY <1>1, <1>5 DEF S
  <1>7. SubSeq(cs, 1, Len(cs)) = cs
    BY <1>1
  <1> QED  BY <1>2, <1>6, <1>7, OffsetEnds DEF b

\* Good bytes are those of a text.
LEMMA GoodText ==
  ASSUME NEW b, Good(b)
  PROVE  Decoded(b) \in Texts /\ Encode(Decoded(b)) = b
  BY EncodeDecoded DEF Texts

\* The boundaries are where characters start, and the end.
LEMMA Boundaries ==
  ASSUME NEW cs \in Texts
  PROVE  /\ \A k \in 0 .. Len(cs) : Boundary(Encode(cs), Offset(cs, k))
         /\ \A p : Boundary(Encode(cs), p) => \E k \in 0 .. Len(cs) : p = Offset(cs, k)
  <1> DEFINE b == Encode(cs)
  <1>1. Good(b) /\ b \in Seq(Byte) /\ Len(b) \in Nat /\ Len(cs) \in Nat
    BY EncodeGood, EncodeBytes DEF Texts
  <1>2. \A k \in 0 .. Len(cs) : Boundary(b, Offset(cs, k))
    <2> TAKE k \in 0 .. Len(cs)
    <2>1. CASE k = Len(cs)
      BY <1>1, <2>1, OffsetEnds DEF Boundary
    <2>2. CASE k < Len(cs)
      <3> DEFINE u == g_unichar_to_utf8(cs[k + 1])
      <3>1. k + 1 \in 1 .. Len(cs) /\ (k + 1) - 1 = k
        BY <1>1, <2>2
      <3>2. /\ OneCharacter(u) /\ Offset(cs, k) \in Nat
            /\ Offset(cs, k) + Len(u) <= Len(b)
            /\ \A j \in 1 .. Len(u) : b[Offset(cs, k) + j] = u[j]
        <4>1. LET v == g_unichar_to_utf8(cs[k + 1]) IN
              /\ OneCharacter(v) /\ Offset(cs, (k + 1) - 1) \in Nat
              /\ Offset(cs, k + 1) = Offset(cs, (k + 1) - 1) + Len(v)
              /\ Offset(cs, k + 1) <= Len(Encode(cs))
              /\ \A j \in 1 .. Len(v) : Encode(cs)[Offset(cs, (k + 1) - 1) + j] = v[j]
          BY <3>1, CharacterOf
        <4> QED  BY <3>1, <4>1
      <3> HIDE DEF u, b
      <3>3. Len(u) \in 1 .. 4 /\ ~IsContinuation(u[1])
        BY <3>2 DEF OneCharacter
      <3> QED  BY <1>1, <3>2, <3>3 DEF Boundary
    <2> QED  BY <1>1, <2>1, <2>2
  <1>3. ASSUME NEW p, Boundary(b, p) PROVE \E k \in 0 .. Len(cs) : p = Offset(cs, k)
    <2>1. /\ p \in 0 .. Len(b) /\ 0 \in 0 .. Len(b) /\ p \in 0 .. Len(b) /\ Len(b) \in p .. Len(b)
          /\ Boundary(b, 0) /\ Boundary(b, Len(b))
      BY <1>1, <1>3 DEF Good, Boundary
    <2> DEFINE x == SubSeq(b, 1, p)
               y == SubSeq(b, p + 1, Len(b))
    <2>2. Good(x) /\ Len(x) = p
      <3>1. Good(SubSeq(b, 0 + 1, p)) /\ Len(SubSeq(b, 0 + 1, p)) = p - 0
        BY <1>1, <1>3, <2>1, SliceGood
      <3> QED  BY <2>1, <3>1
    <2>3. Good(y)
      BY <1>1, <1>3, <2>1, SliceGood, SMTT(40)
    <2>4. b = x \o y
      <3>1. 1 \in 1 .. Len(b) + 1 /\ p \in 1 - 1 .. Len(b) /\ Len(b) \in p .. Len(b)
        BY <1>1, <2>1
      <3>2. SubSeq(b, 1, Len(b)) = b
        BY <1>1, SubSeqFull
      <3> HIDE DEF b
      <3> QED  BY <1>1, <3>1, <3>2, ConcatAdjacentSubSeq
    <2> HIDE DEF x, y, b
    <2> DEFINE ds == Decoded(x)
               es == Decoded(y)
    <2>5. ds \in Texts /\ es \in Texts /\ Encode(ds) = x /\ Encode(es) = y
      BY <2>2, <2>3, GoodText
    <2> HIDE DEF ds, es
    <2>6. Encode(ds \o es) = b /\ ds \o es \in Texts
      <3>1. ds \o es \in Texts
        BY <2>5 DEF Texts
      <3> QED  BY <2>4, <2>5, <3>1, EncodeConcat
    <2>7. cs = ds \o es
      BY <2>6, DecodeEncode DEF b
    <2>8. Len(ds) \in 0 .. Len(cs) /\ SubSeq(cs, 1, Len(ds)) = ds
      BY <2>5, <2>7 DEF Texts
    <2>9. p = Offset(cs, Len(ds))
      BY <2>2, <2>5, <2>8 DEF Offset
    <2> QED  BY <2>8, <2>9
  <1> QED  BY <1>2, <1>3

\* Later characters start later, and there are no more characters than bytes.
LEMMA OffsetsGrow ==
  ASSUME NEW cs \in Texts, NEW i \in 0 .. Len(cs), NEW j \in i .. Len(cs)
  PROVE  /\ Offset(cs, i) \in 0 .. Len(Encode(cs)) /\ Offset(cs, j) \in 0 .. Len(Encode(cs))
         /\ Offset(cs, i) + (j - i) <= Offset(cs, j)
  <1>1. Len(cs) \in Nat
    BY DEF Texts
  <1>2. \A k \in 0 .. Len(cs) : Offset(cs, k) \in 0 .. Len(Encode(cs))
    <2> TAKE k \in 0 .. Len(cs)
    <2>1. k \in k .. Len(cs)
      BY <1>1
    <2> QED  BY <2>1, SliceEncoded, EncodeBytes
  <1> DEFINE S == {k \in 0 .. Len(cs) : k >= i => Offset(cs, i) + (k - i) <= Offset(cs, k)}
  <1>3. 0 \in S
    BY <1>1, <1>2
  <1>4. ASSUME NEW k \in 1 .. Len(cs), k - 1 \in S PROVE k \in S
    <2>1. CASE k <= i
      BY <1>1, <1>2, <2>1
    <2>2. CASE k > i
      <3>1. LET u == g_unichar_to_utf8(cs[k]) IN
            /\ OneCharacter(u) /\ Offset(cs, k) = Offset(cs, k - 1) + Len(u)
        BY CharacterOf
      <3>2. Offset(cs, k - 1) + 1 <= Offset(cs, k)
        <4>1. k - 1 \in 0 .. Len(cs)
          BY <1>1
        <4>2. Offset(cs, k - 1) \in Nat
          BY <1>2, <4>1, EncodeBytes
        <4> QED  BY <3>1, <4>2 DEF OneCharacter
      <3>3. Offset(cs, i) + ((k - 1) - i) <= Offset(cs, k - 1)
        BY <1>4, <2>2
      <3>4. Offset(cs, i) \in Nat /\ Offset(cs, k - 1) \in Nat /\ Offset(cs, k) \in Nat
        <4>1. k - 1 \in 0 .. Len(cs) /\ k \in 0 .. Len(cs)
          BY <1>1
        <4> QED  BY <1>2, <4>1, EncodeBytes
      <3>5. Offset(cs, i) + (k - i) <= Offset(cs, k)
        BY <3>2, <3>3, <3>4
      <3> QED  BY <3>5
    <2> QED  BY <2>1, <2>2
  <1> HIDE DEF S
  <1>5. j \in S
    <2>1. \A k \in 0 .. Len(cs) : k \in S
      BY <1>1, <1>3, <1>4, Induction
    <2> QED  BY <1>1, <2>1
  <1> QED  BY <1>1, <1>2, <1>5 DEF S

\* As many characters as offset says, in bytes.
LEMMA ByteOffsetIs ==
  ASSUME NEW cs \in Texts, Len(Encode(cs)) < npos, NEW i \in Nat
  PROVE  utf8_byte_offset(Encode(cs), i) = IF i <= Len(cs) THEN Offset(cs, i) ELSE npos
  <1> DEFINE b == Encode(cs)
  <1>1. Good(b) /\ Len(b) \in Nat /\ Len(cs) \in Nat /\ npos \in Nat
    BY EncodeGood, EncodeBytes DEF Texts, npos
  <1>2. PICK after :
           /\ utf8_byte_offset(b, i) = IF i = npos THEN npos ELSE after[i]
           /\ after[0] = 0
           /\ \A k \in 1 .. i :
                after[k] = IF after[k - 1] >= Len(b) THEN npos
                           ELSE after[k - 1] + g_utf8_skip(b[after[k - 1] + 1])
    <2>1. Len(b) < npos
      OBVIOUS
    <2> HIDE DEF b
    <2> QED  BY <1>1, <2>1, OffsetStepwise
  <1> HIDE DEF b
  <1> DEFINE S == {k \in 0 .. i : after[k] = IF k <= Len(cs) THEN Offset(cs, k) ELSE npos}
  <1>3. 0 \in S
    <2>1. after[0] = Offset(cs, 0) /\ 0 <= Len(cs) /\ 0 \in 0 .. i
      BY <1>1, <1>2, OffsetEnds
    <2> QED  BY <2>1
  <1>4. ASSUME NEW k \in 1 .. i, k - 1 \in S PROVE k \in S
    <2>1. CASE k <= Len(cs)
      <3>1. k \in 1 .. Len(cs)
        BY <2>1
      <3> DEFINE u == g_unichar_to_utf8(cs[k])
                 p == Offset(cs, k - 1)
      <3>2. /\ OneCharacter(u) /\ p \in Nat /\ Offset(cs, k) = p + Len(u) /\ p + Len(u) <= Len(b)
            /\ \A j \in 1 .. Len(u) : b[p + j] = u[j]
        BY <3>1, CharacterOf DEF b
      <3>3. after[k - 1] = p
        BY <1>4, <2>1
      <3> HIDE DEF u, p
      <3>4. Len(u) \in 1 .. 4 /\ Len(u) = g_utf8_skip(u[1])
        BY <3>2 DEF OneCharacter
      <3>5. b[p + 1] = u[1] /\ ~(p >= Len(b))
        BY <1>1, <3>2, <3>4
      <3>6. after[k] = p + Len(u)
        BY <1>2, <3>3, <3>4, <3>5
      <3>7. after[k] = Offset(cs, k)
        BY <3>2, <3>6
      <3> QED  BY <2>1, <3>7
    <2>2. CASE k > Len(cs)
      <3>1. after[k - 1] >= Len(b)
        <4>1. CASE k - 1 = Len(cs)
          <5>1. after[k - 1] = Offset(cs, Len(cs))
            BY <1>1, <1>4, <4>1
          <5> QED  BY <1>1, <5>1, OffsetEnds DEF b
        <4>2. CASE k - 1 # Len(cs)
          <5>1. after[k - 1] = npos
            BY <1>1, <1>4, <2>2, <4>2
          <5> QED  BY <1>1, <5>1 DEF b
        <4> QED  BY <4>1, <4>2
      <3>2. after[k] = npos
        BY <1>2, <3>1
      <3> QED  BY <1>1, <2>2, <3>2
    <2> QED  BY <1>1, <2>1, <2>2
  <1> HIDE DEF S
  <1>5. i \in S
    <2>1. \A k \in 0 .. i : k \in S
      BY <1>3, <1>4, Induction
    <2> QED  BY <2>1
  <1>6. npos > Len(cs)
    <2>1. 0 \in 0 .. Len(cs) /\ Len(cs) \in 0 .. Len(cs)
      BY <1>1
    <2>2. Offset(cs, 0) + (Len(cs) - 0) <= Offset(cs, Len(cs))
      BY <2>1, OffsetsGrow
    <2>3. 0 + (Len(cs) - 0) <= Len(b)
      BY <2>2, OffsetEnds DEF b
    <2> QED  BY <1>1, <2>3 DEF b
  <1>7. after[i] = IF i <= Len(cs) THEN Offset(cs, i) ELSE npos
    BY <1>5 DEF S
  <1>8. i = npos => ~(i <= Len(cs))
    BY <1>1, <1>6
  <1> QED  BY <1>2, <1>7, <1>8 DEF b

\* What is left of a text from a character on.
LEMMA Remainder ==
  ASSUME NEW cs \in Texts, NEW i \in 0 .. Len(cs)
  PROVE  /\ SubSeq(Encode(cs), Offset(cs, i) + 1, Len(Encode(cs))) = Encode(SubSeq(cs, i + 1, Len(cs)))
         /\ SubSeq(cs, i + 1, Len(cs)) \in Texts /\ Len(SubSeq(cs, i + 1, Len(cs))) = Len(cs) - i
         /\ \A n \in 0 .. Len(cs) - i :
               Offset(SubSeq(cs, i + 1, Len(cs)), n) = Offset(cs, i + n) - Offset(cs, i)
  <1>1. Len(cs) \in Nat /\ Len(cs) \in i .. Len(cs) /\ Len(cs) \in 0 .. Len(cs)
    BY DEF Texts
  <1>2. SubSeq(Encode(cs), Offset(cs, i) + 1, Offset(cs, Len(cs))) = Encode(SubSeq(cs, i + 1, Len(cs)))
    BY <1>1, SliceEncoded
  <1>3. SubSeq(cs, i + 1, Len(cs)) \in Texts /\ Len(SubSeq(cs, i + 1, Len(cs))) = Len(cs) - i
    BY <1>1, TextCut, ZenonT(40)
  <1>4. ASSUME NEW n \in 0 .. Len(cs) - i
        PROVE  Offset(SubSeq(cs, i + 1, Len(cs)), n) = Offset(cs, i + n) - Offset(cs, i)
    <2>1. i + n \in i .. Len(cs)
      BY <1>1
    <2>2. /\ Offset(cs, i) \in Nat
          /\ Offset(cs, i + n) = Offset(cs, i) + Len(Encode(SubSeq(cs, i + 1, i + n)))
      BY <2>1, SliceEncoded
    <2>3. SubSeq(SubSeq(cs, i + 1, Len(cs)), 1, n) = SubSeq(cs, i + 1, i + n)
      BY <1>1 DEF Texts
    <2>4. SubSeq(cs, i + 1, i + n) \in Texts
      BY <2>1, TextCut
    <2>5. Len(Encode(SubSeq(cs, i + 1, i + n))) \in Nat
      BY <2>4, EncodeBytes
    <2>6. Offset(SubSeq(cs, i + 1, Len(cs)), n) = Len(Encode(SubSeq(cs, i + 1, i + n)))
      BY <2>3, Zenon DEF Offset
    <2> QED  BY <2>2, <2>5, <2>6
  <1> QED  BY <1>2, <1>3, <1>4, OffsetEnds

\* A place and a number of characters in bytes.
LEMMA BoundsAre ==
  ASSUME NEW cs \in Texts, Len(Encode(cs)) < npos, NEW i \in Nat, NEW n \in Nat
  PROVE  LET bounds == Utf8SubstrBounds(Encode(cs), i, n) IN
         /\ i > Len(cs) => bounds.i = npos
         /\ i <= Len(cs) =>
              /\ bounds.i = Offset(cs, i)
              /\ bounds.n = IF i + n <= Len(cs) THEN Offset(cs, i + n) - Offset(cs, i) ELSE npos
  <1> DEFINE b == Encode(cs)
             bounds == Utf8SubstrBounds(b, i, n)
             ds == SubSeq(cs, i + 1, Len(cs))
  <1>1. Len(cs) \in Nat /\ Len(b) \in Nat /\ npos \in Nat
    BY EncodeBytes DEF Texts, npos
  <1>2. utf8_byte_offset(b, i) = IF i <= Len(cs) THEN Offset(cs, i) ELSE npos
    BY ByteOffsetIs
  <1>3. /\ bounds.i = utf8_byte_offset(b, i)
        /\ bounds.n = IF utf8_byte_offset(b, i) = npos THEN npos
                      ELSE utf8_byte_offset(SubSeq(b, utf8_byte_offset(b, i) + 1, Len(b)), n)
    BY DEF Utf8SubstrBounds
  <1>4. ASSUME i <= Len(cs)
        PROVE  bounds.n = IF i + n <= Len(cs) THEN Offset(cs, i + n) - Offset(cs, i) ELSE npos
    <2>1. i \in 0 .. Len(cs)
      BY <1>1, <1>4
    <2>2. /\ SubSeq(b, Offset(cs, i) + 1, Len(b)) = Encode(ds) /\ ds \in Texts /\ Len(ds) = Len(cs) - i
          /\ \A k \in 0 .. Len(cs) - i : Offset(ds, k) = Offset(cs, i + k) - Offset(cs, i)
      BY <2>1, Remainder
    <2>3. Offset(cs, i) \in 0 .. Len(b) /\ Len(Encode(ds)) <= Len(b)
      <3>1. Offset(cs, i) \in 0 .. Len(b)
        <4>1. Len(cs) \in i .. Len(cs)
          BY <1>1, <2>1
        <4> QED  BY <2>1, <4>1, OffsetsGrow
      <3>2. b \in Seq(Byte)
        BY EncodeBytes
      <3> HIDE DEF b
      <3>3. Len(SubSeq(b, Offset(cs, i) + 1, Len(b))) <= Len(b)
        BY <1>1, <3>1, <3>2
      <3> QED  BY <2>2, <3>1, <3>3
    <2>4. Len(Encode(ds)) < npos /\ Offset(cs, i) # npos
      <3>1. Len(b) < npos
        OBVIOUS
      <3>2. Len(Encode(ds)) \in Nat
        BY <2>2, EncodeBytes
      <3> HIDE DEF b, ds
      <3> QED  BY <1>1, <2>3, <3>1, <3>2
    <2> HIDE DEF ds, b, bounds
    <2>5. utf8_byte_offset(Encode(ds), n) = IF n <= Len(ds) THEN Offset(ds, n) ELSE npos
      BY <2>2, <2>4, ByteOffsetIs
    <2>6. bounds.n = utf8_byte_offset(Encode(ds), n)
      BY <1>2, <1>3, <1>4, <2>2, <2>4
    <2>7. CASE i + n <= Len(cs)
      <3>1. n \in 0 .. Len(cs) - i /\ n <= Len(ds)
        BY <1>1, <2>1, <2>2, <2>7
      <3> QED  BY <2>2, <2>5, <2>6, <2>7, <3>1
    <2>8. CASE ~(i + n <= Len(cs))
      <3>1. ~(n <= Len(ds))
        BY <1>1, <2>1, <2>2, <2>8
      <3> QED  BY <2>5, <2>6, <2>8, <3>1
    <2> QED  BY <2>7, <2>8
  <1>5. i > Len(cs) => ~(i <= Len(cs))
    BY <1>1
  <1> HIDE DEF b, bounds
  <1>6. /\ i > Len(cs) => bounds.i = npos
        /\ i <= Len(cs) => bounds.i = Offset(cs, i)
    BY <1>2, <1>3, <1>5
  <1> QED  BY <1>4, <1>6 DEF b, bounds

-----------------------------------------------------------------------------
(* Results: bytes of a text, or an exception.                                *)

Yields(result, fault, cs) ==
  /\ result.err = fault
  /\ fault = "none" => cs \in Texts /\ result.b = Encode(cs)

\* The middle of a text, and where it ends.
LEMMA MidIs ==
  ASSUME NEW cs \in Texts, NEW i \in 0 .. Len(cs), NEW n \in Nat
  PROVE  LET j == IF i + n <= Len(cs) THEN i + n ELSE Len(cs) IN
         /\ j \in i .. Len(cs) /\ Characters!Mid(cs, i, n) = SubSeq(cs, i + 1, j)
         /\ Characters!Mid(cs, i, n) \in Texts
  <1>1. Len(cs) \in Nat
    BY DEF Texts
  <1>2. Characters!Min({Len(cs), i + n}) = IF i + n <= Len(cs) THEN i + n ELSE Len(cs)
    <2>1. PICK x \in {Len(cs), i + n} : \A y \in {Len(cs), i + n} : x <= y
      <3>1. Len(cs) <= i + n \/ i + n <= Len(cs)
        BY <1>1
      <3> QED  BY <1>1, <3>1
    <2> QED  BY <1>1, <2>1 DEF Characters!Min
  <1>3. Characters!Mid(cs, i, n) = SubSeq(cs, i + 1, IF i + n <= Len(cs) THEN i + n ELSE Len(cs))
    BY <1>2 DEF Characters!Mid
  <1> DEFINE j == IF i + n <= Len(cs) THEN i + n ELSE Len(cs)
  <1>4. j \in i .. Len(cs)
    BY <1>1
  <1>5. Characters!Mid(cs, i, n) = SubSeq(cs, i + 1, j)
    BY <1>3
  <1> HIDE DEF j
  <1>6. SubSeq(cs, i + 1, j) \in Texts
    BY <1>4, TextCut
  <1> QED  BY <1>4, <1>5, <1>6 DEF j

\* Bytes up to a given one, or all that are left.
LEMMA SubIs ==
  ASSUME NEW b \in Seq(Byte), NEW p \in 0 .. Len(b), NEW n \in Nat, Len(b) < npos
  PROVE  /\ p + n <= Len(b) => std_sub(b, p, n) = ok(SubSeq(b, p + 1, p + n))
         /\ std_sub(b, p, npos) = ok(SubSeq(b, p + 1, Len(b)))
  <1>1. Len(b) \in Nat /\ npos \in Nat /\ ~(p > Len(b))
    BY DEF npos
  <1>2. /\ p + n <= Len(b) => Min({Len(b), p + n}) = p + n
        /\ Min({Len(b), p + npos}) = Len(b)
    BY <1>1, LesserOfTwo
  <1> QED  BY <1>1, <1>2 DEF std_sub

\* A part of a string is that part of its characters.
LEMMA SubYields ==
  ASSUME NEW cs \in Texts, Len(Encode(cs)) < npos, NEW i \in Nat, NEW n \in Nat
  PROVE  LET bounds == Utf8SubstrBounds(Encode(cs), i, n) IN
         Yields(std_sub(Encode(cs), bounds.i, bounds.n),
                IF i > Len(cs) THEN "out_of_range" ELSE "none", Characters!Mid(cs, i, n))
  <1> DEFINE b == Encode(cs)
             bounds == Utf8SubstrBounds(b, i, n)
  <1>1. Len(cs) \in Nat /\ Len(b) \in Nat /\ npos \in Nat /\ b \in Seq(Byte) /\ Len(b) < npos
    BY EncodeBytes DEF Texts, npos
  <1>2. /\ i > Len(cs) => bounds.i = npos
        /\ i <= Len(cs) =>
              /\ bounds.i = Offset(cs, i)
              /\ bounds.n = IF i + n <= Len(cs) THEN Offset(cs, i + n) - Offset(cs, i) ELSE npos
    BY BoundsAre
  <1> HIDE DEF bounds, b
  <1>3. CASE i > Len(cs)
    <2>1. std_sub(b, bounds.i, bounds.n) = throw("out_of_range")
      BY <1>1, <1>2, <1>3 DEF std_sub
    <2> QED  BY <1>3, <2>1 DEF Yields, throw, b, bounds
  <1>4. CASE i <= Len(cs)
    <2> DEFINE j == IF i + n <= Len(cs) THEN i + n ELSE Len(cs)
               p == Offset(cs, i)
    <2>1. i \in 0 .. Len(cs)
      BY <1>1, <1>4
    <2>2. j \in i .. Len(cs) /\ Characters!Mid(cs, i, n) = SubSeq(cs, i + 1, j)
      BY <2>1, MidIs
    <2>3. /\ p \in Nat /\ Offset(cs, j) \in Nat /\ Offset(cs, j) <= Len(b)
          /\ SubSeq(b, p + 1, Offset(cs, j)) = Encode(SubSeq(cs, i + 1, j))
      BY <2>1, <2>2, SliceEncoded DEF b
    <2>4. p <= Offset(cs, j)
      <3> HIDE DEF j
      <3>1. p + (j - i) <= Offset(cs, j)
        BY <2>1, <2>2, OffsetsGrow
      <3> QED  BY <1>1, <2>1, <2>2, <2>3, <3>1
    <2>5. SubSeq(cs, i + 1, j) \in Texts
      BY <2>1, <2>2, TextCut
    <2>6. std_sub(b, bounds.i, bounds.n) = ok(Encode(SubSeq(cs, i + 1, j)))
      <3>1. CASE i + n <= Len(cs)
        <4>1. bounds.i = p /\ bounds.n = Offset(cs, j) - p /\ p + (Offset(cs, j) - p) = Offset(cs, j)
          BY <1>2, <1>4, <2>3, <3>1
        <4> DEFINE m == Offset(cs, j) - p
        <4>2. m \in Nat /\ p \in 0 .. Len(b) /\ p + m <= Len(b) /\ p + m = Offset(cs, j)
          BY <1>1, <2>3, <2>4
        <4> HIDE DEF m, p, j
        <4>3. std_sub(b, p, m) = ok(SubSeq(b, p + 1, p + m))
          BY <1>1, <4>2, SubIs
        <4> QED  BY <2>3, <4>1, <4>2, <4>3, Zenon DEF m
      <3>2. CASE ~(i + n <= Len(cs))
        <4>1. bounds.i = p /\ bounds.n = npos /\ Offset(cs, j) = Len(b)
          BY <1>2, <1>4, <3>2, OffsetEnds DEF b
        <4>2. p \in 0 .. Len(b)
          BY <1>1, <2>3, <2>4
        <4> HIDE DEF p, j
        <4>3. std_sub(b, p, npos) = ok(SubSeq(b, p + 1, Len(b)))
          BY <1>1, <4>2, SubIs
        <4> QED  BY <2>3, <4>1, <4>3
      <3> QED  BY <3>1, <3>2
    <2> HIDE DEF j
    <2>7. ~(i > Len(cs))
      BY <1>1, <1>4
    <2> QED  BY <2>2, <2>5, <2>6, <2>7 DEF Yields, ok, b, bounds
  <1> QED  BY <1>1, <1>3, <1>4

\* Characters between two others are replaced, and so are their bytes.
LEMMA SpliceEncoded ==
  ASSUME NEW cs \in Texts, NEW i \in 0 .. Len(cs), NEW j \in i .. Len(cs), NEW ts \in Texts
  PROVE  /\ SubSeq(cs, 1, i) \o ts \o SubSeq(cs, j + 1, Len(cs)) \in Texts
         /\ Encode(SubSeq(cs, 1, i) \o ts \o SubSeq(cs, j + 1, Len(cs))) =
              SubSeq(Encode(cs), 1, Offset(cs, i)) \o Encode(ts)
                \o SubSeq(Encode(cs), Offset(cs, j) + 1, Len(Encode(cs)))
  <1> DEFINE x == SubSeq(cs, 1, i)
             z == SubSeq(cs, j + 1, Len(cs))
  <1>1. Len(cs) \in Nat /\ 0 \in 0 .. Len(cs) /\ i \in 0 .. Len(cs) /\ j \in 0 .. Len(cs)
    BY DEF Texts
  <1>2. x \in Texts /\ z \in Texts
    BY TextCut
  <1>3. SubSeq(Encode(cs), Offset(cs, 0) + 1, Offset(cs, i)) = Encode(SubSeq(cs, 0 + 1, i))
    BY <1>1, SliceEncoded
  <1>4. SubSeq(Encode(cs), 1, Offset(cs, i)) = Encode(x)
    <2>1. Offset(cs, 0) + 1 = 1 /\ 0 + 1 = 1
      BY OffsetEnds
    <2> QED  BY <1>3, <2>1, Zenon
  <1>5. SubSeq(Encode(cs), Offset(cs, j) + 1, Len(Encode(cs))) = Encode(z)
    BY <1>1, Remainder
  <1> HIDE DEF x, z
  <1>6. x \o ts \in Texts /\ (x \o ts) \o z \in Texts
    BY <1>2 DEF Texts
  <1>7. Encode((x \o ts) \o z) = (Encode(x) \o Encode(ts)) \o Encode(z)
    <2>1. Encode((x \o ts) \o z) = Encode(x \o ts) \o Encode(z)
      BY <1>2, <1>6, EncodeConcat
    <2>2. Encode(x \o ts) = Encode(x) \o Encode(ts)
      BY <1>2, EncodeConcat
    <2> QED  BY <2>1, <2>2
  <1> QED  BY <1>4, <1>5, <1>6, <1>7 DEF x, z

\* What the abstract specification calls a splice.
LEMMA SpliceIs ==
  ASSUME NEW cs \in Texts, NEW i \in 0 .. Len(cs), NEW n \in Nat, NEW ts
  PROVE  LET j == IF i + n <= Len(cs) THEN i + n ELSE Len(cs) IN
         Characters!Splice(cs, i, n, ts) = SubSeq(cs, 1, i) \o ts \o SubSeq(cs, j + 1, Len(cs))
  <1>1. Len(cs) \in Nat
    BY DEF Texts
  <1>2. CASE i + n <= Len(cs)
    BY <1>2 DEF Characters!Splice
  <1>3. CASE ~(i + n <= Len(cs))
    <2>1. SubSeq(cs, i + n + 1, Len(cs)) = <<>> /\ SubSeq(cs, Len(cs) + 1, Len(cs)) = <<>>
      BY <1>1, <1>3, SubSeqEmpty
    <2> QED  BY <1>3, <2>1 DEF Characters!Splice
  <1> QED  BY <1>2, <1>3

\* Replacing bytes by bytes replaces characters by characters.
LEMMA ReplaceYields ==
  ASSUME NEW cs \in Texts, Len(Encode(cs)) < npos, NEW i \in 0 .. Len(cs), NEW n \in Nat,
         NEW m, m = (IF i + n <= Len(cs) THEN Offset(cs, i + n) - Offset(cs, i) ELSE npos)
                \/ (m = Len(Encode(cs)) - Offset(cs, i) /\ ~(i + n < Len(cs))),
         NEW arg, NEW fault, NEW ts, Yields(arg, fault, ts)
  PROVE  Yields(std_replace(Encode(cs), Offset(cs, i), m, arg), fault, Characters!Splice(cs, i, n, ts))
  <1> DEFINE b == Encode(cs)
             p == Offset(cs, i)
             j == IF i + n <= Len(cs) THEN i + n ELSE Len(cs)
  <1>1. Len(cs) \in Nat /\ Len(b) \in Nat /\ npos \in Nat /\ b \in Seq(Byte) /\ Len(b) < npos
    BY EncodeBytes DEF Texts, npos
  <1>2. j \in i .. Len(cs)
    BY <1>1
  <1>3. p \in 0 .. Len(b) /\ Offset(cs, j) \in 0 .. Len(b) /\ ~(p > Len(b))
    <2>1. p \in 0 .. Len(b) /\ Offset(cs, j) \in 0 .. Len(b)
      BY <1>2, OffsetsGrow
    <2> QED  BY <1>1, <2>1
  <1>4. SubSeq(b, p + m + 1, Len(b)) = SubSeq(b, Offset(cs, j) + 1, Len(b))
    <2>1. CASE m = Offset(cs, j) - p
      <3>1. p + m = Offset(cs, j)
        <4> HIDE DEF p, j
        <4> QED  BY <1>3, <2>1
      <3> QED  BY <3>1
    <2>2. CASE m = npos /\ j = Len(cs)
      <3>1. p + m + 1 > Len(b) /\ Offset(cs, j) + 1 > Len(b) /\ p + m + 1 \in Int /\ Offset(cs, j) + 1 \in Int
        <4>1. Offset(cs, j) = Len(b)
          BY <2>2, OffsetEnds
        <4> HIDE DEF p, j, b
        <4> QED  BY <1>1, <1>3, <2>2, <4>1
      <3> HIDE DEF p, j, b
      <3>2. SubSeq(b, p + m + 1, Len(b)) = <<>>
        BY <1>1, <3>1, SubSeqEmpty
      <3>3. SubSeq(b, Offset(cs, j) + 1, Len(b)) = <<>>
        BY <1>1, <3>1, SubSeqEmpty
      <3> QED  BY <3>2, <3>3
    <2>3. m = Offset(cs, j) - p \/ (m = npos /\ j = Len(cs))
      <3>1. CASE i + n <= Len(cs)
        <4>1. CASE m = Len(b) - p /\ ~(i + n < Len(cs))
          <5>1. j = Len(cs)
            BY <1>1, <3>1, <4>1
          <5> QED  BY <4>1, <5>1, OffsetEnds
        <4> QED  BY <3>1, <4>1
      <3>2. CASE ~(i + n <= Len(cs))
        <4>1. j = Len(cs) /\ Offset(cs, Len(cs)) = Len(b)
          BY <3>2, OffsetEnds
        <4> QED  BY <3>2, <4>1
      <3> QED  BY <3>1, <3>2
    <2> QED  BY <2>1, <2>2, <2>3
  <1>5. CASE fault # "none"
    <2>1. std_replace(b, p, m, arg) = arg
      <3> HIDE DEF b, p
      <3> QED  BY <1>3, <1>5 DEF std_replace, Yields
    <2> QED  BY <1>5, <2>1 DEF Yields
  <1>6. CASE fault = "none"
    <2>1. ts \in Texts /\ arg.b = Encode(ts) /\ arg.err = "none"
      BY <1>6 DEF Yields
    <2>2. std_replace(b, p, m, arg) = ok(SubSeq(b, 1, p) \o Encode(ts) \o SubSeq(b, Offset(cs, j) + 1, Len(b)))
      <3> HIDE DEF b, p, j
      <3> QED  BY <1>3, <1>4, <2>1 DEF std_replace
    <2> DEFINE new == SubSeq(cs, 1, i) \o ts \o SubSeq(cs, j + 1, Len(cs))
    <2>3. /\ new \in Texts
          /\ Encode(new) = SubSeq(b, 1, p) \o Encode(ts) \o SubSeq(b, Offset(cs, j) + 1, Len(b))
      BY <1>2, <2>1, SpliceEncoded
    <2>4. Characters!Splice(cs, i, n, ts) = new
      BY SpliceIs
    <2> HIDE DEF new
    <2>5. std_replace(b, p, m, arg) = ok(Encode(new))
      BY <2>2, <2>3
    <2>6. Yields(ok(Encode(new)), fault, new)
      BY <1>6, <2>3 DEF Yields, ok
    <2> QED  BY <2>4, <2>5, <2>6, Zenon
  <1> QED  BY <1>5, <1>6

-----------------------------------------------------------------------------
(* NUL.                                                                      *)

\* Every byte belongs to a character.
LEMMA Locate ==
  ASSUME NEW cs \in Texts, NEW q \in 1 .. Len(Encode(cs))
  PROVE  \E k \in 1 .. Len(cs) : \E j \in 1 .. Len(g_unichar_to_utf8(cs[k])) : q = Offset(cs, k - 1) + j
  <1> DEFINE In(r) == \E k \in 1 .. Len(cs) :
                        \E j \in 1 .. Len(g_unichar_to_utf8(cs[k])) : r = Offset(cs, k - 1) + j
             S == {k \in 0 .. Len(cs) : \A r \in 1 .. Offset(cs, k) : In(r)}
  <1>1. Len(cs) \in Nat
    BY DEF Texts
  <1>2. 0 \in S
    <2>1. Offset(cs, 0) = 0 /\ 0 \in 0 .. Len(cs)
      BY <1>1, OffsetEnds
    <2> QED  BY <2>1
  <1>3. ASSUME NEW k \in 1 .. Len(cs), k - 1 \in S PROVE k \in S
    <2> DEFINE u == g_unichar_to_utf8(cs[k])
    <2>1. OneCharacter(u) /\ Offset(cs, k - 1) \in Nat /\ Offset(cs, k) = Offset(cs, k - 1) + Len(u)
      BY CharacterOf
    <2>2. Len(u) \in Nat
      BY <2>1 DEF OneCharacter
    <2>3. ASSUME NEW r \in 1 .. Offset(cs, k) PROVE In(r)
      <3>1. CASE r <= Offset(cs, k - 1)
        <4>1. r \in 1 .. Offset(cs, k - 1)
          BY <2>1, <3>1
        <4> HIDE DEF In
        <4> QED  BY <1>3, <4>1
      <3>2. CASE ~(r <= Offset(cs, k - 1))
        <4>1. r - Offset(cs, k - 1) \in 1 .. Len(u) /\ r = Offset(cs, k - 1) + (r - Offset(cs, k - 1))
          <5> HIDE DEF u
          <5> QED  BY <2>1, <2>2, <2>3, <3>2
        <4> QED  BY <4>1
      <3> QED  BY <3>1, <3>2
    <2> HIDE DEF In
    <2> QED  BY <2>3
  <1> HIDE DEF S
  <1>4. \A k \in 0 .. Len(cs) : k \in S
    BY <1>1, <1>2, <1>3, Induction
  <1>5. Len(cs) \in S
    BY <1>1, <1>4
  <1>6. In(q)
    <2> HIDE DEF In
    <2> QED  BY <1>5, OffsetEnds DEF S
  <1> QED  BY <1>6

\* Continuation bytes are not ASCII.
LEMMA ContinuationAbove ==
  ASSUME NEW x \in Byte, IsContinuation(x)
  PROVE  x >= 128
  BY DEF Byte, IsContinuation

\* Characters of ASCII are their own bytes, the others have bytes above.
LEMMA AsciiBytes ==
  ASSUME NEW c \in Unicode
  PROVE  /\ c < 128 => g_unichar_to_utf8(c) = <<c>>
         /\ c >= 128 => \A j \in 1 .. Len(g_unichar_to_utf8(c)) : g_unichar_to_utf8(c)[j] >= 128
  <1> DEFINE u == g_unichar_to_utf8(c)
  <1>1. c \in Nat
    BY DEF Unicode
  <1>2. c < 128 => u = <<c>>
    BY DEF g_unichar_to_utf8
  <1>3. ASSUME c >= 128, NEW j \in 1 .. Len(u) PROVE u[j] >= 128
    <2>1. OneCharacter(u)
      BY CharacterEncoded
    <2>2. CASE j = 1
      <3>1. u[1] \in {192 + c \div 64, 224 + c \div 4096, 240 + (c \div 4096) \div 64}
        BY <1>1, <1>3 DEF g_unichar_to_utf8
      <3>2. c \div 64 >= 0 /\ c \div 4096 >= 0 /\ (c \div 4096) \div 64 >= 0
        BY <1>1
      <3> HIDE DEF u
      <3> QED  BY <1>1, <2>2, <3>1, <3>2
    <2>3. CASE j # 1
      <3> HIDE DEF u
      <3>1. u \in Seq(Byte) /\ Len(u) \in Nat
        BY <2>1 DEF OneCharacter
      <3>2. j \in 2 .. Len(u) /\ u[j] \in Byte
        BY <1>3, <2>3, <3>1
      <3>3. IsContinuation(u[j])
        BY <2>1, <3>2 DEF OneCharacter
      <3> QED  BY <3>2, <3>3, ContinuationAbove
    <2> QED  BY <2>2, <2>3
  <1> QED  BY <1>2, <1>3

\* The bytes that are 0 are those of NUL characters.
LEMMA ZeroBytes ==
  ASSUME NEW cs \in Texts, NEW q
  PROVE  (q \in 1 .. Len(Encode(cs)) /\ Encode(cs)[q] = 0)
            <=> \E k \in 1 .. Len(cs) : cs[k] = 0 /\ q = Offset(cs, k - 1) + 1
  <1> DEFINE b == Encode(cs)
  <1>1. Len(cs) \in Nat /\ Len(b) \in Nat
    BY EncodeBytes DEF Texts
  <1>2. ASSUME q \in 1 .. Len(b), b[q] = 0
        PROVE  \E k \in 1 .. Len(cs) : cs[k] = 0 /\ q = Offset(cs, k - 1) + 1
    <2>1. PICK k \in 1 .. Len(cs) :
            \E j \in 1 .. Len(g_unichar_to_utf8(cs[k])) : q = Offset(cs, k - 1) + j
      BY <1>2, Locate
    <2> DEFINE u == g_unichar_to_utf8(cs[k])
    <2>2. PICK j \in 1 .. Len(u) : q = Offset(cs, k - 1) + j
      BY <2>1
    <2>3. cs[k] \in Unicode /\ \A i \in 1 .. Len(u) : b[Offset(cs, k - 1) + i] = u[i]
      BY CharacterOf
    <2>4. u[j] = 0
      BY <1>2, <2>2, <2>3
    <2>5. cs[k] \in Nat
      BY <2>3 DEF Unicode
    <2>6. CASE cs[k] >= 128
      <3>1. u[j] >= 128
        BY <2>3, <2>6, AsciiBytes
      <3> QED  BY <2>4, <3>1
    <2>7. CASE cs[k] < 128
      <3>1. u = <<cs[k]>>
        BY <2>3, <2>7, AsciiBytes
      <3>2. j = 1 /\ u[1] = cs[k]
        <4> HIDE DEF u
        <4> QED  BY <3>1
      <3> QED  BY <2>2, <2>4, <3>2
    <2> QED  BY <2>5, <2>6, <2>7
  <1>3. ASSUME NEW k \in 1 .. Len(cs), cs[k] = 0, q = Offset(cs, k - 1) + 1
        PROVE  q \in 1 .. Len(b) /\ b[q] = 0
    <2> DEFINE u == g_unichar_to_utf8(cs[k])
    <2>1. /\ cs[k] \in Unicode /\ Offset(cs, k - 1) \in Nat
          /\ Offset(cs, k) = Offset(cs, k - 1) + Len(u) /\ Offset(cs, k) <= Len(b)
          /\ \A i \in 1 .. Len(u) : b[Offset(cs, k - 1) + i] = u[i]
      BY CharacterOf
    <2>2. u = <<cs[k]>>
      BY <1>3, <2>1, AsciiBytes
    <2>3. Len(u) = 1 /\ u[1] = 0
      <3> HIDE DEF u
      <3> QED  BY <1>3, <2>2
    <2> HIDE DEF u, b
    <2> QED  BY <1>1, <1>3, <2>1, <2>3
  <1> QED  BY <1>2, <1>3

\* The least of a set that has a least element.
LEMMA MinIs ==
  ASSUME NEW T, T \subseteq Int, NEW x \in T, \A y \in T : x <= y
  PROVE  Min(T) = x /\ Characters!Min(T) = x
  <1>1. Min(T) \in T /\ \A y \in T : Min(T) <= y
    BY DEF Min
  <1>2. Characters!Min(T) \in T /\ \A y \in T : Characters!Min(T) <= y
    BY DEF Characters!Min
  <1>3. x \in Int /\ Min(T) \in Int /\ Characters!Min(T) \in Int
    BY <1>1, <1>2
  <1>4. Min(T) <= x /\ x <= Min(T)
    BY <1>1
  <1>5. Characters!Min(T) <= x /\ x <= Characters!Min(T)
    BY <1>2
  <1> QED  BY <1>3, <1>4, <1>5

\* The greatest of a set that has a greatest element.
LEMMA MaxIs ==
  ASSUME NEW T, T \subseteq Int, NEW x \in T, \A y \in T : y <= x
  PROVE  Max(T) = x /\ Characters!Max(T) = x
  <1>1. Max(T) \in T /\ \A y \in T : y <= Max(T)
    BY DEF Max
  <1>2. Characters!Max(T) \in T /\ \A y \in T : y <= Characters!Max(T)
    BY DEF Characters!Max
  <1>3. x \in Int /\ Max(T) \in Int /\ Characters!Max(T) \in Int
    BY <1>1, <1>2
  <1>4. Max(T) <= x /\ x <= Max(T)
    BY <1>1
  <1>5. Characters!Max(T) <= x /\ x <= Characters!Max(T)
    BY <1>2
  <1> QED  BY <1>3, <1>4, <1>5

\* The characters before the first NUL.
LEMMA UpToNulIs ==
  ASSUME NEW cs \in Texts
  PROVE  \E m \in 0 .. Len(cs) :
           /\ Characters!UpToNul(cs) = SubSeq(cs, 1, m) /\ Characters!UpToNul(cs) \in Texts
           /\ Len(Characters!UpToNul(cs)) = m
           /\ \A k \in 1 .. m : cs[k] # 0
           /\ m = Len(cs) \/ cs[m + 1] = 0
  <1> DEFINE T == {Len(cs)} \cup {k - 1 : k \in {j \in DOMAIN cs : cs[j] = 0}}
  <1>1. Len(cs) \in Nat /\ DOMAIN cs = 1 .. Len(cs)
    BY DEF Texts
  <1>2. T \subseteq Nat /\ T # {}
    BY <1>1
  <1>3. PICK m \in T : \A y \in T : m <= y
    <2> HIDE DEF T
    <2> QED  BY <1>2, Least
  <1>4. Characters!UpToNul(cs) = SubSeq(cs, 1, m)
    <2>1. Characters!Min(T) = m
      <3> HIDE DEF T
      <3>1. T \subseteq Int
        BY <1>2
      <3> QED  BY <1>3, <3>1, MinIs
    <2> QED  BY <2>1 DEF Characters!UpToNul
  <1>5. m \in 0 .. Len(cs)
    BY <1>1, <1>3
  <1>6. SubSeq(cs, 1, m) \in Texts /\ Len(SubSeq(cs, 1, m)) = m
    <2>1. Len(cs) \in m .. Len(cs)
      BY <1>1, <1>5
    <2> QED  BY <1>5, <2>1, TextCut
  <1>7. \A k \in 1 .. m : cs[k] # 0
    <2> TAKE k \in 1 .. m
    <2>1. k \in DOMAIN cs /\ m \in Nat
      <3> HIDE DEF T
      <3> QED  BY <1>1, <1>5
    <2>2. cs[k] = 0 => k - 1 \in T
      BY <2>1
    <2>3. cs[k] = 0 => m <= k - 1
      BY <1>3, <2>2
    <2> HIDE DEF T
    <2> QED  BY <2>1, <2>3
  <1>8. m = Len(cs) \/ cs[m + 1] = 0
    BY <1>1, <1>3
  <1> HIDE DEF T
  <1> QED  BY <1>4, <1>5, <1>6, <1>7, <1>8

\* A C string ends at the first NUL, in characters and in bytes.
LEMMA CStringIs ==
  ASSUME NEW cs \in Texts
  PROVE  c_str(Encode(cs)) = Encode(Characters!UpToNul(cs))
  <1> DEFINE b == Encode(cs)
             T == {Len(b)} \cup {k - 1 : k \in {j \in DOMAIN b : b[j] = 0}}
  <1>1. Len(cs) \in Nat /\ Len(b) \in Nat /\ b \in Seq(Byte) /\ DOMAIN b = 1 .. Len(b)
    BY EncodeBytes DEF Texts
  <1>2. PICK m \in 0 .. Len(cs) :
           /\ Characters!UpToNul(cs) = SubSeq(cs, 1, m)
           /\ \A k \in 1 .. m : cs[k] # 0
           /\ m = Len(cs) \/ cs[m + 1] = 0
    BY UpToNulIs
  <1>3. Offset(cs, m) \in T
    <2>1. CASE m = Len(cs)
      BY <2>1, OffsetEnds
    <2>2. CASE m # Len(cs)
      <3>1. m + 1 \in 1 .. Len(cs) /\ cs[m + 1] = 0 /\ (m + 1) - 1 = m
        BY <1>1, <1>2, <2>2
      <3>2. Offset(cs, m) \in Nat
        <4>1. m \in m .. Len(cs)
          BY <1>1
        <4> QED  BY <4>1, SliceEncoded
      <3> DEFINE q == Offset(cs, (m + 1) - 1) + 1
      <3>3. q \in 1 .. Len(b) /\ b[q] = 0
        BY <3>1, ZeroBytes
      <3>4. q = Offset(cs, m) + 1
        BY <3>1, Zenon
      <3> HIDE DEF q, b
      <3>5. q \in DOMAIN b /\ q - 1 = Offset(cs, m)
        BY <1>1, <3>2, <3>3, <3>4
      <3> QED  BY <3>3, <3>5
    <2> QED  BY <2>1, <2>2
  <1>4. ASSUME NEW y \in T PROVE Offset(cs, m) <= y
    <2>1. CASE y = Len(b)
      <3>1. m \in m .. Len(cs)
        BY <1>1
      <3> QED  BY <2>1, <3>1, SliceEncoded
    <2>2. CASE y # Len(b)
      <3>1. PICK q \in 1 .. Len(b) : b[q] = 0 /\ y = q - 1
        BY <1>1, <1>4, <2>2
      <3>2. PICK k \in 1 .. Len(cs) : cs[k] = 0 /\ q = Offset(cs, k - 1) + 1
        BY <3>1, ZeroBytes
      <3>3. m <= k - 1
        BY <1>1, <1>2, <3>2
      <3>4. k - 1 \in m .. Len(cs)
        BY <1>1, <3>3
      <3> HIDE DEF b
      <3>5. Offset(cs, m) \in Nat /\ Offset(cs, k - 1) \in Nat
        BY <3>4, SliceEncoded
      <3>6. Offset(cs, m) + ((k - 1) - m) <= Offset(cs, k - 1)
        BY <3>4, OffsetsGrow
      <3>7. y = Offset(cs, k - 1)
        BY <3>1, <3>2, <3>5
      <3> QED  BY <1>1, <3>3, <3>5, <3>6, <3>7
    <2> QED  BY <2>1, <2>2
  <1>5. Min(T) = Offset(cs, m)
    <2>1. T \subseteq Int
      BY <1>1
    <2> HIDE DEF T
    <2> QED  BY <1>3, <1>4, <2>1, MinIs
  <1>6. c_str(b) = SubSeq(b, 1, Offset(cs, m))
    BY <1>5 DEF c_str
  <1>7. SubSeq(b, 1, Offset(cs, m)) = Encode(SubSeq(cs, 1, m))
    <2>1. 0 \in 0 .. Len(cs) /\ m \in 0 .. Len(cs)
      BY <1>1
    <2>2. SubSeq(b, Offset(cs, 0) + 1, Offset(cs, m)) = Encode(SubSeq(cs, 0 + 1, m))
      BY <2>1, SliceEncoded
    <2>3. Offset(cs, 0) + 1 = 1 /\ 0 + 1 = 1
      BY OffsetEnds
    <2> QED  BY <2>2, <2>3, Zenon
  <1> HIDE DEF b
  <1> QED  BY <1>2, <1>6, <1>7 DEF b

\* Without a NUL it is the whole string.
LEMMA CStringWhole ==
  ASSUME NEW cs \in Texts, 0 \notin Range(cs)
  PROVE  Characters!UpToNul(cs) = cs
  <1>1. PICK m \in 0 .. Len(cs) : Characters!UpToNul(cs) = SubSeq(cs, 1, m) /\ (m = Len(cs) \/ cs[m + 1] = 0)
    BY UpToNulIs
  <1>2. Len(cs) \in Nat /\ DOMAIN cs = 1 .. Len(cs) /\ SubSeq(cs, 1, Len(cs)) = cs
    BY DEF Texts
  <1>3. m = Len(cs)
    BY <1>1, <1>2 DEF Range
  <1> QED  BY <1>1, <1>2, <1>3

-----------------------------------------------------------------------------
(* The arguments of calls.                                                   *)

\* Each string holds the bytes of its characters.
LEMMA StringText ==
  ASSUME NEW strings, GoodStrings(strings), NEW o \in {"s", "t"}
  PROVE  /\ CharsOf(strings)[o] \in Texts /\ strings[o] = Encode(CharsOf(strings)[o])
         /\ Len(Encode(CharsOf(strings)[o])) < npos /\ Len(CharsOf(strings)[o]) < npos
  <1>1. Good(strings[o]) /\ Len(strings[o]) < npos
    BY DEF GoodStrings
  <1> DEFINE cs == CharsOf(strings)[o]
  <1>2. cs \in Texts /\ strings[o] = Encode(cs)
    BY <1>1, GoodText DEF CharsOf
  <1> HIDE DEF cs
  <1>3. Len(cs) \in Nat /\ Len(Encode(cs)) \in Nat /\ npos \in Nat
    BY <1>2, EncodeBytes DEF Texts, npos
  <1>4. Offset(cs, 0) + (Len(cs) - 0) <= Offset(cs, Len(cs))
    <2>1. 0 \in 0 .. Len(cs) /\ Len(cs) \in 0 .. Len(cs)
      BY <1>3
    <2> QED  BY <1>2, <2>1, OffsetsGrow
  <1>5. 0 + (Len(cs) - 0) <= Len(Encode(cs))
    BY <1>2, <1>4, OffsetEnds
  <1>6. Len(Encode(cs)) < npos
    BY <1>1, <1>2
  <1> QED  BY <1>2, <1>3, <1>5, <1>6 DEF cs

\* A character of ASCII repeated is as many bytes.
LEMMA AsciiRepeated ==
  ASSUME NEW n \in Nat, NEW c \in Unicode, c < 128
  PROVE  Encode([j \in 1 .. n |-> c]) = [j \in 1 .. n |-> c]
  <1> DEFINE row(k) == [j \in 1 .. k |-> c]
             S == {k \in 0 .. n : Encode(row(k)) = row(k)}
  <1>1. 0 \in S
    <2>1. row(0) = <<>>
      OBVIOUS
    <2>2. Encode(row(0)) = row(0)
      <3> HIDE DEF row
      <3> QED  BY <2>1, EncodeEmpty
    <2> HIDE DEF row
    <2> QED  BY <2>2
  <1>2. ASSUME NEW k \in 1 .. n, k - 1 \in S PROVE k \in S
    <2>1. row(k - 1) \in Seq(Unicode) /\ row(k) = Append(row(k - 1), c)
      <3>1. c \in Unicode /\ k - 1 \in Nat /\ (k - 1) + 1 = k
        OBVIOUS
      <3>2. row(k - 1) \in Seq(Unicode) /\ Len(row(k - 1)) = k - 1
        BY <3>1
      <3>3. Append(row(k - 1), c) \in Seq(Unicode) /\ Len(Append(row(k - 1), c)) = k
        BY <3>1, <3>2
      <3>4. row(k) \in Seq(Unicode) /\ Len(row(k)) = k
        BY <3>1
      <3>5. \A j \in 1 .. k : row(k)[j] = Append(row(k - 1), c)[j]
        BY <3>1
      <3> HIDE DEF row
      <3>6. row(k) = Append(row(k - 1), c)
        BY <3>3, <3>4, <3>5, SeqEqual
      <3> QED  BY <3>2, <3>6
    <2>2. g_unichar_to_utf8(c) = <<c>>
      BY AsciiBytes
    <2> HIDE DEF row
    <2>3. Encode(row(k)) = Encode(row(k - 1)) \o <<c>>
      BY <2>1, <2>2, EncodeAppend
    <2>4. Encode(row(k - 1)) = row(k - 1)
      BY <1>2
    <2>5. row(k - 1) \o <<c>> = Append(row(k - 1), c)
      BY <2>1
    <2>6. Encode(row(k)) = row(k)
      BY <2>1, <2>3, <2>4, <2>5, Zenon
    <2>7. k \in 0 .. n
      OBVIOUS
    <2> QED  BY <2>6, <2>7
  <1> HIDE DEF S
  <1>3. n \in S
    <2>1. \A k \in 0 .. n : k \in S
      BY <1>1, <1>2, Induction
    <2> QED  BY <2>1
  <1> QED  BY <1>3 DEF S

\* A character repeated, in bytes.
LEMMA FillIs ==
  ASSUME NEW n \in Nat, NEW uc \in Unicode
  PROVE  fill(n, uc) = Encode([j \in 1 .. n |-> uc]) /\ [j \in 1 .. n |-> uc] \in Texts
  <1>1. [j \in 1 .. n |-> uc] \in Texts
    BY DEF Texts
  <1>2. uc \in Nat
    BY DEF Unicode
  <1>3. fill(n, uc) = Encode([j \in 1 .. n |-> uc])
    BY <1>2, AsciiRepeated, Zenon DEF fill
  <1> QED  BY <1>1, <1>3

\* A C string and a number of its characters.
LEMMA CharsYield ==
  ASSUME NEW cs \in Texts, 0 \notin Range(cs), Len(Encode(cs)) < npos, NEW n \in Nat
  PROVE  Yields(std_chars(Encode(cs), utf8_byte_offset_cstr(Encode(cs), n)),
                IF n > Len(cs) THEN "length_error" ELSE "none", Characters!Mid(cs, 0, n))
  <1>1. Len(cs) \in Nat /\ Len(Encode(cs)) \in Nat /\ npos \in Nat
    BY EncodeBytes DEF Texts, npos
  <1>2. c_str(Encode(cs)) = Encode(cs)
    BY CStringIs, CStringWhole
  <1>3. utf8_byte_offset_cstr(Encode(cs), n) = IF n <= Len(cs) THEN Offset(cs, n) ELSE npos
    BY <1>2, ByteOffsetIs DEF utf8_byte_offset_cstr
  <1>4. CASE n > Len(cs)
    BY <1>1, <1>3, <1>4 DEF std_chars, Yields, throw
  <1>5. CASE ~(n > Len(cs))
    <2>1. 0 \in 0 .. Len(cs) /\ n \in 0 .. Len(cs) /\ n \in 0 .. Len(cs) /\ n <= Len(cs) /\ 0 + n = n
      BY <1>1, <1>5
    <2>2. Offset(cs, n) # npos
      <3>1. Offset(cs, n) \in 0 .. Len(Encode(cs))
        BY <2>1, OffsetsGrow
      <3> QED  BY <1>1, <3>1
    <2>3. SubSeq(Encode(cs), 1, Offset(cs, n)) = Encode(SubSeq(cs, 1, n))
      <3>1. SubSeq(Encode(cs), Offset(cs, 0) + 1, Offset(cs, n)) = Encode(SubSeq(cs, 0 + 1, n))
        BY <2>1, SliceEncoded
      <3>2. Offset(cs, 0) + 1 = 1 /\ 0 + 1 = 1
        BY OffsetEnds
      <3> QED  BY <3>1, <3>2, Zenon
    <2>4. Characters!Mid(cs, 0, n) = SubSeq(cs, 1, n) /\ SubSeq(cs, 1, n) \in Texts
      <3> DEFINE j == IF 0 + n <= Len(cs) THEN 0 + n ELSE Len(cs)
      <3>1. Characters!Mid(cs, 0, n) = SubSeq(cs, 0 + 1, j) /\ Characters!Mid(cs, 0, n) \in Texts
        BY <2>1, MidIs
      <3>2. j = n /\ 0 + 1 = 1
        BY <2>1
      <3> HIDE DEF j
      <3>3. Characters!Mid(cs, 0, n) = SubSeq(cs, 1, n)
        BY <3>1, <3>2, Zenon
      <3> QED  BY <3>1, <3>3
    <2>5. std_chars(Encode(cs), utf8_byte_offset_cstr(Encode(cs), n)) = ok(Encode(SubSeq(cs, 1, n)))
      BY <1>3, <2>1, <2>2, <2>3 DEF std_chars
    <2> DEFINE part == SubSeq(cs, 1, n)
    <2>6. Yields(ok(Encode(part)), "none", part)
      <3>1. part \in Texts
        BY <2>4
      <3> HIDE DEF part
      <3> QED  BY <3>1 DEF Yields, ok
    <2>7. (IF n > Len(cs) THEN "length_error" ELSE "none") = "none"
      BY <1>5
    <2> QED  BY <2>4, <2>5, <2>6, <2>7, Zenon
  <1> QED  BY <1>4, <1>5

\* C strings are texts without NUL.
LEMMA LiteralText ==
  ASSUME NEW s \in Literals
  PROVE  s \in Texts /\ 0 \notin Range(s) /\ Len(Encode(s)) < npos
  BY UstringAssumption DEF Texts

\* The bytes of an argument are those of the characters it stands for, or the same exception.
LEMMA SourceYields ==
  ASSUME GoodStrings(str), NEW src \in Sources \cup One \cup {NoText}
  PROVE  Yields(ustring(src), Characters!Fault(src), Characters!Text(src))
  <1> DEFINE chars == CharsOf(str)
  <1>1. /\ Positions \subseteq Nat /\ Counts \subseteq Nat /\ Chars \subseteq Unicode
        /\ \A o \in {"s", "t"} : /\ chars[o] \in Texts /\ str[o] = Encode(chars[o])
                                 /\ Len(Encode(chars[o])) < npos
    BY StringText, UstringAssumption
  <1>2. chars = [o \in {"s", "t"} |-> Decoded(str[o])]
    BY DEF CharsOf
  <1>3. CASE src \in Whole
    <2>1. src.k = "ustring" /\ src.o \in {"s", "t"}
      BY <1>3 DEF Whole
    <2>2. Characters!Text(src) = chars[src.o] /\ Characters!Fault(src) = "none"
      BY <1>2, <2>1 DEF Characters!Text, Characters!Fault
    <2>3. ustring(src) = ok(str[src.o])
      BY <2>1 DEF ustring
    <2> HIDE DEF chars
    <2> QED  BY <1>1, <2>1, <2>2, <2>3 DEF Yields, ok
  <1>4. CASE src \in Sub
    <2>1. src.k = "sub" /\ src.o \in {"s", "t"} /\ src.i \in Nat /\ src.n \in Nat
      BY <1>1, <1>4 DEF Sub
    <2>2. /\ Characters!Text(src) = Characters!Mid(chars[src.o], src.i, src.n)
          /\ Characters!Fault(src) = IF src.i > Len(chars[src.o]) THEN "out_of_range" ELSE "none"
      BY <1>2, <2>1 DEF Characters!Text, Characters!Fault
    <2>3. ustring(src) = LET bounds == Utf8SubstrBounds(str[src.o], src.i, src.n)
                         IN  std_sub(str[src.o], bounds.i, bounds.n)
      BY <2>1 DEF ustring
    <2> HIDE DEF chars
    <2>4. LET bounds == Utf8SubstrBounds(Encode(chars[src.o]), src.i, src.n) IN
          Yields(std_sub(Encode(chars[src.o]), bounds.i, bounds.n),
                 IF src.i > Len(chars[src.o]) THEN "out_of_range" ELSE "none",
                 Characters!Mid(chars[src.o], src.i, src.n))
      BY <1>1, <2>1, SubYields
    <2> QED  BY <1>1, <2>1, <2>2, <2>3, <2>4, Zenon
  <1>5. CASE src \in Cstr \cup Pairs \cup {NoText}
    <2>1. src.k \in {"cstr", "range"} /\ src.s \in Texts
      <3>1. <<>> \in Texts
        BY DEF Texts
      <3> QED  BY <1>5, <3>1, LiteralText DEF Cstr, Pairs, NoText
    <2>2. Characters!Text(src) = src.s /\ Characters!Fault(src) = "none"
      BY <2>1 DEF Characters!Text, Characters!Fault
    <2>3. ustring(src) = ok(Encode(src.s))
      BY <2>1 DEF ustring, SequenceToString
    <2> QED  BY <2>1, <2>2, <2>3 DEF Yields, ok
  <1>6. CASE src \in CstrN
    <2>1. src.k = "cstrn" /\ src.s \in Literals /\ src.n \in Nat
      BY <1>1, <1>6 DEF CstrN
    <2>2. /\ Characters!Text(src) = Characters!Mid(src.s, 0, src.n)
          /\ Characters!Fault(src) = IF src.n > Len(src.s) THEN "length_error" ELSE "none"
      BY <2>1 DEF Characters!Text, Characters!Fault
    <2>3. ustring(src) = std_chars(Encode(src.s), utf8_byte_offset_cstr(Encode(src.s), src.n))
      BY <2>1 DEF ustring
    <2> QED  BY <2>1, <2>2, <2>3, CharsYield, LiteralText
  <1>7. CASE src \in Many \cup One
    <2>1. src.k \in {"fill", "fillc"} /\ src.n \in Nat /\ src.uc \in Unicode
      <3>1. Counts \ {npos} \subseteq Nat /\ {1} \subseteq Nat /\ Chars \cap 0 .. 127 \subseteq Unicode
        <4>1. Counts \ {npos} \subseteq Nat /\ Chars \cap 0 .. 127 \subseteq Unicode
          BY <1>1, Zenon
        <4>2. {1} \subseteq Nat
          OBVIOUS
        <4> QED  BY <4>1, <4>2
      <3>2. CASE src \in Many
        BY <1>1, <3>1, <3>2 DEF Many
      <3>3. CASE src \in One
        BY <1>1, <3>1, <3>3 DEF One
      <3> QED  BY <1>7, <3>2, <3>3
    <2>2. Characters!Text(src) = [j \in 1 .. src.n |-> src.uc] /\ Characters!Fault(src) = "none"
      BY <2>1 DEF Characters!Text, Characters!Fault
    <2>3. ustring(src) = ok(fill(src.n, src.uc))
      BY <2>1 DEF ustring
    <2>4. /\ fill(src.n, src.uc) = Encode([j \in 1 .. src.n |-> src.uc])
          /\ [j \in 1 .. src.n |-> src.uc] \in Texts
      BY <2>1, FillIs
    <2> DEFINE row == [j \in 1 .. src.n |-> src.uc]
    <2>5. Yields(ok(Encode(row)), "none", row)
      <3>1. row \in Texts
        BY <2>4
      <3> HIDE DEF row
      <3> QED  BY <3>1 DEF Yields, ok
    <2> QED  BY <2>2, <2>3, <2>4, <2>5, Zenon
  <1> QED  BY <1>3, <1>4, <1>5, <1>6, <1>7 DEF Sources

-----------------------------------------------------------------------------
(* Sizes and indices.                                                        *)

(* A recursive function on D with values in V: given where it stops, and     *)
(* elsewhere a step from the value at an argument of lower rank.             *)
Descends(D, M, rank, V, v, stop, base, next, step) ==
  /\ M \in Nat /\ rank \in [D -> 0 .. M] /\ v \in V
  /\ \A p \in D : p \in stop => base[p] \in V
  /\ \A p \in D : p \notin stop =>
       next[p] \in D /\ rank[next[p]] < rank[p] /\ \A x \in V : step[p][x] \in V
Solves(f, D, V, stop, base, next, step) ==
  f \in [D -> V] /\ \A p \in D : f[p] = IF p \in stop THEN base[p] ELSE step[p][f[next[p]]]

\* There is such a function.
LEMMA RankedRecursion ==
  ASSUME NEW D, NEW M, NEW rank, NEW V, NEW v, NEW stop, NEW base, NEW next, NEW step,
         Descends(D, M, rank, V, v, stop, base, next, step)
  PROVE  \E f : Solves(f, D, V, stop, base, next, step)
  <1> SUFFICES \E f \in [D -> V] : \A p \in D : f[p] = IF p \in stop THEN base[p] ELSE step[p][f[next[p]]]
    BY DEF Solves
  <1>0. /\ M \in Nat /\ rank \in [D -> 0 .. M] /\ v \in V
        /\ \A p \in D : p \in stop => base[p] \in V
        /\ \A p \in D : p \notin stop =>
             next[p] \in D /\ rank[next[p]] < rank[p] /\ \A x \in V : step[p][x] \in V
    BY DEF Descends
  <1> USE <1>0
  <1> DEFINE Body(f, p) == IF p \in stop THEN base[p] ELSE step[p][f[next[p]]]
             Upto(f, m) == \A p \in D : rank[p] <= m => f[p] = Body(f, p)
             S == {m \in 0 .. M : \E f \in [D -> V] : Upto(f, m)}
  <1>1. ASSUME NEW f \in [D -> V], NEW p \in D PROVE Body(f, p) \in V
    <2>1. CASE p \in stop
      BY <2>1
    <2>2. CASE p \notin stop
      <3>1. next[p] \in D /\ \A x \in V : step[p][x] \in V
        BY <2>2
      <3>2. f[next[p]] \in V
        BY <3>1
      <3> QED  BY <2>2, <3>1, <3>2
    <2> QED  BY <2>1, <2>2
  <1>2. 0 \in S
    <2> DEFINE f == [p \in D |-> IF p \in stop THEN base[p] ELSE v]
    <2>1. f \in [D -> V] /\ \A p \in D : p \in stop => f[p] = base[p]
      OBVIOUS
    <2> HIDE DEF f
    <2>2. \A p \in D : rank[p] <= 0 => p \in stop
      <3> SUFFICES ASSUME NEW p \in D, rank[p] <= 0, p \notin stop PROVE FALSE
        OBVIOUS
      <3>1. next[p] \in D /\ rank[next[p]] < rank[p] /\ rank[p] \in 0 .. M
        OBVIOUS
      <3>2. rank[next[p]] \in 0 .. M
        BY <3>1
      <3> QED  BY <3>1, <3>2
    <2>3. Upto(f, 0)
      BY <2>1, <2>2
    <2> HIDE DEF Upto
    <2> QED  BY <2>1, <2>3
  <1>3. ASSUME NEW m \in 1 .. M, m - 1 \in S PROVE m \in S
    <2>1. PICK f \in [D -> V] : Upto(f, m - 1)
      BY <1>3
    <2> DEFINE h == [p \in D |-> IF rank[p] <= m - 1 THEN f[p] ELSE Body(f, p)]
    <2>2. h \in [D -> V]
      <3> HIDE DEF Body
      <3> QED  BY <1>1
    <2>3. \A p \in D : rank[p] <= m - 1 => h[p] = f[p]
      OBVIOUS
    <2>4. \A p \in D : ~(rank[p] <= m - 1) => h[p] = Body(f, p)
      <3> HIDE DEF Body
      <3> QED  OBVIOUS
    <2> HIDE DEF h
    <2>5. ASSUME NEW p \in D, rank[p] <= m PROVE h[p] = Body(f, p) /\ Body(f, p) = Body(h, p)
      <3>1. h[p] = Body(f, p)
        <4>1. CASE rank[p] <= m - 1
          <5> HIDE DEF Body
          <5> QED  BY <2>1, <2>3, <4>1
        <4> HIDE DEF Body
        <4> QED  BY <2>4, <4>1
      <3>2. CASE p \notin stop
        <4>1. next[p] \in D /\ rank[next[p]] < rank[p] /\ rank[p] \in 0 .. M
          BY <3>2
        <4>2. rank[next[p]] \in 0 .. M
          BY <4>1
        <4>3. rank[next[p]] <= m - 1
          BY <2>5, <4>1, <4>2
        <4>4. h[next[p]] = f[next[p]]
          BY <2>3, <4>1, <4>3
        <4> QED  BY <3>1, <3>2, <4>4
      <3>3. CASE p \in stop
        BY <3>1, <3>3
      <3> QED  BY <3>2, <3>3
    <2>6. Upto(h, m)
      <3> HIDE DEF Body
      <3> QED  BY <2>5
    <2> HIDE DEF Upto
    <2> QED  BY <2>2, <2>6
  <1> HIDE DEF S
  <1>4. M \in S
    <2>1. \A m \in 0 .. M : m \in S
      BY <1>2, <1>3, Induction
    <2> QED  BY <2>1
  <1>5. PICK f \in [D -> V] : Upto(f, M)
    BY <1>4 DEF S
  <1>6. ASSUME NEW p \in D PROVE f[p] = Body(f, p)
    <2>1. rank[p] \in 0 .. M
      OBVIOUS
    <2> HIDE DEF Body
    <2> QED  BY <1>5, <2>1
  <1> QED  BY <1>6

\* The rank of an offset: how far it is from the end.
Forward(N, V, v, stop, base, next, step) ==
  /\ N \in Nat /\ v \in V
  /\ \A p \in 0 .. N : p \in stop => base[p] \in V
  /\ \A p \in 0 .. N : p \notin stop => next[p] \in p + 1 .. N /\ \A x \in V : step[p][x] \in V

\* A function on the offsets that looks forwards exists.
LEMMA ForwardRecursion ==
  ASSUME NEW N, NEW V, NEW v, NEW stop, NEW base, NEW next, NEW step,
         Forward(N, V, v, stop, base, next, step)
  PROVE  \E f : Solves(f, 0 .. N, V, stop, base, next, step)
  <1>0. /\ N \in Nat /\ v \in V
        /\ \A p \in 0 .. N : p \in stop => base[p] \in V
        /\ \A p \in 0 .. N : p \notin stop => next[p] \in p + 1 .. N /\ \A x \in V : step[p][x] \in V
    BY DEF Forward
  <1> DEFINE rank == [p \in 0 .. N |-> N - p]
  <1>1. rank \in [0 .. N -> 0 .. N] /\ \A p \in 0 .. N : rank[p] = N - p
    BY <1>0
  <1> HIDE DEF rank
  <1>2. ASSUME NEW p \in 0 .. N, p \notin stop
        PROVE  next[p] \in 0 .. N /\ rank[next[p]] < rank[p] /\ \A x \in V : step[p][x] \in V
    <2>1. next[p] \in p + 1 .. N /\ \A x \in V : step[p][x] \in V
      BY <1>0, <1>2
    <2>2. next[p] \in 0 .. N /\ N - next[p] < N - p
      BY <1>0, <2>1
    <2> QED  BY <1>1, <2>1, <2>2
  <1>3. Descends(0 .. N, N, rank, V, v, stop, base, next, step)
    BY <1>0, <1>1, <1>2 DEF Descends
  <1> QED  BY <1>3, RankedRecursion

\* The places that stepping through a string visits.
LEMMA StepsStepwise ==
  ASSUME NEW b, Len(b) \in Nat
  PROVE  \E at : /\ Steps(b) = at[0]
                 /\ \A p \in 0 .. Len(b) + 4 :
                      at[p] = IF p >= Len(b) THEN {} ELSE {p} \cup at[p + g_utf8_skip(b[p + 1])]
  <1> DEFINE L == Len(b)
             N == L + 4
             Full(f) == f = [p \in 0 .. N |-> IF p >= L THEN {} ELSE {p} \cup f[p + g_utf8_skip(b[p + 1])]]
             at == CHOOSE f : Full(f)
             stop == {p \in 0 .. N : p >= L}
             base == [p \in 0 .. N |-> {}]
             next == [p \in 0 .. N |-> p + g_utf8_skip(b[p + 1])]
             V == SUBSET (0 .. N)
             step == [p \in 0 .. N |-> [x \in V |-> {p} \cup x]]
  <1>1. Steps(b) = at[0]
    BY DEF Steps
  <1>2. L \in Nat /\ N \in Nat /\ N = L + 4
    OBVIOUS
  <1> HIDE DEF L, N
  <1>3. /\ {} \in V /\ \A p \in 0 .. N : base[p] \in V /\ base[p] = {}
        /\ \A p \in 0 .. N : p \in stop <=> p >= L
        /\ \A p \in 0 .. N, x \in V : step[p][x] = {p} \cup x /\ {p} \cup x \in V
        /\ \A p \in 0 .. N : next[p] = p + g_utf8_skip(b[p + 1])
    OBVIOUS
  <1> HIDE DEF stop, base, next, step, V
  <1>4. ASSUME NEW p \in 0 .. N, p \notin stop PROVE next[p] \in p + 1 .. N
    <2>1. g_utf8_skip(b[p + 1]) \in 1 .. 4 /\ ~(p >= L)
      BY <1>3, <1>4, Skips
    <2>2. next[p] = p + g_utf8_skip(b[p + 1])
      BY <1>3
    <2> DEFINE skip == g_utf8_skip(b[p + 1])
    <2> HIDE DEF skip
    <2>3. skip \in 1 .. 4 /\ next[p] = p + skip
      BY <2>1, <2>2 DEF skip
    <2> QED  BY <1>2, <2>1, <2>3
  <1>5. Forward(N, V, {}, stop, base, next, step)
    <2>1. \A p \in 0 .. N : p \notin stop => next[p] \in p + 1 .. N /\ \A x \in V : step[p][x] \in V
      <3> SUFFICES ASSUME NEW p \in 0 .. N, p \notin stop
                   PROVE  next[p] \in p + 1 .. N /\ \A x \in V : step[p][x] \in V
        OBVIOUS
      <3>1. ASSUME NEW x \in V PROVE step[p][x] \in V
        <4>1. step[p][x] = {p} \cup x /\ {p} \cup x \in V
          BY <1>3
        <4> QED  BY <4>1
      <3> QED  BY <1>4, <3>1
    <2>2. \A p \in 0 .. N : p \in stop => base[p] \in V
      BY <1>3
    <2>3. {} \in V /\ N \in Nat
      BY <1>2, <1>3
    <2> QED  BY <2>1, <2>2, <2>3 DEF Forward
  <1>6. PICK f \in [0 .. N -> V] :
          \A p \in 0 .. N : f[p] = IF p \in stop THEN base[p] ELSE step[p][f[next[p]]]
    BY <1>5, ForwardRecursion DEF Solves
  <1>7. ASSUME NEW p \in 0 .. N
        PROVE  f[p] = IF p >= L THEN {} ELSE {p} \cup f[p + g_utf8_skip(b[p + 1])]
    <2>1. CASE p >= L
      BY <1>3, <1>6, <2>1
    <2>2. CASE ~(p >= L)
      <3>1. p \notin stop /\ next[p] \in 0 .. N
        <4>1. p \notin stop
          BY <1>3, <2>2
        <4>2. next[p] \in p + 1 .. N
          BY <1>4, <4>1
        <4> QED  BY <4>1, <4>2
      <3>2. f[p] = step[p][f[next[p]]] /\ f[next[p]] \in V
        BY <1>6, <3>1
      <3> QED  BY <1>3, <2>2, <3>2
    <2> QED  BY <2>1, <2>2
  <1>8. Full(f)
    BY <1>7
  <1>9. Full(at)
    <2> HIDE DEF Full
    <2> QED  BY <1>8
  <1> HIDE DEF at
  <1>10. \A p \in 0 .. N : at[p] = IF p >= L THEN {} ELSE {p} \cup at[p + g_utf8_skip(b[p + 1])]
    BY <1>9
  <1> QED  BY <1>1, <1>10 DEF L, N

\* Characters start at their offsets, and the next one starts where one ends.
LEMMA OffsetStep ==
  ASSUME NEW cs \in Texts, NEW k \in 0 .. Len(cs) - 1
  PROVE  /\ Offset(cs, k) \in 0 .. Len(Encode(cs)) - 1
         /\ Encode(cs)[Offset(cs, k) + 1] = g_unichar_to_utf8(cs[k + 1])[1]
         /\ Offset(cs, k) + g_utf8_skip(Encode(cs)[Offset(cs, k) + 1]) = Offset(cs, k + 1)
         /\ ~IsContinuation(Encode(cs)[Offset(cs, k) + 1])
  <1> DEFINE u == g_unichar_to_utf8(cs[k + 1])
  <1>1. Len(cs) \in Nat /\ Len(Encode(cs)) \in Nat /\ k + 1 \in 1 .. Len(cs) /\ (k + 1) - 1 = k
    BY EncodeBytes DEF Texts
  <1>2. /\ OneCharacter(u)
        /\ Offset(cs, (k + 1) - 1) \in Nat /\ Offset(cs, k + 1) = Offset(cs, (k + 1) - 1) + Len(u)
        /\ Offset(cs, k + 1) <= Len(Encode(cs))
        /\ \A j \in 1 .. Len(u) : Encode(cs)[Offset(cs, (k + 1) - 1) + j] = u[j]
    BY <1>1, CharacterOf
  <1> HIDE DEF u
  <1>3. Len(u) \in 1 .. 4 /\ Len(u) = g_utf8_skip(u[1]) /\ ~IsContinuation(u[1])
    BY <1>2 DEF OneCharacter
  <1>4. /\ Offset(cs, k) \in Nat /\ Offset(cs, k + 1) = Offset(cs, k) + Len(u)
        /\ Encode(cs)[Offset(cs, k) + 1] = u[1]
    BY <1>1, <1>2, <1>3
  <1>5. Offset(cs, k) \in 0 .. Len(Encode(cs)) - 1
    BY <1>1, <1>2, <1>3, <1>4
  <1> QED  BY <1>3, <1>4, <1>5 DEF u

\* Offsets are in the order of the characters.
LEMMA OffsetOrder ==
  ASSUME NEW cs \in Texts, NEW i \in 0 .. Len(cs), NEW j \in 0 .. Len(cs)
  PROVE  /\ Offset(cs, i) \in 0 .. Len(Encode(cs)) /\ Offset(cs, j) \in 0 .. Len(Encode(cs))
         /\ i < j <=> Offset(cs, i) < Offset(cs, j)
         /\ i = j <=> Offset(cs, i) = Offset(cs, j)
  <1>1. Len(cs) \in Nat
    BY DEF Texts
  <1>2. Offset(cs, i) \in 0 .. Len(Encode(cs)) /\ Offset(cs, j) \in 0 .. Len(Encode(cs))
    <2>1. i \in i .. Len(cs) /\ j \in j .. Len(cs)
      BY <1>1
    <2> QED  BY <2>1, OffsetsGrow
  <1>3. i <= j => Offset(cs, i) + (j - i) <= Offset(cs, j)
    <2>1. i <= j => j \in i .. Len(cs)
      OBVIOUS
    <2> QED  BY <2>1, OffsetsGrow
  <1>4. j <= i => Offset(cs, j) + (i - j) <= Offset(cs, i)
    <2>1. j <= i => i \in j .. Len(cs)
      OBVIOUS
    <2> QED  BY <2>1, OffsetsGrow
  <1>5. Len(Encode(cs)) \in Nat
    BY EncodeBytes
  <1> QED  BY <1>1, <1>2, <1>3, <1>4, <1>5

\* The starts of the characters from the i-th to the one before the j-th.
Starts(cs, i, j) == {Offset(cs, k) : k \in i .. j - 1}

\* There are as many of them as characters.
LEMMA StartsCounted ==
  ASSUME NEW cs \in Texts, NEW i \in 0 .. Len(cs), NEW j \in i .. Len(cs)
  PROVE  IsFiniteSet(Starts(cs, i, j)) /\ Cardinality(Starts(cs, i, j)) = j - i
  <1> DEFINE S == {n \in 0 .. Len(cs) - i : /\ IsFiniteSet(Starts(cs, i, i + n))
                                           /\ Cardinality(Starts(cs, i, i + n)) = n}
  <1>1. Len(cs) \in Nat /\ Len(cs) - i \in Nat
    BY DEF Texts
  <1>2. 0 \in S
    <2>1. Starts(cs, i, i + 0) = {} /\ 0 \in 0 .. Len(cs) - i
      BY <1>1 DEF Starts
    <2> QED  BY <2>1, FS_EmptySet
  <1>3. ASSUME NEW n \in 1 .. Len(cs) - i, n - 1 \in S PROVE n \in S
    <2> DEFINE T == Starts(cs, i, i + (n - 1))
               x == Offset(cs, i + (n - 1))
    <2>1. IsFiniteSet(T) /\ Cardinality(T) = n - 1 /\ n \in 0 .. Len(cs) - i
      BY <1>3
    <2>2. Starts(cs, i, i + n) = T \cup {x}
      <3>1. i .. (i + n) - 1 = (i .. (i + (n - 1)) - 1) \cup {i + (n - 1)}
        BY <1>1
      <3> QED  BY <3>1 DEF Starts
    <2>3. x \notin T
      <3> SUFFICES ASSUME NEW k \in i .. (i + (n - 1)) - 1, Offset(cs, k) = x PROVE FALSE
        BY DEF Starts
      <3>1. k \in 0 .. Len(cs) /\ i + (n - 1) \in 0 .. Len(cs) /\ k # i + (n - 1)
        BY <1>1
      <3> QED  BY <3>1, OffsetOrder
    <2> HIDE DEF T, x
    <2>4. IsFiniteSet(T \cup {x}) /\ Cardinality(T \cup {x}) = (n - 1) + 1
      BY <2>1, <2>3, FS_AddElement
    <2>5. (n - 1) + 1 = n
      OBVIOUS
    <2> QED  BY <2>1, <2>2, <2>4, <2>5
  <1> HIDE DEF S
  <1>4. j - i \in S
    <2>1. \A n \in 0 .. Len(cs) - i : n \in S
      BY <1>1, <1>2, <1>3, Induction
    <2>2. j - i \in 0 .. Len(cs) - i
      BY <1>1
    <2> QED  BY <2>1, <2>2
  <1>5. i + (j - i) = j
    BY <1>1
  <1> QED  BY <1>4, <1>5 DEF S

\* Stepping through a text visits the starts of its characters.
LEMMA StepsAre ==
  ASSUME NEW cs \in Texts
  PROVE  Steps(Encode(cs)) = Starts(cs, 0, Len(cs))
  <1> DEFINE b == Encode(cs)
             L == Len(cs)
  <1>1. L \in Nat /\ Len(b) \in Nat
    BY EncodeBytes DEF Texts
  <1>2. PICK at : /\ Steps(b) = at[0]
                  /\ \A p \in 0 .. Len(b) + 4 :
                      at[p] = IF p >= Len(b) THEN {} ELSE {p} \cup at[p + g_utf8_skip(b[p + 1])]
    BY <1>1, StepsStepwise
  <1> DEFINE S == {n \in 0 .. L : at[Offset(cs, L - n)] = Starts(cs, L - n, L)}
  <1>3. 0 \in S
    <2>1. L - 0 = L /\ Offset(cs, L) = Len(b) /\ 0 \in 0 .. L
      BY <1>1, OffsetEnds
    <2>2. at[Len(b)] = {}
      <3> HIDE DEF b
      <3>1. Len(b) \in 0 .. Len(b) + 4 /\ Len(b) >= Len(b)
        BY <1>1
      <3> QED  BY <1>2, <3>1
    <2>3. Starts(cs, L, L) = {}
      BY <1>1 DEF Starts
    <2> QED  BY <2>1, <2>2, <2>3
  <1>4. ASSUME NEW n \in 1 .. L, n - 1 \in S PROVE n \in S
    <2> DEFINE k == L - n
               p == Offset(cs, k)
    <2>1. k \in 0 .. Len(cs) - 1 /\ L - (n - 1) = k + 1 /\ n \in 0 .. L /\ k \in Nat
      BY <1>1
    <2> HIDE DEF k
    <2>2. p \in 0 .. Len(b) - 1 /\ p + g_utf8_skip(b[p + 1]) = Offset(cs, k + 1)
      BY <2>1, OffsetStep
    <2>3. at[p] = {p} \cup at[Offset(cs, k + 1)]
      <3> HIDE DEF p
      <3>1. p \in 0 .. Len(b) + 4 /\ ~(p >= Len(b))
        BY <1>1, <2>2
      <3> QED  BY <1>2, <2>2, <3>1
    <2>4. at[Offset(cs, k + 1)] = Starts(cs, k + 1, L)
      BY <1>4, <2>1
    <2>5. Starts(cs, k, L) = {p} \cup Starts(cs, k + 1, L)
      <3>1. k .. L - 1 = {k} \cup (k + 1 .. L - 1)
        BY <1>1, <2>1
      <3> QED  BY <3>1 DEF Starts
    <2>6. at[Offset(cs, k)] = Starts(cs, k, L)
      BY <2>3, <2>4, <2>5
    <2> QED  BY <2>1, <2>6 DEF k
  <1> HIDE DEF S
  <1>5. L \in S
    <2>1. \A n \in 0 .. L : n \in S
      BY <1>1, <1>3, <1>4, Induction
    <2> QED  BY <1>1, <2>1
  <1>6. at[Offset(cs, L - L)] = Starts(cs, L - L, L)
    BY <1>5 DEF S
  <1>7. L - L = 0 /\ Offset(cs, 0) = 0
    BY <1>1, OffsetEnds
  <1> QED  BY <1>2, <1>6, <1>7

\* The characters before an offset.
LEMMA PointerToOffset ==
  ASSUME NEW cs \in Texts, NEW k \in 0 .. Len(cs)
  PROVE  g_utf8_pointer_to_offset(Encode(cs), Offset(cs, k)) = k
  <1>1. {p \in Starts(cs, 0, Len(cs)) : p < Offset(cs, k)} = Starts(cs, 0, k)
    <2>1. Len(cs) \in Nat
      BY DEF Texts
    <2>2. \A j \in 0 .. Len(cs) - 1 : j \in 0 .. Len(cs) /\ (j \in 0 .. k - 1 <=> j < k)
      BY <2>1
    <2>3. \A j \in 0 .. Len(cs) - 1 : j \in 0 .. k - 1 <=> Offset(cs, j) < Offset(cs, k)
      BY <2>2, OffsetOrder
    <2>4. 0 .. k - 1 \subseteq 0 .. Len(cs) - 1
      BY <2>1
    <2> QED  BY <2>3, <2>4 DEF Starts
  <1>2. Cardinality(Starts(cs, 0, k)) = k
    <2>1. 0 \in 0 .. Len(cs) /\ k - 0 = k
      BY DEF Texts
    <2> QED  BY <2>1, StartsCounted
  <1> QED  BY <1>1, <1>2, StepsAre DEF g_utf8_pointer_to_offset

\* size() counts the characters.
LEMMA SizeIs ==
  ASSUME NEW cs \in Texts
  PROVE  size(Encode(cs)) = Len(cs)
  <1>1. Len(cs) \in 0 .. Len(cs)
    BY DEF Texts
  <1>2. g_utf8_pointer_to_offset(Encode(cs), Offset(cs, Len(cs))) = Len(cs)
    BY <1>1, PointerToOffset
  <1> QED  BY <1>2, OffsetEnds DEF size

=============================================================================
