---------------------------- MODULE SourceProofs ----------------------------
(***************************************************************************)
(* Proofs about Source for any number of sources, nodes and threads and    *)
(* any depth of nested dispatches.                                         *)
(*                                                                         *)
(* Nothing of the safety is inductive by itself: that an object still      *)
(* exists rests on its counter being the number of those that hold it, and *)
(* these are the context, the RefPtrs, the dispatches, the probe and the   *)
(* decrements that threads have begun and not done.  IInv says who they    *)
(* are for each of the four counters.  What a thread has begun is always   *)
(* one of the few Plans, all about one source.                             *)
(* What a thread has read in connect_generic() or notify() has to stay so  *)
(* until it uses it: that is ConnsOK, and rests on the rule ~ConnectRaces. *)
(*                                                                         *)
(* TimeoutSource, an event source of its own state, is dealt with at the   *)
(* end.                                                                    *)
(***************************************************************************)
EXTENDS Source, TimeoutSource, FiniteSetTheorems, SequenceTheorems, TLAPS

-----------------------------------------------------------------------------
(* Plans: the operations a thread may have left to do.                     *)

Plans ==
  { <<>>, <<"destroy">>, <<"keep", "gunref">>,
    <<"install", "attach", "gunref">>, <<"attach", "gunref">>,
    <<"gunref">>, <<"gunref", "gunref">>, <<"destroy", "gunref">>, <<"gfree">>,
    <<"cbunref", "gunref">>, <<"cbunref", "gunref", "gunref">>,
    <<"cbunref", "destroy", "gunref">>, <<"cbunref", "gfree">>,
    <<"notify", "gunref">>, <<"notify", "gunref", "gunref">>,
    <<"notify", "destroy", "gunref">>, <<"notify", "gfree">>,
    <<"keep", "free", "gunref">>, <<"keep", "free", "gunref", "gunref">>,
    <<"keep", "free", "destroy", "gunref">>, <<"keep", "free", "gfree">>,
    <<"free", "gunref">>, <<"free", "gunref", "gunref">>,
    <<"free", "destroy", "gunref">>, <<"free", "gfree">> }

\* The first operation of a plan is op; the last one is.
Begins(p, op) == p # <<>> /\ p[1] = op
Ends(p, op) == p # <<>> /\ p[Len(p)] = op

\* The plan drops two references on the GSource, frees the callback data, destroys
\* the source, connects a new one.
UnrefsTwice(p) == Len(p) >= 2 /\ p[Len(p) - 1] = "gunref"
Frees(p) == Begins(p, "free") \/ (Len(p) >= 2 /\ p[2] = "free")
Destroys(p) == \E i \in DOMAIN p : p[i] = "destroy"
Connects(p) == p # <<>> /\ p[1] \in {"install", "attach"}

\* The plans p and q do the same with the GSource at their end.
SameEnd(p, q) ==
  /\ Ends(p, "gunref") <=> Ends(q, "gunref")
  /\ UnrefsTwice(p) <=> UnrefsTwice(q)
  /\ Ends(p, "gfree") <=> Ends(q, "gfree")
  /\ Destroys(p) => Destroys(q)

\* A plan is a sequence of operations.
LEMMA PlansType == \A p \in Plans : p \in Seq(Op)
  <1>1. {"install", "attach", "destroy", "cbunref", "notify", "keep", "free", "gunref", "gfree"}
           \subseteq Op
    BY DEF Op
  <1>2. \A x, y \in Op : <<>> \in Seq(Op) /\ <<x>> \in Seq(Op) /\ <<x, y>> \in Seq(Op)
    OBVIOUS
  <1>3. \A x, y, z \in Op : <<x, y, z>> \in Seq(Op)
    OBVIOUS
  <1>4. \A x, y, z, w \in Op : <<x, y, z, w>> \in Seq(Op)
    OBVIOUS
  <1>5. { <<>>, <<"destroy">>, <<"keep", "gunref">>, <<"attach", "gunref">>, <<"gunref">>,
          <<"gunref", "gunref">>, <<"destroy", "gunref">>, <<"gfree">>,
          <<"cbunref", "gunref">>, <<"cbunref", "gfree">>, <<"notify", "gunref">>,
          <<"notify", "gfree">>, <<"free", "gunref">>, <<"free", "gfree">> } \subseteq Seq(Op)
    BY <1>1, <1>2
  <1>6. { <<"install", "attach", "gunref">>, <<"cbunref", "gunref", "gunref">>,
          <<"cbunref", "destroy", "gunref">>, <<"notify", "gunref", "gunref">>,
          <<"notify", "destroy", "gunref">>, <<"keep", "free", "gunref">>,
          <<"keep", "free", "gfree">>, <<"free", "gunref", "gunref">>,
          <<"free", "destroy", "gunref">> } \subseteq Seq(Op)
    BY <1>1, <1>3
  <1>7. { <<"keep", "free", "gunref", "gunref">>, <<"keep", "free", "destroy", "gunref">> }
           \subseteq Seq(Op)
    BY <1>1, <1>4
  <1> QED  BY <1>5, <1>6, <1>7 DEF Plans

\* Sequences of four and fewer operations, and how they are put together.
LEMMA ShortSequences ==
  ASSUME NEW S, NEW r \in Seq(S)
  PROVE  /\ Len(r) = 2 => r = <<r[1], r[2]>>
         /\ Len(r) = 3 => r = <<r[1], r[2], r[3]>>
         /\ Len(r) = 4 => r = <<r[1], r[2], r[3], r[4]>>
  OBVIOUS

LEMMA Joined11 ==
  ASSUME NEW x, NEW y
  PROVE  <<x>> \o <<y>> = <<x, y>>
  <1> DEFINE S == {x, y}
             a == <<x>>
             q == <<y>>
             r == a \o q
  <1>1. a \in Seq(S) /\ Len(a) = 1 /\ a[1] = x
    OBVIOUS
  <1>2. q \in Seq(S) /\ Len(q) = 1 /\ q[1] = y
    OBVIOUS
  <1> HIDE DEF S, a, q
  <1>3. /\ r \in Seq(S)
        /\ Len(r) = Len(a) + Len(q)
        /\ \A i \in 1 .. Len(a) + Len(q) : r[i] = IF i <= Len(a) THEN a[i] ELSE q[i - Len(a)]
    BY <1>1, <1>2, ConcatProperties
  <1> HIDE DEF r
  <1>4. Len(r) = 2 /\ r[1] = x /\ r[2] = y
    BY <1>1, <1>2, <1>3
  <1>5. r = <<x, y>>
    BY <1>3, <1>4, ShortSequences
  <1> QED  BY <1>5 DEF a, q, r

LEMMA Joined12 ==
  ASSUME NEW x, NEW y, NEW z
  PROVE  <<x>> \o <<y, z>> = <<x, y, z>>
  <1> DEFINE S == {x, y, z}
             a == <<x>>
             q == <<y, z>>
             r == a \o q
  <1>1. a \in Seq(S) /\ Len(a) = 1 /\ a[1] = x
    OBVIOUS
  <1>2. q \in Seq(S) /\ Len(q) = 2 /\ q[1] = y /\ q[2] = z
    OBVIOUS
  <1> HIDE DEF S, a, q
  <1>3. /\ r \in Seq(S)
        /\ Len(r) = Len(a) + Len(q)
        /\ \A i \in 1 .. Len(a) + Len(q) : r[i] = IF i <= Len(a) THEN a[i] ELSE q[i - Len(a)]
    BY <1>1, <1>2, ConcatProperties
  <1> HIDE DEF r
  <1>4. Len(r) = 3 /\ r[1] = x /\ r[2] = y /\ r[3] = z
    BY <1>1, <1>2, <1>3
  <1>5. r = <<x, y, z>>
    BY <1>3, <1>4, ShortSequences
  <1> QED  BY <1>5 DEF a, q, r

LEMMA Joined21 ==
  ASSUME NEW x, NEW y, NEW z
  PROVE  <<x, y>> \o <<z>> = <<x, y, z>>
  <1> DEFINE S == {x, y, z}
             a == <<x, y>>
             q == <<z>>
             r == a \o q
  <1>1. a \in Seq(S) /\ Len(a) = 2 /\ a[1] = x /\ a[2] = y
    OBVIOUS
  <1>2. q \in Seq(S) /\ Len(q) = 1 /\ q[1] = z
    OBVIOUS
  <1> HIDE DEF S, a, q
  <1>3. /\ r \in Seq(S)
        /\ Len(r) = Len(a) + Len(q)
        /\ \A i \in 1 .. Len(a) + Len(q) : r[i] = IF i <= Len(a) THEN a[i] ELSE q[i - Len(a)]
    BY <1>1, <1>2, ConcatProperties
  <1> HIDE DEF r
  <1>4. Len(r) = 3 /\ r[1] = x /\ r[2] = y /\ r[3] = z
    BY <1>1, <1>2, <1>3
  <1>5. r = <<x, y, z>>
    BY <1>3, <1>4, ShortSequences
  <1> QED  BY <1>5 DEF a, q, r

LEMMA Joined22 ==
  ASSUME NEW x, NEW y, NEW z, NEW w
  PROVE  <<x, y>> \o <<z, w>> = <<x, y, z, w>>
  <1> DEFINE S == {x, y, z, w}
             a == <<x, y>>
             q == <<z, w>>
             r == a \o q
  <1>1. a \in Seq(S) /\ Len(a) = 2 /\ a[1] = x /\ a[2] = y
    OBVIOUS
  <1>2. q \in Seq(S) /\ Len(q) = 2 /\ q[1] = z /\ q[2] = w
    OBVIOUS
  <1> HIDE DEF S, a, q
  <1>3. /\ r \in Seq(S)
        /\ Len(r) = Len(a) + Len(q)
        /\ \A i \in 1 .. Len(a) + Len(q) : r[i] = IF i <= Len(a) THEN a[i] ELSE q[i - Len(a)]
    BY <1>1, <1>2, ConcatProperties
  <1> HIDE DEF r
  <1>4. Len(r) = 4 /\ r[1] = x /\ r[2] = y /\ r[3] = z /\ r[4] = w
    BY <1>1, <1>2, <1>3
  <1>5. r = <<x, y, z, w>>
    BY <1>3, <1>4, ShortSequences
  <1> QED  BY <1>5 DEF a, q, r

LEMMA OpsAre ==
  /\ "destroy" \in Op /\ "cbunref" \in Op /\ "notify" \in Op /\ "keep" \in Op
  /\ "free" \in Op /\ "gunref" \in Op /\ "gfree" \in Op
  BY DEF Op

\* Nothing is put before or after a plan.
LEMMA JoinedEmpty ==
  ASSUME NEW p \in Seq(Op)
  PROVE  <<>> \o p = p /\ p \o <<>> = p
  BY ConcatEmptySeq

-----------------------------------------------------------------------------
(* What is left of a plan when its first operation is done.                *)

\* The plan p becomes q, which begins with one of the operations in first and does
\* the same with the GSource as p.
Becomes(p, q, first) == q \in Plans /\ q # <<>> /\ q[1] \in first /\ SameEnd(q, p)

\* What a plan begins with when callback and callback data are dealt with.
Closing == {"gunref", "destroy", "gfree"}

\* After CbUnref the plan closes the GSource, or notifies before it does.
LEMMA CbUnrefPlans ==
  ASSUME NEW p \in Plans, Begins(p, "cbunref")
  PROVE  /\ ~Frees(p)
         /\ Becomes(p, Tail(p), Closing) /\ ~Frees(Tail(p))
         /\ Becomes(p, <<"notify">> \o Tail(p), {"notify"}) /\ ~Frees(<<"notify">> \o Tail(p))
  <1>1. p \in {<<"cbunref", "gunref">>,
                <<"cbunref", "gunref", "gunref">>,
                <<"cbunref", "destroy", "gunref">>,
                <<"cbunref", "gfree">>}
    BY DEF Plans, Begins
  <1>2. CASE p = <<"cbunref", "gunref">>
    <2>1. Tail(p) = <<"gunref">>
      BY <1>2
    <2>2. <<"notify">> \o <<"gunref">> = <<"notify", "gunref">>
      BY Joined11, Zenon
    <2> QED  BY <1>2, <2>1, <2>2 DEF Becomes, Plans, Begins, Ends, SameEnd,
           UnrefsTwice, Frees, Destroys, Closing
  <1>3. CASE p = <<"cbunref", "gunref", "gunref">>
    <2>1. Tail(p) = <<"gunref", "gunref">>
      BY <1>3
    <2>2. <<"notify">> \o <<"gunref", "gunref">> = <<"notify", "gunref", "gunref">>
      BY Joined12, Zenon
    <2> QED  BY <1>3, <2>1, <2>2 DEF Becomes, Plans, Begins, Ends, SameEnd,
           UnrefsTwice, Frees, Destroys, Closing
  <1>4. CASE p = <<"cbunref", "destroy", "gunref">>
    <2>1. Tail(p) = <<"destroy", "gunref">>
      BY <1>4
    <2>2. <<"notify">> \o <<"destroy", "gunref">> = <<"notify", "destroy", "gunref">>
      BY Joined12, Zenon
    <2> QED  BY <1>4, <2>1, <2>2 DEF Becomes, Plans, Begins, Ends, SameEnd,
           UnrefsTwice, Frees, Destroys, Closing
  <1>5. CASE p = <<"cbunref", "gfree">>
    <2>1. Tail(p) = <<"gfree">>
      BY <1>5
    <2>2. <<"notify">> \o <<"gfree">> = <<"notify", "gfree">>
      BY Joined11, Zenon
    <2> QED  BY <1>5, <2>1, <2>2 DEF Becomes, Plans, Begins, Ends, SameEnd,
           UnrefsTwice, Frees, Destroys, Closing
  <1> QED  BY <1>1, <1>2, <1>3, <1>4, <1>5

\* After Notify the wrapper goes, if there is one, then the callback data.
LEMMA NotifyPlans ==
  ASSUME NEW p \in Plans, Begins(p, "notify")
  PROVE  /\ ~Frees(p)
         /\ Becomes(p, <<"keep", "free">> \o Tail(p), {"keep"}) /\ Frees(<<"keep", "free">> \o Tail(p))
         /\ Becomes(p, <<"free">> \o Tail(p), {"free"}) /\ Frees(<<"free">> \o Tail(p))
  <1>1. p \in {<<"notify", "gunref">>,
                <<"notify", "gunref", "gunref">>,
                <<"notify", "destroy", "gunref">>,
                <<"notify", "gfree">>}
    BY DEF Plans, Begins
  <1>2. CASE p = <<"notify", "gunref">>
    <2>1. Tail(p) = <<"gunref">>
      BY <1>2
    <2>2. <<"keep", "free">> \o <<"gunref">> = <<"keep", "free", "gunref">>
      BY Joined21, Zenon
    <2>3. <<"free">> \o <<"gunref">> = <<"free", "gunref">>
      BY Joined11, Zenon
    <2>4. Becomes(p, <<"keep", "free", "gunref">>, {"keep"}) /\ Frees(<<"keep", "free", "gunref">>)
      BY <1>2, <2>1 DEF Becomes, Plans, Begins, Ends, SameEnd,
           UnrefsTwice, Frees, Destroys, Closing
    <2>5. Becomes(p, <<"free", "gunref">>, {"free"}) /\ Frees(<<"free", "gunref">>)
      BY <1>2, <2>1 DEF Becomes, Plans, Begins, Ends, SameEnd,
           UnrefsTwice, Frees, Destroys, Closing
    <2>6. ~Frees(p)
      BY <1>2 DEF Frees, Begins
    <2> QED  BY <2>1, <2>2, <2>3, <2>4, <2>5, <2>6
  <1>3. CASE p = <<"notify", "gunref", "gunref">>
    <2>1. Tail(p) = <<"gunref", "gunref">>
      BY <1>3
    <2>2. <<"keep", "free">> \o <<"gunref", "gunref">> = <<"keep", "free", "gunref", "gunref">>
      BY Joined22, Zenon
    <2>3. <<"free">> \o <<"gunref", "gunref">> = <<"free", "gunref", "gunref">>
      BY Joined12, Zenon
    <2>4. Becomes(p, <<"keep", "free", "gunref", "gunref">>, {"keep"}) /\ Frees(<<"keep", "free", "gunref", "gunref">>)
      BY <1>3, <2>1 DEF Becomes, Plans, Begins, Ends, SameEnd,
           UnrefsTwice, Frees, Destroys, Closing
    <2>5. Becomes(p, <<"free", "gunref", "gunref">>, {"free"}) /\ Frees(<<"free", "gunref", "gunref">>)
      BY <1>3, <2>1 DEF Becomes, Plans, Begins, Ends, SameEnd,
           UnrefsTwice, Frees, Destroys, Closing
    <2>6. ~Frees(p)
      BY <1>3 DEF Frees, Begins
    <2> QED  BY <2>1, <2>2, <2>3, <2>4, <2>5, <2>6
  <1>4. CASE p = <<"notify", "destroy", "gunref">>
    <2>1. Tail(p) = <<"destroy", "gunref">>
      BY <1>4
    <2>2. <<"keep", "free">> \o <<"destroy", "gunref">> = <<"keep", "free", "destroy", "gunref">>
      BY Joined22, Zenon
    <2>3. <<"free">> \o <<"destroy", "gunref">> = <<"free", "destroy", "gunref">>
      BY Joined12, Zenon
    <2>4. Becomes(p, <<"keep", "free", "destroy", "gunref">>, {"keep"}) /\ Frees(<<"keep", "free", "destroy", "gunref">>)
      BY <1>4, <2>1 DEF Becomes, Plans, Begins, Ends, SameEnd,
           UnrefsTwice, Frees, Destroys, Closing
    <2>5. Becomes(p, <<"free", "destroy", "gunref">>, {"free"}) /\ Frees(<<"free", "destroy", "gunref">>)
      BY <1>4, <2>1 DEF Becomes, Plans, Begins, Ends, SameEnd,
           UnrefsTwice, Frees, Destroys, Closing
    <2>6. ~Frees(p)
      BY <1>4 DEF Frees, Begins
    <2> QED  BY <2>1, <2>2, <2>3, <2>4, <2>5, <2>6
  <1>5. CASE p = <<"notify", "gfree">>
    <2>1. Tail(p) = <<"gfree">>
      BY <1>5
    <2>2. <<"keep", "free">> \o <<"gfree">> = <<"keep", "free", "gfree">>
      BY Joined21, Zenon
    <2>3. <<"free">> \o <<"gfree">> = <<"free", "gfree">>
      BY Joined11, Zenon
    <2>4. Becomes(p, <<"keep", "free", "gfree">>, {"keep"}) /\ Frees(<<"keep", "free", "gfree">>)
      BY <1>5, <2>1 DEF Becomes, Plans, Begins, Ends, SameEnd,
           UnrefsTwice, Frees, Destroys, Closing
    <2>5. Becomes(p, <<"free", "gfree">>, {"free"}) /\ Frees(<<"free", "gfree">>)
      BY <1>5, <2>1 DEF Becomes, Plans, Begins, Ends, SameEnd,
           UnrefsTwice, Frees, Destroys, Closing
    <2>6. ~Frees(p)
      BY <1>5 DEF Frees, Begins
    <2> QED  BY <2>1, <2>2, <2>3, <2>4, <2>5, <2>6
  <1> QED  BY <1>1, <1>2, <1>3, <1>4, <1>5

\* After FreeData the GSource is left.
LEMMA FreePlans ==
  ASSUME NEW p \in Plans, Begins(p, "free")
  PROVE  /\ Frees(p)
         /\ Becomes(p, Tail(p), Closing) /\ ~Frees(Tail(p))
  <1>1. p \in {<<"free", "gunref">>,
                <<"free", "gunref", "gunref">>,
                <<"free", "destroy", "gunref">>,
                <<"free", "gfree">>}
    BY DEF Plans, Begins
  <1>2. CASE p = <<"free", "gunref">>
    <2>1. Tail(p) = <<"gunref">>
      BY <1>2
    <2> QED  BY <1>2, <2>1 DEF Becomes, Plans, Begins, Ends, SameEnd,
           UnrefsTwice, Frees, Destroys, Closing
  <1>3. CASE p = <<"free", "gunref", "gunref">>
    <2>1. Tail(p) = <<"gunref", "gunref">>
      BY <1>3
    <2> QED  BY <1>3, <2>1 DEF Becomes, Plans, Begins, Ends, SameEnd,
           UnrefsTwice, Frees, Destroys, Closing
  <1>4. CASE p = <<"free", "destroy", "gunref">>
    <2>1. Tail(p) = <<"destroy", "gunref">>
      BY <1>4
    <2> QED  BY <1>4, <2>1 DEF Becomes, Plans, Begins, Ends, SameEnd,
           UnrefsTwice, Frees, Destroys, Closing
  <1>5. CASE p = <<"free", "gfree">>
    <2>1. Tail(p) = <<"gfree">>
      BY <1>5
    <2> QED  BY <1>5, <2>1 DEF Becomes, Plans, Begins, Ends, SameEnd,
           UnrefsTwice, Frees, Destroys, Closing
  <1> QED  BY <1>1, <1>2, <1>3, <1>4, <1>5

\* KeepStep is part of the last unreference(), or callback data are freed next.
LEMMA KeepPlans ==
  ASSUME NEW p \in Plans, Begins(p, "keep")
  PROVE  /\ Becomes(p, Tail(p), {"gunref", "free"})
         /\ Frees(Tail(p)) <=> Frees(p)
  <1>1. p \in {<<"keep", "gunref">>,
                <<"keep", "free", "gunref">>,
                <<"keep", "free", "gunref", "gunref">>,
                <<"keep", "free", "destroy", "gunref">>,
                <<"keep", "free", "gfree">>}
    BY DEF Plans, Begins
  <1>2. CASE p = <<"keep", "gunref">>
    <2>1. Tail(p) = <<"gunref">>
      BY <1>2
    <2> QED  BY <1>2, <2>1 DEF Becomes, Plans, Begins, Ends, SameEnd,
           UnrefsTwice, Frees, Destroys, Closing
  <1>3. CASE p = <<"keep", "free", "gunref">>
    <2>1. Tail(p) = <<"free", "gunref">>
      BY <1>3
    <2> QED  BY <1>3, <2>1 DEF Becomes, Plans, Begins, Ends, SameEnd,
           UnrefsTwice, Frees, Destroys, Closing
  <1>4. CASE p = <<"keep", "free", "gunref", "gunref">>
    <2>1. Tail(p) = <<"free", "gunref", "gunref">>
      BY <1>4
    <2> QED  BY <1>4, <2>1 DEF Becomes, Plans, Begins, Ends, SameEnd,
           UnrefsTwice, Frees, Destroys, Closing
  <1>5. CASE p = <<"keep", "free", "destroy", "gunref">>
    <2>1. Tail(p) = <<"free", "destroy", "gunref">>
      BY <1>5
    <2> QED  BY <1>5, <2>1 DEF Becomes, Plans, Begins, Ends, SameEnd,
           UnrefsTwice, Frees, Destroys, Closing
  <1>6. CASE p = <<"keep", "free", "gfree">>
    <2>1. Tail(p) = <<"free", "gfree">>
      BY <1>6
    <2> QED  BY <1>6, <2>1 DEF Becomes, Plans, Begins, Ends, SameEnd,
           UnrefsTwice, Frees, Destroys, Closing
  <1> QED  BY <1>1, <1>2, <1>3, <1>4, <1>5, <1>6

\* What a plan does with the GSource at its end.
AtEnd(p, unrefs, twice, frees, destroys) ==
  /\ p \in Plans /\ ~Frees(p)
  /\ Ends(p, "gunref") <=> unrefs
  /\ UnrefsTwice(p) <=> twice
  /\ Ends(p, "gfree") <=> frees
  /\ Destroys(p) <=> destroys

LEMMA ShortPlans ==
  /\ AtEnd(<<>>, FALSE, FALSE, FALSE, FALSE)
  /\ AtEnd(<<"gunref">>, TRUE, FALSE, FALSE, FALSE)
  /\ AtEnd(<<"gunref", "gunref">>, TRUE, TRUE, FALSE, FALSE)
  /\ AtEnd(<<"destroy">>, FALSE, FALSE, FALSE, TRUE)
  /\ AtEnd(<<"destroy", "gunref">>, TRUE, FALSE, FALSE, TRUE)
  /\ AtEnd(<<"keep", "gunref">>, TRUE, FALSE, FALSE, FALSE)
  /\ AtEnd(<<"install", "attach", "gunref">>, TRUE, FALSE, FALSE, FALSE)
  /\ AtEnd(<<"attach", "gunref">>, TRUE, FALSE, FALSE, FALSE)
  /\ AtEnd(<<"cbunref", "gunref">>, TRUE, FALSE, FALSE, FALSE)
  /\ AtEnd(<<"cbunref", "gunref", "gunref">>, TRUE, TRUE, FALSE, FALSE)
  /\ AtEnd(<<"cbunref", "destroy", "gunref">>, TRUE, FALSE, FALSE, TRUE)
  /\ AtEnd(<<"cbunref", "gfree">>, FALSE, FALSE, TRUE, FALSE)
  /\ AtEnd(<<"gfree">>, FALSE, FALSE, TRUE, FALSE)
  <1> USE DEF AtEnd, Plans, Begins, Ends, UnrefsTwice, Frees, Destroys
  <1>1. AtEnd(<<>>, FALSE, FALSE, FALSE, FALSE)
    OBVIOUS
  <1>2. AtEnd(<<"gunref">>, TRUE, FALSE, FALSE, FALSE)
    OBVIOUS
  <1>3. AtEnd(<<"gunref", "gunref">>, TRUE, TRUE, FALSE, FALSE)
    OBVIOUS
  <1>4. AtEnd(<<"destroy">>, FALSE, FALSE, FALSE, TRUE)
    OBVIOUS
  <1>5. AtEnd(<<"destroy", "gunref">>, TRUE, FALSE, FALSE, TRUE)
    OBVIOUS
  <1>6. AtEnd(<<"keep", "gunref">>, TRUE, FALSE, FALSE, FALSE)
    OBVIOUS
  <1>7. AtEnd(<<"install", "attach", "gunref">>, TRUE, FALSE, FALSE, FALSE)
    OBVIOUS
  <1>8. AtEnd(<<"attach", "gunref">>, TRUE, FALSE, FALSE, FALSE)
    OBVIOUS
  <1>9. AtEnd(<<"cbunref", "gunref">>, TRUE, FALSE, FALSE, FALSE)
    OBVIOUS
  <1>10. AtEnd(<<"cbunref", "gunref", "gunref">>, TRUE, TRUE, FALSE, FALSE)
    OBVIOUS
  <1>11. AtEnd(<<"cbunref", "destroy", "gunref">>, TRUE, FALSE, FALSE, TRUE)
    OBVIOUS
  <1>12. AtEnd(<<"cbunref", "gfree">>, FALSE, FALSE, TRUE, FALSE)
    OBVIOUS
  <1>13. AtEnd(<<"gfree">>, FALSE, FALSE, TRUE, FALSE)
    OBVIOUS
  <1> QED  BY <1>1, <1>2, <1>3, <1>4, <1>5, <1>6, <1>7, <1>8, <1>9, <1>10, <1>11, <1>12, <1>13

\* The other plans by their first operation.
LEMMA OtherPlans ==
  ASSUME NEW p \in Plans
  PROVE  /\ Begins(p, "gunref") => p = <<"gunref">> \/ p = <<"gunref", "gunref">>
         /\ Begins(p, "gfree") => p = <<"gfree">>
         /\ Begins(p, "destroy") => p = <<"destroy">> \/ p = <<"destroy", "gunref">>
         /\ Begins(p, "install") => p = <<"install", "attach", "gunref">>
         /\ Begins(p, "attach") => p = <<"attach", "gunref">>
  BY DEF Plans, Begins

LEMMA ShortTails ==
  /\ Tail(<<"gunref">>) = <<>> /\ Tail(<<"gunref", "gunref">>) = <<"gunref">>
  /\ Tail(<<"gfree">>) = <<>>
  /\ Tail(<<"destroy">>) = <<>> /\ Tail(<<"destroy", "gunref">>) = <<"gunref">>
  /\ Tail(<<"install", "attach", "gunref">>) = <<"attach", "gunref">>
  /\ Tail(<<"attach", "gunref">>) = <<"gunref">>
  OBVIOUS

LEMMA ShortJoins ==
  /\ <<"cbunref", "gunref">> \o <<>> = <<"cbunref", "gunref">>
  /\ <<"cbunref", "gunref">> \o <<"gunref">> = <<"cbunref", "gunref", "gunref">>
  /\ <<"cbunref", "gfree">> \o <<>> = <<"cbunref", "gfree">>
  /\ <<"gfree">> \o <<>> = <<"gfree">>
  <1>1. <<"cbunref", "gunref">> \o <<"gunref">> = <<"cbunref", "gunref", "gunref">>
    BY Joined21, Zenon
  <1> QED  BY <1>1, JoinedEmpty, PlansType, ShortPlans DEF AtEnd

\* Whatever a thread has to do with a source, it unreferences or frees the GSource
\* in the end, unless it only calls g_source_destroy().
LEMMA PlansClose ==
  ASSUME NEW p \in Plans, p # <<>>
  PROVE  \/ Ends(p, "gunref") \/ Ends(p, "gfree") \/ p = <<"destroy">>
  BY DEF Plans, Ends

\* A thread that goes on does not come to have nothing but g_source_destroy() to do.
LEMMA GoesOn ==
  /\ \A p \in Plans, q \in Plans :
       p # <<>> /\ p # <<"destroy">> /\ SameEnd(q, p) => q # <<"destroy">>
  /\ \A q : ~Destroys(q) => q # <<"destroy">>
  /\ \A p : ~Destroys(p) \/ ~Begins(p, "destroy") => p # <<"destroy">>
  <1>1. Destroys(<<"destroy">>) /\ Begins(<<"destroy">>, "destroy")
    BY DEF Destroys, Begins
  <1>2. ~Ends(<<"destroy">>, "gunref") /\ ~Ends(<<"destroy">>, "gfree")
    BY DEF Ends
  <1>3. ASSUME NEW p \in Plans, p # <<>>, p # <<"destroy">>, SameEnd(<<"destroy">>, p)
        PROVE  FALSE
    BY <1>2, <1>3, PlansClose DEF SameEnd
  <1> QED  BY <1>1, <1>3

-----------------------------------------------------------------------------
(* Threads and their plans.                                                *)

Plan(t) == [i \in DOMAIN cont[t] |-> cont[t][i].op]

\* The threads that are going to do something with s.
Working(s)  == {t \in Threads : On(t, s)}
GUnrefs(s)  == {t \in Threads : On(t, s) /\ Ends(Plan(t), "gunref")}
GUnrefs2(s) == {t \in Threads : On(t, s) /\ UnrefsTwice(Plan(t))}
GFrees(s)   == {t \in Threads : On(t, s) /\ Ends(Plan(t), "gfree")}
CbUnrefs(s) == {t \in Threads : On(t, s) /\ Begins(Plan(t), "cbunref")}
Notifies(s) == {t \in Threads : On(t, s) /\ Begins(Plan(t), "notify")}
Keeps(s)    == {t \in Threads : On(t, s) /\ Begins(Plan(t), "keep")}
DataFrees(s) == {t \in Threads : On(t, s) /\ Frees(Plan(t))}

StepType == [op : Op, src : Sources]
ContType == cont \in [Threads -> Seq(StepType)]

\* All that thread t has left is about one source.
OneSource(t) == \A i \in DOMAIN cont[t] : cont[t][i].src = Src(t)

\* A plan, as steps of a source.
LEMMA StepsType ==
  ASSUME NEW p \in Seq(Op), NEW s \in Sources
  PROVE  /\ Steps(p, s) \in Seq(StepType)
         /\ DOMAIN Steps(p, s) = DOMAIN p
         /\ Len(Steps(p, s)) = Len(p)
         /\ Steps(p, s) = <<>> <=> p = <<>>
         /\ \A i \in 1 .. Len(p) : Steps(p, s)[i] = [op |-> p[i], src |-> s]
  <1>1. Len(p) \in Nat /\ DOMAIN p = 1 .. Len(p) /\ p \in [1 .. Len(p) -> Op]
    BY LenProperties
  <1>2. /\ DOMAIN Steps(p, s) = 1 .. Len(p)
        /\ \A i \in 1 .. Len(p) : Steps(p, s)[i] = [op |-> p[i], src |-> s]
    BY <1>1 DEF Steps
  <1>3. Steps(p, s) \in [1 .. Len(p) -> StepType]
    BY <1>1 DEF Steps, StepType
  <1>4. Steps(p, s) \in Seq(StepType) /\ Len(Steps(p, s)) = Len(p)
    BY <1>1, <1>2, <1>3
  <1>5. Steps(p, s) = <<>> <=> p = <<>>
    BY <1>4, EmptySeq
  <1> QED  BY <1>1, <1>2, <1>4, <1>5

\* The plan of a thread, and what is left of it after its first operation.
LEMMA PlanFacts ==
  ASSUME ContType, NEW t \in Threads, OneSource(t)
  PROVE  /\ Plan(t) \in Seq(Op)
         /\ cont[t] = <<>> <=> Plan(t) = <<>>
         /\ \A s : ~On(t, s) <=> cont[t] = <<>> \/ s # Src(t)
         /\ cont[t] # <<>> =>
              /\ Src(t) \in Sources
              /\ Head(cont[t]).op = Plan(t)[1]
              /\ Tail(cont[t]) = Steps(Tail(Plan(t)), Src(t))
              /\ Tail(Plan(t)) \in Seq(Op)
  <1> DEFINE c == cont[t]
             p == Plan(t)
  <1>1. c \in Seq(StepType) /\ Len(c) \in Nat /\ DOMAIN c = 1 .. Len(c)
    BY LenProperties DEF ContType
  <1>2. \A i \in 1 .. Len(c) : c[i] \in StepType /\ c[i].src = Src(t)
    BY <1>1, ElementOfSeq DEF OneSource
  <1>3. p = [i \in 1 .. Len(c) |-> c[i].op]
    BY <1>1 DEF Plan
  <1> HIDE DEF c, p
  <1>4. p \in [1 .. Len(c) -> Op]
    BY <1>2, <1>3 DEF StepType
  <1>5. p \in Seq(Op) /\ Len(p) = Len(c)
    BY <1>1, <1>3, <1>4
  <1>6. c = <<>> <=> p = <<>>
    BY <1>1, <1>5, EmptySeq
  <1>7. ASSUME c # <<>>
        PROVE  /\ Src(t) \in Sources
               /\ Head(c).op = p[1]
               /\ Tail(c) = Steps(Tail(p), Src(t))
               /\ Tail(p) \in Seq(Op)
    <2>1. Len(c) \in Nat \ {0} /\ 1 \in 1 .. Len(c)
      BY <1>1, <1>7, EmptySeq
    <2>2. Head(c) = c[1] /\ c[1].op = p[1] /\ c[1].src = Src(t) /\ c[1] \in StepType
      BY <1>1, <1>2, <1>3, <2>1
    <2>3. /\ Tail(c) \in Seq(StepType) /\ Len(Tail(c)) = Len(c) - 1
          /\ \A i \in 1 .. Len(Tail(c)) : Tail(c)[i] = c[i + 1]
      BY <1>1, <1>7
    <2>4. /\ Tail(p) \in Seq(Op) /\ Len(Tail(p)) = Len(c) - 1
          /\ \A i \in 1 .. Len(Tail(p)) : Tail(p)[i] = p[i + 1]
      BY <1>5, <1>6, <1>7
    <2> DEFINE q == Tail(p)
               d == Tail(c)
    <2>5. Src(t) \in Sources
      BY <2>2 DEF StepType
    <2>6. /\ Steps(q, Src(t)) \in Seq(StepType)
          /\ Len(Steps(q, Src(t))) = Len(q)
          /\ \A i \in 1 .. Len(q) : Steps(q, Src(t))[i] = [op |-> q[i], src |-> Src(t)]
      BY <2>4, <2>5, StepsType
    <2>7. \A i \in 1 .. Len(c) - 1 : d[i] = [op |-> q[i], src |-> Src(t)]
      <3> TAKE i \in 1 .. Len(c) - 1
      <3>1. i + 1 \in 1 .. Len(c)
        BY <2>1
      <3>2. d[i] = c[i + 1] /\ q[i] = p[i + 1]
        BY <2>3, <2>4
      <3>3. c[i + 1] = [op |-> p[i + 1], src |-> Src(t)]
        BY <1>2, <1>3, <3>1 DEF StepType
      <3> QED  BY <3>2, <3>3
    <2> DEFINE e == Steps(q, Src(t))
    <2> HIDE DEF d, e, q
    <2>8. /\ d \in Seq(StepType) /\ e \in Seq(StepType)
          /\ Len(d) = Len(e)
          /\ \A i \in 1 .. Len(d) : d[i] = e[i]
      BY <2>3, <2>4, <2>6, <2>7 DEF d, e, q
    <2>9. d = e
      BY <2>8, SeqEqual, Zenon
    <2> QED  BY <2>2, <2>4, <2>5, <2>9 DEF d, e, q
  <1> QED  BY <1>5, <1>6, <1>7 DEF c, p, On

\* The steps of two plans, one after the other.
LEMMA StepsJoined ==
  ASSUME NEW s \in Sources, NEW o \in Seq(Op), NEW q \in Seq(Op)
  PROVE  Steps(o, s) \o Steps(q, s) = Steps(o \o q, s)
  <1> DEFINE r == o \o q
             a == Steps(o, s)
             b == Steps(q, s)
             c == a \o b
             d == Steps(r, s)
  <1>1. /\ r \in Seq(Op) /\ Len(r) = Len(o) + Len(q)
        /\ \A i \in 1 .. Len(o) + Len(q) : r[i] = IF i <= Len(o) THEN o[i] ELSE q[i - Len(o)]
    BY ConcatProperties
  <1> HIDE DEF r
  <1>2. /\ a \in Seq(StepType) /\ Len(a) = Len(o)
        /\ \A i \in 1 .. Len(o) : a[i] = [op |-> o[i], src |-> s]
    BY StepsType
  <1>3. /\ b \in Seq(StepType) /\ Len(b) = Len(q)
        /\ \A i \in 1 .. Len(q) : b[i] = [op |-> q[i], src |-> s]
    BY StepsType
  <1>4. /\ d \in Seq(StepType) /\ Len(d) = Len(r)
        /\ \A i \in 1 .. Len(r) : d[i] = [op |-> r[i], src |-> s]
    BY <1>1, StepsType, ZenonT(40)
  <1> HIDE DEF a, b, d
  <1>9. a \in Seq(StepType) /\ b \in Seq(StepType)
    BY <1>2, <1>3
  <1>5. /\ c \in Seq(StepType)
        /\ Len(c) = Len(a) + Len(b)
        /\ \A i \in 1 .. Len(a) + Len(b) : c[i] = IF i <= Len(a) THEN a[i] ELSE b[i - Len(a)]
    BY <1>9, ConcatProperties
  <1> HIDE DEF c
  <1>6. Len(o) \in Nat /\ Len(q) \in Nat
    BY LenProperties
  <1>7. ASSUME NEW i \in 1 .. Len(o) + Len(q)
        PROVE  c[i] = d[i]
    <2>0. d[i] = [op |-> r[i], src |-> s] /\ c[i] = IF i <= Len(o) THEN a[i] ELSE b[i - Len(o)]
      BY <1>1, <1>2, <1>3, <1>4, <1>5
    <2>1. CASE i <= Len(o)
      <3>1. i \in 1 .. Len(o)
        BY <1>6, <2>1
      <3> QED  BY <1>1, <1>2, <2>0, <2>1, <3>1
    <2>2. CASE ~(i <= Len(o))
      <3>1. i - Len(o) \in 1 .. Len(q)
        BY <1>6, <2>2
      <3> QED  BY <1>1, <1>3, <2>0, <2>2, <3>1
    <2> QED  BY <2>1, <2>2
  <1>8. c = d
    BY <1>1, <1>2, <1>3, <1>4, <1>5, <1>7, SeqEqual
  <1> QED  BY <1>8 DEF a, b, c, d, r

\* A thread that goes on has what is left of its plan, after ops.
LEMMA ContinueStarts ==
  ASSUME ContType, NEW t \in Threads, OneSource(t), cont[t] # <<>>,
         NEW ops \in Seq(Op), Continue(t, ops)
  PROVE  Start(t, ops \o Tail(Plan(t)), Src(t))
  <1> DEFINE q == Tail(Plan(t))
             s == Src(t)
  <1>1. q \in Seq(Op) /\ s \in Sources /\ Tail(cont[t]) = Steps(q, s)
    BY PlanFacts
  <1>2. cont' = [cont EXCEPT ![t] = Steps(ops, s) \o Steps(q, s)]
    BY <1>1 DEF Continue
  <1> HIDE DEF q, s
  <1>3. Steps(ops, s) \o Steps(q, s) = Steps(ops \o q, s)
    BY <1>1, StepsJoined
  <1> QED  BY <1>2, <1>3 DEF q, s, Start

-----------------------------------------------------------------------------
(* Counting.                                                               *)

\* One for a holder that is there.
B(x) == IF x THEN 1 ELSE 0

\* T is S, but t, which was in S if before, is in T if after.
Moves(S, T, t, before, after) ==
  /\ IsFiniteSet(S) /\ IsFiniteSet(T)
  /\ t \in S <=> before
  /\ t \in T <=> after
  /\ \A u : u # t => (u \in T <=> u \in S)

LEMMA MovesCount ==
  ASSUME NEW S, NEW T, NEW t, NEW before \in BOOLEAN, NEW after \in BOOLEAN,
         Moves(S, T, t, before, after)
  PROVE  /\ Cardinality(S) \in Nat /\ Cardinality(T) \in Nat
         /\ Cardinality(T) + B(before) = Cardinality(S) + B(after)
  <1>0. IsFiniteSet(S) /\ IsFiniteSet(T) /\ Cardinality(S) \in Nat /\ Cardinality(T) \in Nat
    BY FS_CardinalityType DEF Moves
  <1>1. CASE before /\ after
    <2>1. T = S
      BY <1>1 DEF Moves
    <2> QED  BY <1>0, <1>1, <2>1 DEF B
  <1>2. CASE ~before /\ ~after
    <2>1. T = S
      BY <1>2 DEF Moves
    <2> QED  BY <1>0, <1>2, <2>1 DEF B
  <1>3. CASE before /\ ~after
    <2>1. T = S \ {t} /\ t \in S
      BY <1>3 DEF Moves
    <2>2. Cardinality(T) = Cardinality(S) - 1
      BY <1>0, <2>1, FS_RemoveElement
    <2> QED  BY <1>0, <1>3, <2>2 DEF B
  <1>4. CASE ~before /\ after
    <2>1. T = S \cup {t} /\ t \notin S
      BY <1>4 DEF Moves
    <2>2. Cardinality(T) = Cardinality(S) + 1
      BY <1>0, <2>1, FS_AddElement
    <2> QED  BY <1>0, <1>4, <2>2 DEF B
  <1> QED  BY <1>1, <1>2, <1>3, <1>4

\* What the number of elements says about the elements.
LEMMA SmallSets ==
  ASSUME NEW S, IsFiniteSet(S)
  PROVE  /\ Cardinality(S) \in Nat
         /\ Cardinality(S) = 0 <=> S = {}
         /\ \A t \in S : Cardinality(S) >= 1
         /\ \A t, u \in S : Cardinality(S) = 1 => t = u
  <1>1. Cardinality(S) \in Nat
    BY FS_CardinalityType
  <1>2. Cardinality(S) = 0 <=> S = {}
    BY FS_EmptySet
  <1>3. ASSUME NEW t \in S PROVE Cardinality(S) >= 1
    BY <1>1, <1>2
  <1>4. ASSUME NEW t \in S, NEW u \in S, Cardinality(S) = 1 PROVE t = u
    BY <1>4, FS_Singleton
  <1> QED  BY <1>1, <1>2, <1>3, <1>4

\* Thread t has got the plan p for the source s, and each other thread has what it had.
Planned(t, p, s) ==
  /\ ContType'
  /\ Plan(t)' = p /\ OneSource(t)'
  /\ \A r : On(t, r)' <=> p # <<>> /\ r = s
  /\ \A u \in Threads \ {t} :
       /\ cont'[u] = cont[u]
       /\ Plan(u)' = Plan(u)
       /\ OneSource(u)' <=> OneSource(u)
       /\ \A r : On(u, r)' <=> On(u, r)

\* The accounts of s when thread t gets the plan p.
Accounts(t, p, s) ==
  /\ Moves(Working(s), Working(s)', t, Plan(t) # <<>>, p # <<>>)
  /\ Moves(GUnrefs(s), GUnrefs(s)', t, Ends(Plan(t), "gunref"), Ends(p, "gunref"))
  /\ Moves(GUnrefs2(s), GUnrefs2(s)', t, UnrefsTwice(Plan(t)), UnrefsTwice(p))
  /\ Moves(GFrees(s), GFrees(s)', t, Ends(Plan(t), "gfree"), Ends(p, "gfree"))
  /\ Moves(CbUnrefs(s), CbUnrefs(s)', t, Begins(Plan(t), "cbunref"), Begins(p, "cbunref"))
  /\ Moves(Notifies(s), Notifies(s)', t, Begins(Plan(t), "notify"), Begins(p, "notify"))
  /\ Moves(Keeps(s), Keeps(s)', t, Begins(Plan(t), "keep"), Begins(p, "keep"))
  /\ Moves(DataFrees(s), DataFrees(s)', t, Frees(Plan(t)), Frees(p))

\* Those of r are as they were.
SameAccounts(r) ==
  /\ Working(r)' = Working(r)
  /\ GUnrefs(r)' = GUnrefs(r) /\ GUnrefs2(r)' = GUnrefs2(r) /\ GFrees(r)' = GFrees(r)
  /\ CbUnrefs(r)' = CbUnrefs(r) /\ Notifies(r)' = Notifies(r)
  /\ Keeps(r)' = Keeps(r) /\ DataFrees(r)' = DataFrees(r)

LEMMA Started ==
  ASSUME ContType, NEW t \in Threads, NEW p \in Plans, NEW s \in Sources, Start(t, p, s)
  PROVE  Planned(t, p, s)
  <1>1. cont' = [cont EXCEPT ![t] = Steps(p, s)] /\ p \in Seq(Op)
    BY PlansType DEF Start
  <1> DEFINE c == Steps(p, s)
  <1>2. /\ c \in Seq(StepType) /\ DOMAIN c = DOMAIN p /\ (c = <<>> <=> p = <<>>)
        /\ Len(c) = Len(p)
        /\ \A i \in 1 .. Len(p) : c[i] = [op |-> p[i], src |-> s]
    BY <1>1, StepsType
  <1>3. p = [i \in 1 .. Len(p) |-> p[i]] /\ DOMAIN p = 1 .. Len(p) /\ Len(p) \in Nat
    BY <1>1, LenProperties
  <1> HIDE DEF c
  <1>4. cont'[t] = c /\ \A u \in Threads \ {t} : cont'[u] = cont[u]
    BY <1>1 DEF c, ContType
  <1>5. cont' \in [Threads -> Seq(StepType)]
    BY <1>1, <1>2 DEF c, ContType
  <1>6. Plan(t)' = p
    BY <1>2, <1>3, <1>4 DEF Plan
  <1>7. p # <<>> => Head(c).src = s
    BY <1>2, <1>3, EmptySeq, <1>1
  <1>8. OneSource(t)'
    BY <1>2, <1>3, <1>4, <1>7 DEF OneSource, Src
  <1>9. \A r : On(t, r)' <=> p # <<>> /\ r = s
    BY <1>2, <1>4, <1>7 DEF On, Src
  <1>10. \A u \in Threads \ {t} :
           /\ Plan(u)' = Plan(u)
           /\ OneSource(u)' <=> OneSource(u)
           /\ \A r : On(u, r)' <=> On(u, r)
    BY <1>4 DEF Plan, OneSource, On, Src
  <1> QED  BY <1>4, <1>5, <1>6, <1>8, <1>9, <1>10 DEF Planned, ContType

\* A thread with nothing to do takes part in no account.
LEMMA NoPlan ==
  /\ ~Ends(<<>>, "gunref") /\ ~Ends(<<>>, "gfree") /\ ~UnrefsTwice(<<>>) /\ ~Frees(<<>>)
  /\ \A op : ~Begins(<<>>, op)
  BY DEF Ends, UnrefsTwice, Frees, Begins

LEMMA Accounted ==
  ASSUME ContType, NEW t \in Threads, NEW p \in Plans, NEW s \in Sources, OneSource(t),
         Planned(t, p, s), cont[t] # <<>> => Src(t) = s, IsFiniteSet(Working(s))
  PROVE  Accounts(t, p, s) /\ \A r \in Sources \ {s} : SameAccounts(r)
  <1>1. /\ On(t, s) <=> Plan(t) # <<>>
        /\ \A r \in Sources \ {s} : ~On(t, r) /\ ~On(t, r)'
        /\ On(t, s)' <=> p # <<>>
    BY PlanFacts DEF Planned
  <1>2. /\ Plan(t)' = p
        /\ \A u \in Threads \ {t} : Plan(u)' = Plan(u) /\ \A r : On(u, r)' <=> On(u, r)
    BY DEF Planned
  <1>3. ASSUME NEW r \in Sources \ {s} PROVE SameAccounts(r)
    <2>1. \A u \in Threads : On(u, r)' <=> On(u, r)
      BY <1>1, <1>2
    <2>2. \A u \in Threads : On(u, r) => Plan(u)' = Plan(u)
      BY <1>1, <1>2
    <2> QED  BY <2>1, <2>2 DEF SameAccounts, Working, GUnrefs, GUnrefs2, GFrees, CbUnrefs,
                   Notifies, Keeps, DataFrees
  <1>4. IsFiniteSet(Working(s)')
    <2>1. Working(s)' \subseteq Working(s) \cup {t}
      BY <1>2 DEF Working
    <2>2. IsFiniteSet(Working(s) \cup {t})
      BY FS_AddElement
    <2> QED  BY <2>1, <2>2, FS_Subset
  <1>5. Moves(Working(s), Working(s)', t, Plan(t) # <<>>, p # <<>>)
    BY <1>1, <1>2, <1>4 DEF Moves, Working
  <1>6. Moves(GUnrefs(s), GUnrefs(s)', t, Ends(Plan(t), "gunref"), Ends(p, "gunref"))
    <2>1. IsFiniteSet(GUnrefs(s)) /\ IsFiniteSet(GUnrefs(s)')
      <3>1. GUnrefs(s) \subseteq Working(s) /\ GUnrefs(s)' \subseteq Working(s)'
        BY DEF GUnrefs, Working
      <3> QED  BY <1>4, <3>1, FS_Subset
    <2>2. /\ t \in GUnrefs(s) <=> Ends(Plan(t), "gunref")
          /\ t \in GUnrefs(s)' <=> Ends(p, "gunref")
      BY <1>1, <1>2, NoPlan DEF GUnrefs
    <2>3. \A u : u # t => (u \in GUnrefs(s)' <=> u \in GUnrefs(s))
      BY <1>2 DEF GUnrefs
    <2> QED  BY <2>1, <2>2, <2>3 DEF Moves
  <1>7. Moves(GUnrefs2(s), GUnrefs2(s)', t, UnrefsTwice(Plan(t)), UnrefsTwice(p))
    <2>1. IsFiniteSet(GUnrefs2(s)) /\ IsFiniteSet(GUnrefs2(s)')
      <3>1. GUnrefs2(s) \subseteq Working(s) /\ GUnrefs2(s)' \subseteq Working(s)'
        BY DEF GUnrefs2, Working
      <3> QED  BY <1>4, <3>1, FS_Subset
    <2>2. /\ t \in GUnrefs2(s) <=> UnrefsTwice(Plan(t))
          /\ t \in GUnrefs2(s)' <=> UnrefsTwice(p)
      BY <1>1, <1>2, NoPlan DEF GUnrefs2
    <2>3. \A u : u # t => (u \in GUnrefs2(s)' <=> u \in GUnrefs2(s))
      BY <1>2 DEF GUnrefs2
    <2> QED  BY <2>1, <2>2, <2>3 DEF Moves
  <1>8. Moves(GFrees(s), GFrees(s)', t, Ends(Plan(t), "gfree"), Ends(p, "gfree"))
    <2>1. IsFiniteSet(GFrees(s)) /\ IsFiniteSet(GFrees(s)')
      <3>1. GFrees(s) \subseteq Working(s) /\ GFrees(s)' \subseteq Working(s)'
        BY DEF GFrees, Working
      <3> QED  BY <1>4, <3>1, FS_Subset
    <2>2. /\ t \in GFrees(s) <=> Ends(Plan(t), "gfree")
          /\ t \in GFrees(s)' <=> Ends(p, "gfree")
      BY <1>1, <1>2, NoPlan DEF GFrees
    <2>3. \A u : u # t => (u \in GFrees(s)' <=> u \in GFrees(s))
      BY <1>2 DEF GFrees
    <2> QED  BY <2>1, <2>2, <2>3 DEF Moves
  <1>9. Moves(CbUnrefs(s), CbUnrefs(s)', t, Begins(Plan(t), "cbunref"), Begins(p, "cbunref"))
    <2>1. IsFiniteSet(CbUnrefs(s)) /\ IsFiniteSet(CbUnrefs(s)')
      <3>1. CbUnrefs(s) \subseteq Working(s) /\ CbUnrefs(s)' \subseteq Working(s)'
        BY DEF CbUnrefs, Working
      <3> QED  BY <1>4, <3>1, FS_Subset
    <2>2. /\ t \in CbUnrefs(s) <=> Begins(Plan(t), "cbunref")
          /\ t \in CbUnrefs(s)' <=> Begins(p, "cbunref")
      BY <1>1, <1>2, NoPlan DEF CbUnrefs
    <2>3. \A u : u # t => (u \in CbUnrefs(s)' <=> u \in CbUnrefs(s))
      BY <1>2 DEF CbUnrefs
    <2> QED  BY <2>1, <2>2, <2>3 DEF Moves
  <1>10. Moves(Notifies(s), Notifies(s)', t, Begins(Plan(t), "notify"), Begins(p, "notify"))
    <2>1. IsFiniteSet(Notifies(s)) /\ IsFiniteSet(Notifies(s)')
      <3>1. Notifies(s) \subseteq Working(s) /\ Notifies(s)' \subseteq Working(s)'
        BY DEF Notifies, Working
      <3> QED  BY <1>4, <3>1, FS_Subset
    <2>2. /\ t \in Notifies(s) <=> Begins(Plan(t), "notify")
          /\ t \in Notifies(s)' <=> Begins(p, "notify")
      BY <1>1, <1>2, NoPlan DEF Notifies
    <2>3. \A u : u # t => (u \in Notifies(s)' <=> u \in Notifies(s))
      BY <1>2 DEF Notifies
    <2> QED  BY <2>1, <2>2, <2>3 DEF Moves
  <1>11. Moves(Keeps(s), Keeps(s)', t, Begins(Plan(t), "keep"), Begins(p, "keep"))
    <2>1. IsFiniteSet(Keeps(s)) /\ IsFiniteSet(Keeps(s)')
      <3>1. Keeps(s) \subseteq Working(s) /\ Keeps(s)' \subseteq Working(s)'
        BY DEF Keeps, Working
      <3> QED  BY <1>4, <3>1, FS_Subset
    <2>2. /\ t \in Keeps(s) <=> Begins(Plan(t), "keep")
          /\ t \in Keeps(s)' <=> Begins(p, "keep")
      BY <1>1, <1>2, NoPlan DEF Keeps
    <2>3. \A u : u # t => (u \in Keeps(s)' <=> u \in Keeps(s))
      BY <1>2 DEF Keeps
    <2> QED  BY <2>1, <2>2, <2>3 DEF Moves
  <1>12. Moves(DataFrees(s), DataFrees(s)', t, Frees(Plan(t)), Frees(p))
    <2>1. IsFiniteSet(DataFrees(s)) /\ IsFiniteSet(DataFrees(s)')
      <3>1. DataFrees(s) \subseteq Working(s) /\ DataFrees(s)' \subseteq Working(s)'
        BY DEF DataFrees, Working
      <3> QED  BY <1>4, <3>1, FS_Subset
    <2>2. /\ t \in DataFrees(s) <=> Frees(Plan(t))
          /\ t \in DataFrees(s)' <=> Frees(p)
      BY <1>1, <1>2, NoPlan DEF DataFrees
    <2>3. \A u : u # t => (u \in DataFrees(s)' <=> u \in DataFrees(s))
      BY <1>2 DEF DataFrees
    <2> QED  BY <2>1, <2>2, <2>3 DEF Moves
  <1> QED  BY <1>3, <1>5, <1>6, <1>7, <1>8, <1>9, <1>10, <1>11, <1>12 DEF Accounts

-----------------------------------------------------------------------------
(* The invariant.                                                          *)

\* The source s is being dispatched.
OnStack(s) == \E i \in DOMAIN stack : stack[i].src = s

\* The callback data of s have not been given up by all that use them.
DataHeld(s) == cbRef[s] > 0 \/ Notifies(s) # {}

\* Who holds the GSource s: the context, the wrapper, the dispatch, the probe, and
\* the threads that are going to call g_source_unref().
GRefs(s) == B(attached[s] /\ active[s]) + B(holders[s] # {}) + B(OnStack(s)) + B(probe.src = s)
            + Cardinality(GUnrefs(s)) + Cardinality(GUnrefs2(s))

\* Each counter is the number of those that hold the object.  A wrapper is kept by
\* the RefPtrs together and by the callback data.
Counted(s) ==
  /\ IsFiniteSet(Working(s)) /\ IsFiniteSet(holders[s])
  /\ gref[s] = GRefs(s)
  /\ cbRef[s] = B(callback[s]) + B(OnStack(s)) + Cardinality(CbUnrefs(s))
  /\ refCount[s] = Cardinality(holders[s])
  /\ keep[s] = B(holders[s] # {}) + B(owns[s] /\ DataHeld(s)) + Cardinality(Keeps(s))

\* A GSource exists until the thread that dropped the last reference has freed it.
GLife(s) ==
  /\ gsource[s] = "unborn" <=> kind[s] = "none"
  /\ gsource[s] = "live" <=> gref[s] > 0 \/ GFrees(s) # {}
  /\ gref[s] > 0 => GFrees(s) = {}
  /\ \A t, u \in GFrees(s) : t = u
  /\ callback[s] => gref[s] > 0
  /\ active[s] /\ gref[s] > 0 => callback[s]

\* Callback data exist until the one thread that notifies has freed them.
DataLife(s) ==
  /\ data[s] = "live" <=> DataHeld(s) \/ DataFrees(s) # {}
  /\ \A t, u \in Notifies(s) \cup DataFrees(s) : t = u
  /\ cbRef[s] > 0 => Notifies(s) = {} /\ DataFrees(s) = {}
  /\ kind[s] # "none" => data[s] # "none"

\* A wrapper exists as long as it is kept; a source whose wrapper's constructor threw
\* is never attached.
WrapperLife(s) ==
  /\ wrapper[s] = "live" <=> keep[s] > 0
  /\ kind[s] \notin WrapperKinds => holders[s] = {} /\ ~owns[s]
  /\ kind[s] \in WrapperKinds /\ ~owns[s] => ~attached[s] /\ holders[s] = {}

\* Nobody has to do with a source that has not been made.
Unborn(s) ==
  kind[s] = "none" =>
    /\ Working(s) = {}
    /\ gref[s] = 0 /\ cbRef[s] = 0 /\ keep[s] = 0
    /\ ~active[s] /\ ~attached[s]

SourceOK(s) == Counted(s) /\ GLife(s) /\ DataLife(s) /\ WrapperLife(s) /\ Unborn(s)

\* Threads follow plans for sources that have been made.
PlansOK ==
  \A t \in Threads :
    /\ Plan(t) \in Plans
    /\ OneSource(t)
    /\ \A s \in Sources : On(t, s) => kind[s] # "none"

\* What the loop is doing.
LoopOK ==
  /\ probe # NoProbe =>
       /\ cont[Loop] = <<>>
       /\ kind[probe.src] = "wrapped"
       /\ attached[probe.src]
  /\ \A i, j \in DOMAIN stack : stack[i].src = stack[j].src => i = j
  /\ \A i \in DOMAIN stack :
       /\ attached[stack[i].src]
       /\ stack[i].node # NULL /\ ~ReconnectInSlot => dataNode[stack[i].src] = stack[i].node

\* Until connect() has attached a new source nobody else has to do with it.
Untouched(t, s) ==
  /\ \A u \in Threads : On(u, s) => u = t
  /\ active[s] /\ ~attached[s] /\ callback[s]
  /\ kind[s] \notin WrapperKinds
  /\ dataNode[s] # NULL
  /\ connected[dataNode[s]] => t = Loop

Connecting ==
  \A t \in Threads, s \in Sources : On(t, s) /\ Connects(Plan(t)) => Untouched(t, s)

\* A node that callback data have is live as long as these are held.
NodeOf(s) ==
  /\ dataNode[s] # NULL => /\ node[dataNode[s]] = "live" <=> DataHeld(s)
                           /\ node[dataNode[s]] # "unborn"
  /\ kind[s] = "none" => dataNode[s] = NULL

\* A live node is the node of some source, or some thread is about to make it that; it
\* points to its source or to none.
BackRef(n) ==
  /\ node[n] = "live" => \/ ConnectDestroyed
                         \/ \E s \in Sources : dataNode[s] = n
                         \/ \E t \in Threads : conn[t].step = "set_node" /\ conn[t].node = n
  /\ node[n] = "live" /\ nodeSrc[n] # NULL =>
       \/ dataNode[nodeSrc[n]] = n
       \/ ConnectDestroyed /\ kind[nodeSrc[n]] \in WrapperKinds
  /\ node[n] = "unborn" => nodeSrc[n] = NULL /\ ~connected[n]
  /\ nodeSrc[n] # NULL => kind[nodeSrc[n]] # "none"

OneOwner == \A s, r \in Sources : dataNode[s] = dataNode[r] /\ dataNode[s] # NULL => s = r

NodesOK ==
  /\ OneOwner
  /\ \A s \in Sources : NodeOf(s)
  /\ \A n \in Nodes : BackRef(n)

\* The node n is that of no source.
Loose(n) == node[n] = "live" /\ \A s \in Sources : dataNode[s] # n

\* What thread t has read in connect_generic() or notify() is still so, and no other
\* thread is about to change it.
ConnOK(t) ==
  LET c == conn[t] IN
  /\ \A u \in Threads \ {t} :
       /\ ~On(u, c.src) /\ conn[u].src # c.src
       /\ c.node # NULL => conn[u].node # c.node
  /\ kind[c.src] # "none"
  /\ attached[c.src] => t = Loop
  /\ t = Loop => probe = NoProbe
  /\ c.step = "destroy" =>
       /\ t = Loop /\ c.node = NULL /\ Plan(t) = <<"destroy">>
       /\ ~ConnectDestroyed => gref[c.src] > 0
  /\ c.step # "destroy" =>
       cont[t] = <<>> /\ t \in holders[c.src] /\ c.node # NULL /\ node[c.node] # "unborn"
  /\ c.step = "set_node" =>
       /\ callback[c.src] /\ Loose(c.node)
       /\ ~ReconnectInSlot => \A i \in DOMAIN stack : stack[i].src = c.src => stack[i].node = NULL
  /\ c.step = "install" => ConnectDestroyed \/ (dataNode[c.src] = c.node /\ callback[c.src])

\* A thread that does nothing but destroy s holds it, or disconnects its slot.
Destroyer(t, s) == t \in holders[s] \/ (conn[t].step = "destroy" /\ conn[t].src = s)

ConnsOK ==
  \A t \in Threads :
    /\ conn[t] # NoConn => ConnOK(t)
    /\ \A s \in Sources : On(t, s) /\ Plan(t) = <<"destroy">> => Destroyer(t, s)

IInv ==
  /\ TypeOK
  /\ PlansOK
  /\ LoopOK
  /\ \A s \in Sources : SourceOK(s)
  /\ Connecting
  /\ NodesOK
  /\ ConnsOK

\* The initial states satisfy the invariant.
LEMMA InitIInv == Init => IInv
  <1> SUFFICES ASSUME Init PROVE IInv
    OBVIOUS
  <1> USE SourceAssumption DEF Init
  <1>1. TypeOK
    BY DEF TypeOK, Threads, NoProbe
  <1>2. PlansOK
    BY NoPlan, ShortPlans DEF PlansOK, Plan, OneSource, On, AtEnd, Threads
  <1>3. LoopOK
    BY DEF LoopOK, NoProbe
  <1>4. ASSUME NEW s \in Sources PROVE SourceOK(s)
    <2>1. /\ Working(s) = {} /\ GUnrefs(s) = {} /\ GUnrefs2(s) = {} /\ GFrees(s) = {}
          /\ CbUnrefs(s) = {} /\ Notifies(s) = {} /\ Keeps(s) = {} /\ DataFrees(s) = {}
      BY DEF Working, GUnrefs, GUnrefs2, GFrees, CbUnrefs, Notifies, Keeps, DataFrees, On, Threads
    <2>2. ~OnStack(s) /\ ~DataHeld(s) /\ probe.src # s
      BY <2>1 DEF OnStack, DataHeld, NoProbe
    <2>3. Counted(s)
      BY <2>1, <2>2, FS_EmptySet DEF Counted, GRefs, B
    <2>4. GLife(s) /\ DataLife(s) /\ WrapperLife(s) /\ Unborn(s)
      BY <2>1, <2>2 DEF GLife, DataLife, WrapperLife, Unborn, WrapperKinds
    <2> QED  BY <2>3, <2>4 DEF SourceOK
  <1>5. Connecting
    BY DEF Connecting, On, Threads
  <1>6. NodesOK
    BY DEF NodesOK, OneOwner, NodeOf, BackRef
  <1>7. ConnsOK
    BY DEF ConnsOK, On, NoConn
  <1> QED  BY <1>1, <1>2, <1>3, <1>4, <1>5, <1>6, <1>7 DEF IInv

-----------------------------------------------------------------------------
(* What a step leaves alone.                                               *)

\* Nothing about the source s is changed.
SameSource(s) ==
  /\ kind'[s] = kind[s] /\ gsource'[s] = gsource[s] /\ gref'[s] = gref[s]
  /\ active'[s] = active[s] /\ attached'[s] = attached[s] /\ callback'[s] = callback[s]
  /\ cbRef'[s] = cbRef[s] /\ data'[s] = data[s] /\ owns'[s] = owns[s]
  /\ wrapper'[s] = wrapper[s] /\ refCount'[s] = refCount[s] /\ keep'[s] = keep[s]
  /\ holders'[s] = holders[s]
  /\ OnStack(s)' <=> OnStack(s)
  /\ (probe.src = s)' <=> probe.src = s

LEMMA SourceKept ==
  ASSUME NEW s \in Sources, SourceOK(s), SameSource(s), SameAccounts(s)
  PROVE  SourceOK(s)'
  <1>1. DataHeld(s)' <=> DataHeld(s)
    BY DEF SameSource, SameAccounts, DataHeld
  <1>2. Counted(s)'
    <2>1. GRefs(s)' = GRefs(s)
      BY DEF SameSource, SameAccounts, GRefs, B
    <2> QED  BY <1>1, <2>1 DEF SameSource, SameAccounts, SourceOK, Counted, B
  <1>3. GLife(s)' /\ DataLife(s)' /\ WrapperLife(s)' /\ Unborn(s)'
    BY <1>1 DEF SameSource, SameAccounts, SourceOK, GLife, DataLife, WrapperLife, Unborn
  <1> QED  BY <1>2, <1>3 DEF SourceOK

\* Without a step of a thread the accounts stay as they are.
LEMMA AccountsKept ==
  ASSUME cont' = cont
  PROVE  \A s \in Sources : SameAccounts(s)
  <1>1. \A u : Plan(u)' = Plan(u) /\ \A s : On(u, s)' <=> On(u, s)
    BY DEF Plan, On, Src
  <1> QED  BY <1>1 DEF SameAccounts, Working, GUnrefs, GUnrefs2, GFrees, CbUnrefs, Notifies,
               Keeps, DataFrees

LEMMA PlansKept ==
  ASSUME PlansOK, cont' = cont, \A s \in Sources : kind[s] # "none" => kind'[s] # "none"
  PROVE  PlansOK'
  BY DEF PlansOK, Plan, OneSource, On, Src

\* Thread t gets a plan for a source that has been made.
LEMMA PlansChange ==
  ASSUME PlansOK, NEW t \in Threads, NEW p \in Plans, NEW s \in Sources, Planned(t, p, s),
         \A r \in Sources : kind[r] # "none" => kind'[r] # "none",
         kind'[s] # "none"
  PROVE  PlansOK'
  <1> SUFFICES ASSUME NEW u \in Threads
               PROVE  /\ Plan(u)' \in Plans
                      /\ OneSource(u)'
                      /\ \A r \in Sources : On(u, r)' => kind'[r] # "none"
    BY DEF PlansOK
  <1>1. CASE u = t
    BY <1>1 DEF Planned
  <1>2. CASE u # t
    BY <1>2 DEF Planned, PlansOK
  <1> QED  BY <1>1, <1>2

LEMMA NodesKept ==
  ASSUME TypeOK, NodesOK, dataNode' = dataNode, node' = node, nodeSrc' = nodeSrc,
         connected' = connected,
         \A s \in Sources : dataNode[s] # NULL => (DataHeld(s)' <=> DataHeld(s)),
         \A s \in Sources : kind[s] # "none" => kind'[s] = kind[s],
         \A t \in Threads : conn[t].step = "set_node" => conn'[t] = conn[t]
  PROVE  NodesOK'
  <1>1. OneOwner'
    BY DEF NodesOK, OneOwner
  <1>2. ASSUME NEW s \in Sources PROVE NodeOf(s)'
    BY DEF NodesOK, NodeOf
  <1>3. ASSUME NEW n \in Nodes PROVE BackRef(n)'
    <2>1. nodeSrc[n] # NULL => nodeSrc[n] \in Sources
      BY DEF TypeOK
    <2> QED  BY <2>1 DEF NodesOK, BackRef
  <1> QED  BY <1>1, <1>2, <1>3 DEF NodesOK

\* A dispatch is that of a source.
LEMMA FrameType ==
  ASSUME TypeOK
  PROVE  \A i \in DOMAIN stack : stack[i] \in Frame /\ stack[i].src \in Sources
  <1>1. stack \in Seq(Frame)
    BY DEF TypeOK
  <1>2. DOMAIN stack = 1 .. Len(stack)
    BY <1>1
  <1>3. \A i \in DOMAIN stack : stack[i] \in Frame
    BY <1>1, <1>2, ElementOfSeq
  <1>4. \A f \in Frame : f.src \in Sources
    BY DEF Frame
  <1> QED  BY <1>3, <1>4

\* The loop goes on with what it is doing while a thread is at work.
LEMMA LoopKept ==
  ASSUME TypeOK, LoopOK, probe # NoProbe => cont'[Loop] = <<>>,
         probe' = probe, stack' = stack,
         \A r \in Sources : kind[r] # "none" => kind'[r] = kind[r],
         \A r \in Sources : attached[r] => attached'[r],
         \A r \in Sources : OnStack(r) => dataNode'[r] = dataNode[r]
  PROVE  LoopOK'
  <1>1. probe # NoProbe => probe.src \in Sources
    BY DEF TypeOK, Probe
  <1>2. \A i \in DOMAIN stack : stack[i].src \in Sources /\ OnStack(stack[i].src)
    BY FrameType DEF OnStack
  <1>3. \A i \in DOMAIN stack :
          /\ attached'[stack[i].src]
          /\ dataNode'[stack[i].src] = dataNode[stack[i].src]
    BY <1>2 DEF LoopOK
  <1> QED  BY <1>1, <1>3 DEF LoopOK

\* Thread t does something with s that leaves alone what the others have read.
Leaves(t, s) ==
  /\ \A u \in Threads \ {t} : /\ conn[u] # NoConn => conn[u].src # s
                              /\ conn'[u] = conn[u] /\ cont'[u] = cont[u]
                              /\ u \in holders[s] => u \in holders'[s]
  /\ \A r \in Sources \ {s} : SameSource(r) /\ dataNode'[r] = dataNode[r] /\ ~On(t, r)'
  /\ \A i \in DOMAIN stack' : stack'[i].src # s => \E j \in DOMAIN stack : stack[j] = stack'[i]
  /\ \A n \in Nodes : /\ node[n] # "unborn" => node'[n] # "unborn"
                      /\ node[n] = "live" /\ dataNode[s] # n => node'[n] = "live"
  /\ dataNode'[s] # NULL => \/ dataNode'[s] = dataNode[s] \/ conn'[t].node = dataNode'[s]
                            \/ node[dataNode'[s]] = "unborn" \/ conn[t].node = dataNode'[s]
  /\ probe' = probe \/ t = Loop
  /\ conn'[t].node # NULL => node[conn'[t].node] = "unborn" \/ conn'[t].node = conn[t].node

LEMMA ConnsKept ==
  ASSUME TypeOK, ConnsOK, NEW t \in Threads, NEW s \in Sources, Leaves(t, s),
         conn'[t] = NoConn \/ (ConnOK(t)' /\ conn'[t].src = s),
         On(t, s)' /\ Plan(t)' = <<"destroy">> => Destroyer(t, s)'
  PROVE  ConnsOK'
  <1>1. ASSUME NEW u \in Threads \ {t}
        PROVE  /\ conn'[u] = conn[u] /\ cont'[u] = cont[u] /\ Plan(u)' = Plan(u)
               /\ conn[u] # NoConn => conn[u] \in Conn /\ conn[u].src \in Sources \ {s}
               /\ \A r : On(u, r)' <=> On(u, r)
               /\ \A r \in Sources : u \in holders[r] => u \in holders'[r]
    <2>1. conn'[u] = conn[u] /\ cont'[u] = cont[u]
      BY DEF Leaves
    <2>2. conn[u] # NoConn => conn[u] \in Conn /\ conn[u].src \in Sources \ {s}
      BY DEF TypeOK, Leaves, Conn
    <2>3. Plan(u)' = Plan(u) /\ \A r : On(u, r)' <=> On(u, r)
      BY <2>1 DEF Plan, On, Src
    <2>4. \A r \in Sources : u \in holders[r] => u \in holders'[r]
      BY DEF Leaves, SameSource
    <2> QED  BY <2>1, <2>2, <2>3, <2>4
  <1>2. ASSUME NEW u \in Threads \ {t}, NEW r \in Sources, On(u, r)', Plan(u)' = <<"destroy">>
        PROVE  Destroyer(u, r)'
    <2>1. Destroyer(u, r)
      BY <1>1, <1>2 DEF ConnsOK
    <2> QED  BY <1>1, <2>1 DEF Destroyer
  <1>3. ASSUME NEW u \in Threads \ {t}, conn'[u] # NoConn PROVE ConnOK(u)'
    <2>1. conn'[u] = conn[u] /\ conn[u] \in Conn /\ conn[u].src \in Sources \ {s}
      BY <1>1, <1>3
    <2>2. PICK r \in Sources \ {s} : r = conn[u].src
      BY <2>1
    <2>3. ConnOK(u) /\ conn[u].src = r /\ conn'[u].src = r
      BY <1>3, <2>1, <2>2 DEF ConnsOK
    <2>4. SameSource(r) /\ dataNode'[r] = dataNode[r] /\ ~On(t, r)'
      BY DEF Leaves
    <2>5. conn[u].node # NULL => conn[u].node \in Nodes /\ node[conn[u].node] # "unborn"
      <3>1. conn[u].node \in Nodes \cup {NULL}
        BY <2>1 DEF Conn
      <3> QED  BY <2>3, <3>1 DEF ConnOK
    <2>6. conn'[t].src # r
      BY <2>2, SourceAssumption DEF NoConn
    <2>7. conn[u].node # NULL => conn'[t].node # conn[u].node
      <3> SUFFICES ASSUME conn[u].node # NULL, conn'[t].node = conn[u].node PROVE FALSE
        OBVIOUS
      <3>1. conn'[t].node = conn[t].node
        BY <2>5 DEF Leaves
      <3> QED  BY <2>3, <3>1 DEF ConnOK
    <2>8. ASSUME NEW v \in Threads \ {u}
          PROVE  /\ ~On(v, r)' /\ conn'[v].src # r
                 /\ conn[u].node # NULL => conn'[v].node # conn[u].node
      <3>1. CASE v = t
        BY <2>4, <2>6, <2>7, <3>1
      <3>2. CASE v # t
        BY <1>1, <2>3, <3>2 DEF ConnOK
      <3> QED  BY <3>1, <3>2
    <2>9. ASSUME conn[u].step = "set_node" PROVE Loose(conn[u].node)'
      <3>1. PICK n \in Nodes : n = conn[u].node /\ n # NULL
        BY <2>3, <2>5, <2>9 DEF ConnOK
      <3>2. node[n] = "live" /\ \A q \in Sources : dataNode[q] # n
        BY <2>3, <2>9, <3>1 DEF ConnOK, Loose
      <3>3. node'[n] = "live"
        BY <3>2 DEF Leaves
      <3>4. dataNode'[s] # n
        <4> SUFFICES ASSUME dataNode'[s] = n PROVE FALSE
          OBVIOUS
        <4>1. conn'[t].node = n \/ conn[t].node = n
          BY <3>1, <3>2 DEF Leaves
        <4> QED  BY <2>3, <2>7, <3>1, <4>1 DEF ConnOK
      <3>5. ASSUME NEW q \in Sources PROVE dataNode'[q] # n
        BY <3>2, <3>4 DEF Leaves
      <3> QED  BY <2>1, <3>1, <3>3, <3>5 DEF Loose
    <2>10. ASSUME conn[u].step = "set_node", ~ReconnectInSlot,
                  NEW i \in DOMAIN stack', stack'[i].src = r
           PROVE  stack'[i].node = NULL
      <3>1. PICK j \in DOMAIN stack : stack[j] = stack'[i]
        BY <2>10 DEF Leaves
      <3> QED  BY <2>3, <2>10, <3>1 DEF ConnOK
    <2>11. u = Loop => probe' = NoProbe
      BY <2>3 DEF ConnOK, Leaves
    <2>12. conn[u].node # NULL /\ node[conn[u].node] # "unborn" => node'[conn[u].node] # "unborn"
      BY <2>5 DEF Leaves
    <2>13. cont'[u] = cont[u] /\ Plan(u)' = Plan(u) /\ (u \in holders[r] => u \in holders'[r])
      BY <1>1
    <2>14. /\ kind'[r] = kind[r] /\ attached'[r] = attached[r] /\ gref'[r] = gref[r]
           /\ callback'[r] = callback[r] /\ dataNode'[r] = dataNode[r]
      BY <2>4 DEF SameSource
    <2> QED  BY <2>1, <2>3, <2>8, <2>9, <2>10, <2>11, <2>12, <2>13, <2>14 DEF ConnOK
  <1>4. ASSUME NEW r \in Sources, On(t, r)', Plan(t)' = <<"destroy">> PROVE Destroyer(t, r)'
    BY <1>4 DEF Leaves
  <1> QED  BY <1>2, <1>3, <1>4 DEF ConnsOK

-----------------------------------------------------------------------------
(* A thread starts on a plan, or goes on with it.                          *)

\* What that means for the accounts of s.
Tally(t, p, s) ==
  /\ /\ Cardinality(GUnrefs(s)) \in Nat /\ Cardinality(GUnrefs(s)') \in Nat
     /\ Cardinality(GUnrefs2(s)) \in Nat /\ Cardinality(GUnrefs2(s)') \in Nat
     /\ Cardinality(CbUnrefs(s)) \in Nat /\ Cardinality(CbUnrefs(s)') \in Nat
     /\ Cardinality(Keeps(s)) \in Nat /\ Cardinality(Keeps(s)') \in Nat
  /\ Cardinality(GUnrefs(s)') + B(Ends(Plan(t), "gunref"))
       = Cardinality(GUnrefs(s)) + B(Ends(p, "gunref"))
  /\ Cardinality(GUnrefs2(s)') + B(UnrefsTwice(Plan(t)))
       = Cardinality(GUnrefs2(s)) + B(UnrefsTwice(p))
  /\ Cardinality(CbUnrefs(s)') + B(Begins(Plan(t), "cbunref"))
       = Cardinality(CbUnrefs(s)) + B(Begins(p, "cbunref"))
  /\ Cardinality(Keeps(s)') + B(Begins(Plan(t), "keep"))
       = Cardinality(Keeps(s)) + B(Begins(p, "keep"))
  /\ /\ Ends(Plan(t), "gunref") => Cardinality(GUnrefs(s)) >= 1
     /\ UnrefsTwice(Plan(t)) => Cardinality(GUnrefs2(s)) >= 1
     /\ Begins(Plan(t), "cbunref") => Cardinality(CbUnrefs(s)) >= 1
     /\ Begins(Plan(t), "keep") => Cardinality(Keeps(s)) >= 1
  /\ /\ t \in GFrees(s) <=> Ends(Plan(t), "gfree")
     /\ t \in Notifies(s) <=> Begins(Plan(t), "notify")
     /\ t \in DataFrees(s) <=> Frees(Plan(t))
  /\ \A u : u \in GFrees(s)' <=> IF u = t THEN Ends(p, "gfree") ELSE u \in GFrees(s)
  /\ \A u : u \in Notifies(s)' <=> IF u = t THEN Begins(p, "notify") ELSE u \in Notifies(s)
  /\ \A u : u \in DataFrees(s)' <=> IF u = t THEN Frees(p) ELSE u \in DataFrees(s)
  /\ IsFiniteSet(Working(s)')

LEMMA TallyOf ==
  ASSUME NEW t \in Threads, NEW p, NEW s \in Sources, Accounts(t, p, s)
  PROVE  Tally(t, p, s)
  <1>1. /\ \A op : Ends(p, op) \in BOOLEAN /\ Begins(p, op) \in BOOLEAN
        /\ UnrefsTwice(p) \in BOOLEAN
        /\ \A op : Ends(Plan(t), op) \in BOOLEAN /\ Begins(Plan(t), op) \in BOOLEAN
        /\ UnrefsTwice(Plan(t)) \in BOOLEAN
    BY DEF Ends, Begins, UnrefsTwice
  <1>2. /\ Cardinality(GUnrefs(s)) \in Nat /\ Cardinality(GUnrefs(s)') \in Nat
        /\ Cardinality(GUnrefs(s)') + B(Ends(Plan(t), "gunref"))
             = Cardinality(GUnrefs(s)) + B(Ends(p, "gunref"))
        /\ Ends(Plan(t), "gunref") => Cardinality(GUnrefs(s)) >= 1
    <2>1. Moves(GUnrefs(s), GUnrefs(s)', t, Ends(Plan(t), "gunref"), Ends(p, "gunref"))
      BY DEF Accounts
    <2>2. Ends(Plan(t), "gunref") => Cardinality(GUnrefs(s)) >= 1
      BY <2>1, SmallSets DEF Moves
    <2> QED  BY <1>1, <2>1, <2>2, MovesCount
  <1>3. /\ Cardinality(GUnrefs2(s)) \in Nat /\ Cardinality(GUnrefs2(s)') \in Nat
        /\ Cardinality(GUnrefs2(s)') + B(UnrefsTwice(Plan(t)))
             = Cardinality(GUnrefs2(s)) + B(UnrefsTwice(p))
        /\ UnrefsTwice(Plan(t)) => Cardinality(GUnrefs2(s)) >= 1
    <2>1. Moves(GUnrefs2(s), GUnrefs2(s)', t, UnrefsTwice(Plan(t)), UnrefsTwice(p))
      BY DEF Accounts
    <2>2. UnrefsTwice(Plan(t)) => Cardinality(GUnrefs2(s)) >= 1
      BY <2>1, SmallSets DEF Moves
    <2> QED  BY <1>1, <2>1, <2>2, MovesCount
  <1>4. /\ Cardinality(CbUnrefs(s)) \in Nat /\ Cardinality(CbUnrefs(s)') \in Nat
        /\ Cardinality(CbUnrefs(s)') + B(Begins(Plan(t), "cbunref"))
             = Cardinality(CbUnrefs(s)) + B(Begins(p, "cbunref"))
        /\ Begins(Plan(t), "cbunref") => Cardinality(CbUnrefs(s)) >= 1
    <2>1. Moves(CbUnrefs(s), CbUnrefs(s)', t, Begins(Plan(t), "cbunref"), Begins(p, "cbunref"))
      BY DEF Accounts
    <2>2. Begins(Plan(t), "cbunref") => Cardinality(CbUnrefs(s)) >= 1
      BY <2>1, SmallSets DEF Moves
    <2> QED  BY <1>1, <2>1, <2>2, MovesCount
  <1>5. /\ Cardinality(Keeps(s)) \in Nat /\ Cardinality(Keeps(s)') \in Nat
        /\ Cardinality(Keeps(s)') + B(Begins(Plan(t), "keep"))
             = Cardinality(Keeps(s)) + B(Begins(p, "keep"))
        /\ Begins(Plan(t), "keep") => Cardinality(Keeps(s)) >= 1
    <2>1. Moves(Keeps(s), Keeps(s)', t, Begins(Plan(t), "keep"), Begins(p, "keep"))
      BY DEF Accounts
    <2>2. Begins(Plan(t), "keep") => Cardinality(Keeps(s)) >= 1
      BY <2>1, SmallSets DEF Moves
    <2> QED  BY <1>1, <2>1, <2>2, MovesCount
  <1>6. /\ t \in GFrees(s) <=> Ends(Plan(t), "gfree")
        /\ t \in Notifies(s) <=> Begins(Plan(t), "notify")
        /\ t \in DataFrees(s) <=> Frees(Plan(t))
    BY DEF Accounts, Moves
  <1>7. /\ \A u : u \in GFrees(s)' <=> IF u = t THEN Ends(p, "gfree") ELSE u \in GFrees(s)
        /\ \A u : u \in Notifies(s)' <=> IF u = t THEN Begins(p, "notify") ELSE u \in Notifies(s)
        /\ \A u : u \in DataFrees(s)' <=> IF u = t THEN Frees(p) ELSE u \in DataFrees(s)
    BY DEF Accounts, Moves
  <1>8. IsFiniteSet(Working(s)')
    BY DEF Accounts, Moves
  <1> QED  BY <1>2, <1>3, <1>4, <1>5, <1>6, <1>7, <1>8 DEF Tally

\* Thread t goes on with the plan q, for s as before.
LEMMA Worked ==
  ASSUME IInv, NEW t \in Threads, cont[t] # <<>>, NEW ops \in Seq(Op), Continue(t, ops),
         NEW q \in Plans, q = ops \o Tail(Plan(t)), NEW s \in Sources, s = Src(t)
  PROVE  /\ Planned(t, q, s) /\ Tally(t, q, s)
         /\ \A r \in Sources \ {s} : SameAccounts(r)
  <1>1. ContType /\ OneSource(t) /\ IsFiniteSet(Working(s))
    BY DEF IInv, TypeOK, ContType, StepType, PlansOK, SourceOK, Counted
  <1>2. Start(t, q, s)
    BY <1>1, ContinueStarts
  <1>3. Planned(t, q, s)
    BY <1>1, <1>2, Started
  <1> QED  BY <1>1, <1>3, Accounted, TallyOf

\* Thread t, which had nothing to do, starts on the plan p for s.
LEMMA Begun ==
  ASSUME IInv, NEW t \in Threads, cont[t] = <<>>, NEW p \in Plans, NEW s \in Sources,
         Start(t, p, s)
  PROVE  /\ Planned(t, p, s) /\ Tally(t, p, s) /\ Plan(t) = <<>>
         /\ \A r \in Sources \ {s} : SameAccounts(r)
  <1>1. ContType /\ OneSource(t) /\ IsFiniteSet(Working(s))
    BY DEF IInv, TypeOK, ContType, StepType, PlansOK, SourceOK, Counted
  <1>2. Planned(t, p, s)
    BY <1>1, Started
  <1>3. Plan(t) = <<>>
    BY <1>1, PlanFacts
  <1> QED  BY <1>1, <1>2, <1>3, Accounted, TallyOf

\* What thread t is about to do is the first operation of its plan.
LEMMA AtWork ==
  ASSUME IInv, NEW t \in Threads, NEW op, Doing(t, op)
  PROVE  /\ cont[t] # <<>> /\ Src(t) \in Sources
         /\ Plan(t) \in Plans /\ Begins(Plan(t), op) /\ Tail(Plan(t)) \in Seq(Op)
         /\ On(t, Src(t)) /\ kind[Src(t)] # "none"
         /\ \A s : On(t, s) => s = Src(t)
         /\ op # "destroy" => conn[t] = NoConn
  <1>1. ContType /\ OneSource(t) /\ cont[t] # <<>> /\ Plan(t) \in Plans
    BY DEF IInv, TypeOK, ContType, StepType, PlansOK, Doing
  <1>2. /\ Src(t) \in Sources /\ Head(cont[t]).op = Plan(t)[1] /\ Plan(t) # <<>>
        /\ Tail(Plan(t)) \in Seq(Op)
    BY <1>1, PlanFacts
  <1>3. Begins(Plan(t), op)
    BY <1>2 DEF Begins, Doing
  <1>4. On(t, Src(t)) /\ \A s : On(t, s) => s = Src(t)
    BY <1>1 DEF On
  <1>5. op # "destroy" => conn[t] = NoConn
    <2>1. conn[t] # NoConn => Plan(t) = <<"destroy">>
      BY <1>1 DEF IInv, ConnsOK, ConnOK
    <2> QED  BY <1>3, <2>1 DEF Begins
  <1> QED  BY <1>1, <1>2, <1>3, <1>4, <1>5 DEF IInv, PlansOK


\* Thread t goes on with the plan q for s: what is left to show.
LEMMA WorkIInv ==
  ASSUME IInv, NEW t \in Threads, NEW s \in Sources, On(t, s),
         NEW q \in Plans, Planned(t, q, s),
         Connects(q) => Connects(Plan(t)) /\ Untouched(t, s)',
         \A r \in Sources \ {s} : SameAccounts(r) /\ SameSource(r) /\ dataNode'[r] = dataNode[r],
         kind' = kind, connected' = connected, probe' = probe, stack' = stack,
         attached[s] => attached'[s],
         OnStack(s) => dataNode'[s] = dataNode[s],
         TypeOK', SourceOK(s)', NodesOK',
         q # <<"destroy">>, conn'[t] = NoConn, \A u \in Threads \ {t} : conn'[u] = conn[u],
         holders'[s] = holders[s], dataNode'[s] \in {dataNode[s], NULL},
         \A n \in Nodes : /\ node[n] # "unborn" => node'[n] # "unborn"
                          /\ node[n] = "live" /\ dataNode[s] # n => node'[n] = "live"
  PROVE  IInv'
  <1>1. \A r \in Sources : SourceOK(r)'
    BY SourceKept DEF IInv
  <1>2. cont[t] # <<>> /\ kind[s] # "none" /\ \A r : On(t, r) => r = s
    BY DEF IInv, PlansOK, On
  <1>3. PlansOK'
    BY <1>2, PlansChange DEF IInv, PlansOK
  <1>4. LoopOK'
    <2>1. probe # NoProbe => cont'[Loop] = <<>>
      BY <1>2 DEF Planned, IInv, LoopOK, Threads
    <2>2. \A r \in Sources : attached[r] => attached'[r]
      BY DEF SameSource
    <2> QED  BY <2>1, <2>2, LoopKept DEF IInv, SameSource
  <1>5. Connecting'
    <2> SUFFICES ASSUME NEW u \in Threads, NEW r \in Sources, On(u, r)', Connects(Plan(u)')
                 PROVE  Untouched(u, r)'
      BY DEF Connecting
    <2>1. CASE u = t
      BY <2>1 DEF Planned
    <2>2. CASE u # t
      <3>1. On(u, r) /\ Connects(Plan(u)) /\ \A v \in Threads : On(v, r)' => v = t \/ On(v, r)
        BY <2>2 DEF Planned
      <3>2. Untouched(u, r) /\ r # s
        BY <2>2, <3>1 DEF IInv, Connecting, Untouched
      <3>3. ~On(t, r)'
        BY <3>2 DEF Planned
      <3> QED  BY <3>1, <3>2, <3>3 DEF SameSource, Untouched
    <2> QED  BY <2>1, <2>2
  <1>6. ConnsOK'
    <2>1. \A u \in Threads \ {t} : conn[u] # NoConn => conn[u].src # s
      BY DEF IInv, ConnsOK, ConnOK
    <2>2. \A u \in Threads \ {t} : cont'[u] = cont[u]
      BY DEF Planned
    <2>3. \A r \in Sources \ {s} : ~On(t, r)'
      BY DEF Planned
    <2>4. Plan(t)' # <<"destroy">>
      BY DEF Planned
    <2>5. conn'[t].node = NULL
      BY DEF NoConn
    <2> QED  BY <2>1, <2>2, <2>3, <2>4, <2>5, ConnsKept DEF Leaves, IInv
  <1> QED  BY <1>1, <1>3, <1>4, <1>5, <1>6 DEF IInv


-----------------------------------------------------------------------------
(* The steps of threads.                                                   *)

\* A reference on the callback is dropped, and the last one notifies.
LEMMA CbUnrefIInv ==
  ASSUME IInv, NEW t \in Threads, CbUnref(t)
  PROVE  IInv'
  <1>1. PICK s \in Sources : s = Src(t)
    BY AtWork DEF CbUnref
  <1>2. PICK p \in Plans : p = Plan(t)
    BY AtWork DEF CbUnref
  <1>3. /\ cont[t] # <<>> /\ Begins(p, "cbunref") /\ Tail(p) \in Seq(Op)
        /\ On(t, s) /\ kind[s] # "none" /\ conn[t] = NoConn
    BY <1>1, <1>2, AtWork DEF CbUnref
  <1>4. SourceOK(s) /\ TypeOK /\ PlansOK /\ LoopOK /\ Connecting /\ NodesOK
    BY DEF IInv
  <1>5. /\ cbRef' = [cbRef EXCEPT ![s] = @ - 1]
        /\ Continue(t, IF cbRef[s] = 1 THEN <<"notify">> ELSE <<>>)
        /\ UNCHANGED <<kind, gsource, gref, active, attached, callback, dvars, wvars, nvars, lvars, conn>>
    BY <1>1 DEF CbUnref
  <1>6. PICK q \in Plans :
          /\ q = (IF cbRef[s] = 1 THEN <<"notify">> ELSE <<>>) \o Tail(p)
          /\ q # <<>> /\ SameEnd(q, p) /\ ~Frees(p) /\ ~Frees(q)
          /\ IF cbRef[s] = 1 THEN q[1] = "notify" ELSE q[1] \in Closing
    <2>1. <<>> \o Tail(p) = Tail(p)
      BY <1>3, JoinedEmpty
    <2>2. /\ ~Frees(p)
          /\ Becomes(p, Tail(p), Closing) /\ ~Frees(Tail(p))
          /\ Becomes(p, <<"notify">> \o Tail(p), {"notify"}) /\ ~Frees(<<"notify">> \o Tail(p))
      BY <1>3, CbUnrefPlans
    <2> QED  BY <2>1, <2>2 DEF Becomes
  <1>7. /\ Planned(t, q, s) /\ Tally(t, q, s)
        /\ \A r \in Sources \ {s} : SameAccounts(r)
    <2>1. (IF cbRef[s] = 1 THEN <<"notify">> ELSE <<>>) \in Seq(Op)
      BY OpsAre
    <2> QED  BY <1>1, <1>2, <1>3, <1>5, <1>6, <2>1, Worked
  <1>8. /\ ~Begins(p, "notify") /\ ~Begins(p, "keep")
        /\ ~Begins(q, "cbunref") /\ ~Begins(q, "keep") /\ ~Connects(q)
        /\ Begins(q, "notify") <=> cbRef[s] = 1
    BY <1>3, <1>6 DEF Begins, Connects, Closing
  <1>9. cbRef[s] \in Nat /\ cbRef[s] >= 1 /\ cbRef'[s] = cbRef[s] - 1 /\ cbRef'[s] \in Nat
    <2>1. Cardinality(CbUnrefs(s)) >= 1 /\ Cardinality(CbUnrefs(s)) \in Nat
      BY <1>2, <1>3, <1>7 DEF Tally
    <2>2. cbRef[s] = B(callback[s]) + B(OnStack(s)) + Cardinality(CbUnrefs(s))
      BY <1>4 DEF SourceOK, Counted
    <2>3. cbRef'[s] = cbRef[s] - 1
      BY <1>4, <1>5 DEF TypeOK
    <2> QED  BY <2>1, <2>2, <2>3 DEF B
  <1>10. TypeOK'
    <2>1. cbRef' \in [Sources -> Nat]
      BY <1>4, <1>5, <1>9 DEF TypeOK
    <2> QED  BY <1>4, <1>5, <1>7, <2>1
             DEF TypeOK, dvars, wvars, nvars, lvars, Planned, ContType, StepType
  <1>11. DataHeld(s) /\ DataHeld(s)'
    <2>1. cbRef[s] = 1 => t \in Notifies(s)'
      BY <1>7, <1>8 DEF Tally
    <2>2. cbRef[s] # 1 => cbRef'[s] > 0
      BY <1>9
    <2> QED  BY <1>9, <2>1, <2>2 DEF DataHeld
  <1>12. SourceOK(s)'
    <2>1. GRefs(s)' = GRefs(s)
      <3>1. /\ Cardinality(GUnrefs(s)') = Cardinality(GUnrefs(s))
            /\ Cardinality(GUnrefs2(s)') = Cardinality(GUnrefs2(s))
        BY <1>2, <1>6, <1>7 DEF Tally, SameEnd, B
      <3> QED  BY <1>5, <3>1 DEF GRefs, B, wvars, lvars, OnStack
    <2>2. cbRef'[s] = B(callback[s]) + B(OnStack(s)) + Cardinality(CbUnrefs(s)')
      <3>1. Cardinality(CbUnrefs(s)') + 1 = Cardinality(CbUnrefs(s))
        BY <1>2, <1>3, <1>7, <1>8 DEF Tally, B
      <3>2. cbRef[s] = B(callback[s]) + B(OnStack(s)) + Cardinality(CbUnrefs(s))
        BY <1>4 DEF SourceOK, Counted
      <3>3. Cardinality(CbUnrefs(s)) \in Nat /\ Cardinality(CbUnrefs(s)') \in Nat
        BY <1>7 DEF Tally
      <3> QED  BY <1>9, <3>1, <3>2, <3>3 DEF B
    <2>3. Cardinality(Keeps(s)') = Cardinality(Keeps(s))
      BY <1>2, <1>7, <1>8 DEF Tally, B
    <2>4. Counted(s)'
      <3>1. keep'[s] = B(holders'[s] # {}) + B(owns'[s] /\ DataHeld(s)') + Cardinality(Keeps(s)')
        BY <1>4, <1>5, <1>11, <2>3 DEF SourceOK, Counted, B, wvars, dvars
      <3>2. IsFiniteSet(Working(s)')
        BY <1>7 DEF Tally
      <3> QED  BY <1>4, <1>5, <2>1, <2>2, <3>1, <3>2
               DEF SourceOK, Counted, wvars, lvars, OnStack, B
    <2>5. \A u : u \in GFrees(s)' <=> u \in GFrees(s)
      BY <1>2, <1>6, <1>7 DEF Tally, SameEnd
    <2>6. GLife(s)'
      BY <1>4, <1>5, <2>5 DEF SourceOK, GLife
    <2>7. DataLife(s)'
      <3>1. Notifies(s) = {} /\ DataFrees(s) = {}
        BY <1>4, <1>9 DEF SourceOK, DataLife
      <3>2. DataFrees(s)' = {}
        BY <1>6, <1>7, <3>1 DEF Tally
      <3>3. \A u : u \in Notifies(s)' <=> u = t /\ cbRef[s] = 1
        BY <1>7, <1>8, <3>1 DEF Tally
      <3>4. data[s] = "live"
        BY <1>4, <1>11 DEF SourceOK, DataLife
      <3>5. cbRef'[s] > 0 => cbRef[s] # 1
        BY <1>9
      <3> QED  BY <1>5, <1>11, <3>2, <3>3, <3>4, <3>5 DEF DataLife, dvars
    <2>8. WrapperLife(s)' /\ Unborn(s)'
      BY <1>3, <1>4, <1>5 DEF SourceOK, WrapperLife, Unborn, dvars, wvars
    <2> QED  BY <2>4, <2>6, <2>7, <2>8 DEF SourceOK
  <1>13. \A r \in Sources \ {s} : SameSource(r)
    BY <1>4, <1>5 DEF SameSource, TypeOK, dvars, wvars, lvars, OnStack
  <1>14. NodesOK'
    <2>1. ASSUME NEW r \in Sources PROVE DataHeld(r)' <=> DataHeld(r)
      <3>1. CASE r # s
        BY <1>5, <1>4, <1>7, <3>1 DEF TypeOK, SameAccounts, DataHeld
      <3> QED  BY <1>11, <3>1
    <2> QED  BY <1>4, <1>5, <2>1, NodesKept DEF dvars, nvars
  <1>20. q # <<"destroy">>
    BY <1>3, <1>6, GoesOn DEF Begins
  <1>21. conn'[t] = NoConn /\ \A u \in Threads \ {t} : conn'[u] = conn[u]
    BY <1>3, <1>5
  <1>22. /\ holders'[s] = holders[s] /\ dataNode'[s] \in {dataNode[s], NULL}
         /\ \A n \in Nodes : /\ node[n] # "unborn" => node'[n] # "unborn"
                             /\ node[n] = "live" /\ dataNode[s] # n => node'[n] = "live"
    BY <1>4, <1>5 DEF TypeOK, dvars, wvars, nvars
  <1> QED  BY <1>2, <1>3, <1>5, <1>6, <1>7, <1>8, <1>10, <1>12, <1>13, <1>14, <1>20, <1>21,
              <1>22, WorkIInv
           DEF SameEnd, dvars, nvars, lvars


\* The wrapper is deleted when neither RefPtrs nor callback data keep it.
LEMMA KeepStepIInv ==
  ASSUME IInv, NEW t \in Threads, KeepStep(t)
  PROVE  IInv'
  <1>1. PICK s \in Sources : s = Src(t)
    BY AtWork DEF KeepStep
  <1>2. PICK p \in Plans : p = Plan(t)
    BY AtWork DEF KeepStep
  <1>3. /\ cont[t] # <<>> /\ Begins(p, "keep") /\ Tail(p) \in Seq(Op)
        /\ On(t, s) /\ kind[s] # "none" /\ conn[t] = NoConn
    BY <1>1, <1>2, AtWork DEF KeepStep
  <1>4. SourceOK(s) /\ TypeOK /\ PlansOK /\ LoopOK /\ Connecting /\ NodesOK
    BY DEF IInv
  <1>5. /\ keep' = [keep EXCEPT ![s] = @ - 1]
        /\ wrapper' = IF keep[s] = 1 THEN [wrapper EXCEPT ![s] = "deleted"] ELSE wrapper
        /\ Continue(t, <<>>)
        /\ UNCHANGED <<kind, gvars, dvars, refCount, holders, nvars, lvars, conn>>
    BY <1>1 DEF KeepStep
  <1>6. PICK q \in Plans :
          /\ q = <<>> \o Tail(p)
          /\ q # <<>> /\ SameEnd(q, p) /\ q[1] \in {"gunref", "free"}
          /\ Frees(q) <=> Frees(p)
    BY <1>3, KeepPlans, JoinedEmpty DEF Becomes
  <1>7. /\ Planned(t, q, s) /\ Tally(t, q, s)
        /\ \A r \in Sources \ {s} : SameAccounts(r)
    <2>1. <<>> \in Seq(Op)
      OBVIOUS
    <2> QED  BY <1>1, <1>2, <1>3, <1>5, <1>6, <2>1, Worked
  <1>8. /\ ~Begins(p, "notify") /\ ~Begins(p, "cbunref")
        /\ ~Begins(q, "notify") /\ ~Begins(q, "cbunref") /\ ~Begins(q, "keep") /\ ~Connects(q)
    BY <1>3, <1>6 DEF Begins, Connects
  <1>9. /\ keep[s] \in Nat /\ keep[s] >= 1 /\ keep'[s] = keep[s] - 1 /\ keep'[s] \in Nat
        /\ keep[s] = B(holders[s] # {}) + B(owns[s] /\ DataHeld(s)) + Cardinality(Keeps(s))
    <2>1. Cardinality(Keeps(s)) >= 1 /\ Cardinality(Keeps(s)) \in Nat
      BY <1>2, <1>3, <1>7 DEF Tally
    <2>2. keep[s] = B(holders[s] # {}) + B(owns[s] /\ DataHeld(s)) + Cardinality(Keeps(s))
      BY <1>4 DEF SourceOK, Counted
    <2>3. keep'[s] = keep[s] - 1
      BY <1>4, <1>5 DEF TypeOK
    <2> QED  BY <2>1, <2>2, <2>3 DEF B
  <1>10. TypeOK'
    <2>1. keep' \in [Sources -> Nat]
      BY <1>4, <1>5, <1>9 DEF TypeOK
    <2>2. wrapper' \in [Sources -> {"none", "live", "deleted"}]
      BY <1>4, <1>5 DEF TypeOK
    <2> QED  BY <1>4, <1>5, <1>7, <2>1, <2>2
             DEF TypeOK, gvars, dvars, nvars, lvars, Planned, ContType, StepType
  <1>11. /\ \A u : u \in Notifies(s)' <=> u \in Notifies(s)
         /\ \A u : u \in GFrees(s)' <=> u \in GFrees(s)
         /\ \A u : u \in DataFrees(s)' <=> u \in DataFrees(s)
         /\ DataHeld(s)' <=> DataHeld(s)
    <2>1. \A u : u \in Notifies(s)' <=> u \in Notifies(s)
      BY <1>2, <1>7, <1>8 DEF Tally
    <2>2. \A u : u \in GFrees(s)' <=> u \in GFrees(s)
      BY <1>2, <1>6, <1>7 DEF Tally, SameEnd
    <2>3. \A u : u \in DataFrees(s)' <=> u \in DataFrees(s)
      BY <1>2, <1>6, <1>7 DEF Tally
    <2> QED  BY <1>5, <2>1, <2>2, <2>3 DEF DataHeld, gvars
  <1>12. SourceOK(s)'
    <2>1. GRefs(s)' = GRefs(s)
      <3>1. /\ Cardinality(GUnrefs(s)') = Cardinality(GUnrefs(s))
            /\ Cardinality(GUnrefs2(s)') = Cardinality(GUnrefs2(s))
        BY SMTT(30), <1>2, <1>6, <1>7 DEF Tally, SameEnd, B
      <3> QED  BY <1>5, <3>1 DEF GRefs, B, gvars, lvars, OnStack
    <2>2. Cardinality(CbUnrefs(s)') = Cardinality(CbUnrefs(s))
      BY <1>2, <1>7, <1>8 DEF Tally, B
    <2>3. keep'[s] = B(holders'[s] # {}) + B(owns'[s] /\ DataHeld(s)') + Cardinality(Keeps(s)')
      <3>1. Cardinality(Keeps(s)') + 1 = Cardinality(Keeps(s))
        BY <1>2, <1>3, <1>7, <1>8 DEF Tally, B
      <3>2. Cardinality(Keeps(s)) \in Nat /\ Cardinality(Keeps(s)') \in Nat
        BY <1>7 DEF Tally
      <3>3. /\ B(holders'[s] # {}) = B(holders[s] # {})
            /\ B(owns'[s] /\ DataHeld(s)') = B(owns[s] /\ DataHeld(s))
        BY <1>5, <1>11 DEF B, dvars
      <3> QED  BY <1>9, <3>1, <3>2, <3>3 DEF B
    <2>4. Counted(s)'
      <3>2. IsFiniteSet(Working(s)')
        BY <1>7 DEF Tally
      <3> QED  BY <1>4, <1>5, <2>1, <2>2, <2>3, <3>2
               DEF SourceOK, Counted, gvars, lvars, OnStack, B
    <2>5. GLife(s)'
      BY <1>4, <1>5, <1>11 DEF SourceOK, GLife, gvars
    <2>6. DataLife(s)'
      BY <1>4, <1>5, <1>11 DEF SourceOK, DataLife, gvars, dvars
    <2>7. WrapperLife(s)'
      <3>1. wrapper'[s] = "live" <=> keep'[s] > 0
        <4>1. CASE keep[s] = 1
          BY <1>4, <1>5, <1>9, <4>1 DEF TypeOK
        <4>2. CASE keep[s] # 1
          BY <1>4, <1>5, <1>9, <4>2 DEF SourceOK, WrapperLife
        <4> QED  BY <4>1, <4>2
      <3> QED  BY <1>4, <1>5, <3>1 DEF SourceOK, WrapperLife, gvars, dvars
    <2>8. Unborn(s)'
      BY <1>3, <1>5 DEF Unborn
    <2> QED  BY <2>4, <2>5, <2>6, <2>7, <2>8 DEF SourceOK
  <1>13. \A r \in Sources \ {s} : SameSource(r)
    BY <1>4, <1>5 DEF SameSource, TypeOK, gvars, dvars, lvars, OnStack
  <1>14. NodesOK'
    <2>1. ASSUME NEW r \in Sources PROVE DataHeld(r)' <=> DataHeld(r)
      <3>1. CASE r # s
        BY <1>5, <1>7, <3>1 DEF SameAccounts, DataHeld, gvars
      <3> QED  BY <1>11, <3>1
    <2> QED  BY <1>4, <1>5, <2>1, NodesKept DEF dvars, nvars
  <1>20. q # <<"destroy">>
    BY <1>3, <1>6, GoesOn DEF Begins
  <1>21. conn'[t] = NoConn /\ \A u \in Threads \ {t} : conn'[u] = conn[u]
    BY <1>3, <1>5
  <1>22. /\ holders'[s] = holders[s] /\ dataNode'[s] \in {dataNode[s], NULL}
         /\ \A n \in Nodes : /\ node[n] # "unborn" => node'[n] # "unborn"
                             /\ node[n] = "live" /\ dataNode[s] # n => node'[n] = "live"
    BY <1>4, <1>5 DEF TypeOK, dvars, wvars, nvars
  <1> QED  BY <1>2, <1>3, <1>5, <1>6, <1>7, <1>8, <1>10, <1>12, <1>13, <1>14, <1>20, <1>21,
              <1>22, WorkIInv
           DEF SameEnd, gvars, dvars, nvars, lvars


\* The callback data are freed; nobody uses them.
LEMMA FreeDataIInv ==
  ASSUME IInv, NEW t \in Threads, FreeData(t)
  PROVE  IInv'
  <1>1. PICK s \in Sources : s = Src(t)
    BY AtWork DEF FreeData
  <1>2. PICK p \in Plans : p = Plan(t)
    BY AtWork DEF FreeData
  <1>3. /\ cont[t] # <<>> /\ Begins(p, "free") /\ Tail(p) \in Seq(Op)
        /\ On(t, s) /\ kind[s] # "none" /\ conn[t] = NoConn
    BY <1>1, <1>2, AtWork DEF FreeData
  <1>4. SourceOK(s) /\ TypeOK /\ PlansOK /\ LoopOK /\ Connecting /\ NodesOK
    BY DEF IInv
  <1>5. /\ data' = [data EXCEPT ![s] = "deleted"]
        /\ dataNode' = [dataNode EXCEPT ![s] = NULL]
        /\ Continue(t, <<>>)
        /\ UNCHANGED <<kind, gvars, owns, wvars, nvars, lvars, conn>>
    BY <1>1 DEF FreeData
  <1>6. PICK q \in Plans :
          /\ q = <<>> \o Tail(p)
          /\ q # <<>> /\ SameEnd(q, p) /\ q[1] \in Closing
          /\ ~Frees(q) /\ Frees(p)
    BY <1>3, FreePlans, JoinedEmpty DEF Becomes
  <1>7. /\ Planned(t, q, s) /\ Tally(t, q, s)
        /\ \A r \in Sources \ {s} : SameAccounts(r)
    <2>1. <<>> \in Seq(Op)
      OBVIOUS
    <2> QED  BY <1>1, <1>2, <1>3, <1>5, <1>6, <2>1, Worked
  <1>8. /\ ~Begins(p, "notify") /\ ~Begins(p, "cbunref") /\ ~Begins(p, "keep")
        /\ ~Begins(q, "notify") /\ ~Begins(q, "cbunref") /\ ~Begins(q, "keep") /\ ~Connects(q)
    BY <1>3, <1>6 DEF Begins, Connects, Closing
  <1>9. /\ cbRef[s] = 0 /\ Notifies(s) = {} /\ DataFrees(s) = {t} /\ ~DataHeld(s) /\ ~OnStack(s)
    <2>1. t \in DataFrees(s) /\ t \notin Notifies(s)
      BY <1>2, <1>6, <1>7, <1>8 DEF Tally
    <2>2. cbRef[s] \in Nat
      BY <1>4 DEF TypeOK
    <2>3. cbRef[s] = 0 /\ Notifies(s) = {} /\ DataFrees(s) = {t}
      BY <1>4, <2>1, <2>2 DEF SourceOK, DataLife
    <2>4. cbRef[s] = B(callback[s]) + B(OnStack(s)) + Cardinality(CbUnrefs(s))
      BY <1>4 DEF SourceOK, Counted
    <2>5. ~OnStack(s)
      BY <1>7, <2>3, <2>4 DEF Tally, B
    <2> QED  BY <2>3, <2>5 DEF DataHeld
  <1>10. TypeOK'
    <2>1. data' \in [Sources -> {"none", "live", "deleted"}]
      BY <1>4, <1>5 DEF TypeOK
    <2>2. dataNode' \in [Sources -> Nodes \cup {NULL}]
      BY <1>4, <1>5 DEF TypeOK
    <2> QED  BY <1>4, <1>5, <1>7, <2>1, <2>2
             DEF TypeOK, gvars, wvars, nvars, lvars, Planned, ContType, StepType
  <1>11. /\ Notifies(s)' = {} /\ DataFrees(s)' = {} /\ ~DataHeld(s)'
         /\ \A u : u \in GFrees(s)' <=> u \in GFrees(s)
    <2>1. Notifies(s)' = {}
      BY <1>7, <1>8, <1>9 DEF Tally
    <2>2. \A u : u \in GFrees(s)' <=> u \in GFrees(s)
      BY <1>2, <1>6, <1>7 DEF Tally, SameEnd
    <2>3. DataFrees(s)' = {}
      BY <1>6, <1>7, <1>9 DEF Tally
    <2> QED  BY <1>5, <1>9, <2>1, <2>2, <2>3 DEF DataHeld, gvars
  <1>12. SourceOK(s)'
    <2>1. GRefs(s)' = GRefs(s)
      <3>1. /\ Cardinality(GUnrefs(s)') = Cardinality(GUnrefs(s))
            /\ Cardinality(GUnrefs2(s)') = Cardinality(GUnrefs2(s))
        BY SMTT(30), <1>2, <1>6, <1>7 DEF Tally, SameEnd, B
      <3> QED  BY <1>5, <3>1 DEF GRefs, B, gvars, wvars, lvars, OnStack
    <2>2. /\ Cardinality(CbUnrefs(s)') = Cardinality(CbUnrefs(s))
          /\ Cardinality(Keeps(s)') = Cardinality(Keeps(s))
      BY <1>2, <1>7, <1>8 DEF Tally, B
    <2>3. IsFiniteSet(Working(s)')
      BY <1>7 DEF Tally
    <2>4. Counted(s)'
      BY <1>4, <1>5, <1>9, <1>11, <2>1, <2>2, <2>3
         DEF SourceOK, Counted, gvars, wvars, lvars, OnStack, B
    <2>5. GLife(s)'
      BY <1>4, <1>5, <1>11 DEF SourceOK, GLife, gvars
    <2>6. DataLife(s)'
      BY <1>4, <1>5, <1>11 DEF SourceOK, DataLife, gvars, TypeOK
    <2>7. WrapperLife(s)' /\ Unborn(s)'
      BY <1>3, <1>4, <1>5 DEF SourceOK, WrapperLife, Unborn, gvars, wvars
    <2> QED  BY <2>4, <2>5, <2>6, <2>7 DEF SourceOK
  <1>13. \A r \in Sources \ {s} : SameSource(r) /\ dataNode'[r] = dataNode[r]
    BY <1>4, <1>5 DEF SameSource, TypeOK, gvars, wvars, lvars, OnStack
  <1>14. NodesOK'
    <2>1. dataNode'[s] = NULL
      BY <1>4, <1>5 DEF TypeOK
    <2>2. OneOwner'
      BY <1>4, <1>13, <2>1 DEF NodesOK, OneOwner
    <2>3. ASSUME NEW r \in Sources PROVE NodeOf(r)'
      <3>1. CASE r # s
        <4>1. DataHeld(r)' <=> DataHeld(r)
          BY <1>5, <1>7, <3>1 DEF SameAccounts, DataHeld, gvars
        <4> QED  BY <1>4, <1>5, <1>13, <3>1, <4>1 DEF NodesOK, NodeOf, nvars
      <3> QED  BY <2>1, <3>1 DEF NodeOf
    <2>4. ASSUME NEW n \in Nodes PROVE BackRef(n)'
      <3>1. node[n] = "live" => dataNode[s] # n
        BY <1>4, <1>9, SourceAssumption DEF NodesOK, NodeOf
      <3>2. nodeSrc[n] # NULL => nodeSrc[n] \in Sources
        BY <1>4 DEF TypeOK
      <3> QED  BY <1>4, <1>5, <1>13, <3>1, <3>2 DEF NodesOK, BackRef, nvars
    <2> QED  BY <2>2, <2>3, <2>4 DEF NodesOK
  <1>20. q # <<"destroy">>
    BY <1>3, <1>6, GoesOn DEF Begins
  <1>21. conn'[t] = NoConn /\ \A u \in Threads \ {t} : conn'[u] = conn[u]
    BY <1>3, <1>5
  <1>22. /\ holders'[s] = holders[s] /\ dataNode'[s] \in {dataNode[s], NULL}
         /\ \A n \in Nodes : /\ node[n] # "unborn" => node'[n] # "unborn"
                             /\ node[n] = "live" /\ dataNode[s] # n => node'[n] = "live"
    BY <1>4, <1>5 DEF TypeOK, dvars, wvars, nvars
  <1> QED  BY <1>2, <1>3, <1>5, <1>6, <1>7, <1>8, <1>9, <1>10, <1>12, <1>13, <1>14, <1>20, <1>21,
              <1>22, WorkIInv
           DEF SameEnd, gvars, nvars, lvars


\* The node of the callback data is deleted; the wrapper, if there is one, is next.
LEMMA NotifyIInv ==
  ASSUME IInv, NEW t \in Threads, Notify(t)
  PROVE  IInv'
  <1>1. PICK s \in Sources : s = Src(t)
    BY AtWork DEF Notify
  <1>2. PICK p \in Plans : p = Plan(t)
    BY AtWork DEF Notify
  <1>3. /\ cont[t] # <<>> /\ Begins(p, "notify") /\ Tail(p) \in Seq(Op)
        /\ On(t, s) /\ kind[s] # "none" /\ conn[t] = NoConn
    BY <1>1, <1>2, AtWork DEF Notify
  <1>4. SourceOK(s) /\ TypeOK /\ PlansOK /\ LoopOK /\ Connecting /\ NodesOK
    BY DEF IInv
  <1>5. /\ node' = [n \in Nodes |-> IF n = dataNode[s] THEN "deleted" ELSE node[n]]
        /\ nodeSrc' = [n \in Nodes |-> IF n = dataNode[s] THEN NULL ELSE nodeSrc[n]]
        /\ Continue(t, IF owns[s] THEN <<"keep", "free">> ELSE <<"free">>)
        /\ UNCHANGED <<kind, gvars, dvars, wvars, connected, lvars, conn>>
    BY <1>1 DEF Notify, DeleteNode, AfterNode
  <1>6. PICK q \in Plans :
          /\ q = (IF owns[s] THEN <<"keep", "free">> ELSE <<"free">>) \o Tail(p)
          /\ q # <<>> /\ SameEnd(q, p) /\ q[1] = IF owns[s] THEN "keep" ELSE "free"
          /\ Frees(q) /\ ~Frees(p)
    BY <1>3, NotifyPlans DEF Becomes
  <1>7. /\ Planned(t, q, s) /\ Tally(t, q, s)
        /\ \A r \in Sources \ {s} : SameAccounts(r)
    <2>1. (IF owns[s] THEN <<"keep", "free">> ELSE <<"free">>) \in Seq(Op)
      BY OpsAre
    <2> QED  BY <1>1, <1>2, <1>3, <1>5, <1>6, <2>1, Worked
  <1>8. /\ ~Begins(p, "cbunref") /\ ~Begins(p, "keep")
        /\ ~Begins(q, "notify") /\ ~Begins(q, "cbunref") /\ ~Connects(q)
        /\ Begins(q, "keep") <=> owns[s]
    BY <1>3, <1>6 DEF Begins, Connects
  <1>9. /\ cbRef[s] = 0 /\ Notifies(s) = {t} /\ DataFrees(s) = {} /\ DataHeld(s) /\ ~OnStack(s)
    <2>1. t \in Notifies(s) /\ t \notin DataFrees(s)
      BY <1>2, <1>3, <1>6, <1>7 DEF Tally
    <2>2. cbRef[s] \in Nat
      BY <1>4 DEF TypeOK
    <2>3. cbRef[s] = 0 /\ Notifies(s) = {t} /\ DataFrees(s) = {}
      BY <1>4, <2>1, <2>2 DEF SourceOK, DataLife
    <2>4. cbRef[s] = B(callback[s]) + B(OnStack(s)) + Cardinality(CbUnrefs(s))
      BY <1>4 DEF SourceOK, Counted
    <2>5. ~OnStack(s)
      BY <1>7, <2>3, <2>4 DEF Tally, B
    <2> QED  BY <2>3, <2>5 DEF DataHeld
  <1>10. TypeOK'
    <2>1. node' \in [Nodes -> {"unborn", "live", "deleted"}]
      BY <1>4, <1>5 DEF TypeOK
    <2>2. nodeSrc' \in [Nodes -> Sources \cup {NULL}]
      BY <1>4, <1>5 DEF TypeOK
    <2> QED  BY <1>4, <1>5, <1>7, <2>1, <2>2
             DEF TypeOK, gvars, dvars, wvars, lvars, Planned, ContType, StepType
  <1>11. /\ Notifies(s)' = {} /\ DataFrees(s)' = {t} /\ ~DataHeld(s)'
         /\ \A u : u \in GFrees(s)' <=> u \in GFrees(s)
    <2>1. Notifies(s)' = {}
      BY <1>7, <1>8, <1>9 DEF Tally
    <2>2. \A u : u \in GFrees(s)' <=> u \in GFrees(s)
      BY <1>2, <1>6, <1>7 DEF Tally, SameEnd
    <2>3. DataFrees(s)' = {t}
      BY <1>6, <1>7, <1>9 DEF Tally
    <2> QED  BY <1>5, <1>9, <2>1, <2>2, <2>3 DEF DataHeld, gvars
  <1>12. SourceOK(s)'
    <2>1. GRefs(s)' = GRefs(s)
      <3>1. /\ Cardinality(GUnrefs(s)') = Cardinality(GUnrefs(s))
            /\ Cardinality(GUnrefs2(s)') = Cardinality(GUnrefs2(s))
        BY SMTT(30), <1>2, <1>6, <1>7 DEF Tally, SameEnd, B
      <3> QED  BY <1>5, <3>1 DEF GRefs, B, gvars, wvars, lvars, OnStack
    <2>2. Cardinality(CbUnrefs(s)') = Cardinality(CbUnrefs(s))
      BY <1>2, <1>7, <1>8 DEF Tally, B
    <2>3. IsFiniteSet(Working(s)')
      BY <1>7 DEF Tally
    <2>4. keep'[s] = B(holders'[s] # {}) + B(owns'[s] /\ DataHeld(s)') + Cardinality(Keeps(s)')
      <3>1. Cardinality(Keeps(s)') = Cardinality(Keeps(s)) + B(owns[s])
        BY <1>2, <1>7, <1>8 DEF Tally, B
      <3>2. keep[s] = B(holders[s] # {}) + B(owns[s] /\ DataHeld(s)) + Cardinality(Keeps(s))
        BY <1>4 DEF SourceOK, Counted
      <3>3. Cardinality(Keeps(s)) \in Nat /\ Cardinality(Keeps(s)') \in Nat
        BY <1>7 DEF Tally
      <3>4. keep'[s] = keep[s] /\ holders'[s] = holders[s]
        BY <1>5 DEF wvars
      <3>5. B(owns[s] /\ DataHeld(s)) = B(owns[s]) /\ B(owns'[s] /\ DataHeld(s)') = 0
        BY <1>9, <1>11 DEF B
      <3> QED  BY <3>1, <3>2, <3>3, <3>4, <3>5 DEF B
    <2>5. Counted(s)'
      BY <1>4, <1>5, <2>1, <2>2, <2>3, <2>4
         DEF SourceOK, Counted, gvars, wvars, lvars, OnStack, B
    <2>6. GLife(s)'
      BY <1>4, <1>5, <1>11 DEF SourceOK, GLife, gvars
    <2>7. DataLife(s)'
      <3>1. data[s] = "live"
        BY <1>4, <1>9 DEF SourceOK, DataLife
      <3> QED  BY <1>5, <1>9, <1>11, <3>1 DEF DataLife, gvars, dvars
    <2>8. WrapperLife(s)' /\ Unborn(s)'
      BY <1>3, <1>4, <1>5 DEF SourceOK, WrapperLife, Unborn, gvars, dvars, wvars
    <2> QED  BY <2>5, <2>6, <2>7, <2>8 DEF SourceOK
  <1>13. \A r \in Sources \ {s} : SameSource(r)
    BY <1>5 DEF SameSource, gvars, dvars, wvars, lvars, OnStack
  <1>14. NodesOK'
    <2>1. OneOwner'
      BY <1>4, <1>5 DEF NodesOK, OneOwner, dvars
    <2>2. ASSUME NEW r \in Sources PROVE NodeOf(r)'
      <3>1. dataNode'[r] # NULL => dataNode'[r] \in Nodes /\ dataNode'[r] = dataNode[r]
        BY <1>4, <1>5 DEF TypeOK, dvars
      <3>2. CASE r # s
        <4>1. DataHeld(r)' <=> DataHeld(r)
          BY <1>5, <1>7, <3>2 DEF SameAccounts, DataHeld, gvars
        <4>2. dataNode[r] # NULL => dataNode[r] # dataNode[s]
          BY <1>4, <3>2 DEF NodesOK, OneOwner
        <4>3. dataNode'[r] # NULL => node'[dataNode'[r]] = node[dataNode[r]]
          BY <1>5, <3>1, <4>2
        <4> QED  BY <1>4, <1>5, <3>1, <4>1, <4>3 DEF NodesOK, NodeOf, dvars
      <3>3. CASE r = s
        <4>1. dataNode'[r] # NULL => node'[dataNode'[r]] = "deleted"
          BY <1>5, <3>1, <3>3
        <4> QED  BY <1>4, <1>5, <1>11, <3>1, <3>3, <4>1 DEF NodesOK, NodeOf, dvars
      <3> QED  BY <3>2, <3>3
    <2>3. ASSUME NEW n \in Nodes PROVE BackRef(n)'
      <3>1. nodeSrc[n] # NULL => nodeSrc[n] \in Sources
        BY <1>4 DEF TypeOK
      <3>2. CASE n = dataNode[s]
        BY <1>5, <3>2 DEF BackRef
      <3>3. CASE n # dataNode[s]
        <4>1. node'[n] = node[n] /\ nodeSrc'[n] = nodeSrc[n]
          BY <1>5, <3>3
        <4> QED  BY <1>4, <1>5, <3>1, <4>1 DEF NodesOK, BackRef, dvars
      <3> QED  BY <3>2, <3>3
    <2> QED  BY <2>1, <2>2, <2>3 DEF NodesOK
  <1>20. q # <<"destroy">>
    BY <1>3, <1>6, GoesOn DEF Begins
  <1>21. conn'[t] = NoConn /\ \A u \in Threads \ {t} : conn'[u] = conn[u]
    BY <1>3, <1>5
  <1>22. /\ holders'[s] = holders[s] /\ dataNode'[s] \in {dataNode[s], NULL}
         /\ \A n \in Nodes : /\ node[n] # "unborn" => node'[n] # "unborn"
                             /\ node[n] = "live" /\ dataNode[s] # n => node'[n] = "live"
    BY <1>4, <1>5 DEF TypeOK, dvars, wvars, nvars
  <1> QED  BY <1>2, <1>3, <1>5, <1>6, <1>7, <1>8, <1>10, <1>12, <1>13, <1>14, <1>20, <1>21,
              <1>22, WorkIInv
           DEF SameEnd, gvars, dvars, lvars


\* g_source_destroy() takes the callback and the reference of the context off an
\* attached source, and the thread is going to drop both.
LEMMA DestroyStepIInv ==
  ASSUME IInv, NEW t \in Threads, DestroyStep(t)
  PROVE  IInv'
  <1>1. PICK s \in Sources : s = Src(t)
    BY AtWork DEF DestroyStep
  <1>2. PICK p \in Plans : p = Plan(t)
    BY AtWork DEF DestroyStep
  <1>3. /\ cont[t] # <<>> /\ Begins(p, "destroy") /\ Tail(p) \in Seq(Op)
        /\ On(t, s) /\ kind[s] # "none"
    BY <1>1, <1>2, AtWork DEF DestroyStep
  <1>4. SourceOK(s) /\ TypeOK /\ PlansOK /\ LoopOK /\ Connecting /\ NodesOK
    BY DEF IInv
  <1>5. /\ active' = [active EXCEPT ![s] = FALSE]
        /\ callback' = IF attached[s] /\ active[s] THEN [callback EXCEPT ![s] = FALSE] ELSE callback
        /\ Continue(t, IF attached[s] /\ active[s] THEN <<"cbunref", "gunref">> ELSE <<>>)
        /\ conn' = [conn EXCEPT ![t] = NoConn]
        /\ UNCHANGED <<kind, gsource, gref, attached, cbRef, dvars, wvars, nvars, lvars>>
    <2>1. CASE attached[s] /\ active[s]
      BY <1>1, <2>1 DEF DestroyStep
    <2>2. CASE ~(attached[s] /\ active[s])
      BY <1>1, <2>2 DEF DestroyStep
    <2> QED  BY <2>1, <2>2
  <1> DEFINE attachedTo == attached[s] /\ active[s]
  <1>6. PICK q \in Plans :
          /\ q = (IF attachedTo THEN <<"cbunref", "gunref">> ELSE <<>>) \o Tail(p)
          /\ Begins(q, "cbunref") <=> attachedTo
          /\ ~Begins(q, "notify") /\ ~Begins(q, "keep") /\ ~Connects(q)
          /\ ~Frees(q) /\ ~Ends(q, "gfree") /\ ~Destroys(q)
          /\ Ends(q, "gunref") <=> attachedTo \/ Ends(p, "gunref")
          /\ UnrefsTwice(q) <=> attachedTo /\ Ends(p, "gunref")
          /\ ~Frees(p) /\ ~Ends(p, "gfree") /\ ~UnrefsTwice(p)
    <2>1. /\ \A x : ~Begins(<<>>, x) /\ ~Connects(<<>>)
          /\ \A x \in Op : Begins(<<"gunref">>, x) <=> x = "gunref"
          /\ \A x \in Op : Begins(<<"cbunref", "gunref">>, x) <=> x = "cbunref"
          /\ \A x \in Op : Begins(<<"cbunref", "gunref", "gunref">>, x) <=> x = "cbunref"
          /\ ~Connects(<<"gunref">>) /\ ~Connects(<<"cbunref", "gunref">>)
          /\ ~Connects(<<"cbunref", "gunref", "gunref">>)
      BY DEF Begins, Connects
    <2>2. CASE p = <<"destroy">>
      <3>1. Tail(p) = <<>> /\ ~Ends(p, "gunref")
        BY <2>2, ShortTails, ShortPlans DEF AtEnd
      <3>2. CASE attachedTo
        BY <2>1, <2>2, <3>1, <3>2, ShortJoins, ShortPlans, OpsAre DEF AtEnd
      <3>3. CASE ~attachedTo
        <4>1. <<>> \o Tail(p) = <<>>
          BY <1>3, <3>1, JoinedEmpty
        <4> QED  BY <2>1, <2>2, <3>1, <3>3, <4>1, ShortPlans, OpsAre DEF AtEnd
      <3> QED  BY <3>2, <3>3
    <2>3. CASE p = <<"destroy", "gunref">>
      <3>1. Tail(p) = <<"gunref">> /\ Ends(p, "gunref")
        BY <2>3, ShortTails, ShortPlans DEF AtEnd
      <3>2. CASE attachedTo
        BY <2>1, <2>3, <3>1, <3>2, ShortJoins, ShortPlans, OpsAre DEF AtEnd
      <3>3. CASE ~attachedTo
        <4>1. <<>> \o Tail(p) = <<"gunref">>
          BY <1>3, <3>1, JoinedEmpty
        <4> QED  BY <2>1, <2>3, <3>1, <3>3, <4>1, ShortPlans, OpsAre DEF AtEnd
      <3> QED  BY <3>2, <3>3
    <2> QED  BY <1>3, <2>2, <2>3, OtherPlans
  <1>7. /\ Planned(t, q, s) /\ Tally(t, q, s)
        /\ \A r \in Sources \ {s} : SameAccounts(r)
    <2>1. (IF attachedTo THEN <<"cbunref", "gunref">> ELSE <<>>) \in Seq(Op)
      BY OpsAre
    <2> QED  BY <1>1, <1>2, <1>3, <1>5, <1>6, <2>1, Worked
  <1>8. ~Begins(p, "notify") /\ ~Begins(p, "cbunref") /\ ~Begins(p, "keep")
    BY <1>3 DEF Begins
  <1>9. /\ attachedTo \in BOOLEAN /\ active[s] \in BOOLEAN /\ callback[s] \in BOOLEAN
        /\ ~active'[s] /\ callback'[s] = (callback[s] /\ ~attachedTo)
        /\ \A r \in Sources \ {s} : active'[r] = active[r] /\ callback'[r] = callback[r]
    BY <1>4, <1>5 DEF TypeOK
  <1>10. TypeOK'
    <2>1. /\ active' \in [Sources -> BOOLEAN] /\ callback' \in [Sources -> BOOLEAN]
          /\ conn' \in [Threads -> Conn \cup {NoConn}]
      BY <1>4, <1>5 DEF TypeOK
    <2> QED  BY <1>4, <1>5, <1>7, <2>1
             DEF TypeOK, dvars, wvars, nvars, lvars, Planned, ContType, StepType
  <1>11. /\ \A u : u \in Notifies(s)' <=> u \in Notifies(s)
         /\ \A u : u \in GFrees(s)' <=> u \in GFrees(s)
         /\ \A u : u \in DataFrees(s)' <=> u \in DataFrees(s)
         /\ DataHeld(s)' <=> DataHeld(s)
    <2>1. \A u : u \in Notifies(s)' <=> u \in Notifies(s)
      BY <1>2, <1>6, <1>7, <1>8 DEF Tally
    <2>2. \A u : u \in GFrees(s)' <=> u \in GFrees(s)
      BY <1>2, <1>6, <1>7 DEF Tally
    <2>3. \A u : u \in DataFrees(s)' <=> u \in DataFrees(s)
      BY <1>2, <1>6, <1>7 DEF Tally
    <2> QED  BY <1>5, <2>1, <2>2, <2>3 DEF DataHeld
  <1>12. attachedTo => callback[s] /\ gref[s] > 0
    <2>1. gref[s] = GRefs(s) /\ gref[s] \in Nat
      BY <1>4 DEF SourceOK, Counted, TypeOK
    <2>2. attachedTo => gref[s] > 0
      BY <1>7, <2>1 DEF GRefs, B, Tally
    <2> QED  BY <1>4, <2>2 DEF SourceOK, GLife
  <1>13. SourceOK(s)'
    <2>1. GRefs(s)' = GRefs(s)
      <3>1. /\ Cardinality(GUnrefs(s)') + B(Ends(p, "gunref"))
                 = Cardinality(GUnrefs(s)) + B(attachedTo \/ Ends(p, "gunref"))
            /\ Cardinality(GUnrefs2(s)') = Cardinality(GUnrefs2(s)) + B(attachedTo /\ Ends(p, "gunref"))
        BY <1>2, <1>6, <1>7 DEF Tally, B
      <3>2. B(attachedTo \/ Ends(p, "gunref")) + B(attachedTo /\ Ends(p, "gunref"))
              = B(attachedTo) + B(Ends(p, "gunref"))
        BY DEF B
      <3>3. /\ Cardinality(GUnrefs(s)) \in Nat /\ Cardinality(GUnrefs(s)') \in Nat
            /\ Cardinality(GUnrefs2(s)) \in Nat /\ Cardinality(GUnrefs2(s)') \in Nat
        BY <1>7 DEF Tally
      <3>4. Cardinality(GUnrefs(s)') + Cardinality(GUnrefs2(s)')
              = Cardinality(GUnrefs(s)) + Cardinality(GUnrefs2(s)) + B(attachedTo)
        <4> HIDE DEF attachedTo
        <4> QED  BY <3>1, <3>2, <3>3 DEF B
      <3>5. GRefs(s) = B(attachedTo) + B(holders[s] # {}) + B(OnStack(s)) + B(probe.src = s)
                       + Cardinality(GUnrefs(s)) + Cardinality(GUnrefs2(s))
        BY DEF GRefs
      <3>6. GRefs(s)' = B(holders[s] # {}) + B(OnStack(s)) + B(probe.src = s)
                        + Cardinality(GUnrefs(s)') + Cardinality(GUnrefs2(s)')
        <4>1. B(attached[s] /\ active[s])' = 0
          BY <1>9 DEF B
        <4>2. /\ B(holders[s] # {})' = B(holders[s] # {}) /\ B(OnStack(s))' = B(OnStack(s))
              /\ B(probe.src = s)' = B(probe.src = s)
          BY <1>5 DEF wvars, lvars, OnStack, B
        <4>3. /\ B(holders[s] # {}) \in Nat /\ B(OnStack(s)) \in Nat /\ B(probe.src = s) \in Nat
          BY DEF B
        <4> QED  BY <3>3, <4>1, <4>2, <4>3 DEF GRefs
      <3>7. /\ B(holders[s] # {}) \in Nat /\ B(OnStack(s)) \in Nat /\ B(probe.src = s) \in Nat
            /\ B(attachedTo) \in Nat
        BY DEF B
      <3> HIDE DEF attachedTo
      <3> QED  BY <3>3, <3>4, <3>5, <3>6, <3>7
    <2>2. cbRef'[s] = B(callback'[s]) + B(OnStack(s)) + Cardinality(CbUnrefs(s)')
      <3>1. Cardinality(CbUnrefs(s)') = Cardinality(CbUnrefs(s)) + B(attachedTo)
        BY <1>2, <1>6, <1>7, <1>8 DEF Tally, B
      <3>2. cbRef[s] = B(callback[s]) + B(OnStack(s)) + Cardinality(CbUnrefs(s))
        BY <1>4 DEF SourceOK, Counted
      <3>3. Cardinality(CbUnrefs(s)) \in Nat /\ Cardinality(CbUnrefs(s)') \in Nat
        BY <1>7 DEF Tally
      <3>4. B(callback[s]) = B(callback'[s]) + B(attachedTo)
        <4>1. CASE attachedTo
          <5>1. callback[s] /\ ~callback'[s]
            BY <1>9, <1>12, <4>1
          <5> QED  BY <4>1, <5>1 DEF B
        <4>2. CASE ~attachedTo
          <5>1. callback'[s] <=> callback[s]
            BY <1>9, <4>2
          <5> QED  BY <4>2, <5>1 DEF B
        <4> QED  BY <4>1, <4>2
      <3>5. cbRef'[s] = cbRef[s]
        BY <1>5
      <3> HIDE DEF attachedTo
      <3> QED  BY <3>1, <3>2, <3>3, <3>4, <3>5 DEF B
    <2>3. Cardinality(Keeps(s)') = Cardinality(Keeps(s))
      BY <1>2, <1>6, <1>7, <1>8 DEF Tally, B
    <2>4. Counted(s)'
      <3>1. IsFiniteSet(Working(s)')
        BY <1>7 DEF Tally
      <3> QED  BY <1>4, <1>5, <1>11, <2>1, <2>2, <2>3, <3>1
               DEF SourceOK, Counted, dvars, wvars, lvars, OnStack, B
    <2>5. GLife(s)'
      BY <1>4, <1>5, <1>9, <1>11 DEF SourceOK, GLife
    <2>6. DataLife(s)'
      BY <1>4, <1>5, <1>11 DEF SourceOK, DataLife, dvars
    <2>7. WrapperLife(s)' /\ Unborn(s)'
      BY <1>3, <1>4, <1>5 DEF SourceOK, WrapperLife, Unborn, dvars, wvars
    <2> QED  BY <2>4, <2>5, <2>6, <2>7 DEF SourceOK
  <1>14. \A r \in Sources \ {s} : SameSource(r)
    BY <1>5, <1>9 DEF SameSource, dvars, wvars, lvars, OnStack
  <1>15. NodesOK'
    <2>1. ASSUME NEW r \in Sources PROVE DataHeld(r)' <=> DataHeld(r)
      <3>1. CASE r # s
        BY <1>5, <1>7, <3>1 DEF SameAccounts, DataHeld
      <3> QED  BY <1>11, <3>1
    <2>2. \A u \in Threads : conn[u].step = "set_node" => conn'[u] = conn[u]
      <3>1. conn[t] # NoConn => conn[t].step = "destroy"
        BY <1>3 DEF IInv, ConnsOK, ConnOK
      <3>2. conn[t].step # "set_node"
        BY <3>1 DEF NoConn
      <3> QED  BY <1>4, <1>5, <3>2 DEF TypeOK
    <2> QED  BY <1>4, <1>5, <2>1, <2>2, NodesKept DEF dvars, nvars
  <1>20. q # <<"destroy">>
    BY <1>6, GoesOn
  <1>21. conn'[t] = NoConn /\ \A u \in Threads \ {t} : conn'[u] = conn[u]
    BY <1>4, <1>5 DEF TypeOK
  <1>22. /\ holders'[s] = holders[s] /\ dataNode'[s] \in {dataNode[s], NULL}
         /\ \A n \in Nodes : /\ node[n] # "unborn" => node'[n] # "unborn"
                             /\ node[n] = "live" /\ dataNode[s] # n => node'[n] = "live"
    BY <1>4, <1>5 DEF TypeOK, dvars, wvars, nvars
  <1> QED  BY <1>2, <1>3, <1>5, <1>6, <1>7, <1>10, <1>13, <1>14, <1>15, <1>20, <1>21,
              <1>22, WorkIInv
           DEF dvars, nvars, lvars


\* g_source_unref(): the thread that drops the last reference is the only one that has
\* to do with the GSource.
LEMMA GUnrefIInv ==
  ASSUME IInv, NEW t \in Threads, GUnref(t)
  PROVE  IInv'
  <1>1. PICK s \in Sources : s = Src(t)
    BY AtWork DEF GUnref
  <1>2. PICK p \in Plans : p = Plan(t)
    BY AtWork DEF GUnref
  <1>3. /\ cont[t] # <<>> /\ Begins(p, "gunref") /\ Tail(p) \in Seq(Op)
        /\ On(t, s) /\ kind[s] # "none" /\ conn[t] = NoConn
    BY <1>1, <1>2, AtWork DEF GUnref
  <1>4. SourceOK(s) /\ TypeOK /\ PlansOK /\ LoopOK /\ Connecting /\ NodesOK
    BY DEF IInv
  <1> DEFINE last == gref[s] = 1
             ops == IF gref[s] # 1 THEN <<>>
                    ELSE IF callback[s] THEN <<"cbunref", "gfree">> ELSE <<"gfree">>
  <1>5. /\ gref' = [gref EXCEPT ![s] = @ - 1]
        /\ callback' = [callback EXCEPT ![s] = @ /\ gref[s] # 1]
        /\ Continue(t, ops)
        /\ UNCHANGED <<kind, gsource, active, attached, cbRef, dvars, wvars, nvars, lvars, conn>>
    BY <1>1 DEF GUnref
  <1>6. /\ Cardinality(GUnrefs(s)) \in Nat /\ Cardinality(GUnrefs2(s)) \in Nat
        /\ t \in GUnrefs(s) /\ Cardinality(GUnrefs(s)) >= 1
        /\ UnrefsTwice(p) => Cardinality(GUnrefs2(s)) >= 1
        /\ p = <<"gunref">> \/ p = <<"gunref", "gunref">>
    <2>1. p = <<"gunref">> \/ p = <<"gunref", "gunref">>
      BY <1>3, OtherPlans
    <2>2. Ends(p, "gunref")
      BY <2>1, ShortPlans DEF AtEnd
    <2>3. t \in GUnrefs(s) /\ (UnrefsTwice(p) => t \in GUnrefs2(s))
      BY <1>2, <1>3, <2>2 DEF GUnrefs, GUnrefs2
    <2>4. IsFiniteSet(GUnrefs(s)) /\ IsFiniteSet(GUnrefs2(s))
      <3>1. GUnrefs(s) \subseteq Working(s) /\ GUnrefs2(s) \subseteq Working(s)
        BY DEF GUnrefs, GUnrefs2, Working
      <3>2. IsFiniteSet(Working(s))
        BY <1>4 DEF SourceOK, Counted
      <3> QED  BY <3>1, <3>2, FS_Subset
    <2> QED  BY <2>1, <2>3, <2>4, SmallSets
  <1>7. /\ gref[s] \in Nat
        /\ gref[s] = B(attached[s] /\ active[s]) + B(holders[s] # {}) + B(OnStack(s))
                     + B(probe.src = s) + Cardinality(GUnrefs(s)) + Cardinality(GUnrefs2(s))
    BY <1>4 DEF TypeOK, SourceOK, Counted, GRefs
  <1>8. gref[s] >= 1 /\ (last => ~UnrefsTwice(p)) /\ (probe.src = s => ~last)
    BY <1>6, <1>7 DEF B
  <1>9. PICK q \in Plans :
          /\ q = ops \o Tail(p)
          /\ Begins(q, "cbunref") <=> last /\ callback[s]
          /\ ~Begins(q, "notify") /\ ~Begins(q, "keep") /\ ~Connects(q)
          /\ ~Frees(q) /\ ~Destroys(q)
          /\ Ends(q, "gfree") <=> last
          /\ Ends(q, "gunref") <=> UnrefsTwice(p)
          /\ ~UnrefsTwice(q) /\ ~Frees(p) /\ ~Ends(p, "gfree") /\ Ends(p, "gunref")
    <2>1. /\ \A x : ~Begins(<<>>, x) /\ ~Connects(<<>>)
          /\ \A x \in Op : Begins(<<"gunref">>, x) <=> x = "gunref"
          /\ \A x \in Op : Begins(<<"gfree">>, x) <=> x = "gfree"
          /\ \A x \in Op : Begins(<<"cbunref", "gfree">>, x) <=> x = "cbunref"
          /\ ~Connects(<<"gunref">>) /\ ~Connects(<<"cbunref", "gfree">>) /\ ~Connects(<<"gfree">>)
      BY DEF Begins, Connects
    <2>2. CASE p = <<"gunref">>
      <3>1. Tail(p) = <<>> /\ Ends(p, "gunref") /\ ~UnrefsTwice(p) /\ ~Ends(p, "gfree") /\ ~Frees(p)
        BY <2>2, ShortTails, ShortPlans DEF AtEnd
      <3>2. CASE last /\ callback[s]
        BY <2>1, <3>1, <3>2, ShortJoins, ShortPlans, OpsAre DEF AtEnd
      <3>3. CASE last /\ ~callback[s]
        BY <2>1, <3>1, <3>3, ShortJoins, ShortPlans, OpsAre DEF AtEnd
      <3>4. CASE ~last
        <4>1. <<>> \o Tail(p) = <<>>
          BY <1>3, <3>1, JoinedEmpty
        <4> QED  BY <2>1, <3>1, <3>4, <4>1, ShortPlans, OpsAre DEF AtEnd
      <3> QED  BY <3>2, <3>3, <3>4
    <2>3. CASE p = <<"gunref", "gunref">>
      <3>1. /\ Tail(p) = <<"gunref">> /\ Ends(p, "gunref") /\ UnrefsTwice(p)
            /\ ~Ends(p, "gfree") /\ ~Frees(p)
        BY <2>3, ShortTails, ShortPlans DEF AtEnd
      <3>2. ~last
        BY <1>8, <3>1
      <3>3. <<>> \o Tail(p) = <<"gunref">>
        BY <1>3, <3>1, JoinedEmpty
      <3> QED  BY <2>1, <3>1, <3>2, <3>3, ShortPlans, OpsAre DEF AtEnd
    <2> QED  BY <1>6, <2>2, <2>3
  <1>10. /\ Planned(t, q, s) /\ Tally(t, q, s)
         /\ \A r \in Sources \ {s} : SameAccounts(r)
    <2>1. ops \in Seq(Op)
      BY OpsAre
    <2> QED  BY <1>1, <1>2, <1>3, <1>5, <1>9, <2>1, Worked
  <1> HIDE DEF ops
  <1>11. ~Begins(p, "notify") /\ ~Begins(p, "cbunref") /\ ~Begins(p, "keep")
    BY <1>3 DEF Begins
  <1>12. /\ gref'[s] = gref[s] - 1 /\ callback[s] \in BOOLEAN
         /\ callback'[s] = (callback[s] /\ ~last)
         /\ \A r \in Sources \ {s} : gref'[r] = gref[r] /\ callback'[r] = callback[r]
    BY <1>4, <1>5 DEF TypeOK
  <1>13. TypeOK'
    <2>1. gref' \in [Sources -> Nat]
      BY <1>4, <1>5, <1>8 DEF TypeOK
    <2>2. callback' \in [Sources -> BOOLEAN]
      BY <1>4, <1>5 DEF TypeOK
    <2> QED  BY <1>4, <1>5, <1>10, <2>1, <2>2
             DEF TypeOK, dvars, wvars, nvars, lvars, Planned, ContType, StepType
  <1>14. /\ \A u : u \in Notifies(s)' <=> u \in Notifies(s)
         /\ \A u : u \in GFrees(s)' <=> u = t /\ last
         /\ \A u : u \in DataFrees(s)' <=> u \in DataFrees(s)
         /\ DataHeld(s)' <=> DataHeld(s)
    <2>1. \A u : u \in Notifies(s)' <=> u \in Notifies(s)
      BY <1>2, <1>9, <1>10, <1>11 DEF Tally
    <2>2. GFrees(s) = {}
      BY <1>4, <1>7, <1>8 DEF SourceOK, GLife
    <2>3. \A u : u \in GFrees(s)' <=> u = t /\ last
      BY <1>9, <1>10, <2>2 DEF Tally
    <2>4. \A u : u \in DataFrees(s)' <=> u \in DataFrees(s)
      BY <1>2, <1>9, <1>10 DEF Tally
    <2> QED  BY <1>5, <2>1, <2>3, <2>4 DEF DataHeld
  <1>15. SourceOK(s)'
    <2>1. GRefs(s)' = GRefs(s) - 1
      <3>1. /\ Cardinality(GUnrefs(s)') + 1 = Cardinality(GUnrefs(s)) + B(UnrefsTwice(p))
            /\ Cardinality(GUnrefs2(s)') + B(UnrefsTwice(p)) = Cardinality(GUnrefs2(s))
        BY <1>2, <1>9, <1>10 DEF Tally, B
      <3>2. /\ Cardinality(GUnrefs(s)) \in Nat /\ Cardinality(GUnrefs(s)') \in Nat
            /\ Cardinality(GUnrefs2(s)) \in Nat /\ Cardinality(GUnrefs2(s)') \in Nat
        BY <1>10 DEF Tally
      <3>3. Cardinality(GUnrefs(s)') + Cardinality(GUnrefs2(s)')
              = Cardinality(GUnrefs(s)) + Cardinality(GUnrefs2(s)) - 1
        BY <3>1, <3>2 DEF B
      <3>4. /\ B(attached[s] /\ active[s])' = B(attached[s] /\ active[s])
            /\ B(holders[s] # {})' = B(holders[s] # {}) /\ B(OnStack(s))' = B(OnStack(s))
            /\ B(probe.src = s)' = B(probe.src = s)
        BY <1>5 DEF wvars, lvars, OnStack, B
      <3>5. /\ B(holders[s] # {}) \in Nat /\ B(OnStack(s)) \in Nat /\ B(probe.src = s) \in Nat
            /\ B(attached[s] /\ active[s]) \in Nat
        BY DEF B
      <3> QED  BY <3>2, <3>3, <3>4, <3>5 DEF GRefs
    <2>2. cbRef'[s] = B(callback'[s]) + B(OnStack(s)) + Cardinality(CbUnrefs(s)')
      <3>1. Cardinality(CbUnrefs(s)') = Cardinality(CbUnrefs(s)) + B(last /\ callback[s])
        BY <1>2, <1>9, <1>10, <1>11 DEF Tally, B
      <3>2. cbRef[s] = B(callback[s]) + B(OnStack(s)) + Cardinality(CbUnrefs(s))
        BY <1>4 DEF SourceOK, Counted
      <3>3. Cardinality(CbUnrefs(s)) \in Nat /\ Cardinality(CbUnrefs(s)') \in Nat
        BY <1>10 DEF Tally
      <3>4. B(callback[s]) = B(callback'[s]) + B(last /\ callback[s])
        <4>1. CASE last /\ callback[s]
          <5>1. ~callback'[s]
            BY <1>12, <4>1
          <5> QED  BY <4>1, <5>1 DEF B
        <4>2. CASE ~(last /\ callback[s])
          <5>1. callback'[s] <=> callback[s]
            BY <1>12, <4>2
          <5> QED  BY <4>2, <5>1 DEF B
        <4> QED  BY <4>1, <4>2
      <3>5. cbRef'[s] = cbRef[s]
        BY <1>5
      <3> HIDE DEF last
      <3> QED  BY <3>1, <3>2, <3>3, <3>4, <3>5 DEF B
    <2>3. Cardinality(Keeps(s)') = Cardinality(Keeps(s))
      BY <1>2, <1>9, <1>10, <1>11 DEF Tally, B
    <2>4. Counted(s)'
      <3>1. IsFiniteSet(Working(s)')
        BY <1>10 DEF Tally
      <3>2. gref'[s] = GRefs(s)'
        BY <1>4, <1>12, <2>1 DEF SourceOK, Counted
      <3>3. B(OnStack(s))' = B(OnStack(s))
        BY <1>5 DEF lvars, OnStack, B
      <3> QED  BY <1>4, <1>5, <1>14, <2>2, <2>3, <3>1, <3>2, <3>3
               DEF SourceOK, Counted, dvars, wvars, B
    <2>5. GLife(s)'
      <3>1. last <=> ~(gref'[s] > 0)
        BY <1>7, <1>8, <1>12
      <3>2. gsource[s] = "live"
        BY <1>4, <1>7, <1>8 DEF SourceOK, GLife
      <3>3. /\ gsource'[s] = "unborn" <=> kind'[s] = "none"
            /\ gsource'[s] = "live"
        BY <1>4, <1>5, <3>2 DEF SourceOK, GLife
      <3>4. gref[s] > 0 /\ (active[s] => callback[s])
        BY <1>4, <1>7, <1>8 DEF SourceOK, GLife
      <3>5. /\ callback'[s] => gref'[s] > 0
            /\ active'[s] /\ gref'[s] > 0 => callback'[s]
        BY <1>5, <1>12, <3>1, <3>4
      <3>6. /\ GFrees(s)' = IF last THEN {t} ELSE {}
        BY <1>14
      <3>7. gsource'[s] = "live" <=> gref'[s] > 0 \/ GFrees(s)' # {}
        BY <3>1, <3>3, <3>6
      <3>8. gref'[s] > 0 => GFrees(s)' = {}
        BY <3>1, <3>6
      <3>9. \A u, v \in GFrees(s)' : u = v
        BY <3>6
      <3> QED  BY <3>3, <3>5, <3>7, <3>8, <3>9 DEF GLife
    <2>6. DataLife(s)'
      BY <1>4, <1>5, <1>14 DEF SourceOK, DataLife, dvars
    <2>7. WrapperLife(s)' /\ Unborn(s)'
      BY <1>3, <1>4, <1>5 DEF SourceOK, WrapperLife, Unborn, dvars, wvars
    <2> QED  BY <2>4, <2>5, <2>6, <2>7 DEF SourceOK
  <1>16. \A r \in Sources \ {s} : SameSource(r)
    BY <1>5, <1>12 DEF SameSource, dvars, wvars, lvars, OnStack
  <1>17. NodesOK'
    <2>1. ASSUME NEW r \in Sources PROVE DataHeld(r)' <=> DataHeld(r)
      <3>1. CASE r # s
        BY <1>5, <1>10, <3>1 DEF SameAccounts, DataHeld
      <3> QED  BY <1>14, <3>1
    <2> QED  BY <1>4, <1>5, <2>1, NodesKept DEF dvars, nvars
  <1>20. q # <<"destroy">>
    BY <1>9, GoesOn
  <1>21. conn'[t] = NoConn /\ \A u \in Threads \ {t} : conn'[u] = conn[u]
    BY <1>3, <1>5
  <1>22. /\ holders'[s] = holders[s] /\ dataNode'[s] \in {dataNode[s], NULL}
         /\ \A n \in Nodes : /\ node[n] # "unborn" => node'[n] # "unborn"
                             /\ node[n] = "live" /\ dataNode[s] # n => node'[n] = "live"
    BY <1>4, <1>5 DEF TypeOK, dvars, wvars, nvars
  <1> QED  BY <1>2, <1>3, <1>5, <1>9, <1>10, <1>13, <1>15, <1>16, <1>17, <1>20, <1>21,
              <1>22, WorkIInv
           DEF dvars, nvars, lvars


\* The one thread that dropped the last reference frees the GSource.
LEMMA GFreeIInv ==
  ASSUME IInv, NEW t \in Threads, GFree(t)
  PROVE  IInv'
  <1>1. PICK s \in Sources : s = Src(t)
    BY AtWork DEF GFree
  <1>2. PICK p \in Plans : p = Plan(t)
    BY AtWork DEF GFree
  <1>3. /\ cont[t] # <<>> /\ Begins(p, "gfree") /\ Tail(p) \in Seq(Op)
        /\ On(t, s) /\ kind[s] # "none" /\ conn[t] = NoConn
    BY <1>1, <1>2, AtWork DEF GFree
  <1>4. SourceOK(s) /\ TypeOK /\ PlansOK /\ LoopOK /\ Connecting /\ NodesOK
    BY DEF IInv
  <1>5. /\ gsource' = [gsource EXCEPT ![s] = "freed"]
        /\ Continue(t, <<>>)
        /\ UNCHANGED <<kind, gref, active, attached, callback, cbRef, dvars, wvars, nvars, lvars, conn>>
    BY <1>1 DEF GFree
  <1>6. PICK q \in Plans :
          /\ q = <<>> \o Tail(p)
          /\ \A x : ~Begins(q, x) /\ ~Ends(q, x)
          /\ ~Connects(q) /\ ~Frees(q) /\ ~Destroys(q) /\ ~UnrefsTwice(q)
          /\ Ends(p, "gfree") /\ ~Ends(p, "gunref") /\ ~Frees(p) /\ ~UnrefsTwice(p)
    <2>1. p = <<"gfree">>
      BY <1>3, OtherPlans
    <2>2. <<>> \o Tail(p) = <<>>
      BY <1>3, <2>1, ShortTails, JoinedEmpty
    <2>3. /\ \A x : ~Begins(<<>>, x) /\ ~Ends(<<>>, x)
          /\ ~Connects(<<>>)
      BY DEF Begins, Ends, Connects
    <2> QED  BY <2>1, <2>2, <2>3, ShortPlans DEF AtEnd
  <1>7. /\ Planned(t, q, s) /\ Tally(t, q, s)
        /\ \A r \in Sources \ {s} : SameAccounts(r)
    <2>1. <<>> \in Seq(Op)
      OBVIOUS
    <2> QED  BY <1>1, <1>2, <1>3, <1>5, <1>6, <2>1, Worked
  <1>8. ~Begins(p, "notify") /\ ~Begins(p, "cbunref") /\ ~Begins(p, "keep")
    BY <1>3 DEF Begins
  <1>9. GFrees(s) = {t} /\ ~(gref[s] > 0)
    <2>1. t \in GFrees(s)
      BY <1>2, <1>6, <1>7 DEF Tally
    <2> QED  BY <1>4, <2>1 DEF SourceOK, GLife
  <1>10. TypeOK'
    <2>1. gsource' \in [Sources -> {"unborn", "live", "freed"}]
      BY <1>4, <1>5 DEF TypeOK
    <2> QED  BY <1>4, <1>5, <1>7, <2>1
             DEF TypeOK, dvars, wvars, nvars, lvars, Planned, ContType, StepType
  <1>11. /\ \A u : u \in Notifies(s)' <=> u \in Notifies(s)
         /\ \A u : u \in DataFrees(s)' <=> u \in DataFrees(s)
         /\ DataHeld(s)' <=> DataHeld(s)
         /\ GFrees(s)' = {}
    <2>1. \A u : u \in Notifies(s)' <=> u \in Notifies(s)
      BY <1>2, <1>6, <1>7, <1>8 DEF Tally
    <2>2. \A u : u \in DataFrees(s)' <=> u \in DataFrees(s)
      BY <1>2, <1>6, <1>7 DEF Tally
    <2>3. GFrees(s)' = {}
      BY <1>6, <1>7, <1>9 DEF Tally
    <2> QED  BY <1>5, <2>1, <2>2, <2>3 DEF DataHeld
  <1>12. SourceOK(s)'
    <2>1. GRefs(s)' = GRefs(s)
      <3>1. /\ Cardinality(GUnrefs(s)') = Cardinality(GUnrefs(s))
            /\ Cardinality(GUnrefs2(s)') = Cardinality(GUnrefs2(s))
        BY <1>2, <1>6, <1>7 DEF Tally, B
      <3> QED  BY <1>5, <3>1 DEF GRefs, B, wvars, lvars, OnStack
    <2>2. /\ Cardinality(CbUnrefs(s)') = Cardinality(CbUnrefs(s))
          /\ Cardinality(Keeps(s)') = Cardinality(Keeps(s))
      BY <1>2, <1>6, <1>7, <1>8 DEF Tally, B
    <2>3. IsFiniteSet(Working(s)')
      BY <1>7 DEF Tally
    <2>4. Counted(s)'
      BY <1>4, <1>5, <1>11, <2>1, <2>2, <2>3
         DEF SourceOK, Counted, dvars, wvars, lvars, OnStack, B
    <2>5. GLife(s)'
      BY <1>3, <1>4, <1>5, <1>9, <1>11 DEF SourceOK, GLife, TypeOK
    <2>6. DataLife(s)'
      BY <1>4, <1>5, <1>11 DEF SourceOK, DataLife, dvars
    <2>7. WrapperLife(s)' /\ Unborn(s)'
      BY <1>3, <1>4, <1>5 DEF SourceOK, WrapperLife, Unborn, dvars, wvars
    <2> QED  BY <2>4, <2>5, <2>6, <2>7 DEF SourceOK
  <1>13. \A r \in Sources \ {s} : SameSource(r)
    BY <1>4, <1>5 DEF SameSource, TypeOK, dvars, wvars, lvars, OnStack
  <1>14. NodesOK'
    <2>1. ASSUME NEW r \in Sources PROVE DataHeld(r)' <=> DataHeld(r)
      <3>1. CASE r # s
        BY <1>5, <1>7, <3>1 DEF SameAccounts, DataHeld
      <3> QED  BY <1>11, <3>1
    <2> QED  BY <1>4, <1>5, <2>1, NodesKept DEF dvars, nvars
  <1>20. q # <<"destroy">>
    BY <1>6, GoesOn
  <1>21. conn'[t] = NoConn /\ \A u \in Threads \ {t} : conn'[u] = conn[u]
    BY <1>3, <1>5
  <1>22. /\ holders'[s] = holders[s] /\ dataNode'[s] \in {dataNode[s], NULL}
         /\ \A n \in Nodes : /\ node[n] # "unborn" => node'[n] # "unborn"
                             /\ node[n] = "live" /\ dataNode[s] # n => node'[n] = "live"
    BY <1>4, <1>5 DEF TypeOK, dvars, wvars, nvars
  <1> QED  BY <1>2, <1>3, <1>5, <1>6, <1>7, <1>10, <1>12, <1>13, <1>14, <1>20, <1>21,
              <1>22, WorkIInv
           DEF dvars, nvars, lvars


\* install(): the node of a source that is being connected points to it.
LEMMA InstallIInv ==
  ASSUME IInv, NEW t \in Threads, Install(t)
  PROVE  IInv'
  <1>1. PICK s \in Sources : s = Src(t)
    BY AtWork DEF Install
  <1>2. PICK p \in Plans : p = Plan(t)
    BY AtWork DEF Install
  <1>3. /\ cont[t] # <<>> /\ Begins(p, "install") /\ Tail(p) \in Seq(Op)
        /\ On(t, s) /\ kind[s] # "none" /\ conn[t] = NoConn
    BY <1>1, <1>2, AtWork DEF Install
  <1>4. SourceOK(s) /\ TypeOK /\ PlansOK /\ LoopOK /\ Connecting /\ NodesOK
    BY DEF IInv
  <1>5. /\ nodeSrc' = [nodeSrc EXCEPT ![dataNode[s]] = s]
        /\ Continue(t, <<>>)
        /\ UNCHANGED <<kind, gvars, dvars, wvars, node, connected, lvars, conn>>
    BY <1>1 DEF Install
  <1>6. PICK q \in Plans :
          /\ q = <<>> \o Tail(p) /\ SameEnd(q, p) /\ ~Frees(q) /\ ~Frees(p)
          /\ Connects(p)
          /\ \A x \in {"notify", "cbunref", "keep"} : ~Begins(p, x) /\ ~Begins(q, x)
    <2>1. p = <<"install", "attach", "gunref">>
      BY <1>3, OtherPlans
    <2>2. <<>> \o Tail(p) = <<"attach", "gunref">>
      BY <1>3, <2>1, ShortTails, JoinedEmpty
    <2>3. \A x \in {"notify", "cbunref", "keep"} :
            ~Begins(p, x) /\ ~Begins(<<"attach", "gunref">>, x)
      BY <2>1 DEF Begins
    <2>4. SameEnd(<<"attach", "gunref">>, p) /\ ~Frees(<<"attach", "gunref">>) /\ ~Frees(p)
      BY <2>1, ShortPlans DEF AtEnd, SameEnd
    <2>5. Connects(p)
      BY <2>1 DEF Connects
    <2> QED  BY <2>2, <2>3, <2>4, <2>5, ShortPlans DEF AtEnd
  <1>7. /\ Planned(t, q, s) /\ Tally(t, q, s)
        /\ \A r \in Sources \ {s} : SameAccounts(r)
    <2>1. <<>> \in Seq(Op)
      OBVIOUS
    <2> QED  BY <1>1, <1>2, <1>3, <1>5, <1>6, <2>1, Worked
  <1>8. Untouched(t, s) /\ dataNode[s] \in Nodes
    <2>1. Untouched(t, s)
      BY <1>2, <1>3, <1>4, <1>6 DEF Connecting
    <2> QED  BY <1>4, <2>1 DEF Untouched, TypeOK
  <1>9. TypeOK'
    <2>1. nodeSrc' \in [Nodes -> Sources \cup {NULL}]
      BY <1>4, <1>5, <1>8 DEF TypeOK
    <2> QED  BY <1>4, <1>5, <1>7, <2>1
             DEF TypeOK, gvars, dvars, wvars, lvars, Planned, ContType, StepType
  <1>10. /\ \A u : u \in Notifies(s)' <=> u \in Notifies(s)
         /\ \A u : u \in DataFrees(s)' <=> u \in DataFrees(s)
         /\ \A u : u \in GFrees(s)' <=> u \in GFrees(s)
         /\ DataHeld(s)' <=> DataHeld(s)
    <2>1. \A u : u \in Notifies(s)' <=> u \in Notifies(s)
      BY <1>2, <1>6, <1>7 DEF Tally
    <2>2. \A u : u \in DataFrees(s)' <=> u \in DataFrees(s)
      BY <1>2, <1>6, <1>7 DEF Tally
    <2>3. \A u : u \in GFrees(s)' <=> u \in GFrees(s)
      BY <1>2, <1>6, <1>7 DEF Tally, SameEnd
    <2> QED  BY <1>5, <2>1, <2>2, <2>3 DEF DataHeld, gvars
  <1>11. SourceOK(s)'
    <2>1. GRefs(s)' = GRefs(s)
      <3>1. /\ Cardinality(GUnrefs(s)') = Cardinality(GUnrefs(s))
            /\ Cardinality(GUnrefs2(s)') = Cardinality(GUnrefs2(s))
        BY <1>2, <1>6, <1>7 DEF Tally, SameEnd, B
      <3> QED  BY <1>5, <3>1 DEF GRefs, B, gvars, wvars, lvars, OnStack
    <2>2. /\ Cardinality(CbUnrefs(s)') = Cardinality(CbUnrefs(s))
          /\ Cardinality(Keeps(s)') = Cardinality(Keeps(s))
      BY <1>2, <1>6, <1>7 DEF Tally, B
    <2>3. IsFiniteSet(Working(s)')
      BY <1>7 DEF Tally
    <2>4. Counted(s)'
      BY <1>4, <1>5, <1>10, <2>1, <2>2, <2>3
         DEF SourceOK, Counted, gvars, dvars, wvars, lvars, OnStack, B
    <2>5. GLife(s)'
      BY <1>4, <1>5, <1>10 DEF SourceOK, GLife, gvars
    <2>6. DataLife(s)'
      BY <1>4, <1>5, <1>10 DEF SourceOK, DataLife, gvars, dvars
    <2>7. WrapperLife(s)' /\ Unborn(s)'
      BY <1>3, <1>4, <1>5 DEF SourceOK, WrapperLife, Unborn, gvars, dvars, wvars
    <2> QED  BY <2>4, <2>5, <2>6, <2>7 DEF SourceOK
  <1>12. \A r \in Sources \ {s} : SameSource(r)
    BY <1>5 DEF SameSource, gvars, dvars, wvars, lvars, OnStack
  <1>13. NodesOK'
    <2>1. OneOwner'
      BY <1>4, <1>5 DEF NodesOK, OneOwner, dvars
    <2>2. ASSUME NEW r \in Sources PROVE NodeOf(r)'
      <3>1. DataHeld(r)' <=> DataHeld(r)
        <4>1. CASE r # s
          BY <1>5, <1>7, <4>1 DEF SameAccounts, DataHeld, gvars
        <4> QED  BY <1>10, <4>1
      <3> QED  BY <1>4, <1>5, <3>1 DEF NodesOK, NodeOf, dvars
    <2>3. ASSUME NEW n \in Nodes PROVE BackRef(n)'
      <3>1. nodeSrc[n] # NULL => nodeSrc[n] \in Sources
        BY <1>4 DEF TypeOK
      <3>2. CASE n = dataNode[s]
        <4>1. nodeSrc'[n] = s /\ node[n] # "unborn"
          BY <1>4, <1>5, <1>8, <3>2 DEF NodesOK, NodeOf, Untouched, TypeOK
        <4> QED  BY <1>3, <1>4, <1>5, <3>2, <4>1 DEF NodesOK, BackRef, dvars
      <3>3. CASE n # dataNode[s]
        <4>1. nodeSrc'[n] = nodeSrc[n]
          BY <1>4, <1>5, <3>3 DEF TypeOK
        <4> QED  BY <1>4, <1>5, <3>1, <4>1 DEF NodesOK, BackRef, dvars
      <3> QED  BY <3>2, <3>3
    <2> QED  BY <2>1, <2>2, <2>3 DEF NodesOK
  <1>15. Untouched(t, s)'
    <2>1. \A u \in Threads : On(u, s)' => On(u, s)
      BY <1>3, <1>7 DEF Planned
    <2> QED  BY <1>5, <1>8, <2>1 DEF Untouched, gvars, dvars
  <1>20. q # <<"destroy">>
    BY <1>3, <1>6, GoesOn DEF Begins
  <1>21. conn'[t] = NoConn /\ \A u \in Threads \ {t} : conn'[u] = conn[u]
    BY <1>3, <1>5
  <1>22. /\ holders'[s] = holders[s] /\ dataNode'[s] \in {dataNode[s], NULL}
         /\ \A n \in Nodes : /\ node[n] # "unborn" => node'[n] # "unborn"
                             /\ node[n] = "live" /\ dataNode[s] # n => node'[n] = "live"
    BY <1>4, <1>5 DEF TypeOK, dvars, wvars, nvars
  <1> QED  BY <1>2, <1>3, <1>5, <1>6, <1>7, <1>9, <1>11, <1>12, <1>13, <1>15, <1>20, <1>21,
              <1>22, WorkIInv
           DEF SameEnd, gvars, dvars, lvars


\* The new source is attached to the context.
LEMMA AttachSignalIInv ==
  ASSUME IInv, NEW t \in Threads, AttachSignal(t)
  PROVE  IInv'
  <1>1. PICK s \in Sources : s = Src(t)
    BY AtWork DEF AttachSignal
  <1>2. PICK p \in Plans : p = Plan(t)
    BY AtWork DEF AttachSignal
  <1>3. /\ cont[t] # <<>> /\ Begins(p, "attach") /\ Tail(p) \in Seq(Op)
        /\ On(t, s) /\ kind[s] # "none" /\ conn[t] = NoConn
    BY <1>1, <1>2, AtWork DEF AttachSignal
  <1>4. SourceOK(s) /\ TypeOK /\ PlansOK /\ LoopOK /\ Connecting /\ NodesOK
    BY DEF IInv
  <1>5. /\ attached' = [attached EXCEPT ![s] = TRUE]
        /\ gref' = [gref EXCEPT ![s] = @ + 1]
        /\ Continue(t, <<>>)
        /\ UNCHANGED <<kind, gsource, active, callback, cbRef, dvars, wvars, nvars, lvars, conn>>
    BY <1>1 DEF AttachSignal
  <1>6. PICK q \in Plans :
          /\ q = <<>> \o Tail(p) /\ SameEnd(q, p) /\ ~Frees(q) /\ ~Frees(p)
          /\ Connects(p) /\ ~Connects(q)
          /\ Ends(p, "gunref")
          /\ \A x \in {"notify", "cbunref", "keep"} : ~Begins(p, x) /\ ~Begins(q, x)
    <2>1. p = <<"attach", "gunref">>
      BY <1>3, OtherPlans
    <2>2. <<>> \o Tail(p) = <<"gunref">>
      BY <1>3, <2>1, ShortTails, JoinedEmpty
    <2>3. \A x \in {"notify", "cbunref", "keep"} : ~Begins(p, x) /\ ~Begins(<<"gunref">>, x)
      BY <2>1 DEF Begins
    <2>4. SameEnd(<<"gunref">>, p) /\ ~Frees(<<"gunref">>) /\ ~Frees(p) /\ Ends(p, "gunref")
      BY <2>1, ShortPlans DEF AtEnd, SameEnd
    <2>5. Connects(p) /\ ~Connects(<<"gunref">>)
      BY <2>1 DEF Connects
    <2> QED  BY <2>2, <2>3, <2>4, <2>5, ShortPlans DEF AtEnd
  <1>7. /\ Planned(t, q, s) /\ Tally(t, q, s)
        /\ \A r \in Sources \ {s} : SameAccounts(r)
    <2>1. <<>> \in Seq(Op)
      OBVIOUS
    <2> QED  BY <1>1, <1>2, <1>3, <1>5, <1>6, <2>1, Worked
  <1>8. Untouched(t, s) /\ gref[s] \in Nat
    BY <1>2, <1>3, <1>4, <1>6 DEF Connecting, TypeOK
  <1>9. /\ attached'[s] /\ gref'[s] = gref[s] + 1
        /\ \A r \in Sources \ {s} : attached'[r] = attached[r] /\ gref'[r] = gref[r]
    BY <1>4, <1>5 DEF TypeOK
  <1>10. TypeOK'
    <2>1. attached' \in [Sources -> BOOLEAN] /\ gref' \in [Sources -> Nat]
      BY <1>4, <1>5 DEF TypeOK
    <2> QED  BY <1>4, <1>5, <1>7, <2>1
             DEF TypeOK, dvars, wvars, nvars, lvars, Planned, ContType, StepType
  <1>11. /\ \A u : u \in Notifies(s)' <=> u \in Notifies(s)
         /\ \A u : u \in DataFrees(s)' <=> u \in DataFrees(s)
         /\ \A u : u \in GFrees(s)' <=> u \in GFrees(s)
         /\ DataHeld(s)' <=> DataHeld(s)
    <2>1. \A u : u \in Notifies(s)' <=> u \in Notifies(s)
      BY <1>2, <1>6, <1>7 DEF Tally
    <2>2. \A u : u \in DataFrees(s)' <=> u \in DataFrees(s)
      BY <1>2, <1>6, <1>7 DEF Tally
    <2>3. \A u : u \in GFrees(s)' <=> u \in GFrees(s)
      BY <1>2, <1>6, <1>7 DEF Tally, SameEnd
    <2> QED  BY <1>5, <2>1, <2>2, <2>3 DEF DataHeld
  <1>12. SourceOK(s)'
    <2>1. gref'[s] = GRefs(s)'
      <3>1. /\ Cardinality(GUnrefs(s)') = Cardinality(GUnrefs(s))
            /\ Cardinality(GUnrefs2(s)') = Cardinality(GUnrefs2(s))
            /\ Cardinality(GUnrefs(s)) \in Nat /\ Cardinality(GUnrefs2(s)) \in Nat
        BY <1>2, <1>6, <1>7 DEF Tally, SameEnd, B
      <3>2. B(attached[s] /\ active[s]) = 0 /\ B(attached[s] /\ active[s])' = 1
        BY <1>5, <1>8, <1>9 DEF B, Untouched
      <3>3. /\ B(holders[s] # {})' = B(holders[s] # {}) /\ B(OnStack(s))' = B(OnStack(s))
            /\ B(probe.src = s)' = B(probe.src = s)
        BY <1>5 DEF wvars, lvars, OnStack, B
      <3>4. /\ B(holders[s] # {}) \in Nat /\ B(OnStack(s)) \in Nat /\ B(probe.src = s) \in Nat
        BY DEF B
      <3>5. GRefs(s)' = GRefs(s) + 1
        BY <3>1, <3>2, <3>3, <3>4 DEF GRefs
      <3> QED  BY <1>4, <1>9, <3>5 DEF SourceOK, Counted
    <2>2. /\ Cardinality(CbUnrefs(s)') = Cardinality(CbUnrefs(s))
          /\ Cardinality(Keeps(s)') = Cardinality(Keeps(s))
      BY <1>2, <1>6, <1>7 DEF Tally, B
    <2>3. IsFiniteSet(Working(s)')
      BY <1>7 DEF Tally
    <2>4. Counted(s)'
      BY <1>4, <1>5, <1>11, <2>1, <2>2, <2>3
         DEF SourceOK, Counted, dvars, wvars, lvars, OnStack, B
    <2>5. GLife(s)'
      <3>1. gref[s] > 0 /\ gref'[s] > 0
        <4>1. Ends(p, "gunref") /\ Cardinality(GUnrefs(s)) \in Nat /\ Cardinality(GUnrefs(s)) >= 1
          BY <1>2, <1>6, <1>7 DEF Tally
        <4>2. Cardinality(GUnrefs2(s)) \in Nat
          BY <1>7 DEF Tally
        <4>3. gref[s] = GRefs(s)
          BY <1>4 DEF SourceOK, Counted
        <4> QED  BY <1>8, <1>9, <4>1, <4>2, <4>3 DEF GRefs, B
      <3> QED  BY <1>4, <1>5, <1>11, <3>1 DEF SourceOK, GLife
    <2>6. DataLife(s)'
      BY <1>4, <1>5, <1>11 DEF SourceOK, DataLife, dvars
    <2>7. WrapperLife(s)' /\ Unborn(s)'
      BY <1>3, <1>4, <1>5, <1>8 DEF SourceOK, WrapperLife, Unborn, Untouched, dvars, wvars
    <2> QED  BY <2>4, <2>5, <2>6, <2>7 DEF SourceOK
  <1>13. \A r \in Sources \ {s} : SameSource(r)
    BY <1>5, <1>9 DEF SameSource, dvars, wvars, lvars, OnStack
  <1>14. NodesOK'
    <2>1. ASSUME NEW r \in Sources PROVE DataHeld(r)' <=> DataHeld(r)
      <3>1. CASE r # s
        BY <1>5, <1>7, <3>1 DEF SameAccounts, DataHeld
      <3> QED  BY <1>11, <3>1
    <2> QED  BY <1>4, <1>5, <2>1, NodesKept DEF dvars, nvars
  <1>20. q # <<"destroy">>
    BY <1>3, <1>6, GoesOn DEF Begins
  <1>21. conn'[t] = NoConn /\ \A u \in Threads \ {t} : conn'[u] = conn[u]
    BY <1>3, <1>5
  <1>22. /\ holders'[s] = holders[s] /\ dataNode'[s] \in {dataNode[s], NULL}
         /\ \A n \in Nodes : /\ node[n] # "unborn" => node'[n] # "unborn"
                             /\ node[n] = "live" /\ dataNode[s] # n => node'[n] = "live"
    BY <1>4, <1>5 DEF TypeOK, dvars, wvars, nvars
  <1> QED  BY <1>2, <1>3, <1>5, <1>6, <1>7, <1>9, <1>10, <1>12, <1>13, <1>14, <1>20, <1>21,
              <1>22, WorkIInv
           DEF SameEnd, dvars, nvars, lvars


-----------------------------------------------------------------------------
(* What the invariant says about those who use a source.                   *)

\* The counts of s, without a step of a thread.
LEMMA CountsType ==
  ASSUME IInv, NEW s \in Sources
  PROVE  /\ Cardinality(GUnrefs(s)) \in Nat /\ Cardinality(GUnrefs2(s)) \in Nat
         /\ Cardinality(CbUnrefs(s)) \in Nat /\ Cardinality(Keeps(s)) \in Nat
  <1>1. IsFiniteSet(Working(s))
    BY DEF IInv, SourceOK, Counted
  <1>2. /\ GUnrefs(s) \subseteq Working(s) /\ GUnrefs2(s) \subseteq Working(s)
        /\ CbUnrefs(s) \subseteq Working(s) /\ Keeps(s) \subseteq Working(s)
    BY DEF GUnrefs, GUnrefs2, CbUnrefs, Keeps, Working
  <1> QED  BY <1>1, <1>2, FS_Subset, FS_CardinalityType

\* A source that is counted on has its GSource.
LEMMA CountedOn ==
  ASSUME IInv, NEW s \in Sources,
         \/ attached[s] /\ active[s]
         \/ holders[s] # {}
         \/ OnStack(s)
         \/ GUnrefs(s) # {}
         \/ GFrees(s) # {}
  PROVE  gsource[s] = "live"
  <1>1. SourceOK(s)
    BY DEF IInv
  <1>2. CASE GFrees(s) # {}
    BY <1>1, <1>2 DEF SourceOK, GLife
  <1>3. CASE GFrees(s) = {}
    <2>1. /\ B(attached[s] /\ active[s]) \in {0, 1} /\ B(holders[s] # {}) \in {0, 1}
          /\ B(OnStack(s)) \in {0, 1} /\ B(probe.src = s) \in {0, 1}
          /\ attached[s] /\ active[s] => B(attached[s] /\ active[s]) = 1
          /\ holders[s] # {} => B(holders[s] # {}) = 1
          /\ OnStack(s) => B(OnStack(s)) = 1
      BY DEF B
    <2>2. GUnrefs(s) # {} => Cardinality(GUnrefs(s)) # 0
      <3>1. IsFiniteSet(GUnrefs(s))
        <4>1. GUnrefs(s) \subseteq Working(s) /\ IsFiniteSet(Working(s))
          BY <1>1 DEF GUnrefs, Working, SourceOK, Counted
        <4> QED  BY <4>1, FS_Subset
      <3> QED  BY <3>1, FS_EmptySet
    <2>3. GRefs(s) > 0
      BY <1>3, <2>1, <2>2, CountsType DEF GRefs
    <2>4. gref[s] = GRefs(s)
      BY <1>1 DEF SourceOK, Counted
    <2>5. gref[s] > 0
      BY <2>3, <2>4
    <2> QED  BY <1>1, <2>5 DEF SourceOK, GLife
  <1> QED  BY <1>2, <1>3

\* A thread that has more to do with a source than to destroy it has its GSource.
LEMMA AtWorkAlive ==
  ASSUME IInv, NEW s \in Sources, NEW t \in Threads, On(t, s), Plan(t) # <<"destroy">>
  PROVE  gsource[s] = "live"
  <1>1. Plan(t) \in Plans /\ OneSource(t) /\ ContType /\ cont[t] # <<>>
    BY DEF IInv, PlansOK, TypeOK, ContType, StepType, On
  <1>2. Plan(t) # <<>>
    BY <1>1, PlanFacts
  <1>3. Ends(Plan(t), "gunref") \/ Ends(Plan(t), "gfree")
    BY <1>1, <1>2, PlansClose
  <1>4. t \in GUnrefs(s) \/ t \in GFrees(s)
    BY <1>3 DEF GUnrefs, GFrees
  <1> QED  BY <1>4, CountedOn

\* Callback data that are held have their GSource.
LEMMA HeldAlive ==
  ASSUME IInv, NEW s \in Sources, DataHeld(s)
  PROVE  gsource[s] = "live" /\ data[s] = "live"
  <1>1. SourceOK(s)
    BY DEF IInv
  <1>2. data[s] = "live"
    BY <1>1 DEF SourceOK, DataLife
  <1>3. CASE callback[s]
    BY <1>1, <1>2, <1>3 DEF SourceOK, GLife
  <1>4. CASE OnStack(s)
    BY <1>2, <1>4, CountedOn
  <1>5. CASE CbUnrefs(s) \cup Notifies(s) # {}
    <2>1. PICK t \in Threads :
            On(t, s) /\ (Begins(Plan(t), "cbunref") \/ Begins(Plan(t), "notify"))
      BY <1>5 DEF CbUnrefs, Notifies
    <2>2. Plan(t) # <<"destroy">>
      BY <2>1 DEF Begins
    <2> QED  BY <1>2, <2>1, <2>2, AtWorkAlive
  <1>6. callback[s] \/ OnStack(s) \/ CbUnrefs(s) \cup Notifies(s) # {}
    <2> SUFFICES ASSUME ~callback[s], ~OnStack(s), CbUnrefs(s) = {}, Notifies(s) = {}
                 PROVE  FALSE
      OBVIOUS
    <2>1. cbRef[s] = B(callback[s]) + B(OnStack(s)) + Cardinality(CbUnrefs(s))
      BY <1>1 DEF SourceOK, Counted
    <2>2. B(callback[s]) = 0 /\ B(OnStack(s)) = 0 /\ Cardinality(CbUnrefs(s)) = 0
      BY FS_EmptySet DEF B
    <2> QED  BY <2>1, <2>2 DEF DataHeld
  <1> QED  BY <1>2, <1>3, <1>4, <1>5, <1>6

\* A callback that is set, or a dispatch, holds the callback data; these keep the wrapper
\* of a source that has been attached.
LEMMA CallbackHolds ==
  ASSUME IInv, NEW s \in Sources, callback[s] \/ OnStack(s)
  PROVE  /\ DataHeld(s)
         /\ kind[s] \in WrapperKinds /\ attached[s] => wrapper[s] = "live"
  <1>1. SourceOK(s)
    BY DEF IInv
  <1>2. DataHeld(s)
    <2>1. cbRef[s] = B(callback[s]) + B(OnStack(s)) + Cardinality(CbUnrefs(s))
      BY <1>1 DEF SourceOK, Counted
    <2>2. /\ B(callback[s]) \in {0, 1} /\ B(OnStack(s)) \in {0, 1}
          /\ B(callback[s]) = 1 \/ B(OnStack(s)) = 1
      BY DEF B
    <2> QED  BY <2>1, <2>2, CountsType DEF DataHeld
  <1>3. ASSUME kind[s] \in WrapperKinds, attached[s] PROVE wrapper[s] = "live"
    <2>1. owns[s]
      BY <1>1, <1>3 DEF SourceOK, WrapperLife
    <2>2. keep[s] = B(holders[s] # {}) + B(owns[s] /\ DataHeld(s)) + Cardinality(Keeps(s))
      BY <1>1 DEF SourceOK, Counted
    <2>3. B(owns[s] /\ DataHeld(s)) = 1 /\ B(holders[s] # {}) \in {0, 1}
      BY <1>2, <2>1 DEF B
    <2>4. keep[s] > 0
      BY <2>2, <2>3, CountsType
    <2> QED  BY <1>1, <2>4 DEF SourceOK, WrapperLife
  <1> QED  BY <1>2, <1>3

-----------------------------------------------------------------------------
(* The operations of the program.                                          *)

\* No thread is connecting the source s.
NotConnecting(s) == \A u \in Threads : On(u, s) => ~Connects(Plan(u))

LEMMA WhoConnects ==
  ASSUME IInv, NEW s \in Sources, attached[s] \/ kind[s] \in WrapperKinds \/ kind[s] = "none"
  PROVE  NotConnecting(s)
  BY DEF NotConnecting, IInv, Connecting, Untouched, SourceOK, Unborn, Working

\* A source of which somebody holds a RefPtr has a wrapper that is kept.
LEMMA HeldFacts ==
  ASSUME IInv, NEW s \in Sources, NEW t \in holders[s]
  PROVE  /\ kind[s] \in WrapperKinds /\ kind[s] # "none" /\ owns[s] /\ NotConnecting(s)
         /\ IsFiniteSet(holders[s]) /\ Cardinality(holders[s]) \in Nat
         /\ refCount[s] = Cardinality(holders[s])
         /\ B(holders[s] # {}) = 1
  <1>1. SourceOK(s)
    BY DEF IInv
  <1>2. kind[s] \in WrapperKinds /\ owns[s]
    BY <1>1 DEF SourceOK, WrapperLife
  <1>3. IsFiniteSet(holders[s]) /\ refCount[s] = Cardinality(holders[s])
    BY <1>1 DEF SourceOK, Counted
  <1>4. Cardinality(holders[s]) \in Nat
    BY <1>3, FS_CardinalityType
  <1> QED  BY <1>2, <1>3, <1>4, WhoConnects DEF WrapperKinds, B

\* A step in which no thread gets something to do: what is left to show.
LEMMA QuietIInv ==
  ASSUME IInv, NEW s \in Sources, cont' = cont, NotConnecting(s),
         kind[s] # "none" => kind'[s] # "none",
         \A r \in Sources \ {s} : SameSource(r) /\ dataNode'[r] = dataNode[r],
         \A r \in Sources : dataNode[r] # NULL /\ connected'[dataNode[r]] => connected[dataNode[r]],
         TypeOK', LoopOK', SourceOK(s)', NodesOK', ConnsOK'
  PROVE  IInv'
  <1>1. \A r \in Sources : SourceOK(r)'
    BY SourceKept, AccountsKept DEF IInv
  <1>2. PlansOK'
    BY PlansKept DEF IInv, SameSource
  <1>3. Connecting'
    <2> SUFFICES ASSUME NEW u \in Threads, NEW r \in Sources, On(u, r)', Connects(Plan(u)')
                 PROVE  Untouched(u, r)'
      BY DEF Connecting
    <2>1. \A v \in Threads : (On(v, r)' <=> On(v, r)) /\ Plan(v)' = Plan(v)
      BY DEF On, Src, Plan
    <2>2. Untouched(u, r) /\ r # s
      BY <2>1 DEF IInv, Connecting, NotConnecting
    <2> QED  BY <2>1, <2>2 DEF SameSource, Untouched
  <1> QED  BY <1>1, <1>2, <1>3 DEF IInv

\* Thread t starts on the plan p for s: what is left to show.
LEMMA BegunIInv ==
  ASSUME IInv, NEW t \in Threads, cont[t] = <<>>, NEW s \in Sources, NEW p \in Plans,
         Planned(t, p, s),
         NotConnecting(s), kind'[s] # "none",
         Connects(p) => Untouched(t, s)',
         \A r \in Sources \ {s} : SameAccounts(r) /\ SameSource(r) /\ dataNode'[r] = dataNode[r],
         \A r \in Sources : dataNode[r] # NULL /\ connected'[dataNode[r]] => connected[dataNode[r]],
         TypeOK', LoopOK', SourceOK(s)', NodesOK', ConnsOK'
  PROVE  IInv'
  <1>1. \A r \in Sources : SourceOK(r)'
    BY SourceKept DEF IInv
  <1>2. PlansOK'
    BY PlansChange DEF IInv, SameSource
  <1>3. Connecting'
    <2> SUFFICES ASSUME NEW u \in Threads, NEW r \in Sources, On(u, r)', Connects(Plan(u)')
                 PROVE  Untouched(u, r)'
      BY DEF Connecting
    <2>1. CASE u = t
      BY <2>1 DEF Planned
    <2>2. CASE u # t
      <3>1. On(u, r) /\ Connects(Plan(u)) /\ \A v \in Threads : On(v, r)' => v = t \/ On(v, r)
        BY <2>2 DEF Planned
      <3>2. Untouched(u, r) /\ r # s
        BY <3>1 DEF IInv, Connecting, NotConnecting
      <3>3. ~On(t, r)'
        BY <3>2 DEF Planned
      <3> QED  BY <3>1, <3>2, <3>3 DEF SameSource, Untouched
    <2> QED  BY <2>1, <2>2
  <1> QED  BY <1>1, <1>2, <1>3 DEF IInv

\* What the threads have read when thread t, which has nothing to do, does something with
\* s: it gets nothing to do, or the plan p.
Spares(t, s) ==
  /\ \A u \in Threads \ {t} : conn[u] # NoConn => conn[u].src # s
  /\ \A u \in Threads \ {t} : u \in holders[s] => u \in holders'[s]
  /\ \A r \in Sources \ {s} : SameSource(r) /\ dataNode'[r] = dataNode[r]
  /\ \A n \in Nodes : node[n] # "unborn" => node'[n] = node[n]
  /\ dataNode'[s] \in {dataNode[s], NULL} \/ node[dataNode'[s]] = "unborn"
  /\ probe' = probe \/ t = Loop
  /\ \A i \in DOMAIN stack' : stack'[i].src # s => \E j \in DOMAIN stack : stack[j] = stack'[i]

LEMMA QuietConns ==
  ASSUME IInv, NEW t \in Threads, NEW s \in Sources, Spares(t, s),
         cont[t] = <<>>, conn[t] = NoConn, cont' = cont, conn' = conn
  PROVE  ConnsOK'
  <1>1. \A r : ~On(t, r)'
    BY DEF On
  <1>2. conn'[t].node = NULL
    BY DEF NoConn
  <1> QED  BY <1>1, <1>2, ConnsKept DEF Leaves, IInv, Spares

LEMMA BegunConns ==
  ASSUME IInv, NEW t \in Threads, NEW s \in Sources, Spares(t, s), NEW p, Planned(t, p, s),
         p # <<"destroy">> \/ t \in holders'[s], conn[t] = NoConn, conn' = conn
  PROVE  ConnsOK'
  <1>1. \A r \in Sources \ {s} : ~On(t, r)'
    BY DEF Planned
  <1>2. conn'[t].node = NULL
    BY DEF NoConn
  <1>3. On(t, s)' /\ Plan(t)' = <<"destroy">> => Destroyer(t, s)'
    BY DEF Planned, Destroyer
  <1>4. \A u \in Threads \ {t} : cont'[u] = cont[u]
    BY DEF Planned
  <1> QED  BY <1>1, <1>2, <1>3, <1>4, ConnsKept DEF Leaves, IInv, Spares

\* A new source, and one that the loop has to do with, is not connected elsewhere.
LEMMA Elsewhere ==
  ASSUME IInv, NEW s \in Sources
  PROVE  /\ attached[s] => \A u \in Threads \ {Loop} : conn[u] # NoConn => conn[u].src # s
         /\ kind[s] = "none" => \A u \in Threads : conn[u] # NoConn => conn[u].src # s
  BY DEF IInv, ConnsOK, ConnOK

\* A RefPtr is copied for another thread.
LEMMA ReferenceIInv ==
  ASSUME IInv, NEW t \in Threads, NEW u \in Threads, NEW s \in Sources, Reference(t, u, s)
  PROVE  IInv'
  <1>1. /\ t \in holders[s] /\ u \notin holders[s]
        /\ refCount' = [refCount EXCEPT ![s] = @ + 1]
        /\ holders' = [holders EXCEPT ![s] = @ \cup {u}]
        /\ UNCHANGED <<kind, gvars, dvars, wrapper, keep, nvars, lvars, conn, cont>>
    BY DEF Reference
  <1>2. SourceOK(s) /\ TypeOK /\ LoopOK /\ NodesOK
    BY DEF IInv
  <1>3. /\ refCount'[s] = refCount[s] + 1 /\ holders'[s] = holders[s] \cup {u}
        /\ \A r \in Sources \ {s} : refCount'[r] = refCount[r] /\ holders'[r] = holders[r]
    BY <1>1, <1>2 DEF TypeOK
  <1>4. SameAccounts(s) /\ \A r \in Sources : DataHeld(r)' <=> DataHeld(r)
    BY <1>1, AccountsKept DEF SameAccounts, DataHeld, gvars
  <1>5. TypeOK'
    <2>1. refCount' \in [Sources -> Nat] /\ holders' \in [Sources -> SUBSET Threads]
      BY <1>1, <1>2 DEF TypeOK
    <2> QED  BY <1>1, <1>2, <2>1 DEF TypeOK, gvars, dvars, nvars, lvars
  <1>6. SourceOK(s)'
    <2>1. /\ IsFiniteSet(holders'[s]) /\ refCount'[s] = Cardinality(holders'[s])
          /\ B(holders[s] # {}) = 1 /\ B(holders'[s] # {}) = 1
      <3>1. /\ IsFiniteSet(holders[s]) /\ refCount[s] = Cardinality(holders[s])
            /\ B(holders[s] # {}) = 1
        BY <1>1, HeldFacts
      <3>2. /\ IsFiniteSet(holders[s] \cup {u})
            /\ Cardinality(holders[s] \cup {u}) = Cardinality(holders[s]) + 1
        BY <1>1, <3>1, FS_AddElement
      <3> QED  BY <1>3, <3>1, <3>2 DEF B
    <2>2. GRefs(s)' = GRefs(s)
      BY <1>1, <1>4, <2>1 DEF GRefs, SameAccounts, B, gvars, lvars, OnStack
    <2>3. Counted(s)'
      BY <1>1, <1>2, <1>4, <2>1, <2>2
         DEF SourceOK, Counted, SameAccounts, gvars, dvars, lvars, OnStack, B
    <2>4. GLife(s)' /\ DataLife(s)' /\ Unborn(s)'
      BY <1>1, <1>2, <1>4
         DEF SourceOK, GLife, DataLife, Unborn, SameAccounts, gvars, dvars
    <2>5. WrapperLife(s)'
      BY <1>1, <1>2, HeldFacts DEF SourceOK, WrapperLife, gvars, dvars
    <2> QED  BY <2>3, <2>4, <2>5 DEF SourceOK
  <1>7. LoopOK'
    BY <1>1, <1>2, LoopKept DEF LoopOK, gvars, dvars, lvars
  <1>8. NodesOK'
    BY <1>1, <1>2, <1>4, NodesKept DEF dvars, nvars
  <1>9. \A r \in Sources \ {s} : SameSource(r)
    BY <1>1, <1>3 DEF SameSource, gvars, dvars, lvars, OnStack
  <1>10. ConnsOK'
    <2>1. \A v \in Threads : Plan(v)' = Plan(v) /\ \A r : On(v, r)' <=> On(v, r)
      BY <1>1 DEF Plan, On, Src
    <2>2. \A r \in Sources : \A v \in holders[r] : v \in holders'[r]
      BY <1>1, <1>2 DEF TypeOK
    <2>3. ASSUME NEW v \in Threads, conn[v] # NoConn PROVE ConnOK(v)'
      <3>1. conn[v].src \in Sources /\ ConnOK(v)
        BY <1>2, <2>3 DEF IInv, ConnsOK, TypeOK, Conn
      <3> QED  BY <1>1, <2>1, <2>2, <3>1 DEF ConnOK, Loose, gvars, dvars, nvars, lvars
    <2>4. \A v \in Threads, r \in Sources : Destroyer(v, r) => Destroyer(v, r)'
      BY <1>1, <2>2 DEF Destroyer
    <2> QED  BY <1>1, <2>1, <2>3, <2>4 DEF IInv, ConnsOK
  <1> QED  BY <1>1, <1>5, <1>6, <1>7, <1>8, <1>9, <1>10, HeldFacts, QuietIInv DEF dvars, nvars

\* A RefPtr is dropped; the last one goes on to keep_wrapper_ and the GSource.
LEMMA UnreferenceIInv ==
  ASSUME ~ConnectRaces, IInv, NEW t \in Threads, NEW s \in Sources, Unreference(t, s)
  PROVE  IInv'
  <1>1. /\ InUserCode(t) /\ t \in holders[s] /\ Undisturbed(t, s)
        /\ refCount' = [refCount EXCEPT ![s] = @ - 1]
        /\ holders' = [holders EXCEPT ![s] = @ \ {t}]
        /\ IF refCount[s] - 1 = 0 THEN Start(t, <<"keep", "gunref">>, s) ELSE cont' = cont
        /\ UNCHANGED <<kind, gvars, dvars, wrapper, keep, nvars, lvars, conn>>
    BY DEF Unreference, LastReference, LastUnreference
  <1>2. SourceOK(s) /\ TypeOK /\ LoopOK /\ NodesOK
    BY DEF IInv
  <1>3. /\ refCount'[s] = refCount[s] - 1 /\ holders'[s] = holders[s] \ {t}
        /\ \A r \in Sources \ {s} : refCount'[r] = refCount[r] /\ holders'[r] = holders[r]
    BY <1>1, <1>2 DEF TypeOK
  <1>4. /\ IsFiniteSet(holders'[s]) /\ refCount'[s] = Cardinality(holders'[s])
        /\ refCount'[s] \in Nat
        /\ holders'[s] = {} <=> refCount[s] - 1 = 0
        /\ B(holders[s] # {}) = 1 /\ kind[s] \in WrapperKinds /\ owns[s] /\ NotConnecting(s)
    <2>1. /\ IsFiniteSet(holders'[s]) /\ refCount'[s] = Cardinality(holders'[s])
      BY <1>1, <1>3, HeldFacts, FS_RemoveElement
    <2>2. refCount'[s] \in Nat /\ (holders'[s] = {} <=> refCount'[s] = 0)
      BY <2>1, FS_CardinalityType, FS_EmptySet
    <2> QED  BY <1>1, <1>3, <2>1, <2>2, HeldFacts
  <1>5. /\ refCount' \in [Sources -> Nat] /\ holders' \in [Sources -> SUBSET Threads]
    BY <1>1, <1>2, <1>4 DEF TypeOK
  <1>6. \A r \in Sources \ {s} : SameSource(r)
    BY <1>1, <1>3 DEF SameSource, gvars, dvars, lvars, OnStack
  <1>11. Spares(t, s) /\ conn[t] = NoConn /\ cont[t] = <<>>
    <2>1. \A u \in Threads \ {t} : conn[u].src # s
      BY <1>1 DEF Undisturbed
    <2> QED  BY <1>1, <1>3, <1>6, <2>1 DEF Spares, InUserCode, dvars, nvars, lvars
  <1>7. CASE refCount[s] - 1 # 0
    <2>1. cont' = cont
      BY <1>1, <1>7
    <2>2. SameAccounts(s) /\ \A r \in Sources : DataHeld(r)' <=> DataHeld(r)
      BY <1>1, <2>1, AccountsKept DEF SameAccounts, DataHeld, gvars
    <2>3. TypeOK'
      BY <1>1, <1>2, <1>5, <2>1 DEF TypeOK, gvars, dvars, nvars, lvars
    <2>4. SourceOK(s)'
      <3>1. B(holders'[s] # {}) = 1
        BY <1>4, <1>7 DEF B
      <3>2. GRefs(s)' = GRefs(s)
        BY <1>1, <1>4, <2>2, <3>1 DEF GRefs, SameAccounts, B, gvars, lvars, OnStack
      <3>3. Counted(s)'
        BY <1>1, <1>2, <1>4, <2>2, <3>1, <3>2
           DEF SourceOK, Counted, SameAccounts, gvars, dvars, lvars, OnStack, B
      <3>4. GLife(s)' /\ DataLife(s)' /\ Unborn(s)'
        BY <1>1, <1>2, <2>2
           DEF SourceOK, GLife, DataLife, Unborn, SameAccounts, gvars, dvars
      <3>5. WrapperLife(s)'
        BY <1>1, <1>2, <1>4 DEF SourceOK, WrapperLife, gvars, dvars
      <3> QED  BY <3>3, <3>4, <3>5 DEF SourceOK
    <2>5. LoopOK'
      BY <1>1, <1>2, <2>1, LoopKept DEF LoopOK, gvars, dvars, lvars
    <2>6. NodesOK'
      BY <1>1, <1>2, <2>2, NodesKept DEF dvars, nvars
    <2>7. ConnsOK'
      BY <1>1, <1>11, <2>1, QuietConns
    <2> QED  BY <1>1, <1>4, <1>6, <2>1, <2>3, <2>4, <2>5, <2>6, <2>7, QuietIInv DEF dvars, nvars
  <1>8. CASE refCount[s] - 1 = 0
    <2>1. PICK p \in Plans : p = <<"keep", "gunref">>
      BY ShortPlans DEF AtEnd
    <2>2. cont[t] = <<>> /\ Start(t, p, s)
      BY <1>1, <1>8, <2>1 DEF InUserCode
    <2>3. /\ Planned(t, p, s) /\ Tally(t, p, s) /\ Plan(t) = <<>>
          /\ \A r \in Sources \ {s} : SameAccounts(r)
      BY <2>2, Begun
    <2>4. /\ Ends(p, "gunref") /\ ~UnrefsTwice(p) /\ ~Ends(p, "gfree") /\ ~Frees(p) /\ ~Destroys(p)
          /\ Begins(p, "keep") /\ ~Begins(p, "cbunref") /\ ~Begins(p, "notify") /\ ~Connects(p)
      <3>1. Begins(p, "keep") /\ ~Begins(p, "cbunref") /\ ~Begins(p, "notify") /\ ~Connects(p)
        BY <2>1 DEF Begins, Connects
      <3> QED  BY <2>1, <3>1, ShortPlans DEF AtEnd
    <2>5. TypeOK'
      BY <1>1, <1>2, <1>5, <2>3
         DEF TypeOK, gvars, dvars, nvars, lvars, Planned, ContType, StepType
    <2>6. /\ \A v : v \in Notifies(s)' <=> v \in Notifies(s)
          /\ \A v : v \in GFrees(s)' <=> v \in GFrees(s)
          /\ \A v : v \in DataFrees(s)' <=> v \in DataFrees(s)
          /\ \A r \in Sources : DataHeld(r)' <=> DataHeld(r)
      <3>1. /\ \A v : v \in Notifies(s)' <=> v \in Notifies(s)
            /\ \A v : v \in GFrees(s)' <=> v \in GFrees(s)
            /\ \A v : v \in DataFrees(s)' <=> v \in DataFrees(s)
        BY <2>3, <2>4, NoPlan DEF Tally
      <3>2. DataHeld(s)' <=> DataHeld(s)
        BY <1>1, <3>1 DEF DataHeld, gvars
      <3>3. \A r \in Sources \ {s} : DataHeld(r)' <=> DataHeld(r)
        BY <1>1, <2>3 DEF SameAccounts, DataHeld, gvars
      <3> QED  BY <3>1, <3>2, <3>3
    <2>7. SourceOK(s)'
      <3>1. /\ Cardinality(GUnrefs(s)') = Cardinality(GUnrefs(s)) + 1
            /\ Cardinality(GUnrefs2(s)') = Cardinality(GUnrefs2(s))
            /\ Cardinality(CbUnrefs(s)') = Cardinality(CbUnrefs(s))
            /\ Cardinality(Keeps(s)') = Cardinality(Keeps(s)) + 1
            /\ Cardinality(GUnrefs(s)) \in Nat /\ Cardinality(GUnrefs2(s)) \in Nat
            /\ Cardinality(Keeps(s)) \in Nat
        BY <2>3, <2>4, NoPlan DEF Tally, B
      <3>2. B(holders'[s] # {}) = 0
        BY <1>4, <1>8 DEF B
      <3>3. GRefs(s)' = GRefs(s)
        <4>1. /\ B(attached[s] /\ active[s])' = B(attached[s] /\ active[s])
              /\ B(OnStack(s))' = B(OnStack(s)) /\ B(probe.src = s)' = B(probe.src = s)
          BY <1>1 DEF gvars, lvars, OnStack, B
        <4>2. /\ B(attached[s] /\ active[s]) \in Nat
              /\ B(OnStack(s)) \in Nat /\ B(probe.src = s) \in Nat
          BY DEF B
        <4> QED  BY <1>4, <3>1, <3>2, <4>1, <4>2 DEF GRefs
      <3>4. keep'[s] = B(holders'[s] # {}) + B(owns'[s] /\ DataHeld(s)') + Cardinality(Keeps(s)')
        <4>1. keep[s] = B(holders[s] # {}) + B(owns[s] /\ DataHeld(s)) + Cardinality(Keeps(s))
          BY <1>2 DEF SourceOK, Counted
        <4>2. B(owns'[s] /\ DataHeld(s)') = B(owns[s] /\ DataHeld(s))
          BY <1>1, <2>6 DEF dvars, B
        <4>3. B(owns[s] /\ DataHeld(s)) \in Nat
          BY DEF B
        <4> QED  BY <1>1, <1>4, <3>1, <3>2, <4>1, <4>2, <4>3
      <3>5. IsFiniteSet(Working(s)')
        BY <2>3 DEF Tally
      <3>6. Counted(s)'
        BY <1>1, <1>2, <1>4, <3>1, <3>3, <3>4, <3>5
           DEF SourceOK, Counted, gvars, dvars, lvars, OnStack, B
      <3>7. GLife(s)' /\ DataLife(s)'
        BY <1>1, <1>2, <2>6 DEF SourceOK, GLife, DataLife, gvars, dvars
      <3>8. WrapperLife(s)' /\ Unborn(s)'
        BY <1>1, <1>2, <1>4 DEF SourceOK, WrapperLife, Unborn, WrapperKinds, gvars, dvars
      <3> QED  BY <3>6, <3>7, <3>8 DEF SourceOK
    <2>8. LoopOK'
      <3>1. probe # NoProbe => cont'[Loop] = <<>>
        BY <1>1, <1>2, <2>3 DEF InUserCode, LoopOK, Planned, Threads
      <3> QED  BY <1>1, <1>2, <3>1, LoopKept DEF gvars, dvars, lvars
    <2>9. NodesOK'
      BY <1>1, <1>2, <2>6, NodesKept DEF dvars, nvars
    <2>10. kind'[s] # "none"
      BY <1>1, <1>4 DEF WrapperKinds
    <2>11. ConnsOK'
      BY <1>1, <1>11, <2>3, <2>4, GoesOn, BegunConns
    <2> QED  BY <1>1, <1>4, <1>6, <2>2, <2>3, <2>11, <2>4, <2>5, <2>7, <2>8, <2>9, <2>10, BegunIInv
             DEF dvars, nvars
  <1> QED  BY <1>7, <1>8


\* attach(): the context holds the source too.
LEMMA AttachIInv ==
  ASSUME ~ConnectRaces, IInv, NEW t \in Threads, NEW s \in Sources, Attach(t, s)
  PROVE  IInv'
  <1>1. /\ InUserCode(t) /\ Undisturbed(t, s) /\ t \in holders[s] /\ active[s] /\ ~attached[s]
        /\ attached' = [attached EXCEPT ![s] = TRUE]
        /\ gref' = [gref EXCEPT ![s] = @ + 1]
        /\ UNCHANGED <<kind, gsource, active, callback, cbRef, dvars, wvars, nvars, lvars, conn, cont>>
    BY DEF Attach
  <1>2. SourceOK(s) /\ TypeOK /\ LoopOK /\ NodesOK
    BY DEF IInv
  <1>3. /\ attached'[s] /\ gref'[s] = gref[s] + 1 /\ gref[s] \in Nat
        /\ \A r \in Sources \ {s} : attached'[r] = attached[r] /\ gref'[r] = gref[r]
    BY <1>1, <1>2 DEF TypeOK
  <1>4. SameAccounts(s) /\ \A r \in Sources : DataHeld(r)' <=> DataHeld(r)
    BY <1>1, AccountsKept DEF SameAccounts, DataHeld
  <1>5. TypeOK'
    <2>1. attached' \in [Sources -> BOOLEAN] /\ gref' \in [Sources -> Nat]
      BY <1>1, <1>2 DEF TypeOK
    <2> QED  BY <1>1, <1>2, <2>1 DEF TypeOK, dvars, wvars, nvars, lvars
  <1>6. SourceOK(s)'
    <2>1. /\ Cardinality(GUnrefs(s)) \in Nat /\ Cardinality(GUnrefs2(s)) \in Nat
      <3>1. GUnrefs(s) \subseteq Working(s) /\ GUnrefs2(s) \subseteq Working(s)
        BY DEF GUnrefs, GUnrefs2, Working
      <3>2. IsFiniteSet(Working(s))
        BY <1>2 DEF SourceOK, Counted
      <3> QED  BY <3>1, <3>2, FS_Subset, FS_CardinalityType
    <2>2. gref[s] = GRefs(s) /\ GRefs(s)' = GRefs(s) + 1 /\ gref[s] > 0
      <3>1. /\ B(attached[s] /\ active[s])' = 1 /\ B(attached[s] /\ active[s]) = 0
            /\ B(holders[s] # {})' = B(holders[s] # {}) /\ B(holders[s] # {}) = 1
            /\ B(OnStack(s))' = B(OnStack(s)) /\ B(OnStack(s)) \in Nat
            /\ B(probe.src = s)' = B(probe.src = s) /\ B(probe.src = s) \in Nat
        BY <1>1, <1>3 DEF B, wvars, lvars, OnStack
      <3>2. /\ Cardinality(GUnrefs(s)') = Cardinality(GUnrefs(s))
            /\ Cardinality(GUnrefs2(s)') = Cardinality(GUnrefs2(s))
        BY <1>4 DEF SameAccounts
      <3>3. gref[s] = GRefs(s)
        BY <1>2 DEF SourceOK, Counted
      <3> QED  BY <2>1, <3>1, <3>2, <3>3 DEF GRefs
    <2>3. Counted(s)'
      BY <1>1, <1>2, <1>3, <1>4, <2>2
         DEF SourceOK, Counted, SameAccounts, dvars, wvars, lvars, OnStack, B
    <2>4. GLife(s)'
      <3>1. gref'[s] > 0
        BY <1>3
      <3> QED  BY <1>1, <1>2, <1>4, <2>2, <3>1 DEF SourceOK, GLife, SameAccounts
    <2>5. DataLife(s)'
      BY <1>1, <1>2, <1>4 DEF SourceOK, DataLife, SameAccounts, dvars
    <2>6. WrapperLife(s)' /\ Unborn(s)'
      BY <1>1, <1>2, HeldFacts DEF SourceOK, WrapperLife, Unborn, WrapperKinds, dvars, wvars
    <2> QED  BY <2>3, <2>4, <2>5, <2>6 DEF SourceOK
  <1>7. LoopOK'
    <2>1. \A r \in Sources : attached[r] => attached'[r]
      BY <1>3
    <2> QED  BY <1>1, <1>2, <2>1, LoopKept DEF LoopOK, dvars, lvars
  <1>8. NodesOK'
    BY <1>1, <1>2, <1>4, NodesKept DEF dvars, nvars
  <1>9. \A r \in Sources \ {s} : SameSource(r)
    BY <1>1, <1>3 DEF SameSource, dvars, wvars, lvars, OnStack
  <1>10. ConnsOK'
    <2>1. \A u \in Threads \ {t} : conn[u].src # s
      BY <1>1 DEF Undisturbed
    <2>2. Spares(t, s)
      BY <1>1, <1>9, <2>1 DEF Spares, dvars, wvars, nvars, lvars
    <2> QED  BY <1>1, <2>2, QuietConns DEF InUserCode
  <1> QED  BY <1>1, <1>5, <1>6, <1>7, <1>8, <1>9, <1>10, HeldFacts, QuietIInv DEF dvars, nvars

\* Thread t is going to call g_source_destroy(); nothing else is changed.
LEMMA DestroyBegins ==
  ASSUME IInv, NEW t \in Threads, InUserCode(t), NEW s \in Sources, Start(t, <<"destroy">>, s),
         kind[s] # "none", NotConnecting(s),
         \A r \in Sources : dataNode[r] # NULL /\ connected'[dataNode[r]] => connected[dataNode[r]],
         connected' \in [Nodes -> BOOLEAN], nodeSrc' \in [Nodes -> Sources \cup {NULL}],
         UNCHANGED <<kind, gvars, dvars, wvars, node, lvars>>,
         conn' \in [Threads -> Conn \cup {NoConn}], \A u \in Threads \ {t} : conn'[u] = conn[u],
         \A u \in Threads \ {t} : conn[u].src # s,
         \/ conn'[t] = NoConn /\ t \in holders[s]
         \/ /\ t = Loop /\ conn'[t] = [src |-> s, node |-> NULL, step |-> "destroy"]
            /\ \A u \in Threads \ {t} : ~On(u, s)
            /\ ~ConnectDestroyed => gref[s] > 0,
         (\A r \in Sources : DataHeld(r)' <=> DataHeld(r)) => NodesOK'
  PROVE  IInv'
  <1>1. SourceOK(s) /\ TypeOK /\ LoopOK /\ NodesOK
    BY DEF IInv
  <1>2. PICK p \in Plans : p = <<"destroy">>
    BY ShortPlans DEF AtEnd
  <1>3. cont[t] = <<>> /\ Start(t, p, s)
    BY <1>2 DEF InUserCode
  <1>4. /\ Planned(t, p, s) /\ Tally(t, p, s) /\ Plan(t) = <<>>
        /\ \A r \in Sources \ {s} : SameAccounts(r)
    BY <1>3, Begun
  <1>5. /\ ~Ends(p, "gunref") /\ ~UnrefsTwice(p) /\ ~Ends(p, "gfree") /\ ~Frees(p)
        /\ ~Begins(p, "keep") /\ ~Begins(p, "cbunref") /\ ~Begins(p, "notify") /\ ~Connects(p)
    <2>1. ~Begins(p, "keep") /\ ~Begins(p, "cbunref") /\ ~Begins(p, "notify") /\ ~Connects(p)
      BY <1>2 DEF Begins, Connects
    <2> QED  BY <1>2, <2>1, ShortPlans DEF AtEnd
  <1>6. TypeOK'
    BY <1>1, <1>4 DEF TypeOK, gvars, dvars, wvars, lvars, Planned, ContType, StepType
  <1>7. /\ \A v : v \in Notifies(s)' <=> v \in Notifies(s)
        /\ \A v : v \in GFrees(s)' <=> v \in GFrees(s)
        /\ \A v : v \in DataFrees(s)' <=> v \in DataFrees(s)
        /\ \A r \in Sources : DataHeld(r)' <=> DataHeld(r)
    <2>1. /\ \A v : v \in Notifies(s)' <=> v \in Notifies(s)
          /\ \A v : v \in GFrees(s)' <=> v \in GFrees(s)
          /\ \A v : v \in DataFrees(s)' <=> v \in DataFrees(s)
      BY <1>4, <1>5, NoPlan DEF Tally
    <2>2. DataHeld(s)' <=> DataHeld(s)
      BY <2>1 DEF DataHeld, gvars
    <2>3. \A r \in Sources \ {s} : DataHeld(r)' <=> DataHeld(r)
      BY <1>4 DEF SameAccounts, DataHeld, gvars
    <2> QED  BY <2>1, <2>2, <2>3
  <1>8. SourceOK(s)'
    <2>1. /\ Cardinality(GUnrefs(s)') = Cardinality(GUnrefs(s))
          /\ Cardinality(GUnrefs2(s)') = Cardinality(GUnrefs2(s))
          /\ Cardinality(CbUnrefs(s)') = Cardinality(CbUnrefs(s))
          /\ Cardinality(Keeps(s)') = Cardinality(Keeps(s))
      BY <1>4, <1>5, NoPlan DEF Tally, B
    <2>2. GRefs(s)' = GRefs(s)
      BY <2>1 DEF GRefs, B, gvars, wvars, lvars, OnStack
    <2>3. IsFiniteSet(Working(s)')
      BY <1>4 DEF Tally
    <2>4. Counted(s)'
      BY <1>1, <1>7, <2>1, <2>2, <2>3
         DEF SourceOK, Counted, gvars, dvars, wvars, lvars, OnStack, B
    <2>5. GLife(s)' /\ DataLife(s)'
      BY <1>1, <1>7 DEF SourceOK, GLife, DataLife, gvars, dvars
    <2>6. WrapperLife(s)' /\ Unborn(s)'
      BY <1>1 DEF SourceOK, WrapperLife, Unborn, gvars, dvars, wvars
    <2> QED  BY <2>4, <2>5, <2>6 DEF SourceOK
  <1>9. LoopOK'
    <2>1. probe # NoProbe => cont'[Loop] = <<>>
      BY <1>1, <1>4 DEF InUserCode, LoopOK, Planned, Threads
    <2> QED  BY <1>1, <2>1, LoopKept DEF gvars, dvars, lvars
  <1>10. \A r \in Sources : SameSource(r) /\ dataNode'[r] = dataNode[r]
    BY DEF SameSource, gvars, dvars, wvars, lvars, OnStack
  <1>11. ConnsOK'
    <2>1. /\ \A u \in Threads \ {t} : cont'[u] = cont[u]
          /\ \A r \in Sources \ {s} : ~On(t, r)'
          /\ Plan(t)' = <<"destroy">>
      BY <1>2, <1>4 DEF Planned
    <2>2. \/ ConnOK(t)' /\ conn'[t].src = s /\ conn'[t].step = "destroy"
          \/ conn'[t] = NoConn /\ t \in holders[s]
      <3> SUFFICES ASSUME t = Loop, conn'[t] = [src |-> s, node |-> NULL, step |-> "destroy"],
                          \A u \in Threads \ {t} : ~On(u, s), ~ConnectDestroyed => gref[s] > 0
                   PROVE  ConnOK(t)'
        OBVIOUS
      <3>1. \A u \in Threads \ {t} : ~On(u, s)'
        BY <1>4 DEF Planned
      <3>2. probe' = NoProbe
        BY DEF InUserCode, lvars
      <3> QED  BY <2>1, <3>1, <3>2 DEF ConnOK, gvars
    <2>3. /\ \A i \in DOMAIN stack' : \E j \in DOMAIN stack : stack[j] = stack'[i]
          /\ node' = node /\ holders' = holders /\ probe' = probe
      BY DEF lvars, wvars
    <2>4. On(t, s)' /\ Plan(t)' = <<"destroy">> => Destroyer(t, s)'
      BY <2>2, <2>3 DEF Destroyer
    <2>5. conn'[t].node = NULL
      BY DEF NoConn
    <2> QED  BY <1>1, <1>10, <2>1, <2>2, <2>3, <2>4, <2>5, ConnsKept DEF Leaves, IInv
  <1> QED  BY <1>3, <1>4, <1>5, <1>6, <1>7, <1>8, <1>9, <1>10, <1>11, BegunIInv

\* destroy().
LEMMA DestroyIInv ==
  ASSUME ~ConnectRaces, IInv, NEW t \in Threads, NEW s \in Sources, Destroy(t, s)
  PROVE  IInv'
  <1>1. /\ InUserCode(t) /\ t \in holders[s] /\ Undisturbed(t, s)
        /\ Start(t, <<"destroy">>, s)
        /\ UNCHANGED <<kind, gvars, dvars, wvars, nvars, lvars, conn>>
    BY DEF Destroy
  <1>2. TypeOK /\ NodesOK
    BY DEF IInv
  <1>3. (\A r \in Sources : DataHeld(r)' <=> DataHeld(r)) => NodesOK'
    BY <1>1, <1>2, NodesKept DEF dvars, nvars
  <1>4. connected' \in [Nodes -> BOOLEAN] /\ nodeSrc' \in [Nodes -> Sources \cup {NULL}]
    BY <1>1, <1>2 DEF TypeOK, nvars
  <1>5. /\ conn' \in [Threads -> Conn \cup {NoConn}] /\ conn'[t] = NoConn
        /\ \A u \in Threads \ {t} : conn'[u] = conn[u] /\ conn[u].src # s
    BY <1>1, <1>2 DEF TypeOK, InUserCode, Undisturbed
  <1> QED  BY <1>1, <1>3, <1>4, <1>5, HeldFacts, DestroyBegins DEF nvars

\* A slot is disconnected, which destroys its source.
LEMMA DisconnectIInv ==
  ASSUME ~ConnectRaces, IInv, NEW n \in Nodes, Disconnect(n)
  PROVE  IInv'
  <1>1. /\ InUserCode(Loop) /\ node[n] = "live" /\ connected[n]
        /\ connected' = [connected EXCEPT ![n] = FALSE]
        /\ nodeSrc' = [nodeSrc EXCEPT ![n] = NULL]
        /\ nodeSrc[n] # NULL =>
             /\ Alone(Loop, nodeSrc[n])
             /\ conn' = [conn EXCEPT ![Loop] =
                          [src |-> nodeSrc[n], node |-> NULL, step |-> "destroy"]]
             /\ Start(Loop, <<"destroy">>, nodeSrc[n])
        /\ nodeSrc[n] = NULL => conn' = conn /\ cont' = cont
        /\ UNCHANGED <<kind, gvars, dvars, wvars, node, lvars>>
    BY DEF Disconnect
  <1>2. TypeOK /\ LoopOK /\ NodesOK /\ Connecting /\ Loop \in Threads
    BY DEF IInv, Threads
  <1>3. \A r \in Sources : dataNode[r] # NULL /\ connected'[dataNode[r]] => connected[dataNode[r]]
    <2> SUFFICES ASSUME NEW r \in Sources, dataNode[r] # NULL, connected'[dataNode[r]]
                 PROVE  connected[dataNode[r]]
      OBVIOUS
    <2>1. dataNode[r] \in Nodes
      BY <1>2 DEF TypeOK
    <2> QED  BY <1>1, <1>2, <2>1 DEF TypeOK
  <1>4. connected' \in [Nodes -> BOOLEAN] /\ nodeSrc' \in [Nodes -> Sources \cup {NULL}]
    BY <1>1, <1>2 DEF TypeOK
  <1>8. /\ conn' \in [Threads -> Conn \cup {NoConn}]
        /\ conn[Loop] = NoConn /\ cont[Loop] = <<>>
        /\ \A u \in Threads \ {Loop} : conn'[u] = conn[u]
        /\ \A u \in Threads : conn[u].step = "set_node" => conn'[u] = conn[u]
    <2>1. nodeSrc[n] \in Sources \cup {NULL}
      BY <1>2 DEF TypeOK
    <2>2. conn[Loop] = NoConn /\ cont[Loop] = <<>>
      BY <1>1 DEF InUserCode
    <2>3. /\ conn' \in [Threads -> Conn \cup {NoConn}]
          /\ \A u \in Threads \ {Loop} : conn'[u] = conn[u]
      <3>1. conn \in [Threads -> Conn \cup {NoConn}]
        BY <1>2 DEF TypeOK
      <3>2. CASE nodeSrc[n] = NULL
        BY <1>1, <3>1, <3>2
      <3>3. CASE nodeSrc[n] # NULL
        <4>1. [src |-> nodeSrc[n], node |-> NULL, step |-> "destroy"] \in Conn
          BY <2>1, <3>3 DEF Conn
        <4> QED  BY <1>1, <3>1, <3>3, <4>1
      <3> QED  BY <3>2, <3>3
    <2>4. conn[Loop].step # "set_node"
      BY <2>2 DEF NoConn
    <2> QED  BY <2>2, <2>3, <2>4
  <1>5. ASSUME \A r \in Sources : DataHeld(r)' <=> DataHeld(r) PROVE NodesOK'
    <2>1. OneOwner' /\ \A r \in Sources : NodeOf(r)'
      BY <1>1, <1>2, <1>5 DEF NodesOK, OneOwner, NodeOf, dvars
    <2>2. ASSUME NEW m \in Nodes PROVE BackRef(m)'
      <3>1. /\ nodeSrc'[m] = IF m = n THEN NULL ELSE nodeSrc[m]
            /\ connected'[m] => connected[m]
        BY <1>1, <1>2 DEF TypeOK
      <3>2. CASE m = n
        BY <1>1, <1>2, <1>8, <3>1, <3>2 DEF NodesOK, BackRef, dvars
      <3>3. CASE m # n
        BY <1>1, <1>2, <1>8, <3>1, <3>3 DEF NodesOK, BackRef, dvars
      <3> QED  BY <3>2, <3>3
    <2> QED  BY <2>1, <2>2 DEF NodesOK
  <1>6. CASE nodeSrc[n] # NULL
    <2>1. PICK s \in Sources : s = nodeSrc[n]
      BY <1>2, <1>6 DEF TypeOK
    <2>2. kind[s] # "none" /\ Start(Loop, <<"destroy">>, s)
      BY <1>1, <1>2, <1>6, <2>1 DEF NodesOK, BackRef
    <2>3. NotConnecting(s)
      <3>1. CASE dataNode[s] = n
        <4>1. \A u \in Threads : On(u, s) /\ Connects(Plan(u)) => u = Loop
          BY <1>1, <1>2, <3>1 DEF Connecting, Untouched
        <4>2. ~On(Loop, s)
          BY <1>1 DEF InUserCode, On
        <4> QED  BY <4>1, <4>2 DEF NotConnecting
      <3>2. CASE dataNode[s] # n
        <4>1. kind[s] \in WrapperKinds
          BY <1>1, <1>2, <1>6, <2>1, <3>2 DEF NodesOK, BackRef
        <4> QED  BY <4>1, WhoConnects
      <3> QED  BY <3>1, <3>2
    <2>4. \A u \in Threads \ {Loop} : conn[u].src # s /\ ~On(u, s)
      BY <1>1, <1>6, <2>1 DEF Alone, Undisturbed
    <2>5. ASSUME ~ConnectDestroyed PROVE gref[s] > 0
      <3>1. n = dataNode[s] /\ n # NULL /\ SourceOK(s)
        BY <1>1, <1>2, <1>6, <2>1, <2>5, SourceAssumption DEF NodesOK, BackRef, IInv
      <3>2. DataHeld(s)
        BY <1>1, <1>2, <3>1 DEF NodesOK, NodeOf
      <3>3. gsource[s] = "live"
        BY <3>2, HeldAlive
      <3>4. GFrees(s) = {}
        BY <1>8, <2>4 DEF GFrees, On
      <3> QED  BY <3>1, <3>3, <3>4 DEF SourceOK, GLife
    <2>6. conn'[Loop] = [src |-> s, node |-> NULL, step |-> "destroy"]
      BY <1>1, <1>2, <1>6, <2>1 DEF TypeOK
    <2> QED  BY <1>1, <1>2, <1>3, <1>4, <1>5, <1>8, <2>2, <2>3, <2>4, <2>5, <2>6, DestroyBegins
  <1>7. CASE nodeSrc[n] = NULL
    <2>1. cont' = cont
      BY <1>1, <1>7
    <2>2. \A r \in Sources : SameSource(r) /\ SameAccounts(r)
      BY <1>1, <2>1, AccountsKept DEF SameSource, gvars, dvars, wvars, lvars, OnStack
    <2>3. \A r \in Sources : SourceOK(r)'
      BY <2>2, SourceKept DEF IInv
    <2>4. \A r \in Sources : DataHeld(r)' <=> DataHeld(r)
      BY <1>1, <2>2 DEF SameAccounts, DataHeld, gvars
    <2>5. NodesOK'
      BY <1>5, <2>4
    <2>6. TypeOK'
      BY <1>1, <1>2, <1>4, <1>8, <2>1 DEF TypeOK, gvars, dvars, wvars, lvars
    <2>7. LoopOK'
      BY <1>1, <1>2, <2>1, LoopKept DEF LoopOK, gvars, dvars, lvars
    <2>8. PlansOK'
      BY <1>1, <2>1, PlansKept DEF IInv
    <2>9. Connecting'
      <3> SUFFICES ASSUME NEW u \in Threads, NEW r \in Sources, On(u, r)', Connects(Plan(u)')
                   PROVE  Untouched(u, r)'
        BY DEF Connecting
      <3>1. \A v \in Threads : (On(v, r)' <=> On(v, r)) /\ Plan(v)' = Plan(v)
        BY <2>1 DEF On, Src, Plan
      <3>2. Untouched(u, r)
        BY <1>2, <3>1 DEF Connecting
      <3> QED  BY <1>1, <1>3, <3>1, <3>2 DEF Untouched, gvars, dvars
    <2>10. ConnsOK'
      <3>1. \A v \in Threads : Plan(v)' = Plan(v) /\ \A r : On(v, r)' <=> On(v, r)
        BY <2>1 DEF Plan, On, Src
      <3>2. conn' = conn
        BY <1>1, <1>7
      <3> QED  BY <1>1, <2>1, <3>1, <3>2
               DEF IInv, ConnsOK, ConnOK, Destroyer, Loose, gvars, dvars, wvars, lvars
    <2> QED  BY <2>3, <2>5, <2>6, <2>7, <2>8, <2>9, <2>10 DEF IInv
  <1> QED  BY <1>6, <1>7

\* connect_generic() makes a node and looks for the callback data.
LEMMA ConnectIInv ==
  ASSUME ~ConnectRaces, IInv, NEW t \in Threads, NEW s \in Sources, NEW n \in Nodes,
         Connect(t, s, n)
  PROVE  IInv'
  <1>1. /\ InUserCode(t) /\ t \in holders[s] /\ node[n] = "unborn"
        /\ attached[s] => t = Loop
        /\ \A u \in Threads \ {t} : ~On(u, s) /\ conn[u].src # s
        /\ node' = [node EXCEPT ![n] = "live"]
        /\ connected' = [connected EXCEPT ![n] = TRUE]
        /\ UNCHANGED <<kind, gvars, dvars, wvars, nodeSrc, lvars, cont>>
    BY DEF Connect, Alone, Undisturbed
  <1>2. PICK step \in {"set_node", "install"} :
          /\ conn' = [conn EXCEPT ![t] = [src |-> s, node |-> n, step |-> step]]
          /\ step = "install" => ConnectDestroyed
          /\ step = "set_node" =>
               callback[s] /\ (ReconnectInSlot \/ dataNode[s] = NULL \/ ~Running(dataNode[s]))
    BY DEF Connect, GetCallbackData
  <1>3. SourceOK(s) /\ TypeOK /\ LoopOK /\ NodesOK /\ n # NULL
    BY SourceAssumption DEF IInv
  <1>4. kind[s] \in WrapperKinds /\ kind[s] # "none" /\ NotConnecting(s)
    BY <1>1, HeldFacts
  <1>5. \A r \in Sources : dataNode[r] # n
    BY <1>1, <1>3 DEF NodesOK, NodeOf
  <1>6. \A r \in Sources : SameAccounts(r) /\ SameSource(r) /\ (DataHeld(r)' <=> DataHeld(r))
    BY <1>1, AccountsKept
       DEF SameSource, SameAccounts, DataHeld, gvars, dvars, wvars, lvars, OnStack
  <1>7. SourceOK(s)'
    BY <1>3, <1>6, SourceKept
  <1>8. /\ conn[t] = NoConn /\ cont[t] = <<>>
        /\ conn'[t] = [src |-> s, node |-> n, step |-> step]
        /\ \A u \in Threads \ {t} : conn'[u] = conn[u]
        /\ conn' \in [Threads -> Conn \cup {NoConn}]
    BY <1>1, <1>2, <1>3 DEF InUserCode, TypeOK, Conn
  <1>9. /\ \A m \in Nodes : node'[m] = IF m = n THEN "live" ELSE node[m]
        /\ \A m \in Nodes \ {n} : connected'[m] = connected[m]
    BY <1>1, <1>3 DEF TypeOK
  <1>10. TypeOK'
    <2>1. node' \in [Nodes -> {"unborn", "live", "deleted"}] /\ connected' \in [Nodes -> BOOLEAN]
      BY <1>1, <1>3 DEF TypeOK
    <2> QED  BY <1>1, <1>3, <1>8, <2>1 DEF TypeOK, gvars, dvars, wvars, lvars
  <1>11. \A r \in Sources : dataNode[r] # NULL => connected'[dataNode[r]] = connected[dataNode[r]]
    <2> SUFFICES ASSUME NEW r \in Sources, dataNode[r] # NULL
                 PROVE  connected'[dataNode[r]] = connected[dataNode[r]]
      OBVIOUS
    <2>1. dataNode[r] \in Nodes \ {n}
      BY <1>3, <1>5 DEF TypeOK
    <2> QED  BY <1>9, <2>1
  <1>12. LoopOK'
    BY <1>1, <1>3 DEF LoopOK, gvars, dvars, lvars
  <1>13. NodesOK'
    <2>1. OneOwner'
      BY <1>1, <1>3 DEF NodesOK, OneOwner, dvars
    <2>2. ASSUME NEW r \in Sources PROVE NodeOf(r)'
      <3>1. dataNode[r] # NULL => dataNode[r] \in Nodes /\ dataNode[r] # n
        BY <1>3, <1>5 DEF TypeOK
      <3> QED  BY <1>1, <1>3, <1>6, <1>9, <3>1 DEF NodesOK, NodeOf, dvars
    <2>3. ASSUME NEW m \in Nodes PROVE BackRef(m)'
      <3>1. CASE m = n
        <4>1. nodeSrc[n] = NULL
          BY <1>1, <1>3 DEF NodesOK, BackRef
        <4>2. ConnectDestroyed \/ (conn'[t].step = "set_node" /\ conn'[t].node = n)
          BY <1>2, <1>8
        <4> QED  BY <1>1, <1>9, <3>1, <4>1, <4>2 DEF BackRef
      <3>2. CASE m # n
        <4>1. \A u \in Threads : conn[u].step = "set_node" => conn'[u] = conn[u]
          BY <1>8 DEF NoConn
        <4>2. node'[m] = node[m] /\ connected'[m] = connected[m]
          BY <1>9, <3>2
        <4>3. nodeSrc[m] # NULL => nodeSrc[m] \in Sources
          BY <1>3 DEF TypeOK
        <4>4. BackRef(m)
          BY <1>3 DEF NodesOK
        <4>5. dataNode' = dataNode /\ nodeSrc' = nodeSrc /\ kind' = kind
          BY <1>1 DEF dvars
        <4> QED  BY <4>1, <4>2, <4>3, <4>4, <4>5 DEF BackRef
      <3> QED  BY <3>1, <3>2
    <2> QED  BY <2>1, <2>2, <2>3 DEF NodesOK
  <1>14. ConnOK(t)'
    <2>1. \A u \in Threads \ {t} : ~On(u, s)' /\ conn'[u].src # s
      BY <1>1, <1>8 DEF On, Src
    <2>2. ASSUME NEW u \in Threads \ {t} PROVE conn[u].node # n
      <3>1. conn[u] = NoConn \/ ConnOK(u)
        BY DEF IInv, ConnsOK
      <3> QED  BY <1>1, <1>3, <3>1 DEF NoConn, ConnOK
    <2>3. step = "set_node" => Loose(n)'
      BY <1>1, <1>5, <1>9 DEF Loose, dvars
    <2>4. ASSUME step = "set_node", ~ReconnectInSlot, NEW i \in DOMAIN stack, stack[i].src = s
          PROVE  stack[i].node = NULL
      <3>1. stack[i].node # NULL => dataNode[s] = stack[i].node
        BY <1>3, <2>4 DEF LoopOK
      <3> QED  BY <1>2, <2>4, <3>1 DEF Running
    <2>5. t = Loop => probe' = NoProbe
      BY <1>1 DEF InUserCode, lvars
    <2>6. node'[n] # "unborn"
      BY <1>9
    <2>7. cont'[t] = <<>> /\ t \in holders'[s] /\ attached'[s] = attached[s] /\ kind'[s] # "none"
          /\ callback'[s] = callback[s] /\ stack' = stack
      BY <1>1, <1>4, <1>8 DEF gvars, wvars, lvars
    <2> QED  BY <1>1, <1>2, <1>3, <1>8, <2>1, <2>2, <2>3, <2>4, <2>5, <2>6, <2>7 DEF ConnOK
  <1>15. ConnsOK'
    <2>1. \A r : ~On(t, r)'
      BY <1>1, <1>8 DEF On
    <2>2. \A i \in DOMAIN stack' : \E j \in DOMAIN stack : stack[j] = stack'[i]
      BY <1>1 DEF lvars
    <2> QED  BY <1>1, <1>3, <1>6, <1>8, <1>9, <1>14, <2>1, <2>2, ConnsKept
             DEF Leaves, IInv, dvars, wvars, lvars
  <1> QED  BY <1>1, <1>4, <1>6, <1>7, <1>10, <1>11, <1>12, <1>13, <1>15, QuietIInv DEF dvars

\* What a thread that is connecting a slot may rely on.
LEMMA ConnFacts ==
  ASSUME IInv, NEW t \in Threads, conn[t].step \in {"set_node", "install"}
  PROVE  /\ conn[t] # NoConn /\ ConnOK(t)
         /\ conn[t].src \in Sources /\ conn[t].node \in Nodes /\ conn[t].node # NULL
         /\ cont[t] = <<>> /\ t \in holders[conn[t].src]
         /\ kind[conn[t].src] \in WrapperKinds /\ NotConnecting(conn[t].src)
  <1>1. conn[t] # NoConn /\ ConnOK(t)
    BY DEF NoConn, IInv, ConnsOK
  <1>2. conn[t].src \in Sources /\ conn[t].node \in Nodes /\ conn[t].node # NULL
        /\ cont[t] = <<>> /\ t \in holders[conn[t].src]
    BY <1>1 DEF ConnOK, IInv, TypeOK, Conn
  <1> QED  BY <1>1, <1>2, HeldFacts

\* set_node() registers the node with the callback data, instead of another one.
LEMMA SetNodeIInv ==
  ASSUME IInv, NEW t \in Threads, SetNode(t)
  PROVE  IInv'
  <1>1. PICK s \in Sources, n \in Nodes :
          /\ s = conn[t].src /\ n = conn[t].node /\ n # NULL /\ conn[t].step = "set_node"
          /\ cont[t] = <<>> /\ t \in holders[s] /\ kind[s] \in WrapperKinds /\ kind[s] # "none"
          /\ NotConnecting(s) /\ ConnOK(t)
    BY ConnFacts DEF SetNode, WrapperKinds
  <1>2. /\ dataNode' = [dataNode EXCEPT ![s] = n]
        /\ node' = [m \in Nodes |-> IF m = dataNode[s] THEN "deleted" ELSE node[m]]
        /\ nodeSrc' = [m \in Nodes |-> IF m = dataNode[s] THEN NULL ELSE nodeSrc[m]]
        /\ conn' = [conn EXCEPT ![t].step = "install"]
        /\ UNCHANGED <<kind, gvars, data, owns, wvars, connected, lvars, cont>>
    BY <1>1 DEF SetNode
  <1>3. SourceOK(s) /\ TypeOK /\ LoopOK /\ NodesOK
    BY DEF IInv
  <1>4. /\ node[n] = "live" /\ \A r \in Sources : dataNode[r] # n
        /\ callback[s]
        /\ ~ReconnectInSlot => \A i \in DOMAIN stack : stack[i].src = s => stack[i].node = NULL
    BY <1>1 DEF ConnOK, Loose
  <1>5. /\ dataNode'[s] = n /\ \A r \in Sources \ {s} : dataNode'[r] = dataNode[r]
        /\ \A m \in Nodes : /\ m = dataNode[s] => node'[m] = "deleted" /\ nodeSrc'[m] = NULL
                            /\ m # dataNode[s] => node'[m] = node[m] /\ nodeSrc'[m] = nodeSrc[m]
    BY <1>2, <1>3 DEF TypeOK
  <1>6. /\ conn[t] = [src |-> s, node |-> n, step |-> "set_node"]
        /\ conn'[t] = [src |-> s, node |-> n, step |-> "install"]
        /\ \A u \in Threads \ {t} : conn'[u] = conn[u]
        /\ conn' \in [Threads -> Conn \cup {NoConn}]
    <2>1. conn[t] \in Conn
      BY <1>1, <1>3 DEF TypeOK, NoConn
    <2>2. conn[t] = [src |-> s, node |-> n, step |-> "set_node"]
      BY <1>1, <2>1 DEF Conn
    <2>3. conn'[t] = [src |-> s, node |-> n, step |-> "install"]
      <3>1. conn'[t] = [conn[t] EXCEPT !.step = "install"]
        BY <1>2, <1>3 DEF TypeOK
      <3> QED  BY <2>2, <3>1
    <2>4. \A u \in Threads \ {t} : conn'[u] = conn[u]
      BY <1>2, <1>3 DEF TypeOK
    <2>5. conn' \in [Threads -> Conn \cup {NoConn}]
      <3>1. conn' = [u \in Threads |-> conn'[u]]
        BY <1>2, <1>3 DEF TypeOK
      <3>2. conn'[t] \in Conn
        BY <2>3 DEF Conn
      <3>3. \A u \in Threads \ {t} : conn[u] \in Conn \cup {NoConn}
        BY <1>3 DEF TypeOK
      <3> QED  BY <2>4, <3>1, <3>2, <3>3
    <2> QED  BY <2>2, <2>3, <2>4, <2>5
  <1>7. \A r \in Sources : SameAccounts(r) /\ SameSource(r) /\ (DataHeld(r)' <=> DataHeld(r))
    BY <1>2, AccountsKept
       DEF SameSource, SameAccounts, DataHeld, gvars, wvars, lvars, OnStack
  <1>8. SourceOK(s)'
    BY <1>3, <1>7, SourceKept
  <1>9. DataHeld(s)
    BY <1>4, CallbackHolds
  <1>10. TypeOK'
    <2>1. dataNode' \in [Sources -> Nodes \cup {NULL}]
      BY <1>2, <1>3 DEF TypeOK
    <2>2. node' \in [Nodes -> {"unborn", "live", "deleted"}]
      BY <1>2, <1>3 DEF TypeOK
    <2>3. nodeSrc' \in [Nodes -> Sources \cup {NULL}]
      BY <1>2, <1>3 DEF TypeOK
    <2> QED  BY <1>2, <1>3, <1>6, <2>1, <2>2, <2>3 DEF TypeOK, gvars, wvars, lvars
  <1>11. LoopOK'
    <2>1. ASSUME NEW i \in DOMAIN stack, stack[i].node # NULL, ~ReconnectInSlot
          PROVE  dataNode'[stack[i].src] = stack[i].node
      <3>1. stack[i].src \in Sources /\ dataNode[stack[i].src] = stack[i].node
        BY <1>3, <2>1, FrameType DEF LoopOK
      <3>2. stack[i].src # s
        BY <1>4, <2>1
      <3> QED  BY <1>5, <3>1, <3>2
    <2> QED  BY <1>2, <1>3, <2>1 DEF LoopOK, gvars, lvars
  <1>12. NodesOK'
    <2>1. OneOwner'
      BY <1>1, <1>3, <1>4, <1>5 DEF NodesOK, OneOwner
    <2>2. ASSUME NEW r \in Sources PROVE NodeOf(r)'
      <3>1. CASE r = s
        BY <1>1, <1>2, <1>4, <1>5, <1>7, <1>9, <3>1 DEF NodeOf
      <3>2. CASE r # s
        <4>1. dataNode[r] # NULL => dataNode[r] \in Nodes /\ dataNode[r] # dataNode[s]
          BY <1>3, <3>2 DEF TypeOK, NodesOK, OneOwner
        <4> QED  BY <1>2, <1>3, <1>5, <1>7, <3>2, <4>1 DEF NodesOK, NodeOf
      <3> QED  BY <3>1, <3>2
    <2>3. ASSUME NEW m \in Nodes PROVE BackRef(m)'
      <3>1. nodeSrc[m] # NULL => nodeSrc[m] \in Sources
        BY <1>3 DEF TypeOK
      <3>2. CASE m = dataNode[s]
        BY <1>5, <3>2 DEF BackRef
      <3>3. CASE m = n
        <4>1. node'[n] = "live" /\ nodeSrc'[n] = nodeSrc[n]
          BY <1>4, <1>5
        <4> QED  BY <1>2, <1>3, <1>4, <1>5, <3>1, <3>3, <4>1 DEF NodesOK, BackRef
      <3>4. CASE m # dataNode[s] /\ m # n
        <4>1. node'[m] = node[m] /\ nodeSrc'[m] = nodeSrc[m] /\ connected'[m] = connected[m]
          BY <1>2, <1>5, <3>4
        <4>2. \A r \in Sources : dataNode[r] = m => dataNode'[r] = m
          BY <1>5, <3>4
        <4>3. \A u \in Threads : conn[u].node = m => conn'[u] = conn[u]
          BY <1>6, <3>4
        <4>4. BackRef(m) /\ kind' = kind
          BY <1>2, <1>3 DEF NodesOK
        <4>5. dataNode[nodeSrc[m]] = m /\ nodeSrc[m] # NULL => dataNode'[nodeSrc[m]] = m
          BY <3>1, <4>2
        <4> QED  BY <3>1, <4>1, <4>2, <4>3, <4>4, <4>5 DEF BackRef
      <3> QED  BY <3>2, <3>3, <3>4
    <2> QED  BY <2>1, <2>2, <2>3 DEF NodesOK
  <1>13. ConnOK(t)'
    <2>1. \A u \in Threads \ {t} : ~On(u, s)' /\ conn'[u].src # s /\ conn'[u].node # n
      BY <1>1, <1>2, <1>6 DEF ConnOK, On, Src
    <2>2. node'[n] # "unborn"
      BY <1>4, <1>5
    <2>3. t = Loop => probe' = NoProbe
      BY <1>1, <1>2 DEF ConnOK, lvars
    <2>4. cont'[t] = <<>> /\ t \in holders'[s] /\ attached'[s] = attached[s] /\ kind'[s] # "none"
          /\ callback'[s]
      BY <1>1, <1>2, <1>4 DEF gvars, wvars
    <2> QED  BY <1>1, <1>5, <1>6, <2>1, <2>2, <2>3, <2>4 DEF ConnOK
  <1>14. ConnsOK'
    <2>1. \A r : ~On(t, r)'
      BY <1>1, <1>2 DEF On
    <2>2. \A i \in DOMAIN stack' : \E j \in DOMAIN stack : stack[j] = stack'[i]
      BY <1>2 DEF lvars
    <2>3. \A u \in Threads \ {t} : conn[u].src # s
      BY <1>1 DEF ConnOK
    <2>4. \A m \in Nodes : node[m] # "unborn" => node'[m] # "unborn"
      BY <1>5
    <2> QED  BY <1>2, <1>3, <1>5, <1>6, <1>7, <1>13, <2>1, <2>2, <2>3, <2>4, ConnsKept
             DEF Leaves, IInv, wvars, lvars
  <1> QED  BY <1>1, <1>2, <1>5, <1>7, <1>8, <1>10, <1>11, <1>12, <1>14, QuietIInv

\* install(): the node points to the source.
LEMMA InstallNodeIInv ==
  ASSUME IInv, NEW t \in Threads, InstallNode(t)
  PROVE  IInv'
  <1>1. PICK s \in Sources, n \in Nodes :
          /\ s = conn[t].src /\ n = conn[t].node /\ n # NULL /\ conn[t].step = "install"
          /\ cont[t] = <<>> /\ t \in holders[s] /\ kind[s] \in WrapperKinds /\ kind[s] # "none"
          /\ NotConnecting(s) /\ ConnOK(t)
    BY ConnFacts DEF InstallNode, WrapperKinds
  <1>2. /\ nodeSrc' = [nodeSrc EXCEPT ![n] = s]
        /\ conn' = [conn EXCEPT ![t] = NoConn]
        /\ UNCHANGED <<kind, gvars, dvars, wvars, node, connected, lvars, cont>>
    BY <1>1 DEF InstallNode
  <1>3. SourceOK(s) /\ TypeOK /\ LoopOK /\ NodesOK
    BY DEF IInv
  <1>4. /\ conn'[t] = NoConn /\ \A u \in Threads \ {t} : conn'[u] = conn[u]
        /\ conn' \in [Threads -> Conn \cup {NoConn}]
        /\ nodeSrc' \in [Nodes -> Sources \cup {NULL}]
        /\ \A m \in Nodes : nodeSrc'[m] = IF m = n THEN s ELSE nodeSrc[m]
    BY <1>2, <1>3 DEF TypeOK
  <1>5. \A r \in Sources : SameAccounts(r) /\ SameSource(r) /\ (DataHeld(r)' <=> DataHeld(r))
    BY <1>2, AccountsKept
       DEF SameSource, SameAccounts, DataHeld, gvars, dvars, wvars, lvars, OnStack
  <1>6. SourceOK(s)'
    BY <1>3, <1>5, SourceKept
  <1>7. TypeOK'
    BY <1>2, <1>3, <1>4 DEF TypeOK, gvars, dvars, wvars, lvars
  <1>8. LoopOK'
    BY <1>2, <1>3 DEF LoopOK, gvars, dvars, lvars
  <1>9. NodesOK'
    <2>1. OneOwner' /\ \A r \in Sources : NodeOf(r)'
      BY <1>2, <1>3, <1>5 DEF NodesOK, OneOwner, NodeOf, dvars
    <2>2. ASSUME NEW m \in Nodes PROVE BackRef(m)'
      <3>1. \A u \in Threads : conn[u].step = "set_node" => conn'[u] = conn[u]
        BY <1>1, <1>4
      <3>2. CASE m = n
        <4>1. ConnectDestroyed \/ dataNode[s] = n
          BY <1>1 DEF ConnOK
        <4>2. node[n] # "unborn"
          BY <1>1 DEF ConnOK
        <4> QED  BY <1>1, <1>2, <1>3, <1>4, <3>2, <4>1, <4>2 DEF NodesOK, BackRef, dvars
      <3>3. CASE m # n
        BY <1>2, <1>3, <1>4, <3>1, <3>3 DEF NodesOK, BackRef, dvars
      <3> QED  BY <3>2, <3>3
    <2> QED  BY <2>1, <2>2 DEF NodesOK
  <1>10. ConnsOK'
    <2>1. \A r : ~On(t, r)'
      BY <1>1, <1>2 DEF On
    <2>2. \A i \in DOMAIN stack' : \E j \in DOMAIN stack : stack[j] = stack'[i]
      BY <1>2 DEF lvars
    <2>3. \A u \in Threads \ {t} : conn[u].src # s
      BY <1>1 DEF ConnOK
    <2>4. conn'[t].node = NULL
      BY <1>4 DEF NoConn
    <2> QED  BY <1>2, <1>3, <1>4, <1>5, <2>1, <2>2, <2>3, <2>4, ConnsKept
             DEF Leaves, IInv, dvars, wvars, lvars
  <1> QED  BY <1>1, <1>2, <1>5, <1>6, <1>7, <1>8, <1>9, <1>10, QuietIInv DEF dvars

-----------------------------------------------------------------------------
(* New sources.                                                            *)

\* Nobody knows a source that has not been made.
LEMMA UnbornFacts ==
  ASSUME IInv, NEW s \in Sources, kind[s] = "none"
  PROVE  /\ \A u \in Threads : ~On(u, s)
         /\ Working(s) = {} /\ GUnrefs(s) = {} /\ GUnrefs2(s) = {} /\ GFrees(s) = {}
         /\ CbUnrefs(s) = {} /\ Notifies(s) = {} /\ Keeps(s) = {} /\ DataFrees(s) = {}
         /\ NotConnecting(s) /\ ~OnStack(s) /\ probe.src # s
         /\ ~active[s] /\ ~attached[s] /\ holders[s] = {} /\ refCount[s] = 0 /\ ~owns[s]
         /\ keep[s] = 0 /\ wrapper[s] # "live" /\ dataNode[s] = NULL
         /\ \A n \in Nodes : nodeSrc[n] # s
  <1>1. SourceOK(s) /\ TypeOK /\ LoopOK /\ NodesOK
    BY DEF IInv
  <1>2. /\ Working(s) = {} /\ gref[s] = 0 /\ cbRef[s] = 0 /\ keep[s] = 0
        /\ ~active[s] /\ ~attached[s]
    BY <1>1 DEF SourceOK, Unborn
  <1>3. /\ \A u \in Threads : ~On(u, s)
        /\ Working(s) = {} /\ GUnrefs(s) = {} /\ GUnrefs2(s) = {} /\ GFrees(s) = {}
        /\ CbUnrefs(s) = {} /\ Notifies(s) = {} /\ Keeps(s) = {} /\ DataFrees(s) = {}
    BY <1>2 DEF Working, GUnrefs, GUnrefs2, GFrees, CbUnrefs, Notifies, Keeps, DataFrees
  <1>4. NotConnecting(s)
    BY WhoConnects
  <1>5. ~OnStack(s)
    BY <1>1, <1>2 DEF OnStack, LoopOK
  <1>6. probe.src # s
    BY <1>1, SourceAssumption DEF LoopOK, NoProbe
  <1>7. holders[s] = {} /\ ~owns[s]
    BY <1>1 DEF SourceOK, WrapperLife, WrapperKinds
  <1>8. refCount[s] = 0
    BY <1>1, <1>7, FS_EmptySet DEF SourceOK, Counted
  <1>9. wrapper[s] # "live"
    BY <1>1, <1>2 DEF SourceOK, WrapperLife
  <1>10. dataNode[s] = NULL
    BY <1>1 DEF NodesOK, NodeOf
  <1>11. \A n \in Nodes : nodeSrc[n] # s
    BY <1>1, SourceAssumption DEF NodesOK, BackRef
  <1> QED  BY <1>2, <1>3, <1>4, <1>5, <1>6, <1>7, <1>8, <1>9, <1>10, <1>11

\* A new source with a callback, which thread t makes and goes on to unreference.
LEMMA NewSource ==
  ASSUME IInv, NEW s \in Sources, kind[s] = "none", NEW t \in Threads, NEW p \in Plans,
         Tally(t, p, s), Plan(t) = <<>>,
         Ends(p, "gunref"), ~UnrefsTwice(p), ~Frees(p),
         ~Ends(p, "gfree"), ~Begins(p, "notify"), ~Begins(p, "cbunref"),
         kind'[s] # "none", gsource'[s] = "live",
         active'[s], callback'[s], cbRef'[s] = 1, data'[s] = "live",
         stack' = stack, probe' = probe, holders'[s] = {}, refCount'[s] = 0,
         gref'[s] = 1 + B(attached'[s]),
         keep'[s] = B(owns'[s]) + B(Begins(p, "keep")),
         wrapper'[s] = "live" <=> keep'[s] > 0,
         kind'[s] \notin WrapperKinds => ~owns'[s],
         kind'[s] \in WrapperKinds /\ ~owns'[s] => ~attached'[s]
  PROVE  SourceOK(s)'
  <1>1. /\ GUnrefs(s) = {} /\ GUnrefs2(s) = {} /\ GFrees(s) = {}
        /\ CbUnrefs(s) = {} /\ Notifies(s) = {} /\ Keeps(s) = {} /\ DataFrees(s) = {}
        /\ ~OnStack(s) /\ probe.src # s
    BY UnbornFacts
  <1>2. /\ Cardinality(GUnrefs(s)') = 1 /\ Cardinality(GUnrefs2(s)') = 0
        /\ Cardinality(CbUnrefs(s)') = 0 /\ Cardinality(Keeps(s)') = B(Begins(p, "keep"))
    <2>1. /\ Cardinality(GUnrefs(s)) = 0 /\ Cardinality(GUnrefs2(s)) = 0
          /\ Cardinality(CbUnrefs(s)) = 0 /\ Cardinality(Keeps(s)) = 0
      BY <1>1, FS_EmptySet
    <2> QED  BY <2>1, NoPlan DEF Tally, B
  <1>3. GFrees(s)' = {} /\ Notifies(s)' = {} /\ DataFrees(s)' = {} /\ IsFiniteSet(Working(s)')
    BY <1>1 DEF Tally
  <1>4. DataHeld(s)' /\ ~OnStack(s)' /\ (probe.src # s)'
    BY <1>1 DEF DataHeld, OnStack
  <1>5. Counted(s)'
    <2>1. gref'[s] = GRefs(s)'
      <3>1. B(attached[s] /\ active[s])' = B(attached'[s])
        BY DEF B
      <3>2. B(holders[s] # {})' = 0 /\ B(OnStack(s))' = 0 /\ B(probe.src = s)' = 0
        BY <1>4 DEF B
      <3>3. B(attached'[s]) \in Nat
        BY DEF B
      <3> QED  BY <1>2, <3>1, <3>2, <3>3 DEF GRefs
    <2>2. cbRef'[s] = B(callback'[s]) + B(OnStack(s)') + Cardinality(CbUnrefs(s)')
      BY <1>2, <1>4 DEF B
    <2>3. refCount'[s] = Cardinality(holders'[s]) /\ IsFiniteSet(holders'[s])
      BY FS_EmptySet
    <2>4. keep'[s] = B(holders'[s] # {}) + B(owns'[s] /\ DataHeld(s)') + Cardinality(Keeps(s)')
      <3>1. B(holders'[s] # {}) = 0 /\ B(owns'[s] /\ DataHeld(s)') = B(owns'[s])
        BY <1>4 DEF B
      <3>2. B(owns'[s]) \in Nat /\ B(Begins(p, "keep")) \in Nat
        BY DEF B
      <3> QED  BY <1>2, <3>1, <3>2
    <2> QED  BY <1>3, <2>1, <2>2, <2>3, <2>4 DEF Counted
  <1>6. GLife(s)'
    <2>1. gref'[s] > 0
      BY DEF B
    <2> QED  BY <1>3, <2>1 DEF GLife
  <1>7. DataLife(s)'
    BY <1>3, <1>4 DEF DataLife
  <1>8. WrapperLife(s)' /\ Unborn(s)'
    BY DEF WrapperLife, Unborn
  <1> QED  BY <1>5, <1>6, <1>7, <1>8 DEF SourceOK

\* A new source with a new node, which may already point to it.
LEMMA NewNode ==
  ASSUME IInv, NEW s \in Sources, kind[s] = "none", NEW n \in Nodes, node[n] = "unborn",
         kind'[s] # "none", DataHeld(s)',
         dataNode' = [dataNode EXCEPT ![s] = n], node' = [node EXCEPT ![n] = "live"],
         nodeSrc' = nodeSrc \/ nodeSrc' = [nodeSrc EXCEPT ![n] = s],
         \A m \in Nodes \ {n} : connected'[m] = connected[m], conn' = conn,
         \A r \in Sources \ {s} : kind'[r] = kind[r] /\ (DataHeld(r)' <=> DataHeld(r))
  PROVE  /\ NodesOK' /\ dataNode'[s] = n
         /\ \A r \in Sources : dataNode[r] # n
         /\ \A r \in Sources \ {s} : dataNode'[r] = dataNode[r]
  <1>1. TypeOK /\ NodesOK
    BY DEF IInv
  <1>2. /\ dataNode'[s] = n /\ n # NULL
        /\ \A r \in Sources \ {s} : dataNode'[r] = dataNode[r]
    BY <1>1, SourceAssumption DEF TypeOK
  <1>3. \A m \in Nodes : node'[m] = IF m = n THEN "live" ELSE node[m]
    BY <1>1 DEF TypeOK
  <1>4. \A r \in Sources : dataNode[r] # n
    BY <1>1, <1>2 DEF NodesOK, NodeOf
  <1>5. dataNode[s] = NULL /\ \A m \in Nodes : nodeSrc[m] # s
    BY UnbornFacts
  <1>6. \A m \in Nodes : nodeSrc'[m] = nodeSrc[m] \/ (m = n /\ nodeSrc'[m] = s)
    BY <1>1 DEF TypeOK
  <1>7. OneOwner'
    BY <1>1, <1>2, <1>4 DEF NodesOK, OneOwner
  <1>8. ASSUME NEW r \in Sources PROVE NodeOf(r)'
    <2>1. CASE r = s
      BY <1>2, <1>3, <2>1 DEF NodeOf
    <2>2. CASE r # s
      <3>1. dataNode[r] # NULL => dataNode[r] \in Nodes /\ dataNode[r] # n
        BY <1>1, <1>4 DEF TypeOK
      <3> QED  BY <1>1, <1>2, <1>3, <2>2, <3>1 DEF NodesOK, NodeOf
    <2> QED  BY <2>1, <2>2
  <1>9. ASSUME NEW m \in Nodes PROVE BackRef(m)'
    <2>1. nodeSrc[m] # NULL => nodeSrc[m] \in Sources \ {s}
      BY <1>1, <1>5 DEF TypeOK
    <2>2. CASE m = n
      <3>1. nodeSrc[m] = NULL
        BY <1>1, <2>2 DEF NodesOK, BackRef
      <3> QED  BY <1>2, <1>3, <1>6, <2>2, <3>1 DEF BackRef
    <2>3. CASE m # n
      <3>1. node'[m] = node[m] /\ nodeSrc'[m] = nodeSrc[m] /\ connected'[m] = connected[m]
        BY <1>3, <1>6, <2>3
      <3>2. \A r \in Sources : dataNode[r] = m => dataNode'[r] = m
        BY <1>2, <1>5, SourceAssumption
      <3> QED  BY <1>1, <1>2, <2>1, <3>1, <3>2 DEF NodesOK, BackRef
    <2> QED  BY <2>2, <2>3
  <1> QED  BY <1>2, <1>4, <1>7, <1>8, <1>9 DEF NodesOK

\* Source::Source().
LEMMA NewWrapperIInv ==
  ASSUME IInv, NEW t \in Threads, NEW s \in Sources, NEW k \in WrapperKinds, NewWrapper(t, s, k)
  PROVE  IInv'
  <1>1. /\ kind[s] = "none" /\ k \in Kinds
        /\ kind' = [kind EXCEPT ![s] = k]
        /\ gsource' = [gsource EXCEPT ![s] = "live"]
        /\ gref' = [gref EXCEPT ![s] = 1]
        /\ active' = [active EXCEPT ![s] = TRUE]
        /\ callback' = [callback EXCEPT ![s] = TRUE]
        /\ cbRef' = [cbRef EXCEPT ![s] = 1]
        /\ data' = [data EXCEPT ![s] = "live"]
        /\ owns' = [owns EXCEPT ![s] = TRUE]
        /\ wrapper' = [wrapper EXCEPT ![s] = "live"]
        /\ refCount' = [refCount EXCEPT ![s] = 1]
        /\ keep' = [keep EXCEPT ![s] = 2]
        /\ holders' = [holders EXCEPT ![s] = {t}]
        /\ UNCHANGED <<attached, dataNode, nvars, lvars, conn, cont>>
    BY DEF NewWrapper, NewGSource, KeepWrapper
  <1>2. SourceOK(s) /\ TypeOK /\ LoopOK /\ NodesOK
    BY DEF IInv
  <1>3. TypeOK'
    <2>1. /\ kind' \in [Sources -> Kinds \cup {"none"}]
          /\ gsource' \in [Sources -> {"unborn", "live", "freed"}]
          /\ gref' \in [Sources -> Nat] /\ cbRef' \in [Sources -> Nat]
          /\ active' \in [Sources -> BOOLEAN] /\ callback' \in [Sources -> BOOLEAN]
      BY <1>1, <1>2 DEF TypeOK
    <2>2. /\ data' \in [Sources -> {"none", "live", "deleted"}]
          /\ owns' \in [Sources -> BOOLEAN]
          /\ wrapper' \in [Sources -> {"none", "live", "deleted"}]
          /\ refCount' \in [Sources -> Nat] /\ keep' \in [Sources -> Nat]
          /\ holders' \in [Sources -> SUBSET Threads]
      BY <1>1, <1>2 DEF TypeOK
    <2> QED  BY <1>1, <1>2, <2>1, <2>2 DEF TypeOK, nvars, lvars
  <1>4. /\ kind'[s] = k /\ gsource'[s] = "live" /\ gref'[s] = 1 /\ active'[s] /\ callback'[s]
        /\ cbRef'[s] = 1 /\ data'[s] = "live" /\ owns'[s] /\ wrapper'[s] = "live"
        /\ refCount'[s] = 1 /\ keep'[s] = 2 /\ holders'[s] = {t} /\ k # "none"
    BY <1>1, <1>2 DEF TypeOK, WrapperKinds
  <1>5. \A r \in Sources \ {s} : SameSource(r) /\ kind'[r] = kind[r]
    BY <1>1, <1>2 DEF TypeOK, SameSource, lvars, OnStack
  <1>6. /\ SameAccounts(s)
        /\ \A r \in Sources : dataNode[r] # NULL => (DataHeld(r)' <=> DataHeld(r))
    <2>1. \A r \in Sources : SameAccounts(r)
      BY <1>1, AccountsKept
    <2>2. dataNode[s] = NULL
      BY <1>1, UnbornFacts
    <2> QED  BY <1>5, <2>1, <2>2 DEF SameAccounts, SameSource, DataHeld
  <1>7. SourceOK(s)'
    <2>1. /\ GUnrefs(s)' = {} /\ GUnrefs2(s)' = {} /\ GFrees(s)' = {} /\ Working(s)' = {}
          /\ CbUnrefs(s)' = {} /\ Notifies(s)' = {} /\ Keeps(s)' = {} /\ DataFrees(s)' = {}
          /\ ~OnStack(s)' /\ (probe.src # s)' /\ ~attached'[s]
      BY <1>1, <1>6, UnbornFacts DEF SameAccounts, lvars, OnStack
    <2>2. DataHeld(s)'
      BY <1>4 DEF DataHeld
    <2>3. Counted(s)'
      <3>1. /\ Cardinality(GUnrefs(s)') = 0 /\ Cardinality(GUnrefs2(s)') = 0
            /\ Cardinality(CbUnrefs(s)') = 0 /\ Cardinality(Keeps(s)') = 0
            /\ IsFiniteSet(Working(s)')
        BY <2>1, FS_EmptySet
      <3>2. IsFiniteSet(holders'[s]) /\ Cardinality(holders'[s]) = 1
        BY <1>4, FS_Singleton
      <3>3. /\ B(holders[s] # {})' = 1 /\ B(OnStack(s))' = 0 /\ B(probe.src = s)' = 0
            /\ B(attached[s] /\ active[s])' = 0
            /\ B(owns[s] /\ DataHeld(s))' = 1
        BY <1>4, <2>1, <2>2 DEF B
      <3>4. gref'[s] = GRefs(s)'
        BY <1>4, <3>1, <3>3 DEF GRefs
      <3>5. cbRef'[s] = B(callback'[s]) + B(OnStack(s)') + Cardinality(CbUnrefs(s)')
        BY <1>4, <2>1, <3>1 DEF B
      <3>6. keep'[s] = B(holders[s] # {})' + B(owns[s] /\ DataHeld(s))' + Cardinality(Keeps(s)')
        BY <1>4, <3>1, <3>3
      <3> QED  BY <1>4, <3>1, <3>2, <3>4, <3>5, <3>6 DEF Counted
    <2>4. GLife(s)' /\ DataLife(s)' /\ WrapperLife(s)' /\ Unborn(s)'
      BY <1>4, <2>1, <2>2 DEF GLife, DataLife, WrapperLife, Unborn
    <2> QED  BY <2>3, <2>4 DEF SourceOK
  <1>8. LoopOK'
    <2>1. \A r \in Sources : attached[r] => attached'[r]
      BY <1>1
    <2>3. \A r \in Sources : kind[r] # "none" => kind'[r] = kind[r]
      BY <1>1, <1>5
    <2>4. probe # NoProbe => cont'[Loop] = <<>>
      BY <1>1, <1>2 DEF LoopOK
    <2> QED  BY <1>1, <1>2, <2>1, <2>3, <2>4, LoopKept DEF lvars
  <1>9. NodesOK'
    <2>1. \A r \in Sources : kind[r] # "none" => kind'[r] = kind[r]
      BY <1>1, <1>5
    <2> QED  BY <1>1, <1>2, <1>6, <2>1, NodesKept DEF nvars
  <1>10. ConnsOK'
    <2>1. Spares(t, s)
      BY <1>1, <1>5, UnbornFacts, Elsewhere DEF Spares, nvars, lvars
    <2>2. cont[t] = <<>> /\ conn[t] = NoConn
      BY DEF NewWrapper, InUserCode
    <2> QED  BY <1>1, <2>1, <2>2, QuietConns
  <1> QED  BY <1>1, <1>3, <1>10, <1>4, <1>5, <1>7, <1>8, <1>9, UnbornFacts, QuietIInv DEF nvars


\* Thread t makes the source s and goes on with the plan p: what is left to show.
LEMMA MadeIInv ==
  ASSUME IInv, NEW s \in Sources, kind[s] = "none", NEW t \in Threads, InUserCode(t),
         NEW p \in Plans, Start(t, p, s),
         Ends(p, "gunref"), ~UnrefsTwice(p), ~Frees(p), ~Destroys(p),
         ~Ends(p, "gfree"), ~Begins(p, "notify"), ~Begins(p, "cbunref"),
         kind'[s] # "none", gsource'[s] = "live",
         active'[s], callback'[s], cbRef'[s] = 1, data'[s] = "live",
         stack' = stack, probe' = probe, holders'[s] = {}, refCount'[s] = 0,
         gref'[s] = 1 + B(attached'[s]),
         keep'[s] = B(owns'[s]) + B(Begins(p, "keep")),
         wrapper'[s] = "live" <=> keep'[s] > 0,
         kind'[s] \notin WrapperKinds => ~owns'[s],
         kind'[s] \in WrapperKinds /\ ~owns'[s] => ~attached'[s],
         \A r \in Sources \ {s} : SameSource(r) /\ dataNode'[r] = dataNode[r],
         \A r \in Sources : dataNode[r] # NULL /\ connected'[dataNode[r]] => connected[dataNode[r]],
         Connects(p) /\ (\A u \in Threads : On(u, s)' => u = t) => Untouched(t, s)',
         ContType' => TypeOK',
         conn' = conn, \A n \in Nodes : node[n] # "unborn" => node'[n] = node[n],
         dataNode'[s] = dataNode[s] \/ node[dataNode'[s]] = "unborn",
         DataHeld(s)' /\ (\A r \in Sources \ {s} : DataHeld(r)' <=> DataHeld(r)) => NodesOK'
  PROVE  IInv'
  <1>1. SourceOK(s) /\ TypeOK /\ LoopOK /\ NodesOK
    BY DEF IInv
  <1>2. cont[t] = <<>>
    BY DEF InUserCode
  <1>3. /\ Planned(t, p, s) /\ Tally(t, p, s) /\ Plan(t) = <<>>
        /\ \A r \in Sources \ {s} : SameAccounts(r)
    BY <1>2, Begun
  <1>4. TypeOK'
    BY <1>3 DEF Planned
  <1>5. SourceOK(s)'
    BY <1>3, NewSource
  <1>6. NodesOK'
    <2>1. DataHeld(s)'
      BY DEF DataHeld
    <2>2. \A r \in Sources \ {s} : DataHeld(r)' <=> DataHeld(r)
      BY <1>3 DEF SameAccounts, SameSource, DataHeld
    <2> QED  BY <2>1, <2>2
  <1>7. LoopOK'
    <2>1. \A r \in Sources : attached[r] => attached'[r]
      BY UnbornFacts DEF SameSource
    <2>3. \A r \in Sources : kind[r] # "none" => kind'[r] = kind[r]
      BY DEF SameSource
    <2>4. probe # NoProbe => cont'[Loop] = <<>>
      BY <1>1, <1>3 DEF InUserCode, LoopOK, Planned, Threads
    <2>5. \A r \in Sources : OnStack(r) => dataNode'[r] = dataNode[r]
      BY UnbornFacts
    <2> QED  BY <1>1, <2>1, <2>3, <2>4, <2>5, LoopKept
  <1>8. Connects(p) => Untouched(t, s)'
    <2>1. \A u \in Threads : On(u, s)' => u = t
      BY <1>3, UnbornFacts DEF Planned
    <2> QED  BY <2>1
  <1>9. ConnsOK'
    <2>1. holders[s] = {}
      BY UnbornFacts
    <2>2. Spares(t, s)
      BY <2>1, Elsewhere DEF Spares
    <2> QED  BY <1>3, <2>2, GoesOn, BegunConns DEF InUserCode
  <1> QED  BY <1>2, <1>3, <1>9, <1>4, <1>5, <1>6, <1>7, <1>8, UnbornFacts, BegunIInv

\* The constructor of a derived class throws.
LEMMA CreateThrowsIInv ==
  ASSUME IInv, NEW t \in Threads, NEW s \in Sources, CreateThrows(t, s)
  PROVE  IInv'
  <1>1. /\ InUserCode(t) /\ kind[s] = "none" /\ "wrapped" \in Kinds
        /\ kind' = [kind EXCEPT ![s] = "wrapped"]
        /\ gsource' = [gsource EXCEPT ![s] = "live"]
        /\ gref' = [gref EXCEPT ![s] = 1]
        /\ active' = [active EXCEPT ![s] = TRUE]
        /\ callback' = [callback EXCEPT ![s] = TRUE]
        /\ cbRef' = [cbRef EXCEPT ![s] = 1]
        /\ data' = [data EXCEPT ![s] = "live"]
        /\ wrapper' = [wrapper EXCEPT ![s] = "deleted"]
        /\ Start(t, <<"gunref">>, s)
        /\ UNCHANGED <<attached, dataNode, owns, refCount, keep, holders, nvars, lvars, conn>>
    BY DEF CreateThrows, NewGSource
  <1>2. TypeOK /\ NodesOK
    BY DEF IInv
  <1>3. PICK p \in Plans : p = <<"gunref">>
    BY ShortPlans DEF AtEnd
  <1>4. /\ Ends(p, "gunref") /\ ~UnrefsTwice(p) /\ ~Frees(p) /\ ~Destroys(p)
        /\ ~Ends(p, "gfree") /\ ~Begins(p, "notify") /\ ~Begins(p, "cbunref")
        /\ ~Begins(p, "keep") /\ ~Connects(p)
    <2>1. /\ ~Begins(p, "notify") /\ ~Begins(p, "cbunref") /\ ~Begins(p, "keep") /\ ~Connects(p)
      BY <1>3 DEF Begins, Connects
    <2> QED  BY <1>3, <2>1, ShortPlans DEF AtEnd
  <1>5. ContType' => TypeOK'
    <2>1. /\ kind' \in [Sources -> Kinds \cup {"none"}]
          /\ gsource' \in [Sources -> {"unborn", "live", "freed"}]
          /\ gref' \in [Sources -> Nat] /\ cbRef' \in [Sources -> Nat]
          /\ active' \in [Sources -> BOOLEAN] /\ callback' \in [Sources -> BOOLEAN]
      BY <1>1, <1>2 DEF TypeOK
    <2>2. /\ data' \in [Sources -> {"none", "live", "deleted"}]
          /\ wrapper' \in [Sources -> {"none", "live", "deleted"}]
      BY <1>1, <1>2 DEF TypeOK
    <2> QED  BY <1>1, <1>2, <2>1, <2>2 DEF TypeOK, nvars, lvars, ContType, StepType
  <1>6. /\ kind'[s] = "wrapped" /\ gsource'[s] = "live" /\ gref'[s] = 1 /\ active'[s] /\ callback'[s]
        /\ cbRef'[s] = 1 /\ data'[s] = "live" /\ wrapper'[s] = "deleted"
        /\ ~owns'[s] /\ ~attached'[s] /\ refCount'[s] = 0 /\ keep'[s] = 0 /\ holders'[s] = {}
    BY <1>1, <1>2, UnbornFacts DEF TypeOK
  <1>7. \A r \in Sources \ {s} : SameSource(r) /\ kind'[r] = kind[r]
    BY <1>1, <1>2 DEF TypeOK, SameSource, lvars, OnStack
  <1>8. (\A r \in Sources \ {s} : DataHeld(r)' <=> DataHeld(r)) => NodesOK'
    <2>1. dataNode[s] = NULL
      BY <1>1, UnbornFacts
    <2>2. \A r \in Sources : kind[r] # "none" => kind'[r] = kind[r]
      BY <1>1, <1>7
    <2> QED  BY <1>1, <1>2, <2>1, <2>2, NodesKept DEF nvars
  <1>9. /\ gref'[s] = 1 + B(attached'[s])
        /\ keep'[s] = B(owns'[s]) + B(Begins(p, "keep"))
        /\ wrapper'[s] = "live" <=> keep'[s] > 0
        /\ kind'[s] # "none" /\ kind'[s] \in WrapperKinds
    BY <1>4, <1>6 DEF B, WrapperKinds
  <1> QED  BY <1>1, <1>3, <1>4, <1>5, <1>6, <1>7, <1>8, <1>9, MadeIInv DEF nvars, lvars

\* Thread t makes a source without wrapper and a node, and goes on to attach the source.
LEMMA NewConnection ==
  ASSUME IInv, NEW t \in Threads, InUserCode(t), NEW s \in Sources, kind[s] = "none",
         NEW k \in Kinds, k \notin WrapperKinds, k # "none",
         NEW n \in Nodes, node[n] = "unborn",
         NEW p \in Plans, p = <<"install", "attach", "gunref">> \/ p = <<"attach", "gunref">>,
         Start(t, p, s),
         kind' = [kind EXCEPT ![s] = k],
         NewGSource(s),
         data' = [data EXCEPT ![s] = "live"],
         dataNode' = [dataNode EXCEPT ![s] = n],
         node' = [node EXCEPT ![n] = "live"],
         connected' \in [Nodes -> BOOLEAN], connected'[n] => t = Loop \/ connected[n],
         \A m \in Nodes \ {n} : connected'[m] = connected[m],
         UNCHANGED <<owns, wvars, nodeSrc, lvars, conn>>
  PROVE  IInv'
  <1>1. /\ gsource' = [gsource EXCEPT ![s] = "live"]
        /\ gref' = [gref EXCEPT ![s] = 1]
        /\ active' = [active EXCEPT ![s] = TRUE]
        /\ callback' = [callback EXCEPT ![s] = TRUE]
        /\ cbRef' = [cbRef EXCEPT ![s] = 1]
        /\ attached' = attached
    BY DEF NewGSource
  <1>2. TypeOK /\ NodesOK
    BY DEF IInv
  <1>3. /\ Ends(p, "gunref") /\ ~UnrefsTwice(p) /\ ~Frees(p) /\ ~Destroys(p)
        /\ ~Ends(p, "gfree") /\ ~Begins(p, "notify") /\ ~Begins(p, "cbunref")
        /\ ~Begins(p, "keep")
    <2>1. /\ ~Begins(p, "notify") /\ ~Begins(p, "cbunref") /\ ~Begins(p, "keep")
      BY DEF Begins
    <2> QED  BY <2>1, ShortPlans DEF AtEnd
  <1>4. ContType' => TypeOK'
    <2>1. /\ kind' \in [Sources -> Kinds \cup {"none"}]
          /\ gsource' \in [Sources -> {"unborn", "live", "freed"}]
          /\ gref' \in [Sources -> Nat] /\ cbRef' \in [Sources -> Nat]
          /\ active' \in [Sources -> BOOLEAN] /\ callback' \in [Sources -> BOOLEAN]
      BY <1>1, <1>2 DEF TypeOK
    <2>2. /\ data' \in [Sources -> {"none", "live", "deleted"}]
          /\ dataNode' \in [Sources -> Nodes \cup {NULL}]
          /\ node' \in [Nodes -> {"unborn", "live", "deleted"}]
      BY <1>2 DEF TypeOK
    <2> QED  BY <1>1, <1>2, <2>1, <2>2 DEF TypeOK, wvars, lvars, ContType, StepType
  <1>5. /\ kind'[s] = k /\ gsource'[s] = "live" /\ gref'[s] = 1 /\ active'[s] /\ callback'[s]
        /\ cbRef'[s] = 1 /\ data'[s] = "live" /\ wrapper'[s] # "live" /\ dataNode'[s] = n
        /\ ~owns'[s] /\ ~attached'[s] /\ refCount'[s] = 0 /\ keep'[s] = 0 /\ holders'[s] = {}
    BY <1>1, <1>2, UnbornFacts DEF TypeOK, wvars
  <1>6. \A r \in Sources \ {s} :
          SameSource(r) /\ kind'[r] = kind[r] /\ dataNode'[r] = dataNode[r]
    BY <1>1, <1>2 DEF TypeOK, SameSource, wvars, lvars, OnStack
  <1>7. DataHeld(s)' /\ (\A r \in Sources \ {s} : DataHeld(r)' <=> DataHeld(r)) => NodesOK'
    BY <1>5, <1>6, NewNode
  <1>8. /\ gref'[s] = 1 + B(attached'[s])
        /\ keep'[s] = B(owns'[s]) + B(Begins(p, "keep"))
        /\ wrapper'[s] = "live" <=> keep'[s] > 0
    BY <1>3, <1>5 DEF B
  <1>9. Connects(p) /\ (\A u \in Threads : On(u, s)' => u = t) => Untouched(t, s)'
    BY <1>2, <1>5, SourceAssumption DEF Untouched, NodesOK, BackRef
  <1>10. \A r \in Sources : dataNode[r] # NULL /\ connected'[dataNode[r]] => connected[dataNode[r]]
    <2> SUFFICES ASSUME NEW r \in Sources, dataNode[r] # NULL, connected'[dataNode[r]]
                 PROVE  connected[dataNode[r]]
      OBVIOUS
    <2>1. dataNode[r] \in Nodes /\ dataNode[r] # n
      BY <1>2 DEF TypeOK, NodesOK, NodeOf
    <2> QED  BY <2>1
  <1>11. \A m \in Nodes : node[m] # "unborn" => node'[m] = node[m]
    BY <1>2 DEF TypeOK
  <1> QED  BY <1>3, <1>11, <1>4, <1>5, <1>6, <1>7, <1>8, <1>9, <1>10, MadeIInv DEF lvars


\* connect() and connect_once() of the Signal classes.
LEMMA ConnectSignalIInv ==
  ASSUME IInv, NEW t \in Threads, NEW s \in Sources, NEW n \in Nodes,
         NEW k \in SignalKinds \cup {"once"}, ConnectSignal(t, s, n, k)
  PROVE  IInv'
  <1>1. /\ InUserCode(t) /\ kind[s] = "none" /\ k \in Kinds /\ node[n] = "unborn"
        /\ kind' = [kind EXCEPT ![s] = k]
        /\ NewGSource(s)
        /\ data' = [data EXCEPT ![s] = "live"]
        /\ dataNode' = [dataNode EXCEPT ![s] = n]
        /\ node' = [node EXCEPT ![n] = "live"]
        /\ connected' = [connected EXCEPT ![n] = t = Loop]
        /\ Start(t, <<"install", "attach", "gunref">>, s)
        /\ UNCHANGED <<owns, wvars, nodeSrc, lvars, conn>>
    BY DEF ConnectSignal, ConnectOrder
  <1>2. k \notin WrapperKinds /\ k # "none"
    BY DEF SignalKinds, WrapperKinds
  <1>3. /\ connected' \in [Nodes -> BOOLEAN] /\ (connected'[n] => t = Loop)
        /\ \A m \in Nodes \ {n} : connected'[m] = connected[m]
    BY <1>1 DEF IInv, TypeOK
  <1>4. <<"install", "attach", "gunref">> \in Plans
    BY ShortPlans DEF AtEnd
  <1> QED  BY <1>1, <1>2, <1>3, <1>4, NewConnection

\* invoke() in another thread.
LEMMA InvokeIInv ==
  ASSUME IInv, NEW t \in Threads, NEW s \in Sources, NEW n \in Nodes, Invoke(t, s, n)
  PROVE  IInv'
  <1>1. /\ InUserCode(t) /\ kind[s] = "none" /\ "invoke" \in Kinds /\ node[n] = "unborn"
        /\ kind' = [kind EXCEPT ![s] = "invoke"]
        /\ NewGSource(s)
        /\ data' = [data EXCEPT ![s] = "live"]
        /\ dataNode' = [dataNode EXCEPT ![s] = n]
        /\ node' = [node EXCEPT ![n] = "live"]
        /\ Start(t, <<"attach", "gunref">>, s)
        /\ UNCHANGED <<owns, wvars, nodeSrc, connected, lvars, conn>>
    BY DEF Invoke
  <1>2. "invoke" \notin WrapperKinds
    BY DEF WrapperKinds
  <1>3. connected' \in [Nodes -> BOOLEAN]
    BY <1>1 DEF IInv, TypeOK
  <1>4. <<"attach", "gunref">> \in Plans
    BY ShortPlans DEF AtEnd
  <1> QED  BY <1>1, <1>2, <1>3, <1>4, NewConnection

\* SignalIO::connect(): the wrapper is kept by the callback data alone.
LEMMA ConnectIOIInv ==
  ASSUME IInv, NEW s \in Sources, NEW n \in Nodes, ConnectIO(s, n)
  PROVE  IInv'
  <1>1. PICK k \in Kinds \cap {"wrapped", "io"} : kind' = [kind EXCEPT ![s] = k]
    BY DEF ConnectIO
  <1>2. /\ InUserCode(Loop) /\ kind[s] = "none" /\ node[n] = "unborn"
        /\ gsource' = [gsource EXCEPT ![s] = "live"]
        /\ gref' = [gref EXCEPT ![s] = 2]
        /\ active' = [active EXCEPT ![s] = TRUE]
        /\ attached' = [attached EXCEPT ![s] = TRUE]
        /\ callback' = [callback EXCEPT ![s] = TRUE]
        /\ cbRef' = [cbRef EXCEPT ![s] = 1]
        /\ data' = [data EXCEPT ![s] = "live"]
        /\ owns' = [owns EXCEPT ![s] = TRUE]
        /\ wrapper' = [wrapper EXCEPT ![s] = "live"]
        /\ keep' = [keep EXCEPT ![s] = 2]
        /\ dataNode' = [dataNode EXCEPT ![s] = n]
        /\ node' = [node EXCEPT ![n] = "live"]
        /\ nodeSrc' = [nodeSrc EXCEPT ![n] = s]
        /\ connected' = [connected EXCEPT ![n] = TRUE]
        /\ Start(Loop, <<"keep", "gunref">>, s)
        /\ UNCHANGED <<refCount, holders, lvars, conn>>
    BY DEF ConnectIO, LastUnreference, KeepWrapper
  <1>3. TypeOK /\ NodesOK /\ Loop \in Threads
    BY DEF IInv, Threads
  <1>4. PICK p \in Plans : p = <<"keep", "gunref">>
    BY ShortPlans DEF AtEnd
  <1>5. /\ Ends(p, "gunref") /\ ~UnrefsTwice(p) /\ ~Frees(p) /\ ~Destroys(p)
        /\ ~Ends(p, "gfree") /\ ~Begins(p, "notify") /\ ~Begins(p, "cbunref")
        /\ Begins(p, "keep") /\ ~Connects(p)
    <2>1. /\ ~Begins(p, "notify") /\ ~Begins(p, "cbunref") /\ Begins(p, "keep") /\ ~Connects(p)
      BY <1>4 DEF Begins, Connects
    <2> QED  BY <1>4, <2>1, ShortPlans DEF AtEnd
  <1>6. ContType' => TypeOK'
    <2>1. /\ kind' \in [Sources -> Kinds \cup {"none"}]
          /\ gsource' \in [Sources -> {"unborn", "live", "freed"}]
          /\ gref' \in [Sources -> Nat] /\ cbRef' \in [Sources -> Nat]
          /\ active' \in [Sources -> BOOLEAN] /\ callback' \in [Sources -> BOOLEAN]
          /\ attached' \in [Sources -> BOOLEAN]
      BY <1>1, <1>2, <1>3 DEF TypeOK
    <2>2. /\ data' \in [Sources -> {"none", "live", "deleted"}]
          /\ owns' \in [Sources -> BOOLEAN]
          /\ wrapper' \in [Sources -> {"none", "live", "deleted"}]
          /\ keep' \in [Sources -> Nat]
      BY <1>2, <1>3 DEF TypeOK
    <2>3. /\ dataNode' \in [Sources -> Nodes \cup {NULL}]
          /\ node' \in [Nodes -> {"unborn", "live", "deleted"}]
          /\ nodeSrc' \in [Nodes -> Sources \cup {NULL}]
          /\ connected' \in [Nodes -> BOOLEAN]
      BY <1>2, <1>3 DEF TypeOK
    <2> QED  BY <1>2, <1>3, <2>1, <2>2, <2>3 DEF TypeOK, lvars, ContType, StepType
  <1>7. /\ kind'[s] = k /\ gsource'[s] = "live" /\ gref'[s] = 2 /\ active'[s] /\ callback'[s]
        /\ attached'[s] /\ cbRef'[s] = 1 /\ data'[s] = "live" /\ wrapper'[s] = "live"
        /\ owns'[s] /\ refCount'[s] = 0 /\ keep'[s] = 2 /\ holders'[s] = {}
        /\ k \in WrapperKinds /\ k # "none"
    BY <1>1, <1>2, <1>3, UnbornFacts DEF TypeOK, WrapperKinds
  <1>8. \A r \in Sources \ {s} :
          SameSource(r) /\ kind'[r] = kind[r] /\ dataNode'[r] = dataNode[r]
    BY <1>1, <1>2, <1>3 DEF TypeOK, SameSource, lvars, OnStack
  <1>9. \A m \in Nodes \ {n} : connected'[m] = connected[m]
    BY <1>2, <1>3 DEF TypeOK
  <1>10. DataHeld(s)' /\ (\A r \in Sources \ {s} : DataHeld(r)' <=> DataHeld(r)) => NodesOK'
    <2>1. kind'[s] # "none"
      BY <1>7
    <2>2. \A r \in Sources \ {s} : kind'[r] = kind[r]
      BY <1>8
    <2> QED  BY ZenonT(40), <1>2, <1>9, <2>1, <2>2, NewNode
  <1>11. /\ gref'[s] = 1 + B(attached'[s])
         /\ keep'[s] = B(owns'[s]) + B(Begins(p, "keep"))
         /\ wrapper'[s] = "live" <=> keep'[s] > 0
    BY <1>5, <1>7 DEF B
  <1>12. \A r \in Sources : dataNode[r] # NULL /\ connected'[dataNode[r]] => connected[dataNode[r]]
    <2> SUFFICES ASSUME NEW r \in Sources, dataNode[r] # NULL, connected'[dataNode[r]]
                 PROVE  connected[dataNode[r]]
      OBVIOUS
    <2>1. dataNode[r] \in Nodes /\ dataNode[r] # n
      BY <1>2, <1>3 DEF TypeOK, NodesOK, NodeOf
    <2> QED  BY <1>9, <2>1
  <1>13. /\ \A m \in Nodes : node[m] # "unborn" => node'[m] = node[m]
         /\ dataNode'[s] = n
    BY <1>2, <1>3 DEF TypeOK
  <1> QED  BY <1>2, <1>3, <1>13, <1>4, <1>5, <1>6, <1>7, <1>8, <1>10, <1>11, <1>12, MadeIInv DEF lvars

-----------------------------------------------------------------------------
(* The main loop.                                                          *)

\* prepare or check of a source of the context is called.
LEMMA ProbeCallIInv ==
  ASSUME IInv, NEW s \in Sources, ProbeCall(s)
  PROVE  IInv'
  <1>1. /\ cont[Loop] = <<>> /\ probe = NoProbe /\ conn[Loop] = NoConn
        /\ kind[s] = "wrapped" /\ attached[s] /\ active[s]
        /\ gref' = [gref EXCEPT ![s] = @ + 1]
        /\ probe' = [src |-> s, got |-> FALSE]
        /\ UNCHANGED <<kind, gsource, active, attached, callback, cbRef, dvars, wvars, nvars, stack, conn, cont>>
    BY DEF ProbeCall, InUserCode
  <1>2. SourceOK(s) /\ TypeOK /\ LoopOK /\ NodesOK
    BY DEF IInv
  <1>3. /\ gref'[s] = gref[s] + 1 /\ gref[s] \in Nat
        /\ \A r \in Sources \ {s} : gref'[r] = gref[r]
    BY <1>1, <1>2 DEF TypeOK
  <1>4. \A r \in Sources : probe.src # r /\ (probe'.src = r <=> r = s)
    BY <1>1, SourceAssumption DEF NoProbe
  <1>5. SameAccounts(s) /\ \A r \in Sources : DataHeld(r)' <=> DataHeld(r)
    BY <1>1, AccountsKept DEF SameAccounts, DataHeld
  <1>6. TypeOK'
    <2>1. gref' \in [Sources -> Nat] /\ probe' \in Probe
      BY <1>1, <1>2 DEF TypeOK, Probe
    <2> QED  BY <1>1, <1>2, <2>1 DEF TypeOK, dvars, wvars, nvars
  <1>7. SourceOK(s)'
    <2>1. gref[s] = GRefs(s) /\ GRefs(s)' = GRefs(s) + 1 /\ gref[s] > 0
      <3>1. /\ B(attached[s] /\ active[s])' = B(attached[s] /\ active[s])
            /\ B(holders[s] # {})' = B(holders[s] # {}) /\ B(OnStack(s))' = B(OnStack(s))
            /\ B(probe.src = s)' = 1 /\ B(probe.src = s) = 0
        BY <1>1, <1>4 DEF B, wvars, OnStack
      <3>2. /\ B(attached[s] /\ active[s]) = 1 /\ B(holders[s] # {}) \in Nat
            /\ B(OnStack(s)) \in Nat
        BY <1>1 DEF B
      <3>3. /\ Cardinality(GUnrefs(s)') = Cardinality(GUnrefs(s))
            /\ Cardinality(GUnrefs2(s)') = Cardinality(GUnrefs2(s))
        BY <1>5 DEF SameAccounts
      <3>4. gref[s] = GRefs(s)
        BY <1>2 DEF SourceOK, Counted
      <3> QED  BY <3>1, <3>2, <3>3, <3>4, CountsType DEF GRefs
    <2>2. Counted(s)'
      BY <1>1, <1>2, <1>3, <1>5, <2>1
         DEF SourceOK, Counted, SameAccounts, dvars, wvars, OnStack, B
    <2>3. GLife(s)'
      <3>1. gref'[s] > 0
        BY <1>3
      <3> QED  BY <1>1, <1>2, <1>5, <2>1, <3>1 DEF SourceOK, GLife, SameAccounts
    <2>4. DataLife(s)'
      BY <1>1, <1>2, <1>5 DEF SourceOK, DataLife, SameAccounts, dvars
    <2>5. WrapperLife(s)' /\ Unborn(s)'
      BY <1>1, <1>2 DEF SourceOK, WrapperLife, Unborn, dvars, wvars
    <2> QED  BY <2>2, <2>3, <2>4, <2>5 DEF SourceOK
  <1>8. LoopOK'
    BY <1>1, <1>2 DEF LoopOK, NoProbe, dvars
  <1>9. NodesOK'
    BY <1>1, <1>2, <1>5, NodesKept DEF dvars, nvars
  <1>10. \A r \in Sources \ {s} : SameSource(r)
    BY <1>1, <1>3, <1>4 DEF SameSource, dvars, wvars, OnStack
  <1>11. ConnsOK'
    <2>1. Spares(Loop, s)
      BY <1>1, <1>10, Elsewhere DEF Spares, dvars, wvars, nvars
    <2> QED  BY <1>1, <2>1, QuietConns DEF Threads
  <1> QED  BY <1>1, <1>11, <1>6, <1>7, <1>8, <1>9, <1>10, WhoConnects, QuietIInv DEF dvars, nvars

\* It finds the callback data.
LEMMA ProbeGetIInv ==
  ASSUME IInv, ProbeGet
  PROVE  IInv'
  <1>1. /\ probe # NoProbe /\ cont[Loop] = <<>>
        /\ callback[probe.src] /\ active[probe.src]
        /\ probe' = [probe EXCEPT !.got = TRUE]
        /\ UNCHANGED <<kind, gvars, dvars, wvars, nvars, stack, conn, cont>>
    BY DEF ProbeGet, GetCallbackData
  <1>2. TypeOK /\ LoopOK /\ NodesOK
    BY DEF IInv
  <1>3. PICK s \in Sources : probe = [src |-> s, got |-> probe.got] /\ probe.src = s
    BY <1>1, <1>2 DEF TypeOK, Probe
  <1>4. probe' = [src |-> s, got |-> TRUE] /\ probe'.src = s
    BY <1>1, <1>3
  <1>5. \A r \in Sources : SameAccounts(r) /\ SameSource(r) /\ (DataHeld(r)' <=> DataHeld(r))
    BY <1>1, <1>3, <1>4, AccountsKept
       DEF SameSource, SameAccounts, DataHeld, gvars, dvars, wvars, OnStack
  <1>6. SourceOK(s)'
    BY <1>5, SourceKept DEF IInv
  <1>7. TypeOK'
    <2>1. probe' \in Probe
      BY <1>4 DEF Probe
    <2> QED  BY <1>1, <1>2, <2>1 DEF TypeOK, gvars, dvars, wvars, nvars
  <1>8. LoopOK'
    BY <1>1, <1>2, <1>3, <1>4 DEF LoopOK, gvars, dvars
  <1>9. NodesOK'
    BY <1>1, <1>2, <1>5, NodesKept DEF dvars, nvars
  <1>10. NotConnecting(s)
    BY <1>1, <1>2, <1>3, WhoConnects DEF LoopOK
  <1>11. ConnsOK'
    <2>1. attached[s]
      BY <1>1, <1>2, <1>3 DEF LoopOK
    <2>2. conn[Loop] = NoConn
      BY <1>1 DEF IInv, ConnsOK, ConnOK, Threads
    <2>3. Spares(Loop, s)
      BY <1>1, <1>5, <2>1, Elsewhere DEF Spares, dvars, wvars, nvars
    <2> QED  BY <1>1, <2>2, <2>3, QuietConns DEF Threads
  <1> QED  BY <1>1, <1>11, <1>5, <1>6, <1>7, <1>8, <1>9, <1>10, QuietIInv DEF dvars, nvars

\* prepare or check returns, and the iteration gives up its reference.
LEMMA ProbeReturnIInv ==
  ASSUME IInv, ProbeReturn
  PROVE  IInv'
  <1>1. /\ probe # NoProbe /\ cont[Loop] = <<>>
        /\ probe' = NoProbe
        /\ Start(Loop, <<"gunref">>, probe.src)
        /\ UNCHANGED <<kind, gvars, dvars, wvars, nvars, stack, conn>>
    BY DEF ProbeReturn
  <1>2. TypeOK /\ LoopOK /\ NodesOK /\ Loop \in Threads
    BY DEF IInv, Threads
  <1>3. PICK s \in Sources : s = probe.src
    BY <1>1, <1>2 DEF TypeOK, Probe
  <1>4. kind[s] = "wrapped" /\ attached[s] /\ SourceOK(s)
    BY <1>1, <1>2, <1>3 DEF LoopOK, IInv
  <1>5. PICK p \in Plans : p = <<"gunref">>
    BY ShortPlans DEF AtEnd
  <1>6. /\ Planned(Loop, p, s) /\ Tally(Loop, p, s) /\ Plan(Loop) = <<>>
        /\ \A r \in Sources \ {s} : SameAccounts(r)
    BY <1>1, <1>2, <1>3, <1>5, Begun
  <1>7. /\ Ends(p, "gunref") /\ ~UnrefsTwice(p) /\ ~Ends(p, "gfree") /\ ~Frees(p) /\ ~Destroys(p)
        /\ ~Begins(p, "keep") /\ ~Begins(p, "cbunref") /\ ~Begins(p, "notify") /\ ~Connects(p)
    <2>1. ~Begins(p, "keep") /\ ~Begins(p, "cbunref") /\ ~Begins(p, "notify") /\ ~Connects(p)
      BY <1>5 DEF Begins, Connects
    <2> QED  BY <1>5, <2>1, ShortPlans DEF AtEnd
  <1>8. \A r \in Sources : probe'.src # r
    BY <1>1, SourceAssumption DEF NoProbe
  <1>9. TypeOK'
    BY <1>1, <1>2, <1>6
       DEF TypeOK, gvars, dvars, wvars, nvars, Planned, ContType, StepType
  <1>10. /\ \A v : v \in Notifies(s)' <=> v \in Notifies(s)
         /\ \A v : v \in GFrees(s)' <=> v \in GFrees(s)
         /\ \A v : v \in DataFrees(s)' <=> v \in DataFrees(s)
         /\ \A r \in Sources : DataHeld(r)' <=> DataHeld(r)
    <2>1. /\ \A v : v \in Notifies(s)' <=> v \in Notifies(s)
          /\ \A v : v \in GFrees(s)' <=> v \in GFrees(s)
          /\ \A v : v \in DataFrees(s)' <=> v \in DataFrees(s)
      BY <1>6, <1>7, NoPlan DEF Tally
    <2>2. DataHeld(s)' <=> DataHeld(s)
      BY <1>1, <2>1 DEF DataHeld, gvars
    <2>3. \A r \in Sources \ {s} : DataHeld(r)' <=> DataHeld(r)
      BY <1>1, <1>6 DEF SameAccounts, DataHeld, gvars
    <2> QED  BY <2>1, <2>2, <2>3
  <1>11. SourceOK(s)'
    <2>1. /\ Cardinality(GUnrefs(s)') = Cardinality(GUnrefs(s)) + 1
          /\ Cardinality(GUnrefs2(s)') = Cardinality(GUnrefs2(s))
          /\ Cardinality(CbUnrefs(s)') = Cardinality(CbUnrefs(s))
          /\ Cardinality(Keeps(s)') = Cardinality(Keeps(s))
      BY <1>6, <1>7, NoPlan DEF Tally, B
    <2>2. GRefs(s)' = GRefs(s)
      <3>1. /\ B(attached[s] /\ active[s])' = B(attached[s] /\ active[s])
            /\ B(holders[s] # {})' = B(holders[s] # {}) /\ B(OnStack(s))' = B(OnStack(s))
            /\ B(probe.src = s)' = 0 /\ B(probe.src = s) = 1
        BY <1>1, <1>3, <1>8 DEF B, gvars, wvars, OnStack
      <3>2. /\ B(attached[s] /\ active[s]) \in Nat /\ B(holders[s] # {}) \in Nat
            /\ B(OnStack(s)) \in Nat
        BY DEF B
      <3> QED  BY <2>1, <3>1, <3>2, CountsType DEF GRefs
    <2>3. IsFiniteSet(Working(s)')
      BY <1>6 DEF Tally
    <2>4. Counted(s)'
      BY <1>1, <1>4, <1>10, <2>1, <2>2, <2>3
         DEF SourceOK, Counted, gvars, dvars, wvars, OnStack, B
    <2>5. GLife(s)' /\ DataLife(s)'
      BY <1>1, <1>4, <1>10 DEF SourceOK, GLife, DataLife, gvars, dvars
    <2>6. WrapperLife(s)' /\ Unborn(s)'
      BY <1>1, <1>4 DEF SourceOK, WrapperLife, Unborn, gvars, dvars, wvars
    <2> QED  BY <2>4, <2>5, <2>6 DEF SourceOK
  <1>12. LoopOK'
    BY <1>1, <1>2 DEF LoopOK, NoProbe, gvars, dvars
  <1>13. NodesOK'
    BY <1>1, <1>2, <1>10, NodesKept DEF dvars, nvars
  <1>14. \A r \in Sources \ {s} : SameSource(r)
    BY <1>1, <1>3, <1>8 DEF SameSource, gvars, dvars, wvars, OnStack
  <1>15. NotConnecting(s) /\ kind'[s] # "none"
    BY <1>1, <1>4, WhoConnects
  <1>16. ConnsOK'
    <2>1. conn[Loop] = NoConn
      BY <1>1, <1>2 DEF IInv, ConnsOK, ConnOK
    <2>2. Spares(Loop, s)
      BY <1>1, <1>4, <1>14, Elsewhere DEF Spares, dvars, wvars, nvars
    <2> QED  BY <1>1, <1>2, <1>6, <1>7, <2>1, <2>2, GoesOn, BegunConns
  <1> QED  BY <1>1, <1>2, <1>16, <1>6, <1>7, <1>9, <1>11, <1>12, <1>13, <1>14, <1>15, BegunIInv
           DEF dvars, nvars


\* A dispatch begins.
LEMMA StackGrows ==
  ASSUME TypeOK, NEW f \in Frame, stack' = Append(stack, f)
  PROVE  /\ stack' \in Seq(Frame)
         /\ \A i \in DOMAIN stack : i \in DOMAIN stack' /\ stack'[i] = stack[i]
         /\ \E k \in DOMAIN stack' :
              stack'[k] = f /\ \A i \in DOMAIN stack' : i = k \/ i \in DOMAIN stack
  <1>1. stack \in Seq(Frame)
    BY DEF TypeOK
  <1>2. /\ stack' \in Seq(Frame) /\ Len(stack') = Len(stack) + 1
        /\ \A i \in 1 .. Len(stack) : stack'[i] = stack[i]
        /\ stack'[Len(stack) + 1] = f
    BY <1>1, AppendProperties
  <1>3. /\ Len(stack) \in Nat /\ DOMAIN stack = 1 .. Len(stack)
        /\ DOMAIN stack' = 1 .. Len(stack) + 1
    BY <1>1, <1>2, LenProperties
  <1>4. Len(stack) + 1 \in DOMAIN stack' /\ DOMAIN stack \subseteq DOMAIN stack'
    BY <1>3
  <1>5. \A i \in DOMAIN stack' : i = Len(stack) + 1 \/ i \in DOMAIN stack
    BY <1>3
  <1> QED  BY <1>2, <1>3, <1>4, <1>5

\* The innermost one ends.
LEMMA StackShrinks ==
  ASSUME TypeOK, stack # <<>>, stack' = SubSeq(stack, 1, Len(stack) - 1)
  PROVE  /\ stack' \in Seq(Frame)
         /\ Len(stack) \in DOMAIN stack
         /\ \A i \in DOMAIN stack' : i \in DOMAIN stack /\ i # Len(stack) /\ stack'[i] = stack[i]
         /\ \A i \in DOMAIN stack : i = Len(stack) \/ i \in DOMAIN stack'
  <1>1. stack \in Seq(Frame)
    BY DEF TypeOK
  <1>2. Len(stack) \in Nat /\ DOMAIN stack = 1 .. Len(stack) /\ Len(stack) # 0
    BY <1>1, EmptySeq, LenProperties
  <1>3. \A i \in 1 .. Len(stack) : stack[i] \in Frame
    BY <1>1, ElementOfSeq
  <1>4. /\ stack' \in Seq(Frame) /\ Len(stack') = Len(stack) - 1
        /\ \A i \in 1 .. Len(stack) - 1 : stack'[i] = stack[i]
    <2> DEFINE m == Len(stack) - 1
    <2>1. m \in Nat /\ 1 \in Int /\ m \in Int /\ m - 1 + 1 = m /\ \A i \in 1 .. m : i \in 1 .. Len(stack)
      BY <1>2
    <2>2. stack' = SubSeq(stack, 1, m)
      OBVIOUS
    <2> HIDE DEF m
    <2>3. \A i \in 1 .. m : stack[i] \in Frame
      BY <1>3, <2>1
    <2>4. /\ SubSeq(stack, 1, m) \in Seq(Frame)
          /\ Len(SubSeq(stack, 1, m)) = IF 1 <= m THEN m - 1 + 1 ELSE 0
          /\ \A i \in 1 .. m - 1 + 1 : SubSeq(stack, 1, m)[i] = stack[1 + i - 1]
      BY <2>1, <2>3, SubSeqProperties
    <2>5. Len(stack') = m
      BY <2>1, <2>2, <2>4
    <2>6. \A i \in 1 .. m : 1 + i - 1 = i
      BY <2>1
    <2>7. \A i \in 1 .. m : stack'[i] = stack[i]
      BY <2>1, <2>2, <2>4, <2>6
    <2> QED  BY <2>2, <2>4, <2>5, <2>7 DEF m
  <1>5. DOMAIN stack' = 1 .. Len(stack) - 1
    BY <1>4, LenProperties
  <1> QED  BY <1>2, <1>4, <1>5

\* The dispatch of s holds the GSource and the callback.
LEMMA DispatchBeginIInv ==
  ASSUME IInv, NEW s \in Sources, DispatchBegin(s)
  PROVE  IInv'
  <1>1. /\ cont[Loop] = <<>> /\ probe = NoProbe /\ conn[Loop] = NoConn
        /\ attached[s] /\ callback[s] /\ active[s]
        /\ ~OnStack(s)
        /\ gref' = [gref EXCEPT ![s] = @ + 1]
        /\ cbRef' = [cbRef EXCEPT ![s] = @ + 1]
        /\ stack' = Append(stack, [src |-> s, node |-> dataNode[s]])
        /\ UNCHANGED <<kind, gsource, active, attached, callback, dvars, wvars, nvars, probe, conn, cont>>
    BY DEF DispatchBegin, InUserCode, GetCallbackData, OnStack
  <1>2. SourceOK(s) /\ TypeOK /\ LoopOK /\ NodesOK
    BY DEF IInv
  <1>3. /\ gref'[s] = gref[s] + 1 /\ gref[s] \in Nat /\ cbRef'[s] = cbRef[s] + 1 /\ cbRef[s] \in Nat
        /\ \A r \in Sources \ {s} : gref'[r] = gref[r] /\ cbRef'[r] = cbRef[r]
    BY <1>1, <1>2 DEF TypeOK
  <1>4. PICK f \in Frame : f = [src |-> s, node |-> dataNode[s]]
    BY <1>2 DEF TypeOK, Frame
  <1>5. f.src = s /\ f.node = dataNode[s]
    BY <1>4
  <1>6. /\ stack' \in Seq(Frame)
        /\ \A i \in DOMAIN stack : i \in DOMAIN stack' /\ stack'[i] = stack[i]
    BY <1>1, <1>2, <1>4, StackGrows
  <1>7. PICK k \in DOMAIN stack' :
          stack'[k] = f /\ \A i \in DOMAIN stack' : i = k \/ i \in DOMAIN stack
    BY <1>1, <1>2, <1>4, StackGrows
  <1>8. OnStack(s)' /\ \A r \in Sources \ {s} : OnStack(r)' <=> OnStack(r)
    BY <1>5, <1>6, <1>7 DEF OnStack
  <1>9. \A r \in Sources : SameAccounts(r)
    BY <1>1, AccountsKept
  <1>10. callback[s] => cbRef[s] > 0
    <2>1. cbRef[s] = B(callback[s]) + B(OnStack(s)) + Cardinality(CbUnrefs(s))
      BY <1>2 DEF SourceOK, Counted
    <2> QED  BY <1>1, <2>1, CountsType DEF B
  <1>11. DataHeld(s) /\ \A r \in Sources : DataHeld(r)' <=> DataHeld(r)
    <2>1. DataHeld(s) /\ DataHeld(s)'
      BY <1>1, <1>3, <1>10 DEF DataHeld
    <2>2. \A r \in Sources \ {s} : DataHeld(r)' <=> DataHeld(r)
      BY <1>3, <1>9 DEF DataHeld, SameAccounts
    <2> QED  BY <2>1, <2>2
  <1>12. TypeOK'
    <2>1. gref' \in [Sources -> Nat] /\ cbRef' \in [Sources -> Nat]
      BY SMTT(30), <1>1, <1>2 DEF TypeOK
    <2> QED  BY <1>1, <1>2, <1>6, <2>1 DEF TypeOK, dvars, wvars, nvars
  <1>13. SourceOK(s)'
    <2>1. gref[s] = GRefs(s) /\ GRefs(s)' = GRefs(s) + 1 /\ gref[s] > 0
      <3>1. /\ B(attached[s] /\ active[s])' = B(attached[s] /\ active[s])
            /\ B(holders[s] # {})' = B(holders[s] # {})
            /\ B(OnStack(s))' = 1 /\ B(OnStack(s)) = 0
            /\ B(probe.src = s)' = B(probe.src = s)
        BY <1>1, <1>8 DEF B, wvars
      <3>2. /\ B(attached[s] /\ active[s]) = 1 /\ B(holders[s] # {}) \in Nat
            /\ B(probe.src = s) \in Nat
        BY <1>1 DEF B
      <3>3. /\ Cardinality(GUnrefs(s)') = Cardinality(GUnrefs(s))
            /\ Cardinality(GUnrefs2(s)') = Cardinality(GUnrefs2(s))
        BY <1>9 DEF SameAccounts
      <3>4. gref[s] = GRefs(s)
        BY <1>2 DEF SourceOK, Counted
      <3> QED  BY <3>1, <3>2, <3>3, <3>4, CountsType DEF GRefs
    <2>2. Counted(s)'
      <3>1. cbRef'[s] = B(callback'[s]) + B(OnStack(s)') + Cardinality(CbUnrefs(s)')
        <4>1. /\ B(callback'[s]) = 1 /\ B(callback[s]) = 1
              /\ B(OnStack(s)') = 1 /\ B(OnStack(s)) = 0
              /\ Cardinality(CbUnrefs(s)') = Cardinality(CbUnrefs(s))
          BY <1>1, <1>8, <1>9 DEF B, SameAccounts
        <4>2. cbRef[s] = B(callback[s]) + B(OnStack(s)) + Cardinality(CbUnrefs(s))
          BY <1>2 DEF SourceOK, Counted
        <4> QED  BY <1>3, <4>1, <4>2, CountsType
      <3>2. keep'[s] = B(holders'[s] # {}) + B(owns'[s] /\ DataHeld(s)') + Cardinality(Keeps(s)')
        BY <1>1, <1>2, <1>9, <1>11 DEF SourceOK, Counted, SameAccounts, dvars, wvars, B
      <3>3. /\ IsFiniteSet(Working(s)') /\ IsFiniteSet(holders'[s])
            /\ refCount'[s] = Cardinality(holders'[s])
        BY <1>1, <1>2, <1>9 DEF SourceOK, Counted, SameAccounts, wvars
      <3> QED  BY <1>3, <2>1, <3>1, <3>2, <3>3 DEF Counted
    <2>3. GLife(s)'
      <3>1. gref'[s] > 0
        BY <1>3
      <3> QED  BY <1>1, <1>2, <1>9, <2>1, <3>1 DEF SourceOK, GLife, SameAccounts
    <2>4. DataLife(s)'
      BY <1>1, <1>2, <1>9, <1>10, <1>11 DEF SourceOK, DataLife, SameAccounts, dvars
    <2>5. WrapperLife(s)' /\ Unborn(s)'
      BY <1>1, <1>2 DEF SourceOK, WrapperLife, Unborn, dvars, wvars
    <2> QED  BY <2>2, <2>3, <2>4, <2>5 DEF SourceOK
  <1>14. LoopOK'
    <2>1. \A i \in DOMAIN stack : stack[i].src # s
      BY <1>1 DEF OnStack
    <2>2. \A i, j \in DOMAIN stack' : stack'[i].src = stack'[j].src => i = j
      BY <1>2, <1>5, <1>6, <1>7, <2>1 DEF LoopOK
    <2>3. \A i \in DOMAIN stack' :
            /\ attached[stack'[i].src]
            /\ stack'[i].node # NULL /\ ~ReconnectInSlot => dataNode[stack'[i].src] = stack'[i].node
      BY <1>1, <1>2, <1>5, <1>6, <1>7 DEF LoopOK
    <2> QED  BY <1>1, <2>2, <2>3 DEF LoopOK, NoProbe, dvars
  <1>15. NodesOK'
    BY <1>1, <1>2, <1>11, NodesKept DEF dvars, nvars
  <1>16. \A r \in Sources \ {s} : SameSource(r)
    BY <1>1, <1>3, <1>8 DEF SameSource, dvars, wvars
  <1>17. ConnsOK'
    <2>1. \A i \in DOMAIN stack' : stack'[i].src # s => \E j \in DOMAIN stack : stack[j] = stack'[i]
      BY <1>5, <1>6, <1>7
    <2>2. Spares(Loop, s)
      BY <1>1, <1>16, <2>1, Elsewhere DEF Spares, dvars, wvars, nvars
    <2> QED  BY <1>1, <2>2, QuietConns DEF Threads
  <1> QED  BY <1>1, <1>17, <1>12, <1>13, <1>14, <1>15, <1>16, WhoConnects, QuietIInv DEF dvars, nvars


\* A dispatch ends, and the loop gives up what the dispatch held.
LEMMA DispatchEndIInv ==
  ASSUME IInv, NEW again \in BOOLEAN, DispatchEnd(again)
  PROVE  IInv'
  <1>1. /\ stack # <<>> /\ cont[Loop] = <<>> /\ probe = NoProbe /\ conn[Loop] = NoConn
        /\ Start(Loop, IF again THEN <<"cbunref", "gunref">>
                       ELSE <<"cbunref", "destroy", "gunref">>, stack[Len(stack)].src)
        /\ stack' = SubSeq(stack, 1, Len(stack) - 1)
        /\ UNCHANGED <<kind, gvars, dvars, wvars, nvars, probe, conn>>
    BY DEF DispatchEnd, InUserCode, Threads
  <1>2. TypeOK /\ LoopOK /\ NodesOK /\ Loop \in Threads
    BY DEF IInv, Threads
  <1>3. /\ stack' \in Seq(Frame)
        /\ Len(stack) \in DOMAIN stack
        /\ \A i \in DOMAIN stack' : i \in DOMAIN stack /\ i # Len(stack) /\ stack'[i] = stack[i]
        /\ \A i \in DOMAIN stack : i = Len(stack) \/ i \in DOMAIN stack'
    BY <1>1, <1>2, StackShrinks
  <1>4. PICK s \in Sources : s = stack[Len(stack)].src
    BY <1>2, <1>3, FrameType
  <1>5. OnStack(s) /\ ~OnStack(s)' /\ \A r \in Sources \ {s} : OnStack(r)' <=> OnStack(r)
    <2>1. OnStack(s)
      BY <1>3, <1>4 DEF OnStack
    <2>2. ~OnStack(s)'
      BY <1>2, <1>3, <1>4 DEF OnStack, LoopOK
    <2>3. \A r \in Sources \ {s} : OnStack(r)' <=> OnStack(r)
      BY <1>3, <1>4 DEF OnStack
    <2> QED  BY <2>1, <2>2, <2>3
  <1>6. SourceOK(s) /\ attached[s] /\ kind[s] # "none"
    BY <1>2, <1>3, <1>4 DEF IInv, LoopOK, SourceOK, Unborn
  <1>7. PICK p \in Plans :
          p = IF again THEN <<"cbunref", "gunref">> ELSE <<"cbunref", "destroy", "gunref">>
    BY ShortPlans DEF AtEnd
  <1>8. /\ Planned(Loop, p, s) /\ Tally(Loop, p, s) /\ Plan(Loop) = <<>>
        /\ \A r \in Sources \ {s} : SameAccounts(r)
    BY <1>1, <1>2, <1>4, <1>7, Begun
  <1>9. /\ Ends(p, "gunref") /\ ~UnrefsTwice(p) /\ ~Ends(p, "gfree") /\ ~Frees(p)
        /\ ~Begins(p, "keep") /\ Begins(p, "cbunref") /\ ~Begins(p, "notify") /\ ~Connects(p)
    <2>1. ~Begins(p, "keep") /\ Begins(p, "cbunref") /\ ~Begins(p, "notify") /\ ~Connects(p)
      BY <1>7 DEF Begins, Connects
    <2> QED  BY <1>7, <2>1, ShortPlans DEF AtEnd
  <1>10. TypeOK'
    BY <1>1, <1>2, <1>3, <1>8
       DEF TypeOK, gvars, dvars, wvars, nvars, Planned, ContType, StepType
  <1>11. /\ \A v : v \in Notifies(s)' <=> v \in Notifies(s)
         /\ \A v : v \in GFrees(s)' <=> v \in GFrees(s)
         /\ \A v : v \in DataFrees(s)' <=> v \in DataFrees(s)
         /\ \A r \in Sources : DataHeld(r)' <=> DataHeld(r)
    <2>1. /\ \A v : v \in Notifies(s)' <=> v \in Notifies(s)
          /\ \A v : v \in GFrees(s)' <=> v \in GFrees(s)
          /\ \A v : v \in DataFrees(s)' <=> v \in DataFrees(s)
      BY <1>8, <1>9, NoPlan DEF Tally
    <2>2. DataHeld(s)' <=> DataHeld(s)
      BY <1>1, <2>1 DEF DataHeld, gvars
    <2>3. \A r \in Sources \ {s} : DataHeld(r)' <=> DataHeld(r)
      BY <1>1, <1>8 DEF SameAccounts, DataHeld, gvars
    <2> QED  BY <2>1, <2>2, <2>3
  <1>12. SourceOK(s)'
    <2>1. /\ Cardinality(GUnrefs(s)') = Cardinality(GUnrefs(s)) + 1
          /\ Cardinality(GUnrefs2(s)') = Cardinality(GUnrefs2(s))
          /\ Cardinality(CbUnrefs(s)') = Cardinality(CbUnrefs(s)) + 1
          /\ Cardinality(Keeps(s)') = Cardinality(Keeps(s))
      BY <1>8, <1>9, NoPlan DEF Tally, B
    <2>2. GRefs(s)' = GRefs(s)
      <3>1. /\ B(attached[s] /\ active[s])' = B(attached[s] /\ active[s])
            /\ B(holders[s] # {})' = B(holders[s] # {})
            /\ B(OnStack(s))' = 0 /\ B(OnStack(s)) = 1
            /\ B(probe.src = s)' = B(probe.src = s)
        BY <1>1, <1>5 DEF B, gvars, wvars
      <3>2. /\ B(attached[s] /\ active[s]) \in Nat /\ B(holders[s] # {}) \in Nat
            /\ B(probe.src = s) \in Nat
        BY DEF B
      <3> QED  BY <2>1, <3>1, <3>2, CountsType DEF GRefs
    <2>3. IsFiniteSet(Working(s)')
      BY <1>8 DEF Tally
    <2>4. Counted(s)'
      <3>1. cbRef'[s] = B(callback'[s]) + B(OnStack(s)') + Cardinality(CbUnrefs(s)')
        <4>1. /\ B(callback'[s]) = B(callback[s]) /\ B(callback[s]) \in Nat
              /\ B(OnStack(s)') = 0 /\ B(OnStack(s)) = 1
          BY <1>1, <1>5 DEF B, gvars
        <4>2. cbRef'[s] = B(callback[s]) + B(OnStack(s)) + Cardinality(CbUnrefs(s))
          BY <1>1, <1>6 DEF SourceOK, Counted, gvars
        <4> QED  BY <2>1, <4>1, <4>2, CountsType
      <3>2. keep'[s] = B(holders'[s] # {}) + B(owns'[s] /\ DataHeld(s)') + Cardinality(Keeps(s)')
        BY <1>1, <1>6, <1>11, <2>1 DEF SourceOK, Counted, dvars, wvars, B
      <3>3. gref'[s] = GRefs(s)'
        BY <1>1, <1>6, <2>2 DEF SourceOK, Counted, gvars
      <3>4. IsFiniteSet(holders'[s]) /\ refCount'[s] = Cardinality(holders'[s])
        BY <1>1, <1>6 DEF SourceOK, Counted, wvars
      <3> QED  BY <2>3, <3>1, <3>2, <3>3, <3>4 DEF Counted
    <2>5. GLife(s)' /\ DataLife(s)'
      BY <1>1, <1>6, <1>11 DEF SourceOK, GLife, DataLife, gvars, dvars
    <2>6. WrapperLife(s)' /\ Unborn(s)'
      BY <1>1, <1>6 DEF SourceOK, WrapperLife, Unborn, gvars, dvars, wvars
    <2> QED  BY <2>4, <2>5, <2>6 DEF SourceOK
  <1>13. LoopOK'
    <2>1. \A i, j \in DOMAIN stack' : stack'[i].src = stack'[j].src => i = j
      BY <1>2, <1>3 DEF LoopOK
    <2>2. \A i \in DOMAIN stack' :
            /\ attached[stack'[i].src]
            /\ stack'[i].node # NULL /\ ~ReconnectInSlot => dataNode[stack'[i].src] = stack'[i].node
      BY <1>2, <1>3 DEF LoopOK
    <2> QED  BY <1>1, <2>1, <2>2 DEF LoopOK, NoProbe, gvars, dvars
  <1>14. NodesOK'
    BY <1>1, <1>2, <1>11, NodesKept DEF dvars, nvars
  <1>15. \A r \in Sources \ {s} : SameSource(r)
    BY <1>1, <1>5 DEF SameSource, gvars, dvars, wvars
  <1>16. NotConnecting(s) /\ kind'[s] # "none"
    BY <1>1, <1>6, WhoConnects
  <1>17. ConnsOK'
    <2>1. Spares(Loop, s)
      BY <1>1, <1>3, <1>6, <1>15, Elsewhere DEF Spares, dvars, wvars, nvars
    <2>2. p # <<"destroy">>
      BY <1>9 DEF Begins
    <2> QED  BY <1>1, <1>2, <1>8, <2>1, <2>2, BegunConns
  <1> QED  BY <1>1, <1>2, <1>17, <1>8, <1>9, <1>10, <1>12, <1>13, <1>14, <1>15, <1>16, BegunIInv
           DEF dvars, nvars


-----------------------------------------------------------------------------
(* The invariant is inductive.                                             *)

LEMMA StepIInv ==
  ASSUME IInv, NEW t \in Threads, Step(t)
  PROVE  IInv'
  <1>1. CASE Install(t)
    BY <1>1, InstallIInv
  <1>2. CASE AttachSignal(t)
    BY <1>2, AttachSignalIInv
  <1>3. CASE DestroyStep(t)
    BY <1>3, DestroyStepIInv
  <1>4. CASE CbUnref(t)
    BY <1>4, CbUnrefIInv
  <1>5. CASE Notify(t)
    BY <1>5, NotifyIInv
  <1>6. CASE KeepStep(t)
    BY <1>6, KeepStepIInv
  <1>7. CASE FreeData(t)
    BY <1>7, FreeDataIInv
  <1>8. CASE GUnref(t)
    BY <1>8, GUnrefIInv
  <1>9. CASE GFree(t)
    BY <1>9, GFreeIInv
  <1>10. CASE SetNode(t)
    BY <1>10, SetNodeIInv
  <1>11. CASE InstallNode(t)
    BY <1>11, InstallNodeIInv
  <1> QED  BY <1>1, <1>2, <1>10, <1>11, <1>3, <1>4, <1>5, <1>6, <1>7, <1>8, <1>9 DEF Step

LEMMA LoopStepIInv ==
  ASSUME IInv, LoopStep
  PROVE  IInv'
  <1>1. ASSUME NEW s \in Sources, ProbeCall(s) PROVE IInv'
    BY <1>1, ProbeCallIInv
  <1>2. ASSUME NEW s \in Sources, DispatchBegin(s) PROVE IInv'
    BY <1>2, DispatchBeginIInv
  <1>3. CASE ProbeGet
    BY <1>3, ProbeGetIInv
  <1>4. CASE ProbeReturn
    BY <1>4, ProbeReturnIInv
  <1>5. ASSUME NEW again \in BOOLEAN, DispatchEnd(again) PROVE IInv'
    BY <1>5, DispatchEndIInv
  <1> QED  BY <1>1, <1>2, <1>3, <1>4, <1>5 DEF LoopStep

\* Nothing happens.
LEMMA StutterIInv ==
  ASSUME IInv, UNCHANGED vars
  PROVE  IInv'
  <1>1. /\ UNCHANGED <<kind, gsource, gref, active, attached, callback, cbRef>>
        /\ UNCHANGED <<data, dataNode, owns, wrapper, refCount, keep, holders>>
        /\ UNCHANGED <<node, nodeSrc, connected, stack, probe, conn, cont>>
    BY DEF vars, gvars, dvars, wvars, nvars, lvars
  <1>2. \A s \in Sources : SameAccounts(s) /\ SameSource(s) /\ (DataHeld(s)' <=> DataHeld(s))
    BY <1>1, AccountsKept DEF SameSource, SameAccounts, DataHeld, OnStack
  <1>3. \A s \in Sources : SourceOK(s)'
    BY <1>2, SourceKept DEF IInv
  <1>4. TypeOK'
    BY <1>1 DEF IInv, TypeOK
  <1>5. PlansOK' /\ NodesOK'
    BY <1>1, <1>2, PlansKept, NodesKept DEF IInv
  <1>6. LoopOK'
    BY <1>1 DEF IInv, LoopOK
  <1>8. ConnsOK'
    <2>1. \A v \in Threads : Plan(v)' = Plan(v) /\ \A r : On(v, r)' <=> On(v, r)
      BY <1>1 DEF Plan, On, Src
    <2> QED  BY <1>1, <2>1 DEF IInv, ConnsOK, ConnOK, Destroyer, Loose
  <1>7. Connecting'
    BY <1>1 DEF IInv, Connecting, Untouched, On, Src, Plan
  <1> QED  BY <1>8, <1>3, <1>4, <1>5, <1>6, <1>7 DEF IInv

LEMMA NextIInv ==
  ASSUME ~ConnectRaces
  PROVE  IInv /\ [Next]_vars => IInv'
  <1> SUFFICES ASSUME IInv, [Next]_vars PROVE IInv'
    OBVIOUS
  <1>1. ASSUME NEW t \in Threads, NEW s \in Sources,
               Create(t, s) \/ CreateIO(t, s) \/ CreateSocketSource(t, s)
        PROVE  IInv'
    BY <1>1, NewWrapperIInv DEF Create, CreateIO, CreateSocketSource, WrapperKinds
  <1>2. ASSUME NEW t \in Threads, NEW s \in Sources, CreateThrows(t, s) PROVE IInv'
    BY <1>2, CreateThrowsIInv
  <1>3. ASSUME NEW t \in Threads, NEW s \in Sources, Unreference(t, s) PROVE IInv'
    BY <1>3, UnreferenceIInv
  <1>4. ASSUME NEW t \in Threads, NEW s \in Sources, Attach(t, s) PROVE IInv'
    BY <1>4, AttachIInv
  <1>5. ASSUME NEW t \in Threads, NEW s \in Sources, Destroy(t, s) PROVE IInv'
    BY <1>5, DestroyIInv
  <1>6. ASSUME NEW t \in Threads, NEW u \in Threads, NEW s \in Sources, Reference(t, u, s)
        PROVE  IInv'
    BY <1>6, ReferenceIInv
  <1>7. ASSUME NEW t \in Threads, NEW s \in Sources, NEW n \in Nodes, Connect(t, s, n)
        PROVE  IInv'
    BY <1>7, ConnectIInv
  <1>8. ASSUME NEW t \in Threads, NEW s \in Sources, NEW n \in Nodes, NEW k \in {"signal", "once"},
               ConnectSignal(t, s, n, k)
        PROVE  IInv'
    BY <1>8, ConnectSignalIInv DEF SignalKinds
  <1>9. ASSUME NEW s \in Sources, NEW n \in Nodes, ConnectChildWatch(s, n) \/ ConnectSocket(s, n)
        PROVE  IInv'
    BY <1>9, ConnectSignalIInv DEF ConnectChildWatch, ConnectSocket, SignalKinds, Threads
  <1>10. ASSUME NEW s \in Sources, NEW n \in Nodes, ConnectIO(s, n) PROVE IInv'
    BY <1>10, ConnectIOIInv
  <1>11. ASSUME NEW t \in Threads, NEW s \in Sources, NEW n \in Nodes, Invoke(t, s, n)
         PROVE  IInv'
    BY <1>11, InvokeIInv
  <1>12. ASSUME NEW n \in Nodes, Disconnect(n) PROVE IInv'
    BY <1>12, DisconnectIInv
  <1>13. ASSUME NEW t \in Threads, Step(t) PROVE IInv'
    BY <1>13, StepIInv
  <1>14. CASE LoopStep
    BY <1>14, LoopStepIInv
  <1>15. CASE UNCHANGED vars
    BY <1>15, StutterIInv
  <1> QED  BY <1>1, <1>2, <1>3, <1>4, <1>5, <1>6, <1>7, <1>8, <1>9, <1>10, <1>11, <1>12, <1>13,
              <1>14, <1>15 DEF Next

(***************************************************************************)
(* If threads leave a source alone while another one connects a slot to it *)
(* or disconnects one, then in every reachable state each of the four      *)
(* counters is the number of those that hold the object, threads follow    *)
(* their plans, nodes and callback data point to each other, and what      *)
(* connect_generic() and notify() have read is still so when they use it.  *)
(***************************************************************************)
THEOREM SourceInvariant ==
  ASSUME ~ConnectRaces
  PROVE  Spec => []IInv
  BY InitIInv, NextIInv, PTL DEF Spec

-----------------------------------------------------------------------------
(* The safety of the sources.                                              *)

(***************************************************************************)
(* While a source is dispatched its GSource, its callback data, its node   *)
(* and its wrapper exist, whatever slots and other threads do, unless a    *)
(* slot gives its own source another slot.                                 *)
(***************************************************************************)
THEOREM DispatchesStayAlive ==
  ASSUME ~ConnectRaces, ~ReconnectInSlot
  PROVE  Spec => []DispatchAlive
  <1>1. IInv => DispatchAlive
    <2> SUFFICES ASSUME IInv, NEW i \in DOMAIN stack
                 PROVE  /\ gsource[stack[i].src] = "live"
                        /\ data[stack[i].src] = "live"
                        /\ kind[stack[i].src] \in WrapperKinds => wrapper[stack[i].src] = "live"
                        /\ stack[i].node # NULL => node[stack[i].node] = "live"
      BY DEF DispatchAlive
    <2>1. PICK s \in Sources : s = stack[i].src
      BY FrameType DEF IInv
    <2>2. /\ OnStack(s) /\ attached[s]
          /\ stack[i].node # NULL => dataNode[s] = stack[i].node
      BY <2>1 DEF OnStack, IInv, LoopOK
    <2>3. DataHeld(s) /\ (kind[s] \in WrapperKinds => wrapper[s] = "live")
      BY <2>2, CallbackHolds
    <2>4. gsource[s] = "live" /\ data[s] = "live"
      BY <2>3, HeldAlive
    <2>5. dataNode[s] # NULL => node[dataNode[s]] = "live"
      BY <2>3 DEF IInv, NodesOK, NodeOf
    <2> QED  BY <2>1, <2>2, <2>3, <2>4, <2>5
  <1> QED  BY <1>1, SourceInvariant, PTL

(***************************************************************************)
(* If the program does not connect to a destroyed source, every node       *)
(* belongs to existing callback data, or a thread is about to register it  *)
(* with them, and it points to an existing GSource, or to none: notify()   *)
(* never reads a freed one.                                                *)
(***************************************************************************)
THEOREM NodesStayOwned ==
  ASSUME ~ConnectRaces, ~ConnectDestroyed
  PROVE  Spec => []NodesOwned
  <1>1. IInv => NodesOwned
    <2> SUFFICES ASSUME IInv, NEW n \in Nodes, node[n] = "live"
                 PROVE  /\ \/ \E s \in Sources : dataNode[s] = n /\ data[s] = "live"
                           \/ \E t \in Threads : conn[t].step = "set_node" /\ conn[t].node = n
                        /\ nodeSrc[n] # NULL => gsource[nodeSrc[n]] = "live"
      BY DEF NodesOwned
    <2>1. BackRef(n) /\ TypeOK /\ n # NULL
      BY SourceAssumption DEF IInv, NodesOK
    <2>2. ASSUME NEW s \in Sources, dataNode[s] = n
          PROVE  data[s] = "live" /\ gsource[s] = "live"
      <3>1. DataHeld(s)
        BY <2>1, <2>2 DEF IInv, NodesOK, NodeOf
      <3> QED  BY <3>1, HeldAlive
    <2>3. \/ \E s \in Sources : dataNode[s] = n
          \/ \E t \in Threads : conn[t].step = "set_node" /\ conn[t].node = n
      BY <2>1 DEF BackRef
    <2>4. nodeSrc[n] # NULL => nodeSrc[n] \in Sources /\ dataNode[nodeSrc[n]] = n
      BY <2>1 DEF BackRef, TypeOK
    <2> QED  BY <2>2, <2>3, <2>4
  <1> QED  BY <1>1, SourceInvariant, PTL

(***************************************************************************)
(* A thread that holds a RefPtr has an existing wrapper and an existing    *)
(* GSource; set_node() gets existing callback data, install() an existing  *)
(* node and g_source_destroy() an existing GSource, although each of them  *)
(* runs some steps after its caller has read the pointer.                  *)
(***************************************************************************)
THEOREM CallersStayAlive ==
  ASSUME ~ConnectRaces, ~ConnectDestroyed
  PROVE  Spec => []CallersAlive
  <1>1. IInv => CallersAlive
    <2> SUFFICES ASSUME IInv PROVE CallersAlive
      OBVIOUS
    <2>1. ASSUME NEW s \in Sources, holders[s] # {}
          PROVE  wrapper[s] = "live" /\ gsource[s] = "live"
      <3>1. SourceOK(s) /\ gsource[s] = "live"
        BY <2>1, CountedOn DEF IInv
      <3>2. keep[s] = B(holders[s] # {}) + B(owns[s] /\ DataHeld(s)) + Cardinality(Keeps(s))
        BY <3>1 DEF SourceOK, Counted
      <3>3. B(holders[s] # {}) = 1 /\ B(owns[s] /\ DataHeld(s)) \in {0, 1}
        BY <2>1 DEF B
      <3>4. keep[s] > 0
        BY <3>2, <3>3, CountsType
      <3> QED  BY <3>1, <3>4 DEF SourceOK, WrapperLife
    <2>2. ASSUME NEW t \in Threads, Doing(t, "install")
          PROVE  node[dataNode[Src(t)]] = "live"
      <3>1. PICK s \in Sources : s = Src(t)
        BY <2>2, AtWork
      <3>2. On(t, s) /\ Connects(Plan(t))
        BY <2>2, <3>1, AtWork DEF Begins, Connects
      <3>3. callback[s] /\ dataNode[s] # NULL
        BY <3>2 DEF IInv, Connecting, Untouched
      <3>4. DataHeld(s)
        BY <3>3, CallbackHolds
      <3> QED  BY <3>1, <3>3, <3>4 DEF IInv, NodesOK, NodeOf
    <2>3. ASSUME NEW t \in Threads, conn[t].step = "set_node"
          PROVE  data[conn[t].src] = "live"
      <3>1. conn[t].src \in Sources /\ callback[conn[t].src]
        BY <2>3, ConnFacts DEF ConnOK
      <3> QED  BY <3>1, CallbackHolds, HeldAlive
    <2>4. ASSUME NEW t \in Threads, conn[t].step = "install"
          PROVE  node[conn[t].node] = "live"
      <3>1. PICK s \in Sources : s = conn[t].src
        BY <2>4, ConnFacts
      <3>2. conn[t].node # NULL /\ dataNode[s] = conn[t].node /\ callback[s]
        BY <2>4, <3>1, ConnFacts DEF ConnOK
      <3>3. DataHeld(s)
        BY <3>2, CallbackHolds
      <3> QED  BY <3>2, <3>3 DEF IInv, NodesOK, NodeOf
    <2>5. ASSUME NEW t \in Threads, Doing(t, "destroy")
          PROVE  gsource[Src(t)] = "live"
      <3>1. PICK s \in Sources : s = Src(t)
        BY <2>5, AtWork
      <3>2. On(t, s)
        BY <2>5, <3>1, AtWork
      <3>3. CASE Plan(t) # <<"destroy">>
        BY <3>1, <3>2, <3>3, AtWorkAlive
      <3>4. CASE Plan(t) = <<"destroy">>
        <4>1. Destroyer(t, s) /\ (conn[t] # NoConn => ConnOK(t))
          BY <3>2, <3>4 DEF IInv, ConnsOK
        <4>2. CASE t \in holders[s]
          BY <3>1, <4>2, CountedOn
        <4>3. CASE conn[t].step = "destroy" /\ conn[t].src = s
          <5>1. gref[s] > 0
            BY <4>1, <4>3 DEF ConnOK, NoConn
          <5> QED  BY <3>1, <5>1 DEF IInv, SourceOK, GLife
        <4> QED  BY <4>1, <4>2, <4>3 DEF Destroyer
      <3> QED  BY <3>3, <3>4
    <2> QED  BY <2>1, <2>2, <2>3, <2>4, <2>5 DEF CallersAlive
  <1> QED  BY <1>1, SourceInvariant, PTL

(***************************************************************************)
(* If the program does not connect to a destroyed source, a GSource is     *)
(* freed only when nobody is going to use it: its callback data and its    *)
(* wrapper are gone, and no node points to it.                             *)
(***************************************************************************)
THEOREM FreedLeavesNothing ==
  ASSUME ~ConnectRaces, ~ConnectDestroyed
  PROVE  Spec => []NothingLeft
  <1>1. IInv => NothingLeft
    <2> SUFFICES ASSUME IInv, NEW s \in Sources, gsource[s] = "freed"
                 PROVE  /\ data[s] = "deleted"
                        /\ wrapper[s] # "live"
                        /\ \A n \in Nodes : node[n] = "live" => nodeSrc[n] # s
      BY DEF NothingLeft, IInv
    <2>1. TypeOK /\ SourceOK(s)
      BY DEF IInv
    <2>2. ~DataHeld(s) /\ holders[s] = {}
      BY HeldAlive, CountedOn
    <2>3. \A t \in Threads : On(t, s) => Plan(t) = <<"destroy">>
      BY AtWorkAlive
    <2>4. DataFrees(s) = {} /\ Keeps(s) = {}
      BY <2>3 DEF DataFrees, Keeps, Frees, Begins
    <2>5. data[s] = "deleted"
      <3>1. data[s] # "live" /\ kind[s] # "none"
        BY <2>1, <2>2, <2>4 DEF SourceOK, DataLife, GLife
      <3> QED  BY <2>1, <3>1 DEF SourceOK, DataLife, TypeOK
    <2>6. wrapper[s] # "live"
      <3>1. keep[s] = B(holders[s] # {}) + B(owns[s] /\ DataHeld(s)) + Cardinality(Keeps(s))
        BY <2>1 DEF SourceOK, Counted
      <3>2. B(holders[s] # {}) = 0 /\ B(owns[s] /\ DataHeld(s)) = 0 /\ Cardinality(Keeps(s)) = 0
        BY <2>2, <2>4, FS_EmptySet DEF B
      <3> QED  BY <2>1, <3>1, <3>2 DEF SourceOK, WrapperLife
    <2>7. ASSUME NEW n \in Nodes, node[n] = "live", nodeSrc[n] = s
          PROVE  FALSE
      <3>1. dataNode[s] = n /\ n # NULL
        BY <2>7, SourceAssumption DEF IInv, NodesOK, BackRef
      <3> QED  BY <2>2, <2>7, <3>1 DEF IInv, NodesOK, NodeOf
    <2> QED  BY <2>5, <2>6, <2>7
  <1> QED  BY <1>1, SourceInvariant, PTL

(***************************************************************************)
(* A GSource exists only as long as somebody holds its wrapper, the        *)
(* context has it, or a thread or the loop is at work on it: the last one  *)
(* to let go of it frees it, in whatever order they do.                    *)
(***************************************************************************)
THEOREM UnusedIsReclaimed ==
  ASSUME ~ConnectRaces
  PROVE  Spec => []Reclaimed
  <1>1. IInv => Reclaimed
    <2> SUFFICES ASSUME IInv, NEW s \in Sources, gsource[s] = "live",
                        holders[s] = {}, ~(attached[s] /\ active[s]),
                        \A t \in Threads : ~On(t, s), probe.src # s, ~OnStack(s)
                 PROVE  FALSE
      BY DEF Reclaimed, OnStack
    <2>1. SourceOK(s)
      BY DEF IInv
    <2>2. GFrees(s) = {} /\ GUnrefs(s) = {} /\ GUnrefs2(s) = {}
      BY DEF GFrees, GUnrefs, GUnrefs2
    <2>3. gref[s] > 0
      BY <2>1, <2>2 DEF SourceOK, GLife
    <2>4. gref[s] = 0
      <3>1. gref[s] = GRefs(s)
        BY <2>1 DEF SourceOK, Counted
      <3>2. Cardinality(GUnrefs(s)) = 0 /\ Cardinality(GUnrefs2(s)) = 0
        BY <2>2, FS_EmptySet
      <3> QED  BY <3>1, <3>2 DEF GRefs, B
    <2> QED  BY <2>3, <2>4
  <1> QED  BY <1>1, SourceInvariant, PTL

-----------------------------------------------------------------------------

(***************************************************************************)
(* TimeoutSource, for every clock, interval and width of int.              *)
(***************************************************************************)

\* Three facts of arithmetic.
LEMMA Product ==
  ASSUME NEW a \in Nat, NEW b \in Nat PROVE a * b \in Nat
BY SMT

LEMMA Monotone ==
  ASSUME NEW a \in Nat, NEW b \in Nat, NEW c \in Nat, a <= b PROVE a * c <= b * c
BY SMT

LEMMA Quotient ==
  ASSUME NEW a \in Nat, NEW b \in Nat \ {0}
  PROVE /\ a \div b \in Nat
        /\ (a \div b) * b <= a
        /\ a \div b = 0 => a < b
BY SMT

\* The interval in microseconds is a natural number.
LEMMA Interval ==
  ASSUME TimeoutTypeOK PROVE ms2us(interval) \in Nat
BY Product, TimeoutSourceAssumption DEF TimeoutTypeOK, ms2us

(***************************************************************************)
(* The inductive invariant.  While the clock has not been set back the     *)
(* context's time is not ahead of it and the timeout is at most one        *)
(* interval away; a poll that may sleep was given a timeout that ends      *)
(* before the expiration.                                                  *)
(***************************************************************************)
TimeoutInv ==
  /\ TimeoutTypeOK
  /\ setbacks = 0 => cached <= now /\ expiration <= cached + ms2us(interval)
  /\ NoOversleep

\* The constructor establishes the invariant.
LEMMA TimeoutInitially == TimeoutInit => TimeoutInv
<1> SUFFICES ASSUME TimeoutInit PROVE TimeoutInv
    OBVIOUS
<1>1. ms2us(interval) \in Nat
  BY Product, TimeoutSourceAssumption DEF TimeoutInit, ms2us
<1>2. TimeoutTypeOK
  <2>1. ready \in BOOLEAN
    BY DEF TimeoutInit
  <2> QED
    BY <1>1, <2>1, TimeoutSourceAssumption DEF TimeoutInit, TimeoutTypeOK, Phases, ms2us
<1>3. /\ setbacks = 0 => cached <= now /\ expiration <= cached + ms2us(interval)
      /\ NoOversleep
  BY <1>1, TimeoutSourceAssumption DEF TimeoutInit, NoOversleep
<1> QED
  BY <1>2, <1>3 DEF TimeoutInv

\* prepare() preserves the invariant, in each of its three cases.
LEMMA PrepareKeeps ==
  ASSUME TimeoutInv, Prepare PROVE TimeoutInv'
<1>1. ms2us(interval) \in Nat
  BY Interval DEF TimeoutInv
<1>2. CASE Expired
  BY <1>1, <1>2, TimeoutSourceAssumption
  DEF TimeoutInv, TimeoutTypeOK, Prepare, Expired, NoOversleep, Phases, ms2us
<1>3. CASE ~Expired /\ SetBack
  <2>1. AtMost(MaxInt, interval) \in 0..MaxInt /\ AtMost(MaxInt, interval) <= interval
    BY TimeoutSourceAssumption DEF AtMost, TimeoutInv, TimeoutTypeOK
  <2>2. ms2us(AtMost(MaxInt, interval)) <= ms2us(interval)
    BY <2>1, Monotone, TimeoutSourceAssumption DEF ms2us, TimeoutInv, TimeoutTypeOK
  <2>3. ~(setbacks = 0)
    BY <1>1, <1>3 DEF TimeoutInv, SetBack, TimeoutTypeOK
  <2> QED
    BY <1>1, <1>3, <2>1, <2>2, <2>3, TimeoutSourceAssumption
    DEF TimeoutInv, TimeoutTypeOK, Prepare, NoOversleep, Phases, ms2us
<1>4. CASE ~Expired /\ ~SetBack
  <2>1. expiration - cached \in Nat /\ expiration - cached <= ms2us(interval)
    BY <1>1, <1>4 DEF TimeoutInv, TimeoutTypeOK, Expired, SetBack
  <2>2. /\ Remaining \in 0..MaxInt
        /\ ms2us(Remaining) <= expiration - cached
    <3> DEFINE q == (expiration - cached) \div UsPerMs
    <3>1. q \in Nat /\ q * UsPerMs <= expiration - cached
      BY <2>1, Quotient, TimeoutSourceAssumption
    <3> HIDE DEF q
    <3>2. Remaining = AtMost(MaxInt, q)
      BY DEF Remaining, q
    <3>3. Remaining \in 0..MaxInt /\ Remaining <= q
      BY <3>1, <3>2, TimeoutSourceAssumption DEF AtMost
    <3>4. Remaining * UsPerMs <= q * UsPerMs
      BY <3>1, <3>3, Monotone, TimeoutSourceAssumption
    <3>5. Remaining * UsPerMs \in Nat /\ q * UsPerMs \in Nat
      BY <3>1, <3>3, Product, TimeoutSourceAssumption
    <3> QED
      BY <2>1, <3>1, <3>3, <3>4, <3>5 DEF ms2us
  <2>3. Remaining <= interval
    <3>1. Remaining * UsPerMs <= interval * UsPerMs
      BY <1>1, <2>1, <2>2, Product, TimeoutSourceAssumption DEF ms2us, TimeoutInv, TimeoutTypeOK
    <3> QED
      BY <2>2, <3>1, SMT, TimeoutSourceAssumption DEF TimeoutInv, TimeoutTypeOK
  <2>4. ms2us(Remaining) \in Nat
    BY <2>2, Product, TimeoutSourceAssumption DEF ms2us
  <2> HIDE DEF Remaining
  <2> QED
    BY <1>1, <1>4, <2>1, <2>2, <2>3, <2>4, TimeoutSourceAssumption
    DEF TimeoutInv, TimeoutTypeOK, Prepare, NoOversleep, Phases, ms2us
<1> QED
  BY <1>2, <1>3, <1>4

\* So does every step.
LEMMA TimeoutInductive ==
  ASSUME TimeoutInv, [TimeoutNext]_timeoutVars PROVE TimeoutInv'
<1>1. ms2us(interval) \in Nat
  BY Interval DEF TimeoutInv
<1>2. CASE Prepare
  BY <1>2, PrepareKeeps
<1>3. CASE AttachTimeout
  BY <1>1, <1>3 DEF TimeoutInv, TimeoutTypeOK, AttachTimeout, NoOversleep, Phases, ms2us
<1>4. CASE PollReturns
  BY <1>1, <1>4 DEF TimeoutInv, TimeoutTypeOK, PollReturns, NoOversleep, Phases, ms2us
<1>5. CASE Check
  BY <1>1, <1>5 DEF TimeoutInv, TimeoutTypeOK, Check, NoOversleep, Phases, ms2us
<1>6. ASSUME NEW again \in BOOLEAN, Dispatch(again) PROVE TimeoutInv'
  <2>0. ready' \in BOOLEAN
    BY <1>6 DEF Dispatch
  <2>1. CASE again
    BY <1>1, <1>6, <2>0, <2>1 DEF TimeoutInv, TimeoutTypeOK, Dispatch, Rearm, NoOversleep, Phases, ms2us
  <2>2. CASE ~again
    BY <1>1, <1>6, <2>0, <2>2 DEF TimeoutInv, TimeoutTypeOK, Dispatch, NoOversleep, Phases, ms2us
  <2> QED
    BY <2>1, <2>2
<1>7. CASE Tick
  BY <1>1, <1>7, TimeoutSourceAssumption DEF TimeoutInv, TimeoutTypeOK, Tick, NoOversleep, Phases, ms2us
<1>8. ASSUME NEW t \in 0..MaxNow, SetClockBack(t) PROVE TimeoutInv'
  BY <1>1, <1>8, TimeoutSourceAssumption DEF TimeoutInv, TimeoutTypeOK, SetClockBack, NoOversleep, Phases, ms2us
<1>9. CASE UNCHANGED timeoutVars
  BY <1>9 DEF TimeoutInv, TimeoutTypeOK, NoOversleep, timeoutVars, ms2us
<1> QED
  BY <1>2, <1>3, <1>4, <1>5, <1>6, <1>7, <1>8, <1>9 DEF TimeoutNext

(***************************************************************************)
(* TimeoutTypeOK: the timeout prepare() returns is an int and never negative, for *)
(* every interval and clock.                                               *)
(***************************************************************************)
THEOREM TimeoutTypeCorrect == TimeoutSpec => []TimeoutTypeOK
<1>1. TimeoutInv /\ [TimeoutNext]_timeoutVars => TimeoutInv'
  BY TimeoutInductive
<1>2. TimeoutInv => TimeoutTypeOK
  BY DEF TimeoutInv
<1> QED
  BY TimeoutInitially, <1>1, <1>2, PTL DEF TimeoutSpec

(***************************************************************************)
(* NoOversleep: prepare() never lets the loop sleep past the expiration    *)
(* nor longer than an interval, even if the clock is set back any number   *)
(* of times.                                                               *)
(***************************************************************************)
THEOREM LoopWakesInTime == TimeoutSpec => []NoOversleep
<1>1. TimeoutInv /\ [TimeoutNext]_timeoutVars => TimeoutInv'
  BY TimeoutInductive
<1>2. TimeoutInv => NoOversleep
  BY DEF TimeoutInv
<1> QED
  BY TimeoutInitially, <1>1, <1>2, PTL DEF TimeoutSpec

(***************************************************************************)
(* NeverPostponed: prepare() leaves expiration_ alone unless the clock has *)
(* been set back.                                                          *)
(***************************************************************************)
THEOREM ArmedTimeoutsStay == TimeoutSpec => NeverPostponed
<1> DEFINE Stays == expiration' # expiration => phase = "dispatch" \/ setbacks > 0
<1>1. TimeoutInv /\ [TimeoutNext]_timeoutVars => TimeoutInv'
  BY TimeoutInductive
<1>2. TimeoutInv /\ [TimeoutNext]_timeoutVars => [Stays]_timeoutVars
  <2> SUFFICES ASSUME TimeoutInv, [TimeoutNext]_timeoutVars, expiration' # expiration PROVE Stays
    OBVIOUS
  <2>1. ms2us(interval) \in Nat
    BY Interval DEF TimeoutInv
  <2>2. CASE Prepare
    BY <2>1, <2>2, TimeoutSourceAssumption DEF TimeoutInv, TimeoutTypeOK, Prepare, SetBack
  <2>3. ASSUME NEW again \in BOOLEAN, Dispatch(again) PROVE Stays
    BY <2>3 DEF Dispatch
  <2> QED
    BY <2>2, <2>3 DEF TimeoutNext, timeoutVars, AttachTimeout, PollReturns, Check, Tick, SetClockBack
<1> QED
  BY TimeoutInitially, <1>1, <1>2, PTL DEF TimeoutSpec, NeverPostponed

(***************************************************************************)
(* NotMuchTooEarly: prepare() and check() call a source ready when less    *)
(* than a millisecond is left.                                             *)
(***************************************************************************)
THEOREM LessThanAMillisecondEarly == TimeoutSpec => NotMuchTooEarly
<1> DEFINE Close == ready' /\ ~ready => expiration' - cached' < UsPerMs
<1>1. TimeoutInv /\ [TimeoutNext]_timeoutVars => TimeoutInv'
  BY TimeoutInductive
<1>2. TimeoutInv /\ [TimeoutNext]_timeoutVars => [Close]_timeoutVars
  <2> SUFFICES ASSUME TimeoutInv, [TimeoutNext]_timeoutVars, ready', ~ready
               PROVE expiration' - cached' < UsPerMs
    OBVIOUS
  <2>1. CASE Prepare
    <3>1. timeout' = 0 /\ cached' = cached
      BY <2>1 DEF Prepare
    <3>2. CASE Expired
      BY <2>1, <3>1, <3>2, TimeoutSourceAssumption DEF TimeoutInv, TimeoutTypeOK, Prepare, Expired
    <3>3. CASE ~Expired /\ SetBack
      <4>1. interval = 0
        BY <2>1, <3>1, <3>3, TimeoutSourceAssumption DEF TimeoutInv, TimeoutTypeOK, Prepare, AtMost
      <4> QED
        BY <2>1, <3>1, <3>3, <4>1, TimeoutSourceAssumption
        DEF TimeoutInv, TimeoutTypeOK, Prepare, ms2us
    <3>4. CASE ~Expired /\ ~SetBack
      <4>1. expiration - cached \in Nat
        BY <3>4 DEF TimeoutInv, TimeoutTypeOK, Expired
      <4>2. AtMost(MaxInt, (expiration - cached) \div UsPerMs) = 0 /\ expiration' = expiration
        BY <2>1, <3>1, <3>4 DEF Prepare, Remaining
      <4>3. (expiration - cached) \div UsPerMs = 0
        BY <4>1, <4>2, Quotient, TimeoutSourceAssumption DEF AtMost
      <4> QED
        BY <3>1, <4>1, <4>2, <4>3, Quotient, TimeoutSourceAssumption
    <3> QED
      BY <3>2, <3>3, <3>4
  <2>2. CASE Check
    BY <2>2, TimeoutSourceAssumption DEF TimeoutInv, TimeoutTypeOK, Check, IsDue
  <2>3. ASSUME NEW again \in BOOLEAN, Dispatch(again) PROVE FALSE
    BY <2>3 DEF Dispatch
  <2> QED
    BY <2>1, <2>2, <2>3 DEF TimeoutNext, timeoutVars, AttachTimeout, PollReturns, Tick, SetClockBack
<1> QED
  BY TimeoutInitially, <1>1, <1>2, PTL DEF TimeoutSpec, NotMuchTooEarly

=============================================================================
