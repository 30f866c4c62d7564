-------------------------- MODULE FrameStreamProofs --------------------------
(***************************************************************************)
(* Theorems about FrameStream and, at the end, TraceGeometry: for every    *)
(* stream of records, every way the socket cuts it and every detector, the *)
(* frames are handed on once and as they were sent, and each sweep's       *)
(* points are the levels that were measured in their cells.                *)
(*                                                                         *)
(* Nothing here is by induction over data.  A loop of n turns is a         *)
(* function on 0..n, which exists, and which keeps whatever its turns keep *)
(* because no turn is the first to lose it (UpTo).  Concatenations and     *)
(* loops that occur more than once are compared through operators named    *)
(* for what they say (IsCat, IsPart, Maps).                                *)
(***************************************************************************)
EXTENDS FrameStream, FiniteSetTheorems, SequenceTheorems, WellFoundedInduction, TLAPS

-----------------------------------------------------------------------------
(* Loops.                                                                  *)

LEMMA LeastNatural ==
  ASSUME NEW T \in SUBSET Nat, T # {} PROVE \E x \in T : \A y \in T : x <= y
<1>1. PICK R : IsWellFoundedOn(R, Nat) /\ \A x, y \in Nat : <<y, x>> \in R <=> y < x
  <2>1. \A x, y \in Nat : <<y, x>> \in OpToRel(<, Nat) <=> y < x BY DEF OpToRel
  <2>. QED BY <2>1, NatLessThanWellFounded
<1>2. PICK x \in T : \A y \in T : <<y, x>> \notin R BY <1>1, WFMin
<1>3. ASSUME NEW y \in T PROVE x <= y
  <2>1. x \in Nat /\ y \in Nat OBVIOUS
  <2>2. ~(y < x) BY <1>1, <1>2, <2>1
  <2>. QED BY <2>1, <2>2
<1>. QED BY <1>3

\* Induction over the numbers up to n, as a fact about a set.
LEMMA UpTo ==
  ASSUME NEW n \in Nat, NEW S, 0 \in S, \A i \in 1..n : i - 1 \in S => i \in S
  PROVE  \A i \in 0..n : i \in S
<1> DEFINE T == {i \in 0..n : i \notin S}
<1>1. SUFFICES ASSUME T # {} PROVE FALSE OBVIOUS
<1>0. T \in SUBSET Nat OBVIOUS
<1>2. PICK x \in T : \A y \in T : x <= y BY <1>0, <1>1, LeastNatural
<1>3. x # 0 /\ x \in 1..n /\ x - 1 \in 0..n OBVIOUS
<1>4. x - 1 \in T BY <1>3
<1>. QED BY <1>2, <1>3, <1>4

\* Whatever a loop of n turns keeps, turn by turn: there is a function that the
\* recursion describes, and every such function has it.
IsLoop(f, n, first, step) ==
  f = [i \in 0..n |-> IF i = 0 THEN first ELSE step[i][f[i - 1]]]

LEMMA LoopExists ==
  ASSUME NEW n \in Nat, NEW first, NEW step PROVE \E f : IsLoop(f, n, first, step)
<1> DEFINE S == {m \in 0..n : \E f : IsLoop(f, m, first, step)}
<1>1. 0 \in S
  <2>1. IsLoop([i \in 0..0 |-> first], 0, first, step) BY DEF IsLoop
  <2>. QED BY <2>1
<1>2. ASSUME NEW m \in 1..n, m - 1 \in S PROVE m \in S
  <2>1. PICK f : IsLoop(f, m - 1, first, step) BY <1>2
  <2>2. PICK g : g = [i \in 0..m |-> IF i = m THEN step[m][f[m - 1]] ELSE f[i]] OBVIOUS
  <2>3. ASSUME NEW i \in 0..m PROVE g[i] = IF i = 0 THEN first ELSE step[i][g[i - 1]]
    <3>1. CASE i = m BY <2>2, <3>1
    <3>2. CASE i # m
      <4>1. i \in 0..(m - 1) /\ i - 1 # m BY <3>2
      <4>2. f[i] = IF i = 0 THEN first ELSE step[i][f[i - 1]] BY <2>1, <4>1 DEF IsLoop
      <4>3. i # 0 => i - 1 \in 0..(m - 1) /\ g[i - 1] = f[i - 1] BY <2>2, <4>1
      <4>. QED BY <2>2, <3>2, <4>2, <4>3
    <3>. QED BY <3>1, <3>2
  <2>4. IsLoop(g, m, first, step)
    <3>1. PICK h : h = [i \in 0..m |-> IF i = 0 THEN first ELSE step[i][g[i - 1]]] OBVIOUS
    <3>2. \A i \in 0..m : g[i] = h[i] BY <2>3, <3>1
    <3>3. g = h BY <2>2, <3>1, <3>2
    <3>. QED BY <3>1, <3>3 DEF IsLoop
  <2>. QED BY <2>4
<1>3. n \in S
  <2> HIDE DEF S
  <2>1. \A i \in 1..n : i - 1 \in S => i \in S BY <1>2
  <2>. QED BY <1>1, <2>1, UpTo
<1>. QED BY <1>3

LEMMA LoopKeeps ==
  ASSUME NEW n \in Nat, NEW first, NEW step, NEW f, IsLoop(f, n, first, step),
         NEW X, first \in X[0], \A i \in 1..n : \A x \in X[i - 1] : step[i][x] \in X[i]
  PROVE  \A i \in 0..n : f[i] \in X[i]
<1> DEFINE S == {i \in 0..n : f[i] \in X[i]}
<1>1. 0 \in S BY DEF IsLoop
<1>2. ASSUME NEW i \in 1..n, i - 1 \in S PROVE i \in S
  <2>1. f[i] = step[i][f[i - 1]] BY DEF IsLoop
  <2>2. f[i - 1] \in X[i - 1] BY <1>2
  <2>. QED BY <2>1, <2>2
<1>3. \A i \in 0..n : i \in S
  <2> HIDE DEF S
  <2>. QED BY <1>1, <1>2, UpTo
<1>. QED BY <1>3

-----------------------------------------------------------------------------
(* FlattenSeq.                                                             *)

IsFlat(ss, T, f) ==
  /\ f \in [0..Len(ss) -> Seq(T)] /\ f[0] = <<>>
  /\ \A i \in 1..Len(ss) : f[i] = f[i - 1] \o ss[i]
  /\ FlattenSeq(ss) = f[Len(ss)]

LEMMA FlatExists ==
  ASSUME NEW T, NEW ss \in Seq(Seq(T)) PROVE \E f : IsFlat(ss, T, f)
<1>1. PICK n \in Nat : n = Len(ss) OBVIOUS
<1>2. \A i \in 1..n : ss[i] \in Seq(T) BY <1>1
<1>3. CASE n = 0
  <2>0. ss = <<>> BY <1>1, <1>3, EmptySeq
  <2>1. FlattenSeq(ss) = <<>> BY <1>1, <1>3, <2>0 DEF FlattenSeq
  <2>2. IsFlat(ss, T, [i \in 0..0 |-> <<>>]) BY <1>1, <1>3, <2>1 DEF IsFlat
  <2>. QED BY <2>2
<1>4. CASE n # 0
  <2>1. PICK step : step = [i \in 1..n |-> [x \in Seq(T) |-> x \o ss[i]]] OBVIOUS
  <2>2. PICK f : IsLoop(f, n, <<>>, step) BY LoopExists
  <2>3. \A i \in 0..n : f[i] \in Seq(T)
    <3>1. PICK X : X = [i \in 0..n |-> Seq(T)] OBVIOUS
    <3>2. ASSUME NEW i \in 1..n, NEW x \in X[i - 1] PROVE step[i][x] \in X[i]
      <4>1. i - 1 \in 0..n /\ i \in 0..n OBVIOUS
      <4>2. x \in Seq(T) /\ X[i] = Seq(T) BY <3>1, <4>1
      <4>3. step[i][x] = x \o ss[i] BY <2>1, <4>2
      <4>. QED BY <1>2, <4>2, <4>3
    <3>3. <<>> \in X[0] BY <3>1
    <3>4. \A i \in 0..n : f[i] \in X[i] BY <2>2, <3>2, <3>3, LoopKeeps
    <3>. QED BY <3>1, <3>4
  <2>4. /\ f[0] = <<>> /\ f = [i \in 0..n |-> f[i]]
        /\ \A i \in 1..n : f[i] = f[i - 1] \o ss[i]
    <3>1. f[0] = <<>> /\ f = [i \in 0..n |-> f[i]] BY <2>2 DEF IsLoop
    <3>2. ASSUME NEW i \in 1..n PROVE f[i] = f[i - 1] \o ss[i]
      <4>1. f[i] = step[i][f[i - 1]] BY <2>2 DEF IsLoop
      <4>2. f[i - 1] \in Seq(T) BY <2>3
      <4>. QED BY <2>1, <4>1, <4>2
    <3>. QED BY <3>1, <3>2
  <2>5. PICK e : e = [i \in 1..n |-> f[i]] OBVIOUS
  <2>6. e = [i \in 1..n |-> IF i = 1 THEN ss[i] ELSE e[i - 1] \o ss[i]]
    <3>1. f[1] = ss[1]
      <4>0. 1 \in 1..n /\ 1 - 1 = 0 BY <1>4
      <4>1. f[1] = f[1 - 1] \o ss[1] /\ ss[1] \in Seq(T) BY <1>2, <2>4, <4>0
      <4>2. f[1 - 1] = <<>> BY <2>4
      <4>. QED BY <4>1, <4>2
    <3>2. ASSUME NEW i \in 1..n PROVE e[i] = IF i = 1 THEN ss[i] ELSE e[i - 1] \o ss[i]
      <4>1. i # 1 => i - 1 \in 1..n OBVIOUS
      <4>. QED BY <2>4, <2>5, <3>1, <4>1
    <3>. QED BY <2>5, <3>2
  <2>7. PICK g : /\ g = (CHOOSE h : h = [i \in 1..n |-> IF i = 1 THEN ss[i] ELSE h[i - 1] \o ss[i]])
                 /\ FlattenSeq(ss) = g[n]
    BY <1>1, <1>4 DEF FlattenSeq
  <2>8. g = [i \in 1..n |-> IF i = 1 THEN ss[i] ELSE g[i - 1] \o ss[i]]
    BY <2>6, <2>7
  <2>9. \A i \in 0..n : i \in {k \in 0..n : k # 0 => g[k] = f[k]}
    <3> DEFINE S == {k \in 0..n : k # 0 => g[k] = f[k]}
    <3>1. 0 \in S OBVIOUS
    <3>2. ASSUME NEW i \in 1..n, i - 1 \in S PROVE i \in S
      <4>1. CASE i = 1
        <5>1. g[1] = ss[1] /\ e[1] = ss[1] BY <1>4, <2>6, <2>8
        <5>. QED BY <1>4, <2>5, <4>1, <5>1
      <4>2. CASE i # 1
        <5>1. i - 1 \in 1..n /\ g[i - 1] = f[i - 1] BY <3>2, <4>2
        <5>2. g[i] = g[i - 1] \o ss[i] BY <2>8, <4>2
        <5>3. f[i] = f[i - 1] \o ss[i] BY <2>4
        <5>4. g[i] = f[i] BY <5>1, <5>2, <5>3
        <5>. QED BY <5>4
      <4>. QED BY <4>1, <4>2
    <3> HIDE DEF S
    <3>3. \A i \in 0..n : i \in S BY <3>1, <3>2, UpTo
    <3>. QED BY <3>3 DEF S
  <2>10. FlattenSeq(ss) = f[n]
    <3>1. n \in {k \in 0..n : k # 0 => g[k] = f[k]} BY <2>9
    <3>. QED BY <1>4, <2>7, <3>1
  <2>11. f \in [0..n -> Seq(T)] BY <2>3, <2>4
  <2>12. IsFlat(ss, T, f) BY <1>1, <2>4, <2>10, <2>11 DEF IsFlat
  <2>. QED BY <2>12
<1>. QED BY <1>3, <1>4

LEMMA FlatType ==
  ASSUME NEW T, NEW ss \in Seq(Seq(T)) PROVE FlattenSeq(ss) \in Seq(T)
<1>1. PICK f : IsFlat(ss, T, f) BY FlatExists
<1>. QED BY <1>1 DEF IsFlat

\* The two ways to put three sequences together.
LeftCat(a, b, c)  == (a \o b) \o c
RightCat(a, b, c) == a \o (b \o c)

LEMMA CatAssoc ==
  ASSUME NEW T, NEW a \in Seq(T), NEW b \in Seq(T), NEW c \in Seq(T)
  PROVE  LeftCat(a, b, c) = RightCat(a, b, c)
<1>1. PICK x, y : x = (a \o b) \o c /\ y = a \o (b \o c) OBVIOUS
<1>2. x \in Seq(T) /\ y \in Seq(T) /\ Len(x) = Len(y) BY <1>1
<1>3. \A i \in 1..Len(x) : x[i] = y[i] BY <1>1
<1>4. x = y BY <1>2, <1>3, SeqEqual
<1>. QED BY <1>1, <1>4 DEF LeftCat, RightCat

\* A concatenation, and where its parts are.
IsCat(c, a, b, T) ==
  /\ a \in Seq(T) /\ b \in Seq(T) /\ c \in Seq(T) /\ c = a \o b
  /\ Len(a) \in Nat /\ Len(b) \in Nat /\ Len(c) = Len(a) + Len(b)
  /\ \A i \in 1..Len(a) : c[i] = a[i]
  /\ \A i \in 1..Len(b) : c[Len(a) + i] = b[i]

LEMMA CatIs ==
  ASSUME NEW T, NEW a \in Seq(T), NEW b \in Seq(T), NEW c, c = a \o b
  PROVE  IsCat(c, a, b, T)
<1>1. a \o b \in Seq(T) /\ Len(a \o b) = Len(a) + Len(b) OBVIOUS
<1>2. Len(a) \in Nat /\ Len(b) \in Nat OBVIOUS
<1>3. ASSUME NEW i \in 1..Len(a) PROVE (a \o b)[i] = a[i] OBVIOUS
<1>4. ASSUME NEW i \in 1..Len(b) PROVE (a \o b)[Len(a) + i] = b[i]
  <2>1. Len(a) + i \in (Len(a) + 1)..(Len(a) + Len(b)) /\ (Len(a) + i) - Len(a) = i BY <1>2
  <2>2. (a \o b)[Len(a) + i] = b[(Len(a) + i) - Len(a)] BY <1>2, <2>1
  <2>. QED BY <2>1, <2>2
<1>. QED BY <1>1, <1>2, <1>3, <1>4 DEF IsCat

\* n elements of a sequence, from after the first m on.
IsPart(p, s, m, n, T) ==
  p \in Seq(T) /\ Len(p) = n /\ \A i \in 1..n : p[i] = s[m + i]

LEMMA PartIs ==
  ASSUME NEW T, NEW s \in Seq(T), NEW m \in Nat, NEW n \in Nat, m + n <= Len(s)
  PROVE  IsPart(SubSeq(s, m + 1, m + n), s, m, n, T)
<1>1. \A i \in (m + 1)..(m + n) : s[i] \in T OBVIOUS
<1>2. SubSeq(s, m + 1, m + n) \in Seq(T) BY <1>1, SubSeqProperties
<1>3. Len(SubSeq(s, m + 1, m + n)) = n OBVIOUS
<1>4. \A i \in 1..n : SubSeq(s, m + 1, m + n)[i] = s[m + i] OBVIOUS
<1>. QED BY <1>2, <1>3, <1>4 DEF IsPart

LEMMA FlatEmpty == FlattenSeq(<<>>) = <<>>
BY DEF FlattenSeq

LEMMA FlatCat ==
  ASSUME NEW T, NEW ss \in Seq(Seq(T)), NEW tt \in Seq(Seq(T))
  PROVE  FlattenSeq(ss \o tt) = FlattenSeq(ss) \o FlattenSeq(tt)
<1>1. PICK m \in Nat, n \in Nat : m = Len(ss) /\ n = Len(tt) OBVIOUS
<1>2. PICK us : us = ss \o tt OBVIOUS
<1>3. us \in Seq(Seq(T)) /\ Len(us) = m + n BY <1>1, <1>2
<1>4. PICK f : IsFlat(ss, T, f) BY FlatExists
<1>5. PICK g : IsFlat(tt, T, g) BY FlatExists
<1>6. PICK h : IsFlat(us, T, h) BY <1>3, FlatExists
<1>7. h[m] = f[m]
  <2> DEFINE S == {k \in 0..m : h[k] = f[k]}
  <2>1. 0 \in S BY <1>4, <1>6 DEF IsFlat
  <2>2. ASSUME NEW i \in 1..m, i - 1 \in S PROVE i \in S
    <3>1. us[i] = ss[i]
      <4>1. i \in 1..Len(ss) BY <1>1
      <4>. QED BY <1>2, <4>1
    <3>2. h[i] = h[i - 1] \o us[i]
      <4>1. i \in 1..Len(us) BY <1>3
      <4>. QED BY <1>6, <4>1 DEF IsFlat
    <3>3. f[i] = f[i - 1] \o ss[i] BY <1>1, <1>4 DEF IsFlat
    <3>4. h[i - 1] = f[i - 1] BY <2>2
    <3>5. h[i] = f[i] BY <3>1, <3>2, <3>3, <3>4
    <3>. QED BY <3>5
  <2> HIDE DEF S
  <2>3. \A i \in 0..m : i \in S BY <2>1, <2>2, UpTo
  <2>. QED BY <2>3 DEF S
<1>8. h[m + n] = f[m] \o g[n]
  <2> DEFINE S == {k \in 0..n : h[m + k] = f[m] \o g[k]}
  <2>1. 0 \in S
    <3>1. f[m] \in Seq(T) BY <1>1, <1>4 DEF IsFlat
    <3>2. g[0] = <<>> BY <1>5 DEF IsFlat
    <3>3. f[m] \o g[0] = f[m] BY <3>1, <3>2
    <3>4. m + 0 = m /\ 0 \in 0..n OBVIOUS
    <3>5. h[m + 0] = f[m] \o g[0] BY <1>7, <3>3, <3>4
    <3>. QED BY <3>4, <3>5
  <2>2. ASSUME NEW i \in 1..n, i - 1 \in S PROVE i \in S
    <3>1. us[m + i] = tt[i] BY <1>1, <1>2
    <3>2. m + i \in 1..(m + n) /\ (m + i) - 1 = m + (i - 1) OBVIOUS
    <3>3. h[m + i] = h[m + (i - 1)] \o us[m + i] BY <1>3, <1>6, <3>2 DEF IsFlat
    <3>4. g[i] = g[i - 1] \o tt[i] BY <1>1, <1>5 DEF IsFlat
    <3>5. f[m] \in Seq(T) /\ g[i - 1] \in Seq(T) /\ tt[i] \in Seq(T)
      <4>1. f \in [0..m -> Seq(T)] /\ g \in [0..n -> Seq(T)] BY <1>1, <1>4, <1>5 DEF IsFlat
      <4>2. m \in 0..m /\ i - 1 \in 0..n /\ i \in 1..Len(tt) BY <1>1
      <4>. QED BY <4>1, <4>2
    <3>6. h[m + (i - 1)] = f[m] \o g[i - 1] BY <2>2
    <3>7. (f[m] \o g[i - 1]) \o tt[i] = f[m] \o (g[i - 1] \o tt[i])
      <4>1. LeftCat(f[m], g[i - 1], tt[i]) = RightCat(f[m], g[i - 1], tt[i])
        BY <3>5, CatAssoc
      <4>. QED BY <4>1 DEF LeftCat, RightCat
    <3>8. h[m + i] = f[m] \o g[i] BY <3>1, <3>3, <3>4, <3>6, <3>7
    <3>9. i \in 0..n OBVIOUS
    <3>. QED BY <3>8, <3>9
  <2> HIDE DEF S
  <2>3. \A i \in 0..n : i \in S BY <2>1, <2>2, UpTo
  <2>4. n \in S BY <2>3
  <2>. QED BY <2>4 DEF S
<1>. QED BY <1>1, <1>2, <1>3, <1>4, <1>5, <1>6, <1>8 DEF IsFlat

LEMMA FlatOne ==
  ASSUME NEW T, NEW s \in Seq(T) PROVE FlattenSeq(<<s>>) = s
<1>1. PICK ss : ss = <<s>> OBVIOUS
<1>2. ss \in Seq(Seq(T)) /\ Len(ss) = 1 /\ ss[1] = s BY <1>1
<1>3. PICK f : IsFlat(ss, T, f) BY <1>2, FlatExists
<1>4. f[1] = f[0] \o ss[1] /\ f[0] = <<>> /\ FlattenSeq(ss) = f[1] BY <1>2, <1>3 DEF IsFlat
<1>. QED BY <1>1, <1>2, <1>4

LEMMA FlatAppend ==
  ASSUME NEW T, NEW ss \in Seq(Seq(T)), NEW s \in Seq(T)
  PROVE  FlattenSeq(Append(ss, s)) = FlattenSeq(ss) \o s
<1>1. Append(ss, s) = ss \o <<s>> /\ <<s>> \in Seq(Seq(T)) OBVIOUS
<1>2. FlattenSeq(ss \o <<s>>) = FlattenSeq(ss) \o FlattenSeq(<<s>>) BY <1>1, FlatCat
<1>3. FlattenSeq(<<s>>) = s BY FlatOne
<1>. QED BY <1>1, <1>2, <1>3

LEMMA FlatHead ==
  ASSUME NEW T, NEW ss \in Seq(Seq(T)), ss # <<>>
  PROVE  FlattenSeq(ss) = Head(ss) \o FlattenSeq(Tail(ss))
<1>1. ss = <<Head(ss)>> \o Tail(ss) OBVIOUS
<1>2. Head(ss) \in Seq(T) /\ Tail(ss) \in Seq(Seq(T)) /\ <<Head(ss)>> \in Seq(Seq(T)) OBVIOUS
<1>3. FlattenSeq(<<Head(ss)>> \o Tail(ss)) = FlattenSeq(<<Head(ss)>>) \o FlattenSeq(Tail(ss))
  BY <1>2, FlatCat
<1>4. FlattenSeq(<<Head(ss)>>) = Head(ss) BY <1>2, FlatOne
<1>. QED BY <1>1, <1>3, <1>4

-----------------------------------------------------------------------------
(* Mapping and flattening.                                                 *)

Maps(F, D, T) == F \in [D -> Seq(T)]
Mapped(F, s) == [i \in 1..Len(s) |-> F[s[i]]]
FlatMap(F, s) == FlattenSeq(Mapped(F, s))

LEMMA MapType ==
  ASSUME NEW D, NEW T, NEW F, Maps(F, D, T),
         NEW s \in Seq(D)
  PROVE  Mapped(F, s) \in Seq(Seq(T)) /\ Len(Mapped(F, s)) = Len(s)
<1>1. \A i \in 1..Len(s) : F[s[i]] \in Seq(T) BY DEF Maps
<1>2. Len(s) \in Nat OBVIOUS
<1>. QED BY <1>1, <1>2 DEF Mapped

LEMMA MapCat ==
  ASSUME NEW D, NEW T, NEW F, Maps(F, D, T),
         NEW s \in Seq(D), NEW t \in Seq(D)
  PROVE  Mapped(F, s \o t) = Mapped(F, s) \o Mapped(F, t)
<1>1. PICK a, b, c : a = Mapped(F, s \o t) /\ b = Mapped(F, s) /\ c = Mapped(F, t) OBVIOUS
<1>2. s \o t \in Seq(D) /\ Len(s \o t) = Len(s) + Len(t) OBVIOUS
<1>3. /\ a \in Seq(Seq(T)) /\ b \in Seq(Seq(T)) /\ c \in Seq(Seq(T))
      /\ Len(a) = Len(s) + Len(t) /\ Len(b) = Len(s) /\ Len(c) = Len(t)
  <2>1. \A r \in Seq(D) : Mapped(F, r) \in Seq(Seq(T)) /\ Len(Mapped(F, r)) = Len(r) BY MapType
  <2>. QED BY <1>1, <1>2, <2>1
<1>4. ASSUME NEW i \in 1..Len(a) PROVE a[i] = (b \o c)[i]
  <2>1. a[i] = F[(s \o t)[i]] BY <1>1, <1>2, <1>3 DEF Mapped
  <2>2. CASE i <= Len(s)
    <3>1. (s \o t)[i] = s[i] /\ b[i] = F[s[i]] BY <1>1, <1>3, <2>2 DEF Mapped
    <3>2. (b \o c)[i] = b[i] BY <1>3, <2>2
    <3>. QED BY <2>1, <3>1, <3>2
  <2>3. CASE i > Len(s)
    <3>1. (s \o t)[i] = t[i - Len(s)] BY <1>3, <2>3
    <3>0. i - Len(s) \in 1..Len(t) BY <1>3, <2>3
    <3>2. c[i - Len(s)] = F[t[i - Len(s)]] BY <1>1, <3>0 DEF Mapped
    <3>5. b \in Seq(Seq(T)) /\ c \in Seq(Seq(T)) /\ i \in (Len(b) + 1)..(Len(b) + Len(c))
      BY <1>3, <2>3
    <3>3. (b \o c)[i] = c[i - Len(b)] BY <3>5
    <3>4. (b \o c)[i] = c[i - Len(s)] BY <1>3, <3>3
    <3>. QED BY <2>1, <3>1, <3>2, <3>4
  <2>. QED BY <1>3, <2>2, <2>3
<1>5. a = b \o c
  <2>1. b \o c \in Seq(Seq(T)) /\ Len(b \o c) = Len(a) BY <1>3
  <2>. QED BY <1>3, <1>4, <2>1, SeqEqual
<1>. QED BY <1>1, <1>5

LEMMA FlatMapType ==
  ASSUME NEW D, NEW T, NEW F, Maps(F, D, T),
         NEW s \in Seq(D)
  PROVE  FlatMap(F, s) \in Seq(T)
<1>1. Mapped(F, s) \in Seq(Seq(T)) BY MapType
<1>. QED BY <1>1, FlatType DEF FlatMap

LEMMA FlatMapCat ==
  ASSUME NEW D, NEW T, NEW F, Maps(F, D, T),
         NEW s \in Seq(D), NEW t \in Seq(D)
  PROVE  FlatMap(F, s \o t) = FlatMap(F, s) \o FlatMap(F, t)
<1>1. Mapped(F, s) \in Seq(Seq(T)) /\ Mapped(F, t) \in Seq(Seq(T)) BY MapType
<1>2. Mapped(F, s \o t) = Mapped(F, s) \o Mapped(F, t) BY MapCat
<1>. QED BY <1>1, <1>2, FlatCat DEF FlatMap

LEMMA FlatMapOne ==
  ASSUME NEW D, NEW T, NEW F, Maps(F, D, T), NEW d \in D
  PROVE  FlatMap(F, <<d>>) = F[d]
<1>1. Mapped(F, <<d>>) = <<F[d]>> BY DEF Mapped
<1>2. F[d] \in Seq(T) BY DEF Maps
<1>. QED BY <1>1, <1>2, FlatOne DEF FlatMap

LEMMA FlatMapNone == ASSUME NEW F PROVE FlatMap(F, <<>>) = <<>>
<1>1. Mapped(F, <<>>) = <<>> BY DEF Mapped
<1>. QED BY <1>1, FlatEmpty DEF FlatMap

\* Cut after k, and around element k + 1.
LEMMA Cuts ==
  ASSUME NEW D, NEW s \in Seq(D), NEW k \in 0..Len(s)
  PROVE  /\ SubSeq(s, 1, k) \in Seq(D) /\ Len(SubSeq(s, 1, k)) = k
         /\ SubSeq(s, k + 1, Len(s)) \in Seq(D)
         /\ Len(SubSeq(s, k + 1, Len(s))) = Len(s) - k
         /\ s = SubSeq(s, 1, k) \o SubSeq(s, k + 1, Len(s))
<1>1. SubSeq(s, 1, k) \in Seq(D) /\ Len(SubSeq(s, 1, k)) = k OBVIOUS
<1>2. /\ SubSeq(s, k + 1, Len(s)) \in Seq(D)
      /\ Len(SubSeq(s, k + 1, Len(s))) = Len(s) - k
  OBVIOUS
<1>3. PICK a, b, c : a = SubSeq(s, 1, k) /\ b = SubSeq(s, k + 1, Len(s)) /\ c = a \o b OBVIOUS
<1>4. a \in Seq(D) /\ b \in Seq(D) /\ c \in Seq(D) /\ Len(a) = k /\ Len(b) = Len(s) - k
      /\ Len(c) = Len(s)
  <2>1. a \in Seq(D) /\ Len(a) = k BY <1>1, <1>3
  <2>2. b \in Seq(D) /\ Len(b) = Len(s) - k BY <1>2, <1>3
  <2>3. c \in Seq(D) /\ Len(c) = Len(a) + Len(b) BY <1>3, <2>1, <2>2
  <2>4. k + (Len(s) - k) = Len(s) OBVIOUS
  <2>. QED BY <2>1, <2>2, <2>3, <2>4
<1>5. ASSUME NEW i \in 1..Len(s) PROVE s[i] = c[i]
  <2>1. CASE i <= k
    <3>0. i \in 1..Len(a) BY <1>4, <2>1
    <3>1. (a \o b)[i] = a[i] BY <1>4, <3>0
    <3>2. SubSeq(s, 1, k)[i] = s[i] BY <2>1
    <3>. QED BY <1>3, <3>1, <3>2
  <2>2. CASE i > k
    <3>0. Len(a) = k /\ i \in (Len(a) + 1)..(Len(a) + Len(b)) BY <1>4, <2>2
    <3>1. (a \o b)[i] = b[i - Len(a)] BY <1>4, <3>0
    <3>2. i - k \in 1..(Len(s) - k) BY <2>2
    <3>3. SubSeq(s, k + 1, Len(s))[i - k] = s[i] BY <3>2
    <3>. QED BY <1>3, <3>0, <3>1, <3>3
  <2>. QED BY <2>1, <2>2
<1>6. s = c BY <1>4, <1>5, SeqEqual
<1>. QED BY <1>1, <1>2, <1>3, <1>6

LEMMA CutOne ==
  ASSUME NEW D, NEW s \in Seq(D), NEW k \in 0..(Len(s) - 1)
  PROVE  /\ s[k + 1] \in D
         /\ SubSeq(s, 1, k + 1) = SubSeq(s, 1, k) \o <<s[k + 1]>>
         /\ SubSeq(s, k + 1, Len(s)) = <<s[k + 1]>> \o SubSeq(s, k + 2, Len(s))
<1>1. s[k + 1] \in D OBVIOUS
<1>2. SubSeq(s, 1, k + 1) = SubSeq(s, 1, k) \o <<s[k + 1]>>
  <2>1. SubSeq(s, 1, k + 1) = SubSeq(s, 1, (k + 1) - 1) \o <<s[k + 1]>>
    BY SubSeqRecursiveSecond
  <2>. QED BY <2>1
<1>3. SubSeq(s, k + 1, Len(s)) = <<s[k + 1]>> \o SubSeq(s, k + 2, Len(s))
  <2>1. SubSeq(s, k + 1, Len(s)) = <<s[k + 1]>> \o SubSeq(s, (k + 1) + 1, Len(s))
    BY SubSeqRecursiveFirst
  <2>. QED BY <2>1
<1>. QED BY <1>1, <1>2, <1>3

LEMMA FlatMapCut ==
  ASSUME NEW D, NEW T, NEW F, Maps(F, D, T),
         NEW s \in Seq(D), NEW k \in 0..Len(s)
  PROVE  /\ FlatMap(F, s) = FlatMap(F, SubSeq(s, 1, k)) \o FlatMap(F, SubSeq(s, k + 1, Len(s)))
         /\ FlatMap(F, SubSeq(s, 1, k)) \in Seq(T)
         /\ FlatMap(F, SubSeq(s, k + 1, Len(s))) \in Seq(T)
<1>1. PICK a, b : a = SubSeq(s, 1, k) /\ b = SubSeq(s, k + 1, Len(s)) OBVIOUS
<1>2. a \in Seq(D) /\ b \in Seq(D) /\ s = a \o b BY <1>1, Cuts, Zenon
<1>3. FlatMap(F, a \o b) = FlatMap(F, a) \o FlatMap(F, b)
  <2>1. \A r, t \in Seq(D) : FlatMap(F, r \o t) = FlatMap(F, r) \o FlatMap(F, t) BY FlatMapCat
  <2>. QED BY <1>2, <2>1
<1>4. FlatMap(F, a) \in Seq(T) /\ FlatMap(F, b) \in Seq(T)
  <2>1. \A r \in Seq(D) : FlatMap(F, r) \in Seq(T) BY FlatMapType
  <2>. QED BY <1>2, <2>1
<1>. QED BY <1>1, <1>2, <1>3, <1>4, Zenon

LEMMA FlatMapNext ==
  ASSUME NEW D, NEW T, NEW F, Maps(F, D, T),
         NEW s \in Seq(D), NEW k \in 0..(Len(s) - 1)
  PROVE  /\ FlatMap(F, SubSeq(s, 1, k + 1)) = FlatMap(F, SubSeq(s, 1, k)) \o F[s[k + 1]]
         /\ FlatMap(F, SubSeq(s, k + 1, Len(s)))
              = F[s[k + 1]] \o FlatMap(F, SubSeq(s, k + 2, Len(s)))
<1>1. PICK a, b, d : a = SubSeq(s, 1, k) /\ b = SubSeq(s, k + 2, Len(s)) /\ d = s[k + 1]
  OBVIOUS
<1>2. a \in Seq(D) /\ b \in Seq(D)
  <2>1. k \in 0..Len(s) /\ k + 1 \in 0..Len(s) /\ (k + 1) + 1 = k + 2 OBVIOUS
  <2>2. SubSeq(s, (k + 1) + 1, Len(s)) \in Seq(D) BY <2>1, Cuts
  <2>. QED BY <1>1, <2>1, <2>2, Cuts
<1>3. /\ d \in D /\ SubSeq(s, 1, k + 1) = a \o <<d>>
      /\ SubSeq(s, k + 1, Len(s)) = <<d>> \o b
  BY <1>1, CutOne
<1>4. <<d>> \in Seq(D) BY <1>3
<1>0. \A r, t \in Seq(D) : FlatMap(F, r \o t) = FlatMap(F, r) \o FlatMap(F, t) BY FlatMapCat
<1>5. FlatMap(F, a \o <<d>>) = FlatMap(F, a) \o FlatMap(F, <<d>>) BY <1>0, <1>2, <1>4, Zenon
<1>6. FlatMap(F, <<d>> \o b) = FlatMap(F, <<d>>) \o FlatMap(F, b) BY <1>0, <1>2, <1>4, Zenon
<1>7. FlatMap(F, <<d>>) = F[d] BY <1>3, FlatMapOne
<1>. QED BY <1>1, <1>3, <1>5, <1>6, <1>7

\* What element k has become stands after what those before it have.
HasAt(F, s, k) ==
  LET a == FlatMap(F, SubSeq(s, 1, k - 1))
  IN /\ Len(a) + Len(F[s[k]]) <= Len(FlatMap(F, s))
     /\ Len(FlatMap(F, SubSeq(s, 1, k))) = Len(a) + Len(F[s[k]])
     /\ \A j \in 1..Len(F[s[k]]) : FlatMap(F, s)[Len(a) + j] = F[s[k]][j]

LEMMA FlatMapAt ==
  ASSUME NEW D, NEW T, NEW F, Maps(F, D, T),
         NEW s \in Seq(D), NEW k \in 1..Len(s)
  PROVE  HasAt(F, s, k)
<1>1. PICK a, b, c, m : /\ a = FlatMap(F, SubSeq(s, 1, k - 1)) /\ m = F[s[k]]
                        /\ b = FlatMap(F, SubSeq(s, k + 1, Len(s)))
                        /\ c = FlatMap(F, SubSeq(s, 1, k))
  OBVIOUS
<1>2. a \in Seq(T) /\ b \in Seq(T) /\ c \in Seq(T) /\ m \in Seq(T)
  <2>1. k - 1 \in 0..Len(s) /\ k \in 0..Len(s) /\ s[k] \in D OBVIOUS
  <2>2. \A i \in 0..Len(s) : /\ FlatMap(F, SubSeq(s, 1, i)) \in Seq(T)
                             /\ FlatMap(F, SubSeq(s, i + 1, Len(s))) \in Seq(T)
    BY FlatMapCut
  <2>3. m \in Seq(T) BY <1>1, <2>1 DEF Maps
  <2>. QED BY <1>1, <2>1, <2>2, <2>3
<1>3. c = a \o m
  <2>1. k - 1 \in 0..(Len(s) - 1) /\ (k - 1) + 1 = k OBVIOUS
  <2>2. FlatMap(F, SubSeq(s, 1, (k - 1) + 1))
          = FlatMap(F, SubSeq(s, 1, k - 1)) \o F[s[(k - 1) + 1]]
    BY <2>1, FlatMapNext, ZenonT(40)
  <2>. QED BY <1>1, <2>1, <2>2
<1>4. FlatMap(F, s) = c \o b
  <2>1. k \in 0..Len(s) OBVIOUS
  <2>2. \A i \in 0..Len(s) :
          FlatMap(F, s) = FlatMap(F, SubSeq(s, 1, i)) \o FlatMap(F, SubSeq(s, i + 1, Len(s)))
    BY FlatMapCut
  <2>. QED BY <1>1, <2>1, <2>2
<1>5. PICK f : f = (a \o m) \o b OBVIOUS
<1>6. Len(f) = Len(a) + Len(m) + Len(b) /\ Len(c) = Len(a) + Len(m) BY <1>2, <1>3, <1>5
<1>7. ASSUME NEW j \in 1..Len(m) PROVE f[Len(a) + j] = m[j]
  <2>1. f[Len(a) + j] = (a \o m)[Len(a) + j] BY <1>2, <1>5, SMTT(30)
  <2>2. (a \o m)[Len(a) + j] = m[j] BY <1>2
  <2>. QED BY <2>1, <2>2
<1>8. Len(a) \in Nat /\ Len(m) \in Nat /\ Len(b) \in Nat BY <1>2
<1>9. Len(a) + Len(m) <= Len(f) BY <1>6, <1>8
<1>10. FlatMap(F, s) = f BY <1>3, <1>4, <1>5
<1>. QED BY <1>1, <1>6, <1>7, <1>9, <1>10 DEF HasAt

\* Elements that become equally long.
Wide(F, D, w) == \A d \in D : Len(F[d]) = w

LEMMA FlatMapWidth ==
  ASSUME NEW D, NEW T, NEW F, Maps(F, D, T),
         NEW s \in Seq(D), NEW w \in Nat,
         Wide(F, D, w), NEW k \in 0..Len(s)
  PROVE  Len(FlatMap(F, SubSeq(s, 1, k))) = w * k
<1> DEFINE S == {i \in 0..Len(s) : Len(FlatMap(F, SubSeq(s, 1, i))) = w * i}
<1>1. 0 \in S
  <2>1. SubSeq(s, 1, 0) = <<>> /\ 0 \in 0..Len(s) /\ w * 0 = 0 OBVIOUS
  <2>3. FlatMap(F, <<>>) = <<>> BY FlatMapNone
  <2>4. FlatMap(F, SubSeq(s, 1, 0)) = <<>> BY <2>1, <2>3, Zenon
  <2>2. Len(FlatMap(F, SubSeq(s, 1, 0))) = 0 BY <2>4
  <2>. QED BY <2>1, <2>2
<1>2. ASSUME NEW i \in 1..Len(s), i - 1 \in S PROVE i \in S
  <2>1. Len(FlatMap(F, SubSeq(s, 1, i))) = Len(FlatMap(F, SubSeq(s, 1, i - 1))) + Len(F[s[i]])
    <3>1. HasAt(F, s, i) BY FlatMapAt
    <3>. QED BY <3>1 DEF HasAt
  <2>2. s[i] \in D /\ i \in 0..Len(s) /\ w * i = w * (i - 1) + w OBVIOUS
  <2>3. Len(FlatMap(F, SubSeq(s, 1, i))) = w * i BY <1>2, <2>1, <2>2 DEF Wide
  <2>. QED BY <2>2, <2>3
<1> HIDE DEF S
<1>3. \A i \in 0..Len(s) : i \in S
  <2>1. Len(s) \in Nat OBVIOUS
  <2>. QED BY <1>1, <1>2, <2>1, UpTo
<1>. QED BY <1>3 DEF S

-----------------------------------------------------------------------------
(* Words and traces, as units.                                             *)

LEMMA WordIs ==
  ASSUME NEW v \in Nat
  PROVE  /\ Units(v) \in Seq(Int) /\ Len(Units(v)) = 2
         /\ Units(v)[1] + Base * Units(v)[2] = v
<1>1. Base \in Nat \ {0} BY StreamAssumption
<1>2. v % Base \in Int /\ v \div Base \in Int BY <1>1
<1>3. (v % Base) + Base * (v \div Base) = v BY <1>1
<1>. QED BY <1>2, <1>3 DEF Units

Value == 0..(Base * Base - 1)
UnitsOf == [v \in Value |-> Units(v)]
TracesOf(n) == {t \in TraceSet : Len(Cells(t)) = n}
EncOf(n) == [t \in TracesOf(n) |-> EncodeTrace(t, n)]

LEMMA UnitsMaps ==
  /\ Maps(UnitsOf, Value, Int) /\ \A v \in Value : Len(UnitsOf[v]) = 2
<1>1. Base \in Nat \ {0} BY StreamAssumption
<1>2. \A v \in Value : v \in Nat BY DEF Value
<1>. QED BY <1>2, WordIs DEF UnitsOf, Maps

IsTrace(t, n) ==
  \/ /\ t.kind = Mask /\ t = [kind |-> t.kind, mask |-> t.mask]
     /\ t.mask \in Seq(Unit) /\ Len(t.mask) = n
  \/ /\ t.kind \in Unit /\ t.kind # Mask /\ t = [kind |-> t.kind, values |-> t.values]
     /\ t.values \in Seq(Value) /\ Len(t.values) = n

LEMMA TraceIs == ASSUME NEW n, NEW t \in TracesOf(n) PROVE IsTrace(t, n)
<1>1. t \in TraceSet /\ Len(Cells(t)) = n BY DEF TracesOf
<1>2. CASE t \in [kind : {Mask}, mask : Seq(Unit)]
  BY <1>1, <1>2 DEF IsTrace, Cells
<1>3. CASE t \in [kind : Unit \ {Mask}, values : Seq(0..(Base * Base - 1))]
  <2>1. /\ t.kind \in Unit /\ t.kind # Mask /\ t = [kind |-> t.kind, values |-> t.values]
        /\ t.values \in Seq(Value)
    BY <1>3 DEF Value
  <2>2. Len(t.values) = n BY <1>1, <2>1 DEF Cells
  <2>. QED BY <2>1, <2>2 DEF IsTrace
<1>. QED BY <1>1, <1>2, <1>3 DEF TraceSet

\* An encoded trace, and what decodeFrame() finds of it.
IsEncoded(e, t, n) ==
  /\ e \in Seq(Int) /\ Len(e) = TraceHeader + PayloadSize(t.kind, n) /\ e[1] = t.kind
  /\ IF t.kind = Mask
     THEN n <= PayloadSize(t.kind, n) /\ \A i \in 1..n : e[TraceHeader + i] = t.mask[i]
     ELSE \A i \in 1..n : WordAt(e, TraceHeader + Word * i - 1) = t.values[i]

LEMMA Padding == ASSUME NEW n \in Nat PROVE PadToWord(n) \in Nat /\ n <= PadToWord(n)
<1>1. CeilDiv(n, 2) \in Int /\ n <= CeilDiv(n, 2) * 2 BY DEF CeilDiv
<1>. QED BY <1>1 DEF PadToWord, Word

LEMMA TraceEncoded ==
  ASSUME NEW n \in Nat, NEW t \in TracesOf(n)
  PROVE  IsEncoded(EncodeTrace(t, n), t, n)
<1>1. IsTrace(t, n) BY TraceIs
<1>2. PICK h : h = <<t.kind, 0>> OBVIOUS
<1>3. Base \in Nat \ {0} BY StreamAssumption
<1>4. CASE t.kind = Mask
  <2>1. PICK pad : pad = [i \in 1..(PadToWord(n) - n) |-> 0] OBVIOUS
  <2>2. pad \in Seq(Int) /\ Len(pad) = PadToWord(n) - n
    <3>1. PadToWord(n) - n \in Nat BY Padding
    <3>. QED BY <2>1, <3>1
  <2>3. t.mask \in Seq(Int) /\ Len(t.mask) = n
    <3>1. Unit \subseteq Int BY <1>3 DEF Unit
    <3>2. t.mask \in Seq(Unit) /\ Len(t.mask) = n BY <1>1, <1>4 DEF IsTrace
    <3>. QED BY <3>1, <3>2, SeqMonotonic
  <2>4. h \in Seq(Int) /\ Len(h) = 2 /\ h[1] = t.kind BY <1>2, <1>4 DEF Mask
  <2>5. PICK m : m = t.mask OBVIOUS
  <2>6. PICK p : p = m \o pad OBVIOUS
  <2>7. /\ p \in Seq(Int) /\ Len(p) = PadToWord(n) /\ \A i \in 1..n : p[i] = m[i]
    <3>1. PadToWord(n) \in Nat /\ n <= PadToWord(n) BY Padding
    <3>2. IsCat(p, m, pad, Int) BY <2>2, <2>3, <2>5, <2>6, CatIs
    <3>3. Len(m) = n /\ Len(pad) = PadToWord(n) - n BY <2>2, <2>3, <2>5
    <3>. QED BY <3>1, <3>2, <3>3 DEF IsCat
  <2>8. PICK e : e = h \o p OBVIOUS
  <2>9. e = EncodeTrace(t, n) BY <1>2, <1>4, <2>1, <2>5, <2>6, <2>8 DEF EncodeTrace
  <2>10. PadToWord(n) \in Nat /\ n <= PadToWord(n) BY Padding
  <2>11. e \in Seq(Int) /\ Len(e) = 2 + PadToWord(n) /\ e[1] = t.kind
    <3>1. IsCat(e, h, p, Int) BY <2>4, <2>7, <2>8, CatIs
    <3>. QED BY <2>4, <2>7, <3>1 DEF IsCat
  <2>12. \A i \in 1..n : e[2 + i] = m[i]
    <3>1. IsCat(e, h, p, Int) BY <2>4, <2>7, <2>8, CatIs
    <3>2. \A i \in 1..n : i \in 1..Len(p) /\ p[i] = m[i] BY <2>7, <2>10
    <3>3. Len(h) = 2 BY <2>4
    <3>. QED BY <3>1, <3>2, <3>3 DEF IsCat
  <2>. QED BY <1>4, <2>5, <2>9, <2>10, <2>11, <2>12 DEF IsEncoded, PayloadSize, TraceHeader
<1>5. CASE t.kind # Mask
  <2>1. PICK v : v = t.values OBVIOUS
  <2>2. v \in Seq(Value) /\ Len(v) = n /\ t.kind \in Int
    BY <1>1, <1>3, <1>5, <2>1 DEF IsTrace, Unit
  <2>3. PICK p : p = FlatMap(UnitsOf, v) OBVIOUS
  <2>4. Maps(UnitsOf, Value, Int) /\ \A x \in Value : Len(UnitsOf[x]) = 2 BY UnitsMaps
  <2>5. p \in Seq(Int) BY <2>2, <2>3, <2>4, FlatMapType
  <2>6. \A k \in 0..Len(v) : Len(FlatMap(UnitsOf, SubSeq(v, 1, k))) = 2 * k
    <3>1. 2 \in Nat OBVIOUS
    <3>2. Wide(UnitsOf, Value, 2) BY <2>4 DEF Wide
    <3>. QED BY <2>2, <2>4, <3>1, <3>2, FlatMapWidth
  <2>7. Len(p) = 2 * n
    <3>1. SubSeq(v, 1, Len(v)) = v BY <2>2, SubSeqFull
    <3>2. n \in 0..Len(v) BY <2>2
    <3>. QED BY <2>2, <2>3, <2>6, <3>1, <3>2
  <2>8. ASSUME NEW i \in 1..n
        PROVE  /\ p[2 * i - 1] = Units(v[i])[1] /\ p[2 * i] = Units(v[i])[2] /\ v[i] \in Value
    <3>1. i \in 1..Len(v) /\ i - 1 \in 0..Len(v) /\ v[i] \in Value BY <2>2
    <3>2. HasAt(UnitsOf, v, i) BY <2>2, <2>4, <3>1, FlatMapAt
    <3>3. Len(FlatMap(UnitsOf, SubSeq(v, 1, i - 1))) = 2 * (i - 1) BY <2>6, <3>1
    <3>4. Len(UnitsOf[v[i]]) = 2 /\ UnitsOf[v[i]] = Units(v[i]) BY <2>4, <3>1 DEF UnitsOf
    <3>5. \A j \in 1..2 : p[2 * (i - 1) + j] = Units(v[i])[j]
      BY <2>3, <3>2, <3>3, <3>4 DEF HasAt
    <3>6. 1 \in 1..2 /\ 2 \in 1..2 /\ 2 * (i - 1) + 1 = 2 * i - 1 /\ 2 * (i - 1) + 2 = 2 * i
      OBVIOUS
    <3>. QED BY <3>1, <3>5, <3>6
  <2>9. FlattenSeq([i \in 1..n |-> Units(t.values[i])]) = p
    <3>1. \A i \in 1..n : Units(t.values[i]) = UnitsOf[v[i]] BY <2>1, <2>2 DEF UnitsOf
    <3>2. [i \in 1..n |-> Units(t.values[i])] = Mapped(UnitsOf, v) BY <2>2, <3>1 DEF Mapped
    <3>. QED BY <2>3, <3>2 DEF FlatMap
  <2>10. PICK e : e = h \o p OBVIOUS
  <2>11. e = EncodeTrace(t, n) BY <1>2, <1>5, <2>9, <2>10 DEF EncodeTrace
  <2>12. h \in Seq(Int) /\ Len(h) = 2 /\ h[1] = t.kind BY <1>2, <2>2
  <2>13. e \in Seq(Int) /\ Len(e) = 2 + 2 * n /\ e[1] = t.kind
    <3>1. IsCat(e, h, p, Int) BY <2>5, <2>10, <2>12, CatIs
    <3>. QED BY <2>7, <2>12, <3>1 DEF IsCat
  <2>14. ASSUME NEW i \in 1..n PROVE WordAt(e, 2 + 2 * i - 1) = v[i]
    <3>1. 2 * i - 1 \in 1..Len(p) /\ 2 * i \in 1..Len(p) BY <2>7
    <3>2. e[2 + (2 * i - 1)] = p[2 * i - 1] /\ e[2 + 2 * i] = p[2 * i]
      <4>1. IsCat(e, h, p, Int) BY <2>5, <2>10, <2>12, CatIs
      <4>. QED BY <2>12, <3>1, <4>1 DEF IsCat
    <3>3. 2 + 2 * i - 1 = 2 + (2 * i - 1) /\ (2 + 2 * i - 1) + 1 = 2 + 2 * i OBVIOUS
    <3>4. Units(v[i])[1] + Base * Units(v[i])[2] = v[i]
      <4>1. v[i] \in Nat BY <2>8 DEF Value
      <4>. QED BY <4>1, WordIs
    <3>. QED BY <2>8, <3>2, <3>3, <3>4 DEF WordAt
  <2>15. IsEncoded(e, t, n)
    BY <1>5, <2>1, <2>13, <2>14 DEF IsEncoded, PayloadSize, TraceHeader, Word
  <2>. QED BY <2>11, <2>15
<1>. QED BY <1>4, <1>5

LEMMA EncMaps == ASSUME NEW n \in Nat PROVE Maps(EncOf(n), TracesOf(n), Int)
<1>1. \A t \in TracesOf(n) : EncodeTrace(t, n) \in Seq(Int) BY TraceEncoded DEF IsEncoded
<1>. QED BY <1>1 DEF EncOf, Maps

\* e stands in raw after the first off units.
InRaw(raw, e, off) ==
  /\ off \in Nat /\ off + Len(e) <= Len(raw)
  /\ \A j \in 1..Len(e) : raw[off + j] = e[j]

LEMMA PayloadIsNat == ASSUME NEW kind, NEW n \in Nat PROVE PayloadSize(kind, n) \in Nat
BY Padding DEF PayloadSize, Word

LEMMA BlockDecoded ==
  ASSUME NEW n \in Nat, NEW t \in TracesOf(n), NEW raw \in Seq(Int), NEW off,
         InRaw(raw, EncodeTrace(t, n), off)
  PROVE  /\ BlockEnd(raw, off, n) = off + Len(EncodeTrace(t, n))
         /\ DecodeTrace(raw, off, n) = t
<1>1. PICK e : e = EncodeTrace(t, n) OBVIOUS
<1>2. IsEncoded(e, t, n) /\ IsTrace(t, n) /\ InRaw(raw, e, off) BY <1>1, TraceEncoded, TraceIs
<1>3. PICK p \in Nat : p = PayloadSize(t.kind, n) BY PayloadIsNat
<1>4. /\ off \in Nat /\ Len(raw) \in Nat /\ Len(e) = 2 + p /\ off + Len(e) <= Len(raw)
      /\ \A j \in 1..(2 + p) : raw[off + j] = e[j]
  BY <1>2, <1>3 DEF InRaw, IsEncoded, TraceHeader
<1>5. raw[off + 1] = t.kind
  <2>1. 1 \in 1..(2 + p) OBVIOUS
  <2>. QED BY <1>2, <1>4, <2>1 DEF IsEncoded
<1>6. BlockEnd(raw, off, n) = off + Len(e)
  <2>1. ~(off + 2 > Len(raw)) /\ off + 2 + p = off + (2 + p) BY <1>4
  <2>. QED BY <1>3, <1>4, <1>5, <2>1 DEF BlockEnd, TraceHeader
<1>7. CASE t.kind = Mask
  <2>1. PICK m : m = t.mask OBVIOUS
  <2>2. PICK d : d = SubSeq(raw, off + 2 + 1, off + 2 + n) OBVIOUS
  <2>3. m \in Seq(Unit) /\ Len(m) = n /\ t = [kind |-> Mask, mask |-> m]
    BY <1>2, <1>7, <2>1 DEF IsTrace
  <2>4. n <= p /\ \A i \in 1..n : e[2 + i] = m[i]
    BY <1>2, <1>3, <1>7, <2>1 DEF IsEncoded, TraceHeader
  <2>5. ASSUME NEW i \in 1..n PROVE raw[off + 2 + i] = m[i]
    <3>1. 2 + i \in 1..(2 + p) /\ off + (2 + i) = off + 2 + i BY <1>4, <2>4
    <3>2. raw[off + (2 + i)] = e[2 + i] BY <1>4, <3>1
    <3>. QED BY <2>4, <3>1, <3>2
  <2>6. off + 2 \in Nat /\ off + 2 + n <= Len(raw) BY <1>4, <2>4
  <2>7. d \in Seq(Int) /\ Len(d) = n /\ \A i \in 1..n : d[i] = raw[off + 2 + i]
    <3>1. IsPart(SubSeq(raw, (off + 2) + 1, (off + 2) + n), raw, off + 2, n, Int)
      BY <2>6, PartIs
    <3>2. (off + 2) + 1 = off + 2 + 1 /\ (off + 2) + n = off + 2 + n BY <2>6
    <3>. QED BY <2>2, <3>1, <3>2 DEF IsPart
  <2>8. m \in Seq(Int)
    <3>1. Unit \subseteq Int BY StreamAssumption DEF Unit
    <3>. QED BY <2>3, <3>1, SeqMonotonic
  <2>9. d = m BY <2>3, <2>5, <2>7, <2>8, SeqEqual
  <2>. QED BY <1>1, <1>5, <1>6, <1>7, <2>2, <2>3, <2>9 DEF DecodeTrace, TraceHeader
<1>8. CASE t.kind # Mask
  <2>1. PICK v : v = t.values OBVIOUS
  <2>2. v \in Seq(Value) /\ Len(v) = n /\ t = [kind |-> t.kind, values |-> v]
    BY <1>2, <1>8, <2>1 DEF IsTrace
  <2>3. p = 2 * n /\ \A i \in 1..n : WordAt(e, 2 + 2 * i - 1) = v[i]
    BY <1>2, <1>3, <1>8, <2>1 DEF IsEncoded, TraceHeader, PayloadSize, Word
  <2>4. ASSUME NEW i \in 1..n PROVE WordAt(raw, off + 2 + 2 * i - 1) = v[i]
    <3>1. 2 + 2 * i - 1 \in 1..(2 + p) /\ 2 + 2 * i \in 1..(2 + p) BY <2>3
    <3>2. /\ raw[off + (2 + 2 * i - 1)] = e[2 + 2 * i - 1]
          /\ raw[off + (2 + 2 * i)] = e[2 + 2 * i]
      BY <1>4, <3>1
    <3>3. /\ off + (2 + 2 * i - 1) = off + 2 + 2 * i - 1
          /\ off + (2 + 2 * i) = (off + 2 + 2 * i - 1) + 1
          /\ (2 + 2 * i - 1) + 1 = 2 + 2 * i
      BY <1>4
    <3>. QED BY <2>3, <3>2, <3>3 DEF WordAt
  <2>5. [i \in 1..n |-> WordAt(raw, off + 2 + 2 * i - 1)] = v
    <3>1. v = [i \in 1..n |-> v[i]] BY <2>2
    <3>. QED BY <2>4, <3>1
  <2>. QED BY <1>1, <1>5, <1>6, <1>8, <2>2, <2>5 DEF DecodeTrace, TraceHeader, Word
<1>. QED BY <1>7, <1>8

-----------------------------------------------------------------------------
(* The ends of the blocks.                                                 *)

LEMMA BlockEndIsNat ==
  ASSUME NEW raw, NEW x \in Nat, NEW n \in Nat PROVE BlockEnd(raw, x, n) \in Nat
<1>1. PayloadSize(raw[x + 1], n) \in Nat BY PayloadIsNat
<1>. QED BY <1>1 DEF BlockEnd, TraceHeader

LEMMA EndsRecur ==
  ASSUME NEW raw, raw[4] \in Nat, raw[5] \in Nat
  PROVE  /\ BlockEnds(raw)[0] = Header
         /\ \A i \in 1..raw[4] : BlockEnds(raw)[i] = BlockEnd(raw, BlockEnds(raw)[i - 1], raw[5])
<1>1. PICK n \in Nat, w \in Nat : n = raw[4] /\ w = raw[5] OBVIOUS
<1>2. PICK step : step = [i \in 1..n |-> [x \in Nat |-> BlockEnd(raw, x, w)]] OBVIOUS
<1>3. PICK f : IsLoop(f, n, Header, step) BY LoopExists
<1>4. \A i \in 0..n : f[i] \in Nat
  <2>1. PICK X : X = [i \in 0..n |-> Nat] OBVIOUS
  <2>2. ASSUME NEW i \in 1..n, NEW x \in X[i - 1] PROVE step[i][x] \in X[i]
    <3>1. i - 1 \in 0..n /\ i \in 0..n OBVIOUS
    <3>2. x \in Nat /\ X[i] = Nat BY <2>1, <3>1
    <3>3. step[i][x] = BlockEnd(raw, x, w) BY <1>2, <3>2
    <3>. QED BY <3>2, <3>3, BlockEndIsNat
  <2>3. Header \in X[0] BY <2>1 DEF Header
  <2>4. \A i \in 0..n : f[i] \in X[i] BY <1>3, <2>2, <2>3, LoopKeeps
  <2>. QED BY <2>1, <2>4
<1>5. f = [i \in 0..n |-> IF i = 0 THEN Header ELSE BlockEnd(raw, f[i - 1], w)]
  <2>1. ASSUME NEW i \in 1..n PROVE step[i][f[i - 1]] = BlockEnd(raw, f[i - 1], w)
    <3>1. f[i - 1] \in Nat BY <1>4
    <3>. QED BY <1>2, <3>1
  <2>2. f = [i \in 0..n |-> IF i = 0 THEN Header ELSE step[i][f[i - 1]]] BY <1>3 DEF IsLoop
  <2>3. \A i \in 0..n : (IF i = 0 THEN Header ELSE step[i][f[i - 1]])
                          = (IF i = 0 THEN Header ELSE BlockEnd(raw, f[i - 1], w))
    BY <2>1
  <2>. QED BY <2>2, <2>3
<1>6. PICK g : /\ g = (CHOOSE h : h = [i \in 0..n |-> IF i = 0 THEN Header ELSE BlockEnd(raw, h[i - 1], w)])
               /\ BlockEnds(raw) = g
  BY <1>1 DEF BlockEnds
<1>7. g = [i \in 0..n |-> IF i = 0 THEN Header ELSE BlockEnd(raw, g[i - 1], w)] BY <1>5, <1>6
<1>8. g[0] = Header BY <1>7
<1>9. ASSUME NEW i \in 1..n PROVE g[i] = BlockEnd(raw, g[i - 1], w) BY <1>7
<1>. QED BY <1>1, <1>6, <1>8, <1>9

-----------------------------------------------------------------------------
(* Frames.                                                                 *)

Sendable == {r \in RecordSet : CanSend(r)}

IsFrame(f) ==
  /\ f = [msgType |-> f.msgType, binCount |-> f.binCount, kDbm |-> f.kDbm,
          traces |-> f.traces, json |-> f.json]
  /\ f.msgType \in Int /\ f.binCount \in Nat /\ f.kDbm \in Int
  /\ Header + Len(EncodeBody(f)) <= MaxFrame
  /\ IF IsJsonType(f.msgType)
     THEN /\ f.traces = <<>> /\ f.json \in Seq(Int)
          /\ f.json = <<>> \/ Head(f.json) # 0
     ELSE /\ f.binCount >= 2 /\ f.json = <<>> /\ f.traces \in Seq(TracesOf(f.binCount))

LEMMA UnitIsNat == Unit \subseteq Nat
BY StreamAssumption DEF Unit

LEMMA FrameIs == ASSUME NEW r \in Sendable PROVE IsFrame(r.frame)
<1>1. r \in RecordSet /\ CanSend(r) BY DEF Sendable
<1>2. PICK f : f = r.frame OBVIOUS
<1>3. f \in FrameSet BY <1>1, <1>2 DEF RecordSet
<1>4. /\ f = [msgType |-> f.msgType, binCount |-> f.binCount, kDbm |-> f.kDbm,
              traces |-> f.traces, json |-> f.json]
      /\ f.msgType \in {Complete, Partial, Status, Log} /\ f.binCount \in Unit
      /\ f.kDbm \in Unit /\ f.traces \in Seq(TraceSet) /\ f.json \in Seq(Unit)
  BY <1>3 DEF FrameSet
<1>5. f.msgType \in Int /\ f.binCount \in Nat /\ f.kDbm \in Int
  BY <1>4, UnitIsNat DEF Complete, Partial, Status, Log
<1>6. Header + Len(EncodeBody(f)) <= MaxFrame BY <1>1, <1>2 DEF CanSend
<1>7. CASE IsJsonType(f.msgType)
  <2>1. f.traces = <<>> /\ (f.json = <<>> \/ Head(f.json) # 0)
    BY <1>1, <1>2, <1>7 DEF CanSend
  <2>2. f.json \in Seq(Int)
    <3>1. Unit \subseteq Int BY UnitIsNat
    <3>. QED BY <1>4, <3>1, SeqMonotonic
  <2>. QED BY <1>2, <1>4, <1>5, <1>6, <1>7, <2>1, <2>2 DEF IsFrame
<1>8. CASE ~IsJsonType(f.msgType)
  <2>1. /\ f.binCount >= 2 /\ f.json = <<>>
        /\ \A i \in DOMAIN f.traces : Len(Cells(f.traces[i])) = f.binCount
    BY <1>1, <1>2, <1>8 DEF CanSend
  <2>2. PICK ts, n : ts = f.traces /\ n = f.binCount OBVIOUS
  <2>3. ts \in Seq(TraceSet) /\ DOMAIN ts = 1..Len(ts) /\ Len(ts) \in Nat BY <1>4, <2>2
  <2>4. \A i \in 1..Len(ts) : ts[i] \in TracesOf(n)
    <3>1. \A i \in 1..Len(ts) : ts[i] \in TraceSet BY <2>3
    <3>. QED BY <2>1, <2>2, <2>3, <3>1 DEF TracesOf
  <2>5. ts = [i \in 1..Len(ts) |-> ts[i]] BY <2>3
  <2>6. ts \in [1..Len(ts) -> TracesOf(n)] BY <2>4, <2>5
  <2>7. ts \in Seq(TracesOf(n)) BY <2>3, <2>6
  <2>. QED BY <1>2, <1>4, <1>5, <1>6, <1>8, <2>1, <2>2, <2>7 DEF IsFrame
<1>. QED BY <1>7, <1>8

Blocks(f, t) == FlatMap(EncOf(f.binCount), SubSeq(f.traces, 1, t))

LEMMA BodyIs ==
  ASSUME NEW f, IsFrame(f)
  PROVE  /\ EncodeBody(f) \in Seq(Int)
         /\ IsJsonType(f.msgType) => EncodeBody(f) = f.json
         /\ ~IsJsonType(f.msgType) => EncodeBody(f) = FlatMap(EncOf(f.binCount), f.traces)
<1>1. CASE IsJsonType(f.msgType) BY <1>1 DEF EncodeBody, IsFrame
<1>2. CASE ~IsJsonType(f.msgType)
  <2>1. PICK n, ts : n = f.binCount /\ ts = f.traces OBVIOUS
  <2>2. n \in Nat /\ ts \in Seq(TracesOf(n)) BY <1>2, <2>1 DEF IsFrame
  <2>3. [t \in 1..Len(ts) |-> EncodeTrace(ts[t], n)] = Mapped(EncOf(n), ts)
    <3>1. \A t \in 1..Len(ts) : ts[t] \in TracesOf(n) BY <2>2
    <3>. QED BY <3>1 DEF Mapped, EncOf
  <2>4. EncodeBody(f) = FlatMap(EncOf(n), ts) BY <1>2, <2>1, <2>3 DEF EncodeBody, FlatMap
  <2>5. Maps(EncOf(n), TracesOf(n), Int) BY <2>2, EncMaps
  <2>6. FlatMap(EncOf(n), ts) \in Seq(Int) BY <2>2, <2>5, FlatMapType
  <2>. QED BY <1>2, <2>1, <2>4, <2>6
<1>. QED BY <1>1, <1>2

\* A record's fields that a fault leaves alone.
Carries(raw, f) ==
  /\ raw \in Seq(Int) /\ Len(raw) = 8 + Len(EncodeBody(f))
  /\ raw[3] = f.msgType /\ raw[5] = f.binCount /\ raw[6] = f.kDbm
  /\ WordAt(raw, 7) = Len(raw)
  /\ \A j \in 1..Len(EncodeBody(f)) : raw[8 + j] = EncodeBody(f)[j]

LEMMA FrameEncoded ==
  ASSUME NEW f, IsFrame(f)
  PROVE  LET raw == EncodeFrame(f)
         IN Carries(raw, f) /\ raw[1] = Magic /\ raw[2] = Version /\ raw[4] = Len(f.traces)
<1>1. PICK body : body = EncodeBody(f) OBVIOUS
<1>2. body \in Seq(Int) /\ Len(body) \in Nat BY <1>1, BodyIs
<1>3. PICK L \in Nat : L = 8 + Len(body) BY <1>2
<1>4. PICK h, u : h = <<Magic, Version, f.msgType, Len(f.traces), f.binCount, f.kDbm>> /\ u = Units(L)
  OBVIOUS
<1>5. Len(f.traces) \in Nat BY DEF IsFrame
<1>6. /\ h \in Seq(Int) /\ Len(h) = 6 /\ h[1] = Magic /\ h[2] = Version /\ h[3] = f.msgType
      /\ h[4] = Len(f.traces) /\ h[5] = f.binCount /\ h[6] = f.kDbm
  BY <1>4, <1>5 DEF IsFrame, Magic, Version
<1>7. u \in Seq(Int) /\ Len(u) = 2 /\ u[1] + Base * u[2] = L BY <1>4, WordIs
<1>8. PICK hu, raw : hu = h \o u /\ raw = hu \o body OBVIOUS
<1>9. IsCat(hu, h, u, Int) BY <1>6, <1>7, <1>8, CatIs
<1>10. hu \in Seq(Int) /\ Len(hu) = 8 BY <1>6, <1>7, <1>9 DEF IsCat
<1>11. IsCat(raw, hu, body, Int) BY <1>2, <1>8, <1>10, CatIs
<1>12. raw = EncodeFrame(f) BY <1>1, <1>3, <1>4, <1>8 DEF EncodeFrame, Header
<1>13. \A i \in 1..6 : raw[i] = h[i]
  <2>1. \A i \in 1..6 : hu[i] = h[i] BY <1>6, <1>9 DEF IsCat
  <2>2. \A i \in 1..8 : raw[i] = hu[i] BY <1>10, <1>11 DEF IsCat
  <2>. QED BY <2>1, <2>2
<1>14. raw[7] = u[1] /\ raw[8] = u[2]
  <2>0. \A i \in 1..2 : hu[6 + i] = u[i] BY <1>6, <1>7, <1>9 DEF IsCat
  <2>1. hu[6 + 1] = u[1] /\ hu[6 + 2] = u[2] BY <2>0
  <2>2. raw[7] = hu[7] /\ raw[8] = hu[8] BY <1>10, <1>11 DEF IsCat
  <2>. QED BY <2>1, <2>2
<1>15. raw \in Seq(Int) /\ Len(raw) = L BY <1>3, <1>10, <1>11 DEF IsCat
<1>16. WordAt(raw, 7) = Len(raw)
  <2>1. WordAt(raw, 7) = raw[7] + Base * raw[8] BY DEF WordAt
  <2>. QED BY <1>7, <1>14, <1>15, <2>1
<1>17. \A j \in 1..Len(body) : raw[8 + j] = body[j] BY <1>10, <1>11 DEF IsCat
<1>18. /\ raw[1] = Magic /\ raw[2] = Version /\ raw[3] = f.msgType /\ raw[4] = Len(f.traces)
       /\ raw[5] = f.binCount /\ raw[6] = f.kDbm
  BY <1>6, <1>13
<1>19. Carries(raw, f) BY <1>1, <1>3, <1>15, <1>16, <1>17, <1>18 DEF Carries
<1>. QED BY <1>12, <1>18, <1>19

\* Where the blocks of a frame's traces end.
LEMMA EndsAre ==
  ASSUME NEW f, IsFrame(f), ~IsJsonType(f.msgType), NEW raw, Carries(raw, f),
         raw[4] \in Nat, Len(f.traces) <= raw[4], NEW t \in 0..Len(f.traces)
  PROVE  /\ BlockEnds(raw)[t] = 8 + Len(Blocks(f, t))
         /\ t # 0 => DecodeTrace(raw, BlockEnds(raw)[t - 1], f.binCount) = f.traces[t]
<1>1. PICK n, ts, E : n = f.binCount /\ ts = f.traces /\ E = BlockEnds(raw) OBVIOUS
<1>2. n \in Nat /\ ts \in Seq(TracesOf(n)) /\ Len(ts) \in Nat BY <1>1 DEF IsFrame
<1>3. Maps(EncOf(n), TracesOf(n), Int) BY <1>2, EncMaps
<1>4. raw[5] = n /\ raw \in Seq(Int) BY <1>1 DEF Carries
<1>5. E[0] = 8 /\ \A i \in 1..raw[4] : E[i] = BlockEnd(raw, E[i - 1], n)
  BY <1>1, <1>2, <1>4, EndsRecur DEF Header
<1>6. ASSUME NEW i \in 1..Len(ts)
      PROVE  /\ BlockEnd(raw, 8 + Len(Blocks(f, i - 1)), n) = 8 + Len(Blocks(f, i))
             /\ DecodeTrace(raw, 8 + Len(Blocks(f, i - 1)), n) = ts[i]
  <2>1. HasAt(EncOf(n), ts, i) BY <1>2, <1>3, FlatMapAt
  <2>2. PICK a, e, b : /\ a = Blocks(f, i - 1) /\ e = EncodeTrace(ts[i], n)
                       /\ b = FlatMap(EncOf(n), ts)
    OBVIOUS
  <2>3. ts[i] \in TracesOf(n) /\ e = EncOf(n)[ts[i]] BY <1>2, <2>2 DEF EncOf
  <2>4. /\ Len(a) + Len(e) <= Len(b) /\ Len(Blocks(f, i)) = Len(a) + Len(e)
        /\ \A j \in 1..Len(e) : b[Len(a) + j] = e[j]
    BY <1>1, <2>1, <2>2, <2>3 DEF HasAt, Blocks
  <2>5. /\ b \in Seq(Int) /\ Len(raw) = 8 + Len(b)
        /\ \A j \in 1..Len(b) : raw[8 + j] = b[j]
    BY <1>1, <2>2, BodyIs DEF Carries
  <2>6. Len(a) \in Nat /\ Len(e) \in Nat /\ Len(b) \in Nat
    <3>1. i - 1 \in 0..Len(ts) BY <1>2
    <3>2. a \in Seq(Int) BY <1>1, <1>2, <1>3, <2>2, <3>1, FlatMapCut DEF Blocks
    <3>3. e \in Seq(Int) BY <1>2, <2>2, <2>3, TraceEncoded DEF IsEncoded
    <3>. QED BY <2>5, <3>2, <3>3
  <2>7. ASSUME NEW j \in 1..Len(e) PROVE raw[(8 + Len(a)) + j] = e[j]
    <3>1. Len(a) + j \in 1..Len(b) /\ 8 + (Len(a) + j) = (8 + Len(a)) + j BY <2>4, <2>6
    <3>2. raw[8 + (Len(a) + j)] = b[Len(a) + j] BY <2>5, <3>1
    <3>. QED BY <2>4, <3>1, <3>2
  <2>8. InRaw(raw, e, 8 + Len(a)) BY <2>4, <2>5, <2>6, <2>7 DEF InRaw
  <2>9. /\ BlockEnd(raw, 8 + Len(a), n) = (8 + Len(a)) + Len(e)
        /\ DecodeTrace(raw, 8 + Len(a), n) = ts[i]
    <3>1. \A x : InRaw(raw, EncodeTrace(ts[i], n), x) =>
                   /\ BlockEnd(raw, x, n) = x + Len(EncodeTrace(ts[i], n))
                   /\ DecodeTrace(raw, x, n) = ts[i]
      BY <1>2, <1>4, <2>3, BlockDecoded
    <3>. QED BY <2>2, <2>8, <3>1
  <2>. QED BY <2>2, <2>4, <2>6, <2>9
<1> DEFINE S == {i \in 0..Len(ts) : E[i] = 8 + Len(Blocks(f, i))}
<1>7. 0 \in S
  <2>1. SubSeq(ts, 1, 0) = <<>> BY <1>2
  <2>2. Blocks(f, 0) = <<>>
    <3>1. FlatMap(EncOf(n), <<>>) = <<>> BY FlatMapNone
    <3>. QED BY <1>1, <2>1, <3>1 DEF Blocks
  <2>3. 8 + Len(Blocks(f, 0)) = 8 BY <2>2
  <2>. QED BY <1>2, <1>5, <2>3
<1>8. ASSUME NEW i \in 1..Len(ts), i - 1 \in S PROVE i \in S
  <2>1. i \in 1..raw[4] BY <1>1, <1>2
  <2>2. E[i] = BlockEnd(raw, E[i - 1], n) BY <1>5, <2>1
  <2>3. E[i - 1] = 8 + Len(Blocks(f, i - 1)) BY <1>8
  <2>4. E[i] = 8 + Len(Blocks(f, i)) BY <1>6, <2>2, <2>3
  <2>. QED BY <2>4
<1>9. \A i \in 0..Len(ts) : E[i] = 8 + Len(Blocks(f, i))
  <2> HIDE DEF S
  <2>1. \A i \in 0..Len(ts) : i \in S BY <1>2, <1>7, <1>8, UpTo
  <2>. QED BY <2>1 DEF S
<1>10. ASSUME t # 0 PROVE DecodeTrace(raw, E[t - 1], n) = ts[t]
  <2>1. t \in 1..Len(ts) /\ t - 1 \in 0..Len(ts) BY <1>1, <1>2, <1>10
  <2>2. E[t - 1] = 8 + Len(Blocks(f, t - 1)) BY <1>9, <2>1
  <2>. QED BY <1>6, <2>1, <2>2
<1>. QED BY <1>1, <1>9, <1>10

-----------------------------------------------------------------------------
(* What was encoded is decoded (decodeFrame(), frames.js:89-190).          *)

LEMMA BodyOf ==
  ASSUME NEW f, IsFrame(f), NEW raw, Carries(raw, f)
  PROVE  SubSeq(raw, Header + 1, Len(raw)) = EncodeBody(f)
<1>1. PICK b, m : b = EncodeBody(f) /\ m = Len(b) OBVIOUS
<1>2. b \in Seq(Int) /\ m \in Nat BY <1>1, BodyIs
<1>3. raw \in Seq(Int) /\ Len(raw) = 8 + m /\ \A j \in 1..m : raw[8 + j] = b[j]
  BY <1>1 DEF Carries
<1>4. IsPart(SubSeq(raw, 8 + 1, 8 + m), raw, 8, m, Int) BY <1>2, <1>3, PartIs
<1>5. PICK c : c = SubSeq(raw, 8 + 1, 8 + m) OBVIOUS
<1>6. c \in Seq(Int) /\ Len(c) = m /\ \A i \in 1..m : c[i] = b[i]
  BY <1>3, <1>4, <1>5 DEF IsPart
<1>7. c = b BY <1>1, <1>2, <1>6, SeqEqual
<1>. QED BY <1>1, <1>3, <1>5, <1>7 DEF Header

LEMMA AllBlocks ==
  ASSUME NEW f, IsFrame(f), ~IsJsonType(f.msgType)
  PROVE  Blocks(f, Len(f.traces)) = EncodeBody(f)
<1>1. PICK n, ts : n = f.binCount /\ ts = f.traces OBVIOUS
<1>2. ts \in Seq(TracesOf(n)) BY <1>1 DEF IsFrame
<1>3. SubSeq(ts, 1, Len(ts)) = ts BY <1>2, SubSeqFull
<1>. QED BY <1>1, <1>3, BodyIs DEF Blocks

\* What was encoded is decoded, whatever the frame.
LEMMA DecodedIs ==
  ASSUME NEW f, IsFrame(f), NEW raw, Carries(raw, f), raw[2] = Version,
         raw[4] = Len(f.traces)
  PROVE  DecodeFrame(raw) = <<f>>
<1>1. PICK E, body : E = BlockEnds(raw) /\ body = SubSeq(raw, Header + 1, Len(raw)) OBVIOUS
<1>2. body = EncodeBody(f) /\ body \in Seq(Int) BY <1>1, BodyOf, BodyIs
<1>3. /\ raw[3] = f.msgType /\ raw[5] = f.binCount /\ raw[6] = f.kDbm
      /\ Len(raw) = 8 + Len(body)
  BY <1>2 DEF Carries
<1>4. f = [msgType |-> f.msgType, binCount |-> f.binCount, kDbm |-> f.kDbm,
           traces |-> f.traces, json |-> f.json]
  BY DEF IsFrame
<1>5. CASE IsJsonType(f.msgType)
  <2>1. body = f.json /\ f.traces = <<>> /\ (body = <<>> \/ Head(body) # 0)
    BY <1>2, <1>5, BodyIs DEF IsFrame
  <2>2. DecodeFrame(raw) = <<[msgType |-> f.msgType, binCount |-> f.binCount,
                             kDbm |-> f.kDbm, traces |-> <<>>, json |-> body]>>
    BY <1>1, <1>3, <1>5, <2>1 DEF DecodeFrame
  <2>. QED BY <1>4, <2>1, <2>2
<1>6. CASE ~IsJsonType(f.msgType)
  <2>1. PICK m : m = Len(f.traces) OBVIOUS
  <2>2. m \in Nat /\ f.traces = [i \in 1..m |-> f.traces[i]] /\ f.json = <<>>
    BY <1>6, <2>1 DEF IsFrame
  <2>3. E[m] = Len(raw)
    <3>1. m \in 0..Len(f.traces) /\ raw[4] \in Nat /\ Len(f.traces) <= raw[4] BY <2>1, <2>2
    <3>2. E[m] = 8 + Len(Blocks(f, m)) BY <1>1, <1>6, <3>1, EndsAre
    <3>3. Blocks(f, m) = body BY <1>2, <1>6, <2>1, AllBlocks
    <3>. QED BY <1>3, <3>2, <3>3
  <2>4. ASSUME NEW i \in 1..m PROVE DecodeTrace(raw, E[i - 1], f.binCount) = f.traces[i]
    <3>1. i \in 0..Len(f.traces) /\ i # 0 /\ raw[4] \in Nat /\ Len(f.traces) <= raw[4]
      BY <2>1, <2>2
    <3>. QED BY <1>1, <1>6, <3>1, EndsAre
  <2>5. [i \in 1..m |-> DecodeTrace(raw, E[i - 1], f.binCount)] = f.traces BY <2>2, <2>4
  <2>6. ~(E[m] > Len(raw))
    <3>1. Len(raw) \in Nat BY <1>2, <1>3
    <3>. QED BY <2>3, <3>1
  <2>7. DecodeFrame(raw) = <<[msgType |-> f.msgType, binCount |-> f.binCount,
                             kDbm |-> f.kDbm, traces |-> f.traces, json |-> <<>>]>>
    BY <1>1, <1>3, <1>6, <2>1, <2>5, <2>6 DEF DecodeFrame
  <2>. QED BY <1>4, <2>2, <2>7
<1>. QED BY <1>5, <1>6

\* One block more than there are runs over the record's end.
LEMMA OverrunIs ==
  ASSUME NEW f, IsFrame(f), ~IsJsonType(f.msgType), NEW raw, Carries(raw, f),
         raw[4] = Len(f.traces) + 1
  PROVE  DecodeFrame(raw) = <<>>
<1>1. PICK E, m : E = BlockEnds(raw) /\ m = Len(f.traces) OBVIOUS
<1>2. m \in Nat /\ f.binCount \in Nat BY <1>1 DEF IsFrame
<1>3. EncodeBody(f) \in Seq(Int) BY BodyIs
<1>4. E[m] = Len(raw)
  <2>1. m \in 0..Len(f.traces) /\ raw[4] \in Nat /\ Len(f.traces) <= raw[4] BY <1>1, <1>2
  <2>2. E[m] = 8 + Len(Blocks(f, m)) BY <1>1, <2>1, EndsAre
  <2>3. Blocks(f, m) = EncodeBody(f) BY <1>1, AllBlocks
  <2>. QED BY <2>2, <2>3 DEF Carries
<1>5. raw[5] = f.binCount /\ raw[3] = f.msgType /\ Len(raw) \in Nat BY <1>3 DEF Carries
<1>6. E[m + 1] = BlockEnd(raw, E[m], f.binCount)
  <2>1. m + 1 \in 1..raw[4] /\ (m + 1) - 1 = m /\ raw[4] \in Nat /\ raw[5] \in Nat
    BY <1>1, <1>2, <1>5
  <2>2. E[m + 1] = BlockEnd(raw, E[(m + 1) - 1], raw[5]) BY <1>1, <2>1, EndsRecur
  <2>. QED BY <1>5, <2>1, <2>2
<1>7. E[m + 1] > Len(raw) BY <1>4, <1>5, <1>6 DEF BlockEnd, TraceHeader
<1>. QED BY <1>1, <1>5, <1>7 DEF DecodeFrame

\* Every frame that may be sent is what decodeFrame() makes of its encoding
\* (frames.js:89-190 and 212-270).
THEOREM FrameRoundTrip ==
  ASSUME NEW q \in Sendable PROVE DecodeFrame(EncodeFrame(q.frame)) = <<q.frame>>
<1>1. PICK f, raw : f = q.frame /\ raw = EncodeFrame(f) OBVIOUS
<1>2. IsFrame(f) BY <1>1, FrameIs
<1>3. Carries(raw, f) /\ raw[2] = Version /\ raw[4] = Len(f.traces)
  BY <1>1, <1>2, FrameEncoded
<1>4. DecodeFrame(raw) = <<f>> BY <1>2, <1>3, DecodedIs
<1>. QED BY <1>1, <1>4

-----------------------------------------------------------------------------
(* Records.                                                                *)

FrameOf(q) == IF q.fault = "none" THEN <<q.frame>> ELSE <<>>

\* A record: a word and what was sent behind it.
IsRecord(rec, w, sent, q) ==
  /\ rec \in Seq(Int) /\ sent \in Seq(Int) /\ w \in Nat
  /\ Len(sent) >= 8 /\ Len(rec) = 2 + Len(sent) /\ WordAt(rec, 1) = w
  /\ \A j \in 1..Len(sent) : rec[2 + j] = sent[j]
  /\ IF q.fault \notin Fatal
     THEN /\ w = Len(sent) /\ w <= MaxFrame /\ sent[1] = Magic /\ WordAt(sent, 7) = w
          /\ DecodeFrame(sent) = FrameOf(q)
     ELSE \/ w < 8 \/ w > MaxFrame
          \/ w <= Len(sent) /\ (sent[1] # Magic \/ WordAt(sent, 7) # w)

LEMMA RecordIs ==
  ASSUME NEW q \in Sendable PROVE \E w, sent : IsRecord(Record(q), w, sent, q)
<1>1. PICK f, raw : f = q.frame /\ raw = EncodeFrame(f) OBVIOUS
<1>2. IsFrame(f) BY <1>1, FrameIs
<1>3. Carries(raw, f) /\ raw[1] = Magic /\ raw[2] = Version /\ raw[4] = Len(f.traces)
  BY <1>1, <1>2, FrameEncoded
<1>4. /\ q.fault \in {"none"} \cup Skipped \cup Fatal
      /\ q.fault = "overrun" => ~IsJsonType(f.msgType)
  BY <1>1 DEF Sendable, RecordSet, CanSend
<1>5. /\ raw \in Seq(Int) /\ Len(raw) \in Nat /\ Len(raw) >= 8 /\ Len(raw) <= MaxFrame
      /\ WordAt(raw, 7) = Len(raw) /\ MaxFrame \in Nat
  <2>1. EncodeBody(f) \in Seq(Int) /\ Len(EncodeBody(f)) \in Nat BY <1>2, BodyIs
  <2>2. Header + Len(EncodeBody(f)) <= MaxFrame BY <1>2 DEF IsFrame
  <2>. QED BY <1>3, <2>1, <2>2, StreamAssumption DEF Carries, Header
<1>6. PICK length : length =
        CASE q.fault = "short" -> <<Header - 1, 0>>
          [] q.fault = "long" -> <<1, Base - 1>>
          [] q.fault = "mismatch" -> Units(Len(raw) - 1)
          [] OTHER -> Units(Len(raw))
  OBVIOUS
<1>7. PICK sent : sent =
        CASE q.fault = "version" -> [raw EXCEPT ![2] = 0]
          [] q.fault = "overrun" -> [raw EXCEPT ![4] = @ + 1]
          [] q.fault = "magic" -> [raw EXCEPT ![1] = 0]
          [] OTHER -> raw
  OBVIOUS
<1>8. PICK rec : rec = length \o sent OBVIOUS
<1>9. rec = Record(q) BY <1>1, <1>6, <1>7, <1>8 DEF Record
<1>10. sent \in Seq(Int) /\ Len(sent) = Len(raw) /\ \A i \in 5..Len(raw) : sent[i] = raw[i]
  <2>1. CASE q.fault = "version"
    <3>1. sent = [raw EXCEPT ![2] = 0] BY <1>7, <2>1
    <3>. QED BY <1>5, <3>1
  <2>2. CASE q.fault = "overrun"
    <3>1. sent = [raw EXCEPT ![4] = raw[4] + 1] BY <1>7, <2>2
    <3>2. raw[4] + 1 \in Int BY <1>2, <1>3 DEF IsFrame
    <3>. QED BY <1>5, <3>1, <3>2
  <2>3. CASE q.fault = "magic"
    <3>1. sent = [raw EXCEPT ![1] = 0] BY <1>7, <2>3
    <3>. QED BY <1>5, <3>1
  <2>4. CASE q.fault \notin {"version", "overrun", "magic"}
    <3>1. sent = raw BY <1>7, <2>4
    <3>. QED BY <1>5, <3>1
  <2>. QED BY <2>1, <2>2, <2>3, <2>4
<1>11. PICK w : w = CASE q.fault = "short" -> 7
                      [] q.fault = "long" -> 1 + Base * (Base - 1)
                      [] q.fault = "mismatch" -> Len(raw) - 1
                      [] OTHER -> Len(raw)
  OBVIOUS
<1>12. Base \in Nat \ {0} /\ MaxFrame <= Base * (Base - 1) BY StreamAssumption
<1>13. length \in Seq(Int) /\ Len(length) = 2 /\ w \in Nat /\ length[1] + Base * length[2] = w
  <2>1. CASE q.fault = "short"
    <3>1. length = <<7, 0>> /\ w = 7 BY <1>6, <1>11, <2>1 DEF Header
    <3>. QED BY <1>12, <3>1
  <2>2. CASE q.fault = "long"
    <3>1. length = <<1, Base - 1>> /\ w = 1 + Base * (Base - 1) BY <1>6, <1>11, <2>2
    <3>2. Base * (Base - 1) \in Nat BY <1>12
    <3>. QED BY <1>12, <3>1, <3>2
  <2>3. CASE q.fault = "mismatch"
    <3>1. length = Units(Len(raw) - 1) /\ w = Len(raw) - 1 BY <1>6, <1>11, <2>3
    <3>2. Len(raw) - 1 \in Nat BY <1>5
    <3>. QED BY <3>1, <3>2, WordIs
  <2>4. CASE q.fault \notin {"short", "long", "mismatch"}
    <3>1. length = Units(Len(raw)) /\ w = Len(raw) BY <1>6, <1>11, <2>4
    <3>. QED BY <1>5, <3>1, WordIs
  <2>. QED BY <2>1, <2>2, <2>3, <2>4
<1>14. IsCat(rec, length, sent, Int) BY <1>8, <1>10, <1>13, CatIs
<1>15. /\ rec \in Seq(Int) /\ Len(rec) = 2 + Len(sent) /\ WordAt(rec, 1) = w
       /\ \A j \in 1..Len(sent) : rec[2 + j] = sent[j]
  <2>1. /\ rec \in Seq(Int) /\ Len(rec) = 2 + Len(sent)
        /\ \A j \in 1..2 : rec[j] = length[j]
        /\ \A j \in 1..Len(sent) : rec[2 + j] = sent[j]
    BY <1>13, <1>14 DEF IsCat
  <2>2. WordAt(rec, 1) = w
    <3>1. WordAt(rec, 1) = rec[1] + Base * rec[2] BY DEF WordAt
    <3>. QED BY <1>13, <2>1, <3>1
  <2>. QED BY <2>1, <2>2
<1>16. WordAt(sent, 7) = Len(raw)
  <2>1. sent[7] = raw[7] /\ sent[7 + 1] = raw[7 + 1] BY <1>5, <1>10
  <2>. QED BY <1>5, <2>1 DEF WordAt
<1>17. CASE q.fault \notin Fatal
  <2>1. q.fault \in {"none", "version", "overrun"} BY <1>4, <1>17 DEF Skipped, Fatal
  <2>2. w = Len(sent) /\ w <= MaxFrame BY <1>5, <1>10, <1>11, <2>1
  <2>3. sent[1] = Magic BY <1>3, <1>5, <1>7, <2>1
  <2>4. DecodeFrame(sent) = FrameOf(q)
    <3>1. CASE q.fault = "none"
      <4>1. sent = raw BY <1>7, <3>1
      <4>. QED BY <1>1, <1>2, <1>3, <3>1, <4>1, DecodedIs DEF FrameOf
    <3>2. CASE q.fault = "version"
      <4>1. sent[2] # Version BY <1>5, <1>7, <3>2 DEF Version
      <4>. QED BY <3>2, <4>1 DEF DecodeFrame, FrameOf
    <3>3. CASE q.fault = "overrun"
      <4>1. sent = [raw EXCEPT ![4] = raw[4] + 1] BY <1>7, <3>3
      <4>2. sent[4] = Len(f.traces) + 1 /\ sent[3] = raw[3] BY <1>3, <1>5, <4>1
      <4>3. Carries(sent, f)
        <5>0. 5 \in 5..Len(raw) /\ 6 \in 5..Len(raw) BY <1>5
        <5>1. sent[5] = raw[5] /\ sent[6] = raw[6] BY <1>10, <5>0
        <5>2. Len(EncodeBody(f)) \in Nat BY <1>2, BodyIs
        <5>3. ASSUME NEW j \in 1..Len(EncodeBody(f)) PROVE sent[8 + j] = EncodeBody(f)[j]
          <6>1. 8 + j \in 5..Len(raw) BY <1>3, <5>2 DEF Carries
          <6>. QED BY <1>3, <1>10, <6>1 DEF Carries
        <5>. QED BY <1>3, <1>10, <1>16, <4>2, <5>1, <5>3 DEF Carries
      <4>4. DecodeFrame(sent) = <<>> BY <1>2, <1>4, <3>3, <4>2, <4>3, OverrunIs
      <4>. QED BY <3>3, <4>4 DEF FrameOf
    <3>. QED BY <2>1, <3>1, <3>2, <3>3
  <2>. QED BY <1>5, <1>9, <1>10, <1>13, <1>15, <1>16, <1>17, <2>2, <2>3, <2>4 DEF IsRecord
<1>18. CASE q.fault \in Fatal
  <2>1. \/ w < 8 \/ w > MaxFrame
        \/ w <= Len(sent) /\ (sent[1] # Magic \/ WordAt(sent, 7) # w)
    <3>1. CASE q.fault = "short" BY <1>11, <3>1
    <3>2. CASE q.fault = "long"
      <4>1. w = 1 + Base * (Base - 1) /\ Base * (Base - 1) \in Int BY <1>11, <1>12, <3>2
      <4>. QED BY <1>5, <1>12, <4>1
    <3>3. CASE q.fault = "mismatch" BY <1>5, <1>10, <1>11, <1>16, <3>3, SMTT(30)
    <3>4. CASE q.fault = "magic"
      <4>1. sent[1] # Magic BY <1>5, <1>7, <3>4 DEF Magic
      <4>2. w <= Len(sent) BY <1>5, <1>10, <1>11, <3>4
      <4>. QED BY <4>1, <4>2
    <3>. QED BY <1>18, <3>1, <3>2, <3>3, <3>4 DEF Fatal
  <2>. QED BY <1>5, <1>9, <1>10, <1>13, <1>15, <1>18, <2>1 DEF IsRecord
<1>. QED BY <1>17, <1>18

-----------------------------------------------------------------------------
(* The chunk list.                                                         *)

\* The units that were put together and not used yet.
Unread(r) == SubSeq(FlattenSeq(r.chunks), r.head + 1, Len(FlattenSeq(r.chunks)))

\* No chunk is empty, and the first is not used up.
Sound(r) == /\ r = [chunks |-> r.chunks, head |-> r.head, buffered |-> r.buffered]
            /\ r.chunks \in Seq(Seq(Int)) /\ \A i \in 1..Len(r.chunks) : r.chunks[i] # <<>>
            /\ r.head \in Nat
            /\ r.head < (IF r.chunks = <<>> THEN 1 ELSE Len(Head(r.chunks)))
            /\ r.buffered = Len(FlattenSeq(r.chunks)) - r.head

LEMMA IntAssoc ==
  ASSUME NEW x \in Seq(Int), NEW y \in Seq(Int), NEW z \in Seq(Int)
  PROVE  (x \o y) \o z = x \o (y \o z)
<1>1. LeftCat(x, y, z) = RightCat(x, y, z) BY CatAssoc
<1>. QED BY <1>1 DEF LeftCat, RightCat

LEMMA DropCat ==
  ASSUME NEW T, NEW a \in Seq(T), NEW b \in Seq(T), NEW m \in 0..Len(a)
  PROVE  SubSeq(a \o b, m + 1, Len(a \o b)) = SubSeq(a, m + 1, Len(a)) \o b
<1>1. PICK c, p, q : /\ c = a \o b /\ p = SubSeq(c, m + 1, Len(c))
                     /\ q = SubSeq(a, m + 1, Len(a))
  OBVIOUS
<1>2. IsCat(c, a, b, T) BY <1>1, CatIs
<1>3. /\ c \in Seq(T) /\ Len(a) \in Nat /\ Len(b) \in Nat /\ Len(c) = Len(a) + Len(b)
      /\ m \in Nat /\ m <= Len(a)
  BY <1>2 DEF IsCat
<1>4. IsPart(p, c, m, Len(c) - m, T)
  <2>1. Len(c) - m \in Nat /\ m + (Len(c) - m) = Len(c) BY <1>3
  <2>2. IsPart(SubSeq(c, m + 1, m + (Len(c) - m)), c, m, Len(c) - m, T)
    BY <1>3, <2>1, PartIs
  <2>. QED BY <1>1, <2>1, <2>2
<1>5. IsPart(q, a, m, Len(a) - m, T)
  <2>1. Len(a) - m \in Nat /\ m + (Len(a) - m) = Len(a) BY <1>3
  <2>2. IsPart(SubSeq(a, m + 1, m + (Len(a) - m)), a, m, Len(a) - m, T)
    BY <1>3, <2>1, PartIs
  <2>. QED BY <1>1, <2>1, <2>2
<1>6. q \in Seq(T) BY <1>5 DEF IsPart
<1>7. PICK d : d = q \o b OBVIOUS
<1>8. IsCat(d, q, b, T) BY <1>6, <1>7, CatIs
<1>9. Len(p) = Len(d) /\ p \in Seq(T) /\ d \in Seq(T) /\ Len(q) = Len(a) - m
  BY <1>3, <1>4, <1>5, <1>8 DEF IsPart, IsCat
<1>10. ASSUME NEW i \in 1..Len(p) PROVE p[i] = d[i]
  <2>1. p[i] = c[m + i] /\ i \in 1..(Len(c) - m) BY <1>4 DEF IsPart
  <2>2. CASE i <= Len(a) - m
    <3>1. i \in 1..Len(q) /\ m + i \in 1..Len(a) BY <1>3, <1>9, <2>1, <2>2
    <3>2. d[i] = q[i] BY <1>8, <3>1 DEF IsCat
    <3>3. q[i] = a[m + i] BY <1>5, <1>9, <3>1 DEF IsPart
    <3>4. c[m + i] = a[m + i] BY <1>2, <3>1 DEF IsCat
    <3>. QED BY <2>1, <3>2, <3>3, <3>4
  <2>3. CASE i > Len(a) - m
    <3>1. PICK j : j = i - (Len(a) - m) OBVIOUS
    <3>2. j \in 1..Len(b) /\ m + i = Len(a) + j /\ i = Len(q) + j
      BY <1>3, <1>9, <2>1, <2>3, <3>1
    <3>3. d[Len(q) + j] = b[j] BY <1>8, <3>2 DEF IsCat
    <3>4. c[Len(a) + j] = b[j] BY <1>2, <3>2 DEF IsCat
    <3>. QED BY <2>1, <3>2, <3>3, <3>4
  <2>. QED BY <1>3, <2>1, <2>2, <2>3
<1>11. p = d BY <1>9, <1>10, SeqEqual
<1>. QED BY <1>1, <1>7, <1>11

\* What is unread of a reassembler with chunks.
LEMMA UnreadIs ==
  ASSUME NEW r, Sound(r), r.chunks # <<>>
  PROVE  LET c == Head(r.chunks)
             rest == FlattenSeq(Tail(r.chunks))
         IN /\ c \in Seq(Int) /\ rest \in Seq(Int) /\ r.head < Len(c)
            /\ Tail(r.chunks) \in Seq(Seq(Int))
            /\ Unread(r) = SubSeq(c, r.head + 1, Len(c)) \o rest
            /\ r.buffered = Len(c) + Len(rest) - r.head
<1>1. PICK s, c, u, rest, all : /\ s = r.chunks /\ c = Head(s) /\ u = Tail(s)
                                /\ rest = FlattenSeq(u) /\ all = FlattenSeq(s)
  OBVIOUS
<1>2. s \in Seq(Seq(Int)) /\ s # <<>> BY <1>1 DEF Sound
<1>3. c \in Seq(Int) /\ u \in Seq(Seq(Int)) BY <1>1, <1>2
<1>4. rest \in Seq(Int) BY <1>1, <1>3, FlatType
<1>5. all = c \o rest BY <1>1, <1>2, FlatHead
<1>6. r.head \in Nat /\ r.head < Len(c) BY <1>1, <1>2 DEF Sound
<1>7. SubSeq(all, r.head + 1, Len(all)) = SubSeq(c, r.head + 1, Len(c)) \o rest
  <2>1. r.head \in 0..Len(c) BY <1>3, <1>6
  <2>. QED BY <1>3, <1>4, <1>5, <2>1, DropCat
<1>8. r.buffered = Len(c) + Len(rest) - r.head
  <2>1. Len(all) = Len(c) + Len(rest) BY <1>3, <1>4, <1>5
  <2>. QED BY <1>1, <2>1 DEF Sound
<1>. QED BY <1>1, <1>3, <1>4, <1>6, <1>7, <1>8 DEF Unread

LEMMA UnreadType ==
  ASSUME NEW r, Sound(r)
  PROVE  /\ Unread(r) \in Seq(Int) /\ Len(Unread(r)) = r.buffered /\ r.buffered \in Nat
         /\ r.chunks = <<>> => Unread(r) = <<>>
<1>1. CASE r.chunks = <<>>
  <2>1. FlattenSeq(r.chunks) = <<>> BY <1>1, FlatEmpty
  <2>2. r.head = 0 /\ r.buffered = 0 BY <1>1, <2>1 DEF Sound
  <2>3. Unread(r) = <<>> BY <2>1, <2>2 DEF Unread
  <2>. QED BY <2>2, <2>3
<1>2. CASE r.chunks # <<>>
  <2>1. PICK all, m : all = FlattenSeq(r.chunks) /\ m = r.head OBVIOUS
  <2>2. all \in Seq(Int) BY <2>1, FlatType DEF Sound
  <2>3. m \in Nat /\ m <= Len(all) /\ r.buffered = Len(all) - m
    <3>1. PICK c, rest : c = Head(r.chunks) /\ rest = FlattenSeq(Tail(r.chunks)) OBVIOUS
    <3>2. c \in Seq(Int) /\ rest \in Seq(Int) /\ m < Len(c)
      BY <1>2, <2>1, <3>1, UnreadIs
    <3>3. all = c \o rest BY <1>2, <2>1, <3>1, FlatHead DEF Sound
    <3>4. Len(all) = Len(c) + Len(rest) /\ Len(c) \in Nat /\ Len(rest) \in Nat BY <3>2, <3>3
    <3>. QED BY <2>1, <3>2, <3>4 DEF Sound
  <2>4. Len(all) - m \in Nat /\ m + (Len(all) - m) = Len(all) BY <2>2, <2>3
  <2>5. IsPart(SubSeq(all, m + 1, m + (Len(all) - m)), all, m, Len(all) - m, Int)
    BY <2>2, <2>3, <2>4, PartIs
  <2>. QED BY <1>2, <2>1, <2>3, <2>4, <2>5 DEF IsPart, Unread
<1>. QED BY <1>1, <1>2

-----------------------------------------------------------------------------
(* #take().                                                                *)

TakeState(t, B, n) ==
  /\ t = [r |-> t.r, need |-> t.need, raw |-> t.raw]
  /\ Sound(t.r) /\ t.need \in Nat /\ t.raw \in Seq(Int)
  /\ Len(t.raw) + t.need = n /\ t.raw \o Unread(t.r) = B

LEMMA TurnTakes ==
  ASSUME NEW B \in Seq(Int), NEW n \in 0..Len(B), NEW t, TakeState(t, B, n)
  PROVE  /\ TakeState(TakeTurn(t), B, n)
         /\ \/ TakeTurn(t).need = 0
            \/ Len(TakeTurn(t).r.chunks) = Len(t.r.chunks) - 1 /\ t.need # 0
<1>1. CASE t.need = 0 BY <1>1 DEF TakeTurn
<1>2. CASE t.need # 0
  <2>1. PICK r, need, raw, U : r = t.r /\ need = t.need /\ raw = t.raw /\ U = Unread(r)
    OBVIOUS
  <2>2. /\ Sound(r) /\ need \in Nat /\ need # 0 /\ raw \in Seq(Int) /\ Len(raw) + need = n
        /\ raw \o U = B
    BY <1>2, <2>1 DEF TakeState
  <2>3. U \in Seq(Int) /\ Len(U) = r.buffered BY <2>1, <2>2, UnreadType
  <2>4. need <= Len(U)
    <3>1. IsCat(B, raw, U, Int) BY <2>2, <2>3, CatIs
    <3>2. Len(B) = Len(raw) + Len(U) /\ Len(raw) \in Nat /\ Len(U) \in Nat BY <3>1 DEF IsCat
    <3>. QED BY <2>2, <3>2
  <2>5. r.chunks # <<>>
    <3>1. U # <<>> BY <2>2, <2>3, <2>4
    <3>. QED BY <2>1, <2>2, <3>1, UnreadType
  <2>6. PICK c, rest, u, m : /\ c = Head(r.chunks) /\ u = Tail(r.chunks)
                             /\ rest = FlattenSeq(u) /\ m = r.head
    OBVIOUS
  <2>7. /\ c \in Seq(Int) /\ rest \in Seq(Int) /\ m < Len(c) /\ u \in Seq(Seq(Int))
        /\ U = SubSeq(c, m + 1, Len(c)) \o rest /\ r.buffered = Len(c) + Len(rest) - m
    BY <2>1, <2>2, <2>5, <2>6, UnreadIs
  <2>8. m \in Nat /\ Len(c) \in Nat /\ Len(rest) \in Nat
    <3>1. m \in Nat BY <2>2, <2>6 DEF Sound
    <3>. QED BY <2>7, <3>1
  <2>9. \A i \in 1..Len(u) : u[i] # <<>> /\ Len(u) = Len(r.chunks) - 1
    <3>1. PICK s : s = r.chunks OBVIOUS
    <3>2. s \in Seq(Seq(Int)) /\ s # <<>> /\ u = Tail(s) /\ \A i \in 1..Len(s) : s[i] # <<>>
      BY <2>2, <2>5, <2>6, <3>1 DEF Sound
    <3>3. Len(u) = Len(s) - 1 /\ \A i \in 1..Len(u) : u[i] = s[i + 1] BY <3>2
    <3>4. \A i \in 1..Len(u) : i + 1 \in 1..Len(s) BY <3>2, <3>3
    <3>. QED BY <3>1, <3>2, <3>3, <3>4
  <2>10. Len(u) = Len(r.chunks) - 1
    <3>1. r.chunks \in Seq(Seq(Int)) BY <2>2 DEF Sound
    <3>. QED BY <2>5, <2>6, <3>1
  <2>11. CASE Len(c) - m <= need
    <3>1. Smaller(Len(c) - m, need) = Len(c) - m BY <2>2, <2>8, <2>11 DEF Smaller
    <3>2. PICK r2, raw2 : /\ r2 = [chunks |-> u, head |-> 0, buffered |-> r.buffered - (Len(c) - m)]
                          /\ raw2 = raw \o SubSeq(c, m + 1, Len(c))
      OBVIOUS
    <3>3. TakeTurn(t) = [r |-> r2, need |-> need - (Len(c) - m), raw |-> raw2]
      <4>1. m + (Len(c) - m) = Len(c) BY <2>8
      <4>2. TakeTurn(t) = [r |-> [chunks |-> u, head |-> 0, buffered |-> r.buffered - (Len(c) - m)],
                           need |-> need - (Len(c) - m), raw |-> raw \o SubSeq(c, m + 1, m + (Len(c) - m))]
        BY <1>2, <2>1, <2>6, <2>11, <3>1 DEF TakeTurn, UsesUp, Piece
      <4>. QED BY <3>2, <4>1, <4>2
    <3>4. Sound(r2)
      <4>1. r2 = [chunks |-> r2.chunks, head |-> r2.head, buffered |-> r2.buffered] /\ r2.chunks = u
            /\ r2.head = 0 /\ r2.buffered = r.buffered - (Len(c) - m)
        BY <3>2
      <4>2. r2.buffered = Len(rest) - 0 BY <2>7, <2>8, <4>1
      <4>3. u # <<>> => Len(Head(u)) > 0
        <5>1. ASSUME u # <<>> PROVE Head(u) \in Seq(Int) /\ Head(u) # <<>> BY <2>7, <2>9, <5>1
        <5>. QED BY <5>1
      <4>4. r2.buffered = Len(FlattenSeq(u)) - 0 BY <2>6, <4>2
      <4>5. u \in Seq(Seq(Int)) /\ \A i \in 1..Len(u) : u[i] # <<>> BY <2>7, <2>9
      <4>6. 0 < (IF u = <<>> THEN 1 ELSE Len(Head(u))) BY <4>3
      <4>. QED BY <4>1, <4>4, <4>5, <4>6 DEF Sound
    <3>5. Unread(r2) = rest
      <4>1. r2.head + 1 = 1 /\ FlattenSeq(r2.chunks) = rest BY <2>6, <3>2
      <4>. QED BY <2>7, <4>1, SubSeqFull DEF Unread
    <3>6. PICK p : p = SubSeq(c, m + 1, Len(c)) OBVIOUS
    <3>7. p \in Seq(Int) /\ Len(p) = Len(c) - m
      <4>1. Len(c) - m \in Nat /\ m + (Len(c) - m) = Len(c) BY <2>7, <2>8
      <4>2. IsPart(SubSeq(c, m + 1, m + (Len(c) - m)), c, m, Len(c) - m, Int)
        BY <2>7, <2>8, <4>1, PartIs
      <4>. QED BY <3>6, <4>1, <4>2 DEF IsPart
    <3>8. raw2 \in Seq(Int) /\ Len(raw2) = Len(raw) + (Len(c) - m)
      <4>1. IsCat(raw2, raw, p, Int) BY <2>2, <3>2, <3>6, <3>7, CatIs
      <4>. QED BY <3>7, <4>1 DEF IsCat
    <3>9. raw2 \o rest = B
      <4>1. raw \in Seq(Int) /\ p \in Seq(Int) /\ rest \in Seq(Int) BY <2>2, <2>7, <3>7
      <4>2. (raw \o p) \o rest = raw \o (p \o rest) BY <4>1, IntAssoc, ZenonT(40)
      <4>. QED BY <2>2, <2>7, <3>2, <3>6, <4>2
    <3>10. need - (Len(c) - m) \in Nat /\ Len(raw2) + (need - (Len(c) - m)) = n
      <4>1. PICK l, a : l = Len(raw) /\ a = Len(c) - m OBVIOUS
      <4>2. l \in Nat /\ a \in Int /\ a <= need /\ need \in Nat /\ l + need = n
            /\ Len(raw2) = l + a
        BY <2>2, <2>8, <2>11, <3>8, <4>1
      <4>3. need - a \in Nat /\ (l + a) + (need - a) = n BY <4>2
      <4>. QED BY <4>1, <4>2, <4>3
    <3>11. TakeState(TakeTurn(t), B, n)
      <4>1. PICK t2, k : k = need - (Len(c) - m) /\ t2 = [r |-> r2, need |-> k, raw |-> raw2]
        OBVIOUS
      <4>2. t2.r = r2 /\ t2.need = k /\ t2.raw = raw2 BY <4>1
      <4>3. k \in Nat /\ Len(raw2) + k = n BY <3>10, <4>1
      <4>4. TakeState(t2, B, n) BY <3>4, <3>5, <3>8, <3>9, <4>1, <4>2, <4>3 DEF TakeState
      <4>. QED BY <3>3, <4>1, <4>4
    <3>12. Len(TakeTurn(t).r.chunks) = Len(t.r.chunks) - 1 BY <2>1, <2>10, <3>2, <3>3
    <3>. QED BY <1>2, <3>11, <3>12
  <2>12. CASE ~(Len(c) - m <= need)
    <3>1. Smaller(Len(c) - m, need) = need BY <2>2, <2>8, <2>12 DEF Smaller
    <3>2. PICK r2, raw2, p : /\ r2 = [r EXCEPT !.head = @ + need, !.buffered = @ - need]
                             /\ p = SubSeq(c, m + 1, m + need) /\ raw2 = raw \o p
      OBVIOUS
    <3>3. TakeTurn(t) = [r |-> r2, need |-> need - need, raw |-> raw2]
      BY <1>2, <2>1, <2>6, <2>12, <3>1, <3>2 DEF TakeTurn, UsesUp, Piece
    <3>4. r2 = [chunks |-> r.chunks, head |-> m + need, buffered |-> r.buffered - need]
      <4>1. r = [chunks |-> r.chunks, head |-> r.head, buffered |-> r.buffered] BY <2>2 DEF Sound
      <4>. QED BY <2>6, <3>2, <4>1
    <3>5. m + need \in Nat /\ m + need < Len(c) BY <2>2, <2>8, <2>12
    <3>6. Sound(r2)
      <4>1. r.buffered = Len(FlattenSeq(r.chunks)) - m /\ Len(FlattenSeq(r.chunks)) \in Nat
        BY <2>2, <2>6, FlatType DEF Sound
      <4>2. r.buffered - need = Len(FlattenSeq(r.chunks)) - (m + need) BY <2>2, <2>8, <4>1
      <4>. QED BY <2>2, <2>5, <2>6, <3>4, <3>5, <4>2 DEF Sound
    <3>7. PICK q : q = SubSeq(c, (m + need) + 1, Len(c)) OBVIOUS
    <3>8. Unread(r2) = q \o rest
      <4>1. r2.chunks = r.chunks /\ r2.head = m + need BY <3>4
      <4>2. LET c2 == Head(r2.chunks)
                rest2 == FlattenSeq(Tail(r2.chunks))
            IN Unread(r2) = SubSeq(c2, r2.head + 1, Len(c2)) \o rest2
        BY <2>5, <3>6, <4>1, UnreadIs
      <4>. QED BY <2>6, <3>7, <4>1, <4>2
    <3>9. p \o q = SubSeq(c, m + 1, Len(c)) /\ p \in Seq(Int) /\ Len(p) = need /\ q \in Seq(Int)
      <4>1. m + 1 \in 1..(Len(c) + 1) /\ m + need \in ((m + 1) - 1)..Len(c) /\ Len(c) \in (m + need)..Len(c)
        BY <2>2, <2>8, <3>5
      <4>2. SubSeq(c, m + 1, m + need) \o SubSeq(c, (m + need) + 1, Len(c)) = SubSeq(c, m + 1, Len(c))
        BY <2>7, <4>1, ConcatAdjacentSubSeq
      <4>3. IsPart(SubSeq(c, m + 1, m + need), c, m, need, Int) BY <2>2, <2>7, <2>8, <3>5, PartIs, SMTT(30)
      <4>4. Len(c) - (m + need) \in Nat /\ (m + need) + (Len(c) - (m + need)) = Len(c)
        BY <2>2, <2>8, <3>5
      <4>5. IsPart(SubSeq(c, (m + need) + 1, (m + need) + (Len(c) - (m + need))), c, m + need,
                   Len(c) - (m + need), Int)
        BY <2>7, <3>5, <4>4, PartIs
      <4>. QED BY <3>2, <3>7, <4>2, <4>3, <4>4, <4>5 DEF IsPart
    <3>10. raw2 \in Seq(Int) /\ Len(raw2) = n
      <4>1. IsCat(raw2, raw, p, Int) BY <2>2, <3>2, <3>9, CatIs
      <4>. QED BY <2>2, <3>9, <4>1 DEF IsCat
    <3>11. raw2 \o (q \o rest) = B
      <4>2. q \o rest \in Seq(Int) BY <2>7, <3>9
      <4>3. (raw \o p) \o (q \o rest) = raw \o (p \o (q \o rest))
        BY <2>2, <3>9, <4>2, IntAssoc, ZenonT(40)
      <4>4. p \o (q \o rest) = (p \o q) \o rest BY <2>7, <3>9, IntAssoc, ZenonT(40)
      <4>. QED BY <2>2, <2>7, <3>2, <3>9, <4>3, <4>4
    <3>12. need - need = 0 BY <2>2
    <3>13. TakeState(TakeTurn(t), B, n)
      <4>1. PICK t2 : t2 = [r |-> r2, need |-> 0, raw |-> raw2] OBVIOUS
      <4>2. t2.r = r2 /\ t2.need = 0 /\ t2.raw = raw2 BY <4>1
      <4>3. Len(raw2) + 0 = n /\ n \in Nat BY <3>10
      <4>4. TakeState(t2, B, n) BY <3>6, <3>8, <3>10, <3>11, <4>1, <4>2, <4>3 DEF TakeState
      <4>. QED BY <3>3, <3>12, <4>1, <4>4
    <3>. QED BY <3>3, <3>12, <3>13
  <2>. QED BY <2>11, <2>12
<1>. QED BY <1>1, <1>2

Taking == [r : [chunks : Seq(Seq(Int)), head : Int, buffered : Int], need : Int, raw : Seq(Int)]

LEMMA TakeStateType ==
  ASSUME NEW t, NEW B, NEW n, TakeState(t, B, n) PROVE t \in Taking
<1>1. /\ t = [r |-> t.r, need |-> t.need, raw |-> t.raw] /\ Sound(t.r) /\ t.need \in Int
      /\ t.raw \in Seq(Int)
  BY DEF TakeState
<1>2. PICK r : r = t.r OBVIOUS
<1>3. /\ r = [chunks |-> r.chunks, head |-> r.head, buffered |-> r.buffered]
      /\ r.chunks \in Seq(Seq(Int)) /\ r.head \in Int
  BY <1>1, <1>2 DEF Sound
<1>4. r.buffered \in Int BY <1>1, <1>2, UnreadType
<1>5. r \in [chunks : Seq(Seq(Int)), head : Int, buffered : Int]
  <2>1. PICK whole :
          whole = [chunks |-> r.chunks, head |-> r.head, buffered |-> r.buffered]
    OBVIOUS
  <2>2. whole \in [chunks : Seq(Seq(Int)), head : Int, buffered : Int]
    BY <1>3, <1>4, <2>1
  <2>3. r = whole BY <1>3, <2>1, Zenon
  <2>. QED BY <2>2, <2>3
<1>. QED BY <1>1, <1>2, <1>5 DEF Taking

\* The first n units are taken, and no others.
IsTaken(t, r, n) ==
  /\ t.need = 0 /\ Sound(t.r) /\ t.raw \in Seq(Int) /\ Len(t.raw) = n
  /\ t.raw \o Unread(t.r) = Unread(r)

\* #skip() and #take() together take the first n units off the front and no
\* others, over any number of chunks of any length (frames.js:347-382).
THEOREM TakeIs ==
  ASSUME NEW r, Sound(r), NEW n \in 0..Len(Unread(r)) PROVE IsTaken(Take(r, n), r, n)
<1>1. PICK B, N, first : /\ B = Unread(r) /\ N = Len(r.chunks)
                         /\ first = [r |-> r, need |-> n, raw |-> <<>>]
  OBVIOUS
<1>2. B \in Seq(Int) /\ n \in 0..Len(B) /\ n \in Nat BY <1>1, UnreadType
<1>3. N \in Nat BY <1>1 DEF Sound
<1>4. PICK step : step = [i \in 1..N |-> [t \in Taking |-> TakeTurn(t)]] OBVIOUS
<1>5. PICK X : X = [i \in 0..N |-> {t \in Taking : /\ TakeState(t, B, n)
                                                   /\ t.need = 0 \/ Len(t.r.chunks) = N - i}]
  OBVIOUS
<1>6. first \in X[0]
  <2>1. <<>> \o B = B /\ Len(<<>>) + n = n BY <1>2
  <2>2. TakeState(first, B, n) BY <1>1, <1>2, <2>1 DEF TakeState
  <2>3. first \in Taking BY <2>2, TakeStateType
  <2>4. Len(first.r.chunks) = N - 0 BY <1>1, <1>3
  <2>5. X[0] = {t \in Taking : TakeState(t, B, n) /\ (t.need = 0 \/ Len(t.r.chunks) = N - 0)}
    BY <1>3, <1>5
  <2>. QED BY <2>2, <2>3, <2>4, <2>5
<1>7. ASSUME NEW i \in 1..N, NEW t \in X[i - 1]
      PROVE  step[i][t] \in X[i] /\ step[i][t] = TakeTurn(t) /\ t \in Taking
  <2>1. t \in Taking /\ TakeState(t, B, n) /\ (t.need = 0 \/ Len(t.r.chunks) = N - (i - 1))
    <3>1. i - 1 \in 0..N BY <1>3
    <3>2. X[i - 1] = {x \in Taking : /\ TakeState(x, B, n)
                                     /\ x.need = 0 \/ Len(x.r.chunks) = N - (i - 1)}
      BY <1>5, <3>1
    <3>. QED BY <3>2
  <2>2. step[i][t] = TakeTurn(t) BY <1>4, <2>1
  <2>3. PICK u : u = TakeTurn(t) OBVIOUS
  <2>4. /\ TakeState(u, B, n)
        /\ u.need = 0 \/ (Len(u.r.chunks) = Len(t.r.chunks) - 1 /\ t.need # 0)
    BY <1>2, <2>1, <2>3, TurnTakes
  <2>5. u.need = 0 \/ Len(u.r.chunks) = N - i
    <3>1. (N - (i - 1)) - 1 = N - i BY <1>3
    <3>. QED BY <2>1, <2>4, <3>1
  <2>6. u \in Taking BY <2>4, TakeStateType
  <2>7. X[i] = {x \in Taking : TakeState(x, B, n) /\ (x.need = 0 \/ Len(x.r.chunks) = N - i)}
    BY <1>5
  <2>8. u \in X[i] BY <2>4, <2>5, <2>6, <2>7
  <2>. QED BY <2>1, <2>2, <2>3, <2>8
<1>8. PICK f : IsLoop(f, N, first, step) BY <1>3, LoopExists
<1>9. \A i \in 0..N : f[i] \in X[i] BY <1>3, <1>6, <1>7, <1>8, LoopKeeps
<1>10. f = [i \in 0..N |-> IF i = 0 THEN first ELSE TakeTurn(f[i - 1])]
  <2>1. \A i \in 1..N : step[i][f[i - 1]] = TakeTurn(f[i - 1])
    <3>1. \A i \in 1..N : i - 1 \in 0..N BY <1>3
    <3>. QED BY <1>7, <1>9, <3>1
  <2>2. f = [i \in 0..N |-> IF i = 0 THEN first ELSE step[i][f[i - 1]]] BY <1>8 DEF IsLoop
  <2>3. \A i \in 0..N : (IF i = 0 THEN first ELSE step[i][f[i - 1]])
                          = (IF i = 0 THEN first ELSE TakeTurn(f[i - 1]))
    BY <2>1
  <2>. QED BY <2>2, <2>3
<1>11. PICK g : /\ g = (CHOOSE h : h = [i \in 0..N |-> IF i = 0 THEN first ELSE TakeTurn(h[i - 1])])
                /\ Take(r, n) = g[N]
  BY <1>1 DEF Take
<1>12. g = [i \in 0..N |-> IF i = 0 THEN first ELSE TakeTurn(g[i - 1])] BY <1>10, <1>11
<1>13. g[N] \in X[N]
  <2> DEFINE S == {i \in 0..N : g[i] \in X[i]}
  <2>1. 0 \in S
    <3>1. 0 \in 0..N /\ g[0] = first BY <1>3, <1>12
    <3>2. g[0] \in X[0] BY <1>6, <3>1
    <3>. QED BY <3>1, <3>2
  <2>2. ASSUME NEW i \in 1..N, i - 1 \in S PROVE i \in S
    <3>0. i \in 0..N /\ i # 0 BY <1>3
    <3>1. g[i] = TakeTurn(g[i - 1]) BY <1>12, <3>0
    <3>2. g[i - 1] \in X[i - 1] BY <2>2
    <3>3. TakeTurn(g[i - 1]) \in X[i] BY <1>7, <3>2
    <3>4. g[i] \in X[i] BY <3>1, <3>3
    <3>. QED BY <3>0, <3>4
  <2> HIDE DEF S
  <2>3. \A i \in 0..N : i \in S BY <1>3, <2>1, <2>2, UpTo
  <2>4. N \in S BY <1>3, <2>3
  <2>. QED BY <2>4 DEF S
<1>14. PICK t : t = g[N] OBVIOUS
<1>15. TakeState(t, B, n) /\ (t.need = 0 \/ Len(t.r.chunks) = 0)
  <2>1. X[N] = {x \in Taking : TakeState(x, B, n) /\ (x.need = 0 \/ Len(x.r.chunks) = N - N)}
    <3>1. N \in 0..N BY <1>3
    <3>. QED BY <1>5, <3>1
  <2>2. N - N = 0 BY <1>3
  <2>. QED BY <1>13, <1>14, <2>1, <2>2
<1>16. PICK U, raw : U = Unread(t.r) /\ raw = t.raw OBVIOUS
<1>17. raw \in Seq(Int) /\ Len(raw) + t.need = n /\ t.need \in Nat /\ raw \o U = B /\ Sound(t.r)
  BY <1>15, <1>16 DEF TakeState
<1>18. U \in Seq(Int) BY <1>16, <1>17, UnreadType
<1>19. t.need = 0
  <2>1. CASE Len(t.r.chunks) = 0
    <3>1. t.r.chunks = <<>>
      <4>1. t.r.chunks \in Seq(Seq(Int)) BY <1>17 DEF Sound
      <4>. QED BY <2>1, <4>1, EmptySeq
    <3>2. U = <<>> BY <1>16, <1>17, <3>1, UnreadType
    <3>3. raw = B BY <1>17, <3>2
    <3>4. Len(raw) \in Nat BY <1>17
    <3>. QED BY <1>2, <1>17, <3>3, <3>4
  <2>. QED BY <1>15, <2>1
<1>20. Len(raw) = n
  <2>1. Len(raw) \in Nat BY <1>17
  <2>. QED BY <1>17, <1>19, <2>1
<1>. QED BY <1>1, <1>11, <1>14, <1>16, <1>17, <1>19, <1>20 DEF IsTaken

-----------------------------------------------------------------------------
(* #peekU32().                                                             *)

LEMMA UnreadAt ==
  ASSUME NEW r, Sound(r), NEW i \in 1..Len(Unread(r))
  PROVE  FlattenSeq(r.chunks)[r.head + i] = Unread(r)[i]
<1>1. PICK all, m, U : all = FlattenSeq(r.chunks) /\ m = r.head /\ U = Unread(r) OBVIOUS
<1>2. all \in Seq(Int) /\ m \in Nat /\ r.buffered = Len(all) - m
  BY <1>1, FlatType DEF Sound
<1>3. U \in Seq(Int) /\ Len(U) = Len(all) - m /\ Len(U) \in Nat BY <1>1, <1>2, UnreadType
<1>4. m + Len(U) = Len(all) /\ m + Len(U) <= Len(all) BY <1>2, <1>3
<1>5. IsPart(SubSeq(all, m + 1, m + Len(U)), all, m, Len(U), Int) BY <1>2, <1>3, <1>4, PartIs
<1>6. U = SubSeq(all, m + 1, m + Len(U)) BY <1>1, <1>4 DEF Unread
<1>7. \A j \in 1..Len(U) : U[j] = all[m + j] BY <1>5, <1>6 DEF IsPart
<1>. QED BY <1>1, <1>7

LEMMA PeekIs ==
  ASSUME NEW r, Sound(r), r.buffered >= 2 PROVE Peek(r) = WordAt(Unread(r), 1)
<1>1. Len(Unread(r)) = r.buffered /\ r.buffered \in Nat BY UnreadType
<1>2. 1 \in 1..Len(Unread(r)) /\ 2 \in 1..Len(Unread(r)) BY <1>1
<1>3. /\ FlattenSeq(r.chunks)[r.head + 1] = Unread(r)[1]
      /\ FlattenSeq(r.chunks)[r.head + 2] = Unread(r)[2]
  BY <1>2, UnreadAt
<1>4. (r.head + 1) + 1 = r.head + 2 BY DEF Sound
<1>. QED BY <1>3, <1>4 DEF Peek, WordAt

-----------------------------------------------------------------------------
(* Streams of records.                                                     *)

SentFrames == {q.frame : q \in Sendable}
RecordsOf == [q \in Sendable |-> Record(q)]
FramesOf == [q \in Sendable |-> FrameOf(q)]
SweepOf(f) == IF f.msgType = Complete THEN <<f>> ELSE <<>>
SweepsOf == [f \in SentFrames |-> SweepOf(f)]

LEMMA RecordsMaps == Maps(RecordsOf, Sendable, Int)
<1>1. \A q \in Sendable : Record(q) \in Seq(Int) BY RecordIs DEF IsRecord
<1>. QED BY <1>1 DEF Maps, RecordsOf

LEMMA FramesMaps == Maps(FramesOf, Sendable, SentFrames)
<1>1. ASSUME NEW q \in Sendable PROVE FrameOf(q) \in Seq(SentFrames)
  <2>1. PICK f : f = q.frame OBVIOUS
  <2>2. f \in SentFrames BY <2>1 DEF SentFrames
  <2>3. <<f>> \in Seq(SentFrames) /\ <<>> \in Seq(SentFrames) BY <2>2
  <2>. QED BY <2>1, <2>3 DEF FrameOf
<1>. QED BY <1>1 DEF Maps, FramesOf

LEMMA SweepsMaps == Maps(SweepsOf, SentFrames, SentFrames)
<1>1. \A f \in SentFrames : SweepOf(f) \in Seq(SentFrames) BY DEF SweepOf
<1>. QED BY <1>1 DEF Maps, SweepsOf

LEMMA SentMap ==
  ASSUME NEW recs \in Seq(Sendable) PROVE Sent(recs) = FlatMap(RecordsOf, recs)
<1>1. \A i \in 1..Len(recs) : Record(recs[i]) = RecordsOf[recs[i]] BY DEF RecordsOf
<1>2. [i \in 1..Len(recs) |-> Record(recs[i])] = Mapped(RecordsOf, recs) BY <1>1 DEF Mapped
<1>. QED BY <1>2 DEF Sent, FlatMap

LEMMA GoodMap ==
  ASSUME NEW recs \in Seq(Sendable) PROVE GoodFrames(recs) = FlatMap(FramesOf, recs)
<1>1. \A i \in 1..Len(recs) : (IF recs[i].fault = "none" THEN <<recs[i].frame>> ELSE <<>>)
                                = FramesOf[recs[i]]
  BY DEF FramesOf, FrameOf
<1>2. [i \in 1..Len(recs) |-> IF recs[i].fault = "none" THEN <<recs[i].frame>> ELSE <<>>]
        = Mapped(FramesOf, recs)
  BY <1>1 DEF Mapped
<1>. QED BY <1>2 DEF GoodFrames, FlatMap

LEMMA SweepsMap ==
  ASSUME NEW fs \in Seq(SentFrames) PROVE Sweeps(fs) = FlatMap(SweepsOf, fs)
<1>1. \A i \in 1..Len(fs) : (IF fs[i].msgType = Complete THEN <<fs[i]>> ELSE <<>>)
                              = SweepsOf[fs[i]]
  BY DEF SweepsOf, SweepOf
<1>2. [i \in 1..Len(fs) |-> IF fs[i].msgType = Complete THEN <<fs[i]>> ELSE <<>>]
        = Mapped(SweepsOf, fs)
  BY <1>1 DEF Mapped
<1>. QED BY <1>2 DEF Sweeps, FlatMap

\* What k records and the others are, as units.
LEMMA SentCut ==
  ASSUME NEW recs \in Seq(Sendable), NEW k \in 0..Len(recs)
  PROVE  /\ Sent(recs) = Sent(SubSeq(recs, 1, k)) \o Sent(SubSeq(recs, k + 1, Len(recs)))
         /\ Sent(SubSeq(recs, 1, k)) \in Seq(Int)
         /\ Sent(SubSeq(recs, k + 1, Len(recs))) \in Seq(Int)
<1>1. PICK a, b : a = SubSeq(recs, 1, k) /\ b = SubSeq(recs, k + 1, Len(recs)) OBVIOUS
<1>2. a \in Seq(Sendable) /\ b \in Seq(Sendable) BY <1>1, Cuts
<1>3. /\ Sent(recs) = FlatMap(RecordsOf, recs) /\ Sent(a) = FlatMap(RecordsOf, a)
      /\ Sent(b) = FlatMap(RecordsOf, b)
  BY <1>2, SentMap
<1>4. /\ FlatMap(RecordsOf, recs) = FlatMap(RecordsOf, SubSeq(recs, 1, k))
                                      \o FlatMap(RecordsOf, SubSeq(recs, k + 1, Len(recs)))
      /\ FlatMap(RecordsOf, SubSeq(recs, 1, k)) \in Seq(Int)
      /\ FlatMap(RecordsOf, SubSeq(recs, k + 1, Len(recs))) \in Seq(Int)
  <2>1. Maps(RecordsOf, Sendable, Int) BY RecordsMaps
  <2>. QED BY <2>1, FlatMapCut
<1>. QED BY <1>1, <1>3, <1>4

LEMMA SentNext ==
  ASSUME NEW recs \in Seq(Sendable), NEW k \in 0..(Len(recs) - 1)
  PROVE  /\ recs[k + 1] \in Sendable
         /\ Sent(SubSeq(recs, k + 1, Len(recs)))
              = Record(recs[k + 1]) \o Sent(SubSeq(recs, k + 2, Len(recs)))
         /\ Sent(SubSeq(recs, 1, k + 1)) = Sent(SubSeq(recs, 1, k)) \o Record(recs[k + 1])
         /\ Sent(SubSeq(recs, k + 2, Len(recs))) \in Seq(Int)
<1>1. k \in 0..Len(recs) /\ k + 1 \in 0..Len(recs) /\ (k + 1) + 1 = k + 2 OBVIOUS
<1>2. PICK a, b, c, d : /\ a = SubSeq(recs, 1, k) /\ b = SubSeq(recs, k + 1, Len(recs))
                        /\ c = SubSeq(recs, 1, k + 1) /\ d = SubSeq(recs, k + 2, Len(recs))
  OBVIOUS
<1>3. /\ a \in Seq(Sendable) /\ b \in Seq(Sendable) /\ c \in Seq(Sendable)
      /\ d \in Seq(Sendable)
  <2>1. a \in Seq(Sendable) /\ b \in Seq(Sendable) BY <1>1, <1>2, Cuts
  <2>2. SubSeq(recs, 1, k + 1) \in Seq(Sendable) /\ SubSeq(recs, (k + 1) + 1, Len(recs)) \in Seq(Sendable)
    BY <1>1, Cuts
  <2>. QED BY <1>1, <1>2, <2>1, <2>2
<1>4. /\ Sent(a) = FlatMap(RecordsOf, a) /\ Sent(b) = FlatMap(RecordsOf, b)
      /\ Sent(c) = FlatMap(RecordsOf, c) /\ Sent(d) = FlatMap(RecordsOf, d)
  BY <1>3, SentMap
<1>5. Maps(RecordsOf, Sendable, Int) BY RecordsMaps
<1>6. /\ FlatMap(RecordsOf, SubSeq(recs, 1, k + 1))
           = FlatMap(RecordsOf, SubSeq(recs, 1, k)) \o RecordsOf[recs[k + 1]]
      /\ FlatMap(RecordsOf, SubSeq(recs, k + 1, Len(recs)))
           = RecordsOf[recs[k + 1]] \o FlatMap(RecordsOf, SubSeq(recs, k + 2, Len(recs)))
  BY <1>5, FlatMapNext, ZenonT(40)
<1>7. recs[k + 1] \in Sendable BY CutOne
<1>8. RecordsOf[recs[k + 1]] = Record(recs[k + 1]) BY <1>7 DEF RecordsOf
<1>9. FlatMap(RecordsOf, d) \in Seq(Int) BY <1>3, <1>5, FlatMapType
<1>. QED BY <1>2, <1>4, <1>6, <1>7, <1>8, <1>9

LEMMA GoodNext ==
  ASSUME NEW recs \in Seq(Sendable), NEW k \in 0..(Len(recs) - 1)
  PROVE  GoodFrames(SubSeq(recs, 1, k + 1))
           = GoodFrames(SubSeq(recs, 1, k)) \o FrameOf(recs[k + 1])
<1>1. k \in 0..Len(recs) /\ k + 1 \in 0..Len(recs) OBVIOUS
<1>2. PICK a, c : a = SubSeq(recs, 1, k) /\ c = SubSeq(recs, 1, k + 1) OBVIOUS
<1>3. a \in Seq(Sendable) /\ c \in Seq(Sendable) BY <1>1, <1>2, Cuts
<1>4. GoodFrames(a) = FlatMap(FramesOf, a) /\ GoodFrames(c) = FlatMap(FramesOf, c)
  BY <1>3, GoodMap
<1>5. Maps(FramesOf, Sendable, SentFrames) BY FramesMaps
<1>6. /\ FlatMap(FramesOf, SubSeq(recs, 1, k + 1))
           = FlatMap(FramesOf, SubSeq(recs, 1, k)) \o FramesOf[recs[k + 1]]
  BY <1>5, FlatMapNext, ZenonT(40)
<1>7. recs[k + 1] \in Sendable BY CutOne
<1>8. FramesOf[recs[k + 1]] = FrameOf(recs[k + 1]) BY <1>7 DEF FramesOf
<1>. QED BY <1>2, <1>4, <1>6, <1>8

LEMMA GoodType ==
  ASSUME NEW recs \in Seq(Sendable), NEW k \in 0..Len(recs)
  PROVE  GoodFrames(SubSeq(recs, 1, k)) \in Seq(SentFrames)
<1>1. PICK a : a = SubSeq(recs, 1, k) OBVIOUS
<1>2. a \in Seq(Sendable) BY <1>1, Cuts
<1>3. Maps(FramesOf, Sendable, SentFrames) BY FramesMaps
<1>4. FlatMap(FramesOf, a) \in Seq(SentFrames) BY <1>2, <1>3, FlatMapType
<1>. QED BY <1>1, <1>2, <1>4, GoodMap

LEMMA SweepsCat ==
  ASSUME NEW fs \in Seq(SentFrames), NEW gs \in Seq(SentFrames)
  PROVE  Sweeps(fs \o gs) = Sweeps(fs) \o Sweeps(gs) /\ Sweeps(fs) \in Seq(SentFrames)
<1>1. PICK hs : hs = fs \o gs OBVIOUS
<1>2. hs \in Seq(SentFrames) BY <1>1
<1>3. /\ Sweeps(fs) = FlatMap(SweepsOf, fs) /\ Sweeps(gs) = FlatMap(SweepsOf, gs)
      /\ Sweeps(hs) = FlatMap(SweepsOf, hs)
  BY <1>2, SweepsMap
<1>4. Maps(SweepsOf, SentFrames, SentFrames) BY SweepsMaps
<1>5. FlatMap(SweepsOf, fs \o gs) = FlatMap(SweepsOf, fs) \o FlatMap(SweepsOf, gs)
  BY <1>4, FlatMapCat
<1>6. FlatMap(SweepsOf, fs) \in Seq(SentFrames) BY <1>4, FlatMapType
<1>. QED BY <1>1, <1>3, <1>5, <1>6

LEMMA SweepsOne == ASSUME NEW f \in SentFrames PROVE Sweeps(<<f>>) = SweepOf(f)
<1>1. <<f>> \in Seq(SentFrames) OBVIOUS
<1>2. Sweeps(<<f>>) = FlatMap(SweepsOf, <<f>>) BY <1>1, SweepsMap
<1>3. Maps(SweepsOf, SentFrames, SentFrames) BY SweepsMaps
<1>4. FlatMap(SweepsOf, <<f>>) = SweepsOf[f] BY <1>3, FlatMapOne
<1>. QED BY <1>2, <1>4 DEF SweepsOf

LEMMA SweepsNone == Sweeps(<<>>) = <<>>
<1>1. <<>> \in Seq(SentFrames) OBVIOUS
<1>2. Sweeps(<<>>) = FlatMap(SweepsOf, <<>>) BY <1>1, SweepsMap
<1>. QED BY <1>2, FlatMapNone

-----------------------------------------------------------------------------
(* What is handed on (#onFrame()).                                         *)

\* The first k records have been dealt with.
Handled(recs, det, s, k) ==
  /\ s = [r |-> s.r, threw |-> s.threw, warned |-> s.warned, seen |-> s.seen,
          points |-> s.points]
  /\ \A i \in 1..k : recs[i].fault \notin Fatal
  /\ s.seen = GoodFrames(SubSeq(recs, 1, k))
  /\ s.warned \in Nat /\ Len(s.seen) + s.warned = k
  /\ s.points = [i \in 1..Len(Sweeps(s.seen)) |-> PointsOf(Sweeps(s.seen)[i], det)]

\* What is unread and what is still to come are the other records.
Reading(recs, wire, det, s, k) ==
  /\ Handled(recs, det, s, k)
  /\ s.threw = FALSE /\ Sound(s.r)
  /\ Unread(s.r) \o wire = Sent(SubSeq(recs, k + 1, Len(recs)))

\* The next record is not there yet, or will never be read.
Waits(recs, s, k) ==
  k < Len(recs) => \/ Len(Unread(s.r)) < Len(Record(recs[k + 1]))
                   \/ recs[k + 1].fault \in Fatal

\* The next record has ended the stream.
Ended(recs, wire, det, s, k) ==
  /\ Handled(recs, det, s, k)
  /\ s.threw = TRUE /\ s.r = Empty
  /\ k < Len(recs) /\ recs[k + 1].fault \in Fatal
  /\ Len(Sent(SubSeq(recs, 1, k))) + Len(wire) <= Len(Sent(recs))

LEMMA AppendMapped ==
  ASSUME NEW D, NEW S \in Seq(D), NEW f \in D, NEW det,
         NEW p, p = [i \in 1..Len(S) |-> PointsOf(S[i], det)],
         NEW S2, S2 = S \o <<f>>
  PROVE  Append(p, PointsOf(f, det)) = [i \in 1..Len(S2) |-> PointsOf(S2[i], det)]
<1>1. PICK n \in Nat : n = Len(S) OBVIOUS
<1>2. Len(S2) = n + 1 /\ S2[n + 1] = f /\ \A i \in 1..n : S2[i] = S[i] BY <1>1
<1>3. PICK P : P = {PointsOf(S2[i], det) : i \in 1..(n + 1)} OBVIOUS
<1>4. p \in Seq(P) /\ Len(p) = n
  <2>1. \A i \in 1..n : PointsOf(S[i], det) \in P
    <3>1. ASSUME NEW i \in 1..n PROVE PointsOf(S2[i], det) \in P
      <4>1. i \in 1..(n + 1) OBVIOUS
      <4>. QED BY <1>3, <4>1
    <3>. QED BY <1>2, <3>1
  <2>. QED BY <1>1, <2>1
<1>5. PICK a, b, x : /\ x = PointsOf(f, det) /\ a = Append(p, x)
                     /\ b = [i \in 1..(n + 1) |-> PointsOf(S2[i], det)]
  OBVIOUS
<1>6. x \in P
  <2>1. n + 1 \in 1..(n + 1) OBVIOUS
  <2>. QED BY <1>2, <1>3, <1>5, <2>1
<1>7. a \in Seq(P) /\ Len(a) = n + 1 /\ a[n + 1] = x /\ \A i \in 1..n : a[i] = p[i]
  BY <1>4, <1>5, <1>6
<1>8. b \in Seq(P) /\ Len(b) = n + 1
  <2>1. \A i \in 1..(n + 1) : PointsOf(S2[i], det) \in P BY <1>3
  <2>2. n + 1 \in Nat OBVIOUS
  <2>3. PICK m : m = n + 1 OBVIOUS
  <2>4. b = [i \in 1..m |-> PointsOf(S2[i], det)] /\ \A i \in 1..m : PointsOf(S2[i], det) \in P
    BY <1>5, <2>1, <2>3
  <2>6. b \in [1..m -> P] BY <2>4
  <2>7. m \in Nat BY <2>2, <2>3
  <2>5. b \in Seq(P) /\ Len(b) = m BY <2>6, <2>7
  <2>. QED BY <2>3, <2>5
<1>9. ASSUME NEW i \in 1..(n + 1) PROVE a[i] = b[i]
  <2>1. b[i] = PointsOf(S2[i], det) BY <1>5
  <2>2. CASE i = n + 1 BY <1>2, <1>5, <1>7, <2>1, <2>2
  <2>3. CASE i # n + 1
    <3>1. i \in 1..n BY <2>3
    <3>. QED BY <1>1, <1>2, <1>7, <2>1, <3>1
  <2>. QED BY <2>2, <2>3
<1>10. a = b BY <1>7, <1>8, <1>9, SeqEqual
<1>. QED BY <1>2, <1>5, <1>10

\* #onFrame() of the next record's frame.
IsOnFrame(s2, s, x, raw, det) == s2 = OnFrame([s EXCEPT !.r = x], raw, det)

LEMMA HandledNext ==
  ASSUME NEW recs \in Seq(Sendable), NEW k \in 0..(Len(recs) - 1), NEW det, NEW s,
         Handled(recs, det, s, k), recs[k + 1].fault \notin Fatal,
         NEW raw, DecodeFrame(raw) = FrameOf(recs[k + 1]), NEW x,
         NEW s2, IsOnFrame(s2, s, x, raw, det)
  PROVE  Handled(recs, det, s2, k + 1) /\ s2.r = x /\ s2.threw = s.threw
<1>1. PICK q, fs : q = recs[k + 1] /\ fs = FrameOf(q) OBVIOUS
<1>2. q \in Sendable /\ DecodeFrame(raw) = fs BY <1>1, CutOne
<1>4. PICK sweep \in BOOLEAN : sweep <=> fs # <<>> /\ Head(fs).msgType = Complete OBVIOUS
<1>5. s = [r |-> s.r, threw |-> s.threw, warned |-> s.warned, seen |-> s.seen, points |-> s.points]
  BY DEF Handled
<1>6. s2 = [r |-> x, threw |-> s.threw,
            warned |-> IF fs = <<>> THEN s.warned + 1 ELSE s.warned,
            seen |-> s.seen \o fs,
            points |-> IF sweep THEN Append(s.points, PointsOf(Head(fs), det)) ELSE s.points]
  BY <1>2, <1>4, <1>5 DEF OnFrame, IsOnFrame
<1>7. s2 = [r |-> s2.r, threw |-> s2.threw, warned |-> s2.warned, seen |-> s2.seen, points |-> s2.points]
  BY <1>6
<1>8. \A i \in 1..(k + 1) : recs[i].fault \notin Fatal BY DEF Handled
<1>9. s.seen \in Seq(SentFrames) /\ s.seen = GoodFrames(SubSeq(recs, 1, k))
  <2>1. k \in 0..Len(recs) OBVIOUS
  <2>. QED BY <2>1, GoodType DEF Handled
<1>10. s2.seen = GoodFrames(SubSeq(recs, 1, k + 1)) BY <1>1, <1>6, <1>9, GoodNext
<1>11. s.warned \in Nat /\ Len(s.seen) + s.warned = k BY DEF Handled
<1>12. PICK S : S = Sweeps(s.seen) OBVIOUS
<1>13. S \in Seq(SentFrames) BY <1>9, <1>12, SweepsCat
<1>14. s.points = [i \in 1..Len(S) |-> PointsOf(S[i], det)] BY <1>12 DEF Handled
<1>15. CASE fs = <<>>
  <2>1. s.seen \o fs = s.seen BY <1>9, <1>15
  <2>2. s2.warned \in Nat /\ Len(s2.seen) + s2.warned = k + 1
    <3>1. Len(s.seen) \in Nat BY <1>9
    <3>2. s2.warned = s.warned + 1 /\ s2.seen = s.seen BY <1>6, <1>15, <2>1
    <3>3. PICK a, b : a = Len(s.seen) /\ b = s.warned OBVIOUS
    <3>4. a \in Nat /\ b \in Nat /\ a + b = k BY <1>11, <3>1, <3>3
    <3>5. b + 1 \in Nat /\ a + (b + 1) = k + 1 BY <3>4
    <3>6. Len(s2.seen) = a /\ s2.warned = b + 1 BY <3>2, <3>3
    <3>. QED BY <3>5, <3>6
  <2>3. s2.points = s.points /\ s2.seen = s.seen BY <1>4, <1>6, <1>15, <2>1
  <2>4. s2.points = [i \in 1..Len(Sweeps(s2.seen)) |-> PointsOf(Sweeps(s2.seen)[i], det)]
    BY <1>12, <1>14, <2>3
  <2>5. Handled(recs, det, s2, k + 1) BY <1>7, <1>8, <1>10, <2>2, <2>4 DEF Handled
  <2>. QED BY <1>6, <2>5
<1>16. CASE fs # <<>>
  <2>1. PICK f : f = q.frame OBVIOUS
  <2>2. fs = <<f>> /\ f \in SentFrames BY <1>1, <1>2, <1>16, <2>1 DEF FrameOf, SentFrames
  <2>3. Head(fs) = f /\ (sweep <=> f.msgType = Complete) BY <1>4, <2>2
  <2>4. s2.warned \in Nat /\ Len(s2.seen) + s2.warned = k + 1
    <3>1. Len(s.seen) \in Nat /\ Len(s.seen \o <<f>>) = Len(s.seen) + 1 BY <1>9, <2>2
    <3>2. s2.warned = s.warned /\ s2.seen = s.seen \o <<f>> BY <1>6, <1>16, <2>2
    <3>3. PICK a, b : a = Len(s.seen) /\ b = s.warned OBVIOUS
    <3>4. a \in Nat /\ b \in Nat /\ a + b = k BY <1>11, <3>1, <3>3
    <3>5. (a + 1) + b = k + 1 BY <3>4
    <3>6. Len(s2.seen) = a + 1 /\ s2.warned = b BY <3>1, <3>2, <3>3
    <3>. QED BY <3>4, <3>5, <3>6
  <2>5. Sweeps(s2.seen) = S \o SweepOf(f)
    <3>1. <<f>> \in Seq(SentFrames) BY <2>2
    <3>2. Sweeps(s.seen \o <<f>>) = Sweeps(s.seen) \o Sweeps(<<f>>) BY <1>9, <3>1, SweepsCat
    <3>. QED BY <1>6, <1>12, <2>2, <3>2, SweepsOne
  <2>6. CASE sweep
    <3>1. PICK S2 : S2 = S \o <<f>> OBVIOUS
    <3>2. Sweeps(s2.seen) = S2 BY <2>3, <2>5, <2>6, <3>1 DEF SweepOf
    <3>3. s2.points = Append(s.points, PointsOf(f, det)) BY <1>6, <2>3, <2>6
    <3>4. s2.points = [i \in 1..Len(S2) |-> PointsOf(S2[i], det)]
      BY <1>13, <1>14, <2>2, <3>1, <3>3, AppendMapped
    <3>5. s2.points = [i \in 1..Len(Sweeps(s2.seen)) |-> PointsOf(Sweeps(s2.seen)[i], det)]
      BY <3>2, <3>4
    <3>6. Handled(recs, det, s2, k + 1) BY <1>7, <1>8, <1>10, <2>4, <3>5 DEF Handled
    <3>. QED BY <1>6, <3>6
  <2>7. CASE ~sweep
    <3>1. S \o <<>> = S BY <1>13
    <3>2. Sweeps(s2.seen) = S BY <2>3, <2>5, <2>7, <3>1 DEF SweepOf
    <3>3. s2.points = s.points BY <1>6, <2>7
    <3>5. s2.points = [i \in 1..Len(Sweeps(s2.seen)) |-> PointsOf(Sweeps(s2.seen)[i], det)]
      BY <1>14, <3>2, <3>3
    <3>6. Handled(recs, det, s2, k + 1) BY <1>7, <1>8, <1>10, <2>4, <3>5 DEF Handled
    <3>. QED BY <1>6, <3>6
  <2>. QED BY <1>4, <2>6, <2>7
<1>. QED BY <1>15, <1>16

\* A length prefix and what it says are taken.
PrefixTaken(t, r, n) ==
  /\ Sound(t.r) /\ t.raw \in Seq(Int) /\ Len(t.raw) = n
  /\ \E P \in Seq(Int) : /\ Len(P) = 2 + n /\ \A j \in 1..n : P[2 + j] = t.raw[j]
                         /\ P \o Unread(t.r) = Unread(r)

LEMMA TwoTaken ==
  ASSUME NEW r, Sound(r), NEW n \in Nat, 2 + n <= Len(Unread(r)), NEW t, t = Take(Take(r, 2).r, n)
  PROVE  PrefixTaken(t, r, n)
<1>1. PICK U, a, V, b, W : /\ U = Unread(r) /\ a = Take(r, 2).raw /\ V = Unread(Take(r, 2).r)
                           /\ b = t.raw /\ W = Unread(t.r)
  OBVIOUS
<1>2. U \in Seq(Int) /\ Len(U) \in Nat BY <1>1, UnreadType
<1>3. IsTaken(Take(r, 2), r, 2)
  <2>1. 2 \in 0..Len(Unread(r)) BY <1>1, <1>2
  <2>. QED BY <2>1, TakeIs
<1>4. /\ Sound(Take(r, 2).r) /\ a \in Seq(Int) /\ Len(a) = 2 /\ a \o V = U
  BY <1>1, <1>3 DEF IsTaken
<1>5. V \in Seq(Int) BY <1>1, <1>4, UnreadType
<1>6. Len(U) = 2 + Len(V) /\ Len(V) \in Nat
  <2>1. IsCat(U, a, V, Int) BY <1>4, <1>5, CatIs
  <2>. QED BY <1>4, <2>1 DEF IsCat
<1>7. IsTaken(t, Take(r, 2).r, n)
  <2>1. n \in 0..Len(V) BY <1>1, <1>6
  <2>. QED BY <1>1, <1>4, <2>1, TakeIs
<1>8. Sound(t.r) /\ b \in Seq(Int) /\ Len(b) = n /\ b \o W = V BY <1>1, <1>7 DEF IsTaken
<1>9. W \in Seq(Int) BY <1>1, <1>8, UnreadType
<1>10. PICK P : P = a \o b OBVIOUS
<1>11. IsCat(P, a, b, Int) BY <1>4, <1>8, <1>10, CatIs
<1>12. P \in Seq(Int) /\ Len(P) = 2 + n /\ \A j \in 1..n : P[2 + j] = b[j]
  BY <1>4, <1>8, <1>11 DEF IsCat
<1>13. P \o W = U
  <2>1. (a \o b) \o W = a \o (b \o W) BY <1>4, <1>8, <1>9, IntAssoc
  <2>. QED BY <1>4, <1>8, <1>10, <2>1
<1>. QED BY <1>1, <1>8, <1>12, <1>13 DEF PrefixTaken

-----------------------------------------------------------------------------
(* One turn of push()'s loop.                                              *)

\* Where two concatenations agree.
LEMMA FrontsAgree ==
  ASSUME NEW a \in Seq(Int), NEW b \in Seq(Int), NEW c \in Seq(Int), NEW d \in Seq(Int),
         a \o b = c \o d
  PROVE  \A j \in 1..Len(a) : j <= Len(c) => a[j] = c[j]
<1>1. PICK e : e = a \o b OBVIOUS
<1>2. IsCat(e, a, b, Int) BY <1>1, CatIs
<1>3. IsCat(e, c, d, Int) BY <1>1, CatIs
<1>. QED BY <1>2, <1>3 DEF IsCat

LEMMA FrontsCancel ==
  ASSUME NEW a \in Seq(Int), NEW b \in Seq(Int), NEW d \in Seq(Int), a \o b = a \o d
  PROVE  b = d
<1>1. PICK e : e = a \o b OBVIOUS
<1>2. IsCat(e, a, b, Int) BY <1>1, CatIs
<1>3. IsCat(e, a, d, Int) BY <1>1, CatIs
<1>4. Len(b) = Len(d) BY <1>2, <1>3 DEF IsCat
<1>5. \A i \in 1..Len(b) : b[i] = d[i] BY <1>2, <1>3, <1>4 DEF IsCat
<1>. QED BY <1>4, <1>5, SeqEqual

\* The turn that ends the stream.
IsThrow(s2, s) == s2 = [s EXCEPT !.r = Empty, !.threw = TRUE]

LEMMA ThrowEnds ==
  ASSUME NEW recs \in Seq(Sendable), NEW k \in 0..(Len(recs) - 1), NEW wire \in Seq(Int),
         NEW det, NEW s, Reading(recs, wire, det, s, k), recs[k + 1].fault \in Fatal,
         NEW s2, IsThrow(s2, s)
  PROVE  Ended(recs, wire, det, s2, k)
<1>1. Handled(recs, det, s, k) BY DEF Reading
<1>2. s = [r |-> s.r, threw |-> s.threw, warned |-> s.warned, seen |-> s.seen, points |-> s.points]
  BY <1>1 DEF Handled
<1>3. s2 = [r |-> Empty, threw |-> TRUE, warned |-> s.warned, seen |-> s.seen, points |-> s.points]
  BY <1>2 DEF IsThrow
<1>4. /\ s2.r = Empty /\ s2.threw = TRUE /\ s2.warned = s.warned /\ s2.seen = s.seen
      /\ s2.points = s.points
      /\ s2 = [r |-> s2.r, threw |-> s2.threw, warned |-> s2.warned, seen |-> s2.seen, points |-> s2.points]
  BY <1>3
<1>5. Handled(recs, det, s2, k) BY <1>1, <1>4 DEF Handled
<1>6. Len(Sent(SubSeq(recs, 1, k))) + Len(wire) <= Len(Sent(recs))
  <2>1. PICK a, b, U : /\ a = Sent(SubSeq(recs, 1, k)) /\ U = Unread(s.r)
                       /\ b = Sent(SubSeq(recs, k + 1, Len(recs)))
    OBVIOUS
  <2>2. k \in 0..Len(recs) OBVIOUS
  <2>3. Sent(recs) = a \o b /\ a \in Seq(Int) /\ b \in Seq(Int) BY <2>1, <2>2, SentCut
  <2>4. U \in Seq(Int) /\ b = U \o wire BY <2>1, UnreadType DEF Reading
  <2>5. IsCat(b, U, wire, Int) BY <2>4, CatIs
  <2>6. IsCat(Sent(recs), a, b, Int) BY <2>3, CatIs
  <2>7. /\ Len(a) \in Nat /\ Len(U) \in Nat /\ Len(wire) \in Nat
        /\ Len(b) = Len(U) + Len(wire) /\ Len(Sent(recs)) = Len(a) + Len(b)
    BY <2>5, <2>6 DEF IsCat
  <2>. QED BY <2>1, <2>7
<1>7. k < Len(recs) OBVIOUS
<1>. QED BY <1>4, <1>5, <1>6, <1>7 DEF Ended

\* What one turn of push()'s loop may do.
Turned(recs, wire, det, s, k, s2) ==
  \/ s2 = s /\ Waits(recs, s, k)
  \/ /\ k < Len(recs) /\ ~Waits(recs, s, k)
     /\ Reading(recs, wire, det, s2, k + 1) /\ s2.r.buffered + 8 <= s.r.buffered
  \/ Ended(recs, wire, det, s2, k)

LEMMA TurnIs ==
  ASSUME NEW recs \in Seq(Sendable), NEW k \in 0..Len(recs), NEW wire \in Seq(Int),
         NEW det, NEW s, Reading(recs, wire, det, s, k)
  PROVE  Turned(recs, wire, det, s, k, Turn(s, det))
<1>1. PICK U, buf, N : U = Unread(s.r) /\ buf = s.r.buffered /\ N = Len(recs) OBVIOUS
<1>2. /\ Sound(s.r) /\ U \in Seq(Int) /\ Len(U) = buf /\ buf \in Nat
      /\ U \o wire = Sent(SubSeq(recs, k + 1, N))
  BY <1>1, UnreadType DEF Reading
<1>3. N \in Nat /\ k \in 0..N BY <1>1
<1>4. CASE k = N
  <2>1. SubSeq(recs, N + 1, N) = <<>> BY <1>1, <1>3
  <2>2. Sent(<<>>) = <<>>
    <3>1. <<>> \in Seq(Sendable) OBVIOUS
    <3>2. Sent(<<>>) = FlatMap(RecordsOf, <<>>) BY <3>1, SentMap
    <3>. QED BY <3>2, FlatMapNone
  <2>3. U \o wire = <<>> BY <1>2, <1>4, <2>1, <2>2
  <2>4. buf = 0
    <3>1. IsCat(U \o wire, U, wire, Int) BY <1>2, CatIs
    <3>2. Len(U \o wire) = 0 BY <2>3
    <3>. QED BY <1>2, <3>1, <3>2 DEF IsCat
  <2>5. Turn(s, det) = s BY <1>1, <2>4 DEF Turn, Word
  <2>6. Waits(recs, s, k) BY <1>1, <1>3, <1>4 DEF Waits
  <2>. QED BY <2>5, <2>6 DEF Turned
<1>5. CASE k # N
  <2>1. k \in 0..(Len(recs) - 1) /\ k < Len(recs) BY <1>1, <1>3, <1>5
  <2>2. PICK q, rec, rest : /\ q = recs[k + 1] /\ rec = Record(q)
                            /\ rest = Sent(SubSeq(recs, k + 2, N))
    OBVIOUS
  <2>3. q \in Sendable /\ U \o wire = rec \o rest /\ rest \in Seq(Int)
    BY <1>1, <1>2, <2>1, <2>2, SentNext
  <2>4. PICK w, sent : IsRecord(rec, w, sent, q) BY <2>2, <2>3, RecordIs
  <2>5. /\ rec \in Seq(Int) /\ sent \in Seq(Int) /\ w \in Nat /\ Len(sent) \in Nat
        /\ Len(sent) >= 8 /\ Len(rec) = 2 + Len(sent) /\ rec[1] + Base * rec[2] = w
        /\ \A j \in 1..Len(sent) : rec[2 + j] = sent[j]
    BY <2>4 DEF IsRecord, WordAt
  <2>6. /\ q.fault \notin Fatal =>
             /\ w = Len(sent) /\ w <= MaxFrame /\ sent[1] = Magic /\ WordAt(sent, 7) = w
             /\ DecodeFrame(sent) = FrameOf(q)
        /\ q.fault \in Fatal =>
             \/ w < 8 \/ w > MaxFrame
             \/ w <= Len(sent) /\ (sent[1] # Magic \/ WordAt(sent, 7) # w)
    BY <2>4 DEF IsRecord
  <2>10. PICK m \in Nat : m = Len(sent) /\ m >= 8 /\ Len(rec) = 2 + m BY <2>5
  <2>11. MaxFrame \in Nat BY StreamAssumption
  <2>7. \A j \in 1..Len(U) : j <= Len(rec) => U[j] = rec[j]
    BY <1>2, <2>3, <2>5, FrontsAgree, ZenonT(40)
  <2>8. CASE buf < 2
    <3>1. Turn(s, det) = s BY <1>1, <2>8 DEF Turn, Word
    <3>3. Len(U) < Len(rec) BY <1>2, <2>10, <2>8
    <3>2. Waits(recs, s, k) BY <1>1, <2>2, <3>3 DEF Waits
    <3>. QED BY <3>1, <3>2 DEF Turned
  <2>9. CASE buf >= 2
    <3>1. Peek(s.r) = w
      <4>1. Peek(s.r) = U[1] + Base * U[2] BY <1>1, <1>2, <2>9, PeekIs DEF WordAt
      <4>2. U[1] = rec[1] /\ U[2] = rec[2]
        <5>1. 1 \in 1..Len(U) /\ 2 \in 1..Len(U) /\ 1 <= Len(rec) /\ 2 <= Len(rec)
          BY <1>2, <2>5, <2>9
        <5>. QED BY <2>7, <5>1
      <4>. QED BY <2>5, <4>1, <4>2
    <3>2. PICK t : t = Take(Take(s.r, 2).r, w) OBVIOUS
    <3>3. PICK throw : IsThrow(throw, s) BY DEF IsThrow
    <3>4. Turn(s, det) = IF w < 8 \/ w > MaxFrame THEN throw
                         ELSE IF buf < 2 + w THEN s
                         ELSE IF t.raw[1] # Magic \/ WordAt(t.raw, 7) # w THEN throw
                         ELSE OnFrame([s EXCEPT !.r = t.r], t.raw, det)
      <4>1. ~(buf < 2) BY <1>2, <2>9
      <4>. QED BY <1>1, <3>1, <3>2, <3>3, <4>1 DEF Turn, Word, Header, IsThrow
    <3>5. CASE w < 8 \/ w > MaxFrame
      <4>0. q.fault \notin Fatal => w = m /\ w <= MaxFrame BY <2>6, <2>10
      <4>1. q.fault \in Fatal
        <5>1. w \in Nat BY <2>5
        <5>. QED BY <2>10, <2>11, <3>5, <4>0, <5>1
      <4>2. Turn(s, det) = throw BY <3>4, <3>5
      <4>. QED BY <2>1, <2>2, <3>3, <4>1, <4>2, ThrowEnds DEF Turned
    <3>6. CASE ~(w < 8 \/ w > MaxFrame) /\ buf < 2 + w
      <4>1. Turn(s, det) = s BY <3>4, <3>6
      <4>2. Len(U) < Len(rec) \/ q.fault \in Fatal BY <1>2, <2>5, <2>6, <3>6
      <4>3. Waits(recs, s, k) BY <1>1, <2>2, <4>2 DEF Waits
      <4>. QED BY <4>1, <4>3 DEF Turned
    <3>7. CASE ~(w < 8 \/ w > MaxFrame) /\ ~(buf < 2 + w)
      <4>1. w >= 8 /\ 2 + w <= Len(U) /\ w <= Len(sent)
        <5>1. w >= 8 /\ w <= MaxFrame /\ 2 + w <= buf BY <1>2, <2>5, <2>11, <3>7
        <5>2. q.fault \notin Fatal => w = m BY <2>6, <2>10
        <5>3. q.fault \in Fatal => w < 8 \/ w > MaxFrame \/ w <= m BY <2>6, <2>10
        <5>4. w <= m
          <6>1. ~(w < 8) /\ ~(w > MaxFrame) BY <3>7
          <6>2. w = m \/ w <= m BY <5>2, <5>3, <6>1
          <6>. QED BY <2>5, <6>2
        <5>. QED BY <1>2, <2>10, <5>1, <5>4
      <4>2. PICK U2 : U2 = Unread(t.r) OBVIOUS
      <4>3. /\ Sound(t.r) /\ t.raw \in Seq(Int) /\ Len(t.raw) = w
            /\ \E P \in Seq(Int) : /\ Len(P) = 2 + w /\ \A j \in 1..w : P[2 + j] = t.raw[j]
                                   /\ P \o Unread(t.r) = Unread(s.r)
        <5>1. 2 + w <= Len(Unread(s.r)) BY <1>1, <4>1
        <5>2. PrefixTaken(t, s.r, w) BY <1>2, <2>5, <3>2, <5>1, TwoTaken
        <5>. QED BY <5>2 DEF PrefixTaken
      <4>4. PICK P \in Seq(Int) : /\ Len(P) = 2 + w /\ \A j \in 1..w : P[2 + j] = t.raw[j]
                                  /\ P \o U2 = U
        BY <1>1, <4>2, <4>3
      <4>5. U2 \in Seq(Int) /\ Len(U2) = t.r.buffered /\ t.r.buffered \in Nat
        BY <4>2, <4>3, UnreadType
      <4>6. IsCat(U, P, U2, Int) BY <4>4, <4>5, CatIs
      <4>7. ASSUME NEW j \in 1..(2 + w) PROVE P[j] = rec[j]
        <5>0. w <= m /\ 2 + w <= buf /\ w \in Nat BY <1>2, <2>5, <2>10, <4>1
        <5>3. j <= buf /\ j <= 2 + m BY <1>2, <2>10, <5>0
        <5>1. j \in 1..Len(U) /\ j <= Len(rec) /\ j \in 1..Len(P) BY <1>2, <2>10, <4>4, <5>3
        <5>2. U[j] = P[j] BY <4>6, <5>1 DEF IsCat
        <5>. QED BY <2>7, <5>1, <5>2
      <4>8. ASSUME NEW j \in 1..w PROVE t.raw[j] = sent[j]
        <5>1. 2 + j \in 1..(2 + w) /\ j \in 1..Len(sent) BY <2>5, <4>1
        <5>2. P[2 + j] = rec[2 + j] BY <4>7, <5>1
        <5>. QED BY <2>5, <4>4, <5>1, <5>2
      <4>9. t.raw[1] = sent[1] /\ WordAt(t.raw, 7) = WordAt(sent, 7)
        <5>1. 1 \in 1..w /\ 7 \in 1..w /\ 8 \in 1..w /\ 7 + 1 = 8 BY <2>5, <4>1
        <5>2. t.raw[1] = sent[1] /\ t.raw[7] = sent[7] /\ t.raw[8] = sent[8] BY <4>8, <5>1
        <5>. QED BY <5>1, <5>2 DEF WordAt
      <4>10. CASE sent[1] # Magic \/ WordAt(sent, 7) # w
        <5>1. q.fault \in Fatal BY <2>6, <4>10
        <5>2. Turn(s, det) = throw BY <3>4, <3>7, <4>9, <4>10
        <5>. QED BY <2>1, <2>2, <3>3, <5>1, <5>2, ThrowEnds DEF Turned
      <4>11. CASE ~(sent[1] # Magic \/ WordAt(sent, 7) # w)
        <5>1. q.fault \notin Fatal
          <6>1. ~(w < 8) /\ ~(w > MaxFrame) BY <3>7
          <6>. QED BY <2>6, <4>11, <6>1
        <5>2. w = Len(sent) /\ DecodeFrame(sent) = FrameOf(q) BY <2>6, <5>1
        <5>3. t.raw = sent BY <2>5, <4>3, <4>8, <5>2, SeqEqual, ZenonT(40)
        <5>4. P = rec BY <2>5, <4>4, <4>7, <5>2, SeqEqual
        <5>5. U2 \o wire = rest
          <6>1. (P \o U2) \o wire = P \o (U2 \o wire) BY <4>4, <4>5, IntAssoc
          <6>2. rec \o (U2 \o wire) = rec \o rest BY <2>3, <4>4, <5>4, <6>1
          <6>3. U2 \o wire \in Seq(Int) BY <4>5
          <6>. QED BY <2>3, <2>5, <6>2, <6>3, FrontsCancel
        <5>6. PICK s2 : IsOnFrame(s2, s, t.r, t.raw, det) BY DEF IsOnFrame
        <5>7. Turn(s, det) = s2 BY <3>4, <3>7, <4>9, <4>11, <5>6 DEF IsOnFrame
        <5>8. Handled(recs, det, s, k) /\ s.threw = FALSE BY DEF Reading
        <5>9. Handled(recs, det, s2, k + 1) /\ s2.r = t.r /\ s2.threw = s.threw
          BY <2>1, <2>2, <5>1, <5>2, <5>3, <5>6, <5>8, HandledNext
        <5>10. s2.r.buffered + 8 <= buf
          <6>1. Len(U) = Len(P) + Len(U2) BY <4>6 DEF IsCat
          <6>2. PICK b2 \in Nat : b2 = t.r.buffered BY <4>5
          <6>3. buf = (2 + w) + b2 BY <1>2, <4>4, <4>5, <6>1, <6>2
          <6>4. b2 + 8 <= buf BY <1>2, <2>5, <4>1, <6>3
          <6>. QED BY <5>9, <6>2, <6>4
        <5>11. Unread(s2.r) \o wire = Sent(SubSeq(recs, (k + 1) + 1, Len(recs)))
          <6>1. (k + 1) + 1 = k + 2 BY <1>3
          <6>. QED BY <1>1, <2>2, <4>2, <5>5, <5>9, <6>1
        <5>12. Reading(recs, wire, det, s2, k + 1) BY <4>3, <5>8, <5>9, <5>11 DEF Reading
        <5>13. ~Waits(recs, s, k)
          <6>1. ~(Len(U) < Len(rec))
            <7>1. Len(U) = Len(P) + Len(U2) BY <4>6 DEF IsCat
            <7>2. Len(P) \in Nat /\ Len(U2) \in Nat BY <4>4, <4>5
            <7>. QED BY <5>4, <7>1, <7>2
          <6>. QED BY <1>1, <2>1, <2>2, <5>1, <6>1 DEF Waits
        <5>. QED BY <1>1, <2>1, <5>7, <5>10, <5>12, <5>13 DEF Turned
      <4>. QED BY <4>10, <4>11
    <3>. QED BY <3>5, <3>6, <3>7
  <2>. QED BY <1>2, <2>8, <2>9
<1>. QED BY <1>4, <1>5

\* What a socket's chunk adds.
LEMMA ChunkAdded ==
  ASSUME NEW r, Sound(r), NEW chunk \in Seq(Int), chunk # <<>>,
         NEW r2, r2 = [chunks |-> Append(r.chunks, chunk), head |-> r.head,
                       buffered |-> r.buffered + Len(chunk)]
  PROVE  Sound(r2) /\ Unread(r2) = Unread(r) \o chunk
<1>1. PICK s, s2, m, all, all2 : /\ s = r.chunks /\ s2 = Append(s, chunk) /\ m = r.head
                                 /\ all = FlattenSeq(s) /\ all2 = FlattenSeq(s2)
  OBVIOUS
<1>2. /\ s \in Seq(Seq(Int)) /\ \A i \in 1..Len(s) : s[i] # <<>>
      /\ m \in Nat /\ m < (IF s = <<>> THEN 1 ELSE Len(Head(s)))
      /\ r.buffered = Len(all) - m
  BY <1>1 DEF Sound
<1>3. all \in Seq(Int) /\ r.buffered \in Nat BY <1>1, <1>2, FlatType, UnreadType
<1>4. all2 = all \o chunk BY <1>1, <1>2, FlatAppend
<1>5. Len(all2) = Len(all) + Len(chunk) /\ Len(chunk) \in Nat /\ Len(all) \in Nat
  BY <1>3, <1>4
<1>6. s2 \in Seq(Seq(Int)) /\ \A i \in 1..Len(s2) : s2[i] # <<>>
  <2>1. s2 \in Seq(Seq(Int)) /\ Len(s2) = Len(s) + 1 BY <1>1, <1>2
  <2>2. ASSUME NEW i \in 1..Len(s2) PROVE s2[i] # <<>>
    <3>1. CASE i = Len(s) + 1 BY <1>1, <1>2, <3>1
    <3>2. CASE i # Len(s) + 1
      <4>1. i \in 1..Len(s) BY <1>2, <2>1, <3>2
      <4>2. s2[i] = s[i] BY <1>1, <1>2, <4>1
      <4>. QED BY <1>2, <4>1, <4>2
    <3>. QED BY <3>1, <3>2
  <2>. QED BY <2>1, <2>2
<1>7. s2 # <<>> /\ m < Len(Head(s2))
  <2>1. s2 # <<>>
    <3>1. Len(s2) = Len(s) + 1 /\ Len(s) \in Nat BY <1>1, <1>2
    <3>. QED BY <3>1
  <2>2. CASE s = <<>>
    <3>1. Head(s2) = chunk /\ m = 0 BY <1>1, <1>2, <2>2
    <3>2. Len(chunk) > 0 BY <1>5, EmptySeq
    <3>. QED BY <2>1, <3>1, <3>2
  <2>3. CASE s # <<>>
    <3>1. Head(s2) = Head(s) BY <1>1, <1>2, <2>3
    <3>. QED BY <1>2, <2>1, <2>3, <3>1
  <2>. QED BY <2>2, <2>3
<1>8. r2 = [chunks |-> s2, head |-> m, buffered |-> r2.buffered]
      /\ r2.chunks = s2 /\ r2.head = m /\ r2.buffered = r.buffered + Len(chunk)
  BY <1>1
<1>9. r2.buffered = Len(all2) - m BY <1>2, <1>5, <1>8
<1>10. Sound(r2) BY <1>1, <1>2, <1>6, <1>7, <1>8, <1>9 DEF Sound
<1>11. SubSeq(all2, m + 1, Len(all2)) = SubSeq(all, m + 1, Len(all)) \o chunk
  <2>1. m \in 0..Len(all) BY <1>2, <1>3, <1>5
  <2>. QED BY <1>3, <1>4, <2>1, DropCat
<1>. QED BY <1>1, <1>8, <1>10, <1>11 DEF Unread

-----------------------------------------------------------------------------
(* The loop.                                                               *)

States(det) ==
  [r : [chunks : Seq(Seq(Int)), head : Int, buffered : Int], threw : BOOLEAN, warned : Nat,
   seen : Seq(SentFrames), points : Seq({PointsOf(f, det) : f \in SentFrames})]

LEMMA StateType ==
  ASSUME NEW recs \in Seq(Sendable), NEW k \in 0..Len(recs), NEW det, NEW s,
         Handled(recs, det, s, k), s.threw \in BOOLEAN,
         s.r = Empty \/ Sound(s.r)
  PROVE  s \in States(det)
<1>1. /\ s = [r |-> s.r, threw |-> s.threw, warned |-> s.warned, seen |-> s.seen, points |-> s.points]
      /\ s.warned \in Nat /\ s.seen = GoodFrames(SubSeq(recs, 1, k))
      /\ s.points = [i \in 1..Len(Sweeps(s.seen)) |-> PointsOf(Sweeps(s.seen)[i], det)]
  BY DEF Handled
<1>2. s.seen \in Seq(SentFrames) BY <1>1, GoodType
<1>3. PICK S, n, P, p : /\ S = Sweeps(s.seen) /\ n = Len(S) /\ p = s.points
                        /\ P = {PointsOf(f, det) : f \in SentFrames}
  OBVIOUS
<1>4. S \in Seq(SentFrames) /\ n \in Nat BY <1>2, <1>3, SweepsCat
<1>5. p \in Seq(P)
  <2>1. \A i \in 1..n : S[i] \in SentFrames BY <1>3, <1>4
  <2>2. \A i \in 1..n : PointsOf(S[i], det) \in P BY <1>3, <2>1
  <2>3. p = [i \in 1..n |-> PointsOf(S[i], det)] BY <1>1, <1>3
  <2>4. p \in [1..n -> P] BY <2>2, <2>3
  <2>. QED BY <1>4, <2>4
<1>6. s.r \in [chunks : Seq(Seq(Int)), head : Int, buffered : Int]
  <2>1. CASE s.r = Empty BY <2>1 DEF Empty
  <2>2. CASE Sound(s.r)
    <3>1. PICK r : r = s.r OBVIOUS
    <3>2. /\ r = [chunks |-> r.chunks, head |-> r.head, buffered |-> r.buffered]
          /\ r.chunks \in Seq(Seq(Int)) /\ r.head \in Int
      BY <2>2, <3>1 DEF Sound
    <3>3. r.buffered \in Int BY <2>2, <3>1, UnreadType
    <3>. QED BY <3>1, <3>2, <3>3
  <2>. QED BY <2>1, <2>2
<1>. QED BY <1>1, <1>2, <1>3, <1>5, <1>6 DEF States

\* After i turns: done, or b0 units are less by as many records.
OnTheWay(recs, wire, det, s, b0, i) ==
  \E k \in 0..Len(recs) :
    \/ Ended(recs, wire, det, s, k)
    \/ /\ Reading(recs, wire, det, s, k)
       /\ Waits(recs, s, k) \/ 8 * i + s.r.buffered <= b0

LEMMA TurnOnTheWay ==
  ASSUME NEW recs \in Seq(Sendable), NEW wire \in Seq(Int), NEW det, NEW s, NEW b0 \in Nat,
         NEW i \in Nat \ {0}, OnTheWay(recs, wire, det, s, b0, i - 1)
  PROVE  OnTheWay(recs, wire, det, Turn(s, det), b0, i)
<1>1. PICK k \in 0..Len(recs) :
        \/ Ended(recs, wire, det, s, k)
        \/ /\ Reading(recs, wire, det, s, k)
           /\ Waits(recs, s, k) \/ 8 * (i - 1) + s.r.buffered <= b0
  BY DEF OnTheWay
<1>2. PICK s2 : s2 = Turn(s, det) OBVIOUS
<1>3. CASE Ended(recs, wire, det, s, k)
  <2>1. s.r.buffered = 0 BY <1>3 DEF Ended, Empty
  <2>2. s2 = s BY <1>2, <2>1 DEF Turn, Word
  <2>. QED BY <1>2, <1>3, <2>2 DEF OnTheWay
<1>4. CASE Reading(recs, wire, det, s, k)
  <2>1. Turned(recs, wire, det, s, k, s2) BY <1>2, <1>4, TurnIs
  <2>2. CASE s2 = s /\ Waits(recs, s, k)
    BY <1>2, <1>4, <2>2 DEF OnTheWay
  <2>3. CASE Ended(recs, wire, det, s2, k)
    BY <1>2, <2>3 DEF OnTheWay
  <2>4. CASE /\ k < Len(recs) /\ ~Waits(recs, s, k)
             /\ Reading(recs, wire, det, s2, k + 1) /\ s2.r.buffered + 8 <= s.r.buffered
    <3>1. k + 1 \in 0..Len(recs) BY <2>4
    <3>2. 8 * (i - 1) + s.r.buffered <= b0
      <4>1. ~Ended(recs, wire, det, s, k) BY <1>4 DEF Ended, Reading
      <4>. QED BY <1>1, <2>4, <4>1
    <3>3. s.r.buffered \in Nat /\ s2.r.buffered \in Nat
      <4>1. Sound(s.r) /\ Sound(s2.r) BY <1>4, <2>4 DEF Reading
      <4>. QED BY <4>1, UnreadType
    <3>4. 8 * i + s2.r.buffered <= b0
      <4>1. PICK x \in Nat, y \in Nat : x = s.r.buffered /\ y = s2.r.buffered BY <3>3
      <4>2. y + 8 <= x /\ 8 * (i - 1) + x <= b0 BY <2>4, <3>2, <4>1
      <4>3. 8 * i + y <= b0 BY <4>2
      <4>. QED BY <4>1, <4>3
    <3>. QED BY <1>2, <2>4, <3>1, <3>4 DEF OnTheWay
  <2>. QED BY <2>1, <2>2, <2>3, <2>4 DEF Turned
<1>. QED BY <1>1, <1>3, <1>4

LEMMA WayType ==
  ASSUME NEW recs \in Seq(Sendable), NEW wire, NEW det, NEW s, NEW b0, NEW i,
         OnTheWay(recs, wire, det, s, b0, i)
  PROVE  s \in States(det)
<1>1. PICK k \in 0..Len(recs) : Ended(recs, wire, det, s, k) \/ Reading(recs, wire, det, s, k)
  BY DEF OnTheWay
<1>2. /\ Handled(recs, det, s, k) /\ s.threw \in BOOLEAN /\ (s.r = Empty \/ Sound(s.r))
  BY <1>1 DEF Ended, Reading
<1>. QED BY <1>2, StateType

-----------------------------------------------------------------------------
(* The whole of push().                                                    *)

\* What push() leaves: a stream that has ended, or one that waits.
Settled(recs, wire, det, s) ==
  \E k \in 0..Len(recs) : \/ Ended(recs, wire, det, s, k)
                          \/ Reading(recs, wire, det, s, k) /\ Waits(recs, s, k)

\* The state a chunk is added to.
IsMore(s2, s, chunk) ==
  s2 = [s EXCEPT !.r.chunks = Append(@, chunk), !.r.buffered = @ + Len(chunk)]

LEMMA MoreReads ==
  ASSUME NEW recs \in Seq(Sendable), NEW k \in 0..Len(recs), NEW wire \in Seq(Int),
         NEW chunk \in Seq(Int), chunk # <<>>, NEW wire2 \in Seq(Int), wire = chunk \o wire2,
         NEW det, NEW s, Reading(recs, wire, det, s, k),
         NEW s2, IsMore(s2, s, chunk)
  PROVE  Reading(recs, wire2, det, s2, k)
<1>1. PICK r, r2 : /\ r = s.r
                   /\ r2 = [chunks |-> Append(r.chunks, chunk), head |-> r.head,
                            buffered |-> r.buffered + Len(chunk)]
  OBVIOUS
<1>2. /\ Handled(recs, det, s, k) /\ s.threw = FALSE /\ Sound(r)
      /\ Unread(r) \o wire = Sent(SubSeq(recs, k + 1, Len(recs)))
  BY <1>1 DEF Reading
<1>3. s = [r |-> r, threw |-> s.threw, warned |-> s.warned, seen |-> s.seen, points |-> s.points]
  BY <1>1, <1>2 DEF Handled
<1>4. r = [chunks |-> r.chunks, head |-> r.head, buffered |-> r.buffered] BY <1>2 DEF Sound
<1>5. s2 = [r |-> r2, threw |-> s.threw, warned |-> s.warned, seen |-> s.seen, points |-> s.points]
  <2>1. PICK a, b, c : a = r.chunks /\ b = r.head /\ c = r.buffered OBVIOUS
  <2>2. PICK t, w, z, p : t = s.threw /\ w = s.warned /\ z = s.seen /\ p = s.points OBVIOUS
  <2>3. s = [r |-> [chunks |-> a, head |-> b, buffered |-> c], threw |-> t, warned |-> w,
             seen |-> z, points |-> p]
    BY <1>3, <1>4, <2>1, <2>2
  <2>4. s2 = [r |-> [chunks |-> Append(a, chunk), head |-> b, buffered |-> c + Len(chunk)],
              threw |-> t, warned |-> w, seen |-> z, points |-> p]
    BY <2>3 DEF IsMore
  <2>. QED BY <1>1, <2>1, <2>2, <2>4
<1>6. /\ s2.r = r2 /\ s2.threw = s.threw /\ s2.warned = s.warned /\ s2.seen = s.seen
      /\ s2.points = s.points
  BY <1>5
<1>7. Handled(recs, det, s2, k) BY <1>2, <1>5, <1>6 DEF Handled
<1>8. Sound(r2) /\ Unread(r2) = Unread(r) \o chunk BY <1>1, <1>2, ChunkAdded
<1>9. PICK U : U = Unread(r) OBVIOUS
<1>10. U \in Seq(Int) BY <1>2, <1>9, UnreadType
<1>11. (U \o chunk) \o wire2 = U \o (chunk \o wire2) BY <1>10, IntAssoc, Zenon
<1>. QED BY <1>2, <1>6, <1>7, <1>8, <1>9, <1>11 DEF Reading

TurnsFrom(first, det) ==
  LET last == first.r.buffered \div Header + 1
      turn[i \in 0..last] == IF i = 0 THEN first ELSE Turn(turn[i - 1], det)
  IN turn[last]

\* push() goes on until the next record is not all there, or the stream has
\* ended: every turn that is not the last takes a record, which has more than
\* eight units, so the turns it has are enough (frames.js:301-328).
THEOREM PushIs ==
  ASSUME NEW recs \in Seq(Sendable), NEW k \in 0..Len(recs), NEW wire \in Seq(Int),
         NEW chunk \in Seq(Int), chunk # <<>>, NEW wire2 \in Seq(Int), wire = chunk \o wire2,
         NEW det, NEW s, Reading(recs, wire, det, s, k)
  PROVE  Settled(recs, wire2, det, Push(s, chunk, det))
<1>0. PICK first : IsMore(first, s, chunk) BY DEF IsMore
<1>1. PICK b, N : b = first.r.buffered /\ N = b \div Header + 1 OBVIOUS
<1>2. Reading(recs, wire2, det, first, k) BY <1>0, MoreReads
<1>3. b \in Nat
  <2>1. Sound(first.r) BY <1>2 DEF Reading
  <2>. QED BY <1>1, <2>1, UnreadType
<1>4. N \in Nat /\ 8 * N > b
  <2>1. PICK q : q = b \div 8 OBVIOUS
  <2>2. q \in Nat /\ b < 8 * (q + 1) BY <1>3, <2>1
  <2>3. N = q + 1 BY <1>1, <2>1 DEF Header
  <2>. QED BY <2>2, <2>3
<1>5. PICK step : step = [i \in 1..N |-> [t \in States(det) |-> Turn(t, det)]] OBVIOUS
<1>6. PICK X : X = [i \in 0..N |-> {t \in States(det) : OnTheWay(recs, wire2, det, t, b, i)}]
  OBVIOUS
<1>7. first \in X[0]
  <2>1. 8 * 0 + b <= b BY <1>3
  <2>2. OnTheWay(recs, wire2, det, first, b, 0) BY <1>1, <1>2, <2>1 DEF OnTheWay
  <2>3. first \in States(det) BY <2>2, WayType
  <2>4. 0 \in 0..N BY <1>4
  <2>. QED BY <1>6, <2>2, <2>3, <2>4
<1>8. ASSUME NEW i \in 1..N, NEW t \in X[i - 1]
      PROVE  step[i][t] \in X[i] /\ step[i][t] = Turn(t, det) /\ t \in States(det)
  <2>1. t \in States(det) /\ OnTheWay(recs, wire2, det, t, b, i - 1)
    <3>1. i - 1 \in 0..N BY <1>4
    <3>. QED BY <1>6, <3>1
  <2>2. step[i][t] = Turn(t, det) BY <1>5, <2>1
  <2>3. PICK u : u = Turn(t, det) OBVIOUS
  <2>4. OnTheWay(recs, wire2, det, u, b, i)
    <3>1. i \in Nat \ {0} BY <1>4
    <3>2. OnTheWay(recs, wire2, det, Turn(t, det), b, i) BY <1>3, <2>1, <3>1, TurnOnTheWay
    <3>. QED BY <2>3, <3>2
  <2>5. u \in States(det) BY <2>4, WayType
  <2>6. u \in X[i]
    <3>1. i \in 0..N BY <1>4
    <3>. QED BY <1>6, <2>4, <2>5, <3>1
  <2>. QED BY <2>1, <2>2, <2>3, <2>6
<1>9. PICK f : IsLoop(f, N, first, step) BY <1>4, LoopExists
<1>10. \A i \in 0..N : f[i] \in X[i] BY <1>4, <1>7, <1>8, <1>9, LoopKeeps
<1>11. f = [i \in 0..N |-> IF i = 0 THEN first ELSE Turn(f[i - 1], det)]
  <2>1. \A i \in 1..N : step[i][f[i - 1]] = Turn(f[i - 1], det)
    <3>1. \A i \in 1..N : i - 1 \in 0..N BY <1>4
    <3>. QED BY <1>8, <1>10, <3>1
  <2>2. f = [i \in 0..N |-> IF i = 0 THEN first ELSE step[i][f[i - 1]]] BY <1>9 DEF IsLoop
  <2>3. \A i \in 0..N : (IF i = 0 THEN first ELSE step[i][f[i - 1]])
                          = (IF i = 0 THEN first ELSE Turn(f[i - 1], det))
    BY <2>1
  <2>. QED BY <2>2, <2>3
<1>12. PICK g : /\ g = (CHOOSE h : h = [i \in 0..N |-> IF i = 0 THEN first ELSE Turn(h[i - 1], det)])
                /\ Push(s, chunk, det) = g[N]
  <2>1. Push(s, chunk, det) = TurnsFrom(first, det)
    <3>1. first = [s EXCEPT !.r.chunks = Append(@, chunk), !.r.buffered = @ + Len(chunk)]
      BY <1>0 DEF IsMore
    <3>2. Push(s, chunk, det)
            = TurnsFrom([s EXCEPT !.r.chunks = Append(@, chunk),
                                  !.r.buffered = @ + Len(chunk)], det)
      BY DEF Push, TurnsFrom
    <3>. QED BY <3>1, <3>2
  <2>2. PICK g : g = (CHOOSE h : h = [i \in 0..N |-> IF i = 0 THEN first ELSE Turn(h[i - 1], det)])
    OBVIOUS
  <2>3. TurnsFrom(first, det) = g[N] BY <1>1, <2>2 DEF TurnsFrom
  <2>. QED BY <2>1, <2>2, <2>3
<1>13. g = [i \in 0..N |-> IF i = 0 THEN first ELSE Turn(g[i - 1], det)] BY <1>11, <1>12
<1>14. g[N] \in X[N]
  <2> DEFINE S == {i \in 0..N : g[i] \in X[i]}
  <2>1. 0 \in S
    <3>1. 0 \in 0..N /\ g[0] = first BY <1>4, <1>13
    <3>2. g[0] \in X[0] BY <1>7, <3>1
    <3>. QED BY <3>1, <3>2
  <2>2. ASSUME NEW i \in 1..N, i - 1 \in S PROVE i \in S
    <3>0. i \in 0..N /\ i # 0 BY <1>4
    <3>1. g[i] = Turn(g[i - 1], det) BY <1>13, <3>0
    <3>2. g[i - 1] \in X[i - 1] BY <2>2
    <3>3. Turn(g[i - 1], det) \in X[i] BY <1>8, <3>2
    <3>4. g[i] \in X[i] BY <3>1, <3>3
    <3>. QED BY <3>0, <3>4
  <2> HIDE DEF S
  <2>3. \A i \in 0..N : i \in S BY <1>4, <2>1, <2>2, UpTo
  <2>4. N \in S BY <1>4, <2>3
  <2>. QED BY <2>4 DEF S
<1>15. PICK t : t = Push(s, chunk, det) OBVIOUS
<1>16. OnTheWay(recs, wire2, det, t, b, N)
  <2>1. N \in 0..N BY <1>4
  <2>. QED BY <1>6, <1>12, <1>14, <1>15, <2>1
<1>17. PICK j \in 0..Len(recs) :
         \/ Ended(recs, wire2, det, t, j)
         \/ /\ Reading(recs, wire2, det, t, j)
            /\ Waits(recs, t, j) \/ 8 * N + t.r.buffered <= b
  BY <1>16 DEF OnTheWay
<1>18. ASSUME Reading(recs, wire2, det, t, j) PROVE ~(8 * N + t.r.buffered <= b)
  <2>1. Sound(t.r) BY <1>18 DEF Reading
  <2>2. PICK x : x = t.r.buffered OBVIOUS
  <2>3. x \in Nat BY <2>1, <2>2, UnreadType
  <2>4. ~(8 * N + x <= b) BY <1>3, <1>4, <2>3
  <2>. QED BY <2>2, <2>4
<1>19. Settled(recs, wire2, det, t) BY <1>17, <1>18 DEF Settled
<1>. QED BY <1>15, <1>19

-----------------------------------------------------------------------------
(* The invariant.                                                          *)

Now == [r |-> parts, threw |-> died, warned |-> warned, seen |-> seen, points |-> points]

\* What is received so far is a number of records and a part of the next one, and
\* everything is as these records, and no others, make it.
StreamInv ==
  /\ stream \in Streams /\ detector \in Detectors /\ pieces \in 0..MaxPieces
  /\ onWire \in Seq(Int)
  /\ Settled(stream, onWire, detector, Now)

LEMMA StreamIsSendable == ASSUME NEW s \in Streams PROVE s \in Seq(Sendable)
<1>1. s \in Seq(RecordSet) /\ \A i \in 1..Len(s) : CanSend(s[i]) BY StreamAssumption
<1>2. \A i \in 1..Len(s) : s[i] \in Sendable BY <1>1 DEF Sendable
<1>. QED BY <1>1, <1>2

LEMMA EmptyIsSound == Sound(Empty) /\ Unread(Empty) = <<>>
<1>1. Empty.chunks = <<>> /\ Empty.head = 0 /\ Empty.buffered = 0 BY DEF Empty
<1>2. Len(FlattenSeq(Empty.chunks)) = 0 BY <1>1, FlatEmpty
<1>3. Empty.chunks \in Seq(Seq(Int)) /\ Len(Empty.chunks) = 0 BY <1>1
<1>4. \A i \in 1..Len(Empty.chunks) : Empty.chunks[i] # <<>> BY <1>3
<1>5. Empty = [chunks |-> Empty.chunks, head |-> Empty.head, buffered |-> Empty.buffered]
  BY DEF Empty
<1>6. Sound(Empty) BY <1>1, <1>2, <1>3, <1>4, <1>5 DEF Sound
<1>. QED BY <1>1, <1>6, UnreadType

LEMMA StartSettled == Init => StreamInv
<1>. SUFFICES ASSUME Init PROVE StreamInv OBVIOUS
<1>1. PICK recs, wire, s : recs = stream /\ wire = onWire /\ s = Now OBVIOUS
<1>2. recs \in Seq(Sendable) BY <1>1, StreamIsSendable DEF Init
<1>3. /\ s = [r |-> Empty, threw |-> FALSE, warned |-> 0, seen |-> <<>>, points |-> <<>>]
      /\ wire = Sent(recs)
  BY <1>1 DEF Init, Now
<1>4. PICK N \in Nat : N = Len(recs) BY <1>2
<1>5. SubSeq(recs, 1, 0) = <<>> /\ SubSeq(recs, 0 + 1, Len(recs)) = recs
  <2>1. SubSeq(recs, 1, 0) = <<>> BY SubSeqEmpty
  <2>2. SubSeq(recs, 1, Len(recs)) = recs BY <1>2, SubSeqFull
  <2>. QED BY <2>1, <2>2
<1>6. Sent(recs) \in Seq(Int)
  <2>1. 0 \in 0..Len(recs) BY <1>4
  <2>2. Sent(SubSeq(recs, 0 + 1, Len(recs))) \in Seq(Int) BY <1>2, <2>1, SentCut
  <2>. QED BY <1>5, <2>2
<1>7. Handled(recs, detector, s, 0)
  <2>1. GoodFrames(<<>>) = <<>>
    <3>1. <<>> \in Seq(Sendable) OBVIOUS
    <3>. QED BY <3>1, GoodMap, FlatMapNone
  <2>2. s.seen = <<>> /\ s.warned = 0 /\ s.points = <<>> BY <1>3
  <2>3. Len(s.seen) + s.warned = 0 BY <2>2
  <2>4. s.points = [i \in 1..Len(Sweeps(s.seen)) |-> PointsOf(Sweeps(s.seen)[i], detector)]
    <3>1. Sweeps(s.seen) = <<>> BY <2>2, SweepsNone
    <3>2. PICK S : S = Sweeps(s.seen) OBVIOUS
    <3>3. 1..Len(S) = {} BY <3>1, <3>2
    <3>4. [i \in 1..Len(S) |-> PointsOf(S[i], detector)] = <<>> BY <3>3
    <3>. QED BY <2>2, <3>2, <3>4
  <2>5. s.warned \in Nat /\ \A i \in 1..0 : recs[i].fault \notin Fatal BY <2>2
  <2>6. s = [r |-> s.r, threw |-> s.threw, warned |-> s.warned, seen |-> s.seen, points |-> s.points]
    BY <1>3
  <2>7. s.seen = GoodFrames(SubSeq(recs, 1, 0)) BY <1>5, <2>1, <2>2
  <2>. QED BY <2>3, <2>4, <2>5, <2>6, <2>7 DEF Handled
<1>8. Reading(recs, wire, detector, s, 0)
  <2>1. s.threw = FALSE /\ s.r = Empty BY <1>3
  <2>2. <<>> \o wire = wire BY <1>3, <1>6
  <2>. QED BY <1>3, <1>5, <1>7, <2>1, <2>2, EmptyIsSound DEF Reading
<1>9. Waits(recs, s, 0)
  <2>. SUFFICES ASSUME 0 < Len(recs) PROVE Len(Unread(s.r)) < Len(Record(recs[0 + 1]))
    BY DEF Waits
  <2>1. PICK q : q = recs[0 + 1] OBVIOUS
  <2>2. q \in Sendable BY <1>2, <2>1
  <2>3. PICK w, sent : IsRecord(Record(q), w, sent, q) BY <2>2, RecordIs
  <2>4. PICK rec : rec = Record(q) OBVIOUS
  <2>5. sent \in Seq(Int) /\ Len(sent) >= 8 /\ Len(rec) = 2 + Len(sent)
    BY <2>3, <2>4 DEF IsRecord
  <2>6. 0 < Len(rec)
    <3>1. Len(sent) \in Nat BY <2>5
    <3>. QED BY <2>5, <3>1
  <2>7. Len(Unread(s.r)) = 0 BY <1>3, EmptyIsSound
  <2>. QED BY <2>1, <2>4, <2>6, <2>7
<1>10. Settled(recs, wire, detector, s)
  <2>1. 0 \in 0..Len(recs) BY <1>4
  <2>. QED BY <1>8, <1>9, <2>1 DEF Settled
<1>11. pieces \in 0..MaxPieces BY StreamAssumption DEF Init
<1>. QED BY <1>1, <1>3, <1>6, <1>10, <1>11 DEF Init, StreamInv

LEMMA StepSettles == StreamInv /\ [Next]_vars => StreamInv'
<1>. SUFFICES ASSUME StreamInv, [Next]_vars PROVE StreamInv' OBVIOUS
<1>1. ASSUME NEW n \in 1..Len(onWire), Data(n) PROVE StreamInv'
  <2>1. PICK recs, wire, s, det : recs = stream /\ wire = onWire /\ s = Now /\ det = detector
    OBVIOUS
  <2>2. recs \in Seq(Sendable) /\ wire \in Seq(Int) /\ Settled(recs, wire, det, s)
    BY <2>1, StreamIsSendable DEF StreamInv
  <2>3. PICK chunk, wire2 : chunk = SubSeq(wire, 1, n) /\ wire2 = SubSeq(wire, n + 1, Len(wire))
    OBVIOUS
  <2>4. n \in 0..Len(wire) /\ n # 0 BY <2>1
  <2>5. chunk \in Seq(Int) /\ chunk # <<>> /\ wire2 \in Seq(Int) /\ wire = chunk \o wire2
    <3>1. /\ chunk \in Seq(Int) /\ Len(chunk) = n /\ wire2 \in Seq(Int)
          /\ wire = chunk \o wire2
      BY <2>2, <2>3, <2>4, Cuts, SMTT(30)
    <3>. QED BY <2>4, <3>1
  <2>6. PICK t : t = Push(s, chunk, det) OBVIOUS
  <2>7. Settled(recs, wire2, det, t)
    <3>1. PICK k \in 0..Len(recs) : Ended(recs, wire, det, s, k) \/ Reading(recs, wire, det, s, k)
      BY <2>2 DEF Settled
    <3>2. ~Ended(recs, wire, det, s, k)
      <4>1. s.threw # TRUE BY <1>1, <2>1 DEF Data, Now
      <4>. QED BY <4>1 DEF Ended
    <3>3. Reading(recs, wire, det, s, k) BY <3>1, <3>2
    <3>4. Settled(recs, wire2, det, Push(s, chunk, det)) BY <2>2, <2>5, <3>3, PushIs
    <3>. QED BY <2>6, <3>4
  <2>8. t = [r |-> t.r, threw |-> t.threw, warned |-> t.warned, seen |-> t.seen, points |-> t.points]
    BY <2>7 DEF Settled, Ended, Reading, Handled
  <2>9. /\ parts' = t.r /\ died' = t.threw /\ warned' = t.warned /\ seen' = t.seen
        /\ points' = t.points
    BY <1>1, <2>1, <2>3, <2>6 DEF Data, Now
  <2>10. Now' = t
    <3>1. Now' = [r |-> parts', threw |-> died', warned |-> warned', seen |-> seen',
                  points |-> points']
      BY DEF Now
    <3>. QED BY <2>8, <2>9, <3>1
  <2>11. /\ stream' = recs /\ detector' = det /\ onWire' = wire2
         /\ pieces' = pieces + 1 /\ pieces < MaxPieces
    BY <1>1, <2>1, <2>3 DEF Data
  <2>12. pieces' \in 0..MaxPieces /\ stream \in Streams /\ detector \in Detectors
    BY <2>11, StreamAssumption DEF StreamInv
  <2>13. Settled(stream', onWire', detector', Now') BY <2>7, <2>10, <2>11
  <2>14. stream' \in Streams /\ detector' \in Detectors /\ onWire' \in Seq(Int)
    BY <2>1, <2>5, <2>11, <2>12
  <2>. QED BY <2>12, <2>13, <2>14 DEF StreamInv
<1>2. CASE UNCHANGED vars
  <2>1. /\ stream' = stream /\ detector' = detector /\ onWire' = onWire /\ pieces' = pieces
        /\ Now' = Now
    BY <1>2 DEF vars, Now
  <2>2. Settled(stream', onWire', detector', Now') <=> Settled(stream, onWire, detector, Now)
    BY <2>1
  <2>. QED BY <2>1, <2>2 DEF StreamInv
<1>. QED BY <1>1, <1>2 DEF Next

-----------------------------------------------------------------------------
(* What is handed on is what came.                                         *)

\* In every reachable state a number of records has been dealt with, each as it
\* must be, and what is unread and still on the wire are the others.
THEOREM StreamIsKept == Spec => []StreamInv
<1>1. Init => StreamInv BY StartSettled
<1>2. StreamInv /\ [Next]_vars => StreamInv' BY StepSettles
<1>. QED BY <1>1, <1>2, PTL DEF Spec

\* The reassembler's head lies in its first chunk, and it has buffered what it
\* has not taken.
THEOREM TypeCorrect == Spec => []TypeOK
<1>1. ASSUME StreamInv PROVE TypeOK
  <2>0. PICK s : s = Now OBVIOUS
  <2>1. PICK k \in 0..Len(stream) : \/ Ended(stream, onWire, detector, s, k)
                                    \/ Reading(stream, onWire, detector, s, k)
    BY <1>1, <2>0 DEF StreamInv, Settled
  <2>2. PICK r : r = parts OBVIOUS
  <2>3. s.r = r /\ s.threw = died /\ s.warned = warned BY <2>0, <2>2 DEF Now
  <2>4. died \in BOOLEAN /\ warned \in Nat BY <2>1, <2>3 DEF Ended, Reading, Handled
  <2>5. Sound(r)
    <3>1. CASE Ended(stream, onWire, detector, s, k) BY <2>3, <3>1, EmptyIsSound DEF Ended
    <3>2. CASE Reading(stream, onWire, detector, s, k) BY <2>3, <3>2 DEF Reading
    <3>. QED BY <2>1, <3>1, <3>2
  <2>6. /\ r.head < (IF r.chunks = <<>> THEN 1 ELSE Len(Head(r.chunks)))
        /\ r.buffered = Len(FlattenSeq(r.chunks)) - r.head
    BY <2>5 DEF Sound
  <2>. QED BY <1>1, <2>2, <2>4, <2>6 DEF TypeOK, StreamInv
<1>2. StreamInv => TypeOK BY <1>1
<1>. QED BY <1>2, StreamIsKept, PTL

\* More records are no fewer units.
LEMMA SentGrows ==
  ASSUME NEW recs \in Seq(Sendable), NEW j \in 0..Len(recs), NEW k \in 1..j
  PROVE  Len(Sent(SubSeq(recs, 1, k))) <= Len(Sent(SubSeq(recs, 1, j)))
<1>1. PICK a, b, c : a = SubSeq(recs, 1, j) /\ b = SubSeq(a, 1, k) /\ c = SubSeq(a, k + 1, Len(a))
  OBVIOUS
<1>2. a \in Seq(Sendable) /\ Len(a) = j BY <1>1, Cuts
<1>3. b = SubSeq(recs, 1, k)
  <2>1. PICK N \in Nat : N = Len(recs) OBVIOUS
  <2>2. j \in 1..N /\ j \in Nat /\ k \in Nat BY <2>1
  <2>3. 1 \in 1..Len(recs) /\ j \in 1..Len(recs) /\ 1 \in 1..(j - 1 + 1) /\ k \in 1..(j - 1 + 1)
    BY <2>1, <2>2
  <2>4. SubSeq(SubSeq(recs, 1, j), 1, k) = SubSeq(recs, 1 + 1 - 1, 1 + k - 1)
    BY <1>1, <1>2, <2>3, SubSeqOfSubSeq
  <2>5. 1 + 1 - 1 = 1 /\ 1 + k - 1 = k BY <2>2
  <2>. QED BY <1>1, <2>4, <2>5
<1>4. k \in 0..Len(a) BY <1>2
<1>5. PICK x, y, z : x = Sent(a) /\ y = Sent(b) /\ z = Sent(c) OBVIOUS
<1>6. x = y \o z /\ y \in Seq(Int) /\ z \in Seq(Int) BY <1>1, <1>2, <1>4, <1>5, SentCut
<1>7. Len(y) <= Len(x) BY <1>6
<1>. QED BY <1>1, <1>3, <1>5, <1>7

\* The numbers of records that may have come.
Arrivals(recs, wire) ==
  {k \in 0..Len(recs) : /\ Len(Sent(SubSeq(recs, 1, k))) <= Len(Sent(recs)) - Len(wire)
                        /\ \A i \in 1..k : recs[i].fault \notin Fatal}

\* The records dealt with are those that came: not fewer and not more.
LEMMA SettledCame ==
  ASSUME NEW recs \in Seq(Sendable), NEW wire \in Seq(Int), NEW det, NEW s,
         NEW k \in 0..Len(recs),
         \/ Ended(recs, wire, det, s, k)
         \/ Reading(recs, wire, det, s, k) /\ Waits(recs, s, k)
  PROVE  Max(Arrivals(recs, wire)) = k
<1>0. PICK N \in Nat, W \in Nat : N = Len(recs) /\ W = Len(wire) OBVIOUS
<1>1. PICK A, K, L :
        /\ N = Len(recs) /\ W = Len(wire) /\ A = Len(Sent(recs)) /\ K = Arrivals(recs, wire)
        /\ L = [j \in 0..N |-> Len(Sent(SubSeq(recs, 1, j)))]
  BY <1>0
<1>2. A \in Nat /\ \A j \in 0..N : L[j] \in Nat
  <2>1. ASSUME NEW j \in 0..N PROVE A \in Nat /\ L[j] \in Nat
    <3>1. PICK x, y, z : /\ x = Sent(recs) /\ y = Sent(SubSeq(recs, 1, j))
                         /\ z = Sent(SubSeq(recs, j + 1, Len(recs)))
      OBVIOUS
    <3>2. x = y \o z /\ y \in Seq(Int) /\ z \in Seq(Int) BY <1>1, <3>1, SentCut
    <3>3. Len(x) \in Nat /\ Len(y) \in Nat BY <3>2
    <3>. QED BY <1>1, <3>1, <3>3
  <2>2. 0 \in 0..N BY <1>1
  <2>. QED BY <2>1, <2>2
<1>3. K = {j \in 0..N : L[j] <= A - W /\ \A i \in 1..j : recs[i].fault \notin Fatal}
  BY <1>1 DEF Arrivals
<1>4. \A i \in 1..k : recs[i].fault \notin Fatal BY DEF Ended, Reading, Handled
<1>5. ASSUME NEW j \in 0..N, j > k
      PROVE  k < N /\ L[k + 1] <= L[j]
  <2>1. k \in Nat /\ k + 1 \in 1..j /\ k < N BY <1>1, <1>5
  <2>2. Len(Sent(SubSeq(recs, 1, k + 1))) <= Len(Sent(SubSeq(recs, 1, j)))
    BY <1>1, <2>1, SentGrows
  <2>3. k + 1 \in 0..N BY <1>1, <2>1
  <2>. QED BY <1>1, <2>1, <2>2, <2>3
<1>6. CASE Ended(recs, wire, det, s, k)
  <2>1. k < N /\ recs[k + 1].fault \in Fatal /\ L[k] + W <= A
    <3>1. PICK y : y = Sent(SubSeq(recs, 1, k)) OBVIOUS
    <3>2. k < N /\ recs[k + 1].fault \in Fatal /\ Len(y) + W <= A BY <1>1, <1>6, <3>1 DEF Ended
    <3>3. L[k] = Len(y) BY <1>1, <3>1
    <3>. QED BY <3>2, <3>3
  <2>2. k \in K
    <3>1. PICK l \in Nat : l = L[k] BY <1>1, <1>2
    <3>2. l + W <= A BY <2>1, <3>1
    <3>3. l <= A - W BY <1>2, <3>2
    <3>. QED BY <1>1, <1>3, <1>4, <3>1, <3>3
  <2>3. ASSUME NEW j \in K PROVE j <= k
    <3>1. j \in 0..N /\ k \in 0..N /\ \A i \in 1..j : recs[i].fault \notin Fatal BY <1>1, <1>3
    <3>2. j > k => k + 1 \in 1..j BY <3>1
    <3>. QED BY <2>1, <3>1, <3>2
  <2>4. Max(K) = k
    <3>1. \A x \in K : x \in Int BY <1>3
    <3>2. \A x \in K : (\A y \in K : x >= y) <=> x = k BY <2>2, <2>3, <3>1
    <3>. QED BY <2>2, <3>2 DEF Max
  <2>. QED BY <1>1, <2>4
<1>7. CASE Reading(recs, wire, det, s, k) /\ Waits(recs, s, k)
  <2>1. PICK U : U = Unread(s.r) OBVIOUS
  <2>2. U \in Seq(Int) BY <1>7, <2>1, UnreadType DEF Reading
  <2>3. PICK x, y, z : /\ x = Sent(recs) /\ y = Sent(SubSeq(recs, 1, k))
                       /\ z = Sent(SubSeq(recs, k + 1, Len(recs)))
    OBVIOUS
  <2>4. x = y \o z /\ y \in Seq(Int) /\ z \in Seq(Int) /\ z = U \o wire
    <3>1. U \o wire = z BY <1>7, <2>1, <2>3 DEF Reading
    <3>. QED BY <2>3, <3>1, SentCut
  <2>5. Len(x) = Len(y) + Len(z) /\ Len(z) = Len(U) + Len(wire) BY <2>2, <2>4
  <2>6. PICK u \in Nat : u = Len(U) BY <2>2
  <2>7. A = L[k] + (u + W) /\ L[k] \in Nat BY <1>1, <1>2, <2>3, <2>5, <2>6
  <2>8. k \in K
    <3>1. L[k] <= A - W BY <1>1, <1>2, <2>6, <2>7
    <3>. QED BY <1>1, <1>3, <1>4, <3>1
  <2>9. ASSUME NEW j \in K PROVE j <= k
    <3>1. /\ j \in 0..N /\ k \in 0..N /\ L[j] <= A - W
          /\ \A i \in 1..j : recs[i].fault \notin Fatal
      BY <1>1, <1>3
    <3>2. SUFFICES ASSUME j > k PROVE FALSE BY <3>1
    <3>3. k < N /\ L[k + 1] <= L[j] /\ k + 1 \in 0..N /\ k + 1 \in 1..j BY <1>5, <3>1, <3>2
    <3>4. PICK q : q = recs[k + 1] OBVIOUS
    <3>5. q.fault \notin Fatal BY <3>1, <3>3, <3>4
    <3>6. u < Len(Record(q)) BY <1>1, <1>7, <2>1, <2>6, <3>3, <3>4, <3>5 DEF Waits
    <3>7. k \in 0..(Len(recs) - 1) BY <1>1, <3>1, <3>3
    <3>8. PICK a, b, rec : a = Sent(SubSeq(recs, 1, k + 1)) /\ b = Sent(SubSeq(recs, 1, k))
                             /\ rec = Record(q)
      OBVIOUS
    <3>9. a = b \o rec BY <3>4, <3>7, <3>8, SentNext
    <3>10. b \in Seq(Int) BY <2>3, <2>4, <3>8
    <3>11. rec \in Seq(Int)
      <4>1. q \in Sendable BY <3>4, <3>7, SentNext
      <4>2. PICK w, sent : IsRecord(rec, w, sent, q) BY <3>8, <4>1, RecordIs
      <4>. QED BY <4>2 DEF IsRecord
    <3>12. PICK m \in Nat : m = Len(rec) BY <3>11
    <3>13. Len(a) = Len(b) + m BY <3>9, <3>10, <3>11, <3>12
    <3>14. L[k + 1] = L[k] + m BY <1>1, <3>1, <3>3, <3>8, <3>13
    <3>15. u < m BY <3>6, <3>8, <3>12
    <3>16. L[j] \in Nat /\ L[k + 1] \in Nat BY <1>2, <3>1, <3>3
    <3>17. PICK l \in Nat, l1 \in Nat, l2 \in Nat : l = L[k] /\ l1 = L[k + 1] /\ l2 = L[j]
      BY <2>7, <3>16
    <3>18. l1 <= l2 /\ l2 <= A - W /\ A = l + (u + W) /\ l1 = l + m
      BY <2>7, <3>1, <3>3, <3>14, <3>17
    <3>. QED BY <3>15, <3>18
  <2>10. Max(K) = k
    <3>1. \A v \in K : v \in Int BY <1>3
    <3>2. \A v \in K : (\A w \in K : v >= w) <=> v = k BY <2>8, <2>9, <3>1
    <3>. QED BY <2>8, <3>2 DEF Max
  <2>. QED BY <1>1, <2>10
<1>. QED BY <1>6, <1>7

\* However the socket cuts the stream, each frame is handed on once, in order, as
\* it was sent and as soon as it is there, and a record that cannot be read costs
\* what it must (frames.js:310-339, engine-client.js:384).
THEOREM SentFramesCome == Spec => []FramesAsSent
<1>1. ASSUME StreamInv PROVE FramesAsSent
  <2>1. PICK recs, wire, s, det : recs = stream /\ wire = onWire /\ s = Now /\ det = detector
    OBVIOUS
  <2>2. recs \in Seq(Sendable) /\ wire \in Seq(Int) /\ Settled(recs, wire, det, s)
    BY <1>1, <2>1, StreamIsSendable DEF StreamInv
  <2>3. PICK k \in 0..Len(recs) : \/ Ended(recs, wire, det, s, k)
                                  \/ Reading(recs, wire, det, s, k) /\ Waits(recs, s, k)
    BY <2>2 DEF Settled
  <2>4. Max(Arrivals(recs, wire)) = k BY <2>2, <2>3, SettledCame
  <2>5. Came = k BY <2>1, <2>4 DEF Came, Arrivals
  <2>6. Handled(recs, det, s, k) BY <2>3 DEF Ended, Reading
  <2>7. s.seen = seen /\ s.warned = warned BY <2>1 DEF Now
  <2>8. seen = GoodFrames(SubSeq(recs, 1, k)) /\ Len(seen) + warned = k
    BY <2>6, <2>7 DEF Handled
  <2>. QED BY <2>1, <2>5, <2>8 DEF FramesAsSent
<1>2. StreamInv => FramesAsSent BY <1>1
<1>. QED BY <1>2, StreamIsKept, PTL

-----------------------------------------------------------------------------
(* Division.                                                               *)

LEMMA DivBounds ==
  ASSUME NEW a \in Int, NEW b \in Nat \ {0}
  PROVE  /\ a \div b \in Int
         /\ b * (a \div b) <= a /\ a < b * (a \div b) + b
BY SMT

LEMMA MulMono == ASSUME NEW a \in Int, NEW b \in Int, NEW c \in Nat \ {0}
  PROVE (a <= b <=> c * a <= c * b) /\ (a < b <=> c * a < c * b)
BY SMT

LEMMA MulDiv ==
  ASSUME NEW a \in Int, NEW b \in Nat \ {0} PROVE (a * b) \div b = a
<1>1. PICK q \in Int : q = (a * b) \div b OBVIOUS
<1>2. b * q <= a * b /\ a * b < b * q + b BY <1>1, DivBounds
<1>3. b * q <= b * a /\ b * a < b * (q + 1) BY <1>2
<1>4. q <= a /\ a < q + 1 BY <1>3, MulMono
<1>. QED BY <1>1, <1>4

LEMMA CeilBounds ==
  ASSUME NEW a \in Int, NEW b \in Nat \ {0}
  PROVE  /\ CeilDiv(a, b) \in Int
         /\ a <= b * CeilDiv(a, b) /\ b * CeilDiv(a, b) < a + b
<1>1. PICK q \in Int : q = (-a) \div b OBVIOUS
<1>2. -a \in Int OBVIOUS
<1>3. b * q <= -a /\ -a < b * q + b BY <1>1, <1>2, DivBounds
<1>4. b * (-q) = -(b * q) BY <1>1
<1>. QED BY <1>1, <1>3, <1>4 DEF CeilDiv

-----------------------------------------------------------------------------
(* The grid, the points and the axis (TraceGeometry, plan.js).             *)

\* What nativeGeometry() starts from: a grid of two cells or more.
IsGrid(grid) == /\ grid.startHz \in Int /\ grid.stepHz \in Nat \ {0}
                /\ grid.binCount \in Nat /\ grid.binCount >= 2

\* snapToGrid() gives a grid that covers the span, and is less than a step too
\* long at its start and no more than one at its end.
THEOREM GridCoversSpan ==
  ASSUME NEW from \in Int, NEW to \in Int, NEW rbw \in Nat \ {0}
  PROVE  LET grid == SnapToGrid(from, to, rbw)
         IN /\ IsGrid(grid)
            /\ grid.stepHz <= MaxStepHz /\ grid.stepHz <= rbw
            /\ grid.startHz <= Smaller(from, to)
            /\ Smaller(from, to) < grid.startHz + grid.stepHz
            /\ Larger(from, to) <= grid.stopHz
            /\ grid.stopHz <= Larger(from, to) + grid.stepHz
            /\ grid.stopHz = grid.startHz + (grid.binCount - 1) * grid.stepHz
<1>1. PICK step, lo, hi : /\ step = Smaller(MaxStepHz, rbw)
                          /\ lo = Smaller(from, to) /\ hi = Larger(from, to)
  OBVIOUS
<1>2. /\ step \in Nat \ {0} /\ step <= MaxStepHz /\ step <= rbw
      /\ lo \in Int /\ hi \in Int /\ lo <= hi
  BY <1>1, GeometryAssumption DEF Smaller, Larger
<1>3. PICK q, c : q = lo \div step /\ c = CeilDiv(hi, step) OBVIOUS
<1>4. /\ q \in Int /\ step * q <= lo /\ lo < step * q + step
      /\ c \in Int /\ hi <= step * c /\ step * c < hi + step
  BY <1>2, <1>3, DivBounds, CeilBounds
<1>5. PICK stop, k : /\ stop = IF c * step <= q * step THEN q * step + step ELSE c * step
                     /\ k = IF c * step <= q * step THEN q + 1 ELSE c
  OBVIOUS
<1>6. k \in Int /\ stop = step * k /\ step * q < step * k
  <2>1. step * (q + 1) = step * q + step BY <1>2, <1>4
  <2>. QED BY <1>2, <1>4, <1>5, <2>1
<1>7. k > q BY <1>2, <1>4, <1>6, MulMono
<1>8. (stop - q * step) \div step = k - q
  <2>1. stop - q * step = (k - q) * step BY <1>2, <1>4, <1>6
  <2>. QED BY <1>2, <1>4, <1>6, <2>1, MulDiv
<1>9. SnapToGrid(from, to, rbw) =
        [startHz |-> q * step, stopHz |-> stop, stepHz |-> step, binCount |-> k - q + 1]
  BY <1>1, <1>3, <1>5, <1>8 DEF SnapToGrid
<1>10. hi <= stop /\ stop <= hi + step
  BY <1>2, <1>4, <1>5
<1>11. stop = q * step + (k - q) * step BY <1>2, <1>4, <1>6
<1>12. q * step = step * q /\ q * step \in Int BY <1>2, <1>4
<1>13. k - q + 1 \in Nat /\ k - q + 1 >= 2 /\ (k - q + 1) - 1 = k - q
  BY <1>4, <1>6, <1>7
<1>. QED BY <1>1, <1>2, <1>4, <1>9, <1>10, <1>11, <1>12, <1>13 DEF IsGrid

\* nativeGeometry() promises as many points as decimate() makes of the grid's
\* cells, two or more and never too many, each a whole number of cells wide.
THEOREM PointsFit ==
  ASSUME NEW grid, IsGrid(grid), MaxPoints >= 2
  PROVE  LET g == NativeGeometry(grid)
         IN /\ g.factor \in Nat \ {0}
            /\ g.pointCount \in 2..MaxPoints
            /\ g.pointCount = CeilDiv(grid.binCount, g.factor)
            /\ g.startHz = grid.startHz /\ g.stepHz = grid.stepHz * g.factor
            /\ g.stopHz = g.startHz + (g.pointCount - 1) * g.stepHz
<1>1. PICK n, p : n = grid.binCount /\ p = CeilDiv(n, MaxPoints) OBVIOUS
<1>2. n \in Nat /\ n \in Int /\ n >= 2 /\ MaxPoints \in Nat \ {0}
  BY <1>1, GeometryAssumption DEF IsGrid
<1>3. p \in Int /\ n <= MaxPoints * p /\ MaxPoints * p < n + MaxPoints
  BY <1>1, <1>2, CeilBounds
<1>4. PICK f, c : f = Larger(1, p) /\ c = CeilDiv(n, f) OBVIOUS
<1>5. p >= 1
  <2>1. MaxPoints * 0 < MaxPoints * p BY <1>2, <1>3
  <2>. QED BY <1>2, <1>3, <2>1, MulMono
<1>6. f \in Nat \ {0} /\ f = p BY <1>3, <1>4, <1>5 DEF Larger
<1>7. c \in Int /\ n <= f * c /\ f * c < n + f BY <1>2, <1>4, <1>6, CeilBounds
<1>8. c <= MaxPoints
  <2>1. f * c < f * MaxPoints + f BY <1>2, <1>3, <1>6, <1>7
  <2>2. f * MaxPoints + f = f * (MaxPoints + 1) BY <1>2, <1>6
  <2>3. c < MaxPoints + 1 BY <1>2, <1>6, <1>7, <2>1, <2>2, MulMono
  <2>. QED BY <1>2, <1>7, <2>3
<1>9. c >= 2
  <2>1. f < n
    <3>1. CASE f = 1 BY <1>2, <3>1
    <3>2. CASE f # 1
      <4>1. (f - 1) * 2 <= (f - 1) * MaxPoints BY <1>2, <1>6
      <4>2. (f - 1) * MaxPoints < n
        <5>1. (f - 1) * MaxPoints = MaxPoints * p - MaxPoints BY <1>2, <1>3, <1>6
        <5>. QED BY <1>2, <1>3, <5>1
      <4>. QED BY <1>2, <1>6, <3>2, <4>1, <4>2
    <3>. QED BY <3>1, <3>2
  <2>2. f * 1 < f * c BY <1>2, <1>6, <1>7, <2>1
  <2>3. 1 < c BY <1>6, <1>7, <2>2, MulMono
  <2>. QED BY <1>7, <2>3
<1>10. Larger(2, c) = c BY <1>7, <1>9 DEF Larger
<1>11. NativeGeometry(grid) =
         [startHz |-> grid.startHz, stopHz |-> grid.startHz + (c - 1) * (grid.stepHz * f),
          stepHz |-> grid.stepHz * f, pointCount |-> c, factor |-> f]
  BY <1>1, <1>4, <1>10 DEF NativeGeometry, StopOfPoints
<1>12. c \in 2..MaxPoints BY <1>2, <1>7, <1>8, <1>9
<1>. QED BY <1>1, <1>4, <1>6, <1>11, <1>12

\* The axis that is reconstructed from an echo has every point on the first of
\* its cells.
LEMMA AxisIsExact ==
  ASSUME NEW grid, IsGrid(grid), MaxPoints >= 2, NEW g, g = NativeGeometry(grid),
         NEW j \in 1..g.pointCount
  PROVE  AxisHz(g, j) = grid.startHz + (j - 1) * (grid.stepHz * g.factor)
<1>1. /\ g.factor \in Nat \ {0} /\ g.pointCount \in 2..MaxPoints
      /\ g.startHz = grid.startHz /\ g.stepHz = grid.stepHz * g.factor
      /\ g.stopHz = g.startHz + (g.pointCount - 1) * g.stepHz
  BY PointsFit
<1>2. PICK c, s : c = g.pointCount - 1 /\ s = g.stepHz OBVIOUS
<1>3. c \in Nat \ {0} /\ s \in Nat /\ grid.startHz \in Int /\ j - 1 \in Int
  BY <1>1, <1>2, GeometryAssumption DEF IsGrid
<1>4. g.stopHz - g.startHz = c * s BY <1>1, <1>2, <1>3
<1>5. (j - 1) * (c * s) = ((j - 1) * s) * c BY <1>3
<1>6. (j - 1) * s \in Int BY <1>3
<1>7. ((j - 1) * (g.stopHz - g.startHz)) \div c = (j - 1) * s
  BY <1>3, <1>4, <1>5, <1>6, MulDiv
<1>. QED BY <1>1, <1>2, <1>7 DEF AxisHz

\* The cells from a point's frequency to the next one's are those decimate()
\* makes the point of.
LEMMA CellsAreBlock ==
  ASSUME NEW grid, IsGrid(grid), MaxPoints >= 2, NEW g, g = NativeGeometry(grid),
         NEW j \in 1..g.pointCount
  PROVE  CellsOf(grid, g, j) =
           (g.factor * (j - 1) + 1)..Smaller(grid.binCount, g.factor * j)
<1>1. PICK n, f, s, a : /\ n = grid.binCount /\ f = g.factor
                        /\ s = grid.stepHz /\ a = grid.startHz
  OBVIOUS
<1>2. /\ n \in Nat /\ f \in Nat \ {0} /\ s \in Nat \ {0} /\ a \in Int
      /\ g.stepHz = s * f /\ j \in Int
  BY <1>1, PointsFit DEF IsGrid
<1>3. AxisHz(g, j) = a + (j - 1) * (s * f) BY <1>1, AxisIsExact
<1>4. ASSUME NEW i \in 1..n
      PROVE  /\ AxisHz(g, j) <= a + (i - 1) * s <=> f * (j - 1) + 1 <= i
             /\ a + (i - 1) * s < AxisHz(g, j) + s * f <=> i <= f * j
  <2>1. PICK b \in Int : b = f * (j - 1) BY <1>2
  <2>2. (j - 1) * (s * f) = s * b BY <1>2, <2>1
  <2>3. s * b + s * f = s * (b + f) BY <1>2, <2>1
  <2>4. f * j = b + f BY <1>2, <2>1
  <2>5. (i - 1) * s = s * (i - 1) /\ i - 1 \in Int BY <1>2
  <2>6. s * b <= s * (i - 1) <=> b <= i - 1 BY <1>2, <2>1, <2>5, MulMono
  <2>7. s * (i - 1) < s * (b + f) <=> i - 1 < b + f BY <1>2, <2>1, <2>5, MulMono
  <2>8. s * b \in Int /\ s * (i - 1) \in Int /\ s * f \in Int /\ s * (b + f) \in Int
    BY <1>2, <2>1, <2>5
  <2>9. AxisHz(g, j) <= a + (i - 1) * s <=> b + 1 <= i
    BY <1>2, <1>3, <2>1, <2>2, <2>5, <2>6, <2>8
  <2>10. a + (i - 1) * s < AxisHz(g, j) + s * f <=> i <= b + f
    BY <1>2, <1>3, <2>1, <2>2, <2>3, <2>5, <2>7, <2>8
  <2>. QED BY <2>1, <2>4, <2>9, <2>10
<1>5. CellsOf(grid, g, j) = {i \in 1..n : f * (j - 1) + 1 <= i /\ i <= f * j}
  BY <1>1, <1>2, <1>4 DEF CellsOf
<1>6. f * (j - 1) \in Nat /\ f * j \in Int BY <1>2
<1>. QED BY <1>1, <1>2, <1>5, <1>6 DEF Smaller

-----------------------------------------------------------------------------
(* The gaps: the two scans, by the least cell on which one is wrong.       *)

\* Of some naturals up to n one is the greatest.
LEMMA GreatestExists ==
  ASSUME NEW n \in Nat, NEW S \in SUBSET (0..n), S # {}
  PROVE  \E w \in S : \A v \in S : v <= w
<1>1. PICK T : T = {n - i : i \in S} OBVIOUS
<1>2. T \in SUBSET Nat /\ T # {}
  <2>1. \A i \in S : i \in 0..n /\ n - i \in Nat OBVIOUS
  <2>. QED BY <1>1, <2>1
<1>3. PICK x \in T : \A y \in T : x <= y BY <1>2, LeastNatural
<1>4. PICK w \in S : x = n - w BY <1>1
<1>5. ASSUME NEW v \in S PROVE v <= w
  <2>1. n - v \in T /\ v \in 0..n /\ w \in 0..n BY <1>1
  <2>. QED BY <1>3, <1>4, <2>1
<1>. QED BY <1>5

IsLast(valid, i, k) ==
  /\ k \in 0..i /\ (k = 0 \/ k \in valid)
  /\ \A m \in valid : m <= i => m <= k

IsFirst(valid, i, k) ==
  \/ k = 0 /\ \A m \in valid : m < i
  \/ k \in valid /\ k >= i /\ \A m \in valid : m >= i => k <= m

LEMMA LastIs ==
  ASSUME NEW n \in Nat, NEW valid \in SUBSET (1..n), NEW i \in 0..n
  PROVE  \E k \in 0..i : IsLast(valid, i, k)
<1>1. PICK S : S = {0} \cup {m \in valid : m <= i} OBVIOUS
<1>2. S \in SUBSET (0..i) /\ S # {}
  <2>1. \A m \in valid : m \in 1..n OBVIOUS
  <2>2. \A m \in S : m \in 0..i BY <1>1, <2>1
  <2>. QED BY <1>1, <2>2
<1>0. i \in Nat OBVIOUS
<1>3. PICK k \in S : \A m \in S : m <= k BY <1>0, <1>2, GreatestExists
<1>. QED BY <1>1, <1>2, <1>3 DEF IsLast

LEMMA FirstIs ==
  ASSUME NEW n \in Nat, NEW valid \in SUBSET (1..n), NEW i \in 1..(n + 1)
  PROVE  \E k \in 0..n : IsFirst(valid, i, k)
<1>1. PICK S : S = {m \in valid : m >= i} OBVIOUS
<1>2. CASE S = {} 
  <2>1. \A m \in valid : m < i BY <1>1, <1>2
  <2>. QED BY <2>1 DEF IsFirst
<1>3. CASE S # {}
  <2>0. \A m \in valid : m \in 1..n OBVIOUS
  <2>1. S \in SUBSET Nat
    <3>1. \A m \in S : m \in Nat BY <1>1, <2>0
    <3>. QED BY <3>1
  <2>2. PICK k \in S : \A m \in S : k <= m BY <1>3, <2>1, LeastNatural
  <2>. QED BY <1>1, <2>2 DEF IsFirst
<1>. QED BY <1>2, <1>3

\* leftIdx holds the last valid cell up to each.
LEMMA LeftScan ==
  ASSUME NEW n \in Nat, NEW valid \in SUBSET (1..n), NEW i \in 0..n
  PROVE  IsLast(valid, i, LeftIdx(valid, n)[i])
<1> DEFINE Scans(f) ==
      f = [j \in 0..n |-> IF j = 0 THEN 0 ELSE IF j \in valid THEN j ELSE f[j - 1]]
<1>1. PICK g : g = [j \in 0..n |-> CHOOSE k \in 0..j : IsLast(valid, j, k)] OBVIOUS
<1>2. \A j \in 0..n : g[j] \in 0..j /\ IsLast(valid, j, g[j])
  BY <1>1, LastIs
<1>3. Scans(g)
  <2>1. ASSUME NEW j \in 0..n
        PROVE  g[j] = IF j = 0 THEN 0 ELSE IF j \in valid THEN j ELSE g[j - 1]
    <3>1. IsLast(valid, j, g[j]) /\ g[j] \in 0..j BY <1>2
    <3>2. CASE j = 0 BY <3>1, <3>2
    <3>3. CASE j \in valid BY <3>1, <3>3 DEF IsLast
    <3>4. CASE j # 0 /\ j \notin valid
      <4>1. j - 1 \in 0..n /\ IsLast(valid, j - 1, g[j - 1]) /\ g[j - 1] \in 0..(j - 1)
        BY <1>2, <3>4
      <4>. QED BY <3>1, <3>4, <4>1 DEF IsLast
    <3>. QED BY <3>2, <3>3, <3>4
  <2>. QED BY <1>1, <2>1
<1>4. PICK left : left = LeftIdx(valid, n) OBVIOUS
<1>5. Scans(left)
  <2>1. left = CHOOSE f : Scans(f) BY <1>4 DEF LeftIdx
  <2>. HIDE DEF Scans
  <2>. QED BY <1>3, <2>1
<1>6. PICK T : T = {j \in 0..n : ~IsLast(valid, j, left[j])} OBVIOUS
<1>7. ASSUME T # {} PROVE FALSE
  <2>1. T \in SUBSET Nat BY <1>6
  <2>2. PICK j \in T : \A k \in T : j <= k BY <1>7, <2>1, LeastNatural
  <2>3. j \in 0..n /\ ~IsLast(valid, j, left[j]) BY <1>6, <2>2
  <2>4. left[j] = IF j = 0 THEN 0 ELSE IF j \in valid THEN j ELSE left[j - 1]
    BY <1>5, <2>3
  <2>5. CASE j = 0 BY <2>3, <2>4, <2>5 DEF IsLast
  <2>6. CASE j # 0 /\ j \in valid BY <2>3, <2>4, <2>6 DEF IsLast
  <2>7. CASE j # 0 /\ j \notin valid
    <3>1. j - 1 \in 0..n /\ j - 1 \notin T BY <2>2, <2>3, <2>7
    <3>2. IsLast(valid, j - 1, left[j - 1]) /\ left[j] = left[j - 1]
      BY <1>6, <2>4, <2>7, <3>1
    <3>. QED BY <2>3, <2>7, <3>2 DEF IsLast
  <2>. QED BY <2>5, <2>6, <2>7
<1>. QED BY <1>4, <1>6, <1>7

\* rightIdx holds the first valid cell from each on.
LEMMA RightScan ==
  ASSUME NEW n \in Nat, NEW valid \in SUBSET (1..n), NEW i \in 1..(n + 1)
  PROVE  IsFirst(valid, i, RightIdx(valid, n)[i])
<1> DEFINE Scans(f) ==
      f = [j \in 1..(n + 1) |-> IF j > n THEN 0 ELSE IF j \in valid THEN j ELSE f[j + 1]]
<1>1. PICK g : g = [j \in 1..(n + 1) |-> CHOOSE k \in 0..n : IsFirst(valid, j, k)] OBVIOUS
<1>2. \A j \in 1..(n + 1) : g[j] \in 0..n /\ IsFirst(valid, j, g[j])
  BY <1>1, FirstIs
<1>3. Scans(g)
  <2>1. ASSUME NEW j \in 1..(n + 1)
        PROVE  g[j] = IF j > n THEN 0 ELSE IF j \in valid THEN j ELSE g[j + 1]
    <3>1. IsFirst(valid, j, g[j]) /\ g[j] \in 0..n BY <1>2
    <3>2. CASE j > n BY <3>1, <3>2 DEF IsFirst
    <3>3. CASE j \in valid BY <3>1, <3>3 DEF IsFirst
    <3>4. CASE ~(j > n) /\ j \notin valid
      <4>1. j + 1 \in 1..(n + 1) BY <3>4
      <4>2. IsFirst(valid, j + 1, g[j + 1]) /\ g[j + 1] \in 0..n BY <1>2, <4>1
      <4>3. \A m \in valid : m \in 1..n /\ (m >= j <=> m >= j + 1) BY <3>4
      <4>. QED BY <3>1, <3>4, <4>2, <4>3 DEF IsFirst
    <3>. QED BY <3>2, <3>3, <3>4
  <2>. QED BY <1>1, <2>1
<1>4. PICK right : right = RightIdx(valid, n) OBVIOUS
<1>5. Scans(right)
  <2>1. right = CHOOSE f : Scans(f) BY <1>4 DEF RightIdx
  <2>. HIDE DEF Scans
  <2>. QED BY <1>3, <2>1
<1>6. PICK T : T = {d \in 0..n : ~IsFirst(valid, n + 1 - d, right[n + 1 - d])} OBVIOUS
<1>7. ASSUME T # {} PROVE FALSE
  <2>1. T \in SUBSET Nat BY <1>6
  <2>2. PICK d \in T : \A k \in T : d <= k BY <1>7, <2>1, LeastNatural
  <2>3. PICK j : j = n + 1 - d OBVIOUS
  <2>4. j \in 1..(n + 1) /\ ~IsFirst(valid, j, right[j]) BY <1>6, <2>2, <2>3
  <2>5. right[j] = IF j > n THEN 0 ELSE IF j \in valid THEN j ELSE right[j + 1]
    BY <1>5, <2>4
  <2>6. CASE j > n BY <2>4, <2>5, <2>6 DEF IsFirst
  <2>7. CASE ~(j > n) /\ j \in valid BY <2>4, <2>5, <2>7 DEF IsFirst
  <2>8. CASE ~(j > n) /\ j \notin valid
    <3>1. d - 1 \in 0..n /\ d - 1 \notin T BY <1>6, <2>2, <2>3, <2>8
    <3>2. n + 1 - (d - 1) = j + 1 BY <1>6, <2>2, <2>3
    <3>3. IsFirst(valid, j + 1, right[j + 1]) /\ right[j] = right[j + 1]
      BY <1>6, <2>5, <2>8, <3>1, <3>2
    <3>4. \A m \in valid : m \in 1..n /\ (m >= j <=> m >= j + 1) BY <2>4, <2>8
    <3>5. \A m \in valid : m < j + 1 => m < j BY <2>4, <2>8, <3>4
    <3>6. IsFirst(valid, j, right[j + 1])
      <4>1. PICK k : k = right[j + 1] OBVIOUS
      <4>2. CASE k = 0 /\ \A m \in valid : m < j + 1 BY <3>5, <4>1, <4>2 DEF IsFirst
      <4>3. CASE k \in valid /\ k >= j + 1 /\ \A m \in valid : m >= j + 1 => k <= m
        BY <3>4, <4>1, <4>3 DEF IsFirst
      <4>. QED BY <3>3, <4>1, <4>2, <4>3 DEF IsFirst
    <3>. QED BY <2>4, <3>3, <3>6
  <2>. QED BY <2>6, <2>7, <2>8
<1>8. i \in 1..(n + 1) /\ n + 1 - i \in 0..n /\ n + 1 - (n + 1 - i) = i OBVIOUS
<1>. QED BY <1>4, <1>6, <1>7, <1>8

Far(i, j) == IF j < i THEN i - j ELSE j - i

\* The cell that fillGaps() takes a level from is the nearest valid one.
LEMMA SourceIsNearest ==
  ASSUME NEW n \in Nat, NEW valid \in SUBSET (1..n), valid # {}, NEW i \in 1..n,
         NEW l, NEW r, IsLast(valid, i, l), IsFirst(valid, i, r)
  PROVE  /\ Source(l, r, i) \in valid
         /\ \A k \in valid : \/ Far(i, Source(l, r, i)) < Far(i, k)
                             \/ /\ Far(i, Source(l, r, i)) = Far(i, k)
                                /\ Source(l, r, i) <= k
<1>0. \A k \in valid : k \in 1..n OBVIOUS
<1>1. CASE l = 0
  <2>0. \A m \in valid : m > i BY <1>0, <1>1 DEF IsLast
  <2>1. r \in valid /\ r >= i /\ \A m \in valid : m >= i /\ r <= m
    <3>1. PICK m \in valid : TRUE OBVIOUS
    <3>2. m \in 1..n /\ ~(m < i) BY <1>0, <2>0
    <3>3. r \in valid /\ r >= i /\ \A k \in valid : k >= i => r <= k BY <3>2 DEF IsFirst
    <3>. QED BY <1>0, <2>0, <3>3
  <2>. QED BY <1>0, <1>1, <2>1 DEF Source, Far
<1>2. CASE l # 0 /\ r = 0
  <2>1. l \in valid /\ l <= i /\ \A m \in valid : m < i /\ m <= l
    BY <1>0, <1>2 DEF IsLast, IsFirst
  <2>. QED BY <1>0, <1>2, <2>1 DEF Source, Far
<1>3. CASE l # 0 /\ r # 0
  <2>1. /\ l \in valid /\ l <= i /\ r \in valid /\ r >= i
        /\ \A m \in valid : (m <= i => m <= l) /\ (m >= i => r <= m)
    BY <1>0, <1>3 DEF IsLast, IsFirst
  <2>2. ASSUME NEW k \in valid
        PROVE  \/ Far(i, Source(l, r, i)) < Far(i, k)
               \/ /\ Far(i, Source(l, r, i)) = Far(i, k)
                  /\ Source(l, r, i) <= k
    <3>1. (k <= i /\ k <= l) \/ (k > i /\ r <= k) BY <1>0, <2>1
    <3>2. l \in 1..n /\ r \in 1..n /\ k \in 1..n BY <1>0, <2>1
    <3>3. CASE Nearer(l, r, i) BY <1>3, <2>1, <3>1, <3>2, <3>3 DEF Source, Far, Nearer
    <3>4. CASE ~Nearer(l, r, i) BY <1>3, <2>1, <3>1, <3>2, <3>4 DEF Source, Far, Nearer
    <3>. QED BY <3>3, <3>4
  <2>. QED BY <1>3, <2>1, <2>2 DEF Source
<1>. QED BY <1>1, <1>2, <1>3

\* fillGaps() gives each cell the level of the nearest valid cell, the lower of
\* two, for a sweep of any length with any holes.
THEOREM GapsAreNearest ==
  ASSUME NEW values \in Seq(Int), NEW mask, ValidCells(values, mask) # {}
  PROVE  FillGaps(values, mask) =
           [i \in 1..Len(values) |-> values[NearestValid(values, mask, i)]]
<1>0. PICK n \in Nat : n = Len(values) OBVIOUS
<1>1. PICK valid : n = Len(values) /\ valid = ValidCells(values, mask) BY <1>0
<1>2. valid \in SUBSET (1..n) /\ valid # {} /\ \A m \in valid : m \in 1..n
  BY <1>1 DEF ValidCells
<1>3. PICK left, right : left = LeftIdx(valid, n) /\ right = RightIdx(valid, n) OBVIOUS
<1>4. left[n] # 0
  <2>1. IsLast(valid, n, left[n]) BY <1>2, <1>3, LeftScan
  <2>2. PICK m \in valid : m \in 1..n BY <1>2
  <2>3. ~(m <= 0) /\ m <= n BY <2>2
  <2>. QED BY <2>1, <2>2, <2>3 DEF IsLast
<1>5. FillGaps(values, mask) = [i \in 1..n |-> values[Source(left[i], right[i], i)]]
  BY <1>1, <1>3, <1>4 DEF FillGaps
<1>6. ASSUME NEW i \in 1..n PROVE NearestValid(values, mask, i) = Source(left[i], right[i], i)
  <2>0. PICK l, r : l = left[i] /\ r = right[i] OBVIOUS
  <2>1. IsLast(valid, i, l) /\ IsFirst(valid, i, r)
    <3>1. i \in 0..n /\ i \in 1..(n + 1) OBVIOUS
    <3>. QED BY <1>2, <1>3, <2>0, <3>1, LeftScan, RightScan
  <2>2. PICK s : s = Source(l, r, i) OBVIOUS
  <2>3. s \in valid /\ \A k \in valid : Far(i, s) < Far(i, k) \/ (Far(i, s) = Far(i, k) /\ s <= k)
    <3>1. /\ Source(l, r, i) \in valid
          /\ \A k \in valid : \/ Far(i, Source(l, r, i)) < Far(i, k)
                              \/ /\ Far(i, Source(l, r, i)) = Far(i, k)
                                 /\ Source(l, r, i) <= k
      BY <1>2, <2>1, SourceIsNearest
    <3>. QED BY <2>2, <3>1
  <2>4. NearestValid(values, mask, i) =
          CHOOSE j \in valid : \A k \in valid :
            Far(i, j) < Far(i, k) \/ (Far(i, j) = Far(i, k) /\ j <= k)
    BY <1>1 DEF NearestValid, Far
  <2>5. ASSUME NEW j \in valid,
               \A k \in valid : Far(i, j) < Far(i, k) \/ (Far(i, j) = Far(i, k) /\ j <= k)
        PROVE  j = s
    <3>1. Far(i, j) \in Int /\ Far(i, s) \in Int /\ j \in 1..n /\ s \in 1..n
      BY <1>2, <2>3 DEF Far
    <3>2. Far(i, j) < Far(i, s) \/ (Far(i, j) = Far(i, s) /\ j <= s) BY <2>3, <2>5
    <3>3. Far(i, s) < Far(i, j) \/ (Far(i, j) = Far(i, s) /\ s <= j) BY <2>3
    <3>. QED BY <3>1, <3>2, <3>3
  <2>. QED BY <2>0, <2>2, <2>3, <2>4, <2>5
<1>. QED BY <1>1, <1>5, <1>6

-----------------------------------------------------------------------------
(* The trace.                                                              *)

\* A sweep without a valid cell has no levels at all.
LEMMA NothingIsFilled ==
  ASSUME NEW values \in Seq(Int), NEW mask, ValidCells(values, mask) = {}
  PROVE  FillGaps(values, mask) = <<>>
<1>0. PICK n \in Nat : n = Len(values) OBVIOUS
<1>1. PICK valid : n = Len(values) /\ valid = ValidCells(values, mask) BY <1>0
<1>2. PICK left : left = LeftIdx(valid, n) OBVIOUS
<1>3. IsLast(valid, n, left[n])
  <2>1. valid \in SUBSET (1..n) /\ n \in 0..n BY <1>1
  <2>. QED BY <1>2, <2>1, LeftScan
<1>4. left[n] = 0 BY <1>1, <1>3 DEF IsLast
<1>. QED BY <1>1, <1>2, <1>4 DEF FillGaps

\* A sweep that fits its grid and has a measured cell is drawn with the points
\* that nativeGeometry() promised, each the strongest (or weakest) level among
\* the cells that the reconstructed axis gives to it; one that has none is not
\* drawn.  For every grid, sweep and mask (plan.js:127-133 and 149-152).
THEOREM TraceIsMeasured ==
  ASSUME NEW grid, IsGrid(grid), MaxPoints >= 2,
         NEW kDbm \in Int, NEW values \in Seq(Int), Len(values) = grid.binCount,
         NEW mask, NEW reducer
  PROVE  LET drawn == TraceToPoints(kDbm, values, mask, NativeGeometry(grid), reducer)
         IN IF ValidCells(values, mask) = {} THEN drawn = <<>>
            ELSE PointsAreOf(grid, kDbm, values, mask, reducer, drawn)
<1>1. PICK g, n, f, c : /\ g = NativeGeometry(grid) /\ n = grid.binCount
                        /\ f = g.factor /\ c = g.pointCount
  OBVIOUS
<1>2. /\ n \in Nat /\ n >= 2 /\ f \in Nat \ {0} /\ c \in 2..MaxPoints
      /\ c = CeilDiv(n, f)
  BY <1>1, PointsFit DEF IsGrid
<1>3. PICK filled : filled = FillGaps(values, mask) OBVIOUS
<1>4. CASE ValidCells(values, mask) = {}
  <2>1. filled = <<>> BY <1>3, <1>4, NothingIsFilled
  <2>. QED BY <1>3, <1>4, <2>1 DEF TraceToPoints
<1>5. CASE ValidCells(values, mask) # {}
  <2>1. filled = [i \in 1..n |-> values[NearestValid(values, mask, i)]]
    BY <1>1, <1>3, <1>5, GapsAreNearest
  <2>2. filled # <<>>
    <3>1. 1 \in DOMAIN filled BY <1>2, <2>1
    <3>. QED BY <3>1
  <2>3. PICK dbm : dbm = [i \in DOMAIN filled |-> filled[i] + kDbm] OBVIOUS
  <2>4. PICK Level : Level = [i \in 1..n |-> values[NearestValid(values, mask, i)] + kDbm]
    OBVIOUS
  <2>5. dbm = Level BY <2>1, <2>3, <2>4
  <2>6. Len(dbm) = n BY <1>2, <2>4, <2>5
  <2>7. PICK drawn : drawn = Decimate(dbm, f, reducer) OBVIOUS
  <2>8. PICK Block : Block = [j \in 1..c |->
                       {dbm[i] : i \in (f * (j - 1) + 1)..Smaller(n, f * j)}]
    OBVIOUS
  <2>9. drawn = [j \in 1..c |->
                    Round1(IF reducer = "min" THEN Min(Block[j]) ELSE Max(Block[j]))]
    BY <1>2, <2>6, <2>7, <2>8 DEF Decimate
  <2>10. Len(drawn) = c BY <1>2, <2>9
  <2>11. TraceToPoints(kDbm, values, mask, g, reducer) = drawn
    BY <1>1, <1>3, <2>2, <2>3, <2>7, <2>10 DEF TraceToPoints
  <2>12. ASSUME NEW j \in 1..c
         PROVE  Block[j] = {values[NearestValid(values, mask, i)] + kDbm :
                              i \in CellsOf(grid, g, j)}
    <3>1. CellsOf(grid, g, j) = (f * (j - 1) + 1)..Smaller(n, f * j)
      BY <1>1, CellsAreBlock
    <3>2. CellsOf(grid, g, j) \subseteq 1..n BY <1>1 DEF CellsOf
    <3>3. Block[j] = {dbm[i] : i \in CellsOf(grid, g, j)} BY <2>8, <3>1
    <3>4. \A i \in CellsOf(grid, g, j) :
            dbm[i] = values[NearestValid(values, mask, i)] + kDbm
      BY <2>4, <2>5, <3>2
    <3>. QED BY <3>3, <3>4
  <2>13. PointsAreOf(grid, kDbm, values, mask, reducer, drawn)
    <3>1. ASSUME NEW j \in 1..c
          PROVE  LET Levels == {values[NearestValid(values, mask, i)] + kDbm :
                                  i \in CellsOf(grid, g, j)}
                 IN drawn[j] = Round1(IF reducer = "min" THEN Min(Levels) ELSE Max(Levels))
      BY <2>9, <2>12
    <3>. QED BY <1>1, <2>10, <3>1 DEF PointsAreOf
  <2>. QED BY <1>1, <1>5, <2>11, <2>13
<1>. QED BY <1>4, <1>5

-----------------------------------------------------------------------------
(* The points of a sweep.                                                  *)

\* The grid a frame was measured on has the frame's cells.
LEMMA GridOfFrame ==
  ASSUME NEW f, f.binCount \in Nat, f.binCount >= 2
  PROVE  IsGrid(GridOf(f)) /\ GridOf(f).binCount = f.binCount
<1>1. PICK b, M, p, from, to : /\ b = f.binCount /\ M = MaxStepHz /\ p = M * (b - 2)
                               /\ from = p + 1 /\ to = M - 1
  OBVIOUS
<1>2. b \in Nat /\ b >= 2 /\ M \in Nat \ {0} BY <1>1, GeometryAssumption
<1>3. p \in Nat /\ M * (b - 1) = p + M
  <2>1. b - 2 \in Nat /\ b - 1 = (b - 2) + 1 BY <1>2
  <2>. QED BY <1>1, <1>2, <2>1
<1>4. from \in Int /\ to \in Int BY <1>1, <1>2, <1>3
<1>5. PICK grid : grid = SnapToGrid(from, to, M) OBVIOUS
<1>6. IsGrid(grid)
  <2>1. IsGrid(SnapToGrid(from, to, M)) BY <1>2, <1>4, GridCoversSpan
  <2>. QED BY <1>5, <2>1
<1>7. PICK lo, hi, q, c : /\ lo = Smaller(from, to) /\ hi = Larger(from, to)
                          /\ q = lo \div M /\ c = CeilDiv(hi, M)
  OBVIOUS
<1>8. /\ lo \in Int /\ hi \in Int /\ 0 <= lo /\ lo < M
      /\ p < hi /\ hi <= p + M
  BY <1>1, <1>2, <1>3, <1>4, <1>7 DEF Smaller, Larger
<1>9. q = 0
  <2>1. q \in Int /\ M * q <= lo /\ lo < M * q + M BY <1>2, <1>7, <1>8, DivBounds
  <2>2. M * q < M * 1 /\ M * 0 < M * (q + 1)
    <3>1. M * (q + 1) = M * q + M /\ M * 1 = M /\ M * 0 = 0 BY <1>2, <2>1
    <3>. QED BY <1>2, <1>8, <2>1, <3>1
  <2>3. q < 1 /\ 0 < q + 1
    <3>1. q + 1 \in Int BY <2>1
    <3>. QED BY <1>2, <2>1, <2>2, <3>1, MulMono
  <2>. QED BY <2>1, <2>3
<1>10. c = b - 1
  <2>1. c \in Int /\ hi <= M * c /\ M * c < hi + M BY <1>2, <1>7, <1>8, CeilBounds
  <2>2. M * (b - 2) < M * c
    <3>1. PICK m \in Int : m = M * c BY <1>2, <2>1
    <3>2. p < m BY <1>3, <1>8, <2>1, <3>1
    <3>. QED BY <1>1, <3>1, <3>2
  <2>3. M * c < M * b
    <3>1. M * b = p + M + M
      <4>1. b = (b - 1) + 1 /\ b - 1 \in Nat BY <1>2
      <4>2. M * ((b - 1) + 1) = M * (b - 1) + M BY <1>2, <4>1
      <4>. QED BY <1>2, <1>3, <4>1, <4>2
    <3>. QED BY <1>2, <1>3, <1>8, <2>1, <3>1
  <2>4. b - 2 < c /\ c < b
    <3>1. b - 2 \in Int /\ b \in Int BY <1>2
    <3>. QED BY <1>2, <2>1, <2>2, <2>3, <3>1, MulMono
  <2>. QED BY <1>2, <2>1, <2>4
<1>11. c \in Nat \ {0} /\ c * M > 0 /\ (c * M) \div M = c
  <2>1. c \in Nat \ {0} /\ c \in Int BY <1>2, <1>10
  <2>2. c * M > 0 BY <1>2, <2>1
  <2>. QED BY <1>2, <2>1, <2>2, MulDiv
<1>12. grid.binCount = c + 1
  <2>1. Smaller(M, M) = M BY <1>2 DEF Smaller
  <2>2. 0 * M = 0 BY <1>2
  <2>3. PICK e \in Int : e = c * M BY <1>2, <1>11
  <2>4. grid.binCount = (e - 0) \div M + 1
    <3>1. e > 0 /\ q * M = 0 /\ ~(e <= q * M) BY <1>9, <1>11, <2>2, <2>3
    <3>2. SnapToGrid(from, to, M) =
            [startHz |-> q * M, stopHz |-> IF e <= q * M THEN q * M + M ELSE e, stepHz |-> M,
             binCount |-> ((IF e <= q * M THEN q * M + M ELSE e) - q * M) \div M + 1]
      BY <1>1, <1>7, <2>1, <2>3 DEF SnapToGrid
    <3>. QED BY <1>5, <3>1, <3>2
  <2>5. e - 0 = e BY <2>3
  <2>. QED BY <1>11, <2>3, <2>4, <2>5
<1>13. GridOf(f) = grid BY <1>1, <1>5 DEF GridOf
<1>. QED BY <1>1, <1>2, <1>6, <1>10, <1>12, <1>13

Completes == {f \in SentFrames : f.msgType = Complete}

LEMMA SweepsAreComplete ==
  ASSUME NEW fs \in Seq(SentFrames) PROVE Sweeps(fs) \in Seq(Completes)
<1>1. \A f \in SentFrames : SweepOf(f) \in Seq(Completes)
  <2>1. ASSUME NEW f \in SentFrames PROVE SweepOf(f) \in Seq(Completes)
    <3>1. CASE f.msgType = Complete
      <4>1. f \in Completes BY <3>1 DEF Completes
      <4>2. <<f>> \in Seq(Completes) BY <4>1
      <4>. QED BY <3>1, <4>2 DEF SweepOf
    <3>2. CASE f.msgType # Complete BY <3>2 DEF SweepOf
    <3>. QED BY <3>1, <3>2
  <2>. QED BY <2>1
<1>2. Maps(SweepsOf, SentFrames, Completes) BY <1>1 DEF Maps, SweepsOf
<1>3. FlatMap(SweepsOf, fs) \in Seq(Completes) BY <1>2, FlatMapType
<1>. QED BY <1>3, SweepsMap

\* A complete frame has two cells or more, in every trace.
LEMMA CompleteIs ==
  ASSUME NEW f \in Completes
  PROVE  /\ f.binCount \in Nat /\ f.binCount >= 2 /\ f.kDbm \in Int
         /\ f.traces \in Seq(TracesOf(f.binCount))
<1>1. PICK q \in Sendable : f = q.frame BY DEF Completes, SentFrames
<1>2. IsFrame(f) BY <1>1, FrameIs
<1>3. ~IsJsonType(f.msgType) BY DEF Completes, IsJsonType, Complete, Status, Log
<1>. QED BY <1>2, <1>3 DEF IsFrame

\* The live trace, if there is one, has a level for each cell.
LEMMA LiveIs ==
  ASSUME NEW f \in Completes, NEW det, NEW live, live = LiveTrace(f, det)
  PROVE  live = <<>> \/ \E t : /\ live = <<t>> /\ t.values \in Seq(Int)
                               /\ Len(t.values) = f.binCount
<1>1. PICK ts, b, n : ts = f.traces /\ b = f.binCount /\ n = Len(ts) OBVIOUS
<1>2. ts \in Seq(TracesOf(b)) /\ n \in Nat /\ DOMAIN ts = 1..n BY <1>1, CompleteIs
<1>3. PICK V : V = {i \in DOMAIN ts : IsValue(ts[i])} OBVIOUS
<1>4. PICK w, u : /\ w = {i \in V : ts[i].kind = LiveKindForDetector[det]}
                  /\ u = {i \in V : ts[i].kind <= LivePeak}
  OBVIOUS
<1>5. PICK S : S = IF w # {} THEN w ELSE IF u # {} THEN u ELSE V OBVIOUS
<1>6. live = FirstOf(ts, S) BY <1>1, <1>3, <1>4, <1>5 DEF LiveTrace
<1>7. S \subseteq V /\ V \in SUBSET Nat /\ S \in SUBSET Nat
  <2>1. S \subseteq V BY <1>4, <1>5
  <2>2. V \in SUBSET Nat BY <1>2, <1>3
  <2>. QED BY <2>1, <2>2
<1>8. CASE S = {} BY <1>6, <1>8 DEF FirstOf
<1>9. CASE S # {}
  <2>1. PICK i \in S : \A j \in S : i <= j BY <1>7, <1>9, LeastNatural
  <2>2. Min(S) \in S BY <2>1 DEF Min
  <2>3. PICK m : m = Min(S) OBVIOUS
  <2>4. m \in V BY <1>7, <2>2, <2>3
  <2>5. PICK t : t = ts[m] OBVIOUS
  <2>6. m \in 1..n /\ IsValue(t) BY <1>2, <1>3, <2>4, <2>5
  <2>7. t \in TracesOf(b) BY <1>1, <1>2, <2>5, <2>6
  <2>8. t \in TraceSet /\ Len(Cells(t)) = b /\ t.kind # Mask
    BY <2>6, <2>7 DEF TracesOf, IsValue
  <2>9. t.values \in Seq(0..(Base * Base - 1)) /\ Cells(t) = t.values
    BY <2>8 DEF TraceSet, Cells
  <2>10. t.values \in Seq(Int)
    <3>1. PICK v, D : v = t.values /\ D = 0..(Base * Base - 1) OBVIOUS
    <3>2. D \subseteq Int BY <3>1
    <3>3. v \in Seq(D) BY <2>9, <3>1
    <3>4. v \in Seq(Int) BY <3>2, <3>3, SeqMonotonic
    <3>. QED BY <3>1, <3>4
  <2>11. live = <<t>> BY <1>6, <1>9, <2>3, <2>5 DEF FirstOf
  <2>. QED BY <1>1, <2>8, <2>9, <2>10, <2>11
<1>. QED BY <1>8, <1>9

IsDrawn(f, det, drawn) ==
  LET live == LiveTrace(f, det)
      drawable == live # <<>> /\ \E j \in 1..f.binCount :
                                   IsValid(Head(live).values, MaskOf(f), j)
  IN IF drawable
     THEN PointsAreOf(GridOf(f), f.kDbm, Head(live).values, MaskOf(f), ReducerFor(det), drawn)
     ELSE drawn = <<>>

LEMMA FrameIsDrawn ==
  ASSUME NEW f \in Completes, NEW det PROVE IsDrawn(f, det, PointsOf(f, det))
<1>1. PICK live, mask, grid, red, b, k :
        /\ live = LiveTrace(f, det) /\ mask = MaskOf(f) /\ grid = GridOf(f)
        /\ red = ReducerFor(det) /\ b = f.binCount /\ k = f.kDbm
  OBVIOUS
<1>2. CASE live = <<>>
  <2>1. PointsOf(f, det) = <<>> BY <1>1, <1>2 DEF PointsOf
  <2>. QED BY <1>1, <1>2, <2>1 DEF IsDrawn
<1>3. CASE live # <<>>
  <2>1. PICK t : live = <<t>> /\ t.values \in Seq(Int) /\ Len(t.values) = b
    BY <1>1, <1>3, LiveIs
  <2>2. PICK v : v = t.values OBVIOUS
  <2>3. Head(live).values = v /\ v \in Seq(Int) /\ Len(v) = b BY <2>1, <2>2
  <2>4. /\ b \in Nat /\ IsGrid(grid) /\ grid.binCount = b /\ k \in Int /\ MaxPoints >= 2
    BY <1>1, CompleteIs, GridOfFrame, StreamAssumption
  <2>5. PICK p : p = TraceToPoints(k, v, mask, NativeGeometry(grid), red) OBVIOUS
  <2>6. IF ValidCells(v, mask) = {} THEN p = <<>> ELSE PointsAreOf(grid, k, v, mask, red, p)
    BY <2>3, <2>4, <2>5, TraceIsMeasured
  <2>7. PointsOf(f, det) = p BY <1>1, <1>3, <2>3, <2>5 DEF PointsOf
  <2>8. ValidCells(v, mask) # {} <=> \E j \in 1..b : IsValid(v, mask, j)
    <3>1. DOMAIN v = 1..b BY <2>3
    <3>. QED BY <3>1 DEF ValidCells
  <2>. QED BY <1>1, <1>3, <2>3, <2>6, <2>7, <2>8 DEF IsDrawn
<1>. QED BY <1>2, <1>3

\* Every sweep handed on is drawn with the points that were promised, each a level
\* measured in its own cells, or not at all if none was (plan.js:127-133).
THEOREM SweepsAreMeasured == Spec => []PointsAreMeasured
<1>1. ASSUME StreamInv PROVE PointsAreMeasured
  <2>1. PICK recs, s, det : recs = stream /\ s = Now /\ det = detector OBVIOUS
  <2>2. recs \in Seq(Sendable) BY <1>1, <2>1, StreamIsSendable DEF StreamInv
  <2>3. PICK k \in 0..Len(recs) : Ended(recs, onWire, det, s, k) \/ Reading(recs, onWire, det, s, k)
    BY <1>1, <2>1 DEF StreamInv, Settled
  <2>4. Handled(recs, det, s, k) BY <2>3 DEF Ended, Reading
  <2>5. s.seen = seen /\ s.points = points BY <2>1 DEF Now
  <2>6. PICK S : S = Sweeps(seen) OBVIOUS
  <2>7. /\ seen = GoodFrames(SubSeq(recs, 1, k))
        /\ points = [i \in 1..Len(S) |-> PointsOf(S[i], det)]
    BY <2>4, <2>5, <2>6 DEF Handled
  <2>8. S \in Seq(Completes)
    <3>1. seen \in Seq(SentFrames) BY <2>2, <2>7, GoodType
    <3>. QED BY <2>6, <3>1, SweepsAreComplete
  <2>9. Len(S) \in Nat /\ \A i \in 1..Len(S) : S[i] \in Completes BY <2>8
  <2>10. Len(points) = Len(S) /\ DOMAIN points = 1..Len(S) BY <2>7, <2>9
  <2>11. ASSUME NEW i \in DOMAIN points PROVE IsDrawn(S[i], detector, points[i])
    <3>1. i \in 1..Len(S) /\ S[i] \in Completes BY <2>9, <2>10
    <3>2. points[i] = PointsOf(S[i], det) BY <2>7, <3>1
    <3>3. IsDrawn(S[i], det, PointsOf(S[i], det)) BY <3>1, FrameIsDrawn
    <3>. QED BY <2>1, <3>2, <3>3
  <2>. QED BY <2>6, <2>10, <2>11 DEF PointsAreMeasured, IsDrawn
<1>2. StreamInv => PointsAreMeasured BY <1>1
<1>. QED BY <1>2, StreamIsKept, PTL
=============================================================================
