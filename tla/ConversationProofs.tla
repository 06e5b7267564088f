-------------------------- MODULE ConversationProofs --------------------------
(***************************************************************************)
(* What every request of a conversation holds, for all system prompts, tool *)
(* sets, results and replies, and conversations of any length.             *)
(*                                                                         *)
(* The loops of the translation run over sequences, so the proofs go by    *)
(* induction on them: a loop is the function it takes along a sequence     *)
(* (Hom), and one more element adds its piece.  The invariant then says    *)
(* what the history would be for the upstream (Upstream), in every state   *)
(* and not only when it is sent.                                           *)
(***************************************************************************)
EXTENDS Conversation, SequenceTheorems, WellFoundedInduction, TLAPS

-----------------------------------------------------------------------------
(* Induction and recursion, on sets in place of operators.                 *)

\* The order of the numbers, as a set.
Less == {p \in Nat \X Nat : p[1] < p[2]}

\* The numbers descend to a least one.
LEMMA LessIsWellFounded == IsWellFoundedOn(Less, Nat)
  BY NatLessThanWellFounded, Zenon DEF OpToRel, Less

\* A set that holds 0 and the successor of each number it holds holds all of Nat.
LEMMA Induction ==
  ASSUME NEW S, 0 \in S, \A n \in Nat : n \in S => n + 1 \in S
  PROVE  \A n \in Nat : n \in S
<1> DEFINE T == Nat \ S
<1>1. SUFFICES ASSUME T # {} PROVE FALSE
  OBVIOUS
<1> HIDE DEF T
<1>2. T \subseteq Nat
  BY DEF T
<1>3. PICK x \in T : \A y \in T : ~ (<<y, x>> \in Less)
  BY <1>1, <1>2, LessIsWellFounded, WFMin
<1>4. x \in Nat /\ x # 0 /\ x \notin S
  BY <1>2, <1>3 DEF T
<1>5. x - 1 \in Nat /\ x - 1 < x /\ (x - 1) + 1 = x
  BY <1>4
<1>6. x - 1 \in T
  BY <1>4, <1>5 DEF T
<1>7. <<x - 1, x>> \in Less
  BY <1>4, <1>5 DEF Less
<1> QED
  BY <1>3, <1>6, <1>7

\* f starts with first, and goes on with step for n steps.
Steps(f, first, n, step) == f[0] = first /\ \A k \in 1 .. n : f[k] = step[<<f[k - 1], k>>]

\* Primitive recursion: there is such a function.
LEMMA Recursion ==
  ASSUME NEW V, NEW first \in V, NEW n \in Nat, NEW step \in [V \X (1 .. n) -> V]
  PROVE  \E f \in [0 .. n -> V] : Steps(f, first, n, step)
<1> DEFINE Fits(m, f) == f[0] = first /\ \A k \in 1 .. m : f[k] = step[<<f[k - 1], k>>]
           S == {m \in Nat : m <= n => \E f \in [0 .. m -> V] : Fits(m, f)}
<1>1. 0 \in S
  <2>1. [k \in 0 .. 0 |-> first] \in [0 .. 0 -> V] /\ Fits(0, [k \in 0 .. 0 |-> first])
    OBVIOUS
  <2> QED
    BY <2>1
<1>2. ASSUME NEW m \in Nat, m \in S PROVE m + 1 \in S
  <2> SUFFICES ASSUME m + 1 <= n PROVE \E f \in [0 .. m + 1 -> V] : Fits(m + 1, f)
    OBVIOUS
  <2>1. PICK f \in [0 .. m -> V] : Fits(m, f)
    BY <1>2
  <2> DEFINE g == [k \in 0 .. m + 1 |-> IF k = m + 1 THEN step[<<f[m], m + 1>>] ELSE f[k]]
  <2>2. m + 1 \in 1 .. n /\ f[m] \in V
    OBVIOUS
  <2>3. step[<<f[m], m + 1>>] \in V
    BY <2>2
  <2>4. g \in [0 .. m + 1 -> V]
    BY <2>3
  <2>5. g[m + 1] = step[<<f[m], m + 1>>] /\ \A k \in 0 .. m : g[k] = f[k]
    OBVIOUS
  <2> HIDE DEF g
  <2>6. g[0] = first
    BY <2>1, <2>5
  <2>7. ASSUME NEW k \in 1 .. m + 1 PROVE g[k] = step[<<g[k - 1], k>>]
    <3>1. CASE k = m + 1
      <4>1. k - 1 = m /\ m \in 0 .. m
        BY <3>1
      <4> QED
        BY <2>5, <3>1, <4>1
    <3>2. CASE k # m + 1
      <4>1. k \in 1 .. m /\ k - 1 \in 0 .. m /\ k \in 0 .. m
        BY <3>2
      <4> QED
        BY <2>1, <2>5, <4>1
    <3> QED
      BY <3>1, <3>2
  <2> QED
    BY <2>4, <2>6, <2>7
<1>3. n \in S
  <2> HIDE DEF S
  <2> QED
    BY <1>1, <1>2, Induction
<1> QED
  BY <1>3 DEF Steps

-----------------------------------------------------------------------------
(* What FlattenSeq gives.                                                  *)

\* The prefixes of ss, joined.
Joins(f, ss) ==
  /\ DOMAIN f = 1 .. Len(ss)
  /\ f[1] = ss[1]
  /\ \A k \in 2 .. Len(ss) : f[k] = f[k - 1] \o ss[k]

\* What FlattenSeq gives is the last of the joined prefixes.
LEMMA FlattenIsLast ==
  ASSUME NEW V, NEW ss \in Seq(Seq(V)), Len(ss) # 0,
         NEW f \in [1 .. Len(ss) -> Seq(V)], Joins(f, ss)
  PROVE  FlattenSeq(ss) = f[Len(ss)]
<1> DEFINE n == Len(ss)
           Equation(h) == h = [i \in 1 .. n |-> IF i = 1 THEN ss[i] ELSE h[i - 1] \o ss[i]]
           h == CHOOSE h : Equation(h)
<1>1. n \in Nat /\ n # 0
  OBVIOUS
<1>2. Equation(f)
  <2>1. ASSUME NEW i \in 1 .. n PROVE f[i] = IF i = 1 THEN ss[i] ELSE f[i - 1] \o ss[i]
    <3>1. i # 1 => i \in 2 .. n
      BY <1>1
    <3> QED
      BY <3>1 DEF Joins
  <2> QED
    BY <2>1
<1>3. Equation(h)
  <2> HIDE DEF Equation
  <2> QED
    BY <1>2
<1>4. FlattenSeq(ss) = h[n]
  BY DEF FlattenSeq
<1> HIDE DEF h
<1>5. \A i \in 1 .. n : h[i] = IF i = 1 THEN ss[i] ELSE h[i - 1] \o ss[i]
  BY <1>3
<1> HIDE DEF Equation, n
<1> DEFINE S == {k \in Nat : k \in 1 .. n => h[k] = f[k]}
<1>6. 0 \in S
  BY <1>1
<1>7. ASSUME NEW k \in Nat, k \in S PROVE k + 1 \in S
  <2> SUFFICES ASSUME k + 1 \in 1 .. n PROVE h[k + 1] = f[k + 1]
    OBVIOUS
  <2>1. CASE k = 0
    <3>1. k + 1 = 1
      BY <2>1
    <3>2. h[1] = ss[1] /\ f[1] = ss[1]
      BY <1>5, <2>1 DEF Joins
    <3> QED
      BY <3>1, <3>2
  <2>2. CASE k # 0
    <3>1. k \in 1 .. n /\ k + 1 \in 2 .. n /\ k + 1 # 1 /\ (k + 1) - 1 = k
      BY <1>1, <2>2
    <3>2. h[k] = f[k]
      BY <1>7, <3>1
    <3>3. h[k + 1] = h[k] \o ss[k + 1]
      BY <1>5, <3>1
    <3>4. f[k + 1] = f[k] \o ss[k + 1]
      BY <3>1 DEF Joins, n
    <3> QED
      BY <3>2, <3>3, <3>4
  <2> QED
    BY <2>1, <2>2
<1>8. n \in S
  <2> HIDE DEF S
  <2> QED
    BY <1>1, <1>6, <1>7, Induction
<1>9. h[n] = f[n]
  BY <1>1, <1>8
<1> QED
  BY <1>4, <1>9 DEF n

\* The prefixes can be joined: FlattenSeq is defined.
LEMMA JoinsExist ==
  ASSUME NEW V, NEW ss \in Seq(Seq(V)), Len(ss) # 0
  PROVE  \E f \in [1 .. Len(ss) -> Seq(V)] : Joins(f, ss)
<1> DEFINE n == Len(ss)
           step == [p \in Seq(V) \X (1 .. n) |-> p[1] \o ss[p[2]]]
<1>1. n \in Nat /\ n # 0 /\ 1 \in 1 .. n /\ DOMAIN ss = 1 .. n
  OBVIOUS
<1>2. \A k \in 1 .. n : ss[k] \in Seq(V)
  BY <1>1
<1>3. step \in [Seq(V) \X (1 .. n) -> Seq(V)]
  BY <1>2, ConcatProperties
<1>4. \A s \in Seq(V), k \in 1 .. n : step[<<s, k>>] = s \o ss[k]
  OBVIOUS
<1>5. <<>> \in Seq(V)
  OBVIOUS
<1> HIDE DEF step, n
<1> DEFINE W == Seq(V)
           none == <<>>
<1>6. \E g \in [0 .. n -> W] : Steps(g, none, n, step)
  <2>1. n \in Nat /\ step \in [W \X (1 .. n) -> W] /\ none \in W
    BY <1>1, <1>3, <1>5
  <2> HIDE DEF W, none
  <2> QED
    BY <2>1, Recursion, Zenon
<1>7. PICK g \in [0 .. n -> Seq(V)] : Steps(g, none, n, step)
  BY <1>6
<1>8. g[0] = <<>> /\ \A k \in 1 .. n : g[k] = step[<<g[k - 1], k>>]
  BY <1>7 DEF Steps
<1>9. \A k \in 1 .. n : k - 1 \in 0 .. n /\ k \in 0 .. n
  BY <1>1
<1>10. \A k \in 1 .. n : g[k] = g[k - 1] \o ss[k]
  BY <1>4, <1>8, <1>9
<1> DEFINE f == [k \in 1 .. n |-> g[k]]
<1>11. f \in [1 .. n -> Seq(V)] /\ \A k \in 1 .. n : f[k] = g[k]
  BY <1>7, <1>9
<1>12. f[1] = ss[1]
  <2>1. g[1] = <<>> \o ss[1]
    <3>1. 1 - 1 = 0
      OBVIOUS
    <3> QED
      BY <1>1, <1>10, <1>8, <3>1
  <2>2. ss[1] \in Seq(V)
    BY <1>1, <1>2
  <2> QED
    BY <1>1, <1>11, <2>1, <2>2, ConcatEmptySeq
<1> HIDE DEF f
<1>13. ASSUME NEW k \in 2 .. n PROVE f[k] = f[k - 1] \o ss[k]
  <2>1. k \in 1 .. n /\ k - 1 \in 1 .. n
    BY <1>1
  <2> QED
    BY <1>10, <1>11, <2>1
<1> QED
  BY <1>11, <1>12, <1>13 DEF Joins, n

\* Nothing, joined, is nothing.
LEMMA FlattenEmpty == FlattenSeq(<<>>) = <<>>
  BY DEF FlattenSeq

\* Sequences over V, joined, are a sequence over V.
LEMMA FlattenType ==
  ASSUME NEW V, NEW ss \in Seq(Seq(V))
  PROVE  FlattenSeq(ss) \in Seq(V)
<1>1. CASE Len(ss) = 0
  <2>1. ss = <<>> /\ <<>> \in Seq(V)
    BY <1>1
  <2> QED
    BY <2>1, FlattenEmpty
<1>2. CASE Len(ss) # 0
  <2>1. PICK f \in [1 .. Len(ss) -> Seq(V)] : Joins(f, ss)
    BY <1>2, JoinsExist
  <2>2. Len(ss) \in 1 .. Len(ss)
    BY <1>2
  <2>3. f[Len(ss)] \in Seq(V)
    BY <2>2
  <2>4. FlattenSeq(ss) = f[Len(ss)]
    BY <1>2, <2>1, FlattenIsLast
  <2> QED
    BY <2>3, <2>4
<1> QED
  BY <1>1, <1>2

\* One more sequence goes behind the others.
LEMMA FlattenAppend ==
  ASSUME NEW V, NEW ss \in Seq(Seq(V)), NEW s \in Seq(V)
  PROVE  FlattenSeq(Append(ss, s)) = FlattenSeq(ss) \o s
<1> DEFINE tt == Append(ss, s)
           n == Len(ss)
<1>1. /\ n \in Nat /\ tt \in Seq(Seq(V)) /\ Len(tt) = n + 1 /\ Len(tt) # 0
      /\ tt[n + 1] = s /\ \A k \in 1 .. n : tt[k] = ss[k]
  BY AppendProperties
<1> HIDE DEF tt
<1>2. PICK f \in [1 .. Len(tt) -> Seq(V)] : Joins(f, tt)
  BY <1>1, JoinsExist
<1>3. FlattenSeq(tt) = f[n + 1]
  BY <1>1, <1>2, FlattenIsLast
<1>4. CASE n = 0
  <2>1. ss = <<>> /\ FlattenSeq(ss) = <<>>
    BY <1>4, FlattenEmpty
  <2>2. f[n + 1] = s
    BY <1>1, <1>2, <1>4 DEF Joins
  <2> QED
    BY <1>3, <2>1, <2>2, ConcatEmptySeq DEF tt
<1>5. CASE n # 0
  <2> DEFINE g == [k \in 1 .. n |-> f[k]]
  <2>1. \A k \in 1 .. n : k \in 1 .. Len(tt)
    BY <1>1
  <2>2. g \in [1 .. n -> Seq(V)] /\ \A k \in 1 .. n : g[k] = f[k]
    BY <2>1
  <2> HIDE DEF g
  <2>3. 1 \in 1 .. n /\ \A k \in 2 .. n : k \in 2 .. Len(tt) /\ k \in 1 .. n /\ k - 1 \in 1 .. n
    BY <1>1, <1>5
  <2>4. g[1] = ss[1]
    BY <1>1, <1>2, <2>2, <2>3 DEF Joins
  <2>5. \A k \in 2 .. n : g[k] = g[k - 1] \o ss[k]
    BY <1>1, <1>2, <2>2, <2>3 DEF Joins
  <2>6. Joins(g, ss)
    BY <2>2, <2>4, <2>5 DEF Joins
  <2>7. FlattenSeq(ss) = f[n]
    <3>1. n \in 1 .. n
      BY <1>1, <1>5
    <3>2. FlattenSeq(ss) = g[n]
      BY <1>5, <2>2, <2>6, FlattenIsLast
    <3> QED
      BY <2>2, <3>1, <3>2
  <2>8. f[n + 1] = f[n] \o s
    <3>1. n + 1 \in 2 .. Len(tt) /\ (n + 1) - 1 = n
      BY <1>1, <1>5
    <3> QED
      BY <1>1, <1>2, <3>1 DEF Joins
  <2> QED
    BY <1>3, <2>7, <2>8 DEF tt
<1> QED
  BY <1>4, <1>5

-----------------------------------------------------------------------------
(* Sequences put together from the pieces a function gives of each element. *)

\* What holds of <<>>, and with a sequence of each longer one, holds of all.
LEMMA SequenceInduction ==
  ASSUME NEW E, NEW P, <<>> \in P,
         \A s \in Seq(E), e \in E : s \in P => Append(s, e) \in P
  PROVE  \A s \in Seq(E) : s \in P
<1> DEFINE S == {n \in Nat : \A s \in Seq(E) : Len(s) = n => s \in P}
<1>1. 0 \in S
  OBVIOUS
<1>2. ASSUME NEW n \in Nat, n \in S PROVE n + 1 \in S
  <2> SUFFICES ASSUME NEW s \in Seq(E), Len(s) = n + 1 PROVE s \in P
    OBVIOUS
  <2> DEFINE front == [i \in 1 .. n |-> s[i]]
  <2>1. front \in Seq(E) /\ Len(front) = n /\ s[n + 1] \in E
    OBVIOUS
  <2>2. s = Append(front, s[n + 1])
    OBVIOUS
  <2> HIDE DEF front
  <2>3. front \in P
    BY <1>2, <2>1
  <2> QED
    BY <2>1, <2>2, <2>3
<1>3. \A n \in Nat : n \in S
  <2> HIDE DEF S
  <2> QED
    BY <1>1, <1>2, Induction
<1> QED
  BY <1>3

\* Functions that give a sequence over V of each element of E.
Pieces(E, V) == [E -> Seq(V)]

\* The function g, taken along s.
Hom(g, s) == FlattenSeq([i \in DOMAIN s |-> g[s[i]]])

\* The pieces of a sequence are a sequence of sequences.
LEMMA PiecesType ==
  ASSUME NEW E, NEW V, NEW g \in Pieces(E, V), NEW s \in Seq(E)
  PROVE  /\ [i \in DOMAIN s |-> g[s[i]]] \in Seq(Seq(V))
         /\ Len([i \in DOMAIN s |-> g[s[i]]]) = Len(s)
<1> DEFINE W == Seq(V)
<1>1. g \in [E -> W]
  BY DEF Pieces
<1> HIDE DEF W
<1>2. DOMAIN s = 1 .. Len(s) /\ Len(s) \in Nat /\ \A i \in 1 .. Len(s) : g[s[i]] \in W
  BY <1>1
<1>3. [i \in 1 .. Len(s) |-> g[s[i]]] \in [1 .. Len(s) -> W]
  BY <1>2
<1>4. /\ [i \in 1 .. Len(s) |-> g[s[i]]] \in Seq(W)
      /\ Len([i \in 1 .. Len(s) |-> g[s[i]]]) = Len(s)
  BY <1>2, <1>3
<1> QED
  BY <1>2, <1>4 DEF W

\* What a loop gives has the type of its pieces.
LEMMA HomType ==
  ASSUME NEW E, NEW V, NEW g \in Pieces(E, V), NEW s \in Seq(E)
  PROVE  Hom(g, s) \in Seq(V)
<1>1. [i \in DOMAIN s |-> g[s[i]]] \in Seq(Seq(V))
  BY PiecesType
<1> QED
  BY <1>1, FlattenType DEF Hom

\* A loop over nothing gives nothing.
LEMMA HomEmpty ==
  ASSUME NEW g
  PROVE  Hom(g, <<>>) = <<>>
<1>1. [i \in DOMAIN <<>> |-> g[(<<>>)[i]]] = <<>>
  OBVIOUS
<1> QED
  BY <1>1, FlattenEmpty DEF Hom

\* One more element adds its piece.
LEMMA HomAppend ==
  ASSUME NEW E, NEW V, NEW g \in Pieces(E, V), NEW s \in Seq(E), NEW e \in E
  PROVE  Hom(g, Append(s, e)) = Hom(g, s) \o g[e]
<1> DEFINE ss == [i \in DOMAIN s |-> g[s[i]]]
           tt == [i \in DOMAIN Append(s, e) |-> g[Append(s, e)[i]]]
<1>1. ss \in Seq(Seq(V)) /\ g[e] \in Seq(V) /\ Len(ss) = Len(s)
  <2>1. g[e] \in Seq(V)
    BY DEF Pieces
  <2> QED
    BY <2>1, PiecesType
<1>2. tt = Append(ss, g[e])
  <2>1. tt \in Seq(Seq(V)) /\ Len(tt) = Len(s) + 1
    <3>1. Append(s, e) \in Seq(E) /\ Len(Append(s, e)) = Len(s) + 1
      OBVIOUS
    <3>2. \A u \in Seq(E) : /\ [i \in DOMAIN u |-> g[u[i]]] \in Seq(Seq(V))
                           /\ Len([i \in DOMAIN u |-> g[u[i]]]) = Len(u)
      BY PiecesType
    <3> QED
      BY <3>1, <3>2
  <2>2. Append(ss, g[e]) \in Seq(Seq(V)) /\ Len(Append(ss, g[e])) = Len(s) + 1
    BY <1>1
  <2>3. ASSUME NEW i \in 1 .. Len(s) + 1 PROVE tt[i] = Append(ss, g[e])[i]
    BY <1>1
  <2> QED
    BY <2>1, <2>2, <2>3, SeqEqual
<1> HIDE DEF ss, tt
<1>3. FlattenSeq(tt) = FlattenSeq(ss) \o g[e]
  BY <1>1, <1>2, FlattenAppend
<1> QED
  BY <1>3 DEF Hom, ss, tt

\* A loop over one element gives its piece.
LEMMA HomOne ==
  ASSUME NEW E, NEW V, NEW g \in Pieces(E, V), NEW e \in E
  PROVE  Hom(g, <<e>>) = g[e]
<1>1. <<>> \in Seq(E) /\ Append(<<>>, e) = <<e>>
  OBVIOUS
<1>2. Hom(g, <<e>>) = <<>> \o g[e]
  BY <1>1, HomAppend, HomEmpty
<1> QED
  BY <1>2, ConcatEmptySeq

\* A loop over two sequences gives what it gives of each, joined.
LEMMA HomConcat ==
  ASSUME NEW E, NEW V, NEW g \in Pieces(E, V), NEW s \in Seq(E), NEW t \in Seq(E)
  PROVE  Hom(g, s \o t) = Hom(g, s) \o Hom(g, t)
<1> DEFINE P == {u \in Seq(E) : Hom(g, s \o u) = Hom(g, s) \o Hom(g, u)}
<1>1. <<>> \in P
  <2>1. Hom(g, s) \in Seq(V) /\ <<>> \in Seq(E)
    BY HomType
  <2>2. s \o <<>> = s /\ Hom(g, s) \o <<>> = Hom(g, s)
    BY <2>1, ConcatEmptySeq
  <2>3. Hom(g, s \o <<>>) = Hom(g, s) \o Hom(g, <<>>)
    BY <2>2, HomEmpty
  <2> QED
    BY <2>1, <2>3
<1>2. ASSUME NEW u \in Seq(E), NEW e \in E, u \in P PROVE Append(u, e) \in P
  <2>1. s \o Append(u, e) = Append(s \o u, e) /\ s \o u \in Seq(E) /\ Append(u, e) \in Seq(E)
    OBVIOUS
  <2>2. Hom(g, Append(s \o u, e)) = Hom(g, s \o u) \o g[e]
    BY <2>1, HomAppend
  <2>3. Hom(g, s \o u) = Hom(g, s) \o Hom(g, u)
    BY <1>2
  <2>4. Hom(g, Append(u, e)) = Hom(g, u) \o g[e]
    BY HomAppend
  <2>5. (Hom(g, s) \o Hom(g, u)) \o g[e] = Hom(g, s) \o (Hom(g, u) \o g[e])
    <3>1. Hom(g, s) \in Seq(V) /\ Hom(g, u) \in Seq(V) /\ g[e] \in Seq(V)
      BY HomType DEF Pieces
    <3>2. \A x, y, z \in Seq(V) : (x \o y) \o z = x \o (y \o z)
      BY ConcatAssociative
    <3> QED
      BY <3>1, <3>2
  <2> QED
    BY <2>1, <2>2, <2>3, <2>4, <2>5
<1>3. t \in P
  <2> HIDE DEF P
  <2> QED
    BY <1>1, <1>2, SequenceInduction
<1> QED
  BY <1>3

\* Sequences whose elements give the same pieces give the same.
LEMMA HomSame ==
  ASSUME NEW s, NEW t, NEW g, NEW h, DOMAIN s = DOMAIN t, \A i \in DOMAIN s : g[s[i]] = h[t[i]]
  PROVE  Hom(g, s) = Hom(h, t)
<1>1. [i \in DOMAIN s |-> g[s[i]]] = [i \in DOMAIN t |-> h[t[i]]]
  OBVIOUS
<1> QED
  BY <1>1 DEF Hom

\* Taking h along what g gave is taking both at once.
LEMMA HomOfHom ==
  ASSUME NEW E, NEW V, NEW W, NEW g \in Pieces(E, V), NEW h \in Pieces(V, W),
         NEW k \in Pieces(E, W), NEW s \in Seq(E),
         \A e \in E : k[e] = Hom(h, g[e])
  PROVE  Hom(h, Hom(g, s)) = Hom(k, s)
<1> DEFINE P == {u \in Seq(E) : Hom(h, Hom(g, u)) = Hom(k, u)}
<1>1. <<>> \in P
  BY HomEmpty
<1>2. ASSUME NEW u \in Seq(E), NEW e \in E, u \in P PROVE Append(u, e) \in P
  <2>1. Hom(g, Append(u, e)) = Hom(g, u) \o g[e] /\ Hom(k, Append(u, e)) = Hom(k, u) \o k[e]
    BY HomAppend
  <2>2. Hom(g, u) \in Seq(V) /\ g[e] \in Seq(V)
    BY HomType DEF Pieces
  <2>3. Hom(h, Hom(g, u) \o g[e]) = Hom(h, Hom(g, u)) \o Hom(h, g[e])
    <3>1. \A x, y \in Seq(V) : Hom(h, x \o y) = Hom(h, x) \o Hom(h, y)
      BY HomConcat
    <3> QED
      BY <2>2, <3>1
  <2>4. Hom(h, Hom(g, u)) = Hom(k, u) /\ Append(u, e) \in Seq(E)
    BY <1>2
  <2> QED
    BY <2>1, <2>3, <2>4
<1>3. s \in P
  <2> HIDE DEF P
  <2> QED
    BY <1>1, <1>2, SequenceInduction
<1> QED
  BY <1>3

\* Joined sequences hold what each of them holds.
LEMMA ConcatElements ==
  ASSUME NEW V, NEW a \in Seq(V), NEW b \in Seq(V)
  PROVE  ToSet(a \o b) = ToSet(a) \cup ToSet(b)
<1>1. a \o b \in Seq(V) /\ Len(a \o b) = Len(a) + Len(b)
      /\ \A i \in 1 .. Len(a) + Len(b) : (a \o b)[i] = IF i <= Len(a) THEN a[i] ELSE b[i - Len(a)]
  BY ConcatProperties
<1>2. DOMAIN (a \o b) = 1 .. Len(a) + Len(b) /\ DOMAIN a = 1 .. Len(a) /\ DOMAIN b = 1 .. Len(b)
      /\ Len(a) \in Nat /\ Len(b) \in Nat
  BY <1>1
<1>3. ASSUME NEW i \in DOMAIN a PROVE i \in DOMAIN (a \o b) /\ (a \o b)[i] = a[i]
  BY <1>1, <1>2
<1>4. ASSUME NEW i \in DOMAIN b PROVE i + Len(a) \in DOMAIN (a \o b) /\ (a \o b)[i + Len(a)] = b[i]
  BY <1>1, <1>2
<1>5. ASSUME NEW i \in DOMAIN (a \o b)
      PROVE  (i \in DOMAIN a /\ (a \o b)[i] = a[i]) \/ (i - Len(a) \in DOMAIN b /\ (a \o b)[i] = b[i - Len(a)])
  BY <1>1, <1>2
<1>6. \A t, v : v \in ToSet(t) <=> \E i \in DOMAIN t : t[i] = v
  BY DEF ToSet
<1>7. ASSUME NEW v PROVE v \in ToSet(a \o b) <=> v \in ToSet(a) \/ v \in ToSet(b)
  <2>1. v \in ToSet(a \o b) <=> \E i \in DOMAIN (a \o b) : (a \o b)[i] = v
    BY <1>6
  <2>2. (v \in ToSet(a) <=> \E i \in DOMAIN a : a[i] = v) /\ (v \in ToSet(b) <=> \E i \in DOMAIN b : b[i] = v)
    BY <1>6
  <2>3. ASSUME NEW i \in DOMAIN a, a[i] = v PROVE v \in ToSet(a \o b)
    BY <1>3, <2>1, <2>3
  <2>4. ASSUME NEW i \in DOMAIN b, b[i] = v PROVE v \in ToSet(a \o b)
    BY <1>4, <2>1, <2>4
  <2>5. ASSUME NEW i \in DOMAIN (a \o b), (a \o b)[i] = v PROVE v \in ToSet(a) \/ v \in ToSet(b)
    BY <1>5, <2>2, <2>5
  <2> QED
    BY <2>1, <2>2, <2>3, <2>4, <2>5
<1> QED
  BY <1>7

\* What is in it is in one of the pieces.
LEMMA HomElements ==
  ASSUME NEW E, NEW V, NEW g \in Pieces(E, V), NEW s \in Seq(E)
  PROVE  \A v : v \in ToSet(Hom(g, s)) <=> \E i \in DOMAIN s : v \in ToSet(g[s[i]])
<1> SUFFICES ASSUME NEW v
             PROVE  v \in ToSet(Hom(g, s)) <=> \E i \in DOMAIN s : v \in ToSet(g[s[i]])
  OBVIOUS
<1> DEFINE P == {u \in Seq(E) :
                   v \in ToSet(Hom(g, u)) <=> \E i \in DOMAIN u : v \in ToSet(g[u[i]])}
<1>1. <<>> \in P
  BY HomEmpty DEF ToSet
<1>2. ASSUME NEW u \in Seq(E), NEW e \in E, u \in P PROVE Append(u, e) \in P
  <2>1. Hom(g, Append(u, e)) = Hom(g, u) \o g[e] /\ Hom(g, u) \in Seq(V) /\ g[e] \in Seq(V)
    BY HomAppend, HomType DEF Pieces
  <2>2. v \in ToSet(Hom(g, u) \o g[e]) <=> v \in ToSet(Hom(g, u)) \/ v \in ToSet(g[e])
    BY <2>1, ConcatElements
  <2>3. (\E i \in DOMAIN Append(u, e) : v \in ToSet(g[Append(u, e)[i]]))
          <=> (\E i \in DOMAIN u : v \in ToSet(g[u[i]])) \/ v \in ToSet(g[e])
    <3>1. DOMAIN u = 1 .. Len(u) /\ Len(u) \in Nat /\ DOMAIN Append(u, e) = 1 .. Len(u) + 1
      OBVIOUS
    <3>2. \A i \in DOMAIN u : i \in DOMAIN Append(u, e) /\ Append(u, e)[i] = u[i]
      BY <3>1
    <3>3. Len(u) + 1 \in DOMAIN Append(u, e) /\ Append(u, e)[Len(u) + 1] = e
      BY <3>1
    <3>4. \A i \in DOMAIN Append(u, e) : i \in DOMAIN u \/ i = Len(u) + 1
      BY <3>1
    <3> QED
      BY <3>2, <3>3, <3>4
  <2>4. v \in ToSet(Hom(g, u)) <=> \E i \in DOMAIN u : v \in ToSet(g[u[i]])
    BY <1>2
  <2>5. v \in ToSet(Hom(g, Append(u, e)))
          <=> \E i \in DOMAIN Append(u, e) : v \in ToSet(g[Append(u, e)[i]])
    BY <2>1, <2>2, <2>3, <2>4
  <2>6. Append(u, e) \in Seq(E)
    OBVIOUS
  <2> QED
    BY <2>5, <2>6, Zenon
<1>3. s \in P
  <2> HIDE DEF P
  <2> QED
    BY <1>1, <1>2, SequenceInduction
<1> QED
  BY <1>3

\* It is empty if and only if all of the pieces are.
LEMMA HomIsEmpty ==
  ASSUME NEW E, NEW V, NEW g \in Pieces(E, V), NEW s \in Seq(E)
  PROVE  Hom(g, s) = <<>> <=> \A i \in DOMAIN s : g[s[i]] = <<>>
<1>1. \A t \in Seq(V) : t = <<>> <=> \A v : v \notin ToSet(t)
  <2> SUFFICES ASSUME NEW t \in Seq(V), t # <<>> PROVE \E v : v \in ToSet(t)
    BY DEF ToSet
  <2>1. 1 \in DOMAIN t
    OBVIOUS
  <2> QED
    BY <2>1 DEF ToSet
<1>2. Hom(g, s) \in Seq(V) /\ \A i \in DOMAIN s : g[s[i]] \in Seq(V)
  BY HomType DEF Pieces
<1>3. ASSUME Hom(g, s) = <<>>, NEW i \in DOMAIN s PROVE g[s[i]] = <<>>
  <2>1. \A v : v \notin ToSet(Hom(g, s))
    BY <1>1, <1>2, <1>3
  <2>2. \A v : v \notin ToSet(g[s[i]])
    BY <2>1, HomElements
  <2> QED
    BY <1>1, <1>2, <2>2
<1>4. ASSUME \A i \in DOMAIN s : g[s[i]] = <<>> PROVE Hom(g, s) = <<>>
  <2>1. \A i \in DOMAIN s : \A v : v \notin ToSet(g[s[i]])
    BY <1>1, <1>2, <1>4
  <2>2. \A v : v \notin ToSet(Hom(g, s))
    BY <2>1, HomElements
  <2> QED
    BY <1>1, <1>2, <2>2
<1> QED
  BY <1>3, <1>4

\* g gives of each element the one that f gives.
Singles(E, V, f, g) == f \in [E -> V] /\ g \in Pieces(E, V) /\ \A e \in E : g[e] = <<f[e]>>

\* Pieces of one element each stay in their places.
LEMMA HomOfSingles ==
  ASSUME NEW E, NEW V, NEW f, NEW g, Singles(E, V, f, g), NEW s \in Seq(E)
  PROVE  Hom(g, s) = [i \in DOMAIN s |-> f[s[i]]]
<1> USE DEF Singles
<1> DEFINE P == {u \in Seq(E) : Hom(g, u) = [i \in DOMAIN u |-> f[u[i]]]}
<1>1. <<>> \in P
  <2>1. [i \in DOMAIN <<>> |-> f[(<<>>)[i]]] = <<>> /\ <<>> \in Seq(E)
    OBVIOUS
  <2>2. Hom(g, <<>>) = [i \in DOMAIN <<>> |-> f[(<<>>)[i]]]
    BY <2>1, HomEmpty
  <2> QED
    BY <2>1, <2>2
<1>2. ASSUME NEW u \in Seq(E), NEW e \in E, u \in P PROVE Append(u, e) \in P
  <2> DEFINE v == Append(u, e)
             w == [i \in DOMAIN u |-> f[u[i]]]
  <2>1. Hom(g, u) = w
    BY <1>2
  <2>2. Hom(g, v) = w \o <<f[e]>>
    <3>1. Hom(g, v) = Hom(g, u) \o g[e]
      BY HomAppend
    <3> QED
      BY <3>1, <2>1
  <2>3. w \in Seq(V) /\ Len(w) = Len(u) /\ f[e] \in V /\ v \in Seq(E)
    <3>1. DOMAIN u = 1 .. Len(u) /\ Len(u) \in Nat /\ \A i \in 1 .. Len(u) : f[u[i]] \in V
      OBVIOUS
    <3>2. w \in [1 .. Len(u) -> V]
      BY <3>1
    <3> QED
      BY <3>1, <3>2
  <2>4. w \o <<f[e]>> = [i \in DOMAIN v |-> f[v[i]]]
    <3>1. w \o <<f[e]>> = Append(w, f[e])
      BY <2>3
    <3>2. [i \in DOMAIN v |-> f[v[i]]] \in Seq(V) /\ Len([i \in DOMAIN v |-> f[v[i]]]) = Len(u) + 1
      OBVIOUS
    <3>3. Append(w, f[e]) \in Seq(V) /\ Len(Append(w, f[e])) = Len(u) + 1
      BY <2>3
    <3>4. ASSUME NEW i \in 1 .. Len(u) + 1 PROVE Append(w, f[e])[i] = [j \in DOMAIN v |-> f[v[j]]][i]
      BY <2>3
    <3> QED
      BY <3>1, <3>2, <3>3, <3>4, SeqEqual
  <2>5. Hom(g, v) = [i \in DOMAIN v |-> f[v[i]]]
    BY <2>2, <2>4
  <2> HIDE DEF v
  <2>6. v \in P
    BY <2>3, <2>5
  <2> QED
    BY <2>6 DEF v
<1>3. s \in P
  <2> HIDE DEF P
  <2> QED
    BY <1>1, <1>2, SequenceInduction
<1> QED
  BY <1>3

-----------------------------------------------------------------------------
(* What stands in requests and replies.                                    *)

\* The provers do not know that a literal is in STRING.
Strings == STRING \cup {"", "{}"}

Urls     == [type : {"image_url"}, source : STRING]
Uses     == [type : {"tool_use"}, id : STRING, name : STRING, input : Strings]
Thoughts == [type : {"thinking"}]
Results  == [type : {"tool_result"}, id : STRING, content : Seq(Texts \cup Images \cup Named)]
Spelt    == {t \in Texts : t.text # <<>>}
Things   == Texts \cup Images \cup Named \cup Calls \cup Refusals \cup Urls \cup Uses \cup Thoughts \cup Results

UserBlocks  == Texts \cup Images \cup Results
ModelBlocks == Spelt \cup Uses \cup Thoughts
UserMessages ==
  [role : {"user"}, content :      [form : {"string"}, text : Seq(STRING)]
                              \cup [form : {"array"}, blocks : Seq(UserBlocks)]
                              \cup [form : {"null"}]]
ModelMessages == [role : {"assistant"}, content : [form : {"array"}, blocks : Seq(ModelBlocks)]]
History == UserMessages \cup ModelMessages

\* What the Chat Completions side is made of, given the catalog of the tools.
Callees == [id : STRING, name : STRING, input : Strings]
Bodies(catalog) == [text : Seq(STRING), parts : Seq(Texts \cup Urls), functions : Seq({catalog[n] : n \in STRING})]
Chats(catalog) ==
  [role : {"system", "user", "assistant", "tool"}, content : Bodies(catalog), calls : Seq(Callees), callID : Strings]

\* Those that answer calls, and those that are not of the model.
Answers(catalog) == {m \in Chats(catalog) : m.role = "tool" /\ m.calls = <<>>}
Silent(catalog) == {m \in Chats(catalog) : m.role # "assistant" /\ m.calls = <<>>}

\* The loops of the model, each as a function of one block.
textOf   == [b \in Things |-> IF b.type = "text" THEN b.text ELSE <<>>]
useOf    == [b \in Things |-> IF b.type = "tool_use" THEN <<b>> ELSE <<>>]
callOf   == [b \in Things |-> IF b.type = "tool_use"
                              THEN <<[id |-> b.id, name |-> b.name, input |-> ToolArguments(b.input)]>>
                              ELSE <<>>]
partOf   == [b \in Things |-> IF b.type = "text" THEN <<TextBlock(b.text)>>
                              ELSE IF b.type = "image" THEN <<ImagePart(b)>>
                              ELSE <<>>]
wordsOf  == [b \in Things |-> IF b.type = "text" THEN b.text
                              ELSE IF b.type \in {"image", "image_url"} THEN <<b.source>>
                              ELSE <<>>]
toolUseOf == [f \in Things |-> IF f.type = "call" THEN <<ToolUse(f.id, f.name, ToolInput(f.args))>> ELSE <<>>]
spokenOf == [f \in Things |-> IF f.type = "call"
                              THEN <<[id |-> f.id, name |-> f.name, input |-> Meant(f.args)]>>
                              ELSE <<>>]
functionOf(catalog) == [b \in Things |-> IF b.type = "tool_reference" THEN <<catalog[b.name]>> ELSE <<>>]
answerOf(catalog) ==
  [b \in Things |-> IF b.type = "tool_result"
                    THEN <<Message("tool", ToolResultText(b.content, catalog), <<>>, b.id)>>
                    ELSE <<>>]

\* The type of a block says what it has.
LEMMA Kinds ==
  ASSUME NEW b \in Things
  PROVE  /\ b.type = "text" => b \in Texts /\ b.text \in Seq(STRING)
         /\ b.type = "image" => b \in Images /\ b.source \in STRING
         /\ b.type = "image_url" => b \in Urls /\ b.source \in STRING
         /\ b.type = "tool_reference" => b \in Named /\ b.name \in STRING
         /\ b.type = "call" => b \in Calls /\ b.id \in STRING /\ b.name \in STRING /\ b.args \in STRING
         /\ b.type = "tool_use" => b \in Uses /\ b.id \in STRING /\ b.name \in STRING /\ b.input \in Strings
         /\ b.type = "tool_result" =>
              b \in Results /\ b.id \in STRING /\ b.content \in Seq(Texts \cup Images \cup Named)
<1>1. CASE b \in Texts
  BY <1>1 DEF Texts
<1>2. CASE b \in Images
  BY <1>2 DEF Images
<1>3. CASE b \in Named
  BY <1>3 DEF Named
<1>4. CASE b \in Calls
  BY <1>4 DEF Calls
<1>5. CASE b \in Urls
  BY <1>5 DEF Urls
<1>6. CASE b \in Uses
  BY <1>6 DEF Uses
<1>7. CASE b \in Thoughts
  BY <1>7 DEF Thoughts
<1>8. CASE b \in Results
  BY <1>8 DEF Results
<1>9. CASE b \in Refusals
  BY <1>9 DEF Refusals
<1> QED
  BY <1>1, <1>2, <1>3, <1>4, <1>5, <1>6, <1>7, <1>8, <1>9 DEF Things

\* The loops of the model give sequences of what they should.
LEMMA LoopsTyped ==
  /\ textOf \in Pieces(Things, STRING)
  /\ useOf \in Pieces(Things, Uses)
  /\ callOf \in Pieces(Things, Callees)
  /\ partOf \in Pieces(Things, Texts \cup Urls)
  /\ wordsOf \in Pieces(Things, STRING)
  /\ toolUseOf \in Pieces(Things, Uses)
  /\ spokenOf \in Pieces(Things, Callees)
<1>1. textOf \in Pieces(Things, STRING)
  <2>1. <<>> \in Seq(STRING)
    OBVIOUS
  <2> QED
    BY <2>1, Kinds DEF textOf, Pieces
<1>2. useOf \in Pieces(Things, Uses)
  <2>1. \A b \in Things : b.type = "tool_use" => <<b>> \in Seq(Uses)
    BY Kinds
  <2>2. <<>> \in Seq(Uses)
    OBVIOUS
  <2> QED
    BY <2>1, <2>2 DEF useOf, Pieces
<1>3. callOf \in Pieces(Things, Callees)
  <2>1. ASSUME NEW b \in Things, b.type = "tool_use"
        PROVE  <<[id |-> b.id, name |-> b.name, input |-> ToolArguments(b.input)]>> \in Seq(Callees)
    <3>1. b.id \in STRING /\ b.name \in STRING /\ ToolArguments(b.input) \in Strings
      BY <2>1, Kinds DEF ToolArguments, Strings
    <3>2. [id |-> b.id, name |-> b.name, input |-> ToolArguments(b.input)] \in Callees
      BY <3>1 DEF Callees
    <3> QED
      BY <3>2
  <2>2. <<>> \in Seq(Callees)
    OBVIOUS
  <2> QED
    BY <2>1, <2>2 DEF callOf, Pieces
<1>4. partOf \in Pieces(Things, Texts \cup Urls)
  <2>1. ASSUME NEW b \in Things, b.type = "text" PROVE <<TextBlock(b.text)>> \in Seq(Texts \cup Urls)
    BY <2>1, Kinds DEF TextBlock, Texts
  <2>2. ASSUME NEW b \in Things, b.type = "image" PROVE <<ImagePart(b)>> \in Seq(Texts \cup Urls)
    BY <2>2, Kinds DEF ImagePart, Urls
  <2>3. <<>> \in Seq(Texts \cup Urls)
    OBVIOUS
  <2> QED
    BY <2>1, <2>2, <2>3 DEF partOf, Pieces
<1>5. wordsOf \in Pieces(Things, STRING)
  <2>1. ASSUME NEW b \in Things, b.type \in {"image", "image_url"} PROVE <<b.source>> \in Seq(STRING)
    BY <2>1, Kinds
  <2>2. <<>> \in Seq(STRING)
    OBVIOUS
  <2> QED
    BY Kinds, <2>1, <2>2 DEF wordsOf, Pieces
<1>6. toolUseOf \in Pieces(Things, Uses)
  <2>1. ASSUME NEW f \in Things, f.type = "call"
        PROVE  <<ToolUse(f.id, f.name, ToolInput(f.args))>> \in Seq(Uses)
    <3>1. f.id \in STRING /\ f.name \in STRING /\ ToolInput(f.args) \in Strings
      BY <2>1, Kinds DEF ToolInput, Strings
    <3>2. ToolUse(f.id, f.name, ToolInput(f.args)) \in Uses
      BY <3>1 DEF Uses, ToolUse
    <3> QED
      BY <3>2
  <2>2. <<>> \in Seq(Uses)
    OBVIOUS
  <2> QED
    BY <2>1, <2>2 DEF toolUseOf, Pieces
<1>7. spokenOf \in Pieces(Things, Callees)
  <2>1. ASSUME NEW f \in Things, f.type = "call"
        PROVE  <<[id |-> f.id, name |-> f.name, input |-> Meant(f.args)]>> \in Seq(Callees)
    <3>1. f.id \in STRING /\ f.name \in STRING /\ Meant(f.args) \in Strings
      BY <2>1, Kinds DEF Meant, Strings
    <3> DEFINE c == [id |-> f.id, name |-> f.name, input |-> Meant(f.args)]
    <3>2. c \in Callees
      BY <3>1 DEF Callees
    <3> HIDE DEF c
    <3>3. <<c>> \in Seq(Callees)
      BY <3>2
    <3> QED
      BY <3>3 DEF c
  <2>2. <<>> \in Seq(Callees)
    OBVIOUS
  <2> QED
    BY <2>1, <2>2 DEF spokenOf, Pieces
<1> QED
  BY <1>1, <1>2, <1>3, <1>4, <1>5, <1>6, <1>7

\* Blocks.Text is such a loop.
LEMMA TextIsHom ==
  ASSUME NEW s \in Seq(Things)
  PROVE  Text(s) = Hom(textOf, s)
<1>1. \A i \in DOMAIN s : textOf[s[i]] = IF s[i].type = "text" THEN s[i].text ELSE <<>>
  BY DEF textOf
<1>2. [i \in DOMAIN s |-> IF s[i].type = "text" THEN s[i].text ELSE <<>>] = [i \in DOMAIN s |-> textOf[s[i]]]
  BY <1>1
<1> QED
  BY <1>2 DEF Text, Each, Mapped, Hom

\* So is what gives the calls of a message,
LEMMA UsesAreHom ==
  ASSUME NEW msg, Blocks(msg.content) \in Seq(Things)
  PROVE  CallsOf(msg) = Hom(useOf, Blocks(msg.content))
<1> DEFINE s == Blocks(msg.content)
<1>1. \A i \in DOMAIN s : useOf[s[i]] = IF s[i].type = "tool_use" THEN <<s[i]>> ELSE <<>>
  BY DEF useOf
<1>2. [i \in DOMAIN s |-> IF s[i].type = "tool_use" THEN <<s[i]>> ELSE <<>>] = [i \in DOMAIN s |-> useOf[s[i]]]
  BY <1>1
<1> QED
  BY <1>2 DEF CallsOf, Each, Mapped, Hom

\* and what gives them as the upstream takes them,
LEMMA ToolCallsIsHom ==
  ASSUME NEW s \in Seq(Things)
  PROVE  ToolCalls(s) = Hom(callOf, s)
<1> DEFINE Op(b) == IF b.type = "tool_use"
                    THEN <<[id |-> b.id, name |-> b.name, input |-> ToolArguments(b.input)]>> ELSE <<>>
<1>1. \A i \in DOMAIN s : callOf[s[i]] = Op(s[i])
  BY DEF callOf
<1>2. [i \in DOMAIN s |-> Op(s[i])] = [i \in DOMAIN s |-> callOf[s[i]]]
  BY <1>1
<1> QED
  BY <1>2 DEF ToolCalls, Each, Mapped, Hom

\* and what gives the parts of a message,
LEMMA PartsIsHom ==
  ASSUME NEW s \in Seq(Things)
  PROVE  Parts(s) = Hom(partOf, s)
<1> DEFINE Op(b) == IF b.type = "text" THEN <<TextBlock(b.text)>>
                    ELSE IF b.type = "image" THEN <<ImagePart(b)>> ELSE <<>>
<1>1. \A i \in DOMAIN s : partOf[s[i]] = Op(s[i])
  BY DEF partOf
<1>2. [i \in DOMAIN s |-> Op(s[i])] = [i \in DOMAIN s |-> partOf[s[i]]]
  BY <1>1
<1> QED
  BY <1>2 DEF Parts, Each, Mapped, Hom

\* and its words and images,
LEMMA WordsIsHom ==
  ASSUME NEW s \in Seq(Things)
  PROVE  WordsAndImages(s) = Hom(wordsOf, s)
<1> DEFINE Op(b) == IF b.type = "text" THEN b.text
                    ELSE IF b.type \in {"image", "image_url"} THEN <<b.source>> ELSE <<>>
<1>1. \A i \in DOMAIN s : wordsOf[s[i]] = Op(s[i])
  BY DEF wordsOf
<1>2. [i \in DOMAIN s |-> Op(s[i])] = [i \in DOMAIN s |-> wordsOf[s[i]]]
  BY <1>1
<1> QED
  BY <1>2 DEF WordsAndImages, Each, Mapped, Hom

\* and what makes blocks of the calls of a reply.
LEMMA ToolUsesIsHom ==
  ASSUME NEW s \in Seq(Things)
  PROVE  Each(s, LAMBDA f : IF f.type = "call" THEN <<ToolUse(f.id, f.name, ToolInput(f.args))>> ELSE <<>>)
           = Hom(toolUseOf, s)
<1> DEFINE Op(f) == IF f.type = "call" THEN <<ToolUse(f.id, f.name, ToolInput(f.args))>> ELSE <<>>
<1>1. \A i \in DOMAIN s : toolUseOf[s[i]] = Op(s[i])
  BY DEF toolUseOf
<1>2. [i \in DOMAIN s |-> Op(s[i])] = [i \in DOMAIN s |-> toolUseOf[s[i]]]
  BY <1>1
<1> QED
  BY <1>2 DEF Each, Mapped, Hom

\* What a model said, by two of these loops.
LEMMA SpokenIsHom ==
  ASSUME NEW s \in Seq(Things)
  PROVE  Spoken(s) = TurnOf(Hom(textOf, s), Hom(spokenOf, s))
<1> DEFINE Op(f) == IF f.type = "call"
                    THEN <<[id |-> f.id, name |-> f.name, input |-> Meant(f.args)]>>
                    ELSE <<>>
<1>1. \A i \in DOMAIN s : spokenOf[s[i]] = Op(s[i])
  BY DEF spokenOf
<1>2. [i \in DOMAIN s |-> Op(s[i])] = [i \in DOMAIN s |-> spokenOf[s[i]]]
  BY <1>1
<1> QED
  BY <1>2, TextIsHom DEF Spoken, Each, Mapped, Hom

\* The text of a tool result, and the definitions behind it, by two of them.
LEMMA FunctionsIsHom ==
  ASSUME NEW catalog, NEW s \in Seq(Things)
  PROVE  /\ functionOf(catalog) \in Pieces(Things, {catalog[n] : n \in STRING})
         /\ ToolResultText(s, catalog) =
              [text |-> Hom(textOf, s), parts |-> <<>>, functions |-> Hom(functionOf(catalog), s)]
<1> DEFINE Op(b) == IF b.type = "tool_reference" THEN <<catalog[b.name]>> ELSE <<>>
           F == {catalog[n] : n \in STRING}
<1>1. \A b \in Things : functionOf(catalog)[b] = Op(b)
  BY DEF functionOf
<1>2. [i \in DOMAIN s |-> Op(s[i])] = [i \in DOMAIN s |-> functionOf(catalog)[s[i]]]
  BY <1>1
<1>3. functionOf(catalog) \in Pieces(Things, F)
  <2>1. ASSUME NEW b \in Things, b.type = "tool_reference" PROVE <<catalog[b.name]>> \in Seq(F)
    <3>1. catalog[b.name] \in F
      BY <2>1, Kinds
    <3> QED
      BY <3>1
  <2>2. <<>> \in Seq(F)
    OBVIOUS
  <2> QED
    BY <2>1, <2>2 DEF functionOf, Pieces
<1> QED
  BY <1>2, <1>3, TextIsHom DEF ToolResultText, Each, Mapped, Hom

\* The tool messages made of a message, by one more.
LEMMA ToolMessagesIsHom ==
  ASSUME NEW catalog, NEW s \in Seq(Things)
  PROVE  ToolMessages(s, catalog) = Hom(answerOf(catalog), s)
<1> DEFINE Op(b) == IF b.type = "tool_result"
                    THEN <<Message("tool", ToolResultText(b.content, catalog), <<>>, b.id)>> ELSE <<>>
<1>1. \A i \in DOMAIN s : answerOf(catalog)[s[i]] = Op(s[i])
  BY DEF answerOf
<1>2. [i \in DOMAIN s |-> Op(s[i])] = [i \in DOMAIN s |-> answerOf(catalog)[s[i]]]
  BY <1>1
<1> QED
  BY <1>2 DEF ToolMessages, Each, Mapped, Hom

\* All blocks are things the loops go over.
LEMMA BlocksAreThings ==
  /\ UserBlocks \subseteq Things
  /\ ModelBlocks \subseteq Things
  /\ Spelt \cup Calls \cup Refusals \subseteq Things
  /\ Texts \cup Images \cup Named \subseteq Things
  /\ Texts \cup Urls \subseteq Things
  BY DEF UserBlocks, ModelBlocks, Spelt, Things

\* The blocks of what the user's side sent, whichever form it has.
LEMMA UserBlocksOf ==
  ASSUME NEW m \in UserMessages
  PROVE  /\ m.role = "user"
         /\ Blocks(m.content) \in Seq(UserBlocks)
         /\ Blocks(m.content) \in Seq(Things)
<1> DEFINE c == m.content
<1>1. m.role = "user"
  BY DEF UserMessages
<1>2. \/ c \in [form : {"string"}, text : Seq(STRING)]
      \/ c \in [form : {"array"}, blocks : Seq(UserBlocks)]
      \/ c \in [form : {"null"}]
  BY DEF UserMessages
<1>3. Blocks(c) \in Seq(UserBlocks)
  <2>1. CASE c \in [form : {"string"}, text : Seq(STRING)]
    <3>1. Blocks(c) = <<TextBlock(c.text)>>
      BY <2>1 DEF Blocks
    <3>2. TextBlock(c.text) \in UserBlocks
      BY <2>1 DEF TextBlock, UserBlocks, Texts
    <3> QED
      BY <3>1, <3>2
  <2>2. CASE c \in [form : {"array"}, blocks : Seq(UserBlocks)]
    BY <2>2 DEF Blocks
  <2>3. CASE c \in [form : {"null"}]
    BY <2>3 DEF Blocks
  <2> QED
    BY <1>2, <2>1, <2>2, <2>3
<1> QED
  BY <1>1, <1>3, BlocksAreThings, SeqMonotonic

\* The blocks of what a model sent.
LEMMA ModelBlocksOf ==
  ASSUME NEW m \in ModelMessages
  PROVE  /\ m.role = "assistant"
         /\ Blocks(m.content) \in Seq(ModelBlocks)
         /\ Blocks(m.content) \in Seq(Things)
<1>1. m.role = "assistant" /\ Blocks(m.content) \in Seq(ModelBlocks)
  BY DEF ModelMessages, Blocks
<1> QED
  BY <1>1, BlocksAreThings, SeqMonotonic

\* A tool result becomes a tool message, all others nothing.
LEMMA AnswerType ==
  ASSUME NEW catalog
  PROVE  answerOf(catalog) \in Pieces(Things, Answers(catalog))
<1>1. ASSUME NEW b \in Things, b.type = "tool_result"
      PROVE  <<Message("tool", ToolResultText(b.content, catalog), <<>>, b.id)>> \in Seq(Answers(catalog))
  <2>1. b.content \in Seq(Things) /\ b.id \in Strings
    BY <1>1, Kinds, BlocksAreThings, SeqMonotonic DEF Strings
  <2>2. ToolResultText(b.content, catalog) \in Bodies(catalog)
    <3>1. Hom(textOf, b.content) \in Seq(STRING)
      BY <2>1, LoopsTyped, HomType
    <3>2. Hom(functionOf(catalog), b.content) \in Seq({catalog[n] : n \in STRING})
      BY <2>1, FunctionsIsHom, HomType
    <3>3. ToolResultText(b.content, catalog) =
            [text |-> Hom(textOf, b.content), parts |-> <<>>, functions |-> Hom(functionOf(catalog), b.content)]
      BY <2>1, FunctionsIsHom
    <3>4. <<>> \in Seq(Texts \cup Urls)
      OBVIOUS
    <3> QED
      BY <3>1, <3>2, <3>3, <3>4 DEF Bodies
  <2>3. <<>> \in Seq(Callees)
    OBVIOUS
  <2>4. Message("tool", ToolResultText(b.content, catalog), <<>>, b.id) \in Answers(catalog)
    BY <2>1, <2>2, <2>3 DEF Message, Chats, Answers
  <2> QED
    BY <2>4
<1>2. <<>> \in Seq(Answers(catalog))
  OBVIOUS
<1> QED
  BY <1>1, <1>2 DEF answerOf, Pieces

\* A body, whether with parts or without.
LEMMA MessageContentType ==
  ASSUME NEW catalog, NEW blocks \in Seq(Things)
  PROVE  MessageContent(blocks) \in Bodies(catalog)
<1>1. Hom(textOf, blocks) \in Seq(STRING) /\ Hom(partOf, blocks) \in Seq(Texts \cup Urls)
  BY LoopsTyped, HomType
<1>2. <<>> \in Seq(STRING) /\ <<>> \in Seq(Texts \cup Urls) /\ <<>> \in Seq({catalog[n] : n \in STRING})
  OBVIOUS
<1>3. TextContent(Hom(textOf, blocks)) \in Bodies(catalog)
  BY <1>1, <1>2 DEF TextContent, Bodies
<1>4. PartsContent(Hom(partOf, blocks)) \in Bodies(catalog)
  BY <1>1, <1>2 DEF PartsContent, Bodies
<1> QED
  BY <1>3, <1>4, TextIsHom, PartsIsHom DEF MessageContent

\* What a user said beside tool results, as a message.
LEMMA UserMessageType ==
  ASSUME NEW catalog, NEW blocks \in Seq(Things)
  PROVE  Message("user", MessageContent(blocks), <<>>, "") \in Silent(catalog)
<1>1. MessageContent(blocks) \in Bodies(catalog)
  BY MessageContentType
<1>2. "" \in Strings /\ <<>> \in Seq(Callees)
  BY DEF Strings
<1> QED
  BY <1>1, <1>2 DEF Message, Chats, Silent

\* Only a block that is a call gives one.
LEMMA CallIsUse ==
  ASSUME NEW b \in Things
  PROVE  b.type # "tool_use" => callOf[b] = <<>> /\ useOf[b] = <<>>
  BY DEF callOf, useOf

\* What appendMessage makes of a user's message: answers, and then the rest.
LEMMA UserConverted ==
  ASSUME NEW catalog, NEW m \in UserMessages
  PROVE  LET blocks == Blocks(m.content)
         IN Converted(m, catalog) =
              Hom(answerOf(catalog), blocks)
                \o (IF Hom(partOf, blocks) = <<>> THEN <<>>
                    ELSE <<Message("user", MessageContent(blocks), <<>>, "")>>)
<1> DEFINE blocks == Blocks(m.content)
<1>1. m.role = "user" /\ blocks \in Seq(UserBlocks) /\ blocks \in Seq(Things)
  BY UserBlocksOf
<1> HIDE DEF blocks
<1>2. ToolCalls(blocks) = <<>>
  <2>1. \A b \in UserBlocks : b.type # "tool_use"
    BY DEF UserBlocks, Texts, Images, Results
  <2>2. \A i \in DOMAIN blocks : callOf[blocks[i]] = <<>>
    BY <1>1, <2>1, CallIsUse
  <2>3. Hom(callOf, blocks) = <<>>
    BY <1>1, <2>2, LoopsTyped, HomIsEmpty
  <2> QED
    BY <1>1, <2>3, ToolCallsIsHom
<1>3. Parts(blocks) = Hom(partOf, blocks) /\ ToolMessages(blocks, catalog) = Hom(answerOf(catalog), blocks)
  BY <1>1, PartsIsHom, ToolMessagesIsHom
<1> QED
  BY <1>1, <1>2, <1>3 DEF Converted, blocks

\* What it makes of a model's: one turn, or none of thinking alone.
LEMMA ModelConverted ==
  ASSUME NEW catalog, NEW m \in ModelMessages
  PROVE  LET blocks == Blocks(m.content)
             text   == Hom(textOf, blocks)
             calls  == Hom(callOf, blocks)
         IN Converted(m, catalog) =
              IF text = <<>> /\ calls = <<>> THEN <<>>
              ELSE <<Message("assistant", TextContent(text), calls, "")>>
<1> DEFINE blocks == Blocks(m.content)
<1>1. m.role = "assistant" /\ blocks \in Seq(ModelBlocks) /\ blocks \in Seq(Things)
  BY ModelBlocksOf
<1> HIDE DEF blocks
<1>2. \A i \in DOMAIN blocks : blocks[i] \in ModelBlocks /\ blocks[i] \in Things
  BY <1>1
<1>3. ToolMessages(blocks, catalog) = <<>>
  <2>1. \A b \in ModelBlocks : b.type # "tool_result"
    BY DEF ModelBlocks, Spelt, Texts, Uses, Thoughts
  <2>2. \A i \in DOMAIN blocks : answerOf(catalog)[blocks[i]] = <<>>
    BY <1>2, <2>1 DEF answerOf
  <2>3. Hom(answerOf(catalog), blocks) = <<>>
    BY <1>1, <2>2, AnswerType, HomIsEmpty
  <2> QED
    BY <1>1, <2>3, ToolMessagesIsHom
<1>4. Parts(blocks) = <<>> <=> Hom(textOf, blocks) = <<>>
  <2>1. ASSUME NEW b \in ModelBlocks PROVE partOf[b] = <<>> <=> textOf[b] = <<>>
    <3>1. b \in Things /\ b.type # "image" /\ (b.type = "text" => b.text # <<>>)
      BY BlocksAreThings DEF ModelBlocks, Spelt, Texts, Uses, Thoughts
    <3> QED
      BY <3>1 DEF partOf, textOf
  <2>2. Hom(partOf, blocks) = <<>> <=> \A i \in DOMAIN blocks : partOf[blocks[i]] = <<>>
    BY <1>1, LoopsTyped, HomIsEmpty
  <2>3. Hom(textOf, blocks) = <<>> <=> \A i \in DOMAIN blocks : textOf[blocks[i]] = <<>>
    BY <1>1, LoopsTyped, HomIsEmpty
  <2> QED
    BY <1>1, <1>2, <2>1, <2>2, <2>3, PartsIsHom
<1>5. MessageContent(blocks) = TextContent(Hom(textOf, blocks))
  <2>1. \A b \in ModelBlocks : b.type # "image"
    BY DEF ModelBlocks, Spelt, Texts, Uses, Thoughts
  <2>2. \A b \in ToSet(blocks) : b.type # "image"
    BY <1>2, <2>1 DEF ToSet
  <2> QED
    BY <1>1, <2>2, TextIsHom DEF MessageContent
<1>6. ToolCalls(blocks) = Hom(callOf, blocks)
  BY <1>1, ToolCallsIsHom
<1> DEFINE rest == IF Parts(blocks) = <<>> /\ ToolCalls(blocks) = <<>> THEN <<>>
                   ELSE <<Message(IF ToolCalls(blocks) # <<>> THEN "assistant" ELSE m.role,
                                  MessageContent(blocks), ToolCalls(blocks), "")>>
<1>7. Converted(m, catalog) = <<>> \o rest
  BY <1>3 DEF Converted, blocks
<1>8. rest = IF Hom(textOf, blocks) = <<>> /\ Hom(callOf, blocks) = <<>> THEN <<>>
             ELSE <<Message("assistant", TextContent(Hom(textOf, blocks)), Hom(callOf, blocks), "")>>
  BY <1>1, <1>4, <1>5, <1>6
<1>9. \A x : <<>> \o <<x>> = <<x>> /\ <<>> \o <<>> = <<>>
  OBVIOUS
<1> HIDE DEF rest
<1>10. <<>> \o rest = rest
  BY <1>8, <1>9
<1> QED
  BY <1>7, <1>8, <1>10 DEF blocks

\* Nothing a user sent becomes a turn of the model.
LEMMA UserIsSilent ==
  ASSUME NEW catalog, NEW m \in UserMessages
  PROVE  Converted(m, catalog) \in Seq(Silent(catalog))
<1> DEFINE blocks == Blocks(m.content)
           rest   == IF Hom(partOf, blocks) = <<>> THEN <<>>
                     ELSE <<Message("user", MessageContent(blocks), <<>>, "")>>
<1>1. blocks \in Seq(Things)
  BY UserBlocksOf
<1>2. Converted(m, catalog) = Hom(answerOf(catalog), blocks) \o rest
  BY UserConverted
<1> HIDE DEF blocks
<1>3. Hom(answerOf(catalog), blocks) \in Seq(Silent(catalog))
  <2>1. Hom(answerOf(catalog), blocks) \in Seq(Answers(catalog))
    BY <1>1, AnswerType, HomType
  <2>2. Answers(catalog) \subseteq Silent(catalog)
    BY DEF Answers, Silent
  <2> QED
    BY <2>1, <2>2, SeqMonotonic
<1>4. rest \in Seq(Silent(catalog))
  <2>1. Message("user", MessageContent(blocks), <<>>, "") \in Silent(catalog)
    BY <1>1, UserMessageType
  <2>2. \A x \in Silent(catalog) : <<x>> \in Seq(Silent(catalog)) /\ <<>> \in Seq(Silent(catalog))
    OBVIOUS
  <2> QED
    BY <2>1, <2>2
<1> QED
  BY <1>2, <1>3, <1>4, ConcatProperties

\* It makes messages of the Chat Completions API.
LEMMA ConvertedType ==
  ASSUME NEW catalog, NEW m \in History
  PROVE  Converted(m, catalog) \in Seq(Chats(catalog))
<1> DEFINE blocks == Blocks(m.content)
<1>1. CASE m \in UserMessages
  <2>1. Silent(catalog) \subseteq Chats(catalog)
    BY DEF Silent
  <2> QED
    BY <1>1, <2>1, UserIsSilent, SeqMonotonic
<1>2. CASE m \in ModelMessages
  <2>1. blocks \in Seq(Things)
    BY <1>2, ModelBlocksOf
  <2> HIDE DEF blocks
  <2>2. Hom(textOf, blocks) \in Seq(STRING) /\ Hom(callOf, blocks) \in Seq(Callees)
    BY <2>1, LoopsTyped, HomType
  <2>3. <<>> \in Seq(Texts \cup Urls) /\ <<>> \in Seq({catalog[n] : n \in STRING}) /\ "" \in Strings
    BY DEF Strings
  <2>4. TextContent(Hom(textOf, blocks)) \in Bodies(catalog)
    BY <2>2, <2>3 DEF TextContent, Bodies
  <2>5. Message("assistant", TextContent(Hom(textOf, blocks)), Hom(callOf, blocks), "") \in Chats(catalog)
    BY <2>2, <2>3, <2>4 DEF Message, Chats
  <2>6. \A x \in Chats(catalog) : <<x>> \in Seq(Chats(catalog)) /\ <<>> \in Seq(Chats(catalog))
    OBVIOUS
  <2> QED
    BY <1>2, <2>5, <2>6, ModelConverted DEF blocks
<1> QED
  BY <1>1, <1>2 DEF History

-----------------------------------------------------------------------------
(* What a model said is what its blocks say.                               *)

\* What replies are made of, and what blocks are made of them.
Fragments == Spelt \cup Calls \cup Refusals
Written   == Spelt \cup Uses

\* The loops go over fragments as well as over the blocks made of them.
LEMMA FragmentsAreThings ==
  /\ Fragments \subseteq Things /\ Written \subseteq Things
  /\ Seq(Fragments) \subseteq Seq(Things) /\ Seq(Written) \subseteq Seq(Things)
<1>1. Fragments \subseteq Things /\ Written \subseteq Things
  BY DEF Fragments, Written, Spelt, Things
<1> QED
  BY <1>1, SeqMonotonic

\* The loops over two sequences, for the three that replies need.
LEMMA LoopsConcat ==
  ASSUME NEW s \in Seq(Things), NEW t \in Seq(Things)
  PROVE  /\ Hom(textOf, s \o t) = Hom(textOf, s) \o Hom(textOf, t)
         /\ Hom(useOf, s \o t) = Hom(useOf, s) \o Hom(useOf, t)
         /\ Hom(callOf, s \o t) = Hom(callOf, s) \o Hom(callOf, t)
<1>1. Hom(textOf, s \o t) = Hom(textOf, s) \o Hom(textOf, t)
  <2>1. textOf \in Pieces(Things, STRING)
    BY LoopsTyped
  <2>2. \A x, y \in Seq(Things) : Hom(textOf, x \o y) = Hom(textOf, x) \o Hom(textOf, y)
    BY <2>1, HomConcat
  <2> QED
    BY <2>2
<1>2. Hom(useOf, s \o t) = Hom(useOf, s) \o Hom(useOf, t)
  <2>1. useOf \in Pieces(Things, Uses)
    BY LoopsTyped
  <2>2. \A x, y \in Seq(Things) : Hom(useOf, x \o y) = Hom(useOf, x) \o Hom(useOf, y)
    BY <2>1, HomConcat
  <2> QED
    BY <2>2
<1>3. Hom(callOf, s \o t) = Hom(callOf, s) \o Hom(callOf, t)
  <2>1. callOf \in Pieces(Things, Callees)
    BY LoopsTyped
  <2>2. \A x, y \in Seq(Things) : Hom(callOf, x \o y) = Hom(callOf, x) \o Hom(callOf, y)
    BY <2>1, HomConcat
  <2> QED
    BY <2>2
<1> QED
  BY <1>1, <1>2, <1>3

\* The blocks say the same as the fragments of the reply.
SameTurn(blocks, fragments) ==
  /\ blocks \in Seq(Written)
  /\ Hom(textOf, blocks) = Hom(textOf, fragments)
  /\ Hom(callOf, blocks) = Hom(spokenOf, fragments)

\* An input that encoding puts in says what no arguments said.
LEMMA EncodedIsSame ==
  ASSUME NEW blocks \in Seq(Written), NEW fragments, SameTurn(blocks, fragments)
  PROVE  SameTurn(Encoded(blocks), fragments)
<1> DEFINE e(b) == IF b.type = "tool_use" /\ b.input = "" THEN [b EXCEPT !.input = "{}"] ELSE b
<1>1. ASSUME NEW b \in Written
      PROVE  e(b) \in Written /\ textOf[e(b)] = textOf[b] /\ callOf[e(b)] = callOf[b]
  <2>1. CASE b \in Uses /\ b.input = ""
    <3>1. e(b) = [type |-> "tool_use", id |-> b.id, name |-> b.name, input |-> "{}"]
      BY <2>1 DEF Uses
    <3>2. e(b) \in Uses
      BY <2>1, <3>1 DEF Uses, Strings
    <3>3. e(b) \in Things /\ b \in Things
      BY <2>1, <3>2 DEF Things
    <3>4. e(b).type = "tool_use" /\ e(b).id = b.id /\ e(b).name = b.name /\ e(b).input = "{}" /\ b.type = "tool_use"
      BY <2>1, <3>1 DEF Uses
    <3> HIDE DEF e
    <3>5. ToolArguments(e(b).input) = ToolArguments(b.input)
      BY <2>1, <3>4 DEF ToolArguments
    <3>6. textOf[e(b)] = textOf[b]
      BY <3>3, <3>4 DEF textOf
    <3>7. callOf[e(b)] = callOf[b]
      BY <3>3, <3>4, <3>5 DEF callOf
    <3> QED
      BY <3>2, <3>6, <3>7 DEF Written
  <2>2. CASE b \in Uses /\ b.input # ""
    BY <2>2
  <2>3. CASE b \in Spelt
    BY <2>3 DEF Spelt, Texts
  <2> QED
    BY <2>1, <2>2, <2>3 DEF Written
<1>2. Encoded(blocks) = [i \in DOMAIN blocks |-> e(blocks[i])]
  BY DEF Encoded, Mapped
<1> HIDE DEF e
<1>3. DOMAIN blocks = 1 .. Len(blocks) /\ Len(blocks) \in Nat /\ \A i \in DOMAIN blocks : blocks[i] \in Written
  OBVIOUS
<1>4. Encoded(blocks) \in Seq(Written)
  BY <1>1, <1>2, <1>3
<1>5. DOMAIN Encoded(blocks) = DOMAIN blocks /\ \A i \in DOMAIN blocks : Encoded(blocks)[i] = e(blocks[i])
  BY <1>2
<1>6. Hom(textOf, Encoded(blocks)) = Hom(textOf, blocks)
  BY <1>1, <1>3, <1>5, HomSame
<1>7. Hom(callOf, Encoded(blocks)) = Hom(callOf, blocks)
  BY <1>1, <1>3, <1>5, HomSame
<1> QED
  BY <1>4, <1>6, <1>7 DEF SameTurn

\* A call says the same as a block and as a fragment.
LEMMA UseGives ==
  ASSUME NEW f \in Calls, NEW input \in Strings
  PROVE  /\ ToolUse(f.id, f.name, input) \in Uses
         /\ textOf[ToolUse(f.id, f.name, input)] = <<>>
         /\ ToolArguments(input) = Meant(f.args) => callOf[ToolUse(f.id, f.name, input)] = spokenOf[f]
<1> DEFINE u == ToolUse(f.id, f.name, input)
<1>1. u \in Uses /\ u.type = "tool_use" /\ u.id = f.id /\ u.name = f.name /\ u.input = input
  BY DEF ToolUse, Uses, Calls
<1>2. f \in Things /\ f.type = "call"
  BY DEF Things, Calls
<1> HIDE DEF u
<1>3. u \in Things
  BY <1>1 DEF Things
<1>4. textOf[u] = <<>>
  BY <1>1, <1>3 DEF textOf
<1>5. ToolArguments(input) = Meant(f.args) => callOf[u] = spokenOf[f]
  BY <1>1, <1>2, <1>3 DEF callOf, spokenOf
<1> QED
  BY <1>1, <1>4, <1>5 DEF u

\* Text says text, and no call.
LEMMA SpeltGives ==
  ASSUME NEW t \in Spelt
  PROVE  /\ t.text \in Seq(STRING) /\ t.text # <<>>
         /\ textOf[t] = t.text /\ callOf[t] = <<>> /\ spokenOf[t] = <<>> /\ toolUseOf[t] = <<>>
<1>1. t \in Things /\ t.type = "text" /\ t.text \in Seq(STRING) /\ t.text # <<>>
  BY DEF Spelt, Texts, Things
<1> QED
  BY <1>1 DEF textOf, callOf, spokenOf, toolUseOf

\* A text that is not empty, as a block.
LEMMA TextBlockIsSpelt ==
  ASSUME NEW text \in Seq(STRING), text # <<>>
  PROVE  TextBlock(text) \in Spelt /\ TextBlock(text).text = text
  BY DEF TextBlock, Spelt, Texts

\* A reply that was not streamed.
LEMMA ResponseIsSame ==
  ASSUME NEW r \in Seq(Fragments)
  PROVE  SameTurn(Response(r), r)
<1> DEFINE text  == Hom(textOf, r)
           first == IF text = <<>> THEN <<>> ELSE <<TextBlock(text)>>
           uses  == Hom(toolUseOf, r)
<1>1. r \in Seq(Things) /\ text \in Seq(STRING) /\ uses \in Seq(Uses)
  BY FragmentsAreThings, LoopsTyped, HomType
<1>2. Response(r) = first \o uses
  BY <1>1, TextIsHom, ToolUsesIsHom DEF Response
<1>3. first \in Seq(Written) /\ uses \in Seq(Written)
  <2>1. text # <<>> => TextBlock(text) \in Written
    BY <1>1, TextBlockIsSpelt DEF Written
  <2>2. uses \in Seq(Written)
    <3>1. Uses \subseteq Written
      BY DEF Written
    <3> QED
      BY <1>1, <3>1, SeqMonotonic
  <2> QED
    BY <2>1, <2>2
<1>4. Hom(textOf, first) = text /\ Hom(callOf, first) = <<>>
  <2>1. CASE text = <<>>
    BY <2>1, HomEmpty
  <2>2. CASE text # <<>>
    <3>1. TextBlock(text) \in Spelt /\ TextBlock(text).text = text /\ TextBlock(text) \in Things
      BY <1>1, <2>2, TextBlockIsSpelt DEF Spelt, Things
    <3>2. textOf[TextBlock(text)] = text /\ callOf[TextBlock(text)] = <<>>
      BY <3>1, SpeltGives
    <3>3. Hom(textOf, <<TextBlock(text)>>) = textOf[TextBlock(text)]
          /\ Hom(callOf, <<TextBlock(text)>>) = callOf[TextBlock(text)]
      BY <3>1, LoopsTyped, HomOne
    <3> QED
      BY <2>2, <3>2, <3>3
  <2> QED
    BY <2>1, <2>2
<1>5. Hom(textOf, uses) = <<>>
  <2>1. \A b \in Uses : b \in Things /\ textOf[b] = <<>>
    BY DEF Uses, Things, textOf
  <2>2. uses \in Seq(Things) /\ \A i \in DOMAIN uses : textOf[uses[i]] = <<>>
    BY <1>1, <2>1
  <2> HIDE DEF uses
  <2> QED
    BY <2>2, LoopsTyped, HomIsEmpty
<1>6. Hom(callOf, uses) = Hom(spokenOf, r)
  <2>1. toolUseOf \in Pieces(Things, Things)
    <3>1. Uses \subseteq Things
      BY DEF Things
    <3>2. Seq(Uses) \subseteq Seq(Things)
      BY <3>1, SeqMonotonic
    <3> QED
      BY <3>2, LoopsTyped DEF Pieces
  <2>2. ASSUME NEW f \in Things PROVE spokenOf[f] = Hom(callOf, toolUseOf[f])
    <3>1. CASE f.type = "call"
      <4> DEFINE u == ToolUse(f.id, f.name, ToolInput(f.args))
      <4>1. f \in Calls /\ ToolInput(f.args) \in Strings
        BY <3>1, Kinds DEF ToolInput, Strings
      <4>2. ToolArguments(ToolInput(f.args)) = Meant(f.args)
        BY DEF ToolArguments, ToolInput, Meant
      <4>3. u \in Uses /\ callOf[u] = spokenOf[f]
        BY <4>1, <4>2, UseGives
      <4>4. toolUseOf[f] = <<u>>
        BY <3>1 DEF toolUseOf
      <4> HIDE DEF u
      <4>5. u \in Things
        BY <4>3 DEF Things
      <4>6. Hom(callOf, <<u>>) = callOf[u]
        BY <4>5, LoopsTyped, HomOne
      <4> QED
        BY <4>3, <4>4, <4>6
    <3>2. CASE f.type # "call"
      <4>1. spokenOf[f] = <<>> /\ toolUseOf[f] = <<>>
        BY <3>2 DEF spokenOf, toolUseOf
      <4> QED
        BY <4>1, HomEmpty
    <3> QED
      BY <3>1, <3>2
  <2> QED
    BY <1>1, <2>1, <2>2, LoopsTyped, HomOfHom
<1> HIDE DEF first, uses, text
<1>7. first \in Seq(Things) /\ uses \in Seq(Things) /\ first \o uses \in Seq(Written)
  BY <1>3, FragmentsAreThings, ConcatProperties
<1>8. Hom(textOf, first \o uses) = text
  <2>1. Hom(textOf, first \o uses) = Hom(textOf, first) \o Hom(textOf, uses)
    BY <1>7, LoopsConcat
  <2> QED
    BY <1>1, <1>4, <1>5, <2>1, ConcatEmptySeq
<1>9. Hom(callOf, first \o uses) = Hom(spokenOf, r)
  <2>1. Hom(callOf, first \o uses) = Hom(callOf, first) \o Hom(callOf, uses)
    BY <1>7, LoopsConcat
  <2>2. Hom(spokenOf, r) \in Seq(Callees)
    BY <1>1, LoopsTyped, HomType
  <2> QED
    BY <1>4, <1>6, <2>1, <2>2, ConcatEmptySeq
<1> QED
  BY <1>2, <1>7, <1>8, <1>9 DEF SameTurn, text

\* A streamed reply grows by one fragment.
LEMMA GrownGives ==
  ASSUME NEW blocks \in Seq(Written), NEW f \in Fragments
  PROVE  /\ Grown(blocks, f) \in Seq(Written)
         /\ Hom(textOf, Grown(blocks, f)) = Hom(textOf, blocks) \o textOf[f]
         /\ Hom(callOf, Grown(blocks, f)) = Hom(callOf, blocks) \o spokenOf[f]
<1>1. blocks \in Seq(Things) /\ f \in Things
  BY FragmentsAreThings
<1>2. /\ Hom(textOf, blocks) \in Seq(STRING) /\ Hom(callOf, blocks) \in Seq(Callees)
  BY <1>1, LoopsTyped, HomType
<1>3. ASSUME NEW b \in Written
      PROVE  /\ Append(blocks, b) \in Seq(Written)
             /\ Hom(textOf, Append(blocks, b)) = Hom(textOf, blocks) \o textOf[b]
             /\ Hom(callOf, Append(blocks, b)) = Hom(callOf, blocks) \o callOf[b]
  <2>1. b \in Things
    BY FragmentsAreThings
  <2> QED
    BY <1>1, <2>1, LoopsTyped, HomAppend
<1>4. CASE f \in Calls
  <2> DEFINE u == ToolUse(f.id, f.name, f.args)
  <2>1. f.type = "call" /\ f.args \in Strings
    BY <1>4 DEF Calls, Strings
  <2>2. ToolArguments(f.args) = Meant(f.args)
    BY DEF ToolArguments, Meant
  <2>3. u \in Uses /\ textOf[u] = <<>> /\ callOf[u] = spokenOf[f]
    BY <1>4, <2>1, <2>2, UseGives
  <2>4. Grown(blocks, f) = Append(blocks, u)
    BY <2>1 DEF Grown
  <2>5. textOf[f] = <<>>
    BY <1>1, <2>1 DEF textOf
  <2> HIDE DEF u
  <2>6. u \in Written
    BY <2>3 DEF Written
  <2> QED
    BY <1>3, <2>3, <2>4, <2>5, <2>6
<1>5. CASE f \in Spelt /\ blocks # <<>> /\ Last(blocks).type = "text"
  <2> DEFINE front == Front(blocks)
             last  == Last(blocks)
             b     == TextBlock(last.text \o f.text)
  <2>1. f.type = "text" /\ f.text \in Seq(STRING) /\ f.text # <<>> /\ textOf[f] = f.text /\ spokenOf[f] = <<>>
    BY <1>5, SpeltGives DEF Spelt, Texts
  <2>2. Grown(blocks, f) = Append(front, b)
    BY <1>5, <2>1 DEF Grown
  <2>3. last \in Spelt /\ last \in Written
    <3>1. Len(blocks) \in DOMAIN blocks
      BY <1>1, <1>5
    <3>2. last \in Written
      BY <1>1, <3>1 DEF Last
    <3> QED
      BY <1>5, <3>2 DEF Written, Uses
  <2>4. front \in Seq(Written) /\ Append(front, last) = blocks
    <3>1. Len(blocks) \in Nat /\ Len(blocks) # 0
      BY <1>1, <1>5
    <3> DEFINE n == Len(blocks) - 1
    <3>2. n \in Nat /\ n \in Int /\ 1 \in Int /\ Len(blocks) = n + 1
      BY <3>1
    <3>3. \A i \in 1 .. n : blocks[i] \in Written
      BY <1>1, <3>2
    <3>4. front = SubSeq(blocks, 1, n)
      BY DEF Front
    <3> HIDE DEF n
    <3>5. front \in Seq(Written) /\ Len(front) = n /\ \A i \in 1 .. n : front[i] = blocks[i]
      <4>1. SubSeq(blocks, 1, n) \in Seq(Written) /\ Len(SubSeq(blocks, 1, n)) = (IF 1 <= n THEN n - 1 + 1 ELSE 0)
            /\ \A i \in 1 .. n - 1 + 1 : SubSeq(blocks, 1, n)[i] = blocks[1 + i - 1]
        BY <3>2, <3>3, SubSeqProperties
      <4>2. n - 1 + 1 = n /\ \A i \in 1 .. n : 1 + i - 1 = i
        BY <3>2
      <4>3. \A i \in 1 .. n : SubSeq(blocks, 1, n)[i] = blocks[i]
        BY <4>1, <4>2
      <4>4. Len(SubSeq(blocks, 1, n)) = n
        BY <3>2, <4>1, <4>2
      <4> QED
        BY <3>4, <4>1, <4>3, <4>4
    <3> HIDE DEF front
    <3>6. last = blocks[n + 1]
      BY <3>2 DEF Last
    <3> HIDE DEF last
    <3>7. Append(front, last) \in Seq(Written) /\ Len(Append(front, last)) = n + 1
      BY <2>3, <3>5
    <3>8. ASSUME NEW i \in 1 .. n + 1 PROVE Append(front, last)[i] = blocks[i]
      BY <2>3, <3>2, <3>5, <3>6
    <3>9. Append(front, last) = blocks
      BY <1>1, <3>2, <3>7, <3>8, SeqEqual
    <3> QED
      BY <3>5, <3>9
  <2>5. last.text \in Seq(STRING) /\ last.text # <<>> /\ textOf[last] = last.text /\ callOf[last] = <<>>
    BY <2>3, SpeltGives
  <2>6. last.text \o f.text \in Seq(STRING) /\ last.text \o f.text # <<>>
    BY <2>1, <2>5, ConcatProperties, ConcatEqualIffEmpty
  <2>7. b \in Spelt /\ textOf[b] = last.text \o f.text /\ callOf[b] = <<>>
    BY <2>6, TextBlockIsSpelt, SpeltGives
  <2> HIDE DEF front, last, b
  <2>8. front \in Seq(Things) /\ last \in Things /\ b \in Things /\ b \in Written
    BY <2>3, <2>4, <2>7, FragmentsAreThings DEF Written
  <2>9. /\ Hom(textOf, Append(front, b)) = Hom(textOf, front) \o textOf[b]
        /\ Hom(callOf, Append(front, b)) = Hom(callOf, front) \o callOf[b]
        /\ Hom(textOf, Append(front, last)) = Hom(textOf, front) \o textOf[last]
        /\ Hom(callOf, Append(front, last)) = Hom(callOf, front) \o callOf[last]
        /\ Hom(textOf, front) \in Seq(STRING)
    BY <2>8, LoopsTyped, HomAppend, HomType
  <2>10. Hom(textOf, front) \o (last.text \o f.text) = (Hom(textOf, front) \o last.text) \o f.text
    <3>1. \A x, y, z \in Seq(STRING) : (x \o y) \o z = x \o (y \o z)
      BY ConcatAssociative
    <3> QED
      BY <2>1, <2>5, <2>9, <3>1
  <2>11. Hom(callOf, blocks) \o <<>> = Hom(callOf, blocks)
    BY <1>2, ConcatEmptySeq
  <2>12. Hom(textOf, Grown(blocks, f)) = Hom(textOf, blocks) \o textOf[f]
    BY <2>1, <2>2, <2>4, <2>5, <2>7, <2>9, <2>10
  <2>13. Hom(callOf, Grown(blocks, f)) = Hom(callOf, blocks) \o spokenOf[f]
    BY <2>1, <2>2, <2>4, <2>5, <2>7, <2>9, <2>11
  <2>14. Grown(blocks, f) \in Seq(Written)
    BY <2>2, <2>4, <2>8, AppendProperties
  <2> QED
    BY <2>12, <2>13, <2>14
<1>6. CASE f \in Spelt /\ ~ (blocks # <<>> /\ Last(blocks).type = "text")
  <2>1. f.type = "text" /\ spokenOf[f] = <<>> /\ callOf[f] = <<>> /\ f \in Written
    BY <1>6, SpeltGives DEF Spelt, Texts, Written
  <2>2. Grown(blocks, f) = Append(blocks, f)
    BY <1>6, <2>1 DEF Grown
  <2> QED
    BY <1>3, <2>1, <2>2
<1>7. CASE f \in Refusals
  <2>1. f.type = "refusal"
    BY <1>7 DEF Refusals
  <2>2. Grown(blocks, f) = blocks
    BY <2>1 DEF Grown
  <2>3. textOf[f] = <<>> /\ spokenOf[f] = <<>>
    BY <1>1, <2>1 DEF textOf, spokenOf
  <2> QED
    BY <1>2, <2>2, <2>3, ConcatEmptySeq
<1> QED
  BY <1>4, <1>5, <1>6, <1>7 DEF Fragments

\* A streamed reply.
LEMMA StreamedIsSame ==
  ASSUME NEW r \in Seq(Fragments)
  PROVE  SameTurn(Streamed(r), r)
<1> DEFINE n == Len(r)
           V == Seq(Written)
           none == <<>>
           step == [p \in V \X (1 .. n) |-> Grown(p[1], r[p[2]])]
           Equation(g) == g = [k \in 0 .. n |-> IF k = 0 THEN <<>> ELSE Grown(g[k - 1], r[k])]
           grown == CHOOSE g : Equation(g)
<1>1. n \in Nat /\ DOMAIN r = 1 .. n /\ (\A k \in 1 .. n : r[k] \in Fragments) /\ none \in V
  OBVIOUS
<1>2. Streamed(r) = grown[n]
  BY DEF Streamed
<1>3. \E g : Equation(g)
  <2>1. step \in [V \X (1 .. n) -> V] /\ \A s \in V, k \in 1 .. n : step[<<s, k>>] = Grown(s, r[k])
    BY <1>1, GrownGives
  <2>2. \E g \in [0 .. n -> V] : Steps(g, none, n, step)
    <3> HIDE DEF V, n, none, step
    <3> QED
      BY <1>1, <2>1, Recursion, Zenon
  <2>3. PICK g \in [0 .. n -> V] : Steps(g, none, n, step)
    BY <2>2
  <2> HIDE DEF step, n, V
  <2>4. g[0] = <<>> /\ \A k \in 1 .. n : g[k] = step[<<g[k - 1], k>>]
    BY <2>3 DEF Steps
  <2>5. ASSUME NEW k \in 0 .. n PROVE g[k] = IF k = 0 THEN <<>> ELSE Grown(g[k - 1], r[k])
    <3>1. CASE k = 0
      BY <2>4, <3>1
    <3>2. CASE k # 0
      <4>1. k \in 1 .. n /\ k - 1 \in 0 .. n
        BY <1>1, <3>2
      <4>2. g[k - 1] \in V
        BY <4>1
      <4> QED
        BY <2>1, <2>4, <3>2, <4>1, <4>2
    <3> QED
      BY <3>1, <3>2
  <2>6. g = [k \in 0 .. n |-> IF k = 0 THEN <<>> ELSE Grown(g[k - 1], r[k])]
    BY <2>5
  <2> QED
    BY <2>6
<1>4. Equation(grown)
  <2> HIDE DEF Equation
  <2> QED
    BY <1>3
<1>5. grown[0] = <<>> /\ \A k \in 1 .. n : grown[k] = Grown(grown[k - 1], r[k])
  <2> HIDE DEF grown
  <2>1. \A k \in 0 .. n : grown[k] = IF k = 0 THEN <<>> ELSE Grown(grown[k - 1], r[k])
    BY <1>4
  <2>2. 0 \in 0 .. n /\ \A k \in 1 .. n : k \in 0 .. n /\ k # 0
    BY <1>1
  <2> HIDE DEF Equation, n
  <2> QED
    BY <2>1, <2>2
<1> HIDE DEF grown, Equation
<1> DEFINE prefix(k) == SubSeq(r, 1, k)
           S == {k \in Nat : k <= n => SameTurn(grown[k], prefix(k))}
<1>6. 0 \in S
  <2>1. prefix(0) = <<>> /\ <<>> \in Seq(Written)
    OBVIOUS
  <2>2. SameTurn(<<>>, <<>>)
    BY <2>1, HomEmpty DEF SameTurn
  <2> QED
    BY <1>5, <2>1, <2>2
<1>7. ASSUME NEW k \in Nat, k \in S PROVE k + 1 \in S
  <2> SUFFICES ASSUME k + 1 <= n PROVE SameTurn(grown[k + 1], prefix(k + 1))
    OBVIOUS
  <2>1. k + 1 \in 1 .. n /\ (k + 1) - 1 = k /\ k <= n
    BY <1>1
  <2>2. SameTurn(grown[k], prefix(k)) /\ grown[k + 1] = Grown(grown[k], r[k + 1]) /\ r[k + 1] \in Fragments
    BY <1>1, <1>5, <1>7, <2>1
  <2>3. prefix(k) \in Seq(Fragments) /\ prefix(k + 1) = Append(prefix(k), r[k + 1])
    BY <1>1, <2>1, <2>2
  <2> HIDE DEF prefix
  <2>4. prefix(k) \in Seq(Things) /\ r[k + 1] \in Things /\ grown[k] \in Seq(Written)
    BY <2>2, <2>3, FragmentsAreThings DEF SameTurn
  <2>5. /\ Hom(textOf, prefix(k + 1)) = Hom(textOf, prefix(k)) \o textOf[r[k + 1]]
        /\ Hom(spokenOf, prefix(k + 1)) = Hom(spokenOf, prefix(k)) \o spokenOf[r[k + 1]]
    BY <2>3, <2>4, LoopsTyped, HomAppend
  <2> QED
    BY <2>2, <2>4, <2>5, GrownGives DEF SameTurn
<1>8. n \in S
  <2> HIDE DEF S
  <2> QED
    BY <1>1, <1>6, <1>7, Induction
<1>9. prefix(n) = r
  OBVIOUS
<1>10. SameTurn(grown[n], prefix(n))
  BY <1>1, <1>8
<1> HIDE DEF n, prefix
<1> QED
  BY <1>2, <1>9, <1>10

-----------------------------------------------------------------------------
(* The messages of a request, as the history grows.                        *)

\* What Request makes of a history, whether or not it is Translatable.
Conversed(prompt, catalog, messages) ==
  SystemMessage(prompt) \o Each(messages, LAMBDA m : Converted(m, catalog))

\* What appendMessage makes of a message, as a function of it.
convertedOf(catalog) == [m \in History |-> Converted(m, catalog)]

\* The loop over the messages of a request.
LEMMA ConvertedIsHom ==
  ASSUME NEW catalog
  PROVE  /\ convertedOf(catalog) \in Pieces(History, Chats(catalog))
         /\ \A h \in Seq(History) : Each(h, LAMBDA m : Converted(m, catalog)) = Hom(convertedOf(catalog), h)
<1>1. convertedOf(catalog) \in Pieces(History, Chats(catalog))
  BY ConvertedType DEF convertedOf, Pieces
<1>2. ASSUME NEW h \in Seq(History)
      PROVE  Each(h, LAMBDA m : Converted(m, catalog)) = Hom(convertedOf(catalog), h)
  <2>1. \A i \in DOMAIN h : convertedOf(catalog)[h[i]] = Converted(h[i], catalog)
    BY DEF convertedOf
  <2>2. [i \in DOMAIN h |-> Converted(h[i], catalog)] = [i \in DOMAIN h |-> convertedOf(catalog)[h[i]]]
    BY <2>1
  <2> QED
    BY <2>2 DEF Each, Mapped, Hom
<1> QED
  BY <1>1, <1>2

\* The system prompt is one message of text, or none.
LEMMA SystemType ==
  ASSUME NEW catalog, NEW prompt \in Seq(Texts \cup Images)
  PROVE  /\ WithoutAttribution(prompt) \in Seq(Things)
         /\ SystemMessage(prompt) \in Seq(Silent(catalog))
         /\ SystemMessage(prompt) =
              LET text == Hom(textOf, WithoutAttribution(prompt))
              IN IF text = <<>> THEN <<>> ELSE <<Message("system", TextContent(text), <<>>, "")>>
<1> DEFINE rest == WithoutAttribution(prompt)
           text == Hom(textOf, rest)
<1>1. rest \in Seq(Things)
  <2>1. rest \in Seq(Texts \cup Images)
    BY HeadTailProperties DEF WithoutAttribution
  <2> QED
    BY <2>1, BlocksAreThings, SeqMonotonic
<1> HIDE DEF rest
<1>2. SystemMessage(prompt) = IF text = <<>> THEN <<>> ELSE <<Message("system", TextContent(text), <<>>, "")>>
  BY <1>1, TextIsHom DEF SystemMessage, rest
<1>3. text \in Seq(STRING)
  BY <1>1, LoopsTyped, HomType
<1> HIDE DEF text
<1>4. Message("system", TextContent(text), <<>>, "") \in Silent(catalog)
  <2>1. <<>> \in Seq(Texts \cup Urls) /\ <<>> \in Seq({catalog[n] : n \in STRING}) /\ <<>> \in Seq(Callees)
        /\ "" \in Strings
    BY DEF Strings
  <2>2. TextContent(text) \in Bodies(catalog)
    BY <1>3, <2>1 DEF TextContent, Bodies
  <2> QED
    BY <2>1, <2>2 DEF Message, Chats, Silent
<1>5. \A x \in Silent(catalog) : <<x>> \in Seq(Silent(catalog)) /\ <<>> \in Seq(Silent(catalog))
  OBVIOUS
<1>6. SystemMessage(prompt) \in Seq(Silent(catalog))
  BY <1>2, <1>4, <1>5
<1> QED
  BY <1>1, <1>2, <1>6 DEF rest, text

\* One more message of the history adds what is made of it, and changes nothing before.
LEMMA ConversedGrows ==
  ASSUME NEW catalog, NEW prompt \in Seq(Texts \cup Images), NEW h \in Seq(History)
  PROVE  /\ Conversed(prompt, catalog, h) \in Seq(Chats(catalog))
         /\ Conversed(prompt, catalog, h) = SystemMessage(prompt) \o Hom(convertedOf(catalog), h)
         /\ Conversed(prompt, catalog, <<>>) = SystemMessage(prompt)
         /\ \A m \in History :
              Conversed(prompt, catalog, Append(h, m)) = Conversed(prompt, catalog, h) \o Converted(m, catalog)
<1> DEFINE C == Chats(catalog)
           first == SystemMessage(prompt)
           g == convertedOf(catalog)
<1>1. first \in Seq(C)
  <2>1. Silent(catalog) \subseteq C
    BY DEF Silent
  <2> QED
    BY <2>1, SystemType, SeqMonotonic
<1>2. \A s \in Seq(History) : Conversed(prompt, catalog, s) = first \o Hom(g, s) /\ Hom(g, s) \in Seq(C)
  BY ConvertedIsHom, HomType DEF Conversed
<1>3. Conversed(prompt, catalog, <<>>) = first
  <2>1. <<>> \in Seq(History) /\ Hom(g, <<>>) = <<>>
    BY HomEmpty
  <2> QED
    BY <1>1, <1>2, <2>1, ConcatEmptySeq
<1>4. ASSUME NEW m \in History
      PROVE  Conversed(prompt, catalog, Append(h, m)) = Conversed(prompt, catalog, h) \o Converted(m, catalog)
  <2>1. Append(h, m) \in Seq(History)
    OBVIOUS
  <2>2. Hom(g, Append(h, m)) = Hom(g, h) \o g[m]
    BY ConvertedIsHom, HomAppend
  <2>3. g[m] = Converted(m, catalog) /\ g[m] \in Seq(C)
    BY ConvertedType DEF convertedOf
  <2>4. \A x, y, z \in Seq(C) : (x \o y) \o z = x \o (y \o z)
    BY ConcatAssociative
  <2>5. Hom(g, h) \in Seq(C) /\ Conversed(prompt, catalog, h) = first \o Hom(g, h)
    BY <1>2
  <2>6. Conversed(prompt, catalog, Append(h, m)) = first \o Hom(g, Append(h, m))
    BY <1>2, <2>1
  <2> HIDE DEF C, first, g
  <2>7. (first \o Hom(g, h)) \o g[m] = first \o (Hom(g, h) \o g[m])
    BY <1>1, <2>3, <2>4, <2>5
  <2> QED
    BY <2>2, <2>3, <2>5, <2>6, <2>7
<1> QED
  BY <1>1, <1>2, <1>3, <1>4, ConcatProperties

-----------------------------------------------------------------------------
(* The turns of the model among them.                                      *)

\* Turns of a model.
Turned == [text : Seq(STRING), calls : Seq(Callees)]

\* The turn that a message is, if it is one.
echoOf(catalog) ==
  [m \in Chats(catalog) |-> IF m.role = "assistant" THEN <<[text |-> m.content.text, calls |-> m.calls]>> ELSE <<>>]

\* The turns of a model are found by a loop, too.
LEMMA EchoIsHom ==
  ASSUME NEW catalog
  PROVE  /\ echoOf(catalog) \in Pieces(Chats(catalog), Turned)
         /\ \A ms \in Seq(Chats(catalog)) : Echo(ms) = Hom(echoOf(catalog), ms)
<1>1. echoOf(catalog) \in Pieces(Chats(catalog), Turned)
  <2>1. ASSUME NEW m \in Chats(catalog) PROVE <<[text |-> m.content.text, calls |-> m.calls]>> \in Seq(Turned)
    <3>1. m.content.text \in Seq(STRING) /\ m.calls \in Seq(Callees)
      BY DEF Chats, Bodies
    <3>2. [text |-> m.content.text, calls |-> m.calls] \in Turned
      BY <3>1 DEF Turned
    <3> QED
      BY <3>2
  <2>2. <<>> \in Seq(Turned)
    OBVIOUS
  <2> QED
    BY <2>1, <2>2 DEF echoOf, Pieces
<1>2. ASSUME NEW ms \in Seq(Chats(catalog)) PROVE Echo(ms) = Hom(echoOf(catalog), ms)
  <2> DEFINE Op(m) == IF m.role = "assistant" THEN <<[text |-> m.content.text, calls |-> m.calls]>> ELSE <<>>
  <2>1. \A i \in DOMAIN ms : echoOf(catalog)[ms[i]] = Op(ms[i])
    BY DEF echoOf
  <2>2. [i \in DOMAIN ms |-> Op(ms[i])] = [i \in DOMAIN ms |-> echoOf(catalog)[ms[i]]]
    BY <2>1
  <2> QED
    BY <2>2 DEF Echo, Each, Mapped, Hom
<1> QED
  BY <1>1, <1>2

\* Messages that are not of the model hold no turns of it.
LEMMA SilentHasNoEcho ==
  ASSUME NEW catalog, NEW ms \in Seq(Silent(catalog))
  PROVE  ms \in Seq(Chats(catalog)) /\ Hom(echoOf(catalog), ms) = <<>>
<1>1. Silent(catalog) \subseteq Chats(catalog)
  BY DEF Silent
<1>2. ms \in Seq(Chats(catalog))
  BY <1>1, SeqMonotonic
<1>3. \A i \in DOMAIN ms : echoOf(catalog)[ms[i]] = <<>>
  <2>1. \A m \in Silent(catalog) : echoOf(catalog)[m] = <<>>
    BY DEF Silent, echoOf
  <2> QED
    BY <2>1
<1> QED
  BY <1>2, <1>3, EchoIsHom, HomIsEmpty

\* A user's message adds no turn of the model, and a model's adds its own.
LEMMA EchoGrows ==
  ASSUME NEW catalog, NEW ms \in Seq(Chats(catalog)), NEW m \in History
  PROVE  /\ m \in UserMessages => Echo(ms \o Converted(m, catalog)) = Echo(ms)
         /\ m \in ModelMessages =>
              Echo(ms \o Converted(m, catalog)) =
                Echo(ms) \o TurnOf(Hom(textOf, Blocks(m.content)), Hom(callOf, Blocks(m.content)))
<1> DEFINE g == echoOf(catalog)
           new == Converted(m, catalog)
<1>1. new \in Seq(Chats(catalog)) /\ ms \o new \in Seq(Chats(catalog))
  BY ConvertedType, ConcatProperties
<1>2. Echo(ms \o new) = Hom(g, ms) \o Hom(g, new) /\ Echo(ms) = Hom(g, ms) /\ Hom(g, ms) \in Seq(Turned)
  <2>1. \A x, y \in Seq(Chats(catalog)) : Hom(g, x \o y) = Hom(g, x) \o Hom(g, y)
    BY EchoIsHom, HomConcat
  <2> QED
    BY <1>1, <2>1, EchoIsHom, HomType
<1>3. CASE m \in UserMessages
  <2>1. Hom(g, new) = <<>>
    BY <1>3, UserIsSilent, SilentHasNoEcho
  <2>2. m \notin ModelMessages
    BY <1>3 DEF UserMessages, ModelMessages
  <2> QED
    BY <1>2, <2>1, <2>2, ConcatEmptySeq
<1>4. CASE m \in ModelMessages
  <2> DEFINE text  == Hom(textOf, Blocks(m.content))
             calls == Hom(callOf, Blocks(m.content))
             x == Message("assistant", TextContent(text), calls, "")
  <2>1. new = IF text = <<>> /\ calls = <<>> THEN <<>> ELSE <<x>>
    BY <1>4, ModelConverted
  <2>2. Hom(g, new) = TurnOf(text, calls)
    <3>1. CASE text = <<>> /\ calls = <<>>
      BY <2>1, <3>1, HomEmpty DEF TurnOf
    <3>2. CASE ~ (text = <<>> /\ calls = <<>>)
      <4>1. new = <<x>>
        BY <2>1, <3>2
      <4>2. x.role = "assistant" /\ x.content.text = text /\ x.calls = calls
        BY DEF Message, TextContent
      <4> HIDE DEF x
      <4>3. x \in Chats(catalog)
        <5>1. new[1] \in Chats(catalog)
          BY <1>1, <4>1
        <5> QED
          BY <4>1, <5>1
      <4>4. Hom(g, <<x>>) = g[x]
        BY <4>3, EchoIsHom, HomOne
      <4>5. g[x] = <<[text |-> text, calls |-> calls]>>
        BY <4>2, <4>3 DEF echoOf
      <4> QED
        BY <3>2, <4>1, <4>4, <4>5 DEF TurnOf
    <3> QED
      BY <3>1, <3>2
  <2>3. m \notin UserMessages
    BY <1>4 DEF UserMessages, ModelMessages
  <2> QED
    BY <1>2, <2>2, <2>3
<1> QED
  BY <1>3, <1>4 DEF History

-----------------------------------------------------------------------------
(* The calls among them, and their answers.                                *)

\* The calls that have no answer yet.
Match(calls, pending) ==
  Len(calls) = Len(pending) /\ \A k \in 1 .. Len(pending) : calls[k].id = pending[k].id

\* All calls are answered in place but those of the last message, which are the
\* pending ones.
PairedUpTo(ms, pending) ==
  /\ \A i \in DOMAIN ms : ms[i].calls # <<>> => AnsweredInPlace(ms, i) \/ (i = Len(ms) /\ pending # <<>>)
  /\ \A i \in DOMAIN ms : ms[i].role = "tool" => \E j \in 1 .. i - 1 : i <= j + Len(ms[j].calls)
  /\ pending # <<>> => ms # <<>> /\ Match(ms[Len(ms)].calls, pending)

\* A call that was answered stays so.
LEMMA StaysAnswered ==
  ASSUME NEW catalog, NEW ms \in Seq(Chats(catalog)), NEW new \in Seq(Chats(catalog)),
         NEW i \in DOMAIN ms, AnsweredInPlace(ms, i)
  PROVE  AnsweredInPlace(ms \o new, i)
<1> DEFINE all == ms \o new
           n == Len(ms[i].calls)
<1>1. /\ Len(ms) \in Nat /\ Len(new) \in Nat /\ i \in 1 .. Len(ms) /\ Len(all) = Len(ms) + Len(new)
      /\ \A k \in 1 .. Len(ms) : all[k] = ms[k]
  OBVIOUS
<1>2. n \in Nat
  <2>1. ms[i] \in Chats(catalog)
    BY <1>1
  <2>2. ms[i].calls \in Seq(Callees)
    BY <2>1 DEF Chats
  <2> QED
    BY <2>2
<1>3. i + n <= Len(ms) /\ all[i] = ms[i]
  BY <1>1 DEF AnsweredInPlace
<1>4. \A k \in i + 1 .. i + n : all[k] = ms[k]
  BY <1>1, <1>2, <1>3
<1>5. {all[k].callID : k \in i + 1 .. i + n} = {ms[k].callID : k \in i + 1 .. i + n}
  BY <1>4
<1>6. i + n <= Len(all)
  BY <1>1, <1>2, <1>3
<1> HIDE DEF all
<1> QED
  BY <1>3, <1>4, <1>5, <1>6 DEF AnsweredInPlace, all

\* A message that is no answer.
LEMMA PairedWithNext ==
  ASSUME NEW catalog, NEW ms \in Seq(Chats(catalog)), PairedUpTo(ms, <<>>),
         NEW x \in Chats(catalog), x.role # "tool",
         NEW pending \in Seq(Uses), Match(x.calls, pending)
  PROVE  PairedUpTo(ms \o <<x>>, pending)
<1> DEFINE all == ms \o <<x>>
<1>1. /\ Len(ms) \in Nat /\ Len(all) = Len(ms) + 1 /\ DOMAIN all = 1 .. Len(ms) + 1 /\ DOMAIN ms = 1 .. Len(ms)
      /\ all[Len(ms) + 1] = x /\ \A k \in 1 .. Len(ms) : all[k] = ms[k]
  OBVIOUS
<1>2. <<x>> \in Seq(Chats(catalog)) /\ x.calls \in Seq(Callees)
  BY DEF Chats
<1>3. \A i \in DOMAIN ms : AnsweredInPlace(ms, i) => AnsweredInPlace(all, i)
  BY <1>2, StaysAnswered
<1> HIDE DEF all
<1>4. ASSUME NEW i \in DOMAIN all, all[i].calls # <<>>
      PROVE  AnsweredInPlace(all, i) \/ (i = Len(all) /\ pending # <<>>)
  <2>1. CASE i = Len(ms) + 1
    <3>1. x.calls # <<>> /\ Len(x.calls) = Len(pending)
      BY <1>1, <1>4, <2>1 DEF Match
    <3>2. Len(x.calls) # 0
      BY <1>2, <3>1
    <3>3. pending # <<>>
      BY <3>1, <3>2
    <3> QED
      BY <1>1, <2>1, <3>3
  <2>2. CASE i # Len(ms) + 1
    <3>1. i \in DOMAIN ms /\ all[i] = ms[i]
      BY <1>1, <2>2
    <3>2. AnsweredInPlace(ms, i)
      BY <1>4, <3>1 DEF PairedUpTo
    <3> QED
      BY <1>3, <3>1, <3>2
  <2> QED
    BY <2>1, <2>2
<1>5. ASSUME NEW i \in DOMAIN all, all[i].role = "tool"
      PROVE  \E j \in 1 .. i - 1 : i <= j + Len(all[j].calls)
  <2>1. i \in DOMAIN ms /\ all[i] = ms[i]
    BY <1>1, <1>5
  <2>2. PICK j \in 1 .. i - 1 : i <= j + Len(ms[j].calls)
    BY <1>5, <2>1 DEF PairedUpTo
  <2>3. all[j] = ms[j]
    BY <1>1, <2>1
  <2> QED
    BY <2>2, <2>3
<1>6. pending # <<>> => all # <<>> /\ Match(all[Len(all)].calls, pending)
  BY <1>1
<1> QED
  BY <1>4, <1>5, <1>6 DEF PairedUpTo, all

\* The answers to the pending calls, in their order.
LEMMA PairedWithAnswers ==
  ASSUME NEW catalog, NEW ms \in Seq(Chats(catalog)), NEW pending \in Seq(Uses), pending # <<>>,
         PairedUpTo(ms, pending),
         NEW answers \in Seq(Answers(catalog)), Len(answers) = Len(pending),
         \A k \in 1 .. Len(pending) : answers[k].callID = pending[k].id
  PROVE  PairedUpTo(ms \o answers, <<>>)
<1> DEFINE all == ms \o answers
           m == Len(ms)
           n == Len(pending)
<1>1. Answers(catalog) \subseteq Chats(catalog) /\ answers \in Seq(Chats(catalog))
  <2>1. Answers(catalog) \subseteq Chats(catalog)
    BY DEF Answers
  <2> QED
    BY <2>1, SeqMonotonic
<1>2. /\ m \in Nat /\ n \in Nat /\ n # 0 /\ Len(all) = m + n /\ DOMAIN all = 1 .. m + n /\ DOMAIN ms = 1 .. m
      /\ \A k \in 1 .. m : all[k] = ms[k]
  <2>1. m \in Nat /\ n \in Nat /\ n # 0 /\ Len(answers) = n
    OBVIOUS
  <2>2. all \in Seq(Chats(catalog)) /\ Len(all) = m + n /\ \A k \in 1 .. m : all[k] = ms[k]
    <3>1. \A x, y \in Seq(Chats(catalog)) :
            /\ x \o y \in Seq(Chats(catalog)) /\ Len(x \o y) = Len(x) + Len(y)
            /\ \A k \in 1 .. Len(x) : (x \o y)[k] = x[k]
      OBVIOUS
    <3> QED
      BY <1>1, <2>1, <3>1
  <2> QED
    BY <2>1, <2>2
<1>3. \A k \in m + 1 .. m + n : k - m \in 1 .. n /\ all[k] = answers[k - m]
  BY <1>1, <1>2
<1>4. \A k \in 1 .. n : answers[k].role = "tool" /\ answers[k].calls = <<>>
  BY <1>2 DEF Answers
<1>5. m # 0 /\ Match(ms[m].calls, pending) /\ ms[m].calls \in Seq(Callees) /\ m \in DOMAIN ms
  <2>1. m # 0 /\ Match(ms[m].calls, pending)
    BY <1>2 DEF PairedUpTo
  <2>2. m \in DOMAIN ms /\ ms[m] \in Chats(catalog)
    BY <1>2, <2>1
  <2>3. ms[m].calls \in Seq(Callees)
    BY <2>2 DEF Chats
  <2> QED
    BY <2>1, <2>2, <2>3
<1>6. \A i \in DOMAIN ms : AnsweredInPlace(ms, i) => AnsweredInPlace(all, i)
  BY <1>1, StaysAnswered
<1> HIDE DEF all, m, n
<1>7. AnsweredInPlace(all, m)
  <2>1. Len(all[m].calls) = n /\ all[m] = ms[m] /\ Len(ms[m].calls) = n
    BY <1>2, <1>5 DEF Match, n
  <2>2. \A k \in m + 1 .. m + n : all[k].role = "tool"
    BY <1>3, <1>4
  <2>3. \A k \in m + 1 .. m + n : all[k].callID = ms[m].calls[k - m].id
    BY <1>3, <1>5 DEF Match, n
  <2>4. \A k \in 1 .. n : m + k \in m + 1 .. m + n /\ (m + k) - m = k
    BY <1>2
  <2>5. Ids(ms[m].calls) = {ms[m].calls[k].id : k \in 1 .. n}
    <3>1. DOMAIN ms[m].calls = 1 .. n
      BY <1>5, <2>1
    <3> QED
      BY <3>1 DEF Ids, ToSet
  <2>6. {all[k].callID : k \in m + 1 .. m + n} = {ms[m].calls[k].id : k \in 1 .. n}
    <3>1. ASSUME NEW k \in m + 1 .. m + n
          PROVE  all[k].callID \in {ms[m].calls[l].id : l \in 1 .. n}
      BY <1>3, <2>3
    <3>2. ASSUME NEW l \in 1 .. n
          PROVE  ms[m].calls[l].id \in {all[k].callID : k \in m + 1 .. m + n}
      <4>1. all[m + l].callID = ms[m].calls[l].id /\ m + l \in m + 1 .. m + n
        BY <2>3, <2>4
      <4> QED
        BY <4>1
    <3> QED
      BY <3>1, <3>2
  <2> DEFINE l == Len(all[m].calls)
  <2>7. /\ m + l <= Len(all)
        /\ \A k \in m + 1 .. m + l : all[k].role = "tool"
        /\ {all[k].callID : k \in m + 1 .. m + l} = Ids(all[m].calls)
    <3>1. l = n /\ m + n <= Len(all)
      BY <1>2, <2>1
    <3> HIDE DEF l
    <3> QED
      BY <2>1, <2>2, <2>5, <2>6, <3>1
  <2> QED
    BY <2>7 DEF AnsweredInPlace
<1>8. ASSUME NEW i \in DOMAIN all, all[i].calls # <<>> PROVE AnsweredInPlace(all, i)
  <2>1. CASE i > m
    BY <1>2, <1>3, <1>4, <1>8, <2>1
  <2>2. CASE i = m
    BY <1>7, <2>2
  <2>3. CASE i < m
    <3>1. i \in DOMAIN ms /\ all[i] = ms[i] /\ i # Len(ms)
      BY <1>2, <2>3 DEF m
    <3>2. AnsweredInPlace(ms, i)
      BY <1>8, <3>1 DEF PairedUpTo
    <3> QED
      BY <1>6, <3>1, <3>2
  <2> QED
    BY <1>2, <2>1, <2>2, <2>3
<1>9. ASSUME NEW i \in DOMAIN all, all[i].role = "tool"
      PROVE  \E j \in 1 .. i - 1 : i <= j + Len(all[j].calls)
  <2>1. CASE i > m
    <3>1. m \in 1 .. i - 1 /\ Len(all[m].calls) = n /\ i <= m + n
      BY <1>2, <1>5, <2>1 DEF Match, n
    <3> QED
      BY <3>1
  <2>2. CASE i <= m
    <3>1. i \in DOMAIN ms /\ all[i] = ms[i]
      BY <1>2, <2>2
    <3>2. PICK j \in 1 .. i - 1 : i <= j + Len(ms[j].calls)
      BY <1>9, <3>1 DEF PairedUpTo
    <3>3. all[j] = ms[j]
      BY <1>2, <2>2
    <3> QED
      BY <3>2, <3>3
  <2> QED
    BY <1>2, <2>1, <2>2
<1> QED
  BY <1>8, <1>9 DEF PairedUpTo, all

-----------------------------------------------------------------------------
(* The invariant.                                                          *)

\* What the history is made of, on either path.
Typed ==
  /\ system \in Systems /\ tools \in ToolSets
  /\ history \in Seq(History)
  /\ said \in Seq(Seq(Fragments))

\* A request under way is one for the history as it is.
AskedFor ==
  Asked =>
    LET req == [system |-> system, tools |-> tools, messages |-> history, choice |-> request.choice]
    IN /\ history # <<>> /\ Last(history).role = "user"
       /\ request.choice \in ToolChoices
       /\ Translatable(req)
       /\ sent = MergeFields(Payload(request.model, request.stream, Request(req)),
                             EffortFields(request.model, ProviderEffort, ModelEffort))

\* What the history is, or would be, for the upstream.
Upstream == Conversed(system, Catalog(tools), history)

\* For the upstream the models said what they said.
Echoed == Echo(Upstream) = Each(said, Spoken)

\* Calls are answered in place, but for those that wait for the client.
CallsPaired == PairedUpTo(Upstream, Pending)

\* Models called only tools that they still know.
CallsKnown ==
  \A i \in DOMAIN history : \A c \in ToSet(ToolCalls(Blocks(history[i].content))) : c.name \in Visible

\* The inductive invariant.
IInv == Typed /\ AskedFor /\ Echoed /\ CallsPaired /\ CallsKnown

-----------------------------------------------------------------------------

\* What the client chooses from is made of the types above.
LEMMA SessionIsTyped ==
  /\ Systems \subseteq Seq(Texts \cup Images)
  /\ ToolSets \subseteq Seq(Tools)
  /\ \A content \in UserContents :
       [role |-> "user", content |-> content] \in UserMessages /\ Blocks(content) \in Seq(Texts \cup Images)
  /\ Extras \subseteq Seq(Texts \cup Images)
  /\ ResultContents \subseteq Seq(Texts \cup Images \cup Named)
  /\ Replies \subseteq Seq(Fragments)
<1>1. ASSUME NEW content \in UserContents
      PROVE  [role |-> "user", content |-> content] \in UserMessages /\ Blocks(content) \in Seq(Texts \cup Images)
  <2>1. \/ content \in [form : {"string"}, text : Seq(STRING)]
        \/ content \in [form : {"array"}, blocks : Seq(Texts \cup Images)]
        \/ content \in [form : {"null"}]
    BY SessionAssumption DEF SessionAssumption
  <2>2. CASE content \in [form : {"string"}, text : Seq(STRING)]
    <3>1. TextBlock(content.text) \in Texts \cup Images
      BY <2>2 DEF TextBlock, Texts
    <3>2. Blocks(content) = <<TextBlock(content.text)>>
      BY <2>2 DEF Blocks
    <3>3. [role |-> "user", content |-> content] \in UserMessages
      BY <2>2 DEF UserMessages
    <3> QED
      BY <3>1, <3>2, <3>3
  <2>3. CASE content \in [form : {"array"}, blocks : Seq(Texts \cup Images)]
    <3>1. Seq(Texts \cup Images) \subseteq Seq(UserBlocks)
      <4>1. Texts \cup Images \subseteq UserBlocks
        BY DEF UserBlocks
      <4> QED
        BY <4>1, SeqMonotonic
    <3>2. content \in [form : {"array"}, blocks : Seq(UserBlocks)]
      BY <2>3, <3>1
    <3>3. Blocks(content) = content.blocks
      BY <2>3 DEF Blocks
    <3> QED
      BY <2>3, <3>2, <3>3 DEF UserMessages
  <2>4. CASE content \in [form : {"null"}]
    <3>1. Blocks(content) = <<>>
      BY <2>4 DEF Blocks
    <3>2. [role |-> "user", content |-> content] \in UserMessages
      BY <2>4 DEF UserMessages
    <3> QED
      BY <3>1, <3>2
  <2> QED
    BY <2>1, <2>2, <2>3, <2>4
<1>2. Replies \subseteq Seq(Fragments)
  BY SessionAssumption DEF SessionAssumption, Fragments, Spelt
<1> QED
  BY <1>1, <1>2, SessionAssumption DEF SessionAssumption

\* The calls of a message, as the upstream has them, match those the client has
\* to answer.
LEMMA CallsMatchUses ==
  ASSUME NEW s \in Seq(Things)
  PROVE  /\ Match(Hom(callOf, s), Hom(useOf, s))
         /\ Hom(callOf, s) \in Seq(Callees) /\ Hom(useOf, s) \in Seq(Uses)
<1> DEFINE f == [u \in Uses |-> [id |-> u.id, name |-> u.name, input |-> ToolArguments(u.input)]]
           g == [u \in Uses |-> <<f[u]>>]
           uses == Hom(useOf, s)
<1>1. uses \in Seq(Uses) /\ Hom(callOf, s) \in Seq(Callees)
  BY LoopsTyped, HomType
<1>2. f \in [Uses -> Callees] /\ \A u \in Uses : f[u].id = u.id
  <2>1. ASSUME NEW u \in Uses
        PROVE  [id |-> u.id, name |-> u.name, input |-> ToolArguments(u.input)] \in Callees
    BY DEF Uses, Callees, ToolArguments, Strings
  <2> QED
    BY <2>1
<1>3. \A u \in Uses : callOf[u] = <<f[u]>> /\ u \in Things /\ useOf[u] = <<u>>
  BY DEF callOf, useOf, Uses, Things
<1> HIDE DEF f
<1>4. g \in Pieces(Uses, Callees) /\ \A u \in Uses : g[u] = <<f[u]>>
  BY <1>2 DEF Pieces
<1> HIDE DEF g
<1>5. Hom(callOf, uses) = Hom(callOf, s)
  <2>1. useOf \in Pieces(Things, Things)
    <3>1. Uses \subseteq Things
      BY DEF Things
    <3>2. Seq(Uses) \subseteq Seq(Things)
      BY <3>1, SeqMonotonic
    <3> QED
      BY <3>2, LoopsTyped DEF Pieces
  <2>2. ASSUME NEW b \in Things PROVE callOf[b] = Hom(callOf, useOf[b])
    <3>1. CASE b.type = "tool_use"
      <4>1. useOf[b] = <<b>>
        BY <3>1 DEF useOf
      <4>2. Hom(callOf, <<b>>) = callOf[b]
        BY LoopsTyped, HomOne
      <4> QED
        BY <4>1, <4>2
    <3>2. CASE b.type # "tool_use"
      BY <3>2, CallIsUse, HomEmpty
    <3> QED
      BY <3>1, <3>2
  <2> QED
    BY <2>1, <2>2, LoopsTyped, HomOfHom
<1> HIDE DEF uses
<1>6. Hom(callOf, uses) = [i \in DOMAIN uses |-> f[uses[i]]]
  <2>1. Hom(callOf, uses) = Hom(g, uses)
    <3>1. \A i \in DOMAIN uses : uses[i] \in Uses
      BY <1>1
    <3>2. \A i \in DOMAIN uses : callOf[uses[i]] = g[uses[i]]
      BY <1>3, <1>4, <3>1
    <3> QED
      BY <3>2, HomSame
  <2>2. Hom(g, uses) = [i \in DOMAIN uses |-> f[uses[i]]]
    <3>1. Singles(Uses, Callees, f, g)
      BY <1>2, <1>4 DEF Singles
    <3> QED
      BY <1>1, <3>1, HomOfSingles
  <2> QED
    BY <2>1, <2>2
<1>7. Len(Hom(callOf, s)) = Len(uses) /\ \A k \in 1 .. Len(uses) : Hom(callOf, s)[k].id = uses[k].id
  <2>1. DOMAIN uses = 1 .. Len(uses) /\ Len(uses) \in Nat /\ \A k \in 1 .. Len(uses) : uses[k] \in Uses
    BY <1>1
  <2> QED
    BY <1>2, <1>5, <1>6, <2>1
<1> QED
  BY <1>1, <1>7 DEF Match, uses

\* A message the client makes of a reply.
LEMMA ReplyMessage ==
  ASSUME NEW r \in Seq(Fragments), NEW written, SameTurn(written, r),
         NEW blocks, blocks = written \/ blocks = <<[type |-> "thinking"]>> \o written
  PROVE  LET m == [role |-> "assistant", content |-> Array(blocks)]
         IN /\ m \in ModelMessages /\ Blocks(m.content) = blocks /\ blocks \in Seq(Things)
            /\ Hom(textOf, blocks) = Hom(textOf, r)
            /\ Hom(callOf, blocks) = Hom(spokenOf, r)
<1> DEFINE thought == [type |-> "thinking"]
           m == [role |-> "assistant", content |-> Array(blocks)]
<1>1. written \in Seq(Written) /\ written \in Seq(Things) /\ r \in Seq(Things)
  BY FragmentsAreThings DEF SameTurn
<1>2. thought \in Thoughts /\ thought \in Things /\ textOf[thought] = <<>> /\ callOf[thought] = <<>>
  <2>1. thought \in Thoughts /\ thought \in Things
    BY DEF Thoughts, Things
  <2> QED
    BY <2>1 DEF textOf, callOf
<1> HIDE DEF thought
<1>3. /\ blocks \in Seq(ModelBlocks)
      /\ Hom(textOf, blocks) = Hom(textOf, written) /\ Hom(callOf, blocks) = Hom(callOf, written)
  <2>1. written \in Seq(ModelBlocks) /\ <<thought>> \in Seq(ModelBlocks)
    <3>1. Written \subseteq ModelBlocks
      BY DEF Written, ModelBlocks
    <3>2. thought \in ModelBlocks
      BY <1>2 DEF ModelBlocks
    <3> QED
      BY <1>1, <3>1, <3>2, SeqMonotonic
  <2>2. CASE blocks = written
    BY <2>1, <2>2
  <2>3. CASE blocks = <<thought>> \o written
    <3>1. blocks \in Seq(ModelBlocks)
      BY <2>1, <2>3, ConcatProperties
    <3>2. <<thought>> \in Seq(Things)
      BY <1>2
    <3>3. Hom(textOf, <<thought>>) = <<>> /\ Hom(callOf, <<thought>>) = <<>>
      BY <1>2, LoopsTyped, HomOne
    <3>4. /\ Hom(textOf, blocks) = Hom(textOf, <<thought>>) \o Hom(textOf, written)
          /\ Hom(callOf, blocks) = Hom(callOf, <<thought>>) \o Hom(callOf, written)
      BY <1>1, <2>3, <3>2, LoopsConcat
    <3>5. Hom(textOf, written) \in Seq(STRING) /\ Hom(callOf, written) \in Seq(Callees)
      BY <1>1, LoopsTyped, HomType
    <3> QED
      BY <3>1, <3>3, <3>4, <3>5, ConcatEmptySeq
  <2> QED
    BY <2>2, <2>3 DEF thought
<1>4. m \in ModelMessages /\ Blocks(m.content) = blocks
  BY <1>3 DEF ModelMessages, Array, Blocks
<1>5. blocks \in Seq(Things)
  BY <1>3, BlocksAreThings, SeqMonotonic
<1> QED
  BY <1>3, <1>4, <1>5 DEF SameTurn

\* One more reply adds one turn to what the models said.
LEMMA SaidGrows ==
  ASSUME NEW rs \in Seq(Seq(Fragments)), NEW r \in Seq(Fragments)
  PROVE  Each(Append(rs, r), Spoken) = Each(rs, Spoken) \o TurnOf(Hom(textOf, r), Hom(spokenOf, r))
<1> DEFINE E == Seq(Fragments)
           spoke == [x \in E |-> Spoken(x)]
<1>1. ASSUME NEW x \in E PROVE Spoken(x) = TurnOf(Hom(textOf, x), Hom(spokenOf, x)) /\ Spoken(x) \in Seq(Turned)
  <2>1. x \in Seq(Things)
    BY FragmentsAreThings
  <2>2. Hom(textOf, x) \in Seq(STRING) /\ Hom(spokenOf, x) \in Seq(Callees)
    BY <2>1, LoopsTyped, HomType
  <2> DEFINE turn == [text |-> Hom(textOf, x), calls |-> Hom(spokenOf, x)]
  <2>3. turn \in Turned
    BY <2>2 DEF Turned
  <2>4. Spoken(x) = TurnOf(Hom(textOf, x), Hom(spokenOf, x))
    BY <2>1, SpokenIsHom
  <2>5. TurnOf(Hom(textOf, x), Hom(spokenOf, x)) = <<>> \/ TurnOf(Hom(textOf, x), Hom(spokenOf, x)) = <<turn>>
    BY DEF TurnOf
  <2> HIDE DEF turn
  <2>6. <<turn>> \in Seq(Turned) /\ <<>> \in Seq(Turned)
    BY <2>3
  <2> QED
    BY <2>4, <2>5, <2>6
<1>2. spoke \in Pieces(E, Turned)
  BY <1>1 DEF Pieces
<1>3. ASSUME NEW s \in Seq(E) PROVE Each(s, Spoken) = Hom(spoke, s)
  <2>1. \A i \in DOMAIN s : s[i] \in E
    OBVIOUS
  <2>2. \A i \in DOMAIN s : spoke[s[i]] = Spoken(s[i])
    BY <2>1
  <2>3. [i \in DOMAIN s |-> Spoken(s[i])] = [i \in DOMAIN s |-> spoke[s[i]]]
    BY <2>2
  <2> HIDE DEF spoke
  <2> QED
    BY <2>3 DEF Each, Mapped, Hom
<1>4. spoke[r] = TurnOf(Hom(textOf, r), Hom(spokenOf, r))
  BY <1>1
<1> HIDE DEF spoke, E
<1>5. r \in E /\ rs \in Seq(E) /\ Append(rs, r) \in Seq(E)
  BY DEF E
<1>6. Hom(spoke, Append(rs, r)) = Hom(spoke, rs) \o spoke[r]
  BY <1>2, <1>5, HomAppend
<1> QED
  BY <1>3, <1>4, <1>5, <1>6

\* One result for each of the calls, in their order.
OneEach(results, pending) ==
  /\ results \in Seq(Results) /\ Len(results) = Len(pending)
  /\ \A i \in 1 .. Len(pending) : results[i].id = pending[i].id

\* What holds of a message that holds them.
Answering(catalog, blocks, pending) ==
  /\ [role |-> "user", content |-> Array(blocks)] \in UserMessages
  /\ Blocks(Array(blocks)) = blocks /\ blocks \in Seq(Things)
  /\ Hom(answerOf(catalog), blocks) \in Seq(Answers(catalog))
  /\ Len(Hom(answerOf(catalog), blocks)) = Len(pending)
  /\ \A k \in 1 .. Len(pending) : Hom(answerOf(catalog), blocks)[k].callID = pending[k].id

\* The answers to calls, as the client puts them together.
LEMMA ResultsAnswer ==
  ASSUME NEW catalog, NEW pending \in Seq(Uses),
         NEW results, OneEach(results, pending),
         NEW extra \in Seq(Texts \cup Images),
         NEW blocks, blocks = results \o extra \/ blocks = extra \o results
  PROVE  Answering(catalog, blocks, pending)
<1> DEFINE g == answerOf(catalog)
           f == [b \in Results |-> Message("tool", ToolResultText(b.content, catalog), <<>>, b.id)]
           h == [b \in Results |-> <<f[b]>>]
<1> USE DEF OneEach
<1>1. results \in Seq(UserBlocks) /\ extra \in Seq(UserBlocks) /\ results \in Seq(Things) /\ extra \in Seq(Things)
  <2>1. Results \subseteq UserBlocks /\ Texts \cup Images \subseteq UserBlocks
    BY DEF UserBlocks
  <2>2. results \in Seq(UserBlocks) /\ extra \in Seq(UserBlocks)
    BY <2>1, SeqMonotonic
  <2> QED
    BY <2>2, BlocksAreThings, SeqMonotonic
<1>2. blocks \in Seq(UserBlocks) /\ blocks \in Seq(Things)
  <2>1. results \o extra \in Seq(UserBlocks) /\ extra \o results \in Seq(UserBlocks)
    BY <1>1, ConcatProperties
  <2>2. blocks \in Seq(UserBlocks)
    BY <2>1
  <2> QED
    BY <2>2, BlocksAreThings, SeqMonotonic
<1>3. Hom(g, extra) = <<>>
  <2>1. \A b \in Texts \cup Images : b \in Things /\ g[b] = <<>>
    BY DEF answerOf, Texts, Images, Things
  <2>2. \A i \in DOMAIN extra : g[extra[i]] = <<>>
    BY <2>1
  <2> QED
    BY <1>1, <2>2, AnswerType, HomIsEmpty
<1>4. Hom(g, results) = [i \in DOMAIN results |-> f[results[i]]]
  <2>1. \A b \in Results : g[b] = <<f[b]>>
    <3>1. \A b \in Results : b \in Things /\ b.type = "tool_result"
      BY DEF Results, Things
    <3> QED
      BY <3>1 DEF answerOf
  <2> DEFINE V == {f[b] : b \in Results}
  <2>2. f \in [Results -> V] /\ \A b \in Results : h[b] = <<f[b]>>
    OBVIOUS
  <2> HIDE DEF f
  <2>3. h \in Pieces(Results, V)
    <3>1. \A b \in Results : f[b] \in V
      OBVIOUS
    <3> HIDE DEF V
    <3> QED
      BY <3>1 DEF Pieces
  <2>4. \A b \in Results : g[b] = h[b]
    BY <2>1, <2>2
  <2> HIDE DEF h, V
  <2>5. \A i \in DOMAIN results : results[i] \in Results
    OBVIOUS
  <2>6. Hom(g, results) = Hom(h, results)
    <3>1. \A i \in DOMAIN results : g[results[i]] = h[results[i]]
      BY <2>5, <2>4
    <3> QED
      BY <3>1, HomSame
  <2>7. ASSUME NEW s \in Seq(Results) PROVE Hom(h, s) = [i \in DOMAIN s |-> f[s[i]]]
    <3>1. Singles(Results, V, f, h)
      BY <2>2, <2>3 DEF Singles
    <3> QED
      BY <3>1, HomOfSingles
  <2> QED
    BY <2>6, <2>7
<1>5. Hom(g, blocks) = Hom(g, results)
  <2>1. \A x, y \in Seq(Things) : Hom(g, x \o y) = Hom(g, x) \o Hom(g, y)
    BY AnswerType, HomConcat
  <2>2. Hom(g, results) \in Seq(Answers(catalog))
    BY <1>1, AnswerType, HomType
  <2>3. Hom(g, results) \o <<>> = Hom(g, results) /\ <<>> \o Hom(g, results) = Hom(g, results)
    BY <2>2, ConcatEmptySeq
  <2> QED
    BY <1>1, <1>3, <2>1, <2>3
<1>6. Len(Hom(g, results)) = Len(pending) /\ \A k \in 1 .. Len(pending) : Hom(g, results)[k].callID = pending[k].id
  <2>1. DOMAIN results = 1 .. Len(pending)
    OBVIOUS
  <2>2. \A k \in 1 .. Len(pending) : results[k] \in Results /\ results[k].id = pending[k].id
    BY <2>1
  <2>3. \A b \in Results : f[b].callID = b.id
    BY DEF Message
  <2> HIDE DEF f
  <2> QED
    BY <1>4, <2>1, <2>2, <2>3
<1>7. Hom(g, results) \in Seq(Answers(catalog))
  BY <1>1, AnswerType, HomType
<1>8. [role |-> "user", content |-> Array(blocks)] \in UserMessages /\ Blocks(Array(blocks)) = blocks
  BY <1>2 DEF UserMessages, Array, Blocks
<1> QED
  BY <1>2, <1>5, <1>6, <1>7, <1>8 DEF Answering

-----------------------------------------------------------------------------
(* Every step keeps the invariant.                                         *)

\* What holds of a history with one more message.
LEMMA HistoryGrows ==
  ASSUME Typed, NEW m \in History, history' = Append(history, m), UNCHANGED session
  PROVE  /\ history' \in Seq(History)
         /\ Upstream \in Seq(Chats(Catalog(tools)))
         /\ Upstream' = Upstream \o Converted(m, Catalog(tools))
         /\ Pending' = IF m.role = "user" THEN <<>> ELSE CallsOf(m)
         /\ Visible \subseteq Visible'
         /\ \A i \in DOMAIN history' : (i \in DOMAIN history /\ history'[i] = history[i]) \/ history'[i] = m
<1>1. history \in Seq(History) /\ system \in Seq(Texts \cup Images)
  BY SessionIsTyped DEF Typed
<1>2. history' \in Seq(History) /\ history' # <<>> /\ Last(history') = m
  BY <1>1 DEF Last
<1>3. Upstream \in Seq(Chats(Catalog(tools))) /\ Upstream' = Upstream \o Converted(m, Catalog(tools))
  BY <1>1, ConversedGrows DEF Upstream, session
<1>4. Pending' = IF m.role = "user" THEN <<>> ELSE CallsOf(m)
  BY <1>2 DEF Pending
<1>5. \A i \in DOMAIN history' : (i \in DOMAIN history /\ history'[i] = history[i]) \/ history'[i] = m
  BY <1>1
<1>6. ToSet(history) \subseteq ToSet(history')
  <2>1. \A i \in DOMAIN history : i \in DOMAIN history' /\ history'[i] = history[i]
    BY <1>1
  <2> QED
    BY <2>1 DEF ToSet
<1>7. Visible \subseteq Visible'
  <2> DEFINE Found(h, n) == \E x \in ToSet(h) : n \in References(Blocks(x.content))
  <2>1. \A n : Found(history, n) => Found(history', n)
    BY <1>6
  <2>2. Visible = {t.name : t \in {u \in ToSet(tools) : u.type = "" /\ (u.defer => Found(history, u.name))}}
    BY DEF Visible
  <2>3. Visible' = {t.name : t \in {u \in ToSet(tools) : u.type = "" /\ (u.defer => Found(history', u.name))}}
    BY DEF Visible, session
  <2> HIDE DEF Found
  <2> QED
    BY <2>1, <2>2, <2>3
<1> QED
  BY <1>2, <1>3, <1>4, <1>5, <1>7

\* A user's message leaves nothing pending.
LEMMA UserTurn ==
  ASSUME IInv, NEW m \in UserMessages, history' = Append(history, m),
         UNCHANGED <<session, said>>, pc' # "upstream",
         Hom(callOf, Blocks(m.content)) = <<>>,
         PairedUpTo(Upstream \o Converted(m, Catalog(tools)), <<>>)
  PROVE  IInv'
<1> USE DEF IInv
<1>1. m \in History /\ m.role = "user" /\ UNCHANGED session /\ Blocks(m.content) \in Seq(Things)
  BY UserBlocksOf DEF History
<1>2. /\ history' \in Seq(History)
      /\ Upstream \in Seq(Chats(Catalog(tools)))
      /\ Upstream' = Upstream \o Converted(m, Catalog(tools))
      /\ Pending' = <<>>
      /\ Visible \subseteq Visible'
      /\ \A i \in DOMAIN history' : (i \in DOMAIN history /\ history'[i] = history[i]) \/ history'[i] = m
  BY <1>1, HistoryGrows
<1>3. Typed'
  BY <1>1, <1>2 DEF Typed, session
<1>4. AskedFor'
  BY DEF AskedFor, Asked
<1>5. Echoed'
  <2>1. Echo(Upstream \o Converted(m, Catalog(tools))) = Echo(Upstream)
    BY <1>1, <1>2, EchoGrows
  <2> QED
    BY <1>2, <2>1 DEF Echoed
<1>6. CallsPaired'
  BY <1>2 DEF CallsPaired
<1>7. CallsKnown'
  <2> SUFFICES ASSUME NEW i \in DOMAIN history', NEW c \in ToSet(ToolCalls(Blocks(history'[i].content)))
               PROVE  c.name \in Visible'
    BY DEF CallsKnown
  <2>1. CASE i \in DOMAIN history /\ history'[i] = history[i]
    BY <1>2, <2>1 DEF CallsKnown
  <2>2. CASE history'[i] = m
    <3>1. ToolCalls(Blocks(m.content)) = <<>>
      BY <1>1, ToolCallsIsHom
    <3> QED
      BY <2>2, <3>1 DEF ToSet
  <2> QED
    BY <1>2, <2>1, <2>2
<1> QED
  BY <1>3, <1>4, <1>5, <1>6, <1>7

\* A reply leaves its calls pending.
LEMMA ModelTurn ==
  ASSUME IInv, history # <<>>, Last(history).role = "user",
         NEW r \in Replies, NEW written, SameTurn(written, r),
         NEW blocks, blocks = written \/ blocks = <<[type |-> "thinking"]>> \o written,
         NEW names, CallsOnly(r, names), names \subseteq Visible,
         UNCHANGED session, Answered(blocks, r)
  PROVE  IInv'
<1> USE DEF IInv
<1> DEFINE m == [role |-> "assistant", content |-> Array(blocks)]
           catalog == Catalog(tools)
           new == Converted(m, catalog)
           calls == Hom(callOf, blocks)
           uses == Hom(useOf, blocks)
<1>1. r \in Seq(Fragments) /\ r \in Seq(Things)
  BY SessionIsTyped, FragmentsAreThings
<1>2. /\ m \in ModelMessages /\ Blocks(m.content) = blocks /\ blocks \in Seq(Things)
      /\ Hom(textOf, blocks) = Hom(textOf, r)
      /\ Hom(callOf, blocks) = Hom(spokenOf, r)
  BY <1>1, ReplyMessage
<1>3. history' = Append(history, m) /\ said' = Append(said, r) /\ pc' = "client"
  BY DEF Answered, Told
<1>4. m \in History /\ m.role = "assistant" /\ m.role # "user" /\ CallsOf(m) = uses
  BY <1>2, UsesAreHom DEF History
<1> HIDE DEF m
<1>5. /\ history' \in Seq(History)
      /\ Upstream \in Seq(Chats(catalog))
      /\ Upstream' = Upstream \o new
      /\ Pending' = uses
      /\ Visible \subseteq Visible'
      /\ \A i \in DOMAIN history' : (i \in DOMAIN history /\ history'[i] = history[i]) \/ history'[i] = m
  BY <1>3, <1>4, HistoryGrows
<1>6. Typed'
  BY <1>1, <1>3, <1>5 DEF Typed, session
<1>7. AskedFor'
  BY <1>3 DEF AskedFor, Asked
<1>8. Echoed'
  <2>1. Echo(Upstream \o new) = Echo(Upstream) \o TurnOf(Hom(textOf, blocks), Hom(callOf, blocks))
    BY <1>2, <1>4, <1>5, EchoGrows
  <2>2. Each(Append(said, r), Spoken) = Each(said, Spoken) \o TurnOf(Hom(textOf, r), Hom(spokenOf, r))
    BY <1>1, SaidGrows DEF Typed
  <2>3. Echo(Upstream) = Each(said, Spoken)
    BY DEF Echoed
  <2> QED
    BY <1>2, <1>3, <1>5, <2>1, <2>2, <2>3 DEF Echoed
<1>9. CallsPaired'
  <2>1. PairedUpTo(Upstream, <<>>)
    <3>1. Pending = <<>>
      BY DEF Pending
    <3> QED
      BY <3>1 DEF CallsPaired
  <2>2. Match(calls, uses) /\ calls \in Seq(Callees) /\ uses \in Seq(Uses)
    BY <1>2, CallsMatchUses
  <2>3. new = IF Hom(textOf, blocks) = <<>> /\ calls = <<>> THEN <<>>
              ELSE <<Message("assistant", TextContent(Hom(textOf, blocks)), calls, "")>>
    BY <1>2, ModelConverted
  <2>4. CASE Hom(textOf, blocks) = <<>> /\ calls = <<>>
    <3>1. new = <<>>
      BY <2>3, <2>4
    <3>2. uses = <<>>
      <4>1. Len(uses) = 0
        BY <2>2, <2>4 DEF Match
      <4> QED
        BY <2>2, <4>1
    <3>3. Upstream \o <<>> = Upstream
      BY <1>5, ConcatEmptySeq
    <3> QED
      BY <1>5, <2>1, <3>1, <3>2, <3>3 DEF CallsPaired
  <2>5. CASE ~ (Hom(textOf, blocks) = <<>> /\ calls = <<>>)
    <3> DEFINE x == Message("assistant", TextContent(Hom(textOf, blocks)), calls, "")
    <3>1. new = <<x>>
      BY <2>3, <2>5
    <3>2. x.role # "tool" /\ x.calls = calls
      BY DEF Message
    <3> HIDE DEF x, new, calls, uses
    <3>3. x \in Chats(catalog)
      <4>1. new \in Seq(Chats(catalog))
        BY <1>4, ConvertedType DEF new
      <4> HIDE DEF catalog
      <4>2. <<x>>[1] \in Chats(catalog)
        BY <3>1, <4>1
      <4> QED
        BY <4>2
    <3>4. PairedUpTo(Upstream \o <<x>>, uses)
      BY <1>5, <2>1, <2>2, <3>2, <3>3, PairedWithNext
    <3> QED
      BY <1>5, <3>1, <3>4 DEF CallsPaired
  <2> QED
    BY <2>4, <2>5
<1>10. CallsKnown'
  <2> SUFFICES ASSUME NEW i \in DOMAIN history', NEW c \in ToSet(ToolCalls(Blocks(history'[i].content)))
               PROVE  c.name \in Visible'
    BY DEF CallsKnown
  <2>1. CASE i \in DOMAIN history /\ history'[i] = history[i]
    BY <1>5, <2>1 DEF CallsKnown
  <2>2. CASE history'[i] = m
    <3>1. ToolCalls(Blocks(m.content)) = Hom(spokenOf, r)
      BY <1>2, ToolCallsIsHom
    <3>2. c \in ToSet(Hom(spokenOf, r))
      BY <2>2, <3>1
    <3>3. PICK j \in DOMAIN r : c \in ToSet(spokenOf[r[j]])
      BY <1>1, <3>2, LoopsTyped, HomElements
    <3>4. r[j] \in Things
      BY <1>1
    <3>5. r[j].type = "call" /\ c.name = r[j].name
      <4>1. CASE r[j].type = "call"
        <5>1. spokenOf[r[j]] = <<[id |-> r[j].id, name |-> r[j].name, input |-> Meant(r[j].args)]>>
          BY <3>4, <4>1 DEF spokenOf
        <5>2. c = [id |-> r[j].id, name |-> r[j].name, input |-> Meant(r[j].args)]
          BY <3>3, <5>1 DEF ToSet
        <5> QED
          BY <4>1, <5>2
      <4>2. CASE r[j].type # "call"
        <5>1. spokenOf[r[j]] = <<>>
          BY <3>4, <4>2 DEF spokenOf
        <5> QED
          BY <3>3, <5>1 DEF ToSet
      <4> QED
        BY <4>1, <4>2
    <3>6. r[j].name \in names
      BY <3>5 DEF CallsOnly, ToSet
    <3> QED
      BY <1>5, <3>5, <3>6
  <2> QED
    BY <1>5, <2>1, <2>2
<1> QED
  BY <1>6, <1>7, <1>8, <1>9, <1>10

-----------------------------------------------------------------------------
(* Tools.                                                                  *)

\* The tool itself, if it is offered.
toolOf(loaded) == [t \in Tools |-> IF IsSearch(t) \/ (t.defer /\ t.name \notin loaded) THEN <<>> ELSE <<t>>]

\* The tools of a request are those that are not deferred or have been loaded.
LEMMA ConvertedTools ==
  ASSUME NEW ts \in Seq(Tools), NEW loaded
  PROVE  ToSet(ConvertTools(ts, loaded)) = {t \in ToSet(ts) : ~ IsSearch(t) /\ (t.defer => t.name \in loaded)}
<1> DEFINE Op(t) == IF IsSearch(t) \/ (t.defer /\ t.name \notin loaded) THEN <<>> ELSE <<t>>
           g == toolOf(loaded)
<1>1. \A i \in DOMAIN ts : ts[i] \in Tools
  OBVIOUS
<1>2. \A t \in Tools : g[t] = Op(t)
  BY DEF toolOf
<1>3. g \in Pieces(Tools, Tools)
  <2>1. \A t \in Tools : <<t>> \in Seq(Tools) /\ <<>> \in Seq(Tools)
    OBVIOUS
  <2> QED
    BY <2>1 DEF toolOf, Pieces
<1> HIDE DEF g
<1>4. [i \in DOMAIN ts |-> Op(ts[i])] = [i \in DOMAIN ts |-> g[ts[i]]]
  BY <1>1, <1>2
<1>5. ConvertTools(ts, loaded) = Hom(g, ts)
  BY <1>4 DEF ConvertTools, Each, Mapped, Hom
<1>6. \A t : t \in ToSet(ConvertTools(ts, loaded)) <=> \E i \in DOMAIN ts : t \in ToSet(g[ts[i]])
  BY <1>3, <1>5, HomElements
<1>7. ASSUME NEW i \in DOMAIN ts, NEW t
      PROVE  t \in ToSet(g[ts[i]]) <=> t = ts[i] /\ ~ IsSearch(t) /\ (t.defer => t.name \in loaded)
  <2>1. g[ts[i]] = IF IsSearch(ts[i]) \/ (ts[i].defer /\ ts[i].name \notin loaded) THEN <<>> ELSE <<ts[i]>>
    BY <1>1, <1>2
  <2>2. \A x : t \in ToSet(<<x>>) <=> t = x
    BY DEF ToSet
  <2>3. t \notin ToSet(<<>>)
    BY DEF ToSet
  <2>4. CASE IsSearch(ts[i]) \/ (ts[i].defer /\ ts[i].name \notin loaded)
    BY <2>1, <2>3, <2>4
  <2>5. CASE ~ (IsSearch(ts[i]) \/ (ts[i].defer /\ ts[i].name \notin loaded))
    BY <2>1, <2>2, <2>5
  <2> QED
    BY <2>4, <2>5
<1>8. \A t : t \in ToSet(ts) <=> \E i \in DOMAIN ts : t = ts[i]
  BY DEF ToSet
<1> QED
  BY <1>6, <1>7, <1>8

\* The catalog knows a tool by its name.
LEMMA CatalogNames ==
  ASSUME NEW ts \in ToolSets, NEW n \in DOMAIN Catalog(ts)
  PROVE  n # "" /\ Catalog(ts)[n].name = n
<1>1. ts \in Seq(Tools) /\ \A i, j \in DOMAIN ts : ts[i].name = ts[j].name => i = j
  BY SessionAssumption DEF SessionAssumption
<1>2. n # "" /\ \E i \in DOMAIN ts : ts[i].name = n
  BY DEF Catalog
<1>3. PICK i \in DOMAIN ts : ts[i].name = n
  BY <1>2
<1> DEFINE I == {j \in 1 .. Len(ts) : ts[j].name = n}
           k == SelectLastInSeq(ts, LAMBDA t : t.name = n)
<1>4. I = {i}
  BY <1>1, <1>3
<1>5. k = Max({i})
  BY <1>4 DEF SelectLastInSeq
<1>6. Max({i}) = i
  <2>1. i \in Int
    BY <1>1, <1>3
  <2>2. \E x \in {i} : \A y \in {i} : x >= y
    BY <2>1
  <2> QED
    BY <2>2 DEF Max
<1>7. Catalog(ts)[n] = ts[k]
  BY DEF Catalog
<1> QED
  BY <1>2, <1>3, <1>5, <1>6, <1>7

\* What a tool result refers to.
LEMMA ReferencesAre ==
  ASSUME NEW blocks, NEW n
  PROVE  n \in References(blocks) <=>
           \E r \in ToSet(blocks) :
             r.type = "tool_result" /\ \E b \in ToSet(r.content) : b.type = "tool_reference" /\ b.name = n
  BY DEF References

\* In a request that is translated every reference is to a tool of the session.
LEMMA ReferencesAreKnown ==
  ASSUME NEW req, Translatable(req), NEW m \in ToSet(req.messages), NEW n \in References(Blocks(m.content))
  PROVE  n \in DOMAIN Catalog(req.tools)
<1>1. PICK r \in ToSet(Blocks(m.content)) :
        r.type = "tool_result" /\ \E b \in ToSet(r.content) : b.type = "tool_reference" /\ b.name = n
  BY ReferencesAre
<1>2. Supported(r, Catalog(req.tools))
  BY <1>1 DEF Translatable
<1>3. \A b \in ToSet(r.content) : b.type = "text" \/ (b.type = "tool_reference" /\ b.name \in DOMAIN Catalog(req.tools))
  <2>1. r.type = "tool_result" /\ r.type # "image"
    BY <1>1
  <2> QED
    BY <1>2, <2>1 DEF Supported
<1> QED
  BY <1>1, <1>3

\* The tools that are loaded are those a tool result of the history refers to.
LEMMA LoadedToolsAre ==
  ASSUME NEW messages, NEW n
  PROVE  n \in LoadedTools(messages) <=> n # "" /\ \E m \in ToSet(messages) : n \in References(Blocks(m.content))
<1> DEFINE Of(m) == References(Blocks(m.content))
<1>1. LoadedTools(messages) = (UNION {Of(messages[i]) : i \in DOMAIN messages}) \ {""}
  BY DEF LoadedTools
<1>2. \A m : m \in ToSet(messages) <=> \E i \in DOMAIN messages : m = messages[i]
  BY DEF ToSet
<1> HIDE DEF Of
<1>3. n \in UNION {Of(messages[i]) : i \in DOMAIN messages} <=> \E i \in DOMAIN messages : n \in Of(messages[i])
  BY Zenon
<1>4. n \in LoadedTools(messages) <=> n # "" /\ \E m \in ToSet(messages) : n \in Of(m)
  BY <1>1, <1>2, <1>3
<1> QED
  BY <1>4 DEF Of

\* A field that the configuration does not name is as the translation wrote it.
LEMMA SentIsOwn ==
  ASSUME AskedFor, NEW f, f \in TranslatedFields, Own({f})
  PROVE  LET req == [system |-> system, tools |-> tools, messages |-> history, choice |-> request.choice]
         IN sent[f] = Payload(request.model, request.stream, Request(req))[f]
<1> DEFINE req     == [system |-> system, tools |-> tools, messages |-> history, choice |-> request.choice]
           payload == Payload(request.model, request.stream, Request(req))
           effort  == EffortFields(request.model, ProviderEffort, ModelEffort)
<1>1. sent = MergeFields(payload, effort)
  BY DEF AskedFor, Own
<1>2. f \notin DOMAIN effort
  BY DEF Own, Configured, Fields
<1>3. DOMAIN payload = TranslatedFields
  BY DEF Payload, TranslatedFields
<1> HIDE DEF payload, effort
<1>4. sent[f] = payload[f]
  BY <1>1, <1>2, <1>3 DEF MergeFields
<1> QED
  BY <1>4 DEF payload

\* A request under way offers the tools the Anthropic API lets a model know of,
\* or those of the configuration.
LEMMA OfferedIsVisible ==
  ASSUME Typed, AskedFor, Asked
  PROVE  /\ Own({"tools"}) => Offered = Visible
         /\ Offered \subseteq Visible
<1> DEFINE req == [system |-> system, tools |-> tools, messages |-> history, choice |-> request.choice]
           loaded == LoadedTools(history)
<1>1. tools \in Seq(Tools) /\ tools \in ToolSets
  BY SessionIsTyped DEF Typed
<1>2. Translatable(req)
  BY DEF AskedFor
<1>3. \A u \in ToSet(tools) : ~ IsSearch(u) <=> u.type = ""
  BY <1>2 DEF Translatable, IsSearch
<1>4. \A n : n \in loaded <=> \E m \in ToSet(history) : n \in References(Blocks(m.content))
  <2>1. ASSUME NEW m \in ToSet(history), NEW n \in References(Blocks(m.content)) PROVE n # ""
    <3>1. n \in DOMAIN Catalog(tools)
      BY <1>2, ReferencesAreKnown
    <3> QED
      BY <1>1, <3>1, CatalogNames
  <2> QED
    BY <2>1, LoadedToolsAre
<1>5. ASSUME Own({"tools"}) PROVE Offered = Visible
  <2>1. sent.tools = ConvertTools(tools, loaded)
    <3>1. "tools" \in TranslatedFields
      BY DEF TranslatedFields
    <3>2. sent["tools"] = Payload(request.model, request.stream, Request(req))["tools"]
      BY <1>5, <3>1, SentIsOwn
    <3>3. Payload(request.model, request.stream, Request(req))["tools"] = Request(req).tools
      BY DEF Payload
    <3> QED
      BY <3>2, <3>3 DEF Request
  <2>2. Offered = {t.name : t \in ToSet(sent.tools)}
    BY <1>5 DEF Offered, Own
  <2>3. Offered = {t.name : t \in {u \in ToSet(tools) : ~ IsSearch(u) /\ (u.defer => u.name \in loaded)}}
    BY <1>1, <2>1, <2>2, ConvertedTools
  <2> HIDE DEF loaded
  <2> QED
    BY <1>3, <1>4, <2>3 DEF Visible
<1>6. ASSUME ~ Own({"tools"}) PROVE Offered = {}
  BY <1>6 DEF Own, Offered
<1> QED
  BY <1>5, <1>6

-----------------------------------------------------------------------------
(* The actions.                                                            *)

\* The types of the history and of what it is for the upstream.
LEMMA HistoryIsUpstream ==
  ASSUME Typed
  PROVE  /\ history \in Seq(History) /\ system \in Seq(Texts \cup Images) /\ tools \in Seq(Tools)
         /\ Upstream \in Seq(Chats(Catalog(tools)))
         /\ Upstream = SystemMessage(system) \o Hom(convertedOf(Catalog(tools)), history)
<1>1. history \in Seq(History) /\ system \in Seq(Texts \cup Images) /\ tools \in Seq(Tools)
  BY SessionIsTyped DEF Typed
<1> QED
  BY <1>1, ConversedGrows DEF Upstream

\* What a user said beside answers leaves nothing pending.
LEMMA PairedWithRest ==
  ASSUME NEW catalog, NEW ms \in Seq(Chats(catalog)), PairedUpTo(ms, <<>>), NEW blocks \in Seq(Things)
  PROVE  PairedUpTo(ms \o (IF Hom(partOf, blocks) = <<>> THEN <<>>
                           ELSE <<Message("user", MessageContent(blocks), <<>>, "")>>), <<>>)
<1> DEFINE x == Message("user", MessageContent(blocks), <<>>, "")
<1>1. x \in Chats(catalog)
  BY UserMessageType DEF Silent
<1>2. <<>> \in Seq(Uses)
  OBVIOUS
<1>3. x.role # "tool" /\ x.calls = <<>>
  BY DEF Message
<1>4. Match(<<>>, <<>>)
  BY DEF Match
<1> HIDE DEF x
<1>5. PairedUpTo(ms \o <<x>>, <<>>)
  BY <1>1, <1>2, <1>3, <1>4, PairedWithNext
<1>6. PairedUpTo(ms \o <<>>, <<>>)
  BY ConcatEmptySeq
<1> QED
  BY <1>5, <1>6 DEF x

\* The invariant holds before anything is said.
LEMMA InitInvariant ==
  ASSUME Init
  PROVE  IInv
<1>1. system \in Seq(Texts \cup Images) /\ Pending = <<>>
  BY SessionIsTyped DEF Init, Pending
<1> DEFINE first == SystemMessage(system)
<1>2. Upstream = first /\ first \in Seq(Silent(Catalog(tools)))
  <2>1. <<>> \in Seq(History)
    OBVIOUS
  <2> QED
    BY <1>1, <2>1, ConversedGrows, SystemType DEF Init, Upstream
<1>3. Typed
  BY DEF Init, Typed
<1>4. AskedFor /\ CallsKnown
  BY DEF Init, AskedFor, Asked, CallsKnown
<1>5. Echoed
  <2>1. Echo(first) = <<>>
    BY <1>2, SilentHasNoEcho, EchoIsHom
  <2>2. [i \in DOMAIN <<>> |-> Spoken((<<>>)[i])] = <<>>
    OBVIOUS
  <2>3. Each(<<>>, Spoken) = <<>>
    BY <2>2, FlattenEmpty DEF Each, Mapped
  <2> QED
    BY <1>2, <2>1, <2>3 DEF Init, Echoed
<1>6. CallsPaired
  <2>1. first = <<>> \/ first = <<Message("system", TextContent(Hom(textOf, WithoutAttribution(system))), <<>>, "")>>
    BY <1>1, SystemType
  <2>2. \A i \in DOMAIN first : first[i].calls = <<>> /\ first[i].role # "tool"
    <3> DEFINE x == Message("system", TextContent(Hom(textOf, WithoutAttribution(system))), <<>>, "")
    <3>1. x.calls = <<>> /\ x.role # "tool"
      BY DEF Message
    <3> HIDE DEF x
    <3>2. \A i \in DOMAIN <<x>> : <<x>>[i] = x
      OBVIOUS
    <3> HIDE DEF first
    <3>3. first = <<>> \/ first = <<x>>
      BY <2>1 DEF x
    <3> QED
      BY <3>1, <3>2, <3>3
  <2> HIDE DEF first
  <2> QED
    BY <1>1, <1>2, <2>2 DEF CallsPaired, PairedUpTo
<1> QED
  BY <1>3, <1>4, <1>5, <1>6 DEF IInv

\* Words of the user answer no call, and no call waits for one.
LEMMA SayKeeps ==
  ASSUME IInv, Say
  PROVE  IInv'
<1>1. PICK content \in UserContents : Told("user", content)
  BY DEF Say
<1> DEFINE m == [role |-> "user", content |-> content]
           catalog == Catalog(tools)
           blocks == Blocks(content)
           rest == IF Hom(partOf, blocks) = <<>> THEN <<>>
                   ELSE <<Message("user", MessageContent(blocks), <<>>, "")>>
<1>2. m \in UserMessages /\ blocks \in Seq(Texts \cup Images) /\ blocks \in Seq(Things)
  BY SessionIsTyped, BlocksAreThings, SeqMonotonic
<1>3. history' = Append(history, m) /\ UNCHANGED <<session, said>> /\ pc' # "upstream" /\ Pending = <<>>
  BY <1>1 DEF Told, Say, ClientTurn
<1>4. Hom(callOf, blocks) = <<>> /\ Hom(answerOf(catalog), blocks) = <<>>
  <2>1. \A b \in Texts \cup Images : b \in Things /\ callOf[b] = <<>> /\ answerOf(catalog)[b] = <<>>
    BY DEF callOf, answerOf, Texts, Images, Things
  <2>2. \A i \in DOMAIN blocks : callOf[blocks[i]] = <<>> /\ answerOf(catalog)[blocks[i]] = <<>>
    BY <1>2, <2>1
  <2> QED
    BY <1>2, <2>2, LoopsTyped, AnswerType, HomIsEmpty
<1>5. Converted(m, catalog) = rest
  <2>1. Converted(m, catalog) = <<>> \o rest
    BY <1>2, <1>4, UserConverted
  <2>2. \A x : <<>> \o <<x>> = <<x>> /\ <<>> \o <<>> = <<>>
    OBVIOUS
  <2> QED
    BY <2>1, <2>2
<1>6. PairedUpTo(Upstream \o rest, <<>>)
  <2>1. PairedUpTo(Upstream, <<>>)
    BY <1>3 DEF IInv, CallsPaired
  <2>2. Upstream \in Seq(Chats(catalog))
    BY HistoryIsUpstream DEF IInv
  <2> QED
    BY <1>2, <2>1, <2>2, PairedWithRest
<1>7. m.content = content
  OBVIOUS
<1> HIDE DEF m, rest
<1> QED
  BY <1>2, <1>3, <1>4, <1>5, <1>6, <1>7, UserTurn

\* The calls that have no answer yet are tool_use blocks.
LEMMA PendingType ==
  ASSUME Typed
  PROVE  Pending \in Seq(Uses)
<1>1. CASE history = <<>> \/ Last(history).role = "user"
  <2>1. Pending = <<>>
    BY <1>1 DEF Pending
  <2> QED
    BY <2>1
<1>2. CASE ~ (history = <<>> \/ Last(history).role = "user")
  <2>1. history \in Seq(History) /\ history # <<>>
    BY <1>2, HistoryIsUpstream
  <2>2. Last(history) \in History
    BY <2>1 DEF Last
  <2>3. Blocks(Last(history).content) \in Seq(Things)
    BY <2>2, UserBlocksOf, ModelBlocksOf DEF History
  <2>4. Hom(useOf, Blocks(Last(history).content)) \in Seq(Uses)
    BY <2>3, LoopsTyped, HomType
  <2>5. Pending = CallsOf(Last(history))
    BY <1>2 DEF Pending
  <2> QED
    BY <2>3, <2>4, <2>5, UsesAreHom
<1> QED
  BY <1>1, <1>2

\* Results answer all pending calls, whether other blocks stand before or behind them.
LEMMA GiveResultsKeeps ==
  ASSUME IInv, GiveResults
  PROVE  IInv'
<1> DEFINE resultsOf(given) == [i \in DOMAIN Pending |->
                                  [type |-> "tool_result", id |-> Pending[i].id, content |-> given[i]]]
           catalog == Catalog(tools)
<1>1. PICK given \in [DOMAIN Pending -> ResultContents], extra \in Extras :
        Told("user", Array(resultsOf(given) \o extra)) \/ Told("user", Array(extra \o resultsOf(given)))
  BY DEF GiveResults
<1>2. PICK blocks : /\ blocks = resultsOf(given) \o extra \/ blocks = extra \o resultsOf(given)
                    /\ Told("user", Array(blocks))
  BY <1>1
<1> DEFINE m == [role |-> "user", content |-> Array(blocks)]
           answers == Hom(answerOf(catalog), blocks)
           rest == IF Hom(partOf, blocks) = <<>> THEN <<>>
                   ELSE <<Message("user", MessageContent(blocks), <<>>, "")>>
<1>3. history' = Append(history, m) /\ UNCHANGED <<session, said>> /\ pc' # "upstream" /\ Pending # <<>>
  BY <1>2 DEF Told, GiveResults, ClientTurn
<1>4. Pending \in Seq(Uses)
  BY PendingType DEF IInv
<1>5. given \in [DOMAIN Pending -> Seq(Texts \cup Images \cup Named)] /\ extra \in Seq(Texts \cup Images)
  <2>1. ResultContents \subseteq Seq(Texts \cup Images \cup Named) /\ Extras \subseteq Seq(Texts \cup Images)
    BY SessionIsTyped
  <2>2. given \in [DOMAIN Pending -> ResultContents] /\ extra \in Extras
    BY <1>1
  <2> QED
    BY <2>1, <2>2
<1> HIDE DEF catalog
<1>6. /\ m \in UserMessages /\ Blocks(Array(blocks)) = blocks /\ blocks \in Seq(Things)
      /\ answers \in Seq(Answers(catalog)) /\ Len(answers) = Len(Pending)
      /\ \A k \in 1 .. Len(Pending) : answers[k].callID = Pending[k].id
  <2> DEFINE results == resultsOf(given)
             result(i) == [type |-> "tool_result", id |-> Pending[i].id, content |-> given[i]]
  <2>1. DOMAIN Pending = 1 .. Len(Pending) /\ Len(Pending) \in Nat /\ \A i \in DOMAIN Pending : Pending[i] \in Uses
    BY <1>4
  <2>2. ASSUME NEW i \in DOMAIN Pending PROVE result(i) \in Results /\ result(i).id = Pending[i].id
    BY <1>5, <2>1 DEF Uses, Results
  <2>3. results = [i \in DOMAIN Pending |-> result(i)]
    OBVIOUS
  <2> HIDE DEF result, results
  <2>4. OneEach(results, Pending)
    BY <2>1, <2>2, <2>3 DEF OneEach
  <2>5. blocks = results \o extra \/ blocks = extra \o results
    BY <1>2 DEF results
  <2> HIDE DEF resultsOf
  <2>6. Answering(catalog, blocks, Pending)
    BY <1>4, <1>5, <2>4, <2>5, ResultsAnswer
  <2> QED
    BY <2>6 DEF Answering
<1>7. Hom(callOf, blocks) = <<>>
  <2>1. m.content = Array(blocks)
    OBVIOUS
  <2>2. blocks \in Seq(UserBlocks)
    BY <1>6, <2>1, UserBlocksOf
  <2>3. \A b \in UserBlocks : b \in Things /\ callOf[b] = <<>>
    <3>1. \A b \in UserBlocks : b \in Things /\ b.type # "tool_use"
      BY BlocksAreThings DEF UserBlocks, Texts, Images, Results
    <3> QED
      BY <3>1, CallIsUse
  <2>4. \A i \in DOMAIN blocks : callOf[blocks[i]] = <<>>
    BY <2>2, <2>3
  <2> QED
    BY <1>6, <2>4, LoopsTyped, HomIsEmpty
<1>8. m.content = Array(blocks)
  OBVIOUS
<1>9. Converted(m, catalog) = answers \o rest
  BY <1>6, <1>8, UserConverted
<1>10. PairedUpTo(Upstream \o Converted(m, catalog), <<>>)
  <2>1. PairedUpTo(Upstream, Pending) /\ Upstream \in Seq(Chats(catalog))
    BY HistoryIsUpstream DEF IInv, CallsPaired, catalog
  <2>2. PairedUpTo(Upstream \o answers, <<>>)
    <3> HIDE DEF answers
    <3> QED
      BY <1>3, <1>4, <1>6, <2>1, PairedWithAnswers
  <2>3. answers \in Seq(Chats(catalog)) /\ rest \in Seq(Chats(catalog))
    <3>1. Answers(catalog) \subseteq Chats(catalog)
      BY DEF Answers
    <3>2. rest \in Seq(Chats(catalog))
      <4> DEFINE x == Message("user", MessageContent(blocks), <<>>, "")
      <4>1. x \in Chats(catalog)
        BY <1>6, UserMessageType DEF Silent
      <4> HIDE DEF x
      <4>2. <<x>> \in Seq(Chats(catalog)) /\ <<>> \in Seq(Chats(catalog))
        BY <4>1
      <4> QED
        BY <4>2 DEF x
    <3> HIDE DEF rest, answers
    <3> QED
      BY <1>6, <3>1, <3>2, SeqMonotonic
  <2>4. Upstream \o answers \in Seq(Chats(catalog))
    BY <2>1, <2>3, ConcatProperties
  <2>5. PairedUpTo((Upstream \o answers) \o rest, <<>>)
    BY <1>6, <2>2, <2>4, PairedWithRest
  <2>6. \A x, y, z \in Seq(Chats(catalog)) : (x \o y) \o z = x \o (y \o z)
    BY ConcatAssociative
  <2>7. (Upstream \o answers) \o rest = Upstream \o (answers \o rest)
    BY <2>1, <2>3, <2>6
  <2> HIDE DEF answers, rest
  <2> QED
    BY <1>9, <2>5, <2>7
<1>11. Hom(callOf, Blocks(m.content)) = <<>>
  BY <1>6, <1>7, <1>8
<1> HIDE DEF m
<1> QED
  BY <1>3, <1>6, <1>10, <1>11, UserTurn DEF catalog

\* Where the history stays as it is, what is said of it stays so too.
LEMMA HistoryStays ==
  ASSUME IInv, UNCHANGED <<session, history, said>>, AskedFor'
  PROVE  IInv'
<1>1. Typed'
  BY DEF IInv, Typed, session
<1>2. Upstream' = Upstream /\ Pending' = Pending /\ Visible' = Visible
  BY DEF Upstream, Pending, Visible, session
<1>3. Echoed' /\ CallsPaired'
  BY <1>2 DEF IInv, Echoed, CallsPaired
<1>4. CallsKnown'
  BY <1>2 DEF IInv, CallsKnown
<1> QED
  BY <1>1, <1>3, <1>4 DEF IInv

\* What is sent is made of the history as it is.
LEMMA AskKeeps ==
  ASSUME IInv, Ask
  PROVE  IInv'
<1> DEFINE reqOf(choice) == [system |-> system, tools |-> tools, messages |-> history, choice |-> choice]
           sentFor(model, stream, choice) ==
             MergeFields(Payload(model, stream, Request(reqOf(choice))),
                         EffortFields(model, ProviderEffort, ModelEffort))
<1>1. PICK choice \in ToolChoices :
        IF Translatable(reqOf(choice))
        THEN \E model \in Models, stream \in BOOLEAN :
               /\ request' = [model |-> model, stream |-> stream, choice |-> choice]
               /\ sent' = sentFor(model, stream, choice)
               /\ pc' = "upstream"
        ELSE pc' = "refused" /\ UNCHANGED <<request, sent>>
  BY DEF Ask
<1>2. UNCHANGED <<session, history, said>> /\ history # <<>> /\ Last(history).role = "user"
  BY DEF Ask
<1>3. AskedFor'
  <2>1. CASE Translatable(reqOf(choice))
    <3>1. PICK model \in Models, stream \in BOOLEAN :
            /\ request' = [model |-> model, stream |-> stream, choice |-> choice]
            /\ sent' = sentFor(model, stream, choice)
      BY <1>1, <2>1
    <3>2. request.model' = model /\ request.stream' = stream /\ request.choice' = choice
      BY <3>1
    <3>3. ToolChoices' = ToolChoices /\ system' = system /\ tools' = tools /\ history' = history
      BY <1>2 DEF ToolChoices, Visible, session
    <3> QED
      BY <1>1, <1>2, <2>1, <3>1, <3>2, <3>3 DEF AskedFor
  <2>2. CASE ~ Translatable(reqOf(choice))
    BY <1>1, <2>2 DEF AskedFor, Asked
  <2> QED
    BY <2>1, <2>2
<1> QED
  BY <1>2, <1>3, HistoryStays

\* A reply at once says in the history what the model said.
LEMMA ReplyKeeps ==
  ASSUME IInv, Reply
  PROVE  IInv'
<1>1. PICK r \in Replies : /\ CallsOnly(r, Offered)
                           /\ Encodable(Response(r))
                           /\ Answered(Encoded(Response(r)), r)
  BY DEF Reply
<1>2. Asked /\ UNCHANGED session
  BY DEF Reply, Asked
<1>3. history # <<>> /\ Last(history).role = "user"
  BY <1>2 DEF IInv, AskedFor
<1>4. Offered \subseteq Visible
  BY <1>2, OfferedIsVisible DEF IInv
<1>5. SameTurn(Encoded(Response(r)), r)
  <2>1. r \in Seq(Fragments)
    BY SessionIsTyped
  <2>2. SameTurn(Response(r), r)
    BY <2>1, ResponseIsSame
  <2>3. Response(r) \in Seq(Written)
    BY <2>2 DEF SameTurn
  <2> QED
    BY <2>2, <2>3, EncodedIsSame
<1> QED
  BY <1>1, <1>2, <1>3, <1>4, <1>5, ModelTurn

\* A streamed reply does.
LEMMA ReplyStreamedKeeps ==
  ASSUME IInv, ReplyStreamed
  PROVE  IInv'
<1>1. PICK r \in Replies : /\ CallsOnly(r, Offered)
                           /\ Encodable(Streamed(r))
                           /\ Answered(Encoded(Streamed(r)), r)
  BY DEF ReplyStreamed
<1>2. Asked /\ UNCHANGED session
  BY DEF ReplyStreamed, Asked
<1>3. history # <<>> /\ Last(history).role = "user"
  BY <1>2 DEF IInv, AskedFor
<1>4. Offered \subseteq Visible
  BY <1>2, OfferedIsVisible DEF IInv
<1>5. SameTurn(Encoded(Streamed(r)), r)
  <2>1. r \in Seq(Fragments)
    BY SessionIsTyped
  <2>2. SameTurn(Streamed(r), r)
    BY <2>1, StreamedIsSame
  <2>3. Streamed(r) \in Seq(Written)
    BY <2>2 DEF SameTurn
  <2> QED
    BY <2>2, <2>3, EncodedIsSame
<1> QED
  BY <1>1, <1>2, <1>3, <1>4, <1>5, ModelTurn

\* A reply of the Anthropic API does, for thinking says nothing to others.
LEMMA AnthropicRepliesKeeps ==
  ASSUME IInv, AnthropicReplies
  PROVE  IInv'
<1>1. PICK r \in Replies : /\ CallsOnly(r, Visible)
                           /\ Encodable(Streamed(r))
                           /\ Answered(<<[type |-> "thinking"]>> \o Encoded(Streamed(r)), r)
  BY DEF AnthropicReplies
<1>2. history # <<>> /\ Last(history).role = "user" /\ UNCHANGED session
  BY DEF AnthropicReplies
<1>3. SameTurn(Encoded(Streamed(r)), r)
  <2>1. r \in Seq(Fragments)
    BY SessionIsTyped
  <2>2. SameTurn(Streamed(r), r)
    BY <2>1, StreamedIsSame
  <2>3. Streamed(r) \in Seq(Written)
    BY <2>2 DEF SameTurn
  <2> QED
    BY <2>2, <2>3, EncodedIsSame
<1> QED
  BY <1>1, <1>2, <1>3, ModelTurn

\* The invariant holds in every state.
THEOREM Invariance == Spec => []IInv
<1>1. Init => IInv
  BY InitInvariant
<1>2. IInv /\ [Next]_vars => IInv'
  <2> SUFFICES ASSUME IInv, [Next]_vars
               PROVE  IInv'
    OBVIOUS
  <2>1. CASE Say
    BY <2>1, SayKeeps
  <2>2. CASE GiveResults
    BY <2>2, GiveResultsKeeps
  <2>3. CASE Ask
    BY <2>3, AskKeeps
  <2>4. CASE Reply
    BY <2>4, ReplyKeeps
  <2>5. CASE ReplyLost
    <3>1. AskedFor' /\ UNCHANGED <<session, history, said>>
      BY <2>5 DEF ReplyLost, AskedFor, Asked
    <3> QED
      BY <3>1, HistoryStays
  <2>6. CASE Retry
    <3>1. AskedFor' /\ UNCHANGED <<session, history, said>>
      BY <2>6 DEF Retry, AskedFor, Asked
    <3> QED
      BY <3>1, HistoryStays
  <2>7. CASE ReplyStreamed
    BY <2>7, ReplyStreamedKeeps
  <2>8. CASE AnthropicReplies
    BY <2>8, AnthropicRepliesKeeps
  <2>9. CASE UNCHANGED vars
    <3>1. UNCHANGED <<session, history, said>> /\ UNCHANGED <<system, tools, history, request, sent, pc>>
      BY <2>9 DEF vars, session
    <3>2. AskedFor'
      <4>1. AskedFor
        BY DEF IInv
      <4>2. AskedFor' = AskedFor
        BY <3>1 DEF AskedFor, Asked, ToolChoices, Visible
      <4> QED
        BY <4>1, <4>2
    <3> QED
      BY <3>1, <3>2, HistoryStays
  <2>10. CASE ReplyUnread
    <3>1. AskedFor' /\ UNCHANGED <<session, history, said>>
      BY <2>10 DEF ReplyUnread, AskedFor, Asked
    <3> QED
      BY <3>1, HistoryStays
  <2> QED
    BY <2>1, <2>2, <2>3, <2>4, <2>5, <2>6, <2>7, <2>8, <2>9, <2>10 DEF Next
<1> QED
  BY <1>1, <1>2, PTL DEF Spec

-----------------------------------------------------------------------------
(* Properties.                                                             *)

\* A request under way is for a history that is translated as a whole.
LEMMA AskedIsTranslatable ==
  ASSUME IInv, Asked
  PROVE  /\ Pending = <<>>
         /\ Translatable([system |-> system, tools |-> tools, messages |-> history, choice |-> request.choice])
  BY DEF IInv, AskedFor, Pending

\* It holds the history as it is, unless the configuration has other messages.
LEMMA AskedIsUpstream ==
  ASSUME IInv, Own({"messages"})
  PROVE  Ms = Upstream
<1> DEFINE req == [system |-> system, tools |-> tools, messages |-> history, choice |-> request.choice]
<1>1. sent.messages = Request(req).messages
  <2>1. "messages" \in TranslatedFields
    BY DEF TranslatedFields
  <2>2. sent["messages"] = Payload(request.model, request.stream, Request(req))["messages"]
    BY <2>1, SentIsOwn DEF IInv
  <2>3. Payload(request.model, request.stream, Request(req))["messages"] = Request(req).messages
    BY DEF Payload
  <2> QED
    BY <2>2, <2>3
<1>2. Request(req).messages = Upstream
  <2>1. req.system = system /\ req.tools = tools /\ req.messages = history
    OBVIOUS
  <2> HIDE DEF req
  <2> QED
    BY <2>1 DEF Request, Upstream, Conversed, Each, Mapped
<1> QED
  BY <1>1, <1>2 DEF Ms

\* In every request the calls of a turn are answered right behind it, and no
\* tool message stands elsewhere.
THEOREM CallsAreAnswered == Spec => []Paired
<1>1. IInv => Paired
  <2> SUFFICES ASSUME IInv, Own({"messages"})
               PROVE  /\ \A i \in DOMAIN Ms : Ms[i].calls # <<>> => AnsweredInPlace(Ms, i)
                      /\ \A i \in DOMAIN Ms : Ms[i].role = "tool" =>
                           \E j \in 1 .. i - 1 : i <= j + Len(Ms[j].calls)
    BY DEF Paired
  <2>1. PairedUpTo(Ms, <<>>)
    BY AskedIsUpstream, AskedIsTranslatable DEF IInv, CallsPaired, Own
  <2> QED
    BY <2>1 DEF PairedUpTo
<1> QED
  BY <1>1, Invariance, PTL

\* Every request shows all turns of the models just as they were taken.
THEOREM TurnsStayTheSame == Spec => []EchoIsSame
<1>1. IInv => EchoIsSame
  BY AskedIsUpstream DEF IInv, Echoed, EchoIsSame
<1> QED
  BY <1>1, Invariance, PTL

\* A request has the fields configured for its model, and none that count for
\* other models only; model and form are the client's unless these fields name
\* them, and only a field that names the form makes a reply unreadable.
THEOREM FieldsAreRight == Spec => []FieldsFit
<1> DEFINE effort == EffortFields(request.model, ProviderEffort, ModelEffort)
           InForm == pc = "unread" => "stream" \in Configured
<1>1. ASSUME IInv, Asked
      PROVE  /\ request.model \in DOMAIN ModelEffort =>
                  /\ Holds(ModelEffort[request.model])
                  /\ DOMAIN sent \subseteq Fields(ModelEffort[request.model]) \cup TranslatedFields
             /\ request.model \notin DOMAIN ModelEffort => Holds(ProviderEffort)
  <2> DEFINE req     == [system |-> system, tools |-> tools, messages |-> history, choice |-> request.choice]
             payload == Payload(request.model, request.stream, Request(req))
  <2>1. sent = MergeFields(payload, effort)
    BY <1>1 DEF IInv, AskedFor
  <2>2. DOMAIN payload = TranslatedFields
    BY DEF Payload, TranslatedFields
  <2> HIDE DEF payload, effort
  <2>3. DOMAIN sent = TranslatedFields \cup DOMAIN effort /\ Holds(effort)
    BY <2>1, <2>2 DEF MergeFields, Holds
  <2>4. CASE request.model \in DOMAIN ModelEffort
    <3>1. effort = ModelEffort[request.model]
      BY <2>4 DEF effort, EffortFields
    <3> QED
      BY <2>3, <2>4, <3>1 DEF Fields
  <2>5. CASE request.model \notin DOMAIN ModelEffort
    <3>1. effort = ProviderEffort
      BY <2>5 DEF effort, EffortFields
    <3> QED
      BY <2>3, <2>5, <3>1
  <2> QED
    BY <2>4, <2>5
<1>2. ASSUME IInv
      PROVE  /\ Own({"model"}) => sent.model = request.model
             /\ Own({"stream"}) => sent.stream = request.stream
  <2> DEFINE req     == [system |-> system, tools |-> tools, messages |-> history, choice |-> request.choice]
             payload == Payload(request.model, request.stream, Request(req))
  <2>1. payload["model"] = request.model /\ payload["stream"] = request.stream
    BY DEF Payload
  <2>2. \A f \in TranslatedFields : Own({f}) => sent[f] = payload[f]
    BY <1>2, SentIsOwn DEF IInv
  <2>3. "model" \in TranslatedFields /\ "stream" \in TranslatedFields
    BY DEF TranslatedFields
  <2> HIDE DEF payload
  <2> QED
    BY <2>1, <2>2, <2>3
<1>3. IInv /\ InForm => FieldsFit
  BY <1>1, <1>2 DEF FieldsFit
<1>4. Init => InForm
  BY DEF Init
<1>5. IInv /\ InForm /\ [Next]_vars => InForm'
  <2> SUFFICES ASSUME IInv, InForm, [Next]_vars, pc' = "unread"
               PROVE  ("stream" \in Configured)'
    OBVIOUS
  <2>1. CASE ReplyUnread
    <3>1. Asked /\ sent.stream # request.stream
      BY <2>1 DEF ReplyUnread, FormFits, Asked
    <3>2. "stream" \in Configured
      BY <1>2, <3>1 DEF Own
    <3> QED
      BY <2>1, <3>2 DEF ReplyUnread, Configured
  <2>2. CASE UNCHANGED vars
    BY <2>2 DEF vars, Configured
  <2>3. ASSUME Next, ~ ReplyUnread
        PROVE  FALSE
    BY <2>3 DEF Next, Say, GiveResults, ClientTurn, Ask, Reply, ReplyLost, Retry, ReplyStreamed,
       AnthropicReplies, Answered
  <2> QED
    BY <2>1, <2>2, <2>3
<1> QED
  BY <1>3, <1>4, <1>5, Invariance, PTL DEF Spec

-----------------------------------------------------------------------------
(* What Request makes of the user's side.                                  *)

\* A message holds the definition t.
SpellsOut(ms, t) == \E x \in ToSet(ms) : t \in ToSet(x.content.functions)

\* The definitions that stand in the messages made of a message are those it
\* refers to.
LEMMA FunctionsAreReferences ==
  ASSUME NEW catalog, NEW m \in History, NEW t
  PROVE  SpellsOut(Converted(m, catalog), t) <=> \E n \in References(Blocks(m.content)) : t = catalog[n]
<1> DEFINE blocks == Blocks(m.content)
           Found == \E x \in ToSet(Converted(m, catalog)) : t \in ToSet(x.content.functions)
           Referred == \E n \in References(blocks) : t = catalog[n]
<1>1. ToSet(<<>>) = {} /\ \A x : ToSet(<<x>>) = {x}
  BY DEF ToSet
<1>2. CASE m \in ModelMessages
  <2>1. blocks \in Seq(ModelBlocks)
    BY <1>2, ModelBlocksOf
  <2>2. \A b \in ModelBlocks : b.type # "tool_result"
    BY DEF ModelBlocks, Spelt, Texts, Uses, Thoughts
  <2>3. \A b \in ToSet(blocks) : b.type # "tool_result"
    BY <2>1, <2>2 DEF ToSet
  <2>4. ~ Referred
    BY <2>3, ReferencesAre
  <2>5. ASSUME NEW x \in ToSet(Converted(m, catalog)) PROVE x.content.functions = <<>>
    <3> DEFINE text == Hom(textOf, blocks)
               y == Message("assistant", TextContent(text), Hom(callOf, blocks), "")
    <3>1. Converted(m, catalog) = <<>> \/ Converted(m, catalog) = <<y>>
      BY <1>2, ModelConverted
    <3>2. y.content.functions = <<>>
      BY DEF Message, TextContent
    <3> HIDE DEF y
    <3> QED
      BY <1>1, <3>1, <3>2
  <2>6. ~ Found
    BY <1>1, <2>5
  <2> QED
    BY <2>4, <2>6 DEF SpellsOut
<1>3. CASE m \in UserMessages
  <2> DEFINE g == answerOf(catalog)
             y == Message("user", MessageContent(blocks), <<>>, "")
             rest == IF Hom(partOf, blocks) = <<>> THEN <<>> ELSE <<y>>
  <2>1. blocks \in Seq(Things)
    BY <1>3, UserBlocksOf
  <2>2. Converted(m, catalog) = Hom(g, blocks) \o rest
    BY <1>3, UserConverted
  <2> HIDE DEF blocks
  <2>3. y.content.functions = <<>>
    BY DEF Message, MessageContent, TextContent, PartsContent
  <2>4. \A x \in ToSet(rest) : x.content.functions = <<>>
    <3> HIDE DEF y
    <3> QED
      BY <1>1, <2>3
  <2>5. ToSet(Converted(m, catalog)) = ToSet(Hom(g, blocks)) \cup ToSet(rest)
    <3>1. \A s, u \in Seq(Chats(catalog)) : ToSet(s \o u) = ToSet(s) \cup ToSet(u)
      BY ConcatElements
    <3>2. Hom(g, blocks) \in Seq(Chats(catalog)) /\ rest \in Seq(Chats(catalog))
      <4>1. Answers(catalog) \subseteq Chats(catalog) /\ Silent(catalog) \subseteq Chats(catalog)
        BY DEF Answers, Silent
      <4>2. Hom(g, blocks) \in Seq(Answers(catalog))
        BY <2>1, AnswerType, HomType
      <4>3. y \in Chats(catalog)
        BY <2>1, <4>1, UserMessageType
      <4> HIDE DEF y, g
      <4>4. <<y>> \in Seq(Chats(catalog)) /\ <<>> \in Seq(Chats(catalog))
        BY <4>3
      <4> QED
        BY <4>1, <4>2, <4>4, SeqMonotonic
    <3> QED
      BY <2>2, <3>1, <3>2
  <2>6. Found <=> \E x \in ToSet(Hom(g, blocks)) : t \in ToSet(x.content.functions)
    <3> HIDE DEF rest, g
    <3> QED
      BY <1>1, <2>4, <2>5
  <2>7. \A x : x \in ToSet(Hom(g, blocks)) <=> \E i \in DOMAIN blocks : x \in ToSet(g[blocks[i]])
    BY <2>1, AnswerType, HomElements
  <2>8. ASSUME NEW b \in Things
        PROVE  (\E x \in ToSet(g[b]) : t \in ToSet(x.content.functions))
                 <=> b.type = "tool_result"
                       /\ \E c \in ToSet(b.content) : c.type = "tool_reference" /\ t = catalog[c.name]
    <3>1. CASE b.type # "tool_result"
      <4>1. g[b] = <<>>
        BY <3>1 DEF answerOf
      <4> QED
        BY <1>1, <3>1, <4>1
    <3>2. CASE b.type = "tool_result"
      <4> DEFINE z == Message("tool", ToolResultText(b.content, catalog), <<>>, b.id)
                 f == functionOf(catalog)
      <4>1. g[b] = <<z>>
        BY <3>2 DEF answerOf
      <4>2. b.content \in Seq(Things)
        BY <3>2, Kinds, BlocksAreThings, SeqMonotonic
      <4>3. z.content.functions = Hom(f, b.content)
        <5>1. z.content = ToolResultText(b.content, catalog)
          BY DEF Message
        <5>2. ToolResultText(b.content, catalog) =
                [text |-> Hom(textOf, b.content), parts |-> <<>>, functions |-> Hom(f, b.content)]
          BY <4>2, FunctionsIsHom
        <5> HIDE DEF z, f
        <5> QED
          BY <5>1, <5>2
      <4> HIDE DEF z
      <4>4. (\E x \in ToSet(g[b]) : t \in ToSet(x.content.functions)) <=> t \in ToSet(Hom(f, b.content))
        BY <1>1, <4>1, <4>3
      <4>5. t \in ToSet(Hom(f, b.content)) <=> \E i \in DOMAIN b.content : t \in ToSet(f[b.content[i]])
        BY <4>2, FunctionsIsHom, HomElements
      <4>6. ASSUME NEW i \in DOMAIN b.content
            PROVE  t \in ToSet(f[b.content[i]])
                     <=> b.content[i].type = "tool_reference" /\ t = catalog[b.content[i].name]
        <5>1. b.content[i] \in Things
          BY <4>2
        <5>2. f[b.content[i]] = IF b.content[i].type = "tool_reference" THEN <<catalog[b.content[i].name]>> ELSE <<>>
          BY <5>1 DEF functionOf
        <5> QED
          BY <1>1, <5>2
      <4>7. \A c : c \in ToSet(b.content) <=> \E i \in DOMAIN b.content : c = b.content[i]
        BY DEF ToSet
      <4> QED
        BY <3>2, <4>4, <4>5, <4>6, <4>7
    <3> QED
      BY <3>1, <3>2
  <2>9. \A b : b \in ToSet(blocks) <=> \E i \in DOMAIN blocks : b = blocks[i]
    BY DEF ToSet
  <2>10. \A i \in DOMAIN blocks : blocks[i] \in Things
    BY <2>1
  <2> HIDE DEF g
  <2>11. Found <=> \E b \in ToSet(blocks) : b.type = "tool_result"
                      /\ \E c \in ToSet(b.content) : c.type = "tool_reference" /\ t = catalog[c.name]
    <3> DEFINE Tells(b) == b.type = "tool_result"
                             /\ \E c \in ToSet(b.content) : c.type = "tool_reference" /\ t = catalog[c.name]
               Shows(s) == \E x \in ToSet(s) : t \in ToSet(x.content.functions)
    <3>1. Found <=> \E i \in DOMAIN blocks : Shows(g[blocks[i]])
      BY <2>6, <2>7
    <3>2. \A i \in DOMAIN blocks : Shows(g[blocks[i]]) <=> Tells(blocks[i])
      BY <2>8, <2>10
    <3> HIDE DEF Tells, Shows, Found
    <3>3. Found <=> \E b \in ToSet(blocks) : Tells(b)
      BY <2>9, <3>1, <3>2
    <3> QED
      BY <3>3 DEF Tells
  <2> HIDE DEF Found
  <2>12. Referred <=> \E b \in ToSet(blocks) : b.type = "tool_result"
                      /\ \E c \in ToSet(b.content) : c.type = "tool_reference" /\ t = catalog[c.name]
    BY ReferencesAre
  <2> QED
    BY <2>11, <2>12 DEF Found, blocks, SpellsOut
<1> QED
  BY <1>2, <1>3 DEF History

\* What stands in a request was made of a message of the history, or is the
\* system prompt.
LEMMA RequestElements ==
  ASSUME Typed, NEW x
  PROVE  x \in ToSet(Upstream)
           <=> \/ x \in ToSet(SystemMessage(system))
               \/ \E i \in DOMAIN history : x \in ToSet(Converted(history[i], Catalog(tools)))
<1> DEFINE catalog == Catalog(tools)
           g == convertedOf(catalog)
           first == SystemMessage(system)
<1>1. history \in Seq(History) /\ Upstream = first \o Hom(g, history) /\ system \in Seq(Texts \cup Images)
  BY HistoryIsUpstream
<1>2. /\ first \in Seq(Chats(catalog)) /\ Hom(g, history) \in Seq(Chats(catalog))
      /\ g \in Pieces(History, Chats(catalog))
  <2>1. Silent(catalog) \subseteq Chats(catalog)
    BY DEF Silent
  <2> QED
    BY <1>1, <2>1, SystemType, SeqMonotonic, ConvertedIsHom, HomType
<1>3. ToSet(Upstream) = ToSet(first) \cup ToSet(Hom(g, history))
  <2> HIDE DEF first, g
  <2> QED
    BY <1>1, <1>2, ConcatElements
<1>4. x \in ToSet(Hom(g, history)) <=> \E i \in DOMAIN history : x \in ToSet(g[history[i]])
  BY <1>1, <1>2, HomElements
<1>5. \A i \in DOMAIN history : g[history[i]] = Converted(history[i], catalog)
  BY <1>1 DEF convertedOf
<1> HIDE DEF g, first
<1> QED
  BY <1>3, <1>4, <1>5 DEF first

\* Calls in a request are calls in the history.
LEMMA CallsOfRequest ==
  ASSUME Typed, NEW x \in ToSet(Upstream), NEW c \in ToSet(x.calls)
  PROVE  \E i \in DOMAIN history : c \in ToSet(ToolCalls(Blocks(history[i].content)))
<1> DEFINE catalog == Catalog(tools)
<1>1. ToSet(<<>>) = {} /\ \A y : ToSet(<<y>>) = {y}
  BY DEF ToSet
<1>2. \A ms \in Seq(Silent(catalog)) : x \notin ToSet(ms)
  <2>1. x.calls # <<>>
    BY <1>1
  <2>2. \A ms \in Seq(Silent(catalog)) : \A y \in ToSet(ms) : y.calls = <<>>
    BY DEF ToSet, Silent
  <2> QED
    BY <2>1, <2>2
<1>3. x \notin ToSet(SystemMessage(system))
  BY <1>2, HistoryIsUpstream, SystemType
<1>4. PICK i \in DOMAIN history : x \in ToSet(Converted(history[i], catalog))
  BY <1>3, RequestElements
<1> DEFINE m == history[i]
           blocks == Blocks(m.content)
<1>5. m \in History
  BY HistoryIsUpstream
<1> HIDE DEF m
<1>6. m \in ModelMessages
  <2>1. m \notin UserMessages
    BY <1>2, <1>4, UserIsSilent DEF m
  <2> QED
    BY <1>5, <2>1 DEF History
<1>7. x.calls = Hom(callOf, blocks)
  <2> DEFINE y == Message("assistant", TextContent(Hom(textOf, blocks)), Hom(callOf, blocks), "")
  <2>1. Converted(m, catalog) = <<>> \/ Converted(m, catalog) = <<y>>
    BY <1>6, ModelConverted
  <2>2. y.calls = Hom(callOf, blocks)
    BY DEF Message
  <2> HIDE DEF y
  <2>3. x = y
    BY <1>1, <1>4, <2>1 DEF m
  <2> QED
    BY <2>2, <2>3
<1>8. blocks \in Seq(Things)
  BY <1>6, ModelBlocksOf
<1>9. c \in ToSet(ToolCalls(blocks))
  BY <1>7, <1>8, ToolCallsIsHom
<1> QED
  BY <1>9 DEF m

\* The names of the definitions in a request are those that tool results refer to.
LEMMA SpelledAre ==
  ASSUME IInv, Own({"messages"}), NEW n
  PROVE  n \in Spelled <=> \E m \in ToSet(history) : n \in References(Blocks(m.content))
<1> DEFINE catalog == Catalog(tools)
           Found(t) == \E x \in ToSet(Ms) : t \in ToSet(x.content.functions)
           req == [system |-> system, tools |-> tools, messages |-> history, choice |-> request.choice]
<1>1. ToSet(<<>>) = {} /\ \A y : ToSet(<<y>>) = {y}
  BY DEF ToSet
<1>2. Ms = Upstream /\ Typed /\ Translatable(req) /\ history \in Seq(History) /\ system \in Seq(Texts \cup Images)
  BY AskedIsUpstream, AskedIsTranslatable, HistoryIsUpstream DEF IInv, Own
<1>3. n \in Spelled <=> \E t : Found(t) /\ t.name = n
  BY DEF Spelled
<1>4. \A m : m \in ToSet(history) <=> \E i \in DOMAIN history : m = history[i]
  BY DEF ToSet
<1>5. ASSUME NEW x \in ToSet(SystemMessage(system)) PROVE x.content.functions = <<>>
  <2> DEFINE y == Message("system", TextContent(Hom(textOf, WithoutAttribution(system))), <<>>, "")
  <2>1. SystemMessage(system) = <<>> \/ SystemMessage(system) = <<y>>
    BY <1>2, SystemType
  <2>2. y.content.functions = <<>>
    BY DEF Message, TextContent
  <2> HIDE DEF y
  <2> QED
    BY <1>1, <1>5, <2>1, <2>2
<1>6. ASSUME NEW t
      PROVE  Found(t) <=> \E m \in ToSet(history) : \E k \in References(Blocks(m.content)) : t = catalog[k]
  <2>1. \A x : x \in ToSet(Ms) <=> \/ x \in ToSet(SystemMessage(system))
                                  \/ \E i \in DOMAIN history : x \in ToSet(Converted(history[i], catalog))
    BY <1>2, RequestElements
  <2>2. Found(t) <=> \E i \in DOMAIN history :
                       \E x \in ToSet(Converted(history[i], catalog)) : t \in ToSet(x.content.functions)
    BY <1>1, <1>5, <2>1
  <2>3. \A i \in DOMAIN history : history[i] \in History
    BY <1>2
  <2>4. \A i \in DOMAIN history :
          (\E x \in ToSet(Converted(history[i], catalog)) : t \in ToSet(x.content.functions))
            <=> (\E k \in References(Blocks(history[i].content)) : t = catalog[k])
    <3>1. \A m \in History :
            SpellsOut(Converted(m, catalog), t) <=> \E k \in References(Blocks(m.content)) : t = catalog[k]
      BY FunctionsAreReferences
    <3> QED
      BY <2>3, <3>1 DEF SpellsOut
  <2> HIDE DEF Found, catalog
  <2>5. Found(t) <=> \E i \in DOMAIN history : \E k \in References(Blocks(history[i].content)) : t = catalog[k]
    BY <2>2, <2>4
  <2> QED
    BY <1>4, <2>5
<1>7. ASSUME NEW m \in ToSet(history), NEW k \in References(Blocks(m.content)) PROVE catalog[k].name = k
  <2>1. k \in DOMAIN Catalog(tools)
    BY <1>2, ReferencesAreKnown
  <2> QED
    BY <1>2, <2>1, CatalogNames DEF Typed
<1> HIDE DEF Found, catalog
<1> QED
  BY <1>3, <1>6, <1>7

\* A deferred tool is offered just when the request spells it out, and one that
\* was called or is insisted on is offered.
THEOREM ToolsStayKnown == Spec => []ToolsAreKnown
<1>1. ASSUME IInv, Own({"messages", "tools"})
      PROVE  /\ Offered \cap Deferred = Spelled \cap Deferred
             /\ \A m \in ToSet(Ms) : \A c \in ToSet(m.calls) : c.name \in Offered
  <2>1. Own({"messages"}) /\ Own({"tools"}) /\ Asked
    BY <1>1 DEF Own
  <2>2. Offered = Visible /\ Ms = Upstream /\ Typed
    BY <1>1, <2>1, OfferedIsVisible, AskedIsUpstream DEF IInv
  <2>3. ASSUME NEW n \in Deferred PROVE n \in Visible <=> n \in Spelled
    <3>1. PICK u \in ToSet(tools) : u.defer /\ u.name = n
      BY DEF Deferred
    <3>2. /\ u.type = ""
          /\ \A t \in ToSet(tools) : t.name = n => t = u
      <4>1. /\ \A i, j \in DOMAIN tools : tools[i].name = tools[j].name => i = j
            /\ \A i \in DOMAIN tools : tools[i].defer => tools[i].type = ""
        BY <2>2, SessionAssumption DEF SessionAssumption, Typed
      <4> QED
        BY <3>1, <4>1 DEF ToSet
    <3>3. n \in Visible <=> \E m \in ToSet(history) : n \in References(Blocks(m.content))
      BY <3>1, <3>2 DEF Visible
    <3> QED
      BY <1>1, <2>1, <3>3, SpelledAre
  <2>4. \A m \in ToSet(Ms) : \A c \in ToSet(m.calls) : c.name \in Offered
    BY <1>1, <2>2, CallsOfRequest DEF IInv, CallsKnown
  <2> QED
    BY <2>2, <2>3, <2>4
<1>2. ASSUME IInv, Own({"tools", "tool_choice"}), request.choice.type = "tool"
      PROVE  sent.tool_choice.name \in Offered
  <2> DEFINE req == [system |-> system, tools |-> tools, messages |-> history, choice |-> request.choice]
  <2>1. Own({"tool_choice"}) /\ Own({"tools"}) /\ Asked
    BY <1>2 DEF Own
  <2>2. Offered = Visible
    BY <1>2, <2>1, OfferedIsVisible DEF IInv
  <2>3. request.choice \in [type : {"tool"}, name : Visible]
    <3>1. request.choice \in ToolChoices
      BY <1>2, <2>1 DEF IInv, AskedFor
    <3>2. [type |-> "none given"].type = "none given"
      OBVIOUS
    <3> QED
      BY <1>2, <3>1, <3>2 DEF ToolChoices
  <2>4. sent.tool_choice = ConvertToolChoice(request.choice)
    <3>1. "tool_choice" \in TranslatedFields
      BY DEF TranslatedFields
    <3>2. sent["tool_choice"] = Payload(request.model, request.stream, Request(req))["tool_choice"]
      BY <1>2, <2>1, <3>1, SentIsOwn DEF IInv
    <3>3. Payload(request.model, request.stream, Request(req))["tool_choice"] = Request(req).choice
      BY DEF Payload
    <3> QED
      BY <3>2, <3>3 DEF Request
  <2>5. sent.tool_choice = [type |-> "function", name |-> request.choice.name]
    BY <2>3, <2>4 DEF ConvertToolChoice
  <2> QED
    BY <2>2, <2>3, <2>5
<1>3. IInv => ToolsAreKnown
  BY <1>1, <1>2 DEF ToolsAreKnown
<1> QED
  BY <1>3, Invariance, PTL

-----------------------------------------------------------------------------
(* Nothing is dropped.                                                     *)

\* The blocks of the user's side, as a function of the message.
givenOf == [m \in History |-> IF m.role = "user" THEN Blocks(m.content) ELSE <<>>]

\* The blocks the user's side sent, by a loop over the history.
LEMMA GivenIsHom ==
  ASSUME history \in Seq(History)
  PROVE  givenOf \in Pieces(History, Things) /\ Given = Hom(givenOf, history) /\ Given \in Seq(Things)
<1>1. givenOf \in Pieces(History, Things)
  <2>1. \A m \in History : Blocks(m.content) \in Seq(Things)
    BY UserBlocksOf, ModelBlocksOf DEF History
  <2>2. <<>> \in Seq(Things)
    OBVIOUS
  <2> QED
    BY <2>1, <2>2 DEF givenOf, Pieces
<1>2. Given = Hom(givenOf, history)
  <2> DEFINE Op(m) == IF m.role = "user" THEN Blocks(m.content) ELSE <<>>
  <2>1. \A i \in DOMAIN history : givenOf[history[i]] = Op(history[i])
    BY DEF givenOf
  <2>2. [i \in DOMAIN history |-> Op(history[i])] = [i \in DOMAIN history |-> givenOf[history[i]]]
    BY <2>1
  <2> QED
    BY <2>2 DEF Given, Each, Mapped, Hom
<1> QED
  BY <1>1, <1>2, HomType

\* For each message g gives of what is made of it what h gives of its blocks, if
\* it is the user's, and nothing if it is the model's.
AgreeOnHistory(g, h) ==
  \A i \in DOMAIN history :
    Hom(g, Converted(history[i], Catalog(tools)))
      = IF history[i].role = "user" THEN Hom(h, Blocks(history[i].content)) ELSE <<>>

\* A loop g over the messages of a request gives what a loop h over the blocks
\* the user's side sent gives, if it does so for each message of the history.
LEMMA SameLoop ==
  ASSUME Typed, NEW V, NEW g \in Pieces(Chats(Catalog(tools)), V), NEW h \in Pieces(Things, V), AgreeOnHistory(g, h)
  PROVE  /\ Hom(g, Upstream) = Hom(g, SystemMessage(system)) \o Hom(h, Given)
         /\ Hom(g, SystemMessage(system)) \in Seq(V) /\ Hom(h, Given) \in Seq(V)
<1> DEFINE catalog == Catalog(tools)
           C == Chats(catalog)
           first == SystemMessage(system)
           made == convertedOf(catalog)
           k == [m \in History |-> Hom(g, Converted(m, catalog))]
           l == [m \in History |-> Hom(h, givenOf[m])]
<1>1. /\ history \in Seq(History) /\ Upstream = first \o Hom(made, history)
      /\ system \in Seq(Texts \cup Images)
  BY HistoryIsUpstream
<1>2. first \in Seq(C) /\ made \in Pieces(History, C) /\ Hom(made, history) \in Seq(C)
  <2>1. Silent(catalog) \subseteq C
    BY DEF Silent
  <2> QED
    BY <1>1, <2>1, SystemType, SeqMonotonic, ConvertedIsHom, HomType
<1>3. k \in Pieces(History, V) /\ \A m \in History : k[m] = Hom(g, made[m])
  <2>1. \A m \in History : made[m] = Converted(m, catalog) /\ made[m] \in Seq(C)
    BY ConvertedType DEF convertedOf
  <2>2. \A s \in Seq(C) : Hom(g, s) \in Seq(V)
    BY HomType
  <2> QED
    BY <2>1, <2>2 DEF Pieces
<1>4. l \in Pieces(History, V) /\ \A m \in History : l[m] = Hom(h, givenOf[m])
  <2>1. \A m \in History : givenOf[m] \in Seq(Things)
    BY <1>1, GivenIsHom DEF Pieces
  <2>2. \A s \in Seq(Things) : Hom(h, s) \in Seq(V)
    BY HomType
  <2> QED
    BY <2>1, <2>2 DEF Pieces
<1>5. \A i \in DOMAIN history : k[history[i]] = l[history[i]]
  <2>1. \A i \in DOMAIN history : history[i] \in History
    BY <1>1
  <2>2. Hom(h, <<>>) = <<>>
    BY HomEmpty
  <2>3. \A m \in History : givenOf[m] = IF m.role = "user" THEN Blocks(m.content) ELSE <<>>
    BY DEF givenOf
  <2> QED
    BY <2>1, <2>2, <2>3 DEF AgreeOnHistory
<1> HIDE DEF k, l, made, first
<1>6. Hom(g, Hom(made, history)) = Hom(k, history)
  BY <1>1, <1>2, <1>3, HomOfHom
<1>7. Hom(h, Given) = Hom(l, history)
  BY <1>1, <1>4, GivenIsHom, HomOfHom
<1>8. Hom(k, history) = Hom(l, history)
  BY <1>5, HomSame
<1>9. Hom(g, Upstream) = Hom(g, first) \o Hom(g, Hom(made, history))
  BY <1>1, <1>2, HomConcat
<1>10. Hom(g, first) \in Seq(V) /\ Hom(h, Given) \in Seq(V)
  BY <1>1, <1>2, GivenIsHom, HomType
<1> QED
  BY <1>6, <1>7, <1>8, <1>9, <1>10 DEF first

\* What users, tools and the system prompt say in a request, and what results say
\* in the history.
shownOf(catalog)  == [m \in Chats(catalog) |-> IF m.role = "user" THEN Shown(m.content) ELSE <<>>]
toldOf(catalog)   == [m \in Chats(catalog) |-> IF m.role = "tool" THEN <<Shown(m.content)>> ELSE <<>>]
promptOf(catalog) == [m \in Chats(catalog) |-> IF m.role = "system" THEN m.content.text ELSE <<>>]
resultOf == [b \in Things |-> IF b.type = "tool_result" THEN <<WordsAndImages(b.content)>> ELSE <<>>]

\* No blocks have no words.
LEMMA NoWords == WordsAndImages(<<>>) = <<>>
<1>1. <<>> \in Seq(Things)
  OBVIOUS
<1> QED
  BY <1>1, WordsIsHom, HomEmpty

\* What messages and results show are words.
LEMMA ShownType ==
  ASSUME NEW catalog
  PROVE  /\ \A m \in Chats(catalog) : Shown(m.content) \in Seq(STRING) /\ m.content.text \in Seq(STRING)
         /\ shownOf(catalog) \in Pieces(Chats(catalog), STRING)
         /\ toldOf(catalog) \in Pieces(Chats(catalog), Seq(STRING))
         /\ promptOf(catalog) \in Pieces(Chats(catalog), STRING)
         /\ resultOf \in Pieces(Things, Seq(STRING))
<1>1. ASSUME NEW m \in Chats(catalog) PROVE Shown(m.content) \in Seq(STRING) /\ m.content.text \in Seq(STRING)
  <2>1. m.content.text \in Seq(STRING) /\ m.content.parts \in Seq(Texts \cup Urls)
    BY DEF Chats, Bodies
  <2>2. m.content.parts \in Seq(Things)
    BY <2>1, BlocksAreThings, SeqMonotonic
  <2>3. WordsAndImages(m.content.parts) = Hom(wordsOf, m.content.parts)
    BY <2>2, WordsIsHom
  <2>4. Hom(wordsOf, m.content.parts) \in Seq(STRING)
    BY <2>2, LoopsTyped, HomType
  <2> QED
    BY <2>1, <2>3, <2>4, ConcatProperties DEF Shown
<1>2. \A x : x \in Seq(STRING) => <<x>> \in Seq(Seq(STRING))
  OBVIOUS
<1>3. <<>> \in Seq(STRING) /\ <<>> \in Seq(Seq(STRING))
  OBVIOUS
<1>4. shownOf(catalog) \in Pieces(Chats(catalog), STRING)
  BY <1>1, <1>3 DEF shownOf, Pieces
<1>5. toldOf(catalog) \in Pieces(Chats(catalog), Seq(STRING))
  BY <1>1, <1>2, <1>3 DEF toldOf, Pieces
<1>6. promptOf(catalog) \in Pieces(Chats(catalog), STRING)
  BY <1>1, <1>3 DEF promptOf, Pieces
<1>7. resultOf \in Pieces(Things, Seq(STRING))
  <2>1. ASSUME NEW b \in Things, b.type = "tool_result" PROVE WordsAndImages(b.content) \in Seq(STRING)
    <3>1. b.content \in Seq(Things)
      BY <2>1, Kinds, BlocksAreThings, SeqMonotonic
    <3> QED
      BY <3>1, WordsIsHom, LoopsTyped, HomType
  <2> QED
    BY <1>2, <1>3, <2>1 DEF resultOf, Pieces
<1> QED
  BY <1>1, <1>4, <1>5, <1>6, <1>7

\* What is made of a model's message is a turn of the assistant.
LEMMA ModelIsAssistant ==
  ASSUME NEW catalog, NEW m \in ModelMessages, NEW i \in DOMAIN Converted(m, catalog)
  PROVE  Converted(m, catalog)[i].role = "assistant"
<1> DEFINE blocks == Blocks(m.content)
           y == Message("assistant", TextContent(Hom(textOf, blocks)), Hom(callOf, blocks), "")
<1>1. Converted(m, catalog) = <<>> \/ Converted(m, catalog) = <<y>>
  BY ModelConverted
<1>2. y.role = "assistant"
  BY DEF Message
<1> HIDE DEF y
<1> QED
  BY <1>1, <1>2

\* A model's message is nothing the user said.
LEMMA ModelShowsNothing ==
  ASSUME NEW catalog, NEW m \in ModelMessages
  PROVE  /\ Hom(shownOf(catalog), Converted(m, catalog)) = <<>>
         /\ Hom(toldOf(catalog), Converted(m, catalog)) = <<>>
         /\ Hom(promptOf(catalog), Converted(m, catalog)) = <<>>
<1> DEFINE new == Converted(m, catalog)
<1>1. new \in Seq(Chats(catalog))
  BY ConvertedType DEF History
<1>2. \A i \in DOMAIN new : new[i] \in Chats(catalog) /\ new[i].role = "assistant"
  BY <1>1, ModelIsAssistant
<1>3. \A i \in DOMAIN new :
        shownOf(catalog)[new[i]] = <<>> /\ toldOf(catalog)[new[i]] = <<>> /\ promptOf(catalog)[new[i]] = <<>>
  BY <1>2 DEF shownOf, toldOf, promptOf
<1> HIDE DEF new
<1> QED
  BY <1>1, <1>3, ShownType, HomIsEmpty DEF new

\* The body of a user's message shows all words and images of it.
LEMMA BodyShows ==
  ASSUME NEW blocks \in Seq(UserBlocks)
  PROVE  /\ Hom(partOf, blocks) = <<>> => Hom(wordsOf, blocks) = <<>>
         /\ Shown(MessageContent(blocks)) = Hom(wordsOf, blocks)
<1>1. blocks \in Seq(Things) /\ \A i \in DOMAIN blocks : blocks[i] \in UserBlocks /\ blocks[i] \in Things
  <2>1. blocks \in Seq(Things)
    BY BlocksAreThings, SeqMonotonic
  <2> QED
    BY <2>1
<1>2. \A b \in UserBlocks : b \in Things /\ b.type \in {"text", "image", "tool_result"}
  BY BlocksAreThings DEF UserBlocks, Texts, Images, Results
<1>3. ASSUME Hom(partOf, blocks) = <<>> PROVE Hom(wordsOf, blocks) = <<>>
  <2>1. \A i \in DOMAIN blocks : partOf[blocks[i]] = <<>>
    BY <1>1, <1>3, LoopsTyped, HomIsEmpty
  <2>2. ASSUME NEW b \in UserBlocks, partOf[b] = <<>> PROVE wordsOf[b] = <<>>
    <3>1. b.type # "text" /\ b.type # "image"
      BY <1>2, <2>2 DEF partOf
    <3> QED
      BY <1>2, <3>1 DEF wordsOf
  <2>3. \A i \in DOMAIN blocks : wordsOf[blocks[i]] = <<>>
    BY <1>1, <2>1, <2>2
  <2> QED
    BY <1>1, <2>3, LoopsTyped, HomIsEmpty
<1>4. CASE \E b \in ToSet(blocks) : b.type = "image"
  <2> DEFINE parts == Hom(partOf, blocks)
  <2>1. MessageContent(blocks) = PartsContent(parts)
    BY <1>1, <1>4, PartsIsHom DEF MessageContent
  <2>2. parts \in Seq(Things)
    <3>1. parts \in Seq(Texts \cup Urls)
      BY <1>1, LoopsTyped, HomType
    <3> QED
      BY <3>1, BlocksAreThings, SeqMonotonic
  <2> HIDE DEF parts
  <2>3. PartsContent(parts).text = <<>> /\ PartsContent(parts).parts = parts
    BY DEF PartsContent
  <2>4. Hom(wordsOf, parts) \in Seq(STRING) /\ WordsAndImages(parts) = Hom(wordsOf, parts)
    BY <2>2, LoopsTyped, HomType, WordsIsHom
  <2>5. Shown(MessageContent(blocks)) = Hom(wordsOf, parts)
    BY <2>1, <2>3, <2>4, ConcatEmptySeq DEF Shown
  <2>6. Hom(wordsOf, parts) = Hom(wordsOf, blocks)
    <3> DEFINE k == [b \in Things |-> Hom(wordsOf, partOf[b])]
    <3>1. partOf \in Pieces(Things, Things)
      <4>1. Texts \cup Urls \subseteq Things
        BY BlocksAreThings
      <4>2. Seq(Texts \cup Urls) \subseteq Seq(Things)
        BY <4>1, SeqMonotonic
      <4> QED
        BY <4>2, LoopsTyped DEF Pieces
    <3>2. k \in Pieces(Things, STRING) /\ \A b \in Things : k[b] = Hom(wordsOf, partOf[b])
      <4>1. \A b \in Things : partOf[b] \in Seq(Things)
        BY <3>1 DEF Pieces
      <4>2. \A t \in Seq(Things) : Hom(wordsOf, t) \in Seq(STRING)
        BY LoopsTyped, HomType
      <4> QED
        BY <4>1, <4>2 DEF Pieces
    <3> HIDE DEF k
    <3>3. Hom(wordsOf, parts) = Hom(k, blocks)
      BY <1>1, <3>1, <3>2, LoopsTyped, HomOfHom DEF parts
    <3>4. ASSUME NEW b \in UserBlocks PROVE k[b] = wordsOf[b]
      <4>1. CASE b.type = "text"
        <5>1. partOf[b] = <<TextBlock(b.text)>> /\ wordsOf[b] = b.text
          BY <1>2, <4>1 DEF partOf, wordsOf
        <5>2. TextBlock(b.text) \in Things /\ TextBlock(b.text).type = "text" /\ TextBlock(b.text).text = b.text
          <6>1. b.text \in Seq(STRING)
            BY <1>2, <4>1, Kinds
          <6>2. TextBlock(b.text) \in Texts
            BY <6>1 DEF TextBlock, Texts
          <6> QED
            BY <6>2, BlocksAreThings DEF TextBlock
        <5>3. wordsOf[TextBlock(b.text)] = b.text
          BY <5>2 DEF wordsOf
        <5>4. Hom(wordsOf, <<TextBlock(b.text)>>) = wordsOf[TextBlock(b.text)]
          BY <5>2, LoopsTyped, HomOne
        <5> QED
          BY <1>2, <3>2, <5>1, <5>3, <5>4
      <4>2. CASE b.type = "image"
        <5>1. partOf[b] = <<ImagePart(b)>> /\ wordsOf[b] = <<b.source>>
          BY <1>2, <4>2 DEF partOf, wordsOf
        <5>2. ImagePart(b) \in Things /\ ImagePart(b).type = "image_url" /\ ImagePart(b).source = b.source
          <6>1. b.source \in STRING
            BY <1>2, <4>2, Kinds
          <6>2. ImagePart(b) \in Urls
            BY <6>1 DEF ImagePart, Urls
          <6> QED
            BY <6>2, BlocksAreThings DEF ImagePart
        <5>3. wordsOf[ImagePart(b)] = <<b.source>>
          BY <5>2 DEF wordsOf
        <5>4. Hom(wordsOf, <<ImagePart(b)>>) = wordsOf[ImagePart(b)]
          BY <5>2, LoopsTyped, HomOne
        <5> QED
          BY <1>2, <3>2, <5>1, <5>3, <5>4
      <4>3. CASE b.type = "tool_result"
        <5>1. partOf[b] = <<>> /\ wordsOf[b] = <<>>
          BY <1>2, <4>3 DEF partOf, wordsOf
        <5> QED
          BY <1>2, <3>2, <5>1, HomEmpty
      <4> QED
        BY <1>2, <4>1, <4>2, <4>3
    <3>5. \A i \in DOMAIN blocks : k[blocks[i]] = wordsOf[blocks[i]]
      BY <1>1, <3>4
    <3> QED
      BY <3>3, <3>5, HomSame
  <2> QED
    BY <1>3, <2>5, <2>6
<1>5. CASE ~ \E b \in ToSet(blocks) : b.type = "image"
  <2> DEFINE text == Hom(textOf, blocks)
  <2>1. MessageContent(blocks) = TextContent(text)
    BY <1>1, <1>5, TextIsHom DEF MessageContent
  <2>2. text \in Seq(STRING)
    BY <1>1, LoopsTyped, HomType
  <2> HIDE DEF text
  <2>3. TextContent(text).text = text /\ TextContent(text).parts = <<>>
    BY DEF TextContent
  <2>4. WordsAndImages(<<>>) = <<>>
    BY NoWords
  <2>5. Shown(MessageContent(blocks)) = text
    BY <2>1, <2>2, <2>3, <2>4, ConcatEmptySeq DEF Shown
  <2>6. text = Hom(wordsOf, blocks)
    <3>1. \A i \in DOMAIN blocks : blocks[i].type # "image"
      BY <1>5 DEF ToSet
    <3>2. \A b \in UserBlocks : b.type # "image" => textOf[b] = wordsOf[b]
      BY <1>2 DEF textOf, wordsOf
    <3>3. \A i \in DOMAIN blocks : textOf[blocks[i]] = wordsOf[blocks[i]]
      BY <1>1, <3>1, <3>2
    <3> QED
      BY <3>3, HomSame DEF text
  <2> QED
    BY <1>3, <2>5, <2>6
<1> QED
  BY <1>4, <1>5

\* A tool message shows what its result says.
LEMMA AnswerShows ==
  ASSUME NEW catalog, NEW b \in Things, b.type = "tool_result", Supported(b, catalog)
  PROVE  Hom(toldOf(catalog), answerOf(catalog)[b]) = resultOf[b]
<1> DEFINE g == toldOf(catalog)
           z == Message("tool", ToolResultText(b.content, catalog), <<>>, b.id)
           text == Hom(textOf, b.content)
<1>1. answerOf(catalog)[b] = <<z>> /\ resultOf[b] = <<WordsAndImages(b.content)>>
  BY DEF answerOf, resultOf
<1>2. z \in Chats(catalog)
  <2>1. answerOf(catalog)[b] \in Seq(Answers(catalog))
    BY AnswerType DEF Pieces
  <2> HIDE DEF z
  <2>2. <<z>>[1] \in Answers(catalog)
    BY <1>1, <2>1
  <2> QED
    BY <2>2 DEF Answers
<1>3. z.role = "tool" /\ z.content = ToolResultText(b.content, catalog)
  BY DEF Message
<1>4. b.content \in Seq(Things) /\ text \in Seq(STRING)
  BY Kinds, BlocksAreThings, SeqMonotonic, LoopsTyped, HomType
<1>5. ToolResultText(b.content, catalog).text = text /\ ToolResultText(b.content, catalog).parts = <<>>
  <2>1. ToolResultText(b.content, catalog) =
          [text |-> text, parts |-> <<>>, functions |-> Hom(functionOf(catalog), b.content)]
    BY <1>4, FunctionsIsHom
  <2> HIDE DEF text
  <2> QED
    BY <2>1
<1> HIDE DEF z, text
<1>6. Shown(z.content) = text
  BY <1>3, <1>4, <1>5, NoWords, ConcatEmptySeq DEF Shown
<1>7. Hom(g, <<z>>) = <<text>>
  <2>1. Hom(g, <<z>>) = g[z]
    BY <1>2, ShownType, HomOne
  <2>2. g[z] = <<text>>
    BY <1>2, <1>3, <1>6 DEF toldOf
  <2> QED
    BY <2>1, <2>2
<1>8. WordsAndImages(b.content) = text
  <2>1. \A c \in ToSet(b.content) : c.type \in {"text", "tool_reference"}
    <3>1. b.type = "tool_result" /\ b.type # "image"
      OBVIOUS
    <3>2. \A c \in ToSet(b.content) : c.type = "text" \/ (c.type = "tool_reference" /\ c.name \in DOMAIN catalog)
      BY <3>1 DEF Supported
    <3> QED
      BY <3>2
  <2>2. \A i \in DOMAIN b.content : b.content[i] \in Things /\ b.content[i].type \in {"text", "tool_reference"}
    BY <1>4, <2>1 DEF ToSet
  <2>3. \A i \in DOMAIN b.content : wordsOf[b.content[i]] = textOf[b.content[i]]
    BY <2>2 DEF wordsOf, textOf
  <2>4. Hom(wordsOf, b.content) = Hom(textOf, b.content)
    BY <2>3, HomSame
  <2> QED
    BY <1>4, <2>4, WordsIsHom DEF text
<1> QED
  BY <1>1, <1>7, <1>8

\* What is made of a user's message shows what its blocks say, and its results
\* what theirs do.
LEMMA UserShows ==
  ASSUME NEW catalog, NEW m \in UserMessages, \A b \in ToSet(Blocks(m.content)) : Supported(b, catalog)
  PROVE  /\ Hom(shownOf(catalog), Converted(m, catalog)) = Hom(wordsOf, Blocks(m.content))
         /\ Hom(toldOf(catalog), Converted(m, catalog)) = Hom(resultOf, Blocks(m.content))
         /\ Hom(promptOf(catalog), Converted(m, catalog)) = <<>>
<1> DEFINE C == Chats(catalog)
           blocks == Blocks(m.content)
           answers == Hom(answerOf(catalog), blocks)
           y == Message("user", MessageContent(blocks), <<>>, "")
           rest == IF Hom(partOf, blocks) = <<>> THEN <<>> ELSE <<y>>
           shown == shownOf(catalog)
           told == toldOf(catalog)
           prompt == promptOf(catalog)
<1>1. blocks \in Seq(UserBlocks) /\ blocks \in Seq(Things) /\ Converted(m, catalog) = answers \o rest
  BY UserBlocksOf, UserConverted
<1>2. \A i \in DOMAIN blocks : blocks[i] \in Things /\ Supported(blocks[i], catalog)
  <2>1. \A i \in DOMAIN blocks : blocks[i] \in ToSet(blocks)
    BY DEF ToSet
  <2>2. \A b \in ToSet(blocks) : Supported(b, catalog)
    OBVIOUS
  <2>3. blocks \in Seq(Things)
    BY <1>1
  <2> HIDE DEF blocks
  <2>4. \A i \in DOMAIN blocks : blocks[i] \in Things
    BY <2>3
  <2> QED
    BY <2>1, <2>2, <2>4
<1> HIDE DEF blocks
<1>3. answers \in Seq(C) /\ \A i \in DOMAIN answers : answers[i] \in C /\ answers[i].role = "tool"
  <2>1. answers \in Seq(Answers(catalog))
    BY <1>1, AnswerType, HomType
  <2>2. \A x \in Answers(catalog) : x \in C /\ x.role = "tool"
    BY DEF Answers
  <2>3. answers \in Seq(C)
    BY <2>1, <2>2, SeqMonotonic
  <2> QED
    BY <2>1, <2>2, <2>3
<1>4. y \in C /\ y.role = "user" /\ y.content = MessageContent(blocks)
  <2>1. y \in C
    BY <1>1, UserMessageType DEF Silent
  <2> QED
    BY <2>1 DEF Message
<1> HIDE DEF y
<1>5. <<y>> \in Seq(C) /\ rest \in Seq(C) /\ <<>> \in Seq(C)
  BY <1>4
<1>6. /\ Hom(shown, <<y>>) = Shown(MessageContent(blocks))
      /\ Hom(told, <<y>>) = <<>>
      /\ Hom(prompt, <<y>>) = <<>>
  <2>1. Hom(shown, <<y>>) = shown[y] /\ Hom(told, <<y>>) = told[y] /\ Hom(prompt, <<y>>) = prompt[y]
    BY <1>4, ShownType, HomOne
  <2> QED
    BY <1>4, <2>1 DEF shownOf, toldOf, promptOf
<1>7. Hom(shown, rest) = Hom(wordsOf, blocks) /\ Hom(told, rest) = <<>> /\ Hom(prompt, rest) = <<>>
  <2>1. /\ Hom(partOf, blocks) = <<>> => Hom(wordsOf, blocks) = <<>>
        /\ Shown(MessageContent(blocks)) = Hom(wordsOf, blocks)
    BY <1>1, BodyShows
  <2>2. Hom(shown, <<>>) = <<>> /\ Hom(told, <<>>) = <<>> /\ Hom(prompt, <<>>) = <<>>
    BY HomEmpty
  <2> HIDE DEF shown, told, prompt
  <2> QED
    BY <1>6, <2>1, <2>2
<1> HIDE DEF rest
<1>8. Hom(shown, answers) = <<>> /\ Hom(prompt, answers) = <<>>
  <2>1. \A i \in DOMAIN answers : shown[answers[i]] = <<>> /\ prompt[answers[i]] = <<>>
    BY <1>3 DEF shownOf, promptOf
  <2> HIDE DEF answers
  <2> QED
    BY <1>3, <2>1, ShownType, HomIsEmpty
<1>9. Hom(told, answers) = Hom(resultOf, blocks)
  <2> DEFINE k == [b \in Things |-> Hom(told, answerOf(catalog)[b])]
  <2>1. answerOf(catalog) \in Pieces(Things, C)
    <3>1. Answers(catalog) \subseteq C
      BY DEF Answers
    <3>2. Seq(Answers(catalog)) \subseteq Seq(C)
      BY <3>1, SeqMonotonic
    <3> QED
      BY <3>2, AnswerType DEF Pieces
  <2>2. k \in Pieces(Things, Seq(STRING)) /\ \A b \in Things : k[b] = Hom(told, answerOf(catalog)[b])
    <3>1. \A b \in Things : answerOf(catalog)[b] \in Seq(C)
      BY <2>1 DEF Pieces
    <3>2. \A t \in Seq(C) : Hom(told, t) \in Seq(Seq(STRING))
      BY ShownType, HomType
    <3> QED
      BY <3>1, <3>2 DEF Pieces
  <2> HIDE DEF k
  <2>3. Hom(told, answers) = Hom(k, blocks)
    BY <1>1, <2>1, <2>2, ShownType, HomOfHom
  <2>4. ASSUME NEW b \in Things, Supported(b, catalog) PROVE k[b] = resultOf[b]
    <3>1. CASE b.type = "tool_result"
      BY <2>2, <2>4, <3>1, AnswerShows
    <3>2. CASE b.type # "tool_result"
      <4>1. answerOf(catalog)[b] = <<>> /\ resultOf[b] = <<>>
        BY <3>2 DEF answerOf, resultOf
      <4> QED
        BY <2>2, <4>1, HomEmpty
    <3> QED
      BY <3>1, <3>2
  <2>5. \A i \in DOMAIN blocks : k[blocks[i]] = resultOf[blocks[i]]
    BY <1>2, <2>4
  <2> QED
    BY <2>3, <2>5, HomSame
<1>10. Hom(wordsOf, blocks) \in Seq(STRING) /\ Hom(resultOf, blocks) \in Seq(Seq(STRING))
  BY <1>1, LoopsTyped, ShownType, HomType
<1>11. /\ Hom(shown, answers \o rest) = Hom(shown, answers) \o Hom(shown, rest)
       /\ Hom(told, answers \o rest) = Hom(told, answers) \o Hom(told, rest)
       /\ Hom(prompt, answers \o rest) = Hom(prompt, answers) \o Hom(prompt, rest)
  <2>1. ASSUME NEW V, NEW g \in Pieces(C, V)
        PROVE  Hom(g, answers \o rest) = Hom(g, answers) \o Hom(g, rest)
    <3> HIDE DEF answers
    <3> QED
      BY <1>3, <1>5, HomConcat
  <2>2. shown \in Pieces(C, STRING) /\ told \in Pieces(C, Seq(STRING)) /\ prompt \in Pieces(C, STRING)
    BY ShownType
  <2> HIDE DEF shown, told, prompt, C, answers
  <2> QED
    BY <2>1, <2>2
<1>12. <<>> \o Hom(wordsOf, blocks) = Hom(wordsOf, blocks) /\ Hom(resultOf, blocks) \o <<>> = Hom(resultOf, blocks)
       /\ <<>> \o <<>> = <<>>
  BY <1>10, ConcatEmptySeq
<1> HIDE DEF shown, told, prompt, answers
<1> QED
  BY <1>1, <1>7, <1>8, <1>9, <1>11, <1>12 DEF blocks, shown, told, prompt

\* In a request that is translated only a leading attribution is missing of the
\* system prompt.
LEMMA SystemShows ==
  ASSUME NEW catalog, NEW prompt \in Seq(Texts \cup Images),
         \A b \in ToSet(WithoutAttribution(prompt)) : b.type = "text"
  PROVE  LET attribution == prompt # <<>> /\ Head(prompt).text # <<>> /\ Head(Head(prompt).text) = Billing
             rest == IF attribution THEN Tail(prompt) ELSE prompt
         IN /\ Hom(promptOf(catalog), SystemMessage(prompt)) = Text(rest)
            /\ Hom(shownOf(catalog), SystemMessage(prompt)) = <<>>
            /\ Hom(toldOf(catalog), SystemMessage(prompt)) = <<>>
<1> DEFINE left == WithoutAttribution(prompt)
           text == Hom(textOf, left)
           attribution == prompt # <<>> /\ Head(prompt).text # <<>> /\ Head(Head(prompt).text) = Billing
           rest == IF attribution THEN Tail(prompt) ELSE prompt
           y == Message("system", TextContent(text), <<>>, "")
           first == SystemMessage(prompt)
<1>1. left \in Seq(Things) /\ first \in Seq(Chats(catalog)) /\ first = IF text = <<>> THEN <<>> ELSE <<y>>
  <2>1. Silent(catalog) \subseteq Chats(catalog)
    BY DEF Silent
  <2>2. first \in Seq(Chats(catalog))
    BY <2>1, SystemType, SeqMonotonic
  <2>3. first = IF text = <<>> THEN <<>> ELSE <<y>>
    BY SystemType
  <2> QED
    BY <2>2, <2>3, SystemType
<1>2. left = rest
  <2>1. CASE prompt = <<>>
    BY <2>1 DEF WithoutAttribution
  <2>2. CASE prompt # <<>>
    <3>1. Head(prompt) = prompt[1] /\ 1 \in DOMAIN prompt
      BY <2>2
    <3>2. Head(prompt).type = "text"
      <4>1. ASSUME Head(prompt).type # "text" PROVE FALSE
        <5>1. left = prompt
          BY <4>1 DEF WithoutAttribution
        <5>2. Head(prompt) \in ToSet(left)
          BY <3>1, <5>1 DEF ToSet
        <5> QED
          BY <4>1, <5>2
      <4> QED
        BY <4>1
    <3> QED
      BY <2>2, <3>2 DEF WithoutAttribution
  <2> QED
    BY <2>1, <2>2
<1>3. Text(rest) = text
  BY <1>1, <1>2, TextIsHom
<1>4. text \in Seq(STRING)
  BY <1>1, LoopsTyped, HomType
<1> HIDE DEF left, text, rest
<1>5. y.role = "system" /\ y.content.text = text
  BY DEF Message, TextContent
<1> HIDE DEF y, first
<1>6. CASE text = <<>>
  <2>1. first = <<>>
    BY <1>1, <1>6
  <2>2. Hom(promptOf(catalog), first) = <<>> /\ Hom(shownOf(catalog), first) = <<>> /\ Hom(toldOf(catalog), first) = <<>>
    BY <2>1, HomEmpty
  <2> QED
    BY <1>3, <1>6, <2>2 DEF first, rest
<1>7. CASE text # <<>>
  <2>1. first = <<y>>
    BY <1>1, <1>7
  <2>2. y \in Chats(catalog)
    <3>1. <<y>>[1] \in Chats(catalog)
      BY <1>1, <2>1
    <3> QED
      BY <3>1
  <2>3. /\ Hom(promptOf(catalog), <<y>>) = promptOf(catalog)[y]
        /\ Hom(shownOf(catalog), <<y>>) = shownOf(catalog)[y]
        /\ Hom(toldOf(catalog), <<y>>) = toldOf(catalog)[y]
    BY <2>2, ShownType, HomOne
  <2>4. promptOf(catalog)[y] = text /\ shownOf(catalog)[y] = <<>> /\ toldOf(catalog)[y] = <<>>
    BY <1>5, <2>2 DEF promptOf, shownOf, toldOf
  <2> QED
    BY <1>3, <2>1, <2>3, <2>4 DEF first, rest
<1> QED
  BY <1>6, <1>7

\* Every request holds, in its order, all that the user and the tools said.
THEOREM AllIsPassedOn == Spec => []NothingDropped
<1>1. IInv => NothingDropped
  <2> DEFINE catalog == Catalog(tools)
             C == Chats(catalog)
             attribution == system # <<>> /\ Head(system).text # <<>> /\ Head(Head(system).text) = Billing
             rest == IF attribution THEN Tail(system) ELSE system
             Words == Each(Ms, LAMBDA m : IF m.role = "user" THEN Shown(m.content) ELSE <<>>)
             Heard == Each(Ms, LAMBDA m : IF m.role = "tool" THEN <<Shown(m.content)>> ELSE <<>>)
             Prompt == Each(Ms, LAMBDA m : IF m.role = "system" THEN m.content.text ELSE <<>>)
             Outcome == Each(Given, LAMBDA b : IF b.type = "tool_result" THEN <<WordsAndImages(b.content)>> ELSE <<>>)
  <2> SUFFICES ASSUME IInv, Own({"messages"})
               PROVE  Words = WordsAndImages(Given) /\ Heard = Outcome /\ Prompt = Text(rest)
    BY DEF NothingDropped
  <2>1. /\ Ms = Upstream /\ Typed /\ Upstream \in Seq(C)
        /\ history \in Seq(History) /\ system \in Seq(Texts \cup Images)
        /\ Given \in Seq(Things)
    BY AskedIsUpstream, HistoryIsUpstream, GivenIsHom DEF IInv
  <2>2. /\ \A b \in ToSet(WithoutAttribution(system)) : b.type = "text"
        /\ \A m \in ToSet(history) : \A b \in ToSet(Blocks(m.content)) : Supported(b, catalog)
    BY AskedIsTranslatable DEF Translatable, Own
  <2>3. \A i \in DOMAIN Ms : Ms[i] \in C
    BY <2>1
  <2>4. Words = Hom(shownOf(catalog), Upstream)
    <3>1. \A i \in DOMAIN Ms : shownOf(catalog)[Ms[i]] = IF Ms[i].role = "user" THEN Shown(Ms[i].content) ELSE <<>>
      BY <2>3 DEF shownOf
    <3>2. [i \in DOMAIN Ms |-> IF Ms[i].role = "user" THEN Shown(Ms[i].content) ELSE <<>>]
            = [i \in DOMAIN Ms |-> shownOf(catalog)[Ms[i]]]
      BY <3>1
    <3> QED
      BY <2>1, <3>2 DEF Each, Mapped, Hom
  <2>5. Heard = Hom(toldOf(catalog), Upstream)
    <3>1. \A i \in DOMAIN Ms : toldOf(catalog)[Ms[i]] = IF Ms[i].role = "tool" THEN <<Shown(Ms[i].content)>> ELSE <<>>
      BY <2>3 DEF toldOf
    <3>2. [i \in DOMAIN Ms |-> IF Ms[i].role = "tool" THEN <<Shown(Ms[i].content)>> ELSE <<>>]
            = [i \in DOMAIN Ms |-> toldOf(catalog)[Ms[i]]]
      BY <3>1
    <3> QED
      BY <2>1, <3>2 DEF Each, Mapped, Hom
  <2>6. Prompt = Hom(promptOf(catalog), Upstream)
    <3>1. \A i \in DOMAIN Ms : promptOf(catalog)[Ms[i]] = IF Ms[i].role = "system" THEN Ms[i].content.text ELSE <<>>
      BY <2>3 DEF promptOf
    <3>2. [i \in DOMAIN Ms |-> IF Ms[i].role = "system" THEN Ms[i].content.text ELSE <<>>]
            = [i \in DOMAIN Ms |-> promptOf(catalog)[Ms[i]]]
      BY <3>1
    <3> QED
      BY <2>1, <3>2 DEF Each, Mapped, Hom
  <2>7. WordsAndImages(Given) = Hom(wordsOf, Given)
    BY <2>1, WordsIsHom
  <2>8. Outcome = Hom(resultOf, Given)
    <3>1. \A i \in DOMAIN Given : resultOf[Given[i]]
            = IF Given[i].type = "tool_result" THEN <<WordsAndImages(Given[i].content)>> ELSE <<>>
      BY <2>1 DEF resultOf
    <3>2. [i \in DOMAIN Given |-> IF Given[i].type = "tool_result" THEN <<WordsAndImages(Given[i].content)>> ELSE <<>>]
            = [i \in DOMAIN Given |-> resultOf[Given[i]]]
      BY <3>1
    <3> QED
      BY <3>2 DEF Each, Mapped, Hom
  <2> DEFINE none == [b \in Things |-> <<>>]
  <2>9. none \in Pieces(Things, STRING) /\ \A s \in Seq(Things) : Hom(none, s) = <<>>
    <3>1. none \in Pieces(Things, STRING)
      <4>1. <<>> \in Seq(STRING)
        OBVIOUS
      <4> QED
        BY <4>1 DEF Pieces
    <3>2. ASSUME NEW s \in Seq(Things) PROVE \A i \in DOMAIN s : none[s[i]] = <<>>
      OBVIOUS
    <3> HIDE DEF none
    <3> QED
      BY <3>1, <3>2, HomIsEmpty
  <2> HIDE DEF none
  <2>10. ASSUME NEW i \in DOMAIN history
         PROVE  LET m == history[i]
                    new == Converted(m, catalog)
                    blocks == Blocks(m.content)
                IN /\ Hom(shownOf(catalog), new) = IF m.role = "user" THEN Hom(wordsOf, blocks) ELSE <<>>
                   /\ Hom(toldOf(catalog), new) = IF m.role = "user" THEN Hom(resultOf, blocks) ELSE <<>>
                   /\ Hom(promptOf(catalog), new) = IF m.role = "user" THEN Hom(none, blocks) ELSE <<>>
    <3> DEFINE m == history[i]
    <3>1. m \in History /\ m \in ToSet(history)
      BY <2>1 DEF ToSet
    <3> HIDE DEF m, catalog
    <3>2. CASE m \in UserMessages
      <4>1. m.role = "user" /\ Blocks(m.content) \in Seq(Things)
        BY <3>2, UserBlocksOf
      <4>2. \A b \in ToSet(Blocks(m.content)) : Supported(b, catalog)
        BY <2>2, <3>1
      <4> QED
        BY <2>9, <3>2, <4>1, <4>2, UserShows DEF m
    <3>3. CASE m \in ModelMessages
      <4>1. m.role # "user"
        BY <3>3, ModelBlocksOf
      <4> QED
        BY <3>3, <4>1, ModelShowsNothing DEF m
    <3> QED
      BY <3>1, <3>2, <3>3 DEF History
  <2>11. /\ AgreeOnHistory(shownOf(catalog), wordsOf)
         /\ AgreeOnHistory(toldOf(catalog), resultOf)
         /\ AgreeOnHistory(promptOf(catalog), none)
    BY <2>10 DEF AgreeOnHistory
  <2>12. /\ Hom(shownOf(catalog), Upstream) = Hom(shownOf(catalog), SystemMessage(system)) \o Hom(wordsOf, Given)
         /\ Hom(toldOf(catalog), Upstream) = Hom(toldOf(catalog), SystemMessage(system)) \o Hom(resultOf, Given)
         /\ Hom(promptOf(catalog), Upstream) = Hom(promptOf(catalog), SystemMessage(system)) \o Hom(none, Given)
    <3>1. Hom(shownOf(catalog), Upstream) = Hom(shownOf(catalog), SystemMessage(system)) \o Hom(wordsOf, Given)
      BY <2>1, <2>11, ShownType, LoopsTyped, SameLoop
    <3>2. Hom(toldOf(catalog), Upstream) = Hom(toldOf(catalog), SystemMessage(system)) \o Hom(resultOf, Given)
      BY <2>1, <2>11, ShownType, LoopsTyped, SameLoop
    <3>3. Hom(promptOf(catalog), Upstream) = Hom(promptOf(catalog), SystemMessage(system)) \o Hom(none, Given)
      BY <2>1, <2>9, <2>11, ShownType, LoopsTyped, SameLoop
    <3> QED
      BY <3>1, <3>2, <3>3
  <2>13. /\ Hom(promptOf(catalog), SystemMessage(system)) = Text(rest)
         /\ Hom(shownOf(catalog), SystemMessage(system)) = <<>>
         /\ Hom(toldOf(catalog), SystemMessage(system)) = <<>>
    BY <2>1, <2>2, SystemShows
  <2>14. /\ <<>> \o Hom(wordsOf, Given) = Hom(wordsOf, Given)
         /\ <<>> \o Hom(resultOf, Given) = Hom(resultOf, Given)
         /\ Hom(promptOf(catalog), SystemMessage(system)) \o <<>> = Hom(promptOf(catalog), SystemMessage(system))
    <3>1. Hom(wordsOf, Given) \in Seq(STRING) /\ Hom(resultOf, Given) \in Seq(Seq(STRING))
      BY <2>1, LoopsTyped, ShownType, HomType
    <3>2. Hom(promptOf(catalog), SystemMessage(system)) \in Seq(STRING)
      BY <2>1, <2>9, <2>11, ShownType, SameLoop
    <3> QED
      BY <3>1, <3>2, ConcatEmptySeq
  <2>15. Hom(none, Given) = <<>>
    BY <2>1, <2>9
  <2> HIDE DEF Words, Heard, Prompt, Outcome, rest, catalog
  <2> QED
    BY <2>4, <2>5, <2>6, <2>7, <2>8, <2>12, <2>13, <2>14, <2>15
<1> QED
  BY <1>1, Invariance, PTL
===============================================================================
