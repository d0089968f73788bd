---------------------------- MODULE GuideBook_proofs ----------------------------
(***************************************************************************)
(* What a green CI Guides Check and an exit code 0 say of the files, and   *)
(* that a README and a script run the same, for guides of any length, and  *)
(* however many edits and commands: first induction over sequences, then   *)
(* what rendering and emit compute, then the invariants.                   *)
(***************************************************************************)
EXTENDS GuideBook, WellFoundedInduction, SequenceTheorems, TLAPS

-------------------------------------------------------------------------------
(* Sequences.  Induction is over a set of sequences that have the property *)
(* rather than over the property.                                          *)

LEMMA NatSetInduction ==
  ASSUME NEW T, 0 \in T, \A n \in Nat : n \in T => n + 1 \in T
  PROVE  Nat \subseteq T
<1> DEFINE R == {p \in Nat \X Nat : p[1] < p[2]}
           B == Nat \ T
<1>1. IsWellFoundedOn(R, Nat)
  BY NatLessThanWellFounded DEF OpToRel
<1>2. SUFFICES ASSUME B # {} PROVE FALSE
  OBVIOUS
<1>3. PICK x \in B : \A y \in B : ~(<<y, x>> \in R)
  <2> HIDE DEF R
  <2>1. B \subseteq Nat
    OBVIOUS
  <2> HIDE DEF B
  <2> QED
    BY <1>1, <1>2, <2>1, WFMin
<1>4. x \in Nat /\ x # 0 /\ x - 1 \in Nat /\ x - 1 < x /\ (x - 1) + 1 = x
  OBVIOUS
<1>5. x - 1 \in B
  BY <1>4
<1> QED
  BY <1>3, <1>4, <1>5

LEMMA SequenceInduction ==
  ASSUME NEW X, NEW T, <<>> \in T,
         \A s \in Seq(X) : s \in T => \A e \in X : Append(s, e) \in T
  PROVE  Seq(X) \subseteq T
<1> DEFINE U == {n \in Nat : \A s \in Seq(X) : Len(s) = n => s \in T}
<1>1. 0 \in U
  <2>1. \A s \in Seq(X) : Len(s) = 0 => s = <<>>
    OBVIOUS
  <2> QED
    BY <2>1
<1>2. ASSUME NEW n \in Nat, n \in U PROVE n + 1 \in U
  <2> SUFFICES ASSUME NEW s \in Seq(X), Len(s) = n + 1 PROVE s \in T
    OBVIOUS
  <2> DEFINE front == SubSeq(s, 1, n)
  <2>1. front \in Seq(X) /\ Len(front) = n /\ s[n + 1] \in X
    OBVIOUS
  <2>2. s = Append(front, s[n + 1])
    OBVIOUS
  <2>3. front \in T
    BY <1>2, <2>1
  <2> QED
    BY <2>1, <2>2, <2>3
<1> HIDE DEF U
<1>3. Nat \subseteq U
  BY <1>1, <1>2, NatSetInduction
<1> QED
  BY <1>3 DEF U

(* What FlattenSeq computes is there, one sequence at a time.              *)
Flattened(f, S, ss, N) ==
  /\ f \in [0 .. N -> Seq(S)]
  /\ f[0] = <<>> /\ FlattenSeq(ss) = f[N]
  /\ \A i \in 1 .. N : f[i] = f[i - 1] \o ss[i]

LEMMA FlattenIsThere ==
  ASSUME NEW S, NEW ss \in Seq(Seq(S))
  PROVE  \E f : Flattened(f, S, ss, Len(ss))
<1> DEFINE N == Len(ss)
           Follows(f, n) == f[0] = <<>> /\ \A i \in 1 .. n : f[i] = f[i - 1] \o ss[i]
           T == {n \in Nat : n <= N => \E f \in [0 .. n -> Seq(S)] : Follows(f, n)}
<1>1. N \in Nat /\ N = Len(ss) /\ ss \in [1 .. N -> Seq(S)] /\ \A i \in 1 .. N : ss[i] \in Seq(S)
  OBVIOUS
<1> HIDE DEF N
<1>2. 0 \in T
  <2>1. [i \in 0 .. 0 |-> <<>>] \in [0 .. 0 -> Seq(S)] /\ Follows([i \in 0 .. 0 |-> <<>>], 0)
    OBVIOUS
  <2> QED
    BY <2>1
<1>3. ASSUME NEW n \in Nat, n \in T PROVE n + 1 \in T
  <2> HIDE DEF Follows
  <2> SUFFICES ASSUME n + 1 <= N PROVE \E f \in [0 .. n + 1 -> Seq(S)] : Follows(f, n + 1)
    OBVIOUS
  <2>0. n <= N
    BY <1>1
  <2>1. PICK f \in [0 .. n -> Seq(S)] : Follows(f, n)
    BY <1>3, <2>0
  <2> USE DEF Follows
  <2> HIDE DEF T
  <2> DEFINE h == [i \in 0 .. n + 1 |-> IF i = n + 1 THEN f[n] \o ss[n + 1] ELSE f[i]]
  <2>2. ss[n + 1] \in Seq(S)
    BY <1>1
  <2>3. f[n] \o ss[n + 1] \in Seq(S)
    BY <2>2
  <2>4. h \in [0 .. n + 1 -> Seq(S)]
    BY <2>3
  <2>5. \A i \in 0 .. n : h[i] = f[i]
    OBVIOUS
  <2>6. h[n + 1] = f[n] \o ss[n + 1]
    OBVIOUS
  <2> HIDE DEF h
  <2>7. \A i \in 1 .. n + 1 : h[i] = h[i - 1] \o ss[i]
    <3> TAKE i \in 1 .. n + 1
    <3>1. CASE i = n + 1
      <4>1. i - 1 = n /\ n \in 0 .. n
        BY <3>1
      <4> QED
        BY <3>1, <4>1, <2>5, <2>6
    <3>2. CASE i # n + 1
      <4>1. i \in 1 .. n /\ i - 1 \in 0 .. n /\ i \in 0 .. n
        BY <3>2
      <4> QED
        BY <4>1, <2>1, <2>5
    <3> QED
      BY <3>1, <3>2
  <2>8. h[0] = <<>>
    BY <2>1, <2>5
  <2> QED
    BY <2>4, <2>7, <2>8
<1> HIDE DEF T
<1>4. N \in T
  BY <1>1, <1>2, <1>3, NatSetInduction
<1>5. PICK f \in [0 .. N -> Seq(S)] : Follows(f, N)
  <2> HIDE DEF Follows
  <2> QED
    BY <1>1, <1>4 DEF T
<1>6. FlattenSeq(ss) = f[N]
  <2> DEFINE Flattens(g) == g = [i \in 1 .. N |-> IF i = 1 THEN ss[i] ELSE g[i - 1] \o ss[i]]
             flatten == CHOOSE g : Flattens(g)
             G == [i \in 1 .. N |-> f[i]]
             U == {n \in Nat : n \in 1 .. N => flatten[n] = f[n]}
  <2>1. CASE N = 0
    <3>1. Len(ss) = 0 /\ ss = <<>>
      <4>1. Len(ss) = 0
        BY <1>1, <2>1
      <4> QED
        BY <4>1, EmptySeq
    <3>2. FlattenSeq(ss) = ss
      BY <3>1 DEF FlattenSeq
    <3> QED
      BY <2>1, <3>1, <3>2, <1>5
  <2>2. CASE N # 0
    <3>1. FlattenSeq(ss) = flatten[N]
      BY <1>1, <2>2 DEF FlattenSeq
    <3>2. Flattens(G)
      <4> SUFFICES ASSUME NEW i \in 1 .. N
                   PROVE  G[i] = IF i = 1 THEN ss[i] ELSE G[i - 1] \o ss[i]
        OBVIOUS
      <4>1. CASE i = 1
        <5>1. f[1] = f[0] \o ss[1] /\ ss[1] \in Seq(S)
          <6>1. 1 \in 1 .. N /\ 1 - 1 = 0
            BY <4>1
          <6> QED
            BY <1>1, <1>5, <6>1
        <5>2. f[1] = ss[1]
          BY <1>5, <5>1, ConcatEmptySeq
        <5> QED
          BY <4>1, <5>2
      <4>2. CASE i # 1
        <5>1. i - 1 \in 1 .. N
          BY <1>1, <4>2
        <5> QED
          BY <1>5, <4>2, <5>1
      <4> QED
        BY <4>1, <4>2
    <3>3. Flattens(flatten)
      <4> HIDE DEF Flattens, G
      <4> QED
        BY <3>2
    <3> HIDE DEF flatten
    <3>4. 0 \in U
      OBVIOUS
    <3>5. ASSUME NEW n \in Nat, n \in U PROVE n + 1 \in U
      <4> SUFFICES ASSUME n + 1 \in 1 .. N PROVE flatten[n + 1] = f[n + 1]
        OBVIOUS
      <4>1. flatten[n + 1] = IF n + 1 = 1 THEN ss[n + 1] ELSE flatten[(n + 1) - 1] \o ss[n + 1]
        BY <3>3
      <4>2. f[n + 1] = f[(n + 1) - 1] \o ss[n + 1] /\ ss[n + 1] \in Seq(S)
        <5>1. n + 1 \in 1 .. N
          OBVIOUS
        <5> QED
          BY <1>1, <1>5, <5>1
      <4>3. CASE n = 0
        <5>1. flatten[1] = ss[1]
          BY <4>1, <4>3
        <5>2. f[1] = f[0] \o ss[1] /\ ss[1] \in Seq(S)
          <6>1. n + 1 = 1 /\ (n + 1) - 1 = 0
            BY <4>3
          <6> QED
            BY <4>2, <6>1
        <5>3. f[1] = ss[1]
          BY <1>5, <5>2, ConcatEmptySeq
        <5> QED
          BY <4>3, <5>1, <5>3
      <4>4. CASE n # 0
        <5>1. n \in 1 .. N /\ (n + 1) - 1 = n /\ n + 1 # 1
          BY <1>1, <4>4
        <5>2. flatten[n] = f[n]
          BY <3>5, <5>1
        <5> QED
          BY <4>1, <4>2, <5>1, <5>2
      <4> QED
        BY <4>3, <4>4
    <3> HIDE DEF U
    <3>6. Nat \subseteq U
      BY <3>4, <3>5, NatSetInduction
    <3> QED
      BY <1>1, <2>2, <3>1, <3>6 DEF U
  <2> QED
    BY <2>1, <2>2
<1> QED
  BY <1>1, <1>5, <1>6 DEF Flattened

LEMMA FlattenSteps ==
  ASSUME NEW S, NEW ss \in Seq(Seq(S)), NEW t \in Seq(S)
  PROVE  /\ FlattenSeq(ss) \in Seq(S)
         /\ FlattenSeq(Append(ss, t)) = FlattenSeq(ss) \o t
<1> DEFINE N  == Len(ss)
           tt == Append(ss, t)
<1>1. /\ N \in Nat /\ Len(tt) = N + 1 /\ tt \in Seq(Seq(S))
      /\ tt[N + 1] = t /\ \A i \in 1 .. N : tt[i] = ss[i]
      /\ N = Len(ss) /\ N + 1 = Len(tt)
  OBVIOUS
<1> HIDE DEF tt, N
<1>2. PICK f : Flattened(f, S, ss, N)
  BY <1>1, FlattenIsThere
<1>3. PICK h : Flattened(h, S, tt, N + 1)
  BY <1>1, FlattenIsThere
<1> USE DEF Flattened
<1> DEFINE U == {n \in Nat : n <= N => h[n] = f[n]}
<1>4. 0 \in U
  BY <1>2, <1>3
<1>5. ASSUME NEW n \in Nat, n \in U PROVE n + 1 \in U
  <2> SUFFICES ASSUME n + 1 <= N PROVE h[n + 1] = f[n + 1]
    OBVIOUS
  <2>1. n <= N /\ n + 1 \in 1 .. N /\ n + 1 \in 1 .. N + 1 /\ (n + 1) - 1 = n
    BY <1>1
  <2>2. h[n] = f[n]
    BY <1>5, <2>1
  <2> HIDE DEF U
  <2>3. h[n + 1] = h[n] \o tt[n + 1]
    BY <1>3, <2>1
  <2>4. f[n + 1] = f[n] \o ss[n + 1]
    BY <1>2, <2>1
  <2>5. tt[n + 1] = ss[n + 1]
    BY <1>1, <2>1
  <2> QED
    BY <2>2, <2>3, <2>4, <2>5
<1> HIDE DEF U
<1>6. h[N] = f[N]
  <2>1. N \in U
    BY <1>1, <1>4, <1>5, NatSetInduction
  <2> QED
    BY <1>1, <2>1 DEF U
<1>7. h[N + 1] = h[N] \o t
  <2>1. N + 1 \in 1 .. N + 1 /\ (N + 1) - 1 = N
    BY <1>1
  <2> QED
    BY <1>1, <1>3, <2>1
<1> QED
  BY <1>1, <1>2, <1>3, <1>6, <1>7 DEF tt

LEMMA FlattenNothing == FlattenSeq(<<>>) = <<>>
BY DEF FlattenSeq

(* Whatever is in one of the sequences, and nothing else.                  *)
LEMMA FlattenRange ==
  ASSUME NEW S, NEW ss \in Seq(Seq(S))
  PROVE  \A x : x \in Range(FlattenSeq(ss)) <=> \E i \in DOMAIN ss : x \in Range(ss[i])
<1> DEFINE T == {qq \in Seq(Seq(S)) :
                  \A x \in S : x \in Range(FlattenSeq(qq)) <=> \E i \in DOMAIN qq : x \in Range(qq[i])}
<1>1. <<>> \in T
  BY FlattenNothing DEF Range
<1>2. ASSUME NEW qq \in Seq(Seq(S)), qq \in T, NEW t \in Seq(S) PROVE Append(qq, t) \in T
  <2> DEFINE tt == Append(qq, t)
  <2>1. /\ DOMAIN tt = DOMAIN qq \cup {Len(qq) + 1}
        /\ tt[Len(qq) + 1] = t /\ \A i \in DOMAIN qq : tt[i] = qq[i]
    OBVIOUS
  <2>2. FlattenSeq(tt) = FlattenSeq(qq) \o t /\ FlattenSeq(qq) \in Seq(S)
    BY FlattenSteps
  <2>3. Range(FlattenSeq(tt)) = Range(FlattenSeq(qq)) \cup Range(t)
    BY <2>2, RangeConcatenation
  <2>4. tt \in Seq(Seq(S))
    OBVIOUS
  <2> HIDE DEF tt
  <2>5. ASSUME NEW x \in S
        PROVE  x \in Range(FlattenSeq(tt)) <=> \E i \in DOMAIN tt : x \in Range(tt[i])
    <3>1. x \in Range(FlattenSeq(qq)) <=> \E i \in DOMAIN qq : x \in Range(qq[i])
      BY <1>2
    <3> QED
      BY <2>1, <2>3, <3>1
  <2> QED
    BY <2>4, <2>5 DEF tt
<1> HIDE DEF T
<1>3. ss \in T
  BY <1>1, <1>2, SequenceInduction
<1>4. FlattenSeq(ss) \in Seq(S)
  BY <1>3, FlattenSteps
<1>5. Range(FlattenSeq(ss)) \subseteq S /\ \A i \in DOMAIN ss : Range(ss[i]) \subseteq S
  BY <1>4 DEF Range
<1> QED
  BY <1>3, <1>5 DEF T

(* What h makes of the items of s, one after the other.                    *)
Bind(h, s) == FlattenSeq([i \in DOMAIN s |-> h[s[i]]])

Makes(h, X, Y) == h \in [X -> Seq(Y)]

LEMMA BindSteps ==
  ASSUME NEW X, NEW Y, NEW h, Makes(h, X, Y)
  PROVE  \A s \in Seq(X) : /\ Bind(h, s) \in Seq(Y)
                           /\ \A e \in X : Bind(h, Append(s, e)) = Bind(h, s) \o h[e]
<1> SUFFICES ASSUME NEW s \in Seq(X)
             PROVE  /\ Bind(h, s) \in Seq(Y)
                    /\ \A e \in X : Bind(h, Append(s, e)) = Bind(h, s) \o h[e]
  OBVIOUS
<1> DEFINE ss == [i \in DOMAIN s |-> h[s[i]]]
<1>1. \A i \in 1 .. Len(s) : h[s[i]] \in Seq(Y)
  BY DEF Makes
<1>2. ss \in Seq(Seq(Y)) /\ Len(ss) = Len(s) /\ \A i \in 1 .. Len(s) : ss[i] = h[s[i]]
  BY <1>1
<1>3. Bind(h, s) = FlattenSeq(ss)
  BY DEF Bind
<1> HIDE DEF ss
<1>4. FlattenSeq(ss) \in Seq(Y)
  BY <1>2, FlattenSteps
<1>5. ASSUME NEW e \in X PROVE Bind(h, Append(s, e)) = Bind(h, s) \o h[e]
  <2> DEFINE tt == [i \in DOMAIN Append(s, e) |-> h[Append(s, e)[i]]]
  <2>0. /\ DOMAIN Append(s, e) = 1 .. Len(s) + 1 /\ Append(s, e)[Len(s) + 1] = e
        /\ \A i \in 1 .. Len(s) : Append(s, e)[i] = s[i]
    OBVIOUS
  <2>1. h[e] \in Seq(Y)
    BY DEF Makes
  <2>2. tt \in Seq(Seq(Y)) /\ Len(tt) = Len(s) + 1 /\ tt[Len(s) + 1] = h[e]
    BY <1>1, <2>0, <2>1
  <2>3. \A i \in 1 .. Len(s) : tt[i] = ss[i]
    BY <1>2, <2>0
  <2>4. Bind(h, Append(s, e)) = FlattenSeq(tt)
    BY DEF Bind
  <2> HIDE DEF tt
  <2>5. tt = Append(ss, h[e])
    BY <1>2, <2>1, <2>2, <2>3
  <2> QED
    BY <1>2, <1>3, <2>1, <2>4, <2>5, FlattenSteps
<1> QED
  BY <1>3, <1>4, <1>5

LEMMA BindNone ==
  ASSUME NEW h
  PROVE  Bind(h, <<>>) = <<>>
<1>1. [i \in DOMAIN <<>> |-> h[<<>>[i]]] = <<>>
  OBVIOUS
<1> QED
  BY <1>1, FlattenNothing DEF Bind

LEMMA BindOne ==
  ASSUME NEW X, NEW Y, NEW h, Makes(h, X, Y)
  PROVE  \A e \in X : Bind(h, <<e>>) = h[e]
<1> SUFFICES ASSUME NEW e \in X PROVE Bind(h, <<e>>) = h[e]
  OBVIOUS
<1> DEFINE none == <<>>
<1>0. none \in Seq(X)
  OBVIOUS
<1>1. Append(none, e) = <<e>> /\ Bind(h, none) = <<>>
  BY BindNone
<1>2. h[e] \in Seq(Y)
  BY DEF Makes
<1> HIDE DEF none
<1>3. Bind(h, Append(none, e)) = Bind(h, none) \o h[e]
  BY <1>0, BindSteps
<1> QED
  BY <1>1, <1>2, <1>3, ConcatEmptySeq

LEMMA BindConcat ==
  ASSUME NEW X, NEW Y, NEW h, Makes(h, X, Y)
  PROVE  \A s, t \in Seq(X) : Bind(h, s \o t) = Bind(h, s) \o Bind(h, t)
<1> SUFFICES ASSUME NEW s \in Seq(X) PROVE \A t \in Seq(X) : Bind(h, s \o t) = Bind(h, s) \o Bind(h, t)
  OBVIOUS
<1> DEFINE T == {q \in Seq(X) : Bind(h, s \o q) = Bind(h, s) \o Bind(h, q)}
<1>0. Bind(h, s) \in Seq(Y)
  BY BindSteps
<1>1. <<>> \in T
  <2>1. s \o <<>> = s /\ Bind(h, s) \o <<>> = Bind(h, s) /\ <<>> \in Seq(X)
    BY <1>0, ConcatEmptySeq
  <2> QED
    BY <2>1, BindNone
<1>2. ASSUME NEW q \in Seq(X), q \in T, NEW e \in X PROVE Append(q, e) \in T
  <2> DEFINE a == Bind(h, s)
             b == Bind(h, q)
             c == h[e]
             u == s \o q
  <2>1. s \o Append(q, e) = Append(u, e) /\ u \in Seq(X)
    OBVIOUS
  <2>2. Bind(h, Append(u, e)) = Bind(h, u) \o c
    <3> HIDE DEF u
    <3> QED
      BY <2>1, BindSteps
  <2>3. Bind(h, Append(q, e)) = b \o c /\ b \in Seq(Y)
    BY BindSteps
  <2>4. Bind(h, u) = a \o b
    BY <1>2
  <2>5. c \in Seq(Y)
    BY DEF Makes
  <2>6. (a \o b) \o c = a \o (b \o c)
    <3>1. a \in Seq(Y)
      BY <1>0
    <3> HIDE DEF a, b, c, T, u
    <3> QED
      BY <2>3, <2>5, <3>1, ConcatAssociative, SMTT(30)
  <2>7. Append(q, e) \in Seq(X)
    OBVIOUS
  <2>8. Bind(h, s \o Append(q, e)) = a \o Bind(h, Append(q, e))
    <3> HIDE DEF a, b, c, u
    <3> QED
      BY <2>1, <2>2, <2>3, <2>4, <2>6
  <2> QED
    BY <2>7, <2>8
<1> HIDE DEF T
<1>3. Seq(X) \subseteq T
  BY <1>1, <1>2, SequenceInduction
<1> QED
  BY <1>3 DEF T

(* Whatever is made of one of the items, and nothing else.                 *)
LEMMA BindRange ==
  ASSUME NEW X, NEW Y, NEW h, Makes(h, X, Y)
  PROVE  \A s \in Seq(X) : \A y : y \in Range(Bind(h, s)) <=> \E x \in Range(s) : y \in Range(h[x])
<1> SUFFICES ASSUME NEW s \in Seq(X), NEW y
             PROVE  y \in Range(Bind(h, s)) <=> \E x \in Range(s) : y \in Range(h[x])
  OBVIOUS
<1> DEFINE ss == [i \in DOMAIN s |-> h[s[i]]]
<1>0. \A i \in 1 .. Len(s) : h[s[i]] \in Seq(Y)
  BY DEF Makes
<1>1. ss \in Seq(Seq(Y)) /\ DOMAIN ss = DOMAIN s /\ \A i \in DOMAIN s : ss[i] = h[s[i]]
  BY <1>0
<1>2. Bind(h, s) = FlattenSeq(ss)
  BY DEF Bind
<1> HIDE DEF ss
<1>3. y \in Range(FlattenSeq(ss)) <=> \E i \in DOMAIN ss : y \in Range(ss[i])
  BY <1>1, FlattenRange
<1>4. Range(s) = {s[i] : i \in DOMAIN s}
  BY DEF Range
<1>5. (\E i \in DOMAIN s : y \in Range(h[s[i]])) <=> \E x \in Range(s) : y \in Range(h[x])
  BY <1>4
<1>6. (\E i \in DOMAIN s : y \in Range(h[s[i]])) <=> \E i \in DOMAIN ss : y \in Range(ss[i])
  BY <1>1
<1> QED
  BY <1>2, <1>3, <1>5, <1>6

(* Two that make the same of every item.                                   *)
LEMMA BindSame ==
  ASSUME NEW s, NEW h, NEW k, \A x \in Range(s) : h[x] = k[x]
  PROVE  Bind(h, s) = Bind(k, s)
<1>1. [i \in DOMAIN s |-> h[s[i]]] = [i \in DOMAIN s |-> k[s[i]]]
  BY DEF Range
<1> QED
  BY <1>1 DEF Bind

Then(h, k, X) == [x \in X |-> Bind(k, h[x])]

Composes(h, k, X) == \A s \in Seq(X) : Bind(k, Bind(h, s)) = Bind(Then(h, k, X), s)

LEMMA BindBind ==
  ASSUME NEW X, NEW Y, NEW Z, NEW h, NEW k, Makes(h, X, Y), Makes(k, Y, Z)
  PROVE  /\ Makes(Then(h, k, X), X, Z)
         /\ Composes(h, k, X)
<1> DEFINE hk == Then(h, k, X)
           T  == {q \in Seq(X) : Bind(k, Bind(h, q)) = Bind(hk, q)}
<1>0. Makes(hk, X, Z)
  <2>1. \A x \in X : h[x] \in Seq(Y)
    BY DEF Makes
  <2>2. \A x \in X : Bind(k, h[x]) \in Seq(Z)
    BY <2>1, BindSteps
  <2> QED
    BY <2>2 DEF Makes, Then
<1>1. <<>> \in T
  BY BindNone
<1>2. ASSUME NEW q \in Seq(X), q \in T, NEW e \in X PROVE Append(q, e) \in T
  <2> DEFINE b == Bind(h, q)
             c == h[e]
  <2>1. Bind(h, Append(q, e)) = b \o c /\ b \in Seq(Y)
    BY BindSteps
  <2>2. c \in Seq(Y)
    BY DEF Makes
  <2>3. Bind(k, b \o c) = Bind(k, b) \o Bind(k, c)
    <3> HIDE DEF b, c
    <3> QED
      BY <2>1, <2>2, BindConcat
  <2>4. hk[e] = Bind(k, c)
    BY DEF Then
  <2>5. Bind(k, b) = Bind(hk, q)
    BY <1>2
  <2> HIDE DEF hk
  <2>6. Bind(hk, Append(q, e)) = Bind(hk, q) \o hk[e]
    BY <1>0, BindSteps
  <2>7. Append(q, e) \in Seq(X)
    OBVIOUS
  <2>8. Bind(k, Bind(h, Append(q, e))) = Bind(hk, Append(q, e))
    <3> HIDE DEF b, c
    <3> QED
      BY <2>1, <2>3, <2>4, <2>5, <2>6
  <2> QED
    BY <2>7, <2>8
<1> HIDE DEF T
<1>3. Seq(X) \subseteq T
  BY <1>1, <1>2, SequenceInduction
<1> QED
  BY <1>0, <1>3 DEF T, Composes

(* One thing of every item.                                                *)
LEMMA BindMap ==
  ASSUME NEW X, NEW Y, NEW h, Makes(h, X, Y), NEW f, \A x \in X : f[x] \in Y /\ h[x] = <<f[x]>>
  PROVE  \A s \in Seq(X) : Bind(h, s) = [i \in DOMAIN s |-> f[s[i]]]
<1> DEFINE T == {q \in Seq(X) : Bind(h, q) = [i \in DOMAIN q |-> f[q[i]]]}
<1>1. <<>> \in T
  <2>1. [i \in DOMAIN <<>> |-> f[<<>>[i]]] = <<>> /\ <<>> \in Seq(X)
    OBVIOUS
  <2>2. Bind(h, <<>>) = <<>>
    BY BindNone
  <2> QED
    BY <2>1, <2>2
<1>2. ASSUME NEW q \in Seq(X), q \in T, NEW e \in X PROVE Append(q, e) \in T
  <2> DEFINE m == [i \in DOMAIN q |-> f[q[i]]]
             n == [i \in DOMAIN Append(q, e) |-> f[Append(q, e)[i]]]
  <2>1. h[e] = <<f[e]>> /\ f[e] \in Y
    OBVIOUS
  <2>2. Bind(h, q) = m
    BY <1>2
  <2>3. m \in Seq(Y) /\ Len(m) = Len(q) /\ \A i \in 1 .. Len(q) : m[i] = f[q[i]]
    OBVIOUS
  <2>4. n \in Seq(Y) /\ Len(n) = Len(q) + 1 /\ n[Len(q) + 1] = f[e]
    OBVIOUS
  <2>5. \A i \in 1 .. Len(q) : n[i] = f[q[i]]
    OBVIOUS
  <2>6. Bind(h, Append(q, e)) = Bind(h, q) \o h[e]
    BY BindSteps
  <2>7. Append(q, e) \in Seq(X)
    OBVIOUS
  <2> HIDE DEF m, n
  <2>8. n = m \o <<f[e]>>
    BY <2>1, <2>3, <2>4, <2>5
  <2> QED
    BY <2>1, <2>2, <2>6, <2>7, <2>8 DEF n
<1> HIDE DEF T
<1>3. Seq(X) \subseteq T
  BY <1>1, <1>2, SequenceInduction
<1> QED
  BY <1>3 DEF T

-------------------------------------------------------------------------------
(* Runs of neighbours.                                                     *)
RunSet(K, X) == [key : K, items : Seq(X)]

LEMMA LastOfAppend ==
  ASSUME NEW S, NEW front \in Seq(S), NEW r \in S
  PROVE  Last(Append(front, r)) = r /\ Front(Append(front, r)) = front
<1> DEFINE s == Append(front, r)
           n == Len(front)
<1>1. /\ n \in Nat /\ s \in Seq(S) /\ Len(s) = n + 1 /\ s[n + 1] = r
      /\ \A i \in 1 .. n : s[i] = front[i]
  OBVIOUS
<1> HIDE DEF s
<1>2. (n + 1) - 1 = n
  BY <1>1
<1>3. SubSeq(s, 1, n) = front
  BY <1>1
<1> QED
  BY <1>1, <1>2, <1>3 DEF Last, Front, s

LEMMA RangeSmall == Range(<<>>) = {} /\ \A e : Range(<<e>>) = {e}
BY DEF Range

LEMMA RangeAppend ==
  ASSUME NEW S, NEW s \in Seq(S), NEW e \in S
  PROVE  Range(Append(s, e)) = Range(s) \cup {e}
<1>1. /\ DOMAIN Append(s, e) = DOMAIN s \cup {Len(s) + 1} /\ Append(s, e)[Len(s) + 1] = e
      /\ \A i \in DOMAIN s : Append(s, e)[i] = s[i]
  OBVIOUS
<1> QED
  BY <1>1 DEF Range

(* An item more, in the last run or in one of its own.                     *)
Extended(runs, more, k, x, R) ==
  \/ \E front \in Seq(R), r \in R :
       /\ r.key = k /\ runs = Append(front, r)
       /\ more = Append(front, [key |-> k, items |-> Append(r.items, x)])
  \/ more = Append(runs, [key |-> k, items |-> <<x>>])

LEMMA AddToCases ==
  ASSUME NEW K, NEW X, NEW runs \in Seq(RunSet(K, X)), NEW k \in K, NEW x \in X
  PROVE  /\ AddTo(runs, k, x) \in Seq(RunSet(K, X))
         /\ Extended(runs, AddTo(runs, k, x), k, x, RunSet(K, X))
<1> DEFINE R == RunSet(K, X)
<1>0. runs \in Seq(R)
  OBVIOUS
<1>1. CASE runs # <<>> /\ Last(runs).key = k
  <2> HIDE DEF R
  <2>1. PICK front \in Seq(R), r \in R : runs = Append(front, r)
    BY <1>0, <1>1, SequenceEmptyOrAppend
  <2>2. Last(runs) = r /\ Front(runs) = front
    BY <2>1, LastOfAppend
  <2>3. r.key = k /\ r = [key |-> r.key, items |-> r.items] /\ r.items \in Seq(X)
    BY <1>1, <2>2 DEF R, RunSet
  <2> DEFINE new == [key |-> k, items |-> Append(r.items, x)]
  <2>4. new \in R
    BY <2>3 DEF R, RunSet
  <2>5. [r EXCEPT !.items = Append(r.items, x)] = new
    <3>1. r = [key |-> k, items |-> r.items]
      BY <2>3
    <3>2. \A q, z : [[key |-> k, items |-> q] EXCEPT !.items = z] = [key |-> k, items |-> z]
      OBVIOUS
    <3> QED
      BY <3>1, <3>2
  <2>6. AddTo(runs, k, x) = Append(front, [r EXCEPT !.items = Append(r.items, x)])
    BY <1>1, <2>2 DEF AddTo
  <2>7. AddTo(runs, k, x) = Append(front, new)
    BY <2>5, <2>6
  <2> HIDE DEF new
  <2>8. Append(front, new) \in Seq(R)
    BY <2>1, <2>4
  <2> QED
    BY <2>1, <2>3, <2>7, <2>8 DEF R, new, Extended
<1>2. CASE ~(runs # <<>> /\ Last(runs).key = k)
  <2>1. AddTo(runs, k, x) = Append(runs, [key |-> k, items |-> <<x>>])
    BY <1>2 DEF AddTo
  <2>2. [key |-> k, items |-> <<x>>] \in R
    BY DEF RunSet
  <2> QED
    BY <2>1, <2>2 DEF Extended
<1> QED
  BY <1>1, <1>2

(* What Runs computes is there, one pair at a time.                        *)
RunUpTo(f, K, X, m, N) ==
  /\ f \in [0 .. N -> Seq(RunSet(K, X))]
  /\ f[0] = <<>> /\ Runs(m) = f[N]
  /\ \A n \in 1 .. N : f[n] = AddTo(f[n - 1], m[n][1], m[n][2])

LEMMA RunsIsThere ==
  ASSUME NEW K, NEW X, NEW m \in Seq(K \X X)
  PROVE  \E f : RunUpTo(f, K, X, m, Len(m))
<1> DEFINE N == Len(m)
           Y == Seq(RunSet(K, X))
           Follows(f, n) == f[0] = <<>> /\ \A i \in 1 .. n : f[i] = AddTo(f[i - 1], m[i][1], m[i][2])
           T == {n \in Nat : n <= N => \E f \in [0 .. n -> Y] : Follows(f, n)}
<1>1. N \in Nat /\ N = Len(m) /\ \A i \in 1 .. N : m[i][1] \in K /\ m[i][2] \in X
  <2>1. \A i \in 1 .. Len(m) : m[i] \in K \X X
    OBVIOUS
  <2> QED
    BY <2>1
<1>1a. <<>> \in Y
  OBVIOUS
<1>1b. \A q \in Y, i \in 1 .. N : AddTo(q, m[i][1], m[i][2]) \in Y
  BY <1>1, AddToCases
<1> HIDE DEF N, Y
<1>2. 0 \in T
  <2>1. [i \in 0 .. 0 |-> <<>>] \in [0 .. 0 -> Y] /\ Follows([i \in 0 .. 0 |-> <<>>], 0)
    BY <1>1a
  <2> QED
    BY <2>1
<1>3. ASSUME NEW n \in Nat, n \in T PROVE n + 1 \in T
  <2> HIDE DEF Follows
  <2> SUFFICES ASSUME n + 1 <= N PROVE \E f \in [0 .. n + 1 -> Y] : Follows(f, n + 1)
    OBVIOUS
  <2>0. n <= N
    BY <1>1
  <2>1. PICK f \in [0 .. n -> Y] : Follows(f, n)
    BY <1>3, <2>0
  <2> HIDE DEF T
  <2> DEFINE new == AddTo(f[n], m[n + 1][1], m[n + 1][2])
             h == [i \in 0 .. n + 1 |-> IF i = n + 1 THEN new ELSE f[i]]
  <2>2. n + 1 \in 1 .. N /\ f[n] \in Y
    BY <1>1
  <2>3. new \in Y
    BY <1>1b, <2>2
  <2> HIDE DEF new
  <2>4. h \in [0 .. n + 1 -> Y]
    BY <2>3
  <2>5. \A i \in 0 .. n : h[i] = f[i]
    OBVIOUS
  <2>6. h[n + 1] = new
    OBVIOUS
  <2> HIDE DEF h
  <2>7. \A i \in 1 .. n + 1 : h[i] = AddTo(h[i - 1], m[i][1], m[i][2])
    <3> TAKE i \in 1 .. n + 1
    <3>1. CASE i = n + 1
      <4>1. i - 1 = n /\ n \in 0 .. n
        BY <3>1
      <4>2. h[i - 1] = f[n]
        BY <4>1, <2>5
      <4> QED
        BY <3>1, <4>2, <2>6 DEF new
    <3>2. CASE i # n + 1
      <4>1. i \in 1 .. n /\ i - 1 \in 0 .. n /\ i \in 0 .. n
        BY <3>2
      <4>2. f[i] = AddTo(f[i - 1], m[i][1], m[i][2])
        BY <2>1, <4>1 DEF Follows
      <4> QED
        BY <4>1, <4>2, <2>5
    <3> QED
      BY <3>1, <3>2
  <2>8. h[0] = <<>>
    BY <2>1, <2>5 DEF Follows
  <2> QED
    BY <2>4, <2>7, <2>8 DEF Follows
<1> HIDE DEF T
<1>4. N \in T
  BY <1>1, <1>2, <1>3, NatSetInduction
<1>5. PICK f \in [0 .. N -> Y] : Follows(f, N)
  <2> HIDE DEF Follows
  <2> QED
    BY <1>1, <1>4 DEF T
<1>6. Runs(m) = f[N]
  <2> DEFINE Computes(g) == g = [n \in 0 .. N |-> IF n = 0 THEN <<>> ELSE AddTo(g[n - 1], m[n][1], m[n][2])]
             upto == CHOOSE g : Computes(g)
             U == {n \in Nat : n <= N => upto[n] = f[n]}
  <2>1. Runs(m) = upto[N]
    BY DEF Runs, N
  <2>2. Computes(f)
    <3>1. \A n \in 0 .. N : f[n] = IF n = 0 THEN <<>> ELSE AddTo(f[n - 1], m[n][1], m[n][2])
      <4> TAKE n \in 0 .. N
      <4>1. CASE n = 0
        BY <1>5, <4>1
      <4>2. CASE n # 0
        <5>1. n \in 1 .. N
          BY <1>1, <4>2
        <5> QED
          BY <1>5, <4>2, <5>1
      <4> QED
        BY <4>1, <4>2
    <3> QED
      BY <3>1
  <2>3. Computes(upto)
    <3> HIDE DEF Computes
    <3> QED
      BY <2>2
  <2> HIDE DEF upto
  <2>4. 0 \in U
    <3>1. 0 \in 0 .. N
      BY <1>1
    <3> QED
      BY <1>5, <2>3, <3>1
  <2>5. ASSUME NEW n \in Nat, n \in U PROVE n + 1 \in U
    <3> SUFFICES ASSUME n + 1 <= N PROVE upto[n + 1] = f[n + 1]
      OBVIOUS
    <3>1. n <= N /\ n + 1 \in 0 .. N /\ n + 1 \in 1 .. N /\ n + 1 # 0 /\ (n + 1) - 1 = n
      BY <1>1
    <3>2. upto[n] = f[n]
      BY <2>5, <3>1
    <3>3. upto[n + 1] = AddTo(upto[(n + 1) - 1], m[n + 1][1], m[n + 1][2])
      BY <2>3, <3>1
    <3>4. f[n + 1] = AddTo(f[(n + 1) - 1], m[n + 1][1], m[n + 1][2])
      BY <1>5, <3>1
    <3> QED
      BY <3>1, <3>2, <3>3, <3>4
  <2> HIDE DEF U
  <2>6. Nat \subseteq U
    BY <2>4, <2>5, NatSetInduction
  <2> QED
    BY <1>1, <2>1, <2>6 DEF U
<1> QED
  BY <1>1, <1>5, <1>6 DEF RunUpTo, Y, N

LEMMA RunsSteps ==
  ASSUME NEW K, NEW X
  PROVE  \A m \in Seq(K \X X) :
           /\ Runs(m) \in Seq(RunSet(K, X))
           /\ \A k \in K, x \in X : Runs(Append(m, <<k, x>>)) = AddTo(Runs(m), k, x)
<1> SUFFICES ASSUME NEW m \in Seq(K \X X)
             PROVE  /\ Runs(m) \in Seq(RunSet(K, X))
                    /\ \A k \in K, x \in X : Runs(Append(m, <<k, x>>)) = AddTo(Runs(m), k, x)
  OBVIOUS
<1> DEFINE N == Len(m)
<1>1. N \in Nat /\ N = Len(m)
  OBVIOUS
<1> HIDE DEF N
<1>2. PICK f : RunUpTo(f, K, X, m, N)
  BY <1>1, RunsIsThere
<1>3. f[N] \in Seq(RunSet(K, X)) /\ Runs(m) = f[N]
  BY <1>1, <1>2 DEF RunUpTo
<1>4. ASSUME NEW k \in K, NEW x \in X PROVE Runs(Append(m, <<k, x>>)) = AddTo(Runs(m), k, x)
  <2> DEFINE n2 == Append(m, <<k, x>>)
  <2>1. /\ n2 \in Seq(K \X X) /\ Len(n2) = N + 1 /\ n2[N + 1] = <<k, x>>
        /\ \A i \in 1 .. N : n2[i] = m[i]
    BY <1>1
  <2> HIDE DEF n2
  <2>2. PICK h : RunUpTo(h, K, X, n2, N + 1)
    BY <2>1, RunsIsThere
  <2> DEFINE U == {n \in Nat : n <= N => h[n] = f[n]}
  <2>3. 0 \in U
    BY <1>2, <2>2 DEF RunUpTo
  <2>4. ASSUME NEW n \in Nat, n \in U PROVE n + 1 \in U
    <3> SUFFICES ASSUME n + 1 <= N PROVE h[n + 1] = f[n + 1]
      OBVIOUS
    <3>1. n <= N /\ n + 1 \in 1 .. N /\ n + 1 \in 1 .. N + 1 /\ (n + 1) - 1 = n
      BY <1>1
    <3>2. h[n] = f[n]
      BY <2>4, <3>1
    <3>3. h[n + 1] = AddTo(h[(n + 1) - 1], n2[n + 1][1], n2[n + 1][2])
      BY <2>2, <3>1 DEF RunUpTo
    <3>4. f[n + 1] = AddTo(f[(n + 1) - 1], m[n + 1][1], m[n + 1][2])
      BY <1>2, <3>1 DEF RunUpTo
    <3> QED
      BY <2>1, <3>1, <3>2, <3>3, <3>4
  <2> HIDE DEF U
  <2>5. h[N] = f[N]
    <3>1. N \in U
      BY <1>1, <2>3, <2>4, NatSetInduction
    <3> QED
      BY <1>1, <3>1 DEF U
  <2>6. h[N + 1] = AddTo(h[N], k, x)
    <3>1. N + 1 \in 1 .. N + 1 /\ (N + 1) - 1 = N
      BY <1>1
    <3>2. h[N + 1] = AddTo(h[(N + 1) - 1], n2[N + 1][1], n2[N + 1][2])
      BY <2>2, <3>1 DEF RunUpTo
    <3> QED
      BY <2>1, <3>1, <3>2
  <2>7. Runs(n2) = h[N + 1]
    BY <2>2 DEF RunUpTo
  <2> QED
    BY <1>3, <2>5, <2>6, <2>7 DEF n2
<1> QED
  BY <1>3, <1>4

LEMMA RunsNone == Runs(<<>>) = <<>>
<1> DEFINE none == <<>>
<1>1. none \in Seq({} \X {}) /\ Len(none) = 0
  OBVIOUS
<1> HIDE DEF none
<1>2. PICK f : RunUpTo(f, {}, {}, none, 0)
  BY <1>1, RunsIsThere
<1>3. Runs(none) = <<>>
  BY <1>2 DEF RunUpTo
<1> QED
  BY <1>3 DEF none


(* What is made of the items of a run.                                     *)
OfRun(h, K, X) == [r \in RunSet(K, X) |-> Bind([x \in X |-> h[<<r.key, x>>]], r.items)]

ItemByItem(o, h, K, X) ==
  \A k \in K, x \in X :
    /\ o[[key |-> k, items |-> <<x>>]] = h[<<k, x>>]
    /\ \A q \in Seq(X) :
         o[[key |-> k, items |-> Append(q, x)]] = o[[key |-> k, items |-> q]] \o h[<<k, x>>]

LEMMA OfRunSteps ==
  ASSUME NEW K, NEW X, NEW Y, NEW h, Makes(h, K \X X, Y)
  PROVE  /\ Makes(OfRun(h, K, X), RunSet(K, X), Y)
         /\ ItemByItem(OfRun(h, K, X), h, K, X)
<1> DEFINE hk(k) == [x \in X |-> h[<<k, x>>]]
<1>1. ASSUME NEW k \in K PROVE Makes(hk(k), X, Y)
  <2>1. \A x \in X : h[<<k, x>>] \in Seq(Y)
    BY DEF Makes
  <2> QED
    BY <2>1 DEF Makes
<1>2. \A k \in K, q \in Seq(X) : OfRun(h, K, X)[[key |-> k, items |-> q]] = Bind(hk(k), q)
  <2> SUFFICES ASSUME NEW k \in K, NEW q \in Seq(X)
               PROVE  OfRun(h, K, X)[[key |-> k, items |-> q]] = Bind(hk(k), q)
    OBVIOUS
  <2> DEFINE r == [key |-> k, items |-> q]
  <2>1. r \in RunSet(K, X) /\ r.key = k /\ r.items = q
    BY DEF RunSet
  <2> HIDE DEF r
  <2>2. OfRun(h, K, X)[r] = Bind(hk(r.key), r.items)
    BY <2>1 DEF OfRun
  <2> QED
    BY <2>1, <2>2 DEF r
<1>3. \A k \in K, x \in X : hk(k)[x] = h[<<k, x>>]
  OBVIOUS
<1>4. ASSUME NEW r \in RunSet(K, X) PROVE OfRun(h, K, X)[r] \in Seq(Y)
  <2>1. r.key \in K /\ r.items \in Seq(X) /\ r = [key |-> r.key, items |-> r.items]
    BY DEF RunSet
  <2>2. Makes(hk(r.key), X, Y)
    BY <1>1, <2>1
  <2> HIDE DEF hk
  <2>3. Bind(hk(r.key), r.items) \in Seq(Y)
    BY <2>1, <2>2, BindSteps
  <2> QED
    BY <2>3 DEF OfRun, hk
<1>5. Makes(OfRun(h, K, X), RunSet(K, X), Y)
  <2>1. OfRun(h, K, X) = [r \in RunSet(K, X) |-> OfRun(h, K, X)[r]]
    BY DEF OfRun
  <2> QED
    BY <1>4, <2>1 DEF Makes
<1> HIDE DEF hk
<1>6. \A k \in K, x \in X : OfRun(h, K, X)[[key |-> k, items |-> <<x>>]] = h[<<k, x>>]
  <2> SUFFICES ASSUME NEW k \in K, NEW x \in X
               PROVE  OfRun(h, K, X)[[key |-> k, items |-> <<x>>]] = h[<<k, x>>]
    OBVIOUS
  <2>1. Bind(hk(k), <<x>>) = hk(k)[x]
    BY <1>1, BindOne
  <2>2. <<x>> \in Seq(X)
    OBVIOUS
  <2> QED
    BY <1>2, <1>3, <2>1, <2>2
<1>7. \A k \in K, x \in X, q \in Seq(X) :
        OfRun(h, K, X)[[key |-> k, items |-> Append(q, x)]]
          = OfRun(h, K, X)[[key |-> k, items |-> q]] \o h[<<k, x>>]
  <2> SUFFICES ASSUME NEW k \in K, NEW x \in X, NEW q \in Seq(X)
               PROVE  OfRun(h, K, X)[[key |-> k, items |-> Append(q, x)]]
                        = OfRun(h, K, X)[[key |-> k, items |-> q]] \o h[<<k, x>>]
    OBVIOUS
  <2>1. Bind(hk(k), Append(q, x)) = Bind(hk(k), q) \o hk(k)[x]
    BY <1>1, BindSteps
  <2>2. Append(q, x) \in Seq(X)
    OBVIOUS
  <2> QED
    BY <1>2, <1>3, <2>1, <2>2
<1> QED
  BY <1>5, <1>6, <1>7 DEF ItemByItem

LEMMA RunsBind ==
  ASSUME NEW K, NEW X, NEW Y, NEW h, Makes(h, K \X X, Y)
  PROVE  \A m \in Seq(K \X X) : Bind(OfRun(h, K, X), Runs(m)) = Bind(h, m)
<1> DEFINE R == RunSet(K, X)
           o == OfRun(h, K, X)
           T == {m \in Seq(K \X X) : Bind(o, Runs(m)) = Bind(h, m)}
<1>1. Makes(o, R, Y) /\ ItemByItem(o, h, K, X)
  BY OfRunSteps
<1>2. <<>> \in T
  BY RunsNone, BindNone
<1>3. ASSUME NEW m \in Seq(K \X X), m \in T, NEW p \in K \X X PROVE Append(m, p) \in T
  <2>1. PICK k \in K, x \in X : p = <<k, x>>
    OBVIOUS
  <2> DEFINE runs == Runs(m)
             more == AddTo(runs, k, x)
             hp   == h[<<k, x>>]
  <2>2. runs \in Seq(R) /\ Runs(Append(m, p)) = more
    <3>1. Runs(Append(m, <<k, x>>)) = more /\ runs \in Seq(R)
      BY RunsSteps
    <3> QED
      BY <2>1, <3>1
  <2>3. Bind(h, Append(m, p)) = Bind(h, m) \o hp
    <3>1. Bind(h, Append(m, p)) = Bind(h, m) \o h[p]
      BY BindSteps
    <3> QED
      BY <2>1, <3>1
  <2>4. hp \in Seq(Y)
    BY <2>1 DEF Makes
  <2>5. Bind(o, runs) = Bind(h, m)
    BY <1>3
  <2>6. Append(m, p) \in Seq(K \X X)
    OBVIOUS
  <2>7. /\ o[[key |-> k, items |-> <<x>>]] = hp
        /\ \A q \in Seq(X) : o[[key |-> k, items |-> Append(q, x)]] = o[[key |-> k, items |-> q]] \o hp
    <3> HIDE DEF o
    <3> QED
      BY <1>1 DEF ItemByItem
  <2>8. Extended(runs, more, k, x, R)
    <3> HIDE DEF runs
    <3> QED
      BY <2>2, AddToCases
  <2> HIDE DEF T, o, runs, hp, more
  <2>9. Bind(o, more) = Bind(o, runs) \o hp
    <3>1. CASE more = Append(runs, [key |-> k, items |-> <<x>>])
      <4> DEFINE r == [key |-> k, items |-> <<x>>]
      <4>1. r \in R
        BY DEF RunSet
      <4>2. o[r] = hp
        BY <2>7
      <4> HIDE DEF r, R
      <4>3. Bind(o, Append(runs, r)) = Bind(o, runs) \o o[r]
        BY <1>1, <2>2, <4>1, BindSteps
      <4> QED
        BY <3>1, <4>2, <4>3 DEF r
    <3>2. ASSUME NEW front \in Seq(R), NEW r \in R, r.key = k, runs = Append(front, r),
                 more = Append(front, [key |-> k, items |-> Append(r.items, x)])
          PROVE  Bind(o, more) = Bind(o, runs) \o hp
      <4> DEFINE t == [key |-> k, items |-> Append(r.items, x)]
                 b == Bind(o, front)
      <4>1. r.items \in Seq(X) /\ r = [key |-> k, items |-> r.items]
        BY <3>2 DEF RunSet
      <4>2. t \in R
        BY <4>1 DEF RunSet
      <4>3. o[t] = o[r] \o hp
        BY <2>7, <4>1
      <4>4. b \in Seq(Y)
        <5> HIDE DEF R
        <5> QED
          BY <1>1, BindSteps
      <4>5. o[r] \in Seq(Y)
        BY <1>1 DEF Makes
      <4> HIDE DEF t, R, b
      <4>6. Bind(o, Append(front, t)) = b \o o[t] /\ Bind(o, Append(front, r)) = b \o o[r]
        BY <1>1, <4>2, BindSteps DEF b
      <4>7. b \o (o[r] \o hp) = (b \o o[r]) \o hp
        <5> DEFINE c == o[r]
        <5> HIDE DEF c
        <5>1. c \in Seq(Y)
          BY <4>5 DEF c
        <5>2. (b \o c) \o hp = b \o (c \o hp)
          BY <2>4, <4>4, <5>1, ConcatAssociative, SMTT(30)
        <5> QED
          BY <5>2 DEF c
      <4>8. more = Append(front, t)
        BY <3>2 DEF t
      <4> QED
        BY <3>2, <4>3, <4>6, <4>7, <4>8
    <3> QED
      BY <2>8, <3>1, <3>2 DEF Extended
  <2>10. Bind(o, Runs(Append(m, p))) = Bind(h, Append(m, p))
    BY <2>2, <2>3, <2>5, <2>9
  <2> QED
    BY <2>6, <2>10 DEF T
<1> HIDE DEF T
<1>4. Seq(K \X X) \subseteq T
  BY <1>2, <1>3, SequenceInduction
<1> QED
  BY <1>4 DEF T

(* A run's items are of the sequence, with the run's key.                  *)
LEMMA RunsRange ==
  ASSUME NEW K, NEW X
  PROVE  \A m \in Seq(K \X X) : \A r \in Range(Runs(m)) : \A x \in Range(r.items) :
           <<r.key, x>> \in Range(m)
<1> DEFINE R == RunSet(K, X)
           Y == K \X X
           T == {m \in Seq(Y) : \A r \in Range(Runs(m)) : \A x \in Range(r.items) : <<r.key, x>> \in Range(m)}
<1>1. <<>> \in T
  BY RunsNone DEF Range
<1>2. ASSUME NEW m \in Seq(Y), m \in T, NEW p \in Y PROVE Append(m, p) \in T
  <2>1. PICK k \in K, x \in X : p = <<k, x>>
    OBVIOUS
  <2>2. Runs(m) \in Seq(R) /\ Runs(Append(m, p)) = AddTo(Runs(m), k, x)
    <3> HIDE DEF T
    <3>1. Runs(Append(m, <<k, x>>)) = AddTo(Runs(m), k, x) /\ Runs(m) \in Seq(R)
      BY RunsSteps
    <3> QED
      BY <2>1, <3>1
  <2>3. Append(m, p) \in Seq(Y) /\ Range(Append(m, p)) = Range(m) \cup {p}
    BY RangeAppend
  <2>4. ASSUME NEW r \in Range(Runs(Append(m, p))), NEW y \in Range(r.items)
        PROVE  <<r.key, y>> \in Range(m) \cup {p}
    <3>1. \A q \in Range(Runs(m)) : \A z \in Range(q.items) : <<q.key, z>> \in Range(m)
      BY <1>2
    <3>2. CASE AddTo(Runs(m), k, x) = Append(Runs(m), [key |-> k, items |-> <<x>>])
      <4> DEFINE new == [key |-> k, items |-> <<x>>]
      <4>1. new \in R
        BY DEF RunSet
      <4>2. new.key = k /\ Range(new.items) = {x}
        BY DEF Range
      <4> HIDE DEF new, R
      <4>3. r \in Range(Runs(m)) \cup {new}
        BY <2>2, <3>2, <4>1, RangeAppend DEF new
      <4> QED
        BY <2>1, <2>4, <3>1, <4>2, <4>3
    <3>3. ASSUME NEW front \in Seq(R), NEW q \in R, q.key = k, Runs(m) = Append(front, q),
                 AddTo(Runs(m), k, x) = Append(front, [key |-> k, items |-> Append(q.items, x)])
          PROVE  <<r.key, y>> \in Range(m) \cup {p}
      <4> DEFINE new == [key |-> k, items |-> Append(q.items, x)]
      <4>1. new \in R /\ q.items \in Seq(X)
        BY DEF RunSet
      <4>2. new.key = k /\ Range(new.items) = Range(q.items) \cup {x}
        BY <4>1, RangeAppend
      <4> HIDE DEF new, R
      <4>3. r \in Range(front) \cup {new}
        BY <2>2, <3>3, <4>1, RangeAppend DEF new
      <4>4. Range(Runs(m)) = Range(front) \cup {q}
        BY <3>3, RangeAppend
      <4> QED
        BY <2>1, <2>4, <3>1, <3>3, <4>2, <4>3, <4>4
    <3>4. Extended(Runs(m), AddTo(Runs(m), k, x), k, x, R)
      BY <2>2, AddToCases
    <3> QED
      BY <3>2, <3>3, <3>4 DEF Extended
  <2> QED
    BY <2>3, <2>4
<1> HIDE DEF T
<1>3. Seq(Y) \subseteq T
  BY <1>1, <1>2, SequenceInduction
<1> QED
  BY <1>3 DEF T


-------------------------------------------------------------------------------
(* What is harvested from fences.                                          *)
Pieces(F, L) ==
  [kind : {"fence"}, only : F, open : BOOLEAN, skip : BOOLEAN, lines : Seq(L), cells : {{}}]

Commands(L) == {Command(l) : l \in L}

PieceCommands(F, L) ==
  [p \in Pieces(F, L) |-> IF p.skip THEN <<>> ELSE [l \in DOMAIN p.lines |-> Command(p.lines[l])]]

MarkedCommands(L) == [p \in BOOLEAN \X L |-> IF p[1] THEN <<>> ELSE <<Command(p[2])>>]

LEMMA BindNothing ==
  ASSUME NEW X, NEW h \in [X -> {<<>>}]
  PROVE  \A s \in Seq(X) : Bind(h, s) = <<>>
<1> DEFINE T == {s \in Seq(X) : Bind(h, s) = <<>>}
<1>1. <<>> \in T
  BY BindNone
<1>2. Makes(h, X, {})
  <2>1. <<>> \in Seq({})
    OBVIOUS
  <2> QED
    BY <2>1 DEF Makes
<1>3. ASSUME NEW q \in Seq(X), q \in T, NEW e \in X PROVE Append(q, e) \in T
  <2>1. Bind(h, Append(q, e)) = Bind(h, q) \o h[e]
    BY <1>2, BindSteps
  <2>2. h[e] = <<>> /\ Bind(h, q) = <<>>
    BY <1>3
  <2>3. Append(q, e) \in Seq(X) /\ <<>> \o <<>> = <<>>
    OBVIOUS
  <2> QED
    BY <2>1, <2>2, <2>3
<1> HIDE DEF T
<1>4. Seq(X) \subseteq T
  BY <1>1, <1>3, SequenceInduction
<1> QED
  BY <1>4 DEF T

(* The items of a map.                                                     *)
LEMMA BindOfMap ==
  ASSUME NEW s, NEW m, NEW h, NEW k, DOMAIN m = DOMAIN s, \A i \in DOMAIN s : h[m[i]] = k[s[i]]
  PROVE  Bind(h, m) = Bind(k, s)
<1>1. [i \in DOMAIN m |-> h[m[i]]] = [i \in DOMAIN s |-> k[s[i]]]
  OBVIOUS
<1> QED
  BY <1>1 DEF Bind

LEMMA HarvestBind ==
  ASSUME NEW F, NEW L
  PROVE  /\ Makes(PieceCommands(F, L), Pieces(F, L), Commands(L))
         /\ \A body \in Seq(Pieces(F, L)) : Harvest(body) = Bind(PieceCommands(F, L), body)
<1>1. ASSUME NEW p \in Pieces(F, L) PROVE PieceCommands(F, L)[p] \in Seq(Commands(L))
  <2>1. p.lines \in Seq(L)
    BY DEF Pieces
  <2>2. \A l \in DOMAIN p.lines : Command(p.lines[l]) \in Commands(L)
    BY <2>1 DEF Commands
  <2>3. [l \in DOMAIN p.lines |-> Command(p.lines[l])] \in Seq(Commands(L))
    BY <2>1, <2>2
  <2>4. <<>> \in Seq(Commands(L))
    OBVIOUS
  <2> QED
    BY <2>3, <2>4 DEF PieceCommands
<1>2. Makes(PieceCommands(F, L), Pieces(F, L), Commands(L))
  <2>1. PieceCommands(F, L) = [p \in Pieces(F, L) |-> PieceCommands(F, L)[p]]
    BY DEF PieceCommands
  <2> QED
    BY <1>1, <2>1 DEF Makes
<1>3. ASSUME NEW body \in Seq(Pieces(F, L)) PROVE Harvest(body) = Bind(PieceCommands(F, L), body)
  <2>1. \A i \in DOMAIN body : body[i] \in Pieces(F, L)
    OBVIOUS
  <2>2. \A i \in DOMAIN body :
          (IF body[i].skip THEN <<>> ELSE [l \in DOMAIN body[i].lines |-> Command(body[i].lines[l])])
            = PieceCommands(F, L)[body[i]]
    BY <2>1 DEF PieceCommands
  <2>3. [i \in DOMAIN body |->
          IF body[i].skip THEN <<>> ELSE [l \in DOMAIN body[i].lines |-> Command(body[i].lines[l])]]
            = [i \in DOMAIN body |-> PieceCommands(F, L)[body[i]]]
    BY <2>2
  <2> QED
    BY <2>3 DEF Harvest, Bind
<1> QED
  BY <1>2, <1>3

LEMMA FencesHarvest ==
  ASSUME NEW L
  PROVE  /\ Makes(MarkedCommands(L), BOOLEAN \X L, Commands(L))
         /\ \A m \in Seq(BOOLEAN \X L) : /\ Fences(m) \in Seq(Pieces({NoFilter}, L))
                                         /\ Harvest(Fences(m)) = Bind(MarkedCommands(L), m)
<1> DEFINE R == RunSet(BOOLEAN, L)
           P == Pieces({NoFilter}, L)
           h == MarkedCommands(L)
           o == OfRun(h, BOOLEAN, L)
           c == PieceCommands({NoFilter}, L)
<1>1. Makes(h, BOOLEAN \X L, Commands(L))
  <2>1. \A l \in L : Command(l) \in Commands(L) /\ <<Command(l)>> \in Seq(Commands(L))
    BY DEF Commands
  <2>2. <<>> \in Seq(Commands(L))
    OBVIOUS
  <2>3. ASSUME NEW b \in BOOLEAN, NEW l \in L PROVE h[<<b, l>>] \in Seq(Commands(L))
    <3>1. h[<<b, l>>] = IF b THEN <<>> ELSE <<Command(l)>>
      BY DEF MarkedCommands
    <3> QED
      BY <2>1, <2>2, <3>1
  <2>4. h = [p \in BOOLEAN \X L |-> h[p]]
    BY DEF MarkedCommands
  <2> HIDE DEF h
  <2>5. \A p \in BOOLEAN \X L : h[p] \in Seq(Commands(L))
    BY <2>3
  <2> QED
    BY <2>4, <2>5 DEF Makes
<1>2. ASSUME NEW r \in R
      PROVE  Fence(r.key, r.items) \in P /\ c[Fence(r.key, r.items)] = o[r]
  <2>1. r.key \in BOOLEAN /\ r.items \in Seq(L)
    BY DEF RunSet
  <2> DEFINE f == Fence(r.key, r.items)
  <2>2. f \in P
    BY <2>1 DEF Fence, Piece, Pieces
  <2>3. f.skip = r.key /\ f.lines = r.items
    BY DEF Fence, Piece
  <2> HIDE DEF f
  <2>4. c[f] = IF r.key THEN <<>> ELSE [l \in DOMAIN r.items |-> Command(r.items[l])]
    BY <2>2, <2>3 DEF PieceCommands
  <2>5. o[r] = Bind([x \in L |-> h[<<r.key, x>>]], r.items)
    BY DEF OfRun
  <2>6. CASE r.key
    <3>1. [x \in L |-> h[<<r.key, x>>]] \in [L -> {<<>>}]
      BY <2>6, <2>1 DEF MarkedCommands
    <3>2. Bind([x \in L |-> h[<<r.key, x>>]], r.items) = <<>>
      BY <2>1, <3>1, BindNothing
    <3> QED
      BY <2>2, <2>4, <2>5, <2>6, <3>2 DEF f
  <2>7. CASE ~r.key
    <3> DEFINE g == [x \in L |-> Command(x)]
               k == [x \in L |-> h[<<r.key, x>>]]
    <3>1. \A x \in L : k[x] = <<g[x]>> /\ g[x] \in Commands(L)
      <4>1. \A x \in L : <<r.key, x>> \in BOOLEAN \X L
        BY <2>1
      <4>2. \A x \in L : h[<<r.key, x>>] = <<Command(x)>>
        BY <2>7, <4>1 DEF MarkedCommands
      <4> QED
        BY <4>2 DEF Commands
    <3>2. Makes(k, L, Commands(L))
      <4>1. \A x \in L : k[x] \in Seq(Commands(L))
        <5> HIDE DEF g, k
        <5>1. \A y \in Commands(L) : <<y>> \in Seq(Commands(L))
          OBVIOUS
        <5> QED
          BY <3>1, <5>1
      <4> QED
        BY <4>1 DEF Makes
    <3>3. Bind(k, r.items) = [l \in DOMAIN r.items |-> g[r.items[l]]]
      <4> HIDE DEF g, k
      <4> QED
        BY <2>1, <3>1, <3>2, BindMap
    <3>4. [l \in DOMAIN r.items |-> g[r.items[l]]] = [l \in DOMAIN r.items |-> Command(r.items[l])]
      BY <2>1
    <3> QED
      BY <2>2, <2>4, <2>5, <2>7, <3>3, <3>4 DEF f
  <2> QED
    BY <2>1, <2>6, <2>7
<1>3. ASSUME NEW m \in Seq(BOOLEAN \X L)
      PROVE  Fences(m) \in Seq(P) /\ Harvest(Fences(m)) = Bind(h, m)
  <2> DEFINE runs == Runs(m)
             body == Fences(m)
  <2>1. runs \in Seq(R)
    BY RunsSteps
  <2>2. /\ DOMAIN body = DOMAIN runs
        /\ \A i \in DOMAIN runs : body[i] = Fence(runs[i].key, runs[i].items)
        /\ body = [i \in DOMAIN runs |-> body[i]]
    BY DEF Fences
  <2> HIDE DEF runs, body, R, P, c, o
  <2>3. \A i \in DOMAIN runs : runs[i] \in R
    BY <2>1
  <2>4. \A i \in DOMAIN runs : body[i] \in P /\ c[body[i]] = o[runs[i]]
    BY <1>2, <2>2, <2>3
  <2>5. body \in Seq(P)
    <3>1. DOMAIN runs = 1 .. Len(runs) /\ Len(runs) \in Nat
      BY <2>1
    <3> QED
      BY <2>2, <2>4, <3>1
  <2>6. Bind(c, body) = Bind(o, runs)
    BY <2>2, <2>4, BindOfMap
  <2>7. Harvest(body) = Bind(c, body)
    BY <2>5, HarvestBind DEF P, c
  <2>8. Bind(o, runs) = Bind(h, m)
    BY <1>1, RunsBind DEF o, runs
  <2> QED
    BY <2>5, <2>6, <2>7, <2>8 DEF body
<1> QED
  BY <1>1, <1>3


-------------------------------------------------------------------------------
(* The environment: what is harvested of what is rendered of it.           *)
EnvLines(g) == {EnvLine(x) : x \in Range(g.env)} \cup {SourceLine}

MarkedEnv(g) == [i \in DOMAIN g.env |-> <<g.env[i].sensitive, EnvLine(g.env[i])>>]

MarkedSource(g, inline) == IF inline /\ g.source THEN << <<FALSE, SourceLine>> >> ELSE <<>>

ExportOf(L) == [c \in Commands(L) |-> IF c[1] = "export" THEN <<c>> ELSE <<>>]

LEMMA ExportsBind ==
  ASSUME NEW L
  PROVE  /\ Makes(ExportOf(L), Commands(L), Commands(L))
         /\ \A s \in Seq(Commands(L)) : Exports(s) = Bind(ExportOf(L), s)
<1>1. ASSUME NEW c \in Commands(L) PROVE ExportOf(L)[c] \in Seq(Commands(L))
  <2>1. <<c>> \in Seq(Commands(L)) /\ <<>> \in Seq(Commands(L))
    OBVIOUS
  <2> QED
    BY <2>1 DEF ExportOf
<1>2. ExportOf(L) = [c \in Commands(L) |-> ExportOf(L)[c]]
  BY DEF ExportOf
<1>3. ASSUME NEW s \in Seq(Commands(L)) PROVE Exports(s) = Bind(ExportOf(L), s)
  <2>1. \A i \in DOMAIN s : s[i] \in Commands(L)
    OBVIOUS
  <2>2. \A i \in DOMAIN s : ExportOf(L)[s[i]] = IF s[i][1] = "export" THEN <<s[i]>> ELSE <<>>
    BY <2>1 DEF ExportOf
  <2>3. [i \in DOMAIN s |-> ExportOf(L)[s[i]]] = [i \in DOMAIN s |-> IF s[i][1] = "export" THEN <<s[i]>> ELSE <<>>]
    BY <2>2
  <2> QED
    BY <2>3 DEF Exports, Bind
<1> QED
  BY <1>1, <1>2, <1>3 DEF Makes

LEMMA EnvMarks ==
  ASSUME NEW g, IsGuide(g), NEW inline
  PROVE  /\ g.env \in Seq(Range(g.env)) /\ Range(g.env) \subseteq Variable
         /\ MarkedEnv(g) \in Seq(BOOLEAN \X EnvLines(g))
         /\ MarkedSource(g, inline) \in Seq(BOOLEAN \X EnvLines(g))
         /\ RenderEnv(g, inline) = Fences(MarkedEnv(g) \o MarkedSource(g, inline))
         /\ \A p \in Range(MarkedEnv(g)) : \E x \in Range(g.env) : p = <<x.sensitive, EnvLine(x)>>
<1> DEFINE B == BOOLEAN \X EnvLines(g)
<1>1. g.env \in Seq(Variable) /\ g.env \in Seq(Range(g.env)) /\ Range(g.env) \subseteq Variable
  BY SeqOfRange, RangeOfSeq DEF IsGuide
<1>2. \A i \in DOMAIN g.env : g.env[i] \in Range(g.env) /\ g.env[i].sensitive \in BOOLEAN
  BY <1>1 DEF Variable, Range
<1>3. \A i \in DOMAIN g.env : <<g.env[i].sensitive, EnvLine(g.env[i])>> \in B
  BY <1>2 DEF EnvLines
<1>4. MarkedEnv(g) \in Seq(B)
  <2> HIDE DEF B
  <2>1. DOMAIN g.env = 1 .. Len(g.env) /\ Len(g.env) \in Nat
    BY <1>1
  <2> QED
    BY <1>3, <2>1 DEF MarkedEnv
<1>5. <<FALSE, SourceLine>> \in B
  BY DEF EnvLines
<1>6. MarkedSource(g, inline) \in Seq(B)
  <2> HIDE DEF B
  <2>1. << <<FALSE, SourceLine>> >> \in Seq(B) /\ <<>> \in Seq(B)
    BY <1>5
  <2> QED
    BY <2>1 DEF MarkedSource
<1>7. RenderEnv(g, inline) = Fences(MarkedEnv(g) \o MarkedSource(g, inline))
  BY DEF RenderEnv, MarkedEnv, MarkedSource
<1>8. \A p \in Range(MarkedEnv(g)) : \E x \in Range(g.env) : p = <<x.sensitive, EnvLine(x)>>
  BY <1>2 DEF MarkedEnv, Range
<1> QED
  BY <1>1, <1>4, <1>6, <1>7, <1>8

(* A runner exports no variable whose value is a placeholder.              *)
LEMMA EnvHarvest ==
  ASSUME NEW g, IsGuide(g), NEW inline
  PROVE  /\ RenderEnv(g, inline) \in Seq(Pieces({NoFilter}, EnvLines(g)))
         /\ \A l \in Range(Harvest(RenderEnv(g, inline))) :
              l[1] = "source" \/ \E x \in Range(g.env) : ~x.sensitive /\ l[2] = x.var
<1> DEFINE L == EnvLines(g)
           m1 == MarkedEnv(g)
           m2 == MarkedSource(g, inline)
           h == MarkedCommands(L)
<1>1. m1 \in Seq(BOOLEAN \X L) /\ m2 \in Seq(BOOLEAN \X L) /\ RenderEnv(g, inline) = Fences(m1 \o m2)
  BY EnvMarks
<1>2. Makes(h, BOOLEAN \X L, Commands(L))
  BY FencesHarvest
<1>3. \A p \in Range(m1) : \E x \in Range(g.env) : p = <<x.sensitive, EnvLine(x)>>
  BY EnvMarks
<1>4. \A p \in Range(m2) : p[2] = SourceLine
  <2>1. CASE m2 = <<>>
    BY <2>1, RangeSmall
  <2>2. CASE m2 = << <<FALSE, SourceLine>> >>
    BY <2>2, RangeSmall
  <2> QED
    BY <2>1, <2>2 DEF MarkedSource
<1>5. \A p \in BOOLEAN \X L : h[p] = IF p[1] THEN <<>> ELSE <<Command(p[2])>>
  BY DEF MarkedCommands
<1> HIDE DEF L, m1, m2, h
<1>6. m1 \o m2 \in Seq(BOOLEAN \X L)
  BY <1>1
<1>7. /\ Fences(m1 \o m2) \in Seq(Pieces({NoFilter}, L))
      /\ Harvest(Fences(m1 \o m2)) = Bind(h, m1 \o m2)
  BY <1>6, FencesHarvest DEF h
<1>8. Range(m1 \o m2) = Range(m1) \cup Range(m2)
  BY <1>1, RangeConcatenation
<1>9. ASSUME NEW l \in Range(Bind(h, m1 \o m2))
      PROVE  l[1] = "source" \/ \E x \in Range(g.env) : ~x.sensitive /\ l[2] = x.var
  <2>1. PICK p \in Range(m1 \o m2) : l \in Range(h[p])
    BY <1>2, <1>6, <1>9, BindRange
  <2>2. p \in BOOLEAN \X L
    BY <1>6 DEF Range
  <2>3. ~p[1] /\ l = Command(p[2])
    <3>1. CASE p[1]
      <4>1. h[p] = <<>>
        BY <1>5, <2>2, <3>1
      <4> QED
        BY <2>1, <4>1, RangeSmall
    <3>2. CASE ~p[1]
      <4>1. h[p] = <<Command(p[2])>>
        BY <1>5, <2>2, <3>2
      <4> QED
        BY <2>1, <3>2, <4>1, RangeSmall
    <3> QED
      BY <3>1, <3>2
  <2>4. CASE p \in Range(m1)
    <3>1. PICK x \in Range(g.env) : p = <<x.sensitive, EnvLine(x)>>
      BY <1>3, <2>4
    <3> QED
      BY <2>3, <3>1 DEF Command, EnvLine
  <2>5. CASE p \in Range(m2)
    <3>1. p[2] = SourceLine
      BY <1>4, <2>5
    <3>2. l[1] = SourceLine[1]
      BY <2>3, <3>1 DEF Command
    <3> QED
      BY <3>2 DEF SourceLine
  <2> QED
    BY <1>8, <2>1, <2>4, <2>5
<1> QED
  BY <1>1, <1>7, <1>9 DEF L

(* What a runner exports is what emit does when nothing is overridden.     *)
LEMMA EnvAgrees ==
  ASSUME NEW g, IsGuide(g), NEW inline
  PROVE  Exports(Harvest(RenderEnv(g, inline))) = EmitExports(g, NoFilter)
<1> DEFINE V == Range(g.env)
           L == EnvLines(g)
           m1 == MarkedEnv(g)
           m2 == MarkedSource(g, inline)
           h == MarkedCommands(L)
           e == ExportOf(L)
           exported == [x \in V |-> IF x.sensitive THEN <<>> ELSE << <<"export", x.var, x.default>> >>]
<1>1. /\ m1 \in Seq(BOOLEAN \X L) /\ m2 \in Seq(BOOLEAN \X L)
      /\ RenderEnv(g, inline) = Fences(m1 \o m2)
      /\ g.env \in Seq(V) /\ V \subseteq Variable
  BY EnvMarks
<1>2. Makes(h, BOOLEAN \X L, Commands(L))
  BY FencesHarvest
<1>3. Makes(e, Commands(L), Commands(L))
  BY ExportsBind
<1>4. \A p \in BOOLEAN \X L : h[p] = IF p[1] THEN <<>> ELSE <<Command(p[2])>>
  BY DEF MarkedCommands
<1>5. \A c \in Commands(L) : e[c] = IF c[1] = "export" THEN <<c>> ELSE <<>>
  BY DEF ExportOf
<1>6. m2 = <<>> \/ m2 = << <<FALSE, SourceLine>> >>
  BY DEF MarkedSource
<1>7. SourceLine \in L /\ \A x \in V : EnvLine(x) \in L
  BY DEF EnvLines
<1>8. /\ DOMAIN m1 = DOMAIN g.env
      /\ \A i \in DOMAIN g.env : m1[i] = <<g.env[i].sensitive, EnvLine(g.env[i])>>
  BY DEF MarkedEnv
<1> HIDE DEF V, L, m1, m2, h, e
<1> DEFINE b1 == Bind(h, m1)
           b2 == Bind(h, m2)
<1>9. b1 \in Seq(Commands(L)) /\ b2 \in Seq(Commands(L))
  BY <1>1, <1>2, BindSteps
<1>10. Exports(Harvest(RenderEnv(g, inline))) = Bind(e, b1 \o b2)
  <2>1. m1 \o m2 \in Seq(BOOLEAN \X L)
    BY <1>1
  <2>2. Harvest(Fences(m1 \o m2)) = Bind(h, m1 \o m2)
    BY <2>1, FencesHarvest DEF h
  <2>3. Bind(h, m1 \o m2) = b1 \o b2
    BY <1>1, <1>2, BindConcat
  <2> HIDE DEF b1, b2
  <2>4. b1 \o b2 \in Seq(Commands(L))
    BY <1>9
  <2>5. Exports(b1 \o b2) = Bind(e, b1 \o b2)
    BY <2>4, ExportsBind DEF e
  <2> QED
    BY <1>1, <2>2, <2>3, <2>5
<1>11. Bind(e, b1 \o b2) = Bind(e, b1) \o Bind(e, b2)
  <2> HIDE DEF b1, b2
  <2> QED
    BY <1>3, <1>9, BindConcat
<1>12. Bind(e, b2) = <<>>
  <2>1. CASE m2 = <<>>
    BY <2>1, BindNone
  <2>2. CASE m2 = << <<FALSE, SourceLine>> >>
    <3> DEFINE c == Command(SourceLine)
               p == <<FALSE, SourceLine>>
    <3>1. c \in Commands(L) /\ c[1] # "export"
      BY <1>7 DEF Commands, Command, SourceLine
    <3>2. p \in BOOLEAN \X L
      BY <1>7
    <3>3. h[p] = <<c>>
      BY <1>4, <3>2
    <3> HIDE DEF c, p
    <3>4. b2 = h[p]
      <4>1. m2 = <<p>>
        BY <2>2 DEF p
      <4> HIDE DEF h
      <4> QED
        BY <1>2, <3>2, <4>1, BindOne
    <3>5. Bind(e, <<c>>) = e[c]
      BY <1>3, <3>1, BindOne
    <3>6. e[c] = <<>>
      BY <1>5, <3>1
    <3>7. b2 = <<c>>
      BY <3>3, <3>4
    <3> HIDE DEF b2
    <3> QED
      BY <3>5, <3>6, <3>7
  <2> QED
    BY <1>6, <2>1, <2>2
<1>13. Bind(e, b1) = Bind(exported, g.env)
  <2> DEFINE B  == BOOLEAN \X L
             eh == Then(h, e, B)
  <2>0. m1 \in Seq(B) /\ Makes(h, B, Commands(L))
    BY <1>1, <1>2
  <2>1. Bind(e, b1) = Bind(eh, m1)
    <3> HIDE DEF B
    <3>1. Composes(h, e, B)
      BY <1>3, <2>0, BindBind
    <3> QED
      BY <2>0, <3>1 DEF Composes
  <2>2. ASSUME NEW i \in DOMAIN g.env PROVE eh[m1[i]] = exported[g.env[i]]
    <3> DEFINE x == g.env[i]
               c == Command(EnvLine(x))
               p == <<x.sensitive, EnvLine(x)>>
    <3>1. x \in V /\ x.sensitive \in BOOLEAN
      BY <1>1 DEF Variable
    <3>2. p \in BOOLEAN \X L
      BY <1>7, <3>1
    <3>3. c \in Commands(L) /\ c = <<"export", x.var, x.default>> /\ c[1] = "export"
      BY <1>7, <3>1 DEF Commands, Command, EnvLine
    <3>4. h[p] = IF x.sensitive THEN <<>> ELSE <<c>>
      BY <1>4, <3>2
    <3>5. exported[x] = IF x.sensitive THEN <<>> ELSE <<c>>
      BY <3>1, <3>3
    <3>6. m1[i] = p
      BY <1>8
    <3> HIDE DEF exported, x, c
    <3>7. Bind(e, <<>>) = <<>>
      BY BindNone
    <3>8. Bind(e, <<c>>) = <<c>>
      <4>1. Bind(e, <<c>>) = e[c]
        BY <1>3, <3>3, BindOne
      <4> QED
        BY <1>5, <3>3, <4>1
    <3>9. eh[p] = Bind(e, h[p])
      BY <3>2 DEF Then
    <3> HIDE DEF eh, p
    <3>10. eh[p] = exported[x]
      BY <3>1, <3>4, <3>5, <3>7, <3>8, <3>9
    <3> QED
      BY <3>6, <3>10 DEF x
  <2> HIDE DEF eh, exported
  <2>3. Bind(eh, m1) = Bind(exported, g.env)
    BY <1>8, <2>2, BindOfMap
  <2> QED
    BY <2>1, <2>3
<1>14. EmitExports(g, NoFilter) = Bind(exported, g.env)
  <2>1. \A x : x \notin DOMAIN NoFilter
    BY DEF NoFilter
  <2>2. \A i \in DOMAIN g.env : g.env[i] \in V /\ g.env[i].sensitive \in BOOLEAN
    BY <1>1 DEF Variable
  <2> DEFINE made(x) == CASE x.var \in DOMAIN NoFilter -> << <<"export", x.var, NoFilter[x.var]>> >>
                          [] x.var \notin DOMAIN NoFilter /\ x.sensitive -> <<>>
                          [] OTHER -> << <<"export", x.var, x.default>> >>
  <2>3. ASSUME NEW i \in DOMAIN g.env PROVE made(g.env[i]) = exported[g.env[i]]
    <3> DEFINE x == g.env[i]
    <3>1. exported[x] = IF x.sensitive THEN <<>> ELSE << <<"export", x.var, x.default>> >>
      BY <2>2
    <3> HIDE DEF exported
    <3>2. made(x) = IF x.sensitive THEN <<>> ELSE << <<"export", x.var, x.default>> >>
      <4>1. CASE x.sensitive
        BY <2>1, <4>1
      <4>2. CASE ~x.sensitive
        BY <2>1, <4>2
      <4> QED
        BY <4>1, <4>2
    <3> QED
      BY <3>1, <3>2
  <2>4. EmitExports(g, NoFilter) = FlattenSeq([i \in DOMAIN g.env |-> made(g.env[i])])
    BY DEF EmitExports
  <2> HIDE DEF made, exported
  <2>5. [i \in DOMAIN g.env |-> made(g.env[i])] = [i \in DOMAIN g.env |-> exported[g.env[i]]]
    BY <2>3
  <2> QED
    BY <2>4, <2>5 DEF Bind
<1>15. Bind(e, b1) \in Seq(Commands(L))
  <2> HIDE DEF b1
  <2> QED
    BY <1>3, <1>9, BindSteps
<1> QED
  <2> HIDE DEF b1, b2, exported
  <2>1. Bind(e, b1) \o <<>> = Bind(e, b1)
    BY <1>15, ConcatEmptySeq
  <2> QED
    BY <1>10, <1>11, <1>12, <1>13, <1>14, <2>1


-------------------------------------------------------------------------------
(* Steps.                                                                  *)
StepCommand(s) == <<"run", s.run, s.branch>>

StepLines(S) == {StepLine(s) : s \in S} \cup {StepLine(Unfiltered(s)) : s \in S}

Filters(S) == {NoFilter} \cup {s.when : s \in S}

(* The commands of the steps that are not skipped.                         *)
Unskipped(S, forceSkip) == [s \in S |-> IF forceSkip \/ s.skip THEN <<>> ELSE <<StepCommand(s)>>]

LEMMA UnfilteredStep ==
  ASSUME NEW s, IsStep(s)
  PROVE  /\ Unfiltered(s).run = s.run /\ Unfiltered(s).branch = s.branch
         /\ Unfiltered(s).skip = s.skip /\ s.skip \in BOOLEAN
         /\ IsStep(Unfiltered(s))
<1>1. /\ s = [run |-> s.run, branch |-> s.branch, when |-> s.when, skip |-> s.skip]
      /\ s.run \in STRING /\ s.branch \in STRING /\ s.skip \in BOOLEAN
  BY DEF IsStep
<1>2. Unfiltered(s) = [run |-> s.run, branch |-> s.branch, when |-> NoFilter, skip |-> s.skip]
  BY <1>1 DEF Unfiltered
<1>3. IsFilter(NoFilter)
  BY DEF IsFilter, NoFilter
<1> DEFINE u == Unfiltered(s)
<1> HIDE DEF u
<1>4. u.run = s.run /\ u.branch = s.branch /\ u.skip = s.skip /\ u.when = NoFilter
  BY <1>2 DEF u
<1>5. u \in [run : STRING, branch : STRING, when : {u.when}, skip : BOOLEAN]
  BY <1>1, <1>2, <1>4 DEF u
<1> QED
  BY <1>1, <1>3, <1>4, <1>5 DEF IsStep, u

LEMMA PlainHarvest ==
  ASSUME NEW S, \A s \in S : IsStep(s), NEW L, \A s \in S : StepLine(s) \in L, NEW forceSkip \in BOOLEAN
  PROVE  /\ Makes(Unskipped(S, forceSkip), S, Commands(L))
         /\ \A steps \in Seq(S) :
              /\ PlainFences(steps, forceSkip) \in Seq(Pieces({NoFilter}, L))
              /\ Harvest(PlainFences(steps, forceSkip)) = Bind(Unskipped(S, forceSkip), steps)
<1> DEFINE B == BOOLEAN \X L
           h == MarkedCommands(L)
           k == Unskipped(S, forceSkip)
<1>1. \A s \in S : (forceSkip \/ s.skip) \in BOOLEAN /\ s.skip \in BOOLEAN
  BY DEF IsStep
<1>2. \A s \in S : Command(StepLine(s)) = StepCommand(s) /\ StepCommand(s) \in Commands(L)
  <2>1. \A s \in S : Command(StepLine(s)) = StepCommand(s)
    BY DEF Command, StepLine, StepCommand
  <2>2. \A s \in S : Command(StepLine(s)) \in Commands(L)
    BY DEF Commands
  <2> QED
    BY <2>1, <2>2
<1>3. ASSUME NEW s \in S
      PROVE  /\ <<forceSkip \/ s.skip, StepLine(s)>> \in B
             /\ h[<<forceSkip \/ s.skip, StepLine(s)>>] = k[s]
             /\ k[s] \in Seq(Commands(L))
  <2> DEFINE b == forceSkip \/ s.skip
             c == StepCommand(s)
  <2>1. b \in BOOLEAN /\ StepLine(s) \in L /\ c \in Commands(L) /\ Command(StepLine(s)) = c
    BY <1>1, <1>2
  <2>2. k[s] = IF b THEN <<>> ELSE <<c>>
    BY DEF Unskipped
  <2> HIDE DEF b, c, k
  <2>3. <<b, StepLine(s)>> \in B
    BY <2>1
  <2>4. h[<<b, StepLine(s)>>] = IF b THEN <<>> ELSE <<c>>
    BY <2>1, <2>3 DEF MarkedCommands
  <2>5. <<>> \in Seq(Commands(L)) /\ <<c>> \in Seq(Commands(L))
    BY <2>1
  <2> QED
    BY <2>2, <2>3, <2>4, <2>5 DEF b
<1>4. Makes(k, S, Commands(L))
  <2>1. k = [s \in S |-> k[s]]
    BY DEF Unskipped
  <2> HIDE DEF k
  <2> QED
    BY <1>3, <2>1 DEF Makes
<1>5. ASSUME NEW steps \in Seq(S)
      PROVE  /\ PlainFences(steps, forceSkip) \in Seq(Pieces({NoFilter}, L))
             /\ Harvest(PlainFences(steps, forceSkip)) = Bind(k, steps)
  <2> DEFINE m == [i \in DOMAIN steps |-> <<forceSkip \/ steps[i].skip, StepLine(steps[i])>>]
  <2>1. DOMAIN steps = 1 .. Len(steps) /\ Len(steps) \in Nat /\ \A i \in DOMAIN steps : steps[i] \in S
    OBVIOUS
  <2>2. \A i \in DOMAIN steps : m[i] \in B /\ h[m[i]] = k[steps[i]]
    BY <1>3, <2>1
  <2>3. PlainFences(steps, forceSkip) = Fences(m)
    BY DEF PlainFences
  <2>4. DOMAIN m = DOMAIN steps /\ m = [i \in DOMAIN steps |-> m[i]]
    OBVIOUS
  <2> HIDE DEF m, h, k, B
  <2>5. m \in Seq(B)
    BY <2>1, <2>2, <2>4
  <2>6. Bind(h, m) = Bind(k, steps)
    BY <2>2, <2>4, BindOfMap
  <2>7. Fences(m) \in Seq(Pieces({NoFilter}, L)) /\ Harvest(Fences(m)) = Bind(h, m)
    BY <2>5, FencesHarvest DEF B, h
  <2> QED
    BY <2>3, <2>6, <2>7
<1> QED
  BY <1>4, <1>5

(* A block of variants.                                                    *)
OfBlock(S, g, when) == Unskipped(S, ~MatchesDefaults(g, when))

BlockRuns(S, F, L, g, when) ==
  \A steps \in Seq(S) :
    /\ VariantFences(g, when, steps) \in Seq(Pieces(F, L))
    /\ Harvest(VariantFences(g, when, steps)) = Bind(OfBlock(S, g, when), steps)

LEMMA VariantHarvest ==
  ASSUME NEW S, \A s \in S : IsStep(s), NEW F, NEW L, \A s \in S : StepLine(Unfiltered(s)) \in L,
         NEW g, NEW when \in F
  PROVE  Makes(OfBlock(S, g, when), S, Commands(L)) /\ BlockRuns(S, F, L, g, when)
<1> DEFINE U == {Unfiltered(s) : s \in S}
           default == MatchesDefaults(g, when)
           ku == Unskipped(U, ~default)
           k  == Unskipped(S, ~default)
<1>1. default \in BOOLEAN
  BY DEF MatchesDefaults
<1>2. \A u \in U : IsStep(u) /\ StepLine(u) \in L
  BY UnfilteredStep
<1>3. ASSUME NEW s \in S
      PROVE  /\ Unfiltered(s) \in U /\ ku[Unfiltered(s)] = k[s]
             /\ k[s] = IF ~default \/ s.skip THEN <<>> ELSE <<StepCommand(s)>>
  <2> DEFINE u == Unfiltered(s)
  <2>1. u \in U /\ u.run = s.run /\ u.branch = s.branch /\ u.skip = s.skip
    BY UnfilteredStep
  <2>2. StepCommand(u) = StepCommand(s)
    BY <2>1 DEF StepCommand
  <2> HIDE DEF u, U, default
  <2>3. ku[u] = IF ~default \/ u.skip THEN <<>> ELSE <<StepCommand(u)>>
    BY <2>1 DEF Unskipped
  <2>4. k[s] = IF ~default \/ s.skip THEN <<>> ELSE <<StepCommand(s)>>
    BY DEF Unskipped
  <2> QED
    BY <2>1, <2>2, <2>3, <2>4 DEF u
<1> HIDE DEF U, default
<1>4. Makes(ku, U, Commands(L))
  BY <1>1, <1>2, PlainHarvest
<1>5. Makes(k, S, Commands(L))
  <2>1. k = [s \in S |-> k[s]]
    BY DEF Unskipped
  <2>2. \A u \in U : ku[u] \in Seq(Commands(L))
    <3> HIDE DEF ku
    <3> QED
      BY <1>4 DEF Makes
  <2> HIDE DEF k, ku
  <2>3. \A s \in S : k[s] \in Seq(Commands(L))
    BY <1>3, <2>2
  <2> QED
    BY <2>1, <2>3 DEF Makes
<1>6. ASSUME NEW steps \in Seq(S)
      PROVE  /\ VariantFences(g, when, steps) \in Seq(Pieces(F, L))
             /\ Harvest(VariantFences(g, when, steps)) = Bind(k, steps)
  <2> DEFINE bare == [i \in DOMAIN steps |-> Unfiltered(steps[i])]
             fences == PlainFences(bare, ~default)
             body == [i \in DOMAIN fences |-> [fences[i] EXCEPT !.only = when, !.open = default]]
             P0 == Pieces({NoFilter}, L)
             P  == Pieces(F, L)
             c0 == PieceCommands({NoFilter}, L)
             c  == PieceCommands(F, L)
  <2>1. DOMAIN steps = 1 .. Len(steps) /\ Len(steps) \in Nat /\ \A i \in DOMAIN steps : steps[i] \in S
    OBVIOUS
  <2>2. /\ DOMAIN bare = DOMAIN steps
        /\ \A i \in DOMAIN steps : bare[i] \in U /\ ku[bare[i]] = k[steps[i]]
    BY <1>3, <2>1
  <2>3. bare \in Seq(U)
    BY <2>1, <2>2
  <2>4. VariantFences(g, when, steps) = body
    BY DEF VariantFences, default
  <2> HIDE DEF bare
  <2>5. fences \in Seq(P0) /\ Harvest(fences) = Bind(ku, bare)
    BY <1>1, <1>2, <2>3, PlainHarvest
  <2>6. Bind(ku, bare) = Bind(k, steps)
    <3> HIDE DEF ku, k
    <3> QED
      BY <2>2, BindOfMap
  <2> HIDE DEF fences
  <2>7. /\ DOMAIN fences = 1 .. Len(fences) /\ Len(fences) \in Nat
        /\ \A i \in DOMAIN fences : fences[i] \in P0
    <3> HIDE DEF P0
    <3> QED
      BY <2>5
  <2>8. ASSUME NEW i \in DOMAIN fences PROVE body[i] \in P /\ c[body[i]] = c0[fences[i]]
    <3> DEFINE p == fences[i]
               q == [p EXCEPT !.only = when, !.open = default]
    <3>1. p \in P0
      BY <2>7
    <3> HIDE DEF p
    <3>2. p.skip \in BOOLEAN /\ p.lines \in Seq(L)
      BY <3>1 DEF Pieces
    <3>3. q.skip = p.skip /\ q.lines = p.lines
      BY <3>1 DEF Pieces
    <3>4. q \in P
      BY <1>1, <3>1 DEF Pieces
    <3> HIDE DEF q
    <3>5. c[q] = c0[p]
      BY <3>1, <3>3, <3>4 DEF PieceCommands
    <3>6. body[i] = q
      BY DEF q, p
    <3> QED
      BY <3>4, <3>5, <3>6 DEF p
  <2>9. DOMAIN body = DOMAIN fences /\ body = [i \in DOMAIN fences |-> body[i]]
    OBVIOUS
  <2> HIDE DEF body, c, c0, P, P0
  <2>10. body \in Seq(P)
    BY <2>7, <2>8, <2>9
  <2>11. Bind(c, body) = Bind(c0, fences)
    BY <2>8, <2>9, BindOfMap
  <2>12. Harvest(body) = Bind(c, body) /\ Harvest(fences) = Bind(c0, fences)
    BY <2>5, <2>10, HarvestBind DEF P, P0, c, c0
  <2> QED
    BY <2>4, <2>5, <2>6, <2>10, <2>11, <2>12 DEF P
<1> QED
  BY <1>5, <1>6 DEF OfBlock, BlockRuns, default


-------------------------------------------------------------------------------
(* Sequences of one length with the same items.                            *)
Alike(a, b) == Len(a) = Len(b) /\ Range(a) = Range(b)

LEMMA BindFlatten ==
  ASSUME NEW Y, NEW Z, NEW h, Makes(h, Y, Z), NEW ss \in Seq(Seq(Y)),
         NEW tt, tt = [i \in DOMAIN ss |-> Bind(h, ss[i])]
  PROVE  tt \in Seq(Seq(Z)) /\ Bind(h, FlattenSeq(ss)) = FlattenSeq(tt)
<1> DEFINE X  == Seq(Y)
           id == [q \in X |-> q]
           bh == Then(id, h, X)
<1>1. Makes(id, X, Y)
  BY DEF Makes
<1>2. /\ ss \in Seq(X) /\ DOMAIN ss = 1 .. Len(ss) /\ Len(ss) \in Nat
      /\ \A i \in DOMAIN ss : ss[i] \in X
  OBVIOUS
<1>3. Bind(id, ss) = FlattenSeq(ss)
  <2>1. ss = [i \in DOMAIN ss |-> ss[i]]
    BY <1>2
  <2>2. \A i \in DOMAIN ss : id[ss[i]] = ss[i]
    BY <1>2
  <2> HIDE DEF id
  <2>3. [i \in DOMAIN ss |-> id[ss[i]]] = ss
    BY <2>1, <2>2
  <2> QED
    BY <2>3 DEF Bind
<1>4. \A i \in DOMAIN ss : bh[ss[i]] = tt[i]
  BY <1>2 DEF Then
<1>5. \A i \in DOMAIN ss : Bind(h, ss[i]) \in Seq(Z)
  BY <1>2, BindSteps
<1>6. tt \in Seq(Seq(Z))
  BY <1>2, <1>5
<1>7. Bind(bh, ss) = FlattenSeq(tt)
  <2> HIDE DEF bh
  <2>1. [i \in DOMAIN ss |-> bh[ss[i]]] = tt
    BY <1>4
  <2> QED
    BY <2>1 DEF Bind
<1> HIDE DEF X, id
<1>8. Composes(id, h, X)
  BY <1>1, BindBind
<1> QED
  BY <1>2, <1>3, <1>6, <1>7, <1>8 DEF Composes

LEMMA FlattenAlike ==
  ASSUME NEW S, NEW ss \in Seq(Seq(S)), NEW tt \in Seq(Seq(S)), DOMAIN ss = DOMAIN tt,
         \A i \in DOMAIN ss : Alike(ss[i], tt[i])
  PROVE  Alike(FlattenSeq(ss), FlattenSeq(tt))
<1> DEFINE N == Len(ss)
<1>1. /\ N \in Nat /\ N = Len(ss) /\ N = Len(tt) /\ DOMAIN ss = 1 .. N
      /\ \A i \in 1 .. N : ss[i] \in Seq(S) /\ tt[i] \in Seq(S)
  OBVIOUS
<1> HIDE DEF N
<1>2. PICK f : Flattened(f, S, ss, N)
  BY <1>1, FlattenIsThere
<1>3. PICK h : Flattened(h, S, tt, N)
  BY <1>1, FlattenIsThere
<1> DEFINE U == {n \in Nat : n <= N => Len(f[n]) = Len(h[n])}
<1>4. 0 \in U
  BY <1>2, <1>3 DEF Flattened
<1>5. ASSUME NEW n \in Nat, n \in U PROVE n + 1 \in U
  <2> SUFFICES ASSUME n + 1 <= N PROVE Len(f[n + 1]) = Len(h[n + 1])
    OBVIOUS
  <2>1. n <= N /\ n + 1 \in 1 .. N /\ (n + 1) - 1 = n /\ n \in 0 .. N
    BY <1>1
  <2>2. Len(f[n]) = Len(h[n]) /\ f[n] \in Seq(S) /\ h[n] \in Seq(S)
    BY <1>2, <1>3, <1>5, <2>1 DEF Flattened
  <2>3. f[n + 1] = f[(n + 1) - 1] \o ss[n + 1] /\ h[n + 1] = h[(n + 1) - 1] \o tt[n + 1]
    BY <1>2, <1>3, <2>1 DEF Flattened
  <2>4. Len(ss[n + 1]) = Len(tt[n + 1]) /\ ss[n + 1] \in Seq(S) /\ tt[n + 1] \in Seq(S)
    BY <1>1, <2>1 DEF Alike
  <2>5. \A a \in Seq(S), b \in Seq(S) : Len(a \o b) = Len(a) + Len(b)
    OBVIOUS
  <2>6. Len(f[n] \o ss[n + 1]) = Len(f[n]) + Len(ss[n + 1])
    BY <2>2, <2>4, <2>5
  <2>7. Len(h[n] \o tt[n + 1]) = Len(h[n]) + Len(tt[n + 1])
    BY <2>2, <2>4, <2>5
  <2> QED
    BY <2>1, <2>2, <2>3, <2>4, <2>6, <2>7
<1> HIDE DEF U
<1>6. Len(f[N]) = Len(h[N])
  <2>1. N \in U
    BY <1>1, <1>4, <1>5, NatSetInduction
  <2> QED
    BY <1>1, <2>1 DEF U
<1>7. FlattenSeq(ss) = f[N] /\ FlattenSeq(tt) = h[N]
  BY <1>2, <1>3 DEF Flattened
<1>8. \A x : x \in Range(FlattenSeq(ss)) <=> x \in Range(FlattenSeq(tt))
  <2>1. \A x : x \in Range(FlattenSeq(ss)) <=> \E i \in DOMAIN ss : x \in Range(ss[i])
    BY FlattenRange
  <2>2. \A x : x \in Range(FlattenSeq(tt)) <=> \E i \in DOMAIN tt : x \in Range(tt[i])
    BY FlattenRange
  <2> QED
    BY <2>1, <2>2 DEF Alike
<1> QED
  BY <1>6, <1>7, <1>8 DEF Alike

(* What e makes of the items that have one of the keys.                    *)
Among(e, key, S, K) == [s \in S |-> IF key[s] \in K THEN e[s] ELSE <<>>]

LEMMA AmongSteps ==
  ASSUME NEW S, NEW Y, NEW e, Makes(e, S, Y), NEW key, NEW K
  PROVE  Makes(Among(e, key, S, K), S, Y)
<1>1. \A s \in S : e[s] \in Seq(Y)
  BY DEF Makes
<1>2. <<>> \in Seq(Y)
  OBVIOUS
<1>3. \A s \in S : Among(e, key, S, K)[s] \in Seq(Y)
  BY <1>1, <1>2 DEF Among
<1>4. Among(e, key, S, K) = [s \in S |-> Among(e, key, S, K)[s]]
  BY DEF Among
<1> QED
  BY <1>3, <1>4 DEF Makes

(* The items of one key more.                                              *)
LEMMA AmongMore ==
  ASSUME NEW S, NEW Y, NEW e, Makes(e, S, Y), NEW key, NEW K, NEW w, w \notin K
  PROVE  \A q \in Seq(S) : LET more == Bind(Among(e, key, S, K \cup {w}), q)
                               old  == Bind(Among(e, key, S, K), q)
                               new  == Bind(Among(e, key, S, {w}), q)
                           IN  Alike(more, old \o new)
<1> DEFINE hm == Among(e, key, S, K \cup {w})
           ho == Among(e, key, S, K)
           hn == Among(e, key, S, {w})
           T == {q \in Seq(S) : /\ Len(Bind(hm, q)) = Len(Bind(ho, q)) + Len(Bind(hn, q))
                                /\ Range(Bind(hm, q)) = Range(Bind(ho, q)) \cup Range(Bind(hn, q))}
<1>1. Makes(hm, S, Y) /\ Makes(ho, S, Y) /\ Makes(hn, S, Y)
  BY AmongSteps
<1>2. <<>> \in T
  <2>1. Range(<<>>) = {} /\ Len(<<>>) = 0 /\ <<>> \in Seq(S)
    BY RangeSmall
  <2> QED
    BY <2>1, BindNone
<1>3. ASSUME NEW s \in S
      PROVE  /\ e[s] \in Seq(Y)
             /\ \/ hm[s] = e[s] /\ ho[s] = e[s] /\ hn[s] = <<>>
                \/ hm[s] = e[s] /\ ho[s] = <<>> /\ hn[s] = e[s]
                \/ hm[s] = <<>> /\ ho[s] = <<>> /\ hn[s] = <<>>
  BY DEF Among, Makes
<1> HIDE DEF hm, ho, hn
<1>4. ASSUME NEW q \in Seq(S), q \in T, NEW s \in S PROVE Append(q, s) \in T
  <2> DEFINE bm == Bind(hm, q)
             bo == Bind(ho, q)
             bn == Bind(hn, q)
  <2>1. /\ Len(bm) = Len(bo) + Len(bn)
        /\ Range(bm) = Range(bo) \cup Range(bn)
    BY <1>4
  <2>2. bm \in Seq(Y) /\ bo \in Seq(Y) /\ bn \in Seq(Y)
    BY <1>1, BindSteps
  <2>3. /\ Bind(hm, Append(q, s)) = bm \o hm[s]
        /\ Bind(ho, Append(q, s)) = bo \o ho[s]
        /\ Bind(hn, Append(q, s)) = bn \o hn[s]
    <3> HIDE DEF T
    <3>1. Bind(hm, Append(q, s)) = Bind(hm, q) \o hm[s]
      BY <1>1, BindSteps
    <3>2. Bind(ho, Append(q, s)) = Bind(ho, q) \o ho[s]
      BY <1>1, BindSteps
    <3>3. Bind(hn, Append(q, s)) = Bind(hn, q) \o hn[s]
      BY <1>1, BindSteps
    <3> QED
      BY <3>1, <3>2, <3>3
  <2>4. e[s] \in Seq(Y) /\ <<>> \in Seq(Y) /\ Append(q, s) \in Seq(S)
    BY <1>3
  <2>5. Range(<<>>) = {} /\ Len(<<>>) = 0
    BY RangeSmall
  <2> HIDE DEF bm, bo, bn
  <2>6. \A a \in Seq(Y), c \in Seq(Y) : Len(a \o c) = Len(a) + Len(c) /\ Range(a \o c) = Range(a) \cup Range(c)
    BY RangeConcatenation
  <2>7. hm[s] \in Seq(Y) /\ ho[s] \in Seq(Y) /\ hn[s] \in Seq(Y)
    BY <1>3, <2>4
  <2> DEFINE lm == Len(hm[s])
             lo == Len(ho[s])
             ln == Len(hn[s])
  <2>8. lm = lo + ln /\ lm \in Nat /\ lo \in Nat /\ ln \in Nat
    <3> DEFINE le == Len(e[s])
    <3>1. le \in Nat
      BY <2>4
    <3>2. \/ lm = le /\ lo = le /\ ln = 0
          \/ lm = le /\ lo = 0 /\ ln = le
          \/ lm = 0 /\ lo = 0 /\ ln = 0
      BY <1>3, <2>5
    <3> HIDE DEF le, lm, lo, ln
    <3> QED
      BY <3>1, <3>2
  <2>9. Range(hm[s]) = Range(ho[s]) \cup Range(hn[s])
    BY <1>3, <2>5
  <2>10. Len(bm \o hm[s]) = Len(bo \o ho[s]) + Len(bn \o hn[s])
    <3>1. /\ Len(bm \o hm[s]) = Len(bm) + lm
          /\ Len(bo \o ho[s]) = Len(bo) + lo
          /\ Len(bn \o hn[s]) = Len(bn) + ln
      BY <2>2, <2>6, <2>7
    <3>2. Len(bo) \in Nat /\ Len(bn) \in Nat
      BY <2>2
    <3> HIDE DEF lm, lo, ln
    <3> QED
      BY <2>1, <2>8, <3>1, <3>2
  <2>11. Range(bm \o hm[s]) = Range(bo \o ho[s]) \cup Range(bn \o hn[s])
    BY <2>1, <2>2, <2>6, <2>7, <2>9
  <2> QED
    BY <2>3, <2>4, <2>10, <2>11
<1> HIDE DEF T
<1>5. Seq(S) \subseteq T
  BY <1>2, <1>4, SequenceInduction
<1>6. ASSUME NEW q \in Seq(S) PROVE Alike(Bind(hm, q), Bind(ho, q) \o Bind(hn, q))
  <2> DEFINE bo == Bind(ho, q)
             bn == Bind(hn, q)
  <2>1. bo \in Seq(Y) /\ bn \in Seq(Y)
    BY <1>1, BindSteps
  <2>2. /\ Len(Bind(hm, q)) = Len(bo) + Len(bn)
        /\ Range(Bind(hm, q)) = Range(bo) \cup Range(bn)
    BY <1>5 DEF T
  <2> HIDE DEF bo, bn
  <2>3. Len(bo \o bn) = Len(bo) + Len(bn) /\ Range(bo \o bn) = Range(bo) \cup Range(bn)
    BY <2>1, RangeConcatenation
  <2> QED
    BY <2>2, <2>3 DEF Alike, bo, bn
<1> QED
  BY <1>6 DEF hm, ho, hn

(* Key by key, each where it comes first: as many items, and the same.     *)
FirstOfKey(ss, e, key, q, S) ==
  /\ DOMAIN ss = DOMAIN q
  /\ \A i \in DOMAIN q : ss[i] = IF \A j \in 1 .. i - 1 : key[q[j]] # key[q[i]]
                                  THEN Bind(Among(e, key, S, {key[q[i]]}), q) ELSE <<>>

LEMMA KeyByKey ==
  ASSUME NEW S, NEW Y, NEW e, Makes(e, S, Y), NEW key, NEW q \in Seq(S),
         NEW ss \in Seq(Seq(Y)), FirstOfKey(ss, e, key, q, S)
  PROVE  Alike(FlattenSeq(ss), Bind(e, q))
<1> DEFINE N == Len(q)
           Keys(n) == {key[q[i]] : i \in 1 .. n}
           b(K) == Bind(Among(e, key, S, K), q)
<1>1. /\ N \in Nat /\ N = Len(ss) /\ N = Len(q) /\ DOMAIN q = 1 .. N
      /\ \A i \in 1 .. N : ss[i] \in Seq(Y) /\ q[i] \in S
  BY DEF FirstOfKey
<1> HIDE DEF N
<1>2. PICK f : Flattened(f, Y, ss, N)
  BY <1>1, FlattenIsThere
<1>3. \A K : b(K) \in Seq(Y)
  BY AmongSteps, BindSteps
<1> DEFINE U == {n \in Nat : n <= N => Alike(f[n], b(Keys(n)))}
<1>4. 0 \in U
  <2>1. Keys(0) = {}
    OBVIOUS
  <2>2. Among(e, key, S, {}) \in [S -> {<<>>}]
    BY DEF Among
  <2>3. b({}) = <<>>
    BY <2>2, BindNothing
  <2>4. f[0] = <<>>
    BY <1>2 DEF Flattened
  <2> HIDE DEF Keys, b
  <2> QED
    BY <2>1, <2>3, <2>4 DEF Alike
<1>5. ASSUME NEW n \in Nat, n \in U PROVE n + 1 \in U
  <2> SUFFICES ASSUME n + 1 <= N PROVE Alike(f[n + 1], b(Keys(n + 1)))
    OBVIOUS
  <2> DEFINE w == key[q[n + 1]]
             fn == f[n]
  <2>1. n <= N /\ n + 1 \in 1 .. N /\ (n + 1) - 1 = n /\ n \in 0 .. N
    BY <1>1
  <2>2. Alike(fn, b(Keys(n))) /\ fn \in Seq(Y)
    BY <1>2, <1>5, <2>1 DEF Flattened
  <2>3. f[n + 1] = fn \o ss[n + 1]
    <3>1. f[n + 1] = f[(n + 1) - 1] \o ss[n + 1]
      BY <1>2, <2>1 DEF Flattened
    <3> QED
      BY <2>1, <3>1
  <2>4. Keys(n + 1) = Keys(n) \cup {w}
    <3>1. \A i : i \in 1 .. n + 1 <=> i \in 1 .. n \/ i = n + 1
      OBVIOUS
    <3>2. \A x : x \in Keys(n + 1) <=> x \in Keys(n) \/ x = w
      BY <3>1
    <3> HIDE DEF Keys, w
    <3> QED
      BY <3>2
  <2>5. ss[n + 1] = IF w \notin Keys(n) THEN b({w}) ELSE <<>>
    <3>1. ss[n + 1] = IF \A j \in 1 .. (n + 1) - 1 : key[q[j]] # key[q[n + 1]]
                      THEN Bind(Among(e, key, S, {key[q[n + 1]]}), q) ELSE <<>>
      BY <1>1, <2>1 DEF FirstOfKey
    <3>2. (\A j \in 1 .. (n + 1) - 1 : key[q[j]] # key[q[n + 1]]) <=> w \notin Keys(n)
      BY <2>1
    <3> QED
      BY <3>1, <3>2
  <2> HIDE DEF w, Keys, fn
  <2>6. CASE w \in Keys(n)
    <3>1. ss[n + 1] = <<>> /\ Keys(n + 1) = Keys(n)
      BY <2>4, <2>5, <2>6
    <3>2. fn \o <<>> = fn
      BY <2>2, ConcatEmptySeq
    <3> QED
      BY <2>2, <2>3, <3>1, <3>2
  <2>7. CASE w \notin Keys(n)
    <3> DEFINE bo == b(Keys(n))
               bn == b({w})
    <3>1. ss[n + 1] = bn
      BY <2>5, <2>7
    <3>2. bo \in Seq(Y) /\ bn \in Seq(Y)
      BY <1>3
    <3>3. Alike(b(Keys(n) \cup {w}), bo \o bn)
      BY <2>7, AmongMore
    <3>4. Alike(fn, bo)
      BY <2>2
    <3> HIDE DEF b, bo, bn
    <3>5. Len(fn \o bn) = Len(fn) + Len(bn) /\ Range(fn \o bn) = Range(fn) \cup Range(bn)
      BY <2>2, <3>2, RangeConcatenation
    <3>6. Len(bo \o bn) = Len(bo) + Len(bn) /\ Range(bo \o bn) = Range(bo) \cup Range(bn)
      BY <3>2, RangeConcatenation
    <3> QED
      BY <2>3, <2>4, <3>1, <3>3, <3>4, <3>5, <3>6 DEF Alike
  <2> QED
    BY <2>6, <2>7
<1> HIDE DEF U
<1>6. Alike(f[N], b(Keys(N)))
  <2>1. N \in U
    BY <1>1, <1>4, <1>5, NatSetInduction
  <2> QED
    BY <1>1, <2>1 DEF U
<1>7. b(Keys(N)) = Bind(e, q)
  <2>1. \A x \in Range(q) : x \in S /\ key[x] \in Keys(N)
    BY <1>1 DEF Range
  <2> HIDE DEF Keys
  <2>2. \A x \in Range(q) : Among(e, key, S, Keys(N))[x] = e[x]
    BY <2>1 DEF Among
  <2> QED
    BY <2>2, BindSame
<1>8. FlattenSeq(ss) = f[N]
  BY <1>2 DEF Flattened
<1> QED
  BY <1>6, <1>7, <1>8


-------------------------------------------------------------------------------
(* What is harvested of the steps of a section, and what is emitted.       *)

(* A runner takes the default's variants.                                  *)
Taken(S, g) ==
  [s \in S |-> IF s.skip \/ ~MatchesDefaults(g, s.when) THEN <<>> ELSE <<StepCommand(s)>>]

Emitted(S, g) ==
  [s \in S |-> IF IsIncluded(g, NoFilter, TRUE, s) THEN <<StepCommand(s)>> ELSE <<>>]

StepCommands(S) == {StepCommand(s) : s \in S}

Pick(S, when) == [s \in S |-> IF s.when = when THEN <<s>> ELSE <<>>]

LEMMA WithFilterBind ==
  ASSUME NEW S, NEW when
  PROVE  /\ Makes(Pick(S, when), S, S)
         /\ \A steps \in Seq(S) : /\ WithFilter(steps, when) \in Seq(S)
                                  /\ WithFilter(steps, when) = Bind(Pick(S, when), steps)
<1> USE DEF Pick
<1> DEFINE pick == Pick(S, when)
<1>1. \A s \in S : <<s>> \in Seq(S) /\ <<>> \in Seq(S)
  OBVIOUS
<1>2. \A s \in S : pick[s] \in Seq(S)
  BY <1>1
<1>3. Makes(pick, S, S)
  BY <1>2 DEF Makes
<1>4. ASSUME NEW steps \in Seq(S) PROVE WithFilter(steps, when) = Bind(pick, steps)
  <2>1. \A i \in DOMAIN steps : pick[steps[i]] = IF steps[i].when = when THEN <<steps[i]>> ELSE <<>>
    OBVIOUS
  <2> HIDE DEF pick
  <2>2. [i \in DOMAIN steps |-> pick[steps[i]]]
          = [i \in DOMAIN steps |-> IF steps[i].when = when THEN <<steps[i]>> ELSE <<>>]
    BY <2>1
  <2> QED
    BY <2>2 DEF WithFilter, Bind
<1> HIDE DEF pick
<1>5. \A steps \in Seq(S) : Bind(pick, steps) \in Seq(S)
  BY <1>3, BindSteps
<1> QED
  BY <1>3, <1>4, <1>5 DEF pick

LEMMA TakenMakes ==
  ASSUME NEW S, \A s \in S : IsStep(s), NEW L, \A s \in S : StepLine(Unfiltered(s)) \in L, NEW g
  PROVE  Makes(Taken(S, g), S, Commands(L)) /\ \A s \in S : StepCommand(s) \in Commands(L)
<1>1. \A s \in S : Command(StepLine(Unfiltered(s))) = StepCommand(s)
  BY UnfilteredStep DEF Command, StepLine, StepCommand
<1>2. \A s \in S : Command(StepLine(Unfiltered(s))) \in Commands(L)
  BY DEF Commands
<1>3. \A s \in S : <<StepCommand(s)>> \in Seq(Commands(L)) /\ <<>> \in Seq(Commands(L))
  <2>1. \A c \in Commands(L) : <<c>> \in Seq(Commands(L)) /\ <<>> \in Seq(Commands(L))
    OBVIOUS
  <2> QED
    BY <1>1, <1>2, <2>1
<1>4. \A s \in S : Taken(S, g)[s] \in Seq(Commands(L))
  BY <1>3 DEF Taken
<1>5. Taken(S, g) = [s \in S |-> Taken(S, g)[s]]
  BY DEF Taken
<1> QED
  BY <1>1, <1>2, <1>4, <1>5 DEF Makes

(* The blocks of a group of variants, whose order is not that of the       *)
(* steps: as many commands, and the same.                                  *)
LEMMA GroupHarvest ==
  ASSUME NEW S, \A s \in S : IsStep(s), NEW F, \A s \in S : s.when \in F,
         NEW L, \A s \in S : StepLine(Unfiltered(s)) \in L, NEW g, NEW steps \in Seq(S)
  PROVE  /\ VariantGroup(g, steps) \in Seq(Pieces(F, L))
         /\ Alike(Harvest(VariantGroup(g, steps)), Bind(Taken(S, g), steps))
<1> DEFINE P == Pieces(F, L)
           C == Commands(L)
           c == PieceCommands(F, L)
           e == Taken(S, g)
           key == [s \in S |-> s.when]
           IsFirst(i) == \A j \in 1 .. i - 1 : steps[j].when # steps[i].when
           block(when) == VariantFences(g, when, WithFilter(steps, when))
           ss == [i \in DOMAIN steps |-> IF IsFirst(i) THEN block(steps[i].when) ELSE <<>>]
           tt == [i \in DOMAIN ss |-> Bind(c, ss[i])]
<1>1. DOMAIN steps = 1 .. Len(steps) /\ Len(steps) \in Nat /\ \A i \in DOMAIN steps : steps[i] \in S
  OBVIOUS
<1>2. VariantGroup(g, steps) = FlattenSeq(ss)
  BY DEF VariantGroup
<1>3. ASSUME NEW when \in F
      PROVE  /\ block(when) \in Seq(P)
             /\ Bind(c, block(when)) = Bind(Among(e, key, S, {when}), steps)
  <2> DEFINE out == ~MatchesDefaults(g, when)
             k == OfBlock(S, g, when)
             pick == Pick(S, when)
             some == WithFilter(steps, when)
  <2>1. some \in Seq(S) /\ some = Bind(pick, steps) /\ Makes(pick, S, S)
    BY WithFilterBind
  <2>2. Makes(k, S, C) /\ BlockRuns(S, F, L, g, when)
    BY VariantHarvest
  <2>3. ASSUME NEW s \in S
        PROVE  Bind(k, pick[s]) = Among(e, key, S, {when})[s]
    <3>1. pick[s] = IF s.when = when THEN <<s>> ELSE <<>>
      BY DEF Pick
    <3>2. Among(e, key, S, {when})[s] = IF s.when = when THEN e[s] ELSE <<>>
      <4>1. key[s] = s.when
        OBVIOUS
      <4> HIDE DEF key, e
      <4> QED
        BY <4>1 DEF Among
    <3>3. s.when = when => k[s] = e[s]
      <4>1. k[s] = IF out \/ s.skip THEN <<>> ELSE <<StepCommand(s)>>
        BY DEF OfBlock, Unskipped
      <4>2. e[s] = IF s.skip \/ ~MatchesDefaults(g, s.when) THEN <<>> ELSE <<StepCommand(s)>>
        BY DEF Taken
      <4> HIDE DEF k, e
      <4> QED
        BY <4>1, <4>2
    <3> HIDE DEF pick, k, e, key
    <3>4. Bind(k, <<s>>) = k[s]
      BY <2>2, BindOne
    <3>5. Bind(k, <<>>) = <<>>
      BY BindNone
    <3>6. CASE s.when = when
      BY <3>1, <3>2, <3>3, <3>4, <3>6
    <3>7. CASE s.when # when
      BY <3>1, <3>2, <3>5, <3>7
    <3> QED
      BY <3>6, <3>7
  <2> HIDE DEF pick, k, e, key, some, P, C
  <2>4. Composes(pick, k, S)
    BY <2>1, <2>2, BindBind
  <2>5. Bind(k, some) = Bind(Then(pick, k, S), steps)
    BY <2>1, <2>4 DEF Composes
  <2>6. \A x \in Range(steps) : Then(pick, k, S)[x] = Among(e, key, S, {when})[x]
    <3>1. \A x \in Range(steps) : x \in S
      BY <1>1 DEF Range
    <3> QED
      BY <2>3, <3>1 DEF Then
  <2>7. Bind(k, some) = Bind(Among(e, key, S, {when}), steps)
    BY <2>5, <2>6, BindSame
  <2>8. block(when) \in Seq(P) /\ Harvest(block(when)) = Bind(k, some)
    BY <2>1, <2>2 DEF some, BlockRuns, P, k
  <2>9. Harvest(block(when)) = Bind(c, block(when))
    <3> DEFINE b == block(when)
    <3>1. b \in Seq(P)
      BY <2>8
    <3> HIDE DEF b
    <3> QED
      BY <3>1, HarvestBind DEF P, b
  <2> QED
    BY <2>7, <2>8, <2>9
<1>4. \A i \in DOMAIN steps : ss[i] = IF IsFirst(i) THEN block(steps[i].when) ELSE <<>>
  OBVIOUS
<1>5. DOMAIN ss = DOMAIN steps /\ ss = [i \in DOMAIN steps |-> ss[i]]
  OBVIOUS
<1> HIDE DEF ss, block, IsFirst
<1>6. \A i \in DOMAIN steps : ss[i] \in Seq(P)
  <2>1. <<>> \in Seq(P)
    OBVIOUS
  <2>2. \A i \in DOMAIN steps : block(steps[i].when) \in Seq(P)
    BY <1>1, <1>3
  <2> QED
    BY <1>4, <2>1, <2>2
<1>7. ss \in Seq(Seq(P))
  <2> HIDE DEF P
  <2> QED
    BY <1>1, <1>5, <1>6
<1>8. Makes(c, P, C)
  BY HarvestBind
<1> HIDE DEF P, C, c, e
<1>9. tt \in Seq(Seq(C)) /\ Bind(c, FlattenSeq(ss)) = FlattenSeq(tt)
  BY <1>7, <1>8, BindFlatten
<1>10. FlattenSeq(ss) \in Seq(P)
  BY <1>7, FlattenSteps
<1>11. Harvest(FlattenSeq(ss)) = FlattenSeq(tt)
  <2>1. Harvest(FlattenSeq(ss)) = Bind(c, FlattenSeq(ss))
    BY <1>10, HarvestBind DEF P, c
  <2> QED
    BY <1>9, <2>1
<1>12. DOMAIN tt = DOMAIN steps
  BY <1>5
<1>13. \A i \in DOMAIN steps : key[steps[i]] = steps[i].when
  BY <1>1
<1>14. Makes(e, S, C)
  BY TakenMakes DEF e, C
<1>15. \A i \in DOMAIN steps :
         tt[i] = IF \A j \in 1 .. i - 1 : key[steps[j]] # key[steps[i]]
                 THEN Bind(Among(e, key, S, {key[steps[i]]}), steps) ELSE <<>>
  <2> HIDE DEF key
  <2> SUFFICES ASSUME NEW i \in DOMAIN steps
               PROVE  tt[i] = IF \A j \in 1 .. i - 1 : key[steps[j]] # key[steps[i]]
                              THEN Bind(Among(e, key, S, {key[steps[i]]}), steps) ELSE <<>>
    OBVIOUS
  <2>1. tt[i] = Bind(c, ss[i])
    BY <1>5
  <2> HIDE DEF tt
  <2>2. \A j \in 1 .. i - 1 : j \in DOMAIN steps
    BY <1>1
  <2>3. IsFirst(i) <=> \A j \in 1 .. i - 1 : key[steps[j]] # key[steps[i]]
    BY <1>13, <2>2 DEF IsFirst
  <2>4. CASE IsFirst(i)
    <3>1. ss[i] = block(steps[i].when) /\ steps[i].when \in F
      BY <1>1, <1>4, <2>4
    <3> QED
      BY <1>3, <1>13, <2>1, <2>3, <2>4, <3>1
  <2>5. CASE ~IsFirst(i)
    <3>1. ss[i] = <<>>
      BY <1>4, <2>5
    <3> QED
      BY <2>1, <2>3, <2>5, <3>1, BindNone
  <2> QED
    BY <2>4, <2>5
<1> HIDE DEF tt, key
<1>16. FirstOfKey(tt, e, key, steps, S)
  BY <1>12, <1>15 DEF FirstOfKey
<1>17. Alike(FlattenSeq(tt), Bind(e, steps))
  BY <1>9, <1>14, <1>16, KeyByKey
<1> QED
  BY <1>2, <1>10, <1>11, <1>17 DEF P, e


(* A run of variants is rendered as a group, any other as it is.           *)
MarkedSteps(g, steps) == [i \in DOMAIN steps |-> <<IsVariant(g, steps[i]), steps[i]>>]

SegmentFences(g, r) == IF r.key THEN VariantGroup(g, r.items) ELSE PlainFences(r.items, FALSE)

LEMMA SegmentsAreRuns ==
  ASSUME NEW S, NEW g, NEW steps \in Seq(S)
  PROVE  /\ MarkedSteps(g, steps) \in Seq(BOOLEAN \X S)
         /\ Segments(g, steps) = Runs(MarkedSteps(g, steps))
         /\ Segments(g, steps) \in Seq(RunSet(BOOLEAN, S))
         /\ \A r \in Range(Segments(g, steps)) : \A x \in Range(r.items) :
              x \in Range(steps) /\ (r.key <=> IsVariant(g, x))
<1> DEFINE B == BOOLEAN \X S
           m == MarkedSteps(g, steps)
           v == [s \in S |-> IsVariant(g, s)]
<1>1. DOMAIN steps = 1 .. Len(steps) /\ Len(steps) \in Nat /\ \A i \in DOMAIN steps : steps[i] \in S
  OBVIOUS
<1>2. \A s \in S : v[s] = IsVariant(g, s) /\ v[s] \in BOOLEAN
  BY DEF IsVariant
<1>3. /\ DOMAIN m = DOMAIN steps /\ m = [i \in DOMAIN steps |-> m[i]]
      /\ \A i \in DOMAIN steps : m[i] = <<v[steps[i]], steps[i]>>
  BY <1>1, <1>2 DEF MarkedSteps
<1>4. Segments(g, steps) = Runs(m)
  BY DEF Segments, MarkedSteps
<1> HIDE DEF m, v
<1>5. \A i \in DOMAIN steps : m[i] \in B
  <2>1. ASSUME NEW s \in S PROVE <<v[s], s>> \in B
    <3> DEFINE b == v[s]
    <3>1. b \in BOOLEAN
      BY <1>2
    <3> HIDE DEF b
    <3>2. <<b, s>> \in B
      BY <3>1
    <3> QED
      BY <3>2 DEF b
  <2> HIDE DEF B
  <2> QED
    BY <1>1, <1>3, <2>1
<1>6. m \in Seq(B)
  <2> HIDE DEF B
  <2> QED
    BY <1>1, <1>3, <1>5
<1>7. Runs(m) \in Seq(RunSet(BOOLEAN, S))
  BY <1>6, RunsSteps
<1>8. ASSUME NEW r \in Range(Runs(m)), NEW x \in Range(r.items)
      PROVE  x \in Range(steps) /\ (r.key <=> IsVariant(g, x))
  <2>1. <<r.key, x>> \in Range(m)
    BY <1>6, RunsRange
  <2>2. PICK i \in DOMAIN steps : <<r.key, x>> = m[i]
    BY <1>3, <2>1 DEF Range
  <2>3. <<r.key, x>> = <<v[steps[i]], steps[i]>>
    BY <1>3, <2>2
  <2>4. x = steps[i] /\ r.key = v[x]
    BY <2>3
  <2>5. r.key = IsVariant(g, x)
    BY <1>1, <1>2, <2>4
  <2> QED
    BY <2>4, <2>5 DEF Range
<1> QED
  BY <1>4, <1>6, <1>7, <1>8 DEF m

(* What harvests and emits alike: no filter, or one of variants that names *)
(* no placeholder.                                                         *)
IsTold(g, s) ==
  \/ s.when = NoFilter
  \/ IsVariant(g, s) /\ \A var \in DOMAIN s.when : ~IsPlaceholder(g, NoFilter, var)

LEMMA EmittedIs ==
  ASSUME NEW S, \A s \in S : IsStep(s), NEW g
  PROVE  \A s \in S : IsTold(g, s) =>
           /\ IsVariant(g, s) => Emitted(S, g)[s] = Taken(S, g)[s]
           /\ ~IsVariant(g, s) => Emitted(S, g)[s] = Unskipped(S, FALSE)[s]
<1> SUFFICES ASSUME NEW s \in S, IsTold(g, s)
             PROVE  /\ IsVariant(g, s) => Emitted(S, g)[s] = Taken(S, g)[s]
                    /\ ~IsVariant(g, s) => Emitted(S, g)[s] = Unskipped(S, FALSE)[s]
  OBVIOUS
<1> DEFINE c == <<StepCommand(s)>>
<1>1. /\ Emitted(S, g)[s] = IF IsIncluded(g, NoFilter, TRUE, s) THEN c ELSE <<>>
      /\ Taken(S, g)[s] = IF s.skip \/ ~MatchesDefaults(g, s.when) THEN <<>> ELSE c
      /\ Unskipped(S, FALSE)[s] = IF s.skip THEN <<>> ELSE c
  BY DEF Emitted, Taken, Unskipped
<1>2. DOMAIN NoFilter = {}
  BY DEF NoFilter
<1>3. \A var : Resolved(g, NoFilter, var) = DeclaredDefault(g, var)
  BY <1>2 DEF Resolved
<1>4. ASSUME IsVariant(g, s) PROVE IsIncluded(g, NoFilter, TRUE, s) <=> ~s.skip /\ MatchesDefaults(g, s.when)
  <2>1. s.when # NoFilter /\ \A var \in DOMAIN s.when : ~IsPlaceholder(g, NoFilter, var)
    BY <1>4 DEF IsVariant, IsTold
  <2> QED
    BY <1>3, <2>1 DEF IsIncluded, MatchesDefaults
<1>5. ASSUME ~IsVariant(g, s) PROVE IsIncluded(g, NoFilter, TRUE, s) <=> ~s.skip
  <2>1. DOMAIN s.when = {}
    BY <1>2, <1>5 DEF IsTold
  <2> QED
    BY <2>1 DEF IsIncluded
<1> HIDE DEF c
<1> QED
  BY <1>1, <1>4, <1>5

(* Some of the filters and some of the lines.                              *)
LEMMA PiecesWiden ==
  ASSUME NEW F, NEW G, F \subseteq G, NEW L
  PROVE  Seq(Pieces(F, L)) \subseteq Seq(Pieces(G, L))
<1>1. Pieces(F, L) \subseteq Pieces(G, L)
  BY DEF Pieces
<1> QED
  BY <1>1

(* One run of the steps of a section.                                      *)
LEMMA SegmentHarvest ==
  ASSUME NEW S, \A s \in S : IsStep(s), NEW g, NEW r \in RunSet(BOOLEAN, S)
  PROVE  /\ SegmentFences(g, r) \in Seq(Pieces(Filters(S), StepLines(S)))
         /\ (\A x \in Range(r.items) : IsTold(g, x) /\ (r.key <=> IsVariant(g, x)))
              => Alike(Harvest(SegmentFences(g, r)), Bind(Emitted(S, g), r.items))
<1> DEFINE F == Filters(S)
           L == StepLines(S)
           items == r.items
           told == \A x \in Range(items) : IsTold(g, x) /\ (r.key <=> IsVariant(g, x))
<1>1. r.key \in BOOLEAN /\ items \in Seq(S) /\ \A x \in Range(items) : x \in S
  <2>1. r.key \in BOOLEAN /\ items \in Seq(S)
    BY DEF RunSet
  <2> QED
    BY <2>1 DEF Range
<1>2. /\ \A s \in S : s.when \in F /\ StepLine(s) \in L /\ StepLine(Unfiltered(s)) \in L
      /\ {NoFilter} \subseteq F
  BY DEF Filters, StepLines
<1> HIDE DEF F, L, items
<1>3. CASE r.key
  <2>1. SegmentFences(g, r) = VariantGroup(g, items)
    BY <1>3 DEF SegmentFences, items
  <2>2. /\ VariantGroup(g, items) \in Seq(Pieces(F, L))
        /\ Alike(Harvest(VariantGroup(g, items)), Bind(Taken(S, g), items))
    BY <1>1, <1>2, GroupHarvest
  <2>3. ASSUME told PROVE Bind(Taken(S, g), items) = Bind(Emitted(S, g), items)
    <3>1. \A x \in Range(items) : Taken(S, g)[x] = Emitted(S, g)[x]
      BY <1>1, <1>3, <2>3, EmittedIs
    <3> QED
      BY <3>1, BindSame
  <2> QED
    BY <2>1, <2>2, <2>3 DEF F, L, items
<1>4. CASE ~r.key
  <2>1. SegmentFences(g, r) = PlainFences(items, FALSE)
    BY <1>4 DEF SegmentFences, items
  <2>2. /\ PlainFences(items, FALSE) \in Seq(Pieces({NoFilter}, L))
        /\ Harvest(PlainFences(items, FALSE)) = Bind(Unskipped(S, FALSE), items)
    BY <1>1, <1>2, PlainHarvest
  <2>3. Seq(Pieces({NoFilter}, L)) \subseteq Seq(Pieces(F, L))
    BY <1>2, PiecesWiden
  <2>4. ASSUME told PROVE Bind(Unskipped(S, FALSE), items) = Bind(Emitted(S, g), items)
    <3>1. \A x \in Range(items) : Unskipped(S, FALSE)[x] = Emitted(S, g)[x]
      BY <1>1, <1>4, <2>4, EmittedIs
    <3> QED
      BY <3>1, BindSame
  <2> QED
    BY <2>1, <2>2, <2>3, <2>4 DEF F, L, items, Alike
<1> QED
  BY <1>1, <1>3, <1>4

(* What emit puts into a script of the steps, run by run.                  *)
LEMMA EmittedByRun ==
  ASSUME NEW S, \A s \in S : IsStep(s), NEW g, NEW steps \in Seq(S)
  PROVE  LET o == [r \in RunSet(BOOLEAN, S) |-> Bind(Emitted(S, g), r.items)] IN
         /\ Makes(Emitted(S, g), S, StepCommands(S))
         /\ EmitSteps(g, NoFilter, TRUE, steps) = Bind(Emitted(S, g), steps)
         /\ Makes(o, RunSet(BOOLEAN, S), StepCommands(S))
         /\ Bind(o, Segments(g, steps)) = Bind(Emitted(S, g), steps)
<1> DEFINE B == BOOLEAN \X S
           e == Emitted(S, g)
           C == StepCommands(S)
           h == [p \in B |-> e[p[2]]]
           m == MarkedSteps(g, steps)
           o == [r \in RunSet(BOOLEAN, S) |-> Bind(e, r.items)]
<1>1. \A s \in S : e[s] \in Seq(C)
  <2>1. <<>> \in Seq(C) /\ \A c \in C : <<c>> \in Seq(C)
    OBVIOUS
  <2>2. \A s \in S : StepCommand(s) \in C
    BY DEF StepCommands
  <2> HIDE DEF C
  <2> QED
    BY <2>1, <2>2 DEF Emitted
<1>2. Makes(e, S, C)
  <2>1. e = [s \in S |-> e[s]]
    BY DEF Emitted
  <2> QED
    BY <1>1, <2>1 DEF Makes
<1>3. EmitSteps(g, NoFilter, TRUE, steps) = Bind(e, steps)
  <2>1. \A i \in DOMAIN steps : steps[i] \in S
    OBVIOUS
  <2>2. \A i \in DOMAIN steps :
          e[steps[i]] = IF IsIncluded(g, NoFilter, TRUE, steps[i])
                        THEN << <<"run", steps[i].run, steps[i].branch>> >> ELSE <<>>
    BY <2>1 DEF Emitted, StepCommand
  <2> HIDE DEF e
  <2>3. [i \in DOMAIN steps |-> e[steps[i]]]
          = [i \in DOMAIN steps |-> IF IsIncluded(g, NoFilter, TRUE, steps[i])
                                    THEN << <<"run", steps[i].run, steps[i].branch>> >> ELSE <<>>]
    BY <2>2
  <2> QED
    BY <2>3 DEF EmitSteps, Bind
<1> HIDE DEF e, C
<1>4. Makes(h, B, C)
  <2>1. \A p \in B : p[2] \in S
    OBVIOUS
  <2>2. \A p \in B : h[p] \in Seq(C)
    BY <1>1, <2>1
  <2> HIDE DEF B
  <2> QED
    BY <2>2 DEF Makes
<1>5. m \in Seq(B) /\ Segments(g, steps) = Runs(m) /\ DOMAIN m = DOMAIN steps
  <2>1. DOMAIN m = DOMAIN steps
    BY DEF MarkedSteps
  <2> HIDE DEF m
  <2>2. m \in Seq(B) /\ Segments(g, steps) = Runs(m)
    BY SegmentsAreRuns DEF m
  <2> QED
    BY <2>1, <2>2
<1>6. \A i \in DOMAIN steps : h[m[i]] = e[steps[i]]
  <2> SUFFICES ASSUME NEW i \in DOMAIN steps PROVE h[m[i]] = e[steps[i]]
    OBVIOUS
  <2>1. m[i] \in B
    BY <1>5
  <2>2. m[i][2] = steps[i]
    BY DEF MarkedSteps
  <2> HIDE DEF m, B
  <2> QED
    BY <2>1, <2>2
<1>7. Bind(h, m) = Bind(e, steps)
  <2> HIDE DEF h, m
  <2> QED
    BY <1>5, <1>6, BindOfMap
<1>8. OfRun(h, BOOLEAN, S) = o
  <2>1. ASSUME NEW r \in RunSet(BOOLEAN, S)
        PROVE  Bind([x \in S |-> h[<<r.key, x>>]], r.items) = Bind(e, r.items)
    <3>1. r.key \in BOOLEAN /\ r.items \in Seq(S)
      BY DEF RunSet
    <3>2. \A x \in S : <<r.key, x>> \in B /\ h[<<r.key, x>>] = e[x]
      <4> DEFINE k == r.key
      <4>1. k \in BOOLEAN
        BY <3>1
      <4> HIDE DEF k
      <4>2. \A x \in S : <<k, x>> \in B
        BY <4>1
      <4>3. \A x \in S : <<k, x>>[2] = x
        OBVIOUS
      <4> HIDE DEF B
      <4> QED
        BY <4>2, <4>3 DEF k
    <3>3. \A x \in Range(r.items) : x \in S
      BY <3>1 DEF Range
    <3> HIDE DEF h
    <3>4. \A x \in Range(r.items) : [y \in S |-> h[<<r.key, y>>]][x] = e[x]
      BY <3>2, <3>3
    <3> QED
      BY <3>4, BindSame
  <2> HIDE DEF h
  <2> QED
    BY <2>1 DEF OfRun
<1> HIDE DEF h, o, m
<1>9. Bind(OfRun(h, BOOLEAN, S), Runs(m)) = Bind(h, m) /\ Makes(OfRun(h, BOOLEAN, S), RunSet(BOOLEAN, S), C)
  BY <1>4, <1>5, RunsBind, OfRunSteps
<1> QED
  BY <1>2, <1>3, <1>5, <1>7, <1>8, <1>9 DEF o, e, C

(* What is harvested of the steps of a section, run by run: of steps that  *)
(* are told, as many commands as emit puts into a script, and the same.    *)
LEMMA StepsHarvest ==
  ASSUME NEW S, \A s \in S : IsStep(s), NEW g, NEW steps \in Seq(S)
  PROVE  /\ RenderSteps(g, steps) \in Seq(Pieces(Filters(S), StepLines(S)))
         /\ (\A s \in Range(steps) : IsTold(g, s))
              => Alike(Harvest(RenderSteps(g, steps)), EmitSteps(g, NoFilter, TRUE, steps))
<1> DEFINE P == Pieces(Filters(S), StepLines(S))
           C == StepCommands(S)
           D == C \cup Commands(StepLines(S))
           c == PieceCommands(Filters(S), StepLines(S))
           e == Emitted(S, g)
           runs == Segments(g, steps)
           o == [r \in RunSet(BOOLEAN, S) |-> Bind(e, r.items)]
           ss == [i \in DOMAIN runs |-> SegmentFences(g, runs[i])]
           tt == [i \in DOMAIN ss |-> Bind(c, ss[i])]
           uu == [i \in DOMAIN runs |-> o[runs[i]]]
<1>1. /\ Makes(e, S, C) /\ EmitSteps(g, NoFilter, TRUE, steps) = Bind(e, steps)
      /\ Makes(o, RunSet(BOOLEAN, S), C) /\ Bind(o, runs) = Bind(e, steps)
  BY EmittedByRun
<1>2. Makes(c, P, Commands(StepLines(S))) /\ \A body \in Seq(P) : Harvest(body) = Bind(c, body)
  BY HarvestBind
<1>3. CASE steps = <<>>
  <2> DEFINE f == Fence(FALSE, <<>>)
  <2>1. RenderSteps(g, steps) = <<f>>
    BY <1>3 DEF RenderSteps
  <2>2. f \in P /\ f.skip = FALSE /\ f.lines = <<>>
    <3>1. <<>> \in Seq(StepLines(S))
      OBVIOUS
    <3> QED
      BY <3>1 DEF Fence, Piece, Pieces, Filters
  <2> HIDE DEF f
  <2>3. c[f] = <<>>
    BY <2>2 DEF PieceCommands
  <2>4. <<f>> \in Seq(P)
    BY <2>2
  <2> HIDE DEF P, c, e
  <2>5. Harvest(<<f>>) = Bind(c, <<f>>) /\ Bind(c, <<f>>) = c[f]
    <3>1. Harvest(<<f>>) = Bind(c, <<f>>)
      BY <1>2, <2>4
    <3>2. Bind(c, <<f>>) = c[f]
      BY <1>2, <2>2, BindOne
    <3> QED
      BY <3>1, <3>2
  <2>6. EmitSteps(g, NoFilter, TRUE, steps) = <<>>
    BY <1>1, <1>3, BindNone
  <2> QED
    BY <2>1, <2>3, <2>4, <2>5, <2>6 DEF P, Alike
<1>4. CASE steps # <<>>
  <2>1. RenderSteps(g, steps) = FlattenSeq(ss)
    BY <1>4 DEF RenderSteps, SegmentFences
  <2>2. /\ runs \in Seq(RunSet(BOOLEAN, S))
        /\ \A r \in Range(runs) : \A x \in Range(r.items) : x \in Range(steps) /\ (r.key <=> IsVariant(g, x))
    BY SegmentsAreRuns
  <2> HIDE DEF runs
  <2>3. /\ DOMAIN runs = 1 .. Len(runs) /\ Len(runs) \in Nat
        /\ \A i \in DOMAIN runs : runs[i] \in RunSet(BOOLEAN, S) /\ runs[i] \in Range(runs)
    BY <2>2 DEF Range
  <2>4. \A i \in DOMAIN runs : ss[i] \in Seq(P)
    BY <2>3, SegmentHarvest
  <2>5. ss \in Seq(Seq(P)) /\ DOMAIN ss = DOMAIN runs
    <3> HIDE DEF P
    <3>1. ss = [i \in DOMAIN runs |-> ss[i]]
      OBVIOUS
    <3> HIDE DEF ss
    <3> QED
      BY <2>3, <2>4, <3>1
  <2> HIDE DEF P, c, e, C
  <2>6. FlattenSeq(ss) \in Seq(P)
    <3> HIDE DEF ss
    <3> QED
      BY <2>5, FlattenSteps
  <2>7. ASSUME \A s \in Range(steps) : IsTold(g, s)
        PROVE  Alike(Harvest(FlattenSeq(ss)), Bind(e, steps))
    <3>1. \A i \in DOMAIN runs : Alike(Harvest(ss[i]), Bind(e, runs[i].items))
      BY <2>2, <2>3, <2>7, SegmentHarvest DEF e
    <3>2. \A i \in DOMAIN runs : uu[i] = Bind(e, runs[i].items)
      BY <2>3
    <3>3. Bind(o, runs) = FlattenSeq(uu)
      BY DEF Bind
    <3> HIDE DEF ss
    <3>4. Makes(c, P, D)
      <4>1. Seq(Commands(StepLines(S))) \subseteq Seq(D)
        OBVIOUS
      <4> QED
        BY <1>2, <4>1 DEF Makes
    <3>5. tt \in Seq(Seq(D)) /\ Bind(c, FlattenSeq(ss)) = FlattenSeq(tt)
      BY <2>5, <3>4, BindFlatten
    <3>6. uu \in Seq(Seq(D))
      <4>1. \A i \in DOMAIN runs : o[runs[i]] \in Seq(C)
        BY <1>1, <2>3 DEF Makes
      <4>2. Seq(C) \subseteq Seq(D)
        OBVIOUS
      <4> HIDE DEF o, D
      <4>3. \A i \in DOMAIN runs : o[runs[i]] \in Seq(D)
        BY <4>1, <4>2
      <4> QED
        BY <2>3, <4>3
    <3>7. \A i \in DOMAIN tt : Alike(tt[i], uu[i])
      BY <1>2, <2>4, <2>5, <3>1, <3>2
    <3>8. DOMAIN tt = DOMAIN uu
      BY <2>5
    <3> HIDE DEF tt, uu, D, o
    <3>9. Alike(FlattenSeq(tt), FlattenSeq(uu))
      BY <3>5, <3>6, <3>7, <3>8, FlattenAlike
    <3> QED
      BY <1>1, <1>2, <2>6, <3>3, <3>5, <3>9
  <2> QED
    BY <1>1, <2>1, <2>6, <2>7 DEF P
<1> QED
  BY <1>3, <1>4

-------------------------------------------------------------------------------
(* What is between the markers of a page that has been rendered.           *)
IsBody(body) ==
  /\ body \in Seq(Range(body))
  /\ \A piece \in Range(body) :
       /\ piece.kind \in {"fence", "table", "prose"} /\ piece.skip \in BOOLEAN
       /\ piece.lines \in Seq(Range(piece.lines))
       /\ piece.kind # "fence" => piece.lines = <<>>

(* Its steps are of the guide.yaml, with their refs.                       *)
RunsOf(g, body) ==
  \A piece \in Range(body) : \A l \in Range(piece.lines) :
    l[1] = "run" => \E s \in AllSteps(g) : l[3] = s.branch

(* What a runner exports is no placeholder.                                *)
ExportsOf(g, body) ==
  \A l \in Range(Harvest(body)) : l[1] = "export" => \E x \in Range(g.env) : ~x.sensitive /\ l[2] = x.var

LEMMA FencesAreBody ==
  ASSUME NEW F, NEW L, NEW body \in Seq(Pieces(F, L))
  PROVE  /\ IsBody(body)
         /\ \A piece \in Range(body) : \A l \in Range(piece.lines) : l \in L
         /\ \A l \in Range(Harvest(body)) : \E x \in L : l = Command(x)
<1> DEFINE P == Pieces(F, L)
           c == PieceCommands(F, L)
<1>1. \A piece \in Range(body) : piece \in P
  BY DEF Range
<1>2. ASSUME NEW piece \in P
      PROVE  /\ piece.kind = "fence" /\ piece.skip \in BOOLEAN
             /\ piece.lines \in Seq(Range(piece.lines))
             /\ \A l \in Range(piece.lines) : l \in L
  <2>1. piece.kind = "fence" /\ piece.skip \in BOOLEAN /\ piece.lines \in Seq(L)
    BY DEF Pieces
  <2> DEFINE lines == piece.lines
  <2> HIDE DEF lines
  <2>2. lines \in Seq(Range(lines)) /\ \A l \in Range(lines) : l \in L
    <3>1. lines \in Seq(L)
      BY <2>1 DEF lines
    <3>2. \A i \in 1 .. Len(lines) : lines[i] \in Range(lines)
      BY <3>1 DEF Range
    <3> QED
      BY <3>1, <3>2 DEF Range
  <2> QED
    BY <2>1, <2>2 DEF lines
<1>3. body \in Seq(Range(body))
  <2>1. \A i \in 1 .. Len(body) : body[i] \in Range(body)
    BY DEF Range
  <2> QED
    BY <2>1
<1>4. ASSUME NEW l \in Range(Harvest(body)) PROVE \E x \in L : l = Command(x)
  <2>1. Makes(c, P, Commands(L)) /\ Harvest(body) = Bind(c, body)
    BY HarvestBind
  <2> HIDE DEF c, P
  <2>2. body \in Seq(P)
    BY DEF P
  <2>3. Bind(c, body) \in Seq(Commands(L))
    BY <2>1, <2>2, BindSteps
  <2>4. l \in Commands(L)
    BY <2>1, <2>3 DEF Range
  <2> QED
    BY <2>4 DEF Commands
<1> HIDE DEF P
<1> QED
  BY <1>1, <1>2, <1>3, <1>4 DEF IsBody

(* A section, or a step of it.                                             *)
LEMMA SectionBody ==
  ASSUME NEW g, IsGuide(g), NEW at \in DOMAIN g.steps, NEW body,
         NEW S, S = Range(g.steps[at]), NEW F, body \in Seq(Pieces(F, StepLines(S)))
  PROVE  IsBody(body) /\ RunsOf(g, body) /\ ExportsOf(g, body)
<1> DEFINE L == StepLines(S)
<1>1. \A s \in S : IsStep(s) /\ s \in AllSteps(g)
  BY DEF IsGuide, AllSteps
<1>2. ASSUME NEW l \in L PROVE l[1] = "run" /\ \E s \in AllSteps(g) : l[3] = s.branch
  <2>1. PICK s \in S : l = StepLine(s) \/ l = StepLine(Unfiltered(s))
    BY DEF StepLines
  <2>2. Unfiltered(s).branch = s.branch
    BY <1>1, UnfilteredStep
  <2> QED
    BY <1>1, <2>1, <2>2 DEF StepLine
<1> HIDE DEF L
<1>3. /\ IsBody(body)
      /\ \A piece \in Range(body) : \A l \in Range(piece.lines) : l \in L
      /\ \A l \in Range(Harvest(body)) : \E x \in L : l = Command(x)
  BY FencesAreBody DEF L
<1>4. RunsOf(g, body)
  BY <1>2, <1>3 DEF RunsOf
<1>5. \A l \in Range(Harvest(body)) : l[1] # "export"
  <2>1. \A x : Command(x)[1] = x[1]
    BY DEF Command
  <2> QED
    BY <1>2, <1>3, <2>1
<1> QED
  BY <1>3, <1>4, <1>5 DEF ExportsOf

LEMMA PathBody ==
  ASSUME NEW g, IsGuide(g), NEW path, path.i \in Nat, Resolves(g, path), path.at # "name", NEW inline,
         NEW body, body = RenderPath(g, path, inline)
  PROVE  IsBody(body) /\ RunsOf(g, body) /\ ExportsOf(g, body)
<1> USE DEF Command
<1>1. CASE path.at = "env.static"
  <2> DEFINE L == EnvLines(g)
  <2>1. body = RenderEnv(g, inline)
    BY <1>1 DEF RenderPath
  <2>2. /\ body \in Seq(Pieces({NoFilter}, L))
        /\ \A l \in Range(Harvest(body)) :
             l[1] = "source" \/ \E x \in Range(g.env) : ~x.sensitive /\ l[2] = x.var
    BY <2>1, EnvHarvest
  <2>3. \A l \in L : l[1] # "run"
    <3>1. SourceLine[1] = "source"
      BY DEF SourceLine
    <3>2. \A x \in Range(g.env) : EnvLine(x)[1] = "export"
      BY DEF EnvLine
    <3> QED
      BY <3>1, <3>2 DEF EnvLines
  <2> HIDE DEF L
  <2>4. IsBody(body) /\ \A piece \in Range(body) : \A l \in Range(piece.lines) : l \in L
    BY <2>2, FencesAreBody
  <2>5. RunsOf(g, body)
    BY <2>3, <2>4 DEF RunsOf
  <2> QED
    BY <2>2, <2>4, <2>5 DEF ExportsOf
<1>2. CASE path.at = "env.source"
  <2> DEFINE L == {SourceLine}
             f == Fence(FALSE, <<SourceLine>>)
  <2>1. body = <<f>>
    BY <1>2 DEF RenderPath
  <2>2. f \in Pieces({NoFilter}, L)
    BY DEF Fence, Piece, Pieces
  <2> HIDE DEF f
  <2>3. body \in Seq(Pieces({NoFilter}, L))
    BY <2>1, <2>2
  <2>4. \A l \in L : l[1] = "source"
    <3>1. SourceLine[1] = "source"
      BY DEF SourceLine
    <3> QED
      BY <3>1
  <2> HIDE DEF L
  <2>5. /\ IsBody(body)
        /\ \A piece \in Range(body) : \A l \in Range(piece.lines) : l \in L
        /\ \A l \in Range(Harvest(body)) : \E x \in L : l = Command(x)
    BY <2>3, FencesAreBody
  <2>6. RunsOf(g, body)
    BY <2>4, <2>5 DEF RunsOf
  <2>7. ExportsOf(g, body)
    BY <2>4, <2>5 DEF ExportsOf
  <2> QED
    BY <2>5, <2>6, <2>7
<1>3. CASE path.at = "support"
  <2> DEFINE f == SupportTable(g)
             ss == [i \in DOMAIN body |->
                      IF body[i].skip THEN <<>>
                      ELSE [l \in DOMAIN body[i].lines |-> Command(body[i].lines[l])]]
  <2>1. body = <<f>>
    BY <1>3 DEF RenderPath
  <2>2. f.kind = "table" /\ f.skip = FALSE /\ f.lines = <<>>
    BY DEF SupportTable, Piece
  <2> HIDE DEF f
  <2>3. Range(body) = {f} /\ body \in Seq(Range(body))
    BY <2>1, RangeSmall
  <2>4. <<>> \in Seq(Range(<<>>)) /\ Range(<<>>) = {}
    BY RangeSmall
  <2>5. IsBody(body) /\ RunsOf(g, body)
    BY <2>2, <2>3, <2>4 DEF IsBody, RunsOf
  <2>6. DOMAIN body = 1 .. 1 /\ body[1] = f
    BY <2>1
  <2>7. ss = [i \in 1 .. 1 |-> <<>>]
    <3>1. [l \in DOMAIN f.lines |-> Command(f.lines[l])] = <<>>
      BY <2>2
    <3> QED
      BY <2>2, <2>6, <3>1
  <2>8. ss \in Seq(Seq({})) /\ \A i \in DOMAIN ss : ss[i] = <<>>
    BY <2>7
  <2>9. Harvest(body) = FlattenSeq(ss)
    BY DEF Harvest
  <2> HIDE DEF ss
  <2>10. Range(Harvest(body)) = {}
    BY <2>4, <2>8, <2>9, FlattenRange
  <2> QED
    BY <2>5, <2>10 DEF ExportsOf
<1>4. CASE path.at \notin {"name", "env.static", "env.source", "support"}
  <2> DEFINE at == path.at
             S == Range(g.steps[at])
             steps == g.steps[at]
  <2>1. at \in DOMAIN g.steps /\ path.i <= Len(steps)
    BY <1>4 DEF Resolves
  <2>2. body = IF path.i = 0 THEN RenderSteps(g, steps) ELSE RenderStep(g, steps[path.i])
    BY <1>4 DEF RenderPath
  <2>3. steps \in Seq(S) /\ \A s \in S : IsStep(s)
    BY <2>1 DEF IsGuide
  <2> HIDE DEF S, steps
  <2>4. CASE path.i = 0
    <3>1. body \in Seq(Pieces(Filters(S), StepLines(S)))
      BY <2>2, <2>3, <2>4, StepsHarvest
    <3> QED
      BY <2>1, <3>1, SectionBody DEF S
  <2>5. CASE path.i # 0
    <3> DEFINE s == steps[path.i]
               u == Unfiltered(s)
               T == {s, u}
               L == StepLines(S)
    <3>1. path.i \in 1 .. Len(steps)
      BY <2>1, <2>3, <2>5 DEF steps
    <3>2. s \in S
      BY <2>3, <3>1
    <3> HIDE DEF s
    <3>3. IsStep(s) /\ IsStep(u)
      BY <2>3, <3>2, UnfilteredStep
    <3>4. StepLine(s) \in L /\ StepLine(u) \in L
      BY <3>2 DEF StepLines
    <3> DEFINE b == ~MatchesDefaults(g, s.when)
    <3>5. b \in BOOLEAN
      OBVIOUS
    <3>6. body = IF IsVariant(g, s) THEN PlainFences(<<u>>, b) ELSE PlainFences(<<s>>, FALSE)
      BY <2>2, <2>5 DEF RenderStep, s
    <3>7. <<u>> \in Seq(T) /\ <<s>> \in Seq(T) /\ \A t \in T : IsStep(t) /\ StepLine(t) \in L
      BY <3>3, <3>4
    <3> HIDE DEF u, T, L, b
    <3>8. \A k \in BOOLEAN, q \in Seq(T) : PlainFences(q, k) \in Seq(Pieces({NoFilter}, L))
      BY <3>7, PlainHarvest
    <3>9. body \in Seq(Pieces({NoFilter}, L))
      BY <3>5, <3>6, <3>7, <3>8
    <3> QED
      BY <2>1, <3>9, SectionBody DEF S, L
  <2> QED
    BY <2>4, <2>5
<1> QED
  BY <1>1, <1>2, <1>3, <1>4

-------------------------------------------------------------------------------
(* What the check has found when it is green.                              *)
Current ==
  /\ \A d \in CiTargets : readme[d].there /\ Checked(d) /\ IsCurrent(d)
  /\ ManifestOk(manifest, {d \in Dir : readme[d].there}, Dir)

(* A file that changes makes the check run again, and one that is written  *)
(* as it was does not: the result is about the files as they are.          *)
IInv ==
  /\ yaml = [d \in Dir |-> yaml[d]]
  /\ readme = [d \in Dir |-> readme[d]]
  /\ \A d \in Dir : "support" \notin DOMAIN yaml[d].steps
  /\ gate = "green" => Current

-------------------------------------------------------------------------------
LEMMA InitInv == Init => IInv
<1> SUFFICES ASSUME Init PROVE IInv
  OBVIOUS
<1>1. PICK book \in [Dir -> UNION Range(Books)] :
        /\ \A d \in Dir : book[d] \in Books[d]
        /\ yaml = [d \in Dir |-> book[d].yaml]
        /\ readme = [d \in Dir |-> book[d].readme]
  BY DEF Init
<1>2. ASSUME NEW d \in Dir PROVE "support" \notin DOMAIN yaml[d].steps
  <2>1. yaml[d] \in {b.yaml : b \in Books[d]}
    BY <1>1
  <2> QED
    BY <2>1, GuideBookAssumption DEF GuideBookAssumption, IsGuide
<1>3. gate # "green"
  BY DEF Init
<1> QED
  BY <1>1, <1>2, <1>3 DEF IInv

(* Nothing that set-branch writes adds or takes away a section.            *)
LEMMA SectionsStay ==
  ASSUME NEW g, NEW to, "support" \notin DOMAIN g.steps
  PROVE  "support" \notin DOMAIN SetBranch(g, to).steps
<1> DEFINE h == [g EXCEPT !.env = [i \in DOMAIN g.env |-> PinVar(g.env[i], to)]]
           steps == [section \in DOMAIN g.steps |->
                      [i \in DOMAIN g.steps[section] |-> PinStep(g.steps[section][i], to)]]
<1>1. SetBranch(g, to) = [h EXCEPT !.steps = steps]
  BY DEF SetBranch
<1> QED
  BY <1>1

(* A README written as it was is the same README.                          *)
LEMMA WriteKeepsInv ==
  ASSUME IInv, NEW d, WriteReadme(d),
         UNCHANGED <<yaml, overlays, nightly, manifest>>
  PROVE  IInv'
<1>1. readme' = [e \in Dir |-> readme'[e]]
  BY DEF IInv, WriteReadme
<1>2. CASE d \in Dir /\ Rendered(d) = readme[d]
  <2>1. readme' = readme /\ gate' = gate
    BY <1>2 DEF IInv, WriteReadme
  <2> QED
    BY <2>1 DEF IInv, Current, Checked, IsCurrent, Rendered
<1>3. CASE Rendered(d) # readme[d]
  <2>1. gate' # "green"
    BY <1>3 DEF WriteReadme
  <2> QED
    BY <1>1, <2>1 DEF IInv
<1>4. CASE d \notin Dir
  <2>1. readme' = readme /\ gate' \in {gate, "none"}
    BY <1>4 DEF IInv, WriteReadme
  <2> QED
    BY <2>1 DEF IInv, Current, Checked, IsCurrent, Rendered
<1> QED
  BY <1>2, <1>3, <1>4

(* What the check is about does not change.                                *)
LEMMA FilesStay ==
  ASSUME IInv, UNCHANGED files, gate' = gate
  PROVE  IInv'
BY DEF IInv, Current, Checked, IsCurrent, Rendered, files

LEMMA StepInv == IInv /\ [Next]_vars => IInv'
<1> SUFFICES ASSUME IInv, [Next]_vars PROVE IInv'
  OBVIOUS
<1> USE DEF Edited, Start, Finish, Kill, Abort, Exit, Keep, NextTarget, Move
<1>1. ASSUME NEW d \in Dir, EditYaml(d) PROVE IInv'
  <2>1. PICK g \in Redrafts[d] : yaml' = [yaml EXCEPT ![d] = g]
    BY <1>1 DEF EditYaml
  <2>2. "support" \notin DOMAIN g.steps
    BY GuideBookAssumption DEF GuideBookAssumption, IsGuide
  <2>3. gate' # "green" /\ readme' = readme
    BY <1>1 DEF EditYaml
  <2> QED
    BY <2>1, <2>2, <2>3 DEF IInv
<1>2. ASSUME NEW d \in Dir, EditReadme(d) PROVE IInv'
  <2>1. PICK md : readme' = [readme EXCEPT ![d] = md]
    BY <1>2 DEF EditReadme
  <2>2. gate' # "green" /\ yaml' = yaml
    BY <1>2 DEF EditReadme
  <2> QED
    BY <2>1, <2>2 DEF IInv
<1>3. ASSUME NEW d \in Dir, EditNightly(d) PROVE IInv'
  BY <1>3 DEF EditNightly, IInv
<1>4. CASE EditManifest
  BY <1>4 DEF EditManifest, IInv
<1>5. ASSUME NEW cmd, NEW to, NEW validate, Start(cmd, to, validate) PROVE IInv'
  BY <1>5, FilesStay
<1>6. CASE RenderNext
  BY <1>6, WriteKeepsInv, FilesStay DEF RenderNext, files
<1>7. CASE PinNext
  <2> DEFINE d == Head(cli.todo)
             g == SetBranch(yaml[d], cli.to)
  <2> HIDE DEF g
  <2>1. /\ yaml' = [yaml EXCEPT ![d] = g]
        /\ gate' = IF g = yaml[d] THEN gate ELSE "none"
        /\ UNCHANGED <<readme, overlays, nightly, manifest>>
    BY <1>7 DEF PinNext, g
  <2>2. CASE d \in Dir /\ g # yaml[d]
    <3>1. "support" \notin DOMAIN g.steps
      BY <2>2, SectionsStay DEF IInv, g
    <3>2. gate' # "green"
      BY <2>1, <2>2
    <3> QED
      BY <2>1, <3>1, <3>2 DEF IInv
  <2>3. CASE d \notin Dir \/ g = yaml[d]
    <3>1. yaml' = yaml /\ gate' \in {gate, "none"}
      BY <2>1, <2>3 DEF IInv
    <3> QED
      BY <2>1, <3>1 DEF IInv, Current, Checked, IsCurrent, Rendered
  <2> QED
    BY <2>2, <2>3
<1>8. CASE RerenderNext
  BY <1>8, WriteKeepsInv, FilesStay DEF RerenderNext, files
<1>9. CASE Finish \/ Kill
  BY <1>9, FilesStay
<1>10. CASE Gate
  BY <1>10 DEF Gate, files, IInv, Current, Checked, IsCurrent, Rendered
<1>11. CASE UNCHANGED vars
  BY <1>11, FilesStay DEF vars
<1> QED
  BY <1>1, <1>2, <1>3, <1>4, <1>5, <1>6, <1>7, <1>8, <1>9, <1>10, <1>11 DEF Next

(* THE INVARIANT.  A green check is about the files as they are.           *)
THEOREM Invariant == Spec => []IInv
BY InitInv, StepInv, PTL DEF Spec

-------------------------------------------------------------------------------
(* A support table that render would write again as it is holds a cell for *)
(* every pairing of the matrix, with what the matrix says of it.           *)
LEMMA TableIsTheMatrix ==
  ASSUME NEW g, NEW md, RenderMd(g, md) = md,
         NEW r \in Range(md.regions), r.path.at = "support"
  PROVE  r.body = <<SupportTable(g)>>
<1> DEFINE inline == \A s \in Range(md.regions) : s.path.at # "env.source"
           Filled(s) == [path |-> s.path, end |-> s.end, body |-> RenderPath(g, s.path, inline)]
<1>1. PICK i \in DOMAIN md.regions : r = md.regions[i]
  BY DEF Range
<1>2. md.regions[i] = Filled(md.regions[i])
  <2> HIDE DEF Filled
  <2>1. md = [there |-> md.there, regions |-> [j \in DOMAIN md.regions |-> Filled(md.regions[j])]]
    BY DEF RenderMd, Filled
  <2>2. md.regions = [j \in DOMAIN md.regions |-> Filled(md.regions[j])]
    BY <2>1
  <2> QED
    BY <2>2
<1>3. r.body = RenderPath(g, r.path, inline)
  <2> HIDE DEF inline
  <2>1. r = [path |-> r.path, end |-> r.end, body |-> RenderPath(g, r.path, inline)]
    BY <1>1, <1>2
  <2> QED
    BY <2>1
<1> QED
  BY <1>3 DEF RenderPath

(* Its validated cells are the validated pairs of a matrix that is valid.  *)
LEMMA ValidatedCells ==
  ASSUME NEW g, CheckSupport(g)
  PROVE  {<<c[1], c[2]>> : c \in {c \in SupportTable(g).cells : c[3] = "validated"}} = Validated(g)
<1> DEFINE accels == DeclaredValues(g, ACCEL)
           engines == DeclaredValues(g, ENGINE)
           cells == {<<a, e, Cell(g, a, e)>> : a \in accels, e \in engines}
<1> HIDE DEF accels, engines
<1>1. SupportTable(g).cells = cells
  BY DEF SupportTable, Piece, accels, engines
<1>2. DOMAIN g.support.cell \subseteq accels \X engines
  BY DEF CheckSupport, accels, engines
<1>3. ASSUME NEW c \in cells, c[3] = "validated" PROVE <<c[1], c[2]>> \in Validated(g)
  <2>1. PICK a \in accels, e \in engines : c = <<a, e, Cell(g, a, e)>>
    OBVIOUS
  <2>2. Cell(g, a, e) = "validated" /\ <<c[1], c[2]>> = <<a, e>>
    BY <1>3, <2>1
  <2> QED
    BY <2>2 DEF Cell, Validated
<1>4. ASSUME NEW pair \in Validated(g)
      PROVE  \E c \in cells : c[3] = "validated" /\ pair = <<c[1], c[2]>>
  <2>1. PICK a \in accels, e \in engines : pair = <<a, e>>
    BY <1>2 DEF Validated
  <2>2. Cell(g, a, e) = "validated"
    BY <2>1 DEF Cell, Validated
  <2> DEFINE c == <<a, e, Cell(g, a, e)>>
  <2>3. c \in cells
    OBVIOUS
  <2>4. c[1] = a /\ c[2] = e /\ c[3] = "validated"
    BY <2>2
  <2> HIDE DEF c, cells
  <2> QED
    BY <2>1, <2>3, <2>4
<1> HIDE DEF cells
<1> QED
  BY <1>1, <1>3, <1>4

(* PUBLISHED TRUTH.  When the CI Guides Check is green, llm-d.ai publishes *)
(* no two pages in one place, and the support tables of the guides that    *)
(* the check names call validated exactly the pairings whose workflows run *)
(* every night.                                                            *)
THEOREM GreenMeansTrue == Spec => []PublishedTruth
<1>1. ASSUME IInv PROVE PublishedTruth
  <2> SUFFICES ASSUME gate = "green" PROVE PublishedTruth
    BY DEF PublishedTruth
  <2>1. Current
    BY <1>1 DEF IInv
  <2>2. \A i, j \in DOMAIN manifest : manifest[i].slug = manifest[j].slug => i = j
    BY <2>1 DEF Current, ManifestOk
  <2>3. ASSUME NEW d \in CiTargets, NEW r \in Range(readme[d].regions), r.path.at = "support"
        PROVE  {<<c[1], c[2]>> : c \in {c \in r.body[1].cells : c[3] = "validated"}} = nightly[d]
    <3> DEFINE g == yaml[d]
    <3>1. /\ Check(g, readme[d], overlays[d], nightly[d])
          /\ Renders(g, readme[d])
          /\ RenderMd(g, readme[d]) = readme[d]
      BY <2>1 DEF Current, Checked, IsCurrent, Rendered
    <3>2. "support" \notin DOMAIN g.steps
      BY <1>1, GuideBookAssumption DEF IInv, GuideBookAssumption
    <3>3. g.support.on
      BY <2>3, <3>1, <3>2 DEF Renders, Resolves
    <3>4. CheckSupport(g) /\ nightly[d] = Validated(g)
      BY <3>1, <3>3 DEF Check, CheckYaml, CheckSupportRepo, NightliesAgree
    <3>5. r.body[1] = SupportTable(g)
      BY <2>3, <3>1, TableIsTheMatrix
    <3> QED
      BY <3>4, <3>5, ValidatedCells
  <2> QED
    BY <2>2, <2>3 DEF PublishedTruth
<1> QED
  BY <1>1, Invariant, PTL

-------------------------------------------------------------------------------
(* What a command does for one target.                                     *)
Fulfilled(g, md, cmd, to) ==
  /\ cmd = "render" \/ md.there => md.there /\ Renders(g, md) /\ RenderMd(g, md) = md
  /\ cmd = "set-branch" => ParseOk(g) /\ CheckYaml(g) /\ Pinned(g, to)

(* It has been done for the targets behind the command, unless one failed. *)
PInv ==
  /\ cli.todo \in Seq(Dir) /\ IsInjective(cli.todo)
  /\ cli.failed \in Nat
  /\ ~IsIdle => last.cmd = "none"
  /\ cli.cmd = "set-branch" /\ cli.pinned =>
       cli.todo # <<>> /\ Pinned(yaml[Head(cli.todo)], cli.to)
  /\ ~IsIdle /\ cli.failed = 0 =>
       \A d \in Dir \ Range(cli.todo) : Fulfilled(yaml[d], readme[d], cli.cmd, cli.to)
  /\ last.cmd # "none" /\ last.code = 0 =>
       \A d \in Dir : Fulfilled(yaml[d], readme[d], last.cmd, last.to)

(* render is idempotent: to render what has just been rendered changes     *)
(* nothing, and raises no error if the first time did not.                 *)
THEOREM RenderTwice ==
  ASSUME NEW g, NEW md
  PROVE  /\ RenderMd(g, md).there = md.there
         /\ RenderMd(g, RenderMd(g, md)) = RenderMd(g, md)
         /\ Renders(g, md) => Renders(g, RenderMd(g, md))
<1> DEFINE Inline(page) == \A r \in Range(page.regions) : r.path.at # "env.source"
           Filled(r) == [path |-> r.path, end |-> r.end, body |-> RenderPath(g, r.path, Inline(md))]
           out == RenderMd(g, md)
<1>1. out = [there |-> md.there, regions |-> [i \in DOMAIN md.regions |-> Filled(md.regions[i])]]
  BY DEF RenderMd
<1> HIDE DEF out
<1>2. /\ out.there = md.there
      /\ DOMAIN out.regions = DOMAIN md.regions
      /\ \A i \in DOMAIN md.regions : out.regions[i] = Filled(md.regions[i])
  BY <1>1
<1>3. \A i \in DOMAIN md.regions : /\ out.regions[i].path = md.regions[i].path
                                   /\ out.regions[i].end = md.regions[i].end
  <2> SUFFICES ASSUME NEW i \in DOMAIN md.regions
               PROVE  /\ out.regions[i].path = md.regions[i].path
                      /\ out.regions[i].end = md.regions[i].end
    OBVIOUS
  <2> HIDE DEF Inline
  <2>1. out.regions[i] = [path |-> md.regions[i].path, end |-> md.regions[i].end,
                          body |-> RenderPath(g, md.regions[i].path, Inline(md))]
    BY <1>2
  <2> QED
    BY <2>1
<1> HIDE DEF Filled
<1>4. Inline(out) <=> Inline(md)
  BY <1>2, <1>3 DEF Range
<1>5. RenderMd(g, out) = out
  <2>1. RenderMd(g, out) =
          [there |-> out.there, regions |-> [i \in DOMAIN out.regions |->
             [path |-> out.regions[i].path, end |-> out.regions[i].end,
              body |-> RenderPath(g, out.regions[i].path, Inline(out))]]]
    BY DEF RenderMd
  <2>2. \A i \in DOMAIN md.regions :
          [path |-> out.regions[i].path, end |-> out.regions[i].end,
           body |-> RenderPath(g, out.regions[i].path, Inline(out))] = Filled(md.regions[i])
    BY <1>3, <1>4 DEF Filled
  <2> QED
    BY <1>1, <1>2, <2>1, <2>2
<1>6. Renders(g, md) => Renders(g, out)
  BY <1>2, <1>3 DEF Renders, MarkersOk, Range
<1> QED
  BY <1>2, <1>5, <1>6 DEF out

(* What set-branch writes is pinned.                                       *)
LEMMA SetBranchPins ==
  ASSUME NEW g, NEW to
  PROVE  Pinned(SetBranch(g, to), to)
<1> DEFINE h == SetBranch(g, to)
<1>1. /\ h.env = [i \in DOMAIN g.env |-> PinVar(g.env[i], to)]
      /\ h.steps = [section \in DOMAIN g.steps |->
                     [i \in DOMAIN g.steps[section] |-> PinStep(g.steps[section][i], to)]]
  BY DEF SetBranch
<1> HIDE DEF h
<1>2. ASSUME NEW x \in Range(h.env), x.var = "BRANCH", x.form = "text" PROVE x.default = to
  <2>1. PICK i \in DOMAIN g.env : x = PinVar(g.env[i], to)
    BY <1>1 DEF Range
  <2> QED
    BY <1>2, <2>1 DEF PinVar
<1>3. ASSUME NEW s \in AllSteps(h) PROVE s.branch \in {"", to}
  <2>1. PICK section \in DOMAIN g.steps : \E i \in DOMAIN g.steps[section] :
          s = PinStep(g.steps[section][i], to)
    BY <1>1 DEF AllSteps, Range
  <2>2. PICK t : s = PinStep(t, to)
    BY <2>1
  <2>3. CASE t.branch = ""
    BY <2>2, <2>3 DEF PinStep
  <2>4. CASE t.branch # ""
    <3>1. s = [t EXCEPT !.branch = to]
      BY <2>2, <2>4 DEF PinStep
    <3> QED
      BY <3>1
  <2> QED
    BY <2>3, <2>4
<1> QED
  BY <1>2, <1>3 DEF Pinned, h

LEMMA InitPromise == Init => PInv
<1> SUFFICES ASSUME Init PROVE PInv
  OBVIOUS
<1>1. cli = NoCommand /\ last = NotRun
  BY DEF Init
<1>2. IsInjective(<<>>)
  BY DEF IsInjective
<1>3. cli.cmd = "none" /\ cli.todo = <<>> /\ cli.failed = 0 /\ last.cmd = "none"
  BY <1>1 DEF NoCommand, NotRun
<1>4. <<>> \in Seq(Dir)
  OBVIOUS
<1> QED
  BY <1>2, <1>3, <1>4 DEF PInv, IsIdle

(* A target that is behind a command, and the ones that are left.          *)
LEMMA Behind ==
  ASSUME NEW todo \in Seq(Dir), todo # <<>>, IsInjective(todo)
  PROVE  /\ Head(todo) \in Dir
         /\ Tail(todo) \in Seq(Dir)
         /\ IsInjective(Tail(todo))
         /\ Head(todo) \notin Range(Tail(todo))
         /\ Dir \ Range(Tail(todo)) = (Dir \ Range(todo)) \cup {Head(todo)}
<1>1. Len(todo) \in Nat /\ Len(todo) > 0 /\ DOMAIN todo = 1 .. Len(todo)
  OBVIOUS
<1>2. /\ Tail(todo) \in Seq(Dir)
      /\ DOMAIN Tail(todo) = 1 .. Len(todo) - 1
      /\ \A i \in 1 .. Len(todo) - 1 : Tail(todo)[i] = todo[i + 1]
  BY <1>1
<1>3. Head(todo) = todo[1] /\ todo[1] \in Dir
  BY <1>1
<1>4. \A i, j \in 1 .. Len(todo) : todo[i] = todo[j] => i = j
  BY <1>1 DEF IsInjective
<1>5. IsInjective(Tail(todo))
  BY <1>1, <1>2, <1>4 DEF IsInjective
<1>6. Head(todo) \notin Range(Tail(todo))
  BY <1>1, <1>2, <1>3, <1>4 DEF Range
<1>7. Range(todo) = Range(Tail(todo)) \cup {Head(todo)}
  <2>1. ASSUME NEW x \in Range(todo) PROVE x \in Range(Tail(todo)) \cup {Head(todo)}
    <3>1. PICK i \in 1 .. Len(todo) : x = todo[i]
      BY <1>1 DEF Range
    <3>2. CASE i = 1
      BY <3>1, <3>2, <1>3
    <3>3. CASE i # 1
      <4>1. i - 1 \in 1 .. Len(todo) - 1 /\ (i - 1) + 1 = i
        BY <1>1, <3>1, <3>3
      <4>2. x = Tail(todo)[i - 1]
        BY <1>2, <3>1, <4>1
      <4> QED
        BY <1>2, <4>1, <4>2 DEF Range
    <3> QED
      BY <3>2, <3>3
  <2>2. ASSUME NEW x \in Range(Tail(todo)) PROVE x \in Range(todo)
    <3>1. PICK i \in 1 .. Len(todo) - 1 : x = Tail(todo)[i]
      BY <1>2 DEF Range
    <3>2. i + 1 \in 1 .. Len(todo)
      BY <1>1, <3>1
    <3> QED
      BY <1>1, <1>2, <3>1, <3>2 DEF Range
  <2>3. Head(todo) \in Range(todo)
    BY <1>1, <1>3 DEF Range
  <2> QED
    BY <2>1, <2>2, <2>3
<1> QED
  BY <1>2, <1>3, <1>5, <1>6, <1>7

(* One target done, or failed.                                             *)
LEMMA TargetDone ==
  ASSUME PInv, ~IsIdle, cli.todo # <<>>, NEW failures \in {0, 1}, NextTarget(failures),
         \A e \in Dir \ {Head(cli.todo)} : yaml'[e] = yaml[e] /\ readme'[e] = readme[e],
         failures = 0 => Fulfilled(yaml'[Head(cli.todo)], readme'[Head(cli.todo)], cli.cmd, cli.to)
  PROVE  PInv'
<1> DEFINE d == Head(cli.todo)
<1>1. /\ cli'.cmd = cli.cmd /\ cli'.to = cli.to
      /\ cli'.todo = Tail(cli.todo)
      /\ cli'.failed = cli.failed + failures
      /\ cli'.pinned = FALSE
      /\ last' = last
  BY DEF NextTarget
<1>2. /\ cli'.todo \in Seq(Dir) /\ IsInjective(cli'.todo)
      /\ Dir \ Range(cli'.todo) = (Dir \ Range(cli.todo)) \cup {d}
      /\ d \in Dir
  BY <1>1, Behind DEF PInv
<1>3. cli.failed \in Nat /\ last.cmd = "none" /\ cli'.failed \in Nat
  BY <1>1 DEF PInv
<1>4. cli'.failed = 0 => cli.failed = 0 /\ failures = 0
  BY <1>1, <1>3
<1>5. ASSUME cli'.failed = 0, NEW e \in Dir \ Range(cli'.todo)
      PROVE  Fulfilled(yaml'[e], readme'[e], cli'.cmd, cli'.to)
  <2>1. CASE e = d
    BY <1>1, <1>4, <1>5, <2>1
  <2>2. CASE e # d
    <3>1. Fulfilled(yaml[e], readme[e], cli.cmd, cli.to)
      BY <1>2, <1>4, <1>5, <2>2 DEF PInv
    <3> QED
      BY <1>1, <1>2, <2>2, <3>1
  <2> QED
    BY <2>1, <2>2
<1> QED
  BY <1>1, <1>2, <1>3, <1>5 DEF PInv, IsIdle

(* A command that ends.                                                    *)
LEMMA CommandEnds ==
  ASSUME PInv, ~IsIdle, NEW code, Exit(code), UNCHANGED <<yaml, readme>>,
         code = 0 => cli.failed = 0 /\ cli.todo = <<>>
  PROVE  PInv'
<1>1. /\ last'.cmd = cli.cmd /\ last'.to = cli.to /\ last'.code = code
      /\ cli'.cmd = "none" /\ cli'.todo = <<>> /\ cli'.failed = 0
  BY DEF Exit, NoCommand
<1>2. <<>> \in Seq(Dir) /\ IsInjective(<<>>) /\ Range(<<>>) = {}
  BY DEF IsInjective, Range
<1>3. ASSUME code = 0, NEW d \in Dir PROVE Fulfilled(yaml[d], readme[d], cli.cmd, cli.to)
  BY <1>2, <1>3 DEF PInv
<1> QED
  BY <1>1, <1>2, <1>3 DEF PInv, IsIdle

(* What set-branch rewrote passes its checks, or what render wrote.        *)
LEMMA WriteFulfils ==
  ASSUME IInv, NEW d \in Dir, WriteReadme(d), yaml' = yaml, readme[d].there, Renders(yaml[d], readme[d]),
         cli.cmd = "set-branch" => ParseOk(yaml[d]) /\ CheckYaml(yaml[d]) /\ Pinned(yaml[d], cli.to)
  PROVE  /\ Fulfilled(yaml'[d], readme'[d], cli.cmd, cli.to)
         /\ \A e \in Dir \ {d} : yaml'[e] = yaml[e] /\ readme'[e] = readme[e]
<1>1. readme'[d] = RenderMd(yaml[d], readme[d])
  BY DEF IInv, WriteReadme, Rendered
<1>2. \A e \in Dir \ {d} : readme'[e] = readme[e]
  BY DEF IInv, WriteReadme
<1> QED
  BY <1>1, <1>2, RenderTwice DEF Fulfilled

LEMMA StepPromise == IInv /\ PInv /\ [Next]_vars => PInv'
<1> SUFFICES ASSUME IInv, PInv, [Next]_vars PROVE PInv'
  OBVIOUS
<1>1. ASSUME IsIdle, last'.cmd = "none", UNCHANGED cli PROVE PInv'
  BY <1>1 DEF PInv, IsIdle
<1>2. ASSUME UNCHANGED <<yaml, readme, cli, last>> PROVE PInv'
  BY <1>2 DEF PInv, IsIdle
<1>3. ASSUME NEW d \in Dir, EditYaml(d) \/ EditReadme(d) \/ EditNightly(d) PROVE PInv'
  <2>1. IsIdle /\ Edited
    BY <1>3 DEF EditYaml, EditReadme, EditNightly, Move
  <2> QED
    BY <1>1, <2>1 DEF Edited, NotRun
<1>4. CASE EditManifest
  BY <1>1, <1>4 DEF EditManifest, Edited, Move, NotRun
<1>5. ASSUME NEW cmd, NEW to, NEW validate, Start(cmd, to, validate) PROVE PInv'
  <2>1. /\ cli'.cmd = cmd /\ cli'.todo = Targets /\ cli'.failed = 0 /\ cli'.pinned = FALSE
        /\ last'.cmd = "none"
    BY <1>5 DEF Start, NotRun
  <2>2. Targets \in Seq(Dir) /\ IsInjective(Targets) /\ Dir \ Range(Targets) = {}
    BY GuideBookAssumption DEF GuideBookAssumption, Dir
  <2> QED
    BY <2>1, <2>2 DEF PInv
<1>6. CASE RenderNext
  <2> DEFINE d == Head(cli.todo)
  <2>1. cli.cmd = "render" /\ cli.todo # <<>> /\ yaml' = yaml /\ ~IsIdle
    BY <1>6 DEF RenderNext, IsIdle
  <2>2. d \in Dir
    BY <2>1, Behind DEF PInv
  <2>3. CASE NextTarget(1) /\ Keep
    BY <2>1, <2>3, TargetDone DEF Keep
  <2>4. CASE Abort /\ Keep
    BY <2>1, <2>4, CommandEnds DEF Keep, Abort
  <2>5. CASE readme[d].there /\ Renders(yaml[d], readme[d]) /\ WriteReadme(d) /\ NextTarget(0)
    BY <2>1, <2>2, <2>5, WriteFulfils, TargetDone
  <2> QED
    BY <1>6, <2>3, <2>4, <2>5 DEF RenderNext
<1>7. CASE PinNext
  <2> DEFINE d == Head(cli.todo)
             g == SetBranch(yaml[d], cli.to)
  <2> HIDE DEF g
  <2>1. /\ cli.cmd = "set-branch" /\ cli.todo # <<>>
        /\ yaml' = [yaml EXCEPT ![d] = g]
        /\ cli' = [cli EXCEPT !.pinned = TRUE]
        /\ readme' = readme /\ last' = last
    BY <1>7 DEF PinNext, g
  <2>2. d \in Dir /\ d \in Range(cli.todo)
    BY <2>1, Behind DEF PInv, Range
  <2>3. Pinned(yaml'[d], cli.to)
    BY <2>1, <2>2, SetBranchPins DEF IInv, g
  <2>4. /\ cli'.cmd = cli.cmd /\ cli'.to = cli.to /\ cli'.todo = cli.todo /\ cli'.failed = cli.failed
        /\ last.cmd = "none"
    BY <2>1 DEF PInv, IsIdle
  <2>5. \A e \in Dir \ Range(cli.todo) : yaml'[e] = yaml[e]
    BY <2>1, <2>2 DEF IInv
  <2> QED
    BY <2>1, <2>3, <2>4, <2>5 DEF PInv, IsIdle
<1>8. CASE RerenderNext
  <2> DEFINE d == Head(cli.todo)
  <2>1. cli.cmd = "set-branch" /\ cli.pinned /\ yaml' = yaml /\ ~IsIdle
    BY <1>8 DEF RerenderNext, IsIdle
  <2>2. cli.todo # <<>> /\ Pinned(yaml[d], cli.to)
    BY <2>1 DEF PInv
  <2>3. d \in Dir
    BY <2>2, Behind DEF PInv
  <2>4. Checked(d) => ParseOk(yaml[d]) /\ CheckYaml(yaml[d])
    BY DEF Checked, Check
  <2>5. CASE NextTarget(1) /\ Keep
    BY <2>1, <2>2, <2>5, TargetDone DEF Keep
  <2>6. CASE Checked(d) /\ ~readme[d].there /\ NextTarget(0) /\ Keep
    <3>1. Fulfilled(yaml[d], readme[d], cli.cmd, cli.to)
      BY <2>1, <2>2, <2>4, <2>6 DEF Fulfilled
    <3> QED
      BY <2>1, <2>2, <2>6, <3>1, TargetDone DEF Keep
  <2>7. CASE Abort /\ Keep
    BY <2>1, <2>7, CommandEnds DEF Keep, Abort
  <2>8. CASE /\ Checked(d) /\ readme[d].there /\ Renders(yaml[d], readme[d])
             /\ WriteReadme(d) /\ NextTarget(0)
    BY <2>1, <2>2, <2>3, <2>4, <2>8, WriteFulfils, TargetDone
  <2> QED
    BY <1>8, <2>5, <2>6, <2>7, <2>8 DEF RerenderNext
<1>9. CASE Finish
  <2>1. cli.failed \in Nat
    BY DEF PInv
  <2> QED
    BY <1>9, <2>1, CommandEnds DEF Finish, files
<1>10. CASE Kill
  BY <1>10, CommandEnds DEF Kill, files
<1>11. CASE Gate \/ UNCHANGED vars
  BY <1>2, <1>11 DEF Gate, files, vars
<1> QED
  BY <1>3, <1>4, <1>5, <1>6, <1>7, <1>8, <1>9, <1>10, <1>11 DEF Next

-------------------------------------------------------------------------------
(* The files stay what their parsers make of them.                         *)
LEMMA SuffixTail ==
  ASSUME NEW X, NEW t \in Seq(X)
  PROVE  /\ IsSuffix(t, t) /\ IsSuffix(<<>>, t)
         /\ \A s \in Seq(X) : s # <<>> /\ IsSuffix(s, t) => IsSuffix(Tail(s), t) /\ Len(s) <= Len(t)
<1> DEFINE At(s, i) == s[(Len(s) - i) + 1]
<1>1. ASSUME NEW s \in Seq(X)
      PROVE  IsSuffix(s, t) <=> Len(s) <= Len(t) /\ \A i \in 1 .. Len(s) : At(s, i) = At(t, i)
  <2> DEFINE rs == Reverse(s)
             rt == Reverse(t)
  <2>1. /\ Len(s) \in Nat /\ Len(t) \in Nat
        /\ \A i \in 1 .. Len(s) : (Len(s) - i) + 1 \in 1 .. Len(s)
        /\ \A i \in 1 .. Len(t) : (Len(t) - i) + 1 \in 1 .. Len(t)
    OBVIOUS
  <2>2. /\ rs \in Seq(X) /\ Len(rs) = Len(s) /\ \A i \in 1 .. Len(s) : rs[i] = At(s, i)
        /\ rt \in Seq(X) /\ Len(rt) = Len(t) /\ \A i \in 1 .. Len(t) : rt[i] = At(t, i)
    BY <2>1 DEF Reverse
  <2> HIDE DEF rs, rt
  <2>3. IsSuffix(s, t) <=> Len(s) <= Len(t) /\ SubSeq(rs, 1, Len(s)) = SubSeq(rt, 1, Len(s))
    BY <2>2 DEF IsSuffix, IsPrefix, rs, rt
  <2>4. SubSeq(rs, 1, Len(s)) = rs
    BY <2>1, <2>2
  <2>5. ASSUME Len(s) <= Len(t)
        PROVE  /\ SubSeq(rt, 1, Len(s)) \in Seq(X) /\ Len(SubSeq(rt, 1, Len(s))) = Len(s)
               /\ \A i \in 1 .. Len(s) : SubSeq(rt, 1, Len(s))[i] = rt[i]
    BY <2>1, <2>2, <2>5
  <2>6. ASSUME Len(s) <= Len(t)
        PROVE  SubSeq(rt, 1, Len(s)) = rs <=> \A i \in 1 .. Len(s) : rs[i] = rt[i]
    <3> DEFINE q == SubSeq(rt, 1, Len(s))
    <3>1. q \in Seq(X) /\ Len(q) = Len(s) /\ \A i \in 1 .. Len(s) : q[i] = rt[i]
      BY <2>5, <2>6
    <3> HIDE DEF q, At
    <3>2. rs \in Seq(X) /\ Len(rs) = Len(s)
      BY <2>2
    <3>3. ASSUME \A i \in 1 .. Len(s) : q[i] = rs[i] PROVE q = rs
      BY <2>1, <3>1, <3>2, <3>3
    <3>4. (\A i \in 1 .. Len(s) : q[i] = rs[i]) <=> \A i \in 1 .. Len(s) : rs[i] = rt[i]
      BY <3>1
    <3> QED
      BY <3>3, <3>4 DEF q
  <2>7. Len(s) <= Len(t) => \A i \in 1 .. Len(s) : i \in 1 .. Len(t)
    BY <2>1
  <2> HIDE DEF At
  <2>8. Len(s) <= Len(t) => ((\A i \in 1 .. Len(s) : rs[i] = rt[i])
                               <=> \A i \in 1 .. Len(s) : At(s, i) = At(t, i))
    BY <2>2, <2>7
  <2> QED
    BY <2>3, <2>4, <2>6, <2>8
<1>2. IsSuffix(t, t)
  BY <1>1
<1>3. IsSuffix(<<>>, t)
  <2>1. <<>> \in Seq(X) /\ Len(<<>>) = 0 /\ 0 <= Len(t)
    OBVIOUS
  <2>2. \A i \in 1 .. Len(<<>>) : At(<<>>, i) = At(t, i)
    BY <2>1
  <2> HIDE DEF At
  <2> QED
    BY <1>1, <2>1, <2>2
<1>4. ASSUME NEW s \in Seq(X), s # <<>>, IsSuffix(s, t) PROVE IsSuffix(Tail(s), t) /\ Len(s) <= Len(t)
  <2>1. /\ Len(s) \in Nat /\ Len(t) \in Nat /\ Tail(s) \in Seq(X) /\ Len(Tail(s)) = Len(s) - 1 /\ Len(s) # 0
        /\ \A i \in 1 .. Len(s) - 1 : Tail(s)[i] = s[i + 1]
    BY <1>4
  <2>2. Len(s) <= Len(t) /\ \A i \in 1 .. Len(s) : At(s, i) = At(t, i)
    BY <1>1, <1>4
  <2>3. \A i \in 1 .. Len(s) - 1 : At(Tail(s), i) = At(s, i)
    <3> SUFFICES ASSUME NEW i \in 1 .. Len(s) - 1 PROVE At(Tail(s), i) = At(s, i)
      OBVIOUS
    <3>1. ((Len(s) - 1) - i) + 1 \in 1 .. Len(s) - 1
      BY <2>1
    <3>2. (((Len(s) - 1) - i) + 1) + 1 = (Len(s) - i) + 1
      BY <2>1
    <3> QED
      BY <2>1, <3>1, <3>2
  <2> HIDE DEF At
  <2>4. Len(Tail(s)) <= Len(t) /\ \A i \in 1 .. Len(Tail(s)) : At(Tail(s), i) = At(t, i)
    <3>1. Len(s) - 1 <= Len(t) /\ \A i \in 1 .. Len(s) - 1 : i \in 1 .. Len(s)
      BY <2>1, <2>2
    <3> QED
      BY <2>1, <2>2, <2>3, <3>1
  <2> QED
    BY <1>1, <2>1, <2>2, <2>4
<1> QED
  BY <1>2, <1>3, <1>4

(* A page that is rendered.                                                *)
LEMMA RenderedPage ==
  ASSUME NEW g, IsGuide(g), NEW md, IsReadme(md), Renders(g, md)
  PROVE  /\ IsReadme(RenderMd(g, md))
         /\ \A r \in Range(RenderMd(g, md).regions) : RunsOf(g, r.body) /\ ExportsOf(g, r.body)
<1> DEFINE inline == \A r \in Range(md.regions) : r.path.at # "env.source"
           Filled(r) == [path |-> r.path, end |-> r.end, body |-> RenderPath(g, r.path, inline)]
           regions == [i \in DOMAIN md.regions |-> Filled(md.regions[i])]
<1>1. RenderMd(g, md) = [there |-> md.there, regions |-> regions]
  BY DEF RenderMd
<1>2. /\ md.there \in BOOLEAN /\ md.regions \in Seq(Range(md.regions))
      /\ ~md.there => md.regions = <<>>
  BY DEF IsReadme
<1> HIDE DEF inline, Filled
<1>3. ASSUME NEW i \in DOMAIN md.regions
      PROVE  LET r == Filled(md.regions[i]) IN
             /\ DOMAIN r = {"path", "end", "body"} /\ r.path.i \in Nat
             /\ IsBody(r.body) /\ RunsOf(g, r.body) /\ ExportsOf(g, r.body)
  <2> DEFINE s == md.regions[i]
             body == RenderPath(g, s.path, inline)
  <2>1. s \in Range(md.regions)
    BY DEF Range
  <2>2. Resolves(g, s.path) /\ s.path.at # "name" /\ s.path.i \in Nat
    BY <2>1 DEF Renders, IsReadme
  <2> HIDE DEF body, s
  <2>3. IsBody(body) /\ RunsOf(g, body) /\ ExportsOf(g, body)
    BY <2>2, PathBody DEF body
  <2>4. Filled(s) = [path |-> s.path, end |-> s.end, body |-> body]
    BY DEF Filled, body
  <2>5. DOMAIN Filled(s) = {"path", "end", "body"} /\ Filled(s).path = s.path /\ Filled(s).body = body
    BY <2>4
  <2> QED
    BY <2>2, <2>3, <2>5 DEF s
<1>4. regions \in Seq(Range(regions)) /\ DOMAIN regions = DOMAIN md.regions
  <2>1. DOMAIN md.regions = 1 .. Len(md.regions) /\ Len(md.regions) \in Nat
    BY <1>2
  <2>2. \A i \in 1 .. Len(md.regions) : regions[i] \in Range(regions)
    BY <2>1 DEF Range
  <2>3. regions = [i \in DOMAIN md.regions |-> regions[i]]
    OBVIOUS
  <2> HIDE DEF regions
  <2> QED
    BY <2>1, <2>2, <2>3
<1>5. \A r \in Range(regions) : /\ DOMAIN r = {"path", "end", "body"} /\ r.path.i \in Nat
                                /\ IsBody(r.body) /\ RunsOf(g, r.body) /\ ExportsOf(g, r.body)
  BY <1>3 DEF Range
<1>6. ~md.there => regions = <<>>
  BY <1>2
<1> HIDE DEF regions
<1> DEFINE out == RenderMd(g, md)
<1>7. DOMAIN out = {"there", "regions"} /\ out.there = md.there /\ out.regions = regions
  BY <1>1
<1> HIDE DEF out
<1>8. IsReadme(out)
  BY <1>2, <1>4, <1>5, <1>6, <1>7 DEF IsReadme, IsBody
<1> QED
  BY <1>5, <1>7, <1>8 DEF out

(* A page that is edited.                                                  *)
LEMMA EditedPage ==
  ASSUME NEW md, IsReadme(md), NEW n \in DOMAIN md.regions
  PROVE  IsReadme([md EXCEPT !.regions[n].body = <<Piece("prose", FALSE, <<>>, {})>>])
<1> DEFINE p == Piece("prose", FALSE, <<>>, {})
           r == md.regions[n]
           edited == [r EXCEPT !.body = <<p>>]
           regions == [md.regions EXCEPT ![n] = edited]
           out == [md EXCEPT !.regions = regions]
<1>1. /\ DOMAIN md = {"there", "regions"} /\ md.there \in BOOLEAN
      /\ md.regions \in Seq(Range(md.regions)) /\ (~md.there => md.regions = <<>>)
      /\ \A s \in Range(md.regions) :
           DOMAIN s = {"path", "end", "body"} /\ s.path.i \in Nat /\ IsBody(s.body)
  BY DEF IsReadme, IsBody
<1>2. r \in Range(md.regions)
  BY DEF Range
<1>3. IsBody(<<p>>)
  <2>1. p.kind = "prose" /\ p.skip = FALSE /\ p.lines = <<>>
    BY DEF Piece
  <2> HIDE DEF p
  <2>2. Range(<<p>>) = {p} /\ <<p>> \in Seq({p}) /\ Range(<<>>) = {} /\ <<>> \in Seq({})
    BY RangeSmall
  <2> QED
    BY <2>1, <2>2 DEF IsBody
<1> HIDE DEF p, r
<1>4. DOMAIN edited = {"path", "end", "body"} /\ edited.path = r.path /\ edited.body = <<p>>
  BY <1>1, <1>2
<1> HIDE DEF edited
<1>5. /\ DOMAIN regions = DOMAIN md.regions /\ regions[n] = edited
      /\ \A i \in DOMAIN md.regions : i # n => regions[i] = md.regions[i]
      /\ regions = [i \in DOMAIN md.regions |-> regions[i]]
  OBVIOUS
<1> HIDE DEF regions
<1>6. \A i \in DOMAIN regions : regions[i] \in Range(regions)
  BY DEF Range
<1>7. regions \in Seq(Range(regions))
  <2> DEFINE T == Range(regions)
             N == Len(md.regions)
  <2>1. DOMAIN md.regions = 1 .. N /\ N \in Nat
    BY <1>1
  <2>2. \A i \in 1 .. N : regions[i] \in T
    BY <1>5, <1>6, <2>1
  <2>3. regions = [i \in 1 .. N |-> regions[i]]
    BY <1>5, <2>1
  <2> HIDE DEF T, N
  <2>4. [i \in 1 .. N |-> regions[i]] \in Seq(T)
    BY <2>1, <2>2
  <2> QED
    BY <2>3, <2>4 DEF T
<1>8. \A s \in Range(regions) : DOMAIN s = {"path", "end", "body"} /\ s.path.i \in Nat /\ IsBody(s.body)
  <2> SUFFICES ASSUME NEW i \in DOMAIN md.regions
               PROVE  /\ DOMAIN regions[i] = {"path", "end", "body"} /\ regions[i].path.i \in Nat
                      /\ IsBody(regions[i].body)
    BY <1>5 DEF Range
  <2>1. CASE i = n
    BY <1>1, <1>2, <1>3, <1>4, <1>5, <2>1
  <2>2. CASE i # n
    <3>1. md.regions[i] \in Range(md.regions)
      BY DEF Range
    <3> QED
      BY <1>1, <1>5, <2>2, <3>1
  <2> QED
    BY <2>1, <2>2
<1>9. md.there
  BY <1>1
<1>10. DOMAIN out = {"there", "regions"} /\ out.there = md.there /\ out.regions = regions
  BY <1>1
<1> HIDE DEF out
<1>11. IsReadme(out)
  BY <1>1, <1>7, <1>8, <1>9, <1>10 DEF IsReadme, IsBody
<1> QED
  BY <1>11 DEF out, regions, edited, r, p


(* A guide.yaml that is pinned.                                            *)
LEMMA PinnedGuide ==
  ASSUME NEW g, IsGuide(g), NEW to \in STRING
  PROVE  IsGuide(SetBranch(g, to))
<1> DEFINE env == [i \in DOMAIN g.env |-> PinVar(g.env[i], to)]
           Sec(section) == [i \in DOMAIN g.steps[section] |-> PinStep(g.steps[section][i], to)]
           steps == [section \in DOMAIN g.steps |-> Sec(section)]
           h == SetBranch(g, to)
<1>1. /\ DOMAIN g = {"schema", "env", "source", "steps", "modes", "support"}
      /\ g.env \in Seq(Variable)
      /\ g.source \in BOOLEAN /\ g.support.on \in BOOLEAN
      /\ {"name", "env.static", "env.source", "support"} \cap DOMAIN g.steps = {}
      /\ \A section \in DOMAIN g.steps :
           /\ g.steps[section] \in Seq(Range(g.steps[section]))
           /\ \A s \in Range(g.steps[section]) : IsStep(s)
  BY DEF IsGuide
<1>2. h = [[g EXCEPT !.env = env] EXCEPT !.steps = steps]
  BY DEF SetBranch
<1> HIDE DEF env, steps, h
<1>3. /\ DOMAIN h = {"schema", "env", "source", "steps", "modes", "support"}
      /\ h.env = env /\ h.steps = steps /\ h.source = g.source /\ h.support = g.support
  BY <1>1, <1>2
<1>4. \A x \in Variable : PinVar(x, to) \in Variable
  BY DEF PinVar, Variable
<1>5. env \in Seq(Variable)
  BY <1>1, <1>4 DEF env
<1>6. ASSUME NEW s, IsStep(s) PROVE IsStep(PinStep(s, to))
  <2> DEFINE t == [s EXCEPT !.branch = to]
  <2>1. PinStep(s, to) = s \/ PinStep(s, to) = t
    BY Zenon DEF PinStep
  <2>2. CASE PinStep(s, to) = t
    <3>2. /\ s \in [run : STRING, branch : STRING, when : {s.when}, skip : BOOLEAN]
          /\ IsFilter(s.when)
      BY <1>6 DEF IsStep
    <3>3. t \in [run : STRING, branch : STRING, when : {s.when}, skip : BOOLEAN] /\ t.when = s.when
      BY <3>2
    <3> HIDE DEF t
    <3> QED
      BY <2>2, <3>2, <3>3 DEF IsStep
  <2> QED
    BY <1>6, <2>1, <2>2
<1>7. ASSUME NEW section \in DOMAIN g.steps
      PROVE  Sec(section) \in Seq(Range(Sec(section))) /\ \A s \in Range(Sec(section)) : IsStep(s)
  <2> DEFINE q == g.steps[section]
             p == Sec(section)
             T == Range(p)
             N == Len(q)
  <2>1. q \in Seq(Range(q)) /\ \A s \in Range(q) : IsStep(s)
    BY <1>1
  <2>2. DOMAIN q = 1 .. N /\ N \in Nat
    BY <2>1
  <2>3. p = [i \in 1 .. N |-> PinStep(q[i], to)]
    BY <2>2
  <2> HIDE DEF p, q, N
  <2>4. \A i \in 1 .. N : IsStep(p[i]) /\ p[i] = PinStep(q[i], to)
    BY <1>6, <2>1, <2>2, <2>3 DEF Range
  <2>5. \A i \in 1 .. N : p[i] \in T
    BY <2>3 DEF Range
  <2>6. \A s \in T : IsStep(s)
    BY <2>3, <2>4 DEF Range
  <2> HIDE DEF T
  <2>7. [i \in 1 .. N |-> p[i]] \in Seq(T) /\ p = [i \in 1 .. N |-> p[i]]
    BY <2>2, <2>3, <2>5
  <2> QED
    BY <2>6, <2>7 DEF p, T
<1>8. DOMAIN steps = DOMAIN g.steps /\ \A section \in DOMAIN g.steps : steps[section] = Sec(section)
  BY DEF steps
<1> HIDE DEF Sec
<1>9. IsGuide(h)
  BY <1>1, <1>3, <1>5, <1>7, <1>8 DEF IsGuide
<1> QED
  BY <1>9 DEF h

(* What is true of the pages a command writes.                             *)
LEMMA WrittenPage ==
  ASSUME TypeOK, NEW d \in Dir, WriteReadme(d), Renders(yaml[d], readme[d])
  PROVE  DOMAIN readme' = Dir /\ \A e \in Dir : IsReadme(readme'[e])
<1>1. DOMAIN readme = Dir /\ IsGuide(yaml[d]) /\ \A e \in Dir : IsReadme(readme[e])
  BY DEF TypeOK
<1>2. readme' = [readme EXCEPT ![d] = RenderMd(yaml[d], readme[d])]
  BY DEF WriteReadme, Rendered
<1>3. IsReadme(RenderMd(yaml[d], readme[d]))
  BY <1>1, RenderedPage
<1> QED
  BY <1>1, <1>2, <1>3

(* The parts of the type, one by one.                                      *)
FilesOK ==
  /\ DOMAIN yaml = Dir /\ DOMAIN readme = Dir
  /\ \A d \in Dir : IsGuide(yaml[d]) /\ IsReadme(readme[d])
  /\ manifest \in Range(Manifests)

CommandOK ==
  /\ cli.cmd \in {"none", "render", "set-branch"}
  /\ cli.cmd = "set-branch" => cli.to \in Refs
  /\ IsSuffix(cli.todo, Targets)
  /\ cli.failed \in 0 .. Len(Targets) - Len(cli.todo)
  /\ cli.pinned => cli.cmd = "set-branch" /\ cli.todo # <<>>

ResultOK ==
  /\ last.cmd \in {"none", "render", "set-branch"}
  /\ last.code \in {0, 1, 130}
  /\ gate \in {"none", "green", "red"}
  /\ moves \in 0 .. MaxMoves

LEMMA NothingRuns ==
  /\ NoCommand.cmd = "none" /\ NoCommand.todo = <<>> /\ NoCommand.failed = 0 /\ ~NoCommand.pinned
  /\ NotRun.cmd = "none" /\ NotRun.code = 0
<1>1. NoCommand.cmd = "none"
  BY DEF NoCommand
<1>2. NoCommand.todo = <<>>
  BY DEF NoCommand
<1>3. NoCommand.failed = 0
  BY DEF NoCommand
<1>4. ~NoCommand.pinned
  BY DEF NoCommand
<1>5. NotRun.cmd = "none"
  BY DEF NotRun
<1>6. NotRun.code = 0
  BY DEF NotRun
<1> QED
  BY <1>1, <1>2, <1>3, <1>4, <1>5, <1>6

LEMMA InitType == Init => TypeOK
<1> SUFFICES ASSUME Init PROVE TypeOK
  OBVIOUS
<1>1. PICK book \in [Dir -> UNION Range(Books)] :
        /\ \A d \in Dir : book[d] \in Books[d]
        /\ yaml = [d \in Dir |-> book[d].yaml]
        /\ readme = [d \in Dir |-> book[d].readme]
  BY DEF Init
<1>2. \A d \in Dir : IsGuide(yaml[d]) /\ IsReadme(readme[d])
  <2>1. \A d \in Dir : \A b \in Books[d] : IsGuide(b.yaml) /\ IsReadme(b.readme)
    BY GuideBookAssumption DEF GuideBookAssumption
  <2> QED
    BY <1>1, <2>1
<1>3. manifest \in Range(Manifests)
  <2>1. 1 \in DOMAIN Manifests
    BY GuideBookAssumption DEF GuideBookAssumption
  <2> QED
    BY <2>1 DEF Init, Range
<1>4. /\ cli.cmd = "none" /\ cli.todo = <<>> /\ cli.failed = 0 /\ ~cli.pinned
      /\ last.cmd = "none" /\ last.code = 0 /\ gate = "none" /\ moves = 0
  <2>1. cli = NoCommand /\ last = NotRun /\ gate = "none" /\ moves = 0
    BY DEF Init
  <2> QED
    BY <2>1, NothingRuns
<1>5. Targets \in Seq(Dir) /\ MaxMoves \in Nat
  BY GuideBookAssumption DEF GuideBookAssumption
<1>6. IsSuffix(<<>>, Targets) /\ 0 \in 0 .. Len(Targets) - Len(<<>>)
  BY <1>5, SuffixTail
<1>7. 0 \in 0 .. MaxMoves
  BY <1>5
<1> QED
  BY <1>1, <1>2, <1>3, <1>4, <1>6, <1>7 DEF TypeOK

(* A command that begins, goes on or ends.                                 *)
LEMMA CommandStays ==
  ASSUME PInv, CommandOK
  PROVE  /\ \A cmd \in {"render", "set-branch"} : \A to, validate :
              Start(cmd, to, validate) /\ (cmd = "set-branch" => to \in Refs) => CommandOK'
         /\ \A failures \in {0, 1} : cli.todo # <<>> /\ NextTarget(failures) => CommandOK'
         /\ \A code : Exit(code) => CommandOK'
<1>1. /\ Targets \in Seq(Dir) /\ Len(Targets) \in Nat
      /\ cli.todo \in Seq(Dir) /\ cli.failed \in Nat
  BY GuideBookAssumption DEF GuideBookAssumption, PInv
<1>2. /\ IsSuffix(Targets, Targets) /\ IsSuffix(<<>>, Targets)
      /\ \A s \in Seq(Dir) : s # <<>> /\ IsSuffix(s, Targets) => IsSuffix(Tail(s), Targets) /\ Len(s) <= Len(Targets)
  BY <1>1, SuffixTail
<1>3. ASSUME NEW cmd \in {"render", "set-branch"}, NEW to, NEW validate, Start(cmd, to, validate),
             cmd = "set-branch" => to \in Refs
      PROVE  CommandOK'
  <2>1. /\ cli'.cmd = cmd /\ cli'.to = to /\ cli'.todo = Targets /\ cli'.failed = 0 /\ cli'.pinned = FALSE
    BY <1>3 DEF Start
  <2>2. 0 \in 0 .. Len(Targets) - Len(Targets)
    BY <1>1
  <2> QED
    BY <1>2, <1>3, <2>1, <2>2 DEF CommandOK
<1>4. ASSUME NEW failures \in {0, 1}, cli.todo # <<>>, NextTarget(failures) PROVE CommandOK'
  <2>1. /\ cli'.cmd = cli.cmd /\ cli'.to = cli.to /\ cli'.todo = Tail(cli.todo)
        /\ cli'.failed = cli.failed + failures /\ cli'.pinned = FALSE
    BY <1>4 DEF NextTarget
  <2>2. cli.failed <= Len(Targets) - Len(cli.todo) /\ IsSuffix(cli.todo, Targets)
    BY <1>1 DEF CommandOK
  <2>3. Len(Tail(cli.todo)) = Len(cli.todo) - 1 /\ Len(cli.todo) \in Nat
    BY <1>1, <1>4
  <2>4. cli.failed + failures \in 0 .. Len(Targets) - Len(Tail(cli.todo))
    <3> DEFINE f == cli.failed
               n == Len(Targets)
               t == Len(cli.todo)
    <3>1. f \in Nat /\ n \in Nat /\ t \in Nat /\ f <= n - t /\ Len(Tail(cli.todo)) = t - 1
      BY <1>1, <2>2, <2>3
    <3> HIDE DEF f, n, t
    <3>2. f + failures \in 0 .. n - (t - 1)
      BY <3>1
    <3> QED
      BY <3>1, <3>2 DEF f, n
  <2>5. IsSuffix(Tail(cli.todo), Targets)
    BY <1>1, <1>2, <1>4, <2>2
  <2> QED
    BY <2>1, <2>4, <2>5 DEF CommandOK
<1>5. ASSUME NEW code, Exit(code) PROVE CommandOK'
  <2>1. cli'.cmd = "none" /\ cli'.todo = <<>> /\ cli'.failed = 0 /\ ~cli'.pinned
    <3>1. cli' = NoCommand
      BY <1>5 DEF Exit
    <3> QED
      BY <3>1, NothingRuns
  <2>2. 0 \in 0 .. Len(Targets) - Len(<<>>)
    BY <1>1
  <2> QED
    BY <1>2, <2>1, <2>2 DEF CommandOK
<1> QED
  BY <1>3, <1>4, <1>5


(* A command begins: set-branch with a ref.                                *)
Begins ==
  \E cmd \in {"render", "set-branch"} : \E to, validate :
    Start(cmd, to, validate) /\ (cmd = "set-branch" => to \in Refs)

LEMMA NextCases ==
  ASSUME [Next]_vars
  PROVE  \/ \E d \in Dir : EditYaml(d) \/ EditReadme(d) \/ EditNightly(d)
         \/ EditManifest \/ Begins \/ RenderNext \/ PinNext \/ RerenderNext
         \/ Finish \/ Kill \/ Gate \/ UNCHANGED vars
<1>1. \A to, validate : Start("render", to, validate) => Begins
  BY DEF Begins
<1>2. \A to \in Refs : \A validate : Start("set-branch", to, validate) => Begins
  BY DEF Begins
<1> QED
  BY <1>1, <1>2, Zenon DEF Next

LEMMA StepFiles == TypeOK /\ PInv /\ [Next]_vars => FilesOK'
<1> SUFFICES ASSUME TypeOK, PInv, [Next]_vars PROVE FilesOK'
  OBVIOUS
<1>1. FilesOK
  BY DEF TypeOK, FilesOK
<1>2. ASSUME UNCHANGED <<yaml, readme, manifest>> PROVE FilesOK'
  BY <1>1, <1>2 DEF FilesOK
<1>3. ASSUME NEW d \in Dir, EditYaml(d) PROVE FilesOK'
  <2>1. PICK g \in Redrafts[d] : yaml' = [yaml EXCEPT ![d] = g]
    BY <1>3 DEF EditYaml
  <2>2. IsGuide(g)
    BY GuideBookAssumption DEF GuideBookAssumption
  <2>3. UNCHANGED <<readme, manifest>>
    BY <1>3 DEF EditYaml
  <2> QED
    BY <1>1, <2>1, <2>2, <2>3 DEF FilesOK
<1>4. ASSUME NEW d \in Dir, EditReadme(d) PROVE FilesOK'
  <2> DEFINE md == readme[d]
             n == Len(md.regions)
             out == [md EXCEPT !.regions[n].body = <<Piece("prose", FALSE, <<>>, {})>>]
  <2>1. IsReadme(md)
    BY <1>1 DEF FilesOK
  <2>2. readme' = [readme EXCEPT ![d] = out] /\ md.regions # <<>> /\ UNCHANGED <<yaml, manifest>>
    BY <1>4 DEF EditReadme
  <2>3. n \in DOMAIN md.regions
    <3>1. md.regions \in Seq(Range(md.regions))
      BY <2>1 DEF IsReadme
    <3> QED
      BY <2>2, <3>1
  <2> HIDE DEF md, n
  <2>4. IsReadme(out)
    BY <2>1, <2>3, EditedPage
  <2> HIDE DEF out
  <2> QED
    BY <1>1, <2>2, <2>4 DEF FilesOK
<1>5. ASSUME NEW d \in Dir, EditNightly(d) PROVE FilesOK'
  BY <1>2, <1>5 DEF EditNightly
<1>6. CASE EditManifest
  BY <1>1, <1>6 DEF EditManifest, FilesOK
<1>7. CASE Begins
  BY <1>2, <1>7 DEF Begins, Start, files
<1>8. ASSUME NEW d, d = Head(cli.todo), cli.todo # <<>>, Renders(yaml[d], readme[d]), WriteReadme(d),
             UNCHANGED <<yaml, manifest>>
      PROVE  FilesOK'
  <2>1. d \in Dir
    BY <1>8, Behind DEF PInv
  <2>2. DOMAIN readme' = Dir /\ \A e \in Dir : IsReadme(readme'[e])
    BY <1>8, <2>1, WrittenPage
  <2> QED
    BY <1>1, <1>8, <2>2 DEF FilesOK
<1>9. CASE RenderNext
  <2> DEFINE d == Head(cli.todo)
  <2>1. cli.todo # <<>> /\ UNCHANGED <<yaml, manifest>>
    BY <1>9 DEF RenderNext
  <2>2. Keep \/ (Renders(yaml[d], readme[d]) /\ WriteReadme(d))
    BY <1>9 DEF RenderNext
  <2> QED
    BY <1>2, <1>8, <2>1, <2>2 DEF Keep
<1>10. CASE PinNext
  <2> DEFINE d == Head(cli.todo)
             g == SetBranch(yaml[d], cli.to)
  <2>1. /\ cli.cmd = "set-branch" /\ cli.todo # <<>> /\ yaml' = [yaml EXCEPT ![d] = g]
        /\ UNCHANGED <<readme, manifest>>
    BY <1>10 DEF PinNext
  <2>2. d \in Dir
    BY <2>1, Behind DEF PInv
  <2>3. cli.to \in STRING
    BY <2>1, GuideBookAssumption DEF TypeOK, GuideBookAssumption
  <2>4. IsGuide(g)
    BY <1>1, <2>2, <2>3, PinnedGuide DEF FilesOK
  <2> HIDE DEF g
  <2> QED
    BY <1>1, <2>1, <2>4 DEF FilesOK
<1>11. CASE RerenderNext
  <2> DEFINE d == Head(cli.todo)
  <2>1. cli.todo # <<>> /\ UNCHANGED <<yaml, manifest>>
    BY <1>11 DEF RerenderNext, PInv
  <2>2. Keep \/ (Renders(yaml[d], readme[d]) /\ WriteReadme(d))
    BY <1>11 DEF RerenderNext
  <2> QED
    BY <1>2, <1>8, <2>1, <2>2 DEF Keep
<1>12. CASE Finish \/ Kill \/ Gate \/ UNCHANGED vars
  BY <1>2, <1>12 DEF Finish, Kill, Gate, vars, files
<1> QED
  BY <1>3, <1>4, <1>5, <1>6, <1>7, <1>9, <1>10, <1>11, <1>12, NextCases

LEMMA StepOfCommand == TypeOK /\ PInv /\ [Next]_vars => CommandOK'
<1> SUFFICES ASSUME TypeOK, PInv, [Next]_vars PROVE CommandOK'
  OBVIOUS
<1>1. CommandOK
  BY DEF TypeOK, CommandOK
<1>2. ASSUME UNCHANGED cli PROVE CommandOK'
  BY <1>1, <1>2 DEF CommandOK
<1>3. ASSUME NEW cmd \in {"render", "set-branch"}, NEW to, NEW validate, Start(cmd, to, validate),
             cmd = "set-branch" => to \in Refs
      PROVE  CommandOK'
  BY <1>1, <1>3, CommandStays
<1>4. ASSUME NEW failures \in {0, 1}, cli.todo # <<>>, NextTarget(failures) PROVE CommandOK'
  BY <1>1, <1>4, CommandStays
<1>5. ASSUME NEW code, Exit(code) PROVE CommandOK'
  BY <1>1, <1>5, CommandStays
<1>6. ASSUME NEW d \in Dir, EditYaml(d) \/ EditReadme(d) \/ EditNightly(d) PROVE CommandOK'
  BY <1>2, <1>6 DEF EditYaml, EditReadme, EditNightly, Edited
<1>7. CASE EditManifest
  BY <1>2, <1>7 DEF EditManifest, Edited
<1>8. CASE RenderNext
  <2>1. cli.todo # <<>> /\ (NextTarget(0) \/ NextTarget(1) \/ Exit(1))
    BY <1>8 DEF RenderNext, Abort
  <2> QED
    BY <1>4, <1>5, <2>1
<1>9. CASE RerenderNext
  <2>1. cli.todo # <<>> /\ (NextTarget(0) \/ NextTarget(1) \/ Exit(1))
    BY <1>9 DEF RerenderNext, Abort, PInv
  <2> QED
    BY <1>4, <1>5, <2>1
<1>10. CASE PinNext
  <2>1. cli.cmd = "set-branch" /\ cli.todo # <<>> /\ cli' = [cli EXCEPT !.pinned = TRUE]
    BY <1>10 DEF PinNext
  <2>2. cli'.cmd = cli.cmd /\ cli'.to = cli.to /\ cli'.todo = cli.todo /\ cli'.failed = cli.failed
    BY <2>1
  <2> QED
    BY <1>1, <2>1, <2>2 DEF CommandOK
<1>11. CASE Finish \/ Kill
  BY <1>5, <1>11 DEF Finish, Kill
<1>12. CASE Gate \/ UNCHANGED vars
  BY <1>2, <1>12 DEF Gate, vars
<1>13. CASE Begins
  BY <1>3, <1>13 DEF Begins
<1> QED
  BY <1>6, <1>7, <1>8, <1>9, <1>10, <1>11, <1>12, <1>13, NextCases

LEMMA StepResult == TypeOK /\ [Next]_vars => ResultOK'
<1> SUFFICES ASSUME TypeOK, [Next]_vars PROVE ResultOK'
  OBVIOUS
<1>1. ResultOK /\ cli.cmd \in {"none", "render", "set-branch"} /\ MaxMoves \in Nat
  BY GuideBookAssumption DEF TypeOK, ResultOK, GuideBookAssumption
<1>2. Move => moves' \in 0 .. MaxMoves
  BY <1>1 DEF Move, ResultOK
<1>3. \A code \in {0, 1, 130} : Exit(code) => last'.cmd \in {"none", "render", "set-branch"} /\ last'.code \in {0, 1, 130}
  BY <1>1 DEF Exit
<1>4. last' = NotRun => last'.cmd = "none" /\ last'.code = 0
  BY NothingRuns
<1>5. \A d : WriteReadme(d) => gate' \in {gate, "none"}
  BY DEF WriteReadme
<1>6. ASSUME Move, last' = NotRun, gate' \in {gate, "none"} PROVE ResultOK'
  BY <1>1, <1>2, <1>4, <1>6 DEF ResultOK
<1>7. ASSUME NEW code \in {0, 1, 130}, Exit(code), UNCHANGED moves, gate' \in {gate, "none"} PROVE ResultOK'
  BY <1>1, <1>3, <1>7 DEF ResultOK
<1>8. ASSUME UNCHANGED <<last, moves>>, gate' \in {"none", "green", "red"} PROVE ResultOK'
  BY <1>1, <1>8 DEF ResultOK
<1>9. gate \in {"none", "green", "red"}
  BY <1>1 DEF ResultOK
<1>10. ASSUME NEW d \in Dir, EditYaml(d) \/ EditReadme(d) \/ EditNightly(d) PROVE ResultOK'
  BY <1>6, <1>10 DEF EditYaml, EditReadme, EditNightly, Edited
<1>11. CASE EditManifest
  BY <1>6, <1>11 DEF EditManifest, Edited
<1>12. CASE Begins
  BY <1>6, <1>12 DEF Begins, Start
<1>13. CASE RenderNext \/ RerenderNext
  <2>1. UNCHANGED moves /\ gate' \in {gate, "none"} /\ (last' = last \/ Exit(1))
    BY <1>5, <1>13 DEF RenderNext, RerenderNext, Keep, Abort, NextTarget
  <2> QED
    BY <1>7, <1>8, <1>9, <2>1
<1>14. CASE PinNext
  BY <1>8, <1>9, <1>14 DEF PinNext
<1>15. CASE Finish \/ Kill
  BY <1>7, <1>15 DEF Finish, Kill
<1>16. CASE Gate \/ UNCHANGED vars
  BY <1>8, <1>9, <1>16 DEF Gate, vars
<1> QED
  BY <1>10, <1>11, <1>12, <1>13, <1>14, <1>15, <1>16, NextCases

LEMMA AlwaysPromise == Spec => []PInv
<1>1. Spec => []IInv
  BY Invariant
<1> QED
  BY <1>1, InitPromise, StepPromise, PTL DEF Spec

(* TYPE.  The files stay what their parsers make of them, whatever authors *)
(* type between the markers and whenever a command is killed, and so does  *)
(* the command's place in its list of targets.                             *)
THEOREM TypeCorrect == Spec => []TypeOK
<1>1. TypeOK /\ PInv /\ [Next]_vars => TypeOK'
  <2>1. FilesOK /\ CommandOK /\ ResultOK => TypeOK
    BY DEF FilesOK, CommandOK, ResultOK, TypeOK
  <2>2. (FilesOK /\ CommandOK /\ ResultOK => TypeOK)'
    BY DEF FilesOK, CommandOK, ResultOK, TypeOK
  <2> QED
    BY <2>2, StepFiles, StepOfCommand, StepResult
<1> QED
  BY <1>1, InitType, AlwaysPromise, PTL DEF Spec


-------------------------------------------------------------------------------
(* What is in the pages that are as render would write them.               *)
LEMMA CurrentPage ==
  ASSUME NEW g, NEW md, RenderMd(g, md) = md, NEW r \in Range(md.regions)
  PROVE  \E inline \in BOOLEAN : r.body = RenderPath(g, r.path, inline)
<1> DEFINE inline == \A s \in Range(md.regions) : s.path.at # "env.source"
           Filled(s) == [path |-> s.path, end |-> s.end, body |-> RenderPath(g, s.path, inline)]
<1>1. PICK i \in DOMAIN md.regions : r = md.regions[i]
  BY DEF Range
<1>2. md = [there |-> md.there, regions |-> [j \in DOMAIN md.regions |-> Filled(md.regions[j])]]
  BY DEF RenderMd
<1>3. inline \in BOOLEAN
  OBVIOUS
<1> HIDE DEF Filled, inline
<1>4. md.regions = [j \in DOMAIN md.regions |-> Filled(md.regions[j])]
  BY <1>2
<1>5. r = Filled(md.regions[i])
  BY <1>1, <1>4
<1>6. \A s : Filled(s).path = s.path /\ Filled(s).body = RenderPath(g, s.path, inline)
  BY DEF Filled
<1>7. r.body = RenderPath(g, r.path, inline)
  BY <1>1, <1>5, <1>6
<1> QED
  BY <1>3, <1>7

LEMMA PinnedBranches ==
  ASSUME NEW g, NEW to, Pinned(g, to)
  PROVE  \A s \in AllSteps(g) : s.branch \in {"", to}
BY Zenon DEF Pinned

(* COMMAND KEEPS PROMISE.  When a command has exited 0 and nothing was     *)
(* edited since, every one of its targets has a README that render would   *)
(* write again as it is (set-branch skips a target without one), and after *)
(* set-branch a guide.yaml that is valid and has every BRANCH pinned, in   *)
(* the file and in each fence of the README, whatever was killed before    *)
(* it.                                                                     *)
THEOREM ExitZeroIsDone == Spec => []CommandKeepsPromise
<1>1. ASSUME TypeOK, PInv PROVE CommandKeepsPromise
  <2> DEFINE Lines(d) == \A r \in Range(readme[d].regions) : \A piece \in Range(r.body) :
                           \A l \in Range(piece.lines) : l[1] = "run" => l[3] \in {"", last.to}
  <2>1. ASSUME last.cmd # "none", last.code = 0, NEW d \in Dir
        PROVE  /\ last.cmd = "render" \/ readme[d].there => IsCurrent(d)
               /\ last.cmd = "set-branch" => ParseOk(yaml[d]) /\ CheckYaml(yaml[d]) /\ Pinned(yaml[d], last.to)
    BY <1>1, <2>1 DEF PInv, Fulfilled, IsCurrent, Rendered
  <2>2. ASSUME last.code = 0, last.cmd = "set-branch", NEW d \in Dir PROVE Lines(d)
    <3> DEFINE g == yaml[d]
               md == readme[d]
    <3>1. IsGuide(g) /\ IsReadme(md) /\ Pinned(g, last.to)
      BY <1>1, <2>1, <2>2 DEF TypeOK
    <3>2. CASE md.there
      <4>1. Renders(g, md) /\ RenderMd(g, md) = md
        BY <2>1, <2>2, <3>2 DEF IsCurrent, Rendered
      <4>2. \A r \in Range(md.regions) : RunsOf(g, r.body)
        BY <3>1, <4>1, RenderedPage
      <4>3. \A s \in AllSteps(g) : s.branch \in {"", last.to}
        BY <3>1, PinnedBranches, Zenon
      <4> HIDE DEF g, md
      <4>4. ASSUME NEW r \in Range(md.regions), NEW piece \in Range(r.body),
                   NEW l \in Range(piece.lines), l[1] = "run"
            PROVE  \E s \in AllSteps(g) : l[3] = s.branch
        BY <4>2, <4>4 DEF RunsOf
      <4> QED
        BY <4>3, <4>4, Zenon DEF g, md
    <3>3. CASE ~md.there
      <4>1. md.regions = <<>>
        BY <3>1, <3>3 DEF IsReadme
      <4>2. Range(md.regions) = {}
        BY <4>1, RangeSmall
      <4> QED
        BY <4>2, Zenon
    <3> QED
      BY <3>2, <3>3, Zenon
  <2> QED
    BY <2>1, <2>2, Zenon DEF CommandKeepsPromise
<1> QED
  BY <1>1, AlwaysPromise, TypeCorrect, PTL

(* HARVEST AGREES.  When the CI Guides Check is green, what a runner reads *)
(* between the markers of its guides is what emit puts into a script: the  *)
(* exports in their order, and the commands of every section whose steps   *)
(* can be told.                                                            *)
THEOREM RunnersAgree == Spec => []HarvestAgrees
<1>1. ASSUME TypeOK, IInv PROVE HarvestAgrees
  <2> SUFFICES ASSUME gate = "green", NEW d \in CiTargets, NEW r \in Range(readme[d].regions)
               PROVE  LET g == yaml[d] IN
                      /\ r.path.at = "env.static" =>
                           Exports(Harvest(r.body)) = EmitExports(g, NoFilter)
                      /\ /\ r.path.at \in DOMAIN g.steps /\ r.path.i = 0
                         /\ \A s \in Range(g.steps[r.path.at]) : IsTold(g, s)
                         => /\ EmitOk(g, NoFilter, TRUE, r.path.at)
                            /\ LET emitted == EmitSteps(g, NoFilter, TRUE, g.steps[r.path.at])
                               IN  /\ Len(Harvest(r.body)) = Len(emitted)
                                   /\ Range(Harvest(r.body)) = Range(emitted)
    BY DEF HarvestAgrees, IsTold
  <2> DEFINE g == yaml[d]
             at == r.path.at
  <2>1. Current
    BY <1>1 DEF IInv
  <2>2. d \in Dir
    BY GuideBookAssumption DEF GuideBookAssumption
  <2>3. IsGuide(g)
    BY <1>1, <2>2 DEF TypeOK
  <2>4. RenderMd(g, readme[d]) = readme[d]
    BY <2>1 DEF Current, IsCurrent, Rendered
  <2> HIDE DEF g
  <2>5. PICK inline \in BOOLEAN : r.body = RenderPath(g, r.path, inline)
    BY <2>4, CurrentPage
  <2>6. CASE at = "env.static"
    <3>1. r.body = RenderEnv(g, inline)
      BY <2>5, <2>6 DEF RenderPath
    <3>2. Exports(Harvest(r.body)) = EmitExports(g, NoFilter)
      BY <2>3, <3>1, EnvAgrees
    <3>3. at \notin DOMAIN g.steps
      BY <2>3, <2>6 DEF IsGuide
    <3> QED
      BY <3>2, <3>3 DEF g
  <2>7. CASE /\ at \in DOMAIN g.steps /\ r.path.i = 0
             /\ \A s \in Range(g.steps[at]) : IsTold(g, s)
    <3> DEFINE steps == g.steps[at]
               S == Range(steps)
    <3>1. at \notin {"name", "env.static", "env.source", "support"}
      BY <2>3, <2>7 DEF IsGuide
    <3>2. r.body = RenderSteps(g, steps)
      BY <2>5, <2>7, <3>1 DEF RenderPath
    <3>3. steps \in Seq(S) /\ \A s \in S : IsStep(s)
      BY <2>3, <2>7 DEF IsGuide
    <3>4. \A s \in S : IsTold(g, s)
      BY <2>7
    <3>5. EmitOk(g, NoFilter, TRUE, at)
      <4>1. DOMAIN NoFilter = {}
        BY DEF NoFilter
      <4>2. ASSUME NEW s \in S PROVE ~Undecided(g, NoFilter, TRUE, s)
        BY <3>4, <4>1 DEF Undecided, IsTold
      <4> QED
        BY <2>7, <4>1, <4>2 DEF EmitOk
    <3> HIDE DEF S, steps, at
    <3>6. Alike(Harvest(RenderSteps(g, steps)), EmitSteps(g, NoFilter, TRUE, steps))
      BY <3>3, <3>4, StepsHarvest DEF S
    <3> QED
      BY <3>1, <3>2, <3>5, <3>6 DEF Alike, g, steps, at
  <2> QED
    BY <2>6, <2>7 DEF g
<1> QED
  BY <1>1, Invariant, TypeCorrect, PTL


(* What a script exports, whatever is overridden.                          *)
ExportFor(g, overrides) ==
  [x \in Range(g.env) |->
     CASE x.var \in DOMAIN overrides -> << <<"export", x.var, overrides[x.var]>> >>
       [] x.var \notin DOMAIN overrides /\ x.sensitive -> <<>>
       [] OTHER -> << <<"export", x.var, x.default>> >>]

ExportLines(g, overrides) ==
  {<<"export", x.var, x.default>> : x \in Range(g.env)}
    \cup {<<"export", x.var, overrides[x.var]>> : x \in Range(g.env)}

LEMMA ExportsAre ==
  ASSUME NEW g, IsGuide(g), NEW overrides
  PROVE  /\ EmitExports(g, overrides) \in Seq(ExportLines(g, overrides))
         /\ \A l \in Range(EmitExports(g, overrides)) :
              \E x \in Range(g.env) :
                /\ l[1] = "export" /\ l[2] = x.var
                /\ \/ x.var \in DOMAIN overrides /\ l[3] = overrides[x.var]
                   \/ x.var \notin DOMAIN overrides /\ ~x.sensitive
<1> DEFINE V == Range(g.env)
           L == ExportLines(g, overrides)
           e == ExportFor(g, overrides)
           Given(x) == <<"export", x.var, overrides[x.var]>>
           Declared(x) == <<"export", x.var, x.default>>
<1>1. g.env \in Seq(V) /\ \A x \in V : x.sensitive \in BOOLEAN
  <2>1. g.env \in Seq(Variable)
    BY DEF IsGuide
  <2>2. \A i \in 1 .. Len(g.env) : g.env[i] \in V /\ g.env[i] \in Variable
    BY <2>1 DEF Range
  <2>3. \A x \in Variable : x.sensitive \in BOOLEAN
    BY DEF Variable
  <2> QED
    BY <2>1, <2>2, <2>3 DEF Range
<1>2. \A x \in V : Given(x) \in L /\ Declared(x) \in L
  BY DEF ExportLines
<1>3. ASSUME NEW x \in V
      PROVE  \/ x.var \in DOMAIN overrides /\ e[x] = <<Given(x)>>
             \/ x.var \notin DOMAIN overrides /\ x.sensitive /\ e[x] = <<>>
             \/ x.var \notin DOMAIN overrides /\ ~x.sensitive /\ e[x] = <<Declared(x)>>
  BY <1>1 DEF ExportFor
<1>4. Makes(e, V, L)
  <2>1. <<>> \in Seq(L) /\ \A l \in L : <<l>> \in Seq(L)
    OBVIOUS
  <2>2. e = [x \in V |-> e[x]]
    BY DEF ExportFor
  <2> HIDE DEF e, L, Given, Declared
  <2>3. \A x \in V : e[x] \in Seq(L)
    BY <1>2, <1>3, <2>1
  <2> QED
    BY <2>2, <2>3 DEF Makes
<1>5. EmitExports(g, overrides) = Bind(e, g.env)
  <2>1. \A i \in DOMAIN g.env : g.env[i] \in V
    BY DEF Range
  <2>2. [i \in DOMAIN g.env |-> e[g.env[i]]]
          = [i \in DOMAIN g.env |->
              LET x == g.env[i]
              IN  CASE x.var \in DOMAIN overrides -> << <<"export", x.var, overrides[x.var]>> >>
                    [] x.var \notin DOMAIN overrides /\ x.sensitive -> <<>>
                    [] OTHER -> << <<"export", x.var, x.default>> >>]
    BY <2>1 DEF ExportFor
  <2> HIDE DEF e
  <2> QED
    BY <2>2 DEF EmitExports, Bind
<1> HIDE DEF V, L, e
<1>6. Bind(e, g.env) \in Seq(L)
  BY <1>1, <1>4, BindSteps
<1>7. ASSUME NEW l \in Range(Bind(e, g.env))
      PROVE  \E x \in V : /\ l[1] = "export" /\ l[2] = x.var
                          /\ \/ x.var \in DOMAIN overrides /\ l[3] = overrides[x.var]
                             \/ x.var \notin DOMAIN overrides /\ ~x.sensitive
  <2>1. PICK x \in V : l \in Range(e[x])
    BY <1>1, <1>4, <1>7, BindRange DEF V
  <2>2. \/ x.var \in DOMAIN overrides /\ l = Given(x)
        \/ x.var \notin DOMAIN overrides /\ ~x.sensitive /\ l = Declared(x)
    <3> HIDE DEF Given, Declared
    <3>1. \A y : l \in Range(<<y>>) => l = y
      BY RangeSmall
    <3>2. l \notin Range(<<>>)
      BY RangeSmall
    <3> QED
      BY <1>3, <2>1, <3>1, <3>2, Zenon
  <2> QED
    BY <2>2
<1> QED
  BY <1>5, <1>6, <1>7 DEF V, L

(* What a script runs, whatever is overridden.                             *)
Chosen(S, g, overrides, ci) ==
  [s \in S |-> IF IsIncluded(g, overrides, ci, s) THEN <<StepCommand(s)>> ELSE <<>>]

LEMMA StepsAre ==
  ASSUME NEW S, NEW g, NEW overrides, NEW ci, NEW steps \in Seq(S)
  PROVE  /\ EmitSteps(g, overrides, ci, steps) \in Seq(StepCommands(S))
         /\ \A l \in Range(EmitSteps(g, overrides, ci, steps)) :
              \E s \in Range(steps) : l = StepCommand(s) /\ IsIncluded(g, overrides, ci, s)
<1> DEFINE C == StepCommands(S)
           e == Chosen(S, g, overrides, ci)
<1>1. Makes(e, S, C)
  <2>1. <<>> \in Seq(C) /\ \A c \in C : <<c>> \in Seq(C)
    OBVIOUS
  <2>2. \A s \in S : StepCommand(s) \in C
    BY DEF StepCommands
  <2>3. e = [s \in S |-> e[s]]
    BY DEF Chosen
  <2> HIDE DEF C
  <2>4. \A s \in S : e[s] \in Seq(C)
    BY <2>1, <2>2 DEF Chosen
  <2> QED
    BY <2>3, <2>4 DEF Makes
<1>2. EmitSteps(g, overrides, ci, steps) = Bind(e, steps)
  <2>1. \A i \in DOMAIN steps : steps[i] \in S
    OBVIOUS
  <2>2. \A i \in DOMAIN steps :
          e[steps[i]] = IF IsIncluded(g, overrides, ci, steps[i])
                        THEN << <<"run", steps[i].run, steps[i].branch>> >> ELSE <<>>
    BY <2>1 DEF Chosen, StepCommand
  <2> HIDE DEF e
  <2>3. [i \in DOMAIN steps |-> e[steps[i]]]
          = [i \in DOMAIN steps |-> IF IsIncluded(g, overrides, ci, steps[i])
                                    THEN << <<"run", steps[i].run, steps[i].branch>> >> ELSE <<>>]
    BY <2>2
  <2> QED
    BY <2>3 DEF EmitSteps, Bind
<1>3. \A s \in Range(steps) : s \in S
  BY DEF Range
<1>4. \A s \in S : e[s] = IF IsIncluded(g, overrides, ci, s) THEN <<StepCommand(s)>> ELSE <<>>
  BY DEF Chosen
<1> HIDE DEF e, C
<1>5. Bind(e, steps) \in Seq(C)
  BY <1>1, BindSteps
<1>6. ASSUME NEW l \in Range(Bind(e, steps))
      PROVE  \E s \in Range(steps) : l = StepCommand(s) /\ IsIncluded(g, overrides, ci, s)
  <2>1. PICK s \in Range(steps) : l \in Range(e[s])
    BY <1>1, <1>6, BindRange
  <2>2. IsIncluded(g, overrides, ci, s) /\ e[s] = <<StepCommand(s)>>
    BY <1>3, <1>4, <2>1, RangeSmall
  <2> QED
    BY <2>1, <2>2, RangeSmall
<1> QED
  BY <1>2, <1>5, <1>6 DEF C

(* A guide declares a variable once.                                       *)
LEMMA DeclaredOnce ==
  ASSUME NEW g, ParseOk(g), NEW x \in Range(g.env), NEW y \in Range(g.env), x.var = y.var
  PROVE  x = y
<1>1. PICK i \in DOMAIN g.env : x = g.env[i]
  BY DEF Range
<1>2. PICK j \in DOMAIN g.env : y = g.env[j]
  BY DEF Range
<1>3. i = j
  BY <1>1, <1>2 DEF ParseOk
<1> QED
  BY <1>1, <1>2, <1>3

(* The lines of a script.                                                  *)
LEMMA ScriptLines ==
  ASSUME NEW g, IsGuide(g), NEW overrides, NEW ci, NEW section \in DOMAIN g.steps,
         NEW l \in Range(Emit(g, overrides, ci, section))
  PROVE  \/ /\ l[1] = "export"
            /\ \E x \in Range(g.env) :
                 /\ l[2] = x.var
                 /\ \/ x.var \in DOMAIN overrides /\ l[3] = overrides[x.var]
                    \/ x.var \notin DOMAIN overrides /\ ~x.sensitive
         \/ l[1] = "source"
         \/ \E s \in Range(g.steps[section]) : l = StepCommand(s) /\ IsIncluded(g, overrides, ci, s)
<1> DEFINE a == EmitExports(g, overrides)
           source == <<"source", "", "">>
           b == IF g.source THEN <<source>> ELSE <<>>
           c == EmitSteps(g, overrides, ci, g.steps[section])
           S == Range(g.steps[section])
           A == ExportLines(g, overrides)
           C == StepCommands(S)
           T == A \cup {source} \cup C
<1>1. Emit(g, overrides, ci, section) = (a \o b) \o c
  <2>1. EmitEnv(g, overrides) = a \o b
    BY Zenon DEF EmitEnv
  <2>2. Emit(g, overrides, ci, section) = EmitEnv(g, overrides) \o c
    BY Zenon DEF Emit
  <2> HIDE DEF a, b, c
  <2> QED
    BY <2>1, <2>2
<1>2. source[1] = "source"
  OBVIOUS
<1>3. g.steps[section] \in Seq(S)
  BY DEF IsGuide
<1>4. c \in Seq(C) /\ \A x \in Range(c) :
                        \E s \in S : x = StepCommand(s) /\ IsIncluded(g, overrides, ci, s)
  BY <1>3, StepsAre, ZenonT(30)
<1>5. a \in Seq(A)
  BY ExportsAre
<1> HIDE DEF source, a, c, A, C
<1>6. b \in Seq({source}) /\ \A x \in Range(b) : x = source
  <2>1. <<>> \in Seq({source}) /\ <<source>> \in Seq({source})
    OBVIOUS
  <2> QED
    BY <2>1, RangeSmall
<1> HIDE DEF b
<1>7. a \in Seq(T) /\ b \in Seq(T) /\ c \in Seq(T)
  <2>1. Seq(A) \subseteq Seq(T) /\ Seq({source}) \subseteq Seq(T) /\ Seq(C) \subseteq Seq(T)
    OBVIOUS
  <2> QED
    BY <1>4, <1>5, <1>6, <2>1
<1> HIDE DEF T
<1>8. a \o b \in Seq(T) /\ Range(a \o b) = Range(a) \cup Range(b)
  BY <1>7, RangeConcatenation
<1>9. Range((a \o b) \o c) = (Range(a) \cup Range(b)) \cup Range(c)
  <2> DEFINE ab == a \o b
  <2>1. ab \in Seq(T) /\ Range(ab) = Range(a) \cup Range(b)
    BY <1>8
  <2> HIDE DEF ab
  <2>2. Range(ab \o c) = Range(ab) \cup Range(c)
    BY <1>7, <2>1, RangeConcatenation
  <2> QED
    BY <2>1, <2>2 DEF ab
<1>10. CASE l \in Range(a)
  BY <1>10, ExportsAre DEF a
<1>11. CASE l \in Range(b)
  BY <1>2, <1>6, <1>11
<1>12. CASE l \in Range(c)
  BY <1>4, <1>12
<1> QED
  BY <1>1, <1>9, <1>10, <1>11, <1>12

(* SECRETS STAY OUT.  A placeholder stays in the page it is written for: a *)
(* runner of a page that the check found current never exports it; no      *)
(* script does, for CI or not, but with the credential that is given for   *)
(* it; and no step is in a script by a filter on a placeholder for which   *)
(* no credential is given.                                                 *)
THEOREM PlaceholdersStay == Spec => []SecretsStayOut
<1>1. ASSUME TypeOK, IInv, NEW d \in Dir
      PROVE  LET g == yaml[d]
                 secret == {x.var : x \in {x \in Range(g.env) : x.sensitive}}
             IN  gate = "green" /\ d \in CiTargets =>
                   \A r \in Range(readme[d].regions) : \A l \in Range(Harvest(r.body)) :
                     ~(l[1] = "export" /\ l[2] \in secret)
  <2> DEFINE g == yaml[d]
             md == readme[d]
             secret == {x.var : x \in {x \in Range(g.env) : x.sensitive}}
  <2> SUFFICES ASSUME gate = "green", d \in CiTargets,
                      NEW r \in Range(md.regions), NEW l \in Range(Harvest(r.body)),
                      l[1] = "export", l[2] \in secret
               PROVE  FALSE
    OBVIOUS
  <2>1. Current
    BY <1>1 DEF IInv
  <2>2. IsGuide(g) /\ IsReadme(md)
    BY <1>1 DEF TypeOK
  <2>3. Renders(g, md) /\ RenderMd(g, md) = md /\ ParseOk(g)
    BY <2>1 DEF Current, IsCurrent, Rendered, Checked, Check
  <2> HIDE DEF g, md
  <2>4. ExportsOf(g, r.body)
    BY <2>2, <2>3, RenderedPage
  <2>5. PICK x \in Range(g.env) : ~x.sensitive /\ l[2] = x.var
    BY <2>4 DEF ExportsOf
  <2>6. PICK y \in Range(g.env) : y.sensitive /\ l[2] = y.var
    OBVIOUS
  <2> HIDE DEF secret
  <2>7. x = y
    BY <2>3, <2>5, <2>6, DeclaredOnce
  <2> QED
    BY <2>5, <2>6, <2>7
<1>2. ASSUME TypeOK, NEW d \in Dir
      PROVE  LET g == yaml[d]
                 secret == {x.var : x \in {x \in Range(g.env) : x.sensitive}}
             IN  ParseOk(g) => \A given \in SUBSET secret, ci \in BOOLEAN, section \in DOMAIN g.steps :
                   LET overrides == [var \in given |-> "credential"] IN
                   EmitOk(g, overrides, ci, section) =>
                     /\ \A l \in Range(Emit(g, overrides, ci, section)) :
                          l[1] = "export" /\ l[2] \in secret => l[3] = "credential"
                     /\ \A s \in Range(g.steps[section]) :
                          /\ <<"run", s.run, s.branch>> \in Range(Emit(g, overrides, ci, section))
                          /\ \A t \in Range(g.steps[section]) : t.run = s.run => t = s
                          => DOMAIN s.when \cap secret \subseteq given
  <2> DEFINE g == yaml[d]
             secret == {x.var : x \in {x \in Range(g.env) : x.sensitive}}
  <2> SUFFICES ASSUME ParseOk(g), NEW given \in SUBSET secret, NEW ci \in BOOLEAN,
                      NEW section \in DOMAIN g.steps
               PROVE  LET overrides == [var \in given |-> "credential"] IN
                      /\ \A l \in Range(Emit(g, overrides, ci, section)) :
                           l[1] = "export" /\ l[2] \in secret => l[3] = "credential"
                      /\ \A s \in Range(g.steps[section]) :
                           /\ <<"run", s.run, s.branch>> \in Range(Emit(g, overrides, ci, section))
                           /\ \A t \in Range(g.steps[section]) : t.run = s.run => t = s
                           => DOMAIN s.when \cap secret \subseteq given
    OBVIOUS
  <2> DEFINE overrides == [var \in given |-> "credential"]
  <2>1. IsGuide(g)
    BY <1>2 DEF TypeOK
  <2>2. DOMAIN overrides = given /\ \A var \in given : overrides[var] = "credential"
    OBVIOUS
  <2> HIDE DEF g, overrides
  <2>3. ASSUME NEW l \in Range(Emit(g, overrides, ci, section)), l[1] = "export", l[2] \in secret
        PROVE  l[3] = "credential"
    <3>1. \A s : StepCommand(s)[1] = "run"
      BY DEF StepCommand
    <3>2. PICK x \in Range(g.env) :
            /\ l[2] = x.var
            /\ \/ x.var \in DOMAIN overrides /\ l[3] = overrides[x.var]
               \/ x.var \notin DOMAIN overrides /\ ~x.sensitive
      BY <2>1, <2>3, <3>1, ScriptLines
    <3>3. PICK y \in Range(g.env) : y.sensitive /\ l[2] = y.var
      BY <2>3
    <3>4. x = y
      BY <3>2, <3>3, DeclaredOnce
    <3> QED
      BY <2>2, <3>2, <3>3, <3>4
  <2>4. ASSUME NEW s \in Range(g.steps[section]),
               <<"run", s.run, s.branch>> \in Range(Emit(g, overrides, ci, section)),
               \A t \in Range(g.steps[section]) : t.run = s.run => t = s,
               NEW var \in DOMAIN s.when \cap secret
        PROVE  var \in given
    <3> DEFINE l == StepCommand(s)
    <3>1. l \in Range(Emit(g, overrides, ci, section))
      BY <2>4 DEF StepCommand
    <3>2. l[1] = "run"
      BY DEF StepCommand
    <3> HIDE DEF l
    <3>3. PICK t \in Range(g.steps[section]) : l = StepCommand(t) /\ IsIncluded(g, overrides, ci, t)
      BY <2>1, <3>1, <3>2, ScriptLines
    <3>4. t.run = s.run
      BY <3>3 DEF l, StepCommand
    <3>5. ~IsPlaceholder(g, overrides, var)
      BY <2>4, <3>3, <3>4 DEF IsIncluded
    <3>6. \E x \in Declarations(g, var) : x.sensitive
      BY <2>4 DEF Declarations
    <3> QED
      BY <2>2, <3>5, <3>6 DEF IsPlaceholder
  <2> QED
    BY <2>3, <2>4 DEF overrides, g
<1>3. ASSUME TypeOK, IInv PROVE SecretsStayOut
  BY <1>1, <1>2, <1>3 DEF SecretsStayOut
<1> QED
  BY <1>3, Invariant, TypeCorrect, PTL

===============================================================================
