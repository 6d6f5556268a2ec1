--------------------------- MODULE ConversationProof ---------------------------
(***************************************************************************)
(* Conversation, for any scenes.                                           *)
(***************************************************************************)
EXTENDS Conversation, SequenceTheorems, FiniteSetTheorems, WellFoundedInduction, TLAPS

(***************************************************************************)
(* Induction over the positions of a sequence, and the functions that are  *)
(* defined by recursion over them.                                         *)
(***************************************************************************)
LEMMA LeastElement ==
    ASSUME NEW S \in SUBSET Nat, S # {}
    PROVE  \E m \in S : \A x \in S : m <= x
<1> DEFINE R == {r \in Nat \X Nat : r[1] < r[2]}
<1>1. R = OpToRel(<, Nat)
  BY Zenon DEF OpToRel
<1>2. IsWellFoundedOn(R, Nat)
  BY <1>1, NatLessThanWellFounded, Zenon
<1> HIDE DEF R
<1>3. PICK m \in S : \A x \in S : ~ (<<x, m>> \in R)
  BY <1>2, WFMin, Zenon
<1>4. \A x \in Nat : x < m => <<x, m>> \in R
  BY DEF R
<1>5. \A x \in S : m <= x
  <2> SUFFICES ASSUME NEW x \in S PROVE m <= x
    OBVIOUS
  <2>1. ~ (x < m)
    BY <1>3, <1>4
  <2> QED  BY <2>1
<1> QED  BY <1>5

\* What holds at 0 and passes on from each position to the next holds at each.
LEMMA UpTo ==
    ASSUME NEW N \in Nat, NEW S, 0 \in S, \A n \in 0..N : n \in S /\ n < N => n + 1 \in S
    PROVE  0..N \subseteq S
<1> SUFFICES ASSUME ~ (0..N \subseteq S) PROVE FALSE
  OBVIOUS
<1> DEFINE T == {n \in 0..N : n \notin S}
<1>1. PICK m \in T : \A x \in T : m <= x
  <2>1. T # {} /\ T \in SUBSET Nat
    OBVIOUS
  <2> HIDE DEF T
  <2> QED  BY <2>1, LeastElement
<1>2. m \in 0..N /\ m # 0
  OBVIOUS
<1>3. m - 1 \in 0..N /\ m - 1 < N
  BY <1>2
<1>4. m - 1 \in S
  BY <1>1, <1>3
<1> QED  BY <1>3, <1>4, <1>2

Solves(f, N, base, step) == f = [n \in 0..N |-> IF n = 0 THEN base ELSE step[<<n, f[n - 1]>>]]

\* A recursion whose steps stay within a set is a function into it.
LEMMA Recursion ==
    ASSUME NEW N \in Nat, NEW X, NEW base \in X, NEW step \in [(1..N) \X X -> X]
    PROVE  \E f \in [0..N -> X] : Solves(f, N, base, step)
<1> DEFINE S == {k \in 0..N : \E f \in [0..k -> X] :
                    f[0] = base /\ \A n \in 1..k : f[n] = step[<<n, f[n - 1]>>]}
<1>1. 0 \in S
  <2> DEFINE f == [n \in 0..0 |-> base]
  <2>1. f \in [0..0 -> X] /\ f[0] = base /\ \A n \in 1..0 : f[n] = step[<<n, f[n - 1]>>]
    OBVIOUS
  <2> HIDE DEF f
  <2>2. \E h \in [0..0 -> X] : h[0] = base /\ \A n \in 1..0 : h[n] = step[<<n, h[n - 1]>>]
    BY <2>1
  <2> QED  BY <2>2
<1>2. ASSUME NEW k \in 0..N, k \in S, k < N PROVE k + 1 \in S
  <2>1. PICK f \in [0..k -> X] : f[0] = base /\ \A n \in 1..k : f[n] = step[<<n, f[n - 1]>>]
    BY <1>2
  <2> DEFINE g == [n \in 0..(k + 1) |-> IF n <= k THEN f[n] ELSE step[<<k + 1, f[k]>>]]
  <2>2. <<k + 1, f[k]>> \in (1..N) \X X
    BY <1>2, <2>1
  <2>3. g \in [0..(k + 1) -> X]
    BY <1>2, <2>1, <2>2
  <2>4. \A n \in 0..k : g[n] = f[n]
    BY <1>2
  <2>5. k + 1 \in 0..N /\ g[k + 1] = step[<<k + 1, f[k]>>]
    BY <1>2
  <2> HIDE DEF g
  <2>6. g[0] = base
    BY <1>2, <2>1, <2>4
  <2>7. ASSUME NEW n \in 1..(k + 1) PROVE g[n] = step[<<n, g[n - 1]>>]
    <3>1. CASE n = k + 1
      BY <1>2, <2>4, <2>5, <3>1
    <3>2. CASE n # k + 1
      <4>1. n \in 1..k /\ n \in 0..k /\ n - 1 \in 0..k
        BY <1>2, <3>2
      <4> QED  BY <2>1, <2>4, <4>1
    <3> QED  BY <3>1, <3>2
  <2> QED  BY <2>3, <2>5, <2>6, <2>7
<1>3. N \in S
  <2> HIDE DEF S
  <2> QED  BY <1>1, <1>2, UpTo
<1>4. PICK f \in [0..N -> X] : f[0] = base /\ \A n \in 1..N : f[n] = step[<<n, f[n - 1]>>]
  BY <1>3
<1>5. Solves(f, N, base, step)
  <2>1. ASSUME NEW n \in 0..N PROVE f[n] = IF n = 0 THEN base ELSE step[<<n, f[n - 1]>>]
    BY <1>4
  <2> QED  BY <1>4, <2>1 DEF Solves
<1> QED  BY <1>5

\* What holds of the empty sequence and passes on when an element is appended holds
\* of every sequence.
LEMMA ByAppending ==
    ASSUME NEW S, NEW P, <<>> \in P, \A s \in Seq(S), x \in S : s \in P => Append(s, x) \in P
    PROVE  Seq(S) \subseteq P
<1> SUFFICES ASSUME NEW s \in Seq(S) PROVE s \in P
  OBVIOUS
<1> DEFINE T == {n \in 0..Len(s) : SubSeq(s, 1, n) \in P}
<1>1. Len(s) \in Nat /\ DOMAIN s = 1..Len(s)
  OBVIOUS
<1>2. 0 \in T
  <2>1. SubSeq(s, 1, 0) = <<>>
    BY <1>1
  <2>2. SubSeq(s, 1, 0) \in P
    BY <2>1, Zenon
  <2> QED  BY <1>1, <2>2
<1>3. ASSUME NEW n \in 0..Len(s), n \in T, n < Len(s) PROVE n + 1 \in T
  <2>1. SubSeq(s, 1, n) \in Seq(S) /\ s[n + 1] \in S /\ n + 1 \in 0..Len(s)
    BY <1>1, <1>3
  <2>2. SubSeq(s, 1, n + 1) = Append(SubSeq(s, 1, n), s[n + 1])
    BY <1>1, <1>3
  <2>3. SubSeq(s, 1, n) \in P
    BY <1>3
  <2>4. Append(SubSeq(s, 1, n), s[n + 1]) \in P
    BY <2>1, <2>3
  <2> QED  BY <2>1, <2>2, <2>4
<1>4. Len(s) \in T
  <2> HIDE DEF T
  <2>1. 0..Len(s) \subseteq T
    BY <1>1, <1>2, <1>3, UpTo, Zenon
  <2> QED  BY <1>1, <2>1
<1>5. SubSeq(s, 1, Len(s)) = s
  BY <1>1
<1> QED  BY <1>4, <1>5

(***************************************************************************)
(* Sequences end to end.                                                   *)
(***************************************************************************)
Flat(seqs) == SX!FlattenSeq(seqs)

\* The first sequences end to end, for every number of them.
Flattens(f, seqs) ==
    /\ f[0] = <<>>
    /\ \A n \in 1..Len(seqs) : f[n] = f[n - 1] \o seqs[n]

LEMMA FlattensExists ==
    ASSUME NEW S, NEW seqs \in Seq(Seq(S))
    PROVE  \E f \in [0..Len(seqs) -> Seq(S)] : Flattens(f, seqs)
<1> DEFINE N == Len(seqs)
           X == Seq(S)
           step == [k \in (1..N) \X X |-> k[2] \o seqs[k[1]]]
<1>1. N \in Nat /\ <<>> \in X
  OBVIOUS
<1>2. ASSUME NEW n \in 1..N, NEW x \in X PROVE x \o seqs[n] \in X
  OBVIOUS
<1>3. step \in [(1..N) \X X -> X]
  BY <1>2
<1>4. \A n \in 1..N, x \in X : step[<<n, x>>] = x \o seqs[n]
  OBVIOUS
<1> HIDE DEF N, X, step
<1>5. PICK f \in [0..N -> X] : Solves(f, N, <<>>, step)
  BY <1>1, <1>3, Recursion
<1>6. f[0] = <<>>
  BY <1>1, <1>5 DEF Solves
<1>7. ASSUME NEW n \in 1..N PROVE f[n] = f[n - 1] \o seqs[n]
  <2>1. n \in 0..N /\ n - 1 \in 0..N /\ n # 0
    BY <1>1
  <2>2. f[n] = step[<<n, f[n - 1]>>]
    BY <1>5, <2>1 DEF Solves
  <2> QED  BY <1>4, <2>1, <2>2
<1> QED  BY <1>6, <1>7 DEF Flattens, N, X

LEMMA FlatIs ==
    ASSUME NEW S, NEW seqs \in Seq(Seq(S)),
           NEW f \in [0..Len(seqs) -> Seq(S)], Flattens(f, seqs)
    PROVE  Flat(seqs) = f[Len(seqs)]
<1> DEFINE N == Len(seqs)
<1>1. N \in Nat
  OBVIOUS
<1>2. CASE N = 0
  BY <1>2 DEF Flattens, Flat, SX!FlattenSeq
<1>3. CASE N # 0
  <2> DEFINE Eq(g) == g = [i \in 1..N |-> IF i = 1 THEN seqs[i] ELSE g[i - 1] \o seqs[i]]
             g0 == [i \in 1..N |-> f[i]]
             g == CHOOSE h : Eq(h)
  <2>1. Eq(g0)
    <3>1. ASSUME NEW i \in 1..N PROVE g0[i] = IF i = 1 THEN seqs[i] ELSE g0[i - 1] \o seqs[i]
      <4>1. f[i] = f[i - 1] \o seqs[i] /\ seqs[i] \in Seq(S) /\ i \in Int
        BY DEF Flattens
      <4>2. CASE i = 1
        <5>0. i - 1 = 0 /\ f[0] = <<>>
          BY <4>2 DEF Flattens
        <5>1. f[i] = <<>> \o seqs[i] /\ i \in 1..N
          BY <4>1, <5>0
        <5>2. f[i] = seqs[i] /\ g0[i] = f[i]
          BY <4>1, <5>1
        <5> QED  BY <4>2, <5>2
      <4>3. CASE i # 1
        <5>1. i - 1 \in 1..N
          BY <1>1, <4>3
        <5> QED  BY <4>1, <4>3, <5>1
      <4> QED  BY <4>2, <4>3
    <3> QED  BY <3>1
  <2>2. Eq(g)
    <3>1. \E h : Eq(h)
      BY <2>1
    <3> HIDE DEF Eq
    <3> QED  BY <3>1
  <2>3. ASSUME NEW i \in 1..N PROVE g[i] = IF i = 1 THEN seqs[i] ELSE g[i - 1] \o seqs[i]
    BY <2>2
  <2>4. Flat(seqs) = g[N]
    BY <1>3 DEF Flat, SX!FlattenSeq
  <2> HIDE DEF g, Eq, g0
  <2> DEFINE T == {n \in 0..N : n = 0 \/ g[n] = f[n]}
  <2>5. 0 \in T
    BY <1>1
  <2>6. ASSUME NEW n \in 0..N, n \in T, n < N PROVE n + 1 \in T
    <3>1. n + 1 \in 1..N /\ (n + 1) - 1 = n /\ n \in Nat
      BY <1>1, <2>6
    <3>2. f[n + 1] = f[(n + 1) - 1] \o seqs[n + 1]
      BY <3>1 DEF Flattens
    <3>5. seqs[n + 1] \in Seq(S)
      BY <3>1
    <3>3. g[n + 1] = f[n + 1]
      <4>1. CASE n = 0
        <5>1. f[n + 1] = <<>> \o seqs[n + 1] /\ n + 1 = 1
          BY <3>1, <3>2, <4>1 DEF Flattens
        <5>2. g[n + 1] = seqs[n + 1]
          BY <2>3, <3>1, <5>1
        <5> HIDE DEF N
        <5> QED  BY <5>1, <5>2, <3>5
      <4>2. CASE n # 0
        <5>1. n + 1 # 1 /\ g[n] = f[n]
          BY <2>6, <4>2
        <5>2. g[n + 1] = g[(n + 1) - 1] \o seqs[n + 1]
          BY <2>3, <3>1, <5>1
        <5> QED  BY <3>1, <3>2, <5>1, <5>2
      <4> QED  BY <4>1, <4>2
    <3> QED  BY <3>1, <3>3
  <2>7. N \in T
    <3> HIDE DEF T, N
    <3>1. 0..N \subseteq T
      BY <1>1, <2>5, <2>6, UpTo, Zenon
    <3> QED  BY <1>1, <3>1
  <2> QED  BY <1>3, <2>4, <2>7
<1> QED  BY <1>2, <1>3

LEMMA FlatEmpty == Flat(<<>>) = <<>>
  BY DEF Flat, SX!FlattenSeq

LEMMA FlatAppend ==
    ASSUME NEW S, NEW seqs \in Seq(Seq(S)), NEW s \in Seq(S)
    PROVE  /\ Flat(seqs) \in Seq(S)
           /\ Flat(Append(seqs, s)) = Flat(seqs) \o s
<1> DEFINE N == Len(seqs)
           all == Append(seqs, s)
<1>1. PICK f \in [0..N -> Seq(S)] : Flattens(f, seqs)
  BY FlattensExists
<1>2. /\ N \in Nat /\ all \in Seq(Seq(S)) /\ Len(all) = N + 1
      /\ all[N + 1] = s /\ \A n \in 1..N : all[n] = seqs[n]
  OBVIOUS
<1>3. Flat(seqs) = f[N] /\ f[N] \in Seq(S)
  <2>1. Flat(seqs) = f[N]
    BY <1>1, FlatIs
  <2>2. f \in [0..N -> Seq(S)] /\ N \in 0..N
    BY <1>1, <1>2
  <2> HIDE DEF N
  <2> QED  BY <2>1, <2>2
<1> DEFINE g == [n \in 0..(N + 1) |-> IF n = N + 1 THEN f[N] \o s ELSE f[n]]
<1> HIDE DEF all, N
<1>4. /\ g \in [0..(N + 1) -> Seq(S)]
      /\ g[N + 1] = f[N] \o s /\ \A n \in 0..N : g[n] = f[n]
  BY <1>1, <1>2, <1>3
<1> HIDE DEF g
<1>5. Flattens(g, all)
  <2>1. g[0] = <<>>
    BY <1>1, <1>2, <1>4 DEF Flattens
  <2>2. ASSUME NEW n \in 1..(N + 1) PROVE g[n] = g[n - 1] \o all[n]
    <3>1. CASE n = N + 1
      <4>1. n - 1 = N /\ N \in 0..N
        BY <1>2, <3>1
      <4> QED  BY <1>2, <1>4, <3>1, <4>1
    <3>2. CASE n # N + 1
      <4>1. n \in 1..N /\ n \in 0..N /\ n - 1 \in 0..N
        BY <1>2, <3>2
      <4>2. f[n] = f[n - 1] \o seqs[n]
        BY <1>1, <4>1 DEF Flattens, N
      <4> QED  BY <1>2, <1>4, <4>1, <4>2
    <3> QED  BY <3>1, <3>2
  <2> QED  BY <1>2, <2>1, <2>2 DEF Flattens
<1>6. Flat(all) = g[N + 1]
  BY <1>2, <1>4, <1>5, FlatIs
<1> QED  BY <1>3, <1>4, <1>6 DEF all

\* What a function makes of the elements of a sequence, end to end.
Mapped(s, g) == Flat([n \in DOMAIN s |-> g[s[n]]])

Makes(g, S, T) == g \in [S -> Seq(T)]

LEMMA Made ==
    ASSUME NEW S, NEW T, NEW g, Makes(g, S, T), NEW x \in S
    PROVE  g[x] \in Seq(T)
BY DEF Makes

LEMMA MappedEmpty == \A g : Mapped(<<>>, g) = <<>>
<1> SUFFICES ASSUME NEW g PROVE Mapped(<<>>, g) = <<>>
  OBVIOUS
<1>1. [n \in DOMAIN <<>> |-> g[<<>>[n]]] = <<>>
  OBVIOUS
<1> QED  BY <1>1, FlatEmpty, Zenon DEF Mapped

LEMMA MappedAppend ==
    ASSUME NEW S, NEW T, NEW g, Makes(g, S, T), NEW s \in Seq(S), NEW x \in S
    PROVE  /\ Mapped(s, g) \in Seq(T)
           /\ Mapped(Append(s, x), g) = Mapped(s, g) \o g[x]
<1> DEFINE before == [n \in DOMAIN s |-> g[s[n]]]
           after == [n \in DOMAIN Append(s, x) |-> g[Append(s, x)[n]]]
<1>1. before \in Seq(Seq(T)) /\ g[x] \in Seq(T)
  BY DEF Makes
<1>2. after = Append(before, g[x])
  BY DEF Makes
<1> HIDE DEF before, after
<1>3. Flat(before) \in Seq(T) /\ Flat(after) = Flat(before) \o g[x]
  BY <1>1, <1>2, FlatAppend
<1> QED  BY <1>3, Zenon DEF Mapped, before, after

LEMMA MappedType ==
    ASSUME NEW S, NEW T, NEW g, Makes(g, S, T), NEW s \in Seq(S)
    PROVE  Mapped(s, g) \in Seq(T)
<1>1. CASE S = {}
  <2>1. s = <<>>
    <3>1. Len(s) = 0
      <4>1. \A n \in 1..Len(s) : s[n] \in S
        OBVIOUS
      <4> QED  BY <1>1, <4>1
    <3> QED  BY <3>1
  <2>2. Mapped(<<>>, g) \in Seq(T)
    <3>1. <<>> \in Seq(T)
      OBVIOUS
    <3> QED  BY <3>1, MappedEmpty, Zenon
  <2> QED  BY <2>1, <2>2
<1>2. CASE S # {}
  <2>1. PICK x \in S : TRUE
    BY <1>2
  <2>2. Mapped(s, g) \in Seq(T)
    BY MappedAppend
  <2> QED  BY <2>2
<1> QED  BY <1>1, <1>2

LEMMA MappedOne ==
    ASSUME NEW S, NEW T, NEW g, Makes(g, S, T), NEW x \in S
    PROVE  Mapped(<<x>>, g) = g[x]
<1>1. <<>> \in Seq(S) /\ Append(<<>>, x) = <<x>>
  OBVIOUS
<1>2. Mapped(Append(<<>>, x), g) = Mapped(<<>>, g) \o g[x]
  <2> DEFINE none == <<>>
  <2>1. none \in Seq(S)
    OBVIOUS
  <2> HIDE DEF none
  <2>2. Mapped(Append(none, x), g) = Mapped(none, g) \o g[x]
    BY <2>1, MappedAppend
  <2> QED  BY <2>2 DEF none
<1>3. g[x] \in Seq(T)
  BY Made
<1>4. <<>> \o g[x] = g[x]
  BY <1>3, ConcatEmptySeq
<1>5. Mapped(<<x>>, g) = Mapped(<<>>, g) \o g[x]
  BY <1>1, <1>2, Zenon
<1> QED  BY <1>4, <1>5, MappedEmpty, Zenon

LEMMA MappedConcat ==
    ASSUME NEW S, NEW T, NEW g, Makes(g, S, T), NEW s \in Seq(S), NEW t \in Seq(S)
    PROVE  Mapped(s \o t, g) = Mapped(s, g) \o Mapped(t, g)
<1> DEFINE P == {r \in Seq(S) : Mapped(s \o r, g) = Mapped(s, g) \o Mapped(r, g)}
<1>1. <<>> \in P
  <2>1. s \o <<>> = s /\ Mapped(s, g) \in Seq(T)
    BY MappedType, ConcatEmptySeq
  <2>2. Mapped(s, g) \o <<>> = Mapped(s, g)
    BY <2>1, ConcatEmptySeq
  <2>3. Mapped(s \o <<>>, g) = Mapped(s, g) \o Mapped(<<>>, g)
    BY <2>1, <2>2, MappedEmpty, Zenon
  <2>4. <<>> \in Seq(S)
    OBVIOUS
  <2> QED  BY <2>3, <2>4
<1>2. ASSUME NEW r \in Seq(S), NEW x \in S, r \in P PROVE Append(r, x) \in P
  <2>1. s \o r \in Seq(S) /\ s \o Append(r, x) = Append(s \o r, x) /\ Append(r, x) \in Seq(S)
    OBVIOUS
  <2>2. Mapped(s \o Append(r, x), g) = Mapped(s \o r, g) \o g[x]
    <3> DEFINE sr == s \o r
    <3>1. sr \in Seq(S) /\ s \o Append(r, x) = Append(sr, x)
      BY <2>1
    <3> HIDE DEF sr
    <3>2. Mapped(Append(sr, x), g) = Mapped(sr, g) \o g[x]
      BY <3>1, MappedAppend
    <3> QED  BY <3>1, <3>2, Zenon DEF sr
  <2>3. Mapped(Append(r, x), g) = Mapped(r, g) \o g[x]
    BY MappedAppend
  <2>4. Mapped(s, g) \in Seq(T) /\ Mapped(r, g) \in Seq(T) /\ g[x] \in Seq(T)
    <3>1. Mapped(s, g) \in Seq(T) /\ Mapped(r, g) \in Seq(T)
      BY MappedType
    <3> QED  BY <3>1, Made
  <2>5. Mapped(s \o r, g) = Mapped(s, g) \o Mapped(r, g)
    BY <1>2
  <2>6. (Mapped(s, g) \o Mapped(r, g)) \o g[x] = Mapped(s, g) \o (Mapped(r, g) \o g[x])
    <3> DEFINE a == Mapped(s, g)
               b == Mapped(r, g)
               c == g[x]
    <3>1. a \in Seq(T) /\ b \in Seq(T) /\ c \in Seq(T)
      BY <2>4
    <3> HIDE DEF a, b, c
    <3>2. (a \o b) \o c = a \o (b \o c)
      BY <3>1
    <3> QED  BY <3>2 DEF a, b, c
  <2>7. Mapped(s \o Append(r, x), g) = Mapped(s, g) \o Mapped(Append(r, x), g)
    BY <2>2, <2>3, <2>5, <2>6, Zenon
  <2> QED  BY <2>1, <2>7
<1>3. Seq(S) \subseteq P
  <2> HIDE DEF P
  <2> QED  BY <1>1, <1>2, ByAppending
<1> QED  BY <1>3

\* A function on what another made.
Through(S, g, h) == [x \in S |-> Mapped(g[x], h)]

LEMMA MappedTwice ==
    ASSUME NEW S, NEW T, NEW U, NEW g, NEW h, Makes(g, S, T), Makes(h, T, U), NEW s \in Seq(S)
    PROVE  /\ Makes(Through(S, g, h), S, U)
           /\ Mapped(Mapped(s, g), h) = Mapped(s, Through(S, g, h))
<1>0. Makes(Through(S, g, h), S, U)
  BY MappedType, Made DEF Through, Makes
<1> DEFINE P == {r \in Seq(S) : Mapped(Mapped(r, g), h) = Mapped(r, Through(S, g, h))}
<1>1. <<>> \in P
  BY MappedEmpty
<1>2. ASSUME NEW r \in Seq(S), NEW x \in S, r \in P PROVE Append(r, x) \in P
  <2>1. Mapped(r, g) \in Seq(T) /\ g[x] \in Seq(T) /\ Append(r, x) \in Seq(S)
    <3>1. Mapped(r, g) \in Seq(T)
      BY MappedType
    <3>2. Append(r, x) \in Seq(S)
      OBVIOUS
    <3> QED  BY <3>1, <3>2, Made
  <2>2. Mapped(Append(r, x), g) = Mapped(r, g) \o g[x]
    BY MappedAppend
  <2>3. Mapped(Mapped(r, g) \o g[x], h) = Mapped(Mapped(r, g), h) \o Mapped(g[x], h)
    BY <2>1, MappedConcat
  <2>4. Mapped(Append(r, x), Through(S, g, h)) = Mapped(r, Through(S, g, h)) \o Through(S, g, h)[x]
    BY <1>0, MappedAppend
  <2>5. Through(S, g, h)[x] = Mapped(g[x], h)
    BY DEF Through
  <2> QED  BY <1>2, <2>1, <2>2, <2>3, <2>4, <2>5
<1>3. Seq(S) \subseteq P
  <2> HIDE DEF P
  <2> QED  BY <1>1, <1>2, ByAppending
<1> QED  BY <1>0, <1>3

LEMMA MappedAlike ==
    ASSUME NEW S, NEW s \in Seq(S), NEW g, NEW h, \A x \in S : g[x] = h[x]
    PROVE  Mapped(s, g) = Mapped(s, h)
<1>1. \A n \in DOMAIN s : g[s[n]] = h[s[n]]
  OBVIOUS
<1>2. [n \in DOMAIN s |-> g[s[n]]] = [n \in DOMAIN s |-> h[s[n]]]
  BY <1>1
<1> QED  BY <1>2, Zenon DEF Mapped

LEMMA MappedLength ==
    ASSUME NEW S, NEW T, NEW U, NEW g, NEW h, Makes(g, S, T), Makes(h, S, U),
           NEW s \in Seq(S), \A x \in S : Len(g[x]) = Len(h[x])
    PROVE  Len(Mapped(s, g)) = Len(Mapped(s, h))
<1> DEFINE P == {r \in Seq(S) : Len(Mapped(r, g)) = Len(Mapped(r, h))}
<1>1. <<>> \in P
  BY MappedEmpty
<1>2. ASSUME NEW r \in Seq(S), NEW x \in S, r \in P PROVE Append(r, x) \in P
  <2>1. /\ Mapped(r, g) \in Seq(T) /\ g[x] \in Seq(T)
        /\ Mapped(r, h) \in Seq(U) /\ h[x] \in Seq(U) /\ Append(r, x) \in Seq(S)
    <3>1. Mapped(r, g) \in Seq(T) /\ Mapped(r, h) \in Seq(U)
      BY MappedType
    <3>2. Append(r, x) \in Seq(S)
      OBVIOUS
    <3> QED  BY <3>1, <3>2, Made
  <2>2. /\ Mapped(Append(r, x), g) = Mapped(r, g) \o g[x]
        /\ Mapped(Append(r, x), h) = Mapped(r, h) \o h[x]
    <3>1. Mapped(Append(r, x), g) = Mapped(r, g) \o g[x]
      BY MappedAppend
    <3>2. Mapped(Append(r, x), h) = Mapped(r, h) \o h[x]
      BY MappedAppend
    <3> QED  BY <3>1, <3>2
  <2>3. /\ Len(Mapped(r, g) \o g[x]) = Len(Mapped(r, g)) + Len(g[x])
        /\ Len(Mapped(r, h) \o h[x]) = Len(Mapped(r, h)) + Len(h[x])
    BY <2>1
  <2> QED  BY <1>2, <2>1, <2>2, <2>3
<1>3. Seq(S) \subseteq P
  <2> HIDE DEF P
  <2> QED  BY <1>1, <1>2, ByAppending
<1> QED  BY <1>3

\* One by one.
EachOf(s, f) == [n \in DOMAIN s |-> f[s[n]]]
Gives(f, S, T) == f \in [S -> T]

LEMMA EachAppend ==
    ASSUME NEW S, NEW T, NEW f, Gives(f, S, T), NEW r \in Seq(S), NEW x \in S
    PROVE  EachOf(r, f) \in Seq(T) /\ EachOf(Append(r, x), f) = Append(EachOf(r, f), f[x])
<1> DEFINE before == EachOf(r, f)
           after == EachOf(Append(r, x), f)
<1>1. before \in Seq(T) /\ f[x] \in T
  BY DEF EachOf, Gives
<1>2. Append(r, x) \in Seq(S) /\ Len(Append(r, x)) = Len(r) + 1 /\ Len(r) \in Nat
  OBVIOUS
<1>3. after = Append(before, f[x])
  <2>1. after \in Seq(T) /\ Append(before, f[x]) \in Seq(T)
    BY <1>1, <1>2 DEF EachOf, Gives
  <2>2. Len(after) = Len(r) + 1 /\ Len(Append(before, f[x])) = Len(r) + 1
    BY <1>1, <1>2 DEF EachOf, Gives
  <2>3. ASSUME NEW n \in 1..(Len(r) + 1) PROVE after[n] = Append(before, f[x])[n]
    <3>1. after[n] = f[Append(r, x)[n]]
      BY <1>2 DEF EachOf, Gives
    <3>2. CASE n = Len(r) + 1
      BY <1>1, <1>2, <3>1, <3>2 DEF EachOf, Gives
    <3>3. CASE n # Len(r) + 1
      BY <1>1, <1>2, <3>1, <3>3 DEF EachOf, Gives
    <3> QED  BY <3>2, <3>3
  <2> HIDE DEF before, after
  <2> QED  BY <2>1, <2>2, <2>3, SeqEqual
<1> QED  BY <1>1, <1>3

LEMMA EachIsMapped ==
    ASSUME NEW S, NEW T, NEW f, Gives(f, S, T), NEW s \in Seq(S)
    PROVE  /\ Makes([x \in S |-> <<f[x]>>], S, T)
           /\ EachOf(s, f) = Mapped(s, [x \in S |-> <<f[x]>>])
<1> DEFINE g == [x \in S |-> <<f[x]>>]
           P == {r \in Seq(S) : EachOf(r, f) = Mapped(r, g)}
<1>0. Makes(g, S, T) /\ \A x \in S : g[x] = <<f[x]>>
  BY DEF Makes, Gives
<1>1. <<>> \in P
  <2>1. EachOf(<<>>, f) = <<>>
    BY DEF EachOf
  <2> QED  BY <2>1, MappedEmpty
<1>2. ASSUME NEW r \in Seq(S), NEW x \in S, r \in P PROVE Append(r, x) \in P
  <2>1. Mapped(Append(r, x), g) = Mapped(r, g) \o <<f[x]>>
    <3> HIDE DEF g
    <3>1. Mapped(Append(r, x), g) = Mapped(r, g) \o g[x]
      BY <1>0, MappedAppend
    <3> QED  BY <1>0, <3>1
  <2>2. EachOf(r, f) \in Seq(T) /\ EachOf(Append(r, x), f) = Append(EachOf(r, f), f[x])
    BY EachAppend
  <2>3. Append(EachOf(r, f), f[x]) = EachOf(r, f) \o <<f[x]>>
    <3>1. f[x] \in T
      BY DEF Gives
    <3> QED  BY <2>2, <3>1, AppendIsConcat
  <2>4. EachOf(r, f) = Mapped(r, g)
    BY <1>2
  <2>5. EachOf(Append(r, x), f) = Mapped(Append(r, x), g)
    BY <2>1, <2>2, <2>3, <2>4, Zenon
  <2>6. Append(r, x) \in Seq(S)
    OBVIOUS
  <2> QED  BY <2>5, <2>6
<1>3. Seq(S) \subseteq P
  <2> HIDE DEF P
  <2> QED  BY <1>1, <1>2, ByAppending
<1> QED  BY <1>0, <1>3

(***************************************************************************)
(* What the messages of a conversation are made of.                        *)
(***************************************************************************)
CallIds == {"call_" \o ToString(n) : n \in Int} \cup {"id_" \o ToString(n) : n \in Int}
Ids == CallIds \cup {""}

TextBlocks == [type : {"Text"}, text : Seq(Int)]
MediaBlocks == [type : Media, source : [form : {"base64", "url"}, data : Int]]
CallBlocks == [type : {"ToolUse"}, id : Ids, name : {"read", "write"}, signed : BOOLEAN]
ThinkingBlocks ==
    [type : {"Thinking"}, text : Seq(Int), signature : {"absent", "blank", "given"}, encrypted : BOOLEAN]
BareBlocks == [type : {"RedactedThinking", "ServerToolUse"}]
ResultBlocks ==
    [type : {"ToolResult"}, id : Ids, content : Seq(TextBlocks \cup MediaBlocks), is_error : BOOLEAN]

PictureBlocks == [type : {"Image"}, source : [form : {"base64", "url"}, data : Int]]

SaidBlocks == TextBlocks \cup MediaBlocks
KeptBlocks == TextBlocks \cup CallBlocks \cup ThinkingBlocks \cup BareBlocks
AnswerBlocks == KeptBlocks \cup PictureBlocks
AllBlocks == KeptBlocks \cup MediaBlocks \cup ResultBlocks

\* What only one provider gives.
GivenBy(d, c) ==
    /\ c.type = "Thinking" => /\ c.signature = (IF d = "anthropic" THEN "given" ELSE "absent")
                             /\ c.encrypted = (d = "responses")
    /\ c.type = "RedactedThinking" => d = "anthropic"
    /\ c.type = "ToolUse" => c.signed = (d = "google")
BlocksOf(d) == {c \in AnswerBlocks : GivenBy(d, c)}

LEMMA BlockTypes ==
    \A c \in AllBlocks :
        /\ c.type = "Text" => c \in TextBlocks
        /\ c.type \in Media => c \in MediaBlocks
        /\ c.type = "ToolUse" => c \in CallBlocks
        /\ c.type = "Thinking" => c \in ThinkingBlocks
        /\ c.type \in {"RedactedThinking", "ServerToolUse"} => c \in BareBlocks
        /\ c.type = "ToolResult" => c \in ResultBlocks
        /\ c.type \in {"Text", "Image", "Document", "ToolUse", "Thinking", "RedactedThinking",
                       "ServerToolUse", "ToolResult"}
  BY DEF AllBlocks, KeptBlocks, TextBlocks, MediaBlocks, CallBlocks, ThinkingBlocks, BareBlocks,
         ResultBlocks, Media

LEMMA BlockSets ==
    /\ AnswerBlocks \subseteq AllBlocks /\ SaidBlocks \subseteq AllBlocks /\ KeptBlocks \subseteq AllBlocks
    /\ ResultBlocks \subseteq AllBlocks /\ CallBlocks \subseteq AllBlocks /\ TextBlocks \subseteq AllBlocks
    /\ \A c \in KeptBlocks : c.type \in {"Text", "ToolUse", "Thinking", "RedactedThinking", "ServerToolUse"}
    /\ \A c \in SaidBlocks : c.type \in {"Text"} \cup Media
    /\ \A c \in AnswerBlocks : c.type # "Image" => c \in KeptBlocks
    /\ \A c \in AnswerBlocks : c.type \in {"Text", "ToolUse"} => c \in TextBlocks \cup CallBlocks
    /\ \A c \in AnswerBlocks :
           c.type \in {"Text", "ToolUse", "Thinking", "RedactedThinking", "ServerToolUse", "Image"}
  BY DEF AllBlocks, AnswerBlocks, KeptBlocks, SaidBlocks, TextBlocks, MediaBlocks, PictureBlocks, CallBlocks,
         ThinkingBlocks, BareBlocks, ResultBlocks, Media

Roles == {"System", "User", "Assistant", "Tool"}
Messages1 == [role : Roles, content : Seq(AllBlocks)]

\* The blocks of a content that are of some types, and the others.
Choice1(S, types) == [c \in S |-> IF c.type \in types THEN <<c>> ELSE <<>>]
Rest1(S, types) == [c \in S |-> IF c.type \notin types THEN <<c>> ELSE <<>>]
Chosen(S, types) == {c \in S : c.type \in types}
Others(S, types) == {c \in S : c.type \notin types}

LEMMA OfTypeIsMapped ==
    ASSUME NEW S, NEW s \in Seq(S), NEW types
    PROVE  /\ OfType(s, types) = Mapped(s, Choice1(S, types))
           /\ Without(s, types) = Mapped(s, Rest1(S, types))
<1> DEFINE g == [c \in S |-> IF c.type \in types THEN <<c>> ELSE <<>>]
           h == [c \in S |-> IF c.type \notin types THEN <<c>> ELSE <<>>]
<1>1. \A n \in DOMAIN s : g[s[n]] = IF s[n].type \in types THEN <<s[n]>> ELSE <<>>
  OBVIOUS
<1>2. [n \in DOMAIN s |-> g[s[n]]] = [n \in DOMAIN s |-> IF s[n].type \in types THEN <<s[n]>> ELSE <<>>]
  BY <1>1, Zenon
<1>3. \A n \in DOMAIN s : h[s[n]] = IF s[n].type \notin types THEN <<s[n]>> ELSE <<>>
  OBVIOUS
<1>4. [n \in DOMAIN s |-> h[s[n]]] = [n \in DOMAIN s |-> IF s[n].type \notin types THEN <<s[n]>> ELSE <<>>]
  BY <1>3, Zenon
<1> HIDE DEF g, h
<1>5. OfType(s, types) = Mapped(s, g)
  BY <1>2, Zenon DEF OfType, Those, FlatMap, Each, Mapped, Flat
<1>6. Without(s, types) = Mapped(s, h)
  BY <1>4, Zenon DEF Without, Those, FlatMap, Each, Mapped, Flat
<1> QED  BY <1>5, <1>6 DEF g, h, Choice1, Rest1

LEMMA ChoiceMakes ==
    ASSUME NEW S, NEW types
    PROVE  /\ Makes(Choice1(S, types), S, Chosen(S, types))
           /\ Makes(Rest1(S, types), S, Others(S, types))
<1> DEFINE T == Chosen(S, types)
           U == Others(S, types)
<1>1. ASSUME NEW c \in S PROVE (IF c.type \in types THEN <<c>> ELSE <<>>) \in Seq(T)
  <2>1. CASE c.type \in types
    <3>1. c \in T
      BY <2>1 DEF Chosen
    <3> HIDE DEF T
    <3> QED  BY <2>1, <3>1
  <2>2. CASE c.type \notin types
    BY <2>2
  <2> QED  BY <2>1, <2>2
<1>2. ASSUME NEW c \in S PROVE (IF c.type \notin types THEN <<c>> ELSE <<>>) \in Seq(U)
  <2>1. CASE c.type \notin types
    <3>1. c \in U
      BY <2>1 DEF Others
    <3> HIDE DEF U
    <3> QED  BY <2>1, <3>1
  <2>2. CASE c.type \in types
    BY <2>2
  <2> QED  BY <2>1, <2>2
<1> HIDE DEF T, U
<1>3. [c \in S |-> IF c.type \in types THEN <<c>> ELSE <<>>] \in [S -> Seq(T)]
  BY <1>1
<1>4. [c \in S |-> IF c.type \notin types THEN <<c>> ELSE <<>>] \in [S -> Seq(U)]
  BY <1>2
<1>5. Makes(Choice1(S, types), S, T) /\ Makes(Rest1(S, types), S, U)
  BY <1>3, <1>4 DEF Makes, Choice1, Rest1
<1> QED  BY <1>5 DEF T, U

LEMMA ChoiceIs ==
    ASSUME NEW S, NEW types, NEW c \in S
    PROVE  /\ Choice1(S, types)[c] = IF c.type \in types THEN <<c>> ELSE <<>>
           /\ Rest1(S, types)[c] = IF c.type \notin types THEN <<c>> ELSE <<>>
  BY DEF Choice1, Rest1

LEMMA OfTypeType ==
    ASSUME NEW S, NEW s \in Seq(S), NEW types
    PROVE  /\ OfType(s, types) \in Seq(Chosen(S, types))
           /\ Without(s, types) \in Seq(Others(S, types))
<1> DEFINE T == Chosen(S, types)
           U == Others(S, types)
           g == Choice1(S, types)
           h == Rest1(S, types)
<1>1. Makes(g, S, T) /\ Makes(h, S, U)
  BY ChoiceMakes
<1>2. OfType(s, types) = Mapped(s, g) /\ Without(s, types) = Mapped(s, h)
  BY OfTypeIsMapped
<1> HIDE DEF g, h, T, U
<1>3. Mapped(s, g) \in Seq(T) /\ Mapped(s, h) \in Seq(U)
  <2>1. Mapped(s, g) \in Seq(T)
    BY <1>1, MappedType
  <2>2. Mapped(s, h) \in Seq(U)
    BY <1>1, MappedType
  <2> QED  BY <2>1, <2>2
<1> QED  BY <1>2, <1>3 DEF T, U

LEMMA OfTypeSome ==
    ASSUME NEW S, NEW s \in Seq(S), NEW types, NEW n \in DOMAIN s, s[n].type \in types
    PROVE  OfType(s, types) # <<>>
<1> DEFINE T == Chosen(S, types)
           g == Choice1(S, types)
           P == {r \in Seq(S) : \A i \in DOMAIN r : r[i].type \in types => Mapped(r, g) # <<>>}
<1>0. Makes(g, S, T) /\ \A x \in S : x.type \in types => g[x] = <<x>>
  BY ChoiceMakes, ChoiceIs
<1>1. <<>> \in P
  OBVIOUS
<1>2. ASSUME NEW r \in Seq(S), NEW x \in S, r \in P PROVE Append(r, x) \in P
  <2>0. Append(r, x) \in Seq(S)
    OBVIOUS
  <2> SUFFICES ASSUME NEW i \in DOMAIN Append(r, x), Append(r, x)[i].type \in types
               PROVE  Mapped(Append(r, x), g) # <<>>
    <3> HIDE DEF g
    <3> QED  BY <2>0
  <2> HIDE DEF g
  <2>1. Mapped(Append(r, x), g) = Mapped(r, g) \o g[x]
    BY <1>0, MappedAppend
  <2>2. Mapped(r, g) \in Seq(T)
    BY <1>0, MappedType
  <2>3. g[x] \in Seq(T)
    BY <1>0, Made
  <2>4. Len(Mapped(r, g) \o g[x]) = Len(Mapped(r, g)) + Len(g[x])
    <3> HIDE DEF T
    <3> QED  BY <2>2, <2>3, ConcatProperties
  <2>5. Len(Mapped(r, g)) \in Nat /\ Len(g[x]) \in Nat
    <3> HIDE DEF T
    <3> QED  BY <2>2, <2>3
  <2>6. Len(Mapped(r, g)) # 0 \/ Len(g[x]) # 0
    <3>1. CASE i = Len(r) + 1
      <4>1. Append(r, x)[i] = x
        BY <3>1
      <4>2. g[x] = <<x>>
        BY <1>0, <4>1
      <4> QED  BY <4>2
    <3>2. CASE i # Len(r) + 1
      <4>1. i \in DOMAIN r /\ Append(r, x)[i] = r[i]
        BY <3>2
      <4>2. Mapped(r, g) # <<>>
        BY <1>2, <4>1
      <4> HIDE DEF T
      <4> QED  BY <2>2, <4>2
    <3> QED  BY <3>1, <3>2
  <2>7. Len(Mapped(Append(r, x), g)) # 0
    BY <2>1, <2>4, <2>5, <2>6
  <2> QED  BY <2>7
<1>3. Seq(S) \subseteq P
  <2> HIDE DEF P
  <2> QED  BY <1>1, <1>2, ByAppending
<1>4. Mapped(s, g) # <<>>
  <2> HIDE DEF g
  <2> QED  BY <1>3
<1> QED  BY <1>4, OfTypeIsMapped

(***************************************************************************)
(* What the client says and what it is answered.                           *)
(***************************************************************************)
LEMMA SpokenType ==
    ASSUME Len(said) \in Nat, NEW kinds \in Seq(Parts)
    PROVE  [n \in DOMAIN kinds |-> Spoken1(kinds[n], n)] \in Seq(SaidBlocks)
<1>1. ASSUME NEW n \in DOMAIN kinds PROVE Spoken1(kinds[n], n) \in SaidBlocks
  <2>1. Piece(n) \in Int /\ kinds[n] \in Parts
    BY DEF Piece
  <2>2. \A d \in Int, form \in {"base64", "url"} :
           [form |-> form, data |-> d] \in [form : {"base64", "url"}, data : Int]
    OBVIOUS
  <2>3. <<Piece(n)>> \in Seq(Int)
    BY <2>1
  <2>4. CASE kinds[n] = "Text"
    BY <2>3, <2>4 DEF Spoken1, SaidBlocks, TextBlocks, Text
  <2>5. CASE kinds[n] \in {"Image", "ImageUrl"}
    <3>1. PICK form \in {"base64", "url"} : Spoken1(kinds[n], n) = Image([form |-> form, data |-> Piece(n)])
      BY <2>5 DEF Spoken1
    <3>2. Spoken1(kinds[n], n) \in MediaBlocks
      BY <2>1, <2>2, <3>1 DEF MediaBlocks, Media, Image
    <3> QED  BY <3>2 DEF SaidBlocks
  <2>6. CASE kinds[n] \in {"Document", "DocumentUrl"}
    <3>1. PICK form \in {"base64", "url"} : Spoken1(kinds[n], n) = Document([form |-> form, data |-> Piece(n)])
      BY <2>6 DEF Spoken1
    <3>2. Spoken1(kinds[n], n) \in MediaBlocks
      BY <2>1, <2>2, <3>1 DEF MediaBlocks, Media, Document
    <3> QED  BY <3>2 DEF SaidBlocks
  <2> QED  BY <2>1, <2>4, <2>5, <2>6 DEF Parts
<1> QED  BY <1>1

LEMMA CallIdType ==
    ASSUME Len(said) \in Nat, NEW d, NEW n \in Int
    PROVE  CallId(d, n) \in Ids
<1>1. n - 1 \in Int /\ Piece(n) \in Int
  BY DEF Piece
<1> QED  BY <1>1 DEF CallId, Ids, CallIds

LEMMA AnsweredType ==
    ASSUME Len(said) \in Nat, NEW d \in Dialects, NEW kind \in Blocks(d), NEW n \in Int
    PROVE  Answered(d, kind, n) \in BlocksOf(d)
<1> DEFINE c == Answered(d, kind, n)
<1> SUFFICES c \in AnswerBlocks /\ GivenBy(d, c)
  BY DEF BlocksOf
<1>1. Piece(n) \in Int /\ <<Piece(n)>> \in Seq(Int) /\ CallId(d, n) \in Ids
  BY CallIdType DEF Piece
<1>2. kind \in {"Text", "Thinking", "Served", "Image", "read", "write", "Redacted"}
  BY DEF Blocks
<1>3. CASE kind = "Text"
  BY <1>1, <1>3 DEF Answered, AnswerBlocks, KeptBlocks, TextBlocks, Text, GivenBy
<1>4. CASE kind = "Thinking"
  <2>1. c = Thinking(<<Piece(n)>>, IF d = "anthropic" THEN "given" ELSE "absent", d = "responses")
    BY <1>4 DEF Answered
  <2> HIDE DEF c
  <2>2. c \in ThinkingBlocks
    BY <1>1, <2>1 DEF ThinkingBlocks, Thinking
  <2>3. GivenBy(d, c)
    BY <2>1 DEF GivenBy, Thinking
  <2> QED  BY <2>2, <2>3 DEF AnswerBlocks, KeptBlocks
<1>5. CASE kind \in {"read", "write"}
  <2>1. c = ToolUse(CallId(d, n), kind, d = "google")
    BY <1>5 DEF Answered
  <2> HIDE DEF c
  <2>2. c \in CallBlocks
    BY <1>1, <1>5, <2>1 DEF CallBlocks, ToolUse
  <2>3. GivenBy(d, c)
    BY <2>1 DEF GivenBy, ToolUse
  <2> QED  BY <2>2, <2>3 DEF AnswerBlocks, KeptBlocks
<1>6. CASE kind \in {"Redacted", "Served"}
  BY <1>6 DEF Answered, AnswerBlocks, KeptBlocks, BareBlocks, RedactedThinking, ServerTool, GivenBy, Blocks
<1>7. CASE kind = "Image"
  <2>1. c = Image([form |-> "base64", data |-> Piece(n)])
    BY <1>7 DEF Answered
  <2> HIDE DEF c
  <2>2. c \in PictureBlocks
    BY <1>1, <2>1 DEF PictureBlocks, Image
  <2>3. GivenBy(d, c)
    BY <2>1 DEF GivenBy, Image
  <2> QED  BY <2>2, <2>3 DEF AnswerBlocks
<1> QED  BY <1>2, <1>3, <1>4, <1>5, <1>6, <1>7

(***************************************************************************)
(* The fold of the chat dialect.                                           *)
(***************************************************************************)
SpokenTurns ==
    [role : {"system", "user", "assistant"}, content : Seq(AllBlocks), calls : Seq(CallBlocks), answers : Ids]
ResultTurns == [role : {"tool"}, content : Seq(TextBlocks), calls : Seq(CallBlocks), answers : Ids]
ChatTurns1 == SpokenTurns \cup ResultTurns

LEMMA ChatResultType ==
    ASSUME NEW turn \in ResultTurns
    PROVE  ChatResult(turn) \in ResultBlocks
<1>1. turn.content \in Seq(TextBlocks) /\ turn.answers \in Ids
  BY DEF ResultTurns
<1> DEFINE failed == /\ Len(turn.content) = 1
                     /\ turn.content[1].text # <<>>
                     /\ Head(turn.content[1].text) = Head(ErrorPrefix)
           content == IF failed THEN <<Text(Tail(turn.content[1].text))>> ELSE turn.content
<1>2. content \in Seq(TextBlocks \cup MediaBlocks)
  <2>1. CASE failed
    <3>1. turn.content[1] \in TextBlocks
      BY <1>1, <2>1
    <3>2. turn.content[1].text \in Seq(Int)
      BY <3>1 DEF TextBlocks
    <3>3. Tail(turn.content[1].text) \in Seq(Int)
      BY <2>1, <3>2
    <3>4. Text(Tail(turn.content[1].text)) \in TextBlocks \cup MediaBlocks
      BY <3>3 DEF Text, TextBlocks
    <3> QED  BY <2>1, <3>4
  <2>2. CASE ~failed
    <3>1. content = turn.content
      BY <2>2
    <3> HIDE DEF content
    <3> QED  BY <1>1, <3>1
  <2> QED  BY <2>1, <2>2
<1>3. failed \in BOOLEAN
  OBVIOUS
<1>4. ChatResult(turn) = ToolResult(turn.answers, content, failed)
  BY DEF ChatResult
<1> HIDE DEF content, failed
<1> QED  BY <1>1, <1>2, <1>3, <1>4 DEF ToolResult, ResultBlocks

LEMMA ChatFoldType ==
    ASSUME NEW messages \in Seq(Messages1), NEW turn \in ChatTurns1
    PROVE  ChatFold(messages, turn) \in Seq(Messages1)
<1>1. CASE turn \in SpokenTurns
  <2>1. turn.content \in Seq(AllBlocks) /\ turn.calls \in Seq(AllBlocks)
    <3>1. turn.content \in Seq(AllBlocks) /\ turn.calls \in Seq(CallBlocks) /\ CallBlocks \subseteq AllBlocks
      BY <1>1, BlockSets DEF SpokenTurns
    <3> QED  BY <3>1
  <2>2. turn.content \o turn.calls \in Seq(AllBlocks)
    BY <2>1
  <2>3. \A role \in {"System", "User", "Assistant"} : \A content \in Seq(AllBlocks) :
           Message(role, content) \in Messages1
    BY DEF Message, Messages1, Roles
  <2>4. turn.role \in {"system", "user", "assistant"}
    BY <1>1 DEF SpokenTurns
  <2>5. CASE turn.role = "system"
    BY <2>1, <2>3, <2>5 DEF ChatFold
  <2>6. CASE turn.role = "user"
    BY <2>1, <2>3, <2>6 DEF ChatFold
  <2>7. CASE turn.role = "assistant"
    <3>1. ChatFold(messages, turn) = Append(messages, Message("Assistant", turn.content \o turn.calls))
      BY <2>7 DEF ChatFold
    <3>2. Message("Assistant", turn.content \o turn.calls) \in Messages1
      BY <2>2, <2>3
    <3> QED  BY <3>1, <3>2
  <2> QED  BY <2>4, <2>5, <2>6, <2>7
<1>2. CASE turn \in ResultTurns
  <2>1. ChatResult(turn) \in AllBlocks /\ turn.role = "tool"
    BY <1>2, ChatResultType DEF AllBlocks, ResultTurns
  <2>2. CASE Len(messages) > 0 /\ messages[Len(messages)].role = "Tool"
    <3>1. Len(messages) \in DOMAIN messages /\ messages[Len(messages)] \in Messages1
      BY <2>2
    <3>2. Append(messages[Len(messages)].content, ChatResult(turn)) \in Seq(AllBlocks)
      BY <2>1, <3>1 DEF Messages1
    <3>3. [messages[Len(messages)] EXCEPT !.content = Append(@, ChatResult(turn))] \in Messages1
      BY <3>1, <3>2 DEF Messages1
    <3>4. ChatFold(messages, turn) = [messages EXCEPT ![Len(messages)].content = Append(@, ChatResult(turn))]
      BY <2>1, <2>2 DEF ChatFold
    <3>5. [messages EXCEPT ![Len(messages)].content = Append(@, ChatResult(turn))]
            = [messages EXCEPT ![Len(messages)] =
                  [messages[Len(messages)] EXCEPT !.content = Append(@, ChatResult(turn))]]
      OBVIOUS
    <3> QED  BY <3>1, <3>3, <3>4, <3>5
  <2>3. CASE ~ (Len(messages) > 0 /\ messages[Len(messages)].role = "Tool")
    <3>1. ChatFold(messages, turn) = Append(messages, Message("Tool", <<ChatResult(turn)>>))
      BY <2>1, <2>3 DEF ChatFold
    <3>2. Message("Tool", <<ChatResult(turn)>>) \in Messages1
      BY <2>1 DEF Message, Messages1, Roles
    <3> QED  BY <3>1, <3>2
  <2> QED  BY <2>2, <2>3
<1> QED  BY <1>1, <1>2 DEF ChatTurns1

Folds(f, turns) ==
    /\ f[0] = <<>>
    /\ \A n \in 1..Len(turns) : f[n] = ChatFold(f[n - 1], turns[n])

LEMMA FoldsExists ==
    ASSUME NEW turns \in Seq(ChatTurns1)
    PROVE  \E f \in [0..Len(turns) -> Seq(Messages1)] : Folds(f, turns)
<1> DEFINE N == Len(turns)
           X == Seq(Messages1)
           step == [k \in (1..N) \X X |-> ChatFold(k[2], turns[k[1]])]
<1>1. N \in Nat /\ <<>> \in X
  OBVIOUS
<1>2. ASSUME NEW n \in 1..N, NEW x \in X PROVE ChatFold(x, turns[n]) \in X
  <2>1. turns[n] \in ChatTurns1
    OBVIOUS
  <2> QED  BY <2>1, ChatFoldType
<1>3. step \in [(1..N) \X X -> X]
  BY <1>2
<1>4. \A n \in 1..N, x \in X : step[<<n, x>>] = ChatFold(x, turns[n])
  OBVIOUS
<1> HIDE DEF N, X, step
<1>5. PICK f \in [0..N -> X] : Solves(f, N, <<>>, step)
  BY <1>1, <1>3, Recursion
<1>6. f[0] = <<>>
  BY <1>1, <1>5 DEF Solves
<1>7. ASSUME NEW n \in 1..N PROVE f[n] = ChatFold(f[n - 1], turns[n])
  <2>1. n \in 0..N /\ n - 1 \in 0..N /\ n # 0
    BY <1>1
  <2>2. f[n] = step[<<n, f[n - 1]>>]
    BY <1>5, <2>1 DEF Solves
  <2> QED  BY <1>4, <2>1, <2>2
<1> QED  BY <1>6, <1>7 DEF Folds, N, X

LEMMA FoldIs ==
    ASSUME NEW turns \in Seq(ChatTurns1),
           NEW f \in [0..Len(turns) -> Seq(Messages1)], Folds(f, turns)
    PROVE  ChatFolded(turns) = f[Len(turns)]
<1> DEFINE N == Len(turns)
           Eq(g) == g = [n \in 0..N |-> IF n = 0 THEN <<>> ELSE ChatFold(g[n - 1], turns[n])]
           g == CHOOSE h : Eq(h)
<1>1. N \in Nat
  OBVIOUS
<1>2. Eq(f)
  <2>1. ASSUME NEW n \in 0..N PROVE f[n] = IF n = 0 THEN <<>> ELSE ChatFold(f[n - 1], turns[n])
    BY DEF Folds
  <2> QED  BY <2>1
<1>3. Eq(g)
  <2>1. \E h : Eq(h)
    BY <1>2
  <2> HIDE DEF Eq
  <2> QED  BY <2>1
<1>4. ASSUME NEW n \in 0..N PROVE g[n] = IF n = 0 THEN <<>> ELSE ChatFold(g[n - 1], turns[n])
  BY <1>3
<1>5. ChatFolded(turns) = g[N]
  BY DEF ChatFolded
<1> HIDE DEF g, Eq
<1> DEFINE T == {n \in 0..N : g[n] = f[n]}
<1>6. 0 \in T
  BY <1>1, <1>4 DEF Folds
<1>7. ASSUME NEW n \in 0..N, n \in T, n < N PROVE n + 1 \in T
  <2>1. n + 1 \in 1..N /\ n + 1 \in 0..N /\ (n + 1) - 1 = n /\ n + 1 # 0
    BY <1>1, <1>7
  <2>2. f[n + 1] = ChatFold(f[(n + 1) - 1], turns[n + 1])
    BY <2>1 DEF Folds
  <2>3. g[n + 1] = ChatFold(g[(n + 1) - 1], turns[n + 1])
    BY <1>4, <2>1
  <2>4. g[n] = f[n]
    BY <1>7
  <2> QED  BY <2>1, <2>2, <2>3, <2>4
<1>8. N \in T
  <2> HIDE DEF T, N
  <2>1. 0..N \subseteq T
    BY <1>1, <1>6, <1>7, UpTo, Zenon
  <2> QED  BY <1>1, <2>1
<1> QED  BY <1>5, <1>8

LEMMA FoldEmpty == ChatFolded(<<>>) = <<>>
<1>1. <<>> \in Seq(ChatTurns1)
  OBVIOUS
<1>2. PICK f \in [0..Len(<<>>) -> Seq(Messages1)] : Folds(f, <<>>)
  BY <1>1, FoldsExists
<1>3. ChatFolded(<<>>) = f[Len(<<>>)]
  BY <1>1, <1>2, FoldIs
<1>4. Len(<<>>) = 0
  OBVIOUS
<1> QED  BY <1>2, <1>3, <1>4 DEF Folds

LEMMA FoldAppend ==
    ASSUME NEW turns \in Seq(ChatTurns1), NEW turn \in ChatTurns1
    PROVE  /\ ChatFolded(turns) \in Seq(Messages1)
           /\ ChatFolded(Append(turns, turn)) = ChatFold(ChatFolded(turns), turn)
<1> DEFINE N == Len(turns)
           all == Append(turns, turn)
<1>1. PICK f \in [0..N -> Seq(Messages1)] : Folds(f, turns)
  BY FoldsExists
<1>2. /\ N \in Nat /\ all \in Seq(ChatTurns1) /\ Len(all) = N + 1
      /\ all[N + 1] = turn /\ \A n \in 1..N : all[n] = turns[n]
  OBVIOUS
<1>3. ChatFolded(turns) = f[N] /\ f[N] \in Seq(Messages1)
  <2>1. ChatFolded(turns) = f[N]
    BY <1>1, FoldIs
  <2>2. f \in [0..N -> Seq(Messages1)] /\ N \in 0..N
    BY <1>1, <1>2
  <2> HIDE DEF N
  <2> QED  BY <2>1, <2>2
<1>8. N \in Nat /\ \A n \in Int : n = N + 1 => n - 1 = N /\ N \in 0..N
  BY <1>2
<1>9. ChatFold(f[N], turn) \in Seq(Messages1)
  BY <1>3, ChatFoldType
<1> DEFINE g == [n \in 0..(N + 1) |-> IF n = N + 1 THEN ChatFold(f[N], turn) ELSE f[n]]
<1> HIDE DEF all, N
<1>4. /\ g \in [0..(N + 1) -> Seq(Messages1)]
      /\ g[N + 1] = ChatFold(f[N], turn) /\ \A n \in 0..N : g[n] = f[n]
  BY <1>1, <1>2, <1>3, <1>9
<1> HIDE DEF g
<1>5. Folds(g, all)
  <2>1. g[0] = <<>>
    BY <1>1, <1>2, <1>4 DEF Folds
  <2>2. ASSUME NEW n \in 1..(N + 1) PROVE g[n] = ChatFold(g[n - 1], all[n])
    <3>1. CASE n = N + 1
      <4>1. n - 1 = N /\ N \in 0..N
        BY <1>8, <3>1
      <4> QED  BY <1>2, <1>4, <3>1, <4>1
    <3>2. CASE n # N + 1
      <4>1. n \in 1..N /\ n \in 0..N /\ n - 1 \in 0..N
        BY <1>2, <3>2
      <4>2. f[n] = ChatFold(f[n - 1], turns[n])
        BY <1>1, <4>1 DEF Folds, N
      <4> QED  BY <1>2, <1>4, <4>1, <4>2
    <3> QED  BY <3>1, <3>2
  <2> QED  BY <1>2, <2>1, <2>2 DEF Folds
<1>6. ChatFolded(all) = g[N + 1]
  BY <1>2, <1>4, <1>5, FoldIs
<1> QED  BY <1>3, <1>4, <1>6 DEF all

(***************************************************************************)
(* The body and the messages that are read from it.                        *)
(***************************************************************************)
WireTurns == [role : {"system", "user", "assistant"}, content : Seq(AllBlocks)]
TurnSet ==
    CASE Client = "canonical" -> Messages1
      [] Client = "anthropic" -> WireTurns
      [] Client = "openai" -> ChatTurns1

Answers1 == {a \in [by : Dialects, content : Seq(AnswerBlocks)] : a.content \in Seq(BlocksOf(a.by))}

Leads == body.messages # <<>> /\ Head(body.messages).role = "system"
Turns == IF Client = "openai" /\ Leads THEN Tail(body.messages) ELSE body.messages
TheMessages == Decode(Client, body).messages

BodyInv ==
    /\ scene \in DOMAIN Scenes
    /\ DOMAIN body = FieldsOf(Client)
    /\ \E S : body.messages \in Seq(S)
    /\ Turns \in Seq(TurnSet)
    /\ \E S : said \in Seq(S)
    /\ said # <<>> => body.messages # <<>>
    /\ answers \in Seq(Answers1)

LEMMA ThePlay ==
    ASSUME BodyInv
    PROVE  IsScene(Play) /\ Client \in {"canonical", "openai", "anthropic"}
BY ScenesAssumption DEF BodyInv, Play, Client, IsScene

LEMMA MessagesReadType ==
    ASSUME NEW turn \in WireTurns
    PROVE  MessagesRead(turn) \in Messages1
BY DEF MessagesRead, Message, WireTurns, Messages1, Roles

LEMMA MessagesAre ==
    ASSUME BodyInv
    PROVE  /\ Client = "canonical" => TheMessages = Turns
           /\ Client = "anthropic" => TheMessages = Each(MessagesRead, Turns)
           /\ Client = "openai" => TheMessages = ChatFolded(Turns)
           /\ TheMessages \in Seq(Messages1)
<1>1. CASE Client = "canonical"
  BY <1>1 DEF BodyInv, TheMessages, Decode, Turns, TurnSet
<1>2. CASE Client = "anthropic"
  <2>1. TheMessages = Each(MessagesRead, Turns)
    BY <1>2 DEF TheMessages, Decode, ShapeTaken, DecodeMessages, Request, Turns
  <2>2. Turns \in Seq(WireTurns)
    BY <1>2 DEF BodyInv, TurnSet
  <2>3. Each(MessagesRead, Turns) \in Seq(Messages1)
    BY <2>2, MessagesReadType DEF Each
  <2> QED  BY <1>2, <2>1, <2>3
<1>3. CASE Client = "openai"
  <2>1. TheMessages = ChatFolded(Turns)
    BY <1>3 DEF TheMessages, Decode, ShapeTaken, DecodeChat, Request, Turns, Leads
  <2>2. Turns \in Seq(ChatTurns1)
    BY <1>3 DEF BodyInv, TurnSet
  <2>3. ChatFolded(Turns) \in Seq(Messages1)
    <3>1. PICK f \in [0..Len(Turns) -> Seq(Messages1)] : Folds(f, Turns)
      BY <2>2, FoldsExists
    <3>2. ChatFolded(Turns) = f[Len(Turns)] /\ Len(Turns) \in 0..Len(Turns)
      BY <2>2, <3>1, FoldIs
    <3> QED  BY <3>1, <3>2
  <2> QED  BY <1>3, <2>1, <2>3
<1> QED  BY <1>1, <1>2, <1>3, ThePlay

LEMMA HeadOfConcat ==
    ASSUME NEW S, NEW m \in Seq(S), NEW w \in Seq(S), m # <<>>
    PROVE  Head(m \o w) = Head(m) /\ m \o w # <<>> /\ Tail(m \o w) = Tail(m) \o w
<1>1. /\ m \o w \in Seq(S) /\ Len(m \o w) = Len(m) + Len(w)
      /\ Len(m) \in Nat /\ Len(w) \in Nat /\ Len(m) # 0
  OBVIOUS
<1>2. Head(m \o w) = Head(m) /\ m \o w # <<>>
  BY <1>1
<1>3. Tail(m \o w) = Tail(m) \o w
  <2> DEFINE a == Tail(m \o w)
             b == Tail(m) \o w
  <2>1. a \in Seq(S) /\ Len(a) = Len(m) + Len(w) - 1
    BY <1>1, <1>2
  <2>2. Tail(m) \in Seq(S) /\ Len(Tail(m)) = Len(m) - 1
    BY <1>1
  <2>3. b \in Seq(S) /\ Len(b) = Len(m) + Len(w) - 1
    BY <1>1, <2>2
  <2>4. ASSUME NEW i \in 1..Len(b) PROVE a[i] = b[i]
    <3>1. a[i] = (m \o w)[i + 1]
      BY <1>1, <1>2, <2>3
    <3>2. CASE i <= Len(m) - 1
      BY <1>1, <2>2, <2>3, <3>1, <3>2
    <3>3. CASE i > Len(m) - 1
      BY <1>1, <2>2, <2>3, <3>1, <3>3
    <3> QED  BY <1>1, <2>3, <3>2, <3>3
  <2> HIDE DEF a, b
  <2>5. a = b
    BY <2>1, <2>3, <2>4, SeqEqual
  <2> QED  BY <2>5 DEF a, b
<1> QED  BY <1>2, <1>3

\* What is written is added to the turns.
LEMMA TurnsGrow ==
    ASSUME BodyInv, NEW w \in Seq(TurnSet), w # <<>>, UNCHANGED scene,
           body' = [body EXCEPT !.messages = @ \o w],
           body.messages # <<>> \/ Client # "openai" \/ Head(w).role # "system"
    PROVE  /\ DOMAIN body' = FieldsOf(Client')
           /\ \E S : body'.messages \in Seq(S)
           /\ body'.messages # <<>>
           /\ Turns' = Turns \o w
           /\ Client' = Client /\ TurnSet' = TurnSet
<1>1. Client' = Client
  BY DEF Client, Play
<1>2. TurnSet' = TurnSet
  BY <1>1 DEF TurnSet
<1>3. "messages" \in DOMAIN body
  BY DEF BodyInv, FieldsOf, Common
<1>4. body'.messages = body.messages \o w /\ DOMAIN body' = DOMAIN body
  BY <1>3
<1>5. PICK S : body.messages \in Seq(S)
  BY DEF BodyInv
<1> DEFINE U == S \cup TurnSet
           m == body.messages
           k == m \o w
<1>6. m \in Seq(U) /\ w \in Seq(U)
  BY <1>5
<1> HIDE DEF U
<1>7. k \in Seq(U) /\ Len(k) = Len(m) + Len(w) /\ Len(m) \in Nat /\ Len(w) \in Nat /\ Len(w) # 0
  BY <1>6
<1>8. Turns' = Turns \o w
  <2>1. CASE Client # "openai"
    BY <1>1, <1>4, <2>1 DEF Turns
  <2>2. CASE Client = "openai" /\ m # <<>>
    <3>1. Head(k) = Head(m) /\ k # <<>> /\ Tail(k) = Tail(m) \o w
      <4> HIDE DEF m
      <4> QED  BY <1>6, <2>2, HeadOfConcat
    <3> HIDE DEF m, k
    <3>2. m = body.messages /\ k = body'.messages
      BY <1>4 DEF m, k
    <3>3. k = m \o w
      BY DEF k, m
    <3> QED  BY <1>1, <2>2, <3>1, <3>2, <3>3 DEF Turns, Leads
  <2>3. CASE Client = "openai" /\ m = <<>>
    <3>1. k = w
      BY <1>6, <2>3
    <3>2. Head(w).role # "system"
      BY <2>3
    <3>3. Turns = <<>> /\ Turns' = w
      BY <1>1, <1>4, <2>3, <3>1, <3>2 DEF Turns, Leads
    <3> QED  BY <1>6, <3>3
  <2> QED  BY <2>1, <2>2, <2>3
<1>9. DOMAIN body' = FieldsOf(Client')
  BY <1>1, <1>4 DEF BodyInv
<1>10. body'.messages \in Seq(U) /\ body'.messages # <<>>
  BY <1>4, <1>7
<1> QED  BY <1>1, <1>2, <1>8, <1>9, <1>10

LEMMA MessagesGrow ==
    ASSUME BodyInv, Client' = Client, NEW t \in TurnSet, Turns' = Turns \o <<t>>
    PROVE  /\ Client = "canonical" => TheMessages' = Append(TheMessages, t)
           /\ Client = "anthropic" => TheMessages' = Append(TheMessages, MessagesRead(t))
           /\ Client = "openai" => TheMessages' = ChatFold(TheMessages, t)
<1>1. Turns \in Seq(TurnSet) /\ Turns' = Append(Turns, t)
  BY AppendIsConcat DEF BodyInv
<1>2. CASE Client = "canonical"
  <2>1. TheMessages' = Turns'
    BY <1>2 DEF TheMessages, Decode, Turns
  <2> QED  BY <1>1, <1>2, <2>1, MessagesAre
<1>3. CASE Client = "anthropic"
  <2>1. TheMessages' = Each(MessagesRead, Turns')
    BY <1>3 DEF TheMessages, Decode, ShapeTaken, DecodeMessages, Request, Turns
  <2>2. TurnSet = WireTurns
    BY <1>3 DEF TurnSet
  <2>3. Each(MessagesRead, Append(Turns, t)) = Append(Each(MessagesRead, Turns), MessagesRead(t))
    <3> DEFINE f == [x \in WireTurns |-> MessagesRead(x)]
    <3>1. Gives(f, WireTurns, Messages1) /\ Turns \in Seq(WireTurns) /\ t \in WireTurns
      BY <1>1, <2>2, MessagesReadType DEF Gives
    <3>2. ASSUME NEW q \in Seq(WireTurns) PROVE EachOf(q, f) = Each(MessagesRead, q)
      <4>1. \A n \in DOMAIN q : f[q[n]] = MessagesRead(q[n])
        OBVIOUS
      <4> QED  BY <4>1, Zenon DEF Each, EachOf
    <3>3. Append(Turns, t) \in Seq(WireTurns) /\ f[t] = MessagesRead(t)
      BY <3>1
    <3>4. EachOf(Append(Turns, t), f) = Append(EachOf(Turns, f), f[t])
      <4> HIDE DEF f
      <4> QED  BY <3>1, EachAppend
    <3> HIDE DEF f
    <3>5. EachOf(Append(Turns, t), f) = Each(MessagesRead, Append(Turns, t)) /\ EachOf(Turns, f) = Each(MessagesRead, Turns)
      BY <3>1, <3>2, <3>3
    <3> QED  BY <3>3, <3>4, <3>5, Zenon
  <2> QED  BY <1>1, <1>3, <2>1, <2>3, MessagesAre, Zenon
<1>4. CASE Client = "openai"
  <2>1. TheMessages' = ChatFolded(Turns')
    BY <1>4 DEF TheMessages, Decode, ShapeTaken, DecodeChat, Request, Turns, Leads
  <2>2. Turns \in Seq(ChatTurns1) /\ t \in ChatTurns1
    BY <1>1, <1>4 DEF TurnSet
  <2>3. ChatFolded(Append(Turns, t)) = ChatFold(ChatFolded(Turns), t)
    BY <2>2, FoldAppend
  <2> QED  BY <1>1, <1>4, <2>1, <2>3, MessagesAre, Zenon
<1> QED  BY <1>2, <1>3, <1>4, ThePlay

(***************************************************************************)
(* How many blocks of a type there are.                                    *)
(***************************************************************************)
Number(s, type) == Len(OfType(s, {type}))

LEMMA NumberIn ==
    ASSUME NEW S, NEW s \in Seq(S), NEW type
    PROVE  Number(s, type) = Len(Mapped(s, Choice1(S, {type}))) /\ Number(s, type) \in Nat
<1>1. OfType(s, {type}) = Mapped(s, Choice1(S, {type}))
  BY OfTypeIsMapped
<1>2. OfType(s, {type}) \in Seq(Chosen(S, {type}))
  BY OfTypeType
<1>3. Len(OfType(s, {type})) \in Nat
  BY <1>2
<1> QED  BY <1>1, <1>3, Zenon DEF Number

LEMMA NumberEmpty == \A type : Number(<<>>, type) = 0
<1> SUFFICES ASSUME NEW type PROVE Number(<<>>, type) = 0
  OBVIOUS
<1> DEFINE none == <<>>
<1>1. none \in Seq({1})
  OBVIOUS
<1> HIDE DEF none
<1>2. Number(none, type) = Len(Mapped(none, Choice1({1}, {type})))
  BY <1>1, NumberIn
<1>3. Mapped(<<>>, Choice1({1}, {type})) = <<>>
  BY MappedEmpty, Zenon
<1> QED  BY <1>2, <1>3 DEF none

LEMMA NumberConcat ==
    ASSUME NEW S, NEW s \in Seq(S), NEW t \in Seq(S), NEW type
    PROVE  Number(s \o t, type) = Number(s, type) + Number(t, type)
<1> DEFINE g == Choice1(S, {type})
           T == Chosen(S, {type})
<1>1. Makes(g, S, T)
  BY ChoiceMakes
<1>2. s \o t \in Seq(S)
  OBVIOUS
<1>3. /\ Number(s, type) = Len(Mapped(s, g)) /\ Number(t, type) = Len(Mapped(t, g))
      /\ Number(s \o t, type) = Len(Mapped(s \o t, g))
  BY <1>2, NumberIn
<1> HIDE DEF g, T
<1>4. Mapped(s \o t, g) = Mapped(s, g) \o Mapped(t, g)
  BY <1>1, MappedConcat
<1>5. Mapped(s, g) \in Seq(T) /\ Mapped(t, g) \in Seq(T)
  <2>1. Mapped(s, g) \in Seq(T)
    BY <1>1, MappedType
  <2>2. Mapped(t, g) \in Seq(T)
    BY <1>1, MappedType
  <2> QED  BY <2>1, <2>2
<1>6. Len(Mapped(s, g) \o Mapped(t, g)) = Len(Mapped(s, g)) + Len(Mapped(t, g))
  BY <1>5
<1> QED  BY <1>3, <1>4, <1>6

LEMMA NumberOne ==
    ASSUME NEW c, NEW type
    PROVE  Number(<<c>>, type) = IF c.type = type THEN 1 ELSE 0
<1> DEFINE S == {c}
           g == Choice1(S, {type})
           one == <<c>>
<1>1. one \in Seq(S)
  OBVIOUS
<1>2. c \in S
  OBVIOUS
<1> DEFINE T == Chosen(S, {type})
<1>3. Makes(g, S, T) /\ c \in S
  BY <1>2, ChoiceMakes
<1>7. g[c] = IF c.type \in {type} THEN <<c>> ELSE <<>>
  <2> HIDE DEF S
  <2> QED  BY <1>2, ChoiceIs
<1> HIDE DEF g, T, S
<1>4. Mapped(<<c>>, g) = g[c]
  BY <1>3, MappedOne
<1> HIDE DEF one
<1>5. Number(one, type) = Len(Mapped(one, Choice1(S, {type})))
  BY <1>1, NumberIn
<1>6. Number(<<c>>, type) = Len(g[c])
  BY <1>4, <1>5, Zenon DEF g, one
<1> QED  BY <1>6, <1>7

LEMMA NumberNone ==
    ASSUME NEW S, NEW s \in Seq(S), NEW type, \A c \in S : c.type # type
    PROVE  Number(s, type) = 0
<1> DEFINE T == Chosen(S, {type})
<1>1. OfType(s, {type}) \in Seq(T)
  BY OfTypeType
<1>2. T = {}
  BY DEF Chosen
<1> HIDE DEF T
<1>3. \A r \in Seq(T) : Len(r) = 0
  <2> SUFFICES ASSUME NEW r \in Seq(T), Len(r) # 0 PROVE FALSE
    OBVIOUS
  <2>1. r[1] \in T
    OBVIOUS
  <2> QED  BY <1>2, <2>1
<1> QED  BY <1>1, <1>3 DEF Number

LEMMA NumberAll ==
    ASSUME NEW S, NEW s \in Seq(S), NEW type, \A c \in S : c.type = type
    PROVE  Number(s, type) = Len(s)
<1> DEFINE P == {r \in Seq(S) : Number(r, type) = Len(r)}
<1>1. <<>> \in P
  BY NumberEmpty
<1>2. ASSUME NEW r \in Seq(S), NEW x \in S, r \in P PROVE Append(r, x) \in P
  <2>1. Append(r, x) \in Seq(S) /\ Append(r, x) = r \o <<x>> /\ Len(Append(r, x)) = Len(r) + 1
    BY AppendIsConcat
  <2> DEFINE one == <<x>>
  <2>2. one \in Seq(S)
    OBVIOUS
  <2>3. Number(one, type) = 1
    BY NumberOne
  <2> HIDE DEF one
  <2>4. Number(r \o one, type) = Number(r, type) + Number(one, type)
    BY <2>2, NumberConcat
  <2>5. Append(r, x) = r \o one
    BY <2>1 DEF one
  <2>6. Number(Append(r, x), type) = Len(r) + 1
    BY <1>2, <2>3, <2>4, <2>5
  <2> QED  BY <2>1, <2>6
<1>3. Seq(S) \subseteq P
  <2> HIDE DEF P
  <2> QED  BY <1>1, <1>2, ByAppending
<1> QED  BY <1>3

\* A function that makes as many of every block as there were keeps the number.
LEMMA NumberAlong ==
    ASSUME NEW S, NEW T, NEW g, Makes(g, S, T), NEW s \in Seq(S), NEW type,
           \A x \in S : Number(g[x], type) = IF x.type = type THEN 1 ELSE 0
    PROVE  Number(Mapped(s, g), type) = Number(s, type)
<1> DEFINE h == Choice1(T, {type})
           k == Choice1(S, {type})
           Th == Chosen(T, {type})
           Tk == Chosen(S, {type})
<1>1. Makes(h, T, Th) /\ Makes(k, S, Tk) /\ \A x \in S : k[x] = IF x.type \in {type} THEN <<x>> ELSE <<>>
  <2>1. Makes(h, T, Th)
    BY ChoiceMakes
  <2>2. Makes(k, S, Tk)
    BY ChoiceMakes
  <2>3. \A x \in S : k[x] = IF x.type \in {type} THEN <<x>> ELSE <<>>
    BY DEF Choice1
  <2> QED  BY <2>1, <2>2, <2>3
<1>2. Mapped(s, g) \in Seq(T)
  BY MappedType
<1>3. Number(Mapped(s, g), type) = Len(Mapped(Mapped(s, g), h)) /\ Number(s, type) = Len(Mapped(s, k))
  <2>1. Number(Mapped(s, g), type) = Len(Mapped(Mapped(s, g), h))
    BY <1>2, NumberIn
  <2>2. Number(s, type) = Len(Mapped(s, k))
    BY NumberIn
  <2> QED  BY <2>1, <2>2
<1>6. ASSUME NEW x \in S PROVE Len(Through(S, g, h)[x]) = Len(k[x])
  <2>1. g[x] \in Seq(T)
    BY Made
  <2>2. Number(g[x], type) = Len(Mapped(g[x], h))
    BY <2>1, NumberIn
  <2>3. Through(S, g, h)[x] = Mapped(g[x], h)
    BY DEF Through
  <2>4. Number(g[x], type) = IF x.type = type THEN 1 ELSE 0
    OBVIOUS
  <2>5. Len(k[x]) = IF x.type = type THEN 1 ELSE 0
    <3>1. k[x] = IF x.type \in {type} THEN <<x>> ELSE <<>>
      BY <1>1
    <3> HIDE DEF k
    <3> QED  BY <3>1
  <2> QED  BY <2>2, <2>3, <2>4, <2>5, Zenon
<1> HIDE DEF h, k, Th, Tk
<1>4. Makes(Through(S, g, h), S, Th) /\ Mapped(Mapped(s, g), h) = Mapped(s, Through(S, g, h))
  BY <1>1, MappedTwice
<1> DEFINE u == Through(S, g, h)
<1>5. Makes(u, S, Th) /\ \A x \in S : Len(u[x]) = Len(k[x])
  BY <1>4, <1>6
<1> HIDE DEF u
<1>7. Len(Mapped(s, u)) = Len(Mapped(s, k))
  BY <1>1, <1>5, MappedLength
<1> QED  BY <1>3, <1>4, <1>7 DEF u

(***************************************************************************)
(* What a turn of the client adds to the messages.                         *)
(***************************************************************************)
\* The content that a turn of words is read back with.
ReadBack(role, content) ==
    IF Client # "openai" THEN content
    ELSE Without(content, {"ToolUse"})
         \o (IF role = "Assistant" THEN OfType(content, {"ToolUse"}) ELSE <<>>)

LEMMA ReadBackType ==
    ASSUME NEW S, NEW content \in Seq(S), NEW role
    PROVE  ReadBack(role, content) \in Seq(S)
<1>1. Without(content, {"ToolUse"}) \in Seq(S) /\ OfType(content, {"ToolUse"}) \in Seq(S)
  <2> DEFINE T == Chosen(S, {"ToolUse"})
             U == Others(S, {"ToolUse"})
  <2>1. OfType(content, {"ToolUse"}) \in Seq(T) /\ Without(content, {"ToolUse"}) \in Seq(U)
    BY OfTypeType
  <2>2. T \subseteq S /\ U \subseteq S
    BY DEF Chosen, Others
  <2> HIDE DEF T, U
  <2> QED  BY <2>1, <2>2
<1>2. Without(content, {"ToolUse"}) \o OfType(content, {"ToolUse"}) \in Seq(S)
  BY <1>1
<1>3. Without(content, {"ToolUse"}) \o <<>> \in Seq(S)
  BY <1>1
<1> QED  BY <1>2, <1>3 DEF ReadBack

\* What a written turn leaves of the invariant of the body.
Extends ==
    /\ DOMAIN body' = FieldsOf(Client')
    /\ \E S : body'.messages \in Seq(S)
    /\ body'.messages # <<>>
    /\ Turns' \in Seq(TurnSet')
    /\ Client' = Client

LEMMA WordsWritten ==
    ASSUME BodyInv, NEW role \in {"System", "User", "Assistant"}, NEW content \in Seq(AllBlocks), NEW gist,
           Writes(role, content, gist),
           role = "System" => body.messages # <<>> /\ Client # "anthropic"
    PROVE  Extends /\ TheMessages' = Append(TheMessages, Message(role, ReadBack(role, content)))
<1>1. body' = [body EXCEPT !.messages = @ \o Written(role, content)] /\ UNCHANGED scene
  BY DEF Writes
<1>2. Client \in {"canonical", "openai", "anthropic"}
  BY ThePlay
<1>3. RoleNames[role] = (CASE role = "System" -> "system" [] role = "User" -> "user"
                          [] role = "Assistant" -> "assistant")
  BY DEF RoleNames
<1> DEFINE t == CASE Client = "canonical" -> Message(role, content)
                  [] Client = "anthropic" -> [role |-> RoleNames[role], content |-> content]
                  [] Client = "openai" -> ChatTurn(RoleNames[role], Without(content, {"ToolUse"}),
                                                   OfType(content, {"ToolUse"}), "")
<1>4. Written(role, content) = <<t>>
  <2>1. CASE Client = "canonical"
    BY <2>1 DEF Written
  <2>2. CASE Client = "anthropic"
    BY <2>2 DEF Written
  <2>3. CASE Client = "openai"
    BY <2>3 DEF Written
  <2> QED  BY <1>2, <2>1, <2>2, <2>3
<1>5. t \in TurnSet
  <2>1. CASE Client = "canonical"
    <3>1. Message(role, content) \in Messages1
      BY DEF Message, Messages1, Roles
    <3> QED  BY <2>1, <3>1 DEF TurnSet
  <2>2. CASE Client = "anthropic"
    <3>1. [role |-> RoleNames[role], content |-> content] \in WireTurns
      BY <1>3 DEF WireTurns
    <3> QED  BY <2>2, <3>1 DEF TurnSet
  <2>3. CASE Client = "openai"
    <3> DEFINE w == Without(content, {"ToolUse"})
               c == OfType(content, {"ToolUse"})
    <3>1. w \in Seq(AllBlocks) /\ c \in Seq(CallBlocks)
      <4> DEFINE T == Chosen(AllBlocks, {"ToolUse"})
                 U == Others(AllBlocks, {"ToolUse"})
      <4>1. c \in Seq(T) /\ w \in Seq(U)
        BY OfTypeType
      <4>2. T \subseteq CallBlocks /\ U \subseteq AllBlocks
        BY BlockTypes DEF Chosen, Others
      <4> HIDE DEF T, U, w, c
      <4> QED  BY <4>1, <4>2
    <3> HIDE DEF w, c
    <3>2. ChatTurn(RoleNames[role], w, c, "") \in SpokenTurns
      BY <1>3, <3>1 DEF ChatTurn, SpokenTurns, Ids
    <3> QED  BY <2>3, <3>2 DEF TurnSet, ChatTurns1, w, c
  <2> QED  BY <1>2, <2>1, <2>2, <2>3
<1>6. body.messages # <<>> \/ Client # "openai" \/ t.role # "system"
  BY <1>3 DEF ChatTurn
<1>7. /\ Client = "canonical" => t = Message(role, content)
      /\ Client = "anthropic" => MessagesRead(t) = Message(role, content)
      /\ Client = "openai" => \A all : ChatFold(all, t) = Append(all, Message(role, ReadBack(role, content)))
  <2>1. CASE Client = "canonical"
    BY <2>1
  <2>2. CASE Client = "anthropic"
    <3>1. t = [role |-> RoleNames[role], content |-> content]
      BY <2>2
    <3>2. role # "System"
      BY <2>2
    <3> HIDE DEF t
    <3> QED  BY <1>3, <2>2, <3>1, <3>2 DEF MessagesRead, Message
  <2>3. CASE Client = "openai"
    <3> DEFINE w == Without(content, {"ToolUse"})
               c == OfType(content, {"ToolUse"})
    <3>1. t = ChatTurn(RoleNames[role], w, c, "")
      BY <2>3
    <3>2. w \in Seq(AllBlocks)
      <4> DEFINE U == Others(AllBlocks, {"ToolUse"})
      <4>1. w \in Seq(U)
        BY OfTypeType
      <4>2. U \subseteq AllBlocks
        BY DEF Others
      <4> HIDE DEF U, w
      <4> QED  BY <4>1, <4>2
    <3>3. ReadBack(role, content) = w \o (IF role = "Assistant" THEN c ELSE <<>>)
      BY <2>3 DEF ReadBack
    <3> HIDE DEF t, w, c
    <3>4. w \o <<>> = w
      BY <3>2
    <3>5. t.role = RoleNames[role] /\ t.content = w /\ t.calls = c
      BY <3>1 DEF ChatTurn
    <3>6. CASE role = "System"
      <4>1. \A all : ChatFold(all, t) = Append(all, Message("System", t.content))
        BY <1>3, <3>5, <3>6 DEF ChatFold
      <4> QED  BY <2>3, <3>3, <3>4, <3>5, <3>6, <4>1
    <3>7. CASE role = "User"
      <4>1. \A all : ChatFold(all, t) = Append(all, Message("User", t.content))
        BY <1>3, <3>5, <3>7 DEF ChatFold
      <4> QED  BY <2>3, <3>3, <3>4, <3>5, <3>7, <4>1
    <3>8. CASE role = "Assistant"
      <4>1. \A all : ChatFold(all, t) = Append(all, Message("Assistant", t.content \o t.calls))
        BY <1>3, <3>5, <3>8 DEF ChatFold
      <4> QED  BY <2>3, <3>3, <3>5, <3>8, <4>1
    <3> QED  BY <3>6, <3>7, <3>8
  <2> QED  BY <1>2, <2>1, <2>2, <2>3
<1> DEFINE w == <<t>>
<1> HIDE DEF t
<1>14. w \in Seq(TurnSet) /\ w # <<>> /\ Head(w) = t
  BY <1>5
<1>8. w \in Seq(TurnSet) /\ w # <<>> /\ Head(w) = t /\ body' = [body EXCEPT !.messages = @ \o w]
  BY <1>1, <1>4, <1>14, Zenon
<1>9. /\ DOMAIN body' = FieldsOf(Client') /\ \E S : body'.messages \in Seq(S)
      /\ body'.messages # <<>> /\ Turns' = Turns \o w /\ Client' = Client /\ TurnSet' = TurnSet
  <2> HIDE DEF w
  <2> QED  BY <1>1, <1>6, <1>8, TurnsGrow
<1>10. Turns' \in Seq(TurnSet')
  BY <1>8, <1>9 DEF BodyInv
<1>11. Turns' = Turns \o <<t>> /\ Client' = Client
  BY <1>9
<1>12. /\ Client = "canonical" => TheMessages' = Append(TheMessages, t)
       /\ Client = "anthropic" => TheMessages' = Append(TheMessages, MessagesRead(t))
       /\ Client = "openai" => TheMessages' = ChatFold(TheMessages, t)
  BY <1>5, <1>11, MessagesGrow
<1>13. Client # "openai" => ReadBack(role, content) = content
  BY DEF ReadBack
<1> QED  BY <1>2, <1>7, <1>9, <1>10, <1>12, <1>13 DEF Extends

\* Texts.
LEMMA TextsType ==
    ASSUME NEW content \in Seq(AllBlocks)
    PROVE  Texts(content) \in Seq(Int)
<1> DEFINE T == Chosen(AllBlocks, {"Text"})
           g == [c \in TextBlocks |-> c.text]
           s == OfType(content, {"Text"})
<1>1. s \in Seq(TextBlocks)
  <2>1. s \in Seq(T)
    BY OfTypeType
  <2>2. T \subseteq TextBlocks
    BY BlockTypes DEF Chosen
  <2> HIDE DEF T, s
  <2> QED  BY <2>1, <2>2
<1>2. Makes(g, TextBlocks, Int)
  BY DEF Makes, TextBlocks
<1> HIDE DEF s
<1>3. \A n \in DOMAIN s : g[s[n]] = s[n].text
  BY <1>1
<1>4. [n \in DOMAIN s |-> g[s[n]]] = [n \in DOMAIN s |-> s[n].text]
  BY <1>3, Zenon
<1> HIDE DEF g
<1>5. Mapped(s, g) \in Seq(Int)
  BY <1>1, <1>2, MappedType
<1>6. Texts(content) = Mapped(s, g)
  BY <1>4, Zenon DEF Texts, FlatMap, Each, Mapped, Flat, s
<1> QED  BY <1>5, <1>6

\* The results of a turn are gathered in one message.
ToolMessage(content) == [role |-> "Tool", content |-> content]

LEMMA FoldResults ==
    ASSUME NEW turns \in Seq(ChatTurns1), NEW w \in Seq(ResultTurns), w # <<>>,
           LET all == ChatFolded(turns) IN all = <<>> \/ all[Len(all)].role # "Tool"
    PROVE  \E content \in Seq(ResultBlocks) :
               /\ Len(content) = Len(w)
               /\ ChatFolded(turns \o w) = Append(ChatFolded(turns), ToolMessage(content))
<1> DEFINE all == ChatFolded(turns)
           Is(r) == \E content \in Seq(ResultBlocks) :
                        /\ Len(content) = Len(r)
                        /\ ChatFolded(turns \o r) = Append(all, ToolMessage(content))
           P == {r \in Seq(ResultTurns) : r = <<>> \/ Is(r)}
<1>0. all \in Seq(Messages1)
  <2>1. PICK f \in [0..Len(turns) -> Seq(Messages1)] : Folds(f, turns)
    BY FoldsExists
  <2>2. ChatFolded(turns) = f[Len(turns)] /\ Len(turns) \in 0..Len(turns)
    BY <2>1, FoldIs
  <2> QED  BY <2>1, <2>2
<1>1. <<>> \in P
  OBVIOUS
<1>2. ASSUME NEW r \in Seq(ResultTurns), NEW x \in ResultTurns, r \in P PROVE Append(r, x) \in P
  <2> DEFINE tr == turns \o r
  <2>1. /\ tr \in Seq(ChatTurns1) /\ x \in ChatTurns1 /\ Append(r, x) \in Seq(ResultTurns)
        /\ turns \o Append(r, x) = Append(tr, x) /\ Len(Append(r, x)) = Len(r) + 1 /\ Len(r) \in Nat
    <3>1. r \in Seq(ChatTurns1) /\ x \in ChatTurns1
      BY DEF ChatTurns1
    <3> QED  BY <3>1
  <2> HIDE DEF tr
  <2>2. ChatFolded(Append(tr, x)) = ChatFold(ChatFolded(tr), x)
    BY <2>1, FoldAppend
  <2>3. ChatResult(x) \in ResultBlocks /\ x.role = "tool"
    BY ChatResultType DEF ResultTurns
  <2> DEFINE k == ChatResult(x)
  <2>4. \A c \in Seq(ResultBlocks) : Append(c, k) \in Seq(ResultBlocks) /\ Len(Append(c, k)) = Len(c) + 1
    BY <2>3
  <2> HIDE DEF k
  <2>5. CASE r = <<>>
    <3>1. tr = turns /\ Len(Append(r, x)) = 1
      BY <2>1, <2>5 DEF tr
    <3>2. ~ (Len(all) > 0 /\ all[Len(all)].role = "Tool")
      BY <1>0
    <3>3. ChatFold(all, x) = Append(all, Message("Tool", <<ChatResult(x)>>))
      BY <2>3, <3>2 DEF ChatFold
    <3>4. Message("Tool", <<ChatResult(x)>>) = ToolMessage(<<k>>)
      BY DEF Message, ToolMessage, k
    <3>5. <<k>> \in Seq(ResultBlocks) /\ Len(<<k>>) = 1
      BY <2>3 DEF k
    <3>6. ChatFolded(turns \o Append(r, x)) = Append(all, ToolMessage(<<k>>))
      <4>1. ChatFolded(turns \o Append(r, x)) = ChatFold(all, x)
        BY <2>1, <2>2, <3>1
      <4> QED  BY <3>3, <3>4, <4>1, Zenon
    <3> DEFINE one == <<k>>
    <3>7. one \in Seq(ResultBlocks) /\ Len(one) = Len(Append(r, x))
      BY <3>1, <3>5
    <3> HIDE DEF one, all
    <3>8. Is(Append(r, x))
      BY <3>6, <3>7 DEF one
    <3> QED  BY <2>1, <3>8
  <2>6. CASE r # <<>>
    <3>1. PICK c \in Seq(ResultBlocks) :
             Len(c) = Len(r) /\ ChatFolded(turns \o r) = Append(all, ToolMessage(c))
      BY <1>2, <2>6
    <3> DEFINE m == Append(all, ToolMessage(c))
               n == Len(all) + 1
    <3>2. /\ m \in Seq(Messages1) /\ Len(m) = n /\ n > 0 /\ n \in Nat
          /\ m[n] = ToolMessage(c) /\ DOMAIN m = 1..n
      <4>1. ToolMessage(c) \in Messages1
        <5>1. c \in Seq(AllBlocks)
          BY BlockSets
        <5> QED  BY <5>1 DEF ToolMessage, Messages1, Roles
      <4> DEFINE y == ToolMessage(c)
      <4> HIDE DEF all, y
      <4>2. all \in Seq(Messages1) /\ y \in Messages1
        BY <1>0, <4>1 DEF y
      <4>3. /\ Append(all, y) \in Seq(Messages1) /\ Len(Append(all, y)) = n /\ n > 0 /\ n \in Nat
            /\ Append(all, y)[n] = y /\ DOMAIN Append(all, y) = 1..n
        BY <4>2
      <4> QED  BY <4>3 DEF y
    <3>3. m[n].role = "Tool" /\ m[n].content = c
      BY <3>2 DEF ToolMessage
    <3>4. ChatFolded(tr) = m
      BY <3>1 DEF tr
    <3> HIDE DEF m, n
    <3>5. ChatFold(m, x) = [m EXCEPT ![n].content = Append(@, ChatResult(x))]
      BY <2>3, <3>2, <3>3 DEF ChatFold
    <3>6. [m EXCEPT ![n].content = Append(@, ChatResult(x))] = [m EXCEPT ![n] = ToolMessage(Append(c, k))]
      <4>1. [m[n] EXCEPT !.content = Append(@, k)] = ToolMessage(Append(c, k))
        <5>1. [ToolMessage(c) EXCEPT !.content = Append(@, k)] = ToolMessage(Append(c, k))
          <6>1. \A u, v : [ToolMessage(u) EXCEPT !.content = v] = ToolMessage(v) /\ ToolMessage(u).content = u
            BY DEF ToolMessage
          <6> QED  BY <6>1
        <5> QED  BY <3>2, <5>1, Zenon
      <4>2. [m EXCEPT ![n].content = Append(@, k)] = [m EXCEPT ![n] = [m[n] EXCEPT !.content = Append(@, k)]]
        OBVIOUS
      <4> QED  BY <4>1, <4>2, Zenon DEF k
    <3>7. [m EXCEPT ![n] = ToolMessage(Append(c, k))] = Append(all, ToolMessage(Append(c, k)))
      <4> HIDE DEF all
      <4> DEFINE y == ToolMessage(Append(c, k))
                 z == ToolMessage(c)
                 S == Messages1 \cup {y, z}
                 a == [m EXCEPT ![n] = y]
                 b == Append(all, y)
      <4> HIDE DEF y, z
      <4>1. m = Append(all, z) /\ n = Len(all) + 1 /\ all \in Seq(S) /\ y \in S /\ z \in S
        BY <1>0 DEF m, n, z
      <4> HIDE DEF S
      <4>2. a \in Seq(S) /\ b \in Seq(S) /\ Len(a) = n /\ Len(b) = n
        BY <4>1
      <4>3. ASSUME NEW i \in 1..n PROVE a[i] = b[i]
        <5>1. i \in DOMAIN m /\ n \in Nat /\ Len(all) \in Nat
          BY <4>1
        <5>2. CASE i = n
          BY <4>1, <5>1, <5>2
        <5>3. CASE i # n
          <6>1. a[i] = m[i]
            BY <5>1, <5>3
          <6>2. i \in 1..Len(all)
            BY <4>1, <5>1, <5>3
          <6> QED  BY <4>1, <6>1, <6>2
        <5> QED  BY <5>2, <5>3
      <4> HIDE DEF a, b
      <4>4. a = b
        BY <4>2, <4>3, SeqEqual
      <4> QED  BY <4>4 DEF a, b, y
    <3>8. ChatFolded(turns \o Append(r, x)) = Append(all, ToolMessage(Append(c, k)))
      BY <2>1, <2>2, <3>4, <3>5, <3>6, <3>7, Zenon
    <3>9. Append(c, k) \in Seq(ResultBlocks) /\ Len(Append(c, k)) = Len(Append(r, x))
      BY <2>1, <2>4, <3>1
    <3> HIDE DEF all
    <3>10. Is(Append(r, x))
      BY <3>8, <3>9
    <3> QED  BY <2>1, <3>10
  <2> QED  BY <2>5, <2>6
<1>3. Seq(ResultTurns) \subseteq P
  <2> HIDE DEF P
  <2> QED  BY <1>1, <1>2, ByAppending
<1> QED  BY <1>3

LEMMA ToldType ==
    ASSUME NEW r \in ResultBlocks
    PROVE  ChatTurn("tool", Told(r).content, <<>>, r.id) \in ResultTurns
<1>1. r.content \in Seq(AllBlocks) /\ r.id \in Ids
  <2>1. r.content \in Seq(TextBlocks \cup MediaBlocks) /\ r.id \in Ids
    BY DEF ResultBlocks
  <2>2. TextBlocks \cup MediaBlocks \subseteq AllBlocks
    BY BlockSets DEF SaidBlocks
  <2> QED  BY <2>1, <2>2
<1>2. Texts(r.content) \in Seq(Int)
  BY <1>1, TextsType
<1>3. (IF r.is_error THEN ErrorPrefix ELSE <<>>) \in Seq(Int)
  BY DEF ErrorPrefix
<1>4. (IF r.is_error THEN ErrorPrefix ELSE <<>>) \o Texts(r.content) \in Seq(Int)
  BY <1>2, <1>3
<1>5. Told(r).content = <<Text((IF r.is_error THEN ErrorPrefix ELSE <<>>) \o Texts(r.content))>>
  BY DEF Told, ResultBlocks
<1> DEFINE y == Text((IF r.is_error THEN ErrorPrefix ELSE <<>>) \o Texts(r.content))
<1>6. y \in TextBlocks
  BY <1>4 DEF Text, TextBlocks
<1> HIDE DEF y
<1>7. Told(r).content \in Seq(TextBlocks)
  <2>1. Told(r).content = <<y>>
    BY <1>5 DEF y
  <2> QED  BY <1>6, <2>1
<1> QED  BY <1>1, <1>7 DEF ChatTurn, ResultTurns

LEMMA ResultsWritten ==
    ASSUME BodyInv, NEW results \in Seq(ResultBlocks), results # <<>>, NEW words \in Seq(TextBlocks), NEW gist,
           Writes("Tool", results \o words, gist),
           Client = "openai" => /\ words = <<>>
                                /\ TheMessages = <<>> \/ TheMessages[Len(TheMessages)].role # "Tool"
    PROVE  /\ Extends
           /\ \E content \in Seq(ResultBlocks), beside \in Seq(TextBlocks) :
                  /\ Len(content) = Len(results)
                  /\ TheMessages' = Append(TheMessages, ToolMessage(content \o beside))
<1>1. body' = [body EXCEPT !.messages = @ \o Written("Tool", results \o words)] /\ UNCHANGED scene
  BY DEF Writes
<1>2. Client \in {"canonical", "openai", "anthropic"}
  BY ThePlay
<1> DEFINE all == results \o words
<1>3. all \in Seq(AllBlocks) /\ all[1] \in ResultBlocks /\ 1 \in DOMAIN all
  <2>1. all \in Seq(ResultBlocks \cup TextBlocks) /\ all[1] = results[1] /\ 1 \in DOMAIN all
    OBVIOUS
  <2>2. ResultBlocks \cup TextBlocks \subseteq AllBlocks
    BY BlockSets
  <2> HIDE DEF all
  <2>3. results[1] \in ResultBlocks
    OBVIOUS
  <2> QED  BY <2>1, <2>2, <2>3
<1>4. CASE Client # "openai"
  <2> DEFINE t == IF Client = "canonical" THEN Message("Tool", all) ELSE [role |-> "user", content |-> all]
  <2>1. Written("Tool", all) = <<t>>
    BY <1>2, <1>4 DEF Written, RoleNames
  <2>2. t \in TurnSet
    <3> HIDE DEF all
    <3>1. Message("Tool", all) \in Messages1 /\ [role |-> "user", content |-> all] \in WireTurns
      BY <1>3 DEF Message, Messages1, Roles, WireTurns
    <3> QED  BY <1>2, <1>4, <3>1 DEF TurnSet
  <2>3. /\ Client = "canonical" => t = ToolMessage(all)
        /\ Client = "anthropic" => MessagesRead(t) = ToolMessage(all)
    <3> HIDE DEF all
    <3>1. all[1].type = "ToolResult"
      BY <1>3 DEF ResultBlocks
    <3>2. Message("Tool", all) = ToolMessage(all)
      BY DEF Message, ToolMessage
    <3>3. MessagesRead([role |-> "user", content |-> all]) = ToolMessage(all)
      BY <1>3, <3>1 DEF MessagesRead, Message, ToolMessage
    <3> QED  BY <3>2, <3>3
  <2> DEFINE w == <<t>>
  <2> HIDE DEF t, all
  <2>4. w \in Seq(TurnSet) /\ w # <<>>
    BY <2>2
  <2>5. body' = [body EXCEPT !.messages = @ \o w]
    BY <1>1, <2>1, Zenon DEF all
  <2>6. /\ DOMAIN body' = FieldsOf(Client') /\ \E S : body'.messages \in Seq(S)
        /\ body'.messages # <<>> /\ Turns' = Turns \o w /\ Client' = Client /\ TurnSet' = TurnSet
    <3> HIDE DEF w
    <3> QED  BY <1>1, <1>4, <2>4, <2>5, TurnsGrow
  <2>7. Turns' \in Seq(TurnSet')
    BY <2>4, <2>6 DEF BodyInv
  <2>8. Turns' = Turns \o <<t>> /\ Client' = Client
    BY <2>6
  <2>9. /\ Client = "canonical" => TheMessages' = Append(TheMessages, t)
        /\ Client = "anthropic" => TheMessages' = Append(TheMessages, MessagesRead(t))
    BY <2>2, <2>8, MessagesGrow
  <2>10. TheMessages' = Append(TheMessages, ToolMessage(all))
    BY <1>2, <1>4, <2>3, <2>9
  <2> QED  BY <2>6, <2>7, <2>10 DEF Extends, all
<1>5. CASE Client = "openai"
  <2>1. all = results
    BY <1>5
  <2> DEFINE f == [r \in ResultBlocks |-> ChatTurn("tool", Told(r).content, <<>>, r.id)]
             w == EachOf(results, f)
  <2>2. w \in Seq(ResultTurns) /\ Len(w) = Len(results)
    <3>1. f \in [ResultBlocks -> ResultTurns]
      BY ToldType
    <3> HIDE DEF f
    <3> QED  BY <3>1 DEF EachOf
  <2>3. Written("Tool", all) = w
    <3>1. Written("Tool", all) = Each(LAMBDA r : ChatTurn("tool", Told(r).content, <<>>, r.id), results)
      BY <1>5, <2>1 DEF Written
    <3>2. \A n \in DOMAIN results : f[results[n]]
             = ChatTurn("tool", Told(results[n]).content, <<>>, results[n].id)
      OBVIOUS
    <3>3. w = [n \in DOMAIN results |-> ChatTurn("tool", Told(results[n]).content, <<>>, results[n].id)]
      BY <3>2, Zenon DEF EachOf
    <3> QED  BY <3>1, <3>3, Zenon DEF Each
  <2> HIDE DEF w, all
  <2>4. w \in Seq(TurnSet) /\ w # <<>> /\ Head(w).role # "system"
    <3>1. Len(w) # 0 /\ Head(w) \in ResultTurns
      BY <2>2
    <3>2. ResultTurns \subseteq TurnSet
      BY <1>5 DEF TurnSet, ChatTurns1
    <3>3. Head(w).role # "system"
      BY <3>1 DEF ResultTurns
    <3> QED  BY <2>2, <3>1, <3>2, <3>3
  <2>5. body' = [body EXCEPT !.messages = @ \o w]
    BY <1>1, <2>3, Zenon DEF all
  <2>6. /\ DOMAIN body' = FieldsOf(Client') /\ \E S : body'.messages \in Seq(S)
        /\ body'.messages # <<>> /\ Turns' = Turns \o w /\ Client' = Client /\ TurnSet' = TurnSet
    BY <1>1, <2>4, <2>5, TurnsGrow
  <2>7. Turns' \in Seq(TurnSet')
    BY <2>4, <2>6 DEF BodyInv
  <2>8. TheMessages' = ChatFolded(Turns') /\ TheMessages = ChatFolded(Turns)
    BY <1>5, <2>6 DEF TheMessages, Decode, ShapeTaken, DecodeChat, Request, Turns, Leads
  <2>9. Turns \in Seq(ChatTurns1)
    BY <1>5 DEF BodyInv, TurnSet
  <2>10. TheMessages = <<>> \/ TheMessages[Len(TheMessages)].role # "Tool"
    BY <1>5
  <2>11. LET sofar == ChatFolded(Turns) IN sofar = <<>> \/ sofar[Len(sofar)].role # "Tool"
    BY <2>8, <2>10, Zenon
  <2> DEFINE before == Turns
  <2>12. before \in Seq(ChatTurns1)
         /\ LET sofar == ChatFolded(before) IN sofar = <<>> \/ sofar[Len(sofar)].role # "Tool"
    BY <2>9, <2>11
  <2> HIDE DEF before
  <2>13. PICK content \in Seq(ResultBlocks) :
             /\ Len(content) = Len(w)
             /\ ChatFolded(before \o w) = Append(ChatFolded(before), ToolMessage(content))
    BY <2>2, <2>4, <2>12, FoldResults
  <2>14. content \o <<>> = content /\ <<>> \in Seq(TextBlocks)
    OBVIOUS
  <2>15. TheMessages' = Append(TheMessages, ToolMessage(content \o <<>>))
    BY <2>6, <2>8, <2>13, <2>14, Zenon DEF before
  <2> DEFINE none == <<>>
  <2>16. none \in Seq(TextBlocks) /\ TheMessages' = Append(TheMessages, ToolMessage(content \o none))
         /\ Len(content) = Len(results)
    BY <2>2, <2>13, <2>14, <2>15
  <2> HIDE DEF none
  <2> QED  BY <2>6, <2>7, <2>16 DEF Extends
<1> QED  BY <1>4, <1>5

(***************************************************************************)
(* What the client keeps of an answer.                                     *)
(***************************************************************************)
LEMMA NumberEach ==
    ASSUME NEW S, NEW T, NEW f, Gives(f, S, T), NEW s \in Seq(S), NEW type, \A x \in S : f[x].type = x.type
    PROVE  Number(EachOf(s, f), type) = Number(s, type)
<1> DEFINE g == [x \in S |-> <<f[x]>>]
<1>1. Makes(g, S, T) /\ EachOf(s, f) = Mapped(s, g)
  BY EachIsMapped
<1>2. ASSUME NEW x \in S PROVE Number(g[x], type) = IF x.type = type THEN 1 ELSE 0
  <2>1. g[x] = <<f[x]>> /\ f[x].type = x.type
    OBVIOUS
  <2>2. Number(<<f[x]>>, type) = IF f[x].type = type THEN 1 ELSE 0
    BY NumberOne
  <2> QED  BY <2>1, <2>2, Zenon
<1> HIDE DEF g
<1>3. Number(Mapped(s, g), type) = Number(s, type)
  BY <1>1, <1>2, NumberAlong
<1> QED  BY <1>1, <1>3

LEMMA NumberWithout ==
    ASSUME NEW S, NEW s \in Seq(S), NEW types, NEW type
    PROVE  /\ type \notin types => Number(Without(s, types), type) = Number(s, type)
           /\ type \in types => Number(OfType(s, types), type) = Number(s, type)
<1> DEFINE g == Choice1(S, types)
           h == Rest1(S, types)
           T == Chosen(S, types)
           U == Others(S, types)
<1>1. Makes(g, S, T) /\ Makes(h, S, U) /\ OfType(s, types) = Mapped(s, g) /\ Without(s, types) = Mapped(s, h)
  <2>1. Makes(g, S, T) /\ Makes(h, S, U)
    BY ChoiceMakes
  <2>2. OfType(s, types) = Mapped(s, g) /\ Without(s, types) = Mapped(s, h)
    BY OfTypeIsMapped
  <2> QED  BY <2>1, <2>2
<1>2. CASE type \notin types
  <2>1. ASSUME NEW x \in S PROVE Number(h[x], type) = IF x.type = type THEN 1 ELSE 0
    <3>1. CASE x.type \in types
      <4>1. h[x] = <<>> /\ x.type # type
        BY <1>2, <3>1 DEF Rest1
      <4> QED  BY <4>1, NumberEmpty
    <3>2. CASE x.type \notin types
      <4>1. h[x] = <<x>>
        BY <3>2 DEF Rest1
      <4> QED  BY <4>1, NumberOne, Zenon
    <3> QED  BY <3>1, <3>2
  <2> HIDE DEF g, h, T, U
  <2>2. Number(Mapped(s, h), type) = Number(s, type)
    BY <1>1, <2>1, NumberAlong
  <2> QED  BY <1>1, <1>2, <2>2
<1>3. CASE type \in types
  <2>1. ASSUME NEW x \in S PROVE Number(g[x], type) = IF x.type = type THEN 1 ELSE 0
    <3>1. CASE x.type \notin types
      <4>1. g[x] = <<>> /\ x.type # type
        BY <1>3, <3>1 DEF Choice1
      <4> QED  BY <4>1, NumberEmpty
    <3>2. CASE x.type \in types
      <4>1. g[x] = <<x>>
        BY <3>2 DEF Choice1
      <4> QED  BY <4>1, NumberOne, Zenon
    <3> QED  BY <3>1, <3>2
  <2> HIDE DEF g, h, T, U
  <2>2. Number(Mapped(s, g), type) = Number(s, type)
    BY <1>1, <2>1, NumberAlong
  <2> QED  BY <1>1, <1>3, <2>2
<1> QED  BY <1>2, <1>3

LEMMA EchoType ==
    ASSUME NEW c \in KeptBlocks
    PROVE  Echo(c) \in KeptBlocks /\ Echo(c).type = c.type
<1>1. CASE c.type = "Thinking"
  <2>1. c \in ThinkingBlocks
    BY <1>1, BlockTypes, BlockSets
  <2>2. Echo(c) = [c EXCEPT !.encrypted = FALSE, !.signature = IF @ = "absent" THEN "blank" ELSE @]
    BY <1>1 DEF Echo
  <2>3. Echo(c) \in ThinkingBlocks
    BY <2>1, <2>2 DEF ThinkingBlocks
  <2>4. Echo(c).type = c.type
    BY <2>1, <2>3 DEF ThinkingBlocks
  <2> QED  BY <2>3, <2>4 DEF KeptBlocks
<1>2. CASE c.type = "ToolUse"
  <2>1. c \in CallBlocks
    BY <1>2, BlockTypes, BlockSets
  <2>2. Echo(c) = [c EXCEPT !.signed = FALSE]
    BY <1>2 DEF Echo
  <2>3. Echo(c) \in CallBlocks
    BY <2>1, <2>2 DEF CallBlocks
  <2>4. Echo(c).type = c.type
    BY <2>1, <2>3 DEF CallBlocks
  <2> QED  BY <2>3, <2>4 DEF KeptBlocks
<1>3. CASE c.type \notin {"Thinking", "ToolUse"}
  BY <1>3 DEF Echo
<1> QED  BY <1>1, <1>2, <1>3

\* The calls of an answer, and what a provider served itself, are kept, but for what
\* the chat dialect has no place for.
LEMMA KeptType ==
    ASSUME Client \in {"canonical", "openai", "anthropic"}, NEW content \in Seq(AnswerBlocks)
    PROVE  /\ Kept(content) \in Seq(KeptBlocks)
           /\ Number(Kept(content), "ToolUse") = Number(content, "ToolUse")
           /\ Number(Kept(content), "ServerToolUse") \in {0, Number(content, "ServerToolUse")}
<1> DEFINE f == [c \in KeptBlocks |-> Echo(c)]
<1>1. Gives(f, KeptBlocks, KeptBlocks) /\ \A c \in KeptBlocks : f[c].type = c.type
  BY EchoType DEF Gives
<1>2. ASSUME NEW s \in Seq(KeptBlocks) PROVE Each(Echo, s) = EachOf(s, f)
  <2>1. \A n \in DOMAIN s : f[s[n]] = Echo(s[n])
    OBVIOUS
  <2> QED  BY <2>1, Zenon DEF Each, EachOf
<1> HIDE DEF f
<1>3. ASSUME NEW s \in Seq(KeptBlocks)
      PROVE  Each(Echo, s) \in Seq(KeptBlocks) /\ \A type : Number(Each(Echo, s), type) = Number(s, type)
  <2>1. EachOf(s, f) \in Seq(KeptBlocks)
    BY <1>1 DEF EachOf, Gives
  <2>2. \A type : Number(EachOf(s, f), type) = Number(s, type)
    <3> SUFFICES ASSUME NEW type PROVE Number(EachOf(s, f), type) = Number(s, type)
      OBVIOUS
    <3> QED  BY <1>1, NumberEach
  <2> QED  BY <1>2, <2>1, <2>2
<1>4. CASE Client # "openai"
  <2> DEFINE s == Without(content, {"Image"})
             types == {"Image"}
  <2>1. s \in Seq(KeptBlocks)
    <3> DEFINE U == Others(AnswerBlocks, types)
    <3>1. s \in Seq(U)
      BY OfTypeType
    <3>2. U \subseteq KeptBlocks
      BY BlockSets DEF Others
    <3> HIDE DEF U, s
    <3> QED  BY <3>1, <3>2
  <2>2. Number(s, "ToolUse") = Number(content, "ToolUse")
        /\ Number(s, "ServerToolUse") = Number(content, "ServerToolUse")
    <3>1. "ToolUse" \notin types /\ "ServerToolUse" \notin types
      OBVIOUS
    <3>2. s = Without(content, types)
      OBVIOUS
    <3> HIDE DEF types, s
    <3> QED  BY <3>1, <3>2, NumberWithout
  <2>3. Kept(content) = s \/ Kept(content) = Each(Echo, s)
    BY <1>4 DEF Kept
  <2> HIDE DEF s
  <2>4. Kept(content) \in Seq(KeptBlocks) /\ \A type : Number(Kept(content), type) = Number(s, type)
    BY <1>3, <2>1, <2>3
  <2> QED  BY <2>2, <2>4
<1>5. CASE Client = "openai"
  <2> DEFINE types == {"Text", "ToolUse"}
             s == OfType(content, types)
  <2>1. s \in Seq(TextBlocks \cup CallBlocks) /\ s \in Seq(KeptBlocks)
    <3> DEFINE U == Chosen(AnswerBlocks, types)
    <3>1. s \in Seq(U)
      BY OfTypeType
    <3>2. U \subseteq TextBlocks \cup CallBlocks
      BY BlockSets DEF Chosen
    <3>3. TextBlocks \cup CallBlocks \subseteq KeptBlocks
      BY DEF KeptBlocks
    <3> HIDE DEF U, s
    <3> QED  BY <3>1, <3>2, <3>3
  <2>2. Number(s, "ToolUse") = Number(content, "ToolUse")
    <3>1. "ToolUse" \in types
      OBVIOUS
    <3> HIDE DEF types
    <3> QED  BY <3>1, NumberWithout
  <2>3. Kept(content) = Each(Echo, s)
    BY <1>5 DEF Kept
  <2> HIDE DEF s
  <2>4. Number(s, "ServerToolUse") = 0
    <3> DEFINE V == TextBlocks \cup CallBlocks
    <3>1. \A c \in V : c.type # "ServerToolUse"
      BY DEF TextBlocks, CallBlocks
    <3> HIDE DEF V
    <3> QED  BY <2>1, <3>1, NumberNone DEF V
  <2> QED  BY <1>3, <2>1, <2>2, <2>3, <2>4
<1> QED  BY <1>4, <1>5

(***************************************************************************)
(* The proofs of reasoning that a message has, and an answer gave.         *)
(***************************************************************************)
LEMMA MappedNothing ==
    ASSUME NEW S, NEW s \in Seq(S), NEW g, \A x \in S : g[x] = <<>>
    PROVE  Mapped(s, g) = <<>>
<1> DEFINE h == [x \in S |-> <<>>]
<1>1. Makes(h, S, {})
  BY DEF Makes
<1>2. \A x \in S : g[x] = h[x]
  OBVIOUS
<1> HIDE DEF h
<1>3. Mapped(s, g) = Mapped(s, h)
  BY <1>2, MappedAlike
<1>4. Mapped(s, h) \in Seq({})
  BY <1>1, MappedType
<1>5. \A r \in Seq({}) : r = <<>>
  <2> SUFFICES ASSUME NEW r \in Seq({}), r # <<>> PROVE FALSE
    OBVIOUS
  <2>1. r[1] \in {}
    OBVIOUS
  <2> QED  BY <2>1
<1> QED  BY <1>3, <1>4, <1>5

LEMMA MappedVia ==
    ASSUME NEW S, NEW T, NEW U, NEW g, NEW h, NEW k, Makes(g, S, T), Makes(h, T, U), NEW s \in Seq(S),
           \A x \in S : Mapped(g[x], h) = k[x]
    PROVE  Mapped(Mapped(s, g), h) = Mapped(s, k)
<1>1. Makes(Through(S, g, h), S, U) /\ Mapped(Mapped(s, g), h) = Mapped(s, Through(S, g, h))
  BY MappedTwice
<1> DEFINE u == Through(S, g, h)
<1>2. \A x \in S : u[x] = k[x]
  BY DEF Through
<1> HIDE DEF u
<1>3. Mapped(s, u) = Mapped(s, k)
  BY <1>2, MappedAlike
<1> QED  BY <1>1, <1>3 DEF u

\* Choosing the members of Q, and what f makes of them.
Picks(S, Q) == [x \in S |-> IF x \in Q THEN <<x>> ELSE <<>>]
Made1(S, Q, f) == [x \in S |-> IF x \in Q THEN <<f[x]>> ELSE <<>>]

LEMMA PicksMake == ASSUME NEW S, NEW Q PROVE Makes(Picks(S, Q), S, S \cap Q)
<1>1. ASSUME NEW x \in S PROVE (IF x \in Q THEN <<x>> ELSE <<>>) \in Seq(S \cap Q)
  <2> DEFINE T == S \cap Q
  <2>1. x \in Q => x \in T
    OBVIOUS
  <2> HIDE DEF T
  <2>2. x \in Q => <<x>> \in Seq(T)
    BY <2>1
  <2>3. <<>> \in Seq(T)
    OBVIOUS
  <2> QED  BY <2>2, <2>3 DEF T
<1> QED  BY <1>1 DEF Picks, Makes

LEMMA MadeMakes ==
    ASSUME NEW S, NEW Q, NEW T, NEW f, Gives(f, S \cap Q, T)
    PROVE  Makes(Made1(S, Q, f), S, T)
<1>1. ASSUME NEW x \in S PROVE (IF x \in Q THEN <<f[x]>> ELSE <<>>) \in Seq(T)
  BY DEF Gives
<1> QED  BY <1>1 DEF Made1, Makes

LEMMA PickedEach ==
    ASSUME NEW S, NEW Q, NEW T, NEW f, Gives(f, S \cap Q, T), NEW s \in Seq(S)
    PROVE  EachOf(Mapped(s, Picks(S, Q)), f) = Mapped(s, Made1(S, Q, f))
<1> DEFINE R == S \cap Q
           g == Picks(S, Q)
           h == [x \in R |-> <<f[x]>>]
           k == Made1(S, Q, f)
           q == Mapped(s, g)
<1>1. Makes(g, S, R)
  BY PicksMake
<1>2. Gives(f, R, T)
  OBVIOUS
<1>3. /\ \A x \in S : g[x] = IF x \in Q THEN <<x>> ELSE <<>>
      /\ \A x \in S : k[x] = IF x \in Q THEN <<f[x]>> ELSE <<>>
      /\ \A x \in R : h[x] = <<f[x]>>
      /\ \A x \in S : x \in Q => x \in R
  BY DEF Picks, Made1
<1> HIDE DEF R, g, k
<1>4. q \in Seq(R)
  BY <1>1, MappedType
<1> HIDE DEF q
<1>5. Makes(h, R, T) /\ EachOf(q, f) = Mapped(q, h)
  BY <1>2, <1>4, EachIsMapped
<1> HIDE DEF h
<1>6. ASSUME NEW x \in S PROVE Mapped(g[x], h) = k[x]
  <2>1. CASE x \in Q
    <3>1. Mapped(<<x>>, h) = h[x]
      BY <1>3, <1>5, <2>1, MappedOne
    <3> QED  BY <1>3, <2>1, <3>1
  <2>2. CASE x \notin Q
    <3>1. Mapped(<<>>, h) = <<>>
      BY MappedEmpty
    <3> QED  BY <1>3, <2>2, <3>1
  <2> QED  BY <2>1, <2>2
<1>7. Mapped(Mapped(s, g), h) = Mapped(s, k)
  BY <1>1, <1>5, <1>6, MappedVia
<1> QED  BY <1>5, <1>7 DEF q, g, k

LEMMA PickedTwice ==
    ASSUME NEW S, NEW Q, NEW R, NEW s \in Seq(S)
    PROVE  Mapped(Mapped(s, Picks(S, Q)), Picks(S \cap Q, R)) = Mapped(s, Picks(S, Q \cap R))
<1> DEFINE g == Picks(S, Q)
           h == Picks(S \cap Q, R)
           k == Picks(S, Q \cap R)
           T == S \cap Q
           U == T \cap R
<1>1. Makes(g, S, T)
  BY PicksMake
<1>2. Makes(h, T, U)
  BY PicksMake
<1>3. /\ \A x \in S : g[x] = IF x \in Q THEN <<x>> ELSE <<>>
      /\ \A x \in T : h[x] = IF x \in R THEN <<x>> ELSE <<>>
      /\ \A x \in S : k[x] = IF x \in Q /\ x \in R THEN <<x>> ELSE <<>>
      /\ \A x \in S : x \in Q => x \in T
  BY DEF Picks
<1> HIDE DEF g, h, k, T, U
<1>4. ASSUME NEW x \in S PROVE Mapped(g[x], h) = k[x]
  <2>1. CASE x \in Q
    <3>1. Mapped(<<x>>, h) = h[x]
      BY <1>2, <1>3, <2>1, MappedOne
    <3> QED  BY <1>3, <2>1, <3>1
  <2>2. CASE x \notin Q
    <3>1. Mapped(<<>>, h) = <<>>
      BY MappedEmpty
    <3> QED  BY <1>3, <2>2, <3>1
  <2> QED  BY <2>1, <2>2
<1>5. Mapped(Mapped(s, g), h) = Mapped(s, k)
  BY <1>1, <1>2, <1>4, MappedVia
<1> QED  BY <1>5 DEF g, h, k

LEMMA MakesMore ==
    ASSUME NEW S, NEW T, NEW V, NEW g, Makes(g, S, T), T \subseteq V
    PROVE  Makes(g, S, V)
<1>1. ASSUME NEW x \in S PROVE g[x] \in Seq(V)
  <2>1. g[x] \in Seq(T)
    BY Made
  <2> QED  BY <2>1
<1>2. g = [x \in S |-> g[x]]
  BY DEF Makes
<1> QED  BY <1>1, <1>2 DEF Makes

\* The blocks that show a provider its reasoning, and what they show of it.
Provers == {"anthropic", "google", "responses"}
Tokens == Seq(Int) \cup {"read", "write"}
IsProof(d, c) ==
    CASE d = "anthropic" -> Proves(c)
      [] d = "google" -> c.type = "ToolUse" /\ c.signed
      [] d = "responses" -> c.type = "Thinking" /\ c.encrypted
Token(d, c) ==
    CASE d = "anthropic" -> Proof(c)
      [] d = "google" -> c.name
      [] d = "responses" -> c.text
Proving(d) == {c \in AllBlocks : IsProof(d, c)}
TokenOf(d) == [c \in Proving(d) |-> Token(d, c)]
ProofsOf(d) == Made1(AllBlocks, Proving(d), TokenOf(d))
MessageProofs(d) == [m \in Messages1 |-> Mapped(m.content, ProofsOf(d))]

\* The blocks with which a provider gives it.
IsGiven(d, c) == IF d = "google" THEN c.type = "ToolUse" ELSE c.type \in Thoughts
GivenToken(d, c) == IF d = "google" THEN c.name ELSE Proof(c)
Giving(d) == {c \in AnswerBlocks : IsGiven(d, c)}
GivenTokenOf(d) == [c \in Giving(d) |-> GivenToken(d, c)]
GivenProofs(d) == Made1(AnswerBlocks, Giving(d), GivenTokenOf(d))
AnswerProofs(d) == [a \in Answers1 |-> IF a.by # d THEN <<>> ELSE Mapped(a.content, GivenProofs(d))]

LEMMA ProofIs ==
    ASSUME NEW d \in Provers
    PROVE  /\ Gives(TokenOf(d), AllBlocks \cap Proving(d), Tokens)
           /\ Makes(ProofsOf(d), AllBlocks, Tokens)
           /\ \A c \in AllBlocks : ProofsOf(d)[c] = IF IsProof(d, c) THEN <<Token(d, c)>> ELSE <<>>
<1>1. ASSUME NEW c \in Proving(d) PROVE Token(d, c) \in Tokens
  <2>1. c \in AllBlocks /\ IsProof(d, c)
    BY DEF Proving
  <2>2. CASE c.type = "Thinking"
    <3>1. c.text \in Seq(Int)
      BY <2>1, <2>2, BlockTypes DEF ThinkingBlocks
    <3>2. d # "google"
      BY <2>1, <2>2 DEF IsProof
    <3> QED  BY <2>2, <3>1, <3>2 DEF Token, Proof, Tokens, Provers
  <2>3. CASE c.type = "ToolUse"
    <3>1. c.name \in {"read", "write"}
      BY <2>1, <2>3, BlockTypes DEF CallBlocks
    <3>2. d = "google"
      BY <2>1, <2>3 DEF IsProof, Proves, Provers
    <3> QED  BY <3>1, <3>2 DEF Token, Tokens
  <2>4. CASE c.type \notin {"Thinking", "ToolUse"}
    <3>1. d = "anthropic"
      BY <2>1, <2>4 DEF IsProof, Provers
    <3>2. Token(d, c) = <<>>
      BY <2>4, <3>1 DEF Token, Proof
    <3> QED  BY <3>2 DEF Tokens
  <2> QED  BY <2>2, <2>3, <2>4
<1>2. AllBlocks \cap Proving(d) = Proving(d)
  BY DEF Proving
<1> DEFINE f == TokenOf(d)
           Q == Proving(d)
<1>3. Gives(f, AllBlocks \cap Q, Tokens)
  BY <1>1, <1>2 DEF Gives, TokenOf
<1>4. \A c \in AllBlocks : ProofsOf(d)[c] = IF IsProof(d, c) THEN <<Token(d, c)>> ELSE <<>>
  BY DEF ProofsOf, Made1, Proving, TokenOf
<1> HIDE DEF f, Q
<1>5. Makes(Made1(AllBlocks, Q, f), AllBlocks, Tokens)
  BY <1>3, MadeMakes
<1> QED  BY <1>3, <1>4, <1>5 DEF f, Q, ProofsOf

LEMMA GivenIs ==
    ASSUME NEW d \in Provers
    PROVE  /\ Gives(GivenTokenOf(d), AnswerBlocks \cap Giving(d), Tokens)
           /\ Makes(GivenProofs(d), AnswerBlocks, Tokens)
           /\ \A c \in AnswerBlocks : GivenProofs(d)[c] = IF IsGiven(d, c) THEN <<GivenToken(d, c)>> ELSE <<>>
<1>1. ASSUME NEW c \in Giving(d) PROVE GivenToken(d, c) \in Tokens
  <2>1. c \in AllBlocks /\ IsGiven(d, c)
    BY BlockSets DEF Giving
  <2>2. CASE d = "google"
    <3>1. c \in CallBlocks
      BY <2>1, <2>2, BlockTypes DEF IsGiven
    <3> QED  BY <2>2, <3>1 DEF GivenToken, CallBlocks, Tokens
  <2>3. CASE d # "google" /\ c.type = "Thinking"
    <3>1. c \in ThinkingBlocks
      BY <2>1, <2>3, BlockTypes
    <3> QED  BY <2>3, <3>1 DEF GivenToken, ThinkingBlocks, Proof, Tokens
  <2>4. CASE d # "google" /\ c.type # "Thinking"
    <3>1. GivenToken(d, c) = <<>>
      BY <2>4 DEF GivenToken, Proof
    <3> QED  BY <3>1 DEF Tokens
  <2> QED  BY <2>2, <2>3, <2>4
<1>2. AnswerBlocks \cap Giving(d) = Giving(d)
  BY DEF Giving
<1> DEFINE f == GivenTokenOf(d)
           Q == Giving(d)
<1>3. Gives(f, AnswerBlocks \cap Q, Tokens)
  BY <1>1, <1>2 DEF Gives, GivenTokenOf
<1>4. \A c \in AnswerBlocks : GivenProofs(d)[c] = IF IsGiven(d, c) THEN <<GivenToken(d, c)>> ELSE <<>>
  BY DEF GivenProofs, Made1, Giving, GivenTokenOf
<1> HIDE DEF f, Q
<1>5. Makes(Made1(AnswerBlocks, Q, f), AnswerBlocks, Tokens)
  BY <1>3, MadeMakes
<1> QED  BY <1>3, <1>4, <1>5 DEF f, Q, GivenProofs

LEMMA SilentProofs ==
    ASSUME NEW d \in Provers, NEW content \in Seq(SaidBlocks \cup ResultBlocks)
    PROVE  Mapped(content, ProofsOf(d)) = <<>>
<1> DEFINE S == SaidBlocks \cup ResultBlocks
           g == ProofsOf(d)
<1>1. ASSUME NEW c \in S PROVE g[c] = <<>>
  <2>1. c \in AllBlocks /\ c.type \in {"Text", "ToolResult"} \cup Media
    BY BlockSets DEF ResultBlocks
  <2>2. ~IsProof(d, c)
    BY <2>1 DEF IsProof, Proves, Media, Provers
  <2> QED  BY <2>1, <2>2, ProofIs
<1> HIDE DEF S, g
<1>2. content \in Seq(S)
  BY DEF S
<1>3. Mapped(content, g) = <<>>
  BY <1>1, <1>2, MappedNothing
<1> QED  BY <1>3 DEF g

LEMMA MessageProofsMake ==
    ASSUME NEW d \in Provers
    PROVE  /\ Makes(MessageProofs(d), Messages1, Tokens)
           /\ \A m \in Messages1 : MessageProofs(d)[m] = Mapped(m.content, ProofsOf(d))
<1> DEFINE g == ProofsOf(d)
<1>1. Makes(g, AllBlocks, Tokens)
  BY ProofIs
<1> HIDE DEF g
<1>2. ASSUME NEW m \in Messages1 PROVE Mapped(m.content, g) \in Seq(Tokens)
  <2>1. m.content \in Seq(AllBlocks)
    BY DEF Messages1
  <2> QED  BY <1>1, <2>1, MappedType
<1> QED  BY <1>2 DEF MessageProofs, Makes, g

LEMMA AnswerProofsMake ==
    ASSUME NEW d \in Provers
    PROVE  /\ Makes(AnswerProofs(d), Answers1, Tokens)
           /\ \A a \in Answers1 : AnswerProofs(d)[a] = IF a.by # d THEN <<>> ELSE Mapped(a.content, GivenProofs(d))
<1> DEFINE g == GivenProofs(d)
<1>1. Makes(g, AnswerBlocks, Tokens)
  BY GivenIs
<1> HIDE DEF g
<1>2. ASSUME NEW a \in Answers1 PROVE Mapped(a.content, g) \in Seq(Tokens)
  <2>1. a.content \in Seq(AnswerBlocks)
    BY DEF Answers1
  <2> QED  BY <1>1, <2>1, MappedType
<1>3. \A a \in Answers1 : (IF a.by # d THEN <<>> ELSE Mapped(a.content, g)) \in Seq(Tokens)
  BY <1>2
<1> QED  BY <1>3 DEF AnswerProofs, Makes, g

\* What a client that keeps reasoning keeps of an answer shows it to whoever gave it.
LEMMA KeptProofs ==
    ASSUME NEW d \in Provers, NEW by \in Dialects, NEW content \in Seq(BlocksOf(by)),
           Client = "canonical" \/ (Client = "anthropic" /\ d = "anthropic")
    PROVE  Mapped(Kept(content), ProofsOf(d)) = IF by # d THEN <<>> ELSE Mapped(content, GivenProofs(d))
<1> DEFINE B == BlocksOf(by)
           types == {"Image"}
           R == Others(B, types)
           g == Rest1(B, types)
           p == ProofsOf(d)
           q == GivenProofs(d)
           k == [c \in B |-> IF by # d THEN <<>> ELSE q[c]]
           s == Without(content, types)
<1>1. Makes(g, B, R) /\ Makes(p, AllBlocks, Tokens)
  <2>1. Makes(g, B, R)
    BY ChoiceMakes
  <2> QED  BY <2>1, ProofIs
<1>2. R \subseteq AllBlocks /\ B \subseteq AnswerBlocks
  BY BlockSets DEF Others, BlocksOf
<1>3. s = Mapped(content, g)
  BY OfTypeIsMapped
<1>4. /\ \A c \in B : g[c] = IF c.type # "Image" THEN <<c>> ELSE <<>>
      /\ \A c \in B : c.type # "Image" => c \in R
  BY DEF Rest1, Others
<1>5. ASSUME NEW c \in B PROVE k[c] = IF c.type # "Image" THEN p[c] ELSE <<>>
  <2>1. c \in AnswerBlocks /\ GivenBy(by, c) /\ c \in AllBlocks
    BY BlockSets DEF BlocksOf
  <2>2. p[c] = IF IsProof(d, c) THEN <<Token(d, c)>> ELSE <<>>
    BY <2>1, ProofIs
  <2>3. q[c] = IF IsGiven(d, c) THEN <<GivenToken(d, c)>> ELSE <<>>
    BY <2>1, GivenIs
  <2>4. k[c] = IF by # d THEN <<>> ELSE q[c]
    OBVIOUS
  <2>5. CASE c.type = "Image"
    <3>1. ~IsGiven(d, c)
      BY <2>5 DEF IsGiven, Thoughts
    <3> QED  BY <2>3, <2>4, <2>5, <3>1
  <2>6. CASE c.type # "Image"
    <3>1. IsProof(d, c) <=> by = d /\ IsGiven(d, c)
      <4>1. CASE c.type = "ToolUse"
        <5>1. c \in CallBlocks
          BY <2>1, <4>1, BlockTypes
        <5>2. c.signed \in BOOLEAN /\ c.signed = (by = "google")
          BY <2>1, <4>1, <5>1 DEF GivenBy, CallBlocks
        <5> QED  BY <4>1, <5>2 DEF IsProof, Proves, IsGiven, Thoughts, Provers
      <4>2. CASE c.type = "Thinking"
        <5>1. c \in ThinkingBlocks
          BY <2>1, <4>2, BlockTypes
        <5>2. c.encrypted = (by = "responses") /\ c.signature = IF by = "anthropic" THEN "given" ELSE "absent"
          BY <2>1, <4>2 DEF GivenBy
        <5> QED  BY <4>2, <5>2 DEF IsProof, Proves, IsGiven, Thoughts, Provers
      <4>3. CASE c.type = "RedactedThinking"
        <5>1. by = "anthropic"
          BY <2>1, <4>3 DEF GivenBy
        <5> QED  BY <4>3, <5>1 DEF IsProof, Proves, IsGiven, Thoughts, Provers
      <4>4. CASE c.type \notin {"ToolUse", "Thinking", "RedactedThinking"}
        BY <4>4 DEF IsProof, Proves, IsGiven, Thoughts, Provers
      <4> QED  BY <4>1, <4>2, <4>3, <4>4
    <3>2. IsProof(d, c) => Token(d, c) = GivenToken(d, c)
      BY DEF IsProof, Token, GivenToken, Proof, Provers
    <3> QED  BY <2>2, <2>3, <2>4, <2>6, <3>1, <3>2, Zenon
  <2> QED  BY <2>5, <2>6
<1>6. IF by # d THEN Mapped(content, k) = <<>> ELSE Mapped(content, k) = Mapped(content, q)
  <2>1. \A c \in B : k[c] = IF by # d THEN <<>> ELSE q[c]
    OBVIOUS
  <2> HIDE DEF k, q, B
  <2>2. CASE by # d
    <3>1. \A c \in B : k[c] = <<>>
      BY <2>1, <2>2
    <3>2. content \in Seq(B)
      BY DEF B
    <3>3. Mapped(content, k) = <<>>
      BY <3>1, <3>2, MappedNothing
    <3> QED  BY <2>2, <3>3
  <2>3. CASE by = d
    <3>1. \A c \in B : k[c] = q[c]
      BY <2>1, <2>3
    <3>2. content \in Seq(B)
      BY DEF B
    <3>3. Mapped(content, k) = Mapped(content, q)
      BY <3>1, <3>2, MappedAlike
    <3> QED  BY <2>3, <3>3
  <2> QED  BY <2>2, <2>3
<1>7. content \in Seq(B)
  OBVIOUS
<1> HIDE DEF k, q, B, p, g, R, types, s
<1>8. Makes(g, B, AllBlocks)
  BY <1>1, <1>2, MakesMore
<1>9. ASSUME NEW c \in B PROVE Mapped(g[c], p) = k[c]
  <2>1. CASE c.type # "Image"
    <3>1. c \in AllBlocks
      BY <1>2, <1>4, <2>1
    <3>2. Mapped(<<c>>, p) = p[c]
      BY <1>1, <3>1, MappedOne
    <3> QED  BY <1>4, <1>5, <2>1, <3>2
  <2>2. CASE c.type = "Image"
    <3>1. Mapped(<<>>, p) = <<>>
      BY MappedEmpty
    <3> QED  BY <1>4, <1>5, <2>2, <3>1
  <2> QED  BY <2>1, <2>2
<1>10. Mapped(s, p) = Mapped(content, k)
  <2>1. Mapped(Mapped(content, g), p) = Mapped(content, k)
    BY <1>1, <1>7, <1>8, <1>9, MappedVia
  <2> QED  BY <1>3, <2>1
<1>11. Mapped(Kept(content), p) = Mapped(s, p)
  <2>1. CASE Client = "canonical"
    <3>1. Kept(content) = s
      BY <2>1 DEF Kept, s, types
    <3> QED  BY <3>1
  <2>2. CASE Client = "anthropic" /\ d = "anthropic"
    <3> DEFINE f == [c \in KeptBlocks |-> Echo(c)]
               e == [c \in KeptBlocks |-> <<f[c]>>]
    <3>1. Gives(f, KeptBlocks, KeptBlocks) /\ \A c \in KeptBlocks : f[c] = Echo(c)
      BY EchoType DEF Gives
    <3>2. s \in Seq(KeptBlocks)
      <4> DEFINE U == Others(AnswerBlocks, types)
      <4>1. content \in Seq(AnswerBlocks)
        BY <1>2, <1>7
      <4>2. s \in Seq(U)
        BY <4>1, OfTypeType DEF s
      <4>3. U \subseteq KeptBlocks
        BY BlockSets DEF Others, types
      <4> HIDE DEF U
      <4> QED  BY <4>2, <4>3
    <3>3. Kept(content) = EachOf(s, f)
      <4>1. Kept(content) = Each(Echo, s)
        BY <2>2 DEF Kept, s, types
      <4>2. \A n \in DOMAIN s : f[s[n]] = Echo(s[n])
        BY <3>2
      <4>3. [n \in DOMAIN s |-> f[s[n]]] = [n \in DOMAIN s |-> Echo(s[n])]
        BY <4>2, Zenon
      <4> HIDE DEF f
      <4> QED  BY <4>1, <4>3, Zenon DEF Each, EachOf
    <3>4. ASSUME NEW c \in KeptBlocks PROVE p[Echo(c)] = p[c] /\ Echo(c) \in AllBlocks
      <4>1. c \in AllBlocks /\ Echo(c) \in AllBlocks
        BY EchoType, BlockSets
      <4>2. p[c] = (IF IsProof(d, c) THEN <<Token(d, c)>> ELSE <<>>)
            /\ p[Echo(c)] = (IF IsProof(d, Echo(c)) THEN <<Token(d, Echo(c))>> ELSE <<>>)
        BY <4>1, ProofIs DEF p
      <4>3. CASE c.type = "Thinking"
        <5>1. c \in ThinkingBlocks
          BY <4>1, <4>3, BlockTypes
        <5> DEFINE x == [c EXCEPT !.encrypted = FALSE,
                                  !.signature = IF @ = "absent" THEN "blank" ELSE @]
        <5>2. x.type = c.type /\ x.text = c.text /\ (x.signature = "given" <=> c.signature = "given")
          BY <5>1 DEF ThinkingBlocks
        <5>3. Echo(c) = x
          BY <4>3 DEF Echo
        <5> HIDE DEF x
        <5>4. IsProof(d, x) <=> IsProof(d, c)
          BY <2>2, <4>3, <5>2 DEF IsProof, Proves
        <5>5. Token(d, x) = Token(d, c)
          BY <2>2, <4>3, <5>2 DEF Token, Proof
        <5> QED  BY <4>1, <4>2, <5>3, <5>4, <5>5, Zenon
      <4>4. CASE c.type # "Thinking"
        <5>1. Echo(c).type = c.type
          BY EchoType
        <5>2. IsProof(d, Echo(c)) <=> IsProof(d, c)
          BY <2>2, <4>4, <5>1 DEF IsProof, Proves
        <5>3. Token(d, Echo(c)) = Token(d, c)
          BY <2>2, <4>4, <5>1 DEF Token, Proof
        <5> QED  BY <4>1, <4>2, <5>2, <5>3, Zenon
      <4> QED  BY <4>3, <4>4
    <3> HIDE DEF f
    <3>5. Makes(e, KeptBlocks, KeptBlocks) /\ EachOf(s, f) = Mapped(s, e)
      BY <3>1, <3>2, EachIsMapped
    <3>6. \A c \in KeptBlocks : e[c] = <<f[c]>>
      OBVIOUS
    <3> HIDE DEF e
    <3>7. Makes(e, KeptBlocks, AllBlocks)
      BY <3>5, BlockSets, MakesMore
    <3>8. ASSUME NEW c \in KeptBlocks PROVE Mapped(e[c], p) = p[c]
      <4> DEFINE x == Echo(c)
      <4>1. x \in AllBlocks /\ p[x] = p[c] /\ e[c] = <<x>>
        BY <3>1, <3>4, <3>6
      <4> HIDE DEF x
      <4>2. Mapped(<<x>>, p) = p[x]
        BY <1>1, <4>1, MappedOne
      <4> QED  BY <4>1, <4>2
    <3>9. Mapped(Mapped(s, e), p) = Mapped(s, p)
      BY <1>1, <3>2, <3>7, <3>8, MappedVia
    <3> QED  BY <3>3, <3>5, <3>9
  <2> QED  BY <2>1, <2>2
<1> QED  BY <1>6, <1>10, <1>11 DEF p, q

(***************************************************************************)
(* The invariant.                                                          *)
(***************************************************************************)
\* The messages but for instructions, which two of the providers take at the head.
NotSystem(m) == m.role # "System"
Turned(messages) == Those(NotSystem, messages)
TurnedMessages == {m \in Messages1 : NotSystem(m)}

LEMMA TurnedAppend ==
    ASSUME NEW messages \in Seq(Messages1), NEW m \in Messages1
    PROVE  /\ Turned(messages) \in Seq(TurnedMessages)
           /\ Turned(Append(messages, m)) = IF m.role = "System" THEN Turned(messages)
                                            ELSE Append(Turned(messages), m)
<1> DEFINE T == TurnedMessages
           g == [x \in Messages1 |-> IF NotSystem(x) THEN <<x>> ELSE <<>>]
<1>1. ASSUME NEW x \in Messages1 PROVE (IF NotSystem(x) THEN <<x>> ELSE <<>>) \in Seq(T)
  <2>1. CASE NotSystem(x)
    <3>1. x \in T
      BY <2>1 DEF TurnedMessages
    <3> HIDE DEF T
    <3> QED  BY <2>1, <3>1
  <2>2. CASE ~NotSystem(x)
    BY <2>2
  <2> QED  BY <2>1, <2>2
<1> HIDE DEF T
<1>2. Makes(g, Messages1, T) /\ g[m] = IF m.role = "System" THEN <<>> ELSE <<m>>
  BY <1>1 DEF Makes, NotSystem
<1>3. ASSUME NEW s \in Seq(Messages1) PROVE Turned(s) = Mapped(s, g)
  <2>1. \A n \in DOMAIN s : g[s[n]] = IF NotSystem(s[n]) THEN <<s[n]>> ELSE <<>>
    OBVIOUS
  <2>2. [n \in DOMAIN s |-> g[s[n]]] = [n \in DOMAIN s |-> IF NotSystem(s[n]) THEN <<s[n]>> ELSE <<>>]
    BY <2>1, Zenon
  <2> QED  BY <2>2, Zenon DEF Turned, Those, FlatMap, Each, Mapped, Flat
<1> HIDE DEF g
<1>4. Mapped(messages, g) \in Seq(T)
  BY <1>2, MappedType
<1>10. Makes(g, Messages1, T)
  BY <1>2
<1>5. Mapped(Append(messages, m), g) = Mapped(messages, g) \o g[m]
  BY <1>10, MappedAppend
<1>6. Append(messages, m) \in Seq(Messages1)
  OBVIOUS
<1>7. Turned(Append(messages, m)) = Turned(messages) \o g[m] /\ Turned(messages) \in Seq(T)
  BY <1>3, <1>4, <1>5, <1>6
<1>8. CASE m.role = "System"
  <2>1. Turned(messages) \o <<>> = Turned(messages)
    BY <1>7
  <2> QED  BY <1>2, <1>7, <1>8, <2>1 DEF T
<1>9. CASE m.role # "System"
  <2>1. m \in T
    BY <1>9 DEF T, TurnedMessages, NotSystem
  <2>2. Append(Turned(messages), m) = Turned(messages) \o <<m>>
    BY <1>7, <2>1, AppendIsConcat
  <2> QED  BY <1>2, <1>7, <1>9, <2>2 DEF T
<1> QED  BY <1>8, <1>9

CallsOf(m) == Number(m.content, "ToolUse")
ResultsOf(m) == Number(m.content, "ToolResult")

\* Results are in the turn after the calls.
ResultsAreNext ==
    LET turns == Turned(TheMessages)
    IN  /\ \A n \in 1..Len(turns) : n < Len(turns) => CallsOf(turns[n]) = ResultsOf(turns[n + 1])
        /\ turns # <<>> => CallsOf(turns[Len(turns)]) = Len(Pending)

\* The assistant has the last word as long as its calls have no results.
CallsPend ==
    LastSide = "assistant" =>
        /\ \E S : Pending \in Seq(S)
        /\ TheMessages # <<>> /\ TheMessages[Len(TheMessages)].role = "Assistant"
        /\ answers # <<>>
        /\ Len(Pending) = Number(answers[Len(answers)].content, "ToolUse")

\* The assistant's messages have nothing that it did not say.
ServedSome == \E a \in DOMAIN answers : Number(answers[a].content, "ServerToolUse") # 0
Says(m) ==
    m.role = "Assistant" =>
        /\ m.content \in Seq(KeptBlocks)
        /\ Number(m.content, "ServerToolUse") # 0 => ServedSome
SaysNoMore == \A n \in DOMAIN TheMessages : Says(TheMessages[n])

\* What the messages show is what the providers gave, and only the assistant shows it.
Returns(d) == Client = "canonical" \/ (Client = "anthropic" /\ d = "anthropic")
Quiet(d) == {m \in Messages1 : m.role # "Assistant" => Mapped(m.content, ProofsOf(d)) = <<>>}
ProofsAreKept ==
    \A d \in Provers : Returns(d) =>
        /\ Mapped(TheMessages, MessageProofs(d)) = Mapped(answers, AnswerProofs(d))
        /\ TheMessages \in Seq(Quiet(d))

\* What was sent was made of the body as it is.
SentInv ==
    IF sent.to = "nobody" THEN sent.refusal = "none"
    ELSE /\ sent.to \in Dialects
         /\ sent.refusal = (IF NoProjection(Client, body) THEN "ParseInput"
                            ELSE Refusal(sent.to, Asked(sent.to), row.exec))
         /\ sent.wire = (IF sent.refusal = "none" THEN Encode(sent.to, Asked(sent.to)) ELSE None)
         /\ Pending = <<>>

ConversationInv == BodyInv /\ ResultsAreNext /\ CallsPend /\ SaysNoMore /\ ProofsAreKept /\ SentInv

LEMMA ResultsNextGrow ==
    ASSUME BodyInv, ResultsAreNext, NEW m \in Messages1, TheMessages' = Append(TheMessages, m),
           m.role = "System" => Len(Pending') = Len(Pending),
           m.role # "System" => ResultsOf(m) = Len(Pending) /\ CallsOf(m) = Len(Pending')
    PROVE  ResultsAreNext'
<1> DEFINE before == Turned(TheMessages)
           after == Turned(Append(TheMessages, m))
           were == Len(Pending)
           are == Len(Pending')
<1>1. TheMessages \in Seq(Messages1)
  BY MessagesAre
<1>2. before \in Seq(TurnedMessages) /\ after = IF m.role = "System" THEN before ELSE Append(before, m)
  <2> DEFINE messages == TheMessages
  <2>1. messages \in Seq(Messages1)
    BY <1>1
  <2> HIDE DEF messages
  <2>2. /\ Turned(messages) \in Seq(TurnedMessages)
        /\ Turned(Append(messages, m)) = IF m.role = "System" THEN Turned(messages)
                                         ELSE Append(Turned(messages), m)
    BY <2>1, TurnedAppend
  <2> QED  BY <2>2 DEF messages
<1>3. /\ \A n \in 1..Len(before) : n < Len(before) => CallsOf(before[n]) = ResultsOf(before[n + 1])
      /\ before # <<>> => CallsOf(before[Len(before)]) = were
  BY DEF ResultsAreNext
<1> HIDE DEF before, after
<1> SUFFICES /\ \A n \in 1..Len(after) : n < Len(after) => CallsOf(after[n]) = ResultsOf(after[n + 1])
             /\ after # <<>> => CallsOf(after[Len(after)]) = are
  <2>1. Turned(TheMessages') = after
    BY Zenon DEF after
  <2>2. ResultsAreNext' = (LET turns == Turned(TheMessages')
                           IN  /\ \A n \in 1..Len(turns) :
                                     n < Len(turns) => CallsOf(turns[n]) = ResultsOf(turns[n + 1])
                               /\ turns # <<>> => CallsOf(turns[Len(turns)]) = are)
    BY Zenon DEF ResultsAreNext, Turned, NotSystem, CallsOf, ResultsOf, Those, FlatMap, Each, SX!FlattenSeq, Number, OfType
  <2> QED  BY <2>1, <2>2
<1>4. CASE m.role = "System"
  BY <1>2, <1>3, <1>4
<1>5. CASE m.role # "System"
  <2> DEFINE were1 == were
             are1 == are
  <2>1. /\ after = Append(before, m) /\ ResultsOf(m) = were1 /\ CallsOf(m) = are1
        /\ Len(before) \in Nat /\ Len(after) = Len(before) + 1 /\ after[Len(after)] = m
        /\ before # <<>> => Len(before) # 0
        /\ \A n \in 1..Len(before) : after[n] = before[n]
    BY <1>2, <1>5
  <2>2. before # <<>> => CallsOf(before[Len(before)]) = were1
    BY <1>3
  <2> HIDE DEF were, are, were1, are1
  <2>3. ASSUME NEW n \in 1..Len(after), n < Len(after) PROVE CallsOf(after[n]) = ResultsOf(after[n + 1])
    <3>1. n \in 1..Len(before) /\ after[n] = before[n]
      BY <2>1, <2>3
    <3>2. CASE n < Len(before)
      <4>1. after[n + 1] = before[n + 1]
        BY <2>1, <3>2
      <4> QED  BY <1>3, <3>1, <3>2, <4>1
    <3>3. CASE n = Len(before)
      <4>1. after[n + 1] = m /\ before # <<>>
        BY <2>1, <3>1, <3>3
      <4> QED  BY <2>1, <2>2, <3>1, <3>3, <4>1
    <3> QED  BY <2>1, <3>1, <3>2, <3>3
  <2> QED  BY <2>1, <2>3 DEF are1
<1> QED  BY <1>4, <1>5

LEMMA SaysGrow ==
    ASSUME BodyInv, SaysNoMore, NEW m \in Messages1, TheMessages' = Append(TheMessages, m),
           ServedSome => ServedSome',
           m.role = "Assistant" => /\ m.content \in Seq(KeptBlocks)
                                   /\ Number(m.content, "ServerToolUse") # 0 => ServedSome'
    PROVE  SaysNoMore'
<1>1. TheMessages \in Seq(Messages1)
  BY MessagesAre
<1> DEFINE all == TheMessages
           those == TheMessages'
<1>2. all \in Seq(Messages1) /\ those = Append(all, m)
  BY <1>1
<1>4. \A n \in DOMAIN all : Says(all[n])
  BY DEF SaysNoMore
<1> SUFFICES ASSUME NEW n \in DOMAIN those
             PROVE  those[n].role = "Assistant" =>
                        /\ those[n].content \in Seq(KeptBlocks)
                        /\ Number(those[n].content, "ServerToolUse") # 0 => ServedSome'
  BY Zenon DEF SaysNoMore, Says
<1> HIDE DEF all, those
<1>5. CASE n = Len(all) + 1
  <2>1. those[n] = m
    BY <1>2, <1>5
  <2> QED  BY <2>1
<1>6. CASE n # Len(all) + 1
  <2>1. n \in DOMAIN all /\ those[n] = all[n]
    BY <1>2, <1>6
  <2>2. Says(all[n])
    BY <1>4, <2>1
  <2> QED  BY <2>1, <2>2 DEF Says
<1> QED  BY <1>5, <1>6

LEMMA ProofsGrow ==
    ASSUME BodyInv, ProofsAreKept, Client' = Client, NEW m \in Messages1, TheMessages' = Append(TheMessages, m),
           \A d \in Provers : Returns(d) =>
               /\ m.role # "Assistant" => Mapped(m.content, ProofsOf(d)) = <<>>
               /\ Mapped(answers', AnswerProofs(d))
                      = Mapped(answers, AnswerProofs(d)) \o Mapped(m.content, ProofsOf(d))
    PROVE  ProofsAreKept'
<1> DEFINE messages == TheMessages
<1>1. messages \in Seq(Messages1)
  BY MessagesAre
<1>2. ASSUME NEW d \in Provers, Returns(d)
      PROVE  /\ Mapped(Append(messages, m), MessageProofs(d)) = Mapped(answers', AnswerProofs(d))
             /\ Append(messages, m) \in Seq(Quiet(d))
  <2> DEFINE h == MessageProofs(d)
             Q == Quiet(d)
  <2>1. Makes(h, Messages1, Tokens) /\ h[m] = Mapped(m.content, ProofsOf(d))
    BY MessageProofsMake
  <2>2. Mapped(messages, h) = Mapped(answers, AnswerProofs(d)) /\ messages \in Seq(Q)
    BY <1>2 DEF ProofsAreKept
  <2>3. m \in Q
    BY <1>2 DEF Quiet
  <2>4. Mapped(answers', AnswerProofs(d)) = Mapped(answers, AnswerProofs(d)) \o Mapped(m.content, ProofsOf(d))
    BY <1>2
  <2> HIDE DEF h, Q, messages
  <2>5. Mapped(Append(messages, m), h) = Mapped(messages, h) \o h[m]
    BY <1>1, <2>1, MappedAppend
  <2>6. Append(messages, m) \in Seq(Q)
    BY <2>2, <2>3
  <2>7. Mapped(Append(messages, m), h) = Mapped(answers', AnswerProofs(d))
    BY <2>1, <2>2, <2>4, <2>5, Zenon
  <2> QED  BY <2>6, <2>7 DEF h, Q
<1>3. Append(messages, m) = TheMessages'
  OBVIOUS
<1>4. \A d : Returns(d)' = Returns(d)
  BY DEF Returns
<1> HIDE DEF messages
<1> QED  BY <1>2, <1>3, <1>4, Zenon DEF ProofsAreKept

LEMMA ProofsUntold ==
    ASSUME BodyInv, ProofsAreKept, Client' = Client, NEW m \in Messages1, TheMessages' = Append(TheMessages, m),
           UNCHANGED answers, m.content \in Seq(SaidBlocks \cup ResultBlocks)
    PROVE  ProofsAreKept'
<1>1. ASSUME NEW d \in Provers
      PROVE  /\ Mapped(m.content, ProofsOf(d)) = <<>>
             /\ Mapped(answers', AnswerProofs(d))
                    = Mapped(answers, AnswerProofs(d)) \o Mapped(m.content, ProofsOf(d))
  <2> DEFINE h == AnswerProofs(d)
             before == answers
             after == answers'
  <2>1. Mapped(m.content, ProofsOf(d)) = <<>>
    BY SilentProofs
  <2>2. before \in Seq(Answers1) /\ after = before
    BY DEF BodyInv
  <2>3. Makes(h, Answers1, Tokens)
    BY AnswerProofsMake
  <2> HIDE DEF h, before, after
  <2>4. Mapped(before, h) \in Seq(Tokens)
    BY <2>2, <2>3, MappedType
  <2>5. Mapped(after, h) = Mapped(before, h) \o <<>>
    BY <2>2, <2>4
  <2> QED  BY <2>1, <2>5 DEF h, before, after
<1> QED  BY <1>1, ProofsGrow

LEMMA ProofsTold ==
    ASSUME BodyInv, ProofsAreKept, Client' = Client, NEW m \in Messages1, TheMessages' = Append(TheMessages, m),
           NEW a \in Answers1, answers' = Append(answers, a),
           m.role = "Assistant", m.content = ReadBack("Assistant", Kept(a.content))
    PROVE  ProofsAreKept'
<1>1. ASSUME NEW d \in Provers, Returns(d)
      PROVE  Mapped(answers', AnswerProofs(d))
                 = Mapped(answers, AnswerProofs(d)) \o Mapped(m.content, ProofsOf(d))
  <2> DEFINE h == AnswerProofs(d)
             before == answers
             after == answers'
             content == a.content
             by == a.by
  <2>1. before \in Seq(Answers1) /\ after = Append(before, a)
    BY DEF BodyInv
  <2>2. /\ Makes(h, Answers1, Tokens)
        /\ h[a] = IF by # d THEN <<>> ELSE Mapped(content, GivenProofs(d))
    BY AnswerProofsMake
  <2>3. by \in Dialects /\ content \in Seq(BlocksOf(by))
    BY DEF Answers1
  <2>4. Client = "canonical" \/ (Client = "anthropic" /\ d = "anthropic")
    BY <1>1 DEF Returns
  <2>5. m.content = Kept(content)
    BY <2>4 DEF ReadBack
  <2> HIDE DEF h, before, after, content, by
  <2>6. Mapped(Kept(content), ProofsOf(d)) = IF by # d THEN <<>> ELSE Mapped(content, GivenProofs(d))
    BY <2>3, <2>4, KeptProofs
  <2>9. Makes(h, Answers1, Tokens) /\ before \in Seq(Answers1)
    BY <2>1, <2>2
  <2>7. Mapped(before, h) \in Seq(Tokens) /\ Mapped(Append(before, a), h) = Mapped(before, h) \o h[a]
    BY <2>9, MappedAppend
  <2>8. Mapped(after, h) = Mapped(before, h) \o Mapped(m.content, ProofsOf(d))
    BY <2>1, <2>2, <2>5, <2>6, <2>7, Zenon
  <2> QED  BY <2>8 DEF h, before, after
<1>2. m.role = "Assistant"
  OBVIOUS
<1> QED  BY <1>1, <1>2, ProofsGrow

LEMMA BodyGrows ==
    ASSUME BodyInv, Extends, NEW gist, said' = Append(said, gist), UNCHANGED scene, answers' \in Seq(Answers1)
    PROVE  BodyInv'
<1>1. PICK S : said \in Seq(S)
  BY DEF BodyInv
<1> DEFINE T == S \cup {gist}
<1>2. said' \in Seq(T)
  <2>1. said \in Seq(T) /\ gist \in T
    BY <1>1
  <2> HIDE DEF T
  <2> QED  BY <2>1
<1>3. \E U : said' \in Seq(U)
  BY <1>2
<1>4. (scene \in DOMAIN Scenes)'
  BY DEF BodyInv
<1> QED  BY <1>3, <1>4 DEF BodyInv, Extends

LEMMA SpokeLast ==
    ASSUME BodyInv, NEW gist, said' = Append(said, gist)
    PROVE  /\ LastSide' = gist.side
           /\ Pending' = IF gist.side = "assistant" THEN gist.calls ELSE <<>>
<1>1. PICK S : said \in Seq(S)
  BY DEF BodyInv
<1> DEFINE T == S \cup {gist}
<1>2. said \in Seq(T) /\ gist \in T
  BY <1>1
<1> HIDE DEF T
<1>3. said' # <<>> /\ said'[Len(said')] = gist
  BY <1>2
<1>4. LastSide' = gist.side
  BY <1>3 DEF LastSide
<1> QED  BY <1>3, <1>4 DEF Pending

LEMMA ReadBackNumbers ==
    ASSUME NEW S, NEW k \in Seq(S), NEW type
    PROVE  Number(ReadBack("Assistant", k), type) = Number(k, type)
<1>1. CASE Client # "openai"
  BY <1>1 DEF ReadBack
<1>2. CASE Client = "openai"
  <2> DEFINE types == {"ToolUse"}
             a == Without(k, types)
             b == OfType(k, types)
             U == Others(S, types)
             T == Chosen(S, types)
  <2>1. a \in Seq(U) /\ b \in Seq(T)
    BY OfTypeType
  <2>2. U \subseteq S /\ T \subseteq S
    BY DEF Others, Chosen
  <2>3. type \notin types => Number(a, type) = Number(k, type)
    BY NumberWithout
  <2>4. type \in types => Number(b, type) = Number(k, type)
    BY NumberWithout
  <2>5. type \in types => \A c \in U : c.type # type
    BY DEF Others
  <2>6. type \notin types => \A c \in T : c.type # type
    BY DEF Chosen
  <2>7. ReadBack("Assistant", k) = a \o b
    BY <1>2 DEF ReadBack
  <2> HIDE DEF a, b, U, T, types
  <2>8. a \in Seq(S) /\ b \in Seq(S)
    BY <2>1, <2>2
  <2>9. Number(a \o b, type) = Number(a, type) + Number(b, type)
    BY <2>8, NumberConcat
  <2>10. Number(k, type) \in Nat
    BY NumberIn
  <2>11. CASE type \in types
    <3>1. Number(a, type) = 0
      BY <2>1, <2>5, <2>11, NumberNone
    <3>2. Number(a, type) + Number(b, type) = Number(k, type)
      BY <2>4, <2>10, <2>11, <3>1
    <3> QED  BY <2>7, <2>9, <3>2, Zenon
  <2>12. CASE type \notin types
    <3>1. Number(b, type) = 0
      BY <2>1, <2>6, <2>12, NumberNone
    <3>2. Number(a, type) + Number(b, type) = Number(k, type)
      BY <2>3, <2>10, <2>12, <3>1
    <3> QED  BY <2>7, <2>9, <3>2, Zenon
  <2> QED  BY <2>11, <2>12
<1> QED  BY <1>1, <1>2

\* The conversation grows by a turn, and what stands beside the turns stays.
Leading == Decode(Client, body).system
Given == [knobs |-> Decode(Client, body).knobs, extra |-> Decode(Client, body).extra,
          refused |-> NoProjection(Client, body)]
Stays ==
    /\ Leading' = Leading /\ Given' = Given
    /\ body'.tools = body.tools /\ UNCHANGED <<row, scene>>
Grows ==
    /\ \E m \in TurnedMessages : TheMessages' = Append(TheMessages, m)
    /\ Stays

LEMMA DecodedSystem ==
    ASSUME NEW b
    PROVE  /\ Decode("canonical", b).system = b.system
           /\ Decode("anthropic", b).system = b.system
           /\ Decode("openai", b).system = IF b.messages # <<>> /\ Head(b.messages).role = "system"
                                           THEN Head(b.messages).content ELSE <<>>
<1>1. Decode("canonical", b) = b
  BY DEF Decode
<1>2. Decode("anthropic", b) = ShapeTaken(DecodeMessages(b)) /\ Decode("openai", b) = ShapeTaken(DecodeChat(b))
  BY DEF Decode
<1>3. ShapeTaken(DecodeMessages(b)).system = b.system
  BY DEF ShapeTaken, DecodeMessages, Request
<1>4. ShapeTaken(DecodeChat(b)).system = IF b.messages # <<>> /\ Head(b.messages).role = "system"
                                         THEN Head(b.messages).content ELSE <<>>
  BY DEF ShapeTaken, DecodeChat, Request
<1> QED  BY <1>1, <1>2, <1>3, <1>4

\* What is lifted and what is passed through depend on the fields alone.
LEMMA DecodedFields ==
    ASSUME NEW b
    PROVE  /\ Decode("canonical", b) = b
           /\ LET extra == Rest(b.fields, MessagesTaken(b.fields))
              IN  /\ Decode("anthropic", b).knobs = MessagesKnobs(b.fields)
                  /\ Decode("anthropic", b).extra = Rest(extra, Under(extra, "stream_options"))
           /\ LET extra == Rest(b.fields, ChatTaken(b.fields))
              IN  /\ Decode("openai", b).knobs = ChatKnobs(b.fields)
                  /\ Decode("openai", b).extra = Rest(extra, Under(extra, "stream_options"))
<1>1. Decode("canonical", b) = b
  BY DEF Decode
<1>2. LET extra == Rest(b.fields, MessagesTaken(b.fields))
      IN  /\ Decode("anthropic", b).knobs = MessagesKnobs(b.fields)
          /\ Decode("anthropic", b).extra = Rest(extra, Under(extra, "stream_options"))
  <2> DEFINE r == DecodeMessages(b)
             knobs == MessagesKnobs(b.fields)
             extra == Rest(b.fields, MessagesTaken(b.fields))
             left == Rest(extra, Under(extra, "stream_options"))
  <2>1. {"knobs", "extra"} \subseteq DOMAIN r /\ r.knobs = knobs /\ r.extra = extra
    <3> HIDE DEF knobs, extra
    <3>1. r = Request(b.system, Each(MessagesRead, b.messages), knobs, extra, b)
      BY Zenon DEF DecodeMessages, knobs, extra
    <3> HIDE DEF r, left
    <3> QED  BY <3>1 DEF Request
  <2>2. Decode("anthropic", b) = [r EXCEPT !.extra = Rest(@, Under(@, "stream_options"))]
    BY DEF Decode, ShapeTaken
  <2> HIDE DEF r
  <2>3. Decode("anthropic", b) = [r EXCEPT !.extra = left]
    BY <2>1, <2>2
  <2> HIDE DEF knobs, left
  <2>4. Decode("anthropic", b).knobs = knobs /\ Decode("anthropic", b).extra = left
    BY <2>1, <2>3
  <2> QED  BY <2>4 DEF knobs, left
<1>3. LET extra == Rest(b.fields, ChatTaken(b.fields))
      IN  /\ Decode("openai", b).knobs = ChatKnobs(b.fields)
          /\ Decode("openai", b).extra = Rest(extra, Under(extra, "stream_options"))
  <2> DEFINE r == DecodeChat(b)
             leads == b.messages # <<>> /\ Head(b.messages).role = "system"
             knobs == ChatKnobs(b.fields)
             extra == Rest(b.fields, ChatTaken(b.fields))
             left == Rest(extra, Under(extra, "stream_options"))
  <2>1. {"knobs", "extra"} \subseteq DOMAIN r /\ r.knobs = knobs /\ r.extra = extra
    <3> HIDE DEF knobs, extra
    <3>1. r = Request(IF leads THEN Head(b.messages).content ELSE <<>>,
                      ChatFolded(IF leads THEN Tail(b.messages) ELSE b.messages), knobs, extra, b)
      BY Zenon DEF DecodeChat, leads, knobs, extra
    <3> HIDE DEF r, left
    <3> QED  BY <3>1 DEF Request
  <2>2. Decode("openai", b) = [r EXCEPT !.extra = Rest(@, Under(@, "stream_options"))]
    BY DEF Decode, ShapeTaken
  <2> HIDE DEF r
  <2>3. Decode("openai", b) = [r EXCEPT !.extra = left]
    BY <2>1, <2>2
  <2> HIDE DEF knobs, left
  <2>4. Decode("openai", b).knobs = knobs /\ Decode("openai", b).extra = left
    BY <2>1, <2>3
  <2> QED  BY <2>4 DEF knobs, left
<1> QED  BY <1>1, <1>2, <1>3

LEMMA GivenStays ==
    ASSUME BodyInv, NEW role, NEW content, NEW gist, Writes(role, content, gist)
    PROVE  Given' = Given
<1>1. body' = [body EXCEPT !.messages = @ \o Written(role, content)] /\ UNCHANGED scene
  BY DEF Writes
<1>2. Client' = Client /\ Client \in {"canonical", "openai", "anthropic"}
  BY <1>1, ThePlay DEF Client, Play
<1>3. CASE Client = "canonical"
  <2>1. {"knobs", "extra"} \subseteq DOMAIN body
    BY <1>3 DEF BodyInv, FieldsOf
  <2>2. body'.knobs = body.knobs /\ body'.extra = body.extra
    BY <1>1, <2>1
  <2>3. \A b : Decode("canonical", b) = b
    BY DEF Decode
  <2>4. NoProjection(Client', body') = FALSE /\ NoProjection(Client, body) = FALSE
    <3>1. \A b : NoProjection("canonical", b) = FALSE
      BY DEF NoProjection
    <3> QED  BY <1>2, <1>3, <3>1
  <2>5. Decode(Client', body').knobs = Decode(Client, body).knobs
    BY <1>2, <1>3, <2>2, <2>3
  <2>6. Decode(Client', body').extra = Decode(Client, body).extra
    BY <1>2, <1>3, <2>2, <2>3
  <2> QED  BY <2>4, <2>5, <2>6, Zenon DEF Given
<1>4. CASE Client # "canonical"
  <2>1. body'.fields = body.fields /\ body'.tools = body.tools
    BY <1>1, <1>2, <1>4 DEF BodyInv, FieldsOf, Common
  <2>2. Decode(Client', body').knobs = Decode(Client, body).knobs
    BY <1>2, <1>4, <2>1, DecodedFields
  <2>3. Decode(Client', body').extra = Decode(Client, body).extra
    BY <1>2, <1>4, <2>1, DecodedFields
  <2>4. NoProjection(Client', body') = NoProjection(Client, body)
    BY <1>2, <2>1, Zenon DEF NoProjection
  <2> QED  BY <2>2, <2>3, <2>4, Zenon DEF Given
<1> QED  BY <1>3, <1>4

LEMMA LeadingStays ==
    ASSUME BodyInv, NEW role \in {"System", "User", "Assistant", "Tool"}, NEW S, NEW content \in Seq(S),
           NEW gist, Writes(role, content, gist), role = "User" \/ said # <<>>
    PROVE  Stays
<1>1. body' = [body EXCEPT !.messages = @ \o Written(role, content)] /\ UNCHANGED <<scene, row>>
  BY DEF Writes
<1>0. Given' = Given
  BY GivenStays
<1>2. Client' = Client /\ Client \in {"canonical", "openai", "anthropic"}
  BY <1>1, ThePlay DEF Client, Play
<1>3. {"messages", "tools", "system"} \subseteq DOMAIN body
  BY DEF BodyInv, FieldsOf, Common
<1> DEFINE w == Written(role, content)
           m == body.messages
<1>4. body'.tools = body.tools /\ body'.system = body.system /\ body'.messages = m \o w
  BY <1>1, <1>3
<1>8. /\ Client = "canonical" => Leading = body.system /\ Leading' = body'.system
      /\ Client = "anthropic" => Leading = body.system /\ Leading' = body'.system
  BY <1>2, DecodedSystem DEF Leading
<1>5. CASE Client = "canonical"
  BY <1>0, <1>1, <1>4, <1>5, <1>8 DEF Stays
<1>6. CASE Client = "anthropic"
  BY <1>0, <1>1, <1>4, <1>6, <1>8 DEF Stays
<1>7. CASE Client = "openai"
  <2>1. Leading = IF m # <<>> /\ Head(m).role = "system" THEN Head(m).content ELSE <<>>
    BY <1>7, DecodedSystem DEF Leading
  <2>2. Leading' = IF body'.messages # <<>> /\ Head(body'.messages).role = "system"
                   THEN Head(body'.messages).content ELSE <<>>
    BY <1>2, <1>7, DecodedSystem DEF Leading
  <2>3. \E T : w \in Seq(T)
    <3>1. CASE role = "Tool"
      <4>1. w = Each(LAMBDA r : ChatTurn("tool", Told(r).content, <<>>, r.id), content)
        BY <1>7, <3>1, Zenon DEF Written
      <4>2. w = [n \in DOMAIN content |-> ChatTurn("tool", Told(content[n]).content, <<>>, content[n].id)]
        BY <4>1, Zenon DEF Each
      <4> DEFINE T == {ChatTurn("tool", Told(content[n]).content, <<>>, content[n].id) : n \in DOMAIN content}
      <4>3. w \in [DOMAIN content -> T]
        BY <4>2, Zenon
      <4>4. DOMAIN content = 1..Len(content) /\ Len(content) \in Nat
        OBVIOUS
      <4> HIDE DEF T, w
      <4>5. w \in Seq(T)
        BY <4>3, <4>4
      <4> QED  BY <4>5
    <3>2. CASE role # "Tool"
      <4> DEFINE t == ChatTurn(RoleNames[role], Without(content, {"ToolUse"}), OfType(content, {"ToolUse"}), "")
      <4>1. w = <<t>>
        BY <1>7, <3>2, Zenon DEF Written
      <4> HIDE DEF w, t
      <4>2. w \in Seq({t})
        BY <4>1
      <4> QED  BY <4>2
    <3> QED  BY <3>1, <3>2
  <2>4. PICK T : w \in Seq(T)
    BY <2>3
  <2>5. PICK U : m \in Seq(U)
    BY DEF BodyInv
  <2>6. CASE m # <<>>
    <3> DEFINE V == T \cup U
    <3>1. m \in Seq(V) /\ w \in Seq(V)
      BY <2>4, <2>5
    <3> HIDE DEF V, m, w
    <3>2. Head(m \o w) = Head(m) /\ m \o w # <<>>
      BY <2>6, <3>1, HeadOfConcat
    <3>3. body'.messages # <<>> /\ Head(body'.messages) = Head(m)
      BY <1>4, <3>2
    <3>4. Leading' = Leading
      BY <2>1, <2>2, <2>6, <3>3, Zenon
    <3> QED  BY <1>0, <1>1, <1>4, <3>4 DEF Stays
  <2>7. CASE m = <<>>
    <3>1. role = "User"
      BY <2>7 DEF BodyInv
    <3> DEFINE t == ChatTurn(RoleNames[role], Without(content, {"ToolUse"}), OfType(content, {"ToolUse"}), "")
    <3>2. w = <<t>>
      BY <1>7, <3>1, Zenon DEF Written
    <3>3. t.role = "user"
      BY <3>1 DEF ChatTurn, RoleNames
    <3> HIDE DEF t, w
    <3>4. m \o w = <<t>>
      BY <2>7, <3>2
    <3>5. body'.messages = <<t>> /\ Head(<<t>>) = t
      BY <1>4, <3>4
    <3> HIDE DEF m
    <3>6. Leading' = <<>>
      BY <2>2, <3>3, <3>5
    <3>7. Leading = <<>>
      BY <2>1, <2>7
    <3> QED  BY <1>0, <1>1, <1>4, <3>6, <3>7 DEF Stays
  <2> QED  BY <2>6, <2>7
<1> QED  BY <1>2, <1>5, <1>6, <1>7

LEMMA SayKeeps == ASSUME ConversationInv, Say PROVE ConversationInv' /\ Grows
<1>1. BodyInv /\ ResultsAreNext /\ SaysNoMore /\ ProofsAreKept /\ Pending = <<>> /\ UNCHANGED answers
  BY DEF ConversationInv, Say
<1>2. PICK kinds \in Play.says :
         LET content == [n \in DOMAIN kinds |-> Spoken1(kinds[n], n)]
         IN  Writes("User", content, Gist("user", Words(content), <<>>, <<>>))
  BY DEF Say
<1> DEFINE content == [n \in DOMAIN kinds |-> Spoken1(kinds[n], n)]
           gist == Gist("user", Words(content), <<>>, <<>>)
           back == ReadBack("User", content)
           m == Message("User", back)
<1>3. content \in Seq(SaidBlocks)
  <2>1. kinds \in Seq(Parts)
    BY <1>1, ThePlay DEF IsScene
  <2>2. Len(said) \in Nat
    BY <1>1 DEF BodyInv
  <2> QED  BY <2>1, <2>2, SpokenType
<1>4. Writes("User", content, gist)
  BY <1>2
<1>5. gist.side = "user"
  BY DEF Gist
<1> HIDE DEF content, gist
<1>6. content \in Seq(AllBlocks)
  BY <1>3, BlockSets
<1>7. Extends /\ TheMessages' = Append(TheMessages, m)
  BY <1>1, <1>4, <1>6, WordsWritten
<1>8. back \in Seq(SaidBlocks)
  BY <1>3, ReadBackType
<1>9. said' = Append(said, gist) /\ sent' = NotSent /\ UNCHANGED scene
  BY <1>4 DEF Writes
<1>10. LastSide' = "user" /\ Pending' = <<>>
  BY <1>1, <1>5, <1>9, SpokeLast
<1> HIDE DEF back
<1>11. m \in Messages1 /\ m.role \in {"User", "Tool"} /\ m.content = back
  <2>1. back \in Seq(AllBlocks)
    BY <1>8, BlockSets
  <2> QED  BY <2>1 DEF Message, Messages1, Roles
<1>12. ResultsOf(m) = 0 /\ CallsOf(m) = 0
  <2>1. \A c \in SaidBlocks : c.type # "ToolUse" /\ c.type # "ToolResult"
    BY BlockSets DEF Media
  <2>2. Number(back, "ToolUse") = 0
    BY <1>8, <2>1, NumberNone
  <2>3. Number(back, "ToolResult") = 0
    BY <1>8, <2>1, NumberNone
  <2> QED  BY <1>11, <2>2, <2>3 DEF ResultsOf, CallsOf
<1> HIDE DEF m
<1>13. ResultsAreNext'
  <2>1. Len(Pending) = 0 /\ Len(Pending') = 0 /\ m.role # "System"
    BY <1>1, <1>10, <1>11
  <2> QED  BY <1>1, <1>7, <1>11, <1>12, <2>1, ResultsNextGrow
<1>14. SaysNoMore'
  <2>1. ServedSome => ServedSome'
    BY <1>1 DEF ServedSome
  <2>2. m.role # "Assistant"
    BY <1>11
  <2> QED  BY <1>1, <1>7, <1>11, <2>1, <2>2, SaysGrow
<1>15. BodyInv'
  <2>1. answers' \in Seq(Answers1)
    BY <1>1 DEF BodyInv
  <2> QED  BY <1>1, <1>7, <1>9, <2>1, BodyGrows
<1>16. CallsPend'
  BY <1>10 DEF CallsPend
<1>17. SentInv'
  BY <1>9 DEF SentInv, NotSent
<1>18. ProofsAreKept'
  <2>1. m.content \in Seq(SaidBlocks \cup ResultBlocks)
    BY <1>8, <1>11
  <2>2. Client' = Client
    BY <1>7 DEF Extends
  <2> QED  BY <1>1, <1>7, <1>11, <2>1, <2>2, ProofsUntold
<1>19. Grows
  <2>1. Stays
    BY <1>1, <1>4, <1>6, LeadingStays
  <2>2. m \in TurnedMessages
    BY <1>11 DEF TurnedMessages, NotSystem
  <2> QED  BY <1>7, <2>1, <2>2 DEF Grows
<1> QED  BY <1>13, <1>14, <1>15, <1>16, <1>17, <1>18, <1>19 DEF ConversationInv

\* Instructions in the middle of the conversation are not the preamble.
PlainBlocks == {c \in AllBlocks : c # Preamble}
Instructs ==
    /\ \E m \in Messages1 : /\ m.role = "System" /\ m.content \in Seq(PlainBlocks)
                           /\ TheMessages' = Append(TheMessages, m)
    /\ Stays

LEMMA InstructKeeps == ASSUME ConversationInv, Instruct PROVE ConversationInv' /\ Instructs
<1>1. /\ BodyInv /\ ResultsAreNext /\ SaysNoMore /\ ProofsAreKept /\ Pending = <<>> /\ UNCHANGED answers
      /\ Play.instructs /\ LastSide = "assistant"
  BY DEF ConversationInv, Instruct
<1> DEFINE content == <<Text(<<Piece(1)>>)>>
           gist == Gist("system", Words(content), <<>>, <<>>)
           back == ReadBack("System", content)
           m == Message("System", back)
<1>2. content \in Seq(AllBlocks) /\ content \in Seq(SaidBlocks) /\ content \in Seq(PlainBlocks)
  <2>1. Len(said) \in Nat
    BY <1>1 DEF BodyInv
  <2>2. Piece(1) \in Int
    BY <2>1 DEF Piece
  <2>3. Text(<<Piece(1)>>) \in TextBlocks
    BY <2>2 DEF Text, TextBlocks
  <2>4. Text(<<Piece(1)>>) \in AllBlocks /\ Text(<<Piece(1)>>) \in SaidBlocks
    BY <2>3, BlockSets DEF SaidBlocks
  <2>5. 10 * Len(said) + 1 # 99
    BY <2>1
  <2>6. Text(<<Piece(1)>>) # Preamble
    BY <2>5 DEF Text, Preamble, Piece
  <2>7. Text(<<Piece(1)>>) \in PlainBlocks
    BY <2>4, <2>6 DEF PlainBlocks
  <2> QED  BY <2>4, <2>7
<1>3. Writes("System", content, gist)
  BY DEF Instruct
<1>4. gist.side = "system"
  BY DEF Gist
<1> HIDE DEF content, gist
<1>5. body.messages # <<>> /\ Client # "anthropic"
  <2>1. said # <<>>
    BY <1>1 DEF LastSide
  <2>2. Client # "anthropic"
    BY <1>1, ThePlay DEF IsScene, Client
  <2> QED  BY <1>1, <2>1, <2>2 DEF BodyInv
<1>6. Extends /\ TheMessages' = Append(TheMessages, m)
  BY <1>1, <1>2, <1>3, <1>5, WordsWritten
<1>7. back \in Seq(AllBlocks) /\ back \in Seq(SaidBlocks) /\ back \in Seq(PlainBlocks)
  <2>1. back \in Seq(AllBlocks)
    BY <1>2, ReadBackType
  <2>2. back \in Seq(SaidBlocks)
    BY <1>2, ReadBackType
  <2>3. back \in Seq(PlainBlocks)
    BY <1>2, ReadBackType
  <2> QED  BY <2>1, <2>2, <2>3
<1>8. said' = Append(said, gist) /\ sent' = NotSent /\ UNCHANGED scene
  BY <1>3 DEF Writes
<1>9. LastSide' = "system" /\ Pending' = <<>>
  BY <1>1, <1>4, <1>8, SpokeLast
<1> HIDE DEF back
<1>10. m \in Messages1 /\ m.role = "System" /\ m.content = back
  BY <1>7 DEF Message, Messages1, Roles
<1> HIDE DEF m
<1>11. ResultsAreNext'
  <2>1. Len(Pending') = Len(Pending)
    BY <1>1, <1>9
  <2> QED  BY <1>1, <1>6, <1>10, <2>1, ResultsNextGrow
<1>12. SaysNoMore'
  <2>1. ServedSome => ServedSome'
    BY <1>1 DEF ServedSome
  <2>2. m.role # "Assistant"
    BY <1>10
  <2> QED  BY <1>1, <1>6, <1>10, <2>1, <2>2, SaysGrow
<1>13. BodyInv'
  <2>1. answers' \in Seq(Answers1)
    BY <1>1 DEF BodyInv
  <2> QED  BY <1>1, <1>6, <1>8, <2>1, BodyGrows
<1>14. CallsPend'
  BY <1>9 DEF CallsPend
<1>15. SentInv'
  BY <1>8 DEF SentInv, NotSent
<1>16. ProofsAreKept'
  <2>1. m.content \in Seq(SaidBlocks \cup ResultBlocks)
    BY <1>7, <1>10
  <2>2. Client' = Client
    BY <1>6 DEF Extends
  <2> QED  BY <1>1, <1>6, <1>10, <2>1, <2>2, ProofsUntold
<1>17. Instructs
  <2>1. said # <<>>
    BY <1>1 DEF LastSide
  <2>2. Stays
    BY <1>1, <1>2, <1>3, <2>1, LeadingStays
  <2> QED  BY <1>6, <1>7, <1>10, <2>2 DEF Instructs
<1> QED  BY <1>11, <1>12, <1>13, <1>14, <1>15, <1>16, <1>17 DEF ConversationInv

LEMMA AnswerKeeps == ASSUME ConversationInv, Answer PROVE ConversationInv' /\ Grows
<1>1. /\ BodyInv /\ ResultsAreNext /\ SaysNoMore /\ ProofsAreKept /\ SentInv /\ sent.to # "nobody"
      /\ LastSide = "user"
  BY DEF ConversationInv, Answer, Went
<1>2. sent.to \in Dialects
  BY <1>1 DEF SentInv
<1>3. PICK kinds \in Play.shapes[sent.to] :
         LET content == [n \in DOMAIN kinds |-> Answered(sent.to, kinds[n], n)]
             kept == Kept(content)
         IN  /\ Writes("Assistant", kept,
                       Gist("assistant", Words(kept), Names(OfType(kept, {"ToolUse"})), <<>>))
             /\ answers' = Append(answers, [by |-> sent.to, content |-> content])
  BY DEF Answer
<1> DEFINE content == [n \in DOMAIN kinds |-> Answered(sent.to, kinds[n], n)]
           kept == Kept(content)
           called == OfType(kept, {"ToolUse"})
           gist == Gist("assistant", Words(kept), Names(called), <<>>)
           answer == [by |-> sent.to, content |-> content]
           back == ReadBack("Assistant", kept)
           m == Message("Assistant", back)
<1>4. kinds \in Seq(Blocks(sent.to))
  BY <1>1, <1>2, ThePlay DEF IsScene
<1>5. content \in Seq(BlocksOf(sent.to)) /\ content \in Seq(AnswerBlocks)
  <2>1. Len(said) \in Nat
    BY <1>1 DEF BodyInv
  <2>2. ASSUME NEW n \in DOMAIN kinds PROVE Answered(sent.to, kinds[n], n) \in BlocksOf(sent.to)
    <3>1. kinds[n] \in Blocks(sent.to) /\ n \in Int
      BY <1>4
    <3> QED  BY <1>2, <2>1, <3>1, AnsweredType
  <2>3. content \in Seq(BlocksOf(sent.to))
    BY <1>4, <2>2
  <2>4. BlocksOf(sent.to) \subseteq AnswerBlocks
    BY DEF BlocksOf
  <2> HIDE DEF content
  <2> QED  BY <2>3, <2>4
<1>6. Writes("Assistant", kept, gist) /\ answers' = Append(answers, answer)
  BY <1>3
<1>7. gist.side = "assistant" /\ gist.calls = Names(called)
  BY DEF Gist
<1>8. answer \in Answers1 /\ answer.content = content
  BY <1>2, <1>5 DEF Answers1
<1> HIDE DEF content, answer, gist
<1>9. /\ kept \in Seq(KeptBlocks) /\ Number(kept, "ToolUse") = Number(content, "ToolUse")
      /\ Number(kept, "ServerToolUse") \in {0, Number(content, "ServerToolUse")}
  BY <1>1, <1>5, ThePlay, KeptType
<1>10. kept \in Seq(AllBlocks)
  BY <1>9, BlockSets
<1> HIDE DEF kept
<1>11. Extends /\ TheMessages' = Append(TheMessages, m)
  BY <1>1, <1>6, <1>10, WordsWritten
<1>12. back \in Seq(KeptBlocks)
  BY <1>9, ReadBackType
<1>13. Number(back, "ToolUse") = Number(kept, "ToolUse") /\ Number(back, "ServerToolUse") = Number(kept, "ServerToolUse")
  BY <1>9, ReadBackNumbers
<1>14. said' = Append(said, gist) /\ sent' = NotSent /\ UNCHANGED scene
  BY <1>6 DEF Writes
<1>15. called \in Seq(Chosen(KeptBlocks, {"ToolUse"})) /\ Len(called) = Number(kept, "ToolUse")
  BY <1>9, OfTypeType DEF Number
<1>16. LastSide' = "assistant" /\ Pending' = Names(called)
  BY <1>1, <1>7, <1>14, SpokeLast
<1> HIDE DEF back, called
<1>17. Len(Pending') = Number(kept, "ToolUse") /\ \E S : Pending' \in Seq(S)
  <2> DEFINE names == [n \in DOMAIN called |-> called[n].name]
  <2>1. names \in Seq({called[n].name : n \in DOMAIN called}) /\ Len(names) = Len(called)
    BY <1>15
  <2>2. Names(called) = names
    BY Zenon DEF Names, Each
  <2> HIDE DEF names
  <2>3. \E S : names \in Seq(S)
    BY <2>1
  <2> QED  BY <1>15, <1>16, <2>1, <2>2, <2>3
<1>18. m \in Messages1 /\ m.role = "Assistant" /\ m.content = back
  <2>1. back \in Seq(AllBlocks)
    BY <1>12, BlockSets
  <2> QED  BY <2>1 DEF Message, Messages1, Roles
<1>19. ResultsOf(m) = 0 /\ CallsOf(m) = Number(kept, "ToolUse")
  <2>1. \A c \in KeptBlocks : c.type # "ToolResult"
    BY BlockSets
  <2>2. Number(back, "ToolResult") = 0
    BY <1>12, <2>1, NumberNone
  <2> QED  BY <1>13, <1>18, <2>2 DEF ResultsOf, CallsOf
<1> HIDE DEF m
<1>20. ResultsAreNext'
  <2>1. Len(Pending) = 0
    <3>1. Pending = <<>>
      BY <1>1 DEF Pending
    <3> QED  BY <3>1
  <2>2. m.role # "System" /\ ResultsOf(m) = Len(Pending) /\ CallsOf(m) = Len(Pending')
    BY <1>17, <1>18, <1>19, <2>1
  <2> QED  BY <1>1, <1>11, <1>18, <2>2, ResultsNextGrow
<1>21. answers' \in Seq(Answers1) /\ answers' # <<>> /\ answers'[Len(answers')] = answer
       /\ Len(answers') \in DOMAIN answers' /\ \A a \in DOMAIN answers : a \in DOMAIN answers' /\ answers'[a] = answers[a]
  <2>1. answers \in Seq(Answers1)
    BY <1>1 DEF BodyInv
  <2> QED  BY <1>6, <1>8, <2>1
<1>22. SaysNoMore'
  <2>1. ServedSome => ServedSome'
    BY <1>21 DEF ServedSome
  <2>2. Number(m.content, "ServerToolUse") # 0 => ServedSome'
    <3> SUFFICES ASSUME Number(m.content, "ServerToolUse") # 0 PROVE ServedSome'
      OBVIOUS
    <3>1. Number(content, "ServerToolUse") # 0
      BY <1>9, <1>13, <1>18
    <3>2. Number(answers'[Len(answers')].content, "ServerToolUse") # 0
      BY <1>8, <1>21, <3>1
    <3> QED  BY <1>21, <3>2 DEF ServedSome
  <2>3. m.content \in Seq(KeptBlocks)
    BY <1>12, <1>18
  <2> QED  BY <1>1, <1>11, <1>18, <2>1, <2>2, <2>3, SaysGrow
<1>23. BodyInv'
  BY <1>1, <1>11, <1>14, <1>21, BodyGrows
<1>24. CallsPend'
  <2>1. TheMessages \in Seq(Messages1)
    BY <1>1, MessagesAre
  <2> DEFINE before == TheMessages
             after == TheMessages'
  <2>2. before \in Seq(Messages1) /\ after = Append(before, m)
    BY <1>11, <2>1
  <2> HIDE DEF before, after
  <2>3. after # <<>> /\ after[Len(after)].role = "Assistant"
    BY <1>18, <2>2
  <2>4. Len(Pending') = Number(answers'[Len(answers')].content, "ToolUse")
    BY <1>8, <1>9, <1>17, <1>21
  <2> QED  BY <1>17, <1>21, <2>3, <2>4 DEF CallsPend, after
<1>25. SentInv'
  BY <1>14 DEF SentInv, NotSent
<1>26. ProofsAreKept'
  <2>1. m.content = ReadBack("Assistant", Kept(answer.content))
    BY <1>8, <1>18 DEF back, kept
  <2>2. Client' = Client /\ answers' = Append(answers, answer)
    BY <1>6, <1>11 DEF Extends
  <2> QED  BY <1>1, <1>8, <1>11, <1>18, <2>1, <2>2, ProofsTold
<1>27. Grows
  <2>1. said # <<>>
    BY <1>1 DEF LastSide
  <2>2. Stays
    BY <1>1, <1>6, <1>10, <2>1, LeadingStays
  <2>3. m \in TurnedMessages
    BY <1>18 DEF TurnedMessages, NotSystem
  <2> QED  BY <1>11, <2>2, <2>3 DEF Grows
<1> QED  BY <1>20, <1>22, <1>23, <1>24, <1>25, <1>26, <1>27 DEF ConversationInv

LEMMA ResultOfType ==
    ASSUME Len(said) \in Nat, NEW call \in CallBlocks, NEW form \in {"text", "texts", "picture"},
           NEW i \in Int, NEW failed \in BOOLEAN
    PROVE  [ResultOf(call, form, i) EXCEPT !.is_error = failed] \in ResultBlocks
<1>1. Piece(i) \in Int /\ call.id \in Ids
  BY DEF Piece, CallBlocks
<1> DEFINE t == Text(<<Piece(i)>>)
           p == Image([form |-> "base64", data |-> Piece(i)])
           S == TextBlocks \cup MediaBlocks
           content == CASE form = "text" -> <<t>> [] form = "texts" -> <<t, t>> [] form = "picture" -> <<t, p>>
<1>2. t \in S
  BY <1>1 DEF Text, TextBlocks
<1>3. p \in S
  BY <1>1 DEF Image, MediaBlocks, Media
<1>4. ResultOf(call, form, i) = ToolResult(call.id, content, FALSE)
  BY DEF ResultOf
<1> HIDE DEF t, p, S
<1>5. content \in Seq(S)
  <2>1. <<t>> \in Seq(S) /\ <<t, t>> \in Seq(S) /\ <<t, p>> \in Seq(S)
    BY <1>2, <1>3
  <2>2. content \in {<<t>>, <<t, t>>, <<t, p>>}
    OBVIOUS
  <2> HIDE DEF content
  <2> QED  BY <2>1, <2>2
<1> HIDE DEF content
<1>6. [ToolResult(call.id, content, FALSE) EXCEPT !.is_error = failed] = ToolResult(call.id, content, failed)
  BY DEF ToolResult
<1>7. ToolResult(call.id, content, failed) \in ResultBlocks
  BY <1>1, <1>5 DEF ToolResult, ResultBlocks, S
<1> QED  BY <1>4, <1>6, <1>7

LEMMA ReturnKeeps == ASSUME ConversationInv, Return PROVE ConversationInv' /\ Grows
<1>1. BodyInv /\ ResultsAreNext /\ SaysNoMore /\ ProofsAreKept /\ CallsPend /\ Pending # <<>> /\ UNCHANGED answers
  BY DEF ConversationInv, Return
<1>2. LastSide = "assistant"
  BY <1>1 DEF Pending
<1> DEFINE content == answers[Len(answers)].content
           calls == OfType(content, {"ToolUse"})
           n == Len(calls)
<1>3. content \in Seq(AnswerBlocks)
  <2>1. answers \in Seq(Answers1) /\ answers # <<>>
    BY <1>1, <1>2 DEF BodyInv, CallsPend
  <2>2. answers[Len(answers)] \in Answers1
    BY <2>1
  <2> QED  BY <2>2 DEF Answers1
<1>4. calls \in Seq(CallBlocks)
  <2> DEFINE T == Chosen(AnswerBlocks, {"ToolUse"})
  <2>1. calls \in Seq(T)
    BY <1>3, OfTypeType
  <2>2. T \subseteq CallBlocks
    BY BlockTypes, BlockSets DEF Chosen
  <2> HIDE DEF T, calls
  <2> QED  BY <2>1, <2>2
<1>5. n = Len(Pending) /\ n \in Nat /\ n # 0
  <2>1. Len(Pending) = Number(content, "ToolUse") /\ \E S : Pending \in Seq(S)
    BY <1>1, <1>2 DEF CallsPend
  <2>2. Number(content, "ToolUse") = n
    BY DEF Number
  <2>3. Len(Pending) \in Nat /\ Len(Pending) # 0
    BY <1>1, <2>1
  <2> QED  BY <2>1, <2>2, <2>3
<1>6. PICK order \in {o \in [1..n -> 1..n] : \A i, j \in 1..n : o[i] = o[j] => i = j},
           failed \in SUBSET (1..n), form \in Play.results, beside \in Play.beside :
         LET results == [i \in 1..n |->
                            [ResultOf(calls[order[i]], form, i) EXCEPT !.is_error = i \in failed]]
             words == IF beside THEN <<Text(<<Piece(9)>>)>> ELSE <<>>
             meant == [i \in 1..n |-> [of |-> calls[order[i]].name, text |-> Words(results[i].content),
                                       failed |-> results[i].is_error]]
         IN  Writes("Tool", results \o words, Gist("user", Words(words), <<>>, meant))
  BY DEF Return
<1> DEFINE results == [i \in 1..n |->
                          [ResultOf(calls[order[i]], form, i) EXCEPT !.is_error = i \in failed]]
           words == IF beside THEN <<Text(<<Piece(9)>>)>> ELSE <<>>
           meant == [i \in 1..n |-> [of |-> calls[order[i]].name, text |-> Words(results[i].content),
                                     failed |-> results[i].is_error]]
           gist == Gist("user", Words(words), <<>>, meant)
<1>7. Writes("Tool", results \o words, gist) /\ gist.side = "user"
  BY <1>6 DEF Gist
<1>8. Len(said) \in Nat
  BY <1>1 DEF BodyInv
<1>9. results \in Seq(ResultBlocks) /\ Len(results) = n
  <2>1. ASSUME NEW i \in 1..n
        PROVE  [ResultOf(calls[order[i]], form, i) EXCEPT !.is_error = i \in failed] \in ResultBlocks
    <3>1. order[i] \in 1..n
      BY <1>6
    <3> DEFINE call == calls[order[i]]
               bad == i \in failed
    <3>2. call \in CallBlocks
      BY <1>4, <3>1
    <3>3. form \in {"text", "texts", "picture"}
      BY <1>1, <1>6, ThePlay DEF IsScene
    <3>4. i \in Int /\ bad \in BOOLEAN
      OBVIOUS
    <3> HIDE DEF call, bad
    <3>5. [ResultOf(call, form, i) EXCEPT !.is_error = bad] \in ResultBlocks
      BY <1>8, <3>2, <3>3, <3>4, ResultOfType
    <3> QED  BY <3>5 DEF call, bad
  <2> HIDE DEF n, calls
  <2> QED  BY <1>5, <2>1
<1>10. words \in Seq(TextBlocks)
  <2>1. Piece(9) \in Int
    BY <1>8 DEF Piece
  <2>2. Text(<<Piece(9)>>) \in TextBlocks
    BY <2>1 DEF Text, TextBlocks
  <2> QED  BY <2>2
<1>11. Client = "openai" => /\ words = <<>>
                            /\ TheMessages = <<>> \/ TheMessages[Len(TheMessages)].role # "Tool"
  <2> SUFFICES ASSUME Client = "openai"
               PROVE  words = <<>> /\ TheMessages[Len(TheMessages)].role # "Tool"
    OBVIOUS
  <2>1. beside = FALSE
    BY <1>1, <1>6, ThePlay DEF IsScene, Client
  <2>2. TheMessages[Len(TheMessages)].role = "Assistant"
    BY <1>1, <1>2 DEF CallsPend
  <2> QED  BY <2>1, <2>2
<1> HIDE DEF results, words, meant, gist, n, calls
<1>12. results # <<>>
  BY <1>5, <1>9
<1>13. /\ Extends
       /\ \E told \in Seq(ResultBlocks), more \in Seq(TextBlocks) :
              Len(told) = Len(results) /\ TheMessages' = Append(TheMessages, ToolMessage(told \o more))
  BY <1>1, <1>7, <1>9, <1>10, <1>11, <1>12, ResultsWritten
<1>14. PICK told \in Seq(ResultBlocks), more \in Seq(TextBlocks) :
          Len(told) = Len(results) /\ TheMessages' = Append(TheMessages, ToolMessage(told \o more))
  BY <1>13
<1> DEFINE m == ToolMessage(told \o more)
           both == told \o more
<1>15. /\ told \in Seq(AllBlocks) /\ more \in Seq(AllBlocks) /\ both \in Seq(AllBlocks)
  <2>1. told \in Seq(AllBlocks) /\ more \in Seq(AllBlocks)
    BY BlockSets
  <2> QED  BY <2>1
<1>16. m \in Messages1 /\ m.role = "Tool" /\ m.content = both
  BY <1>15 DEF ToolMessage, Messages1, Roles
<1>17. ResultsOf(m) = Len(Pending) /\ CallsOf(m) = 0
  <2>1. /\ \A c \in ResultBlocks : c.type = "ToolResult" /\ c.type # "ToolUse"
        /\ \A c \in TextBlocks : c.type # "ToolResult" /\ c.type # "ToolUse"
    BY DEF ResultBlocks, TextBlocks
  <2>2. Number(told, "ToolResult") = Len(told)
    BY <2>1, NumberAll
  <2>3. Number(told, "ToolUse") = 0
    BY <2>1, NumberNone
  <2>4. Number(more, "ToolResult") = 0
    BY <2>1, NumberNone
  <2>5. Number(more, "ToolUse") = 0
    BY <2>1, NumberNone
  <2>6. Number(told \o more, "ToolResult") = Number(told, "ToolResult") + Number(more, "ToolResult")
    BY <1>15, NumberConcat
  <2>7. Number(told \o more, "ToolUse") = Number(told, "ToolUse") + Number(more, "ToolUse")
    BY <1>15, NumberConcat
  <2>8. Len(told) = n
    BY <1>9, <1>14
  <2> QED  BY <1>5, <1>16, <2>2, <2>3, <2>4, <2>5, <2>6, <2>7, <2>8 DEF ResultsOf, CallsOf
<1>18. TheMessages' = Append(TheMessages, m)
  BY <1>14
<1>19. said' = Append(said, gist) /\ sent' = NotSent /\ UNCHANGED scene
  BY <1>7 DEF Writes
<1>20. LastSide' = "user" /\ Pending' = <<>>
  BY <1>1, <1>7, <1>19, SpokeLast
<1> HIDE DEF m, both
<1>21. ResultsAreNext'
  <2>1. m.role # "System" /\ ResultsOf(m) = Len(Pending) /\ CallsOf(m) = Len(Pending')
    BY <1>16, <1>17, <1>20
  <2> QED  BY <1>1, <1>16, <1>18, <2>1, ResultsNextGrow
<1>22. SaysNoMore'
  <2>1. ServedSome => ServedSome'
    BY <1>1 DEF ServedSome
  <2>2. m.role # "Assistant"
    BY <1>16
  <2> QED  BY <1>1, <1>16, <1>18, <2>1, <2>2, SaysGrow
<1>23. BodyInv'
  <2>1. answers' \in Seq(Answers1)
    BY <1>1 DEF BodyInv
  <2> QED  BY <1>1, <1>13, <1>19, <2>1, BodyGrows
<1>24. CallsPend'
  BY <1>20 DEF CallsPend
<1>25. SentInv'
  BY <1>19 DEF SentInv, NotSent
<1>26. ProofsAreKept'
  <2>1. m.content \in Seq(SaidBlocks \cup ResultBlocks)
    <3> DEFINE S == SaidBlocks \cup ResultBlocks
    <3>1. TextBlocks \subseteq S /\ ResultBlocks \subseteq S
      BY DEF SaidBlocks
    <3> HIDE DEF S
    <3>2. told \in Seq(S) /\ more \in Seq(S)
      BY <3>1
    <3>3. told \o more \in Seq(S)
      BY <3>2
    <3> QED  BY <1>16, <3>3 DEF S, both
  <2>2. Client' = Client
    BY <1>13 DEF Extends
  <2> QED  BY <1>1, <1>16, <1>18, <2>1, <2>2, ProofsUntold
<1>27. Grows
  <2>1. said # <<>>
    BY <1>2 DEF LastSide
  <2> DEFINE all == results \o words
             B == ResultBlocks \cup TextBlocks
  <2>2. all \in Seq(B)
    BY <1>9, <1>10
  <2>3. Writes("Tool", all, gist)
    BY <1>7
  <2> HIDE DEF all, B
  <2>4. Stays
    BY <1>1, <2>1, <2>2, <2>3, LeadingStays
  <2>5. m \in TurnedMessages
    BY <1>16 DEF TurnedMessages, NotSystem
  <2> QED  BY <1>18, <2>4, <2>5 DEF Grows
<1> QED  BY <1>21, <1>22, <1>23, <1>24, <1>25, <1>26, <1>27 DEF ConversationInv

LEMMA Unmoved ==
    ASSUME UNCHANGED <<scene, row, body, said, answers>>
    PROVE  /\ BodyInv' <=> BodyInv
           /\ TheMessages' = TheMessages /\ Pending' = Pending /\ LastSide' = LastSide
           /\ \A d : Asked(d)' = Asked(d)
           /\ ResultsAreNext' <=> ResultsAreNext
           /\ CallsPend' <=> CallsPend
           /\ SaysNoMore' <=> SaysNoMore
           /\ ProofsAreKept' <=> ProofsAreKept
<1>1. Client' = Client
  BY DEF Client, Play
<1>2. TheMessages' = TheMessages
  BY <1>1 DEF TheMessages
<1>3. LastSide' = LastSide
  BY DEF LastSide
<1>4. Pending' = Pending
  BY <1>3 DEF Pending
<1>5. \A d : Asked(d)' = Asked(d)
  BY <1>1, Zenon DEF Asked, Config
<1>6. Turns' = Turns /\ TurnSet' = TurnSet
  BY <1>1 DEF Turns, Leads, TurnSet
<1>7. BodyInv' <=> BodyInv
  BY <1>1, <1>6 DEF BodyInv
<1>8. ResultsAreNext' <=> ResultsAreNext
  <2>1. Turned(TheMessages)' = Turned(TheMessages)
    BY <1>2, Zenon
  <2> QED  BY <1>4, <2>1, Zenon DEF ResultsAreNext, CallsOf, ResultsOf, Number
<1>9. CallsPend' <=> CallsPend
  BY <1>2, <1>3, <1>4, Zenon DEF CallsPend, Number
<1>10. ServedSome' <=> ServedSome
  BY DEF ServedSome
<1>11. SaysNoMore' <=> SaysNoMore
  BY <1>2, <1>10, Zenon DEF SaysNoMore, Says, Number
<1>12. ProofsAreKept' <=> ProofsAreKept
  BY <1>1, <1>2, Zenon DEF ProofsAreKept, Returns
<1> QED  BY <1>2, <1>3, <1>4, <1>5, <1>7, <1>8, <1>9, <1>11, <1>12

LEMMA SendKeeps == ASSUME ConversationInv, NEW d \in Play.to, Send(d) PROVE ConversationInv'
<1>1. UNCHANGED <<scene, row, body, said, answers>> /\ Pending = <<>>
  BY DEF Send
<1>2. BodyInv' /\ ResultsAreNext' /\ CallsPend' /\ SaysNoMore' /\ ProofsAreKept'
  BY <1>1, Unmoved DEF ConversationInv
<1>3. d \in Dialects
  BY ThePlay DEF IsScene, ConversationInv
<1> DEFINE asked == Asked(d)
           refusal == IF NoProjection(Client, body) THEN "ParseInput" ELSE Refusal(d, asked, row.exec)
           wire == IF refusal = "none" THEN Encode(d, asked) ELSE None
<1>4. sent' = [to |-> d, refusal |-> refusal, wire |-> wire]
  BY Zenon DEF Send
<1>5. Asked(d)' = Asked(d) /\ Pending' = <<>> /\ row' = row
  BY <1>1, Unmoved
<1>6. Asked(sent.to)' = Asked(d)'
  <2>1. sent'.to = d
    BY <1>4
  <2> QED  BY <2>1, Zenon DEF Asked, Config
<1> HIDE DEF wire, refusal, asked
<1>7. NoProjection(Client, body)' = NoProjection(Client, body)
  BY <1>1, Zenon DEF Client, Play
<1>8. sent'.to = d /\ sent'.refusal = refusal /\ sent'.wire = wire
  BY <1>4
<1>9. Asked(sent.to)' = asked
  BY <1>5, <1>6, Zenon DEF asked
<1>10. sent'.refusal = IF NoProjection(Client, body)' THEN "ParseInput" ELSE Refusal(sent'.to, asked, row'.exec)
  BY <1>5, <1>7, <1>8, Zenon DEF refusal
<1>11. sent'.wire = IF sent'.refusal = "none" THEN Encode(sent'.to, asked) ELSE None
  BY <1>8, Zenon DEF wire
<1>13. d # "nobody"
  BY <1>3 DEF Dialects
<1>12. SentInv'
  BY <1>13, <1>3, <1>5, <1>8, <1>9, <1>10, <1>11, Zenon DEF SentInv, None, Unmarked
<1> QED  BY <1>2, <1>12 DEF ConversationInv

LEMMA InitHolds == Init => ConversationInv /\ TheMessages = <<>>
<1> SUFFICES ASSUME Init PROVE ConversationInv /\ TheMessages = <<>>
  OBVIOUS
<1>1. IsScene(Play) /\ scene \in DOMAIN Scenes /\ Client \in {"canonical", "openai", "anthropic"}
  BY ScenesAssumption DEF Init, Play, Client, IsScene
<1>2. body \in Play.bodies /\ said = <<>> /\ answers = <<>> /\ sent = NotSent
  BY DEF Init
<1>3. /\ DOMAIN body = FieldsOf(Client)
      /\ \/ body.messages = <<>>
         \/ /\ Client = "openai"
            /\ body.messages = <<ChatTurn("system", Head(body.messages).content, <<>>, "")>>
  BY <1>1, <1>2 DEF IsScene, Client
<1>4. Turns = <<>> /\ \E S : body.messages \in Seq(S)
  <2>1. CASE body.messages = <<>>
    BY <2>1 DEF Turns, Leads
  <2>2. CASE /\ Client = "openai"
             /\ body.messages = <<ChatTurn("system", Head(body.messages).content, <<>>, "")>>
    <3> DEFINE t == ChatTurn("system", Head(body.messages).content, <<>>, "")
    <3>1. body.messages = <<t>> /\ t.role = "system"
      BY <2>2 DEF ChatTurn
    <3> HIDE DEF t
    <3>2. body.messages # <<>> /\ Head(body.messages) = t /\ Tail(body.messages) = <<>>
      BY <3>1
    <3>3. body.messages \in Seq({t})
      BY <3>1
    <3> QED  BY <2>2, <3>1, <3>2, <3>3 DEF Turns, Leads
  <2> QED  BY <1>3, <2>1, <2>2
<1>5. BodyInv
  <2>1. Turns \in Seq(TurnSet) /\ said \in Seq({}) /\ answers \in Seq(Answers1)
    BY <1>2, <1>4
  <2> QED  BY <1>1, <1>2, <1>3, <1>4, <2>1 DEF BodyInv
<1>6. LastSide = "nobody" /\ Pending = <<>>
  BY <1>2 DEF LastSide, Pending
<1>7. TheMessages = <<>>
  <2>1. Each(MessagesRead, <<>>) = <<>>
    BY DEF Each
  <2> QED  BY <1>1, <1>4, <1>5, <2>1, MessagesAre, FoldEmpty
<1>8. Turned(<<>>) = <<>>
  <2>1. Each(LAMBDA x : IF NotSystem(x) THEN <<x>> ELSE <<>>, <<>>) = <<>>
    BY DEF Each
  <2>2. SX!FlattenSeq(<<>>) = <<>>
    BY FlatEmpty DEF Flat
  <2> QED  BY <2>1, <2>2, Zenon DEF Turned, Those, FlatMap
<1>9. ResultsAreNext
  BY <1>7, <1>8 DEF ResultsAreNext
<1>10. CallsPend /\ SaysNoMore
  BY <1>6, <1>7 DEF CallsPend, SaysNoMore
<1>11. SentInv
  BY <1>2 DEF SentInv, NotSent
<1>12. ProofsAreKept
  <2>1. answers = <<>> /\ TheMessages = <<>>
    BY <1>2, <1>7
  <2>2. \A g : Mapped(TheMessages, g) = <<>> /\ Mapped(answers, g) = <<>>
    BY <2>1, MappedEmpty
  <2>3. \A d : TheMessages \in Seq(Quiet(d))
    BY <2>1
  <2> QED  BY <2>2, <2>3 DEF ProofsAreKept
<1> QED  BY <1>5, <1>7, <1>9, <1>10, <1>11, <1>12 DEF ConversationInv

\* The invariant, for any scenes.
THEOREM ConversationHolds == Spec => []ConversationInv
<1>1. Init => ConversationInv
  BY InitHolds
<1>2. ConversationInv /\ [Next]_vars => ConversationInv'
  <2> SUFFICES ASSUME ConversationInv, [Next]_vars PROVE ConversationInv'
    OBVIOUS
  <2>1. CASE Say
    BY <2>1, SayKeeps
  <2>2. CASE Instruct
    BY <2>2, InstructKeeps
  <2>3. CASE \E d \in Play.to : Send(d)
    BY <2>3, SendKeeps
  <2>4. CASE Answer
    BY <2>4, AnswerKeeps
  <2>5. CASE Return
    BY <2>5, ReturnKeeps
  <2>6. CASE UNCHANGED vars
    <3>1. UNCHANGED <<scene, row, body, said, answers>> /\ sent' = sent
      BY <2>6 DEF vars
    <3>2. BodyInv' /\ ResultsAreNext' /\ CallsPend' /\ SaysNoMore' /\ ProofsAreKept' /\ Pending' = Pending /\ row' = row
      BY <3>1, Unmoved DEF ConversationInv
    <3>3. Asked(sent.to)' = Asked(sent.to) /\ NoProjection(Client, body)' = NoProjection(Client, body)
      BY <3>1, Zenon DEF Asked, Config, Client, Play
    <3>4. SentInv'
      BY <3>1, <3>2, <3>3, Zenon DEF SentInv, ConversationInv, None, Unmarked
    <3> QED  BY <3>2, <3>4 DEF ConversationInv
  <2> QED  BY <2>1, <2>2, <2>3, <2>4, <2>5, <2>6 DEF Next
<1> QED  BY <1>1, <1>2, PTL DEF Spec

(***************************************************************************)
(* What is made of the body on its way to an encoder.                      *)
(***************************************************************************)
LEMMA PreparedKeeps ==
    ASSUME NEW req, NEW cfg, {"messages", "tools"} \subseteq DOMAIN req
    PROVE  Prepared(req, cfg).messages = req.messages /\ Prepared(req, cfg).tools = req.tools
<1> DEFINE a == FillAbsent(req, cfg)
           b == LeadWithPreamble(a, cfg)
           c == StripUnsupported(b, cfg)
           d == CoupleBudget(c, cfg)
<1>1. {"messages", "tools"} \subseteq DOMAIN a /\ a.messages = req.messages /\ a.tools = req.tools
  BY DEF FillAbsent
<1> HIDE DEF a
<1>2. {"messages", "tools"} \subseteq DOMAIN b /\ b.messages = a.messages /\ b.tools = a.tools
  BY <1>1 DEF LeadWithPreamble
<1> HIDE DEF b
<1>3. {"messages", "tools"} \subseteq DOMAIN c /\ c.messages = b.messages /\ c.tools = b.tools
  BY <1>2 DEF StripUnsupported
<1> HIDE DEF c
<1>4. d.messages = c.messages /\ d.tools = c.tools
  BY <1>3 DEF CoupleBudget
<1> HIDE DEF d
<1>5. Prepared(req, cfg) = d
  BY Zenon DEF Prepared, PreparedToCount, a, b, c, d
<1> QED  BY <1>1, <1>2, <1>3, <1>4, <1>5

LEMMA AskedIs ==
    ASSUME BodyInv, NEW d
    PROVE  Asked(d).messages = TheMessages /\ Asked(d).tools = body.tools
<1> DEFINE req == Decode(Client, body)
           cfg == Config(d)
<1>1. {"messages", "tools"} \subseteq DOMAIN req /\ req.tools = body.tools
  <2>1. CASE Client = "canonical"
    BY <2>1 DEF Decode, BodyInv, FieldsOf, Common
  <2>2. CASE Client = "anthropic"
    BY <2>2 DEF Decode, ShapeTaken, DecodeMessages, Request
  <2>3. CASE Client = "openai"
    BY <2>3 DEF Decode, ShapeTaken, DecodeChat, Request
  <2> QED  BY <2>1, <2>2, <2>3, ThePlay
<1> HIDE DEF req, cfg
<1>2. Prepared(req, cfg).messages = req.messages /\ Prepared(req, cfg).tools = req.tools
  BY <1>1, PreparedKeeps
<1>3. Asked(d) = Prepared(req, cfg) /\ TheMessages = req.messages
  BY Zenon DEF Asked, req, cfg, TheMessages
<1> QED  BY <1>1, <1>2, <1>3

LEMMA NumberSome ==
    ASSUME NEW S, NEW s \in Seq(S), NEW types, NEW type \in types
    PROVE  /\ \A n \in DOMAIN s : s[n].type = type => Number(s, type) # 0
           /\ Number(s, type) # 0 => OfType(s, types) # <<>>
<1>1. ASSUME NEW n \in DOMAIN s, s[n].type = type PROVE Number(s, type) # 0
  <2>1. s[n].type \in {type}
    BY <1>1
  <2> DEFINE one == {type}
  <2>2. s[n].type \in one
    BY <2>1
  <2> HIDE DEF one
  <2>3. OfType(s, one) # <<>>
    BY <2>2, OfTypeSome
  <2>4. OfType(s, one) \in Seq(Chosen(S, one))
    BY OfTypeType
  <2> QED  BY <2>3, <2>4 DEF Number, one
<1>2. ASSUME Number(s, type) # 0 PROVE OfType(s, types) # <<>>
  <2> DEFINE R == {s[n] : n \in DOMAIN s}
  <2>1. s \in Seq(R)
    OBVIOUS
  <2> HIDE DEF R
  <2>2. \E c \in R : c.type = type
    BY <1>2, <2>1, NumberNone
  <2>3. PICK n \in DOMAIN s : s[n].type \in types
    BY <2>2 DEF R
  <2> QED  BY <2>3, OfTypeSome
<1> QED  BY <1>1, <1>2

(***************************************************************************)
(* A conversation can go on at any provider.                               *)
(***************************************************************************)
\* Whatever providers answered, in whatever order, no encoder refuses it of another:
\* what it does not take is of the client's own saying, or a tool that a provider
\* served itself (slot_err and the Assistant arms of the encoders).
THEOREM SwitchesAnywhere == Spec => []SwitchesFreely
<1>1. ConversationInv => SwitchesFreely
  <2> SUFFICES ASSUME ConversationInv, sent.refusal = "ParseInput", ~NoProjection(Client, body), sent.to # "claude",
                      ~AsksForImage(Asked(sent.to)), ~\E n \in DOMAIN body.tools : IsProvider(body.tools[n]),
                      sent.to \notin {"anthropic", "google"} =>
                          ~\E a \in DOMAIN answers : OfType(answers[a].content, Served) # <<>>,
                      Only(Asked(sent.to).system, {"Text"}),
                      ~LET messages == Asked(sent.to).messages
                       IN  \E m \in DOMAIN messages : messages[m].role # "Assistant" /\
                              \E n \in DOMAIN messages[m].content :
                                 ~Fits(sent.to, messages[m].role, messages[m].content[n])
               PROVE  FALSE
    BY Zenon DEF SwitchesFreely
  <2> DEFINE d == sent.to
             req == Asked(d)
  <2>1. BodyInv /\ SaysNoMore /\ SentInv
    BY DEF ConversationInv
  <2>2. sent.to # "nobody"
    BY <2>1 DEF SentInv
  <2>3. d \in Dialects /\ Refusal(d, req, row.exec) = "ParseInput"
    BY <2>1, <2>2 DEF SentInv
  <2>4. req.messages = TheMessages /\ req.tools = body.tools /\ TheMessages \in Seq(Messages1)
    BY <2>1, AskedIs, MessagesAre
  <2>5. ~AsksForImage(req) /\ Only(req.system, {"Text"}) /\ d # "claude"
    OBVIOUS
  <2>6. ToolsFit(d, req)
    BY <2>4, <2>5 DEF ToolsFit
  <2> HIDE DEF req, d
  <2>13. PICK m \in DOMAIN req.messages :
            \E n \in DOMAIN req.messages[m].content :
               ~Fits(d, req.messages[m].role, req.messages[m].content[n])
    BY <2>3, <2>5, <2>6 DEF Refusal
  <2>7. PICK n \in DOMAIN req.messages[m].content :
           ~Fits(d, req.messages[m].role, req.messages[m].content[n])
    BY <2>13
  <2> DEFINE c == req.messages[m].content[n]
  <2>8. req.messages[m].role = "Assistant"
    BY <2>7 DEF req, d
  <2>9. req.messages[m].content \in Seq(KeptBlocks)
        /\ (Number(req.messages[m].content, "ServerToolUse") # 0 => ServedSome)
    <3>1. Says(TheMessages[m])
      BY <2>1, <2>4, <2>7 DEF SaysNoMore
    <3> QED  BY <2>4, <2>8, <3>1 DEF Says
  <2>10. c \in KeptBlocks
    BY <2>7, <2>9
  <2>11. c.type \in {"Text", "ToolUse", "Thinking", "RedactedThinking"}
         \/ (c.type = "ServerToolUse" /\ d \in {"anthropic", "google"})
    <3> SUFFICES ASSUME c.type = "ServerToolUse", d \notin {"anthropic", "google"} PROVE FALSE
      BY <2>10, BlockSets
    <3>1. Number(req.messages[m].content, "ServerToolUse") # 0
      <4> DEFINE s == req.messages[m].content
                 types == {"ServerToolUse"}
                 type == "ServerToolUse"
      <4>1. s \in Seq(KeptBlocks) /\ n \in DOMAIN s /\ s[n].type = type /\ type \in types
        BY <2>7, <2>9
      <4> HIDE DEF s, types, type
      <4>2. Number(s, type) # 0
        BY <4>1, NumberSome
      <4> QED  BY <4>2 DEF s, type
    <3>2. PICK a \in DOMAIN answers : Number(answers[a].content, "ServerToolUse") # 0
      BY <2>9, <3>1 DEF ServedSome
    <3>3. answers[a].content \in Seq(AnswerBlocks)
      <4>1. answers[a] \in Answers1
        BY <2>1 DEF BodyInv
      <4> QED  BY <4>1 DEF Answers1
    <3>4. OfType(answers[a].content, Served) # <<>>
      <4> DEFINE s == answers[a].content
                 type == "ServerToolUse"
      <4>1. type \in Served /\ s \in Seq(AnswerBlocks) /\ Number(s, type) # 0
        BY <3>2, <3>3 DEF Served
      <4> HIDE DEF s, type
      <4>2. OfType(s, Served) # <<>>
        BY <4>1, NumberSome
      <4> QED  BY <4>2 DEF s
    <3> QED  BY <3>4 DEF d
  <2>12. Fits(d, "Assistant", c)
    <3> HIDE DEF c
    <3>1. d \in {"openai", "anthropic", "google", "ollama", "responses"}
      BY <2>3, <2>5 DEF Dialects
    <3>2. CASE d = "openai"
      BY <2>11, <3>2 DEF Fits, OpenAiTakes, Thoughts
    <3>3. CASE d = "anthropic"
      BY <2>11, <3>3 DEF Fits, AnthropicTakes
    <3>4. CASE d = "google"
      BY <2>11, <3>4 DEF Fits, GenaiTakes, Media
    <3>5. CASE d = "ollama"
      BY <2>11, <3>5 DEF Fits, OllamaTakes, Thoughts
    <3>6. CASE d = "responses"
      BY <2>11, <3>6 DEF Fits, ResponsesTakes, Thoughts
    <3> QED  BY <3>1, <3>2, <3>3, <3>4, <3>5, <3>6
  <2> QED  BY <2>7, <2>8, <2>12
<1> QED  BY <1>1, ConversationHolds, PTL

(***************************************************************************)
(* Results follow their calls.                                             *)
(***************************************************************************)
MessagesBlocks == [c \in AllBlocks |-> MessagesBlock(c)]

LEMMA BlocksAre ==
    ASSUME NEW content \in Seq(AllBlocks)
    PROVE  FlatMap(MessagesBlock, content) = Mapped(content, MessagesBlocks)
<1> DEFINE g == MessagesBlocks
<1>1. \A n \in DOMAIN content : g[content[n]] = MessagesBlock(content[n])
  BY DEF MessagesBlocks
<1>2. [n \in DOMAIN content |-> g[content[n]]] = [n \in DOMAIN content |-> MessagesBlock(content[n])]
  BY <1>1, Zenon
<1> QED  BY <1>2, Zenon DEF FlatMap, Each, Mapped, Flat

LEMMA BlocksKept ==
    ASSUME NEW content \in Seq(AllBlocks), NEW type \in {"ToolUse", "ToolResult"}
    PROVE  /\ Makes(MessagesBlocks, AllBlocks, AllBlocks)
           /\ Number(FlatMap(MessagesBlock, content), type) = Number(content, type)
<1> DEFINE g == MessagesBlocks
<1>1. ASSUME NEW c \in AllBlocks
      PROVE  /\ MessagesBlock(c) \in Seq(AllBlocks)
             /\ Number(MessagesBlock(c), type) = IF c.type = type THEN 1 ELSE 0
  <2>1. CASE c.type = "Thinking" /\ c.signature = "absent"
    <3>1. MessagesBlock(c) = <<>>
      BY <2>1 DEF MessagesBlock
    <3> QED  BY <2>1, <3>1, NumberEmpty
  <2>2. CASE c.type = "Thinking" /\ c.signature # "absent"
    <3> DEFINE x == [c EXCEPT !.encrypted = FALSE]
    <3>1. MessagesBlock(c) = <<x>>
      BY <2>2 DEF MessagesBlock
    <3>2. x \in AllBlocks /\ x.type = "Thinking"
      <4>1. c \in ThinkingBlocks
        BY <2>2, BlockTypes
      <4>2. x \in ThinkingBlocks /\ x.type = "Thinking"
        BY <4>1 DEF ThinkingBlocks
      <4> HIDE DEF x
      <4> QED  BY <4>2 DEF AllBlocks, KeptBlocks
    <3> HIDE DEF x
    <3>3. Number(<<x>>, type) = 0
      BY <3>2, NumberOne
    <3> QED  BY <2>2, <3>1, <3>2, <3>3
  <2>3. CASE c.type = "ToolUse"
    <3> DEFINE x == [c EXCEPT !.signed = FALSE]
    <3>1. MessagesBlock(c) = <<x>>
      BY <2>3 DEF MessagesBlock
    <3>2. x \in AllBlocks /\ x.type = "ToolUse"
      <4>1. c \in CallBlocks
        BY <2>3, BlockTypes
      <4>2. x \in CallBlocks /\ x.type = "ToolUse"
        BY <4>1 DEF CallBlocks
      <4> HIDE DEF x
      <4> QED  BY <4>2 DEF AllBlocks, KeptBlocks
    <3> HIDE DEF x
    <3>3. Number(<<x>>, type) = IF x.type = type THEN 1 ELSE 0
      BY NumberOne
    <3> QED  BY <2>3, <3>1, <3>2, <3>3
  <2>4. CASE c.type \notin {"Thinking", "ToolUse"}
    <3>1. MessagesBlock(c) = <<c>>
      BY <2>4 DEF MessagesBlock
    <3>2. Number(<<c>>, type) = IF c.type = type THEN 1 ELSE 0
      BY NumberOne
    <3> QED  BY <3>1, <3>2
  <2> QED  BY <2>1, <2>2, <2>3, <2>4
<1>2. Makes(g, AllBlocks, AllBlocks) /\ \A c \in AllBlocks : Number(g[c], type) = IF c.type = type THEN 1 ELSE 0
  BY <1>1 DEF Makes, MessagesBlocks
<1> HIDE DEF g
<1>3. FlatMap(MessagesBlock, content) = Mapped(content, g)
  BY BlocksAre DEF g
<1>4. Number(Mapped(content, g), type) = Number(content, type)
  BY <1>2, NumberAlong
<1> QED  BY <1>2, <1>3, <1>4 DEF g

PartsOf(req, content) == FlatMap(LAMBDA c : GenaiPart(req, c), content)

Parts1(req) == [c \in AllBlocks |-> GenaiPart(req, c)]
Told1(req, c) == [type |-> "ToolResult", name |-> ToolName(req.messages, c.id, c.id), text |-> Said(c)]
PartBlocks(req) == AllBlocks \cup {Told1(req, c) : c \in AllBlocks}

LEMMA PartsAre ==
    ASSUME NEW req, NEW content \in Seq(AllBlocks)
    PROVE  PartsOf(req, content) = Mapped(content, Parts1(req))
<1> DEFINE g == Parts1(req)
<1>1. \A n \in DOMAIN content : g[content[n]] = GenaiPart(req, content[n])
  BY DEF Parts1
<1>2. [n \in DOMAIN content |-> g[content[n]]] = [n \in DOMAIN content |-> GenaiPart(req, content[n])]
  BY <1>1, Zenon
<1> HIDE DEF g
<1>3. PartsOf(req, content) = Mapped(content, g)
  BY <1>2, Zenon DEF PartsOf, FlatMap, Each, Mapped, Flat
<1> QED  BY <1>3 DEF g

LEMMA PartsKept ==
    ASSUME NEW req, NEW content \in Seq(AllBlocks), NEW type \in {"ToolUse", "ToolResult"}
    PROVE  /\ Makes(Parts1(req), AllBlocks, PartBlocks(req))
           /\ Number(PartsOf(req, content), type) = Number(content, type)
<1> DEFINE g == Parts1(req)
           T == PartBlocks(req)
<1>0. AllBlocks \subseteq T /\ \A c \in AllBlocks : Told1(req, c) \in T
  BY DEF PartBlocks
<1>1. ASSUME NEW c \in AllBlocks
      PROVE  /\ GenaiPart(req, c) \in Seq(T)
             /\ Number(GenaiPart(req, c), type) = IF c.type = type THEN 1 ELSE 0
  <2>1. CASE c.type \in Thoughts \cup Served
    <3>1. GenaiPart(req, c) = <<>> /\ c.type # type
      BY <2>1 DEF GenaiPart, Thoughts, Served
    <3> QED  BY <3>1, NumberEmpty
  <2>2. CASE c.type = "ToolUse"
    <3> DEFINE x == [c EXCEPT !.id = ""]
    <3>1. GenaiPart(req, c) = <<x>>
      <4>1. c.type = "ToolUse" /\ c.type # "ToolResult" /\ c.type \notin Thoughts \cup Served
        BY <2>2 DEF Thoughts, Served
      <4> QED  BY <4>1, Zenon DEF GenaiPart
    <3>2. x \in T /\ x.type = "ToolUse"
      <4>1. c \in CallBlocks
        BY <2>2, BlockTypes
      <4>2. x \in CallBlocks /\ x.type = "ToolUse"
        BY <4>1, Zenon DEF CallBlocks, Ids
      <4> HIDE DEF x, T
      <4> QED  BY <1>0, <4>2, BlockSets
    <3> HIDE DEF x, T
    <3>3. Number(<<x>>, type) = IF x.type = type THEN 1 ELSE 0
      BY NumberOne
    <3> QED  BY <2>2, <3>1, <3>2, <3>3
  <2>3. CASE c.type = "ToolResult"
    <3> DEFINE x == Told1(req, c)
    <3>1. GenaiPart(req, c) = <<x>>
      <4>1. c.type = "ToolResult" /\ c.type # "ToolUse" /\ c.type \notin Thoughts \cup Served
        BY <2>3 DEF Thoughts, Served
      <4> QED  BY <4>1, Zenon DEF GenaiPart, Told1
    <3>2. x \in T /\ x.type = "ToolResult"
      BY <1>0 DEF Told1
    <3> HIDE DEF x, T
    <3>3. Number(<<x>>, type) = IF x.type = type THEN 1 ELSE 0
      BY NumberOne
    <3> QED  BY <2>3, <3>1, <3>2, <3>3
  <2>4. CASE c.type \notin {"ToolUse", "ToolResult"} \cup Thoughts \cup Served
    <3>1. GenaiPart(req, c) = <<c>>
      <4>1. c.type # "ToolUse" /\ c.type # "ToolResult" /\ c.type \notin Thoughts \cup Served
        BY <2>4
      <4> QED  BY <4>1, Zenon DEF GenaiPart
    <3>2. Number(<<c>>, type) = IF c.type = type THEN 1 ELSE 0
      BY NumberOne
    <3>3. c \in T
      BY <1>0
    <3> HIDE DEF T
    <3> QED  BY <3>1, <3>2, <3>3
  <2> QED  BY <2>1, <2>2, <2>3, <2>4
<1>2. Makes(g, AllBlocks, T) /\ \A c \in AllBlocks : Number(g[c], type) = IF c.type = type THEN 1 ELSE 0
  <2> HIDE DEF T
  <2> QED  BY <1>1 DEF Makes, Parts1
<1> HIDE DEF g, T
<1>3. PartsOf(req, content) = Mapped(content, g)
  BY PartsAre DEF g
<1>4. Number(Mapped(content, g), type) = Number(content, type)
  BY <1>2, NumberAlong
<1> QED  BY <1>2, <1>3, <1>4 DEF g, T

\* What a body says is spelled by the encoder's own walk of the messages.
LEMMA EncodedMessages ==
    ASSUME NEW d, NEW req
    PROVE  Encode(d, req).messages = Messages(d, req)
<1> DEFINE typed == Typed(d, [req EXCEPT !.knobs = @ ++ [stream |-> FALSE]])
           fields == IF d = "claude" THEN typed ELSE FoldExtra(typed, req.extra)
           plain == [system |-> System(d, req), messages |-> Messages(d, req), tools |-> Tools(d, req),
                     choice |-> Choice(d, req), parallel |-> Parallel(d, req), marks |-> Unmarked,
                     fields |-> fields]
<1>1. Encode(d, req) = Marked(d, plain)
  BY Zenon DEF Encode, Spelled
<1>2. plain.messages = Messages(d, req) /\ "messages" \in DOMAIN plain
  OBVIOUS
<1> HIDE DEF plain
<1>3. Marked(d, plain).messages = plain.messages
  BY <1>2 DEF Marked
<1> QED  BY <1>1, <1>2, <1>3

\* The turns of the two providers are those of the messages that are not instructions.
LEMMA WireTurnsAre ==
    ASSUME BodyInv, NEW d \in {"anthropic", "google"}
    PROVE  LET turns == Encode(d, Asked(d)).messages
               those == Turned(TheMessages)
           IN  /\ DOMAIN turns = DOMAIN those /\ those \in Seq(TurnedMessages)
               /\ d = "anthropic" => turns = [n \in DOMAIN those |-> MessagesTurn(those[n])]
               /\ d = "google" => turns = [n \in DOMAIN those |-> GenaiTurn(Asked(d), those[n])]
<1> DEFINE req == Asked(d)
           turns == Encode(d, req).messages
           those == Turned(TheMessages)
<1>1. req.messages = TheMessages /\ TheMessages \in Seq(Messages1)
  BY AskedIs, MessagesAre
<1>2. those \in Seq(TurnedMessages)
  <2> DEFINE messages == TheMessages
             m == [role |-> "User", content |-> <<>>]
  <2>1. messages \in Seq(Messages1) /\ m \in Messages1
    BY <1>1 DEF Messages1, Roles
  <2> HIDE DEF messages, m
  <2>2. Turned(messages) \in Seq(TurnedMessages)
    BY <2>1, TurnedAppend
  <2> QED  BY <2>2 DEF messages
<1>3. Unhoisted(req) = those
  BY <1>1, Zenon DEF Unhoisted, Turned, NotSystem, Those, FlatMap, Each
<1> HIDE DEF req, those
<1>4. Encode(d, req).messages = Messages(d, req)
  BY EncodedMessages
<1>5. d = "anthropic" => turns = [n \in DOMAIN those |-> MessagesTurn(those[n])]
  BY <1>3, <1>4 DEF Messages, Each
<1>6. d = "google" => turns = [n \in DOMAIN those |-> GenaiTurn(req, those[n])]
  BY <1>3, <1>4 DEF Messages, Each
<1> HIDE DEF turns
<1>7. DOMAIN turns = DOMAIN those
  <2>1. CASE d = "anthropic"
    BY <1>5, <2>1
  <2>2. CASE d = "google"
    BY <1>6, <2>2
  <2> QED  BY <2>1, <2>2
<1> QED  BY <1>2, <1>5, <1>6, <1>7 DEF turns, those, req

\* A provider whose results are parts of a user's turn finds them in the turn after
\* the calls, as many as these, from a client of any dialect (tool_result of the chat
\* ingress, Message's Deserialize, messages_value and contents_value).
THEOREM ResultsFollow == Spec => []ResultsFollowTheirCalls
<1>1. ConversationInv => ResultsFollowTheirCalls
  <2> SUFFICES ASSUME ConversationInv, Went, sent.to \in {"anthropic", "google"}
               PROVE  LET turns == sent.wire.messages
                          Of(n, type) == IF n \in DOMAIN turns THEN Number(turns[n].content, type) ELSE 0
                      IN  \A n \in DOMAIN turns : Of(n, "ToolUse") = Of(n + 1, "ToolResult")
    BY Zenon DEF ResultsFollowTheirCalls, Number
  <2> DEFINE d == sent.to
             turns == sent.wire.messages
             those == Turned(TheMessages)
  <2>1. BodyInv /\ ResultsAreNext /\ SentInv /\ d \in {"anthropic", "google"}
    BY DEF ConversationInv
  <2>2. sent.wire = Encode(d, Asked(d)) /\ Pending = <<>>
    BY <2>1 DEF SentInv, Went
  <2>3. /\ DOMAIN turns = DOMAIN those /\ those \in Seq(TurnedMessages)
        /\ d = "anthropic" => turns = [n \in DOMAIN those |-> MessagesTurn(those[n])]
        /\ d = "google" => turns = [n \in DOMAIN those |-> GenaiTurn(Asked(d), those[n])]
    <3> HIDE DEF d
    <3> QED  BY <2>1, <2>2, WireTurnsAre
  <2>4. /\ \A n \in 1..Len(those) : n < Len(those) => CallsOf(those[n]) = ResultsOf(those[n + 1])
        /\ those # <<>> => CallsOf(those[Len(those)]) = 0
    <3>1. Len(Pending) = 0
      BY <2>2
    <3> QED  BY <2>1, <3>1 DEF ResultsAreNext
  <2> HIDE DEF d, turns, those
  <2>5. ASSUME NEW n \in DOMAIN turns
        PROVE  /\ Number(turns[n].content, "ToolUse") = CallsOf(those[n])
               /\ Number(turns[n].content, "ToolResult") = ResultsOf(those[n])
    <3> DEFINE content == those[n].content
    <3>1. content \in Seq(AllBlocks)
      <4>1. those[n] \in TurnedMessages
        BY <2>3
      <4> QED  BY <4>1 DEF TurnedMessages, Messages1
    <3>2. CASE d = "anthropic"
      <4>1. turns[n].content = FlatMap(MessagesBlock, content)
        BY <2>3, <3>2 DEF MessagesTurn
      <4> HIDE DEF content
      <4>2. Number(FlatMap(MessagesBlock, content), "ToolUse") = Number(content, "ToolUse")
        BY <3>1, BlocksKept
      <4>3. Number(FlatMap(MessagesBlock, content), "ToolResult") = Number(content, "ToolResult")
        BY <3>1, BlocksKept
      <4> QED  BY <4>1, <4>2, <4>3 DEF content, CallsOf, ResultsOf
    <3>3. CASE d = "google"
      <4> DEFINE req == Asked(d)
                 told == PartsOf(req, content)
      <4>1. turns[n].content = told
        <5>1. turns[n] = GenaiTurn(req, those[n])
          BY <2>3, <3>3
        <5>2. GenaiTurn(req, those[n]).content = PartsOf(req, those[n].content)
          BY DEF GenaiTurn, PartsOf
        <5> QED  BY <5>1, <5>2
      <4> HIDE DEF content, req
      <4>2. Number(told, "ToolUse") = Number(content, "ToolUse")
        BY <3>1, PartsKept
      <4>3. Number(told, "ToolResult") = Number(content, "ToolResult")
        BY <3>1, PartsKept
      <4> HIDE DEF told
      <4> QED  BY <4>1, <4>2, <4>3 DEF content, CallsOf, ResultsOf
    <3> QED  BY <2>1, <3>2, <3>3
  <2>6. ASSUME NEW n \in DOMAIN turns
        PROVE  Number(turns[n].content, "ToolUse")
                 = IF n + 1 \in DOMAIN turns THEN Number(turns[n + 1].content, "ToolResult") ELSE 0
    <3>1. n \in 1..Len(those) /\ Len(those) \in Nat /\ DOMAIN turns = 1..Len(those)
      BY <2>3
    <3>2. CASE n < Len(those)
      <4>1. n + 1 \in DOMAIN turns
        BY <3>1, <3>2
      <4> QED  BY <2>4, <2>5, <3>1, <3>2, <4>1
    <3>3. CASE n = Len(those)
      <4>1. n + 1 \notin DOMAIN turns /\ those # <<>>
        BY <3>1, <3>3
      <4> QED  BY <2>4, <2>5, <3>1, <3>3, <4>1
    <3> QED  BY <3>1, <3>2, <3>3
  <2> QED  BY <2>6 DEF turns
<1> QED  BY <1>1, ConversationHolds, PTL

(***************************************************************************)
(* What a provider is shown of its own reasoning.                          *)
(***************************************************************************)
\* The messages that are not instructions, chosen from all of them.
LEMMA TurnedPicks ==
    ASSUME NEW messages \in Seq(Messages1)
    PROVE  Turned(messages) = Mapped(messages, Picks(Messages1, TurnedMessages))
<1> DEFINE S == Messages1
           g == Picks(S, TurnedMessages)
<1>1. \A n \in DOMAIN messages : messages[n] \in S
  OBVIOUS
<1>2. \A m \in S : g[m] = IF NotSystem(m) THEN <<m>> ELSE <<>>
  BY DEF Picks, TurnedMessages
<1> HIDE DEF g, S
<1>3. \A n \in DOMAIN messages : g[messages[n]] = IF NotSystem(messages[n]) THEN <<messages[n]>> ELSE <<>>
  BY <1>1, <1>2
<1>4. [n \in DOMAIN messages |-> g[messages[n]]]
          = [n \in DOMAIN messages |-> IF NotSystem(messages[n]) THEN <<messages[n]>> ELSE <<>>]
  BY <1>3, Zenon
<1> QED  BY <1>4, Zenon DEF Turned, Those, FlatMap, Each, Mapped, Flat, g, S

\* Instructions prove nothing, so the messages without them show all that is shown.
LEMMA TurnedProofs ==
    ASSUME NEW d \in Provers, NEW messages \in Seq(Quiet(d))
    PROVE  Mapped(Turned(messages), MessageProofs(d)) = Mapped(messages, MessageProofs(d))
<1> DEFINE S == Messages1
           T == TurnedMessages
           Q == Quiet(d)
           g == Picks(S, T)
           h == MessageProofs(d)
           U == S \cap T
<1>1. messages \in Seq(S)
  <2>1. Q \subseteq S
    BY DEF Quiet
  <2> HIDE DEF S, Q
  <2>2. messages \in Seq(Q)
    BY DEF Q
  <2> QED  BY <2>1, <2>2
<1>2. Turned(messages) = Mapped(messages, g)
  BY <1>1, TurnedPicks
<1>3. Makes(h, S, Tokens) /\ \A m \in S : h[m] = Mapped(m.content, ProofsOf(d))
  BY MessageProofsMake
<1>4. /\ Q \subseteq S /\ U \subseteq S
      /\ \A m \in Q : m \notin T => h[m] = <<>>
  BY <1>3 DEF Quiet, TurnedMessages, NotSystem
<1>5. Makes(g, S, U)
  BY PicksMake
<1>6. \A m \in S : g[m] = IF m \in T THEN <<m>> ELSE <<>>
  BY DEF Picks
<1> HIDE DEF S, T, Q, g, h, U
<1>7. Makes(g, S, S)
  BY <1>4, <1>5, MakesMore
<1>8. ASSUME NEW m \in Q PROVE Mapped(g[m], h) = h[m]
  <2>1. m \in S
    BY <1>4
  <2>2. CASE m \in T
    <3>1. Mapped(<<m>>, h) = h[m]
      BY <1>3, <2>1, MappedOne
    <3> QED  BY <1>6, <2>1, <2>2, <3>1
  <2>3. CASE m \notin T
    <3>1. Mapped(<<>>, h) = <<>>
      BY MappedEmpty
    <3> QED  BY <1>4, <1>6, <2>1, <2>3, <3>1
  <2> QED  BY <2>2, <2>3
<1>9. Makes(Through(S, g, h), S, Tokens) /\ Mapped(Mapped(messages, g), h) = Mapped(messages, Through(S, g, h))
  <2>1. Makes(h, S, Tokens)
    BY <1>3
  <2> QED  BY <1>1, <1>7, <2>1, MappedTwice
<1> DEFINE k == Through(S, g, h)
<1>10. \A m \in Q : k[m] = h[m]
  BY <1>4, <1>8 DEF Through
<1> HIDE DEF k
<1>11. messages \in Seq(Q)
  BY DEF Q
<1>12. Mapped(messages, k) = Mapped(messages, h)
  BY <1>10, <1>11, MappedAlike
<1>13. Mapped(Mapped(messages, g), h) = Mapped(messages, h)
  BY <1>9, <1>12 DEF k
<1> QED  BY <1>2, <1>13 DEF h

\* The proofs in a content of blocks are those of its blocks, in order.
LEMMA MessagesProofs ==
    ASSUME NEW content \in Seq(AllBlocks)
    PROVE  Each(Proof, Those(Proves, FlatMap(MessagesBlock, content))) = Mapped(content, ProofsOf("anthropic"))
<1> DEFINE S == AllBlocks
           Q == Proving("anthropic")
           g == MessagesBlocks
           f == TokenOf("anthropic")
           h == ProofsOf("anthropic")
           told == Mapped(content, g)
           shown == Mapped(told, Picks(S, Q))
           R == S \cap Q
<1>1. FlatMap(MessagesBlock, content) = told
  BY BlocksAre
<1>2. Makes(g, S, S)
  BY BlocksKept
<1>3. told \in Seq(S)
  <2> HIDE DEF g, S
  <2>1. content \in Seq(S)
    BY DEF S
  <2> QED  BY <1>2, <2>1, MappedType
<1>4. /\ Gives(f, R, Tokens) /\ Makes(h, S, Tokens)
      /\ \A c \in S : h[c] = IF Proves(c) THEN <<Proof(c)>> ELSE <<>>
  <2>1. "anthropic" \in Provers
    BY DEF Provers
  <2>2. \A c : IsProof("anthropic", c) = Proves(c) /\ Token("anthropic", c) = Proof(c)
    BY DEF IsProof, Token
  <2> QED  BY <2>1, <2>2, ProofIs
<1>5. /\ \A c \in S : Picks(S, Q)[c] = IF Proves(c) THEN <<c>> ELSE <<>>
      /\ \A c \in R : f[c] = Proof(c)
  BY DEF Picks, Proving, IsProof, TokenOf, Token
<1>6. Makes(Picks(S, Q), S, R)
  BY PicksMake
<1>7. ASSUME NEW c \in S PROVE Mapped(g[c], h) = h[c]
  <2>1. g[c] = MessagesBlock(c)
    BY DEF MessagesBlocks
  <2>2. CASE c.type = "Thinking"
    <3> DEFINE x == [c EXCEPT !.encrypted = FALSE]
    <3>1. CASE c.signature = "absent"
      <4>1. g[c] = <<>> /\ ~Proves(c)
        BY <2>1, <2>2, <3>1 DEF MessagesBlock, Proves
      <4>2. Mapped(<<>>, h) = <<>>
        BY MappedEmpty
      <4> QED  BY <1>4, <4>1, <4>2
    <3>2. CASE c.signature # "absent"
      <4>1. g[c] = <<x>>
        BY <2>1, <2>2, <3>2 DEF MessagesBlock
      <4>2. x \in ThinkingBlocks /\ x.type = c.type /\ x.text = c.text /\ x.signature = c.signature
        <5>1. c \in ThinkingBlocks
          BY <2>2, BlockTypes
        <5> QED  BY <5>1 DEF ThinkingBlocks
      <4> HIDE DEF x
      <4>3. x \in S /\ Proves(x) = Proves(c) /\ Proof(x) = Proof(c)
        BY <4>2 DEF AllBlocks, KeptBlocks, Proves, Proof
      <4> HIDE DEF S, h
      <4>4. Mapped(<<x>>, h) = h[x]
        BY <1>4, <4>3, MappedOne
      <4> QED  BY <1>4, <4>1, <4>3, <4>4
    <3> QED  BY <3>1, <3>2
  <2>3. CASE c.type = "ToolUse"
    <3> DEFINE x == [c EXCEPT !.signed = FALSE]
    <3>1. g[c] = <<x>>
      BY <2>1, <2>3 DEF MessagesBlock
    <3>2. x \in CallBlocks /\ x.type = "ToolUse"
      <4>1. c \in CallBlocks
        BY <2>3, BlockTypes
      <4> QED  BY <4>1 DEF CallBlocks
    <3> HIDE DEF x
    <3>3. x \in S /\ ~Proves(x) /\ ~Proves(c)
      BY <2>3, <3>2, BlockSets DEF Proves
    <3> HIDE DEF S, h
    <3>4. Mapped(<<x>>, h) = h[x]
      BY <1>4, <3>3, MappedOne
    <3> QED  BY <1>4, <3>1, <3>3, <3>4
  <2>4. CASE c.type \notin {"Thinking", "ToolUse"}
    <3>1. g[c] = <<c>>
      BY <2>1, <2>4 DEF MessagesBlock
    <3> HIDE DEF S, h
    <3>2. Mapped(<<c>>, h) = h[c]
      BY <1>4, MappedOne
    <3> QED  BY <3>1, <3>2
  <2> QED  BY <2>2, <2>3, <2>4
<1>8. EachOf(shown, f) = Mapped(told, h)
  <2>1. h = Made1(S, Q, f)
    BY DEF ProofsOf
  <2>2. Gives(f, S \cap Q, Tokens)
    BY <1>4
  <2> HIDE DEF S, Q, f, h, told
  <2>3. EachOf(Mapped(told, Picks(S, Q)), f) = Mapped(told, Made1(S, Q, f))
    BY <1>3, <2>2, PickedEach
  <2> QED  BY <2>1, <2>3
<1>9. Mapped(told, h) = Mapped(content, h)
  <2> HIDE DEF S, g, h
  <2>1. content \in Seq(S)
    BY DEF S
  <2>2. Makes(h, S, Tokens)
    BY <1>4
  <2> QED  BY <1>2, <1>7, <2>1, <2>2, MappedVia
<1>10. Those(Proves, told) = shown
  <2> DEFINE p == Picks(S, Q)
  <2> HIDE DEF told, p, S
  <2>1. \A n \in DOMAIN told : p[told[n]] = IF Proves(told[n]) THEN <<told[n]>> ELSE <<>>
    BY <1>3, <1>5 DEF p
  <2>2. [n \in DOMAIN told |-> p[told[n]]] = [n \in DOMAIN told |-> IF Proves(told[n]) THEN <<told[n]>> ELSE <<>>]
    BY <2>1, Zenon
  <2>3. Those(Proves, told) = Mapped(told, p)
    BY <2>2, Zenon DEF Those, FlatMap, Each, Mapped, Flat
  <2> QED  BY <2>3 DEF p
<1>11. Each(Proof, shown) = EachOf(shown, f)
  <2> DEFINE p == Picks(S, Q)
  <2>1. shown = Mapped(told, p)
    OBVIOUS
  <2> HIDE DEF told, p, S, R, f, shown
  <2>2. shown \in Seq(R)
    <3>1. Makes(p, S, R)
      BY <1>6 DEF p
    <3> QED  BY <1>3, <2>1, <3>1, MappedType
  <2>3. \A n \in DOMAIN shown : f[shown[n]] = Proof(shown[n])
    BY <1>5, <2>2
  <2>4. [n \in DOMAIN shown |-> f[shown[n]]] = [n \in DOMAIN shown |-> Proof(shown[n])]
    BY <2>3, Zenon
  <2> QED  BY <2>4, Zenon DEF Each, EachOf
<1> HIDE DEF told, shown, h, f
<1>12. Each(Proof, Those(Proves, FlatMap(MessagesBlock, content))) = Mapped(content, h)
  BY <1>1, <1>8, <1>9, <1>10, <1>11, Zenon
<1> QED  BY <1>12 DEF h

LEMMA PartsProofs ==
    ASSUME NEW req, NEW content \in Seq(AllBlocks)
    PROVE  Names(Those(LAMBDA c : c.signed, OfType(PartsOf(req, content), {"ToolUse"})))
               = Mapped(content, ProofsOf("google"))
<1> DEFINE S == AllBlocks
           P == PartBlocks(req)
           C == {c \in P : c.type = "ToolUse"}
           G == {c \in P : c.type = "ToolUse" /\ c.signed}
           Q == C \cap G
           g == Parts1(req)
           f == [c \in G |-> c.name]
           h == ProofsOf("google")
           k == Made1(P, Q, f)
           told == Mapped(content, g)
           picks == Picks(P, C)
           again == Picks(P \cap C, G)
           calls == Mapped(told, picks)
           shown == Mapped(calls, again)
           U == (P \cap C) \cap G
<1>1. PartsOf(req, content) = told
  BY PartsAre
<1>2. Makes(g, S, P)
  BY PartsKept
<1>3. told \in Seq(P)
  <2> HIDE DEF g, S, P
  <2>1. content \in Seq(S)
    BY DEF S
  <2> QED  BY <1>2, <2>1, MappedType
<1>4. ASSUME NEW c \in P, c.type = "ToolUse" PROVE c \in CallBlocks
  <2>1. c \in S
    BY <1>4 DEF PartBlocks, Told1
  <2> QED  BY <1>4, <2>1, BlockTypes
<1>5. Gives(f, P \cap Q, Tokens)
  <2>1. \A c \in G : c.name \in Tokens
    BY <1>4 DEF CallBlocks, Tokens
  <2>2. P \cap Q = G
    OBVIOUS
  <2> HIDE DEF P, Q, G
  <2> QED  BY <2>1, <2>2 DEF Gives
<1>6. Makes(k, P, Tokens)
  <2> HIDE DEF P, Q, f
  <2>1. Gives(f, P \cap Q, Tokens)
    BY <1>5
  <2> QED  BY <2>1, MadeMakes
<1>7. \A c \in P : k[c] = IF c.type = "ToolUse" /\ c.signed THEN <<c.name>> ELSE <<>>
  BY DEF Made1
<1>8. \A c \in S : h[c] = IF c.type = "ToolUse" /\ c.signed THEN <<c.name>> ELSE <<>>
  <2>1. "google" \in Provers
    BY DEF Provers
  <2>2. \A c : (IsProof("google", c) <=> c.type = "ToolUse" /\ c.signed) /\ Token("google", c) = c.name
    BY DEF IsProof, Token
  <2> QED  BY <2>1, <2>2, ProofIs
<1>9. ASSUME NEW c \in S PROVE Mapped(g[c], k) = h[c]
  <2>1. g[c] = GenaiPart(req, c)
    BY DEF Parts1
  <2>2. S \subseteq P /\ Told1(req, c) \in P
    BY DEF PartBlocks
  <2>3. CASE c.type \in Thoughts \cup Served
    <3>1. g[c] = <<>> /\ c.type # "ToolUse"
      <4>1. c.type # "ToolUse" /\ c.type # "ToolResult"
        BY <2>3 DEF Thoughts, Served
      <4> QED  BY <2>1, <2>3, <4>1, Zenon DEF GenaiPart
    <3>2. Mapped(<<>>, k) = <<>>
      BY MappedEmpty
    <3> QED  BY <1>8, <3>1, <3>2
  <2>4. CASE c.type = "ToolUse"
    <3> DEFINE x == [c EXCEPT !.id = ""]
    <3>1. g[c] = <<x>>
      <4>1. c.type = "ToolUse" /\ c.type # "ToolResult" /\ c.type \notin Thoughts \cup Served
        BY <2>4 DEF Thoughts, Served
      <4> QED  BY <2>1, <4>1, Zenon DEF GenaiPart
    <3>2. c \in CallBlocks
      BY <2>4, BlockTypes
    <3>3. x \in CallBlocks
      BY <3>2, Zenon DEF CallBlocks, Ids
    <3>4. x.type = c.type /\ x.signed = c.signed /\ x.name = c.name
      <4>1. DOMAIN c = {"type", "id", "name", "signed"}
        BY <3>2 DEF CallBlocks
      <4> QED  BY <4>1, Zenon
    <3> HIDE DEF x
    <3>5. x \in P
      BY <2>2, <3>3, BlockSets
    <3> HIDE DEF P, k, h
    <3>6. Mapped(<<x>>, k) = k[x]
      BY <1>6, <3>5, MappedOne
    <3>7. k[x] = h[c]
      BY <1>7, <1>8, <3>4, <3>5
    <3> QED  BY <3>1, <3>6, <3>7
  <2>5. CASE c.type = "ToolResult"
    <3> DEFINE x == Told1(req, c)
    <3>1. g[c] = <<x>>
      <4>1. c.type = "ToolResult" /\ c.type # "ToolUse" /\ c.type \notin Thoughts \cup Served
        BY <2>5 DEF Thoughts, Served
      <4> QED  BY <2>1, <4>1, Zenon DEF GenaiPart, Told1
    <3>2. x \in P /\ x.type # "ToolUse" /\ c.type # "ToolUse"
      BY <2>2, <2>5 DEF Told1
    <3> HIDE DEF x, P, k, h
    <3>3. Mapped(<<x>>, k) = k[x]
      BY <1>6, <3>2, MappedOne
    <3> QED  BY <1>7, <1>8, <3>1, <3>2, <3>3
  <2>6. CASE c.type \notin {"ToolUse", "ToolResult"} \cup Thoughts \cup Served
    <3>1. g[c] = <<c>>
      <4>1. c.type # "ToolUse" /\ c.type # "ToolResult" /\ c.type \notin Thoughts \cup Served
        BY <2>6
      <4> QED  BY <2>1, <4>1, Zenon DEF GenaiPart
    <3>2. c \in P /\ c.type # "ToolUse"
      BY <2>2, <2>6
    <3> HIDE DEF P, k, h
    <3>3. Mapped(<<c>>, k) = k[c]
      BY <1>6, <3>2, MappedOne
    <3> QED  BY <1>7, <1>8, <3>1, <3>2, <3>3
  <2> QED  BY <2>3, <2>4, <2>5, <2>6
<1>10. Mapped(told, k) = Mapped(content, h)
  <2> HIDE DEF S, P, g, h, k
  <2>1. content \in Seq(S)
    BY DEF S
  <2> QED  BY <1>2, <1>6, <1>9, <2>1, MappedVia
<1>11. /\ \A c \in P : picks[c] = IF c.type = "ToolUse" THEN <<c>> ELSE <<>>
       /\ \A c \in P \cap C : again[c] = IF c.signed THEN <<c>> ELSE <<>>
       /\ \A c \in U : f[c] = c.name
  BY DEF Picks
<1>12. Makes(picks, P, P \cap C) /\ Makes(again, P \cap C, U)
  <2> HIDE DEF P, C, G
  <2>1. Makes(Picks(P, C), P, P \cap C)
    BY PicksMake
  <2>2. Makes(Picks(P \cap C, G), P \cap C, (P \cap C) \cap G)
    BY PicksMake
  <2> QED  BY <2>1, <2>2
<1>13. calls \in Seq(P \cap C) /\ shown \in Seq(U)
  <2> DEFINE D == P \cap C
  <2>1. Makes(picks, P, D) /\ Makes(again, D, U)
    BY <1>12
  <2> HIDE DEF P, D, U, picks, again, told
  <2>2. Mapped(told, picks) \in Seq(D)
    BY <1>3, <2>1, MappedType
  <2>3. Mapped(Mapped(told, picks), again) \in Seq(U)
    BY <2>1, <2>2, MappedType
  <2> QED  BY <2>2, <2>3 DEF D
<1>14. shown = Mapped(told, Picks(P, Q))
  <2> HIDE DEF P, C, G, told
  <2>1. Mapped(Mapped(told, Picks(P, C)), Picks(P \cap C, G)) = Mapped(told, Picks(P, C \cap G))
    BY <1>3, PickedTwice
  <2> QED  BY <2>1
<1>15. EachOf(shown, f) = Mapped(told, k)
  <2> HIDE DEF P, Q, f, told
  <2>1. Gives(f, P \cap Q, Tokens)
    BY <1>5
  <2>2. EachOf(Mapped(told, Picks(P, Q)), f) = Mapped(told, Made1(P, Q, f))
    BY <1>3, <2>1, PickedEach
  <2> QED  BY <1>14, <2>2, Zenon
<1>16. OfType(told, {"ToolUse"}) = calls
  <2> HIDE DEF told, picks, P
  <2>1. \A n \in DOMAIN told : picks[told[n]] = IF told[n].type \in {"ToolUse"} THEN <<told[n]>> ELSE <<>>
    BY <1>3, <1>11
  <2>2. [n \in DOMAIN told |-> picks[told[n]]]
            = [n \in DOMAIN told |-> IF told[n].type \in {"ToolUse"} THEN <<told[n]>> ELSE <<>>]
    BY <2>1, Zenon
  <2> QED  BY <2>2, Zenon DEF OfType, Those, FlatMap, Each, Mapped, Flat
<1>17. Those(LAMBDA c : c.signed, calls) = shown
  <2> DEFINE D == P \cap C
  <2> HIDE DEF P, C, U, again, calls, shown
  <2>1. \A c \in D : again[c] = IF c.signed THEN <<c>> ELSE <<>>
    BY <1>11, Zenon
  <2>2. calls \in Seq(D)
    BY <1>13
  <2> HIDE DEF D
  <2>3. \A n \in DOMAIN calls : again[calls[n]] = IF calls[n].signed THEN <<calls[n]>> ELSE <<>>
    BY <2>1, <2>2
  <2>4. [n \in DOMAIN calls |-> again[calls[n]]]
            = [n \in DOMAIN calls |-> IF calls[n].signed THEN <<calls[n]>> ELSE <<>>]
    BY <2>3, Zenon
  <2> QED  BY <2>4, Zenon DEF Those, FlatMap, Each, Mapped, Flat, shown
<1>18. Names(shown) = EachOf(shown, f)
  <2>1. shown \in Seq(U) /\ \A c \in U : f[c] = c.name
    BY <1>11, <1>13
  <2> HIDE DEF shown, f, U
  <2>2. \A n \in DOMAIN shown : f[shown[n]] = shown[n].name
    BY <2>1
  <2>3. [n \in DOMAIN shown |-> f[shown[n]]] = [n \in DOMAIN shown |-> shown[n].name]
    BY <2>2, Zenon
  <2> QED  BY <2>3, Zenon DEF Names, Each, EachOf
<1> HIDE DEF told, calls, shown, f, h, k
<1>19. Names(Those(LAMBDA c : c.signed, OfType(PartsOf(req, content), {"ToolUse"}))) = Mapped(content, h)
  BY <1>1, <1>10, <1>15, <1>16, <1>17, <1>18, Zenon
<1> QED  BY <1>19 DEF h

\* The items of a message for the third, and what those of reasoning show.
Reasoned1(c) == [item |-> "reasoning", text |-> c.text]
Sealed(content) ==
    Each(LAMBDA c : [item |-> "reasoning", text |-> c.text],
         Those(LAMBDA c : c.encrypted, OfType(content, {"Thinking"})))
Called1(c) == [item |-> "function_call", id |-> c.id, name |-> c.name]
Answered1(r) == [item |-> "function_call_output", id |-> r.id, text |-> Said(r)]
Messaged1(content, role) == [item |-> "message", content |-> content, role |-> role]
ReasonedItems == {Reasoned1(c) : c \in ThinkingBlocks}
OtherItems ==
    {Called1(c) : c \in AllBlocks} \cup {Answered1(r) : r \in AllBlocks}
        \cup {Messaged1(content, role) : content \in Seq(AllBlocks), role \in {"system", "user", "assistant"}}
Items == ReasonedItems \cup OtherItems
ItemProofs == Made1(Items, ReasonedItems, [i \in ReasonedItems |-> i.text])
ItemsOf == [m \in Quiet("responses") |-> ResponsesItems(m)]

LEMMA ItemsAre ==
    /\ Gives([i \in ReasonedItems |-> i.text], Items \cap ReasonedItems, Tokens)
    /\ Makes(ItemProofs, Items, Tokens)
    /\ \A i \in Items : (i \in ReasonedItems) = (i.item = "reasoning")
    /\ \A i \in OtherItems : ItemProofs[i] = <<>>
    /\ \A i \in ReasonedItems : ItemProofs[i] = <<i.text>> /\ i \in Items
<1> DEFINE f == [i \in ReasonedItems |-> i.text]
           R == ReasonedItems
           I == Items
<1>1. \A i \in R : i.text \in Tokens /\ i.item = "reasoning"
  BY DEF ReasonedItems, Reasoned1, ThinkingBlocks, Tokens
<1>2. \A i \in OtherItems : i.item # "reasoning"
  BY DEF OtherItems, Called1, Answered1, Messaged1
<1>3. I = R \cup OtherItems
  BY DEF Items
<1> HIDE DEF R, I
<1>4. \A i \in I : (i \in R) = (i.item = "reasoning")
  BY <1>1, <1>2, <1>3
<1>5. I \cap R = R
  BY <1>3
<1>6. f = [i \in R |-> i.text]
  BY DEF R
<1> HIDE DEF f
<1>7. Gives(f, I \cap R, Tokens)
  BY <1>1, <1>5, <1>6 DEF Gives
<1>8. Makes(Made1(I, R, f), I, Tokens)
  BY <1>7, MadeMakes
<1>9. \A i \in I : Made1(I, R, f)[i] = IF i \in R THEN <<f[i]>> ELSE <<>>
  BY DEF Made1
<1>10. ItemProofs = Made1(I, R, f)
  BY DEF ItemProofs, I, R, f
<1>11. \A i \in OtherItems : i \in I /\ i \notin R
  BY <1>1, <1>2, <1>3
<1>12. \A i \in R : i \in I /\ f[i] = i.text
  BY <1>3, <1>6
<1> QED  BY <1>4, <1>7, <1>8, <1>9, <1>10, <1>11, <1>12 DEF I, R, f

\* Reasoning that is sealed makes an item of its own, and nothing else shows any.
LEMMA ItemsReasoned ==
    ASSUME NEW content \in Seq(AllBlocks)
    PROVE  /\ Sealed(content) \in Seq(ReasonedItems)
           /\ Mapped(Sealed(content), ItemProofs) = Mapped(content, ProofsOf("responses"))
<1> DEFINE S == AllBlocks
           C == {c \in S : c.type = "Thinking"}
           G == Proving("responses")
           Q == C \cap G
           f == [c \in G |-> Reasoned1(c)]
           h == ProofsOf("responses")
           k == ItemProofs
           picks == Picks(S, C)
           again == Picks(S \cap C, G)
           thoughts == Mapped(content, picks)
           sealed == Mapped(thoughts, again)
           U == (S \cap C) \cap G
           made == Made1(S, Q, f)
           items == Mapped(content, made)
<1>1. /\ \A c \in S : picks[c] = IF c.type = "Thinking" THEN <<c>> ELSE <<>>
      /\ \A c \in U : f[c] = Reasoned1(c)
      /\ Q \subseteq G /\ S \cap Q = G
  BY DEF Picks, Proving, IsProof
<1>2. ASSUME NEW c \in S \cap C PROVE again[c] = IF c.encrypted THEN <<c>> ELSE <<>>
  <2>1. c \in AllBlocks /\ c.type = "Thinking"
    OBVIOUS
  <2>2. c \in G <=> c.encrypted
    BY <2>1 DEF Proving, IsProof
  <2> QED  BY <2>2, Zenon DEF Picks
<1>3. ASSUME NEW c \in G PROVE c \in ThinkingBlocks /\ c \in S /\ c.type = "Thinking" /\ Reasoned1(c) \in ReasonedItems
  <2>1. c \in S /\ c.type = "Thinking"
    BY DEF Proving, IsProof
  <2>2. c \in ThinkingBlocks
    BY <2>1, BlockTypes
  <2> QED  BY <2>1, <2>2 DEF ReasonedItems
<1>4. Gives(f, S \cap Q, ReasonedItems)
  <2> HIDE DEF S, Q, G
  <2> QED  BY <1>1, <1>3 DEF Gives
<1>5. Makes(made, S, ReasonedItems)
  <2> HIDE DEF S, Q, f
  <2>1. Gives(f, S \cap Q, ReasonedItems)
    BY <1>4
  <2> QED  BY <2>1, MadeMakes
<1>6. \A c \in S : made[c] = IF c \in G THEN <<Reasoned1(c)>> ELSE <<>>
  BY <1>3 DEF Made1
<1>7. \A c \in S : h[c] = IF c \in G THEN <<c.text>> ELSE <<>>
  <2>1. "responses" \in Provers
    BY DEF Provers
  <2>2. \A c \in S : c \in G <=> IsProof("responses", c)
    BY DEF Proving
  <2>3. \A c : Token("responses", c) = c.text
    BY DEF Token
  <2> QED  BY <2>1, <2>2, <2>3, ProofIs
<1>8. Makes(k, Items, Tokens) /\ \A i \in ReasonedItems : k[i] = <<i.text>> /\ i \in Items
  BY ItemsAre
<1>9. ASSUME NEW c \in S PROVE Mapped(made[c], k) = h[c]
  <2>1. CASE c \in G
    <3> DEFINE x == Reasoned1(c)
    <3>1. x \in ReasonedItems /\ x.text = c.text
      BY <1>3, <2>1 DEF Reasoned1
    <3>2. made[c] = <<x>>
      BY <1>6, <2>1
    <3> HIDE DEF x, made, k, h
    <3>3. k[x] = <<x.text>> /\ x \in Items
      BY <1>8, <3>1
    <3>4. Mapped(<<x>>, k) = k[x]
      BY <1>8, <3>3, MappedOne
    <3> QED  BY <1>7, <2>1, <3>1, <3>2, <3>3, <3>4
  <2>2. CASE c \notin G
    <3>1. Mapped(<<>>, k) = <<>>
      BY MappedEmpty
    <3> QED  BY <1>6, <1>7, <2>2, <3>1
  <2> QED  BY <2>1, <2>2
<1>10. items \in Seq(ReasonedItems) /\ Mapped(items, k) = Mapped(content, h)
  <2> HIDE DEF S, made, k, h
  <2>1. content \in Seq(S)
    BY DEF S
  <2>2. Mapped(content, made) \in Seq(ReasonedItems)
    BY <1>5, <2>1, MappedType
  <2>3. ReasonedItems \subseteq Items
    BY <1>8
  <2>4. Makes(made, S, Items)
    BY <1>5, <2>3, MakesMore
  <2>5. Makes(k, Items, Tokens)
    BY <1>8
  <2>6. Mapped(Mapped(content, made), k) = Mapped(content, h)
    BY <1>9, <2>1, <2>4, <2>5, MappedVia
  <2> QED  BY <2>2, <2>6
<1>11. thoughts \in Seq(S \cap C) /\ sealed \in Seq(U) /\ sealed = Mapped(content, Picks(S, Q))
  <2> DEFINE D == S \cap C
  <2> HIDE DEF S, C, G
  <2>1. content \in Seq(S)
    BY DEF S
  <2>2. Makes(Picks(S, C), S, S \cap C)
    BY PicksMake
  <2>3. Makes(Picks(S \cap C, G), S \cap C, (S \cap C) \cap G)
    BY PicksMake
  <2>4. Mapped(Mapped(content, Picks(S, C)), Picks(S \cap C, G)) = Mapped(content, Picks(S, C \cap G))
    BY <2>1, PickedTwice
  <2>5. Makes(picks, S, D) /\ Makes(again, D, U)
    BY <2>2, <2>3
  <2> HIDE DEF D, U, picks, again
  <2>6. Mapped(content, picks) \in Seq(D)
    BY <2>1, <2>5, MappedType
  <2>7. Mapped(Mapped(content, picks), again) \in Seq(U)
    BY <2>5, <2>6, MappedType
  <2> QED  BY <2>4, <2>6, <2>7 DEF D, picks, again
<1>12. EachOf(sealed, f) = items
  <2> HIDE DEF S, Q, f
  <2>1. content \in Seq(S)
    BY DEF S
  <2>2. Gives(f, S \cap Q, ReasonedItems)
    BY <1>4
  <2>3. EachOf(Mapped(content, Picks(S, Q)), f) = Mapped(content, Made1(S, Q, f))
    BY <2>1, <2>2, PickedEach
  <2> QED  BY <1>11, <2>3, Zenon
<1>13. OfType(content, {"Thinking"}) = thoughts
  <2> HIDE DEF picks, S
  <2>0. content \in Seq(S)
    BY DEF S
  <2>1. \A n \in DOMAIN content : picks[content[n]] = IF content[n].type \in {"Thinking"} THEN <<content[n]>> ELSE <<>>
    BY <1>1, <2>0
  <2>2. [n \in DOMAIN content |-> picks[content[n]]]
            = [n \in DOMAIN content |-> IF content[n].type \in {"Thinking"} THEN <<content[n]>> ELSE <<>>]
    BY <2>1, Zenon
  <2> QED  BY <2>2, Zenon DEF OfType, Those, FlatMap, Each, Mapped, Flat
<1>14. Those(LAMBDA c : c.encrypted, thoughts) = sealed
  <2> DEFINE D == S \cap C
  <2> HIDE DEF S, C, U, again, thoughts, sealed
  <2>1. \A c \in D : again[c] = IF c.encrypted THEN <<c>> ELSE <<>>
    BY <1>2, Zenon
  <2>2. thoughts \in Seq(D)
    BY <1>11
  <2> HIDE DEF D
  <2>3. \A n \in DOMAIN thoughts : again[thoughts[n]] = IF thoughts[n].encrypted THEN <<thoughts[n]>> ELSE <<>>
    BY <2>1, <2>2
  <2>4. [n \in DOMAIN thoughts |-> again[thoughts[n]]]
            = [n \in DOMAIN thoughts |-> IF thoughts[n].encrypted THEN <<thoughts[n]>> ELSE <<>>]
    BY <2>3, Zenon
  <2> QED  BY <2>4, Zenon DEF Those, FlatMap, Each, Mapped, Flat, sealed
<1>15. Each(LAMBDA c : [item |-> "reasoning", text |-> c.text], sealed) = EachOf(sealed, f)
  <2>1. sealed \in Seq(U) /\ \A c \in U : f[c] = Reasoned1(c)
    BY <1>1, <1>11
  <2> HIDE DEF sealed, f, U
  <2>2. \A n \in DOMAIN sealed : f[sealed[n]] = Reasoned1(sealed[n])
    BY <2>1
  <2>3. [n \in DOMAIN sealed |-> f[sealed[n]]] = [n \in DOMAIN sealed |-> Reasoned1(sealed[n])]
    BY <2>2, Zenon
  <2> QED  BY <2>3, Zenon DEF Each, EachOf, Reasoned1
<1> HIDE DEF thoughts, sealed, items, f, h, k
<1>16. Sealed(content) = items
  BY <1>12, <1>13, <1>14, <1>15, Zenon DEF Sealed
<1>17. items \in Seq(ReasonedItems) /\ Mapped(items, ItemProofs) = Mapped(content, ProofsOf("responses"))
  BY <1>10 DEF h, k
<1> QED  BY <1>16, <1>17, Zenon

LEMMA OtherItemsHave ==
    /\ \A c \in AllBlocks : Called1(c) \in OtherItems /\ Answered1(c) \in OtherItems
    /\ \A content \in Seq(AllBlocks), role \in {"system", "user", "assistant"} : Messaged1(content, role) \in OtherItems
<1>1. \A c \in AllBlocks : Called1(c) \in OtherItems /\ Answered1(c) \in OtherItems
  BY DEF OtherItems
<1>2. ASSUME NEW content \in Seq(AllBlocks), NEW role \in {"system", "user", "assistant"}
      PROVE  Messaged1(content, role) \in OtherItems
  BY DEF OtherItems
<1> QED  BY <1>1, <1>2

LEMMA ItemsProofs ==
    ASSUME NEW m \in Quiet("responses")
    PROVE  /\ ResponsesItems(m) \in Seq(Items)
           /\ Mapped(ResponsesItems(m), ItemProofs) = Mapped(m.content, ProofsOf("responses"))
<1> DEFINE k == ItemProofs
           content == m.content
           O == OtherItems
<1>1. /\ m \in Messages1 /\ content \in Seq(AllBlocks)
      /\ m.role # "Assistant" => Mapped(content, ProofsOf("responses")) = <<>>
  BY DEF Quiet, Messages1
<1>2. /\ Makes(k, Items, Tokens) /\ O \subseteq Items /\ ReasonedItems \subseteq Items
      /\ \A i \in O : k[i] = <<>>
  BY ItemsAre DEF Items
<1>3. ASSUME NEW s \in Seq(O) PROVE s \in Seq(Items) /\ Mapped(s, k) = <<>>
  <2> HIDE DEF O, k
  <2>1. Mapped(s, k) = <<>>
    BY <1>2, MappedNothing
  <2> QED  BY <1>2, <2>1
<1>4. CASE m.role = "Tool"
  <2> DEFINE told == [n \in DOMAIN content |-> Answered1(content[n])]
  <2>1. ResponsesItems(m) = told
    BY <1>4, Zenon DEF ResponsesItems, Each, Answered1
  <2>2. \A n \in DOMAIN content : Answered1(content[n]) \in O
    <3>1. \A n \in DOMAIN content : content[n] \in AllBlocks
      BY <1>1
    <3> QED  BY <3>1, OtherItemsHave
  <2>3. DOMAIN content = 1..Len(content) /\ Len(content) \in Nat
    BY <1>1
  <2> HIDE DEF content, O
  <2>4. told \in Seq(O)
    BY <2>2, <2>3
  <2> HIDE DEF told
  <2> QED  BY <1>1, <1>3, <1>4, <2>1, <2>4 DEF content
<1>5. CASE m.role # "Tool"
  <2> DEFINE a == Sealed(content)
             parts == OfType(content, {"Text"} \cup Media)
             role == IF m.role = "System" THEN "system" ELSE Side(m.role)
             x == Messaged1(parts, role)
             b == IF parts = <<>> THEN <<>> ELSE <<x>>
             calls == OfType(content, {"ToolUse"})
             c == [n \in DOMAIN calls |-> Called1(calls[n])]
  <2>1. ResponsesItems(m) = a \o b \o c
    BY <1>5, Zenon DEF ResponsesItems, Sealed, Each, Messaged1, Called1
  <2>2. a \in Seq(ReasonedItems) /\ Mapped(a, k) = Mapped(content, ProofsOf("responses"))
    <3> HIDE DEF content, k
    <3>1. content \in Seq(AllBlocks)
      BY <1>1
    <3> QED  BY <3>1, ItemsReasoned DEF k
  <2>3. b \in Seq(O)
    <3>1. parts \in Seq(AllBlocks)
      <4> DEFINE types == {"Text"} \cup Media
                 B == Chosen(AllBlocks, types)
      <4> HIDE DEF types, content
      <4>1. OfType(content, types) \in Seq(B)
        BY <1>1, OfTypeType
      <4>2. B \subseteq AllBlocks
        BY DEF Chosen
      <4> HIDE DEF B
      <4>3. OfType(content, types) \in Seq(AllBlocks)
        BY <4>1, <4>2
      <4> QED  BY <4>3 DEF types
    <3>2. role \in {"system", "user", "assistant"}
      BY DEF Side
    <3> HIDE DEF parts, role
    <3>3. x \in O
      BY <3>1, <3>2, OtherItemsHave
    <3> HIDE DEF x, O
    <3> QED  BY <3>3
  <2>4. c \in Seq(O)
    <3>1. calls \in Seq(AllBlocks)
      <4> DEFINE types == {"ToolUse"}
                 B == Chosen(AllBlocks, types)
      <4> HIDE DEF types, content
      <4>1. OfType(content, types) \in Seq(B)
        BY <1>1, OfTypeType
      <4>2. B \subseteq AllBlocks
        BY DEF Chosen
      <4> HIDE DEF B
      <4>3. OfType(content, types) \in Seq(AllBlocks)
        BY <4>1, <4>2
      <4> QED  BY <4>3 DEF types
    <3> HIDE DEF calls
    <3>2. \A n \in DOMAIN calls : Called1(calls[n]) \in O
      <4>1. \A n \in DOMAIN calls : calls[n] \in AllBlocks
        BY <3>1
      <4> QED  BY <4>1, OtherItemsHave
    <3>3. DOMAIN calls = 1..Len(calls) /\ Len(calls) \in Nat
      BY <3>1
    <3> HIDE DEF O
    <3> QED  BY <3>2, <3>3
  <2> HIDE DEF a, b, c, O, k
  <2>5. a \in Seq(Items)
    BY <1>2, <2>2
  <2>6. b \in Seq(Items) /\ Mapped(b, k) = <<>>
    BY <1>3, <2>3
  <2>7. c \in Seq(Items) /\ Mapped(c, k) = <<>>
    BY <1>3, <2>4
  <2>8. a \o b \in Seq(Items) /\ a \o b \o c \in Seq(Items)
    BY <2>5, <2>6, <2>7
  <2>9. Makes(k, Items, Tokens)
    BY <1>2
  <2>10. Mapped(a \o b, k) = Mapped(a, k) \o Mapped(b, k)
    <3>1. b \in Seq(Items)
      BY <2>6
    <3> QED  BY <2>5, <2>9, <3>1, MappedConcat
  <2> DEFINE ab == a \o b
  <2> HIDE DEF ab
  <2>11. ab \in Seq(Items)
    BY <2>8 DEF ab
  <2>12. Mapped(ab \o c, k) = Mapped(ab, k) \o Mapped(c, k)
    <3>1. c \in Seq(Items)
      BY <2>7
    <3> QED  BY <2>9, <2>11, <3>1, MappedConcat
  <2>13. Mapped(a, k) \in Seq(Tokens)
    BY <2>5, <2>9, MappedType
  <2>14. Mapped(a, k) \o <<>> = Mapped(a, k)
    BY <2>13
  <2>15. Mapped(ab \o c, k) = Mapped(a, k)
    BY <2>6, <2>7, <2>10, <2>12, <2>14, Zenon DEF ab
  <2>16. ResponsesItems(m) = ab \o c /\ ab \o c \in Seq(Items)
    BY <2>1, <2>8 DEF ab
  <2> QED  BY <2>2, <2>15, <2>16, Zenon DEF k, content
<1> QED  BY <1>4, <1>5

LEMMA ItemsShow ==
    ASSUME NEW messages \in Seq(Quiet("responses"))
    PROVE  Each(LAMBDA t : t.text, Those(LAMBDA t : t.item = "reasoning", FlatMap(ResponsesItems, messages)))
               = Mapped(messages, MessageProofs("responses"))
<1> DEFINE S == Quiet("responses")
           g == ItemsOf
           h == MessageProofs("responses")
           k == ItemProofs
           items == Mapped(messages, g)
           picks == Picks(Items, ReasonedItems)
           f == [i \in ReasonedItems |-> i.text]
           R == Items \cap ReasonedItems
           shown == Mapped(items, picks)
<1>1. FlatMap(ResponsesItems, messages) = items
  <2> HIDE DEF S
  <2>0. messages \in Seq(S)
    BY DEF S
  <2>1. \A n \in DOMAIN messages : messages[n] \in S
    BY <2>0
  <2>2. \A m \in S : g[m] = ResponsesItems(m)
    BY DEF ItemsOf, S
  <2> HIDE DEF g
  <2>3. [n \in DOMAIN messages |-> g[messages[n]]] = [n \in DOMAIN messages |-> ResponsesItems(messages[n])]
    BY <2>1, <2>2, Zenon
  <2> QED  BY <2>3, Zenon DEF FlatMap, Each, Mapped, Flat
<1>2. /\ Gives(f, R, Tokens) /\ Makes(k, Items, Tokens)
      /\ \A i \in Items : (i \in ReasonedItems) = (i.item = "reasoning")
  BY ItemsAre
<1>3. Makes(g, S, Items)
  <2>1. \A m \in S : ResponsesItems(m) \in Seq(Items)
    BY ItemsProofs
  <2> HIDE DEF S
  <2> QED  BY <2>1 DEF ItemsOf, Makes, S
<1>4. \A m \in S : Mapped(g[m], k) = h[m]
  <2>1. "responses" \in Provers
    BY DEF Provers
  <2>2. \A m \in Messages1 : h[m] = Mapped(m.content, ProofsOf("responses"))
    BY <2>1, MessageProofsMake
  <2>3. \A m \in S : m \in Messages1 /\ g[m] = ResponsesItems(m)
    BY DEF Quiet, ItemsOf
  <2> HIDE DEF g, h
  <2> QED  BY <2>2, <2>3, ItemsProofs
<1>5. Mapped(items, k) = Mapped(messages, h)
  <2> HIDE DEF S, g, h, k
  <2>1. messages \in Seq(S) /\ Makes(k, Items, Tokens)
    BY <1>2 DEF S
  <2> QED  BY <1>3, <1>4, <2>1, MappedVia
<1>6. items \in Seq(Items)
  <2> HIDE DEF S, g
  <2>1. messages \in Seq(S)
    BY DEF S
  <2> QED  BY <1>3, <2>1, MappedType
<1>7. shown \in Seq(R)
  <2>1. Makes(picks, Items, R)
    BY PicksMake
  <2> HIDE DEF items, picks, R
  <2> QED  BY <1>6, <2>1, MappedType
<1>8. EachOf(shown, f) = Mapped(items, k)
  <2>1. k = Made1(Items, ReasonedItems, f)
    BY DEF ItemProofs
  <2> HIDE DEF items, f, k
  <2>2. Gives(f, Items \cap ReasonedItems, Tokens)
    BY <1>2
  <2>3. EachOf(Mapped(items, Picks(Items, ReasonedItems)), f) = Mapped(items, Made1(Items, ReasonedItems, f))
    BY <1>6, <2>2, PickedEach
  <2> QED  BY <2>1, <2>3
<1>9. Those(LAMBDA t : t.item = "reasoning", items) = shown
  <2>1. \A i \in Items : picks[i] = IF i.item = "reasoning" THEN <<i>> ELSE <<>>
    BY <1>2 DEF Picks
  <2> HIDE DEF items, picks
  <2>2. \A n \in DOMAIN items : picks[items[n]] = IF items[n].item = "reasoning" THEN <<items[n]>> ELSE <<>>
    BY <1>6, <2>1
  <2>3. [n \in DOMAIN items |-> picks[items[n]]]
            = [n \in DOMAIN items |-> IF items[n].item = "reasoning" THEN <<items[n]>> ELSE <<>>]
    BY <2>2, Zenon
  <2> QED  BY <2>3, Zenon DEF Those, FlatMap, Each, Mapped, Flat
<1>10. Each(LAMBDA t : t.text, shown) = EachOf(shown, f)
  <2>1. \A i \in R : f[i] = i.text
    OBVIOUS
  <2> HIDE DEF shown, f, R
  <2>2. \A n \in DOMAIN shown : f[shown[n]] = shown[n].text
    BY <1>7, <2>1
  <2>3. [n \in DOMAIN shown |-> f[shown[n]]] = [n \in DOMAIN shown |-> shown[n].text]
    BY <2>2, Zenon
  <2> QED  BY <2>3, Zenon DEF Each, EachOf
<1> HIDE DEF items, shown, f, h, k
<1>11. Each(LAMBDA t : t.text, Those(LAMBDA t : t.item = "reasoning", FlatMap(ResponsesItems, messages)))
           = Mapped(messages, h)
  BY <1>1, <1>5, <1>8, <1>9, <1>10, Zenon
<1> QED  BY <1>11 DEF h

\* What an answer gave is what its blocks give.
LEMMA AnswerGave ==
    ASSUME NEW d \in Provers, NEW content \in Seq(AnswerBlocks)
    PROVE  /\ d = "google" => Names(OfType(content, {"ToolUse"})) = Mapped(content, GivenProofs(d))
           /\ d # "google" => Each(Proof, OfType(content, Thoughts)) = Mapped(content, GivenProofs(d))
<1> DEFINE S == AnswerBlocks
           Q == Giving(d)
           f == GivenTokenOf(d)
           picks == Picks(S, Q)
           given == Mapped(content, picks)
           types == IF d = "google" THEN {"ToolUse"} ELSE Thoughts
           R == S \cap Q
<1>1. \A c \in S : picks[c] = IF c.type \in types THEN <<c>> ELSE <<>>
  BY DEF Picks, Giving, IsGiven
<1>2. \A c \in R : f[c] = GivenToken(d, c)
  BY DEF GivenTokenOf
<1>3. Gives(f, S \cap Q, Tokens)
  BY GivenIs
<1>4. given \in Seq(R)
  <2>1. Makes(picks, S, R)
    BY PicksMake
  <2> HIDE DEF S, picks, R
  <2>2. content \in Seq(S)
    BY DEF S
  <2> QED  BY <2>1, <2>2, MappedType
<1>5. OfType(content, types) = given
  <2> HIDE DEF S, picks, types
  <2>1. content \in Seq(S)
    BY DEF S
  <2>2. \A n \in DOMAIN content : picks[content[n]] = IF content[n].type \in types THEN <<content[n]>> ELSE <<>>
    BY <1>1, <2>1
  <2>3. [n \in DOMAIN content |-> picks[content[n]]]
            = [n \in DOMAIN content |-> IF content[n].type \in types THEN <<content[n]>> ELSE <<>>]
    BY <2>2, Zenon
  <2> QED  BY <2>3, Zenon DEF OfType, Those, FlatMap, Each, Mapped, Flat
<1>6. EachOf(given, f) = Mapped(content, GivenProofs(d))
  <2>1. GivenProofs(d) = Made1(S, Q, f)
    BY DEF GivenProofs
  <2> HIDE DEF S, Q, f
  <2>2. content \in Seq(S)
    BY DEF S
  <2>3. EachOf(Mapped(content, Picks(S, Q)), f) = Mapped(content, Made1(S, Q, f))
    BY <1>3, <2>2, PickedEach
  <2> QED  BY <2>1, <2>3
<1>7. [n \in DOMAIN given |-> f[given[n]]] = [n \in DOMAIN given |-> GivenToken(d, given[n])]
  <2> HIDE DEF given, f, R
  <2>1. \A n \in DOMAIN given : f[given[n]] = GivenToken(d, given[n])
    BY <1>2, <1>4
  <2> QED  BY <2>1, Zenon
<1> HIDE DEF given, f, types
<1>8. CASE d = "google"
  <2>1. types = {"ToolUse"}
    BY <1>8 DEF types
  <2>2. \A c : GivenToken(d, c) = c.name
    BY <1>8 DEF GivenToken
  <2>3. Names(given) = EachOf(given, f)
    BY <1>7, <2>2, Zenon DEF Names, Each, EachOf
  <2> QED  BY <1>5, <1>6, <1>8, <2>1, <2>3, Zenon
<1>9. CASE d # "google"
  <2>1. types = Thoughts
    BY <1>9 DEF types
  <2>2. \A c : GivenToken(d, c) = Proof(c)
    BY <1>9 DEF GivenToken
  <2>3. Each(Proof, given) = EachOf(given, f)
    BY <1>7, <2>2, Zenon DEF Each, EachOf
  <2> QED  BY <1>5, <1>6, <1>9, <2>1, <2>3, Zenon
<1> QED  BY <1>8, <1>9

LEMMA GaveIs ==
    ASSUME BodyInv, NEW d \in Provers
    PROVE  Gave(d) = Mapped(answers, AnswerProofs(d))
<1> DEFINE h == AnswerProofs(d)
           all == answers
           Proofs(a) == CASE a.by = d /\ d = "google" -> Names(OfType(a.content, {"ToolUse"}))
                          [] a.by = d /\ d # "google" -> Each(Proof, OfType(a.content, Thoughts))
                          [] OTHER -> <<>>
<1>1. all \in Seq(Answers1)
  BY DEF BodyInv
<1>2. ASSUME NEW a \in Answers1 PROVE h[a] = Proofs(a)
  <2>1. h[a] = IF a.by # d THEN <<>> ELSE Mapped(a.content, GivenProofs(d))
    BY AnswerProofsMake
  <2>2. a.content \in Seq(AnswerBlocks)
    BY DEF Answers1
  <2> DEFINE content == a.content
  <2>3. CASE a.by # d
    BY <2>1, <2>3
  <2>4. CASE a.by = d /\ d = "google"
    <3>1. Names(OfType(content, {"ToolUse"})) = Mapped(content, GivenProofs(d))
      <4> HIDE DEF content
      <4>1. content \in Seq(AnswerBlocks)
        BY <2>2 DEF content
      <4> QED  BY <2>4, <4>1, AnswerGave
    <3> QED  BY <2>1, <2>4, <3>1
  <2>5. CASE a.by = d /\ d # "google"
    <3>1. Each(Proof, OfType(content, Thoughts)) = Mapped(content, GivenProofs(d))
      <4> HIDE DEF content
      <4>1. content \in Seq(AnswerBlocks)
        BY <2>2 DEF content
      <4> QED  BY <2>5, <4>1, AnswerGave
    <3> QED  BY <2>1, <2>5, <3>1
  <2> QED  BY <2>3, <2>4, <2>5
<1> HIDE DEF h, all
<1>3. \A n \in DOMAIN all : h[all[n]] = Proofs(all[n])
  <2> HIDE DEF Proofs
  <2> QED  BY <1>1, <1>2
<1>4. [n \in DOMAIN all |-> h[all[n]]] = [n \in DOMAIN all |-> Proofs(all[n])]
  <2> HIDE DEF Proofs
  <2> QED  BY <1>3, Zenon
<1> QED  BY <1>4, Zenon DEF Gave, FlatMap, Each, Mapped, Flat, h, all

\* What a provider is shown is what the messages show it.
LEMMA WireShows ==
    ASSUME BodyInv, NEW d \in Provers, TheMessages \in Seq(Quiet(d))
    PROVE  Shown(d, Encode(d, Asked(d))) = Mapped(TheMessages, MessageProofs(d))
<1> DEFINE req == Asked(d)
           messages == TheMessages
           those == Turned(messages)
           wire == Encode(d, req)
           turns == wire.messages
           h == MessageProofs(d)
<1>1. messages \in Seq(Quiet(d)) /\ req.messages = messages
  BY AskedIs
<1>2. \A m \in Messages1 : h[m] = Mapped(m.content, ProofsOf(d))
  BY MessageProofsMake
<1>3. d \in {"anthropic", "google"} =>
          /\ DOMAIN turns = DOMAIN those /\ those \in Seq(TurnedMessages)
          /\ d = "anthropic" => turns = [n \in DOMAIN those |-> MessagesTurn(those[n])]
          /\ d = "google" => turns = [n \in DOMAIN those |-> GenaiTurn(req, those[n])]
  BY WireTurnsAre
<1>4. d \in {"anthropic", "google"} => Mapped(those, h) = Mapped(messages, h)
  <2> HIDE DEF messages
  <2> QED  BY <1>1, TurnedProofs
<1>5. turns = Messages(d, req)
  <2> HIDE DEF req
  <2> QED  BY EncodedMessages
<1> HIDE DEF req, those, turns, messages, h, wire
<1>6. ASSUME d \in {"anthropic", "google"}, NEW n \in DOMAIN those
      PROVE  those[n].content \in Seq(AllBlocks) /\ h[those[n]] = Mapped(those[n].content, ProofsOf(d))
  <2>1. those[n] \in TurnedMessages
    BY <1>3, <1>6
  <2>2. those[n] \in Messages1
    BY <2>1 DEF TurnedMessages
  <2> QED  BY <1>2, <2>2 DEF Messages1
<1>7. CASE d = "anthropic"
  <2>1. ASSUME NEW n \in DOMAIN those PROVE Each(Proof, Those(Proves, turns[n].content)) = h[those[n]]
    <3> DEFINE content == those[n].content
    <3>1. content \in Seq(AllBlocks) /\ h[those[n]] = Mapped(content, ProofsOf(d))
      BY <1>6, <1>7
    <3>2. turns[n].content = FlatMap(MessagesBlock, content)
      <4>1. turns[n] = MessagesTurn(those[n])
        BY <1>3, <1>7
      <4>2. MessagesTurn(those[n]).content = FlatMap(MessagesBlock, those[n].content)
        BY DEF MessagesTurn
      <4> QED  BY <4>1, <4>2 DEF content
    <3> HIDE DEF content
    <3>3. Each(Proof, Those(Proves, FlatMap(MessagesBlock, content))) = Mapped(content, ProofsOf("anthropic"))
      BY <3>1, MessagesProofs
    <3> QED  BY <1>7, <3>1, <3>2, <3>3, Zenon
  <2>2. [n \in DOMAIN turns |-> Each(Proof, Those(Proves, turns[n].content))] = [n \in DOMAIN those |-> h[those[n]]]
    BY <1>3, <1>7, <2>1, Zenon
  <2>3. FlatMap(LAMBDA t : Each(Proof, Those(Proves, t.content)), turns)
            = Flat([n \in DOMAIN turns |-> Each(Proof, Those(Proves, turns[n].content))])
    BY Zenon DEF FlatMap, Each, Flat
  <2>4. Shown(d, wire) = FlatMap(LAMBDA t : Each(Proof, Those(Proves, t.content)), turns)
    BY <1>7, Zenon DEF Shown, turns
  <2>5. Shown(d, wire) = Mapped(messages, h)
    BY <1>4, <1>7, <2>2, <2>3, <2>4, Zenon DEF Mapped
  <2> QED  BY <2>5 DEF wire, req, messages, h
<1>8. CASE d = "google"
  <2> DEFINE Signed(content) == Names(Those(LAMBDA c : c.signed, OfType(content, {"ToolUse"})))
  <2>1. ASSUME NEW n \in DOMAIN those PROVE Signed(turns[n].content) = h[those[n]]
    <3> DEFINE content == those[n].content
    <3>1. content \in Seq(AllBlocks) /\ h[those[n]] = Mapped(content, ProofsOf(d))
      BY <1>6, <1>8
    <3>2. turns[n].content = PartsOf(req, content)
      <4>1. turns[n] = GenaiTurn(req, those[n])
        BY <1>3, <1>8
      <4>2. GenaiTurn(req, those[n]).content = PartsOf(req, those[n].content)
        BY DEF GenaiTurn, PartsOf
      <4> QED  BY <4>1, <4>2 DEF content
    <3> HIDE DEF content
    <3>3. Signed(PartsOf(req, content)) = Mapped(content, ProofsOf("google"))
      BY <3>1, PartsProofs
    <3> HIDE DEF Signed
    <3> QED  BY <1>8, <3>1, <3>2, <3>3, Zenon
  <2>2. [n \in DOMAIN turns |-> Signed(turns[n].content)] = [n \in DOMAIN those |-> h[those[n]]]
    <3> HIDE DEF Signed
    <3> QED  BY <1>3, <1>8, <2>1, Zenon
  <2>3. Shown(d, wire) = Flat([n \in DOMAIN turns |-> Signed(turns[n].content)])
    BY <1>8, Zenon DEF Shown, FlatMap, Each, Flat, Names, turns
  <2>4. Shown(d, wire) = Mapped(messages, h)
    <3> HIDE DEF Signed
    <3> QED  BY <1>4, <1>8, <2>2, <2>3, Zenon DEF Mapped
  <2> QED  BY <2>4 DEF wire, req, messages, h
<1>9. CASE d = "responses"
  <2>1. turns = FlatMap(ResponsesItems, messages)
    BY <1>1, <1>5, <1>9 DEF Messages
  <2>2. Shown(d, wire) = Each(LAMBDA t : t.text, Those(LAMBDA t : t.item = "reasoning", turns))
    BY <1>9, Zenon DEF Shown, turns
  <2>3. messages \in Seq(Quiet("responses"))
    BY <1>1, <1>9
  <2>4. Each(LAMBDA t : t.text, Those(LAMBDA t : t.item = "reasoning", FlatMap(ResponsesItems, messages)))
            = Mapped(messages, MessageProofs("responses"))
    BY <2>3, ItemsShow
  <2>5. Shown(d, wire) = Mapped(messages, h)
    BY <1>9, <2>1, <2>2, <2>4, Zenon DEF h
  <2> QED  BY <2>5 DEF wire, req, messages, h
<1> QED  BY <1>7, <1>8, <1>9 DEF Provers

\* A provider that signed or sealed its reasoning is shown all of it again, in
\* order, and never that of another, by a client that keeps it (the Thinking and
\* ToolUse arms of the encoders).
THEOREM OwnReasoningIsShown == Spec => []OwnReasoningReturns
<1>1. ConversationInv => OwnReasoningReturns
  <2> SUFFICES ASSUME ConversationInv, Went, sent.to \in {"anthropic", "google", "responses"},
                      Client = "canonical" \/ (Client = "anthropic" /\ sent.to = "anthropic")
               PROVE  Shown(sent.to, sent.wire) = Gave(sent.to)
    BY Zenon DEF OwnReasoningReturns
  <2> DEFINE d == sent.to
  <2>1. BodyInv /\ SentInv /\ ProofsAreKept /\ d \in Provers /\ Returns(d)
    BY DEF ConversationInv, Provers, Returns
  <2>2. sent.wire = Encode(d, Asked(d))
    BY <2>1 DEF SentInv, Went, Provers
  <2> HIDE DEF d
  <2>3. /\ Mapped(TheMessages, MessageProofs(d)) = Mapped(answers, AnswerProofs(d))
        /\ TheMessages \in Seq(Quiet(d))
    BY <2>1 DEF ProofsAreKept
  <2>4. Shown(d, Encode(d, Asked(d))) = Mapped(TheMessages, MessageProofs(d))
    BY <2>1, <2>3, WireShows
  <2>5. Gave(d) = Mapped(answers, AnswerProofs(d))
    BY <2>1, GaveIs
  <2> QED  BY <2>2, <2>3, <2>4, <2>5 DEF d
<1> QED  BY <1>1, ConversationHolds, PTL

(***************************************************************************)
(* The places of blocks, in their order.                                   *)
(***************************************************************************)
Pairs == Nat \X Nat
Ordered(s) == \A i, j \in DOMAIN s : i < j => After(s[i], s[j])

\* The sequence lists the set, in order.
Lists(s, R) ==
    /\ s \in Seq(Pairs)
    /\ Ordered(s)
    /\ \A i \in DOMAIN s : s[i] \in R
    /\ \A r \in R : \E i \in DOMAIN s : s[i] = r

LEMMA AfterOrders ==
    ASSUME NEW p \in Pairs, NEW q \in Pairs
    PROVE  /\ p = q \/ After(p, q) \/ After(q, p)
           /\ ~After(p, p)
           /\ ~(After(p, q) /\ After(q, p))
           /\ After(p, q) => p[1] <= q[1]
           /\ \A r \in Pairs : After(p, q) /\ After(q, r) => After(p, r)
<1>1. \A x \in Pairs : x = <<x[1], x[2]>> /\ x[1] \in Nat /\ x[2] \in Nat
  BY DEF Pairs
<1>2. p = q <=> p[1] = q[1] /\ p[2] = q[2]
  BY <1>1
<1> QED  BY <1>1, <1>2 DEF After

LEMMA ListsConcat ==
    ASSUME NEW A, NEW B, NEW s, NEW t, Lists(s, A), Lists(t, B), \A a \in A, b \in B : After(a, b)
    PROVE  Lists(s \o t, A \cup B)
<1> DEFINE u == s \o t
<1>1. /\ s \in Seq(Pairs) /\ t \in Seq(Pairs) /\ Ordered(s) /\ Ordered(t)
      /\ \A i \in DOMAIN s : s[i] \in A
      /\ \A i \in DOMAIN t : t[i] \in B
  BY DEF Lists
<1>2. /\ u \in Seq(Pairs) /\ Len(u) = Len(s) + Len(t) /\ Len(s) \in Nat /\ Len(t) \in Nat
      /\ DOMAIN s = 1..Len(s) /\ DOMAIN t = 1..Len(t) /\ DOMAIN u = 1..(Len(s) + Len(t))
      /\ \A i \in 1..Len(s) : u[i] = s[i]
      /\ \A i \in 1..Len(t) : u[Len(s) + i] = t[i]
  BY <1>1
<1> HIDE DEF u
<1>3. ASSUME NEW i \in DOMAIN u
      PROVE  \/ i \in DOMAIN s /\ u[i] = s[i]
             \/ i > Len(s) /\ i - Len(s) \in DOMAIN t /\ u[i] = t[i - Len(s)]
  <2>1. CASE i <= Len(s)
    BY <1>2, <2>1
  <2>2. CASE i > Len(s)
    <3>1. i - Len(s) \in 1..Len(t) /\ Len(s) + (i - Len(s)) = i
      BY <1>2, <2>2
    <3> QED  BY <1>2, <2>2, <3>1
  <2> QED  BY <1>2, <2>1, <2>2
<1>4. Ordered(u)
  <2> SUFFICES ASSUME NEW i \in DOMAIN u, NEW j \in DOMAIN u, i < j PROVE After(u[i], u[j])
    BY DEF Ordered
  <2>1. CASE i \in DOMAIN s /\ j \in DOMAIN s
    BY <1>1, <1>2, <2>1 DEF Ordered
  <2>2. CASE i \in DOMAIN s /\ j \notin DOMAIN s
    <3>1. u[i] \in A /\ u[j] \in B
      BY <1>1, <1>2, <1>3, <2>2
    <3> QED  BY <3>1
  <2>3. CASE i \notin DOMAIN s
    <3>1. j \notin DOMAIN s
      BY <1>2, <2>3
    <3>2. i - Len(s) < j - Len(s)
      BY <1>2
    <3>3. /\ i - Len(s) \in DOMAIN t /\ u[i] = t[i - Len(s)]
          /\ j - Len(s) \in DOMAIN t /\ u[j] = t[j - Len(s)]
      BY <1>3, <2>3, <3>1
    <3> QED  BY <1>1, <3>2, <3>3 DEF Ordered
  <2> QED  BY <2>1, <2>2, <2>3
<1>5. \A i \in DOMAIN u : u[i] \in A \cup B
  BY <1>1, <1>3
<1>6. ASSUME NEW r \in A \cup B PROVE \E i \in DOMAIN u : u[i] = r
  <2>1. CASE r \in A
    <3>1. PICK i \in DOMAIN s : s[i] = r
      BY <2>1 DEF Lists
    <3>2. i \in DOMAIN u /\ u[i] = r
      BY <1>2, <3>1
    <3> QED  BY <3>2
  <2>2. CASE r \in B
    <3>1. PICK i \in DOMAIN t : t[i] = r
      BY <2>2 DEF Lists
    <3>2. Len(s) + i \in DOMAIN u /\ u[Len(s) + i] = r
      BY <1>2, <3>1
    <3> QED  BY <3>2
  <2> QED  BY <2>1, <2>2
<1> QED  BY <1>2, <1>4, <1>5, <1>6 DEF Lists, u

ListsNothing == Lists(<<>>, {})

LEMMA NothingListed == ListsNothing
  BY DEF ListsNothing, Lists, Ordered

LEMMA OneListed ==
    ASSUME NEW p \in Pairs
    PROVE  Lists(<<p>>, {p})
<1> DEFINE s == <<p>>
<1>1. s \in Seq(Pairs) /\ DOMAIN s = {1} /\ s[1] = p
  OBVIOUS
<1> HIDE DEF s
<1>2. Ordered(s)
  BY <1>1 DEF Ordered
<1> QED  BY <1>1, <1>2 DEF Lists, s

\* What is left of an ordered list is ordered.
Elements(s) == {s[i] : i \in DOMAIN s}

LEMMA Sifted ==
    ASSUME NEW Q, NEW s \in Seq(Pairs), Ordered(s)
    PROVE  Lists(Mapped(s, Picks(Pairs, Q)), Elements(s) \cap Q)
<1> DEFINE g == Picks(Pairs, Q)
           P == {r \in Seq(Pairs) : Ordered(r) => Lists(Mapped(r, g), Elements(r) \cap Q)}
<1>1. Makes(g, Pairs, Pairs) /\ \A x \in Pairs : g[x] = IF x \in Q THEN <<x>> ELSE <<>>
  <2>1. Makes(g, Pairs, Pairs \cap Q)
    BY PicksMake
  <2> DEFINE T == Pairs \cap Q
  <2>2. T \subseteq Pairs /\ Makes(g, Pairs, T)
    BY <2>1
  <2> HIDE DEF T, g
  <2>3. Makes(g, Pairs, Pairs)
    BY <2>2, MakesMore
  <2> QED  BY <2>3 DEF g, Picks
<1> HIDE DEF g
<1>9. Makes(g, Pairs, Pairs)
  BY <1>1
<1>2. <<>> \in P
  <2>1. Mapped(<<>>, g) = <<>> /\ Elements(<<>>) \cap Q = {}
    BY MappedEmpty DEF Elements
  <2>2. Lists(Mapped(<<>>, g), Elements(<<>>) \cap Q)
    BY <2>1, NothingListed, Zenon DEF ListsNothing
  <2> QED  BY <2>2
<1>3. ASSUME NEW r \in Seq(Pairs), NEW x \in Pairs, r \in P PROVE Append(r, x) \in P
  <2> SUFFICES ASSUME Ordered(Append(r, x))
               PROVE  Lists(Mapped(Append(r, x), g), Elements(Append(r, x)) \cap Q)
    OBVIOUS
  <2> DEFINE a == Append(r, x)
  <2>1. /\ Len(a) = Len(r) + 1 /\ Len(r) \in Nat /\ a[Len(r) + 1] = x
        /\ DOMAIN r = 1..Len(r) /\ DOMAIN a = 1..(Len(r) + 1)
        /\ \A i \in DOMAIN r : i \in DOMAIN a /\ a[i] = r[i]
    OBVIOUS
  <2>2. Ordered(a)
    OBVIOUS
  <2>3. Mapped(a, g) = Mapped(r, g) \o g[x]
    BY <1>9, MappedAppend
  <2> HIDE DEF a
  <2>4. Ordered(r)
    BY <2>1, <2>2 DEF Ordered
  <2>5. \A i \in DOMAIN r : After(r[i], x)
    <3> SUFFICES ASSUME NEW i \in DOMAIN r PROVE After(r[i], x)
      OBVIOUS
    <3>1. i < Len(r) + 1 /\ i \in DOMAIN a /\ Len(r) + 1 \in DOMAIN a
      BY <2>1
    <3>2. After(a[i], a[Len(r) + 1])
      BY <2>2, <3>1 DEF Ordered
    <3> QED  BY <2>1, <3>2
  <2> DEFINE A == Elements(r) \cap Q
             B == {x} \cap Q
  <2>6. Lists(Mapped(r, g), A)
    BY <1>3, <2>4
  <2>7. Lists(g[x], B)
    <3>1. CASE x \in Q
      <4>1. B = {x} /\ g[x] = <<x>>
        BY <1>1, <3>1
      <4> QED  BY <4>1, OneListed
    <3>2. CASE x \notin Q
      <4>1. B = {} /\ g[x] = <<>>
        BY <1>1, <3>2
      <4> QED  BY <4>1, NothingListed DEF ListsNothing
    <3> QED  BY <3>1, <3>2
  <2>8. \A p \in A, q \in B : After(p, q)
    BY <2>5 DEF Elements
  <2>9. Elements(a) \cap Q = A \cup B
    <3>1. Elements(a) = Elements(r) \cup {x}
      BY <2>1 DEF Elements
    <3> QED  BY <3>1
  <2> HIDE DEF A, B
  <2>10. Lists(Mapped(r, g) \o g[x], A \cup B)
    BY <2>6, <2>7, <2>8, ListsConcat
  <2> QED  BY <2>3, <2>9, <2>10 DEF a
<1>4. Seq(Pairs) \subseteq P
  <2> HIDE DEF P
  <2> QED  BY <1>2, <1>3, ByAppending
<1> QED  BY <1>4 DEF g

\* The turns of a body, with blocks of some kind.
TalkOf(B) == [role : {"user", "assistant"}, content : Seq(B)]
RowOf(turns, m) == [b \in DOMAIN turns[m].content |-> <<m, b>>]
RowsOf(turns) == [m \in 1..Len(turns) |-> RowOf(turns, m)]
RowPlaces(turns, m) == {p \in Pairs : p[1] = m /\ p[2] \in DOMAIN turns[m].content}
SpanPlaces(turns, n) == {p \in Pairs : p[1] \in 1..n /\ p[2] \in DOMAIN turns[p[1]].content}

LEMMA RowListed ==
    ASSUME NEW B, NEW turns \in Seq(TalkOf(B)), NEW m \in 1..Len(turns)
    PROVE  Lists(RowOf(turns, m), RowPlaces(turns, m))
<1> DEFINE c == turns[m].content
           s == [b \in DOMAIN c |-> <<m, b>>]
<1>1. c \in Seq(B) /\ m \in Nat
  <2>1. turns[m] \in TalkOf(B) /\ m \in Nat
    OBVIOUS
  <2> QED  BY <2>1 DEF TalkOf
<1>2. RowOf(turns, m) = s /\ RowPlaces(turns, m) = {p \in Pairs : p[1] = m /\ p[2] \in DOMAIN c}
  BY DEF RowOf, RowPlaces
<1> HIDE DEF c
<1>3. s \in Seq(Pairs) /\ DOMAIN s = DOMAIN c /\ DOMAIN c \subseteq Nat /\ \A b \in DOMAIN c : s[b] = <<m, b>>
  BY <1>1 DEF Pairs
<1> HIDE DEF s
<1>4. Ordered(s)
  BY <1>1, <1>3 DEF Ordered, After
<1>5. \A i \in DOMAIN s : s[i] \in {p \in Pairs : p[1] = m /\ p[2] \in DOMAIN c}
  BY <1>1, <1>3 DEF Pairs
<1>6. ASSUME NEW p \in Pairs, p[1] = m, p[2] \in DOMAIN c PROVE \E i \in DOMAIN s : s[i] = p
  <2>1. p = <<m, p[2]>>
    BY <1>6 DEF Pairs
  <2>2. s[p[2]] = <<m, p[2]>>
    BY <1>3, <1>6
  <2>3. s[p[2]] = p
    BY <2>1, <2>2, Zenon
  <2> QED  BY <1>3, <1>6, <2>3
<1> QED  BY <1>2, <1>3, <1>4, <1>5, <1>6 DEF Lists

LEMMA RowsListed ==
    ASSUME NEW B, NEW turns \in Seq(TalkOf(B)), NEW n \in 0..Len(turns)
    PROVE  Lists(Mapped([m \in 1..n |-> m], RowsOf(turns)), SpanPlaces(turns, n))
<1> DEFINE N == Len(turns)
           h == RowsOf(turns)
           up(k) == [m \in 1..k |-> m]
           S == {k \in 0..N : Lists(Mapped(up(k), h), SpanPlaces(turns, k))}
<1>1. N \in Nat /\ \A m \in 1..N : h[m] = RowOf(turns, m)
  BY DEF RowsOf
<1>2. \A m \in 1..N : Lists(h[m], RowPlaces(turns, m)) /\ h[m] \in Seq(Pairs)
  BY <1>1, RowListed DEF Lists
<1>3. Makes(h, 1..N, Pairs)
  <2>1. h = [m \in 1..N |-> h[m]]
    BY DEF RowsOf
  <2> HIDE DEF h
  <2> QED  BY <1>2, <2>1 DEF Makes
<1> HIDE DEF h, N
<1>4. 0 \in S
  <2>1. up(0) = <<>> /\ SpanPlaces(turns, 0) = {}
    BY DEF SpanPlaces
  <2>2. Mapped(up(0), h) = <<>>
    BY <2>1, MappedEmpty, Zenon
  <2>3. Lists(Mapped(up(0), h), SpanPlaces(turns, 0))
    BY <2>1, <2>2, NothingListed, Zenon DEF ListsNothing
  <2> QED  BY <1>1, <2>3
<1>5. ASSUME NEW k \in 0..N, k \in S, k < N PROVE k + 1 \in S
  <2>1. k + 1 \in 1..N /\ k + 1 \in 0..N
    BY <1>1, <1>5
  <2> DEFINE a == up(k)
             T == 1..N
             x == k + 1
             A == SpanPlaces(turns, k)
             R == RowPlaces(turns, x)
  <2>2. a \in Seq(T)
    BY <1>1, <1>5
  <2>3. up(k + 1) = Append(a, x)
    BY <1>1
  <2>4. x \in T /\ Makes(h, T, Pairs)
    BY <1>3, <2>1
  <2>5. Lists(Mapped(a, h), A) /\ Lists(h[x], R)
    BY <1>2, <1>5, <2>1
  <2>6. SpanPlaces(turns, x) = A \cup R
    BY <1>1 DEF SpanPlaces, RowPlaces
  <2>7. \A p \in A, q \in R : After(p, q)
    BY <1>1 DEF SpanPlaces, RowPlaces, After
  <2> HIDE DEF up, a, T, A, R
  <2>8. Mapped(Append(a, x), h) = Mapped(a, h) \o h[x]
    BY <2>2, <2>4, MappedAppend
  <2>9. Lists(Mapped(a, h) \o h[x], A \cup R)
    BY <2>5, <2>7, ListsConcat
  <2>10. Lists(Mapped(up(k + 1), h), SpanPlaces(turns, k + 1))
    BY <2>3, <2>6, <2>8, <2>9, Zenon
  <2> QED  BY <2>1, <2>10
<1>6. 0..N \subseteq S
  <2> HIDE DEF S
  <2> QED  BY <1>1, <1>4, <1>5, UpTo
<1> QED  BY <1>6 DEF N, h

\* The places that may have a mark.
Theirs(turns) == {p \in Places(turns) : \E m \in p[1]..Len(turns) : turns[m].role # "assistant"}

LEMMA PlacesAre ==
    ASSUME NEW B, NEW turns \in Seq(TalkOf(B))
    PROVE  Places(turns) = {p \in SpanPlaces(turns, Len(turns)) :
                               turns[p[1]].content[p[2]].type \notin Thoughts}
<1> DEFINE S == {p \in SpanPlaces(turns, Len(turns)) : turns[p[1]].content[p[2]].type \notin Thoughts}
<1>1. DOMAIN turns = 1..Len(turns) /\ Len(turns) \in Nat
  OBVIOUS
<1>2. \A m \in DOMAIN turns : turns[m].content \in Seq(B)
  <2>1. \A m \in DOMAIN turns : turns[m] \in TalkOf(B)
    OBVIOUS
  <2> QED  BY <2>1 DEF TalkOf
<1>3. \A m \in DOMAIN turns : \A b \in DOMAIN turns[m].content : b \in Nat
  BY <1>2
<1>4. ASSUME NEW p \in Places(turns) PROVE p \in S
  <2>1. PICK m \in DOMAIN turns :
           p \in {<<m, b>> : b \in {b \in DOMAIN turns[m].content : turns[m].content[b].type \notin Thoughts}}
    BY <1>4, Zenon DEF Places
  <2>2. PICK b \in DOMAIN turns[m].content : p = <<m, b>> /\ turns[m].content[b].type \notin Thoughts
    BY <2>1, Zenon
  <2>3. p \in Pairs /\ p[1] = m /\ p[2] = b
    BY <1>1, <1>3, <2>2 DEF Pairs
  <2> QED  BY <1>1, <2>2, <2>3 DEF SpanPlaces
<1>5. ASSUME NEW p \in S PROVE p \in Places(turns)
  <2>1. /\ p[1] \in DOMAIN turns /\ p[2] \in DOMAIN turns[p[1]].content /\ p = <<p[1], p[2]>>
        /\ turns[p[1]].content[p[2]].type \notin Thoughts
    BY <1>1 DEF SpanPlaces, Pairs
  <2> DEFINE m == p[1]
             b == p[2]
             those(k) == {<<k, c>> : c \in {c \in DOMAIN turns[k].content :
                                              turns[k].content[c].type \notin Thoughts}}
  <2>2. p = <<m, b>> /\ m \in DOMAIN turns
        /\ b \in {c \in DOMAIN turns[m].content : turns[m].content[c].type \notin Thoughts}
    BY <2>1
  <2> HIDE DEF m, b
  <2>3. p \in those(m)
    BY <2>2
  <2>4. Places(turns) = UNION {those(k) : k \in DOMAIN turns}
    BY Zenon DEF Places
  <2>5. those(m) \in {those(k) : k \in DOMAIN turns}
    BY <2>2
  <2> HIDE DEF those
  <2> QED  BY <2>3, <2>4, <2>5
<1> QED  BY <1>4, <1>5

LEMMA Greatest ==
    ASSUME NEW N \in Nat, NEW S \in SUBSET (1..N), S # {}
    PROVE  \E m \in S : \A x \in S : x <= m
<1> DEFINE T == {N - x : x \in S}
<1>1. T \in SUBSET Nat /\ T # {}
  <2>1. \A x \in S : x \in Nat /\ N - x \in Nat
    OBVIOUS
  <2> QED  BY <2>1
<1>2. PICK k \in T : \A y \in T : k <= y
  <2> HIDE DEF T
  <2> QED  BY <1>1, LeastElement
<1>3. PICK m \in S : k = N - m
  OBVIOUS
<1>4. \A x \in S : x <= m
  BY <1>2, <1>3
<1> QED  BY <1>4

\* Eligible lists those places in their order.
LEMMA EligibleLists ==
    ASSUME NEW B, NEW turns \in Seq(TalkOf(B))
    PROVE  Lists(Eligible(turns), Theirs(turns))
<1> DEFINE theirs == {m \in DOMAIN turns : turns[m].role # "assistant"}
           last == IF theirs = {} THEN 0 ELSE CHOOSE m \in theirs : \A n \in theirs : n <= m
           places == FlatMap(LAMBDA m : [b \in DOMAIN turns[m].content |-> <<m, b>>],
                             [m \in 1..last |-> m])
           N == Len(turns)
           Q == {p \in Pairs : turns[p[1]].content[p[2]].type \notin Thoughts}
<1>1. N \in Nat /\ DOMAIN turns = 1..N
  OBVIOUS
<1>2. /\ last \in 0..N
      /\ \A m \in 1..N : m <= last <=> \E n \in m..N : turns[n].role # "assistant"
  <2>1. CASE theirs = {}
    BY <1>1, <2>1
  <2>2. CASE theirs # {}
    <3>1. \E m \in theirs : \A x \in theirs : x <= m
      <4>1. theirs \in SUBSET (1..N)
        BY <1>1
      <4> HIDE DEF theirs
      <4> QED  BY <1>1, <2>2, <4>1, Greatest
    <3>2. last \in theirs /\ \A x \in theirs : x <= last
      <4>1. last = CHOOSE m \in theirs : \A n \in theirs : n <= m
        BY <2>2
      <4> HIDE DEF theirs, last
      <4> QED  BY <3>1, <4>1, Zenon
    <3> HIDE DEF last
    <3> QED  BY <1>1, <3>2
  <2> QED  BY <2>1, <2>2
<1>3. Eligible(turns) = Those(LAMBDA p : turns[p[1]].content[p[2]].type \notin Thoughts, places)
  BY Zenon DEF Eligible
<1> HIDE DEF last, N
<1> DEFINE up == [m \in 1..last |-> m]
           h == RowsOf(turns)
<1>4. places = Mapped(up, h)
  <2>1. \A n \in DOMAIN up : h[up[n]] = [b \in DOMAIN turns[up[n]].content |-> <<up[n], b>>]
    BY <1>1, <1>2 DEF RowsOf, RowOf, N
  <2> HIDE DEF h
  <2>2. [n \in DOMAIN up |-> h[up[n]]] = [n \in DOMAIN up |-> [b \in DOMAIN turns[up[n]].content |-> <<up[n], b>>]]
    BY <2>1, Zenon
  <2> HIDE DEF up
  <2>3. places = FlatMap(LAMBDA m : [b \in DOMAIN turns[m].content |-> <<m, b>>], up)
    BY Zenon DEF up
  <2> HIDE DEF places
  <2> QED  BY <2>2, <2>3, Zenon DEF FlatMap, Each, Mapped, Flat
<1> HIDE DEF places
<1>5. Lists(places, SpanPlaces(turns, last))
  BY <1>2, <1>4, RowsListed DEF N
<1>6. places \in Seq(Pairs) /\ Ordered(places) /\ Elements(places) = SpanPlaces(turns, last)
  BY <1>5 DEF Lists, Elements
<1>7. Eligible(turns) = Mapped(places, Picks(Pairs, Q))
  <2> DEFINE g == Picks(Pairs, Q)
  <2>1. \A n \in DOMAIN places : g[places[n]] = IF turns[places[n][1]].content[places[n][2]].type \notin Thoughts
                                               THEN <<places[n]>> ELSE <<>>
    BY <1>6 DEF Picks
  <2> HIDE DEF g
  <2>2. [n \in DOMAIN places |-> g[places[n]]]
            = [n \in DOMAIN places |-> IF turns[places[n][1]].content[places[n][2]].type \notin Thoughts
                                       THEN <<places[n]>> ELSE <<>>]
    BY <2>1, Zenon
  <2>3. Mapped(places, g) = Flat([n \in DOMAIN places |-> IF turns[places[n][1]].content[places[n][2]].type \notin Thoughts
                                       THEN <<places[n]>> ELSE <<>>])
    BY <2>2, Zenon DEF Mapped
  <2>4. Eligible(turns) = Mapped(places, g)
    BY <1>3, <2>3, Zenon DEF Those, FlatMap, Each, Flat
  <2> QED  BY <2>4 DEF g
<1>8. Lists(Mapped(places, Picks(Pairs, Q)), Elements(places) \cap Q)
  <2> HIDE DEF Q
  <2> QED  BY <1>6, Sifted
<1>9. Elements(places) \cap Q = Theirs(turns)
  <2>1. Places(turns) = {p \in SpanPlaces(turns, N) : turns[p[1]].content[p[2]].type \notin Thoughts}
    BY PlacesAre DEF N
  <2>2. \A p \in SpanPlaces(turns, N) : p \in SpanPlaces(turns, last) <=> p[1] <= last
    BY <1>1, <1>2 DEF SpanPlaces
  <2>3. SpanPlaces(turns, last) \subseteq SpanPlaces(turns, N)
    BY <1>1, <1>2 DEF SpanPlaces
  <2>4. \A p \in SpanPlaces(turns, N) : p \in Pairs /\ p[1] \in 1..N
    BY DEF SpanPlaces
  <2>5. \A p \in SpanPlaces(turns, N) :
            p[1] <= last <=> \E m \in p[1]..Len(turns) : turns[m].role # "assistant"
    BY <1>2, <2>4 DEF N
  <2> QED  BY <1>6, <2>1, <2>2, <2>3, <2>4, <2>5 DEF Theirs
<1> QED  BY <1>7, <1>8, <1>9, Zenon

LEMMA SameSize ==
    ASSUME NEW S, NEW k \in Nat, NEW f, Gives(f, 1..k, S),
           \A a, b \in 1..k : f[a] = f[b] => a = b, \A r \in S : \E a \in 1..k : f[a] = r
    PROVE  Cardinality(S) = k
<1>1. f \in Bijection(1..k, S)
  BY DEF Gives, Bijection, Injection, Surjection, IsInjective
<1>2. ExistsBijection(1..k, S)
  BY <1>1 DEF ExistsBijection
<1>3. IsFiniteSet(1..k) /\ Cardinality(1..k) = k
  <2>1. 1 \in Int /\ k \in Int
    OBVIOUS
  <2>2. IsFiniteSet(1..k) /\ Cardinality(1..k) = IF 1 > k THEN 0 ELSE k - 1 + 1
    BY <2>1, FS_Interval
  <2> QED  BY <2>2
<1>4. Cardinality(S) = Cardinality(1..k)
  BY <1>2, <1>3, FS_Bijection
<1> QED  BY <1>3, <1>4

\* How far apart two of the listed places are.
LEMMA DistanceIs ==
    ASSUME NEW B, NEW turns \in Seq(TalkOf(B)), NEW e, Lists(e, Theirs(turns)),
           NEW i \in DOMAIN e, NEW j \in DOMAIN e, i <= j
    PROVE  Distance(turns, e[i], e[j]) = j - i
<1> DEFINE S == {r \in Places(turns) : After(e[i], r) /\ ~After(e[j], r)}
           f == [a \in 1..(j - i) |-> e[i + a]]
<1>1. /\ e \in Seq(Pairs) /\ Ordered(e)
      /\ \A k \in DOMAIN e : e[k] \in Theirs(turns) /\ e[k] \in Pairs
      /\ \A r \in Theirs(turns) : \E k \in DOMAIN e : e[k] = r
  BY DEF Lists
<1>2. DOMAIN e = 1..Len(e) /\ Len(e) \in Nat /\ j - i \in Nat
  BY <1>1
<1>3. Places(turns) \subseteq Pairs
  BY PlacesAre DEF SpanPlaces
<1>4. \A k, l \in DOMAIN e : k < l => After(e[k], e[l]) /\ ~After(e[l], e[k]) /\ e[k] # e[l]
  BY <1>1, AfterOrders DEF Ordered
<1>5. \A k \in DOMAIN e : ~After(e[k], e[k])
  BY <1>1, AfterOrders
<1>6. ASSUME NEW a \in 1..(j - i) PROVE i + a \in DOMAIN e /\ e[i + a] \in S /\ f[a] = e[i + a]
  <2>1. i + a \in DOMAIN e /\ i < i + a /\ i + a <= j
    BY <1>2
  <2>2. After(e[i], e[i + a]) /\ ~After(e[j], e[i + a])
    BY <1>2, <1>4, <1>5, <2>1
  <2>3. e[i + a] \in Places(turns)
    BY <1>1, <2>1 DEF Theirs
  <2> QED  BY <2>1, <2>2, <2>3
<1>7. ASSUME NEW r \in S PROVE \E a \in 1..(j - i) : f[a] = r
  <2>1. r \in Places(turns) /\ r \in Pairs /\ After(e[i], r) /\ ~After(e[j], r)
    BY <1>3
  <2>2. r[1] <= e[j][1] /\ r[1] \in Nat /\ e[j][1] \in Nat
    <3>1. r = e[j] \/ After(r, e[j])
      BY <1>1, <2>1, AfterOrders
    <3>2. After(r, e[j]) => r[1] <= e[j][1]
      BY <1>1, <2>1, AfterOrders
    <3>3. r[1] \in Nat /\ e[j][1] \in Nat
      BY <1>1, <2>1 DEF Pairs
    <3> QED  BY <3>1, <3>2, <3>3
  <2>3. r \in Theirs(turns)
    <3>1. PICK m \in e[j][1]..Len(turns) : turns[m].role # "assistant"
      BY <1>1 DEF Theirs
    <3>2. m \in r[1]..Len(turns)
      BY <2>2, <3>1
    <3> QED  BY <2>1, <3>1, <3>2 DEF Theirs
  <2>4. PICK k \in DOMAIN e : e[k] = r
    BY <1>1, <2>3
  <2>5. i < k /\ k <= j
    BY <1>2, <1>4, <1>5, <2>1, <2>4
  <2>6. k - i \in 1..(j - i) /\ i + (k - i) = k
    BY <1>2, <2>5
  <2> QED  BY <2>4, <2>6
<1>8. \A a, b \in 1..(j - i) : f[a] = f[b] => a = b
  <2> SUFFICES ASSUME NEW a \in 1..(j - i), NEW b \in 1..(j - i), a < b PROVE f[a] # f[b]
    BY <1>2
  <2>1. i + a < i + b
    BY <1>2
  <2> QED  BY <1>4, <1>6, <2>1
<1>9. Gives(f, 1..(j - i), S)
  BY <1>6 DEF Gives
<1> HIDE DEF S, f
<1>10. Cardinality(S) = j - i
  <2> DEFINE k == j - i
  <2>1. /\ k \in Nat /\ Gives(f, 1..k, S) /\ \A a, b \in 1..k : f[a] = f[b] => a = b
        /\ \A r \in S : \E a \in 1..k : f[a] = r
    BY <1>2, <1>7, <1>8, <1>9
  <2> HIDE DEF k
  <2>2. Cardinality(S) = k
    BY <2>1, SameSize
  <2> QED  BY <2>2 DEF k
<1> QED  BY <1>10 DEF Distance, S

LEMMA LastIs ==
    ASSUME NEW places \in SUBSET Pairs, NEW p \in places, \A q \in places : q # p => After(q, p)
    PROVE  Last(places) = p
<1>1. \A q \in places : ~After(p, q)
  BY AfterOrders
<1>2. \A r \in places : (\A q \in places : ~After(r, q)) => r = p
  OBVIOUS
<1> QED  BY <1>1, <1>2 DEF Last

\* What ConversationMarks marks, in terms of the list.
LEMMA MarksAre ==
    ASSUME NEW B, NEW turns \in Seq(TalkOf(B)), NEW e, e = Eligible(turns)
    PROVE  /\ Lists(e, Theirs(turns)) /\ DOMAIN e = 1..Len(e) /\ Len(e) \in Nat
           /\ e # <<>> <=> Len(e) # 0
           /\ ConversationMarks(turns) # {} <=> Len(e) # 0 /\ Ongoing(turns)
           /\ Len(e) # 0 /\ Ongoing(turns) =>
                  ConversationMarks(turns) = {e[Len(e)]} \cup (IF Len(e) > Lookback THEN {e[Len(e) - Lookback]} ELSE {})
           /\ ConversationMarks(turns) \subseteq Theirs(turns)
           /\ ConversationMarks(turns) # {} => Last(ConversationMarks(turns)) = e[Len(e)]
           /\ Len(e) # 0 => Last(Theirs(turns)) = e[Len(e)]
<1> DEFINE n == Len(e)
           M == ConversationMarks(turns)
<1>1. Lists(e, Theirs(turns))
  BY EligibleLists
<1>2. /\ e \in Seq(Pairs) /\ Ordered(e)
      /\ \A i \in DOMAIN e : e[i] \in Theirs(turns) /\ e[i] \in Pairs
      /\ \A r \in Theirs(turns) : \E i \in DOMAIN e : e[i] = r
  BY <1>1 DEF Lists
<1>3. DOMAIN e = 1..n /\ n \in Nat /\ (e # <<>> <=> n # 0)
  BY <1>2
<1>4. M = IF n = 0 \/ ~Ongoing(turns) THEN {}
          ELSE {e[n]} \cup (IF n > Lookback THEN {e[n - Lookback]} ELSE {})
  BY Zenon DEF ConversationMarks
<1>5. Lookback \in Nat /\ Lookback # 0
  BY LookbackAssumption
<1> HIDE DEF M
<1>6. n # 0 => n \in DOMAIN e
  BY <1>3
<1>7. n > Lookback => n - Lookback \in DOMAIN e /\ n - Lookback < n
  BY <1>3, <1>5
<1>8. M \subseteq Theirs(turns)
  BY <1>2, <1>4, <1>6, <1>7
<1>9. Theirs(turns) \subseteq Pairs
  BY PlacesAre DEF Theirs, SpanPlaces
<1>10. n # 0 => \A i \in DOMAIN e : e[i] # e[n] => After(e[i], e[n])
  <2> SUFFICES ASSUME n # 0, NEW i \in DOMAIN e, e[i] # e[n] PROVE After(e[i], e[n])
    OBVIOUS
  <2>1. i < n
    BY <1>3
  <2> QED  BY <1>2, <1>6, <2>1 DEF Ordered
<1>11. n # 0 => Last(Theirs(turns)) = e[n]
  <2> SUFFICES ASSUME n # 0 PROVE Last(Theirs(turns)) = e[n]
    OBVIOUS
  <2>1. e[n] \in Theirs(turns) /\ \A q \in Theirs(turns) : q # e[n] => After(q, e[n])
    BY <1>2, <1>6, <1>10
  <2> QED  BY <1>9, <2>1, LastIs
<1>12. M # {} => Last(M) = e[n]
  <2> SUFFICES ASSUME M # {} PROVE Last(M) = e[n]
    OBVIOUS
  <2>1. n # 0 /\ e[n] \in M
    BY <1>4
  <2>2. M \subseteq Pairs
    BY <1>8, <1>9
  <2>3. ASSUME NEW q \in M PROVE \E i \in DOMAIN e : e[i] = q
    <3>1. q \in Theirs(turns)
      BY <1>8
    <3> QED  BY <1>2, <3>1
  <2>4. \A q \in M : q # e[n] => After(q, e[n])
    BY <1>10, <2>1, <2>3
  <2> QED  BY <2>1, <2>2, <2>4, LastIs
<1>13. M # {} <=> n # 0 /\ Ongoing(turns)
  BY <1>4
<1>14. n # 0 /\ Ongoing(turns) => M = {e[n]} \cup (IF n > Lookback THEN {e[n - Lookback]} ELSE {})
  BY <1>4
<1> HIDE DEF n
<1> QED  BY <1>1, <1>3, <1>8, <1>11, <1>12, <1>13, <1>14 DEF M, n

\* A body that goes on where another was has a mark within a lookback of its last.
LEMMA MarksStayNear ==
    ASSUME NEW B, NEW turns \in Seq(TalkOf(B)), NEW before \in Seq(TalkOf(B)),
           Len(before) <= Len(turns), \A m \in 1..Len(before) : before[m] = turns[m],
           ConversationMarks(before) # {}
    PROVE  LET cut == Last(ConversationMarks(before))
           IN  Distance(turns, cut, Last(Theirs(turns))) <= 2 * Lookback =>
                   \E p \in ConversationMarks(turns) :
                       ~After(p, cut) /\ Distance(turns, cut, p) <= Lookback
<1> DEFINE cut == Last(ConversationMarks(before))
           e == Eligible(turns)
           n == Len(e)
           M == ConversationMarks(turns)
<1> SUFFICES ASSUME Distance(turns, cut, Last(Theirs(turns))) <= 2 * Lookback
             PROVE  \E p \in M : ~After(p, cut) /\ Distance(turns, cut, p) <= Lookback
  OBVIOUS
<1>1. /\ Len(before) \in Nat /\ Len(turns) \in Nat
      /\ DOMAIN before = 1..Len(before) /\ DOMAIN turns = 1..Len(turns)
      /\ Lookback \in Nat /\ Lookback # 0
  BY LookbackAssumption
<1>2. cut \in Theirs(before) /\ Ongoing(before)
  <2> DEFINE f == Eligible(before)
  <2>1. /\ Lists(f, Theirs(before)) /\ DOMAIN f = 1..Len(f) /\ Len(f) \in Nat
        /\ ConversationMarks(before) # {} <=> Len(f) # 0 /\ Ongoing(before)
        /\ ConversationMarks(before) # {} => Last(ConversationMarks(before)) = f[Len(f)]
    BY MarksAre
  <2> HIDE DEF f
  <2>2. cut = f[Len(f)] /\ Len(f) \in DOMAIN f
    BY <2>1
  <2> QED  BY <2>1, <2>2 DEF Lists
<1>3. /\ Lists(e, Theirs(turns)) /\ DOMAIN e = 1..n /\ n \in Nat
      /\ n # 0 /\ Ongoing(turns) => M = {e[n]} \cup (IF n > Lookback THEN {e[n - Lookback]} ELSE {})
      /\ n # 0 => Last(Theirs(turns)) = e[n]
  BY MarksAre
<1> HIDE DEF cut, e, M
<1>4. cut \in Theirs(turns)
  <2>1. cut \in Places(before)
        /\ \E m \in cut[1]..Len(before) : before[m].role # "assistant"
    BY <1>2 DEF Theirs
  <2>2. cut \in SpanPlaces(before, Len(before)) /\ before[cut[1]].content[cut[2]].type \notin Thoughts
    BY <2>1, PlacesAre
  <2>3. cut[1] \in 1..Len(before) /\ cut[1] \in 1..Len(turns) /\ before[cut[1]] = turns[cut[1]]
    BY <1>1, <2>2 DEF SpanPlaces
  <2>4. cut \in SpanPlaces(turns, Len(turns)) /\ turns[cut[1]].content[cut[2]].type \notin Thoughts
    BY <2>2, <2>3 DEF SpanPlaces
  <2>5. cut \in Places(turns)
    BY <2>4, PlacesAre
  <2>6. \E m \in cut[1]..Len(turns) : turns[m].role # "assistant"
    <3>1. PICK m \in cut[1]..Len(before) : before[m].role # "assistant"
      BY <2>1
    <3>2. m \in cut[1]..Len(turns) /\ before[m] = turns[m]
      BY <1>1, <2>3, <3>1
    <3> QED  BY <3>1, <3>2
  <2> QED  BY <2>5, <2>6 DEF Theirs
<1>5. Ongoing(turns)
  <2>1. PICK m \in DOMAIN before : before[m].role = "assistant" /\ m < Len(before)
    BY <1>2 DEF Ongoing
  <2>2. m \in DOMAIN turns /\ turns[m].role = "assistant" /\ m < Len(turns)
    BY <1>1, <2>1
  <2> QED  BY <2>2 DEF Ongoing
<1>6. PICK k \in DOMAIN e : e[k] = cut
  BY <1>3, <1>4 DEF Lists
<1>7. n # 0 /\ n \in DOMAIN e /\ k <= n /\ k \in Nat /\ k # 0
  BY <1>3, <1>6
<1>8. \A j \in DOMAIN e : k <= j => Distance(turns, e[k], e[j]) = j - k
  BY <1>3, <1>6, DistanceIs
<1>9. \A j \in DOMAIN e : k <= j => ~After(e[j], e[k])
  <2> SUFFICES ASSUME NEW j \in DOMAIN e, k <= j PROVE ~After(e[j], e[k])
    OBVIOUS
  <2>1. Ordered(e) /\ e[k] \in Pairs /\ e[j] \in Pairs
    BY <1>3, <1>6 DEF Lists
  <2>2. k = j \/ k < j
    BY <1>3
  <2>3. k < j => After(e[k], e[j])
    BY <2>1 DEF Ordered
  <2> QED  BY <2>1, <2>2, <2>3, AfterOrders
<1>10. n - k <= 2 * Lookback
  BY <1>3, <1>6, <1>7, <1>8
<1>11. CASE n - k <= Lookback
  <2>1. e[n] \in M
    BY <1>3, <1>5, <1>7
  <2>2. ~After(e[n], cut) /\ Distance(turns, cut, e[n]) = n - k
    BY <1>6, <1>7, <1>8, <1>9
  <2> QED  BY <1>11, <2>1, <2>2
<1>12. CASE ~(n - k <= Lookback)
  <2> DEFINE j == n - Lookback
  <2>1. n > Lookback /\ j \in DOMAIN e /\ k <= j /\ j - k <= Lookback
    BY <1>1, <1>3, <1>7, <1>10, <1>12
  <2>2. e[j] \in M
    BY <1>3, <1>5, <1>7, <2>1
  <2>3. ~After(e[j], cut) /\ Distance(turns, cut, e[j]) = j - k
    BY <1>6, <1>8, <1>9, <2>1
  <2> QED  BY <2>1, <2>2, <2>3
<1> QED  BY <1>11, <1>12

(***************************************************************************)
(* What Anthropic is sent again of a body it was sent before.              *)
(***************************************************************************)
\* The instructions of a row with those of a request.
Heading(system, cfg) ==
    LET led == IF system = <<>> THEN cfg.system ELSE system
    IN  IF cfg.preamble /\ (led = <<>> \/ Head(led) # Preamble) THEN <<Preamble>> \o led ELSE led

LEMMA PreparedHeading ==
    ASSUME NEW req, NEW cfg, "system" \in DOMAIN req
    PROVE  Prepared(req, cfg).system = Heading(req.system, cfg)
<1> DEFINE a == FillAbsent(req, cfg)
           b == LeadWithPreamble(a, cfg)
           c == StripUnsupported(b, cfg)
           d == CoupleBudget(c, cfg)
           led == IF req.system = <<>> THEN cfg.system ELSE req.system
<1>1. "system" \in DOMAIN a /\ a.system = led
  BY DEF FillAbsent
<1> HIDE DEF a, led
<1>2. /\ "system" \in DOMAIN b
      /\ b.system = IF cfg.preamble /\ (led = <<>> \/ Head(led) # Preamble) THEN <<Preamble>> \o led ELSE led
  BY <1>1 DEF LeadWithPreamble
<1> HIDE DEF b
<1>3. "system" \in DOMAIN c /\ c.system = b.system
  BY <1>2 DEF StripUnsupported
<1> HIDE DEF c
<1>4. d.system = c.system
  BY <1>3 DEF CoupleBudget
<1> HIDE DEF d
<1>5. Prepared(req, cfg) = d
  BY Zenon DEF Prepared, PreparedToCount, a, b, c, d
<1>6. Heading(req.system, cfg) = IF cfg.preamble /\ (led = <<>> \/ Head(led) # Preamble)
                                 THEN <<Preamble>> \o led ELSE led
  BY Zenon DEF Heading, led
<1> QED  BY <1>2, <1>3, <1>4, <1>5, <1>6, Zenon

\* Instructions in the middle of the conversation are gathered behind those.
Gathered(messages) == FlatMap(LAMBDA m : m.content, OfRole(messages, "System"))

LEMMA GatheredStays ==
    ASSUME NEW messages \in Seq(Messages1), NEW m \in TurnedMessages
    PROVE  Gathered(Append(messages, m)) = Gathered(messages)
<1> DEFINE Q == {x \in Messages1 : x.role = "System"}
           g == Picks(Messages1, Q)
           T == Messages1 \cap Q
           all == Append(messages, m)
<1>1. Makes(g, Messages1, T)
  BY PicksMake
<1>2. \A x \in Messages1 : g[x] = IF x.role = "System" THEN <<x>> ELSE <<>>
  BY DEF Picks
<1>3. m \in Messages1 /\ m.role # "System"
  BY DEF TurnedMessages, NotSystem
<1> HIDE DEF g, T
<1>4. ASSUME NEW s \in Seq(Messages1) PROVE OfRole(s, "System") = Mapped(s, g)
  <2>1. \A n \in DOMAIN s : g[s[n]] = IF s[n].role = "System" THEN <<s[n]>> ELSE <<>>
    BY <1>2
  <2>2. [n \in DOMAIN s |-> g[s[n]]] = [n \in DOMAIN s |-> IF s[n].role = "System" THEN <<s[n]>> ELSE <<>>]
    BY <2>1, Zenon
  <2> QED  BY <2>2, Zenon DEF OfRole, Those, FlatMap, Each, Mapped, Flat
<1>5. Mapped(messages, g) \in Seq(T) /\ Mapped(all, g) = Mapped(messages, g) \o g[m]
  BY <1>1, <1>3, MappedAppend
<1>6. g[m] = <<>>
  BY <1>2, <1>3
<1>7. Mapped(all, g) = Mapped(messages, g)
  BY <1>5, <1>6
<1>8. all \in Seq(Messages1)
  BY <1>3
<1> HIDE DEF all
<1>9. OfRole(all, "System") = OfRole(messages, "System")
  BY <1>4, <1>7, <1>8
<1> QED  BY <1>9, Zenon DEF Gathered, all

Instructed == Heading(Leading, Config("anthropic")) \o Gathered(TheMessages)

\* What of the body Anthropic is sent.
LEMMA WireIs ==
    ASSUME BodyInv
    PROVE  LET wire == Encode("anthropic", Asked("anthropic"))
               turns == Turned(TheMessages)
           IN  /\ wire.system = Instructed /\ wire.tools = body.tools
               /\ turns \in Seq(TurnedMessages)
               /\ wire.messages = [n \in 1..Len(turns) |-> MessagesTurn(turns[n])]
               /\ wire.marks = [head |-> HeadMark(wire), turns |-> ConversationMarks(wire.messages)]
<1> DEFINE d == "anthropic"
           req == Asked(d)
           wire == Encode(d, req)
           turns == Turned(TheMessages)
<1>1. req.messages = TheMessages /\ req.tools = body.tools
  BY AskedIs
<1>2. req.system = Heading(Leading, Config(d))
  <2> DEFINE asked == Decode(Client, body)
             cfg == Config(d)
  <2>1. "system" \in DOMAIN asked
    <3>1. CASE Client = "canonical"
      BY <3>1 DEF Decode, BodyInv, FieldsOf, Common
    <3>2. CASE Client = "anthropic"
      BY <3>2 DEF Decode, ShapeTaken, DecodeMessages, Request
    <3>3. CASE Client = "openai"
      BY <3>3 DEF Decode, ShapeTaken, DecodeChat, Request
    <3> QED  BY <3>1, <3>2, <3>3, ThePlay
  <2> HIDE DEF asked, cfg
  <2>2. Prepared(asked, cfg).system = Heading(asked.system, cfg)
    BY <2>1, PreparedHeading
  <2> QED  BY <2>2, Zenon DEF Asked, Leading, asked, cfg, req
<1>3. Hoisted(req) = Instructed
  BY <1>1, <1>2, Zenon DEF Hoisted, Gathered, Instructed, OfRole, Those, FlatMap, Each
<1> DEFINE typed == Typed(d, [req EXCEPT !.knobs = @ ++ [stream |-> FALSE]])
           fields == IF d = "claude" THEN typed ELSE FoldExtra(typed, req.extra)
           plain == [system |-> System(d, req), messages |-> Messages(d, req), tools |-> Tools(d, req),
                     choice |-> Choice(d, req), parallel |-> Parallel(d, req), marks |-> Unmarked,
                     fields |-> fields]
<1>4. wire = Marked(d, plain)
  BY Zenon DEF Encode, Spelled
<1>5. /\ plain.system = Hoisted(req) /\ plain.tools = req.tools
      /\ {"system", "tools", "messages", "marks"} \subseteq DOMAIN plain
  BY DEF System, Tools
<1> HIDE DEF plain
<1>6. /\ wire.system = plain.system /\ wire.tools = plain.tools /\ wire.messages = plain.messages
      /\ wire.marks = [head |-> HeadMark(plain), turns |-> ConversationMarks(plain.messages)]
  BY <1>4, <1>5 DEF Marked
<1>7. HeadMark(plain) = HeadMark(wire)
  BY <1>6, Zenon DEF HeadMark
<1>8. /\ DOMAIN wire.messages = DOMAIN turns /\ turns \in Seq(TurnedMessages)
      /\ wire.messages = [n \in DOMAIN turns |-> MessagesTurn(turns[n])]
  BY WireTurnsAre
<1> HIDE DEF wire, turns, req
<1>9. DOMAIN turns = 1..Len(turns)
  BY <1>8
<1>10. wire.messages = [n \in 1..Len(turns) |-> MessagesTurn(turns[n])]
  BY <1>8, <1>9
<1>11. wire.system = Instructed /\ wire.tools = body.tools
  BY <1>1, <1>3, <1>5, <1>6
<1>12. wire.marks = [head |-> HeadMark(wire), turns |-> ConversationMarks(wire.messages)]
  BY <1>6, <1>7
<1> QED  BY <1>8, <1>10, <1>11, <1>12 DEF wire, turns, req

LEMMA WrittenTurns ==
    ASSUME NEW m \in Messages1
    PROVE  MessagesTurn(m) \in TalkOf(AllBlocks)
<1>1. Makes(MessagesBlocks, AllBlocks, AllBlocks)
  <2>1. "ToolUse" \in {"ToolUse", "ToolResult"} /\ <<>> \in Seq(AllBlocks)
    OBVIOUS
  <2> QED  BY <2>1, BlocksKept
<1>2. m.content \in Seq(AllBlocks) /\ m.role \in Roles
  BY DEF Messages1
<1>3. FlatMap(MessagesBlock, m.content) = Mapped(m.content, MessagesBlocks)
  BY <1>2, BlocksAre
<1>4. Mapped(m.content, MessagesBlocks) \in Seq(AllBlocks)
  BY <1>1, <1>2, MappedType
<1>5. Side(m.role) \in {"user", "assistant"}
  BY DEF Side
<1> DEFINE content == FlatMap(MessagesBlock, m.content)
           role == Side(m.role)
<1>6. content \in Seq(AllBlocks)
  BY <1>3, <1>4
<1>7. MessagesTurn(m) = [role |-> role, content |-> content]
  BY DEF MessagesTurn
<1> HIDE DEF content, role
<1>8. role \in {"user", "assistant"}
  BY <1>5 DEF role
<1> QED  BY <1>6, <1>7, <1>8 DEF TalkOf

\* A body goes on where one was that has marks.
Begins(b, system, tools, turns) ==
    b.marks.turns # {} =>
        /\ b.system = system /\ b.tools = tools
        /\ b.marks.turns = ConversationMarks(b.messages)
        /\ Len(b.messages) \in 0..Len(turns)
        /\ b.messages = [n \in 1..Len(b.messages) |-> MessagesTurn(turns[n])]

LEMMA BeginsMore ==
    ASSUME NEW S, NEW turns \in Seq(S), NEW m \in S, NEW system, NEW tools, NEW b,
           Begins(b, system, tools, turns)
    PROVE  Begins(b, system, tools, Append(turns, m))
<1> SUFFICES ASSUME b.marks.turns # {}
             PROVE  /\ Len(b.messages) \in 0..Len(Append(turns, m))
                    /\ b.messages = [n \in 1..Len(b.messages) |-> MessagesTurn(Append(turns, m)[n])]
  BY Zenon DEF Begins
<1> DEFINE l == Len(b.messages)
           all == Append(turns, m)
<1>1. l \in 0..Len(turns) /\ b.messages = [n \in 1..l |-> MessagesTurn(turns[n])]
  BY Zenon DEF Begins
<1> HIDE DEF l
<1>2. Len(all) = Len(turns) + 1 /\ Len(turns) \in Nat /\ \A n \in 1..l : all[n] = turns[n]
  BY <1>1
<1> HIDE DEF all
<1>3. \A n \in 1..l : MessagesTurn(all[n]) = MessagesTurn(turns[n])
  BY <1>2, Zenon
<1>4. b.messages = [n \in 1..l |-> MessagesTurn(all[n])]
  BY <1>1, <1>3, Zenon
<1>5. l \in 0..Len(all)
  BY <1>1, <1>2
<1> QED  BY <1>4, <1>5 DEF l, all

\* The body that Anthropic was sent before, if it has marks, is the beginning of what
\* it would be sent now.
PriorInv == Begins(prior, Instructed, body.tools, Turned(TheMessages))

LEMMA PassedBegins ==
    ASSUME ConversationInv, PriorInv
    PROVE  Begins(Passed, Instructed, body.tools, Turned(TheMessages))
<1>1. CASE ~(Went /\ sent.to = "anthropic")
  BY <1>1 DEF Passed, PriorInv
<1>2. CASE Went /\ sent.to = "anthropic"
  <2> DEFINE wire == Encode("anthropic", Asked("anthropic"))
             turns == Turned(TheMessages)
  <2>1. BodyInv /\ SentInv
    BY DEF ConversationInv
  <2>2. Passed = wire
    BY <1>2, <2>1 DEF Passed, SentInv, Went
  <2>3. /\ wire.system = Instructed /\ wire.tools = body.tools
        /\ turns \in Seq(TurnedMessages)
        /\ wire.messages = [n \in 1..Len(turns) |-> MessagesTurn(turns[n])]
        /\ wire.marks = [head |-> HeadMark(wire), turns |-> ConversationMarks(wire.messages)]
    BY <2>1, WireIs
  <2> HIDE DEF wire, turns
  <2>4. Len(turns) \in Nat
    BY <2>3
  <2>5. Len(wire.messages) = Len(turns)
    BY <2>3, <2>4
  <2>6. wire.marks.turns = ConversationMarks(wire.messages)
    BY <2>3
  <2>7. Begins(wire, Instructed, body.tools, turns)
    BY <2>3, <2>4, <2>5, <2>6 DEF Begins
  <2> QED  BY <2>2, <2>7 DEF turns
<1> QED  BY <1>1, <1>2

LEMMA GrowsKeeps ==
    ASSUME ConversationInv, PriorInv, Grows, prior' = Passed
    PROVE  PriorInv'
<1> DEFINE before == Turned(TheMessages)
           messages == TheMessages
           now == Instructed
           tools == body.tools
<1>1. PICK m \in TurnedMessages : TheMessages' = Append(messages, m)
  BY DEF Grows
<1>2. messages \in Seq(Messages1) /\ m \in Messages1 /\ m.role # "System"
  BY MessagesAre DEF ConversationInv, TurnedMessages, NotSystem
<1>3. Begins(Passed, now, tools, before)
  BY PassedBegins
<1>4. before = Turned(messages)
  OBVIOUS
<1>5. Instructed' = now
  <2>1. Gathered(Append(messages, m)) = Gathered(messages)
    <3> HIDE DEF messages
    <3> QED  BY <1>2, GatheredStays
  <2>2. Gathered(TheMessages') = Gathered(messages)
    BY <1>1, <2>1, Zenon
  <2>3. Leading' = Leading /\ Config("anthropic")' = Config("anthropic")
    BY DEF Grows, Stays, Config
  <2>4. Instructed' = Heading(Leading', Config("anthropic")') \o Gathered(TheMessages')
    BY Zenon DEF Instructed, Heading, Gathered, FlatMap, OfRole, Those, Each
  <2> QED  BY <2>2, <2>3, <2>4, Zenon DEF Instructed
<1>6. body'.tools = tools
  BY DEF Grows, Stays
<1> HIDE DEF messages, before, now, tools
<1>7. Turned(messages) \in Seq(TurnedMessages) /\ Turned(Append(messages, m)) = Append(Turned(messages), m)
  BY <1>2, TurnedAppend
<1> DEFINE after == Append(before, m)
<1>8. Begins(Passed, now, tools, after)
  <2>1. before \in Seq(TurnedMessages)
    BY <1>4, <1>7
  <2> QED  BY <1>3, <2>1, BeginsMore
<1>9. Turned(TheMessages') = after
  BY <1>1, <1>4, <1>7, Zenon
<1> HIDE DEF after
<1>10. PriorInv' <=> Begins(prior', Instructed', body'.tools, Turned(TheMessages'))
  BY Zenon DEF PriorInv, Begins, Turned, NotSystem, Those, FlatMap, Each
<1> QED  BY <1>5, <1>6, <1>8, <1>9, <1>10, Zenon

\* What Anthropic was sent before stays the beginning of what it is sent: no decoder or
\* encoder rewrites what is already said (Prepared, Decode and messages_value).
THEOREM PriorBegins == Spec => [](ConversationInv /\ PriorInv)
<1>1. Init => PriorInv
  BY DEF Init, None, Unmarked, PriorInv, Begins
<1>2. ConversationInv /\ PriorInv /\ [Next]_vars => PriorInv'
  <2> SUFFICES ASSUME ConversationInv, PriorInv, [Next]_vars PROVE PriorInv'
    OBVIOUS
  <2>1. CASE Say
    BY <2>1, SayKeeps, GrowsKeeps DEF Say
  <2>2. CASE Instruct
    BY <2>2 DEF Instruct, None, Unmarked, PriorInv, Begins
  <2>3. CASE \E d \in Play.to : Send(d)
    <3>1. UNCHANGED <<scene, row, body, said, answers>> /\ prior' = Passed
      BY <2>3 DEF Send
    <3>2. TheMessages' = TheMessages
      BY <3>1, Unmoved
    <3>3. Instructed' = Instructed
      <4>1. Leading' = Leading /\ Config("anthropic")' = Config("anthropic")
        BY <3>1 DEF Leading, Config, Client, Play
      <4> QED  BY <3>2, <4>1, Zenon DEF Instructed
    <3>4. Begins(Passed, Instructed, body.tools, Turned(TheMessages))
      BY PassedBegins
    <3>5. Turned(TheMessages)' = Turned(TheMessages) /\ body'.tools = body.tools
      BY <3>1, <3>2, Zenon
    <3> QED  BY <3>1, <3>3, <3>4, <3>5, Zenon DEF PriorInv
  <2>4. CASE Answer
    BY <2>4, AnswerKeeps, GrowsKeeps DEF Answer
  <2>5. CASE Return
    BY <2>5, ReturnKeeps, GrowsKeeps DEF Return
  <2>6. CASE UNCHANGED vars
    <3>1. UNCHANGED <<scene, row, body, said, answers>> /\ prior' = prior
      BY <2>6 DEF vars
    <3>2. TheMessages' = TheMessages
      BY <3>1, Unmoved
    <3>3. Instructed' = Instructed
      <4>1. Leading' = Leading /\ Config("anthropic")' = Config("anthropic")
        BY <3>1 DEF Leading, Config, Client, Play
      <4> QED  BY <3>2, <4>1, Zenon DEF Instructed
    <3>5. Turned(TheMessages)' = Turned(TheMessages) /\ body'.tools = body.tools
      BY <3>1, <3>2, Zenon
    <3> QED  BY <3>1, <3>3, <3>5, Zenon DEF PriorInv
  <2> QED  BY <2>1, <2>2, <2>3, <2>4, <2>5, <2>6 DEF Next
<1>3. Spec => []ConversationInv
  BY ConversationHolds
<1> QED  BY <1>1, <1>2, <1>3, PTL DEF Spec

LEMMA PlacesStay ==
    ASSUME NEW B, NEW turns \in Seq(TalkOf(B)), NEW before \in Seq(TalkOf(B)),
           Len(before) <= Len(turns), \A m \in 1..Len(before) : before[m] = turns[m],
           NEW p \in Places(before)
    PROVE  p \in Places(turns) /\ turns[p[1]].content[p[2]] = before[p[1]].content[p[2]]
<1>1. p \in SpanPlaces(before, Len(before)) /\ before[p[1]].content[p[2]].type \notin Thoughts
  BY PlacesAre
<1>2. p[1] \in 1..Len(before) /\ p[1] \in 1..Len(turns) /\ before[p[1]] = turns[p[1]]
  <2>1. Len(before) \in Nat /\ Len(turns) \in Nat
    OBVIOUS
  <2> QED  BY <1>1, <2>1 DEF SpanPlaces
<1>3. p \in SpanPlaces(turns, Len(turns)) /\ turns[p[1]].content[p[2]].type \notin Thoughts
  BY <1>1, <1>2 DEF SpanPlaces
<1>4. p \in Places(turns)
  BY <1>3, PlacesAre
<1> QED  BY <1>2, <1>4

\* What Anthropic was asked to cache it finds again: each body that it is sent begins with
\* the last that had marks, and as long as the conversation has grown by no more than two
\* lookbacks a mark is within one of the last place marked (conversation_marks, and the
\* encoder and the ingress folds, which rewrite nothing that is already said).
THEOREM CacheIsFoundAgain == Spec => []CacheStaysWarm
<1>1. ConversationInv /\ PriorInv => CacheStaysWarm
  <2> SUFFICES ASSUME ConversationInv, PriorInv, Went, sent.to = "anthropic" PROVE CacheStaysWarm
    BY DEF CacheStaysWarm
  <2> DEFINE wire == sent.wire
             those == Turned(TheMessages)
             turns == wire.messages
             now == Instructed
  <2>1. BodyInv /\ SentInv
    BY DEF ConversationInv
  <2>2. wire = Encode("anthropic", Asked("anthropic"))
    BY <2>1 DEF SentInv, Went
  <2>3. /\ wire.system = now /\ wire.tools = body.tools
        /\ those \in Seq(TurnedMessages)
        /\ wire.messages = [n \in 1..Len(those) |-> MessagesTurn(those[n])]
        /\ wire.marks = [head |-> HeadMark(wire), turns |-> ConversationMarks(wire.messages)]
    BY <2>1, <2>2, WireIs
  <2>4. Begins(prior, now, body.tools, those)
    BY DEF PriorInv
  <2> HIDE DEF wire, those, now, turns
  <2>5. \A n \in 1..Len(those) : MessagesTurn(those[n]) \in TalkOf(AllBlocks)
    <3>1. \A n \in 1..Len(those) : those[n] \in Messages1
      BY <2>3 DEF TurnedMessages
    <3> QED  BY <3>1, WrittenTurns
  <2>6. /\ turns \in Seq(TalkOf(AllBlocks)) /\ Len(turns) = Len(those) /\ Len(those) \in Nat
        /\ \A n \in 1..Len(those) : turns[n] = MessagesTurn(those[n])
    BY <2>3, <2>5 DEF turns
  <2>7. MarksAreAtBlocks
    <3>1. sent.wire.marks.head = HeadMark(wire) /\ sent.wire.marks.turns = ConversationMarks(turns)
      BY <2>3 DEF wire, turns
    <3>2. /\ HeadMark(wire) = "system" => wire.system # <<>>
          /\ HeadMark(wire) = "tools" => wire.tools # <<>>
      BY DEF HeadMark
    <3>3. ConversationMarks(turns) \subseteq Places(turns)
      <4> DEFINE e == Eligible(turns)
      <4>1. ConversationMarks(turns) \subseteq Theirs(turns)
        BY <2>6, MarksAre
      <4> QED  BY <4>1 DEF Theirs
    <3> QED  BY <3>1, <3>2, <3>3 DEF MarksAreAtBlocks, wire, turns
  <2>8. ASSUME prior.marks.turns # {}
        PROVE  LET cut == Last(prior.marks.turns)
               IN  /\ wire.system = prior.system /\ wire.tools = prior.tools
                   /\ \A p \in Places(prior.messages) :
                          p \in Places(turns)
                          /\ turns[p[1]].content[p[2]] = prior.messages[p[1]].content[p[2]]
                   /\ Distance(turns, cut, Last(Theirs(turns))) <= 2 * Lookback =>
                          \E p \in wire.marks.turns :
                              ~After(p, cut) /\ Distance(turns, cut, p) <= Lookback
    <3> DEFINE before == prior.messages
    <3>1. /\ prior.system = now /\ prior.tools = body.tools
          /\ prior.marks.turns = ConversationMarks(before)
          /\ Len(before) \in 0..Len(those)
          /\ before = [n \in 1..Len(before) |-> MessagesTurn(those[n])]
      BY <2>4, <2>8, Zenon DEF Begins
    <3> HIDE DEF before
    <3>2. /\ Len(before) <= Len(turns)
          /\ \A n \in 1..Len(before) : before[n] = turns[n]
          /\ before \in Seq(TalkOf(AllBlocks))
      <4> DEFINE l == Len(before)
      <4>1. l \in 0..Len(those) /\ before = [n \in 1..l |-> MessagesTurn(those[n])]
        BY <3>1
      <4> HIDE DEF l
      <4>2. \A n \in 1..l : n \in 1..Len(those)
        BY <2>6, <4>1
      <4>3. \A n \in 1..l : before[n] = turns[n] /\ before[n] \in TalkOf(AllBlocks)
        BY <2>5, <2>6, <4>1, <4>2
      <4>4. before \in Seq(TalkOf(AllBlocks))
        BY <2>6, <4>1, <4>3
      <4> QED  BY <2>6, <4>1, <4>3, <4>4 DEF l
    <3>3. ConversationMarks(before) # {}
      BY <2>8, <3>1
    <3>4. LET cut == Last(ConversationMarks(before))
          IN  Distance(turns, cut, Last(Theirs(turns))) <= 2 * Lookback =>
                  \E p \in ConversationMarks(turns) :
                      ~After(p, cut) /\ Distance(turns, cut, p) <= Lookback
      BY <2>6, <3>2, <3>3, MarksStayNear
    <3>5. \A p \in Places(before) : p \in Places(turns) /\ turns[p[1]].content[p[2]] = before[p[1]].content[p[2]]
      BY <2>6, <3>2, PlacesStay
    <3>6. wire.marks.turns = ConversationMarks(turns)
      BY <2>3 DEF turns
    <3>7. wire.system = prior.system /\ wire.tools = prior.tools
      BY <2>3, <3>1
    <3> QED  BY <3>1, <3>4, <3>5, <3>6, <3>7, Zenon DEF before
  <2>9. Theirs(turns) = {p \in Places(turns) : \E m \in p[1]..Len(turns) : turns[m].role # "assistant"}
    BY Zenon DEF Theirs
  <2> QED  BY <2>7, <2>8, <2>9, Zenon DEF CacheStaysWarm, wire, turns
<1> QED  BY <1>1, PriorBegins, PTL

(***************************************************************************)
(* What becomes of a request on its way to an encoder: its knobs, what it  *)
(* passes through, and the fields both are written to.                     *)
(***************************************************************************)
\* Where a knob is written.
Slotted(s) ==
    /\ \A j, k \in DOMAIN s : s[j] = s[k] => j = k
    /\ \A k \in DOMAIN s : Len(s[k]) \in 1..2

LEMMA SlotsOpenAi == \A reasons \in BOOLEAN : Slotted(OpenAiSlots(reasons))
BY DEF OpenAiSlots, Slotted

LEMMA SlotsAnthropic == Slotted(AnthropicSlots)
BY DEF AnthropicSlots, Slotted

LEMMA SlotsGenai == Slotted(GenaiSlots)
BY DEF GenaiSlots, Slotted

LEMMA SlotsResponses == Slotted(ResponsesSlots)
BY DEF ResponsesSlots, Slotted

LEMMA SlotsOllama == Slotted(OllamaSlots)
BY DEF OllamaSlots, Slotted

LEMMA SlotsSlotted == \A d \in Dialects, reasons \in BOOLEAN : Slotted(Slots(d, reasons))
<1>1. Slotted([reasoning |-> <<"--effort">>])
  BY DEF Slotted
<1> QED  BY <1>1, SlotsOpenAi, SlotsAnthropic, SlotsGenai, SlotsResponses, SlotsOllama DEF Slots, Dialects

\* What a knob writes beside its field has no knob's name.
Beside ==
    {<<"stream_options", "include_usage">>, <<"reasoning", "summary">>, <<"include">>, <<"thinking", "type">>}

LEMMA CompanionsAre == \A d \in Dialects : \A req : Companions(d, req) \subseteq Beside
BY DEF Companions, Beside, Dialects

LEMMA SlotsApart ==
    \A d \in Dialects, reasons \in BOOLEAN : \A k \in DOMAIN Slots(d, reasons) : Slots(d, reasons)[k] \notin Beside
<1>1. \A reasons \in BOOLEAN : \A k \in DOMAIN OpenAiSlots(reasons) : OpenAiSlots(reasons)[k] \notin Beside
  BY DEF OpenAiSlots, Beside
<1>2. \A k \in DOMAIN AnthropicSlots : AnthropicSlots[k] \notin Beside
  BY DEF AnthropicSlots, Beside
<1>3. \A k \in DOMAIN GenaiSlots : GenaiSlots[k] \notin Beside
  BY DEF GenaiSlots, Beside
<1>4. \A k \in DOMAIN ResponsesSlots : ResponsesSlots[k] \notin Beside
  BY DEF ResponsesSlots, Beside
<1>5. \A k \in DOMAIN OllamaSlots : OllamaSlots[k] \notin Beside
  BY DEF OllamaSlots, Beside
<1>6. LET s == [reasoning |-> <<"--effort">>] IN \A k \in DOMAIN s : s[k] \notin Beside
  BY DEF Beside
<1> QED  BY <1>1, <1>2, <1>3, <1>4, <1>5, <1>6 DEF Slots, Dialects

LEMMA SlotsAlike ==
    \A d \in Dialects :
        /\ DOMAIN Slots(d, TRUE) = DOMAIN Slots(d, FALSE)
        /\ DOMAIN Slots(d, TRUE) \subseteq Knobs \cup {"stream"}
        /\ \A k \in DOMAIN Slots(d, TRUE) : k # "max_tokens" => Slots(d, TRUE)[k] = Slots(d, FALSE)[k]
        /\ d # "openai" => Slots(d, TRUE) = Slots(d, FALSE)
<1>1. /\ DOMAIN OpenAiSlots(TRUE) = DOMAIN OpenAiSlots(FALSE)
      /\ DOMAIN OpenAiSlots(TRUE) \subseteq Knobs \cup {"stream"}
      /\ \A k \in DOMAIN OpenAiSlots(TRUE) : k # "max_tokens" => OpenAiSlots(TRUE)[k] = OpenAiSlots(FALSE)[k]
  BY DEF OpenAiSlots, Knobs
<1>2. DOMAIN AnthropicSlots \subseteq Knobs \cup {"stream"}
  BY DEF AnthropicSlots, Knobs
<1>3. DOMAIN GenaiSlots \subseteq Knobs \cup {"stream"}
  BY DEF GenaiSlots, Knobs
<1>4. DOMAIN ResponsesSlots \subseteq Knobs \cup {"stream"}
  BY DEF ResponsesSlots, Knobs
<1>5. DOMAIN OllamaSlots \subseteq Knobs \cup {"stream"}
  BY DEF OllamaSlots, Knobs
<1>6. DOMAIN [reasoning |-> <<"--effort">>] \subseteq Knobs \cup {"stream"}
  BY DEF Knobs
<1> QED  BY <1>1, <1>2, <1>3, <1>4, <1>5, <1>6 DEF Slots, Dialects

\* The fields that an encoder writes.
LEMMA TypedIs ==
    ASSUME NEW d \in Dialects, NEW req
    PROVE  LET s == Slots(d, Sets(req, "reasoning"))
               spoken == Spoken(d, req) \cap DOMAIN s
           IN  /\ DOMAIN Typed(d, req) = {s[k] : k \in spoken} \cup Companions(d, req)
               /\ \A k \in spoken : Typed(d, req)[s[k]] = Value(d, k, req.knobs[k])
               /\ \A p \in Companions(d, req) : Typed(d, req)[p] = "set"
               /\ \A p \in DOMAIN Typed(d, req) : Len(p) \in 1..2
<1> DEFINE s == Slots(d, Sets(req, "reasoning"))
           spoken == Spoken(d, req) \cap DOMAIN s
           named == {s[k] : k \in spoken}
           own == [p \in named |-> LET k == CHOOSE k \in spoken : s[k] = p IN Value(d, k, req.knobs[k])]
           more == [p \in Companions(d, req) |-> "set"]
<1>1. Sets(req, "reasoning") \in BOOLEAN
  BY DEF Sets
<1>2. Slotted(s) /\ \A k \in DOMAIN s : s[k] \notin Beside
  BY <1>1, SlotsSlotted, SlotsApart
<1>3. Companions(d, req) \subseteq Beside
  BY CompanionsAre
<1>4. Typed(d, req) = own ++ more
  BY Zenon DEF Typed
<1>5. DOMAIN own = named /\ DOMAIN more = Companions(d, req)
  OBVIOUS
<1>6. \A k \in spoken : own[s[k]] = Value(d, k, req.knobs[k])
  <2> SUFFICES ASSUME NEW k \in spoken PROVE own[s[k]] = Value(d, k, req.knobs[k])
    OBVIOUS
  <2> DEFINE j == CHOOSE j \in spoken : s[j] = s[k]
  <2>1. j = k
    BY <1>2, Zenon DEF Slotted
  <2>2. s[k] \in named
    OBVIOUS
  <2>3. own[s[k]] = Value(d, j, req.knobs[j])
    BY <2>2, Zenon
  <2> QED  BY <2>1, <2>3, Zenon
<1>7. \A p \in named : p \notin Companions(d, req)
  BY <1>2, <1>3
<1>8. \A p \in Beside : Len(p) \in 1..2
  BY DEF Beside
<1>9. \A p \in named : Len(p) \in 1..2
  BY <1>2 DEF Slotted
<1>10. \A k \in spoken : s[k] \in named
  OBVIOUS
<1>11. \A p \in Companions(d, req) : more[p] = "set"
  OBVIOUS
<1> HIDE DEF own, more, named
<1>12. /\ DOMAIN (own ++ more) = named \cup Companions(d, req)
       /\ \A p \in named : (own ++ more)[p] = own[p]
       /\ \A p \in Companions(d, req) : p \notin named => (own ++ more)[p] = more[p]
  BY <1>5 DEF ++
<1>13. \A p \in named \cup Companions(d, req) : Len(p) \in 1..2
  BY <1>3, <1>8, <1>9
<1> HIDE DEF s, spoken
<1>14. /\ DOMAIN Typed(d, req) = named \cup Companions(d, req)
       /\ \A k \in spoken : Typed(d, req)[s[k]] = Value(d, k, req.knobs[k])
       /\ \A p \in Companions(d, req) : Typed(d, req)[p] = "set"
       /\ \A p \in DOMAIN Typed(d, req) : Len(p) \in 1..2
  BY <1>4, <1>6, <1>7, <1>10, <1>11, <1>12, <1>13
<1> QED  BY <1>14, Zenon DEF s, spoken, named

\* What is passed through is added where it is not in the way.
InTheWay(p, fields) == \E q \in DOMAIN fields : q[1] = p[1] /\ ~(Len(p) = 2 /\ Len(q) = 2)

LEMMA FoldedIs ==
    ASSUME NEW fields, NEW extra
    PROVE  LET all == FoldExtra(fields, extra)
           IN  /\ DOMAIN all = DOMAIN fields \cup {p \in DOMAIN extra : ~InTheWay(p, fields)}
               /\ \A p \in DOMAIN fields : all[p] = fields[p]
               /\ \A p \in DOMAIN extra : p \notin DOMAIN fields /\ ~InTheWay(p, fields) => all[p] = extra[p]
<1> DEFINE free == {p \in DOMAIN extra : ~InTheWay(p, fields)}
           more == [p \in free |-> extra[p]]
<1>1. free = {p \in DOMAIN extra : \A q \in DOMAIN fields : q[1] = p[1] => Len(p) = 2 /\ Len(q) = 2}
  BY DEF InTheWay
<1> HIDE DEF free
<1>2. FoldExtra(fields, extra) = fields ++ more
  BY <1>1, Zenon DEF FoldExtra
<1>3. DOMAIN more = free /\ \A p \in free : more[p] = extra[p]
  OBVIOUS
<1> HIDE DEF more
<1>4. /\ DOMAIN (fields ++ more) = DOMAIN fields \cup free
      /\ \A p \in DOMAIN fields : (fields ++ more)[p] = fields[p]
      /\ \A p \in free : p \notin DOMAIN fields => (fields ++ more)[p] = extra[p]
  BY <1>3 DEF ++
<1> QED  BY <1>2, <1>4 DEF free

(* Preparing. *)
IsFunction(f) == f = [x \in DOMAIN f |-> f[x]]

LEMMA OverIs ==
    ASSUME NEW f, NEW g
    PROVE  /\ DOMAIN (f ++ g) = DOMAIN f \cup DOMAIN g /\ IsFunction(f ++ g)
           /\ \A x \in DOMAIN f : (f ++ g)[x] = f[x]
           /\ \A x \in DOMAIN g : x \notin DOMAIN f => (f ++ g)[x] = g[x]
BY DEF ++, IsFunction

\* What the caller sets stays, and what the row sets is there where the caller sets nothing.
LEMMA FilledIs ==
    ASSUME NEW req, NEW cfg, {"system", "knobs", "extra"} \subseteq DOMAIN req
    PROVE  LET r == FillAbsent(req, cfg)
           IN  /\ DOMAIN r = DOMAIN req
               /\ \A f \in DOMAIN req \ {"system", "knobs", "extra"} : r[f] = req[f]
               /\ DOMAIN r.knobs = DOMAIN req.knobs \cup DOMAIN cfg.knobs \cup {"stream"}
               /\ \A k \in DOMAIN req.knobs : r.knobs[k] = req.knobs[k]
               /\ \A k \in DOMAIN cfg.knobs : k \notin DOMAIN req.knobs => r.knobs[k] = cfg.knobs[k]
               /\ DOMAIN req.extra \subseteq DOMAIN r.extra
               /\ DOMAIN r.extra \subseteq DOMAIN req.extra \cup DOMAIN cfg.extra
<1> DEFINE taken == {p[1] : p \in DOMAIN req.extra}
           passed == {p \in DOMAIN cfg.extra : p[1] \notin taken}
           knobs == req.knobs ++ cfg.knobs ++ [stream |-> TRUE]
           more == [p \in passed |-> cfg.extra[p]]
           extra == req.extra ++ more
           system == IF req.system = <<>> THEN cfg.system ELSE req.system
           r == FillAbsent(req, cfg)
<1>1. r = [req EXCEPT !.knobs = knobs, !.system = system, !.extra = extra]
  BY Zenon DEF FillAbsent
<1>2. /\ DOMAIN (req.knobs ++ cfg.knobs) = DOMAIN req.knobs \cup DOMAIN cfg.knobs
      /\ \A k \in DOMAIN req.knobs : (req.knobs ++ cfg.knobs)[k] = req.knobs[k]
      /\ \A k \in DOMAIN cfg.knobs : k \notin DOMAIN req.knobs => (req.knobs ++ cfg.knobs)[k] = cfg.knobs[k]
  BY OverIs
<1>3. /\ DOMAIN knobs = DOMAIN (req.knobs ++ cfg.knobs) \cup DOMAIN [stream |-> TRUE]
      /\ \A k \in DOMAIN (req.knobs ++ cfg.knobs) : knobs[k] = (req.knobs ++ cfg.knobs)[k]
  BY OverIs
<1>4. DOMAIN [stream |-> TRUE] = {"stream"}
  OBVIOUS
<1>5. DOMAIN req.extra \subseteq DOMAIN extra /\ DOMAIN extra \subseteq DOMAIN req.extra \cup DOMAIN cfg.extra
  <2>2. DOMAIN more \subseteq DOMAIN cfg.extra
    OBVIOUS
  <2> HIDE DEF more
  <2>1. DOMAIN extra = DOMAIN req.extra \cup DOMAIN more
    BY OverIs
  <2> QED  BY <2>1, <2>2
<1> HIDE DEF knobs, extra, system
<1>6. /\ DOMAIN r = DOMAIN req /\ r.knobs = knobs /\ r.extra = extra
      /\ \A f \in DOMAIN req \ {"system", "knobs", "extra"} : r[f] = req[f]
  BY <1>1
<1> HIDE DEF r
<1>7. /\ DOMAIN r.knobs = DOMAIN req.knobs \cup DOMAIN cfg.knobs \cup {"stream"}
      /\ \A k \in DOMAIN req.knobs : r.knobs[k] = req.knobs[k]
      /\ \A k \in DOMAIN cfg.knobs : k \notin DOMAIN req.knobs => r.knobs[k] = cfg.knobs[k]
  BY <1>2, <1>3, <1>4, <1>6
<1> QED  BY <1>5, <1>6, <1>7 DEF r

\* What the row does not support is gone.
LEMMA StrippedIs ==
    ASSUME NEW req, NEW cfg, {"knobs", "extra"} \subseteq DOMAIN req
    PROVE  LET r == StripUnsupported(req, cfg)
           IN  /\ DOMAIN r = DOMAIN req
               /\ \A f \in DOMAIN req \ {"knobs", "extra"} : r[f] = req[f]
               /\ DOMAIN r.knobs = DOMAIN req.knobs \ (cfg.unsupported \cap Knobs) /\ IsFunction(r.knobs)
               /\ \A k \in DOMAIN r.knobs : r.knobs[k] = req.knobs[k]
               /\ DOMAIN r.extra = {p \in DOMAIN req.extra : p[1] \notin cfg.unsupported \ Knobs}
<1> DEFINE off == cfg.unsupported \cap Knobs
           stay == {p \in DOMAIN req.extra : p[1] \notin cfg.unsupported \ Knobs}
           knobs == [k \in DOMAIN req.knobs \ off |-> req.knobs[k]]
           extra == [p \in stay |-> req.extra[p]]
           r == StripUnsupported(req, cfg)
<1>1. r = [req EXCEPT !.knobs = knobs, !.extra = extra]
  BY Zenon DEF StripUnsupported
<1>2. /\ DOMAIN knobs = DOMAIN req.knobs \ off /\ IsFunction(knobs)
      /\ \A k \in DOMAIN knobs : knobs[k] = req.knobs[k]
      /\ DOMAIN extra = stay
  BY DEF IsFunction
<1> HIDE DEF knobs, extra, off, stay
<1>3. /\ DOMAIN r = DOMAIN req /\ r.knobs = knobs /\ r.extra = extra
      /\ \A f \in DOMAIN req \ {"knobs", "extra"} : r[f] = req[f]
  BY <1>1
<1> HIDE DEF r
<1>4. /\ DOMAIN r.knobs = DOMAIN req.knobs \ off /\ IsFunction(r.knobs)
      /\ \A k \in DOMAIN r.knobs : r.knobs[k] = req.knobs[k]
      /\ DOMAIN r.extra = stay
  BY <1>2, <1>3, Zenon
<1> QED  BY <1>3, <1>4 DEF r, off, stay

LEMMA LedIs ==
    ASSUME NEW req, NEW cfg, "system" \in DOMAIN req
    PROVE  LET r == LeadWithPreamble(req, cfg)
           IN  DOMAIN r = DOMAIN req /\ \A f \in DOMAIN req \ {"system"} : r[f] = req[f]
BY DEF LeadWithPreamble

LEMMA ToCountIs ==
    ASSUME NEW req, NEW cfg, {"system", "knobs", "extra"} \subseteq DOMAIN req
    PROVE  LET r == PreparedToCount(req, cfg)
               off == cfg.unsupported \cap Knobs
           IN  /\ DOMAIN r = DOMAIN req
               /\ \A f \in DOMAIN req \ {"system", "knobs", "extra"} : r[f] = req[f]
               /\ DOMAIN r.knobs = (DOMAIN req.knobs \cup DOMAIN cfg.knobs \cup {"stream"}) \ off
               /\ IsFunction(r.knobs)
               /\ \A k \in DOMAIN r.knobs : k \in DOMAIN req.knobs => r.knobs[k] = req.knobs[k]
               /\ \A k \in DOMAIN r.knobs :
                      k \in DOMAIN cfg.knobs /\ k \notin DOMAIN req.knobs => r.knobs[k] = cfg.knobs[k]
               /\ \A p \in DOMAIN r.extra : p[1] \notin cfg.unsupported \ Knobs
               /\ \A p \in DOMAIN req.extra : p[1] \notin cfg.unsupported => p \in DOMAIN r.extra
               /\ DOMAIN r.extra \subseteq DOMAIN req.extra \cup DOMAIN cfg.extra
<1> DEFINE a == FillAbsent(req, cfg)
           b == LeadWithPreamble(a, cfg)
           r == StripUnsupported(b, cfg)
           off == cfg.unsupported \cap Knobs
<1>1. /\ DOMAIN a = DOMAIN req
      /\ \A f \in DOMAIN req \ {"system", "knobs", "extra"} : a[f] = req[f]
      /\ DOMAIN a.knobs = DOMAIN req.knobs \cup DOMAIN cfg.knobs \cup {"stream"}
      /\ \A k \in DOMAIN req.knobs : a.knobs[k] = req.knobs[k]
      /\ \A k \in DOMAIN cfg.knobs : k \notin DOMAIN req.knobs => a.knobs[k] = cfg.knobs[k]
      /\ DOMAIN req.extra \subseteq DOMAIN a.extra
      /\ DOMAIN a.extra \subseteq DOMAIN req.extra \cup DOMAIN cfg.extra
  BY FilledIs
<1> HIDE DEF a
<1>2. DOMAIN b = DOMAIN a /\ \A f \in DOMAIN a \ {"system"} : b[f] = a[f]
  BY <1>1, LedIs
<1> HIDE DEF b
<1>3. /\ DOMAIN r = DOMAIN b
      /\ \A f \in DOMAIN b \ {"knobs", "extra"} : r[f] = b[f]
      /\ DOMAIN r.knobs = DOMAIN b.knobs \ off /\ IsFunction(r.knobs)
      /\ \A k \in DOMAIN r.knobs : r.knobs[k] = b.knobs[k]
      /\ DOMAIN r.extra = {p \in DOMAIN b.extra : p[1] \notin cfg.unsupported \ Knobs}
  BY <1>1, <1>2, StrippedIs
<1> HIDE DEF r
<1>4. b.knobs = a.knobs /\ b.extra = a.extra
  BY <1>1, <1>2
<1>5. PreparedToCount(req, cfg) = r
  BY Zenon DEF PreparedToCount, a, b, r
<1>6. \A f \in DOMAIN req \ {"system", "knobs", "extra"} : r[f] = req[f]
  BY <1>1, <1>2, <1>3
<1>7. /\ DOMAIN r.knobs = (DOMAIN req.knobs \cup DOMAIN cfg.knobs \cup {"stream"}) \ off
      /\ \A k \in DOMAIN r.knobs : k \in DOMAIN req.knobs => r.knobs[k] = req.knobs[k]
      /\ \A k \in DOMAIN r.knobs :
             k \in DOMAIN cfg.knobs /\ k \notin DOMAIN req.knobs => r.knobs[k] = cfg.knobs[k]
  BY <1>1, <1>3, <1>4
<1>8. /\ \A p \in DOMAIN r.extra : p[1] \notin cfg.unsupported \ Knobs
      /\ \A p \in DOMAIN req.extra : p[1] \notin cfg.unsupported => p \in DOMAIN r.extra
      /\ DOMAIN r.extra \subseteq DOMAIN req.extra \cup DOMAIN cfg.extra
  BY <1>1, <1>3, <1>4
<1>9. DOMAIN r = DOMAIN req /\ IsFunction(r.knobs)
  BY <1>1, <1>2, <1>3
<1> QED  BY <1>5, <1>6, <1>7, <1>8, <1>9 DEF off

\* A budget comes with a cap that has room for it.
Couples(r, cfg) ==
    Sets(r, "reasoning") /\ HasBudget(cfg.dialect) /\ (Sets(r, "max_tokens") \/ cfg.served # 0)

LEMMA CoupledIs ==
    ASSUME NEW req, NEW cfg, "knobs" \in DOMAIN req, IsFunction(req.knobs)
    PROVE  LET r == CoupleBudget(req, cfg)
               cap == IF Sets(req, "max_tokens") THEN req.knobs["max_tokens"] ELSE cfg.served
               least == Floor(req.knobs["reasoning"])
           IN  /\ ~Couples(req, cfg) => r = req
               /\ DOMAIN r = DOMAIN req /\ \A f \in DOMAIN req \ {"knobs"} : r[f] = req[f]
               /\ DOMAIN r.knobs = DOMAIN req.knobs \cup (IF Couples(req, cfg) THEN {"max_tokens"} ELSE {})
               /\ IsFunction(r.knobs)
               /\ \A k \in DOMAIN req.knobs : k # "max_tokens" => r.knobs[k] = req.knobs[k]
               /\ Couples(req, cfg) => r.knobs["max_tokens"] = IF cap > least THEN cap ELSE least
<1> DEFINE cap == IF Sets(req, "max_tokens") THEN req.knobs["max_tokens"] ELSE cfg.served
           least == Floor(req.knobs["reasoning"])
           most == IF cap > least THEN cap ELSE least
           capped == [max_tokens |-> most]
           knobs == capped ++ req.knobs
           r == CoupleBudget(req, cfg)
<1>1. r = IF Couples(req, cfg) THEN [req EXCEPT !.knobs = knobs] ELSE req
  BY Zenon DEF CoupleBudget, Couples
<1> HIDE DEF most
<1>2. DOMAIN capped = {"max_tokens"} /\ capped["max_tokens"] = most
  OBVIOUS
<1> HIDE DEF capped
<1>3. /\ DOMAIN knobs = {"max_tokens"} \cup DOMAIN req.knobs /\ IsFunction(knobs)
      /\ knobs["max_tokens"] = most
      /\ \A k \in DOMAIN req.knobs : k # "max_tokens" => knobs[k] = req.knobs[k]
  <2>1. /\ DOMAIN knobs = DOMAIN capped \cup DOMAIN req.knobs /\ IsFunction(knobs)
        /\ \A x \in DOMAIN capped : knobs[x] = capped[x]
        /\ \A x \in DOMAIN req.knobs : x \notin DOMAIN capped => knobs[x] = req.knobs[x]
    BY OverIs
  <2> QED  BY <1>2, <2>1
<1> HIDE DEF knobs
<1>4. CASE Couples(req, cfg)
  <2>1. /\ DOMAIN r = DOMAIN req /\ r.knobs = knobs
        /\ \A f \in DOMAIN req \ {"knobs"} : r[f] = req[f]
    BY <1>1, <1>4
  <2> HIDE DEF r
  <2>2. /\ DOMAIN r.knobs = DOMAIN req.knobs \cup (IF Couples(req, cfg) THEN {"max_tokens"} ELSE {})
        /\ IsFunction(r.knobs) /\ r.knobs["max_tokens"] = most
        /\ \A k \in DOMAIN req.knobs : k # "max_tokens" => r.knobs[k] = req.knobs[k]
    BY <1>3, <1>4, <2>1
  <2> QED  BY <1>4, <2>1, <2>2 DEF r, most
<1>5. CASE ~Couples(req, cfg)
  BY <1>1, <1>5
<1> QED  BY <1>4, <1>5

(* Fields. *)
LEMMA SlotsCross ==
    \A d \in Dialects, those, these \in BOOLEAN :
        \A j \in DOMAIN Slots(d, those), k \in DOMAIN Slots(d, these) :
            Slots(d, those)[j] = Slots(d, these)[k] => j = k
<1>1. \A those, these \in BOOLEAN :
          \A j \in DOMAIN OpenAiSlots(those), k \in DOMAIN OpenAiSlots(these) :
              OpenAiSlots(those)[j] = OpenAiSlots(these)[k] => j = k
  BY DEF OpenAiSlots
<1>2. \A d \in Dialects, those, these \in BOOLEAN :
          Slots(d, those) = IF d = "openai" THEN OpenAiSlots(those) ELSE Slots(d, these)
  BY DEF Slots, Dialects
<1>3. \A d \in Dialects, these \in BOOLEAN : Slotted(Slots(d, these))
  BY SlotsSlotted
<1>4. \A these \in BOOLEAN : Slots("openai", these) = OpenAiSlots(these)
  BY DEF Slots
<1> QED  BY <1>1, <1>2, <1>3, <1>4 DEF Slotted

TypedOf(d, slots, knobs, companions, values) ==
    LET spoken == knobs \cap DOMAIN slots
    IN  [p \in {slots[k] : k \in spoken} |->
            LET k == CHOOSE k \in spoken : slots[k] = p IN Value(d, k, values[k])]
        ++ [p \in companions |-> "set"]

LEMMA TypedSame ==
    ASSUME NEW d, NEW r, NEW req, r.knobs = req.knobs
    PROVE  Typed(d, r) = Typed(d, req)
<1>1. \A k : Sets(r, k) <=> Sets(req, k)
  BY DEF Sets
<1>2. Spoken(d, r) = Spoken(d, req)
  BY <1>1 DEF Spoken
<1>3. Companions(d, r) = Companions(d, req)
  BY <1>1, Zenon DEF Companions
<1>4. Slots(d, Sets(r, "reasoning")) = Slots(d, Sets(req, "reasoning"))
  BY Zenon DEF Sets
<1>5. \A x : Typed(d, x) = TypedOf(d, Slots(d, Sets(x, "reasoning")), Spoken(d, x), Companions(d, x), x.knobs)
  BY Zenon DEF Typed, TypedOf
<1> QED  BY <1>2, <1>3, <1>4, <1>5

\* What the encoder makes of a request that says whether to stream.
LEMMA FieldsAre ==
    ASSUME NEW d, NEW req, "knobs" \in DOMAIN req, "stream" \in DOMAIN req.knobs, IsFunction(req.knobs)
    PROVE  Encode(d, req).fields =
               IF d = "claude" THEN Typed(d, req) ELSE FoldExtra(Typed(d, req), req.extra)
<1> DEFINE added == [stream |-> FALSE]
           knobs == req.knobs ++ added
           r == [req EXCEPT !.knobs = knobs]
           typed == Typed(d, r)
           fields == IF d = "claude" THEN typed ELSE FoldExtra(typed, req.extra)
           plain == [system |-> System(d, req), messages |-> Messages(d, req), tools |-> Tools(d, req),
                     choice |-> Choice(d, req), parallel |-> Parallel(d, req), marks |-> Unmarked,
                     fields |-> fields]
<1>1. knobs = req.knobs
  <2>1. DOMAIN added = {"stream"}
    OBVIOUS
  <2> HIDE DEF added
  <2>6. /\ DOMAIN knobs = DOMAIN req.knobs \cup DOMAIN added /\ IsFunction(knobs)
        /\ \A x \in DOMAIN req.knobs : knobs[x] = req.knobs[x]
    BY OverIs
  <2> HIDE DEF knobs
  <2>2. DOMAIN knobs = DOMAIN req.knobs \cup {"stream"} /\ IsFunction(knobs)
    BY <2>1, <2>6
  <2>3. \A x \in DOMAIN req.knobs : knobs[x] = req.knobs[x]
    BY <2>6
  <2>4. DOMAIN knobs = DOMAIN req.knobs
    BY <2>2
  <2>5. [x \in DOMAIN knobs |-> knobs[x]] = [x \in DOMAIN req.knobs |-> req.knobs[x]]
    BY <2>3, <2>4, Zenon
  <2> QED  BY <2>2, <2>5, Zenon DEF IsFunction
<1> HIDE DEF knobs
<1>2. r.knobs = req.knobs
  BY <1>1
<1> HIDE DEF r
<1>3. typed = Typed(d, req)
  BY <1>2, TypedSame
<1>4. Encode(d, req) = Marked(d, plain)
  BY Zenon DEF Encode, Spelled, typed, r, knobs, added
<1>5. plain.fields = fields
  OBVIOUS
<1> HIDE DEF plain, fields
<1>6. Marked(d, plain).fields = plain.fields
  BY DEF Marked
<1> QED  BY <1>3, <1>4, <1>5, <1>6, Zenon DEF fields

\* A request that is prepared.
LEMMA PreparedIs ==
    ASSUME NEW req, NEW cfg, {"system", "knobs", "extra"} \subseteq DOMAIN req
    PROVE  LET r == PreparedToCount(req, cfg)
               p == Prepared(req, cfg)
               cap == IF Sets(r, "max_tokens") THEN r.knobs["max_tokens"] ELSE cfg.served
               least == Floor(r.knobs["reasoning"])
           IN  /\ ~Couples(r, cfg) => p = r
               /\ DOMAIN p = DOMAIN req /\ \A f \in DOMAIN req \ {"knobs"} : p[f] = r[f]
               /\ DOMAIN p.knobs = DOMAIN r.knobs \cup (IF Couples(r, cfg) THEN {"max_tokens"} ELSE {})
               /\ IsFunction(p.knobs) /\ "stream" \in DOMAIN p.knobs
               /\ \A k \in DOMAIN r.knobs : k # "max_tokens" => p.knobs[k] = r.knobs[k]
               /\ Couples(r, cfg) => p.knobs["max_tokens"] = IF cap > least THEN cap ELSE least
<1> DEFINE r == PreparedToCount(req, cfg)
           p == Prepared(req, cfg)
           cap == IF Sets(r, "max_tokens") THEN r.knobs["max_tokens"] ELSE cfg.served
           least == Floor(r.knobs["reasoning"])
<1>1. p = CoupleBudget(r, cfg)
  BY Zenon DEF Prepared
<1>2. /\ DOMAIN r = DOMAIN req /\ IsFunction(r.knobs)
      /\ DOMAIN r.knobs = (DOMAIN req.knobs \cup DOMAIN cfg.knobs \cup {"stream"}) \ (cfg.unsupported \cap Knobs)
  BY ToCountIs
<1>3. "stream" \in DOMAIN r.knobs
  BY <1>2 DEF Knobs
<1> HIDE DEF r
<1>4. /\ ~Couples(r, cfg) => p = r
      /\ DOMAIN p = DOMAIN r /\ \A f \in DOMAIN r \ {"knobs"} : p[f] = r[f]
      /\ DOMAIN p.knobs = DOMAIN r.knobs \cup (IF Couples(r, cfg) THEN {"max_tokens"} ELSE {})
      /\ IsFunction(p.knobs)
      /\ \A k \in DOMAIN r.knobs : k # "max_tokens" => p.knobs[k] = r.knobs[k]
      /\ Couples(r, cfg) => p.knobs["max_tokens"] = IF cap > least THEN cap ELSE least
  <2>1. "knobs" \in DOMAIN r
    BY <1>2
  <2>2. /\ ~Couples(r, cfg) => CoupleBudget(r, cfg) = r
        /\ DOMAIN CoupleBudget(r, cfg) = DOMAIN r
        /\ \A f \in DOMAIN r \ {"knobs"} : CoupleBudget(r, cfg)[f] = r[f]
        /\ DOMAIN CoupleBudget(r, cfg).knobs =
               DOMAIN r.knobs \cup (IF Couples(r, cfg) THEN {"max_tokens"} ELSE {})
        /\ IsFunction(CoupleBudget(r, cfg).knobs)
        /\ \A k \in DOMAIN r.knobs : k # "max_tokens" => CoupleBudget(r, cfg).knobs[k] = r.knobs[k]
        /\ Couples(r, cfg) => CoupleBudget(r, cfg).knobs["max_tokens"] = IF cap > least THEN cap ELSE least
    BY <1>2, <2>1, CoupledIs
  <2> QED  BY <1>1, <2>2, Zenon
<1> HIDE DEF p, cap, least
<1>5. "stream" \in DOMAIN p.knobs
  BY <1>3, <1>4
<1>6. DOMAIN p = DOMAIN req /\ \A f \in DOMAIN req \ {"knobs"} : p[f] = r[f]
  BY <1>2, <1>4
<1> QED  BY <1>4, <1>5, <1>6, Zenon DEF r, p, cap, least

(* Promises. *)
HasFields(req) == {"system", "knobs", "extra", "messages", "tools", "choice", "parallel"} \subseteq DOMAIN req

LEMMA BooleanSets == \A req, k : Sets(req, k) \in BOOLEAN
BY DEF Sets

\* What the row strips is no field, unless it is passed through or a knob's.
LEMMA StrippedIsOff ==
    ASSUME NEW d \in Dialects, NEW req, NEW cfg, HasFields(req), cfg.dialect = d, NEW k \in cfg.unsupported
    PROVE  LET p == Prepared(req, cfg)
               fields == Encode(d, p).fields
           IN  IF k \in Knobs
               THEN k \in DOMAIN Slots(d, FALSE) =>
                        \/ {Slots(d, FALSE)[k], Slots(d, TRUE)[k]} \cap DOMAIN fields \subseteq DOMAIN p.extra
                        \/ k = "max_tokens" /\ HasBudget(d) /\ Sets(p, "reasoning")
               ELSE \A q \in DOMAIN fields : q[1] = k => q \in DOMAIN Typed(d, p)
<1> DEFINE r == PreparedToCount(req, cfg)
           p == Prepared(req, cfg)
           fields == Encode(d, p).fields
           typed == Typed(d, p)
           s == Slots(d, Sets(p, "reasoning"))
           spoken == Spoken(d, p) \cap DOMAIN s
<1>1. {"system", "knobs", "extra"} \subseteq DOMAIN req
  BY DEF HasFields
<1>2. /\ DOMAIN r.knobs = (DOMAIN req.knobs \cup DOMAIN cfg.knobs \cup {"stream"}) \ (cfg.unsupported \cap Knobs)
      /\ \A q \in DOMAIN r.extra : q[1] \notin cfg.unsupported \ Knobs
  BY <1>1, ToCountIs
<1>3. /\ DOMAIN p = DOMAIN req /\ p.extra = r.extra
      /\ DOMAIN p.knobs = DOMAIN r.knobs \cup (IF Couples(r, cfg) THEN {"max_tokens"} ELSE {})
      /\ IsFunction(p.knobs) /\ "stream" \in DOMAIN p.knobs
  <2>1. /\ DOMAIN p = DOMAIN req /\ \A f \in DOMAIN req \ {"knobs"} : p[f] = r[f]
        /\ DOMAIN p.knobs = DOMAIN r.knobs \cup (IF Couples(r, cfg) THEN {"max_tokens"} ELSE {})
        /\ IsFunction(p.knobs) /\ "stream" \in DOMAIN p.knobs
    BY <1>1, PreparedIs
  <2> HIDE DEF p, r
  <2> QED  BY <1>1, <2>1
<1> HIDE DEF p, r
<1>4. fields = IF d = "claude" THEN typed ELSE FoldExtra(typed, p.extra)
  BY <1>1, <1>3, FieldsAre
<1>5. DOMAIN typed = {s[j] : j \in spoken} \cup Companions(d, p)
  BY TypedIs
<1> HIDE DEF fields, typed
<1>6. \A q \in DOMAIN fields : q \in DOMAIN typed \/ q \in DOMAIN p.extra
  <2>1. DOMAIN FoldExtra(typed, p.extra) = DOMAIN typed \cup {q \in DOMAIN p.extra : ~InTheWay(q, typed)}
    BY FoldedIs
  <2> QED  BY <1>4, <2>1
<1>7. CASE k \notin Knobs
  <2>1. \A q \in DOMAIN fields : q[1] = k => q \in DOMAIN typed
    BY <1>2, <1>3, <1>6, <1>7
  <2> QED  BY <1>7, <2>1 DEF p, fields, typed
<1>8. CASE k \in Knobs
  <2> SUFFICES ASSUME k \in DOMAIN Slots(d, FALSE),
                      ~(k = "max_tokens" /\ HasBudget(d) /\ Sets(p, "reasoning")),
                      NEW q \in {Slots(d, FALSE)[k], Slots(d, TRUE)[k]}, q \in DOMAIN fields
               PROVE  q \in DOMAIN p.extra
    BY <1>8 DEF p, fields
  <2>1. k \notin DOMAIN p.knobs
    <3>1. k \notin DOMAIN r.knobs
      BY <1>2, <1>8
    <3>2. Couples(r, cfg) => HasBudget(d) /\ Sets(p, "reasoning")
      BY <1>3 DEF Couples, Sets
    <3> QED  BY <1>3, <3>1, <3>2
  <2>2. k \notin spoken
    BY <2>1 DEF Spoken
  <2>3. k \in DOMAIN Slots(d, TRUE)
    BY SlotsAlike
  <2>4. Sets(p, "reasoning") \in BOOLEAN
    BY BooleanSets
  <2>5. \A j \in spoken : s[j] # q
    <3>1. PICK given \in BOOLEAN : q = Slots(d, given)[k] /\ k \in DOMAIN Slots(d, given)
      BY <2>3
    <3> SUFFICES ASSUME NEW j \in spoken, s[j] = q PROVE FALSE
      OBVIOUS
    <3>2. j \in DOMAIN s
      OBVIOUS
    <3>3. j = k
      BY <2>4, <3>1, <3>2, SlotsCross
    <3> QED  BY <2>2, <3>3
  <2>7. q \notin Companions(d, p)
    <3>1. q \notin Beside
      BY <2>3, SlotsApart
    <3> QED  BY <3>1, CompanionsAre
  <2>8. q \notin DOMAIN typed
    BY <1>5, <2>5, <2>7
  <2> QED  BY <1>6, <2>8
<1> QED  BY <1>7, <1>8

\* What is not passed through by the caller is on the wire from the encoder or the row.
LEMMA OthersAreAbsent ==
    ASSUME NEW d \in Dialects, NEW req, NEW cfg, HasFields(req), NEW key, Under(req.extra, key) = {}
    PROVE  LET p == Prepared(req, cfg)
           IN  \A q \in Under(Encode(d, p).fields, key) : q \in DOMAIN Typed(d, p) \cup DOMAIN cfg.extra
<1> DEFINE r == PreparedToCount(req, cfg)
           p == Prepared(req, cfg)
           fields == Encode(d, p).fields
           typed == Typed(d, p)
<1>1. {"system", "knobs", "extra"} \subseteq DOMAIN req
  BY DEF HasFields
<1>2. DOMAIN r.extra \subseteq DOMAIN req.extra \cup DOMAIN cfg.extra
  BY <1>1, ToCountIs
<1>3. p.extra = r.extra /\ DOMAIN p = DOMAIN req /\ IsFunction(p.knobs) /\ "stream" \in DOMAIN p.knobs
  <2>1. /\ DOMAIN p = DOMAIN req /\ \A f \in DOMAIN req \ {"knobs"} : p[f] = r[f]
        /\ IsFunction(p.knobs) /\ "stream" \in DOMAIN p.knobs
    BY <1>1, PreparedIs
  <2> HIDE DEF p, r
  <2> QED  BY <1>1, <2>1
<1> HIDE DEF p, r
<1>4. fields = IF d = "claude" THEN typed ELSE FoldExtra(typed, p.extra)
  BY <1>1, <1>3, FieldsAre
<1> HIDE DEF fields, typed
<1>5. DOMAIN fields \subseteq DOMAIN typed \cup DOMAIN p.extra
  <2>1. DOMAIN FoldExtra(typed, p.extra) = DOMAIN typed \cup {q \in DOMAIN p.extra : ~InTheWay(q, typed)}
    BY FoldedIs
  <2> QED  BY <1>4, <2>1
<1>6. \A q \in Under(fields, key) : q \in DOMAIN typed \cup DOMAIN cfg.extra
  BY <1>2, <1>3, <1>5 DEF Under
<1> QED  BY <1>6 DEF p, fields, typed

\* What is given is there.
LEMMA GivenIsThere ==
    ASSUME NEW d \in Dialects, d # "claude", NEW req, NEW cfg, HasFields(req),
           \A q \in DOMAIN req.extra : Len(q) \in 1..2
    PROVE  LET p == Prepared(req, cfg)
               fields == Encode(d, p).fields
               typed == Typed(d, p)
               slots == Slots(d, Sets(p, "reasoning"))
           IN  /\ \A q \in DOMAIN req.extra :
                      \/ q[1] \in cfg.unsupported
                      \/ q \in DOMAIN fields
                      \/ \E t \in DOMAIN typed : t[1] = q[1] /\ (Len(q) = 1 \/ Len(t) = 1)
               /\ \A k \in DOMAIN req.knobs \cap DOMAIN slots :
                      \/ k \in cfg.unsupported \cup {"max_tokens"}
                      \/ k \notin Spoken(d, p)
                      \/ fields[slots[k]] = Value(d, k, req.knobs[k])
<1> DEFINE r == PreparedToCount(req, cfg)
           p == Prepared(req, cfg)
           fields == Encode(d, p).fields
           typed == Typed(d, p)
           s == Slots(d, Sets(p, "reasoning"))
           spoken == Spoken(d, p) \cap DOMAIN s
<1>1. {"system", "knobs", "extra"} \subseteq DOMAIN req
  BY DEF HasFields
<1>2. /\ DOMAIN r.knobs = (DOMAIN req.knobs \cup DOMAIN cfg.knobs \cup {"stream"}) \ (cfg.unsupported \cap Knobs)
      /\ \A k \in DOMAIN r.knobs : k \in DOMAIN req.knobs => r.knobs[k] = req.knobs[k]
      /\ \A q \in DOMAIN req.extra : q[1] \notin cfg.unsupported => q \in DOMAIN r.extra
  BY <1>1, ToCountIs
<1>3. /\ DOMAIN p = DOMAIN req /\ p.extra = r.extra
      /\ \A k \in DOMAIN r.knobs : k # "max_tokens" => p.knobs[k] = r.knobs[k]
      /\ IsFunction(p.knobs) /\ "stream" \in DOMAIN p.knobs
  <2>1. /\ DOMAIN p = DOMAIN req /\ \A f \in DOMAIN req \ {"knobs"} : p[f] = r[f]
        /\ \A k \in DOMAIN r.knobs : k # "max_tokens" => p.knobs[k] = r.knobs[k]
        /\ IsFunction(p.knobs) /\ "stream" \in DOMAIN p.knobs
    BY <1>1, PreparedIs
  <2> HIDE DEF p, r
  <2> QED  BY <1>1, <2>1
<1> HIDE DEF p, r
<1>4. fields = FoldExtra(typed, p.extra)
  BY <1>1, <1>3, FieldsAre
<1>5. /\ DOMAIN typed = {s[j] : j \in spoken} \cup Companions(d, p)
      /\ \A k \in spoken : typed[s[k]] = Value(d, k, p.knobs[k])
      /\ \A q \in DOMAIN typed : Len(q) \in 1..2
  BY TypedIs
<1> HIDE DEF fields, typed
<1>6. /\ DOMAIN fields = DOMAIN typed \cup {q \in DOMAIN p.extra : ~InTheWay(q, typed)}
      /\ \A q \in DOMAIN typed : fields[q] = typed[q]
  BY <1>4, FoldedIs
<1>7. ASSUME NEW q \in DOMAIN req.extra, q[1] \notin cfg.unsupported, q \notin DOMAIN fields
      PROVE  \E t \in DOMAIN typed : t[1] = q[1] /\ (Len(q) = 1 \/ Len(t) = 1)
  <2>1. q \in DOMAIN p.extra
    BY <1>2, <1>3, <1>7
  <2>2. InTheWay(q, typed)
    BY <1>6, <1>7, <2>1
  <2>3. PICK t \in DOMAIN typed : t[1] = q[1] /\ ~(Len(q) = 2 /\ Len(t) = 2)
    BY <2>2 DEF InTheWay
  <2>4. Len(q) \in 1..2 /\ Len(t) \in 1..2
    BY <1>5
  <2>5. Len(q) = 1 \/ Len(t) = 1
    BY <2>3, <2>4
  <2> QED  BY <2>3, <2>5
<1>8. ASSUME NEW k \in DOMAIN req.knobs \cap DOMAIN s,
             k \notin cfg.unsupported \cup {"max_tokens"}, k \in Spoken(d, p)
      PROVE  fields[s[k]] = Value(d, k, req.knobs[k])
  <2>1. k \in DOMAIN r.knobs /\ r.knobs[k] = req.knobs[k]
    BY <1>2, <1>8
  <2>2. p.knobs[k] = req.knobs[k]
    BY <1>3, <1>8, <2>1
  <2>3. k \in spoken
    BY <1>8
  <2> HIDE DEF spoken
  <2>4. s[k] \in DOMAIN typed /\ typed[s[k]] = Value(d, k, p.knobs[k])
    BY <1>5, <2>3
  <2> QED  BY <1>6, <2>2, <2>4
<1> QED  BY <1>7, <1>8 DEF p, fields, typed

\* The cap has room for the budget.
LEMMA CapHasRoom ==
    ASSUME NEW d, HasBudget(d), NEW req, NEW cfg, HasFields(req), cfg.dialect = d,
           Measured(req.knobs), Measured(cfg.knobs), cfg.served \in Nat,
           {"reasoning", "max_tokens"} \subseteq DOMAIN Prepared(req, cfg).knobs
    PROVE  LET fields == Encode(d, Prepared(req, cfg)).fields
               slots == Slots(d, TRUE)
           IN  fields[slots["max_tokens"]] >= fields[slots["reasoning"]] + ReasoningHeadroom
<1> DEFINE r == PreparedToCount(req, cfg)
           p == Prepared(req, cfg)
           fields == Encode(d, p).fields
           typed == Typed(d, p)
           s == Slots(d, TRUE)
           spoken == Spoken(d, p) \cap DOMAIN s
           cap == IF Sets(r, "max_tokens") THEN r.knobs["max_tokens"] ELSE cfg.served
           least == Floor(r.knobs["reasoning"])
<1>0. d \in Dialects /\ d # "claude" /\ {"reasoning", "max_tokens"} \subseteq DOMAIN p.knobs
  BY DEF HasBudget, Dialects
<1>1. {"system", "knobs", "extra"} \subseteq DOMAIN req
  BY DEF HasFields
<1>2. /\ DOMAIN r.knobs = (DOMAIN req.knobs \cup DOMAIN cfg.knobs \cup {"stream"}) \ (cfg.unsupported \cap Knobs)
      /\ \A k \in DOMAIN r.knobs : k \in DOMAIN req.knobs => r.knobs[k] = req.knobs[k]
      /\ \A k \in DOMAIN r.knobs : k \in DOMAIN cfg.knobs /\ k \notin DOMAIN req.knobs => r.knobs[k] = cfg.knobs[k]
  BY <1>1, ToCountIs
<1>3. /\ DOMAIN p = DOMAIN req
      /\ DOMAIN p.knobs = DOMAIN r.knobs \cup (IF Couples(r, cfg) THEN {"max_tokens"} ELSE {})
      /\ \A k \in DOMAIN r.knobs : k # "max_tokens" => p.knobs[k] = r.knobs[k]
      /\ Couples(r, cfg) => p.knobs["max_tokens"] = IF cap > least THEN cap ELSE least
      /\ IsFunction(p.knobs) /\ "stream" \in DOMAIN p.knobs
  BY <1>1, PreparedIs
<1> HIDE DEF p, r
<1>4. fields = FoldExtra(typed, p.extra)
  BY <1>0, <1>1, <1>3, FieldsAre
<1>5. Measured(r.knobs)
  BY <1>2 DEF Measured
<1>6. "reasoning" \in DOMAIN r.knobs /\ Couples(r, cfg)
  BY <1>0, <1>3 DEF Couples, Sets
<1>7. cap \in Nat /\ least = Budget[r.knobs["reasoning"]] + ReasoningHeadroom /\ Budget[r.knobs["reasoning"]] \in Nat
  BY <1>5, <1>6 DEF Measured, Sets, Floor, Budget
<1>8. p.knobs["max_tokens"] >= Budget[p.knobs["reasoning"]] + ReasoningHeadroom
  <2>1. p.knobs["reasoning"] = r.knobs["reasoning"]
    BY <1>3, <1>6
  <2>2. p.knobs["max_tokens"] = IF cap > least THEN cap ELSE least
    BY <1>3, <1>6
  <2> HIDE DEF cap, least
  <2> QED  BY <1>7, <2>1, <2>2 DEF ReasoningHeadroom
<1>9. {"reasoning", "max_tokens"} \subseteq spoken
  <2>1. {"reasoning", "max_tokens"} \subseteq Spoken(d, p)
    BY <1>0 DEF Spoken
  <2>2. {"reasoning", "max_tokens"} \subseteq DOMAIN s
    BY DEF HasBudget, Slots, AnthropicSlots, GenaiSlots
  <2> QED  BY <2>1, <2>2
<1>10. Sets(p, "reasoning") = TRUE
  BY <1>0 DEF Sets
<1>11. /\ DOMAIN typed = {s[j] : j \in spoken} \cup Companions(d, p)
       /\ \A k \in spoken : typed[s[k]] = Value(d, k, p.knobs[k])
  <2> DEFINE slots == Slots(d, Sets(p, "reasoning"))
  <2>1. slots = s
    BY <1>10
  <2>2. /\ DOMAIN typed = {slots[j] : j \in Spoken(d, p) \cap DOMAIN slots} \cup Companions(d, p)
        /\ \A k \in Spoken(d, p) \cap DOMAIN slots : typed[slots[k]] = Value(d, k, p.knobs[k])
    BY <1>0, TypedIs
  <2> HIDE DEF slots, s, typed
  <2> QED  BY <2>1, <2>2
<1> HIDE DEF fields, typed, spoken, s
<1>12. \A k \in spoken : s[k] \in DOMAIN typed
  BY <1>11
<1>13. \A q \in DOMAIN typed : fields[q] = typed[q]
  <2>1. \A q \in DOMAIN typed : FoldExtra(typed, p.extra)[q] = typed[q]
    BY FoldedIs
  <2> QED  BY <1>4, <2>1
<1>14. Value(d, "reasoning", p.knobs["reasoning"]) = Budget[p.knobs["reasoning"]]
  BY DEF Value, HasBudget
<1>15. Value(d, "max_tokens", p.knobs["max_tokens"]) = p.knobs["max_tokens"]
  BY DEF Value
<1>16. /\ fields[s["reasoning"]] = Budget[p.knobs["reasoning"]]
       /\ fields[s["max_tokens"]] = p.knobs["max_tokens"]
  BY <1>9, <1>11, <1>12, <1>13, <1>14, <1>15
<1>17. fields[s["max_tokens"]] >= fields[s["reasoning"]] + ReasoningHeadroom
  BY <1>8, <1>16
<1> QED  BY <1>17 DEF fields, s, p

\* The preamble is at the head and nowhere else.
LeadsOnce(system) == system # <<>> /\ \A n \in DOMAIN system : system[n] = Preamble <=> n = 1

LEMMA PreambleIsLed ==
    ASSUME NEW system, NEW cfg, cfg.preamble, LeadsAtMost(system), LeadsAtMost(cfg.system),
           NEW S, Preamble \notin S, NEW gathered \in Seq(S)
    PROVE  LeadsOnce(Heading(system, cfg) \o gathered)
<1> DEFINE led == IF system = <<>> THEN cfg.system ELSE system
           head == Heading(system, cfg)
           T == {led[n] : n \in DOMAIN led} \cup {Preamble}
           U == T \cup S
<1>1. LeadsAtMost(led)
  OBVIOUS
<1>2. head = IF led = <<>> \/ Head(led) # Preamble THEN <<Preamble>> \o led ELSE led
  BY Zenon DEF Heading
<1>3. led \in Seq(T) /\ Preamble \in T
  BY <1>1 DEF LeadsAtMost
<1>4. \A n \in DOMAIN led : n > 1 => led[n] # Preamble
  BY <1>1 DEF LeadsAtMost
<1> HIDE DEF led, T, head
<1> DEFINE P == Preamble
<1>5. Preamble = P
  OBVIOUS
<1> HIDE DEF P
<1>6. head \in Seq(T) /\ head # <<>> /\ head[1] = P /\ \A n \in DOMAIN head : n > 1 => head[n] # P
  <2>1. CASE led = <<>> \/ Head(led) # P
    <3>1. head = <<P>> \o led
      BY <1>2, <1>5, <2>1
    <3>2. led # <<>> => led[1] # P
      BY <1>3, <2>1
    <3>3. \A n \in DOMAIN led : led[n] # P
      BY <1>3, <1>4, <1>5, <3>2
    <3> QED  BY <1>3, <1>5, <3>1, <3>3
  <2>2. CASE ~(led = <<>> \/ Head(led) # P)
    BY <1>2, <1>3, <1>4, <1>5, <2>2
  <2> QED  BY <2>1, <2>2
<1>7. \A n \in DOMAIN gathered : gathered[n] # P
  BY <1>5
<1>8. head \in Seq(U) /\ gathered \in Seq(U)
  BY <1>6
<1> HIDE DEF U
<1> DEFINE all == head \o gathered
<1>9. all # <<>> /\ \A n \in DOMAIN all : all[n] = P <=> n = 1
  BY <1>6, <1>7, <1>8
<1> QED  BY <1>5, <1>9 DEF head, LeadsOnce

\* Two requests that differ in no more than knobs.
SameTold(r, req) ==
    /\ r.system = req.system /\ r.messages = req.messages
    /\ r.tools = req.tools /\ r.choice = req.choice /\ r.parallel = req.parallel

\* What an encoder looks at before it begins.
Fitting(d, req) ==
    /\ ToolsFit(d, req)
    /\ d = "claude" => IsPrompt(req.messages)
    /\ Only(req.system, {"Text"})
    /\ \A m \in DOMAIN req.messages : \A n \in DOMAIN req.messages[m].content :
           Fits(d, req.messages[m].role, req.messages[m].content[n])

LEMMA FittingAlike ==
    ASSUME NEW d, NEW r, NEW req, SameTold(r, req)
    PROVE  Fitting(d, r) <=> Fitting(d, req)
<1>1. r.system = req.system /\ r.messages = req.messages /\ r.tools = req.tools /\ r.choice = req.choice
  BY DEF SameTold
<1>2. ToolsFit(d, r) <=> ToolsFit(d, req)
  BY <1>1, Zenon DEF ToolsFit
<1> QED  BY <1>1, <1>2, Zenon DEF Fitting

LEMMA CountFits ==
    ASSUME NEW d, HasCount(d), NEW r, NEW p, NEW exec, SameTold(r, p), Refusal(d, p, exec) = "none",
           {"system", "messages", "tools", "choice", "knobs"} \subseteq DOMAIN r
    PROVE  CountRefusal(d, r) = "none"
<1> DEFINE few == [k \in DOMAIN r.knobs \ {"image"} |-> r.knobs[k]]
           one == [max_tokens |-> 1]
           knobs == one ++ few
           c == [r EXCEPT !.knobs = knobs]
<1>1. CountRefusal(d, r) = Refusal(d, c, FALSE)
  BY Zenon DEF CountRefusal
<1>2. DOMAIN knobs = {"max_tokens"} \cup (DOMAIN r.knobs \ {"image"})
  <2>1. DOMAIN one = {"max_tokens"} /\ DOMAIN few = DOMAIN r.knobs \ {"image"}
    OBVIOUS
  <2> HIDE DEF one, few
  <2>2. DOMAIN knobs = DOMAIN one \cup DOMAIN few
    BY OverIs
  <2> QED  BY <2>1, <2>2
<1> HIDE DEF knobs
<1>3. /\ c.knobs = knobs /\ c.system = r.system /\ c.messages = r.messages /\ c.tools = r.tools
      /\ c.choice = r.choice
  OBVIOUS
<1> HIDE DEF c
<1>4. ~AsksForImage(c) /\ Sets(c, "max_tokens")
  BY <1>2, <1>3 DEF AsksForImage, Sets
<1>5. Fitting(d, p)
  BY Zenon DEF Refusal, Fitting
<1>6. Fitting(d, r)
  BY <1>5, FittingAlike
<1>7. Fitting(d, c)
  <2>1. ToolsFit(d, c) <=> ToolsFit(d, r)
    BY <1>3, Zenon DEF ToolsFit
  <2> QED  BY <1>3, <1>6, <2>1, Zenon DEF Fitting
<1>8. d # "claude"
  BY DEF HasCount
<1>9. Refusal(d, c, FALSE) = IF Fitting(d, c) THEN "none" ELSE "ParseInput"
  BY <1>4, <1>8, Zenon DEF Refusal, Fitting
<1> QED  BY <1>1, <1>7, <1>9

\* The prompt of a body.
Prompt(d, system, messages, tools, choice, parallel) ==
    [system |-> system, messages |-> messages, tools |-> tools, choice |-> choice, parallel |-> parallel,
     marks |-> IF d = "anthropic"
               THEN [head |-> IF system # <<>> THEN "system" ELSE IF tools # <<>> THEN "tools" ELSE "none",
                     turns |-> ConversationMarks(messages)]
               ELSE Unmarked,
     fields |-> <<>>]

LEMMA PromptIs ==
    ASSUME NEW d, NEW req, NEW fields
    PROVE  [Spelled(d, req, fields) EXCEPT !.fields = <<>>] =
               Prompt(d, System(d, req), Messages(d, req), Tools(d, req), Choice(d, req), Parallel(d, req))
<1> DEFINE s == System(d, req)
           m == Messages(d, req)
           t == Tools(d, req)
           c == Choice(d, req)
           p == Parallel(d, req)
           plain == [system |-> s, messages |-> m, tools |-> t, choice |-> c, parallel |-> p,
                     marks |-> Unmarked, fields |-> fields]
<1>1. Spelled(d, req, fields) = Marked(d, plain)
  BY Zenon DEF Spelled
<1> HIDE DEF s, m, t, c, p
<1>2. CASE d = "anthropic"
  <2>1. HeadMark(plain) = IF s # <<>> THEN "system" ELSE IF t # <<>> THEN "tools" ELSE "none"
    BY DEF HeadMark
  <2> DEFINE h == HeadMark(plain)
             marks == ConversationMarks(m)
  <2>2. Marked(d, plain) = [plain EXCEPT !.marks = [head |-> h, turns |-> marks]]
    BY <1>2 DEF Marked
  <2> HIDE DEF h, marks
  <2>3. [Marked(d, plain) EXCEPT !.fields = <<>>] =
            [system |-> s, messages |-> m, tools |-> t, choice |-> c, parallel |-> p,
             marks |-> [head |-> h, turns |-> marks], fields |-> <<>>]
    BY <2>2
  <2>4. Prompt(d, s, m, t, c, p) = [system |-> s, messages |-> m, tools |-> t, choice |-> c, parallel |-> p,
             marks |-> [head |-> h, turns |-> marks], fields |-> <<>>]
    BY <1>2, <2>1, Zenon DEF Prompt, h, marks
  <2> QED  BY <1>1, <2>3, <2>4, Zenon DEF s, m, t, c, p
<1>3. CASE d # "anthropic"
  <2>1. [plain EXCEPT !.fields = <<>>] = Prompt(d, s, m, t, c, p)
    BY <1>3 DEF Prompt
  <2>2. Marked(d, plain) = plain
    BY <1>3 DEF Marked
  <2> QED  BY <1>1, <2>1, <2>2, Zenon DEF s, m, t, c, p
<1> QED  BY <1>2, <1>3

\* The turns of a prompt are made of the messages alone.
GenaiTurnsOf(messages) ==
    LET Part(c) ==
            CASE c.type = "ToolUse" -> <<[c EXCEPT !.id = ""]>>
              [] c.type = "ToolResult" ->
                     <<[type |-> "ToolResult", name |-> ToolName(messages, c.id, c.id), text |-> Said(c)]>>
              [] c.type \in Thoughts \cup Served -> <<>>
              [] OTHER -> <<c>>
    IN  Each(LAMBDA m : [role |-> Side(m.role), content |-> FlatMap(Part, m.content)],
             Those(LAMBDA m : m.role # "System", messages))
HoistedOf(system, messages) == system \o FlatMap(LAMBDA m : m.content, OfRole(messages, "System"))

LEMMA PromptAlike ==
    ASSUME NEW d, HasCount(d), NEW r, NEW p, SameTold(r, p)
    PROVE  /\ System(d, r) = System(d, p) /\ Messages(d, r) = Messages(d, p) /\ Tools(d, r) = Tools(d, p)
           /\ Choice(d, r) = Choice(d, p) /\ Parallel(d, r) = Parallel(d, p)
<1>1. /\ r.system = p.system /\ r.messages = p.messages
      /\ r.tools = p.tools /\ r.choice = p.choice /\ r.parallel = p.parallel
  BY DEF SameTold
<1>2. \A x : Hoisted(x) = HoistedOf(x.system, x.messages)
  BY Zenon DEF Hoisted, HoistedOf
<1>3. System(d, r) = System(d, p)
  <2>1. Hoisted(r) = Hoisted(p)
    BY <1>1, <1>2
  <2> QED  BY <2>1 DEF System, HasCount
<1>4. Messages(d, r) = Messages(d, p)
  <2>1. CASE d = "google"
    <3>1. \A x : Messages("google", x) = Each(LAMBDA m : GenaiTurn(x, m), Unhoisted(x))
      BY DEF Messages
    <3>2. \A x : Each(LAMBDA m : GenaiTurn(x, m), Unhoisted(x)) = GenaiTurnsOf(x.messages)
      BY Zenon DEF GenaiTurnsOf, GenaiTurn, GenaiPart, Each, FlatMap, Unhoisted, Those
    <3> QED  BY <1>1, <2>1, <3>1, <3>2
  <2>2. CASE d = "anthropic"
    <3>1. \A x : Messages("anthropic", x) = Each(MessagesTurn, Unhoisted(x))
      BY DEF Messages
    <3>2. Unhoisted(r) = Unhoisted(p)
      BY <1>1, Zenon DEF Unhoisted
    <3> QED  BY <2>2, <3>1, <3>2, Zenon
  <2> QED  BY <2>1, <2>2 DEF HasCount
<1>5. Tools(d, r) = Tools(d, p)
  <2>1. Tools("google", r) = Tools("google", p)
    BY <1>1, Zenon DEF Tools
  <2>2. Tools("anthropic", r) = r.tools /\ Tools("anthropic", p) = p.tools
    BY DEF Tools
  <2> QED  BY <1>1, <2>1, <2>2 DEF HasCount
<1>6. Choice(d, r) = Choice(d, p)
  BY <1>1, Zenon DEF Choice
<1>7. Parallel(d, r) = Parallel(d, p)
  BY <1>1, <1>6, Zenon DEF Parallel
<1> QED  BY <1>3, <1>4, <1>5, <1>6, <1>7

\* The fields that the count has of knobs are those of the request.
LEMMA CountTyped ==
    ASSUME NEW d, HasCount(d), NEW c, NEW p,
           DOMAIN c.knobs \subseteq DOMAIN p.knobs,
           \A k \in DOMAIN c.knobs : k # "max_tokens" => p.knobs[k] = c.knobs[k],
           "reasoning" \in DOMAIN p.knobs => "reasoning" \in DOMAIN c.knobs,
           NEW q \in DOMAIN Typed(d, c), q # <<"generationConfig", "maxOutputTokens">>,
           d = "anthropic" => "max_tokens" \notin DOMAIN c.knobs
    PROVE  q \in DOMAIN Typed(d, p) /\ Typed(d, c)[q] = Typed(d, p)[q]
<1> DEFINE s == Slots(d, Sets(p, "reasoning"))
           few == Spoken(d, c) \cap DOMAIN s
           spoken == Spoken(d, p) \cap DOMAIN s
<1>1. d \in Dialects /\ d \in {"anthropic", "google"}
  BY DEF HasCount, Dialects
<1>2. Sets(c, "reasoning") = Sets(p, "reasoning")
  BY DEF Sets
<1>3. /\ DOMAIN Typed(d, p) = {s[k] : k \in spoken} \cup Companions(d, p)
      /\ \A k \in spoken : Typed(d, p)[s[k]] = Value(d, k, p.knobs[k])
      /\ \A x \in Companions(d, p) : Typed(d, p)[x] = "set"
  BY <1>1, TypedIs
<1>4. /\ DOMAIN Typed(d, c) = {s[k] : k \in few} \cup Companions(d, c)
      /\ \A k \in few : Typed(d, c)[s[k]] = Value(d, k, c.knobs[k])
      /\ \A x \in Companions(d, c) : Typed(d, c)[x] = "set"
  <2> DEFINE slots == Slots(d, Sets(c, "reasoning"))
  <2>1. slots = s
    BY <1>2
  <2>2. /\ DOMAIN Typed(d, c) = {slots[k] : k \in Spoken(d, c) \cap DOMAIN slots} \cup Companions(d, c)
        /\ \A k \in Spoken(d, c) \cap DOMAIN slots : Typed(d, c)[slots[k]] = Value(d, k, c.knobs[k])
        /\ \A x \in Companions(d, c) : Typed(d, c)[x] = "set"
    BY <1>1, TypedIs
  <2> HIDE DEF slots, s
  <2> QED  BY <2>1, <2>2
<1>5. Companions(d, c) = Companions(d, p)
  <2>1. \A x : Companions("google", x) = {}
    BY DEF Companions
  <2>2. \A x : Companions("anthropic", x) = IF Sets(x, "reasoning") THEN {<<"thinking", "type">>} ELSE {}
    BY DEF Companions
  <2> QED  BY <1>1, <1>2, <2>1, <2>2
<1>6. CASE q \in Companions(d, c)
  BY <1>3, <1>4, <1>5, <1>6
<1>7. CASE q \notin Companions(d, c)
  <2>1. PICK k \in few : q = s[k]
    BY <1>4, <1>7
  <2>2. k # "max_tokens"
    <3>1. CASE d = "anthropic"
      BY <2>1, <3>1 DEF Spoken
    <3>2. CASE d = "google"
      BY <2>1, <3>2 DEF Slots, GenaiSlots
    <3> QED  BY <1>1, <3>1, <3>2
  <2>3. k \in DOMAIN c.knobs /\ p.knobs[k] = c.knobs[k] /\ k \in DOMAIN p.knobs
    BY <2>1, <2>2 DEF Spoken
  <2>4. k \in Spoken(d, p)
    BY <1>2, <2>1, <2>3 DEF Spoken
  <2> HIDE DEF s
  <2>5. k \in spoken
    BY <2>1, <2>4
  <2> QED  BY <1>3, <1>4, <2>1, <2>3, <2>5
<1> QED  BY <1>6, <1>7

\* What is counted is what is sent.
LEMMA CountedIs ==
    ASSUME NEW d, HasCount(d), NEW req, NEW cfg, HasFields(req), cfg.dialect = d, NEW exec,
           Refusal(d, Prepared(req, cfg), exec) = "none"
    PROVE  LET r == PreparedToCount(req, cfg)
               p == Prepared(req, cfg)
               count == Count(d, r)
               wire == Encode(d, p)
           IN  /\ CountRefusal(d, r) = "none"
               /\ [count EXCEPT !.fields = <<>>] = [wire EXCEPT !.fields = <<>>]
               /\ \A q \in DOMAIN count.fields \ {<<"generationConfig", "maxOutputTokens">>} :
                      \/ q \in DOMAIN wire.fields /\ count.fields[q] = wire.fields[q]
                      \/ q \in DOMAIN r.extra /\ \E t \in DOMAIN Typed(d, p) : t[1] = q[1]
<1> DEFINE r == PreparedToCount(req, cfg)
           p == Prepared(req, cfg)
           only == [k \in DOMAIN r.knobs \cap {"reasoning"} |-> r.knobs[k]]
           brief == [r EXCEPT !.knobs = only]
           c == IF d = "google" THEN r ELSE brief
           count == Count(d, r)
           wire == Encode(d, p)
           tc == Typed(d, c)
           tw == Typed(d, p)
<1>0. d \in Dialects /\ d \in {"anthropic", "google"}
  BY DEF HasCount, Dialects
<1>1. {"system", "knobs", "extra"} \subseteq DOMAIN req
  BY DEF HasFields
<1>2. DOMAIN r = DOMAIN req
  BY <1>1, ToCountIs
<1>3. /\ SameTold(r, p) /\ p.extra = r.extra
      /\ DOMAIN p = DOMAIN req
      /\ DOMAIN r.knobs \subseteq DOMAIN p.knobs
      /\ \A k \in DOMAIN r.knobs : k # "max_tokens" => p.knobs[k] = r.knobs[k]
      /\ \A k \in DOMAIN p.knobs : k # "max_tokens" => k \in DOMAIN r.knobs
      /\ IsFunction(p.knobs) /\ "stream" \in DOMAIN p.knobs
  <2>1. /\ DOMAIN p = DOMAIN req /\ \A f \in DOMAIN req \ {"knobs"} : p[f] = r[f]
        /\ DOMAIN p.knobs = DOMAIN r.knobs \cup (IF Couples(r, cfg) THEN {"max_tokens"} ELSE {})
        /\ \A k \in DOMAIN r.knobs : k # "max_tokens" => p.knobs[k] = r.knobs[k]
        /\ IsFunction(p.knobs) /\ "stream" \in DOMAIN p.knobs
    BY <1>1, PreparedIs
  <2> HIDE DEF p, r
  <2>2. SameTold(r, p) /\ p.extra = r.extra
    BY <2>1 DEF SameTold, HasFields
  <2> QED  BY <2>1, <2>2
<1> HIDE DEF p, r
<1>4. CountRefusal(d, r) = "none"
  <2>1. {"system", "messages", "tools", "choice", "knobs"} \subseteq DOMAIN r
    BY <1>2 DEF HasFields
  <2>2. Refusal(d, p, exec) = "none"
    BY DEF p
  <2> QED  BY <1>3, <2>1, <2>2, CountFits
<1>5. count = Spelled(d, r, FoldExtra(tc, r.extra))
  <2>1. Typed(d, IF d = "google" THEN r ELSE [r EXCEPT !.knobs = [k \in DOMAIN @ \cap {"reasoning"} |-> @[k]]]) = tc
    BY Zenon
  <2> QED  BY <2>1, Zenon DEF Count
<1>6. [count EXCEPT !.fields = <<>>] = [wire EXCEPT !.fields = <<>>]
  <2> DEFINE same == Prompt(d, System(d, p), Messages(d, p), Tools(d, p), Choice(d, p), Parallel(d, p))
             fields == FoldExtra(tc, r.extra)
  <2>1. [Spelled(d, r, fields) EXCEPT !.fields = <<>>] =
            Prompt(d, System(d, r), Messages(d, r), Tools(d, r), Choice(d, r), Parallel(d, r))
    BY PromptIs
  <2>8. /\ System(d, r) = System(d, p) /\ Messages(d, r) = Messages(d, p) /\ Tools(d, r) = Tools(d, p)
        /\ Choice(d, r) = Choice(d, p) /\ Parallel(d, r) = Parallel(d, p)
    BY <1>3, PromptAlike
  <2>2. [Spelled(d, r, fields) EXCEPT !.fields = <<>>] = same
    BY <2>1, <2>8, Zenon
  <2>3. \A f : [Spelled(d, p, f) EXCEPT !.fields = <<>>] = same
    BY PromptIs
  <2>4. \E f : wire = Spelled(d, p, f)
    BY Zenon DEF Encode
  <2> HIDE DEF same, fields, wire, count
  <2>5. PICK f : wire = Spelled(d, p, f)
    BY <2>4
  <2>6. [wire EXCEPT !.fields = <<>>] = same
    BY <2>3, <2>5, Zenon
  <2>7. count = Spelled(d, r, fields)
    BY <1>5 DEF fields
  <2> QED  BY <2>2, <2>6, <2>7, Zenon
<1>7. wire.fields = FoldExtra(tw, r.extra)
  <2>1. wire.fields = IF d = "claude" THEN tw ELSE FoldExtra(tw, p.extra)
    BY <1>1, <1>3, FieldsAre
  <2> QED  BY <1>0, <1>3, <2>1
<1>8. count.fields = FoldExtra(tc, r.extra)
  <2> DEFINE fields == FoldExtra(tc, r.extra)
             plain == [system |-> System(d, r), messages |-> Messages(d, r), tools |-> Tools(d, r),
                       choice |-> Choice(d, r), parallel |-> Parallel(d, r), marks |-> Unmarked,
                       fields |-> fields]
  <2>1. count = Marked(d, plain)
    BY <1>5, Zenon DEF Spelled
  <2>2. plain.fields = fields
    OBVIOUS
  <2> HIDE DEF plain, fields
  <2>3. Marked(d, plain).fields = plain.fields
    BY DEF Marked
  <2> QED  BY <2>1, <2>2, <2>3 DEF fields
<1>9. ASSUME NEW q \in DOMAIN tc, q # <<"generationConfig", "maxOutputTokens">>
      PROVE  q \in DOMAIN tw /\ tc[q] = tw[q]
  <2>1. CASE d = "google"
    <3>1. c = r
      BY <2>1
    <3>2. "reasoning" \in DOMAIN p.knobs => "reasoning" \in DOMAIN r.knobs
      BY <1>3
    <3>3. q \in DOMAIN Typed(d, r)
      BY <1>9, <3>1
    <3> HIDE DEF c
    <3>4. q \in DOMAIN Typed(d, p) /\ Typed(d, r)[q] = Typed(d, p)[q]
      BY <1>3, <1>9, <2>1, <3>2, <3>3, CountTyped
    <3> QED  BY <3>1, <3>4
  <2>2. CASE d = "anthropic"
    <3>1. "knobs" \in DOMAIN r
      BY <1>2 DEF HasFields
    <3>2. c.knobs = only
      BY <2>2, <3>1
    <3>3. DOMAIN only = DOMAIN r.knobs \cap {"reasoning"} /\ \A k \in DOMAIN only : only[k] = r.knobs[k]
      OBVIOUS
    <3> HIDE DEF c, only
    <3>4. /\ DOMAIN c.knobs \subseteq DOMAIN p.knobs
          /\ \A k \in DOMAIN c.knobs : k # "max_tokens" => p.knobs[k] = c.knobs[k]
          /\ "reasoning" \in DOMAIN p.knobs => "reasoning" \in DOMAIN c.knobs
          /\ "max_tokens" \notin DOMAIN c.knobs
      BY <1>3, <3>2, <3>3
    <3> QED  BY <1>9, <3>4, CountTyped
  <2> QED  BY <1>0, <2>1, <2>2
<1> HIDE DEF tc, tw, count, wire, c
<1>10. /\ DOMAIN FoldExtra(tc, r.extra) = DOMAIN tc \cup {q \in DOMAIN r.extra : ~InTheWay(q, tc)}
       /\ \A q \in DOMAIN tc : FoldExtra(tc, r.extra)[q] = tc[q]
       /\ \A q \in DOMAIN r.extra :
              q \notin DOMAIN tc /\ ~InTheWay(q, tc) => FoldExtra(tc, r.extra)[q] = r.extra[q]
  BY FoldedIs
<1>11. /\ DOMAIN FoldExtra(tw, r.extra) = DOMAIN tw \cup {q \in DOMAIN r.extra : ~InTheWay(q, tw)}
       /\ \A q \in DOMAIN tw : FoldExtra(tw, r.extra)[q] = tw[q]
       /\ \A q \in DOMAIN r.extra :
              q \notin DOMAIN tw /\ ~InTheWay(q, tw) => FoldExtra(tw, r.extra)[q] = r.extra[q]
  BY FoldedIs
<1>12. ASSUME NEW q \in DOMAIN count.fields \ {<<"generationConfig", "maxOutputTokens">>}
       PROVE  \/ q \in DOMAIN wire.fields /\ count.fields[q] = wire.fields[q]
              \/ q \in DOMAIN r.extra /\ \E t \in DOMAIN tw : t[1] = q[1]
  <2>1. CASE q \in DOMAIN tc
    BY <1>7, <1>8, <1>9, <1>10, <1>11, <2>1
  <2>2. CASE q \notin DOMAIN tc
    <3>1. q \in DOMAIN r.extra /\ count.fields[q] = r.extra[q]
      BY <1>8, <1>10, <2>2
    <3>2. CASE q \in DOMAIN tw
      BY <3>1, <3>2
    <3>3. CASE q \notin DOMAIN tw /\ InTheWay(q, tw)
      BY <3>1, <3>3 DEF InTheWay
    <3>4. CASE q \notin DOMAIN tw /\ ~InTheWay(q, tw)
      BY <1>7, <1>11, <3>1, <3>4
    <3> QED  BY <3>2, <3>3, <3>4
  <2> QED  BY <2>1, <2>2
<1> QED  BY <1>4, <1>6, <1>12 DEF r, p, count, wire, tw

(***************************************************************************)
(* The promises a request keeps on its way to the encoder.                 *)
(***************************************************************************)
\* What instructions in the middle of the conversation are gathered to.
LEMMA GatheredGrows ==
    ASSUME NEW messages \in Seq(Messages1), Gathered(messages) \in Seq(PlainBlocks),
           NEW m \in Messages1, m.role = "System", m.content \in Seq(PlainBlocks)
    PROVE  Gathered(Append(messages, m)) \in Seq(PlainBlocks)
<1> DEFINE Q == {x \in Messages1 : x.role = "System"}
           g == Picks(Messages1, Q)
           T == Messages1 \cap Q
           h == [x \in Messages1 |-> x.content]
           all == Append(messages, m)
           few == Mapped(messages, g)
<1>1. Makes(g, Messages1, T) /\ T \subseteq Messages1
  BY PicksMake
<1>2. \A x \in Messages1 : g[x] = IF x.role = "System" THEN <<x>> ELSE <<>>
  BY DEF Picks
<1>3. Makes(h, Messages1, AllBlocks) /\ h[m] = m.content
  BY DEF Makes, Messages1
<1>4. \A x \in Messages1 : h[x] = x.content
  OBVIOUS
<1> HIDE DEF g, T, h
<1>5. ASSUME NEW s \in Seq(Messages1) PROVE OfRole(s, "System") = Mapped(s, g)
  <2>1. \A n \in DOMAIN s : g[s[n]] = IF s[n].role = "System" THEN <<s[n]>> ELSE <<>>
    BY <1>2
  <2>2. [n \in DOMAIN s |-> g[s[n]]] = [n \in DOMAIN s |-> IF s[n].role = "System" THEN <<s[n]>> ELSE <<>>]
    BY <2>1, Zenon
  <2> QED  BY <2>2, Zenon DEF OfRole, Those, FlatMap, Each, Mapped, Flat
<1>6. few \in Seq(T) /\ Mapped(all, g) = few \o g[m]
  BY <1>1, MappedAppend
<1> HIDE DEF few
<1>7. few \in Seq(Messages1) /\ Mapped(all, g) = Append(few, m)
  <2>1. few \in Seq(Messages1)
    BY <1>1, <1>6
  <2>2. g[m] = <<m>>
    BY <1>2
  <2> HIDE DEF all
  <2>3. few \o <<m>> = Append(few, m)
    BY <2>1
  <2> QED  BY <1>6, <2>1, <2>2, <2>3
<1>8. ASSUME NEW s \in Seq(Messages1) PROVE FlatMap(LAMBDA x : x.content, s) = Mapped(s, h)
  <2>1. \A n \in DOMAIN s : h[s[n]] = s[n].content
    BY <1>4
  <2>2. [n \in DOMAIN s |-> h[s[n]]] = [n \in DOMAIN s |-> s[n].content]
    BY <2>1, Zenon
  <2> QED  BY <2>2, Zenon DEF FlatMap, Each, Mapped, Flat
<1> DEFINE more == Append(few, m)
<1>9. more \in Seq(Messages1) /\ all \in Seq(Messages1)
  BY <1>7
<1>10. Mapped(more, h) = Mapped(few, h) \o m.content
  <2>1. few \in Seq(Messages1) /\ Makes(h, Messages1, AllBlocks)
    BY <1>3, <1>7
  <2>2. Mapped(few, h) \in Seq(AllBlocks) /\ Mapped(Append(few, m), h) = Mapped(few, h) \o h[m]
    BY <2>1, MappedAppend
  <2> QED  BY <1>3, <2>2
<1> HIDE DEF more, all
<1>11. Gathered(messages) = Mapped(few, h)
  <2>1. OfRole(messages, "System") = few
    BY <1>5 DEF few
  <2>2. FlatMap(LAMBDA x : x.content, few) = Mapped(few, h)
    BY <1>7, <1>8
  <2> QED  BY <2>1, <2>2, Zenon DEF Gathered
<1>12. Gathered(all) = Mapped(more, h)
  <2>1. OfRole(all, "System") = more
    BY <1>5, <1>7, <1>9 DEF more
  <2>2. FlatMap(LAMBDA x : x.content, more) = Mapped(more, h)
    BY <1>8, <1>9
  <2> QED  BY <2>1, <2>2, Zenon DEF Gathered
<1> DEFINE now == Mapped(few, h)
<1>13. now \in Seq(PlainBlocks)
  BY <1>11
<1> HIDE DEF now
<1>14. now \o m.content \in Seq(PlainBlocks)
  BY <1>13
<1> QED  BY <1>10, <1>12, <1>14 DEF all, now

\* Knobs keep their types, the preamble leads or is not there, and what the conversation
\* itself instructs is never the preamble.
PromiseInv ==
    /\ row \in Play.rows
    /\ Given.refused \/ Measured(Given.knobs)
    /\ LeadsAtMost(Leading)
    /\ \A p \in DOMAIN Given.extra : Len(p) \in 1..2
    /\ Gathered(TheMessages) \in Seq(PlainBlocks)

LEMMA PromiseStays ==
    ASSUME PromiseInv, Stays, Gathered(TheMessages') \in Seq(PlainBlocks)
    PROVE  PromiseInv'
<1>1. Leading' = Leading /\ Given' = Given /\ row' = row /\ Play' = Play
  BY DEF Stays, Play
<1>2. PromiseInv' <=> /\ row' \in Play'.rows
                      /\ Given'.refused \/ Measured(Given'.knobs)
                      /\ LeadsAtMost(Leading')
                      /\ \A p \in DOMAIN Given'.extra : Len(p) \in 1..2
                      /\ Gathered(TheMessages') \in Seq(PlainBlocks)
  BY Zenon DEF PromiseInv, Measured, LeadsAtMost, Gathered, FlatMap, OfRole, Those, Each, PlainBlocks
<1> QED  BY <1>1, <1>2, Zenon DEF PromiseInv

LEMMA PromiseGrows ==
    ASSUME ConversationInv, PromiseInv, Grows
    PROVE  PromiseInv'
<1>1. PICK m \in TurnedMessages : TheMessages' = Append(TheMessages, m)
  BY DEF Grows
<1>2. TheMessages \in Seq(Messages1)
  BY MessagesAre DEF ConversationInv
<1>3. Gathered(Append(TheMessages, m)) = Gathered(TheMessages)
  <2> DEFINE messages == TheMessages
  <2>1. messages \in Seq(Messages1)
    BY <1>2
  <2> HIDE DEF messages
  <2>2. Gathered(Append(messages, m)) = Gathered(messages)
    BY <2>1, GatheredStays
  <2> QED  BY <2>2, Zenon DEF messages
<1>4. Gathered(TheMessages') \in Seq(PlainBlocks)
  BY <1>1, <1>3, Zenon DEF PromiseInv
<1> QED  BY <1>4, PromiseStays DEF Grows

LEMMA PromiseInstructed ==
    ASSUME ConversationInv, PromiseInv, Instructs
    PROVE  PromiseInv'
<1>1. PICK m \in Messages1 : /\ m.role = "System" /\ m.content \in Seq(PlainBlocks)
                             /\ TheMessages' = Append(TheMessages, m)
  BY DEF Instructs
<1>2. TheMessages \in Seq(Messages1)
  BY MessagesAre DEF ConversationInv
<1>3. Gathered(Append(TheMessages, m)) \in Seq(PlainBlocks)
  <2> DEFINE messages == TheMessages
  <2>1. messages \in Seq(Messages1) /\ Gathered(messages) \in Seq(PlainBlocks)
    BY <1>2, Zenon DEF PromiseInv
  <2> HIDE DEF messages
  <2>2. Gathered(Append(messages, m)) \in Seq(PlainBlocks)
    BY <1>1, <2>1, GatheredGrows
  <2> QED  BY <2>2, Zenon DEF messages
<1>4. Gathered(TheMessages') \in Seq(PlainBlocks)
  BY <1>1, <1>3, Zenon
<1> QED  BY <1>4, PromiseStays DEF Instructs

LEMMA PromiseBegins == Init => PromiseInv
<1> SUFFICES ASSUME Init PROVE PromiseInv
  OBVIOUS
<1>1. IsScene(Play) /\ row \in Play.rows /\ body \in Play.bodies /\ TheMessages = <<>>
  BY ScenesAssumption, InitHolds DEF Init, Play
<1>2. LET req == Decode(Client, body)
      IN  /\ NoProjection(Client, body) \/ Measured(req.knobs)
          /\ LeadsAtMost(req.system)
          /\ \A p \in DOMAIN req.extra : Len(p) \in 1..2
  BY <1>1 DEF IsScene, Client
<1>3. Gathered(<<>>) = <<>>
  <2>1. SX!FlattenSeq(<<>>) = <<>>
    BY FlatEmpty DEF Flat
  <2>2. Each(LAMBDA m : IF m.role = "System" THEN <<m>> ELSE <<>>, <<>>) = <<>>
    BY DEF Each
  <2>3. OfRole(<<>>, "System") = <<>>
    BY <2>1, <2>2, Zenon DEF OfRole, Those, FlatMap
  <2>4. Each(LAMBDA m : m.content, <<>>) = <<>>
    BY DEF Each
  <2>5. FlatMap(LAMBDA m : m.content, <<>>) = <<>>
    BY <2>1, <2>4, Zenon DEF FlatMap
  <2> QED  BY <2>3, <2>5, Zenon DEF Gathered
<1>4. /\ Given.knobs = Decode(Client, body).knobs /\ Given.extra = Decode(Client, body).extra
      /\ Given.refused = NoProjection(Client, body)
  BY DEF Given
<1>5. Gathered(TheMessages) \in Seq(PlainBlocks)
  <2>1. Gathered(TheMessages) = <<>>
    BY <1>1, <1>3, Zenon
  <2>2. <<>> \in Seq(PlainBlocks)
    OBVIOUS
  <2> QED  BY <2>1, <2>2, Zenon
<1> QED  BY <1>1, <1>2, <1>4, <1>5, Zenon DEF PromiseInv, Leading

\* Every promise is kept of what is sent.
LEMMA Promised ==
    ASSUME ConversationInv, PromiseInv, Went
    PROVE  PreparedAsPromised
<1> DEFINE d == sent.to
           req == Decode(Client, body)
           cfg == Config(d)
           p == Prepared(req, cfg)
<1>1. BodyInv /\ d \in Dialects /\ sent.refusal = "none" /\ IsScene(Play) /\ row \in Play.rows
  BY ThePlay DEF ConversationInv, SentInv, Went, PromiseInv
<1>2. Asked(d) = p
  BY Zenon DEF Asked
<1>3. Refusal(d, p, row.exec) = "none" /\ sent.wire = Encode(d, p)
  BY <1>1, <1>2 DEF ConversationInv, SentInv, Went
<1>4. HasFields(req)
  <2>1. CASE Client = "canonical"
    BY <1>1, <2>1 DEF Decode, BodyInv, FieldsOf, Common, HasFields
  <2>2. CASE Client = "anthropic"
    BY <2>2 DEF Decode, ShapeTaken, DecodeMessages, Request, HasFields
  <2>3. CASE Client = "openai"
    BY <2>3 DEF Decode, ShapeTaken, DecodeChat, Request, HasFields
  <2> QED  BY <1>1, <2>1, <2>2, <2>3, ThePlay
<1>5. /\ cfg.dialect = d /\ cfg.unsupported = row.unsupported /\ cfg.knobs = row.knobs
      /\ cfg.system = row.system /\ cfg.preamble = row.preamble /\ cfg.served = row.served
  <2>1. DOMAIN row = RowFields
    BY <1>1 DEF IsScene
  <2> QED  BY <2>1 DEF Config, RowFields
<1>6. Measured(cfg.knobs) /\ LeadsAtMost(cfg.system) /\ cfg.served \in Nat
  <2>1. Measured(row.knobs) /\ LeadsAtMost(row.system) /\ row.served \in Nat
    BY <1>1 DEF IsScene
  <2> QED  BY <1>5, <2>1
<1>7. Measured(req.knobs) /\ LeadsAtMost(req.system) /\ \A q \in DOMAIN req.extra : Len(q) \in 1..2
  <2>1. ~NoProjection(Client, body)
    BY <1>1 DEF ConversationInv, SentInv, Went
  <2> QED  BY <2>1 DEF PromiseInv, Given, Leading
<1> HIDE DEF req, cfg, d
<1>8. CountsWhatIsSent
  <2> SUFFICES ASSUME HasCount(d) PROVE CountsWhatIsSent
    BY DEF CountsWhatIsSent, d
  <2> DEFINE r == PreparedToCount(req, cfg)
  <2>1. LET count == Count(d, r)
            wire == Encode(d, p)
        IN  /\ CountRefusal(d, r) = "none"
            /\ [count EXCEPT !.fields = <<>>] = [wire EXCEPT !.fields = <<>>]
            /\ \A q \in DOMAIN count.fields \ {<<"generationConfig", "maxOutputTokens">>} :
                   \/ q \in DOMAIN wire.fields /\ count.fields[q] = wire.fields[q]
                   \/ q \in DOMAIN r.extra /\ \E t \in DOMAIN Typed(d, p) : t[1] = q[1]
    BY <1>3, <1>4, <1>5, CountedIs
  <2> HIDE DEF p, r
  <2> QED  BY <1>2, <1>3, <2>1, Zenon DEF CountsWhatIsSent, d, r, req, cfg
<1>9. CapExceedsBudget
  <2> SUFFICES ASSUME HasBudget(d), {"reasoning", "max_tokens"} \subseteq DOMAIN Asked(d).knobs
               PROVE  CapExceedsBudget
    BY DEF CapExceedsBudget, d
  <2>1. {"reasoning", "max_tokens"} \subseteq DOMAIN p.knobs
    BY <1>2
  <2>2. LET fields == Encode(d, p).fields
            slots == Slots(d, TRUE)
        IN  fields[slots["max_tokens"]] >= fields[slots["reasoning"]] + ReasoningHeadroom
    BY <1>4, <1>5, <1>6, <1>7, <2>1, CapHasRoom
  <2> HIDE DEF p
  <2> QED  BY <1>3, <2>2, Zenon DEF CapExceedsBudget, d
<1>10. PreambleLeadsOnce
  <2> SUFFICES ASSUME row.preamble, d = "anthropic" PROVE PreambleLeadsOnce
    BY DEF PreambleLeadsOnce, d
  <2> DEFINE gathered == Gathered(TheMessages)
  <2>1. Preamble \notin PlainBlocks /\ gathered \in Seq(PlainBlocks)
    BY DEF PlainBlocks, PromiseInv
  <2>2. sent.wire.system = Instructed
    BY <1>1, <1>2, <1>3, WireIs
  <2>3. Instructed = Heading(req.system, cfg) \o gathered
    BY Zenon DEF Instructed, Leading, req, cfg, d
  <2> HIDE DEF gathered
  <2>4. LeadsOnce(Heading(req.system, cfg) \o gathered)
    <3>1. cfg.preamble
      BY <1>5
    <3> QED  BY <1>6, <1>7, <2>1, <3>1, PreambleIsLed, Zenon
  <2> QED  BY <2>2, <2>3, <2>4, Zenon DEF PreambleLeadsOnce, LeadsOnce
<1>11. StrippedStaysOff
  <2> SUFFICES ASSUME NEW k \in row.unsupported
               PROVE  IF k \in Knobs
                      THEN k \in DOMAIN Slots(d, FALSE) =>
                               \/ {Slots(d, FALSE)[k], Slots(d, TRUE)[k]} \cap DOMAIN sent.wire.fields
                                      \subseteq DOMAIN Asked(d).extra
                               \/ k = "max_tokens" /\ HasBudget(d) /\ Sets(Asked(d), "reasoning")
                      ELSE \A q \in DOMAIN sent.wire.fields : q[1] = k => q \in DOMAIN Typed(d, Asked(d))
    BY Zenon DEF StrippedStaysOff, d
  <2>1. LET fields == Encode(d, p).fields
        IN  IF k \in Knobs
            THEN k \in DOMAIN Slots(d, FALSE) =>
                     \/ {Slots(d, FALSE)[k], Slots(d, TRUE)[k]} \cap DOMAIN fields \subseteq DOMAIN p.extra
                     \/ k = "max_tokens" /\ HasBudget(d) /\ Sets(p, "reasoning")
            ELSE \A q \in DOMAIN fields : q[1] = k => q \in DOMAIN Typed(d, p)
    BY <1>1, <1>4, <1>5, StrippedIsOff
  <2> HIDE DEF p
  <2> QED  BY <1>2, <1>3, <2>1, Zenon
<1>12. GivenReachesTheWire
  <2> SUFFICES ASSUME Client = "canonical", d # "claude" PROVE GivenReachesTheWire
    BY Zenon DEF GivenReachesTheWire, d
  <2>1. req = body
    <3>1. \A b : Decode("canonical", b) = b
      BY DEF Decode
    <3> QED  BY <3>1 DEF req
  <2>2. LET fields == Encode(d, p).fields
            typed == Typed(d, p)
            slots == Slots(d, Sets(p, "reasoning"))
        IN  /\ \A q \in DOMAIN req.extra :
                   \/ q[1] \in cfg.unsupported
                   \/ q \in DOMAIN fields
                   \/ \E t \in DOMAIN typed : t[1] = q[1] /\ (Len(q) = 1 \/ Len(t) = 1)
            /\ \A k \in DOMAIN req.knobs \cap DOMAIN slots :
                   \/ k \in cfg.unsupported \cup {"max_tokens"}
                   \/ k \notin Spoken(d, p)
                   \/ fields[slots[k]] = Value(d, k, req.knobs[k])
    BY <1>1, <1>4, <1>7, GivenIsThere
  <2> HIDE DEF p
  <2> QED  BY <1>2, <1>3, <1>5, <2>1, <2>2, Zenon DEF GivenReachesTheWire, d
<1>13. AnsweredStaysHere
  <2> SUFFICES ASSUME Client # "canonical" PROVE AnsweredStaysHere
    BY Zenon DEF AnsweredStaysHere
  <2>1. Under(req.extra, "stream_options") = {}
    <3>1. PICK extra : req.extra = Rest(extra, Under(extra, "stream_options"))
      BY ThePlay, <1>1, DecodedFields, Zenon DEF req
    <3>2. \A q \in DOMAIN req.extra : q \in DOMAIN extra /\ q[1] # "stream_options"
      BY <3>1 DEF Rest, Under
    <3> QED  BY <3>2 DEF Under
  <2>2. \A q \in Under(Encode(d, p).fields, "stream_options") : q \in DOMAIN Typed(d, p) \cup DOMAIN cfg.extra
    BY <1>1, <1>4, <2>1, OthersAreAbsent
  <2>3. cfg.extra = row.extra
    <3>1. DOMAIN row = RowFields
      BY <1>1 DEF IsScene
    <3> QED  BY <3>1 DEF cfg, Config, RowFields
  <2> HIDE DEF p
  <2> QED  BY <1>2, <1>3, <2>2, <2>3, Zenon DEF AnsweredStaysHere, d
<1> QED  BY <1>8, <1>9, <1>10, <1>11, <1>12, <1>13 DEF PreparedAsPromised

\* Whatever is sent has kept what was promised of it: the cap leaves room for the budget,
\* the preamble leads once, what the row strips is off, what is given is there, and what
\* is counted is what is sent (send_encoded, and the order of its four steps).
THEOREM PromisesKept == Spec => []PreparedAsPromised
<1>1. Init => PromiseInv
  BY PromiseBegins
<1>2. ConversationInv /\ PromiseInv /\ [Next]_vars => PromiseInv'
  <2> SUFFICES ASSUME ConversationInv, PromiseInv, [Next]_vars PROVE PromiseInv'
    OBVIOUS
  <2>1. CASE Say
    BY <2>1, SayKeeps, PromiseGrows
  <2>2. CASE Instruct
    BY <2>2, InstructKeeps, PromiseInstructed
  <2>3. CASE Answer
    BY <2>3, AnswerKeeps, PromiseGrows
  <2>4. CASE Return
    BY <2>4, ReturnKeeps, PromiseGrows
  <2>5. CASE UNCHANGED <<scene, row, body, said, answers>>
    <3>1. Gathered(TheMessages') \in Seq(PlainBlocks)
      <4>1. TheMessages' = TheMessages
        BY <2>5, Unmoved
      <4> QED  BY <4>1, Zenon DEF PromiseInv
    <3>2. Stays
      BY <2>5 DEF Stays, Leading, Given, Client, Play
    <3> QED  BY <3>1, <3>2, PromiseStays
  <2>6. ASSUME \E d \in Play.to : Send(d) PROVE PromiseInv'
    BY <2>5, <2>6 DEF Send
  <2>7. ASSUME UNCHANGED vars PROVE PromiseInv'
    BY <2>5, <2>7 DEF vars
  <2> QED  BY <2>1, <2>2, <2>3, <2>4, <2>6, <2>7 DEF Next
<1>3. ConversationInv /\ PromiseInv => PreparedAsPromised
  <2>1. ~Went => PreparedAsPromised
    BY DEF PreparedAsPromised, CountsWhatIsSent, CapExceedsBudget, PreambleLeadsOnce,
           StrippedStaysOff, GivenReachesTheWire, AnsweredStaysHere
  <2> QED  BY <2>1, Promised
<1> QED  BY <1>1, <1>2, <1>3, ConversationHolds, PTL DEF Spec
===============================================================================
