---------------------------- MODULE MasqueradeProof ----------------------------
EXTENDS Masquerade, FiniteSetTheorems, WellFoundedInduction, TLAPS

(***************************************************************************)
(* Sequences of anything.                                                  *)
(***************************************************************************)
IsSeq(q) == \E S : q \in Seq(S)

\* A set of natural numbers has a least element.
LEMMA LeastElement ==
    ASSUME NEW S \in SUBSET Nat, S # {}
    PROVE  \E m \in S : \A x \in S : m <= x
<1> DEFINE R == {r \in Nat \X Nat : r[1] < r[2]}
<1>1. R = OpToRel(<, Nat)
  BY Zenon DEF OpToRel
<1>2. IsWellFoundedOn(R, Nat)
  BY <1>1, NatLessThanWellFounded, Zenon
<1> HIDE DEF R
<1>3. PICK m \in S : \A x \in S : ~ (<<x, m>> \in R)
  BY <1>2, WFMin, Zenon
<1>4. \A x \in Nat : x < m => <<x, m>> \in R
  BY DEF R
<1>5. \A x \in S : m <= x
  <2> SUFFICES ASSUME NEW x \in S PROVE m <= x
    OBVIOUS
  <2>1. ~ (x < m)
    BY <1>3, <1>4
  <2> QED  BY <2>1
<1> QED  BY <1>5

LEMMA EmptyIsSeq == IsSeq(<<>>) /\ Len(<<>>) = 0
<1>1. <<>> \in Seq({})
  OBVIOUS
<1> QED  BY <1>1 DEF IsSeq

LEMMA AppendIs ==
    ASSUME NEW q, IsSeq(q), NEW x
    PROVE  /\ IsSeq(Append(q, x)) /\ Len(q) \in Nat /\ Len(Append(q, x)) = Len(q) + 1
           /\ \A n \in 1..Len(q) : Append(q, x)[n] = q[n]
           /\ Append(q, x)[Len(q) + 1] = x
           /\ Append(q, x) # <<>>
<1>1. PICK S : q \in Seq(S)
  BY DEF IsSeq
<1>2. q \in Seq(S \cup {x})
  BY <1>1
<1>3. Append(q, x) \in Seq(S \cup {x})
  BY <1>2
<1> QED  BY <1>2, <1>3 DEF IsSeq

LEMMA SeqIs ==
    ASSUME NEW q, IsSeq(q)
    PROVE  Len(q) \in Nat /\ DOMAIN q = 1..Len(q) /\ (q = <<>> <=> Len(q) = 0)
           /\ q \o <<>> = q
<1>1. PICK S : q \in Seq(S)
  BY DEF IsSeq
<1> QED  BY <1>1

LEMMA ConcatAppend ==
    ASSUME NEW q, IsSeq(q), NEW r, IsSeq(r), NEW x
    PROVE  q \o Append(r, x) = Append(q \o r, x) /\ IsSeq(q \o r)
<1>1. PICK S : q \in Seq(S)
  BY DEF IsSeq
<1>2. PICK T : r \in Seq(T)
  BY DEF IsSeq
<1> DEFINE U == S \cup T \cup {x}
<1>3. q \in Seq(U) /\ r \in Seq(U) /\ x \in U
  BY <1>1, <1>2
<1> HIDE DEF U
<1>4. q \o r \in Seq(U)
  BY <1>3
<1>5. Append(r, x) \in Seq(U)
  BY <1>3
<1>6. q \o Append(r, x) = Append(q \o r, x)
  BY <1>3, <1>4, <1>5
<1> QED  BY <1>4, <1>6 DEF IsSeq

LEMMA SetAt ==
    ASSUME NEW q, IsSeq(q), NEW n \in 1..Len(q), NEW v
    PROVE  LET r == [q EXCEPT ![n] = v]
           IN  IsSeq(r) /\ Len(r) = Len(q) /\ \A m \in 1..Len(q) : r[m] = IF m = n THEN v ELSE q[m]
<1>1. PICK S : q \in Seq(S)
  BY DEF IsSeq
<1>2. q \in Seq(S \cup {v})
  BY <1>1
<1>3. [q EXCEPT ![n] = v] \in Seq(S \cup {v})
  BY <1>2
<1> QED  BY <1>2, <1>3 DEF IsSeq

LEMMA TailIs ==
    ASSUME NEW q, IsSeq(q), q # <<>>
    PROVE  /\ IsSeq(Tail(q)) /\ Len(Tail(q)) = Len(q) - 1 /\ Head(q) = q[1] /\ 1 \in 1..Len(q)
           /\ \A n \in 1..Len(Tail(q)) : Tail(q)[n] = q[n + 1] /\ n + 1 \in 1..Len(q)
<1>1. PICK S : q \in Seq(S)
  BY DEF IsSeq
<1> QED  BY <1>1 DEF IsSeq

(***************************************************************************)
(* The events of an answer, from those a client has been told.  c says     *)
(* what it knows: which blocks are open, which were used, whether there    *)
(* was a start, a verdict, an error.                                       *)
(***************************************************************************)
Fresh == [started |-> FALSE, open |-> {}, used |-> {}, done |-> FALSE, failed |-> FALSE]

IsKnown(c) ==
    /\ c.started \in BOOLEAN /\ c.done \in BOOLEAN /\ c.failed \in BOOLEAN
    /\ c.open \subseteq c.used
    /\ c.done => c.open = {}
    /\ c.done \/ c.open # {} => c.started

Knows(c, e) ==
    [started |-> c.started \/ e.type = "MessageStart",
     open |-> CASE e.type = "ContentStart" -> c.open \cup {e.index}
                [] e.type = "ContentStop"  -> c.open \ {e.index}
                [] OTHER -> c.open,
     used |-> IF e.type = "ContentStart" THEN c.used \cup {e.index} ELSE c.used,
     done |-> c.done \/ e.type = "Finish",
     failed |-> c.failed \/ e.type = "Error"]

\* e may follow when c is known.
May(c, e) ==
    /\ e.type = "MessageStart" => ~ c.started
    /\ e.type \in {"ContentStart", "Usage", "Finish"} => c.started
    /\ e.type \in {"ContentStart", "Finish"} => ~ c.done
    /\ e.type = "ContentStart" => e.index \notin c.used
    /\ e.type \in {"ContentDelta", "ContentStop"} => e.index \in c.open
    /\ e.type = "Finish" => c.open = {}
    /\ e.type = "End" => c.done \/ c.failed

\* q is the rest of an answer of which c is known: IsStream for what is left.
Follows(q, c) ==
    /\ IsSeq(q) /\ q # <<>> /\ IsKnown(c)
    /\ \A n \in 1..Len(q) :
         LET e == q[n]
             opened == Before(q, n, "ContentStart")
             stopped == Before(q, n, "ContentStop")
         IN  /\ e \in Event
             /\ e.type = "End" <=> n = Len(q)
             /\ e.type = "MessageStart" => ~ c.started /\ Before(q, n, "MessageStart") = {}
             /\ e.type \in {"ContentStart", "Usage", "Finish"} =>
                  c.started \/ Before(q, n, "MessageStart") # {}
             /\ e.type \in {"ContentStart", "Finish"} => ~ c.done /\ Before(q, n, "Finish") = {}
             /\ e.type = "ContentStart" => e.index \notin c.used /\ \A m \in opened : q[m].index # e.index
             /\ e.type \in {"ContentDelta", "ContentStop"} =>
                  /\ e.index \in c.open \/ \E m \in opened : q[m].index = e.index
                  /\ \A m \in stopped : q[m].index # e.index
             /\ e.type = "Finish" =>
                  /\ \A i \in c.open : \E l \in stopped : q[l].index = i
                  /\ \A m \in opened : \E l \in stopped : q[l].index = q[m].index
             /\ e.type = "End" => c.done \/ c.failed \/ Before(q, n, "Finish") \cup Before(q, n, "Error") # {}

LEMMA StreamFollows ==
    ASSUME NEW q \in Seq(Event), IsStream(q)
    PROVE  Follows(q, Fresh)
<1>1. IsSeq(q) /\ \A n \in 1..Len(q) : q[n] \in Event
  BY DEF IsSeq
<1>2. IsKnown(Fresh)
  BY DEF IsKnown, Fresh
<1> QED  BY <1>1, <1>2 DEF IsStream, Follows, Fresh

LEMMA HeadMay ==
    ASSUME NEW q, NEW c, Follows(q, c)
    PROVE  Head(q) \in Event /\ May(c, Head(q)) /\ (Head(q).type = "End" <=> Len(q) = 1)
<1>1. IsSeq(q) /\ q # <<>> /\ 1 \in 1..Len(q) /\ Head(q) = q[1] /\ Len(q) \in Nat
  BY TailIs, SeqIs DEF Follows
<1>2. \A t : Before(q, 1, t) = {}
  BY <1>1 DEF Before
<1> QED  BY <1>1, <1>2 DEF Follows, May

\* Once the next event is told, the rest follows.
LEMMA TailFollows ==
    ASSUME NEW q, NEW c, Follows(q, c), Head(q).type # "End"
    PROVE  Follows(Tail(q), Knows(c, Head(q)))
<1> DEFINE t == Tail(q)
           h == Head(q)
           d == Knows(c, h)
<1>1. /\ IsSeq(q) /\ q # <<>> /\ 1 \in 1..Len(q) /\ h = q[1] /\ Len(q) \in Nat
      /\ IsSeq(t) /\ Len(t) = Len(q) - 1
      /\ \A n \in 1..Len(t) : t[n] = q[n + 1] /\ n + 1 \in 1..Len(q)
  BY TailIs, SeqIs DEF Follows
<1>2. h \in Event /\ May(c, h) /\ Len(q) # 1 /\ IsKnown(c)
  BY HeadMay DEF Follows
<1>3. t # <<>> /\ Len(t) \in Nat
  <2>1. Len(t) # 0 /\ IsSeq(t)
    BY <1>1, <1>2
  <2> HIDE DEF t
  <2> QED  BY <2>1, SeqIs
<1>4. /\ d.started = (c.started \/ h.type = "MessageStart") /\ d.done = (c.done \/ h.type = "Finish")
      /\ d.failed = (c.failed \/ h.type = "Error")
      /\ h.type = "ContentStart" => d.open = c.open \cup {h.index} /\ d.used = c.used \cup {h.index}
      /\ h.type = "ContentStop" => d.open = c.open \ {h.index}
      /\ h.type \notin {"ContentStart", "ContentStop"} => d.open = c.open
      /\ h.type # "ContentStart" => d.used = c.used
  BY DEF Knows
<1> HIDE DEF t, h, d
<1>5. IsKnown(d)
  BY <1>2, <1>4 DEF IsKnown, May
<1>6. ASSUME NEW n \in 1..Len(t)
      PROVE  /\ \A y : \A m \in Before(t, n, y) : m + 1 \in Before(q, n + 1, y) /\ t[m] = q[m + 1]
             /\ \A y : \A m \in Before(q, n + 1, y) :
                  (m = 1 /\ h.type = y) \/ (m - 1 \in Before(t, n, y) /\ t[m - 1] = q[m])
             /\ \A y : h.type = y => 1 \in Before(q, n + 1, y)
  <2>1. n \in Nat /\ n + 1 \in 1..Len(q)
    BY <1>1
  <2>2. ASSUME NEW y, NEW m \in Before(t, n, y)
        PROVE  m + 1 \in Before(q, n + 1, y) /\ t[m] = q[m + 1]
    BY <1>1, <2>1, <2>2 DEF Before
  <2>3. ASSUME NEW y, NEW m \in Before(q, n + 1, y)
        PROVE  (m = 1 /\ h.type = y) \/ (m - 1 \in Before(t, n, y) /\ t[m - 1] = q[m])
    <3>1. CASE m = 1
      BY <1>1, <2>3, <3>1 DEF Before
    <3>2. CASE m # 1
      <4>1. m - 1 \in 1..(n - 1) /\ m - 1 \in 1..Len(t) /\ (m - 1) + 1 = m
        BY <1>1, <2>1, <2>3, <3>2 DEF Before
      <4> QED  BY <1>1, <2>3, <4>1 DEF Before
    <3> QED  BY <3>1, <3>2
  <2>4. ASSUME NEW y, h.type = y PROVE 1 \in Before(q, n + 1, y)
    BY <1>1, <2>1, <2>4 DEF Before
  <2> QED  BY <2>2, <2>3, <2>4
<1>7. ASSUME NEW n \in 1..Len(t)
      PROVE  LET e == t[n]
                 opened == Before(t, n, "ContentStart")
                 stopped == Before(t, n, "ContentStop")
             IN  /\ e \in Event
                 /\ e.type = "End" <=> n = Len(t)
                 /\ e.type = "MessageStart" => ~ d.started /\ Before(t, n, "MessageStart") = {}
                 /\ e.type \in {"ContentStart", "Usage", "Finish"} =>
                      d.started \/ Before(t, n, "MessageStart") # {}
                 /\ e.type \in {"ContentStart", "Finish"} => ~ d.done /\ Before(t, n, "Finish") = {}
                 /\ e.type = "ContentStart" => e.index \notin d.used /\ \A m \in opened : t[m].index # e.index
                 /\ e.type \in {"ContentDelta", "ContentStop"} =>
                      /\ e.index \in d.open \/ \E m \in opened : t[m].index = e.index
                      /\ \A m \in stopped : t[m].index # e.index
                 /\ e.type = "Finish" =>
                      /\ \A i \in d.open : \E l \in stopped : t[l].index = i
                      /\ \A m \in opened : \E l \in stopped : t[l].index = t[m].index
                 /\ e.type = "End" =>
                      d.done \/ d.failed \/ Before(t, n, "Finish") \cup Before(t, n, "Error") # {}
  <2> DEFINE e == t[n]
             B(y) == Before(q, n + 1, y)
             A(y) == Before(t, n, y)
  <2>1. n + 1 \in 1..Len(q) /\ e = q[n + 1] /\ (n + 1 = Len(q) <=> n = Len(t))
    BY <1>1
  <2>2. /\ e \in Event /\ (e.type = "End" <=> n + 1 = Len(q))
        /\ e.type = "MessageStart" => ~ c.started /\ B("MessageStart") = {}
        /\ e.type \in {"ContentStart", "Usage", "Finish"} => c.started \/ B("MessageStart") # {}
        /\ e.type \in {"ContentStart", "Finish"} => ~ c.done /\ B("Finish") = {}
        /\ e.type = "ContentStart" =>
             e.index \notin c.used /\ \A m \in B("ContentStart") : q[m].index # e.index
        /\ e.type \in {"ContentDelta", "ContentStop"} =>
             /\ e.index \in c.open \/ \E m \in B("ContentStart") : q[m].index = e.index
             /\ \A m \in B("ContentStop") : q[m].index # e.index
        /\ e.type = "Finish" =>
             /\ \A i \in c.open : \E l \in B("ContentStop") : q[l].index = i
             /\ \A m \in B("ContentStart") : \E l \in B("ContentStop") : q[l].index = q[m].index
        /\ e.type = "End" => c.done \/ c.failed \/ B("Finish") \cup B("Error") # {}
    BY <2>1 DEF Follows
  <2>3. /\ \A y : \A m \in A(y) : m + 1 \in B(y) /\ t[m] = q[m + 1]
        /\ \A y : \A m \in B(y) : (m = 1 /\ h.type = y) \/ (m - 1 \in A(y) /\ t[m - 1] = q[m])
        /\ \A y : h.type = y => 1 \in B(y)
    BY <1>6
  <2>4. q[1] = h
    BY <1>1
  <2> HIDE DEF e, A, B
  <2>5. e.type = "MessageStart" => ~ d.started /\ A("MessageStart") = {}
    BY <1>4, <2>2, <2>3
  <2>6. e.type \in {"ContentStart", "Usage", "Finish"} => d.started \/ A("MessageStart") # {}
    BY <1>4, <2>2, <2>3
  <2>7. e.type \in {"ContentStart", "Finish"} => ~ d.done /\ A("Finish") = {}
    BY <1>4, <2>2, <2>3
  <2>8. e.type = "ContentStart" => e.index \notin d.used /\ \A m \in A("ContentStart") : t[m].index # e.index
    BY <1>4, <2>2, <2>3, <2>4
  <2>9. ASSUME e.type \in {"ContentDelta", "ContentStop"}
        PROVE  /\ e.index \in d.open \/ \E m \in A("ContentStart") : t[m].index = e.index
               /\ \A m \in A("ContentStop") : t[m].index # e.index
    <3>1. h.type = "ContentStop" => h.index # e.index
      BY <2>2, <2>3, <2>4, <2>9
    <3>2. CASE e.index \in c.open
      BY <1>4, <2>2, <2>3, <2>9, <3>1, <3>2
    <3>3. CASE \E m \in B("ContentStart") : q[m].index = e.index
      <4>1. PICK m \in B("ContentStart") : q[m].index = e.index
        BY <3>3
      <4> QED  BY <1>4, <2>2, <2>3, <2>4, <2>9, <3>1, <4>1
    <3> QED  BY <2>2, <2>9, <3>2, <3>3
  <2>10. ASSUME e.type = "Finish"
         PROVE  /\ \A i \in d.open : \E l \in A("ContentStop") : t[l].index = i
                /\ \A m \in A("ContentStart") : \E l \in A("ContentStop") : t[l].index = t[m].index
    <3>1. ASSUME NEW i, i \in c.open \/ \E m \in B("ContentStart") : q[m].index = i,
                 h.type = "ContentStop" => h.index # i
          PROVE  \E l \in A("ContentStop") : t[l].index = i
      <4>1. PICK l \in B("ContentStop") : q[l].index = i
        BY <2>2, <2>10, <3>1
      <4>2. ~ (l = 1 /\ h.type = "ContentStop")
        BY <2>4, <3>1, <4>1
      <4>3. l - 1 \in A("ContentStop") /\ t[l - 1] = q[l]
        BY <2>3, <4>1, <4>2
      <4> QED  BY <4>1, <4>3
    <3>2. ASSUME NEW i \in d.open PROVE \E l \in A("ContentStop") : t[l].index = i
      <4>1. h.type = "ContentStop" => h.index # i
        BY <1>4, <3>2
      <4>2. i \in c.open \/ (h.type = "ContentStart" /\ h.index = i)
        BY <1>4, <3>2
      <4>3. i \in c.open \/ \E m \in B("ContentStart") : q[m].index = i
        BY <2>3, <2>4, <4>2
      <4> QED  BY <3>1, <4>1, <4>3
    <3>3. ASSUME NEW m \in A("ContentStart")
          PROVE  \E l \in A("ContentStop") : t[l].index = t[m].index
      <4>1. m + 1 \in B("ContentStart") /\ t[m] = q[m + 1]
        BY <2>3
      <4>2. h.type = "ContentStop" => h.index # t[m].index
        <5> SUFFICES ASSUME h.type = "ContentStop", h.index = t[m].index PROVE FALSE
          OBVIOUS
        <5>1. h.index \in c.used
          BY <1>2 DEF May, IsKnown
        <5>2. m \in 1..(n - 1) /\ t[m].type = "ContentStart" /\ m \in 1..Len(t)
          BY <1>1 DEF A, Before
        <5>3. m + 1 \in 1..Len(q) /\ q[m + 1].type = "ContentStart"
          BY <1>1, <4>1, <5>2
        <5>4. q[m + 1].index \notin c.used
          BY <5>3 DEF Follows
        <5> QED  BY <4>1, <5>1, <5>4
      <4> QED  BY <3>1, <4>1, <4>2
    <3> QED  BY <3>2, <3>3
  <2>11. e.type = "End" => d.done \/ d.failed \/ A("Finish") \cup A("Error") # {}
    BY <1>4, <2>2, <2>3
  <2>12. e \in Event /\ (e.type = "End" <=> n = Len(t))
    BY <2>1, <2>2
  <2> QED  BY <2>5, <2>6, <2>7, <2>8, <2>9, <2>10, <2>11, <2>12 DEF e, A
<1> HIDE DEF Follows
<1>8. Follows(t, d)
  BY <1>1, <1>3, <1>5, <1>7 DEF Follows
<1> QED  BY <1>8 DEF t, d, h

(***************************************************************************)
(* What a client gathers from the frames.                                  *)
(***************************************************************************)
\* g says what has been gathered after each of the first m frames.
Gathers(g, d, fs, m) ==
    g = [n \in 0..m |-> IF n = 0 THEN NoneOf(d) ELSE Gather(d, g[n - 1], fs[n].frame)]

LEMMA GathersAt ==
    ASSUME NEW d, NEW fs, NEW m \in Nat, NEW g, Gathers(g, d, fs, m)
    PROVE  g[0] = NoneOf(d) /\ \A n \in 1..m : g[n] = Gather(d, g[n - 1], fs[n].frame)
<1>1. g[0] = NoneOf(d)
  BY DEF Gathers
<1>2. ASSUME NEW n \in 1..m PROVE g[n] = Gather(d, g[n - 1], fs[n].frame)
  <2>1. n \in 0..m /\ n # 0
    OBVIOUS
  <2> QED  BY <2>1 DEF Gathers
<1> QED  BY <1>1, <1>2

LEMMA GathersExists ==
    ASSUME NEW d, NEW fs, NEW m \in Nat
    PROVE  \E g : Gathers(g, d, fs, m)
<1> DEFINE S == {n \in Nat : ~ \E g : Gathers(g, d, fs, n)}
<1> SUFFICES ASSUME S # {} PROVE FALSE
  OBVIOUS
<1>1. PICK n \in S : \A j \in S : n <= j
  BY LeastElement
<1>2. n \in Nat /\ ~ \E g : Gathers(g, d, fs, n)
  OBVIOUS
<1>3. CASE n = 0
  <2> DEFINE g == [k \in {0} |-> NoneOf(d)]
  <2>1. Gathers(g, d, fs, 0)
    <3>1. 0..0 = {0} /\ g[0] = NoneOf(d)
      OBVIOUS
    <3> QED  BY <3>1 DEF Gathers
  <2> QED  BY <1>2, <1>3, <2>1
<1>4. CASE n # 0
  <2>1. n - 1 \in Nat /\ n - 1 \notin S
    BY <1>1, <1>2, <1>4
  <2>2. PICK g : Gathers(g, d, fs, n - 1)
    BY <2>1
  <2> DEFINE h == [k \in 0..n |-> IF k = n THEN Gather(d, g[n - 1], fs[n].frame) ELSE g[k]]
  <2>3. \A k \in 0..n : h[k] = IF k = n THEN Gather(d, g[n - 1], fs[n].frame) ELSE g[k]
    OBVIOUS
  <2>4. \A k \in 0..n : k # 0 => k - 1 \in 0..n /\ k - 1 # n /\ h[k - 1] = g[k - 1]
    BY <1>2, <2>3
  <2>5. g[0] = NoneOf(d) /\ \A k \in 1..(n - 1) : g[k] = Gather(d, g[k - 1], fs[k].frame)
    BY <2>1, <2>2, GathersAt
  <2>6. ASSUME NEW k \in 0..n
        PROVE  h[k] = IF k = 0 THEN NoneOf(d) ELSE Gather(d, h[k - 1], fs[k].frame)
    <3>1. CASE k = 0
      BY <1>2, <1>4, <2>3, <2>5, <3>1
    <3>2. CASE k = n
      BY <1>4, <2>3, <2>4, <3>2
    <3>3. CASE k \in 1..(n - 1)
      <4>1. k \in 0..n /\ k # n /\ k # 0
        BY <1>2, <3>3
      <4>2. h[k] = Gather(d, h[k - 1], fs[k].frame)
        BY <2>3, <2>4, <2>5, <3>3, <4>1
      <4> QED  BY <4>1, <4>2
    <3> QED  BY <1>2, <3>1, <3>2, <3>3
  <2>7. Gathers(h, d, fs, n)
    <3> DEFINE F(k) == IF k = 0 THEN NoneOf(d) ELSE Gather(d, h[k - 1], fs[k].frame)
    <3>1. h = [k \in 0..n |-> h[k]] /\ \A k \in 0..n : h[k] = F(k)
      BY <2>6
    <3> HIDE DEF h, F
    <3>2. h = [k \in 0..n |-> F(k)]
      BY <3>1
    <3> QED  BY <3>2 DEF F, Gathers
  <2> QED  BY <1>2, <2>7
<1> QED  BY <1>3, <1>4

LEMMA GatheredIs ==
    ASSUME NEW d, NEW fs, IsSeq(fs)
    PROVE  \E g : Gathers(g, d, fs, Len(fs)) /\ Gathered(d, fs) = g[Len(fs)]
<1>1. \E g : Gathers(g, d, fs, Len(fs))
  BY SeqIs, GathersExists
<1> DEFINE g == CHOOSE g : Gathers(g, d, fs, Len(fs))
<1>2. Gathers(g, d, fs, Len(fs))
  BY <1>1
<1>3. Gathered(d, fs) = g[Len(fs)]
  BY DEF Gathered, Gathers
<1> QED  BY <1>2, <1>3

LEMMA GatheredNone ==
    ASSUME NEW d
    PROVE  Gathered(d, <<>>) = NoneOf(d)
<1>1. PICK g : Gathers(g, d, <<>>, 0) /\ Gathered(d, <<>>) = g[0]
  BY EmptyIsSeq, GatheredIs
<1> QED  BY <1>1, GathersAt

\* One more frame.
LEMMA GatheredMore ==
    ASSUME NEW d, NEW fs, IsSeq(fs), NEW x
    PROVE  Gathered(d, Append(fs, x)) = Gather(d, Gathered(d, fs), x.frame)
<1> DEFINE fx == Append(fs, x)
           m == Len(fs)
<1>1. IsSeq(fx) /\ m \in Nat /\ Len(fx) = m + 1 /\ fx[m + 1] = x /\ \A n \in 1..m : fx[n] = fs[n]
  BY AppendIs
<1> HIDE DEF fx
<1>2. PICK g : Gathers(g, d, fs, m) /\ Gathered(d, fs) = g[m]
  BY GatheredIs
<1>3. PICK h : Gathers(h, d, fx, m + 1) /\ Gathered(d, fx) = h[m + 1]
  BY <1>1, GatheredIs
<1>4. g[0] = NoneOf(d) /\ \A n \in 1..m : g[n] = Gather(d, g[n - 1], fs[n].frame)
  BY <1>1, <1>2, GathersAt
<1>5. h[0] = NoneOf(d) /\ \A n \in 1..(m + 1) : h[n] = Gather(d, h[n - 1], fx[n].frame)
  BY <1>1, <1>3, GathersAt
<1>6. g[m] = h[m]
  <2> DEFINE S == {n \in Nat : n <= m /\ g[n] # h[n]}
  <2> SUFFICES ASSUME S # {} PROVE FALSE
    BY <1>1
  <2>1. PICK n \in S : \A j \in S : n <= j
    BY LeastElement
  <2>2. n # 0 /\ n \in 1..m
    BY <1>1, <1>4, <1>5
  <2>3. n - 1 \in Nat /\ n - 1 <= m /\ n - 1 \notin S
    BY <1>1, <2>1, <2>2
  <2>4. g[n - 1] = h[n - 1]
    BY <2>3
  <2>5. n \in 1..(m + 1) /\ fx[n] = fs[n]
    BY <1>1, <2>2
  <2> QED  BY <1>4, <1>5, <2>2, <2>4, <2>5
<1>7. m + 1 \in 1..(m + 1) /\ (m + 1) - 1 = m
  BY <1>1
<1>8. h[m + 1] = Gather(d, h[m], fx[m + 1].frame)
  BY <1>5, <1>7
<1>9. Gathered(d, fx) = Gather(d, Gathered(d, fs), x.frame)
  BY <1>1, <1>2, <1>3, <1>6, <1>8
<1> QED  BY <1>9 DEF fx

(***************************************************************************)
(* The encoder's state and what it may put out.                            *)
(***************************************************************************)
Codes == {HttpStatus[k] : k \in ErrorKinds}

Fields == {"dialect", "answer", "stream", "include_usage", "pending", "adapted", "slots", "text", "refusal",
           "tools", "finish", "counted", "error", "blocks", "stash", "content", "out"}

IsEncoder(s) ==
    /\ DOMAIN s = Fields
    /\ {s.stream, s.include_usage, s.pending, s.adapted, s.refusal, s.counted} \subseteq BOOLEAN
    /\ IsSeq(s.text) /\ IsSeq(s.tools) /\ IsSeq(s.blocks) /\ IsSeq(s.content) /\ IsSeq(s.out)

\* t is s, but for the fields F.
Only(s, t, F) == IsEncoder(t) /\ \A x \in Fields \ F : t[x] = s[x]

Said(s, f) == [told |-> s.pending, frame |-> f]
Tells(s, t, f) ==
    /\ t.out = IF s.stream THEN Append(s.out, Said(s, f)) ELSE s.out
    /\ t.pending = (s.pending /\ ~ s.stream)
Silent(s, t) == t.out = s.out /\ t.pending = s.pending

LEMMA FrameIs ==
    ASSUME NEW s, IsEncoder(s), NEW f
    PROVE  LET t == Frame(s, f)
           IN  Only(s, t, {"out", "pending"}) /\ Tells(s, t, f)
<1> DEFINE x == [told |-> s.pending, frame |-> f]
<1>1. IsSeq(Append(s.out, x))
  BY AppendIs DEF IsEncoder
<1> QED  BY <1>1 DEF IsEncoder, Only, Tells, Said, Frame, Fields

\* A frame after other changes.
LEMMA FramedIs ==
    ASSUME NEW s, IsEncoder(s), NEW F, F \cap {"out", "pending", "stream"} = {}, NEW u, Only(s, u, F),
           NEW f
    PROVE  LET t == Frame(u, f)
           IN  /\ Only(s, t, F \cup {"out", "pending"}) /\ Tells(s, t, f)
               /\ \A x \in Fields \ {"out", "pending"} : t[x] = u[x]
<1> DEFINE t == Frame(u, f)
<1>1. Only(u, t, {"out", "pending"}) /\ Tells(u, t, f)
  BY FrameIs DEF Only
<1> HIDE DEF t
<1>2. u.out = s.out /\ u.pending = s.pending /\ u.stream = s.stream
  BY DEF Only, Fields
<1>3. Tells(s, t, f)
  BY <1>1, <1>2 DEF Tells, Said
<1>4. Only(s, t, F \cup {"out", "pending"}) /\ \A x \in Fields \ {"out", "pending"} : t[x] = u[x]
  BY <1>1 DEF Only
<1> QED  BY <1>3, <1>4 DEF t

\* Chat, event by event.
LEMMA RoleTold ==
    ASSUME NEW s, IsEncoder(s), NEW e, e.type = "MessageStart"
    PROVE  LET t == ChatEncode(e, s)
           IN  Only(s, t, {"out", "pending"}) /\ Tells(s, t, [type |-> "role"])
<1>1. ChatEncode(e, s) = Frame(s, [type |-> "role"])
  BY DEF ChatEncode
<1> QED  BY <1>1, FrameIs

LEMMA CallTold ==
    ASSUME NEW s, IsEncoder(s), NEW e, e.type = "ContentStart", e.kind = "ToolUse"
    PROVE  LET t == ChatEncode(e, s)
               id == CallId(s.answer, e)
           IN  /\ Only(s, t, {"slots", "tools", "out", "pending"})
               /\ Tells(s, t, [type |-> "tool", index |-> Len(s.tools), id |-> id])
               /\ t.slots = Insert(s.slots, e.index, [type |-> "Tool", at |-> Len(s.tools) + 1])
               /\ t.tools = Append(s.tools, [id |-> id, args |-> <<>>, signed |-> FALSE])
<1> DEFINE id == CallId(s.answer, e)
           y == [id |-> id, args |-> <<>>, signed |-> FALSE]
           z == Insert(s.slots, e.index, [type |-> "Tool", at |-> Len(s.tools) + 1])
           f == [type |-> "tool", index |-> Len(s.tools), id |-> id]
           q == Append(s.tools, y)
<1>1. IsSeq(q)
  BY AppendIs DEF IsEncoder
<1> HIDE DEF id, z, y, f, q
<1> DEFINE u == [[s EXCEPT !.slots = z] EXCEPT !.tools = Append([s EXCEPT !.slots = z].tools, y)]
<1>2. ChatEncode(e, s) = Frame(u, f)
  BY DEF ChatEncode, ChatStart, CallStart, Slot, id, z, y, f
<1>3. Only(s, u, {"slots", "tools"}) /\ u.slots = z /\ u.tools = q
  BY <1>1 DEF IsEncoder, Only, Fields, q
<1> HIDE DEF u
<1> DEFINE t == Frame(u, f)
<1>4. /\ Only(s, t, {"slots", "tools"} \cup {"out", "pending"}) /\ Tells(s, t, f)
      /\ \A x \in Fields \ {"out", "pending"} : t[x] = u[x]
  BY <1>3, FramedIs
<1> HIDE DEF t
<1>5. Only(s, t, {"slots", "tools", "out", "pending"}) /\ Tells(s, t, f) /\ t.slots = z /\ t.tools = q
  BY <1>3, <1>4 DEF Only, Fields
<1> QED  BY <1>2, <1>5 DEF id, z, y, f, q, t

\* What may be added to the blocks kept for the stash.
Grows(s, t, isCall) ==
    \/ t.blocks = s.blocks
    \/ \E b : /\ t.blocks = Append(s.blocks, b) /\ b.turn = s.answer.turn
              /\ b.type = "ToolUse" => isCall /\ \E n \in DOMAIN s.tools : b.id = s.tools[n].id

LEMMA BlockTold ==
    ASSUME NEW s, IsEncoder(s), NEW e, e.type = "ContentStart", e.kind # "ToolUse"
    PROVE  LET t == ChatEncode(e, s)
           IN  /\ Only(s, t, {"slots", "blocks"}) /\ Grows(s, t, FALSE)
               /\ \E z : z.type # "Tool" /\ t.slots = Insert(s.slots, e.index, z)
<1> DEFINE t == ChatEncode(e, s)
<1>1. CASE e.kind \in {"Text", "Thinking"}
  <2>1. PICK z : z.type # "Tool" /\ t = [s EXCEPT !.slots = Insert(s.slots, e.index, z)]
    <3>1. CASE e.kind = "Text"
      BY <3>1 DEF ChatEncode, ChatStart, Slot
    <3>2. CASE e.kind = "Thinking"
      BY <3>2 DEF ChatEncode, ChatStart, Slot, Thinks
    <3> QED  BY <1>1, <3>1, <3>2
  <2> HIDE DEF t
  <2>2. Only(s, t, {"slots", "blocks"}) /\ t.slots = Insert(s.slots, e.index, z) /\ t.blocks = s.blocks
    BY <2>1 DEF IsEncoder, Only, Fields
  <2> QED  BY <2>1, <2>2 DEF Grows, t
<1>2. CASE e.kind = "RedactedThinking"
  <2> DEFINE b == [type |-> "RedactedThinking", turn |-> s.answer.turn]
             z == [type |-> "Skip"]
             y == Insert(s.slots, e.index, z)
             q == Append(s.blocks, b)
  <2>1. IsSeq(q)
    BY AppendIs DEF IsEncoder
  <2>2. t = [[s EXCEPT !.slots = y] EXCEPT !.blocks = Append([s EXCEPT !.slots = y].blocks, b)]
    BY <1>2 DEF ChatEncode, ChatStart, Slot
  <2> HIDE DEF t, b, y, q
  <2>3. Only(s, t, {"slots", "blocks"}) /\ t.slots = y /\ t.blocks = q
    BY <2>1, <2>2 DEF IsEncoder, Only, Fields, q
  <2>4. b.turn = s.answer.turn /\ b.type # "ToolUse" /\ z.type # "Tool"
    BY DEF b
  <2> QED  BY <2>3, <2>4 DEF Grows, t, q, y
<1>3. CASE e.kind \notin {"Text", "Thinking", "RedactedThinking"}
  <2>1. t = [s EXCEPT !.slots = Insert(s.slots, e.index, [type |-> "Skip"])]
    BY <1>3 DEF ChatEncode, ChatStart, Slot
  <2> HIDE DEF t
  <2>2. Only(s, t, {"slots", "blocks"}) /\ t.slots = Insert(s.slots, e.index, [type |-> "Skip"]) /\ t.blocks = s.blocks
    BY <2>1 DEF IsEncoder, Only, Fields
  <2> QED  BY <2>2 DEF Grows, t
<1> QED  BY <1>1, <1>2, <1>3

LEMMA TextTold ==
    ASSUME NEW s, IsEncoder(s), NEW e, e.type = "ContentDelta",
           Routes(s, e.index, {"Text"}), e.delta = "TextDelta"
    PROVE  LET t == ChatEncode(e, s)
           IN  /\ Only(s, t, {"text", "out", "pending"}) /\ Tells(s, t, [type |-> "content", block |-> e.block])
               /\ t.text = Append(s.text, e.block)
<1> DEFINE q == Append(s.text, e.block)
           f == [type |-> "content", block |-> e.block]
<1>1. IsSeq(q)
  BY AppendIs DEF IsEncoder
<1> DEFINE u == [s EXCEPT !.text = Append(s.text, e.block)]
<1>2. ChatEncode(e, s) = Frame(u, f)
  BY DEF ChatEncode, ChatFragment
<1>3. Only(s, u, {"text"}) /\ u.text = q
  BY <1>1 DEF IsEncoder, Only, Fields
<1> HIDE DEF u, q, f
<1> DEFINE t == Frame(u, f)
<1>4. /\ Only(s, t, {"text"} \cup {"out", "pending"}) /\ Tells(s, t, f)
      /\ \A x \in Fields \ {"out", "pending"} : t[x] = u[x]
  BY <1>3, FramedIs
<1> HIDE DEF t
<1>5. Only(s, t, {"text", "out", "pending"}) /\ Tells(s, t, f) /\ t.text = q
  BY <1>3, <1>4 DEF Only, Fields
<1> QED  BY <1>2, <1>5 DEF f, q, t

\* The call of the slot of block i.
HasCall(s, i) == s.slots[i].at \in 1..Len(s.tools)

LEMMA ArgsTold ==
    ASSUME NEW s, IsEncoder(s), NEW e, e.type = "ContentDelta",
           Routes(s, e.index, {"Tool"}), e.delta = "JsonDelta",
           HasCall(s, e.index)
    PROVE  LET t == ChatEncode(e, s)
               n == s.slots[e.index].at
           IN  /\ Only(s, t, {"tools", "out", "pending"})
               /\ Tells(s, t, [type |-> "args", index |-> n - 1, block |-> e.block])
               /\ t.tools = [s.tools EXCEPT ![n].args = Append(@, e.block)]
<1> DEFINE n == s.slots[e.index].at
           q == [s.tools EXCEPT ![n].args = Append(@, e.block)]
           f == [type |-> "args", index |-> n - 1, block |-> e.block]
           v == [s.tools[n] EXCEPT !.args = Append(s.tools[n].args, e.block)]
<1>1. IsSeq(q)
  <2>1. q = [s.tools EXCEPT ![n] = v]
    OBVIOUS
  <2>2. n \in 1..Len(s.tools)
    BY DEF HasCall
  <2> HIDE DEF q, v, n
  <2> QED  BY <2>1, <2>2, SetAt DEF IsEncoder
<1> DEFINE u == [s EXCEPT !.tools[n].args = Append(@, e.block)]
<1>2. ChatEncode(e, s) = Frame(u, f)
  BY DEF ChatEncode, ChatFragment, Routes
<1>3. Only(s, u, {"tools"}) /\ u.tools = q
  BY <1>1 DEF IsEncoder, Only, Fields
<1> HIDE DEF u, q, f, n
<1> DEFINE t == Frame(u, f)
<1>4. /\ Only(s, t, {"tools"} \cup {"out", "pending"}) /\ Tells(s, t, f)
      /\ \A x \in Fields \ {"out", "pending"} : t[x] = u[x]
  BY <1>3, FramedIs
<1> HIDE DEF t
<1>5. Only(s, t, {"tools", "out", "pending"}) /\ Tells(s, t, f) /\ t.tools = q
  BY <1>3, <1>4 DEF Only, Fields
<1> QED  BY <1>2, <1>5 DEF f, q, t, n

LEMMA SignatureTold ==
    ASSUME NEW s, IsEncoder(s), NEW e, e.type = "ContentDelta",
           Routes(s, e.index, {"Tool"}), e.delta = "SignatureDelta", HasCall(s, e.index)
    PROVE  LET t == ChatEncode(e, s)
               n == s.slots[e.index].at
           IN  Only(s, t, {"tools"}) /\ t.tools = [s.tools EXCEPT ![n].signed = TRUE]
<1> DEFINE n == s.slots[e.index].at
           q == [s.tools EXCEPT ![n].signed = TRUE]
           v == [s.tools[n] EXCEPT !.signed = TRUE]
           t == ChatEncode(e, s)
<1>1. IsSeq(q)
  <2>1. q = [s.tools EXCEPT ![n] = v]
    OBVIOUS
  <2>2. n \in 1..Len(s.tools)
    BY DEF HasCall
  <2> HIDE DEF q, v, n
  <2> QED  BY <2>1, <2>2, SetAt DEF IsEncoder
<1>2. t = [s EXCEPT !.tools[n].signed = TRUE]
  BY DEF ChatEncode, ChatFragment, Routes
<1>3. Only(s, t, {"tools"}) /\ t.tools = q
  <2> HIDE DEF t
  <2> QED  BY <1>1, <1>2 DEF IsEncoder, Only, Fields
<1> QED  BY <1>3

LEMMA OtherFragment ==
    ASSUME NEW s, IsEncoder(s), NEW e, e.type = "ContentDelta",
           ~ (Routes(s, e.index, {"Text"}) /\ e.delta = "TextDelta"),
           ~ (Routes(s, e.index, {"Tool"}) /\ e.delta \in {"JsonDelta", "SignatureDelta"})
    PROVE  LET t == ChatEncode(e, s)
           IN  \/ t = s
               \/ /\ Only(s, t, {"slots"}) /\ e.index \in DOMAIN s.slots
                  /\ \E z : z.type # "Tool" /\ t.slots = Insert(s.slots, e.index, z)
<1> DEFINE t == ChatEncode(e, s)
           z == Thinks(TRUE)
<1>1. CASE Routes(s, e.index, {"Thinking"}) /\ e.delta \in {"SignatureDelta", "EncryptedReasoningDelta"}
  <2>1. t = [s EXCEPT !.slots = Insert(s.slots, e.index, z)]
    BY <1>1 DEF ChatEncode, ChatFragment, Slot, Routes
  <2>2. z.type # "Tool"
    BY DEF Thinks
  <2> HIDE DEF t, z
  <2>3. Only(s, t, {"slots"}) /\ t.slots = Insert(s.slots, e.index, z)
    BY <2>1 DEF IsEncoder, Only, Fields
  <2>4. e.index \in DOMAIN s.slots
    BY <1>1 DEF Routes
  <2> QED  BY <2>2, <2>3, <2>4 DEF t
<1>2. CASE ~ (Routes(s, e.index, {"Thinking"}) /\ e.delta \in {"SignatureDelta", "EncryptedReasoningDelta"})
  <2>1. t = s
    BY <1>2 DEF ChatEncode, ChatFragment
  <2> QED  BY <2>1
<1> QED  BY <1>1, <1>2

LEMMA BlockClosed ==
    ASSUME NEW s, IsEncoder(s), NEW e, e.type = "ContentStop",
           Routes(s, e.index, {"Tool"}) => HasCall(s, e.index)
    PROVE  LET t == ChatEncode(e, s)
           IN  /\ Only(s, t, {"slots", "blocks"}) /\ Grows(s, t, TRUE)
               /\ t.slots = Remove(s.slots, e.index)
<1> DEFINE t == ChatEncode(e, s)
           i == e.index
           r == Remove(s.slots, i)
           u == [s EXCEPT !.slots = r]
           n == s.slots[i].at
<1>1. t = Close(i, s)
  BY DEF ChatEncode
<1>2. Only(s, u, {"slots"}) /\ u.slots = r
  BY DEF IsEncoder, Only, Fields
<1>3. ASSUME NEW b, t = [u EXCEPT !.blocks = Append(u.blocks, b)]
      PROVE  Only(s, t, {"slots", "blocks"}) /\ t.slots = r /\ t.blocks = Append(s.blocks, b)
  <2> DEFINE q == Append(s.blocks, b)
  <2>1. IsSeq(q)
    BY AppendIs DEF IsEncoder
  <2> HIDE DEF t, u, r
  <2>2. u.blocks = s.blocks
    BY <1>2 DEF Only, Fields
  <2>3. t = [u EXCEPT !.blocks = q]
    BY <1>3, <2>2
  <2> HIDE DEF q
  <2>4. Only(s, t, {"slots", "blocks"}) /\ t.slots = r /\ t.blocks = q
    BY <1>2, <2>1, <2>3 DEF IsEncoder, Only, Fields
  <2> QED  BY <2>4 DEF q
<1>4. CASE Routes(s, i, {"Thinking"}) /\ s.slots[i].payload
  <2> DEFINE b == [type |-> "Thinking", turn |-> s.answer.turn]
  <2>1. t = [u EXCEPT !.blocks = Append(u.blocks, b)]
    BY <1>1, <1>4 DEF Close, Routes
  <2>2. b.turn = s.answer.turn /\ b.type # "ToolUse"
    OBVIOUS
  <2> HIDE DEF b, t, u, r
  <2> QED  BY <1>3, <2>1, <2>2 DEF Grows, t, r
<1>5. CASE Routes(s, i, {"Tool"}) /\ s.tools[n].signed
  <2> DEFINE b == [type |-> "ToolUse", turn |-> s.answer.turn, id |-> s.tools[n].id]
  <2>1. t = [u EXCEPT !.blocks = Append(u.blocks, b)]
    BY <1>1, <1>5 DEF Close, Routes
  <2>2. n \in DOMAIN s.tools
    BY <1>5, SeqIs DEF HasCall, IsEncoder
  <2>3. b.turn = s.answer.turn /\ b.id = s.tools[n].id
    OBVIOUS
  <2> HIDE DEF b, t, u, r, n
  <2> QED  BY <1>3, <2>1, <2>2, <2>3 DEF Grows, t, r
<1>6. CASE /\ ~ (Routes(s, i, {"Thinking"}) /\ s.slots[i].payload)
           /\ ~ (Routes(s, i, {"Tool"}) /\ s.tools[n].signed)
  <2>1. t = u
    BY <1>1, <1>6 DEF Close
  <2>2. Only(s, u, {"slots", "blocks"}) /\ u.blocks = s.blocks
    <3> HIDE DEF u
    <3> QED  BY <1>2 DEF Only, Fields
  <2> HIDE DEF t, u, r
  <2> QED  BY <1>2, <2>1, <2>2 DEF Grows, t, r
<1> QED  BY <1>4, <1>5, <1>6

LEMMA UsageTold ==
    ASSUME NEW s, IsEncoder(s), NEW e, e.type = "Usage"
    PROVE  LET t == ChatEncode(e, s)
           IN  /\ Only(s, t, {"counted", "out", "pending"}) /\ t.counted
               /\ IF s.include_usage THEN Tells(s, t, [type |-> "usage"]) ELSE Silent(s, t)
<1> DEFINE u == [s EXCEPT !.counted = TRUE]
           f == [type |-> "usage"]
           t == ChatEncode(e, s)
<1>1. t = IF s.include_usage THEN Frame(u, f) ELSE u
  BY DEF ChatEncode, ChatUsageFrame
<1>2. Only(s, u, {"counted"}) /\ u.counted
  BY DEF IsEncoder, Only, Fields
<1> HIDE DEF t, u, f
<1>3. CASE s.include_usage
  <2> DEFINE r == Frame(u, f)
  <2>1. /\ Only(s, r, {"counted"} \cup {"out", "pending"}) /\ Tells(s, r, f)
        /\ \A x \in Fields \ {"out", "pending"} : r[x] = u[x]
    BY <1>2, FramedIs
  <2>2. t = r
    BY <1>1, <1>3
  <2> HIDE DEF r
  <2> QED  BY <1>2, <1>3, <2>1, <2>2 DEF Only, Fields, t, f
<1>4. CASE ~ s.include_usage
  BY <1>1, <1>2, <1>4 DEF Only, Fields, Silent, t
<1> QED  BY <1>3, <1>4

\* The frames of a verdict, one at a time.
Refused(s) == Frame([s EXCEPT !.refusal = TRUE], [type |-> "refusal"])
Closed(s, r) == [Frame(s, [type |-> "finish", reason |-> r]) EXCEPT !.finish = r]

LEMMA RefusalTold ==
    ASSUME NEW s, IsEncoder(s)
    PROVE  LET t == Refused(s)
           IN  /\ Only(s, t, {"refusal", "out", "pending"}) /\ t.refusal
               /\ Tells(s, t, [type |-> "refusal"])
<1> DEFINE u == [s EXCEPT !.refusal = TRUE]
           f == [type |-> "refusal"]
           t == Frame(u, f)
<1>1. Only(s, u, {"refusal"}) /\ u.refusal
  BY DEF IsEncoder, Only, Fields
<1> HIDE DEF u, f
<1>2. /\ Only(s, t, {"refusal"} \cup {"out", "pending"}) /\ Tells(s, t, f)
      /\ \A x \in Fields \ {"out", "pending"} : t[x] = u[x]
  BY <1>1, FramedIs
<1> HIDE DEF t
<1>3. Only(s, t, {"refusal", "out", "pending"}) /\ t.refusal /\ Tells(s, t, f)
  BY <1>1, <1>2 DEF Only, Fields
<1> QED  BY <1>3 DEF Refused, t, f, u

LEMMA FinishTold ==
    ASSUME NEW s, IsEncoder(s), NEW r
    PROVE  LET t == Closed(s, r)
           IN  /\ Only(s, t, {"finish", "out", "pending"}) /\ t.finish = r
               /\ Tells(s, t, [type |-> "finish", reason |-> r])
<1> DEFINE f == [type |-> "finish", reason |-> r]
           u == Frame(s, f)
           t == [u EXCEPT !.finish = r]
<1>1. Only(s, u, {"out", "pending"}) /\ Tells(s, u, f)
  BY FrameIs
<1> HIDE DEF u, f
<1>2. Only(s, t, {"finish", "out", "pending"}) /\ Tells(s, t, f) /\ t.finish = r
  BY <1>1 DEF IsEncoder, Only, Fields, Tells
<1> HIDE DEF t
<1> QED  BY <1>2 DEF Closed, t, f, u

LEMMA VerdictIs ==
    ASSUME NEW s, IsEncoder(s), NEW e, e.type = "Finish"
    PROVE  \E r : ChatEncode(e, s) \in {Closed(s, r), Closed(Refused(s), r)}
<1> DEFINE fr == ChatReason(e.reason, s.answer.explained)
           t == IF e.reason = "Refusal" /\ s.answer.explained THEN Refused(s) ELSE s
<1>1. ChatEncode(e, s) = Closed(t, fr)
  BY DEF ChatEncode, ChatVerdict, Closed, Refused
<1> QED  BY <1>1

\* An error is told alike in either dialect.
LEMMA ErrorTold ==
    ASSUME NEW s, IsEncoder(s), NEW e, e \in Event, e.type = "Error"
    PROVE  LET t == ErrorFrame(e, s)
           IN  /\ Only(s, t, {"error", "out", "pending"}) /\ t.error \in Codes /\ t.error = HttpStatus[e.kind]
               /\ Tells(s, t, [type |-> "error", status |-> t.error])
<1> DEFINE c == HttpStatus[e.kind]
           u == [s EXCEPT !.error = c]
           f == [type |-> "error", status |-> c]
           t == Frame(u, f)
<1>1. c \in Codes
  BY DEF Event, Codes
<1> HIDE DEF c
<1>2. Only(s, u, {"error"}) /\ u.error = c
  BY DEF IsEncoder, Only, Fields
<1>3. ErrorFrame(e, s) = t
  BY <1>2 DEF ErrorFrame, c
<1> HIDE DEF u, f
<1>4. /\ Only(s, t, {"error"} \cup {"out", "pending"}) /\ Tells(s, t, f)
      /\ \A x \in Fields \ {"out", "pending"} : t[x] = u[x]
  BY <1>2, FramedIs
<1> HIDE DEF t
<1>5. Only(s, t, {"error", "out", "pending"}) /\ t.error = c /\ Tells(s, t, f)
  BY <1>2, <1>4 DEF Only, Fields
<1> QED  BY <1>1, <1>3, <1>5 DEF f, c

\* The last of a chat answer.
LEMMA StashFilled ==
    ASSUME NEW s, IsEncoder(s)
    PROVE  LET t == FinishStash(s)
           IN  /\ Only(s, t, {"stash"})
               /\ t.stash = IF s.blocks = <<>> THEN s.stash ELSE {[key |-> k, payload |-> s.blocks] : k \in Keys(s)}
  BY DEF FinishStash, IsEncoder, Only, Fields

LEMMA BodyWhole ==
    ASSUME NEW s, IsEncoder(s), NEW b
    PROVE  LET t == Whole(s, b)
           IN  /\ Only(s, t, {"out"})
               /\ t.out = Append(s.out, [told |-> s.adapted,
                                         frame |-> IF s.error # 0 THEN [type |-> "error", status |-> s.error]
                                                   ELSE b])
<1> DEFINE x == [told |-> s.adapted,
                 frame |-> IF s.error # 0 THEN [type |-> "error", status |-> s.error] ELSE b]
           q == Append(s.out, x)
<1>1. IsSeq(q)
  BY AppendIs DEF IsEncoder
<1>2. Whole(s, b) = [s EXCEPT !.out = q]
  BY DEF Whole
<1> HIDE DEF q
<1>3. Only(s, [s EXCEPT !.out = q], {"out"}) /\ [s EXCEPT !.out = q].out = q
  BY <1>1 DEF IsEncoder, Only, Fields
<1> QED  BY <1>2, <1>3 DEF q

LEMMA ChatEnded ==
    ASSUME NEW s, IsEncoder(s), NEW e, e.type = "End"
    PROVE  LET t == ChatEncode(e, s)
           IN  /\ Only(s, t, {"stash", "out", "pending"})
               /\ t.stash = IF s.blocks = <<>> THEN s.stash ELSE {[key |-> k, payload |-> s.blocks] : k \in Keys(s)}
               /\ s.stream => Tells(s, t, [type |-> "done"])
               /\ ~ s.stream =>
                    /\ t.out = Append(s.out, [told |-> s.adapted,
                                              frame |-> IF s.error # 0 THEN [type |-> "error", status |-> s.error]
                                                        ELSE ChatBody(t)])
                    /\ t.pending = s.pending
<1> DEFINE u == FinishStash(s)
           f == [type |-> "done"]
           t == ChatEncode(e, s)
           new == IF s.blocks = <<>> THEN s.stash ELSE {[key |-> k, payload |-> s.blocks] : k \in Keys(s)}
<1>1. t = IF s.stream THEN Frame(u, f) ELSE Whole(u, ChatBody(u))
  BY DEF ChatEncode, ChatEnd
<1>2. Only(s, u, {"stash"}) /\ u.stash = new
  BY StashFilled
<1> HIDE DEF t, u, f, new
<1>3. CASE s.stream
  <2> DEFINE r == Frame(u, f)
  <2>1. /\ Only(s, r, {"stash"} \cup {"out", "pending"}) /\ Tells(s, r, f)
        /\ \A x \in Fields \ {"out", "pending"} : r[x] = u[x]
    BY <1>2, FramedIs
  <2>2. t = r
    BY <1>1, <1>3
  <2> HIDE DEF r
  <2>3. Only(s, t, {"stash", "out", "pending"}) /\ Tells(s, t, f) /\ t.stash = new
    BY <1>2, <2>1, <2>2 DEF Only, Fields
  <2> QED  BY <1>3, <2>3 DEF t, f, new
<1>4. CASE ~ s.stream
  <2> DEFINE b == ChatBody(u)
             r == Whole(u, b)
             y(x) == Append(u.out, [told |-> u.adapted,
                              frame |-> IF u.error # 0 THEN [type |-> "error", status |-> u.error] ELSE x])
  <2> HIDE DEF b
  <2>1. Only(u, r, {"out"}) /\ r.out = y(b)
    BY <1>2, BodyWhole DEF Only
  <2>2. t = r
    BY <1>1, <1>4 DEF b
  <2> HIDE DEF r, y
  <2>3. Only(s, t, {"stash", "out", "pending"}) /\ t.stash = new /\ t.pending = s.pending /\ t.out = y(b)
    BY <1>2, <2>1, <2>2 DEF Only, Fields
  <2>4. ChatBody(t) = b
    BY <2>1, <2>2 DEF ChatBody, Only, Fields, b
  <2>5. u.out = s.out /\ u.adapted = s.adapted /\ u.error = s.error
    BY <1>2 DEF Only, Fields
  <2>6. t.out = Append(s.out, [told |-> s.adapted,
                              frame |-> IF s.error # 0 THEN [type |-> "error", status |-> s.error] ELSE ChatBody(t)])
    BY <2>3, <2>4, <2>5 DEF y
  <2> QED  BY <1>4, <2>3, <2>6 DEF t, new
<1> QED  BY <1>3, <1>4

\* Messages, event by event.
LEMMA MessageTold ==
    ASSUME NEW s, IsEncoder(s), NEW e, e.type = "MessageStart"
    PROVE  LET t == MessagesEncode(e, s)
           IN  Only(s, t, {"out", "pending"}) /\ Tells(s, t, [type |-> "message_start"])
<1>1. MessagesEncode(e, s) = Frame(s, [type |-> "message_start"])
  BY DEF MessagesEncode
<1> QED  BY <1>1, FrameIs

LEMMA NativeTold ==
    ASSUME NEW s, IsEncoder(s), NEW e, e.type = "ContentStart", e.kind \in Native
    PROVE  LET t == MessagesEncode(e, s)
               id == CallId(s.answer, e)
           IN  /\ Only(s, t, {"slots", "out", "pending"})
               /\ Tells(s, t, [type |-> "content_block_start", index |-> e.index, kind |-> e.kind, id |-> id])
               /\ t.slots = Insert(s.slots, e.index, [type |-> e.kind, id |-> id, said |-> <<>>])
<1> DEFINE id == CallId(s.answer, e)
           q == Insert(s.slots, e.index, [type |-> e.kind, id |-> id, said |-> <<>>])
           f == [type |-> "content_block_start", index |-> e.index, kind |-> e.kind, id |-> id]
           u == [s EXCEPT !.slots = q]
<1>1. MessagesEncode(e, s) = Frame(u, f)
  BY DEF MessagesEncode, MessagesStart, Slot
<1> HIDE DEF q, f, id
<1>2. Only(s, u, {"slots"}) /\ u.slots = q
  BY DEF IsEncoder, Only, Fields
<1> HIDE DEF u
<1> DEFINE t == Frame(u, f)
<1>3. /\ Only(s, t, {"slots"} \cup {"out", "pending"}) /\ Tells(s, t, f)
      /\ \A x \in Fields \ {"out", "pending"} : t[x] = u[x]
  BY <1>2, FramedIs
<1> HIDE DEF t
<1>4. Only(s, t, {"slots", "out", "pending"}) /\ Tells(s, t, f) /\ t.slots = q
  BY <1>2, <1>3 DEF Only, Fields
<1> QED  BY <1>1, <1>4 DEF t, f, q, id

LEMMA OtherStarted ==
    ASSUME NEW s, IsEncoder(s), NEW e, e.type = "ContentStart", e.kind \notin Native
    PROVE  LET t == MessagesEncode(e, s)
           IN  Only(s, t, {"slots"}) /\ t.slots = Insert(s.slots, e.index, [type |-> "Skip"])
<1> DEFINE q == Insert(s.slots, e.index, [type |-> "Skip"])
           t == MessagesEncode(e, s)
<1>1. t = [s EXCEPT !.slots = q]
  BY DEF MessagesEncode, MessagesStart, Slot
<1> HIDE DEF q, t
<1>2. Only(s, t, {"slots"}) /\ t.slots = q
  BY <1>1 DEF IsEncoder, Only, Fields
<1> QED  BY <1>2 DEF q, t

LEMMA FragmentTold ==
    ASSUME NEW s, IsEncoder(s), NEW e, e.type = "ContentDelta", Routes(s, e.index, Holders(e.delta))
    PROVE  LET t == MessagesEncode(e, s)
               x == <<e.delta, e.block>>
           IN  /\ Only(s, t, {"slots", "out", "pending"}) /\ Routes(s, e.index, Native)
               /\ Tells(s, t, [type |-> "content_block_delta", index |-> e.index, said |-> x])
               /\ t.slots = [s.slots EXCEPT ![e.index].said = Append(@, x)]
<1> DEFINE x == <<e.delta, e.block>>
           q == [s.slots EXCEPT ![e.index].said = Append(@, x)]
           f == [type |-> "content_block_delta", index |-> e.index, said |-> x]
           u == [s EXCEPT !.slots[e.index].said = Append(@, x)]
<1>1. MessagesEncode(e, s) = Frame(u, f)
  BY DEF MessagesEncode, MessagesFragment
<1>2. Only(s, u, {"slots"}) /\ u.slots = q
  <2>1. u = [s EXCEPT !.slots = q]
    OBVIOUS
  <2> HIDE DEF q, u
  <2> QED  BY <2>1 DEF IsEncoder, Only, Fields
<1> HIDE DEF u, q, f, x
<1> DEFINE t == Frame(u, f)
<1>3. /\ Only(s, t, {"slots"} \cup {"out", "pending"}) /\ Tells(s, t, f)
      /\ \A y \in Fields \ {"out", "pending"} : t[y] = u[y]
  BY <1>2, FramedIs
<1> HIDE DEF t
<1>4. Only(s, t, {"slots", "out", "pending"}) /\ Tells(s, t, f) /\ t.slots = q
  BY <1>2, <1>3 DEF Only, Fields
<1>5. Routes(s, e.index, Native)
  BY DEF Routes, Holders, Native
<1> QED  BY <1>1, <1>4, <1>5 DEF t, f, q, x

LEMMA FragmentLost ==
    ASSUME NEW s, NEW e, e.type = "ContentDelta", ~ Routes(s, e.index, Holders(e.delta))
    PROVE  MessagesEncode(e, s) = s
BY DEF MessagesEncode, MessagesFragment

LEMMA StopTold ==
    ASSUME NEW s, IsEncoder(s), NEW e, e.type = "ContentStop", Routes(s, e.index, Native)
    PROVE  LET t == MessagesEncode(e, s)
           IN  /\ Only(s, t, {"slots", "content", "out", "pending"})
               /\ Tells(s, t, [type |-> "content_block_stop", index |-> e.index])
               /\ t.slots = Remove(s.slots, e.index) /\ t.content = Append(s.content, s.slots[e.index])
<1> DEFINE r == Remove(s.slots, e.index)
           x == s.slots[e.index]
           q == Append(s.content, x)
           f == [type |-> "content_block_stop", index |-> e.index]
           u == [[s EXCEPT !.slots = r] EXCEPT !.content = Append([s EXCEPT !.slots = r].content, x)]
<1>1. MessagesEncode(e, s) = Frame(u, f)
  BY DEF MessagesEncode, MessagesStop
<1>2. IsSeq(q)
  BY AppendIs DEF IsEncoder
<1> HIDE DEF r, x, q
<1>3. Only(s, u, {"slots", "content"}) /\ u.slots = r /\ u.content = q
  BY <1>2 DEF IsEncoder, Only, Fields, q
<1> HIDE DEF u, f
<1> DEFINE t == Frame(u, f)
<1>4. /\ Only(s, t, {"slots", "content"} \cup {"out", "pending"}) /\ Tells(s, t, f)
      /\ \A y \in Fields \ {"out", "pending"} : t[y] = u[y]
  BY <1>3, FramedIs
<1> HIDE DEF t
<1>5. Only(s, t, {"slots", "content", "out", "pending"}) /\ Tells(s, t, f) /\ t.slots = r /\ t.content = q
  BY <1>3, <1>4 DEF Only, Fields
<1> QED  BY <1>1, <1>5 DEF t, f, q, x, r

LEMMA OtherStopped ==
    ASSUME NEW s, IsEncoder(s), NEW e, e.type = "ContentStop", ~ Routes(s, e.index, Native)
    PROVE  LET t == MessagesEncode(e, s)
           IN  Only(s, t, {"slots"}) /\ t.slots = Remove(s.slots, e.index)
<1> DEFINE r == Remove(s.slots, e.index)
           t == MessagesEncode(e, s)
<1>1. t = [s EXCEPT !.slots = r]
  BY DEF MessagesEncode, MessagesStop
<1> HIDE DEF r, t
<1>2. Only(s, t, {"slots"}) /\ t.slots = r
  BY <1>1 DEF IsEncoder, Only, Fields
<1> QED  BY <1>2 DEF r, t

LEMMA Counted ==
    ASSUME NEW s, IsEncoder(s), NEW e, e.type = "Usage"
    PROVE  LET t == MessagesEncode(e, s)
           IN  Only(s, t, {"counted"}) /\ t.counted
<1> DEFINE t == MessagesEncode(e, s)
<1>1. t = [s EXCEPT !.counted = TRUE]
  BY DEF MessagesEncode
<1> HIDE DEF t
<1>2. Only(s, t, {"counted"}) /\ t.counted
  BY <1>1 DEF IsEncoder, Only, Fields
<1> QED  BY <1>2 DEF t

LEMMA DeltaTold ==
    ASSUME NEW s, IsEncoder(s), NEW e, e.type = "Finish"
    PROVE  LET t == MessagesEncode(e, s)
           IN  /\ Only(s, t, {"finish", "out", "pending"}) /\ t.finish = e.reason
               /\ Tells(s, t, [type |-> "message_delta", reason |-> e.reason, usage |-> s.counted])
<1> DEFINE f == [type |-> "message_delta", reason |-> e.reason, usage |-> s.counted]
           u == Frame(s, f)
           t == [u EXCEPT !.finish = e.reason]
<1>1. MessagesEncode(e, s) = t
  BY DEF MessagesEncode, MessagesVerdict
<1>2. Only(s, u, {"out", "pending"}) /\ Tells(s, u, f)
  BY FrameIs
<1> HIDE DEF u, f
<1>3. Only(s, t, {"finish", "out", "pending"}) /\ Tells(s, t, f) /\ t.finish = e.reason
  BY <1>2 DEF IsEncoder, Only, Fields, Tells
<1> HIDE DEF t
<1> QED  BY <1>1, <1>3 DEF f

LEMMA MessageEnded ==
    ASSUME NEW s, IsEncoder(s), NEW e, e.type = "End"
    PROVE  LET t == MessagesEncode(e, s)
           IN  /\ Only(s, t, {"out", "pending"})
               /\ s.stream /\ s.error = 0 => Tells(s, t, [type |-> "message_stop"])
               /\ s.stream /\ s.error # 0 => t = s
               /\ ~ s.stream => \E b : t.out = Append(s.out, [told |-> s.adapted, frame |-> b])
               /\ ~ s.stream /\ s.error = 0 =>
                     t.out = Append(s.out, [told |-> s.adapted,
                                frame |-> [type |-> "message", content |-> s.content, finish |-> s.finish,
                                           usage |-> s.counted]])
               /\ ~ s.stream /\ s.error # 0 =>
                     t.out = Append(s.out, [told |-> s.adapted,
                                            frame |-> [type |-> "error", status |-> s.error]])
<1> DEFINE t == MessagesEncode(e, s)
<1>1. CASE s.stream /\ s.error = 0
  <2>1. t = Frame(s, [type |-> "message_stop"])
    BY <1>1 DEF MessagesEncode, MessagesEnd
  <2> HIDE DEF t
  <2>2. Only(s, t, {"out", "pending"}) /\ Tells(s, t, [type |-> "message_stop"])
    BY <2>1, FrameIs
  <2> QED  BY <1>1, <2>2 DEF t
<1>2. CASE s.stream /\ s.error # 0
  <2>1. t = s
    BY <1>2 DEF MessagesEncode, MessagesEnd
  <2> QED  BY <1>2, <2>1 DEF Only
<1>3. CASE ~ s.stream
  <2> DEFINE b == [type |-> "message", content |-> s.content, finish |-> s.finish, usage |-> s.counted]
             x == IF s.error # 0 THEN [type |-> "error", status |-> s.error] ELSE b
  <2>1. t = Whole(s, b)
    BY <1>3 DEF MessagesEncode, MessagesEnd
  <2> HIDE DEF t, b
  <2>2. Only(s, t, {"out"}) /\ t.out = Append(s.out, [told |-> s.adapted, frame |-> x])
    BY <2>1, BodyWhole
  <2>3. Only(s, t, {"out", "pending"})
    BY <2>2 DEF Only
  <2> QED  BY <1>3, <2>2, <2>3 DEF t, b
<1> QED  BY <1>1, <1>2, <1>3

(***************************************************************************)
(* Frames, one at a time.                                                  *)
(***************************************************************************)
HasFrame(fs, y) == \E n \in 1..Len(fs) : fs[n].frame.type = y
FramesOf(fs) == {fs[m].frame : m \in 1..Len(fs)}
Calls(fs) == {g \in FramesOf(fs) : g.type = "tool"}

LEMMA FrameAdded ==
    ASSUME NEW fs, IsSeq(fs), NEW x
    PROVE  LET gs == Append(fs, x)
           IN  /\ \A y : HasFrame(gs, y) <=> HasFrame(fs, y) \/ x.frame.type = y
               /\ FramesOf(gs) = FramesOf(fs) \cup {x.frame}
               /\ \A y : At(gs, y) = IF x.frame.type = y THEN At(fs, y) \cup {Len(fs) + 1} ELSE At(fs, y)
<1> DEFINE gs == Append(fs, x)
<1>1. /\ IsSeq(gs) /\ Len(fs) \in Nat /\ Len(gs) = Len(fs) + 1
      /\ \A n \in 1..Len(fs) : gs[n] = fs[n]
      /\ gs[Len(fs) + 1] = x
  BY AppendIs
<1> HIDE DEF gs
<1>2. \A n : n \in 1..Len(gs) <=> n \in 1..Len(fs) \/ n = Len(fs) + 1
  BY <1>1
<1>3. \A y : HasFrame(gs, y) <=> HasFrame(fs, y) \/ x.frame.type = y
  BY <1>1, <1>2 DEF HasFrame
<1>4. FramesOf(gs) = FramesOf(fs) \cup {x.frame}
  BY <1>1, <1>2 DEF FramesOf
<1>5. ASSUME NEW y
      PROVE  At(gs, y) = IF x.frame.type = y THEN At(fs, y) \cup {Len(fs) + 1} ELSE At(fs, y)
  BY <1>1, <1>2 DEF At
<1> QED  BY <1>3, <1>4, <1>5 DEF gs

LEMMA AtNone ==
    ASSUME NEW fs, NEW y
    PROVE  ~ HasFrame(fs, y) <=> At(fs, y) = {}
BY DEF HasFrame, At

\* At most one frame of a type, which another type does not disturb.
LEMMA OnceMore ==
    ASSUME NEW fs, IsSeq(fs), NEW x, NEW y, Cardinality(At(fs, y)) <= 1,
           x.frame.type = y => ~ HasFrame(fs, y)
    PROVE  Cardinality(At(Append(fs, x), y)) <= 1
<1>1. CASE x.frame.type = y
  <2>1. At(Append(fs, x), y) = {Len(fs) + 1}
    BY <1>1, FrameAdded, AtNone
  <2>2. Cardinality({Len(fs) + 1}) = 1
    BY FS_Singleton
  <2> QED  BY <2>1, <2>2
<1>2. CASE x.frame.type # y
  BY <1>2, FrameAdded
<1> QED  BY <1>1, <1>2

LEMMA ChatMore ==
    ASSUME NEW fs, IsSeq(fs), ChatGrammar(fs), ~ HasFrame(fs, "done"), NEW x, NEW f, f = x.frame,
           f.type = "role" => ~ HasFrame(fs, "role"),
           f.type = "finish" => ~ HasFrame(fs, "finish"),
           f.type \in {"content", "tool", "args", "refusal", "finish", "usage"} => HasFrame(fs, "role"),
           f.type \in {"content", "tool", "args", "refusal"} => ~ HasFrame(fs, "finish"),
           f.type = "tool" => f.index = Cardinality(Calls(fs)),
           f.type = "args" => \E g \in Calls(fs) : g.index = f.index,
           f.type = "done" => HasFrame(fs, "finish") \/ HasFrame(fs, "error")
    PROVE  ChatGrammar(Append(fs, x))
<1> DEFINE gs == Append(fs, x)
           Grammatical(hs, n) ==
             LET h == hs[n].frame
                 before == {hs[m].frame : m \in 1..(n - 1)}
                 tools == {g \in before : g.type = "tool"}
             IN  /\ h.type \in {"content", "tool", "args", "refusal", "finish", "usage"} =>
                      \E g \in before : g.type = "role"
                 /\ h.type \in {"content", "tool", "args", "refusal"} => ~ \E g \in before : g.type = "finish"
                 /\ h.type = "tool" => h.index = Cardinality(tools)
                 /\ h.type = "args" => \E g \in tools : g.index = h.index
                 /\ h.type = "done" => \E g \in before : g.type \in {"finish", "error"}
<1>1. /\ IsSeq(gs) /\ Len(fs) \in Nat /\ Len(gs) = Len(fs) + 1
      /\ \A n \in 1..Len(fs) : gs[n] = fs[n]
      /\ gs[Len(fs) + 1] = x
  BY AppendIs
<1>2. At(gs, "done") \subseteq {Len(gs)}
  BY <1>1, FrameAdded, AtNone
<1>3. Cardinality(At(gs, "role")) <= 1 /\ Cardinality(At(gs, "finish")) <= 1
  BY OnceMore DEF ChatGrammar
<1>4. \A n \in 1..Len(fs) : Grammatical(fs, n)
  BY DEF ChatGrammar
<1> HIDE DEF gs
<1>5. ASSUME NEW n \in 1..Len(gs) PROVE Grammatical(gs, n)
  <2>1. CASE n \in 1..Len(fs)
    <3>1. gs[n] = fs[n] /\ \A m \in 1..(n - 1) : gs[m] = fs[m]
      BY <1>1, <2>1
    <3>2. {gs[m].frame : m \in 1..(n - 1)} = {fs[m].frame : m \in 1..(n - 1)}
      BY <3>1
    <3>3. Grammatical(fs, n)
      BY <1>4, <2>1
    <3> QED  BY <3>1, <3>2, <3>3
  <2>2. CASE n = Len(fs) + 1
    <3> DEFINE b == {gs[m].frame : m \in 1..(n - 1)}
    <3>1. gs[n] = x /\ 1..(n - 1) = 1..Len(fs) /\ \A m \in 1..Len(fs) : gs[m] = fs[m]
      BY <1>1, <2>2
    <3>2. b = FramesOf(fs)
      BY <3>1 DEF FramesOf
    <3>3. {g \in b : g.type = "tool"} = Calls(fs)
      BY <3>2 DEF Calls
    <3>4. \A y : HasFrame(fs, y) <=> \E g \in FramesOf(fs) : g.type = y
      BY DEF HasFrame, FramesOf
    <3> DEFINE tools == {g \in b : g.type = "tool"}
    <3> HIDE DEF b, tools
    <3>5. \A y : HasFrame(fs, y) <=> \E g \in b : g.type = y
      BY <3>2, <3>4
    <3>6. tools = Calls(fs)
      BY <3>3 DEF tools
    <3>7. gs[n].frame = f
      BY <3>1
    <3>8. /\ f.type \in {"content", "tool", "args", "refusal", "finish", "usage"} => \E g \in b : g.type = "role"
          /\ f.type \in {"content", "tool", "args", "refusal"} => ~ \E g \in b : g.type = "finish"
          /\ f.type = "tool" => f.index = Cardinality(tools)
          /\ f.type = "args" => \E g \in tools : g.index = f.index
          /\ f.type = "done" => \E g \in b : g.type \in {"finish", "error"}
      BY <3>5, <3>6
    <3> QED  BY <3>7, <3>8 DEF b, tools
  <2> QED  BY <1>1, <2>1, <2>2
<1> HIDE DEF Grammatical
<1>6. \A n \in 1..Len(gs) : Grammatical(gs, n)
  BY <1>5
<1> QED  BY <1>2, <1>3, <1>6 DEF ChatGrammar, Grammatical, gs

\* The blocks that have been opened, and closed, so far.
OpenedIn(fs) == {fs[m].frame.index : m \in At(fs, "content_block_start")}
ClosedIn(fs) == {fs[m].frame.index : m \in At(fs, "content_block_stop")}

LEMMA BlocksAdded ==
    ASSUME NEW fs, IsSeq(fs), NEW x
    PROVE  LET gs == Append(fs, x)
           IN  /\ OpenedIn(gs) = IF x.frame.type = "content_block_start" THEN OpenedIn(fs) \cup {x.frame.index}
                                 ELSE OpenedIn(fs)
               /\ ClosedIn(gs) = IF x.frame.type = "content_block_stop" THEN ClosedIn(fs) \cup {x.frame.index}
                                 ELSE ClosedIn(fs)
<1> DEFINE gs == Append(fs, x)
           In(hs, y) == {hs[m].frame.index : m \in At(hs, y)}
<1>1. /\ Len(fs) \in Nat
      /\ \A n \in 1..Len(fs) : gs[n] = fs[n]
      /\ gs[Len(fs) + 1] = x
      /\ \A y : At(gs, y) = IF x.frame.type = y THEN At(fs, y) \cup {Len(fs) + 1} ELSE At(fs, y)
  BY AppendIs, FrameAdded
<1> HIDE DEF gs
<1>2. ASSUME NEW y PROVE At(fs, y) \subseteq 1..Len(fs)
  BY DEF At
<1>3. ASSUME NEW y
      PROVE  In(gs, y) = IF x.frame.type = y THEN In(fs, y) \cup {x.frame.index} ELSE In(fs, y)
  <2>1. \A m \in At(fs, y) : gs[m].frame.index = fs[m].frame.index
    BY <1>1, <1>2
  <2>2. CASE x.frame.type = y
    <3>1. At(gs, y) = At(fs, y) \cup {Len(fs) + 1}
      BY <1>1, <2>2
    <3> QED  BY <1>1, <2>1, <2>2, <3>1
  <2>3. CASE x.frame.type # y
    <3>1. At(gs, y) = At(fs, y)
      BY <1>1, <2>3
    <3> QED  BY <2>1, <2>3, <3>1
  <2> QED  BY <2>2, <2>3
<1> QED  BY <1>3 DEF OpenedIn, ClosedIn, gs

Sound(fs) == \E n \in 1..Len(fs) : fs[n].frame.type # "error"

LEMMA MessagesMore ==
    ASSUME NEW fs, IsSeq(fs), MessagesGrammar(fs), ~ HasFrame(fs, "message_stop"), NEW x, NEW f, f = x.frame,
           f.type = "message_stop" => ~ HasFrame(fs, "error") /\ HasFrame(fs, "message_delta"),
           f.type = "message_start" => ~ Sound(fs),
           f.type \notin {"error", "message_start"} => Sound(fs),
           f.type = "message_delta" => ~ HasFrame(fs, "message_delta"),
           f.type = "content_block_start" => f.index \notin OpenedIn(fs),
           f.type \in {"content_block_delta", "content_block_stop"} =>
                f.index \in OpenedIn(fs) /\ f.index \notin ClosedIn(fs),
           f.type \in {"message_delta", "message_stop"} => OpenedIn(fs) \subseteq ClosedIn(fs)
    PROVE  MessagesGrammar(Append(fs, x))
<1> DEFINE gs == Append(fs, x)
           Fits(h, hs, before, opened, closed) ==
             /\ h.type # "error" => (before = {}) = (h.type = "message_start")
             /\ h.type = "content_block_start" => \A m \in opened : hs[m].frame.index # h.index
             /\ h.type \in {"content_block_delta", "content_block_stop"} =>
                  /\ \E m \in opened : hs[m].frame.index = h.index
                  /\ \A m \in closed : hs[m].frame.index # h.index
             /\ h.type \in {"message_delta", "message_stop"} =>
                  \A m \in opened : \E c \in closed : hs[c].frame.index = hs[m].frame.index
             /\ h.type = "message_stop" => \E m \in before : hs[m].frame.type = "message_delta"
           Grammatical(hs, n) ==
             LET before == {m \in 1..(n - 1) : hs[m].frame.type # "error"}
             IN  Fits(hs[n].frame, hs, before,
                      {m \in before : hs[m].frame.type = "content_block_start"},
                      {m \in before : hs[m].frame.type = "content_block_stop"})
<1>1. /\ IsSeq(gs) /\ Len(fs) \in Nat /\ Len(gs) = Len(fs) + 1
      /\ \A n \in 1..Len(fs) : gs[n] = fs[n]
      /\ gs[Len(fs) + 1] = x
      /\ \A y : At(gs, y) = IF x.frame.type = y THEN At(fs, y) \cup {Len(fs) + 1} ELSE At(fs, y)
  BY AppendIs, FrameAdded
<1>2. \A n \in At(gs, "message_stop") : n = Len(gs) /\ At(gs, "error") = {}
  BY <1>1, AtNone
<1>3. Cardinality(At(gs, "message_start")) <= 1 /\ Cardinality(At(gs, "message_delta")) <= 1
  <2>1. f.type = "message_start" => ~ HasFrame(fs, "message_start")
    BY DEF Sound, HasFrame
  <2> QED  BY <2>1, OnceMore DEF MessagesGrammar
<1>4. \A n \in 1..Len(fs) : Grammatical(fs, n)
  BY DEF MessagesGrammar
<1> HIDE DEF gs
<1>5. ASSUME NEW n \in 1..Len(gs) PROVE Grammatical(gs, n)
  <2>1. CASE n \in 1..Len(fs)
    <3> DEFINE b(hs) == {m \in 1..(n - 1) : hs[m].frame.type # "error"}
               o(hs) == {m \in b(hs) : hs[m].frame.type = "content_block_start"}
               c(hs) == {m \in b(hs) : hs[m].frame.type = "content_block_stop"}
    <3>1. gs[n] = fs[n] /\ \A m \in 1..(n - 1) : gs[m] = fs[m]
      BY <1>1, <2>1
    <3>2. b(gs) = b(fs) /\ b(fs) \subseteq 1..(n - 1)
      BY <3>1
    <3>3. o(gs) = o(fs) /\ c(gs) = c(fs) /\ o(fs) \subseteq 1..(n - 1) /\ c(fs) \subseteq 1..(n - 1)
      BY <3>1, <3>2
    <3>4. Grammatical(fs, n)
      BY <1>4, <2>1
    <3>5. Fits(fs[n].frame, fs, b(fs), o(fs), c(fs))
      BY <3>4
    <3> DEFINE B == b(fs)
               O == o(fs)
               C == c(fs)
    <3> HIDE DEF B, O, C
    <3>6. /\ Fits(fs[n].frame, fs, B, O, C) /\ gs[n] = fs[n]
          /\ \A m \in B : gs[m] = fs[m]
          /\ \A m \in O : gs[m] = fs[m]
          /\ \A m \in C : gs[m] = fs[m]
      BY <3>1, <3>2, <3>3, <3>5 DEF B, O, C
    <3>7. Fits(gs[n].frame, gs, B, O, C)
      BY <3>6
    <3> HIDE DEF Fits
    <3>8. Fits(gs[n].frame, gs, b(gs), o(gs), c(gs))
      BY <3>2, <3>3, <3>7 DEF B, O, C
    <3> QED  BY <3>8
  <2>2. CASE n = Len(fs) + 1
    <3> DEFINE b == {m \in 1..(n - 1) : gs[m].frame.type # "error"}
               o == {m \in b : gs[m].frame.type = "content_block_start"}
               c == {m \in b : gs[m].frame.type = "content_block_stop"}
    <3>1. gs[n] = x /\ 1..(n - 1) = 1..Len(fs) /\ \A m \in 1..Len(fs) : gs[m] = fs[m]
      BY <1>1, <2>2
    <3>2. b = {m \in 1..Len(fs) : fs[m].frame.type # "error"}
      BY <3>1
    <3>3. o = At(fs, "content_block_start") /\ c = At(fs, "content_block_stop") /\ b \subseteq 1..Len(fs)
      BY <3>1, <3>2 DEF At
    <3>4. (b = {}) = ~ Sound(fs)
      BY <3>2 DEF Sound
    <3>5. HasFrame(fs, "message_delta") => \E m \in b : gs[m].frame.type = "message_delta"
      BY <3>1, <3>2 DEF HasFrame
    <3> HIDE DEF b, o, c
    <3>6. o \subseteq 1..Len(fs) /\ c \subseteq 1..Len(fs)
      BY <3>3 DEF At
    <3>7. OpenedIn(fs) = {gs[m].frame.index : m \in o} /\ ClosedIn(fs) = {gs[m].frame.index : m \in c}
      <4>1. (\A m \in o : gs[m].frame.index = fs[m].frame.index) /\ \A m \in c : gs[m].frame.index = fs[m].frame.index
        BY <3>1, <3>6
      <4>2. OpenedIn(fs) = {fs[m].frame.index : m \in o} /\ ClosedIn(fs) = {fs[m].frame.index : m \in c}
        BY <3>3 DEF OpenedIn, ClosedIn
      <4> QED  BY <4>1, <4>2
    <3>8. gs[n].frame = f
      BY <3>1
    <3>9. f.type # "error" => (b = {}) = (f.type = "message_start")
      BY <3>4
    <3>10. f.type = "content_block_start" => \A m \in o : gs[m].frame.index # f.index
      BY <3>7
    <3>11. f.type \in {"content_block_delta", "content_block_stop"} =>
             /\ \E m \in o : gs[m].frame.index = f.index
             /\ \A m \in c : gs[m].frame.index # f.index
      BY <3>7
    <3>12. f.type \in {"message_delta", "message_stop"} =>
             \A m \in o : \E l \in c : gs[l].frame.index = gs[m].frame.index
      BY <3>7
    <3>13. f.type = "message_stop" => \E m \in b : gs[m].frame.type = "message_delta"
      BY <3>5
    <3>14. Fits(f, gs, b, o, c)
      BY <3>9, <3>10, <3>11, <3>12, <3>13
    <3> HIDE DEF Fits
    <3>15. Fits(gs[n].frame, gs, b, o, c)
      BY <3>8, <3>14
    <3> QED  BY <3>15 DEF b, o, c
  <2>3. n \in 1..Len(fs) \/ n = Len(fs) + 1
    BY <1>1
  <2> HIDE DEF Grammatical
  <2> QED  BY <2>1, <2>2, <2>3
<1> HIDE DEF Grammatical
<1>6. \A n \in 1..Len(gs) : Grammatical(gs, n)
  BY <1>5
<1> QED  BY <1>2, <1>3, <1>6 DEF MessagesGrammar, Grammatical, Fits, gs

LEMMA KnowsIs ==
    ASSUME NEW c, IsKnown(c), NEW e, May(c, e)
    PROVE  LET d == Knows(c, e)
           IN  /\ IsKnown(d)
               /\ (d.started <=> c.started \/ e.type = "MessageStart") /\ (d.done <=> c.done \/ e.type = "Finish")
               /\ (d.failed <=> c.failed \/ e.type = "Error")
               /\ e.type = "ContentStart" => d.open = c.open \cup {e.index} /\ d.used = c.used \cup {e.index}
               /\ e.type = "ContentStop" => d.open = c.open \ {e.index}
               /\ e.type \notin {"ContentStart", "ContentStop"} => d.open = c.open
               /\ e.type # "ContentStart" => d.used = c.used
<1> DEFINE d == Knows(c, e)
<1>0. /\ d.started = (c.started \/ e.type = "MessageStart") /\ d.done = (c.done \/ e.type = "Finish")
      /\ d.failed = (c.failed \/ e.type = "Error")
  BY DEF Knows
<1>1. /\ (d.started <=> c.started \/ e.type = "MessageStart") /\ (d.done <=> c.done \/ e.type = "Finish")
      /\ (d.failed <=> c.failed \/ e.type = "Error")
      /\ e.type = "ContentStart" => d.open = c.open \cup {e.index} /\ d.used = c.used \cup {e.index}
      /\ e.type = "ContentStop" => d.open = c.open \ {e.index}
      /\ e.type \notin {"ContentStart", "ContentStop"} => d.open = c.open
      /\ e.type # "ContentStart" => d.used = c.used
  <2>1. /\ e.type = "ContentStart" => d.open = c.open \cup {e.index} /\ d.used = c.used \cup {e.index}
        /\ e.type = "ContentStop" => d.open = c.open \ {e.index}
        /\ e.type \notin {"ContentStart", "ContentStop"} => d.open = c.open
        /\ e.type # "ContentStart" => d.used = c.used
    BY DEF Knows
  <2> HIDE DEF d
  <2> QED  BY <1>0, <2>1, Zenon
<1> HIDE DEF d
<1>2. IsKnown(d)
  BY <1>0, <1>1 DEF IsKnown, May
<1> QED  BY <1>1, <1>2 DEF d

(***************************************************************************)
(* An encoder s, of whose answer c is known, has put out the frames fs.    *)
(***************************************************************************)
Announces(s, fs) ==
    s.stream => /\ s.pending = (s.adapted /\ fs = <<>>)
                /\ {n \in 1..Len(fs) : fs[n].told} = IF s.adapted /\ fs # <<>> THEN {1} ELSE {}

Fails(s, fs) ==
    /\ s.error \in {0} \cup Codes
    /\ s.stream => (s.error # 0 <=> HasFrame(fs, "error"))

Tracks(s, fs, c) ==
    /\ IsEncoder(s) /\ IsSeq(fs) /\ IsKnown(c)
    /\ Announces(s, fs) /\ Fails(s, fs)
    /\ s.error # 0 <=> c.failed
    /\ DOMAIN s.slots = c.open
    /\ ~ s.stream => fs = <<>>

\* The frames after f.
Adds(s, fs, f) == IF s.stream THEN Append(fs, Said(s, f)) ELSE fs

LEMMA AddsIs ==
    ASSUME NEW s, NEW fs, IsSeq(fs), NEW f
    PROVE  LET gs == Adds(s, fs, f)
           IN  /\ IsSeq(gs) /\ (~ s.stream => gs = fs) /\ (s.stream => gs # <<>> /\ gs = Append(fs, Said(s, f)))
               /\ s.stream => \A y : HasFrame(gs, y) <=> HasFrame(fs, y) \/ f.type = y
<1>1. Said(s, f).frame = f
  BY DEF Said
<1>2. CASE s.stream
  BY <1>1, <1>2, AppendIs, FrameAdded DEF Adds
<1>3. CASE ~ s.stream
  BY <1>3 DEF Adds
<1> QED  BY <1>2, <1>3

LEMMA AnnouncesMore ==
    ASSUME NEW s, IsEncoder(s), NEW fs, IsSeq(fs), Announces(s, fs), NEW f, NEW t,
           t.stream = s.stream, t.adapted = s.adapted, Tells(s, t, f)
    PROVE  Announces(t, Adds(s, fs, f))
<1> SUFFICES ASSUME s.stream PROVE Announces(t, Append(fs, Said(s, f)))
  BY DEF Announces, Adds
<1> DEFINE x == Said(s, f)
           gs == Append(fs, x)
<1>1. /\ IsSeq(gs) /\ Len(fs) \in Nat /\ Len(gs) = Len(fs) + 1
      /\ \A n \in 1..Len(fs) : gs[n] = fs[n]
      /\ gs[Len(fs) + 1] = x /\ gs # <<>>
  BY AppendIs
<1>2. x.told = s.pending /\ t.pending = FALSE /\ s.pending \in BOOLEAN /\ s.adapted \in BOOLEAN
  BY DEF Said, Tells, IsEncoder
<1>3. s.pending = (s.adapted /\ fs = <<>>)
      /\ {n \in 1..Len(fs) : fs[n].told} = IF s.adapted /\ fs # <<>> THEN {1} ELSE {}
  BY DEF Announces
<1>4. fs = <<>> <=> Len(fs) = 0
  BY SeqIs
<1> HIDE DEF x, gs
<1>5. {n \in 1..Len(gs) : gs[n].told} =
        {n \in 1..Len(fs) : fs[n].told} \cup (IF s.pending THEN {Len(fs) + 1} ELSE {})
  BY <1>1, <1>2
<1>6. {n \in 1..Len(gs) : gs[n].told} = IF s.adapted THEN {1} ELSE {}
  <2> DEFINE A == {n \in 1..Len(fs) : fs[n].told}
             B == {n \in 1..Len(gs) : gs[n].told}
  <2> HIDE DEF A, B
  <2>1. B = A \cup (IF s.pending THEN {Len(fs) + 1} ELSE {}) /\ A = IF s.adapted /\ fs # <<>> THEN {1} ELSE {}
    BY <1>3, <1>5 DEF A, B
  <2>2. CASE s.pending
    <3>0. s.adapted /\ fs = <<>>
      BY <1>3, <2>2, Zenon
    <3>1. s.adapted /\ fs = <<>> /\ Len(fs) + 1 = 1
      BY <1>4, <3>0
    <3>2. B = {1}
      BY <2>1, <2>2, <3>1
    <3> QED  BY <3>1, <3>2 DEF B
  <2>3. CASE ~ s.pending
    <3>1. B = A /\ ~ (s.adapted /\ fs = <<>>)
      BY <1>3, <2>1, <2>3
    <3>2. B = IF s.adapted THEN {1} ELSE {}
      BY <2>1, <3>1
    <3> QED  BY <3>2 DEF B
  <2> QED  BY <1>2, <2>2, <2>3
<1>7. Announces(t, gs)
  BY <1>1, <1>2, <1>6 DEF Announces
<1> QED  BY <1>7 DEF gs, x

LEMMA TracksMore ==
    ASSUME NEW s, NEW fs, NEW c, Tracks(s, fs, c), NEW f, NEW t, NEW F, Only(s, t, F),
           F \cap {"dialect", "answer", "stream", "include_usage", "adapted", "error"} = {},
           Tells(s, t, f), f.type # "error",
           NEW d, IsKnown(d), d.failed <=> c.failed, DOMAIN t.slots = d.open
    PROVE  Tracks(t, Adds(s, fs, f), d)
<1> DEFINE gs == Adds(s, fs, f)
<1>1. t.stream = s.stream /\ t.adapted = s.adapted /\ t.error = s.error /\ IsEncoder(t)
  BY DEF Only, Fields
<1>2. IsEncoder(s) /\ IsSeq(fs) /\ Announces(s, fs) /\ Fails(s, fs)
  BY DEF Tracks
<1>3. Announces(t, gs)
  BY <1>1, <1>2, AnnouncesMore
<1>4. IsSeq(gs) /\ (~ s.stream => gs = fs) /\ (s.stream => \A y : HasFrame(gs, y) <=> HasFrame(fs, y) \/ f.type = y)
  BY <1>2, AddsIs
<1> HIDE DEF gs
<1>5. Fails(t, gs)
  BY <1>1, <1>2, <1>4 DEF Fails
<1> QED  BY <1>1, <1>3, <1>4, <1>5 DEF Tracks, gs

LEMMA TracksStill ==
    ASSUME NEW s, NEW fs, NEW c, Tracks(s, fs, c), NEW t, NEW F, Only(s, t, F),
           F \cap {"dialect", "answer", "stream", "include_usage", "adapted", "error", "pending"} = {},
           NEW d, IsKnown(d), d.failed <=> c.failed, DOMAIN t.slots = d.open
    PROVE  Tracks(t, fs, d)
<1>1. t.stream = s.stream /\ t.adapted = s.adapted /\ t.error = s.error /\ IsEncoder(t) /\ t.pending = s.pending
  BY DEF Only, Fields
<1> QED  BY <1>1 DEF Tracks, Announces, Fails

LEMMA CodesAre == 0 \notin Codes /\ 200 \notin Codes
BY DEF Codes, HttpStatus, ErrorKinds

LEMMA TracksFailure ==
    ASSUME NEW s, NEW fs, NEW c, Tracks(s, fs, c), NEW e, e \in Event, e.type = "Error",
           NEW d, IsKnown(d), d.failed, d.open = c.open
    PROVE  LET t == ErrorFrame(e, s)
           IN  Tracks(t, Adds(s, fs, [type |-> "error", status |-> t.error]), d)
<1> DEFINE t == ErrorFrame(e, s)
           f == [type |-> "error", status |-> t.error]
           gs == Adds(s, fs, f)
<1>1. IsEncoder(s) /\ IsSeq(fs) /\ Announces(s, fs) /\ Fails(s, fs)
  BY DEF Tracks
<1>2. Only(s, t, {"error", "out", "pending"}) /\ t.error \in Codes /\ Tells(s, t, f)
  BY <1>1, ErrorTold
<1>3. f.type = "error"
  OBVIOUS
<1> HIDE DEF t, f
<1>4. t.stream = s.stream /\ t.adapted = s.adapted /\ IsEncoder(t) /\ t.slots = s.slots
  BY <1>2 DEF Only, Fields
<1>5. Announces(t, gs)
  BY <1>1, <1>2, <1>4, AnnouncesMore
<1>6. IsSeq(gs) /\ (~ s.stream => gs = fs) /\ (s.stream => \A y : HasFrame(gs, y) <=> HasFrame(fs, y) \/ f.type = y)
  BY <1>1, AddsIs
<1> HIDE DEF gs
<1>7. Fails(t, gs) /\ t.error # 0
  BY <1>2, <1>3, <1>4, <1>6, CodesAre DEF Fails
<1>8. Tracks(t, gs, d)
  BY <1>4, <1>5, <1>6, <1>7 DEF Tracks
<1> QED  BY <1>8 DEF gs, f, t

(***************************************************************************)
(* Chat.                                                                   *)
(***************************************************************************)
\* The calls in fs are numbered 0 to n - 1.
Numbered(fs, n) ==
    /\ IsFiniteSet(Calls(fs)) /\ Cardinality(Calls(fs)) = n
    /\ \A g \in Calls(fs) : g.index \in 0..(n - 1)
    /\ \A j \in 0..(n - 1) : \E g \in Calls(fs) : g.index = j

LEMMA NumberedMore ==
    ASSUME NEW fs, IsSeq(fs), NEW n \in Nat, Numbered(fs, n), NEW x
    PROVE  LET gs == Append(fs, x)
           IN  /\ x.frame.type = "tool" /\ x.frame.index = n => Numbered(gs, n + 1)
               /\ x.frame.type # "tool" => Numbered(gs, n)
<1> DEFINE gs == Append(fs, x)
           f == x.frame
<1>1. FramesOf(gs) = FramesOf(fs) \cup {f}
  BY FrameAdded
<1> HIDE DEF gs, f
<1>2. ASSUME f.type = "tool", f.index = n PROVE Numbered(gs, n + 1)
  <2>1. Calls(gs) = Calls(fs) \cup {f}
    BY <1>1, <1>2 DEF Calls
  <2>2. f \notin Calls(fs)
    BY <1>2 DEF Numbered
  <2>3. IsFiniteSet(Calls(gs)) /\ Cardinality(Calls(gs)) = n + 1
    BY <2>1, <2>2, FS_AddElement DEF Numbered
  <2>4. \A g \in Calls(gs) : g.index \in 0..n
    BY <1>2, <2>1 DEF Numbered
  <2>5. \A j \in 0..n : \E g \in Calls(gs) : g.index = j
    BY <1>2, <2>1 DEF Numbered
  <2>6. (n + 1) - 1 = n
    OBVIOUS
  <2> QED  BY <2>3, <2>4, <2>5, <2>6 DEF Numbered
<1>3. ASSUME f.type # "tool" PROVE Numbered(gs, n)
  <2>1. Calls(gs) = Calls(fs)
    BY <1>1, <1>3 DEF Calls
  <2> QED  BY <2>1 DEF Numbered
<1> QED  BY <1>2, <1>3 DEF gs, f

\* The calls of a turn have ids of one origin.
Of(a) == IF a.provider \in {"google", "ollama"} THEN NoTurn ELSE a.turn
IsIdOf(a, i) == "of" \in DOMAIN i /\ i.of = Of(a)
IsCall(a, x) == DOMAIN x = {"id", "args", "signed"} /\ IsIdOf(a, x.id)

\* What the encoder has kept.
ChatKeeps(s) ==
    /\ s.dialect = "chat" /\ s.stash = {}
    /\ \A n \in 1..Len(s.tools) : IsCall(s.answer, s.tools[n])
    /\ \A i \in DOMAIN s.slots : s.slots[i].type = "Tool" => HasCall(s, i)
    /\ \A m \in 1..Len(s.blocks) :
         /\ s.blocks[m].turn = s.answer.turn
         /\ s.blocks[m].type = "ToolUse" => \E n \in 1..Len(s.tools) : s.blocks[m].id = s.tools[n].id

\* What its client has gathered.
Completion(text, refusal, tools, finish, usage) ==
    [type |-> "completion", text |-> text, refusal |-> refusal, tools |-> tools, finish |-> finish,
     usage |-> usage]
GatheredCalls(s) == [n \in 1..Len(s.tools) |-> [id |-> s.tools[n].id, args |-> s.tools[n].args]]
GatheredChat(s) ==
    Completion(s.text, s.refusal, GatheredCalls(s), s.finish, IF s.counted /\ s.include_usage THEN TRUE ELSE FALSE)

LEMMA TextGathered ==
    ASSUME NEW x, NEW r, NEW n, NEW v, NEW u, NEW f, f.type = "content"
    PROVE  GatherChat(Completion(x, r, n, v, u), f) = Completion(Append(x, f.block), r, n, v, u)
BY DEF GatherChat, Completion

LEMMA CallGathered ==
    ASSUME NEW x, NEW r, NEW n, NEW v, NEW u, NEW f, f.type = "tool",
           NEW m, m = Insert(n, f.index + 1, [id |-> f.id, args |-> <<>>])
    PROVE  GatherChat(Completion(x, r, n, v, u), f) = Completion(x, r, m, v, u)
<1> DEFINE c == Completion(x, r, n, v, u)
<1>1. GatherChat(c, f) = [c EXCEPT !.tools = m]
  BY DEF GatherChat, Completion
<1> QED  BY <1>1 DEF Completion

\* The calls n when call i has a piece more.
Longer(n, i, piece) == [n EXCEPT ![i] = [n[i] EXCEPT !.args = Append(n[i].args, piece)]]

LEMMA PieceGathered ==
    ASSUME NEW x, NEW r, NEW n, NEW v, NEW u, NEW f, f.type = "args", NEW i, i = f.index + 1, i \in DOMAIN n
    PROVE  GatherChat(Completion(x, r, n, v, u), f) = Completion(x, r, Longer(n, i, f.block), v, u)
<1> DEFINE c == Completion(x, r, n, v, u)
           m == Longer(n, i, f.block)
           b == GatherChat(c, f)
<1>1. c.tools = n
  BY DEF Completion
<1>2. b = [c EXCEPT !.tools[i].args = Append(@, f.block)]
  BY <1>1 DEF GatherChat
<1> HIDE DEF b, c
<1>3. [c EXCEPT !.tools[i].args = Append(@, f.block)] = [c EXCEPT !.tools = m]
  BY <1>1 DEF Longer
<1> HIDE DEF m
<1>4. b = [c EXCEPT !.tools = m]
  BY <1>2, <1>3
<1> QED  BY <1>4 DEF Completion, c, b, m

LEMMA FinishGathered ==
    ASSUME NEW x, NEW r, NEW n, NEW v, NEW u, NEW f, f.type = "finish"
    PROVE  GatherChat(Completion(x, r, n, v, u), f) = Completion(x, r, n, f.reason, u)
BY DEF GatherChat, Completion

LEMMA NothingGathered ==
    ASSUME NEW x, NEW r, NEW n, NEW v, NEW u, NEW f, f.type \in {"role", "error", "done"}
    PROVE  GatherChat(Completion(x, r, n, v, u), f) = Completion(x, r, n, v, u)
BY DEF GatherChat, Completion

\* What it has been told.
ChatSays(s, fs, c) ==
    /\ ChatGrammar(fs) /\ ~ HasFrame(fs, "done")
    /\ HasFrame(fs, "role") <=> c.started
    /\ HasFrame(fs, "finish") <=> c.done
    /\ Numbered(fs, Len(s.tools))
    /\ Gathered("chat", fs) = GatheredChat(s)

LEMMA ChatSaysMore ==
    ASSUME NEW s, IsEncoder(s), NEW fs, IsSeq(fs), NEW c, ChatSays(s, fs, c), NEW f, f.type # "done",
           f.type = "role" => ~ c.started,
           f.type = "finish" => ~ c.done,
           f.type \in {"content", "tool", "args", "refusal", "finish", "usage"} => c.started,
           f.type \in {"content", "tool", "args", "refusal"} => ~ c.done,
           f.type = "tool" => f.index = Len(s.tools),
           f.type = "args" => f.index \in 0..(Len(s.tools) - 1),
           NEW t, NEW d,
           Len(t.tools) = IF f.type = "tool" THEN Len(s.tools) + 1 ELSE Len(s.tools),
           d.started <=> c.started \/ f.type = "role", d.done <=> c.done \/ f.type = "finish",
           GatherChat(GatheredChat(s), f) = GatheredChat(t)
    PROVE  ChatSays(t, Append(fs, Said(s, f)), d)
<1> DEFINE x == Said(s, f)
           gs == Append(fs, x)
<1>1. x.frame = f
  BY DEF Said
<1> HIDE DEF x
<1>2. Len(s.tools) \in Nat
  BY SeqIs DEF IsEncoder
<1>3. \A y : HasFrame(gs, y) <=> HasFrame(fs, y) \/ f.type = y
  BY <1>1, FrameAdded
<1>4. ChatGrammar(gs)
  <2>1. f.type = "tool" => f.index = Cardinality(Calls(fs))
    BY DEF ChatSays, Numbered
  <2>2. f.type = "args" => \E g \in Calls(fs) : g.index = f.index
    BY DEF ChatSays, Numbered
  <2>3. ChatGrammar(fs) /\ ~ HasFrame(fs, "done") /\ (HasFrame(fs, "role") <=> c.started) /\ (HasFrame(fs, "finish") <=> c.done)
    BY DEF ChatSays
  <2> QED  BY <1>1, <2>1, <2>2, <2>3, ChatMore
<1>5. Numbered(gs, Len(t.tools))
  <2>1. Numbered(fs, Len(s.tools))
    BY DEF ChatSays
  <2> QED  BY <1>1, <1>2, <2>1, NumberedMore
<1>6. Gathered("chat", gs) = GatheredChat(t)
  BY <1>1, GatheredMore DEF Gather, ChatSays
<1> HIDE DEF gs
<1>7. ChatSays(t, gs, d)
  BY <1>3, <1>4, <1>5, <1>6 DEF ChatSays
<1> QED  BY <1>7 DEF gs, x

LEMMA ChatSaysStill ==
    ASSUME NEW s, NEW fs, NEW c, ChatSays(s, fs, c), NEW t, NEW d,
           Len(t.tools) = Len(s.tools), d.started <=> c.started, d.done <=> c.done,
           GatheredChat(s) = GatheredChat(t)
    PROVE  ChatSays(t, fs, d)
BY DEF ChatSays

ChatRuns(s, fs, c) == Tracks(s, fs, c) /\ ChatKeeps(s) /\ (s.stream => ChatSays(s, fs, c))

\* What goes before the frames of this event is in `before`.
LEMMA Put ==
    ASSUME NEW before, IsSeq(before), NEW s, IsEncoder(s), NEW t
    PROVE  /\ \A f : Tells(s, t, f) => before \o t.out = Adds(s, before \o s.out, f)
           /\ Silent(s, t) => before \o t.out = before \o s.out
           /\ IsSeq(before \o s.out)
<1>1. \A x : before \o Append(s.out, x) = Append(before \o s.out, x)
  BY ConcatAppend DEF IsEncoder
<1>2. IsSeq(before \o s.out)
  BY ConcatAppend DEF IsEncoder
<1> QED  BY <1>1, <1>2 DEF Tells, Adds, Silent

\* The frames of the events but for errors and the end.
ChatFrames ==
    {<<"MessageStart", "role">>, <<"ContentStart", "tool">>, <<"ContentDelta", "content">>,
     <<"ContentDelta", "args">>, <<"Usage", "usage">>, <<"Finish", "finish">>}
Constants == {"dialect", "answer", "stream", "include_usage", "adapted", "error"}

LEMMA ChatStep ==
    ASSUME NEW before, IsSeq(before), NEW s, NEW c, ChatRuns(s, before \o s.out, c),
           NEW e, May(c, e), NEW f, <<e.type, f.type>> \in ChatFrames,
           NEW t, NEW F, Only(s, t, F), F \cap Constants = {}, Tells(s, t, f),
           ChatKeeps(t), DOMAIN t.slots = Knows(c, e).open,
           f.type = "tool" => f.index = Len(s.tools),
           f.type = "args" => f.index \in 0..(Len(s.tools) - 1),
           Len(t.tools) = IF f.type = "tool" THEN Len(s.tools) + 1 ELSE Len(s.tools),
           GatherChat(GatheredChat(s), f) = GatheredChat(t)
    PROVE  ChatRuns(t, before \o t.out, Knows(c, e))
<1> DEFINE fs == before \o s.out
           d == Knows(c, e)
<1>1. IsEncoder(s) /\ Tracks(s, fs, c) /\ ChatKeeps(s) /\ (s.stream => ChatSays(s, fs, c)) /\ IsKnown(c)
  BY DEF ChatRuns, Tracks
<1>2. /\ IsKnown(d)
      /\ d.started <=> c.started \/ e.type = "MessageStart"
      /\ d.done <=> c.done \/ e.type = "Finish"
      /\ d.failed <=> c.failed \/ e.type = "Error"
  BY <1>1, KnowsIs
<1>3. before \o t.out = Adds(s, fs, f) /\ IsSeq(fs)
  BY <1>1, Put
<1>4. t.stream = s.stream
  BY DEF Only, Fields, Constants
<1>5. /\ f.type \notin {"error", "done", "refusal"} /\ e.type # "Error"
      /\ f.type = "role" <=> e.type = "MessageStart"
      /\ f.type = "finish" <=> e.type = "Finish"
      /\ f.type = "tool" => e.type = "ContentStart"
      /\ f.type \in {"content", "args"} => e.type = "ContentDelta"
      /\ f.type = "usage" => e.type = "Usage"
  BY DEF ChatFrames
<1>6. /\ f.type = "role" => ~ c.started
      /\ f.type = "finish" => ~ c.done
      /\ f.type \in {"content", "tool", "args", "refusal", "finish", "usage"} => c.started
      /\ f.type \in {"content", "tool", "args", "refusal"} => ~ c.done
  BY <1>1, <1>5 DEF May, IsKnown
<1> HIDE DEF fs, d
<1>7. Tracks(t, Adds(s, fs, f), d)
  <2>1. DOMAIN t.slots = d.open /\ (d.failed <=> c.failed) /\ f.type # "error"
    BY <1>2, <1>5 DEF d
  <2>2. F \cap {"dialect", "answer", "stream", "include_usage", "adapted", "error"} = {}
    BY DEF Constants
  <2> QED  BY <1>1, <1>2, <2>1, <2>2, TracksMore
<1>8. ASSUME s.stream PROVE ChatSays(t, Append(fs, Said(s, f)), d)
  <2>1. (d.started <=> c.started \/ f.type = "role") /\ (d.done <=> c.done \/ f.type = "finish") /\ f.type # "done"
    BY <1>2, <1>5
  <2> QED  BY <1>1, <1>3, <1>6, <1>8, <2>1, ChatSaysMore
<1>9. ChatRuns(t, Adds(s, fs, f), d)
  BY <1>4, <1>7, <1>8 DEF ChatRuns, Adds
<1> QED  BY <1>3, <1>9 DEF d

LEMMA ChatStill ==
    ASSUME NEW before, IsSeq(before), NEW s, NEW c, ChatRuns(s, before \o s.out, c),
           NEW e, May(c, e), e.type \notin {"MessageStart", "Finish", "Error"},
           NEW t, NEW F, Only(s, t, F), F \cap Constants = {}, F \cap {"out", "pending"} = {},
           ChatKeeps(t), DOMAIN t.slots = Knows(c, e).open, Len(t.tools) = Len(s.tools),
           GatheredChat(s) = GatheredChat(t)
    PROVE  ChatRuns(t, before \o t.out, Knows(c, e))
<1> DEFINE fs == before \o s.out
           d == Knows(c, e)
<1>1. IsEncoder(s) /\ Tracks(s, fs, c) /\ ChatKeeps(s) /\ (s.stream => ChatSays(s, fs, c)) /\ IsKnown(c)
  BY DEF ChatRuns, Tracks
<1>2. IsKnown(d) /\ (d.started <=> c.started) /\ (d.done <=> c.done) /\ (d.failed <=> c.failed)
  BY <1>1, KnowsIs
<1>3. t.stream = s.stream /\ t.out = s.out
  BY DEF Only, Fields, Constants
<1>4. before \o t.out = fs
  BY <1>3
<1> HIDE DEF fs, d
<1>5. Tracks(t, fs, d)
  <2>1. F \cap {"dialect", "answer", "stream", "include_usage", "adapted", "error", "pending"} = {}
    BY DEF Constants
  <2>2. DOMAIN t.slots = d.open
    BY DEF d
  <2> QED  BY <1>1, <1>2, <2>1, <2>2, TracksStill
<1>6. ASSUME s.stream PROVE ChatSays(t, fs, d)
  BY <1>1, <1>2, <1>6, ChatSaysStill
<1>7. ChatRuns(t, fs, d)
  BY <1>3, <1>5, <1>6 DEF ChatRuns
<1> QED  BY <1>4, <1>7 DEF d

LEMMA ChatRole ==
    ASSUME NEW before, IsSeq(before), NEW s, NEW c, ChatRuns(s, before \o s.out, c),
           NEW e, May(c, e), e.type = "MessageStart"
    PROVE  LET t == ChatEncode(e, s) IN ChatRuns(t, before \o t.out, Knows(c, e))
<1> DEFINE t == ChatEncode(e, s)
           f == [type |-> "role"]
           F == {"out", "pending"}
<1>1. IsEncoder(s) /\ ChatKeeps(s) /\ DOMAIN s.slots = c.open /\ IsKnown(c)
  BY DEF ChatRuns, Tracks
<1>2. Only(s, t, F) /\ Tells(s, t, f)
  BY <1>1, RoleTold
<1>3. GatherChat(GatheredChat(s), f) = GatheredChat(s)
  BY DEF GatherChat
<1>4. <<e.type, f.type>> \in ChatFrames /\ f.type = "role" /\ F \cap Constants = {}
  BY DEF ChatFrames, Constants
<1> HIDE DEF t, f
<1>5. /\ t.slots = s.slots /\ t.tools = s.tools /\ t.text = s.text /\ t.refusal = s.refusal /\ t.finish = s.finish
      /\ t.counted = s.counted /\ t.include_usage = s.include_usage /\ t.blocks = s.blocks
      /\ t.answer = s.answer /\ t.dialect = s.dialect /\ t.stash = s.stash
  BY <1>2 DEF Only, Fields
<1> HIDE DEF F
<1>6. ChatKeeps(t) /\ GatheredChat(t) = GatheredChat(s)
  BY <1>1, <1>5 DEF ChatKeeps, HasCall, GatheredChat, GatheredCalls
<1>7. DOMAIN t.slots = Knows(c, e).open /\ Len(t.tools) = Len(s.tools)
  BY <1>1, <1>5, KnowsIs
<1>8. ChatRuns(t, before \o t.out, Knows(c, e))
  BY <1>2, <1>3, <1>4, <1>6, <1>7, ChatStep
<1> QED  BY <1>8 DEF t

LEMMA RemoveIs ==
    ASSUME NEW f, NEW k
    PROVE  DOMAIN Remove(f, k) = DOMAIN f \ {k} /\ \A x \in DOMAIN f \ {k} : Remove(f, k)[x] = f[x]
BY DEF Remove

\* The blocks kept are those of this answer.
OwnBlocks(s) ==
    \A m \in 1..Len(s.blocks) :
        /\ s.blocks[m].turn = s.answer.turn
        /\ s.blocks[m].type = "ToolUse" => \E n \in 1..Len(s.tools) : s.blocks[m].id = s.tools[n].id

LEMMA BlocksGrow ==
    ASSUME NEW s, IsEncoder(s), OwnBlocks(s), NEW t, t.tools = s.tools, t.answer = s.answer,
           NEW isCall, Grows(s, t, isCall)
    PROVE  OwnBlocks(t)
<1>1. CASE t.blocks = s.blocks
  BY <1>1 DEF OwnBlocks
<1>2. ASSUME NEW b, t.blocks = Append(s.blocks, b), b.turn = s.answer.turn,
             b.type = "ToolUse" => isCall /\ \E n \in DOMAIN s.tools : b.id = s.tools[n].id
      PROVE  OwnBlocks(t)
  <2>1. DOMAIN s.tools = 1..Len(s.tools)
    BY SeqIs DEF IsEncoder
  <2> DEFINE q == Append(s.blocks, b)
             n == Len(s.blocks)
  <2>2. n \in Nat /\ Len(q) = n + 1 /\ (\A m \in 1..n : q[m] = s.blocks[m]) /\ q[n + 1] = b
    BY AppendIs DEF IsEncoder
  <2>3. t.blocks = q
    BY <1>2
  <2> HIDE DEF q
  <2>4. \A m \in 1..Len(q) : m \in 1..n \/ m = n + 1
    BY <2>2
  <2> QED  BY <1>2, <2>1, <2>2, <2>3, <2>4 DEF OwnBlocks
<1> QED  BY <1>1, <1>2 DEF Grows

LEMMA ChatCall ==
    ASSUME NEW before, IsSeq(before), NEW s, NEW c, ChatRuns(s, before \o s.out, c),
           NEW e, May(c, e), e.type = "ContentStart", e.kind = "ToolUse"
    PROVE  LET t == ChatEncode(e, s) IN ChatRuns(t, before \o t.out, Knows(c, e))
<1> DEFINE t == ChatEncode(e, s)
           id == CallId(s.answer, e)
           n == Len(s.tools)
           f == [type |-> "tool", index |-> n, id |-> id]
           y == [id |-> id, args |-> <<>>, signed |-> FALSE]
           z == [type |-> "Tool", at |-> n + 1]
           F == {"slots", "tools", "out", "pending"}
<1>1. IsEncoder(s) /\ ChatKeeps(s) /\ DOMAIN s.slots = c.open /\ IsKnown(c)
  BY DEF ChatRuns, Tracks
<1>2. /\ Only(s, t, F) /\ Tells(s, t, f) /\ t.slots = Insert(s.slots, e.index, z) /\ t.tools = Append(s.tools, y)
  BY <1>1, CallTold
<1>3. <<e.type, f.type>> \in ChatFrames /\ f.type = "tool" /\ f.index = n /\ f.id = id /\ F \cap Constants = {}
  BY DEF ChatFrames, Constants
<1>4. /\ n \in Nat /\ Len(Append(s.tools, y)) = n + 1
      /\ (\A m \in 1..n : Append(s.tools, y)[m] = s.tools[m]) /\ Append(s.tools, y)[n + 1] = y
  BY <1>1, AppendIs DEF IsEncoder
<1>5. IsCall(s.answer, y) /\ y.id = id /\ y.args = <<>>
  BY DEF IsCall, IsIdOf, Of, CallId
<1>6. z.type = "Tool" /\ z.at = n + 1
  OBVIOUS
<1> HIDE DEF t, f, y, z, id
<1>8. /\ t.text = s.text /\ t.refusal = s.refusal /\ t.finish = s.finish
      /\ t.counted = s.counted /\ t.include_usage = s.include_usage /\ t.blocks = s.blocks
      /\ t.answer = s.answer /\ t.dialect = s.dialect /\ t.stash = s.stash
  BY <1>2 DEF Only, Fields
<1>15. /\ DOMAIN t.slots = DOMAIN s.slots \cup {e.index} /\ t.slots[e.index] = z
       /\ \A x \in DOMAIN s.slots : x # e.index => t.slots[x] = s.slots[x]
  <2>1. t.slots = Insert(s.slots, e.index, z)
    BY <1>2
  <2> QED  BY <2>1 DEF Insert
<1>9. Len(t.tools) = n + 1 /\ (\A m \in 1..n : t.tools[m] = s.tools[m]) /\ t.tools[n + 1] = y
  BY <1>2, <1>4
<1>10. \A m \in 1..(n + 1) : m \in 1..n \/ m = n + 1
  BY <1>4
<1>11. ChatKeeps(t)
  <2>1. \A m \in 1..Len(t.tools) : IsCall(t.answer, t.tools[m])
    BY <1>1, <1>5, <1>8, <1>9, <1>10 DEF ChatKeeps
  <2>2. ASSUME NEW i \in DOMAIN t.slots, t.slots[i].type = "Tool" PROVE HasCall(t, i)
    <3>1. CASE i = e.index
      <4>1. t.slots[i] = z
        BY <1>15, <3>1
      <4> QED  BY <1>4, <1>6, <1>9, <4>1 DEF HasCall
    <3>2. CASE i # e.index
      <4>1. i \in DOMAIN s.slots /\ t.slots[i] = s.slots[i]
        BY <1>15, <2>2, <3>2
      <4>2. HasCall(s, i)
        BY <1>1, <2>2, <4>1 DEF ChatKeeps
      <4> QED  BY <1>4, <1>9, <4>1, <4>2 DEF HasCall
    <3> QED  BY <3>1, <3>2
  <2>3. OwnBlocks(s)
    BY <1>1 DEF ChatKeeps, OwnBlocks
  <2>4. OwnBlocks(t)
    <3>1. \A m \in 1..n : m \in 1..Len(t.tools)
      BY <1>4, <1>9
    <3>2. ASSUME NEW i, \E m \in 1..n : i = s.tools[m].id PROVE \E m \in 1..Len(t.tools) : i = t.tools[m].id
      BY <1>9, <3>1, <3>2
    <3>3. t.blocks = s.blocks /\ t.answer = s.answer
      BY <1>8
    <3> HIDE DEF n
    <3>4. \A m \in 1..Len(s.blocks) :
             /\ s.blocks[m].turn = s.answer.turn
             /\ s.blocks[m].type = "ToolUse" => \E l \in 1..n : s.blocks[m].id = s.tools[l].id
      BY <2>3 DEF OwnBlocks, n
    <3> QED  BY <3>2, <3>3, <3>4 DEF OwnBlocks
  <2> QED  BY <1>1, <1>8, <2>1, <2>2, <2>4 DEF ChatKeeps, OwnBlocks
<1>12. GatherChat(GatheredChat(s), f) = GatheredChat(t)
  <2> DEFINE new == Insert(GatheredCalls(s), n + 1, [id |-> id, args |-> <<>>])
  <2>1. new = GatheredCalls(t)
    <3>1. DOMAIN new = 1..(n + 1) /\ DOMAIN GatheredCalls(t) = 1..(n + 1)
      BY <1>4, <1>9 DEF Insert, GatheredCalls
    <3>2. new[n + 1] = [id |-> id, args |-> <<>>] /\ \A m \in 1..n : new[m] = GatheredCalls(s)[m]
      BY <1>4 DEF Insert, GatheredCalls
    <3>3. /\ GatheredCalls(t)[n + 1] = [id |-> id, args |-> <<>>]
          /\ \A m \in 1..n : GatheredCalls(t)[m] = GatheredCalls(s)[m]
      BY <1>4, <1>5, <1>9 DEF GatheredCalls
    <3>4. \A m \in 1..(n + 1) : new[m] = GatheredCalls(t)[m]
      BY <1>10, <3>2, <3>3
    <3>5. new = [m \in 1..(n + 1) |-> new[m]] /\ GatheredCalls(t) = [m \in 1..(n + 1) |-> GatheredCalls(t)[m]]
      BY <3>1 DEF Insert, GatheredCalls
    <3> HIDE DEF new
    <3> QED  BY <3>4, <3>5
  <2> HIDE DEF new
  <2> DEFINE u == IF s.counted /\ s.include_usage THEN TRUE ELSE FALSE
             w == GatheredCalls(s)
  <2>2. GatheredChat(s) = Completion(s.text, s.refusal, w, s.finish, u)
    BY DEF GatheredChat
  <2>3. GatheredChat(t) = Completion(s.text, s.refusal, new, s.finish, u)
    BY <1>8, <2>1 DEF GatheredChat
  <2>4. new = Insert(w, f.index + 1, [id |-> f.id, args |-> <<>>])
    BY <1>3 DEF new
  <2> HIDE DEF u, w
  <2> QED  BY <1>3, <2>2, <2>3, <2>4, CallGathered
<1>13. DOMAIN t.slots = Knows(c, e).open
  <2>1. Knows(c, e).open = c.open \cup {e.index}
    BY <1>1, KnowsIs
  <2> QED  BY <1>1, <1>15, <2>1
<1> HIDE DEF F
<1>14. ChatRuns(t, before \o t.out, Knows(c, e))
  BY <1>2, <1>3, <1>9, <1>11, <1>12, <1>13, ChatStep
<1> QED  BY <1>14 DEF t

LEMMA KeepsOn ==
    ASSUME NEW s, ChatKeeps(s), NEW t, t.dialect = s.dialect, t.answer = s.answer, t.stash = s.stash,
           t.tools = s.tools, OwnBlocks(t),
           \A i \in DOMAIN t.slots :
               t.slots[i].type = "Tool" => i \in DOMAIN s.slots /\ t.slots[i] = s.slots[i]
    PROVE  ChatKeeps(t)
BY DEF ChatKeeps, OwnBlocks, HasCall

LEMMA KeepsOwn ==
    ASSUME NEW s, ChatKeeps(s) PROVE OwnBlocks(s)
BY DEF ChatKeeps, OwnBlocks

\* Another call has the fragment.
LEMMA KeepsCalls ==
    ASSUME NEW s, IsEncoder(s), ChatKeeps(s), NEW t, t.dialect = s.dialect, t.answer = s.answer, t.stash = s.stash,
           t.slots = s.slots, t.blocks = s.blocks, Len(t.tools) = Len(s.tools),
           \A n \in 1..Len(s.tools) :
               DOMAIN t.tools[n] = DOMAIN s.tools[n] /\ t.tools[n].id = s.tools[n].id
    PROVE  ChatKeeps(t)
<1>1. \A n \in 1..Len(t.tools) : IsCall(t.answer, t.tools[n])
  BY DEF ChatKeeps, IsCall
<1>2. \A i \in DOMAIN t.slots : t.slots[i].type = "Tool" => HasCall(t, i)
  BY DEF ChatKeeps, HasCall
<1>3. \A m \in 1..Len(t.blocks) :
        /\ t.blocks[m].turn = t.answer.turn
        /\ t.blocks[m].type = "ToolUse" => \E n \in 1..Len(t.tools) : t.blocks[m].id = t.tools[n].id
  BY DEF ChatKeeps
<1> QED  BY <1>1, <1>2, <1>3 DEF ChatKeeps

LEMMA ChatBlock ==
    ASSUME NEW before, IsSeq(before), NEW s, NEW c, ChatRuns(s, before \o s.out, c),
           NEW e, May(c, e), e.type = "ContentStart", e.kind # "ToolUse"
    PROVE  LET t == ChatEncode(e, s) IN ChatRuns(t, before \o t.out, Knows(c, e))
<1> DEFINE t == ChatEncode(e, s)
           F == {"slots", "blocks"}
<1>1. IsEncoder(s) /\ ChatKeeps(s) /\ DOMAIN s.slots = c.open /\ IsKnown(c)
  BY DEF ChatRuns, Tracks
<1>2. Only(s, t, F) /\ Grows(s, t, FALSE) /\ \E z : z.type # "Tool" /\ t.slots = Insert(s.slots, e.index, z)
  BY <1>1, BlockTold
<1>3. F \cap Constants = {} /\ F \cap {"out", "pending"} = {}
  BY DEF Constants
<1> HIDE DEF t
<1>4. /\ t.tools = s.tools /\ t.text = s.text /\ t.refusal = s.refusal /\ t.finish = s.finish
      /\ t.counted = s.counted /\ t.include_usage = s.include_usage
      /\ t.answer = s.answer /\ t.dialect = s.dialect /\ t.stash = s.stash
  BY <1>2 DEF Only, Fields
<1> HIDE DEF F
<1>5. PICK z : z.type # "Tool" /\ t.slots = Insert(s.slots, e.index, z)
  BY <1>2
<1>6. /\ DOMAIN t.slots = DOMAIN s.slots \cup {e.index} /\ t.slots[e.index] = z
      /\ \A x \in DOMAIN s.slots : x # e.index => t.slots[x] = s.slots[x]
  BY <1>5 DEF Insert
<1>7. ChatKeeps(t)
  <2>1. OwnBlocks(t)
    BY <1>1, <1>2, <1>4, KeepsOwn, BlocksGrow
  <2>2. \A i \in DOMAIN t.slots :
            t.slots[i].type = "Tool" => i \in DOMAIN s.slots /\ t.slots[i] = s.slots[i]
    BY <1>5, <1>6
  <2> QED  BY <1>1, <1>4, <2>1, <2>2, KeepsOn
<1>8. DOMAIN t.slots = Knows(c, e).open
  BY <1>1, <1>6, KnowsIs
<1>9. GatheredChat(s) = GatheredChat(t)
  BY <1>4 DEF GatheredChat, GatheredCalls
<1>10. ChatRuns(t, before \o t.out, Knows(c, e))
  BY <1>2, <1>3, <1>4, <1>7, <1>8, <1>9, ChatStill
<1> QED  BY <1>10 DEF t

LEMMA ChatText ==
    ASSUME NEW before, IsSeq(before), NEW s, NEW c, ChatRuns(s, before \o s.out, c),
           NEW e, May(c, e), e.type = "ContentDelta", Routes(s, e.index, {"Text"}), e.delta = "TextDelta"
    PROVE  LET t == ChatEncode(e, s) IN ChatRuns(t, before \o t.out, Knows(c, e))
<1> DEFINE t == ChatEncode(e, s)
           F == {"text", "out", "pending"}
           f == [type |-> "content", block |-> e.block]
<1>1. IsEncoder(s) /\ ChatKeeps(s) /\ DOMAIN s.slots = c.open /\ IsKnown(c)
  BY DEF ChatRuns, Tracks
<1>2. Only(s, t, F) /\ Tells(s, t, f) /\ t.text = Append(s.text, e.block)
  BY <1>1, TextTold
<1>3. <<e.type, f.type>> \in ChatFrames /\ f.type = "content" /\ F \cap Constants = {}
  BY DEF ChatFrames, Constants
<1>4. f.block = e.block
  OBVIOUS
<1> HIDE DEF t, f
<1>5. /\ t.slots = s.slots /\ t.tools = s.tools /\ t.refusal = s.refusal /\ t.finish = s.finish
      /\ t.counted = s.counted /\ t.include_usage = s.include_usage /\ t.blocks = s.blocks
      /\ t.answer = s.answer /\ t.dialect = s.dialect /\ t.stash = s.stash
  BY <1>2 DEF Only, Fields
<1> HIDE DEF F
<1>6. ChatKeeps(t)
  BY <1>1, <1>5 DEF ChatKeeps, HasCall
<1>7. GatherChat(GatheredChat(s), f) = GatheredChat(t)
  <2> DEFINE u == IF s.counted /\ s.include_usage THEN TRUE ELSE FALSE
             w == GatheredCalls(s)
             x == Append(s.text, e.block)
  <2>1. GatheredChat(s) = Completion(s.text, s.refusal, w, s.finish, u)
    BY DEF GatheredChat
  <2>2. GatheredChat(t) = Completion(x, s.refusal, w, s.finish, u)
    BY <1>2, <1>5 DEF GatheredChat, GatheredCalls
  <2> HIDE DEF u, w
  <2> QED  BY <1>3, <1>4, <2>1, <2>2, TextGathered
<1>8. DOMAIN t.slots = Knows(c, e).open /\ Len(t.tools) = Len(s.tools)
  BY <1>1, <1>5, KnowsIs
<1>9. ChatRuns(t, before \o t.out, Knows(c, e))
  BY <1>2, <1>3, <1>4, <1>6, <1>7, <1>8, ChatStep
<1> QED  BY <1>9 DEF t

\* Call n has the fragment b.
HasPiece(s, t, n, b) ==
    /\ Len(t.tools) = Len(s.tools)
    /\ \A m \in 1..Len(s.tools) :
         /\ DOMAIN t.tools[m] = DOMAIN s.tools[m] /\ t.tools[m].id = s.tools[m].id
         /\ t.tools[m].args = IF m = n THEN Append(s.tools[m].args, b) ELSE s.tools[m].args

LEMMA PieceAdded ==
    ASSUME NEW s, IsEncoder(s), ChatKeeps(s), NEW n \in 1..Len(s.tools), NEW b,
           NEW t, t.tools = [s.tools EXCEPT ![n].args = Append(@, b)]
    PROVE  HasPiece(s, t, n, b)
<1> DEFINE x == [s.tools[n] EXCEPT !.args = Append(s.tools[n].args, b)]
<1>1. t.tools = [s.tools EXCEPT ![n] = x]
  OBVIOUS
<1>2. DOMAIN s.tools[n] = {"id", "args", "signed"}
  BY DEF ChatKeeps, IsCall
<1>3. x.id = s.tools[n].id /\ x.args = Append(s.tools[n].args, b) /\ DOMAIN x = DOMAIN s.tools[n]
  BY <1>2
<1> HIDE DEF x
<1>4. Len(t.tools) = Len(s.tools) /\ \A m \in 1..Len(s.tools) : t.tools[m] = IF m = n THEN x ELSE s.tools[m]
  <2> DEFINE q == s.tools
  <2>1. IsSeq(q) /\ n \in 1..Len(q) /\ t.tools = [q EXCEPT ![n] = x]
    BY <1>1 DEF IsEncoder
  <2> HIDE DEF q
  <2>2. Len([q EXCEPT ![n] = x]) = Len(q) /\ \A m \in 1..Len(q) : [q EXCEPT ![n] = x][m] = IF m = n THEN x ELSE q[m]
    BY <2>1, SetAt
  <2> QED  BY <2>1, <2>2 DEF q
<1> QED  BY <1>3, <1>4 DEF HasPiece

\* What it makes of what is gathered.
LEMMA ArgsGathered ==
    ASSUME NEW s, NEW n \in 1..Len(s.tools), NEW b, NEW t, HasPiece(s, t, n, b),
           t.text = s.text, t.refusal = s.refusal, t.finish = s.finish, t.counted = s.counted,
           t.include_usage = s.include_usage,
           NEW f, f.type = "args", f.index + 1 = n, f.block = b
    PROVE  GatherChat(GatheredChat(s), f) = GatheredChat(t)
<1> DEFINE g == GatheredCalls(s)
           y == [g[n] EXCEPT !.args = Append(g[n].args, b)]
           new == [g EXCEPT ![n] = y]
<1>1. DOMAIN g = 1..Len(s.tools) /\ \A m \in 1..Len(s.tools) : g[m] = [id |-> s.tools[m].id, args |-> s.tools[m].args]
  BY DEF GatheredCalls
<1>2. y = [id |-> s.tools[n].id, args |-> Append(s.tools[n].args, b)]
  <2> DEFINE i == s.tools[n].id
             a == s.tools[n].args
             h == g[n]
  <2>1. g[n] = [id |-> i, args |-> a]
    BY <1>1
  <2> HIDE DEF i, a, h
  <2>2. h = [id |-> i, args |-> a]
    BY <2>1 DEF h
  <2>3. [h EXCEPT !.args = Append(h.args, b)] = [id |-> i, args |-> Append(a, b)]
    BY <2>2
  <2> QED  BY <2>3 DEF y, i, a, h
<1> HIDE DEF g, y
<1>3. new = GatheredCalls(t)
  <2>1. DOMAIN new = 1..Len(s.tools) /\ DOMAIN GatheredCalls(t) = 1..Len(s.tools)
    BY <1>1 DEF GatheredCalls, HasPiece
  <2>2. ASSUME NEW m \in 1..Len(s.tools) PROVE new[m] = GatheredCalls(t)[m]
    <3>1. GatheredCalls(t)[m] = [id |-> t.tools[m].id, args |-> t.tools[m].args]
      BY DEF GatheredCalls, HasPiece
    <3>2. new[m] = IF m = n THEN y ELSE g[m]
      BY <1>1
    <3>3. t.tools[m].id = s.tools[m].id
      BY DEF HasPiece
    <3>4. t.tools[m].args = IF m = n THEN Append(s.tools[n].args, b) ELSE s.tools[m].args
      BY DEF HasPiece
    <3> QED  BY <1>1, <1>2, <3>1, <3>2, <3>3, <3>4
  <2>3. new = [m \in 1..Len(s.tools) |-> new[m]] /\ GatheredCalls(t) = [m \in 1..Len(s.tools) |-> GatheredCalls(t)[m]]
    BY <1>1, <2>1 DEF GatheredCalls
  <2> HIDE DEF new
  <2>4. new = GatheredCalls(t)
    BY <2>2, <2>3
  <2> QED  BY <2>4
<1>4. n \in DOMAIN g
  BY <1>1
<1>5. new = Longer(g, n, f.block)
  BY DEF y, Longer
<1> DEFINE p == s.text
           r == s.refusal
           v == s.finish
           u == IF s.counted /\ s.include_usage THEN TRUE ELSE FALSE
<1>6. GatheredChat(s) = Completion(p, r, g, v, u)
  BY DEF GatheredChat, g
<1>7. GatheredChat(t) = Completion(p, r, Longer(g, n, f.block), v, u)
  BY <1>3, <1>5 DEF GatheredChat
<1> HIDE DEF p, r, v, u, new
<1>8. GatherChat(Completion(p, r, g, v, u), f) = Completion(p, r, Longer(g, n, f.block), v, u)
  BY <1>4, PieceGathered
<1> QED  BY <1>6, <1>7, <1>8

LEMMA ChatArgs ==
    ASSUME NEW before, IsSeq(before), NEW s, NEW c, ChatRuns(s, before \o s.out, c),
           NEW e, May(c, e), e.type = "ContentDelta", Routes(s, e.index, {"Tool"}), e.delta = "JsonDelta"
    PROVE  LET t == ChatEncode(e, s) IN ChatRuns(t, before \o t.out, Knows(c, e))
<1> DEFINE t == ChatEncode(e, s)
           n == s.slots[e.index].at
           F == {"tools", "out", "pending"}
           f == [type |-> "args", index |-> n - 1, block |-> e.block]
<1>1. IsEncoder(s) /\ ChatKeeps(s) /\ DOMAIN s.slots = c.open /\ IsKnown(c)
  BY DEF ChatRuns, Tracks
<1>2. HasCall(s, e.index)
  BY <1>1 DEF ChatKeeps, Routes
<1>3. Only(s, t, F) /\ Tells(s, t, f) /\ t.tools = [s.tools EXCEPT ![n].args = Append(@, e.block)]
  BY <1>1, <1>2, ArgsTold
<1>4. Len(s.tools) \in Nat /\ n \in 1..Len(s.tools)
  BY <1>1, <1>2, SeqIs DEF HasCall, IsEncoder
<1>5. /\ <<e.type, f.type>> \in ChatFrames /\ f.type = "args" /\ F \cap Constants = {} /\ f.block = e.block
      /\ f.index + 1 = n /\ f.index \in 0..(Len(s.tools) - 1)
  BY <1>4 DEF ChatFrames, Constants
<1> HIDE DEF t, f, n
<1>6. HasPiece(s, t, n, e.block)
  BY <1>1, <1>3, <1>4, PieceAdded
<1>7. /\ t.slots = s.slots /\ t.text = s.text /\ t.refusal = s.refusal /\ t.finish = s.finish
      /\ t.counted = s.counted /\ t.include_usage = s.include_usage /\ t.blocks = s.blocks
      /\ t.answer = s.answer /\ t.dialect = s.dialect /\ t.stash = s.stash
  BY <1>3 DEF Only, Fields
<1> HIDE DEF F
<1>8. ChatKeeps(t) /\ Len(t.tools) = Len(s.tools)
  BY <1>1, <1>6, <1>7, KeepsCalls DEF HasPiece
<1>9. GatherChat(GatheredChat(s), f) = GatheredChat(t)
  BY <1>4, <1>5, <1>6, <1>7, ArgsGathered
<1>10. DOMAIN t.slots = Knows(c, e).open
  BY <1>1, <1>7, KnowsIs
<1>11. ChatRuns(t, before \o t.out, Knows(c, e))
  <2>1. f.type # "tool"
    BY <1>5
  <2> QED  BY <1>3, <1>5, <1>8, <1>9, <1>10, <2>1, ChatStep
<1> QED  BY <1>11 DEF t

LEMMA ChatSignature ==
    ASSUME NEW before, IsSeq(before), NEW s, NEW c, ChatRuns(s, before \o s.out, c),
           NEW e, May(c, e), e.type = "ContentDelta", Routes(s, e.index, {"Tool"}), e.delta = "SignatureDelta"
    PROVE  LET t == ChatEncode(e, s) IN ChatRuns(t, before \o t.out, Knows(c, e))
<1> DEFINE t == ChatEncode(e, s)
           n == s.slots[e.index].at
           F == {"tools"}
           x == [s.tools[n] EXCEPT !.signed = TRUE]
<1>1. IsEncoder(s) /\ ChatKeeps(s) /\ DOMAIN s.slots = c.open /\ IsKnown(c)
  BY DEF ChatRuns, Tracks
<1>2. HasCall(s, e.index)
  BY <1>1 DEF ChatKeeps, Routes
<1>3. Only(s, t, F) /\ t.tools = [s.tools EXCEPT ![n].signed = TRUE]
  BY <1>1, <1>2, SignatureTold
<1>4. Len(s.tools) \in Nat /\ n \in 1..Len(s.tools)
  BY <1>1, <1>2, SeqIs DEF HasCall, IsEncoder
<1>5. F \cap Constants = {} /\ F \cap {"out", "pending"} = {}
  BY DEF Constants
<1> HIDE DEF t, n
<1>6. t.tools = [s.tools EXCEPT ![n] = x]
  BY <1>3
<1>7. DOMAIN s.tools[n] = {"id", "args", "signed"}
  BY <1>1, <1>4 DEF ChatKeeps, IsCall
<1>8. x.id = s.tools[n].id /\ x.args = s.tools[n].args /\ DOMAIN x = DOMAIN s.tools[n]
  BY <1>7
<1> HIDE DEF x
<1>9. Len(t.tools) = Len(s.tools) /\ \A m \in 1..Len(s.tools) : t.tools[m] = IF m = n THEN x ELSE s.tools[m]
  <2> DEFINE q == s.tools
  <2>1. IsSeq(q) /\ n \in 1..Len(q) /\ t.tools = [q EXCEPT ![n] = x]
    BY <1>1, <1>4, <1>6 DEF IsEncoder
  <2> HIDE DEF q
  <2>2. Len([q EXCEPT ![n] = x]) = Len(q) /\ \A m \in 1..Len(q) : [q EXCEPT ![n] = x][m] = IF m = n THEN x ELSE q[m]
    BY <2>1, SetAt
  <2> QED  BY <2>1, <2>2 DEF q
<1>10. \A m \in 1..Len(s.tools) : /\ DOMAIN t.tools[m] = DOMAIN s.tools[m] /\ t.tools[m].id = s.tools[m].id
                                  /\ t.tools[m].args = s.tools[m].args
  BY <1>8, <1>9
<1>11. /\ t.slots = s.slots /\ t.text = s.text /\ t.refusal = s.refusal /\ t.finish = s.finish
       /\ t.counted = s.counted /\ t.include_usage = s.include_usage /\ t.blocks = s.blocks
       /\ t.answer = s.answer /\ t.dialect = s.dialect /\ t.stash = s.stash
  BY <1>3 DEF Only, Fields
<1> HIDE DEF F
<1>12. ChatKeeps(t)
  BY <1>1, <1>9, <1>10, <1>11, KeepsCalls
<1>13. GatheredChat(s) = GatheredChat(t)
  <2>1. GatheredCalls(s) = GatheredCalls(t)
    BY <1>9, <1>10 DEF GatheredCalls
  <2> QED  BY <1>11, <2>1 DEF GatheredChat
<1>14. DOMAIN t.slots = Knows(c, e).open
  BY <1>1, <1>11, KnowsIs
<1>15. ChatRuns(t, before \o t.out, Knows(c, e))
  BY <1>3, <1>5, <1>9, <1>12, <1>13, <1>14, ChatStill
<1> QED  BY <1>15 DEF t

LEMMA ChatOther ==
    ASSUME NEW before, IsSeq(before), NEW s, NEW c, ChatRuns(s, before \o s.out, c),
           NEW e, May(c, e), e.type = "ContentDelta",
           ~ (Routes(s, e.index, {"Text"}) /\ e.delta = "TextDelta"),
           ~ (Routes(s, e.index, {"Tool"}) /\ e.delta \in {"JsonDelta", "SignatureDelta"})
    PROVE  LET t == ChatEncode(e, s) IN ChatRuns(t, before \o t.out, Knows(c, e))
<1> DEFINE t == ChatEncode(e, s)
           F == {"slots"}
<1>1. IsEncoder(s) /\ ChatKeeps(s) /\ DOMAIN s.slots = c.open /\ IsKnown(c)
  BY DEF ChatRuns, Tracks
<1>2. \/ t = s
      \/ /\ Only(s, t, F) /\ e.index \in DOMAIN s.slots
         /\ \E z : z.type # "Tool" /\ t.slots = Insert(s.slots, e.index, z)
  BY <1>1, OtherFragment
<1>3. F \cap Constants = {} /\ F \cap {"out", "pending"} = {}
  BY DEF Constants
<1> HIDE DEF t
<1>4. Only(s, t, F)
  BY <1>1, <1>2 DEF Only
<1>5. /\ t.tools = s.tools /\ t.text = s.text /\ t.refusal = s.refusal /\ t.finish = s.finish
      /\ t.counted = s.counted /\ t.include_usage = s.include_usage /\ t.blocks = s.blocks
      /\ t.answer = s.answer /\ t.dialect = s.dialect /\ t.stash = s.stash
  BY <1>4 DEF Only, Fields
<1> HIDE DEF F
<1>6. /\ DOMAIN t.slots = DOMAIN s.slots
      /\ \A i \in DOMAIN t.slots :
            t.slots[i].type = "Tool" => i \in DOMAIN s.slots /\ t.slots[i] = s.slots[i]
  <2>1. CASE t = s
    BY <2>1
  <2>2. CASE e.index \in DOMAIN s.slots /\ \E z : z.type # "Tool" /\ t.slots = Insert(s.slots, e.index, z)
    <3>1. PICK z : z.type # "Tool" /\ t.slots = Insert(s.slots, e.index, z)
      BY <2>2
    <3>2. /\ DOMAIN t.slots = DOMAIN s.slots \cup {e.index} /\ t.slots[e.index] = z
          /\ \A x \in DOMAIN s.slots : x # e.index => t.slots[x] = s.slots[x]
      BY <3>1 DEF Insert
    <3> QED  BY <2>2, <3>1, <3>2
  <2> QED  BY <1>2, <2>1, <2>2
<1>7. ChatKeeps(t)
  <2>1. OwnBlocks(t)
    BY <1>1, <1>5, KeepsOwn DEF OwnBlocks
  <2> QED  BY <1>1, <1>5, <1>6, <2>1, KeepsOn
<1>8. GatheredChat(s) = GatheredChat(t)
  BY <1>5 DEF GatheredChat, GatheredCalls
<1>9. DOMAIN t.slots = Knows(c, e).open
  BY <1>1, <1>6, KnowsIs
<1>10. ChatRuns(t, before \o t.out, Knows(c, e))
  BY <1>3, <1>4, <1>5, <1>7, <1>8, <1>9, ChatStill
<1> QED  BY <1>10 DEF t

LEMMA ChatStop ==
    ASSUME NEW before, IsSeq(before), NEW s, NEW c, ChatRuns(s, before \o s.out, c),
           NEW e, May(c, e), e.type = "ContentStop"
    PROVE  LET t == ChatEncode(e, s) IN ChatRuns(t, before \o t.out, Knows(c, e))
<1> DEFINE t == ChatEncode(e, s)
           F == {"slots", "blocks"}
<1>1. IsEncoder(s) /\ ChatKeeps(s) /\ DOMAIN s.slots = c.open /\ IsKnown(c)
  BY DEF ChatRuns, Tracks
<1>2. Routes(s, e.index, {"Tool"}) => HasCall(s, e.index)
  BY <1>1 DEF ChatKeeps, Routes
<1>3. Only(s, t, F) /\ Grows(s, t, TRUE) /\ t.slots = Remove(s.slots, e.index)
  BY <1>1, <1>2, BlockClosed
<1>4. F \cap Constants = {} /\ F \cap {"out", "pending"} = {}
  BY DEF Constants
<1> HIDE DEF t
<1>5. /\ t.tools = s.tools /\ t.text = s.text /\ t.refusal = s.refusal /\ t.finish = s.finish
      /\ t.counted = s.counted /\ t.include_usage = s.include_usage
      /\ t.answer = s.answer /\ t.dialect = s.dialect /\ t.stash = s.stash
  BY <1>3 DEF Only, Fields
<1> HIDE DEF F
<1>6. DOMAIN t.slots = DOMAIN s.slots \ {e.index} /\ \A x \in DOMAIN t.slots : t.slots[x] = s.slots[x]
  <2>1. t.slots = Remove(s.slots, e.index)
    BY <1>3
  <2> QED  BY <2>1 DEF Remove
<1>7. ChatKeeps(t)
  <2>1. OwnBlocks(t)
    BY <1>1, <1>3, <1>5, KeepsOwn, BlocksGrow
  <2>2. \A i \in DOMAIN t.slots :
            t.slots[i].type = "Tool" => i \in DOMAIN s.slots /\ t.slots[i] = s.slots[i]
    BY <1>6
  <2> QED  BY <1>1, <1>5, <2>1, <2>2, KeepsOn
<1>8. GatheredChat(s) = GatheredChat(t)
  BY <1>5 DEF GatheredChat, GatheredCalls
<1>9. DOMAIN t.slots = Knows(c, e).open
  BY <1>1, <1>6, KnowsIs
<1>10. ChatRuns(t, before \o t.out, Knows(c, e))
  BY <1>3, <1>4, <1>5, <1>7, <1>8, <1>9, ChatStill
<1> QED  BY <1>10 DEF t

LEMMA ChatUsage ==
    ASSUME NEW before, IsSeq(before), NEW s, NEW c, ChatRuns(s, before \o s.out, c),
           NEW e, May(c, e), e.type = "Usage"
    PROVE  LET t == ChatEncode(e, s) IN ChatRuns(t, before \o t.out, Knows(c, e))
<1> DEFINE t == ChatEncode(e, s)
           f == [type |-> "usage"]
<1>1. IsEncoder(s) /\ ChatKeeps(s) /\ DOMAIN s.slots = c.open /\ IsKnown(c)
  BY DEF ChatRuns, Tracks
<1>2. /\ Only(s, t, {"counted", "out", "pending"}) /\ t.counted
      /\ IF s.include_usage THEN Tells(s, t, f) ELSE Silent(s, t)
  BY <1>1, UsageTold
<1>3. <<e.type, f.type>> \in ChatFrames /\ f.type = "usage"
  BY DEF ChatFrames
<1> HIDE DEF t, f
<1>4. /\ t.slots = s.slots /\ t.tools = s.tools /\ t.text = s.text /\ t.refusal = s.refusal /\ t.finish = s.finish
      /\ t.include_usage = s.include_usage /\ t.blocks = s.blocks
      /\ t.answer = s.answer /\ t.dialect = s.dialect /\ t.stash = s.stash
  BY <1>2 DEF Only, Fields
<1>5. ChatKeeps(t)
  BY <1>1, <1>4 DEF ChatKeeps, HasCall
<1>6. DOMAIN t.slots = Knows(c, e).open /\ Len(t.tools) = Len(s.tools)
  BY <1>1, <1>4, KnowsIs
<1>7. GatheredCalls(t) = GatheredCalls(s)
  BY <1>4 DEF GatheredCalls
<1> DEFINE x == s.text
           r == s.refusal
           g == GatheredCalls(s)
           v == s.finish
           u == IF s.counted /\ s.include_usage THEN TRUE ELSE FALSE
<1>8. GatheredChat(s) = Completion(x, r, g, v, u)
  BY DEF GatheredChat
<1>9. CASE s.include_usage
  <2> DEFINE F == {"counted", "out", "pending"}
  <2> DEFINE w == TRUE
  <2>1. GatheredChat(t) = Completion(x, r, g, v, w)
    BY <1>2, <1>4, <1>7, <1>9 DEF GatheredChat
  <2>5. w = TRUE
    OBVIOUS
  <2> HIDE DEF x, r, g, v, u, w
  <2>6. f.type = "usage"
    BY <1>3
  <2>7. GatherChat(Completion(x, r, g, v, u), f) = Completion(x, r, g, v, w)
    BY <2>5, <2>6 DEF GatherChat, Completion
  <2>2. GatherChat(GatheredChat(s), f) = GatheredChat(t)
    BY <1>8, <2>1, <2>7, Zenon
  <2>3. F \cap Constants = {} /\ Only(s, t, F) /\ Tells(s, t, f)
    BY <1>2, <1>9 DEF Constants
  <2> HIDE DEF F
  <2>4. ChatRuns(t, before \o t.out, Knows(c, e))
    BY <1>3, <1>5, <1>6, <2>2, <2>3, ChatStep
  <2> QED  BY <2>4 DEF t
<1>10. CASE ~ s.include_usage
  <2> DEFINE F == {"counted"}
  <2>1. Only(s, t, F)
    <3>1. t.out = s.out /\ t.pending = s.pending
      BY <1>2, <1>10 DEF Silent
    <3>2. Only(s, t, {"counted", "out", "pending"})
      BY <1>2
    <3> QED  BY <3>1, <3>2 DEF Only, Fields
  <2>2. GatheredChat(t) = GatheredChat(s)
    BY <1>4, <1>7, <1>10 DEF GatheredChat
  <2>3. F \cap Constants = {} /\ F \cap {"out", "pending"} = {}
    BY DEF Constants
  <2> HIDE DEF F
  <2>4. ChatRuns(t, before \o t.out, Knows(c, e))
    BY <1>5, <1>6, <2>1, <2>2, <2>3, ChatStill
  <2> QED  BY <2>4 DEF t
<1> QED  BY <1>9, <1>10

LEMMA ChatRefused ==
    ASSUME NEW before, IsSeq(before), NEW s, NEW c, ChatRuns(s, before \o s.out, c), c.started, ~ c.done
    PROVE  LET t == Refused(s) IN ChatRuns(t, before \o t.out, c)
<1> DEFINE t == Refused(s)
           F == {"refusal", "out", "pending"}
           f == [type |-> "refusal"]
           fs == before \o s.out
<1>1. /\ IsEncoder(s) /\ Tracks(s, fs, c) /\ ChatKeeps(s) /\ (s.stream => ChatSays(s, fs, c)) /\ IsKnown(c)
      /\ DOMAIN s.slots = c.open
  BY DEF ChatRuns, Tracks
<1>2. Only(s, t, F) /\ t.refusal /\ Tells(s, t, f)
  BY <1>1, RefusalTold
<1>3. f.type = "refusal"
  OBVIOUS
<1>4. t.refusal = TRUE
  BY DEF Refused, Frame
<1>5. before \o t.out = Adds(s, fs, f) /\ IsSeq(fs)
  BY <1>1, <1>2, Put
<1> HIDE DEF t, f, fs
<1>6. /\ t.slots = s.slots /\ t.tools = s.tools /\ t.text = s.text /\ t.finish = s.finish
      /\ t.counted = s.counted /\ t.include_usage = s.include_usage /\ t.blocks = s.blocks
      /\ t.answer = s.answer /\ t.dialect = s.dialect /\ t.stash = s.stash /\ t.stream = s.stream
  BY <1>2 DEF Only, Fields
<1>7. ChatKeeps(t)
  BY <1>1, <1>6 DEF ChatKeeps, HasCall
<1>8. Tracks(t, Adds(s, fs, f), c)
  <2>1. F \cap {"dialect", "answer", "stream", "include_usage", "adapted", "error"} = {} /\ f.type # "error"
    BY <1>3
  <2> HIDE DEF F
  <2> QED  BY <1>1, <1>2, <1>6, <2>1, TracksMore
<1>9. GatherChat(GatheredChat(s), f) = GatheredChat(t)
  <2> DEFINE x == s.text
             r == s.refusal
             g == GatheredCalls(s)
             v == s.finish
             u == IF s.counted /\ s.include_usage THEN TRUE ELSE FALSE
  <2>1. GatheredChat(s) = Completion(x, r, g, v, u)
    BY DEF GatheredChat
  <2> DEFINE w == TRUE
  <2>2. GatheredChat(t) = Completion(x, w, g, v, u)
    BY <1>4, <1>6 DEF GatheredChat, GatheredCalls
  <2>3. w = TRUE
    OBVIOUS
  <2> HIDE DEF x, r, g, v, u, w
  <2>4. GatherChat(Completion(x, r, g, v, u), f) = Completion(x, w, g, v, u)
    BY <1>3, <2>3 DEF GatherChat, Completion
  <2> QED  BY <2>1, <2>2, <2>4, Zenon
<1>10. ASSUME s.stream PROVE ChatSays(t, Append(fs, Said(s, f)), c)
  <2>1. /\ f.type # "done" /\ (f.type = "role" => ~ c.started) /\ (f.type = "finish" => ~ c.done)
        /\ Len(t.tools) = IF f.type = "tool" THEN Len(s.tools) + 1 ELSE Len(s.tools)
        /\ (c.started <=> c.started \/ f.type = "role") /\ (c.done <=> c.done \/ f.type = "finish")
        /\ f.type \notin {"tool", "args"}
    BY <1>3, <1>6
  <2> QED  BY <1>1, <1>5, <1>9, <1>10, <2>1, ChatSaysMore
<1>11. ChatRuns(t, Adds(s, fs, f), c)
  BY <1>6, <1>7, <1>8, <1>10 DEF ChatRuns, Adds
<1> QED  BY <1>5, <1>11 DEF t, fs

LEMMA ChatClosed ==
    ASSUME NEW before, IsSeq(before), NEW s, NEW c, ChatRuns(s, before \o s.out, c),
           NEW e, May(c, e), e.type = "Finish", NEW r
    PROVE  LET t == Closed(s, r) IN ChatRuns(t, before \o t.out, Knows(c, e))
<1> DEFINE t == Closed(s, r)
           F == {"finish", "out", "pending"}
           f == [type |-> "finish", reason |-> r]
<1>1. IsEncoder(s) /\ ChatKeeps(s) /\ DOMAIN s.slots = c.open /\ IsKnown(c)
  BY DEF ChatRuns, Tracks
<1>2. Only(s, t, F) /\ t.finish = r /\ Tells(s, t, f)
  BY <1>1, FinishTold
<1>3. <<e.type, f.type>> \in ChatFrames /\ f.type = "finish" /\ f.reason = r /\ F \cap Constants = {}
  BY DEF ChatFrames, Constants
<1> HIDE DEF t, f
<1>4. /\ t.slots = s.slots /\ t.tools = s.tools /\ t.text = s.text /\ t.refusal = s.refusal
      /\ t.counted = s.counted /\ t.include_usage = s.include_usage /\ t.blocks = s.blocks
      /\ t.answer = s.answer /\ t.dialect = s.dialect /\ t.stash = s.stash
  BY <1>2 DEF Only, Fields
<1> HIDE DEF F
<1>5. ChatKeeps(t)
  BY <1>1, <1>4 DEF ChatKeeps, HasCall
<1>6. DOMAIN t.slots = Knows(c, e).open /\ Len(t.tools) = Len(s.tools)
  BY <1>1, <1>4, KnowsIs
<1>7. GatherChat(GatheredChat(s), f) = GatheredChat(t)
  <2> DEFINE x == s.text
             q == s.refusal
             g == GatheredCalls(s)
             v == s.finish
             u == IF s.counted /\ s.include_usage THEN TRUE ELSE FALSE
  <2>1. GatheredChat(s) = Completion(x, q, g, v, u)
    BY DEF GatheredChat
  <2>2. GatheredChat(t) = Completion(x, q, g, r, u)
    BY <1>2, <1>4 DEF GatheredChat, GatheredCalls
  <2> HIDE DEF x, q, g, v, u
  <2> QED  BY <1>3, <2>1, <2>2, FinishGathered
<1>8. ChatRuns(t, before \o t.out, Knows(c, e))
  BY <1>2, <1>3, <1>5, <1>6, <1>7, ChatStep
<1> QED  BY <1>8 DEF t

LEMMA ChatFinish ==
    ASSUME NEW before, IsSeq(before), NEW s, NEW c, ChatRuns(s, before \o s.out, c),
           NEW e, May(c, e), e.type = "Finish"
    PROVE  LET t == ChatEncode(e, s) IN ChatRuns(t, before \o t.out, Knows(c, e))
<1>1. IsEncoder(s) /\ c.started /\ ~ c.done
  BY DEF ChatRuns, Tracks, May
<1>2. PICK r : ChatEncode(e, s) \in {Closed(s, r), Closed(Refused(s), r)}
  BY <1>1, VerdictIs
<1> DEFINE u == Refused(s)
<1>3. ChatRuns(u, before \o u.out, c)
  BY <1>1, ChatRefused
<1> HIDE DEF u
<1>4. LET t == Closed(s, r) IN ChatRuns(t, before \o t.out, Knows(c, e))
  BY ChatClosed
<1>5. LET t == Closed(u, r) IN ChatRuns(t, before \o t.out, Knows(c, e))
  BY <1>3, ChatClosed
<1> QED  BY <1>2, <1>4, <1>5 DEF u

LEMMA ChatError ==
    ASSUME NEW before, IsSeq(before), NEW s, NEW c, ChatRuns(s, before \o s.out, c),
           NEW e, e \in Event, May(c, e), e.type = "Error"
    PROVE  LET t == ChatEncode(e, s) IN ChatRuns(t, before \o t.out, Knows(c, e))
<1> DEFINE t == ErrorFrame(e, s)
           F == {"error", "out", "pending"}
           f == [type |-> "error", status |-> t.error]
           fs == before \o s.out
           d == Knows(c, e)
<1>1. /\ IsEncoder(s) /\ Tracks(s, fs, c) /\ ChatKeeps(s) /\ (s.stream => ChatSays(s, fs, c)) /\ IsKnown(c)
      /\ DOMAIN s.slots = c.open
  BY DEF ChatRuns, Tracks
<1>2. Only(s, t, F) /\ Tells(s, t, f)
  BY <1>1, ErrorTold
<1>3. IsKnown(d) /\ (d.started <=> c.started) /\ (d.done <=> c.done) /\ d.failed /\ d.open = c.open
  BY <1>1, KnowsIs
<1>4. before \o t.out = Adds(s, fs, f) /\ IsSeq(fs)
  BY <1>1, <1>2, Put
<1>5. f.type = "error"
  OBVIOUS
<1>6. ChatEncode(e, s) = t
  BY DEF ChatEncode
<1> HIDE DEF d, fs
<1>7. Tracks(t, Adds(s, fs, f), d)
  BY <1>1, <1>3, TracksFailure
<1> HIDE DEF t, f
<1>8. /\ t.slots = s.slots /\ t.tools = s.tools /\ t.text = s.text /\ t.finish = s.finish /\ t.refusal = s.refusal
      /\ t.counted = s.counted /\ t.include_usage = s.include_usage /\ t.blocks = s.blocks
      /\ t.answer = s.answer /\ t.dialect = s.dialect /\ t.stash = s.stash /\ t.stream = s.stream
  BY <1>2 DEF Only, Fields
<1>9. ChatKeeps(t)
  BY <1>1, <1>8 DEF ChatKeeps, HasCall
<1>10. GatherChat(GatheredChat(s), f) = GatheredChat(t)
  <2>1. GatheredChat(t) = GatheredChat(s)
    BY <1>8 DEF GatheredChat, GatheredCalls
  <2> DEFINE x == s.text
             q == s.refusal
             g == GatheredCalls(s)
             v == s.finish
             u == IF s.counted /\ s.include_usage THEN TRUE ELSE FALSE
  <2>2. GatheredChat(s) = Completion(x, q, g, v, u)
    BY DEF GatheredChat
  <2> HIDE DEF x, q, g, v, u
  <2> QED  BY <1>5, <2>1, <2>2, NothingGathered
<1>11. ASSUME s.stream PROVE ChatSays(t, Append(fs, Said(s, f)), d)
  <2>1. /\ f.type # "done" /\ (f.type = "role" => ~ c.started) /\ (f.type = "finish" => ~ c.done)
        /\ Len(t.tools) = IF f.type = "tool" THEN Len(s.tools) + 1 ELSE Len(s.tools)
        /\ (d.started <=> c.started \/ f.type = "role") /\ (d.done <=> c.done \/ f.type = "finish")
        /\ f.type \notin {"tool", "args", "content", "refusal", "finish", "usage"}
    BY <1>3, <1>5, <1>8
  <2> QED  BY <1>1, <1>4, <1>10, <1>11, <2>1, ChatSaysMore
<1>12. ChatRuns(t, Adds(s, fs, f), d)
  BY <1>7, <1>8, <1>9, <1>11 DEF ChatRuns, Adds
<1> QED  BY <1>4, <1>6, <1>12 DEF d, fs

\* Whatever event comes, but for the end.
LEMMA ChatEvent ==
    ASSUME NEW before, IsSeq(before), NEW s, NEW c, ChatRuns(s, before \o s.out, c),
           NEW e, e \in Event, May(c, e), e.type # "End"
    PROVE  LET t == ChatEncode(e, s) IN ChatRuns(t, before \o t.out, Knows(c, e))
<1>1. e.type \in {"MessageStart", "ContentStart", "ContentDelta", "ContentStop", "Usage", "Finish", "Error"}
  BY DEF Event
<1>2. CASE e.type = "ContentDelta"
  BY <1>2, ChatText, ChatArgs, ChatSignature, ChatOther
<1> QED  BY <1>1, <1>2, ChatRole, ChatCall, ChatBlock, ChatStop, ChatUsage, ChatFinish, ChatError

\* An encoder that is done, with the frames of its answer.
Ends(s, fs) ==
    /\ IsEncoder(s) /\ s.error \in {0} \cup Codes
    /\ s.stream => IsSeq(fs) /\ fs # <<>> /\ Announces(s, fs) /\ Fails(s, fs)
    /\ ~ s.stream => \E x : /\ s.out = Append(<<>>, x) /\ x.told = s.adapted
                            /\ s.error # 0 <=> x.frame.type = "error"
                            /\ s.error = 0 => x.frame = IF s.dialect = "chat" THEN ChatBody(s)
                                                        ELSE [type |-> "message", content |-> s.content,
                                                              finish |-> s.finish, usage |-> s.counted]

ChatEnds(s, fs) ==
    /\ s.dialect = "chat" /\ Ends(s, fs) /\ OwnBlocks(s)
    /\ \A n \in 1..Len(s.tools) : IsCall(s.answer, s.tools[n])
    /\ s.stream => /\ ChatGrammar(fs) /\ Gathered("chat", fs) = GatheredChat(s)
                   /\ fs[Len(fs)].frame.type = "done"

\* What is to be stashed.
Pairs(s) == IF s.blocks = <<>> THEN {} ELSE {[key |-> k, payload |-> s.blocks] : k \in Keys(s)}

LEMMA ChatEnding ==
    ASSUME NEW before, IsSeq(before), NEW s, s.out = <<>>, NEW c, ChatRuns(s, before \o s.out, c),
           NEW e, May(c, e), e.type = "End"
    PROVE  LET t == ChatEncode(e, s)
           IN  ChatEnds(t, before \o t.out) /\ t.stash = Pairs(t)
<1> DEFINE t == ChatEncode(e, s)
           f == [type |-> "done"]
           fs == before \o s.out
           gs == before \o t.out
<1>1. /\ IsEncoder(s) /\ Tracks(s, fs, c) /\ ChatKeeps(s) /\ (s.stream => ChatSays(s, fs, c)) /\ IsKnown(c)
      /\ Announces(s, fs) /\ Fails(s, fs) /\ (s.error # 0 <=> c.failed) /\ IsSeq(fs)
  BY DEF ChatRuns, Tracks
<1>2. /\ Only(s, t, {"stash", "out", "pending"})
      /\ t.stash = IF s.blocks = <<>> THEN s.stash ELSE {[key |-> k, payload |-> s.blocks] : k \in Keys(s)}
      /\ s.stream => Tells(s, t, f)
      /\ ~ s.stream =>
           t.out = Append(s.out, [told |-> s.adapted,
                                  frame |-> IF s.error # 0 THEN [type |-> "error", status |-> s.error]
                                            ELSE ChatBody(t)])
  BY <1>1, ChatEnded
<1>3. f.type = "done"
  OBVIOUS
<1>4. s.stream => gs = Append(fs, Said(s, f)) /\ gs = Adds(s, fs, f)
  BY <1>1, <1>2, Put DEF Adds
<1> HIDE DEF t, f, fs, gs
<1>5. /\ t.tools = s.tools /\ t.text = s.text /\ t.finish = s.finish /\ t.refusal = s.refusal
      /\ t.counted = s.counted /\ t.include_usage = s.include_usage /\ t.blocks = s.blocks /\ t.error = s.error
      /\ t.answer = s.answer /\ t.dialect = s.dialect /\ t.stream = s.stream /\ t.adapted = s.adapted /\ IsEncoder(t)
  BY <1>2 DEF Only, Fields
<1>6. OwnBlocks(t) /\ \A n \in 1..Len(t.tools) : IsCall(t.answer, t.tools[n])
  BY <1>1, <1>5 DEF ChatKeeps, OwnBlocks
<1>7. t.stash = Pairs(t)
  <2>1. Keys(s) = Keys(t) /\ s.stash = {}
    BY <1>1, <1>5 DEF Keys, ChatKeeps
  <2> DEFINE K == Keys(s)
             b == s.blocks
  <2>2. t.stash = IF b = <<>> THEN {} ELSE {[key |-> k, payload |-> b] : k \in K}
    BY <1>2, <2>1
  <2>3. Pairs(t) = IF b = <<>> THEN {} ELSE {[key |-> k, payload |-> b] : k \in K}
    BY <1>5, <2>1 DEF Pairs
  <2> HIDE DEF K, b
  <2> QED  BY <2>2, <2>3
<1>8. ASSUME s.stream
      PROVE  /\ IsSeq(gs) /\ gs # <<>> /\ Announces(t, gs) /\ Fails(t, gs)
             /\ ChatGrammar(gs) /\ Gathered("chat", gs) = GatheredChat(t) /\ gs[Len(gs)].frame.type = "done"
  <2> DEFINE x == Said(s, f)
  <2>1. gs = Append(fs, x) /\ gs = Adds(s, fs, f) /\ x.frame = f
    BY <1>4, <1>8 DEF Said
  <2> HIDE DEF x
  <2>2. IsSeq(gs) /\ gs # <<>> /\ gs[Len(gs)].frame = f
    <3>1. /\ IsSeq(Append(fs, x)) /\ Len(Append(fs, x)) = Len(fs) + 1 /\ Append(fs, x)[Len(fs) + 1] = x
          /\ Append(fs, x) # <<>>
      BY <1>1, AppendIs
    <3> QED  BY <2>1, <3>1
  <2>3. Announces(t, gs)
    BY <1>1, <1>2, <1>5, <1>8, <2>1, AnnouncesMore
  <2>4. \A y : HasFrame(gs, y) <=> HasFrame(fs, y) \/ f.type = y
    <3>1. \A y : HasFrame(Append(fs, x), y) <=> HasFrame(fs, y) \/ x.frame.type = y
      BY <1>1, FrameAdded
    <3> QED  BY <2>1, <3>1
  <2>5. Fails(t, gs)
    BY <1>1, <1>3, <1>5, <2>4 DEF Fails
  <2>6. ChatSays(s, fs, c)
    BY <1>1, <1>8
  <2>7. ChatGrammar(fs) /\ ~ HasFrame(fs, "done") /\ (HasFrame(fs, "finish") <=> c.done) /\ Gathered("chat", fs) = GatheredChat(s)
    BY <2>6 DEF ChatSays
  <2>8. HasFrame(fs, "finish") \/ HasFrame(fs, "error")
    BY <1>1, <1>8, <2>7 DEF May, Fails
  <2>9. ChatGrammar(gs)
    <3>1. f.type \notin {"role", "finish", "content", "tool", "args", "refusal", "usage"}
      BY <1>3
    <3> QED  BY <1>1, <2>1, <2>7, <2>8, <3>1, ChatMore
  <2>10. Gathered("chat", gs) = GatheredChat(t)
    <3>1. GatheredChat(t) = GatheredChat(s)
      BY <1>5 DEF GatheredChat, GatheredCalls
    <3> DEFINE y == s.text
               q == s.refusal
               g == GatheredCalls(s)
               v == s.finish
               u == IF s.counted /\ s.include_usage THEN TRUE ELSE FALSE
    <3>2. GatheredChat(s) = Completion(y, q, g, v, u)
      BY DEF GatheredChat
    <3> HIDE DEF y, q, g, v, u
    <3>5. f.type \in {"role", "error", "done"}
      BY <1>3
    <3>6. GatherChat(Completion(y, q, g, v, u), f) = Completion(y, q, g, v, u)
      BY <3>5, NothingGathered
    <3>3. GatherChat(GatheredChat(s), f) = GatheredChat(t)
      BY <3>1, <3>2, <3>6, Zenon
    <3>4. Gathered("chat", gs) = Gather("chat", Gathered("chat", fs), x.frame)
      BY <1>1, <2>1, GatheredMore
    <3> QED  BY <2>1, <2>7, <3>3, <3>4 DEF Gather
  <2> QED  BY <1>3, <2>2, <2>3, <2>5, <2>9, <2>10
<1>9. ASSUME ~ s.stream
      PROVE  \E x : /\ t.out = Append(<<>>, x) /\ x.told = t.adapted /\ (t.error # 0 <=> x.frame.type = "error")
                    /\ t.error = 0 => x.frame = ChatBody(t)
  <2> DEFINE b == IF s.error # 0 THEN [type |-> "error", status |-> s.error] ELSE ChatBody(t)
             x == [told |-> s.adapted, frame |-> b]
  <2>1. t.out = Append(<<>>, x)
    BY <1>2, <1>9
  <2>2. x.told = t.adapted /\ x.frame = b
    BY <1>5
  <2>3. (t.error # 0 <=> b.type = "error") /\ (t.error = 0 => b = ChatBody(t))
    BY <1>5 DEF ChatBody
  <2> HIDE DEF b, x
  <2> QED  BY <2>1, <2>2, <2>3
<1>10. Ends(t, gs)
  <2>1. t.error \in {0} \cup Codes
    BY <1>1, <1>5 DEF Fails
  <2>2. t.dialect = "chat"
    BY <1>1, <1>5 DEF ChatKeeps
  <2> QED  BY <1>5, <1>8, <1>9, <2>1, <2>2 DEF Ends
<1>11. ChatEnds(t, gs)
  <2>1. t.dialect = "chat"
    BY <1>1, <1>5 DEF ChatKeeps
  <2> QED  BY <1>5, <1>6, <1>8, <1>10, <2>1 DEF ChatEnds
<1> QED  BY <1>7, <1>11 DEF t, gs

(***************************************************************************)
(* Messages.                                                               *)
(***************************************************************************)
NativeSlots(s) == [i \in {j \in DOMAIN s.slots : s.slots[j].type \in Native} |-> s.slots[i]]

Message(open, content, finish, usage) ==
    [type |-> "message", open |-> open, content |-> content, finish |-> finish, usage |-> usage]

\* What the encoder has kept.
MessagesKeeps(s) ==
    /\ s.dialect = "messages" /\ s.stash = {} /\ s.blocks = <<>>
    /\ \A i \in DOMAIN s.slots : s.slots[i].type \in Native => IsIdOf(s.answer, s.slots[i].id)
    /\ \A n \in 1..Len(s.content) : IsIdOf(s.answer, s.content[n].id)

\* What its client has gathered, b.
Gathering(s, b, c) ==
    /\ b = Message(NativeSlots(s), s.content, s.finish, b.usage)
    /\ c.done /\ s.answer.provider # "openai" => b.usage = s.counted

\* What it has been told.
MessagesSays(s, fs, c) ==
    /\ MessagesGrammar(fs) /\ ~ HasFrame(fs, "message_stop")
    /\ Sound(fs) <=> c.started
    /\ HasFrame(fs, "message_delta") <=> c.done
    /\ OpenedIn(fs) \subseteq c.used /\ OpenedIn(fs) \subseteq DOMAIN NativeSlots(s) \cup ClosedIn(fs)
    /\ ClosedIn(fs) \cap c.open = {} /\ ClosedIn(fs) \subseteq c.used
    /\ DOMAIN NativeSlots(s) \subseteq OpenedIn(fs)
    /\ Gathering(s, Gathered("messages", fs), c)

MessagesRuns(s, fs, c) == Tracks(s, fs, c) /\ MessagesKeeps(s) /\ (s.stream => MessagesSays(s, fs, c))

LEMMA SlotsAre ==
    ASSUME NEW s
    PROVE  /\ \A i : i \in DOMAIN NativeSlots(s) <=> i \in DOMAIN s.slots /\ s.slots[i].type \in Native
           /\ \A i \in DOMAIN NativeSlots(s) : NativeSlots(s)[i] = s.slots[i]
BY DEF NativeSlots

LEMMA StartGathered ==
    ASSUME NEW o, NEW n, NEW v, NEW u, NEW f, f.type = "content_block_start",
           NEW m, m = Insert(o, f.index, [type |-> f.kind, id |-> f.id, said |-> <<>>])
    PROVE  GatherMessages(Message(o, n, v, u), f) = Message(m, n, v, u)
<1> DEFINE c == Message(o, n, v, u)
<1>1. GatherMessages(c, f) = [c EXCEPT !.open = m]
  BY DEF GatherMessages, Message
<1> QED  BY <1>1 DEF Message

\* The blocks o when block i has a piece more.
Fuller(o, i, piece) == [o EXCEPT ![i] = [o[i] EXCEPT !.said = Append(o[i].said, piece)]]

LEMMA DeltaGathered ==
    ASSUME NEW o, NEW n, NEW v, NEW u, NEW f, f.type = "content_block_delta", NEW i, i = f.index, i \in DOMAIN o
    PROVE  GatherMessages(Message(o, n, v, u), f) = Message(Fuller(o, i, f.said), n, v, u)
<1> DEFINE c == Message(o, n, v, u)
           b == GatherMessages(c, f)
           m == Fuller(o, i, f.said)
<1>1. c.open = o
  BY DEF Message
<1>2. b = [c EXCEPT !.open[i].said = Append(@, f.said)]
  BY <1>1 DEF GatherMessages
<1> HIDE DEF b, c
<1>3. [c EXCEPT !.open[i].said = Append(@, f.said)] = [c EXCEPT !.open = m]
  BY <1>1 DEF Fuller
<1> HIDE DEF m
<1>4. b = [c EXCEPT !.open = m]
  BY <1>2, <1>3
<1> QED  BY <1>4 DEF Message, c, b, m

LEMMA StopGathered ==
    ASSUME NEW o, NEW n, NEW v, NEW u, NEW f, f.type = "content_block_stop", NEW i, i = f.index, i \in DOMAIN o
    PROVE  GatherMessages(Message(o, n, v, u), f) = Message(Remove(o, i), Append(n, o[i]), v, u)
<1> DEFINE m == Remove(o, i)
           q == Append(n, o[i])
           c == Message(o, n, v, u)
           b == GatherMessages(c, f)
<1>1. c.open = o /\ c.content = n
  BY DEF Message
<1>2. b = [c EXCEPT !.content = Append(@, c.open[i]), !.open = Remove(@, i)]
  BY <1>1 DEF GatherMessages
<1> HIDE DEF b, c
<1>3. b = [[c EXCEPT !.content = q] EXCEPT !.open = m]
  BY <1>1, <1>2
<1> QED  BY <1>3 DEF Message, c, b

LEMMA VerdictGathered ==
    ASSUME NEW o, NEW n, NEW v, NEW u, NEW f, f.type = "message_delta"
    PROVE  GatherMessages(Message(o, n, v, u), f) = Message(o, n, f.reason, f.usage)
BY DEF GatherMessages, Message

LEMMA NoneGathered ==
    ASSUME NEW o, NEW n, NEW v, NEW u, NEW f, f.type \in {"message_start", "message_stop", "error"}
    PROVE  GatherMessages(Message(o, n, v, u), f) = Message(o, n, v, u)
BY DEF GatherMessages, Message

LEMMA UsageIs ==
    ASSUME NEW o, NEW n, NEW v, NEW u
    PROVE  Message(o, n, v, u).usage = u
BY DEF Message

LEMMA MessagesSaysMore ==
    ASSUME NEW s, NEW fs, IsSeq(fs), NEW c, IsKnown(c), MessagesSays(s, fs, c), NEW f, f.type # "message_stop",
           f.type = "message_start" => ~ c.started,
           f.type \notin {"error", "message_start"} => c.started,
           f.type = "message_delta" => ~ c.done /\ c.open = {},
           f.type = "content_block_start" => f.index \notin c.used,
           f.type \in {"content_block_delta", "content_block_stop"} =>
                f.index \in DOMAIN NativeSlots(s) /\ f.index \in c.open,
           NEW t, NEW d,
           d.started <=> c.started \/ f.type = "message_start", d.done <=> c.done \/ f.type = "message_delta",
           d.open = (IF f.type = "content_block_start" THEN c.open \cup {f.index}
                     ELSE IF f.type = "content_block_stop" THEN c.open \ {f.index} ELSE c.open),
           d.used = (IF f.type = "content_block_start" THEN c.used \cup {f.index} ELSE c.used),
           DOMAIN NativeSlots(s) \subseteq c.open,
           DOMAIN NativeSlots(t) = (IF f.type = "content_block_start" THEN DOMAIN NativeSlots(s) \cup {f.index}
                                    ELSE IF f.type = "content_block_stop" THEN DOMAIN NativeSlots(s) \ {f.index}
                                    ELSE DOMAIN NativeSlots(s)),
           \A b : Gathering(s, b, c) => Gathering(t, GatherMessages(b, f), d)
    PROVE  MessagesSays(t, Append(fs, Said(s, f)), d)
<1> DEFINE x == Said(s, f)
           gs == Append(fs, x)
<1>1. x.frame = f
  BY DEF Said
<1> HIDE DEF x
<1>2. /\ MessagesGrammar(fs) /\ ~ HasFrame(fs, "message_stop")
      /\ Sound(fs) <=> c.started
      /\ HasFrame(fs, "message_delta") <=> c.done
      /\ OpenedIn(fs) \subseteq c.used /\ OpenedIn(fs) \subseteq DOMAIN NativeSlots(s) \cup ClosedIn(fs)
      /\ ClosedIn(fs) \cap c.open = {} /\ ClosedIn(fs) \subseteq c.used
      /\ DOMAIN NativeSlots(s) \subseteq OpenedIn(fs)
      /\ Gathering(s, Gathered("messages", fs), c)
  BY DEF MessagesSays
<1>3. \A y : HasFrame(gs, y) <=> HasFrame(fs, y) \/ f.type = y
  BY <1>1, FrameAdded
<1>4. MessagesGrammar(gs)
  <2>1. f.type \in {"content_block_delta", "content_block_stop"} => f.index \in OpenedIn(fs) /\ f.index \notin ClosedIn(fs)
    BY <1>2
  <2>2. f.type = "message_delta" => OpenedIn(fs) \subseteq ClosedIn(fs)
    BY <1>2
  <2>3. f.type = "content_block_start" => f.index \notin OpenedIn(fs)
    BY <1>2
  <2> QED  BY <1>1, <1>2, <2>1, <2>2, <2>3, MessagesMore
<1>5. Sound(gs) <=> d.started
  <2>1. Sound(gs) <=> Sound(fs) \/ f.type # "error"
    <3>1. /\ Len(fs) \in Nat /\ Len(gs) = Len(fs) + 1 /\ \A n \in 1..Len(fs) : gs[n] = fs[n]
          /\ gs[Len(fs) + 1] = x
      BY AppendIs
    <3> HIDE DEF gs
    <3>2. \A n : n \in 1..Len(gs) <=> n \in 1..Len(fs) \/ n = Len(fs) + 1
      BY <3>1
    <3> QED  BY <1>1, <3>1, <3>2 DEF Sound
  <2> QED  BY <1>2, <2>1
<1>6. /\ OpenedIn(gs) = IF f.type = "content_block_start" THEN OpenedIn(fs) \cup {f.index} ELSE OpenedIn(fs)
      /\ ClosedIn(gs) = IF f.type = "content_block_stop" THEN ClosedIn(fs) \cup {f.index} ELSE ClosedIn(fs)
  BY <1>1, BlocksAdded
<1>7. Gathered("messages", gs) = GatherMessages(Gathered("messages", fs), f)
  BY <1>1, GatheredMore DEF Gather
<1> HIDE DEF gs
<1>8. Gathering(t, Gathered("messages", gs), d)
  BY <1>2, <1>7
<1>9. /\ OpenedIn(gs) \subseteq d.used /\ OpenedIn(gs) \subseteq DOMAIN NativeSlots(t) \cup ClosedIn(gs)
      /\ ClosedIn(gs) \cap d.open = {} /\ ClosedIn(gs) \subseteq d.used
  <2>1. c.open \subseteq c.used
    BY DEF IsKnown
  <2>2. CASE f.type = "content_block_start"
    BY <1>2, <1>6, <2>1, <2>2
  <2>3. CASE f.type = "content_block_stop"
    BY <1>2, <1>6, <2>1, <2>3
  <2>4. CASE f.type \notin {"content_block_start", "content_block_stop"}
    BY <1>2, <1>6, <2>4
  <2> QED  BY <2>2, <2>3, <2>4
<1>10. DOMAIN NativeSlots(t) \subseteq OpenedIn(gs)
  BY <1>2, <1>6
<1>11. ~ HasFrame(gs, "message_stop") /\ (HasFrame(gs, "message_delta") <=> d.done)
  BY <1>2, <1>3
<1>12. MessagesSays(t, gs, d)
  BY <1>4, <1>5, <1>8, <1>9, <1>10, <1>11 DEF MessagesSays
<1> QED  BY <1>12 DEF gs, x

LEMMA MessagesSaysStill ==
    ASSUME NEW s, NEW fs, NEW c, MessagesSays(s, fs, c), NEW t, NEW d,
           d.started <=> c.started, d.done <=> c.done, c.used \subseteq d.used,
           d.open = c.open \/ (\E i : d.open = c.open \cup {i} /\ i \notin c.used) \/ (\E i : d.open = c.open \ {i}),
           DOMAIN NativeSlots(t) = DOMAIN NativeSlots(s),
           \A b : Gathering(s, b, c) => Gathering(t, b, d)
    PROVE  MessagesSays(t, fs, d)
<1>1. /\ MessagesGrammar(fs) /\ ~ HasFrame(fs, "message_stop")
      /\ Sound(fs) <=> c.started
      /\ HasFrame(fs, "message_delta") <=> c.done
      /\ OpenedIn(fs) \subseteq c.used /\ OpenedIn(fs) \subseteq DOMAIN NativeSlots(s) \cup ClosedIn(fs)
      /\ ClosedIn(fs) \cap c.open = {} /\ ClosedIn(fs) \subseteq c.used
      /\ DOMAIN NativeSlots(s) \subseteq OpenedIn(fs)
      /\ Gathering(s, Gathered("messages", fs), c)
  BY DEF MessagesSays
<1>2. /\ OpenedIn(fs) \subseteq d.used /\ OpenedIn(fs) \subseteq DOMAIN NativeSlots(t) \cup ClosedIn(fs)
      /\ ClosedIn(fs) \cap d.open = {} /\ ClosedIn(fs) \subseteq d.used
  BY <1>1
<1> QED  BY <1>1, <1>2 DEF MessagesSays

MessagesFrames ==
    {<<"MessageStart", "message_start">>, <<"ContentStart", "content_block_start">>,
     <<"ContentDelta", "content_block_delta">>, <<"ContentStop", "content_block_stop">>,
     <<"Finish", "message_delta">>}

\* The domain of what is open, after a frame.
OpenAfter(s, f) ==
    IF f.type = "content_block_start" THEN DOMAIN NativeSlots(s) \cup {f.index}
    ELSE IF f.type = "content_block_stop" THEN DOMAIN NativeSlots(s) \ {f.index}
    ELSE DOMAIN NativeSlots(s)

LEMMA MessagesStep ==
    ASSUME NEW before, IsSeq(before), NEW s, NEW c, MessagesRuns(s, before \o s.out, c),
           NEW e, May(c, e), NEW f, <<e.type, f.type>> \in MessagesFrames,
           f.type \in {"content_block_start", "content_block_delta", "content_block_stop"} => f.index = e.index,
           f.type \in {"content_block_delta", "content_block_stop"} => f.index \in DOMAIN NativeSlots(s),
           NEW t, NEW F, Only(s, t, F), F \cap Constants = {}, Tells(s, t, f),
           MessagesKeeps(t), DOMAIN t.slots = Knows(c, e).open,
           DOMAIN NativeSlots(t) = OpenAfter(s, f),
           \A b : Gathering(s, b, c) => Gathering(t, GatherMessages(b, f), Knows(c, e))
    PROVE  MessagesRuns(t, before \o t.out, Knows(c, e))
<1> DEFINE fs == before \o s.out
           d == Knows(c, e)
<1>1. /\ IsEncoder(s) /\ Tracks(s, fs, c) /\ MessagesKeeps(s) /\ (s.stream => MessagesSays(s, fs, c)) /\ IsKnown(c)
      /\ DOMAIN s.slots = c.open
  BY DEF MessagesRuns, Tracks
<1>2. /\ IsKnown(d)
      /\ d.started <=> c.started \/ e.type = "MessageStart"
      /\ d.done <=> c.done \/ e.type = "Finish"
      /\ d.failed <=> c.failed \/ e.type = "Error"
      /\ e.type = "ContentStart" => d.open = c.open \cup {e.index} /\ d.used = c.used \cup {e.index}
      /\ e.type = "ContentStop" => d.open = c.open \ {e.index}
      /\ e.type \notin {"ContentStart", "ContentStop"} => d.open = c.open
      /\ e.type # "ContentStart" => d.used = c.used
  BY <1>1, KnowsIs
<1>3. before \o t.out = Adds(s, fs, f) /\ IsSeq(fs)
  BY <1>1, Put
<1>4. t.stream = s.stream
  BY DEF Only, Fields, Constants
<1>5. /\ f.type \notin {"error", "message_stop"} /\ e.type # "Error"
      /\ f.type = "message_start" <=> e.type = "MessageStart"
      /\ f.type = "message_delta" <=> e.type = "Finish"
      /\ f.type = "content_block_start" <=> e.type = "ContentStart"
      /\ f.type = "content_block_delta" <=> e.type = "ContentDelta"
      /\ f.type = "content_block_stop" <=> e.type = "ContentStop"
  BY DEF MessagesFrames
<1>6. /\ f.type = "message_start" => ~ c.started
      /\ f.type \notin {"error", "message_start"} => c.started
      /\ f.type = "message_delta" => ~ c.done /\ c.open = {}
      /\ f.type = "content_block_start" => f.index \notin c.used
      /\ f.type \in {"content_block_delta", "content_block_stop"} => f.index \in c.open
  <2>1. e.type \in {"MessageStart", "Finish", "ContentStart", "ContentDelta", "ContentStop"}
    BY DEF MessagesFrames
  <2> QED  BY <1>1, <1>5, <2>1 DEF May, IsKnown
<1>7. DOMAIN NativeSlots(s) \subseteq c.open
  BY <1>1, SlotsAre
<1>8. /\ d.open = (IF f.type = "content_block_start" THEN c.open \cup {f.index}
                   ELSE IF f.type = "content_block_stop" THEN c.open \ {f.index} ELSE c.open)
      /\ d.used = (IF f.type = "content_block_start" THEN c.used \cup {f.index} ELSE c.used)
  BY <1>2, <1>5
<1> HIDE DEF fs, d
<1>9. Tracks(t, Adds(s, fs, f), d)
  <2>1. DOMAIN t.slots = d.open /\ (d.failed <=> c.failed) /\ f.type # "error"
    BY <1>2, <1>5 DEF d
  <2>2. F \cap {"dialect", "answer", "stream", "include_usage", "adapted", "error"} = {}
    BY DEF Constants
  <2> QED  BY <1>1, <1>2, <2>1, <2>2, TracksMore
<1>10. ASSUME s.stream PROVE MessagesSays(t, Append(fs, Said(s, f)), d)
  <2>1. (d.started <=> c.started \/ f.type = "message_start") /\ (d.done <=> c.done \/ f.type = "message_delta")
    BY <1>2, <1>5
  <2>2. \A b : Gathering(s, b, c) => Gathering(t, GatherMessages(b, f), d)
    BY DEF d
  <2>3. DOMAIN NativeSlots(t) = (IF f.type = "content_block_start" THEN DOMAIN NativeSlots(s) \cup {f.index}
                                    ELSE IF f.type = "content_block_stop" THEN DOMAIN NativeSlots(s) \ {f.index}
                                    ELSE DOMAIN NativeSlots(s))
    BY DEF OpenAfter
  <2>4. MessagesSays(s, fs, c) /\ IsKnown(c) /\ IsSeq(fs)
    BY <1>1, <1>3, <1>10
  <2>5. f.type \in {"content_block_delta", "content_block_stop"} => f.index \in DOMAIN NativeSlots(s) /\ f.index \in c.open
    BY <1>6
  <2>6. f.type # "message_stop"
    BY <1>5
  <2> QED  BY <1>6, <1>7, <1>8, <2>1, <2>2, <2>3, <2>4, <2>5, <2>6, MessagesSaysMore
<1>11. MessagesRuns(t, Adds(s, fs, f), d)
  BY <1>4, <1>9, <1>10 DEF MessagesRuns, Adds
<1> QED  BY <1>3, <1>11 DEF d

LEMMA MessagesStill ==
    ASSUME NEW before, IsSeq(before), NEW s, NEW c, MessagesRuns(s, before \o s.out, c),
           NEW e, May(c, e), e.type \notin {"MessageStart", "Finish", "Error"},
           NEW t, NEW F, Only(s, t, F), F \cap Constants = {}, F \cap {"out", "pending"} = {},
           MessagesKeeps(t), DOMAIN t.slots = Knows(c, e).open,
           DOMAIN NativeSlots(t) = DOMAIN NativeSlots(s),
           \A b : Gathering(s, b, c) => Gathering(t, b, Knows(c, e))
    PROVE  MessagesRuns(t, before \o t.out, Knows(c, e))
<1> DEFINE fs == before \o s.out
           d == Knows(c, e)
<1>1. IsEncoder(s) /\ Tracks(s, fs, c) /\ MessagesKeeps(s) /\ (s.stream => MessagesSays(s, fs, c)) /\ IsKnown(c)
  BY DEF MessagesRuns, Tracks
<1>2. /\ IsKnown(d) /\ (d.started <=> c.started) /\ (d.done <=> c.done) /\ (d.failed <=> c.failed)
      /\ e.type = "ContentStart" => d.open = c.open \cup {e.index} /\ d.used = c.used \cup {e.index}
      /\ e.type = "ContentStop" => d.open = c.open \ {e.index}
      /\ e.type \notin {"ContentStart", "ContentStop"} => d.open = c.open
      /\ e.type # "ContentStart" => d.used = c.used
  BY <1>1, KnowsIs
<1>3. t.stream = s.stream /\ t.out = s.out
  BY DEF Only, Fields, Constants
<1>4. before \o t.out = fs
  BY <1>3
<1>5. /\ d.open = c.open \/ (\E i : d.open = c.open \cup {i} /\ i \notin c.used) \/ (\E i : d.open = c.open \ {i})
      /\ c.used \subseteq d.used
  BY <1>2 DEF May
<1> HIDE DEF fs, d
<1>6. Tracks(t, fs, d)
  <2>1. F \cap {"dialect", "answer", "stream", "include_usage", "adapted", "error", "pending"} = {}
    BY DEF Constants
  <2>2. DOMAIN t.slots = d.open
    BY DEF d
  <2> QED  BY <1>1, <1>2, <2>1, <2>2, TracksStill
<1>7. ASSUME s.stream PROVE MessagesSays(t, fs, d)
  <2>1. \A b : Gathering(s, b, c) => Gathering(t, b, d)
    BY DEF d
  <2>2. MessagesSays(s, fs, c)
    BY <1>1, <1>7
  <2> QED  BY <1>2, <1>5, <2>1, <2>2, MessagesSaysStill
<1>8. MessagesRuns(t, fs, d)
  BY <1>3, <1>6, <1>7 DEF MessagesRuns
<1> QED  BY <1>4, <1>8 DEF d

LEMMA GatheringMore ==
    ASSUME NEW s, NEW c, NEW b, Gathering(s, b, c), NEW f, NEW t, NEW d, NEW u,
           GatherMessages(Message(NativeSlots(s), s.content, s.finish, b.usage), f) =
             Message(NativeSlots(t), t.content, t.finish, u),
           d.done /\ t.answer.provider # "openai" => u = t.counted
    PROVE  Gathering(t, GatherMessages(b, f), d)
<1> DEFINE r == GatherMessages(b, f)
<1>1. r = Message(NativeSlots(t), t.content, t.finish, u)
  BY DEF Gathering
<1>2. r.usage = u
  BY <1>1, UsageIs
<1> HIDE DEF r
<1>3. Gathering(t, r, d)
  BY <1>1, <1>2 DEF Gathering
<1> QED  BY <1>3 DEF r

LEMMA GatheringStill ==
    ASSUME NEW s, NEW c, NEW b, Gathering(s, b, c), NEW t, NEW d,
           NativeSlots(t) = NativeSlots(s), t.content = s.content, t.finish = s.finish,
           d.done /\ t.answer.provider # "openai" =>
             c.done /\ s.answer.provider # "openai" /\ t.counted = s.counted
    PROVE  Gathering(t, b, d)
BY DEF Gathering

LEMMA KeepsMessages ==
    ASSUME NEW s, MessagesKeeps(s), NEW t, t.dialect = s.dialect, t.stash = s.stash, t.blocks = s.blocks,
           t.answer = s.answer, t.content = s.content,
           \A i \in DOMAIN t.slots : t.slots[i].type \in Native => i \in DOMAIN s.slots /\ t.slots[i] = s.slots[i]
    PROVE  MessagesKeeps(t)
BY DEF MessagesKeeps

LEMMA MessageBegins ==
    ASSUME NEW before, IsSeq(before), NEW s, NEW c, MessagesRuns(s, before \o s.out, c),
           NEW e, May(c, e), e.type = "MessageStart"
    PROVE  LET t == MessagesEncode(e, s) IN MessagesRuns(t, before \o t.out, Knows(c, e))
<1> DEFINE t == MessagesEncode(e, s)
           f == [type |-> "message_start"]
           F == {"out", "pending"}
<1>1. IsEncoder(s) /\ MessagesKeeps(s) /\ DOMAIN s.slots = c.open /\ IsKnown(c)
  BY DEF MessagesRuns, Tracks
<1>2. Only(s, t, F) /\ Tells(s, t, f)
  BY <1>1, MessageTold
<1>3. <<e.type, f.type>> \in MessagesFrames /\ f.type = "message_start" /\ F \cap Constants = {}
  BY DEF MessagesFrames, Constants
<1> HIDE DEF t, f
<1>4. /\ t.slots = s.slots /\ t.finish = s.finish /\ t.counted = s.counted /\ t.blocks = s.blocks
      /\ t.answer = s.answer /\ t.dialect = s.dialect /\ t.stash = s.stash /\ t.content = s.content
  BY <1>2 DEF Only, Fields
<1> HIDE DEF F
<1>5. MessagesKeeps(t) /\ NativeSlots(t) = NativeSlots(s)
  BY <1>1, <1>4, KeepsMessages DEF NativeSlots
<1>6. DOMAIN t.slots = Knows(c, e).open /\ (Knows(c, e).done <=> c.done)
  BY <1>1, <1>4, KnowsIs
<1>7. ASSUME NEW b, Gathering(s, b, c) PROVE Gathering(t, GatherMessages(b, f), Knows(c, e))
  <2> DEFINE o == NativeSlots(s)
             n == s.content
             v == s.finish
             u == b.usage
  <2>1. f.type \in {"message_start", "message_stop", "error"}
    BY <1>3
  <2> HIDE DEF o, n, v, u
  <2>2. GatherMessages(Message(o, n, v, u), f) = Message(o, n, v, u)
    BY <2>1, NoneGathered
  <2>3. Knows(c, e).done /\ t.answer.provider # "openai" => u = t.counted
    BY <1>4, <1>6, <1>7 DEF u, Gathering
  <2>4. GatherMessages(Message(NativeSlots(s), s.content, s.finish, b.usage), f) =
             Message(NativeSlots(t), t.content, t.finish, u)
    BY <1>4, <1>5, <2>2 DEF o, n, v, u
  <2> QED  BY <1>7, <2>3, <2>4, GatheringMore
<1>8. DOMAIN NativeSlots(t) = OpenAfter(s, f)
  BY <1>3, <1>5 DEF OpenAfter
<1>9. MessagesRuns(t, before \o t.out, Knows(c, e))
  <2>1. f.type \notin {"content_block_start", "content_block_delta", "content_block_stop"}
    BY <1>3
  <2> QED  BY <1>2, <1>3, <1>5, <1>6, <1>7, <1>8, <2>1, MessagesStep
<1> QED  BY <1>9 DEF t

LEMMA BlockBegins ==
    ASSUME NEW before, IsSeq(before), NEW s, NEW c, MessagesRuns(s, before \o s.out, c),
           NEW e, May(c, e), e.type = "ContentStart", e.kind \in Native
    PROVE  LET t == MessagesEncode(e, s) IN MessagesRuns(t, before \o t.out, Knows(c, e))
<1> DEFINE t == MessagesEncode(e, s)
           id == CallId(s.answer, e)
           i == e.index
           z == [type |-> e.kind, id |-> id, said |-> <<>>]
           f == [type |-> "content_block_start", index |-> i, kind |-> e.kind, id |-> id]
           F == {"slots", "out", "pending"}
<1>1. IsEncoder(s) /\ MessagesKeeps(s) /\ DOMAIN s.slots = c.open /\ IsKnown(c)
  BY DEF MessagesRuns, Tracks
<1>2. Only(s, t, F) /\ Tells(s, t, f) /\ t.slots = Insert(s.slots, i, z)
  BY <1>1, NativeTold
<1>3. /\ <<e.type, f.type>> \in MessagesFrames /\ f.type = "content_block_start" /\ f.index = i
      /\ f.kind = e.kind /\ f.id = id /\ F \cap Constants = {}
  BY DEF MessagesFrames, Constants
<1>4. z.type = e.kind /\ z.id = id /\ IsIdOf(s.answer, id) /\ z.type \in Native
  BY DEF CallId, Of, IsIdOf
<1>5. z = [type |-> f.kind, id |-> f.id, said |-> <<>>]
  OBVIOUS
<1> HIDE DEF t, f, z, id
<1>6. /\ t.finish = s.finish /\ t.counted = s.counted /\ t.blocks = s.blocks
      /\ t.answer = s.answer /\ t.dialect = s.dialect /\ t.stash = s.stash /\ t.content = s.content
  BY <1>2 DEF Only, Fields
<1> HIDE DEF F
<1>7. i \notin DOMAIN s.slots
  BY <1>1 DEF May, IsKnown
<1>8. /\ DOMAIN t.slots = DOMAIN s.slots \cup {i} /\ t.slots[i] = z
      /\ \A j \in DOMAIN s.slots : t.slots[j] = s.slots[j]
  <2>1. t.slots = Insert(s.slots, i, z)
    BY <1>2
  <2> QED  BY <1>7, <2>1 DEF Insert
<1>9. MessagesKeeps(t)
  BY <1>1, <1>4, <1>6, <1>8 DEF MessagesKeeps
<1>10. DOMAIN t.slots = Knows(c, e).open /\ (Knows(c, e).done <=> c.done)
  BY <1>1, <1>8, KnowsIs
<1>11. NativeSlots(t) = Insert(NativeSlots(s), i, z)
  <2> DEFINE p == NativeSlots(t)
             q == Insert(NativeSlots(s), i, z)
  <2>0. \A j : j \in DOMAIN NativeSlots(t) <=> j \in DOMAIN NativeSlots(s) \/ j = i
    <3>1. \A j : j \in DOMAIN NativeSlots(t) <=> j \in DOMAIN t.slots /\ t.slots[j].type \in Native
      BY SlotsAre
    <3>2. \A j : j \in DOMAIN NativeSlots(s) <=> j \in DOMAIN s.slots /\ s.slots[j].type \in Native
      BY SlotsAre
    <3> QED  BY <1>4, <1>8, <3>1, <3>2
  <2>1. DOMAIN p = DOMAIN NativeSlots(s) \cup {i}
    BY <2>0
  <2>2. DOMAIN q = DOMAIN NativeSlots(s) \cup {i} /\ q[i] = z /\ \A j \in DOMAIN NativeSlots(s) : j # i => q[j] = NativeSlots(s)[j]
    BY DEF Insert
  <2>3. \A j \in DOMAIN p : p[j] = t.slots[j]
    BY SlotsAre
  <2>4. \A j \in DOMAIN p : p[j] = q[j]
    BY <1>7, <1>8, <2>1, <2>2, <2>3, SlotsAre
  <2>5. p = [j \in DOMAIN p |-> p[j]] /\ q = [j \in DOMAIN q |-> q[j]]
    BY DEF NativeSlots, Insert
  <2> HIDE DEF p, q
  <2>6. p = q
    BY <2>1, <2>2, <2>4, <2>5
  <2> QED  BY <2>6 DEF p, q
<1>12. ASSUME NEW b, Gathering(s, b, c) PROVE Gathering(t, GatherMessages(b, f), Knows(c, e))
  <2> DEFINE o == NativeSlots(s)
             n == s.content
             v == s.finish
             u == b.usage
             m == Insert(o, f.index, [type |-> f.kind, id |-> f.id, said |-> <<>>])
  <2>1. m = NativeSlots(t)
    BY <1>3, <1>5, <1>11
  <2>2. m = Insert(o, f.index, [type |-> f.kind, id |-> f.id, said |-> <<>>])
    OBVIOUS
  <2> HIDE DEF o, n, v, u, m
  <2>3. GatherMessages(Message(o, n, v, u), f) = Message(m, n, v, u)
    BY <1>3, <2>2, StartGathered
  <2>4. Knows(c, e).done /\ t.answer.provider # "openai" => u = t.counted
    BY <1>6, <1>10, <1>12 DEF u, Gathering
  <2>5. GatherMessages(Message(NativeSlots(s), s.content, s.finish, b.usage), f) =
             Message(NativeSlots(t), t.content, t.finish, u)
    BY <1>6, <2>1, <2>3 DEF o, n, v, u
  <2> QED  BY <1>12, <2>4, <2>5, GatheringMore
<1>13. DOMAIN NativeSlots(t) = OpenAfter(s, f)
  <2>1. DOMAIN Insert(NativeSlots(s), i, z) = DOMAIN NativeSlots(s) \cup {i}
    BY DEF Insert
  <2> QED  BY <1>3, <1>11, <2>1 DEF OpenAfter
<1>14. MessagesRuns(t, before \o t.out, Knows(c, e))
  <2>1. f.type = "content_block_start" /\ f.index = e.index
    BY <1>3
  <2>2. f.type \notin {"content_block_delta", "content_block_stop"}
    BY <1>3
  <2> QED  BY <1>2, <1>3, <1>9, <1>10, <1>12, <1>13, <2>1, <2>2, MessagesStep
<1> QED  BY <1>14 DEF t

LEMMA SameSlots ==
    ASSUME NEW s, NEW t,
           \A i : (i \in DOMAIN t.slots /\ t.slots[i].type \in Native) <=> (i \in DOMAIN s.slots /\ s.slots[i].type \in Native),
           \A i \in DOMAIN s.slots : s.slots[i].type \in Native => t.slots[i] = s.slots[i]
    PROVE  NativeSlots(t) = NativeSlots(s)
<1> DEFINE p == NativeSlots(t)
           q == NativeSlots(s)
<1>1. \A i : i \in DOMAIN p <=> i \in DOMAIN q
  BY SlotsAre
<1>2. \A i \in DOMAIN q : p[i] = q[i]
  BY <1>1, SlotsAre
<1>3. p = [i \in DOMAIN p |-> p[i]] /\ q = [i \in DOMAIN q |-> q[i]]
  BY DEF NativeSlots
<1> HIDE DEF p, q
<1>4. DOMAIN p = DOMAIN q
  BY <1>1
<1>5. p = q
  BY <1>2, <1>3, <1>4
<1> QED  BY <1>5 DEF p, q

LEMMA OtherBegins ==
    ASSUME NEW before, IsSeq(before), NEW s, NEW c, MessagesRuns(s, before \o s.out, c),
           NEW e, May(c, e), e.type = "ContentStart", e.kind \notin Native
    PROVE  LET t == MessagesEncode(e, s) IN MessagesRuns(t, before \o t.out, Knows(c, e))
<1> DEFINE t == MessagesEncode(e, s)
           i == e.index
           z == [type |-> "Skip"]
           F == {"slots"}
<1>1. IsEncoder(s) /\ MessagesKeeps(s) /\ DOMAIN s.slots = c.open /\ IsKnown(c)
  BY DEF MessagesRuns, Tracks
<1>2. Only(s, t, F) /\ t.slots = Insert(s.slots, i, z)
  BY <1>1, OtherStarted
<1>3. F \cap Constants = {} /\ F \cap {"out", "pending"} = {}
  BY DEF Constants
<1>4. z.type \notin Native
  BY DEF Native
<1> HIDE DEF t, z
<1>5. /\ t.finish = s.finish /\ t.counted = s.counted /\ t.blocks = s.blocks
      /\ t.answer = s.answer /\ t.dialect = s.dialect /\ t.stash = s.stash /\ t.content = s.content
  BY <1>2 DEF Only, Fields
<1> HIDE DEF F
<1>6. i \notin DOMAIN s.slots
  BY <1>1 DEF May, IsKnown
<1>7. /\ DOMAIN t.slots = DOMAIN s.slots \cup {i} /\ t.slots[i] = z
      /\ \A j \in DOMAIN s.slots : t.slots[j] = s.slots[j]
  <2>1. t.slots = Insert(s.slots, i, z)
    BY <1>2
  <2> QED  BY <1>6, <2>1 DEF Insert
<1>8. MessagesKeeps(t)
  BY <1>1, <1>4, <1>5, <1>7, KeepsMessages
<1>9. DOMAIN t.slots = Knows(c, e).open /\ (Knows(c, e).done <=> c.done)
  BY <1>1, <1>7, KnowsIs
<1>10. NativeSlots(t) = NativeSlots(s)
  BY <1>4, <1>7, SameSlots
<1>11. ASSUME NEW b, Gathering(s, b, c) PROVE Gathering(t, b, Knows(c, e))
  BY <1>5, <1>9, <1>10, <1>11, GatheringStill
<1>12. MessagesRuns(t, before \o t.out, Knows(c, e))
  <2>1. DOMAIN NativeSlots(t) = DOMAIN NativeSlots(s)
    BY <1>10
  <2> QED  BY <1>2, <1>3, <1>8, <1>9, <1>11, <2>1, MessagesStill
<1> QED  BY <1>12 DEF t

LEMMA OtherEnds ==
    ASSUME NEW before, IsSeq(before), NEW s, NEW c, MessagesRuns(s, before \o s.out, c),
           NEW e, May(c, e), e.type = "ContentStop", ~ Routes(s, e.index, Native)
    PROVE  LET t == MessagesEncode(e, s) IN MessagesRuns(t, before \o t.out, Knows(c, e))
<1> DEFINE t == MessagesEncode(e, s)
           i == e.index
           F == {"slots"}
<1>1. IsEncoder(s) /\ MessagesKeeps(s) /\ DOMAIN s.slots = c.open /\ IsKnown(c)
  BY DEF MessagesRuns, Tracks
<1>2. Only(s, t, F) /\ t.slots = Remove(s.slots, i)
  BY <1>1, OtherStopped
<1>3. F \cap Constants = {} /\ F \cap {"out", "pending"} = {}
  BY DEF Constants
<1> HIDE DEF t
<1>5. /\ t.finish = s.finish /\ t.counted = s.counted /\ t.blocks = s.blocks
      /\ t.answer = s.answer /\ t.dialect = s.dialect /\ t.stash = s.stash /\ t.content = s.content
  BY <1>2 DEF Only, Fields
<1> HIDE DEF F
<1>6. i \in DOMAIN s.slots => s.slots[i].type \notin Native
  BY DEF Routes
<1>7. DOMAIN t.slots = DOMAIN s.slots \ {i} /\ \A j \in DOMAIN t.slots : t.slots[j] = s.slots[j]
  <2>1. t.slots = Remove(s.slots, i)
    BY <1>2
  <2> QED  BY <2>1 DEF Remove
<1>8. MessagesKeeps(t)
  BY <1>1, <1>5, <1>7, KeepsMessages
<1>9. DOMAIN t.slots = Knows(c, e).open /\ (Knows(c, e).done <=> c.done)
  BY <1>1, <1>7, KnowsIs
<1>10. NativeSlots(t) = NativeSlots(s)
  BY <1>6, <1>7, SameSlots
<1>11. ASSUME NEW b, Gathering(s, b, c) PROVE Gathering(t, b, Knows(c, e))
  BY <1>5, <1>9, <1>10, <1>11, GatheringStill
<1>12. MessagesRuns(t, before \o t.out, Knows(c, e))
  <2>1. DOMAIN NativeSlots(t) = DOMAIN NativeSlots(s)
    BY <1>10
  <2> QED  BY <1>2, <1>3, <1>8, <1>9, <1>11, <2>1, MessagesStill
<1> QED  BY <1>12 DEF t

\* OpenAI alone counts after the verdict.
InTime(s, c, e) == s.answer.provider # "openai" /\ e.type = "Usage" => ~ c.done

LEMMA UsageComes ==
    ASSUME NEW before, IsSeq(before), NEW s, NEW c, MessagesRuns(s, before \o s.out, c),
           NEW e, May(c, e), e.type = "Usage", InTime(s, c, e)
    PROVE  LET t == MessagesEncode(e, s) IN MessagesRuns(t, before \o t.out, Knows(c, e))
<1> DEFINE t == MessagesEncode(e, s)
           F == {"counted"}
<1>1. IsEncoder(s) /\ MessagesKeeps(s) /\ DOMAIN s.slots = c.open /\ IsKnown(c)
  BY DEF MessagesRuns, Tracks
<1>2. Only(s, t, F)
  BY <1>1, Counted
<1>3. F \cap Constants = {} /\ F \cap {"out", "pending"} = {}
  BY DEF Constants
<1> HIDE DEF t
<1>5. /\ t.finish = s.finish /\ t.slots = s.slots /\ t.blocks = s.blocks
      /\ t.answer = s.answer /\ t.dialect = s.dialect /\ t.stash = s.stash /\ t.content = s.content
  BY <1>2 DEF Only, Fields
<1> HIDE DEF F
<1>8. MessagesKeeps(t) /\ NativeSlots(t) = NativeSlots(s)
  BY <1>1, <1>5, KeepsMessages DEF NativeSlots
<1>9. DOMAIN t.slots = Knows(c, e).open /\ (Knows(c, e).done <=> c.done)
  BY <1>1, <1>5, KnowsIs
<1>11. ASSUME NEW b, Gathering(s, b, c) PROVE Gathering(t, b, Knows(c, e))
  <2>1. ~ (Knows(c, e).done /\ t.answer.provider # "openai")
    BY <1>5, <1>9 DEF InTime
  <2> QED  BY <1>5, <1>8, <1>11, <2>1, GatheringStill
<1>12. MessagesRuns(t, before \o t.out, Knows(c, e))
  <2>1. DOMAIN NativeSlots(t) = DOMAIN NativeSlots(s)
    BY <1>8
  <2>2. e.type \notin {"MessageStart", "Finish", "Error"}
    OBVIOUS
  <2> QED  BY <1>2, <1>3, <1>8, <1>9, <1>11, <2>1, <2>2, MessagesStill
<1> QED  BY <1>12 DEF t

LEMMA PieceLost ==
    ASSUME NEW before, IsSeq(before), NEW s, NEW c, MessagesRuns(s, before \o s.out, c),
           NEW e, May(c, e), e.type = "ContentDelta", ~ Routes(s, e.index, Holders(e.delta))
    PROVE  LET t == MessagesEncode(e, s) IN MessagesRuns(t, before \o t.out, Knows(c, e))
<1>1. IsEncoder(s) /\ MessagesKeeps(s) /\ DOMAIN s.slots = c.open /\ IsKnown(c)
  BY DEF MessagesRuns, Tracks
<1>2. MessagesEncode(e, s) = s
  BY FragmentLost
<1>3. Only(s, s, {}) /\ {} \cap Constants = {} /\ {} \cap {"out", "pending"} = {}
  BY <1>1 DEF Only
<1>4. DOMAIN s.slots = Knows(c, e).open /\ (Knows(c, e).done <=> c.done)
  BY <1>1, KnowsIs
<1>5. ASSUME NEW b, Gathering(s, b, c) PROVE Gathering(s, b, Knows(c, e))
  BY <1>4, <1>5, GatheringStill
<1>6. MessagesRuns(s, before \o s.out, Knows(c, e))
  BY <1>1, <1>3, <1>4, <1>5, MessagesStill
<1> QED  BY <1>2, <1>6

LEMMA VerdictComes ==
    ASSUME NEW before, IsSeq(before), NEW s, NEW c, MessagesRuns(s, before \o s.out, c),
           NEW e, May(c, e), e.type = "Finish"
    PROVE  LET t == MessagesEncode(e, s) IN MessagesRuns(t, before \o t.out, Knows(c, e))
<1> DEFINE t == MessagesEncode(e, s)
           f == [type |-> "message_delta", reason |-> e.reason, usage |-> s.counted]
           F == {"finish", "out", "pending"}
<1>1. IsEncoder(s) /\ MessagesKeeps(s) /\ DOMAIN s.slots = c.open /\ IsKnown(c)
  BY DEF MessagesRuns, Tracks
<1>2. Only(s, t, F) /\ Tells(s, t, f) /\ t.finish = e.reason
  BY <1>1, DeltaTold
<1>3. <<e.type, f.type>> \in MessagesFrames /\ f.type = "message_delta" /\ F \cap Constants = {}
  BY DEF MessagesFrames, Constants
<1>10. f.reason = e.reason /\ f.usage = s.counted
  OBVIOUS
<1> HIDE DEF t, f
<1>4. /\ t.slots = s.slots /\ t.counted = s.counted /\ t.blocks = s.blocks
      /\ t.answer = s.answer /\ t.dialect = s.dialect /\ t.stash = s.stash /\ t.content = s.content
  BY <1>2 DEF Only, Fields
<1> HIDE DEF F
<1>5. MessagesKeeps(t) /\ NativeSlots(t) = NativeSlots(s)
  BY <1>1, <1>4, KeepsMessages DEF NativeSlots
<1>6. DOMAIN t.slots = Knows(c, e).open
  BY <1>1, <1>4, KnowsIs
<1>7. ASSUME NEW b, Gathering(s, b, c) PROVE Gathering(t, GatherMessages(b, f), Knows(c, e))
  <2> DEFINE o == NativeSlots(s)
             n == s.content
             v == s.finish
             u == b.usage
             w == s.counted
  <2> HIDE DEF o, n, v, u, w
  <2>2. GatherMessages(Message(o, n, v, u), f) = Message(o, n, f.reason, f.usage)
    BY <1>3, VerdictGathered
  <2>3. Knows(c, e).done /\ t.answer.provider # "openai" => w = t.counted
    BY <1>4 DEF w
  <2>4. GatherMessages(Message(NativeSlots(s), s.content, s.finish, b.usage), f) =
             Message(NativeSlots(t), t.content, t.finish, w)
    BY <1>2, <1>4, <1>5, <1>10, <2>2 DEF o, n, v, u, w
  <2> QED  BY <1>7, <2>3, <2>4, GatheringMore
<1>8. DOMAIN NativeSlots(t) = OpenAfter(s, f)
  BY <1>3, <1>5 DEF OpenAfter
<1>9. MessagesRuns(t, before \o t.out, Knows(c, e))
  <2>1. f.type \notin {"content_block_start", "content_block_delta", "content_block_stop"}
    BY <1>3
  <2> QED  BY <1>2, <1>3, <1>5, <1>6, <1>7, <1>8, <2>1, MessagesStep
<1> QED  BY <1>9 DEF t

\* Block i has the piece x.
LEMMA PieceHeld ==
    ASSUME NEW s, NEW i \in DOMAIN s.slots, s.slots[i].type \in Native, NEW x,
           NEW t, t.slots = Fuller(s.slots, i, x),
           \A j \in DOMAIN s.slots : s.slots[j].type \in Native => IsIdOf(s.answer, s.slots[j].id)
    PROVE  /\ DOMAIN t.slots = DOMAIN s.slots /\ NativeSlots(t) = Fuller(NativeSlots(s), i, x)
           /\ DOMAIN NativeSlots(t) = DOMAIN NativeSlots(s)
           /\ \A j \in DOMAIN t.slots : t.slots[j].type \in Native => IsIdOf(s.answer, t.slots[j].id)
<1> DEFINE y == [s.slots[i] EXCEPT !.said = Append(s.slots[i].said, x)]
           o == NativeSlots(s)
           p == NativeSlots(t)
           q == Fuller(o, i, x)
<1>1. t.slots = [s.slots EXCEPT ![i] = y]
  BY DEF Fuller
<1>2. y.type = s.slots[i].type /\ y.id = s.slots[i].id
  <2> DEFINE z == s.slots[i]
  <2> HIDE DEF z
  <2>1. [z EXCEPT !.said = Append(z.said, x)].type = z.type /\ [z EXCEPT !.said = Append(z.said, x)].id = z.id
    OBVIOUS
  <2> QED  BY <2>1 DEF z
<1> HIDE DEF y
<1>3. DOMAIN t.slots = DOMAIN s.slots /\ \A j \in DOMAIN s.slots : t.slots[j] = IF j = i THEN y ELSE s.slots[j]
  <2> DEFINE z == s.slots
  <2> HIDE DEF z
  <2>1. DOMAIN [z EXCEPT ![i] = y] = DOMAIN z /\ \A j \in DOMAIN z : [z EXCEPT ![i] = y][j] = IF j = i THEN y ELSE z[j]
    OBVIOUS
  <2>2. t.slots = [z EXCEPT ![i] = y]
    BY <1>1 DEF z
  <2> QED  BY <2>1, <2>2 DEF z
<1>4. \A j \in DOMAIN t.slots : t.slots[j].type \in Native => IsIdOf(s.answer, t.slots[j].id)
  BY <1>2, <1>3
<1>5. /\ \A j : j \in DOMAIN o <=> j \in DOMAIN s.slots /\ s.slots[j].type \in Native
      /\ \A j \in DOMAIN o : o[j] = s.slots[j]
      /\ \A j : j \in DOMAIN p <=> j \in DOMAIN t.slots /\ t.slots[j].type \in Native
      /\ \A j \in DOMAIN p : p[j] = t.slots[j]
  BY SlotsAre
<1>6. p = [j \in DOMAIN p |-> p[j]]
  BY DEF NativeSlots
<1> HIDE DEF o, p
<1>7. \A j : j \in DOMAIN p <=> j \in DOMAIN o
  BY <1>2, <1>3, <1>5
<1>8. i \in DOMAIN o
  BY <1>5
<1> DEFINE w == [o[i] EXCEPT !.said = Append(o[i].said, x)]
<1>9. w = y
  BY <1>5, <1>8 DEF y
<1>10. q = [o EXCEPT ![i] = w]
  BY DEF Fuller
<1> HIDE DEF w, q, o
<1>11. DOMAIN q = DOMAIN o /\ (\A j \in DOMAIN o : q[j] = IF j = i THEN w ELSE o[j]) /\ q = [j \in DOMAIN q |-> q[j]]
  <2>1. [o EXCEPT ![i] = w] = [j \in DOMAIN o |-> IF j = i THEN w ELSE o[j]]
    BY Zenon
  <2>2. q = [j \in DOMAIN o |-> IF j = i THEN w ELSE o[j]]
    BY <1>10, <2>1, Zenon
  <2>3. DOMAIN q = DOMAIN o
    BY <2>2
  <2>4. \A j \in DOMAIN o : q[j] = IF j = i THEN w ELSE o[j]
    BY <2>2
  <2>5. q = [j \in DOMAIN q |-> q[j]]
    BY <2>2
  <2> QED  BY <2>3, <2>4, <2>5
<1>12. \A j \in DOMAIN o : p[j] = q[j]
  BY <1>3, <1>5, <1>7, <1>9, <1>11
<1>13. p = q
  <2>1. DOMAIN p = DOMAIN q
    BY <1>7, <1>11
  <2> QED  BY <1>6, <1>11, <1>12, <2>1
<1> QED  BY <1>3, <1>4, <1>11, <1>13 DEF p, q, o

LEMMA PieceComes ==
    ASSUME NEW before, IsSeq(before), NEW s, NEW c, MessagesRuns(s, before \o s.out, c),
           NEW e, May(c, e), e.type = "ContentDelta", Routes(s, e.index, Holders(e.delta))
    PROVE  LET t == MessagesEncode(e, s) IN MessagesRuns(t, before \o t.out, Knows(c, e))
<1> DEFINE t == MessagesEncode(e, s)
           i == e.index
           x == <<e.delta, e.block>>
           f == [type |-> "content_block_delta", index |-> i, said |-> x]
           F == {"slots", "out", "pending"}
<1>1. IsEncoder(s) /\ MessagesKeeps(s) /\ DOMAIN s.slots = c.open /\ IsKnown(c)
  BY DEF MessagesRuns, Tracks
<1>2. /\ Only(s, t, F) /\ Tells(s, t, f) /\ Routes(s, i, Native)
      /\ t.slots = Fuller(s.slots, i, x)
  <2>1. /\ Only(s, t, F) /\ Tells(s, t, f) /\ Routes(s, i, Native)
        /\ t.slots = [s.slots EXCEPT ![i].said = Append(@, x)]
    BY <1>1, FragmentTold
  <2> QED  BY <2>1 DEF Fuller
<1>3. /\ <<e.type, f.type>> \in MessagesFrames /\ f.type = "content_block_delta" /\ f.index = i
      /\ f.said = x /\ F \cap Constants = {}
  BY DEF MessagesFrames, Constants
<1> HIDE DEF t, f, x
<1>4. i \in DOMAIN s.slots /\ s.slots[i].type \in Native
  BY <1>2 DEF Routes
<1>5. \A j \in DOMAIN s.slots : s.slots[j].type \in Native => IsIdOf(s.answer, s.slots[j].id)
  BY <1>1 DEF MessagesKeeps
<1>6. /\ DOMAIN t.slots = DOMAIN s.slots /\ NativeSlots(t) = Fuller(NativeSlots(s), i, x)
      /\ DOMAIN NativeSlots(t) = DOMAIN NativeSlots(s)
      /\ \A j \in DOMAIN t.slots : t.slots[j].type \in Native => IsIdOf(s.answer, t.slots[j].id)
  BY <1>2, <1>4, <1>5, PieceHeld
<1>7. /\ t.finish = s.finish /\ t.counted = s.counted /\ t.blocks = s.blocks
      /\ t.answer = s.answer /\ t.dialect = s.dialect /\ t.stash = s.stash /\ t.content = s.content
  BY <1>2 DEF Only, Fields
<1> HIDE DEF F
<1>8. MessagesKeeps(t)
  BY <1>1, <1>6, <1>7 DEF MessagesKeeps
<1>9. DOMAIN t.slots = Knows(c, e).open /\ (Knows(c, e).done <=> c.done)
  BY <1>1, <1>6, KnowsIs
<1>10. i \in DOMAIN NativeSlots(s)
  BY <1>4, SlotsAre
<1>11. ASSUME NEW b, Gathering(s, b, c) PROVE Gathering(t, GatherMessages(b, f), Knows(c, e))
  <2> DEFINE o == NativeSlots(s)
             n == s.content
             v == s.finish
             u == b.usage
  <2>1. i \in DOMAIN o
    BY <1>10
  <2> HIDE DEF o, n, v, u
  <2>3. GatherMessages(Message(o, n, v, u), f) = Message(Fuller(o, i, f.said), n, v, u)
    BY <1>3, <2>1, DeltaGathered
  <2>4. Knows(c, e).done /\ t.answer.provider # "openai" => u = t.counted
    BY <1>7, <1>9, <1>11 DEF u, Gathering
  <2>5. GatherMessages(Message(NativeSlots(s), s.content, s.finish, b.usage), f) =
             Message(NativeSlots(t), t.content, t.finish, u)
    BY <1>3, <1>6, <1>7, <2>3 DEF o, n, v, u
  <2> QED  BY <1>11, <2>4, <2>5, GatheringMore
<1>13. DOMAIN NativeSlots(t) = OpenAfter(s, f)
  BY <1>3, <1>6 DEF OpenAfter
<1>14. MessagesRuns(t, before \o t.out, Knows(c, e))
  <2>1. f.type = "content_block_delta" /\ f.index = e.index /\ f.index \in DOMAIN NativeSlots(s)
    BY <1>3, <1>10
  <2> QED  BY <1>2, <1>3, <1>8, <1>9, <1>11, <1>13, <2>1, MessagesStep
<1> QED  BY <1>14 DEF t

LEMMA BlockEnds ==
    ASSUME NEW before, IsSeq(before), NEW s, NEW c, MessagesRuns(s, before \o s.out, c),
           NEW e, May(c, e), e.type = "ContentStop", Routes(s, e.index, Native)
    PROVE  LET t == MessagesEncode(e, s) IN MessagesRuns(t, before \o t.out, Knows(c, e))
<1> DEFINE t == MessagesEncode(e, s)
           i == e.index
           f == [type |-> "content_block_stop", index |-> i]
           F == {"slots", "content", "out", "pending"}
<1>1. IsEncoder(s) /\ MessagesKeeps(s) /\ DOMAIN s.slots = c.open /\ IsKnown(c)
  BY DEF MessagesRuns, Tracks
<1>2. /\ Only(s, t, F) /\ Tells(s, t, f)
      /\ t.slots = Remove(s.slots, i) /\ t.content = Append(s.content, s.slots[i])
  BY <1>1, StopTold
<1>3. /\ <<e.type, f.type>> \in MessagesFrames /\ f.type = "content_block_stop" /\ f.index = i /\ F \cap Constants = {}
  BY DEF MessagesFrames, Constants
<1> HIDE DEF t, f
<1>4. i \in DOMAIN s.slots /\ s.slots[i].type \in Native
  BY DEF Routes
<1>5. \A j \in DOMAIN s.slots : s.slots[j].type \in Native => IsIdOf(s.answer, s.slots[j].id)
  BY <1>1 DEF MessagesKeeps
<1>6. DOMAIN t.slots = DOMAIN s.slots \ {i} /\ \A j \in DOMAIN t.slots : t.slots[j] = s.slots[j]
  <2>1. t.slots = Remove(s.slots, i)
    BY <1>2
  <2> QED  BY <2>1 DEF Remove
<1>7. /\ t.finish = s.finish /\ t.counted = s.counted /\ t.blocks = s.blocks
      /\ t.answer = s.answer /\ t.dialect = s.dialect /\ t.stash = s.stash
  BY <1>2 DEF Only, Fields
<1> HIDE DEF F
<1>8. MessagesKeeps(t)
  <2>1. \A n \in 1..Len(t.content) : IsIdOf(s.answer, t.content[n].id)
    <3> DEFINE q == s.content
               z == s.slots[i]
    <3>1. IsSeq(q) /\ t.content = Append(q, z) /\ IsIdOf(s.answer, z.id) /\ \A n \in 1..Len(q) : IsIdOf(s.answer, q[n].id)
      BY <1>1, <1>2, <1>4, <1>5 DEF IsEncoder, MessagesKeeps
    <3> HIDE DEF q, z
    <3>2. /\ Len(q) \in Nat /\ Len(Append(q, z)) = Len(q) + 1 /\ Append(q, z)[Len(q) + 1] = z
          /\ \A n \in 1..Len(q) : Append(q, z)[n] = q[n]
      BY <3>1, AppendIs
    <3>3. \A n \in 1..(Len(q) + 1) : n \in 1..Len(q) \/ n = Len(q) + 1
      BY <3>2
    <3> QED  BY <3>1, <3>2, <3>3
  <2> QED  BY <1>1, <1>5, <1>6, <1>7, <2>1 DEF MessagesKeeps
<1>9. DOMAIN t.slots = Knows(c, e).open /\ (Knows(c, e).done <=> c.done)
  BY <1>1, <1>6, KnowsIs
<1>10. i \in DOMAIN NativeSlots(s) /\ NativeSlots(s)[i] = s.slots[i]
  BY <1>4, SlotsAre
<1>11. NativeSlots(t) = Remove(NativeSlots(s), i)
  <2> DEFINE p == NativeSlots(t)
             q == Remove(NativeSlots(s), i)
             o == NativeSlots(s)
  <2>1. /\ \A j : j \in DOMAIN o <=> j \in DOMAIN s.slots /\ s.slots[j].type \in Native
        /\ \A j \in DOMAIN o : o[j] = s.slots[j]
        /\ \A j : j \in DOMAIN p <=> j \in DOMAIN t.slots /\ t.slots[j].type \in Native
        /\ \A j \in DOMAIN p : p[j] = t.slots[j]
    BY SlotsAre
  <2>2. p = [j \in DOMAIN p |-> p[j]]
    BY DEF NativeSlots
  <2>3. DOMAIN q = DOMAIN o \ {i} /\ (\A j \in DOMAIN q : q[j] = o[j]) /\ q = [j \in DOMAIN q |-> q[j]]
    <3>1. q = Remove(o, i)
      OBVIOUS
    <3> HIDE DEF q, o
    <3>2. q = [j \in DOMAIN o \ {i} |-> o[j]]
      BY <3>1 DEF Remove
    <3>3. DOMAIN q = DOMAIN o \ {i}
      BY <3>2
    <3>4. \A j \in DOMAIN q : q[j] = o[j]
      BY <3>2
    <3>5. q = [j \in DOMAIN q |-> q[j]]
      BY <3>2
    <3> QED  BY <3>3, <3>4, <3>5
  <2>4. \A j : j \in DOMAIN p <=> j \in DOMAIN q
    BY <1>6, <2>1, <2>3
  <2>5. \A j \in DOMAIN q : p[j] = q[j]
    BY <1>6, <2>1, <2>3, <2>4
  <2>6. DOMAIN p = DOMAIN q
    BY <2>4
  <2>7. p = q
    BY <2>2, <2>3, <2>5, <2>6
  <2> QED  BY <2>7 DEF p, q
<1>12. ASSUME NEW b, Gathering(s, b, c) PROVE Gathering(t, GatherMessages(b, f), Knows(c, e))
  <2> DEFINE o == NativeSlots(s)
             n == s.content
             v == s.finish
             u == b.usage
             m == Remove(o, i)
             q == Append(n, o[i])
  <2>1. i \in DOMAIN o /\ m = NativeSlots(t) /\ q = t.content
    BY <1>2, <1>10, <1>11
  <2>2. m = Remove(o, i) /\ q = Append(n, o[i])
    OBVIOUS
  <2> HIDE DEF o, n, v, u, m, q
  <2>3. GatherMessages(Message(o, n, v, u), f) = Message(m, q, v, u)
    <3>1. f.type = "content_block_stop" /\ i = f.index
      BY <1>3
    <3> HIDE DEF i
    <3>2. GatherMessages(Message(o, n, v, u), f) = Message(Remove(o, i), Append(n, o[i]), v, u)
      BY <2>1, <3>1, StopGathered
    <3> QED  BY <2>2, <3>2
  <2>4. Knows(c, e).done /\ t.answer.provider # "openai" => u = t.counted
    BY <1>7, <1>9, <1>12 DEF u, Gathering
  <2>5. GatherMessages(Message(NativeSlots(s), s.content, s.finish, b.usage), f) =
             Message(NativeSlots(t), t.content, t.finish, u)
    BY <1>7, <2>1, <2>3 DEF o, n, v, u
  <2> QED  BY <1>12, <2>4, <2>5, GatheringMore
<1>13. DOMAIN NativeSlots(t) = OpenAfter(s, f)
  <2>1. DOMAIN Remove(NativeSlots(s), i) = DOMAIN NativeSlots(s) \ {i}
    BY DEF Remove
  <2> QED  BY <1>3, <1>11, <2>1 DEF OpenAfter
<1>14. MessagesRuns(t, before \o t.out, Knows(c, e))
  <2>1. f.type = "content_block_stop" /\ f.index = e.index /\ f.index \in DOMAIN NativeSlots(s)
    BY <1>3, <1>10
  <2> QED  BY <1>2, <1>3, <1>8, <1>9, <1>12, <1>13, <2>1, MessagesStep
<1> QED  BY <1>14 DEF t


LEMMA ErrorComes ==
    ASSUME NEW before, IsSeq(before), NEW s, NEW c, MessagesRuns(s, before \o s.out, c),
           NEW e, e \in Event, May(c, e), e.type = "Error"
    PROVE  LET t == MessagesEncode(e, s) IN MessagesRuns(t, before \o t.out, Knows(c, e))
<1> DEFINE t == ErrorFrame(e, s)
           F == {"error", "out", "pending"}
           f == [type |-> "error", status |-> t.error]
           fs == before \o s.out
           d == Knows(c, e)
<1>1. /\ IsEncoder(s) /\ Tracks(s, fs, c) /\ MessagesKeeps(s) /\ (s.stream => MessagesSays(s, fs, c)) /\ IsKnown(c)
      /\ DOMAIN s.slots = c.open
  BY DEF MessagesRuns, Tracks
<1>2. Only(s, t, F) /\ Tells(s, t, f)
  BY <1>1, ErrorTold
<1>3. IsKnown(d) /\ (d.started <=> c.started) /\ (d.done <=> c.done) /\ d.failed /\ d.open = c.open /\ d.used = c.used
  BY <1>1, KnowsIs
<1>4. before \o t.out = Adds(s, fs, f) /\ IsSeq(fs)
  BY <1>1, <1>2, Put
<1>5. f.type = "error"
  OBVIOUS
<1>6. MessagesEncode(e, s) = t
  BY DEF MessagesEncode
<1> HIDE DEF d, fs
<1>7. Tracks(t, Adds(s, fs, f), d)
  BY <1>1, <1>3, TracksFailure
<1> HIDE DEF t, f
<1>8. /\ t.slots = s.slots /\ t.content = s.content /\ t.finish = s.finish
      /\ t.counted = s.counted /\ t.blocks = s.blocks
      /\ t.answer = s.answer /\ t.dialect = s.dialect /\ t.stash = s.stash /\ t.stream = s.stream
  BY <1>2 DEF Only, Fields
<1>9. MessagesKeeps(t) /\ NativeSlots(t) = NativeSlots(s)
  BY <1>1, <1>8 DEF MessagesKeeps, NativeSlots
<1>10. ASSUME NEW b, Gathering(s, b, c) PROVE Gathering(t, GatherMessages(b, f), d)
  <2> DEFINE o == NativeSlots(s)
             n == s.content
             v == s.finish
             u == b.usage
  <2>1. d.done /\ t.answer.provider # "openai" => u = t.counted
    BY <1>3, <1>8, <1>10 DEF Gathering
  <2> HIDE DEF o, n, v, u
  <2>2. GatherMessages(Message(o, n, v, u), f) = Message(o, n, v, u)
    BY <1>5, NoneGathered
  <2>3. GatherMessages(Message(NativeSlots(s), s.content, s.finish, b.usage), f) =
             Message(NativeSlots(t), t.content, t.finish, u)
    BY <1>8, <1>9, <2>2 DEF o, n, v, u
  <2> QED  BY <1>10, <2>1, <2>3, GatheringMore
<1>11. ASSUME s.stream PROVE MessagesSays(t, Append(fs, Said(s, f)), d)
  <2>1. DOMAIN NativeSlots(s) \subseteq c.open
    BY <1>1, SlotsAre
  <2>2. /\ f.type \notin {"message_stop", "message_start", "message_delta", "content_block_start",
                          "content_block_delta", "content_block_stop"}
        /\ (d.started <=> c.started \/ f.type = "message_start") /\ (d.done <=> c.done \/ f.type = "message_delta")
        /\ DOMAIN NativeSlots(t) = DOMAIN NativeSlots(s)
    BY <1>3, <1>5, <1>9
  <2> QED  BY <1>1, <1>3, <1>4, <1>5, <1>10, <1>11, <2>1, <2>2, MessagesSaysMore
<1>12. MessagesRuns(t, Adds(s, fs, f), d)
  BY <1>7, <1>8, <1>9, <1>11 DEF MessagesRuns, Adds
<1> QED  BY <1>4, <1>6, <1>12 DEF d, fs

\* Whatever event comes, but for the end.
LEMMA MessagesEvent ==
    ASSUME NEW before, IsSeq(before), NEW s, NEW c, MessagesRuns(s, before \o s.out, c),
           NEW e, e \in Event, May(c, e), e.type # "End", InTime(s, c, e)
    PROVE  LET t == MessagesEncode(e, s) IN MessagesRuns(t, before \o t.out, Knows(c, e))
<1>1. e.type \in {"MessageStart", "ContentStart", "ContentDelta", "ContentStop", "Usage", "Finish", "Error"}
  BY DEF Event
<1>2. CASE e.type = "ContentDelta"
  BY <1>2, PieceComes, PieceLost
<1>3. CASE e.type = "ContentStart"
  BY <1>3, BlockBegins, OtherBegins
<1>4. CASE e.type = "ContentStop"
  BY <1>4, BlockEnds, OtherEnds
<1> QED  BY <1>1, <1>2, <1>3, <1>4, MessageBegins, UsageComes, VerdictComes, ErrorComes

MessagesEnds(s, fs) ==
    /\ s.dialect = "messages" /\ Ends(s, fs) /\ s.blocks = <<>> /\ s.stash = {}
    /\ \A n \in 1..Len(s.content) : IsIdOf(s.answer, s.content[n].id)
    /\ s.stream =>
         /\ MessagesGrammar(fs)
         /\ s.error = 0 =>
              /\ Gathered("messages", fs).content = s.content /\ Gathered("messages", fs).finish = s.finish
              /\ Gathered("messages", fs).type = "message"
              /\ s.answer.provider = "openai" \/ Gathered("messages", fs).usage = s.counted
              /\ fs[Len(fs)].frame.type = "message_stop"

LEMMA MessagesEnding ==
    ASSUME NEW before, IsSeq(before), NEW s, s.out = <<>>, NEW c, MessagesRuns(s, before \o s.out, c),
           NEW e, May(c, e), e.type = "End"
    PROVE  LET t == MessagesEncode(e, s) IN MessagesEnds(t, before \o t.out)
<1> DEFINE t == MessagesEncode(e, s)
           f == [type |-> "message_stop"]
           fs == before \o s.out
           gs == before \o t.out
<1>1. /\ IsEncoder(s) /\ Tracks(s, fs, c) /\ MessagesKeeps(s) /\ (s.stream => MessagesSays(s, fs, c)) /\ IsKnown(c)
      /\ Announces(s, fs) /\ Fails(s, fs) /\ (s.error # 0 <=> c.failed) /\ IsSeq(fs) /\ DOMAIN s.slots = c.open
  BY DEF MessagesRuns, Tracks
<1>2. /\ Only(s, t, {"out", "pending"})
      /\ s.stream /\ s.error = 0 => Tells(s, t, f)
      /\ s.stream /\ s.error # 0 => t = s
  BY <1>1, MessageEnded
<1>3. f.type = "message_stop"
  OBVIOUS
<1>4. s.stream /\ s.error = 0 => gs = Append(fs, Said(s, f)) /\ gs = Adds(s, fs, f)
  BY <1>1, <1>2, Put DEF Adds
<1>5. s.stream /\ s.error # 0 => gs = fs
  BY <1>2
<1>6. ASSUME ~ s.stream
      PROVE  \E x : /\ t.out = Append(<<>>, x) /\ x.told = s.adapted /\ (s.error # 0 <=> x.frame.type = "error")
                    /\ s.error = 0 => x.frame = [type |-> "message", content |-> s.content, finish |-> s.finish,
                                                 usage |-> s.counted]
  <2> DEFINE y == [type |-> "error", status |-> s.error]
             z == [type |-> "message", content |-> s.content, finish |-> s.finish, usage |-> s.counted]
             xx == [told |-> s.adapted, frame |-> y]
             xz == [told |-> s.adapted, frame |-> z]
  <2>1. xx.told = s.adapted /\ xx.frame = y /\ xz.told = s.adapted /\ xz.frame = z /\ y.type = "error" /\ z.type = "message"
    OBVIOUS
  <2>2. (s.error = 0 => t.out = Append(<<>>, xz)) /\ (s.error # 0 => t.out = Append(<<>>, xx))
    BY <1>1, <1>6, MessageEnded
  <2> HIDE DEF xx, xz, y
  <2>3. CASE s.error = 0
    BY <2>1, <2>2, <2>3
  <2>4. CASE s.error # 0
    BY <2>1, <2>2, <2>4
  <2> QED  BY <2>3, <2>4
<1> HIDE DEF t, f, fs, gs
<1>7. /\ t.slots = s.slots /\ t.content = s.content /\ t.finish = s.finish /\ t.stash = s.stash
      /\ t.counted = s.counted /\ t.blocks = s.blocks /\ t.error = s.error
      /\ t.answer = s.answer /\ t.dialect = s.dialect /\ t.stream = s.stream /\ t.adapted = s.adapted /\ IsEncoder(t)
  BY <1>2 DEF Only, Fields
<1>8. /\ t.dialect = "messages" /\ t.blocks = <<>> /\ t.stash = {} /\ t.error \in {0} \cup Codes
      /\ \A n \in 1..Len(t.content) : IsIdOf(t.answer, t.content[n].id)
  BY <1>1, <1>7 DEF MessagesKeeps, Fails
<1>9. ASSUME s.stream
      PROVE  /\ MessagesGrammar(fs) /\ ~ HasFrame(fs, "message_stop") /\ (Sound(fs) <=> c.started)
             /\ HasFrame(fs, "message_delta") <=> c.done
             /\ OpenedIn(fs) \subseteq DOMAIN NativeSlots(s) \cup ClosedIn(fs)
             /\ Gathering(s, Gathered("messages", fs), c)
  BY <1>1, <1>9 DEF MessagesSays
<1>10. ASSUME s.stream, s.error # 0
       PROVE  IsSeq(gs) /\ gs # <<>> /\ Announces(t, gs) /\ Fails(t, gs) /\ MessagesGrammar(gs)
  <2>1. gs = fs /\ t = s
    BY <1>2, <1>5, <1>10
  <2>2. HasFrame(fs, "error")
    BY <1>1, <1>10 DEF Fails
  <2>3. fs # <<>>
    BY <2>2, EmptyIsSeq DEF HasFrame
  <2>4. IsSeq(fs) /\ Announces(s, fs) /\ Fails(s, fs) /\ MessagesGrammar(fs)
    BY <1>1, <1>9, <1>10
  <2> QED  BY <2>1, <2>3, <2>4, Zenon
<1>11. ASSUME s.stream, s.error = 0
       PROVE  /\ IsSeq(gs) /\ gs # <<>> /\ Announces(t, gs) /\ Fails(t, gs) /\ MessagesGrammar(gs)
              /\ Gathered("messages", gs).content = t.content /\ Gathered("messages", gs).finish = t.finish
              /\ Gathered("messages", gs).type = "message"
              /\ t.answer.provider = "openai" \/ Gathered("messages", gs).usage = t.counted
              /\ gs[Len(gs)].frame.type = "message_stop"
  <2> DEFINE x == Said(s, f)
  <2>1. gs = Append(fs, x) /\ gs = Adds(s, fs, f) /\ x.frame = f
    BY <1>4, <1>11 DEF Said
  <2> HIDE DEF x
  <2>2. IsSeq(gs) /\ gs # <<>> /\ gs[Len(gs)].frame = f
    <3>1. /\ IsSeq(Append(fs, x)) /\ Len(Append(fs, x)) = Len(fs) + 1 /\ Append(fs, x)[Len(fs) + 1] = x
          /\ Append(fs, x) # <<>>
      BY <1>1, AppendIs
    <3> QED  BY <2>1, <3>1
  <2>3. Announces(t, gs)
    BY <1>1, <1>2, <1>7, <1>11, <2>1, AnnouncesMore
  <2>4. \A y : HasFrame(gs, y) <=> HasFrame(fs, y) \/ f.type = y
    <3>1. \A y : HasFrame(Append(fs, x), y) <=> HasFrame(fs, y) \/ x.frame.type = y
      BY <1>1, FrameAdded
    <3> QED  BY <2>1, <3>1
  <2>5. Fails(t, gs)
    BY <1>1, <1>3, <1>7, <2>4 DEF Fails
  <2>6. c.done /\ c.started /\ c.open = {} /\ ~ HasFrame(fs, "error")
    BY <1>1, <1>11 DEF May, Fails, IsKnown
  <2>7. OpenedIn(fs) \subseteq ClosedIn(fs)
    <3>1. DOMAIN NativeSlots(s) = {}
      BY <1>1, <2>6, SlotsAre
    <3> QED  BY <1>9, <1>11, <3>1
  <2>8. MessagesGrammar(gs)
    <3>1. MessagesGrammar(fs) /\ ~ HasFrame(fs, "message_stop") /\ Sound(fs) /\ HasFrame(fs, "message_delta")
      BY <1>9, <1>11, <2>6
    <3>2. MessagesGrammar(Append(fs, x))
      BY <1>1, <1>3, <2>1, <2>6, <2>7, <3>1, MessagesMore
    <3> QED  BY <2>1, <3>2
  <2> DEFINE b == Gathered("messages", fs)
             o == NativeSlots(s)
             n == s.content
             v == s.finish
             u == b.usage
  <2>9. b = Message(o, n, v, u) /\ (t.answer.provider = "openai" \/ u = t.counted)
    BY <1>7, <1>9, <1>11, <2>6 DEF Gathering
  <2>10. Gathered("messages", gs) = GatherMessages(b, f)
    <3>1. Gathered("messages", Append(fs, x)) = Gather("messages", b, x.frame)
      BY <1>1, GatheredMore
    <3> QED  BY <2>1, <3>1 DEF Gather
  <2>11. n = t.content /\ v = t.finish
    BY <1>7
  <2> HIDE DEF b, o, n, v, u
  <2>12. Gathered("messages", gs) = Message(o, n, v, u)
    <3>1. GatherMessages(Message(o, n, v, u), f) = Message(o, n, v, u)
      BY <1>3, NoneGathered
    <3>2. b = Message(o, n, v, u)
      BY <2>9
    <3> QED  BY <2>10, <3>1, <3>2, Zenon
  <2>13. /\ Message(o, n, v, u).content = n /\ Message(o, n, v, u).finish = v
         /\ Message(o, n, v, u).type = "message" /\ Message(o, n, v, u).usage = u
    BY DEF Message
  <2> QED  BY <1>3, <2>2, <2>3, <2>5, <2>8, <2>9, <2>11, <2>12, <2>13
<1>12. Ends(t, gs)
  <2>1. t.dialect # "chat"
    BY <1>8
  <2> QED  BY <1>6, <1>7, <1>8, <1>10, <1>11, <2>1 DEF Ends
<1>13. MessagesEnds(t, gs)
  BY <1>7, <1>8, <1>10, <1>11, <1>12 DEF MessagesEnds
<1> QED  BY <1>13 DEF t, gs


(***************************************************************************)
(* Either dialect.                                                         *)
(***************************************************************************)
Runs(s, fs, c) == IF s.dialect = "chat" THEN ChatRuns(s, fs, c) ELSE MessagesRuns(s, fs, c)
Finished(s, fs) == IF s.dialect = "chat" THEN ChatEnds(s, fs) ELSE MessagesEnds(s, fs)
Emptied(s) == [s EXCEPT !.out = <<>>]

LEMMA EmptiedIs ==
    ASSUME NEW s, IsEncoder(s)
    PROVE  Only(s, Emptied(s), {"out"}) /\ Emptied(s).out = <<>>
BY EmptyIsSeq DEF IsEncoder, Only, Emptied, Fields

LEMMA RunsAre ==
    ASSUME NEW s, NEW fs, NEW c, Runs(s, fs, c)
    PROVE  Tracks(s, fs, c) /\ IsEncoder(s) /\ IsSeq(fs) /\ s.stash = {}
BY DEF Runs, ChatRuns, MessagesRuns, Tracks, ChatKeeps, MessagesKeeps

\* It does not matter what an encoder put out last.
LEMMA RunsEmptied ==
    ASSUME NEW s, NEW fs, NEW c, Runs(s, fs, c)
    PROVE  Runs(Emptied(s), fs, c)
<1> DEFINE t == Emptied(s)
<1>1. IsEncoder(s)
  BY RunsAre
<1>2. Only(s, t, {"out"})
  BY <1>1, EmptiedIs
<1> HIDE DEF t
<1>3. /\ t.slots = s.slots /\ t.tools = s.tools /\ t.text = s.text /\ t.finish = s.finish /\ t.refusal = s.refusal
      /\ t.counted = s.counted /\ t.include_usage = s.include_usage /\ t.blocks = s.blocks
      /\ t.answer = s.answer /\ t.dialect = s.dialect /\ t.stash = s.stash /\ t.stream = s.stream
      /\ t.error = s.error /\ t.adapted = s.adapted /\ t.pending = s.pending /\ t.content = s.content
  BY <1>2 DEF Only, Fields
<1>4. Tracks(t, fs, c)
  <2>1. Tracks(s, fs, c)
    BY RunsAre
  <2> QED  BY <1>2, <1>3, <2>1 DEF Tracks, Announces, Fails, Only
<1>5. ASSUME s.dialect = "chat" PROVE ChatRuns(t, fs, c)
  <2>1. ChatKeeps(s) /\ (s.stream => ChatSays(s, fs, c))
    BY <1>5 DEF Runs, ChatRuns
  <2>2. ChatKeeps(t)
    BY <1>3, <2>1 DEF ChatKeeps, HasCall
  <2>3. GatheredChat(t) = GatheredChat(s)
    BY <1>3 DEF GatheredChat, GatheredCalls
  <2>4. s.stream => ChatSays(t, fs, c)
    BY <1>3, <2>1, <2>3 DEF ChatSays
  <2> QED  BY <1>3, <1>4, <2>2, <2>4 DEF ChatRuns
<1>6. ASSUME s.dialect # "chat" PROVE MessagesRuns(t, fs, c)
  <2>1. MessagesKeeps(s) /\ (s.stream => MessagesSays(s, fs, c))
    BY <1>6 DEF Runs, MessagesRuns
  <2>2. MessagesKeeps(t) /\ NativeSlots(t) = NativeSlots(s)
    BY <1>3, <2>1 DEF MessagesKeeps, NativeSlots
  <2>3. \A b : Gathering(s, b, c) => Gathering(t, b, c)
    BY <1>3, <2>2 DEF Gathering
  <2>4. s.stream => MessagesSays(t, fs, c)
    BY <2>1, <2>2, <2>3 DEF MessagesSays
  <2> QED  BY <1>3, <1>4, <2>2, <2>4 DEF MessagesRuns
<1>7. Runs(t, fs, c)
  BY <1>3, <1>5, <1>6 DEF Runs
<1> QED  BY <1>7 DEF t

\* OpenAI apart, what is left of an answer counts before the verdict.
Counts(q, s, c) ==
    s.answer.provider # "openai" =>
        \A n \in 1..Len(q) : q[n].type = "Usage" => ~ c.done /\ Before(q, n, "Finish") = {}

LEMMA CountsNow ==
    ASSUME NEW q, NEW s, NEW c, Follows(q, c), Counts(q, s, c)
    PROVE  InTime(s, c, Head(q))
<1>1. 1 \in 1..Len(q) /\ Head(q) = q[1]
  BY TailIs DEF Follows
<1> QED  BY <1>1 DEF Counts, InTime

LEMMA CountsLater ==
    ASSUME NEW q, NEW s, NEW c, Follows(q, c), Counts(q, s, c), NEW t, t.answer = s.answer
    PROVE  Counts(Tail(q), t, Knows(c, Head(q)))
<1> DEFINE r == Tail(q)
           h == Head(q)
           d == Knows(c, h)
<1>1. /\ 1 \in 1..Len(q) /\ h = q[1] /\ Len(r) = Len(q) - 1 /\ Len(q) \in Nat
      /\ \A n \in 1..Len(r) : r[n] = q[n + 1] /\ n + 1 \in 1..Len(q)
  BY TailIs, SeqIs DEF Follows
<1>2. d.done = (c.done \/ h.type = "Finish")
  BY DEF Knows
<1> HIDE DEF r, h, d
<1>3. ASSUME s.answer.provider # "openai", NEW n \in 1..Len(r), r[n].type = "Usage"
      PROVE  ~ d.done /\ Before(r, n, "Finish") = {}
  <2>1. n + 1 \in 1..Len(q) /\ q[n + 1].type = "Usage" /\ n \in Nat
    BY <1>1, <1>3
  <2>2. ~ c.done /\ Before(q, n + 1, "Finish") = {}
    BY <1>3, <2>1 DEF Counts
  <2>3. h.type # "Finish"
    BY <1>1, <2>1, <2>2 DEF Before
  <2>4. \A m \in Before(r, n, "Finish") : m + 1 \in Before(q, n + 1, "Finish")
    <3> SUFFICES ASSUME NEW m \in Before(r, n, "Finish") PROVE m + 1 \in Before(q, n + 1, "Finish")
      OBVIOUS
    <3>1. m \in 1..(n - 1) /\ r[m].type = "Finish" /\ m \in 1..Len(r)
      BY <1>1, <2>1 DEF Before
    <3> QED  BY <1>1, <2>1, <3>1 DEF Before
  <2> QED  BY <1>2, <2>2, <2>3, <2>4
<1>4. Counts(r, t, d)
  BY <1>3 DEF Counts
<1> QED  BY <1>4 DEF r, h, d

\* What an encoder never changes.
Given == {"dialect", "answer", "stream", "include_usage", "adapted"}
Same(s, t) == IsEncoder(t) /\ \A x \in Given : t[x] = s[x]

LEMMA OnlyIsSame ==
    ASSUME NEW s, NEW t, NEW F, Only(s, t, F), F \cap Given = {}
    PROVE  Same(s, t)
<1>1. Given \subseteq Fields
  BY DEF Given, Fields
<1> QED  BY <1>1 DEF Only, Same

LEMMA ChatSame ==
    ASSUME NEW s, IsEncoder(s), \A i \in DOMAIN s.slots : s.slots[i].type = "Tool" => HasCall(s, i), NEW e \in Event
    PROVE  Same(s, ChatEncode(e, s)) /\ (e.type # "Error" => ChatEncode(e, s).error = s.error)
<1> DEFINE t == ChatEncode(e, s)
           Still(F) == F \cap Given = {} /\ "error" \notin F
<1>1. ASSUME NEW F, Only(s, t, F), Still(F) PROVE Same(s, t) /\ t.error = s.error
  <2>1. "error" \in Fields
    BY DEF Fields
  <2> HIDE DEF t
  <2> QED  BY <1>1, <2>1, OnlyIsSame DEF Only
<1>2. /\ Still({"out", "pending"}) /\ Still({"slots", "tools", "out", "pending"}) /\ Still({"slots", "blocks"})
      /\ Still({"text", "out", "pending"}) /\ Still({"tools", "out", "pending"}) /\ Still({"tools"}) /\ Still({"slots"})
      /\ Still({"counted", "out", "pending"}) /\ Still({"stash", "out", "pending"})
  BY DEF Given
<1>3. Same(s, s)
  BY DEF Same
<1> HIDE DEF Still
<1>4. CASE e.type = "MessageStart"
  BY <1>1, <1>2, <1>4, RoleTold
<1>5. CASE e.type = "ContentStart" /\ e.kind = "ToolUse"
  BY <1>1, <1>2, <1>5, CallTold
<1>6. CASE e.type = "ContentStart" /\ e.kind # "ToolUse"
  BY <1>1, <1>2, <1>6, BlockTold
<1>7. CASE e.type = "ContentDelta"
  <2>1. Routes(s, e.index, {"Tool"}) => HasCall(s, e.index)
    BY DEF Routes
  <2>2. CASE Routes(s, e.index, {"Text"}) /\ e.delta = "TextDelta"
    BY <1>1, <1>2, <1>7, <2>2, TextTold
  <2>3. CASE Routes(s, e.index, {"Tool"}) /\ e.delta = "JsonDelta"
    BY <1>1, <1>2, <1>7, <2>1, <2>3, ArgsTold
  <2>4. CASE Routes(s, e.index, {"Tool"}) /\ e.delta = "SignatureDelta"
    BY <1>1, <1>2, <1>7, <2>1, <2>4, SignatureTold
  <2>5. CASE ~ (Routes(s, e.index, {"Text"}) /\ e.delta = "TextDelta")
             /\ ~ (Routes(s, e.index, {"Tool"}) /\ e.delta \in {"JsonDelta", "SignatureDelta"})
    <3>1. t = s \/ Only(s, t, {"slots"})
      BY <1>7, <2>5, OtherFragment
    <3> HIDE DEF t
    <3>2. CASE t = s
      <4>1. Same(s, t) /\ t.error = s.error
        BY <1>3, <3>2
      <4> QED  BY <4>1 DEF t
    <3>3. CASE Only(s, t, {"slots"})
      <4>1. Same(s, t) /\ t.error = s.error
        BY <1>1, <1>2, <3>3 DEF t
      <4> QED  BY <4>1 DEF t
    <3> QED  BY <3>1, <3>2, <3>3
  <2> QED  BY <2>2, <2>3, <2>4, <2>5
<1>8. CASE e.type = "ContentStop"
  <2>1. Routes(s, e.index, {"Tool"}) => HasCall(s, e.index)
    BY DEF Routes
  <2> QED  BY <1>1, <1>2, <1>8, <2>1, BlockClosed
<1>9. CASE e.type = "Usage"
  BY <1>1, <1>2, <1>9, UsageTold
<1>10. CASE e.type = "Finish"
  <2>1. PICK r : t \in {Closed(s, r), Closed(Refused(s), r)}
    BY <1>10, VerdictIs
  <2>2. Only(s, Refused(s), {"refusal", "out", "pending"}) /\ IsEncoder(Refused(s))
    BY RefusalTold DEF Only
  <2>3. Only(s, Closed(s, r), {"finish", "out", "pending"})
        /\ Only(Refused(s), Closed(Refused(s), r), {"finish", "out", "pending"})
    BY <2>2, FinishTold
  <2> DEFINE F == {"refusal", "finish", "out", "pending"}
  <2>4. Only(s, t, F)
    BY <2>1, <2>2, <2>3 DEF Only
  <2>5. Still(F)
    BY DEF Still, Given
  <2> QED  BY <1>1, <2>4, <2>5
<1>11. CASE e.type = "Error"
  <2>1. Only(s, t, {"error", "out", "pending"})
    BY <1>11, ErrorTold DEF ChatEncode
  <2>2. {"error", "out", "pending"} \cap Given = {}
    BY DEF Given
  <2> QED  BY <1>11, <2>1, <2>2, OnlyIsSame
<1>12. CASE e.type = "End"
  BY <1>1, <1>2, <1>12, ChatEnded
<1>13. e.type \in {"MessageStart", "ContentStart", "ContentDelta", "ContentStop", "Usage", "Finish", "Error", "End"}
  BY DEF Event
<1> QED  BY <1>4, <1>5, <1>6, <1>7, <1>8, <1>9, <1>10, <1>11, <1>12, <1>13

LEMMA MessagesSame ==
    ASSUME NEW s, IsEncoder(s), NEW e \in Event
    PROVE  Same(s, MessagesEncode(e, s)) /\ (e.type # "Error" => MessagesEncode(e, s).error = s.error)
<1> DEFINE t == MessagesEncode(e, s)
           Still(F) == F \cap Given = {} /\ "error" \notin F
<1>1. ASSUME NEW F, Only(s, t, F), Still(F) PROVE Same(s, t) /\ t.error = s.error
  <2>1. "error" \in Fields
    BY DEF Fields
  <2> HIDE DEF t
  <2> QED  BY <1>1, <2>1, OnlyIsSame DEF Only
<1>2. /\ Still({"out", "pending"}) /\ Still({"slots", "out", "pending"}) /\ Still({"slots"}) /\ Still({"counted"})
      /\ Still({"slots", "content", "out", "pending"}) /\ Still({"finish", "out", "pending"})
  BY DEF Given
<1>3. Same(s, s)
  BY DEF Same
<1> HIDE DEF Still
<1>4. CASE e.type = "MessageStart"
  BY <1>1, <1>2, <1>4, MessageTold
<1>5. CASE e.type = "ContentStart"
  BY <1>1, <1>2, <1>5, NativeTold, OtherStarted
<1>6. CASE e.type = "ContentDelta"
  <2>1. CASE Routes(s, e.index, Holders(e.delta))
    BY <1>1, <1>2, <1>6, <2>1, FragmentTold
  <2>2. CASE ~ Routes(s, e.index, Holders(e.delta))
    BY <1>3, <1>6, <2>2, FragmentLost
  <2> QED  BY <2>1, <2>2
<1>7. CASE e.type = "ContentStop"
  BY <1>1, <1>2, <1>7, StopTold, OtherStopped
<1>8. CASE e.type = "Usage"
  BY <1>1, <1>2, <1>8, Counted
<1>9. CASE e.type = "Finish"
  BY <1>1, <1>2, <1>9, DeltaTold
<1>10. CASE e.type = "Error"
  <2>1. Only(s, t, {"error", "out", "pending"})
    BY <1>10, ErrorTold DEF MessagesEncode
  <2>2. {"error", "out", "pending"} \cap Given = {}
    BY DEF Given
  <2> QED  BY <1>10, <2>1, <2>2, OnlyIsSame
<1>11. CASE e.type = "End"
  BY <1>1, <1>2, <1>11, MessageEnded
<1>12. e.type \in {"MessageStart", "ContentStart", "ContentDelta", "ContentStop", "Usage", "Finish", "Error", "End"}
  BY DEF Event
<1> QED  BY <1>4, <1>5, <1>6, <1>7, <1>8, <1>9, <1>10, <1>11, <1>12

LEMMA EncodeSame ==
    ASSUME NEW fs, NEW s, NEW c, Runs(s, fs, c), NEW e \in Event
    PROVE  LET t == EncodeResponse(e, Emptied(s))
           IN  Same(s, t) /\ (e.type # "Error" => t.error = s.error)
<1> DEFINE z == Emptied(s)
           t == EncodeResponse(e, z)
<1>1. IsEncoder(s)
  BY RunsAre
<1>2. Only(s, z, {"out"}) /\ Runs(z, fs, c)
  BY <1>1, EmptiedIs, RunsEmptied
<1>3. IsEncoder(z) /\ z.error = s.error /\ \A x \in Given : z[x] = s[x]
  BY <1>2 DEF Only, Fields, Given
<1> HIDE DEF z
<1>4. ASSUME z.dialect = "chat" PROVE Same(z, t) /\ (e.type # "Error" => t.error = z.error)
  <2>1. \A i \in DOMAIN z.slots : z.slots[i].type = "Tool" => HasCall(z, i)
    BY <1>2, <1>4 DEF Runs, ChatRuns, ChatKeeps
  <2>2. t = ChatEncode(e, z)
    BY <1>4 DEF EncodeResponse
  <2> QED  BY <1>3, <2>1, <2>2, ChatSame
<1>5. ASSUME z.dialect # "chat" PROVE Same(z, t) /\ (e.type # "Error" => t.error = z.error)
  <2>1. t = MessagesEncode(e, z)
    BY <1>5 DEF EncodeResponse
  <2> QED  BY <1>3, <2>1, MessagesSame
<1> HIDE DEF t
<1>6. Same(s, t) /\ (e.type # "Error" => t.error = s.error)
  BY <1>3, <1>4, <1>5 DEF Same
<1> QED  BY <1>6 DEF t, z

\* One event, in either dialect.
LEMMA EventRuns ==
    ASSUME NEW fs, NEW s, NEW c, Runs(s, fs, c),
           NEW e, e \in Event, May(c, e), e.type # "End", InTime(s, c, e)
    PROVE  LET t == EncodeResponse(e, Emptied(s)) IN Runs(t, fs \o t.out, Knows(c, e))
<1> DEFINE z == Emptied(s)
           t == EncodeResponse(e, z)
<1>1. IsEncoder(s) /\ IsSeq(fs)
  BY RunsAre
<1>2. Only(s, z, {"out"}) /\ z.out = <<>> /\ Runs(z, fs, c)
  BY <1>1, EmptiedIs, RunsEmptied
<1> HIDE DEF z
<1>3. fs \o z.out = fs /\ z.answer = s.answer /\ InTime(z, c, e)
  BY <1>1, <1>2, SeqIs DEF Only, Fields, InTime
<1>4. ASSUME z.dialect = "chat" PROVE Runs(t, fs \o t.out, Knows(c, e))
  <2>1. ChatRuns(z, fs \o z.out, c)
    BY <1>2, <1>3, <1>4 DEF Runs
  <2>2. ChatRuns(ChatEncode(e, z), fs \o ChatEncode(e, z).out, Knows(c, e))
    BY <1>1, <2>1, ChatEvent
  <2>3. t = ChatEncode(e, z)
    BY <1>4 DEF EncodeResponse
  <2> HIDE DEF t
  <2>4. t.dialect = "chat"
    BY <2>2, <2>3 DEF ChatRuns, ChatKeeps
  <2> QED  BY <2>2, <2>3, <2>4 DEF Runs
<1>5. ASSUME z.dialect # "chat" PROVE Runs(t, fs \o t.out, Knows(c, e))
  <2>1. MessagesRuns(z, fs \o z.out, c)
    BY <1>2, <1>3, <1>5 DEF Runs
  <2>2. MessagesRuns(MessagesEncode(e, z), fs \o MessagesEncode(e, z).out, Knows(c, e))
    BY <1>1, <1>3, <2>1, MessagesEvent
  <2>3. t = MessagesEncode(e, z)
    BY <1>5 DEF EncodeResponse
  <2> HIDE DEF t
  <2>4. t.dialect # "chat"
    BY <2>2, <2>3 DEF MessagesRuns, MessagesKeeps
  <2> QED  BY <2>2, <2>3, <2>4 DEF Runs
<1>6. Runs(t, fs \o t.out, Knows(c, e))
  BY <1>4, <1>5
<1> QED  BY <1>6 DEF t, z

(***************************************************************************)
(* A response while it is written.                                         *)
(***************************************************************************)
\* The head of a streamed response tells what its first frame is.
Headed(w) == w.head = "sse" /\ (w.status # 200 <=> w.frames[1].frame.type = "error")

\* The response w, once what the encoder t put out is written.
Writes(w, t) ==
    IF ~ t.stream \/ t.out = <<>> THEN w
    ELSE [head |-> "sse", status |-> IF w.head = "none" THEN StatusOf(t) ELSE w.status,
          frames |-> w.frames \o t.out, over |-> t.out[Len(t.out)].frame.type = Closing(t.dialect)]

\* q is left of an answer.  The encoder is s, the exit code x and the response w.
Telling(q, s, x, w) ==
    /\ x # 0 <=> s.error # 0
    /\ IF w.frames = <<>> THEN w = Nothing ELSE Headed(w)
    /\ \E c : Follows(q, c) /\ Counts(q, s, c) /\ Runs(s, w.frames, c)

\* Nothing is left.
ToldAll(s, x, w) ==
    /\ x # 0 <=> s.error # 0
    /\ IF s.stream THEN Headed(w) ELSE w = Nothing
    /\ Finished(s, w.frames)

LEMMA EmptyConcat ==
    ASSUME NEW q, IsSeq(q)
    PROVE  <<>> \o q = q
<1>1. PICK S : q \in Seq(S)
  BY DEF IsSeq
<1> QED  BY <1>1

LEMMA ExitsAre == \A k \in ErrorKinds : ExitOf[k] # 0
BY DEF ExitOf, ErrorKinds

LEMMA FirstFrame ==
    ASSUME NEW s, NEW c, Runs(s, <<>>, c), s.stream,
           NEW e, e \in Event, May(c, e), e.type # "End", InTime(s, c, e),
           NEW t, t = EncodeResponse(e, Emptied(s)), t.out # <<>>
    PROVE  StatusOf(t) # 200 <=> t.out[1].frame.type = "error"
<1>1. IsEncoder(s) /\ Fails(s, <<>>) /\ IsEncoder(Emptied(s)) /\ Emptied(s).out = <<>> /\ Emptied(s).stream
  <2>1. IsEncoder(s) /\ Tracks(s, <<>>, c)
    BY RunsAre
  <2> QED  BY <2>1, EmptiedIs DEF Tracks, Only, Fields
<1>2. s.error = 0
  BY <1>1, EmptyIsSeq DEF Fails, HasFrame
<1>3. Runs(t, <<>> \o t.out, Knows(c, e))
  BY EventRuns
<1>4. Same(s, t) /\ (e.type # "Error" => t.error = s.error)
  BY EncodeSame
<1>5. IsSeq(t.out) /\ t.stream /\ 1 \in 1..Len(t.out)
  <2>1. IsSeq(t.out) /\ t.stream
    BY <1>4 DEF Same, Given, IsEncoder
  <2> QED  BY <2>1, TailIs
<1>6. Fails(t, t.out)
  <2>1. <<>> \o t.out = t.out
    BY <1>5, EmptyConcat
  <2> QED  BY <1>3, <2>1, RunsAre DEF Tracks
<1>7. CASE e.type # "Error"
  BY <1>2, <1>4, <1>5, <1>6, <1>7 DEF Fails, HasFrame, StatusOf
<1>8. CASE e.type = "Error"
  <2> DEFINE z == Emptied(s)
             f == [type |-> "error", status |-> t.error]
             x == Said(z, f)
  <2>1. t = ErrorFrame(e, z)
    BY <1>8 DEF EncodeResponse, ChatEncode, MessagesEncode
  <2>2. t.error \in Codes /\ Tells(z, t, f)
    BY <1>1, <1>8, <2>1, ErrorTold
  <2>3. t.out = Append(<<>>, x) /\ x.frame = f /\ f.type = "error"
    BY <1>1, <2>2 DEF Tells, Said
  <2> HIDE DEF z, f, x
  <2>4. Append(<<>>, x)[1] = x
    BY EmptyIsSeq, AppendIs
  <2>5. StatusOf(t) # 200
    BY <2>2, CodesAre DEF StatusOf
  <2> QED  BY <2>3, <2>4, <2>5
<1> QED  BY <1>7, <1>8

LEMMA FirstOf ==
    ASSUME NEW q, IsSeq(q), q # <<>>, NEW r, IsSeq(r)
    PROVE  (q \o r)[1] = q[1] /\ q \o r # <<>>
<1>1. PICK S : q \in Seq(S)
  BY DEF IsSeq
<1>2. PICK T : r \in Seq(T)
  BY DEF IsSeq
<1>3. q \in Seq(S \cup T) /\ r \in Seq(S \cup T)
  BY <1>1, <1>2
<1> QED  BY <1>3

\* An event is told.
LEMMA EventTold ==
    ASSUME NEW q, NEW s, NEW x, NEW w, Telling(q, s, x, w), NEW e, e = Head(q), e.type # "End",
           NEW t, t = EncodeResponse(e, Emptied(s)),
           NEW y, y = (IF e.type = "Error" THEN ExitOf[e.kind] ELSE x)
    PROVE  Telling(Tail(q), t, y, Writes(w, t))
<1>1. PICK c : Follows(q, c) /\ Counts(q, s, c) /\ Runs(s, w.frames, c)
  BY DEF Telling
<1> DEFINE fs == w.frames
           d == Knows(c, e)
           v == Writes(w, t)
<1>2. e \in Event /\ May(c, e) /\ InTime(s, c, e)
  BY <1>1, HeadMay, CountsNow
<1>3. Runs(t, fs \o t.out, d) /\ Same(s, t) /\ (e.type # "Error" => t.error = s.error)
  BY <1>1, <1>2, EventRuns, EncodeSame
<1>4. Follows(Tail(q), d)
  BY <1>1, TailFollows
<1>5. t.answer = s.answer /\ t.stream = s.stream /\ IsSeq(t.out) /\ IsSeq(fs)
  BY <1>1, <1>3, RunsAre DEF Same, Given, IsEncoder
<1>6. Counts(Tail(q), t, d)
  BY <1>1, <1>5, CountsLater
<1>7. y # 0 <=> t.error # 0
  <2>1. CASE e.type # "Error"
    BY <1>3, <2>1 DEF Telling
  <2>2. CASE e.type = "Error"
    <3>1. e.kind \in ErrorKinds
      BY <1>2, <2>2 DEF Event
    <3>2. d.failed /\ (t.error # 0 <=> d.failed)
      BY <1>3, <2>2, RunsAre DEF Tracks, Knows
    <3> QED  BY <2>2, <3>1, <3>2, ExitsAre
  <2> QED  BY <2>1, <2>2
<1>8. CASE ~ t.stream
  <2>1. fs = <<>> /\ fs \o t.out = <<>>
    BY <1>1, <1>3, <1>5, <1>8, RunsAre DEF Tracks
  <2>2. v = w
    BY <1>8 DEF Writes
  <2> HIDE DEF v
  <2>3. Telling(Tail(q), t, y, w)
    BY <1>3, <1>4, <1>6, <1>7, <2>1 DEF Telling
  <2> QED  BY <2>2, <2>3 DEF v
<1>9. CASE t.stream /\ t.out = <<>>
  <2>1. fs \o t.out = fs
    BY <1>5, <1>9, SeqIs
  <2>2. v = w
    BY <1>9 DEF Writes
  <2> HIDE DEF v
  <2>3. Telling(Tail(q), t, y, w)
    BY <1>3, <1>4, <1>6, <1>7, <2>1 DEF Telling
  <2> QED  BY <2>2, <2>3 DEF v
<1>10. CASE t.stream /\ t.out # <<>>
  <2>1. /\ v.head = "sse" /\ v.frames = fs \o t.out
        /\ v.status = (IF w.head = "none" THEN StatusOf(t) ELSE w.status)
    BY <1>10 DEF Writes
  <2> HIDE DEF v
  <2>2. v.frames # <<>> /\ Headed(v)
    <3>1. CASE fs = <<>>
      <4>1. w.head = "none" /\ v.frames = t.out
        BY <1>5, <2>1, <3>1, EmptyConcat DEF Telling, Nothing
      <4>2. StatusOf(t) # 200 <=> t.out[1].frame.type = "error"
        <5>1. Runs(s, <<>>, c) /\ s.stream
          BY <1>1, <1>5, <1>10, <3>1
        <5> QED  BY <1>2, <1>10, <5>1, FirstFrame
      <4> QED  BY <1>10, <2>1, <4>1, <4>2 DEF Headed
    <3>2. CASE fs # <<>>
      <4>1. Headed(w)
        BY <3>2 DEF Telling
      <4>2. (fs \o t.out)[1] = fs[1] /\ fs \o t.out # <<>>
        BY <1>5, <3>2, FirstOf
      <4>3. w.head = "sse" /\ (w.status # 200 <=> w.frames[1].frame.type = "error")
        BY <4>1 DEF Headed
      <4>4. v.status = w.status
        BY <2>1, <4>3
      <4>5. v.frames[1] = w.frames[1] /\ v.frames # <<>>
        BY <2>1, <4>2
      <4> QED  BY <2>1, <4>3, <4>4, <4>5 DEF Headed
    <3> QED  BY <3>1, <3>2
  <2>3. Telling(Tail(q), t, y, v)
    BY <1>3, <1>4, <1>6, <1>7, <2>1, <2>2 DEF Telling
  <2> QED  BY <2>3 DEF v
<1> QED  BY <1>8, <1>9, <1>10

\* The frames are of no account in a response that is not streamed.
LEMMA FinishedWhole ==
    ASSUME NEW s, ~ s.stream, NEW fs, Finished(s, fs), NEW gs
    PROVE  Finished(s, gs)
<1>1. CASE s.dialect = "chat"
  BY <1>1 DEF Finished, ChatEnds, Ends
<1>2. CASE s.dialect # "chat"
  BY <1>2 DEF Finished, MessagesEnds, Ends
<1> QED  BY <1>1, <1>2

\* Nor is what was to be stashed, in any.
LEMMA FinishedStash ==
    ASSUME NEW s, NEW fs, Finished(s, fs), NEW z, s.dialect # "chat" => z = {}
    PROVE  Finished([s EXCEPT !.stash = z], fs)
<1> DEFINE t == [s EXCEPT !.stash = z]
<1>1. IsEncoder(s) /\ Ends(s, fs)
  BY DEF Finished, ChatEnds, MessagesEnds, Ends
<1>2. Only(s, t, {"stash"}) /\ t.stash = z
  BY <1>1 DEF IsEncoder, Only, Fields
<1> HIDE DEF t
<1>3. /\ t.tools = s.tools /\ t.text = s.text /\ t.finish = s.finish /\ t.refusal = s.refusal
      /\ t.counted = s.counted /\ t.include_usage = s.include_usage /\ t.blocks = s.blocks
      /\ t.answer = s.answer /\ t.dialect = s.dialect /\ t.stream = s.stream /\ t.out = s.out
      /\ t.error = s.error /\ t.adapted = s.adapted /\ t.pending = s.pending /\ t.content = s.content
  BY <1>2 DEF Only, Fields
<1>4. ChatBody(t) = ChatBody(s) /\ GatheredChat(t) = GatheredChat(s)
  BY <1>3 DEF ChatBody, GatheredChat, GatheredCalls
<1>5. Ends(t, fs)
  <2>1. IsEncoder(t)
    BY <1>2 DEF Only
  <2>2. Announces(t, fs) <=> Announces(s, fs)
    BY <1>3 DEF Announces
  <2>3. Fails(t, fs) <=> Fails(s, fs)
    BY <1>3 DEF Fails
  <2> QED  BY <1>1, <1>3, <1>4, <2>1, <2>2, <2>3 DEF Ends
<1>6. CASE s.dialect = "chat"
  <2>1. ChatEnds(t, fs)
    BY <1>3, <1>4, <1>5, <1>6 DEF Finished, ChatEnds, OwnBlocks
  <2> QED  BY <1>3, <1>6, <2>1 DEF Finished, t
<1>7. CASE s.dialect # "chat"
  <2>1. MessagesEnds(t, fs)
    BY <1>2, <1>3, <1>5, <1>7 DEF Finished, MessagesEnds
  <2> QED  BY <1>3, <1>7, <2>1 DEF Finished, t
<1> QED  BY <1>6, <1>7

\* The last event is told.
LEMMA EndTold ==
    ASSUME NEW q, NEW s, NEW x, NEW w, Telling(q, s, x, w), NEW e, e = Head(q), e.type = "End",
           NEW t, t = EncodeResponse(e, Emptied(s))
    PROVE  /\ ToldAll(t, x, Writes(w, t)) /\ t.answer = s.answer /\ t.stream = s.stream
           /\ t.stash = IF t.dialect = "chat" THEN Pairs(t) ELSE {}
<1>1. PICK c : Follows(q, c) /\ Counts(q, s, c) /\ Runs(s, w.frames, c)
  BY DEF Telling
<1> DEFINE fs == w.frames
           v == Writes(w, t)
           z == Emptied(s)
<1>2. e \in Event /\ May(c, e)
  BY <1>1, HeadMay
<1>3. Same(s, t) /\ t.error = s.error /\ IsEncoder(s) /\ IsSeq(fs) /\ Tracks(s, fs, c)
  BY <1>1, <1>2, EncodeSame, RunsAre
<1>4. t.answer = s.answer /\ t.stream = s.stream /\ t.dialect = s.dialect
  BY <1>3 DEF Same, Given
<1>5. Only(s, z, {"out"}) /\ z.out = <<>> /\ Runs(z, fs, c) /\ fs \o z.out = fs
  BY <1>1, <1>3, EmptiedIs, RunsEmptied, SeqIs
<1>6. z.dialect = s.dialect
  BY <1>5 DEF Only, Fields
<1> HIDE DEF z, v, fs
<1>7. Finished(t, fs \o t.out) /\ t.stash = IF t.dialect = "chat" THEN Pairs(t) ELSE {}
  <2>1. CASE s.dialect = "chat"
    <3>1. ChatRuns(z, fs \o z.out, c)
      BY <1>5, <1>6, <2>1 DEF Runs
    <3>2. t = ChatEncode(e, z)
      BY <1>6, <2>1 DEF EncodeResponse, z
    <3>3. ChatEnds(t, fs \o t.out) /\ t.stash = Pairs(t)
      BY <1>2, <1>3, <1>5, <3>1, <3>2, ChatEnding
    <3> QED  BY <1>4, <2>1, <3>3 DEF Finished
  <2>2. CASE s.dialect # "chat"
    <3>1. MessagesRuns(z, fs \o z.out, c)
      BY <1>5, <1>6, <2>2 DEF Runs
    <3>2. t = MessagesEncode(e, z)
      BY <1>6, <2>2 DEF EncodeResponse, z
    <3>3. MessagesEnds(t, fs \o t.out)
      BY <1>2, <1>3, <1>5, <3>1, <3>2, MessagesEnding
    <3> QED  BY <1>4, <2>2, <3>3 DEF Finished, MessagesEnds
  <2> QED  BY <2>1, <2>2
<1>8. x # 0 <=> t.error # 0
  BY <1>3 DEF Telling
<1>9. ToldAll(t, x, v)
  <2>1. CASE ~ t.stream
    <3>1. fs = <<>> /\ v = w
      BY <1>3, <1>4, <2>1 DEF Tracks, v, Writes
    <3>2. w = Nothing
      BY <3>1 DEF Telling, fs
    <3>3. Finished(t, v.frames)
      BY <1>7, <2>1, FinishedWhole
    <3> QED  BY <1>8, <2>1, <3>1, <3>2, <3>3 DEF ToldAll
  <2>2. CASE t.stream
    <3>1. fs # <<>>
      <4>1. c.done \/ c.failed
        BY <1>2 DEF May
      <4>2. c.failed => HasFrame(fs, "error")
        BY <1>3, <1>4, <2>2 DEF Tracks, Fails
      <4>3. c.done => HasFrame(fs, "finish") \/ HasFrame(fs, "message_delta")
        BY <1>1, <1>4, <2>2 DEF Runs, ChatRuns, MessagesRuns, ChatSays, MessagesSays, fs
      <4> QED  BY <4>1, <4>2, <4>3, EmptyIsSeq DEF HasFrame
    <3>2. Headed(w) /\ w.head = "sse"
      BY <3>1 DEF Telling, fs, Headed
    <3>3. CASE t.out = <<>>
      <4>1. fs \o t.out = fs /\ v = w
        BY <1>3, <3>3, SeqIs DEF v, Writes
      <4> QED  BY <1>7, <1>8, <2>2, <3>2, <4>1 DEF ToldAll, fs
    <3>4. CASE t.out # <<>>
      <4>1. v.head = "sse" /\ v.frames = fs \o t.out /\ v.status = w.status
        BY <2>2, <3>2, <3>4 DEF v, Writes, fs
      <4>2. (fs \o t.out)[1] = fs[1]
        <5>1. IsSeq(t.out)
          BY <1>3 DEF Same, IsEncoder
        <5> QED  BY <1>3, <3>1, <5>1, FirstOf
      <4>3. w.status # 200 <=> w.frames[1].frame.type = "error"
        BY <3>2 DEF Headed
      <4>4. v.frames[1] = w.frames[1]
        BY <4>1, <4>2 DEF fs
      <4>5. Headed(v)
        BY <4>1, <4>3, <4>4 DEF Headed
      <4> QED  BY <1>7, <1>8, <2>2, <4>1, <4>5 DEF ToldAll
    <3> QED  BY <3>3, <3>4
  <2> QED  BY <2>1, <2>2
<1> QED  BY <1>4, <1>7, <1>9 DEF v

\* What is told is well formed, whether it is all or not.
Formed(s, w) ==
    w.head = "sse" => IF s.dialect = "chat" THEN ChatGrammar(w.frames) ELSE MessagesGrammar(w.frames)

LEMMA TellingFormed ==
    ASSUME NEW q, NEW s, NEW x, NEW w, Telling(q, s, x, w)
    PROVE  Formed(s, w)
<1>1. PICK c : Runs(s, w.frames, c)
  BY DEF Telling
<1>2. CASE s.stream
  BY <1>1, <1>2 DEF Runs, ChatRuns, MessagesRuns, ChatSays, MessagesSays, Formed
<1>3. CASE ~ s.stream
  <2>1. w.frames = <<>>
    BY <1>1, <1>3, RunsAre DEF Tracks
  <2>2. w.head # "sse"
    BY <2>1 DEF Telling, Nothing
  <2> QED  BY <2>2 DEF Formed
<1> QED  BY <1>2, <1>3

LEMMA ToldFormed ==
    ASSUME NEW s, NEW x, NEW w, ToldAll(s, x, w)
    PROVE  Formed(s, w)
<1>1. CASE s.stream
  BY <1>1 DEF ToldAll, Finished, ChatEnds, MessagesEnds, Formed
<1>2. CASE ~ s.stream
  BY <1>2 DEF ToldAll, Nothing, Formed
<1> QED  BY <1>1, <1>2

(***************************************************************************)
(* What a response says when all is told.                                  *)
(***************************************************************************)
LEMMA ToldTruly ==
    ASSUME NEW s, NEW x, NEW w, ToldAll(s, x, w)
    PROVE  /\ (x # 0) = (StatusOf(s) # 200)
           /\ s.stream => (x # 0) = Failed(w) /\ (w.status # 200) = (w.frames[1].frame.type = "error")
<1>1. Ends(s, w.frames) /\ (x # 0 <=> s.error # 0)
  BY DEF ToldAll, Finished, ChatEnds, MessagesEnds
<1>2. x # 0 <=> StatusOf(s) # 200
  BY <1>1, CodesAre DEF Ends, StatusOf
<1>3. ASSUME s.stream PROVE (x # 0 <=> Failed(w)) /\ (w.status # 200 <=> w.frames[1].frame.type = "error")
  BY <1>1, <1>3 DEF Ends, Fails, HasFrame, Failed, ToldAll, Headed
<1> QED  BY <1>2, <1>3 DEF Failed

LEMMA ToldAlike ==
    ASSUME NEW s, NEW x, NEW w, ToldAll(s, x, w), s.stream, s.error = 0
    PROVE  LET a == Assembled(s.dialect, w)
           IN  IF s.dialect = "chat"
               THEN a = [ChatBody(s) EXCEPT !.usage = @ /\ s.include_usage]
               ELSE /\ a.content = s.content /\ a.finish = s.finish
                    /\ s.answer.provider = "openai" \/ a.usage = s.counted
<1> DEFINE a == Assembled(s.dialect, w)
<1>1. a = Gathered(s.dialect, w.frames)
  BY DEF ToldAll, Headed, Assembled
<1>2. Finished(s, w.frames)
  BY DEF ToldAll
<1> HIDE DEF a
<1>3. CASE s.dialect = "chat"
  <2>1. a = GatheredChat(s) /\ IsEncoder(s)
    BY <1>1, <1>2, <1>3 DEF Finished, ChatEnds, Ends
  <2>2. GatheredChat(s) = [ChatBody(s) EXCEPT !.usage = @ /\ s.include_usage]
    <3> DEFINE g == GatheredCalls(s)
               b == [type |-> "completion", text |-> s.text, refusal |-> s.refusal, tools |-> g, finish |-> s.finish,
                     usage |-> s.counted]
               u == IF s.counted /\ s.include_usage THEN TRUE ELSE FALSE
    <3>1. ChatBody(s) = b /\ GatheredChat(s) = Completion(s.text, s.refusal, g, s.finish, u)
      BY DEF ChatBody, GatheredChat, GatheredCalls
    <3>2. u = (s.counted /\ s.include_usage)
      BY <2>1 DEF IsEncoder
    <3> HIDE DEF g
    <3>3. [b EXCEPT !.usage = @ /\ s.include_usage] =
            [type |-> "completion", text |-> s.text, refusal |-> s.refusal, tools |-> g, finish |-> s.finish,
             usage |-> (s.counted /\ s.include_usage)]
      OBVIOUS
    <3> HIDE DEF u, b
    <3>4. GatheredChat(s) = [type |-> "completion", text |-> s.text, refusal |-> s.refusal, tools |-> g,
                             finish |-> s.finish, usage |-> u]
      BY <3>1 DEF Completion
    <3>5. [ChatBody(s) EXCEPT !.usage = @ /\ s.include_usage] = [b EXCEPT !.usage = @ /\ s.include_usage]
      BY <3>1
    <3> QED  BY <3>2, <3>3, <3>4, <3>5
  <2> QED  BY <1>3, <2>1, <2>2 DEF a
<1>4. CASE s.dialect # "chat"
  <2>1. /\ a.content = s.content /\ a.finish = s.finish
        /\ s.answer.provider = "openai" \/ a.usage = s.counted
    BY <1>1, <1>2, <1>4 DEF Finished, MessagesEnds
  <2> QED  BY <1>4, <2>1 DEF a
<1> QED  BY <1>3, <1>4

LEMMA ToldFirst ==
    ASSUME NEW s, NEW x, NEW w, ToldAll(s, x, w)
    PROVE  /\ s.stream => {n \in 1..Len(w.frames) : w.frames[n].told} = IF s.adapted THEN {1} ELSE {}
           /\ ~ s.stream => s.out[1].told = s.adapted
<1>1. Ends(s, w.frames)
  BY DEF ToldAll, Finished, ChatEnds, MessagesEnds
<1>2. s.stream => {n \in 1..Len(w.frames) : w.frames[n].told} = IF s.adapted THEN {1} ELSE {}
  BY <1>1 DEF Ends, Announces
<1>3. ASSUME ~ s.stream PROVE s.out[1].told = s.adapted
  <2>1. PICK y : s.out = Append(<<>>, y) /\ y.told = s.adapted
    BY <1>1, <1>3 DEF Ends
  <2>2. Append(<<>>, y)[1] = y
    BY EmptyIsSeq, AppendIs
  <2> QED  BY <2>1, <2>2
<1> QED  BY <1>2, <1>3

(***************************************************************************)
(* A connection, with its request.                                         *)
(***************************************************************************)
IsResponse(w) == DOMAIN w = {"head", "status", "frames", "over"}

Connection(p, r, q, s, x, w) ==
    /\ IsResponse(w)
    /\ r # NoRequest => r.talk \in Talks /\ r.knobs \in Requests
    /\ p \in {"recall", "events", "stash"} => r # NoRequest /\ IsTurn(r)
    /\ p = "recall" \/ (p = "read" /\ r # NoRequest) => w = Nothing
    /\ p = "events" => Telling(q, s, x, w)
    /\ p = "stash" => ToldAll(s, x, w)
    /\ Formed(s, w)

Shape ==
    /\ scene \in DOMAIN Scenes
    /\ DOMAIN phase = Conns /\ DOMAIN request = Conns /\ DOMAIN events = Conns /\ DOMAIN encoder = Conns
    /\ DOMAIN exit = Conns /\ DOMAIN wire = Conns

ConnInv ==
    /\ Shape
    /\ \A k \in Conns : Connection(phase[k], request[k], events[k], encoder[k], exit[k], wire[k])

\* The functions f and g of the connections differ in k, where g is v.
Sets(f, g, k, v) == DOMAIN g = Conns /\ g[k] = v /\ \A j \in Conns \ {k} : g[j] = f[j]

LEMMA SetsOne ==
    ASSUME NEW f, DOMAIN f = Conns, NEW k \in Conns, NEW v, NEW g, g = [f EXCEPT ![k] = v]
    PROVE  Sets(f, g, k, v)
BY DEF Sets

LEMMA SetsNone ==
    ASSUME NEW f, DOMAIN f = Conns, NEW k \in Conns, NEW g, g = f
    PROVE  Sets(f, g, k, f[k])
BY DEF Sets

LEMMA ConnStep ==
    ASSUME ConnInv, NEW k \in Conns, NEW p, NEW r, NEW q, NEW s, NEW x, NEW w,
           Sets(phase, phase', k, p), Sets(request, request', k, r), Sets(events, events', k, q),
           Sets(encoder, encoder', k, s), Sets(exit, exit', k, x), Sets(wire, wire', k, w),
           scene' = scene, Connection(p, r, q, s, x, w)
    PROVE  ConnInv'
<1>1. Shape'
  BY DEF Sets, ConnInv, Shape
<1>2. ASSUME NEW j \in Conns
      PROVE  Connection(phase[j], request[j], events[j], encoder[j], exit[j], wire[j])'
  <2>1. CASE j = k
    <3>1. /\ phase'[j] = p /\ request'[j] = r /\ events'[j] = q /\ encoder'[j] = s /\ exit'[j] = x /\ wire'[j] = w
      BY <2>1 DEF Sets
    <3> QED  BY <3>1
  <2>2. CASE j # k
    <3>1. /\ phase'[j] = phase[j] /\ request'[j] = request[j] /\ events'[j] = events[j]
          /\ encoder'[j] = encoder[j] /\ exit'[j] = exit[j] /\ wire'[j] = wire[j]
      BY <2>2 DEF Sets
    <3>2. Connection(phase[j], request[j], events[j], encoder[j], exit[j], wire[j])
      BY DEF ConnInv
    <3> QED  BY <3>1, <3>2
  <2> QED  BY <2>1, <2>2
<1> QED  BY <1>1, <1>2 DEF ConnInv

LEMMA IdleConn ==
    ASSUME NEW p, p \in {"closed", "read"}, NEW q, NEW s, NEW x, NEW w, IsResponse(w), Formed(s, w)
    PROVE  Connection(p, NoRequest, q, s, x, w)
BY DEF Connection

LEMMA ServedSets ==
    ASSUME Shape, NEW k \in Conns, NEW dead, Served(k, dead)
    PROVE  \E p \in {"closed", "read"} : Sets(phase, phase', k, p) /\ Sets(request, request', k, NoRequest)
<1> DEFINE p == IF dead \/ request[k].knobs.close \/ request[k].route = "garbage" \/ Scene.filter
                THEN "closed" ELSE "read"
<1>1. phase' = [phase EXCEPT ![k] = p] /\ request' = [request EXCEPT ![k] = NoRequest]
  BY DEF Served
<1>2. p \in {"closed", "read"}
  OBVIOUS
<1> HIDE DEF p
<1> QED  BY <1>1, <1>2, SetsOne DEF Shape

LEMMA EdgeConn ==
    ASSUME ConnInv, NEW k \in Conns, NEW e, Edge(k, e)
    PROVE  ConnInv'
<1> DEFINE w == Full(HttpStatus[e], <<[told |-> FALSE, frame |-> [type |-> "error", status |-> HttpStatus[e]]]>>)
           x == ExitOf[e]
<1>1. Shape
  BY DEF ConnInv
<1>2. /\ wire' = [wire EXCEPT ![k] = w] /\ exit' = [exit EXCEPT ![k] = x]
      /\ scene' = scene /\ events' = events /\ encoder' = encoder
  BY DEF Edge
<1>3. PICK p \in {"closed", "read"} : Sets(phase, phase', k, p) /\ Sets(request, request', k, NoRequest)
  <2>1. \E dead : Served(k, dead)
    BY DEF Edge
  <2> QED  BY <1>1, <2>1, ServedSets
<1>4. IsResponse(w) /\ w.head = "full"
  BY DEF Full, IsResponse
<1> HIDE DEF w, x
<1>5. Sets(wire, wire', k, w) /\ Sets(exit, exit', k, x)
      /\ Sets(events, events', k, events[k]) /\ Sets(encoder, encoder', k, encoder[k])
  BY <1>1, <1>2, SetsOne, SetsNone DEF Shape
<1>6. Connection(p, NoRequest, events[k], encoder[k], x, w)
  BY <1>4, IdleConn DEF Formed
<1> QED  BY <1>2, <1>3, <1>5, <1>6, ConnStep

LEMMA ModelsConn ==
    ASSUME ConnInv, NEW k \in Conns, Models(k)
    PROVE  ConnInv'
<1> DEFINE w == Full(200, <<[told |-> FALSE, frame |-> [type |-> "list"]]>>)
<1>1. Shape
  BY DEF ConnInv
<1>2. /\ wire' = [wire EXCEPT ![k] = w] /\ exit' = exit /\ scene' = scene /\ events' = events /\ encoder' = encoder
  BY DEF Models
<1>3. PICK p \in {"closed", "read"} : Sets(phase, phase', k, p) /\ Sets(request, request', k, NoRequest)
  <2>1. \E dead : Served(k, dead)
    BY DEF Models
  <2> QED  BY <1>1, <2>1, ServedSets
<1>4. IsResponse(w) /\ w.head = "full"
  BY DEF Full, IsResponse
<1> HIDE DEF w
<1>5. Sets(wire, wire', k, w) /\ Sets(exit, exit', k, exit[k])
      /\ Sets(events, events', k, events[k]) /\ Sets(encoder, encoder', k, encoder[k])
  BY <1>1, <1>2, SetsOne, SetsNone DEF Shape
<1>6. Connection(p, NoRequest, events[k], encoder[k], exit[k], w)
  BY <1>4, IdleConn DEF Formed
<1> QED  BY <1>2, <1>3, <1>5, <1>6, ConnStep

LEMMA BrokenConn ==
    ASSUME ConnInv, NEW k \in Conns, Broken(k)
    PROVE  ConnInv'
<1>1. Shape /\ IsResponse(wire[k]) /\ Formed(encoder[k], wire[k])
  BY DEF ConnInv, Connection
<1>2. PICK x \in WriteExits : exit' = [exit EXCEPT ![k] = x]
  BY DEF Broken
<1>3. /\ wire' = wire /\ scene' = scene /\ events' = [events EXCEPT ![k] = <<>>] /\ encoder' = encoder
  BY DEF Broken
<1>4. PICK p \in {"closed", "read"} : Sets(phase, phase', k, p) /\ Sets(request, request', k, NoRequest)
  <2>1. \E dead : Served(k, dead)
    BY DEF Broken
  <2> QED  BY <1>1, <2>1, ServedSets
<1>5. Sets(wire, wire', k, wire[k]) /\ Sets(exit, exit', k, x)
      /\ Sets(events, events', k, <<>>) /\ Sets(encoder, encoder', k, encoder[k])
  BY <1>1, <1>2, <1>3, SetsOne, SetsNone DEF Shape
<1>6. Connection(p, NoRequest, <<>>, encoder[k], x, wire[k])
  BY <1>1, IdleConn
<1> QED  BY <1>3, <1>4, <1>5, <1>6, ConnStep

LEMMA AcceptConn ==
    ASSUME ConnInv, NEW k \in Conns, Accept(k)
    PROVE  ConnInv'
<1>1. Shape
  BY DEF ConnInv
<1>2. /\ wire' = [wire EXCEPT ![k] = Nothing] /\ exit' = exit /\ scene' = scene /\ events' = events
      /\ encoder' = encoder /\ phase' = [phase EXCEPT ![k] = "read"]
      /\ request' = [request EXCEPT ![k] = NoRequest]
  BY DEF Accept
<1>3. /\ Sets(wire, wire', k, Nothing) /\ Sets(exit, exit', k, exit[k])
      /\ Sets(events, events', k, events[k]) /\ Sets(encoder, encoder', k, encoder[k])
      /\ Sets(phase, phase', k, "read") /\ Sets(request, request', k, NoRequest)
  BY <1>1, <1>2, SetsOne, SetsNone DEF Shape
<1>4. Connection("read", NoRequest, events[k], encoder[k], exit[k], Nothing)
  BY IdleConn DEF Formed, Nothing, IsResponse
<1> QED  BY <1>2, <1>3, <1>4, ConnStep

\* Where a thread was and what it had, but for its phase.
LEMMA PhaseConn ==
    ASSUME ConnInv, NEW k \in Conns, NEW p, phase' = [phase EXCEPT ![k] = p],
           UNCHANGED <<scene, request, events, encoder, exit, wire>>,
           Connection(p, request[k], events[k], encoder[k], exit[k], wire[k])
    PROVE  ConnInv'
<1>1. Shape
  BY DEF ConnInv
<1>2. /\ wire' = wire /\ exit' = exit /\ scene' = scene /\ events' = events
      /\ encoder' = encoder /\ request' = request
  OBVIOUS
<1>3. /\ Sets(wire, wire', k, wire[k]) /\ Sets(exit, exit', k, exit[k])
      /\ Sets(events, events', k, events[k]) /\ Sets(encoder, encoder', k, encoder[k])
      /\ Sets(phase, phase', k, p) /\ Sets(request, request', k, request[k])
  BY <1>1, <1>2, SetsOne, SetsNone DEF Shape
<1> QED  BY <1>2, <1>3, ConnStep

LEMMA ReadNoneConn ==
    ASSUME ConnInv, NEW k \in Conns, ReadNone(k)
    PROVE  ConnInv'
<1>1. IsResponse(wire[k]) /\ Formed(encoder[k], wire[k]) /\ request[k] = NoRequest
  BY DEF ConnInv, Connection, ReadNone
<1>2. Connection("closed", request[k], events[k], encoder[k], exit[k], wire[k])
  BY <1>1, IdleConn
<1> QED  BY <1>2, PhaseConn DEF ReadNone

LEMMA DecodeConn ==
    ASSUME ConnInv, NEW k \in Conns, Decode(k)
    PROVE  ConnInv'
<1>1. Connection(phase[k], request[k], events[k], encoder[k], exit[k], wire[k])
  BY DEF ConnInv
<1>2. phase[k] = "read" /\ request[k] # NoRequest /\ IsTurn(request[k])
  BY DEF Decode, Admitted, Arrived
<1>3. Connection("recall", request[k], events[k], encoder[k], exit[k], wire[k])
  BY <1>1, <1>2 DEF Connection
<1> QED  BY <1>3, PhaseConn DEF Decode

LEMMA SendConn ==
    ASSUME ConnInv, NEW k \in Conns, NEW v \in Talks, NEW z \in Scene.requests[v], Send(k, v, z)
    PROVE  ConnInv'
<1> DEFINE r == [route |-> z.route, talk |-> v, number |-> asked'[v], knobs |-> z, turns |-> transcript[v]]
<1>1. Shape /\ IsResponse(wire[k]) /\ Formed(encoder[k], wire[k])
  BY DEF ConnInv, Connection
<1>2. z \in Requests
  BY <1>1, ScenesAssumption DEF Scene, Shape
<1>3. r.talk \in Talks /\ r.knobs \in Requests
  BY <1>2
<1>4. /\ request' = [request EXCEPT ![k] = r] /\ wire' = [wire EXCEPT ![k] = Nothing]
      /\ scene' = scene /\ events' = events /\ encoder' = encoder /\ exit' = exit
      /\ phase' = phase /\ phase[k] = "read"
  BY DEF Send
<1> HIDE DEF r
<1>5. /\ Sets(wire, wire', k, Nothing) /\ Sets(exit, exit', k, exit[k])
      /\ Sets(events, events', k, events[k]) /\ Sets(encoder, encoder', k, encoder[k])
      /\ Sets(phase, phase', k, phase[k]) /\ Sets(request, request', k, r)
  BY <1>1, <1>4, SetsOne, SetsNone DEF Shape
<1>6. Connection(phase[k], r, events[k], encoder[k], exit[k], Nothing)
  BY <1>3, <1>4 DEF Connection, Formed, Nothing, IsResponse
<1> QED  BY <1>4, <1>5, <1>6, ConnStep

LEMMA StillConn ==
    ASSUME ConnInv, UNCHANGED <<scene, phase, request, events, encoder, exit, wire>>
    PROVE  ConnInv'
BY DEF ConnInv, Shape

(***************************************************************************)
(* The first state of an encoder.                                          *)
(***************************************************************************)
LEMMA NothingSaid ==
    ASSUME NEW fs, fs = <<>>
    PROVE  /\ \A y : ~ HasFrame(fs, y)
           /\ ~ Sound(fs) /\ OpenedIn(fs) = {} /\ ClosedIn(fs) = {}
           /\ ChatGrammar(fs) /\ MessagesGrammar(fs) /\ Numbered(fs, 0)
<1>1. \A n : n \notin 1..Len(fs)
  BY EmptyIsSeq
<1>2. (\A y : ~ HasFrame(fs, y)) /\ ~ Sound(fs)
  BY <1>1 DEF HasFrame, Sound
<1>3. \A y : At(fs, y) = {}
  BY <1>1 DEF At
<1>4. Calls(fs) = {}
  BY <1>1 DEF Calls, FramesOf
<1>5. OpenedIn(fs) = {} /\ ClosedIn(fs) = {}
  BY <1>3 DEF OpenedIn, ClosedIn
<1>6. Cardinality({}) = 0 /\ IsFiniteSet({})
  BY FS_EmptySet
<1>10. ASSUME NEW y PROVE Cardinality(At(fs, y)) = 0
  <2>1. At(fs, y) = {} /\ Cardinality({}) = 0
    BY <1>3, <1>6
  <2> QED  BY <2>1, Zenon
<1>7. ChatGrammar(fs)
  <2>1. At(fs, "done") = {} /\ Cardinality(At(fs, "role")) <= 1 /\ Cardinality(At(fs, "finish")) <= 1
    BY <1>3, <1>10
  <2> QED  BY <1>1, <2>1 DEF ChatGrammar
<1>8. MessagesGrammar(fs)
  <2>1. /\ At(fs, "message_stop") = {}
        /\ Cardinality(At(fs, "message_start")) <= 1 /\ Cardinality(At(fs, "message_delta")) <= 1
    BY <1>3, <1>10
  <2> QED  BY <1>1, <2>1 DEF MessagesGrammar
<1>9. Numbered(fs, 0)
  BY <1>4, <1>6 DEF Numbered
<1> QED  BY <1>2, <1>5, <1>7, <1>8, <1>9

LEMMA EncoderBegins ==
    ASSUME NEW d \in {"chat", "messages"}, NEW a, NEW knobs \in Requests, NEW ad \in BOOLEAN
    PROVE  Runs(ForRequest(d, a, knobs, ad), <<>>, Fresh)
<1> DEFINE s == ForRequest(d, a, knobs, ad)
<1>1. /\ DOMAIN s = Fields /\ s.dialect = d /\ s.answer = a /\ s.stream = knobs.stream
      /\ s.pending = ad /\ s.adapted = ad /\ s.slots = EmptyFn /\ s.text = <<>>
      /\ ~ s.refusal /\ s.refusal \in BOOLEAN /\ ~ s.counted /\ s.counted \in BOOLEAN
      /\ s.include_usage = knobs.include_usage
      /\ s.tools = <<>> /\ s.finish = "none" /\ s.error = 0 /\ s.blocks = <<>>
      /\ s.stash = {} /\ s.content = <<>> /\ s.out = <<>>
  BY DEF ForRequest, Fields
<1> HIDE DEF s
<1>2. knobs.stream \in BOOLEAN /\ knobs.include_usage \in BOOLEAN
  BY DEF Requests
<1>3. IsEncoder(s)
  BY <1>1, <1>2, EmptyIsSeq DEF IsEncoder
<1>4. IsKnown(Fresh) /\ ~ Fresh.started /\ ~ Fresh.done /\ ~ Fresh.failed /\ Fresh.open = {} /\ Fresh.used = {}
  BY DEF IsKnown, Fresh
<1>5. DOMAIN s.slots = {} /\ \A n : n \notin 1..Len(<<>>)
  BY <1>1, EmptyIsSeq DEF EmptyFn
<1>6. Tracks(s, <<>>, Fresh)
  <2>1. Announces(s, <<>>)
    BY <1>1, <1>5 DEF Announces
  <2>2. Fails(s, <<>>)
    BY <1>1, NothingSaid DEF Fails
  <2> QED  BY <1>1, <1>3, <1>4, <1>5, <2>1, <2>2, EmptyIsSeq DEF Tracks
<1>7. ASSUME d = "chat" PROVE ChatRuns(s, <<>>, Fresh)
  <2>1. ChatKeeps(s)
    BY <1>1, <1>5, <1>7 DEF ChatKeeps
  <2>2. Gathered("chat", <<>>) = GatheredChat(s)
    <3>1. Gathered("chat", <<>>) = NoCompletion
      BY GatheredNone DEF NoneOf
    <3>2. GatheredCalls(s) = EmptyFn
      <4> DEFINE g == GatheredCalls(s)
      <4>1. g = [n \in DOMAIN g |-> g[n]]
        BY DEF GatheredCalls
      <4>2. DOMAIN g = {}
        BY <1>1, <1>5 DEF GatheredCalls
      <4> HIDE DEF g
      <4>3. g = [n \in {} |-> g[n]]
        BY <4>1, <4>2
      <4>4. [n \in {} |-> g[n]] = [x \in {} |-> x]
        OBVIOUS
      <4> QED  BY <4>3, <4>4 DEF EmptyFn, g
    <3>3. GatheredChat(s) = Completion(<<>>, s.refusal, EmptyFn, "none", IF s.counted /\ s.include_usage THEN TRUE ELSE FALSE)
      BY <1>1, <3>2 DEF GatheredChat
    <3>4. s.refusal = FALSE /\ (IF s.counted /\ s.include_usage THEN TRUE ELSE FALSE) = FALSE
      BY <1>1
    <3> QED  BY <3>1, <3>3, <3>4 DEF Completion, NoCompletion
  <2>3. Numbered(<<>>, Len(s.tools))
    BY <1>1, NothingSaid, EmptyIsSeq
  <2>4. ChatSays(s, <<>>, Fresh)
    <3> DEFINE fs == <<>>
    <3>1. /\ \A y : ~ HasFrame(fs, y)
          /\ ChatGrammar(fs) /\ Numbered(fs, Len(s.tools)) /\ Gathered("chat", fs) = GatheredChat(s)
      BY <2>2, <2>3, NothingSaid
    <3> HIDE DEF fs
    <3>2. ChatSays(s, fs, Fresh)
      BY <1>4, <3>1 DEF ChatSays
    <3> QED  BY <3>2 DEF fs
  <2> QED  BY <1>6, <2>1, <2>4 DEF ChatRuns
<1>8. ASSUME d = "messages" PROVE MessagesRuns(s, <<>>, Fresh)
  <2>1. MessagesKeeps(s)
    BY <1>1, <1>5, <1>8 DEF MessagesKeeps
  <2> DEFINE b == Gathered("messages", <<>>)
             o == NativeSlots(s)
  <2>2. b = NoMessage
    BY GatheredNone DEF NoneOf
  <2>3. o = EmptyFn /\ DOMAIN o = {}
    <3>1. o = [n \in DOMAIN o |-> o[n]]
      BY DEF NativeSlots
    <3>2. DOMAIN o = {}
      BY <1>5 DEF NativeSlots
    <3> HIDE DEF o
    <3>3. o = [n \in {} |-> o[n]]
      BY <3>1, <3>2
    <3>4. [n \in {} |-> o[n]] = [x \in {} |-> x]
      OBVIOUS
    <3> QED  BY <3>2, <3>3, <3>4 DEF EmptyFn
  <2> HIDE DEF b, o
  <2>4. b = Message(o, s.content, s.finish, b.usage)
    BY <1>1, <2>2, <2>3 DEF Message, NoMessage
  <2>5. MessagesSays(s, <<>>, Fresh)
    <3> DEFINE fs == <<>>
    <3>1. /\ \A y : ~ HasFrame(fs, y)
          /\ ~ Sound(fs) /\ OpenedIn(fs) = {} /\ ClosedIn(fs) = {} /\ MessagesGrammar(fs)
      BY NothingSaid
    <3>2. Gathering(s, Gathered("messages", fs), Fresh)
      BY <1>4, <2>4 DEF Gathering, b, o
    <3>3. DOMAIN NativeSlots(s) = {}
      BY <2>3 DEF o
    <3> HIDE DEF fs
    <3>4. MessagesSays(s, fs, Fresh)
      BY <1>4, <3>1, <3>2, <3>3 DEF MessagesSays
    <3> QED  BY <3>4 DEF fs
  <2> QED  BY <1>6, <2>1, <2>5 DEF MessagesRuns
<1>9. Runs(s, <<>>, Fresh)
  BY <1>1, <1>7, <1>8 DEF Runs
<1> QED  BY <1>9 DEF s

LEMMA AnswerBegins ==
    ASSUME NEW a \in Answer, IsStream(a.events), CountsInTime(a),
           NEW d \in {"chat", "messages"}, NEW n, NEW knobs \in Requests, NEW ad \in BOOLEAN
    PROVE  Telling(a.events,
                   ForRequest(d, [turn |-> n, provider |-> a.provider, text |-> a.text, explained |-> a.explained],
                              knobs, ad), 0, Nothing)
<1> DEFINE z == [turn |-> n, provider |-> a.provider, text |-> a.text, explained |-> a.explained]
           s == ForRequest(d, z, knobs, ad)
           q == a.events
<1>1. q \in Seq(Event)
  BY DEF Answer
<1>2. Follows(q, Fresh)
  BY <1>1, StreamFollows
<1>3. z.provider = a.provider
  OBVIOUS
<1> HIDE DEF z
<1>4. Runs(s, <<>>, Fresh)
  BY EncoderBegins
<1>5. s.error = 0 /\ s.answer = z
  BY DEF ForRequest
<1>6. Counts(q, s, Fresh)
  BY <1>3, <1>5 DEF CountsInTime, Counts, Fresh
<1> HIDE DEF s, q
<1>7. Telling(q, s, 0, Nothing)
  BY <1>2, <1>4, <1>5, <1>6 DEF Telling, Nothing
<1> QED  BY <1>7 DEF q, s, z

LEMMA WritesIs ==
    ASSUME NEW w, IsResponse(w), NEW t
    PROVE  IsResponse(Writes(w, t))
BY DEF IsResponse, Writes

LEMMA GenerateConn ==
    ASSUME ConnInv, NEW k \in Conns, Generate(k)
    PROVE  ConnInv'
<1> DEFINE r == request[k]
           d == IF r.route = "messages" THEN "messages" ELSE "chat"
           ad == Fired(k)
<1>1. Shape /\ Connection(phase[k], r, events[k], encoder[k], exit[k], wire[k])
  BY DEF ConnInv
<1>2. phase[k] = "recall"
  BY DEF Generate, Recalled
<1>3. r # NoRequest /\ IsTurn(r) /\ r.talk \in Talks /\ r.knobs \in Requests /\ wire[k] = Nothing
  BY <1>1, <1>2 DEF Connection
<1>4. ad \in BOOLEAN
  BY Zenon DEF Fired
<1>5. d \in {"chat", "messages"}
  OBVIOUS
<1>6. PICK a \in Answers[Scene.answers[r.talk]] :
          /\ events' = [events EXCEPT ![k] = a.events]
          /\ encoder' = [encoder EXCEPT ![k] =
                ForRequest(d, [turn |-> <<r.talk, r.number>>, provider |-> a.provider, text |-> a.text,
                               explained |-> a.explained], r.knobs, ad)]
  BY Zenon DEF Generate
<1>7. phase' = [phase EXCEPT ![k] = "events"] /\ exit' = [exit EXCEPT ![k] = 0]
      /\ wire' = wire /\ request' = request /\ scene' = scene
  BY DEF Generate
<1>8. Scene.answers[r.talk] \in DOMAIN Answers
  BY <1>1, <1>3, ScenesAssumption DEF Shape, Scene
<1>9. a \in Answer /\ IsStream(a.events) /\ CountsInTime(a)
  BY <1>8, ScenesAssumption
<1> DEFINE n == <<r.talk, r.number>>
           s == ForRequest(d, [turn |-> n, provider |-> a.provider, text |-> a.text, explained |-> a.explained],
                           r.knobs, ad)
<1>10. encoder' = [encoder EXCEPT ![k] = s]
  BY <1>6
<1> HIDE DEF r, d, ad, n
<1>11. Telling(a.events, s, 0, Nothing)
  BY <1>3, <1>4, <1>5, <1>9, AnswerBegins
<1> HIDE DEF s
<1>12. /\ Sets(wire, wire', k, wire[k]) /\ Sets(exit, exit', k, 0)
       /\ Sets(events, events', k, a.events) /\ Sets(encoder, encoder', k, s)
       /\ Sets(phase, phase', k, "events") /\ Sets(request, request', k, request[k])
  BY <1>1, <1>6, <1>7, <1>10, SetsOne, SetsNone DEF Shape
<1>13. Connection("events", r, a.events, s, 0, Nothing)
  BY <1>3, <1>11 DEF Connection, IsResponse, Nothing, Formed
<1>14. Connection("events", request[k], a.events, s, 0, wire[k])
  BY <1>3, <1>13 DEF r
<1> QED  BY <1>7, <1>12, <1>14, ConnStep

\* The first disjunct of Encode.
Encodes(k) ==
    LET e == Head(events[k])
        s == EncodeResponse(e, Emptied(encoder[k]))
    IN  /\ phase[k] = "events"
        /\ encoder' = [encoder EXCEPT ![k] = s]
        /\ events' = [events EXCEPT ![k] = Tail(events[k])]
        /\ exit' = [exit EXCEPT ![k] = IF e.type = "Error" THEN ExitOf[e.kind] ELSE exit[k]]
        /\ wire' = [wire EXCEPT ![k] = Writes(wire[k], s)]
        /\ phase' = [phase EXCEPT ![k] = IF Len(events[k]) = 1 THEN "stash" ELSE "events"]
        /\ request' = request /\ scene' = scene
        /\ ReadAnswer(k)
        /\ UNCHANGED <<listening, asked, stash, replay, gone, sent, lost, stored>>

LEMMA EncodeIs ==
    ASSUME Shape, NEW k \in Conns, Encode(k)
    PROVE  Encodes(k) \/ Broken(k)
<1> DEFINE e == Head(events[k])
           z == Emptied(encoder[k])
           s == EncodeResponse(e, z)
<1>1. /\ phase[k] = "events"
      /\ \/ /\ encoder' = [encoder EXCEPT ![k] = s]
            /\ events' = [events EXCEPT ![k] = Tail(@)]
            /\ exit' = [exit EXCEPT ![k] = IF e.type = "Error" THEN ExitOf[e.kind] ELSE @]
            /\ wire' = [wire EXCEPT ![k] =
                  IF ~ s.stream \/ s.out = <<>> THEN @
                  ELSE [head |-> "sse", status |-> IF @.head = "none" THEN StatusOf(s) ELSE @.status,
                        frames |-> @.frames \o s.out,
                        over |-> s.out[Len(s.out)].frame.type = Closing(s.dialect)]]
            /\ ReadAnswer(k)
            /\ phase' = [phase EXCEPT ![k] = IF Len(events[k]) = 1 THEN "stash" ELSE @]
            /\ UNCHANGED <<scene, listening, asked, stash, request, replay, gone, sent, lost, stored>>
         \/ s.stream /\ s.out # <<>> /\ Broken(k)
  BY DEF Encode, Emptied
<1> HIDE DEF s
<1>2. CASE s.stream /\ s.out # <<>> /\ Broken(k)
  BY <1>2
<1>3. CASE /\ encoder' = [encoder EXCEPT ![k] = s]
           /\ events' = [events EXCEPT ![k] = Tail(@)]
           /\ exit' = [exit EXCEPT ![k] = IF e.type = "Error" THEN ExitOf[e.kind] ELSE @]
           /\ wire' = [wire EXCEPT ![k] =
                 IF ~ s.stream \/ s.out = <<>> THEN @
                 ELSE [head |-> "sse", status |-> IF @.head = "none" THEN StatusOf(s) ELSE @.status,
                       frames |-> @.frames \o s.out,
                       over |-> s.out[Len(s.out)].frame.type = Closing(s.dialect)]]
           /\ ReadAnswer(k)
           /\ phase' = [phase EXCEPT ![k] = IF Len(events[k]) = 1 THEN "stash" ELSE @]
           /\ UNCHANGED <<scene, listening, asked, stash, request, replay, gone, sent, lost, stored>>
  <2>1. wire' = [wire EXCEPT ![k] = Writes(wire[k], s)]
    BY <1>3 DEF Writes
  <2>2. phase' = [phase EXCEPT ![k] = IF Len(events[k]) = 1 THEN "stash" ELSE "events"]
    BY <1>1, <1>3
  <2>3. /\ events' = [events EXCEPT ![k] = Tail(events[k])]
        /\ exit' = [exit EXCEPT ![k] = IF e.type = "Error" THEN ExitOf[e.kind] ELSE exit[k]]
    BY <1>3
  <2>4. Encodes(k)
    BY <1>1, <1>3, <2>1, <2>2, <2>3, Zenon DEF Encodes, s
  <2> QED  BY <2>4
<1> QED  BY <1>1, <1>2, <1>3

LEMMA EncodeConn ==
    ASSUME ConnInv, NEW k \in Conns, Encodes(k)
    PROVE  ConnInv'
<1> DEFINE e == Head(events[k])
           s == encoder[k]
           t == EncodeResponse(e, Emptied(s))
           x == IF e.type = "Error" THEN ExitOf[e.kind] ELSE exit[k]
           p == IF Len(events[k]) = 1 THEN "stash" ELSE "events"
           q == Tail(events[k])
           w == Writes(wire[k], t)
<1>1. Shape /\ Connection(phase[k], request[k], events[k], s, exit[k], wire[k])
  BY DEF ConnInv
<1>2. /\ phase[k] = "events" /\ encoder' = [encoder EXCEPT ![k] = t] /\ events' = [events EXCEPT ![k] = q]
      /\ exit' = [exit EXCEPT ![k] = x] /\ wire' = [wire EXCEPT ![k] = w] /\ phase' = [phase EXCEPT ![k] = p]
      /\ request' = request /\ scene' = scene
  BY DEF Encodes
<1>3. /\ request[k] # NoRequest /\ IsTurn(request[k]) /\ request[k].talk \in Talks /\ request[k].knobs \in Requests
      /\ Telling(events[k], s, exit[k], wire[k]) /\ IsResponse(wire[k])
  BY <1>1, <1>2 DEF Connection
<1>4. e.type = "End" <=> Len(events[k]) = 1
  BY <1>3, HeadMay DEF Telling
<1>5. IsResponse(w)
  BY <1>3, WritesIs
<1> HIDE DEF t, w, s
<1>6. /\ Sets(wire, wire', k, w) /\ Sets(exit, exit', k, x)
      /\ Sets(events, events', k, q) /\ Sets(encoder, encoder', k, t)
      /\ Sets(phase, phase', k, p) /\ Sets(request, request', k, request[k])
  BY <1>1, <1>2, SetsOne, SetsNone DEF Shape
<1>7. CASE e.type # "End"
  <2>1. Telling(q, t, x, w)
    BY <1>3, <1>7, EventTold DEF t, w
  <2>2. Formed(t, w) /\ p = "events"
    BY <1>4, <1>7, <2>1, TellingFormed
  <2>3. Connection(p, request[k], q, t, x, w)
    BY <1>3, <1>5, <2>1, <2>2 DEF Connection
  <2> QED  BY <1>2, <1>6, <2>3, ConnStep
<1>8. CASE e.type = "End"
  <2>1. ToldAll(t, x, w)
    <3>1. x = exit[k]
      BY <1>8
    <3> HIDE DEF x
    <3> QED  BY <1>3, <1>8, <3>1, EndTold DEF t, w
  <2>2. Formed(t, w) /\ p = "stash"
    BY <1>4, <1>8, <2>1, ToldFormed
  <2>3. Connection(p, request[k], q, t, x, w)
    BY <1>3, <1>5, <2>1, <2>2 DEF Connection
  <2> QED  BY <1>2, <1>6, <2>3, ConnStep
<1> QED  BY <1>7, <1>8

LEMMA ToldStash ==
    ASSUME NEW s, NEW x, NEW w, ToldAll(s, x, w), NEW z, s.dialect # "chat" => z = {}
    PROVE  ToldAll([s EXCEPT !.stash = z], x, w)
<1> DEFINE t == [s EXCEPT !.stash = z]
<1>1. Finished(s, w.frames) /\ IsEncoder(s)
  BY DEF ToldAll, Finished, ChatEnds, MessagesEnds, Ends
<1>2. t.error = s.error /\ t.stream = s.stream
  BY <1>1 DEF IsEncoder, Fields
<1>3. Finished(t, w.frames)
  BY <1>1, FinishedStash
<1> HIDE DEF t
<1>4. ToldAll(t, x, w)
  BY <1>2, <1>3 DEF ToldAll
<1> QED  BY <1>4 DEF t

LEMMA StashConn ==
    ASSUME ConnInv, NEW k \in Conns, Stash(k)
    PROVE  ConnInv'
<1> DEFINE s == encoder[k]
           pair == CHOOSE p \in encoder[k].stash : TRUE
           z == s.stash \ {pair}
           t == [s EXCEPT !.stash = z]
<1>1. Shape /\ Connection(phase[k], request[k], events[k], s, exit[k], wire[k])
  BY DEF ConnInv
<1>2. /\ phase[k] = "stash" /\ s.stash # {} /\ encoder' = [encoder EXCEPT ![k].stash = @ \ {pair}]
      /\ phase' = phase /\ request' = request /\ events' = events /\ exit' = exit /\ wire' = wire
      /\ scene' = scene
  BY DEF Stash
<1>3. encoder' = [encoder EXCEPT ![k] = t]
  BY <1>2
<1>4. /\ request[k] # NoRequest /\ IsTurn(request[k]) /\ request[k].talk \in Talks /\ request[k].knobs \in Requests
      /\ ToldAll(s, exit[k], wire[k]) /\ IsResponse(wire[k])
  BY <1>1, <1>2 DEF Connection
<1>5. s.dialect = "chat"
  BY <1>2, <1>4 DEF ToldAll, Finished, MessagesEnds
<1> HIDE DEF s, z
<1>6. ToldAll(t, exit[k], wire[k])
  BY <1>4, <1>5, ToldStash
<1> HIDE DEF t
<1>7. Formed(t, wire[k])
  BY <1>6, ToldFormed
<1>8. /\ Sets(wire, wire', k, wire[k]) /\ Sets(exit, exit', k, exit[k])
      /\ Sets(events, events', k, events[k]) /\ Sets(encoder, encoder', k, t)
      /\ Sets(phase, phase', k, phase[k]) /\ Sets(request, request', k, request[k])
  BY <1>1, <1>2, <1>3, SetsOne, SetsNone DEF Shape
<1>9. Connection(phase[k], request[k], events[k], t, exit[k], wire[k])
  BY <1>2, <1>4, <1>6, <1>7 DEF Connection
<1> QED  BY <1>2, <1>8, <1>9, ConnStep

\* The first disjunct of Ended.
Over(s, w) == IF s.stream THEN [w EXCEPT !.over = TRUE] ELSE Full(StatusOf(s), s.out)
Delivers(k) ==
    /\ phase[k] = "stash" /\ encoder[k].stash = {}
    /\ wire' = [wire EXCEPT ![k] = Over(encoder[k], wire[k])]
    /\ UNCHANGED <<encoder, events, exit>>
    /\ ReadAnswer(k)
    /\ Served(k, FALSE)
    /\ UNCHANGED <<scene, listening, asked, stash, replay, gone, sent, lost, stored>>

LEMMA EndedIs ==
    ASSUME NEW k \in Conns, Ended(k)
    PROVE  Delivers(k) \/ (Broken(k) /\ phase[k] = "stash" /\ encoder[k].stash = {})
<1> DEFINE s == encoder[k]
<1>1. /\ phase[k] = "stash" /\ s.stash = {}
      /\ \/ /\ wire' = [wire EXCEPT ![k] = IF s.stream THEN [@ EXCEPT !.over = TRUE]
                                           ELSE Full(StatusOf(s), s.out)]
            /\ UNCHANGED <<encoder, events, exit>>
            /\ ReadAnswer(k)
            /\ Served(k, FALSE)
            /\ UNCHANGED <<scene, listening, asked, stash, replay, gone, sent, lost, stored>>
         \/ Broken(k)
  BY DEF Ended
<1>2. CASE Broken(k)
  BY <1>1, <1>2
<1>3. CASE /\ wire' = [wire EXCEPT ![k] = IF s.stream THEN [@ EXCEPT !.over = TRUE]
                                           ELSE Full(StatusOf(s), s.out)]
           /\ UNCHANGED <<encoder, events, exit>>
           /\ ReadAnswer(k)
           /\ Served(k, FALSE)
           /\ UNCHANGED <<scene, listening, asked, stash, replay, gone, sent, lost, stored>>
  <2>1. wire' = [wire EXCEPT ![k] = Over(s, wire[k])]
    BY <1>3 DEF Over
  <2>2. Delivers(k)
    BY <1>1, <1>3, <2>1, Zenon DEF Delivers
  <2> QED  BY <2>2
<1> QED  BY <1>1, <1>2, <1>3

LEMMA DeliversConn ==
    ASSUME ConnInv, NEW k \in Conns, Delivers(k)
    PROVE  ConnInv'
<1> DEFINE s == encoder[k]
           v == wire[k]
           w == Over(s, v)
<1>1. Shape /\ Connection(phase[k], request[k], events[k], s, exit[k], v)
  BY DEF ConnInv
<1>2. /\ wire' = [wire EXCEPT ![k] = w] /\ exit' = exit /\ scene' = scene /\ events' = events /\ encoder' = encoder
  BY DEF Delivers
<1>3. PICK p \in {"closed", "read"} : Sets(phase, phase', k, p) /\ Sets(request, request', k, NoRequest)
  <2>1. \E dead : Served(k, dead)
    BY DEF Delivers
  <2> QED  BY <1>1, <2>1, ServedSets
<1>4. Formed(s, v) /\ IsResponse(v)
  BY <1>1 DEF Connection
<1> HIDE DEF s, v
<1>5. IsResponse(w) /\ Formed(s, w)
  <2>1. CASE s.stream
    <3>1. w = [v EXCEPT !.over = TRUE]
      BY <2>1 DEF Over
    <3>2. DOMAIN w = DOMAIN v /\ w.head = v.head /\ w.frames = v.frames
      BY <1>4, <3>1 DEF IsResponse
    <3> HIDE DEF w
    <3> QED  BY <1>4, <3>2 DEF IsResponse, Formed
  <2>2. CASE ~ s.stream
    BY <2>2 DEF Over, Full, IsResponse, Formed
  <2> QED  BY <2>1, <2>2
<1> HIDE DEF w
<1>6. Sets(wire, wire', k, w) /\ Sets(exit, exit', k, exit[k])
      /\ Sets(events, events', k, events[k]) /\ Sets(encoder, encoder', k, s)
  BY <1>1, <1>2, SetsOne, SetsNone DEF Shape, s
<1>7. Connection(p, NoRequest, events[k], s, exit[k], w)
  BY <1>5, IdleConn
<1> QED  BY <1>2, <1>3, <1>6, <1>7, ConnStep

LEMMA ConnInit ==
    ASSUME Init
    PROVE  ConnInv
<1>1. Shape
  BY DEF Init, Shape
<1>2. \A k \in Conns : phase[k] = "closed" /\ request[k] = NoRequest /\ wire[k] = Nothing
  BY DEF Init
<1>3. IsResponse(Nothing) /\ \A s : Formed(s, Nothing)
  BY DEF IsResponse, Formed, Nothing
<1>4. ASSUME NEW k \in Conns
      PROVE  Connection(phase[k], request[k], events[k], encoder[k], exit[k], wire[k])
  BY <1>2, <1>3, IdleConn
<1> QED  BY <1>1, <1>4 DEF ConnInv

LEMMA ConnNext ==
    ASSUME ConnInv, [Next]_vars
    PROVE  ConnInv'
<1>0. Shape
  BY DEF ConnInv
<1>1. CASE UNCHANGED vars
  BY <1>1, StillConn DEF vars, conns
<1>2. ASSUME NEW k \in Conns, Accept(k) PROVE ConnInv'
  BY <1>2, AcceptConn
<1>3. ASSUME NEW k \in Conns, HangUp(k) PROVE ConnInv'
  BY <1>3, StillConn DEF HangUp
<1>4. ASSUME NEW k \in Conns, Thread(k) PROVE ConnInv'
  <2>1. CASE ReadNone(k)
    BY <2>1, ReadNoneConn
  <2>2. CASE Malformed(k) \/ Unauthorized(k) \/ NotFound(k) \/ Undecodable(k) \/ Reject(k) \/ Unresolved(k)
    <3>1. \E e : Edge(k, e)
      BY <2>2 DEF Malformed, Unauthorized, NotFound, Undecodable, Reject, Unresolved
    <3> QED  BY <3>1, EdgeConn
  <2>3. CASE Models(k)
    BY <2>3, ModelsConn
  <2>4. CASE Decode(k)
    BY <2>4, DecodeConn
  <2>5. CASE Recall(k)
    BY <2>5, StillConn DEF Recall
  <2>6. CASE Generate(k)
    BY <2>6, GenerateConn
  <2>7. CASE Encode(k)
    BY <1>0, <2>7, EncodeIs, EncodeConn, BrokenConn
  <2>8. CASE Stash(k)
    BY <2>8, StashConn
  <2>9. CASE Ended(k)
    BY <2>9, EndedIs, DeliversConn, BrokenConn
  <2> QED  BY <1>4, <2>1, <2>2, <2>3, <2>4, <2>5, <2>6, <2>7, <2>8, <2>9 DEF Thread
<1>5. ASSUME NEW k \in Conns, NEW v \in Talks, NEW r \in Scene.requests[v], Send(k, v, r) PROVE ConnInv'
  BY <1>5, SendConn
<1>6. CASE Evict
  BY <1>6, StillConn DEF Evict, conns
<1>7. CASE AcceptFails
  BY <1>7, StillConn DEF AcceptFails, conns
<1>8. CASE Done
  BY <1>8, StillConn DEF Done, vars, conns
<1> QED  BY <1>1, <1>2, <1>3, <1>4, <1>5, <1>6, <1>7, <1>8 DEF Next

\* On every connection, at every moment, the response is one of the answer that is being
\* told: what is written, what the encoder has kept and what the provider has yet to say
\* go together (turn of run/masq, the encoders of ingress).
THEOREM ConnectionsTellAnswers == Spec => []ConnInv
<1>1. Init => ConnInv
  BY ConnInit
<1>2. ConnInv /\ [Next]_vars => ConnInv'
  BY ConnNext
<1> QED  BY <1>1, <1>2, PTL DEF Spec

\* Every streamed response is, at every moment, a stream of its client's dialect, whatever
\* answers the providers give (StreamIsWellFormed).
THEOREM ResponsesAreWellFormed == Spec => []StreamIsWellFormed
<1>1. ConnInv => StreamIsWellFormed
  <2> SUFFICES ASSUME ConnInv, NEW k \in Conns, wire[k].head = "sse"
               PROVE  IF encoder[k].dialect = "chat" THEN ChatGrammar(wire[k].frames)
                      ELSE MessagesGrammar(wire[k].frames)
    BY DEF StreamIsWellFormed
  <2>1. Formed(encoder[k], wire[k])
    BY DEF ConnInv, Connection
  <2> QED  BY <2>1 DEF Formed
<1> QED  BY <1>1, ConnectionsTellAnswers, PTL

\* The body in one piece is what the frames of the same answer add up to
\* (AggregateIsTheStream).
THEOREM BodyIsTheStream == Spec => []AggregateIsTheStream
<1>1. ConnInv => AggregateIsTheStream
  <2> SUFFICES ASSUME ConnInv, NEW k \in Conns, phase[k] = "stash", encoder[k].stream, encoder[k].error = 0
               PROVE  LET s == encoder[k]
                          a == Assembled(s.dialect, wire[k])
                      IN  IF s.dialect = "chat"
                          THEN a = [ChatBody(s) EXCEPT !.usage = @ /\ s.include_usage]
                          ELSE /\ a.content = s.content /\ a.finish = s.finish
                               /\ s.answer.provider = "openai" \/ a.usage = s.counted
    BY DEF AggregateIsTheStream
  <2>1. ToldAll(encoder[k], exit[k], wire[k])
    BY DEF ConnInv, Connection
  <2> QED  BY <2>1, ToldAlike
<1> QED  BY <1>1, ConnectionsTellAnswers, PTL

\* A failed turn is told as one in the status, in a frame and in the exit code, and a turn
\* that did not fail in none (FailureIsTold).
THEOREM FailuresAreTold == Spec => []FailureIsTold
<1>1. ConnInv => FailureIsTold
  <2> SUFFICES ASSUME ConnInv, NEW k \in Conns, phase[k] = "stash"
               PROVE  LET s == encoder[k]
                          w == wire[k]
                      IN  /\ (exit[k] # 0) = (StatusOf(s) # 200)
                          /\ s.stream => /\ (exit[k] # 0) = Failed(w)
                                         /\ (w.status # 200) = (w.frames[1].frame.type = "error")
    BY DEF FailureIsTold
  <2>1. ToldAll(encoder[k], exit[k], wire[k])
    BY DEF ConnInv, Connection
  <2> QED  BY <2>1, ToldTruly
<1> QED  BY <1>1, ConnectionsTellAnswers, PTL

(***************************************************************************)
(* The stash, and what the clients know.                                   *)
(***************************************************************************)
Turn(r) == <<r.talk, r.number>>

\* The calls of an answer that is told.
CallsOf(s) ==
    IF s.dialect = "chat" THEN {s.tools[n].id : n \in 1..Len(s.tools)}
    ELSE {s.content[n].id : n \in {m \in 1..Len(s.content) : s.content[m].type = "ToolUse"}}

\* The ids of the calls of each turn that was told are C.  A payload p of the stash is of
\* the turn its key names, if it names one.
IsOwn(p, turn, calls) ==
    \A n \in 1..Len(p) : p[n].turn = turn /\ (p[n].type = "ToolUse" => p[n].id \in calls)

Belongs(C, key, p) ==
    /\ IsSeq(p) /\ p # <<>>
    /\ "of" \in DOMAIN key /\ key.of # NoTurn => key.of \in DOMAIN C /\ IsOwn(p, key.of, C[key.of])

\* The payload p is in the stash under its key, or the stash has lost it.
Safe(key, p, lo, st) == key \in lo \/ (key \in DOMAIN st /\ st[key] = p)

\* The payload of a turn that a client has read, or the client of a streamed answer is
\* still to be stored.
Kept(t, ph, en, lo, st) ==
    t.payload # <<>> =>
        \A key \in TurnKeys(t) :
            \/ Safe(key, t.payload, lo, st)
            \/ /\ t.streamed /\ ph[t.conn] = "stash"
               /\ [key |-> key, payload |-> t.payload] \in en[t.conn].stash

Distinctive(t) == \E c \in t.calls : c.of # NoTurn

Known(C, t, ph, en, lo, st) ==
    /\ t.turn \in DOMAIN C /\ t.calls = C[t.turn] /\ t.conn \in Conns
    /\ IsSeq(t.payload)
    /\ \A n \in 1..Len(t.payload) : t.payload[n].type = "ToolUse" => t.payload[n].id \in t.calls
    /\ \A c \in t.calls : "of" \in DOMAIN c
    /\ Distinctive(t) => \A c \in t.calls : c.of = t.turn
    /\ Kept(t, ph, en, lo, st)

\* A client knows of the turn t.
Heard(t, tr, rq) ==
    \/ \E v \in Talks : \E n \in 1..Len(tr[v]) : t = tr[v][n]
    \/ \E k \in Conns : rq[k] # NoRequest /\ \E n \in 1..Len(rq[k].turns) : t = rq[k].turns[n]

\* A turn whose payload must be found, over connection k.
Expected(k, t, lo) == t.payload # <<>> /\ TurnKeys(t) \cap lo = {} /\ (t.streamed => t.conn = k)

\* q was recalled for the turn t.
Right(k, t, q, lo) ==
    /\ IsSeq(q)
    /\ Expected(k, t, lo) => q = t.payload
    /\ Distinctive(t) => IsOwn(q, t.turn, t.calls)

Recalling(k, r, rp, lo, rej) ==
    /\ IsSeq(rp) /\ Len(rp) <= Len(r.turns)
    /\ \A n \in 1..Len(rp) :
         /\ Right(k, r.turns[n], rp[n], lo)
         /\ rej /\ r.knobs.reasoning /\ r.turns[n].calls # {} => rp[n] # <<>>

\* What DegradedIsTold calls degraded.
Degraded(sn) ==
    sn.reasoning /\ \E n \in 1..Len(sn.turns) : sn.turns[n].calls # {} /\ sn.replay[n] = <<>>

\* The request sn was sent upstream.
SentWell(k, sn, lo, rej) ==
    /\ \A n \in 1..Len(sn.turns) :
         LET t == sn.turns[n]
         IN  /\ Expected(k, t, lo) => sn.replay[n] = t.payload
             /\ Distinctive(t) => \A m \in 1..Len(sn.replay[n]) : sn.replay[n][m].turn = t.turn
    /\ Degraded(sn) => ~ rej

\* What is to be stashed of a whole answer, or was.
Filed(s, lo, st) ==
    /\ \A p \in s.stash : s.blocks # <<>> /\ p.payload = s.blocks /\ p.key \in Keys(s)
    /\ s.dialect = "chat" /\ s.blocks # <<>> =>
         \A key \in Keys(s) : Safe(key, s.blocks, lo, st) \/ [key |-> key, payload |-> s.blocks] \in s.stash

Serving(C, k, p, r, rp, s, sn, a, lo, st, rej) ==
    /\ SentWell(k, sn, lo, rej)
    /\ r # NoRequest => /\ r.number \in Nat /\ r.number <= a[r.talk] /\ IsSeq(r.turns)
                        /\ p # "stash" => Turn(r) \notin DOMAIN C
    /\ p = "recall" => Recalling(k, r, rp, lo, rej)
    /\ p \in {"events", "stash"} => s.answer.turn = Turn(r) /\ (s.adapted <=> Degraded(sn))
    /\ p = "stash" => Turn(r) \in DOMAIN C /\ C[Turn(r)] = CallsOf(s) /\ Filed(s, lo, st)

Distinct(rq) ==
    \A j \in Conns, k \in Conns :
        j # k /\ rq[j] # NoRequest /\ rq[k] # NoRequest => Turn(rq[j]) # Turn(rq[k])

Ledger(C) ==
    /\ DOMAIN replay = Conns /\ DOMAIN sent = Conns /\ DOMAIN transcript = Talks
    /\ asked \in [Talks -> Nat]
    /\ \A v \in Talks : IsSeq(transcript[v])
    /\ \A v \in Talks : \A n : <<v, n>> \in DOMAIN C => n \in Nat /\ n <= asked[v]
    /\ \A k \in Conns : Serving(C, k, phase[k], request[k], replay[k], encoder[k], sent[k], asked, lost, stash,
                                Scene.reject)
    /\ Distinct(request)
    /\ \A t : Heard(t, transcript, request) => Known(C, t, phase, encoder, lost, stash)
    /\ \A key \in DOMAIN stash : Belongs(C, key, stash[key])

StashInv == \E C : Ledger(C)

(***************************************************************************)
(* What every step does to the stash.                                      *)
(***************************************************************************)
GoesOn ==
    /\ lost \subseteq lost'
    /\ \A key \in DOMAIN stash : Safe(key, stash[key], lost', stash')
    /\ \A j \in Conns : phase[j] = "stash" =>
         \A p \in encoder[j].stash : \/ phase'[j] = "stash" /\ p \in encoder'[j].stash
                                     \/ Safe(p.key, p.payload, lost', stash')

Extends(C, D) == \A x \in DOMAIN C : x \in DOMAIN D /\ D[x] = C[x]

LEMMA SafeLater ==
    ASSUME GoesOn, NEW key, NEW p, Safe(key, p, lost, stash)
    PROVE  Safe(key, p, lost', stash')
BY DEF GoesOn, Safe

LEMMA KeptLater ==
    ASSUME GoesOn, NEW t, t.conn \in Conns, Kept(t, phase, encoder, lost, stash)
    PROVE  Kept(t, phase', encoder', lost', stash')
<1> SUFFICES ASSUME t.payload # <<>>, NEW key \in TurnKeys(t)
             PROVE  \/ Safe(key, t.payload, lost', stash')
                    \/ /\ t.streamed /\ phase'[t.conn] = "stash"
                       /\ [key |-> key, payload |-> t.payload] \in encoder'[t.conn].stash
  BY DEF Kept
<1>1. CASE Safe(key, t.payload, lost, stash)
  BY <1>1, SafeLater
<1>2. CASE t.streamed /\ phase[t.conn] = "stash" /\ [key |-> key, payload |-> t.payload] \in encoder[t.conn].stash
  <2> DEFINE p == [key |-> key, payload |-> t.payload]
  <2>1. p.key = key /\ p.payload = t.payload
    OBVIOUS
  <2> HIDE DEF p
  <2>2. (phase'[t.conn] = "stash" /\ p \in encoder'[t.conn].stash) \/ Safe(p.key, p.payload, lost', stash')
    BY <1>2 DEF GoesOn, p
  <2>3. (phase'[t.conn] = "stash" /\ p \in encoder'[t.conn].stash) \/ Safe(key, t.payload, lost', stash')
    BY <2>1, <2>2
  <2> QED  BY <1>2, <2>3 DEF p
<1> QED  BY <1>1, <1>2 DEF Kept

LEMMA KnownLater ==
    ASSUME GoesOn, NEW C, NEW D, Extends(C, D), NEW t, Known(C, t, phase, encoder, lost, stash)
    PROVE  Known(D, t, phase', encoder', lost', stash')
<1>1. Kept(t, phase', encoder', lost', stash')
  BY KeptLater DEF Known
<1>2. t.turn \in DOMAIN D /\ t.calls = D[t.turn]
  BY DEF Known, Extends
<1> QED  BY <1>1, <1>2 DEF Known

LEMMA BelongsLater ==
    ASSUME NEW C, NEW D, Extends(C, D), NEW key, NEW p, Belongs(C, key, p)
    PROVE  Belongs(D, key, p)
BY DEF Belongs, Extends

LEMMA FiledLater ==
    ASSUME GoesOn, NEW s, Filed(s, lost, stash)
    PROVE  Filed(s, lost', stash')
BY SafeLater DEF Filed

LEMMA ExpectedLater ==
    ASSUME GoesOn, NEW k, NEW t, Expected(k, t, lost')
    PROVE  Expected(k, t, lost)
BY DEF GoesOn, Expected

LEMMA SentLater ==
    ASSUME GoesOn, NEW k, NEW sn, NEW rej, SentWell(k, sn, lost, rej)
    PROVE  SentWell(k, sn, lost', rej)
BY ExpectedLater DEF SentWell

LEMMA RecallingLater ==
    ASSUME GoesOn, NEW k, NEW r, NEW rp, NEW rej, Recalling(k, r, rp, lost, rej)
    PROVE  Recalling(k, r, rp, lost', rej)
BY ExpectedLater DEF Recalling, Right

\* The others go on, whatever one connection does.
LEMMA ServingLater ==
    ASSUME GoesOn, NEW C, NEW D, Extends(C, D), NEW k, NEW p, NEW r, NEW rp, NEW s, NEW sn, NEW rej,
           Serving(C, k, p, r, rp, s, sn, asked, lost, stash, rej),
           p = "stash" => r # NoRequest,
           r # NoRequest => /\ r.talk \in Talks
                            /\ \A x \in DOMAIN D \ DOMAIN C : x # Turn(r),
           asked \in [Talks -> Nat], asked' \in [Talks -> Nat], \A v \in Talks : asked[v] <= asked'[v]
    PROVE  Serving(D, k, p, r, rp, s, sn, asked', lost', stash', rej)
<1>1. SentWell(k, sn, lost', rej)
  BY SentLater DEF Serving
<1>2. ASSUME r # NoRequest
      PROVE  /\ r.number \in Nat /\ r.number <= asked'[r.talk] /\ IsSeq(r.turns)
             /\ p # "stash" => Turn(r) \notin DOMAIN D
  <2>1. r.number \in Nat /\ r.number <= asked[r.talk] /\ IsSeq(r.turns) /\ (p # "stash" => Turn(r) \notin DOMAIN C)
    BY <1>2 DEF Serving
  <2>2. asked[r.talk] \in Nat /\ asked'[r.talk] \in Nat /\ asked[r.talk] <= asked'[r.talk]
    BY <1>2
  <2> QED  BY <1>2, <2>1, <2>2
<1>3. p = "recall" => Recalling(k, r, rp, lost', rej)
  BY RecallingLater DEF Serving
<1>4. p = "stash" => Turn(r) \in DOMAIN D /\ D[Turn(r)] = CallsOf(s) /\ Filed(s, lost', stash')
  BY FiledLater DEF Serving, Extends
<1> QED  BY <1>1, <1>2, <1>3, <1>4 DEF Serving

\* One connection takes a step.  D are the calls of the turns that were told after it.
LEMMA LedgerStep ==
    ASSUME ConnInv, GoesOn, scene' = scene, NEW C, Ledger(C), NEW D, Extends(C, D), NEW k \in Conns,
           NEW p, NEW r, NEW rp, NEW s, NEW sn,
           Sets(phase, phase', k, p), Sets(request, request', k, r), Sets(replay, replay', k, rp),
           Sets(encoder, encoder', k, s), Sets(sent, sent', k, sn),
           asked' \in [Talks -> Nat], \A v \in Talks : asked[v] <= asked'[v],
           r # NoRequest => r = request[k] \/ (r.talk \in Talks /\ r.number > asked[r.talk]),
           \A x \in DOMAIN D \ DOMAIN C : request[k] # NoRequest /\ x = Turn(request[k]),
           DOMAIN transcript' = Talks, \A v \in Talks : IsSeq(transcript'[v]),
           \A t : Heard(t, transcript', request') =>
                    Heard(t, transcript, request) \/ Known(D, t, phase', encoder', lost', stash'),
           \A key \in DOMAIN stash' : Belongs(D, key, stash'[key]),
           Serving(D, k, p, r, rp, s, sn, asked', lost', stash', Scene.reject)
    PROVE  Ledger(D)'
<1>1. DOMAIN replay' = Conns /\ DOMAIN sent' = Conns
  BY DEF Sets
<1>2. asked \in [Talks -> Nat] /\ Distinct(request)
      /\ \A v \in Talks : \A n : <<v, n>> \in DOMAIN C => n \in Nat /\ n <= asked[v]
  BY DEF Ledger
<1>3. ASSUME NEW j \in Conns, request[j] # NoRequest
      PROVE  request[j].talk \in Talks /\ request[j].number \in Nat /\ request[j].number <= asked[request[j].talk]
  <2>1. Serving(C, j, phase[j], request[j], replay[j], encoder[j], sent[j], asked, lost, stash, Scene.reject)
    BY DEF Ledger
  <2> QED  BY <1>3, <2>1 DEF Serving, ConnInv, Connection
<1>4. \A v \in Talks : \A n : <<v, n>> \in DOMAIN D => n \in Nat /\ n <= asked'[v]
  <2> SUFFICES ASSUME NEW v \in Talks, NEW n, <<v, n>> \in DOMAIN D PROVE n \in Nat /\ n <= asked'[v]
    OBVIOUS
  <2>1. asked[v] \in Nat /\ asked'[v] \in Nat /\ asked[v] <= asked'[v]
    BY <1>2
  <2>2. CASE <<v, n>> \in DOMAIN C
    BY <1>2, <2>1, <2>2
  <2>3. CASE <<v, n>> \notin DOMAIN C
    <3>1. request[k] # NoRequest /\ v = request[k].talk /\ n = request[k].number
      BY <2>3 DEF Turn
    <3> QED  BY <1>3, <2>1, <3>1
  <2> QED  BY <2>2, <2>3
<1>5. ASSUME NEW j \in Conns
      PROVE  Serving(D, j, phase'[j], request'[j], replay'[j], encoder'[j], sent'[j], asked', lost', stash',
                     Scene'.reject)
  <2>1. Scene' = Scene
    BY DEF Scene
  <2>2. CASE j = k
    <3>1. /\ phase'[j] = p /\ request'[j] = r /\ replay'[j] = rp /\ encoder'[j] = s /\ sent'[j] = sn
      BY <2>2 DEF Sets
    <3> QED  BY <2>1, <2>2, <3>1
  <2>3. CASE j # k
    <3>1. /\ phase'[j] = phase[j] /\ request'[j] = request[j] /\ replay'[j] = replay[j]
          /\ encoder'[j] = encoder[j] /\ sent'[j] = sent[j]
      BY <2>3 DEF Sets
    <3> DEFINE pj == phase[j]
               rj == request[j]
               rpj == replay[j]
               sj == encoder[j]
               snj == sent[j]
    <3>2. Serving(C, j, pj, rj, rpj, sj, snj, asked, lost, stash, Scene.reject)
      BY DEF Ledger
    <3>3. (pj = "stash" => rj # NoRequest) /\ (rj # NoRequest => rj.talk \in Talks)
      BY DEF ConnInv, Connection
    <3>4. rj # NoRequest => \A x \in DOMAIN D \ DOMAIN C : x # Turn(rj)
      BY <1>2, <2>3 DEF Distinct
    <3> HIDE DEF pj, rj, rpj, sj, snj
    <3>5. Serving(D, j, pj, rj, rpj, sj, snj, asked', lost', stash', Scene.reject)
      BY <1>2, <3>2, <3>3, <3>4, ServingLater
    <3> QED  BY <2>1, <3>1, <3>5 DEF pj, rj, rpj, sj, snj
  <2> QED  BY <2>2, <2>3
<1>6. Distinct(request')
  <2>1. ASSUME NEW j \in Conns, j # k, request[j] # NoRequest, r # NoRequest PROVE Turn(request[j]) # Turn(r)
    <3>1. CASE r = request[k]
      BY <1>2, <2>1, <3>1 DEF Distinct
    <3>2. CASE r.talk \in Talks /\ r.number > asked[r.talk]
      <4>1. request[j].talk \in Talks /\ request[j].number \in Nat /\ request[j].number <= asked[request[j].talk]
        BY <1>3, <2>1
      <4>2. asked[request[j].talk] \in Nat
        BY <1>2, <4>1
      <4>3. ~ (request[j].talk = r.talk /\ request[j].number = r.number)
        BY <3>2, <4>1, <4>2
      <4> QED  BY <4>3 DEF Turn
    <3> QED  BY <2>1, <3>1, <3>2
  <2>2. \A j \in Conns : request'[j] = IF j = k THEN r ELSE request[j]
    BY DEF Sets
  <2> QED  BY <1>2, <2>1, <2>2 DEF Distinct
<1>7. \A t : Heard(t, transcript', request') => Known(D, t, phase', encoder', lost', stash')
  BY KnownLater DEF Ledger
<1> QED  BY <1>1, <1>4, <1>5, <1>6, <1>7 DEF Ledger

\* The stash is not touched, and what is left to be stored is kept.
LEMMA StillGoesOn ==
    ASSUME UNCHANGED <<stash, lost>>, NEW k \in Conns, NEW p, NEW s,
           Sets(phase, phase', k, p), Sets(encoder, encoder', k, s),
           phase[k] = "stash" => encoder[k].stash = {} \/ (p = "stash" /\ s.stash = encoder[k].stash)
    PROVE  GoesOn
<1>1. \A key \in DOMAIN stash : Safe(key, stash[key], lost', stash')
  BY DEF Safe
<1>2. ASSUME NEW j \in Conns, phase[j] = "stash", NEW y \in encoder[j].stash
      PROVE  phase'[j] = "stash" /\ y \in encoder'[j].stash
  BY <1>2 DEF Sets
<1> QED  BY <1>1, <1>2 DEF GoesOn

LEMMA ExtendsSame == ASSUME NEW C PROVE Extends(C, C) /\ DOMAIN C \ DOMAIN C = {}
BY DEF Extends

\* No more is heard when a request is done.
LEMMA HeardLess ==
    ASSUME NEW k \in Conns, NEW r, Sets(request, request', k, r), r = NoRequest \/ r = request[k],
           transcript' = transcript
    PROVE  \A t : Heard(t, transcript', request') => Heard(t, transcript, request)
BY DEF Sets, Heard

\* A step that leaves the clients, the stash and the rest of the connections alone.
LEMMA QuietStep ==
    ASSUME ConnInv, NEW C, Ledger(C), scene' = scene, NEW k \in Conns,
           NEW p, NEW r, NEW rp, NEW s, NEW sn,
           Sets(phase, phase', k, p), Sets(request, request', k, r), Sets(replay, replay', k, rp),
           Sets(encoder, encoder', k, s), Sets(sent, sent', k, sn),
           UNCHANGED <<transcript, asked, stash, lost>>,
           phase[k] = "stash" => encoder[k].stash = {} \/ (p = "stash" /\ s.stash = encoder[k].stash),
           r = NoRequest \/ r = request[k],
           Serving(C, k, p, r, rp, s, sn, asked, lost, stash, Scene.reject)
    PROVE  StashInv'
<1>1. GoesOn
  BY StillGoesOn
<1>2. /\ asked \in [Talks -> Nat] /\ DOMAIN transcript = Talks /\ \A v \in Talks : IsSeq(transcript[v])
      /\ \A key \in DOMAIN stash : Belongs(C, key, stash[key])
  BY DEF Ledger
<1>3. asked' \in [Talks -> Nat] /\ \A v \in Talks : asked[v] <= asked'[v]
  BY <1>2
<1>4. \A t : Heard(t, transcript', request') =>
                    Heard(t, transcript, request) \/ Known(C, t, phase', encoder', lost', stash')
  BY HeardLess
<1>5. DOMAIN transcript' = Talks /\ (\A v \in Talks : IsSeq(transcript'[v]))
      /\ \A key \in DOMAIN stash' : Belongs(C, key, stash'[key])
  BY <1>2
<1>6. Serving(C, k, p, r, rp, s, sn, asked', lost', stash', Scene.reject)
  OBVIOUS
<1>7. Extends(C, C) /\ \A x \in DOMAIN C \ DOMAIN C : request[k] # NoRequest /\ x = Turn(request[k])
  BY ExtendsSame
<1>8. r # NoRequest => r = request[k] \/ (r.talk \in Talks /\ r.number > asked[r.talk])
  OBVIOUS
<1>9. Ledger(C)'
  BY <1>1, <1>3, <1>4, <1>5, <1>6, <1>7, <1>8, LedgerStep
<1> QED  BY <1>9 DEF StashInv

LEMMA ServingNow ==
    ASSUME NEW C, Ledger(C), NEW k \in Conns
    PROVE  /\ Serving(C, k, phase[k], request[k], replay[k], encoder[k], sent[k], asked, lost, stash, Scene.reject)
           /\ DOMAIN replay = Conns /\ DOMAIN sent = Conns
BY DEF Ledger

LEMMA IdleServing ==
    ASSUME NEW C, NEW k, NEW p, NEW r, NEW rp, NEW s, NEW sn, NEW rej,
           Serving(C, k, p, r, rp, s, sn, asked, lost, stash, rej), NEW z, z \in {"closed", "read"}
    PROVE  Serving(C, k, z, NoRequest, rp, s, sn, asked, lost, stash, rej)
BY DEF Serving

\* A request is done with; no more is read of its answer.
LEMMA ServedStash ==
    ASSUME ConnInv, StashInv, NEW k \in Conns, NEW dead, Served(k, dead),
           UNCHANGED <<scene, transcript, asked, stash, lost, replay, encoder, sent>>,
           phase[k] = "stash" => encoder[k].stash = {}
    PROVE  StashInv'
<1>1. PICK C : Ledger(C)
  BY DEF StashInv
<1>2. Shape
  BY DEF ConnInv
<1>3. PICK p \in {"closed", "read"} : Sets(phase, phase', k, p) /\ Sets(request, request', k, NoRequest)
  BY <1>2, ServedSets
<1>4. Serving(C, k, phase[k], request[k], replay[k], encoder[k], sent[k], asked, lost, stash, Scene.reject)
      /\ DOMAIN replay = Conns /\ DOMAIN sent = Conns
  BY <1>1, ServingNow
<1>5. Serving(C, k, p, NoRequest, replay[k], encoder[k], sent[k], asked, lost, stash, Scene.reject)
  BY <1>4, IdleServing
<1>6. /\ Sets(replay, replay', k, replay[k]) /\ Sets(sent, sent', k, sent[k])
      /\ Sets(encoder, encoder', k, encoder[k])
  BY <1>2, <1>4, SetsNone DEF Shape
<1> QED  BY <1>1, <1>3, <1>5, <1>6, QuietStep

LEMMA EdgeStash ==
    ASSUME ConnInv, StashInv, NEW k \in Conns, NEW e, Edge(k, e), phase[k] # "stash"
    PROVE  StashInv'
<1>1. PICK dead : Served(k, dead)
  BY DEF Edge
<1> QED  BY <1>1, ServedStash DEF Edge

LEMMA ModelsStash ==
    ASSUME ConnInv, StashInv, NEW k \in Conns, Models(k)
    PROVE  StashInv'
<1>1. PICK dead : Served(k, dead)
  BY DEF Models
<1>2. phase[k] # "stash"
  BY DEF Models, Admitted, Arrived
<1> QED  BY <1>1, <1>2, ServedStash DEF Models

LEMMA BrokenStash ==
    ASSUME ConnInv, StashInv, NEW k \in Conns, Broken(k), phase[k] = "stash" => encoder[k].stash = {}
    PROVE  StashInv'
<1>1. Served(k, TRUE) /\ UNCHANGED <<scene, transcript, asked, stash, lost, replay, encoder, sent>>
  BY DEF Broken
<1>2. \E dead : Served(k, dead)
  BY <1>1
<1> QED  BY <1>1, <1>2, ServedStash

\* The thread enters phase p.
LEMMA PhaseStash ==
    ASSUME ConnInv, NEW C, Ledger(C), NEW k \in Conns, phase[k] # "stash",
           NEW p, phase' = [phase EXCEPT ![k] = p],
           NEW r, Sets(request, request', k, r), r = NoRequest \/ r = request[k],
           NEW rp, Sets(replay, replay', k, rp),
           UNCHANGED <<scene, transcript, asked, stash, lost, encoder, sent>>,
           Serving(C, k, p, r, rp, encoder[k], sent[k], asked, lost, stash, Scene.reject)
    PROVE  StashInv'
<1>1. Shape /\ DOMAIN replay = Conns /\ DOMAIN sent = Conns
  BY DEF ConnInv, Ledger
<1>2. /\ Sets(phase, phase', k, p)
      /\ Sets(sent, sent', k, sent[k]) /\ Sets(encoder, encoder', k, encoder[k])
  BY <1>1, SetsOne, SetsNone DEF Shape
<1> QED  BY <1>2, QuietStep

LEMMA ReadNoneStash ==
    ASSUME ConnInv, StashInv, NEW k \in Conns, ReadNone(k)
    PROVE  StashInv'
<1>1. PICK C : Ledger(C)
  BY DEF StashInv
<1>2. Serving(C, k, "closed", request[k], replay[k], encoder[k], sent[k], asked, lost, stash, Scene.reject)
  BY <1>1, ServingNow, IdleServing DEF ReadNone
<1>3. Sets(request, request', k, request[k]) /\ Sets(replay, replay', k, replay[k])
  BY <1>1, ServingNow, SetsNone DEF ReadNone, ConnInv, Shape
<1>4. phase[k] # "stash"
  BY DEF ReadNone
<1> QED  BY <1>1, <1>2, <1>3, <1>4, PhaseStash DEF ReadNone

LEMMA AcceptStash ==
    ASSUME ConnInv, StashInv, NEW k \in Conns, Accept(k)
    PROVE  StashInv'
<1>1. PICK C : Ledger(C)
  BY DEF StashInv
<1>2. Serving(C, k, "read", NoRequest, replay[k], encoder[k], sent[k], asked, lost, stash, Scene.reject)
  BY <1>1, ServingNow, IdleServing
<1>3. Sets(request, request', k, NoRequest) /\ Sets(replay, replay', k, replay[k])
  BY <1>1, ServingNow, SetsOne, SetsNone DEF Accept, ConnInv, Shape
<1>4. phase[k] # "stash"
  BY DEF Accept
<1> QED  BY <1>1, <1>2, <1>3, <1>4, PhaseStash DEF Accept

LEMMA DecodeStash ==
    ASSUME ConnInv, StashInv, NEW k \in Conns, Decode(k)
    PROVE  StashInv'
<1>1. PICK C : Ledger(C)
  BY DEF StashInv
<1>2. /\ phase[k] = "read" /\ request[k] # NoRequest
      /\ phase' = [phase EXCEPT ![k] = "recall"] /\ replay' = [replay EXCEPT ![k] = <<>>] /\ request' = request
  BY DEF Decode, Admitted, Arrived
<1>3. Serving(C, k, "read", request[k], replay[k], encoder[k], sent[k], asked, lost, stash, Scene.reject)
  BY <1>1, <1>2, ServingNow
<1>4. Recalling(k, request[k], <<>>, lost, Scene.reject)
  <2>1. IsSeq(request[k].turns)
    BY <1>2, <1>3 DEF Serving
  <2>2. Len(request[k].turns) \in Nat /\ \A n : n \notin 1..Len(<<>>)
    BY <2>1, SeqIs, EmptyIsSeq
  <2> QED  BY <2>2, EmptyIsSeq DEF Recalling
<1>5. Serving(C, k, "recall", request[k], <<>>, encoder[k], sent[k], asked, lost, stash, Scene.reject)
  BY <1>3, <1>4 DEF Serving
<1>6. Sets(request, request', k, request[k]) /\ Sets(replay, replay', k, <<>>)
  BY <1>1, <1>2, ServingNow, SetsOne, SetsNone DEF ConnInv, Shape
<1> QED  BY <1>1, <1>2, <1>5, <1>6, PhaseStash DEF Decode

\* Nothing of it changes.
LEMMA StillStash ==
    ASSUME StashInv, UNCHANGED <<scene, transcript, asked, stash, lost, phase, request, replay, encoder, sent>>
    PROVE  StashInv'
<1>1. PICK C : Ledger(C)
  BY DEF StashInv
<1>2. Scene' = Scene
  BY DEF Scene
<1>3. Ledger(C)'
  BY <1>1, <1>2 DEF Ledger
<1> QED  BY <1>3 DEF StashInv

LEMMA EvictStash ==
    ASSUME ConnInv, StashInv, Evict
    PROVE  StashInv'
<1>1. PICK C : Ledger(C)
  BY DEF StashInv
<1>2. PICK x \in DOMAIN stash : stash' = Remove(stash, x) /\ lost' = lost \cup {x}
  BY DEF Evict
<1>3. UNCHANGED <<scene, transcript, asked, phase, request, replay, encoder, sent>>
  BY DEF Evict, conns
<1>4. DOMAIN stash' = DOMAIN stash \ {x} /\ \A y \in DOMAIN stash' : stash'[y] = stash[y]
  BY <1>2, RemoveIs
<1>5. GoesOn
  BY <1>2, <1>3, <1>4 DEF GoesOn, Safe
<1>6. Scene' = Scene
  BY <1>3 DEF Scene
<1>7. asked \in [Talks -> Nat] /\ \A v \in Talks : asked[v] <= asked'[v]
  BY <1>1, <1>3 DEF Ledger
<1>8. Extends(C, C) /\ DOMAIN C \ DOMAIN C = {}
  BY ExtendsSame
<1>9. ASSUME NEW k \in Conns
      PROVE  Serving(C, k, phase[k], request[k], replay[k], encoder[k], sent[k], asked', lost', stash', Scene.reject)
  <2> DEFINE p == phase[k]
             r == request[k]
             rp == replay[k]
             s == encoder[k]
             sn == sent[k]
  <2>1. Serving(C, k, p, r, rp, s, sn, asked, lost, stash, Scene.reject)
    BY <1>1, ServingNow
  <2>2. (p = "stash" => r # NoRequest) /\ (r # NoRequest => r.talk \in Talks)
    BY DEF ConnInv, Connection
  <2> HIDE DEF p, r, rp, s, sn
  <2>3. Serving(C, k, p, r, rp, s, sn, asked', lost', stash', Scene.reject)
    BY <1>3, <1>5, <1>7, <1>8, <2>1, <2>2, ServingLater
  <2> QED  BY <2>3 DEF p, r, rp, s, sn
<1>10. ASSUME NEW t, Heard(t, transcript, request) PROVE Known(C, t, phase', encoder', lost', stash')
  BY <1>1, <1>5, <1>8, <1>10, KnownLater DEF Ledger
<1>11. Ledger(C)'
  BY <1>1, <1>3, <1>4, <1>6, <1>9, <1>10 DEF Ledger
<1> QED  BY <1>11 DEF StashInv

\* A turn is looked up.
LEMMA FoundIsRight ==
    ASSUME NEW C, Ledger(C), NEW k \in Conns, phase[k] # "stash",
           NEW t, Known(C, t, phase, encoder, lost, stash), NEW key \in TurnKeys(t), key \in DOMAIN stash
    PROVE  Right(k, t, stash[key], lost) /\ stash[key] # <<>>
<1> DEFINE x == stash[key]
<1>1. Belongs(C, key, x)
  BY DEF Ledger
<1>2. ASSUME Expected(k, t, lost) PROVE x = t.payload
  <2>1. t.payload # <<>> /\ key \notin lost /\ (t.streamed => t.conn = k)
    BY <1>2 DEF Expected
  <2>2. Safe(key, t.payload, lost, stash) \/ (t.streamed /\ phase[t.conn] = "stash")
    BY <2>1 DEF Known, Kept
  <2> QED  BY <2>1, <2>2 DEF Safe
<1>3. ASSUME Distinctive(t) PROVE IsOwn(x, t.turn, t.calls)
  <2>1. PICK c \in t.calls : c.of # NoTurn
    BY <1>3 DEF Distinctive
  <2>2. key \in t.calls
    BY <2>1 DEF TurnKeys
  <2>3. "of" \in DOMAIN key /\ key.of = t.turn /\ t.turn # NoTurn /\ C[t.turn] = t.calls
    BY <1>3, <2>1, <2>2 DEF Known
  <2> QED  BY <1>1, <2>3 DEF Belongs
<1> QED  BY <1>1, <1>2, <1>3 DEF Right, Belongs

LEMMA MissIsRight ==
    ASSUME NEW C, NEW k \in Conns, phase[k] # "stash",
           NEW t, Known(C, t, phase, encoder, lost, stash), TurnKeys(t) \cap DOMAIN stash = {}
    PROVE  Right(k, t, <<>>, lost)
<1>1. ~ Expected(k, t, lost)
  <2> SUFFICES ASSUME Expected(k, t, lost) PROVE FALSE
    OBVIOUS
  <2>1. PICK key : key \in TurnKeys(t)
    BY DEF TurnKeys
  <2>2. t.payload # <<>> /\ key \notin lost /\ (t.streamed => t.conn = k)
    BY <2>1 DEF Expected
  <2>3. Safe(key, t.payload, lost, stash) \/ (t.streamed /\ phase[t.conn] = "stash")
    BY <2>1, <2>2 DEF Known, Kept
  <2> QED  BY <2>1, <2>2, <2>3 DEF Safe
<1>2. IsSeq(<<>>) /\ \A n : n \notin 1..Len(<<>>)
  BY EmptyIsSeq
<1> QED  BY <1>1, <1>2 DEF Right, IsOwn

LEMMA RecallingMore ==
    ASSUME NEW k, NEW r, NEW rp, NEW lo, NEW rej, Recalling(k, r, rp, lo, rej), IsSeq(r.turns),
           Len(rp) < Len(r.turns), NEW x, Right(k, r.turns[Len(rp) + 1], x, lo),
           rej /\ r.knobs.reasoning /\ r.turns[Len(rp) + 1].calls # {} => x # <<>>
    PROVE  Recalling(k, r, Append(rp, x), lo, rej)
<1> DEFINE q == Append(rp, x)
           m == Len(rp)
<1>1. /\ IsSeq(q) /\ m \in Nat /\ Len(q) = m + 1 /\ (\A n \in 1..m : q[n] = rp[n]) /\ q[m + 1] = x
  BY AppendIs DEF Recalling
<1>2. Len(r.turns) \in Nat /\ Len(q) <= Len(r.turns)
  BY <1>1, SeqIs DEF Recalling
<1> HIDE DEF q
<1>3. \A n \in 1..Len(q) : n \in 1..m \/ n = m + 1
  BY <1>1
<1>4. ASSUME NEW n \in 1..Len(q)
      PROVE  /\ Right(k, r.turns[n], q[n], lo)
             /\ rej /\ r.knobs.reasoning /\ r.turns[n].calls # {} => q[n] # <<>>
  <2>1. CASE n \in 1..m
    BY <1>1, <2>1 DEF Recalling
  <2>2. CASE n = m + 1
    <3>1. q[n] = x /\ r.turns[n] = r.turns[m + 1]
      BY <1>1, <2>2
    <3> QED  BY <3>1
  <2> QED  BY <1>3, <2>1, <2>2
<1>5. Recalling(k, r, q, lo, rej)
  BY <1>1, <1>2, <1>4 DEF Recalling
<1> QED  BY <1>5 DEF q

LEMMA RecallStash ==
    ASSUME ConnInv, StashInv, NEW k \in Conns, Recall(k)
    PROVE  StashInv'
<1> DEFINE r == request[k]
           rp == replay[k]
           t == r.turns[Len(rp) + 1]
           found == TurnKeys(t) \cap DOMAIN stash
<1>1. PICK C : Ledger(C)
  BY DEF StashInv
<1>2. Serving(C, k, phase[k], r, rp, encoder[k], sent[k], asked, lost, stash, Scene.reject)
      /\ DOMAIN replay = Conns /\ DOMAIN sent = Conns
  BY <1>1, ServingNow
<1>3. /\ phase[k] = "recall" /\ Len(rp) < Len(r.turns)
      /\ \/ \E key \in found : replay' = [replay EXCEPT ![k] = Append(@, stash[key])]
         \/ /\ found = {}
            /\ ~ (t.calls # {} /\ r.knobs.reasoning /\ Scene.reject)
            /\ replay' = [replay EXCEPT ![k] = Append(@, <<>>)]
      /\ UNCHANGED <<scene, transcript, asked, stash, phase, request, encoder, sent, lost>>
  BY DEF Recall, Turns, Missing
<1>4. r # NoRequest
  BY <1>3 DEF ConnInv, Connection
<1>5. Recalling(k, r, rp, lost, Scene.reject) /\ IsSeq(r.turns)
  BY <1>2, <1>3, <1>4 DEF Serving
<1>6. Known(C, t, phase, encoder, lost, stash)
  <2>1. Len(rp) \in Nat /\ Len(r.turns) \in Nat
    BY <1>5, SeqIs DEF Recalling
  <2>2. Len(rp) + 1 \in 1..Len(r.turns)
    BY <1>3, <2>1
  <2>3. Heard(t, transcript, request)
    BY <1>4, <2>2 DEF Heard
  <2> QED  BY <1>1, <2>3 DEF Ledger
<1>7. \E x : /\ replay' = [replay EXCEPT ![k] = Append(rp, x)] /\ Right(k, t, x, lost)
             /\ Scene.reject /\ r.knobs.reasoning /\ t.calls # {} => x # <<>>
  <2>1. phase[k] # "stash"
    BY <1>3
  <2>2. CASE \E key \in found : replay' = [replay EXCEPT ![k] = Append(@, stash[key])]
    <3>1. PICK key \in found : replay' = [replay EXCEPT ![k] = Append(@, stash[key])]
      BY <2>2
    <3>2. key \in TurnKeys(t) /\ key \in DOMAIN stash
      OBVIOUS
    <3> HIDE DEF t, found
    <3>3. Right(k, t, stash[key], lost) /\ stash[key] # <<>>
      BY <1>1, <1>6, <2>1, <3>2, FoundIsRight
    <3> QED  BY <3>1, <3>3
  <2>3. CASE /\ found = {}
             /\ ~ (t.calls # {} /\ r.knobs.reasoning /\ Scene.reject)
             /\ replay' = [replay EXCEPT ![k] = Append(@, <<>>)]
    <3>1. TurnKeys(t) \cap DOMAIN stash = {}
      BY <2>3
    <3> HIDE DEF t, found
    <3>2. Right(k, t, <<>>, lost)
      BY <1>6, <2>1, <3>1, MissIsRight
    <3> QED  BY <2>3, <3>2
  <2> QED  BY <1>3, <2>2, <2>3
<1>8. PICK x : /\ replay' = [replay EXCEPT ![k] = Append(rp, x)] /\ Right(k, t, x, lost)
               /\ Scene.reject /\ r.knobs.reasoning /\ t.calls # {} => x # <<>>
  BY <1>7
<1>9. Recalling(k, r, Append(rp, x), lost, Scene.reject)
  BY <1>3, <1>5, <1>8, RecallingMore
<1> HIDE DEF r, rp, t, found
<1>10. Serving(C, k, "recall", r, Append(rp, x), encoder[k], sent[k], asked, lost, stash, Scene.reject)
  BY <1>2, <1>3, <1>9 DEF Serving
<1>11. /\ Sets(phase, phase', k, "recall") /\ Sets(request, request', k, r) /\ Sets(replay, replay', k, Append(rp, x))
       /\ Sets(sent, sent', k, sent[k]) /\ Sets(encoder, encoder', k, encoder[k])
  <2>1. Shape
    BY DEF ConnInv
  <2>2. Sets(phase, phase', k, "recall")
    BY <1>3, <2>1 DEF Shape, Sets
  <2>3. Sets(request, request', k, r) /\ Sets(sent, sent', k, sent[k]) /\ Sets(encoder, encoder', k, encoder[k])
    BY <1>2, <1>3, <2>1, SetsNone DEF Shape, r
  <2>4. Sets(replay, replay', k, Append(rp, x))
    BY <1>2, <1>8, SetsOne
  <2> QED  BY <2>2, <2>3, <2>4
<1>12. phase[k] = "stash" => encoder[k].stash = {} \/ ("recall" = "stash" /\ encoder[k].stash = encoder[k].stash)
  BY <1>3
<1>13. r = NoRequest \/ r = request[k]
  BY DEF r
<1>14. UNCHANGED <<transcript, asked, stash, lost>> /\ scene' = scene
  BY <1>3
<1> QED  BY <1>1, <1>10, <1>11, <1>12, <1>13, <1>14, QuietStep

LEMMA InjectIs ==
    ASSUME NEW t, NEW q, IsSeq(q)
    PROVE  /\ Inject(t, q) = <<>> <=> q = <<>>
           /\ (\A n \in 1..Len(q) : q[n].type = "ToolUse" => q[n].id \in t.calls) => Inject(t, q) = q
<1> DEFINE U == {q[n] : n \in 1..Len(q)} \cup {Dropped}
           f == Inject(t, q)
<1>1. Len(q) \in Nat /\ DOMAIN q = 1..Len(q) /\ (q = <<>> <=> Len(q) = 0) /\ q = [n \in DOMAIN q |-> q[n]]
  <2>1. PICK S : q \in Seq(S)
    BY DEF IsSeq
  <2> QED  BY <2>1, SeqIs
<1>2. f = [n \in 1..Len(q) |->
             IF q[n].type # "ToolUse" \/ q[n].id \in t.calls THEN q[n] ELSE Dropped]
  BY DEF Inject
<1>3. f \in [1..Len(q) -> U]
  BY <1>2
<1> HIDE DEF f, U
<1>4. f \in Seq(U)
  BY <1>1, <1>3
<1>5. Len(f) = Len(q)
  BY <1>1, <1>3, <1>4
<1>6. f = <<>> <=> q = <<>>
  <2>1. IsSeq(f)
    BY <1>4 DEF IsSeq
  <2>2. f = <<>> <=> Len(f) = 0
    BY <2>1, SeqIs
  <2> QED  BY <1>1, <1>5, <2>2
<1>7. ASSUME \A n \in 1..Len(q) : q[n].type = "ToolUse" => q[n].id \in t.calls PROVE f = q
  <2>1. f = [n \in 1..Len(q) |-> q[n]]
    BY <1>2, <1>7
  <2> QED  BY <1>1, <2>1
<1> QED  BY <1>6, <1>7 DEF f

LEMMA InjectedRight ==
    ASSUME NEW C, NEW k, NEW t, NEW ph, NEW en, NEW lo, NEW st, Known(C, t, ph, en, lo, st),
           NEW q, Right(k, t, q, lo)
    PROVE  /\ Inject(t, q) = <<>> <=> q = <<>>
           /\ Expected(k, t, lo) => Inject(t, q) = t.payload
           /\ Distinctive(t) => \A m \in 1..Len(Inject(t, q)) : Inject(t, q)[m].turn = t.turn
<1>1. Inject(t, q) = <<>> <=> q = <<>>
  BY InjectIs DEF Right
<1>2. ASSUME Expected(k, t, lo) PROVE Inject(t, q) = t.payload
  <2>1. q = t.payload
    BY <1>2 DEF Right
  <2>2. \A n \in 1..Len(q) : q[n].type = "ToolUse" => q[n].id \in t.calls
    BY <2>1 DEF Known
  <2>3. Inject(t, q) = q
    BY <2>2, InjectIs DEF Right
  <2> QED  BY <2>1, <2>3
<1>3. ASSUME Distinctive(t) PROVE \A m \in 1..Len(Inject(t, q)) : Inject(t, q)[m].turn = t.turn
  <2>1. IsOwn(q, t.turn, t.calls)
    BY <1>3 DEF Right
  <2>2. Inject(t, q) = q
    BY <2>1, InjectIs DEF Right, IsOwn
  <2> QED  BY <2>1, <2>2 DEF IsOwn
<1> QED  BY <1>1, <1>2, <1>3

LEMMA GenerateStash ==
    ASSUME ConnInv, StashInv, NEW k \in Conns, Generate(k)
    PROVE  StashInv'
<1> DEFINE r == request[k]
           rp == replay[k]
           ts == r.turns
           sn == [reasoning |-> r.knobs.reasoning, adapted |-> Fired(k), turns |-> ts,
                  replay |-> [n \in 1..Len(ts) |-> Inject(ts[n], rp[n])]]
           d == IF r.route = "messages" THEN "messages" ELSE "chat"
           rej == Scene.reject
<1>1. PICK C : Ledger(C)
  BY DEF StashInv
<1>2. Serving(C, k, phase[k], r, rp, encoder[k], sent[k], asked, lost, stash, rej)
      /\ DOMAIN replay = Conns /\ DOMAIN sent = Conns
  BY <1>1, ServingNow
<1>3. /\ phase[k] = "recall" /\ Len(rp) = Len(ts)
      /\ phase' = [phase EXCEPT ![k] = "events"] /\ sent' = [sent EXCEPT ![k] = sn]
      /\ UNCHANGED <<scene, listening, transcript, asked, stash, request, replay, wire, gone, lost, stored>>
  BY DEF Generate, Recalled, Turns
<1>4. PICK a \in Answers[Scene.answers[r.talk]] :
          encoder' = [encoder EXCEPT ![k] =
                ForRequest(d, [turn |-> <<r.talk, r.number>>, provider |-> a.provider, text |-> a.text,
                               explained |-> a.explained], r.knobs, Fired(k))]
  BY Zenon DEF Generate
<1> DEFINE z == [turn |-> <<r.talk, r.number>>, provider |-> a.provider, text |-> a.text, explained |-> a.explained]
           s == ForRequest(d, z, r.knobs, Fired(k))
<1>5. encoder' = [encoder EXCEPT ![k] = s]
  BY <1>4
<1>6. s.answer.turn = Turn(r) /\ s.adapted = Fired(k)
  BY DEF ForRequest, Turn
<1>7. r # NoRequest
  BY <1>3 DEF ConnInv, Connection
<1>8. Recalling(k, r, rp, lost, rej) /\ IsSeq(ts)
  BY <1>2, <1>3, <1>7 DEF Serving
<1>9. ASSUME NEW n \in 1..Len(ts)
      PROVE  /\ Inject(ts[n], rp[n]) = <<>> <=> rp[n] = <<>>
             /\ Expected(k, ts[n], lost) => Inject(ts[n], rp[n]) = ts[n].payload
             /\ Distinctive(ts[n]) =>
                  \A m \in 1..Len(Inject(ts[n], rp[n])) : Inject(ts[n], rp[n])[m].turn = ts[n].turn
             /\ rej /\ r.knobs.reasoning /\ ts[n].calls # {} => rp[n] # <<>>
  <2>1. Heard(ts[n], transcript, request)
    BY <1>7 DEF Heard
  <2>2. Known(C, ts[n], phase, encoder, lost, stash)
    BY <1>1, <2>1 DEF Ledger
  <2>3. Right(k, ts[n], rp[n], lost) /\ (rej /\ r.knobs.reasoning /\ ts[n].calls # {} => rp[n] # <<>>)
    BY <1>3, <1>8 DEF Recalling
  <2> QED  BY <2>2, <2>3, InjectedRight
<1>10. /\ sn.reasoning = r.knobs.reasoning /\ sn.turns = ts
       /\ \A n \in 1..Len(ts) : sn.replay[n] = Inject(ts[n], rp[n])
  OBVIOUS
<1>11. Fired(k) <=> r.knobs.reasoning /\ \E n \in 1..Len(ts) : ts[n].calls # {} /\ rp[n] = <<>>
  BY DEF Fired, Turns, Missing
<1> HIDE DEF s, sn, r, rp, ts, z, d, rej
<1>12. Degraded(sn) <=> Fired(k)
  BY <1>9, <1>10, <1>11 DEF Degraded
<1>13. SentWell(k, sn, lost, rej)
  <2>1. Degraded(sn) => ~ rej
    BY <1>9, <1>11, <1>12
  <2> QED  BY <1>9, <1>10, <2>1 DEF SentWell
<1>14. Serving(C, k, "events", r, rp, s, sn, asked, lost, stash, rej)
  <2>1. s.answer.turn = Turn(r) /\ (s.adapted <=> Degraded(sn))
    BY <1>6, <1>12
  <2> QED  BY <1>2, <1>3, <1>13, <2>1 DEF Serving
<1>15. /\ Sets(phase, phase', k, "events") /\ Sets(request, request', k, r) /\ Sets(replay, replay', k, rp)
       /\ Sets(sent, sent', k, sn) /\ Sets(encoder, encoder', k, s)
  BY <1>2, <1>3, <1>5, SetsOne, SetsNone DEF ConnInv, Shape, r, rp
<1>16. phase[k] = "stash" => encoder[k].stash = {} \/ ("events" = "stash" /\ s.stash = encoder[k].stash)
  BY <1>3
<1>17. r = NoRequest \/ r = request[k]
  BY DEF r
<1>18. UNCHANGED <<transcript, asked, stash, lost>> /\ scene' = scene
  BY <1>3
<1>19. Serving(C, k, "events", r, rp, s, sn, asked, lost, stash, Scene.reject)
  BY <1>14 DEF rej
<1> QED  BY <1>1, <1>15, <1>16, <1>17, <1>18, <1>19, QuietStep

LEMMA SendStash ==
    ASSUME ConnInv, StashInv, NEW k \in Conns, NEW v \in Talks, NEW z, Send(k, v, z)
    PROVE  StashInv'
<1> DEFINE r == [route |-> z.route, talk |-> v, number |-> asked'[v], knobs |-> z, turns |-> transcript[v]]
<1>1. PICK C : Ledger(C)
  BY DEF StashInv
<1>2. Serving(C, k, phase[k], request[k], replay[k], encoder[k], sent[k], asked, lost, stash, Scene.reject)
      /\ DOMAIN replay = Conns /\ DOMAIN sent = Conns
  BY <1>1, ServingNow
<1>3. /\ phase[k] = "read" /\ request[k] = NoRequest /\ asked' = [asked EXCEPT ![v] = @ + 1]
      /\ request' = [request EXCEPT ![k] = r]
      /\ UNCHANGED <<scene, transcript, stash, phase, replay, encoder, sent, lost>>
  BY DEF Send
<1>4. /\ asked \in [Talks -> Nat] /\ DOMAIN transcript = Talks /\ (\A y \in Talks : IsSeq(transcript[y]))
      /\ (\A n : <<v, n>> \in DOMAIN C => n \in Nat /\ n <= asked[v])
      /\ \A key \in DOMAIN stash : Belongs(C, key, stash[key])
  BY <1>1 DEF Ledger
<1>5. asked' \in [Talks -> Nat] /\ asked'[v] = asked[v] + 1 /\ asked[v] \in Nat
      /\ \A y \in Talks : asked[y] <= asked'[y]
  BY <1>3, <1>4
<1>6. r.talk = v /\ r.number = asked'[v] /\ r.turns = transcript[v]
  OBVIOUS
<1> HIDE DEF r
<1>7. Serving(C, k, "read", r, replay[k], encoder[k], sent[k], asked', lost', stash', Scene.reject)
  <2>1. SentWell(k, sent[k], lost', Scene.reject)
    BY <1>2, <1>3 DEF Serving
  <2>2. r.number \in Nat /\ r.number <= asked'[r.talk] /\ IsSeq(r.turns)
    BY <1>4, <1>5, <1>6
  <2>3. Turn(r) \notin DOMAIN C
    <3>1. ~ (asked[v] + 1 <= asked[v])
      BY <1>5
    <3>2. <<v, asked[v] + 1>> \notin DOMAIN C
      BY <1>4, <3>1
    <3> QED  BY <1>5, <1>6, <3>2 DEF Turn
  <2> QED  BY <2>1, <2>2, <2>3 DEF Serving
<1>8. /\ Sets(phase, phase', k, "read") /\ Sets(request, request', k, r) /\ Sets(replay, replay', k, replay[k])
      /\ Sets(sent, sent', k, sent[k]) /\ Sets(encoder, encoder', k, encoder[k])
  <2>1. Shape
    BY DEF ConnInv
  <2>2. Sets(phase, phase', k, "read")
    BY <1>3, <2>1 DEF Shape, Sets
  <2> QED  BY <1>2, <1>3, <2>1, <2>2, SetsOne, SetsNone DEF Shape
<1>9. GoesOn
  <2>1. phase[k] = "stash" => encoder[k].stash = {} \/ ("read" = "stash" /\ encoder[k].stash = encoder[k].stash)
    BY <1>3
  <2>2. UNCHANGED <<stash, lost>>
    BY <1>3
  <2> QED  BY <1>8, <2>1, <2>2, StillGoesOn
<1>10. \A t : Heard(t, transcript', request') =>
                    Heard(t, transcript, request) \/ Known(C, t, phase', encoder', lost', stash')
  <2> SUFFICES ASSUME NEW t, Heard(t, transcript', request') PROVE Heard(t, transcript, request)
    OBVIOUS
  <2>1. CASE \E y \in Talks : \E n \in 1..Len(transcript'[y]) : t = transcript'[y][n]
    BY <1>3, <2>1 DEF Heard
  <2>2. CASE \E j \in Conns : request'[j] # NoRequest /\ \E n \in 1..Len(request'[j].turns) : t = request'[j].turns[n]
    <3>1. PICK j \in Conns : request'[j] # NoRequest /\ \E n \in 1..Len(request'[j].turns) : t = request'[j].turns[n]
      BY <2>2
    <3>2. CASE j = k
      BY <1>6, <1>8, <3>1, <3>2 DEF Heard, Sets
    <3>3. CASE j # k
      BY <1>8, <3>1, <3>3 DEF Heard, Sets
    <3> QED  BY <3>2, <3>3
  <2> QED  BY <2>1, <2>2 DEF Heard
<1>11. r # NoRequest => r = request[k] \/ (r.talk \in Talks /\ r.number > asked[r.talk])
  BY <1>5, <1>6
<1>12. Extends(C, C) /\ \A x \in DOMAIN C \ DOMAIN C : request[k] # NoRequest /\ x = Turn(request[k])
  BY ExtendsSame
<1>13. /\ scene' = scene /\ DOMAIN transcript' = Talks /\ (\A y \in Talks : IsSeq(transcript'[y]))
       /\ \A key \in DOMAIN stash' : Belongs(C, key, stash'[key])
  BY <1>3, <1>4
<1>14. asked' \in [Talks -> Nat] /\ \A y \in Talks : asked[y] <= asked'[y]
  BY <1>5
<1>15. Ledger(C)'
  BY <1>1, <1>7, <1>8, <1>9, <1>10, <1>11, <1>12, <1>13, <1>14, LedgerStep
<1> QED  BY <1>15 DEF StashInv

(***************************************************************************)
(* What a client reads of a whole answer.                                  *)
(***************************************************************************)
TurnRead(k, s, w) ==
    LET b == Assembled(s.dialect, w)
    IN  [turn |-> s.answer.turn, calls |-> CallsIn(b), text |-> IF HasText(b) THEN s.answer.text ELSE 0,
         payload |-> s.blocks, streamed |-> s.stream, conn |-> k]

\* The response w to the answer s is read to its end.
WholeRead(s, w) ==
    /\ ~ Failed(w)
    /\ IF s.stream THEN w.head = "sse" /\ Finished(s, w.frames)
       ELSE w = Full(StatusOf(s), s.out) /\ Finished(s, <<>>)

LEMMA AnswerRead ==
    ASSUME NEW s, NEW w, WholeRead(s, w)
    PROVE  LET b == Assembled(s.dialect, w)
           IN  CallsIn(b) = CallsOf(s) /\ (s.dialect = "chat" => (HasText(b) <=> s.text # <<>>))
<1> DEFINE b == Assembled(s.dialect, w)
           fs == IF s.stream THEN w.frames ELSE <<>>
<1>1. Finished(s, fs) /\ Ends(s, fs)
  BY DEF WholeRead, Finished, ChatEnds, MessagesEnds
<1>2. s.error = 0
  <2>1. CASE s.stream
    BY <1>1, <2>1 DEF Ends, Fails, HasFrame, WholeRead, Failed
  <2>2. CASE ~ s.stream
    <3>1. PICK x : s.out = Append(<<>>, x) /\ (s.error # 0 <=> x.frame.type = "error")
      BY <1>1, <2>2 DEF Ends
    <3>2. Len(s.out) = 1 /\ s.out[1] = x
      <4>1. /\ Len(Append(<<>>, x)) = Len(<<>>) + 1 /\ Append(<<>>, x)[Len(<<>>) + 1] = x
        BY EmptyIsSeq, AppendIs
      <4> QED  BY <3>1, <4>1, EmptyIsSeq
    <3>3. ~ (\E n \in 1..Len(s.out) : s.out[n].frame.type = "error")
      BY <2>2 DEF WholeRead, Failed, Full
    <3> QED  BY <3>1, <3>2, <3>3
  <2> QED  BY <2>1, <2>2
<1>3. CASE s.dialect = "chat"
  <2>1. b.type = "completion" /\ b.text = s.text /\ DOMAIN b.tools = 1..Len(s.tools)
        /\ \A n \in 1..Len(s.tools) : b.tools[n].id = s.tools[n].id
    <3>1. CASE s.stream
      <4>1. b = GatheredChat(s)
        BY <1>1, <1>3, <3>1 DEF Finished, ChatEnds, WholeRead, Assembled
      <4>2. GatheredChat(s).type = "completion" /\ GatheredChat(s).text = s.text
            /\ GatheredChat(s).tools = GatheredCalls(s)
        BY DEF GatheredChat, Completion
      <4>3. DOMAIN GatheredCalls(s) = 1..Len(s.tools)
            /\ \A n \in 1..Len(s.tools) : GatheredCalls(s)[n].id = s.tools[n].id
        BY DEF GatheredCalls
      <4> HIDE DEF b
      <4> QED  BY <4>1, <4>2, <4>3
    <3>2. CASE ~ s.stream
      <4>1. PICK x : s.out = Append(<<>>, x) /\ x.frame = ChatBody(s)
        BY <1>1, <1>2, <1>3, <3>2 DEF Ends
      <4>2. Append(<<>>, x)[1] = x
        BY EmptyIsSeq, AppendIs
      <4>3. b = w.frames[1].frame /\ w.frames = s.out
        BY <3>2 DEF WholeRead, Full, Assembled
      <4>4. b = ChatBody(s)
        BY <4>1, <4>2, <4>3
      <4> HIDE DEF b
      <4> QED  BY <4>4 DEF ChatBody
    <3> QED  BY <3>1, <3>2
  <2> HIDE DEF b
  <2>2. CallsIn(b) = CallsOf(s) /\ (HasText(b) <=> s.text # <<>>)
    BY <1>3, <2>1 DEF CallsIn, CallsOf, HasText
  <2> QED  BY <2>2 DEF b
<1>4. CASE s.dialect # "chat"
  <2>1. b.type = "message" /\ b.content = s.content
    <3>1. CASE s.stream
      BY <1>1, <1>2, <1>4, <3>1 DEF Finished, MessagesEnds, WholeRead, Assembled
    <3>2. CASE ~ s.stream
      <4>1. PICK x : s.out = Append(<<>>, x)
                     /\ x.frame = [type |-> "message", content |-> s.content, finish |-> s.finish,
                                   usage |-> s.counted]
        BY <1>1, <1>2, <1>4, <3>2 DEF Ends
      <4>2. Append(<<>>, x)[1] = x
        BY EmptyIsSeq, AppendIs
      <4>3. b = w.frames[1].frame /\ w.frames = s.out
        BY <3>2 DEF WholeRead, Full, Assembled
      <4>4. b = x.frame
        BY <4>1, <4>2, <4>3
      <4> HIDE DEF b
      <4> QED  BY <4>1, <4>4
    <3> QED  BY <3>1, <3>2
  <2> HIDE DEF b
  <2>2. CallsIn(b) = CallsOf(s)
    BY <1>4, <2>1 DEF CallsIn, CallsOf
  <2> QED  BY <1>4, <2>2 DEF b
<1> QED  BY <1>3, <1>4

\* The ids of the calls of an answer are of one origin.
LEMMA CallsAre ==
    ASSUME NEW s, NEW fs, Finished(s, fs)
    PROVE  /\ \A c \in CallsOf(s) : IsIdOf(s.answer, c)
           /\ \A n \in 1..Len(s.blocks) :
                s.blocks[n].turn = s.answer.turn /\ (s.blocks[n].type = "ToolUse" => s.blocks[n].id \in CallsOf(s))
           /\ IsSeq(s.blocks) /\ (s.blocks # <<>> => s.dialect = "chat")
<1>1. IsEncoder(s)
  BY DEF Finished, ChatEnds, MessagesEnds, Ends
<1>2. CASE s.dialect = "chat"
  BY <1>1, <1>2 DEF Finished, ChatEnds, OwnBlocks, CallsOf, IsCall, IsEncoder
<1>3. CASE s.dialect # "chat"
  <2>1. s.blocks = <<>> /\ \A n : n \notin 1..Len(<<>>)
    BY <1>3, EmptyIsSeq DEF Finished, MessagesEnds
  <2>2. \A c \in CallsOf(s) : IsIdOf(s.answer, c)
    BY <1>3 DEF Finished, MessagesEnds, CallsOf
  <2> QED  BY <1>1, <2>1, <2>2 DEF IsEncoder
<1> QED  BY <1>2, <1>3

\* The client echoes the keys under which what it cannot carry is stashed.
LEMMA KeysAre ==
    ASSUME NEW k, NEW s, NEW w, WholeRead(s, w), s.dialect = "chat"
    PROVE  TurnKeys(TurnRead(k, s, w)) = Keys(s)
<1> DEFINE t == TurnRead(k, s, w)
<1>1. t.calls = CallsOf(s) /\ t.text = IF s.text # <<>> THEN s.answer.text ELSE 0
  BY AnswerRead DEF TurnRead
<1>2. IsSeq(s.tools)
  BY DEF WholeRead, Finished, ChatEnds, Ends, IsEncoder
<1>3. s.tools = <<>> <=> CallsOf(s) = {}
  <2>1. CallsOf(s) = {s.tools[n].id : n \in 1..Len(s.tools)}
    BY DEF CallsOf
  <2>2. Len(s.tools) \in Nat /\ (s.tools = <<>> <=> Len(s.tools) = 0)
    BY <1>2, SeqIs
  <2>3. s.tools # <<>> => 1 \in 1..Len(s.tools)
    BY <2>2
  <2>4. s.tools = <<>> => 1..Len(s.tools) = {}
    BY <2>2
  <2> QED  BY <2>1, <2>3, <2>4
<1> HIDE DEF t
<1>4. TurnKeys(t) = Keys(s)
  <2>1. CASE s.tools = <<>>
    BY <1>1, <1>3, <2>1 DEF TurnKeys, Keys
  <2>2. CASE s.tools # <<>>
    BY <1>1, <1>3, <2>2 DEF TurnKeys, Keys, CallsOf
  <2> QED  BY <2>1, <2>2
<1> QED  BY <1>4 DEF t

LEMMA ReadIsKnown ==
    ASSUME NEW C, NEW k \in Conns, NEW s, NEW w, WholeRead(s, w),
           s.answer.turn \in DOMAIN C, C[s.answer.turn] = CallsOf(s), NEW ph, NEW en, NEW lo, NEW st,
           s.dialect = "chat" /\ s.blocks # <<>> =>
             \A key \in Keys(s) :
                \/ Safe(key, s.blocks, lo, st)
                \/ s.stream /\ ph[k] = "stash" /\ [key |-> key, payload |-> s.blocks] \in en[k].stash
    PROVE  Known(C, TurnRead(k, s, w), ph, en, lo, st)
<1> DEFINE t == TurnRead(k, s, w)
<1>1. t.calls = CallsOf(s) /\ t.turn = s.answer.turn /\ t.payload = s.blocks /\ t.streamed = s.stream /\ t.conn = k
  BY AnswerRead DEF TurnRead
<1>2. s.dialect = "chat" => TurnKeys(t) = Keys(s)
  BY KeysAre
<1>3. /\ \A c \in CallsOf(s) : IsIdOf(s.answer, c)
      /\ \A n \in 1..Len(s.blocks) : s.blocks[n].type = "ToolUse" => s.blocks[n].id \in CallsOf(s)
      /\ IsSeq(s.blocks) /\ (s.blocks # <<>> => s.dialect = "chat")
  <2>1. PICK fs : Finished(s, fs)
    BY DEF WholeRead
  <2> QED  BY <2>1, CallsAre
<1> HIDE DEF t
<1>4. Kept(t, ph, en, lo, st)
  <2> SUFFICES ASSUME t.payload # <<>>, NEW key \in TurnKeys(t)
               PROVE  \/ Safe(key, t.payload, lo, st)
                      \/ /\ t.streamed /\ ph[t.conn] = "stash"
                         /\ [key |-> key, payload |-> t.payload] \in en[t.conn].stash
    BY DEF Kept
  <2>1. s.dialect = "chat" /\ s.blocks # <<>> /\ key \in Keys(s)
    BY <1>1, <1>2, <1>3
  <2>2. \/ Safe(key, s.blocks, lo, st)
        \/ s.stream /\ ph[k] = "stash" /\ [key |-> key, payload |-> s.blocks] \in en[k].stash
    BY <2>1
  <2> QED  BY <1>1, <2>2
<1>5. ASSUME Distinctive(t), NEW c \in t.calls PROVE c.of = t.turn
  <2>1. PICK x \in t.calls : x.of # NoTurn
    BY <1>5 DEF Distinctive
  <2>2. x.of = Of(s.answer) /\ c.of = Of(s.answer)
    BY <1>1, <1>3, <2>1 DEF IsIdOf
  <2> QED  BY <1>1, <2>1, <2>2 DEF Of
<1>6. \A c \in t.calls : "of" \in DOMAIN c
  BY <1>1, <1>3 DEF IsIdOf
<1>7. Known(C, t, ph, en, lo, st)
  BY <1>1, <1>3, <1>4, <1>5, <1>6 DEF Known
<1> QED  BY <1>7 DEF t

LEMMA LastOf ==
    ASSUME NEW q, IsSeq(q), NEW r, IsSeq(r), r # <<>>
    PROVE  \E n \in 1..Len(q \o r) : (q \o r)[n] = r[Len(r)]
<1>1. PICK S : q \in Seq(S)
  BY DEF IsSeq
<1>2. PICK T : r \in Seq(T)
  BY DEF IsSeq
<1>3. q \in Seq(S \cup T) /\ r \in Seq(S \cup T)
  BY <1>1, <1>2
<1>4. Len(q) \in Nat /\ Len(r) \in Nat /\ Len(r) # 0
  BY SeqIs
<1>5. Len(q \o r) = Len(q) + Len(r) /\ Len(q) + Len(r) \in 1..Len(q \o r)
  BY <1>3, <1>4
<1>6. (q \o r)[Len(q) + Len(r)] = r[Len(r)]
  BY <1>3, <1>4
<1> QED  BY <1>5, <1>6

\* An answer that is not whole is not over.
LEMMA NotOver ==
    ASSUME NEW t, NEW fs, IsSeq(fs), NEW d, Runs(t, fs \o t.out, d), t.stream, t.out # <<>>
    PROVE  t.out[Len(t.out)].frame.type # Closing(t.dialect)
<1> DEFINE o == t.out
<1>1. IsSeq(o) /\ o # <<>>
  BY RunsAre DEF IsEncoder
<1> HIDE DEF o
<1>2. PICK n \in 1..Len(fs \o o) : (fs \o o)[n] = o[Len(o)]
  BY <1>1, LastOf
<1>3. ~ HasFrame(fs \o o, Closing(t.dialect))
  BY DEF Runs, ChatRuns, MessagesRuns, ChatSays, MessagesSays, Closing, o
<1>4. o[Len(o)].frame.type # Closing(t.dialect)
  BY <1>2, <1>3 DEF HasFrame
<1> QED  BY <1>4 DEF o

LEMMA ReadIs ==
    ASSUME NEW k \in Conns, ReadAnswer(k)
    PROVE  \/ transcript' = transcript
           \/ /\ wire'[k].over /\ ~ wire[k].over /\ ~ Failed(wire'[k])
              /\ transcript' = [transcript EXCEPT ![request[k].talk] =
                                  Append(transcript[request[k].talk], TurnRead(k, encoder'[k], wire'[k]))]
BY DEF ReadAnswer, TurnRead

LEMMA ReadHeard ==
    ASSUME DOMAIN transcript = Talks, \A v \in Talks : IsSeq(transcript[v]), NEW z \in Talks, NEW t,
           transcript' = [transcript EXCEPT ![z] = Append(transcript[z], t)],
           NEW k \in Conns, NEW r, Sets(request, request', k, r), r = NoRequest \/ r = request[k]
    PROVE  /\ DOMAIN transcript' = Talks /\ \A v \in Talks : IsSeq(transcript'[v])
           /\ \A y : Heard(y, transcript', request') => Heard(y, transcript, request) \/ y = t
<1> DEFINE q == transcript[z]
           m == Len(q)
<1>1. /\ IsSeq(Append(q, t)) /\ m \in Nat /\ Len(Append(q, t)) = m + 1
      /\ (\A n \in 1..m : Append(q, t)[n] = q[n]) /\ Append(q, t)[m + 1] = t
  BY AppendIs
<1>2. \A v \in Talks : transcript'[v] = IF v = z THEN Append(q, t) ELSE transcript[v]
  OBVIOUS
<1>3. DOMAIN transcript' = Talks /\ \A v \in Talks : IsSeq(transcript'[v])
  BY <1>1, <1>2
<1>4. ASSUME NEW v \in Talks, NEW n \in 1..Len(transcript'[v])
      PROVE  Heard(transcript'[v][n], transcript, request) \/ transcript'[v][n] = t
  <2>1. CASE v = z
    <3>1. transcript'[v] = Append(q, t)
      BY <1>2, <2>1
    <3>2. n \in 1..m \/ n = m + 1
      BY <1>1, <3>1
    <3>3. CASE n \in 1..m
      <4>1. transcript'[v][n] = transcript[z][n]
        BY <1>1, <3>1, <3>3
      <4> QED  BY <3>3, <4>1 DEF Heard
    <3> QED  BY <1>1, <3>1, <3>2, <3>3
  <2>2. CASE v # z
    BY <1>2, <2>2 DEF Heard
  <2> QED  BY <2>1, <2>2
<1>5. ASSUME NEW j \in Conns, request'[j] # NoRequest, NEW n \in 1..Len(request'[j].turns)
      PROVE  Heard(request'[j].turns[n], transcript, request)
  <2>1. request'[j] = request[j]
    BY <1>5 DEF Sets
  <2> QED  BY <1>5, <2>1 DEF Heard
<1>6. ASSUME NEW y, Heard(y, transcript', request') PROVE Heard(y, transcript, request) \/ y = t
  <2>1. CASE \E v \in Talks : \E n \in 1..Len(transcript'[v]) : y = transcript'[v][n]
    BY <1>4, <2>1
  <2>2. CASE \E j \in Conns : request'[j] # NoRequest /\ \E n \in 1..Len(request'[j].turns) : y = request'[j].turns[n]
    BY <1>5, <2>2
  <2> QED  BY <1>6, <2>1, <2>2 DEF Heard
<1> QED  BY <1>3, <1>6

\* The encoder goes on.
LEMMA EncodeStash ==
    ASSUME ConnInv, StashInv, NEW k \in Conns, Encodes(k), Head(events[k]).type # "End"
    PROVE  StashInv'
<1> DEFINE e == Head(events[k])
           s == encoder[k]
           t == EncodeResponse(e, Emptied(s))
           w == wire[k]
           fs == w.frames
<1>1. PICK C : Ledger(C)
  BY DEF StashInv
<1>2. /\ phase[k] = "events" /\ encoder' = [encoder EXCEPT ![k] = t]
      /\ wire' = [wire EXCEPT ![k] = Writes(w, t)]
      /\ phase' = [phase EXCEPT ![k] = IF Len(events[k]) = 1 THEN "stash" ELSE "events"]
      /\ ReadAnswer(k) /\ UNCHANGED <<scene, asked, stash, request, replay, sent, lost>>
  BY DEF Encodes
<1>3. Serving(C, k, "events", request[k], replay[k], s, sent[k], asked, lost, stash, Scene.reject)
      /\ DOMAIN replay = Conns /\ DOMAIN sent = Conns
  BY <1>1, <1>2, ServingNow
<1>4. Shape /\ Telling(events[k], s, exit[k], w)
  BY <1>2 DEF ConnInv, Connection
<1>5. PICK c : Follows(events[k], c) /\ Counts(events[k], s, c) /\ Runs(s, fs, c)
  BY <1>4 DEF Telling
<1>6. e \in Event /\ May(c, e) /\ InTime(s, c, e) /\ Len(events[k]) # 1
  BY <1>5, HeadMay, CountsNow
<1>7. Runs(t, fs \o t.out, Knows(c, e)) /\ Same(s, t)
  BY <1>5, <1>6, EventRuns, EncodeSame
<1>8. t.answer = s.answer /\ t.adapted = s.adapted
  BY <1>7 DEF Same, Given
<1> HIDE DEF t, s, w, e
<1>9. transcript' = transcript
  <2>1. IsSeq(fs)
    BY <1>5, RunsAre
  <2>2. ASSUME Writes(w, t) # w PROVE ~ Writes(w, t).over
    <3>1. t.stream /\ t.out # <<>>
      BY <2>2 DEF Writes
    <3>2. t.out[Len(t.out)].frame.type # Closing(t.dialect)
      BY <1>7, <2>1, <3>1, NotOver
    <3> QED  BY <3>1, <3>2 DEF Writes
  <2>3. wire'[k] = Writes(w, t)
    BY <1>2, <1>4 DEF Shape
  <2>4. ~ (wire'[k].over /\ ~ wire[k].over)
    BY <2>2, <2>3 DEF w
  <2> QED  BY <1>2, <2>4, ReadIs
<1>10. Serving(C, k, "events", request[k], replay[k], t, sent[k], asked, lost, stash, Scene.reject)
  BY <1>3, <1>8 DEF Serving
<1>11. /\ Sets(phase, phase', k, "events") /\ Sets(request, request', k, request[k])
       /\ Sets(replay, replay', k, replay[k]) /\ Sets(sent, sent', k, sent[k]) /\ Sets(encoder, encoder', k, t)
  BY <1>2, <1>3, <1>4, <1>6, SetsOne, SetsNone DEF Shape
<1>12. phase[k] = "stash" => encoder[k].stash = {} \/ ("events" = "stash" /\ t.stash = encoder[k].stash)
  BY <1>2
<1>13. UNCHANGED <<transcript, asked, stash, lost>> /\ scene' = scene
  BY <1>2, <1>9
<1> QED  BY <1>1, <1>10, <1>11, <1>12, <1>13, QuietStep

\* What is heard after a step that may end the reading of an answer.
LEMMA ReadStep ==
    ASSUME NEW C, Ledger(C), NEW k \in Conns, ReadAnswer(k), request[k].talk \in Talks,
           NEW r, Sets(request, request', k, r), r = NoRequest \/ r = request[k]
    PROVE  /\ DOMAIN transcript' = Talks /\ \A v \in Talks : IsSeq(transcript'[v])
           /\ \A y : Heard(y, transcript', request') =>
                \/ Heard(y, transcript, request)
                \/ /\ wire'[k].over /\ ~ wire[k].over /\ ~ Failed(wire'[k])
                   /\ y = TurnRead(k, encoder'[k], wire'[k])
<1>1. DOMAIN transcript = Talks /\ \A v \in Talks : IsSeq(transcript[v])
  BY DEF Ledger
<1>2. CASE transcript' = transcript
  <2>1. \A t : Heard(t, transcript', request') => Heard(t, transcript, request)
    BY <1>2, HeardLess
  <2> QED  BY <1>1, <1>2, <2>1
<1>3. CASE transcript' # transcript
  <2> DEFINE z == request[k].talk
             t == TurnRead(k, encoder'[k], wire'[k])
  <2>1. /\ wire'[k].over /\ ~ wire[k].over /\ ~ Failed(wire'[k])
        /\ transcript' = [transcript EXCEPT ![z] = Append(transcript[z], t)]
    BY <1>3, ReadIs
  <2>2. z \in Talks
    OBVIOUS
  <2> HIDE DEF z, t
  <2>3. /\ DOMAIN transcript' = Talks /\ \A v \in Talks : IsSeq(transcript'[v])
        /\ \A y : Heard(y, transcript', request') => Heard(y, transcript, request) \/ y = t
    BY <1>1, <2>1, <2>2, ReadHeard
  <2> QED  BY <2>1, <2>3 DEF t
<1> QED  BY <1>2, <1>3

\* The last event is told.
LEMMA EndStash ==
    ASSUME ConnInv, StashInv, NEW k \in Conns, Encodes(k), Head(events[k]).type = "End"
    PROVE  StashInv'
<1> DEFINE e == Head(events[k])
           s == encoder[k]
           t == EncodeResponse(e, Emptied(s))
           w == wire[k]
           v == Writes(w, t)
           r == request[k]
<1>1. PICK C : Ledger(C)
  BY DEF StashInv
<1>2. /\ phase[k] = "events" /\ encoder' = [encoder EXCEPT ![k] = t]
      /\ wire' = [wire EXCEPT ![k] = v]
      /\ phase' = [phase EXCEPT ![k] = IF Len(events[k]) = 1 THEN "stash" ELSE "events"]
      /\ ReadAnswer(k) /\ UNCHANGED <<scene, asked, stash, request, replay, sent, lost>>
  BY DEF Encodes
<1>3. Serving(C, k, "events", r, replay[k], s, sent[k], asked, lost, stash, Scene.reject)
      /\ DOMAIN replay = Conns /\ DOMAIN sent = Conns
  BY <1>1, <1>2, ServingNow
<1>4. Shape /\ Telling(events[k], s, exit[k], w) /\ r # NoRequest /\ r.talk \in Talks
  BY <1>2 DEF ConnInv, Connection
<1>5. PICK c : Follows(events[k], c) /\ Counts(events[k], s, c) /\ Runs(s, w.frames, c)
  BY <1>4 DEF Telling
<1>6. e \in Event /\ e.type = "End" /\ Len(events[k]) = 1
  BY <1>5, HeadMay
<1>7. Same(s, t)
  BY <1>5, <1>6, EncodeSame
<1>8. t.adapted = s.adapted /\ t.answer = s.answer
  BY <1>7 DEF Same, Given
<1>9. ToldAll(t, exit[k], v) /\ t.stash = IF t.dialect = "chat" THEN Pairs(t) ELSE {}
  BY <1>4, <1>6, EndTold
<1>10. wire'[k] = v /\ (v # w => t.stream)
  BY <1>2, <1>4 DEF Shape, Writes
<1> DEFINE T == Turn(r)
<1> HIDE DEF t, s, v, w, e, r
<1>11. T \notin DOMAIN C
  BY <1>3, <1>4 DEF Serving
<1>12. PICK D : Extends(C, D) /\ T \in DOMAIN D /\ D[T] = CallsOf(t) /\ DOMAIN D \ DOMAIN C = {T}
  <2> DEFINE E == [x \in DOMAIN C \cup {T} |-> IF x = T THEN CallsOf(t) ELSE C[x]]
  <2>1. Extends(C, E) /\ T \in DOMAIN E /\ E[T] = CallsOf(t) /\ DOMAIN E \ DOMAIN C = {T}
    BY <1>11 DEF Extends
  <2> HIDE DEF E
  <2> QED  BY <2>1
<1> HIDE DEF T
<1>13. /\ \A p \in t.stash : t.blocks # <<>> /\ p.payload = t.blocks /\ p.key \in Keys(t)
       /\ t.dialect = "chat" /\ t.blocks # <<>> =>
            \A key \in Keys(t) : [key |-> key, payload |-> t.blocks] \in t.stash
  <2>1. CASE t.dialect = "chat"
    <3>1. t.stash = IF t.blocks = <<>> THEN {} ELSE {[key |-> y, payload |-> t.blocks] : y \in Keys(t)}
      BY <1>9, <2>1 DEF Pairs
    <3> QED  BY <3>1
  <2>2. CASE t.dialect # "chat"
    BY <1>9, <2>2
  <2> QED  BY <2>1, <2>2
<1>14. Filed(t, lost, stash)
  BY <1>13 DEF Filed
<1>15. t.answer.turn = T
  BY <1>3, <1>8 DEF Serving, T
<1>16. Serving(D, k, "stash", r, replay[k], t, sent[k], asked, lost, stash, Scene.reject)
  BY <1>3, <1>8, <1>12, <1>14, <1>15 DEF Serving, T
<1>17. /\ Sets(phase, phase', k, "stash") /\ Sets(request, request', k, r)
       /\ Sets(replay, replay', k, replay[k]) /\ Sets(sent, sent', k, sent[k]) /\ Sets(encoder, encoder', k, t)
  BY <1>2, <1>3, <1>4, <1>6, SetsOne, SetsNone DEF Shape, r
<1>18. GoesOn
  <2>1. phase[k] = "stash" => encoder[k].stash = {} \/ ("stash" = "stash" /\ t.stash = encoder[k].stash)
    BY <1>2
  <2>2. UNCHANGED <<stash, lost>>
    BY <1>2
  <2> QED  BY <1>17, <2>1, <2>2, StillGoesOn
<1>19. ASSUME wire'[k].over, ~ wire[k].over, ~ Failed(wire'[k])
       PROVE  Known(D, TurnRead(k, encoder'[k], wire'[k]), phase', encoder', lost', stash')
  <2>1. encoder'[k] = t /\ wire'[k] = v /\ phase'[k] = "stash" /\ t.stream
    BY <1>10, <1>17, <1>19 DEF Sets, w
  <2>2. WholeRead(t, v)
    BY <1>9, <1>19, <2>1 DEF WholeRead, ToldAll, Headed
  <2>3. \A key \in Keys(t) : t.dialect = "chat" /\ t.blocks # <<>> =>
           t.stream /\ phase'[k] = "stash" /\ [key |-> key, payload |-> t.blocks] \in encoder'[k].stash
    BY <1>13, <2>1
  <2>4. t.answer.turn \in DOMAIN D /\ D[t.answer.turn] = CallsOf(t)
    BY <1>12, <1>15
  <2>5. Known(D, TurnRead(k, t, v), phase', encoder', lost', stash')
    BY <2>2, <2>3, <2>4, ReadIsKnown
  <2> QED  BY <2>1, <2>5
<1>20. r = NoRequest \/ r = request[k]
  BY DEF r
<1>21. /\ DOMAIN transcript' = Talks /\ \A x \in Talks : IsSeq(transcript'[x])
       /\ \A y : Heard(y, transcript', request') =>
                \/ Heard(y, transcript, request)
                \/ /\ wire'[k].over /\ ~ wire[k].over /\ ~ Failed(wire'[k])
                   /\ y = TurnRead(k, encoder'[k], wire'[k])
  BY <1>1, <1>2, <1>4, <1>17, <1>20, ReadStep DEF r
<1>22. \A y : Heard(y, transcript', request') =>
                    Heard(y, transcript, request) \/ Known(D, y, phase', encoder', lost', stash')
  BY <1>19, <1>21
<1>23. \A key \in DOMAIN stash' : Belongs(D, key, stash'[key])
  BY <1>1, <1>2, <1>12, BelongsLater DEF Ledger
<1>24. asked \in [Talks -> Nat] /\ asked' = asked /\ scene' = scene
  BY <1>1, <1>2 DEF Ledger
<1>25. asked' \in [Talks -> Nat] /\ \A x \in Talks : asked[x] <= asked'[x]
  BY <1>24
<1>26. Serving(D, k, "stash", r, replay[k], t, sent[k], asked', lost', stash', Scene.reject)
  BY <1>2, <1>16
<1>27. \A x \in DOMAIN D \ DOMAIN C : request[k] # NoRequest /\ x = Turn(request[k])
  BY <1>4, <1>12 DEF T, r
<1>28. Ledger(D)'
  BY <1>1, <1>12, <1>17, <1>18, <1>20, <1>21, <1>22, <1>23, <1>24, <1>25, <1>26, <1>27, LedgerStep
<1> QED  BY <1>28 DEF StashInv

LEMMA StashedIs ==
    ASSUME NEW s, IsEncoder(s), NEW z, NEW t, t = [s EXCEPT !.stash = z]
    PROVE  /\ t.stash = z /\ t.blocks = s.blocks /\ t.dialect = s.dialect /\ t.answer = s.answer
           /\ t.adapted = s.adapted /\ Keys(t) = Keys(s) /\ CallsOf(t) = CallsOf(s)
<1>1. Only(s, t, {"stash"}) /\ t.stash = z
  <2>1. DOMAIN s = Fields
    BY DEF IsEncoder
  <2> QED  BY <2>1 DEF IsEncoder, Only, Fields
<1>2. /\ t.blocks = s.blocks /\ t.dialect = s.dialect /\ t.answer = s.answer /\ t.adapted = s.adapted
      /\ t.tools = s.tools /\ t.text = s.text /\ t.content = s.content
  BY <1>1 DEF Only, Fields
<1> QED  BY <1>1, <1>2 DEF Keys, CallsOf

\* A pair that is to be stored belongs to the turn its key names.
LEMMA PairBelongs ==
    ASSUME NEW C, NEW s, NEW fs, Finished(s, fs), s.answer.turn \in DOMAIN C, C[s.answer.turn] = CallsOf(s),
           NEW key \in Keys(s), s.blocks # <<>>
    PROVE  Belongs(C, key, s.blocks)
<1>1. /\ \A c \in CallsOf(s) : IsIdOf(s.answer, c)
      /\ \A n \in 1..Len(s.blocks) :
           s.blocks[n].turn = s.answer.turn /\ (s.blocks[n].type = "ToolUse" => s.blocks[n].id \in CallsOf(s))
      /\ IsSeq(s.blocks) /\ s.dialect = "chat"
  BY CallsAre
<1>2. IsOwn(s.blocks, s.answer.turn, C[s.answer.turn])
  BY <1>1 DEF IsOwn
<1>3. ASSUME "of" \in DOMAIN key, key.of # NoTurn PROVE key.of = s.answer.turn
  <2>1. \A x : DOMAIN ContentKey(x) = {"text"}
    BY DEF ContentKey
  <2>2. key \in CallsOf(s)
    BY <1>1, <1>3, <2>1 DEF Keys, CallsOf
  <2> QED  BY <1>1, <1>3, <2>2 DEF IsIdOf, Of
<1> QED  BY <1>1, <1>2, <1>3 DEF Belongs

LEMMA StoredGoesOn ==
    ASSUME Shape, NEW k \in Conns, NEW pair, NEW t, t.stash = encoder[k].stash \ {pair},
           encoder' = [encoder EXCEPT ![k] = t], phase' = phase,
           \/ /\ stash' = Insert(stash, pair.key, pair.payload)
              /\ lost' = IF pair.key \in DOMAIN stash THEN lost \cup {pair.key} ELSE lost
           \/ lost' = lost \cup {pair.key} /\ stash' = stash
    PROVE  GoesOn /\ Safe(pair.key, pair.payload, lost', stash')
<1> DEFINE a == pair.key
           b == pair.payload
<1>1. /\ lost \subseteq lost'
      /\ \/ /\ stash' = Insert(stash, a, b)
            /\ lost' = IF a \in DOMAIN stash THEN lost \cup {a} ELSE lost
         \/ lost' = lost \cup {a} /\ stash' = stash
  OBVIOUS
<1> HIDE DEF a, b
<1>2. DOMAIN Insert(stash, a, b) = DOMAIN stash \cup {a} /\ Insert(stash, a, b)[a] = b
      /\ \A x \in DOMAIN stash : x # a => Insert(stash, a, b)[x] = stash[x]
  BY DEF Insert
<1>3. Safe(a, b, lost', stash')
  BY <1>1, <1>2 DEF Safe
<1>4. \A x \in DOMAIN stash : Safe(x, stash[x], lost', stash')
  BY <1>1, <1>2 DEF Safe
<1>5. ASSUME NEW j \in Conns, phase[j] = "stash", NEW p \in encoder[j].stash
      PROVE  (phase'[j] = "stash" /\ p \in encoder'[j].stash) \/ Safe(p.key, p.payload, lost', stash')
  <2>1. CASE j # k
    BY <1>5, <2>1 DEF Shape
  <2>2. CASE j = k /\ p = pair
    BY <1>3, <2>2 DEF a, b
  <2>3. CASE j = k /\ p # pair
    <3>1. encoder'[k] = t
      BY DEF Shape
    <3> QED  BY <1>5, <2>3, <3>1
  <2> QED  BY <2>1, <2>2, <2>3
<1> QED  BY <1>1, <1>3, <1>4, <1>5 DEF GoesOn, a, b

LEMMA StashStash ==
    ASSUME ConnInv, StashInv, NEW k \in Conns, Stash(k)
    PROVE  StashInv'
<1> DEFINE s == encoder[k]
           pair == CHOOSE p \in encoder[k].stash : TRUE
           z == s.stash \ {pair}
           t == [s EXCEPT !.stash = z]
           w == wire[k]
           r == request[k]
<1>1. PICK C : Ledger(C)
  BY DEF StashInv
<1>2. /\ phase[k] = "stash" /\ s.stash # {} /\ encoder' = [encoder EXCEPT ![k].stash = @ \ {pair}]
      /\ \/ /\ stash' = Insert(stash, pair.key, pair.payload)
            /\ lost' = IF pair.key \in DOMAIN stash THEN lost \cup {pair.key} ELSE lost
         \/ lost' = lost \cup {pair.key} /\ stash' = stash
      /\ UNCHANGED <<scene, transcript, asked, phase, request, replay, sent>>
  BY DEF Stash
<1>3. encoder' = [encoder EXCEPT ![k] = t] /\ pair \in s.stash
  BY <1>2
<1>4. Serving(C, k, "stash", r, replay[k], s, sent[k], asked, lost, stash, Scene.reject)
      /\ DOMAIN replay = Conns /\ DOMAIN sent = Conns
  BY <1>1, <1>2, ServingNow
<1>5. Shape /\ ToldAll(s, exit[k], w) /\ r # NoRequest
  BY <1>2 DEF ConnInv, Connection
<1>6. Finished(s, w.frames) /\ IsEncoder(s)
  BY <1>5 DEF ToldAll, Finished, ChatEnds, MessagesEnds, Ends
<1> HIDE DEF s, pair, w, r, z
<1>7. /\ t.stash = z /\ t.blocks = s.blocks /\ t.dialect = s.dialect /\ t.answer = s.answer
      /\ t.adapted = s.adapted /\ Keys(t) = Keys(s) /\ CallsOf(t) = CallsOf(s)
  BY <1>6, StashedIs
<1> HIDE DEF t
<1>8. Turn(r) \in DOMAIN C /\ C[Turn(r)] = CallsOf(s) /\ Filed(s, lost, stash) /\ s.answer.turn = Turn(r)
  BY <1>4 DEF Serving
<1>9. s.blocks # <<>> /\ pair.payload = s.blocks /\ pair.key \in Keys(s)
  BY <1>3, <1>8 DEF Filed
<1>10. Belongs(C, pair.key, pair.payload)
  <2>1. Belongs(C, pair.key, s.blocks)
    BY <1>6, <1>8, <1>9, PairBelongs
  <2> QED  BY <1>9, <2>1
<1>11. GoesOn /\ Safe(pair.key, pair.payload, lost', stash')
  BY <1>2, <1>3, <1>5, <1>7, StoredGoesOn DEF s, z
<1>12. Filed(t, lost', stash')
  <2>1. \A p \in t.stash : t.blocks # <<>> /\ p.payload = t.blocks /\ p.key \in Keys(t)
    BY <1>7, <1>8 DEF Filed, z
  <2>2. ASSUME t.dialect = "chat", t.blocks # <<>>, NEW key \in Keys(t)
        PROVE  Safe(key, t.blocks, lost', stash') \/ [key |-> key, payload |-> t.blocks] \in t.stash
    <3> DEFINE p == [key |-> key, payload |-> s.blocks]
    <3>1. Safe(key, s.blocks, lost, stash) \/ p \in s.stash
      BY <1>7, <1>8, <2>2 DEF Filed
    <3>2. p.key = key /\ p.payload = s.blocks
      OBVIOUS
    <3> HIDE DEF p
    <3>3. Safe(key, s.blocks, lost', stash') \/ p \in t.stash
      BY <1>7, <1>11, <3>1, <3>2, SafeLater DEF z
    <3> QED  BY <1>7, <3>3 DEF p
  <2> QED  BY <2>1, <2>2 DEF Filed
<1>13. Serving(C, k, "stash", r, replay[k], t, sent[k], asked, lost', stash', Scene.reject)
  <2>1. SentWell(k, sent[k], lost', Scene.reject)
    BY <1>4, <1>11, SentLater DEF Serving
  <2> QED  BY <1>4, <1>7, <1>8, <1>12, <2>1 DEF Serving
<1>14. /\ Sets(phase, phase', k, "stash") /\ Sets(request, request', k, r)
       /\ Sets(replay, replay', k, replay[k]) /\ Sets(sent, sent', k, sent[k]) /\ Sets(encoder, encoder', k, t)
  <2>1. Sets(phase, phase', k, "stash")
    BY <1>2, <1>5 DEF Shape, Sets
  <2> QED  BY <1>2, <1>3, <1>4, <1>5, <2>1, SetsOne, SetsNone DEF Shape, r
<1>15. r = NoRequest \/ r = request[k]
  BY DEF r
<1>16. \A y : Heard(y, transcript', request') =>
                 Heard(y, transcript, request) \/ Known(C, y, phase', encoder', lost', stash')
  BY <1>2, <1>14, <1>15, HeardLess
<1>17. \A key \in DOMAIN stash' : Belongs(C, key, stash'[key])
  <2>1. \A key \in DOMAIN stash : Belongs(C, key, stash[key])
    BY <1>1 DEF Ledger
  <2> DEFINE a == pair.key
             b == pair.payload
  <2> HIDE DEF a, b
  <2>2. DOMAIN Insert(stash, a, b) = DOMAIN stash \cup {a} /\ Insert(stash, a, b)[a] = b
        /\ \A x \in DOMAIN stash : x # a => Insert(stash, a, b)[x] = stash[x]
    BY DEF Insert
  <2>3. stash' = Insert(stash, a, b) \/ stash' = stash
    BY <1>2 DEF a, b
  <2>4. Belongs(C, a, b)
    BY <1>10 DEF a, b
  <2> QED  BY <2>1, <2>2, <2>3, <2>4
<1>18. /\ asked \in [Talks -> Nat] /\ asked' = asked /\ scene' = scene
       /\ DOMAIN transcript' = Talks /\ \A x \in Talks : IsSeq(transcript'[x])
  BY <1>1, <1>2 DEF Ledger
<1>19. asked' \in [Talks -> Nat] /\ \A x \in Talks : asked[x] <= asked'[x]
  BY <1>18
<1>20. Serving(C, k, "stash", r, replay[k], t, sent[k], asked', lost', stash', Scene.reject)
  BY <1>13, <1>18
<1>21. Extends(C, C) /\ \A x \in DOMAIN C \ DOMAIN C : request[k] # NoRequest /\ x = Turn(request[k])
  BY ExtendsSame
<1>22. Ledger(C)'
  BY <1>1, <1>11, <1>14, <1>15, <1>16, <1>17, <1>18, <1>19, <1>20, <1>21, LedgerStep
<1> QED  BY <1>22 DEF StashInv

\* The response ends.
LEMMA DeliversStash ==
    ASSUME ConnInv, StashInv, NEW k \in Conns, Delivers(k)
    PROVE  StashInv'
<1> DEFINE s == encoder[k]
           w == wire[k]
           v == Over(s, w)
           r == request[k]
<1>1. PICK C : Ledger(C)
  BY DEF StashInv
<1>2. /\ phase[k] = "stash" /\ s.stash = {} /\ wire' = [wire EXCEPT ![k] = v] /\ encoder' = encoder
      /\ ReadAnswer(k) /\ Served(k, FALSE) /\ UNCHANGED <<scene, asked, stash, replay, sent, lost>>
  BY DEF Delivers
<1>3. Serving(C, k, "stash", r, replay[k], s, sent[k], asked, lost, stash, Scene.reject)
      /\ DOMAIN replay = Conns /\ DOMAIN sent = Conns
  BY <1>1, <1>2, ServingNow
<1>4. Shape /\ ToldAll(s, exit[k], w) /\ r # NoRequest /\ r.talk \in Talks /\ IsResponse(w)
  BY <1>2 DEF ConnInv, Connection
<1>5. PICK p \in {"closed", "read"} : Sets(phase, phase', k, p) /\ Sets(request, request', k, NoRequest)
  <2>1. \E dead : Served(k, dead)
    BY <1>2
  <2> QED  BY <1>4, <2>1, ServedSets
<1>6. wire'[k] = v /\ encoder'[k] = s
  BY <1>2, <1>4 DEF Shape
<1>7. ASSUME ~ Failed(v) PROVE WholeRead(s, v)
  <2>1. Finished(s, w.frames) /\ (s.stream => Headed(w))
    BY <1>4 DEF ToldAll
  <2>2. CASE s.stream
    <3>1. v.head = w.head /\ v.frames = w.frames
      BY <1>4, <2>2 DEF Over, IsResponse
    <3> HIDE DEF v
    <3> QED  BY <1>7, <2>1, <2>2, <3>1 DEF WholeRead, Headed
  <2>3. CASE ~ s.stream
    <3>1. v = Full(StatusOf(s), s.out)
      BY <2>3 DEF Over
    <3> HIDE DEF s, w
    <3>2. Finished(s, <<>>)
      BY <2>1, <2>3, FinishedWhole
    <3> HIDE DEF v
    <3> QED  BY <1>7, <2>3, <3>1, <3>2 DEF WholeRead
  <2> QED  BY <2>2, <2>3
<1> HIDE DEF s, w, v, r
<1>8. Turn(r) \in DOMAIN C /\ C[Turn(r)] = CallsOf(s) /\ Filed(s, lost, stash) /\ s.answer.turn = Turn(r)
  BY <1>3, <1>4 DEF Serving
<1>9. Sets(replay, replay', k, replay[k]) /\ Sets(sent, sent', k, sent[k]) /\ Sets(encoder, encoder', k, s)
  BY <1>2, <1>3, <1>4, SetsNone DEF Shape, s
<1>10. GoesOn
  <2>1. phase[k] = "stash" => encoder[k].stash = {} \/ (p = "stash" /\ s.stash = encoder[k].stash)
    BY <1>2 DEF s
  <2>2. UNCHANGED <<stash, lost>>
    BY <1>2
  <2> QED  BY <1>5, <1>9, <2>1, <2>2, StillGoesOn
<1>11. ASSUME ~ Failed(v) PROVE Known(C, TurnRead(k, s, v), phase', encoder', lost', stash')
  <2>1. s.dialect = "chat" /\ s.blocks # <<>> => \A key \in Keys(s) : Safe(key, s.blocks, lost, stash)
    BY <1>2, <1>8 DEF Filed
  <2>2. s.dialect = "chat" /\ s.blocks # <<>> => \A key \in Keys(s) : Safe(key, s.blocks, lost', stash')
    BY <1>2, <2>1
  <2>3. WholeRead(s, v) /\ s.answer.turn \in DOMAIN C /\ C[s.answer.turn] = CallsOf(s)
    BY <1>7, <1>8, <1>11
  <2> QED  BY <2>2, <2>3, ReadIsKnown
<1>12. /\ DOMAIN transcript' = Talks /\ \A x \in Talks : IsSeq(transcript'[x])
       /\ \A y : Heard(y, transcript', request') =>
                \/ Heard(y, transcript, request)
                \/ /\ wire'[k].over /\ ~ wire[k].over /\ ~ Failed(wire'[k])
                   /\ y = TurnRead(k, encoder'[k], wire'[k])
  BY <1>1, <1>2, <1>4, <1>5, ReadStep DEF r
<1>13. \A y : Heard(y, transcript', request') =>
                    Heard(y, transcript, request) \/ Known(C, y, phase', encoder', lost', stash')
  BY <1>6, <1>11, <1>12
<1>14. /\ asked \in [Talks -> Nat] /\ asked' = asked /\ scene' = scene
       /\ \A key \in DOMAIN stash' : Belongs(C, key, stash'[key])
  BY <1>1, <1>2 DEF Ledger
<1>15. asked' \in [Talks -> Nat] /\ \A x \in Talks : asked[x] <= asked'[x]
  BY <1>14
<1>16. Serving(C, k, p, NoRequest, replay[k], s, sent[k], asked', lost', stash', Scene.reject)
  BY <1>2, <1>3, <1>5, IdleServing
<1>17. Extends(C, C) /\ \A x \in DOMAIN C \ DOMAIN C : request[k] # NoRequest /\ x = Turn(request[k])
  BY ExtendsSame
<1>18. NoRequest # NoRequest => NoRequest = request[k] \/ (NoRequest.talk \in Talks /\ NoRequest.number > asked[NoRequest.talk])
  OBVIOUS
<1>19. Ledger(C)'
  BY <1>1, <1>5, <1>9, <1>10, <1>12, <1>13, <1>14, <1>15, <1>16, <1>17, <1>18, LedgerStep
<1> QED  BY <1>19 DEF StashInv

LEMMA StashInit ==
    ASSUME Init
    PROVE  StashInv
<1> DEFINE C == [x \in {} |-> x]
<1>1. DOMAIN C = {}
  OBVIOUS
<1> HIDE DEF C
<1>2. /\ transcript = [v \in Talks |-> <<>>] /\ asked = [v \in Talks |-> 0] /\ DOMAIN stash = {}
      /\ DOMAIN replay = Conns /\ DOMAIN sent = Conns
      /\ \A k \in Conns : phase[k] = "closed" /\ request[k] = NoRequest /\ sent[k] = NothingSent
  BY DEF Init, EmptyFn
<1>3. \A n : n \notin 1..Len(<<>>)
  BY EmptyIsSeq
<1>4. ASSUME NEW k \in Conns
      PROVE  Serving(C, k, phase[k], request[k], replay[k], encoder[k], sent[k], asked, lost, stash, Scene.reject)
  <2>1. ~ Degraded(NothingSent)
    BY DEF Degraded, NothingSent
  <2>2. \A n : n \notin 1..Len(NothingSent.turns)
    BY <1>3 DEF NothingSent
  <2>3. SentWell(k, sent[k], lost, Scene.reject)
    BY <1>2, <2>1, <2>2 DEF SentWell
  <2>4. phase[k] = "closed" /\ request[k] = NoRequest
    BY <1>2
  <2> QED  BY <2>3, <2>4 DEF Serving
<1>5. \A t : ~ Heard(t, transcript, request)
  BY <1>2, <1>3 DEF Heard
<1>6. asked \in [Talks -> Nat] /\ DOMAIN transcript = Talks /\ \A v \in Talks : IsSeq(transcript[v])
  BY <1>2, EmptyIsSeq
<1>7. Distinct(request)
  BY <1>2 DEF Distinct
<1>8. Ledger(C)
  BY <1>1, <1>2, <1>4, <1>5, <1>6, <1>7 DEF Ledger
<1> QED  BY <1>8 DEF StashInv

LEMMA StashNext ==
    ASSUME ConnInv, StashInv, [Next]_vars
    PROVE  StashInv'
<1>0. Shape
  BY DEF ConnInv
<1>1. CASE UNCHANGED vars
  BY <1>1, StillStash DEF vars, conns
<1>2. ASSUME NEW k \in Conns, Accept(k) PROVE StashInv'
  BY <1>2, AcceptStash
<1>3. ASSUME NEW k \in Conns, HangUp(k) PROVE StashInv'
  BY <1>3, StillStash DEF HangUp
<1>4. ASSUME NEW k \in Conns, Thread(k) PROVE StashInv'
  <2>1. CASE ReadNone(k)
    BY <2>1, ReadNoneStash
  <2>2. CASE Malformed(k) \/ Unauthorized(k) \/ NotFound(k) \/ Undecodable(k) \/ Reject(k) \/ Unresolved(k)
    <3>1. phase[k] # "stash"
      BY <2>2 DEF Malformed, Unauthorized, NotFound, Undecodable, Reject, Unresolved, Arrived, Admitted, Recalled
    <3>2. \E e : Edge(k, e)
      BY <2>2 DEF Malformed, Unauthorized, NotFound, Undecodable, Reject, Unresolved
    <3> QED  BY <3>1, <3>2, EdgeStash
  <2>3. CASE Models(k)
    BY <2>3, ModelsStash
  <2>4. CASE Decode(k)
    BY <2>4, DecodeStash
  <2>5. CASE Recall(k)
    BY <2>5, RecallStash
  <2>6. CASE Generate(k)
    BY <2>6, GenerateStash
  <2>7. CASE Encode(k)
    <3>1. phase[k] # "stash"
      BY <2>7 DEF Encode
    <3>2. Encodes(k) \/ Broken(k)
      BY <1>0, <2>7, EncodeIs
    <3> QED  BY <3>1, <3>2, EncodeStash, EndStash, BrokenStash
  <2>8. CASE Stash(k)
    BY <2>8, StashStash
  <2>9. CASE Ended(k)
    BY <2>9, EndedIs, DeliversStash, BrokenStash
  <2> QED  BY <1>4, <2>1, <2>2, <2>3, <2>4, <2>5, <2>6, <2>7, <2>8, <2>9 DEF Thread
<1>5. ASSUME NEW k \in Conns, NEW v \in Talks, NEW r \in Scene.requests[v], Send(k, v, r) PROVE StashInv'
  BY <1>5, SendStash
<1>6. CASE Evict
  BY <1>6, EvictStash
<1>7. CASE AcceptFails
  BY <1>7, StillStash DEF AcceptFails, conns
<1>8. CASE Done
  BY <1>8, StillStash DEF Done, vars, conns
<1> QED  BY <1>1, <1>2, <1>3, <1>4, <1>5, <1>6, <1>7, <1>8 DEF Next

\* At every moment there is a ledger of the turns that were told and the calls each made,
\* with which the stash, what every client knows of its conversation, and what the threads
\* have recalled or are still to store agree (ingress/reinject.rs, store/replay.rs).
THEOREM StashKeepsTheLedger == Spec => []StashInv
<1>1. Init => StashInv
  BY StashInit
<1>2. ConnInv /\ StashInv /\ [Next]_vars => StashInv'
  BY StashNext
<1> QED  BY <1>1, <1>2, ConnectionsTellAnswers, PTL DEF Spec

\* A turn that a client echoes goes upstream with what its dialect could not carry, unless
\* the stash lost it (PayloadIsThere): over any connection after an answer in one piece,
\* over its own after a streamed one.
THEOREM PayloadsAreThere == Spec => []PayloadIsThere
<1>1. StashInv => PayloadIsThere
  <2> SUFFICES ASSUME StashInv, NEW k \in Conns, NEW n \in 1..Len(sent[k].turns)
               PROVE  LET t == sent[k].turns[n]
                      IN  /\ t.payload # <<>> /\ TurnKeys(t) \cap lost = {}
                          /\ t.streamed => t.conn = k
                          => sent[k].replay[n] = t.payload
    BY DEF PayloadIsThere
  <2>1. PICK C : Ledger(C)
    BY DEF StashInv
  <2>2. SentWell(k, sent[k], lost, Scene.reject)
    BY <2>1, ServingNow DEF Serving
  <2> QED  BY <2>2 DEF SentWell, Expected
<1> QED  BY <1>1, StashKeepsTheLedger, PTL

\* A turn with calls of its own never goes upstream with the reasoning of another, and one
\* that goes without its reasoning is announced to the client, once and first of all
\* (ReplayIsOwnOrTold).
THEOREM ReplaysAreOwnOrTold == Spec => []ReplayIsOwnOrTold
<1>1. ConnInv /\ StashInv => ReplayIsOwnOrTold
  <2> SUFFICES ASSUME ConnInv, StashInv PROVE ReplayIsItsOwn /\ DegradedIsTold
    BY DEF ReplayIsOwnOrTold
  <2>1. PICK C : Ledger(C)
    BY DEF StashInv
  <2>2. ASSUME NEW k \in Conns
        PROVE  Serving(C, k, phase[k], request[k], replay[k], encoder[k], sent[k], asked, lost, stash, Scene.reject)
    BY <2>1, ServingNow
  <2>3. ReplayIsItsOwn
    <3> SUFFICES ASSUME NEW k \in Conns, NEW n \in 1..Len(sent[k].turns),
                        \E c \in sent[k].turns[n].calls : c.of # NoTurn
                 PROVE  \A m \in 1..Len(sent[k].replay[n]) : sent[k].replay[n][m].turn = sent[k].turns[n].turn
      BY DEF ReplayIsItsOwn
    <3>1. SentWell(k, sent[k], lost, Scene.reject)
      BY <2>2 DEF Serving
    <3> QED  BY <3>1 DEF SentWell, Distinctive
  <2>4. DegradedIsTold
    <3> SUFFICES ASSUME NEW k \in Conns
                 PROVE  LET s == sent[k]
                            degraded == s.reasoning /\ \E n \in 1..Len(s.turns) :
                                                          s.turns[n].calls # {} /\ s.replay[n] = <<>>
                            fs == wire[k].frames
                        IN  /\ degraded => ~ Scene.reject
                            /\ phase[k] = "stash" /\ encoder[k].stream =>
                                 {n \in 1..Len(fs) : fs[n].told} = IF degraded THEN {1} ELSE {}
                            /\ phase[k] = "stash" /\ ~ encoder[k].stream => encoder[k].out[1].told = degraded
      BY DEF DegradedIsTold
    <3> DEFINE s == encoder[k]
               w == wire[k]
               sn == sent[k]
               degraded == sn.reasoning /\ \E n \in 1..Len(sn.turns) : sn.turns[n].calls # {} /\ sn.replay[n] = <<>>
    <3>1. SentWell(k, sn, lost, Scene.reject) /\ (phase[k] = "stash" => (s.adapted <=> Degraded(sn)))
      BY <2>2 DEF Serving
    <3>2. degraded <=> Degraded(sn)
      BY DEF Degraded
    <3>3. degraded => ~ Scene.reject
      BY <3>1, <3>2 DEF SentWell
    <3>4. phase[k] = "stash" => ToldAll(s, exit[k], w)
      BY DEF ConnInv, Connection
    <3>5. ToldAll(s, exit[k], w) => s.adapted \in BOOLEAN
      BY DEF ToldAll, Finished, ChatEnds, MessagesEnds, Ends, IsEncoder
    <3>6. degraded \in BOOLEAN
      OBVIOUS
    <3>7. phase[k] = "stash" => (s.adapted = degraded)
      <4> HIDE DEF degraded, sn, s
      <4> QED  BY <3>1, <3>2, <3>4, <3>5, <3>6
    <3>8. phase[k] = "stash" /\ s.stream => {n \in 1..Len(w.frames) : w.frames[n].told} = IF degraded THEN {1} ELSE {}
      <4> HIDE DEF degraded, sn, s, w
      <4> QED  BY <3>4, <3>7, ToldFirst
    <3>9. phase[k] = "stash" /\ ~ s.stream => s.out[1].told = degraded
      <4> HIDE DEF degraded, sn, s, w
      <4> QED  BY <3>4, <3>7, ToldFirst
    <3> QED  BY <3>3, <3>8, <3>9
  <2> QED  BY <2>3, <2>4
<1> QED  BY <1>1, ConnectionsTellAnswers, StashKeepsTheLedger, PTL
================================================================================
