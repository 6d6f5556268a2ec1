--------------------------- MODULE ExecTransportProof ---------------------------
(***************************************************************************)
(* For any sizes of pipes, channel, request and answer: the child is       *)
(* always waited for, and one that failed and said why in UTF-8 is not     *)
(* passed off as a clean end unless reading it failed.                     *)
(*                                                                         *)
(* The latter is a matter of who holds stderr: as long as the child runs   *)
(* it does, so that a stderr thread at the end has read all it wrote.      *)
(*                                                                         *)
(* And what is handed on is a byte stream (ByteStream), the head of an     *)
(* HTTP message taken off: every byte is in exactly one place on its way,  *)
(* and the places adjoin.                                                  *)
(***************************************************************************)
EXTENDS ExecTransport, TLAPS

\* Whatever was written on stderr is in the pipe or was read, unless it came to nothing.
StderrOK ==
    /\ err \in Nat /\ text \in Nat /\ erred \in Nat
    /\ erred = text + err \/ (garbled /\ drain = "done") \/ drain = "failed"
    /\ drain \in {"reading", "done", "failed"}
    /\ "child" \in errs <=> Alive
    /\ drain = "done" => errs = {} /\ err = 0

\* A call of next that waits belongs to a body that is open; one that joins has
\* reaped the child.
CallOK ==
    /\ pc # "idle" => verdict = "open" /\ ~ dropped
    /\ pc = "join" => child = "reaped"
    /\ child \in {"running", "zombie", "reaped"}

Inv == StderrOK /\ CallOK /\ NoZombie /\ FailureIsReported

LEMMA InitInv == Init => Inv
  BY DEF Init, Inv, StderrOK, CallOK, NoZombie, FailureIsReported, Alive

\* The child and its kin: what they do to stderr is done while the child runs.
LEMMA ChildInv ==
  ASSUME Inv, ChildSteps
  PROVE  Inv'
<1> USE DEF Inv, StderrOK, CallOK, NoZombie, FailureIsReported, Alive
<1>1. CASE ChildWants
  BY <1>1 DEF ChildWants, pipes, threads, body
<1>2. CASE ChildReads
  BY <1>2 DEF ChildReads, threads, body
<1>3. CASE ChildWrites
  BY <1>3 DEF ChildWrites, threads, body
<1>4. CASE ChildComplains
  <2>1. /\ child = "running" /\ verdict = "open" /\ ~ dropped
        /\ UNCHANGED <<child, errs, drain, text, verdict, dropped, pc, code>>
    BY <1>4 DEF ChildComplains, threads, body
  <2>2. drain # "done"
    BY <2>1
  <2>3. err \in Nat /\ text \in Nat /\ erred \in Nat /\ (drain = "failed" \/ erred = text + err)
    BY <2>2
  <2>4. (err' = err + 1 /\ erred' = erred + 1) \/ (drain = "failed" /\ UNCHANGED <<err, erred>>)
    BY <1>4 DEF ChildComplains
  <2>5. err' \in Nat /\ erred' \in Nat /\ (drain = "failed" \/ erred' = text + err')
    BY <2>3, <2>4
  <2> QED
    BY <2>1, <2>2, <2>5
<1>5. CASE ChildCloses
  BY <1>5 DEF ChildCloses, pipes, threads, body
<1>6. CASE ChildForks
  BY <1>6 DEF ChildForks, pipes, threads, body
<1>7. CASE ChildExits \/ ChildDies
  <2>1. PICK c : Alive /\ Gone(c)
    BY <1>7 DEF ChildExits, ChildDies
  <2> QED
    BY <2>1 DEF Gone, pipes, threads, body
<1>8. CASE KinExits
  BY <1>8 DEF KinExits, pipes, threads, body
<1> QED
  BY <1>1, <1>2, <1>3, <1>4, <1>5, <1>6, <1>7, <1>8 DEF ChildSteps

LEMMA ThreadsInv ==
  ASSUME Inv, Feed \/ DrainStderr \/ DrainFails \/ ReadStdout \/ ReadFails \/ Send
  PROVE  Inv'
<1> USE DEF Inv, StderrOK, CallOK, NoZombie, FailureIsReported, Alive
<1>1. CASE Feed
  BY <1>1 DEF Feed, process, body
<1>2. CASE DrainStderr
  BY <1>2 DEF DrainStderr, process, body
<1>6. CASE DrainFails
  BY <1>6 DEF DrainFails, process, body
<1>3. CASE ReadStdout
  BY <1>3 DEF ReadStdout, process, body
<1>4. CASE Send
  BY <1>4 DEF Send, pipes, process, body
<1>5. CASE ReadFails
  BY <1>5 DEF ReadFails, pipes, process, body
<1> QED
  BY <1>1, <1>2, <1>3, <1>4, <1>5, <1>6

\* However a body is given up, its child has been killed and reaped.
LEMMA KillInv ==
  ASSUME Inv, Kill, UNCHANGED <<pipes, drain, text>>, pc' = "idle",
         verdict' \in {"open", "failed"}
  PROVE  Inv'
  BY DEF Inv, StderrOK, CallOK, NoZombie, FailureIsReported, Alive, Kill, pipes

LEMMA MainInv ==
  ASSUME Inv, Main \/ Drop
  PROVE  Inv'
<1>1. CASE Call
  BY <1>1 DEF Call, Inv, StderrOK, CallOK, NoZombie, FailureIsReported, Alive, pipes, process, threads
<1>2. CASE Receive
  BY <1>2 DEF Receive, Inv, StderrOK, CallOK, NoZombie, FailureIsReported, Alive, pipes, process
<1>3. CASE HeadMalformed
  BY <1>3, KillInv DEF HeadMalformed
<1>4. CASE ReceiveError
  BY <1>4, KillInv DEF ReceiveError
<1>5. CASE Timeout
  BY <1>5, KillInv DEF Timeout, threads
<1>6. CASE Eof
  BY <1>6 DEF Eof, Inv, StderrOK, CallOK, NoZombie, FailureIsReported, Alive, pipes, process, threads
<1>7. CASE Wait
  BY <1>7 DEF Wait, Inv, StderrOK, CallOK, NoZombie, FailureIsReported, Alive, pipes, threads
<1>8. CASE Join
  BY <1>8 DEF Join, Inv, StderrOK, CallOK, NoZombie, FailureIsReported, Alive, pipes, process, threads
<1>9. CASE Drop
  <2>1. CASE verdict = "open"
    BY <1>9, <2>1, KillInv DEF Drop, threads
  <2>2. CASE verdict # "open"
    BY <1>9, <2>2 DEF Drop, Inv, StderrOK, CallOK, NoZombie, FailureIsReported, Alive, pipes, process,
                      threads
  <2> QED
    BY <2>1, <2>2
<1> QED
  BY <1>1, <1>2, <1>3, <1>4, <1>5, <1>6, <1>7, <1>8, <1>9 DEF Main

LEMMA Invariance == Spec => []Inv
<1>1. ASSUME Inv, [Next]_vars PROVE Inv'
  <2>1. CASE UNCHANGED vars
    BY <1>1, <2>1 DEF Inv, StderrOK, CallOK, NoZombie, FailureIsReported, Alive, vars, pipes, process,
                      threads, body
  <2> QED
    BY <1>1, <2>1, ChildInv, ThreadsInv, MainInv DEF Next, Over
<1> QED
  BY <1>1, InitInv, PTL DEF Spec

\* However the body came to its end, or was given up, the child was waited for.
THEOREM ChildrenAreReaped == Spec => []NoZombie
  BY Invariance, PTL DEF Inv

\* A child that failed and said why is an error of the stream, unless what it said was not
\* UTF-8 or reading it failed.
THEOREM FailuresAreReported == Spec => []FailureIsReported
  BY Invariance, PTL DEF Inv

(***************************************************************************)
(* The refinement of ByteStream.                                           *)
(*                                                                         *)
(* A byte is counted once wherever it is on its way: in the pipe, with the *)
(* thread that reads it, in the channel, in the relay's buffer or handed   *)
(* on.  Each place holds an interval, and they adjoin.                     *)
(***************************************************************************)
\* The bytes from the one after a to b.
Interval(a, b) == [k \in 1..(b - a) |-> a + k]

LEMMA Intervals ==
    \A a, b \in Nat : a <= b =>
        /\ Interval(a, b) \in Seq(Nat) /\ Len(Interval(a, b)) = b - a
        /\ \A k \in 1..(b - a) : Interval(a, b)[k] = a + k
        /\ a = b => Interval(a, b) = <<>>
<1> TAKE a, b \in Nat
<1> HAVE a <= b
<1> DEFINE n == b - a
<1>1. n \in Nat
  OBVIOUS
<1>2. Interval(a, b) = [k \in 1..n |-> a + k]
  BY DEF Interval
<1> HIDE DEF n
<1>3. Interval(a, b) \in Seq(Nat) /\ Len(Interval(a, b)) = n
  BY <1>1, <1>2
<1>4. \A k \in 1..n : Interval(a, b)[k] = a + k
  BY <1>2
<1> QED  BY <1>3, <1>4 DEF n

\* Two sequences of the same length and content are the same.
LEMMA Same ==
    ASSUME NEW S, NEW q \in Seq(S), NEW r \in Seq(S), Len(q) = Len(r),
           \A k \in 1..Len(q) : q[k] = r[k]
    PROVE  q = r
  OBVIOUS

LEMMA Concatenated ==
    ASSUME NEW S, NEW q \in Seq(S), NEW r \in Seq(S)
    PROVE  /\ q \o r \in Seq(S) /\ Len(q \o r) = Len(q) + Len(r)
           /\ \A k \in 1..(Len(q) + Len(r)) : (q \o r)[k] = IF k <= Len(q) THEN q[k] ELSE r[k - Len(q)]
  OBVIOUS

LEMMA OneByteMore ==
    ASSUME NEW a \in Nat, NEW b \in Nat, a <= b
    PROVE  Append(Interval(a, b), b + 1) = Interval(a, b + 1)
<1> DEFINE q == Interval(a, b)
           r == Interval(a, b + 1)
           s == Append(q, b + 1)
<1>1. /\ q \in Seq(Nat) /\ Len(q) = b - a /\ \A k \in 1..(b - a) : q[k] = a + k
  BY Intervals
<1>2. /\ r \in Seq(Nat) /\ Len(r) = b + 1 - a /\ \A k \in 1..(b + 1 - a) : r[k] = a + k
  BY Intervals
<1> HIDE DEF q, r
<1>3. s \in Seq(Nat) /\ Len(s) = b + 1 - a /\ \A k \in 1..(b + 1 - a) : s[k] = a + k
  BY <1>1
<1> HIDE DEF s
<1>4. s = r
  BY <1>2, <1>3, Same
<1> QED  BY <1>4 DEF q, r, s

LEMMA Joined ==
    ASSUME NEW a \in Nat, NEW b \in Nat, NEW c \in Nat, a <= b, b <= c
    PROVE  Interval(a, b) \o Interval(b, c) = Interval(a, c)
<1> DEFINE q == Interval(a, b)
           r == Interval(b, c)
           s == q \o r
           t == Interval(a, c)
<1>1. /\ q \in Seq(Nat) /\ Len(q) = b - a /\ \A k \in 1..(b - a) : q[k] = a + k
  BY Intervals
<1>2. /\ r \in Seq(Nat) /\ Len(r) = c - b /\ \A k \in 1..(c - b) : r[k] = b + k
  BY Intervals
<1>3. /\ t \in Seq(Nat) /\ Len(t) = c - a /\ \A k \in 1..(c - a) : t[k] = a + k
  BY Intervals
<1> HIDE DEF q, r, t
<1>4. /\ s \in Seq(Nat) /\ Len(s) = Len(q) + Len(r)
      /\ \A k \in 1..(Len(q) + Len(r)) : s[k] = IF k <= Len(q) THEN q[k] ELSE r[k - Len(q)]
  BY <1>1, <1>2, Concatenated
<1> HIDE DEF s
<1>5. Len(q) + Len(r) = c - a /\ Len(q) = b - a
  BY <1>1, <1>2
<1>6. ASSUME NEW k \in 1..(c - a) PROVE s[k] = t[k]
  <2>1. t[k] = a + k /\ s[k] = IF k <= b - a THEN q[k] ELSE r[k - (b - a)]
    BY <1>3, <1>4, <1>5
  <2>2. CASE k <= b - a
    BY <1>1, <2>1, <2>2
  <2>3. CASE k > b - a
    <3>1. k - (b - a) \in 1..(c - b)
      BY <2>3
    <3>2. r[k - (b - a)] = b + (k - (b - a))
      BY <1>2, <3>1
    <3> QED  BY <2>1, <2>3, <3>2
  <2> QED  BY <2>2, <2>3
<1>7. s = t
  BY <1>3, <1>4, <1>5, <1>6, Same
<1> QED  BY <1>7 DEF q, r, s, t

LEMMA CutInTwo ==
    ASSUME NEW a \in Nat, NEW b \in Nat, a <= b, NEW n \in 0..(b - a)
    PROVE  /\ SubSeq(Interval(a, b), 1, n) = Interval(a, a + n)
           /\ SubSeq(Interval(a, b), n + 1, Len(Interval(a, b))) = Interval(a + n, b)
<1> DEFINE q == Interval(a, b)
           front == SubSeq(q, 1, n)
           back == SubSeq(q, n + 1, Len(q))
<1>1. /\ q \in Seq(Nat) /\ Len(q) = b - a /\ \A k \in 1..(b - a) : q[k] = a + k
  BY Intervals
<1> DEFINE m == a + n
<1>0. m \in Nat /\ m = a + n /\ a <= m /\ m <= b /\ m - a = n /\ b - m = b - a - n
  OBVIOUS
<1> HIDE DEF m
<1>2. /\ Interval(a, m) \in Seq(Nat) /\ Len(Interval(a, m)) = n
      /\ \A k \in 1..n : Interval(a, m)[k] = a + k
  BY <1>0, Intervals
<1>3. /\ Interval(m, b) \in Seq(Nat) /\ Len(Interval(m, b)) = b - m
      /\ \A k \in 1..(b - m) : Interval(m, b)[k] = m + k
  BY <1>0, Intervals
<1> HIDE DEF q
<1>4. front \in Seq(Nat) /\ Len(front) = n /\ \A k \in 1..n : front[k] = a + k
  BY <1>1
<1>5. back \in Seq(Nat) /\ Len(back) = b - m /\ \A k \in 1..(b - m) : back[k] = m + k
  <2>1. back \in Seq(Nat) /\ Len(back) = b - m
    BY <1>0, <1>1
  <2>2. ASSUME NEW k \in 1..(b - m) PROVE back[k] = m + k
    <3>1. n + k \in 1..(b - a) /\ back[k] = q[n + k]
      BY <1>0, <1>1
    <3>2. q[n + k] = a + (n + k)
      BY <1>1, <3>1
    <3>3. a + (n + k) = m + k
      BY <1>0
    <3> HIDE DEF back
    <3> QED  BY <3>1, <3>2, <3>3
  <2> QED  BY <2>1, <2>2
<1> HIDE DEF front, back
<1>6. front = Interval(a, m)
  BY <1>2, <1>4, Same
<1>7. back = Interval(m, b)
  BY <1>3, <1>5, Same
<1> QED  BY <1>6, <1>7 DEF q, front, back, m

\* A chunk that is the bytes from a to b, or a failed read between two of them.
Piece(x, a, b) ==
    /\ a \in Nat /\ b \in Nat
    /\ \/ x = Broken /\ b = a
       \/ x # Broken /\ a < b /\ x = Interval(a, b)

\* The channel q carries the bytes from r to m.
Carries(q, r, m) ==
    \E p : /\ p[0] = r /\ p[Len(q)] = m
           /\ \A i \in 0..Len(q) : p[i] \in Nat /\ p[i] <= m
           /\ \A i \in 1..Len(q) : Piece(q[i], p[i - 1], p[i])

LEMMA CarriesNone ==
    ASSUME NEW r \in Nat
    PROVE  Carries(<<>>, r, r) /\ \A m : Carries(<<>>, r, m) => m = r
<1> DEFINE q == <<>>
           p == [i \in {0} |-> r]
<1>1. Len(q) = 0 /\ 0..0 = {0} /\ 1..0 = {} /\ p[0] = r
  OBVIOUS
<1> HIDE DEF q, p
<1>2. Carries(q, r, r)
  BY <1>1 DEF Carries
<1>3. \A m : Carries(q, r, m) => m = r
  BY <1>1 DEF Carries
<1> QED  BY <1>2, <1>3 DEF q

LEMMA CarriesMore ==
    ASSUME NEW S, NEW q \in Seq(S), NEW x \in S, NEW r, NEW m, NEW n, Carries(q, r, m), Piece(x, m, n)
    PROVE  Carries(Append(q, x), r, n)
<1>1. PICK p : /\ p[0] = r /\ p[Len(q)] = m
               /\ \A i \in 0..Len(q) : p[i] \in Nat /\ p[i] <= m
               /\ \A i \in 1..Len(q) : Piece(q[i], p[i - 1], p[i])
  BY DEF Carries
<1> DEFINE k == Len(q) + 1
           a == Append(q, x)
           o == [i \in 0..k |-> IF i = k THEN n ELSE p[i]]
<1>2. k \in Nat /\ Len(q) \in Nat /\ Len(a) = k /\ a[k] = x /\ \A i \in 1..Len(q) : a[i] = q[i]
  OBVIOUS
<1>3. m \in Nat /\ n \in Nat /\ m <= n
  BY DEF Piece
<1>4. o[0] = r /\ o[k] = n /\ o[k - 1] = m
  BY <1>1, <1>2
<1>5. \A i \in 0..k : o[i] \in Nat /\ o[i] <= n
  <2> TAKE i \in 0..k
  <2>1. CASE i = k
    BY <1>3, <2>1
  <2>2. CASE i # k
    <3>1. o[i] = p[i] /\ p[i] \in Nat /\ p[i] <= m
      BY <1>1, <1>2, <2>2
    <3> QED  BY <1>3, <3>1
  <2> QED  BY <2>1, <2>2
<1>6. ASSUME NEW i \in 1..k PROVE Piece(a[i], o[i - 1], o[i])
  <2>1. CASE i = k
    BY <1>2, <1>4, <2>1
  <2>2. CASE i # k
    <3>1. i \in 1..Len(q) /\ a[i] = q[i] /\ o[i] = p[i] /\ o[i - 1] = p[i - 1]
      BY <1>2, <2>2
    <3> QED  BY <1>1, <3>1
  <2> QED  BY <2>1, <2>2
<1> HIDE DEF o, a, k
<1> QED  BY <1>2, <1>4, <1>5, <1>6 DEF Carries, a

LEMMA CarriesLess ==
    ASSUME NEW S, NEW q \in Seq(S), q # <<>>, NEW r, NEW m, Carries(q, r, m)
    PROVE  \E n : Piece(Head(q), r, n) /\ n \in Nat /\ n <= m /\ Carries(Tail(q), n, m)
<1>1. PICK p : /\ p[0] = r /\ p[Len(q)] = m
               /\ \A i \in 0..Len(q) : p[i] \in Nat /\ p[i] <= m
               /\ \A i \in 1..Len(q) : Piece(q[i], p[i - 1], p[i])
  BY DEF Carries
<1> DEFINE t == Tail(q)
           o == [i \in 0..Len(t) |-> p[i + 1]]
<1>2. /\ Len(q) \in Nat \ {0} /\ Len(t) = Len(q) - 1 /\ Head(q) = q[1]
      /\ \A i \in 1..Len(t) : t[i] = q[i + 1]
  OBVIOUS
<1>3. Piece(q[1], r, p[1]) /\ p[1] \in Nat /\ p[1] <= m
  <2>1. 1 \in 1..Len(q) /\ 1 - 1 = 0 /\ 1 \in 0..Len(q)
    BY <1>2
  <2> QED  BY <1>1, <2>1
<1>4. o[0] = p[1] /\ o[Len(t)] = m /\ \A i \in 0..Len(t) : o[i] \in Nat /\ o[i] <= m
  BY <1>1, <1>2
<1>5. ASSUME NEW i \in 1..Len(t) PROVE Piece(t[i], o[i - 1], o[i])
  <2>1. /\ i + 1 \in 1..Len(q) /\ (i + 1) - 1 = i /\ t[i] = q[i + 1]
        /\ o[i] = p[i + 1] /\ o[i - 1] = p[i]
    BY <1>2
  <2> QED  BY <1>1, <2>1
<1> HIDE DEF o, t
<1>6. Carries(t, p[1], m)
  BY <1>4, <1>5 DEF Carries
<1> QED  BY <1>2, <1>3, <1>6 DEF t
(***************************************************************************)
(* Where the bytes are.                                                    *)
(***************************************************************************)
Chunks == Seq(Nat) \cup {Broken}

Typed ==
    /\ written \in Nat /\ out \in Seq(Nat) /\ chunk \in Chunks /\ channel \in Seq(Chunks)
    /\ envelope \in Envelopes /\ headed \in BOOLEAN
    /\ reader \in {"reading", "sending", "gone"}

\* Who writes has the pipe open; only a body without envelope has no head.
WritersOK ==
    /\ want = "stdout" => "child" \in outs
    /\ "child" \in outs => Alive
    /\ envelope # "http" => headed = TRUE

\* The child is waited for once its output has been received.
WaitOK == pc \in {"wait", "join"} => reader = "gone" /\ channel = <<>>

\* What was received is in the relay's buffer or, after the head, handed on.
Handed(r) ==
    /\ r \in Nat
    /\ headed = TRUE => headLen <= r /\ got = Interval(headLen, r)
    /\ headed # TRUE => got = <<>> /\ buf = Interval(0, r)

\* What has not been put into the channel is with the thread or in the pipe, unless
\* the thread gave up after a failed read.
Behind(m) ==
    /\ m \in Nat /\ m <= written
    /\ reader = "reading" => out = Interval(m, written)
    /\ reader = "sending" => \E n : Piece(chunk, m, n) /\ n <= written /\ out = Interval(n, written)
    /\ reader = "gone" => (\E i \in DOMAIN channel : channel[i] = Broken) \/ (outs = {} /\ m = written)

Located(r, m) == Handed(r) /\ Carries(channel, r, m) /\ Behind(m)

Going == verdict = "open" /\ dropped = FALSE

AllThere == Going => \E r, m : Located(r, m)

StreamInv == Typed /\ WritersOK /\ WaitOK /\ AllThere

LEMMA HeadLenNat == headLen \in Nat
  BY ExecAssumption DEF headLen

LEMMA InitStreamInv == Init => StreamInv
<1> SUFFICES ASSUME Init PROVE StreamInv
  OBVIOUS
<1>0. envelope # "http" <=> headed = TRUE
  BY ExecAssumption DEF Init
<1>1. Typed /\ WritersOK /\ WaitOK
  <2>1. channel = <<>> /\ chunk = <<>> /\ out = <<>>
    BY DEF Init
  <2>2. channel \in Seq(Chunks) /\ chunk \in Chunks /\ out \in Seq(Nat)
    BY <2>1 DEF Chunks
  <2>3. headed \in BOOLEAN
    BY DEF Init
  <2>4. Typed
    BY <2>2, <2>3 DEF Init, Typed
  <2> QED  BY <1>0, <2>4 DEF Init, WritersOK, WaitOK, Alive
<1>2. Interval(0, 0) = <<>>
  BY Intervals
<1>3. Handed(0)
  <2>1. headed = TRUE => headLen = 0
    BY <1>0 DEF headLen
  <2>2. got = <<>> /\ buf = <<>>
    BY DEF Init
  <2>3. headed = TRUE => headLen <= 0 /\ Interval(headLen, 0) = <<>>
    BY <1>2, <2>1
  <2> QED  BY <1>2, <2>2, <2>3 DEF Handed
<1>4. Behind(0)
  BY <1>2 DEF Init, Behind
<1>5. Carries(channel, 0, 0)
  BY CarriesNone DEF Init
<1> QED
  BY <1>1, <1>3, <1>4, <1>5 DEF StreamInv, AllThere, Located

\* A step that moves no byte.
LEMMA Unmoved ==
    ASSUME AllThere, UNCHANGED <<envelope, headed, buf, got, channel, reader, chunk, out, written>>,
           outs = {} => outs' = {}, Going' => Going
    PROVE  AllThere'
<1> SUFFICES ASSUME Going' PROVE \E r, m : Located(r, m)'
  BY DEF AllThere
<1>1. PICK r, m : Located(r, m)
  BY DEF AllThere
<1>2. Handed(r)' /\ Carries(channel, r, m)'
  BY <1>1 DEF Located, Handed, headLen, Carries
<1>3. Behind(m)'
  BY <1>1 DEF Located, Behind
<1> QED  BY <1>2, <1>3 DEF Located

\* The child and its kin: of these steps only a write concerns a byte.
LEMMA ChildStreamInv ==
    ASSUME StreamInv, Inv, ChildSteps
    PROVE  StreamInv'
<1> USE DEF StreamInv
<1>1. CASE ChildWrites
  <2>1. Typed' /\ WritersOK' /\ WaitOK'
    BY <1>1 DEF ChildWrites, threads, body, Typed, WritersOK, WaitOK, Alive
  <2>2. Going' => Going
    BY <1>1 DEF ChildWrites, body, Going
  <2>3. ASSUME NEW r, NEW m, Located(r, m) PROVE Located(r, m)'
    <3>1. Handed(r)' /\ Carries(channel, r, m)'
      BY <1>1, <2>3 DEF ChildWrites, threads, body, Located, Handed, headLen, Carries
    <3>2. m \in Nat /\ m <= written /\ written \in Nat /\ written' = written + 1
      BY <1>1, <2>3 DEF ChildWrites, Typed, Located, Behind
    <3>3. out' = Append(out, written + 1) /\ UNCHANGED <<reader, chunk, channel, outs>>
      BY <1>1 DEF ChildWrites, threads
    <3>4. ASSUME NEW n \in Nat, n <= written, out = Interval(n, written)
          PROVE  out' = Interval(n, written')
      BY <3>2, <3>3, <3>4, OneByteMore
    <3>5. reader' = "reading" => out' = Interval(m, written')
      BY <2>3, <3>2, <3>3, <3>4 DEF Located, Behind
    <3>6. ASSUME reader' = "sending"
          PROVE  \E n : Piece(chunk', m, n) /\ n <= written' /\ out' = Interval(n, written')
      <4>1. PICK n : Piece(chunk, m, n) /\ n <= written /\ out = Interval(n, written)
        BY <2>3, <3>3, <3>6 DEF Located, Behind
      <4>2. n \in Nat
        BY <4>1 DEF Piece
      <4>3. n <= written' /\ out' = Interval(n, written')
        BY <3>2, <3>4, <4>1, <4>2
      <4> QED  BY <3>3, <4>1, <4>3
    <3>7. reader' = "gone" => \E i \in DOMAIN channel' : channel'[i] = Broken
      <4>1. outs # {}
        BY <1>1 DEF ChildWrites, WritersOK
      <4> QED  BY <2>3, <3>3, <4>1 DEF Located, Behind
    <3>8. m <= written'
      BY <3>2
    <3> QED  BY <3>1, <3>2, <3>5, <3>6, <3>7, <3>8 DEF Located, Behind
  <2> QED  BY <2>1, <2>2, <2>3 DEF AllThere
<1>2. ASSUME UNCHANGED <<envelope, out, written, threads, body>>, outs = {} => outs' = {}
      PROVE  Typed' /\ WaitOK' /\ AllThere'
  <2>1. AllThere'
    BY <1>2, Unmoved DEF threads, body, Going
  <2> QED  BY <1>2, <2>1 DEF threads, body, Typed, WaitOK
<1>3. CASE ChildWants
  BY <1>2, <1>3 DEF ChildWants, pipes, body, WritersOK, Alive
<1>4. CASE ChildReads
  BY <1>2, <1>4 DEF ChildReads, body, WritersOK, Alive
<1>5. CASE ChildComplains
  BY <1>2, <1>5 DEF ChildComplains, body, WritersOK, Alive
<1>6. CASE ChildCloses
  BY <1>2, <1>6 DEF ChildCloses, pipes, body, WritersOK, Alive
<1>7. CASE ChildForks
  BY <1>2, <1>7 DEF ChildForks, pipes, body, WritersOK, Alive
<1>8. CASE ChildExits \/ ChildDies
  <2>1. PICK c : Alive /\ Gone(c)
    BY <1>8 DEF ChildExits, ChildDies
  <2> QED
    BY <1>2, <2>1 DEF Gone, pipes, body, WritersOK, Alive
<1>9. CASE KinExits
  BY <1>2, <1>9 DEF KinExits, pipes, body, WritersOK, Alive
<1> QED
  BY <1>1, <1>3, <1>4, <1>5, <1>6, <1>7, <1>8, <1>9 DEF ChildSteps
\* A failed read is no sequence, and so no piece of one.
LEMMA BrokenIsNone == \A a, b \in Nat : a <= b => Interval(a, b) # Broken
  BY Intervals, ExecAssumption

\* The three threads: what one takes off the pipe it puts into the channel.
LEMMA ReadStream ==
    ASSUME StreamInv, ReadStdout
    PROVE  StreamInv'
<1> USE DEF StreamInv
<1>0. /\ reader = "reading" /\ reader' \in {"sending", "gone"}
      /\ UNCHANGED <<envelope, headed, buf, got, channel, written, want, outs, child, pc, verdict, dropped>>
  BY DEF ReadStdout, process, body
<1>1. WritersOK' /\ WaitOK'
  BY <1>0 DEF WritersOK, WaitOK, Alive
<1>2. Typed'
  <2>1. CASE out = <<>> /\ reader' = "gone" /\ UNCHANGED <<chunk, out>>
    BY <1>0, <2>1 DEF Typed
  <2>2. ASSUME NEW n \in 1..ChunkMax, n <= Len(out), chunk' = SubSeq(out, 1, n),
               out' = SubSeq(out, n + 1, Len(out))
        PROVE  Typed'
    <3>1. out \in Seq(Nat) /\ n \in Nat
      BY ExecAssumption DEF Typed
    <3>2. chunk' \in Seq(Nat) /\ out' \in Seq(Nat)
      BY <2>2, <3>1
    <3> QED  BY <1>0, <3>2 DEF Typed, Chunks
  <2> QED  BY <2>1, <2>2 DEF ReadStdout
<1>3. ASSUME NEW r, NEW m, Located(r, m) PROVE Located(r, m)'
  <2>1. Handed(r)' /\ Carries(channel, r, m)'
    BY <1>0, <1>3 DEF Located, Handed, headLen, Carries
  <2>2. m \in Nat /\ written \in Nat /\ m <= written /\ out = Interval(m, written)
    BY <1>0, <1>3 DEF Located, Behind, Typed
  <2>3. Len(out) = written - m
    BY <2>2, Intervals
  <2>4. CASE out = <<>> /\ outs = {} /\ reader' = "gone"
    <3>1. m = written
      BY <2>2, <2>3, <2>4
    <3> QED  BY <1>0, <2>1, <2>2, <2>4, <3>1 DEF Located, Behind
  <2>5. ASSUME NEW n \in 1..ChunkMax, n <= Len(out), chunk' = SubSeq(out, 1, n),
               out' = SubSeq(out, n + 1, Len(out)), reader' = "sending"
        PROVE  Located(r, m)'
    <3>1. n \in 1..(written - m) /\ n \in 0..(written - m)
      BY <2>2, <2>3, <2>5, ExecAssumption
    <3>2. chunk' = Interval(m, m + n) /\ out' = Interval(m + n, written)
      BY <2>2, <2>5, <3>1, CutInTwo
    <3>3. m + n \in Nat /\ m < m + n /\ m + n <= written
      BY <2>2, <3>1
    <3>4. Piece(chunk', m, m + n)
      BY <2>2, <3>2, <3>3, BrokenIsNone DEF Piece
    <3>5. \E k : Piece(chunk', m, k) /\ k <= written' /\ out' = Interval(k, written')
      BY <1>0, <3>2, <3>3, <3>4
    <3> QED  BY <1>0, <2>1, <2>2, <2>5, <3>5 DEF Located, Behind
  <2> QED  BY <2>4, <2>5 DEF ReadStdout
<1> QED
  BY <1>0, <1>1, <1>2, <1>3 DEF AllThere, Going

LEMMA ReadFailsStream ==
    ASSUME StreamInv, ReadFails
    PROVE  StreamInv'
<1> USE DEF StreamInv
<1>0. /\ reader = "reading" /\ reader' = "sending" /\ chunk' = Broken
      /\ UNCHANGED <<envelope, headed, buf, got, channel, written, out, want, outs>>
      /\ UNCHANGED <<child, pc, verdict, dropped>>
  BY DEF ReadFails, process, body, pipes
<1>1. WritersOK' /\ WaitOK' /\ Typed'
  BY <1>0 DEF WritersOK, WaitOK, Alive, Typed, Chunks
<1>3. ASSUME NEW r, NEW m, Located(r, m) PROVE Located(r, m)'
  <2>1. Handed(r)' /\ Carries(channel, r, m)'
    BY <1>0, <1>3 DEF Located, Handed, headLen, Carries
  <2>2. m \in Nat /\ m <= written /\ out = Interval(m, written)
    BY <1>0, <1>3 DEF Located, Behind
  <2>3. Piece(chunk', m, m)
    BY <1>0, <2>2 DEF Piece
  <2> QED  BY <1>0, <2>1, <2>2, <2>3 DEF Located, Behind
<1> QED
  BY <1>0, <1>1, <1>3 DEF AllThere, Going

LEMMA SendStream ==
    ASSUME StreamInv, Send
    PROVE  StreamInv'
<1> USE DEF StreamInv
<1>0. /\ reader = "sending" /\ chunk' = <<>>
      /\ UNCHANGED <<envelope, headed, buf, got, written, out, want, outs, child, pc, verdict, dropped>>
  BY DEF Send, process, body, pipes
<1>1. WritersOK' /\ WaitOK'
  BY <1>0 DEF WritersOK, WaitOK, Alive
<1>2. channel \in Seq(Chunks) /\ chunk \in Chunks /\ <<>> \in Seq(Nat)
  BY DEF Typed
<1>3. chunk' \in Chunks
  BY <1>0, <1>2 DEF Chunks
<1>4. CASE dropped = TRUE /\ reader' = "gone" /\ UNCHANGED channel
  BY <1>0, <1>1, <1>3, <1>4 DEF Typed, AllThere, Going
<1>5. CASE /\ channel' = Append(channel, chunk)
           /\ reader' = IF chunk = Broken THEN "gone" ELSE "reading"
  <2>1. channel' \in Seq(Chunks) /\ Len(channel) + 1 \in DOMAIN channel'
        /\ channel'[Len(channel) + 1] = chunk
    BY <1>2, <1>5
  <2>2. Typed'
    BY <1>0, <1>3, <1>5, <2>1 DEF Typed
  <2>3. ASSUME NEW r, NEW m, Located(r, m) PROVE \E n : Located(r, n)'
    <3>1. Handed(r)'
      BY <1>0, <2>3 DEF Located, Handed, headLen
    <3>2. PICK n : Piece(chunk, m, n) /\ n <= written /\ out = Interval(n, written)
      BY <1>0, <2>3 DEF Located, Behind
    <3>3. n \in Nat
      BY <3>2 DEF Piece
    <3>4. Carries(channel', r, n)
      <4>1. Carries(channel, r, m)
        BY <2>3 DEF Located
      <4> QED  BY <1>2, <1>5, <3>2, <4>1, CarriesMore
    <3>5. Carries(channel, r, n)'
      BY <3>4 DEF Carries
    <3>6. Behind(n)'
      <4>1. CASE chunk = Broken
        <5>1. reader' = "gone" /\ \E i \in DOMAIN channel' : channel'[i] = Broken
          BY <1>5, <2>1, <4>1
        <5> QED  BY <1>0, <3>2, <3>3, <5>1 DEF Behind
      <4>2. CASE chunk # Broken
        <5>1. reader' = "reading"
          BY <1>5, <4>2
        <5> QED  BY <1>0, <3>2, <3>3, <5>1 DEF Behind
      <4> QED  BY <4>1, <4>2
    <3> QED  BY <3>1, <3>5, <3>6 DEF Located
  <2> QED  BY <1>0, <1>1, <2>2, <2>3 DEF AllThere, Going
<1> QED
  BY <1>4, <1>5 DEF Send

LEMMA ThreadsStreamInv ==
    ASSUME StreamInv, Feed \/ DrainStderr \/ DrainFails
    PROVE  StreamInv'
<1>1. /\ UNCHANGED <<envelope, headed, buf, got, channel, reader, chunk, out, written>>
      /\ UNCHANGED <<want, outs, child, pc, verdict, dropped>>
  BY DEF Feed, DrainStderr, DrainFails, process, body
<1>2. AllThere'
  BY <1>1, Unmoved DEF StreamInv, Going
<1> QED
  BY <1>1, <1>2 DEF StreamInv, Typed, WritersOK, WaitOK, Alive

\* What is received comes right after what was, with or without the relay.
LEMMA Received ==
    ASSUME StreamInv, Receive, NEW r, NEW m, Located(r, m)
    PROVE  \E n : n \in Nat /\ r < n /\ Located(n, m)'
<1> USE DEF StreamInv
<1>0. /\ channel # <<>> /\ Head(channel) # Broken /\ channel' = Tail(channel)
      /\ UNCHANGED <<envelope, written, out, outs, reader, chunk>>
  BY DEF Receive, process, pipes
<1>1. channel \in Seq(Chunks) /\ headLen \in Nat /\ headLen' = headLen
  BY <1>0, HeadLenNat DEF Typed, headLen
<1>2. PICK n : Piece(Head(channel), r, n) /\ n \in Nat /\ n <= m /\ Carries(Tail(channel), n, m)
  BY <1>0, <1>1, CarriesLess DEF Located
<1>3. /\ r \in Nat /\ r < n /\ Head(channel) = Interval(r, n)
      /\ r <= n /\ 0 \in Nat /\ 0 <= r /\ 0 <= n /\ n - 0 = n
  <2>1. r \in Nat /\ r < n /\ Head(channel) = Interval(r, n)
    BY <1>0, <1>2 DEF Piece
  <2> QED  BY <1>2, <2>1
<1>4. Carries(channel, n, m)'
  BY <1>0, <1>2 DEF Carries
<1>5. Behind(m)'
  <2>1. ASSUME NEW i \in DOMAIN channel, channel[i] = Broken
        PROVE  \E j \in DOMAIN Tail(channel) : Tail(channel)[j] = Broken
    <3>1. i # 1 /\ i \in 1..Len(channel) /\ Len(channel) \in Nat
      BY <1>0, <1>1, <2>1
    <3>2. i - 1 \in DOMAIN Tail(channel) /\ Tail(channel)[i - 1] = channel[i]
      BY <1>0, <1>1, <3>1
    <3> QED  BY <2>1, <3>2
  <2>2. Behind(m)
    BY DEF Located
  <2> QED  BY <1>0, <2>1, <2>2 DEF Behind
<1>6. Handed(n)'
  <2>1. CASE headed = TRUE
    <3>1. headed' = TRUE /\ got' = got \o Head(channel)
      BY <2>1 DEF Receive, PassOn
    <3>2. headLen <= r /\ got = Interval(headLen, r)
      BY <2>1 DEF Located, Handed
    <3>3. got' = Interval(headLen, n)
      <4>1. Interval(headLen, r) \o Interval(r, n) = Interval(headLen, n)
        BY <1>1, <1>2, <1>3, <3>2, Joined
      <4> QED  BY <1>3, <3>1, <3>2, <4>1
    <3>4. headLen <= n
      BY <1>1, <1>2, <1>3, <3>2
    <3> QED  BY <1>1, <1>2, <3>1, <3>3, <3>4 DEF Handed
  <2>2. CASE headed # TRUE
    <3> DEFINE all == buf \o Head(channel)
    <3>1. got = <<>> /\ buf = Interval(0, r)
      BY <2>2 DEF Located, Handed
    <3>2. all = Interval(0, n)
      <4>1. Interval(0, r) \o Interval(r, n) = Interval(0, n)
        BY <1>2, <1>3, Joined
      <4> QED  BY <1>3, <3>1, <4>1
    <3>3. Len(all) = n
      <4>1. Len(Interval(0, n)) = n - 0
        BY <1>2, <1>3, Intervals
      <4> HIDE DEF all
      <4> QED  BY <1>3, <3>2, <4>1
    <3>4. headLen = HeadLen
      BY <2>2 DEF WritersOK, headLen
    <3>5. CASE Len(all) < HeadLen
      <4>1. buf' = all /\ UNCHANGED <<headed, got>>
        BY <2>2, <3>5 DEF Receive, PassOn
      <4> QED  BY <1>2, <2>2, <3>1, <3>2, <4>1 DEF Handed
    <3>6. CASE ~ Len(all) < HeadLen
      <4>1. headed' = TRUE /\ got' = SubSeq(all, HeadLen + 1, Len(all))
        BY <2>2, <3>6 DEF Receive, PassOn
      <4> HIDE DEF all
      <4>2. HeadLen \in 0..(n - 0) /\ headLen <= n /\ 0 + HeadLen = HeadLen
        BY <1>1, <1>2, <3>3, <3>4, <3>6
      <4>3. SubSeq(all, HeadLen + 1, Len(all)) = Interval(HeadLen, n)
        <5>1. SubSeq(Interval(0, n), HeadLen + 1, Len(Interval(0, n))) = Interval(0 + HeadLen, n)
          BY <1>2, <1>3, <4>2, CutInTwo
        <5> QED  BY <3>2, <4>2, <5>1
      <4> QED  BY <1>1, <1>2, <3>4, <4>1, <4>2, <4>3 DEF Handed
    <3> QED  BY <3>5, <3>6
  <2> QED  BY <2>1, <2>2
<1> QED  BY <1>2, <1>3, <1>4, <1>5, <1>6 DEF Located

LEMMA ReceiveStream ==
    ASSUME StreamInv, Receive
    PROVE  StreamInv'
<1> USE DEF StreamInv
<1>0. /\ channel # <<>> /\ channel' = Tail(channel) /\ pc' = "idle"
      /\ headed' = TRUE \/ headed' = headed
      /\ UNCHANGED <<envelope, written, out, outs, reader, chunk, want, child, verdict, dropped>>
  BY DEF Receive, process, pipes, PassOn
<1>1. Typed'
  <2>1. channel' \in Seq(Chunks)
    BY <1>0 DEF Typed
  <2> QED  BY <1>0, <2>1 DEF Typed
<1>2. WritersOK' /\ WaitOK'
  BY <1>0 DEF WritersOK, WaitOK, Alive
<1>3. AllThere'
  BY <1>0, Received DEF AllThere, Going
<1> QED  BY <1>1, <1>2, <1>3

\* The steps of the main thread that give the body up.
LEMMA GivenUp ==
    ASSUME StreamInv, Kill, channel' = channel \/ (channel # <<>> /\ channel' = Tail(channel)), pc' = "idle",
           UNCHANGED <<headed, reader, chunk, out>>,
           ~ Going'
    PROVE  StreamInv'
<1>1. channel' \in Seq(Chunks)
  BY DEF StreamInv, Typed
<1>2. Typed'
  BY <1>1 DEF StreamInv, Typed, Kill
<1>3. WritersOK'
  BY DEF StreamInv, WritersOK, Kill, Alive
<1> QED  BY <1>2, <1>3 DEF StreamInv, WaitOK, AllThere

LEMMA MainStreamInv ==
    ASSUME StreamInv, Main \/ Drop
    PROVE  StreamInv'
<1>1. ASSUME UNCHANGED <<headed, buf, got, channel, reader, chunk, out, written, envelope>>,
             UNCHANGED <<want, outs>>, Alive = TRUE => Alive' = TRUE, Going' => Going, WaitOK'
      PROVE  StreamInv'
  <2>1. AllThere'
    BY <1>1, Unmoved DEF StreamInv
  <2> QED  BY <1>1, <2>1 DEF StreamInv, Typed, WritersOK, Alive
<1>2. CASE Call
  BY <1>1, <1>2 DEF Call, Alive, WaitOK, Going, pipes, process, threads
<1>3. CASE HeadMalformed
  BY <1>3, GivenUp DEF HeadMalformed, pipes, Going
<1>4. CASE ReceiveError
  BY <1>4, GivenUp DEF ReceiveError, pipes, Going
<1>5. CASE Timeout
  BY <1>5, GivenUp DEF Timeout, pipes, threads, Going
<1>6. CASE Eof
  BY <1>1, <1>6 DEF Eof, Alive, WaitOK, Going, pipes, process, threads
<1>7. CASE Wait
  BY <1>1, <1>7 DEF Wait, StreamInv, Alive, WaitOK, Going, pipes, threads
<1>8. CASE Join
  BY <1>1, <1>8 DEF Join, Alive, WaitOK, Going, pipes, process, threads
<1>9. CASE Drop
  <2>1. CASE verdict = "open"
    BY <1>9, <2>1, GivenUp DEF Drop, pipes, threads, Going
  <2>2. CASE verdict # "open"
    BY <1>1, <1>9, <2>2 DEF Drop, StreamInv, Alive, WaitOK, Going, pipes, process, threads
  <2> QED  BY <2>1, <2>2
<1> QED
  BY <1>2, <1>3, <1>4, <1>5, <1>6, <1>7, <1>8, <1>9, ReceiveStream DEF Main

LEMMA StreamInvariance == Spec => [](Inv /\ StreamInv)
<1>1. ASSUME Inv, StreamInv, [Next]_vars PROVE StreamInv'
  <2>1. CASE UNCHANGED vars
    <3>1. AllThere'
      BY <1>1, <2>1, Unmoved DEF vars, pipes, process, threads, body, StreamInv, Going
    <3> QED
      BY <1>1, <2>1, <3>1 DEF vars, pipes, process, threads, body, StreamInv, Typed, WritersOK, WaitOK, Alive
  <2> QED
    BY <1>1, <2>1, ChildStreamInv, ReadStream, ReadFailsStream, SendStream, ThreadsStreamInv, MainStreamInv
       DEF Next, Over
<1> QED
  BY <1>1, InitStreamInv, Invariance, PTL DEF Spec
(***************************************************************************)
(* The mapping, step by step.                                              *)
(***************************************************************************)
Sent == IF written > headLen THEN written - headLen ELSE 0
Shown == [i \in DOMAIN got |-> got[i] - headLen]
StreamStep == [Stream!Next]_(Stream!vars)

\* The head taken off, an interval is the first bytes of the body.
LEMMA ShownBytes ==
    ASSUME NEW h \in Nat, NEW r \in Nat, h <= r
    PROVE  /\ [i \in DOMAIN Interval(h, r) |-> Interval(h, r)[i] - h] = Stream!FirstBytes(r - h)
           /\ DOMAIN Interval(h, r) = 1..(r - h)
<1> DEFINE q == Interval(h, r)
           n == r - h
<1>1. n \in Nat /\ q = [k \in 1..n |-> h + k]
  BY DEF Interval
<1> HIDE DEF n, q
<1>2. DOMAIN q = 1..n /\ \A k \in 1..n : q[k] - h = k
  BY <1>1
<1>3. [i \in DOMAIN q |-> q[i] - h] = [i \in 1..n |-> i]
  BY <1>2
<1> QED  BY <1>2, <1>3 DEF Stream!FirstBytes, q, n

LEMMA InitMaps == Init => Stream!Init
<1> SUFFICES ASSUME Init PROVE Stream!Init
  OBVIOUS
<1>1. Sent = 0
  BY HeadLenNat DEF Init, Sent
<1>2. got = <<>> /\ outs # {} /\ verdict = "open"
  BY DEF Init
<1>3. Shown = <<>>
  BY <1>2 DEF Shown
<1> QED  BY <1>1, <1>2, <1>3 DEF Stream!Init, Sent, Shown

\* A step that neither hands on nor ends anything is one of the source, or none.
LEMMA SourceStep ==
    ASSUME written \in Nat, UNCHANGED <<envelope, got, verdict>>,
           \/ outs = {} /\ outs' = {} /\ written' = written
           \/ outs # {} /\ written' \in {written, written + 1}
    PROVE  StreamStep
<1>1. headLen \in Nat /\ headLen' = headLen
  BY HeadLenNat DEF headLen
<1>2. Shown' = Shown
  BY <1>1 DEF Shown
<1>3. CASE outs = {} /\ outs' = {} /\ written' = written
  <2>1. Sent' = Sent
    BY <1>1, <1>3 DEF Sent
  <2> QED  BY <1>2, <1>3, <2>1 DEF StreamStep, Stream!vars, Sent, Shown
<1>4. CASE outs # {} /\ written' \in {written, written + 1}
  <2>0. (IF written + 1 > headLen THEN written + 1 - headLen ELSE 0) \in {Sent, Sent + 1}
    <3>1. CASE written + 1 > headLen
      BY <1>1, <3>1 DEF Sent
    <3>2. CASE ~ written + 1 > headLen
      BY <1>1, <3>2 DEF Sent
    <3> QED  BY <3>1, <3>2
  <2>1. Sent' \in {Sent, Sent + 1}
    <3>1. CASE written' = written
      BY <1>1, <3>1 DEF Sent
    <3>2. CASE written' = written + 1
      <4>1. Sent' = IF written + 1 > headLen THEN written + 1 - headLen ELSE 0
        BY <1>1, <3>2 DEF Sent
      <4> QED  BY <2>0, <4>1
    <3> QED  BY <1>4, <3>1, <3>2
  <2>2. Stream!Produce
    BY <1>2, <1>4, <2>1 DEF Stream!Produce, Sent, Shown
  <2> QED  BY <2>2 DEF StreamStep, Stream!Next
<1> QED  BY <1>3, <1>4

LEMMA FailStep ==
    ASSUME UNCHANGED <<envelope, got, written>>, verdict = "open", verdict' = "failed",
           outs = {} => outs' = {}, outs' # {} => outs # {}
    PROVE  StreamStep
<1>1. headLen' = headLen
  BY DEF headLen
<1>2. Shown' = Shown /\ Sent' = Sent
  BY <1>1 DEF Shown, Sent
<1>3. (outs' = {}) \in {outs = {}, TRUE}
  OBVIOUS
<1>4. Stream!Fail
  BY <1>2, <1>3 DEF Stream!Fail, Sent, Shown
<1> QED  BY <1>4 DEF StreamStep, Stream!Next

LEMMA ChildMaps ==
    ASSUME StreamInv, ChildSteps
    PROVE  StreamStep
<1>1. written \in Nat
  BY DEF StreamInv, Typed
<1>2. CASE ChildWrites
  <2>1. outs # {}
    BY <1>2 DEF ChildWrites, StreamInv, WritersOK
  <2> QED  BY <1>1, <1>2, <2>1, SourceStep DEF ChildWrites, body
<1>3. ASSUME UNCHANGED <<envelope, written, body>>, outs = {} => outs' = {}
      PROVE  StreamStep
  BY <1>1, <1>3, SourceStep DEF body
<1>4. CASE ChildWants
  BY <1>3, <1>4 DEF ChildWants
<1>5. CASE ChildReads
  BY <1>3, <1>5 DEF ChildReads
<1>6. CASE ChildComplains
  BY <1>3, <1>6 DEF ChildComplains
<1>7. CASE ChildCloses
  BY <1>3, <1>7 DEF ChildCloses
<1>8. CASE ChildForks
  BY <1>3, <1>8 DEF ChildForks
<1>9. CASE ChildExits \/ ChildDies
  BY <1>3, <1>9 DEF ChildExits, ChildDies, Gone
<1>10. CASE KinExits
  BY <1>3, <1>10 DEF KinExits
<1> QED
  BY <1>2, <1>4, <1>5, <1>6, <1>7, <1>8, <1>9, <1>10 DEF ChildSteps

LEMMA ThreadsMap ==
    ASSUME StreamInv, Feed \/ DrainStderr \/ DrainFails \/ ReadStdout \/ ReadFails \/ Send
    PROVE  StreamStep
<1>1. written \in Nat
  BY DEF StreamInv, Typed
<1>2. UNCHANGED <<envelope, got, verdict, outs, written>>
  BY DEF Feed, DrainStderr, DrainFails, ReadStdout, ReadFails, Send, process, body
<1> QED  BY <1>1, <1>2, SourceStep

\* What a received chunk adds is handed on, but for what belongs to the head.
LEMMA ReceiveMaps ==
    ASSUME StreamInv, Receive, Going
    PROVE  StreamStep
<1>1. PICK r, m : Located(r, m)
  BY DEF StreamInv, AllThere
<1>2. PICK n : n \in Nat /\ r < n /\ Located(n, m)'
  BY <1>1, Received
<1>3. UNCHANGED <<envelope, outs, written, verdict>> /\ verdict = "open" /\ written \in Nat
  BY DEF Receive, process, Going, StreamInv, Typed
<1>4. headLen \in Nat /\ headLen' = headLen
  BY <1>3, HeadLenNat DEF headLen
<1>5. Sent' = Sent
  BY <1>3, <1>4 DEF Sent
<1>6. n <= written
  <2>1. PICK p : /\ p[0] = n /\ p[Len(channel')] = m
                 /\ \A i \in 0..Len(channel') : p[i] \in Nat /\ p[i] <= m
    BY <1>2 DEF Located, Carries
  <2>2. channel' \in Seq(Chunks)
    BY ReceiveStream DEF StreamInv, Typed
  <2>3. n <= m
    <3>1. 0 \in 0..Len(channel')
      BY <2>2
    <3> QED  BY <2>1, <3>1
  <2>4. m \in Nat /\ m <= written
    BY <1>2, <1>3 DEF Located, Behind
  <2> QED  BY <1>2, <1>3, <2>3, <2>4
<1>7. CASE headed' # TRUE
  <2>1. headed # TRUE
    BY <1>7 DEF Receive, PassOn
  <2>2. got = <<>> /\ got' = <<>>
    BY <1>1, <1>2, <1>7, <2>1 DEF Located, Handed
  <2> QED  BY <1>3, <2>2, SourceStep
<1>8. CASE headed' = TRUE
  <2>1. headLen <= n /\ got' = Interval(headLen, n)
    BY <1>2, <1>4, <1>8 DEF Located, Handed
  <2>2. Shown' = Stream!FirstBytes(n - headLen)
    BY <1>2, <1>4, <2>1, ShownBytes DEF Shown
  <2>3. \E k \in Nat : got = Interval(headLen, headLen + k) /\ headLen + k <= n
        /\ (headLen + k = n => n = headLen)
    <3>1. CASE headed = TRUE
      <4>1. headLen <= r /\ got = Interval(headLen, r) /\ r \in Nat
        BY <1>1, <3>1 DEF Located, Handed
      <4>2. r - headLen \in Nat /\ headLen + (r - headLen) = r
        BY <1>4, <4>1
      <4>3. r <= n /\ r # n
        BY <1>2, <4>1
      <4> QED  BY <4>1, <4>2, <4>3
    <3>2. CASE headed # TRUE
      <4>1. got = <<>>
        BY <1>1, <3>2 DEF Located, Handed
      <4>2. Interval(headLen, headLen) = <<>>
        BY <1>4, Intervals
      <4>3. 0 \in Nat /\ headLen + 0 = headLen
        BY <1>4
      <4>4. got = Interval(headLen, headLen + 0) /\ headLen + 0 <= n /\ (headLen + 0 = n => n = headLen)
        BY <2>1, <4>1, <4>2, <4>3
      <4> QED  BY <4>3, <4>4
    <3> QED  BY <3>1, <3>2
  <2>4. PICK k \in Nat : got = Interval(headLen, headLen + k) /\ headLen + k <= n
                         /\ (headLen + k = n => n = headLen)
    BY <2>3
  <2>5. Shown = Stream!FirstBytes(k)
    <3>1. headLen + k \in Nat /\ headLen <= headLen + k /\ (headLen + k) - headLen = k
      BY <1>4
    <3> QED  BY <1>4, <2>4, <3>1, ShownBytes DEF Shown
  <2>6. CASE headLen + k = n
    <3>1. n - headLen = k
      BY <1>4, <2>6
    <3>2. Shown' = Shown
      BY <2>2, <2>5, <3>1
    <3> QED  BY <1>3, <1>5, <3>2 DEF StreamStep, Stream!vars, Sent, Shown
  <2>7. CASE headLen + k # n
    <3>1. Len(Shown) = k
      BY <2>5 DEF Stream!FirstBytes
    <3>2. n - headLen \in (k + 1)..Sent
      BY <1>2, <1>3, <1>4, <1>6, <2>1, <2>4, <2>7 DEF Sent
    <3>3. n - headLen \in (Len(Shown) + 1)..Sent
      BY <3>1, <3>2
    <3>4. Stream!HandOn
      BY <1>3, <1>5, <2>2, <3>3 DEF Stream!HandOn, Sent, Shown
    <3> QED  BY <3>4 DEF StreamStep, Stream!Next
  <2> QED  BY <2>6, <2>7
<1> QED  BY <1>7, <1>8

\* The stream ends well only when all was received that was written, and nobody is
\* left to write.
LEMMA JoinMaps ==
    ASSUME StreamInv, Join, Going
    PROVE  StreamStep
<1>1. UNCHANGED <<envelope, outs, written, got>> /\ verdict = "open"
  BY DEF Join, process, Going
<1>2. CASE verdict' = "failed"
  BY <1>1, <1>2, FailStep
<1>3. CASE verdict' = "ended" /\ headed = TRUE
  <2>1. PICK r, m : Located(r, m)
    BY DEF StreamInv, AllThere
  <2>2. reader = "gone" /\ channel = <<>>
    BY DEF Join, StreamInv, WaitOK
  <2>3. r \in Nat /\ headLen <= r /\ got = Interval(headLen, r)
    BY <1>3, <2>1 DEF Located, Handed
  <2>4. m = r
    BY <2>1, <2>2, <2>3, CarriesNone DEF Located
  <2>5. outs = {} /\ m = written
    <3>1. DOMAIN channel = {}
      BY <2>2
    <3> QED  BY <2>1, <2>2, <3>1 DEF Located, Behind
  <2>6. headLen \in Nat /\ headLen' = headLen /\ written = r
    BY <1>1, <2>4, <2>5, HeadLenNat DEF headLen
  <2>7. Sent = r - headLen
    BY <2>3, <2>6 DEF Sent
  <2>8. Shown = Stream!FirstBytes(r - headLen)
    BY <2>3, <2>6, ShownBytes DEF Shown
  <2>9. Len(Shown) = Sent
    <3>1. r - headLen \in Nat
      BY <2>3, <2>6
    <3> QED  BY <2>7, <2>8, <3>1 DEF Stream!FirstBytes
  <2>10. Shown' = Shown /\ Sent' = Sent
    BY <1>1, <2>6 DEF Shown, Sent
  <2>11. Stream!End
    BY <1>1, <1>3, <2>5, <2>9, <2>10 DEF Stream!End, Sent, Shown
  <2> QED  BY <2>11 DEF StreamStep, Stream!Next
<1> QED  BY <1>2, <1>3 DEF Join

LEMMA MainMaps ==
    ASSUME Inv, StreamInv, Main \/ Drop
    PROVE  StreamStep
<1>1. written \in Nat /\ (pc # "idle" => Going)
  BY DEF Inv, CallOK, Going, StreamInv, Typed
<1>2. ASSUME UNCHANGED <<envelope, got, verdict, outs, written>> PROVE StreamStep
  BY <1>1, <1>2, SourceStep
<1>3. ASSUME Kill, UNCHANGED got, verdict = "open", verdict' = "failed" PROVE StreamStep
  BY <1>3, FailStep DEF Kill
<1>4. CASE Call
  BY <1>2, <1>4 DEF Call, process
<1>5. CASE Receive
  BY <1>1, <1>5, ReceiveMaps DEF Receive
<1>6. CASE HeadMalformed
  BY <1>1, <1>3, <1>6 DEF HeadMalformed, Going
<1>7. CASE ReceiveError
  BY <1>1, <1>3, <1>7 DEF ReceiveError, Going
<1>8. CASE Timeout
  BY <1>1, <1>3, <1>8 DEF Timeout, Going
<1>9. CASE Eof
  BY <1>2, <1>9 DEF Eof, process
<1>10. CASE Wait
  BY <1>2, <1>10 DEF Wait
<1>11. CASE Join
  BY <1>1, <1>11, JoinMaps DEF Join
<1>12. CASE Drop
  <2>1. CASE verdict = "open"
    BY <1>1, <1>12, <2>1, SourceStep DEF Drop, Kill
  <2>2. CASE verdict # "open"
    BY <1>2, <1>12, <2>2 DEF Drop, process
  <2> QED  BY <2>1, <2>2
<1> QED
  BY <1>4, <1>5, <1>6, <1>7, <1>8, <1>9, <1>10, <1>11, <1>12 DEF Main

\* What the consumer of the body sees, the head of an HTTP message taken off, is a byte
\* stream: nothing is lost, repeated or out of order between the pipe, the thread, the
\* channel and the relay, and it ends without an error only after the last byte.
THEOREM ImplementsByteStream == Spec => IsByteStream
<1>1. ASSUME Inv, StreamInv, [Next]_vars PROVE StreamStep
  <2>1. CASE UNCHANGED vars
    <3>1. UNCHANGED <<envelope, got, verdict, outs, written>> /\ written \in Nat
      BY <1>1, <2>1 DEF vars, pipes, process, threads, body, StreamInv, Typed
    <3> QED  BY <3>1, SourceStep
  <2> QED
    BY <1>1, <2>1, ChildMaps, ThreadsMap, MainMaps DEF Next, Over
<1> QED
  BY <1>1, InitMaps, StreamInvariance, PTL DEF Spec, StreamStep, IsByteStream, Stream!Spec
===============================================================================
