---------------------------- MODULE BodyProof ----------------------------
(***************************************************************************)
(* For any size of buffer and length of body, with a budget and without:   *)
(* what the caller of the reader sees is a byte stream, and what comes out *)
(* of the framer on top of it are the frames of the text.                  *)
(*                                                                         *)
(* The reader.  Until the body is dropped every byte is on the wire, with  *)
(* the worker or handed on, and the numbers run on from one place to the   *)
(* next.  A worker that is gone while somebody still waits has met the     *)
(* end.                                                                    *)
(*                                                                         *)
(* The framers.  Reading a text goes from one position to the next, and so *)
(* does every proof about it, by induction over the positions (UpTo).      *)
(* Nothing is dispatched before the first blank line ends, and what a      *)
(* reading has noted there is what the parser makes of the block; from     *)
(* there on the rest is read as if it were alone.  So taking blocks off    *)
(* the front of the buffer, round by round, leaves the frames of the text  *)
(* and its unfinished end, and no blank line that the next chunk completes *)
(* began before the place where the search resumes.                        *)
(***************************************************************************)
EXTENDS Body, WellFoundedInduction, TLAPS

\* The bytes after the a-th.
Numbered(s, a) == s \in Seq(Nat) /\ \A i \in 1..Len(s) : s[i] = a + i

\* The bytes the worker holds.
Carried == IF chunk = Broken THEN <<>> ELSE chunk

Located ==
    /\ Numbered(got, 0)
    /\ Numbered(Carried, Len(got))
    /\ Numbered(wire, Len(got) + Len(Carried))
    /\ Len(got) + Len(Carried) + Len(wire) = sent

Typed ==
    /\ sent \in Nat /\ source \in {"open", "closed", "broken"}
    /\ worker \in {"none", "reading", "sending", "gone"}
    /\ pc \in {"idle", "recv"} /\ verdict \in {"open", "ended", "failed"} /\ dropped \in BOOLEAN

Inv ==
    /\ Typed
    /\ pc = "recv" => verdict = "open" /\ ~ dropped
    /\ worker = "sending" <=> chunk # <<>>
    /\ ~ dropped => Located
    /\ worker = "gone" => dropped \/ verdict = "failed" \/ (source = "closed" /\ wire = <<>>)

(***************************************************************************)
(* Numbered bytes.                                                         *)
(***************************************************************************)
LEMMA BrokenIsNotNone == Broken # <<>>
<1>1. <<>> \in Seq(Nat)
  OBVIOUS
<1> QED  BY <1>1, IdleAssumption

LEMMA NoneNumbered == \A a \in Nat : Numbered(<<>>, a)
  BY DEF Numbered

LEMMA OneMore ==
    ASSUME NEW a \in Nat, NEW s, Numbered(s, a)
    PROVE  /\ Numbered(Append(s, a + Len(s) + 1), a)
           /\ Len(Append(s, a + Len(s) + 1)) = Len(s) + 1
<1> DEFINE t == Append(s, a + Len(s) + 1)
<1>1. s \in Seq(Nat) /\ Len(s) \in Nat /\ a + Len(s) + 1 \in Nat
  BY DEF Numbered
<1>2. t \in Seq(Nat) /\ Len(t) = Len(s) + 1
  BY <1>1
<1>3. ASSUME NEW i \in 1..Len(t) PROVE t[i] = a + i
  BY <1>1, <1>2, <1>3 DEF Numbered
<1> QED  BY <1>2, <1>3 DEF Numbered

LEMMA Joined ==
    ASSUME NEW a \in Nat, NEW s, Numbered(s, a), NEW t, Numbered(t, a + Len(s))
    PROVE  Numbered(s \o t, a) /\ Len(s \o t) = Len(s) + Len(t)
<1>1. s \in Seq(Nat) /\ t \in Seq(Nat) /\ Len(s) \in Nat /\ Len(t) \in Nat
  BY DEF Numbered
<1>2. s \o t \in Seq(Nat) /\ Len(s \o t) = Len(s) + Len(t)
  BY <1>1
<1>3. ASSUME NEW i \in 1..Len(s \o t) PROVE (s \o t)[i] = a + i
  <2>1. CASE i <= Len(s)
    BY <1>1, <1>2, <2>1 DEF Numbered
  <2>2. CASE i > Len(s)
    <3>1. i - Len(s) \in 1..Len(t) /\ (s \o t)[i] = t[i - Len(s)]
      BY <1>1, <1>2, <2>2
    <3>2. t[i - Len(s)] = a + Len(s) + (i - Len(s))
      BY <3>1 DEF Numbered
    <3> QED  BY <1>1, <3>1, <3>2
  <2> QED  BY <1>1, <1>2, <2>1, <2>2
<1> QED  BY <1>2, <1>3 DEF Numbered

LEMMA Cut ==
    ASSUME NEW a \in Nat, NEW s, Numbered(s, a), NEW n \in 0..Len(s)
    PROVE  /\ Numbered(SubSeq(s, 1, n), a) /\ Len(SubSeq(s, 1, n)) = n
           /\ Numbered(SubSeq(s, n + 1, Len(s)), a + n) /\ Len(SubSeq(s, n + 1, Len(s))) = Len(s) - n
<1>1. s \in Seq(Nat) /\ Len(s) \in Nat /\ n \in Nat /\ n <= Len(s)
  BY DEF Numbered
<1>2. /\ SubSeq(s, 1, n) \in Seq(Nat) /\ Len(SubSeq(s, 1, n)) = n
      /\ \A i \in 1..n : SubSeq(s, 1, n)[i] = s[i]
  BY <1>1
<1>3. /\ SubSeq(s, n + 1, Len(s)) \in Seq(Nat) /\ Len(SubSeq(s, n + 1, Len(s))) = Len(s) - n
      /\ \A i \in 1..(Len(s) - n) : SubSeq(s, n + 1, Len(s))[i] = s[n + i]
  BY <1>1
<1>4. \A i \in 1..(Len(s) - n) : n + i \in 1..Len(s) /\ s[n + i] = a + n + i
  BY <1>1 DEF Numbered
<1>5. \A i \in 1..n : i \in 1..Len(s)
  BY <1>1
<1> QED  BY <1>2, <1>3, <1>4, <1>5 DEF Numbered

LEMMA FromTheFirst ==
    ASSUME NEW s, Numbered(s, 0)
    PROVE  s = Stream!FirstBytes(Len(s)) /\ Len(s) \in Nat
  BY DEF Numbered, Stream!FirstBytes

(***************************************************************************)
(* The invariant.                                                          *)
(***************************************************************************)
LEMMA InitInv == Init => Inv
<1> SUFFICES ASSUME Init PROVE Inv
  OBVIOUS
<1>1. Typed /\ pc = "idle" /\ worker \in {"none", "reading"}
  BY DEF Init, Typed
<1>2. Carried = <<>> /\ got = <<>> /\ wire = <<>> /\ sent = 0
  BY DEF Init, Carried
<1>3. Located
  BY <1>2, NoneNumbered DEF Located
<1> QED  BY <1>1, <1>3 DEF Init, Inv

\* What one read takes off the wire: some bytes, nothing, or nothing ever.
LEMMA ReadTakes ==
    ASSUME NEW a \in Nat, Numbered(wire, a), NEW result \in ReadResults, Consumes(result)
    PROVE  \/ result = Broken /\ wire' = wire
           \/ /\ result # Broken /\ result # <<>>
              /\ Numbered(result, a) /\ Numbered(wire', a + Len(result))
              /\ Len(result) \in Nat /\ Len(wire') \in Nat /\ Len(result) + Len(wire') = Len(wire)
           \/ result = <<>> /\ result # Broken /\ source = "closed" /\ wire = <<>> /\ wire' = <<>>
<1>1. wire \in Seq(Nat) /\ Len(wire) \in Nat
  BY DEF Numbered
<1>2. <<>> # Broken
  BY BrokenIsNotNone
<1>3. CASE result = Broken
  BY <1>3 DEF Consumes
<1>4. ASSUME result # Broken, NEW n \in 1..(IF Len(wire) < ChunkMax THEN Len(wire) ELSE ChunkMax),
             result = SubSeq(wire, 1, n)
      PROVE  /\ result # <<>>
             /\ Numbered(result, a) /\ Numbered(wire', a + Len(result))
             /\ Len(result) \in Nat /\ Len(wire') \in Nat /\ Len(result) + Len(wire') = Len(wire)
  <2>1. n \in 0..Len(wire) /\ n # 0
    BY <1>1, <1>4, IdleAssumption
  <2>2. /\ Numbered(result, a) /\ Len(result) = n
        /\ Numbered(SubSeq(wire, n + 1, Len(wire)), a + n)
        /\ Len(SubSeq(wire, n + 1, Len(wire))) = Len(wire) - n
    BY <1>4, <2>1, Cut
  <2>3. wire' = SubSeq(wire, n + 1, Len(wire))
    BY <1>4, <2>2 DEF Consumes
  <2>4. result # <<>>
    BY <2>1, <2>2
  <2> QED  BY <1>1, <2>1, <2>2, <2>3, <2>4
<1>5. CASE result # Broken /\ source = "closed" /\ wire = <<>> /\ result = <<>>
  BY <1>5 DEF Consumes
<1> QED  BY <1>3, <1>4, <1>5 DEF ReadResults

LEMMA LocatedLengths ==
    Located => /\ Len(got) \in Nat /\ Len(Carried) \in Nat /\ Len(wire) \in Nat
               /\ got \in Seq(Nat) /\ Carried \in Seq(Nat) /\ wire \in Seq(Nat)
  BY DEF Located, Numbered

LEMMA RemoteInv ==
    ASSUME Inv, Remote PROVE Inv'
<1>1. UNCHANGED <<worker, chunk, pc, got, verdict, dropped>> /\ source = "open"
  BY DEF Remote, body
<1>2. Carried' = Carried
  BY <1>1 DEF Carried
<1>3. CASE sent' = sent + 1 /\ wire' = Append(wire, sent + 1) /\ source' = source
  <2>1. ASSUME Located PROVE Located'
    <3>1. /\ Len(got) \in Nat /\ Len(Carried) \in Nat /\ Len(wire) \in Nat
          /\ Numbered(wire, Len(got) + Len(Carried)) /\ Len(got) + Len(Carried) + Len(wire) = sent
      BY <2>1, LocatedLengths DEF Located
    <3>2. Len(got) + Len(Carried) \in Nat
      BY <3>1
    <3>3. Numbered(wire', Len(got) + Len(Carried)) /\ Len(wire') = Len(wire) + 1
      BY <1>3, <3>1, <3>2, OneMore
    <3>4. Len(got) + Len(Carried) + Len(wire') = sent'
      BY <1>3, <3>1, <3>3
    <3> QED  BY <1>1, <1>2, <2>1, <3>3, <3>4 DEF Located
  <2> QED  BY <1>1, <1>3, <2>1 DEF Inv, Typed
<1>4. CASE source' \in {"closed", "broken"} /\ UNCHANGED <<sent, wire>>
  <2>1. Located => Located'
    BY <1>1, <1>2, <1>4 DEF Located
  <2> QED  BY <1>1, <1>4, <2>1 DEF Inv, Typed
<1> QED  BY <1>3, <1>4 DEF Remote

LEMMA WorkerReadsInv ==
    ASSUME Inv, WorkerReads PROVE Inv'
<1>1. PICK result \in ReadResults :
         chunk' = result /\ Consumes(result) /\ worker' = IF result = <<>> THEN "gone" ELSE "sending"
  BY DEF WorkerReads
<1>2. UNCHANGED <<sent, source, pc, got, verdict, dropped>> /\ worker = "reading"
  BY DEF WorkerReads, body
<1>3. chunk = <<>> /\ Carried = <<>>
  BY <1>2 DEF Inv, Carried
<1>4. ASSUME ~ dropped
      PROVE  Located' /\ (worker' = "gone" => source = "closed" /\ wire' = <<>>)
  <2>1. /\ Len(got) \in Nat /\ Len(wire) \in Nat /\ Numbered(got, 0)
        /\ Numbered(wire, Len(got)) /\ Len(got) + Len(wire) = sent
    BY <1>3, <1>4, LocatedLengths DEF Inv, Located
  <2>2. CASE result = Broken /\ wire' = wire
    <3>1. Carried' = <<>> /\ worker' = "sending"
      BY <1>1, <2>2, BrokenIsNotNone DEF Carried
    <3> QED  BY <1>2, <2>1, <2>2, <3>1, NoneNumbered DEF Located
  <2>3. CASE /\ result # Broken /\ result # <<>>
             /\ Numbered(result, Len(got)) /\ Numbered(wire', Len(got) + Len(result))
             /\ Len(result) \in Nat /\ Len(wire') \in Nat /\ Len(result) + Len(wire') = Len(wire)
    <3>1. Carried' = result /\ worker' = "sending"
      BY <1>1, <2>3 DEF Carried
    <3>2. Len(got) + Len(result) + Len(wire') = sent
      BY <2>1, <2>3
    <3> QED  BY <1>2, <2>1, <2>3, <3>1, <3>2 DEF Located
  <2>4. CASE result = <<>> /\ result # Broken /\ source = "closed" /\ wire = <<>> /\ wire' = <<>>
    <3>1. Carried' = <<>> /\ wire' = wire
      BY <1>1, <2>4 DEF Carried
    <3>2. Located'
      BY <1>2, <2>1, <3>1, NoneNumbered DEF Located
    <3> QED  BY <2>4, <3>2
  <2> QED  BY <1>1, <2>1, <2>2, <2>3, <2>4, ReadTakes
<1>5. Typed'
  BY <1>1, <1>2 DEF Inv, Typed
<1>6. worker' = "sending" <=> chunk' # <<>>
  BY <1>1
<1> QED  BY <1>1, <1>2, <1>4, <1>5, <1>6 DEF Inv

\* What a call returns is what comes next.
LEMMA HandedOn ==
    ASSUME Located, NEW result, got' = got \o result, Numbered(result, Len(got)),
           Numbered(wire', Len(got) + Len(result)), Len(got) + Len(result) + Len(wire') = sent,
           sent' = sent, Carried' = <<>>
    PROVE  Located' /\ Len(got') = Len(got) + Len(result)
<1>1. Numbered(got, 0) /\ Len(got) \in Nat /\ Len(result) \in Nat /\ Len(wire') \in Nat
  BY LocatedLengths DEF Located, Numbered
<1>2. Numbered(got', 0) /\ Len(got') = Len(got) + Len(result)
  <2>1. 0 + Len(got) = Len(got)
    BY <1>1
  <2> QED  BY <1>1, <2>1, Joined
<1> QED  BY <1>1, <1>2, NoneNumbered DEF Located

LEMMA MeetInv ==
    ASSUME Inv, Meet PROVE Inv'
<1>1. /\ pc = "recv" /\ worker = "sending" /\ chunk' = <<>> /\ pc' = "idle"
      /\ worker' = IF chunk = Broken THEN "gone" ELSE "reading"
      /\ UNCHANGED <<sent, wire, source, dropped>>
  BY DEF Meet, remote, HandsOn
<1>2. verdict = "open" /\ ~ dropped /\ Located
  BY <1>1 DEF Inv
<1>3. Carried' = <<>>
  BY <1>1 DEF Carried
<1>4. CASE chunk = Broken
  <2>1. Carried = <<>> /\ got' = got /\ verdict' = "failed"
    BY <1>4 DEF Meet, HandsOn, Carried
  <2>2. Located'
    BY <1>1, <1>2, <1>3, <2>1 DEF Located
  <2> QED  BY <1>1, <1>4, <2>1, <2>2 DEF Inv, Typed
<1>5. CASE chunk # Broken
  <2>1. Carried = chunk /\ got' = got \o chunk /\ verdict' = verdict
    BY <1>5 DEF Meet, HandsOn, Carried
  <2>2. Located'
    BY <1>1, <1>2, <1>3, <2>1, HandedOn DEF Located
  <2> QED  BY <1>1, <1>2, <1>5, <2>1, <2>2 DEF Inv, Typed
<1> QED  BY <1>4, <1>5

\* A read in place ends, fails or hands on.
LEMMA ReadsInPlace ==
    ASSUME Inv, ReadInPlace
    PROVE  /\ Located' /\ verdict = "open" /\ worker = "none" /\ pc' = "idle"
           /\ UNCHANGED <<sent, source, worker, chunk, dropped>>
           /\ \/ verdict' = "failed" /\ got' = got
              \/ verdict' = "open" /\ Len(got') \in Nat /\ Len(got') > Len(got) /\ Len(got') <= sent
              \/ verdict' = "ended" /\ got' = got /\ source = "closed" /\ Len(got) = sent
<1>1. PICK result \in ReadResults :
         /\ Consumes(result)
         /\ IF result = <<>> THEN pc' = "idle" /\ verdict' = "ended" /\ UNCHANGED got ELSE HandsOn(result)
  BY DEF ReadInPlace
<1>2. /\ pc = "recv" /\ worker = "none" /\ UNCHANGED <<sent, source, worker, chunk, dropped>>
  BY DEF ReadInPlace
<1>3. verdict = "open" /\ Located /\ chunk = <<>> /\ sent \in Nat
  BY <1>2 DEF Inv, Typed
<1>4. Carried = <<>> /\ Carried' = <<>> /\ <<>> # Broken
  BY <1>2, <1>3, BrokenIsNotNone DEF Carried
<1>5. /\ Len(got) \in Nat /\ Len(wire) \in Nat /\ Numbered(got, 0)
      /\ Numbered(wire, Len(got)) /\ Len(got) + Len(wire) = sent
  BY <1>3, <1>4, LocatedLengths DEF Located
<1>6. CASE result = Broken /\ wire' = wire
  <2>1. verdict' = "failed" /\ got' = got /\ pc' = "idle"
    BY <1>1, <1>4, <1>6 DEF HandsOn
  <2>2. Located'
    BY <1>2, <1>3, <1>4, <1>6, <2>1 DEF Located
  <2> QED  BY <1>2, <1>3, <2>1, <2>2
<1>7. CASE /\ result # Broken /\ result # <<>>
           /\ Numbered(result, Len(got)) /\ Numbered(wire', Len(got) + Len(result))
           /\ Len(result) \in Nat /\ Len(wire') \in Nat /\ Len(result) + Len(wire') = Len(wire)
  <2>1. verdict' = verdict /\ got' = got \o result /\ pc' = "idle"
    BY <1>1, <1>7 DEF HandsOn
  <2>2. Len(got) + Len(result) + Len(wire') = sent
    BY <1>5, <1>7
  <2>3. Located' /\ Len(got') = Len(got) + Len(result)
    BY <1>2, <1>3, <1>4, <1>7, <2>1, <2>2, HandedOn
  <2>4. Len(result) # 0
    BY <1>7 DEF Numbered
  <2>5. Len(got') \in Nat /\ Len(got') > Len(got) /\ Len(got') <= sent
    BY <1>5, <1>7, <2>2, <2>3, <2>4
  <2> QED  BY <1>2, <1>3, <2>1, <2>3, <2>5
<1>8. CASE result = <<>> /\ result # Broken /\ source = "closed" /\ wire = <<>> /\ wire' = <<>>
  <2>1. verdict' = "ended" /\ got' = got /\ pc' = "idle"
    BY <1>1, <1>8
  <2>2. Located' /\ Len(got) = sent
    BY <1>2, <1>3, <1>4, <1>5, <1>8, <2>1 DEF Located
  <2> QED  BY <1>2, <1>3, <1>8, <2>1, <2>2
<1> QED  BY <1>1, <1>5, <1>6, <1>7, <1>8, ReadTakes

LEMMA NextInv ==
    ASSUME Inv, [Next]_vars PROVE Inv'
<1>1. CASE WorkerGivesUp
  <2>1. /\ dropped /\ worker' = "gone" /\ chunk' = <<>>
        /\ UNCHANGED <<sent, wire, source, pc, got, verdict, dropped>>
    BY <1>1 DEF WorkerGivesUp, remote, body
  <2> QED  BY <2>1 DEF Inv, Typed
<1>2. CASE Call \/ Stall \/ Disconnected \/ Drop \/ Over \/ UNCHANGED vars
  <2>1. UNCHANGED <<sent, wire, source, worker, chunk, got>>
    BY <1>2 DEF Call, Stall, Disconnected, Drop, Over, vars, remote, body
  <2>2. Carried' = Carried
    BY <2>1 DEF Carried
  <2>3. Located => Located'
    BY <2>1, <2>2 DEF Located
  <2>4. CASE Call
    BY <2>1, <2>3, <2>4 DEF Call, Inv, Typed
  <2>5. CASE Stall
    BY <2>1, <2>3, <2>5 DEF Stall, Inv, Typed
  <2>6. CASE Disconnected
    BY <2>1, <2>3, <2>6 DEF Disconnected, Inv, Typed
  <2>7. CASE Drop
    BY <2>1, <2>3, <2>7 DEF Drop, Inv, Typed
  <2>8. CASE Over \/ UNCHANGED vars
    BY <2>1, <2>3, <2>8 DEF Over, vars, body, Inv, Typed
  <2> QED  BY <1>2, <2>4, <2>5, <2>6, <2>7, <2>8
<1>3. CASE ReadInPlace
  BY <1>3, ReadsInPlace DEF Inv, Typed
<1> QED
  BY <1>1, <1>2, <1>3, RemoteInv, WorkerReadsInv, MeetInv DEF Next, Main

LEMMA Invariance == Spec => []Inv
  BY InitInv, NextInv, PTL DEF Spec

(***************************************************************************)
(* The refinement.                                                         *)
(***************************************************************************)
\* Reading is seen by nobody; handing on, ending and failing are those of a byte stream.
LEMMA StreamStep ==
    ASSUME Inv, Inv', [Next]_vars
    PROVE  [Stream!Next]_Stream!vars
<1> USE DEF Stream!vars, Stream!Next
<1>1. CASE Remote
  <2>1. UNCHANGED <<got, verdict>> /\ source = "open" /\ sent' \in {sent, sent + 1}
    BY <1>1 DEF Remote, body
  <2> QED  BY <2>1 DEF Stream!Produce
<1>2. CASE WorkerReads \/ WorkerGivesUp \/ Call \/ Drop \/ Over \/ UNCHANGED vars
  BY <1>2 DEF WorkerReads, WorkerGivesUp, Call, Drop, Over, vars, remote, body
<1>3. ASSUME verdict = "open", verdict' = "failed", UNCHANGED <<sent, source, got>>
      PROVE  Stream!Next
  BY <1>3 DEF Stream!Fail
<1>4. ASSUME verdict = "open", verdict' = "open", UNCHANGED <<sent, source>>, Located',
             Len(got') \in Nat, Len(got') > Len(got), Len(got') <= sent, Len(got) \in Nat, sent \in Nat
      PROVE  Stream!Next
  <2>1. got' = Stream!FirstBytes(Len(got'))
    BY <1>4, FromTheFirst DEF Located
  <2>2. Len(got') \in (Len(got) + 1)..sent
    BY <1>4
  <2> QED  BY <1>4, <2>1, <2>2 DEF Stream!HandOn
<1>5. CASE Meet
  <2>1. /\ pc = "recv" /\ worker = "sending" /\ chunk # <<>> /\ verdict = "open" /\ ~ dropped /\ Located
        /\ UNCHANGED <<sent, wire, source, dropped>> /\ sent \in Nat
    BY <1>5 DEF Meet, remote, Inv, Typed
  <2>2. CASE chunk = Broken
    <3>1. got' = got /\ verdict' = "failed"
      BY <1>5, <2>2 DEF Meet, HandsOn
    <3> QED  BY <1>3, <2>1, <3>1
  <2>3. CASE chunk # Broken
    <3>1. got' = got \o chunk /\ verdict' = "open" /\ Carried = chunk
      BY <1>5, <2>1, <2>3 DEF Meet, HandsOn, Carried
    <3>2. /\ Len(got) \in Nat /\ Len(chunk) \in Nat /\ Len(wire) \in Nat
          /\ Len(got) + Len(chunk) + Len(wire) = sent /\ Len(chunk) # 0
          /\ Len(got') = Len(got) + Len(chunk)
      <4>1. got \in Seq(Nat) /\ chunk \in Seq(Nat) /\ wire \in Seq(Nat)
        BY <2>1, <3>1, LocatedLengths
      <4> QED  BY <2>1, <3>1, <4>1 DEF Located
    <3>3. Located'
      BY <2>1 DEF Inv
    <3>4. Len(got') \in Nat /\ Len(got') > Len(got) /\ Len(got') <= sent
      BY <3>2
    <3> QED  BY <1>4, <2>1, <3>1, <3>2, <3>3, <3>4
  <2> QED  BY <2>2, <2>3
<1>6. CASE Stall
  BY <1>3, <1>6 DEF Stall, remote, Inv
<1>7. CASE Disconnected
  <2>1. /\ verdict = "open" /\ source = "closed" /\ wire = <<>> /\ chunk = <<>> /\ Located
        /\ UNCHANGED <<sent, source, got>> /\ verdict' = "ended"
    BY <1>7 DEF Disconnected, remote, Inv
  <2>2. Carried = <<>>
    BY <2>1 DEF Carried
  <2>3. Len(got) = sent
    BY <2>1, <2>2, LocatedLengths DEF Located
  <2> QED  BY <2>1, <2>3 DEF Stream!End
<1>8. CASE ReadInPlace
  <2>1. Located /\ sent \in Nat /\ Len(got) \in Nat
    BY <1>8, LocatedLengths DEF ReadInPlace, Inv, Typed
  <2>2. CASE verdict' = "ended" /\ got' = got /\ source = "closed" /\ Len(got) = sent
    BY <1>8, <2>2, ReadsInPlace DEF Stream!End
  <2> QED  BY <1>3, <1>4, <1>8, <2>1, <2>2, ReadsInPlace
<1> QED
  BY <1>1, <1>2, <1>5, <1>6, <1>7, <1>8 DEF Next, Main

\* The caller of the reader cannot tell the worker behind it from a byte stream: a stalled,
\* broken or slow connection loses, repeats and reorders nothing, and never looks like the
\* end.
THEOREM ImplementsByteStream == Spec => IsByteStream
<1>1. Init => Stream!Init
  BY DEF Init, Stream!Init
<1> QED
  BY <1>1, Invariance, StreamStep, PTL DEF Spec, IsByteStream, Stream!Spec

(***************************************************************************)
(* Induction over the positions of a sequence, and the functions that are  *)
(* defined by recursion over them.                                         *)
(***************************************************************************)
LEMMA LeastElement ==
    ASSUME NEW S \in SUBSET Nat, S # {}
    PROVE  \E m \in S : \A x \in S : m <= x
<1> DEFINE R == {r \in Nat \X Nat : r[1] < r[2]}
<1>1. R = OpToRel(<, Nat)
  BY Zenon DEF OpToRel
<1>2. IsWellFoundedOn(R, Nat)
  BY <1>1, NatLessThanWellFounded, Zenon
<1> HIDE DEF R
<1>3. PICK m \in S : \A x \in S : ~ (<<x, m>> \in R)
  BY <1>2, WFMin, Zenon
<1>4. \A x \in Nat : x < m => <<x, m>> \in R
  BY DEF R
<1>5. \A x \in S : m <= x
  <2> SUFFICES ASSUME NEW x \in S PROVE m <= x
    OBVIOUS
  <2>1. ~ (x < m)
    BY <1>3, <1>4
  <2> QED  BY <2>1
<1> QED  BY <1>5

\* What holds at 0 and passes on from each position to the next holds at each.
LEMMA UpTo ==
    ASSUME NEW N \in Nat, NEW S, 0 \in S, \A n \in 0..N : n \in S /\ n < N => n + 1 \in S
    PROVE  0..N \subseteq S
<1> SUFFICES ASSUME ~ (0..N \subseteq S) PROVE FALSE
  OBVIOUS
<1> DEFINE T == {n \in 0..N : n \notin S}
<1>1. PICK m \in T : \A x \in T : m <= x
  <2>1. T # {} /\ T \in SUBSET Nat
    OBVIOUS
  <2> HIDE DEF T
  <2> QED  BY <2>1, LeastElement
<1>2. m \in 0..N /\ m # 0
  OBVIOUS
<1>3. m - 1 \in 0..N /\ m - 1 < N
  BY <1>2
<1>4. m - 1 \in S
  BY <1>1, <1>3
<1> QED  BY <1>3, <1>4, <1>2

Solves(f, N, base, step) == f = [n \in 0..N |-> IF n = 0 THEN base ELSE step[<<n, f[n - 1]>>]]

\* A recursion whose steps stay within a set is a function into it.
LEMMA Recursion ==
    ASSUME NEW N \in Nat, NEW X, NEW base \in X, NEW step \in [(1..N) \X X -> X]
    PROVE  \E f \in [0..N -> X] : Solves(f, N, base, step)
<1> DEFINE S == {k \in 0..N : \E f \in [0..k -> X] :
                    f[0] = base /\ \A n \in 1..k : f[n] = step[<<n, f[n - 1]>>]}
<1>1. 0 \in S
  <2> DEFINE f == [n \in 0..0 |-> base]
  <2>1. f \in [0..0 -> X] /\ f[0] = base /\ \A n \in 1..0 : f[n] = step[<<n, f[n - 1]>>]
    OBVIOUS
  <2> HIDE DEF f
  <2>2. \E h \in [0..0 -> X] : h[0] = base /\ \A n \in 1..0 : h[n] = step[<<n, h[n - 1]>>]
    BY <2>1
  <2> QED  BY <2>2
<1>2. ASSUME NEW k \in 0..N, k \in S, k < N PROVE k + 1 \in S
  <2>1. PICK f \in [0..k -> X] : f[0] = base /\ \A n \in 1..k : f[n] = step[<<n, f[n - 1]>>]
    BY <1>2
  <2> DEFINE g == [n \in 0..(k + 1) |-> IF n <= k THEN f[n] ELSE step[<<k + 1, f[k]>>]]
  <2>2. <<k + 1, f[k]>> \in (1..N) \X X
    BY <1>2, <2>1
  <2>3. g \in [0..(k + 1) -> X]
    BY <1>2, <2>1, <2>2
  <2>4. \A n \in 0..k : g[n] = f[n]
    BY <1>2
  <2>5. k + 1 \in 0..N /\ g[k + 1] = step[<<k + 1, f[k]>>]
    BY <1>2
  <2> HIDE DEF g
  <2>6. g[0] = base
    BY <1>2, <2>1, <2>4
  <2>7. ASSUME NEW n \in 1..(k + 1) PROVE g[n] = step[<<n, g[n - 1]>>]
    <3>1. CASE n = k + 1
      BY <1>2, <2>4, <2>5, <3>1
    <3>2. CASE n # k + 1
      <4>1. n \in 1..k /\ n \in 0..k /\ n - 1 \in 0..k
        BY <1>2, <3>2
      <4> QED  BY <2>1, <2>4, <4>1
    <3> QED  BY <3>1, <3>2
  <2> QED  BY <2>3, <2>5, <2>6, <2>7
<1>3. N \in S
  <2> HIDE DEF S
  <2> QED  BY <1>1, <1>2, UpTo
<1>4. PICK f \in [0..N -> X] : f[0] = base /\ \A n \in 1..N : f[n] = step[<<n, f[n - 1]>>]
  BY <1>3
<1>5. Solves(f, N, base, step)
  <2>1. ASSUME NEW n \in 0..N PROVE f[n] = IF n = 0 THEN base ELSE step[<<n, f[n - 1]>>]
    BY <1>4
  <2> QED  BY <1>4, <2>1 DEF Solves
<1> QED  BY <1>5

(***************************************************************************)
(* The framers' parts.                                                     *)
(***************************************************************************)
Texts1 == Seq(F!Units)
Payloads == Seq(Nat \cup F!Units)
FrameSet == [event : Nat, data : Payloads]

LEMMA SameTexts ==
    ASSUME NEW s \in Texts1, NEW t \in Texts1, Len(s) = Len(t), \A i \in 1..Len(t) : s[i] = t[i]
    PROVE  s = t
<1>1. s = [i \in 1..Len(s) |-> s[i]] /\ t = [i \in 1..Len(t) |-> t[i]]
  BY DEF Texts1
<1>2. [i \in 1..Len(s) |-> s[i]] = [i \in 1..Len(t) |-> t[i]]
  OBVIOUS
<1> QED  BY <1>1, <1>2, Zenon

LEMMA MadeOfTwo ==
    ASSUME NEW a \in Texts1, NEW b \in Texts1, NEW t \in Texts1, Len(t) = Len(a) + Len(b),
           \A i \in 1..Len(a) : t[i] = a[i], \A i \in 1..Len(b) : t[Len(a) + i] = b[i]
    PROVE  t = a \o b
<1>1. /\ Len(a) \in Nat /\ Len(b) \in Nat
      /\ a \o b \in Texts1 /\ Len(a \o b) = Len(a) + Len(b)
  BY DEF Texts1
<1>2. ASSUME NEW i \in 1..Len(t) PROVE t[i] = (a \o b)[i]
  <2>1. CASE i <= Len(a)
    BY <1>1, <2>1 DEF Texts1
  <2>2. CASE i > Len(a)
    <3>1. (a \o b)[i] = b[i - Len(a)]
      BY <1>1, <2>2 DEF Texts1
    <3>2. i - Len(a) \in 1..Len(b) /\ Len(a) + (i - Len(a)) = i
      BY <1>1, <2>2
    <3> QED  BY <3>1, <3>2
  <2>3. i <= Len(a) \/ i > Len(a)
    BY <1>1
  <2> QED  BY <2>1, <2>2, <2>3, Zenon
<1>3. \A i \in 1..Len(a \o b) : t[i] = (a \o b)[i]
  BY <1>1, <1>2
<1> QED  BY <1>1, <1>3, SameTexts

LEMMA Associates ==
    ASSUME NEW a \in Texts1, NEW b \in Texts1, NEW c \in Texts1
    PROVE  (a \o b) \o c = a \o (b \o c)
<1> DEFINE l == (a \o b) \o c
           r == a \o (b \o c)
<1>1. /\ Len(a) \in Nat /\ Len(b) \in Nat /\ Len(c) \in Nat
      /\ a \o b \in Texts1 /\ Len(a \o b) = Len(a) + Len(b)
      /\ b \o c \in Texts1 /\ Len(b \o c) = Len(b) + Len(c)
  BY DEF Texts1
<1>2. /\ l \in Texts1 /\ Len(l) = Len(a) + Len(b) + Len(c)
      /\ r \in Texts1 /\ Len(r) = Len(a) + Len(b) + Len(c)
  BY <1>1 DEF Texts1
<1>3. ASSUME NEW i \in 1..(Len(a) + Len(b) + Len(c)) PROVE l[i] = r[i]
  <2>1. CASE i <= Len(a)
    BY <1>1, <2>1 DEF Texts1
  <2>2. CASE i > Len(a) /\ i <= Len(a) + Len(b)
    BY <1>1, <2>2 DEF Texts1
  <2>3. CASE i > Len(a) + Len(b)
    <3>1. l[i] = c[i - (Len(a) + Len(b))]
      BY <1>1, <2>3 DEF Texts1
    <3>2. r[i] = (b \o c)[i - Len(a)]
      BY <1>1, <2>3 DEF Texts1
    <3>3. (b \o c)[i - Len(a)] = c[(i - Len(a)) - Len(b)]
      BY <1>1, <2>3 DEF Texts1
    <3>4. (i - Len(a)) - Len(b) = i - (Len(a) + Len(b))
      BY <1>1
    <3> QED  BY <3>1, <3>2, <3>3, <3>4
  <2>4. i <= Len(a) \/ (i > Len(a) /\ i <= Len(a) + Len(b)) \/ i > Len(a) + Len(b)
    BY <1>1
  <2> QED  BY <2>1, <2>2, <2>3, <2>4, Zenon
<1> HIDE DEF l, r
<1>4. l = r
  BY <1>2, <1>3, SameTexts
<1> QED  BY <1>4 DEF l, r

LEMMA Pieces ==
    ASSUME NEW t \in Texts1, NEW n \in 0..Len(t)
    PROVE  /\ SubSeq(t, 1, n) \in Texts1 /\ Len(SubSeq(t, 1, n)) = n
           /\ \A i \in 1..n : SubSeq(t, 1, n)[i] = t[i]
           /\ F!After(t, n) \in Texts1 /\ Len(F!After(t, n)) = Len(t) - n
           /\ \A i \in 1..(Len(t) - n) : F!After(t, n)[i] = t[n + i]
           /\ SubSeq(t, 1, n) \o F!After(t, n) = t
<1>1. t \in Seq(F!Units) /\ Len(t) \in Nat /\ n \in Nat /\ n <= Len(t)
  BY DEF Texts1
<1> DEFINE a == SubSeq(t, 1, n)
           b == SubSeq(t, n + 1, Len(t))
<1>2. a \in Seq(F!Units) /\ Len(a) = n /\ \A i \in 1..n : a[i] = t[i]
  BY <1>1
<1>3. b \in Seq(F!Units) /\ Len(b) = Len(t) - n /\ \A i \in 1..(Len(t) - n) : b[i] = t[n + i]
  BY <1>1
<1> HIDE DEF a, b
<1>4. a \o b = t
  <2>1. Len(a \o b) = Len(t) /\ a \o b \in Texts1
    BY <1>1, <1>2, <1>3 DEF Texts1
  <2>2. ASSUME NEW i \in 1..Len(t) PROVE (a \o b)[i] = t[i]
    <3>1. CASE i <= n
      BY <1>1, <1>2, <1>3, <3>1
    <3>2. CASE i > n
      <4>1. i - n \in 1..(Len(t) - n) /\ n + (i - n) = i
        BY <1>1, <3>2
      <4>2. (a \o b)[i] = b[i - n]
        BY <1>1, <1>2, <1>3, <3>2
      <4> QED  BY <1>3, <4>1, <4>2
    <3>3. i <= n \/ i > n
      BY <1>1
    <3> QED  BY <3>1, <3>2, <3>3, Zenon
  <2> QED  BY <2>1, <2>2, SameTexts, Zenon
<1>5. F!After(t, n) = b
  BY DEF b, F!After
<1> QED  BY <1>2, <1>3, <1>4, <1>5 DEF a, Texts1

LEMMA UnitsOf == \A t \in Texts1 : \A n \in 1..Len(t) : t[n] \in F!Units
  BY DEF Texts1

LEMMA LineParts ==
    ASSUME NEW line \in Texts1
    PROVE  /\ F!StripCr(line) \in Texts1
           /\ \A unit \in {"event", "data"} : F!FieldOf(line, unit) \in Nat
           /\ \A frame \in FrameSet : F!Noted(frame, line) \in FrameSet
           /\ F!StripCr(line) \in Payloads
<1>1. F!StripCr(line) \in Texts1
  BY DEF F!StripCr, Texts1
<1>2. \A unit \in {"event", "data"} : F!FieldOf(line, unit) \in Nat
  <2>0. \A i \in 1..Len(line) : line[i] \in F!Units
    BY DEF Texts1
  <2>1. Len(line) = 1 => line[1] \in [unit : F!Kinds, n : Nat]
    BY <2>0 DEF F!Units
  <2>2. Len(line) = 1 => line[1].n \in Nat
    BY <2>1
  <2> QED  BY <2>2 DEF F!FieldOf
<1>3. ASSUME NEW frame \in FrameSet PROVE F!Noted(frame, line) \in FrameSet
  <2> DEFINE e == F!FieldOf(line, "event")
             d == F!FieldOf(line, "data")
  <2>1. e \in Nat /\ d \in Nat
    BY <1>2
  <2> HIDE DEF e, d
  <2>2. frame.event \in Nat /\ frame.data \in Payloads /\ frame = [event |-> frame.event, data |-> frame.data]
    BY DEF FrameSet
  <2>3. Append(frame.data, d) \in Payloads
    BY <2>1, <2>2 DEF Payloads
  <2>4. F!Noted(frame, line) = CASE e # 0 -> [frame EXCEPT !.event = e]
                                 [] d # 0 -> [frame EXCEPT !.data = Append(frame.data, d)]
                                 [] OTHER -> frame
    BY DEF F!Noted, e, d
  <2> QED  BY <2>1, <2>2, <2>3, <2>4 DEF FrameSet
<1>4. F!StripCr(line) \in Payloads
  BY <1>1 DEF Texts1, Payloads
<1> QED  BY <1>1, <1>2, <1>3, <1>4

Splits == [frame : FrameSet, line : Texts1]

SplitStep(u, s) ==
    IF u = F!LF THEN [frame |-> F!Noted(s.frame, F!StripCr(s.line)), line |-> <<>>]
    ELSE [s EXCEPT !.line = Append(@, u)]

LEMMA SplitStepType ==
    ASSUME NEW u \in F!Units, NEW s \in Splits
    PROVE  SplitStep(u, s) \in Splits
<1>1. s.frame \in FrameSet /\ s.line \in Texts1 /\ s = [frame |-> s.frame, line |-> s.line]
  BY DEF Splits
<1>2. F!Noted(s.frame, F!StripCr(s.line)) \in FrameSet
  BY <1>1, LineParts
<1>3. <<>> \in Texts1 /\ Append(s.line, u) \in Texts1
  BY <1>1 DEF Texts1
<1> QED  BY <1>1, <1>2, <1>3 DEF SplitStep, Splits

LEMMA BlockLinesDef ==
    ASSUME NEW b \in Texts1
    PROVE  /\ F!BlockLines(b) \in [0..Len(b) -> Splits]
           /\ F!BlockLines(b)[0] = [frame |-> F!Blank, line |-> <<>>]
           /\ \A n \in 1..Len(b) : F!BlockLines(b)[n] = SplitStep(b[n], F!BlockLines(b)[n - 1])
<1> DEFINE step == [p \in (1..Len(b)) \X Splits |-> SplitStep(b[p[1]], p[2])]
           base == [frame |-> F!Blank, line |-> <<>>]
<1>1. Len(b) \in Nat /\ base \in Splits
  BY DEF Texts1, Splits, FrameSet, Payloads, F!Blank
<1>2. step \in [(1..Len(b)) \X Splits -> Splits]
  BY SplitStepType, UnitsOf
<1>3. PICK f \in [0..Len(b) -> Splits] : Solves(f, Len(b), base, step)
  <2> HIDE DEF step, base
  <2> QED  BY <1>1, <1>2, Recursion, Zenon
<1>4. f = [n \in 0..Len(b) |-> IF n = 0 THEN base ELSE SplitStep(b[n], f[n - 1])]
  <2>1. ASSUME NEW n \in 0..Len(b), n # 0 PROVE step[<<n, f[n - 1]>>] = SplitStep(b[n], f[n - 1])
    BY <1>1, <2>1
  <2> QED  BY <1>3, <2>1 DEF Solves
<1>5. F!BlockLines(b) = [n \in 0..Len(b) |-> IF n = 0 THEN base ELSE SplitStep(b[n], F!BlockLines(b)[n - 1])]
  <2>1. F!BlockLines(b) = CHOOSE g : g = [n \in 0..Len(b) |-> IF n = 0 THEN base ELSE SplitStep(b[n], g[n - 1])]
    BY DEF F!BlockLines, SplitStep
  <2> HIDE DEF base
  <2> QED  BY <1>4, <2>1
<1> DEFINE g == F!BlockLines(b)
           S == {n \in 0..Len(b) : g[n] \in Splits}
<1>6. g[0] = base /\ \A n \in 1..Len(b) : g[n] = SplitStep(b[n], g[n - 1])
  <2> HIDE DEF g, base
  <2> QED  BY <1>1, <1>5 DEF g
<1>7. 0..Len(b) \subseteq S
  <2> HIDE DEF g, base
  <2>1. 0 \in S
    BY <1>1, <1>6
  <2>2. ASSUME NEW n \in 0..Len(b), n \in S, n < Len(b) PROVE n + 1 \in S
    <3>1. n + 1 \in 1..Len(b) /\ n + 1 \in 0..Len(b) /\ (n + 1) - 1 = n /\ g[n] \in Splits
      BY <1>1, <2>2
    <3>2. g[n + 1] = SplitStep(b[n + 1], g[n])
      BY <1>6, <3>1
    <3> QED  BY <3>1, <3>2, SplitStepType, UnitsOf
  <2> HIDE DEF S
  <2> QED  BY <1>1, <2>1, <2>2, UpTo
<1>8. g \in [0..Len(b) -> Splits]
  <2> HIDE DEF g, base
  <2> QED  BY <1>5, <1>7 DEF g
<1> QED  BY <1>6, <1>8

(***************************************************************************)
(* The reading of a text, by its definition.                               *)
(***************************************************************************)
Reads == [line : Texts1, noted : FrameSet, done : Seq(FrameSet)]
Lined == {"Sse", "Ndjson"}

ReadStep(f, u, s) ==
    IF u = F!LF THEN Line(f, s) ELSE [s EXCEPT !.line = Append(@, u)]

LEMMA BlankTyped == F!Blank \in FrameSet /\ F!Blank.data = <<>> /\ F!Blank.event = 0
  BY DEF F!Blank, FrameSet, Payloads

\* The state of the reading, as one term.
Rd(line, noted, done) == [line |-> line, noted |-> noted, done |-> done]

LEMMA RdType ==
    ASSUME NEW line \in Texts1, NEW noted \in FrameSet, NEW done \in Seq(FrameSet)
    PROVE  Rd(line, noted, done) \in Reads
  BY DEF Rd, Reads

LEMMA RdParts ==
    ASSUME NEW s \in Reads
    PROVE  /\ s.line \in Texts1 /\ s.noted \in FrameSet /\ s.done \in Seq(FrameSet)
           /\ s = Rd(s.line, s.noted, s.done)
           /\ \A x : [s EXCEPT !.line = x] = Rd(x, s.noted, s.done)
  BY DEF Reads, Rd

LEMMA RdFields ==
    ASSUME NEW line, NEW noted, NEW done
    PROVE  /\ Rd(line, noted, done).line = line
           /\ Rd(line, noted, done).noted = noted
           /\ Rd(line, noted, done).done = done
  BY DEF Rd

LEMMA DispatchCases ==
    ASSUME NEW line \in Texts1, NEW noted \in FrameSet, NEW done \in Seq(FrameSet)
    PROVE  /\ noted = F!Blank => Dispatch(Rd(line, noted, done)) = Rd(line, F!Blank, done)
           /\ noted # F!Blank => Dispatch(Rd(line, noted, done)) = Rd(line, F!Blank, Append(done, noted))
           /\ Dispatch(Rd(line, noted, done)) \in Reads
<1>1. Append(done, noted) \in Seq(FrameSet)
  OBVIOUS
<1> QED  BY <1>1, BlankTyped DEF Dispatch, Reads, Rd

\* What the end of a line does.
Told(f, line, noted) ==
    IF f = "Sse" THEN F!Noted(noted, F!StripCr(line)) ELSE [event |-> 0, data |-> F!StripCr(line)]
Keeps(f, line) == f = "Sse" /\ F!StripCr(line) # <<>>
Done(done, told) == IF told = F!Blank THEN done ELSE Append(done, told)

LEMMA LineCases ==
    ASSUME NEW f \in Lined, NEW line \in Texts1, NEW noted \in FrameSet, NEW done \in Seq(FrameSet)
    PROVE  /\ Told(f, line, noted) \in FrameSet
           /\ Done(done, Told(f, line, noted)) \in Seq(FrameSet)
           /\ Keeps(f, line) => Line(f, Rd(line, noted, done)) = Rd(<<>>, Told(f, line, noted), done)
           /\ ~ Keeps(f, line) =>
                  Line(f, Rd(line, noted, done)) = Rd(<<>>, F!Blank, Done(done, Told(f, line, noted)))
           /\ Line(f, Rd(line, noted, done)) \in Reads
<1> DEFINE s == Rd(line, noted, done)
           bare == F!StripCr(line)
           told == Told(f, line, noted)
           u == Rd(<<>>, told, done)
<1>1. bare \in Texts1 /\ bare \in Payloads
  BY LineParts
<1>2. told \in FrameSet
  <2>1. F!Noted(noted, bare) \in FrameSet
    BY <1>1, LineParts
  <2>2. [event |-> 0, data |-> bare] \in FrameSet
    BY <1>1 DEF FrameSet
  <2> QED  BY <2>1, <2>2 DEF Told
<1>3. <<>> \in Texts1
  BY DEF Texts1
<1> HIDE DEF told, bare
<1>4. Line(f, s) = IF Keeps(f, line) THEN u ELSE Dispatch(u)
  <2>1. s.line = line /\ s.noted = noted /\ s.done = done
    BY RdFields
  <2> HIDE DEF s
  <2>2. Line(f, s) = IF Keeps(f, s.line) THEN Rd(<<>>, Told(f, s.line, s.noted), s.done)
                     ELSE Dispatch(Rd(<<>>, Told(f, s.line, s.noted), s.done))
    BY Zenon DEF Line, Keeps, Told, Rd
  <2> QED  BY <2>1, <2>2 DEF told
<1>5. /\ Dispatch(u) = Rd(<<>>, F!Blank, Done(done, told))
      /\ Dispatch(u) \in Reads
  BY <1>2, <1>3, DispatchCases DEF Done
<1>6. u \in Reads /\ Done(done, told) \in Seq(FrameSet)
  BY <1>2, <1>3, RdType DEF Done
<1> QED  BY <1>2, <1>4, <1>5, <1>6 DEF told

LEMMA ReadStepCases ==
    ASSUME NEW f \in Lined, NEW u \in F!Units,
           NEW line \in Texts1, NEW noted \in FrameSet, NEW done \in Seq(FrameSet)
    PROVE  /\ u = F!LF => ReadStep(f, u, Rd(line, noted, done)) = Line(f, Rd(line, noted, done))
           /\ u # F!LF => ReadStep(f, u, Rd(line, noted, done)) = Rd(Append(line, u), noted, done)
           /\ Append(line, u) \in Texts1
<1> DEFINE s == Rd(line, noted, done)
<1>1. s \in Reads /\ s.line = line /\ s.noted = noted /\ s.done = done
  BY RdType, RdFields
<1>2. Append(line, u) \in Texts1
  BY DEF Texts1
<1> HIDE DEF s
<1>3. ReadStep(f, u, s) = IF u = F!LF THEN Line(f, s) ELSE [s EXCEPT !.line = Append(s.line, u)]
  BY DEF ReadStep
<1> QED  BY <1>1, <1>2, <1>3, RdParts DEF s

LEMMA ReadStepType ==
    ASSUME NEW f \in Lined, NEW u \in F!Units, NEW s \in Reads
    PROVE  ReadStep(f, u, s) \in Reads
<1>1. PICK l \in Texts1, x \in FrameSet, y \in Seq(FrameSet) : s = Rd(l, x, y)
  BY RdParts
<1> QED  BY <1>1, ReadStepCases, LineCases, RdType

LEMMA ReadingDef ==
    ASSUME NEW f \in Lined, NEW t \in Texts1
    PROVE  /\ Reading(f, t) \in [0..Len(t) -> Reads]
           /\ Reading(f, t)[0] = Unread
           /\ \A n \in 1..Len(t) : Reading(f, t)[n] = ReadStep(f, t[n], Reading(f, t)[n - 1])
<1> DEFINE step == [p \in (1..Len(t)) \X Reads |-> ReadStep(f, t[p[1]], p[2])]
<1>1. Len(t) \in Nat /\ Unread \in Reads
  BY BlankTyped DEF Texts1, Reads, Unread
<1>2. step \in [(1..Len(t)) \X Reads -> Reads]
  BY ReadStepType, UnitsOf
<1>3. PICK r \in [0..Len(t) -> Reads] : Solves(r, Len(t), Unread, step)
  <2> HIDE DEF step
  <2> QED  BY <1>1, <1>2, Recursion, Zenon
<1>4. r = [n \in 0..Len(t) |-> IF n = 0 THEN Unread ELSE ReadStep(f, t[n], r[n - 1])]
  <2>1. ASSUME NEW n \in 0..Len(t), n # 0 PROVE step[<<n, r[n - 1]>>] = ReadStep(f, t[n], r[n - 1])
    BY <1>1, <2>1
  <2> QED  BY <1>3, <2>1 DEF Solves
<1>5. Reading(f, t) = [n \in 0..Len(t) |-> IF n = 0 THEN Unread ELSE ReadStep(f, t[n], Reading(f, t)[n - 1])]
  <2>1. Reading(f, t) = CHOOSE g : g = [n \in 0..Len(t) |-> IF n = 0 THEN Unread ELSE ReadStep(f, t[n], g[n - 1])]
    BY DEF Reading, ReadStep
  <2> QED  BY <1>4, <2>1
<1> DEFINE g == Reading(f, t)
           S == {n \in 0..Len(t) : g[n] \in Reads}
<1>6. g[0] = Unread /\ \A n \in 1..Len(t) : g[n] = ReadStep(f, t[n], g[n - 1])
  <2> HIDE DEF g
  <2> QED  BY <1>1, <1>5 DEF g
<1>7. 0..Len(t) \subseteq S
  <2> HIDE DEF g
  <2>1. 0 \in S
    BY <1>1, <1>6
  <2>2. ASSUME NEW n \in 0..Len(t), n \in S, n < Len(t) PROVE n + 1 \in S
    <3>1. n + 1 \in 1..Len(t) /\ n + 1 \in 0..Len(t) /\ (n + 1) - 1 = n /\ g[n] \in Reads
      BY <1>1, <2>2
    <3>2. g[n + 1] = ReadStep(f, t[n + 1], g[n])
      BY <1>6, <3>1
    <3> QED  BY <3>1, <3>2, ReadStepType, UnitsOf
  <2> HIDE DEF S
  <2> QED  BY <1>1, <2>1, <2>2, UpTo
<1>8. g \in [0..Len(t) -> Reads]
  <2> HIDE DEF g
  <2> QED  BY <1>5, <1>7 DEF g
<1> QED  BY <1>6, <1>8

\* A text is read alike whatever follows it.
LEMMA ReadingOfPrefix ==
    ASSUME NEW f \in Lined, NEW a \in Texts1, NEW b \in Texts1
    PROVE  \A n \in 0..Len(a) : Reading(f, a \o b)[n] = Reading(f, a)[n]
<1> DEFINE t == a \o b
           S == {n \in 0..Len(a) : Reading(f, t)[n] = Reading(f, a)[n]}
<1>1. t \in Texts1 /\ Len(a) \in Nat /\ Len(b) \in Nat /\ Len(t) = Len(a) + Len(b)
      /\ \A n \in 1..Len(a) : t[n] = a[n]
  BY DEF Texts1
<1> HIDE DEF t
<1>2. 0 \in S
  BY <1>1, ReadingDef
<1>3. ASSUME NEW n \in 0..Len(a), n \in S, n < Len(a) PROVE n + 1 \in S
  <2>1. n + 1 \in 1..Len(a) /\ n + 1 \in 1..Len(t) /\ n + 1 \in 0..Len(a) /\ (n + 1) - 1 = n
    BY <1>1, <1>3
  <2>2. Reading(f, t)[n + 1] = ReadStep(f, t[n + 1], Reading(f, t)[n])
    BY <1>1, <2>1, ReadingDef
  <2>3. Reading(f, a)[n + 1] = ReadStep(f, a[n + 1], Reading(f, a)[n])
    BY <2>1, ReadingDef
  <2>4. t[n + 1] = a[n + 1]
    BY <1>1, <2>1
  <2> QED  BY <1>3, <2>1, <2>2, <2>3, <2>4 DEF ReadStep
<1>4. 0..Len(a) \subseteq S
  <2> HIDE DEF S
  <2> QED  BY <1>1, <1>2, <1>3, UpTo
<1> QED  BY <1>4 DEF t

LEMMA AppendJoins ==
    ASSUME NEW a \in Seq(FrameSet), NEW b \in Seq(FrameSet), NEW e \in FrameSet
    PROVE  Append(a \o b, e) = a \o Append(b, e)
<1> DEFINE l == Append(a \o b, e)
           r == a \o Append(b, e)
<1>1. Len(a) \in Nat /\ Len(b) \in Nat /\ a \o b \in Seq(FrameSet) /\ Append(b, e) \in Seq(FrameSet)
      /\ Len(a \o b) = Len(a) + Len(b) /\ Len(Append(b, e)) = Len(b) + 1
  OBVIOUS
<1>2. l \in Seq(FrameSet) /\ r \in Seq(FrameSet) /\ Len(l) = Len(a) + Len(b) + 1 /\ Len(r) = Len(a) + Len(b) + 1
  BY <1>1
<1>3. ASSUME NEW i \in 1..(Len(a) + Len(b) + 1) PROVE l[i] = r[i]
  <2>1. CASE i <= Len(a)
    BY <1>1, <2>1
  <2>2. CASE i > Len(a) /\ i <= Len(a) + Len(b)
    BY <1>1, <2>2
  <2>3. CASE i = Len(a) + Len(b) + 1
    BY <1>1, <2>3
  <2> QED  BY <1>1, <2>1, <2>2, <2>3
<1> HIDE DEF l, r
<1>4. l = [i \in 1..(Len(a) + Len(b) + 1) |-> l[i]] /\ r = [i \in 1..(Len(a) + Len(b) + 1) |-> r[i]]
  BY <1>2
<1>5. l = r
  BY <1>3, <1>4
<1> QED  BY <1>5 DEF l, r

Settled(done) == Rd(<<>>, F!Blank, done)
Continued(d, s) == Rd(s.line, s.noted, d \o s.done)

LEMMA ReadStepContinues ==
    ASSUME NEW f \in Lined, NEW d \in Seq(FrameSet), NEW s \in Reads, NEW u \in F!Units
    PROVE  ReadStep(f, u, Continued(d, s)) = Continued(d, ReadStep(f, u, s))
<1>1. PICK l \in Texts1, x \in FrameSet, y \in Seq(FrameSet) : s = Rd(l, x, y)
  BY RdParts
<1>2. \A ll, xx, yy : Continued(d, Rd(ll, xx, yy)) = Rd(ll, xx, d \o yy)
  BY RdFields DEF Continued
<1>3. PICK z \in Seq(FrameSet) : z = d \o y
  <2>1. d \o y \in Seq(FrameSet)
    OBVIOUS
  <2> QED  BY <2>1, Zenon
<1>4. Continued(d, s) = Rd(l, x, z)
  BY <1>1, <1>2, <1>3
<1>5. PICK told \in FrameSet : told = Told(f, l, x)
  BY <1>1, LineCases
<1>6. /\ Keeps(f, l) => Line(f, Rd(l, x, y)) = Rd(<<>>, told, y)
      /\ ~ Keeps(f, l) => Line(f, Rd(l, x, y)) = Rd(<<>>, F!Blank, Done(y, told))
      /\ Keeps(f, l) => Line(f, Rd(l, x, z)) = Rd(<<>>, told, z)
      /\ ~ Keeps(f, l) => Line(f, Rd(l, x, z)) = Rd(<<>>, F!Blank, Done(z, told))
  BY <1>1, <1>3, <1>5, LineCases, Zenon
<1>7. Done(z, told) = d \o Done(y, told)
  <2>1. Append(d \o y, told) = d \o Append(y, told)
    BY <1>1, <1>5, AppendJoins, Zenon
  <2> QED  BY <1>3, <2>1 DEF Done
<1>8. CASE u = F!LF
  <2>1. ReadStep(f, u, Rd(l, x, z)) = Line(f, Rd(l, x, z))
    BY <1>8, ReadStepCases, ZenonT(60)
  <2>2. ReadStep(f, u, Rd(l, x, y)) = Line(f, Rd(l, x, y))
    BY <1>8, ReadStepCases, ZenonT(60)
  <2> QED  BY <1>1, <1>2, <1>3, <1>4, <1>6, <1>7, <2>1, <2>2
<1>9. CASE u # F!LF
  <2>1. /\ ReadStep(f, u, Rd(l, x, z)) = Rd(Append(l, u), x, z)
        /\ ReadStep(f, u, Rd(l, x, y)) = Rd(Append(l, u), x, y)
    BY <1>9, ReadStepCases, ZenonT(60)
  <2> QED  BY <1>1, <1>2, <1>3, <1>4, <2>1
<1> QED  BY <1>8, <1>9

\* After a text that ends with nothing noted a text is read as if it were alone.
LEMMA ReadingGoesOn ==
    ASSUME NEW f \in Lined, NEW a \in Texts1, NEW b \in Texts1, NEW d \in Seq(FrameSet),
           Reading(f, a)[Len(a)] = Settled(d)
    PROVE  \A n \in 0..Len(b) : Reading(f, a \o b)[Len(a) + n] = Continued(d, Reading(f, b)[n])
<1> DEFINE t == a \o b
           S == {n \in 0..Len(b) : Reading(f, t)[Len(a) + n] = Continued(d, Reading(f, b)[n])}
<1>1. t \in Texts1 /\ Len(a) \in Nat /\ Len(b) \in Nat /\ Len(t) = Len(a) + Len(b)
      /\ \A n \in 1..Len(b) : t[Len(a) + n] = b[n]
  BY DEF Texts1
<1>2. 0 \in S
  <2>1. Reading(f, t)[Len(a)] = Settled(d)
    BY <1>1, ReadingOfPrefix
  <2>2. Reading(f, b)[0] = Unread
    BY ReadingDef
  <2>3. Continued(d, Unread) = Settled(d)
    BY DEF Continued, Unread, Settled, Rd
  <2> HIDE DEF t
  <2> QED  BY <1>1, <2>1, <2>2, <2>3
<1> HIDE DEF t
<1>3. ASSUME NEW n \in 0..Len(b), n \in S, n < Len(b) PROVE n + 1 \in S
  <2> DEFINE m == Len(a) + n
  <2>1. /\ n + 1 \in 1..Len(b) /\ n + 1 \in 0..Len(b) /\ (n + 1) - 1 = n
        /\ m + 1 \in 1..Len(t) /\ (m + 1) - 1 = m /\ Len(a) + (n + 1) = m + 1
    BY <1>1, <1>3
  <2>2. Reading(f, t)[m + 1] = ReadStep(f, t[m + 1], Reading(f, t)[m])
    BY <1>1, <2>1, ReadingDef
  <2>3. Reading(f, b)[n + 1] = ReadStep(f, b[n + 1], Reading(f, b)[n])
    BY <2>1, ReadingDef
  <2>4. t[m + 1] = b[n + 1]
    BY <1>1, <2>1
  <2>5. Reading(f, b)[n] \in Reads /\ Reading(f, t)[m] = Continued(d, Reading(f, b)[n])
    BY <1>3, ReadingDef
  <2>6. Reading(f, t)[m + 1] = Continued(d, Reading(f, b)[n + 1])
    <3>1. t[m + 1] \in F!Units
      BY <1>1, <2>1, UnitsOf
    <3>2. ReadStep(f, t[m + 1], Continued(d, Reading(f, b)[n])) = Continued(d, ReadStep(f, t[m + 1], Reading(f, b)[n]))
      BY <2>5, <3>1, ReadStepContinues
    <3> HIDE DEF m
    <3> QED  BY <2>2, <2>3, <2>4, <2>5, <3>2
  <2> HIDE DEF m
  <2> QED  BY <2>1, <2>6
<1>4. 0..Len(b) \subseteq S
  <2> HIDE DEF S
  <2> QED  BY <1>1, <1>2, <1>3, UpTo
<1> QED  BY <1>4 DEF t

(***************************************************************************)
(* What a block is to its parser is what it is to the definition.          *)
(***************************************************************************)
LEMMA BareLine ==
    ASSUME NEW line \in Texts1
    PROVE  /\ Len(line) \in Nat
           /\ F!StripCr(line) = <<>> <=> Len(line) = 0 \/ (Len(line) = 1 /\ line[1] = F!CR)
           /\ F!StripCr(<<>>) = <<>>
<1>1. Len(line) \in Nat /\ (Len(line) = 0 <=> line = <<>>)
  BY DEF Texts1
<1>2. F!StripCr(<<>>) = <<>>
  BY DEF F!StripCr
<1>3. CASE Len(line) = 0
  BY <1>1, <1>2, <1>3
<1>4. CASE Len(line) # 0
  <2>1. CASE line[Len(line)] = F!CR
    <3>1. F!StripCr(line) = SubSeq(line, 1, Len(line) - 1)
      BY <1>1, <1>4, <2>1 DEF F!StripCr
    <3> DEFINE cut == SubSeq(line, 1, Len(line) - 1)
    <3>5. cut \in Seq(F!Units) /\ Len(cut) = Len(line) - 1
      <4>1. Len(line) - 1 \in 0..Len(line)
        BY <1>1, <1>4
      <4> QED  BY <4>1, Pieces DEF Texts1
    <3> HIDE DEF cut
    <3>2. PICK bare \in Seq(F!Units) : bare = F!StripCr(line) /\ Len(bare) = Len(line) - 1
      BY <3>1, <3>5 DEF cut
    <3>3. bare = <<>> <=> Len(bare) = 0
      OBVIOUS
    <3>4. Len(line) - 1 = 0 <=> Len(line) = 1
      BY <1>1
    <3> QED  BY <1>1, <1>2, <1>4, <2>1, <3>2, <3>3, <3>4
  <2>2. CASE line[Len(line)] # F!CR
    <3>1. F!StripCr(line) = line
      BY <2>2 DEF F!StripCr
    <3> QED  BY <1>1, <1>2, <1>4, <2>2, <3>1
  <2> QED  BY <2>1, <2>2
<1> QED  BY <1>3, <1>4

LEMMA NothingNoted == \A frame : F!Noted(frame, <<>>) = frame
<1>1. F!FieldOf(<<>>, "event") = 0 /\ F!FieldOf(<<>>, "data") = 0
  BY DEF F!FieldOf
<1> QED  BY <1>1 DEF F!Noted

\* The last line of the first n bytes begins after the k-th.
LineAt(b, n) == F!BlockLines(b)[n].line
NotedAt(b, n) == F!BlockLines(b)[n].frame

BeginsAfter(b, n, k) ==
    /\ k = 0 \/ b[k] = F!LF
    /\ \A i \in (k + 1)..n : b[i] # F!LF
    /\ Len(LineAt(b, n)) = n - k
    /\ \A i \in 1..(n - k) : LineAt(b, n)[i] = b[k + i]
    /\ k = 0 => NotedAt(b, n) = F!Blank

LEMMA SplitTypes ==
    ASSUME NEW b \in Texts1, NEW n \in 0..Len(b)
    PROVE  LineAt(b, n) \in Texts1 /\ NotedAt(b, n) \in FrameSet
<1>1. F!BlockLines(b)[n] \in Splits
  BY BlockLinesDef
<1> QED  BY <1>1 DEF Splits, LineAt, NotedAt

LEMMA SplitSteps ==
    ASSUME NEW b \in Texts1, NEW n \in 0..Len(b), n < Len(b)
    PROVE  /\ n + 1 \in 1..Len(b) /\ n + 1 \in 0..Len(b) /\ b[n + 1] \in F!Units
           /\ b[n + 1] = F!LF =>
                 /\ LineAt(b, n + 1) = <<>>
                 /\ NotedAt(b, n + 1) = F!Noted(NotedAt(b, n), F!StripCr(LineAt(b, n)))
           /\ b[n + 1] # F!LF =>
                 /\ LineAt(b, n + 1) = Append(LineAt(b, n), b[n + 1])
                 /\ NotedAt(b, n + 1) = NotedAt(b, n)
<1>1. Len(b) \in Nat
  BY DEF Texts1
<1>2. n + 1 \in 1..Len(b) /\ n + 1 \in 0..Len(b) /\ (n + 1) - 1 = n
  BY <1>1
<1>3. b[n + 1] \in F!Units
  BY <1>2, UnitsOf
<1>4. F!BlockLines(b)[n + 1] = SplitStep(b[n + 1], F!BlockLines(b)[n]) /\ F!BlockLines(b)[n] \in Splits
  BY <1>2, BlockLinesDef
<1> DEFINE s == F!BlockLines(b)[n]
           u == b[n + 1]
<1>5. /\ s \in [frame : FrameSet, line : Texts1]
      /\ s.frame = NotedAt(b, n) /\ s.line = LineAt(b, n)
  BY <1>4 DEF Splits, NotedAt, LineAt
<1> HIDE DEF s, u
<1>6. /\ u = F!LF => /\ SplitStep(u, s).frame = F!Noted(s.frame, F!StripCr(s.line))
                      /\ SplitStep(u, s).line = <<>>
      /\ u # F!LF => SplitStep(u, s).frame = s.frame /\ SplitStep(u, s).line = Append(s.line, u)
  BY <1>5 DEF SplitStep
<1> QED  BY <1>2, <1>3, <1>4, <1>5, <1>6 DEF s, u, LineAt, NotedAt

LEMMA LastLine ==
    ASSUME NEW b \in Texts1
    PROVE  \A n \in 0..Len(b) : \E k \in 0..n : BeginsAfter(b, n, k)
<1> DEFINE S == {n \in 0..Len(b) : \E k \in 0..n : BeginsAfter(b, n, k)}
<1>1. Len(b) \in Nat
  BY DEF Texts1
<1>2. 0 \in S
  <2>1. LineAt(b, 0) = <<>> /\ NotedAt(b, 0) = F!Blank
    BY BlockLinesDef DEF LineAt, NotedAt
  <2>2. BeginsAfter(b, 0, 0)
    BY <2>1 DEF BeginsAfter
  <2> QED  BY <1>1, <2>2
<1>3. ASSUME NEW n \in 0..Len(b), n \in S, n < Len(b) PROVE n + 1 \in S
  <2>1. PICK k \in 0..n : BeginsAfter(b, n, k)
    BY <1>3
  <2>2. n + 1 \in 0..Len(b) /\ LineAt(b, n) \in Texts1 /\ n \in Nat /\ k \in 0..(n + 1) /\ n + 1 \in 0..(n + 1)
    BY <1>1, <1>3, SplitTypes
  <2>3. CASE b[n + 1] = F!LF
    <3>1. LineAt(b, n + 1) = <<>>
      BY <1>3, <2>3, SplitSteps
    <3>2. BeginsAfter(b, n + 1, n + 1)
      BY <2>2, <2>3, <3>1 DEF BeginsAfter
    <3> QED  BY <2>2, <3>2
  <2>4. CASE b[n + 1] # F!LF
    <3>1. LineAt(b, n + 1) = Append(LineAt(b, n), b[n + 1]) /\ NotedAt(b, n + 1) = NotedAt(b, n)
      BY <1>3, <2>4, SplitSteps
    <3>2. LineAt(b, n) \in Seq(F!Units) /\ b[n + 1] \in F!Units
      BY <1>3, <2>2, SplitSteps DEF Texts1
    <3> DEFINE l == LineAt(b, n)
               l1 == LineAt(b, n + 1)
    <3>3. Len(l) = n - k /\ \A i \in 1..(n - k) : l[i] = b[k + i]
      BY <2>1 DEF BeginsAfter
    <3>4. Len(l1) = (n + 1) - k /\ \A i \in 1..((n + 1) - k) : l1[i] = b[k + i]
      <4> HIDE DEF l, l1
      <4>1. l \in Seq(F!Units) /\ l1 = Append(l, b[n + 1])
        BY <3>1, <3>2 DEF l, l1
      <4>2. Len(l1) = (n + 1) - k
        BY <2>2, <3>2, <3>3, <4>1
      <4>3. ASSUME NEW i \in 1..((n + 1) - k) PROVE l1[i] = b[k + i]
        <5>1. CASE i = (n + 1) - k
          <6>1. i = Len(l) + 1 /\ k + i = n + 1
            BY <2>2, <3>3, <5>1
          <6>2. l1[Len(l) + 1] = b[n + 1]
            BY <3>2, <4>1
          <6> QED  BY <6>1, <6>2
        <5>2. CASE i < (n + 1) - k
          <6>1. i \in 1..Len(l) /\ i \in 1..(n - k)
            BY <2>2, <3>3, <5>2
          <6>2. l1[i] = l[i]
            BY <3>2, <4>1, <6>1
          <6> QED  BY <3>3, <6>1, <6>2
        <5> QED  BY <2>2, <5>1, <5>2
      <4> QED  BY <4>2, <4>3
    <3>5. \A i \in (k + 1)..(n + 1) : b[i] # F!LF
      BY <2>1, <2>2, <2>4 DEF BeginsAfter
    <3>6. BeginsAfter(b, n + 1, k)
      BY <2>1, <3>1, <3>4, <3>5 DEF BeginsAfter
    <3> QED  BY <2>2, <3>6
  <2> QED  BY <2>3, <2>4
<1>4. 0..Len(b) \subseteq S
  <2> HIDE DEF S
  <2> QED  BY <1>1, <1>2, <1>3, UpTo
<1> QED  BY <1>4

\* How a text ends its lines.
Alike(b) ==
    \/ \A i \in 1..Len(b) : b[i] = F!LF => i = 1 \/ b[i - 1] # F!CR
    \/ \A i \in 1..Len(b) : b[i] = F!LF => i > 1 /\ b[i - 1] = F!CR

\* No block ends in the first n bytes.
Quiet(f, b, n) == \A e \in F!EndsOf(f, b, 0) : e > n

\* A line that is blank ends a block, unless the block begins with it.
LEMMA BlankLineEnds ==
    ASSUME NEW b \in Texts1, Alike(b), NEW n \in 0..Len(b), n < Len(b), b[n + 1] = F!LF,
           NEW k \in 0..n, BeginsAfter(b, n, k), k # 0,
           F!StripCr(LineAt(b, n)) = <<>>
    PROVE  n + 1 \in F!FrameEnds(b, 0)
<1>1. Len(b) \in Nat /\ n + 1 \in 1..Len(b) /\ b[k] = F!LF /\ k \in 1..Len(b) /\ n \in Nat
  BY DEF Texts1, BeginsAfter
<1>2. n - k = 0 \/ (n - k = 1 /\ b[k + 1] = F!CR)
  <2>1. LineAt(b, n) \in Texts1
    BY SplitTypes
  <2>2. Len(LineAt(b, n)) = 0 \/ (Len(LineAt(b, n)) = 1 /\ LineAt(b, n)[1] = F!CR)
    BY <2>1, BareLine
  <2>3. Len(LineAt(b, n)) = n - k /\ \A i \in 1..(n - k) : LineAt(b, n)[i] = b[k + i]
    BY DEF BeginsAfter
  <2>4. n - k = 1 => 1 \in 1..(n - k)
    OBVIOUS
  <2> QED  BY <2>2, <2>3, <2>4
<1>3. CASE n - k = 0
  <2>1. n + 1 \in 2..Len(b) /\ b[(n + 1) - 1] = F!LF
    BY <1>1, <1>3
  <2> QED  BY <2>1 DEF F!FrameEnds
<1>4. CASE n - k = 1 /\ b[k + 1] = F!CR
  <2>1. n = k + 1 /\ (n + 1) - 1 = n /\ n + 1 # 1 /\ b[n] = F!CR
    BY <1>1, <1>4
  <2>2. k > 1 /\ b[k - 1] = F!CR
    BY <1>1, <2>1 DEF Alike
  <2>3. n + 1 \in 4..Len(b) /\ (n + 1) - 3 = k - 1 /\ (n + 1) - 2 = k /\ (n + 1) - 1 = n
    BY <1>1, <2>1, <2>2
  <2> QED  BY <1>1, <2>1, <2>2, <2>3 DEF F!FrameEnds
<1> QED  BY <1>2, <1>3, <1>4

\* Until a block ends the definition has noted what the parser has.
LEMMA NotedAlike ==
    ASSUME NEW b \in Texts1, Alike(b)
    PROVE  \A n \in 0..Len(b) :
              Quiet("Sse", b, n) => Reading("Sse", b)[n] = Rd(LineAt(b, n), NotedAt(b, n), <<>>)
<1> DEFINE P(n) == Quiet("Sse", b, n) => Reading("Sse", b)[n] = Rd(LineAt(b, n), NotedAt(b, n), <<>>)
           S == {n \in 0..Len(b) : P(n)}
<1>1. Len(b) \in Nat /\ "Sse" \in Lined
  BY DEF Texts1, Lined
<1>2. 0 \in S
  <2>1. Reading("Sse", b)[0] = Unread
    BY <1>1, ReadingDef
  <2>2. LineAt(b, 0) = <<>> /\ NotedAt(b, 0) = F!Blank
    BY BlockLinesDef DEF LineAt, NotedAt
  <2>3. Unread = Rd(<<>>, F!Blank, <<>>)
    BY DEF Unread, Rd
  <2> QED  BY <1>1, <2>1, <2>2, <2>3
<1>3. ASSUME NEW n \in 0..Len(b), P(n), n < Len(b), Quiet("Sse", b, n + 1)
      PROVE  Reading("Sse", b)[n + 1] = Rd(LineAt(b, n + 1), NotedAt(b, n + 1), <<>>)
  <2> DEFINE line == LineAt(b, n)
             noted == NotedAt(b, n)
             u == b[n + 1]
  <2>1. /\ n + 1 \in 1..Len(b) /\ n + 1 \in 0..Len(b) /\ u \in F!Units /\ (n + 1) - 1 = n
        /\ line \in Texts1 /\ noted \in FrameSet /\ <<>> \in Seq(FrameSet)
    BY <1>1, <1>3, SplitSteps, SplitTypes
  <2>2. Reading("Sse", b)[n + 1] = ReadStep("Sse", u, Rd(line, noted, <<>>))
    <3>1. Quiet("Sse", b, n)
      <4>1. ASSUME NEW e \in F!EndsOf("Sse", b, 0), e > n + 1 PROVE e > n
        <5>1. e \in Int
          BY DEF F!EndsOf, F!FrameEnds
        <5> QED  BY <1>1, <4>1, <5>1
      <4> QED  BY <1>3, <4>1 DEF Quiet
    <3>2. Reading("Sse", b)[n + 1] = ReadStep("Sse", u, Reading("Sse", b)[n])
      BY <1>1, <2>1, ReadingDef
    <3> QED  BY <1>3, <3>1, <3>2
  <2>3. CASE u # F!LF
    <3>1. ReadStep("Sse", u, Rd(line, noted, <<>>)) = Rd(Append(line, u), noted, <<>>)
      BY <1>1, <2>1, <2>3, ReadStepCases, Zenon
    <3>2. LineAt(b, n + 1) = Append(line, u) /\ NotedAt(b, n + 1) = noted
      BY <1>3, <2>3, SplitSteps
    <3> QED  BY <2>2, <3>1, <3>2
  <2>4. CASE u = F!LF
    <3>1. ReadStep("Sse", u, Rd(line, noted, <<>>)) = Line("Sse", Rd(line, noted, <<>>))
      BY <1>1, <2>1, <2>4, ReadStepCases, Zenon
    <3>2. LineAt(b, n + 1) = <<>> /\ NotedAt(b, n + 1) = F!Noted(noted, F!StripCr(line))
      BY <1>3, <2>4, SplitSteps
    <3>3. Told("Sse", line, noted) = NotedAt(b, n + 1)
      BY <3>2 DEF Told
    <3>4. CASE F!StripCr(line) # <<>>
      <4>1. Keeps("Sse", line)
        BY <3>4 DEF Keeps
      <4>2. Line("Sse", Rd(line, noted, <<>>)) = Rd(<<>>, Told("Sse", line, noted), <<>>)
        BY <1>1, <2>1, <4>1, LineCases, Zenon
      <4> QED  BY <2>2, <3>1, <3>2, <3>3, <4>2
    <3>5. CASE F!StripCr(line) = <<>>
      <4>1. PICK k \in 0..n : BeginsAfter(b, n, k)
        BY LastLine
      <4>2. k = 0
        <5>1. ASSUME k # 0 PROVE FALSE
          <6>1. n + 1 \in F!FrameEnds(b, 0)
            BY <1>3, <2>4, <3>5, <4>1, <5>1, BlankLineEnds
          <6>2. n + 1 > n + 1
            BY <1>3, <6>1 DEF Quiet, F!EndsOf
          <6> QED  BY <1>1, <6>2
        <5> QED  BY <5>1
      <4>3. noted = F!Blank
        BY <4>1, <4>2 DEF BeginsAfter
      <4>4. NotedAt(b, n + 1) = F!Blank
        BY <3>2, <3>5, <4>3, NothingNoted
      <4>5. ~ Keeps("Sse", line) /\ Done(<<>>, F!Blank) = <<>>
        BY <3>5 DEF Keeps, Done
      <4>6. Line("Sse", Rd(line, noted, <<>>)) = Rd(<<>>, F!Blank, Done(<<>>, Told("Sse", line, noted)))
        BY <1>1, <2>1, <4>5, LineCases, Zenon
      <4> QED  BY <2>2, <3>1, <3>2, <3>3, <4>4, <4>5, <4>6
    <3> QED  BY <3>4, <3>5
  <2> QED  BY <2>3, <2>4
<1>4. 0..Len(b) \subseteq S
  <2>1. ASSUME NEW n \in 0..Len(b), n \in S, n < Len(b) PROVE n + 1 \in S
    <3>1. n + 1 \in 0..Len(b)
      BY <1>1, <2>1
    <3>2. P(n + 1)
      <4>1. P(n)
        BY <2>1
      <4> HIDE DEF S
      <4> QED  BY <1>3, <2>1, <4>1
    <3> QED  BY <3>1, <3>2
  <2> HIDE DEF S
  <2> QED  BY <1>1, <1>2, <2>1, UpTo
<1> QED  BY <1>4

LEMMA FramedParts ==
    ASSUME NEW told \in FrameSet
    PROVE  /\ Done(<<>>, told) \in Seq(FrameSet)
           /\ F!Framed(IF told = F!Blank THEN F!NoFrame ELSE told) = Done(<<>>, told)
<1>1. told # F!NoFrame
  <2>1. told.event \in Nat
    BY DEF FrameSet
  <2>2. F!NoFrame.event = -1
    BY DEF F!NoFrame
  <2> QED  BY <2>1, <2>2
<1>2. Append(<<>>, told) = <<told>>
  OBVIOUS
<1>3. Done(<<>>, told) = IF told = F!Blank THEN <<>> ELSE <<told>>
  BY <1>2 DEF Done
<1>4. Done(<<>>, told) \in Seq(FrameSet)
  <2>1. <<>> \in Seq(FrameSet) /\ <<told>> \in Seq(FrameSet)
    OBVIOUS
  <2> QED  BY <1>3, <2>1, Zenon
<1>5. F!Framed(F!NoFrame) = <<>> /\ F!Framed(told) = <<told>>
  BY <1>1, Zenon DEF F!Framed
<1>6. CASE told = F!Blank
  BY <1>3, <1>4, <1>5, <1>6
<1>7. CASE told # F!Blank
  BY <1>3, <1>4, <1>5, <1>7
<1> QED  BY <1>6, <1>7, Zenon

LEMMA ParsedBlock ==
    ASSUME NEW b \in Texts1
    PROVE  /\ F!Noted(NotedAt(b, Len(b)), F!StripCr(LineAt(b, Len(b)))) \in FrameSet
           /\ F!Framed(F!ParseBlock(b))
                = Done(<<>>, F!Noted(NotedAt(b, Len(b)), F!StripCr(LineAt(b, Len(b)))))
<1> DEFINE told == F!Noted(NotedAt(b, Len(b)), F!StripCr(LineAt(b, Len(b))))
<1>1. Len(b) \in 0..Len(b)
  BY DEF Texts1
<1>2. LineAt(b, Len(b)) \in Texts1 /\ NotedAt(b, Len(b)) \in FrameSet
  BY <1>1, SplitTypes
<1>3. F!StripCr(LineAt(b, Len(b))) \in Texts1
  BY <1>2, LineParts
<1>4. told \in FrameSet
  BY <1>2, <1>3, LineParts
<1>5. F!ParseBlock(b) = IF told = F!Blank THEN F!NoFrame ELSE told
  BY DEF F!ParseBlock, LineAt, NotedAt
<1> HIDE DEF told
<1>6. F!Framed(F!ParseBlock(b)) = Done(<<>>, told)
  BY <1>4, <1>5, FramedParts
<1> QED  BY <1>4, <1>6 DEF told

LEMMA ParsedLine ==
    ASSUME NEW line \in Texts1
    PROVE  /\ [event |-> 0, data |-> F!StripCr(line)] \in FrameSet
           /\ F!Framed(F!LineFrame(line)) = Done(<<>>, [event |-> 0, data |-> F!StripCr(line)])
<1> DEFINE bare == F!StripCr(line)
           told == [event |-> 0, data |-> bare]
<1>1. bare \in Payloads
  BY LineParts
<1> HIDE DEF bare
<1>2. told \in FrameSet
  BY <1>1 DEF FrameSet
<1>3. told = F!Blank <=> bare = <<>>
  BY DEF F!Blank
<1>4. F!LineFrame(line) = IF told = F!Blank THEN F!NoFrame ELSE told
  BY <1>3 DEF F!LineFrame, bare
<1> HIDE DEF told
<1>5. F!Framed(F!LineFrame(line)) = Done(<<>>, told)
  BY <1>2, <1>4, FramedParts
<1> QED  BY <1>2, <1>5 DEF told, bare

\* What is dispatched when the text is over.
LEMMA LastDispatch ==
    ASSUME NEW f \in Lined, NEW line \in Texts1, NEW noted \in FrameSet, NEW done \in Seq(FrameSet)
    PROVE  Dispatch(Line(f, Rd(line, noted, done))).done = Done(done, Told(f, line, noted))
<1> DEFINE told == Told(f, line, noted)
<1>0. <<>> \in Texts1 /\ F!Blank \in FrameSet
  BY BlankTyped DEF Texts1
<1>1. told \in FrameSet
  BY LineCases, Zenon
<1>2. Done(done, told) \in Seq(FrameSet)
  BY LineCases, Zenon
<1>3. CASE Keeps(f, line)
  <2>1. Line(f, Rd(line, noted, done)) = Rd(<<>>, told, done)
    BY <1>3, LineCases, Zenon
  <2>2. Dispatch(Rd(<<>>, told, done)) = Rd(<<>>, F!Blank, Done(done, told))
    <3> HIDE DEF told
    <3>1. told = F!Blank => Dispatch(Rd(<<>>, told, done)) = Rd(<<>>, F!Blank, done)
      BY <1>0, <1>1, DispatchCases, Zenon
    <3>2. told # F!Blank => Dispatch(Rd(<<>>, told, done)) = Rd(<<>>, F!Blank, Append(done, told))
      BY <1>0, <1>1, DispatchCases, Zenon
    <3> QED  BY <3>1, <3>2, Zenon DEF Done
  <2>3. Rd(<<>>, F!Blank, Done(done, told)).done = Done(done, told)
    BY RdFields
  <2> QED  BY <2>1, <2>2, <2>3, Zenon
<1>4. CASE ~ Keeps(f, line)
  <2>1. Line(f, Rd(line, noted, done)) = Rd(<<>>, F!Blank, Done(done, told))
    BY <1>4, LineCases, Zenon
  <2>2. Dispatch(Rd(<<>>, F!Blank, Done(done, told))) = Rd(<<>>, F!Blank, Done(done, told))
    BY <1>0, <1>2, DispatchCases, Zenon
  <2>3. Rd(<<>>, F!Blank, Done(done, told)).done = Done(done, told)
    BY RdFields
  <2> QED  BY <2>1, <2>2, <2>3, Zenon
<1> QED  BY <1>3, <1>4

\* A text whose only block ends with it.
IsBlock(f, b) == Len(b) \in F!EndsOf(f, b, 0) /\ \A e \in F!EndsOf(f, b, 0) : e >= Len(b)

LEMMA EndIsBlank ==
    ASSUME NEW b \in Texts1, IsBlock("Sse", b), NEW n \in 0..Len(b), n + 1 = Len(b)
    PROVE  b[n + 1] = F!LF /\ F!StripCr(LineAt(b, n)) = <<>>
<1>1. Len(b) \in F!FrameEnds(b, 0) /\ n \in Nat /\ F!CR # F!LF
  BY DEF IsBlock, F!EndsOf, F!CR, F!LF, F!Byte
<1>2. PICK k \in 0..n : BeginsAfter(b, n, k)
  BY LastLine
<1>3. LineAt(b, n) \in Texts1
  BY SplitTypes
<1>4. CASE n + 1 \in 2..Len(b) /\ b[(n + 1) - 1] = F!LF /\ b[n + 1] = F!LF
  <2>1. (n + 1) - 1 = n /\ (k # n => n \in (k + 1)..n)
    BY <1>1
  <2>2. k = n
    BY <1>2, <1>4, <2>1 DEF BeginsAfter
  <2>3. Len(LineAt(b, n)) = 0
    BY <1>1, <1>2, <2>2 DEF BeginsAfter
  <2> QED  BY <1>3, <1>4, <2>3, BareLine
<1>5. CASE /\ n + 1 \in 4..Len(b) /\ b[(n + 1) - 2] = F!LF
           /\ b[(n + 1) - 1] = F!CR /\ b[n + 1] = F!LF
  <2>1. /\ (n + 1) - 1 = n /\ (n + 1) - 2 = n - 1 /\ n >= 3
        /\ k < n - 1 => n - 1 \in (k + 1)..n
    BY <1>1, <1>5
  <2>2. k # n /\ ~ (k < n - 1)
    BY <1>1, <1>2, <1>5, <2>1 DEF BeginsAfter
  <2>3. k = n - 1 /\ n - k = 1 /\ k + 1 = n /\ 1 \in 1..(n - k)
    BY <1>1, <2>1, <2>2
  <2>4. Len(LineAt(b, n)) = 1 /\ LineAt(b, n)[1] = F!CR
    BY <1>2, <1>5, <2>1, <2>3 DEF BeginsAfter
  <2> QED  BY <1>3, <1>5, <2>4, BareLine
<1>6. \/ Len(b) \in 2..Len(b) /\ b[Len(b) - 1] = F!LF /\ b[Len(b)] = F!LF
      \/ /\ Len(b) \in 4..Len(b) /\ b[Len(b) - 2] = F!LF
         /\ b[Len(b) - 1] = F!CR /\ b[Len(b)] = F!LF
  BY <1>1 DEF F!FrameEnds
<1> QED  BY <1>4, <1>5, <1>6

LEMMA EventRead ==
    ASSUME NEW b \in Texts1, Alike(b), IsBlock("Sse", b)
    PROVE  Reading("Sse", b)[Len(b)] = Settled(F!Framed(F!ParseBlock(b)))
<1> DEFINE n == Len(b) - 1
           line == LineAt(b, n)
           noted == NotedAt(b, n)
           told == Told("Sse", line, noted)
<1>1. /\ Len(b) \in Nat /\ Len(b) \in 1..Len(b) /\ n \in 0..Len(b) /\ n + 1 = Len(b) /\ n < Len(b)
      /\ "Sse" \in Lined /\ <<>> \in Seq(FrameSet)
  BY DEF IsBlock, F!EndsOf, F!FrameEnds, Lined, Texts1
<1>2. Quiet("Sse", b, n)
  <2>1. ASSUME NEW e \in F!EndsOf("Sse", b, 0), e >= Len(b) PROVE e > n
    <3>1. e \in Int
      BY DEF F!EndsOf, F!FrameEnds
    <3> QED  BY <1>1, <2>1, <3>1
  <2> QED  BY <2>1 DEF IsBlock, Quiet
<1> HIDE DEF n
<1>3. line \in Texts1 /\ noted \in FrameSet
  BY <1>1, SplitTypes
<1>4. b[n + 1] = F!LF /\ F!StripCr(line) = <<>>
  BY <1>1, EndIsBlank
<1>5. b[n + 1] \in F!Units
  BY <1>1, UnitsOf
<1>6. Reading("Sse", b)[n + 1] = ReadStep("Sse", b[n + 1], Rd(line, noted, <<>>))
  <2>1. Reading("Sse", b)[n + 1] = ReadStep("Sse", b[n + 1], Reading("Sse", b)[(n + 1) - 1]) /\ (n + 1) - 1 = n
    BY <1>1, ReadingDef
  <2>2. Reading("Sse", b)[n] = Rd(line, noted, <<>>)
    BY <1>1, <1>2, NotedAlike
  <2> QED  BY <2>1, <2>2
<1>7. ReadStep("Sse", b[n + 1], Rd(line, noted, <<>>)) = Line("Sse", Rd(line, noted, <<>>))
  BY <1>1, <1>3, <1>4, <1>5, ReadStepCases, Zenon
<1>8. ~ Keeps("Sse", line) /\ told = F!Noted(noted, F!StripCr(line))
  BY <1>4 DEF Keeps, Told
<1>9. Line("Sse", Rd(line, noted, <<>>)) = Rd(<<>>, F!Blank, Done(<<>>, told))
  BY <1>1, <1>3, <1>8, LineCases, Zenon
<1>10. F!Framed(F!ParseBlock(b)) = Done(<<>>, told)
  <2>1. LineAt(b, n + 1) = <<>> /\ NotedAt(b, n + 1) = told
    BY <1>1, <1>4, <1>8, SplitSteps
  <2>2. F!StripCr(<<>>) = <<>>
    <3>1. <<>> \in Texts1
      BY DEF Texts1
    <3> QED  BY <3>1, BareLine
  <2>3. F!Noted(NotedAt(b, Len(b)), F!StripCr(LineAt(b, Len(b)))) = told
    BY <1>1, <2>1, <2>2, NothingNoted
  <2> QED  BY <2>3, ParsedBlock
<1> QED  BY <1>1, <1>6, <1>7, <1>9, <1>10 DEF Settled

\* Of lines, until one ends there is nothing but it.
LEMMA OneLine ==
    ASSUME NEW b \in Texts1
    PROVE  \A n \in 0..Len(b) :
              Quiet("Ndjson", b, n) => Reading("Ndjson", b)[n] = Rd(SubSeq(b, 1, n), F!Blank, <<>>)
<1> DEFINE P(n) == Quiet("Ndjson", b, n) => Reading("Ndjson", b)[n] = Rd(SubSeq(b, 1, n), F!Blank, <<>>)
           S == {n \in 0..Len(b) : P(n)}
<1>1. Len(b) \in Nat /\ "Ndjson" \in Lined /\ <<>> \in Seq(FrameSet) /\ F!Blank \in FrameSet
  BY BlankTyped DEF Texts1, Lined
<1>2. 0 \in S
  <2>1. Reading("Ndjson", b)[0] = Unread
    BY <1>1, ReadingDef
  <2>2. SubSeq(b, 1, 0) = <<>>
    BY DEF Texts1
  <2>3. Unread = Rd(<<>>, F!Blank, <<>>)
    BY DEF Unread, Rd
  <2>4. Reading("Ndjson", b)[0] = Rd(SubSeq(b, 1, 0), F!Blank, <<>>)
    BY <2>1, <2>2, <2>3, Zenon
  <2>5. 0 \in 0..Len(b)
    BY <1>1
  <2> QED  BY <2>4, <2>5
<1>3. ASSUME NEW n \in 0..Len(b), P(n), n < Len(b), Quiet("Ndjson", b, n + 1)
      PROVE  Reading("Ndjson", b)[n + 1] = Rd(SubSeq(b, 1, n + 1), F!Blank, <<>>)
  <2> DEFINE line == SubSeq(b, 1, n)
             u == b[n + 1]
  <2>1. /\ n + 1 \in 1..Len(b) /\ n + 1 \in 0..Len(b) /\ (n + 1) - 1 = n
        /\ line \in Texts1 /\ n \in Nat
    BY <1>1, <1>3, Pieces
  <2>2. u \in F!Units
    BY <2>1, UnitsOf
  <2>3. u # F!LF
    <3>1. ASSUME u = F!LF PROVE FALSE
      <4>1. n + 1 \in F!EndsOf("Ndjson", b, 0)
        BY <1>1, <2>1, <3>1 DEF F!EndsOf, F!LineEnds
      <4>2. n + 1 > n + 1
        BY <1>3, <4>1 DEF Quiet
      <4> QED  BY <2>1, <4>2
    <3> QED  BY <3>1
  <2>4. Quiet("Ndjson", b, n)
    <3>1. ASSUME NEW e \in F!EndsOf("Ndjson", b, 0), e > n + 1 PROVE e > n
      <4>1. e \in Int
        BY DEF F!EndsOf, F!LineEnds
      <4> QED  BY <2>1, <3>1, <4>1
    <3> QED  BY <1>3, <3>1 DEF Quiet
  <2>5. Reading("Ndjson", b)[n + 1] = ReadStep("Ndjson", u, Rd(line, F!Blank, <<>>))
    <3>1. Reading("Ndjson", b)[n + 1] = ReadStep("Ndjson", u, Reading("Ndjson", b)[n])
      BY <1>1, <2>1, ReadingDef
    <3> QED  BY <1>3, <2>4, <3>1
  <2>6. ReadStep("Ndjson", u, Rd(line, F!Blank, <<>>)) = Rd(Append(line, u), F!Blank, <<>>)
    BY <1>1, <2>1, <2>2, <2>3, ReadStepCases, Zenon
  <2>7. Append(line, u) = SubSeq(b, 1, n + 1)
    <3> DEFINE l1 == SubSeq(b, 1, n + 1)
               l2 == Append(line, u)
    <3>1. Len(line) = n /\ \A i \in 1..n : line[i] = b[i]
      BY <2>1, Pieces
    <3>2. l1 \in Texts1 /\ Len(l1) = n + 1 /\ \A i \in 1..(n + 1) : l1[i] = b[i]
      BY <2>1, Pieces
    <3> HIDE DEF line, u, l1
    <3>3. l2 \in Texts1 /\ Len(l2) = n + 1
      BY <2>1, <2>2, <3>1 DEF Texts1
    <3>4. ASSUME NEW i \in 1..(n + 1) PROVE l2[i] = b[i]
      <4>1. CASE i = n + 1
        BY <2>1, <2>2, <3>1, <4>1 DEF Texts1, u
      <4>2. CASE i # n + 1
        BY <2>1, <2>2, <3>1, <4>2 DEF Texts1
      <4> QED  BY <4>1, <4>2
    <3> HIDE DEF l2
    <3>5. l1 = l2
      BY <3>2, <3>3, <3>4, SameTexts
    <3> QED  BY <3>5 DEF l1, l2
  <2> QED  BY <2>5, <2>6, <2>7
<1>4. 0..Len(b) \subseteq S
  <2>1. ASSUME NEW n \in 0..Len(b), n \in S, n < Len(b) PROVE n + 1 \in S
    <3>1. n + 1 \in 0..Len(b)
      BY <1>1, <2>1
    <3>2. P(n + 1)
      <4>1. P(n)
        BY <2>1
      <4> HIDE DEF S
      <4> QED  BY <1>3, <2>1, <4>1
    <3> QED  BY <3>1, <3>2
  <2> HIDE DEF S
  <2> QED  BY <1>1, <1>2, <2>1, UpTo
<1> QED  BY <1>4

LEMMA LineRead ==
    ASSUME NEW b \in Texts1, IsBlock("Ndjson", b)
    PROVE  Reading("Ndjson", b)[Len(b)] = Settled(F!Framed(F!LineFrame(SubSeq(b, 1, Len(b) - 1))))
<1> DEFINE n == Len(b) - 1
           line == SubSeq(b, 1, n)
           told == Told("Ndjson", line, F!Blank)
<1>1. /\ Len(b) \in 1..Len(b) /\ n \in 0..Len(b) /\ n + 1 = Len(b) /\ n < Len(b) /\ (n + 1) - 1 = n
      /\ b[n + 1] = F!LF
      /\ "Ndjson" \in Lined /\ <<>> \in Seq(FrameSet) /\ F!Blank \in FrameSet
  BY BlankTyped DEF IsBlock, F!EndsOf, F!LineEnds, Lined, Texts1
<1>2. Quiet("Ndjson", b, n)
  <2>1. ASSUME NEW e \in F!EndsOf("Ndjson", b, 0), e >= Len(b) PROVE e > n
    <3>1. e \in Int
      BY DEF F!EndsOf, F!LineEnds
    <3> QED  BY <1>1, <2>1, <3>1
  <2> QED  BY <2>1 DEF IsBlock, Quiet
<1> HIDE DEF n
<1>3. line \in Texts1
  BY <1>1, Pieces
<1> HIDE DEF line
<1>4. b[n + 1] \in F!Units
  BY <1>1, UnitsOf
<1>5. Reading("Ndjson", b)[n] = Rd(line, F!Blank, <<>>)
  BY <1>1, <1>2, OneLine DEF line
<1>6. Reading("Ndjson", b)[n + 1] = ReadStep("Ndjson", b[n + 1], Rd(line, F!Blank, <<>>))
  <2>1. Reading("Ndjson", b)[n + 1] = ReadStep("Ndjson", b[n + 1], Reading("Ndjson", b)[(n + 1) - 1])
    BY <1>1, ReadingDef
  <2> QED  BY <1>1, <1>5, <2>1
<1>7. ReadStep("Ndjson", b[n + 1], Rd(line, F!Blank, <<>>)) = Line("Ndjson", Rd(line, F!Blank, <<>>))
  BY <1>1, <1>3, <1>4, ReadStepCases, Zenon
<1>8. ~ Keeps("Ndjson", line) /\ told = [event |-> 0, data |-> F!StripCr(line)]
  BY DEF Keeps, Told
<1>9. Line("Ndjson", Rd(line, F!Blank, <<>>)) = Rd(<<>>, F!Blank, Done(<<>>, told))
  BY <1>1, <1>3, <1>8, LineCases, Zenon
<1>10. F!Framed(F!LineFrame(line)) = Done(<<>>, told)
  BY <1>3, <1>8, ParsedLine
<1> QED  BY <1>1, <1>6, <1>7, <1>9, <1>10 DEF Settled, line, n

\* After a block all is dispatched, and the frame is the one made of it.
LEMMA BlockRead ==
    ASSUME NEW f \in Lined, NEW b \in Texts1, f = "Sse" => Alike(b), IsBlock(f, b)
    PROVE  /\ F!Framed(F!FrameOf(f, b)) \in Seq(FrameSet)
           /\ Reading(f, b)[Len(b)] = Settled(F!Framed(F!FrameOf(f, b)))
<1>1. CASE f = "Sse"
  <2>1. F!FrameOf(f, b) = F!ParseBlock(b)
    BY <1>1 DEF F!FrameOf
  <2>2. F!Framed(F!ParseBlock(b)) \in Seq(FrameSet)
    BY ParsedBlock, FramedParts
  <2> QED  BY <1>1, <2>1, <2>2, EventRead
<1>2. CASE f = "Ndjson"
  <2>1. F!FrameOf(f, b) = F!LineFrame(SubSeq(b, 1, Len(b) - 1))
    BY <1>2 DEF F!FrameOf
  <2>2. Len(b) - 1 \in 0..Len(b)
    BY <1>2 DEF IsBlock, F!EndsOf, F!LineEnds
  <2>3. SubSeq(b, 1, Len(b) - 1) \in Texts1
    BY <2>2, Pieces
  <2>4. F!Framed(F!LineFrame(SubSeq(b, 1, Len(b) - 1))) \in Seq(FrameSet)
    BY <2>3, ParsedLine, FramedParts
  <2> QED  BY <1>2, <2>1, <2>4, LineRead
<1> QED  BY <1>1, <1>2 DEF Lined

\* The frame that is made of what is left at the end.
Left(f, b) == IF f = "Sse" THEN F!Framed(F!ParseBlock(b)) ELSE F!Framed(F!LineFrame(b))

\* Where no block ends nothing is dispatched, unless it is the end.
LEMMA RestRead ==
    ASSUME NEW f \in Lined, NEW b \in Texts1, f = "Sse" => Alike(b), F!EndsOf(f, b, 0) = {}
    PROVE  \E line \in Texts1, noted \in FrameSet :
              /\ Reading(f, b)[Len(b)] = Rd(line, noted, <<>>)
              /\ Left(f, b) = Done(<<>>, Told(f, line, noted))
<1>1. Len(b) \in 0..Len(b) /\ Quiet(f, b, Len(b))
  BY DEF Quiet, Texts1
<1>2. CASE f = "Sse"
  <2>1. LineAt(b, Len(b)) \in Texts1 /\ NotedAt(b, Len(b)) \in FrameSet
    BY <1>1, SplitTypes
  <2>2. Reading(f, b)[Len(b)] = Rd(LineAt(b, Len(b)), NotedAt(b, Len(b)), <<>>)
    BY <1>1, <1>2, NotedAlike
  <2>3. Left(f, b) = Done(<<>>, Told(f, LineAt(b, Len(b)), NotedAt(b, Len(b))))
    BY <1>2, ParsedBlock DEF Left, Told
  <2> QED  BY <2>1, <2>2, <2>3
<1>3. CASE f = "Ndjson"
  <2>1. SubSeq(b, 1, Len(b)) = b
    <3>1. SubSeq(b, 1, Len(b)) \in Texts1 /\ Len(SubSeq(b, 1, Len(b))) = Len(b)
          /\ \A i \in 1..Len(b) : SubSeq(b, 1, Len(b))[i] = b[i]
      BY <1>1, Pieces
    <3> QED  BY <3>1, SameTexts
  <2>2. Reading(f, b)[Len(b)] = Rd(b, F!Blank, <<>>)
    BY <1>1, <1>3, <2>1, OneLine
  <2>3. Left(f, b) = Done(<<>>, Told(f, b, F!Blank))
    BY <1>3, ParsedLine DEF Left, Told
  <2> QED  BY <2>2, <2>3, BlankTyped
<1> QED  BY <1>2, <1>3 DEF Lined

LEMMA ContinuedRd ==
    \A d, line, noted, done : Continued(d, Rd(line, noted, done)) = Rd(line, noted, d \o done)
  BY RdFields DEF Continued

LEMMA DoneJoins ==
    ASSUME NEW d \in Seq(FrameSet), NEW told \in FrameSet
    PROVE  d \o <<>> = d /\ Done(d, told) = d \o Done(<<>>, told)
<1>1. d \o <<>> = d /\ <<>> \in Seq(FrameSet)
  OBVIOUS
<1>2. Append(d \o <<>>, told) = d \o Append(<<>>, told)
  BY <1>1, AppendJoins, Zenon
<1>3. Append(d, told) = d \o Append(<<>>, told)
  BY <1>1, <1>2, Zenon
<1> QED  BY <1>1, <1>3, Zenon DEF Done

\* After blocks d was made of, and a rest without one.
LEMMA FramesSoFar ==
    ASSUME NEW f \in Lined, NEW a \in Texts1, NEW b \in Texts1, NEW d \in Seq(FrameSet),
           Reading(f, a)[Len(a)] = Settled(d),
           f = "Sse" => Alike(b), F!EndsOf(f, b, 0) = {}
    PROVE  FramesOf(f, a \o b, FALSE) = d /\ FramesOf(f, a \o b, TRUE) = d \o Left(f, b)
<1>1. PICK line \in Texts1, noted \in FrameSet :
         /\ Reading(f, b)[Len(b)] = Rd(line, noted, <<>>)
         /\ Left(f, b) = Done(<<>>, Told(f, line, noted))
  BY RestRead
<1>2. Len(b) \in 0..Len(b) /\ Len(a \o b) = Len(a) + Len(b)
  BY DEF Texts1
<1>3. Reading(f, a \o b)[Len(a \o b)] = Rd(line, noted, d)
  <2>1. Reading(f, a \o b)[Len(a) + Len(b)] = Continued(d, Reading(f, b)[Len(b)])
    BY <1>2, ReadingGoesOn
  <2>2. Continued(d, Rd(line, noted, <<>>)) = Rd(line, noted, d \o <<>>)
    BY ContinuedRd
  <2>3. d \o <<>> = d
    OBVIOUS
  <2> QED  BY <1>1, <1>2, <2>1, <2>2, <2>3
<1>4. Rd(line, noted, d).done = d
  BY RdFields
<1>5. Dispatch(Line(f, Rd(line, noted, d))).done = Done(d, Told(f, line, noted))
  BY <1>1, LastDispatch, Zenon
<1>6. Told(f, line, noted) \in FrameSet
  <2>1. <<>> \in Seq(FrameSet)
    OBVIOUS
  <2> QED  BY <1>1, <2>1, LineCases, Zenon
<1>7. Done(d, Told(f, line, noted)) = d \o Done(<<>>, Told(f, line, noted))
  BY <1>6, DoneJoins
<1> QED  BY <1>1, <1>3, <1>4, <1>5, <1>7 DEF FramesOf

LEMMA OneBlockMore ==
    ASSUME NEW f \in Lined, NEW a \in Texts1, NEW b \in Texts1, NEW d \in Seq(FrameSet),
           Reading(f, a)[Len(a)] = Settled(d),
           f = "Sse" => Alike(b), IsBlock(f, b)
    PROVE  /\ d \o F!Framed(F!FrameOf(f, b)) \in Seq(FrameSet)
           /\ Reading(f, a \o b)[Len(a \o b)] = Settled(d \o F!Framed(F!FrameOf(f, b)))
<1> DEFINE new == F!Framed(F!FrameOf(f, b))
<1>1. new \in Seq(FrameSet) /\ Reading(f, b)[Len(b)] = Settled(new)
  BY BlockRead
<1> HIDE DEF new
<1>2. Len(b) \in 0..Len(b) /\ Len(a \o b) = Len(a) + Len(b)
  BY DEF Texts1
<1>3. Reading(f, a \o b)[Len(a) + Len(b)] = Continued(d, Settled(new))
  BY <1>1, <1>2, ReadingGoesOn
<1>4. Continued(d, Settled(new)) = Settled(d \o new)
  BY ContinuedRd DEF Settled
<1>5. d \o new \in Seq(FrameSet)
  BY <1>1
<1> QED  BY <1>2, <1>3, <1>4, <1>5 DEF new

(***************************************************************************)
(* The loop that takes the blocks off the buffer.                          *)
(***************************************************************************)
LEMMA FirstIsLeast ==
    ASSUME NEW E \in SUBSET Nat, E # {}
    PROVE  F!First(E) \in E /\ \A e \in E : F!First(E) <= e
<1>1. \E m \in E : \A x \in E : m <= x
  BY LeastElement
<1> QED  BY <1>1 DEF F!First

LEMMA EndsWithin ==
    ASSUME NEW f \in Lined, NEW b \in Texts1
    PROVE  \A e \in F!EndsOf(f, b, 0) : e \in 1..Len(b) /\ e \in Nat /\ b[e] = F!LF
<1>1. Len(b) \in Nat
  BY DEF Texts1
<1> QED  BY <1>1 DEF F!EndsOf, F!FrameEnds, F!LineEnds, Lined

\* The part of a text up to a position has the ends that are not beyond it.
LEMMA EndsOfPart ==
    ASSUME NEW f \in Lined, NEW b \in Texts1, NEW n \in 0..Len(b)
    PROVE  \A e : e \in F!EndsOf(f, SubSeq(b, 1, n), 0) <=> e \in F!EndsOf(f, b, 0) /\ e <= n
<1> DEFINE a == SubSeq(b, 1, n)
<1>1. Len(b) \in Nat /\ n \in Nat /\ n <= Len(b)
  BY DEF Texts1
<1>2. Len(a) = n /\ \A i \in 1..n : a[i] = b[i]
  BY Pieces
<1> HIDE DEF a
<1>3. CASE f = "Ndjson"
  <2> SUFFICES ASSUME NEW e PROVE e \in F!LineEnds(a, 0) <=> e \in F!LineEnds(b, 0) /\ e <= n
    BY <1>3 DEF F!EndsOf, a
  <2> QED  BY <1>1, <1>2 DEF F!LineEnds
<1>4. CASE f = "Sse"
  <2> SUFFICES ASSUME NEW e PROVE e \in F!FrameEnds(a, 0) <=> e \in F!FrameEnds(b, 0) /\ e <= n
    BY <1>4 DEF F!EndsOf, a
  <2>1. CASE e \in Int /\ e <= n
    <3>1. e >= 2 => a[e] = b[e] /\ a[e - 1] = b[e - 1]
      BY <1>1, <1>2, <2>1
    <3>2. e >= 4 => a[e - 2] = b[e - 2] /\ a[e - 3] = b[e - 3]
      BY <1>1, <1>2, <2>1
    <3> QED  BY <1>1, <1>2, <2>1, <3>1, <3>2 DEF F!FrameEnds
  <2>2. CASE ~ (e \in Int /\ e <= n)
    BY <1>1, <1>2, <2>2 DEF F!FrameEnds
  <2> QED  BY <2>1, <2>2
<1> QED  BY <1>3, <1>4 DEF Lined

LEMMA PartsAlike ==
    ASSUME NEW b \in Texts1, Alike(b), NEW n \in 0..Len(b)
    PROVE  /\ Alike(SubSeq(b, 1, n))
           /\ n = 0 \/ b[n] # F!CR => Alike(F!After(b, n))
<1> DEFINE a == SubSeq(b, 1, n)
           c == F!After(b, n)
<1>1. Len(b) \in Nat /\ n \in Nat /\ n <= Len(b)
  BY DEF Texts1
<1>2. Len(a) = n /\ (\A i \in 1..n : a[i] = b[i])
      /\ Len(c) = Len(b) - n /\ \A i \in 1..(Len(b) - n) : c[i] = b[n + i]
  BY Pieces
<1> HIDE DEF a, c
<1>3. Alike(a)
  <2>1. \A i \in 1..n : i > 1 => i - 1 \in 1..n
    BY <1>1
  <2>2. \A i \in 1..n : i \in 1..Len(b)
    BY <1>1
  <2>3. \A i \in 1..n : i = 1 \/ i > 1
    BY <1>1
  <2> QED  BY <1>2, <2>1, <2>2, <2>3 DEF Alike
<1>4. ASSUME n = 0 \/ b[n] # F!CR PROVE Alike(c)
  <2>1. \A i \in 1..(Len(b) - n) : /\ n + i \in 1..Len(b) /\ (n + i) - 1 = n + (i - 1)
                                   /\ n + i = 1 => i = 1
                                   /\ i > 1 => i - 1 \in 1..(Len(b) - n)
                                   /\ i = 1 \/ i > 1
    BY <1>1
  <2>2. CASE \A i \in 1..Len(b) : b[i] = F!LF => i = 1 \/ b[i - 1] # F!CR
    <3>1. ASSUME NEW i \in 1..(Len(b) - n), c[i] = F!LF PROVE i = 1 \/ c[i - 1] # F!CR
      <4>1. CASE i > 1
        <5>1. c[i - 1] = b[n + (i - 1)] /\ c[i] = b[n + i]
          BY <1>2, <2>1, <4>1
        <5>2. n + i # 1
          BY <1>1, <4>1
        <5> QED  BY <2>1, <2>2, <3>1, <5>1, <5>2
      <4> QED  BY <2>1, <4>1
    <3> QED  BY <1>2, <3>1 DEF Alike
  <2>3. CASE \A i \in 1..Len(b) : b[i] = F!LF => i > 1 /\ b[i - 1] = F!CR
    <3>1. ASSUME NEW i \in 1..(Len(b) - n), c[i] = F!LF PROVE i > 1 /\ c[i - 1] = F!CR
      <4>1. b[n + i] = F!LF /\ n + i > 1 /\ b[n + (i - 1)] = F!CR
        BY <1>2, <2>1, <2>3, <3>1
      <4>2. i # 1
        <5>1. ASSUME i = 1 PROVE FALSE
          <6>1. n + (i - 1) = n /\ n # 0
            BY <1>1, <4>1, <5>1
          <6> QED  BY <1>4, <4>1, <6>1
        <5> QED  BY <5>1
      <4> QED  BY <1>2, <2>1, <4>1, <4>2
    <3> QED  BY <1>2, <3>1 DEF Alike
  <2> QED  BY <2>2, <2>3 DEF Alike
<1> QED  BY <1>3, <1>4 DEF a, c

LEMMA EndsFrom ==
    ASSUME NEW f \in Lined, NEW b \in Texts1, NEW from \in Nat
    PROVE  F!EndsOf(f, b, from) \subseteq F!EndsOf(f, b, 0)
<1>1. Len(b) \in Nat
  BY DEF Texts1
<1> QED  BY <1>1 DEF F!EndsOf, F!FrameEnds, F!LineEnds, Lined

Rounds == [frames : Seq(FrameSet), rest : Texts1, scan : Nat]

LEMMA CutCases ==
    ASSUME NEW f \in Lined, NEW s \in Rounds
    PROVE  /\ F!Cut(f, s) \in Rounds
           /\ F!EndsOf(f, s.rest, s.scan) = {} => F!Cut(f, s) = s
           /\ F!EndsOf(f, s.rest, s.scan) # {} =>
                 \E end \in F!EndsOf(f, s.rest, s.scan) :
                    /\ \A e \in F!EndsOf(f, s.rest, s.scan) : end <= e
                    /\ F!Cut(f, s).frames = s.frames \o F!Framed(F!FrameOf(f, SubSeq(s.rest, 1, end)))
                    /\ F!Cut(f, s).rest = F!After(s.rest, end)
                    /\ F!Cut(f, s).scan = 0
<1> DEFINE E == F!EndsOf(f, s.rest, s.scan)
           end == F!First(E)
           block == SubSeq(s.rest, 1, end)
           new == F!Framed(F!FrameOf(f, block))
           rest == F!After(s.rest, end)
<1>1. s.frames \in Seq(FrameSet) /\ s.rest \in Texts1 /\ s.scan \in Nat
  BY DEF Rounds
<1>2. CASE E = {}
  <2>1. F!Cut(f, s) = s
    BY <1>2 DEF F!Cut
  <2> QED  BY <1>2, <2>1
<1>3. CASE E # {}
  <2>1. \A e \in E : e \in 1..Len(s.rest) /\ e \in Nat
    BY <1>1, EndsFrom, EndsWithin
  <2>2. end \in E /\ \A e \in E : end <= e
    <3>1. E \in SUBSET Nat
      BY <2>1
    <3> HIDE DEF E
    <3> QED  BY <1>3, <3>1, FirstIsLeast
  <2>3. F!Cut(f, s) = [frames |-> s.frames \o new, rest |-> rest, scan |-> 0]
    BY <1>3 DEF F!Cut
  <2>4. end \in 1..Len(s.rest) /\ end \in 0..Len(s.rest)
    BY <2>1, <2>2
  <2> HIDE DEF E, end
  <2>5. block \in Texts1 /\ Len(block) = end /\ rest \in Texts1
    BY <1>1, <2>4, Pieces
  <2>6. new \in Seq(FrameSet)
    <3> HIDE DEF block
    <3>1. CASE f = "Sse"
      <4>1. F!FrameOf(f, block) = F!ParseBlock(block)
        BY <3>1 DEF F!FrameOf
      <4>2. F!Framed(F!ParseBlock(block)) \in Seq(FrameSet)
        BY <2>5, ParsedBlock, FramedParts
      <4> QED  BY <4>1, <4>2
    <3>2. CASE f = "Ndjson"
      <4>1. F!FrameOf(f, block) = F!LineFrame(SubSeq(block, 1, Len(block) - 1))
        BY <3>2 DEF F!FrameOf
      <4>2. Len(block) - 1 \in 0..Len(block)
        BY <2>4, <2>5
      <4>3. SubSeq(block, 1, Len(block) - 1) \in Texts1
        BY <2>5, <4>2, Pieces
      <4>4. F!Framed(F!LineFrame(SubSeq(block, 1, Len(block) - 1))) \in Seq(FrameSet)
        BY <4>3, ParsedLine, FramedParts
      <4> QED  BY <4>1, <4>4
    <3> QED  BY <3>1, <3>2 DEF Lined
  <2> HIDE DEF new, rest, block
  <2>7. s.frames \o new \in Seq(FrameSet)
    BY <1>1, <2>6
  <2>8. F!Cut(f, s) \in Rounds
    BY <2>3, <2>5, <2>7 DEF Rounds
  <2>9. F!Cut(f, s).frames = s.frames \o new /\ F!Cut(f, s).rest = rest /\ F!Cut(f, s).scan = 0
    BY <2>3
  <2> QED  BY <1>3, <2>2, <2>8, <2>9 DEF E, new, rest, block
<1> QED  BY <1>2, <1>3

\* What the rounds keep true of the buffer they began with.
Taken(f, buf, k, s) ==
    /\ f = "Sse" => Alike(s.rest)
    /\ F!EndsOf(f, s.rest, s.scan) = F!EndsOf(f, s.rest, 0)
    /\ F!EndsOf(f, s.rest, 0) # {} => Len(s.rest) <= Len(buf) - k
    /\ \E a \in Texts1 : buf = a \o s.rest /\ Reading(f, a)[Len(a)] = Settled(s.frames)

LEMMA CutTakes ==
    ASSUME NEW f \in Lined, NEW buf \in Texts1, NEW k \in Nat, NEW s \in Rounds, Taken(f, buf, k, s)
    PROVE  Taken(f, buf, k + 1, F!Cut(f, s))
<1> DEFINE E == F!EndsOf(f, s.rest, s.scan)
<1>0. s.frames \in Seq(FrameSet) /\ s.rest \in Texts1 /\ s.scan \in Nat /\ Len(s.rest) \in Nat /\ Len(buf) \in Nat
  BY DEF Rounds, Texts1
<1>1. CASE E = {}
  <2>1. F!Cut(f, s) = s
    BY <1>1, CutCases
  <2> QED  BY <1>1, <2>1 DEF Taken
<1>2. CASE E # {}
  <2>1. PICK end \in E :
           /\ \A e \in E : end <= e
           /\ F!Cut(f, s).frames = s.frames \o F!Framed(F!FrameOf(f, SubSeq(s.rest, 1, end)))
           /\ F!Cut(f, s).rest = F!After(s.rest, end)
           /\ F!Cut(f, s).scan = 0
    BY <1>2, CutCases
  <2> DEFINE block == SubSeq(s.rest, 1, end)
             rest == F!After(s.rest, end)
  <2>2. E = F!EndsOf(f, s.rest, 0)
    BY DEF Taken
  <2>3. end \in 1..Len(s.rest) /\ end \in 0..Len(s.rest) /\ end \in Nat /\ s.rest[end] = F!LF
    BY <1>0, <2>1, <2>2, EndsWithin
  <2> HIDE DEF E
  <2>4. /\ block \in Texts1 /\ Len(block) = end
        /\ rest \in Texts1 /\ Len(rest) = Len(s.rest) - end /\ block \o rest = s.rest
    BY <1>0, <2>3, Pieces
  <2>5. IsBlock(f, block)
    <3>1. \A e : e \in F!EndsOf(f, block, 0) <=> e \in E /\ e <= end
      BY <1>0, <2>2, <2>3, EndsOfPart
    <3>2. end \in F!EndsOf(f, block, 0)
      BY <2>1, <2>3, <3>1
    <3>3. ASSUME NEW e \in F!EndsOf(f, block, 0) PROVE e >= end
      <4>1. e \in E /\ end <= e
        BY <2>1, <3>1
      <4>2. e \in Nat
        BY <1>0, <2>2, <4>1, EndsWithin
      <4> QED  BY <2>3, <4>1, <4>2
    <3> HIDE DEF block
    <3> QED  BY <2>4, <3>2, <3>3 DEF IsBlock
  <2>6. f = "Sse" => Alike(block) /\ Alike(rest)
    <3>1. ASSUME f = "Sse" PROVE Alike(block) /\ Alike(rest)
      <4>1. Alike(s.rest) /\ F!LF # F!CR
        BY <3>1 DEF Taken, F!LF, F!CR, F!Byte
      <4> QED  BY <1>0, <2>3, <4>1, PartsAlike
    <3> QED  BY <3>1
  <2> HIDE DEF block, rest
  <2>7. PICK a \in Texts1 : buf = a \o s.rest /\ Reading(f, a)[Len(a)] = Settled(s.frames)
    BY DEF Taken
  <2> DEFINE b == a \o block
  <2>8. b \in Texts1 /\ buf = b \o rest
    <3>1. b \in Texts1 /\ buf = a \o (block \o rest)
      BY <2>4, <2>7 DEF Texts1
    <3>2. (a \o block) \o rest = a \o (block \o rest)
      BY <2>4, <2>7, Associates
    <3> QED  BY <3>1, <3>2
  <2>9. Reading(f, b)[Len(b)] = Settled(F!Cut(f, s).frames)
    <3>1. Reading(f, b)[Len(b)] = Settled(s.frames \o F!Framed(F!FrameOf(f, block)))
      BY <1>0, <2>4, <2>5, <2>6, <2>7, OneBlockMore
    <3> QED  BY <2>1, <3>1 DEF block
  <2>10. Len(rest) <= Len(buf) - (k + 1)
    <3>1. Len(s.rest) <= Len(buf) - k
      BY <1>2, <2>2 DEF Taken
    <3> QED  BY <1>0, <2>3, <2>4, <3>1
  <2>11. F!Cut(f, s).rest = rest /\ F!Cut(f, s).scan = 0
    BY <2>1 DEF rest
  <2> HIDE DEF b
  <2> QED  BY <2>6, <2>8, <2>9, <2>10, <2>11 DEF Taken
<1> QED  BY <1>1, <1>2

LEMMA PeelDef ==
    ASSUME NEW f \in Lined, NEW buf \in Texts1, NEW from \in Nat
    PROVE  \E round \in [0..Len(buf) -> Rounds] :
              /\ round[0] = [frames |-> <<>>, rest |-> buf, scan |-> from]
              /\ \A k \in 1..Len(buf) : round[k] = F!Cut(f, round[k - 1])
              /\ F!Peel(f, buf, from) = round[Len(buf)]
<1> DEFINE base == [frames |-> <<>>, rest |-> buf, scan |-> from]
           step == [p \in (1..Len(buf)) \X Rounds |-> F!Cut(f, p[2])]
<1>1. Len(buf) \in Nat /\ base \in Rounds
  BY DEF Texts1, Rounds
<1>2. step \in [(1..Len(buf)) \X Rounds -> Rounds]
  BY CutCases
<1>3. PICK g \in [0..Len(buf) -> Rounds] : Solves(g, Len(buf), base, step)
  <2> HIDE DEF step, base
  <2> QED  BY <1>1, <1>2, Recursion, Zenon
<1>4. g = [k \in 0..Len(buf) |-> IF k = 0 THEN base ELSE F!Cut(f, g[k - 1])]
  <2>1. ASSUME NEW k \in 0..Len(buf), k # 0 PROVE step[<<k, g[k - 1]>>] = F!Cut(f, g[k - 1])
    <3>1. k \in 1..Len(buf) /\ k - 1 \in 0..Len(buf)
      BY <1>1, <2>1
    <3>2. g[k - 1] \in Rounds
      BY <3>1
    <3>3. \A j \in 1..Len(buf), x \in Rounds : step[<<j, x>>] = F!Cut(f, x)
      OBVIOUS
    <3> HIDE DEF step
    <3> QED  BY <3>1, <3>2, <3>3
  <2> QED  BY <1>3, <2>1 DEF Solves
<1> DEFINE h == CHOOSE r : r = [k \in 0..Len(buf) |-> IF k = 0 THEN base ELSE F!Cut(f, r[k - 1])]
<1>5. h = [k \in 0..Len(buf) |-> IF k = 0 THEN base ELSE F!Cut(f, h[k - 1])]
  <2> HIDE DEF base
  <2> QED  BY <1>4
<1>6. F!Peel(f, buf, from) = h[Len(buf)]
  BY DEF F!Peel
<1> HIDE DEF h, base
<1>7. h[0] = base /\ \A k \in 1..Len(buf) : h[k] = F!Cut(f, h[k - 1])
  BY <1>1, <1>5
<1> DEFINE S == {k \in 0..Len(buf) : h[k] \in Rounds}
<1>8. 0..Len(buf) \subseteq S
  <2>1. 0 \in S
    BY <1>1, <1>7
  <2>2. ASSUME NEW k \in 0..Len(buf), k \in S, k < Len(buf) PROVE k + 1 \in S
    <3>1. k + 1 \in 1..Len(buf) /\ k + 1 \in 0..Len(buf) /\ (k + 1) - 1 = k /\ h[k] \in Rounds
      BY <1>1, <2>2
    <3>2. h[k + 1] = F!Cut(f, h[k])
      BY <1>7, <3>1
    <3> QED  BY <3>1, <3>2, CutCases
  <2> HIDE DEF S
  <2> QED  BY <1>1, <2>1, <2>2, UpTo
<1>9. h \in [0..Len(buf) -> Rounds]
  BY <1>5, <1>8
<1> QED  BY <1>6, <1>7, <1>9 DEF base

\* The loop leaves no block in the buffer, and has made of the blocks what they say.
LEMMA PeelTakes ==
    ASSUME NEW f \in Lined, NEW buf \in Texts1, NEW from \in Nat,
           f = "Sse" => Alike(buf), F!EndsOf(f, buf, from) = F!EndsOf(f, buf, 0)
    PROVE  LET p == F!Peel(f, buf, from)
           IN  /\ p \in Rounds
               /\ f = "Sse" => Alike(p.rest)
               /\ F!EndsOf(f, p.rest, 0) = {}
               /\ \E a \in Texts1 : buf = a \o p.rest /\ Reading(f, a)[Len(a)] = Settled(p.frames)
<1>1. PICK round \in [0..Len(buf) -> Rounds] :
              /\ round[0] = [frames |-> <<>>, rest |-> buf, scan |-> from]
              /\ \A k \in 1..Len(buf) : round[k] = F!Cut(f, round[k - 1])
              /\ F!Peel(f, buf, from) = round[Len(buf)]
  BY PeelDef
<1>2. Len(buf) \in Nat /\ Len(buf) \in 0..Len(buf) /\ 0 \in 0..Len(buf)
  BY DEF Texts1
<1>3. Taken(f, buf, 0, round[0])
  <2>1. <<>> \in Texts1 /\ buf = <<>> \o buf /\ Len(<<>>) = 0
    BY DEF Texts1
  <2>2. Reading(f, <<>>)[0] = Settled(<<>>)
    BY <2>1, ReadingDef DEF Unread, Settled, Rd
  <2>3. round[0].rest = buf /\ round[0].frames = <<>> /\ round[0].scan = from
    BY <1>1
  <2>4. Len(buf) <= Len(buf) - 0
    BY <1>2
  <2> QED  BY <2>1, <2>2, <2>3, <2>4 DEF Taken
<1> DEFINE S == {k \in 0..Len(buf) : Taken(f, buf, k, round[k])}
<1>4. 0..Len(buf) \subseteq S
  <2>1. 0 \in S
    BY <1>2, <1>3
  <2>2. ASSUME NEW k \in 0..Len(buf), k \in S, k < Len(buf) PROVE k + 1 \in S
    <3>1. k + 1 \in 1..Len(buf) /\ k + 1 \in 0..Len(buf) /\ (k + 1) - 1 = k /\ k \in Nat
      BY <1>2, <2>2
    <3>2. round[k] \in Rounds /\ round[k + 1] = F!Cut(f, round[k]) /\ Taken(f, buf, k, round[k])
      BY <1>1, <2>2, <3>1
    <3>3. Taken(f, buf, k + 1, round[k + 1])
      BY <3>1, <3>2, CutTakes
    <3> QED  BY <3>1, <3>3
  <2> HIDE DEF S
  <2> QED  BY <1>2, <2>1, <2>2, UpTo
<1> DEFINE p == F!Peel(f, buf, from)
<1>5. p \in Rounds /\ Taken(f, buf, Len(buf), p)
  BY <1>1, <1>2, <1>4
<1> HIDE DEF p
<1>6. F!EndsOf(f, p.rest, 0) = {}
  <2>1. ASSUME NEW e \in F!EndsOf(f, p.rest, 0) PROVE FALSE
    <3>1. p.rest \in Texts1 /\ Len(p.rest) \in Nat
      BY <1>5 DEF Rounds, Texts1
    <3>2. e \in 1..Len(p.rest)
      BY <3>1, EndsWithin
    <3>3. Len(p.rest) <= Len(buf) - Len(buf)
      BY <1>5, <2>1 DEF Taken
    <3> QED  BY <1>2, <3>1, <3>2, <3>3
  <2> QED  BY <2>1
<1> QED  BY <1>5, <1>6 DEF Taken, p

(***************************************************************************)
(* A push.                                                                 *)
(***************************************************************************)
\* The frames are those of u, of which buf is not yet a block.
IsRead(f, u, buf, made) ==
    /\ buf \in Texts1 /\ made \in Seq(FrameSet)
    /\ f = "Sse" => Alike(buf)
    /\ F!EndsOf(f, buf, 0) = {}
    /\ \E a \in Texts1 : u = a \o buf /\ Reading(f, a)[Len(a)] = Settled(made)

LEMMA NothingRead == \A f \in Lined : IsRead(f, <<>>, <<>>, <<>>)
<1> SUFFICES ASSUME NEW f \in Lined PROVE IsRead(f, <<>>, <<>>, <<>>)
  OBVIOUS
<1>1. <<>> \in Texts1 /\ <<>> = <<>> \o <<>> /\ Len(<<>>) = 0 /\ <<>> \in Seq(FrameSet)
  BY DEF Texts1
<1>2. Reading(f, <<>>)[0] = Settled(<<>>)
  BY <1>1, ReadingDef DEF Unread, Settled, Rd
<1>3. Alike(<<>>) /\ F!EndsOf(f, <<>>, 0) = {}
  BY <1>1 DEF Alike, F!EndsOf, F!FrameEnds, F!LineEnds
<1> QED  BY <1>1, <1>2, <1>3 DEF IsRead

LEMMA FramesOfRead ==
    ASSUME NEW f \in Lined, NEW u, NEW buf, NEW made, IsRead(f, u, buf, made)
    PROVE  FramesOf(f, u, FALSE) = made /\ FramesOf(f, u, TRUE) = made \o Left(f, buf)
<1>1. PICK a \in Texts1 : u = a \o buf /\ Reading(f, a)[Len(a)] = Settled(made)
  BY DEF IsRead
<1>2. /\ buf \in Texts1 /\ made \in Seq(FrameSet)
      /\ f = "Sse" => Alike(buf)
      /\ F!EndsOf(f, buf, 0) = {}
  BY DEF IsRead
<1>3. FramesOf(f, a \o buf, FALSE) = made /\ FramesOf(f, a \o buf, TRUE) = made \o Left(f, buf)
  BY <1>1, <1>2, FramesSoFar
<1> QED  BY <1>1, <1>3

LEMMA SettledAtLf ==
    ASSUME NEW f \in Lined, NEW a \in Texts1, NEW d, Reading(f, a)[Len(a)] = Settled(d)
    PROVE  Len(a) = 0 \/ a[Len(a)] = F!LF
<1> SUFFICES ASSUME Len(a) # 0, a[Len(a)] # F!LF PROVE FALSE
  OBVIOUS
<1>1. Len(a) \in 1..Len(a) /\ Len(a) - 1 \in 0..Len(a)
  BY DEF Texts1
<1> DEFINE u == a[Len(a)]
           s == Reading(f, a)[Len(a) - 1]
<1>2. u \in F!Units /\ s \in Reads
  BY <1>1, UnitsOf, ReadingDef
<1>3. Reading(f, a)[Len(a)] = ReadStep(f, u, s)
  BY <1>1, ReadingDef
<1> HIDE DEF u, s
<1>4. PICK l \in Texts1, x \in FrameSet, y \in Seq(FrameSet) : s = Rd(l, x, y)
  BY <1>2, RdParts
<1>5. ReadStep(f, u, Rd(l, x, y)) = Rd(Append(l, u), x, y)
  <2>1. u # F!LF
    BY DEF u
  <2> QED  BY <1>2, <1>4, <2>1, ReadStepCases, Zenon
<1>6. Append(l, u) = <<>>
  <2>1. Rd(Append(l, u), x, y).line = Append(l, u)
    BY DEF Rd
  <2>2. Rd(<<>>, F!Blank, d).line = <<>>
    BY DEF Rd
  <2>3. Rd(Append(l, u), x, y) = Rd(<<>>, F!Blank, d)
    BY <1>3, <1>4, <1>5 DEF Settled
  <2> QED  BY <2>1, <2>2, <2>3
<1>7. Len(Append(l, u)) # 0
  BY <1>2, <1>4 DEF Texts1
<1> QED  BY <1>6, <1>7

LEMMA PushReads ==
    ASSUME NEW f \in Lined, NEW u \in Texts1, NEW buf, NEW made, IsRead(f, u, buf, made),
           NEW bytes \in Texts1, f = "Sse" => Alike(u \o bytes),
           NEW from \in Nat, F!EndsOf(f, buf \o bytes, from) = F!EndsOf(f, buf \o bytes, 0)
    PROVE  LET p == F!Peel(f, buf \o bytes, from)
           IN  IsRead(f, u \o bytes, p.rest, made \o p.frames)
<1> DEFINE b == buf \o bytes
           p == F!Peel(f, b, from)
<1>1. PICK a \in Texts1 : u = a \o buf /\ Reading(f, a)[Len(a)] = Settled(made)
  BY DEF IsRead
<1>2. buf \in Texts1 /\ made \in Seq(FrameSet)
  BY DEF IsRead
<1>3. b \in Texts1 /\ u \o bytes = a \o b
  <2>1. b \in Texts1
    BY <1>2 DEF Texts1
  <2> QED  BY <1>1, <1>2, <2>1, Associates
<1>4. f = "Sse" => Alike(b)
  <2>1. ASSUME f = "Sse" PROVE Alike(b)
    <3> HIDE DEF b
    <3> DEFINE t == a \o b
    <3>1. t \in Texts1 /\ Len(a) \in 0..Len(t) /\ Len(t) = Len(a) + Len(b) /\ Len(a) \in Nat /\ Len(b) \in Nat
          /\ (\A i \in 1..Len(a) : t[i] = a[i]) /\ \A i \in 1..Len(b) : t[Len(a) + i] = b[i]
      BY <1>3 DEF Texts1
    <3>2. Len(a) = 0 \/ t[Len(a)] # F!CR
      <4>1. F!LF # F!CR
        BY DEF F!LF, F!CR, F!Byte
      <4>2. Len(a) = 0 \/ a[Len(a)] = F!LF
        BY <1>1, SettledAtLf
      <4>3. Len(a) # 0 => Len(a) \in 1..Len(a)
        BY <3>1
      <4> QED  BY <3>1, <4>1, <4>2, <4>3
    <3> HIDE DEF t
    <3>3. Alike(t)
      BY <1>3, <2>1 DEF t
    <3>4. Alike(F!After(t, Len(a)))
      BY <3>1, <3>2, <3>3, PartsAlike
    <3>5. F!After(t, Len(a)) = b
      <4>1. /\ F!After(t, Len(a)) \in Texts1 /\ Len(F!After(t, Len(a))) = Len(t) - Len(a)
            /\ \A i \in 1..(Len(t) - Len(a)) : F!After(t, Len(a))[i] = t[Len(a) + i]
        BY <3>1, Pieces
      <4>2. Len(t) - Len(a) = Len(b)
        BY <3>1
      <4>3. \A i \in 1..Len(b) : F!After(t, Len(a))[i] = b[i]
        BY <3>1, <4>1, <4>2
      <4> QED  BY <1>3, <4>1, <4>2, <4>3, SameTexts
    <3> QED  BY <3>4, <3>5
  <2> QED  BY <2>1
<1>5. /\ p \in Rounds
      /\ f = "Sse" => Alike(p.rest)
      /\ F!EndsOf(f, p.rest, 0) = {}
      /\ \E c \in Texts1 : b = c \o p.rest /\ Reading(f, c)[Len(c)] = Settled(p.frames)
  <2>1. F!EndsOf(f, b, from) = F!EndsOf(f, b, 0)
    OBVIOUS
  <2> HIDE DEF b
  <2> QED  BY <1>3, <1>4, <2>1, PeelTakes
<1> HIDE DEF p, b
<1>6. PICK c \in Texts1 : b = c \o p.rest /\ Reading(f, c)[Len(c)] = Settled(p.frames)
  BY <1>5
<1>7. p.rest \in Texts1 /\ p.frames \in Seq(FrameSet) /\ made \o p.frames \in Seq(FrameSet)
  BY <1>2, <1>5 DEF Rounds
<1>8. a \o c \in Texts1 /\ Len(a \o c) = Len(a) + Len(c) /\ Len(c) \in 0..Len(c)
  BY DEF Texts1
<1>9. Reading(f, a \o c)[Len(a \o c)] = Settled(made \o p.frames)
  <2>1. Reading(f, a \o c)[Len(a) + Len(c)] = Continued(made, Settled(p.frames))
    BY <1>1, <1>2, <1>6, <1>8, ReadingGoesOn
  <2>2. Continued(made, Settled(p.frames)) = Settled(made \o p.frames)
    BY ContinuedRd DEF Settled
  <2> QED  BY <1>8, <2>1, <2>2
<1>10. u \o bytes = (a \o c) \o p.rest
  <2>1. (a \o c) \o p.rest = a \o (c \o p.rest)
    BY <1>6, <1>7, Associates
  <2> QED  BY <1>3, <1>6, <2>1
<1>11. IsRead(f, u \o bytes, p.rest, made \o p.frames)
  BY <1>5, <1>7, <1>8, <1>9, <1>10 DEF IsRead
<1> QED  BY <1>11 DEF p, b

(***************************************************************************)
(* The search for an end that starts where the last one gave up.           *)
(***************************************************************************)
LEMMA ResumeFinds ==
    ASSUME NEW buf \in Texts1, NEW bytes \in Texts1, F!FrameEnds(buf, 0) = {}
    PROVE  /\ F!Resume(Len(buf)) \in Nat
           /\ F!EndsOf("Sse", buf \o bytes, F!Resume(Len(buf))) = F!EndsOf("Sse", buf \o bytes, 0)
<1> DEFINE b == buf \o bytes
           from == F!Resume(Len(buf))
<1>1. /\ Len(buf) \in Nat /\ Len(bytes) \in Nat /\ b \in Texts1 /\ Len(b) = Len(buf) + Len(bytes)
      /\ \A i \in 1..Len(buf) : b[i] = buf[i]
  BY DEF Texts1
<1> HIDE DEF b
<1>2. from \in Nat /\ (from = 0 \/ from = Len(buf) - 3)
  BY <1>1 DEF F!Resume
<1>3. ASSUME NEW e \in F!FrameEnds(b, 0) PROVE e > Len(buf)
  <2>1. e \in Int /\ e \in 1..Len(b)
    BY <1>1 DEF F!FrameEnds
  <2>2. ASSUME e <= Len(buf) PROVE FALSE
    <3>0. e \in 1..Len(buf) /\ (e >= 2 => e - 1 \in 1..Len(buf))
          /\ (e >= 4 => e - 2 \in 1..Len(buf) /\ e - 3 \in 1..Len(buf))
      BY <1>1, <2>1, <2>2
    <3>1. e >= 2 => b[e] = buf[e] /\ b[e - 1] = buf[e - 1]
      BY <1>1, <3>0
    <3>2. e >= 4 => b[e - 2] = buf[e - 2] /\ b[e - 3] = buf[e - 3]
      BY <1>1, <3>0
    <3>3. e \in F!FrameEnds(buf, 0)
      BY <1>1, <2>1, <2>2, <3>1, <3>2 DEF F!FrameEnds
    <3> QED  BY <3>3
  <2> QED  BY <1>1, <2>1, <2>2
<1>4. F!FrameEnds(b, from) = F!FrameEnds(b, 0)
  <2>1. CASE from = 0
    BY <2>1
  <2>2. CASE from = Len(buf) - 3
    <3>1. ASSUME NEW e \in F!FrameEnds(b, 0) PROVE e \in F!FrameEnds(b, from)
      BY <1>1, <1>2, <1>3, <2>2 DEF F!FrameEnds
    <3>2. F!FrameEnds(b, from) \subseteq F!FrameEnds(b, 0)
      BY <1>1, <1>2 DEF F!FrameEnds
    <3> QED  BY <3>1, <3>2
  <2> QED  BY <1>2, <2>1, <2>2
<1> QED  BY <1>2, <1>4 DEF b, F!EndsOf

(***************************************************************************)
(* The byte-order mark.                                                    *)
(***************************************************************************)
LEMMA Starts ==
    ASSUME NEW s \in Texts1, NEW p \in Texts1
    PROVE  F!StartsWith(s, p) <=> Len(p) <= Len(s) /\ \A i \in 1..Len(p) : s[i] = p[i]
<1>1. Len(p) \in Nat /\ Len(s) \in Nat
  BY DEF Texts1
<1>2. CASE Len(p) <= Len(s)
  <2>1. /\ SubSeq(s, 1, Len(p)) \in Texts1 /\ Len(SubSeq(s, 1, Len(p))) = Len(p)
        /\ \A i \in 1..Len(p) : SubSeq(s, 1, Len(p))[i] = s[i]
    <3>1. Len(p) \in 0..Len(s)
      BY <1>1, <1>2
    <3> QED  BY <3>1, Pieces
  <2>2. SubSeq(s, 1, Len(p)) = p <=> \A i \in 1..Len(p) : s[i] = p[i]
    <3>1. ASSUME \A i \in 1..Len(p) : s[i] = p[i] PROVE SubSeq(s, 1, Len(p)) = p
      <4>1. \A i \in 1..Len(p) : SubSeq(s, 1, Len(p))[i] = p[i]
        BY <2>1, <3>1
      <4> QED  BY <2>1, <4>1, SameTexts
    <3> QED  BY <2>1, <3>1
  <2> QED  BY <1>2, <2>2 DEF F!StartsWith
<1>3. CASE ~ (Len(p) <= Len(s))
  BY <1>3 DEF F!StartsWith
<1> QED  BY <1>2, <1>3

LEMMA Mark ==
    /\ F!BOM \in Texts1 /\ Len(F!BOM) = 3 /\ F!BOM[3] # F!CR
    /\ \A i \in 1..3 : F!BOM[i] # F!LF
<1>1. F!Byte("EF") \in F!Units /\ F!Byte("BB") \in F!Units /\ F!Byte("BF") \in F!Units
  BY DEF F!Byte, F!Units, F!Kinds
<1>2. F!BOM \in Texts1 /\ Len(F!BOM) = 3
  BY <1>1 DEF F!BOM, Texts1
<1>3. F!Byte("EF") # F!LF /\ F!Byte("BB") # F!LF /\ F!Byte("BF") # F!LF /\ F!Byte("BF") # F!CR
  BY DEF F!Byte, F!LF, F!CR
<1>4. F!BOM[1] = F!Byte("EF") /\ F!BOM[2] = F!Byte("BB") /\ F!BOM[3] = F!Byte("BF")
  BY DEF F!BOM
<1>5. \A i \in 1..3 : i = 1 \/ i = 2 \/ i = 3
  OBVIOUS
<1> QED  BY <1>2, <1>3, <1>4, <1>5

\* What has come may be the beginning of a mark.
Marking(t) == Len(t) < Len(F!BOM) /\ F!StartsWith(F!BOM, t)

LEMMA MarkStarts ==
    ASSUME NEW t \in Texts1
    PROVE  /\ F!StartsWith(t, F!BOM) <=> 3 <= Len(t) /\ \A i \in 1..3 : t[i] = F!BOM[i]
           /\ Marking(t) <=> Len(t) < 3 /\ \A i \in 1..Len(t) : F!BOM[i] = t[i]
<1>1. F!BOM \in Texts1 /\ Len(F!BOM) = 3 /\ Len(t) \in Nat
  BY Mark DEF Texts1
<1>2. F!StartsWith(t, F!BOM) <=> Len(F!BOM) <= Len(t) /\ \A i \in 1..Len(F!BOM) : t[i] = F!BOM[i]
  BY <1>1, Starts, Zenon
<1>3. F!StartsWith(F!BOM, t) <=> Len(t) <= Len(F!BOM) /\ \A i \in 1..Len(t) : F!BOM[i] = t[i]
  BY <1>1, Starts, Zenon
<1>4. Len(t) < 3 => Len(t) <= 3
  BY <1>1
<1>5. Marking(t) <=> Len(t) < 3 /\ \A i \in 1..Len(t) : F!BOM[i] = t[i]
  BY <1>1, <1>3, <1>4 DEF Marking
<1>6. F!StartsWith(t, F!BOM) <=> 3 <= Len(t) /\ \A i \in 1..3 : t[i] = F!BOM[i]
  BY <1>1, <1>2
<1> QED  BY <1>5, <1>6

LEMMA UnmarkedType ==
    ASSUME NEW t \in Texts1
    PROVE  /\ Unmarked(t) \in Texts1
           /\ Alike(t) => Alike(Unmarked(t))
           /\ Marking(t) => Unmarked(t) = t /\ F!FrameEnds(t, 0) = {}
<1>1. Len(t) \in Nat /\ F!BOM \in Texts1 /\ Len(F!BOM) = 3
  BY Mark DEF Texts1
<1>2. CASE F!StartsWith(t, F!BOM)
  <2>1. 3 <= Len(t) /\ t[3] = F!BOM[3] /\ 3 \in 0..Len(t)
    <3>1. 3 <= Len(t) /\ \A i \in 1..3 : t[i] = F!BOM[i]
      BY <1>2, MarkStarts
    <3> QED  BY <1>1, <3>1
  <2>2. Unmarked(t) = F!After(t, 3)
    BY <1>2 DEF Unmarked
  <2>3. ~ Marking(t)
    BY <1>1, <2>1, MarkStarts
  <2>4. F!After(t, 3) \in Texts1
    BY <2>1, Pieces
  <2>5. Alike(t) => Alike(F!After(t, 3))
    BY <2>1, Mark, PartsAlike
  <2> QED  BY <2>2, <2>3, <2>4, <2>5
<1>3. CASE ~ F!StartsWith(t, F!BOM)
  <2>1. Unmarked(t) = t
    BY <1>3 DEF Unmarked
  <2>2. ASSUME Marking(t) PROVE F!FrameEnds(t, 0) = {}
    <3>1. Len(t) < 3 /\ \A i \in 1..Len(t) : F!BOM[i] = t[i]
      BY <1>1, <2>2, MarkStarts
    <3>2. \A i \in 1..Len(t) : t[i] # F!LF
      BY <1>1, <3>1, Mark
    <3> QED  BY <1>1, <3>2 DEF F!FrameEnds
  <2> QED  BY <2>1, <2>2
<1> QED  BY <1>2, <1>3

\* Once that is settled what comes is text.
LEMMA UnmarkedGoesOn ==
    ASSUME NEW t \in Texts1, ~ Marking(t), NEW bytes \in Texts1
    PROVE  ~ Marking(t \o bytes) /\ Unmarked(t \o bytes) = Unmarked(t) \o bytes
<1> DEFINE w == t \o bytes
<1>1. /\ Len(t) \in Nat /\ Len(bytes) \in Nat /\ w \in Texts1 /\ Len(w) = Len(t) + Len(bytes)
      /\ (\A i \in 1..Len(t) : w[i] = t[i]) /\ (\A i \in 1..Len(bytes) : w[Len(t) + i] = bytes[i])
      /\ F!BOM \in Texts1 /\ Len(F!BOM) = 3
  BY Mark DEF Texts1
<1> HIDE DEF w
<1>2. ~ Marking(w)
  <2>1. ASSUME Marking(w) PROVE FALSE
    <3>1. Len(w) < 3 /\ \A i \in 1..Len(w) : F!BOM[i] = w[i]
      BY <1>1, <2>1, MarkStarts
    <3>2. Len(t) < 3 /\ Len(t) <= 3 /\ \A i \in 1..Len(t) : F!BOM[i] = t[i]
      BY <1>1, <3>1
    <3> QED  BY <1>1, <3>2, MarkStarts
  <2> QED  BY <2>1
<1>3. CASE F!StartsWith(t, F!BOM)
  <2>1. 3 <= Len(t) /\ \A i \in 1..3 : t[i] = F!BOM[i]
    BY <1>1, <1>3, MarkStarts
  <2>2. 3 <= Len(w) /\ \A i \in 1..3 : w[i] = F!BOM[i]
    BY <1>1, <2>1
  <2>3. F!StartsWith(w, F!BOM)
    BY <1>1, <2>2, MarkStarts
  <2> DEFINE l == F!After(w, 3)
             r == F!After(t, 3)
  <2>4. /\ l \in Texts1 /\ Len(l) = Len(w) - 3 /\ \A i \in 1..(Len(w) - 3) : l[i] = w[3 + i]
    <3>1. 3 \in 0..Len(w)
      BY <1>1, <2>2
    <3> QED  BY <1>1, <3>1, Pieces
  <2>5. /\ r \in Texts1 /\ Len(r) = Len(t) - 3 /\ \A i \in 1..(Len(t) - 3) : r[i] = t[3 + i]
    <3>1. 3 \in 0..Len(t)
      BY <1>1, <2>1
    <3> QED  BY <1>1, <3>1, Pieces
  <2> HIDE DEF l, r
  <2>6. r \o bytes \in Texts1 /\ Len(r \o bytes) = Len(l)
    BY <1>1, <2>1, <2>4, <2>5 DEF Texts1
  <2>7. ASSUME NEW i \in 1..Len(l) PROVE (r \o bytes)[i] = l[i]
    <3>1. CASE i <= Len(r)
      <4>1. (r \o bytes)[i] = r[i]
        BY <1>1, <2>4, <2>5, <3>1 DEF Texts1
      <4>2. r[i] = t[3 + i] /\ l[i] = w[3 + i] /\ 3 + i \in 1..Len(t)
        BY <1>1, <2>1, <2>4, <2>5, <3>1
      <4> QED  BY <1>1, <4>1, <4>2
    <3>2. CASE i > Len(r)
      <4>1. (r \o bytes)[i] = bytes[i - Len(r)]
        BY <1>1, <2>1, <2>4, <2>5, <2>6, <3>2 DEF Texts1
      <4>2. l[i] = w[3 + i] /\ i - Len(r) \in 1..Len(bytes) /\ Len(t) + (i - Len(r)) = 3 + i
        BY <1>1, <2>1, <2>4, <2>5, <3>2
      <4>3. w[Len(t) + (i - Len(r))] = bytes[i - Len(r)]
        BY <1>1, <4>2
      <4> QED  BY <4>1, <4>2, <4>3
    <3>3. i <= Len(r) \/ i > Len(r)
      BY <1>1, <2>1, <2>4, <2>5
    <3> QED  BY <3>1, <3>2, <3>3, Zenon
  <2>8. r \o bytes = l
    BY <2>4, <2>6, <2>7, SameTexts
  <2> QED  BY <1>2, <1>3, <2>3, <2>8 DEF Unmarked, l, r, w
<1>4. CASE ~ F!StartsWith(t, F!BOM)
  <2>1. ~ F!StartsWith(w, F!BOM)
    <3>1. ASSUME F!StartsWith(w, F!BOM) PROVE FALSE
      <4>1. 3 <= Len(w) /\ \A i \in 1..3 : w[i] = F!BOM[i]
        BY <1>1, <3>1, MarkStarts
      <4>2. CASE 3 <= Len(t)
        <5>1. \A i \in 1..3 : t[i] = F!BOM[i]
          BY <1>1, <4>1, <4>2
        <5> QED  BY <1>1, <1>4, <4>2, <5>1, MarkStarts
      <4>3. CASE Len(t) < 3
        <5>1. Len(t) <= 3 /\ \A i \in 1..Len(t) : F!BOM[i] = t[i]
          BY <1>1, <4>1, <4>3
        <5> QED  BY <1>1, <4>3, <5>1, MarkStarts
      <4> QED  BY <1>1, <4>2, <4>3
    <3> QED  BY <3>1
  <2> QED  BY <1>2, <1>4, <2>1 DEF Unmarked, w
<1> QED  BY <1>3, <1>4

(***************************************************************************)
(* The framers, push by push.                                              *)
(***************************************************************************)
Decoders == [buf : Texts1, scan : Nat, bom_stripped : BOOLEAN]

\* t has been pushed into the SSE framer, and `made` been made of it.
SseIs(t, d, made) ==
    /\ d \in Decoders
    /\ d.bom_stripped <=> ~ Marking(t)
    /\ IsRead("Sse", Unmarked(t), d.buf, made)
    /\ d.bom_stripped => d.scan = F!Resume(Len(d.buf))
    /\ ~ d.bom_stripped => d.buf = t /\ d.scan = 0 /\ made = <<>>

LEMMA SseNew == SseIs(<<>>, F!NewDecoder, <<>>)
<1>1. <<>> \in Texts1 /\ Len(<<>>) = 0
  BY DEF Texts1
<1>2. F!NewDecoder \in Decoders /\ F!NewDecoder.bom_stripped = FALSE /\ F!NewDecoder.buf = <<>> /\ F!NewDecoder.scan = 0
  BY <1>1 DEF F!NewDecoder, Decoders
<1>3. Marking(<<>>)
  BY <1>1, MarkStarts
<1>4. Unmarked(<<>>) = <<>>
  BY <1>1, <1>3, UnmarkedType
<1>5. IsRead("Sse", <<>>, <<>>, <<>>)
  BY NothingRead DEF Lined
<1> QED  BY <1>2, <1>3, <1>4, <1>5 DEF SseIs

LEMMA SsePushIs ==
    ASSUME NEW t \in Texts1, NEW d, NEW made, SseIs(t, d, made),
           NEW bytes \in Texts1, Alike(t \o bytes)
    PROVE  SseIs(t \o bytes, F!SsePush(d, bytes).decoder, made \o F!SsePush(d, bytes).frames)
<1> DEFINE w == t \o bytes
           e == [d EXCEPT !.buf = @ \o bytes]
           s == F!StripBom(e)
           p == F!Peel("Sse", s.buf, s.scan)
           r == F!SsePush(d, bytes)
<1>1. /\ d \in Decoders /\ d.buf \in Texts1 /\ d.scan \in Nat /\ d.bom_stripped \in BOOLEAN
      /\ "Sse" \in Lined /\ w \in Texts1 /\ Alike(w)
  BY DEF SseIs, Decoders, Lined, Texts1
<1>2. e \in Decoders /\ e.buf = d.buf \o bytes /\ e.scan = d.scan /\ e.bom_stripped = d.bom_stripped
  <2>1. d.buf \o bytes \in Texts1
    BY <1>1 DEF Texts1
  <2> QED  BY <1>1, <2>1 DEF Decoders
<1> HIDE DEF e, w
<1>3. r = IF ~ s.bom_stripped THEN [decoder |-> s, frames |-> <<>>]
          ELSE [decoder |-> [s EXCEPT !.buf = p.rest, !.scan = F!Resume(Len(p.rest))], frames |-> p.frames]
  BY DEF F!SsePush, e
<1> HIDE DEF r
<1>4. ASSUME s \in Decoders, s.bom_stripped, ~ Marking(w), IsRead("Sse", Unmarked(w), p.rest, made \o p.frames)
      PROVE  SseIs(w, r.decoder, made \o r.frames)
  <2>1. r.decoder = [s EXCEPT !.buf = p.rest, !.scan = F!Resume(Len(p.rest))] /\ r.frames = p.frames
    BY <1>3, <1>4
  <2>2. p.rest \in Texts1 /\ F!Resume(Len(p.rest)) \in Nat
    <3>1. p.rest \in Texts1
      BY <1>4 DEF IsRead
    <3>2. Len(p.rest) \in Nat
      BY <3>1 DEF Texts1
    <3> QED  BY <3>1, <3>2 DEF F!Resume
  <2> HIDE DEF s, p
  <2>3. /\ r.decoder \in Decoders /\ r.decoder.bom_stripped = s.bom_stripped
        /\ r.decoder.buf = p.rest /\ r.decoder.scan = F!Resume(Len(p.rest))
    BY <1>4, <2>1, <2>2 DEF Decoders
  <2> QED  BY <1>4, <2>1, <2>3 DEF SseIs
<1>5. CASE d.bom_stripped
  <2>1. s = e /\ s.bom_stripped /\ s \in Decoders
    BY <1>2, <1>5 DEF F!StripBom
  <2>2. ~ Marking(w) /\ Unmarked(w) = Unmarked(t) \o bytes
    BY <1>5, UnmarkedGoesOn DEF SseIs, w
  <2>3. IsRead("Sse", Unmarked(t), d.buf, made) /\ F!FrameEnds(d.buf, 0) = {} /\ d.scan = F!Resume(Len(d.buf))
    BY <1>5 DEF SseIs, IsRead, F!EndsOf
  <2>4. F!EndsOf("Sse", d.buf \o bytes, d.scan) = F!EndsOf("Sse", d.buf \o bytes, 0)
    BY <1>1, <2>3, ResumeFinds
  <2>5. Unmarked(t) \in Texts1 /\ Alike(Unmarked(t) \o bytes)
    BY <1>1, <2>2, UnmarkedType
  <2>6. IsRead("Sse", Unmarked(t) \o bytes, F!Peel("Sse", d.buf \o bytes, d.scan).rest,
               made \o F!Peel("Sse", d.buf \o bytes, d.scan).frames)
    BY <1>1, <2>3, <2>4, <2>5, PushReads
  <2>7. p = F!Peel("Sse", d.buf \o bytes, d.scan)
    BY <1>2, <2>1
  <2> HIDE DEF s, p
  <2> QED  BY <1>4, <2>1, <2>2, <2>6, <2>7 DEF w, r
<1>6. CASE ~ d.bom_stripped
  <2>1. d.buf = t /\ d.scan = 0 /\ made = <<>> /\ Marking(t)
    BY <1>6 DEF SseIs
  <2>2. e.buf = w /\ e.scan = 0 /\ e.bom_stripped = FALSE
    BY <1>1, <1>2, <1>6, <2>1 DEF w
  <2>3. CASE Marking(w)
    <3>1. s = e
      BY <2>2, <2>3 DEF F!StripBom, Marking
    <3>2. r.decoder = e /\ r.frames = <<>>
      BY <1>3, <2>2, <3>1
    <3>3. IsRead("Sse", Unmarked(w), w, <<>>)
      <4>1. Unmarked(w) = w /\ F!FrameEnds(w, 0) = {}
        BY <1>1, <2>3, UnmarkedType
      <4>2. <<>> \in Texts1 /\ Len(<<>>) = 0 /\ w = <<>> \o w /\ <<>> \in Seq(FrameSet)
        BY <1>1 DEF Texts1
      <4>3. Reading("Sse", <<>>)[0] = Settled(<<>>)
        BY <1>1, <4>2, ReadingDef DEF Unread, Settled, Rd
      <4> QED  BY <1>1, <4>1, <4>2, <4>3 DEF IsRead, F!EndsOf
    <3>4. made \o r.frames = <<>>
      BY <2>1, <3>2
    <3>5. SseIs(w, e, <<>>)
      BY <1>2, <2>2, <2>3, <3>3 DEF SseIs
    <3> QED  BY <3>2, <3>4, <3>5 DEF w, r
  <2>4. CASE ~ Marking(w)
    <3>1. s = [e EXCEPT !.bom_stripped = TRUE, !.buf = Unmarked(w)]
      <4>1. Unmarked(w) = IF F!StartsWith(w, F!BOM) THEN F!After(w, Len(F!BOM)) ELSE w
        BY Mark DEF Unmarked
      <4> QED  BY <2>2, <2>4, <4>1 DEF F!StripBom, Marking
    <3>2. Unmarked(w) \in Texts1 /\ Alike(Unmarked(w))
      BY <1>1, UnmarkedType
    <3>3. s \in Decoders /\ s.bom_stripped /\ s.buf = Unmarked(w) /\ s.scan = 0
      BY <1>2, <2>2, <3>1, <3>2 DEF Decoders
    <3>4. <<>> \in Texts1 /\ <<>> \o Unmarked(w) = Unmarked(w)
      BY <3>2 DEF Texts1
    <3>5. IsRead("Sse", <<>>, <<>>, <<>>)
      BY NothingRead, <1>1
    <3> DEFINE q == F!Peel("Sse", Unmarked(w), 0)
    <3>6. IsRead("Sse", Unmarked(w), q.rest, <<>> \o q.frames)
      <4>1. IsRead("Sse", <<>> \o Unmarked(w), F!Peel("Sse", <<>> \o Unmarked(w), 0).rest,
                   <<>> \o F!Peel("Sse", <<>> \o Unmarked(w), 0).frames)
        <5> DEFINE v == Unmarked(w)
        <5>1. v \in Texts1 /\ Alike(<<>> \o v) /\ 0 \in Nat
          BY <3>2, <3>4
        <5> HIDE DEF v
        <5>2. F!EndsOf("Sse", <<>> \o v, 0) = F!EndsOf("Sse", <<>> \o v, 0)
          OBVIOUS
        <5>3. IsRead("Sse", <<>> \o v, F!Peel("Sse", <<>> \o v, 0).rest, <<>> \o F!Peel("Sse", <<>> \o v, 0).frames)
          BY <1>1, <3>4, <3>5, <5>1, <5>2, PushReads
        <5> QED  BY <5>3 DEF v
      <4> QED  BY <3>4, <4>1
    <3>7. p = q
      BY <3>3
    <3> HIDE DEF s, p, q
    <3> QED  BY <1>4, <2>1, <2>4, <3>3, <3>6, <3>7 DEF w, r
  <2> QED  BY <2>3, <2>4
<1> QED  BY <1>1, <1>5, <1>6

NdjsonIs(t, d, made) == d \in Decoders /\ IsRead("Ndjson", t, d.buf, made)

LEMMA NdjsonPushIs ==
    ASSUME NEW t \in Texts1, NEW d, NEW made, NdjsonIs(t, d, made), NEW bytes \in Texts1
    PROVE  NdjsonIs(t \o bytes, F!NdjsonPush(d, bytes).decoder, made \o F!NdjsonPush(d, bytes).frames)
<1> DEFINE p == F!Peel("Ndjson", d.buf \o bytes, 0)
           r == F!NdjsonPush(d, bytes)
<1>1. d \in Decoders /\ "Ndjson" \in Lined /\ 0 \in Nat /\ IsRead("Ndjson", t, d.buf, made)
  BY DEF NdjsonIs, Lined
<1>2. IsRead("Ndjson", t \o bytes, p.rest, made \o p.frames)
  BY <1>1, PushReads
<1>3. r.decoder = [d EXCEPT !.buf = p.rest] /\ r.frames = p.frames
  BY DEF F!NdjsonPush
<1>4. p.rest \in Texts1
  BY <1>2 DEF IsRead
<1> HIDE DEF p, r
<1>5. r.decoder \in Decoders /\ r.decoder.buf = p.rest
  BY <1>1, <1>3, <1>4 DEF Decoders
<1>6. NdjsonIs(t \o bytes, r.decoder, made \o r.frames)
  BY <1>2, <1>3, <1>5 DEF NdjsonIs
<1> QED  BY <1>6 DEF r

\* The payloads, by recursion.
ContentsTo(made, g) ==
    /\ g \in [0..Len(made) -> Payloads]
    /\ g[0] = <<>> /\ \A n \in 1..Len(made) : g[n] = g[n - 1] \o made[n].data
    /\ Contents(made) = g[Len(made)]

Adds(x, frame) == x \o frame.data

LEMMA ContentsDef ==
    ASSUME NEW made \in Seq(FrameSet)
    PROVE  \E g : ContentsTo(made, g)
<1> DEFINE base == <<>>
           step == [p \in (1..Len(made)) \X Payloads |-> Adds(p[2], made[p[1]])]
<1>1. Len(made) \in Nat /\ <<>> \in Payloads
  BY DEF Payloads
<1>2. ASSUME NEW n \in 1..Len(made), NEW x \in Payloads PROVE Adds(x, made[n]) \in Payloads
  <2>1. made[n] \in FrameSet
    BY <1>1
  <2>2. made[n].data \in Payloads
    BY <2>1 DEF FrameSet
  <2> QED  BY <2>2 DEF Payloads, Adds
<1>3. step \in [(1..Len(made)) \X Payloads -> Payloads]
  BY <1>2
<1>4. PICK g \in [0..Len(made) -> Payloads] : Solves(g, Len(made), base, step)
  <2> HIDE DEF step
  <2> QED  BY <1>1, <1>3, Recursion, Zenon
<1> HIDE DEF base
<1>5. g = [n \in 0..Len(made) |-> IF n = 0 THEN base ELSE Adds(g[n - 1], made[n])]
  <2>1. ASSUME NEW n \in 0..Len(made), n # 0 PROVE step[<<n, g[n - 1]>>] = Adds(g[n - 1], made[n])
    <3>1. n \in 1..Len(made) /\ n - 1 \in 0..Len(made)
      BY <1>1, <2>1
    <3>2. g[n - 1] \in Payloads
      BY <3>1
    <3>3. \A k \in 1..Len(made), x \in Payloads : step[<<k, x>>] = Adds(x, made[k])
      OBVIOUS
    <3> HIDE DEF step
    <3> QED  BY <3>1, <3>2, <3>3
  <2> QED  BY <1>4, <2>1 DEF Solves
<1> DEFINE h == CHOOSE r : r = [n \in 0..Len(made) |-> IF n = 0 THEN base ELSE Adds(r[n - 1], made[n])]
<1>6. h = [n \in 0..Len(made) |-> IF n = 0 THEN base ELSE Adds(h[n - 1], made[n])]
  BY <1>5
<1>7. Contents(made) = h[Len(made)]
  BY DEF Contents, Adds, base
<1> HIDE DEF h
<1>8. h[0] = <<>> /\ \A n \in 1..Len(made) : h[n] = Adds(h[n - 1], made[n])
  BY <1>1, <1>6 DEF base
<1> DEFINE S == {n \in 0..Len(made) : h[n] \in Payloads}
<1>9. 0..Len(made) \subseteq S
  <2>1. 0 \in S
    BY <1>1, <1>8
  <2>2. ASSUME NEW n \in 0..Len(made), n \in S, n < Len(made) PROVE n + 1 \in S
    <3>1. n + 1 \in 1..Len(made) /\ n + 1 \in 0..Len(made) /\ (n + 1) - 1 = n /\ h[n] \in Payloads
      BY <1>1, <2>2
    <3>2. h[n + 1] = Adds(h[n], made[n + 1])
      BY <1>8, <3>1
    <3>3. h[n + 1] \in Payloads
      BY <1>2, <3>1, <3>2
    <3> QED  BY <3>1, <3>3
  <2> HIDE DEF S
  <2> QED  BY <1>1, <2>1, <2>2, UpTo
<1>10. h \in [0..Len(made) -> Payloads]
  BY <1>6, <1>9
<1> QED  BY <1>7, <1>8, <1>10 DEF ContentsTo, Adds

LEMMA ContentsGrow ==
    ASSUME NEW made \in Seq(FrameSet), NEW frame \in FrameSet
    PROVE  Contents(made \o <<frame>>) = Contents(made) \o frame.data
<1> DEFINE more == made \o <<frame>>
<1>1. /\ more \in Seq(FrameSet) /\ Len(made) \in Nat /\ Len(more) = Len(made) + 1
      /\ (\A n \in 1..Len(made) : more[n] = made[n]) /\ more[Len(made) + 1] = frame
  OBVIOUS
<1> HIDE DEF more
<1>2. PICK g : ContentsTo(made, g)
  BY ContentsDef
<1>3. PICK h : ContentsTo(more, h)
  BY <1>1, ContentsDef
<1> DEFINE S == {n \in 0..Len(made) : h[n] = g[n]}
<1>4. 0..Len(made) \subseteq S
  <2>1. 0 \in S
    BY <1>1, <1>2, <1>3 DEF ContentsTo
  <2>2. ASSUME NEW n \in 0..Len(made), n \in S, n < Len(made) PROVE n + 1 \in S
    <3>1. n + 1 \in 1..Len(made) /\ n + 1 \in 1..Len(more) /\ n + 1 \in 0..Len(made) /\ (n + 1) - 1 = n
      BY <1>1, <2>2
    <3>2. h[n + 1] = h[n] \o more[n + 1].data /\ g[n + 1] = g[n] \o made[n + 1].data
      BY <1>2, <1>3, <3>1 DEF ContentsTo
    <3>3. h[n + 1] = g[n + 1]
      BY <1>1, <2>2, <3>1, <3>2
    <3> QED  BY <3>1, <3>3
  <2> HIDE DEF S
  <2> QED  BY <1>1, <2>1, <2>2, UpTo
<1>5. h[Len(made)] = g[Len(made)]
  <2>1. Len(made) \in 0..Len(made)
    BY <1>1
  <2> QED  BY <1>4, <2>1
<1>6. h[Len(more)] = h[Len(made)] \o frame.data
  <2>1. Len(more) \in 1..Len(more) /\ Len(more) - 1 = Len(made)
    BY <1>1
  <2> QED  BY <1>1, <1>3, <2>1 DEF ContentsTo
<1> QED  BY <1>2, <1>3, <1>5, <1>6 DEF ContentsTo, more

IdentityIs(t, made) == made \in Seq(FrameSet) /\ Contents(made) = t

LEMMA IdentityPushIs ==
    ASSUME NEW t \in Texts1, NEW made, IdentityIs(t, made), NEW bytes \in Texts1
    PROVE  IdentityIs(t \o bytes, made \o <<[event |-> 0, data |-> bytes]>>)
<1> DEFINE frame == [event |-> 0, data |-> bytes]
<1>1. frame \in FrameSet
  BY DEF FrameSet, Payloads, Texts1
<1>2. frame.data = bytes
  OBVIOUS
<1> HIDE DEF frame
<1>3. made \o <<frame>> \in Seq(FrameSet)
  BY <1>1 DEF IdentityIs
<1>4. Contents(made \o <<frame>>) = Contents(made) \o bytes
  BY <1>1, <1>2, ContentsGrow DEF IdentityIs
<1> QED  BY <1>3, <1>4 DEF IdentityIs, frame

LEMMA NothingIdentical == IdentityIs(<<>>, <<>>)
<1>1. <<>> \in Seq(FrameSet) /\ Len(<<>>) = 0
  OBVIOUS
<1> QED  BY <1>1, ContentsDef DEF IdentityIs, ContentsTo

(***************************************************************************)
(* The body and its framer.                                                *)
(***************************************************************************)
Making(f, t, d, made) ==
    /\ f = "Sse" => SseIs(t, d, made)
    /\ f = "Ndjson" => NdjsonIs(t, d, made)
    /\ f = "Identity" => IdentityIs(t, made)

Whole(f, t, made) ==
    /\ f = "Sse" => made = FramesOf("Sse", Unmarked(t), TRUE)
    /\ f = "Ndjson" => made = FramesOf("Ndjson", t, TRUE)
    /\ f = "Identity" => Contents(made) = t

BodyInv ==
    /\ Inv
    /\ text \in Texts /\ framing \in F!Framings /\ frames \in Seq(FrameSet)
    /\ Numbered(got, 0) /\ Len(got) <= sent /\ sent <= Len(text)
    /\ verdict # "ended" => Making(framing, Bytes(got), decoder, frames)
    /\ verdict = "ended" => Whole(framing, Bytes(got), frames)

LEMMA NewMaking == \A f \in F!Framings : Making(f, <<>>, F!NewDecoder, <<>>)
<1>1. NdjsonIs(<<>>, F!NewDecoder, <<>>)
  <2>1. F!NewDecoder \in Decoders /\ F!NewDecoder.buf = <<>>
    BY DEF F!NewDecoder, Decoders, Texts1
  <2>2. IsRead("Ndjson", <<>>, <<>>, <<>>)
    BY NothingRead DEF Lined
  <2> QED  BY <2>1, <2>2 DEF NdjsonIs
<1> QED  BY <1>1, SseNew, NothingIdentical DEF Making

LEMMA MakingType ==
    ASSUME NEW f \in F!Framings, NEW t, NEW d, NEW made, Making(f, t, d, made)
    PROVE  made \in Seq(FrameSet)
  BY DEF Making, SseIs, NdjsonIs, IdentityIs, IsRead, F!Framings

LEMMA LeftType ==
    ASSUME NEW f \in Lined, NEW buf \in Texts1
    PROVE  Left(f, buf) \in Seq(FrameSet)
<1>1. F!Framed(F!ParseBlock(buf)) \in Seq(FrameSet)
  BY ParsedBlock, FramedParts
<1>2. F!Framed(F!LineFrame(buf)) \in Seq(FrameSet)
  BY ParsedLine, FramedParts
<1> QED  BY <1>1, <1>2 DEF Left

LEMMA PushMaking ==
    ASSUME NEW f \in F!Framings, NEW t \in Texts1, NEW d, NEW made, Making(f, t, d, made),
           NEW bytes \in Texts1, Alike(t \o bytes)
    PROVE  Making(f, t \o bytes, F!Push(f, d, bytes).decoder, made \o F!Push(f, d, bytes).frames)
<1>1. CASE f = "Sse"
  <2>1. F!Push(f, d, bytes) = F!SsePush(d, bytes)
    BY <1>1 DEF F!Push
  <2>2. SseIs(t \o bytes, F!SsePush(d, bytes).decoder, made \o F!SsePush(d, bytes).frames)
    BY <1>1, SsePushIs DEF Making
  <2> QED  BY <1>1, <2>1, <2>2 DEF Making
<1>2. CASE f = "Ndjson"
  <2>1. F!Push(f, d, bytes) = F!NdjsonPush(d, bytes)
    BY <1>2 DEF F!Push
  <2>2. NdjsonIs(t \o bytes, F!NdjsonPush(d, bytes).decoder, made \o F!NdjsonPush(d, bytes).frames)
    BY <1>2, NdjsonPushIs DEF Making
  <2> QED  BY <1>2, <2>1, <2>2 DEF Making
<1>3. CASE f = "Identity"
  <2>1. F!Push(f, d, bytes) = [decoder |-> d, frames |-> <<[event |-> 0, data |-> bytes]>>]
    BY <1>3 DEF F!Push
  <2>2. F!Push(f, d, bytes).frames = <<[event |-> 0, data |-> bytes]>>
    BY <2>1
  <2>3. IdentityIs(t \o bytes, made \o <<[event |-> 0, data |-> bytes]>>)
    BY <1>3, IdentityPushIs DEF Making
  <2> QED  BY <1>3, <2>2, <2>3 DEF Making
<1> QED  BY <1>1, <1>2, <1>3 DEF F!Framings

\* Flushed, the frames are those of the whole text.
LEMMA FinishMakes ==
    ASSUME NEW f \in F!Framings, NEW t, NEW d, NEW made, Making(f, t, d, made)
    PROVE  /\ Whole(f, t, made \o F!Finish(f, d).frames)
           /\ made \o F!Finish(f, d).frames \in Seq(FrameSet)
<1>0. made \in Seq(FrameSet)
  BY MakingType
<1>1. CASE f = "Sse"
  <2>1. F!Finish(f, d).frames = Left("Sse", d.buf)
    BY <1>1 DEF F!Finish, Left
  <2>2. FramesOf("Sse", Unmarked(t), TRUE) = made \o Left("Sse", d.buf)
    <3>1. IsRead("Sse", Unmarked(t), d.buf, made)
      BY <1>1 DEF Making, SseIs
    <3> QED  BY <3>1, FramesOfRead DEF Lined
  <2>3. Left("Sse", d.buf) \in Seq(FrameSet)
    <3>1. d.buf \in Texts1
      BY <1>1 DEF Making, SseIs, IsRead
    <3> QED  BY <3>1, LeftType DEF Lined
  <2>4. Whole(f, t, made \o F!Finish(f, d).frames)
    BY <1>1, <2>1, <2>2 DEF Whole
  <2>5. made \o Left(f, d.buf) \in Seq(FrameSet)
    BY <1>0, <1>1, <2>3
  <2> QED  BY <1>1, <2>1, <2>4, <2>5
<1>2. CASE f = "Ndjson"
  <2>1. F!Finish(f, d).frames = Left("Ndjson", d.buf)
    BY <1>2 DEF F!Finish, Left
  <2>2. FramesOf("Ndjson", t, TRUE) = made \o Left("Ndjson", d.buf)
    <3>1. IsRead("Ndjson", t, d.buf, made)
      BY <1>2 DEF Making, NdjsonIs
    <3> QED  BY <3>1, FramesOfRead DEF Lined
  <2>3. Left("Ndjson", d.buf) \in Seq(FrameSet)
    <3>1. d.buf \in Texts1
      BY <1>2 DEF Making, NdjsonIs, IsRead
    <3> QED  BY <3>1, LeftType DEF Lined
  <2>4. Whole(f, t, made \o F!Finish(f, d).frames)
    BY <1>2, <2>1, <2>2 DEF Whole
  <2>5. made \o Left(f, d.buf) \in Seq(FrameSet)
    BY <1>0, <1>2, <2>3
  <2> QED  BY <1>2, <2>1, <2>4, <2>5
<1>3. CASE f = "Identity"
  <2>1. F!Finish(f, d).frames = <<>>
    BY <1>3 DEF F!Finish
  <2>2. made \o <<>> = made
    BY <1>0
  <2> QED  BY <1>0, <1>3, <2>1, <2>2 DEF Whole, Making, IdentityIs
<1> QED  BY <1>1, <1>2, <1>3 DEF F!Framings

LEMMA WholeOrNot ==
    ASSUME NEW f, NEW t, NEW w \in BOOLEAN
    PROVE  /\ w => FramesOf(f, t, w) = FramesOf(f, t, TRUE)
           /\ ~ w => FramesOf(f, t, w) = FramesOf(f, t, FALSE)
  BY DEF FramesOf

LEMMA BodyInvSays == BodyInv => FramesAreTheText
<1> SUFFICES ASSUME BodyInv PROVE FramesAreTheText
  OBVIOUS
<1> DEFINE t == Bytes(got)
           w == verdict = "ended"
<1>1. framing \in F!Framings /\ w \in BOOLEAN
  BY DEF BodyInv
<1>2. CASE framing = "Sse"
  <2>1. CASE w
    <3>1. frames = FramesOf("Sse", Unmarked(t), TRUE)
      BY <1>2, <2>1 DEF BodyInv, Whole
    <3>2. FramesOf("Sse", Unmarked(t), w) = FramesOf("Sse", Unmarked(t), TRUE)
      BY <1>1, <2>1, WholeOrNot
    <3> QED  BY <1>2, <3>1, <3>2, Zenon DEF FramesAreTheText
  <2>2. CASE ~ w
    <3>1. IsRead("Sse", Unmarked(t), decoder.buf, frames)
      BY <1>2, <2>2 DEF BodyInv, Making, SseIs
    <3>2. frames = FramesOf("Sse", Unmarked(t), FALSE)
      BY <3>1, FramesOfRead DEF Lined
    <3>3. FramesOf("Sse", Unmarked(t), w) = FramesOf("Sse", Unmarked(t), FALSE)
      BY <1>1, <2>2, WholeOrNot
    <3> QED  BY <1>2, <3>2, <3>3, Zenon DEF FramesAreTheText
  <2> QED  BY <2>1, <2>2
<1>3. CASE framing = "Ndjson"
  <2>1. CASE w
    <3>1. frames = FramesOf("Ndjson", t, TRUE)
      BY <1>3, <2>1 DEF BodyInv, Whole
    <3>2. FramesOf("Ndjson", t, w) = FramesOf("Ndjson", t, TRUE)
      BY <1>1, <2>1, WholeOrNot
    <3> QED  BY <1>3, <3>1, <3>2, Zenon DEF FramesAreTheText
  <2>2. CASE ~ w
    <3>1. IsRead("Ndjson", t, decoder.buf, frames)
      BY <1>3, <2>2 DEF BodyInv, Making, NdjsonIs
    <3>2. frames = FramesOf("Ndjson", t, FALSE)
      BY <3>1, FramesOfRead DEF Lined
    <3>3. FramesOf("Ndjson", t, w) = FramesOf("Ndjson", t, FALSE)
      BY <1>1, <2>2, WholeOrNot
    <3> QED  BY <1>3, <3>2, <3>3, Zenon DEF FramesAreTheText
  <2> QED  BY <2>1, <2>2
<1>4. CASE framing = "Identity"
  BY <1>4 DEF FramesAreTheText, BodyInv, Whole, Making, IdentityIs
<1> QED  BY <1>1, <1>2, <1>3, <1>4 DEF F!Framings

LEMMA TextOf ==
    \A t \in Texts : t \in Texts1 /\ Alike(t)
<1> SUFFICES ASSUME NEW t \in Texts PROVE t \in Texts1 /\ Alike(t)
  OBVIOUS
<1>1. t \in Texts1 /\ LinesEndAlike(t)
  BY TextsAssumption DEF Texts1
<1>2. DOMAIN t = 1..Len(t)
  BY <1>1 DEF Texts1
<1> QED  BY <1>1, <1>2 DEF LinesEndAlike, Alike

\* Numbered bytes are a piece of the text.
Piece(t, s) == [i \in 1..Len(s) |-> t[s[i]]]

LEMMA PieceOf ==
    ASSUME NEW t \in Texts1, NEW a \in Nat, NEW s, Numbered(s, a), a + Len(s) <= Len(t)
    PROVE  /\ Piece(t, s) \in Texts1 /\ Len(Piece(t, s)) = Len(s) /\ Len(s) \in Nat
           /\ \A i \in 1..Len(s) : Piece(t, s)[i] = t[a + i]
<1> DEFINE piece == [i \in 1..Len(s) |-> t[s[i]]]
<1>1. Len(s) \in Nat /\ Len(t) \in Nat /\ \A i \in 1..Len(s) : s[i] = a + i
  BY DEF Numbered, Texts1
<1>2. ASSUME NEW i \in 1..Len(s) PROVE t[s[i]] = t[a + i] /\ t[s[i]] \in F!Units
  <2>1. s[i] = a + i /\ a + i \in 1..Len(t)
    BY <1>1
  <2>2. t[a + i] \in F!Units
    BY <2>1, UnitsOf
  <2> QED  BY <2>1, <2>2
<1>3. piece \in [1..Len(s) -> F!Units]
  BY <1>2
<1>4. \A i \in 1..Len(s) : piece[i] = t[a + i]
  BY <1>2
<1> HIDE DEF piece
<1>5. piece \in Seq(F!Units) /\ Len(piece) = Len(s)
  BY <1>1, <1>3
<1>6. Piece(t, s) = piece
  BY DEF Piece, piece
<1> QED  BY <1>1, <1>4, <1>5, <1>6 DEF Texts1

LEMMA BytesOfGot ==
    ASSUME BodyInv
    PROVE  /\ text \in Texts1 /\ Alike(text) /\ Len(text) \in Nat /\ Len(got) \in Nat
           /\ Bytes(got) \in Texts1 /\ Len(Bytes(got)) = Len(got)
           /\ \A i \in 1..Len(got) : Bytes(got)[i] = text[i]
<1>1. text \in Texts1 /\ Alike(text) /\ Len(text) \in Nat
  BY TextOf DEF BodyInv, Texts1
<1>2. Numbered(got, 0) /\ Len(got) <= sent /\ sent <= Len(text) /\ sent \in Nat /\ Len(got) \in Nat
  BY DEF BodyInv, Inv, Typed, Numbered
<1>3. 0 + Len(got) <= Len(text) /\ \A i \in 1..Len(got) : 0 + i = i
  BY <1>1, <1>2
<1>4. Bytes(got) = Piece(text, got)
  BY DEF Bytes, Piece
<1>5. /\ Piece(text, got) \in Texts1 /\ Len(Piece(text, got)) = Len(got)
      /\ \A i \in 1..Len(got) : Piece(text, got)[i] = text[0 + i]
  BY <1>1, <1>2, <1>3, PieceOf
<1> QED  BY <1>1, <1>2, <1>3, <1>4, <1>5

LEMMA BodyInitInv == BodyInit => BodyInv
<1> SUFFICES ASSUME BodyInit PROVE BodyInv
  OBVIOUS
<1>1. Inv /\ text \in Texts /\ framing \in F!Framings
  BY InitInv DEF BodyInit
<1>2. got = <<>> /\ sent = 0 /\ verdict = "open" /\ decoder = F!NewDecoder /\ frames = <<>>
  BY DEF BodyInit, Init
<1>3. Len(text) \in Nat
  BY <1>1, TextOf DEF Texts1
<1>4. Numbered(got, 0) /\ Len(got) <= sent /\ sent <= Len(text)
  BY <1>2, <1>3, NoneNumbered
<1>5. Bytes(got) = <<>>
  BY <1>2 DEF Bytes
<1>6. Making(framing, Bytes(got), decoder, frames)
  BY <1>1, <1>2, <1>5, NewMaking
<1>7. frames \in Seq(FrameSet)
  BY <1>2
<1> QED  BY <1>1, <1>2, <1>4, <1>6, <1>7 DEF BodyInv

\* What a step of the reader does to what the framer sees.
LEMMA ReaderSteps ==
    ASSUME Inv, Inv', [Next]_vars
    PROVE  /\ sent' \in {sent, sent + 1}
           /\ \/ got' = got /\ (verdict' = verdict \/ verdict = "open")
              \/ /\ verdict = "open" /\ verdict' = "open" /\ got' # got /\ sent' = sent
                 /\ \E n \in (Len(got) + 1)..sent : got' = Stream!FirstBytes(n)
<1>1. [Stream!Next]_Stream!vars
  BY StreamStep
<1>2. CASE UNCHANGED Stream!vars
  BY <1>2 DEF Stream!vars
<1>3. CASE Stream!Produce
  BY <1>3 DEF Stream!Produce
<1>4. CASE Stream!End \/ Stream!Fail
  BY <1>4 DEF Stream!End, Stream!Fail
<1>5. CASE Stream!HandOn
  <2>1. PICK n \in (Len(got) + 1)..sent : got' = Stream!FirstBytes(n)
    BY <1>5 DEF Stream!HandOn
  <2>2. verdict = "open" /\ verdict' = "open" /\ sent' = sent
    BY <1>5 DEF Stream!HandOn
  <2> QED  BY <2>1, <2>2
<1> QED  BY <1>1, <1>2, <1>3, <1>4, <1>5 DEF Stream!Next

LEMMA BodyStepInv ==
    ASSUME BodyInv, [BodyNext]_all PROVE BodyInv'
<1>1. CASE UNCHANGED all
  <2>1. UNCHANGED vars /\ UNCHANGED <<text, framing, decoder, frames, got, verdict, sent>>
    BY <1>1 DEF all, vars, body, remote
  <2>2. Inv'
    BY <2>1, NextInv DEF BodyInv
  <2>3. Bytes(got)' = Bytes(got)
    BY <2>1 DEF Bytes
  <2> QED  BY <2>1, <2>2, <2>3 DEF BodyInv
<1>2. CASE BodyNext
  <2> DEFINE t == Bytes(got)
             t1 == Bytes(got)'
  <2>1. Next /\ sent' <= Len(text) /\ Frame
    BY <1>2 DEF BodyNext
  <2>2. Inv /\ Inv' /\ framing \in F!Framings /\ text \in Texts
    BY <2>1, NextInv DEF BodyInv
  <2>3. text' = text /\ framing' = framing
    BY <2>1 DEF Frame
  <2>4. /\ text \in Texts1 /\ Alike(text) /\ Len(text) \in Nat /\ Len(got) \in Nat
        /\ t \in Texts1 /\ Len(t) = Len(got) /\ \A i \in 1..Len(got) : t[i] = text[i]
    BY BytesOfGot
  <2>5. sent \in Nat /\ sent' \in Nat /\ Numbered(got, 0) /\ Len(got) <= sent
    BY <2>2 DEF BodyInv, Inv, Typed
  <2>6. CASE got' = got
    <3>1. t1 = t
      BY <2>3, <2>6 DEF Bytes
    <3>2. Numbered(got', 0) /\ Len(got') <= sent' /\ sent' <= Len(text')
      <4>1. sent' \in {sent, sent + 1}
        BY <2>1, <2>2, ReaderSteps
      <4>2. Numbered(got', 0)
        BY <2>5, <2>6
      <4> QED  BY <2>1, <2>3, <2>4, <2>5, <2>6, <4>1, <4>2
    <3>3. CASE verdict' = "ended" /\ verdict = "open"
      <4>1. Making(framing, t, decoder, frames)
        BY <3>3 DEF BodyInv
      <4>2. frames' = frames \o F!Finish(framing, decoder).frames
        BY <2>1, <2>6, <3>3 DEF Frame
      <4>3. Whole(framing', t1, frames') /\ frames' \in Seq(FrameSet)
        BY <2>2, <2>3, <3>1, <4>1, <4>2, FinishMakes
      <4> QED  BY <2>2, <2>3, <3>2, <3>3, <4>3 DEF BodyInv
    <3>4. CASE ~ (verdict' = "ended" /\ verdict = "open")
      <4>1. decoder' = decoder /\ frames' = frames \o <<>>
        BY <2>1, <2>6, <3>4 DEF Frame
      <4>2. verdict' = verdict \/ (verdict = "open" /\ verdict' # "ended")
        BY <2>1, <2>2, <2>6, <3>4, ReaderSteps
      <4>5. frames \in Seq(FrameSet)
        BY DEF BodyInv
      <4>3. CASE verdict = "ended"
        <5>1. Whole(framing, t, frames) /\ verdict' = "ended"
          BY <4>2, <4>3 DEF BodyInv
        <5>2. frames' = frames
          BY <4>1, <4>5
        <5> QED  BY <2>2, <2>3, <3>1, <3>2, <5>1, <5>2, <4>5 DEF BodyInv
      <4>4. CASE verdict # "ended"
        <5>1. Making(framing, t, decoder, frames) /\ verdict' # "ended"
          BY <4>2, <4>4 DEF BodyInv
        <5>3. frames' = frames
          BY <4>1, <4>5
        <5> QED  BY <2>2, <2>3, <3>1, <3>2, <4>1, <4>5, <5>1, <5>3 DEF BodyInv
      <4> QED  BY <4>3, <4>4
    <3> QED  BY <3>3, <3>4
  <2>7. CASE got' # got
    <3>1. /\ verdict = "open" /\ verdict' = "open" /\ sent' = sent
          /\ \E n \in (Len(got) + 1)..sent : got' = Stream!FirstBytes(n)
      BY <2>1, <2>2, <2>7, ReaderSteps
    <3>2. PICK n \in (Len(got) + 1)..sent : got' = Stream!FirstBytes(n)
      BY <3>1
    <3>3. n \in Nat /\ n <= sent /\ n <= Len(text) /\ Len(got) \in 0..n
      BY <2>1, <2>4, <2>5, <3>1
    <3>4. Numbered(got', 0) /\ Len(got') = n
      BY <3>2, <3>3 DEF Stream!FirstBytes, Numbered
    <3> DEFINE new == F!After(got', Len(got))
               bytes == Bytes(new)
    <3>5. Numbered(new, Len(got)) /\ Len(new) = n - Len(got)
      <4>1. Numbered(SubSeq(got', Len(got) + 1, Len(got')), 0 + Len(got))
            /\ Len(SubSeq(got', Len(got) + 1, Len(got'))) = Len(got') - Len(got)
        BY <3>3, <3>4, Cut
      <4>2. 0 + Len(got) = Len(got)
        BY <2>4
      <4> QED  BY <3>4, <4>1, <4>2 DEF F!After
    <3> HIDE DEF new
    <3>6. bytes \in Texts1 /\ Len(bytes) = n - Len(got) /\ \A i \in 1..(n - Len(got)) : bytes[i] = text[Len(got) + i]
      <4>1. Len(got) + Len(new) <= Len(text)
        BY <2>4, <3>3, <3>5
      <4>2. bytes = Piece(text, new)
        BY DEF Bytes, Piece
      <4> HIDE DEF bytes
      <4>3. /\ Piece(text, new) \in Texts1 /\ Len(Piece(text, new)) = Len(new)
            /\ \A i \in 1..Len(new) : Piece(text, new)[i] = text[Len(got) + i]
        BY <2>4, <3>5, <4>1, PieceOf, Zenon
      <4> QED  BY <3>5, <4>2, <4>3
    <3>7. t1 \in Texts1 /\ Len(t1) = n /\ \A i \in 1..n : t1[i] = text[i]
      <4>1. t1 = Piece(text, got')
        BY <2>3 DEF Bytes, Piece
      <4>2. 0 + Len(got') <= Len(text) /\ \A i \in 1..n : 0 + i = i
        BY <2>4, <3>3, <3>4
      <4> HIDE DEF t1, t
      <4>3. /\ Piece(text, got') \in Texts1 /\ Len(Piece(text, got')) = Len(got')
            /\ \A i \in 1..Len(got') : Piece(text, got')[i] = text[0 + i]
        BY <2>4, <3>4, <4>2, PieceOf
      <4> QED  BY <3>4, <4>1, <4>2, <4>3
    <3> HIDE DEF bytes, t, t1
    <3>8. t1 = t \o bytes
      <4>1. n = Len(t) + Len(bytes) /\ \A i \in 1..Len(t) : i \in 1..n /\ i \in 1..Len(got)
        BY <2>4, <3>3, <3>6
      <4>2. \A i \in 1..Len(bytes) : Len(t) + i \in 1..n /\ i \in 1..(n - Len(got)) /\ Len(t) + i = Len(got) + i
        BY <2>4, <3>3, <3>6
      <4>3. \A i \in 1..Len(t) : t1[i] = t[i]
        BY <2>4, <3>7, <4>1
      <4>4. \A i \in 1..Len(bytes) : t1[Len(t) + i] = bytes[i]
        BY <3>6, <3>7, <4>2
      <4>5. Len(t1) = Len(t) + Len(bytes)
        BY <3>7, <4>1
      <4> QED  BY <2>4, <3>6, <3>7, <4>3, <4>4, <4>5, MadeOfTwo, Zenon
    <3>9. Alike(t1)
      <4>1. n \in 0..Len(text)
        BY <2>4, <3>3
      <4>2. /\ SubSeq(text, 1, n) \in Texts1 /\ Len(SubSeq(text, 1, n)) = n
            /\ \A i \in 1..n : SubSeq(text, 1, n)[i] = text[i]
        BY <2>4, <4>1, Pieces
      <4>3. \A i \in 1..n : t1[i] = SubSeq(text, 1, n)[i]
        BY <3>7, <4>2
      <4>4. t1 = SubSeq(text, 1, n)
        BY <3>7, <4>2, <4>3, SameTexts
      <4> QED  BY <2>4, <4>1, <4>4, PartsAlike
    <3>10. Making(framing, t, decoder, frames)
      BY <3>1 DEF BodyInv, t
    <3>11. decoder' = F!Push(framing, decoder, bytes).decoder
           /\ frames' = frames \o F!Push(framing, decoder, bytes).frames
      BY <2>1, <2>7 DEF Frame, bytes, new
    <3>12. Making(framing', t1, decoder', frames')
      BY <2>2, <2>3, <2>4, <3>6, <3>8, <3>9, <3>10, <3>11, PushMaking
    <3>13. Len(got') <= sent' /\ sent' <= Len(text')
      BY <2>1, <2>3, <3>1, <3>3, <3>4
    <3>14. frames' \in Seq(FrameSet)
      BY <2>2, <2>3, <3>12, MakingType
    <3> QED  BY <2>2, <2>3, <3>1, <3>4, <3>12, <3>13, <3>14 DEF BodyInv, t1
  <2> QED  BY <2>6, <2>7
<1> QED  BY <1>1, <1>2

\* However the bytes of a text are cut into reads, and whatever stalls between them, the
\* frames are those of the text received so far, and at the end of the whole of it: of any
\* text whose lines end alike, in any of the framings.
THEOREM FramesOfAnyText == BodySpec => []FramesAreTheText
<1>1. BodyInit => BodyInv
  BY BodyInitInv
<1>2. BodyInv /\ [BodyNext]_all => BodyInv'
  BY BodyStepInv
<1>3. BodyInv => FramesAreTheText
  BY BodyInvSays
<1> QED  BY <1>1, <1>2, <1>3, PTL DEF BodySpec
==============================================================================
