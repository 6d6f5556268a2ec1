--------------------------- MODULE FileReplaceProof ---------------------------
(***************************************************************************)
(* If no two writers share a temp name, a reader never gets a part of a    *)
(* payload or a mixture of two, and a power loss leaves a whole one: for   *)
(* any processes, names, payloads and inodes.                              *)
(*                                                                         *)
(* The argument is ownership.  An inode that is being written is reachable *)
(* only through its writer's temp name (PutsAreApart), an inode left       *)
(* behind by a put only through one temp name (OrphansAreApart), so what a *)
(* published or an opened inode holds does not change any more.            *)
(***************************************************************************)
EXTENDS FileReplace, TLAPS

NoSharing == \A p, q \in Writers : TempOf[p] = TempOf[q] => p = q

Published == {file, on_disk} \cup {reading[p] : p \in Procs}

OrphansAreApart ==
    \A n \in Names : temp[n] # None =>
        /\ temp[n] \notin Published
        /\ \A m \in Names \ {n} : temp[m] # temp[n]

OpenedAreWhole == \A p \in Procs : reading[p] # None => data[reading[p]] \in Values

Inv ==
    /\ TypeOK
    /\ PutsAreApart
    /\ OrphansAreApart
    /\ DurableIsWhole
    /\ OpenedAreWhole
    /\ ReadsAreWhole

LEMMA InitInv == Init => Inv
  BY ReplaceAssumption, PayloadAssumption
     DEF Init, Inv, TypeOK, PutsAreApart, OrphansAreApart, DurableIsWhole, OpenedAreWhole,
         ReadsAreWhole, Published

LEMMA CreateInv ==
  ASSUME NoSharing, Inv, NEW p \in Writers, Create(p)
  PROVE  Inv'
<1> USE ReplaceAssumption, PayloadAssumption DEF Inv
<1>0. PICK i \in IF temp[TempOf[p]] = None THEN Free ELSE {temp[TempOf[p]]}, v \in Values :
         /\ fd' = [fd EXCEPT ![p] = i] /\ payload' = [payload EXCEPT ![p] = v]
         /\ temp' = [temp EXCEPT ![TempOf[p]] = i]
         /\ data' = [data EXCEPT ![i] = Empty]
         /\ synced' = synced \ {i}
  BY DEF Create
<1>1. /\ i \in Inodes /\ v \in Values
      /\ i \in IF temp[TempOf[p]] = None THEN Free ELSE {temp[TempOf[p]]}
      /\ fd' = [fd EXCEPT ![p] = i] /\ payload' = [payload EXCEPT ![p] = v]
      /\ temp' = [temp EXCEPT ![TempOf[p]] = i]
      /\ data' = [data EXCEPT ![i] = Empty]
      /\ synced' = synced \ {i}
  BY <1>0 DEF TypeOK, Free
<1>2. /\ pc[p] = "idle"
      /\ pc' = [pc EXCEPT ![p] = "opened"] /\ outcome' = [outcome EXCEPT ![p] = "pending"]
      /\ UNCHANGED <<file, on_disk, reading, seen, stale>>
  BY DEF Create, Idle
<1>3. TempOf[p] \in Names /\ i # None
  BY <1>1
<1>4. /\ i \notin Published
      /\ \A q \in Writers : fd[q] # i
      /\ \A n \in Names \ {TempOf[p]} : temp[n] # i
  <2>1. CASE temp[TempOf[p]] = None
    BY <1>1, <1>3, <2>1 DEF Free, Published
  <2>2. CASE temp[TempOf[p]] # None
    <3>1. i = temp[TempOf[p]]
      BY <1>1, <2>2
    <3>2. i \notin Published /\ \A n \in Names \ {TempOf[p]} : temp[n] # i
      BY <1>3, <2>2, <3>1 DEF OrphansAreApart
    <3>3. ASSUME NEW q \in Writers, fd[q] = i PROVE FALSE
      <4>1. pc[q] # "idle"
        BY <1>3, <3>3 DEF TypeOK
      <4>2. q # p
        BY <1>2, <4>1
      <4>3. TempOf[p] # TempOf[q]
        BY <4>2 DEF NoSharing
      <4> QED BY <1>3, <3>1, <3>3, <4>1, <4>3 DEF PutsAreApart
    <3> QED BY <3>2, <3>3
  <2> QED BY <2>1, <2>2
<1>5. TypeOK'
  BY <1>1, <1>2, <1>3 DEF TypeOK
<1>6. PutsAreApart'
  <2> SUFFICES ASSUME NEW q \in Writers, pc'[q] # "idle"
               PROVE  /\ fd'[q] \notin {file', on_disk'} \cup {reading'[r] : r \in Procs}
                            \cup {fd'[r] : r \in Writers \ {q}}
                            \cup {temp'[n] : n \in Names \ {TempOf[q]}}
                      /\ temp'[TempOf[q]] \in {fd'[q], None}
                      /\ data'[fd'[q]] = IF pc'[q] = "opened" THEN Empty ELSE payload'[q]
                      /\ pc'[q] = "synced" => fd'[q] \in synced'
    BY DEF PutsAreApart
  <2>1. CASE q = p
    BY <1>1, <1>2, <1>3, <1>4, <2>1 DEF TypeOK, Published
  <2>2. CASE q # p
    <3>1. pc[q] # "idle" /\ fd'[q] = fd[q] /\ fd[q] # i /\ TempOf[q] # TempOf[p]
      BY <1>1, <1>2, <1>4, <2>2 DEF TypeOK, NoSharing
    <3>2. fd[q] \in Inodes
      BY <3>1 DEF TypeOK
    <3> QED BY <1>1, <1>2, <1>3, <1>4, <3>1, <3>2 DEF PutsAreApart, TypeOK
  <2> QED BY <2>1, <2>2
<1>7. OrphansAreApart'
  BY <1>1, <1>2, <1>3, <1>4 DEF OrphansAreApart, Published, TypeOK
<1>8. DurableIsWhole' /\ OpenedAreWhole' /\ ReadsAreWhole'
  BY <1>1, <1>2, <1>4 DEF DurableIsWhole, OpenedAreWhole, ReadsAreWhole, Published, TypeOK
<1> QED BY <1>5, <1>6, <1>7, <1>8

\* What a step of the writer p on its own inode leaves alone.
LEMMA WriteAllInv ==
  ASSUME Inv, NEW p \in Writers, WriteAll(p)
  PROVE  Inv'
<1> USE ReplaceAssumption, PayloadAssumption DEF Inv
<1>1. /\ pc[p] = "opened" /\ fd[p] \in Inodes /\ payload[p] \in Values
      /\ data[fd[p]] = Empty
      /\ fd[p] \notin Published
  BY DEF WriteAll, TypeOK, PutsAreApart, Published
<1>2. /\ data' = [data EXCEPT ![fd[p]] = payload[p]]
      /\ synced' = synced \ {fd[p]}
      /\ pc' = [pc EXCEPT ![p] = "written"]
      /\ UNCHANGED <<file, temp, on_disk, fd, payload, outcome, reading, seen, stale>>
  BY <1>1 DEF WriteAll, Over
<1>3. TypeOK'
  BY <1>1, <1>2 DEF TypeOK
<1>4. PutsAreApart'
  BY <1>1, <1>2 DEF PutsAreApart, TypeOK
<1>5. OrphansAreApart'
  BY <1>2 DEF OrphansAreApart, Published
<1>6. DurableIsWhole' /\ OpenedAreWhole' /\ ReadsAreWhole'
  BY <1>1, <1>2 DEF DurableIsWhole, OpenedAreWhole, ReadsAreWhole, Published, TypeOK
<1> QED BY <1>3, <1>4, <1>5, <1>6

LEMMA SyncInv ==
  ASSUME Inv, NEW p \in Writers, Sync(p)
  PROVE  Inv'
<1> USE ReplaceAssumption, PayloadAssumption DEF Inv
<1>1. TypeOK'
  BY DEF Sync, TypeOK
<1>2. PutsAreApart'
  BY DEF Sync, PutsAreApart, TypeOK
<1>3. OrphansAreApart' /\ DurableIsWhole' /\ OpenedAreWhole' /\ ReadsAreWhole'
  BY DEF Sync, OrphansAreApart, Published, DurableIsWhole, OpenedAreWhole, ReadsAreWhole
<1> QED BY <1>1, <1>2, <1>3

LEMMA RenameInv ==
  ASSUME Inv, NEW p \in Writers, Rename(p)
  PROVE  Inv'
<1> USE ReplaceAssumption, PayloadAssumption DEF Inv
<1> DEFINE i == temp[TempOf[p]]
<1>0. TempOf[p] \in Names /\ pc[p] = "synced"
  BY DEF Rename
<1>1. CASE i = None
  <2>1. TypeOK'
    BY <1>0, <1>1 DEF Rename, Ends, store, TypeOK
  <2>2. PutsAreApart'
    BY <1>0, <1>1 DEF Rename, Ends, store, TypeOK, PutsAreApart
  <2>3. OrphansAreApart' /\ DurableIsWhole' /\ OpenedAreWhole' /\ ReadsAreWhole'
    BY <1>0, <1>1 DEF Rename, store, OrphansAreApart, Published, DurableIsWhole,
       OpenedAreWhole, ReadsAreWhole
  <2> QED BY <2>1, <2>2, <2>3
<1>2. CASE i # None
  <2>1. /\ file' = i /\ temp' = [temp EXCEPT ![TempOf[p]] = None]
        /\ UNCHANGED <<data, synced, on_disk, reading, seen, stale>>
        /\ Ends(p, "ok")
    BY <1>2 DEF Rename
  <2>2. i = fd[p] /\ i \in synced /\ data[i] = payload[p] /\ payload[p] \in Values /\ i \in Inodes
    BY <1>0, <1>2 DEF PutsAreApart, TypeOK
  <2>3. TypeOK'
    BY <1>0, <2>1, <2>2 DEF Ends, TypeOK
  <2>4. PutsAreApart'
    BY <1>0, <2>1, <2>2 DEF Ends, TypeOK, PutsAreApart
  <2>5. OrphansAreApart'
    BY <1>0, <1>2, <2>1 DEF OrphansAreApart, Published, TypeOK
  <2>6. DurableIsWhole' /\ OpenedAreWhole' /\ ReadsAreWhole'
    BY <2>1, <2>2 DEF DurableIsWhole, OpenedAreWhole, ReadsAreWhole
  <2> QED BY <2>3, <2>4, <2>5, <2>6
<1> QED BY <1>1, <1>2

LEMMA AbandonInv ==
  ASSUME Inv, NEW p \in Writers, Abandon(p)
  PROVE  Inv'
<1> USE ReplaceAssumption, PayloadAssumption DEF Inv
<1>1. /\ pc[p] # "idle" /\ fd[p] \in Inodes /\ fd[p] \notin Published
      /\ \A q \in Writers \ {p} : fd[q] # fd[p]
  BY DEF Abandon, TypeOK, PutsAreApart, Published
<1>2. /\ data' = data \/ data' = [data EXCEPT ![fd[p]] = Torn]
      /\ UNCHANGED <<file, temp, synced, on_disk, reading, seen, stale>>
  BY DEF Abandon
<1>3. /\ pc' = [pc EXCEPT ![p] = "idle"] /\ fd' = [fd EXCEPT ![p] = None]
      /\ payload' = [payload EXCEPT ![p] = None]
      /\ \E result \in {"error", "died"} : outcome' = [outcome EXCEPT ![p] = result]
  BY DEF Abandon, Ends
<1>4. TypeOK'
  BY <1>1, <1>2, <1>3 DEF TypeOK
<1>5. PutsAreApart'
  BY <1>1, <1>2, <1>3 DEF PutsAreApart, TypeOK
<1>6. OrphansAreApart'
  BY <1>2 DEF OrphansAreApart, Published
<1>7. DurableIsWhole' /\ OpenedAreWhole' /\ ReadsAreWhole'
  BY <1>1, <1>2 DEF DurableIsWhole, OpenedAreWhole, ReadsAreWhole, Published, TypeOK
<1> QED BY <1>4, <1>5, <1>6, <1>7

LEMMA ReaderInv ==
  ASSUME Inv, NEW p \in Procs, OpenRead(p) \/ Read(p)
  PROVE  Inv'
<1> USE ReplaceAssumption, PayloadAssumption DEF Inv, store, put
<1>1. CASE OpenRead(p)
  <2>1. TypeOK'
    BY <1>1 DEF OpenRead, TypeOK
  <2>2. PutsAreApart'
    BY <1>1 DEF OpenRead, PutsAreApart, TypeOK
  <2>3. OrphansAreApart'
    BY <1>1 DEF OpenRead, OrphansAreApart, Published, TypeOK
  <2>4. DurableIsWhole' /\ OpenedAreWhole' /\ ReadsAreWhole'
    BY <1>1 DEF OpenRead, DurableIsWhole, OpenedAreWhole, ReadsAreWhole, TypeOK
  <2> QED BY <2>1, <2>2, <2>3, <2>4
<1>2. CASE Read(p)
  <2>1. TypeOK'
    BY <1>2 DEF Read, TypeOK
  <2>2. PutsAreApart'
    BY <1>2 DEF Read, PutsAreApart, TypeOK
  <2>3. OrphansAreApart'
    BY <1>2 DEF Read, OrphansAreApart, Published, TypeOK
  <2>4. DurableIsWhole' /\ OpenedAreWhole' /\ ReadsAreWhole'
    BY <1>2 DEF Read, DurableIsWhole, OpenedAreWhole, ReadsAreWhole, TypeOK
  <2> QED BY <2>1, <2>2, <2>3, <2>4
<1> QED BY <1>1, <1>2

LEMMA PruneInv ==
  ASSUME Inv, NEW p \in Procs, FindStale(p) \/ Unlink(p)
  PROVE  Inv'
<1> USE ReplaceAssumption, PayloadAssumption DEF Inv, store, put
<1>1. CASE FindStale(p)
  <2>1. TypeOK'
    BY <1>1 DEF FindStale, TypeOK
  <2> QED BY <1>1, <2>1 DEF FindStale, PutsAreApart, OrphansAreApart, Published, DurableIsWhole,
             OpenedAreWhole, ReadsAreWhole
<1>2. CASE Unlink(p)
  <2>1. TypeOK'
    BY <1>2 DEF Unlink, TypeOK
  <2>2. PutsAreApart'
    BY <1>2 DEF Unlink, PutsAreApart, TypeOK
  <2>3. OrphansAreApart'
    BY <1>2 DEF Unlink, OrphansAreApart, Published, TypeOK
  <2>4. DurableIsWhole' /\ OpenedAreWhole' /\ ReadsAreWhole'
    BY <1>2 DEF Unlink, DurableIsWhole, OpenedAreWhole, ReadsAreWhole
  <2> QED BY <2>1, <2>2, <2>3, <2>4
<1> QED BY <1>1, <1>2

LEMMA SystemInv ==
  ASSUME Inv, Flush \/ PowerLoss
  PROVE  Inv'
<1> USE ReplaceAssumption, PayloadAssumption DEF Inv, put
<1>1. CASE Flush
  <2>1. TypeOK'
    BY <1>1 DEF Flush, TypeOK
  <2>2. PutsAreApart'
    BY <1>1 DEF Flush, PutsAreApart, TypeOK
  <2>3. OrphansAreApart'
    BY <1>1 DEF Flush, OrphansAreApart, Published
  <2>4. DurableIsWhole' /\ OpenedAreWhole' /\ ReadsAreWhole'
    BY <1>1 DEF Flush, DurableIsWhole, OpenedAreWhole, ReadsAreWhole
  <2> QED BY <2>1, <2>2, <2>3, <2>4
<1>2. CASE PowerLoss
  <2>1. TypeOK'
    BY <1>2 DEF PowerLoss, TypeOK
  <2>2. PutsAreApart'
    BY <1>2 DEF PowerLoss, PutsAreApart
  <2>3. OrphansAreApart'
    BY <1>2 DEF PowerLoss, OrphansAreApart, Published
  <2>4. DurableIsWhole' /\ OpenedAreWhole' /\ ReadsAreWhole'
    BY <1>2 DEF PowerLoss, DurableIsWhole, OpenedAreWhole, ReadsAreWhole, TypeOK
  <2> QED BY <2>1, <2>2, <2>3, <2>4
<1> QED BY <1>1, <1>2

LEMMA NextInv == ASSUME NoSharing, Inv, [Next]_vars PROVE Inv'
<1>1. CASE UNCHANGED vars
  BY <1>1 DEF vars, store, put, Inv, TypeOK, PutsAreApart, OrphansAreApart, Published,
     DurableIsWhole, OpenedAreWhole, ReadsAreWhole
<1>2. CASE \E p \in Writers : Create(p) \/ WriteAll(p) \/ Sync(p) \/ Rename(p) \/ Abandon(p)
  BY <1>2, CreateInv, WriteAllInv, SyncInv, RenameInv, AbandonInv
<1>3. CASE \E p \in Procs : OpenRead(p) \/ Read(p) \/ FindStale(p) \/ Unlink(p)
  BY <1>3, ReaderInv, PruneInv
<1>4. CASE Flush \/ PowerLoss
  BY <1>4, SystemInv
<1> QED BY <1>1, <1>2, <1>3, <1>4 DEF Next

\* Whoever reads a stored file gets a whole payload or none (creds.rs and cache.rs,
\* "the whole old or whole new file"), if no two writers share a temp name.
THEOREM ReadersSeeWholeFiles == NoSharing => (Spec => []ReadsAreWhole)
<1> SUFFICES ASSUME NoSharing PROVE Spec => []ReadsAreWhole
  OBVIOUS
<1>1. Init => Inv
  BY InitInv
<1>2. Inv /\ [Next]_vars => Inv'
  BY NextInv
<1>3. Inv => ReadsAreWhole
  BY DEF Inv
<1> QED BY <1>1, <1>2, <1>3, PTL DEF Spec

\* A power loss leaves a whole payload or none under the final name, on the same
\* condition: the sync before the rename is what this rests on.
THEOREM PowerLossLeavesWholeFiles == NoSharing => (Spec => []DurableIsWhole)
<1> SUFFICES ASSUME NoSharing PROVE Spec => []DurableIsWhole
  OBVIOUS
<1>1. Init => Inv
  BY InitInv
<1>2. Inv /\ [Next]_vars => Inv'
  BY NextInv
<1>3. Inv => DurableIsWhole
  BY DEF Inv
<1> QED BY <1>1, <1>2, <1>3, PTL DEF Spec

(***************************************************************************)
(* Refinement: each step is a step of AtomicFile or a stutter.             *)
(***************************************************************************)
LEMMA InitAbstract == Init => Abstract!Init
  BY ReplaceAssumption DEF Init, Abstract!Init, Held

\* What AtomicFile sees.
Puts == [q \in Procs |-> IF q \in Writers THEN payload[q] ELSE None]
Picks == [q \in Procs |-> IF reading[q] = None THEN Closed ELSE data[reading[q]]]

LEMMA CreateAbstract ==
  ASSUME NoSharing, Inv, NEW p \in Writers, Create(p)
  PROVE  \E v \in Values : Abstract!Begin(p, v)
<1> USE ReplaceAssumption, PayloadAssumption
<1>1. PICK i \in IF temp[TempOf[p]] = None THEN Free ELSE {temp[TempOf[p]]}, v \in Values :
         /\ fd' = [fd EXCEPT ![p] = i] /\ payload' = [payload EXCEPT ![p] = v]
         /\ temp' = [temp EXCEPT ![TempOf[p]] = i]
         /\ data' = [data EXCEPT ![i] = Empty]
         /\ synced' = synced \ {i}
  BY DEF Create
<1>2. /\ outcome' = [outcome EXCEPT ![p] = "pending"] /\ pc[p] = "idle"
      /\ UNCHANGED <<file, on_disk, reading, seen, stale>>
  BY DEF Create, Idle
<1>3. i \in Inodes /\ i \notin Published
  BY <1>1 DEF Inv, TypeOK, Free, Published, OrphansAreApart
<1>4. Held(file)' = Held(file) /\ Held(on_disk)' = Held(on_disk)
  BY <1>1, <1>2, <1>3 DEF Held, Published, Inv, TypeOK
<1>5. Picks' = Picks
  BY <1>1, <1>2, <1>3 DEF Inv, TypeOK, Published, Picks
<1>6. Puts' = [Puts EXCEPT ![p] = v] /\ Puts[p] = None
  BY <1>1, <1>2 DEF Inv, TypeOK, Puts
<1> QED BY <1>1, <1>2, <1>4, <1>5, <1>6 DEF Abstract!Begin, Puts, Picks

\* A write and a sync are not seen.
LEMMA WriteAbstract ==
  ASSUME Inv, NEW p \in Writers, WriteAll(p) \/ Sync(p)
  PROVE  UNCHANGED Abstract!vars
<1> USE ReplaceAssumption, PayloadAssumption
<1>1. /\ pc[p] # "idle" /\ fd[p] \in Inodes /\ fd[p] \notin Published
      /\ \A i \in Inodes \ {fd[p]} : data'[i] = data[i]
      /\ UNCHANGED <<file, on_disk, payload, outcome, reading, seen>>
  BY DEF Inv, TypeOK, PutsAreApart, Published, WriteAll, Sync
<1>2. Held(file)' = Held(file) /\ Held(on_disk)' = Held(on_disk)
  BY <1>1 DEF Held, Published, Inv, TypeOK
<1>3. Picks' = Picks /\ Puts' = Puts
  BY <1>1 DEF Inv, TypeOK, Published, Picks, Puts
<1> QED BY <1>1, <1>2, <1>3 DEF Abstract!vars, Puts, Picks

LEMMA RenameAbstract ==
  ASSUME Inv, NEW p \in Writers, Rename(p)
  PROVE  Abstract!Store(p) \/ Abstract!Fail(p)
<1> USE ReplaceAssumption, PayloadAssumption
<1>1. /\ pc[p] = "synced" /\ payload[p] \in Values
      /\ payload' = [payload EXCEPT ![p] = None]
      /\ UNCHANGED <<data, on_disk, reading, seen>>
  BY DEF Rename, Ends, Inv, TypeOK, store
<1>2. Puts' = [Puts EXCEPT ![p] = None] /\ Puts[p] = payload[p] /\ Puts[p] # None
  BY <1>1 DEF Puts, Inv, TypeOK
<1>3. Picks' = Picks /\ Held(on_disk)' = Held(on_disk)
  BY <1>1 DEF Picks, Held
<1>4. CASE temp[TempOf[p]] = None
  <2>1. Held(file)' = Held(file) /\ outcome' = [outcome EXCEPT ![p] = "error"]
    BY <1>1, <1>4 DEF Rename, Ends, Held, store
  <2> QED BY <1>1, <1>2, <1>3, <2>1 DEF Abstract!Fail, Puts, Picks
<1>5. CASE temp[TempOf[p]] # None
  <2>1. file' = temp[TempOf[p]] /\ outcome' = [outcome EXCEPT ![p] = "ok"]
    BY <1>5 DEF Rename, Ends
  <2>2. temp[TempOf[p]] = fd[p] /\ data[fd[p]] = payload[p]
    BY <1>1, <1>5 DEF Inv, PutsAreApart
  <2>3. Held(file)' = Puts[p]
    BY <1>1, <1>2, <1>5, <2>1, <2>2 DEF Held
  <2> QED BY <1>1, <1>2, <1>3, <2>1, <2>3 DEF Abstract!Store, Puts, Picks
<1> QED BY <1>4, <1>5

LEMMA AbandonAbstract ==
  ASSUME Inv, NEW p \in Writers, Abandon(p)
  PROVE  Abstract!Fail(p)
<1> USE ReplaceAssumption, PayloadAssumption
<1>1. /\ pc[p] # "idle" /\ fd[p] \in Inodes /\ fd[p] \notin Published
      /\ \A i \in Inodes \ {fd[p]} : data'[i] = data[i]
      /\ payload[p] \in Values /\ payload' = [payload EXCEPT ![p] = None]
      /\ UNCHANGED <<file, on_disk, reading, seen>>
      /\ \E result \in {"error", "died"} : outcome' = [outcome EXCEPT ![p] = result]
  <2>1. pc[p] # "idle" /\ fd[p] \in Inodes /\ fd[p] \notin Published /\ payload[p] \in Values
    BY DEF Inv, TypeOK, PutsAreApart, Published, Abandon
  <2>2. \A i \in Inodes \ {fd[p]} : data'[i] = data[i]
    BY DEF Abandon, Inv, TypeOK
  <2> QED BY <2>1, <2>2 DEF Abandon, Ends
<1>2. Held(file)' = Held(file) /\ Held(on_disk)' = Held(on_disk)
  BY <1>1 DEF Held, Published, Inv, TypeOK
<1>3. Picks' = Picks
  BY <1>1 DEF Inv, TypeOK, Published, Picks
<1>4. Puts' = [Puts EXCEPT ![p] = None] /\ Puts[p] # None
  BY <1>1 DEF Puts, Inv, TypeOK
<1> QED BY <1>1, <1>2, <1>3, <1>4 DEF Abstract!Fail, Puts, Picks

LEMMA ReaderAbstract ==
  ASSUME Inv, NEW p \in Procs, OpenRead(p) \/ Read(p)
  PROVE  Abstract!Open(p) \/ Abstract!Return(p) \/ Abstract!Miss(p)
<1> USE ReplaceAssumption, PayloadAssumption DEF put, store
<1>1. Puts' = Puts /\ Held(file)' = Held(file) /\ Held(on_disk)' = Held(on_disk)
      /\ UNCHANGED outcome
  BY DEF OpenRead, Read, Puts, Held
<1>2. CASE OpenRead(p) /\ file = None
  <2>1. Picks[p] = Closed /\ Picks' = Picks /\ Held(file) = None /\ seen' = [seen EXCEPT ![p] = None]
    BY <1>2 DEF OpenRead, Idle, Picks, Held
  <2> QED BY <1>1, <2>1 DEF Abstract!Miss, Puts, Picks
<1>3. CASE OpenRead(p) /\ file # None
  <2>1. reading[p] = None /\ reading' = [reading EXCEPT ![p] = file] /\ UNCHANGED <<seen, data>>
    BY <1>3 DEF OpenRead, Idle
  <2>2. Picks[p] = Closed /\ Held(file) = data[file]
    BY <1>3, <2>1 DEF Picks, Held
  <2>3. Picks' = [Picks EXCEPT ![p] = Held(file)]
    BY <1>3, <2>1, <2>2 DEF Picks, Inv, TypeOK
  <2> QED BY <1>1, <2>1, <2>2, <2>3 DEF Abstract!Open, Puts, Picks
<1>4. CASE Read(p)
  <2>1. Picks[p] # Closed
    BY <1>4 DEF Read, Picks, Inv, OpenedAreWhole
  <2>2. seen' = [seen EXCEPT ![p] = Picks[p]] /\ Picks' = [Picks EXCEPT ![p] = Closed]
    BY <1>4 DEF Read, Picks, Inv, TypeOK
  <2> QED BY <1>1, <2>1, <2>2 DEF Abstract!Return, Puts, Picks
<1> QED BY <1>2, <1>3, <1>4

LEMMA PruneAbstract ==
  ASSUME Inv, NEW p \in Procs, FindStale(p) \/ Unlink(p)
  PROVE  Abstract!Evict \/ UNCHANGED Abstract!vars
<1> USE DEF put, store
<1>1. Puts' = Puts /\ Picks' = Picks /\ Held(on_disk)' = Held(on_disk) /\ UNCHANGED <<outcome, seen>>
  BY DEF FindStale, Unlink, Puts, Picks, Held
<1>2. Held(file)' = Held(file) \/ Held(file)' = None
  BY DEF FindStale, Unlink, Held
<1> QED BY <1>1, <1>2 DEF Abstract!Evict, Abstract!vars, Puts, Picks

LEMMA SystemAbstract ==
  ASSUME Inv, Flush \/ PowerLoss
  PROVE  Abstract!Flush \/ Abstract!PowerLoss
<1> USE DEF put
<1>1. CASE Flush
  <2>1. Puts' = Puts /\ Picks' = Picks /\ Held(on_disk)' = Held(file) /\ Held(file)' = Held(file)
        /\ UNCHANGED <<outcome, seen>>
    BY <1>1 DEF Flush, Puts, Picks, Held
  <2> QED BY <2>1 DEF Abstract!Flush, Puts, Picks
<1>2. CASE PowerLoss
  <2>1. Held(file)' \in {Held(file), Held(on_disk)} /\ Held(on_disk)' = Held(file)'
    BY <1>2 DEF PowerLoss, Held, Inv, TypeOK, DurableIsWhole
  <2>2. Puts' = [q \in Procs |-> None] /\ Picks' = [q \in Procs |-> Closed] /\ UNCHANGED seen
    BY <1>2 DEF PowerLoss, Puts, Picks
  <2>3. \A q \in Procs : outcome[q] = "pending" <=> Puts[q] # None
    BY DEF Inv, TypeOK, Puts
  <2>4. outcome' = [q \in Procs |-> IF Puts[q] = None THEN outcome[q] ELSE "died"]
    BY <1>2, <2>3 DEF PowerLoss
  <2> QED BY <2>1, <2>2, <2>4 DEF Abstract!PowerLoss, Puts, Picks
<1> QED BY <1>1, <1>2

LEMMA NextAbstract ==
  ASSUME NoSharing, Inv, [Next]_vars
  PROVE  [Abstract!Next]_(Abstract!vars)
<1>1. CASE UNCHANGED vars
  BY <1>1 DEF vars, store, put, Abstract!vars, Held
<1>2. CASE \E p \in Writers : Create(p) \/ WriteAll(p) \/ Sync(p) \/ Rename(p) \/ Abandon(p)
  BY <1>2, CreateAbstract, WriteAbstract, RenameAbstract, AbandonAbstract, ReplaceAssumption
     DEF Abstract!Next
<1>3. CASE \E p \in Procs : OpenRead(p) \/ Read(p) \/ FindStale(p) \/ Unlink(p)
  BY <1>3, ReaderAbstract, PruneAbstract DEF Abstract!Next
<1>4. CASE Flush \/ PowerLoss
  BY <1>4, SystemAbstract DEF Abstract!Next
<1> QED BY <1>1, <1>2, <1>3, <1>4 DEF Next

\* If no two writers share a temp name, the stores' protocol is an atomic file.
THEOREM ReplaceIsAtomic == NoSharing => (Spec => IsAtomic)
<1> SUFFICES ASSUME NoSharing PROVE Spec => IsAtomic
  OBVIOUS
<1>1. Init => Inv
  BY InitInv
<1>2. Inv /\ [Next]_vars => Inv'
  BY NextInv
<1>3. Init => Abstract!Init
  BY InitAbstract
<1>4. Inv /\ [Next]_vars => [Abstract!Next]_(Abstract!vars)
  BY NextAbstract
<1> QED BY <1>1, <1>2, <1>3, <1>4, PTL DEF Spec, IsAtomic, Abstract!Spec
==============================================================================
