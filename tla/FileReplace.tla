----------------------------- MODULE FileReplace -----------------------------
(***************************************************************************)
(* How the stores replace a file: create a temp file beside it, write,     *)
(* sync, rename (native/creds.rs, native/cache.rs, store/replay.rs), with  *)
(* several processes, processes that die, writes that fail and power       *)
(* losses.  One final name is modelled; the stores use one per key and     *)
(* share nothing between keys.                                             *)
(*                                                                         *)
(* The stores differ in the temp name.  XdgCredStore and XdgModelCache     *)
(* derive it from the provider alone, so all processes share it; the       *)
(* replay stash adds the process and a nonce.  TempOf says which.          *)
(*                                                                         *)
(* A name refers to an inode and an open file to an inode, as the OS has   *)
(* it: opening an existing temp file truncates the inode whoever else has  *)
(* it open, and a rename publishes whatever inode the name refers to.      *)
(***************************************************************************)
CONSTANTS
    Procs,     \* the processes
    Writers,   \* those of them that put
    Names,     \* the temp names
    TempOf,    \* the temp name each writer uses
    Values,    \* payloads, all of the same document
    Inodes,    \* bound: the inodes of the file system
    None,      \* no inode
    Evicts     \* the store prunes what is older than its horizon

ASSUME ReplaceAssumption ==
    /\ Writers \subseteq Procs
    /\ TempOf \in [Writers -> Names]
    /\ None \notin Inodes
    /\ Evicts \in BOOLEAN

\* What an inode may hold besides a payload: nothing yet, or a mixture no reader
\* can parse.
Empty == "empty"
Torn == "torn"

\* What a process that has no file open is said to have picked (see AtomicFile).
Closed == "closed"

ASSUME PayloadAssumption == {Empty, Torn, Closed, None} \cap Values = {}

VARIABLES
    file,      \* the inode under the final name, or None
    temp,      \* the inode under each temp name, or None
    data,      \* what each inode holds
    synced,    \* the inodes whose contents are on disk
    on_disk,   \* the inode the final name has on disk
    pc,        \* per writer: how far its put has come
    fd,        \* per writer: the inode it has open
    payload,   \* per writer: the payload it is putting
    outcome,   \* per process: how its last put ended
    reading,   \* per process: the inode it has open for reading, or None
    seen,      \* per process: what its last read returned
    stale      \* per process: the name prune has found stale, or None

store == <<file, temp, data, synced, on_disk>>
put == <<pc, fd, payload, outcome>>
vars == <<store, put, reading, seen, stale>>

Init ==
    /\ file = None /\ on_disk = None
    /\ temp = [n \in Names |-> None]
    /\ data = [i \in Inodes |-> Empty]
    /\ synced = {}
    /\ pc = [p \in Writers |-> "idle"]
    /\ fd = [p \in Writers |-> None]
    /\ payload = [p \in Writers |-> None]
    /\ outcome = [p \in Procs |-> "none"]
    /\ reading = [p \in Procs |-> None]
    /\ seen = [p \in Procs |-> None]
    /\ stale = [p \in Procs |-> None]

\* An inode nothing refers to.
Free ==
    Inodes \ ({file, on_disk} \cup {temp[n] : n \in Names} \cup {fd[p] : p \in Writers}
              \cup {reading[p] : p \in Procs})

\* A process does one thing at a time.
Idle(p) == /\ p \in Writers => pc[p] = "idle"
           /\ reading[p] = None /\ stale[p] = None

\* The put of p is over.
Ends(p, result) ==
    /\ pc' = [pc EXCEPT ![p] = "idle"]
    /\ fd' = [fd EXCEPT ![p] = None]
    /\ payload' = [payload EXCEPT ![p] = None]
    /\ outcome' = [outcome EXCEPT ![p] = result]

(***************************************************************************)
(* put.                                                                    *)
(***************************************************************************)
\* Mutant: an orphaned temp file is written over, not truncated.
CreateOver(p) ==
    /\ Idle(p)
    /\ \E i \in IF temp[TempOf[p]] = None THEN Free ELSE {temp[TempOf[p]]}, v \in Values :
          /\ fd' = [fd EXCEPT ![p] = i] /\ payload' = [payload EXCEPT ![p] = v]
          /\ temp' = [temp EXCEPT ![TempOf[p]] = i]
          /\ data' = [data EXCEPT ![i] = IF temp[TempOf[p]] = None THEN Empty ELSE @]
          /\ synced' = synced \ {i}
    /\ pc' = [pc EXCEPT ![p] = "opened"] /\ outcome' = [outcome EXCEPT ![p] = "pending"]
    /\ UNCHANGED <<file, on_disk, reading, seen, stale>>

\* open(create, truncate): the inode under the temp name, or a new one, emptied.
Create(p) ==
    /\ Idle(p)
    /\ \E i \in IF temp[TempOf[p]] = None THEN Free ELSE {temp[TempOf[p]]}, v \in Values :
          /\ fd' = [fd EXCEPT ![p] = i] /\ payload' = [payload EXCEPT ![p] = v]
          /\ temp' = [temp EXCEPT ![TempOf[p]] = i]
          /\ data' = [data EXCEPT ![i] = Empty]
          /\ synced' = synced \ {i}
    /\ pc' = [pc EXCEPT ![p] = "opened"] /\ outcome' = [outcome EXCEPT ![p] = "pending"]
    /\ UNCHANGED <<file, on_disk, reading, seen, stale>>

\* What writing v from the start leaves of what was there: v alone, unless something
\* longer was there, whose tail then remains.
Over(old, v) == IF old \in {Empty, v} THEN {v} ELSE {v, Torn}

WriteAll(p) ==
    /\ pc[p] = "opened"
    /\ \E d \in Over(data[fd[p]], payload[p]) : data' = [data EXCEPT ![fd[p]] = d]
    /\ synced' = synced \ {fd[p]}
    /\ pc' = [pc EXCEPT ![p] = "written"]
    /\ UNCHANGED <<file, temp, on_disk, fd, payload, outcome, reading, seen, stale>>

\* Mutant: the sync is skipped.
SyncSkipped(p) ==
    /\ pc[p] = "written"
    /\ pc' = [pc EXCEPT ![p] = "synced"]
    /\ UNCHANGED <<store, fd, payload, outcome, reading, seen, stale>>

Sync(p) ==
    /\ pc[p] = "written"
    /\ synced' = synced \cup {fd[p]}
    /\ pc' = [pc EXCEPT ![p] = "synced"]
    /\ UNCHANGED <<file, temp, data, on_disk, fd, payload, outcome, reading, seen, stale>>

\* Mutant: the outcome of the rename is not looked at.
RenameUnchecked(p) ==
    /\ pc[p] = "synced"
    /\ IF temp[TempOf[p]] = None THEN UNCHANGED store
       ELSE /\ file' = temp[TempOf[p]]
            /\ temp' = [temp EXCEPT ![TempOf[p]] = None]
            /\ UNCHANGED <<data, synced, on_disk>>
    /\ Ends(p, "ok")
    /\ UNCHANGED <<reading, seen, stale>>

\* The rename publishes what the temp name refers to; it fails if that is gone.
Rename(p) ==
    /\ pc[p] = "synced"
    /\ IF temp[TempOf[p]] = None THEN Ends(p, "error") /\ UNCHANGED store
       ELSE /\ file' = temp[TempOf[p]]
            /\ temp' = [temp EXCEPT ![TempOf[p]] = None]
            /\ Ends(p, "ok")
            /\ UNCHANGED <<data, synced, on_disk>>
    /\ UNCHANGED <<reading, seen, stale>>

\* A write or sync fails, or the process dies: the temp file stays behind, torn if
\* the write had begun.
Abandon(p) ==
    /\ pc[p] # "idle"
    /\ \E result \in {"error", "died"} : Ends(p, result)
    /\ data' \in {data} \cup (IF pc[p] = "opened" THEN {[data EXCEPT ![fd[p]] = Torn]} ELSE {})
    /\ UNCHANGED <<file, temp, synced, on_disk, reading, seen, stale>>

(***************************************************************************)
(* get, recall: open, then read; a missing file is a miss.                 *)
(***************************************************************************)
OpenRead(p) ==
    /\ Idle(p)
    /\ IF file = None THEN seen' = [seen EXCEPT ![p] = None] /\ UNCHANGED reading
       ELSE reading' = [reading EXCEPT ![p] = file] /\ UNCHANGED seen
    /\ UNCHANGED <<store, put, stale>>

Read(p) ==
    /\ reading[p] # None
    /\ seen' = [seen EXCEPT ![p] = data[reading[p]]]
    /\ reading' = [reading EXCEPT ![p] = None]
    /\ UNCHANGED <<store, put, stale>>

(***************************************************************************)
(* prune: find a stale entry (any may be), then unlink whatever the name   *)
(* refers to by then.  The stash prunes the whole directory after each put *)
(* of any key, so a process busy with another key may prune this one at    *)
(* any time.                                                               *)
(***************************************************************************)
Final == "final"

FindStale(p) ==
    /\ Evicts /\ Idle(p)
    /\ \E n \in {Final : i \in {file} \ {None}} \cup {n \in Names : temp[n] # None} :
          stale' = [stale EXCEPT ![p] = n]
    /\ UNCHANGED <<store, put, reading, seen>>

Unlink(p) ==
    /\ stale[p] # None
    /\ IF stale[p] = Final THEN file' = None /\ UNCHANGED temp
       ELSE temp' = [temp EXCEPT ![stale[p]] = None] /\ UNCHANGED file
    /\ stale' = [stale EXCEPT ![p] = None]
    /\ UNCHANGED <<data, synced, on_disk, put, reading, seen>>

(***************************************************************************)
(* The file system.                                                        *)
(***************************************************************************)
\* The directory reaches the disk.
Flush ==
    /\ on_disk' = file
    /\ UNCHANGED <<file, temp, data, synced, put, reading, seen, stale>>

\* All processes are gone; of the contents only what was synced is sure to be left,
\* of the final name only what it was last on disk.
PowerLoss ==
    /\ file' \in {file, on_disk} /\ on_disk' = file'
    /\ data' = [i \in Inodes |-> IF i \in synced THEN data[i] ELSE Torn]
    /\ pc' = [p \in Writers |-> "idle"] /\ fd' = [p \in Writers |-> None]
    /\ payload' = [p \in Writers |-> None]
    /\ outcome' = [p \in Procs |-> IF outcome[p] = "pending" THEN "died" ELSE outcome[p]]
    /\ reading' = [p \in Procs |-> None]
    /\ stale' = [p \in Procs |-> None]
    /\ UNCHANGED <<temp, synced, seen>>

Next ==
    \/ \E p \in Writers :
          Create(p) \/ WriteAll(p) \/ Sync(p) \/ Rename(p) \/ Abandon(p)
    \/ \E p \in Procs : OpenRead(p) \/ Read(p) \/ FindStale(p) \/ Unlink(p)
    \/ Flush \/ PowerLoss

Spec == Init /\ [][Next]_vars

(***************************************************************************)
(* Properties.                                                             *)
(***************************************************************************)
TypeOK ==
    /\ file \in Inodes \cup {None} /\ on_disk \in Inodes \cup {None}
    /\ temp \in [Names -> Inodes \cup {None}]
    /\ data \in [Inodes -> Values \cup {Empty, Torn}]
    /\ synced \subseteq Inodes
    /\ pc \in [Writers -> {"idle", "opened", "written", "synced"}]
    /\ fd \in [Writers -> Inodes \cup {None}]
    /\ payload \in [Writers -> Values \cup {None}]
    /\ outcome \in [Procs -> {"none", "pending", "ok", "error", "died"}]
    /\ reading \in [Procs -> Inodes \cup {None}]
    /\ seen \in [Procs -> Values \cup {None, Empty, Torn}]
    /\ stale \in [Procs -> Names \cup {Final, None}]
    /\ \A p \in Writers :
          IF pc[p] = "idle" THEN fd[p] = None /\ payload[p] = None /\ outcome[p] # "pending"
          ELSE fd[p] # None /\ payload[p] # None /\ outcome[p] = "pending"
    /\ \A p \in Procs \ Writers : outcome[p] = "none"

\* A reader gets nothing or a whole payload, never a part of one or a mixture ("a
\* concurrent reader sees either the whole old or whole new file").
ReadsAreWhole == \A p \in Procs : seen[p] \in Values \cup {None}

\* What a power loss may leave under the final name is a whole payload: the contents
\* reach the disk before the name does.
DurableIsWhole == \A i \in {file, on_disk} \ {None} : i \in synced /\ data[i] \in Values

\* While a put is under way its inode is its own: no name but its temp name leads to
\* it, nobody else has it open, and it holds what the put has got to.
PutsAreApart ==
    \A p \in Writers : pc[p] # "idle" =>
        /\ fd[p] \notin {file, on_disk} \cup {reading[q] : q \in Procs}
                        \cup {fd[q] : q \in Writers \ {p}} \cup {temp[n] : n \in Names \ {TempOf[p]}}
        /\ temp[TempOf[p]] \in {fd[p], None}
        /\ data[fd[p]] = IF pc[p] = "opened" THEN Empty ELSE payload[p]
        /\ pc[p] = "synced" => fd[p] \in synced

\* Readers and writers cannot tell the protocol from an atomic file.
Held(i) == IF i = None THEN None ELSE data[i]
Abstract == INSTANCE AtomicFile WITH
    Nothing <- None, Closed <- Closed,
    stored <- Held(file), durable <- Held(on_disk),
    putting <- [p \in Procs |-> IF p \in Writers THEN payload[p] ELSE None],
    picked <- [p \in Procs |-> IF reading[p] = None THEN Closed ELSE data[reading[p]]]
IsAtomic == Abstract!Spec
==============================================================================
