------------------------------ MODULE IdleReader ------------------------------
(***************************************************************************)
(* The body of an HTTP response (native/transport.rs): read in place, or,  *)
(* where silence is bounded (native/transport/idle.rs), by a worker thread *)
(* that meets the main thread at a channel without a buffer, so that a     *)
(* stalled read can be given up though it cannot be interrupted.           *)
(***************************************************************************)
EXTENDS Integers, Sequences, SequencesExt

CONSTANTS
    Budgets,    \* of BOOLEAN: whether timeouts.idle is set
    ChunkMax,   \* the buffer of a read, 8192 bytes
    MaxSent,    \* bound: the length of the body
    Broken      \* a failed read

ASSUME IdleAssumption ==
    /\ Budgets \subseteq BOOLEAN /\ ChunkMax \in Nat \ {0} /\ MaxSent \in Nat
    /\ Broken \notin Seq(Nat)

VARIABLES
    sent, wire, source,     \* bytes sent; those not yet read; "open", "closed" or "broken"
    worker,                 \* "none" without a budget, "reading", "sending" or "gone"
    chunk,                  \* what it is sending
    pc,                     \* "idle" between calls of next, "recv" in one
    got, verdict, dropped   \* bytes handed on; "open", "ended" or "failed"; the body was dropped

remote == <<sent, wire, source>>
body == <<pc, got, verdict, dropped>>
vars == <<remote, worker, chunk, body>>

Init ==
    /\ sent = 0 /\ wire = <<>> /\ source = "open"
    /\ \E budget \in Budgets : worker = IF budget THEN "reading" ELSE "none"
    /\ chunk = <<>>
    /\ pc = "idle" /\ got = <<>> /\ verdict = "open" /\ dropped = FALSE

\* The server sends, finishes, or the connection breaks.
Remote ==
    /\ source = "open"
    /\ \/ sent < MaxSent /\ sent' = sent + 1 /\ wire' = Append(wire, sent + 1) /\ UNCHANGED source
       \/ source' \in {"closed", "broken"} /\ UNCHANGED <<sent, wire>>
    /\ UNCHANGED <<worker, chunk, body>>

\* What a read may return: some bytes, Broken, or nothing at the end.
ReadResults ==
    {SubSeq(wire, 1, n) : n \in 1..(IF Len(wire) < ChunkMax THEN Len(wire) ELSE ChunkMax)}
    \cup (IF source = "broken" THEN {Broken} ELSE {})
    \cup (IF source = "closed" /\ wire = <<>> THEN {<<>>} ELSE {})

Consumes(result) ==
    wire' = IF result = Broken THEN wire ELSE SubSeq(wire, Len(result) + 1, Len(wire))

WorkerReads ==
    /\ worker = "reading"
    /\ \E result \in ReadResults :
          /\ chunk' = result /\ Consumes(result)
          /\ worker' = IF result = <<>> THEN "gone" ELSE "sending"
    /\ UNCHANGED <<sent, source, body>>

\* Nobody will receive: the send fails.
WorkerGivesUp ==
    /\ worker = "sending" /\ dropped
    /\ worker' = "gone" /\ chunk' = <<>>
    /\ UNCHANGED <<remote, body>>

Call ==
    /\ pc = "idle" /\ verdict = "open" /\ ~ dropped
    /\ pc' = "recv"
    /\ UNCHANGED <<remote, worker, chunk, got, verdict, dropped>>

HandsOn(result) ==
    /\ pc' = "idle"
    /\ IF result = Broken THEN verdict' = "failed" /\ UNCHANGED got
       ELSE got' = got \o result /\ UNCHANGED verdict

\* The worker and the main thread meet.
Meet ==
    /\ pc = "recv" /\ worker = "sending"
    /\ HandsOn(chunk)
    /\ worker' = IF chunk = Broken THEN "gone" ELSE "reading"
    /\ chunk' = <<>>
    /\ UNCHANGED <<remote, dropped>>

\* Mutant: a stall is a reason to try again.
StallRetries ==
    /\ pc = "recv" /\ worker = "reading"
    /\ pc' = "recv"
    /\ UNCHANGED <<remote, worker, chunk, got, verdict, dropped>>

Stall ==
    /\ pc = "recv" /\ worker = "reading"
    /\ pc' = "idle" /\ verdict' = "failed"
    /\ UNCHANGED <<remote, worker, chunk, got, dropped>>

\* Mutant: a stall is the end.
DisconnectedOrStalled ==
    /\ pc = "recv" /\ worker \in {"gone", "reading"}
    /\ pc' = "idle" /\ verdict' = "ended"
    /\ UNCHANGED <<remote, worker, chunk, got, dropped>>

\* The worker has come to the end of the body.
Disconnected ==
    /\ pc = "recv" /\ worker = "gone"
    /\ pc' = "idle" /\ verdict' = "ended"
    /\ UNCHANGED <<remote, worker, chunk, got, dropped>>

\* Without a budget the main thread reads.
ReadInPlace ==
    /\ pc = "recv" /\ worker = "none"
    /\ \E result \in ReadResults :
          /\ Consumes(result)
          /\ IF result = <<>> THEN pc' = "idle" /\ verdict' = "ended" /\ UNCHANGED got
             ELSE HandsOn(result)
    /\ UNCHANGED <<sent, source, worker, chunk, dropped>>

\* The caller is through with the body, or gave up on it.
Drop ==
    /\ pc = "idle" /\ ~ dropped /\ dropped' = TRUE
    /\ UNCHANGED <<remote, worker, chunk, pc, got, verdict>>

Main == Meet \/ Stall \/ Disconnected \/ ReadInPlace

Over == dropped /\ UNCHANGED vars

Next == Remote \/ WorkerReads \/ WorkerGivesUp \/ Call \/ Main \/ Drop \/ Over

Spec == Init /\ [][Next]_vars

\* bz's threads are scheduled, a read that can return does, and a set timer expires.
Fairness == WF_vars(WorkerReads) /\ WF_vars(WorkerGivesUp) /\ WF_vars(Main)

(***************************************************************************)
(* Properties.                                                             *)
(***************************************************************************)
\* What the caller sees is a byte stream: a stalled, broken or slow connection never
\* reorders, loses or repeats bytes of it, and never looks like its end.
Stream == INSTANCE ByteStream WITH closed <- (source = "closed")
IsByteStream == Stream!Spec

\* With a budget every call returns, whatever the server does or leaves undone.
CallReturns == (pc = "recv" /\ worker # "none") ~> (pc = "idle")
==============================================================================
