----------------------------- MODULE ExecTransport -----------------------------
(***************************************************************************)
(* A response that comes from a subprocess (native/exec.rs) and, where the *)
(* child speaks whole HTTP messages, the relay that reads the head off its *)
(* output first (native/relay.rs).                                         *)
(*                                                                         *)
(* Four threads of bz take part: one feeds stdin, one drains stderr, one   *)
(* reads stdout into a bounded channel, and the main one iterates over the *)
(* body.  On the other side are the child, which blocks on its pipes and   *)
(* may stop, die or close them at any time, and a process it may have      *)
(* started, which inherits the pipes.                                      *)
(*                                                                         *)
(* Bytes of stdout are numbered; of stdin and stderr only the number is    *)
(* kept.  What is written on stderr is not blank, but it may not be UTF-8. *)
(***************************************************************************)
EXTENDS Integers, Sequences, SequencesExt

CONSTANTS
    Envelopes,      \* of {"body", "http"}: what the pipes carry
    Budgets,        \* of BOOLEAN: whether timeouts.idle is set
    ChannelCap,     \* sync_channel(4)
    ChunkMax,       \* the reader's buffer, 8192 bytes
    HeadLen,        \* the length of the response head
    PipeCap,        \* what a pipe holds
    ErrCap,         \* what the one for stderr does
    MaxIn,          \* bound: the request, in units
    MaxOut,         \* bound: what the child writes on stdout
    MaxErr,         \* bound: what it writes on stderr
    Broken          \* in the channel: a failed read

ASSUME ExecAssumption ==
    /\ Envelopes \subseteq {"body", "http"} /\ Budgets \subseteq BOOLEAN
    /\ {ChannelCap, ChunkMax, PipeCap, ErrCap} \subseteq Nat \ {0}
    /\ {HeadLen, MaxIn, MaxOut, MaxErr} \subseteq Nat
    /\ Broken \notin Seq(Nat)

VARIABLES
    \* The child and its pipes.
    envelope, child,
    code,       \* how it exited
    want,       \* the pipe the child is blocked on, or "none"
    kin,        \* the process it started
    outs, errs, \* who holds the write ends of stdout and stderr
    inp, out, err,      \* what is in the pipes
    written, erred,     \* what the child has written on stdout and stderr, so far
    garbled,    \* what it wrote on stderr is not UTF-8
    \* The threads of bz.
    feed,       \* the stdin thread: what it has still to write
    drain,      \* the stderr thread: "reading", "done", or "failed" with an error
    text,       \* what it has read, and then what it returns
    reader,     \* the stdout thread: "reading", "sending" or "gone"
    chunk,      \* what it is sending
    channel,
    \* ExecBody and the relay.
    budget,     \* idle.is_some()
    pc,         \* "idle" between calls of next; "recv", "wait", "join" in one
    headed,     \* the relay has the head
    buf,        \* its buffer
    got,        \* what was handed on
    verdict,    \* "open", then "ended" or "failed"
    dropped     \* the body was dropped

pipes == <<inp, out, err>>
process == <<envelope, child, code, want, kin, outs, errs, written, erred, garbled>>
threads == <<feed, drain, text, reader, chunk, channel>>
body == <<budget, pc, headed, buf, got, verdict, dropped>>
vars == <<pipes, process, threads, body>>

Init ==
    /\ envelope \in Envelopes /\ budget \in Budgets
    /\ child = "running" /\ code = "none" /\ want = "none" /\ kin = "none"
    /\ outs = {"child"} /\ errs = {"child"}
    /\ inp = 0 /\ out = <<>> /\ err = 0 /\ written = 0 /\ erred = 0
    /\ garbled = FALSE
    /\ feed = MaxIn /\ drain = "reading" /\ text = 0
    /\ reader = "reading" /\ chunk = <<>> /\ channel = <<>>
    /\ pc = "idle" /\ headed = (envelope = "body") /\ buf = <<>>
    /\ got = <<>> /\ verdict = "open" /\ dropped = FALSE

(***************************************************************************)
(* The child, and the process it started.                                  *)
(***************************************************************************)
Alive == child = "running"

ChildWants ==
    /\ Alive /\ want = "none"
    /\ \/ want' = "stdin"
       \/ want' = "stdout" /\ "child" \in outs /\ written < MaxOut
       \/ want' = "stderr" /\ erred < MaxErr
    /\ UNCHANGED <<pipes, envelope, child, code, kin, outs, errs, written, erred, garbled, threads, body>>

\* A unit of the prompt, or its end.
ChildReads ==
    /\ Alive /\ want = "stdin" /\ want' = "none"
    /\ \/ inp > 0 /\ inp' = inp - 1
       \/ inp = 0 /\ feed = 0 /\ UNCHANGED inp
    /\ UNCHANGED <<out, err, envelope, child, code, kin, outs, errs, written, erred, garbled, threads, body>>

ChildWrites ==
    /\ Alive /\ want = "stdout" /\ want' = "none" /\ Len(out) < PipeCap
    /\ out' = Append(out, written + 1) /\ written' = written + 1
    /\ UNCHANGED <<inp, err, envelope, child, code, kin, outs, errs, erred, garbled, threads, body>>

\* Nobody hears it once the stderr thread has given up and closed its end.
ChildComplains ==
    /\ Alive /\ want = "stderr" /\ want' = "none"
    /\ \/ drain # "failed" /\ err < ErrCap
          /\ err' = err + 1 /\ erred' = erred + 1 /\ garbled' \in {garbled, TRUE}
       \/ drain = "failed" /\ UNCHANGED <<err, erred, garbled>>
    /\ UNCHANGED <<inp, out, envelope, child, code, kin, outs, errs, written, threads, body>>

ChildCloses ==
    /\ Alive /\ want = "none" /\ "child" \in outs
    /\ outs' = outs \ {"child"}
    /\ UNCHANGED <<pipes, envelope, child, code, want, kin, errs, written, erred, garbled, threads, body>>

\* A process that inherits what the child has open.
ChildForks ==
    /\ Alive /\ want = "none" /\ kin = "none"
    /\ kin' = "alive"
    /\ outs' = outs \cup (IF "child" \in outs THEN {"kin"} ELSE {}) /\ errs' = errs \cup {"kin"}
    /\ UNCHANGED <<pipes, envelope, child, code, want, written, erred, garbled, threads, body>>

\* The child becomes a zombie; its ends of the pipes close.
Gone(c) ==
    /\ child' = "zombie" /\ code' = c /\ want' = "none"
    /\ outs' = outs \ {"child"} /\ errs' = errs \ {"child"}
    /\ UNCHANGED <<pipes, envelope, kin, written, erred, garbled, threads, body>>

ChildExits == Alive /\ want = "none" /\ \E c \in {"ok", "failed"} : Gone(c)

ChildDies == Alive /\ Gone("signal")

KinExits ==
    /\ kin = "alive" /\ kin' = "gone"
    /\ outs' = outs \ {"kin"} /\ errs' = errs \ {"kin"}
    /\ UNCHANGED <<pipes, envelope, child, code, want, written, erred, garbled, threads, body>>

(***************************************************************************)
(* The threads.                                                            *)
(***************************************************************************)
\* stdin.write_all; a child that is gone makes it fail, which is ignored.
Feed ==
    /\ feed > 0
    /\ \/ Alive /\ inp < PipeCap /\ inp' = inp + 1 /\ feed' = feed - 1
       \/ ~ Alive /\ feed' = 0 /\ UNCHANGED inp
    /\ UNCHANGED <<out, err, process, drain, text, reader, chunk, channel, body>>

\* read_to_string: to the end of stderr, which all who hold it must close.  If the whole
\* is not UTF-8 the string stays empty, and the error is ignored.
DrainStderr ==
    /\ drain = "reading"
    /\ \/ err > 0 /\ err' = 0 /\ text' = text + err /\ UNCHANGED drain
       \/ /\ err = 0 /\ errs = {} /\ drain' = "done" /\ UNCHANGED err
          /\ text' = IF garbled THEN 0 ELSE text
    /\ UNCHANGED <<inp, out, process, feed, reader, chunk, channel, body>>

\* A read that fails is ignored as well.  What was read before it is kept if it is UTF-8,
\* which it may not be as far as it goes; the thread drops its end of the pipe.
DrainFails ==
    /\ drain = "reading"
    /\ drain' = "failed" /\ err' = 0 /\ text' \in {0, text}
    /\ UNCHANGED <<inp, out, process, feed, reader, chunk, channel, body>>

ReadStdout ==
    /\ reader = "reading"
    /\ \/ \E n \in 1..ChunkMax :
             /\ n <= Len(out)
             /\ chunk' = SubSeq(out, 1, n) /\ out' = SubSeq(out, n + 1, Len(out))
             /\ reader' = "sending"
       \/ out = <<>> /\ outs = {} /\ reader' = "gone" /\ UNCHANGED <<chunk, out>>
    /\ UNCHANGED <<inp, err, process, feed, drain, text, channel, body>>

ReadFails ==
    /\ reader = "reading"
    /\ chunk' = Broken /\ reader' = "sending"
    /\ UNCHANGED <<pipes, process, feed, drain, text, channel, body>>

\* The reader ends with a failed read or when nobody receives any more.
Send ==
    /\ reader = "sending"
    /\ \/ /\ ~ dropped /\ Len(channel) < ChannelCap
          /\ channel' = Append(channel, chunk)
          /\ reader' = IF chunk = Broken THEN "gone" ELSE "reading"
       \/ dropped /\ reader' = "gone" /\ UNCHANGED channel
    /\ chunk' = <<>>
    /\ UNCHANGED <<pipes, process, feed, drain, text, body>>

(***************************************************************************)
(* ExecBody and the relay, on the main thread.                             *)
(***************************************************************************)
\* reap(true): kill, then wait; the stderr thread is left to itself.
Kill ==
    /\ child' = "reaped" /\ want' = "none"
    /\ code' = IF Alive THEN "signal" ELSE code
    /\ outs' = outs \ {"child"} /\ errs' = errs \ {"child"}
    /\ UNCHANGED <<envelope, kin, written, erred, garbled>>

Call ==
    /\ pc = "idle" /\ verdict = "open" /\ ~ dropped
    /\ pc' = "recv"
    /\ UNCHANGED <<pipes, process, threads, budget, headed, buf, got, verdict, dropped>>

\* What the relay does with a chunk: until the head is whole it is buffered, then the
\* rest of the buffer is the first chunk.  Without a relay it is handed on.
PassOn(bytes) ==
    LET all == buf \o bytes IN
    IF headed THEN got' = got \o bytes /\ UNCHANGED <<headed, buf>>
    ELSE IF Len(all) < HeadLen THEN buf' = all /\ UNCHANGED <<headed, got>>
    ELSE headed' = TRUE /\ buf' = <<>> /\ got' = SubSeq(all, HeadLen + 1, Len(all))

Receive ==
    /\ pc = "recv" /\ channel # <<>> /\ Head(channel) # Broken
    /\ channel' = Tail(channel) /\ pc' = "idle"
    /\ PassOn(Head(channel))
    /\ UNCHANGED <<pipes, process, feed, drain, text, reader, chunk, budget, verdict, dropped>>

\* The head turns out malformed, or too long: the relay gives up, the body is dropped.
HeadMalformed ==
    /\ pc = "recv" /\ channel # <<>> /\ Head(channel) # Broken /\ ~ headed
    /\ channel' = Tail(channel) /\ pc' = "idle" /\ verdict' = "failed" /\ dropped' = TRUE
    /\ Kill
    /\ UNCHANGED <<pipes, feed, drain, text, reader, chunk, budget, headed, buf, got>>

ReceiveError ==
    /\ pc = "recv" /\ channel # <<>> /\ Head(channel) = Broken
    /\ channel' = Tail(channel) /\ pc' = "idle" /\ verdict' = "failed"
    /\ Kill
    /\ UNCHANGED <<pipes, feed, drain, text, reader, chunk, budget, headed, buf, got, dropped>>

\* Mutant: the stderr of a killed child is read to its end.
TimeoutJoins ==
    /\ pc = "recv" /\ budget /\ channel = <<>> /\ drain # "reading"
    /\ pc' = "idle" /\ verdict' = "failed"
    /\ Kill
    /\ UNCHANGED <<pipes, threads, budget, headed, buf, got, dropped>>

\* recv_timeout expires.
Timeout ==
    /\ pc = "recv" /\ budget /\ channel = <<>>
    /\ pc' = "idle" /\ verdict' = "failed"
    /\ Kill
    /\ UNCHANGED <<pipes, threads, budget, headed, buf, got, dropped>>

\* Mutant: the reader's end is taken for the channel's.
EofUndrained ==
    /\ pc = "recv" /\ reader = "gone"
    /\ pc' = "wait"
    /\ UNCHANGED <<pipes, process, threads, budget, headed, buf, got, verdict, dropped>>

\* The channel is drained and its sender gone.
Eof ==
    /\ pc = "recv" /\ channel = <<>> /\ reader = "gone"
    /\ pc' = "wait"
    /\ UNCHANGED <<pipes, process, threads, budget, headed, buf, got, verdict, dropped>>

Wait ==
    /\ pc = "wait" /\ child = "zombie"
    /\ child' = "reaped" /\ pc' = "join"
    /\ UNCHANGED <<pipes, envelope, code, want, kin, outs, errs, written, erred, garbled, threads,
                   budget, headed, buf, got, verdict, dropped>>

\* Mutant: what stderr has said so far will do.
JoinHasty ==
    /\ pc = "join"
    /\ pc' = "idle"
    /\ verdict' = IF headed /\ (code = "ok" \/ text = 0) THEN "ended" ELSE "failed"
    /\ UNCHANGED <<pipes, process, threads, budget, headed, buf, got, dropped>>

\* The end of reap(false): a child that failed and said why, as far as the stderr thread
\* made it out, is an error, an end before the head as well.
Join ==
    /\ pc = "join" /\ drain # "reading"
    /\ pc' = "idle"
    /\ verdict' = IF headed /\ (code = "ok" \/ text = 0) THEN "ended" ELSE "failed"
    /\ UNCHANGED <<pipes, process, threads, budget, headed, buf, got, dropped>>

\* Mutant: dropping is just that.
DropOnly ==
    /\ pc = "idle" /\ ~ dropped /\ dropped' = TRUE
    /\ UNCHANGED <<pipes, process, threads, budget, pc, headed, buf, got, verdict>>

\* The caller is through with the body, or gave up on it.
Drop ==
    /\ pc = "idle" /\ ~ dropped /\ dropped' = TRUE
    /\ IF verdict = "open" THEN Kill ELSE UNCHANGED process
    /\ UNCHANGED <<pipes, threads, budget, pc, headed, buf, got, verdict>>

ChildSteps ==
    \/ ChildWants \/ ChildReads \/ ChildWrites \/ ChildComplains \/ ChildCloses \/ ChildForks
    \/ ChildExits \/ ChildDies \/ KinExits

Main == Call \/ Receive \/ HeadMalformed \/ ReceiveError \/ Timeout \/ Eof \/ Wait \/ Join

\* Everything is over; what is left running is none of bz's.
Over == dropped /\ UNCHANGED vars

Next ==
    \/ ChildSteps \/ Feed \/ DrainStderr \/ DrainFails \/ ReadStdout \/ ReadFails \/ Send
    \/ Main \/ Drop \/ Over

Spec == Init /\ [][Next]_vars

(***************************************************************************)
(* Fairness.  The threads of bz are scheduled, a blocked call of the child *)
(* that can complete does, and a set timer expires.                        *)
(***************************************************************************)
FairSpec ==
    /\ Spec
    /\ WF_vars(Feed) /\ WF_vars(DrainStderr) /\ WF_vars(ReadStdout) /\ WF_vars(Send) /\ WF_vars(Main)
    /\ WF_vars(ChildReads \/ ChildWrites \/ ChildComplains)

\* Moreover, where no budget is set, the child and the process it started exit some
\* day unless they are blocked; with one they may stay for ever.
PatientSpec == FairSpec /\ SF_vars(~ budget /\ ChildExits) /\ WF_vars(~ budget /\ KinExits)

(***************************************************************************)
(* Properties.                                                             *)
(***************************************************************************)
Bytes == 1..MaxOut
Flow == BoundedSeq(Bytes, MaxOut)

TypeOK ==
    /\ envelope \in Envelopes /\ child \in {"running", "zombie", "reaped"} /\ code \in {"none", "ok", "failed", "signal"}
    /\ want \in {"none", "stdin", "stdout", "stderr"} /\ kin \in {"none", "alive", "gone"}
    /\ outs \subseteq {"child", "kin"} /\ errs \subseteq {"child", "kin"}
    /\ inp \in 0..PipeCap /\ out \in Flow /\ err \in 0..ErrCap
    /\ written \in 0..MaxOut /\ erred \in 0..MaxErr /\ garbled \in BOOLEAN
    /\ feed \in 0..MaxIn /\ drain \in {"reading", "done", "failed"} /\ text \in 0..MaxErr
    /\ reader \in {"reading", "sending", "gone"} /\ chunk \in Flow \cup {Broken}
    /\ Len(channel) <= ChannelCap /\ \A i \in DOMAIN channel : channel[i] \in Flow \cup {Broken}
    /\ budget \in BOOLEAN /\ pc \in {"idle", "recv", "wait", "join"}
    /\ headed \in BOOLEAN /\ buf \in Flow /\ got \in Flow
    /\ verdict \in {"open", "ended", "failed"} /\ dropped \in BOOLEAN

\* However the body came to its end, or was given up, the child was waited for.
NoZombie == verdict # "open" \/ dropped => child = "reaped"

\* A child that failed and said why is passed off as a clean end only if what it said
\* could not be read, for not being UTF-8 or for a failed read: the end of its output,
\* its exit and its last words may come apart as they like.
FailureIsReported ==
    verdict = "ended" => code = "ok" \/ erred = 0 \/ (garbled /\ drain = "done") \/ drain = "failed"

\* What the consumer of the body sees is a byte stream.
headLen == IF envelope = "http" THEN HeadLen ELSE 0
Stream == INSTANCE ByteStream WITH
    sent <- IF written > headLen THEN written - headLen ELSE 0,
    closed <- outs = {},
    got <- [i \in DOMAIN got |-> got[i] - headLen]
IsByteStream == Stream!Spec

\* With a budget no wait for output lasts for ever, though a child that is stuck, or
\* what it left behind, holds the pipes open.  Without one the stream ends if the
\* processes exit some day, whichever pipe they fill first.
Waits == IF budget THEN pc = "recv" ELSE verdict = "open" /\ ~ dropped
OutputWaitEnds == Waits ~> ~ Waits

\* With a budget every call of next returns.
SilenceIsBounded == (budget /\ pc # "idle") ~> (pc = "idle")
==============================================================================
