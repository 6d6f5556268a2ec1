----------------------------- MODULE StreamEvents -----------------------------
(***************************************************************************)
(* The streaming driver (run/events/stream.rs), the End that closes its    *)
(* output (run/drive.rs) and the pump that writes it out and computes the  *)
(* exit code (pipeline/sink.rs), for every dialect.                        *)
(*                                                                         *)
(* StreamEvents::next is a loop; each action below is one turn of it, or,  *)
(* where a turn decodes the frames of a chunk, one frame.  Only Yield and  *)
(* YieldEnd are seen by the consumer.                                      *)
(*                                                                         *)
(* The consumer's side of the stream is kept in the variables of           *)
(* CanonicalStream.  Except for `exit`, the pump's own variable, they are  *)
(* history: no action's guard reads them but through `status`.             *)
(***************************************************************************)
EXTENDS Provider

CONSTANTS
    Streaming,   \* the dialects whose responses are modelled
    HeadCap,     \* PREMATURE_EOF_BODY_CAP, in units of body sample
    MaxChunk     \* bound: the size of a transport chunk, in the same unit

ASSUME StreamAssumption ==
    /\ Streaming \subseteq Dialects
    /\ HeadCap \in Nat /\ MaxChunk \in Nat

VARIABLES
    dialect,     \* the protocol the row names
    wire,        \* the provider's state
    state,       \* DecodeState
    pending,     \* events decoded and not yet yielded
    reading,     \* inside the loop over the frames of a chunk
    body_done,   \* the body iterator returned None
    finished,    \* nothing more will be decoded
    dropped,     \* history: the transport failed in mid-stream
    saw_frame,   \* a frame was decoded
    head,        \* the size of the body sample
    event, started, blocks, used, verdict, exit, status   \* the consumer's side

driver == <<state, pending, reading, body_done, finished, saw_frame, head>>
client == <<event, started, blocks, used, verdict, exit, status>>
vars == <<dialect, wire, dropped, driver, client>>

Min2(a, b) == IF a < b THEN a ELSE b

\* Registry dispatch.  A frame that is not JSON fails in every dialect alike: the
\* error is queued and the state is left as it was.
DecodeFrame(d, f, s) ==
    CASE f.type = "malformed" -> Emit(s, Error("Transport"))
      [] f.type # "malformed" /\ d = "openai"    -> ChatDecode(f, s)
      [] f.type # "malformed" /\ d = "anthropic" -> MessagesDecode(f, s)
      [] f.type # "malformed" /\ d = "google"    -> GenaiDecode(f, s)
      [] f.type # "malformed" /\ d = "ollama"    -> OllamaDecode(f, s)
      [] f.type # "malformed" /\ d = "responses" -> ResponsesDecode(f, s)
      [] f.type # "malformed" /\ d = "claude"    -> ClaudeDecode(f, s)

Init ==
    /\ dialect \in Streaming
    /\ wire = WireInit
    /\ state = Default
    /\ pending = <<>>
    /\ reading = FALSE /\ body_done = FALSE /\ finished = FALSE
    /\ dropped = FALSE
    /\ saw_frame = FALSE /\ head = 0
    /\ event = [type |-> "None"]
    /\ started = FALSE /\ blocks = EmptyFn /\ used = {} /\ verdict = "none"
    /\ exit = 0 /\ status = "running"

\* The loop reaches the transport: nothing is queued and the stream is not over.
AtBody == status = "running" /\ ~ reading /\ pending = <<>> /\ ~ finished

(***************************************************************************)
(* Pulling the body.                                                       *)
(***************************************************************************)
\* Mutant: the sample is not capped.
PullUncapped ==
    /\ AtBody /\ ~ body_done
    /\ reading' = TRUE
    /\ \E size \in 1..MaxChunk : head' = IF saw_frame THEN head ELSE head + size
    /\ UNCHANGED <<dialect, wire, state, pending, body_done, finished, dropped, saw_frame, client>>

\* A chunk arrives; while nothing has framed, its leading part is sampled.
PullChunk ==
    /\ AtBody /\ ~ body_done
    /\ reading' = TRUE
    /\ \E size \in 1..MaxChunk :
          head' = IF saw_frame THEN head ELSE head + Min2(HeadCap - head, size)
    /\ UNCHANGED <<dialect, wire, state, pending, body_done, finished, dropped, saw_frame, client>>

\* decode_into_pending.
Decoded(r) ==
    /\ state' = [r EXCEPT !.out = <<>>]
    /\ pending' = pending \o r.out

ReadFrame ==
    /\ reading
    /\ \E f \in Sends(dialect, wire) :
          /\ Decoded(DecodeFrame(dialect, f, state))
          /\ wire' = After(dialect, wire, f)
    /\ saw_frame' = TRUE /\ head' = 0
    /\ UNCHANGED <<dialect, reading, body_done, finished, dropped, client>>

ChunkRead ==
    /\ reading
    /\ reading' = FALSE
    /\ UNCHANGED <<dialect, wire, state, pending, body_done, finished, dropped, saw_frame, head, client>>

\* Mutant: a dropped transport ends the stream without an error.
DropSilently ==
    /\ AtBody /\ ~ body_done
    /\ Decoded(Drain(state))
    /\ finished' = TRUE /\ dropped' = TRUE
    /\ UNCHANGED <<dialect, wire, reading, body_done, saw_frame, head, client>>

\* Some(Err): stop every open block, then the error; the end is not examined.
Drop ==
    /\ AtBody /\ ~ body_done
    /\ Decoded(Emit(Drain(state), Error("Transport")))
    /\ finished' = TRUE /\ dropped' = TRUE
    /\ UNCHANGED <<dialect, wire, reading, body_done, saw_frame, head, client>>

BodyEnd ==
    /\ AtBody /\ ~ body_done
    /\ body_done' = TRUE
    /\ UNCHANGED <<dialect, wire, state, pending, reading, finished, dropped, saw_frame, head, client>>

\* premature_eof: bare once a frame was seen, else with the sample of the body.
PrematureEof(s, seen, sample) ==
    Emit(Drain(s), ErrorWith("Transport", IF seen THEN 0 ELSE sample))

\* Mutant: the end of the body is taken for the end of the answer.
AtEofTrusting(s, seen, sample) == s

\* The body is drained: a last unterminated frame may be flushed, and a stream
\* whose terminal marker never came fails.
AtEof(s, seen, sample) == IF s.terminated THEN s ELSE PrematureEof(s, seen, sample)

\* Mutant: the end of the body is examined again once its events are out.
FlushRepeatedly ==
    /\ AtBody /\ body_done
    /\ Decoded(AtEof(state, saw_frame, head))
    /\ UNCHANGED <<dialect, wire, reading, body_done, finished, dropped, saw_frame, head, client>>

FlushAtEof ==
    /\ AtBody /\ body_done
    /\ \/ /\ Decoded(AtEof(state, saw_frame, head))
          /\ UNCHANGED <<wire, saw_frame, head>>
       \/ \E f \in Sends(dialect, wire) :
             /\ Decoded(AtEof(DecodeFrame(dialect, f, state), TRUE, 0))
             /\ wire' = After(dialect, wire, f)
             /\ saw_frame' = TRUE /\ head' = 0
    /\ finished' = TRUE
    /\ UNCHANGED <<dialect, reading, body_done, dropped, client>>

(***************************************************************************)
(* Yielding events to the pump.                                            *)
(***************************************************************************)
\* What the consumer knows once it has received e.
Observe(e) ==
    /\ event' = e
    /\ started' = (started \/ e.type = "MessageStart")
    /\ blocks' = CASE e.type = "ContentStart" -> Insert(blocks, e.index, e.block)
                   [] e.type = "ContentStop"  -> Remove(blocks, e.index)
                   [] OTHER                   -> blocks
    /\ used' = IF e.type = "ContentStart" THEN used \cup {e.index} ELSE used
    /\ verdict' = IF e.type = "Finish" THEN e.reason ELSE verdict

\* pump: each error sets the exit, then the event is written.
Pump(e) ==
    /\ exit' = IF e.type = "Error" THEN ExitOf[e.kind] ELSE exit
    /\ Observe(e)

\* A failed write abandons the stream with the exit the failure maps to.
WriteFails ==
    /\ status' = "broken" /\ exit' \in WriteExits
    /\ UNCHANGED <<event, started, blocks, used, verdict>>

Yield ==
    /\ status = "running" /\ ~ reading /\ pending # <<>>
    /\ pending' = Tail(pending)
    /\ \/ Pump(Head(pending)) /\ UNCHANGED status
       \/ WriteFails
    /\ UNCHANGED <<dialect, wire, state, reading, body_done, finished, dropped, saw_frame, head>>

\* The one End, chained after the last event of the iterator.
YieldEnd ==
    /\ status = "running" /\ ~ reading /\ pending = <<>> /\ finished
    /\ \/ Pump(End) /\ status' = "ended"
       \/ WriteFails
    /\ UNCHANGED <<dialect, wire, driver, dropped>>

\* The run is over.
Done == status # "running" /\ UNCHANGED vars

Next ==
    \/ PullChunk \/ ReadFrame \/ ChunkRead \/ Drop \/ BodyEnd \/ FlushAtEof
    \/ Yield \/ YieldEnd \/ Done

Spec == Init /\ [][Next]_vars

(***************************************************************************)
(* Properties.                                                             *)
(***************************************************************************)
TypeOK ==
    /\ dialect \in Streaming /\ WireOK(dialect, wire)
    /\ IsDecodeState(state) /\ state.out = <<>>
    /\ pending \in Seq(Event)
    /\ reading \in BOOLEAN /\ body_done \in BOOLEAN /\ finished \in BOOLEAN
    /\ dropped \in BOOLEAN /\ saw_frame \in BOOLEAN
    /\ head \in 0..HeadCap
    /\ event \in Event \cup {[type |-> "None"]}
    /\ started \in BOOLEAN /\ verdict \in Reasons \cup {"none"}
    /\ IsPartialFn(blocks, Nat, Pieces) /\ used \in SUBSET Nat
    /\ exit \in {0} \cup {ExitOf[k] : k \in ErrorKinds} \cup WriteExits
    /\ status \in {"running", "ended", "broken"}

\* The consumer is given a well-formed canonical stream: see CanonicalStream.
Abstract == INSTANCE CanonicalStream
IsCanonicalStream == Abstract!Spec

\* A run that ends with exit 0 was told by the provider that the answer is complete:
\* a truncated answer is never passed off as a whole one (the premature-EOF error).
NoSilentTruncation == status = "ended" /\ exit = 0 => state.terminated

\* The exit code tells exactly whether the terminal frame arrived over a stream
\* without an error frame, a malformed frame or a transport failure.
ExitTellsTheTruth ==
    status = "ended" => (exit = 0 <=> wire.complete /\ ~ wire.fault /\ ~ dropped)

\* The only way to leave a block open is a stream that reports an error and then ends
\* with its terminal marker; one cut short, dropped or answered in full closes all.
LeftOpenOnlyByMarkedFailure ==
    status = "ended" /\ DOMAIN blocks # {} => exit # 0 /\ state.terminated

\* Google and Ollama have no tool-use reason on the wire: the verdict asks for a tool
\* run exactly when a call was streamed (the reason is read before the drain).
CallsAskForTools ==
    dialect \in {"google", "ollama"} /\ verdict \notin {"none", "Refusal"}
        => (verdict = "ToolUse" <=> wire.tool)

\* An error carries a sample of the body only when no frame of the body was ever
\* decoded, the frame flushed at its end included (premature_eof), and no more than the
\* cap, though the body comes in chunks of any size.
SampleOnlyWhenUnframed ==
    event.type = "Error" /\ event.detail > 0 => wire.sent = 0 /\ event.detail <= HeadCap

\* How a run ends tells how it went: the exit code, what was left open, the verdict and
\* what the errors quote.
EndTellsTheTruth ==
    /\ ExitTellsTheTruth
    /\ LeftOpenOnlyByMarkedFailure
    /\ CallsAskForTools
    /\ SampleOnlyWhenUnframed
==============================================================================
