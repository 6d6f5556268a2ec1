------------------------------- MODULE Response -------------------------------
(***************************************************************************)
(* A response in all its forms, from its status to the exit code:          *)
(*   stream  a streamed 2xx answer, which is StreamEvents;                 *)
(*   inband  one whose first frame reports a failure;                      *)
(*   whole   a 2xx answer in one piece (run/events/mod.rs, decode_full);   *)
(*   failed  any other status, whose body is one error;                    *)
(*   raw     --raw: the bytes go through and the status is the verdict     *)
(*           (run/raw.rs);                                                 *)
(*   fatal   no response at all: the request half failed (fail_inband).    *)
(* All but raw are written through the text sink (pipeline/sink.rs), whose *)
(* own state is modelled too.                                              *)
(***************************************************************************)
EXTENDS StreamEvents, WholeBody, ProviderErrors

CONSTANTS
    Forms,        \* the forms of response to be modelled
    Statuses,     \* the HTTP statuses a response may have
    Headers,      \* the Retry-After headers a failed response may carry
    Now           \* the clock

\* An HTTP date has a year of four digits.  The code takes longer ones too, and beyond some
\* 10^11 years checked_mul refuses what its 64 bits do not hold.
IsHeader(h) ==
    \/ h.type \in {"none", "garbage"}
    \/ h.type = "seconds" /\ h.seconds \in Nat
    \/ h.type = "date" /\ h.year \in Int /\ h.year <= 9999 /\ {h.month, h.day, h.hour, h.min, h.sec} \subseteq Nat

ASSUME ResponseAssumption ==
    /\ Forms \subseteq {"stream", "inband", "whole", "failed", "raw", "fatal"}
    /\ Statuses \subseteq 100..599
    /\ \A h \in Headers : IsHeader(h)
    /\ Now \in Nat \X (0..(DayLength - 1))

VARIABLES
    reply,         \* the response, as its server sent it
    folded,        \* what a body that is read to its end decodes to
    delay,         \* retry_after_seconds of the error that stands for a failed response
    pending_sep,   \* TextSink: a separator is owed before the answer
    images,        \* TextSink: the open image blocks, and whether their data came
    shown,         \* history: what the text sink wrote last
    glued,         \* history: answer text was written right after reasoning
    arrived,       \* history: the images whose data reached the sink
    files          \* history: the images that became files

sink == <<pending_sep, images, shown, glued, arrived, files>>
rvars == <<vars, reply, folded, delay, sink>>

Replies(d) ==
    (IF "stream" \in Forms THEN [form : {"stream"}] ELSE {})
    \cup (IF "inband" \in Forms THEN [form : {"inband"}, failure : Failures] ELSE {})
    \cup (IF "whole" \in Forms THEN [form : {"whole"}, body : Bodies(d)] ELSE {})
    \cup (IF "failed" \in Forms
          THEN [form : {"failed"}, status : {s \in Statuses : ~ Is2xx(s)}, body : ErrorBodies,
                header : {[type |-> "none"]}]
               \cup [form : {"failed"}, status : {429}, body : {"json"}, header : Headers]
          ELSE {})
    \cup (IF "raw" \in Forms THEN [form : {"raw"}, status : Statuses] ELSE {})
    \cup (IF "fatal" \in Forms THEN [form : {"fatal"}, kind : ErrorKinds] ELSE {})

\* The error frame that opens a response of form inband.
Report(d, r) == ErrorWith(ClassOf(InBandKind(d, r.failure)), 0)

(***************************************************************************)
(* A response that is read to its end before anything is said about it.    *)
(***************************************************************************)
Transport == <<Error("Transport")>>

\* Mutant: an aggregate without a verdict is an answer.
EnsureTerminalNever(events) == events

\* An aggregate must end in a verdict or in an error.
EnsureTerminal(events) ==
    IF \E n \in 1..Len(events) : events[n].type \in {"Finish", "Error"} THEN events
    ELSE events \o Transport

Fold(d, r) ==
    CASE r.form = "whole"  -> EnsureTerminal(DecodeFull(d, r.body).out)
      [] r.form = "failed" -> <<HttpError(r.status, r.body)>>
      [] OTHER             -> <<>>

RInit ==
    /\ dialect \in Streaming
    /\ reply \in Replies(dialect)
    /\ wire = IF reply.form = "inband" THEN [Failed(WireInit) EXCEPT !.sent = 1] ELSE WireInit
    /\ state = Default
    /\ pending = CASE reply.form = "inband" -> <<Report(dialect, reply)>>
                   [] reply.form = "fatal"  -> <<Error(reply.kind)>>
                   [] OTHER                 -> <<>>
    /\ finished = (reply.form = "fatal")
    /\ saw_frame = (reply.form = "inband")
    /\ reading = FALSE /\ body_done = FALSE /\ dropped = FALSE /\ head = 0
    /\ event = [type |-> "None"]
    /\ started = FALSE /\ blocks = EmptyFn /\ used = {} /\ verdict = "none"
    /\ exit = IF reply.form = "raw" THEN ExitFromStatus(reply.status) ELSE 0
    /\ status = "running"
    /\ folded = Fold(dialect, reply)
    /\ delay = NoDelay
    /\ pending_sep = FALSE /\ images = EmptyFn /\ shown = "nothing" /\ glued = FALSE
    /\ arrived = {} /\ files = {}

\* The folded events stand, or the body could not be read to its end.  Where the
\* status was the verdict, the header is stamped on the error it stands for.
FoldBody ==
    /\ reply.form \in {"whole", "failed"} /\ AtBody
    /\ \/ pending' = folded /\ UNCHANGED dropped
       \/ pending' = Transport /\ dropped' = TRUE
    /\ finished' = TRUE
    /\ delay' = IF reply.form = "failed" THEN ParseRetryAfter(reply.header, Now) ELSE NoDelay
    /\ UNCHANGED <<dialect, wire, state, reading, body_done, saw_frame, head, client, reply, folded, sink>>

(***************************************************************************)
(* --raw: each chunk is written as it is; what is not a chunk is dropped   *)
(* by the sink, but a dropped transport still sets the exit.               *)
(***************************************************************************)
Raw == reply.form = "raw" /\ status = "running"

RawChunk ==
    /\ Raw
    /\ \/ saw_frame' = TRUE /\ UNCHANGED client
       \/ WriteFails /\ UNCHANGED saw_frame
    /\ UNCHANGED <<dialect, wire, state, pending, reading, body_done, finished, dropped, head,
                   reply, folded, delay, sink>>

RawOver == UNCHANGED <<dialect, wire, driver, event, started, blocks, used, verdict, reply, folded, delay, sink>>

RawDrop == Raw /\ dropped' = TRUE /\ status' = "ended" /\ exit' = ExitOf["Transport"] /\ RawOver

RawEnd == Raw /\ status' = "ended" /\ UNCHANGED <<exit, dropped>> /\ RawOver

(***************************************************************************)
(* The text sink, with reasoning shown (--thinking).                       *)
(***************************************************************************)
\* Mutant: only the first reasoning of the answer owes a separator.
ShowThinkingOnce ==
    /\ pending_sep' = (shown = "nothing" \/ pending_sep) /\ shown' = "thinking"
    /\ UNCHANGED <<images, glued, arrived, files>>

ShowThinking ==
    /\ pending_sep' = TRUE /\ shown' = "thinking"
    /\ UNCHANGED <<images, glued, arrived, files>>


ShowText ==
    /\ pending_sep' = FALSE /\ shown' = "text"
    /\ glued' = (glued \/ (shown = "thinking" /\ ~ pending_sep))
    /\ UNCHANGED <<images, arrived, files>>

StartImage(e) ==
    /\ images' = Insert(images, e.index, [block |-> e.block, data |-> FALSE])
    /\ UNCHANGED <<pending_sep, shown, glued, arrived, files>>

ImageData(e) ==
    /\ images' = IF e.index \in DOMAIN images THEN [images EXCEPT ![e.index].data = TRUE] ELSE images
    /\ arrived' = arrived \cup {e.block}
    /\ UNCHANGED <<pending_sep, shown, glued, files>>

\* A block that stops becomes a file, unless it is no image or none of it came.
StopImage(e) ==
    /\ images' = Remove(images, e.index)
    /\ files' = IF e.index \in DOMAIN images /\ images[e.index].data
                THEN files \cup {images[e.index].block} ELSE files
    /\ UNCHANGED <<pending_sep, shown, glued, arrived>>

DropImages == images' = EmptyFn /\ UNCHANGED <<pending_sep, shown, glued, arrived, files>>

Show(e) ==
    CASE e.type = "ContentDelta" /\ e.delta = "ThinkingDelta" -> ShowThinking
      [] e.type = "ContentDelta" /\ e.delta = "TextDelta"     -> ShowText
      [] e.type = "ContentStart" /\ e.kind = "Image"          -> StartImage(e)
      [] e.type = "ContentDelta" /\ e.delta = "ImageDelta"    -> ImageData(e)
      [] e.type = "ContentStop"                               -> StopImage(e)
      [] e.type \in {"Error", "End"}                          -> DropImages
      [] OTHER                                                -> UNCHANGED sink

\* A write that fails shows nothing.
Shown == IF status' = "broken" THEN UNCHANGED sink ELSE Show(event')

(***************************************************************************)
(* The specification.                                                      *)
(***************************************************************************)
Streams == reply.form \in {"stream", "inband"}

Quiet == UNCHANGED <<reply, folded, delay, sink>>

RBodyEnd == Streams /\ BodyEnd /\ Quiet
RDrop == Streams /\ Drop /\ Quiet
RChunkRead == Streams /\ ChunkRead /\ Quiet
RFlush == Streams /\ FlushAtEof /\ Quiet
RYield == ~ Raw /\ Yield /\ Shown /\ UNCHANGED <<reply, folded, delay>>
RYieldEnd == ~ Raw /\ YieldEnd /\ Shown /\ UNCHANGED <<reply, folded, delay>>

RNext ==
    \/ Streams /\ PullChunk /\ Quiet
    \/ Streams /\ ReadFrame /\ Quiet
    \/ RChunkRead \/ RDrop \/ RBodyEnd \/ RFlush
    \/ FoldBody
    \/ RawChunk \/ RawDrop \/ RawEnd
    \/ RYield \/ RYieldEnd
    \/ Done /\ Quiet

\* The loop is one thread that goes on while it can; a chunk holds finitely many
\* frames; and a body that is asked again and again ends (see StreamEvents).
RFairness ==
    /\ WF_rvars(RChunkRead \/ RFlush \/ FoldBody)
    /\ WF_rvars(RYield \/ RYieldEnd)
    /\ SF_rvars(RBodyEnd \/ RDrop)
    /\ WF_rvars(RawDrop \/ RawEnd)

RSafe == RInit /\ [][RNext]_rvars
RSpec == RSafe /\ RFairness

(***************************************************************************)
(* Properties.                                                             *)
(***************************************************************************)
\* Every response that is decoded, whole or streamed, failed or never sent, reaches
\* the consumer as a canonical stream that ends in a verdict or an error
\* (ensure_terminal for aggregates, fail_inband where there is no response).
CanonicalInAnyForm == [][reply.form # "raw" => Abstract!Next]_<<client, status>>

\* The answer a server gives in one piece tells the same story as the answer it
\* would have streamed: the same blocks with the same fragments, the same verdict
\* and the same exit (decode_full).  Left out are the answers for which the code
\* differs: a Responses answer that is not complete or holds a refusal, and a claude
\* run that was cut short or garbled.
SameWholeAsStreamed(d, b) ==
    CASE b = Garbled -> TRUE
      [] b # Garbled /\ d = "responses" ->
            /\ b.status = "completed"
            /\ \A i \in 1..Len(b.output), p \in 1..2 :
                  p <= Len(b.output[i].parts) => b.output[i].parts[p] # "refusal"
      [] b # Garbled /\ d = "claude" -> b.result # "none" /\ ~ b.garbled
      [] OTHER -> TRUE

StreamStory(d, b) ==
    LET s == Replay(LAMBDA f, t : DecodeFrame(d, f, t), Default, Streamed(d, b))
    IN  Story(AtEof(s, TRUE, 0).out)

\* The story of the whole is the story of the stream (decode_full against decode).
WholeIsTheStream ==
    reply.form = "whole" /\ AtBody /\ SameWholeAsStreamed(dialect, reply.body)
        => Story(folded) = StreamStory(dialect, reply.body)

\* A failed response exits alike whether its body is decoded or passed through raw:
\* by its status, unless the transport dropped, and never with 0 unless it was 2xx.
ExitFollowsStatus ==
    status = "ended" /\ reply.form \in {"failed", "raw"} =>
        exit = CASE dropped -> 69
                 [] ~ dropped /\ reply.status \in 200..299 -> 0
                 [] ~ dropped /\ reply.status \in {401, 403} -> 77
                 [] ~ dropped /\ reply.status >= 500 -> 70
                 [] OTHER -> 69

\* Whatever the dialect, a provider that is throttling, broken, late or overloaded is
\* worth another try, also when it says so in mid-stream; and the dialects that name
\* every failure judge it as its status would be judged.
ThrottlingIsRetryable ==
    reply.form = "inband" =>
        LET k == InBandKind(dialect, reply.failure)
        IN  /\ reply.failure \in {429, 500, 504, 529} => Retryable(k)
            /\ dialect \in {"anthropic", "claude", "google"} => k = FromHttpStatus(reply.failure)

\* A failure is judged by what it is, however it was told: as a status with a body that is
\* decoded or passed through, or in mid-stream.
FailureIsJudgedAlike == ExitFollowsStatus /\ ThrottlingIsRetryable

LeapYear(y) == y % 4 = 0 /\ (y % 100 # 0 \/ y % 400 = 0)
MonthLength(y, m) ==
    CASE m \in {4, 6, 9, 11} -> 30 [] m = 2 -> IF LeapYear(y) THEN 29 ELSE 28 [] OTHER -> 31
\* For each month of year y, the days of y that are over when it begins.
MonthStart(y) ==
    LET before[m \in 1..12] == IF m = 1 THEN 0 ELSE before[m - 1] + MonthLength(y, m - 1)
    IN  before
DaysCounted(h) ==
    365 * (h.year - 1970) + Cardinality({y \in 1970..(h.year - 1) : LeapYear(y)})
    + MonthStart(h.year)[h.month] + h.day - 1

\* Whether h names a day of the calendar, from 1970 on, and a time of that day.
OnCalendar(h) ==
    /\ h.year >= 1970 /\ h.month \in 1..12 /\ h.day \in 1..MonthLength(h.year, h.month)
    /\ h.hour <= 23 /\ h.min <= 59 /\ h.sec <= 60

\* The moment that lies delay d after t.
Later(t, d) == <<t[1] + d[1] + (t[2] + d[2]) \div DayLength, (t[2] + d[2]) % DayLength>>

\* A Retry-After that names a day of the calendar is answered with the distance to it,
\* 0 where it has passed and the greatest delay there is where it is farther away.
RetryAfterIsTheDistance ==
    reply.form = "failed" /\ finished /\ reply.header.type = "date" =>
        LET h == reply.header
            target == Later(<<DaysCounted(h), 0>>, <<0, h.hour * 3600 + h.min * 60 + h.sec>>)
        IN  OnCalendar(h) =>
              IF Before(target, Now) THEN delay = <<0, 0>>
              ELSE IF Before(Later(Now, MaxDelay), target) THEN delay = MaxDelay
              ELSE Later(Now, delay) = target

\* Reasoning and answer are never run together: whatever the order in which they
\* interleave, a line break comes between a piece of reasoning and the answer after it.
ReasoningIsApart == ~ glued

\* The provider itself reported a failure while an image was open, or the answer came
\* whole and without a verdict: blocks stay open.
Aborted == wire.fault \/ (reply.form = "whole" /\ \A n \in DOMAIN folded : folded[n].type # "Finish")

\* Every image that arrived is a file when the run ends, also when the stream is cut
\* after it (TextSink::image and flush).
ImagesReachTheDisk == status = "ended" /\ ~ Aborted => files = arrived

\* The text sink shows what came: the answer apart from the reasoning, and every image.
SinkShowsTheAnswer == ReasoningIsApart /\ ImagesReachTheDisk

\* Every run ends, whatever form the response has: a body that is asked again and again
\* ends or fails, and all it decoded to is read out (StreamEvents::next, pump, raw).
RTerminates == <>(status # "running")
==============================================================================
