--------------------------------- MODULE Body ---------------------------------
(***************************************************************************)
(* The body of a streaming response, from the connection to the frames:    *)
(* the reader of IdleReader and, on top of what it hands on, a framer, as  *)
(* StreamEvents::next joins them (run/events/stream.rs).                   *)
(***************************************************************************)
EXTENDS IdleReader

F == INSTANCE Framer

CONSTANTS Texts     \* bound: what the server may be in the course of sending

\* A server ends its lines one way: with LF, or with CR LF.
LinesEndAlike(t) ==
    \/ \A i \in DOMAIN t : t[i] = F!LF => i = 1 \/ t[i - 1] # F!CR
    \/ \A i \in DOMAIN t : t[i] = F!LF => i > 1 /\ t[i - 1] = F!CR

ASSUME TextsAssumption ==
    \A t \in Texts : t \in Seq(F!Units) /\ Len(t) <= MaxSent /\ LinesEndAlike(t)

VARIABLES
    text, framing,      \* what the server sends; the framer of the dialect
    decoder, frames     \* its state; the frames it has made

all == <<vars, text, framing, decoder, frames>>

\* The bytes numbered by `flow`.
Bytes(flow) == [i \in 1..Len(flow) |-> text[flow[i]]]

BodyInit ==
    /\ Init
    /\ text \in Texts /\ framing \in F!Framings
    /\ decoder = F!NewDecoder /\ frames = <<>>

\* The driver pushes each chunk as it comes and, when the body has ended well,
\* flushes what is left; a failed body is not flushed.
Frame ==
    LET r == IF got' # got THEN F!Push(framing, decoder, Bytes(F!After(got', Len(got))))
             ELSE IF verdict' = "ended" /\ verdict = "open" THEN F!Finish(framing, decoder)
             ELSE [decoder |-> decoder, frames |-> <<>>]
    IN  /\ decoder' = r.decoder /\ frames' = frames \o r.frames
        /\ UNCHANGED <<text, framing>>

BodyNext == Next /\ sent' <= Len(text) /\ Frame

\* The framer asks for nothing of its own: the fairness is the reader's.
BodySpec == BodyInit /\ [][BodyNext]_all /\ Fairness

(***************************************************************************)
(* Properties.                                                             *)
(***************************************************************************)
\* What the standards say of a text, line by line: of JSON lines each that is not blank
\* is a frame; of events a field is noted, and a blank line dispatches what was noted
\* since the last one.
Unmarked(t) == IF F!StartsWith(t, F!BOM) THEN F!After(t, 3) ELSE t

Dispatch(s) ==
    IF s.noted = F!Blank THEN s ELSE [s EXCEPT !.noted = F!Blank, !.done = Append(@, s.noted)]

Line(f, s) ==
    LET line == F!StripCr(s.line)
        noted == IF f = "Sse" THEN F!Noted(s.noted, line) ELSE [event |-> 0, data |-> line]
        read == [line |-> <<>>, noted |-> noted, done |-> s.done]
    IN  IF f = "Sse" /\ line # <<>> THEN read ELSE Dispatch(read)

Unread == [line |-> <<>>, noted |-> F!Blank, done |-> <<>>]

\* What is known after n bytes.
Reading(f, t) ==
    LET read[n \in 0..Len(t)] ==
            IF n = 0 THEN Unread
            ELSE LET before == read[n - 1]
                 IN  IF t[n] = F!LF THEN Line(f, before)
                     ELSE [before EXCEPT !.line = Append(@, t[n])]
    IN  read

\* The frames of a text so far.  With `whole` nothing will follow: the last line need
\* not be ended, nor the last event be dispatched.
FramesOf(f, t, whole) ==
    LET read == Reading(f, t)[Len(t)]
    IN  IF whole THEN Dispatch(Line(f, read)).done ELSE read.done

\* The payloads of the first n frames.
Contents(all_frames) ==
    LET upto[n \in 0..Len(all_frames)] ==
            IF n = 0 THEN <<>> ELSE upto[n - 1] \o all_frames[n].data
    IN  upto[Len(all_frames)]

\* The frames are those of the text received so far, no later and no fewer, however
\* reads and stalls have cut it: the chunks cannot be told from the frames.
FramesAreTheText ==
    CASE framing = "Sse"      -> frames = FramesOf("Sse", Unmarked(Bytes(got)), verdict = "ended")
      [] framing = "Ndjson"   -> frames = FramesOf("Ndjson", Bytes(got), verdict = "ended")
      [] framing = "Identity" -> Contents(frames) = Bytes(got)
==============================================================================
