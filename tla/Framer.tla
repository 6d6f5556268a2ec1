-------------------------------- MODULE Framer --------------------------------
(***************************************************************************)
(* The framers (protocol/sse.rs): they cut a byte stream, in whatever      *)
(* chunks it comes, into the frames a dialect decodes.                     *)
(*                                                                         *)
(* A text is a sequence of units: the bytes that framing looks at ("CR",   *)
(* "LF" and the three of a byte-order mark), and the contents of a line,   *)
(* each one unit: "data" with its number, "event" with its number, or a    *)
(* comment.  A line made of anything else is no field.                     *)
(***************************************************************************)
EXTENDS Integers, Sequences

Byte(b) == [unit |-> b, n |-> 0]
CR == Byte("CR")
LF == Byte("LF")
BOM == <<Byte("EF"), Byte("BB"), Byte("BF")>>
Comment == Byte("comment")
DataLine(n) == [unit |-> "data", n |-> n]
EventLine(n) == [unit |-> "event", n |-> n]

Kinds == {"CR", "LF", "EF", "BB", "BF", "comment", "data", "event"}
Units == [unit : Kinds, n : Nat]

Framings == {"Sse", "Ndjson", "Identity"}

\* Frame: the event line, 0 without one, and the payload.
NoFrame == [event |-> -1, data |-> <<>>]

\* SseDecoder; the other framers use the buffer only, or nothing.
NewDecoder == [buf |-> <<>>, scan |-> 0, bom_stripped |-> FALSE]

StartsWith(s, p) == Len(p) <= Len(s) /\ SubSeq(s, 1, Len(p)) = p
After(s, n) == SubSeq(s, n + 1, Len(s))

(***************************************************************************)
(* What is made of a block, or of a line, that is complete.                *)
(***************************************************************************)
StripCr(line) == IF line # <<>> /\ line[Len(line)] = CR THEN SubSeq(line, 1, Len(line) - 1) ELSE line

\* The number of a line that is the field `unit`, else 0.
FieldOf(line, unit) == IF Len(line) = 1 /\ line[1].unit = unit THEN line[1].n ELSE 0

Blank == [event |-> 0, data |-> <<>>]

\* A line of a block: the last event stands, data adds up, all else is ignored.
Noted(frame, line) ==
    CASE FieldOf(line, "event") # 0 -> [frame EXCEPT !.event = FieldOf(line, "event")]
      [] FieldOf(line, "data") # 0  -> [frame EXCEPT !.data = Append(@, FieldOf(line, "data"))]
      [] OTHER                      -> frame

\* The block is split at each LF, and what follows the last one is a line too.
BlockLines(block) ==
    LET upto[n \in 0..Len(block)] ==
            IF n = 0 THEN [frame |-> Blank, line |-> <<>>]
            ELSE LET before == upto[n - 1]
                 IN  IF block[n] = LF
                     THEN [frame |-> Noted(before.frame, StripCr(before.line)), line |-> <<>>]
                     ELSE [before EXCEPT !.line = Append(@, block[n])]
    IN  upto

ParseBlock(block) ==
    LET split == BlockLines(block)[Len(block)]
        frame == Noted(split.frame, StripCr(split.line))
    IN  IF frame = Blank THEN NoFrame ELSE frame

LineFrame(line) ==
    IF StripCr(line) = <<>> THEN NoFrame ELSE [event |-> 0, data |-> StripCr(line)]

Framed(frame) == IF frame = NoFrame THEN <<>> ELSE <<frame>>

(***************************************************************************)
(* Cutting the buffer.                                                     *)
(***************************************************************************)
\* strip_bom: decided once, as soon as the buffer is no proper prefix of a mark.
StripBom(d) ==
    IF d.bom_stripped THEN d
    ELSE IF Len(d.buf) < Len(BOM) /\ StartsWith(BOM, d.buf) THEN d
    ELSE [d EXCEPT !.bom_stripped = TRUE,
                   !.buf = IF StartsWith(@, BOM) THEN After(@, Len(BOM)) ELSE @]

\* find_frame_end, from the offset `from`: where a blank line ends.
FrameEnds(buf, from) ==
    {e \in (from + 2)..Len(buf) : buf[e - 1] = LF /\ buf[e] = LF}
    \cup {e \in (from + 4)..Len(buf) :
             buf[e - 3] = CR /\ buf[e - 2] = LF /\ buf[e - 1] = CR /\ buf[e] = LF}

LineEnds(buf, from) == {e \in (from + 1)..Len(buf) : buf[e] = LF}

EndsOf(framing, buf, from) == IF framing = "Sse" THEN FrameEnds(buf, from) ELSE LineEnds(buf, from)

\* A block is parsed with its end, a line without.
FrameOf(framing, block) ==
    IF framing = "Sse" THEN ParseBlock(block) ELSE LineFrame(SubSeq(block, 1, Len(block) - 1))

First(ends) == CHOOSE e \in ends : \A f \in ends : e <= f

\* One round of the loop of push: the first block that ends in the buffer is taken off
\* its front, and the search starts over.
Cut(framing, s) ==
    LET ends == EndsOf(framing, s.rest, s.scan)
        end == First(ends)
    IN  IF ends = {} THEN s
        ELSE [frames |-> s.frames \o Framed(FrameOf(framing, SubSeq(s.rest, 1, end))),
              rest |-> After(s.rest, end), scan |-> 0]

\* The loop itself, which has fewer rounds than the buffer has bytes.
Peel(framing, buf, from) ==
    LET round[k \in 0..Len(buf)] ==
            IF k = 0 THEN [frames |-> <<>>, rest |-> buf, scan |-> from]
            ELSE Cut(framing, round[k - 1])
    IN  round[Len(buf)]

\* Mutant: the search resumes one byte back, enough for LF LF only.
ResumeOne(n) == IF n > 1 THEN n - 1 ELSE 0

\* How far back the search resumes: a terminator may have begun three bytes ago.
Resume(n) == IF n > 3 THEN n - 3 ELSE 0

SsePush(d, chunk) ==
    LET s == StripBom([d EXCEPT !.buf = @ \o chunk])
        peeled == Peel("Sse", s.buf, s.scan)
    IN  IF ~ s.bom_stripped THEN [decoder |-> s, frames |-> <<>>]
        ELSE [decoder |-> [s EXCEPT !.buf = peeled.rest, !.scan = Resume(Len(peeled.rest))],
              frames |-> peeled.frames]

NdjsonPush(d, chunk) ==
    LET peeled == Peel("Ndjson", d.buf \o chunk, 0)
    IN  [decoder |-> [d EXCEPT !.buf = peeled.rest], frames |-> peeled.frames]

(***************************************************************************)
(* Any framing.                                                            *)
(***************************************************************************)
Push(framing, d, chunk) ==
    CASE framing = "Sse"      -> SsePush(d, chunk)
      [] framing = "Ndjson"   -> NdjsonPush(d, chunk)
      [] framing = "Identity" -> [decoder |-> d, frames |-> <<[event |-> 0, data |-> chunk]>>]

\* finish: the last frame need not be terminated.
Finish(framing, d) ==
    [decoder |-> [d EXCEPT !.buf = <<>>],
     frames |-> CASE framing = "Sse"      -> Framed(ParseBlock(d.buf))
                  [] framing = "Ndjson"   -> Framed(LineFrame(d.buf))
                  [] framing = "Identity" -> <<>>]
==============================================================================
