------------------------------ MODULE GoogleGenai ------------------------------
(***************************************************************************)
(* protocol/google_genai/decode (also google_cloudcode, which unwraps an   *)
(* envelope and calls the same functions).  A frame carries at most one    *)
(* element of the wire's `parts` array; as in OpenAiChat, a longer array   *)
(* is the same number of frames in one transport chunk.                    *)
(***************************************************************************)
EXTENDS DecodeState

\* A text part is flagged as thought or not; a call may carry a signature;
\* `blocked` is promptFeedback, `finish` the canonical finishReason.
GenaiFrames ==
    [type : {"chunk"}, text : BOOLEAN, thought : BOOLEAN, call : BOOLEAN, signature : BOOLEAN,
     image : BOOLEAN, block : Pieces, finish : Reasons \cup {"none"}, blocked : BOOLEAN, usage : BOOLEAN]
    \cup [type : {"error"}, kind : ErrorKinds]

PartText(f, s) ==
    CASE ~ f.text -> s
      [] f.text /\ f.thought -> LazyDelta(s, "Thinking", "ThinkingDelta")
      [] f.text /\ ~ f.thought -> LazyDelta(s, "Text", "TextDelta")

\* A call is whole: start, arguments and, when signed, the signature.
PartCall(f, s) ==
    LET i == NextIndex(s)
        t == Emit(OpenBlock(s, i, "ToolUse", f.block), ContentDelta(i, "JsonDelta", f.block))
    IN  IF ~ f.call THEN s
        ELSE IF f.signature THEN Emit(t, ContentDelta(i, "SignatureDelta", f.block)) ELSE t

PartImage(f, s) ==
    LET i == NextIndex(s)
    IN  IF ~ f.image THEN s
        ELSE Emit(OpenBlock(s, i, "Image", f.block), ContentDelta(i, "ImageDelta", f.block))

\* The wire has no tool-use reason: an open call means the model wants a tool run.
GenaiReason(reason, s) == IF OpenOf(s, "ToolUse") # {} THEN "ToolUse" ELSE reason

GenaiUsage(f, s) == IF f.usage THEN Emit(s, Usage) ELSE s

GenaiTerminate(reason, f, s) ==
    [Emit(GenaiUsage(f, Drain(s)), Finish(reason)) EXCEPT !.terminated = TRUE]

GenaiEnd(f, s) ==
    CASE f.finish # "none" -> GenaiTerminate(GenaiReason(f.finish, s), f, s)
      [] f.finish = "none" /\ f.blocked -> GenaiTerminate("Refusal", f, s)
      [] OTHER -> GenaiUsage(f, s)

GenaiChunk(f, s) == GenaiEnd(f, PartImage(f, PartCall(f, PartText(f, StartMessage(s)))))

GenaiDecode(f, s) == IF f.type = "error" THEN Emit(s, Error(f.kind)) ELSE GenaiChunk(f, s)
==============================================================================
