------------------------------ MODULE OllamaChat ------------------------------
(***************************************************************************)
(* protocol/ollama_chat/decode.  A frame is one NDJSON line with at most   *)
(* one element of `tool_calls` (see OpenAiChat on why that loses nothing).  *)
(***************************************************************************)
EXTENDS DecodeState

OllamaFrames ==
    [type : {"line"}, thinking : BOOLEAN, text : BOOLEAN, call : BOOLEAN, block : Pieces,
     done : BOOLEAN, reason : Reasons]
    \cup [type : {"error"}, kind : ErrorKinds]

LineThinking(f, s) == IF f.thinking THEN LazyDelta(s, "Thinking", "ThinkingDelta") ELSE s
LineText(f, s) == IF f.text THEN LazyDelta(s, "Text", "TextDelta") ELSE s

LineCall(f, s) ==
    LET i == NextIndex(s)
    IN  IF ~ f.call THEN s
        ELSE Emit(OpenBlock(s, i, "ToolUse", f.block), ContentDelta(i, "JsonDelta", f.block))

\* The reason is read before the drain: an open call overrides done_reason.
OllamaReason(reason, s) == IF OpenOf(s, "ToolUse") # {} THEN "ToolUse" ELSE reason

FinishLine(f, s) ==
    [Emit(Emit(Drain(s), Usage), Finish(OllamaReason(f.reason, s))) EXCEPT !.terminated = TRUE]

OllamaLine(f, s) ==
    LET t == LineCall(f, LineText(f, LineThinking(f, StartMessage(s))))
    IN  IF f.done THEN FinishLine(f, t) ELSE t

\* A mid-stream error is a bare string, so its kind is always Transport.
OllamaDecode(f, s) == IF f.type = "error" THEN Emit(s, Error("Transport")) ELSE OllamaLine(f, s)
==============================================================================
