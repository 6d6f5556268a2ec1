------------------------------ MODULE OpenAiChat ------------------------------
(***************************************************************************)
(* protocol/openai/decode: the chat-completions dialect.                   *)
(*                                                                         *)
(* A frame carries at most one element of the wire's `tool_calls` array.   *)
(* The loop over that array threads the same state and the same vector     *)
(* through each element, so a chunk with several calls decodes exactly as  *)
(* the same number of frames that arrive in one transport chunk.           *)
(***************************************************************************)
EXTENDS DecodeState

NoTool == -1

\* `tool` is the wire index of a call, `args` whether it carries an arguments
\* fragment, `block` its identity; `finish` is the canonical finish_reason.
ChatFrames ==
    [type : {"chunk"}, thinking : BOOLEAN, text : BOOLEAN, refusal : BOOLEAN,
     tool : Nat \cup {NoTool}, args : BOOLEAN, block : Pieces,
     finish : Reasons \cup {"none"}, usage : BOOLEAN]
    \cup [type : {"done"}]
    \cup [type : {"error"}, kind : ErrorKinds]

\* blocks::tool_call: the first sight of a wire index opens its block, later
\* fragments are routed through tool_index (which is never pruned).
ToolCall(f, s) ==
    LET t == IF f.tool \in DOMAIN s.tool_index THEN s
             ELSE OpenBlock([s EXCEPT !.tool_index = Insert(@, f.tool, NextIndex(s))],
                            NextIndex(s), "ToolUse", f.block)
    IN  IF f.args THEN Emit(t, ContentDelta(t.tool_index[f.tool], "JsonDelta", f.block)) ELSE t

\* blocks::finish: close every block, then the verdict; a streamed refusal wins.
FinishChat(reason, s) ==
    [Emit(Drain(s), Finish(IF s.refusal THEN "Refusal" ELSE reason)) EXCEPT !.terminated = TRUE]

\* The parts of a chunk, in the order the code reads them.
ChatThinking(f, s) == IF f.thinking THEN LazyDelta(s, "Thinking", "ThinkingDelta") ELSE s
ChatText(f, s) == IF f.text THEN LazyDelta(s, "Text", "TextDelta") ELSE s
ChatRefusal(f, s) == [s EXCEPT !.refusal = @ \/ f.refusal]
ChatTool(f, s) == IF f.tool = NoTool THEN s ELSE ToolCall(f, s)
ChatFinish(f, s) == IF f.finish = "none" THEN s ELSE FinishChat(f.finish, s)
ChatUsage(f, s) == IF f.usage THEN Emit(s, Usage) ELSE s

ChatChunk(f, s) ==
    ChatUsage(f, ChatFinish(f, ChatTool(f, ChatRefusal(f,
        ChatText(f, ChatThinking(f, StartMessage(s)))))))

ChatDecode(f, s) ==
    CASE f.type = "done"  -> [s EXCEPT !.terminated = TRUE]
      [] f.type = "error" -> Emit(s, Error(f.kind))
      [] f.type = "chunk" -> ChatChunk(f, s)
==============================================================================
