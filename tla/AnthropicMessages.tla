--------------------------- MODULE AnthropicMessages ---------------------------
(***************************************************************************)
(* protocol/anthropic/decode: the dialect whose wire already numbers and   *)
(* delimits its blocks.  "unknown" is a block or delta type the decoder    *)
(* does not track.                                                         *)
(***************************************************************************)
EXTENDS DecodeState

MessagesFrames ==
    [type : {"message_start"}, usage : BOOLEAN]
    \cup [type : {"content_block_start"}, index : Nat, kind : Kinds \cup {"unknown"}, block : Pieces]
    \cup [type : {"content_block_delta"}, index : Nat, delta : Deltas \cup {"unknown"}, block : Pieces]
    \cup [type : {"content_block_stop"}, index : Nat]
    \cup [type : {"message_delta"}, reason : Reasons \cup {"none"}, usage : BOOLEAN]
    \cup [type : {"message_stop", "ping"}]
    \cup [type : {"error"}, kind : ErrorKinds]

MessagesUsage(f, s) == IF f.usage THEN Emit(s, Usage) ELSE s

MessageStartEvent(f, s) == MessagesUsage(f, Emit(s, MessageStart))

ContentBlockStart(f, s) ==
    IF f.kind = "unknown" THEN s ELSE OpenBlock(s, f.index, f.kind, f.block)

ContentBlockDelta(f, s) ==
    IF f.index \notin DOMAIN s.open \/ f.delta = "unknown" THEN s
    ELSE Emit(s, ContentDelta(f.index, f.delta, f.block))

ContentBlockStop(f, s) ==
    IF f.index \notin DOMAIN s.open THEN s
    ELSE Emit([s EXCEPT !.open = Remove(@, f.index)], ContentStop(f.index))

\* Usage first, and a verdict only when the delta names a stop_reason.
MessageDelta(f, s) ==
    LET t == MessagesUsage(f, s)
    IN  IF f.reason = "none" THEN t ELSE Emit(t, Finish(f.reason))

\* message_stop ends the stream but closes nothing; every other event is ignored.
MessagesDecode(f, s) ==
    CASE f.type = "message_start"       -> MessageStartEvent(f, s)
      [] f.type = "content_block_start" -> ContentBlockStart(f, s)
      [] f.type = "content_block_delta" -> ContentBlockDelta(f, s)
      [] f.type = "content_block_stop"  -> ContentBlockStop(f, s)
      [] f.type = "message_delta"       -> MessageDelta(f, s)
      [] f.type = "message_stop"        -> [s EXCEPT !.terminated = TRUE]
      [] f.type = "error"               -> Emit(s, Error(f.kind))
      [] OTHER                          -> s
==============================================================================
