------------------------------ MODULE ClaudeCode ------------------------------
(***************************************************************************)
(* protocol/claude_code/decode: the NDJSON of a `claude` subprocess.       *)
(***************************************************************************)
EXTENDS AnthropicMessages

\* `tag` classifies the error field of an assistant line, `status` api_error_status.
ClaudeFrames ==
    [type : {"stream_event"}, event : MessagesFrames]
    \cup [type : {"assistant"}, tag : {"none", "auth", "other"}]
    \cup [type : {"result"}, is_error : BOOLEAN, status : {"none"} \cup DOMAIN StatusKind]

\* result_error: the status governs, then the tag an earlier line carried.
ResultKind(f, s) ==
    CASE f.status # "none" -> StatusKind[f.status]
      [] f.status = "none" /\ s.error_tag -> "Auth"
      [] OTHER -> "Transport"

\* result_events: the last line always terminates the stream, and closes nothing.
Result(f, s) ==
    LET t == [s EXCEPT !.terminated = TRUE]
    IN  CASE f.is_error -> Emit(t, Error(ResultKind(f, s)))
          [] ~ f.is_error /\ s.terminated -> t
          [] OTHER -> Emit(t, Error("Transport"))

ClaudeDecode(f, s) ==
    CASE f.type = "stream_event" -> MessagesDecode(f.event, s)
      [] f.type = "assistant" /\ f.tag # "none" -> [s EXCEPT !.error_tag = (f.tag = "auth")]
      [] f.type = "result" -> Result(f, s)
      [] OTHER -> s
==============================================================================
