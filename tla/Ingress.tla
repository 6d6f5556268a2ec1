-------------------------------- MODULE Ingress --------------------------------
(***************************************************************************)
(* What a masqueraded client reads: the encoders that turn the canonical   *)
(* stream back into the dialect the client speaks (ingress/state.rs,       *)
(* ingress/openai_chat, ingress/anthropic_messages).                       *)
(*                                                                         *)
(* An encoder is a function from an event and a state to a state, and the  *)
(* bytes it returns are the field `out`, which the caller empties before   *)
(* every call.  A frame carries `told`: whether the comment that announces *)
(* a lossy adaptation goes before it.                                      *)
(*                                                                         *)
(* An answer `a` is identified by the turn it belongs to; `text` is what   *)
(* its text says, `provider` the dialect it came in, and `explained`       *)
(* whether a refusal comes with a text.                                    *)
(***************************************************************************)
EXTENDS DecodeState

NoTurn == <<"none", 0>>

\* The id of a call, echoed by the client and so a key of the replay stash.  Two
\* providers name no call; for them the decoder numbers the calls of an answer.
CallId(a, e) ==
    [of |-> IF a.provider \in {"google", "ollama"} THEN NoTurn ELSE a.turn, call |-> e.index]

\* content_key: the key of a turn without calls.
ContentKey(text) == [text |-> text]

(***************************************************************************)
(* IngressState.  `finish` is the verdict in either dialect and `counted`  *)
(* whether a Usage has come; `tools`, `text` and `blocks` are the chat     *)
(* fold and what it keeps for the stash, `content` the messages fold.      *)
(***************************************************************************)
ForRequest(d, a, knobs, adapted) ==
    [dialect |-> d, answer |-> a, stream |-> knobs.stream, include_usage |-> knobs.include_usage,
     pending |-> adapted, adapted |-> adapted, slots |-> EmptyFn, text |-> <<>>, refusal |-> FALSE,
     tools |-> <<>>, finish |-> "none", counted |-> FALSE, error |-> 0, blocks |-> <<>>,
     stash |-> {}, content |-> <<>>, out |-> <<>>]

StatusOf(s) == IF s.error = 0 THEN 200 ELSE s.error

\* ErrorKind::http_status; a Provider's own status by a representative of its class.
HttpStatus == [k \in ErrorKinds |->
    CASE k \in {"Usage", "ParseInput"} -> 400
      [] k = "Auth"                    -> 401
      [] k = "Transport"               -> 502
      [] k = "Provider4xx"             -> 404
      [] k = "Provider5xx"             -> 503
      [] OTHER                         -> 500]

\* emit: a frame of a streamed answer, which carries the announcement that is pending.
Frame(s, f) ==
    IF s.stream
    THEN [s EXCEPT !.out = Append(@, [told |-> s.pending, frame |-> f]), !.pending = FALSE]
    ELSE s

\* The one body of an answer that is not streamed.
Whole(s, b) ==
    [s EXCEPT !.out = Append(@, [told |-> s.adapted,
                                 frame |-> IF s.error # 0 THEN [type |-> "error", status |-> s.error]
                                           ELSE b])]

\* Mutant: the error is a frame like any other.
ErrorFrameOnly(e, s) == Frame(s, [type |-> "error", status |-> HttpStatus[e.kind]])

ErrorFrame(e, s) ==
    LET t == [s EXCEPT !.error = HttpStatus[e.kind]]
    IN  Frame(t, [type |-> "error", status |-> t.error])

Slot(s, i, slot) == [s EXCEPT !.slots = Insert(@, i, slot)]

\* The slot of block i, if there is one and its type is one of `types`.
Routes(s, i, types) == i \in DOMAIN s.slots /\ s.slots[i].type \in types

(***************************************************************************)
(* Chat.  A call is known to the client by its position among the calls.   *)
(***************************************************************************)
Thinks(payload) == [type |-> "Thinking", payload |-> payload]

\* Mutant: the calls are numbered as the canonical blocks are.
CallStartByIndex(e, s) ==
    LET id == CallId(s.answer, e)
    IN  Frame([Slot(s, e.index, [type |-> "Tool", at |-> Len(s.tools) + 1]) EXCEPT
                  !.tools = Append(@, [id |-> id, args |-> <<>>, signed |-> FALSE])],
              [type |-> "tool", index |-> e.index, id |-> id])

CallStart(e, s) ==
    LET id == CallId(s.answer, e)
        n == Len(s.tools)
    IN  Frame([Slot(s, e.index, [type |-> "Tool", at |-> n + 1]) EXCEPT
                  !.tools = Append(@, [id |-> id, args |-> <<>>, signed |-> FALSE])],
              [type |-> "tool", index |-> n, id |-> id])

ChatStart(e, s) ==
    CASE e.kind = "Text"     -> Slot(s, e.index, [type |-> "Text"])
      [] e.kind = "ToolUse"  -> CallStart(e, s)
      [] e.kind = "Thinking" -> Slot(s, e.index, Thinks(s.answer.provider = "responses"))
      [] e.kind = "RedactedThinking" ->
            [Slot(s, e.index, [type |-> "Skip"]) EXCEPT
                !.blocks = Append(@, [type |-> "RedactedThinking", turn |-> s.answer.turn])]
      [] OTHER -> Slot(s, e.index, [type |-> "Skip"])

ChatFragment(e, s) ==
    CASE Routes(s, e.index, {"Text"}) /\ e.delta = "TextDelta" ->
            Frame([s EXCEPT !.text = Append(@, e.block)], [type |-> "content", block |-> e.block])
      [] Routes(s, e.index, {"Tool"}) /\ e.delta = "JsonDelta" ->
            LET n == s.slots[e.index].at
            IN  Frame([s EXCEPT !.tools[n].args = Append(@, e.block)],
                      [type |-> "args", index |-> n - 1, block |-> e.block])
      [] Routes(s, e.index, {"Tool"}) /\ e.delta = "SignatureDelta" ->
            [s EXCEPT !.tools[s.slots[e.index].at].signed = TRUE]
      [] Routes(s, e.index, {"Thinking"}) /\ e.delta \in {"SignatureDelta", "EncryptedReasoningDelta"} ->
            Slot(s, e.index, Thinks(TRUE))
      [] OTHER -> s

\* close: what the client's dialect cannot carry is kept for the stash.
Close(i, s) ==
    LET t == [s EXCEPT !.slots = Remove(@, i)]
    IN  CASE Routes(s, i, {"Thinking"}) /\ s.slots[i].payload ->
                [t EXCEPT !.blocks = Append(@, [type |-> "Thinking", turn |-> s.answer.turn])]
          [] Routes(s, i, {"Tool"}) /\ s.tools[s.slots[i].at].signed ->
                [t EXCEPT !.blocks = Append(@, [type |-> "ToolUse", turn |-> s.answer.turn,
                                                id |-> s.tools[s.slots[i].at].id])]
          [] OTHER -> t

\* A refusal with a text is told in its own channel, and the turn has stopped.
ChatReason(r, explained) ==
    CASE r \in {"Stop", "StopSequence", "Pause"} -> "stop"
      [] r = "Length"  -> "length"
      [] r = "ToolUse" -> "tool_calls"
      [] r = "Refusal" -> IF explained THEN "stop" ELSE "content_filter"
      [] OTHER         -> "other"

ChatVerdict(r, s) ==
    LET said == r = "Refusal" /\ s.answer.explained
        t == IF said THEN Frame([s EXCEPT !.refusal = TRUE], [type |-> "refusal"]) ELSE s
        fr == ChatReason(r, s.answer.explained)
    IN  [Frame(t, [type |-> "finish", reason |-> fr]) EXCEPT !.finish = fr]

ChatUsageFrame(s) ==
    LET t == [s EXCEPT !.counted = TRUE]
    IN  IF s.include_usage THEN Frame(t, [type |-> "usage"]) ELSE t

Keys(s) ==
    IF s.tools = <<>> THEN {ContentKey(IF s.text = <<>> THEN 0 ELSE s.answer.text)}
    ELSE {s.tools[n].id : n \in 1..Len(s.tools)}

FinishStash(s) ==
    IF s.blocks = <<>> THEN s
    ELSE [s EXCEPT !.stash = {[key |-> k, payload |-> s.blocks] : k \in Keys(s)}]

ChatBody(s) ==
    [type |-> "completion", text |-> s.text, refusal |-> s.refusal,
     tools |-> [n \in 1..Len(s.tools) |-> [id |-> s.tools[n].id, args |-> s.tools[n].args]],
     finish |-> s.finish, usage |-> s.counted]

ChatEnd(s) ==
    LET t == FinishStash(s)
    IN  IF s.stream THEN Frame(t, [type |-> "done"]) ELSE Whole(t, ChatBody(t))

ChatEncode(e, s) ==
    CASE e.type = "MessageStart" -> Frame(s, [type |-> "role"])
      [] e.type = "ContentStart" -> ChatStart(e, s)
      [] e.type = "ContentDelta" -> ChatFragment(e, s)
      [] e.type = "ContentStop"  -> Close(e.index, s)
      [] e.type = "Usage"        -> ChatUsageFrame(s)
      [] e.type = "Finish"       -> ChatVerdict(e.reason, s)
      [] e.type = "Error"        -> ErrorFrame(e, s)
      [] e.type = "End"          -> ChatEnd(s)

(***************************************************************************)
(* Messages.  Blocks keep the canonical index.                             *)
(***************************************************************************)
Native == {"Text", "ToolUse", "ServerToolUse", "Thinking", "RedactedThinking", "ServerToolResult"}

MessagesStart(e, s) ==
    IF e.kind \in Native
    THEN LET id == CallId(s.answer, e)
         IN  Frame(Slot(s, e.index, [type |-> e.kind, id |-> id, said |-> <<>>]),
                   [type |-> "content_block_start", index |-> e.index, kind |-> e.kind, id |-> id])
    ELSE Slot(s, e.index, [type |-> "Skip"])

\* The types of block a delta is for.
Holders(delta) ==
    CASE delta = "TextDelta" -> {"Text"}
      [] delta = "JsonDelta" -> {"ToolUse", "ServerToolUse"}
      [] delta \in {"ThinkingDelta", "SignatureDelta"} -> {"Thinking"}
      [] OTHER -> {}

MessagesFragment(e, s) ==
    IF Routes(s, e.index, Holders(e.delta))
    THEN Frame([s EXCEPT !.slots[e.index].said = Append(@, <<e.delta, e.block>>)],
               [type |-> "content_block_delta", index |-> e.index, said |-> <<e.delta, e.block>>])
    ELSE s

MessagesStop(i, s) ==
    LET t == [s EXCEPT !.slots = Remove(@, i)]
    IN  IF Routes(s, i, Native)
        THEN Frame([t EXCEPT !.content = Append(@, s.slots[i])], [type |-> "content_block_stop", index |-> i])
        ELSE t

MessagesVerdict(r, s) ==
    [Frame(s, [type |-> "message_delta", reason |-> r, usage |-> s.counted]) EXCEPT !.finish = r]

\* Mutant: an answer that failed is closed like any other.
MessagesEndAlways(s) ==
    IF s.stream THEN Frame(s, [type |-> "message_stop"])
    ELSE Whole(s, [type |-> "message", content |-> s.content, finish |-> s.finish, usage |-> s.counted])

MessagesEnd(s) ==
    CASE s.stream /\ s.error = 0 -> Frame(s, [type |-> "message_stop"])
      [] s.stream /\ s.error # 0 -> s
      [] OTHER -> Whole(s, [type |-> "message", content |-> s.content, finish |-> s.finish,
                            usage |-> s.counted])

MessagesEncode(e, s) ==
    CASE e.type = "MessageStart" -> Frame(s, [type |-> "message_start"])
      [] e.type = "ContentStart" -> MessagesStart(e, s)
      [] e.type = "ContentDelta" -> MessagesFragment(e, s)
      [] e.type = "ContentStop"  -> MessagesStop(e.index, s)
      [] e.type = "Usage"        -> [s EXCEPT !.counted = TRUE]
      [] e.type = "Finish"       -> MessagesVerdict(e.reason, s)
      [] e.type = "Error"        -> ErrorFrame(e, s)
      [] e.type = "End"          -> MessagesEnd(s)

EncodeResponse(e, s) == IF s.dialect = "chat" THEN ChatEncode(e, s) ELSE MessagesEncode(e, s)
==============================================================================
