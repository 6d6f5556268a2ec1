------------------------------ MODULE WholeBody ------------------------------
(***************************************************************************)
(* decode_full of every dialect: a complete answer that was not streamed   *)
(* is exploded back into the frames of a stream and replayed through the   *)
(* handlers of the streaming decode.                                       *)
(*                                                                         *)
(* A body is what its server has to say, item by item; XStream(b) are the  *)
(* frames the same server would have streamed for it (external).  A body   *)
(* that reports an error in a 200 has none of the fields the fold reads,   *)
(* and so is the body without content and without verdict.                 *)
(***************************************************************************)
EXTENDS Provider
LOCAL SX == INSTANCE SequencesExt

\* Positions of the calls, blocks or items of a body, counting from 0.
Numbered(n) == [i \in 1..n |-> i - 1]
PositionsOf(q) == Numbered(Len(q))

\* The state after the frames of a sequence.
Replay(Step(_, _), s, frames) == SX!FoldLeft(LAMBDA t, f : Step(f, t), s, frames)

(***************************************************************************)
(* OpenAI chat: one message; the calls get their position as the index.    *)
(***************************************************************************)
ChatBodies ==
    [type : {"message"}, thinking : BOOLEAN, text : BOOLEAN, refusal : BOOLEAN,
     calls : 0..MaxBlocks, finish : {"none", "Stop", "Length"}, usage : BOOLEAN]

ChatDelta(b) ==
    [type |-> "chunk", thinking |-> b.thinking, text |-> b.text, refusal |-> b.refusal,
     tool |-> NoTool, args |-> FALSE, block |-> "", finish |-> b.finish, usage |-> b.usage]

ChatCall(f, i) == [f EXCEPT !.tool = i, !.args = TRUE, !.block = BlockName(i)]

\* Mutant: the calls keep the index they carry, which is none (read as 0).
ChatFullUnindexed(b, s) ==
    LET f == ChatDelta(b)
        t == ChatRefusal(f, ChatText(f, ChatThinking(f, StartMessage(s))))
        u == Replay(LAMBDA i, v : ToolCall([ChatCall(f, i) EXCEPT !.tool = 0], v), t, Numbered(b.calls))
    IN  ChatUsage(f, ChatFinish(f, u))

ChatFull(b, s) ==
    LET f == ChatDelta(b)
        t == ChatRefusal(f, ChatText(f, ChatThinking(f, StartMessage(s))))
        u == Replay(LAMBDA i, v : ToolCall(ChatCall(f, i), v), t, Numbered(b.calls))
    IN  ChatUsage(f, ChatFinish(f, u))

Without(f) == [f EXCEPT !.thinking = FALSE, !.text = FALSE, !.refusal = FALSE, !.finish = "none", !.usage = FALSE]

ChatStream(b) ==
    LET f == ChatDelta(b)
    IN  <<[Without(f) EXCEPT !.thinking = b.thinking], [Without(f) EXCEPT !.text = b.text],
          [Without(f) EXCEPT !.refusal = b.refusal]>>
        \o [i \in 1..b.calls |-> ChatCall(Without(f), i - 1)]
        \o <<[Without(f) EXCEPT !.finish = b.finish], [Without(f) EXCEPT !.usage = b.usage]>>
        \o IF b.finish = "none" THEN <<>> ELSE <<[type |-> "done"]>>

(***************************************************************************)
(* Anthropic messages: a list of finished blocks.                          *)
(***************************************************************************)
WholeBlocks == {"Text", "ToolUse", "Thinking", "RedactedThinking", "unknown"}

UpTo(S, n) == UNION {[1..k -> S] : k \in 0..n}

MessagesBodies ==
    [type : {"message"}, content : UpTo(WholeBlocks, MaxBlocks), signed : BOOLEAN,
     reason : {"none", "Stop", "ToolUse"}, usage : BOOLEAN]

\* The deltas a finished block fans out to; a signature comes last.
BlockDeltas(k, signed) ==
    CASE k = "Text"     -> <<"TextDelta">>
      [] k = "ToolUse"  -> <<"JsonDelta">>
      [] k = "Thinking" -> IF signed THEN <<"ThinkingDelta", "SignatureDelta">> ELSE <<"ThinkingDelta">>
      [] OTHER          -> <<>>

MessagesDeltaFrame(i, d) ==
    [type |-> "content_block_delta", index |-> i, delta |-> d, block |-> BlockName(i)]
MessagesStartFrame(i, k) ==
    [type |-> "content_block_start", index |-> i, kind |-> k, block |-> BlockName(i)]

ExplodeBlock(i, b, s) ==
    LET t == ContentBlockStart(MessagesStartFrame(i, b.content[i + 1]), s)
        u == Replay(LAMBDA d, v : ContentBlockDelta(MessagesDeltaFrame(i, d), v), t,
                    BlockDeltas(b.content[i + 1], b.signed))
    IN  ContentBlockStop([index |-> i], u)

\* The body's usage rides on message_start; message_delta brings the verdict alone.
MessagesFull(b, s) ==
    MessageDelta([reason |-> b.reason, usage |-> FALSE],
        Replay(LAMBDA i, v : ExplodeBlock(i, b, v), MessageStartEvent([usage |-> b.usage], s),
               PositionsOf(b.content)))

MessagesStream(b) ==
    <<[type |-> "message_start", usage |-> b.usage]>>
    \o SX!FlattenSeq([i \in 1..Len(b.content) |->
            <<MessagesStartFrame(i - 1, b.content[i])>>
            \o [n \in 1..Len(BlockDeltas(b.content[i], b.signed)) |->
                    MessagesDeltaFrame(i - 1, BlockDeltas(b.content[i], b.signed)[n])]
            \o <<[type |-> "content_block_stop", index |-> i - 1]>>])
    \o IF b.reason = "none" THEN <<>>
       ELSE <<[type |-> "message_delta", reason |-> b.reason, usage |-> b.usage], [type |-> "message_stop"]>>

(***************************************************************************)
(* Google and Ollama: the whole answer is one chunk, or one line.          *)
(***************************************************************************)
GenaiParts == {"text", "thought", "call", "signed", "image"}

GenaiBodies ==
    [type : {"response"}, parts : UpTo(GenaiParts, MaxBlocks + 1),
     finish : {"none", "Stop", "Length"}, blocked : {FALSE}, usage : BOOLEAN]
    \cup [type : {"response"}, parts : {<<>>}, finish : {"none"}, blocked : {TRUE}, usage : BOOLEAN]

GenaiPart(b, i) ==
    LET p == b.parts[i + 1]
    IN  [type |-> "chunk", text |-> p \in {"text", "thought"}, thought |-> p = "thought",
         call |-> p \in {"call", "signed"}, signature |-> p = "signed", image |-> p = "image",
         block |-> BlockName(i), finish |-> "none", blocked |-> FALSE, usage |-> FALSE]

\* The fields of the chunk that are not parts.
GenaiLast(b) ==
    [type |-> "chunk", text |-> FALSE, thought |-> FALSE, call |-> FALSE, signature |-> FALSE,
     image |-> FALSE, block |-> "", finish |-> b.finish, blocked |-> b.blocked, usage |-> b.usage]

GenaiFull(b, s) ==
    GenaiEnd(GenaiLast(b),
        Replay(LAMBDA i, v : PartImage(GenaiPart(b, i), PartCall(GenaiPart(b, i), PartText(GenaiPart(b, i), v))),
               StartMessage(s), PositionsOf(b.parts)))

GenaiStream(b) == [i \in 1..Len(b.parts) |-> GenaiPart(b, i - 1)] \o <<GenaiLast(b)>>

OllamaBodies ==
    [type : {"line"}, thinking : BOOLEAN, text : BOOLEAN, calls : 0..MaxBlocks,
     done : BOOLEAN, reason : {"Stop", "Length"}]

OllamaLast(b) ==
    [type |-> "line", thinking |-> b.thinking, text |-> b.text, call |-> FALSE, block |-> "",
     done |-> b.done, reason |-> b.reason]
OllamaCall(i) ==
    [type |-> "line", thinking |-> FALSE, text |-> FALSE, call |-> TRUE, block |-> BlockName(i),
     done |-> FALSE, reason |-> "Stop"]

OllamaFull(b, s) ==
    LET f == OllamaLast(b)
        t == Replay(LAMBDA i, v : LineCall(OllamaCall(i), v),
                    LineText(f, LineThinking(f, StartMessage(s))), Numbered(b.calls))
    IN  IF b.done THEN FinishLine(f, t) ELSE t

OllamaStream(b) ==
    <<[OllamaLast(b) EXCEPT !.done = FALSE]>>
    \o [i \in 1..b.calls |-> OllamaCall(i - 1)]
    \o <<[OllamaLast(b) EXCEPT !.thinking = FALSE, !.text = FALSE]>>

(***************************************************************************)
(* OpenAI Responses: a list of finished items.                             *)
(***************************************************************************)
WholeItems ==
    [itype : {"function_call", "reasoning", "image"}, parts : {<<>>}]
    \cup [itype : {"message"}, parts : UpTo({"output_text", "refusal"}, 2)]

ResponsesBodies ==
    [type : {"response"}, output : UpTo(WholeItems, MaxBlocks), encrypted : BOOLEAN,
     status : {"completed", "incomplete", "failed"}, usage : BOOLEAN]

HasCall(b) == \E i \in 1..Len(b.output) : b.output[i].itype = "function_call"

ItemFrame(t, i, item, b) ==
    [type |-> t, item |-> i, part |-> 0, itype |-> item.itype, encrypted |-> b.encrypted,
     block |-> BlockName(i)]
PartAddedFrame(i, p, item) ==
    [type |-> "part_added", item |-> i, part |-> p, ptype |-> item.parts[p + 1], block |-> PartName(i, p)]
TextDeltaFrame(i, p) ==
    [type |-> "delta", item |-> i, part |-> p, delta |-> "TextDelta", block |-> PartName(i, p)]
ItemDeltaFrames(i, k) ==
    CASE k = "function_call" -> <<[type |-> "delta", item |-> i, part |-> 0, delta |-> "JsonDelta", block |-> BlockName(i)]>>
      [] k = "reasoning" -> <<[type |-> "delta", item |-> i, part |-> 0, delta |-> "ThinkingDelta", block |-> BlockName(i)]>>
      [] OTHER -> <<>>

\* texts[p] is the frame that carries the text of part p.
ExplodeItem(i, item, b, texts) ==
    <<ItemFrame("item_added", i, item, b)>>
    \o SX!FlattenSeq([p \in 1..Len(item.parts) |-> <<PartAddedFrame(i, p - 1, item), texts[p]>>])
    \o ItemDeltaFrames(i, item.itype)
    \o <<ItemFrame("item_done", i, item, b)>>

Items(b, texts) ==
    SX!FlattenSeq([i \in 1..Len(b.output) |-> ExplodeItem(i - 1, b.output[i], b, texts[i])])

\* explode_part: the text of a part that opened no block is a fragment that routes nowhere.
ExplodePart(b) ==
    [i \in 1..Len(b.output) |-> [p \in 1..Len(b.output[i].parts) |-> TextDeltaFrame(i - 1, p - 1)]]

\* The fold ends in response.completed whatever the status says; completed_finish
\* makes a status it does not expect a verdict of its own.
CompletedFrame(b) ==
    [type |-> "completed", tool |-> HasCall(b), usage |-> b.usage,
     reason |-> IF b.status = "completed" THEN "Stop" ELSE "Other"]

ResponsesFull(b, s) ==
    Replay(ResponsesDecode, s, <<[type |-> "created"]>> \o Items(b, ExplodePart(b)) \o <<CompletedFrame(b)>>)

\* The stream says of a refusal that it is one.
StreamedPart(b) ==
    [i \in 1..Len(b.output) |-> [p \in 1..Len(b.output[i].parts) |->
        IF b.output[i].parts[p] = "refusal" THEN [type |-> "refusal"] ELSE TextDeltaFrame(i - 1, p - 1)]]

ResponsesStream(b) ==
    <<[type |-> "created"]>> \o Items(b, StreamedPart(b))
    \o CASE b.status = "completed"  -> <<CompletedFrame(b)>>
         [] b.status = "incomplete" -> <<[type |-> "incomplete", reason |-> "Length", usage |-> b.usage]>>
         [] b.status = "failed"     -> <<[type |-> "failed", kind |-> "Provider5xx"]>>

(***************************************************************************)
(* The claude subprocess has no other form than its lines, which are       *)
(* replayed; one that does not parse loses the events of those before it.  *)
(***************************************************************************)
ClaudeBodies ==
    [type : {"lines"}, of : {b \in MessagesBodies : b.signed /\ b.usage},
     result : {"none", "success", "error"}, garbled : BOOLEAN]

ClaudeStream(b) ==
    [i \in 1..Len(MessagesStream(b.of)) |-> [type |-> "stream_event", event |-> MessagesStream(b.of)[i]]]
    \o (IF b.garbled THEN <<Malformed>> ELSE <<>>)
    \o IF b.result = "none" THEN <<>>
       ELSE <<[type |-> "result", is_error |-> b.result = "error", status |-> "none"]>>

ClaudeFull(b, s) ==
    IF b.garbled THEN Emit(s, Error("Transport")) ELSE Replay(ClaudeDecode, s, ClaudeStream(b))

(***************************************************************************)
(* Any dialect.                                                            *)
(***************************************************************************)
Garbled == [type |-> "garbled"]

Bodies(d) ==
    {Garbled} \cup
    CASE d = "openai"    -> ChatBodies
      [] d = "anthropic" -> MessagesBodies
      [] d = "google"    -> GenaiBodies
      [] d = "ollama"    -> OllamaBodies
      [] d = "responses" -> ResponsesBodies
      [] d = "claude"    -> ClaudeBodies

\* decode_full, flattened: a body that is not JSON is one error.
DecodeFull(d, b) ==
    CASE b = Garbled -> Emit(Default, Error("Transport"))
      [] b # Garbled /\ d = "openai"    -> ChatFull(b, Default)
      [] b # Garbled /\ d = "anthropic" -> MessagesFull(b, Default)
      [] b # Garbled /\ d = "google"    -> GenaiFull(b, Default)
      [] b # Garbled /\ d = "ollama"    -> OllamaFull(b, Default)
      [] b # Garbled /\ d = "responses" -> ResponsesFull(b, Default)
      [] b # Garbled /\ d = "claude"    -> ClaudeFull(b, Default)

Streamed(d, b) ==
    CASE b = Garbled -> <<Malformed>>
      [] b # Garbled /\ d = "openai"    -> ChatStream(b)
      [] b # Garbled /\ d = "anthropic" -> MessagesStream(b)
      [] b # Garbled /\ d = "google"    -> GenaiStream(b)
      [] b # Garbled /\ d = "ollama"    -> OllamaStream(b)
      [] b # Garbled /\ d = "responses" -> ResponsesStream(b)
      [] b # Garbled /\ d = "claude"    -> ClaudeStream(b)

(***************************************************************************)
(* What a sequence of events says: the blocks in the order they opened,    *)
(* each with the kinds of fragments it got, the verdict and, if there is   *)
(* one, whether each block was stopped, whether there was a count of       *)
(* tokens, and the exit code.                                              *)
(***************************************************************************)
Opened(out) == SelectSeq(out, LAMBDA e : e.type = "ContentStart")

Story(out) ==
    LET In(t) == {out[n] : n \in {m \in 1..Len(out) : out[m].type = t}}
        blocks == Opened(out)
    IN  [blocks |-> [n \in 1..Len(blocks) |->
            [kind |-> blocks[n].kind, block |-> blocks[n].block,
             deltas |-> {e.delta : e \in {x \in In("ContentDelta") : x.index = blocks[n].index}},
             stopped |-> In("Finish") = {} \/ ContentStop(blocks[n].index) \in In("ContentStop")]],
         verdicts |-> {e.reason : e \in In("Finish")},
         counted |-> Usage \in In("Usage"),
         exit |-> LET errors == SelectSeq(out, LAMBDA e : e.type = "Error")
                  IN  IF errors = <<>> THEN 0 ELSE ExitOf[errors[Len(errors)].kind]]
==============================================================================
