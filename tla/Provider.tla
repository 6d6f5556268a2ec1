-------------------------------- MODULE Provider --------------------------------
(***************************************************************************)
(* The other end of the wire: what a provider of each dialect may send,    *)
(* frame by frame.  Nothing here is brazen's code; it is the wire grammar  *)
(* the decoders are written for.  A provider follows its dialect, but      *)
(* nothing obliges it to finish: the driver may see the body cut after any *)
(* frame, an error frame in the middle, or a frame that is not JSON.       *)
(*                                                                         *)
(* For each dialect, XFrames(w) is the set of frames a provider in wire    *)
(* state w may send next and XAfter(w, f) its state once it has sent f.    *)
(***************************************************************************)
EXTENDS OpenAiChat, GoogleGenai, OllamaChat, OpenAiResponses, ClaudeCode

CONSTANTS
    MaxFrames,       \* bound: frames per response, for each dialect
    MaxBlocks,       \* bound: tool calls, content blocks or items per response
    ErrorThenDone,   \* an OpenAI-compatible server closes an errored stream with [DONE]
    ResultMidBlock   \* a claude process reports its failure with a block still open

Dialects == {"openai", "anthropic", "google", "ollama", "responses", "claude"}

ASSUME ProviderAssumption ==
    /\ MaxFrames \in [Dialects -> Nat]
    /\ MaxBlocks \in 1..4
    /\ ErrorThenDone \in BOOLEAN /\ ResultMidBlock \in BOOLEAN

\* The frames of each dialect, as its decoder reads them.
FramesOf == [openai |-> ChatFrames, anthropic |-> MessagesFrames, google |-> GenaiFrames,
             ollama |-> OllamaFrames, responses |-> ResponsesFrames, claude |-> ClaudeFrames]

\* The identity of the n-th block, call or item of a response, counting from 0.
BlockName(n) ==
    CASE n = 0 -> "b0" [] n = 1 -> "b1" [] n = 2 -> "b2" [] OTHER -> "b3"
\* ... and of the second part of the n-th message item.
PartName(n, p) ==
    CASE p = 0 -> BlockName(n)
      [] p # 0 /\ n = 0 -> "b0p" [] p # 0 /\ n = 1 -> "b1p" [] p # 0 /\ n = 2 -> "b2p" [] OTHER -> "b3p"

(***************************************************************************)
(* Wire state: the phase; next, how many blocks have begun; live, the      *)
(* blocks (or items) begun and not ended; tool, whether a call was sent;   *)
(* complete, whether the provider said its answer is complete; fault,      *)
(* whether it sent an error or a malformed frame; sent, how many frames.   *)
(***************************************************************************)
WireInit == [phase |-> "before", next |-> 0, live |-> {}, tool |-> FALSE,
             complete |-> FALSE, fault |-> FALSE, sent |-> 0]

Phases == {"before", "open", "verdict", "told", "failed", "over"}

BlockKinds == {"Text", "ToolUse", "Thinking", "unknown"}

\* The blocks and items a dialect keeps in `live`.
LiveBlocks == [index : 0..(MaxBlocks - 1), kind : BlockKinds]
LiveItems == [index : 0..(MaxBlocks - 1), kind : ItemTypes, parts : 0..2]

WireOK(d, w) ==
    /\ w \in [phase : Phases, next : 0..MaxBlocks, live : {w.live}, tool : BOOLEAN,
              complete : BOOLEAN, fault : BOOLEAN, sent : 0..MaxFrames[d]]
    /\ d \in {"anthropic", "claude"} => w.live \subseteq LiveBlocks
    /\ d = "responses" => w.live \subseteq LiveItems

\* The name of the block that would begin next.
NextBlock(w) == IF w.next < MaxBlocks THEN BlockName(w.next) ELSE ""

ErrorFrames == [type : {"error"}, kind : {"Provider5xx", "Transport"}]

Failed(w) == [w EXCEPT !.phase = "failed", !.fault = TRUE]
Over(w) == [w EXCEPT !.phase = "over", !.complete = TRUE]

(***************************************************************************)
(* OpenAI chat completions.  Calls appear in index order; fragments of     *)
(* several calls may interleave.                                           *)
(***************************************************************************)
CallsSent(w) == -1..(IF w.next < MaxBlocks THEN w.next ELSE MaxBlocks - 1)

OpenAiChunks(w) ==
    UNION {[type : {"chunk"}, thinking : BOOLEAN, text : BOOLEAN, refusal : {FALSE}, tool : {t},
            args : IF t = NoTool THEN {FALSE} ELSE BOOLEAN,
            block : {IF t = NoTool THEN "" ELSE BlockName(t)},
            finish : {"none", "Stop"}, usage : {FALSE}] : t \in CallsSent(w)}

RefusalChunks ==
    [type : {"chunk"}, thinking : {FALSE}, text : {FALSE}, refusal : {TRUE}, tool : {NoTool},
     args : {FALSE}, block : {""}, finish : {"none", "Stop"}, usage : {FALSE}]

UsageChunks ==
    [type : {"chunk"}, thinking : {FALSE}, text : {FALSE}, refusal : {FALSE}, tool : {NoTool},
     args : {FALSE}, block : {""}, finish : {"none"}, usage : {TRUE}]

OpenAiFrames(w) ==
    CASE w.phase \in {"before", "open"} -> OpenAiChunks(w) \cup RefusalChunks \cup ErrorFrames
      [] w.phase = "verdict" -> UsageChunks \cup [type : {"done"}]
      [] w.phase = "failed" /\ ErrorThenDone -> [type : {"done"}]
      [] OTHER -> {}

OpenAiAfter(w, f) ==
    CASE f.type = "chunk" ->
            [w EXCEPT !.phase = IF @ = "verdict" \/ f.finish # "none" THEN "verdict" ELSE "open",
                      !.next = IF f.tool = @ THEN @ + 1 ELSE @,
                      !.tool = @ \/ f.tool # NoTool,
                      !.complete = @ \/ f.finish # "none"]
      [] f.type = "done" -> [w EXCEPT !.phase = "over"]
      [] OTHER -> Failed(w)

(***************************************************************************)
(* Anthropic messages.                                                     *)
(***************************************************************************)
DeltasOf(k) ==
    CASE k = "Thinking" -> {"ThinkingDelta", "SignatureDelta"}
      [] k = "ToolUse"  -> {"JsonDelta"}
      [] OTHER          -> {"TextDelta"}

BlockFrames(w) ==
    {f \in [type : {"content_block_start"}, index : {w.next}, kind : BlockKinds,
            block : {NextBlock(w)}] : w.next < MaxBlocks}
    \cup (UNION {[type : {"content_block_delta"}, index : {b.index}, delta : DeltasOf(b.kind),
                  block : {BlockName(b.index)}] : b \in w.live})
    \cup [type : {"content_block_stop"}, index : {b.index : b \in w.live}]

AnthropicFrames(w) ==
    CASE w.phase = "before" -> [type : {"message_start"}, usage : BOOLEAN] \cup ErrorFrames
      [] w.phase = "open" ->
            BlockFrames(w) \cup ErrorFrames \cup [type : {"ping"}]
            \cup {f \in [type : {"message_delta"}, reason : {"Stop", "ToolUse"}, usage : BOOLEAN] :
                    w.live = {}}
      [] w.phase = "verdict" -> [type : {"message_stop"}] \cup ErrorFrames
      [] OTHER -> {}

AnthropicAfter(w, f) ==
    CASE f.type = "message_start" -> [w EXCEPT !.phase = "open"]
      [] f.type = "content_block_start" ->
            [w EXCEPT !.next = @ + 1, !.live = @ \cup {[index |-> f.index, kind |-> f.kind]}]
      [] f.type = "content_block_stop" -> [w EXCEPT !.live = {b \in @ : b.index # f.index}]
      [] f.type = "message_delta" -> [w EXCEPT !.phase = "verdict"]
      [] f.type = "message_stop" -> Over(w)
      [] f.type = "error" -> Failed(w)
      [] OTHER -> w

(***************************************************************************)
(* Google generateContent: a part is a text, a call or an image.           *)
(***************************************************************************)
OnePart(w, f) ==
    /\ f.thought => f.text
    /\ f.signature => f.call
    /\ ~ (f.text /\ f.call) /\ ~ (f.text /\ f.image) /\ ~ (f.call /\ f.image)
    /\ f.call \/ f.image => w.next < MaxBlocks
    /\ f.blocked => w.phase = "before"

GoogleFrames(w) ==
    IF w.phase \notin {"before", "open"} THEN {}
    ELSE ErrorFrames \cup
         {f \in [type : {"chunk"}, text : BOOLEAN, thought : BOOLEAN, call : BOOLEAN,
                 signature : BOOLEAN, image : BOOLEAN, block : {NextBlock(w)},
                 finish : {"none", "Stop", "Length"},
                 blocked : BOOLEAN, usage : BOOLEAN] : OnePart(w, f)}

GoogleAfter(w, f) ==
    IF f.type = "error" THEN Failed(w)
    ELSE [w EXCEPT !.phase = IF f.finish # "none" \/ f.blocked THEN "over" ELSE "open",
                   !.complete = f.finish # "none" \/ f.blocked,
                   !.next = IF f.call \/ f.image THEN @ + 1 ELSE @,
                   !.tool = @ \/ f.call]

(***************************************************************************)
(* Ollama chat: NDJSON lines.                                              *)
(***************************************************************************)
OllamaLines(w) ==
    IF w.phase \notin {"before", "open"} THEN {}
    ELSE ErrorFrames \cup
         {f \in [type : {"line"}, thinking : BOOLEAN, text : BOOLEAN, call : BOOLEAN,
                 block : {NextBlock(w)}, done : BOOLEAN, reason : {"Stop", "Length"}] :
            f.call => w.next < MaxBlocks}

OllamaAfter(w, f) ==
    IF f.type = "error" THEN Failed(w)
    ELSE [w EXCEPT !.phase = IF f.done THEN "over" ELSE "open", !.complete = f.done,
                   !.next = IF f.call THEN @ + 1 ELSE @, !.tool = @ \/ f.call]

(***************************************************************************)
(* OpenAI Responses: items, and parts of message items.                    *)
(***************************************************************************)
ItemDeltas(k) ==
    CASE k = "function_call" -> {"JsonDelta"} [] k = "reasoning" -> {"ThinkingDelta"} [] OTHER -> {}

\* What may be sent for the live item b.
ItemFrames(b) ==
    [type : {"item_done"}, item : {b.index}, part : {0}, itype : {b.kind}, encrypted : BOOLEAN,
     block : {BlockName(b.index)}]
    \cup [type : {"delta"}, item : {b.index}, part : {0}, delta : ItemDeltas(b.kind),
          block : {BlockName(b.index)}]
    \cup {f \in [type : {"part_added"}, item : {b.index}, part : {b.parts},
                 ptype : {"output_text", "refusal"}, block : {PartName(b.index, b.parts)}] :
            b.kind = "message" /\ b.parts < 2}
    \cup (UNION {[type : {"delta"}, item : {b.index}, part : {p}, delta : {"TextDelta"},
                 block : {PartName(b.index, p)}] : p \in 0..(b.parts - 1)})
    \cup [type : IF b.kind = "message" THEN {"refusal"} ELSE {}]

ResponseFrames(w) ==
    CASE w.phase = "before" -> [type : {"created"}] \cup [type : {"failed"}, kind : {"Provider5xx"}]
      [] w.phase = "open" ->
            [type : {"created"}] \cup [type : {"failed"}, kind : {"Transport"}]
            \cup {f \in [type : {"item_added"}, item : {w.next}, part : {0}, itype : ItemTypes,
                         block : {NextBlock(w)}] : w.next < MaxBlocks}
            \cup (UNION {ItemFrames(b) : b \in w.live})
            \cup {f \in [type : {"completed"}, tool : {w.tool}, reason : {"Stop"},
                  usage : BOOLEAN] : w.live = {}}
            \cup [type : {"incomplete"}, reason : {"Length"}, usage : BOOLEAN]
      [] OTHER -> {}

ResponseAfter(w, f) ==
    CASE f.type = "created" -> [w EXCEPT !.phase = "open"]
      [] f.type = "item_added" ->
            [w EXCEPT !.next = @ + 1, !.tool = @ \/ f.itype = "function_call",
                      !.live = @ \cup {[index |-> f.item, kind |-> f.itype, parts |-> 0]}]
      [] f.type = "part_added" ->
            [w EXCEPT !.live = {IF b.index = f.item /\ b.parts = f.part
                                THEN [b EXCEPT !.parts = f.part + 1] ELSE b : b \in @}]
      [] f.type = "item_done" -> [w EXCEPT !.live = {b \in @ : b.index # f.item}]
      [] f.type \in {"completed", "incomplete"} -> Over(w)
      [] f.type = "failed" -> Failed(w)
      [] OTHER -> w

(***************************************************************************)
(* The claude subprocess: Anthropic events wrapped in lines, lines of its  *)
(* own, and one `result` line at the end.                                  *)
(***************************************************************************)
ClaudeLines(w) ==
    IF w.phase = "over" THEN {}
    ELSE [type : {"stream_event"}, event : AnthropicFrames(w)]
         \cup [type : {"assistant"}, tag : {"none", "auth", "other"}]
         \cup {f \in [type : {"result"}, is_error : BOOLEAN, status : {"none", "401", "5xx"}] :
                  /\ w.live = {} \/ (ResultMidBlock /\ f.is_error)
                  /\ w.phase \in {"told", "failed"} \/ f.is_error}

ClaudeAfter(w, f) ==
    CASE f.type = "stream_event" ->
            [AnthropicAfter(w, f.event) EXCEPT !.phase = IF @ = "over" THEN "told" ELSE @]
      [] f.type = "result" -> [w EXCEPT !.phase = "over", !.fault = @ \/ f.is_error]
      [] OTHER -> w

(***************************************************************************)
(* Any dialect.                                                            *)
(***************************************************************************)
\* A frame that is not JSON, in addition to the frames of the dialect.
Malformed == [type |-> "malformed"]

Sends(d, w) ==
    IF w.sent = MaxFrames[d] THEN {}
    ELSE {Malformed} \cup
         CASE d = "openai"    -> OpenAiFrames(w)
           [] d = "anthropic" -> AnthropicFrames(w)
           [] d = "google"    -> GoogleFrames(w)
           [] d = "ollama"    -> OllamaLines(w)
           [] d = "responses" -> ResponseFrames(w)
           [] d = "claude"    -> ClaudeLines(w)

Answer(d, w, f) ==
    CASE f.type = "malformed" -> [w EXCEPT !.fault = TRUE]
      [] f.type # "malformed" /\ d = "openai"    -> OpenAiAfter(w, f)
      [] f.type # "malformed" /\ d = "anthropic" -> AnthropicAfter(w, f)
      [] f.type # "malformed" /\ d = "google"    -> GoogleAfter(w, f)
      [] f.type # "malformed" /\ d = "ollama"    -> OllamaAfter(w, f)
      [] f.type # "malformed" /\ d = "responses" -> ResponseAfter(w, f)
      [] f.type # "malformed" /\ d = "claude"    -> ClaudeAfter(w, f)

After(d, w, f) == [Answer(d, w, f) EXCEPT !.sent = @ + 1]
==============================================================================
