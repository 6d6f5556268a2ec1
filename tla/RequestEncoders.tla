---------------------------- MODULE RequestEncoders ----------------------------
(***************************************************************************)
(* What each provider is sent for a canonical request: the encode of the   *)
(* six dialects under protocol/.                                           *)
(*                                                                         *)
(* A block of a body is written as the content it stands for, with what    *)
(* the dialect does not carry cleared; a body is                           *)
(*   system    its leading instructions                                    *)
(*   messages  its turns, or for the Responses API its items               *)
(*   tools, choice, parallel                                               *)
(*   fields    path |-> value: its other fields, with the passthrough      *)
(*   marks     where a prompt cache is to be written                       *)
(***************************************************************************)
EXTENDS Transcript

CONSTANT Lookback  \* LOOKBACK of anthropic/encode/cache.rs
ASSUME LookbackAssumption == Lookback \in Nat \ {0}

Dialects == {"openai", "anthropic", "google", "ollama", "responses", "claude"}

(***************************************************************************)
(* What a slot of each dialect takes; anything else is refused.            *)
(***************************************************************************)
Thoughts == {"Thinking", "RedactedThinking"}
Media == {"Image", "Document"}
Served == {"ServerToolUse", "ServerToolResult"}

Only(content, types) == \A n \in DOMAIN content : content[n].type \in types
Inline(c) == c.type \in Media /\ c.source.form = "base64"
TextResult(c) == c.type = "ToolResult" /\ Only(c.content, {"Text"})

OpenAiTakes(role, c) ==
    CASE role = "System" -> c.type = "Text"
      [] role = "Tool" -> TextResult(c)
      [] OTHER -> \/ c.type \in {"Text", "Image"}
                  \/ Inline(c)
                  \/ role = "Assistant" /\ c.type \in {"ToolUse"} \cup Thoughts

AnthropicTakes(role, c) ==
    /\ role = "System" => c.type = "Text"
    /\ c.type = "ToolResult" => Only(c.content, {"Text", "Image"})

GenaiTakes(role, c) ==
    /\ role = "System" => c.type = "Text"
    /\ c.type \in Media => Inline(c)
    /\ c.type = "ToolResult" => TextResult(c)

\* Mutant: the assistant's slot takes text and calls only.
OllamaTakesNoThinking(role, c) ==
    CASE role = "System" -> c.type = "Text"
      [] role = "Tool" -> TextResult(c)
      [] role = "User" -> c.type = "Text" \/ (c.type = "Image" /\ Inline(c))
      [] role = "Assistant" -> c.type \in {"Text", "ToolUse"}

OllamaTakes(role, c) ==
    CASE role = "System" -> c.type = "Text"
      [] role = "Tool" -> TextResult(c)
      [] role = "User" -> c.type = "Text" \/ (c.type = "Image" /\ Inline(c))
      [] role = "Assistant" -> c.type \in {"Text", "ToolUse"} \cup Thoughts

ResponsesTakes(role, c) ==
    IF role = "Tool" THEN TextResult(c)
    ELSE c.type \in {"Text", "ToolUse"} \cup Thoughts \cup (IF role = "User" THEN Media ELSE {})

Fits(d, role, c) ==
    CASE d = "openai" -> OpenAiTakes(role, c)
      [] d = "anthropic" -> AnthropicTakes(role, c)
      [] d = "google" -> GenaiTakes(role, c)
      [] d = "ollama" -> OllamaTakes(role, c)
      [] d = "responses" -> ResponsesTakes(role, c)
      [] d = "claude" -> c.type = "Text"

IsProvider(tool) == tool.type = "Provider"

ToolsFit(d, req) ==
    CASE d \in {"anthropic", "responses"} -> TRUE
      [] d = "claude" -> req.tools = <<>> /\ req.choice.type = "auto"
      [] OTHER -> ~\E n \in DOMAIN req.tools : IsProvider(req.tools[n])

\* The command line of Claude Code takes one prompt.
IsPrompt(messages) == Len(messages) = 1 /\ messages[1].role = "User"

\* The error an encoder ends with; "none" when the request is sent.
Refusal(d, req, exec) ==
    IF AsksForImage(req) /\ d \notin {"google", "responses"} THEN "ParseInput"
    ELSE IF d = "anthropic" /\ ~Sets(req, "max_tokens") THEN "Config"
    ELSE IF d = "claude" /\ ~exec THEN "Config"
    ELSE IF /\ ToolsFit(d, req)
            /\ d = "claude" => IsPrompt(req.messages)
            /\ Only(req.system, {"Text"})
            /\ \A m \in DOMAIN req.messages : \A n \in DOMAIN req.messages[m].content :
                   Fits(d, req.messages[m].role, req.messages[m].content[n])
         THEN "none"
    ELSE "ParseInput"

(***************************************************************************)
(* Turns.                                                                  *)
(***************************************************************************)
Said(r) == (IF r.is_error THEN ErrorPrefix ELSE <<>>) \o Texts(r.content)
Joined(content) == IF Texts(content) = <<>> THEN <<>> ELSE <<Text(Texts(content))>>
Side(role) == IF role = "Assistant" THEN "assistant" ELSE "user"

\* OpenAI chat: the calls of a turn beside its parts, every result a message.
ChatCall(c) == [c EXCEPT !.signed = FALSE]
ChatTurn(role, content, calls, answers) ==
    [role |-> role, content |-> content, calls |-> calls, answers |-> answers]
ChatTurns(m) ==
    CASE m.role = "Tool" -> Each(LAMBDA r : ChatTurn("tool", <<Text(Said(r))>>, <<>>, r.id), m.content)
      [] m.role = "Assistant" ->
             <<ChatTurn("assistant", Without(m.content, {"ToolUse"} \cup Thoughts),
                        Each(ChatCall, OfType(m.content, {"ToolUse"})), "")>>
      [] m.role = "User" -> <<ChatTurn("user", m.content, <<>>, "")>>
      [] m.role = "System" -> <<ChatTurn("system", m.content, <<>>, "")>>
ChatMessages(req) ==
    (IF req.system = <<>> THEN <<>> ELSE <<ChatTurn("system", req.system, <<>>, "")>>)
        \o FlatMap(ChatTurns, req.messages)

\* Anthropic: blocks as they are, but thinking must have a signature; instructions
\* are collected from the whole conversation.
MessagesBlock(c) ==
    CASE c.type = "Thinking" ->
             IF c.signature = "absent" THEN <<>> ELSE <<[c EXCEPT !.encrypted = FALSE]>>
      [] c.type = "ToolUse" -> <<[c EXCEPT !.signed = FALSE]>>
      [] OTHER -> <<c>>
MessagesTurn(m) == [role |-> Side(m.role), content |-> FlatMap(MessagesBlock, m.content)]
Unhoisted(req) == Those(LAMBDA m : m.role # "System", req.messages)
Hoisted(req) == req.system \o FlatMap(LAMBDA m : m.content, OfRole(req.messages, "System"))

\* Mutant: the signature of a call is lost.
PartUnsigned(req, c) ==
    CASE c.type = "ToolUse" -> <<[c EXCEPT !.id = "", !.signed = FALSE]>>
      [] c.type = "ToolResult" ->
             <<[type |-> "ToolResult", name |-> ToolName(req.messages, c.id, c.id), text |-> Said(c)]>>
      [] c.type \in Thoughts \cup Served -> <<>>
      [] OTHER -> <<c>>

\* Google: calls and results by name, reasoning left out.
GenaiPart(req, c) ==
    CASE c.type = "ToolUse" -> <<[c EXCEPT !.id = ""]>>
      [] c.type = "ToolResult" ->
             <<[type |-> "ToolResult", name |-> ToolName(req.messages, c.id, c.id), text |-> Said(c)]>>
      [] c.type \in Thoughts \cup Served -> <<>>
      [] OTHER -> <<c>>
GenaiTurn(req, m) == [role |-> Side(m.role), content |-> FlatMap(LAMBDA c : GenaiPart(req, c), m.content)]

\* Ollama: text, pictures, thinking and calls in fields of their own; a result by name.
OllamaTurns(req, m) ==
    IF m.role = "Tool"
    THEN Each(LAMBDA r : [role |-> "tool", text |-> Said(r), name |-> ToolName(req.messages, r.id, "")],
              m.content)
    ELSE <<[role |-> IF m.role = "System" THEN "system" ELSE Side(m.role),
            text |-> Texts(m.content),
            images |-> OfType(m.content, {"Image"}),
            thinking |-> FlatMap(LAMBDA c : c.text, OfType(m.content, {"Thinking"})),
            calls |-> Each(LAMBDA c : [c EXCEPT !.id = "", !.signed = FALSE],
                           OfType(m.content, {"ToolUse"}))]>>
OllamaMessages(req) ==
    LET Of(m) == OllamaTurns(req, m)
    IN  (IF req.system = <<>> THEN <<>> ELSE Of(Message("System", req.system)))
            \o FlatMap(Of, req.messages)

\* Responses: a turn is its reasoning, its message and its calls, each an item.
ResponsesItems(m) ==
    IF m.role = "Tool"
    THEN Each(LAMBDA r : [item |-> "function_call_output", id |-> r.id, text |-> Said(r)], m.content)
    ELSE LET reasoned == Those(LAMBDA c : c.encrypted, OfType(m.content, {"Thinking"}))
             content == OfType(m.content, {"Text"} \cup Media)
         IN  Each(LAMBDA c : [item |-> "reasoning", text |-> c.text], reasoned)
                 \o (IF content = <<>> THEN <<>>
                     ELSE <<[item |-> "message", content |-> content,
                             role |-> IF m.role = "System" THEN "system" ELSE Side(m.role)]>>)
                 \o Each(LAMBDA c : [item |-> "function_call", id |-> c.id, name |-> c.name],
                         OfType(m.content, {"ToolUse"}))

System(d, req) ==
    CASE d = "anthropic" -> Hoisted(req)
      [] d = "google" -> Joined(Hoisted(req))
      [] d \in {"responses", "claude"} -> Joined(req.system)
      [] OTHER -> <<>>

Messages(d, req) ==
    CASE d = "openai" -> ChatMessages(req)
      [] d = "anthropic" -> Each(MessagesTurn, Unhoisted(req))
      [] d = "google" -> Each(LAMBDA m : GenaiTurn(req, m), Unhoisted(req))
      [] d = "ollama" -> OllamaMessages(req)
      [] d = "responses" -> FlatMap(ResponsesItems, req.messages)
      [] d = "claude" -> <<Text(Texts(req.messages[1].content))>>

(***************************************************************************)
(* Tools and how they may be called.                                       *)
(***************************************************************************)
PictureTool == [type |-> "Provider", name |-> "image_generation", strict |-> FALSE]

ResponsesTools(req) ==
    IF AsksForImage(req) /\ ~\E n \in DOMAIN req.tools : req.tools[n] = PictureTool
    THEN Append(req.tools, PictureTool) ELSE req.tools

Tools(d, req) ==
    CASE d \in {"google", "ollama"} -> Each(LAMBDA t : [t EXCEPT !.strict = FALSE], req.tools)
      [] d = "responses" -> ResponsesTools(req)
      [] OTHER -> req.tools

\* tool_choice_value and tool_config; the type "none sent" leaves it to the provider.
Unsent == [type |-> "unsent", name |-> ""]
Choice(d, req) ==
    CASE d \in {"ollama", "claude"} -> Unsent
      [] d # "anthropic" /\ req.choice.type = "auto" -> Unsent
      [] d = "anthropic" /\ req.choice.type = "auto" /\ req.tools = <<>> -> Unsent
      [] OTHER -> req.choice

\* Whether calls may come side by side: "yes", "no" or, unset, "either".
Parallel(d, req) ==
    CASE d \in {"openai", "responses"} -> req.parallel
      [] d = "anthropic" -> IF /\ req.parallel = "no"
                               /\ req.choice.type \in {"auto", "any"}
                               /\ Choice(d, req) # Unsent
                            THEN "no" ELSE "either"
      [] OTHER -> "either"

(***************************************************************************)
(* The other fields.                                                       *)
(***************************************************************************)
\* Where each knob is written; a knob without a slot is left out.
OpenAiSlots(reasons) ==
    [max_tokens |-> <<IF reasons THEN "max_completion_tokens" ELSE "max_tokens">>,
     reasoning |-> <<"reasoning_effort">>, stop |-> <<"stop">>, service_tier |-> <<"service_tier">>,
     cache_key |-> <<"prompt_cache_key">>, output |-> <<"response_format">>, stream |-> <<"stream">>,
     temperature |-> <<"temperature">>, top_p |-> <<"top_p">>]

AnthropicSlots ==
    [max_tokens |-> <<"max_tokens">>, reasoning |-> <<"thinking", "budget_tokens">>,
     stop |-> <<"stop_sequences">>, service_tier |-> <<"service_tier">>,
     output |-> <<"output_config", "format">>, stream |-> <<"stream">>,
     temperature |-> <<"temperature">>, top_p |-> <<"top_p">>]

GenaiSlots ==
    LET name == [max_tokens |-> "maxOutputTokens", temperature |-> "temperature", top_p |-> "topP",
                 reasoning |-> "thinkingConfig", stop |-> "stopSequences",
                 image |-> "responseModalities", output |-> "responseMimeType"]
    IN  [k \in DOMAIN name |-> <<"generationConfig", name[k]>>]

ResponsesSlots ==
    [max_tokens |-> <<"max_output_tokens">>, reasoning |-> <<"reasoning", "effort">>,
     service_tier |-> <<"service_tier">>, cache_key |-> <<"prompt_cache_key">>,
     output |-> <<"text", "format">>, stream |-> <<"stream">>,
     temperature |-> <<"temperature">>, top_p |-> <<"top_p">>]

OllamaSlots ==
    [max_tokens |-> <<"options", "num_predict">>, temperature |-> <<"options", "temperature">>,
     top_p |-> <<"options", "top_p">>, stop |-> <<"options", "stop">>,
     reasoning |-> <<"think">>, output |-> <<"format">>, stream |-> <<"stream">>]

Slots(d, reasons) ==
    CASE d = "openai" -> OpenAiSlots(reasons)
      [] d = "anthropic" -> AnthropicSlots
      [] d = "google" -> GenaiSlots
      [] d = "responses" -> ResponsesSlots
      [] d = "ollama" -> OllamaSlots
      [] d = "claude" -> [reasoning |-> <<"--effort">>]

\* The knobs an encoder writes: a dialect that reasons takes no sampling, and
\* Anthropic's only format is a schema.
Spoken(d, req) ==
    {k \in DOMAIN req.knobs :
        /\ k \in {"temperature", "top_p"} /\ Sets(req, "reasoning") =>
               d \in {"google", "ollama"}
        /\ k = "output" /\ d = "anthropic" => req.knobs[k] = "schema"
        /\ k = "image" => req.knobs[k]}

Value(d, k, v) ==
    CASE k = "reasoning" /\ d \in {"anthropic", "google"} -> Budget[v]
      [] k = "reasoning" /\ d = "ollama" -> TRUE
      [] k = "service_tier" /\ d = "anthropic" -> IF v = "priority" THEN "auto" ELSE "standard_only"
      [] k = "service_tier" /\ d # "anthropic" -> IF v = "priority" THEN "priority" ELSE "default"
      [] OTHER -> v

\* The fields that go with a knob.
Companions(d, req) ==
    CASE d = "openai" /\ req.knobs["stream"] -> {<<"stream_options", "include_usage">>}
      [] d = "responses" /\ Sets(req, "reasoning") -> {<<"reasoning", "summary">>, <<"include">>}
      [] d = "anthropic" /\ Sets(req, "reasoning") -> {<<"thinking", "type">>}
      [] OTHER -> {}

Typed(d, req) ==
    LET slots == Slots(d, Sets(req, "reasoning"))
        spoken == Spoken(d, req) \cap DOMAIN slots
    IN  [p \in {slots[k] : k \in spoken} |->
            LET k == CHOOSE k \in spoken : slots[k] = p IN Value(d, k, req.knobs[k])]
        ++ [p \in Companions(d, req) |-> "set"]

\* fold_extra: what is typed wins, and two objects are merged field by field.
FoldExtra(fields, extra) ==
    fields ++ [p \in {p \in DOMAIN extra :
                        \A q \in DOMAIN fields : q[1] = p[1] => Len(p) = 2 /\ Len(q) = 2} |-> extra[p]]

(***************************************************************************)
(* Where Anthropic is asked to write its prompt cache.                     *)
(***************************************************************************)
\* The blocks of the turns up to the last that is not the assistant's, as places.
Eligible(turns) ==
    LET theirs == {m \in DOMAIN turns : turns[m].role # "assistant"}
        last == IF theirs = {} THEN 0 ELSE CHOOSE m \in theirs : \A n \in theirs : n <= m
        places == FlatMap(LAMBDA m : [b \in DOMAIN turns[m].content |-> <<m, b>>],
                          [m \in 1..last |-> m])
    IN  Those(LAMBDA p : turns[p[1]].content[p[2]].type \notin Thoughts, places)

Ongoing(turns) == \E m \in DOMAIN turns : turns[m].role = "assistant" /\ m < Len(turns)

\* Mutant: the mark behind the rolling one is two spans behind it.
MarksTooFar(turns) ==
    LET e == Eligible(turns)
        n == Len(e)
    IN  IF n = 0 \/ ~Ongoing(turns) THEN {}
        ELSE {e[n]} \cup (IF n > 2 * Lookback THEN {e[n - 2 * Lookback]} ELSE {})

ConversationMarks(turns) ==
    LET e == Eligible(turns)
        n == Len(e)
    IN  IF n = 0 \/ ~Ongoing(turns) THEN {}
        ELSE {e[n]} \cup (IF n > Lookback THEN {e[n - Lookback]} ELSE {})

HeadMark(body) == IF body.system # <<>> THEN "system" ELSE IF body.tools # <<>> THEN "tools" ELSE "none"

Marked(d, body) ==
    IF d = "anthropic"
    THEN [body EXCEPT !.marks = [head |-> HeadMark(body), turns |-> ConversationMarks(body.messages)]]
    ELSE body

(***************************************************************************)
(* The bodies.                                                             *)
(***************************************************************************)
Unmarked == [head |-> "none", turns |-> {}]

Spelled(d, req, fields) ==
    Marked(d, [system |-> System(d, req), messages |-> Messages(d, req), tools |-> Tools(d, req),
               choice |-> Choice(d, req), parallel |-> Parallel(d, req), marks |-> Unmarked,
               fields |-> fields])

\* Only the command line of Claude Code takes no passthrough.
Encode(d, req) ==
    LET typed == Typed(d, [req EXCEPT !.knobs = @ ++ [stream |-> FALSE]])
    IN  Spelled(d, req, IF d = "claude" THEN typed ELSE FoldExtra(typed, req.extra))

\* count_tokens, which only two dialects have: the prompt as it is sent, without
\* what governs the answer.
HasCount(d) == d \in {"anthropic", "google"}
CountRefusal(d, req) ==
    Refusal(d, [req EXCEPT !.knobs = [max_tokens |-> 1] ++ [k \in DOMAIN @ \ {"image"} |-> @[k]]], FALSE)

Count(d, req) ==
    Spelled(d, req, FoldExtra(Typed(d, IF d = "google" THEN req
                                       ELSE [req EXCEPT !.knobs = [k \in DOMAIN @ \cap {"reasoning"} |-> @[k]]]),
                              req.extra))
===============================================================================
