---------------------------- MODULE RequestDecoders ----------------------------
(***************************************************************************)
(* How the requests of Brazen's own clients are read: canonical ones       *)
(* (canonical/request_de.rs), and those of the masquerade's two dialects   *)
(* (ingress/openai_chat, ingress/anthropic_messages).                      *)
(*                                                                         *)
(* A client's body has the shape RequestEncoders gives the same dialect; a *)
(* canonical client's is the canonical request.                            *)
(***************************************************************************)
EXTENDS RequestEncoders

Request(system, messages, knobs, extra, body) ==
    [system |-> system, messages |-> messages, knobs |-> knobs, extra |-> extra,
     tools |-> body.tools, choice |-> IF body.choice = Unsent THEN [type |-> "auto", name |-> ""]
                                     ELSE body.choice,
     parallel |-> body.parallel]

\* The knobs among the fields, by the names the dialect has for them, and the fields
\* that are passed through when those in `taken` are not.
Lifted(fields, slots) ==
    LET known == {k \in DOMAIN slots : slots[k] \in DOMAIN fields}
    IN  [k \in known |-> fields[slots[k]]]
Rest(fields, taken) == [p \in DOMAIN fields \ taken |-> fields[p]]
Under(fields, key) == {p \in DOMAIN fields : p[1] = key}

(***************************************************************************)
(* OpenAI chat.                                                            *)
(***************************************************************************)
\* A result is an error when its text says so at its head.
ChatResult(turn) ==
    LET failed == /\ Len(turn.content) = 1
                  /\ turn.content[1].text # <<>>
                  /\ Head(turn.content[1].text) = Head(ErrorPrefix)
    IN  ToolResult(turn.answers,
                   IF failed THEN <<Text(Tail(turn.content[1].text))>> ELSE turn.content, failed)

\* Mutant: every result is a turn of its own.
ChatFoldApart(messages, turn) ==
    CASE turn.role = "system" -> Append(messages, Message("System", turn.content))
      [] turn.role = "user" -> Append(messages, Message("User", turn.content))
      [] turn.role = "assistant" -> Append(messages, Message("Assistant", turn.content \o turn.calls))
      [] turn.role = "tool" -> Append(messages, Message("Tool", <<ChatResult(turn)>>))

ChatFold(messages, turn) ==
    CASE turn.role = "system" -> Append(messages, Message("System", turn.content))
      [] turn.role = "user" -> Append(messages, Message("User", turn.content))
      [] turn.role = "assistant" -> Append(messages, Message("Assistant", turn.content \o turn.calls))
      [] turn.role = "tool" ->
             LET n == Len(messages)
             IN  IF n > 0 /\ messages[n].role = "Tool"
                 THEN [messages EXCEPT ![n].content = Append(@, ChatResult(turn))]
                 ELSE Append(messages, Message("Tool", <<ChatResult(turn)>>))

\* The messages that turns are folded into, one after the other.
ChatFolded(turns) ==
    LET upto[n \in 0..Len(turns)] == IF n = 0 THEN <<>> ELSE ChatFold(upto[n - 1], turns[n])
    IN  upto[Len(turns)]

\* Fields are read in the order of their names: of the two names of the cap, both of
\* which are taken, "max_tokens" is read last.  A response format of plain text is none.
Capped == {<<"max_tokens">>, <<"max_completion_tokens">>}
ChatSlots(fields) == OpenAiSlots(<<"max_tokens">> \notin DOMAIN fields)
ChatKnobs(fields) ==
    LET lifted == Lifted(fields, ChatSlots(fields))
        Lifts(k) == CASE k = "service_tier" -> lifted[k] \in {"priority", "default"}
                      [] k = "output" -> lifted[k] # "text"
                      [] OTHER -> TRUE
    IN  [k \in {k \in DOMAIN lifted : Lifts(k)} |->
            IF k = "service_tier" THEN (IF lifted[k] = "priority" THEN "priority" ELSE "standard")
            ELSE lifted[k]]
ChatTaken(fields) ==
    {ChatSlots(fields)[k] : k \in DOMAIN ChatKnobs(fields)} \cup Capped \cup {<<"response_format">>}

DecodeChat(body) ==
    LET leads == body.messages # <<>> /\ Head(body.messages).role = "system"
    IN  Request(IF leads THEN Head(body.messages).content ELSE <<>>,
                ChatFolded(IF leads THEN Tail(body.messages) ELSE body.messages),
                ChatKnobs(body.fields), Rest(body.fields, ChatTaken(body.fields)), body)

(***************************************************************************)
(* Anthropic messages.                                                     *)
(***************************************************************************)
\* Only the standard tier is lifted; how much to think is passed through.
MessagesKnobs(fields) ==
    LET slots == AnthropicSlots
        lifted == Lifted(fields, [k \in DOMAIN slots \ {"reasoning"} |-> slots[k]])
        tier == "service_tier"
        standard == tier \in DOMAIN lifted => lifted[tier] = "standard_only"
    IN  [k \in DOMAIN lifted \ (IF standard THEN {} ELSE {tier}) |->
            IF k = tier THEN "standard" ELSE lifted[k]]

\* Of an output configuration the format is lifted, and nothing beside it is kept.
MessagesTaken(fields) ==
    {AnthropicSlots[k] : k \in DOMAIN MessagesKnobs(fields)} \cup Under(fields, "output_config")

MessagesRead(turn) ==
    Message(IF turn.role = "assistant" THEN "Assistant" ELSE "User", turn.content)

DecodeMessages(body) ==
    Request(body.system, Each(MessagesRead, body.messages), MessagesKnobs(body.fields),
            Rest(body.fields, MessagesTaken(body.fields)), body)

(***************************************************************************)
(* Both dialects.                                                          *)
(***************************************************************************)
\* What has no place in a canonical request: the decoder refuses the body.
NoProjection(client, body) ==
    LET fields == body.fields
        Says(p, values) == p \in DOMAIN fields => fields[p] \in values
    IN  CASE client = "openai" ->
                 \/ ~Says(<<"response_format">>, {"text", "json", "schema"})
                 \/ ~Says(<<"reasoning_effort">>, DOMAIN Budget)
                 \/ \E n \in DOMAIN body.tools : IsProvider(body.tools[n])
          [] client = "anthropic" ->
                 /\ Under(fields, "output_config") # {}
                 /\ <<"output_config", "format">> \in DOMAIN fields =>
                        fields[<<"output_config", "format">>] # "schema"
          [] client = "canonical" -> FALSE

\* Mutant: what the masquerade answers itself goes on to the provider.
ShapeLeft(req) == req

\* for_request, the masquerade's last look at a request: the stream options are its own
\* to answer, and it takes them off what is passed through.
ShapeTaken(req) == [req EXCEPT !.extra = Rest(@, Under(@, "stream_options"))]

Decode(client, body) ==
    CASE client = "openai" -> ShapeTaken(DecodeChat(body))
      [] client = "anthropic" -> ShapeTaken(DecodeMessages(body))
      [] client = "canonical" -> body
===============================================================================
