----------------------------- MODULE Conversation -----------------------------
(***************************************************************************)
(* A conversation that a client keeps and sends, whole and grown by a turn *)
(* each time, to one provider or another: what each provider is told.      *)
(*                                                                         *)
(* The client writes the canonical request, OpenAI's chat dialect or       *)
(* Anthropic's messages dialect.  Beside the client's body the model keeps *)
(* what the client meant by it: turns of words (a text is positive, an     *)
(* image or a document negative), calls and results, each result with the  *)
(* name of the call it answers.                                            *)
(***************************************************************************)
EXTENDS RequestDecoders

CONSTANT Scenes  \* the conversations, by name

\* The parts of what a user says, and the blocks a provider answers.
Parts == {"Text", "Image", "ImageUrl", "Document", "DocumentUrl"}
Blocks(d) ==
    {"Text", "Thinking", "Served", "Image", "read", "write"}
        \cup (IF d = "anthropic" THEN {"Redacted"} ELSE {})

Common == {"system", "messages", "tools", "choice", "parallel"}
FieldsOf(client) == Common \cup (IF client = "canonical" THEN {"knobs", "extra"} ELSE {"marks", "fields"})

\* Knobs have the types of knobs.rs, and nobody repeats the preamble.
RowFields == {"dialect", "knobs", "system", "extra", "unsupported", "preamble", "served", "exec", "plain"}
Measured(knobs) ==
    /\ "max_tokens" \in DOMAIN knobs => knobs["max_tokens"] \in Nat
    /\ "reasoning" \in DOMAIN knobs => knobs["reasoning"] \in DOMAIN Budget
LeadsAtMost(system) ==
    /\ system \in Seq({system[n] : n \in DOMAIN system})
    /\ \A n \in DOMAIN system : n > 1 => system[n] # Preamble

\* A conversation begins with nothing said but instructions; the messages dialect has
\* them only there, and the chat dialect has a result as text and in a turn of its own.
IsScene(play) ==
    /\ play.client \in {"canonical", "openai", "anthropic"}
    /\ play.to \subseteq Dialects
    /\ play.says \subseteq Seq(Parts)
    /\ \A d \in Dialects : play.shapes[d] \subseteq Seq(Blocks(d))
    /\ play.results \subseteq {"text", "texts", "picture"} /\ play.beside \subseteq BOOLEAN
    /\ play.instructs => play.client # "anthropic"
    /\ play.client = "openai" => play.results \subseteq {"text", "texts"} /\ play.beside \subseteq {FALSE}
    /\ \A start \in play.bodies :
           /\ DOMAIN start = FieldsOf(play.client)
           /\ \/ start.messages = <<>>
              \/ /\ play.client = "openai"
                 /\ start.messages = <<ChatTurn("system", Head(start.messages).content, <<>>, "")>>
           /\ LET req == Decode(play.client, start)
              IN  /\ ~NoProjection(play.client, start) => Measured(req.knobs)
                  /\ LeadsAtMost(req.system)
                  /\ \A p \in DOMAIN req.extra : Len(p) \in 1..2
    /\ \A r \in play.rows : /\ DOMAIN r = RowFields /\ r.served \in Nat
                           /\ Measured(r.knobs) /\ LeadsAtMost(r.system)
ASSUME ScenesAssumption == \A name \in DOMAIN Scenes : IsScene(Scenes[name])

VARIABLES
    scene,    \* the scene that is played
    row,      \* the row requests are routed to
    body,     \* the request of the client, in its dialect
    said,     \* what the client means by it
    answers,  \* who answered, and what
    sent,     \* what was made of the body and to whom it went
    prior     \* the body Anthropic was sent before that
vars == <<scene, row, body, said, answers, sent, prior>>

Play == Scenes[scene]
Client == Play.client
None == [messages |-> <<>>, marks |-> Unmarked]
NotSent == [to |-> "nobody", refusal |-> "none", wire |-> None]
Went == sent.to # "nobody" /\ sent.refusal = "none"

Gist(side, words, calls, results) ==
    [side |-> side, words |-> words, calls |-> calls, results |-> results]
Words(content) ==
    FlatMap(LAMBDA c : CASE c.type = "Text" -> c.text
                         [] c.type \in Media -> <<- c.source.data>>
                         [] OTHER -> <<>>, content)
Names(calls) == Each(LAMBDA c : c.name, calls)

(***************************************************************************)
(* The client (external).                                                  *)
(***************************************************************************)
Piece(index) == 10 * Len(said) + index

\* A part of what the user says, by its kind.
Spoken1(kind, index) ==
    CASE kind = "Text" -> Text(<<Piece(index)>>)
      [] kind = "Image" -> Image([form |-> "base64", data |-> Piece(index)])
      [] kind = "ImageUrl" -> Image([form |-> "url", data |-> Piece(index)])
      [] kind = "Document" -> Document([form |-> "base64", data |-> Piece(index)])
      [] kind = "DocumentUrl" -> Document([form |-> "url", data |-> Piece(index)])

\* The ids of calls: two of the decoders number the calls of every answer from 0.
CallId(d, index) ==
    IF d \in {"google", "ollama"} THEN "call_" \o ToString(index - 1) ELSE "id_" \o ToString(Piece(index))

\* A block of an answer, as the driver decodes it from the provider.
Answered(d, kind, index) ==
    CASE kind = "Text" -> Text(<<Piece(index)>>)
      [] kind = "Thinking" -> Thinking(<<Piece(index)>>, IF d = "anthropic" THEN "given" ELSE "absent",
                                       d = "responses")
      [] kind = "Redacted" -> RedactedThinking
      [] kind = "Served" -> ServerTool("ServerToolUse")
      [] kind = "Image" -> Image([form |-> "base64", data |-> Piece(index)])
      [] kind \in {"read", "write"} -> ToolUse(CallId(d, index), kind, d = "google")

\* What the client keeps of an answer.  The messages dialect has no thinking
\* without a signature: one that is missing is told as a blank one.
Echo(c) ==
    CASE c.type = "Thinking" -> [c EXCEPT !.encrypted = FALSE,
                                          !.signature = IF @ = "absent" THEN "blank" ELSE @]
      [] c.type = "ToolUse" -> [c EXCEPT !.signed = FALSE]
      [] OTHER -> c
Kept(content) ==
    CASE Client = "canonical" -> Without(content, {"Image"})
      [] Client = "anthropic" -> Each(Echo, Without(content, {"Image"}))
      [] Client = "openai" -> Each(Echo, OfType(content, {"Text", "ToolUse"}))

RoleNames == [System |-> "system", User |-> "user", Assistant |-> "assistant", Tool |-> "user"]

\* The turns the client writes in its dialect.
Told(r) == [r EXCEPT !.content = <<Text((IF r.is_error THEN ErrorPrefix ELSE <<>>) \o Texts(@))>>]
Written(role, content) ==
    CASE Client = "canonical" -> <<Message(role, content)>>
      [] Client = "anthropic" -> <<[role |-> RoleNames[role], content |-> content]>>
      [] Client = "openai" /\ role = "Tool" ->
             Each(LAMBDA r : ChatTurn("tool", Told(r).content, <<>>, r.id), content)
      [] OTHER -> <<ChatTurn(RoleNames[role], Without(content, {"ToolUse"}), OfType(content, {"ToolUse"}), "")>>

Writes(role, content, gist) ==
    /\ body' = [body EXCEPT !.messages = @ \o Written(role, content)]
    /\ said' = Append(said, gist)
    /\ sent' = NotSent
    /\ UNCHANGED <<scene, row>>

LastSide == IF said = <<>> THEN "nobody" ELSE said[Len(said)].side
Pending == IF LastSide = "assistant" THEN said[Len(said)].calls ELSE <<>>
Passed == IF Went /\ sent.to = "anthropic" THEN sent.wire ELSE prior

Init ==
    /\ scene \in DOMAIN Scenes
    /\ row \in Play.rows
    /\ body \in Play.bodies
    /\ said = <<>>
    /\ answers = <<>>
    /\ sent = NotSent
    /\ prior = None

Say ==
    /\ LastSide # "user" /\ Pending = <<>>
    /\ Len(answers) < Play.most
    /\ \E kinds \in Play.says :
           LET content == [n \in DOMAIN kinds |-> Spoken1(kinds[n], n)]
           IN  Writes("User", content, Gist("user", Words(content), <<>>, <<>>))
    /\ prior' = Passed
    /\ UNCHANGED answers

\* An instruction in the middle of the conversation.
Instruct ==
    /\ Play.instructs /\ LastSide = "assistant" /\ Pending = <<>>
    /\ LET content == <<Text(<<Piece(1)>>)>>
       IN  Writes("System", content, Gist("system", Words(content), <<>>, <<>>))
    /\ prior' = None
    /\ UNCHANGED answers

\* What send_encoded makes of the request, whoever reads it.
Config(d) == [row EXCEPT !.dialect = d]
Asked(d) == Prepared(Decode(Client, body), Config(d))

\* The last turn may be the assistant's, which the provider is to continue.
Send(d) ==
    /\ LastSide # "nobody" /\ Pending = <<>>
    /\ sent.to # d
    /\ LET refusal == IF NoProjection(Client, body) THEN "ParseInput"
                      ELSE Refusal(d, Asked(d), row.exec)
       IN  sent' = [to |-> d, refusal |-> refusal,
                    wire |-> IF refusal = "none" THEN Encode(d, Asked(d)) ELSE None]
    /\ prior' = Passed
    /\ UNCHANGED <<scene, row, body, said, answers>>

Answer ==
    /\ Went /\ LastSide = "user" /\ Len(answers) < Play.most
    /\ \E kinds \in Play.shapes[sent.to] :
           LET content == [n \in DOMAIN kinds |-> Answered(sent.to, kinds[n], n)]
               kept == Kept(content)
           IN  /\ Writes("Assistant", kept,
                         Gist("assistant", Words(kept), Names(OfType(kept, {"ToolUse"})), <<>>))
               /\ answers' = Append(answers, [by |-> sent.to, content |-> content])
    /\ prior' = Passed

\* The results of the calls, in some order, each well or failed, in the forms of
\* the scene; in the canonical and the messages dialect with words beside them.
ResultOf(call, form, index) ==
    ToolResult(call.id,
               CASE form = "text" -> <<Text(<<Piece(index)>>)>>
                 [] form = "texts" -> <<Text(<<Piece(index)>>), Text(<<Piece(index)>>)>>
                 [] form = "picture" -> <<Text(<<Piece(index)>>),
                                          Image([form |-> "base64", data |-> Piece(index)])>>,
               FALSE)
Return ==
    /\ Pending # <<>>
    /\ LET calls == OfType(answers[Len(answers)].content, {"ToolUse"})
           n == Len(calls)
       IN  \E order \in {o \in [1..n -> 1..n] : \A i, j \in 1..n : o[i] = o[j] => i = j},
              failed \in SUBSET (1..n), form \in Play.results, beside \in Play.beside :
              LET results == [i \in 1..n |->
                                 [ResultOf(calls[order[i]], form, i) EXCEPT !.is_error = i \in failed]]
                  words == IF beside THEN <<Text(<<Piece(9)>>)>> ELSE <<>>
                  meant == [i \in 1..n |-> [of |-> calls[order[i]].name, text |-> Words(results[i].content),
                                            failed |-> results[i].is_error]]
              IN  Writes("Tool", results \o words, Gist("user", Words(words), <<>>, meant))
    /\ prior' = Passed
    /\ UNCHANGED answers

Next ==
    \/ Say
    \/ Instruct
    \/ \E d \in Play.to : Send(d)
    \/ Answer
    \/ Return

Spec == Init /\ [][Next]_vars

(***************************************************************************)
(* How a provider reads what it is sent (external).                        *)
(***************************************************************************)
ReadResult(of, text) ==
    LET failed == text # <<>> /\ Head(text) = Head(ErrorPrefix)
    IN  [of |-> of, text |-> IF failed THEN Tail(text) ELSE text, failed |-> failed]

ReadChat(t) ==
    IF t.role = "tool"
    THEN Gist("user", <<>>, <<>>, <<ReadResult(t.answers, Texts(t.content))>>)
    ELSE Gist(t.role, Words(t.content), t.calls, <<>>)
ReadMessages(t) ==
    Gist(t.role, Words(t.content), OfType(t.content, {"ToolUse"}),
         Each(LAMBDA r : [of |-> r.id, text |-> Words(r.content), failed |-> r.is_error],
              OfType(t.content, {"ToolResult"})))
ReadGenai(t) ==
    Gist(t.role, Words(t.content), OfType(t.content, {"ToolUse"}),
         Each(LAMBDA r : ReadResult(r.name, r.text), OfType(t.content, {"ToolResult"})))
ReadOllama(t) ==
    IF t.role = "tool" THEN Gist("user", <<>>, <<>>, <<ReadResult(t.name, t.text)>>)
    ELSE Gist(t.role, t.text \o Words(t.images), t.calls, <<>>)
ReadItem(t) ==
    CASE t.item = "message" -> Gist(t.role, Words(t.content), <<>>, <<>>)
      [] t.item = "function_call" -> Gist("assistant", <<>>, <<t>>, <<>>)
      [] t.item = "function_call_output" -> Gist("user", <<>>, <<>>, <<ReadResult(t.id, t.text)>>)
      [] t.item = "reasoning" -> Gist("assistant", <<>>, <<>>, <<>>)

ReadTurn(d, t) ==
    CASE d = "openai" -> ReadChat(t)
      [] d = "anthropic" -> ReadMessages(t)
      [] d = "google" -> ReadGenai(t)
      [] d = "ollama" -> ReadOllama(t)
      [] d = "responses" -> ReadItem(t)
      [] d = "claude" -> Gist("user", Words(<<t>>), <<>>, <<>>)

\* The name of the call before turn n that has the id, the latest of them.
NameBefore(turns, n, id) ==
    LET same == Those(LAMBDA c : c.id = id, FlatMap(LAMBDA t : t.calls, SubSeq(turns, 1, n - 1)))
    IN  IF same = <<>> THEN "?" ELSE same[Len(same)].name
ByName(d, turns) ==
    [n \in DOMAIN turns |->
        [turns[n] EXCEPT !.calls = Names(@),
                         !.results = Each(LAMBDA r : IF d \in {"google", "ollama"} THEN r
                                                     ELSE [r EXCEPT !.of = NameBefore(turns, n, @)], @)]]

\* Turns of one side that follow each other are one turn, and nothing is no turn.
Merged(turns) ==
    LET spoken == Those(LAMBDA g : g.words # <<>> \/ g.calls # <<>> \/ g.results # <<>>, turns)
        Join(all, g) ==
            LET n == Len(all)
            IN  IF n > 0 /\ all[n].side = g.side
                THEN [all EXCEPT ![n] = Gist(g.side, @.words \o g.words, @.calls \o g.calls,
                                             @.results \o g.results)]
                ELSE Append(all, g)
    IN  SX!FoldLeft(Join, <<>>, spoken)

Led(words, turns) == <<Gist("system", words, <<>>, <<>>)>> \o turns
InLine(d) == d \notin {"anthropic", "google", "claude"}
Heard(d, wire) ==
    Merged(Led(Words(wire.system), ByName(d, Each(LAMBDA t : ReadTurn(d, t), wire.messages))))

\* What a provider should hear of what was said: instructions in their place, or
\* gathered at the head where a dialect has them only there; pictures after the
\* words where they have a field of their own.
Instructions ==
    IF Client # "openai" THEN body.system
    ELSE IF Head(body.messages).role = "system" THEN Head(body.messages).content ELSE <<>>
Meant(d) ==
    LET Lead == Words(IF Instructions # <<>> THEN Instructions ELSE row.system)
        Apart(g) == IF d # "ollama" THEN g
                    ELSE [g EXCEPT !.words = Those(LAMBDA w : w > 0, @)
                                             \o Those(LAMBDA w : w < 0, @)]
        system == Those(LAMBDA g : g.side = "system", said)
        others == Those(LAMBDA g : g.side # "system", said)
    IN  Merged(IF InLine(d) THEN Led(Lead, Each(Apart, said))
               ELSE Led(Lead \o FlatMap(LAMBDA g : g.words, system), others))

(***************************************************************************)
(* Properties.                                                             *)
(***************************************************************************)
\* Two calls that have the same id have the same name.
NamesAgree ==
    LET calls == Calls(Decode(Client, body).messages)
    IN  \A i, j \in DOMAIN calls : calls[i].id = calls[j].id => calls[i].name = calls[j].name

\* Whatever the client's dialect and the provider's, the provider reads what the
\* client said: the same words of the same speakers in the same order, the calls
\* between them, and every result as the result, or the failure, of the call it
\* answers (the encoders' messages_value, contents_value, input_value and the
\* ingress folds).  Calls that share an id are told apart by their names only.
HeardAsSaid == Went /\ ~row.preamble /\ NamesAgree => Heard(sent.to, sent.wire) = Meant(sent.to)

\* The results of a turn's calls are together in the turn after it, as many as the
\* calls: so want it the two providers whose results are parts of a user's turn
\* (tool_result of the chat ingress, which gathers the messages of its results).
ResultsFollowTheirCalls ==
    Went /\ sent.to \in {"anthropic", "google"} =>
        LET turns == sent.wire.messages
            Of(n, type) == IF n \in DOMAIN turns THEN Len(OfType(turns[n].content, {type})) ELSE 0
        IN  \A n \in DOMAIN turns : Of(n, "ToolUse") = Of(n + 1, "ToolResult")

\* A conversation can go on at any provider: nothing a provider answered makes
\* another refuse the request, but for the tools a provider served itself.  What
\* is refused is of the client's own saying (slot_err and its kin).
SwitchesFreely ==
    sent.refusal = "ParseInput" =>
        \/ NoProjection(Client, body)
        \/ sent.to = "claude"
        \/ AsksForImage(Asked(sent.to)) \/ \E n \in DOMAIN body.tools : IsProvider(body.tools[n])
        \/ sent.to \notin {"anthropic", "google"} /\ \E a \in DOMAIN answers :
               OfType(answers[a].content, Served) # <<>>
        \/ ~Only(Asked(sent.to).system, {"Text"})
        \/ LET messages == Asked(sent.to).messages
           IN  \E m \in DOMAIN messages : messages[m].role # "Assistant" /\
                  \E n \in DOMAIN messages[m].content :
                     ~Fits(sent.to, messages[m].role, messages[m].content[n])

\* The proofs of reasoning that a body shows a provider.
Proof(c) == IF c.type = "Thinking" THEN c.text ELSE <<>>
Proves(c) == c.type = "RedactedThinking" \/ (c.type = "Thinking" /\ c.signature = "given")
Shown(d, wire) ==
    CASE d = "anthropic" ->
             FlatMap(LAMBDA t : Each(Proof, Those(Proves, t.content)), wire.messages)
      [] d = "responses" -> Each(LAMBDA t : t.text,
                                 Those(LAMBDA t : t.item = "reasoning", wire.messages))
      [] d = "google" -> FlatMap(LAMBDA t : Names(Those(LAMBDA c : c.signed, OfType(t.content, {"ToolUse"}))),
                                 wire.messages)
\* Those that the provider itself has given.
Gave(d) ==
    LET Proofs(a) ==
            CASE a.by = d /\ d = "google" -> Names(OfType(a.content, {"ToolUse"}))
              [] a.by = d /\ d # "google" -> Each(Proof, OfType(a.content, Thoughts))
              [] OTHER -> <<>>
    IN  FlatMap(Proofs, answers)

\* A provider that signed or sealed its reasoning is shown all of it again, in
\* order, and never that of another provider, wherever the conversation went in
\* between (the Thinking and ToolUse arms of the encoders).
OwnReasoningReturns ==
    /\ Went /\ sent.to \in {"anthropic", "google", "responses"}
    /\ Client = "canonical" \/ (Client = "anthropic" /\ sent.to = "anthropic")
    => Shown(sent.to, sent.wire) = Gave(sent.to)

\* A provider that knows calls by name is told for every result the name of the
\* call the client answers (CanonicalRequest::tool_name).
ResultsNameTheirCalls ==
    Went /\ sent.to \in {"google", "ollama"} => Heard(sent.to, sent.wire) = Meant(sent.to)

\* The places of a body's blocks, but for the reasoning, that follow one place and
\* do not follow another.
After(p, q) == p[1] < q[1] \/ (p[1] = q[1] /\ p[2] < q[2])
Places(turns) ==
    UNION {{<<m, b>> : b \in {b \in DOMAIN turns[m].content : turns[m].content[b].type \notin Thoughts}} :
              m \in DOMAIN turns}
Distance(turns, p, q) == Cardinality({r \in Places(turns) : After(p, r) /\ ~After(q, r)})
Last(places) == CHOOSE p \in places : \A q \in places : ~After(p, q)

\* A cache mark is at a block that may carry one (encode/cache.rs).
MarksAreAtBlocks ==
    LET marks == sent.wire.marks
    IN  /\ marks.head = "system" => sent.wire.system # <<>>
        /\ marks.head = "tools" => sent.wire.tools # <<>>
        /\ \A p \in marks.turns : p \in Places(sent.wire.messages)

\* What Anthropic was asked to cache by one request, a later one finds: the body up
\* to the mark is the same, and if the conversation has grown by no more than two
\* lookbacks there is a mark within one of it (conversation_marks).
CacheStaysWarm ==
    /\ Went /\ sent.to = "anthropic" => MarksAreAtBlocks
    /\ Went /\ sent.to = "anthropic" /\ prior.marks.turns # {} =>
        LET turns == sent.wire.messages
            cut == Last(prior.marks.turns)
            theirs == {p \in Places(turns) : \E m \in p[1]..Len(turns) : turns[m].role # "assistant"}
        IN  /\ sent.wire.system = prior.system /\ sent.wire.tools = prior.tools
            /\ \A p \in Places(prior.messages) : ~After(cut, p) =>
                   /\ p \in Places(turns)
                   /\ turns[p[1]].content[p[2]] = prior.messages[p[1]].content[p[2]]
            /\ Distance(turns, cut, Last(theirs)) <= 2 * Lookback =>
                   \E p \in sent.wire.marks.turns :
                       ~After(p, cut) /\ Distance(turns, cut, p) <= Lookback

\* Where the provider counts tokens it counts the prompt that it would be sent,
\* marks included, and refuses no request that it would take (run/count/fetch.rs); only
\* what is passed through into a field that governs the answer may differ.
CountsWhatIsSent ==
    Went /\ HasCount(sent.to) =>
        LET req == PreparedToCount(Decode(Client, body), Config(sent.to))
            count == Count(sent.to, req)
        IN  /\ CountRefusal(sent.to, req) = "none"
            /\ [count EXCEPT !.fields = <<>>] = [sent.wire EXCEPT !.fields = <<>>]
            /\ \A p \in DOMAIN count.fields \ {<<"generationConfig", "maxOutputTokens">>} :
                   \/ p \in DOMAIN sent.wire.fields /\ count.fields[p] = sent.wire.fields[p]
                   \/ p \in DOMAIN req.extra /\ \E q \in DOMAIN Typed(sent.to, Asked(sent.to)) : q[1] = p[1]

\* A request that reasons on a budget has room for the answer beside it, whoever
\* gave the cap: client, row or model list (couple_budget).
CapExceedsBudget ==
    Went /\ HasBudget(sent.to) /\ {"reasoning", "max_tokens"} \subseteq DOMAIN Asked(sent.to).knobs =>
        LET slots == Slots(sent.to, TRUE)
        IN  sent.wire.fields[slots["max_tokens"]] >= sent.wire.fields[slots["reasoning"]] + ReasoningHeadroom

\* A row whose token is only good after a preamble has it at the head, and once,
\* even if the client's own instructions begin with it (lead_with_preamble).
PreambleLeadsOnce ==
    Went /\ row.preamble /\ sent.to = "anthropic" =>
        /\ sent.wire.system # <<>>
        /\ \A n \in DOMAIN sent.wire.system : sent.wire.system[n] = Preamble <=> n = 1

\* What a row says its provider does not support is not on the wire, from whatever
\* source it came (strip_unsupported), but for the cap that comes with a budget.  A knob is
\* known by its own name and a field by the provider's: a knob's field that is passed
\* through is not the knob, and a field that a knob writes is not what is passed through.
StrippedStaysOff ==
    Went => \A k \in row.unsupported :
        IF k \in Knobs
        THEN k \in DOMAIN Slots(sent.to, FALSE) =>
                 \/ {Slots(sent.to, FALSE)[k], Slots(sent.to, TRUE)[k]} \cap DOMAIN sent.wire.fields
                        \subseteq DOMAIN Asked(sent.to).extra
                 \/ k = "max_tokens" /\ HasBudget(sent.to) /\ Sets(Asked(sent.to), "reasoning")
        ELSE \A p \in DOMAIN sent.wire.fields : p[1] = k => p \in DOMAIN Typed(sent.to, Asked(sent.to))

\* What the caller passes through reaches the provider, unless the encoder wrote
\* the field itself, and what the caller set by name has its own value there
\* (fold_extra, and fill_absent, which fills only what is absent).
GivenReachesTheWire ==
    Went /\ Client = "canonical" /\ sent.to # "claude" =>
        LET slots == Slots(sent.to, Sets(Asked(sent.to), "reasoning"))
            typed == Typed(sent.to, Asked(sent.to))
        IN  /\ \A p \in DOMAIN body.extra :
                   \/ p[1] \in row.unsupported
                   \/ p \in DOMAIN sent.wire.fields
                   \/ \E q \in DOMAIN typed : q[1] = p[1] /\ (Len(p) = 1 \/ Len(q) = 1)
            /\ \A k \in DOMAIN body.knobs \cap DOMAIN slots :
                   \/ k \in row.unsupported \cup {"max_tokens"}
                   \/ k \notin Spoken(sent.to, Asked(sent.to))
                   \/ sent.wire.fields[slots[k]] = Value(sent.to, k, body.knobs[k])

\* What the masquerade answers itself goes to no provider, of whatever dialect: the
\* stream options on the wire are the encoder's own, or the row's (for_request).
AnsweredStaysHere ==
    Went /\ Client # "canonical" =>
        \A p \in Under(sent.wire.fields, "stream_options") :
            p \in DOMAIN Typed(sent.to, Asked(sent.to)) \cup DOMAIN row.extra

\* What is made of a request on its way to the encoder keeps the promises of the caller,
\* of the row and of the model list at once.
PreparedAsPromised ==
    /\ CountsWhatIsSent
    /\ CapExceedsBudget
    /\ PreambleLeadsOnce
    /\ StrippedStaysOff
    /\ GivenReachesTheWire
    /\ AnsweredStaysHere

\* A request in a provider's own dialect is the same request after Brazen has read and
\* rewritten it: turns, tools and their choice, and every field (both ingress decoders
\* against the encoders of their dialects), but for five.  The cap may change its name;
\* reasoning excludes sampling; a response format of plain text is the default and not
\* written; the stream options are those Brazen needs itself, and only of a stream
\* (for_request); and the messages decoder drops what stands beside the format in an
\* output configuration (output, ingress/anthropic_messages/decode.rs:132-147).
SameDialectIsTransparent ==
    Went /\ sent.to = Client /\ row.plain =>
        LET asked == body.fields
            got == sent.wire.fields
            usage == <<"stream_options", "include_usage">>
            excluded == IF <<"reasoning_effort">> \in DOMAIN asked
                        THEN {<<"temperature">>, <<"top_p">>} ELSE {}
            plain == {p \in {<<"response_format">>} \cap DOMAIN asked : asked[p] = "text"}
            beside == IF Client = "openai" THEN {}
                      ELSE Under(asked, "output_config") \ {<<"output_config", "format">>}
            ours == Under(asked, "stream_options")
            Free(choice) == IF choice.type = "auto" THEN Unsent ELSE choice
            OneText(t) == IF Client = "openai" /\ t.role = "tool" THEN [t EXCEPT !.content = Joined(@)] ELSE t
        IN  /\ sent.wire.messages = Each(OneText, body.messages)
            /\ sent.wire.system = body.system /\ sent.wire.tools = body.tools
            /\ body.tools # <<>> => /\ Free(sent.wire.choice) = Free(body.choice)
                                   /\ sent.wire.parallel = body.parallel
            /\ \A p \in DOMAIN asked \ (Capped \cup excluded \cup plain \cup beside \cup ours) :
                   p \in DOMAIN got /\ got[p] = asked[p]
            /\ \A p \in DOMAIN asked \cap Capped : \E q \in DOMAIN got \cap Capped :
                   got[q] = asked[IF <<"max_tokens">> \in DOMAIN asked THEN <<"max_tokens">> ELSE p]
            /\ Under(got, "stream_options") =
                   (IF Client = "openai" /\ got[<<"stream">>] THEN {usage} ELSE {})
            /\ \A p \in DOMAIN got \ DOMAIN asked :
                   p \in {<<"stream">>, usage} \cup (IF DOMAIN asked \cap Capped = {} THEN {} ELSE Capped)
===============================================================================
