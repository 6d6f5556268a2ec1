----------------------------- MODULE MCMasquerade -----------------------------
(***************************************************************************)
(* Scenes of Masquerade for TLC.  The answers are what the driver makes of *)
(* responses of every provider, whole or cut after any frame.              *)
(***************************************************************************)
EXTENDS Masquerade
LOCAL SX == INSTANCE SequencesExt

Two == [d \in {"openai", "anthropic", "google", "ollama", "responses", "claude"} |-> 2]
Provider == INSTANCE WholeBody WITH MaxFrames <- Two, MaxBlocks <- 2, ErrorThenDone <- TRUE, ResultMidBlock <- TRUE

Garbled == [type |-> "malformed"]

Decoded(d, f, s) ==
    CASE f = Garbled -> Emit(s, Error("Transport"))
      [] f # Garbled /\ d = "openai"    -> Provider!ChatDecode(f, s)
      [] f # Garbled /\ d = "anthropic" -> Provider!MessagesDecode(f, s)
      [] f # Garbled /\ d = "google"    -> Provider!GenaiDecode(f, s)
      [] f # Garbled /\ d = "ollama"    -> Provider!OllamaDecode(f, s)
      [] f # Garbled /\ d = "responses" -> Provider!ResponsesDecode(f, s)

\* The events of a response that ends after the given frames.
EventsOf(d, frames) ==
    LET s == SX!FoldLeft(LAMBDA t, f : Decoded(d, f, t), Default, frames)
    IN  Append((IF s.terminated THEN s ELSE Emit(Drain(s), Error("Transport"))).out, End)

AnswerOf(d, t, b, n, x) ==
    [provider |-> d, text |-> t, explained |-> x,
     events |-> EventsOf(d, SubSeq(Provider!Streamed(d, b), 1, n))]

\* The response, with a frame that is not JSON after any of its own.
Damaged(d, b) ==
    LET frames == Provider!Streamed(d, b)
    IN  {[provider |-> d, text |-> 1, explained |-> FALSE,
          events |-> EventsOf(d, SubSeq(frames, 1, n) \o <<Garbled>> \o SubSeq(frames, n + 1, Len(frames)))] :
             n \in 0..Len(frames)}

Entire(d, t, b) == AnswerOf(d, t, b, Len(Provider!Streamed(d, b)), FALSE)
Cut(d, b, x) == {AnswerOf(d, 1, b, n, x) : n \in 0..Len(Provider!Streamed(d, b))}

ChatCalls(n) ==
    [type |-> "message", thinking |-> TRUE, text |-> TRUE, refusal |-> FALSE, calls |-> n,
     finish |-> "Stop", usage |-> TRUE]
MessagesOf(blocks) ==
    [type |-> "message", content |-> blocks, signed |-> TRUE, reason |-> "Stop", usage |-> TRUE]
GenaiOf(parts) ==
    [type |-> "response", parts |-> parts, finish |-> "Stop", blocked |-> FALSE, usage |-> TRUE]
ResponsesOf(items) ==
    [type |-> "response", output |-> [n \in 1..Len(items) |->
        [itype |-> items[n], parts |-> IF items[n] = "message" THEN <<"output_text">> ELSE <<>>]],
     encrypted |-> TRUE, status |-> "completed", usage |-> TRUE]

\* Every provider with more than one call, reasoning, images and blocks unknown; whole,
\* cut short or damaged.
Shapes ==
    Cut("openai", ChatCalls(2), FALSE)
    \cup Cut("openai", [ChatCalls(0) EXCEPT !.refusal = TRUE], TRUE)
    \cup Cut("anthropic", MessagesOf(<<"Thinking", "Text", "ToolUse", "ToolUse">>), FALSE)
    \cup Cut("anthropic", MessagesOf(<<"RedactedThinking", "unknown", "ToolUse">>), FALSE)
    \cup Cut("google", GenaiOf(<<"thought", "text", "signed", "call", "image">>), FALSE)
    \cup Cut("ollama", [type |-> "line", thinking |-> TRUE, text |-> TRUE, calls |-> 2, done |-> TRUE,
                        reason |-> "Stop"], FALSE)
    \cup Cut("responses", ResponsesOf(<<"reasoning", "message", "function_call", "image">>), FALSE)
    \cup Damaged("openai", ChatCalls(1))
    \cup Damaged("anthropic", MessagesOf(<<"Thinking", "Text", "ToolUse">>))
    \cup {[provider |-> "openai", text |-> 0, explained |-> FALSE, events |-> <<Error(e), End>>] :
             e \in ErrorKinds}

\* What cannot be carried: the thinking before a call, or before a text, and the
\* signature of a call that has no id of its own.
BeforeCall == {Entire("anthropic", 1, MessagesOf(<<"Thinking", "Text", "ToolUse">>))}
BeforeText == {Entire("responses", 1, ResponsesOf(<<"reasoning", "message">>))}
Signed == {Entire("google", 1, GenaiOf(<<"signed", "call">>)), Entire("google", 1, GenaiOf(<<"call", "signed">>))}

MCAnswers ==
    [none |-> {}, any_shape |-> Shapes, before_call |-> BeforeCall, before_text |-> BeforeText,
     thoughtful |-> BeforeCall \cup BeforeText, signed |-> Signed,
     one_call |-> {Entire("openai", 1, ChatCalls(1))}]

Ask(route) ==
    [route |-> route, bearer |-> TRUE, close |-> FALSE, stream |-> TRUE, include_usage |-> FALSE,
     reasoning |-> TRUE]

Plain ==
    [conns |-> {"c1"}, filter |-> FALSE, reject |-> FALSE, token |-> FALSE, faults |-> FALSE, losses |-> FALSE,
     answers |-> [v1 |-> "none", v2 |-> "none"], requests |-> [v1 |-> {}, v2 |-> {}],
     most |-> [v1 |-> 1, v2 |-> 0]]

\* One turn of any shape, told in any form.
OfAnyShape ==
    [Plain EXCEPT !.answers["v1"] = "any_shape",
                  !.requests["v1"] = [route : {"chat", "messages"}, bearer : {TRUE}, close : {TRUE},
                                      stream : BOOLEAN, include_usage : BOOLEAN, reasoning : {FALSE}]]

\* Conversations side by side over two connections.
SideBySide ==
    [Plain EXCEPT !.conns = {"c1", "c2"}, !.losses = TRUE, !.most = [v1 |-> 2, v2 |-> 1],
                  !.answers = [v1 |-> "before_call", v2 |-> "before_text"],
                  !.requests = [v1 |-> {Ask("chat")}, v2 |-> {[Ask("chat") EXCEPT !.stream = FALSE]}]]

\* One conversation, whose turns may be whole or streamed, under either policy.
InTurn ==
    [Plain EXCEPT !.faults = TRUE, !.losses = TRUE, !.most["v1"] = 3,
                  !.answers["v1"] = "thoughtful",
                  !.requests["v1"] = {Ask("chat"), [Ask("chat") EXCEPT !.stream = FALSE]}]
OrNotAtAll == [InTurn EXCEPT !.reject = TRUE]

\* Two conversations whose calls have the same ids.
Colliding ==
    [Plain EXCEPT !.conns = {"c1", "c2"}, !.most = [v1 |-> 2, v2 |-> 1],
                  !.answers = [v1 |-> "signed", v2 |-> "signed"],
                  !.requests = [v1 |-> {Ask("chat")}, v2 |-> {Ask("chat")}]]

\* Every route of the server, with a token or without, and the filter.
OnAnyRoute ==
    [Plain EXCEPT !.faults = TRUE,
                  !.answers["v1"] = "one_call",
                  !.requests["v1"] = {[Ask(x) EXCEPT !.bearer = b, !.close = c] :
                                        x \in RouteNames, b \in BOOLEAN, c \in BOOLEAN}]
Guarded == [OnAnyRoute EXCEPT !.token = TRUE]
AsFilter == [OnAnyRoute EXCEPT !.filter = TRUE, !.requests["v1"] = {Ask("chat"), Ask("messages")}]

MCScenes ==
    [any_shape |-> OfAnyShape, side_by_side |-> SideBySide, in_turn |-> InTurn,
     or_not_at_all |-> OrNotAtAll, colliding |-> Colliding, any_route |-> OnAnyRoute,
     guarded |-> Guarded, as_filter |-> AsFilter]
==============================================================================
