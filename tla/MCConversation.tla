---------------------------- MODULE MCConversation ----------------------------
(***************************************************************************)
(* Scenes of Conversation for TLC.                                         *)
(***************************************************************************)
EXTENDS Conversation

Plain ==
    [dialect |-> "none", knobs |-> <<>>, system |-> <<>>, extra |-> <<>>, unsupported |-> {},
     preamble |-> FALSE, served |-> 0, exec |-> TRUE, plain |-> TRUE]

Auto == [type |-> "auto", name |-> ""]
Custom(name) == [type |-> "Custom", name |-> name, strict |-> TRUE]
Tooled == <<Custom("read"), Custom("write")>>

\* A canonical request, and the bodies of the two dialects.
Canonical == 
    [system |-> <<>>, messages |-> <<>>, knobs |-> ("max_tokens" :> 2000), extra |-> <<>>,
     tools |-> <<>>, choice |-> Auto, parallel |-> "either"]
Wire(fields) ==
    [system |-> <<>>, messages |-> <<>>, tools |-> <<>>, choice |-> Unsent, parallel |-> "either",
     marks |-> Unmarked, fields |-> fields]
Capping == (<<"max_tokens">> :> 2000)
ChatLed == [Wire(Capping) EXCEPT !.messages = <<ChatTurn("system", <<Text(<<1>>)>>, <<>>, "")>>]
MessagesLed == [Wire(Capping) EXCEPT !.system = <<Text(<<1>>), Text(<<2>>)>>, !.tools = Tooled]

Five == {"openai", "anthropic", "google", "ollama", "responses"}
Silent == [d \in Dialects |-> {}]

Still ==
    [client |-> "canonical", to |-> Five, rows |-> {Plain}, bodies |-> {Canonical}, says |-> {<<"Text">>},
     shapes |-> Silent, results |-> {"text"}, beside |-> {FALSE}, instructs |-> FALSE, most |-> 1]

\* What each provider may answer.
Answers ==
    [openai |-> {<<"Text", "read", "write">>},
     anthropic |-> {<<"Thinking", "Text", "read">>, <<"Redacted", "Served", "Text">>},
     google |-> {<<"Thinking", "read", "write">>, <<"read">>, <<"Text", "Image">>},
     ollama |-> {<<"Thinking", "read">>, <<"write">>},
     responses |-> {<<"Thinking", "Text", "read">>},
     claude |-> {<<"Text">>}]

\* A conversation that goes from provider to provider.
Wandering == [Still EXCEPT !.shapes = Answers, !.most = 2, !.instructs = TRUE]
ChatWandering == [Wandering EXCEPT !.client = "openai", !.bodies = {ChatLed}]
MessagesWandering ==
    [Wandering EXCEPT !.client = "anthropic", !.bodies = {MessagesLed}, !.instructs = FALSE]

\* Parts of every kind, and results in every form.
Pictured ==
    [Still EXCEPT !.to = Dialects, !.beside = BOOLEAN, !.results = {"text", "texts", "picture"},
                  !.bodies = {[Canonical EXCEPT !.system = <<Text(<<1>>), Text(<<2>>)>>]},
                  !.says = {<<"Text", "Image", "Text">>, <<"ImageUrl">>, <<"Document", "Text">>, <<"DocumentUrl">>},
                  !.shapes["openai"] = {<<"read", "write">>}, !.shapes["anthropic"] = {<<"read">>}]
ChatPictured ==
    [Pictured EXCEPT !.client = "openai", !.bodies = {Wire(Capping)}, !.beside = {FALSE},
                     !.results = {"text"}, !.says = {<<"Text", "Image">>, <<"Document">>}]
MessagesPictured == [Pictured EXCEPT !.client = "anthropic", !.bodies = {MessagesLed}]

\* Long turns, sent to Anthropic again and again.
Growing ==
    [Still EXCEPT !.to = {"anthropic"}, !.most = 4, !.says = {<<"Text">>, <<"Text", "Text", "Text">>},
                  !.bodies = {[Canonical EXCEPT !.tools = Tooled]},
                  !.shapes["anthropic"] = {<<"Text">>, <<"Thinking", "read", "write">>}]

\* A row that may know better than the request.
Rows ==
    {[Plain EXCEPT !.plain = FALSE, !.knobs = knobs, !.unsupported = off, !.served = served, !.extra = extra,
                   !.exec = served = 0] :
        knobs \in {<<>>, "reasoning" :> "low" @@ "temperature" :> 3, "max_tokens" :> 1000},
        off \in {{}, {"temperature", "user"}, {"max_tokens", "stop"}},
        served \in {0, 100000},
        extra \in {<<>>, <<"options", "num_ctx">> :> 7 @@ <<"user">> :> 8}}
Given(knobs, extra, tools) == [Canonical EXCEPT !.knobs = knobs, !.extra = extra, !.tools = tools]
Maybe(k, values) == {<<>>} \cup {k :> v : v \in values}
Knobbed ==
    [Still EXCEPT !.to = Dialects, !.rows = Rows,
                  !.bodies = {Given(cap @@ effort @@ heat @@ more[1], more[2], more[3]) :
                                 cap \in Maybe("max_tokens", {2000, 30000}),
                                 effort \in Maybe("reasoning", {"medium"}),
                                 heat \in Maybe("temperature", {5}),
                                 more \in {<<<<>>, <<>>, <<>>>>,
                                           <<"output" :> "schema" @@ "service_tier" :> "standard"
                                             @@ "cache_key" :> 6 @@ "stop" :> 4 @@ "stream" :> FALSE,
                                             <<"generationConfig", "seed">> :> 9
                                             @@ <<"user">> :> 10 @@ <<"thinking", "display">> :> 11,
                                             <<>>>>,
                                           <<"stop" :> 4 @@ "stream" :> TRUE,
                                             <<"stop_sequences">> :> 13 @@ <<"generationConfig", "maxOutputTokens">> :> 15
                                             @@ <<"options", "temperature">> :> 16,
                                             <<>>>>,
                                           <<"image" :> TRUE @@ "output" :> "json",
                                             <<"options", "num_ctx">> :> 12,
                                             <<PictureTool>>>>}}]

\* The fields of the two dialects, each in its own names.
ChatFields ==
    [Still EXCEPT !.client = "openai", !.to = Dialects,
                  !.bodies = {[Wire(cap @@ effort @@ tier @@ <<"user">> :> 3 @@ more
                                    @@ <<"stream_options", "include_usage">> :> "set"
                                    @@ <<"stream_options", "include_obfuscation">> :> "set")
                                 EXCEPT !.tools = tools, !.choice = choice, !.parallel = parallel] :
                                 cap \in {<<>>, <<"max_tokens">> :> 2000, <<"max_completion_tokens">> :> 2000,
                                         <<"max_tokens">> :> 2000 @@ <<"max_completion_tokens">> :> 3000},
                                 effort \in {<<>>} \cup {<<"reasoning_effort">> :> e : e \in {"low", "minimal"}},
                                 tier \in {<<"service_tier">> :> t : t \in {"priority", "default", "flex"}},
                                 more \in {<<>>, <<"stop">> :> 4 @@ <<"temperature">> :> 5
                                                 @@ <<"prompt_cache_key">> :> 6 @@ <<"response_format">> :> "json",
                                          <<"stream">> :> FALSE @@ <<"response_format">> :> "text"},
                                 choice \in {Unsent, Auto, [type |-> "tool", name |-> "read"]},
                                 parallel \in {"either", "no"}, tools \in {Tooled, <<PictureTool>>}}]
MessagesFields ==
    [Still EXCEPT !.client = "anthropic", !.to = Dialects,
                  !.bodies = {[Wire(cap @@ tier @@ thinking @@ <<"metadata", "user_id">> :> 3 @@ more)
                                 EXCEPT !.tools = Tooled, !.choice = choice.choice, !.parallel = choice.parallel] :
                                 cap \in {<<>>, Capping},
                                 tier \in {<<"service_tier">> :> t : t \in {"auto", "standard_only"}},
                                 thinking \in {<<>>, <<"thinking", "type">> :> "enabled"
                                                     @@ <<"thinking", "budget_tokens">> :> 1500},
                                 more \in {<<>>, <<"stop_sequences">> :> 4 @@ <<"temperature">> :> 5
                                                 @@ <<"output_config", "format">> :> "schema",
                                          <<"output_config", "format">> :> "schema"
                                          @@ <<"output_config", "effort">> :> 7
                                          @@ <<"stream_options", "include_usage">> :> "set",
                                          <<"output_config", "effort">> :> 7},
                                 choice \in [choice : {Auto, [type |-> "any", name |-> ""]}, parallel : {"either", "no"}]
                                            \cup [choice : {Unsent, [type |-> "none", name |-> ""]}, parallel : {"either"}]}]

\* A row whose token wants a preamble.
Preambled ==
    [Growing EXCEPT !.rows = {[Plain EXCEPT !.plain = FALSE, !.preamble = TRUE, !.system = system] :
                                 system \in {<<>>, <<Text(<<5>>)>>, <<Preamble>>}},
                    !.bodies = {[Canonical EXCEPT !.system = system] :
                                   system \in {<<>>, <<Text(<<1>>)>>, <<Preamble, Text(<<1>>)>>}},
                    !.instructs = TRUE, !.most = 1]

MCScenesWandering == [wandering |-> Wandering]
MCScenes ==
    [wandering |-> Wandering, chat_wandering |-> ChatWandering, messages_wandering |-> MessagesWandering,
     pictured |-> Pictured, chat_pictured |-> ChatPictured, messages_pictured |-> MessagesPictured,
     growing |-> Growing, knobbed |-> Knobbed, chat_fields |-> ChatFields,
     messages_fields |-> MessagesFields, preambled |-> Preambled]
===============================================================================
