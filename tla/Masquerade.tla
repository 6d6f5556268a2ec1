------------------------------ MODULE Masquerade ------------------------------
(***************************************************************************)
(* bz --serve and bz --in (run/masq): clients that speak one of the two    *)
(* ingress dialects, the connection threads that serve them, and the       *)
(* replay stash between the turns of a conversation (ingress/reinject.rs,  *)
(* store/replay.rs).                                                       *)
(*                                                                         *)
(* A conversation is kept by its client alone: it is the list of the       *)
(* assistant turns it has read to the end, which it echoes with its next   *)
(* request, over the same connection or another.  What its dialect cannot  *)
(* carry is in the stash, under a key made of what the client echoes.      *)
(*                                                                         *)
(* The answers of the providers are given: what generate makes of them is  *)
(* the subject of StreamEvents and Response.  The stash is a set of atomic *)
(* files (AtomicFile), whose entries may vanish at any time.               *)
(***************************************************************************)
EXTENDS Ingress

CONSTANTS
    Conns,       \* connections; each has its thread
    Talks,       \* conversations
    Answers,     \* sets of answers, by name
    Scenes       \* what may happen, by name

(***************************************************************************)
(* A scene fixes the connections, whether they are the one stdin of --in,  *)
(* the policy of a replay miss, whether a bearer token is set, the answers *)
(* to each conversation, the requests, how many a conversation makes, and  *)
(* what may go wrong: `faults` are clients that hang up, requests that are *)
(* refused and a failing accept, `losses` those of the stash.              *)
(***************************************************************************)
RouteNames == {"chat", "messages", "messages/other", "models", "other", "garbage"}
Requests ==
    [route : RouteNames, bearer : BOOLEAN, close : BOOLEAN, stream : BOOLEAN,
     include_usage : BOOLEAN, reasoning : BOOLEAN]
Answer == [provider : STRING, text : Nat, explained : BOOLEAN, events : Seq(Event)]

\* The positions before n of the events of type t in q.
Before(q, n, t) == {m \in 1..(n - 1) : q[m].type = t}

\* What CanonicalStream promises of the events q of an answer, from the first to the End.
IsStream(q) ==
    /\ q # <<>>
    /\ \A n \in 1..Len(q) :
         LET e == q[n]
             opened == Before(q, n, "ContentStart")
             stopped == Before(q, n, "ContentStop")
         IN  /\ (e.type = "End") = (n = Len(q))
             /\ e.type = "MessageStart" => Before(q, n, "MessageStart") = {}
             /\ e.type \in {"ContentStart", "Usage", "Finish"} => Before(q, n, "MessageStart") # {}
             /\ e.type \in {"ContentStart", "Finish"} => Before(q, n, "Finish") = {}
             /\ e.type = "ContentStart" => \A m \in opened : q[m].index # e.index
             /\ e.type \in {"ContentDelta", "ContentStop"} =>
                  /\ \E m \in opened : q[m].index = e.index
                  /\ \A m \in stopped : q[m].index # e.index
             /\ e.type = "Finish" => \A m \in opened : \E l \in stopped : q[l].index = q[m].index
             /\ e.type = "End" => Before(q, n, "Finish") \cup Before(q, n, "Error") # {}

\* OpenAI alone counts the tokens after the verdict.
CountsInTime(a) ==
    a.provider # "openai" =>
        \A n \in 1..Len(a.events) : a.events[n].type = "Usage" => Before(a.events, n, "Finish") = {}

ASSUME ScenesAssumption ==
    /\ \A n \in DOMAIN Answers : \A a \in Answers[n] :
         a \in Answer /\ IsStream(a.events) /\ CountsInTime(a)
    /\ \A n \in DOMAIN Scenes : LET s == Scenes[n] IN
        /\ s.conns \subseteq Conns /\ s.most \in [Talks -> Nat]
        /\ {s.filter, s.reject, s.token, s.faults, s.losses} \subseteq BOOLEAN
        /\ s.answers \in [Talks -> DOMAIN Answers]
        /\ \A v \in Talks : s.requests[v] \subseteq Requests

VARIABLES
    scene,
    listening,     \* the accept loop runs
    transcript,    \* of each conversation: the assistant turns its client has read
    asked,         \* of each conversation: how many requests it made
    stash,         \* the replay stash
    phase,         \* where the thread of a connection is
    request,       \* the request it serves
    replay,        \* the payloads recalled so far, one per assistant turn
    events,        \* what the provider has yet to say
    encoder,       \* the IngressState
    exit,          \* the exit code of the turn, which --in ends with
    wire,          \* the response, as it has been written
    gone,          \* its client has hung up
    sent,          \* history: the last request sent upstream
    lost,          \* history: keys the stash failed to store, dropped or overwrote
    stored         \* history: turns whose payload was stored

Scene == Scenes[scene]

conns == <<phase, request, replay, events, encoder, exit, wire, gone>>
vars == <<scene, listening, transcript, asked, stash, conns, sent, lost, stored>>

Nothing == [head |-> "none", status |-> 0, frames |-> <<>>, over |-> FALSE]
NoRequest == [route |-> "none"]
NoEncoder == ForRequest("chat", [turn |-> NoTurn, provider |-> "none", text |-> 0, explained |-> FALSE],
                        [stream |-> FALSE, include_usage |-> FALSE], FALSE)
NothingSent == [reasoning |-> FALSE, adapted |-> FALSE, turns |-> <<>>, replay |-> <<>>]

Init ==
    /\ scene \in DOMAIN Scenes
    /\ listening = TRUE
    /\ transcript = [v \in Talks |-> <<>>]
    /\ asked = [v \in Talks |-> 0]
    /\ stash = EmptyFn
    /\ phase = [k \in Conns |-> "closed"]
    /\ request = [k \in Conns |-> NoRequest]
    /\ replay = [k \in Conns |-> <<>>]
    /\ events = [k \in Conns |-> <<>>]
    /\ encoder = [k \in Conns |-> NoEncoder]
    /\ exit = [k \in Conns |-> 0]
    /\ wire = [k \in Conns |-> Nothing]
    /\ gone = [k \in Conns |-> FALSE]
    /\ sent = [k \in Conns |-> NothingSent]
    /\ lost = {} /\ stored = {}

(***************************************************************************)
(* The clients.                                                            *)
(***************************************************************************)
IsTurn(r) == r.route \in {"chat", "messages"}

\* Is the client of conversation v waiting for a response?
Waiting(v) ==
    \E k \in Conns : /\ phase[k] # "closed" /\ ~ gone[k] /\ ~ wire[k].over
                     /\ IsTurn(request[k]) /\ request[k].talk = v

\* A client sends a request with all it knows of its conversation.
Send(k, v, r) ==
    /\ phase[k] = "read" /\ request[k] = NoRequest /\ ~ gone[k]
    /\ asked[v] < Scene.most[v] /\ ~ Waiting(v)
    /\ IsTurn(r) \/ asked[v] = 0
    /\ asked' = [asked EXCEPT ![v] = @ + 1]
    /\ request' = [request EXCEPT ![k] =
                     [route |-> r.route, talk |-> v, number |-> asked'[v], knobs |-> r, turns |-> transcript[v]]]
    /\ wire' = [wire EXCEPT ![k] = Nothing]
    /\ UNCHANGED <<scene, listening, transcript, stash, phase, replay, events, encoder, exit, gone, sent,
                   lost, stored>>

HangUp(k) ==
    /\ Scene.faults /\ phase[k] # "closed" /\ ~ gone[k]
    /\ Scene.filter => request[k] # NoRequest
    /\ gone' = [gone EXCEPT ![k] = TRUE]
    /\ UNCHANGED <<scene, listening, transcript, asked, stash, phase, request, replay, events, encoder,
                   exit, wire, sent, lost, stored>>

(***************************************************************************)
(* What a client makes of the frames of a streamed response.               *)
(***************************************************************************)
NoCompletion ==
    [type |-> "completion", text |-> <<>>, refusal |-> FALSE, tools |-> EmptyFn, finish |-> "none",
     usage |-> FALSE]

\* A call is known by its number; a piece of a call that never began is lost.
GatherChat(b, f) ==
    CASE f.type = "content" -> [b EXCEPT !.text = Append(@, f.block)]
      [] f.type = "refusal" -> [b EXCEPT !.refusal = TRUE]
      [] f.type = "tool"    -> [b EXCEPT !.tools = Insert(@, f.index + 1, [id |-> f.id, args |-> <<>>])]
      [] f.type = "args" /\ f.index + 1 \in DOMAIN b.tools ->
            [b EXCEPT !.tools[f.index + 1].args = Append(@, f.block)]
      [] f.type = "finish"  -> [b EXCEPT !.finish = f.reason]
      [] f.type = "usage"   -> [b EXCEPT !.usage = TRUE]
      [] OTHER -> b

NoMessage ==
    [type |-> "message", open |-> EmptyFn, content |-> <<>>, finish |-> "none", usage |-> FALSE]

GatherMessages(b, f) ==
    CASE f.type = "content_block_start" ->
            [b EXCEPT !.open = Insert(@, f.index, [type |-> f.kind, id |-> f.id, said |-> <<>>])]
      [] f.type = "content_block_delta" /\ f.index \in DOMAIN b.open ->
            [b EXCEPT !.open[f.index].said = Append(@, f.said)]
      [] f.type = "content_block_stop" /\ f.index \in DOMAIN b.open ->
            [b EXCEPT !.content = Append(@, b.open[f.index]), !.open = Remove(@, f.index)]
      [] f.type = "message_delta" -> [b EXCEPT !.finish = f.reason, !.usage = f.usage]
      [] OTHER -> b

NoneOf(d) == IF d = "chat" THEN NoCompletion ELSE NoMessage
Gather(d, b, f) == IF d = "chat" THEN GatherChat(b, f) ELSE GatherMessages(b, f)

\* The frames are added one by one to what the client has of the answer.
Gathered(d, frames) ==
    LET got[n \in 0..Len(frames)] ==
            IF n = 0 THEN NoneOf(d) ELSE Gather(d, got[n - 1], frames[n].frame)
    IN  got[Len(frames)]

\* The answer in the response w, as the client of dialect d has it in the end.
Assembled(d, w) ==
    IF w.head = "full" THEN w.frames[1].frame ELSE Gathered(d, w.frames)

\* The ids of the calls in it, and whether it has a text.
CallsIn(b) ==
    IF b.type = "completion" THEN {b.tools[n].id : n \in DOMAIN b.tools}
    ELSE {b.content[n].id : n \in {m \in 1..Len(b.content) : b.content[m].type = "ToolUse"}}
HasText(b) ==
    IF b.type = "completion" THEN b.text # <<>>
    ELSE \E n \in 1..Len(b.content) : b.content[n].type = "Text" /\ b.content[n].said # <<>>

Failed(w) == \E n \in 1..Len(w.frames) : w.frames[n].frame.type = "error"

\* A client that has read a whole answer adds it to its conversation.
ReadAnswer(k) ==
    LET s == encoder'[k]
        w == wire'[k]
    IN  IF w.over /\ ~ wire[k].over /\ ~ gone[k] /\ ~ Failed(w)
        THEN LET b == Assembled(s.dialect, w)
             IN  transcript' = [transcript EXCEPT ![request[k].talk] = Append(@,
                    [turn |-> s.answer.turn, calls |-> CallsIn(b),
                     text |-> IF HasText(b) THEN s.answer.text ELSE 0,
                     payload |-> s.blocks, streamed |-> s.stream, conn |-> k])]
        ELSE UNCHANGED transcript

(***************************************************************************)
(* The connection threads.                                                 *)
(***************************************************************************)
\* The thread is done with the request: it reads the next one, or closes.
Served(k, dead) ==
    /\ phase' = [phase EXCEPT ![k] =
                   IF dead \/ request[k].knobs.close \/ request[k].route = "garbage" \/ Scene.filter
                   THEN "closed" ELSE "read"]
    /\ request' = [request EXCEPT ![k] = NoRequest]

\* HttpRespond: the head of a streamed answer precedes its first frame; one that is
\* not streamed is written at the end.  Only a client that is gone makes a write fail.
Full(status, frames) == [head |-> "full", status |-> status, frames |-> frames, over |-> TRUE]

\* edge: an error of brazen's own, in one piece.
Edge(k, e) ==
    /\ \/ Served(k, FALSE)
       \/ gone[k] /\ Served(k, TRUE)
    /\ wire' = [wire EXCEPT ![k] = Full(HttpStatus[e], <<[told |-> FALSE,
                    frame |-> [type |-> "error", status |-> HttpStatus[e]]]>>)]
    /\ exit' = [exit EXCEPT ![k] = ExitOf[e]]
    /\ UNCHANGED <<scene, listening, transcript, asked, stash, replay, events, encoder, gone, sent, lost,
                   stored>>

Accept(k) ==
    /\ listening /\ phase[k] = "closed" /\ k \in Scene.conns
    /\ Scene.filter => asked = [v \in Talks |-> 0]
    /\ \E v \in Talks : asked[v] < Scene.most[v]
    /\ phase' = [phase EXCEPT ![k] = "read"]
    /\ request' = [request EXCEPT ![k] = NoRequest]
    /\ wire' = [wire EXCEPT ![k] = Nothing]
    /\ gone' = [gone EXCEPT ![k] = FALSE]
    /\ UNCHANGED <<scene, listening, transcript, asked, stash, replay, events, encoder, exit, sent, lost,
                   stored>>

\* A clean end of the connection between two requests.
ReadNone(k) ==
    /\ phase[k] = "read" /\ request[k] = NoRequest /\ gone[k]
    /\ phase' = [phase EXCEPT ![k] = "closed"]
    /\ UNCHANGED <<scene, listening, transcript, asked, stash, request, replay, events, encoder, exit,
                   wire, gone, sent, lost, stored>>

Arrived(k) == phase[k] = "read" /\ request[k] # NoRequest

Admitted(k) == Arrived(k) /\ request[k].route # "garbage" /\ (Scene.token => request[k].knobs.bearer)

Malformed(k) == Arrived(k) /\ request[k].route = "garbage" /\ Edge(k, "ParseInput")

Unauthorized(k) ==
    /\ Arrived(k) /\ request[k].route # "garbage" /\ Scene.token /\ ~ request[k].knobs.bearer
    /\ Edge(k, "Auth")

NotFound(k) == Admitted(k) /\ request[k].route \in {"other", "messages/other"} /\ Edge(k, "Provider4xx")

Models(k) ==
    /\ Admitted(k) /\ request[k].route = "models"
    /\ \/ Served(k, FALSE)
       \/ gone[k] /\ Served(k, TRUE)
    /\ wire' = [wire EXCEPT ![k] = Full(200, <<[told |-> FALSE, frame |-> [type |-> "list"]]>>)]
    /\ UNCHANGED <<scene, listening, transcript, asked, stash, replay, events, encoder, exit, gone, sent,
                   lost, stored>>

\* prepare: the request is decoded,
Decode(k) ==
    /\ Admitted(k) /\ IsTurn(request[k])
    /\ phase' = [phase EXCEPT ![k] = "recall"]
    /\ replay' = [replay EXCEPT ![k] = <<>>]
    /\ UNCHANGED <<scene, listening, transcript, asked, stash, request, events, encoder, exit, wire, gone,
                   sent, lost, stored>>

Undecodable(k) == Admitted(k) /\ IsTurn(request[k]) /\ Scene.faults /\ Edge(k, "ParseInput")

\* reinject: each of its assistant turns is looked up in the stash.
Turns(k) == request[k].turns
Missing(t) == t.calls # {}

\* Mutant: a turn with calls is looked up by its text as well.
TurnKeysAndText(t) == {ContentKey(t.text)} \cup t.calls

TurnKeys(t) == IF t.calls = {} THEN {ContentKey(t.text)} ELSE t.calls

Recall(k) ==
    LET t == Turns(k)[Len(replay[k]) + 1]
        found == TurnKeys(t) \cap DOMAIN stash
    IN  /\ phase[k] = "recall" /\ Len(replay[k]) < Len(Turns(k))
        /\ \/ \E key \in found : replay' = [replay EXCEPT ![k] = Append(@, stash[key])]
           \/ /\ found = {}
              /\ ~ (Missing(t) /\ request[k].knobs.reasoning /\ Scene.reject)
              /\ replay' = [replay EXCEPT ![k] = Append(@, <<>>)]
        /\ UNCHANGED <<scene, listening, transcript, asked, stash, phase, request, events, encoder, exit,
                       wire, gone, sent, lost, stored>>

\* ... a miss may be refused
Reject(k) ==
    /\ phase[k] = "recall" /\ Len(replay[k]) < Len(Turns(k))
    /\ LET t == Turns(k)[Len(replay[k]) + 1]
       IN  /\ TurnKeys(t) \cap DOMAIN stash = {}
           /\ Missing(t) /\ request[k].knobs.reasoning /\ Scene.reject
    /\ Edge(k, "ParseInput")

\* ... or is an adaptation, announced to the client.
Fired(k) ==
    /\ request[k].knobs.reasoning
    /\ \E n \in 1..Len(Turns(k)) : Missing(Turns(k)[n]) /\ replay[k][n] = <<>>

Recalled(k) == phase[k] = "recall" /\ Len(replay[k]) = Len(Turns(k))

Unresolved(k) == Recalled(k) /\ Scene.faults /\ \E e \in {"Usage", "Config"} : Edge(k, e)

Dropped == [type |-> "none", turn |-> NoTurn]

\* inject: the blocks lead their turn, and a signature goes to the call it is of; without
\* that call it is dropped.
Inject(t, payload) ==
    [n \in 1..Len(payload) |->
        IF payload[n].type # "ToolUse" \/ payload[n].id \in t.calls THEN payload[n] ELSE Dropped]

Generate(k) ==
    /\ Recalled(k)
    /\ phase' = [phase EXCEPT ![k] = "events"]
    /\ exit' = [exit EXCEPT ![k] = 0]
    /\ LET r == request[k]
           d == IF r.route = "messages" THEN "messages" ELSE "chat"
       IN  \E a \in Answers[Scene.answers[r.talk]] :
             /\ events' = [events EXCEPT ![k] = a.events]
             /\ encoder' = [encoder EXCEPT ![k] =
                    ForRequest(d, [turn |-> <<r.talk, r.number>>, provider |-> a.provider, text |-> a.text,
                                   explained |-> a.explained], r.knobs, Fired(k))]
    /\ sent' = [sent EXCEPT ![k] =
          [reasoning |-> request[k].knobs.reasoning, adapted |-> Fired(k), turns |-> Turns(k),
           replay |-> [n \in 1..Len(Turns(k)) |-> Inject(Turns(k)[n], replay[k][n])]]]
    /\ UNCHANGED <<scene, listening, transcript, asked, stash, request, replay, wire, gone, lost, stored>>

\* The write that fails ends the turn: what is to be stashed is not.
Broken(k) ==
    /\ gone[k]
    /\ Served(k, TRUE)
    /\ exit' \in {[exit EXCEPT ![k] = c] : c \in WriteExits}
    /\ events' = [events EXCEPT ![k] = <<>>]
    /\ UNCHANGED <<scene, listening, transcript, asked, stash, replay, encoder, wire, gone, sent, lost, stored>>

\* The frame after which there is no other.
Closing(d) == IF d = "chat" THEN "done" ELSE "message_stop"

\* One event goes through the encoder; the bytes it becomes, if any, are written.
Encode(k) ==
    LET e == Head(events[k])
        s == EncodeResponse(e, [encoder[k] EXCEPT !.out = <<>>])
    IN  /\ phase[k] = "events"
        /\ \/ /\ encoder' = [encoder EXCEPT ![k] = s]
              /\ events' = [events EXCEPT ![k] = Tail(@)]
              /\ exit' = [exit EXCEPT ![k] = IF e.type = "Error" THEN ExitOf[e.kind] ELSE @]
              /\ wire' = [wire EXCEPT ![k] =
                    IF ~ s.stream \/ s.out = <<>> THEN @
                    ELSE [head |-> "sse", status |-> IF @.head = "none" THEN StatusOf(s) ELSE @.status,
                          frames |-> @.frames \o s.out,
                          over |-> s.out[Len(s.out)].frame.type = Closing(s.dialect)]]
              /\ ReadAnswer(k)
              /\ phase' = [phase EXCEPT ![k] = IF Len(events[k]) = 1 THEN "stash" ELSE @]
              /\ UNCHANGED <<scene, listening, asked, stash, request, replay, gone, sent, lost, stored>>
           \/ s.stream /\ s.out # <<>> /\ Broken(k)

\* The pairs are written one by one; a failure is passed over.
Stash(k) ==
    /\ phase[k] = "stash" /\ encoder[k].stash # {}
    /\ LET pair == CHOOSE p \in encoder[k].stash : TRUE
       IN  /\ encoder' = [encoder EXCEPT ![k].stash = @ \ {pair}]
           /\ \/ /\ stash' = Insert(stash, pair.key, pair.payload)
                 /\ stored' = stored \cup {<<encoder[k].answer.turn, pair.key>>}
                 /\ lost' = IF pair.key \in DOMAIN stash THEN lost \cup {pair.key} ELSE lost
              \/ /\ Scene.losses
                 /\ lost' = lost \cup {pair.key}
                 /\ UNCHANGED <<stash, stored>>
    /\ UNCHANGED <<scene, listening, transcript, asked, phase, request, replay, events, exit, wire, gone, sent>>

\* Mutant: the response ends before the pairs are stored.
EndedFirst(k) ==
    /\ phase[k] = "stash"
    /\ LET s == encoder[k]
       IN  \/ /\ wire' = [wire EXCEPT ![k] = IF s.stream THEN [@ EXCEPT !.over = TRUE]
                                             ELSE Full(StatusOf(s), s.out)]
              /\ UNCHANGED <<encoder, events, exit>>
              /\ ReadAnswer(k)
              /\ Served(k, FALSE)
              /\ UNCHANGED <<scene, listening, asked, stash, replay, gone, sent, lost, stored>>
           \/ Broken(k)

\* out.end
Ended(k) ==
    /\ phase[k] = "stash" /\ encoder[k].stash = {}
    /\ LET s == encoder[k]
       IN  \/ /\ wire' = [wire EXCEPT ![k] = IF s.stream THEN [@ EXCEPT !.over = TRUE]
                                             ELSE Full(StatusOf(s), s.out)]
              /\ UNCHANGED <<encoder, events, exit>>
              /\ ReadAnswer(k)
              /\ Served(k, FALSE)
              /\ UNCHANGED <<scene, listening, asked, stash, replay, gone, sent, lost, stored>>
           \/ Broken(k)

\* Entries grow old, and the cache may be cleared.
Evict ==
    /\ Scene.losses
    /\ \E key \in DOMAIN stash :
         stash' = Remove(stash, key) /\ lost' = lost \cup {key}
    /\ UNCHANGED <<scene, listening, transcript, asked, conns, sent, stored>>

\* A failure of accept, other than that of the connection itself, ends the loop.
AcceptFails ==
    /\ Scene.faults /\ ~ Scene.filter /\ listening
    /\ listening' = FALSE
    /\ UNCHANGED <<scene, transcript, asked, stash, conns, sent, lost, stored>>

Thread(k) ==
    \/ ReadNone(k) \/ Malformed(k) \/ Unauthorized(k) \/ NotFound(k) \/ Models(k)
    \/ Decode(k) \/ Undecodable(k) \/ Recall(k) \/ Reject(k) \/ Unresolved(k) \/ Generate(k)
    \/ Encode(k) \/ Stash(k) \/ Ended(k)

\* Every client is done, or nobody accepts its connections any more.
Done ==
    /\ \A k \in Conns : phase[k] = "closed" \/ (phase[k] = "read" /\ request[k] = NoRequest)
    /\ \/ \A v \in Talks : asked[v] = Scene.most[v]
       \/ ~ listening
       \/ Scene.filter
    /\ UNCHANGED vars

Next ==
    \/ \E k \in Conns : Accept(k) \/ HangUp(k) \/ Thread(k)
    \/ \E k \in Conns, v \in Talks : \E r \in Scene.requests[v] : Send(k, v, r)
    \/ Evict \/ AcceptFails
    \/ Done

Spec == Init /\ [][Next]_vars

(***************************************************************************)
(* Properties.                                                             *)
(***************************************************************************)
\* Position of the frames of type t.
At(frames, t) == {n \in 1..Len(frames) : frames[n].frame.type = t}

ChatGrammar(fs) ==
    /\ At(fs, "done") \subseteq {Len(fs)}
    /\ Cardinality(At(fs, "role")) <= 1 /\ Cardinality(At(fs, "finish")) <= 1
    /\ \A n \in 1..Len(fs) :
         LET f == fs[n].frame
             before == {fs[m].frame : m \in 1..(n - 1)}
             tools == {g \in before : g.type = "tool"}
         IN  /\ f.type \in {"content", "tool", "args", "refusal", "finish", "usage"} =>
                  \E g \in before : g.type = "role"
             /\ f.type \in {"content", "tool", "args", "refusal"} => ~ \E g \in before : g.type = "finish"
             /\ f.type = "tool" => f.index = Cardinality(tools)
             /\ f.type = "args" => \E g \in tools : g.index = f.index
             /\ f.type = "done" => \E g \in before : g.type \in {"finish", "error"}

MessagesGrammar(fs) ==
    /\ \A n \in At(fs, "message_stop") : n = Len(fs) /\ At(fs, "error") = {}
    /\ Cardinality(At(fs, "message_start")) <= 1 /\ Cardinality(At(fs, "message_delta")) <= 1
    /\ \A n \in 1..Len(fs) :
         LET f == fs[n].frame
             before == {m \in 1..(n - 1) : fs[m].frame.type # "error"}
             opened == {m \in before : fs[m].frame.type = "content_block_start"}
             closed == {m \in before : fs[m].frame.type = "content_block_stop"}
         IN  /\ f.type # "error" => (before = {}) = (f.type = "message_start")
             /\ f.type = "content_block_start" => \A m \in opened : fs[m].frame.index # f.index
             /\ f.type \in {"content_block_delta", "content_block_stop"} =>
                  /\ \E m \in opened : fs[m].frame.index = f.index
                  /\ \A m \in closed : fs[m].frame.index # f.index
             /\ f.type \in {"message_delta", "message_stop"} =>
                  \A m \in opened : \E c \in closed : fs[c].frame.index = fs[m].frame.index
             /\ f.type = "message_stop" => \E m \in before : fs[m].frame.type = "message_delta"

\* Whatever the provider and however its answer ends, what a streaming client reads
\* is a stream of its own dialect, error frames apart: calls are numbered without gaps
\* and blocks nest, the last frame is the one that closes, and it comes after a verdict;
\* a failed message is never closed as if it were whole (the encoders of
\* ingress/openai_chat and ingress/anthropic_messages).
StreamIsWellFormed ==
    \A k \in Conns :
        wire[k].head = "sse" =>
            IF encoder[k].dialect = "chat" THEN ChatGrammar(wire[k].frames)
            ELSE MessagesGrammar(wire[k].frames)

\* The body a client gets in one piece says what the frames of the same answer say
\* ("the aggregate IS the stream accumulated").  The exception is the usage a messages
\* client reads when the provider counts after its verdict, as OpenAI does.
AggregateIsTheStream ==
    \A k \in Conns :
        phase[k] = "stash" /\ encoder[k].stream /\ encoder[k].error = 0 =>
            LET s == encoder[k]
                a == Assembled(s.dialect, wire[k])
            IN  IF s.dialect = "chat"
                THEN a = [ChatBody(s) EXCEPT !.usage = @ /\ s.include_usage]
                ELSE /\ a.content = s.content /\ a.finish = s.finish
                     /\ s.answer.provider = "openai" \/ a.usage = s.counted

\* A turn that failed is told as a failure wherever the failure can still be put: in
\* the status, or in an error frame once the head is out; and --in exits accordingly.
FailureIsTold ==
    \A k \in Conns :
        phase[k] = "stash" =>
            LET s == encoder[k]
                w == wire[k]
            IN  /\ (exit[k] # 0) = (StatusOf(s) # 200)
                /\ s.stream => /\ (exit[k] # 0) = Failed(w)
                               /\ (w.status # 200) = (w.frames[1].frame.type = "error")

\* What the client could not carry is back in its place when the client goes on,
\* unless the stash lost it: over any connection once the client has the whole body,
\* and over its own connection while the streamed answer is being stashed.
PayloadIsThere ==
    \A k \in Conns : \A n \in 1..Len(sent[k].turns) :
        LET t == sent[k].turns[n]
        IN  /\ t.payload # <<>> /\ TurnKeys(t) \cap lost = {}
            /\ t.streamed => t.conn = k
            => sent[k].replay[n] = t.payload

\* A turn whose calls have ids of their own is never given the reasoning of another.
ReplayIsItsOwn ==
    \A k \in Conns : \A n \in 1..Len(sent[k].turns) :
        LET t == sent[k].turns[n]
        IN  (\E c \in t.calls : c.of # NoTurn) =>
                \A m \in 1..Len(sent[k].replay[n]) : sent[k].replay[n][m].turn = t.turn

\* A request that goes out without the reasoning its provider asks for is announced
\* to the client, once and first of all; under `reject` it does not go out.
DegradedIsTold ==
    \A k \in Conns :
        LET s == sent[k]
            degraded == s.reasoning /\ \E n \in 1..Len(s.turns) :
                                          s.turns[n].calls # {} /\ s.replay[n] = <<>>
            fs == wire[k].frames
        IN  /\ degraded => ~ Scene.reject
            /\ phase[k] = "stash" /\ encoder[k].stream =>
                 {n \in 1..Len(fs) : fs[n].told} = IF degraded THEN {1} ELSE {}
            /\ phase[k] = "stash" /\ ~ encoder[k].stream => encoder[k].out[1].told = degraded

\* An earlier turn goes upstream with its own reasoning, or with none and the client is told.
ReplayIsOwnOrTold == ReplayIsItsOwn /\ DegradedIsTold

==============================================================================
