# A TLA+ model of brazen

TLA+ modules that model brazen (`bz`), TLC configurations that check them on
small instances, and TLAPS proofs of theorems about them for every instance.
Paths below are relative to the repository root; the Rust sources are under
`src/`, the design documents under `specs/`.

1. [The system](#1-the-system)
2. [The modules](#2-the-modules)
3. [The runs](#3-the-runs)
4. [The proofs](#4-the-proofs)
5. [What disagrees](#5-what-disagrees)
6. [Plan and what is not modelled](#6-plan-and-what-is-not-modelled)

## 1. The system

`bz` sends one request to one LLM provider and prints the answer as a stream of
canonical events. A run is one process and, on the data plane, one thread: it
reads its input and configuration, picks a provider row and a model, obtains a
credential (refreshing it if need be), encodes the request in the row's dialect,
sends it over HTTP or to a subprocess, decodes the answer frame by frame, and
writes each event out as soon as it is decoded; the exit code tells how it went.
Between runs only files remain: credentials, the model cache and the replay
stash. Several `bz` processes may run at once and share those files. `bz --serve`
(the masquerade server) is the exception: a thread per connection, each of which
does what a run does and re-encodes the answer for another dialect's client.

| component | source | state | operations | what makes it correct |
|---|---|---|---|---|
| canonical vocabulary | `canonical/` | none | events, error kinds, exit codes | the contract of the event stream |
| protocol decoders | `protocol/*/decode*`, `frame.rs`, `synth.rs` | `DecodeState`: open blocks, started, terminated, remembered calls | one handler per frame type, `drain` | blocks are indexed, opened and stopped consistently whatever order the wire has |
| streaming driver | `run/events/stream.rs` | queue of events, body sample, flags | `next`: pull a chunk, decode, flush at the end, fail when cut short | a cut answer is never passed off as whole |
| pump | `pipeline/sink.rs`, `run/drive.rs` | exit code | write each event, remember the last error | the exit code tells the truth |
| responses in one piece and errors | `run/events/mod.rs`, `canonical/retry_after.rs`, `protocol/*/decode` | none | fold an answer, judge an error, date a retry | what streaming the same answer says |
| text sink | `pipeline/sink.rs`, `image_file.rs` | a separator owed, open images | write text apart from reasoning, images to files | nothing lost, nothing glued |
| framers | `protocol/sse.rs`, `frame.rs` | unterminated tail | split chunks into frames | independent of chunk boundaries |
| file stores | `native/creds.rs`, `native/cache.rs`, `store/replay.rs` | one file per key, temp files | get, put, prune | readers see whole files, under concurrency and crashes |
| OAuth refresh | `auth/refresh.rs`, `auth/mod.rs` | stored credential, the server's idea of it | fetch, refresh, persist, apply | persist before use; a login is not lost |
| login flows | `auth/login.rs`, `device.rs`, `flows.rs`, `wire.rs` | polling interval, deadline, port | ask for a code, poll, back off; open a browser, take its redirect, exchange; store | goes by what its own user did, and when |
| model cache learning | `run/generate.rs`, `run/models/` | cached list, last used | select, learn, list | the pointer names a listed model; updates are not lost |
| exec transport | `native/exec.rs`, `native/relay.rs`, `native/transport/idle.rs` | child process, three threads, a bounded channel | next chunk, silence budget, reap | no hang, no orphan, no lost error |
| masquerade server | `run/masq/`, `ingress/`, `native/listen.rs` | per-turn encoder state, transcript of the client, replay stash | accept, route, decode, recall, run, encode events, stash | every turn is answered and framed in the client's dialect; what the dialect cannot carry comes back |
| raw passthrough | `run/raw.rs` | none | copy bytes | status and exit code |
| requests | `canonical/request*.rs`, `canonical/knobs.rs`, `protocol/*/encode`, `ingress/*/decode.rs`, `messages.rs`, `run/count/` | the conversation the client keeps | decode the client's body, prepare it for the row, encode it for the provider, count it | every provider is told what was said |
| configuration | `config/`, `cli/` | none | merge layers, resolve the row | precedence |

The hard parts are these. *Ordering*: deltas of text, thinking and parallel tool
calls interleave on the wire and some dialects do not delimit blocks, so the
decoders synthesize indices and stops. *Partial failure*: a transport may drop, a
body may end early, a server may report an error in mid-answer, stdout may
close. *Concurrency and crashes*: processes share files without locks.
*Waiting*: subprocess pipes, timeouts, polling. *Translation*: a conversation that
began with one provider goes on with another, and every dialect can carry less than
another; what is dropped, merged, renamed or reordered on the way has to be harmless.
`PROJECT.json` lists the hazards
one by one, each at its line.

## 2. The modules

### 2.1 The answer stream

```
Canonical            events, kinds, exit codes
  CanonicalStream    what the consumer is promised       (abstract)
  DecodeState        DecodeState and synth.rs: open, delta, drain
    OpenAiChat  AnthropicMessages  GoogleGenai  OllamaChat  OpenAiResponses
    ClaudeCode       one decoder each; ClaudeCode wraps AnthropicMessages
      Provider       what a provider of each dialect may send (environment)
        StreamEvents the driver, the trailing End and the pump
        MCStreamEvents how many frames each dialect may send
```

A decoder is a pure operator from a frame and a `DecodeState` to the next
`DecodeState`; the events it emits are appended to the field `out`, which the
driver moves to its queue (`decode_into_pending`). Frames are records that keep
what the decoder branches on; texts and argument fragments are reduced to the
identity of the block they belong to, so that a fragment delivered to a wrong
block is seen to be wrong. JSON that does not parse is the frame type
`malformed`. `StreamEvents` has one action per turn of `StreamEvents::next`
(`PullChunk`, `Drop`, `BodyEnd`, `FlushAtEof`), `ReadFrame` per frame of a chunk,
and `Yield`/`YieldEnd` for what the pump does with one event, a failing write
included. `state`, `pending`, `body_done`, `finished`, `saw_frame` and `head` are
the fields of the struct; `wire` is the provider's state; `event`, `started`,
`blocks`, `used`, `verdict` and `status` record what the consumer has received.

`Provider` is the environment. It follows the grammar of its dialect, because the
decoders are written for it, and otherwise does its worst: it stops after any
frame, sends an error frame anywhere, sends a malformed frame, leaves out the
terminal marker, interleaves calls. Two behaviours are separate constants because
they break a promise (section 5): `ErrorThenDone` and `ResultMidBlock`.

### 2.2 The files

```
AtomicFile      one file as its users see it             (abstract)
FileReplace     temp file, write, sync, rename, prune, over inodes and names
  MCFileReplace the instances
```

`FileReplace` is the one protocol of the three stores, with the temp name as a
parameter (`TempOf`): the credential store and the model cache use one name per
provider for all processes, the replay stash one per process and put. `Create`,
`WriteAll`, `Sync` and `Rename` are the four system calls of a put (several
processes interleave between them), `Abandon` the `?` after each of them and the
death of the process, `OpenRead` and `Read` a get, `FindStale` and `Unlink` the
two halves of `prune`. `Flush` and `PowerLoss` are the file system: contents not
synced may be lost, and so may a rename. One final name is modelled, since the
stores share nothing between keys. `create_dir_all` and the modes are left out.

### 2.3 The OAuth credential

```
OAuthRefresh      processes, token endpoint, another tool's sign-in
  Login           how a login comes about: device code or browser, and a user
    MCOAuthRefresh  either of them; symmetry of the processes
```

`OAuthRefresh` models the credential of one row. `store` is what `CredStore::get`
returns, `ambient` what `CredStore::discover` does; an access to either is one step,
which section 2.2 justifies. A run (`pc`) goes through `auth/mod.rs` and
`auth/refresh.rs`: `Get` and `Discover` are `fetch_cred`, `Ask` the request to the
token endpoint and what the server makes of it, `Receive` the reading and parsing of
the answer with `as_cred`, `Spent` the second look at the other tool's sign-in after a
refusal, `Persist` the put, `Send` the use. `LogIn` and `PutLogin` are the end of
`bz --login`. Every `?` on the way ends the run with its exit code, and `Crash` may end
it anywhere. `Examine` is the decision of `bearer`: fresh, borrowed and stale, or
stale and one's own.

The server is external. Its `policy` is one of three that occur: refresh tokens keep
their value, serve once, or serve once and revoke the login when shown again. A token
is the login it descends from and a serial number; login 0 is the other tool's. The
histories `persisted` (access tokens ever stored) and `strayed` (logins whose newest
refresh token died with a process) serve the properties only. Not every credential names its
account: `named` is the set of logins whose token response has an `id_token`
(`src/auth/flows.rs:62`, `src/auth/device.rs:75`), `LogIn` stores no account for the others, and the other tool's file may have one or
none (`ToolCred`; `src/store/ambient.rs:87`). A refresh carries forward what the stored credential has
and `Receive` sends that, not what the response says. Left out are scopes, rows
with a static secret, which keep no state, and logins granted no refresh token.

`Login` refines `LogIn`. `wire` is the row's way to log in: a device code of either style,
or a browser redirected to an ephemeral port or to a registered one. `step`, `deadline`,
`interval` and `wake` are the locals of `poll_until`: `Pace` is the head of its loop (the
deadline, then the wait), `Poll` the rest (the closure `step`, `slow_down` included).
`OpenBrowser`, `Callback` and `Exchange` are `browser_flow`, `parse_callback` and
`exchange_auth_code`; a codex device login ends in the same `Exchange`. An attempt is a number, which
stands for its device code, its CSRF state and its PKCE verifier. External are the user, who
approves or declines any attempt at any time (`UserAnswers`), the browser, which may load
the redirect of an attempt that is over when its port is used again (`Redirects`), and
the server, which may refuse or be lost at any poll and hands out a grant once (`spent`).
Every `?` on the way is a disjunct that ends the flow, and `Dies` may end it anywhere.

### 2.4 The model cache

```
ModelCache        processes, the cache document, the provider's lists
  MCModelCache    three names, two of one family, three listings
```

`cache` is the file, read and written in one step each (section 2.2). `Resolve` is the
first half of `generate` (`src/run/generate.rs`): the document is read, `Select`
(`select_model`) finds the model, the request goes out. `Accept` is what a 2xx does
(the conditional put of `Taught`), `Reject` any other end of the request. `Fetch` and
`Relist` are the two halves of `--list-models`: the list served and the old document
read, then the put of the new list with the old pointer. Reads may yield the empty
document although there is a file (`ReadsMayFail`), because `get` forgives whatever it
cannot read or parse. `known` is a history of what the provider ever listed or
accepted. A provider does not list a name twice (`CacheAssumption`). Context window,
the 404 hint and the request itself are left out.

### 2.5 The response body

```
ByteStream        the chunks of a body as its consumer sees them   (abstract)
  ExecTransport   a subprocess behind pipes, three threads, the relay
  IdleReader      an HTTP body, read in place or by a worker thread
    Body          the reader and, on what it hands on, a framer
      MCBody      the texts
Framer            the SSE and NDJSON framers
```

`ExecTransport` has one action per step of each thread of `src/native/exec.rs`:
`Feed` (stdin), `DrainStderr`/`DrainFails`, `ReadStdout`/`ReadFails`/`Send` (stdout into the bounded
channel), and on the main thread `Call`, `Receive`, `ReceiveError`, `Timeout`, `Eof`,
`Wait`, `Join` and `Drop`, which are `ExecBody::next`, its `reap` and its `Drop`. With
the envelope `http` the relay keeps what it receives until the head is whole
(`PassOn`, `HeadMalformed`). The child is external: it blocks on one pipe at a time, closes its
output, forks a process that inherits the pipes, exits or is killed whenever it likes.
Killing and reaping it is one step, since nothing of `bz` comes in between; the process it
forked survives it, and does nothing but hold the pipes. A child that
writes to a closed pipe dies, which `ChildDies` covers. The stderr thread ignores the error of
`read_to_string` (`src/native/exec.rs:96`): what the child writes there may not be UTF-8 (`garbled`), which
leaves an empty text however much was read, and a read may fail (`DrainFails`), after which nobody reads
the pipe. The pipe of stderr has its own size, `ErrCap`.

`IdleReader` is `src/native/transport/idle.rs`: a worker that reads and a main thread
that receives, which meet at a channel without a buffer (`Meet`) or miss each other
(`Stall`); without a budget the main thread reads (`ReadInPlace`).

Both keep bytes as numbers, so that a byte lost, repeated or out of order is seen.

`Framer` is `src/protocol/sse.rs`. Its bytes are the ones framing looks at (CR, LF, the
three of a byte-order mark) and one unit for the contents of a line: a `data` field, an
`event` field or a comment. `Push` and `Finish` are the framers as the driver calls
them, with the buffer, the resumption of the scan and the mark decided once. `Body`
conjoins it to `IdleReader`, whose numbered bytes index a text, and
`FramesAreTheText` compares the frames with a definition that reads the
undivided text line by line as the standards do (`Reading`). A server ends its lines one
way, LF or CR LF (`LinesEndAlike`): a blank line that follows another kind of line end
(LF CR LF) ends an event by the standard, but not for `find_frame_end`.

### 2.6 A response in all its forms

```
StreamEvents
WholeBody        decode_full of every dialect, and the same answer streamed
ProviderErrors   kinds by status, kinds by an error frame, what is worth a retry and when
  Response       six forms of response, the text sink, --raw
    MCResponse   statuses, headers, a clock
```

`Response` extends the driver to all that `response_events` (`src/run/events/mod.rs`) may
be given: a stream, a stream that opens with an error frame, an answer in one piece, a
status other than 2xx, `--raw`, and no response at all. A folded response is queued by
one action (`FoldBody`) and read by the same pump. The text sink's `pending_sep` and open
images are state of the module, because what it writes depends on the events before. In
`WholeBody` a body `b` is what the server means, and stands for two things: the
document `DecodeFull` is given, and the frames (`Streamed`) the same server would
have streamed.
The second is external. `ParseRetryAfter` computes in pairs of days and seconds, which keeps the
64-bit arithmetic of the code within TLC's integers.

### 2.7 The masquerade server

```
Ingress          both ingress encoders: events to the client's wire
  Masquerade     connections, conversations, the replay stash
    MCMasquerade the scenes; answers made by the decoders of 2.1 and 2.6
```

`Ingress` has an operator per event of each encoder, on the `IngressState` of the turn:
what it wrote is appended to `out`, and `told` says what an aggregate would say.
`Masquerade` has one action per step of a connection's thread that another thread, or
the client, can come between: `Send` and `HangUp` are the client's; `Accept` and
`AcceptFails` the loop of `native/listen.rs`; `ReadNone`, `Malformed`, `Unauthorized`,
`NotFound`, `Models` and `Undecodable` the exits of `run/masq/listen.rs` before a turn
begins; `Recall` (one key of the stash), `Reject`, `Generate`, `Encode` (one event),
`Broken`, `Stash` and `Ended` the turn; `Evict` a stash that forgets. A client keeps the
conversation alone and echoes it, over any connection. It gathers a streamed answer frame by
frame (`Gather`), as the SDKs of its dialect do, and knows that the answer is whole by its last frame
(`Closing`). `Recall` and `Inject` are the two halves of `ingress/reinject.rs`: a payload is looked up
by any of the turn's keys, and put in front of it but for signatures of calls the turn does not
have. The stash is a set of atomic files, which 2.2 justifies. The answers are computed from the decoders, from
responses whole or cut after any frame.

### 2.8 Requests

```
Transcript         the canonical request; what a row does to it (preparation)
  RequestEncoders  six encoders, prompt-cache marks, token counts
    RequestDecoders  the two ingress decoders
      Conversation   a client, a row, and what a provider understands
        MCConversation the scenes
```

`Conversation` keeps the client's `body`, in its dialect, and beside it `said`, which is
what the client meant. `Say`, `Instruct`, `Answer` and `Return` let the conversation
grow; `Send` is `send_encoded` (`src/run/generate.rs`) with all it calls: decode, fill in
the row's defaults, lead with its preamble, strip what the provider does not support,
couple the thinking budget to the cap, encode. Decoding may refuse the body (`NoProjection`: an output
configuration without a format in the messages dialect) and takes what it names off the fields passed through
(`ChatTaken`, `MessagesTaken`): every sibling of the format, and both names of the cap, of which the older
one counts. What the masquerade answers itself, the stream options, is taken off the
request before `generate` (`ShapeTaken` is `for_request`). `Heard` reads the wire back as the
provider would (external). Texts are sequences of numbers, so that merging and
joining of parts can be seen and order cannot be lost unseen.

What is abstracted: an absent `system` and an empty one are the same; a lone text part is a
bare string; the structural keys a client may smuggle into `extra` are left out; the blank
lines `claude` is given between turns are left out; JSON that is no request is left out, and so are
numbers an `f32` cannot hold. A foreign client's bodies are those its decoder keeps whole but for the fields named
above: the cache marks of a messages client and keys beside those a turn or a tool is known to have are dropped by
the decoders and not in the scenes; `stop` is an array, which a lone string becomes. `--in` together with
`--raw=out` (`src/run/masq/filter.rs:55-67`) is not modelled: it sends what was decoded without `for_request`.
Reinjection from the stash belongs to `Masquerade` and is not repeated here.

## 3. The runs

| run | properties | shows |
|---|---|---|
| `stream` | `NoSilentTruncation`, `EndTellsTheTruth`, `IsCanonicalStream` | every dialect, four frames (six where opening and closing a block takes frames of its own) and two calls, blocks or items: the consumer receives a canonical stream, exit 0 means a complete answer and exactly that, a block is left open only by an errored stream with a terminal marker, the synthesized verdict asks for tools exactly when a call was sent, an error carries a body sample only if nothing was decoded |
| `file_unique` | `ReadsAreWhole`, `DurableIsWhole`, `IsAtomic` | the replay stash, two processes that put, get and prune: reads and what a power loss leaves are whole, and the protocol implements an atomic file |
| `file_shared_temp` | `ReadsAreWhole` violated | two processes that put under one temp name: a reader gets a partial file (section 5) |
| `oauth` | `BorrowedStaysBorrowed`, `UsedWasPersisted`, `SentTokensAreFresh`, `AccountIsTheTokens`, `LoginServes`, `LoginHeedsTheUser` | two processes that refresh and log in, all three policies: what is borrowed is neither refreshed nor stored, a token is stored before it is used and is fresh when sent, no account but its own goes with it, and one that the login or the other tool's file named always does; refreshing does not lose the login, puts of one login come in order, and the second source is used before the run gives up; a login exchanges what its own attempt was approved for, and a device approved in time is not told that it expired |
| `cache` | `ListedOnce`, `OnlyKnownModels`, `SuccessIsRemembered` | two processes that ask and list, with reads that may fail: no model is listed twice, nothing the provider refused gets in, and what a success writes is what a bare request finds |
| `exec` | `NoZombie`, `FailureIsReported`, `IsByteStream`, `OutputWaitEnds` | a child that does as it likes, behind both envelopes: the body is a byte stream, a failure whose message could be read is reported, the child is waited for however the body ends; with a budget no wait for output lasts for ever though the processes may, and without one the body ends if the processes exit some day |
| `exec_lingers` | `SilenceIsBounded` violated | but a call of `next` may outlast the budget (section 5) |
| `body` | `IsByteStream`, `CallReturns`, `FramesAreTheText` | a body over HTTP, cut anywhere, stalled, broken off: the reader is a byte stream, under a budget every call returns, and the frames are those of the undivided text |
| `answer` | `WholeIsTheStream`, `FailureIsJudgedAlike`, `RetryAfterIsTheDistance`, `SinkShowsTheAnswer`, `CanonicalInAnyForm`, `RTerminates` | an answer in one piece says what the stream of it says; an error means the same by status and in the stream; a delay is the distance to the date; reasoning and answer are apart and every image that arrived is a file; every form gives a canonical stream and ends |
| `masq` | `StreamIsWellFormed`, `AggregateIsTheStream`, `FailureIsTold`, `PayloadIsThere`, `ReplayIsOwnOrTold` | whatever answer comes, a client reads a stream of its dialect that is closed, or an aggregate that says the same; a failure is told as one; the payload of a turn is stored before its client can go on, and what is replayed is the conversation's own, or the client is told that it is gone |
| `request` | `HeardAsSaid`, `ResultsFollowTheirCalls`, `SwitchesFreely`, `OwnReasoningReturns`, `CacheStaysWarm`, `PreparedAsPromised`, `SameDialectIsTransparent` | every provider hears what was said, results directly after their calls; a conversation may go from any provider to any other; a provider gets its own signed reasoning back and nobody else does; a cached prefix is found again; what is counted is what is sent, a cap exceeds its thinking budget, the preamble leads once, what the row strips stays off unless it is passed through what is given reaches the wire, and the stream options of a client that Brazen itself answers reach nobody; and a client that talks to a provider of its own dialect has its body go through, but for the fields that Brazen answers, renames or drops (the property names them) |
| `request_wrong_name` | `ResultsNameTheirCalls` violated | a result may be sent under the name of another call (section 5) |

A property that is a conjunction names its parts in the module; each part has its
comment there.

**Bounds.** `MaxFrames`, `MaxBlocks`, `MaxChunk`, `HeadCap` bound the stream. Two
calls or blocks are enough for interleaved fragments, a block closed while another
is open and an index assigned after one; four frames (six where opening and
closing take frames of their own) let both live, one get a fragment after the other
began, and the answer end or fail (`Long` in `MCStreamEvents` says how many each
dialect gets). The sample cap is two units with chunks
of one or two, so that the sample fills exactly, is cut in mid-chunk, and is dropped.
For files, two processes and two payloads are what a race needs; inodes are
recycled, and three suffice for one published, one being read or left
on disk, and one being written (four where both processes write without a stash of
their own). Processes, payloads and inodes are symmetric. A writer uses its temp name
over and over, so that what a dead put left behind is met by the next one; the
credential store and the model cache with one process that puts at a time are
instances of this.
For OAuth, two processes make the race; two logins let one overwrite the other's
credential, two serials let a login be refreshed once (`MaxSerial` bounds what
the server grants, after which it only refuses or is busy), one of the logins names its
account and the other does not (`MCInit`), and with `SKEW` 1, `Life` 2 and
a clock up to 3 a token is found fresh, found within the margin, and expires while
the run is under way. Processes are symmetric.
`MCOAuthRefresh` takes either everything with logins of one step, or logins in detail, from an
empty store and without refreshing, on every wire: `DetailImplementsLogIn` (section 4) says
that the detail adds nothing to what the other half sees. Two attempts (`MaxTries`) let one be
given up and its redirect come in at the other; intervals of 0 and 1, which `slow_down`
raises by 1, and deadlines 0 and 2 seconds away let a device be approved before the last
wait, during it, at the deadline and after it. A wait past `MaxTime` does not end; the process
may die in it.
For the cache, two names of one family let a partial name match, a third lies apart; the
listings are an empty one, one without a flag and one with a flag that is not the first;
two processes (symmetric) make the races.
For the subprocess, a channel of one chunk, chunks of up to two bytes and pipes of up to two
units let the child block on stdout and on stderr, and the reader on the channel; two bytes
of output and a head of one byte let the head come with a byte of the body, apart from
it, and not at all. Two units on stderr through a pipe of one let the child write on after the thread that
reads them failed, and block. `ExecLingers` has pipes of one unit and two units to go
through each.
For the body, each of the eight texts stands for all its prefixes, since the server may
stop anywhere, and reads of one to four units cut it in every way: a line end, a blank
line or a mark divided between reads is among them. Texts of up to ten units hold two
events with whatever may stand between.
For `answer` the stream is bounded by two frames, because `stream` has the larger instance;
bodies have up to two blocks, parts, calls or items. The dates lie on both sides of the clock, in
leap years and common ones, of either kind of century, out of reach of a `u32`, and on
days their month does not have.
For `masq`, `any_shape` has one turn of every provider and shape, cut after any frame,
asked for whole and streamed in both dialects; `side_by_side` two conversations over two connections that
serve either; `in_turn` and `or_not_at_all` three turns of one under both policies of a replay miss;
`colliding` two conversations whose calls have the same ids; `any_route`, `guarded` and
`as_filter` every route, with a token and without, and `--in`.
For `request`, conversations of two requests wander from any provider to any other
(`wandering`, `chat_wandering`, `messages_wandering`); one request has parts of every kind and
results in every form (`pictured` and its two fellows); four requests to Anthropic outgrow
the twenty blocks it looks back for a cached prefix, which `Lookback` makes two
(`growing`); and one request meets rows and fields in all combinations of interest
(`knobbed`, `chat_fields`, `messages_fields`, `preambled`): among them both names of the cap, stream
options with and without a stream, a format of plain text, and an output configuration with a format, with a sibling
beside it, and with the sibling alone, which is refused.

**Fairness.** `RSpec` of `Response` assumes weak fairness of each step of the one
thread (it is never descheduled for good) and strong fairness of `BodyEnd \/ Drop` (for
`--raw`, weak fairness of `RawDrop \/ RawEnd`): a body that is asked again and again
ends or fails at last. The code bounds silence
with timeouts in the transport; that a provider does not send frames for ever is an
assumption about the provider, and it is the only one.
`FairSpec` of `ExecTransport` and of `IdleReader` assumes that the threads of `bz` are
scheduled, that a read or write that can complete does, and that a timer that is set
expires; a read need never fail. `BodySpec` is that of the reader: the framer waits for
nothing. `PatientSpec` adds, only where no budget is set, that
the child exits if it can exit again and again, and so does what it left behind:
without a budget nothing in the code ends the wait for a process that does nothing.
The other modules state no fairness and no liveness: `FileReplace`, `OAuthRefresh`, `Login` and `ModelCache`
have processes that may die anywhere, a server waits for its clients for ever, and
a conversation ends when its client has had enough.

**Deadlock** is checked in every run but those of `Conversation`, where the bounded
conversation is over in the end. The others go on for ever (processes start again, an
entry is read once more) or stutter in an action of their own when the run is finished.

Every property has a mutant: a variation of a mapped definition, kept beside
it and marked as such, that the property must catch.

## 4. The proofs

TLAPS checks the theorems for every value of the constants, under the named
assumptions of the modules (`ProviderAssumption`, `StreamAssumption`,
`ReplaceAssumption`, `PayloadAssumption`, `OAuthAssumption`, `LoginAssumption`, `NullAssumption`,
`CacheAssumption`, `ExecAssumption`, `IdleAssumption`, `TextsAssumption`, `LookbackAssumption`, the `ScenesAssumption` of `Masquerade` and that of `Conversation`, `ResponseAssumption`), which TLC evaluates in every run.

*`TypeCorrect`* (`ResponseProof`): `Spec => []TypeOK`. `TypeOK` is inductive.
The work is in the lemmas: every decoder maps a typed `DecodeState` and a frame of its
dialect to a typed `DecodeState` whose `out` is a sequence of canonical events
(on lemmas about `synth.rs`), and
providers send only such frames and keep their own state typed
(all in the first part of the module). `drain` folds over the sorted indices of the open
blocks, so it is first proved there that a finite set of naturals can be sorted.

*`TruncationIsNeverSilent`* (`ResponseProof`): `Spec => []NoSilentTruncation`.
The property is not inductive: between the moment the driver decides that the stream
is over and the moment the pump ends it, the error is in the queue. `TruncationInv`
adds that a finished driver whose decoder saw no terminal marker has an error in
`pending` or already in `exit`, and that no error's exit code is 0.

*`ImplementsCanonicalStream`* (`ResponseProof`): `Spec => IsCanonicalStream`, the
refinement of `CanonicalStream` by the driver over all six decoders. The consumer's
variables are the abstract ones, so the mapping is the identity and only `Yield` and
`YieldEnd` are seen; but whether the event at the head of the queue may be delivered
was decided when it was decoded, under a consumer that had not received what was queued
before it. `StreamInv` says that a consumer `c` can be `Foreseen`: told all of `pending`,
event by event and each one legally (`Path`), it will be in state `c`; and `c` agrees
with the decoder and the provider (`Agrees`). What agreement means depends on how a
dialect numbers its blocks:

- `LazyRel` (openai, google, ollama): until the verdict nothing is stopped, the blocks are
  `0..n-1`, and a wire index leads to the block of its call;
- `NumberedRel` (anthropic, claude): a block keeps the provider's index, which is live and
  below the provider's next one;
- `PartsRel` (responses): the indices handed out are those below the size of
  `part_index`, an item that is live has no parts but those it announced, and a block is
  named by its pair.

Each dialect's lemma (`ChatKeeps`, `GenaiKeeps`, `OllamaKeeps`, `MessagesKeeps`,
`ClaudeKeeps`, `ResponsesKeeps`) takes one frame of the provider's grammar and shows that
what the decoder appends to `out` is legal and that agreement holds again. A decoder that
is `terminated`, and a stream that is cut short, leave a consumer with a verdict or an
exit code (`Settled`), which is what lets `End` come.

*`ReadersSeeWholeFiles`*, *`PowerLossLeavesWholeFiles`* and *`ReplaceIsAtomic`*
(`FileReplaceProof`): if no two writers share a temp name (`NoSharing`), then
readers see whole files, a power loss leaves whole files, and the protocol
implements `AtomicFile`. The inductive invariant says what makes it true: an inode
being written has no other name and no other opener (`PutsAreApart`), and an inode
that is published, on disk or being read holds a synced whole payload. The
refinement maps a process's `payload` to the value it is storing and what its open
inode holds to the value its read will return; the rename is the abstract `Store`.
`NoSharing` is exactly what `file_shared_temp` lacks.

*`BorrowedIsNeverOwned`*, *`PersistThenUse`*, *`MarginCoversTheSend`* and
*`AccountNeverStrays`* (`OAuthRefreshProof`) are `[]BorrowedStaysBorrowed`,
`[]UsedWasPersisted`, `[]SentTokensAreFresh` and `[]AccountIsTheTokens`, for any number
of processes, logins and tokens and any policy. None is inductive: each speaks of one
point of a run, and depends on what the run picked up before. `Inv` follows the
credential: what is stored, refreshed or put is `Own` (all its parts of one login that
is not the tool's), an answer belongs to the login that was asked about (`ReplyOK`), and
a bearer is of that login, stored, and was found outside the margin (`BearerOK`). About the account it says
three things that depend on each other: a credential that names one names its own login's, a credential of a login that was
named always names it (which refreshing keeps, because `as_cred` carries the prior's account forward), and one of the
other tool's has what the file had (`Belongs`). A login that was not named may send none, even in the run a
refresh tells the account; section 5 has that.

*`LoginsServe`* (`OAuthRefreshProof`): `Spec => LoginServes`, under the same assumptions. `ServeInv`
adds who has which token: every credential a run or the store holds was issued (`HoldsOK`,
`Issued`), and the server takes the newest refresh token of a login, the first one for ever,
or none (`ServerOK`). With tokens that rotate, a run that was granted a token and has not
stored it is `Ahead` of everybody: the store and every other run that is to refresh the
login have an older token. So the server hears nobody else before that put, puts come in
order, and the newest token is either stored or on its way there unless its run died or
failed.

*`DetailImplementsLogIn`* (`OAuthRefreshProof`): `LoginSpec => Spec`. A login in detail is a
behaviour of `OAuthRefresh`: it touches the credential only in the step in which the
server grants the tokens, and that step is `LogIn`. What the five theorems above prove
of one step therefore holds of every wire.

*`LoginsHeedTheUser`* (`OAuthRefreshProof`): `LoginSpec => LoginHeedsTheUser`. `FlowInv` says per
process what it may hold (`FlowOK`): a code to exchange is its own attempt's, and that attempt is
approved; and one that is at the head of the loop in the very second of its last poll
has an attempt that was not approved before that second.

*`AppendingNeverRepeats`*, *`RefusalsLeaveNoTrace`* and *`SuccessesAreRemembered`*
(`ModelCacheProof`) are `[]ListedOnce`, `[]OnlyKnownModels` and `SuccessIsRemembered`, for
any number of processes, names and listings. They hold of the file because they hold of
every copy of it that a process carries (`DocOK`), and because `learned` says that
the model is absent from the very copy it will be appended to (`AskOK`); the lemma
`SelectPlaces` proves that of `select_model`, `TaughtOK` what follows for the document
that is written.

*`ChildrenAreReaped`* and *`FailuresAreReported`* (`ExecTransportProof`) are `[]NoZombie`
and `[]FailureIsReported`, for any sizes of pipes, channel, request and answer. The
second depends on who holds stderr: the child does as long as it runs, so a stderr
thread that has come to the end has read all the child wrote, and has it as text if it is UTF-8 (`StderrOK`); and a call
that joins has waited for the child (`CallOK`). A failure that is told as a plain end is therefore one
without a message, one whose message is not UTF-8, or one whose message could not be read.

*`ImplementsByteStream`* (`ExecTransportProof`) is the refinement of `ByteStream`. Every
byte of the child's output is in exactly one place: the pipe, the thread that reads it,
the channel, the relay's buffer, or handed on. Each place holds an interval of the
numbered bytes and the intervals adjoin (`Located`): what was handed on or buffered ends
at `r` (`Handed`), the channel carries `r` to `m`, each chunk from where the last one ended
(`Carries`), and the thread and the pipe hold `m` to `written` (`Behind`), unless the
thread gave up after a failed read, which is then still in the channel. When the last
call of `next` joins, the thread is gone and the channel empty (`WaitOK`), so `r` is
`written` and nobody holds the write end. The lemmas before it say how intervals are
cut, joined and passed through a queue.

*`ImplementsByteStream`* (`BodyProof`) is the same refinement by the reader of an HTTP body. Until
the body is dropped every byte is on the wire, with the worker or handed on, and the numbers run
on from one place to the next (`Located`); a worker that is gone while somebody still calls has
met the end of the body or a failure that was told, never a lost chunk (`Inv`).

*`FramesOfAnyText`* (`BodyProof`): `BodySpec => []FramesAreTheText`, for every framer, every text of
any length and every way to cut it. Both sides are computed by recursion over a text: the framer splits
a block it has found, the definition reads the text once from left to right. The operators
are recursive functions, so what they compute can be proved by induction over the positions (`UpTo`, from
the library's `NatLessThanWellFounded`; `Recursion` says such a function exists). The argument:

- before the first blank line ends nothing is dispatched, and what the reading has noted is what
  `parse_block` would note (`NotedAlike`); at its end the frame dispatched is the one parsed
  (`EventRead`; `LineRead` for JSON lines);
- there the reading has nothing left, and the rest of the text is read as if it were alone
  (`ReadingGoesOn`), so that one round of the loop takes one frame off the text (`OneBlockMore`), and
  the loop ends with no blank line in the buffer (`PeelTakes`);
- a blank line that ends after a push began at most three bytes before its chunk, so the
  search that starts at `Resume` misses none (`ResumeFinds`);
- a byte-order mark is decided once and on the same bytes, however they are cut (`UnmarkedGoesOn`).

`BodyInv` joins this to the reader's `Inv`: until the body has ended the decoder holds the
unfinished end of what was received and the frames are those of the rest (`Making`), and
afterwards they are those of the whole (`Whole`). Lines that end alike are needed in `NotedAlike` and nowhere
else.

`PutsAreApart`, the `TypeOK` of `StreamEvents`, `FileReplace`, `OAuthRefresh`, `ModelCache` and
`ExecTransport` and `FlowTypeOK` of `Login` are conjuncts of the inductive invariants and are proved
there; no run names them, because the properties above fail if they do.

*`EndIsTruthful`* (`ResponseProof`): `Spec => []EndTellsTheTruth`. The property speaks of the
moment the run is over; what decides it happened frames ago and waits in the queue. `EndInv`
says that whatever is in `pending` or was just delivered has its reason (`MayQueue`): an error comes of a
fault of the provider, a lost transport or a stream that was cut, it quotes the body only if
nothing of it was decoded, and a verdict is one this provider may lead to (for Google and Ollama, a tool
run if and only if a call was streamed). Conversely a fault or a loss leaves an error in the queue or in
the exit code (`Doomed`), and the decoder is `terminated` exactly when the provider said so (`Ends`). Each
dialect's lemma (`ChatRelays` to `ResponseRelays`) shows that for one frame. `OpenInv` adds, from the
refinement above, that a verdict leaves no block open, so that content stays open only
behind an error that a terminal marker follows.

### Failures and retries

`ResponseProof` holds two theorems about `Response` itself, for every dialect, status, header and clock.

*`FailuresAreJudgedAlike`*: `RSafe => []FailureIsJudgedAlike`. The exit code of a failed
response is decided twice, by `decode_full`'s error in the folded body and by the transport when the body
drops, and is told later, by the pump. `ReplyInv` says what is queued and what is in the driver in each of
the six forms: a failed response has nothing but its one error in `folded`, and its exit is the error's.
`JudgeInv` carries the exit from there to the end. That throttling is retryable however it
is told is a fact about the error tables, which `InBandJudged` goes through dialect by dialect.

*`RetriesAreOnTime`*: `RSafe => []RetryAfterIsTheDistance`. The property counts days as a calendar does:
the leap years since 1970 are counted one by one, the months of the year added up. `days_from_civil`
has years that begin in March, eras of 400 years and the line `(153m + 2) / 5`. The proof takes
both to one form. `LeapsCounted` is an induction over the years: as many leap years lie between two years as
`y/4 - y/100 + y/400` differs. `Eras` takes the era out of the code's formula, which leaves that same
expression. `MonthStarts` unfolds the calendar's sum month by month, and `FromMarch` compares the line
with it at the twelve months. `CivilDays` puts them together; `Distances` does the rest, which is borrowing a day
where the seconds do not suffice, the leap second that is a day and no seconds, and the clamp to 32 bits.
`DelayInv` says that the delay the error carries is what the header said.

### The masquerade server

`MasqueradeProof` holds seven theorems about `Masquerade`, five of them properties of its run, for any number of connections and
conversations, any scenes and any answers. `ScenesAssumption` is what they assume: an answer is a
canonical stream (`IsStream`, which is what `ImplementsCanonicalStream` and `EndIsTruthful` say of
what the driver delivers), and only OpenAI counts tokens after the verdict (`CountsInTime`).

*`ConnectionsTellAnswers`*: `Spec => []ConnInv`, and from it *`ResponsesAreWellFormed`*,
*`BodyIsTheStream`* and *`FailuresAreTold`*. `ConnInv` says of each connection, by the phase of its thread,
how three things go together: what the provider has yet to say (`events`), what the encoder
keeps (`encoder`) and what is written (`wire`). In the middle of an answer that is `Telling`: there is a
state `c` of the canonical stream from which the rest of the events may follow (`Follows`), and
the frames and the encoder are what `c` must have led to (`Runs`). At the end it is
`ToldAll`. Three parts of `Runs` carry the weight. `Tracks` is what both dialects share: the
announcement is pending or was told first, and errors in the encoder and in the frames are one
fact. `ChatSays` and `MessagesSays` say that the frames keep the grammar *and* that what a client has gathered from
them is what the encoder has kept, slot by slot: a piece of a call finds the call it belongs to because
calls are numbered as they are told, not as the provider's blocks are. `InTime` is needed since a
messages client is told the usage with the verdict. The lemmas `ChatEvent` and `MessagesEvent` take one
event through the encoder, with a lemma for each kind of event under them; `ChatEnding` and
`MessagesEnding` do what `End` does.

*`StashKeepsTheLedger`*: `Spec => []StashInv`, and from it *`PayloadsAreThere`* and *`ReplaysAreOwnOrTold`*. Neither
property is about one connection: a turn is told over one, stored by its thread, dropped by the
stash, echoed over another and looked up there under whatever keys the client has. `StashInv`
says that there is a ledger `C`, of every turn told so far and the ids of its calls, such that

- whatever is in the stash is the payload of the turn its key names, if it names one (`Belongs`);
- every turn a client knows of, or has already sent, is in the ledger, with the calls it made; its payload is in the
  stash under all its keys, or the stash has lost the key, or the thread that streamed it
  is still to store it (`Known`, `Kept`);
- a thread in the middle of a lookup has recalled, for each turn so far, what is right of it
  (`Recalling`, `Right`), what was sent upstream was right when it was sent and remains so (`SentWell`), and a thread
  that stores has stored every pair it no longer holds (`Filed`);
- the requests being served are different turns (`Distinct`), and none of them is in the
  ledger before its last event is told.

The ledger grows by one turn when an answer's `End` is encoded and never otherwise
(`EndStash`). Every step is then one of two: quiet (`QuietStep`), or one that changes the stash or tells
a client something (`LedgerStep`), in which whatever was stored stays or is lost (`GoesOn`).
`Distinctive` is why the ids matter: `call_0` of one answer is `call_0` of any
other, and of turns with such ids only `PayloadIsThere` holds.

### Requests

`ConversationProof` is about `Conversation`, for any scenes: any conversations of any length, in any of the three dialects
a client may write, with any answers of any providers. `ScenesAssumption` is what it assumes. It says what
a scene is: a conversation begins with nothing but instructions, users say texts, pictures and documents, a
provider answers the blocks its decoder has (only Anthropic redacts reasoning), and the two foreign
dialects have what they have (no instructions in mid-conversation in the messages dialect, results as text
and in turns of their own in the chat dialect). For `PromisesKept` it also says that caps and efforts have the types of `knobs.rs`,
in a row as in a body that its decoder reads, that no instruction but the first is the preamble, and that a field that is passed through is named by one
key or by two, as deep as the fields of the model are.

*`ConversationHolds`*: `Spec => []ConversationInv`, and from it *`SwitchesAnywhere`*,
*`ResultsFollow`*, *`OwnReasoningIsShown`*, *`CacheIsFoundAgain`* and *`PromisesKept`*. All are about what a provider is sent, at a step that looks at nothing but
the client's body; what makes it good was done turns ago, by `Say`, `Answer` and `Return`, in another dialect.
The invariant therefore speaks of `TheMessages`, which is what the decoder of the client's dialect makes of its body:

- `BodyInv`: the body is of the client's dialect, and each answer has the blocks that its provider may give;
- `ResultsAreNext`: leaving instructions out, a turn has as many results as the turn before it has calls, and
  the last turn has as many calls as are pending. The second part is what `Return` needs to keep the first;
- `CallsPend`: while calls are pending the assistant has the last word, and they are those of the last answer;
- `SaysNoMore`: an assistant's turn has texts, calls and reasoning, and a tool that was served only if a provider did serve one;
- `ProofsAreKept`: for a client that keeps reasoning, what the messages have of a provider's signed or sealed reasoning
  is, in order, what that provider's answers gave, and no instruction, user's turn or result has any;
- `SentInv`: the wire is the encoding of the prepared body, as the body is now, or the decoder refused the body and
  nothing was sent.

A turn that the client writes is one message or, for the results of a chat client, one message for each, which
`ChatFold` gathers in one. `Extends` says that either way decoding the longer body appends one message to
what decoding the body gave (`ReadBack`); for the chat dialect that is an induction over the results.
The lemmas about sequences before that (flattening, filtering, mapping and counting:
`MappedAppend`, `NumberAlong` and their fellows) are inductions too: `ByAppending` takes a set of sequences that has the
empty one and is closed under appending, so that no operator is a parameter. The encoders then keep
the number of calls and of results of every turn (`BlocksKept`, `PartsKept`), and take whatever
`SaysNoMore` leaves an assistant to say. What an encoder shows of a message's reasoning is a filter of a filter of what
it makes of the blocks (`MessagesProofs`, `PartsProofs`, `ItemsProofs`); `MappedVia`, `PickedTwice` and `PickedEach`
turn each into one map from the blocks, `ProofsOf`, the one `ProofsAreKept` speaks of.

*`CacheIsFoundAgain`* is `CacheStaysWarm`, which compares two requests that may be many turns apart. What holds in
between is `PriorInv` (*`PriorBegins`*): the last body with marks that Anthropic was sent begins what
it would be sent now, with the same instructions and the same tools, its turns a prefix of the turns, its marks those that
`ConversationMarks` put. `PriorInv` is inductive because a conversation only grows at its end: `Say`, `Answer` and
`Return` leave what leads the body as it was (`Grows`), which is why they conclude it beside the invariant, while
`Instruct`, whose instruction is gathered at the head and so changes every prefix, forgets the body there was. What the provider is sent grows with it: a turn appended
to the messages is a turn appended on the wire (`BeginsMore`), and the instructions that preparing gathers from
all the messages at the head of the body stay as they were (`GatheredStays`). The marks themselves are positions in a list: `Eligible` is, in order, every place up to the last
turn that is not the assistant's where a mark may be (`EligibleLists`), so a distance between two places is the difference
of their positions (`DistanceIs`), and of the last place and the one a lookback before it
one is within a lookback of wherever the list ended up to two lookbacks ago (`MarksStayNear`).

*`PromisesKept`* is `PreparedAsPromised`: what the caller, the row and the model list ask of one request, kept at once by
steps of which each may undo another's. Most of it is about the operators. `ToCountIs` and `CoupledIs` say what the knobs are after
filling, stripping and coupling, and `PreparedIs` what that comes to; `TypedIs` says which fields the knobs are written to, which needs that
no two knobs share a slot (`SlotsApart`) and that no companion takes a knob's (`SlotsCross`), and `FoldedIs` which
of the fields passed through get beside them. From these follow, for any request and any row, `StrippedIsOff`,
`GivenIsThere`, `CapHasRoom`, `OthersAreAbsent` and `CountedIs`; `OthersAreAbsent` says that a field
that neither the request nor the row nor the encoder has is not on the wire, which with `DecodedFields`
(what the decoders leave among the fields passed through) gives `AnsweredStaysHere`. The last one compares two encodings, of the request with its cap and without, and so
needs that turns, tools and instructions are encoded without a look at the knobs (`PromptAlike`). What the conversation
adds is `PromiseInv`: the knobs, the fields passed through and the instructions at the head are those the scene began with (`Stays`), and
what `Instruct` had gathered behind them is never the preamble (`GatheredGrows`), without which the preamble could lead twice
(`PreambleIsLed`). The property speaks of knobs and of fields passed through apart: a caller may pass a field through that
a knob would have written, under the provider's own name, and nothing strips, couples or counts it as that knob.

### What is only checked

Only model-checked, because the prover cannot: `OutputWaitEnds`,
`CallReturns` and `RTerminates` (liveness under fairness). Only model-checked so far: the properties of
`Response` that compare a folded answer with a streamed one or speak of what it is made of
(`WholeIsTheStream`, `CanonicalInAnyForm`, `SinkShowsTheAnswer`), and of `Conversation` those that compare
what was said with what is heard (`HeardAsSaid`, `SameDialectIsTransparent`).
These two read a whole conversation back from the wire and merge its turns, which is computation
over data of any length on both sides of an equation.

## 5. What disagrees

Three runs exhibit a disagreement between the code and what it says of itself:

- The temp name of the credential store and of the model cache is shared between
  processes (`file_shared_temp`), so that a concurrent reader may see a partial
  file, against `src/native/creds.rs:2-4`. The replay stash has a nonce for this
  very reason.
- The silence budget bounds the wait for output only (`exec_lingers`): a child that
  closes stdout and stays, or leaves a process that holds stderr, keeps `bz` waiting in
  `wait` or `join` for ever.
- The name of the function a result answers is looked up by the id of its call
  (`request_wrong_name`), and the first call of the conversation under that id is found.
  Providers whose ids are `call_0`, `call_1`, … number the calls of every answer
  anew, so from the second answer on the result may be sent to Google under
  the name of another function.

The rest was met while modelling. Each is in the model as the code has it, and no run is
about it; where a property excepts it, the comment of the property says so.

- `[DONE]` after an error frame, and a failing `result` line of claude in mid-block,
  mark the stream terminated with a block open, and `StreamEvents` then assumes there is
  none. The error and its exit code are reported; the block is never stopped, against
  `specs/architecture.md:903` and the comments at `src/run/events/stream.rs:97-106`. An
  aggregate without a verdict leaves its blocks open too, and an image among them is
  not written although the streamed answer, cut at the same place, writes it.
- With single-use refresh tokens, the process that loses the race to refresh
  is refused and exits 77 although the store holds the winner's fresh token. The comment at
  `src/auth/refresh.rs:140` and
  `specs/architecture.md:1549` call last-write-wins acceptable because either token is
  valid; there is only one. The store is right and the next run succeeds.
- A login whose token response has no `id_token` is stored without an account. The run in which a refresh
  first tells the account stores it and still sends none, since it sends the prior credential's
  (`src/auth/refresh.rs:149`); by the comment at `src/auth/refresh.rs:62-64` "the account does not
  change on refresh, so the value is correct regardless". The next run sends it.
- A child that fails with a message on stderr that is not UTF-8, or that could not be read, ends as one
  without a message does (`src/native/exec.rs:96` ignores the error and the text is lost, and 203-209
  then report nothing), against `specs/claude-code.md:119-124`, "if the child exited nonzero and wrote stderr,
  the transport yields one trailing `Err`". `FailureIsReported` excepts both.
- "Every unknown key rides `extra` verbatim" (`src/ingress/anthropic_messages/decode.rs:1-4`), but what stands in
  `output_config` beside the format is dropped, and an `output_config` without a format is refused
  (`decode.rs:132-147` beside it). `SameDialectIsTransparent` excepts the first; of the second nothing is sent.
- `poll_until` looks at the deadline before it waits, so that the last poll may go out up to one
  interval after the deadline (`src/auth/device.rs:155-162`; the comment at 145 says "stop at the
  deadline"). A server that keeps its own deadline refuses it; the user gains by it, as
  `LoginHeedsTheUser` says.
- A request writes back the whole cache document it read before it was sent:
  a list or a learned model stored meanwhile is lost, against the
  promise at `src/run/generate.rs:116-121` that a success only appends and that
  `--list-models` stays the authoritative writer of the list. `--list-models` in
  turn may write back an old pointer (`src/run/models/mod.rs:83-89`).
- A replay miss under `degrade` drops the turn's reasoning but keeps the request's reasoning knob
  (`src/ingress/reinject.rs:47-59`), against `specs/ingress.md:206-210`.
- Unsigned thinking reaches a messages client as thinking with `"signature": ""`
  (`src/ingress/anthropic_messages/acc.rs:58-62`); echoed, it is sent to Anthropic
  with that empty signature (`src/protocol/anthropic/encode/blocks.rs:46-50`), against
  `specs/anthropic-messages.md:139`.
- A `max_tokens` that the row strips as unsupported comes back from the model list when
  there is a thinking budget, against `src/config/resolved.rs:209-210`
  (`StrippedStaysOff` excepts it).
- The ids of calls are called upstream-generated and unique (`specs/ingress.md:192-194`) and
  `call_{candidateIndex}_{block_index}` (`specs/providers.md:280`); the code makes
  `call_{index}`, which repeats in every answer. `ReplayIsItsOwn` speaks of calls
  with ids of their own only.
- `src/ingress/anthropic_messages/messages.rs:7-8` says that the stash is idle in the
  messages dialect; `reinject.rs` recalls there.
- A messages client is told the usage before `Finish` if it reads a stream: what a provider
  counts after its verdict is in the aggregate and not in the frames. For chat clients,
  "after the finish chunk" (`specs/ingress.md:98-101`) is untrue of providers that count
  before it.
- The comment at `src/run/masq/mod.rs:141-144` on errors is untrue of a messages client that
  streams.
- An error in mid-stream is "terminal" and "the wire closes after it"
  (`src/ingress/anthropic_messages/encode.rs:59-60`); for chat it is to be "followed by stream end"
  (`specs/ingress.md:392-394`). An error frame does not stop the encoder: a malformed frame of the provider is told as
  an error, and the answer then goes on, up to a `message_start` that comes after the error.
  `MessagesGrammar` therefore sets error frames apart.
- With ids that repeat, a turn of Google or Ollama may recall the payload of another turn. Its
  signatures that fit no call of the turn are dropped in silence (`src/ingress/reinject.rs:116-133`).
- An accept error other than an aborted connection ends the server's loop
  (`src/native/listen.rs:30-37`).
- A `Retry-After` before 1970 gives no delay, since `u64::try_from` refuses it
  (`src/canonical/retry_after.rs:49-52`); the comment at 7-8 says that a past date yields `Some(0)`.
- A Responses answer in one piece whose status is `incomplete` or `failed`, or that
  holds a refusal, is not told as its stream is; an aggregate `{"error": ...}` under a 2xx
  status is not recognized as one. A claude run that was cut short or garbled loses
  in one piece what its stream had already said.

## 6. Plan and what is not modelled

Done: the answer stream, its theorems and the proof that it implements `CanonicalStream`; the file protocol with its abstract
specification and the refinement proof; OAuth refresh, the model cache and the
subprocess with the proofs of their safety; responses in every form; framing; the
masquerade server with the proofs of its safety; requests, with the proofs that conversations go on, that results follow their calls, that reasoning and
caches are found again and that promises are kept; logins in detail and the proof that they implement
the one step.

Left, in this order:

1. proofs: that every form of response is a canonical stream, what the text sink owes, and that what
   a provider hears is what was said;
2. configuration: the precedence of layers as one operator, and the routing ladder,
   which reads every row's model cache, against a declarative definition.

Partly modelled, with what is left out:

- OAuth refresh: static secrets (they have no state) and the scope.
- Logins: what URLs, forms and prompts look like; the catalog that `--login` without a provider prints.
- Model selection: the projection of a provider's list onto models, the context window
  and printing.
- Transports: connecting, TLS and headers, which belong to `ureq`; whether a head parses
  is a choice.
- The masquerade server: the listing a client asks for is its status; whether HTTP
  parses is a choice.
- Requests: what 2.8 says is abstracted.
- Configuration: only what a resolved row does to a request.

Not modelled: input, rendering and the command shim, argument parsing (straight-line
input and output without state of its own).
