# A verification development for sitka

sitka is a local gateway between Claude Code and several model providers. A
request of the Anthropic Messages API either goes unchanged to the Anthropic API
or is translated for an OpenAI-compatible provider, whose reply is translated
back. This directory models the parts of it whose behaviour depends on order:
goroutines that share a response, a stream that ends in one of many ways, a
fan-out that must not wait, a reply that is cut into pieces anywhere, a
conversation that is translated anew at every turn, a process that is told to
stop while it serves.

Everything is TLA+. `tlc -config X.cfg M.tla` checks a run, `tlapm M.tla` the
proofs of a module. `PROJECT.json` maps every definition to the lines it stands
for.

## Inventory

Paths are under `src/internal/`.

| Part | State it keeps | Operations | Here |
|---|---|---|---|
| stream relay: `translate/stream.go`, `openai/stream.go`, `anthropic/sse.go`, `provider/openaicompat/stream.go` | `streamState` (started, next index, open blocks, text block, call-to-block map, stop reason), the SSE writer (mutex, closed), the pinger | read a chunk, send each kind of event, fail, finish, ping, stop and join the pinger | `StreamRelay`, `MessageStream` |
| keep-alive: the same `stream.go`, `sse.go` | `lastWrite`, the ticker | tick, check, ping, stop | `Keepalive` |
| broker: `events/broker.go` | the mutex, the subscribers, a channel each | Subscribe, cancel, Publish | `Broker` |
| watch handler: `server/watch.go`, `events/wire.go` | the subscription, the event in hand | greet, receive, encode, ping, leave | `Broker`; its frames in `WatchClient` and `Serve` |
| usage scanner: `anthropic/usage.go` | the held line or body, two flags, usage, stop reason | Write, Report | `UsageScanner` |
| dispatch and reporting: `server/server.go`, `server/observe.go`, `events/event.go` | the route record, the reply recorder | route, forward, answer, record, publish | `Gateway` |
| OpenAI-compatible provider: `provider/openaicompat` | none between requests | Messages, CountTokens, Models | `Gateway`, `StreamRelay`, `ModelsListing` |
| passthrough: `provider/anthropicpass` | none between requests | ServeHTTP, Messages, CountTokens, Models | `Gateway`, `ModelsListing` |
| routing: `router`, `validateID` of `config/validate.go` | the map from prefix to provider | validateID, New, Route | `Router` |
| model listing: `server.handleModels` | the goroutines, `lists`, `errs` | start, answer, fail, time out, join | `ModelsListing` |
| configuration: `config`, `build` of `cli/serve.go`, the constructors | none | Load, Validate, build | `Config`, `Router` |
| serve lifecycle: `cli/serve.go`, `Execute` of `cli/root.go` | the listener, the signal context, the shutdown deadline, requests under way | load, build, listen, select, shut down, exit | `Serve` |
| watch command: `cli/watch.go`, the decoder of `events/wire.go` | the connection, what was read of it | dial, read a line, print an event, end | `WatchClient`, `Serve` (without layout) |
| request and reply translation: `translate/request.go`, `translate/response.go`, `anthropic/content.go`, `openai/chat.go`, `effort.go` | none; the history is the client's | Request, Response, Blocks, mergeFields | `Translate`, `Conversation` |
| error table, command line | none | I/O and tables | out of scope |

How they interact: `observe` wraps the mux. A request is dispatched by
`Router.Route` to a provider, which writes through the `replyRecorder`, which
feeds the usage scanner. When the handler returned, `newEvent` asks the recorder
and the scanner, and `Publish` hands the event to every watcher's channel, which
a watch handler drains. A streamed reply has a second goroutine, the pinger, that
writes through the same SSE writer. A model listing has one goroutine for each
provider, under one context. A client sends its whole history with every request,
so what a reply was translated to comes back to be translated again. `serve` has
all of this under it: it stops when a signal comes, and takes the requests and the
watchers that are left with it.

What is hard in it, and what makes each part correct:

- *Stream relay*: handler and pinger write to one response, the upstream may mix
  text and calls in any way, and every one of a dozen writes may fail. Correct
  when the events form a well-formed message at every moment, no text or call is
  mixed up or lost (a refusal's text is: see *Seen while reading*), the last
  translated stop reason is the one reported, the client is told how the message
  ended, and nothing writes after the handler returned.
- *Keep-alive*: a ticker at fixed moments and a check that is not atomic with the
  ping. Correct when the silence of a stream stays below what the client bears.
- *Broker and watchers*: closing a channel races sending on it; a full channel
  races a receive. Correct when Publish never sends on a closed channel and never
  waits, and a watcher sees events in order and misses only what did not fit.
- *Usage scanner*: a reply is cut anywhere, and lines reach the bound in one piece
  or several. Correct when the report is that of the whole reply.
- *Reporting*: two records of the same request, one kept by the recorder and one
  seen by the client. Correct when they agree, and when there is one event.
- *Translation*: replies of two kinds of upstream, streamed or not, share a
  history; results stand anywhere in a message, tools come to light in between.
  Correct when calls and results stay together, a model sees its own turns
  unchanged, nothing a user or a tool said is dropped in silence, offered tools
  are known ones, and a request has the effort fields of its model.
- *Serving*: signals, a failing listener, slow requests and watchers that never
  leave. Correct when the process ends, cuts off nobody without cause, and its
  exit code tells; and when a watcher is shown whole events only.
- *Routing and listing*: ids have separators of their own, providers answer in any
  order or not at all. Correct when a listed id reaches the provider that listed
  it, and when a listing is whole or an error.

`PROJECT.json` lists these as hazards, at the line where each bites.

## Modules

**MessageStream** is the abstract specification: the messages a client of the
Anthropic API can be sent. Its state is what a client has put together (`phase`,
`blocks`, `told`), its actions are the event types of `anthropic/events.go`: a
block starts under the next index and never beside an open text block, a delta
goes to an open block and in the order of the upstream, the message is summed up
when every block is stopped, and nothing follows `message_stop` or an error.

**StreamRelay** is one streamed reply. The handler's place is `hpc`, a step is
what it does up to and including one event it sends, because `SSEWriter.Send`
holds its mutex over the write and the flush. The variables of `streamState` keep
their names; `heard` holds the fragments (text, refusal, call, finish reason) of
the chunks that were read and `next` the one at hand. The text of a refusal is
decoded and looked at by nobody: `SkipRefusal` passes over it. Every send may succeed or fail
(`Writes`): a client that left may still be written to, because the bytes go to a
buffer, and once a write failed all later ones do; a client that does not read
stalls the write. A failed send makes `Stream` return, and the deferred calls
follow: `StopPings`, `JoinPinger`, `CloseWriter`. The pinger (`ppc`) may find a
ping due at any time; when it does is the matter of `Keepalive`. A read may yield
a chunk, the end (the done marker and the end of the body are the same to the
code), or an error (a line that is no chunk, a body that breaks off, a context
that the client's leaving cancelled).

**Keepalive** has discrete time. The ticker fires every `Interval` at moments that
were fixed when the stream opened; the pinger may lag by up to `Lag`; `Check` and
`SendPing` are two steps, because `PingIfIdle` lets the mutex go between them.

**Broker** has the mutex (`lock`), the subscribers, their channels (`buf`) and what
`Publish` has still to range over (`pending`). Subscribe and cancel are one step
each, for they hold the mutex throughout; Publish is one step for every
subscriber, because a receive needs no mutex and comes in between. A publisher is
any request, a watch request included once its handler has returned. `Greet` is
the first ping, which carries the response header; `NoticeGone` is a done context
or a ping that cannot be written. `lost` and `since` are history variables.

**UsageScanner** reads a reply of symbols in pieces. `Write` takes a piece,
`EndLine` is one turn of the loop of `writeStream` with `hold` and `endLine`,
`HoldRest` its end, `WriteBody` is `writeBody`. What a line or body tells is the
parameter `Payload`; a text tells one token count, because the four are treated
alike. `reply` is a history variable, and the properties compute from it what a
reader of the whole reply would find.

**Router** holds operators: `Validate`, `New`, `Route`, and `ListedAs`, the id a
model is listed under. A string is the sequence of its segments between `-`, so
`strings.Cut` is head and tail and joining is concatenation.

**ModelsListing** (extends Router) is `handleModels` after `serve` built the
providers: one goroutine each (`asking`), which notes a list or an error in an
element of its own, the shared context, which the timeout or the client ends, and
the loop that joins the lists (`Gather` past the wait, `Join` for each turn with
`next` and `models`, `Reply`).

**Gateway** (extends Router) is one request from the mux to its event. `status`,
`scanner` and `scanned` are the recorder's; `sent`, `interim` and `body` what
net/http sent. `asked` notes whose upstream got the request. `Answer` is
`WriteError` and any other reply written in one go. `httputil.ReverseProxy` is
external, and modelled by what the gateway meets of it: informational statuses
handed on through `WriteHeader`, the header, pieces of the body, and a panic with
`ErrAbortHandler` when the copy breaks off. Paths that answer themselves (the
listing, the watch stream) are in the other modules.

**Translate** holds operators with the names of the functions: `Request` and what
it calls, `Response`, `EffortFields` and `MergeFields`, the two JSON methods of
`anthropic/content.go`. A text is the sequence of its words, a JSON value its name;
an error is `Supported` or `Encodable` being false, since a request with one is
refused as a whole. `functionsBlock` is the field `functions` of a text. Every loop
of the code that appends to a slice is `Each` of what it appends for one element.

**Conversation** (extends Translate) is a client that keeps `history` and asks anew
at every turn, a provider that is sent `sent`, and the Anthropic API, to which any
turn may go instead and which puts thinking into the history. The client is
external: it answers all calls of a turn in its next message, before or behind
other words. `said` is a history variable, what the models said before any
translation; `EchoIsSame` compares it with what comes back to them. `sent` is the
body as it leaves, the effort fields over the translation, and these may have any
name, as validation lets them. Where they replace `messages`, `tools` or
`tool_choice`, nothing of the client's is left to compare, and the properties about
it say so (`Own`). Where they turn `stream` on or off, the reply comes in a form the
handler does not read (`FormFits`): `ReplyUnread` is the error or the empty message
that the client gets then, and the end of the conversation in this model. A reply
may hold the text of a refusal, which is translated to nothing.

**Config** (extends Router) is the configuration file: `Load` with its defaults,
checks and trimming, and the checks of the constructors `build` calls. A URL is a
scheme, a host and the slashes at its end.

**WatchClient** is `sitka watch` and the connection it reads. A frame is three
lines, and a connection may be cut inside one (`Remainders`); `NextLine` is a turn
of the loop of `Decoder.Next` and what `watch` does with its result. `written` is a
history variable. A cut is one that the reader meets: a host that vanishes without
closing its connections is no part of this.

**Serve** (extends Config and WatchClient) is the process: `pc` is where `serve`
is, `listener` its goroutine, `notified` and `cancelled` the signal context,
`levelOK` whether `--log-level` names a level,
`waited` the time since Shutdown was called, `rpc` the requests, `queue` the
watcher's channel. `Exits` is the end of the process by return, `Kill` by a signal
that is not caught: one before NotifyContext or after `stop`. Shutdown counts a
connection as in use while it is `accepted` or `serving`, or a watcher's. It does
not use Broker: for the one watcher it has, whose channel is never full, Broker
promises a queue.

The `MC…` modules give the constants that a `.cfg` cannot. Operators preceded by
a comment that begins with "Slip:" are mistakes this code could have had; put in
the place of the definition they precede they violate the property named with
them in `PROJECT.json`, and no specification uses them.

## Runs

| Run | Bounds | What it shows |
|---|---|---|
| `StreamRelay` | two call indices, sixteen kinds of chunk, three fragments; 159 009 states | type correctness; `Faithful`: no piece in a block of another source; `Whole`: a stopped message holds all content and every call, and only the text of a refusal is not in it; `ToldLastReason`; `PingerJoined`; `Ended`: a connected client gets `message_stop` or an error; `WellFormed`: MessageStream is implemented; `Returns`: the handler unwinds once the upstream is over or the client left, unless the client stalls for ever |
| `StreamRelayError` | one call index, two fragments | violated: `ErrorReported` |
| `Keepalive` | the real interval and client timeout in seconds, lag 2; 1 383 states | `SilenceBounded` |
| `Broker` | two watchers and a request (three publishers), buffer 1; 7 203 states | `NoSendOnClosed`, `InOrder`, `NothingMissed`; `PublishReturns` with no assumption on watchers; `LeavesWhenGone` and `Arrives` for watchers that go on |
| `UsageScanner` | bound of two bytes, replies of up to six, all cuts; 16 402 states | `HeldIsBounded`, `UsageIsHighest`, `ReasonIsLast` |
| `Gateway` | two providers, five ids, three statuses, one informational, three pieces; 2 446 states | `StatusIsTold`, `ReplyIsScanned`, `RouteIsTold` |
| `GatewayEvent`, `GatewayStatus` | the same | violated: `EveryRequestReported`, `StatusIsSeen` |
| `ModelsListing` | eight configurations, four catalogues; 1 552 states | `ListedIdsRoute`, `ListingIsWhole`, `Answered` |
| `Conversation` | five messages, two system prompts, two tool sets, six replies, three models, effort fields that replace parts of the request; 1 162 024 states | `Paired`: results directly behind their calls; `EchoIsSame`: a model's turns come back unchanged; `NothingDropped`: users and tools are heard or the request is refused; `ToolsAreKnown`: offered deferred tools are those spelled out; `FieldsFit`: the effort fields of the model and no others, model and form as asked unless one of them names it, and no other cause for a reply that goes unread |
| `ConversationReply` | the same | violated: `ReplyIsRelayed` |
| `Serve` | fifteen files, a log level that is one or none, three requests (one event over the frame bound), one watcher, two signals, a grace of one; 166 576 states | `CleanExit`: exit code 0 means nobody was cut off; `CutHasCause`: a reply is cut off only by the deadline, a second signal or a failed listener; `LoadedIsBuilt`: with a log level, a file that loads is one that starts; `PrintedIsPrefix`: a watcher prints whole events in order; `Stops`, `WatchEnds`, `Prints` |

Why the bounds are enough. Three fragments let text, a call and a return to
text or to that call meet in one reply, with chunks of up to three fragments; a
chunk can be cut at every send. A buffer of one is full after one event, and a
watcher meets two: that of the request and that of the other watcher. For both
modules the safety properties are also proved for every bound. A bound of two
bytes with replies of six covers a line below, at and above the bound, in one
piece and across several, followed by another line. The identifiers of the
listing have separators in every place: inside a name, at its start, equal to a
provider's prefix, or nothing at all. Five messages let a search find a tool, the
tool be called and its result be answered; replies have text before, between and
without calls, two calls at once, none, a refusal between two texts, arguments
that are empty or no JSON. Of the models one has the provider's effort fields, which
ask for a stream, one a field of its own, and one fields that replace the model, the
messages, the tools and the choice.
`Serve` needs two signals to meet one that is caught and one that is not, and two
events of ordinary size to tell an order from a skip; each file has one thing
wrong. Deadlock is not checked because every one of these systems may come to
rest: a request is over, a pinger has ended, a process has exited, a conversation
is at its bound. That nothing comes to rest too early is what the liveness
properties say. No run uses symmetry.

## Fairness

- `StreamRelay`: the Go scheduler runs a goroutine that can run, so steps that do
  not wait get weak fairness. A send is enabled again and again with a client that
  reads now and then, so sends get strong fairness; so does leaving the select,
  which picks among ready cases at random and does not pass one over for ever, and
  a read after the client left, since the cancelled request closes the upstream's
  connection. Nothing is assumed of the upstream or the client, and so `Returns`
  excepts a client that holds the connection and never reads: no write has a
  deadline.
- `Broker`: strong fairness of the publishers only, justified by `sync.Mutex`,
  which hands itself to a waiter that starves. What the watchers need is stated
  inside the two properties about them (`WatchersGoOn`), so that `PublishReturns`
  is checked without it.
- `ModelsListing`: the context ends, a call whose context is done fails, and the
  handler goes on when all goroutines are done. An upstream owes no answer.
- `Serve`: weak fairness of the process's own steps (`Starting`, `Serving`,
  `Ending`: none of them waits for a client, and the deadline passes by itself),
  of the watch handler's writes and of the watch command's reads. Nothing is
  assumed of requests, which may take for ever, of the watcher's leaving, or of
  signals. `Stops` therefore rests on the deadline alone.

## What is proved

TLAPS checks these for every value of the constants, under the assumptions that
are stated with them (`RelayAssumption`, `KeepaliveAssumption`,
`BrokerAssumption`, `RouterAssumption`, `ListingAssumption`, `GatewayAssumption`,
`ServeAssumption`, `ConfigAssumption`, `WatchAssumption`, `ScannerAssumption`,
`SessionAssumption`, `ConversationAssumption`). Every invariant that a passing run
checks is a theorem here.

- **StreamRelayProofs**: `TypeCorrect`, `ContentIsFaithful`, `MessageIsWhole`,
  `ReasonIsLast`, `PingerIsJoined`, `MessageIsEnded`, and the refinement
  `StreamImplementsMessage` (`Spec => MS!Spec`), for any set of chunks, any number
  of call indices and replies of any length. `MessageIsWhole` speaks of content and
  calls; a refusal's text, which may be among the fragments anywhere, is held by no
  message. The safety properties are not inductive: that a piece lands in a block of its source depends on `toolBlocks`
  naming a block that was opened for that call. The invariant `IInv` adds
  `Frame` (where the handler is fits what was started, sent and closed),
  `Handled` (fragments before `next` are dealt with), `Books` (the handler's
  indices agree with the blocks the client has, block `b` has index `b - 1`, the
  open blocks are the client's open blocks), `Content` (`Delivered`: a fragment
  that was dealt with is in a block), `ReasonKept`, `ReasonTold` and `Shutdown`.
- **KeepaliveProofs**: `SilenceIsBounded`: less than `2 * Interval + Lag`. The
  invariant `Budget` bounds the silence at the *next* tick, which is what a tick
  that comes too early leaves behind. `StreamIsKeptAlive` follows for any client
  timeout that long.
- **BrokerProofs**: type correctness and the three safety properties, for any number of watchers and
  requests and any buffer. `Exclusive` says what the mutex protects: while an
  event is being offered its subscribers stay subscribed and their channels open.
  `Channel` says of one watcher that what it has is older than what it is about
  to be offered (`Aged`), that the k-th event in a channel has at least number k
  (`Numbered`, which gives `Late` for a full channel), that it is
  sorted across stream, hand and channel, and where an owed event is (`Owed`).
- **ModelsListingProofs**, for every alphabet, configuration and catalogue. On the
  operators of `Router`: `RouteUndoesListing`, `ReservedStaysWithFallback` and
  `ValidIsBuilt`. On the handler: `ListingIsUsable` and `ListingIsComplete`.
  `Stage` says that nobody is asked any more once the wait is over, so that no list
  changes while they are joined; `Lists` that a list holds names of its own
  provider; `Joined` that the lists before `next`, and nothing else, stand in
  `models`, in their order (`InPlace`, `FromLists`). That the Anthropic API lists
  only ids with a reserved prefix is `ListingAssumption`: it is what the prefix is
  reserved for.
- **UsageScannerProofs**: `MemoryIsBounded`, `UsageIsTold` and `ReasonIsTold`, for
  any payloads, any bound and any way to cut a reply into pieces. `Held` says that
  the buffer is the reply since its last newline, or the mark that this is too
  long, wherever the pieces end; a newline then completes one text more, behind
  all others (`OneMoreText`), and it is the one the scanner merges. A body is the
  case of a single text, completed by `Report`.
- **GatewayProofs**: `TypeCorrect`, `EventTellsStatus`, `WholeReplyIsScanned` and
  `EventTellsRoute`, for any configuration, any requests and replies of any number
  of pieces. `Routed` says where a request was sent and what its route record says
  of that, `Seen` that the recorder and net/http differ only by an informational
  status or a handler that wrote nothing, `Pieces` that the scanner is set up by
  the first piece and that the route is known by then, `Noted` that the event was
  made of these. That a provider is never taken for the passthrough is an
  assumption on the configuration.
- **ServeProofs**: `SuccessIsClean`, `RepliesHaveTheGrace`, `AcceptedIsBuilt` and
  `WatchPrintsPrefix`, for any configuration files, any number of requests and any
  timeout. `Stage` says what holds at each stage of serve (nothing is under way
  before it listens, signals are caught exactly while it selects, it shuts down
  only when it was told to). `LoadBuilds` is the lemma behind `AcceptedIsBuilt`:
  the constructors repeat checks of the validation, and what lies between them,
  defaults and trimming, keeps what they look at. `Stream` is the argument for the
  watcher, by counting lines: event `j` takes lines `3j` to `3j + 2`, data stands
  at `3j + 1` and nowhere else (`Placed`), and a client that has consumed `c` lines
  has printed the events whose data is among them (`Consumed`).

- **ConversationProofs**: `CallsAreAnswered`, `TurnsStayTheSame`, `AllIsPassedOn`,
  `ToolsStayKnown` and `FieldsAreRight`, for any system prompts, tools, words,
  results and replies and for conversations of any length. It has three parts.
  - *Loops.* The translation is made of loops over slices, and what such a loop
    computes is shown by induction. The library's induction theorems take an
    operator; `Induction`, `Recursion` and `SequenceInduction` say the same of sets,
    from well-foundedness of the naturals. `Hom(g, s)` is the function `g` taken
    along `s`, and every `Each` of the model is one (`TextIsHom` and those after
    it): it gives of two sequences joined what it gives of each (`HomConcat`), two
    in a row are one (`HomOfHom`), and what is in the outcome is in one of the
    pieces (`HomElements`).
  - *Blocks.* A reply, streamed or not, becomes blocks that say what its fragments
    said (`SameTurn`, in `ResponseIsSame` and `StreamedIsSame`), and encoding leaves
    that alone (`EncodedIsSame`). Texts may be merged or moved before the calls; it
    is their concatenation and the order of the calls that stay.
  - *The history.* The properties speak of a request that is under way, but they
    hold because of what the history was at every turn before. `IInv` therefore
    speaks of `Upstream`, what the history as it stands would be for the upstream.
    `AskedFor` ties a request under way to the history. `Echoed` says that
    `Upstream` shows the turns in `said`. `CallsPaired` says that its calls are
    answered in place, but for those of the last message that still wait for the
    client (`PairedUpTo`): without that exception it would not survive a reply, and
    without the exact match of calls and pending ones (`Match`) not the answers to
    it. `CallsKnown` says that models called only tools that are still visible;
    that holds on because tools only ever become visible, and it is what makes the
    offered tools those of the earlier turns. `AllIsPassedOn` and `FieldsAreRight`
    need no history but this.

  `FieldsAreRight` is for effort fields of any name and any values: which of the
  translation's fields they replace is part of the statement, and
  `ConversationAssumption` says no more than that the entries are those of models.
  The other four speak of requests whose messages (and tools, and choice) are still
  the translation's.

  `SessionAssumption` says what a client of the Messages API and a model may say:
  requests are made of the block types they have, no two tools have a name in
  common, only tools of the client's own are deferred (with two tools of a name, one
  of them deferred, `ToolsAreKnown` would be false: the code goes by names), and a
  piece of text that a model says is not empty (the code skips an empty one, so
  there is nothing to compare).

Type correctness of `Conversation` is `Typed`, a part of its invariant. The
inductive invariants of `ConversationProofs` and `ModelsListingProofs` were
checked with TLC on smaller bounds before they were proved; for `Echoed` and
`CallsPaired` with no reference to a tool that is not in the session, for there
the map of the code has no entry, a request is refused, and `Upstream` has no
value that TLC could compute.

Only model-checked: everything about liveness (`Returns`, `PublishReturns`,
`LeavesWhenGone`, `Arrives`, `Answered`, `Stops`, `WatchEnds`, `Prints`), since the
provers do not reason about fairness with ENABLED. The properties of the runs that
expect a violation have no theorem, of course.

## Findings

1. A tool call fragment without an index ends a stream with no error event
   (`translate/stream.go:143`), though the comment in
   `provider/openaicompat/stream.go:29` says one was sent.
2. A whole reply whose tool arguments are no JSON, as one that a token limit cut
   short has them, reaches the client as status 200 with an empty body
   (`provider/openaicompat/messages.go:94`): `toolInput` hands the arguments on as
   raw JSON, encoding fails before anything is written, and only the log tells.
   `writeMessage` is described as relaying the reply.
3. A passthrough reply that breaks off produces no event and no log line
   (`server/observe.go:110`): the reverse proxy panics, and publishing is not
   deferred.
4. After an informational status was handed on, the event reports it in place of
   the status of the reply (`server/observe.go:51`).

Seen while reading and not given a run: `newEvent` sets an event's time to the
start of the request, where the repository's README says the first column of
`sitka watch` is when it ended; and a ping may directly follow an event that was
written between the two halves of `PingIfIdle`, which is harmless. A stream may
be silent for nearly two ping intervals (`provider/openaicompat/stream.go:57`,
checked and proved as `SilenceBounded`), where `defaultPingInterval` is described
as how long it may stay silent; it stays well below what drops it. `is_error` of a
tool result has no counterpart and is dropped, and so is `top_k`
(`translate/request.go:46`), both in silence, where other content without an
equivalent is refused. The text of a refusal is decoded (`openai/stream.go:40`,
`openai/chat.go:188`), but neither `consume` (`translate/stream.go:72`) nor
`Response` (`translate/response.go:40`) looks at it: the reply of a model that
refuses in that field reaches the client with nothing in it and, with the finish
reason `stop`, as an ordinary end of turn. Effort fields may name `stream`,
`messages` or `tools` and replace what the translation wrote
(`provider/openaicompat/effort.go:41`), which validation permits
(`config/validate.go:67`). With `stream` turned on, a client that did not ask for it
gets a 502, and with it turned off one that did gets an empty message.

## Not modelled, and the plan

Abstracted everywhere: wording of errors and logs, headers, credentials, token
arithmetic beyond the maximum, the syntax of JSON, YAML, URLs and addresses.

Not modelled, because they are tables, layout or sequential I/O with no state to
go wrong: the table from status to error type (`anthropic/errors.go`), flags and
version (`cli/root.go`, `cli/version.go`), the printing of `sitka watch` and
`sitka models`, where the configuration file is looked for. Left out of what is
modelled:

- the fields `max_tokens`, `temperature`, `top_p` and `stop_sequences` of a request,
  which are copied, and `top_k`, which is not;
- ids and names of calls in stream fragments, which `StreamRelay` takes as given
  with the index;
- rewriting of URLs and credentials by the passthrough;
- the upstream's model and the stream flag of an event: `RouteIsTold` is about its
  provider;
- what is in one JSON payload of a reply the scanner reads: one that names two stop
  reasons is resolved inside the parameter `Payload`;
- further pages of an upstream's listing, for the code asks for the first;
- a host that vanishes without closing its connection. The pings of
  `server/watch.go` are there so that such a stream is not silent, and `WatchEnds`
  does not cover that purpose: it is about connections whose end the reader meets;
- how a client goes on after a reply that was not read.

What comes next, in order:

1. `ToolCalls`, an extension of the relay's fragments by id and name, which may
   arrive after the fragment that opens the call, and a second notion of a call
   for upstreams that use an index again.
2. Serve over Broker in place of its queue, for a watcher that falls behind.
