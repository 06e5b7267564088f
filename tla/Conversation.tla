----------------------------- MODULE Conversation -----------------------------
(***************************************************************************)
(* A conversation that is carried on through the gateway.  The client keeps *)
(* the whole history and sends it anew for each turn; a turn goes to an     *)
(* OpenAI-compatible provider, translated there and back, or unchanged to   *)
(* the Anthropic API, which writes thinking into the history.               *)
(*                                                                         *)
(*   provider/openaicompat/messages.go   Messages, writeMessage            *)
(*   translate, anthropic                by way of the module Translate    *)
(*                                                                         *)
(* The client answers all calls of a turn in its next message, as Claude    *)
(* Code does; the upstream calls tools it was offered.  What the upstream   *)
(* is sent is the translation with the configured effort fields over it, as *)
(* those of any name: where they replace messages, tools or tool_choice,    *)
(* what is said below of the client's own has nothing to speak of.          *)
(***************************************************************************)
EXTENDS Translate

CONSTANTS
  Systems,         \* system prompts
  ToolSets,        \* the tools of a session
  UserContents,    \* what a user says
  Extras,          \* what stands beside tool results in a message
  ResultContents,  \* what a tool gives back
  Replies,         \* replies of models, without thinking
  Models,          \* models of the provider
  ProviderEffort,  \* its effort fields
  ModelEffort,     \* those of the models that have an entry
  MaxTurns         \* bound on the messages of a conversation

Fields(effort) == DOMAIN effort

\* What messages are made of.
Texts   == [type : {"text"}, text : Seq(STRING)]
Images  == [type : {"image"}, source : STRING]
Named   == [type : {"tool_reference"}, name : STRING]
Calls   == [type : {"call"}, id : STRING, name : STRING, args : STRING]
Refusals == [type : {"refusal"}]
Tools   == [name : STRING, type : STRING, defer : BOOLEAN]

\* The Anthropic API takes no two tools of a name and defers only those that are
\* the client's own.  A piece of text that a model says is not empty.
ASSUME SessionAssumption ==
  /\ Systems \subseteq Seq(Texts \cup Images)
  /\ ToolSets \subseteq {tools \in Seq(Tools) :
       /\ \A i, j \in DOMAIN tools : tools[i].name = tools[j].name => i = j
       /\ \A i \in DOMAIN tools : tools[i].defer => tools[i].type = ""}
  /\ UserContents \subseteq      [form : {"string"}, text : Seq(STRING)]
                            \cup [form : {"array"}, blocks : Seq(Texts \cup Images)]
                            \cup [form : {"null"}]
  /\ Extras \subseteq Seq(Texts \cup Images)
  /\ ResultContents \subseteq Seq(Texts \cup Images \cup Named)
  /\ Replies \subseteq Seq({t \in Texts : t.text # <<>>} \cup Calls \cup Refusals)

ASSUME ConversationAssumption ==
  /\ MaxTurns \in Nat
  /\ DOMAIN ModelEffort \subseteq Models

VARIABLES
  system, tools,   \* of the session
  history,         \* the messages the client holds
  said,            \* what the models said, turn by turn
  request,         \* model, stream and choice of the request under way
  sent,            \* the body the upstream was sent for it
  pc               \* "client", "upstream", "refused", "lost" or "unread"

session == <<system, tools>>
vars == <<session, history, said, request, sent, pc>>

NoRequest == [model |-> "", stream |-> FALSE, choice |-> [type |-> "none given"]]
NothingSent == <<>>

Init ==
  /\ system \in Systems
  /\ tools \in ToolSets
  /\ history = <<>>
  /\ said = <<>>
  /\ request = NoRequest
  /\ sent = NothingSent
  /\ pc = "client"

-----------------------------------------------------------------------------
(* The client.                                                             *)

Turns == Len(history)
Array(blocks) == [form |-> "array", blocks |-> blocks]
CallsOf(msg) == Each(Blocks(msg.content), LAMBDA b : IF b.type = "tool_use" THEN <<b>> ELSE <<>>)
Pending == IF history = <<>> \/ Last(history).role = "user" THEN <<>> ELSE CallsOf(Last(history))

\* The tools the Anthropic API lets a model know of.
Visible ==
  {t.name : t \in {u \in ToSet(tools) : /\ u.type = ""
                                        /\ u.defer => \E m \in ToSet(history) : u.name \in References(Blocks(m.content))}}

Told(role, content) == history' = Append(history, [role |-> role, content |-> content])

ClientTurn ==
  /\ pc = "client"
  /\ Turns < MaxTurns
  /\ history # <<>> => Last(history).role = "assistant"
  /\ UNCHANGED <<session, said, request, sent, pc>>

Say ==
  /\ ClientTurn
  /\ Pending = <<>>
  /\ \E content \in UserContents : Told("user", content)

\* In the order of the calls, before or behind what else there is to say.
GiveResults ==
  /\ ClientTurn
  /\ Pending # <<>>
  /\ \E given \in [DOMAIN Pending -> ResultContents], extra \in Extras :
       LET results == [i \in DOMAIN Pending |->
                         [type |-> "tool_result", id |-> Pending[i].id, content |-> given[i]]]
       IN Told("user", Array(results \o extra)) \/ Told("user", Array(extra \o results))

-----------------------------------------------------------------------------
(* Messages, of a request that peekRequest routed to this provider.        *)

\* What the translation writes.
Payload(model, stream, out) ==
  [model |-> model, stream |-> stream,
   messages |-> out.messages, tools |-> out.tools, tool_choice |-> out.choice]

ToolChoices == {[type |-> "none given"]} \cup [type : {"tool"}, name : Visible]

Ask ==
  /\ pc = "client"
  /\ history # <<>> /\ Last(history).role = "user"
  /\ \E choice \in ToolChoices :
       LET req == [system |-> system, tools |-> tools, messages |-> history, choice |-> choice]
       IN IF Translatable(req)
          THEN \E model \in Models, stream \in BOOLEAN :
                 /\ request' = [model |-> model, stream |-> stream, choice |-> choice]
                 /\ sent' = MergeFields(Payload(model, stream, Request(req)),
                                        EffortFields(model, ProviderEffort, ModelEffort))
                 /\ pc' = "upstream"
          ELSE pc' = "refused" /\ UNCHANGED <<request, sent>>
  /\ UNCHANGED <<session, history, said>>

Answered(blocks, fragments) ==
  /\ Told("assistant", Array(blocks))
  /\ said' = Append(said, fragments)
  /\ pc' = "client"
  /\ sent' = NothingSent
  /\ request' = NoRequest

CallsOnly(fragments, names) == \A f \in ToSet(fragments) : f.type = "call" => f.name \in names

\* The fields that the configuration writes into a request.
Configured == Fields(EffortFields(request.model, ProviderEffort, ModelEffort))

\* Tools that a configuration sends in the place of the client's are none of the
\* client's, and a model that is offered those is one that calls none.
Offered == IF "tools" \in Configured THEN {} ELSE {t.name : t \in ToSet(sent.tools)}

\* Messages reads the reply in the form that the client asked for; the upstream
\* gives it in the form that the body asks for.
FormFits == sent.stream = request.stream

\* writeMessage, of a reply that can be encoded.
Reply ==
  /\ pc = "upstream"
  /\ ~request.stream
  /\ FormFits
  /\ \E r \in Replies :
       /\ CallsOnly(r, Offered)
       /\ Encodable(Response(r))
       /\ Answered(Encoded(Response(r)), r)
  /\ UNCHANGED session

\* Encode fails before it writes: the client gets an empty reply with status
\* 200, and asks again.
ReplyLost ==
  /\ pc = "upstream"
  /\ ~request.stream
  /\ FormFits
  /\ \E r \in Replies : CallsOnly(r, Offered) /\ ~Encodable(Response(r))
  /\ pc' = "lost"
  /\ sent' = NothingSent
  /\ request' = NoRequest
  /\ UNCHANGED <<session, history, said>>

Retry ==
  /\ pc = "lost"
  /\ pc' = "client"
  /\ UNCHANGED <<session, history, said, request, sent>>

\* writeMessage takes a stream for a reply it cannot decode and answers with an
\* error, and StreamReader finds no line of a chunk in a plain reply, of which
\* the client gets an empty message.  How the client goes on is left out.
ReplyUnread ==
  /\ pc = "upstream"
  /\ ~FormFits
  /\ pc' = "unread"
  /\ UNCHANGED <<session, history, said, request, sent>>

\* The client puts the blocks together from what StreamRelay sends.
ReplyStreamed ==
  /\ pc = "upstream"
  /\ request.stream
  /\ FormFits
  /\ \E r \in Replies :
       /\ CallsOnly(r, Offered)
       /\ Encodable(Streamed(r))
       /\ Answered(Encoded(Streamed(r)), r)
  /\ UNCHANGED session

\* The Anthropic API answers a turn of the same conversation; it refuses by a
\* stop reason alone.
AnthropicReplies ==
  /\ pc = "client"
  /\ history # <<>> /\ Last(history).role = "user"
  /\ \E r \in Replies :
       /\ CallsOnly(r, Visible)
       /\ \A f \in ToSet(r) : f.type # "refusal"
       /\ Encodable(Streamed(r))
       /\ Answered(<<[type |-> "thinking"]>> \o Encoded(Streamed(r)), r)
  /\ UNCHANGED session

Next ==
  \/ Say \/ GiveResults
  \/ Ask \/ Reply \/ ReplyLost \/ Retry \/ ReplyUnread \/ ReplyStreamed
  \/ AnthropicReplies

Spec == Init /\ [][Next]_vars

-----------------------------------------------------------------------------
(* Properties.                                                             *)

Asked == pc = "upstream"

\* A request is under way, and the fields of these names are the translation's.
Own(names) == Asked /\ Configured \cap names = {}

Ms == sent.messages
Ids(calls) == {c.id : c \in ToSet(calls)}

\* The tool messages right behind message i answer its calls, each of them once.
AnsweredInPlace(ms, i) ==
  LET n == Len(ms[i].calls) IN
    /\ i + n <= Len(ms)
    /\ \A k \in i + 1 .. i + n : ms[k].role = "tool"
    /\ {ms[k].callID : k \in i + 1 .. i + n} = Ids(ms[i].calls)

\* "A tool message must directly follow the assistant turn that asked for it":
\* in every request the calls of a turn are answered right behind it, and there
\* are no other tool messages, whichever of the models made the turn.
Paired ==
  Own({"messages"}) =>
    /\ \A i \in DOMAIN Ms : Ms[i].calls # <<>> => AnsweredInPlace(Ms, i)
    /\ \A i \in DOMAIN Ms : Ms[i].role = "tool" =>
         \E j \in 1 .. i - 1 : i <= j + Len(Ms[j].calls)

\* What a model said, as turns of the Chat Completions API: none if it said
\* nothing.
TurnOf(text, calls) == IF text = <<>> /\ calls = <<>> THEN <<>> ELSE <<[text |-> text, calls |-> calls]>>

\* No arguments are an empty object.
Meant(args) == IF args = "" THEN "{}" ELSE args

Spoken(fragments) ==
  TurnOf(Text(fragments),
         Each(fragments, LAMBDA f : IF f.type = "call" THEN <<[id |-> f.id, name |-> f.name, input |-> Meant(f.args)]>>
                                    ELSE <<>>))

\* The turns of a model among the messages of a request.
Echo(ms) ==
  Each(ms, LAMBDA m : IF m.role = "assistant" THEN <<[text |-> m.content.text, calls |-> m.calls]>> ELSE <<>>)

\* The upstream is shown every turn of a model just as the model took it: there
\* and back, streamed or not, neither text nor calls change.  The text of a
\* refusal is no part of this: the client is never given it.
EchoIsSame == Own({"messages"}) => Echo(Ms) = Each(said, Spoken)

\* The blocks of what the user's side sent.
Given == Each(history, LAMBDA m : IF m.role = "user" THEN Blocks(m.content) ELSE <<>>)

\* Words and images, in their order.
WordsAndImages(blocks) ==
  Each(blocks, LAMBDA b : IF b.type = "text" THEN b.text
                          ELSE IF b.type \in {"image", "image_url"} THEN <<b.source>>
                          ELSE <<>>)

Shown(content) == content.text \o WordsAndImages(content.parts)

\* Nothing the user or a tool said is dropped without telling the client: it is
\* in the request, in its order, or the request is refused; of the system prompt
\* only a leading attribution block is missing.
NothingDropped ==
  Own({"messages"}) =>
    /\ Each(Ms, LAMBDA m : IF m.role = "user" THEN Shown(m.content) ELSE <<>>) = WordsAndImages(Given)
    /\ Each(Ms, LAMBDA m : IF m.role = "tool" THEN <<Shown(m.content)>> ELSE <<>>)
         = Each(Given, LAMBDA b : IF b.type = "tool_result" THEN <<WordsAndImages(b.content)>> ELSE <<>>)
    /\ LET attribution == system # <<>> /\ Head(system).text # <<>> /\ Head(Head(system).text) = Billing
           rest == IF attribution THEN Tail(system) ELSE system
       IN Each(Ms, LAMBDA m : IF m.role = "system" THEN m.content.text ELSE <<>>) = Text(rest)

Spelled == UNION {{t.name : t \in ToSet(m.content.functions)} : m \in ToSet(Ms)}
Deferred == {t.name : t \in {u \in ToSet(tools) : u.defer}}

\* A deferred tool is offered if and only if the same request spells it out, a
\* search having found it at any time before; a tool that was called stays
\* offered, and so is one the client insists on.
ToolsAreKnown ==
  /\ Own({"messages", "tools"}) =>
       /\ Offered \cap Deferred = Spelled \cap Deferred
       /\ \A m \in ToSet(Ms) : \A c \in ToSet(m.calls) : c.name \in Offered
  /\ Own({"tools", "tool_choice"}) /\ request.choice.type = "tool" =>
       sent.tool_choice.name \in Offered

\* The body has these fields as they are configured.
Holds(fields) == \A f \in DOMAIN fields : f \in DOMAIN sent /\ sent[f] = fields[f]

TranslatedFields == {"model", "stream", "messages", "tools", "tool_choice"}

\* A model with an entry of its own is sent every field of it as it stands there,
\* and no field that only its provider configures; another is sent its
\* provider's.  Model and form are as the client asked unless one of the fields
\* that count names them, and only such a field makes a reply come in a form in
\* which it is not read.
FieldsFit ==
  /\ Asked /\ request.model \in DOMAIN ModelEffort =>
       /\ Holds(ModelEffort[request.model])
       /\ DOMAIN sent \subseteq Fields(ModelEffort[request.model]) \cup TranslatedFields
  /\ Asked /\ request.model \notin DOMAIN ModelEffort => Holds(ProviderEffort)
  /\ Own({"model"}) => sent.model = request.model
  /\ Own({"stream"}) => sent.stream = request.stream
  /\ pc = "unread" => "stream" \in Configured

\* The comment on writeMessage: it relays a single upstream reply.
ReplyIsRelayed == pc # "lost"
=============================================================================
