------------------------------ MODULE Translate ------------------------------
(***************************************************************************)
(* Requests of the Messages API as requests of the Chat Completions API,   *)
(* and replies the other way round.                                        *)
(*                                                                         *)
(*   translate/request.go   Request and what it calls                      *)
(*   translate/response.go  Response                                       *)
(*   anthropic/content.go   Blocks, ContentBlock                           *)
(*   openaicompat/effort.go effortFields, mergeFields                      *)
(*                                                                         *)
(* A text is the sequence of its words, and joining texts is concatenation. *)
(* A JSON value is its name: "" is none, "{}" the empty object, and Cut one *)
(* that is not complete.  What an error says is left out: a request is     *)
(* Supported or is refused as a whole.                                     *)
(***************************************************************************)
EXTENDS Integers, Sequences, SequencesExt, TLC

CONSTANTS
  Billing,   \* the word that attributionPrefix stands for
  Cut        \* arguments that are no JSON

-----------------------------------------------------------------------------
(* Anthropic content.                                                      *)

TextBlock(text) == [type |-> "text", text |-> text]
ToolUse(id, name, input) == [type |-> "tool_use", id |-> id, name |-> name, input |-> input]

\* UnmarshalJSON: content is a string, an array or null; ContentBlock is read
\* from each element of an array.
Blocks(content) ==
  CASE content.form = "string" -> <<TextBlock(content.text)>>
    [] content.form = "array"  -> content.blocks
    [] content.form = "null"   -> <<>>

\* A loop over s that appends what Op gives of each element.
Mapped(s, Op(_)) == [i \in DOMAIN s |-> Op(s[i])]
Each(s, Op(_)) == FlattenSeq(Mapped(s, Op))

\* Blocks.Text
Text(blocks) == Each(blocks, LAMBDA b : IF b.type = "text" THEN b.text ELSE <<>>)

\* MarshalJSON gives a tool_use block an input of its own if it has none, and
\* fails on an input that is no JSON.
Encoded(blocks) ==
  Mapped(blocks, LAMBDA b : IF b.type = "tool_use" /\ b.input = "" THEN [b EXCEPT !.input = "{}"]
                            ELSE b)

Encodable(blocks) == \A i \in DOMAIN blocks : blocks[i].type = "tool_use" => blocks[i].input # Cut

-----------------------------------------------------------------------------
(* The Chat Completions side.                                              *)

\* A body is a text or a sequence of parts; a tool message may have a block of
\* function definitions behind its text.
TextContent(text)   == [text |-> text, parts |-> <<>>, functions |-> <<>>]
PartsContent(parts) == [text |-> <<>>, parts |-> parts, functions |-> <<>>]

Message(role, content, calls, id) ==
  [role |-> role, content |-> content, calls |-> calls, callID |-> id]

-----------------------------------------------------------------------------
(* System prompt.                                                          *)

WithoutAttribution(blocks) ==
  IF /\ blocks # <<>>
     /\ Head(blocks).type = "text"
     /\ Head(blocks).text # <<>>
     /\ Head(Head(blocks).text) = Billing
  THEN Tail(blocks)
  ELSE blocks

SystemMessage(blocks) ==
  LET text == Text(WithoutAttribution(blocks))
  IN IF text = <<>> THEN <<>> ELSE <<Message("system", TextContent(text), <<>>, "")>>

-----------------------------------------------------------------------------
(* Messages.                                                               *)

\* newToolCatalog: a later tool takes the name of an earlier one.
Catalog(tools) ==
  [n \in {tools[i].name : i \in DOMAIN tools} \ {""} |->
     tools[SelectLastInSeq(tools, LAMBDA t : t.name = n)]]

\* toolResultText: the texts, and behind them functionsBlock with the
\* definitions that are referred to.
ToolResultText(blocks, catalog) ==
  [text      |-> Text(blocks),
   parts     |-> <<>>,
   functions |-> Each(blocks, LAMBDA b : IF b.type = "tool_reference" THEN <<catalog[b.name]>> ELSE <<>>)]

\* imageURL
ImagePart(block) == [type |-> "image_url", source |-> block.source]

Parts(blocks) ==
  Each(blocks, LAMBDA b : IF b.type = "text" THEN <<TextBlock(b.text)>>
                          ELSE IF b.type = "image" THEN <<ImagePart(b)>>
                          ELSE <<>>)

\* messageContent
MessageContent(blocks) ==
  IF \E b \in ToSet(blocks) : b.type = "image"
  THEN PartsContent(Parts(blocks))
  ELSE TextContent(Text(blocks))

\* toolArguments
ToolArguments(input) == IF input = "" THEN "{}" ELSE input

ToolCalls(blocks) ==
  Each(blocks, LAMBDA b : IF b.type = "tool_use"
                          THEN <<[id |-> b.id, name |-> b.name, input |-> ToolArguments(b.input)]>>
                          ELSE <<>>)

ToolMessages(blocks, catalog) ==
  Each(blocks, LAMBDA b : IF b.type = "tool_result"
                          THEN <<Message("tool", ToolResultText(b.content, catalog), <<>>, b.id)>>
                          ELSE <<>>)

\* Slip: the other blocks of a message go out before its tool results.
ConvertedInOrder(msg, catalog) ==
  LET blocks == Blocks(msg.content)
      calls  == ToolCalls(blocks)
      rest   == IF Parts(blocks) = <<>> /\ calls = <<>> THEN <<>>
                ELSE <<Message(IF calls # <<>> THEN "assistant" ELSE msg.role,
                               MessageContent(blocks), calls, "")>>
  IN rest \o ToolMessages(blocks, catalog)

\* appendMessage: the tool results of a message go out before its other blocks;
\* a message of thinking alone is no message; one with calls is the model's.
Converted(msg, catalog) ==
  LET blocks == Blocks(msg.content)
      calls  == ToolCalls(blocks)
      rest   == IF Parts(blocks) = <<>> /\ calls = <<>> THEN <<>>
                ELSE <<Message(IF calls # <<>> THEN "assistant" ELSE msg.role,
                               MessageContent(blocks), calls, "")>>
  IN ToolMessages(blocks, catalog) \o rest

-----------------------------------------------------------------------------
(* Tools.                                                                  *)

References(blocks) ==
  UNION {{b.name : b \in {c \in ToSet(r.content) : c.type = "tool_reference"}} :
           r \in {b \in ToSet(blocks) : b.type = "tool_result"}}

\* Slip: only the last message is searched.
LoadedLately(messages) ==
  IF messages = <<>> THEN {} ELSE References(Blocks(Last(messages).content)) \ {""}

LoadedTools(messages) ==
  (UNION {References(Blocks(messages[i].content)) : i \in DOMAIN messages}) \ {""}

IsSearch(tool) == tool.type = "tool_search"

\* convertTools
ConvertTools(tools, loaded) ==
  Each(tools, LAMBDA t : IF IsSearch(t) \/ (t.defer /\ t.name \notin loaded) THEN <<>> ELSE <<t>>)

\* convertToolChoice
ConvertToolChoice(choice) ==
  CASE choice.type = "any"  -> [type |-> "required"]
    [] choice.type = "tool" -> [type |-> "function", name |-> choice.name]
    [] OTHER                -> choice

-----------------------------------------------------------------------------
(* Request.                                                                *)

\* Slip: what a tool result holds beside text is passed over.
SupportedUnlooked(block, catalog) ==
  CASE block.type = "image" -> block.source \in {"base64", "url"}
    [] block.type = "tool_result" ->
         \A b \in ToSet(block.content) : b.type = "tool_reference" => b.name \in DOMAIN catalog
    [] OTHER -> block.type \in {"text", "tool_use", "thinking", "redacted_thinking"}

\* The blocks appendMessage and toolResultText have a case for.
Supported(block, catalog) ==
  CASE block.type = "image" -> block.source \in {"base64", "url"}
    [] block.type = "tool_result" ->
         \A b \in ToSet(block.content) :
           \/ b.type = "text"
           \/ b.type = "tool_reference" /\ b.name \in DOMAIN catalog
    [] OTHER -> block.type \in {"text", "tool_use", "thinking", "redacted_thinking"}

\* Request returns no error.
Translatable(req) ==
  /\ \A b \in ToSet(WithoutAttribution(req.system)) : b.type = "text"
  /\ \A m \in ToSet(req.messages) :
       \A b \in ToSet(Blocks(m.content)) : Supported(b, Catalog(req.tools))
  /\ \A t \in ToSet(req.tools) : IsSearch(t) \/ t.type = ""
  /\ req.choice.type \in {"none given", "auto", "any", "none", "tool"}

\* Of the other fields max_tokens, temperature, top_p and stop_sequences are
\* handed on as they are, and top_k, which has no equivalent, is dropped.
Request(req) ==
  [messages |-> SystemMessage(req.system) \o Each(req.messages, LAMBDA m : Converted(m, Catalog(req.tools))),
   tools    |-> ConvertTools(req.tools, LoadedTools(req.messages)),
   choice   |-> ConvertToolChoice(req.choice)]

-----------------------------------------------------------------------------
(* Effort.                                                                 *)

\* Slip: a model's fields are added to those of its provider.
EffortFieldsAdded(model, providerEffort, modelEffort) ==
  IF model \in DOMAIN modelEffort THEN modelEffort[model] @@ providerEffort ELSE providerEffort

\* An entry of the model stands in the place of the provider's.  Validation lets
\* the fields be any, those of the translation included.
EffortFields(model, providerEffort, modelEffort) ==
  IF model \in DOMAIN modelEffort THEN modelEffort[model] ELSE providerEffort

MergeFields(payload, fields) ==
  [f \in DOMAIN payload \cup DOMAIN fields |-> IF f \in DOMAIN fields THEN fields[f] ELSE payload[f]]

-----------------------------------------------------------------------------
(* Replies.  An upstream reply is the sequence of its fragments, each a     *)
(* piece of text, a call, or the text of a refusal.                        *)

\* toolInput
ToolInput(arguments) == IF arguments = "" THEN "{}" ELSE arguments

\* Slip: a reply with calls has no text.
ResponseOfCalls(fragments) ==
  LET calls == Each(fragments, LAMBDA f : IF f.type = "call" THEN <<ToolUse(f.id, f.name, ToolInput(f.args))>>
                                          ELSE <<>>)
  IN IF calls # <<>> \/ Text(fragments) = <<>> THEN calls ELSE <<TextBlock(Text(fragments))>>

\* Response, of a reply that was not streamed: its text, and then its calls.
\* The field in which the model refuses is read by nobody.
Response(fragments) ==
  (IF Text(fragments) = <<>> THEN <<>> ELSE <<TextBlock(Text(fragments))>>)
    \o Each(fragments, LAMBDA f : IF f.type = "call" THEN <<ToolUse(f.id, f.name, ToolInput(f.args))>>
                                  ELSE <<>>)

\* The blocks of a streamed reply, which StreamRelay opens and fills: text goes
\* on in the text block that is open, a call begins a block, and a refusal has no
\* event.
Grown(blocks, fragment) ==
  IF fragment.type = "refusal" THEN blocks
  ELSE IF fragment.type = "call" THEN Append(blocks, ToolUse(fragment.id, fragment.name, fragment.args))
  ELSE IF blocks # <<>> /\ Last(blocks).type = "text"
  THEN Append(Front(blocks), TextBlock(Last(blocks).text \o fragment.text))
  ELSE Append(blocks, fragment)

Streamed(fragments) ==
  LET grown[k \in 0 .. Len(fragments)] == IF k = 0 THEN <<>> ELSE Grown(grown[k - 1], fragments[k])
  IN grown[Len(fragments)]
=============================================================================
