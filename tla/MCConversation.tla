---------------------------- MODULE MCConversation ----------------------------
(* A session with a tool that is always there, one that a search finds, and   *)
(* the search itself; users, tools and models that say little of each kind.   *)
EXTENDS Conversation

T(word) == TextBlock(<<word>>)
Image(source) == [type |-> "image", source |-> source]
Reference(name) == [type |-> "tool_reference", name |-> name]
Call(id, name, args) == [type |-> "call", id |-> id, name |-> name, args |-> args]
Refused == [type |-> "refusal"]
Tool(name, type, defer) == [name |-> name, type |-> type, defer |-> defer]

MCSystems == {<<T("billing"), T("billing")>>, <<T("s"), T("billing")>>}
MCToolSets ==
  {<<Tool("read", "", FALSE), Tool("find", "", FALSE), Tool("fetch", "", TRUE),
     Tool("search", "tool_search", FALSE)>>,
   <<Tool("web", "web_search", FALSE)>>}
MCUserContents ==
  {[form |-> "string", text |-> <<"u">>],
   Array(<<T("v"), Image("base64"), T("w")>>), Array(<<Image("file")>>), [form |-> "null"]}
MCExtras == {<<>>, <<T("x")>>}
MCResultContents ==
  {<<T("r")>>, <<Reference("fetch"), T("r")>>, <<Reference("gone")>>, <<Image("url")>>}
MCReplies ==
  {<<T("a"), T("b"), Call("c1", "read", "{a}"), T("a"), Call("c2", "find", "")>>, <<T("a")>>,
   <<Call("c1", "fetch", "{a}")>>, <<Call("c1", "read", Cut)>>, <<>>,
   <<T("a"), Refused, T("b")>>}
\* A provider that is always asked for a stream, a model whose entry does not
\* say so, and one that is configured to have other tools and messages.
MCProviderEffort == [reasoning_effort |-> "high", stream |-> TRUE]
MCModelEffort ==
  [m2 |-> [reasoning |-> "max"],
   m3 |-> [model |-> "m2", tools |-> "search", tool_choice |-> "auto", messages |-> "none"]]
=============================================================================
