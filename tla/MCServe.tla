------------------------------- MODULE MCServe -------------------------------
(* One good file, and others that each have one thing wrong.                 *)
EXTENDS Serve

MCSegment == {"", "claude", "openai", "groq"}
MCPlain == MCSegment \ {""}
MCReserved == {"claude"}

Address(scheme, host, slashes) == [scheme |-> scheme, host |-> host, slashes |-> slashes]

Entry(id) ==
  [id |-> <<id>>, url |-> Address("https", "h", 1), hasKey |-> TRUE, headersOK |-> TRUE,
   effort |-> "mapping", models |-> {[name |-> <<"groq">>, effort |-> "none"]}]

Good == [listen |-> "", anthropic |-> Absent, providers |-> <<Entry("openai"), Entry("groq")>>]
Given == [listen |-> "address", anthropic |-> Address("http", "h", 2), providers |-> <<>>]

Holding(config) == [readable |-> TRUE, parses |-> TRUE, config |-> config]

MCFiles ==
  {Holding(Good), [Holding(Good) EXCEPT !.readable = FALSE], [Holding(Good) EXCEPT !.parses = FALSE]}
    \cup {Holding(Given), Holding([Good EXCEPT !.listen = "nonsense"])}
    \cup {Holding([Good EXCEPT !.anthropic = u]) : u \in {Address("https", "", 0), Address("ftp", "h", 0)}}
    \cup {Holding([Good EXCEPT !.providers[2] = p]) :
            p \in {Entry("openai"), Entry("claude"), Entry(""),
                   [Entry("groq") EXCEPT !.url = Address("http", "", 0)],
                   [Entry("groq") EXCEPT !.hasKey = FALSE],
                   [Entry("groq") EXCEPT !.headersOK = FALSE],
                   [Entry("groq") EXCEPT !.effort = "null"],
                   [Entry("groq") EXCEPT !.models = {[name |-> <<"">>, effort |-> "none"]}]}}
=============================================================================
