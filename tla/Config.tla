-------------------------------- MODULE Config --------------------------------
(***************************************************************************)
(* The configuration file, from its bytes to the providers built from it.  *)
(*                                                                         *)
(*   config/config.go      Load, applyDefaults, normalize                  *)
(*   config/validate.go    Validate (Router has its part about the ids)    *)
(*   cli/serve.go          build                                           *)
(*   openaicompat/provider.go, anthropicpass/anthropicpass.go   New        *)
(*                                                                         *)
(* A URL is its scheme, its host and the slashes at its end; the file says *)
(* of the rest what the checks tell apart.                                 *)
(***************************************************************************)
EXTENDS Router, SequencesExt

CONSTANT
  Word         \* what schemes and hosts can be

ASSUME ConfigAssumption == {"https", "api.anthropic.com"} \subseteq Word

Absent == [scheme |-> "", host |-> "", slashes |-> 0]
DefaultAnthropicBaseURL == [scheme |-> "https", host |-> "api.anthropic.com", slashes |-> 0]

HasScheme(url) == url.scheme \in {"http", "https"}
HasHost(url) == url.host # ""

URL == [scheme : Word, host : Word, slashes : Nat]

\* What yaml.UnmarshalStrict makes of a file.
Provider ==
  [id : String, url : URL, hasKey : BOOLEAN, headersOK : BOOLEAN,
   effort : {"none", "mapping", "null"},
   models : SUBSET [name : String, effort : {"none", "mapping", "null"}]]

File ==
  [readable : BOOLEAN, parses : BOOLEAN,
   config   : [listen : {"", "address", "nonsense"}, anthropic : URL, providers : Seq(Provider)]]

-----------------------------------------------------------------------------
(* Load.                                                                   *)

ApplyDefaults(c) ==
  [c EXCEPT !.listen    = IF @ = "" THEN "address" ELSE @,
            !.anthropic = IF @ = Absent THEN DefaultAnthropicBaseURL ELSE @]

\* Slip: a URL need not have a host.
ValidateScheme(url) == url # Absent /\ HasScheme(url)

ValidateBaseURL(url) == url # Absent /\ HasScheme(url) /\ HasHost(url)

\* Left out, or a mapping of fields; null is neither.
ValidateEffort(effort) == effort \in {"none", "mapping"}

\* Headers whose names and values HTTP allows, and a name for every model.
ValidateProvider(p) ==
  /\ ValidateBaseURL(p.url)
  /\ p.hasKey
  /\ p.headersOK
  /\ ValidateEffort(p.effort)
  /\ \A m \in p.models : m.name # EmptyString /\ ValidateEffort(m.effort)

IDs(c) == [i \in DOMAIN c.providers |-> c.providers[i].id]

Valid(c) ==
  /\ c.listen = "address"
  /\ ValidateBaseURL(c.anthropic)
  /\ Validate(IDs(c))
  /\ \A p \in ToSet(c.providers) : ValidateProvider(p)

Trimmed(url) == [url EXCEPT !.slashes = 0]

\* normalize, after validation
Normalize(c) ==
  [c EXCEPT !.anthropic = Trimmed(@),
            !.providers = [i \in DOMAIN c.providers |-> [c.providers[i] EXCEPT !.url = Trimmed(@)]]]

\* The file is there, is YAML without unknown keys, and validates.
Loads(file) == file.readable /\ file.parses /\ Valid(ApplyDefaults(file.config))

Load(file) == Normalize(ApplyDefaults(file.config))

-----------------------------------------------------------------------------
(* build, and router.New behind it.                                        *)

NewPassthrough(url) == url # Absent /\ HasScheme(url) /\ HasHost(url)

NewProvider(p) ==
  /\ p.id # EmptyString
  /\ p.hasKey
  /\ p.url # Absent /\ HasScheme(p.url) /\ HasHost(p.url)

Builds(c) ==
  /\ NewPassthrough(c.anthropic)
  /\ \A p \in ToSet(c.providers) : NewProvider(p)
  /\ New(IDs(c))

=============================================================================
