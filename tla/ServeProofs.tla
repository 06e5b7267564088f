----------------------------- MODULE ServeProofs -----------------------------
(***************************************************************************)
(* How the gateway starts and stops, and what a watcher prints, for every   *)
(* configuration file, every number of requests and every grace period.    *)
(*                                                                         *)
(* The life of the process is a matter of what each stage of serve leaves  *)
(* behind.  The stream is a matter of counting: its first two lines are the *)
(* ping, event j takes the lines 3j, 3j + 1 and 3j + 2, and a client that   *)
(* has consumed some of them has printed the events whose data is among    *)
(* them.                                                                   *)
(***************************************************************************)
EXTENDS Serve, SequenceTheorems, TLAPS

-----------------------------------------------------------------------------
(* The stream.                                                             *)

Lines == [kind : {"event", "blank", "comment", "part"}] \cup [kind : {"data"}, event : Events]

\* Line n of what the gateway has written, as far as it matters: data of an
\* event is at its place, and nothing else is at that place but part of it.
Placed(line, n) ==
  /\ line.kind = "data" =>
       \E j \in 1 .. Len(written) : n = 3 * j + 1 /\ line.event = written[j]
  /\ \A j \in 1 .. Len(written) : n = 3 * j + 1 => line.kind \in {"data", "part"}

\* The client has consumed c lines.
Consumed(c) ==
  /\ Len(printed) = 0 \/ c > 3 * Len(printed)
  /\ c <= 3 * Len(printed) + 3
  /\ \A k \in DOMAIN wire : Placed(wire[k], c + k)
  /\ conn = "open" => c + Len(wire) = 3 * Len(written) + 2
  /\ c + Len(wire) <= 3 * Len(written) + 2

InStep == wpc = "read" => \E c \in Nat : Consumed(c)

Prefix ==
  /\ Len(printed) <= Len(written)
  /\ \A i \in 1 .. Len(printed) : printed[i] = written[i]

Stream ==
  /\ WatchTypeOK
  /\ wire \in Seq(Lines)
  /\ wpc = "new" => conn = "none" /\ written = <<>> /\ printed = <<>>
  /\ InStep
  /\ Prefix

\* What the steps of the gateway and of the watcher do to the stream.
WatchStep ==
  \/ wpc = "new" /\ Dialled
  \/ DialFails
  \/ Watching
  \/ Quit
  \/ conn = "open" /\ \E e \in Events : Written(e)
  \/ Severed
  \/ UNCHANGED watchVars

LEMMA DialledKeeps ==
  ASSUME Stream, wpc = "new", Dialled
  PROVE  Stream'
<1>1. PingFrame \in Seq(Lines) /\ Len(PingFrame) = 2 /\ \A k \in 1 .. 2 : PingFrame[k].kind # "data"
  BY DEF PingFrame, Line, Lines
<1>2. Len(printed') = 0 /\ Len(written') = 0 /\ Len(wire') = 2 /\ DOMAIN wire' = 1 .. 2
  BY <1>1 DEF Stream, Dialled
<1>3. Consumed(0)'
  BY <1>1, <1>2 DEF Consumed, Placed, Dialled
<1>4. InStep'
  BY <1>3 DEF InStep
<1> QED
  BY <1>1, <1>4 DEF Stream, Dialled, WatchTypeOK, Prefix

LEMMA LineKeeps ==
  ASSUME Stream, NextLine
  PROVE  Stream'
<1> DEFINE line == Head(wire)
<1>1. /\ wire \in Seq(Lines) /\ Len(wire) > 0 /\ Len(wire) \in Nat
      /\ line = wire[1] /\ line \in Lines
      /\ wire' \in Seq(Lines) /\ Len(wire') = Len(wire) - 1
      /\ \A k \in DOMAIN wire' : k + 1 \in DOMAIN wire /\ wire'[k] = wire[k + 1]
  BY DEF Stream, NextLine
<1>2. PICK c \in Nat : Consumed(c)
  BY DEF Stream, InStep, NextLine
<1>3. Placed(line, c + 1)
  BY <1>1, <1>2 DEF Consumed
<1>4. written \in Seq(Events) /\ printed \in Seq(Events) /\ Prefix
  BY DEF Stream, WatchTypeOK
<1>5. \A k \in DOMAIN wire' : Placed(wire'[k], (c + 1) + k)
  <2> SUFFICES ASSUME NEW k \in DOMAIN wire' PROVE Placed(wire'[k], (c + 1) + k)
    OBVIOUS
  <2>1. k \in Int /\ c + (k + 1) = (c + 1) + k
    BY <1>1
  <2> QED
    BY <1>1, <1>2, <2>1 DEF Consumed
<1>6. /\ c + 1 + Len(wire') = c + Len(wire)
      /\ conn' = conn /\ written' = written
      /\ \A k \in DOMAIN wire' : Placed(wire[k], (c + 1) + k)'
  BY <1>1, <1>5 DEF NextLine, Placed
<1>7. CASE line.kind = "data" /\ line.event \notin Oversize
  <2>1. PICK j \in 1 .. Len(written) : c + 1 = 3 * j + 1 /\ line.event = written[j]
    BY <1>3, <1>7 DEF Placed
  <2>2. j = Len(printed) + 1
    BY <1>2, <1>4, <2>1 DEF Consumed
  <2>3. printed' = Append(printed, written[j]) /\ wpc' = wpc
    BY <1>7, <2>1 DEF NextLine
  <2>4. printed' \in Seq(Events) /\ Len(printed') = j
    BY <1>4, <2>1, <2>2, <2>3
  <2>5. Prefix'
    BY <1>4, <1>6, <2>1, <2>2, <2>3, <2>4 DEF Prefix
  <2>6. Consumed(c + 1)'
    BY <1>2, <1>4, <1>6, <2>1, <2>4 DEF Consumed
  <2> QED
    BY <1>1, <1>4, <1>6, <2>3, <2>4, <2>5, <2>6 DEF Stream, InStep, WatchTypeOK, NextLine
<1>8. CASE line.kind = "part" \/ (line.kind = "data" /\ line.event \in Oversize)
  <2>1. wpc' = "failed" /\ printed' = printed
    BY <1>8 DEF NextLine
  <2> QED
    BY <1>1, <1>4, <1>6, <2>1 DEF Stream, InStep, WatchTypeOK, Prefix
<1>9. CASE line.kind \notin {"data", "part"}
  <2>1. wpc' = wpc /\ printed' = printed
    BY <1>9 DEF NextLine, client
  <2>2. c # 3 * Len(printed) + 3
    <3> SUFFICES ASSUME c = 3 * Len(printed) + 3 PROVE FALSE
      OBVIOUS
    <3>1. Len(printed) + 1 \in 1 .. Len(written)
      BY <1>1, <1>2, <1>4 DEF Consumed
    <3> QED
      BY <1>3, <1>4, <1>9, <3>1 DEF Placed
  <2>3. Consumed(c + 1)'
    BY <1>2, <1>4, <1>6, <2>1, <2>2 DEF Consumed
  <2> QED
    BY <1>1, <1>4, <1>6, <2>1, <2>3 DEF Stream, InStep, WatchTypeOK, Prefix, NextLine
<1> QED
  BY <1>7, <1>8, <1>9

LEMMA WrittenKeeps ==
  ASSUME Stream, conn = "open", NEW e \in Events, Written(e)
  PROVE  Stream'
<1> DEFINE W == Len(written)
<1>1. /\ Frame(e) \in Seq(Lines) /\ Len(Frame(e)) = 3
      /\ Frame(e)[1].kind = "event" /\ Frame(e)[3].kind = "blank"
      /\ Frame(e)[2].kind = "data" /\ Frame(e)[2].event = e
  BY DEF Frame, Line, Lines
<1>2. /\ written \in Seq(Events) /\ printed \in Seq(Events) /\ wire \in Seq(Lines)
      /\ W \in Nat /\ Len(wire) \in Nat /\ Len(printed) \in Nat
  BY DEF Stream, WatchTypeOK
<1>3. /\ written' = Append(written, e) /\ written' \in Seq(Events) /\ Len(written') = W + 1
      /\ \A i \in 1 .. W : written'[i] = written[i]
      /\ written'[W + 1] = e
  BY <1>2 DEF Written
<1>4. /\ wire' \in Seq(Lines) /\ Len(wire') = Len(wire) + 3
      /\ \A k \in 1 .. Len(wire) : wire'[k] = wire[k]
      /\ wire'[Len(wire) + 1] = Frame(e)[1]
      /\ wire'[Len(wire) + 2] = Frame(e)[2]
      /\ wire'[Len(wire) + 3] = Frame(e)[3]
  <2> DEFINE frame == Frame(e)
  <2>1. wire' = wire \o frame
    BY DEF Written
  <2>2. frame \in Seq(Lines) /\ Len(frame) = 3
    BY <1>1
  <2> HIDE DEF frame
  <2>3. /\ wire' \in Seq(Lines) /\ Len(wire') = Len(wire) + 3
        /\ \A k \in 1 .. Len(wire) + 3 : wire'[k] = IF k <= Len(wire) THEN wire[k] ELSE frame[k - Len(wire)]
    <3>1. wire \in Seq(Lines)
      BY <1>2
    <3>2. /\ wire \o frame \in Seq(Lines) /\ Len(wire \o frame) = Len(wire) + Len(frame)
          /\ \A k \in 1 .. Len(wire) + Len(frame) :
               (wire \o frame)[k] = IF k <= Len(wire) THEN wire[k] ELSE frame[k - Len(wire)]
      BY <2>2, <3>1, ConcatProperties, Zenon
    <3> QED
      BY <2>1, <2>2, <3>2, Zenon
  <2>4. Len(wire) \in Nat /\ \A k \in {1, 2, 3} : Len(wire) + k - Len(wire) = k /\ ~(Len(wire) + k <= Len(wire))
    BY <1>2
  <2>5. \A k \in 1 .. Len(wire) : wire'[k] = wire[k]
    BY <2>3, <2>4
  <2>6. /\ wire'[Len(wire) + 1] = frame[1]
        /\ wire'[Len(wire) + 2] = frame[2]
        /\ wire'[Len(wire) + 3] = frame[3]
    BY <2>3, <2>4
  <2> QED
    BY <2>3, <2>5, <2>6 DEF frame
<1>5. conn' = conn /\ wpc' = wpc /\ printed' = printed
  BY DEF Written, client
<1>6. Prefix'
  BY <1>2, <1>3, <1>5 DEF Stream, Prefix
<1>7. ASSUME NEW c \in Nat, Consumed(c)
      PROVE  Consumed(c)'
  <2>1. /\ c + Len(wire) = 3 * W + 2
        /\ \A k \in DOMAIN wire : Placed(wire[k], c + k)
    BY <1>7 DEF Consumed
  <2>2. /\ c + (Len(wire) + 1) = 3 * W + 3
        /\ c + (Len(wire) + 2) = 3 * (W + 1) + 1
        /\ c + (Len(wire) + 3) = 3 * W + 5
    <3>1. \A l, w \in Nat : c + l = 3 * w + 2 =>
            /\ c + (l + 1) = 3 * w + 3
            /\ c + (l + 2) = 3 * (w + 1) + 1
            /\ c + (l + 3) = 3 * w + 5
      OBVIOUS
    <3> QED
      BY <1>2, <2>1, <3>1
  <2>3. ASSUME NEW k \in DOMAIN wire' PROVE Placed(wire[k], c + k)'
    <3>1. CASE k \in 1 .. Len(wire)
      <4>1. Placed(wire[k], c + k) /\ wire'[k] = wire[k]
        BY <1>2, <1>4, <2>1, <3>1
      <4>2. c + k < 3 * (W + 1) + 1 /\ c + k \in Nat
        BY <1>2, <2>1, <3>1
      <4> QED
        BY <1>2, <1>3, <4>1, <4>2 DEF Placed
    <3>2. CASE k = Len(wire) + 1
      <4>1. wire'[k].kind = "event"
        BY <1>1, <1>4, <3>2
      <4>2. c + k = 3 * W + 3
        BY <2>2, <3>2
      <4> QED
        BY <1>2, <1>3, <4>1, <4>2 DEF Placed
    <3>3. CASE k = Len(wire) + 2
      <4>1. wire'[k].kind = "data" /\ wire'[k].event = e
        BY <1>1, <1>4, <3>3
      <4>2. c + k = 3 * (W + 1) + 1
        BY <2>2, <3>3
      <4> QED
        BY <1>2, <1>3, <4>1, <4>2 DEF Placed
    <3>4. CASE k = Len(wire) + 3
      <4>1. wire'[k].kind = "blank"
        BY <1>1, <1>4, <3>4
      <4>2. c + k = 3 * W + 5
        BY <2>2, <3>4
      <4> QED
        BY <1>2, <1>3, <4>1, <4>2 DEF Placed
    <3>5. k \in 1 .. Len(wire) + 3
      BY <1>4
    <3>6. \A l \in Nat : 1 .. l + 3 = 1 .. l \cup {l + 1, l + 2, l + 3}
      OBVIOUS
    <3> QED
      BY <1>2, <3>1, <3>2, <3>3, <3>4, <3>5, <3>6, Zenon
  <2>4. c + Len(wire') = 3 * Len(written') + 2
    <3>1. \A l, w \in Nat : c + l = 3 * w + 2 => c + (l + 3) = 3 * (w + 1) + 2
      OBVIOUS
    <3> QED
      BY <1>2, <1>3, <1>4, <2>1, <3>1
  <2>5. c + Len(wire') <= 3 * Len(written') + 2
    BY <1>2, <1>3, <2>4
  <2>6. Len(printed) = 0 \/ c > 3 * Len(printed)
    BY <1>7 DEF Consumed
  <2>7. c <= 3 * Len(printed) + 3
    BY <1>7 DEF Consumed
  <2> QED
    BY <1>5, <2>3, <2>4, <2>5, <2>6, <2>7 DEF Consumed
<1>8. InStep'
  BY <1>5, <1>7 DEF Stream, InStep
<1> QED
  BY <1>2, <1>3, <1>4, <1>5, <1>6, <1>8 DEF Stream, WatchTypeOK

\* What is received of the lines is some of the first, unchanged, but for the
\* last of them.
LEMMA RemainderKept ==
  ASSUME wire \in Seq(Lines), NEW rest \in Remainders
  PROVE  /\ rest \in Seq(Lines) /\ Len(rest) <= Len(wire)
         /\ \A k \in DOMAIN rest : rest[k] = wire[k] \/ rest[k] = Line("part")
<1>1. CASE \E n \in 0 .. Len(wire) : rest = SubSeq(wire, 1, n)
  BY <1>1
<1>2. CASE \E n \in DOMAIN wire : rest = Append(SubSeq(wire, 1, n - 1), Line("part"))
  <2>1. PICK n \in DOMAIN wire : rest = Append(SubSeq(wire, 1, n - 1), Line("part"))
    BY <1>2
  <2>2. n \in Nat /\ n >= 1 /\ n <= Len(wire)
    OBVIOUS
  <2> DEFINE front == SubSeq(wire, 1, n - 1)
  <2>3. front \in Seq(Lines) /\ Len(front) = n - 1 /\ \A k \in 1 .. n - 1 : front[k] = wire[k]
    BY <2>2
  <2>4. Line("part") \in Lines
    BY DEF Line, Lines
  <2> HIDE DEF front
  <2>5. rest = Append(front, Line("part"))
    BY <2>1 DEF front
  <2> QED
    BY <2>2, <2>3, <2>4, <2>5
<1> QED
  BY <1>1, <1>2 DEF Remainders

LEMMA SeveredKeeps ==
  ASSUME Stream, Severed
  PROVE  Stream'
<1>1. /\ wire' \in Seq(Lines) /\ Len(wire') <= Len(wire)
      /\ \A k \in DOMAIN wire' : wire'[k] = wire[k] \/ wire'[k] = Line("part")
  BY RemainderKept DEF Stream, Severed
<1>2. /\ wpc' = wpc /\ printed' = printed /\ written' = written
      /\ conn' \in {"none", "open", "cut"} /\ conn' # "open" /\ (conn = "none" => conn' = "none")
  BY DEF Severed, client, Stream, WatchTypeOK
<1>3. ASSUME NEW c \in Nat, Consumed(c)
      PROVE  Consumed(c)'
  <2>1. ASSUME NEW k \in DOMAIN wire' PROVE Placed(wire[k], c + k)'
    <3>1. k \in DOMAIN wire
      BY <1>1 DEF Stream
    <3>2. CASE wire'[k] = wire[k]
      BY <1>2, <1>3, <3>1, <3>2 DEF Consumed, Placed
    <3>3. CASE wire'[k] = Line("part")
      BY <3>3 DEF Placed, Line
    <3> QED
      BY <1>1, <3>2, <3>3
  <2>2. Len(wire) \in Nat /\ Len(wire') \in Nat /\ Len(written) \in Nat
    BY <1>1 DEF Stream, WatchTypeOK
  <2> QED
    BY <1>1, <1>2, <1>3, <2>1, <2>2 DEF Consumed
<1> QED
  BY <1>1, <1>2, <1>3 DEF Stream, WatchTypeOK, InStep, Prefix

LEMMA StreamKept ==
  ASSUME Stream, WatchStep
  PROVE  Stream'
<1>1. CASE DialFails \/ Quit \/ StreamEnds
  BY <1>1 DEF DialFails, Quit, StreamEnds, Stream, WatchTypeOK, InStep, Prefix, stream
<1>2. CASE UNCHANGED watchVars
  BY <1>2 DEF watchVars, client, stream, Stream, WatchTypeOK, InStep, Consumed, Placed, Prefix
<1> QED
  BY <1>1, <1>2, DialledKeeps, LineKeeps, WrittenKeeps, SeveredKeeps DEF WatchStep, Watching

-----------------------------------------------------------------------------
(* The configuration.                                                      *)

LEMMA TrimmedServes ==
  ASSUME NEW url \in URL, ValidateBaseURL(url)
  PROVE  NewPassthrough(Trimmed(url))
<1>1. /\ Trimmed(url).scheme = url.scheme
      /\ Trimmed(url).host = url.host
  BY DEF Trimmed, URL
<1>2. Absent.host = "" /\ Trimmed(url).host # ""
  BY <1>1 DEF Absent, ValidateBaseURL, HasHost
<1>3. Trimmed(url) # Absent
  BY <1>2
<1> QED
  BY <1>1, <1>3 DEF ValidateBaseURL, HasScheme, HasHost, NewPassthrough

\* What applyDefaults makes of a file is of the same form.
Settings == [listen : {"", "address", "nonsense"}, anthropic : URL, providers : Seq(Provider)]

LEMMA DefaultsTyped ==
  ASSUME NEW config \in Settings
  PROVE  ApplyDefaults(config) \in Settings
<1>1. DefaultAnthropicBaseURL \in URL
  BY ConfigAssumption DEF ConfigAssumption, DefaultAnthropicBaseURL, URL
<1> QED
  BY <1>1 DEF ApplyDefaults, Settings

\* Normalizing keeps the ids, and everything else but the slashes of the URLs.
LEMMA LoadBuilds ==
  ASSUME NEW f \in File, Loads(f)
  PROVE  Builds(Load(f))
<1> DEFINE c == ApplyDefaults(f.config)
           n == Normalize(c)
<1>1. c \in Settings /\ Valid(c)
  <2>1. f.config \in Settings
    BY DEF File, Settings
  <2> QED
    BY <2>1, DefaultsTyped DEF Loads
<1> HIDE DEF c
<1> DEFINE trimmed == [i \in DOMAIN c.providers |-> [c.providers[i] EXCEPT !.url = Trimmed(@)]]
<1>2. /\ n.anthropic = Trimmed(c.anthropic)
      /\ n.providers = trimmed
  <2>1. n = [c EXCEPT !.anthropic = Trimmed(c.anthropic), !.providers = trimmed]
    BY DEF Normalize
  <2> HIDE DEF trimmed, n
  <2> QED
    BY <1>1, <2>1 DEF Settings
<1> HIDE DEF n
<1>3. \A i \in DOMAIN c.providers :
        /\ c.providers[i] \in Provider
        /\ n.providers[i].id = c.providers[i].id
        /\ n.providers[i].hasKey = c.providers[i].hasKey
        /\ n.providers[i].url = Trimmed(c.providers[i].url)
  <2> SUFFICES ASSUME NEW i \in DOMAIN c.providers
               PROVE  /\ c.providers[i] \in Provider
                      /\ n.providers[i].id = c.providers[i].id
                      /\ n.providers[i].hasKey = c.providers[i].hasKey
                      /\ n.providers[i].url = Trimmed(c.providers[i].url)
    OBVIOUS
  <2>1. c.providers[i] \in Provider
    <3>1. c.providers \in Seq(Provider)
      BY <1>1 DEF Settings
    <3> QED
      BY <3>1
  <2>2. n.providers[i] = trimmed[i]
    BY <1>2
  <2>3. trimmed[i] = [c.providers[i] EXCEPT !.url = Trimmed(@)]
    OBVIOUS
  <2> QED
    BY <2>1, <2>2, <2>3 DEF Provider
<1>4. DOMAIN n.providers = DOMAIN c.providers
  BY <1>2
<1>5. IDs(n) = IDs(c)
  BY <1>3, <1>4 DEF IDs
<1>6. New(IDs(n))
  <2>1. Validate(IDs(c))
    BY <1>1 DEF Valid
  <2> QED
    BY <1>5, <2>1, RouterAssumption DEF RouterAssumption, Validate, New, WellFormedID, EmptyString
<1>7. NewPassthrough(n.anthropic)
  BY <1>1, <1>2, TrimmedServes DEF Valid, Settings
<1>8. \A p \in ToSet(n.providers) : NewProvider(p)
  <2> SUFFICES ASSUME NEW i \in DOMAIN n.providers PROVE NewProvider(n.providers[i])
    BY DEF ToSet
  <2>1. ValidateProvider(c.providers[i]) /\ c.providers[i].url \in URL
    BY <1>1, <1>3, <1>4 DEF Valid, ToSet, Provider
  <2>2. n.providers[i].hasKey /\ NewPassthrough(n.providers[i].url)
    BY <1>3, <1>4, <2>1, TrimmedServes DEF ValidateProvider
  <2>3. n.providers[i].id # EmptyString
    BY <1>4, <1>6 DEF New, IDs
  <2> QED
    BY <2>2, <2>3 DEF NewProvider, NewPassthrough
<1> QED
  BY <1>6, <1>7, <1>8 DEF Builds, Load, c, n

-----------------------------------------------------------------------------
(* The life of the process.                                                *)

Typed ==
  /\ file \in Files
  /\ levelOK \in BOOLEAN
  /\ pc \in {"load", "build", "select", "shutdown", "exited"}
  /\ exit \in {None, "success", "failure", "killed"}
  /\ listener \in {"off", "listening", "failed", "closed"}
  /\ notified \in BOOLEAN /\ cancelled \in BOOLEAN
  /\ signals \in 0 .. MaxSignals
  /\ waited \in 0 .. Grace
  /\ rpc \in [Requests -> {"new", "accepted", "serving", "done", "cut"}]
  /\ queue \in Seq(Events)

\* What holds at each stage of serve.
Stage ==
  /\ Running => exit = None /\ \A r \in Requests : rpc[r] # "cut"
  /\ Running => (notified <=> pc = "select")
  /\ pc \in {"load", "build"} => listener = "off" /\ \A r \in Requests : rpc[r] = "new"
  /\ pc = "build" => Loads(file)
  /\ pc = "shutdown" => cancelled
  /\ cancelled => signals > 0
  /\ Running /\ wpc = "read" => conn = "open"

Outcome == CleanExit /\ CutHasCause /\ LoadedIsBuilt

Life == Typed /\ Stage /\ Outcome

IInv == Stream /\ Life

\* The reasons for which the process ends, and what they leave.
LEMMA ExitKeeps ==
  ASSUME IInv, Running,
         NEW code \in {"success", "failure", "killed"},
         pc' = "exited", exit' = code, listener' = "closed", queue' = <<>>,
         rpc' = [r \in Requests |-> IF rpc[r] \in {"accepted", "serving"} THEN "cut" ELSE rpc[r]],
         Severed,
         file' = file, levelOK' = levelOK, notified' = notified, cancelled' = cancelled, waited' = waited,
         signals' \in {signals, signals + 1}, signals' <= MaxSignals,
         code = "success" => cancelled /\ ~InUse,
         code = "killed" => ~notified /\ signals' = signals + 1,
         code = "failure" => notified \/ (cancelled /\ waited = Grace) \/ (pc \in {"load", "build"} /\ ~(Loads(file) /\ levelOK))
  PROVE  Life'
<1>1. Typed'
  BY DEF IInv, Life, Typed
<1>2. ~Running' /\ signals \in Nat /\ wpc' = wpc
  BY ServeAssumption DEF ServeAssumption, Running, IInv, Life, Typed, Severed, client
<1>3. Stage'
  BY <1>2 DEF IInv, Life, Stage, Running
<1>4. ASSUME NEW r \in Requests, rpc'[r] = "cut"
      PROVE  rpc[r] \in {"accepted", "serving"} /\ pc \notin {"load", "build"}
  BY <1>4 DEF IInv, Life, Typed, Stage
<1>5. CleanExit'
  BY <1>2, <1>4 DEF IInv, Life, Stage, CleanExit, CutOff, InUse
<1>6. CutHasCause'
  <2> SUFFICES ASSUME CutOff' # {}
               PROVE  \/ waited' = Grace
                      \/ exit' = "killed" /\ signals' > 1
                      \/ exit' = "failure" /\ notified'
    BY DEF CutHasCause
  <2>1. PICK r \in Requests : rpc'[r] = "cut"
    BY DEF CutOff
  <2>2. pc \notin {"load", "build"} /\ InUse
    BY <1>4, <2>1 DEF InUse
  <2>3. CASE code = "killed"
    BY <1>2, <2>2, <2>3 DEF IInv, Life, Typed, Stage, Running
  <2>4. CASE code = "failure"
    BY <2>2, <2>4
  <2> QED
    BY <2>2, <2>3, <2>4
<1>7. LoadedIsBuilt'
  BY <1>2 DEF LoadedIsBuilt, Loads, ApplyDefaults, Valid
<1> QED
  BY <1>1, <1>3, <1>5, <1>6, <1>7 DEF Life, Outcome

\* A step that leaves the process running, whatever else it does.
LEMMA RunningKeeps ==
  ASSUME Typed', Stage', Running'
  PROVE  Life'
BY ServeAssumption DEF ServeAssumption, Life, Outcome, Stage, CleanExit, CutHasCause, CutOff, LoadedIsBuilt

LEMMA StartingKeeps ==
  ASSUME IInv, Starting
  PROVE  Life'
<1>1. Running /\ signals \in 0 .. MaxSignals
  BY DEF Starting, LoadConfig, Build, Running, IInv, Life, Typed
<1>2. CASE LoadConfig /\ Loads(file) /\ levelOK
  <2>1. Typed' /\ Stage' /\ Running'
    BY <1>2 DEF LoadConfig, Unwatched, watchVars, client, stream, signal,
                IInv, Life, Typed, Stage, Running
  <2> QED
    BY <2>1, RunningKeeps
<1>3. CASE LoadConfig /\ ~(Loads(file) /\ levelOK)
  <2>1. Exits("failure") /\ pc = "load"
    BY <1>3 DEF LoadConfig
  <2> QED
    BY <1>1, <1>3, <2>1, ExitKeeps DEF Exits, signal
<1>4. CASE Build
  <2>1. Builds(Load(file))
    <3>1. file \in File /\ Loads(file)
      BY <1>4, ServeAssumption DEF ServeAssumption, Build, IInv, Life, Typed, Stage
    <3> QED
      BY <3>1, LoadBuilds
  <2>2. Typed' /\ Stage' /\ Running'
    BY <1>4, <2>1 DEF Build, Unwatched, watchVars, client, stream,
                IInv, Life, Typed, Stage, Running
  <2> QED
    BY <2>2, RunningKeeps
<1> QED
  BY <1>2, <1>3, <1>4 DEF Starting

LEMMA ServingKeeps ==
  ASSUME IInv, Serving \/ AcceptFails
  PROVE  Life'
<1>1. CASE Listen \/ AcceptFails
  <2>1. Typed' /\ Stage' /\ Running'
    BY <1>1 DEF Listen, AcceptFails, Unwatched, watchVars, client, stream, signal,
                IInv, Life, Typed, Stage, Running
  <2> QED
    BY <2>1, RunningKeeps
<1>2. CASE ShutDown
  <2>1. Typed' /\ Stage' /\ Running'
    BY <1>2 DEF ShutDown, Unwatched, watchVars, client, stream,
                IInv, Life, Typed, Stage, Running
  <2> QED
    BY <2>1, RunningKeeps
<1>3. CASE ReturnError
  <2>1. Running /\ notified /\ Exits("failure") /\ signals \in 0 .. MaxSignals
    BY <1>3 DEF ReturnError, Running, IInv, Life, Typed, Stage
  <2> QED
    BY <2>1, ExitKeeps DEF Exits, signal
<1> QED
  BY <1>1, <1>2, <1>3 DEF Serving

LEMMA EndingKeeps ==
  ASSUME IInv, Ending
  PROVE  Life'
<1>1. Running /\ cancelled /\ signals \in 0 .. MaxSignals
  BY DEF Ending, Pass, ShutdownTimesOut, ShutdownDone, Running, IInv, Life, Typed, Stage
<1>2. CASE Pass
  <2>1. waited' \in 0 .. Grace
    BY <1>2, ServeAssumption DEF ServeAssumption, Pass, IInv, Life, Typed
  <2>2. Typed' /\ Stage' /\ Running'
    BY <1>2, <2>1 DEF Pass, Unwatched, watchVars, client, stream, process,
                IInv, Life, Typed, Stage, Running
  <2> QED
    BY <2>2, RunningKeeps
<1>3. CASE ShutdownTimesOut
  BY <1>1, <1>3, ExitKeeps DEF ShutdownTimesOut, Exits, signal
<1>4. CASE ShutdownDone
  BY <1>1, <1>4, ExitKeeps DEF ShutdownDone, Exits, signal
<1> QED
  BY <1>2, <1>3, <1>4 DEF Ending

LEMMA RequestKeeps ==
  ASSUME IInv, NEW r \in Requests, Accept(r) \/ Handling(r)
  PROVE  Life'
<1>1. /\ Running /\ UNCHANGED <<process, signal, watchVars>>
      /\ rpc' \in [Requests -> {"new", "accepted", "serving", "done", "cut"}]
      /\ \A q \in Requests : rpc'[q] # "cut"
      /\ rpc[r] = "new" => listener = "listening"
  BY DEF Accept, Handling, Arrive, CloseUnused, Finish, Goes, Unwatched, IInv, Life, Typed, Stage
<1>2. queue' \in Seq(Events)
  BY DEF Accept, Handling, Arrive, CloseUnused, Finish, Unwatched, Requests, IInv, Life, Typed
<1>3. Typed'
  BY <1>1, <1>2 DEF process, signal, IInv, Life, Typed
<1>4. pc \notin {"load", "build"}
  BY <1>1 DEF Accept, Handling, Arrive, CloseUnused, Finish, Goes, IInv, Life, Stage
<1>5. Stage' /\ Running'
  BY <1>1, <1>4 DEF process, signal, watchVars, client, stream, IInv, Life, Stage, Running
<1> QED
  BY <1>3, <1>5, RunningKeeps

LEMMA WatcherKeeps ==
  ASSUME IInv, Dial \/ WriteEvent \/ WatcherLeaves \/ Read \/ Abandon
  PROVE  Life'
<1>1. UNCHANGED <<process, signal, rpc>>
  BY DEF Dial, WriteEvent, WatcherLeaves, Read, Abandon
<1>2. queue' \in Seq(Events)
  <2>1. queue' \in {queue, <<>>} \/ (queue # <<>> /\ queue' = Tail(queue))
    BY DEF Dial, WriteEvent, WatcherLeaves, Read, Abandon
  <2>2. queue \in Seq(Events)
    BY DEF IInv, Life, Typed
  <2>3. queue # <<>> => Tail(queue) \in Seq(Events)
    BY <2>2
  <2>4. <<>> \in Seq(Events)
    OBVIOUS
  <2> QED
    BY <2>1, <2>2, <2>3, <2>4, Zenon
<1>3. Typed'
  BY <1>1, <1>2 DEF process, signal, IInv, Life, Typed
<1>4. /\ Running /\ wpc' = "read" => conn' = "open"
      /\ ~Running => (wpc' = "read" => wpc = "read")
  <2>1. Running /\ wpc = "read" => conn = "open"
    BY DEF IInv, Life, Stage
  <2>2. CASE Dial
    BY <2>2 DEF Dial, Dialled, DialFails
  <2>3. CASE WriteEvent
    BY <2>1, <2>3 DEF WriteEvent, Written, client
  <2>4. CASE WatcherLeaves
    BY <2>4 DEF WatcherLeaves, Severed, client
  <2>5. CASE Read \/ Abandon
    <3>1. conn' = conn /\ wpc' \in {wpc, "failed"}
      BY <2>5 DEF Read, Watching, NextLine, StreamEnds, Abandon, Quit, client, stream
    <3> QED
      BY <2>1, <3>1
  <2> QED
    BY <2>2, <2>3, <2>4, <2>5
<1>5. Stage'
  BY <1>1, <1>4 DEF process, signal, IInv, Life, Stage, Running
<1>6. Outcome'
  <2>1. /\ UNCHANGED <<pc, exit, notified, cancelled, signals, waited, file, levelOK, rpc>>
        /\ CutOff' = CutOff
    BY <1>1 DEF process, signal, CutOff
  <2>2. LoadedIsBuilt' /\ CutHasCause'
    BY <2>1 DEF IInv, Life, Outcome, LoadedIsBuilt, CutHasCause, Loads, ApplyDefaults, Valid
  <2>3. CleanExit'
    <3>1. exit = "success" => ~Running
      BY ServeAssumption DEF ServeAssumption, IInv, Life, Stage
    <3> QED
      BY <1>4, <2>1, <3>1 DEF IInv, Life, Outcome, CleanExit
  <2> QED
    BY <2>2, <2>3 DEF Outcome
<1> QED
  BY <1>3, <1>5, <1>6 DEF Life

LEMMA SignalKeeps ==
  ASSUME IInv, Interrupt \/ Kill
  PROVE  Life'
<1>1. Running /\ signals \in Nat /\ signals + 1 \in 0 .. MaxSignals /\ signals + 1 > 0
  BY ServeAssumption DEF ServeAssumption, Interrupt, Kill, Send, IInv, Life, Typed
<1>2. CASE Interrupt
  <2>1. Typed' /\ Stage' /\ Running'
    BY <1>1, <1>2 DEF Interrupt, Unwatched, watchVars, client, stream, process,
                      IInv, Life, Typed, Stage, Running
  <2> QED
    BY <2>1, RunningKeeps
<1>3. CASE Kill
  BY <1>1, <1>3, ExitKeeps DEF Kill, Send
<1> QED
  BY <1>2, <1>3

\* Every step is one of the steps of the stream, or leaves it alone.
LEMMA StepsTheStream ==
  ASSUME IInv, Next
  PROVE  WatchStep
<1>1. CASE WriteEvent
  <2>1. Head(queue) \in Events
    BY <1>1 DEF WriteEvent, IInv, Life, Typed
  <2> QED
    BY <1>1, <2>1 DEF WriteEvent, WatchStep
<1>2. CASE Dial \/ WatcherLeaves \/ Read \/ Abandon
  BY <1>2 DEF Dial, WatcherLeaves, Read, Abandon, WatchStep
<1>3. CASE Starting \/ Serving \/ Ending \/ AcceptFails \/ Interrupt \/ Kill
  BY <1>3 DEF Starting, LoadConfig, Build, Serving, Listen, ReturnError, ShutDown, Ending, Pass,
              ShutdownTimesOut, ShutdownDone, AcceptFails, Interrupt, Kill, Exits, Unwatched, WatchStep
<1>4. CASE \E r \in Requests : Accept(r) \/ Handling(r)
  BY <1>4 DEF Accept, Handling, Arrive, CloseUnused, Finish, Unwatched, WatchStep
<1> QED
  BY <1>1, <1>2, <1>3, <1>4 DEF Next

-----------------------------------------------------------------------------

\* The invariant: the stages of serve, and what the lines of the stream are.
THEOREM Invariant == Spec => []IInv
<1>1. Init => IInv
  <2> SUFFICES ASSUME Init PROVE IInv
    OBVIOUS
  <2>1. Stream
    <3>1. wpc = "new" /\ conn = "none" /\ wire = <<>> /\ written = <<>> /\ printed = <<>>
      BY DEF Init, WatchInit
    <3>2. wire \in Seq(Lines) /\ written \in Seq(Events) /\ printed \in Seq(Events) /\ Len(printed) = 0 /\ Len(written) = 0
      BY <3>1
    <3> QED
      BY <3>1, <3>2 DEF Stream, WatchTypeOK, InStep, Prefix
  <2>2. Typed
    <3>1. queue = <<>> /\ queue \in Seq(Events)
      BY DEF Init
    <3>2. rpc \in [Requests -> {"new", "accepted", "serving", "done", "cut"}]
      BY DEF Init
    <3>3. 0 \in 0 .. MaxSignals /\ 0 \in 0 .. Grace
      BY ServeAssumption DEF ServeAssumption
    <3> QED
      BY <3>1, <3>2, <3>3 DEF Init, Typed
  <2>3. Stage
    BY DEF Init, WatchInit, Stage
  <2>4. Outcome
    BY ServeAssumption DEF ServeAssumption, Init, WatchInit, Outcome, CleanExit, CutHasCause, CutOff, LoadedIsBuilt
  <2> QED
    BY <2>1, <2>2, <2>3, <2>4 DEF IInv, Life
<1>2. IInv /\ [Next]_vars => IInv'
  <2> SUFFICES ASSUME IInv, [Next]_vars PROVE IInv'
    OBVIOUS
  <2>1. CASE UNCHANGED vars
    <3>1. Stream'
      BY <2>1, StreamKept DEF vars, WatchStep, IInv
    <3>2. Typed' /\ Stage'
      BY <2>1 DEF vars, process, signal, watchVars, client, stream, IInv, Life, Typed, Stage, Running
    <3>3. Outcome'
      BY <2>1 DEF vars, process, signal, watchVars, client, stream, IInv, Life, Outcome,
                  CleanExit, CutHasCause, CutOff, LoadedIsBuilt
    <3> QED
      BY <3>1, <3>2, <3>3 DEF IInv, Life
  <2>2. CASE Next
    <3>1. Stream'
      BY <2>2, StepsTheStream, StreamKept DEF IInv
    <3>2. Life'
      BY <2>2, StartingKeeps, ServingKeeps, EndingKeeps, RequestKeeps, WatcherKeeps, SignalKeeps DEF Next
    <3> QED
      BY <3>1, <3>2 DEF IInv
  <2> QED
    BY <2>1, <2>2
<1> QED
  BY <1>1, <1>2, PTL DEF Spec

\* The variables of serve and of the watcher keep their types.
THEOREM TypeCorrect == Spec => []TypeOK
<1>1. IInv => TypeOK
  BY DEF IInv, Stream, Life, Typed, TypeOK
<1> QED
  BY <1>1, Invariant, PTL

\* Exit code 0 says that the gateway was asked to stop and that it cut off
\* neither a reply nor a watcher.
THEOREM SuccessIsClean == Spec => []CleanExit
<1>1. IInv => CleanExit
  BY DEF IInv, Life, Outcome
<1> QED
  BY <1>1, Invariant, PTL

\* A reply is cut off only when shutdownTimeout has passed, by a second signal,
\* or because the listener failed.
THEOREM RepliesHaveTheGrace == Spec => []CutHasCause
<1>1. IInv => CutHasCause
  BY DEF IInv, Life, Outcome
<1> QED
  BY <1>1, Invariant, PTL

\* A configuration file that Load accepts never fails to build: whoever wrote
\* the file hears of a mistake from its validation.
THEOREM AcceptedIsBuilt == Spec => []LoadedIsBuilt
<1>1. IInv => LoadedIsBuilt
  BY DEF IInv, Life, Outcome
<1> QED
  BY <1>1, Invariant, PTL

\* Whatever the connection loses, the watch command prints the events that the
\* gateway wrote, in order and from the first on.
THEOREM WatchPrintsPrefix == Spec => []PrintedIsPrefix
<1>1. IInv => PrintedIsPrefix
  <2> SUFFICES ASSUME IInv PROVE PrintedIsPrefix
    OBVIOUS
  <2>1. printed \in Seq(Events) /\ written \in Seq(Events) /\ Prefix
    BY DEF IInv, Stream, WatchTypeOK
  <2>2. SubSeq(printed, 1, Len(printed)) = SubSeq(written, 1, Len(printed))
    BY <2>1 DEF Prefix
  <2> QED
    BY <2>1, <2>2 DEF PrintedIsPrefix, IsPrefix, Prefix
<1> QED
  BY <1>1, Invariant, PTL
=============================================================================
