-------------------------- MODULE UsageScannerProofs --------------------------
(***************************************************************************)
(* What the scanner tells of a reply, for every reply, every way to cut it *)
(* into pieces and every bound on what may be held.                        *)
(*                                                                         *)
(* The buffer is the reply since its last newline, or the mark that this   *)
(* is too long, wherever the pieces end (Held).  So the text a newline     *)
(* completes is the one the scanner has at hand.                           *)
(***************************************************************************)
EXTENDS UsageScanner, SequenceTheorems, TLAPS

-----------------------------------------------------------------------------
(* Cutting a sequence that grows at its end.                               *)

LEMMA CutIsText ==
  ASSUME NEW s \in Seq(Symbol), NEW m \in Nat, m >= 1, NEW n \in Nat, n <= Len(s)
  PROVE  /\ SubSeq(s, m, n) \in Seq(Symbol)
         /\ Len(SubSeq(s, m, n)) = IF m <= n THEN n - m + 1 ELSE 0
         /\ \A i \in 1 .. n - m + 1 : SubSeq(s, m, n)[i] = s[m + i - 1]
<1>1. \A i \in m .. n : s[i] \in Symbol
  OBVIOUS
<1> QED
  BY <1>1, SubSeqProperties

\* The part before the growth is as it was.
LEMMA CutKept ==
  ASSUME NEW s \in Seq(Symbol), NEW p \in Seq(Symbol),
         NEW m \in Nat, m >= 1, NEW n \in Nat, n <= Len(s)
  PROVE  SubSeq(s \o p, m, n) = SubSeq(s, m, n)
<1>1. CASE m > n
  BY <1>1, SubSeqEmpty
<1>2. CASE m <= n
  <2>1. m \in 1 .. Len(s) /\ n \in 1 .. Len(s)
    BY <1>2
  <2> QED
    BY <2>1, SubSeqOfConcat1
<1> QED
  BY <1>1, <1>2

\* A cut that reaches into the growth takes its beginning.
LEMMA CutGrown ==
  ASSUME NEW s \in Seq(Symbol), NEW p \in Seq(Symbol),
         NEW m \in 1 .. Len(s) + 1, NEW n \in 0 .. Len(p)
  PROVE  SubSeq(s \o p, m, Len(s) + n) = SubSeq(s, m, Len(s)) \o SubSeq(p, 1, n)
<1> DEFINE whole == s \o p
<1>1. whole \in Seq(Symbol) /\ Len(whole) = Len(s) + Len(p) /\ Len(s) \in Nat /\ Len(p) \in Nat
  BY ConcatProperties
<1>2. SubSeq(whole, m, Len(s)) = SubSeq(s, m, Len(s))
  BY <1>1, CutKept
<1>3. SubSeq(whole, Len(s) + 1, Len(s) + n) = SubSeq(p, 1, n)
  <2>1. CASE n = 0
    BY <1>1, <2>1, SubSeqEmpty
  <2>2. CASE n > 0
    <3>1. /\ Len(s) + 1 \in Len(s) + 1 .. Len(s) + Len(p)
          /\ Len(s) + n \in Len(s) + 1 .. Len(s) + Len(p)
          /\ Len(s) + 1 - Len(s) = 1 /\ Len(s) + n - Len(s) = n
      BY <1>1, <2>2
    <3>2. SubSeq(whole, Len(s) + 1, Len(s) + n) = SubSeq(p, Len(s) + 1 - Len(s), Len(s) + n - Len(s))
      BY <3>1, SubSeqOfConcat2
    <3> QED
      BY <3>1, <3>2
  <2> QED
    BY <2>1, <2>2
<1> HIDE DEF whole
<1>4. SubSeq(whole, m, Len(s)) \o SubSeq(whole, Len(s) + 1, Len(s) + n) = SubSeq(whole, m, Len(s) + n)
  <2>1. /\ m \in 1 .. Len(whole) + 1
        /\ Len(s) \in m - 1 .. Len(whole)
        /\ Len(s) + n \in Len(s) .. Len(whole)
    BY <1>1
  <2> QED
    BY <1>1, <2>1, ConcatAdjacentSubSeq
<1> QED
  BY <1>2, <1>3, <1>4 DEF whole

LEMMA Front ==
  ASSUME NEW s \in Seq(Symbol), NEW n \in 0 .. Len(s)
  PROVE  /\ SubSeq(s, 1, n) \in Seq(Symbol)
         /\ Len(SubSeq(s, 1, n)) = n
         /\ \A k \in 1 .. n : SubSeq(s, 1, n)[k] = s[k]
<1>1. n \in Nat /\ n <= Len(s) /\ n - 1 + 1 = n /\ (IF 1 <= n THEN n - 1 + 1 ELSE 0) = n
  OBVIOUS
<1>2. \A k \in 1 .. n : 1 + k - 1 = k
  OBVIOUS
<1> QED
  BY <1>1, <1>2, CutIsText

LEMMA Back ==
  ASSUME NEW s \in Seq(Symbol), NEW n \in 0 .. Len(s)
  PROVE  /\ SubSeq(s, n + 1, Len(s)) \in Seq(Symbol)
         /\ Len(SubSeq(s, n + 1, Len(s))) = Len(s) - n
<1>1. /\ n + 1 \in Nat /\ n + 1 >= 1 /\ Len(s) \in Nat /\ Len(s) <= Len(s)
      /\ (IF n + 1 <= Len(s) THEN Len(s) - (n + 1) + 1 ELSE 0) = Len(s) - n
  OBVIOUS
<1> QED
  BY <1>1, CutIsText

LEMMA FrontOfFront ==
  ASSUME NEW s \in Seq(Symbol), NEW m \in 0 .. Len(s), NEW n \in 0 .. m
  PROVE  SubSeq(SubSeq(s, 1, m), 1, n) = SubSeq(s, 1, n)
<1> DEFINE longer == SubSeq(s, 1, m)
           shorter == SubSeq(s, 1, n)
           cut == SubSeq(longer, 1, n)
<1>1. longer \in Seq(Symbol) /\ Len(longer) = m /\ \A k \in 1 .. m : longer[k] = s[k]
  BY Front
<1>2. shorter \in Seq(Symbol) /\ Len(shorter) = n /\ \A k \in 1 .. n : shorter[k] = s[k]
  <2>1. n \in 0 .. Len(s)
    OBVIOUS
  <2> QED
    BY <2>1, Front
<1> HIDE DEF longer, shorter
<1>3. cut \in Seq(Symbol) /\ Len(cut) = n /\ \A k \in 1 .. n : cut[k] = longer[k]
  BY <1>1, Front
<1> HIDE DEF cut
<1>4. Len(cut) = Len(shorter) /\ \A k \in 1 .. Len(cut) : cut[k] = shorter[k]
  <2>1. \A k \in 1 .. n : k \in 1 .. m
    OBVIOUS
  <2> QED
    BY <1>1, <1>2, <1>3, <2>1
<1>5. cut = shorter
  BY <1>2, <1>3, <1>4, SeqEqual
<1> QED
  BY <1>5 DEF cut, longer, shorter

LEMMA Joined ==
  ASSUME NEW s \in Seq(Symbol), NEW p \in Seq(Symbol)
  PROVE  /\ s \o p \in Seq(Symbol)
         /\ Len(s \o p) = Len(s) + Len(p)
         /\ \A k \in 1 .. Len(s) : (s \o p)[k] = s[k]
         /\ \A k \in 1 .. Len(p) : (s \o p)[Len(s) + k] = p[k]
<1>1. /\ s \o p \in Seq(Symbol) /\ Len(s \o p) = Len(s) + Len(p)
      /\ \A k \in 1 .. Len(s) + Len(p) : (s \o p)[k] = IF k <= Len(s) THEN s[k] ELSE p[k - Len(s)]
  BY ConcatProperties
<1>2. \A k \in 1 .. Len(s) : k \in 1 .. Len(s) + Len(p) /\ k <= Len(s)
  OBVIOUS
<1>3. \A k \in 1 .. Len(p) :
        Len(s) + k \in 1 .. Len(s) + Len(p) /\ ~(Len(s) + k <= Len(s)) /\ Len(s) + k - Len(s) = k
  OBVIOUS
<1> QED
  BY <1>1, <1>2, <1>3

\* Every sequence of symbols that is no longer than a reply has a payload.
LEMMA TextTells ==
  ASSUME NEW s \in Seq(Symbol), Len(s) <= MaxReply
  PROVE  Payload(s) \in [tokens : Nat, reason : Reason \cup {None}]
<1>1. Len(s) \in 0 .. MaxReply /\ s \in [1 .. Len(s) -> Symbol]
  BY ScannerAssumption DEF ScannerAssumption
<1>2. s \in Text
  BY <1>1 DEF Text
<1> QED
  BY <1>2, ScannerAssumption DEF ScannerAssumption

-----------------------------------------------------------------------------
(* The texts of a reply.                                                   *)

\* The properties again, of numbers in place of pairs.
Holds(f, t) ==
  /\ f \in 0 .. Len(reply) /\ t \in 1 .. Len(reply) + 1
  /\ f < t /\ t - f - 1 <= MaxScanned
  /\ Complete(f, t)

Highest ==
  /\ \A f, t \in Nat : Holds(f, t) => Told(f, t).tokens <= usage
  /\ usage # 0 => \E f, t \in Nat : Holds(f, t) /\ Told(f, t).tokens = usage

Last ==
  /\ stopReason = None => \A f, t \in Nat : Holds(f, t) => Told(f, t).reason = None
  /\ stopReason # None =>
       \E f, t \in Nat :
         /\ Holds(f, t) /\ Told(f, t).reason = stopReason
         /\ \A g, u \in Nat : Holds(g, u) /\ Told(g, u).reason # None => u <= t

LEMMA HighestAndLast ==
  ASSUME TypeOK, Highest, Last
  PROVE  UsageIsHighest /\ ReasonIsLast
<1>1. ASSUME NEW t \in Scanned
      PROVE  t[1] \in Nat /\ t[2] \in Nat /\ Holds(t[1], t[2])
  BY DEF Scanned, Holds, TypeOK
<1>2. ASSUME NEW f \in Nat, NEW t \in Nat, Holds(f, t)
      PROVE  <<f, t>> \in Scanned
  BY <1>2 DEF Scanned, Holds
<1>3. UsageIsHighest
  <2>1. \A t \in Scanned : Told(t[1], t[2]).tokens <= usage
    BY <1>1 DEF Highest
  <2>2. ASSUME usage # 0 PROVE \E t \in Scanned : Told(t[1], t[2]).tokens = usage
    <3>1. PICK f \in Nat, t \in Nat : Holds(f, t) /\ Told(f, t).tokens = usage
      BY <2>2 DEF Highest
    <3>2. <<f, t>>[1] = f /\ <<f, t>>[2] = t
      OBVIOUS
    <3> QED
      BY <1>2, <3>1, <3>2
  <2> QED
    BY <2>1, <2>2 DEF UsageIsHighest
<1>4. CASE stopReason = None
  BY <1>1, <1>3, <1>4 DEF Last, ReasonIsLast
<1>5. CASE stopReason # None
  <2>1. PICK f \in Nat, t \in Nat :
          /\ Holds(f, t) /\ Told(f, t).reason = stopReason
          /\ \A g, u \in Nat : Holds(g, u) /\ Told(g, u).reason # None => u <= t
    BY <1>5 DEF Last
  <2>2. <<f, t>>[1] = f /\ <<f, t>>[2] = t /\ <<f, t>> \in Scanned
    BY <1>2, <2>1
  <2>3. \A u \in Scanned : Told(u[1], u[2]).reason # None => u[2] <= t
    BY <1>1, <2>1
  <2> QED
    BY <1>3, <1>5, <2>1, <2>2, <2>3 DEF ReasonIsLast
<1> QED
  BY <1>4, <1>5

\* A step that completes no text.
LEMMA SameTexts ==
  ASSUME Highest, Last, usage' = usage, stopReason' = stopReason,
         \A f, t \in Nat : Holds(f, t)' <=> Holds(f, t),
         \A f, t \in Nat : Holds(f, t) => Told(f, t)' = Told(f, t)
  PROVE  Highest' /\ Last'
BY DEF Highest, Last

\* A step that completes one, behind all others, and merges what it tells.
LEMMA OneMoreText ==
  ASSUME Highest, Last, usage \in Nat,
         NEW f0 \in Nat, NEW t0 \in Nat, NEW text,
         Payload(text) \in [tokens : Nat, reason : Reason \cup {None}],
         Merge(text), Told(f0, t0)' = Payload(text),
         \A f, t \in Nat : Holds(f, t)' <=> Holds(f, t) \/ (f = f0 /\ t = t0),
         \A f, t \in Nat : Holds(f, t) => Told(f, t)' = Told(f, t) /\ Told(f, t).tokens \in Nat /\ t < t0
  PROVE  Highest' /\ Last'
<1>1. Payload(text).tokens \in Nat /\ Holds(f0, t0)'
  OBVIOUS
<1>2. ASSUME NEW f \in Nat, NEW t \in Nat, Holds(f, t)'
      PROVE  Told(f, t)'.tokens <= usage'
  <2>1. CASE Holds(f, t)
    BY <1>1, <2>1 DEF Highest, Merge
  <2>2. CASE f = f0 /\ t = t0
    BY <1>1, <2>2 DEF Merge
  <2> QED
    BY <1>2, <2>1, <2>2
<1>3. ASSUME usage' # 0
      PROVE  \E f, t \in Nat : Holds(f, t)' /\ Told(f, t)'.tokens = usage'
  <2>1. CASE Payload(text).tokens > usage
    BY <1>1, <2>1 DEF Merge
  <2>2. CASE ~(Payload(text).tokens > usage)
    BY <1>3, <2>2 DEF Merge, Highest
  <2> QED
    BY <2>1, <2>2
<1>4. Highest'
  BY <1>2, <1>3 DEF Highest
<1>5. CASE Payload(text).reason = None
  <2>1. stopReason' = stopReason
    BY <1>5 DEF Merge
  <2>2. CASE stopReason = None
    <3>1. \A f, t \in Nat : Holds(f, t) => Told(f, t).reason = None
      BY <2>2 DEF Last
    <3>2. \A f, t \in Nat : Holds(f, t)' => Told(f, t)'.reason = None
      BY <1>5, <3>1
    <3> QED
      BY <1>4, <2>1, <2>2, <3>2 DEF Last
  <2>3. CASE stopReason # None
    <3>1. PICK f \in Nat, t \in Nat :
            /\ Holds(f, t) /\ Told(f, t).reason = stopReason
            /\ \A g, u \in Nat : Holds(g, u) /\ Told(g, u).reason # None => u <= t
      BY <2>3 DEF Last
    <3>2. Holds(f, t)' /\ Told(f, t)'.reason = stopReason'
      BY <2>1, <3>1
    <3>3. \A g, u \in Nat : Holds(g, u)' /\ Told(g, u)'.reason # None => u <= t
      BY <1>5, <3>1
    <3>4. \E h, v \in Nat :
            /\ Holds(h, v)' /\ Told(h, v)'.reason = stopReason'
            /\ \A g, u \in Nat : Holds(g, u)' /\ Told(g, u)'.reason # None => u <= v
      BY <3>2, <3>3
    <3> QED
      BY <1>4, <2>1, <2>3, <3>4 DEF Last
  <2> QED
    BY <1>4, <2>2, <2>3
<1>6. CASE Payload(text).reason # None
  <2>1. stopReason' = Payload(text).reason /\ stopReason' # None
    BY <1>6 DEF Merge
  <2>2. \A g, u \in Nat : Holds(g, u)' /\ Told(g, u)'.reason # None => u <= t0
    OBVIOUS
  <2> QED
    BY <1>1, <1>4, <2>1, <2>2 DEF Last
<1> QED
  BY <1>4, <1>5, <1>6

\* A text tells a payload, and goes on telling it when the reply grows.
LEMMA ToldKept ==
  ASSUME TypeOK, stream, NEW part \in Seq(Symbol), reply' = reply \o part,
         NEW f \in Nat, NEW t \in Nat, Holds(f, t)
  PROVE  /\ Told(f, t)' = Told(f, t)
         /\ Told(f, t).tokens \in Nat
         /\ t <= Len(reply)
<1>1. reply \in Seq(Symbol) /\ Len(reply) \in Nat /\ Len(reply) <= MaxReply /\ MaxReply \in Nat
  BY ScannerAssumption DEF ScannerAssumption, TypeOK
<1>2. f + 1 \in Nat /\ f + 1 >= 1 /\ t - 1 \in Nat /\ t - 1 <= Len(reply) /\ t <= Len(reply)
  BY <1>1 DEF Holds, Complete, LineBetween
<1>3. Told(f, t)' = Told(f, t)
  <2>1. SubSeq(reply \o part, f + 1, t - 1) = SubSeq(reply, f + 1, t - 1)
    BY <1>1, <1>2, CutKept
  <2> QED
    BY <2>1 DEF Told
<1>4. Told(f, t).tokens \in Nat
  <2> DEFINE text == SubSeq(reply, f + 1, t - 1)
  <2>1. text \in Seq(Symbol) /\ Len(text) <= MaxReply
    <3>1. text \in Seq(Symbol) /\ Len(text) = IF f + 1 <= t - 1 THEN t - 1 - (f + 1) + 1 ELSE 0
      BY <1>1, <1>2, CutIsText
    <3> QED
      BY <1>1, <1>2, <3>1
  <2> HIDE DEF text
  <2>2. Payload(text) \in [tokens : Nat, reason : Reason \cup {None}]
    BY <2>1, TextTells
  <2> QED
    BY <2>2 DEF Told, text
<1> QED
  BY <1>2, <1>3, <1>4

-----------------------------------------------------------------------------
(* What the scanner holds.                                                 *)

Dropped == IF stream THEN skipLine ELSE tooLarge

\* The buffer is the reply behind position b, where a line or the body begins.
Held(b) ==
  /\ b = 0 \/ (stream /\ reply[b] = Newline)
  /\ stream => \A k \in b + 1 .. Len(reply) : reply[k] # Newline
  /\ stream \/ ~reported =>
       IF Dropped THEN buf = <<>> /\ Len(reply) - b > MaxScanned
                  ELSE buf = SubSeq(reply, b + 1, Len(reply)) /\ Len(reply) - b <= MaxScanned

IInv ==
  /\ TypeOK
  /\ reported => todo = <<>>
  /\ ~stream /\ reported => buf = <<>>
  /\ \E b \in 0 .. Len(reply) : Held(b)
  /\ Highest
  /\ Last

\* What comes in without a newline is held behind what is held already, or is
\* too much.
LEMMA MoreIsHeld ==
  ASSUME TypeOK, NEW b \in 0 .. Len(reply), Held(b), stream \/ ~reported,
         reply' = reply \o todo, stream' = stream, reported' = reported,
         stream => \A k \in DOMAIN todo : todo[k] # Newline,
         Dropped' = (Dropped \/ ~Fits(todo)),
         buf' = IF Dropped' THEN <<>> ELSE buf \o todo
  PROVE  Held(b)' /\ b \in 0 .. Len(reply') /\ buf' \in Seq(Symbol)
<1>1. /\ reply \in Seq(Symbol) /\ todo \in Seq(Symbol) /\ buf \in Seq(Symbol)
      /\ Len(reply) \in Nat /\ Len(todo) \in Nat /\ MaxScanned \in Nat /\ b \in Nat /\ b <= Len(reply)
  BY ScannerAssumption DEF ScannerAssumption, TypeOK
<1>2. /\ reply' \in Seq(Symbol) /\ Len(reply') = Len(reply) + Len(todo)
      /\ \A k \in 1 .. Len(reply) + Len(todo) :
            reply'[k] = IF k <= Len(reply) THEN reply[k] ELSE todo[k - Len(reply)]
  BY <1>1, ConcatProperties
<1>3. b \in 0 .. Len(reply') /\ (b = 0 \/ (stream' /\ reply'[b] = Newline))
  BY <1>1, <1>2 DEF Held
<1>4. ASSUME stream, NEW k \in b + 1 .. Len(reply')
      PROVE  reply'[k] # Newline
  <2>1. CASE k <= Len(reply)
    BY <1>1, <1>2, <1>4, <2>1 DEF Held
  <2>2. CASE k > Len(reply)
    <3>1. k - Len(reply) \in DOMAIN todo /\ reply'[k] = todo[k - Len(reply)]
      BY <1>1, <1>2, <2>2
    <3> QED
      BY <1>4, <3>1
  <2> QED
    BY <1>1, <1>2, <2>1, <2>2
<1>5. CASE ~Dropped'
  <2>1. /\ ~Dropped /\ Fits(todo) /\ buf' = buf \o todo
        /\ buf = SubSeq(reply, b + 1, Len(reply))
    BY <1>5 DEF Held
  <2>2. Len(buf) = Len(reply) - b
    BY <1>1, <2>1, CutIsText
  <2>3. buf' = SubSeq(reply', b + 1, Len(reply'))
    <3>1. SubSeq(reply \o todo, b + 1, Len(reply) + Len(todo)) = SubSeq(reply, b + 1, Len(reply)) \o SubSeq(todo, 1, Len(todo))
      <4>1. b + 1 \in 1 .. Len(reply) + 1 /\ Len(todo) \in 0 .. Len(todo)
        BY <1>1
      <4> QED
        BY <1>1, <4>1, CutGrown
    <3>2. SubSeq(todo, 1, Len(todo)) = todo
      BY <1>1, SubSeqFull
    <3> QED
      BY <1>2, <2>1, <3>1, <3>2
  <2>4. Len(reply') - b <= MaxScanned
    BY <1>1, <1>2, <2>1, <2>2 DEF Fits
  <2>5. buf' \in Seq(Symbol)
    BY <1>1, <2>1, ConcatProperties
  <2> QED
    BY <1>3, <1>4, <1>5, <2>3, <2>4, <2>5 DEF Held
<1>6. CASE Dropped'
  <2>1. buf' = <<>> /\ buf' \in Seq(Symbol)
    BY <1>6
  <2>2. Len(reply') - b > MaxScanned
    <3>1. CASE Dropped
      BY <1>1, <1>2, <3>1 DEF Held
    <3>2. CASE ~Dropped
      <4>1. buf = SubSeq(reply, b + 1, Len(reply)) /\ ~Fits(todo)
        BY <1>6, <3>2 DEF Held
      <4>2. Len(buf) = Len(reply) - b
        BY <1>1, <4>1, CutIsText
      <4> QED
        BY <1>1, <1>2, <4>1, <4>2 DEF Fits
    <3> QED
      BY <3>1, <3>2
  <2> QED
    BY <1>3, <1>4, <1>6, <2>1, <2>2 DEF Held
<1> QED
  BY <1>5, <1>6

-----------------------------------------------------------------------------
(* The steps.                                                              *)

LEMMA WriteKeeps ==
  ASSUME IInv, NEW piece \in Text, Write(piece)
  PROVE  IInv'
<1>1. PICK n \in 0 .. MaxReply : piece \in [1 .. n -> Symbol]
  BY DEF Text
<1>2. piece \in Seq(Symbol) /\ Len(piece) = n
  BY <1>1, ScannerAssumption DEF ScannerAssumption
<1>3. TypeOK'
  BY <1>2 DEF Write, IInv, TypeOK
<1>4. \E b \in 0 .. Len(reply') : Held(b)'
  BY DEF Write, IInv, Held, Dropped
<1>5. /\ \A f, t \in Nat : Holds(f, t)' <=> Holds(f, t)
      /\ \A f, t \in Nat : Told(f, t)' = Told(f, t)
  BY DEF Write, Holds, Complete, LineBetween, Told
<1>6. Highest' /\ Last'
  BY <1>5, SameTexts DEF Write, IInv
<1> QED
  BY <1>3, <1>4, <1>6 DEF Write, IInv

LEMMA WriteBodyKeeps ==
  ASSUME IInv, WriteBody
  PROVE  IInv'
<1>1. ~reported /\ ~stream
  BY DEF WriteBody, IInv
<1>2. PICK b \in 0 .. Len(reply) : Held(b)
  BY DEF IInv
<1>3. Dropped' = (Dropped \/ ~Fits(todo)) /\ buf' = IF Dropped' THEN <<>> ELSE buf \o todo
  BY DEF WriteBody, Dropped, IInv, TypeOK
<1>4. Held(b)' /\ b \in 0 .. Len(reply') /\ buf' \in Seq(Symbol)
  BY <1>1, <1>2, <1>3, MoreIsHeld DEF WriteBody, IInv
<1>5. TypeOK'
  <2>1. reply' \in Seq(Symbol) /\ Len(reply') = Len(reply) + Len(todo) /\ todo' = <<>> /\ Len(todo') = 0
    BY ConcatProperties DEF WriteBody, IInv, TypeOK
  <2>2. tooLarge' \in BOOLEAN /\ todo' \in Seq(Symbol)
    BY DEF WriteBody, IInv, TypeOK
  <2>3. Len(reply') + Len(todo') <= MaxReply
    BY <2>1 DEF IInv, TypeOK
  <2> QED
    BY <1>4, <2>1, <2>2, <2>3 DEF WriteBody, IInv, TypeOK
<1>6. \A f, t \in Nat : ~Holds(f, t)' /\ ~Holds(f, t)
  BY <1>1 DEF WriteBody, Holds, Complete
<1>7. Highest' /\ Last'
  BY <1>6, SameTexts DEF WriteBody, IInv
<1> QED
  BY <1>1, <1>4, <1>5, <1>7 DEF WriteBody, IInv

LEMMA HoldRestKeeps ==
  ASSUME IInv, HoldRest
  PROVE  IInv'
<1>1. ~reported /\ stream
  BY DEF HoldRest, IInv
<1>2. PICK b \in 0 .. Len(reply) : Held(b)
  BY DEF IInv
<1>3. Dropped' = (Dropped \/ ~Fits(todo)) /\ buf' = IF Dropped' THEN <<>> ELSE buf \o todo
  BY DEF HoldRest, Dropped, IInv, TypeOK
<1>4. Held(b)' /\ b \in 0 .. Len(reply') /\ buf' \in Seq(Symbol)
  BY <1>1, <1>2, <1>3, MoreIsHeld DEF HoldRest, IInv
<1>5. /\ reply \in Seq(Symbol) /\ todo \in Seq(Symbol) /\ Len(reply) \in Nat /\ Len(todo) \in Nat
      /\ reply' = reply \o todo
      /\ reply' \in Seq(Symbol) /\ Len(reply') = Len(reply) + Len(todo)
      /\ \A k \in 1 .. Len(reply) + Len(todo) :
            reply'[k] = IF k <= Len(reply) THEN reply[k] ELSE todo[k - Len(reply)]
  BY ConcatProperties DEF HoldRest, IInv, TypeOK
<1>6. TypeOK'
  <2>1. todo' = <<>> /\ Len(todo') = 0
    BY DEF HoldRest
  <2>2. skipLine' \in BOOLEAN /\ todo' \in Seq(Symbol)
    BY DEF HoldRest, IInv, TypeOK
  <2>3. Len(reply') + Len(todo') <= MaxReply
    BY <1>5, <2>1 DEF IInv, TypeOK
  <2> QED
    BY <1>4, <1>5, <2>2, <2>3 DEF HoldRest, IInv, TypeOK
<1>7. ASSUME NEW f \in Nat, NEW t \in Nat
      PROVE  Holds(f, t)' <=> Holds(f, t)
  <2>1. ASSUME Holds(f, t)' PROVE t <= Len(reply)
    <3>1. t \in 1 .. Len(reply) + Len(todo) /\ reply'[t] = Newline
      BY <1>1, <1>5, <2>1 DEF HoldRest, Holds, Complete, LineBetween
    <3>2. CASE t > Len(reply)
      <4>1. t - Len(reply) \in DOMAIN todo /\ reply'[t] = todo[t - Len(reply)]
        BY <1>5, <3>1, <3>2
      <4> QED
        BY <3>1, <4>1 DEF HoldRest
    <3> QED
      BY <1>5, <3>2
  <2>2. ASSUME Holds(f, t) PROVE t <= Len(reply)
    BY <1>1, <1>5, <2>2 DEF Holds, Complete, LineBetween
  <2>3. ASSUME t <= Len(reply), f < t
        PROVE  LineBetween(f, t)' <=> LineBetween(f, t)
    <3>1. \A k \in 1 .. t : reply'[k] = reply[k]
      BY <1>5, <2>3
    <3> QED
      BY <1>5, <2>3, <3>1 DEF LineBetween
  <2> QED
    BY <1>1, <1>5, <2>1, <2>2, <2>3 DEF HoldRest, Holds, Complete
<1>8. \A f, t \in Nat : Holds(f, t) => Told(f, t)' = Told(f, t)
  BY <1>1, <1>5, ToldKept DEF IInv
<1>9. Highest' /\ Last'
  BY <1>7, <1>8, SameTexts DEF HoldRest, IInv
<1> QED
  BY <1>1, <1>4, <1>6, <1>9 DEF HoldRest, IInv

LEMMA EndLineKeeps ==
  ASSUME IInv, EndLine
  PROVE  IInv'
<1>1. ~reported /\ stream /\ TypeOK /\ Highest /\ Last
  BY DEF EndLine, IInv
<1>2. PICK b \in 0 .. Len(reply) : Held(b)
  BY DEF IInv
<1>3. PICK end \in DOMAIN todo :
        /\ Ends(end)
        /\ LET rest == SubSeq(todo, 1, end - 1) IN
             IF skipLine \/ ~Fits(rest)
             THEN UNCHANGED <<usage, stopReason>>
             ELSE Merge(buf \o rest)
        /\ reply' = reply \o SubSeq(todo, 1, end)
        /\ todo' = SubSeq(todo, end + 1, Len(todo))
  BY DEF EndLine
<1>4. PICK rest, part, next :
         /\ rest = SubSeq(todo, 1, end - 1)
         /\ part = SubSeq(todo, 1, end)
         /\ next = Len(reply) + end
  BY Zenon
<1>5. /\ reply \in Seq(Symbol) /\ todo \in Seq(Symbol) /\ buf \in Seq(Symbol)
      /\ usage \in Nat /\ stopReason \in Reason \cup {None}
  BY <1>1 DEF TypeOK
<1>6. /\ Len(reply) \in Nat /\ Len(todo) \in Nat /\ MaxScanned \in Nat /\ MaxReply \in Nat
      /\ b \in Nat /\ b <= Len(reply) /\ end \in Nat /\ 1 <= end /\ end <= Len(todo)
      /\ Len(reply) + Len(todo) <= MaxReply
      /\ next = Len(reply) + end /\ next \in Nat /\ DOMAIN reply = 1 .. Len(reply)
  BY <1>1, <1>4, <1>5, ScannerAssumption DEF ScannerAssumption, TypeOK
<1>7. /\ part \in Seq(Symbol) /\ Len(part) = end /\ \A k \in 1 .. end : part[k] = todo[k]
      /\ rest \in Seq(Symbol) /\ Len(rest) = end - 1
      /\ SubSeq(part, 1, end - 1) = rest
  <2>1. end \in 0 .. Len(todo) /\ end - 1 \in 0 .. Len(todo) /\ end - 1 \in 0 .. end
    BY <1>6
  <2> QED
    BY <1>4, <1>5, <2>1, Front, FrontOfFront
<1>8. /\ reply' = reply \o part
      /\ IF skipLine \/ ~Fits(rest) THEN UNCHANGED <<usage, stopReason>> ELSE Merge(buf \o rest)
  BY <1>3, <1>4
<1>9. /\ reply' \in Seq(Symbol) /\ Len(reply') = next /\ DOMAIN reply' = 1 .. next
      /\ \A k \in 1 .. Len(reply) : reply'[k] = reply[k]
      /\ \A k \in Len(reply) + 1 .. next - 1 : reply'[k] # Newline
      /\ reply'[next] = Newline
  <2>1. /\ reply' \in Seq(Symbol) /\ Len(reply') = Len(reply) + Len(part)
        /\ \A k \in 1 .. Len(reply) : reply'[k] = reply[k]
        /\ \A k \in 1 .. Len(part) : reply'[Len(reply) + k] = part[k]
    <3>1. reply' = reply \o part
      BY <1>8
    <3>2. part \in Seq(Symbol)
      BY <1>7
    <3> QED
      BY <1>5, <3>1, <3>2, Joined
  <2>2. \A k \in 1 .. end : reply'[Len(reply) + k] = todo[k]
    BY <1>7, <2>1
  <2>3. ASSUME NEW k \in Len(reply) + 1 .. next - 1 PROVE reply'[k] # Newline
    <3>1. PICK j \in 1 .. end - 1 : k = Len(reply) + j
      <4>1. k - Len(reply) \in 1 .. end - 1 /\ k = Len(reply) + (k - Len(reply))
        BY <1>6
      <4> QED
        BY <4>1
    <3>2. j \in 1 .. end /\ todo[j] # Newline
      BY <1>3, <1>6 DEF Ends
    <3> QED
      BY <2>2, <3>1, <3>2
  <2>4. reply'[next] = Newline
    <3>1. end \in 1 .. end /\ todo[end] = Newline
      BY <1>3, <1>6 DEF Ends
    <3> QED
      BY <1>4, <2>2, <3>1
  <2> QED
    BY <1>4, <1>7, <2>1, <2>3, <2>4
<1>10. /\ stream' /\ reported' = reported /\ skipLine' = FALSE /\ buf' = <<>> /\ tooLarge' = tooLarge
  BY <1>1 DEF EndLine
<1>11. next \in 0 .. Len(reply') /\ Held(next)'
  <2>1. next \in Nat /\ Len(reply') = next
    BY <1>6, <1>9
  <2>2. SubSeq(reply', next + 1, Len(reply')) = <<>>
    BY <2>1, SubSeqEmpty
  <2> QED
    BY <1>6, <1>9, <1>10, <2>1, <2>2 DEF Held, Dropped
<1>12. ~skipLine => /\ buf = SubSeq(reply, b + 1, Len(reply))
                   /\ Len(buf) = Len(reply) - b
                   /\ Payload(buf \o rest) \in [tokens : Nat, reason : Reason \cup {None}]
  <2> SUFFICES ASSUME ~skipLine
               PROVE  /\ buf = SubSeq(reply, b + 1, Len(reply))
                      /\ Len(buf) = Len(reply) - b
                      /\ Payload(buf \o rest) \in [tokens : Nat, reason : Reason \cup {None}]
    OBVIOUS
  <2>1. buf = SubSeq(reply, b + 1, Len(reply))
    BY <1>1, <1>2 DEF Held, Dropped
  <2>2. Len(buf) = Len(reply) - b
    <3>1. b \in 0 .. Len(reply)
      BY <1>6
    <3> QED
      BY <1>5, <2>1, <3>1, Back
  <2>3. buf \o rest \in Seq(Symbol) /\ Len(buf \o rest) = Len(buf) + Len(rest)
    BY <1>5, <1>7, Joined
  <2>4. Len(buf \o rest) <= MaxReply
    <3>1. Len(rest) = end - 1
      BY <1>7
    <3>2. Len(buf \o rest) = (Len(reply) - b) + (end - 1)
      BY <2>2, <2>3, <3>1, Zenon
    <3>3. \A l, c, e, t, m \in Nat :
             c <= l /\ 1 <= e /\ e <= t /\ l + t <= m => (l - c) + (e - 1) <= m
      OBVIOUS
    <3>4. (Len(reply) - b) + (end - 1) <= MaxReply
      BY <1>6, <3>3, Zenon
    <3> QED
      BY <3>2, <3>4, Zenon
  <2> QED
    BY <2>1, <2>2, <2>3, <2>4, TextTells
<1>13. TypeOK'
  <2>1. todo' \in Seq(Symbol) /\ Len(todo') = Len(todo) - end
    <3>1. end \in 0 .. Len(todo)
      BY <1>6
    <3> QED
      BY <1>3, <1>5, <3>1, Back
  <2>2. usage' \in Nat /\ stopReason' \in Reason \cup {None}
    <3>1. CASE UNCHANGED <<usage, stopReason>>
      BY <1>5, <3>1
    <3>2. CASE ~skipLine /\ Merge(buf \o rest)
      <4>1. Payload(buf \o rest).tokens \in Nat /\ Payload(buf \o rest).reason \in Reason \cup {None}
        BY <1>12, <3>2
      <4> QED
        BY <1>5, <3>2, <4>1 DEF Merge
    <3> QED
      BY <1>8, <3>1, <3>2
  <2>3. Len(reply') + Len(todo') <= MaxReply
    BY <1>6, <1>9, <2>1
  <2>4. buf' \in Seq(Symbol)
    BY <1>10
  <2> QED
    BY <1>1, <1>9, <1>10, <2>1, <2>2, <2>3, <2>4 DEF EndLine, TypeOK
<1>14. \A f, t \in Nat : Holds(f, t) => Told(f, t)' = Told(f, t) /\ Told(f, t).tokens \in Nat /\ t < next
  <2>1. part \in Seq(Symbol) /\ reply' = reply \o part
    BY <1>7, <1>8
  <2>2. \A t \in Nat : t <= Len(reply) => t < next
    BY <1>6
  <2> SUFFICES ASSUME NEW f \in Nat, NEW t \in Nat, Holds(f, t)
               PROVE  Told(f, t)' = Told(f, t) /\ Told(f, t).tokens \in Nat /\ t < next
    OBVIOUS
  <2>3. Told(f, t)' = Told(f, t) /\ Told(f, t).tokens \in Nat /\ t <= Len(reply)
    BY <1>1, <2>1, ToldKept
  <2> QED
    BY <2>2, <2>3
<1>15. ASSUME NEW f \in Nat, NEW t \in Nat
       PROVE  Holds(f, t)' <=> Holds(f, t) \/ (f = b /\ t = next /\ next - b - 1 <= MaxScanned)
  <2>1. ASSUME Holds(f, t)' PROVE t <= Len(reply) \/ (t = next /\ f = b)
    <3>1. /\ t \in 1 .. next /\ reply'[t] = Newline /\ f < t /\ f \in 0 .. next
          /\ f = 0 \/ reply'[f] = Newline
          /\ \A k \in f + 1 .. t - 1 : reply'[k] # Newline
      BY <1>9, <1>10, <2>1 DEF Holds, Complete, LineBetween
    <3>2. CASE t = next
      <4>1. ~(f < b)
        <5> SUFFICES ASSUME f < b PROVE FALSE
          OBVIOUS
        <5>1. b \in f + 1 .. t - 1 /\ b \in 1 .. Len(reply)
          BY <1>6, <3>2
        <5>2. reply[b] = Newline
          BY <1>2, <5>1 DEF Held
        <5> QED
          BY <1>9, <3>1, <5>1, <5>2
      <4>2. ~(f > b)
        <5> SUFFICES ASSUME f > b PROVE FALSE
          OBVIOUS
        <5>1. reply'[f] = Newline
          BY <1>6, <3>1
        <5>2. CASE f <= Len(reply)
          <6>1. f \in b + 1 .. Len(reply) /\ f \in 1 .. Len(reply)
            BY <1>6, <5>2
          <6> QED
            BY <1>1, <1>2, <1>9, <5>1, <6>1 DEF Held
        <5>3. CASE f > Len(reply)
          <6>1. f \in Len(reply) + 1 .. next - 1
            BY <1>6, <3>1, <3>2, <5>3
          <6> QED
            BY <1>9, <5>1, <6>1
        <5> QED
          BY <1>6, <5>2, <5>3
      <4> QED
        BY <1>6, <3>2, <4>1, <4>2
    <3>3. CASE t # next
      <4>1. ~(t \in Len(reply) + 1 .. next - 1)
        BY <1>9, <3>1
      <4> QED
        BY <1>6, <3>1, <3>3, <4>1
    <3> QED
      BY <3>2, <3>3
  <2>2. ASSUME Holds(f, t) PROVE t <= Len(reply)
    BY <1>1, <1>6, <2>2 DEF Holds, Complete, LineBetween
  <2>3. ASSUME t <= Len(reply), f < t
        PROVE  Holds(f, t)' <=> Holds(f, t)
    <3>1. LineBetween(f, t)' <=> LineBetween(f, t)
      <4>1. \A k \in 1 .. t : reply'[k] = reply[k]
        BY <1>6, <1>9, <2>3
      <4>2. f \in 1 .. t \/ f = 0
        BY <2>3
      <4>3. /\ t \in DOMAIN reply <=> t \in 1 .. t
            /\ t \in DOMAIN reply' <=> t \in 1 .. t
        BY <1>6, <1>9, <2>3
      <4>4. \A k \in f + 1 .. t - 1 : k \in 1 .. t
        BY <2>3
      <4> QED
        BY <4>1, <4>2, <4>3, <4>4 DEF LineBetween
    <3> QED
      BY <1>1, <1>6, <1>9, <1>10, <2>3, <3>1 DEF Holds, Complete
  <2>4. LineBetween(b, next)'
    <3>1. next \in DOMAIN reply' /\ (b = 0 \/ reply'[b] = Newline)
      BY <1>2, <1>6, <1>9 DEF Held
    <3>2. ASSUME NEW k \in b + 1 .. next - 1 PROVE reply'[k] # Newline
      <4>1. k \in b + 1 .. Len(reply) \/ k \in Len(reply) + 1 .. next - 1
        BY <1>6
      <4>2. k \in b + 1 .. Len(reply) => k \in 1 .. Len(reply) /\ reply[k] # Newline
        BY <1>1, <1>2, <1>6 DEF Held
      <4> QED
        BY <1>9, <4>1, <4>2
    <3> QED
      BY <1>9, <3>1, <3>2 DEF LineBetween
  <2>5. next - b - 1 <= MaxScanned => Holds(b, next)'
    BY <1>6, <1>9, <1>10, <2>4 DEF Holds, Complete
  <2>6. Holds(f, t)' => t - f - 1 <= MaxScanned /\ f < t
    BY DEF Holds
  <2>7. Holds(f, t) => f < t
    BY DEF Holds
  <2> QED
    BY <2>1, <2>2, <2>3, <2>5, <2>6, <2>7
<1>16. CASE skipLine \/ ~Fits(rest)
  <2>1. next - b - 1 > MaxScanned
    <3>1. CASE skipLine
      BY <1>1, <1>2, <1>6, <3>1 DEF Held, Dropped
    <3>2. CASE ~skipLine
      <4>1. Len(rest) = end - 1 /\ Len(buf) = Len(reply) - b /\ ~(Len(buf) + Len(rest) <= MaxScanned)
        BY <1>7, <1>12, <1>16, <3>2 DEF Fits
      <4>2. ~((Len(reply) - b) + (end - 1) <= MaxScanned)
        BY <4>1, Zenon
      <4>3. \A l, e, c, m, n \in Nat : n = l + e /\ ~((l - c) + (e - 1) <= m) => n - c - 1 > m
        OBVIOUS
      <4>4. Len(reply) \in Nat /\ end \in Nat /\ b \in Nat /\ MaxScanned \in Nat /\ next \in Nat /\ next = Len(reply) + end
        BY <1>6
      <4> QED
        BY <4>2, <4>3, <4>4
    <3> QED
      BY <3>1, <3>2
  <2>2. \A f, t \in Nat : Holds(f, t)' <=> Holds(f, t)
    <3>1. ~(next - b - 1 <= MaxScanned)
      BY <1>6, <2>1
    <3> QED
      BY <1>15, <3>1
  <2>3. usage' = usage /\ stopReason' = stopReason
    BY <1>8, <1>16
  <2>4. Highest' /\ Last'
    BY <1>1, <1>14, <2>2, <2>3, SameTexts
  <2> QED
    BY <1>1, <1>10, <1>11, <1>13, <2>4 DEF IInv
<1>17. CASE ~skipLine /\ Fits(rest)
  <2>1. next - b - 1 <= MaxScanned
    <3>1. Len(rest) = end - 1 /\ Len(buf) = Len(reply) - b /\ Len(buf) + Len(rest) <= MaxScanned
      BY <1>7, <1>12, <1>17 DEF Fits
    <3>2. (Len(reply) - b) + (end - 1) <= MaxScanned
      BY <3>1, Zenon
    <3> QED
      BY <1>6, <3>2
  <2>2. Told(b, next)' = Payload(buf \o rest)
    <3>1. SubSeq(reply \o part, b + 1, Len(reply) + (end - 1)) = SubSeq(reply, b + 1, Len(reply)) \o SubSeq(part, 1, end - 1)
      <4>1. b + 1 \in 1 .. Len(reply) + 1 /\ end - 1 \in 0 .. Len(part)
        BY <1>6, <1>7
      <4> QED
        BY <1>5, <1>7, <4>1, CutGrown
    <3>2. SubSeq(part, 1, end - 1) = rest
      BY <1>7
    <3>3. next - 1 = Len(reply) + (end - 1)
      BY <1>6
    <3> QED
      BY <1>8, <1>12, <1>17, <3>1, <3>2, <3>3 DEF Told
  <2>3. \A f, t \in Nat : Holds(f, t)' <=> Holds(f, t) \/ (f = b /\ t = next)
    BY <1>15, <2>1
  <2>4. Merge(buf \o rest)
    BY <1>8, <1>17
  <2>5. usage \in Nat /\ next \in Nat
    BY <1>1, <1>6 DEF TypeOK
  <2>6. PICK text : text = buf \o rest
    BY Zenon
  <2>7. /\ Payload(text) \in [tokens : Nat, reason : Reason \cup {None}]
        /\ Merge(text) /\ Told(b, next)' = Payload(text)
    BY <1>12, <1>17, <2>2, <2>4, <2>6
  <2>8. b \in Nat
    BY <1>6
  <2>9. Highest' /\ Last'
    BY <1>1, <1>14, <2>3, <2>5, <2>7, <2>8, OneMoreText
  <2> QED
    BY <1>1, <1>10, <1>11, <1>13, <2>9 DEF IInv
<1> QED
  BY <1>16, <1>17

LEMMA ReportKeeps ==
  ASSUME IInv, Report
  PROVE  IInv'
<1>1. TypeOK /\ Highest /\ Last /\ ~reported /\ todo = <<>> /\ todo' = todo /\ reported' /\ reply' = reply /\ stream' = stream
  BY DEF Report, IInv
<1>2. PICK b \in 0 .. Len(reply) : Held(b)
  BY DEF IInv
<1>3. /\ reply \in Seq(Symbol) /\ buf \in Seq(Symbol) /\ usage \in Nat /\ stopReason \in Reason \cup {None}
      /\ Len(reply) \in Nat /\ Len(reply) <= MaxReply /\ MaxReply \in Nat /\ MaxScanned \in Nat
  BY <1>1, ScannerAssumption DEF ScannerAssumption, TypeOK
<1>4. CASE stream
  <2>1. UNCHANGED <<stream, todo, buf, skipLine, tooLarge, usage, stopReason, reply>>
    BY <1>4 DEF Report
  <2>2. TypeOK'
    BY <1>1, <2>1 DEF TypeOK
  <2>3. Held(b)' /\ b \in 0 .. Len(reply')
    BY <1>2, <1>4, <2>1 DEF Held, Dropped
  <2>4. /\ \A f, t \in Nat : Holds(f, t)' <=> Holds(f, t)
        /\ \A f, t \in Nat : Told(f, t)' = Told(f, t)
    BY <1>4, <2>1 DEF Holds, Complete, LineBetween, Told
  <2>5. Highest' /\ Last'
    BY <1>1, <2>1, <2>4, SameTexts
  <2> QED
    BY <1>1, <1>4, <2>1, <2>2, <2>3, <2>5 DEF IInv
<1>5. CASE ~stream
  <2>1. /\ ~tooLarge => buf = reply /\ Len(reply) <= MaxScanned
        /\ tooLarge => buf = <<>> /\ Len(reply) > MaxScanned
        /\ b = 0
    <3>1. b = 0
      BY <1>2, <1>5 DEF Held
    <3>2. Len(reply) - 0 = Len(reply) /\ SubSeq(reply, 0 + 1, Len(reply)) = reply
      BY <1>3, SubSeqFull
    <3> QED
      BY <1>1, <1>2, <1>5, <3>1, <3>2 DEF Held, Dropped
  <2>2. PICK whole : whole = reply
    BY Zenon
  <2>3. Payload(whole) \in [tokens : Nat, reason : Reason \cup {None}]
    BY <1>3, <2>2, TextTells
  <2>4. \A f, t \in Nat : ~Holds(f, t)
    BY <1>1, <1>5 DEF Holds, Complete
  <2>5. usage = 0 /\ stopReason = None
    BY <1>1, <2>4 DEF Highest, Last
  <2>6. buf' = <<>> /\ UNCHANGED <<stream, todo, skipLine, tooLarge, reply>>
    BY <1>5 DEF Report
  <2>7. \A f, t \in Nat : Holds(f, t)' <=> f = 0 /\ t = Len(reply) + 1 /\ Len(reply) <= MaxScanned
    BY <1>1, <1>3, <1>5 DEF Holds, Complete
  <2>8. usage' \in Nat /\ stopReason' \in Reason \cup {None} /\ Highest' /\ Last'
    <3>1. CASE tooLarge
      <4>1. usage' = usage /\ stopReason' = stopReason
        BY <1>5, <2>1, <3>1 DEF Report
      <4>2. \A f, t \in Nat : Holds(f, t)' <=> Holds(f, t)
        BY <1>3, <2>1, <2>4, <2>7, <3>1
      <4> QED
        BY <1>1, <1>3, <2>4, <4>1, <4>2, SameTexts
    <3>2. CASE ~tooLarge
      <4>1. Merge(whole)
        <5>1. CASE buf = <<>>
          <6>1. Payload(whole) = [tokens |-> 0, reason |-> None]
            BY <2>1, <2>2, <3>2, <5>1, ScannerAssumption DEF ScannerAssumption
          <6>2. usage' = usage /\ stopReason' = stopReason
            BY <5>1 DEF Report
          <6> QED
            BY <2>5, <6>1, <6>2 DEF Merge
        <5>2. CASE buf # <<>>
          <6>1. Merge(buf) /\ buf = whole
            BY <1>5, <2>1, <2>2, <3>2, <5>2 DEF Report
          <6> QED
            BY <6>1
        <5> QED
          BY <5>1, <5>2
      <4>2. PICK last \in Nat : last = Len(reply) + 1
        BY <1>3
      <4>3. Told(0, last)' = Payload(whole)
        <5>1. SubSeq(reply, 0 + 1, last - 1) = reply
          <6>1. last - 1 = Len(reply) /\ 0 + 1 = 1
            BY <1>3, <4>2
          <6> QED
            BY <1>3, <6>1, SubSeqFull
        <5> QED
          BY <1>1, <2>2, <5>1 DEF Told
      <4>4. \A f, t \in Nat : Holds(f, t)' <=> Holds(f, t) \/ (f = 0 /\ t = last)
        BY <2>1, <2>4, <2>7, <3>2, <4>2
      <4>5. Highest' /\ Last'
        BY <1>1, <1>3, <2>3, <2>4, <4>1, <4>3, <4>4, OneMoreText
      <4>6. usage' \in Nat /\ stopReason' \in Reason \cup {None}
        BY <1>3, <2>3, <4>1 DEF Merge
      <4> QED
        BY <4>5, <4>6
    <3> QED
      BY <3>1, <3>2
  <2>9. TypeOK'
    BY <1>1, <2>6, <2>8 DEF TypeOK
  <2>10. Held(b)' /\ b \in 0 .. Len(reply')
    BY <1>1, <1>2, <1>5, <2>6 DEF Held
  <2> QED
    BY <1>1, <1>5, <2>6, <2>8, <2>9, <2>10 DEF IInv
<1> QED
  BY <1>4, <1>5

-----------------------------------------------------------------------------

\* The invariant: the buffer is the reply since its last newline, and what was
\* reported so far is what the texts before that tell.
THEOREM Invariant == Spec => []IInv
<1>1. Init => IInv
  <2> SUFFICES ASSUME Init PROVE IInv
    OBVIOUS
  <2>1. /\ reply = <<>> /\ todo = <<>> /\ buf = <<>> /\ ~reported /\ usage = 0 /\ stopReason = None
        /\ reply \in Seq(Symbol) /\ Len(reply) = 0 /\ Len(todo) = 0
        /\ MaxReply \in Nat /\ MaxScanned \in Nat
    BY ScannerAssumption DEF ScannerAssumption, Init
  <2>2. TypeOK
    <3>1. todo \in Seq(Symbol) /\ buf \in Seq(Symbol) /\ usage \in Nat
      BY <2>1
    <3>2. Len(reply) + Len(todo) <= MaxReply
      BY <2>1
    <3> QED
      BY <2>1, <3>1, <3>2 DEF Init, TypeOK
  <2>3. Held(0) /\ 0 \in 0 .. Len(reply)
    <3>1. SubSeq(reply, 0 + 1, Len(reply)) = <<>>
      BY <2>1, SubSeqEmpty
    <3> QED
      BY <2>1, <3>1 DEF Init, Held, Dropped
  <2>4. \A f, t \in Nat : ~Holds(f, t)
    BY <2>1 DEF Holds, Complete, LineBetween
  <2>5. Highest /\ Last
    BY <2>1, <2>4 DEF Highest, Last
  <2> QED
    BY <2>1, <2>2, <2>3, <2>5 DEF IInv
<1>2. IInv /\ [Next]_vars => IInv'
  <2> SUFFICES ASSUME IInv, [Next]_vars PROVE IInv'
    OBVIOUS
  <2>1. CASE UNCHANGED vars
    <3>1. /\ \A f, t \in Nat : Holds(f, t)' <=> Holds(f, t)
          /\ \A f, t \in Nat : Told(f, t)' = Told(f, t)
      BY <2>1 DEF vars, Holds, Complete, LineBetween, Told
    <3>2. Highest' /\ Last'
      BY <2>1, <3>1, SameTexts DEF vars, IInv
    <3> QED
      BY <2>1, <3>2 DEF vars, IInv, TypeOK, Held, Dropped
  <2>2. CASE Next
    BY <2>2, WriteKeeps, WriteBodyKeeps, HoldRestKeeps, EndLineKeeps, ReportKeeps DEF Next
  <2> QED
    BY <2>1, <2>2
<1> QED
  BY <1>1, <1>2, PTL DEF Spec

\* The variables of the scanner keep their types.
THEOREM TypeCorrect == Spec => []TypeOK
<1>1. IInv => TypeOK
  BY DEF IInv
<1> QED
  BY <1>1, Invariant, PTL

\* The scanner never holds more than maxScannedBody, however long the reply and
\* its lines are.
THEOREM MemoryIsBounded == Spec => []HeldIsBounded
<1>1. IInv => HeldIsBounded
  <2> SUFFICES ASSUME IInv PROVE HeldIsBounded
    OBVIOUS
  <2>1. PICK b \in 0 .. Len(reply) : Held(b)
    BY DEF IInv
  <2>2. reply \in Seq(Symbol) /\ MaxScanned \in Nat
    BY ScannerAssumption DEF ScannerAssumption, IInv, TypeOK
  <2>3. CASE buf = <<>>
    BY <2>2, <2>3 DEF HeldIsBounded
  <2>4. CASE buf # <<>>
    <3>1. buf = SubSeq(reply, b + 1, Len(reply)) /\ Len(reply) - b <= MaxScanned
      BY <2>1, <2>4 DEF IInv, Held
    <3>2. Len(buf) = Len(reply) - b
      BY <2>2, <3>1, Back
    <3> QED
      BY <3>1, <3>2 DEF HeldIsBounded
  <2> QED
    BY <2>3, <2>4
<1> QED
  BY <1>1, Invariant, PTL

\* However a reply is cut into pieces, the usage that is reported is the highest
\* its texts tell.
THEOREM UsageIsTold == Spec => []UsageIsHighest
<1>1. IInv => UsageIsHighest
  BY HighestAndLast DEF IInv
<1> QED
  BY <1>1, Invariant, PTL

\* However a reply is cut into pieces, the stop reason that is reported is the
\* last its texts tell.
THEOREM ReasonIsTold == Spec => []ReasonIsLast
<1>1. IInv => ReasonIsLast
  BY HighestAndLast DEF IInv
<1> QED
  BY <1>1, Invariant, PTL
=============================================================================
