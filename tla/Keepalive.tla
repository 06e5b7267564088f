------------------------------ MODULE Keepalive ------------------------------
(***************************************************************************)
(* When the keep-alive pings of a streamed reply go out.                   *)
(*                                                                         *)
(*   provider/openaicompat/stream.go   startPings, pinger.run              *)
(*   anthropic/sse.go                  SSEWriter.PingIfIdle, lastWrite     *)
(*                                                                         *)
(* Time passes in whole units.  A ticker fires every Interval, at moments  *)
(* fixed when the stream opens, and not Interval after the last write; the *)
(* pinger looks at the silence only when the ticker fired.  PingIfIdle     *)
(* reads lastWrite under the mutex, lets the mutex go, and then sends: the *)
(* handler may write in between.  The pinger may lag behind its ticker by  *)
(* up to Lag units (the scheduler, or the mutex).                          *)
(***************************************************************************)
EXTENDS Integers

CONSTANTS
  Interval,       \* pingInterval
  Lag,            \* bound: how long after a tick the pinger may still be busy with it
  ClientTimeout   \* after this much silence Claude Code drops the stream

ASSUME KeepaliveAssumption ==
  /\ Interval \in Nat \ {0}
  /\ Lag \in Nat
  /\ Lag < Interval
  /\ ClientTimeout \in Nat
  /\ 2 * Interval + Lag <= ClientTimeout

VARIABLES
  silence,   \* time since SSEWriter.lastWrite
  left,      \* time until the ticker fires next
  ppc,       \* "select", "check" (tick received), "send" or "done"
  stopped    \* the channel pinger.stopped is closed

vars == <<silence, left, ppc, stopped>>

Init ==
  /\ silence = 0
  /\ left = Interval
  /\ ppc = "select"
  /\ stopped = FALSE

\* The handler sends an event of the reply.
Write ==
  /\ ~stopped
  /\ silence' = 0
  /\ UNCHANGED <<left, ppc, stopped>>

\* A unit of time passes, in which the ticker may fire.
Pass ==
  /\ ppc = "select" \/ (ppc \in {"check", "send"} /\ Interval - left < Lag)
  /\ silence' = silence + 1
  /\ IF left = 1
     THEN left' = Interval /\ ppc' = "check"
     ELSE left' = left - 1 /\ UNCHANGED ppc
  /\ UNCHANGED stopped

\* Slip: a stream that is silent for just Interval counts as busy.
CheckLonger ==
  /\ ppc = "check"
  /\ ppc' = IF silence <= Interval THEN "select" ELSE "send"
  /\ UNCHANGED <<silence, left, stopped>>

\* The first half of PingIfIdle: is the stream quiet for less than Interval?
Check ==
  /\ ppc = "check"
  /\ ppc' = IF silence < Interval THEN "select" ELSE "send"
  /\ UNCHANGED <<silence, left, stopped>>

\* The second half: the ping is written, or the write fails and the pinger ends.
SendPing ==
  /\ ppc = "send"
  /\ \/ silence' = 0 /\ ppc' = "select"
     \/ UNCHANGED silence /\ ppc' = "done"
  /\ UNCHANGED <<left, stopped>>

\* pinger.stop closes the channel; run returns when its select sees it, which
\* may be instead of the tick it was woken up for.
Stop ==
  /\ ~stopped
  /\ stopped' = TRUE
  /\ UNCHANGED <<silence, left, ppc>>

Finish ==
  /\ stopped
  /\ ppc \in {"select", "check"}
  /\ ppc' = "done"
  /\ UNCHANGED <<silence, left, stopped>>

Next == Write \/ Pass \/ Check \/ SendPing \/ Stop \/ Finish

Spec == Init /\ [][Next]_vars

-----------------------------------------------------------------------------
(* Properties.                                                             *)

TypeOK ==
  /\ silence \in Nat
  /\ left \in 1 .. Interval
  /\ ppc \in {"select", "check", "send", "done"}
  /\ stopped \in BOOLEAN

Alive == ppc # "done"

\* While the pinger runs, the client never waits for a byte for two intervals
\* and the pinger's lag: a tick that comes just too early to find the stream
\* idle is made up for by the next one.  (One interval, which the comment on
\* defaultPingInterval says, is not enough even if the pinger never lags.)
SilenceBounded == Alive => silence < 2 * Interval + Lag

\* So Claude Code does not drop a stream whose upstream merely reasons.
NeverDropped == Alive => silence < ClientTimeout
=============================================================================
