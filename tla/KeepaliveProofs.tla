--------------------------- MODULE KeepaliveProofs ---------------------------
(***************************************************************************)
(* The silence of a streamed reply is bounded, for every ping interval and *)
(* every lag of the pinger below it.                                       *)
(***************************************************************************)
EXTENDS Keepalive, TLAPS

\* Between ticks the silence at the next tick is settled: less than two
\* intervals.  While a tick is dealt with, its age adds to that.
Budget ==
  /\ ppc = "select" => silence + left < 2 * Interval
  /\ ppc \in {"check", "send"} => /\ silence + left < 3 * Interval
                                  /\ Interval - left <= Lag

IInv == TypeOK /\ Budget

\* The budget is kept by every step.
THEOREM BudgetKept == Spec => []IInv
<1> USE KeepaliveAssumption DEF KeepaliveAssumption, TypeOK, Budget
<1>1. Init => IInv
  <2> SUFFICES ASSUME Init
               PROVE  IInv
    OBVIOUS
  <2>1. TypeOK
    <3>1. silence \in Nat /\ left \in 1 .. Interval
      BY DEF Init
    <3>2. ppc \in {"select", "check", "send", "done"} /\ stopped \in BOOLEAN
      BY DEF Init
    <3> QED
      BY <3>1, <3>2
  <2>2. Budget
    BY DEF Init
  <2> QED
    BY <2>1, <2>2 DEF IInv
<1>2. IInv /\ [Next]_vars => IInv'
  <2> SUFFICES ASSUME IInv, [Next]_vars
               PROVE  IInv'
    OBVIOUS
  <2> USE DEF IInv
  <2>1. CASE Write
    BY <2>1 DEF Write
  <2>2. CASE Pass
    <3>1. CASE left = 1
      BY <2>2, <3>1 DEF Pass
    <3>2. CASE left # 1
      BY <2>2, <3>2 DEF Pass
    <3> QED
      BY <3>1, <3>2
  <2>3. CASE Check
    BY <2>3 DEF Check
  <2>4. CASE SendPing
    BY <2>4 DEF SendPing
  <2>5. CASE Stop \/ Finish
    BY <2>5 DEF Stop, Finish
  <2>6. CASE UNCHANGED vars
    BY <2>6 DEF vars
  <2> QED
    BY <2>1, <2>2, <2>3, <2>4, <2>5, <2>6 DEF Next
<1> QED
  BY <1>1, <1>2, PTL DEF Spec

\* The client waits less than two intervals and the lag for the next byte.
THEOREM SilenceIsBounded == Spec => []SilenceBounded
<1>1. IInv => SilenceBounded
  BY KeepaliveAssumption DEF KeepaliveAssumption, IInv, TypeOK, Budget, SilenceBounded, Alive
<1> QED
  BY <1>1, BudgetKept, PTL

\* A client that gives up later than that is never lost to silence.
THEOREM StreamIsKeptAlive == Spec => []NeverDropped
<1>1. IInv => NeverDropped
  BY KeepaliveAssumption
     DEF KeepaliveAssumption, IInv, TypeOK, Budget, NeverDropped, Alive
<1> QED
  BY <1>1, BudgetKept, PTL
=============================================================================
