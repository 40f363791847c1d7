------------------------------- MODULE HLCSpec -------------------------------
(***************************************************************************)
(* What HybridLogicalClock (hlc/src/lib.rs) promises its callers: the     *)
(* hybrid-logical-clock rule its module comment names ("compatible with    *)
(* CockroachDB's approach"), with every call atomic.  A call reads a       *)
(* physical bound when it starts (the system clock, or for update the     *)
(* larger of it and the remote physical time) and, when it returns, moves  *)
(* the clock to a timestamp that                                           *)
(*   - has as physical part the larger of that bound and the clock's own,  *)
(*     so the clock never runs ahead of the times it has been shown;       *)
(*   - exceeds the clock's previous timestamp, and for update the remote;  *)
(* and returns that timestamp.                                            *)
(***************************************************************************)
EXTENDS Integers

CONSTANTS Threads, MaxPhys, LogicalMax, Remotes, NoTs

VARIABLES clock,   \* the system clock
          last,    \* the clock's timestamp: the last one it issued
          busy,    \* threads inside a call
          bound,   \* per thread: the physical bound its call read
          arg,     \* per thread: the remote timestamp of its update, or NoTs
          ret      \* per thread: what its last call returned

vars == <<clock, last, busy, bound, arg, ret>>

Phys == 0..MaxPhys
SysTimes == -1..MaxPhys
Ts == Phys \X (0..LogicalMax)

Later(a, b) == a[1] < b[1] \/ (a[1] = b[1] /\ a[2] < b[2])
Larger(a, b) == IF a >= b THEN a ELSE b
SinceEpoch(c) == IF c < 0 THEN 0 ELSE c

Init ==
  /\ clock \in SysTimes
  /\ last = <<0, 0>>
  /\ busy = {}
  /\ bound = [t \in Threads |-> 0]
  /\ arg = [t \in Threads |-> NoTs]
  /\ ret = [t \in Threads |-> NoTs]

Tick ==
  /\ clock' \in SysTimes \ {clock}
  /\ UNCHANGED <<last, busy, bound, arg, ret>>

\* now() is called: its bound is the system clock.
CallNow(t) ==
  /\ t \notin busy
  /\ busy' = busy \cup {t}
  /\ bound' = [bound EXCEPT ![t] = SinceEpoch(clock)]
  /\ arg' = [arg EXCEPT ![t] = NoTs]
  /\ UNCHANGED <<clock, last, ret>>

\* update(r) is called: its bound is the later of the clock and r.
CallUpdate(t) ==
  /\ t \notin busy
  /\ busy' = busy \cup {t}
  /\ \E r \in Remotes :
       /\ bound' = [bound EXCEPT ![t] = Larger(SinceEpoch(clock), r[1])]
       /\ arg' = [arg EXCEPT ![t] = r]
  /\ UNCHANGED <<clock, last, ret>>

\* The call takes effect and returns.
Return(t) ==
  /\ t \in busy
  /\ last' \in Ts
  /\ last'[1] = Larger(bound[t], last[1])
  /\ Later(last, last')
  /\ arg[t] # NoTs => Later(arg[t], last')
  /\ ret' = [ret EXCEPT ![t] = last']
  /\ busy' = busy \ {t}
  /\ UNCHANGED <<clock, bound, arg>>

Next ==
  \/ Tick
  \/ \E t \in Threads : CallNow(t) \/ CallUpdate(t) \/ Return(t)

Spec == Init /\ [][Next]_vars
=============================================================================
