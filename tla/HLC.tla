-------------------------------- MODULE HLC ---------------------------------
(***************************************************************************)
(* HybridLogicalClock of hlc/src/lib.rs, shared by the threads that call   *)
(* hlc_now / hlc_update through the C API.  Each call is split into the    *)
(* atomic loads, stores and fetch_adds the code performs on its two         *)
(* AtomicU64s (SeqCst), so the threads interleave between them.  The       *)
(* system clock read by get_physical_time may step forwards or back.       *)
(* Logical arithmetic wraps at LogicalMax, as u64 does in a release build. *)
(***************************************************************************)
EXTENDS Integers, FiniteSets, SequencesExt

CONSTANTS Threads,      \* threads sharing one clock
          MaxPhys,      \* largest nanosecond value the system clock shows
          LogicalMax,   \* u64::MAX of the logical counter
          Remotes,      \* remote timestamps passed to update, <<phys, log>>
          MaxCalls,     \* calls per thread
          NoTs          \* no timestamp returned yet

VARIABLES clock,            \* SystemTime::now(), nanoseconds from the epoch
          last_physical,    \* the AtomicU64 last_physical
          logical_counter,  \* the AtomicU64 logical_counter
          pc, pn, lp, cur, remote,  \* per-call locals
          ret,              \* timestamp returned by each thread's last call
          issued,           \* every timestamp returned so far
          floor,            \* timestamps returned before the current call began
          calls

vars == <<clock, last_physical, logical_counter, pc, pn, lp, cur, remote,
          ret, issued, floor, calls>>

Phys == 0..MaxPhys
SysTimes == -1..MaxPhys    \* -1: a system time before the epoch
Logical == 0..LogicalMax
Ts == Phys \X Logical

\* u64 addition as a release build performs it.
Wrap(x) == x % (LogicalMax + 1)

\* HLCTimestamp::compare: physical first, then logical.
TsLess(a, b) == a[1] < b[1] \/ (a[1] = b[1] /\ a[2] < b[2])

\* get_physical_time: duration_since(UNIX_EPOCH).unwrap_or_default().
PhysicalTime(c) == IF c < 0 THEN 0 ELSE c

MaxOf(a, b) == IF a >= b THEN a ELSE b

\* hlc_timestamp_compare: -1, 0 or 1.
CCompare(a, b) == IF TsLess(a, b) THEN -1 ELSE IF a = b THEN 0 ELSE 1

\* u64::to_le_bytes, for the k low-order bytes of n.
RECURSIVE LeBytes(_, _)
LeBytes(n, k) == IF k = 0 THEN <<>> ELSE <<n % 256>> \o LeBytes(n \div 256, k - 1)

\* u64::from_le_bytes.
FromLeBytes(b) == FoldRight(LAMBDA x, acc : acc * 256 + x, b, 0)

\* HLCTimestamp::to_bytes (hlc_timestamp_to_bytes copies the 16 bytes out):
\* physical then logical, each little-endian.
ToBytes(ts) == LeBytes(ts[1], 8) \o LeBytes(ts[2], 8)

\* Mutant of FromBytes: the two halves read in the wrong order.
FromBytesSwapped(b) == <<FromLeBytes(SubSeq(b, 9, 16)), FromLeBytes(SubSeq(b, 1, 8))>>

\* HLCTimestamp::from_bytes (hlc_timestamp_from_bytes copies 16 bytes in).
FromBytes(b) == <<FromLeBytes(SubSeq(b, 1, 8)), FromLeBytes(SubSeq(b, 9, 16))>>

\* A call returns ts: the thread goes idle and the timestamp is recorded.
Finish(t, ts) ==
  /\ pc' = [pc EXCEPT ![t] = "idle"]
  /\ ret' = [ret EXCEPT ![t] = ts]
  /\ issued' = issued \cup {ts}

\* Mutants: plausible slips in the code each definition below translates.
\* now() resets the counter when physical time merely has not gone back.
NowLoadGe(t) ==
  /\ pc[t] = "now_load"
  /\ lp' = [lp EXCEPT ![t] = last_physical]
  /\ pc' = [pc EXCEPT ![t] = IF pn[t] >= last_physical THEN "now_store_p"
                                                       ELSE "now_fetch"]
  /\ UNCHANGED <<clock, last_physical, logical_counter, pn, cur, remote,
                 ret, issued, floor, calls>>

\* update() adopts the remote logical value without the + 1.
UpdStoreLogicalNoIncrement(t) ==
  LET l == IF pn[t] = remote[t][1] THEN remote[t][2] ELSE 0
  IN  /\ pc[t] = "upd_store_l"
      /\ logical_counter' = l
      /\ Finish(t, <<pn[t], l>>)
      /\ UNCHANGED <<clock, last_physical, pn, lp, cur, remote, floor, calls>>

\* update() storing the system time it reads again, not max_physical.
UpdStorePhysicalNow(t) ==
  /\ pc[t] = "upd_store_p"
  /\ last_physical' = PhysicalTime(clock)
  /\ pc' = [pc EXCEPT ![t] = "upd_store_l"]
  /\ UNCHANGED <<clock, logical_counter, pn, lp, cur, remote, ret, issued,
                 floor, calls>>

Init ==
  /\ clock \in SysTimes
  /\ last_physical = 0
  /\ logical_counter = 0
  /\ pc = [t \in Threads |-> "idle"]
  /\ pn = [t \in Threads |-> 0]
  /\ lp = [t \in Threads |-> 0]
  /\ cur = [t \in Threads |-> 0]
  /\ remote = [t \in Threads |-> NoTs]
  /\ ret = [t \in Threads |-> NoTs]
  /\ issued = {}
  /\ floor = [t \in Threads |-> {}]
  /\ calls = [t \in Threads |-> 0]

\* The system clock moves, forwards or (NTP, manual change) back.
Tick ==
  /\ clock' \in SysTimes \ {clock}
  /\ UNCHANGED <<last_physical, logical_counter, pc, pn, lp, cur, remote,
                 ret, issued, floor, calls>>

\* Start of a call: read the physical time.
Begin(t) ==
  /\ pc[t] = "idle" /\ calls[t] < MaxCalls
  /\ calls' = [calls EXCEPT ![t] = @ + 1]
  /\ floor' = [floor EXCEPT ![t] = issued]

-----------------------------------------------------------------------------
(* now()                                                                   *)

NowBegin(t) ==
  /\ Begin(t)
  /\ pn' = [pn EXCEPT ![t] = PhysicalTime(clock)]
  /\ remote' = [remote EXCEPT ![t] = NoTs]
  /\ pc' = [pc EXCEPT ![t] = "now_load"]
  /\ UNCHANGED <<clock, last_physical, logical_counter, lp, cur, ret, issued>>

NowLoad(t) ==
  /\ pc[t] = "now_load"
  /\ lp' = [lp EXCEPT ![t] = last_physical]
  /\ pc' = [pc EXCEPT ![t] = IF pn[t] > last_physical THEN "now_store_p"
                                                      ELSE "now_fetch"]
  /\ UNCHANGED <<clock, last_physical, logical_counter, pn, cur, remote,
                 ret, issued, floor, calls>>

NowStorePhysical(t) ==
  /\ pc[t] = "now_store_p"
  /\ last_physical' = pn[t]
  /\ pc' = [pc EXCEPT ![t] = "now_store_l"]
  /\ UNCHANGED <<clock, logical_counter, pn, lp, cur, remote, ret, issued,
                 floor, calls>>

NowStoreLogical(t) ==
  /\ pc[t] = "now_store_l"
  /\ logical_counter' = 0
  /\ Finish(t, <<pn[t], 0>>)
  /\ UNCHANGED <<clock, last_physical, pn, lp, cur, remote, floor, calls>>

NowFetchAdd(t) ==
  /\ pc[t] = "now_fetch"
  /\ logical_counter' = Wrap(logical_counter + 1)
  /\ Finish(t, <<lp[t], Wrap(logical_counter + 1)>>)
  /\ UNCHANGED <<clock, last_physical, pn, lp, cur, remote, floor, calls>>

-----------------------------------------------------------------------------
(* update(remote_ts)                                                        *)

\* pn holds max_physical = max(physical_now, remote_ts.physical).
UpdBegin(t) ==
  /\ Begin(t)
  /\ \E r \in Remotes :
       /\ remote' = [remote EXCEPT ![t] = r]
       /\ pn' = [pn EXCEPT ![t] = MaxOf(PhysicalTime(clock), r[1])]
  /\ pc' = [pc EXCEPT ![t] = "upd_load"]
  /\ UNCHANGED <<clock, last_physical, logical_counter, lp, cur, ret, issued>>

UpdLoad(t) ==
  /\ pc[t] = "upd_load"
  /\ lp' = [lp EXCEPT ![t] = last_physical]
  /\ pc' = [pc EXCEPT ![t] =
              IF pn[t] > last_physical THEN "upd_store_p"
              ELSE IF last_physical = remote[t][1] THEN "upd_load_l"
              ELSE "upd_fetch"]
  /\ UNCHANGED <<clock, last_physical, logical_counter, pn, cur, remote,
                 ret, issued, floor, calls>>

UpdStorePhysical(t) ==
  /\ pc[t] = "upd_store_p"
  /\ last_physical' = pn[t]
  /\ pc' = [pc EXCEPT ![t] = "upd_store_l"]
  /\ UNCHANGED <<clock, logical_counter, pn, lp, cur, remote, ret, issued,
                 floor, calls>>

UpdStoreLogical(t) ==
  LET l == IF pn[t] = remote[t][1] THEN Wrap(remote[t][2] + 1) ELSE 0
  IN  /\ pc[t] = "upd_store_l"
      /\ logical_counter' = l
      /\ Finish(t, <<pn[t], l>>)
      /\ UNCHANGED <<clock, last_physical, pn, lp, cur, remote, floor, calls>>

UpdLoadLogical(t) ==
  /\ pc[t] = "upd_load_l"
  /\ cur' = [cur EXCEPT ![t] = logical_counter]
  /\ pc' = [pc EXCEPT ![t] = "upd_store_max"]
  /\ UNCHANGED <<clock, last_physical, logical_counter, pn, lp, remote,
                 ret, issued, floor, calls>>

UpdStoreMax(t) ==
  LET l == Wrap(MaxOf(cur[t], remote[t][2]) + 1)
  IN  /\ pc[t] = "upd_store_max"
      /\ logical_counter' = l
      /\ Finish(t, <<lp[t], l>>)
      /\ UNCHANGED <<clock, last_physical, pn, lp, cur, remote, floor, calls>>

UpdFetchAdd(t) ==
  /\ pc[t] = "upd_fetch"
  /\ logical_counter' = Wrap(logical_counter + 1)
  /\ Finish(t, <<lp[t], Wrap(logical_counter + 1)>>)
  /\ UNCHANGED <<clock, last_physical, pn, lp, cur, remote, floor, calls>>

-----------------------------------------------------------------------------
Next ==
  \/ Tick
  \/ \E t \in Threads :
       \/ NowBegin(t) \/ NowLoad(t) \/ NowStorePhysical(t)
       \/ NowStoreLogical(t) \/ NowFetchAdd(t)
       \/ UpdBegin(t) \/ UpdLoad(t) \/ UpdStorePhysical(t)
       \/ UpdStoreLogical(t) \/ UpdLoadLogical(t) \/ UpdStoreMax(t)
       \/ UpdFetchAdd(t)

Spec == Init /\ [][Next]_vars

-----------------------------------------------------------------------------
TypeOK ==
  /\ clock \in SysTimes /\ last_physical \in Phys /\ logical_counter \in Logical
  /\ \A t \in Threads :
       /\ pn[t] \in Phys /\ lp[t] \in Phys
       /\ ret[t] \in Ts \cup {NoTs}
       /\ remote[t] \in Remotes \cup {NoTs}
       /\ cur[t] \in Logical /\ calls[t] \in 0..MaxCalls
  /\ issued \subseteq Ts

\* The test test_hlc_now and the "thread-safe" comment on now(): a call that
\* begins after another call has returned gets a strictly greater
\* timestamp, whichever thread made either call and however the system
\* clock moved in between.
RealTimeMonotonic ==
  \A t \in Threads :
    pc[t] = "idle" /\ ret[t] # NoTs => \A x \in floor[t] : TsLess(x, ret[t])

\* The test test_hlc_update: update(remote_ts) returns a timestamp greater
\* than remote_ts, on every branch of update().
UpdateExceedsRemote ==
  \A t \in Threads :
    pc[t] = "idle" /\ remote[t] # NoTs => TsLess(remote[t], ret[t])

\* test_timestamp_serialization and the C API through which the Cython
\* binding ships timestamps: any two timestamps the clock has issued,
\* written with hlc_timestamp_to_bytes and read back with
\* hlc_timestamp_from_bytes, compare under hlc_timestamp_compare exactly
\* as the originals do.
ExchangedOrderPreserved ==
  \A a, b \in issued :
    CCompare(FromBytes(ToBytes(a)), FromBytes(ToBytes(b))) = CCompare(a, b)

-----------------------------------------------------------------------------
(* Refinement of HLCSpec, for one thread.  The clock's timestamp is the    *)
(* pair of atomics, except between now()'s or update()'s two stores, when *)
(* last_physical already holds the new physical time and the call has not  *)
(* yet taken effect: the old timestamp is then <<lp, logical_counter>>.   *)
(* With two threads no such mapping exists (run hlc_threads).             *)
Storing == {t \in Threads : pc[t] \in {"now_store_l", "upd_store_l"}}

ClockTs ==
  IF Storing = {} THEN <<last_physical, logical_counter>>
  ELSE <<lp[CHOOSE t \in Storing : TRUE], logical_counter>>

Atomic == INSTANCE HLCSpec WITH
            last <- ClockTs,
            busy <- {t \in Threads : pc[t] # "idle"},
            bound <- pn,
            arg <- remote

\* The module comment's claim that now() and update() follow the hybrid
\* logical clock rule: each call acts as one atomic step that moves the
\* clock to a timestamp above its previous one (and above the remote, for
\* update), whose physical part is the larger of the clock's and the time
\* the call read, never more.  Checked with one thread.
ImplementsAtomicClock == Atomic!Spec
=============================================================================
