------------------------------- MODULE Metrics -------------------------------
(***************************************************************************)
(* MetricsCollector (metrics.rs): six AtomicU64 counters updated with      *)
(* Relaxed fetch_add and compare_exchange_weak retry loops by every        *)
(* connection task (record_request), and read field by field by the       *)
(* periodic metrics task (get_snapshot).                                   *)
(*                                                                         *)
(* Every atomic operation is one step; the steps of one record_request    *)
(* are the statements of the function in order. Relaxed ordering is sound *)
(* to model as sequentially consistent here because each property below   *)
(* reads only per-location histories (every atomic is its own location).  *)
(***************************************************************************)
EXTENDS Integers, Sequences, FiniteSets, FiniteSetsExt

CONSTANTS
  Recorders,    \* connection tasks calling record_request
  Latencies,    \* latency_micros values a request can take
  U64Max,       \* stands for u64::MAX, the "no data" value of the minimum
  MaxRequests,  \* requests each recorder makes
  MaxResets     \* calls of reset

ASSUME \A l \in Latencies : l \in Nat /\ l < U64Max

VARIABLES
  total, successful, failed, sumLat, minLat, maxLat,   \* the atomics
  pc,         \* program counter of each recorder
  lat, ok,    \* arguments of the record_request in progress
  cur,        \* current_min / current_max of the retry loop
  nreq,       \* requests each recorder has made
  spc, snap,  \* the snapshot task: its step and the values loaded so far
  doneLats, doneOk, doneFail, doneSum,  \* calls returned since the last reset began
  rpc,        \* reset: the stores done so far, 0 when no reset is running
  nres,       \* resets begun
  clean,      \* per recorder: its call began with no reset running or since
  cleanLats, cleanOk, cleanFail, cleanSum  \* returned calls that were clean

resetVars == <<rpc, nres, clean, cleanLats, cleanOk, cleanFail, cleanSum>>

vars == <<total, successful, failed, sumLat, minLat, maxLat, pc, lat, ok,
          cur, nreq, spc, snap, doneLats, doneOk, doneFail, doneSum, resetVars>>

Counters == {"total", "successful", "failed", "sum", "min", "max"}

(***************************************************************************)
(* Faulty variants (plausible bugs); each must make a property fail.      *)
(***************************************************************************)

\* min update as load-then-store, without compare_exchange.
CasMinSucceedBlind(r) ==
  /\ pc[r] = "cas_min"
  /\ lat[r] < cur[r]
  /\ minLat' = lat[r]
  /\ pc' = [pc EXCEPT ![r] = "load_max"]
  /\ UNCHANGED <<total, successful, failed, sumLat, maxLat, lat, ok, cur, nreq,
                 spc, snap, doneLats, doneOk, doneFail, doneSum>>
  /\ UNCHANGED resetVars

\* MetricsCollector::new with the minimum starting at 0 instead of u64::MAX.
InitMinZero ==
  /\ total = 0 /\ successful = 0 /\ failed = 0 /\ sumLat = 0
  /\ minLat = 0 /\ maxLat = 0
  /\ pc = [r \in Recorders |-> "idle"]
  /\ lat = [r \in Recorders |-> 0]
  /\ ok = [r \in Recorders |-> FALSE]
  /\ cur = [r \in Recorders |-> 0]
  /\ nreq = [r \in Recorders |-> 0]
  /\ spc = 0
  /\ snap = [c \in Counters |-> 0]
  /\ doneLats = {} /\ doneOk = 0 /\ doneFail = 0 /\ doneSum = 0
  /\ rpc = 0 /\ nres = 0
  /\ clean = [r \in Recorders |-> FALSE]
  /\ cleanLats = {} /\ cleanOk = 0 /\ cleanFail = 0 /\ cleanSum = 0

(***************************************************************************)
(* MetricsCollector::new.                                                  *)
(***************************************************************************)
Init ==
  /\ total = 0 /\ successful = 0 /\ failed = 0 /\ sumLat = 0
  /\ minLat = U64Max /\ maxLat = 0
  /\ pc = [r \in Recorders |-> "idle"]
  /\ lat = [r \in Recorders |-> 0]
  /\ ok = [r \in Recorders |-> FALSE]
  /\ cur = [r \in Recorders |-> 0]
  /\ nreq = [r \in Recorders |-> 0]
  /\ spc = 0
  /\ snap = [c \in Counters |-> 0]
  /\ doneLats = {} /\ doneOk = 0 /\ doneFail = 0 /\ doneSum = 0
  /\ rpc = 0 /\ nres = 0
  /\ clean = [r \in Recorders |-> FALSE]
  /\ cleanLats = {} /\ cleanOk = 0 /\ cleanFail = 0 /\ cleanSum = 0

(***************************************************************************)
(* record_request(latency_micros, success).                                *)
(***************************************************************************)

\* A request has been answered; handle_connection calls record_request.
Begin(r) ==
  /\ pc[r] = "idle"
  /\ nreq[r] < MaxRequests
  /\ \E l \in Latencies, s \in BOOLEAN :
        lat' = [lat EXCEPT ![r] = l] /\ ok' = [ok EXCEPT ![r] = s]
  /\ nreq' = [nreq EXCEPT ![r] = @ + 1]
  /\ pc' = [pc EXCEPT ![r] = "total"]
  /\ clean' = [clean EXCEPT ![r] = (rpc = 0)]
  /\ UNCHANGED <<total, successful, failed, sumLat, minLat, maxLat, cur, spc,
                 snap, doneLats, doneOk, doneFail, doneSum, rpc, nres,
                 cleanLats, cleanOk, cleanFail, cleanSum>>

\* total_requests.fetch_add(1)
AddTotal(r) ==
  /\ pc[r] = "total"
  /\ total' = total + 1
  /\ pc' = [pc EXCEPT ![r] = "sum"]
  /\ UNCHANGED <<successful, failed, sumLat, minLat, maxLat, lat, ok, cur, nreq,
                 spc, snap, doneLats, doneOk, doneFail, doneSum>>
  /\ UNCHANGED resetVars

\* total_latency_micros.fetch_add(latency_micros)
AddLatency(r) ==
  /\ pc[r] = "sum"
  /\ sumLat' = sumLat + lat[r]
  /\ pc' = [pc EXCEPT ![r] = "outcome"]
  /\ UNCHANGED <<total, successful, failed, minLat, maxLat, lat, ok, cur, nreq,
                 spc, snap, doneLats, doneOk, doneFail, doneSum>>
  /\ UNCHANGED resetVars

\* successful_requests or failed_requests .fetch_add(1)
CountOutcome(r) ==
  /\ pc[r] = "outcome"
  /\ IF ok[r] THEN successful' = successful + 1 /\ UNCHANGED failed
              ELSE failed' = failed + 1 /\ UNCHANGED successful
  /\ pc' = [pc EXCEPT ![r] = "load_min"]
  /\ UNCHANGED <<total, sumLat, minLat, maxLat, lat, ok, cur, nreq,
                 spc, snap, doneLats, doneOk, doneFail, doneSum>>
  /\ UNCHANGED resetVars

\* let mut current_min = min_latency_micros.load()
LoadMin(r) ==
  /\ pc[r] = "load_min"
  /\ cur' = [cur EXCEPT ![r] = minLat]
  /\ pc' = [pc EXCEPT ![r] = "cas_min"]
  /\ UNCHANGED <<total, successful, failed, sumLat, minLat, maxLat, lat, ok, nreq,
                 spc, snap, doneLats, doneOk, doneFail, doneSum>>
  /\ UNCHANGED resetVars

\* while latency < current_min: compare_exchange_weak succeeds -> break.
CasMinSucceed(r) ==
  /\ pc[r] = "cas_min"
  /\ lat[r] < cur[r]
  /\ minLat = cur[r]
  /\ minLat' = lat[r]
  /\ pc' = [pc EXCEPT ![r] = "load_max"]
  /\ UNCHANGED <<total, successful, failed, sumLat, maxLat, lat, ok, cur, nreq,
                 spc, snap, doneLats, doneOk, doneFail, doneSum>>
  /\ UNCHANGED resetVars

\* compare_exchange_weak fails (a changed value, or spuriously): Err(actual)
\* becomes current_min and the loop condition is tested again.
CasMinFail(r) ==
  /\ pc[r] = "cas_min"
  /\ lat[r] < cur[r]
  /\ cur' = [cur EXCEPT ![r] = minLat]
  /\ UNCHANGED <<total, successful, failed, sumLat, minLat, maxLat, lat, ok, pc,
                 nreq, spc, snap, doneLats, doneOk, doneFail, doneSum>>
  /\ UNCHANGED resetVars

\* The loop condition fails: the stored minimum is not beaten.
MinDone(r) ==
  /\ pc[r] = "cas_min"
  /\ ~(lat[r] < cur[r])
  /\ pc' = [pc EXCEPT ![r] = "load_max"]
  /\ UNCHANGED <<total, successful, failed, sumLat, minLat, maxLat, lat, ok, cur,
                 nreq, spc, snap, doneLats, doneOk, doneFail, doneSum>>
  /\ UNCHANGED resetVars

\* let mut current_max = max_latency_micros.load()
LoadMax(r) ==
  /\ pc[r] = "load_max"
  /\ cur' = [cur EXCEPT ![r] = maxLat]
  /\ pc' = [pc EXCEPT ![r] = "cas_max"]
  /\ UNCHANGED <<total, successful, failed, sumLat, minLat, maxLat, lat, ok, nreq,
                 spc, snap, doneLats, doneOk, doneFail, doneSum>>
  /\ UNCHANGED resetVars

\* while latency > current_max: compare_exchange_weak succeeds -> break.
\* record_request then returns.
CasMaxSucceed(r) ==
  /\ pc[r] = "cas_max"
  /\ lat[r] > cur[r]
  /\ maxLat = cur[r]
  /\ maxLat' = lat[r]
  /\ pc' = [pc EXCEPT ![r] = "return"]
  /\ UNCHANGED <<total, successful, failed, sumLat, minLat, lat, ok, cur, nreq,
                 spc, snap, doneLats, doneOk, doneFail, doneSum>>
  /\ UNCHANGED resetVars

CasMaxFail(r) ==
  /\ pc[r] = "cas_max"
  /\ lat[r] > cur[r]
  /\ cur' = [cur EXCEPT ![r] = maxLat]
  /\ UNCHANGED <<total, successful, failed, sumLat, minLat, maxLat, lat, ok, pc,
                 nreq, spc, snap, doneLats, doneOk, doneFail, doneSum>>
  /\ UNCHANGED resetVars

MaxDone(r) ==
  /\ pc[r] = "cas_max"
  /\ ~(lat[r] > cur[r])
  /\ pc' = [pc EXCEPT ![r] = "return"]
  /\ UNCHANGED <<total, successful, failed, sumLat, minLat, maxLat, lat, ok, cur,
                 nreq, spc, snap, doneLats, doneOk, doneFail, doneSum>>
  /\ UNCHANGED resetVars

\* record_request has returned: the call enters the history.
Return(r) ==
  /\ pc[r] = "return"
  /\ pc' = [pc EXCEPT ![r] = "idle"]
  /\ doneLats' = doneLats \cup {lat[r]}
  /\ doneSum' = doneSum + lat[r]
  /\ IF ok[r] THEN doneOk' = doneOk + 1 /\ UNCHANGED doneFail
              ELSE doneFail' = doneFail + 1 /\ UNCHANGED doneOk
  /\ lat' = [lat EXCEPT ![r] = 0]
  /\ ok' = [ok EXCEPT ![r] = FALSE]
  /\ cur' = [cur EXCEPT ![r] = 0]
  /\ IF clean[r]
     THEN /\ cleanLats' = cleanLats \cup {lat[r]}
          /\ cleanSum' = cleanSum + lat[r]
          /\ cleanOk' = cleanOk + (IF ok[r] THEN 1 ELSE 0)
          /\ cleanFail' = cleanFail + (IF ok[r] THEN 0 ELSE 1)
     ELSE UNCHANGED <<cleanLats, cleanSum, cleanOk, cleanFail>>
  /\ UNCHANGED <<total, successful, failed, sumLat, minLat, maxLat, nreq, spc, snap,
                 rpc, nres, clean>>

(***************************************************************************)
(* get_snapshot, run by the periodic metrics task: six Relaxed loads in   *)
(* the order of the source, one step each.                                 *)
(***************************************************************************)

SnapOrder == <<"total", "successful", "failed", "sum", "min", "max">>

AtomicValue(c) ==
  CASE c = "total" -> total [] c = "successful" -> successful
    [] c = "failed" -> failed [] c = "sum" -> sumLat
    [] c = "min" -> minLat [] c = "max" -> maxLat

\* The next load of get_snapshot (spc loads done so far).
SnapLoad ==
  /\ spc < Len(SnapOrder)
  /\ snap' = [snap EXCEPT ![SnapOrder[spc + 1]] = AtomicValue(SnapOrder[spc + 1])]
  /\ spc' = spc + 1
  /\ UNCHANGED <<total, successful, failed, sumLat, minLat, maxLat, pc, lat, ok,
                 cur, nreq, doneLats, doneOk, doneFail, doneSum>>
  /\ UNCHANGED resetVars

\* get_snapshot returns; the task logs the snapshot, drops it and waits
\* for the next tick.
SnapReturn ==
  /\ spc = Len(SnapOrder)
  /\ spc' = 0
  /\ snap' = [c \in Counters |-> 0]
  /\ UNCHANGED <<total, successful, failed, sumLat, minLat, maxLat, pc, lat, ok,
                 cur, nreq, doneLats, doneOk, doneFail, doneSum>>
  /\ UNCHANGED resetVars

\* The values get_snapshot reports from the loaded ones: the sentinel
\* minimum becomes 0. The average is snap.sum / snap.total (0 if total is
\* 0); properties compare it by cross-multiplying.
ReportedMin == IF snap["min"] = U64Max THEN 0 ELSE snap["min"]

(***************************************************************************)
(* reset(): six Relaxed stores, in the order of get_snapshot's loads.     *)
(* MetricsCollector is exported by the crate (lib.rs), so any holder of   *)
(* the Arc may call it while connection tasks record.  The ghost          *)
(* histories restart when a reset begins.                                  *)
(***************************************************************************)

\* Atomic store of v into the counter named c.
Store(c, v) ==
  /\ total' = IF c = "total" THEN v ELSE total
  /\ successful' = IF c = "successful" THEN v ELSE successful
  /\ failed' = IF c = "failed" THEN v ELSE failed
  /\ sumLat' = IF c = "sum" THEN v ELSE sumLat
  /\ minLat' = IF c = "min" THEN v ELSE minLat
  /\ maxLat' = IF c = "max" THEN v ELSE maxLat

\* Mutant of ResetValue: every counter stored as 0, the minimum included.
ResetValueZero(c) == 0

\* The value reset() stores: u64::MAX for the minimum, 0 for the rest.
ResetValue(c) == IF c = "min" THEN U64Max ELSE 0

\* reset() is called and performs its first store.
ResetBegin ==
  /\ rpc = 0 /\ nres < MaxResets
  /\ Store(SnapOrder[1], ResetValue(SnapOrder[1]))
  /\ rpc' = 1 /\ nres' = nres + 1
  /\ clean' = [r \in Recorders |-> FALSE]
  /\ doneLats' = {} /\ doneOk' = 0 /\ doneFail' = 0 /\ doneSum' = 0
  /\ cleanLats' = {} /\ cleanOk' = 0 /\ cleanFail' = 0 /\ cleanSum' = 0
  /\ UNCHANGED <<pc, lat, ok, cur, nreq, spc, snap>>

\* Its next store; after the sixth, reset() returns.
ResetStore ==
  /\ rpc \in 1..(Len(SnapOrder) - 1)
  /\ Store(SnapOrder[rpc + 1], ResetValue(SnapOrder[rpc + 1]))
  /\ rpc' = (rpc + 1) % Len(SnapOrder)
  /\ UNCHANGED <<pc, lat, ok, cur, nreq, spc, snap, doneLats, doneOk, doneFail,
                 doneSum, nres, clean, cleanLats, cleanOk, cleanFail, cleanSum>>

(***************************************************************************)
(* Specification.                                                          *)
(***************************************************************************)
Next ==
  \/ \E r \in Recorders :
       \/ Begin(r) \/ AddTotal(r) \/ AddLatency(r) \/ CountOutcome(r)
       \/ LoadMin(r) \/ CasMinSucceed(r) \/ CasMinFail(r) \/ MinDone(r)
       \/ LoadMax(r) \/ CasMaxSucceed(r) \/ CasMaxFail(r) \/ MaxDone(r)
       \/ Return(r)
  \/ SnapLoad \/ SnapReturn
  \/ ResetBegin \/ ResetStore

Spec == Init /\ [][Next]_vars

(***************************************************************************)
(* Properties.                                                             *)
(***************************************************************************)

TypeOK ==
  /\ {total, successful, failed, sumLat, maxLat} \subseteq Nat
  /\ minLat \in Latencies \cup {U64Max}
  /\ pc \in [Recorders -> {"idle", "total", "sum", "outcome", "load_min",
                           "cas_min", "load_max", "cas_max", "return"}]
  /\ spc \in 0..Len(SnapOrder)
  /\ rpc \in 0..(Len(SnapOrder) - 1) /\ nres \in 0..MaxResets
  /\ clean \in [Recorders -> BOOLEAN] /\ cleanLats \subseteq doneLats

\* Lost-update freedom of the min/max retry loops (spec 4.4): in every
\* state, however the recorders interleave, the stored minimum is at most
\* and the stored maximum at least the latency of every call that returned
\* and ran entirely after the last reset() (before any reset, every call).
NoLostExtremum ==
  \A l \in cleanLats : minLat <= l /\ maxLat >= l

\* Spec section 8, metrics monotonicity, and what reset() keeps of it.
\* Whenever no record_request and no reset is in flight, each counter lies
\* between what the calls that ran wholly after the last reset contributed
\* and what the calls that returned after it began contributed, and the
\* minimum and maximum are latencies of the latter (or the sentinels).  A
\* call overlapping a reset may be counted in part: in total but in neither
\* successful nor failed, say.  With no reset both bounds meet, and the
\* counters equal the history exactly.
QuiescentAccounted ==
  (rpc = 0 /\ \A r \in Recorders : pc[r] = "idle") =>
    /\ cleanOk + cleanFail <= total /\ total <= doneOk + doneFail
    /\ cleanOk <= successful /\ successful <= doneOk
    /\ cleanFail <= failed /\ failed <= doneFail
    /\ cleanSum <= sumLat /\ sumLat <= doneSum
    /\ minLat \in doneLats \cup {U64Max}
    /\ maxLat \in doneLats \cup {0}

\* A completed snapshot reports an average latency between the reported
\* minimum and maximum (section 4.4: average = cumulative sum / total).
SnapshotAvgInRange ==
  (spc = Len(SnapOrder) /\ snap["total"] > 0) =>
    /\ ReportedMin * snap["total"] <= snap["sum"]
    /\ snap["sum"] <= snap["max"] * snap["total"]
=============================================================================
