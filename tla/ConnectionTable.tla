--------------------------- MODULE ConnectionTable ---------------------------
(***************************************************************************)
(* active_connections of geo_sidecar/src/main.rs: a DashMap from           *)
(* connection id to the SystemTime of registration.  The TCP and Unix      *)
(* accept loops and the periodic task share one tokio task (select!), so   *)
(* an accept (limit check, insert, spawn) and a sweep (retain) are each     *)
(* one step.  Every accepted connection is its own task, which removes its *)
(* id when handle_connection returns.  The system clock may step back when *)
(* ClockStepsBack holds.                                                   *)
(***************************************************************************)
EXTENDS Integers, FiniteSets, TLC

CONSTANTS Tasks,          \* connections the listeners may accept
          Peers,          \* TCP peer addresses (ip:port)
          MaxConns,       \* args.max_connections
          MaxAge,         \* the 300 s retention window, in clock ticks
          MaxTime,        \* last clock value
          ClockStepsBack, \* whether the system clock may move backwards
          Epoch           \* the clock value of 1970-01-01 (UNIX_EPOCH)

VARIABLES clock,  \* SystemTime::now(); also the microsecond of Unix ids
          conns,  \* active_connections: id -> registration time
          st,     \* per task: "free", "live", "closed", "done" or "rejected"
          tid,    \* per task: its connection_id
          swept   \* ghost: tasks whose record the sweep removed

vars == <<clock, conns, st, tid, swept>>

Times == 0..MaxTime
Ids == ({"tcp"} \X Peers) \cup ({"unix"} \X Times)
NoId == <<"none", 0>>

\* Tasks whose handle_connection has not yet returned.
Running == {k \in Tasks : st[k] \in {"live", "closed"}}

\* The retain closure: duration_since(connected_at) is Ok and under 300 s.
Keep(at) == clock >= at /\ clock - at < MaxAge

\* One accepted connection with id: the limit check, then insert and spawn.
Accept(k, id) ==
  /\ st[k] = "free"
  /\ IF Cardinality(DOMAIN conns) >= MaxConns
     THEN /\ st' = [st EXCEPT ![k] = "rejected"]
          /\ UNCHANGED <<conns, tid>>
     ELSE /\ conns' = (id :> clock) @@ conns
          /\ st' = [st EXCEPT ![k] = "live"]
          /\ tid' = [tid EXCEPT ![k] = id]
  /\ UNCHANGED <<clock, swept>>

\* Mutant of End: the task returns without removing its record.
EndNoRemove(k) ==
  /\ st[k] = "closed"
  /\ st' = [st EXCEPT ![k] = "done"]
  /\ UNCHANGED <<clock, conns, tid, swept>>

Init ==
  /\ clock \in Times
  /\ conns = [i \in {} |-> 0]
  /\ st = [k \in Tasks |-> "free"]
  /\ tid = [k \in Tasks |-> NoId]
  /\ swept = {}

\* TCP accept: the id is "tcp:" + peer address.  A peer address is in use
\* by at most one open socket; a task whose peer has closed may still be
\* running.
AcceptTcp(k) ==
  \E p \in Peers :
    /\ \A j \in Tasks : st[j] = "live" => tid[j] # <<"tcp", p>>
    /\ Accept(k, <<"tcp", p>>)

\* Unix accept: the id is "unix:" + the current microsecond since the
\* epoch.  Before the epoch current_timestamp_micros panics instead (the
\* process ends; see Sidecar), so no Unix connection is registered then.
AcceptUnix(k) == clock >= Epoch /\ Accept(k, <<"unix", clock>>)

\* The peer closes, or a read or framing error occurs: handle_connection
\* is about to return Err.
Disconnect(k) ==
  /\ st[k] = "live"
  /\ st' = [st EXCEPT ![k] = "closed"]
  /\ UNCHANGED <<clock, conns, tid, swept>>

\* The spawned task removes its connection_id.
End(k) ==
  /\ st[k] = "closed"
  /\ conns' = [i \in DOMAIN conns \ {tid[k]} |-> conns[i]]
  /\ st' = [st EXCEPT ![k] = "done"]
  /\ UNCHANGED <<clock, tid, swept>>

\* The periodic task's retain.
Sweep ==
  LET kept == {i \in DOMAIN conns : Keep(conns[i])}
  IN  /\ conns' = [i \in kept |-> conns[i]]
      /\ swept' = swept \cup {k \in Running : tid[k] \in DOMAIN conns \ kept}
      /\ UNCHANGED <<clock, st, tid>>

Tick ==
  /\ clock' \in IF ClockStepsBack THEN Times \ {clock}
                ELSE {c \in Times : c = clock + 1}
  /\ UNCHANGED <<conns, st, tid, swept>>

Next ==
  \/ Tick \/ Sweep
  \/ \E k \in Tasks :
       AcceptTcp(k) \/ AcceptUnix(k) \/ Disconnect(k) \/ End(k)

Spec == Init /\ [][Next]_vars

-----------------------------------------------------------------------------
TypeOK ==
  /\ clock \in Times
  /\ DOMAIN conns \subseteq Ids /\ \A i \in DOMAIN conns : conns[i] \in Times
  /\ st \in [Tasks -> {"free", "live", "closed", "done", "rejected"}]
  /\ tid \in [Tasks -> Ids \cup {NoId}]
  /\ swept \subseteq Tasks

\* Spec 4.3 and 7 (accounting reclaimed on disconnect): every record in
\* active_connections belongs to a connection whose task is still running,
\* so records never leak and ended connections never count against the
\* limit checked at accept.
RecordsOnlyForRunning ==
  \A i \in DOMAIN conns : \E k \in Running : tid[k] = i

\* Spec 4.3 (register under a unique id) and 7 (errors never cross a
\* connection boundary): a running connection keeps its record until the
\* sweep reclaims it; no other connection's accept or end removes it.
AccountingIsolated ==
  \A k \in Running : k \notin swept => tid[k] \in DOMAIN conns

\* Spec 4.3: the sweep removes only entries older than the retention window
\* measured from registration time.  Not part of a standing run: with a
\* forward clock it restates Keep, and with ClockStepsBack TRUE TLC finds
\* it violated (duration_since errs for a record from the future and
\* map_or(false) drops it; README, Findings).
SweepOnlyExpired ==
  [][Sweep => \A i \in DOMAIN conns \ DOMAIN conns' :
                 clock - conns[i] >= MaxAge]_vars
=============================================================================
