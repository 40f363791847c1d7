------------------------------- MODULE Sidecar -------------------------------
(***************************************************************************)
(* GeoRouterSidecar::run of geo_sidecar/src/main.rs: one tokio::select!    *)
(* over the TCP listener, the Unix-socket listener and the periodic        *)
(* metrics task, composed with the connection table they share             *)
(* (ConnectionTable).  Each listener first binds (the Unix one removes a  *)
(* stale socket file first), then loops on accept().await?.  Binding,      *)
(* removing the file and accepting may each fail (address in use, EMFILE,  *)
(* ENFILE); the ? returns the error from that listener's future.  select!  *)
(* completes with the first future that completes and drops the others;   *)
(* run, then main, returns and the runtime shuts down with every spawned   *)
(* connection task.  The metrics task never returns.                      *)
(***************************************************************************)
EXTENDS Integers, FiniteSets

CONSTANTS Tasks, Peers, MaxConns, MaxAge, MaxTime, ClockStepsBack, Epoch

VARIABLES clock, conns, st, tid, swept,  \* ConnectionTable
          lst,     \* per listener: "bind", "accepting", how it returned, "dropped"
          exited   \* run() has returned: the process is gone

ctVars == <<clock, conns, st, tid, swept>>
vars == <<clock, conns, st, tid, swept, lst, exited>>

CT == INSTANCE ConnectionTable

Listeners == {"tcp", "unix"}

Init ==
  /\ CT!Init
  /\ lst = [l \in Listeners |-> "bind"]
  /\ exited = FALSE

\* TcpListener::bind, or remove_file of a stale socket and UnixListener::bind.
Bind(l) ==
  /\ ~exited /\ lst[l] = "bind"
  /\ lst' = [lst EXCEPT ![l] = "accepting"]
  /\ UNCHANGED <<ctVars, exited>>

\* The listener's future returns Err, recorded as why: select! takes its
\* branch, drops the other futures, and run returns the error.
Return(l, why) ==
  /\ lst' = [m \in Listeners |-> IF m = l THEN why ELSE "dropped"]
  /\ exited' = TRUE
  /\ UNCHANGED ctVars

\* bind (or remove_file) fails: the service does not come up.
BindFail(l) == ~exited /\ lst[l] = "bind" /\ Return(l, "bind_failed")

\* listener.accept().await? fails on a listener that is serving.
AcceptFail(l) == ~exited /\ lst[l] = "accepting" /\ Return(l, "accept_failed")

\* An accept that returns a stream: the listener's loop body.
Accept(k) ==
  /\ ~exited
  /\ \/ lst["tcp"] = "accepting" /\ CT!AcceptTcp(k)
     \/ lst["unix"] = "accepting" /\ CT!AcceptUnix(k)
  /\ UNCHANGED <<lst, exited>>

\* A Unix accept that passes the limit check while the system clock reads
\* before the epoch: current_timestamp_micros unwraps duration_since's Err
\* and panics in run()'s own task, which unwinds main.
UnixPanic ==
  /\ ~exited /\ lst["unix"] = "accepting" /\ clock < Epoch
  /\ \E k \in Tasks : st[k] = "free"
  /\ Cardinality(DOMAIN conns) < MaxConns
  /\ Return("unix", "panicked")

\* A spawned connection task runs until the runtime shuts down.
Connection(k) ==
  /\ ~exited
  /\ CT!Disconnect(k) \/ CT!End(k)
  /\ UNCHANGED <<lst, exited>>

\* The metrics task's retain, on its interval.
Sweep == ~exited /\ CT!Sweep /\ UNCHANGED <<lst, exited>>

\* The system clock keeps moving, whether or not the process runs.
Tick == CT!Tick /\ UNCHANGED <<lst, exited>>

Next ==
  \/ Tick \/ Sweep \/ UnixPanic
  \/ \E l \in Listeners : Bind(l) \/ BindFail(l) \/ AcceptFail(l)
  \/ \E k \in Tasks : Accept(k) \/ Connection(k)

Spec == Init /\ [][Next]_vars

-----------------------------------------------------------------------------
TypeOK ==
  /\ CT!TypeOK
  /\ lst \in [Listeners -> {"bind", "accepting", "bind_failed",
                             "accept_failed", "panicked", "dropped"}]
  /\ exited \in BOOLEAN

\* Spec 4.5 ("accepts connections on two independent transports
\* concurrently") and the process-exit clause ("runs until terminated
\* externally"): once the service is up, an accept error on one
\* transport's listener (an accept error, or a panic while registering a
\* connection) never takes the other transport down with it.
TransportsIndependent ==
  \A l, m \in Listeners :
    lst[l] \in {"accept_failed", "panicked"} => lst[m] # "dropped"
=============================================================================
