-------------------------- MODULE RoutingTableSpec --------------------------
(***************************************************************************)
(* What the routing table promises to its callers (spec sections 3, 4.2,  *)
(* 5): the table is replaced wholesale in one indivisible step, the last  *)
(* occurrence of a node_id in the input wins, and every route request is   *)
(* answered from one complete table with a candidate of minimal score      *)
(* (leaders only for writes), or with the spec's two failures.  The       *)
(* client's location is what section 4.1 promises of resolve: the         *)
(* database's coordinates for an address it locates, the default location  *)
(* otherwise (no database configured, address unknown, lookup error).      *)
(* Each call is tied to its own input: an update installs the table its    *)
(* replica list builds, a route answers for its own client and query.     *)
(* The detailed module RoutingEngine is shown to implement this one.       *)
(***************************************************************************)
EXTENDS Integers, Sequences, SequencesExt

CONSTANTS Nodes, Locs, Distance, Replicas, ClientIps, Database, NoField,
          QueryTypes, Routers, Writers, MaxBatch, NoNode, NoResp

VARIABLES table, resp,
          geo,    \* the database the sidecar started with: <<>> or <<Database>>
          input,  \* per writer: the replica list of its pending update, or NoResp
          ask     \* per router: the [ip, q] of its pending route request, or NoResp

\* The empty node_id -> ReplicaInfo map.
EmptyTable == [n \in {} |-> NoNode]

\* The table an update with input list b must produce: last write wins.
Build(b) == FoldLeft(LAMBDA t, rec : (rec.node_id :> rec) @@ t, EmptyTable, b)

Batches == BoundedSeq(Replicas, MaxBatch)

\* Score of a candidate as section 4.2 defines it (steps 3 and 4).
SpecScore(rec, cloc, q) ==
  IF q = "write"
  THEN Distance[cloc, rec.loc] + rec.load * 100
  ELSE Distance[cloc, rec.loc] + rec.load * 100 + rec.latency
         + (IF rec.is_leader THEN -50 ELSE 0)

\* Every answer the spec allows for a request (cloc, q) against table t.
Answers(t, cloc, q) ==
  LET healthy == {n \in DOMAIN t : t[n].healthy}
      cand    == IF q = "write" THEN {n \in healthy : t[n].is_leader}
                                ELSE healthy
      best    == {n \in cand : \A m \in cand :
                      SpecScore(t[n], cloc, q) <= SpecScore(t[m], cloc, q)}
      Fail(e) == [ok |-> FALSE, node |-> NoNode, err |-> e, cloc |-> cloc, q |-> q]
  IN  IF healthy = {} THEN {Fail("no_healthy")}
      ELSE IF cand = {} THEN {Fail("no_leaders")}
      ELSE {[ok |-> TRUE, node |-> n, err |-> "none", cloc |-> cloc, q |-> q]
              : n \in best}

\* Section 4.1: the location resolve(ip) returns.
Locate(g, ip) ==
  IF g # <<>> /\ ip \in DOMAIN g[1] /\ g[1][ip] # NoField
  THEN <<g[1][ip].latitude, g[1][ip].longitude>>
  ELSE <<0, 0>>

Init ==
  /\ geo \in {<<>>, <<Database>>}
  /\ table = EmptyTable
  /\ resp = [r \in Routers |-> NoResp]
  /\ input = [w \in Writers |-> NoResp]
  /\ ask = [r \in Routers |-> NoResp]

\* update_routing_table is called with the replica list b.
CallUpdate(w) ==
  /\ input[w] = NoResp
  /\ \E b \in Batches : input' = [input EXCEPT ![w] = b]
  /\ UNCHANGED <<table, resp, geo, ask>>

\* The update takes effect: the table is the one its own list builds.
Update(w) ==
  /\ input[w] # NoResp
  /\ table' = Build(input[w])
  /\ input' = [input EXCEPT ![w] = NoResp]
  /\ UNCHANGED <<resp, geo, ask>>

\* route is called for client ip with query type q.
CallRoute(r) ==
  /\ ask[r] = NoResp
  /\ \E ip \in ClientIps, q \in QueryTypes : ask' = [ask EXCEPT ![r] = [ip |-> ip, q |-> q]]
  /\ UNCHANGED <<table, resp, geo, input>>

\* The request is answered from the current table, for its own client.
Route(r) ==
  /\ ask[r] # NoResp
  /\ resp' \in {[resp EXCEPT ![r] = a] : a \in Answers(table, Locate(geo, ask[r].ip), ask[r].q)}
  /\ ask' = [ask EXCEPT ![r] = NoResp]
  /\ UNCHANGED <<table, geo, input>>

Next ==
  \/ \E w \in Writers : CallUpdate(w) \/ Update(w)
  \/ \E r \in Routers : CallRoute(r) \/ Route(r)

Spec == Init /\ [][Next]_<<table, resp, geo, input, ask>>
=============================================================================
