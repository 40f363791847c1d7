---------------------------- MODULE RoutingEngine ----------------------------
(***************************************************************************)
(* The routing engine of the geo sidecar (routing.rs) behind the           *)
(* parking_lot RwLock the sidecar wraps it in (main.rs).                   *)
(*                                                                         *)
(*  - Writers are connection tasks serving update_routing_table: they     *)
(*    take the write lock and run update_replicas, which clears both maps  *)
(*    and re-inserts the input one replica at a time.                      *)
(*  - Routers are connection tasks serving route: they take the read lock  *)
(*    and run route_request, which filters healthy replicas in the         *)
(*    DashMap's iteration order and picks one with Iterator::min_by.       *)
(*                                                                         *)
(* Data is abstracted: a ReplicaInfo is a record of the fields the score   *)
(* reads; host and port are left out (the node_id names the answer);       *)
(* locations are <<latitude, longitude>> points in whole degrees and      *)
(* Distance is the haversine result table; GeoResolver resolves clients.   *)
(***************************************************************************)
EXTENDS Integers, Sequences, FiniteSets, SequencesExt, TLC, GeoResolver

CONSTANTS
  Nodes,        \* node_id values
  Zones,        \* zone names
  Locs,         \* geo locations (replica and client)
  Distance,     \* [Locs \X Locs -> Nat]: calculate_distance, in km
  Replicas,     \* the ReplicaInfo records update requests are built from
  ClientIps,    \* client_ip values of route requests
  QueryTypes,   \* query_type strings a route request carries
  Routers,      \* tasks serving route requests
  Writers,      \* tasks serving update_routing_table requests
  MaxBatch,     \* bound on the length of an update's replica list
  NoNode, NoResp, NoOne

ASSUME MaxBatch \in Nat
ASSUME Routers \cap Writers = {}

VARIABLES
  replicas,       \* DashMap<String, ReplicaInfo>: node_id -> record
  zone_replicas,  \* DashMap<String, Vec<String>>: zone -> node_ids
  writer,         \* holder of the write lock, or NoOne
  readers,        \* holders of the read lock
  pc,             \* program counter of every task
  batch,          \* the replica list a writer is installing
  idx,            \* next position of batch the insert loop handles
  req,            \* the (client_ip, query_type) a router serves
  resp,           \* the last answer each router sent
  prevTable,      \* history: replicas when the write lock was taken
  geo             \* the GeoResolver's reader, fixed at start-up

vars == <<replicas, zone_replicas, writer, readers, pc, batch, idx, req,
          resp, prevTable, geo>>

Tasks == Routers \cup Writers

EmptyMap == [n \in {} |-> NoNode]

(***************************************************************************)
(* Scoring and selection (routing.rs).                                     *)
(***************************************************************************)

\* score_a in select_best_leader: distance plus 100 km per load unit.
LeaderScore(rec, cloc) == Distance[cloc, rec.loc] + rec.load * 100

\* score_a in select_best_replica: adds latency and a 50 km leader bonus.
ReplicaScore(rec, cloc) ==
  Distance[cloc, rec.loc] + rec.load * 100 + rec.latency
    + (IF rec.is_leader THEN -50 ELSE 0)

\* Iterator::min_by over a non-empty s whose scores are sc[1..Len(s)]:
\* the accumulator is replaced only when it compares Greater, so the first
\* minimum wins. The result is the chosen element.
MinBy(s, sc) ==
  s[FoldLeft(LAMBDA acc, i : IF sc[acc] > sc[i] THEN i ELSE acc,
             1, [k \in 1..(Len(s) - 1) |-> k + 1])]

\* select_best_leader: leaders among the healthy candidates, closest one.
\* A Result is a sequence: <<>> for Err, <<rec>> for Ok(rec).
SelectBestLeader(cands, cloc) ==
  LET leaders == SelectSeq(cands, LAMBDA rec : rec.is_leader)
  IN  IF leaders = <<>> THEN <<>>
      ELSE <<MinBy(leaders, [i \in DOMAIN leaders |-> LeaderScore(leaders[i], cloc)])>>

\* select_best_replica: any healthy candidate.
SelectBestReplica(cands, cloc) ==
  <<MinBy(cands, [i \in DOMAIN cands |-> ReplicaScore(cands[i], cloc)])>>

\* route_request on a table t whose entries the DashMap yields in order
\* ord, for client_ip ip: resolve(ip)? first, then selection; the answer
\* record the connection task sends back.
RouteRequest(t, ord, g, ip, q) ==
  LET res     == Resolve(g, ip)
      cloc    == IF res = <<>> THEN DefaultPoint ELSE res[1]
      healthy == SelectSeq([i \in DOMAIN ord |-> t[ord[i]]],
                           LAMBDA rec : rec.healthy)
      sel     == IF q = "write" THEN SelectBestLeader(healthy, cloc)
                                ELSE SelectBestReplica(healthy, cloc)
      Fail(e) == [ok |-> FALSE, node |-> NoNode, err |-> e, cloc |-> cloc, q |-> q]
  IN  IF res = <<>> THEN Fail("geo")
      ELSE IF healthy = <<>> THEN Fail("no_healthy")
      ELSE IF sel = <<>> THEN Fail("no_leaders")
      ELSE [ok |-> TRUE, node |-> sel[1].node_id, err |-> "none",
            cloc |-> cloc, q |-> q]

(***************************************************************************)
(* Faulty variants of the actions below, each a plausible bug in the      *)
(* code they model. Substituted for the real action, each must make one   *)
(* of the properties at the end of the module fail.                       *)
(***************************************************************************)

\* The read guard taken without waiting for a writer in update_replicas.
AcquireReadUnlocked(r) ==
  /\ pc[r] = "wait_read"
  /\ readers' = readers \cup {r}
  /\ pc' = [pc EXCEPT ![r] = "routing"]
  /\ UNCHANGED <<geo, replicas, zone_replicas, writer, batch, idx, req, resp, prevTable>>

\* A reader-preferring lock: readers enter while a writer is queued.
AcquireReadReaderPreferring(r) ==
  /\ pc[r] = "wait_read"
  /\ writer = NoOne
  /\ readers' = readers \cup {r}
  /\ pc' = [pc EXCEPT ![r] = "routing"]
  /\ UNCHANGED <<geo, replicas, zone_replicas, writer, batch, idx, req, resp, prevTable>>

\* update_replicas without self.zone_replicas.clear().
ClearZonesSkipped(w) ==
  /\ pc[w] = "clear_zones"
  /\ pc' = [pc EXCEPT ![w] = "insert"]
  /\ UNCHANGED <<geo, replicas, zone_replicas, writer, readers, batch, idx, req, resp, prevTable>>

\* The insert loop pushing the zone name instead of the node_id.
InsertReplicaPushesZone(w) ==
  /\ pc[w] = "insert"
  /\ idx[w] <= Len(batch[w])
  /\ LET rec == batch[w][idx[w]]
         z   == rec.zone
     IN  /\ replicas' = (rec.node_id :> rec) @@ replicas
         /\ zone_replicas' =
              IF z \in DOMAIN zone_replicas
              THEN [zone_replicas EXCEPT ![z] = Append(@, z)]
              ELSE (z :> <<z>>) @@ zone_replicas
  /\ idx' = [idx EXCEPT ![w] = @ + 1]
  /\ UNCHANGED <<geo, writer, readers, pc, batch, req, resp, prevTable>>

\* The insert loop keeping the first record of a repeated node_id
\* (entry().or_insert) instead of overwriting it.
InsertReplicaFirstWins(w) ==
  /\ pc[w] = "insert"
  /\ idx[w] <= Len(batch[w])
  /\ LET rec == batch[w][idx[w]]
         z   == rec.zone
     IN  /\ replicas' = replicas @@ (rec.node_id :> rec)
         /\ zone_replicas' =
              IF z \in DOMAIN zone_replicas
              THEN [zone_replicas EXCEPT ![z] = Append(@, rec.node_id)]
              ELSE (z :> <<rec.node_id>>) @@ zone_replicas
  /\ idx' = [idx EXCEPT ![w] = @ + 1]
  /\ UNCHANGED <<geo, writer, readers, pc, batch, req, resp, prevTable>>

(***************************************************************************)
(* Initial state: GeoResolver::new succeeded, RoutingEngine::new, no task  *)
(* busy.                                                                   *)
(***************************************************************************)
Init ==
  /\ geo \in {NewResolver(p)[1] : p \in {p \in DbPaths : NewResolver(p) # <<>>}}
  /\ replicas = EmptyMap
  /\ zone_replicas = [z \in {} |-> <<>>]
  /\ writer = NoOne
  /\ readers = {}
  /\ pc = [t \in Tasks |-> "idle"]
  /\ batch = [w \in Writers |-> <<>>]
  /\ idx = [w \in Writers |-> 1]
  /\ req = [r \in Routers |-> NoResp]
  /\ resp = [r \in Routers |-> NoResp]
  /\ prevTable = EmptyMap

(***************************************************************************)
(* Router actions (process_request, Route arm).                            *)
(***************************************************************************)

\* A route request arrives.
RequestRoute(r) ==
  /\ pc[r] = "idle"
  /\ \E ip \in ClientIps, q \in QueryTypes : req' = [req EXCEPT ![r] = [ip |-> ip, q |-> q]]
  /\ pc' = [pc EXCEPT ![r] = "wait_read"]
  /\ UNCHANGED <<geo, replicas, zone_replicas, writer, readers, batch, idx, resp, prevTable>>

\* routing_engine.read(): parking_lot's task-fair RwLock admits a reader
\* only when no writer holds the lock or is queued for it.
AcquireRead(r) ==
  /\ pc[r] = "wait_read"
  /\ writer = NoOne
  /\ \A w \in Writers : pc[w] # "wait_write"
  /\ readers' = readers \cup {r}
  /\ pc' = [pc EXCEPT ![r] = "routing"]
  /\ UNCHANGED <<geo, replicas, zone_replicas, writer, batch, idx, req, resp, prevTable>>

\* route_request under the read guard; the guard drops at the end of the
\* statement and the answer is sent.
Route(r) ==
  /\ pc[r] = "routing"
  /\ \E ord \in SetToSeqs(DOMAIN replicas) :
        resp' = [resp EXCEPT ![r] = RouteRequest(replicas, ord, geo, req[r].ip, req[r].q)]
  /\ readers' = readers \ {r}
  /\ pc' = [pc EXCEPT ![r] = "idle"]
  /\ req' = [req EXCEPT ![r] = NoResp]
  /\ UNCHANGED <<geo, replicas, zone_replicas, writer, batch, idx, prevTable>>

(***************************************************************************)
(* Writer actions (process_request, UpdateRoutingTable arm, and            *)
(* update_replicas).                                                       *)
(***************************************************************************)

\* An update_routing_table request with a replica list arrives.
RequestUpdate(w) ==
  /\ pc[w] = "idle"
  /\ \E b \in BoundedSeq(Replicas, MaxBatch) : batch' = [batch EXCEPT ![w] = b]
  /\ pc' = [pc EXCEPT ![w] = "wait_write"]
  /\ UNCHANGED <<geo, replicas, zone_replicas, writer, readers, idx, req, resp, prevTable>>

\* routing_engine.write(): exclusive, waits for every reader to leave.
AcquireWrite(w) ==
  /\ pc[w] = "wait_write"
  /\ writer = NoOne
  /\ readers = {}
  /\ writer' = w
  /\ prevTable' = replicas
  /\ pc' = [pc EXCEPT ![w] = "clear_replicas"]
  /\ UNCHANGED <<geo, replicas, zone_replicas, readers, batch, idx, req, resp>>

\* self.replicas.clear()
ClearReplicas(w) ==
  /\ pc[w] = "clear_replicas"
  /\ replicas' = EmptyMap
  /\ pc' = [pc EXCEPT ![w] = "clear_zones"]
  /\ UNCHANGED <<geo, zone_replicas, writer, readers, batch, idx, req, resp, prevTable>>

\* self.zone_replicas.clear()
ClearZones(w) ==
  /\ pc[w] = "clear_zones"
  /\ zone_replicas' = [z \in {} |-> <<>>]
  /\ pc' = [pc EXCEPT ![w] = "insert"]
  /\ UNCHANGED <<geo, replicas, writer, readers, batch, idx, req, resp, prevTable>>

\* One turn of the for loop: insert (overwriting) into replicas, then
\* push the node_id onto its zone's Vec, creating the Vec if absent.
InsertReplica(w) ==
  /\ pc[w] = "insert"
  /\ idx[w] <= Len(batch[w])
  /\ LET rec == batch[w][idx[w]]
         z   == rec.zone
     IN  /\ replicas' = (rec.node_id :> rec) @@ replicas
         /\ zone_replicas' =
              IF z \in DOMAIN zone_replicas
              THEN [zone_replicas EXCEPT ![z] = Append(@, rec.node_id)]
              ELSE (z :> <<rec.node_id>>) @@ zone_replicas
  /\ idx' = [idx EXCEPT ![w] = @ + 1]
  /\ UNCHANGED <<geo, writer, readers, pc, batch, req, resp, prevTable>>

\* The loop has consumed the input: update_replicas returns Ok and the
\* write guard drops.
ReleaseWrite(w) ==
  /\ pc[w] = "insert"
  /\ idx[w] > Len(batch[w])
  /\ writer' = NoOne
  /\ pc' = [pc EXCEPT ![w] = "idle"]
  /\ batch' = [batch EXCEPT ![w] = <<>>]
  /\ idx' = [idx EXCEPT ![w] = 1]
  /\ prevTable' = EmptyMap
  /\ UNCHANGED <<geo, replicas, zone_replicas, readers, req, resp>>

(***************************************************************************)
(* Specification.                                                          *)
(***************************************************************************)
Next ==
  \/ \E r \in Routers : RequestRoute(r) \/ AcquireRead(r) \/ Route(r)
  \/ \E w \in Writers : \/ RequestUpdate(w) \/ AcquireWrite(w)
                        \/ ClearReplicas(w) \/ ClearZones(w)
                        \/ InsertReplica(w) \/ ReleaseWrite(w)

\* Once a request has arrived its task keeps running: every step after the
\* arrival is weakly fair; taking the lock is strongly fair because
\* parking_lot queues waiters in order (no reader or writer starvation).
Fairness ==
  /\ \A r \in Routers : SF_vars(AcquireRead(r)) /\ WF_vars(Route(r))
  /\ \A w \in Writers : /\ SF_vars(AcquireWrite(w))
                        /\ WF_vars(ClearReplicas(w) \/ ClearZones(w)
                                   \/ InsertReplica(w) \/ ReleaseWrite(w))

Spec == Init /\ [][Next]_vars /\ Fairness

(***************************************************************************)
(* Properties.                                                             *)
(***************************************************************************)

TypeOK ==
  /\ DOMAIN replicas \subseteq Nodes
  /\ \A n \in DOMAIN replicas : replicas[n] \in Replicas
  /\ \A z \in DOMAIN zone_replicas : zone_replicas[z] \in Seq(Nodes)
  /\ writer \in Writers \cup {NoOne}
  /\ readers \subseteq Routers
  /\ pc \in [Tasks -> {"idle", "wait_read", "routing", "wait_write",
                       "clear_replicas", "clear_zones", "insert"}]

\* Section 3: outside update_replicas the zone index and the primary map
\* agree: every node_id in a zone bucket has an entry in replicas, and
\* every entry of replicas is listed in some zone bucket.
ZoneIndexConsistent ==
  writer = NoOne =>
    /\ \A z \in DOMAIN zone_replicas : ToSet(zone_replicas[z]) \subseteq DOMAIN replicas
    /\ \A n \in DOMAIN replicas : \E z \in DOMAIN zone_replicas :
          Contains(zone_replicas[z], n)

\* The table readers see: while an update is in progress it is the table
\* the update started from, otherwise the maps themselves.
VisibleTable == IF writer = NoOne THEN replicas ELSE prevTable

\* The update a writer has pending from the moment its request arrives
\* until it releases the write lock.
PendingInput == [w \in Writers |-> IF pc[w] = "idle" THEN NoResp ELSE batch[w]]

Abstract == INSTANCE RoutingTableSpec WITH table <- VisibleTable, resp <- resp,
                                           geo <- geo, input <- PendingInput,
                                           ask <- req

\* update_replicas with the read/write lock around it is an atomic
\* wholesale replacement by the table the writer's own list builds (last
\* write wins for a repeated node_id), and every route answer is one the
\* spec allows on one complete table for the router's own client_ip,
\* located as section 4.1 says, and query type: never a non-leader for a
\* write, never an unhealthy node, always a minimal score.
RefinesTableSpec == Abstract!Spec

\* Every route or update request that reaches the lock is answered: the
\* lock starves neither the routers nor the writer.
RequestsAnswered == \A t \in Tasks : pc[t] # "idle" ~> pc[t] = "idle"
=============================================================================
