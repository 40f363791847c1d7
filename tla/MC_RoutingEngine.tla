------------------------- MODULE MC_RoutingEngine -------------------------
(***************************************************************************)
(* Model of RoutingEngine for TLC: three node_ids, two zones, the Tokyo / *)
(* Paris table of spec scenarios A and B, and the default location        *)
(* (0,0) that resolve returns when no GeoIP database is configured.  The  *)
(* database locates one address in Tokyo and one in Paris, holds one      *)
(* City record without a location, and does not hold a fourth address.    *)
(***************************************************************************)
EXTENDS RoutingEngine

CONSTANTS n1, n2, n3, z1, z2, r1, r2, w1, ipTokyo, ipParis, ipNoLoc, ipOther

MCNodes == {n1, n2, n3}
MCZones == {z1, z2}
Tokyo == <<36, 140>>
Paris == <<49, 2>>
Unknown == DefaultPoint
MCLocs == {Tokyo, Paris, Unknown}

\* Great-circle distances in km, rounded (haversine with radius 6371).
MCDistance ==
  [p \in MCLocs \X MCLocs |->
     IF p[1] = p[2] THEN 0
     ELSE IF {p[1], p[2]} = {Tokyo, Paris} THEN 9700
     ELSE IF {p[1], p[2]} = {Tokyo, Unknown} THEN 15300
     ELSE 5400]

Rec(n, lead, ok, z, l, load, lat) ==
  [node_id |-> n, is_leader |-> lead, healthy |-> ok, zone |-> z,
   loc |-> l, load |-> load, latency |-> lat]

\* Leader in Tokyo with load, follower in Paris, a second record for n1
\* (follower, other zone) to exercise last-write-wins, and an unhealthy
\* leader.
MCReplicas ==
  { Rec(n1, TRUE,  TRUE,  z1, Tokyo, 1, 0),
    Rec(n2, FALSE, TRUE,  z2, Paris, 0, 0),
    Rec(n1, FALSE, TRUE,  z2, Paris, 0, 0),
    Rec(n3, TRUE,  FALSE, z1, Paris, 0, 0) }

\* Smaller input set for the liveness run, where two routers overlap.
MCReplicasLive ==
  { Rec(n1, TRUE,  TRUE,  z1, Tokyo, 1, 0),
    Rec(n2, FALSE, TRUE,  z2, Paris, 0, 0) }

MCDatabase == (ipTokyo :> [latitude |-> 36, longitude |-> 140])
              @@ (ipParis :> [latitude |-> 49, longitude |-> 2])
              @@ (ipNoLoc :> NoField)
MCClientIps == {ipTokyo, ipParis, ipNoLoc, ipOther}
MCClientIpsLive == {ipParis}
MCQueryTypes == {"read", "write"}
MCRouters == {r1}
MCRouters2 == {r1, r2}
MCWriters == {w1}
\* The node_id order of spec 4.2 step 5 ("sorted by node_id").
NodeRank == (n1 :> 1) @@ (n2 :> 2) @@ (n3 :> 3)

\* Spec 4.2 step 5: among candidates of equal score the answer is the one
\* first in node_id order, whatever order the DashMap iterates in. Checked
\* on every Route step of the code, with the code's own scores.
TieBreakByNodeId ==
  [][\A r \in Routers :
       (pc[r] = "routing" /\ pc'[r] = "idle" /\ resp'[r].ok) =>
         LET t     == replicas
             q     == req[r].q
             c     == resp'[r].cloc
             cand  == {n \in DOMAIN t : t[n].healthy /\ (q = "write" => t[n].is_leader)}
             Sc(n) == IF q = "write" THEN LeaderScore(t[n], c) ELSE ReplicaScore(t[n], c)
             best  == {n \in cand : \A m \in cand : Sc(n) <= Sc(m)}
         IN  resp'[r].node = CHOOSE n \in best : \A m \in best : NodeRank[n] <= NodeRank[m]
    ]_vars
=============================================================================
