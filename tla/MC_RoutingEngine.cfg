CONSTANTS
  n1 = n1
  n2 = n2
  n3 = n3
  z1 = z1
  z2 = z2
  ipTokyo = ipTokyo
  ipParis = ipParis
  ipNoLoc = ipNoLoc
  ipOther = ipOther
  NoField = NoField
  Database <- MCDatabase
  r1 = r1
  r2 = r2
  w1 = w1
  NoNode = NoNode
  NoResp = NoResp
  NoOne = NoOne
  Nodes <- MCNodes
  Zones <- MCZones
  Locs <- MCLocs
  Distance <- MCDistance
  Replicas <- MCReplicas
  ClientIps <- MCClientIps
  QueryTypes <- MCQueryTypes
  Routers <- MCRouters
  Writers <- MCWriters
  MaxBatch = 2

SPECIFICATION Spec
INVARIANT TypeOK
INVARIANT ZoneIndexConsistent
PROPERTY RefinesTableSpec

