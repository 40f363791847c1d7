---------------------------- MODULE GeoResolver ----------------------------
(***************************************************************************)
(* GeoResolver of geo_sidecar/src/geo.rs: construction from an optional   *)
(* database path, and resolve(ip).  Only the coordinates reach the        *)
(* routing decision (calculate_distance reads latitude and longitude), so  *)
(* a resolved location is the point <<latitude, longitude>>; the country,  *)
(* region, city and time-zone fields fall back to "Unknown" / "UTC" the    *)
(* same way and are display-only.  Coordinates are whole degrees.          *)
(*                                                                         *)
(* The database maps the addresses it knows to their City record's         *)
(* location: NoField when the record has none, otherwise a record whose     *)
(* latitude and longitude may each be NoField.  maxminddb's lookup is Err  *)
(* for an address the database does not hold.                             *)
(***************************************************************************)
EXTENDS Integers

CONSTANTS Database,   \* address -> location field of its geoip2::City
          NoField     \* an Option that is None

\* The states a configured database path can be in: not given, naming no
\* file, naming a file open_readfile rejects, naming a readable database.
DbPaths == {"none", "missing", "corrupt", "valid"}

\* GeoLocation::default(): latitude 0.0, longitude 0.0.
DefaultPoint == <<0, 0>>

\* Option::unwrap_or(0.0).
OrZero(x) == IF x = NoField THEN 0 ELSE x

\* GeoResolver::new(path).  A Result: <<>> is Err (open_readfile failed and
\* ? propagates it), <<r>> is Ok with reader r, itself <<>> for None or
\* <<Database>> for Some(reader).
NewResolver(path) ==
  CASE path = "corrupt" -> <<>>
    [] path = "valid"   -> << <<Database>> >>
    [] OTHER            -> << <<>> >>

\* Mutant of Resolve: a failed lookup propagated as Err instead of
\* degrading to the default location.
ResolveLookupErr(reader, ip) ==
  IF reader = <<>> THEN <<DefaultPoint>>
  ELSE IF ip \notin DOMAIN reader[1] THEN <<>>
  ELSE LET loc == reader[1][ip]
       IN  IF loc = NoField THEN <<DefaultPoint>>
           ELSE << <<OrZero(loc.latitude), OrZero(loc.longitude)>> >>

\* resolve(ip), a Result like NewResolver: never Err.  No reader, or a
\* lookup error, gives the default; a City without location gives (0, 0);
\* each missing coordinate is 0 on its own.
Resolve(reader, ip) ==
  IF reader = <<>> \/ ip \notin DOMAIN reader[1] THEN <<DefaultPoint>>
  ELSE LET loc == reader[1][ip]
       IN  IF loc = NoField THEN <<DefaultPoint>>
           ELSE << <<OrZero(loc.latitude), OrZero(loc.longitude)>> >>
=============================================================================
