-------------------------- MODULE MC_ConnectionLoop --------------------------
EXTENDS ConnectionLoop

MCMaxFrame == 1024 * 1024

\* u32::to_be_bytes, as the client writes the header.
BeBytes(n) == [i \in 1..4 |-> (n \div (256 ^ (4 - i))) % 256]

Frame(l, k, c) == [hdr |-> BeBytes(l), len |-> l, kind |-> k, complete |-> c]

\* Well-formed short requests of every kind, a request of exactly 1 MiB,
\* declared lengths one byte and many bytes over the limit, one whose
\* high byte alone is set, and a body the peer never finishes.
MCFrames ==
  {Frame(5, k, TRUE) : k \in {"route", "update", "ping", "metrics",
                               "bad_json", "bad_ip"}}
  \cup {Frame(MCMaxFrame, "ping", TRUE), Frame(MCMaxFrame + 1, "ping", TRUE),
        Frame(5 * 256, "ping", TRUE), Frame(256 ^ 3, "ping", TRUE),
        Frame(5, "ping", FALSE)}

MCStreams == BoundedSeq(MCFrames, 2)

\* Serialized response lengths: a RoutingResponse runs past 255 bytes, the
\* other payloads do not, so both header bytes that can differ are used.
MCRespLen(k, ok) ==
  CASE ~ok          -> 96
    [] k = "route"  -> 312
    [] k = "update" -> 78
    [] OTHER        -> 72
=============================================================================
