--------------------------- MODULE ConnectionLoop ---------------------------
(***************************************************************************)
(* handle_connection and process_request of geo_sidecar/src/main.rs for    *)
(* one accepted connection.  The peer's byte stream is a sequence of       *)
(* frames, each a 4-byte big-endian length header and a body that the      *)
(* peer sends completely or not at all; the peer may hang up at any time.  *)
(* The routing table is abstracted to a version counter (RoutingEngine     *)
(* models it) and record_request to one step (Metrics models its atomics). *)
(***************************************************************************)
EXTENDS Integers, Sequences, SequencesExt

CONSTANTS MaxFrame,   \* 1024 * 1024
          Streams,    \* the frame sequences a peer may send
          RespLen(_, _)  \* bytes of serde_json::to_vec of the response to
                         \* a request of a kind, by its success flag

VARIABLES stream,   \* the frames the peer sends
          idx,      \* index of the frame being read
          gone,     \* the peer has closed its end
          pc,       \* "hdr", "body", "process", "record", "write", "done"
          len,      \* length decoded from the current header
          resp,     \* the response being built: TRUE for success
          out,      \* responses written, with the index of their request
          wire,     \* what the sidecar wrote: header bytes and body chunks
          version,  \* number of update_replicas calls that returned
          total, successful, failed   \* what record_request added

vars == <<stream, idx, gone, pc, len, resp, out, wire, version, total,
          successful, failed>>

\* Mutant of FromBeBytes: the header decoded little-endian.
FromLeBytes(b) == FoldRight(LAMBDA x, acc : acc * 256 + x, b, 0)

\* u32::from_be_bytes.
FromBeBytes(b) == FoldLeft(LAMBDA acc, x : acc * 256 + x, 0, b)

\* Mutant of ToBeBytes: the response header written little-endian.
ToLeBytes(n) == [i \in 1..4 |-> (n \div (256 ^ (i - 1))) % 256]

\* u32::to_be_bytes.
ToBeBytes(n) == [i \in 1..4 |-> (n \div (256 ^ (4 - i))) % 256]

\* The peer's side of the wire protocol: read a 4-byte big-endian length,
\* then that many bytes as one response.  A body whose length is not the
\* declared one is misread (Garbled); a trailing header without its body
\* is an incomplete frame and yields nothing.
Garbled == [req |-> 0, ok |-> FALSE]
RECURSIVE PeerDecode(_)
PeerDecode(w) ==
  IF Len(w) < 5 THEN <<>>
  ELSE IF w[5].len # FromBeBytes(SubSeq(w, 1, 4)) THEN <<Garbled>>
  ELSE <<w[5].resp>> \o PeerDecode(SubSeq(w, 6, Len(w)))

\* Mutant of Process: a request error is propagated with ? and ends the
\* connection, instead of becoming an error response.
ProcessFatalErrors ==
  LET k == stream[idx].kind IN
  /\ pc = "process"
  /\ IF k \in {"bad_json", "bad_ip"}
     THEN pc' = "done" /\ UNCHANGED <<resp, version>>
     ELSE /\ \E ok \in (IF k = "route" THEN BOOLEAN ELSE {TRUE}) : resp' = ok
          /\ version' = IF k = "update" THEN version + 1 ELSE version
          /\ pc' = "record"
  /\ UNCHANGED <<stream, idx, gone, len, out, wire, total, successful, failed>>

Init ==
  /\ stream \in Streams
  /\ idx = 1
  /\ gone = FALSE
  /\ pc = "hdr"
  /\ len = 0
  /\ resp = TRUE
  /\ out = <<>>
  /\ wire = <<>>
  /\ version = 0 /\ total = 0 /\ successful = 0 /\ failed = 0

\* read_exact of the header; EOF ends the connection, a length over the
\* limit ends it with "Request too large".
ReadHeader ==
  /\ pc = "hdr"
  /\ idx <= Len(stream) \/ gone
  /\ IF gone \/ idx > Len(stream)
     THEN pc' = "done" /\ UNCHANGED len
     ELSE LET n == FromBeBytes(stream[idx].hdr)
          IN  /\ len' = n
              /\ pc' = IF n > MaxFrame THEN "done" ELSE "body"
  /\ UNCHANGED <<stream, idx, gone, resp, out, wire, version, total, successful,
                 failed>>

\* read_exact of the body: it waits until the peer has sent all of it, or
\* fails once the peer has closed.
ReadBody ==
  /\ pc = "body"
  /\ stream[idx].complete \/ gone
  /\ pc' = IF stream[idx].complete /\ ~gone THEN "process" ELSE "done"
  /\ UNCHANGED <<stream, idx, gone, len, resp, out, wire, version, total,
                 successful, failed>>

\* process_request: a payload that does not parse, or a route whose
\* client_ip does not parse, is an error response; route_request may fail
\* (no healthy replica or leader); update_replicas replaces the table.
Process ==
  LET k == stream[idx].kind IN
  /\ pc = "process"
  /\ \E ok \in CASE k \in {"bad_json", "bad_ip"} -> {FALSE}
                 [] k = "route"                 -> BOOLEAN
                 [] OTHER                       -> {TRUE} :
       resp' = ok
  /\ version' = IF k = "update" THEN version + 1 ELSE version
  /\ pc' = "record"
  /\ UNCHANGED <<stream, idx, gone, len, out, wire, total, successful, failed>>

\* Mutant of Record: an error response recorded in the Err arm of the
\* match and again by the common call.
RecordErrorsTwice ==
  /\ pc = "record"
  /\ total' = IF resp THEN total + 1 ELSE total + 2
  /\ successful' = IF resp THEN successful + 1 ELSE successful
  /\ failed' = IF resp THEN failed ELSE failed + 2
  /\ pc' = "write"
  /\ UNCHANGED <<stream, idx, gone, len, resp, out, wire, version>>

\* metrics.record_request(latency, response.success).
Record ==
  /\ pc = "record"
  /\ total' = total + 1
  /\ successful' = IF resp THEN successful + 1 ELSE successful
  /\ failed' = IF resp THEN failed ELSE failed + 1
  /\ pc' = "write"
  /\ UNCHANGED <<stream, idx, gone, len, resp, out, wire, version>>

\* serde_json::to_vec of the response, then write_all of its length as
\* u32::to_be_bytes; the write fails once the peer has closed.
WriteHeader ==
  /\ pc = "write"
  /\ IF gone
     THEN pc' = "done" /\ UNCHANGED wire
     ELSE /\ wire' = wire \o ToBeBytes(RespLen(stream[idx].kind, resp))
          /\ pc' = "write_body"
  /\ UNCHANGED <<stream, idx, gone, len, resp, out, version, total, successful,
                 failed>>

\* write_all of the body, then flush (a no-op on sockets); the loop goes
\* back to the next header.
WriteBody ==
  /\ pc = "write_body"
  /\ IF gone
     THEN pc' = "done" /\ UNCHANGED <<out, wire, idx>>
     ELSE LET r == [req |-> idx, ok |-> resp]
          IN  /\ wire' = Append(wire, [resp |-> r,
                                        len |-> RespLen(stream[idx].kind, resp)])
              /\ out' = Append(out, r)
              /\ idx' = idx + 1
              /\ pc' = "hdr"
  /\ UNCHANGED <<stream, gone, len, resp, version, total, successful, failed>>

\* The peer closes its end.
Hangup ==
  /\ ~gone /\ pc # "done"
  /\ gone' = TRUE
  /\ UNCHANGED <<stream, idx, pc, len, resp, out, wire, version, total,
                 successful, failed>>

Next ==
  ReadHeader \/ ReadBody \/ Process \/ Record \/ WriteHeader \/ WriteBody \/ Hangup

\* The task is scheduled whenever it can run; the peer owes nothing.
Fairness ==
  /\ WF_vars(ReadHeader) /\ WF_vars(ReadBody) /\ WF_vars(Process)
  /\ WF_vars(Record) /\ WF_vars(WriteHeader) /\ WF_vars(WriteBody)

Spec == Init /\ [][Next]_vars /\ Fairness

-----------------------------------------------------------------------------
TypeOK ==
  /\ pc \in {"hdr", "body", "process", "record", "write", "write_body", "done"}
  /\ idx \in 1..(Len(stream) + 1) /\ gone \in BOOLEAN /\ resp \in BOOLEAN
  /\ out \in Seq([req : 1..Len(stream), ok : BOOLEAN])
  /\ {total, successful, failed} \subseteq 0..Len(stream)

\* Spec 6: a frame whose declared length is at most 1,048,576 bytes is
\* read; a larger declared length aborts the connection before its body.
FrameLimitExact ==
  /\ pc = "body" => stream[idx].len <= MaxFrame
  /\ (pc = "done" /\ ~gone /\ idx <= Len(stream)) =>
       \/ stream[idx].len > MaxFrame
       \/ ~stream[idx].complete

\* Spec 7: a request-level error (malformed payload, bad IP, no healthy
\* replica) becomes an error response and the connection keeps serving:
\* a request read in full is answered (only WriteBody returns the loop to the
\* next header), unless the peer has closed.
RequestsAnswered == (pc = "process") ~> (pc = "hdr" \/ gone)

\* Spec 6 and 8 (framing round-trip) with spec 5 (no pipelining): the
\* peer, decoding the bytes handle_connection wrote as length-prefixed
\* frames, reads back exactly the responses written so far, in request
\* order; a frame cut short by a failed write is never taken for one.
ResponsesRoundTrip == PeerDecode(wire) = out
=============================================================================
