------------------------------ MODULE CoreRelay ------------------------------
(***************************************************************************)
(* A gRPC request relayed to a TCP upstream (relay/inbound/grpc.rs and     *)
(* relay/outbound/tcp.rs): the request's first frames give the auth ID,    *)
(* then three tasks move bytes through two bounded pipes:                  *)
(*                                                                         *)
(*   request -> decode -> inbuf -> relay -> upstream                       *)
(*   response <- encode <- outbuf <- relay <- upstream                     *)
(*                                                                         *)
(* and relay_grpc_via_core selects on their ends.  The encode loop runs in *)
(* the handler itself.  Request bytes are pieces numbered from 1, the auth *)
(* ID being the first Auth of them; a frame has up to MaxFrame pieces.     *)
(* Time is left out: a deadline may pass whenever it is waited for.        *)
(***************************************************************************)
EXTENDS Naturals, Sequences

CONSTANTS
  Auth,      \* pieces of the auth ID
  MaxFrame,  \* bound on the pieces of a frame
  MaxReq,    \* bound on the pieces of the request
  MaxResp,   \* bound on the pieces of the response
  Pipe       \* capacity of the duplex pipes (64 KiB in the code)

ASSUME BoundsAssumption ==
  /\ Auth \in Nat \ {0} /\ MaxFrame \in Nat \ {0} /\ Pipe \in Nat \ {0}
  /\ MaxReq \in Nat /\ MaxResp \in Nat

VARIABLES
  main,      \* the handler: "request", "auth", "drain", "select", "decoded",
             \* "encode" (the rest of the response), "done", "failed"
  req,       \* the request: [written, ended]
  cached,    \* pieces in cached_frames
  pos,       \* pieces the decode task has taken
  skip,      \* of the auth ID, still to be skipped
  hold,      \* decoded pieces not yet written to the pipe
  decode,    \* "none", "run", "ok", "err", "aborted"
  inbuf,     \* the pipe towards the relay
  relay,     \* "none", "connect", "copy", "ok", "err", "aborted"
  half,      \* [up, down]: directions copy_bidirectional is done with
  got,       \* what the upstream received
  resp,      \* the response: [written, ended, taken]
  outbuf,    \* the pipe towards the client
  client     \* what the client sees: [got, end, open]

handler == <<main, cached>>
upload  == <<pos, skip, hold, decode, inbuf>>
copying == <<relay, half, got>>
vars == <<handler, req, upload, copying, resp, outbuf, client>>

\* min, as in skip_auth_id_bytes
Least(m, n) == IF m < n THEN m ELSE n

\* The pieces from m to n, in order.
Pieces(m, n) == [i \in 1..(IF m > n THEN 0 ELSE n - m + 1) |-> m + i - 1]
-----------------------------------------------------------------------------
(* Before the relay: validate_request, read_initial_auth, match_auth_id *)

\* The client, if it is still there, sees the end of the response.
Ended == client' = [client EXCEPT !.end = IF client.open THEN "fin" ELSE @]

\* Requests that are not for the tunnel are answered and forgotten.
Validate ==
  /\ main = "request"
  /\ \/ main' = "auth" /\ UNCHANGED client
     \/ main' = "done" /\ Ended
  /\ UNCHANGED <<cached, req, upload, copying, resp, outbuf>>

\* A frame of n pieces; frames are read until they hold an auth ID.
ReadAuth(n) ==
  /\ main = "auth" /\ cached < Auth /\ cached + n <= req.written
  /\ cached' = cached + n
  /\ UNCHANGED <<main, req, upload, copying, resp, outbuf, client>>

\* The request ends or breaks before there is one, or the deadline passes.
AuthErr ==
  /\ main = "auth" /\ cached < Auth
  /\ main' = "drain"
  /\ UNCHANGED <<cached, req, upload, copying, resp, outbuf, client>>

\* A TCP upstream is found: both tasks are spawned.
Match ==
  /\ main = "auth" /\ cached >= Auth
  /\ main' = "select"
  /\ decode' = "run" /\ relay' = "connect"
  /\ UNCHANGED <<cached, req, pos, skip, hold, inbuf, half, got, resp, outbuf, client>>

NoMatch ==
  /\ main = "auth" /\ cached >= Auth
  /\ main' = "drain"
  /\ UNCHANGED <<cached, req, upload, copying, resp, outbuf, client>>

\* drain_grpc_request reads on for a while; the response then ends.
Drained ==
  /\ main = "drain"
  /\ main' = "done"
  /\ Ended
  /\ UNCHANGED <<cached, req, upload, copying, resp, outbuf>>
-----------------------------------------------------------------------------
(* The decode task *)

\* (mutant) Only the first frame is cut.
CutFirst(n) == IF pos = 0 THEN Least(skip, n) ELSE 0

\* How much of a frame of n pieces is auth ID.
Cut(n) == Least(skip, n)

\* The next frame, from the cache or from the request.
DecodeFrame(n) ==
  /\ decode = "run" /\ hold = <<>>
  /\ pos + n <= IF pos < cached THEN cached ELSE req.written
  /\ hold' = Pieces(pos + 1 + Cut(n), pos + n)
  /\ pos' = pos + n
  /\ skip' = skip - Cut(n)
  /\ UNCHANGED <<handler, req, decode, inbuf, copying, resp, outbuf, client>>

DecodeWrite ==
  /\ decode = "run" /\ hold # <<>> /\ relay \in {"connect", "copy"} /\ Len(inbuf) < Pipe
  /\ inbuf' = Append(inbuf, Head(hold))
  /\ hold' = Tail(hold)
  /\ UNCHANGED <<handler, req, pos, skip, decode, copying, resp, outbuf, client>>

\* (mutant) The end of the stream is seen before its last frames.
DecodeEndEarly ==
  /\ decode = "run" /\ hold = <<>> /\ pos >= cached /\ req.ended = "eof"
  /\ decode' = "ok"
  /\ UNCHANGED <<handler, req, pos, skip, hold, inbuf, copying, resp, outbuf, client>>

\* The request ends: the pipe is closed.  What is left of a frame is dropped.
DecodeEnd ==
  /\ decode = "run" /\ hold = <<>> /\ pos >= cached
  /\ req.ended = "eof" /\ req.written < pos + MaxFrame
  /\ decode' = "ok"
  /\ UNCHANGED <<handler, req, pos, skip, hold, inbuf, copying, resp, outbuf, client>>

\* The request is reset or has an oversized frame, or the relay no longer reads
\* the pipe.
DecodeErr ==
  /\ decode = "run"
  /\ \/ req.ended \in {"reset", "bad"} /\ hold = <<>> /\ pos >= cached
     \/ hold # <<>> /\ relay \notin {"connect", "copy"}
  /\ decode' = "err"
  /\ UNCHANGED <<handler, req, pos, skip, hold, inbuf, copying, resp, outbuf, client>>
-----------------------------------------------------------------------------
(* The relay task: relay_tcp *)

Connect ==
  /\ relay = "connect"
  /\ relay' = "copy"
  /\ UNCHANGED <<handler, req, upload, half, got, resp, outbuf, client>>

\* No connection, a reset upstream, a passed deadline or an idle relay.
RelayErr ==
  /\ relay \in {"connect", "copy"}
  /\ relay' = "err"
  /\ UNCHANGED <<handler, req, upload, half, got, resp, outbuf, client>>

CopyUp ==
  /\ relay = "copy" /\ inbuf # <<>>
  /\ got' = Append(got, Head(inbuf))
  /\ inbuf' = Tail(inbuf)
  /\ UNCHANGED <<handler, req, pos, skip, hold, decode, relay, half, resp, outbuf, client>>

\* The pipe is closed and empty: the upstream sees the end of the upload.
CopyUpEnd ==
  /\ relay = "copy" /\ ~half.up /\ inbuf = <<>> /\ decode \notin {"none", "run"}
  /\ half' = [half EXCEPT !.up = TRUE]
  /\ relay' = IF half.down THEN "ok" ELSE "copy"
  /\ UNCHANGED <<handler, req, upload, got, resp, outbuf, client>>

CopyDown ==
  /\ relay = "copy" /\ resp.taken < resp.written /\ Len(outbuf) < Pipe
  /\ resp' = [resp EXCEPT !.taken = @ + 1]
  /\ outbuf' = Append(outbuf, resp.taken + 1)
  /\ UNCHANGED <<handler, req, upload, copying, client>>

CopyDownEnd ==
  /\ relay = "copy" /\ ~half.down /\ resp.taken = resp.written /\ resp.ended
  /\ half' = [half EXCEPT !.down = TRUE]
  /\ relay' = IF half.up THEN "ok" ELSE "copy"
  /\ UNCHANGED <<handler, req, upload, got, resp, outbuf, client>>
-----------------------------------------------------------------------------
(* The handler: the encode loop raw_to_grpc, polled in the selects of          *)
(* relay_grpc_via_core with the ends of the two tasks                          *)

Encoding == main \in {"select", "decoded", "encode"}

Aborted(t) == IF t \in {"run", "connect", "copy"} THEN "aborted" ELSE t

\* (mutant) The relay task is forgotten.
ForgetRelay == relay

\* relay_task.abort(), awaited
AbortRelay == Aborted(relay)

\* (mutant) The relay's shutdown of its stream does not reach the pipe.
ClosedWithRelay == relay \notin {"connect", "copy"}

\* The pipe has no writer: SplitDuplex was shut down, or dropped.
OutClosed == half.down \/ relay \notin {"connect", "copy"}

EncodeSend ==
  /\ Encoding /\ outbuf # <<>> /\ client.open
  /\ client' = [client EXCEPT !.got = Append(@, Head(outbuf))]
  /\ outbuf' = Tail(outbuf)
  /\ UNCHANGED <<handler, req, upload, copying, resp>>

\* The encode loop ends, and whatever task still runs is aborted with it.
EncodeEnd ==
  /\ Encoding /\ outbuf = <<>> /\ OutClosed
  /\ Ended
  /\ main' = "done"
  /\ decode' = Aborted(decode) /\ relay' = AbortRelay
  /\ UNCHANGED <<cached, req, pos, skip, hold, inbuf, half, got, resp, outbuf>>

EncodeErr ==
  /\ Encoding /\ outbuf # <<>> /\ ~client.open
  /\ main' = "failed"
  /\ decode' = Aborted(decode) /\ relay' = AbortRelay
  /\ UNCHANGED <<cached, req, pos, skip, hold, inbuf, half, got, resp, outbuf, client>>

\* The handler returns without the encode loop, and drops the response.
Dropped == client' = [client EXCEPT !.end = IF client.open THEN "reset" ELSE @]

\* (mutant) The end of the request ends the relay.
DecodeOkStops ==
  /\ main = "select" /\ decode = "ok"
  /\ main' = "failed" /\ relay' = AbortRelay /\ Dropped
  /\ UNCHANGED <<cached, req, upload, half, got, resp, outbuf>>

\* The upload is over: the response goes on.
SelectDecodeOk ==
  /\ main = "select" /\ decode = "ok"
  /\ main' = "decoded"
  /\ UNCHANGED <<cached, req, upload, copying, resp, outbuf, client>>

SelectDecodeErr ==
  /\ main = "select" /\ decode = "err"
  /\ main' = "failed"
  /\ relay' = AbortRelay
  /\ Dropped
  /\ UNCHANGED <<cached, req, upload, half, got, resp, outbuf>>

\* (mutant) The relay's end ends the response.
RelayOkEnds ==
  /\ main \in {"select", "decoded"} /\ relay = "ok"
  /\ main' = "done"
  /\ decode' = Aborted(decode)
  /\ Ended
  /\ UNCHANGED <<cached, req, pos, skip, hold, inbuf, copying, resp, outbuf>>

\* The rest of the response is still in the pipe.
SelectRelayOk ==
  /\ main \in {"select", "decoded"} /\ relay = "ok"
  /\ main' = "encode"
  /\ decode' = Aborted(decode)
  /\ UNCHANGED <<cached, req, pos, skip, hold, inbuf, copying, resp, outbuf, client>>

SelectRelayErr ==
  /\ main \in {"select", "decoded"} /\ relay = "err"
  /\ main' = "failed"
  /\ decode' = Aborted(decode)
  /\ Dropped
  /\ UNCHANGED <<cached, req, pos, skip, hold, inbuf, copying, resp, outbuf>>
-----------------------------------------------------------------------------
(* The client and the upstream *)

ClientWrite ==
  /\ req.ended = "no" /\ req.written < MaxReq
  /\ req' = [req EXCEPT !.written = @ + 1]
  /\ UNCHANGED <<handler, upload, copying, resp, outbuf, client>>

ClientEnd ==
  /\ req.ended = "no"
  /\ \E how \in {"eof", "bad"} : req' = [req EXCEPT !.ended = how]
  /\ UNCHANGED <<handler, upload, copying, resp, outbuf, client>>

\* The client resets its stream, before or after the end of its request: an end
\* that was not read yet is lost.
ClientGone ==
  /\ client.open
  /\ client' = [client EXCEPT !.open = FALSE]
  /\ req' = [req EXCEPT !.ended =
                IF @ = "no" \/ (@ = "eof" /\ decode \in {"none", "run"}) THEN "reset" ELSE @]
  /\ UNCHANGED <<handler, upload, copying, resp, outbuf>>

UpstreamWrite ==
  /\ relay = "copy" /\ ~resp.ended /\ resp.written < MaxResp
  /\ resp' = [resp EXCEPT !.written = @ + 1]
  /\ UNCHANGED <<handler, req, upload, copying, outbuf, client>>

UpstreamEnd ==
  /\ relay = "copy" /\ ~resp.ended
  /\ resp' = [resp EXCEPT !.ended = TRUE]
  /\ UNCHANGED <<handler, req, upload, copying, outbuf, client>>

Init ==
  /\ main = "request" /\ cached = 0
  /\ req = [written |-> 0, ended |-> "no"]
  /\ pos = 0 /\ skip = Auth /\ hold = <<>> /\ decode = "none" /\ inbuf = <<>>
  /\ relay = "none" /\ half = [up |-> FALSE, down |-> FALSE] /\ got = <<>>
  /\ resp = [written |-> 0, ended |-> FALSE, taken |-> 0]
  /\ outbuf = <<>>
  /\ client = [got |-> <<>>, end |-> "no", open |-> TRUE]

Before == Validate \/ AuthErr \/ Match \/ NoMatch \/ Drained \/ \E n \in 1..MaxFrame : ReadAuth(n)

Decode == DecodeWrite \/ DecodeEnd \/ DecodeErr \/ \E n \in 1..MaxFrame : DecodeFrame(n)

Copy == CopyUp \/ CopyUpEnd \/ CopyDown \/ CopyDownEnd

Encode == EncodeSend \/ EncodeEnd \/ EncodeErr

Select ==
  SelectDecodeOk \/ SelectDecodeErr \/ SelectRelayOk \/ SelectRelayErr

Peers == ClientWrite \/ ClientEnd \/ ClientGone \/ UpstreamWrite \/ UpstreamEnd

Next == Before \/ Decode \/ Connect \/ RelayErr \/ Copy \/ Encode \/ Select \/ Peers

Spec == Init /\ [][Next]_vars

\* Spawned tasks and the handler are polled, the client takes what it is sent
\* and a connection attempt ends; nothing is assumed of what the peers write.
FairSpec ==
  /\ Spec
  /\ WF_vars(Before) /\ WF_vars(Decode) /\ WF_vars(Encode) /\ WF_vars(Select)
  /\ WF_vars(Connect) /\ WF_vars(CopyUp \/ CopyUpEnd) /\ WF_vars(CopyDown \/ CopyDownEnd)
-----------------------------------------------------------------------------
(* Properties *)

\* The upstream gets the request after its auth ID, in order, with nothing
\* skipped or twice, however the auth ID was cut into frames.
UploadIntact == got = Pieces(Auth + 1, Auth + Len(got))

\* The upstream sees the end of the upload only after all of the request, but
\* for a frame that was cut short, unless the request broke or the relay ended.
UploadEndsComplete ==
  (half.up /\ decode = "ok") => /\ req.ended = "eof"
                                /\ Auth + Len(got) + MaxFrame > req.written

\* A client that is told the response has ended, over a relay that had copied
\* the upstream's end, has all of it, whichever task ended first and how.
ResponseComplete ==
  (client.end = "fin" /\ half.down) => client.got = Pieces(1, resp.written)

\* When the handler returns, none of its tasks is left running.
NothingLeftRunning ==
  main \in {"done", "failed"} => decode # "run" /\ relay \notin {"connect", "copy"}

\* A client that half-closed its request still gets the whole response.
HalfClosedGetsResponse ==
  (decode = "ok" /\ resp.ended) ~>
     (client.got = Pieces(1, resp.written) \/ relay = "err" \/ ~client.open)

\* Every request for which the upstream ends the response is finished.
HandlerReturns == resp.ended ~> main \in {"done", "failed"}
=============================================================================
