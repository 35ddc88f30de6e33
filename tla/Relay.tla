-------------------------------- MODULE Relay --------------------------------
(***************************************************************************)
(* One connection, from the auth ID to its end: two pumps, up and down,    *)
(* and the idle reaper.  There are three relays of this shape.             *)
(*                                                                         *)
(*   "tcp"   TCP inbound, TCP upstream: one task copies both ways          *)
(*           (copy_bidirectional_with_idle_timeout)                        *)
(*   "raw"   TCP inbound, gRPC upstream (relay_grpc): bytes go up as       *)
(*           frames (task t1), frames come down as bytes (task t2)         *)
(*   "fast"  gRPC inbound, gRPC upstream (relay_grpc_to_grpc_fast): frames *)
(*           go both ways as they are; its auth ID is read in CoreRelay    *)
(*                                                                         *)
(* What a side writes is counted in pieces (DATA chunks, or what a read or *)
(* a write takes); `pieces` of them make a frame or fill a copy buffer.    *)
(* Time is counted in ticks since the last mark of RelayActivity, up to    *)
(* the timeout.  Opening the tunnel of a gRPC relay is in GrpcPool.        *)
(***************************************************************************)
EXTENDS Naturals

CONSTANTS
  Modes,      \* the relays to look at
  FrameSizes, \* pieces in a frame
  MaxPieces,  \* bound on the pieces a side writes
  Idle        \* idle_timeout in ticks; 0 = None

ASSUME ModeAssumption == Modes \subseteq {"tcp", "raw", "fast"}
ASSUME BoundsAssumption == FrameSizes \subseteq Nat \ {0} /\ MaxPieces \in Nat /\ Idle \in Nat

Dirs == {"up", "down"}

VARIABLES
  mode, pieces,  \* which relay this is, and the pieces of its frames
  pc,        \* the relay: "id", "drain", "auth", "headers", "relay", "reap",
             \* "closed", "failed"
  task,      \* [Dirs -> "none", "read", "send", "copy", "ok", "err" or "aborted"]
  written,   \* [Dirs -> pieces the source has written]
  ended,     \* [Dirs -> how the source ended: "no", "eof", "reset", or, when it is
             \* the whole HTTP/2 connection of the client, "broken"]
  taken,     \* [Dirs -> pieces the pump has read]
  sent,      \* [Dirs -> pieces the pump is done with]
  fin,       \* [Dirs -> the end was passed on]
  sink,      \* [Dirs -> is the receiving side still there?]
  conn,      \* is the upstream HTTP/2 connection up?
  evicted,   \* the relay has called evict
  idle,      \* ticks since the last mark, at most Idle
  quiet      \* ticks since a piece moved, at most Idle (history)

shape   == <<mode, pieces>>
streams == <<written, ended, sink, conn>>
pumps   == <<task, taken, sent, fin>>
vars    == <<shape, pc, pumps, streams, evicted, idle, quiet>>

Over == pc \in {"closed", "failed"}

Running(d) == task[d] \in {"read", "send", "copy"}

\* Does the pump of this direction put frames together, and does it unpack them?
Framed(d)  == mode = "fast" \/ (mode = "raw" /\ d = "down")
Decodes(d) == mode = "raw" /\ d = "down"

\* (mutant) A reading of the clock that is never stored.
MarkNever(now) == idle

\* RelayActivity::mark
Mark(now) == IF now THEN 0 ELSE idle
-----------------------------------------------------------------------------
(* A pump: raw_to_grpc, grpc_to_raw, grpc_frames_to_grpc *)

\* Is there a frame's end after n pieces?
AtFrameEnd(d, n) == ~Framed(d) \/ n % pieces = 0

\* The pump reads up to the end of a frame; a frame is marked and then passed
\* on.
Read(d, n) ==
  /\ task[d] = "read"
  /\ n > taken[d] /\ n <= written[d] /\ n - taken[d] <= pieces
  /\ Framed(d) => \A m \in (taken[d] + 1)..(n - 1) : ~AtFrameEnd(d, m)
  /\ taken' = [taken EXCEPT ![d] = n]
  /\ task' = [task EXCEPT ![d] = IF AtFrameEnd(d, n) THEN "send" ELSE "read"]
  /\ idle' = Mark(AtFrameEnd(d, n))
  /\ quiet' = 0
  /\ UNCHANGED <<shape, pc, sent, fin, streams, evicted>>

\* A frame without a payload, or that does not decode, is passed over and does
\* not count as a movement.
Skip(d, n) ==
  /\ Decodes(d) /\ task[d] = "read"
  /\ n > taken[d] /\ n <= written[d] /\ n = sent[d] + pieces
  /\ taken' = [taken EXCEPT ![d] = n]
  /\ sent' = [sent EXCEPT ![d] = n]
  /\ quiet' = idle
  /\ UNCHANGED <<shape, pc, task, fin, streams, evicted, idle>>

\* The receiving side takes a piece (flow control grants capacity); the last
\* one is marked.
Send(d) ==
  /\ task[d] = "send" /\ sink[d]
  /\ sent' = [sent EXCEPT ![d] = @ + 1]
  /\ task' = [task EXCEPT ![d] = IF sent[d] + 1 = taken[d] THEN "read" ELSE "send"]
  /\ idle' = Mark(sent[d] + 1 = taken[d])
  /\ quiet' = 0
  /\ UNCHANGED <<shape, pc, taken, fin, streams, evicted>>

\* The errors that make t1 evict the endpoint: those of an HTTP/2 connection, which
\* is the upstream's when it sends, and the client's when the fast relay reads.
Evicts(d, reading) == d = "up" /\ IF reading THEN ended[d] = "broken" ELSE ~conn

\* evict does nothing while the slot is locked.
MayEvict(c) == evicted' \in {evicted, evicted \/ c}

\* The receiving side is gone.
SendErr(d) ==
  /\ task[d] = "send" /\ ~sink[d]
  /\ task' = [task EXCEPT ![d] = "err"]
  /\ MayEvict(Evicts(d, FALSE))
  /\ UNCHANGED <<shape, pc, taken, sent, fin, streams, idle, quiet>>

\* (mutant) The end is passed on while there is still something to read.
ReadEndEarly(d) ==
  /\ task[d] = "read" /\ ended[d] = "eof"
  /\ fin' = [fin EXCEPT ![d] = sink[d]]
  /\ task' = [task EXCEPT ![d] = "ok"]
  /\ UNCHANGED <<shape, pc, taken, sent, streams, evicted, idle, quiet>>

\* The source has ended: what is left of a frame is dropped and the end passed
\* on.  Only the unpacking pump minds when it cannot be.
ReadEnd(d) ==
  /\ task[d] = "read" /\ ended[d] = "eof" /\ taken[d] = written[d]
  /\ fin' = [fin EXCEPT ![d] = sink[d]]
  /\ task' = [task EXCEPT ![d] = IF Decodes(d) /\ ~sink[d] THEN "err" ELSE "ok"]
  /\ UNCHANGED <<shape, pc, taken, sent, streams, evicted, idle, quiet>>

\* The source is gone, and what it wrote last may be lost; or a frame is too
\* large.
ReadErr(d) ==
  /\ task[d] = "read"
  /\ \/ ended[d] \in {"reset", "broken"} /\ MayEvict(Evicts(d, TRUE))
     \/ Framed(d) /\ taken[d] < written[d] /\ evicted' = evicted
  /\ task' = [task EXCEPT ![d] = "err"]
  /\ UNCHANGED <<shape, pc, taken, sent, fin, streams, idle, quiet>>
-----------------------------------------------------------------------------
(* tokio's copy_bidirectional on two ActivityStreams *)

\* poll_read: there is room in the buffer.
CopyRead(d) ==
  /\ task[d] = "copy"
  /\ taken[d] < written[d] /\ taken[d] - sent[d] < pieces
  /\ taken' = [taken EXCEPT ![d] = @ + 1]
  /\ idle' = Mark(TRUE) /\ quiet' = 0
  /\ UNCHANGED <<shape, pc, task, sent, fin, streams, evicted>>

\* poll_write
CopyWrite(d) ==
  /\ task[d] = "copy" /\ sink[d] /\ sent[d] < taken[d]
  /\ sent' = [sent EXCEPT ![d] = @ + 1]
  /\ idle' = Mark(TRUE) /\ quiet' = 0
  /\ UNCHANGED <<shape, pc, task, taken, fin, streams, evicted>>

\* poll_shutdown, when all that was read is written
CopyEnd(d) ==
  /\ task[d] = "copy" /\ sink[d]
  /\ ended[d] = "eof" /\ taken[d] = written[d] /\ sent[d] = taken[d]
  /\ fin' = [fin EXCEPT ![d] = TRUE]
  /\ task' = [task EXCEPT ![d] = "ok"]
  /\ UNCHANGED <<shape, pc, taken, sent, streams, evicted, idle, quiet>>

\* An error of either direction ends both.
CopyErr(d) ==
  /\ task[d] = "copy"
  /\ \/ ended[d] = "reset"
     \/ ~sink[d] /\ (sent[d] < taken[d] \/ (ended[d] = "eof" /\ taken[d] = written[d]))
  /\ task' = [e \in Dirs |-> IF e = d THEN "err" ELSE IF Running(e) THEN "aborted" ELSE task[e]]
  /\ pc' = "failed"
  /\ UNCHANGED <<shape, taken, sent, fin, streams, evicted, idle, quiet>>
-----------------------------------------------------------------------------
(* handle_stream and the relay it chooses *)

\* The auth ID is read within AUTH_READ_TIMEOUT, and the validator knows an
\* upstream for it or not.
ReadAuthId ==
  /\ pc = "id"
  /\ pc' \in {"auth", "drain"}
  /\ UNCHANGED <<shape, pumps, streams, evicted, idle, quiet>>

AuthIdErr ==
  /\ pc = "id"
  /\ pc' = "failed"
  /\ UNCHANGED <<shape, pumps, streams, evicted, idle, quiet>>

\* drain_and_close: one read, or its deadline
DrainAndClose ==
  /\ pc = "drain"
  /\ pc' = "closed"
  /\ UNCHANGED <<shape, pumps, streams, evicted, idle, quiet>>

\* The upstream is reached, and the auth ID or the frames it came in are sent; t1
\* or the copy starts.
SendAuth ==
  /\ pc = "auth" /\ sink["up"]
  /\ IF mode = "tcp"
       THEN pc' = "relay" /\ task' = [d \in Dirs |-> "copy"]
       ELSE pc' = "headers" /\ task' = [task EXCEPT !["up"] = "read"]
  /\ idle' = 0 /\ quiet' = 0
  /\ UNCHANGED <<shape, taken, sent, fin, streams, evicted>>

\* It is not: an error, or one of the deadlines of relay_tcp
AuthErr ==
  /\ pc = "auth"
  /\ pc' = "failed"
  /\ UNCHANGED <<shape, pumps, streams, evicted, idle, quiet>>

\* The response headers: t2 starts.
Headers ==
  /\ pc = "headers" /\ ended["down"] # "reset"
  /\ pc' = "relay"
  /\ task' = [task EXCEPT !["down"] = "read"]
  /\ UNCHANGED <<shape, taken, sent, fin, streams, evicted, idle, quiet>>

\* abort t1; (mutant) t2 is left behind.
AbortUp == [task EXCEPT !["up"] = IF Running("up") THEN "aborted" ELSE @]

\* abort and await every task that has not finished.
AbortAll == [d \in Dirs |-> IF Running(d) THEN "aborted" ELSE task[d]]

\* No response: an error of the connection evicts; t1 is aborted.
HeadersErr ==
  /\ pc = "headers" /\ ended["down"] = "reset"
  /\ MayEvict(~conn)
  /\ task' = AbortAll
  /\ pc' = "failed"
  /\ UNCHANGED <<shape, taken, sent, fin, streams, idle, quiet>>

\* (mutant) One direction has ended.
JoinEither ==
  /\ pc = "relay" /\ \E d \in Dirs : ~Running(d)
  /\ pc' = "closed"
  /\ task' = AbortAll
  /\ UNCHANGED <<shape, taken, sent, fin, streams, evicted, idle, quiet>>

\* wait_grpc_relay: both tasks have finished.
Join ==
  /\ pc = "relay" /\ \A d \in Dirs : ~Running(d)
  /\ pc' = "closed"
  /\ UNCHANGED <<shape, pumps, streams, evicted, idle, quiet>>

\* (mutant) Only a relay that runs both ways is reaped.
ReapBoth ==
  /\ pc = "relay" /\ Idle # 0 /\ idle = Idle /\ \A d \in Dirs : Running(d)
  /\ pc' = IF mode = "tcp" THEN "failed" ELSE "reap"
  /\ task' = IF mode = "tcp" THEN AbortAll ELSE AbortUp
  /\ UNCHANGED <<shape, taken, sent, fin, streams, evicted, idle, quiet>>

\* The interval ticks and finds the relay idle: the copy is dropped; t1 is
\* aborted and awaited, then t2.
Reap ==
  /\ pc = "relay" /\ Idle # 0 /\ idle = Idle
  /\ pc' = IF mode = "tcp" THEN "failed" ELSE "reap"
  /\ task' = IF mode = "tcp" THEN AbortAll ELSE AbortUp
  /\ UNCHANGED <<shape, taken, sent, fin, streams, evicted, idle, quiet>>

Reaped ==
  /\ pc = "reap"
  /\ pc' = "closed"
  /\ task' = AbortAll
  /\ UNCHANGED <<shape, taken, sent, fin, streams, evicted, idle, quiet>>
-----------------------------------------------------------------------------
(* The two sides, and time *)

\* A gRPC upstream sends its response after the headers.
Answering(d) == d = "down" => pc \in {"relay", "reap"}

Write(d) ==
  /\ ~Over /\ Answering(d)
  /\ ended[d] = "no" /\ written[d] < MaxPieces
  /\ written' = [written EXCEPT ![d] = @ + 1]
  /\ UNCHANGED <<shape, pc, pumps, ended, sink, conn, evicted, idle, quiet>>

End(d) ==
  /\ ~Over /\ ended[d] = "no"
  /\ \/ ended' = [ended EXCEPT ![d] = "reset"]
     \/ mode = "fast" /\ d = "up" /\ ended' = [ended EXCEPT ![d] = "broken"]
     \/ Answering(d) /\ ended' = [ended EXCEPT ![d] = "eof"]
  /\ UNCHANGED <<shape, pc, pumps, written, sink, conn, evicted, idle, quiet>>

\* A side no longer takes what it is sent.
SinkGoes(d) ==
  /\ ~Over /\ sink[d]
  /\ sink' = [sink EXCEPT ![d] = FALSE]
  /\ UNCHANGED <<shape, pc, pumps, written, ended, conn, evicted, idle, quiet>>

\* The upstream HTTP/2 connection fails, and its stream with it.
ConnFails ==
  /\ ~Over /\ mode # "tcp" /\ conn
  /\ conn' = FALSE
  /\ sink' = [sink EXCEPT !["up"] = FALSE]
  /\ ended' = [ended EXCEPT !["down"] = IF @ = "no" THEN "reset" ELSE @]
  /\ UNCHANGED <<shape, pc, pumps, written, evicted, idle, quiet>>

Tick ==
  /\ pc \in {"headers", "relay"}
  /\ idle < Idle \/ quiet < Idle
  /\ idle' = IF idle < Idle THEN idle + 1 ELSE idle
  /\ quiet' = IF quiet < Idle THEN quiet + 1 ELSE quiet
  /\ UNCHANGED <<shape, pc, pumps, streams, evicted>>

Init ==
  /\ mode \in Modes /\ pieces \in FrameSizes
  /\ pc = IF mode = "fast" THEN "auth" ELSE "id"
  /\ task = [d \in Dirs |-> "none"]
  /\ written = [d \in Dirs |-> 0] /\ taken = [d \in Dirs |-> 0] /\ sent = [d \in Dirs |-> 0]
  /\ ended = [d \in Dirs |-> "no"] /\ fin = [d \in Dirs |-> FALSE]
  /\ sink = [d \in Dirs |-> TRUE]
  /\ conn = TRUE /\ evicted = FALSE
  /\ idle = 0 /\ quiet = 0

Pump(d) ==
  \/ \E n \in 1..MaxPieces : Read(d, n) \/ Skip(d, n)
  \/ SendErr(d) \/ ReadEnd(d) \/ ReadErr(d)
  \/ CopyRead(d) \/ CopyEnd(d) \/ CopyErr(d)

Relay == AuthIdErr \/ DrainAndClose \/ HeadersErr \/ Join \/ Reap \/ Reaped

Peers ==
  \/ ReadAuthId \/ SendAuth \/ AuthErr \/ Headers \/ ConnFails
  \/ \E d \in Dirs : Send(d) \/ CopyWrite(d) \/ Write(d) \/ End(d) \/ SinkGoes(d)

Next == Relay \/ (\E d \in Dirs : Pump(d)) \/ Peers \/ Tick

Spec == Init /\ [][Next]_vars

\* Tasks that are ready are polled, deadlines are met and time passes.  Nothing is
\* assumed of the two sides: they may stop writing, reading or answering for
\* ever.
FairSpec ==
  /\ Spec
  /\ WF_vars(Relay) /\ WF_vars(Tick) /\ \A d \in Dirs : WF_vars(Pump(d))
  /\ WF_vars((mode = "tcp" \/ ~sink["up"]) /\ AuthErr)
-----------------------------------------------------------------------------
(* Properties *)

\* Every variable keeps its type, and no pump is ahead of its source.
TypeOK ==
  /\ mode \in Modes /\ pieces \in FrameSizes
  /\ pc \in {"id", "drain", "auth", "headers", "relay", "reap", "closed", "failed"}
  /\ task \in [Dirs -> {"none", "read", "send", "copy", "ok", "err", "aborted"}]
  /\ written \in [Dirs -> 0..MaxPieces]
  /\ taken \in [Dirs -> 0..MaxPieces] /\ sent \in [Dirs -> 0..MaxPieces]
  /\ \A d \in Dirs : sent[d] <= taken[d] /\ taken[d] <= written[d]
  /\ ended \in [Dirs -> {"no", "eof", "reset", "broken"}]
  /\ fin \in [Dirs -> BOOLEAN] /\ sink \in [Dirs -> BOOLEAN]
  /\ conn \in BOOLEAN /\ evicted \in BOOLEAN
  /\ idle \in 0..Idle /\ quiet \in 0..Idle

\* A relay that is over, whatever ended it, has left no task running that holds
\* its streams.
NothingLeftRunning == Over => \A d \in Dirs : ~Running(d)

\* A side that sees the other's end has been sent everything that came before
\* it, but for a frame that was cut short.
EndComesLast ==
  \A d \in Dirs : fin[d] =>
    ended[d] = "eof" /\ \A m \in (sent[d] + 1)..written[d] : ~AtFrameEnd(d, m)

\* "half-close is valid proxy behavior": no direction is cut off because the
\* other has ended.  What cuts it off is the reaper, a response that does not
\* come, or (relay_tcp) an error of the other direction.
HalfCloseRespected ==
  [][\A d \in Dirs : Running(d) /\ task'[d] = "aborted" =>
        \/ pc \in {"headers", "reap"}
        \/ Idle # 0 /\ idle = Idle
        \/ mode = "tcp" /\ \E e \in Dirs : task'[e] = "err"]_vars

\* Only a relay in which nothing moved for the timeout is reaped, unless (gRPC) it
\* is in the middle of a frame.
ReapsOnlyIdle ==
  [][pc = "relay" /\ Reap =>
        quiet = Idle \/ (mode # "tcp" /\ \E d \in Dirs : sent[d] # taken[d])]_vars

\* With an idle timeout every connection ends once its two sides have nothing more to
\* write, however they fall silent, except that a gRPC upstream may keep it waiting
\* for a stream or for its response.
RelayEnds ==
  <>[](Over \/ (mode # "tcp" /\ pc \in {"auth", "headers"}))
=============================================================================
