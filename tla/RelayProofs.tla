----------------------------- MODULE RelayProofs -----------------------------
(***************************************************************************)
(* The safety of a relayed connection for all modes, frame sizes, lengths  *)
(* and timeouts.  The properties are made inductive by what a pump's state *)
(* says of its counters (Flow), what the relay's state says of its pumps   *)
(* (Phase), which pumps a mode has (Kind), and how the clock of            *)
(* RelayActivity relates to the last movement (Clock).                     *)
(* The buffers that its frame readers take from the pool come last.        *)
(***************************************************************************)
EXTENDS Relay, BufPool, TLAPS

\* A pump that reads has passed on all frames but a begun one, one that sends has
\* something to send, and one that has passed the end on is over.
Flow ==
  \A d \in Dirs :
    /\ task[d] = "none" => sent[d] = taken[d]
    /\ task[d] = "send" => sent[d] < taken[d]
    /\ task[d] = "read" => \A m \in (sent[d] + 1)..taken[d] : ~AtFrameEnd(d, m)
    /\ fin[d] => task[d] \in {"ok", "err", "aborted"}

\* Pumps start with the relay, the downward one after the response headers, and
\* are over before it.
Phase ==
  /\ pc \in {"id", "drain", "auth"} => \A d \in Dirs : task[d] = "none"
  /\ pc = "headers" => task["down"] = "none"
  /\ pc \in {"headers", "reap"} => mode # "tcp"
  /\ NothingLeftRunning

\* The copy is relay_tcp's alone, which has nothing else.
Kind ==
  \A d \in Dirs : IF mode = "tcp" THEN task[d] \notin {"read", "send"} ELSE task[d] # "copy"

\* Unless a frame is under way, the clock is no later than the last movement.
Clock == (mode = "tcp" \/ \A d \in Dirs : sent[d] = taken[d]) => quiet >= idle

IInv == TypeOK /\ Flow /\ Phase /\ Kind /\ Clock /\ EndComesLast
-----------------------------------------------------------------------------
\* Every step of a relay keeps the types, and no pump overtakes its source.
LEMMA TypeStep ==
    ASSUME TypeOK, Flow, Kind, [Next]_vars
    PROVE  TypeOK'
<1>1. ASSUME NEW d \in Dirs, NEW n \in 1..MaxPieces, Read(d, n) PROVE TypeOK'
    BY <1>1, BoundsAssumption DEF Read, Mark, TypeOK, Dirs, shape, pumps, streams
<1>2. ASSUME NEW d \in Dirs, NEW n \in 1..MaxPieces, Skip(d, n) PROVE TypeOK'
    BY <1>2, BoundsAssumption DEF Skip, TypeOK, Dirs, shape, pumps, streams
<1>3. ASSUME NEW d \in Dirs, Send(d) PROVE TypeOK'
    BY <1>3, BoundsAssumption DEF Send, Mark, Flow, TypeOK, Dirs, shape, pumps, streams
<1>4. ASSUME NEW d \in Dirs, SendErr(d) PROVE TypeOK'
    BY <1>4, BoundsAssumption, Zenon DEF SendErr, MayEvict, Evicts, TypeOK, Dirs, shape, pumps, streams
<1>5. ASSUME NEW d \in Dirs, ReadEnd(d) PROVE TypeOK'
    BY <1>5, BoundsAssumption DEF ReadEnd, TypeOK, Dirs, shape, pumps, streams
<1>6. ASSUME NEW d \in Dirs, ReadErr(d) PROVE TypeOK'
    BY <1>6, BoundsAssumption, Zenon DEF ReadErr, MayEvict, Evicts, TypeOK, Dirs, shape, pumps, streams
<1>7. ASSUME NEW d \in Dirs, CopyRead(d) PROVE TypeOK'
    BY <1>7, BoundsAssumption DEF CopyRead, Mark, TypeOK, Dirs, shape, pumps, streams
<1>8. ASSUME NEW d \in Dirs, CopyWrite(d) PROVE TypeOK'
    BY <1>8, BoundsAssumption DEF CopyWrite, Mark, TypeOK, Dirs, shape, pumps, streams
<1>9. ASSUME NEW d \in Dirs, CopyEnd(d) PROVE TypeOK'
    BY <1>9, BoundsAssumption DEF CopyEnd, TypeOK, Dirs, shape, pumps, streams
<1>10. ASSUME NEW d \in Dirs, CopyErr(d) PROVE TypeOK'
    BY <1>10, BoundsAssumption DEF CopyErr, TypeOK, Dirs, shape, pumps, streams
<1>11. ASSUME ReadAuthId PROVE TypeOK'
    BY <1>11, BoundsAssumption DEF ReadAuthId, TypeOK, Dirs, shape, pumps, streams
<1>12. ASSUME AuthIdErr PROVE TypeOK'
    BY <1>12, BoundsAssumption DEF AuthIdErr, TypeOK, Dirs, shape, pumps, streams
<1>13. ASSUME DrainAndClose PROVE TypeOK'
    BY <1>13, BoundsAssumption DEF DrainAndClose, TypeOK, Dirs, shape, pumps, streams
<1>14. ASSUME SendAuth PROVE TypeOK'
    BY <1>14, BoundsAssumption DEF SendAuth, TypeOK, Dirs, shape, pumps, streams
<1>15. ASSUME AuthErr PROVE TypeOK'
    BY <1>15, BoundsAssumption DEF AuthErr, TypeOK, Dirs, shape, pumps, streams
<1>16. ASSUME Headers PROVE TypeOK'
    BY <1>16, BoundsAssumption DEF Headers, TypeOK, Dirs, shape, pumps, streams
<1>17. ASSUME HeadersErr PROVE TypeOK'
    BY <1>17, BoundsAssumption, Zenon DEF HeadersErr, MayEvict, AbortAll, TypeOK, Dirs, shape, pumps,
       streams
<1>18. ASSUME Join PROVE TypeOK'
    BY <1>18, BoundsAssumption DEF Join, TypeOK, Dirs, shape, pumps, streams
<1>19. ASSUME Reap PROVE TypeOK'
    BY <1>19, BoundsAssumption DEF Reap, AbortAll, AbortUp, TypeOK, Dirs, shape, pumps, streams
<1>20. ASSUME Reaped PROVE TypeOK'
    BY <1>20, BoundsAssumption DEF Reaped, AbortAll, TypeOK, Dirs, shape, pumps, streams
<1>21. ASSUME NEW d \in Dirs, Write(d) PROVE TypeOK'
    BY <1>21, BoundsAssumption DEF Write, TypeOK, Dirs, shape, pumps, streams
<1>22. ASSUME NEW d \in Dirs, End(d) PROVE TypeOK'
    BY <1>22, BoundsAssumption DEF End, TypeOK, Dirs, shape, pumps, streams
<1>23. ASSUME NEW d \in Dirs, SinkGoes(d) PROVE TypeOK'
    BY <1>23, BoundsAssumption DEF SinkGoes, TypeOK, Dirs, shape, pumps, streams
<1>24. ASSUME ConnFails PROVE TypeOK'
    BY <1>24, BoundsAssumption, Zenon DEF ConnFails, TypeOK, Dirs, shape, pumps, streams
<1>25. ASSUME Tick PROVE TypeOK'
    BY <1>25, BoundsAssumption DEF Tick, TypeOK, Dirs, shape, pumps, streams
<1>26. CASE UNCHANGED vars
    BY <1>26 DEF vars, shape, pumps, streams, TypeOK, Dirs, shape, pumps, streams
<1>. QED
    BY <1>1, <1>2, <1>3, <1>4, <1>5, <1>6, <1>7, <1>8, <1>9, <1>10, <1>11, <1>12, <1>13, <1>14,
       <1>15, <1>16, <1>17, <1>18, <1>19, <1>20, <1>21, <1>22, <1>23, <1>24, <1>25, <1>26 DEF
       Next, Relay, Pump, Peers

\* A task of handle_stream keeps to the pumps of its mode.
LEMMA KindStep ==
    ASSUME TypeOK, Phase, Kind, [Next]_vars
    PROVE  Kind'
<1>1. ASSUME NEW d \in Dirs, NEW n \in 1..MaxPieces, Read(d, n) PROVE Kind'
    BY <1>1 DEF Read, Mark, TypeOK, Kind, Phase, Running, Dirs, shape, pumps, streams
<1>2. ASSUME NEW d \in Dirs, Send(d) PROVE Kind'
    BY <1>2 DEF Send, Mark, TypeOK, Kind, Phase, Running, Dirs, shape, pumps, streams
<1>3. ASSUME NEW d \in Dirs, SendErr(d) PROVE Kind'
    BY <1>3 DEF SendErr, MayEvict, Evicts, TypeOK, Kind, Phase, Running, Dirs, shape, pumps, streams
<1>4. ASSUME NEW d \in Dirs, ReadEnd(d) PROVE Kind'
    BY <1>4 DEF ReadEnd, TypeOK, Kind, Phase, Running, Dirs, shape, pumps, streams
<1>5. ASSUME NEW d \in Dirs, ReadErr(d) PROVE Kind'
    BY <1>5 DEF ReadErr, MayEvict, Evicts, TypeOK, Kind, Phase, Running, Dirs, shape, pumps, streams
<1>6. ASSUME NEW d \in Dirs, CopyEnd(d) PROVE Kind'
    BY <1>6 DEF CopyEnd, TypeOK, Kind, Phase, Running, Dirs, shape, pumps, streams
<1>7. ASSUME NEW d \in Dirs, CopyErr(d) PROVE Kind'
    BY <1>7 DEF CopyErr, TypeOK, Kind, Phase, Running, Dirs, shape, pumps, streams
<1>8. ASSUME SendAuth PROVE Kind'
    BY <1>8 DEF SendAuth, TypeOK, Kind, Phase, Running, Dirs, shape, pumps, streams
<1>9. ASSUME Headers PROVE Kind'
    BY <1>9 DEF Headers, TypeOK, Kind, Phase, Running, Dirs, shape, pumps, streams
<1>10. ASSUME HeadersErr PROVE Kind'
    BY <1>10 DEF HeadersErr, MayEvict, AbortAll, TypeOK, Kind, Phase, Running, Dirs, shape,
       pumps, streams
<1>11. ASSUME Reap PROVE Kind'
    BY <1>11 DEF Reap, AbortAll, AbortUp, TypeOK, Kind, Phase, Running, Dirs, shape, pumps, streams
<1>12. ASSUME Reaped PROVE Kind'
    BY <1>12 DEF Reaped, AbortAll, TypeOK, Kind, Phase, Running, Dirs, shape, pumps, streams
<1>13. CASE UNCHANGED <<mode, task>>
    BY <1>13 DEF TypeOK, Kind, Phase, Running, Dirs, shape, pumps, streams
<1>. QED
    BY ZenonT(30), <1>1, <1>2, <1>3, <1>4, <1>5, <1>6, <1>7, <1>8, <1>9, <1>10, <1>11, <1>12, <1>13 DEF
       Next, Relay, Pump, Peers, Skip, CopyRead, CopyWrite, ReadAuthId, AuthIdErr,
       DrainAndClose, AuthErr, Join, Write, End, SinkGoes, ConnFails, Tick, vars, shape, pumps,
       streams, Zenon

\* The tasks of a relay start and end with its phases.
LEMMA PhaseStep ==
    ASSUME TypeOK, Phase, Kind, [Next]_vars
    PROVE  Phase'
<1>1. ASSUME NEW d \in Dirs, NEW n \in 1..MaxPieces, Read(d, n) PROVE Phase'
    BY <1>1 DEF Read, Mark, TypeOK, Phase, Kind, NothingLeftRunning, Over, Running, Dirs, shape,
       pumps, streams
<1>2. ASSUME NEW d \in Dirs, Send(d) PROVE Phase'
    BY <1>2 DEF Send, Mark, TypeOK, Phase, Kind, NothingLeftRunning, Over, Running, Dirs, shape,
       pumps, streams
<1>3. ASSUME NEW d \in Dirs, SendErr(d) PROVE Phase'
    BY <1>3 DEF SendErr, MayEvict, Evicts, TypeOK, Phase, Kind, NothingLeftRunning, Over,
       Running, Dirs, shape, pumps, streams
<1>4. ASSUME NEW d \in Dirs, ReadEnd(d) PROVE Phase'
    BY <1>4 DEF ReadEnd, TypeOK, Phase, Kind, NothingLeftRunning, Over, Running, Dirs, shape,
       pumps, streams
<1>5. ASSUME NEW d \in Dirs, ReadErr(d) PROVE Phase'
    BY <1>5 DEF ReadErr, MayEvict, Evicts, TypeOK, Phase, Kind, NothingLeftRunning, Over,
       Running, Dirs, shape, pumps, streams
<1>6. ASSUME NEW d \in Dirs, CopyEnd(d) PROVE Phase'
    BY <1>6 DEF CopyEnd, TypeOK, Phase, Kind, NothingLeftRunning, Over, Running, Dirs, shape,
       pumps, streams
<1>7. ASSUME NEW d \in Dirs, CopyErr(d) PROVE Phase'
    BY <1>7 DEF CopyErr, TypeOK, Phase, Kind, NothingLeftRunning, Over, Running, Dirs, shape,
       pumps, streams
<1>8. ASSUME ReadAuthId PROVE Phase'
    BY <1>8 DEF ReadAuthId, TypeOK, Phase, Kind, NothingLeftRunning, Over, Running, Dirs, shape,
       pumps, streams
<1>9. ASSUME AuthIdErr PROVE Phase'
    BY <1>9 DEF AuthIdErr, TypeOK, Phase, Kind, NothingLeftRunning, Over, Running, Dirs, shape,
       pumps, streams
<1>10. ASSUME DrainAndClose PROVE Phase'
    BY <1>10 DEF DrainAndClose, TypeOK, Phase, Kind, NothingLeftRunning, Over, Running, Dirs,
       shape, pumps, streams
<1>11. ASSUME SendAuth PROVE Phase'
    BY <1>11 DEF SendAuth, TypeOK, Phase, Kind, NothingLeftRunning, Over, Running, Dirs, shape,
       pumps, streams
<1>12. ASSUME AuthErr PROVE Phase'
    BY <1>12 DEF AuthErr, TypeOK, Phase, Kind, NothingLeftRunning, Over, Running, Dirs, shape,
       pumps, streams
<1>13. ASSUME Headers PROVE Phase'
    BY <1>13 DEF Headers, TypeOK, Phase, Kind, NothingLeftRunning, Over, Running, Dirs, shape,
       pumps, streams
<1>14. ASSUME HeadersErr PROVE Phase'
    BY <1>14 DEF HeadersErr, MayEvict, AbortAll, TypeOK, Phase, Kind, NothingLeftRunning, Over,
       Running, Dirs, shape, pumps, streams
<1>15. ASSUME Join PROVE Phase'
    BY <1>15 DEF Join, TypeOK, Phase, Kind, NothingLeftRunning, Over, Running, Dirs, shape,
       pumps, streams
<1>16. ASSUME Reap PROVE Phase'
    BY <1>16 DEF Reap, AbortAll, AbortUp, TypeOK, Phase, Kind, NothingLeftRunning, Over,
       Running, Dirs, shape, pumps, streams
<1>17. ASSUME Reaped PROVE Phase'
    BY <1>17 DEF Reaped, AbortAll, TypeOK, Phase, Kind, NothingLeftRunning, Over, Running, Dirs,
       shape, pumps, streams
<1>18. CASE UNCHANGED <<mode, pc, task>>
    BY <1>18 DEF TypeOK, Phase, Kind, NothingLeftRunning, Over, Running, Dirs, shape, pumps, streams
<1>. QED
    BY <1>1, <1>2, <1>3, <1>4, <1>5, <1>6, <1>7, <1>8, <1>9, <1>10, <1>11, <1>12, <1>13, <1>14,
       <1>15, <1>16, <1>17, <1>18, Zenon DEF Next, Relay, Pump, Peers, Skip, CopyRead, CopyWrite,
       Write, End, SinkGoes, ConnFails, Tick, vars, shape, pumps, streams

\* RelayActivity::mark is called for every movement that completes a frame.
LEMMA ClockStep ==
    ASSUME TypeOK, Flow, Kind, Clock, [Next]_vars
    PROVE  Clock'
<1>1. ASSUME NEW d \in Dirs, NEW n \in 1..MaxPieces, Read(d, n) PROVE Clock'
    BY SMTT(30), Zenon, <1>1 DEF Read, Mark, TypeOK, Flow, Kind, Clock, Dirs, shape, pumps, streams
<1>2. ASSUME NEW d \in Dirs, NEW n \in 1..MaxPieces, Skip(d, n) PROVE Clock'
    BY <1>2 DEF Skip, TypeOK, Flow, Kind, Clock, Dirs, shape, pumps, streams
<1>3. ASSUME NEW d \in Dirs, Send(d) PROVE Clock'
    BY <1>3 DEF Send, Mark, TypeOK, Flow, Kind, Clock, Dirs, shape, pumps, streams
<1>4. ASSUME NEW d \in Dirs, CopyRead(d) PROVE Clock'
    BY <1>4 DEF CopyRead, Mark, TypeOK, Flow, Kind, Clock, Dirs, shape, pumps, streams
<1>5. ASSUME NEW d \in Dirs, CopyWrite(d) PROVE Clock'
    BY <1>5 DEF CopyWrite, Mark, TypeOK, Flow, Kind, Clock, Dirs, shape, pumps, streams
<1>6. ASSUME SendAuth PROVE Clock'
    BY <1>6 DEF SendAuth, TypeOK, Flow, Kind, Clock, Dirs, shape, pumps, streams
<1>7. ASSUME Tick PROVE Clock'
    BY <1>7 DEF Tick, TypeOK, Flow, Kind, Clock, Dirs, shape, pumps, streams
<1>8. CASE UNCHANGED <<mode, sent, taken, idle, quiet>>
    BY <1>8 DEF TypeOK, Flow, Kind, Clock, Dirs, shape, pumps, streams
<1>. QED
    BY <1>1, <1>2, <1>3, <1>4, <1>5, <1>6, <1>7, <1>8, Zenon DEF Next, Relay, Pump, Peers, SendErr,
       ReadEnd, ReadErr, CopyEnd, CopyErr, ReadAuthId, AuthIdErr, DrainAndClose, AuthErr,
       Headers, HeadersErr, Join, Reap, Reaped, Write, End, SinkGoes, ConnFails, vars, shape,
       pumps, streams

\* Counters and states of the pumps stay in step.
LEMMA FlowStep ==
    ASSUME TypeOK, Flow, Phase, Kind, [Next]_vars
    PROVE  Flow'
<1>1. ASSUME NEW d \in Dirs, NEW n \in 1..MaxPieces, Read(d, n) PROVE Flow'
    BY <1>1 DEF Read, Mark, TypeOK, Flow, Phase, Kind, AtFrameEnd, Framed, Running, Dirs, shape,
       pumps, streams
<1>2. ASSUME NEW d \in Dirs, NEW n \in 1..MaxPieces, Skip(d, n) PROVE Flow'
    BY <1>2 DEF Skip, TypeOK, Flow, Phase, Kind, AtFrameEnd, Framed, Running, Dirs, shape,
       pumps, streams
<1>3. ASSUME NEW d \in Dirs, Send(d) PROVE Flow'
    BY <1>3 DEF Send, Mark, TypeOK, Flow, Phase, Kind, AtFrameEnd, Framed, Running, Dirs, shape,
       pumps, streams
<1>4. ASSUME NEW d \in Dirs, SendErr(d) PROVE Flow'
    BY <1>4 DEF SendErr, MayEvict, Evicts, TypeOK, Flow, Phase, Kind, AtFrameEnd, Framed,
       Running, Dirs, shape, pumps, streams
<1>5. ASSUME NEW d \in Dirs, ReadEnd(d) PROVE Flow'
    BY <1>5 DEF ReadEnd, TypeOK, Flow, Phase, Kind, AtFrameEnd, Framed, Running, Dirs, shape,
       pumps, streams
<1>6. ASSUME NEW d \in Dirs, ReadErr(d) PROVE Flow'
    BY <1>6 DEF ReadErr, MayEvict, Evicts, TypeOK, Flow, Phase, Kind, AtFrameEnd, Framed,
       Running, Dirs, shape, pumps, streams
<1>7. ASSUME NEW d \in Dirs, CopyRead(d) PROVE Flow'
    BY <1>7 DEF CopyRead, Mark, TypeOK, Flow, Phase, Kind, AtFrameEnd, Framed, Running, Dirs,
       shape, pumps, streams
<1>8. ASSUME NEW d \in Dirs, CopyWrite(d) PROVE Flow'
    BY <1>8 DEF CopyWrite, Mark, TypeOK, Flow, Phase, Kind, AtFrameEnd, Framed, Running, Dirs,
       shape, pumps, streams
<1>9. ASSUME NEW d \in Dirs, CopyEnd(d) PROVE Flow'
    BY <1>9 DEF CopyEnd, TypeOK, Flow, Phase, Kind, AtFrameEnd, Framed, Running, Dirs, shape,
       pumps, streams
<1>10. ASSUME NEW d \in Dirs, CopyErr(d) PROVE Flow'
    BY <1>10 DEF CopyErr, TypeOK, Flow, Phase, Kind, AtFrameEnd, Framed, Running, Dirs, shape,
       pumps, streams
<1>11. ASSUME SendAuth PROVE Flow'
    BY <1>11 DEF SendAuth, TypeOK, Flow, Phase, Kind, AtFrameEnd, Framed, Running, Dirs, shape,
       pumps, streams
<1>12. ASSUME Headers PROVE Flow'
    BY <1>12 DEF Headers, TypeOK, Flow, Phase, Kind, AtFrameEnd, Framed, Running, Dirs, shape,
       pumps, streams
<1>13. ASSUME HeadersErr PROVE Flow'
    BY <1>13 DEF HeadersErr, MayEvict, AbortAll, TypeOK, Flow, Phase, Kind, AtFrameEnd, Framed,
       Running, Dirs, shape, pumps, streams
<1>14. ASSUME Reap PROVE Flow'
    BY <1>14 DEF Reap, AbortAll, AbortUp, TypeOK, Flow, Phase, Kind, AtFrameEnd, Framed,
       Running, Dirs, shape, pumps, streams
<1>15. ASSUME Reaped PROVE Flow'
    BY <1>15 DEF Reaped, AbortAll, TypeOK, Flow, Phase, Kind, AtFrameEnd, Framed, Running, Dirs,
       shape, pumps, streams
<1>16. CASE UNCHANGED <<mode, pieces, task, sent, taken, fin>>
    BY <1>16 DEF TypeOK, Flow, Phase, Kind, AtFrameEnd, Framed, Running, Dirs, shape, pumps, streams
<1>. QED
    BY Zenon, <1>1, <1>2, <1>3, <1>4, <1>5, <1>6, <1>7, <1>8, <1>9, <1>10, <1>11, <1>12, <1>13, <1>14,
       <1>15, <1>16 DEF Next, Relay, Pump, Peers, ReadAuthId, AuthIdErr, DrainAndClose, AuthErr,
       Join, Write, End, SinkGoes, ConnFails, Tick, vars, shape, pumps, streams

\* An end is passed on last, and nothing is written after it.
LEMMA EndStep ==
    ASSUME TypeOK, Flow, EndComesLast, [Next]_vars
    PROVE  EndComesLast'
<1>1. ASSUME NEW d \in Dirs, NEW n \in 1..MaxPieces, Read(d, n) PROVE EndComesLast'
    BY SMTT(30), Zenon, <1>1 DEF Read, Mark, TypeOK, Flow, EndComesLast, AtFrameEnd, Framed, Dirs, shape, pumps,
       streams
<1>2. ASSUME NEW d \in Dirs, NEW n \in 1..MaxPieces, Skip(d, n) PROVE EndComesLast'
    BY <1>2 DEF Skip, TypeOK, Flow, EndComesLast, AtFrameEnd, Framed, Dirs, shape, pumps, streams
<1>3. ASSUME NEW d \in Dirs, Send(d) PROVE EndComesLast'
    BY <1>3 DEF Send, Mark, TypeOK, Flow, EndComesLast, AtFrameEnd, Framed, Dirs, shape, pumps,
       streams
<1>4. ASSUME NEW d \in Dirs, ReadEnd(d) PROVE EndComesLast'
    BY <1>4 DEF ReadEnd, TypeOK, Flow, EndComesLast, AtFrameEnd, Framed, Dirs, shape, pumps, streams
<1>5. ASSUME NEW d \in Dirs, CopyRead(d) PROVE EndComesLast'
    BY <1>5 DEF CopyRead, Mark, TypeOK, Flow, EndComesLast, AtFrameEnd, Framed, Dirs, shape,
       pumps, streams
<1>6. ASSUME NEW d \in Dirs, CopyWrite(d) PROVE EndComesLast'
    BY <1>6 DEF CopyWrite, Mark, TypeOK, Flow, EndComesLast, AtFrameEnd, Framed, Dirs, shape,
       pumps, streams
<1>7. ASSUME NEW d \in Dirs, CopyEnd(d) PROVE EndComesLast'
    BY <1>7 DEF CopyEnd, TypeOK, Flow, EndComesLast, AtFrameEnd, Framed, Dirs, shape, pumps, streams
<1>8. ASSUME NEW d \in Dirs, Write(d) PROVE EndComesLast'
    BY <1>8 DEF Write, TypeOK, Flow, EndComesLast, AtFrameEnd, Framed, Dirs, shape, pumps, streams
<1>9. ASSUME NEW d \in Dirs, End(d) PROVE EndComesLast'
    BY <1>9 DEF End, TypeOK, Flow, EndComesLast, AtFrameEnd, Framed, Dirs, shape, pumps, streams
<1>10. ASSUME ConnFails PROVE EndComesLast'
    BY <1>10 DEF ConnFails, TypeOK, Flow, EndComesLast, AtFrameEnd, Framed, Dirs, shape, pumps,
       streams
<1>11. CASE UNCHANGED <<mode, pieces, fin, ended, sent, written>>
    BY <1>11 DEF TypeOK, Flow, EndComesLast, AtFrameEnd, Framed, Dirs, shape, pumps, streams
<1>. QED
    BY <1>1, <1>2, <1>3, <1>4, <1>5, <1>6, <1>7, <1>8, <1>9, <1>10, <1>11, Zenon DEF Next, Relay, Pump,
       Peers, SendErr, ReadErr, CopyErr, ReadAuthId, AuthIdErr, DrainAndClose, SendAuth,
       AuthErr, Headers, HeadersErr, Join, Reap, Reaped, SinkGoes, Tick, vars, shape, pumps,
       streams

\* The invariant of a relayed connection holds in every behaviour.
LEMMA Invariant == Spec => []IInv
<1>1. Init => IInv
  <2> SUFFICES ASSUME Init PROVE IInv
    OBVIOUS
  <2>1. TypeOK
    <3>1. /\ pc \in {"id", "auth"} /\ mode \in Modes /\ pieces \in FrameSizes
          /\ 0 \in 0..MaxPieces /\ 0 \in 0..Idle
      BY BoundsAssumption DEF Init
    <3>2. \A d \in Dirs : sent[d] <= taken[d] /\ taken[d] <= written[d]
      BY DEF Init
    <3>3. /\ fin \in [Dirs -> BOOLEAN] /\ sink \in [Dirs -> BOOLEAN]
          /\ conn \in BOOLEAN /\ evicted \in BOOLEAN
      BY Zenon DEF Init
    <3>. QED
      BY <3>1, <3>2, <3>3 DEF Init, TypeOK
  <2>2. Flow /\ EndComesLast
    <3>1. \A d \in Dirs : task[d] = "none" /\ fin[d] = FALSE /\ sent[d] = 0 /\ taken[d] = 0
      BY DEF Init
    <3>. QED
      BY <3>1 DEF Flow, EndComesLast
  <2>3. Phase /\ Kind /\ Clock
    BY ModeAssumption DEF Init, Phase, NothingLeftRunning, Over, Running, Kind, Clock
  <2>. QED
    BY <2>1, <2>2, <2>3 DEF IInv
<1>2. IInv /\ [Next]_vars => IInv'
    BY TypeStep, KindStep, PhaseStep, ClockStep, FlowStep, EndStep DEF IInv
<1>. QED
    BY <1>1, <1>2, PTL DEF Spec

\* A relay that is over, whatever ended it, has left neither t1 nor t2 nor a copy
\* running (wait_grpc_relay, await_grpc_response_headers, relay_tcp).
THEOREM NoTaskOutlivesItsRelay == Spec => []NothingLeftRunning
<1>1. IInv => NothingLeftRunning
    BY DEF IInv, Phase
<1>. QED
    BY <1>1, Invariant, PTL

\* No pump passes its source's end on before everything that came before it.
THEOREM EndsComeLast == Spec => []EndComesLast
<1>1. IInv => EndComesLast
    BY DEF IInv
<1>. QED
    BY <1>1, Invariant, PTL

\* The end of one direction never cuts the other off in wait_grpc_relay,
\* wait_grpc_fast_relay and copy_bidirectional_with_idle_timeout.
THEOREM HalfClosesAreRespected == Spec => HalfCloseRespected
<1> DEFINE Justified ==
      \A d \in Dirs : Running(d) /\ task'[d] = "aborted" =>
        \/ pc \in {"headers", "reap"}
        \/ Idle # 0 /\ idle = Idle
        \/ mode = "tcp" /\ \E e \in Dirs : task'[e] = "err"
<1>1. ASSUME IInv, [Next]_vars PROVE [Justified]_vars
  <2>1. TypeOK /\ Kind
    BY <1>1 DEF IInv
  <2>2. ASSUME NEW d \in Dirs, CopyErr(d) PROVE Justified
    BY <2>1, <2>2 DEF CopyErr, Kind, Dirs
  <2>3. ASSUME NEW d \in Dirs, Pump(d) \/ Send(d) \/ CopyWrite(d), ~CopyErr(d) PROVE Justified
    BY <2>1, <2>3, ZenonT(60)
    DEF TypeOK, Pump, Read, Skip, Send, SendErr, ReadEnd, ReadErr, CopyRead, CopyWrite, CopyEnd,
        Running, Dirs, pumps
  <2>4. CASE HeadersErr \/ Reap \/ Reaped
    BY <2>4 DEF HeadersErr, Reap, Reaped
  <2>5. CASE SendAuth \/ Headers
    BY <2>1, <2>5 DEF TypeOK, SendAuth, Headers, Running, Dirs
  <2>6. CASE UNCHANGED task
    BY <2>1, <2>6 DEF Running
  <2>. QED
    BY Zenon, <1>1, <2>2, <2>3, <2>4, <2>5, <2>6
    DEF Next, Relay, Peers, ReadAuthId, AuthIdErr, DrainAndClose, AuthErr, Join, ConnFails, Write,
        End, SinkGoes, Tick, vars, pumps
<1>. QED
    BY <1>1, Invariant, PTL DEF Spec, HalfCloseRespected

\* The reaper ends only relays in which nothing moved for the whole timeout, or
\* which are in the middle of a frame (RelayActivity, wait_grpc_relay).
THEOREM ReapingSparesTheActive == Spec => ReapsOnlyIdle
<1> DEFINE Spared ==
      pc = "relay" /\ Reap =>
        quiet = Idle \/ (mode # "tcp" /\ \E d \in Dirs : sent[d] # taken[d])
<1>1. ASSUME IInv, [Next]_vars PROVE [Spared]_vars
  <2>1. Reap => idle = Idle
    BY DEF Reap
  <2>2. quiet \in 0..Idle /\ Idle \in Nat
    BY <1>1, BoundsAssumption DEF IInv, TypeOK
  <2>. QED
    BY <1>1, <2>1, <2>2 DEF IInv, Clock
<1>. QED
    BY <1>1, Invariant, PTL DEF Spec, ReapsOnlyIdle

-----------------------------------------------------------------------------
(* The buffer pool, for any size classes, any limit per class and any number *)
(* of users.  The types say that what a free list holds are buffers, which   *)
(* is what makes clearing one of them leave no bytes in it.                  *)

BufInv == BufTypeOK /\ OwnBytes

\* A new buffer, a cleared one and one with other contents are buffers.
LEMMA BufferFacts ==
    /\ \A n \in 0..MaxCap : WithCapacity(n) \in Buffer /\ WithCapacity(n).bytes = {}
    /\ \A b \in Buffer : Cleared(b) \in Buffer /\ Cleared(b).bytes = {}
    /\ \A b \in Buffer, w \in SUBSET Users :
         [b EXCEPT !.bytes = w] \in Buffer /\ [b EXCEPT !.bytes = w].bytes = w
    /\ \A n \in 0..MaxCap, w \in SUBSET Users :
         LET b == [cap |-> n, bytes |-> w] IN b \in Buffer /\ b.bytes = w
BY DEF WithCapacity, Cleared, Buffer

\* A user whose buffer is replaced by one with its own bytes: the step of get, Fill,
\* Grow and SplitTo on the buffers that are out.
LEMMA Replaced ==
    ASSUME BufInv, NEW u \in Users, NEW b \in Buffer, b.bytes \subseteq {u},
           buf' = [buf EXCEPT ![u] = b], NEW x \in {"none", "taken"},
           state' = [state EXCEPT ![u] = x]
    PROVE  /\ state' \in [Users -> {"none", "taken"}] /\ buf' \in [Users -> Buffer]
           /\ OwnBytes'
BY DEF BufInv, BufTypeOK, OwnBytes

\* Writing the state that was there changes nothing.
LEMMA SameState ==
    ASSUME BufInv, NEW u \in Users, state[u] = "taken", state' = state
    PROVE  state' = [state EXCEPT ![u] = "taken"]
BY DEF BufInv, BufTypeOK

\* Popping the last buffer of a free list leaves a free list.
LEMMA PopFacts ==
    ASSUME NEW S, NEW q \in Seq(S), q # <<>>
    PROVE  q[Len(q)] \in S /\ Popped(q) \in Seq(S)
<1>1. Len(q) \in Nat \ {0} /\ q[Len(q)] \in S /\ \A i \in 1..(Len(q) - 1) : q[i] \in S
    OBVIOUS
<1>2. Popped(q) \in [1..(Len(q) - 1) -> S]
    BY <1>1 DEF Popped
<1>. QED
    BY <1>1, <1>2

\* get clears the free buffer it takes.
LEMMA GetPooledStep ==
    ASSUME BufInv, NEW u \in Users, NEW n \in Requests, GetPooled(u, n)
    PROVE  BufInv'
<1>1. PICK c \in Classes :
        /\ buckets[c] # <<>>
        /\ buf' = [buf EXCEPT ![u] = Cleared(buckets[c][Len(buckets[c])])]
        /\ buckets' = [buckets EXCEPT ![c] = Popped(@)]
    BY ZenonT(60) DEF GetPooled, ClassFor
<1> DEFINE q == buckets[c]
<1>2. q \in Seq(Buffer) /\ q # <<>>
    BY <1>1, ZenonT(60) DEF BufInv, BufTypeOK
<1>3. q[Len(q)] \in Buffer /\ Popped(q) \in Seq(Buffer)
    BY ZenonT(60), <1>2, PopFacts
<1>4. Cleared(q[Len(q)]) \in Buffer /\ Cleared(q[Len(q)]).bytes = {}
    BY ZenonT(60), <1>3, BufferFacts
<1>5. state' = [state EXCEPT ![u] = "taken"]
    BY ZenonT(60) DEF GetPooled
<1>6. buckets' \in [Classes -> Seq(Buffer)]
    BY ZenonT(60), <1>1, <1>3 DEF BufInv, BufTypeOK
<1>7. Cleared(q[Len(q)]).bytes \subseteq {u}
    BY <1>4, ZenonT(60)
<1>. QED
    BY ZenonT(60), <1>1, <1>4, <1>5, <1>6, <1>7, Replaced DEF BufInv, BufTypeOK

\* A new buffer has no bytes in it.
LEMMA GetNewStep ==
    ASSUME BufInv, NEW u \in Users, NEW n \in Requests, GetNew(u, n)
    PROVE  BufInv'
<1>1. \E k \in 0..MaxCap : buf' = [buf EXCEPT ![u] = WithCapacity(k)]
  <2>1. CASE \E c \in ClassFor(n) : buf' = [buf EXCEPT ![u] = WithCapacity(Sizes[c])]
    <3>1. PICK c \in Classes : buf' = [buf EXCEPT ![u] = WithCapacity(Sizes[c])]
      BY <2>1, ZenonT(60) DEF ClassFor
    <3>2. Sizes[c] \in 0..MaxCap
      BY ONLY SizesAssumption, c \in Classes DEF Classes
    <3>. QED
      BY <3>1, <3>2, ZenonT(60)
  <2>2. CASE buf' = [buf EXCEPT ![u] = WithCapacity(n)]
    BY <2>2, SizesAssumption, ZenonT(60)
  <2>. QED
    BY <2>1, <2>2, ZenonT(60) DEF GetNew
<1>2. PICK k \in 0..MaxCap : buf' = [buf EXCEPT ![u] = WithCapacity(k)]
    BY <1>1
<1>3. state' = [state EXCEPT ![u] = "taken"] /\ buckets' = buckets
    BY ZenonT(60) DEF GetNew
<1>4. WithCapacity(k) \in Buffer /\ WithCapacity(k).bytes \subseteq {u}
    BY ZenonT(60), BufferFacts
<1>. QED
    BY ZenonT(60), <1>2, <1>3, <1>4, Replaced DEF BufInv, BufTypeOK

\* put leaves buffers in the free lists, with whatever bytes they have.
LEMMA PutStep ==
    ASSUME BufInv, NEW u \in Users, Put(u)
    PROVE  BufInv'
<1>1. PICK b \in {buf[u], [buf[u] EXCEPT !.bytes = {}]} :
        buckets' = [c \in Classes |->
                      IF c \in ClassFor(b.cap) /\ Len(buckets[c]) < MaxPoolPerClass
                      THEN Append(buckets[c], b) ELSE buckets[c]]
    BY ZenonT(60) DEF Put
<1>2. buf[u] \in Buffer
    BY ZenonT(60) DEF BufInv, BufTypeOK
<1>3. b \in Buffer
  <2>1. [buf[u] EXCEPT !.bytes = {}] \in Buffer
    BY ONLY <1>2, SMTT(30) DEF Buffer
  <2>2. b = buf[u] \/ b = [buf[u] EXCEPT !.bytes = {}]
    BY ONLY b \in {buf[u], [buf[u] EXCEPT !.bytes = {}]}, ZenonT(60)
  <2>. QED
    BY ONLY <1>2, <2>1, <2>2, ZenonT(60)
<1>4. \A c \in Classes : buckets[c] \in Seq(Buffer)
    BY ZenonT(60) DEF BufInv, BufTypeOK
<1>5. \A c \in Classes : Append(buckets[c], b) \in Seq(Buffer)
    BY <1>3, <1>4
<1>6. buckets' \in [Classes -> Seq(Buffer)]
    BY ZenonT(60), <1>1, <1>4, <1>5
<1>7. 0 \in 0..MaxCap
    BY SizesAssumption
<1>8. WithCapacity(0) \in Buffer /\ WithCapacity(0).bytes \subseteq {u}
    BY ZenonT(60), <1>7, BufferFacts
<1>9. state' = [state EXCEPT ![u] = "none"] /\ buf' = [buf EXCEPT ![u] = WithCapacity(0)]
    BY ZenonT(60) DEF Put
<1>. QED
    BY ZenonT(60), <1>6, <1>8, <1>9, Replaced DEF BufInv, BufTypeOK

\* What a user does to its buffer adds its own bytes only.
LEMMA UseStep ==
    ASSUME BufInv, NEW u \in Users, NEW n \in 1..MaxCap, Fill(u) \/ Grow(u, n) \/ SplitTo(u, n)
    PROVE  BufInv'
<1>1. /\ state[u] = "taken" /\ state' = state /\ buckets' = buckets
      /\ buf[u] \in Buffer /\ buf[u].bytes \subseteq {u} /\ buf[u].bytes \in SUBSET Users
    BY DEF Fill, Grow, SplitTo, BufInv, BufTypeOK, OwnBytes, Buffer
<1>2. \E b \in Buffer : b.bytes \subseteq {u} /\ buf' = [buf EXCEPT ![u] = b]
  <2>1. CASE Fill(u)
    <3>1. buf' = [buf EXCEPT ![u] = [buf[u] EXCEPT !.bytes = buf[u].bytes \cup {u}]]
      BY <2>1 DEF Fill, BufInv, BufTypeOK
    <3>2. buf[u].bytes \cup {u} \in SUBSET Users /\ buf[u].bytes \cup {u} \subseteq {u}
      BY <1>1, ZenonT(60)
    <3>. QED
      BY ZenonT(60), <1>1, <3>1, <3>2, BufferFacts
  <2>2. CASE Grow(u, n)
    <3>1. PICK k \in n..MaxCap :
            buf' = [buf EXCEPT ![u] = [cap |-> k, bytes |-> buf[u].bytes \cup {u}]]
      BY <2>2 DEF Grow, BufInv, BufTypeOK
    <3>2. k \in 0..MaxCap
      BY ONLY n \in 1..MaxCap, k \in n..MaxCap, SizesAssumption
    <3>3. buf[u].bytes \cup {u} \in SUBSET Users /\ buf[u].bytes \cup {u} \subseteq {u}
      BY <1>1, ZenonT(60)
    <3>. QED
      BY ZenonT(60), <3>1, <3>2, <3>3, BufferFacts
  <2>3. CASE SplitTo(u, n)
    <3>1. PICK w \in {{}, buf[u].bytes} :
            buf' = [buf EXCEPT ![u] = [cap |-> buf[u].cap - n, bytes |-> w]]
      BY <2>3 DEF SplitTo, BufInv, BufTypeOK
    <3>2. n <= buf[u].cap /\ buf[u].cap \in 0..MaxCap
      BY <2>3, <1>1 DEF SplitTo, Buffer
    <3>3. buf[u].cap - n \in 0..MaxCap
      BY <3>2, SizesAssumption
    <3>4. w \in SUBSET Users /\ w \subseteq {u}
      BY <1>1, ZenonT(60)
    <3>. QED
      BY ZenonT(60), <3>1, <3>2, <3>3, <3>4, BufferFacts
  <2>. QED
    BY <2>1, <2>2, <2>3
<1>3. PICK b \in Buffer : b.bytes \subseteq {u} /\ buf' = [buf EXCEPT ![u] = b]
    BY <1>2
<1>4. state' = [state EXCEPT ![u] = "taken"]
    BY ZenonT(60), <1>1, SameState
<1>. QED
    BY ZenonT(60), <1>1, <1>3, <1>4, Replaced DEF BufInv, BufTypeOK

\* Whoever had a buffer before, and however it was given back, what is in a buffer
\* that get of buf.rs has handed out was written by the task that has it.
THEOREM BuffersAreClean == BufSpec => []OwnBytes
<1>1. BufInit => BufInv
  <2>1. 0 \in 0..MaxCap
    BY SizesAssumption
  <2>2. WithCapacity(0) \in Buffer
    BY ZenonT(60), <2>1, BufferFacts
  <2>. QED
    BY <2>2 DEF BufInit, BufInv, BufTypeOK, OwnBytes
<1>2. BufInv /\ [BufNext]_bufVars => BufInv'
  <2> SUFFICES ASSUME BufInv, [BufNext]_bufVars PROVE BufInv'
    OBVIOUS
  <2>1. CASE BufNext
    <3>1. PICK u \in Users :
            \/ \E n \in Requests : GetPooled(u, n) \/ GetNew(u, n)
            \/ Put(u) \/ Fill(u)
            \/ \E n \in 1..MaxCap : SplitTo(u, n) \/ Grow(u, n)
      BY <2>1, ZenonT(60) DEF BufNext
    <3>2. CASE Fill(u)
      <4>1. 1 \in 1..MaxCap
        BY <3>2, SizesAssumption DEF Fill, BufInv, BufTypeOK, Buffer
      <4>. QED
        BY ZenonT(60), <3>2, <4>1, UseStep
    <3>. QED
      BY ZenonT(60), <3>1, <3>2, GetPooledStep, GetNewStep, PutStep, UseStep
  <2>2. CASE UNCHANGED bufVars
    BY <2>2 DEF bufVars, BufInv, BufTypeOK, OwnBytes
  <2>. QED
    BY <2>1, <2>2
<1>3. BufInv => OwnBytes
    BY DEF BufInv
<1>. QED
    BY <1>1, <1>2, <1>3, PTL DEF BufSpec
=============================================================================
