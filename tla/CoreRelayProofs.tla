--------------------------- MODULE CoreRelayProofs ---------------------------
(***************************************************************************)
(* The safety of a gRPC request relayed to a TCP upstream, for every       *)
(* length of the auth ID, the frames, the request, the response and the    *)
(* pipes.  The properties are made inductive by where the pieces of the    *)
(* request and of the response are (Upload, Download), and by what the     *)
(* handler's place says of its tasks and of the client (Phase, Ends).      *)
(***************************************************************************)
EXTENDS CoreRelay, TLAPS

RequestType == [written : Nat, ended : {"no", "eof", "bad", "reset"}]
ResponseType == [written : Nat, ended : BOOLEAN, taken : Nat]
ClientType == [got : Seq(Nat), end : {"no", "fin", "reset"}, open : BOOLEAN]
HalfType == [up : BOOLEAN, down : BOOLEAN]

TypeOK ==
  /\ main \in {"request", "auth", "drain", "select", "decoded", "encode", "done", "failed"}
  /\ cached \in Nat
  /\ req \in RequestType
  /\ pos \in Nat /\ skip \in Nat /\ hold \in Seq(Nat)
  /\ decode \in {"none", "run", "ok", "err", "aborted"}
  /\ inbuf \in Seq(Nat) /\ Len(inbuf) <= Pipe
  /\ relay \in {"none", "connect", "copy", "ok", "err", "aborted"}
  /\ half \in HalfType
  /\ got \in Seq(Nat)
  /\ resp \in ResponseType
  /\ outbuf \in Seq(Nat) /\ Len(outbuf) <= Pipe
  /\ client \in ClientType

\* The numbers after b, in order.
Counts(s, b) == \A i \in 1..Len(s) : s[i] = b + i

\* What was taken of the request, but for the auth ID, is with the upstream, in
\* the pipe and in the decode task, in this order.
Upload ==
  /\ skip = IF pos < Auth THEN Auth - pos ELSE 0
  /\ Len(got) + Len(inbuf) + Len(hold) = IF pos < Auth THEN 0 ELSE pos - Auth
  /\ Counts(got, Auth)
  /\ Counts(inbuf, Auth + Len(got))
  /\ Counts(hold, Auth + Len(got) + Len(inbuf))

\* What was taken of the response is with the client and in the pipe.
Download ==
  /\ resp.taken <= resp.written
  /\ Len(client.got) + Len(outbuf) = resp.taken
  /\ Counts(client.got, 0)
  /\ Counts(outbuf, 0 + Len(client.got))

\* The tasks start with the selects and end with them.
Phase ==
  /\ main \in {"request", "auth", "drain"} => decode = "none" /\ relay = "none"
  /\ relay = "none" => ~half.up /\ ~half.down
  /\ NothingLeftRunning

\* What is over stays over, and nothing comes after it.
Ends ==
  /\ decode = "ok" => hold = <<>> /\ req.ended = "eof" /\ req.written < pos + MaxFrame
  /\ half.up => inbuf = <<>> /\ decode \notin {"none", "run"}
  /\ half.down => resp.ended /\ resp.taken = resp.written
  /\ client.end = "fin" => main = "done" /\ (half.down => outbuf = <<>>)

IInv == TypeOK /\ Upload /\ Download /\ Phase /\ Ends
-----------------------------------------------------------------------------
\* What moving the head of one queue to the end of another does to two queues
\* that hold successive numbers, the second going on where the first ends.
LEMMA MoveHead ==
  ASSUME NEW p \in Seq(Nat), NEW q \in Seq(Nat), q # <<>>, NEW b \in Nat,
         Counts(p, b), Counts(q, b + Len(p)),
         NEW P, NEW Q, P = Append(p, Head(q)), Q = Tail(q)
  PROVE  /\ Len(P) = Len(p) + 1 /\ Counts(P, b)
         /\ Len(Q) = Len(q) - 1 /\ Counts(Q, b + Len(P))
<1>1. Len(q) \in Nat \ {0} /\ Len(p) \in Nat /\ Head(q) = q[1] /\ q[1] = b + Len(p) + 1
  BY DEF Counts
<1>2. /\ Len(P) = Len(p) + 1
      /\ \A i \in 1..Len(p) : P[i] = p[i]
      /\ P[Len(p) + 1] = q[1]
  BY <1>1
<1>3. Len(Q) = Len(q) - 1 /\ \A i \in 1..(Len(q) - 1) : Q[i] = q[i + 1]
  OBVIOUS
<1>4. Counts(P, b)
  <2> SUFFICES ASSUME NEW i \in 1..Len(P) PROVE P[i] = b + i
    BY DEF Counts
  <2>1. CASE i \in 1..Len(p)
    BY <1>2, <2>1 DEF Counts
  <2>2. CASE i = Len(p) + 1
    BY <1>1, <1>2, <2>2
  <2>3. i \in 1..Len(p) \/ i = Len(p) + 1
    BY ONLY i \in 1..Len(P), <1>1, <1>2
  <2> QED BY <2>1, <2>2, <2>3
<1>5. Counts(Q, b + Len(P))
  BY <1>1, <1>2, <1>3 DEF Counts
<1> QED BY <1>2, <1>3, <1>4, <1>5

\* What one more number, the next one, does to a queue of successive numbers.
LEMMA PushNext ==
  ASSUME NEW s \in Seq(Nat), NEW b \in Nat, Counts(s, b),
         NEW x \in Nat, x = b + Len(s) + 1, NEW S, S = Append(s, x)
  PROVE  Counts(S, b)
<1>1. /\ Len(S) = Len(s) + 1 /\ Len(s) \in Nat
      /\ \A i \in 1..Len(s) : S[i] = s[i]
      /\ S[Len(s) + 1] = x
  OBVIOUS
<1>2. SUFFICES ASSUME NEW i \in 1..Len(S) PROVE S[i] = b + i
  BY DEF Counts
<1>3. i \in 1..Len(s) \/ i = Len(s) + 1
  BY ONLY i \in 1..Len(S), <1>1
<1>4. CASE i \in 1..Len(s)
  BY <1>1, <1>4 DEF Counts
<1>5. CASE i = Len(s) + 1
  BY <1>1, <1>5
<1> QED BY <1>3, <1>4, <1>5

\* The pieces after m up to n are successive numbers, and n - m of them.
LEMMA PiecesCount ==
  ASSUME NEW m \in Nat, NEW n \in Nat, NEW s, s = Pieces(m + 1, n)
  PROVE  Counts(s, m) /\ Len(s) = IF m < n THEN n - m ELSE 0
<1>1. CASE m < n
  <2>1. s = [i \in 1..(n - m) |-> m + i] /\ n - m \in Nat
    BY <1>1 DEF Pieces
  <2>2. Len(s) = n - m
    BY ONLY <2>1
  <2> QED BY <1>1, <2>1, <2>2 DEF Counts
<1>2. CASE ~(m < n)
  <2>1. s = [i \in 1..0 |-> m + i]
    BY <1>2 DEF Pieces
  <2>2. Len(s) = 0
    BY ONLY <2>1
  <2> QED BY <1>2, <2>1, <2>2 DEF Counts
<1> QED BY <1>1, <1>2

\* A sequence of successive numbers is the pieces from the first of them on.
LEMMA CountsPieces ==
  ASSUME NEW s \in Seq(Nat), NEW b \in Nat, Counts(s, b)
  PROVE  s = Pieces(b + 1, b + Len(s))
<1>1. Len(s) \in Nat /\ s = [i \in 1..Len(s) |-> s[i]]
  OBVIOUS
<1>2. (IF b + 1 > b + Len(s) THEN 0 ELSE b + Len(s) - (b + 1) + 1) = Len(s)
  BY <1>1
<1>3. \A i \in 1..Len(s) : s[i] = b + 1 + i - 1
  BY <1>1 DEF Counts
<1>4. [i \in 1..Len(s) |-> s[i]] = [i \in 1..Len(s) |-> b + 1 + i - 1]
  BY ONLY <1>3
<1> QED BY ONLY <1>1, <1>2, <1>4 DEF Pieces

\* Every step keeps the types, and neither pipe ever holds more than it can.
LEMMA TypeStep ==
  ASSUME TypeOK, [Next]_vars
  PROVE  TypeOK'
<1>1. ASSUME Validate PROVE TypeOK'
  BY <1>1, BoundsAssumption, Zenon DEF Validate, Ended, ClientType, TypeOK, handler, upload,
     copying
<1>2. ASSUME AuthErr PROVE TypeOK'
  BY <1>2, BoundsAssumption DEF AuthErr, TypeOK, handler, upload, copying
<1>3. ASSUME Match PROVE TypeOK'
  BY <1>3, BoundsAssumption DEF Match, TypeOK, handler, upload, copying
<1>4. ASSUME NoMatch PROVE TypeOK'
  BY <1>4, BoundsAssumption DEF NoMatch, TypeOK, handler, upload, copying
<1>5. ASSUME Drained PROVE TypeOK'
  BY <1>5, BoundsAssumption, Zenon DEF Drained, Ended, ClientType, TypeOK, handler, upload, copying
<1>6. ASSUME NEW n \in 1..MaxFrame, ReadAuth(n) PROVE TypeOK'
  BY <1>6, BoundsAssumption DEF ReadAuth, TypeOK, handler, upload, copying
<1>7. ASSUME DecodeWrite PROVE TypeOK'
  BY <1>7, BoundsAssumption DEF DecodeWrite, TypeOK, handler, upload, copying
<1>8. ASSUME DecodeEnd PROVE TypeOK'
  BY <1>8, BoundsAssumption DEF DecodeEnd, TypeOK, handler, upload, copying
<1>9. ASSUME DecodeErr PROVE TypeOK'
  BY <1>9, BoundsAssumption DEF DecodeErr, TypeOK, handler, upload, copying
<1>10. ASSUME NEW n \in 1..MaxFrame, DecodeFrame(n) PROVE TypeOK'
  BY <1>10, BoundsAssumption DEF DecodeFrame, Cut, Least, Pieces, RequestType, TypeOK,
     handler, upload, copying
<1>11. ASSUME Connect PROVE TypeOK'
  BY <1>11, BoundsAssumption DEF Connect, TypeOK, handler, upload, copying
<1>12. ASSUME RelayErr PROVE TypeOK'
  BY <1>12, BoundsAssumption DEF RelayErr, TypeOK, handler, upload, copying
<1>13. ASSUME CopyUp PROVE TypeOK'
  BY <1>13, BoundsAssumption DEF CopyUp, TypeOK, handler, upload, copying
<1>14. ASSUME CopyUpEnd PROVE TypeOK'
  BY <1>14, BoundsAssumption, Zenon DEF CopyUpEnd, HalfType, TypeOK, handler, upload, copying
<1>15. ASSUME CopyDown PROVE TypeOK'
  <2>1. resp' \in ResponseType /\ resp.taken + 1 \in Nat
    BY SMTT(30), <1>15 DEF CopyDown, TypeOK, ResponseType
  <2>2. outbuf' \in Seq(Nat) /\ Len(outbuf') <= Pipe
    BY SMTT(60), ZenonT(60), <1>15, <2>1, BoundsAssumption DEF CopyDown, TypeOK
  <2> QED BY <1>15, <2>1, <2>2 DEF CopyDown, TypeOK, handler, upload, copying
<1>16. ASSUME CopyDownEnd PROVE TypeOK'
  BY <1>16, BoundsAssumption, Zenon DEF CopyDownEnd, HalfType, TypeOK, handler, upload, copying
<1>17. ASSUME EncodeSend PROVE TypeOK'
  <2>1. outbuf' \in Seq(Nat) /\ Len(outbuf') <= Pipe /\ Head(outbuf) \in Nat
    BY SMTT(30), <1>17, BoundsAssumption DEF EncodeSend, TypeOK
  <2>2. client.got \in Seq(Nat) /\ Append(client.got, Head(outbuf)) \in Seq(Nat)
    BY <2>1 DEF TypeOK, ClientType
  <2>3. client' \in ClientType
    BY <1>17, <2>2, Zenon DEF EncodeSend, TypeOK, ClientType
  <2> QED BY <1>17, <2>1, <2>3 DEF EncodeSend, TypeOK, handler, upload, copying
<1>18. ASSUME EncodeEnd PROVE TypeOK'
  BY <1>18, BoundsAssumption, Zenon DEF EncodeEnd, Encoding, OutClosed, Ended, AbortRelay, Aborted,
     ClientType, TypeOK, handler, upload, copying
<1>19. ASSUME EncodeErr PROVE TypeOK'
  BY <1>19, BoundsAssumption DEF EncodeErr, Encoding, AbortRelay, Aborted, TypeOK, handler,
     upload, copying
<1>20. ASSUME SelectDecodeOk PROVE TypeOK'
  BY <1>20, BoundsAssumption DEF SelectDecodeOk, TypeOK, handler, upload, copying
<1>21. ASSUME SelectDecodeErr PROVE TypeOK'
  BY <1>21, BoundsAssumption, Zenon DEF SelectDecodeErr, AbortRelay, Aborted, Dropped, ClientType,
     TypeOK, handler, upload, copying
<1>22. ASSUME SelectRelayOk PROVE TypeOK'
  BY <1>22, BoundsAssumption DEF SelectRelayOk, Aborted, TypeOK, handler, upload, copying
<1>23. ASSUME SelectRelayErr PROVE TypeOK'
  BY <1>23, BoundsAssumption, Zenon DEF SelectRelayErr, Aborted, Dropped, ClientType, TypeOK,
     handler, upload, copying
<1>24. ASSUME ClientWrite PROVE TypeOK'
  <2>1. req \in RequestType
    BY DEF TypeOK
  <2>2. req' \in RequestType
    BY ONLY <1>24, <2>1 DEF ClientWrite, RequestType
  <2> QED BY <1>24, <2>2 DEF ClientWrite, TypeOK, handler, upload, copying
<1>25. ASSUME ClientEnd PROVE TypeOK'
  BY <1>25, BoundsAssumption, ZenonT(60) DEF ClientEnd, RequestType, TypeOK, handler, upload, copying
<1>26. ASSUME ClientGone PROVE TypeOK'
  BY <1>26, BoundsAssumption, ZenonT(60) DEF ClientGone, RequestType, ClientType, TypeOK, handler,
     upload, copying
<1>27. ASSUME UpstreamWrite PROVE TypeOK'
  <2>1. resp \in ResponseType
    BY DEF TypeOK
  <2>2. resp' \in ResponseType
    BY ONLY <1>27, <2>1 DEF UpstreamWrite, ResponseType
  <2> QED BY <1>27, <2>2 DEF UpstreamWrite, TypeOK, handler, upload, copying
<1>28. ASSUME UpstreamEnd PROVE TypeOK'
  BY <1>28, BoundsAssumption, Zenon DEF UpstreamEnd, ResponseType, TypeOK, handler, upload, copying
<1>29. CASE UNCHANGED <<main, cached, req, pos, skip, hold, decode, inbuf, relay, half, got, resp, outbuf, client>>
  BY <1>29 DEF TypeOK
<1> QED
  BY <1>1, <1>2, <1>3, <1>4, <1>5, <1>6, <1>7, <1>8, <1>9, <1>10, <1>11, <1>12, <1>13,
     <1>14, <1>15, <1>16, <1>17, <1>18, <1>19, <1>20, <1>21, <1>22, <1>23, <1>24, <1>25,
     <1>26, <1>27, <1>28, <1>29 DEF Next, Before, Decode, Copy, Encode, Select, Peers, vars,
     handler, upload, copying

\* However the decode task cuts its frames, and whatever the pipe takes of them,
\* no piece of the request is lost, doubled or overtaken.
LEMMA UploadStep ==
  ASSUME TypeOK, Upload, [Next]_vars
  PROVE  Upload'
<1>1. ASSUME NEW n \in 1..MaxFrame, DecodeFrame(n) PROVE Upload'
  <2>1. /\ Len(got) + Len(inbuf) = IF pos < Auth THEN 0 ELSE pos - Auth
        /\ Len(got) \in Nat /\ Len(inbuf) \in Nat /\ pos \in Nat /\ skip \in Nat /\ Auth \in Nat
        /\ skip = IF pos < Auth THEN Auth - pos ELSE 0
        /\ inbuf' = inbuf /\ got' = got
        /\ pos' = pos + n /\ skip' = skip - Cut(n)
        /\ hold' = Pieces(pos + 1 + Cut(n), pos + n)
    BY SMTT(60), ZenonT(60), <1>1, BoundsAssumption DEF DecodeFrame, TypeOK, Upload, copying
  <2>2. /\ Cut(n) \in Nat /\ n \in Nat
        /\ skip' = IF pos' < Auth THEN Auth - pos' ELSE 0
        /\ pos' < Auth => pos + 1 + Cut(n) > pos'
        /\ pos' >= Auth => pos + Cut(n) = Auth + Len(got) + Len(inbuf) /\ pos + Cut(n) <= pos'
    BY ONLY <2>1, n \in 1..MaxFrame, BoundsAssumption DEF Cut, Least
  <2>3. hold' = Pieces((pos + Cut(n)) + 1, pos') /\ pos + Cut(n) \in Nat /\ pos' \in Nat
    <3>1. pos + 1 + Cut(n) = (pos + Cut(n)) + 1 /\ pos + Cut(n) \in Nat /\ pos' \in Nat
      <4>1. pos \in Nat /\ n \in Nat /\ Cut(n) \in Nat /\ pos' = pos + n
        BY <2>1, <2>2
      <4> QED BY ONLY <4>1
    <3> QED BY ONLY <2>1, <3>1, Zenon
  <2>4. Len(hold') = IF pos + Cut(n) < pos' THEN pos' - (pos + Cut(n)) ELSE 0
    BY ONLY <2>3, PiecesCount, Zenon
  <2>5. Counts(hold', pos + Cut(n))
    BY ONLY <2>3, PiecesCount, Zenon
  <2>6. CASE pos' < Auth
    <3>1. Len(hold') = 0 /\ Len(got) = 0 /\ Len(inbuf) = 0
      BY ONLY SMTT(60), ZenonT(60), <2>1, <2>2, <2>3, <2>4, <2>6, BoundsAssumption
    <3> QED BY ONLY <2>1, <2>2, <2>6, <3>1, Upload DEF Upload, Counts
  <2>7. CASE ~(pos' < Auth)
    <3>1. /\ Len(got) + Len(inbuf) + Len(hold') = pos' - Auth
          /\ pos + Cut(n) = Auth + Len(got) + Len(inbuf)
      <4>1. /\ pos + Cut(n) = Auth + Len(got) + Len(inbuf) /\ pos + Cut(n) <= pos'
            /\ pos' \in Nat
        BY ONLY <2>1, <2>2, <2>3, <2>7, BoundsAssumption
      <4>2. Len(hold') = pos' - (pos + Cut(n))
        BY ONLY <2>2, <2>3, <2>4, <4>1
      <4> QED BY ONLY SMTT(60), ZenonT(60), <2>1, <4>1, <4>2
    <3> QED BY Zenon, <2>1, <2>2, <2>5, <2>7, <3>1 DEF Upload
  <2> QED BY <2>6, <2>7
<1>2. ASSUME DecodeWrite PROVE Upload'
  <2>1. /\ inbuf' = Append(inbuf, Head(hold)) /\ hold' = Tail(hold) /\ hold # <<>>
        /\ inbuf \in Seq(Nat) /\ hold \in Seq(Nat) /\ Auth + Len(got) \in Nat
    BY <1>2, BoundsAssumption DEF DecodeWrite, TypeOK
  <2>2. Counts(inbuf, Auth + Len(got)) /\ Counts(hold, Auth + Len(got) + Len(inbuf))
    BY DEF Upload
  <2>3. Counts(inbuf', Auth + Len(got))
    BY <2>1, <2>2, MoveHead, Zenon
  <2>4. Counts(hold', Auth + Len(got) + Len(inbuf'))
    BY <2>1, <2>2, MoveHead, Zenon
  <2>5. Len(inbuf') = Len(inbuf) + 1
    BY <2>1
  <2>6. Len(hold') = Len(hold) - 1
    BY <2>1
  <2>7. got' = got /\ pos' = pos /\ skip' = skip
    BY <1>2 DEF DecodeWrite, copying
  <2>8. Len(got) + Len(inbuf') + Len(hold') = Len(got) + Len(inbuf) + Len(hold)
    BY <2>1, <2>5, <2>6 DEF TypeOK
  <2> QED BY <2>3, <2>4, <2>7, <2>8 DEF Upload
<1>3. ASSUME CopyUp PROVE Upload'
  <2>1. /\ got' = Append(got, Head(inbuf)) /\ inbuf' = Tail(inbuf) /\ inbuf # <<>>
        /\ got \in Seq(Nat) /\ inbuf \in Seq(Nat) /\ Auth \in Nat
    BY <1>3, BoundsAssumption DEF CopyUp, TypeOK
  <2>2. Counts(got, Auth) /\ Counts(inbuf, Auth + Len(got))
    BY DEF Upload
  <2>3. Counts(got', Auth)
    BY <2>1, <2>2, MoveHead, Zenon
  <2>4. Counts(inbuf', Auth + Len(got'))
    BY <2>1, <2>2, MoveHead, Zenon
  <2>5. Len(got') = Len(got) + 1
    BY <2>1
  <2>6. Len(inbuf') = Len(inbuf) - 1
    BY <2>1
  <2>7. hold' = hold /\ pos' = pos /\ skip' = skip
    BY <1>3 DEF CopyUp
  <2>8. /\ Len(got') + Len(inbuf') = Len(got) + Len(inbuf)
        /\ Auth + Len(got') + Len(inbuf') = Auth + Len(got) + Len(inbuf)
    BY <2>1, <2>5, <2>6
  <2> QED BY <2>3, <2>4, <2>7, <2>8 DEF Upload
<1>4. CASE UNCHANGED <<pos, skip, hold, inbuf, got>>
  BY <1>4 DEF TypeOK, Upload
<1> QED
  BY SMTT(30), Zenon, <1>1, <1>2, <1>3, <1>4 DEF Next, Before, Decode, Copy, Encode, Select, Peers, Validate,
     AuthErr, Match, NoMatch, Drained, ReadAuth, DecodeEnd, DecodeErr, Connect, RelayErr,
     CopyUpEnd, CopyDown, CopyDownEnd, EncodeSend, EncodeEnd, EncodeErr, SelectDecodeOk,
     SelectDecodeErr, SelectRelayOk, SelectRelayErr, ClientWrite, ClientEnd, ClientGone,
     UpstreamWrite, UpstreamEnd, vars, handler, upload, copying

\* No piece of the response is lost, doubled or overtaken on its way to the
\* client.
LEMMA DownloadStep ==
  ASSUME TypeOK, Download, [Next]_vars
  PROVE  Download'
<1>1. ASSUME CopyDown PROVE Download'
  <2>1. resp \in ResponseType /\ client \in ClientType /\ outbuf \in Seq(Nat) /\ client' = client
    BY <1>1 DEF CopyDown, TypeOK
  <2>2. /\ resp.taken \in Nat /\ resp.written \in Nat /\ resp.taken < resp.written
        /\ resp'.taken = resp.taken + 1 /\ resp'.written = resp.written
        /\ client.got \in Seq(Nat)
    BY ONLY <1>1, <2>1 DEF CopyDown, ResponseType, ClientType
  <2>3. /\ resp.taken + 1 = 0 + Len(client.got) + Len(outbuf) + 1 /\ resp.taken + 1 \in Nat
        /\ 0 + Len(client.got) \in Nat /\ Counts(outbuf, 0 + Len(client.got))
        /\ outbuf' = Append(outbuf, resp.taken + 1)
    BY SMTT(60), ZenonT(60), <1>1, <2>1, <2>2 DEF Download, CopyDown
  <2>4. Counts(outbuf', 0 + Len(client.got))
    BY ONLY <2>1, <2>3, PushNext, Zenon
  <2>5. /\ Len(outbuf') = Len(outbuf) + 1 /\ resp'.taken <= resp'.written
        /\ Len(client.got) + Len(outbuf') = resp'.taken
    <3>1. /\ Len(outbuf') = Len(outbuf) + 1 /\ Len(outbuf) \in Nat
          /\ Len(client.got) \in Nat /\ Len(client.got) + Len(outbuf) = resp.taken
      BY <2>1, <2>2, <2>3 DEF Download
    <3>2. /\ resp.taken \in Nat /\ resp.written \in Nat /\ resp.taken < resp.written
          /\ resp'.taken = resp.taken + 1 /\ resp'.written = resp.written
      BY <2>2
    <3>3. resp'.taken <= resp'.written
      BY ONLY <3>2
    <3>4. Len(client.got) + Len(outbuf') = resp'.taken
      <4>1. \A a, b \in Nat : a + (b + 1) = (a + b) + 1
        OBVIOUS
      <4> QED BY ONLY <3>1, <3>2, <4>1, Zenon
    <3> QED BY <3>1, <3>3, <3>4, Zenon
  <2> QED BY <2>1, <2>4, <2>5, Zenon DEF Download
<1>2. ASSUME EncodeSend PROVE Download'
  <2>1. client \in ClientType /\ outbuf \in Seq(Nat) /\ outbuf # <<>> /\ resp' = resp
    BY <1>2 DEF EncodeSend, TypeOK
  <2>2. /\ client'.got = Append(client.got, Head(outbuf)) /\ outbuf' = Tail(outbuf)
        /\ client.got \in Seq(Nat) /\ 0 \in Nat
    BY ONLY <1>2, <2>1 DEF EncodeSend, ClientType
  <2>3. Counts(client.got, 0) /\ Counts(outbuf, 0 + Len(client.got))
    BY DEF Download
  <2>4. Counts(client'.got, 0)
    BY <2>1, <2>2, <2>3, MoveHead, Zenon
  <2>5. Counts(outbuf', 0 + Len(client'.got))
    BY <2>1, <2>2, <2>3, MoveHead, Zenon
  <2>6. Len(client'.got) + Len(outbuf') = Len(client.got) + Len(outbuf)
    BY ONLY <2>1, <2>2
  <2> QED BY <2>1, <2>4, <2>5, <2>6 DEF Download
<1>3. ASSUME UpstreamWrite PROVE Download'
  BY <1>3, BoundsAssumption DEF UpstreamWrite, ResponseType, TypeOK, Download, ClientType,
     handler, upload, copying
<1>4. ASSUME UpstreamEnd PROVE Download'
  BY <1>4, BoundsAssumption DEF UpstreamEnd, ResponseType, TypeOK, Download, ClientType,
     handler, upload, copying
<1>5. ASSUME Validate PROVE Download'
  BY <1>5, BoundsAssumption, Zenon DEF Validate, Ended, ClientType, TypeOK, Download, ResponseType,
     handler, upload, copying
<1>6. ASSUME Drained PROVE Download'
  BY <1>6, BoundsAssumption DEF Drained, Ended, ClientType, TypeOK, Download, ResponseType,
     handler, upload, copying
<1>7. ASSUME EncodeEnd PROVE Download'
  BY <1>7, BoundsAssumption DEF EncodeEnd, Encoding, OutClosed, Ended, AbortRelay, Aborted,
     ClientType, TypeOK, Download, ResponseType, handler, upload, copying
<1>8. ASSUME SelectDecodeErr PROVE Download'
  BY <1>8, BoundsAssumption DEF SelectDecodeErr, AbortRelay, Aborted, Dropped, ClientType,
     TypeOK, Download, ResponseType, handler, upload, copying
<1>9. ASSUME SelectRelayErr PROVE Download'
  BY <1>9, BoundsAssumption DEF SelectRelayErr, Aborted, Dropped, ClientType, TypeOK,
     Download, ResponseType, handler, upload, copying
<1>10. ASSUME ClientGone PROVE Download'
  BY <1>10, BoundsAssumption DEF ClientGone, RequestType, ClientType, TypeOK, Download,
     ResponseType, handler, upload, copying
<1>11. CASE UNCHANGED <<resp, outbuf, client>>
  BY <1>11 DEF TypeOK, Download, ResponseType, ClientType
<1> QED
  BY SMTT(30), Zenon, <1>1, <1>2, <1>3, <1>4, <1>5, <1>6, <1>7, <1>8, <1>9, <1>10, <1>11 DEF Next, Before,
     Decode, Copy, Encode, Select, Peers, AuthErr, Match, NoMatch, ReadAuth, DecodeWrite,
     DecodeEnd, DecodeErr, DecodeFrame, Connect, RelayErr, CopyUp, CopyUpEnd, CopyDownEnd,
     EncodeErr, SelectDecodeOk, SelectRelayOk, ClientWrite, ClientEnd, vars, handler,
     upload, copying

\* Whichever branch a select takes, the tasks it leaves are over or aborted.
LEMMA PhaseStep ==
  ASSUME TypeOK, Phase, [Next]_vars
  PROVE  Phase'
<1>1. ASSUME Validate PROVE Phase'
  BY <1>1, BoundsAssumption DEF Validate, Ended, ClientType, TypeOK, Phase,
     NothingLeftRunning, HalfType, handler, upload, copying
<1>2. ASSUME AuthErr PROVE Phase'
  BY <1>2, BoundsAssumption DEF AuthErr, TypeOK, Phase, NothingLeftRunning, HalfType,
     handler, upload, copying
<1>3. ASSUME Match PROVE Phase'
  BY <1>3, BoundsAssumption DEF Match, TypeOK, Phase, NothingLeftRunning, HalfType, handler,
     upload, copying
<1>4. ASSUME NoMatch PROVE Phase'
  BY <1>4, BoundsAssumption DEF NoMatch, TypeOK, Phase, NothingLeftRunning, HalfType,
     handler, upload, copying
<1>5. ASSUME Drained PROVE Phase'
  BY <1>5, BoundsAssumption DEF Drained, Ended, ClientType, TypeOK, Phase,
     NothingLeftRunning, HalfType, handler, upload, copying
<1>6. ASSUME DecodeEnd PROVE Phase'
  BY <1>6, BoundsAssumption DEF DecodeEnd, TypeOK, Phase, NothingLeftRunning, HalfType,
     handler, upload, copying
<1>7. ASSUME DecodeErr PROVE Phase'
  BY <1>7, BoundsAssumption DEF DecodeErr, TypeOK, Phase, NothingLeftRunning, HalfType,
     handler, upload, copying
<1>8. ASSUME Connect PROVE Phase'
  BY <1>8, BoundsAssumption DEF Connect, TypeOK, Phase, NothingLeftRunning, HalfType,
     handler, upload, copying
<1>9. ASSUME RelayErr PROVE Phase'
  BY <1>9, BoundsAssumption DEF RelayErr, TypeOK, Phase, NothingLeftRunning, HalfType,
     handler, upload, copying
<1>10. ASSUME CopyUpEnd PROVE Phase'
  BY <1>10, BoundsAssumption DEF CopyUpEnd, HalfType, TypeOK, Phase, NothingLeftRunning,
     handler, upload, copying
<1>11. ASSUME CopyDownEnd PROVE Phase'
  BY <1>11, BoundsAssumption DEF CopyDownEnd, HalfType, TypeOK, Phase, NothingLeftRunning,
     handler, upload, copying
<1>12. ASSUME EncodeEnd PROVE Phase'
  BY <1>12, BoundsAssumption DEF EncodeEnd, Encoding, OutClosed, Ended, AbortRelay, Aborted,
     ClientType, TypeOK, Phase, NothingLeftRunning, HalfType, handler, upload, copying
<1>13. ASSUME EncodeErr PROVE Phase'
  BY <1>13, BoundsAssumption DEF EncodeErr, Encoding, AbortRelay, Aborted, TypeOK, Phase,
     NothingLeftRunning, HalfType, handler, upload, copying
<1>14. ASSUME SelectDecodeOk PROVE Phase'
  BY <1>14, BoundsAssumption DEF SelectDecodeOk, TypeOK, Phase, NothingLeftRunning,
     HalfType, handler, upload, copying
<1>15. ASSUME SelectDecodeErr PROVE Phase'
  BY <1>15, BoundsAssumption DEF SelectDecodeErr, AbortRelay, Aborted, Dropped, ClientType,
     TypeOK, Phase, NothingLeftRunning, HalfType, handler, upload, copying
<1>16. ASSUME SelectRelayOk PROVE Phase'
  BY <1>16, BoundsAssumption DEF SelectRelayOk, Aborted, TypeOK, Phase, NothingLeftRunning,
     HalfType, handler, upload, copying
<1>17. ASSUME SelectRelayErr PROVE Phase'
  BY <1>17, BoundsAssumption DEF SelectRelayErr, Aborted, Dropped, ClientType, TypeOK,
     Phase, NothingLeftRunning, HalfType, handler, upload, copying
<1>18. CASE UNCHANGED <<main, decode, relay, half>>
  BY <1>18 DEF TypeOK, Phase, NothingLeftRunning, HalfType
<1> QED
  BY <1>1, <1>2, <1>3, <1>4, <1>5, <1>6, <1>7, <1>8, <1>9, <1>10, <1>11, <1>12, <1>13,
     <1>14, <1>15, <1>16, <1>17, <1>18 DEF Next, Before, Decode, Copy, Encode, Select,
     Peers, ReadAuth, DecodeWrite, DecodeFrame, CopyUp, CopyDown, EncodeSend, ClientWrite,
     ClientEnd, ClientGone, UpstreamWrite, UpstreamEnd, vars, handler, upload, copying

\* An end that was seen stays: nothing is written behind it.
LEMMA EndsStep ==
  ASSUME TypeOK, Download, Phase, Ends, [Next]_vars
  PROVE  Ends'
<1>1. ASSUME Validate PROVE Ends'
  BY <1>1, BoundsAssumption DEF Validate, Ended, ClientType, TypeOK, Download, Phase,
     NothingLeftRunning, Ends, RequestType, ResponseType, HalfType, handler, upload, copying
<1>2. ASSUME AuthErr PROVE Ends'
  BY <1>2, BoundsAssumption DEF AuthErr, TypeOK, Download, Phase, NothingLeftRunning, Ends,
     RequestType, ResponseType, ClientType, HalfType, handler, upload, copying
<1>3. ASSUME Match PROVE Ends'
  BY <1>3, BoundsAssumption DEF Match, TypeOK, Download, Phase, NothingLeftRunning, Ends,
     RequestType, ResponseType, ClientType, HalfType, handler, upload, copying
<1>4. ASSUME NoMatch PROVE Ends'
  BY <1>4, BoundsAssumption DEF NoMatch, TypeOK, Download, Phase, NothingLeftRunning, Ends,
     RequestType, ResponseType, ClientType, HalfType, handler, upload, copying
<1>5. ASSUME Drained PROVE Ends'
  BY <1>5, BoundsAssumption DEF Drained, Ended, ClientType, TypeOK, Download, Phase,
     NothingLeftRunning, Ends, RequestType, ResponseType, HalfType, handler, upload, copying
<1>6. ASSUME DecodeWrite PROVE Ends'
  BY <1>6, BoundsAssumption DEF DecodeWrite, TypeOK, Download, Phase, NothingLeftRunning,
     Ends, RequestType, ResponseType, ClientType, HalfType, handler, upload, copying
<1>7. ASSUME DecodeEnd PROVE Ends'
  BY <1>7, BoundsAssumption DEF DecodeEnd, TypeOK, Download, Phase, NothingLeftRunning,
     Ends, RequestType, ResponseType, ClientType, HalfType, handler, upload, copying
<1>8. ASSUME DecodeErr PROVE Ends'
  BY <1>8, BoundsAssumption DEF DecodeErr, TypeOK, Download, Phase, NothingLeftRunning,
     Ends, RequestType, ResponseType, ClientType, HalfType, handler, upload, copying
<1>9. ASSUME NEW n \in 1..MaxFrame, DecodeFrame(n) PROVE Ends'
  BY <1>9, BoundsAssumption DEF DecodeFrame, Cut, Least, Pieces, RequestType, TypeOK,
     Download, Phase, NothingLeftRunning, Ends, ResponseType, ClientType, HalfType, handler,
     upload, copying
<1>10. ASSUME Connect PROVE Ends'
  BY <1>10, BoundsAssumption DEF Connect, TypeOK, Download, Phase, NothingLeftRunning, Ends,
     RequestType, ResponseType, ClientType, HalfType, handler, upload, copying
<1>11. ASSUME RelayErr PROVE Ends'
  BY <1>11, BoundsAssumption DEF RelayErr, TypeOK, Download, Phase, NothingLeftRunning,
     Ends, RequestType, ResponseType, ClientType, HalfType, handler, upload, copying
<1>12. ASSUME CopyUp PROVE Ends'
  BY <1>12, BoundsAssumption DEF CopyUp, TypeOK, Download, Phase, NothingLeftRunning, Ends,
     RequestType, ResponseType, ClientType, HalfType, handler, upload, copying
<1>13. ASSUME CopyUpEnd PROVE Ends'
  BY <1>13, BoundsAssumption DEF CopyUpEnd, HalfType, TypeOK, Download, Phase,
     NothingLeftRunning, Ends, RequestType, ResponseType, ClientType, handler, upload,
     copying
<1>14. ASSUME CopyDown PROVE Ends'
  BY <1>14, BoundsAssumption DEF CopyDown, ResponseType, TypeOK, Download, Phase,
     NothingLeftRunning, Ends, RequestType, ClientType, HalfType, handler, upload, copying
<1>15. ASSUME CopyDownEnd PROVE Ends'
  BY <1>15, BoundsAssumption DEF CopyDownEnd, HalfType, TypeOK, Download, Phase,
     NothingLeftRunning, Ends, RequestType, ResponseType, ClientType, handler, upload,
     copying
<1>16. ASSUME EncodeSend PROVE Ends'
  BY <1>16, BoundsAssumption DEF EncodeSend, Encoding, TypeOK, Download, Phase,
     NothingLeftRunning, Ends, RequestType, ResponseType, ClientType, HalfType, handler,
     upload, copying
<1>17. ASSUME EncodeEnd PROVE Ends'
  BY SMTT(30), Zenon, <1>17, BoundsAssumption DEF EncodeEnd, Encoding, OutClosed, Ended, AbortRelay, Aborted,
     ClientType, TypeOK, Download, Phase, NothingLeftRunning, Ends, RequestType,
     ResponseType, HalfType, handler, upload, copying
<1>18. ASSUME EncodeErr PROVE Ends'
  BY <1>18, BoundsAssumption DEF EncodeErr, Encoding, AbortRelay, Aborted, TypeOK, Download,
     Phase, NothingLeftRunning, Ends, RequestType, ResponseType, ClientType, HalfType,
     handler, upload, copying
<1>19. ASSUME SelectDecodeOk PROVE Ends'
  BY <1>19, BoundsAssumption DEF SelectDecodeOk, TypeOK, Download, Phase,
     NothingLeftRunning, Ends, RequestType, ResponseType, ClientType, HalfType, handler,
     upload, copying
<1>20. ASSUME SelectDecodeErr PROVE Ends'
  BY <1>20, BoundsAssumption DEF SelectDecodeErr, AbortRelay, Aborted, Dropped, ClientType,
     TypeOK, Download, Phase, NothingLeftRunning, Ends, RequestType, ResponseType, HalfType,
     handler, upload, copying
<1>21. ASSUME SelectRelayOk PROVE Ends'
  BY <1>21, BoundsAssumption DEF SelectRelayOk, Aborted, TypeOK, Download, Phase,
     NothingLeftRunning, Ends, RequestType, ResponseType, ClientType, HalfType, handler,
     upload, copying
<1>22. ASSUME SelectRelayErr PROVE Ends'
  BY <1>22, BoundsAssumption, Zenon DEF SelectRelayErr, Aborted, Dropped, ClientType, TypeOK,
     Download, Phase, NothingLeftRunning, Ends, RequestType, ResponseType, HalfType,
     handler, upload, copying
<1>23. ASSUME ClientWrite PROVE Ends'
  BY <1>23, BoundsAssumption DEF ClientWrite, RequestType, TypeOK, Download, Phase,
     NothingLeftRunning, Ends, ResponseType, ClientType, HalfType, handler, upload, copying
<1>24. ASSUME ClientEnd PROVE Ends'
  BY <1>24, BoundsAssumption DEF ClientEnd, RequestType, TypeOK, Download, Phase,
     NothingLeftRunning, Ends, ResponseType, ClientType, HalfType, handler, upload, copying
<1>25. ASSUME ClientGone PROVE Ends'
  BY <1>25, BoundsAssumption, Zenon DEF ClientGone, RequestType, ClientType, TypeOK, Download,
     Phase, NothingLeftRunning, Ends, ResponseType, HalfType, handler, upload, copying
<1>26. ASSUME UpstreamWrite PROVE Ends'
  BY <1>26, BoundsAssumption DEF UpstreamWrite, ResponseType, TypeOK, Download, Phase,
     NothingLeftRunning, Ends, RequestType, ClientType, HalfType, handler, upload, copying
<1>27. ASSUME UpstreamEnd PROVE Ends'
  BY <1>27, BoundsAssumption DEF UpstreamEnd, ResponseType, TypeOK, Download, Phase,
     NothingLeftRunning, Ends, RequestType, ClientType, HalfType, handler, upload, copying
<1>28. CASE UNCHANGED <<main, req, pos, hold, decode, inbuf, half, resp, outbuf, client>>
  BY <1>28 DEF TypeOK, Download, Phase, NothingLeftRunning, Ends, RequestType, ResponseType,
     ClientType, HalfType
<1> QED
  BY <1>1, <1>2, <1>3, <1>4, <1>5, <1>6, <1>7, <1>8, <1>9, <1>10, <1>11, <1>12, <1>13,
     <1>14, <1>15, <1>16, <1>17, <1>18, <1>19, <1>20, <1>21, <1>22, <1>23, <1>24, <1>25,
     <1>26, <1>27, <1>28 DEF Next, Before, Decode, Copy, Encode, Select, Peers, ReadAuth,
     vars, handler, upload, copying

\* The handler starts with nothing read, nothing running and an open client.
LEMMA InitInv == Init => IInv
<1> SUFFICES ASSUME Init PROVE IInv
  OBVIOUS
<1>1. req \in RequestType /\ resp \in ResponseType /\ client \in ClientType /\ half \in HalfType
  BY DEF Init, RequestType, ResponseType, ClientType, HalfType
<1>2. TypeOK
  BY <1>1, BoundsAssumption DEF Init, TypeOK
<1>3. Upload /\ Download /\ Phase /\ Ends
  BY BoundsAssumption DEF Init, Upload, Download, Counts, Phase, Ends, NothingLeftRunning
<1> QED BY <1>2, <1>3 DEF IInv

\* The invariant holds of every request that relay_grpc_via_core may meet.
THEOREM Invariance == Spec => []IInv
<1>1. IInv /\ [Next]_vars => IInv'
  BY TypeStep, UploadStep, DownloadStep, PhaseStep, EndsStep DEF IInv
<1> QED BY InitInv, <1>1, PTL DEF Spec

\* relay_grpc_via_core and its decode task hand the upstream the request after
\* its auth ID, in order and without a gap, however frames and pipes cut it.
THEOREM UploadsAreIntact == Spec => []UploadIntact
<1>1. IInv => UploadIntact
  <2> SUFFICES ASSUME IInv PROVE UploadIntact
    OBVIOUS
  <2>1. got \in Seq(Nat) /\ Auth \in Nat /\ Counts(got, Auth)
    BY BoundsAssumption DEF IInv, TypeOK, Upload
  <2> QED BY <2>1, CountsPieces DEF UploadIntact
<1> QED BY Invariance, <1>1, PTL

\* The upstream's end of upload comes after all of a request that ended well, up
\* to a frame that was cut short.
THEOREM UploadsEndComplete == Spec => []UploadEndsComplete
<1>1. IInv => UploadEndsComplete
  BY BoundsAssumption DEF IInv, TypeOK, RequestType, Upload, Ends, UploadEndsComplete
<1> QED BY Invariance, <1>1, PTL

\* When the relay has copied the upstream's end, a client that is told the
\* response is over has all of it, whichever branch of the selects ended it.
THEOREM ResponsesAreComplete == Spec => []ResponseComplete
<1>1. IInv => ResponseComplete
  <2> SUFFICES ASSUME IInv, client.end = "fin", half.down
               PROVE  client.got = Pieces(1, resp.written)
    BY DEF ResponseComplete
  <2>1. client \in ClientType /\ resp \in ResponseType /\ outbuf = <<>> /\ resp.taken = resp.written
    BY DEF IInv, TypeOK, Ends
  <2>2. client.got \in Seq(Nat) /\ Len(client.got) = resp.written /\ Counts(client.got, 0)
    BY <2>1 DEF IInv, ClientType, ResponseType, Download
  <2>3. client.got = Pieces(0 + 1, 0 + Len(client.got))
    BY <2>2, CountsPieces
  <2> QED BY <2>1, <2>2, <2>3 DEF ResponseType
<1> QED BY Invariance, <1>1, PTL

\* relay_grpc_via_core returns only after its decode and relay tasks have ended
\* or been aborted.
THEOREM NoTaskOutlivesTheHandler == Spec => []NothingLeftRunning
<1>1. IInv => NothingLeftRunning
  BY DEF IInv, Phase
<1> QED BY Invariance, <1>1, PTL
=============================================================================
