---------------------------- MODULE GrpcFraming ----------------------------
(***************************************************************************)
(* The gun framing of the gRPC transport (relay/transport/grpc.rs): the    *)
(* encoder, and GrpcFrameReader, which reassembles frames from DATA chunks *)
(* that HTTP/2 may cut anywhere, and the decoding of their payload.        *)
(*                                                                         *)
(* A varint byte carries a number below Cont (128 in the code) and the bit *)
(* that says that the varint goes on.  A small Cont makes small payloads   *)
(* need varints of several bytes; everything else is as in the code.       *)
(***************************************************************************)
EXTENDS Integers, Sequences

CONSTANTS
  Cont,         \* 0x80: the varint goes on
  Tag,          \* the protobuf tag of the data field (0x0A in the code)
  MaxFrame,     \* MAX_GRPC_FRAME_SIZE
  Messages,     \* what a peer may send: [kind, data]
  MaxMessages,  \* bound: messages sent
  MaxChunk      \* bound: bytes of a DATA chunk

Base == 2 * Cont               \* bytes are 0..(Base - 1)
Bytes == 0..(Base - 1)
U32 == 0..(Base * Base * Base * Base - 1)

VARIABLES
  sent,   \* the messages the peer has written
  wire,   \* their bytes that have not arrived
  gone,   \* has the peer ended the stream?
  buf,    \* GrpcFrameReader::buf
  out,    \* what decode_grpc_frame_data made of the frames
  pc      \* the reader: "read", "end" or "err"

vars == <<sent, wire, gone, buf, out, pc>>
-----------------------------------------------------------------------------
(* Varints *)

VarintSizes[v \in U32] == IF v < Cont THEN 1 ELSE 1 + VarintSizes[v \div Cont]
VarintSize(v) == VarintSizes[v]

WriteVarint[v \in U32] ==
  IF v < Cont THEN <<v>> ELSE <<(v % Cont) + Cont>> \o WriteVarint[v \div Cont]

\* The value and the bytes it took, or <<>> for None: the bytes end first.
ReadVarint(bytes) ==
  LET ends == {i \in DOMAIN bytes : bytes[i] < Cont}
      last == CHOOSE i \in ends : \A j \in ends : i <= j
      value[k \in 0..last] ==   \* of the last k bytes
        IF k = 0 THEN 0 ELSE (value[k - 1] * Cont) + (bytes[last - k + 1] % Cont)
  IN IF ends = {} THEN <<>> ELSE <<value[last], last>>
-----------------------------------------------------------------------------
(* Frames *)

\* The compression flag, and the length as put_u32 writes it.
Header(n) ==
  LET n1 == n \div Base
      n2 == n1 \div Base
      n3 == n2 \div Base
  IN <<0, n3 % Base, n2 % Base, n1 % Base, n % Base>>

\* u32::from_be_bytes of the four bytes after the flag
GetU32(bytes) == ((bytes[2] * Base + bytes[3]) * Base + bytes[4]) * Base + bytes[5]

EncodeGrpcFrame(data) ==
  Header(1 + VarintSize(Len(data)) + Len(data))
    \o (<<Tag>> \o (WriteVarint[Len(data)] \o data))

\* Other peers leave an empty field out, or send fields that are not the data.
Encode(m) ==
  CASE m.kind = "data" -> EncodeGrpcFrame(m.data)
    [] m.kind = "bare" -> Header(0)
    [] m.kind = "other" -> Header(1 + Len(m.data)) \o (<<Tag + 1>> \o m.data)

\* The messages there are fit into frames, and only the bare one lacks the field.
ASSUME FramingAssumption ==
  /\ Cont \in Nat \ {0, 1} /\ Tag \in 0..(Base - 2) /\ MaxFrame \in Nat
  /\ \A m \in Messages :
       /\ m.kind \in {"data", "bare", "other"} /\ m.data \in Seq(Bytes)
       /\ m.kind = "bare" => m.data = <<>>
       /\ Len(m.data) \in U32 /\ 1 + VarintSize(Len(m.data)) + Len(m.data) \in U32
  /\ MaxMessages \in Nat /\ MaxChunk \in Nat \ {0}

\* (mutant) The data is taken to start at the tag's successor.
DecodeFromVarint(payload) ==
  IF payload = <<>> THEN <<<<>>>>
  ELSE LET varint == ReadVarint(Tail(payload))
       IN IF Head(payload) # Tag \/ varint = <<>> \/ Len(payload) < 1 + varint[1] THEN <<>>
          ELSE <<SubSeq(payload, 2, 1 + varint[1])>>

\* The data in a one-element sequence, or <<>> for None.
DecodeGunPayload(payload) ==
  IF payload = <<>> THEN <<<<>>>>
  ELSE LET varint == ReadVarint(Tail(payload))
       IN IF Head(payload) # Tag \/ varint = <<>> THEN <<>>
          ELSE LET start == 1 + varint[2]
               IN IF Len(payload) < start + varint[1] THEN <<>>
                  ELSE <<SubSeq(payload, start + 1, start + varint[1])>>

OuterLen == GetU32(buf)

CompleteStrictly == Len(buf) >= 5 /\ Len(buf) > 5 + OuterLen   \* (mutant) waits for one byte more

\* next_frame has a whole frame.
Complete == Len(buf) >= 5 /\ Len(buf) >= 5 + OuterLen

TooLargeNever == FALSE   \* (mutant) no limit

TooLarge == Len(buf) >= 5 /\ OuterLen > MaxFrame

\* What split_to takes off the buffer.
FrameLen == 5 + OuterLen

Frame ==
  /\ pc = "read" /\ ~TooLarge /\ Complete
  /\ out' = out \o DecodeGunPayload(SubSeq(buf, 6, FrameLen))
  /\ buf' = SubSeq(buf, FrameLen + 1, Len(buf))
  /\ UNCHANGED <<sent, wire, gone, pc>>

Oversized ==
  /\ pc = "read" /\ TooLarge
  /\ pc' = "err"
  /\ UNCHANGED <<sent, wire, gone, buf, out>>

\* A DATA chunk of n bytes, waited for when there is no whole frame.
Chunk(n) ==
  /\ pc = "read" /\ ~TooLarge /\ ~Complete /\ n <= Len(wire)
  /\ buf' = buf \o SubSeq(wire, 1, n)
  /\ wire' = SubSeq(wire, n + 1, Len(wire))
  /\ UNCHANGED <<sent, gone, out, pc>>

\* (mutant) The end is seen only between frames.
EndBetweenFrames ==
  /\ pc = "read" /\ buf = <<>> /\ wire = <<>> /\ gone
  /\ pc' = "end"
  /\ UNCHANGED <<sent, wire, gone, buf, out>>

\* The stream ends; what is in the buffer is dropped.
EndOfStream ==
  /\ pc = "read" /\ ~TooLarge /\ ~Complete /\ wire = <<>> /\ gone
  /\ pc' = "end"
  /\ UNCHANGED <<sent, wire, gone, buf, out>>
-----------------------------------------------------------------------------
(* The peer *)

Send(m) ==
  /\ ~gone /\ Len(sent) < MaxMessages
  /\ sent' = Append(sent, m)
  /\ wire' = wire \o Encode(m)
  /\ UNCHANGED <<gone, buf, out, pc>>

\* It ends the stream, perhaps in the middle of a frame.
Finish ==
  /\ ~gone /\ gone' = TRUE
  /\ \E n \in 0..Len(wire) : wire' = SubSeq(wire, 1, n)
  /\ UNCHANGED <<sent, buf, out, pc>>

Init ==
  /\ sent = <<>> /\ wire = <<>> /\ gone = FALSE
  /\ buf = <<>> /\ out = <<>> /\ pc = "read"

Next ==
  \/ Frame \/ Oversized \/ EndOfStream \/ Finish
  \/ \E n \in 1..MaxChunk : Chunk(n)
  \/ \E m \in Messages : Send(m)

Spec == Init /\ [][Next]_vars

\* The reader is polled; the peer need not go on.
FairSpec == Spec /\ WF_vars(Frame \/ Oversized \/ EndOfStream \/ \E n \in 1..MaxChunk : Chunk(n))
-----------------------------------------------------------------------------
(* Properties *)

\* What a message carries, and what messages do: the data of all that have any.
Payload(m) == IF m.kind = "other" THEN <<>> ELSE <<m.data>>
Carried(messages) ==
  LET first[k \in 0..Len(messages)] ==
        IF k = 0 THEN <<>> ELSE first[k - 1] \o Payload(messages[k])
  IN first[Len(messages)]

\* Variables keep their types, and no more than a frame of the largest size and
\* one chunk is ever buffered.
TypeOK ==
  /\ sent \in Seq(Messages) /\ wire \in Seq(Bytes) /\ gone \in BOOLEAN
  /\ buf \in Seq(Bytes) /\ pc \in {"read", "end", "err"}
  /\ Len(buf) < 5 + MaxFrame + MaxChunk

\* However the stream is cut into chunks and wherever it ends, the reader makes
\* of it the data of the first messages: none is lost, changed or invented.
Reassembled == \E n \in 0..Len(Carried(sent)) : out = SubSeq(Carried(sent), 1, n)

\* A reader that waits for the network has delivered every frame that has
\* arrived in full; only the tail of the last one is held.
NothingHeldBack ==
  (pc = "read" /\ ~TooLarge /\ ~Complete /\ wire = <<>> /\ ~gone) => out = Carried(sent)

\* A stream whose frames all fit is read to its end.
ReadToTheEnd ==
  (gone /\ \A i \in DOMAIN sent : Len(Encode(sent[i])) <= 5 + MaxFrame) ~> pc = "end"
=============================================================================
