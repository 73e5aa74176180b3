------------------------------ MODULE BlobFrame ------------------------------
(***************************************************************************)
(* The frame header (BlobFrame.cpp): a producer fills a piece of memory,   *)
(* also one that held another header, and a consumer on another host reads *)
(* it. Memory is bytes; a number in a register is its bytes from the most  *)
(* significant one, and a host stores and loads it in its own byte order.  *)
(* memcpy between `ext` and a variable copies memory. Floats are their 32  *)
(* bits. `subType` and `reserved_`, single bytes that are stored as they   *)
(* are, are left out.                                                      *)
(***************************************************************************)
EXTENDS Naturals, SequencesExt

CONSTANTS
  Words,          (* 32-bit numbers that occur, as 4 bytes                       *)
  Longs,          (* 64-bit numbers that occur, as 8 bytes                       *)
  Segments,       (* bytes that occur                                            *)
  FrameTypes,     (* frame type -> the extension fields it has, of which segment *)
                  (* and sampleRate have bytes in common                         *)
  Garbage         (* a byte of memory nobody has written                         *)

Byte == 0..255
Zero32 == <<0, 0, 0, 0>>

ASSUME FrameAssumption ==
  /\ Words \subseteq [1..4 -> Byte] /\ Zero32 \in Words /\ Longs \subseteq [1..8 -> Byte]
  /\ Segments \subseteq Byte /\ Garbage \in Byte
  /\ FrameTypes \in [DOMAIN FrameTypes -> SUBSET {"startFreq", "segment", "sampleRate"}]
  /\ "none" \notin DOMAIN FrameTypes
  /\ \A type \in DOMAIN FrameTypes : ~({"segment", "sampleRate"} \subseteq FrameTypes[type])

VARIABLES
  host,           (* byte order of the producer: "big" or "little"            *)
  header,         (* the 32 bytes of the header, by field                     *)
  meant           (* history: what the producer wrote, by name; "none" before *)

frameVars == <<host, header, meant>>

(* A load or a store on a host of that byte order.                         *)
InMemory(order, v) == IF order = "big" THEN v ELSE Reverse(v)

(* toBE32 and toBE64: swap64 exchanges the halves and swaps each.          *)
Swap64_Halves(v) == Reverse(SubSeq(v, 1, 4)) \o Reverse(SubSeq(v, 5, 8))
Swap64(v) == Reverse(SubSeq(v, 5, 8)) \o Reverse(SubSeq(v, 1, 4))
ToBE32(order, v) == IF order = "big" THEN v ELSE Reverse(v)
ToBE64(order, v) == IF order = "big" THEN v ELSE Swap64(v)

Stored32(order, v) == InMemory(order, ToBE32(order, v))
Stored64(order, v) == InMemory(order, ToBE64(order, v))
Loaded32(order, bytes) == ToBE32(order, InMemory(order, bytes))

Fresh == [i \in 1..8 |-> Garbage]
FrameInit ==
  /\ host \in {"big", "little"}
  /\ header = [magic |-> "garbage", version |-> Garbage, type |-> "none",
               seq |-> SubSeq(Fresh, 1, 4), payloadLen |-> SubSeq(Fresh, 1, 4),
               timestampNs |-> Fresh, ext |-> Fresh]
  /\ meant = [type |-> "none"]

(* makeHeader(); the magic number is written byte by byte and kept as one. *)
Cleared(ext) == [i \in 1..8 |-> 0]

MakeHeader(type, seq, timestampNs) ==
  /\ header' = [magic |-> "BLOB", version |-> 1, type |-> type,
                seq |-> Stored32(host, seq), payloadLen |-> Zero32,
                timestampNs |-> Stored64(host, timestampNs), ext |-> Cleared(header.ext)]
  /\ meant' = [type |-> type, seq |-> seq, timestampNs |-> timestampNs, payloadLen |-> Zero32,
               startFreq |-> Zero32, sampleRate |-> Zero32, segment |-> 0]
  /\ UNCHANGED host

SetPayloadLen(n) ==
  /\ header' = [header EXCEPT !.payloadLen = Stored32(host, n)]
  /\ meant' = [meant EXCEPT !.payloadLen = n]
  /\ UNCHANGED host

(* setStartFreq() and setCenterFreq(), setSampleRate(), setSegment().      *)
SetStartFreq(f) ==
  /\ header' = [header EXCEPT !.ext = Stored32(host, f) \o SubSeq(@, 5, 8)]
  /\ meant' = [meant EXCEPT !.startFreq = f]
  /\ UNCHANGED host

SetSampleRate(f) ==
  /\ header' = [header EXCEPT !.ext = SubSeq(@, 1, 4) \o Stored32(host, f)]
  /\ meant' = [meant EXCEPT !.sampleRate = f]
  /\ UNCHANGED host

SetSegment(b) ==
  /\ header' = [header EXCEPT !.ext[5] = b]
  /\ meant' = [meant EXCEPT !.segment = b]
  /\ UNCHANGED host

(* A producer makes a header first, and sets the fields its frame type     *)
(* has.                                                                    *)
HasField(f) == meant.type # "none" /\ f \in FrameTypes[meant.type]

FrameNext ==
  \/ \E type \in DOMAIN FrameTypes, seq \in Words, t \in Longs : MakeHeader(type, seq, t)
  \/ meant.type # "none" /\ \E n \in Words : SetPayloadLen(n)
  \/ HasField("startFreq") /\ \E f \in Words : SetStartFreq(f)
  \/ HasField("sampleRate") /\ \E f \in Words : SetSampleRate(f)
  \/ HasField("segment") /\ \E b \in Segments : SetSegment(b)

-----------------------------------------------------------------------------
IsValid(h) == h.magic = "BLOB" /\ h.version = 1
GetPayloadLen(order, h) == Loaded32(order, h.payloadLen)
GetStartFreq(order, h) == Loaded32(order, SubSeq(h.ext, 1, 4))
GetSampleRate(order, h) == Loaded32(order, SubSeq(h.ext, 5, 8))
GetSegment(h) == h.ext[5]

(* "Multi-byte numeric fields are big-endian on the wire", "offsets are    *)
(* contractual", "zero unused": whatever header the memory held before and *)
(* in whatever order the fields of the frame's type were set, a consumer   *)
(* on a host of either byte order gets what was meant, zero where nothing  *)
(* was, and bytes no field has are zero.                                   *)
FrameOnWire ==
  /\ IsValid(header) <=> meant.type # "none"
  /\ meant.type # "none" =>
       /\ header.seq = meant.seq /\ header.timestampNs = meant.timestampNs
       /\ \A order \in {"big", "little"} :
            /\ GetPayloadLen(order, header) = meant.payloadLen
            /\ HasField("startFreq") => GetStartFreq(order, header) = meant.startFreq
            /\ HasField("sampleRate") => GetSampleRate(order, header) = meant.sampleRate
       /\ HasField("segment") => GetSegment(header) = meant.segment
       /\ ~HasField("startFreq") => SubSeq(header.ext, 1, 4) = Zero32
       /\ ~HasField("sampleRate") =>
            \A i \in 5..8 : header.ext[i] # 0 => i = 5 /\ HasField("segment")
=============================================================================
