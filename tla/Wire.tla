-------------------------------- MODULE Wire --------------------------------
(***************************************************************************)
(* The packets of the traffic server on a connection: what genpackets      *)
(* generates for each of them (Marshal and Unmarshal of                    *)
(* traffic/packets_gen.go, from the template genpackets/genpackets.go:     *)
(* 111-205), over the reads of package reader.                             *)
(*                                                                         *)
(* One side sends packets and closes its end, perhaps inside a packet; the *)
(* stream arrives in pieces; the other side reads packet after packet as   *)
(* traffic/traffic.go:70-116 does with the four kinds that clients send.   *)
(* A read that would wait for bytes is one that finds them in a later      *)
(* piece.                                                                  *)
(***************************************************************************)
EXTENDS Naturals, Sequences, FiniteSetsExt

CONSTANTS
  Value,    \* kind of packet -> the field values that are tried, as sequences
  MaxSent,  \* bound: packets sent
  MaxCuts   \* bound: places the stream is cut at, unless it is cut after every byte

Uint16 == [type |-> "int", width |-> 2]
Uint32 == [type |-> "int", width |-> 4]
Uint16s == [type |-> "slice", width |-> 2]
String == [type |-> "string", width |-> 1]

IAmCameraPacket == [opcode |-> 128, fields |-> <<Uint16, Uint16, Uint16>>]
IAmDispatcherPacket == [opcode |-> 129, fields |-> <<Uint16s>>]
ErrorPacket == [opcode |-> 16, fields |-> <<String>>]
PlatePacket == [opcode |-> 32, fields |-> <<String, Uint32>>]
TicketPacket ==
  [opcode |-> 33, fields |-> <<String, Uint16, Uint16, Uint32, Uint16, Uint32, Uint16>>]
WantHeartbeatPacket == [opcode |-> 64, fields |-> <<Uint32>>]
HeartbeatPacket == [opcode |-> 65, fields |-> <<>>]

Kind == {IAmCameraPacket, IAmDispatcherPacket, ErrorPacket, PlatePacket, TicketPacket,
         WantHeartbeatPacket, HeartbeatPacket}

Packet == UNION {{[kind |-> k, values |-> v] : v \in Value[k.opcode]} : k \in Kind}

Byte == 0..255

Weight == <<1, 256, 65536, 16777216>>

(* Ints fit their width; strings are of bytes; lengths fit one byte: what the *)
(* servers write they have read before, or it is a short message.             *)
Writable(field, value) ==
  CASE field.type = "int" -> value \in Nat /\ value \div Weight[field.width] < 256
    [] field.type = "string" -> value \in Seq(Byte) /\ Len(value) < 256
    [] field.type = "slice" ->
         /\ value \in Seq(Nat) /\ Len(value) < 256
         /\ \A k \in 1..Len(value) : value[k] \div Weight[field.width] < 256

ASSUME WireAssumption ==
  /\ MaxSent \in Nat /\ MaxCuts \in Nat
  /\ \A k \in Kind : \A v \in Value[k.opcode] :
       /\ v = [f \in 1..Len(k.fields) |-> v[f]]
       /\ \A f \in 1..Len(k.fields) : Writable(k.fields[f], v[f])

VARIABLES
  sent,     \* the packets sent whole
  stream,   \* the bytes of them, and of a packet that was not finished
  closed,   \* the sender has closed its end
  pieces,   \* the positions in stream where a piece ends
  offset,   \* bytes the reader has taken
  taken,    \* the packets it has delivered
  reading   \* it has met no error and not the end

wireVars == <<sent, stream, closed, pieces, offset, taken, reading>>

WireInit ==
  /\ sent = <<>> /\ stream = <<>> /\ closed = FALSE /\ pieces = {}
  /\ offset = 0 /\ taken = <<>> /\ reading = TRUE
-----------------------------------------------------------------------------
(* Marshal. *)

(* Mutant: the bytes the other way round. *)
LittleEndian(n, width) == [k \in 1..width |-> (n \div Weight[k]) % 256]

BigEndian(n, width) == [k \in 1..width |-> (n \div Weight[width - k + 1]) % 256]

(* What was written after the first k parts. *)
Joined(parts) ==
  LET first[k \in 0..Len(parts)] == IF k = 0 THEN <<>> ELSE first[k - 1] \o parts[k]
  IN first

WriteField(field, value) ==
  CASE field.type = "int" -> BigEndian(value, field.width)
    [] field.type = "string" -> <<Len(value) % 256>> \o value
    [] field.type = "slice" ->
         <<Len(value) % 256>>
           \o Joined([k \in 1..Len(value) |-> BigEndian(value[k], field.width)])[Len(value)]

Fields(packet) ==
  Joined([k \in 1..Len(packet.kind.fields) |->
            WriteField(packet.kind.fields[k], packet.values[k])])

Marshal(packet) == <<packet.kind.opcode>> \o Fields(packet)[Len(packet.kind.fields)]
-----------------------------------------------------------------------------
(* The reads.  Each gives the position it ends at; one that fails gives     *)
(* Failed.                                                                  *)

Failed == Len(stream) + 1

(* Where the piece ends that the byte after `at' is in. *)
PieceEnd(at) == Min({e \in pieces \cup {Len(stream)} : e > at})

(* One Read of the connection, which must fill the buffer. *)
ReadN(at, n) ==
  IF n = 0 \/ (at < Len(stream) /\ at + n <= PieceEnd(at)) THEN at + n ELSE Failed

(* Mutant: one Read, as for strings. *)
ReadOnce(at, n) == ReadN(at, n)

(* binary.Read: as many Reads as it takes. *)
ReadB(at, n) == IF at + n > Len(stream) THEN Failed ELSE at + n

Bytes(from, to) == SubSeq(stream, from + 1, to)

Number(bytes) ==
  LET n[k \in 0..Len(bytes)] == IF k = 0 THEN 0 ELSE 256 * n[k - 1] + bytes[k]
  IN n[Len(bytes)]

(* ReadByte, then as much as the byte says. *)
ReadString(at) ==
  LET start == ReadN(at, 1)
  IN IF start = Failed THEN Failed ELSE ReadN(start, stream[start])

ReadSlice(at, width) ==
  LET start == ReadN(at, 1)
  IN IF start = Failed THEN Failed ELSE ReadB(start, width * stream[start])

(* The position after a field, and what the field holds. *)
FieldEnd(field, at) ==
  CASE field.type = "int" -> ReadB(at, field.width)
    [] field.type = "string" -> ReadString(at)
    [] field.type = "slice" -> ReadSlice(at, field.width)

FieldValue(field, from, to) ==
  CASE field.type = "int" -> Number(Bytes(from, to))
    [] field.type = "string" -> Bytes(from + 1, to)
    [] field.type = "slice" ->
         [k \in 1..stream[from + 1] |->
            Number(Bytes(from + 1 + (k - 1) * field.width, from + 1 + k * field.width))]

(* Where the fields after `at' end, one after another.  After one that        *)
(* failed there is nothing to read, so Failed is what the others end at too.  *)
FieldEnds(kind, at) ==
  LET end[k \in 0..Len(kind.fields)] ==
        IF k = 0 THEN at ELSE FieldEnd(kind.fields[k], end[k - 1])
  IN end

(* The packet, when none has failed. *)
Unmarshal(kind, ends) ==
  [kind |-> kind,
   values |-> [k \in 1..Len(kind.fields) |->
                 FieldValue(kind.fields[k], ends[k - 1], ends[k])]]
-----------------------------------------------------------------------------
(* The two sides. *)

Send(packet) ==
  /\ ~closed /\ Len(sent) < MaxSent
  /\ sent' = Append(sent, packet)
  /\ stream' = stream \o Marshal(packet)
  /\ UNCHANGED <<closed, pieces, offset, taken, reading>>

(* Nothing, or the beginning of a packet. *)
Unfinished ==
  {<<>>} \cup UNION {{SubSeq(Marshal(packet), 1, n) : n \in 1..(Len(Marshal(packet)) - 1)}
                       : packet \in Packet}

Cuts(n) == {{}, 1..n} \cup {{cut[i] : i \in 1..MaxCuts} : cut \in [1..MaxCuts -> 1..n]}

(* The connection is closed, and everything arrives: in one piece, in a few,  *)
(* or byte by byte.                                                           *)
Close(rest) ==
  /\ ~closed
  /\ closed' = TRUE
  /\ stream' = stream \o rest
  /\ pieces' \in Cuts(Len(stream'))
  /\ UNCHANGED <<sent, offset, taken, reading>>

(* An opcode and what follows it.  Every opcode in a stream of packets is   *)
(* one of Kind's.                                                           *)
ReadPacket ==
  /\ closed /\ reading /\ offset < Len(stream)
  /\ LET start == ReadN(offset, 1)
         kind == CHOOSE k \in Kind : k.opcode = stream[start]
         ends == FieldEnds(kind, start)
         end == ends[Len(kind.fields)]
     IN \/ /\ end # Failed
           /\ offset' = end
           /\ taken' = Append(taken, Unmarshal(kind, ends))
           /\ UNCHANGED reading
        \/ /\ end = Failed
           /\ reading' = FALSE
           /\ UNCHANGED <<offset, taken>>
  /\ UNCHANGED <<sent, stream, closed, pieces>>

ReadEnd ==
  /\ closed /\ reading /\ offset = Len(stream)
  /\ reading' = FALSE
  /\ UNCHANGED <<sent, stream, closed, pieces, offset, taken>>

WireNext ==
  \/ \E packet \in Packet : Send(packet)
  \/ \E rest \in Unfinished : Close(rest)
  \/ ReadPacket \/ ReadEnd

WireSpec == WireInit /\ [][WireNext]_wireVars
-----------------------------------------------------------------------------
(* Properties. *)

Written(packets) == Joined([k \in 1..Len(packets) |-> Marshal(packets[k])])

Stream(packets) == Written(packets)[Len(packets)]

(* Whatever the pieces, the reader takes the packets that were sent, in       *)
(* order, from the bytes each was written to and no others: no field is read  *)
(* from its neighbour's bytes, and nothing is made of an unfinished packet.   *)
PacketsArrive ==
  /\ Len(taken) <= Len(sent) /\ taken = SubSeq(sent, 1, Len(taken))
  /\ SubSeq(stream, 1, offset) = Stream(taken)

(* A piece ends inside the string of the packet that begins at byte n: the    *)
(* string comes first, after the opcode and the length.                       *)
CutsString(packet, n) ==
  /\ packet.kind.fields # <<>> /\ packet.kind.fields[1] = String
  /\ \E e \in pieces : n + 2 < e /\ e < n + 2 + Len(packet.values[1])

(* Nothing but a string in two pieces stops the reader before the last packet *)
(* that was sent whole: integers and lists may be cut anywhere (reader.go:    *)
(* 76-78), and lengths of zero are no end.                                    *)
OnlyCutStringsStop ==
  ~reading /\ Len(taken) < Len(sent) => CutsString(sent[Len(taken) + 1], offset)

(* What the comment on ReadN says (reader.go:80-81): it reads the first N     *)
(* bytes and fails when there are not enough of them in the stream.  A reader *)
(* that stops for nothing else has taken every packet that was sent whole.    *)
StopsForWantOfBytes == ~reading => taken = sent
=============================================================================
