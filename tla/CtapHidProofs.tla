--------------------------- MODULE CtapHidProofs ---------------------------
(***************************************************************************)
(* Proofs about CtapHid, for every number of channels, packet size,        *)
(* message size and timeout.  The invariant IInv of CtapHid is inductive;  *)
(* what is read off it: the buffer holds exactly what its channel sent, a  *)
(* request in progress is never replaced, a cancel reaches only the        *)
(* request it was sent for, a response always fits the send queue, an      *)
(* incomplete message is given up only by its owner or by the timeout, and *)
(* the responses in the queue are whole and echo what a PING sent.         *)
(***************************************************************************)
EXTENDS CtapHid, TLAPS

-----------------------------------------------------------------------------
(* Sizes. *)

\* The largest payload is a natural number no smaller than one packet's.
LEMMA MaxPayloadType == MaxPayload \in Nat /\ InitSize <= MaxPayload
<1>1. MaxConts * ContSize \in Nat
  BY SizeAssumption
<1>. QED  BY <1>1, SizeAssumption DEF MaxPayload

\* A payload that fits the buffer needs at most MaxConts continuation packets
\* (ctaphid_message_to_packets): a response never exceeds the send queue.
LEMMA NumContsBound ==
    ASSUME NEW len \in 0..MaxPayload
    PROVE  NumConts(len) \in 0..MaxConts
<1>1. CASE len <= InitSize
  BY <1>1, SizeAssumption DEF NumConts
<1>2. CASE ~(len <= InitSize)
  <2> DEFINE a == len - InitSize + ContSize - 1
             q == a \div ContSize
  <2>1. a \in Nat /\ ContSize \in Nat /\ ContSize > 0
    BY <1>2, SizeAssumption, MaxPayloadType
  <2>2. q \in Nat /\ q * ContSize <= a
    BY <2>1
  <2>3. a < (MaxConts + 1) * ContSize
    BY <1>2, SizeAssumption, MaxPayloadType DEF MaxPayload
  <2>4. q < MaxConts + 1
    BY <2>1, <2>2, <2>3, SizeAssumption
  <2>. QED  BY <1>2, <2>2, <2>4, SizeAssumption DEF NumConts
<1>. QED  BY <1>1, <1>2

-----------------------------------------------------------------------------
(* Packets. *)

\* The packets of the hosts are packets, and their octets name their place.
LEMMA HostPacketType ==
    ASSUME NEW p \in HostPackets
    PROVE  /\ p \in Packet
           /\ p.cid \in 0..Broadcast
           /\ p.cmd \in Commands \cup {"CONT"}
           /\ p.n \in Nat
           /\ p.data \in Seq(Octet)
           /\ p.cmd # "CONT" => p.data = [k \in 1..InitSize |-> <<p.cid, k>>]
           /\ p.cmd = "CONT" => /\ p.n \in 0..(MaxConts - 1)
                                /\ p.data = [i \in 1..ContSize |->
                                                <<p.cid, InitSize + p.n * ContSize + i>>]
<1> DEFINE FirstPacket(c, cmd, n) == InitPacket(c, cmd, n, [k \in 1..InitSize |-> <<c, k>>])
           Body(c, s) == ContPacket(c, s, [i \in 1..ContSize |-> <<c, InitSize + s * ContSize + i>>])
<1>1. ASSUME NEW c \in HostCids, NEW cmd \in HostCommands, NEW n \in HostLengths,
             p = FirstPacket(c, cmd, n)
      PROVE  /\ p.cid = c /\ p.cmd = cmd /\ p.n = n
             /\ c \in 0..Broadcast /\ c \in Nat /\ cmd \in Commands /\ n \in Nat
             /\ p.data = [k \in 1..InitSize |-> <<c, k>>]
             /\ p.data \in Seq(Octet)
             /\ p \in Packet
  <2>1. c \in 0..Broadcast /\ c \in Nat /\ cmd \in Commands /\ n \in Nat
    BY <1>1, HostAssumption, SizeAssumption DEF Broadcast
  <2>2. [k \in 1..InitSize |-> <<c, k>>] \in Seq(Octet)
    BY <2>1, SizeAssumption DEF Octet
  <2>. QED  BY <1>1, <2>1, <2>2 DEF InitPacket, Packet
<1>2. ASSUME NEW c \in HostCids, NEW s \in 0..(MaxConts - 1),
             p = Body(c, s)
      PROVE  /\ p.cid = c /\ p.cmd = "CONT" /\ p.n = s
             /\ c \in 0..Broadcast /\ s \in Nat
             /\ p.data = [i \in 1..ContSize |-> <<c, InitSize + s * ContSize + i>>]
             /\ p.data \in Seq(Octet)
             /\ p \in Packet
  <2>1. c \in 0..Broadcast /\ c \in Nat /\ s \in Nat /\ ContSize \in Nat
    BY <1>2, HostAssumption, SizeAssumption DEF Broadcast
  <2>2. s * ContSize \in Nat
    BY <2>1
  <2>3. \A i \in 1..ContSize : <<c, InitSize + s * ContSize + i>> \in Octet
    BY <2>1, <2>2, SizeAssumption DEF Octet
  <2>4. [i \in 1..ContSize |-> <<c, InitSize + s * ContSize + i>>] \in Seq(Octet)
    BY <2>1, <2>3
  <2>. QED  BY <1>2, <2>1, <2>4 DEF ContPacket, Packet
<1>3. \/ \E c \in HostCids, cmd \in HostCommands, n \in HostLengths : p = FirstPacket(c, cmd, n)
      \/ \E c \in HostCids, s \in 0..(MaxConts - 1) : p = Body(c, s)
  BY DEF HostPackets
<1>4. "CONT" \notin Commands
  BY DEF Commands
<1>. QED  BY <1>1, <1>2, <1>3, <1>4

\* The answers to a packet are messages of the queue.
LEMMA ReplyTypes ==
    /\ Broadcast \in Nat /\ 0..MaxCid \subseteq 0..Broadcast /\ 1..MaxCid \subseteq 0..Broadcast
    /\ \A c \in 0..Broadcast, code \in Nat : ErrorPacket(c, code) \in Packet
    /\ \A c \in 0..Broadcast, r \in Nat : InitResponse(c, r) \in Packet
    /\ \A c \in 0..Broadcast, v \in Nat :
          InitPacket(c, "KEEPALIVE", 1, <<Device(v)>>) \in Packet
    /\ \A c \in 0..Broadcast : InitPacket(c, "WINK", 0, <<>>) \in Packet
<1>1. Broadcast \in Nat /\ 0..MaxCid \subseteq 0..Broadcast /\ 1..MaxCid \subseteq 0..Broadcast
  BY SizeAssumption DEF Broadcast
<1>2. \A v \in Nat : <<Device(v)>> \in Seq(Octet)
  BY DEF Device, Octet
<1>. QED  BY <1>1, <1>2 DEF ErrorPacket, InitResponse, InitPacket, Packet, Commands

\* The octets of a packet are a sequence of octets.
LEMMA ChunkType ==
    ASSUME NEW payload \in Seq(Octet), NEW from \in Nat, NEW size \in Nat
    PROVE  Chunk(payload, from, size) \in Seq(Octet)
<1>1. \A i \in 1..size : from + i <= Len(payload) => payload[from + i] \in Octet
  OBVIOUS
<1>2. Device(0) \in Octet
  BY DEF Device, Octet
<1>. QED  BY <1>1, <1>2 DEF Chunk

\* A response of at most MaxPayload octets becomes at most QueueSize packets.
LEMMA MessageToPacketsType ==
    ASSUME NEW cid \in 0..Broadcast, NEW cmd \in Commands,
           NEW payload \in Seq(Octet), Len(payload) <= MaxPayload
    PROVE  /\ MessageToPackets(cid, cmd, payload) \in Seq(Packet)
           /\ Len(MessageToPackets(cid, cmd, payload)) <= QueueSize
<1> DEFINE conts == NumConts(Len(payload))
<1>1. conts \in Nat /\ conts <= MaxConts
  <2>1. Len(payload) \in 0..MaxPayload
    BY MaxPayloadType
  <2>. QED  BY <2>1, NumContsBound, SizeAssumption
<1>2. InitPacket(cid, cmd, Len(payload), Chunk(payload, 0, InitSize)) \in Packet
  <2>1. InitSize \in Nat /\ Len(payload) \in Nat /\ 0 \in Nat
    BY SizeAssumption
  <2>2. Chunk(payload, 0, InitSize) \in Seq(Octet)
    BY <2>1, ChunkType
  <2>. QED  BY <2>1, <2>2 DEF InitPacket, Packet
<1>3. ASSUME NEW i \in 2..(1 + conts)
      PROVE  ContPacket(cid, i - 2, Chunk(payload, InitSize + (i - 2) * ContSize, ContSize)) \in Packet
  <2>1. i - 2 \in Nat /\ ContSize \in Nat /\ InitSize \in Nat
    BY <1>1, SizeAssumption
  <2>2. InitSize + (i - 2) * ContSize \in Nat
    BY <2>1
  <2>3. Chunk(payload, InitSize + (i - 2) * ContSize, ContSize) \in Seq(Octet)
    BY <2>1, <2>2, ChunkType
  <2>. QED  BY <2>1, <2>3 DEF ContPacket, Packet
<1>4. \A i \in 1..(1 + conts) :
         (IF i = 1
          THEN InitPacket(cid, cmd, Len(payload), Chunk(payload, 0, InitSize))
          ELSE ContPacket(cid, i - 2, Chunk(payload, InitSize + (i - 2) * ContSize, ContSize)))
         \in Packet
  BY <1>1, <1>2, <1>3
<1>5. MessageToPackets(cid, cmd, payload) \in [1..(1 + conts) -> Packet]
  BY <1>4 DEF MessageToPackets
<1>6. 1 + conts \in Nat /\ 1 + conts <= QueueSize
  BY <1>1, SizeAssumption DEF QueueSize
<1>. HIDE DEF conts
<1>. QED  BY <1>5, <1>6

-----------------------------------------------------------------------------
(* The buffer. *)

\* What IInv says of the buffer alone, for any value of it.
Sound(b) ==
    /\ b \in Buffer
    /\ DOMAIN b.payload = 1..b.offset
    /\ b.offset <= b.payload_length
    /\ \A k \in 1..b.offset : b.payload[k] = <<b.cid, k>>
    /\ IsIdle(b) => b = IdleBuffer
    /\ IsIncomplete(b) => b.offset = InitSize + b.next_seq * ContSize
    /\ b.cancel => b.cmd = "CBOR" /\ ~IsIdle(b) /\ IsComplete(b)

\* A complete message that is not given up: only its cancel flag and the
\* number of the next continuation packet may differ.
Kept(b, c) ==
    ~IsIdle(b) /\ IsComplete(b) =>
        /\ ~IsIdle(c) /\ IsComplete(c)
        /\ c.cid = b.cid /\ c.cmd = b.cmd
        /\ c.payload_length = b.payload_length /\ c.payload = b.payload
        /\ b.cancel => c.cancel

\* An empty buffer is sound.
LEMMA IdleBufferSound == Sound(IdleBuffer)
<1>1. IdleBuffer \in Buffer
  BY SizeAssumption, MaxPayloadType DEF IdleBuffer, Buffer
<1>. QED  BY <1>1 DEF Sound, IdleBuffer, IsIdle, IsIncomplete

\* copy_payload_to_buffer appends what the message still misses and no more;
\* octets that come from the place they are copied to keep the payload exact.
LEMMA CopyPayloadSound ==
    ASSUME NEW b \in Buffer,
           DOMAIN b.payload = 1..b.offset,
           b.offset <= b.payload_length,
           \A k \in 1..b.offset : b.payload[k] = <<b.cid, k>>,
           NEW data \in Seq(Octet),
           IsIncomplete(b) => \A i \in 1..Len(data) : data[i] = <<b.cid, b.offset + i>>
    PROVE  LET c == CopyPayload(b, data) IN
           /\ c \in Buffer
           /\ c.start_time = b.start_time /\ c.cid = b.cid /\ c.cmd = b.cmd
           /\ c.cancel = b.cancel /\ c.payload_length = b.payload_length
           /\ c.next_seq = b.next_seq
           /\ DOMAIN c.payload = 1..c.offset
           /\ c.offset <= c.payload_length
           /\ \A k \in 1..c.offset : c.payload[k] = <<c.cid, k>>
           /\ IsIncomplete(c) => c.offset = b.offset + Len(data)
           /\ IsComplete(b) => c.offset = b.offset /\ c.payload = b.payload
<1> DEFINE room == b.payload_length - b.offset
           size == IF Len(data) <= room THEN Len(data) ELSE room
           payload == [k \in 1..(b.offset + size) |->
                          IF k <= b.offset THEN b.payload[k] ELSE data[k - b.offset]]
           c == CopyPayload(b, data)
<1>1. /\ b.offset \in Nat /\ b.payload_length \in Nat /\ b.payload_length <= MaxPayload
      /\ b.cid \in Nat /\ b.payload \in Seq(Octet) /\ Len(data) \in Nat /\ MaxPayload \in Nat
  BY MaxPayloadType, SizeAssumption DEF Buffer
<1>2. size \in Nat /\ size <= room /\ size <= Len(data) /\ (size < room => size = Len(data))
  BY <1>1
<1>3. c = [b EXCEPT !.offset = b.offset + size, !.payload = payload]
  BY <1>1 DEF CopyPayload, Buffer
<1>. HIDE DEF c
<1>4. \A k \in 1..(b.offset + size) : payload[k] = <<b.cid, k>>
  <2>. SUFFICES ASSUME NEW k \in 1..(b.offset + size)
                PROVE  payload[k] = <<b.cid, k>>
    OBVIOUS
  <2>1. CASE k <= b.offset
    BY <1>1, <2>1
  <2>2. CASE ~(k <= b.offset)
    <3>1. k - b.offset \in 1..Len(data) /\ IsIncomplete(b)
      BY <1>1, <1>2, <2>2 DEF IsIncomplete
    <3>2. data[k - b.offset] = <<b.cid, b.offset + (k - b.offset)>>
      BY <3>1
    <3>. QED  BY <1>1, <2>2, <3>2
  <2>. QED  BY <2>1, <2>2
<1>5. payload \in Seq(Octet) /\ DOMAIN payload = 1..(b.offset + size)
  <2>1. b.offset + size \in Nat
    BY <1>1, <1>2
  <2>2. \A k \in 1..(b.offset + size) : <<b.cid, k>> \in Octet
    BY <1>1, <2>1 DEF Octet
  <2>3. \A k \in 1..(b.offset + size) : payload[k] \in Octet
    BY <1>4, <2>2
  <2>4. payload = [k \in 1..(b.offset + size) |-> payload[k]]
    OBVIOUS
  <2>5. payload \in [1..(b.offset + size) -> Octet]
    BY <2>3, <2>4
  <2>. HIDE DEF payload, size
  <2>. QED  BY <2>1, <2>5
<1>6. IsComplete(b) => size = 0 /\ payload = b.payload
  <2>1. ASSUME IsComplete(b)
        PROVE  size = 0
    BY <1>1, <1>2, <2>1 DEF IsComplete
  <2>2. ASSUME size = 0
        PROVE  payload = b.payload
    <3>1. b.offset + size = b.offset
      BY <1>1, <2>2
    <3>2. \A k \in 1..b.offset : payload[k] = b.payload[k]
      BY <1>4, <3>1
    <3>3. DOMAIN payload = DOMAIN b.payload
      BY <1>5, <3>1
    <3>4. payload = [k \in DOMAIN payload |-> payload[k]]
      OBVIOUS
    <3>5. b.payload = [k \in DOMAIN b.payload |-> b.payload[k]]
      <4>1. b.payload \in [1..Len(b.payload) -> Octet]
        BY <1>1
      <4>. QED  BY <4>1
    <3>. HIDE DEF payload
    <3>. QED  BY <3>2, <3>3, <3>4, <3>5
  <2>. QED  BY <2>1, <2>2
<1>7. c \in Buffer /\ c.offset = b.offset + size /\ c.payload = payload
  <2>1. b.offset + size \in 0..MaxPayload
    BY <1>1, <1>2
  <2>. HIDE DEF payload, size
  <2>2. c.offset = b.offset + size /\ c.payload = payload
    BY <1>3 DEF Buffer
  <2>. QED  BY <1>3, <1>5, <2>1, <2>2 DEF Buffer
<1>. HIDE DEF payload, size
<1>8. /\ c.start_time = b.start_time /\ c.cid = b.cid /\ c.cmd = b.cmd
      /\ c.cancel = b.cancel /\ c.payload_length = b.payload_length
      /\ c.next_seq = b.next_seq
  BY <1>3 DEF Buffer
<1>9. IsIncomplete(c) => c.offset = b.offset + Len(data)
  BY <1>1, <1>2, <1>7, <1>8 DEF IsIncomplete
<1>. QED  BY <1>1, <1>2, <1>4, <1>5, <1>6, <1>7, <1>8, <1>9 DEF c
-----------------------------------------------------------------------------
(* ctaphid_process_packet. *)

QueueOK(q) == q \in Seq(Packet) /\ Len(q) <= QueueSize

\* Queueing an answer keeps the queue well typed, or refuses it.
LEMMA ReplyType ==
    ASSUME QueueOK(queue), NEW p \in Packet, Reply(p)
    PROVE  QueueOK(queue')
<1>1. QueueSize \in Nat
  BY SizeAssumption DEF QueueSize
<1>. QED  BY <1>1 DEF Reply, QueueOK

\* A packet that is refused gets an error packet and changes nothing but the queue.
LEMMA FailSound ==
    ASSUME QueueOK(queue), NEW p \in HostPackets, NEW b, NEW code \in Nat, Fail(p, b, code)
    PROVE  QueueOK(queue') /\ buffer' = b /\ highest' = highest /\ pc' = pc
<1>1. p.cid \in 0..Broadcast
  BY HostPacketType
<1>2. ErrorPacket(p.cid, code) \in Packet
  BY <1>1, ReplyTypes
<1>. QED  BY <1>2, ReplyType DEF Fail

\* A packet on an allocated channel: everything but a channel allocation.
LEMMA ValidChannelType ==
    ASSUME highest \in 0..MaxCid, NEW p \in HostPackets,
           ValidChannel(p), p.cmd # "INIT"
    PROVE  p.cid \in 1..MaxCid
BY SizeAssumption DEF ValidChannel

\* Starting a message: the buffer takes the octets of the first packet.
LEMMA StartMessageSound ==
    ASSUME TypeOK, NEW p \in HostPackets, NEW b, Sound(b), StartMessage(p, b)
    PROVE  /\ Sound(buffer') /\ Kept(b, buffer')
           /\ QueueOK(queue') /\ highest' = highest /\ pc' = pc
<1>. DEFINE s == [start_time |-> clock, cid |-> p.cid, cmd |-> p.cmd, cancel |-> FALSE,
                  payload_length |-> p.n, next_seq |-> 0, offset |-> 0, payload |-> <<>>]
            c == CopyPayload(s, p.data)
<1>1. QueueOK(queue)
  BY DEF TypeOK, QueueOK
<1>2. p.cmd \notin {"CONT", "CANCEL", "INIT"} /\ ValidChannel(p)
  BY DEF StartMessage
<1>3. CASE \/ p.n > MaxPayload /\ Fail(p, b, ERR_INVALID_LENGTH)
           \/ p.n <= MaxPayload /\ ~IsIdle(b) /\ Fail(p, b, ERR_CHANNEL_BUSY)
  BY <1>1, <1>3, FailSound DEF ERR_INVALID_LENGTH, ERR_CHANNEL_BUSY, Kept
<1>4. CASE p.n <= MaxPayload /\ IsIdle(b) /\ Ignore(c)
  <2>3. p.cid \in 1..MaxCid /\ p.cmd \in Commands /\ p.n \in 0..MaxPayload
    <3>1. p.cid \in 1..MaxCid
      BY <1>2, ValidChannelType DEF TypeOK
    <3>2. p.cmd \in Commands /\ p.n \in Nat
      BY <1>2, HostPacketType
    <3>. QED  BY <3>1, <3>2, <1>4, MaxPayloadType
  <2>4. p.data \in Seq(Octet) /\ p.data = [k \in 1..InitSize |-> <<p.cid, k>>]
    BY <1>2, HostPacketType
  <2>5. Len(p.data) = InitSize /\ InitSize \in Nat
    BY <2>4, SizeAssumption
  <2>6. /\ s \in Buffer /\ s.cid = p.cid /\ s.cmd = p.cmd /\ s.cancel = FALSE
        /\ s.payload_length = p.n /\ s.next_seq = 0 /\ s.offset = 0
        /\ s.payload = <<>>
    BY <2>3, SizeAssumption, MaxPayloadType DEF TypeOK, Buffer
  <2>. HIDE DEF s
  <2>7. /\ DOMAIN s.payload = 1..s.offset /\ s.offset <= s.payload_length
        /\ \A k \in 1..s.offset : s.payload[k] = <<s.cid, k>>
    BY <2>3, <2>6
  <2>8. \A i \in 1..Len(p.data) : p.data[i] = <<s.cid, s.offset + i>>
    BY <2>4, <2>5, <2>6
  <2>9. /\ c \in Buffer /\ c.cid = s.cid /\ c.cancel = s.cancel /\ c.next_seq = s.next_seq
        /\ DOMAIN c.payload = 1..c.offset /\ c.offset <= c.payload_length
        /\ \A k \in 1..c.offset : c.payload[k] = <<c.cid, k>>
        /\ IsIncomplete(c) => c.offset = s.offset + Len(p.data)
    BY <2>4, <2>6, <2>7, <2>8, CopyPayloadSound
  <2>. HIDE DEF c
  <2>10. Sound(c)
    <3>1. ~IsIdle(c)
      BY <2>3, <2>6, <2>9 DEF IsIdle
    <3>2. IsIncomplete(c) => c.offset = InitSize + c.next_seq * ContSize
      BY <2>5, <2>6, <2>9, SizeAssumption
    <3>. QED  BY <2>6, <2>9, <3>1, <3>2 DEF Sound
  <2>. QED  BY <1>1, <1>4, <2>10 DEF Ignore, Kept
<1>. QED  BY <1>3, <1>4 DEF StartMessage

\* A continuation packet: the expected one extends the message by the octets
\* that follow it, one for a complete message changes no octet.
LEMMA ContinueSound ==
    ASSUME TypeOK, NEW p \in HostPackets, NEW b, Sound(b), Continue(p, b)
    PROVE  /\ Sound(buffer') /\ Kept(b, buffer')
           /\ QueueOK(queue') /\ highest' = highest
           /\ pc' = pc \/ (pc' = "assert_payload_length" /\ b.payload_length = 0)
<1>. DEFINE s == [b EXCEPT !.next_seq = @ + 1]
            c == CopyPayload(s, p.data)
<1>1. QueueOK(queue)
  BY DEF TypeOK, QueueOK
<1>2. p.cmd = "CONT" /\ ValidChannel(p)
  BY DEF Continue
<1>3. CASE \/ Ignore(b)
           \/ /\ b.payload_length = 0 /\ pc' = "assert_payload_length"
              /\ buffer' = b /\ UNCHANGED <<highest, queue>>
           \/ Fail(p, b, ERR_INVALID_SEQ)
  BY <1>1, <1>3, FailSound DEF ERR_INVALID_SEQ, Kept, Ignore, QueueOK
<1>4. CASE p.cid = b.cid /\ p.n = b.next_seq /\ Ignore(c)
  <2>1. b.cid \in 1..MaxCid
    BY <1>2, <1>4, ValidChannelType DEF TypeOK
  <2>2. /\ p.n \in 0..(MaxConts - 1) /\ p.n \in Nat /\ p.data \in Seq(Octet)
        /\ p.data = [i \in 1..ContSize |-> <<p.cid, InitSize + p.n * ContSize + i>>]
    BY <1>2, HostPacketType
  <2>3. Len(p.data) = ContSize /\ ContSize \in Nat /\ InitSize \in Nat
    BY <2>2, SizeAssumption
  <2>4. b \in Buffer
    BY DEF Sound
  <2>5. /\ s \in Buffer /\ s.cid = b.cid /\ s.cmd = b.cmd /\ s.cancel = b.cancel
        /\ s.payload_length = b.payload_length /\ s.next_seq = p.n + 1
        /\ s.offset = b.offset /\ s.payload = b.payload
    <3>1. b.next_seq = p.n /\ p.n + 1 \in 0..MaxConts
      BY <1>4, <2>2, SizeAssumption
    <3>2. s = [b EXCEPT !.next_seq = p.n + 1]
      BY <3>1
    <3>. HIDE DEF s
    <3>. QED  BY <2>4, <3>1, <3>2 DEF Buffer
  <2>. HIDE DEF s
  <2>6. /\ DOMAIN s.payload = 1..s.offset /\ s.offset <= s.payload_length
        /\ \A k \in 1..s.offset : s.payload[k] = <<s.cid, k>>
    BY <2>5 DEF Sound
  <2>7. IsIncomplete(s) => s.offset = InitSize + p.n * ContSize
    BY <1>4, <2>5 DEF Sound, IsIncomplete
  <2>8. IsIncomplete(s) => \A i \in 1..Len(p.data) : p.data[i] = <<s.cid, s.offset + i>>
    BY <1>4, <2>2, <2>3, <2>5, <2>7
  <2>9. /\ c \in Buffer /\ c.cid = s.cid /\ c.cmd = s.cmd /\ c.cancel = s.cancel
        /\ c.payload_length = s.payload_length /\ c.next_seq = s.next_seq
        /\ DOMAIN c.payload = 1..c.offset /\ c.offset <= c.payload_length
        /\ \A k \in 1..c.offset : c.payload[k] = <<c.cid, k>>
        /\ IsIncomplete(c) => c.offset = s.offset + Len(p.data)
        /\ IsComplete(s) => c.offset = s.offset /\ c.payload = s.payload
    BY <2>2, <2>5, <2>6, <2>8, CopyPayloadSound
  <2>. HIDE DEF c
  <2>10. ~IsIdle(c)
    BY <2>1, <2>5, <2>9 DEF IsIdle
  <2>11. IsIncomplete(c) => c.offset = InitSize + c.next_seq * ContSize
    <3>. SUFFICES ASSUME IsIncomplete(c)
                  PROVE  c.offset = InitSize + c.next_seq * ContSize
      OBVIOUS
    <3>1. /\ s.offset \in Nat /\ s.payload_length \in Nat /\ c.offset \in Nat
      BY <2>5, <2>9, MaxPayloadType DEF Buffer
    <3>2. IsIncomplete(s)
      BY <2>6, <2>9, <3>1 DEF IsIncomplete, IsComplete
    <3>3. c.offset = InitSize + p.n * ContSize + ContSize
      BY <2>3, <2>7, <2>9, <3>2
    <3>4. (p.n + 1) * ContSize = p.n * ContSize + ContSize
      BY <2>2, <2>3
    <3>5. p.n * ContSize \in Nat
      BY <2>2, <2>3
    <3>. QED  BY <2>2, <2>3, <2>5, <2>9, <3>3, <3>4, <3>5
  <2>12. IsComplete(b) => IsComplete(c) /\ c.payload = b.payload
    BY <2>5, <2>9 DEF IsComplete
  <2>13. Sound(c)
    BY <2>5, <2>9, <2>10, <2>11, <2>12 DEF Sound
  <2>14. Kept(b, c)
    BY <2>5, <2>9, <2>10, <2>12 DEF Kept
  <2>15. buffer' = c /\ UNCHANGED <<highest, queue, pc>>
    BY <1>4 DEF Ignore
  <2>. QED  BY <1>1, <2>13, <2>14, <2>15 DEF QueueOK
<1>. QED  BY <1>3, <1>4 DEF Continue
\* Whatever packet arrives, the buffer stays sound and a complete message in
\* it is kept.
LEMMA ProcessPacketSound ==
    ASSUME TypeOK, NEW p \in HostPackets, NEW b, Sound(b), ProcessPacket(p, b)
    PROVE  /\ Sound(buffer') /\ Kept(b, buffer')
           /\ QueueOK(queue') /\ highest' \in 0..MaxCid
           /\ pc' = pc \/ (pc' = "assert_payload_length" /\ b.payload_length = 0)
<1>1. QueueOK(queue) /\ highest \in 0..MaxCid
  BY DEF TypeOK, QueueOK
<1>2. Kept(b, b)
  BY DEF Kept
<1>3. CASE InvalidChannel(p, b)
  BY <1>1, <1>2, <1>3, FailSound DEF InvalidChannel, ERR_INVALID_CHANNEL
<1>4. CASE Cancel(p, b)
  <2>1. CASE Fail(p, b, ERR_INVALID_LENGTH)
    BY <1>1, <1>2, <2>1, FailSound DEF ERR_INVALID_LENGTH
  <2>2. CASE Ignore(b)
    BY <1>1, <1>2, <2>2 DEF Ignore, QueueOK
  <2>3. CASE /\ p.cid = b.cid /\ b.cmd = "CBOR" /\ IsComplete(b)
             /\ Ignore([b EXCEPT !.cancel = TRUE])
    <3>1. p.cid \in 1..MaxCid
      BY <1>1, <1>4, ValidChannelType DEF Cancel
    <3>2. ~IsIdle(b) /\ b \in Buffer
      BY <2>3, <3>1 DEF IsIdle, Sound
    <3> DEFINE c == [b EXCEPT !.cancel = TRUE]
    <3>3. /\ c \in Buffer /\ c.cid = b.cid /\ c.cmd = b.cmd /\ c.cancel
          /\ c.payload_length = b.payload_length /\ c.next_seq = b.next_seq
          /\ c.offset = b.offset /\ c.payload = b.payload
      BY <3>2 DEF Buffer
    <3>. HIDE DEF c
    <3>4. Sound(c)
      BY <2>3, <3>2, <3>3 DEF Sound, IsIdle, IsComplete, IsIncomplete
    <3>5. Kept(b, c)
      BY <3>3 DEF Kept, IsIdle, IsComplete
    <3>6. buffer' = c /\ UNCHANGED <<highest, queue, pc>>
      BY <2>3 DEF Ignore, c
    <3>. QED  BY <1>1, <3>4, <3>5, <3>6 DEF QueueOK
  <2>. QED  BY <1>4, <2>1, <2>2, <2>3 DEF Cancel
<1>5. CASE AllocateChannel(p, b)
  <2>1. ASSUME NEW code \in {0, ERR_INVALID_CHANNEL}, Fail(p, b, code)
        PROVE  Sound(buffer') /\ Kept(b, buffer') /\ QueueOK(queue')
               /\ highest' \in 0..MaxCid /\ pc' = pc
    BY <1>1, <1>2, <2>1, FailSound DEF ERR_INVALID_CHANNEL
  <2>2. CASE /\ highest + 1 # Broadcast /\ highest' = highest + 1
             /\ Reply(InitResponse(Broadcast, highest')) /\ buffer' = b /\ pc' = pc
    <3>1. highest' \in 0..MaxCid /\ highest' \in Nat
      BY <1>1, <2>2, SizeAssumption DEF Broadcast
    <3>2. Broadcast \in 0..Broadcast
      BY SizeAssumption DEF Broadcast
    <3>3. InitResponse(Broadcast, highest') \in Packet
      BY <3>1, <3>2, ReplyTypes
    <3>4. QueueOK(queue')
      BY <1>1, <2>2, <3>3, ReplyType
    <3>. QED  BY <1>2, <2>2, <3>1, <3>4
  <2>. QED  BY <1>5, <2>1, <2>2 DEF AllocateChannel
<1>6. CASE Resynchronize(p, b)
  <2>1. p.cid \in 0..Broadcast /\ highest \in Nat
    <3>1. p.cid \in 0..Broadcast
      BY HostPacketType
    <3>. QED  BY <1>1, <3>1
  <2>2. QueueOK(queue')
    BY <1>1, <1>6, <2>1, ReplyTypes, ReplyType DEF Resynchronize
  <2>3. CASE p.cid = b.cid /\ IsIncomplete(b)
    <3>1. ~IsComplete(b)
      BY <2>3, SizeAssumption, MaxPayloadType DEF IsComplete, IsIncomplete, Sound, Buffer
    <3>. QED  BY <1>1, <1>6, <2>2, <2>3, <3>1, IdleBufferSound DEF Resynchronize, Kept
  <2>4. CASE ~(p.cid = b.cid /\ IsIncomplete(b))
    BY <1>1, <1>2, <1>6, <2>2, <2>4 DEF Resynchronize
  <2>. QED  BY <2>3, <2>4
<1>7. CASE InvalidInit(p, b)
  BY <1>1, <1>2, <1>7, FailSound DEF InvalidInit, ERR_INVALID_LENGTH
<1>8. CASE StartMessage(p, b)
  BY <1>1, <1>8, StartMessageSound
<1>9. CASE Continue(p, b)
  BY <1>1, <1>9, ContinueSound
<1>. QED  BY <1>3, <1>4, <1>5, <1>6, <1>7, <1>8, <1>9 DEF ProcessPacket

-----------------------------------------------------------------------------
(* The inductive invariant, with the conjuncts about the buffer folded. *)

Rest ==
    /\ clock \in 0..(ClockMod - 1)
    /\ highest \in 0..MaxCid
    /\ QueueOK(queue)
    /\ pc \in {"run", "drain", "request", "wait_up", "respond",
               "error_handler", "assert_payload_length"}
    /\ presence \in {"none", "allow", "timeout", "cancel"}
    /\ response \in Seq(Octet)
    /\ RequestStaysReady
    /\ presence = "cancel" => buffer.cancel
    /\ RequestShape
    /\ ResponseAlwaysFits

\* The inductive invariant, split into the buffer and the rest.
LEMMA IInvFolded == IInv <=> Sound(buffer) /\ Rest
<1>1. Sound(buffer) <=> /\ buffer \in Buffer
                        /\ MessageIntegrity
                        /\ BufferShape
                        /\ buffer.cancel => buffer.cmd = "CBOR" /\ CompleteMessageReady
  BY DEF Sound, MessageIntegrity, BufferShape, CompleteMessageReady
<1>. QED  BY <1>1 DEF IInv, Rest, TypeOK, QueueOK, CancelScoped

\* The same fact about the next state.
LEMMA IInvUnfolded ==
    ASSUME Sound(buffer'), Rest'
    PROVE  IInv'
<1>1. /\ buffer' \in Buffer
      /\ MessageIntegrity'
      /\ BufferShape'
      /\ buffer'.cancel => buffer'.cmd = "CBOR" /\ CompleteMessageReady'
  BY DEF Sound, MessageIntegrity, BufferShape, CompleteMessageReady
<1>. QED  BY <1>1 DEF IInv, Rest, TypeOK, QueueOK, CancelScoped

\* IInv holds at power up.
LEMMA InitIInv == Init => IInv
<1>. SUFFICES ASSUME Init PROVE IInv
  OBVIOUS
<1>1. Sound(buffer)
  BY IdleBufferSound DEF Init
<1>2. Rest
  <2>1. QueueOK(<<>>) /\ <<>> \in Seq(Octet)
    BY SizeAssumption DEF QueueOK, QueueSize
  <2>. QED  BY <2>1, SizeAssumption DEF Init, Rest, RequestStaysReady, Working,
              RequestShape, ResponseAlwaysFits
<1>. QED  BY <1>1, <1>2, IInvFolded
-----------------------------------------------------------------------------
(* The steps. *)

\* app_handle_incoming_hid_packet: the timeout never takes a complete message,
\* so the message app_ctaphid_task works on is kept.
LEMMA ReceiveIInv ==
    ASSUME IInv, NEW p \in HostPackets, Receive(p)
    PROVE  IInv' /\ (Working => Kept(buffer, buffer'))
<1> DEFINE b == IF IncompleteMessageTimeout(buffer) THEN IdleBuffer ELSE buffer
<1>1. Sound(buffer) /\ Rest /\ TypeOK
  BY IInvFolded DEF IInv
<1>2. Sound(b)
  BY <1>1, IdleBufferSound
<1>3. Working => b = buffer
  <2>1. CompleteMessageReady => ~IsIncomplete(buffer)
    BY <1>1, MaxPayloadType DEF CompleteMessageReady, IsComplete, IsIncomplete, TypeOK, Buffer
  <2>. QED  BY <1>1, <2>1 DEF Rest, RequestStaysReady, IncompleteMessageTimeout
<1>4. ProcessPacket(p, b) /\ UNCHANGED <<clock, presence, response>>
  BY DEF Receive
<1>. HIDE DEF b
<1>5. /\ Sound(buffer') /\ Kept(b, buffer')
      /\ QueueOK(queue') /\ highest' \in 0..MaxCid
      /\ pc' = pc \/ (pc' = "assert_payload_length" /\ b.payload_length = 0)
  BY <1>1, <1>2, <1>4, ProcessPacketSound
<1>6. Working' => Working /\ pc' = pc
  BY <1>5 DEF Working
<1>7. Working => /\ CompleteMessageReady' /\ buffer'.cmd = buffer.cmd
                 /\ buffer'.payload_length = buffer.payload_length
                 /\ buffer.cancel => buffer'.cancel
  BY <1>1, <1>3, <1>5 DEF Rest, RequestStaysReady, CompleteMessageReady, Kept
<1>8. presence # "none" => Working /\ pc \in {"request", "respond"} /\ pc' = pc
  BY <1>1, <1>3, <1>5 DEF Rest, RequestShape, Working
<1>9. RequestStaysReady' /\ (presence = "cancel" => buffer.cancel)'
  BY <1>1, <1>4, <1>6, <1>7, <1>8 DEF Rest, RequestStaysReady
<1>10. RequestShape'
  BY <1>1, <1>4, <1>5, <1>6, <1>7, <1>8 DEF Rest, RequestShape, Working
<1>11. Rest'
  BY <1>1, <1>4, <1>5, <1>9, <1>10 DEF Rest, ResponseAlwaysFits
<1>. QED  BY <1>3, <1>5, <1>11, IInvUnfolded

\* The response to a complete message: after the wait for an empty queue it
\* fits, and the device is idle again.
LEMMA RespondIInv ==
    ASSUME IInv, NEW packets \in Seq(Packet), Len(packets) <= QueueSize,
           queue = <<>>, Respond(packets),
           presence' = "none", response' \in Seq(Octet), UNCHANGED <<clock, highest>>
    PROVE  IInv'
<1>1. Sound(buffer) /\ Rest
  BY IInvFolded
<1>2. Len(queue) + Len(packets) <= QueueSize /\ queue \o packets = packets
  BY SizeAssumption DEF QueueSize
<1>3. queue' = packets /\ buffer' = IdleBuffer /\ pc' = "run"
  BY <1>2 DEF Respond
<1>4. Sound(buffer')
  BY <1>3, IdleBufferSound
<1>5. Rest'
  BY <1>1, <1>3 DEF Rest, QueueOK, RequestStaysReady, RequestShape, ResponseAlwaysFits, Working
<1>. QED  BY <1>4, <1>5, IInvUnfolded

\* The answers of app_ctaphid_task that need no CTAP request.
LEMMA AnswerIInv ==
    ASSUME IInv, pc = "drain", WaitOver, NEW packets \in Seq(Packet),
           Len(packets) <= QueueSize, Answer(packets)
    PROVE  IInv'
<1>1. presence = "none" /\ response \in Seq(Octet) /\ queue = <<>>
  BY DEF IInv, RequestShape, TypeOK, WaitOver
<1>. QED  BY <1>1, RespondIInv DEF Answer

\* A one-packet answer always fits.
LEMMA OnePacketAnswer ==
    ASSUME NEW p \in Packet
    PROVE  <<p>> \in Seq(Packet) /\ Len(<<p>>) <= QueueSize
BY SizeAssumption DEF QueueSize

\* The answer of the main loop to an unknown command keeps IInv.
LEMMA ErrorAnswerIInv ==
    ASSUME IInv, pc = "drain", WaitOver, NEW code \in Nat,
           Answer(<<ErrorPacket(buffer.cid, code)>>)
    PROVE  IInv'
<1>1. buffer.cid \in 0..Broadcast
  BY ReplyTypes DEF IInv, TypeOK, Buffer
<1>2. ErrorPacket(buffer.cid, code) \in Packet
  BY <1>1, ReplyTypes
<1>. QED  BY <1>2, OnePacketAnswer, AnswerIInv

\* Every step of the main loop keeps IInv.
LEMMA TaskIInv ==
    ASSUME IInv, Task
    PROVE  IInv'
<1>1. Sound(buffer) /\ Rest /\ TypeOK
  BY IInvFolded DEF IInv
<1>2. buffer.cid \in 0..Broadcast /\ buffer.payload \in Seq(Octet)
      /\ Len(buffer.payload) <= MaxPayload /\ buffer \in Buffer
  <2>1. /\ buffer \in Buffer /\ DOMAIN buffer.payload = 1..buffer.offset
        /\ buffer.payload \in Seq(Octet) /\ buffer.offset \in 0..MaxPayload
    BY <1>1 DEF Sound, Buffer
  <2>2. Len(buffer.payload) = buffer.offset
    BY <2>1, MaxPayloadType
  <2>. QED  BY <2>1, <2>2, MaxPayloadType, ReplyTypes DEF Buffer
<1>3. CASE TaskStart
  <2>1. Sound(buffer')
    BY <1>1, <1>3 DEF TaskStart
  <2>2. Rest'
    BY <1>1, <1>3
       DEF TaskStart, Rest, RequestStaysReady, RequestShape, ResponseAlwaysFits, Working,
           CompleteMessageReady, QueueOK
  <2>. QED  BY <2>1, <2>2, IInvUnfolded
<1>4. CASE HandlePing
  <2>1. /\ MessageToPackets(buffer.cid, "PING", buffer.payload) \in Seq(Packet)
        /\ Len(MessageToPackets(buffer.cid, "PING", buffer.payload)) <= QueueSize
    BY <1>2, MessageToPacketsType DEF Commands
  <2>. QED  BY <1>4, <2>1, AnswerIInv DEF HandlePing
<1>5. CASE HandleWink
  <2>1. InitPacket(buffer.cid, "WINK", 0, <<>>) \in Packet
    BY <1>2, ReplyTypes
  <2>2. CASE Answer(<<InitPacket(buffer.cid, "WINK", 0, <<>>)>>)
    BY <1>5, <2>1, <2>2, OnePacketAnswer, AnswerIInv DEF HandleWink
  <2>3. CASE Answer(<<ErrorPacket(buffer.cid, ERR_INVALID_LENGTH)>>)
    BY <1>5, <2>3, ErrorAnswerIInv DEF HandleWink, ERR_INVALID_LENGTH
  <2>. QED  BY <1>5, <2>2, <2>3 DEF HandleWink
<1>6. CASE HandleUnsupported
  BY <1>6, ErrorAnswerIInv DEF HandleUnsupported, ERR_INVALID_COMMAND
<1>7. CASE HandleCbor
  <2>1. CASE Answer(<<ErrorPacket(buffer.cid, ERR_INVALID_LENGTH)>>)
    BY <1>7, <2>1, ErrorAnswerIInv DEF HandleCbor, ERR_INVALID_LENGTH
  <2>2. CASE /\ buffer.payload_length # 0 /\ pc' = "request" /\ presence' = "none"
             /\ UNCHANGED <<clock, highest, buffer, queue, response>>
    <3>1. pc = "drain" /\ buffer.cmd = "CBOR"
      BY <1>7 DEF HandleCbor
    <3>2. Sound(buffer')
      BY <1>1, <2>2
    <3>3. Rest'
      BY <1>1, <2>2, <3>1
         DEF Rest, RequestStaysReady, RequestShape, ResponseAlwaysFits, Working,
             CompleteMessageReady, QueueOK
    <3>. QED  BY <3>2, <3>3, IInvUnfolded
  <2>. QED  BY <1>7, <2>1, <2>2 DEF HandleCbor
<1>8. CASE WaitForUserPresence
  <2>1. Sound(buffer')
    BY <1>1, <1>8 DEF WaitForUserPresence
  <2>2. Rest'
    BY <1>1, <1>8
       DEF WaitForUserPresence, Rest, RequestStaysReady, RequestShape, ResponseAlwaysFits,
           Working, CompleteMessageReady, QueueOK
  <2>. QED  BY <2>1, <2>2, IInvUnfolded
<1>9. CASE UserPresenceResult
  <2>1. Sound(buffer')
    BY <1>1, <1>9 DEF UserPresenceResult
  <2>2. Rest'
    BY <1>1, <1>9
       DEF UserPresenceResult, Rest, RequestStaysReady, RequestShape, ResponseAlwaysFits,
           Working, CompleteMessageReady, QueueOK
  <2>. QED  BY <2>1, <2>2, IInvUnfolded
<1>10. CASE FinishRequest
  <2>1. response' \in Seq(Octet) /\ Len(response') <= MaxPayload
    <3>1. CASE response' = <<Device(KEEPALIVE_CANCEL)>>
      BY <3>1, MaxPayloadType, SizeAssumption DEF Device, KEEPALIVE_CANCEL, Octet
    <3>2. ASSUME NEW len \in ResponseLengths, response' = [k \in 1..len |-> Device(k)]
          PROVE  response' \in Seq(Octet) /\ Len(response') <= MaxPayload
      BY <3>2, HostAssumption, MaxPayloadType DEF Device, Octet
    <3>. QED  BY <1>10, <3>1, <3>2 DEF FinishRequest
  <2>2. Sound(buffer')
    BY <1>1, <1>10 DEF FinishRequest
  <2>3. Rest'
    BY <1>1, <1>10, <2>1
       DEF FinishRequest, Rest, RequestStaysReady, RequestShape, ResponseAlwaysFits,
           Working, CompleteMessageReady, QueueOK
  <2>. QED  BY <2>2, <2>3, IInvUnfolded
<1>11. CASE SendResponse
  <2>1. response \in Seq(Octet) /\ Len(response) <= MaxPayload
    BY <1>1, <1>11 DEF SendResponse, Rest, RequestShape
  <2>2. /\ MessageToPackets(buffer.cid, "CBOR", response) \in Seq(Packet)
        /\ Len(MessageToPackets(buffer.cid, "CBOR", response)) <= QueueSize
    BY <1>2, <2>1, MessageToPacketsType DEF Commands
  <2>3. <<>> \in Seq(Octet)
    OBVIOUS
  <2>. QED  BY <1>11, <2>2, <2>3, RespondIInv DEF SendResponse, WaitOver
<1>. QED  BY <1>3, <1>4, <1>5, <1>6, <1>7, <1>8, <1>9, <1>10, <1>11 DEF Task

\* Every step keeps IInv.
LEMMA NextIInv == IInv /\ [Next]_vars => IInv'
<1>. SUFFICES ASSUME IInv, [Next]_vars PROVE IInv'
  OBVIOUS
<1>1. Sound(buffer) /\ Rest
  BY IInvFolded
<1>2. ASSUME NEW p \in HostPackets, Receive(p) PROVE IInv'
  BY <1>2, ReceiveIInv
<1>3. CASE SendOne
  <2>1. QueueOK(queue')
    <3>1. queue \in Seq(Packet) /\ queue # <<>> /\ queue' = Tail(queue)
      BY <1>1, <1>3 DEF SendOne, Rest, QueueOK
    <3>2. Tail(queue) \in Seq(Packet) /\ Len(Tail(queue)) = Len(queue) - 1
      BY <3>1
    <3>3. Len(queue) <= QueueSize /\ Len(queue) \in Nat /\ QueueSize \in Nat
      BY <1>1, <3>1, SizeAssumption DEF Rest, QueueOK, QueueSize
    <3>. QED  BY <3>1, <3>2, <3>3 DEF QueueOK
  <2>2. Sound(buffer')
    BY <1>1, <1>3 DEF SendOne
  <2>3. Rest'
    BY <1>1, <1>3, <2>1 DEF SendOne, Rest, RequestStaysReady, RequestShape,
       ResponseAlwaysFits, Working, CompleteMessageReady
  <2>. QED  BY <2>2, <2>3, IInvUnfolded
<1>4. CASE Task
  BY <1>4, TaskIInv
<1>5. CASE Keepalive
  <2>1. buffer.cid \in 0..Broadcast
    BY <1>1, ReplyTypes DEF Sound, Buffer
  <2>2. \A v \in {1, 2} : InitPacket(buffer.cid, "KEEPALIVE", 1, <<Device(v)>>) \in Packet
    BY <2>1, ReplyTypes
  <2>3. QueueOK(queue')
    BY <1>1, <1>5, <2>2, ReplyType DEF Keepalive, Rest
  <2>4. Sound(buffer')
    BY <1>1, <1>5 DEF Keepalive
  <2>5. Rest'
    BY <1>1, <1>5, <2>3 DEF Keepalive, Rest, RequestStaysReady, RequestShape,
       ResponseAlwaysFits, Working, CompleteMessageReady
  <2>. QED  BY <2>4, <2>5, IInvUnfolded
<1>6. CASE Tick
  <2>1. clock' \in 0..(ClockMod - 1)
    BY <1>1, <1>6, SizeAssumption DEF Tick, Rest
  <2>2. Sound(buffer')
    BY <1>1, <1>6 DEF Tick
  <2>3. Rest'
    BY <1>1, <1>6, <2>1 DEF Tick, Rest, RequestStaysReady, RequestShape,
       ResponseAlwaysFits, Working, CompleteMessageReady, QueueOK
  <2>. QED  BY <2>2, <2>3, IInvUnfolded
<1>7. CASE UNCHANGED vars
  <2>1. Sound(buffer')
    BY <1>1, <1>7 DEF vars
  <2>2. Rest'
    BY <1>1, <1>7 DEF vars, Rest, RequestStaysReady, RequestShape,
       ResponseAlwaysFits, Working, CompleteMessageReady, QueueOK
  <2>. QED  BY <2>1, <2>2, IInvUnfolded
<1>. QED  BY <1>2, <1>3, <1>4, <1>5, <1>6, <1>7 DEF Next

-----------------------------------------------------------------------------
(* The theorems. *)

\* The inductive invariant holds in every state of every execution.
THEOREM Invariance == Spec => []IInv
BY InitIInv, NextIInv, PTL DEF Spec

\* Every variable keeps its type; in particular the send queue never exceeds
\* its capacity and the assembled message never exceeds its buffer.
THEOREM TypeCorrect == Spec => []TypeOK
<1>1. IInv => TypeOK
  BY DEF IInv
<1>. QED  BY <1>1, Invariance, PTL

\* The message assembled by ctaphid_process_packet is, octet for octet, what
\* the owner of the buffer sent, whatever the other channels send meanwhile.
THEOREM MessageIntegrityHolds == Spec => []MessageIntegrity
<1>1. IInv => MessageIntegrity
  BY DEF IInv
<1>. QED  BY <1>1, Invariance, PTL

\* The message app_ctaphid_task works on stays complete in the buffer.
THEOREM RequestStaysReadyHolds == Spec => []RequestStaysReady
<1>1. IInv => RequestStaysReady
  BY DEF IInv
<1>. QED  BY <1>1, Invariance, PTL

\* CTAPHID_CANCEL ends only a wait of the request it was sent for.
THEOREM CancelScopedHolds == Spec => []CancelScoped
<1>1. IInv => CancelScoped
  BY DEF IInv
<1>. QED  BY <1>1, Invariance, PTL

\* The Error_Handler of app_hid_report_send_queue_add is never reached.
THEOREM ResponseAlwaysFitsHolds == Spec => []ResponseAlwaysFits
<1>1. IInv => ResponseAlwaysFits
  BY DEF IInv
<1>. QED  BY <1>1, Invariance, PTL

\* No packet of any channel changes the message a request works on.
THEOREM RequestStaysTheSameHolds == Spec => RequestStaysTheSame
<1> DEFINE Same == /\ buffer'.cid = buffer.cid
                   /\ buffer'.cmd = buffer.cmd
                   /\ buffer'.payload = buffer.payload
<1>1. ASSUME IInv, [Next]_vars, Working, Working'
      PROVE  Same
  <2>1. ASSUME NEW p \in HostPackets, Receive(p)
        PROVE  Same
    BY <1>1, <2>1, ReceiveIInv DEF IInv, RequestStaysReady, CompleteMessageReady, Kept
  <2>2. ASSUME NEW packets, Respond(packets)
        PROVE  FALSE
    BY <1>1, <2>2 DEF Respond, Working
  <2>3. CASE SendOne \/ Keepalive \/ Tick \/ UNCHANGED vars
    BY <2>3 DEF SendOne, Keepalive, Tick, vars
  <2>4. CASE TaskStart \/ WaitForUserPresence \/ UserPresenceResult \/ FinishRequest
    BY <2>4 DEF TaskStart, WaitForUserPresence, UserPresenceResult, FinishRequest
  <2>5. CASE HandlePing \/ HandleWink \/ HandleUnsupported \/ HandleCbor \/ SendResponse
    BY <2>2, <2>5 DEF HandlePing, HandleWink, HandleUnsupported, HandleCbor, SendResponse, Answer
  <2>. QED  BY <1>1, <2>1, <2>3, <2>4, <2>5 DEF Next, Task
<1>2. IInv /\ [Next]_vars => [Working /\ Working' => Same]_vars
  BY <1>1
<1>. QED  BY <1>2, Invariance, PTL DEF Spec, RequestStaysTheSame

-----------------------------------------------------------------------------
(* What a packet is answered, and what it does to an incomplete message. *)

\* The packet that a step appends is the one it replies with.
LEMMA RepliedIs ==
    ASSUME QueueOK(queue), NEW p \in Packet, NEW q, Reply(p), Replied(q)
    PROVE  q = p
<1>1. queue \in Seq(Packet) /\ Len(queue) \in Nat
  BY DEF QueueOK
<1>2. queue' = Append(queue, p)
  BY <1>1 DEF Reply, Replied
<1>. QED  BY <1>1, <1>2 DEF Replied

\* The codes of error packets are kept.
LEMMA ErrorPackets ==
    ASSUME NEW c, NEW d, NEW i, NEW j, ErrorPacket(c, i) = ErrorPacket(d, j)
    PROVE  i = j
<1>1. <<Device(i)>> = <<Device(j)>>
  BY DEF ErrorPacket, InitPacket
<1>. QED  BY <1>1 DEF Device

\* ctaphid_process_packet answers busy only if the buffer is occupied.
LEMMA BusyMeansOccupied ==
    ASSUME QueueOK(queue), highest \in 0..MaxCid, NEW p \in HostPackets, NEW b,
           ProcessPacket(p, b),
           NEW c \in Cids, Replied(ErrorPacket(c, ERR_CHANNEL_BUSY))
    PROVE  ~IsIdle(b)
<1>1. p.cid \in 0..Broadcast
  BY HostPacketType
<1>2. ASSUME NEW code \in Nat, Fail(p, b, code)
      PROVE  code = ERR_CHANNEL_BUSY
  <2>1. ErrorPacket(p.cid, code) \in Packet
    BY <1>1, ReplyTypes
  <2>2. ErrorPacket(c, ERR_CHANNEL_BUSY) = ErrorPacket(p.cid, code)
    BY <1>2, <2>1, RepliedIs DEF Fail
  <2>. QED  BY <2>2, ErrorPackets
<1>3. ASSUME NEW r \in 0..Broadcast, NEW n \in Nat, Reply(InitResponse(r, n))
      PROVE  FALSE
  <2>1. InitResponse(r, n) \in Packet
    BY <1>3, ReplyTypes
  <2>2. ErrorPacket(c, ERR_CHANNEL_BUSY) = InitResponse(r, n)
    BY <1>3, <2>1, RepliedIs
  <2>. QED  BY <2>2 DEF ErrorPacket, InitResponse, InitPacket
<1>4. queue' # queue
  BY DEF Replied, QueueOK
<1>5. ASSUME NEW d, Ignore(d) PROVE FALSE
  BY <1>4, <1>5 DEF Ignore
<1>6. ~InvalidChannel(p, b) /\ ~Cancel(p, b) /\ ~InvalidInit(p, b)
  BY <1>2, <1>5 DEF InvalidChannel, Cancel, InvalidInit, ERR_CHANNEL_BUSY,
     ERR_INVALID_CHANNEL, ERR_INVALID_LENGTH
<1>7. ~AllocateChannel(p, b)
  <2>1. Broadcast \in 0..Broadcast /\ highest + 1 \in Nat
    BY ReplyTypes
  <2>. QED  BY <1>2, <1>3, <2>1 DEF AllocateChannel, ERR_CHANNEL_BUSY, ERR_INVALID_CHANNEL
<1>8. ~Resynchronize(p, b)
  BY <1>1, <1>3 DEF Resynchronize
<1>9. ~Continue(p, b)
  BY <1>2, <1>4, <1>5 DEF Continue, ERR_CHANNEL_BUSY, ERR_INVALID_SEQ
<1>10. StartMessage(p, b)
  BY <1>6, <1>7, <1>8, <1>9 DEF ProcessPacket
<1>. QED  BY <1>2, <1>5, <1>10 DEF StartMessage, ERR_CHANNEL_BUSY, ERR_INVALID_LENGTH

\* Only a resynchronization empties the buffer.
LEMMA OnlyResynchronizeDiscards ==
    ASSUME TypeOK, NEW p \in HostPackets, NEW b, Sound(b), IsIncomplete(b),
           ProcessPacket(p, b), IsIdle(buffer')
    PROVE  p.cid = b.cid /\ Resynchronize(p, b)
<1>1. ~IsIdle(b) /\ b \in Buffer
  BY DEF Sound, IsIdle, IsIncomplete, IdleBuffer
<1>2. ASSUME NEW code, Fail(p, b, code) PROVE FALSE
  BY <1>1, <1>2 DEF Fail
<1>3. ~Ignore(b)
  BY <1>1 DEF Ignore
<1>4. ~Ignore([b EXCEPT !.cancel = TRUE])
  BY <1>1 DEF Ignore, IsIdle, Buffer
<1>5. ~InvalidChannel(p, b) /\ ~Cancel(p, b) /\ ~InvalidInit(p, b)
  BY <1>2, <1>3, <1>4 DEF InvalidChannel, Cancel, InvalidInit
<1>6. ~AllocateChannel(p, b)
  BY <1>1, <1>2 DEF AllocateChannel
<1>7. ~StartMessage(p, b)
  BY <1>1, <1>2 DEF StartMessage
<1>8. ~Continue(p, b)
  <2>1. ASSUME NEW n PROVE ~Ignore(CopyPayload([b EXCEPT !.next_seq = n], p.data))
    BY <1>1 DEF Ignore, IsIdle, CopyPayload, Buffer
  <2>. QED  BY <1>1, <1>2, <1>3, <2>1 DEF Continue
<1>9. Resynchronize(p, b)
  BY <1>5, <1>6, <1>7, <1>8 DEF ProcessPacket
<1>. QED  BY <1>1, <1>9 DEF Resynchronize

\* After the wait for an empty queue, a response is all there is in it.
LEMMA ResponseQueued ==
    ASSUME WaitOver, NEW packets \in Seq(Packet), Respond(packets), pc' # "error_handler"
    PROVE  queue' = packets
BY DEF WaitOver, Respond

\* The packets of a message are no error packets.
LEMMA MessagePacketsCommands ==
    ASSUME NEW cid \in 0..Broadcast, NEW cmd \in Commands, NEW payload \in Seq(Octet),
           Len(payload) <= MaxPayload,
           NEW i \in 1..Len(MessageToPackets(cid, cmd, payload))
    PROVE  MessageToPackets(cid, cmd, payload)[i].cmd \in {cmd, "CONT"}
<1> DEFINE packets == MessageToPackets(cid, cmd, payload)
           conts == NumConts(Len(payload))
<1>1. conts \in Nat
  <2>1. Len(payload) \in 0..MaxPayload
    BY MaxPayloadType
  <2>. QED  BY <2>1, NumContsBound
<1>2. packets \in Seq(Packet) /\ DOMAIN packets = 1..(1 + conts)
  BY MessageToPacketsType DEF MessageToPackets
<1>3. DOMAIN packets = 1..Len(packets)
  <2>. HIDE DEF packets
  <2>. QED  BY <1>2
<1>. QED  BY <1>2, <1>3 DEF MessageToPackets, InitPacket, ContPacket

\* The main loop never answers that a channel is busy.
LEMMA TaskNeverBusy ==
    ASSUME IInv, Task, NEW c \in Cids, Replied(ErrorPacket(c, ERR_CHANNEL_BUSY))
    PROVE  FALSE
<1>1. TypeOK /\ Sound(buffer) /\ Rest
  BY IInvFolded DEF IInv
<1>2. pc' # "error_handler"
  BY TaskIInv DEF IInv, ResponseAlwaysFits
<1>3. queue' # queue
  BY <1>1 DEF Replied, TypeOK
<1>4. buffer.cid \in 0..Broadcast /\ buffer.payload \in Seq(Octet)
      /\ Len(buffer.payload) <= MaxPayload
  BY <1>1, MaxPayloadType, ReplyTypes DEF Sound, Buffer
<1>5. ASSUME NEW p \in Packet, WaitOver, Respond(<<p>>)
      PROVE  p = ErrorPacket(c, ERR_CHANNEL_BUSY)
  <2>1. queue' = <<p>>
    BY <1>2, <1>5, ResponseQueued, OnePacketAnswer
  <2>. QED  BY <2>1 DEF Replied
<1>6. ASSUME NEW code \in Nat, WaitOver, Respond(<<ErrorPacket(buffer.cid, code)>>)
      PROVE  code = ERR_CHANNEL_BUSY
  <2>1. ErrorPacket(buffer.cid, code) \in Packet
    BY <1>4, ReplyTypes
  <2>. QED  BY <1>5, <1>6, <2>1, ErrorPackets
<1>7. ASSUME NEW cmd \in {"PING", "CBOR"}, NEW payload \in Seq(Octet), WaitOver,
             Len(payload) <= MaxPayload, Respond(MessageToPackets(buffer.cid, cmd, payload))
      PROVE  FALSE
  <2> DEFINE packets == MessageToPackets(buffer.cid, cmd, payload)
  <2>1. cmd \in Commands
    BY DEF Commands
  <2>2. packets \in Seq(Packet)
    BY <1>4, <1>7, <2>1, MessageToPacketsType
  <2>3. queue' = packets
    BY <1>2, <1>7, <2>2, ResponseQueued
  <2>4. \A i \in 1..Len(packets) : packets[i].cmd \in {cmd, "CONT"}
    BY <1>4, <1>7, <2>1, MessagePacketsCommands
  <2>. HIDE DEF packets
  <2>5. Len(queue') \in 1..Len(packets)
    BY <1>1, <2>2, <2>3 DEF Replied, TypeOK
  <2>6. packets[Len(queue')] = ErrorPacket(c, ERR_CHANNEL_BUSY)
    BY <2>3 DEF Replied
  <2>. QED  BY <2>4, <2>5, <2>6 DEF ErrorPacket, InitPacket
<1>8. ~HandlePing
  BY <1>4, <1>7 DEF HandlePing, Answer
<1>9. ~HandleWink
  <2>1. InitPacket(buffer.cid, "WINK", 0, <<>>) \in Packet
    BY <1>4, ReplyTypes
  <2>2. InitPacket(buffer.cid, "WINK", 0, <<>>) # ErrorPacket(c, ERR_CHANNEL_BUSY)
    BY DEF InitPacket, ErrorPacket
  <2>3. ~(WaitOver /\ Respond(<<InitPacket(buffer.cid, "WINK", 0, <<>>)>>))
    BY <1>5, <2>1, <2>2
  <2>. QED  BY <1>6, <2>3 DEF HandleWink, Answer, ERR_INVALID_LENGTH, ERR_CHANNEL_BUSY
<1>10. ~HandleUnsupported /\ ~HandleCbor
  BY <1>3, <1>6 DEF HandleUnsupported, HandleCbor, Answer, ERR_INVALID_COMMAND,
     ERR_INVALID_LENGTH, ERR_CHANNEL_BUSY
<1>11. ~SendResponse
  <2>1. SendResponse => response \in Seq(Octet) /\ Len(response) <= MaxPayload
    BY <1>1 DEF SendResponse, Rest, RequestShape
  <2>. QED  BY <1>7, <2>1 DEF SendResponse
<1>12. ~TaskStart /\ ~WaitForUserPresence /\ ~UserPresenceResult /\ ~FinishRequest
  BY <1>3 DEF TaskStart, WaitForUserPresence, UserPresenceResult, FinishRequest
<1>. QED  BY <1>8, <1>9, <1>10, <1>11, <1>12 DEF Task

\* A channel is refused as busy only while another message is in progress.
THEOREM BusyOnlyWhileInProgressHolds == Spec => BusyOnlyWhileInProgress
<1> DEFINE Busy == \E c \in Cids : Replied(ErrorPacket(c, ERR_CHANNEL_BUSY))
           InProgress == ~IsIdle(buffer) /\ ~IncompleteMessageTimeout(buffer)
<1>1. ASSUME IInv, Next, NEW c \in Cids, Replied(ErrorPacket(c, ERR_CHANNEL_BUSY))
      PROVE  InProgress
  <2>1. QueueOK(queue) /\ highest \in 0..MaxCid /\ buffer.cid \in 0..Broadcast
    BY <1>1, ReplyTypes DEF IInv, TypeOK, QueueOK, Buffer
  <2>2. ASSUME NEW p \in HostPackets, Receive(p)
        PROVE  InProgress
    <3> DEFINE b == IF IncompleteMessageTimeout(buffer) THEN IdleBuffer ELSE buffer
    <3>1. ProcessPacket(p, b)
      BY <2>2 DEF Receive
    <3>2. ~IsIdle(b)
      BY <1>1, <2>1, <3>1, BusyMeansOccupied
    <3>. QED  BY <3>2 DEF IsIdle, IdleBuffer
  <2>3. ~SendOne
    <3>1. SendOne => queue \in Seq(Packet) /\ queue # <<>> /\ queue' = Tail(queue)
      BY <2>1 DEF SendOne, QueueOK
    <3>2. SendOne => Len(queue') = Len(queue) - 1
      BY <3>1
    <3>. QED  BY <1>1, <2>1, <3>2 DEF Replied, QueueOK
  <2>4. ~Task
    BY <1>1, TaskNeverBusy
  <2>5. ~Keepalive
    <3>1. ASSUME NEW v \in {1, 2}, Reply(InitPacket(buffer.cid, "KEEPALIVE", 1, <<Device(v)>>))
          PROVE  FALSE
      <4>1. InitPacket(buffer.cid, "KEEPALIVE", 1, <<Device(v)>>) \in Packet
        BY <2>1, ReplyTypes
      <4>2. ErrorPacket(c, ERR_CHANNEL_BUSY) = InitPacket(buffer.cid, "KEEPALIVE", 1, <<Device(v)>>)
        BY <1>1, <2>1, <3>1, <4>1, RepliedIs
      <4>. QED  BY <4>2 DEF ErrorPacket, InitPacket
    <3>. QED  BY <3>1 DEF Keepalive
  <2>6. ~Tick
    BY <1>1, <2>1 DEF Tick, Replied, QueueOK
  <2>. QED  BY <1>1, <2>2, <2>3, <2>4, <2>5, <2>6 DEF Next
<1>2. IInv /\ [Next]_vars => [Busy => InProgress]_vars
  BY <1>1
<1>. QED  BY <1>2, Invariance, PTL DEF Spec, BusyOnlyWhileInProgress

\* An incomplete message is given up only by its owner or by the timeout.
THEOREM OnlyOwnerOrTimeoutDiscardsHolds == Spec => OnlyOwnerOrTimeoutDiscards
<1> DEFINE Discarded == /\ IsIncomplete(buffer) /\ ~IncompleteMessageTimeout(buffer)
                        /\ IsIdle(buffer')
           ByOwner == Len(queue) = QueueSize \/ Replied(InitResponse(buffer.cid, highest))
<1>1. ASSUME IInv, [Next]_vars, Discarded
      PROVE  ByOwner
  <2>1. Sound(buffer) /\ Rest /\ TypeOK
    BY <1>1, IInvFolded DEF IInv
  <2>2. buffer' # buffer
    BY <1>1, <2>1 DEF Sound, IsIdle, IsIncomplete, IdleBuffer
  <2>3. ~Working
    BY <1>1, <2>1, MaxPayloadType DEF Rest, RequestStaysReady, CompleteMessageReady,
       IsComplete, IsIncomplete, Sound, Buffer
  <2>4. ~Task
    BY <2>2, <2>3 DEF Task, TaskStart, HandlePing, HandleWink, HandleUnsupported, HandleCbor,
       WaitForUserPresence, UserPresenceResult, FinishRequest, SendResponse, Working
  <2>5. ~SendOne /\ ~Keepalive /\ ~Tick /\ ~UNCHANGED vars
    BY <2>2 DEF SendOne, Keepalive, Tick, vars
  <2>6. PICK p \in HostPackets : Receive(p)
    BY <1>1, <2>4, <2>5 DEF Next
  <2>7. ProcessPacket(p, buffer)
    BY <1>1, <2>6 DEF Receive
  <2>8. p.cid = buffer.cid /\ Resynchronize(p, buffer)
    BY <1>1, <2>1, <2>7, OnlyResynchronizeDiscards
  <2>9. Reply(InitResponse(buffer.cid, highest))
    BY <2>8 DEF Resynchronize
  <2>. QED  BY <2>1, <2>9, SizeAssumption DEF Reply, Replied, TypeOK, QueueSize
<1>2. IInv /\ [Next]_vars => [Discarded => ByOwner]_vars
  BY <1>1
<1>. QED  BY <1>2, Invariance, PTL DEF Spec, OnlyOwnerOrTimeoutDiscards

-----------------------------------------------------------------------------
(* The responses in the queue. *)

\* ResponsesWhole and PingEchoed of any queue.
Whole(q) ==
    \A i \in 1..Len(q) :
        /\ q[i].cmd \in {"PING", "CBOR"} =>
              /\ i + NumConts(q[i].n) <= Len(q)
              /\ \A j \in 1..NumConts(q[i].n) :
                    q[i + j].cmd = "CONT" /\ q[i + j].cid = q[i].cid /\ q[i + j].n = j - 1
        /\ i > 1 /\ q[i].cmd = "CONT" =>
              \/ q[i].n = 0 /\ q[i - 1].cmd \in {"PING", "CBOR"}
              \/ q[i - 1].cmd = "CONT" /\ q[i].n = q[i - 1].n + 1

ContOf(k) == (k - InitSize - 1) \div ContSize
PlaceOf(k) == 1 + ((k - InitSize - 1) % ContSize)

Echoed(q) ==
    \A i \in 1..Len(q) : q[i].cmd = "PING" =>
        \A k \in 1..q[i].n :
            (IF k <= InitSize THEN q[i].data[k] ELSE q[i + 1 + ContOf(k)].data[PlaceOf(k)])
            = <<q[i].cid, k>>

\* The k-th octet of a message is in one of its continuation packets, at one place.
LEMMA OctetPlace ==
    ASSUME NEW n \in Nat
    PROVE  /\ NumConts(n) \in Nat
           /\ \A k \in 1..n : k > InitSize =>
                 /\ ContOf(k) \in Nat /\ ContOf(k) + 1 <= NumConts(n)
                 /\ PlaceOf(k) \in 1..ContSize
                 /\ InitSize + ContOf(k) * ContSize + PlaceOf(k) = k
<1>1. InitSize \in Nat /\ ContSize \in Nat /\ ContSize > 0
  BY SizeAssumption
<1>2. NumConts(n) \in Nat
  <2>1. CASE n <= InitSize
    BY <2>1 DEF NumConts
  <2>2. CASE n > InitSize
    <3> DEFINE a == n - InitSize + ContSize - 1
    <3>1. a \in Nat
      BY <1>1, <2>2
    <3>. HIDE DEF a
    <3>2. a \div ContSize \in Nat
      BY <1>1, <3>1
    <3>. QED  BY <1>1, <2>2, <3>2 DEF NumConts, a
  <2>. QED  BY <1>1, <2>1, <2>2
<1>3. ASSUME NEW k \in 1..n, k > InitSize
      PROVE  /\ ContOf(k) \in Nat /\ ContOf(k) + 1 <= NumConts(n)
             /\ PlaceOf(k) \in 1..ContSize
             /\ InitSize + ContOf(k) * ContSize + PlaceOf(k) = k
  <2> DEFINE a == k - InitSize - 1
             d == a \div ContSize
             r == a % ContSize
             b == n - InitSize + ContSize - 1
             e == b \div ContSize
  <2>1. a \in Nat /\ b \in Nat /\ a + ContSize <= b
    BY <1>1, <1>3
  <2>2. NumConts(n) = e /\ ContOf(k) = d /\ PlaceOf(k) = 1 + r
    BY <1>1, <1>3 DEF NumConts, ContOf, PlaceOf
  <2>3. k = InitSize + a + 1
    BY <1>1
  <2>. HIDE DEF a, b
  <2>4. d \in Nat /\ r \in 0..(ContSize - 1) /\ a = d * ContSize + r
    BY <1>1, <2>1
  <2>5. e \in Nat /\ b < (e + 1) * ContSize
    BY <1>1, <2>1
  <2>. HIDE DEF d, e, r
  <2>6. (d + 1) * ContSize <= b
    BY <1>1, <2>1, <2>4
  <2>7. d + 1 < e + 1
    BY <1>1, <2>1, <2>4, <2>5, <2>6
  <2>. QED  BY <1>1, <2>2, <2>3, <2>4, <2>5, <2>7
<1>. QED  BY <1>2, <1>3

\* Sending a packet shortens the queue in front.
LEMMA TailWhole ==
    ASSUME NEW q \in Seq(Packet), q # <<>>, Whole(q), Echoed(q)
    PROVE  Whole(Tail(q)) /\ Echoed(Tail(q))
<1> DEFINE t == Tail(q)
<1>1. t \in Seq(Packet) /\ Len(q) = Len(t) + 1 /\ \A i \in 1..Len(t) : t[i] = q[i + 1]
  OBVIOUS
<1>. HIDE DEF t
<1>2. ASSUME NEW i \in 1..Len(t)
      PROVE  i + 1 \in 1..Len(q) /\ t[i] = q[i + 1] /\ t[i] \in Packet /\ t[i].n \in Nat
  <2>1. i + 1 \in 1..Len(q) /\ t[i] = q[i + 1] /\ t[i] \in Packet
    BY <1>1
  <2>. QED  BY <2>1 DEF Packet
<1>3. ASSUME NEW i \in 1..Len(t), t[i].cmd \in {"PING", "CBOR"}
      PROVE  /\ i + NumConts(t[i].n) <= Len(t)
             /\ \A j \in 1..NumConts(t[i].n) : t[i + j] = q[i + 1 + j]
             /\ \A j \in 1..NumConts(t[i].n) :
                   t[i + j].cmd = "CONT" /\ t[i + j].cid = t[i].cid /\ t[i + j].n = j - 1
  <2>1. NumConts(t[i].n) \in Nat
    BY <1>2, OctetPlace
  <2>2. i + NumConts(t[i].n) <= Len(t)
    <3>1. i + 1 \in 1..Len(q) /\ q[i + 1] = t[i]
      BY <1>2
    <3>2. (i + 1) + NumConts(t[i].n) <= Len(q)
      BY <1>3, <3>1 DEF Whole
    <3>3. Len(q) = Len(t) + 1 /\ Len(t) \in Nat /\ i \in Nat
      BY <1>1
    <3>. QED  BY <2>1, <3>2, <3>3
  <2>3. ASSUME NEW j \in 1..NumConts(t[i].n)
        PROVE  t[i + j] = q[(i + 1) + j]
    <3>1. i + j \in 1..Len(t) /\ (i + j) + 1 = (i + 1) + j
      BY <1>1, <2>1, <2>2
    <3>. QED  BY <1>1, <3>1
  <2>4. t[i] = q[i + 1] /\ i + 1 \in 1..Len(q)
    BY <1>2
  <2>5. \A j \in 1..NumConts(q[i + 1].n) :
           /\ q[(i + 1) + j].cmd = "CONT" /\ q[(i + 1) + j].cid = q[i + 1].cid
           /\ q[(i + 1) + j].n = j - 1
    BY <1>3, <2>4 DEF Whole
  <2>. QED  BY <2>2, <2>3, <2>4, <2>5
<1>4. ASSUME NEW i \in 1..Len(t), i > 1, t[i].cmd = "CONT"
      PROVE  \/ t[i].n = 0 /\ t[i - 1].cmd \in {"PING", "CBOR"}
             \/ t[i - 1].cmd = "CONT" /\ t[i].n = t[i - 1].n + 1
  <2>1. i - 1 \in 1..Len(t) /\ (i + 1) - 1 = (i - 1) + 1 /\ i + 1 > 1
    BY <1>1, <1>4
  <2>2. t[i - 1] = q[(i + 1) - 1] /\ t[i] = q[i + 1] /\ i + 1 \in 1..Len(q)
    BY <1>1, <1>2, <2>1
  <2>. QED  BY <1>4, <2>1, <2>2 DEF Whole
<1>5. ASSUME NEW i \in 1..Len(t), t[i].cmd = "PING", NEW k \in 1..t[i].n
      PROVE  (IF k <= InitSize THEN t[i].data[k] ELSE t[i + 1 + ContOf(k)].data[PlaceOf(k)])
             = <<t[i].cid, k>>
  <2>1. CASE k <= InitSize
    BY <1>2, <1>5, <2>1 DEF Echoed
  <2>2. CASE ~(k <= InitSize)
    <3>0. t[i].n \in Nat /\ k \in 1..t[i].n /\ k > InitSize
      <4>1. t[i].n \in Nat
        BY <1>2, <1>5
      <4>2. k \in Nat /\ InitSize \in Nat
        BY <1>5, <4>1, SizeAssumption
      <4>. QED  BY <1>5, <2>2, <4>1, <4>2
    <3>1. ContOf(k) \in Nat /\ ContOf(k) + 1 \in 1..NumConts(t[i].n)
      <4>1. /\ NumConts(t[i].n) \in Nat /\ ContOf(k) \in Nat
            /\ ContOf(k) + 1 <= NumConts(t[i].n)
        BY <3>0, OctetPlace
      <4>. QED  BY <4>1
    <3>2. t[i + (ContOf(k) + 1)] = q[i + 1 + (ContOf(k) + 1)]
      BY <1>3, <1>5, <3>1
    <3>3. t[i + 1 + ContOf(k)] = q[(i + 1) + 1 + ContOf(k)]
      BY <1>1, <3>1, <3>2
    <3>. QED  BY <1>2, <1>5, <2>2, <3>3 DEF Echoed
  <2>. QED  BY <2>1, <2>2
<1>6. Whole(t)
  BY <1>3, <1>4 DEF Whole
<1>7. Echoed(t)
  BY <1>5 DEF Echoed
<1>. QED  BY <1>6, <1>7 DEF t

Single(p) == p \in Packet /\ p.cmd \notin {"PING", "CBOR", "CONT"}

\* A reply goes behind the responses.
LEMMA AppendWhole ==
    ASSUME NEW q \in Seq(Packet), Whole(q), Echoed(q), NEW p, Single(p)
    PROVE  Whole(Append(q, p)) /\ Echoed(Append(q, p))
<1> DEFINE a == Append(q, p)
<1>1. /\ Len(a) = Len(q) + 1 /\ Len(q) \in Nat /\ a[Len(q) + 1] = p
      /\ \A i \in 1..Len(q) : a[i] = q[i]
  BY DEF Single
<1>. HIDE DEF a
<1>2. \A i \in 1..Len(a) : i \in 1..Len(q) \/ (i = Len(q) + 1 /\ a[i] = p)
  BY <1>1
<1>3. ASSUME NEW i \in 1..Len(a), a[i].cmd \in {"PING", "CBOR"}
      PROVE  /\ i \in 1..Len(q) /\ a[i] = q[i] /\ a[i].n \in Nat
             /\ NumConts(a[i].n) \in Nat
             /\ i + NumConts(a[i].n) <= Len(q)
             /\ \A j \in 1..NumConts(a[i].n) : a[i + j] = q[i + j]
  <2>1. i \in 1..Len(q) /\ a[i] = q[i] /\ a[i].n \in Nat
    <3>1. i \in 1..Len(q) /\ a[i] = q[i]
      BY <1>1, <1>2, <1>3 DEF Single
    <3>2. q[i] \in Packet
      BY <3>1
    <3>. QED  BY <3>1, <3>2 DEF Packet
  <2>2. NumConts(a[i].n) \in Nat
    BY <2>1, OctetPlace
  <2>3. i + NumConts(a[i].n) <= Len(q)
    BY <1>3, <2>1 DEF Whole
  <2>4. \A j \in 1..NumConts(a[i].n) : i + j \in 1..Len(q)
    BY <1>1, <2>1, <2>2, <2>3
  <2>. QED  BY <1>1, <2>1, <2>2, <2>3, <2>4
<1>4. ASSUME NEW i \in 1..Len(a), a[i].cmd \in {"PING", "CBOR"}
      PROVE  /\ i + NumConts(a[i].n) <= Len(a)
             /\ \A j \in 1..NumConts(a[i].n) :
                   a[i + j].cmd = "CONT" /\ a[i + j].cid = a[i].cid /\ a[i + j].n = j - 1
  <2>1. /\ i \in 1..Len(q) /\ a[i] = q[i] /\ NumConts(a[i].n) \in Nat
        /\ i + NumConts(a[i].n) <= Len(q)
        /\ \A j \in 1..NumConts(a[i].n) : a[i + j] = q[i + j]
    BY <1>3, <1>4
  <2>2. i + NumConts(a[i].n) <= Len(a)
    BY <1>1, <2>1
  <2>3. \A j \in 1..NumConts(q[i].n) :
           q[i + j].cmd = "CONT" /\ q[i + j].cid = q[i].cid /\ q[i + j].n = j - 1
    BY <1>4, <2>1 DEF Whole
  <2>. QED  BY <2>1, <2>2, <2>3
<1>5. ASSUME NEW i \in 1..Len(a), i > 1, a[i].cmd = "CONT"
      PROVE  \/ a[i].n = 0 /\ a[i - 1].cmd \in {"PING", "CBOR"}
             \/ a[i - 1].cmd = "CONT" /\ a[i].n = a[i - 1].n + 1
  <2>1. i \in 1..Len(q) /\ i - 1 \in 1..Len(q)
    BY <1>1, <1>2, <1>5 DEF Single
  <2>2. a[i] = q[i] /\ a[i - 1] = q[i - 1]
    BY <1>1, <2>1
  <2>. QED  BY <1>5, <2>1, <2>2 DEF Whole
<1>6. ASSUME NEW i \in 1..Len(a), a[i].cmd = "PING", NEW k \in 1..a[i].n
      PROVE  (IF k <= InitSize THEN a[i].data[k] ELSE a[i + 1 + ContOf(k)].data[PlaceOf(k)])
             = <<a[i].cid, k>>
  <2>1. CASE k <= InitSize
    BY <1>3, <1>6, <2>1 DEF Echoed
  <2>2. CASE ~(k <= InitSize)
    <3>0. a[i].n \in Nat /\ k \in 1..a[i].n /\ k > InitSize
      <4>1. a[i].n \in Nat
        BY <1>3, <1>6
      <4>2. k \in Nat /\ InitSize \in Nat
        BY <1>6, <4>1, SizeAssumption
      <4>. QED  BY <1>6, <2>2, <4>1, <4>2
    <3>1. ContOf(k) \in Nat /\ ContOf(k) + 1 \in 1..NumConts(a[i].n)
      <4>1. /\ NumConts(a[i].n) \in Nat /\ ContOf(k) \in Nat
            /\ ContOf(k) + 1 <= NumConts(a[i].n)
        BY <3>0, OctetPlace
      <4>. QED  BY <4>1
    <3>2. a[i + (ContOf(k) + 1)] = q[i + (ContOf(k) + 1)]
      BY <1>3, <1>6, <3>1
    <3>3. a[i + 1 + ContOf(k)] = q[i + 1 + ContOf(k)]
      BY <3>1, <3>2
    <3>. QED  BY <1>3, <1>6, <2>2, <3>3 DEF Echoed
  <2>. QED  BY <2>1, <2>2
<1>7. Whole(a)
  BY <1>4, <1>5 DEF Whole
<1>8. Echoed(a)
  BY <1>6 DEF Echoed
<1>. QED  BY <1>7, <1>8 DEF a

\* A response: one head, and its continuation packets behind it.
LEMMA MessageWhole ==
    ASSUME NEW cid \in 0..Broadcast, NEW cmd \in {"PING", "CBOR"}, NEW payload \in Seq(Octet),
           Len(payload) <= MaxPayload,
           cmd = "PING" => \A k \in 1..Len(payload) : payload[k] = <<cid, k>>
    PROVE  Whole(MessageToPackets(cid, cmd, payload)) /\ Echoed(MessageToPackets(cid, cmd, payload))
<1> DEFINE m == MessageToPackets(cid, cmd, payload)
           conts == NumConts(Len(payload))
           From(i) == InitSize + (i - 2) * ContSize
<1>1. conts \in Nat /\ Len(payload) \in Nat /\ cmd \in Commands
  BY OctetPlace DEF Commands
<1>2. m \in Seq(Packet) /\ DOMAIN m = 1..(1 + conts)
  BY <1>1, MessageToPacketsType DEF MessageToPackets
<1>3. Len(m) = 1 + conts
  <2>. HIDE DEF m, conts
  <2>. QED  BY <1>1, <1>2
<1>4. /\ m[1].cmd = cmd /\ m[1].cid = cid /\ m[1].n = Len(payload)
      /\ m[1].data = Chunk(payload, 0, InitSize)
  BY <1>1 DEF MessageToPackets, InitPacket
<1>5. ASSUME NEW i \in 2..(1 + conts)
      PROVE  /\ m[i].cmd = "CONT" /\ m[i].cid = cid /\ m[i].n = i - 2
             /\ m[i].data = Chunk(payload, From(i), ContSize)
  <2>1. i \in 1..(1 + conts) /\ i # 1
    BY <1>1
  <2>. QED  BY <2>1 DEF MessageToPackets, ContPacket
<1>. HIDE DEF m, From
<1>6. Whole(m)
  <2>1. ASSUME NEW i \in 1..Len(m), m[i].cmd \in {"PING", "CBOR"}
        PROVE  i = 1
    <3>1. i # 1 => i \in 2..(1 + conts)
      BY <1>1, <1>3
    <3>. QED  BY <1>5, <2>1, <3>1
  <2>2. \A j \in 1..conts : m[1 + j].cmd = "CONT" /\ m[1 + j].cid = cid /\ m[1 + j].n = j - 1
    <3>1. ASSUME NEW j \in 1..conts
          PROVE  1 + j \in 2..(1 + conts) /\ (1 + j) - 2 = j - 1
      BY <1>1
    <3>. QED  BY <1>5, <3>1
  <2>3. ASSUME NEW i \in 1..Len(m), i > 1
        PROVE  \/ m[i].n = 0 /\ m[i - 1].cmd \in {"PING", "CBOR"}
               \/ m[i - 1].cmd = "CONT" /\ m[i].n = m[i - 1].n + 1
    <3>1. i \in 2..(1 + conts)
      BY <1>1, <1>3, <2>3
    <3>2. CASE i = 2
      BY <1>4, <1>5, <3>1, <3>2
    <3>3. CASE i # 2
      <4>1. i - 1 \in 2..(1 + conts) /\ i - 2 = ((i - 1) - 2) + 1
        BY <1>1, <3>1, <3>3
      <4>. QED  BY <1>5, <3>1, <4>1
    <3>. QED  BY <3>2, <3>3
  <2>4. ASSUME NEW i \in 1..Len(m), m[i].cmd \in {"PING", "CBOR"}
        PROVE  /\ i + NumConts(m[i].n) <= Len(m)
               /\ \A j \in 1..NumConts(m[i].n) :
                    m[i + j].cmd = "CONT" /\ m[i + j].cid = m[i].cid /\ m[i + j].n = j - 1
    <3>1. i = 1 /\ NumConts(m[i].n) = conts /\ m[i].cid = cid
      BY <1>4, <2>1, <2>4
    <3>. HIDE DEF conts
    <3>. QED  BY <1>1, <1>3, <2>2, <3>1
  <2>. QED  BY <2>3, <2>4 DEF Whole
<1>7. Echoed(m)
  <2>. SUFFICES ASSUME NEW i \in 1..Len(m), m[i].cmd = "PING", NEW k \in 1..m[i].n
                PROVE  (IF k <= InitSize THEN m[i].data[k]
                        ELSE m[i + 1 + ContOf(k)].data[PlaceOf(k)]) = <<m[i].cid, k>>
    BY DEF Echoed
  <2>1. i = 1 /\ cmd = "PING"
    <3>1. i # 1 => i \in 2..(1 + conts)
      BY <1>1, <1>3
    <3>. QED  BY <1>4, <1>5, <3>1
  <2>2. k \in 1..Len(payload) /\ m[i].cid = cid /\ payload[k] = <<cid, k>>
    BY <1>4, <2>1
  <2>3. CASE k <= InitSize
    <3>1. k \in 1..InitSize /\ 0 + k = k /\ k <= Len(payload)
      BY <1>1, <2>2, <2>3, SizeAssumption
    <3>2. Chunk(payload, 0, InitSize)[k] = payload[k]
      BY <3>1 DEF Chunk
    <3>. QED  BY <1>4, <2>1, <2>2, <2>3, <3>2
  <2>4. CASE ~(k <= InitSize)
    <3>1. k > InitSize
      BY <1>1, <2>2, <2>4, SizeAssumption
    <3>2. /\ ContOf(k) \in Nat /\ ContOf(k) + 1 <= conts
          /\ PlaceOf(k) \in 1..ContSize
          /\ InitSize + ContOf(k) * ContSize + PlaceOf(k) = k
      BY <1>1, <2>2, <3>1, OctetPlace
    <3>. HIDE DEF conts
    <3>3. 2 + ContOf(k) \in 2..(1 + conts) /\ (2 + ContOf(k)) - 2 = ContOf(k)
          /\ i + 1 + ContOf(k) = 2 + ContOf(k)
      BY <1>1, <2>1, <3>2
    <3>4. m[2 + ContOf(k)].data = Chunk(payload, InitSize + ContOf(k) * ContSize, ContSize)
      BY <1>5, <3>3 DEF From
    <3>5. Chunk(payload, InitSize + ContOf(k) * ContSize, ContSize)[PlaceOf(k)] = payload[k]
      BY <1>1, <2>2, <3>2 DEF Chunk
    <3>. QED  BY <2>2, <2>4, <3>3, <3>4, <3>5
  <2>. QED  BY <2>3, <2>4
<1>. QED  BY <1>6, <1>7 DEF m

\* A packet that is not part of a response, alone in the queue.
LEMMA SingleWhole ==
    ASSUME NEW p, Single(p)
    PROVE  Whole(<<p>>) /\ Echoed(<<p>>)
<1>1. <<>> \in Seq(Packet) /\ Whole(<<>>) /\ Echoed(<<>>) /\ Append(<<>>, p) = <<p>>
  BY DEF Whole, Echoed
<1>. QED  BY <1>1, AppendWhole

\* What a packet is answered with.
LEMMA PacketReplies ==
    ASSUME highest \in 0..MaxCid, NEW p \in HostPackets, NEW b, ProcessPacket(p, b)
    PROVE  queue' = queue \/ \E r : Single(r) /\ Reply(r)
<1>1. p.cid \in 0..Broadcast /\ highest + 1 \in Nat /\ highest \in Nat
  <2>1. p.cid \in 0..Broadcast
    BY HostPacketType
  <2>2. highest \in Nat /\ highest + 1 \in Nat
    BY SizeAssumption
  <2>. QED  BY <2>1, <2>2
<1>2. ASSUME NEW code \in Nat, Fail(p, b, code)
      PROVE  \E r : Single(r) /\ Reply(r)
  <2>1. Single(ErrorPacket(p.cid, code))
    BY <1>1, ReplyTypes DEF Single, ErrorPacket, InitPacket
  <2>. QED  BY <1>2, <2>1 DEF Fail
<1>3. ASSUME NEW c \in 0..Broadcast, NEW n \in Nat, Reply(InitResponse(c, n))
      PROVE  \E r : Single(r) /\ Reply(r)
  <2>1. Single(InitResponse(c, n))
    BY ReplyTypes DEF Single, InitResponse, InitPacket
  <2>. QED  BY <1>3, <2>1
<1>4. ASSUME NEW c, Ignore(c) PROVE queue' = queue
  BY <1>4 DEF Ignore
<1>5. ERR_INVALID_COMMAND \in Nat /\ ERR_INVALID_LENGTH \in Nat /\ ERR_INVALID_SEQ \in Nat
      /\ ERR_CHANNEL_BUSY \in Nat /\ ERR_INVALID_CHANNEL \in Nat
  BY DEF ERR_INVALID_COMMAND, ERR_INVALID_LENGTH, ERR_INVALID_SEQ, ERR_CHANNEL_BUSY,
     ERR_INVALID_CHANNEL
<1>6. CASE InvalidChannel(p, b) \/ Cancel(p, b) \/ InvalidInit(p, b)
  BY <1>2, <1>4, <1>5, <1>6 DEF InvalidChannel, Cancel, InvalidInit
<1>7. CASE AllocateChannel(p, b)
  <2>1. Broadcast \in 0..Broadcast /\ highest + 1 \in Nat
    BY <1>1, ReplyTypes
  <2>. QED  BY <1>2, <1>3, <1>5, <1>7, <2>1 DEF AllocateChannel
<1>8. CASE Resynchronize(p, b)
  BY <1>1, <1>3, <1>8 DEF Resynchronize
<1>9. CASE StartMessage(p, b)
  BY <1>2, <1>4, <1>5, <1>9 DEF StartMessage
<1>10. CASE Continue(p, b)
  BY <1>2, <1>4, <1>5, <1>10 DEF Continue
<1>. QED  BY <1>6, <1>7, <1>8, <1>9, <1>10 DEF ProcessPacket

\* The answers of the main loop are alone in the queue, and whole.
LEMMA TaskWhole ==
    ASSUME IInv, Task, Whole(queue), Echoed(queue)
    PROVE  Whole(queue') /\ Echoed(queue')
<1>1. TypeOK /\ Sound(buffer) /\ Rest
  BY IInvFolded DEF IInv
<1>2. pc' # "error_handler"
  BY TaskIInv DEF IInv, ResponseAlwaysFits
<1>3. buffer.cid \in 0..Broadcast /\ buffer.payload \in Seq(Octet)
      /\ Len(buffer.payload) <= MaxPayload
      /\ \A k \in 1..Len(buffer.payload) : buffer.payload[k] = <<buffer.cid, k>>
  <2>1. /\ buffer \in Buffer /\ buffer.payload \in Seq(Octet) /\ buffer.offset \in 0..MaxPayload
        /\ DOMAIN buffer.payload = 1..buffer.offset /\ buffer.cid \in 0..MaxCid
    BY <1>1 DEF Sound, Buffer
  <2>2. Len(buffer.payload) = buffer.offset
    BY <2>1, MaxPayloadType
  <2>. QED  BY <1>1, <2>1, <2>2, MaxPayloadType, ReplyTypes DEF Sound
<1>4. ASSUME NEW p, Single(p), WaitOver, Respond(<<p>>)
      PROVE  Whole(queue') /\ Echoed(queue')
  <2>1. queue' = <<p>>
    BY <1>2, <1>4, ResponseQueued, OnePacketAnswer DEF Single
  <2>. QED  BY <1>4, <2>1, SingleWhole
<1>5. ASSUME NEW code \in Nat, WaitOver, Respond(<<ErrorPacket(buffer.cid, code)>>)
      PROVE  Whole(queue') /\ Echoed(queue')
  <2>1. Single(ErrorPacket(buffer.cid, code))
    BY <1>3, ReplyTypes DEF Single, ErrorPacket, InitPacket
  <2>. QED  BY <1>4, <1>5, <2>1
<1>6. ASSUME NEW cmd \in {"PING", "CBOR"}, NEW payload \in Seq(Octet), WaitOver,
             Len(payload) <= MaxPayload, Respond(MessageToPackets(buffer.cid, cmd, payload)),
             cmd = "PING" => payload = buffer.payload
      PROVE  Whole(queue') /\ Echoed(queue')
  <2>1. MessageToPackets(buffer.cid, cmd, payload) \in Seq(Packet)
    <3>1. cmd \in Commands
      BY DEF Commands
    <3>. QED  BY <1>3, <1>6, <3>1, MessageToPacketsType
  <2>2. queue' = MessageToPackets(buffer.cid, cmd, payload)
    BY <1>2, <1>6, <2>1, ResponseQueued
  <2>. QED  BY <1>3, <1>6, <2>2, MessageWhole
<1>7. CASE HandlePing
  BY <1>3, <1>6, <1>7 DEF HandlePing, Answer
<1>8. CASE HandleWink
  <2>1. Single(InitPacket(buffer.cid, "WINK", 0, <<>>))
    BY <1>3, ReplyTypes DEF Single, InitPacket
  <2>. QED  BY <1>4, <1>5, <1>8, <2>1 DEF HandleWink, Answer, ERR_INVALID_LENGTH
<1>9. CASE HandleUnsupported \/ HandleCbor
  BY <1>5, <1>9 DEF HandleUnsupported, HandleCbor, Answer, ERR_INVALID_COMMAND, ERR_INVALID_LENGTH
<1>10. CASE SendResponse
  <2>1. response \in Seq(Octet) /\ Len(response) <= MaxPayload
    BY <1>1, <1>10 DEF SendResponse, Rest, RequestShape
  <2>. QED  BY <1>6, <1>10, <2>1 DEF SendResponse
<1>11. CASE TaskStart \/ WaitForUserPresence \/ UserPresenceResult \/ FinishRequest
  BY <1>11 DEF TaskStart, WaitForUserPresence, UserPresenceResult, FinishRequest
<1>. QED  BY <1>7, <1>8, <1>9, <1>10, <1>11 DEF Task

\* In every state the responses in the queue are whole, and those to a PING are its echo.
LEMMA QueueInvariant == Spec => [](IInv /\ Whole(queue) /\ Echoed(queue))
<1>1. Init => Whole(queue) /\ Echoed(queue)
  BY DEF Init, Whole, Echoed
<1>2. ASSUME IInv, Whole(queue), Echoed(queue), [Next]_vars
      PROVE  Whole(queue') /\ Echoed(queue')
  <2>1. queue \in Seq(Packet) /\ highest \in 0..MaxCid /\ buffer.cid \in 0..Broadcast
    BY <1>2, ReplyTypes DEF IInv, TypeOK, Buffer
  <2>2. ASSUME NEW r, Single(r), Reply(r)
        PROVE  Whole(queue') /\ Echoed(queue')
    BY <1>2, <2>1, <2>2, AppendWhole DEF Reply
  <2>3. ASSUME NEW p \in HostPackets, Receive(p)
        PROVE  Whole(queue') /\ Echoed(queue')
    BY <1>2, <2>1, <2>2, <2>3, PacketReplies DEF Receive
  <2>4. CASE SendOne
    BY <1>2, <2>1, <2>4, TailWhole DEF SendOne
  <2>5. CASE Keepalive
    <3>1. \A v \in {1, 2} : Single(InitPacket(buffer.cid, "KEEPALIVE", 1, <<Device(v)>>))
      BY <2>1, ReplyTypes DEF Single, InitPacket
    <3>. QED  BY <2>2, <2>5, <3>1 DEF Keepalive
  <2>6. CASE Tick \/ UNCHANGED vars
    BY <1>2, <2>6 DEF Tick, vars
  <2>. QED  BY <1>2, <2>3, <2>4, <2>5, <2>6, TaskWhole DEF Next
<1> DEFINE QueueInv == IInv /\ Whole(queue) /\ Echoed(queue)
<1>3. Init => QueueInv
  BY <1>1, InitIInv
<1>4. QueueInv /\ [Next]_vars => QueueInv'
  BY <1>2, NextIInv
<1>5. QueueInv <=> IInv /\ Whole(queue) /\ Echoed(queue)
  OBVIOUS
<1>. HIDE DEF QueueInv
<1>. QED  BY <1>3, <1>4, <1>5, PTL DEF Spec

\* The packets of a response follow one another, and none is missing.
THEOREM ResponsesWholeHolds == Spec => []ResponsesWhole
<1>1. Whole(queue) => ResponsesWhole
  BY DEF Whole, ResponsesWhole, HeadsResponse
<1>. QED  BY <1>1, QueueInvariant, PTL

\* A PING comes back octet for octet, whatever its length.
THEOREM PingEchoedHolds == Spec => []PingEchoed
<1>1. ASSUME Echoed(queue), NEW i \in 1..Len(queue), queue[i].cmd = "PING"
      PROVE  Reassembled(i) = [k \in 1..queue[i].n |-> <<queue[i].cid, k>>]
  BY <1>1 DEF Echoed, Reassembled, ContOf, PlaceOf
<1>2. Echoed(queue) => PingEchoed
  BY <1>1 DEF PingEchoed
<1>. QED  BY <1>2, QueueInvariant, PTL
=============================================================================
