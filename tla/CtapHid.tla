------------------------------ MODULE CtapHid ------------------------------
(***************************************************************************)
(* The USB transport of LionKey: the CTAPHID layer (core/ctaphid.c), the   *)
(* part of the application that feeds it packets and answers its results   *)
(* (targets/stm32h533/Src/app.c) and the queue of reports waiting for the  *)
(* IN endpoint (targets/stm32h533/Src/usb.c).                              *)
(*                                                                         *)
(* There is one thread.  It reaches the USB stack (app_hid_task) from the  *)
(* main loop and, nested, from the loops that wait for an empty queue and  *)
(* from the keepalive points and the user presence wait of a running CTAP  *)
(* request: packets of all channels are therefore handled while a request  *)
(* is in progress.  The variable pc says where the thread is.              *)
(*                                                                         *)
(* Data.  Every octet is a pair <<source, value>>.  The k-th octet of what *)
(* the host sends on channel c is <<c, k>>: an octet names the place it    *)
(* came from, so a lost, repeated, reordered or foreign octet is visible.  *)
(* Octets the device makes itself have the source 0.                       *)
(*                                                                         *)
(* An operator X_Y is the definition X with the plausible bug Y.  No       *)
(* definition uses it; a property that guards against the bug must fail    *)
(* when X_Y takes the place of X.                                          *)
(***************************************************************************)
EXTENDS Integers, Sequences

CONSTANTS
    MaxCid,             \* the last allocatable channel (0xFFFFFFFE)
    InitSize,           \* CTAPHID_PACKET_INIT_PAYLOAD_SIZE (57)
    ContSize,           \* CTAPHID_PACKET_CONT_PAYLOAD_SIZE (59)
    MaxConts,           \* continuation packets of a message (128)
    TransactionTimeout, \* CTAPHID_TRANSACTION_TIMEOUT (2000 ms)
    ClockMod,           \* the tick counter wraps (2^32)
    Asserts,            \* TRUE in builds that keep assert()
    HostCids,           \* bound: the channel IDs the hosts use
    HostCommands,       \* bound: the commands the hosts use
    HostLengths,        \* bound: the bcnt values the hosts use
    ResponseLengths     \* bound: the sizes of CTAP responses

Commands == {"PING", "MSG", "WINK", "CBOR", "INIT", "CANCEL"}

ASSUME SizeAssumption ==
    /\ MaxCid \in Nat \ {0}
    /\ InitSize \in Nat \ {0}
    /\ ContSize \in Nat \ {0}
    /\ MaxConts \in Nat
    /\ TransactionTimeout \in Nat
    /\ ClockMod \in Nat \ {0}
    /\ Asserts \in BOOLEAN

MaxPayload == InitSize + MaxConts * ContSize

ASSUME HostAssumption ==
    /\ HostCids \subseteq 0..(MaxCid + 1)
    /\ HostCommands \subseteq Commands
    /\ HostLengths \subseteq Nat
    /\ ResponseLengths \subseteq 1..MaxPayload

VARIABLES
    clock,      \* HAL_GetTick()
    highest,    \* app_ctaphid.highest_allocated_cid
    buffer,     \* app_ctaphid.buffer
    queue,      \* app_hid_report_send_queue
    pc,         \* where the thread is
    presence,   \* result of the request's ctap_wait_for_user_presence()
    response    \* the CTAP response of the finished request

vars == <<clock, highest, buffer, queue, pc, presence, response>>

-----------------------------------------------------------------------------
(* Packets. *)

Broadcast == MaxCid + 1
Cids == 1..MaxCid
QueueSize == 1 + MaxConts

ERR_INVALID_COMMAND == 1
ERR_INVALID_LENGTH  == 3
ERR_INVALID_SEQ     == 4
ERR_CHANNEL_BUSY    == 6
ERR_INVALID_CHANNEL == 11
KEEPALIVE_CANCEL    == 45

Octet == Nat \X Nat
Device(value) == <<0, value>>

\* cmd "CONT" stands for a clear bit 7; n is bcnt or, with "CONT", seq.
Packet == [cid : 0..Broadcast, cmd : Commands \cup {"ERROR", "KEEPALIVE", "CONT"},
           n : Nat, data : Seq(Octet)]

InitPacket(cid, cmd, bcnt, data) == [cid |-> cid, cmd |-> cmd, n |-> bcnt, data |-> data]
ContPacket(cid, seq, data) == [cid |-> cid, cmd |-> "CONT", n |-> seq, data |-> data]
ErrorPacket(cid, code) == InitPacket(cid, "ERROR", 1, <<Device(code)>>)
InitResponse(cid, responseCid) == InitPacket(cid, "INIT", 17, <<Device(responseCid)>>)

\* What the hosts put on the OUT endpoint: any command and length, any
\* sequence number, on any channel, allocated or not, in any order.
HostPackets ==
    {InitPacket(c, cmd, n, [k \in 1..InitSize |-> <<c, k>>]) :
        c \in HostCids, cmd \in HostCommands, n \in HostLengths}
    \cup
    {ContPacket(c, s, [i \in 1..ContSize |-> <<c, InitSize + s * ContSize + i>>]) :
        c \in HostCids, s \in 0..(MaxConts - 1)}

\* ctaphid_message_to_packets: the last packet is padded with zeros.
Chunk(payload, from, size) ==
    [i \in 1..size |-> IF from + i <= Len(payload) THEN payload[from + i] ELSE Device(0)]

NumConts(len) == IF len <= InitSize THEN 0 ELSE (len - InitSize + ContSize - 1) \div ContSize

MessageToPackets_EqualSizes(cid, cmd, payload) ==
    [i \in 1..(1 + NumConts(Len(payload))) |->
        IF i = 1
        THEN InitPacket(cid, cmd, Len(payload), Chunk(payload, 0, InitSize))
        ELSE ContPacket(cid, i - 2, Chunk(payload, (i - 1) * ContSize, ContSize))]

MessageToPackets(cid, cmd, payload) ==
    [i \in 1..(1 + NumConts(Len(payload))) |->
        IF i = 1
        THEN InitPacket(cid, cmd, Len(payload), Chunk(payload, 0, InitSize))
        ELSE ContPacket(cid, i - 2, Chunk(payload, InitSize + (i - 2) * ContSize, ContSize))]

-----------------------------------------------------------------------------
(* The buffer that assembles the incoming message. *)

Buffer == [start_time : 0..(ClockMod - 1), cid : 0..MaxCid,
           cmd : Commands \cup {"NONE"}, cancel : BOOLEAN,
           payload_length : 0..MaxPayload, next_seq : 0..MaxConts,
           offset : 0..MaxPayload, payload : Seq(Octet)]

IdleBuffer == [start_time |-> 0, cid |-> 0, cmd |-> "NONE", cancel |-> FALSE,
               payload_length |-> 0, next_seq |-> 0, offset |-> 0, payload |-> <<>>]

IsIdle(b) == b.cid = 0
IsComplete(b) == b.offset = b.payload_length
IsIncomplete(b) == b.offset < b.payload_length
CompleteMessageReady == ~IsIdle(buffer) /\ IsComplete(buffer)

Elapsed(b) == (clock - b.start_time) % ClockMod
IncompleteMessageTimeout(b) == IsIncomplete(b) /\ Elapsed(b) > TransactionTimeout

\* copy_payload_to_buffer: no more than the message still misses.
CopyPayload(b, data) ==
    LET room == b.payload_length - b.offset
        size == IF Len(data) <= room THEN Len(data) ELSE room
    IN  [b EXCEPT !.offset = @ + size,
                  !.payload = [k \in 1..(b.offset + size) |->
                      IF k <= b.offset THEN b.payload[k] ELSE data[k - b.offset]]]

-----------------------------------------------------------------------------
(* The send queue.  A single packet is dropped when the queue is full; a   *)
(* response that does not fit is a fatal error (fail_if_full).             *)

Reply_NoCapacityTest(p) == queue' = Append(queue, p)

Reply(p) == queue' = IF Len(queue) < QueueSize THEN Append(queue, p) ELSE queue

\* A response and, unless it was fatal, ctaphid_reset_to_idle.
Respond(packets) ==
    IF Len(queue) + Len(packets) <= QueueSize
    THEN /\ queue' = queue \o packets
         /\ buffer' = IdleBuffer
         /\ pc' = "run"
    ELSE /\ queue' = queue \o SubSeq(packets, 1, QueueSize - Len(queue))
         /\ pc' = "error_handler"
         /\ UNCHANGED buffer

Init ==
    /\ clock = 0
    /\ highest = 0
    /\ buffer = IdleBuffer
    /\ queue = <<>>
    /\ pc = "run"
    /\ presence = "none"
    /\ response = <<>>

-----------------------------------------------------------------------------
(* ctaphid_process_packet and the switch on its result.  b is the buffer   *)
(* after the timeout check that precedes it.                               *)

ValidChannel(p) ==
    \/ p.cid \in 1..highest
    \/ p.cid = Broadcast /\ p.cmd = "INIT"

Fail(p, b, code) ==
    /\ Reply(ErrorPacket(p.cid, code))
    /\ buffer' = b
    /\ UNCHANGED <<highest, pc>>

Ignore(b) == buffer' = b /\ UNCHANGED <<highest, queue, pc>>

InvalidChannel(p, b) == ~ValidChannel(p) /\ Fail(p, b, ERR_INVALID_CHANNEL)

Cancel_IncompleteToo(p, b) ==
    /\ ValidChannel(p) /\ p.cmd = "CANCEL" /\ p.n = 0
    /\ IF p.cid = b.cid /\ b.cmd = "CBOR"
       THEN Ignore([b EXCEPT !.cancel = TRUE])
       ELSE Ignore(b)

Cancel(p, b) ==
    /\ ValidChannel(p) /\ p.cmd = "CANCEL"
    /\ \/ p.n # 0 /\ Fail(p, b, ERR_INVALID_LENGTH)
       \/ /\ p.n = 0
          /\ IF p.cid = b.cid /\ b.cmd = "CBOR" /\ IsComplete(b)
             THEN Ignore([b EXCEPT !.cancel = TRUE])
             ELSE Ignore(b)

\* With no channel left the error code of the reply is never assigned: any
\* octet may be sent, of which one legal and one meaningless code stand here.
AllocateChannel(p, b) ==
    /\ p.cmd = "INIT" /\ p.cid = Broadcast /\ p.n = 8
    /\ IF highest + 1 = Broadcast
       THEN \E code \in {0, ERR_INVALID_CHANNEL} : Fail(p, b, code)
       ELSE /\ highest' = highest + 1
            /\ Reply(InitResponse(Broadcast, highest'))
            /\ buffer' = b
            /\ UNCHANGED pc

Resynchronize_AnyChannel(p, b) ==
    /\ p.cmd = "INIT" /\ p.cid \in 1..highest /\ p.n = 8
    /\ buffer' = IF IsIncomplete(b) THEN IdleBuffer ELSE b
    /\ Reply(InitResponse(p.cid, highest))
    /\ UNCHANGED <<highest, pc>>

Resynchronize_CompleteToo(p, b) ==
    /\ p.cmd = "INIT" /\ p.cid \in 1..highest /\ p.n = 8
    /\ buffer' = IF p.cid = b.cid THEN IdleBuffer ELSE b
    /\ Reply(InitResponse(p.cid, highest))
    /\ UNCHANGED <<highest, pc>>

Resynchronize(p, b) ==
    /\ p.cmd = "INIT" /\ p.cid \in 1..highest /\ p.n = 8
    /\ buffer' = IF p.cid = b.cid /\ IsIncomplete(b) THEN IdleBuffer ELSE b
    /\ Reply(InitResponse(p.cid, highest))
    /\ UNCHANGED <<highest, pc>>

InvalidInit(p, b) ==
    /\ ValidChannel(p) /\ p.cmd = "INIT" /\ p.n # 8
    /\ Fail(p, b, ERR_INVALID_LENGTH)

StartMessage_NeverBusy(p, b) ==
    /\ ValidChannel(p) /\ p.cmd \notin {"CONT", "CANCEL", "INIT"} /\ p.n <= MaxPayload
    /\ Ignore(CopyPayload([start_time |-> clock, cid |-> p.cid, cmd |-> p.cmd,
                           cancel |-> FALSE, payload_length |-> p.n,
                           next_seq |-> 0, offset |-> 0, payload |-> <<>>], p.data))

StartMessage(p, b) ==
    /\ ValidChannel(p) /\ p.cmd \notin {"CONT", "CANCEL", "INIT"}
    /\ \/ p.n > MaxPayload /\ Fail(p, b, ERR_INVALID_LENGTH)
       \/ p.n <= MaxPayload /\ ~IsIdle(b) /\ Fail(p, b, ERR_CHANNEL_BUSY)
       \/ /\ p.n <= MaxPayload /\ IsIdle(b)
          /\ Ignore(CopyPayload([start_time |-> clock, cid |-> p.cid, cmd |-> p.cmd,
                                 cancel |-> FALSE, payload_length |-> p.n,
                                 next_seq |-> 0, offset |-> 0, payload |-> <<>>], p.data))

Continue_AnySequence(p, b) ==
    /\ ValidChannel(p) /\ p.cmd = "CONT"
    /\ IF p.cid # b.cid
       THEN Ignore(b)
       ELSE Ignore(CopyPayload([b EXCEPT !.next_seq = p.n + 1], p.data))

Continue(p, b) ==
    /\ ValidChannel(p) /\ p.cmd = "CONT"
    /\ \/ p.cid # b.cid /\ Ignore(b)
       \/ /\ p.cid = b.cid /\ Asserts /\ b.payload_length = 0
          /\ pc' = "assert_payload_length"
          /\ buffer' = b
          /\ UNCHANGED <<highest, queue>>
       \/ /\ p.cid = b.cid /\ ~(Asserts /\ b.payload_length = 0)
          /\ IF p.n # b.next_seq
             THEN Fail(p, b, ERR_INVALID_SEQ)
             ELSE Ignore(CopyPayload([b EXCEPT !.next_seq = @ + 1], p.data))

ProcessPacket(p, b) ==
    \/ InvalidChannel(p, b)
    \/ Cancel(p, b)
    \/ AllocateChannel(p, b)
    \/ Resynchronize(p, b)
    \/ InvalidInit(p, b)
    \/ StartMessage(p, b)
    \/ Continue(p, b)

Halted == pc \in {"error_handler", "assert_payload_length"}

WaitOver_NoWait == pc \in {"drain", "respond"}

\* The loops that wait for an empty queue test it right after each send.
WaitOver == pc \in {"drain", "respond"} /\ queue = <<>>

Receive_NoTimeout(p) ==
    /\ ~Halted /\ ~WaitOver
    /\ ProcessPacket(p, buffer)
    /\ UNCHANGED <<clock, presence, response>>

\* app_handle_incoming_hid_packet, under tud_task.  The error packet made
\* for a timed out message is overwritten by the next reply: none is sent.
Receive(p) ==
    /\ ~Halted /\ ~WaitOver
    /\ ProcessPacket(p, IF IncompleteMessageTimeout(buffer) THEN IdleBuffer ELSE buffer)
    /\ UNCHANGED <<clock, presence, response>>

SendOne ==
    /\ ~Halted
    /\ queue # <<>>
    /\ queue' = Tail(queue)
    /\ UNCHANGED <<clock, highest, buffer, pc, presence, response>>

-----------------------------------------------------------------------------
(* app_ctaphid_task: one complete message, from the main loop. *)

TaskStart ==
    /\ pc = "run" /\ CompleteMessageReady
    /\ pc' = "drain"
    /\ UNCHANGED <<clock, highest, buffer, queue, presence, response>>

\* Every command but a non-empty CBOR is answered at once.
Answer(packets) ==
    /\ Respond(packets)
    /\ UNCHANGED <<clock, highest, presence, response>>

HandlePing ==
    /\ pc = "drain" /\ WaitOver /\ buffer.cmd = "PING"
    /\ Answer(MessageToPackets(buffer.cid, "PING", buffer.payload))

HandleWink ==
    /\ pc = "drain" /\ WaitOver /\ buffer.cmd = "WINK"
    /\ Answer(<<IF buffer.payload_length # 0
                THEN ErrorPacket(buffer.cid, ERR_INVALID_LENGTH)
                ELSE InitPacket(buffer.cid, "WINK", 0, <<>>)>>)

HandleUnsupported_NoReset ==
    /\ pc = "drain" /\ WaitOver /\ buffer.cmd \notin {"PING", "WINK", "CBOR"}
    /\ Reply(ErrorPacket(buffer.cid, ERR_INVALID_COMMAND))
    /\ pc' = "run"
    /\ UNCHANGED <<clock, highest, buffer, presence, response>>

HandleUnsupported ==
    /\ pc = "drain" /\ WaitOver /\ buffer.cmd \notin {"PING", "WINK", "CBOR"}
    /\ Answer(<<ErrorPacket(buffer.cid, ERR_INVALID_COMMAND)>>)

HandleCbor ==
    /\ pc = "drain" /\ WaitOver /\ buffer.cmd = "CBOR"
    /\ \/ buffer.payload_length = 0 /\ Answer(<<ErrorPacket(buffer.cid, ERR_INVALID_LENGTH)>>)
       \/ /\ buffer.payload_length # 0
          /\ pc' = "request"
          /\ presence' = "none"
          /\ UNCHANGED <<clock, highest, buffer, queue, response>>

\* ctap_send_keepalive_if_needed and the user presence loop.  When a
\* keepalive is due depends on the time: here at any time.
Keepalive ==
    /\ pc \in {"request", "wait_up"}
    /\ Reply(InitPacket(buffer.cid, "KEEPALIVE", 1, <<Device(IF pc = "wait_up" THEN 2 ELSE 1)>>))
    /\ UNCHANGED <<clock, highest, buffer, pc, presence, response>>

\* No CTAP command waits for the user twice.
WaitForUserPresence ==
    /\ pc = "request" /\ presence = "none"
    /\ pc' = "wait_up"
    /\ UNCHANGED <<clock, highest, buffer, queue, presence, response>>

UserPresenceResult ==
    /\ pc = "wait_up"
    /\ presence' \in IF buffer.cancel THEN {"cancel"} ELSE {"allow", "timeout"}
    /\ pc' = "request"
    /\ UNCHANGED <<clock, highest, buffer, queue, response>>

\* ctap_request returns; a cancelled wait gives the one-octet error response.
FinishRequest ==
    /\ pc = "request"
    /\ \/ presence = "cancel" /\ response' = <<Device(KEEPALIVE_CANCEL)>>
       \/ /\ presence # "cancel"
          /\ \E len \in ResponseLengths : response' = [k \in 1..len |-> Device(k)]
    /\ pc' = "respond"
    /\ UNCHANGED <<clock, highest, buffer, queue, presence>>

SendResponse ==
    /\ pc = "respond" /\ WaitOver
    /\ Respond(MessageToPackets(buffer.cid, "CBOR", response))
    /\ presence' = "none"
    /\ response' = <<>>
    /\ UNCHANGED <<clock, highest>>

Tick ==
    /\ clock' = (clock + 1) % ClockMod
    /\ UNCHANGED <<highest, buffer, queue, pc, presence, response>>

Task ==
    \/ TaskStart \/ HandlePing \/ HandleWink \/ HandleUnsupported \/ HandleCbor
    \/ WaitForUserPresence \/ UserPresenceResult \/ FinishRequest \/ SendResponse

Next ==
    \/ \E p \in HostPackets : Receive(p)
    \/ SendOne
    \/ Task
    \/ Keepalive
    \/ Tick

Spec == Init /\ [][Next]_vars

-----------------------------------------------------------------------------
(* Properties. *)

TypeOK ==
    /\ clock \in 0..(ClockMod - 1)
    /\ highest \in 0..MaxCid
    /\ buffer \in Buffer
    /\ queue \in Seq(Packet) /\ Len(queue) <= QueueSize
    /\ pc \in {"run", "drain", "request", "wait_up", "respond",
               "error_handler", "assert_payload_length"}
    /\ presence \in {"none", "allow", "timeout", "cancel"}
    /\ response \in Seq(Octet)

\* Whatever the channels send, in any order, and wherever messages are
\* refused, aborted or timed out, the assembled octets are exactly the first
\* octets of what the channel that owns the buffer sent (copy_payload_to_buffer,
\* the channel, sequence and busy checks of ctaphid_process_packet).
MessageIntegrity ==
    /\ DOMAIN buffer.payload = 1..buffer.offset
    /\ buffer.offset <= buffer.payload_length
    /\ \A k \in 1..buffer.offset : buffer.payload[k] = <<buffer.cid, k>>

\* While app_ctaphid_task works on a message, the packets handled by the
\* nested app_hid_task calls leave it complete and unchanged: the pointer it
\* keeps to the buffer never points to another request.  This is also the
\* assertion of app_ctaphid_send_keepalive.
Working == pc \in {"drain", "request", "wait_up", "respond"}

RequestStaysReady == Working => CompleteMessageReady

RequestStaysTheSame ==
    [][Working /\ Working' =>
        /\ buffer'.cid = buffer.cid
        /\ buffer'.cmd = buffer.cmd
        /\ buffer'.payload = buffer.payload]_vars

\* A cancel flag left by one request never reaches another one: it is only
\* set while the complete CBOR message it was sent for is in the buffer, and
\* a wait for the user that it ends belongs to that channel's request.
CancelScoped ==
    /\ buffer.cancel => buffer.cmd = "CBOR" /\ CompleteMessageReady
    /\ presence = "cancel" => buffer.cancel

\* A response that must not be lost always fits into the send queue: the
\* Error_Handler of app_hid_report_send_queue_add is never reached, however
\* many replies and keepalives piled up while the request was processed.
ResponseAlwaysFits == pc # "error_handler"

\* The hosts receive every response whole: its continuation packets follow
\* its initialization packet in order with no other packet between them, and
\* none is dropped.
HeadsResponse(i) == queue[i].cmd \in {"PING", "CBOR"}

ResponsesWhole ==
    \A i \in 1..Len(queue) :
        /\ HeadsResponse(i) =>
             /\ i + NumConts(queue[i].n) <= Len(queue)
             /\ \A j \in 1..NumConts(queue[i].n) :
                    /\ queue[i + j].cmd = "CONT"
                    /\ queue[i + j].cid = queue[i].cid
                    /\ queue[i + j].n = j - 1
        /\ i > 1 /\ queue[i].cmd = "CONT" =>
             \/ queue[i].n = 0 /\ HeadsResponse(i - 1)
             \/ queue[i - 1].cmd = "CONT" /\ queue[i].n = queue[i - 1].n + 1

\* What a host assembles from a PING response is what that host sent:
\* ctaphid_message_to_packets undoes the assembly, for every length.
Reassembled(i) ==
    [k \in 1..queue[i].n |->
        IF k <= InitSize
        THEN queue[i].data[k]
        ELSE queue[i + 1 + (k - InitSize - 1) \div ContSize]
                .data[1 + ((k - InitSize - 1) % ContSize)]]

PingEchoed ==
    \A i \in 1..Len(queue) : queue[i].cmd = "PING" =>
        Reassembled(i) = [k \in 1..queue[i].n |-> <<queue[i].cid, k>>]

\* A stalled transaction cannot lock the device: a channel is refused as busy
\* only while another message is really in progress, never because of an
\* incomplete message whose transaction timeout has passed.
Replied(p) == Len(queue') > Len(queue) /\ queue'[Len(queue')] = p

BusyOnlyWhileInProgress ==
    [][(\E c \in Cids : Replied(ErrorPacket(c, ERR_CHANNEL_BUSY)))
       => ~IsIdle(buffer) /\ ~IncompleteMessageTimeout(buffer)]_vars

\* An incomplete message is only given up for a reason: its own channel
\* resynchronizes (and gets the INIT response, if it fits), or its time is over.
OnlyOwnerOrTimeoutDiscards ==
    [][IsIncomplete(buffer) /\ ~IncompleteMessageTimeout(buffer) /\ IsIdle(buffer')
       => Len(queue) = QueueSize \/ Replied(InitResponse(buffer.cid, highest))]_vars

\* The inductive invariant that carries the safety properties above: an idle
\* buffer is blank, an incomplete message stands where its next continuation
\* packet begins, and a wait for the user leaves its result only to the
\* request that made it.
BufferShape ==
    /\ IsIdle(buffer) => buffer = IdleBuffer
    /\ IsIncomplete(buffer) => buffer.offset = InitSize + buffer.next_seq * ContSize

RequestShape ==
    /\ presence # "none" => pc \in {"request", "respond"}
    /\ pc = "respond" => Len(response) <= MaxPayload
    /\ pc \in {"request", "wait_up", "respond"} =>
         buffer.cmd = "CBOR" /\ buffer.payload_length # 0

IInv ==
    /\ TypeOK
    /\ MessageIntegrity
    /\ BufferShape
    /\ RequestStaysReady
    /\ CancelScoped
    /\ RequestShape
    /\ ResponseAlwaysFits
=============================================================================
