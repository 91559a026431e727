------------------------------- MODULE Packets ------------------------------
(***************************************************************************)
(* The packets that a peer sends (bee-protocol: packets, peer/mod.rs,      *)
(* peer/packet_handler.rs, responder).  A packet is a header, its type and *)
(* the length of its payload, and the payload; integers are little-endian. *)
(* The gossip layer hands the stream of bytes to the packet handler in     *)
(* pieces of any size, and the packet handler cuts it into packets again.  *)
(*                                                                         *)
(* A byte has Byte values here, a packet length two of them, an index      *)
(* INDEX_SIZE of them.                                                     *)
(***************************************************************************)
EXTENDS Integers, SequencesExt

CONSTANTS
    Byte,                 \* the number of values of a byte
    INDEX_SIZE,           \* the bytes of a milestone index
    MESSAGE_ID_LENGTH,
    MESSAGE_BYTES_MIN, MESSAGE_BYTES_MAX,
    Scripts,              \* the sequences of packets that a peer may send
    StoredMilestones,     \* index -> the bytes of the message of a milestone
    StoredMessages,       \* message id -> the bytes of the message
    MaxPiece,             \* bound: the bytes of an event of the gossip layer
    None

VARIABLES
    script,        \* the packets the peer sends
    stream,        \* the bytes that have not arrived
    buffer, offset,
    header,        \* ReadState: the header that was read, or None
    handled,       \* how many packets process_packet got
    handed_on,     \* the packets it handed on
    invalid,       \* invalid_packets
    peer,          \* what the last heartbeat told of the peer
    responder,     \* the requests that wait for an answer
    answers,       \* the bytes sent to the peer
    stopped

packetVars == << script, stream, buffer, offset, header, handled, handed_on, invalid, peer, responder,
                 answers, stopped >>
-----------------------------------------------------------------------------
(* to_le_bytes and from_le_bytes of an integer of n bytes.                 *)
to_le_bytes(x, n) == [i \in 1 .. n |-> (x \div Byte^(i - 1)) % Byte]

from_le_bytes(bytes) == FoldRight(LAMBDA b, acc : acc * Byte + b, bytes, 0)

HEADER_SIZE == 3

HeaderToBytes(type, length) == << type >> \o to_le_bytes(length % Byte^2, 2)

HeaderFromBytes(bytes) ==
    [type |-> bytes[1], length |-> from_le_bytes(SubSeq(bytes, 2, HEADER_SIZE))]

(* The types of packets and the sizes of their payloads.                   *)
MilestoneRequestID == 1
MessageID == 2
MessageRequestID == 3
HeartbeatID == 4

SizeRange(type) ==
    CASE type = MilestoneRequestID -> INDEX_SIZE .. INDEX_SIZE
      [] type = MessageID -> MESSAGE_BYTES_MIN .. MESSAGE_BYTES_MAX
      [] type = MessageRequestID -> MESSAGE_ID_LENGTH .. MESSAGE_ID_LENGTH
      [] type = HeartbeatID -> 3 * INDEX_SIZE + 2 .. 3 * INDEX_SIZE + 2

HeartbeatToBytes(p) ==
    to_le_bytes(p.solid, INDEX_SIZE) \o to_le_bytes(p.pruned, INDEX_SIZE)
    \o to_le_bytes(p.latest, INDEX_SIZE) \o << p.connected, p.synced >>

HeartbeatFromBytes(bytes) ==
    LET index(k) == from_le_bytes(SubSeq(bytes, k * INDEX_SIZE + 1, (k + 1) * INDEX_SIZE))
    IN  [type |-> HeartbeatID, solid |-> index(0), pruned |-> index(1), latest |-> index(2),
         connected |-> bytes[3 * INDEX_SIZE + 1], synced |-> bytes[3 * INDEX_SIZE + 2]]

PacketToBytes(p) ==
    CASE p.type = MilestoneRequestID -> to_le_bytes(p.index, INDEX_SIZE)
      [] p.type = HeartbeatID -> HeartbeatToBytes(p)
      [] OTHER -> p.bytes

PacketFromBytes(type, bytes) ==
    CASE type = MilestoneRequestID -> [type |-> type, index |-> from_le_bytes(bytes)]
      [] type = HeartbeatID -> HeartbeatFromBytes(bytes)
      [] OTHER -> [type |-> type, bytes |-> bytes]

(* tlv_to_bytes: the length is that of the payload, cut to a u16.          *)
tlv_to_bytes(p) == LET payload == PacketToBytes(p)
                   IN  HeaderToBytes(p.type, Len(payload)) \o payload

(* tlv_from_bytes and the match on the type in process_packet.             *)
Supported(type, bytes) == type \in 1 .. 4 /\ Len(bytes) \in SizeRange(type)
-----------------------------------------------------------------------------
(* Mutation: what was read stays in the buffer.                            *)
push_event_whole(bytes) == buffer \o bytes

(* push_event: what was read is removed.                                   *)
push_event(bytes) == SubSeq(buffer, offset + 1, Len(buffer)) \o bytes

Needed == IF header = None THEN HEADER_SIZE ELSE header.length

(* fetch_bytes takes another event if the buffer does not have enough.     *)
ReceiveEvent(n) ==
    /\ ~stopped
    /\ offset + Needed > Len(buffer)
    /\ n <= Len(stream)
    /\ buffer' = push_event(SubSeq(stream, 1, n))
    /\ offset' = 0
    /\ stream' = SubSeq(stream, n + 1, Len(stream))
    /\ UNCHANGED << script, header, handled, handed_on, invalid, peer, responder, answers, stopped >>

Fetched == SubSeq(buffer, offset + 1, offset + Needed)

FetchHeader ==
    /\ ~stopped
    /\ header = None /\ offset + HEADER_SIZE <= Len(buffer)
    /\ header' = HeaderFromBytes(Fetched)
    /\ offset' = offset + HEADER_SIZE
    /\ UNCHANGED << script, stream, buffer, handled, handed_on, invalid, peer, responder, answers,
                    stopped >>

(* The payload goes to process_packet, and the next header is read after   *)
(* it whether it failed or not.                                            *)
FetchPayload ==
    /\ ~stopped
    /\ header # None /\ offset + header.length <= Len(buffer)
    /\ offset' = offset + header.length
    /\ header' = None
    /\ handled' = handled + 1
    /\ IF Supported(header.type, Fetched)
       THEN LET packet == PacketFromBytes(header.type, Fetched) IN
            /\ handed_on' = Append(handed_on, packet)
            /\ peer' = IF packet.type = HeartbeatID THEN packet ELSE peer
            /\ responder' = IF packet.type \in {MilestoneRequestID, MessageRequestID}
                            THEN Append(responder, packet) ELSE responder
            /\ UNCHANGED invalid
       ELSE invalid' = invalid + 1 /\ UNCHANGED << handed_on, peer, responder >>
    /\ UNCHANGED << script, stream, buffer, answers, stopped >>

(* The responders: index 0 stands for the latest milestone.                *)
Requested(packet) ==
    IF packet.type = MessageRequestID
    THEN IF packet.bytes \in DOMAIN StoredMessages THEN << StoredMessages[packet.bytes] >> ELSE << >>
    ELSE LET latest == CHOOSE i \in DOMAIN StoredMilestones :
                          \A j \in DOMAIN StoredMilestones : i >= j
             i == IF packet.index = 0 THEN latest ELSE packet.index
         IN  IF i \in DOMAIN StoredMilestones THEN << StoredMilestones[i] >> ELSE << >>

Respond ==
    /\ responder # << >>
    /\ responder' = Tail(responder)
    /\ LET found == Requested(Head(responder)) IN
       answers' = IF found = << >> THEN answers
                  ELSE answers \o tlv_to_bytes([type |-> MessageID, bytes |-> found[1]])
    /\ UNCHANGED << script, stream, buffer, offset, header, handled, handed_on, invalid, peer, stopped >>

(* The shutdown signal is looked at first, before every fetch.             *)
StopPeerWorker ==
    /\ ~stopped
    /\ stopped' = TRUE
    /\ UNCHANGED << script, stream, buffer, offset, header, handled, handed_on, invalid, peer,
                    responder, answers >>

PacketsInit ==
    /\ script \in Scripts
    /\ stream = FlattenSeq([i \in DOMAIN script |-> tlv_to_bytes(script[i])])
    /\ buffer = << >> /\ offset = 0 /\ header = None
    /\ handled = 0 /\ handed_on = << >> /\ invalid = 0
    /\ peer = [type |-> HeartbeatID, solid |-> 0, pruned |-> 0, latest |-> 0, connected |-> 0,
               synced |-> 0]
    /\ responder = << >> /\ answers = << >> /\ stopped = FALSE

PacketsNext ==
    \/ \E n \in 1 .. MaxPiece : ReceiveEvent(n)
    \/ FetchHeader
    \/ FetchPayload
    \/ Respond
    \/ StopPeerWorker
-----------------------------------------------------------------------------
LOCAL WellFormed(p) == p.type \in 1 .. 4 /\ Len(PacketToBytes(p)) \in SizeRange(p.type)

(* Whatever the pieces in which the bytes arrive, the packets that are     *)
(* handed on are those that were sent so far, in their order and with      *)
(* their contents; one with an unknown type or a wrong length is counted   *)
(* and costs none of its neighbours.                                       *)
PacketsAsSent ==
    LET sent == SubSeq(script, 1, handled) IN
    /\ handed_on = SelectSeq(sent, WellFormed)
    /\ invalid = Len(sent) - Len(handed_on)
    /\ handled = Len(script) => stream = << >> /\ offset = Len(buffer)
=============================================================================
