-------------------------- MODULE TrilogyReceive --------------------------
(***************************************************************************)
(* The receiving half of the Trilogy protocol (src/non_master/net): how a  *)
(* server process takes the numbered packets of a game client from UDP,    *)
(* acknowledges them, puts fragments together and passes messages on.      *)
(* The game client and the network are external: the client numbers its    *)
(* packets from First on and sends each again until it is acknowledged;    *)
(* the network loses, repeats, delays and reorders datagrams at will.      *)
(***************************************************************************)
EXTENDS AckCommon, Sequences, FiniteSets

CONSTANTS
    Stream,         \* what the client sends: the fragCount of each packet
    First           \* ackRequest of the client's first packet

Fragmented(k) == Stream[k] > 0
GroupSize(k) == IF Fragmented(k) THEN Stream[k] ELSE 1

\* The messages start at these packets: the fragments of one follow each other
\* (ack_mgr_trilogy_recv_packet works from that assumption).
IsGrouping(starts) ==
    /\ 1 \in starts
    /\ \A k \in starts :
         LET next == k + GroupSize(k)
         IN  /\ next \in starts \/ next = Len(Stream) + 1
             /\ \A j \in k .. next - 1 : Stream[j] = Stream[k] /\ (j \in starts => j = k)

ASSUME StreamAssumption ==
    /\ Stream \in Seq(Nat) /\ Stream # <<>>
    /\ First \in Nat \ {0}
    /\ First + Len(Stream) < 2 ^ 16     \* the numbers do not wrap
    /\ \A k \in DOMAIN Stream : Stream[k] <= HalfWindow
    /\ \E starts \in SUBSET DOMAIN Stream : IsGrouping(starts)

VARIABLES
    sent,                       \* how many packets the client has sent
    acked,                      \* the highest ack the client has received
    acks,                       \* the ack responses the server has sent
    nextAckResponse, nextAckRequestExpected, nextAckRequestCheck,
    inputPackets,               \* the slots [ack, frag] of AckMgrTrilogy
    dead,                       \* the connection is flagged as dead
    exhausted,                  \* the slots grew until memory ran out
    delivered,                  \* history: the messages passed on, as the numbers of their packets
    received,                   \* history: the numbers that have arrived
    skewed,                     \* history: the slots no longer start at the expected number
    restarted                   \* history: the first packet arrived again

clientVars == <<sent, acked>>
ackVars == <<nextAckResponse, nextAckRequestExpected, nextAckRequestCheck>>
historyVars == <<delivered, received, skewed, restarted>>
recvVars == <<clientVars, acks, ackVars, inputPackets, dead, exhausted, historyVars>>

LastNumber == First + Len(Stream) - 1
Numbers == First .. LastNumber
FragCountOf(a) == Stream[a - First + 1]

EmptySlot == [ack |-> 0, frag |-> 0]

RecvInit ==
    /\ sent = 0 /\ acked = 0 /\ acks = {}
    /\ nextAckResponse = 0 /\ nextAckRequestExpected = 0 /\ nextAckRequestCheck = 0
    /\ inputPackets = <<>>
    /\ dead = FALSE /\ exhausted = FALSE
    /\ delivered = <<>> /\ received = {}
    /\ skewed = FALSE /\ restarted = FALSE

-----------------------------------------------------------------------------
(* The game client *)

ClientSend ==
    /\ sent < Len(Stream)
    /\ sent' = sent + 1
    /\ UNCHANGED <<acked, acks, ackVars, inputPackets, dead, exhausted, historyVars>>

ClientRecvAck(a) ==
    /\ a \in acks
    /\ a > acked
    /\ acked' = a
    /\ UNCHANGED <<sent, acks, ackVars, inputPackets, dead, exhausted, historyVars>>

-----------------------------------------------------------------------------
(* ack_mgr_trilogy_recv_packet *)

\* Filling the slot at distance diff, after the array is extended with empty ones.
Filled(slots, diff, slot) ==
    LET n == IF diff >= Len(slots) THEN diff + 1 ELSE Len(slots)
    IN  [k \in 1 .. n |-> IF k = diff + 1 THEN slot
                          ELSE IF k <= Len(slots) THEN slots[k] ELSE EmptySlot]

\* The loop that looks for completed packets goes over the slots up to the
\* first one that is empty or whose group cannot be complete.
Usable(slots) ==
    {m \in DOMAIN slots : \A k \in 1 .. m : slots[k].ack # 0 /\ slots[k].frag <= Len(slots)}

\* "frags": how many fragments are pending after each of them ...
Pending(slots) ==
    LET frags[k \in 0 .. Len(slots)] ==
            IF k = 0 THEN 0
            ELSE IF slots[k].frag = 0 THEN frags[k - 1]
            ELSE IF frags[k - 1] + 1 = slots[k].frag THEN 0
            ELSE frags[k - 1] + 1
    IN  frags

\* ... and the slots at which a packet or a group of fragments is completed.
Completed(slots) ==
    {k \in Usable(slots) : slots[k].frag = 0 \/ Pending(slots)[k] = 0}

Size(slot) == IF slot.frag = 0 THEN 1 ELSE slot.frag

\* "diff": the packets in the messages that are completed at slots "done".
SumSize(slots, done) ==
    LET sum[k \in 0 .. Len(slots)] ==
            IF k = 0 THEN 0 ELSE sum[k - 1] + IF k \in done THEN Size(slots[k]) ELSE 0
    IN  sum[Len(slots)]

\* The message that is completed at slot k: the numbers of its packets.
Message(slots, k) == [j \in 1 .. Size(slots[k]) |-> slots[k - Size(slots[k]) + j].ack]

Messages(slots) ==
    LET done == Completed(slots)
        Nth(j) == CHOOSE k \in done : Cardinality({m \in done : m <= k}) = j
    IN  [j \in 1 .. Cardinality(done) |-> Message(slots, Nth(j))]

\* The messages are recorded until the promise below is off.
PassOn(out) == delivered' = IF skewed' \/ restarted' THEN <<>> ELSE delivered \o out

\* The packet is the expected one and no fragment: it is passed on at once.
FastPath(a, expected) ==
    /\ nextAckRequestExpected' = expected + 1
    /\ PassOn(<<<<a>>>>)
    /\ UNCHANGED <<inputPackets, exhausted>>

\* "diff" is unsigned: it is enormous for a number that ack_compare takes for
\* one of the next lap, and the array grows until the allocation fails.
Enormous(expected) ==
    /\ exhausted' = TRUE
    /\ nextAckRequestExpected' = expected
    /\ PassOn(<<>>)
    /\ UNCHANGED inputPackets

Ignored(expected) ==
    /\ nextAckRequestExpected' = expected
    /\ PassOn(<<>>)
    /\ UNCHANGED <<inputPackets, exhausted>>

Stored(a, expected) ==
    LET slots == Filled(inputPackets, a - expected, [ack |-> a, frag |-> FragCountOf(a)])
        done == Completed(slots)
        diff == SumSize(slots, done)
    IN  /\ inputPackets' = SubSeq(slots, diff + 1, Len(slots))
        /\ nextAckRequestExpected' =
               IF done = {} THEN expected ELSE slots[CHOOSE k \in done : \A m \in done : m <= k].ack + 1
        /\ PassOn(Messages(slots))
        /\ UNCHANGED exhausted

\* Is the slot that belongs to number a already taken?
Taken(a, expected) ==
    a - expected < Len(inputPackets) /\ inputPackets[a - expected + 1].ack # 0

\* Mutant: a packet of the past is not recognised.
RecvPacket_NoPast(a, expected) ==
    IF a = expected /\ FragCountOf(a) = 0 THEN FastPath(a, expected)
    ELSE IF a < expected
      THEN PassOn(<<<<a>>>>) /\ nextAckRequestExpected' = expected
           /\ UNCHANGED <<inputPackets, exhausted>>
    ELSE IF Taken(a, expected) THEN Ignored(expected)
    ELSE Stored(a, expected)

\* Mutant: fragments are not kept until their group is complete.
RecvPacket_DropFuture(a, expected) ==
    IF a = expected /\ FragCountOf(a) = 0 THEN FastPath(a, expected) ELSE Ignored(expected)

RecvPacket(a, expected) ==
    IF a = expected /\ FragCountOf(a) = 0 THEN FastPath(a, expected)
    ELSE IF IsPast(a, expected) THEN Ignored(expected)
    ELSE IF a < expected THEN Enormous(expected)
    ELSE IF Taken(a, expected) THEN Ignored(expected)
    ELSE Stored(a, expected)

-----------------------------------------------------------------------------
(* protocol_handler_trilogy_recv, for a packet with an ack request *)

\* network_client_trilogy_recv_ack_request
RecvAckRequest(a) ==
    IF a = First \/ a = nextAckRequestCheck + 1
      THEN nextAckResponse' = a /\ nextAckRequestCheck' = a
      ELSE UNCHANGED <<nextAckResponse, nextAckRequestCheck>>

\* A copy of packet a arrives.  The first packet resets the numbers.
Recv(a) ==
    /\ a < First + sent
    /\ ~dead /\ ~exhausted
    /\ RecvAckRequest(a)
    /\ received' = received \cup {a}
    /\ LET expected == IF a = First THEN a ELSE nextAckRequestExpected IN
         /\ skewed' = IF inputPackets # <<>> /\ (a = First \/ (a = expected /\ FragCountOf(a) = 0))
                        THEN TRUE ELSE skewed
         /\ restarted' = IF a = First /\ First \in received THEN TRUE ELSE restarted
         /\ RecvPacket(a, expected)
    /\ UNCHANGED <<clientVars, acks, dead>>

\* The client's closing packet: acknowledged at once, whatever is missing.
RecvClosing ==
    /\ sent = Len(Stream)
    /\ ~dead /\ ~exhausted
    /\ RecvAckRequest(LastNumber + 1)
    /\ acks' = acks \cup {LastNumber + 1}
    /\ dead' = TRUE
    /\ UNCHANGED <<clientVars, nextAckRequestExpected, inputPackets, exhausted, historyVars>>

\* network_client_trilogy_send_queued: the ack rides on the first packet that is
\* sent, or goes out alone.
SendAck ==
    /\ nextAckResponse # 0
    /\ ~dead /\ ~exhausted
    /\ acks' = acks \cup {nextAckResponse}
    /\ nextAckResponse' = 0
    /\ UNCHANGED <<clientVars, nextAckRequestExpected, nextAckRequestCheck, inputPackets,
                   dead, exhausted, historyVars>>

-----------------------------------------------------------------------------

RecvNext ==
    \/ ClientSend
    \/ \E a \in Numbers \cup {LastNumber + 1} : ClientRecvAck(a)
    \/ \E a \in Numbers : Recv(a)
    \/ RecvClosing
    \/ SendAck

RecvSpec == RecvInit /\ [][RecvNext]_recvVars

\* The server's loop sends; the client sends everything, and again what is not
\* acknowledged, and one of the copies of a packet arrives in the end.
Fairness ==
    /\ WF_recvVars(ClientSend) /\ WF_recvVars(SendAck)
    /\ \A a \in Numbers : WF_recvVars(a > acked /\ Recv(a))

RecvFairSpec == RecvSpec /\ Fairness

-----------------------------------------------------------------------------
(* Properties *)

Sound == ~skewed /\ ~restarted /\ ~exhausted /\ ~dead

\* Messages are passed on in the client's order, each exactly once, whole and
\* without foreign fragments, whatever the network does.  It holds until the
\* slots and the expected number part ways (skewed) or the first packet comes twice.
InOrderOnce ==
    Sound => \A k \in DOMAIN delivered :
        LET m == delivered[k]
            start == IF k = 1 THEN First ELSE delivered[k - 1][Len(delivered[k - 1])] + 1
        IN  /\ Len(m) = IF FragCountOf(start) = 0 THEN 1 ELSE FragCountOf(start)
            /\ \A j \in DOMAIN m : m[j] = start + j - 1

PassedOn(a) == \E k \in DOMAIN delivered : \E j \in DOMAIN delivered[k] : delivered[k][j] = a

\* A packet that was acknowledged, so that the client will not send it again,
\* has been passed on or is waiting in a slot for the rest of its group.
AckedIsKept ==
    Sound => \A a \in received : a <= nextAckRequestCheck =>
        \/ PassedOn(a)
        \/ \E k \in DOMAIN inputPackets : inputPackets[k].ack = a

\* Everything the client sends is passed on in the end.
EventuallyPassedOn == <>(~Sound \/ \A a \in Numbers : PassedOn(a))
=============================================================================
