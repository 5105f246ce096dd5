---------------------------- MODULE TrilogySend -----------------------------
(***************************************************************************)
(* The sending half of the Trilogy protocol (src/non_master/net): how a    *)
(* server process cuts a packet into fragments, numbers them, sends what   *)
(* is queued on every pass of its main loop, sends again what was not      *)
(* acknowledged in time, and releases what was.  The game client and the   *)
(* network are external: the client acknowledges, for every datagram, the  *)
(* last number up to which it has all; the network loses, delays and       *)
(* reorders datagrams.  The ack responses that the same datagrams carry    *)
(* are modelled in TrilogyReceive.                                         *)
(***************************************************************************)
EXTENDS AckCommon, Sequences, FiniteSetsExt

CONSTANTS
    Lengths,        \* the lengths of the packets that are scheduled, in bytes
    MaxPackets,     \* bound: how many packets are scheduled
    FirstSent       \* the number of the first fragment: 1, or any after many packets

DataSpace == 512    \* EQP_PACKET_TRILOGY_DATA_SPACE
OpcodeSize == 2
Modulus == 65536    \* the numbers are 16 bits wide

ASSUME SendAssumption ==
    /\ Lengths \subseteq Nat \ {0} /\ MaxPackets \in Nat
    /\ FirstSent \in 1 .. Modulus - 1

VARIABLES
    scheduled,          \* history: every packet: [no, len, frags]; no 0 without an ack request
    outputPackets,      \* the queue: [id, timeout], the index of the packet in scheduled
    sendFromIndex,      \* how many of them have been sent
    lastAckReceived,
    nextAckToRequest,
    crashed,            \* the process ended with an exception
    datagrams,          \* on their way to the client: [no, bytes]
    got,                \* the datagrams the client has received
    clientAcks                \* the acks on their way to the server

serverVars == <<scheduled, outputPackets, sendFromIndex, lastAckReceived, nextAckToRequest, crashed>>
networkVars == <<datagrams, got, clientAcks>>
sendVars == <<serverVars, networkVars>>

SendInit ==
    /\ scheduled = <<>> /\ outputPackets = <<>>
    /\ sendFromIndex = 0 /\ crashed = FALSE
    /\ lastAckReceived = FirstSent - 1 /\ nextAckToRequest = FirstSent
    /\ datagrams = {} /\ got = {} /\ clientAcks = {}

-----------------------------------------------------------------------------
(* Fragments: packet_trilogy.c, ack_mgr_trilogy.c *)

\* packet_trilogy_calc_length_and_frag_count, plus one
FragCount(len) == IF len <= DataSpace THEN 1 ELSE (len + DataSpace - 1) \div DataSpace

\* The space for data in a fragment: the opcode takes some of the first.
Space(f) == IF f = 0 THEN DataSpace - OpcodeSize ELSE DataSpace

\* The space of the fragments from .. to together
SpaceOf(from, to) ==
    IF to < from THEN 0
    ELSE (to - from + 1) * DataSpace - (IF from = 0 THEN OpcodeSize ELSE 0)

LeastOf(a, b) == IF a < b THEN a ELSE b

\* What fragment f really holds after packet_trilogy_fragmentize
FragBytes(len, f) == LeastOf(Space(f), len - SpaceOf(0, f - 1))

\* nextAckToRequest += fragCount
NumberAfter(no, frags) == (no + frags) % Modulus

\* ack_mgr_trilogy_schedule_packet and network_client_trilogy_schedule_packet;
\* a packet in several fragments always requests acks.
Schedule(len, noAck) ==
    /\ ~crashed
    /\ Len(scheduled) < MaxPackets
    /\ noAck => FragCount(len) = 1
    /\ LET next == IF nextAckToRequest = 0 THEN 1 ELSE nextAckToRequest
           frags == FragCount(len)
       IN  /\ scheduled' = Append(scheduled, [no |-> IF noAck THEN 0 ELSE next,
                                              len |-> len, frags |-> frags])
           /\ nextAckToRequest' = IF noAck THEN nextAckToRequest ELSE NumberAfter(next, frags)
    /\ outputPackets' = Append(outputPackets, [id |-> Len(scheduled) + 1, timeout |-> FALSE])
    /\ UNCHANGED <<sendFromIndex, lastAckReceived, crashed, networkVars>>

-----------------------------------------------------------------------------
(* network_client_trilogy.c *)

\* The loop of network_client_trilogy_send_queued that finds the first fragment
\* of a packet to send again
AckedFragments(p) ==
    LET unacked == {f \in 0 .. p.frags - 1 : IsPast(lastAckReceived, (p.no + f) % Modulus)}
    IN  IF unacked = {} THEN p.frags ELSE Min(unacked)

\* The fragment to begin with
Skipped(i) ==
    LET p == scheduled[outputPackets[i].id]
    IN  IF i <= sendFromIndex /\ p.frags > 1 THEN AckedFragments(p) ELSE 0

\* Mutant: a packet is sent once.
ToSend_Once == {i \in DOMAIN outputPackets : i > sendFromIndex}

\* What is new, and what has not been acknowledged in time
ToSend == {i \in DOMAIN outputPackets : i > sendFromIndex \/ outputPackets[i].timeout}

\* Mutant: the last fragment is as long as the others.
PassedBytes_Full(p, s, f) == Space(f)

\* The length that is passed for fragment f when the first s were skipped: the
\* length that remains is counted from the fragment that is sent first.
PassedBytes(p, s, f) == LeastOf(Space(f), p.len - SpaceOf(s, f - 1))

Fragments(i) ==
    LET p == scheduled[outputPackets[i].id]
    IN  {[no |-> IF p.no = 0 THEN 0 ELSE (p.no + f) % Modulus, bytes |-> PassedBytes(p, Skipped(i), f)] :
            f \in Skipped(i) .. p.frags - 1}

\* A fragment is said to be longer than what is left: aligned_advance throws.
Overruns(i) ==
    LET p == scheduled[outputPackets[i].id]
    IN  \E f \in Skipped(i) .. p.frags - 1 : PassedBytes(p, Skipped(i), f) > FragBytes(p.len, f)

\* network_client_trilogy_send_queued and _send_fragment
SendQueued ==
    /\ ~crashed
    /\ ToSend # {}
    /\ IF \E i \in ToSend : Overruns(i)
         THEN crashed' = TRUE /\ UNCHANGED <<outputPackets, sendFromIndex, datagrams>>
         ELSE /\ datagrams' = datagrams \cup UNION {Fragments(i) : i \in ToSend}
              /\ outputPackets' = [i \in DOMAIN outputPackets |->
                     IF i \in ToSend /\ Fragments(i) # {}
                       THEN [outputPackets[i] EXCEPT !.timeout = FALSE] ELSE outputPackets[i]]
              /\ sendFromIndex' = Len(outputPackets)
              /\ UNCHANGED crashed
    /\ UNCHANGED <<scheduled, lastAckReceived, nextAckToRequest, got, clientAcks>>

\* EQP_TRILOGY_RESEND_MILLISECONDS pass since packet i was sent.
Timeout(i) ==
    /\ ~crashed
    /\ i \in 1 .. sendFromIndex /\ ~outputPackets[i].timeout
    /\ outputPackets' = [outputPackets EXCEPT ![i].timeout = TRUE]
    /\ UNCHANGED <<scheduled, sendFromIndex, lastAckReceived, nextAckToRequest, crashed, networkVars>>

\* Mutant: a packet counts as acknowledged with its first fragment.
LastAck_First(p) == p.no

\* The number whose ack releases the packet
LastAck(p) == (p.no + p.frags - 1) % Modulus

\* network_client_trilogy_recv_ack_response: the packets in front that the ack
\* covers are released, and the rest counts as not sent yet.
RecvAck(ack) ==
    /\ ~crashed
    /\ ack \in clientAcks
    /\ clientAcks' = clientAcks \ {ack}
    /\ lastAckReceived' = ack
    /\ LET kept == {i \in 1 .. sendFromIndex : LastAck(scheduled[outputPackets[i].id]) > ack}
           n == IF kept = {} THEN sendFromIndex ELSE Min(kept) - 1
       IN  /\ outputPackets' = SubSeq(outputPackets, n + 1, Len(outputPackets))
           /\ sendFromIndex' = IF n > 0 THEN 0 ELSE sendFromIndex
    /\ UNCHANGED <<scheduled, nextAckToRequest, crashed, datagrams, got>>

-----------------------------------------------------------------------------
(* The game client and the network *)

\* The last number up to which the client has all
Contiguous(have) ==
    LET numbers == {d.no : d \in have}
    IN  Max({n \in {FirstSent - 1} \cup numbers : FirstSent .. n \subseteq numbers})

ClientReceives(d) ==
    /\ d \in datagrams
    /\ datagrams' = datagrams \ {d}
    /\ got' = got \cup {d}
    /\ clientAcks' = IF d.no = 0 THEN clientAcks ELSE clientAcks \cup {Contiguous(got \cup {d})}
    /\ UNCHANGED serverVars

Lose ==
    /\ \/ \E d \in datagrams : datagrams' = datagrams \ {d} /\ UNCHANGED clientAcks
       \/ \E a \in clientAcks : clientAcks' = clientAcks \ {a} /\ UNCHANGED datagrams
    /\ UNCHANGED <<serverVars, got>>

-----------------------------------------------------------------------------
SendNext ==
    \/ \E len \in Lengths, noAck \in BOOLEAN : Schedule(len, noAck)
    \/ SendQueued
    \/ \E i \in 1 .. MaxPackets : Timeout(i)
    \/ \E a \in clientAcks : RecvAck(a)
    \/ \E d \in datagrams : ClientReceives(d)
    \/ Lose

SendSpec == SendInit /\ [][SendNext]_sendVars

\* The main loop sends on every pass and time passes; a number that is sent
\* again and again arrives in the end.  Acks may all be lost.
SendFairSpec ==
    /\ SendSpec
    /\ WF_sendVars(SendQueued)
    /\ \A i \in 1 .. MaxPackets : WF_sendVars(Timeout(i))
    /\ \A n \in FirstSent .. FirstSent + MaxPackets * Max({FragCount(len) : len \in Lengths}) - 1 :
         SF_sendVars(\E d \in datagrams : d.no = n /\ ClientReceives(d))

-----------------------------------------------------------------------------
(* Properties *)

Numbered(k) == scheduled[k].no # 0
Released(k) == \A i \in DOMAIN outputPackets : outputPackets[i].id # k
NumbersOf(p) == {(p.no + f) % Modulus : f \in 0 .. p.frags - 1}
Received(p) == NumbersOf(p) \subseteq {d.no : d \in got}

\* The numbers have not come to the end of their 16 bits: the next packet has higher ones.
\* Acks are compared with > and ack_compare, neither of which wraps.
Unwrapped ==
    \A k \in DOMAIN scheduled : Numbered(k) =>
        /\ scheduled[k].no + scheduled[k].frags <= Modulus
        /\ \A j \in 1 .. k - 1 :
             Numbered(j) => scheduled[j].no + scheduled[j].frags <= scheduled[k].no

\* bytes of data are what fragment f of packet p has to bring: any but the last is full ("any
\* non-final fragment that doesn't make use of its full size will be rejected by the client"), and
\* the last one ends with the packet.  The fragments are counted without the two bytes that the
\* opcode takes from the first one: bytes are missing when the length modulo 512 is 0 or 511.
WholeUnlessCut(p, f, bytes) ==
    /\ f < p.frags - 1 => bytes = Space(f)
    /\ f = p.frags - 1 =>
         (SpaceOf(0, f - 1) + bytes = p.len <=> p.len % DataSpace \notin {0, DataSpace - 1})

\* A packet that requested acks leaves the queue only when the client has every
\* fragment of it, each whole and in no other form, however often it was sent and
\* wherever it was sent from again.
ReleasedIsReceived ==
    Unwrapped => \A k \in DOMAIN scheduled :
        LET p == scheduled[k] IN
        Released(k) /\ Numbered(k) =>
            /\ Received(p)
            /\ \A d \in got : \A f \in 0 .. p.frags - 1 : d.no = p.no + f => WholeUnlessCut(p, f, d.bytes)

\* The process fails while it sends only after an ack for the middle of a
\* packet, and nothing it sends before is longer than a fragment may be.
FailsOnlyAfterPartialAck ==
    /\ Unwrapped /\ crashed => \E k \in DOMAIN scheduled :
         ~Released(k) /\ scheduled[k].no <= lastAckReceived
                      /\ lastAckReceived < LastAck(scheduled[k])
    /\ \A d \in got \cup datagrams : d.bytes <= DataSpace

\* A packet that requests acks is received, however often its datagrams are
\* lost, unless the process fails.
EventuallyReceived ==
    \A k \in 1 .. MaxPackets :
        (k \in DOMAIN scheduled /\ scheduled[k].no # 0)
            ~> (crashed \/ (k \in DOMAIN scheduled /\ Received(scheduled[k])))
=============================================================================
