------------------------------- MODULE Sender -------------------------------
(***************************************************************************)
(* source/Sender.cpp over UDP: the two sockets of the stream, transport    *)
(* stream packets sent as RTP packets, sender reports, and the packets the *)
(* sink asks for once more (retransmission on the same socket, Sender.h).  *)
(* How a TCP connection is opened is part of PlaybackSession.              *)
(*                                                                         *)
(* All handlers run on the Sender's looper, one at a time. queuePackets is *)
(* called on the playback session's, and touches what no handler does:     *)
(* mRTPSeqNo, and the list it posts.                                       *)
(* An RTP packet is [n |-> the value of mRTPSeqNo it was given, ts |-> its *)
(* transport stream packets]; n % SeqMod is the sequence number it bears.  *)
(***************************************************************************)
EXTENDS Integers, Sequences

CONSTANTS
  WireMod,          \* sequence numbers have 16 bits: 65536
  MaskBits,         \* a NACK's mask has 16 bits
  PerRTP,           \* kMaxNumTSPacketsPerRTPPacket = 7
  MaxHistoryLength, \* kMaxHistoryLength = 128
  MaxPorts          \* bound: how many pairs of ports init() tries

ASSUME WireModAssumption == WireMod \in Nat \ {0} /\ MaskBits \in Nat
ASSUME PerRTPAssumption == PerRTP \in Nat \ {0}
ASSUME MaxHistoryLengthAssumption == MaxHistoryLength \in 1..WireMod
ASSUME MaxPortsAssumption == MaxPorts \in Nat \ {0}

VARIABLES
  mRTPSessionID,    \* whether the session exists, for the Sender
  mRTCPSessionID,
  mRTPPort,         \* 0 until init() has found its ports
  tried,            \* pairs of ports init() has gone through
  mRTPSeqNo,
  mHistory,         \* the packets sent last, oldest first
  drains,           \* kWhatDrainQueue messages: lists of RTP packets
  mSendSRPending,
  srMessages,       \* kWhatSendSR messages posted
  sessionsDead,     \* kWhatSessionDead notifications posted
  air               \* datagrams given to the network session, with the
                    \* flag again for one that was asked for

sockets    == <<mRTPSessionID, mRTCPSessionID, mRTPPort, tried>>
queues     == <<mRTPSeqNo, drains>>
reports    == <<mSendSRPending, srMessages>>
senderVars == <<sockets, queues, mHistory, reports, sessionsDead, air>>

SenderInit ==
  /\ mRTPSessionID = FALSE /\ mRTCPSessionID = FALSE
  /\ mRTPPort = 0 /\ tried = 0
  /\ mRTPSeqNo = 0
  /\ mHistory = << >>
  /\ drains = << >>
  /\ mSendSRPending = FALSE /\ srMessages = 0
  /\ sessionsDead = 0
  /\ air = {}

-----------------------------------------------------------------------------
(* Sockets                                                                 *)

(* One turn of the loop of init(): a port that cannot be bound costs the   *)
(* pair, and the next pair is tried, for ever if need be.                  *)
TryPorts ==
  /\ mRTPPort = 0
  /\ tried' = tried + 1
  /\ \/ /\ mRTPPort' = tried'
        /\ mRTPSessionID' = TRUE /\ mRTCPSessionID' = TRUE
     \/ /\ tried' < MaxPorts
        /\ UNCHANGED <<mRTPPort, mRTPSessionID, mRTCPSessionID>>
  /\ UNCHANGED <<queues, mHistory, reports, sessionsDead, air>>

(* kWhatError. An error while receiving on the RTP socket is nothing.      *)
RTPError(send) ==
  /\ mRTPSessionID
  /\ mRTPSessionID' = ~send
  /\ sessionsDead' = IF send THEN sessionsDead + 1 ELSE sessionsDead
  /\ UNCHANGED <<mRTCPSessionID, mRTPPort, tried, queues, mHistory, reports, air>>

RTCPError ==
  /\ mRTCPSessionID
  /\ mRTCPSessionID' = FALSE
  /\ sessionsDead' = sessionsDead + 1
  /\ UNCHANGED <<mRTPSessionID, mRTPPort, tried, queues, mHistory, reports, air>>

(* sendPacket: a session that is gone takes nothing, and nobody is told.   *)
Give(packets, again) ==
  air' = IF mRTPSessionID
           THEN air \cup {[p |-> p, again |-> again] : p \in packets} ELSE air

-----------------------------------------------------------------------------
(* Sending                                                                 *)

Entries(s) == {s[i] : i \in 1..Len(s)}
Smallest(a, b) == IF a < b THEN a ELSE b

(* The RTP packets one access unit's packets fill, numbered from n on: the *)
(* last one may be short, the next unit starts a packet of its own.        *)
Numbered(ts, n) ==
  [i \in 1..(Len(ts) + PerRTP - 1) \div PerRTP |->
     [n |-> n + i - 1,
      ts |-> SubSeq(ts, (i-1) * PerRTP + 1, Smallest(i * PerRTP, Len(ts)))]]

(* queuePackets, called by drainAccessUnit.                                *)
QueuePackets(ts) ==
  LET packets == Numbered(ts, mRTPSeqNo)
  IN  /\ mRTPSeqNo' = mRTPSeqNo + Len(packets)
      /\ drains' = Append(drains, packets)
      /\ UNCHANGED <<sockets, mHistory, reports, sessionsDead, air>>

(* Fault: the history gives up the newest packet.                          *)
KeepOldest(s) == SubSeq(s, 1, Smallest(MaxHistoryLength, Len(s)))

KeepNewest(s) ==
  SubSeq(s, IF Len(s) > MaxHistoryLength THEN Len(s) - MaxHistoryLength + 1
                                         ELSE 1, Len(s))

(* onDrainQueue: every packet is sent and remembered; the history is kept  *)
(* at its length packet by packet, which comes to its last entries.        *)
OnDrainQueue ==
  /\ drains # << >>
  /\ drains' = Tail(drains)
  /\ Give(Entries(Head(drains)), FALSE)
  /\ mHistory' = KeepNewest(mHistory \o Head(drains))
  /\ UNCHANGED <<sockets, mRTPSeqNo, reports, sessionsDead>>

-----------------------------------------------------------------------------
(* Sender reports                                                          *)

(* Without an RTCP session, or with a report to come, it returns at once.  *)
ScheduleSR ==
  /\ ~mSendSRPending
  /\ mRTCPSessionID
  /\ mSendSRPending' = TRUE
  /\ srMessages' = srMessages + 1
  /\ UNCHANGED <<sockets, queues, mHistory, sessionsDead, air>>

(* Fault: the next report is posted and not noted.                         *)
OnSendSRUnmarked ==
  /\ srMessages > 0
  /\ mSendSRPending' = FALSE
  /\ srMessages' = IF mRTCPSessionID THEN srMessages ELSE srMessages - 1
  /\ UNCHANGED <<sockets, queues, mHistory, sessionsDead, air>>

(* kWhatSendSR: report and schedule the next, unless the session is gone.  *)
OnSendSR ==
  /\ srMessages > 0
  /\ mSendSRPending' = mRTCPSessionID
  /\ srMessages' = IF mRTCPSessionID THEN srMessages ELSE srMessages - 1
  /\ UNCHANGED <<sockets, queues, mHistory, sessionsDead, air>>

-----------------------------------------------------------------------------
(* parseTSFB                                                               *)

WireSeqs == 0..WireMod-1

(* A NACK names seq and, by bit i of its mask, packet seq + i + 1.         *)
IsSeq(seq, i)        == mHistory[i].n % WireMod = seq
BitsOf(seq, mask, i) ==
  {b \in mask : ~IsSeq(seq, i) /\ mHistory[i].n % WireMod = (seq + b + 1) % WireMod}

(* The walk over the history from the oldest packet on. A packet strikes   *)
(* its bits out of the mask; Open are those that are left when the walk    *)
(* comes to entry i. The packet is sent again if it is seq or strikes one  *)
(* out, and the walk ends with it once everything was found.               *)
Open(seq, mask, i)  == {b \in mask : \A k \in 1..i-1 : b \notin BitsOf(seq, mask, k)}
Again(seq, mask, i) == IsSeq(seq, i) \/ BitsOf(seq, mask, i) \cap Open(seq, mask, i) # {}

AllFound(seq, mask, i) ==
  /\ Again(seq, mask, i)
  /\ \E k \in 1..i : IsSeq(seq, k)
  /\ Open(seq, mask, i+1) = {}

(* Fault: the walk ends with seq, whatever is left of the mask.            *)
ResentStopsEarly(seq, mask) ==
  {mHistory[i] : i \in {j \in 1..Len(mHistory) :
     Again(seq, mask, j) /\ \A k \in 1..j-1 : ~IsSeq(seq, k)}}

Resent(seq, mask) ==
  {mHistory[i] : i \in {j \in 1..Len(mHistory) :
     Again(seq, mask, j) /\ \A k \in 1..j-1 : ~AllFound(seq, mask, k)}}

(* A NACK for seq and for the packets after it that the mask names.        *)
OnNack(seq, mask) ==
  /\ mRTCPSessionID
  /\ Give(Resent(seq, mask), TRUE)
  /\ UNCHANGED <<sockets, queues, mHistory, reports, sessionsDead>>

-----------------------------------------------------------------------------
(* Properties                                                              *)

(* Whatever a NACK asks for, parseTSFB sends again exactly those of the    *)
(* packets asked for that are still in the history: the early break out    *)
(* of the walk and the bits it strikes out lose nothing, also where the    *)
(* numbers asked for lie across a wrap.                                    *)
ResendsWhatWasAsked ==
  \A seq \in WireSeqs, mask \in SUBSET (0..MaskBits-1) :
    Resent(seq, mask) =
      {p \in Entries(mHistory) :
         \/ p.n % WireMod = seq
         \/ \E i \in mask : p.n % WireMod = (seq + i + 1) % WireMod}

(* There is one chain of sender reports at most, and a packet is in the    *)
(* history once.                                                           *)
SenderTypeOK ==
  /\ mRTPSessionID \in BOOLEAN /\ mRTCPSessionID \in BOOLEAN
  /\ tried \in 0..MaxPorts /\ mRTPPort \in {0, tried}
  /\ mRTPSeqNo \in Nat
  /\ Len(mHistory) <= MaxHistoryLength
  /\ \A i, j \in 1..Len(mHistory) : i < j => mHistory[i].n < mHistory[j].n
  /\ srMessages = (IF mSendSRPending THEN 1 ELSE 0)
  /\ sessionsDead \in 0..2

=============================================================================
