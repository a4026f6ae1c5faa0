------------------------------- MODULE RTPSink -------------------------------
(***************************************************************************)
(* sink/RTPSink.cpp: the receiving end of the media stream. It validates   *)
(* the packets of each SSRC (RtpSource), hands them to the renderer, tells *)
(* its two UDP sockets who the sender is when the first datagram comes,    *)
(* and from then on sends receiver reports every 2s.                       *)
(*                                                                         *)
(* The handlers run on one looper, one message at a time; a handler is one *)
(* step. A packet that updateSeq queues reaches TunnelRenderer as the next *)
(* kind of message on the same looper; nothing here depends on how far the *)
(* renderer is, so the step hands it over at once. The renderer itself is  *)
(* ReorderBuffer, which TunnelRenderer is proved to implement: it plays    *)
(* the oldest packet held and ignores what is not newer than the last.     *)
(*                                                                         *)
(* Outside src/: the sender and the network. The sender numbers its        *)
(* packets 0, 1, 2, ... ; packet n carries sequence number n % SeqMod.     *)
(***************************************************************************)
EXTENDS RtpSource, Sequences, FiniteSets

CONSTANTS
  MaxIndex,     \* bound: the sender sends packets 0..MaxIndex
  MaxLate,      \* a packet may arrive after one that is newer by MaxLate
  MaxGap,       \* and at most MaxGap - 1 packets in a row are lost,
  Outages,      \* gaps that may happen besides, counted in packets,
  MaxCopies     \* and at most MaxCopies packets are duplicated

ASSUME NetworkAssumption ==
  /\ MaxIndex \in Nat /\ MaxLate \in Nat /\ MaxGap \in Nat \ {0}
  /\ Outages \subseteq Nat /\ MaxCopies \in Nat

Indices == 0..MaxIndex
Unconnected == -1

(* Ports of the sender, relative to the one it sends RTP from: 0 for RTP,  *)
(* 1 for RTCP. connect() takes the peer's RTCP port to be the next one.    *)
Ports == 0..2

VARIABLES
  mRTPSession,          \* whether mRTPSessionID is a live session
  mRTCPSession,         \* whether mRTCPSessionID is a live session
  mIsConnectRemotePort,
  rtpPeer, rtcpPeer,    \* ports the sockets are connected to, or Unconnected
  mSource,              \* the Source of the stream's SSRC, or NoSource
  sendRR,               \* kWhatSendRR messages scheduled
  reportsSent,          \* parity of the number of receiver reports sent
  held, last, played,   \* the renderer, see ReorderBuffer
  arrived,              \* history: packets that reached parseRTP
  copies,               \* history: how many of them came again
  base,                 \* history: the packet mBaseSeq stands for
  counted,              \* history: packets that have arrived since
  origins,              \* history: <<ext, n>>, packet n was numbered ext
  lateAcrossWrap        \* history: a packet from before a wrap came after it

sockets  == <<mRTPSession, mRTCPSession, mIsConnectRemotePort, rtpPeer, rtcpPeer>>
reports  == <<sendRR, reportsSent>>
renderer == <<held, last, played>>
history  == <<arrived, copies, base, counted, origins, lateAcrossWrap>>
vars     == <<sockets, reports, mSource, renderer, history>>

Exts == 0..MaxIndex + 2*SeqMod

Renderer == INSTANCE ReorderBuffer WITH ExtSeqNos <- Exts

NoSource == [mProbation |-> -1]

Newest(S) == CHOOSE n \in S : \A m \in S : m <= n

(* init() has found two free ports: both sessions exist.                   *)
Init ==
  /\ mRTPSession = TRUE /\ mRTCPSession = TRUE
  /\ mIsConnectRemotePort = FALSE
  /\ rtpPeer = Unconnected /\ rtcpPeer = Unconnected
  /\ mSource = NoSource
  /\ sendRR = 0 /\ reportsSent = 0
  /\ Renderer!Init
  /\ arrived = {} /\ copies = 0 /\ base = 0 /\ counted = {}
  /\ origins = {} /\ lateAcrossWrap = FALSE

-----------------------------------------------------------------------------
(* connect()                                                               *)

(* Fault: every datagram connects the sockets again.                       *)
ConnectAlways(port) ==
  /\ mIsConnectRemotePort' = TRUE
  /\ rtpPeer' = port
  /\ rtcpPeer' = port + 1
  /\ sendRR' = sendRR + 1

(* A datagram from the given port of the sender, the first one connects    *)
(* both sockets to the sender, RTP first. A dead session or a socket the   *)
(* system will not connect ends it, and no report is ever scheduled.       *)
ConnectOnFirst(port) ==
  \/ /\ mIsConnectRemotePort
     /\ UNCHANGED <<mIsConnectRemotePort, rtpPeer, rtcpPeer, sendRR>>
  \/ /\ ~mIsConnectRemotePort
     /\ mIsConnectRemotePort' = TRUE
     /\ \/ UNCHANGED <<rtpPeer, rtcpPeer, sendRR>>
        \/ /\ mRTPSession
           /\ rtpPeer' = port
           /\ \/ UNCHANGED <<rtcpPeer, sendRR>>
              \/ /\ mRTCPSession
                 /\ rtcpPeer' = port + 1
                 /\ sendRR' = sendRR + 1

-----------------------------------------------------------------------------
(* parseRTP                                                                *)

Validated == mSource # NoSource /\ mSource.mProbation = 0

(* The network: which packet may arrive now, the newest or a late one,     *)
(* which may be a duplicate. Of the SeqMod packets before the first wrap   *)
(* two arrive in sequence.                                                 *)
MayArrive(n) ==
  /\ n \in arrived => copies < MaxCopies
  /\ n >= SeqMod => Validated
  /\ IF arrived = {} THEN n = 0
     ELSE LET newest == Newest(arrived)
          IN  \/ n - newest \in 1..MaxGap
              \/ n - newest \in Outages
              \/ newest - n \in 0..MaxLate

FromBeforeWrap(n) ==
  \E m \in arrived : n < m /\ n \div SeqMod # m \div SeqMod

(* The renderer's message handler.                                         *)
HandOver(ext) ==
  IF ext > last THEN Renderer!Accept(ext) ELSE UNCHANGED renderer

ParseRTP(n) ==
  LET seq == n % SeqMod
      upd == IF mSource = NoSource THEN NewSource(seq)
                                   ELSE UpdateSeq(mSource, seq)
      first  == upd.ext # NotQueued /\ upd.src.mReceived = 1
  IN  /\ mSource' = upd.src
      /\ arrived' = arrived \cup {n}
      /\ copies' = IF n \in arrived THEN copies + 1 ELSE copies
      /\ lateAcrossWrap' = (lateAcrossWrap \/ FromBeforeWrap(n))
      /\ base' = IF first THEN n ELSE base
      /\ counted' = IF first THEN {n} ELSE IF Validated THEN counted \cup {n} ELSE {}
      /\ IF upd.ext = NotQueued
           THEN UNCHANGED <<origins, renderer>>
           ELSE /\ origins' = origins \cup {<<upd.ext, n>>}
                /\ HandOver(upd.ext)

(* kWhatDatagram on the RTP session. A connected socket only receives from *)
(* the port it is connected to.                                            *)
RTPDatagram(n) ==
  /\ mRTPSession
  /\ rtpPeer \in {Unconnected, 0}
  /\ MayArrive(n)
  /\ ConnectOnFirst(0)
  /\ ParseRTP(n)
  /\ UNCHANGED <<mRTPSession, mRTCPSession, reportsSent>>

(* kWhatDatagram on the RTCP session: parseRTCP changes nothing.           *)
RTCPDatagram ==
  /\ mRTCPSession
  /\ rtcpPeer \in {Unconnected, 1}
  /\ ConnectOnFirst(1)
  /\ UNCHANGED <<mRTPSession, mRTCPSession, reportsSent, mSource, renderer,
                 history>>

(* kWhatError: the session is destroyed and its id forgotten.              *)
RTPError ==
  /\ mRTPSession
  /\ mRTPSession' = FALSE
  /\ UNCHANGED <<mRTCPSession, mIsConnectRemotePort, rtpPeer, rtcpPeer, reports,
                 mSource, renderer, history>>

RTCPError ==
  /\ mRTCPSession
  /\ mRTCPSession' = FALSE
  /\ UNCHANGED <<mRTPSession, mIsConnectRemotePort, rtpPeer, rtcpPeer, reports,
                 mSource, renderer, history>>

-----------------------------------------------------------------------------
(* Fault: the report is sent and not scheduled again.                      *)
OnSendRROnce ==
  /\ sendRR > 0
  /\ sendRR' = sendRR - 1
  /\ reportsSent' = IF mRTCPSession THEN 1 - reportsSent ELSE reportsSent
  /\ UNCHANGED <<sockets, mSource, renderer, history>>

(* kWhatSendRR: report on every source, send the report (to a dead session *)
(* it goes nowhere) and schedule the next one.                             *)
OnSendRR ==
  /\ sendRR > 0
  /\ reportsSent' = IF mRTCPSession THEN 1 - reportsSent ELSE reportsSent
  /\ UNCHANGED <<sockets, sendRR, mSource, renderer, history>>

(* The renderer plays a packet, see TunnelRenderer.                        *)
PlayPacket == \E e \in held : Renderer!Play(e) /\ UNCHANGED
                <<sockets, reports, mSource, history>>

Next ==
  \/ \E n \in Indices : RTPDatagram(n)
  \/ RTCPDatagram
  \/ RTPError
  \/ RTCPError
  \/ OnSendRR
  \/ PlayPacket

(* The looper delivers a delayed message when it is due.                   *)
Spec == Init /\ [][Next]_vars /\ WF_vars(OnSendRR)

-----------------------------------------------------------------------------
(* Properties                                                              *)

(* The state has the types RTPSink.h and Source declare.                   *)
TypeOK ==
  /\ mRTPSession \in BOOLEAN /\ mRTCPSession \in BOOLEAN
  /\ mIsConnectRemotePort \in BOOLEAN
  /\ rtpPeer \in Ports \cup {Unconnected} /\ rtcpPeer \in Ports \cup {Unconnected}
  /\ mSource = NoSource \/ mSource \in SourceType
  /\ sendRR \in 0..1 /\ reportsSent \in 0..1
  /\ held \subseteq Exts /\ last \in Exts \cup {-1} /\ played \in Seq(Exts)
  /\ arrived \subseteq Indices /\ copies \in 0..MaxCopies
  /\ base \in Indices /\ counted \subseteq arrived
  /\ origins \subseteq Exts \X Indices

(* Across losses, duplicates, reordering and any number of wraps, what     *)
(* addReportBlock reports is true: the highest sequence number is the      *)
(* newest packet since the source was validated, for mCycles counts every  *)
(* wrap once; and the cumulative loss never exceeds the packets that are   *)
(* missing between the first one counted and the newest.                   *)
HighestIsNewest == ExtMaxSeq(mSource) - mSource.mBaseSeq = Newest(counted) - base

LossNotOverstated ==
  CumulativeLost(mSource) <= Cardinality((base..Newest(counted)) \ counted)

ReportIsTrue == Validated => HighestIsNewest /\ LossNotOverstated

(* The packets are played in the order the sender numbered them            *)
(* ("reassembles incoming RTP packets into the correct order",             *)
(* TunnelRenderer.h:33), unless one from before a wrap of the numbers comes*)
(* after it: updateSeq numbers that one a cycle too high.                  *)
CarriedBy(e) == {o[2] : o \in {p \in origins : p[1] = e}}

PlayedInSendingOrder ==
  lateAcrossWrap \/ \A i, j \in 1..Len(played) :
    i < j => \E m \in CarriedBy(played[i]), n \in CarriedBy(played[j]) : m < n

(* There is never more than one chain of receiver reports, and it never    *)
(* runs dry: once the sockets are connected, reports go on for as long as  *)
(* the RTCP session lives.                                                 *)
ReportsGoOn ==
  \A parity \in 0..1 :
    rtcpPeer # Unconnected ~> (reportsSent = parity \/ ~mRTCPSession)

(* After a jump "the other side restarted without telling us so just       *)
(* re-sync (i.e. pretend this was the first packet)" (RTPSink.cpp:146-148):*)
(* as the first packet was, the packet is not older than what was played.  *)
ResyncedIsPlayable ==
  [][ Validated /\ base' # base => \A o \in origins' \ origins : o[1] > last ]_vars

=============================================================================
