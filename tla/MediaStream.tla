----------------------------- MODULE MediaStream -----------------------------
(***************************************************************************)
(* The media path from an encoded access unit to the player of the sink:   *)
(* PlaybackSession::drainAccessUnit has TSPacketizer cut the unit up and   *)
(* Sender send it, a network loses and reorders, RTPSink numbers what      *)
(* arrives (RtpSource), TunnelRenderer plays it in order and asks for what *)
(* is missing, and Sender sends that again.                                *)
(*                                                                         *)
(* The sink's end runs on one looper. At the source, packetize runs on the *)
(* looper of the playback session and Sender on one of its own, which meet *)
(* only in the packets that are handed over: their handlers take turns     *)
(* here. The renderer's work is driven by arrivals only: the player is     *)
(* quick and all its buffers are empty, so that nothing comes back from it *)
(* (TunnelRenderer has the case where buffers run short).                  *)
(*                                                                         *)
(* Two facts about time are assumed, each where it is used: a datagram is  *)
(* overtaken by at most MaxLate later ones, and a packet that was asked    *)
(* for is back, if it comes at all, within the 50ms of line 271.           *)
(***************************************************************************)
EXTENDS TSPacketizer, Sender, RtpSource

CONSTANTS
  Plans,          \* each a sequence of access units: [track, size, extra,
                  \* tables]
  TrackKinds,     \* the kinds of the tracks, in the order they are added
  MaxLate,        \* packets that may overtake a datagram
  MaxAhead,       \* bound: RTP packets under way when a unit is encoded
  MaxFaults       \* bound: datagrams and NACKs lost, and socket errors

(* Source and sink number modulo the same 65536.                           *)
ASSUME SeqModIsWireMod == SeqMod = WireMod

(* Encoders and PCM blocks deliver audio that fits the PES length field.   *)
AccessUnits ==
  {unit \in [track : 1..Len(TrackKinds), size : Nat, extra : 0..170, tables : BOOLEAN] :
     PESLength(unit.size, unit.extra) < 65536 \/ IsVideo(TrackKinds[unit.track])}

ASSUME StreamAssumption ==
  /\ MaxLate \in Nat /\ MaxAhead \in Nat /\ MaxFaults \in Nat
  /\ TrackKinds \in Seq(Kinds)
  /\ Plans \subseteq Seq(AccessUnits)

VARIABLES
  todo,                     \* the access units not handed over yet
  mSource,                  \* the Source of the stream at the sink
  held,                     \* mPackets: [ext, p] for the packets held
  last,                     \* mLastDequeuedExtSeqNo
  working,                  \* doSomeWork runs
  mFirstFailedAttempt,      \* "none", "recent" or "over": 50ms have passed
  mRequestedRetransmission,
  nacks,                    \* NACKs under way, by the packet they ask for
  faults,                   \* how many there have been
  asked,                    \* history: packets asked for
  newest,                   \* history: the packet mMaxSeq is the number of
  inWindows,                \* history: all packets have come in the windows
                            \* in which their numbers can be told
  gone,                     \* history: packets that will not come any more
  played,                   \* history: packets played
  decoded                   \* history: the transport stream packets played
                            \* since the last packet given up

rendererVars == <<held, last, working, mFirstFailedAttempt,
                  mRequestedRetransmission, nacks, asked, played, decoded>>
sinkVars == <<mSource, rendererVars>>
fate     == <<faults, gone, newest, inWindows>>
vars     == <<tsVars, senderVars, todo, sinkVars, fate>>

NoSource == [mProbation |-> -1]

Init ==
  /\ TSInit /\ SenderInit
  /\ todo \in Plans
  /\ mSource = NoSource
  /\ held = {} /\ last = -1
  /\ working = FALSE
  /\ mFirstFailedAttempt = "none" /\ mRequestedRetransmission = FALSE
  /\ nacks = {}
  /\ faults = 0
  /\ asked = {} /\ gone = {} /\ played = {}
  /\ newest = -1 /\ inWindows = TRUE
  /\ decoded = << >>

-----------------------------------------------------------------------------
(* The source                                                              *)

Running == job = NoJob /\ ~failed

(* onFinishPlay2, when init() has found its ports: sender reports are      *)
(* scheduled. Without its RTCP session scheduleSendSR does nothing.        *)
Start ==
  /\ mRTPPort # 0
  /\ Len(mTracks) = 0
  /\ ScheduleSR
  /\ UNCHANGED <<tsVars, todo, sinkVars, fate>>

(* And the converters are started, reports or none: a track's first access *)
(* unit has its track added.                                               *)
AddNextTrack ==
  /\ mRTPPort # 0
  /\ mSendSRPending \/ ~mRTCPSessionID
  /\ Len(mTracks) < Len(TrackKinds)
  /\ AddTrack(TrackKinds[Len(mTracks) + 1])
  /\ UNCHANGED <<senderVars, todo, sinkVars, fate>>

(* drainAccessUnit, once all tracks have their packetizer index.           *)
DrainAccessUnit ==
  /\ Len(mTracks) = Len(TrackKinds)
  /\ todo # << >>
  /\ Cardinality(air) + Len(drains) <= MaxAhead
  /\ LET unit == Head(todo)
     IN  Packetize(unit.track, unit.size, unit.extra, unit.tables)
  /\ todo' = Tail(todo)
  /\ UNCHANGED <<senderVars, sinkVars, fate>>

Fragment == NextFragment /\ UNCHANGED <<senderVars, todo, sinkVars, fate>>

(* packetize returns, and the packets go to the Sender.                    *)
HandOver ==
  /\ Finish
  /\ QueuePackets(job.packets)
  /\ UNCHANGED <<todo, sinkVars, fate>>

DrainQueue ==
  /\ Running /\ OnDrainQueue
  /\ UNCHANGED <<tsVars, todo, sinkVars, fate>>

Report ==
  /\ Running
  /\ OnSendSR
  /\ UNCHANGED <<tsVars, todo, sinkVars, fate>>

OpenSockets == TryPorts /\ UNCHANGED <<tsVars, todo, sinkVars, fate>>

(* A socket fails. What is still to be sent or asked for is lost with it.  *)
SocketFails ==
  /\ Running /\ faults < MaxFaults
  /\ faults' = faults + 1
  /\ \/ \E send \in BOOLEAN : RTPError(send)
     \/ RTCPError
  /\ UNCHANGED <<tsVars, todo, sinkVars, gone, newest, inWindows>>

Copies(n) == {d \in air : d.p.n = n}

(* The number of RTP packets sent, and what the history promises: the      *)
(* packets sent last, as many as it has room for.                          *)
Sent == IF drains = << >> THEN mRTPSeqNo ELSE Head(drains)[1].n
Kept(n) == n < Sent /\ Sent - n <= MaxHistoryLength

(* The source gets the NACK. Without its sockets, or too late for its      *)
(* history, it cannot send the packet again.                               *)
NackArrives(n) ==
  /\ Running
  /\ n \in nacks
  /\ nacks' = nacks \ {n}
  /\ \/ OnNack(n % WireMod, {})
     \/ ~mRTCPSessionID /\ UNCHANGED senderVars
  /\ gone' = IF (mRTCPSessionID /\ mRTPSessionID /\ Kept(n)) \/ Copies(n) # {}
               THEN gone ELSE gone \cup {n}
  /\ UNCHANGED <<tsVars, todo, mSource, held, last, working,
                 mFirstFailedAttempt, mRequestedRetransmission, asked, played,
                 decoded, faults, newest, inWindows>>

-----------------------------------------------------------------------------
(* The network                                                             *)

Validated == mSource # NoSource /\ mSource.mProbation = 0

(* Packets whose number 16 bits and a count of wraps can tell: those less  *)
(* than MaxDropout ahead of the newest, or less than MaxMisorder behind    *)
(* and from after the last wrap. One from before it is counted into the    *)
(* cycle after it (RTPSink.cpp:160), and one out of the windows is taken   *)
(* for a jump, after which the cycles are counted anew.                    *)
InWindow(n) ==
  IF Validated
    THEN /\ n - newest < MaxDropout /\ newest - n < MaxMisorder
         /\ n \div WireMod >= newest \div WireMod
    ELSE n < WireMod

(* Datagram d is no longer under way and the sink did not get its packet,  *)
(* which is gone when the sink has asked for it already and nothing else   *)
(* of it is under way.                                                     *)
GoneWith(d) ==
  IF d.p.n \in asked \ nacks /\ Copies(d.p.n) = {d}
    THEN gone \cup {d.p.n} ELSE gone

(* The datagram is lost.                                                   *)
Lose(d) ==
  /\ faults < MaxFaults
  /\ faults' = faults + 1
  /\ air' = air \ {d}
  /\ gone' = GoneWith(d)
  /\ UNCHANGED <<tsVars, sockets, queues, mHistory, reports, sessionsDead,
                 todo, sinkVars, newest, inWindows>>

LoseNack(n) ==
  /\ n \in nacks
  /\ faults < MaxFaults
  /\ faults' = faults + 1
  /\ nacks' = nacks \ {n}
  /\ gone' = IF Copies(n) = {} THEN gone \cup {n} ELSE gone
  /\ UNCHANGED <<tsVars, senderVars, todo, mSource, held, last, working,
                 mFirstFailedAttempt, mRequestedRetransmission, asked, played,
                 decoded, newest, inWindows>>

(* What parseRTP makes of packet n: the state of the source after it and   *)
(* the extended number the packet is queued under.                         *)
Taken(n) ==
  LET seq == n % WireMod
  IN  IF mSource = NoSource THEN NewSource(seq) ELSE UpdateSeq(mSource, seq)

(* queueBuffer keeps what is not held under the same number.               *)
Insert(h) == IF \E g \in held : g.ext = h.ext THEN held ELSE held \cup {h}

(* The sink's looper: parseRTP numbers the packet, queueBuffer takes it in *)
(* and doSomeWork is called. A packet that is dropped, or held under       *)
(* another number, does not fill the gap the sink asked for.               *)
Arrive(d) ==
  /\ ~working
  /\ \A e \in air : d.p.n - e.p.n <= MaxLate
  /\ LET upd == Taken(d.p.n)
     IN  /\ mSource' = upd.src
         /\ IF upd.ext = NotQueued
              THEN UNCHANGED <<held, working>>
              ELSE /\ held' = Insert([ext |-> upd.ext, p |-> d.p])
                   /\ working' = TRUE
  /\ gone' = IF [ext |-> d.p.n, p |-> d.p] \in held' THEN gone ELSE GoneWith(d)
  /\ newest' = IF Validated /\ mSource'.mMaxSeq = mSource.mMaxSeq
                 THEN newest ELSE d.p.n
  /\ inWindows' = (inWindows /\ InWindow(d.p.n))
  /\ air' = air \ {d}
  /\ UNCHANGED <<tsVars, sockets, queues, mHistory, reports, sessionsDead, todo,
                 last, mFirstFailedAttempt, mRequestedRetransmission, nacks,
                 asked, played, decoded, faults>>

-----------------------------------------------------------------------------
(* The renderer                                                            *)

Fresh == {h \in held : h.ext > last}
Oldest(S) == CHOOSE h \in S : \A g \in S : h.ext <= g.ext
IsNext == last < 0 \/ Oldest(Fresh).ext = last + 1

(* A packet given up leaves a gap, after which the decoder starts anew.    *)
Decode(h) == IF IsNext THEN decoded \o h.p.ts ELSE h.p.ts

(* dequeueBuffer returns a packet: the expected one, or the oldest there   *)
(* is when the wait is over.                                               *)
PlayOldest ==
  /\ working /\ Fresh # {}
  /\ IsNext \/ mFirstFailedAttempt = "over"
  /\ LET h == Oldest(Fresh)
     IN  /\ held' = Fresh \ {h}
         /\ last' = h.ext
         /\ played' = played \cup {h.p.n}
         /\ decoded' = Decode(h)
  /\ mFirstFailedAttempt' = "none" /\ mRequestedRetransmission' = FALSE
  /\ UNCHANGED <<tsVars, senderVars, todo, mSource, working, nacks, asked,
                 fate>>

(* dequeueBuffer returns NULL: for want of packets, or of the next one,    *)
(* which the second attempt asks for. The sink names it by its sequence    *)
(* number; the sender numbers from 0, so it is packet last + 1.            *)
Miss ==
  /\ working
  /\ working' = FALSE
  /\ held' = Fresh
  /\ \/ /\ Fresh = {}
        /\ mFirstFailedAttempt = "none"
        /\ mFirstFailedAttempt' = "recent" /\ mRequestedRetransmission' = FALSE
        /\ UNCHANGED <<nacks, asked>>
     \/ /\ Fresh = {}
        /\ mFirstFailedAttempt # "none"
        /\ UNCHANGED <<mFirstFailedAttempt, mRequestedRetransmission, nacks,
                       asked>>
     \/ /\ Fresh # {} /\ ~IsNext
        /\ mFirstFailedAttempt = "none"
        /\ mFirstFailedAttempt' = "recent"
        /\ UNCHANGED <<mRequestedRetransmission, nacks, asked>>
     \/ /\ Fresh # {} /\ ~IsNext
        /\ mFirstFailedAttempt = "recent"
        /\ mRequestedRetransmission' = TRUE
        /\ nacks' = IF mRequestedRetransmission THEN nacks
                                                ELSE nacks \cup {last + 1}
        /\ asked' = asked \cup {last + 1}
        /\ UNCHANGED mFirstFailedAttempt
  /\ UNCHANGED <<tsVars, senderVars, todo, mSource, last, played, decoded,
                 fate>>

(* The 50ms since the first failed attempt pass, but not while a packet    *)
(* asked for is being asked for or coming back.                            *)
WaitIsOver ==
  /\ mFirstFailedAttempt = "recent"
  /\ mRequestedRetransmission => nacks = {} /\ Copies(last + 1) = {}
  /\ mFirstFailedAttempt' = "over"
  /\ UNCHANGED <<tsVars, senderVars, todo, mSource, held, last, working,
                 mRequestedRetransmission, nacks, asked, played, decoded,
                 fate>>

SourceStep ==
  \/ OpenSockets \/ Start \/ AddNextTrack \/ DrainAccessUnit \/ Fragment \/ HandOver
  \/ DrainQueue
NetworkStep ==
  \/ \E d \in air : Arrive(d)
  \/ \E n \in nacks : NackArrives(n)
RendererStep == PlayOldest \/ Miss
Losses ==
  \/ \E d \in air : Lose(d)
  \/ \E n \in nacks : LoseNack(n)

Next ==
  \/ SourceStep \/ Report \/ SocketFails
  \/ NetworkStep \/ Losses
  \/ RendererStep \/ WaitIsOver

(* A looper runs the messages posted to it, and what the network does not  *)
(* lose it delivers, NACKs and datagrams independently of each other.      *)
Fairness ==
  /\ WF_vars(SourceStep)
  /\ WF_vars(\E d \in air : Arrive(d))
  /\ WF_vars(\E n \in nacks : NackArrives(n))
  /\ WF_vars(RendererStep)

Spec == Init /\ [][Next]_vars /\ Fairness

-----------------------------------------------------------------------------
(* Properties                                                              *)

(* The state has the types the headers declare, and one chain of sender    *)
(* reports runs at most.                                                   *)
TypeOK ==
  /\ SenderTypeOK
  /\ \A t \in 1..Len(mTracks) : mTracks[t].cc \in Counters
  /\ mPATContinuityCounter \in Counters /\ mPMTContinuityCounter \in Counters
  /\ mSource = NoSource \/ mSource \in SourceType
  /\ last \in {-1} \cup Nat /\ newest \in {-1} \cup Nat
  /\ mFirstFailedAttempt \in {"none", "recent", "over"}
  /\ faults \in 0..MaxFaults

(* updateSeq gives every packet the number it was sent with, across losses,*)
(* reordering, retransmissions and any number of wraps, as long as all     *)
(* have come in the windows. The first one out of them ends that: even a   *)
(* packet that is merely overtaken by one from after a wrap, as packet     *)
(* 65535 is when it is sent again, is numbered a cycle too high.           *)
WellNumbered ==
  \A d \in air : Arrive(d) /\ inWindows' => Taken(d.p.n).ext = d.p.n

NumberedAsSent == [][WellNumbered]_vars

(* Between two packets given up the player gets, on every PID, continuity  *)
(* counters that go up by one, across units, RTP packets, retransmissions  *)
(* and wraps, as long as all have come in the windows: one from before a   *)
(* wrap that comes after it is played a cycle later, in the place of       *)
(* another. The clock's packets carry no data and do not count.            *)
Follows(i, j) ==
  /\ decoded[i].pid = decoded[j].pid
  /\ \A k \in i+1..j-1 : decoded[k].pid # decoded[i].pid

Continuous ==
  inWindows =>
    \A i, j \in 1..Len(decoded) :
      i < j /\ Follows(i, j) /\ decoded[i].pid # PCR =>
        decoded[j].cc = Step(decoded[i].cc)

(* A packet the sink asked for is played, unless the request or the answer *)
(* is lost too, the Sender no longer has it or lost its socket, or the     *)
(* sink does not take it under the number it asked for: it came so late    *)
(* that it is taken for a jump, or it is from before a wrap.               *)
LostIsRecovered == []<>(asked \subseteq played \cup gone)

=============================================================================
