--------------------------- MODULE TunnelRenderer ---------------------------
(***************************************************************************)
(* sink/TunnelRenderer.cpp: the jitter buffer between the RTP receiver and *)
(* the media player of the Miracast sink.                                  *)
(*                                                                         *)
(* Two threads run the code. The looper thread handles kWhatQueueBuffer    *)
(* messages; a binder thread runs onBufferAvailable when the media player  *)
(* hands an empty buffer back. Both end in StreamSource::doSomeWork, which *)
(* holds StreamSource::mLock while it calls dequeueBuffer repeatedly, and  *)
(* queueBuffer and dequeueBuffer each hold TunnelRenderer::mLock for their *)
(* whole body. So one queueBuffer or one dequeueBuffer is one step here,   *)
(* and a queueBuffer may fall between two dequeueBuffer calls of the other *)
(* thread's doSomeWork.                                                    *)
(*                                                                         *)
(* A packet is its extended sequence number and counts as one unit in      *)
(* mTotalBytesQueued. Time is counted in ticks: mFirstFailedAttempt is the *)
(* number of ticks since mFirstFailedAttemptUs was taken, Wait is the      *)
(* 50000us of line 271.                                                    *)
(***************************************************************************)
EXTENDS Integers, Sequences

CONSTANTS
  ExtSeqNos,      \* extended sequence numbers the network may deliver
  Buffers,        \* indices of the media player's buffers (mBuffers)
  Wait,           \* ticks a missing packet is waited for
  MaxArrivals     \* bound: how many packets the network delivers in all

ASSUME ExtSeqNosAssumption == ExtSeqNos \subseteq Nat
ASSUME WaitAssumption == Wait \in Nat \ {0}
ASSUME MaxArrivalsAssumption == MaxArrivals \in Nat

VARIABLES
  mPackets,                   \* the packets held, as the List of the code
  mTotalBytesQueued,
  mLastDequeuedExtSeqNo,      \* -1 before the first packet
  mFirstFailedAttempt,        \* ticks since, or NotFailing
  mRequestedRetransmission,
  mStreamSource,              \* whether initPlayer created the StreamSource
  mIndicesAvailable,          \* StreamSource's list of empty buffers
  mNumDeqeued,                \* StreamSource's count of dequeued packets
  pc,                         \* where each thread stands
  playerBuffers,              \* buffers the media player owns
  discontinuities,            \* DISCONTINUITY commands the listener received
  played,                     \* packets the listener received, in order
  lost,                       \* notifyLost messages posted, in order
  arrivals                    \* packets delivered by the network so far

renderer == <<mPackets, mTotalBytesQueued, mLastDequeuedExtSeqNo,
              mFirstFailedAttempt, mRequestedRetransmission, lost>>
stream   == <<mStreamSource, mIndicesAvailable, mNumDeqeued, playerBuffers,
              discontinuities, played>>
vars     == <<renderer, stream, pc, arrivals>>

Threads    == {"looper", "binder"}
NotFailing == -1
Ticks      == {NotFailing} \cup 0..Wait

Entries(s) == {s[i] : i \in 1..Len(s)}

Init ==
  /\ mPackets = << >>
  /\ mTotalBytesQueued = 0
  /\ mLastDequeuedExtSeqNo = -1
  /\ mFirstFailedAttempt = NotFailing
  /\ mRequestedRetransmission = FALSE
  /\ mStreamSource = FALSE
  /\ mIndicesAvailable = << >>
  /\ mNumDeqeued = 0
  /\ pc = [t \in Threads |-> "idle"]
  /\ playerBuffers = Buffers
  /\ discontinuities = 0
  /\ played = << >>
  /\ lost = << >>
  /\ arrivals = 0

-----------------------------------------------------------------------------
(* queueBuffer                                                             *)

(* The scan of queueBuffer runs from the tail down and stops after entry k *)
(* (k = 0: before the first one), the last entry not newer than e.         *)
ScanStops(s, k, e) ==
  /\ k > 0 => s[k] <= e
  /\ \A j \in k+1..Len(s) : s[j] > e

(* Fault: packets are kept in the order they arrived in.                   *)
AppendAtTail(s, k, e) == Append(s, e)

InsertAfter(s, k, e) ==
  [i \in 1..Len(s)+1 |-> IF i <= k THEN s[i] ELSE IF i = k+1 THEN e ELSE s[i-1]]

(* The packet is counted before the scan can find it a duplicate, so a     *)
(* duplicate is counted although it is not kept.                           *)
CountBytes == mTotalBytesQueued + 1

(* The looper handles kWhatQueueBuffer for packet e.                       *)
QueueBuffer(e) ==
  /\ pc["looper"] = "idle"
  /\ arrivals < MaxArrivals
  /\ arrivals' = arrivals + 1
  /\ mTotalBytesQueued' = CountBytes
  /\ \E k \in 0..Len(mPackets) :
       /\ ScanStops(mPackets, k, e)
       /\ mPackets' = IF k > 0 /\ mPackets[k] = e
                        THEN mPackets
                        ELSE InsertAfter(mPackets, k, e)
  /\ pc' = [pc EXCEPT !["looper"] = "queued"]
  /\ UNCHANGED <<mLastDequeuedExtSeqNo, mFirstFailedAttempt,
                 mRequestedRetransmission, lost, stream>>

(* The rest of the handler while there is no player: initPlayer, once some *)
(* packet is counted. It does not call doSomeWork.                         *)
InitPlayer ==
  /\ pc["looper"] = "queued"
  /\ ~mStreamSource
  /\ mStreamSource' = (mTotalBytesQueued > 0)
  /\ pc' = [pc EXCEPT !["looper"] = "idle"]
  /\ UNCHANGED <<renderer, mIndicesAvailable, mNumDeqeued, playerBuffers,
                 discontinuities, played, arrivals>>

(* The rest of the handler once the player runs: call doSomeWork.          *)
CallDoSomeWork ==
  /\ pc["looper"] = "queued"
  /\ mStreamSource
  /\ pc' = [pc EXCEPT !["looper"] = "locking"]
  /\ UNCHANGED <<renderer, stream, arrivals>>

-----------------------------------------------------------------------------
(* StreamSource                                                            *)

(* StreamSource::mLock is held exactly by the thread inside doSomeWork.    *)
StreamSourceUnlocked == \A t \in Threads : pc[t] # "working"

(* Fault: the binder thread leaves the work to the next packet.            *)
OnlyRecordBuffer(i) ==
  /\ pc["binder"] = "idle"
  /\ mStreamSource
  /\ StreamSourceUnlocked
  /\ i \in playerBuffers
  /\ playerBuffers' = playerBuffers \ {i}
  /\ mIndicesAvailable' = Append(mIndicesAvailable, i)
  /\ UNCHANGED <<renderer, mStreamSource, mNumDeqeued, discontinuities,
                 played, pc, arrivals>>

(* The media player hands buffer i back: the binder thread appends it to   *)
(* mIndicesAvailable under mLock and goes on to doSomeWork.                *)
OnBufferAvailable(i) ==
  /\ pc["binder"] = "idle"
  /\ mStreamSource
  /\ StreamSourceUnlocked
  /\ i \in playerBuffers
  /\ playerBuffers' = playerBuffers \ {i}
  /\ mIndicesAvailable' = Append(mIndicesAvailable, i)
  /\ pc' = [pc EXCEPT !["binder"] = "locking"]
  /\ UNCHANGED <<renderer, mStreamSource, mNumDeqeued, discontinuities,
                 played, arrivals>>

LockStreamSource(t) ==
  /\ pc[t] = "locking"
  /\ StreamSourceUnlocked
  /\ pc' = [pc EXCEPT ![t] = "working"]
  /\ UNCHANGED <<renderer, stream, arrivals>>

-----------------------------------------------------------------------------
(* dequeueBuffer                                                           *)

IsStale(e) == mLastDequeuedExtSeqNo >= 0 /\ e <= mLastDequeuedExtSeqNo

(* The first loop drops the first d packets: those already returned.       *)
StalePrefix(d) ==
  /\ \A i \in 1..d : IsStale(mPackets[i])
  /\ d < Len(mPackets) => ~IsStale(mPackets[d+1])

Without(d) == SubSeq(mPackets, d+1, Len(mPackets))

(* "ALooper::GetNowUs()" taken now, unless an earlier attempt failed too.  *)
NoteFailure ==
  mFirstFailedAttempt' = IF mFirstFailedAttempt = NotFailing THEN 0
                                                             ELSE mFirstFailedAttempt

(* mPackets is empty after the loop.                                       *)
NoPacket(d) ==
  /\ d = Len(mPackets)
  /\ NoteFailure
  /\ mRequestedRetransmission' =
       (mFirstFailedAttempt # NotFailing /\ mRequestedRetransmission)
  /\ UNCHANGED lost

IsExpected(e) ==
  mLastDequeuedExtSeqNo < 0 \/ e = mLastDequeuedExtSeqNo + 1

(* Fault: the request for the missing packet is repeated.                  *)
KeepsAsking(d) ==
  /\ d < Len(mPackets)
  /\ ~IsExpected(mPackets[d+1])
  /\ mFirstFailedAttempt # NotFailing
  /\ mFirstFailedAttempt < Wait
  /\ lost' = Append(lost, mLastDequeuedExtSeqNo + 1)
  /\ UNCHANGED <<mRequestedRetransmission, mFirstFailedAttempt>>

(* A later packet heads the list and this is the first failed attempt.     *)
FirstMiss(d) ==
  /\ d < Len(mPackets)
  /\ ~IsExpected(mPackets[d+1])
  /\ mFirstFailedAttempt = NotFailing
  /\ NoteFailure
  /\ UNCHANGED <<mRequestedRetransmission, lost>>

(* A later packet heads the list and its turn has not come: ask for the    *)
(* missing one, once.                                                      *)
StillWaiting(d) ==
  /\ d < Len(mPackets)
  /\ ~IsExpected(mPackets[d+1])
  /\ mFirstFailedAttempt # NotFailing
  /\ mFirstFailedAttempt < Wait
  /\ lost' = IF mRequestedRetransmission
               THEN lost ELSE Append(lost, mLastDequeuedExtSeqNo + 1)
  /\ mRequestedRetransmission' = TRUE
  /\ UNCHANGED mFirstFailedAttempt

(* dequeueBuffer returns the head: the expected packet, or a later one     *)
(* when the wait for the expected one is over.                             *)
MayReturn(d) ==
  /\ d < Len(mPackets)
  /\ \/ IsExpected(mPackets[d+1])
     \/ mFirstFailedAttempt = Wait

(* doSomeWork finds no empty buffer, or dequeueBuffer returns NULL: the    *)
(* thread drops mLock and is done.                                         *)
StopWorking(t) ==
  /\ pc[t] = "working"
  /\ \/ /\ mIndicesAvailable = << >>
        /\ UNCHANGED renderer
     \/ /\ mIndicesAvailable # << >>
        /\ \E d \in 0..Len(mPackets) :
             /\ StalePrefix(d)
             /\ NoPacket(d) \/ FirstMiss(d) \/ StillWaiting(d)
             /\ mPackets' = Without(d)
             /\ mTotalBytesQueued' = mTotalBytesQueued - d
        /\ UNCHANGED mLastDequeuedExtSeqNo
  /\ pc' = [pc EXCEPT ![t] = "idle"]
  /\ UNCHANGED <<stream, arrivals>>

(* Fault: the real time is fixed ahead of every packet.                    *)
AnyDequeue == TRUE

FirstDequeue == mNumDeqeued = 0

(* Fault: the buffer that was filled stays in the list of empty ones.      *)
KeepBuffer == mIndicesAvailable

TakeBuffer == Tail(mIndicesAvailable)

(* dequeueBuffer returns a packet: it is copied into the first empty       *)
(* buffer, which goes to the player, after one DISCONTINUITY command ahead *)
(* of the very first packet. The loop goes on.                             *)
PlayOne(t) ==
  /\ pc[t] = "working"
  /\ mIndicesAvailable # << >>
  /\ \E d \in 0..Len(mPackets) :
       /\ StalePrefix(d)
       /\ MayReturn(d)
       /\ mLastDequeuedExtSeqNo' = mPackets[d+1]
       /\ played' = Append(played, mPackets[d+1])
       /\ mPackets' = Without(d+1)
       /\ mTotalBytesQueued' = mTotalBytesQueued - (d+1)
  /\ mFirstFailedAttempt' = NotFailing
  /\ mRequestedRetransmission' = FALSE
  /\ mNumDeqeued' = mNumDeqeued + 1
  /\ discontinuities' = IF FirstDequeue THEN discontinuities + 1
                                        ELSE discontinuities
  /\ mIndicesAvailable' = TakeBuffer
  /\ playerBuffers' = playerBuffers \cup {Head(mIndicesAvailable)}
  /\ UNCHANGED <<mStreamSource, lost, pc, arrivals>>

(* Time passes. Beyond Wait the count no longer matters.                   *)
Tick ==
  /\ mFirstFailedAttempt \in 0..Wait-1
  /\ mFirstFailedAttempt' = mFirstFailedAttempt + 1
  /\ UNCHANGED <<mPackets, mTotalBytesQueued, mLastDequeuedExtSeqNo,
                 mRequestedRetransmission, lost, stream, pc, arrivals>>

-----------------------------------------------------------------------------
Thread(t) == LockStreamSource(t) \/ StopWorking(t) \/ PlayOne(t)

Looper == InitPlayer \/ CallDoSomeWork

Next ==
  \/ \E e \in ExtSeqNos : QueueBuffer(e)
  \/ Looper
  \/ \E i \in Buffers : OnBufferAvailable(i)
  \/ \E t \in Threads : Thread(t)
  \/ Tick

Spec == Init /\ [][Next]_vars

(* The scheduler runs each thread that can run, and the player returns     *)
(* every buffer it owns. Nothing makes packets arrive.                     *)
Fairness ==
  /\ WF_vars(Looper)
  /\ \A t \in Threads : SF_vars(LockStreamSource(t))
  /\ \A t \in Threads : WF_vars(StopWorking(t) \/ PlayOne(t))
  /\ \A i \in Buffers : SF_vars(OnBufferAvailable(i))
  /\ WF_vars(Tick)

FairSpec == Spec /\ Fairness

-----------------------------------------------------------------------------
(* Properties                                                              *)

StrictlyAscending(s) == \A i, j \in 1..Len(s) : i < j => s[i] < s[j]

(* The state components have the types the declarations in                 *)
(* TunnelRenderer.h and StreamSource give them.                            *)
TypeOK ==
  /\ mPackets \in Seq(ExtSeqNos)
  /\ mTotalBytesQueued \in Nat
  /\ mLastDequeuedExtSeqNo \in ExtSeqNos \cup {-1}
  /\ mFirstFailedAttempt \in Ticks
  /\ mRequestedRetransmission \in BOOLEAN
  /\ mStreamSource \in BOOLEAN
  /\ mIndicesAvailable \in Seq(Buffers)
  /\ mNumDeqeued \in Nat
  /\ pc \in [Threads -> {"idle", "queued", "locking", "working"}]
  /\ playerBuffers \in SUBSET Buffers
  /\ discontinuities \in 0..1
  /\ played \in Seq(ExtSeqNos)
  /\ lost \in Seq(Nat)
  /\ arrivals \in 0..MaxArrivals

(* However packets are lost, duplicated and reordered on the way, and      *)
(* whichever thread dequeues, the listener receives each packet at most    *)
(* once and in the order of the extended sequence numbers.                 *)
PlayedInOrder == StrictlyAscending(played)

(* mTotalBytesQueued never falls below what is held: the test that starts  *)
(* the player (line 315) cannot miss a packet that waits.                  *)
BytesCoverQueue == mTotalBytesQueued >= Len(mPackets)

(* The packet waited for is held, beside an empty buffer. A later packet   *)
(* is not due even when the wait for its predecessor is over: no timer     *)
(* calls doSomeWork then, and it stays until a packet or a buffer comes.   *)
Due ==
  /\ mStreamSource
  /\ mIndicesAvailable # << >>
  /\ \E d \in 0..Len(mPackets) : StalePrefix(d) /\ d < Len(mPackets)
                                                  /\ IsExpected(mPackets[d+1])

(* No wakeup is lost between the two threads. When neither is inside a     *)
(* handler and a buffer is empty, the packet waited for is not held, and   *)
(* dequeueBuffer has found so since it last returned a packet, so that the *)
(* wait runs: a later packet stays only because its predecessor misses,    *)
(* though possibly for longer than Wait, see Due.                          *)
NoWorkForgotten ==
  (\A t \in Threads : pc[t] = "idle") =>
    /\ ~Due
    /\ mIndicesAvailable # << >> => mFirstFailedAttempt # NotFailing

(* No packet is asked for twice, requests go up, and one that is open is   *)
(* for the packet waited for.                                              *)
AskedOnceForMissing ==
  /\ StrictlyAscending(lost)
  /\ mRequestedRetransmission =>
       /\ lost # << >> /\ lost[Len(lost)] = mLastDequeuedExtSeqNo + 1
       /\ mFirstFailedAttempt # NotFailing

(* A media buffer is never handed out twice: it is with the player or once *)
(* in mIndicesAvailable, so no frame is overwritten before it is played.   *)
BuffersConserved ==
  /\ \A i, j \in 1..Len(mIndicesAvailable) :
       mIndicesAvailable[i] = mIndicesAvailable[j] => i = j
  /\ Entries(mIndicesAvailable) = Buffers \ playerBuffers

(* While the player returns its buffers, the packet waited for is played   *)
(* once it is held: the two threads do not wait for each other. The very   *)
(* first one is too, although initPlayer does not call doSomeWork. A later *)
(* packet whose predecessor never comes is not promised, see Due.          *)
DueIsPlayed == []<>~Due

Ahead == {e \in Entries(mPackets) : ~IsStale(e)}

(* The abstract promise holds the packets that are still ahead.            *)
Abstract == INSTANCE ReorderBuffer WITH
              held <- Ahead,
              last <- mLastDequeuedExtSeqNo

(* Every step of the renderer is a step of the reorder buffer, or none: a  *)
(* packet that arrived ahead of the player leaves the list only to be      *)
(* played, oldest first, and neither the stale loop nor a gap given up     *)
(* discards one.                                                           *)
Reassembles == Abstract!Spec

-----------------------------------------------------------------------------
(* What makes the invariants above inductive                               *)

(* The real time is fixed once, with the first packet dequeued.            *)
FixedOnce == discontinuities = IF mNumDeqeued = 0 THEN 0 ELSE 1

(* queueBuffer keeps the list sorted and free of duplicates.               *)
Sorted == StrictlyAscending(mPackets)

(* mLastDequeuedExtSeqNo is never behind the player.                       *)
PlayedUpToLast == \A i \in 1..Len(played) : played[i] <= mLastDequeuedExtSeqNo

(* Retransmissions asked for never run ahead of the packet waited for.     *)
AskedUpToNext ==
  \A i \in 1..Len(lost) :
    lost[i] <= mLastDequeuedExtSeqNo + (IF mRequestedRetransmission THEN 1 ELSE 0)

(* Until there is a player no buffer comes back and nobody dequeues.       *)
PlayerComesFirst ==
  ~mStreamSource => /\ mIndicesAvailable = << >>
                    /\ pc["binder"] = "idle"
                    /\ pc["looper"] \in {"idle", "queued"}

IInv ==
  /\ TypeOK /\ BytesCoverQueue /\ FixedOnce
  /\ Sorted /\ PlayedInOrder /\ PlayedUpToLast
  /\ AskedOnceForMissing /\ AskedUpToNext
  /\ NoWorkForgotten /\ PlayerComesFirst
  /\ BuffersConserved

=============================================================================
