------------------------ MODULE TunnelRendererProofs ------------------------
(***************************************************************************)
(* Proofs about TunnelRenderer: for every set of sequence numbers, every   *)
(* set of media buffers, every wait and every number of arrivals.          *)
(***************************************************************************)
EXTENDS TunnelRenderer, TLAPS

-----------------------------------------------------------------------------
(* The packet list                                                         *)

(* Sequence numbers compare as numbers.                                    *)
LEMMA ExtSeqNosNat == ASSUME NEW e \in ExtSeqNos PROVE e \in Nat
  BY ExtSeqNosAssumption

(* A packet is held exactly when it stands somewhere in the list.          *)
LEMMA EntriesMembers ==
  ASSUME NEW s, NEW x
  PROVE  x \in Entries(s) <=> \E i \in 1..Len(s) : x = s[i]
  BY DEF Entries

(* The list with one more packet is a list of packets, one longer.         *)
LEMMA InsertAfterType ==
  ASSUME NEW s \in Seq(ExtSeqNos), NEW e \in ExtSeqNos, NEW k \in 0..Len(s)
  PROVE  /\ InsertAfter(s, k, e) \in Seq(ExtSeqNos)
         /\ Len(InsertAfter(s, k, e)) = Len(s) + 1
<1>1. Len(s) \in Nat /\ \A i \in 1..Len(s) : s[i] \in ExtSeqNos
  OBVIOUS
<1> QED BY <1>1 DEF InsertAfter

(* queueBuffer keeps the list sorted and free of duplicates, and adds the  *)
(* new packet and nothing else.                                            *)
LEMMA InsertAfterSorted ==
  ASSUME NEW s \in Seq(ExtSeqNos), StrictlyAscending(s),
         NEW e \in ExtSeqNos, NEW k \in 0..Len(s), ScanStops(s, k, e),
         ~(k > 0 /\ s[k] = e)
  PROVE  /\ InsertAfter(s, k, e) \in Seq(ExtSeqNos)
         /\ Len(InsertAfter(s, k, e)) = Len(s) + 1
         /\ StrictlyAscending(InsertAfter(s, k, e))
         /\ Entries(InsertAfter(s, k, e)) = Entries(s) \cup {e}
<1> DEFINE r == InsertAfter(s, k, e)
<1>a. Len(s) \in Nat /\ \A i \in 1..Len(s) : s[i] \in ExtSeqNos
  OBVIOUS
<1>1. /\ Len(s) \in Nat
      /\ \A i \in 1..Len(s) : s[i] \in ExtSeqNos /\ s[i] \in Nat
  BY <1>a, ExtSeqNosNat
<1>2. r \in Seq(ExtSeqNos) /\ Len(r) = Len(s) + 1
  BY <1>1 DEF InsertAfter
<1>3. /\ \A i \in 1..k : r[i] = s[i]
      /\ r[k+1] = e
      /\ \A i \in k+2..Len(s)+1 : r[i] = s[i-1]
  BY <1>1 DEF InsertAfter
<1> HIDE DEF r
<1>4. \A i \in 1..k : s[i] < e
  <2> SUFFICES ASSUME NEW i \in 1..k PROVE s[i] < e
    OBVIOUS
  <2>1. i \in 1..Len(s) /\ k \in 1..Len(s) /\ s[k] <= e /\ s[k] # e
    BY <1>1 DEF ScanStops
  <2>2. s[i] <= s[k]
    BY <2>1, <1>1 DEF StrictlyAscending
  <2> QED BY <2>1, <2>2, <1>1, ExtSeqNosNat
<1>5. ASSUME NEW i \in 1..Len(s)+1, NEW j \in 1..Len(s)+1, i < j
      PROVE  r[i] < r[j]
  <2>1. ASSUME NEW n \in 1..Len(s), NEW m \in 1..Len(s), n < m
        PROVE  s[n] < s[m]
    BY <2>1 DEF StrictlyAscending
  <2>2. CASE j <= k
    <3>1. i \in 1..k /\ j \in 1..k
      BY <2>2, <1>1, <1>5
    <3> QED BY <3>1, <2>1, <1>1, <1>3, <1>5
  <2>3. CASE j = k+1
    <3>1. i \in 1..k
      BY <2>3, <1>1, <1>5
    <3> QED BY <3>1, <2>3, <1>3, <1>4
  <2>4. CASE j > k+1
    <3>1. j-1 \in k+1..Len(s) /\ r[j] = s[j-1]
      BY <2>4, <1>1, <1>3
    <3>2. CASE i <= k
      <4>1. i \in 1..k /\ i \in 1..Len(s) /\ j-1 \in 1..Len(s) /\ i < j-1
        BY <3>1, <3>2, <2>4, <1>1
      <4> QED BY <4>1, <3>1, <2>1, <1>3
    <3>3. CASE i = k+1
      BY <3>1, <3>3, <1>1, <1>3 DEF ScanStops
    <3>4. CASE i > k+1
      <4>1. /\ i-1 \in 1..Len(s) /\ j-1 \in 1..Len(s) /\ i-1 < j-1
            /\ i \in k+2..Len(s)+1
        BY <3>1, <3>4, <1>1, <1>5
      <4> QED BY <4>1, <3>1, <2>1, <1>3
    <3> QED BY <3>2, <3>3, <3>4, <1>1
  <2> QED BY <2>2, <2>3, <2>4, <1>1
<1>5a. StrictlyAscending(r)
  BY <1>2, <1>5 DEF StrictlyAscending
<1>6. ASSUME NEW x PROVE x \in Entries(r) => x \in Entries(s) \cup {e}
  <2> SUFFICES ASSUME NEW i \in 1..Len(r) PROVE r[i] \in Entries(s) \cup {e}
    BY EntriesMembers
  <2>1. CASE i <= k
    BY <2>1, <1>1, <1>3, EntriesMembers
  <2>2. CASE i = k+1
    BY <2>2, <1>3
  <2>3. CASE i > k+1
    <3>1. i-1 \in 1..Len(s) /\ i \in k+2..Len(s)+1
      BY <2>3, <1>1, <1>2
    <3>2. r[i] = s[i-1]
      BY <3>1, <1>3
    <3> QED BY <3>1, <3>2, EntriesMembers
  <2> QED BY <2>1, <2>2, <2>3, <1>1, <1>2
<1>7. ASSUME NEW x PROVE x \in Entries(s) \cup {e} => x \in Entries(r)
  <2>1. e \in Entries(r)
    <3>1. k+1 \in 1..Len(r)
      BY <1>1, <1>2
    <3> QED BY <3>1, <1>3, EntriesMembers
  <2>2. ASSUME NEW i \in 1..Len(s) PROVE s[i] \in Entries(r)
    <3>1. CASE i <= k
      <4>1. i \in 1..Len(r) /\ i \in 1..k
        BY <3>1, <1>1, <1>2
      <4> QED BY <4>1, <1>3, EntriesMembers
    <3>2. CASE i > k
      <4>1. i+1 \in k+2..Len(s)+1 /\ i+1 \in 1..Len(r) /\ i+1-1 = i
        BY <3>2, <1>1, <1>2
      <4> QED BY <4>1, <1>3, EntriesMembers
    <3> QED BY <3>1, <3>2, <1>1
  <2> QED BY <2>1, <2>2, EntriesMembers
<1>8. Entries(r) = Entries(s) \cup {e}
  BY <1>6, <1>7
<1> QED BY <1>2, <1>5a, <1>8 DEF r

(* What a sequence becomes when a larger number is appended to it.         *)
LEMMA AppendSorted ==
  ASSUME NEW s \in Seq(ExtSeqNos), StrictlyAscending(s),
         NEW e \in ExtSeqNos, \A i \in 1..Len(s) : s[i] < e
  PROVE  StrictlyAscending(Append(s, e))
  BY DEF StrictlyAscending

(* mLastDequeuedExtSeqNo is -1 or a sequence number, so it can be compared *)
(* with one.                                                               *)
LEMMA LastRange ==
  ASSUME TypeOK
  PROVE  mLastDequeuedExtSeqNo \in Int /\ mLastDequeuedExtSeqNo >= -1
  BY ExtSeqNosNat DEF TypeOK
-----------------------------------------------------------------------------
(* Types and counters                                                      *)

TypeInv == TypeOK /\ BytesCoverQueue /\ FixedOnce

(* TypeOK needs BytesCoverQueue: mTotalBytesQueued stays a natural number  *)
(* because what dequeueBuffer subtracts was counted when it was queued.    *)
LEMMA TypeInvInit == Init => TypeInv
<1> SUFFICES ASSUME Init PROVE TypeInv
  OBVIOUS
<1>1. pc \in [Threads -> {"idle", "queued", "locking", "working"}]
  BY DEF Init
<1>2. Len(mPackets) = 0
  BY DEF Init
<1>3. /\ mPackets \in Seq(ExtSeqNos) /\ mIndicesAvailable \in Seq(Buffers)
      /\ played \in Seq(ExtSeqNos) /\ lost \in Seq(Nat)
  BY DEF Init
<1>4. mFirstFailedAttempt \in Ticks /\ arrivals \in 0..MaxArrivals
  BY MaxArrivalsAssumption DEF Init, Ticks, NotFailing
<1>5. /\ mTotalBytesQueued = 0 /\ mNumDeqeued = 0 /\ discontinuities = 0
      /\ mLastDequeuedExtSeqNo = -1 /\ mRequestedRetransmission = FALSE
      /\ mStreamSource = FALSE /\ playerBuffers = Buffers
  BY DEF Init
<1>6. BytesCoverQueue /\ FixedOnce
  BY <1>2, <1>5 DEF BytesCoverQueue, FixedOnce
<1>7. TypeOK
  <2>1. /\ mTotalBytesQueued \in Nat /\ mNumDeqeued \in Nat
        /\ discontinuities \in 0..1
        /\ mLastDequeuedExtSeqNo \in ExtSeqNos \cup {-1}
    BY <1>5
  <2>2. /\ mRequestedRetransmission \in BOOLEAN /\ mStreamSource \in BOOLEAN
        /\ playerBuffers \in SUBSET Buffers
    BY <1>5
  <2> QED BY <1>1, <1>3, <1>4, <2>1, <2>2 DEF TypeOK
<1> QED BY <1>6, <1>7 DEF TypeInv

(* Every step keeps the types: one step per action, by the conjuncts it    *)
(* can disturb.                                                            *)
LEMMA TypeInvStep == TypeInv /\ [Next]_vars => TypeInv'
<1> SUFFICES ASSUME TypeInv, [Next]_vars PROVE TypeInv'
  OBVIOUS
<1> USE ExtSeqNosAssumption, WaitAssumption, MaxArrivalsAssumption
<1> USE DEF TypeInv
<1>1. ASSUME NEW e \in ExtSeqNos, QueueBuffer(e) PROVE TypeInv'
  <2>1. PICK k \in 0..Len(mPackets) :
          /\ ScanStops(mPackets, k, e)
          /\ mPackets' = IF k > 0 /\ mPackets[k] = e
                           THEN mPackets
                           ELSE InsertAfter(mPackets, k, e)
    BY <1>1 DEF QueueBuffer
  <2>2. mPackets' \in Seq(ExtSeqNos) /\ Len(mPackets') <= Len(mPackets) + 1
    <3>1. CASE k > 0 /\ mPackets[k] = e
      BY <3>1, <2>1 DEF TypeOK
    <3>2. CASE ~(k > 0 /\ mPackets[k] = e)
      BY <3>2, <2>1, InsertAfterType DEF TypeOK
    <3> QED BY <3>1, <3>2
  <2>3. BytesCoverQueue' /\ mTotalBytesQueued' \in Nat
    BY <1>1, <2>2 DEF QueueBuffer, CountBytes, TypeOK, BytesCoverQueue
  <2> QED
    BY <1>1, <2>2, <2>3
    DEF QueueBuffer, TypeOK, FixedOnce, stream, Threads
<1>2. CASE InitPlayer
  BY <1>2 DEF InitPlayer, TypeOK, BytesCoverQueue, FixedOnce, renderer, Threads
<1>3. CASE CallDoSomeWork
  BY <1>3 DEF CallDoSomeWork, TypeOK, BytesCoverQueue, FixedOnce, renderer,
              stream, Threads
<1>4. ASSUME NEW i \in Buffers, OnBufferAvailable(i) PROVE TypeInv'
  BY <1>4 DEF OnBufferAvailable, TypeOK, BytesCoverQueue, FixedOnce, renderer,
              Threads
<1>5. ASSUME NEW t \in Threads, LockStreamSource(t) PROVE TypeInv'
  BY <1>5 DEF LockStreamSource, TypeOK, BytesCoverQueue, FixedOnce, renderer,
              stream, Threads
<1>6. ASSUME NEW t \in Threads, StopWorking(t) PROVE TypeInv'
  <2>1. CASE UNCHANGED renderer
    BY <1>6, <2>1 DEF StopWorking, TypeOK, BytesCoverQueue, FixedOnce,
                      renderer, stream, Threads
  <2>2. CASE ~UNCHANGED renderer
    <3>1. PICK d \in 0..Len(mPackets) :
            /\ NoPacket(d) \/ FirstMiss(d) \/ StillWaiting(d)
            /\ mPackets' = Without(d)
            /\ mTotalBytesQueued' = mTotalBytesQueued - d
            /\ UNCHANGED mLastDequeuedExtSeqNo
      BY <1>6, <2>2 DEF StopWorking
    <3>2. /\ mPackets' \in Seq(ExtSeqNos)
          /\ Len(mPackets') = Len(mPackets) - d
      BY <3>1 DEF TypeOK, Without
    <3>3. BytesCoverQueue' /\ mTotalBytesQueued' \in Nat
      BY <3>1, <3>2 DEF TypeOK, BytesCoverQueue
    <3>4. /\ mFirstFailedAttempt' \in Ticks
          /\ mRequestedRetransmission' \in BOOLEAN
          /\ lost' \in Seq(Nat)
      <4>1. CASE NoPacket(d)
        BY <4>1 DEF NoPacket, NoteFailure, TypeOK, Ticks, NotFailing
      <4>2. CASE FirstMiss(d)
        BY <4>2 DEF FirstMiss, NoteFailure, TypeOK, Ticks, NotFailing
      <4>3. CASE StillWaiting(d)
        <5>1. mLastDequeuedExtSeqNo + 1 \in Nat
          BY DEF TypeOK
        <5> QED BY <4>3, <5>1 DEF StillWaiting, TypeOK
      <4> QED BY <3>1, <4>1, <4>2, <4>3
    <3> QED
      BY <1>6, <3>1, <3>2, <3>3, <3>4
      DEF StopWorking, TypeOK, FixedOnce, stream, Threads
  <2> QED BY <2>1, <2>2
<1>7. ASSUME NEW t \in Threads, PlayOne(t) PROVE TypeInv'
  <2>1. PICK d \in 0..Len(mPackets) :
          /\ d < Len(mPackets)
          /\ mLastDequeuedExtSeqNo' = mPackets[d+1]
          /\ played' = Append(played, mPackets[d+1])
          /\ mPackets' = Without(d+1)
          /\ mTotalBytesQueued' = mTotalBytesQueued - (d+1)
    BY <1>7 DEF PlayOne, MayReturn
  <2>2. /\ mPackets[d+1] \in ExtSeqNos
        /\ mPackets' \in Seq(ExtSeqNos)
        /\ Len(mPackets') = Len(mPackets) - (d+1)
    BY <2>1 DEF TypeOK, Without
  <2>3. BytesCoverQueue' /\ mTotalBytesQueued' \in Nat
    BY <2>1, <2>2 DEF TypeOK, BytesCoverQueue
  <2>4. /\ mIndicesAvailable' \in Seq(Buffers)
        /\ playerBuffers' \in SUBSET Buffers
    BY <1>7 DEF PlayOne, TakeBuffer, TypeOK
  <2>5. FixedOnce' /\ mNumDeqeued' \in Nat /\ discontinuities' \in 0..1
    BY <1>7 DEF PlayOne, FirstDequeue, TypeOK, FixedOnce
  <2>6. played' \in Seq(ExtSeqNos)
    BY <2>1, <2>2 DEF TypeOK
  <2> QED
    BY <1>7, <2>1, <2>2, <2>3, <2>4, <2>5, <2>6
    DEF PlayOne, TypeOK, Ticks, NotFailing
<1>8. CASE Tick
  BY <1>8 DEF Tick, TypeOK, BytesCoverQueue, FixedOnce, stream, Ticks, NotFailing
<1>9. CASE UNCHANGED vars
  BY <1>9 DEF vars, renderer, stream, TypeOK, BytesCoverQueue, FixedOnce
<1> QED
  BY <1>1, <1>2, <1>3, <1>4, <1>5, <1>6, <1>7, <1>8, <1>9
  DEF Next, Looper, Thread

(* Every component keeps its type, the byte count never falls below the    *)
(* packets held and the real time is fixed once.                           *)
THEOREM TypeCorrect == Spec => [](TypeOK /\ BytesCoverQueue /\ FixedOnce)
<1>1. TypeInv <=> TypeOK /\ BytesCoverQueue /\ FixedOnce
  BY DEF TypeInv
<1> QED BY TypeInvInit, TypeInvStep, <1>1, PTL DEF Spec

-----------------------------------------------------------------------------
(* Order                                                                   *)

OrderInv == Sorted /\ PlayedInOrder /\ PlayedUpToLast

(* The empty list is sorted, and nothing was played.                       *)
LEMMA OrderInvInit == Init => OrderInv
  BY DEF Init, OrderInv, Sorted, PlayedInOrder, PlayedUpToLast,
         StrictlyAscending

(* What dequeueBuffer leaves in the list after dropping d packets.         *)
LEMMA WithoutKeepsOrder ==
  ASSUME TypeOK, Sorted, NEW d \in 0..Len(mPackets), mPackets' = Without(d)
  PROVE  /\ Sorted'
         /\ Len(mPackets') = Len(mPackets) - d
         /\ \A i \in 1..Len(mPackets') : mPackets'[i] = mPackets[d+i]
         /\ \A x : x \in Entries(mPackets') <=>
                  \E i \in d+1..Len(mPackets) : x = mPackets[i]
<1>1. /\ Len(mPackets) \in Nat
      /\ Len(mPackets') = Len(mPackets) - d
      /\ \A i \in 1..Len(mPackets') : mPackets'[i] = mPackets[d+i]
  BY DEF TypeOK, Without
<1>2. Sorted'
  <2>1. SUFFICES ASSUME NEW i \in 1..Len(mPackets'), NEW j \in 1..Len(mPackets'),
                        i < j
                 PROVE  mPackets'[i] < mPackets'[j]
    BY DEF Sorted, StrictlyAscending
  <2>2. /\ d+i \in 1..Len(mPackets) /\ d+j \in 1..Len(mPackets) /\ d+i < d+j
        /\ mPackets'[i] = mPackets[d+i] /\ mPackets'[j] = mPackets[d+j]
    BY <1>1, <2>1
  <2> QED BY <2>2 DEF Sorted, StrictlyAscending
<1>3. ASSUME NEW x
      PROVE  x \in Entries(mPackets') <=> \E i \in d+1..Len(mPackets) : x = mPackets[i]
  <2>1. ASSUME x \in Entries(mPackets') PROVE \E i \in d+1..Len(mPackets) : x = mPackets[i]
    <3>1. PICK n \in 1..Len(mPackets') : x = mPackets'[n]
      BY <2>1, EntriesMembers
    <3>2. d+n \in d+1..Len(mPackets) /\ x = mPackets[d+n]
      BY <1>1, <3>1
    <3> QED BY <3>2
  <2>2. ASSUME NEW i \in d+1..Len(mPackets), x = mPackets[i]
        PROVE  x \in Entries(mPackets')
    <3>1. i-d \in 1..Len(mPackets') /\ x = mPackets'[i-d]
      BY <1>1, <2>2
    <3> QED BY <3>1, EntriesMembers
  <2> QED BY <2>1, <2>2
<1> QED BY <1>1, <1>2, <1>3

(* A dequeued packet is newer than every packet played before.             *)
LEMMA HeadIsNewer ==
  ASSUME TypeOK, NEW d \in 0..Len(mPackets), StalePrefix(d), d < Len(mPackets)
  PROVE  mPackets[d+1] \in ExtSeqNos /\ mPackets[d+1] > mLastDequeuedExtSeqNo
<1>1. mPackets[d+1] \in ExtSeqNos
  BY DEF TypeOK
<1>2. mPackets[d+1] \in Nat
  BY <1>1, ExtSeqNosAssumption
<1>3. mLastDequeuedExtSeqNo \in Nat \/ mLastDequeuedExtSeqNo = -1
  BY ExtSeqNosAssumption DEF TypeOK
<1> QED BY <1>1, <1>2, <1>3 DEF StalePrefix, IsStale

(* queueBuffer keeps the list sorted wherever it inserts; dequeueBuffer    *)
(* plays a packet newer than mLastDequeuedExtSeqNo, which is not older     *)
(* than anything played.                                                   *)
LEMMA OrderInvStep == TypeOK /\ OrderInv /\ [Next]_vars => OrderInv'
<1> SUFFICES ASSUME TypeOK, OrderInv, [Next]_vars PROVE OrderInv'
  OBVIOUS
<1> USE DEF OrderInv
<1>1. ASSUME NEW e \in ExtSeqNos, QueueBuffer(e) PROVE OrderInv'
  <2>1. PICK k \in 0..Len(mPackets) :
          /\ ScanStops(mPackets, k, e)
          /\ mPackets' = IF k > 0 /\ mPackets[k] = e
                           THEN mPackets
                           ELSE InsertAfter(mPackets, k, e)
    BY <1>1 DEF QueueBuffer
  <2>2. Sorted'
    <3>1. CASE k > 0 /\ mPackets[k] = e
      BY <3>1, <2>1 DEF Sorted
    <3>2. CASE ~(k > 0 /\ mPackets[k] = e)
      BY <3>2, <2>1, InsertAfterSorted, ExtSeqNosAssumption DEF TypeOK, Sorted
    <3> QED BY <3>1, <3>2
  <2> QED
    BY <1>1, <2>2 DEF QueueBuffer, PlayedInOrder, PlayedUpToLast, stream
<1>2. CASE UNCHANGED <<mPackets, played, mLastDequeuedExtSeqNo>>
  BY <1>2 DEF Sorted, PlayedInOrder, PlayedUpToLast
<1>3. ASSUME NEW t \in Threads, StopWorking(t) PROVE OrderInv'
  <2>1. CASE UNCHANGED renderer
    BY <1>2, <1>3, <2>1 DEF StopWorking, renderer, stream
  <2>2. CASE ~UNCHANGED renderer
    <3>1. PICK d \in 0..Len(mPackets) : mPackets' = Without(d)
      BY <1>3, <2>2 DEF StopWorking
    <3>2. UNCHANGED <<played, mLastDequeuedExtSeqNo>>
      BY <1>3, <2>2 DEF StopWorking, stream
    <3> QED
      BY <3>1, <3>2, WithoutKeepsOrder DEF PlayedInOrder, PlayedUpToLast
  <2> QED BY <2>1, <2>2
<1>4. ASSUME NEW t \in Threads, PlayOne(t) PROVE OrderInv'
  <2>1. PICK d \in 0..Len(mPackets) :
          /\ StalePrefix(d)
          /\ d < Len(mPackets)
          /\ mLastDequeuedExtSeqNo' = mPackets[d+1]
          /\ played' = Append(played, mPackets[d+1])
          /\ mPackets' = Without(d+1)
    BY <1>4 DEF PlayOne, MayReturn
  <2>2. /\ d+1 \in 0..Len(mPackets)
        /\ mPackets[d+1] \in ExtSeqNos
        /\ mPackets[d+1] > mLastDequeuedExtSeqNo
    BY <2>1, HeadIsNewer DEF TypeOK
  <2>3. Sorted'
    BY <2>1, <2>2, WithoutKeepsOrder
  <2>4. \A i \in 1..Len(played) : played[i] < mPackets[d+1]
    <3>1. mPackets[d+1] \in Nat /\ mLastDequeuedExtSeqNo \in Int
      BY <2>2, LastRange, ExtSeqNosNat
    <3>a. \A i \in 1..Len(played) : played[i] \in ExtSeqNos
      BY DEF TypeOK
    <3>2. \A i \in 1..Len(played) : played[i] \in Nat
      BY <3>a, ExtSeqNosAssumption
    <3> QED BY <2>2, <3>1, <3>2 DEF PlayedUpToLast
  <2>5. /\ StrictlyAscending(played')
        /\ Len(played') = Len(played) + 1
        /\ played'[Len(played) + 1] = mPackets[d+1]
        /\ \A i \in 1..Len(played) : played'[i] = played[i]
    <3>1. played \in Seq(ExtSeqNos) /\ StrictlyAscending(played)
      BY DEF TypeOK, PlayedInOrder
    <3>2. StrictlyAscending(Append(played, mPackets[d+1]))
      BY <3>1, <2>2, <2>4, AppendSorted
    <3>3. /\ Len(played') = Len(played) + 1
          /\ played'[Len(played) + 1] = mPackets[d+1]
          /\ \A i \in 1..Len(played) : played'[i] = played[i]
      BY <3>1, <2>1
    <3> QED BY <3>2, <3>3, <2>1
  <2>6. PlayedUpToLast'
    <3> SUFFICES ASSUME NEW i \in 1..Len(played')
                 PROVE  played'[i] <= mLastDequeuedExtSeqNo'
      BY DEF PlayedUpToLast
    <3>a. Len(played) \in Nat
      BY DEF TypeOK
    <3>b. mPackets[d+1] \in Nat
      BY <2>2, ExtSeqNosAssumption
    <3>1. Len(played) \in Nat /\ mPackets[d+1] \in Nat
      BY <3>a, <3>b
    <3>2. CASE i = Len(played) + 1
      BY <3>1, <3>2, <2>1, <2>5
    <3>3. CASE i \in 1..Len(played)
      <4>1. played[i] \in ExtSeqNos
        BY <3>3 DEF TypeOK
      <4>2. played[i] \in Nat
        BY <4>1, ExtSeqNosAssumption
      <4> QED BY <4>2, <3>1, <3>3, <2>1, <2>4, <2>5
    <3> QED BY <3>1, <3>2, <3>3, <2>5
  <2> QED BY <2>3, <2>5, <2>6 DEF PlayedInOrder
<1> QED
  BY <1>1, <1>2, <1>3, <1>4
  DEF Next, Looper, Thread, InitPlayer, CallDoSomeWork, OnBufferAvailable,
      LockStreamSource, Tick, vars, renderer, stream

(* The listener receives the packets in the order of their extended        *)
(* sequence numbers and none of them twice.                                *)
THEOREM InOrder == Spec => []PlayedInOrder
<1>1. OrderInv => PlayedInOrder
  BY DEF OrderInv
<1> QED BY TypeCorrect, OrderInvInit, OrderInvStep, <1>1, PTL DEF Spec

(* The list is always sorted: the refinement needs it.                     *)
LEMMA ListSorted == Spec => []OrderInv
  BY TypeCorrect, OrderInvInit, OrderInvStep, PTL DEF Spec

-----------------------------------------------------------------------------
(* The two threads                                                         *)

WorkInv == NoWorkForgotten /\ PlayerComesFirst

(* Nothing is due before there is a player.                                *)
LEMMA WorkInvInit == Init => WorkInv
  BY DEF Init, WorkInv, NoWorkForgotten, PlayerComesFirst, Due, Threads

(* A dequeueBuffer that returns NULL leaves the wait running.              *)
LEMMA WaitRunsAfterNull ==
  ASSUME TypeOK, NEW d \in 0..Len(mPackets),
         NoPacket(d) \/ FirstMiss(d) \/ StillWaiting(d)
  PROVE  mFirstFailedAttempt' # NotFailing
  BY DEF NoPacket, FirstMiss, StillWaiting, NoteFailure, NotFailing

(* And nothing is due after it.                                            *)
LEMMA NothingDueAfterNull ==
  ASSUME TypeOK, NEW d \in 0..Len(mPackets), StalePrefix(d),
         NoPacket(d) \/ FirstMiss(d) \/ StillWaiting(d),
         mPackets' = Without(d), UNCHANGED mLastDequeuedExtSeqNo
  PROVE  ~Due'
<1>1. /\ Len(mPackets) \in Nat
      /\ Len(mPackets') = Len(mPackets) - d
      /\ \A i \in 1..Len(mPackets') : mPackets'[i] = mPackets[d+i]
  BY DEF TypeOK, Without
<1>2. CASE d = Len(mPackets)
  BY <1>1, <1>2 DEF Due
<1>3. CASE d < Len(mPackets)
  <2>1. ~IsStale(mPackets[d+1]) /\ ~IsExpected(mPackets[d+1])
    BY <1>3 DEF StalePrefix, NoPacket, FirstMiss, StillWaiting
  <2>2. mPackets'[1] = mPackets[d+1] /\ Len(mPackets') >= 1
    BY <1>1, <1>3
  <2>4. ~IsStale(mPackets[1])' /\ ~IsExpected(mPackets[1])'
    BY <2>1, <2>2 DEF IsStale, IsExpected
  <2>5. ASSUME NEW c \in 0..Len(mPackets'), StalePrefix(c)' PROVE c = 0
    BY <2>2, <2>4, <2>5 DEF StalePrefix
  <2> QED BY <2>4, <2>5 DEF Due
<1> QED BY <1>1, <1>2, <1>3

(* A packet or a buffer that makes something due puts its thread on the    *)
(* way to doSomeWork, and a thread leaves doSomeWork only when nothing is  *)
(* due.                                                                    *)
LEMMA WorkInvStep == TypeOK /\ WorkInv /\ [Next]_vars => WorkInv'
<1> SUFFICES ASSUME TypeOK, WorkInv, [Next]_vars PROVE WorkInv'
  OBVIOUS
<1> USE DEF WorkInv, Threads
<1>0. pc \in [Threads -> {"idle", "queued", "locking", "working"}]
  BY DEF TypeOK
<1>1. ASSUME NEW e \in ExtSeqNos, QueueBuffer(e) PROVE WorkInv'
  BY <1>0, <1>1 DEF QueueBuffer, NoWorkForgotten, PlayerComesFirst, stream
<1>2. CASE InitPlayer
  BY <1>0, <1>2 DEF InitPlayer, NoWorkForgotten, PlayerComesFirst, Due
<1>3. CASE CallDoSomeWork
  BY <1>0, <1>3 DEF CallDoSomeWork, NoWorkForgotten, PlayerComesFirst, stream
<1>4. ASSUME NEW i \in Buffers, OnBufferAvailable(i) PROVE WorkInv'
  BY <1>0, <1>4 DEF OnBufferAvailable, NoWorkForgotten, PlayerComesFirst
<1>5. ASSUME NEW t \in Threads, LockStreamSource(t) PROVE WorkInv'
  BY <1>0, <1>5 DEF LockStreamSource, NoWorkForgotten, PlayerComesFirst, stream
<1>6. ASSUME NEW t \in Threads, StopWorking(t) PROVE WorkInv'
  <2>1. ~Due' /\ (mIndicesAvailable # << >> => mFirstFailedAttempt # NotFailing)'
    <3>1. CASE mIndicesAvailable = << >>
      BY <1>6, <3>1 DEF StopWorking, stream, Due
    <3>2. CASE mIndicesAvailable # << >>
      <4>1. PICK d \in 0..Len(mPackets) :
              /\ StalePrefix(d)
              /\ NoPacket(d) \/ FirstMiss(d) \/ StillWaiting(d)
              /\ mPackets' = Without(d)
              /\ UNCHANGED mLastDequeuedExtSeqNo
        BY <1>6, <3>2 DEF StopWorking
      <4> QED BY <4>1, NothingDueAfterNull, WaitRunsAfterNull
    <3> QED BY <3>1, <3>2
  <2>2. PlayerComesFirst'
    BY <1>0, <1>6 DEF StopWorking, PlayerComesFirst, stream
  <2> QED BY <2>1, <2>2 DEF NoWorkForgotten
<1>7. ASSUME NEW t \in Threads, PlayOne(t) PROVE WorkInv'
  BY <1>0, <1>7 DEF PlayOne, NoWorkForgotten, PlayerComesFirst
<1>8. CASE /\ UNCHANGED <<mPackets, mLastDequeuedExtSeqNo, mStreamSource,
                           mIndicesAvailable, pc>>
           /\ UNCHANGED mFirstFailedAttempt \/ mFirstFailedAttempt' # NotFailing
  <2>1. Due' <=> Due
    BY <1>8 DEF Due, StalePrefix, IsStale, IsExpected
  <2> QED BY <1>8, <2>1 DEF NoWorkForgotten, PlayerComesFirst
<1>9. CASE Tick
  BY <1>8, <1>9 DEF Tick, stream, NotFailing
<1>10. CASE UNCHANGED vars
  BY <1>8, <1>10 DEF vars, renderer, stream
<1> QED
  BY <1>1, <1>2, <1>3, <1>4, <1>5, <1>6, <1>7, <1>9, <1>10
  DEF Next, Looper, Thread

(* No interleaving of the looper and the binder thread leaves the packet   *)
(* waited for beside an empty buffer, or any packet with the wait for its  *)
(* predecessor not begun, with nobody about to look. (A packet whose wait  *)
(* is over is looked at only when the next packet or buffer comes.)        *)
THEOREM NoLostWakeup == Spec => []NoWorkForgotten
<1>1. WorkInv => NoWorkForgotten
  BY DEF WorkInv
<1> QED BY TypeCorrect, WorkInvInit, WorkInvStep, <1>1, PTL DEF Spec

-----------------------------------------------------------------------------
(* Retransmission requests                                                 *)

AskedInv == AskedOnceForMissing /\ AskedUpToNext

(* Nothing was asked for at first.                                         *)
LEMMA AskedInvInit == Init => AskedInv
  BY DEF Init, AskedInv, AskedOnceForMissing, AskedUpToNext, StrictlyAscending

(* dequeueBuffer asks for the packet after mLastDequeuedExtSeqNo, once     *)
(* until it moves on, and it only moves up.                                *)
LEMMA AskedInvStep == TypeOK /\ AskedInv /\ [Next]_vars => AskedInv'
<1> SUFFICES ASSUME TypeOK, AskedInv, [Next]_vars PROVE AskedInv'
  OBVIOUS
<1> USE DEF AskedInv
<1>0. /\ mLastDequeuedExtSeqNo \in Int
      /\ Len(lost) \in Nat
      /\ \A i \in 1..Len(lost) : lost[i] \in Nat
      /\ mRequestedRetransmission \in BOOLEAN
  BY LastRange DEF TypeOK
<1>1. CASE UNCHANGED <<mLastDequeuedExtSeqNo, mFirstFailedAttempt,
                       mRequestedRetransmission, lost>>
  BY <1>1 DEF AskedOnceForMissing, AskedUpToNext
<1>2. ASSUME NEW t \in Threads, StopWorking(t) PROVE AskedInv'
  <2>1. CASE UNCHANGED renderer
    BY <1>1, <2>1 DEF renderer
  <2>2. CASE ~UNCHANGED renderer
    <3>1. PICK d \in 0..Len(mPackets) :
            /\ NoPacket(d) \/ FirstMiss(d) \/ StillWaiting(d)
            /\ UNCHANGED mLastDequeuedExtSeqNo
      BY <1>2, <2>2 DEF StopWorking
    <3>2. CASE NoPacket(d)
      BY <1>0, <3>1, <3>2
      DEF NoPacket, NoteFailure, AskedOnceForMissing, AskedUpToNext, NotFailing
    <3>3. CASE FirstMiss(d)
      BY <1>0, <3>1, <3>3
      DEF FirstMiss, NoteFailure, AskedOnceForMissing, AskedUpToNext, NotFailing
    <3>4. CASE StillWaiting(d) /\ mRequestedRetransmission
      BY <1>1, <3>1, <3>4 DEF StillWaiting
    <3>5. CASE StillWaiting(d) /\ ~mRequestedRetransmission
      <4>1. /\ lost' = Append(lost, mLastDequeuedExtSeqNo + 1)
            /\ mRequestedRetransmission'
            /\ mFirstFailedAttempt' = mFirstFailedAttempt
            /\ mFirstFailedAttempt # NotFailing
        BY <3>5 DEF StillWaiting
      <4>2. /\ Len(lost') = Len(lost) + 1
            /\ lost'[Len(lost) + 1] = mLastDequeuedExtSeqNo + 1
            /\ \A i \in 1..Len(lost) : lost'[i] = lost[i]
        BY <4>1, <1>0 DEF TypeOK
      <4>3. \A i \in 1..Len(lost) : lost[i] <= mLastDequeuedExtSeqNo
        BY <3>5, <1>0 DEF AskedUpToNext
      <4>4. AskedUpToNext'
        BY <1>0, <3>1, <4>1, <4>2, <4>3 DEF AskedUpToNext
      <4>5. StrictlyAscending(lost')
        <5>1. SUFFICES ASSUME NEW i \in 1..Len(lost'), NEW j \in 1..Len(lost'), i < j
                       PROVE  lost'[i] < lost'[j]
          BY DEF StrictlyAscending
        <5>2. i \in 1..Len(lost) /\ lost'[i] = lost[i] /\ lost[i] \in Nat
          BY <1>0, <4>2, <5>1
        <5>3. CASE j = Len(lost) + 1
          BY <1>0, <4>2, <4>3, <5>2, <5>3
        <5>4. CASE j # Len(lost) + 1
          <6>1. j \in 1..Len(lost) /\ lost'[j] = lost[j]
            BY <1>0, <4>2, <5>1, <5>4
          <6>2. StrictlyAscending(lost)
            BY DEF AskedOnceForMissing
          <6> QED BY <5>1, <5>2, <6>1, <6>2 DEF StrictlyAscending
        <5> QED BY <5>3, <5>4
      <4>6. lost' # << >>
        BY <1>0, <4>2
      <4> QED
        BY <1>0, <3>1, <4>1, <4>2, <4>4, <4>5, <4>6 DEF AskedOnceForMissing
    <3> QED BY <3>1, <3>2, <3>3, <3>4, <3>5
  <2> QED BY <2>1, <2>2
<1>3. ASSUME NEW t \in Threads, PlayOne(t) PROVE AskedInv'
  <2>1. PICK d \in 0..Len(mPackets) :
          /\ StalePrefix(d)
          /\ d < Len(mPackets)
          /\ mLastDequeuedExtSeqNo' = mPackets[d+1]
    BY <1>3 DEF PlayOne, MayReturn
  <2>2. /\ mLastDequeuedExtSeqNo' \in Int
        /\ mLastDequeuedExtSeqNo' >= mLastDequeuedExtSeqNo + 1
    BY <1>0, <2>1, HeadIsNewer, ExtSeqNosNat
  <2>3. UNCHANGED lost /\ mRequestedRetransmission' = FALSE
    BY <1>3 DEF PlayOne
  <2>4. AskedUpToNext'
    BY <1>0, <2>2, <2>3 DEF AskedUpToNext
  <2> QED BY <2>3, <2>4 DEF AskedOnceForMissing
<1>4. CASE Tick
  <2>1. AskedUpToNext'
    BY <1>4 DEF Tick, AskedUpToNext
  <2>2. mFirstFailedAttempt' # NotFailing
    BY <1>4, WaitAssumption DEF Tick, NotFailing
  <2> QED BY <1>4, <2>1, <2>2 DEF Tick, AskedOnceForMissing
<1> QED
  BY <1>1, <1>2, <1>3, <1>4
  DEF Next, Looper, Thread, QueueBuffer, InitPlayer, CallDoSomeWork,
      OnBufferAvailable, LockStreamSource, vars, renderer, stream

(* A packet is asked for at most once, and while a request is outstanding  *)
(* it is for the packet the player needs next.                             *)
THEOREM AskedOnce == Spec => []AskedOnceForMissing
<1>1. AskedInv => AskedOnceForMissing
  BY DEF AskedInv
<1> QED BY TypeCorrect, AskedInvInit, AskedInvStep, <1>1, PTL DEF Spec

-----------------------------------------------------------------------------
(* Media buffers                                                           *)

(* The player owns all buffers at first.                                   *)
LEMMA BuffersConservedInit == Init => BuffersConserved
  BY DEF Init, BuffersConserved, Entries

(* A buffer changes hands: appended when the player hands it back, removed *)
(* from the head when it is filled.                                        *)
LEMMA BuffersConservedStep ==
  TypeOK /\ BuffersConserved /\ [Next]_vars => BuffersConserved'
<1> SUFFICES ASSUME TypeOK, BuffersConserved, [Next]_vars
             PROVE  BuffersConserved'
  OBVIOUS
<1>0. /\ Len(mIndicesAvailable) \in Nat
      /\ mIndicesAvailable \in Seq(Buffers)
      /\ playerBuffers \subseteq Buffers
      /\ \A x : x \in Entries(mIndicesAvailable) <=> x \in Buffers \ playerBuffers
  BY DEF TypeOK, BuffersConserved
<1>1. CASE UNCHANGED <<mIndicesAvailable, playerBuffers>>
  BY <1>1 DEF BuffersConserved, Entries
<1>2. ASSUME NEW i \in Buffers, OnBufferAvailable(i) PROVE BuffersConserved'
  <2>1. /\ i \in playerBuffers
        /\ playerBuffers' = playerBuffers \ {i}
        /\ Len(mIndicesAvailable') = Len(mIndicesAvailable) + 1
        /\ mIndicesAvailable'[Len(mIndicesAvailable) + 1] = i
        /\ \A n \in 1..Len(mIndicesAvailable) :
             mIndicesAvailable'[n] = mIndicesAvailable[n]
    BY <1>0, <1>2 DEF OnBufferAvailable
  <2>2. \A n \in 1..Len(mIndicesAvailable) : mIndicesAvailable[n] # i
    BY <1>0, <2>1, EntriesMembers
  <2>3. \A n, m \in 1..Len(mIndicesAvailable') :
          mIndicesAvailable'[n] = mIndicesAvailable'[m] => n = m
    BY <1>0, <2>1, <2>2 DEF BuffersConserved
  <2>4. ASSUME NEW x
        PROVE  x \in Entries(mIndicesAvailable')
                 <=> x = i \/ x \in Entries(mIndicesAvailable)
    BY <1>0, <2>1, EntriesMembers
  <2>5. ASSUME NEW x
        PROVE  x \in Entries(mIndicesAvailable') <=> x \in Buffers \ playerBuffers'
    BY <1>0, <2>1, <2>4
  <2> QED BY <2>3, <2>5 DEF BuffersConserved
<1>3. ASSUME NEW t \in Threads, PlayOne(t) PROVE BuffersConserved'
  <2> DEFINE i == mIndicesAvailable[1]
  <2>1. /\ Len(mIndicesAvailable) >= 1
        /\ playerBuffers' = playerBuffers \cup {i}
        /\ Len(mIndicesAvailable') = Len(mIndicesAvailable) - 1
        /\ \A n \in 1..Len(mIndicesAvailable') :
             mIndicesAvailable'[n] = mIndicesAvailable[n+1]
    BY <1>0, <1>3 DEF PlayOne, TakeBuffer
  <2>2. i \in Entries(mIndicesAvailable)
    BY <1>0, <2>1, EntriesMembers
  <2>3. \A n, m \in 1..Len(mIndicesAvailable') :
          mIndicesAvailable'[n] = mIndicesAvailable'[m] => n = m
    <3> SUFFICES ASSUME NEW n \in 1..Len(mIndicesAvailable'),
                        NEW m \in 1..Len(mIndicesAvailable'),
                        mIndicesAvailable'[n] = mIndicesAvailable'[m]
                 PROVE  n = m
      OBVIOUS
    <3>1. /\ n+1 \in 1..Len(mIndicesAvailable)
          /\ m+1 \in 1..Len(mIndicesAvailable)
          /\ mIndicesAvailable[n+1] = mIndicesAvailable[m+1]
      BY <1>0, <2>1
    <3>2. n+1 = m+1
      BY <3>1 DEF BuffersConserved
    <3> QED BY <3>2
  <2>4. ASSUME NEW x
        PROVE  x \in Entries(mIndicesAvailable')
                 <=> x # i /\ x \in Entries(mIndicesAvailable)
    <3>1. ASSUME x \in Entries(mIndicesAvailable')
          PROVE  x # i /\ x \in Entries(mIndicesAvailable)
      <4>1. PICK n \in 1..Len(mIndicesAvailable') : x = mIndicesAvailable'[n]
        BY <3>1, EntriesMembers
      <4>2. /\ n+1 \in 1..Len(mIndicesAvailable) /\ 1 \in 1..Len(mIndicesAvailable)
            /\ x = mIndicesAvailable[n+1]
            /\ n+1 # 1
        BY <1>0, <2>1, <4>1
      <4>3. x # i
        BY <4>2 DEF BuffersConserved
      <4> QED BY <4>2, <4>3, EntriesMembers
    <3>2. ASSUME x # i, x \in Entries(mIndicesAvailable)
          PROVE  x \in Entries(mIndicesAvailable')
      <4>1. PICK n \in 1..Len(mIndicesAvailable) : x = mIndicesAvailable[n]
        BY <3>2, EntriesMembers
      <4>2. n # 1
        BY <3>2, <4>1
      <4>3. n-1 \in 1..Len(mIndicesAvailable') /\ (n-1)+1 = n
        BY <1>0, <2>1, <4>2
      <4>4. mIndicesAvailable'[n-1] = x
        BY <2>1, <4>1, <4>3
      <4> QED BY <4>3, <4>4, EntriesMembers
    <3> QED BY <3>1, <3>2
  <2>5. i \in Buffers
    BY <1>0, <2>2
  <2>6. ASSUME NEW x
        PROVE  x \in Entries(mIndicesAvailable') <=> x \in Buffers \ playerBuffers'
    <3> HIDE DEF i
    <3> QED BY <1>0, <2>1, <2>2, <2>4, <2>5
  <2> QED BY <2>3, <2>6 DEF BuffersConserved
<1> QED
  BY <1>1, <1>2, <1>3
  DEF Next, Looper, Thread, QueueBuffer, InitPlayer, CallDoSomeWork,
      LockStreamSource, StopWorking, Tick, vars, stream

(* No media buffer is filled while the player owns it, nor handed out      *)
(* twice, and none is lost.                                                *)
THEOREM BuffersAreConserved == Spec => []BuffersConserved
  BY TypeCorrect, BuffersConservedInit, BuffersConservedStep, PTL DEF Spec

(* IInv of TunnelRenderer, on which all of the above rests, is inductive.  *)
LEMMA IInvParts ==
  IInv <=> TypeInv /\ OrderInv /\ WorkInv /\ AskedInv /\ BuffersConserved
  BY DEF IInv, TypeInv, OrderInv, WorkInv, AskedInv

(* All the invariants above, with what they need, hold together in every   *)
(* reachable state.                                                        *)
THEOREM Inductive == Spec => []IInv
<1>1. Init => IInv
  BY TypeInvInit, OrderInvInit, WorkInvInit, AskedInvInit, BuffersConservedInit,
     IInvParts
<1>2. IInv /\ [Next]_vars => IInv'
  <2> SUFFICES ASSUME IInv, [Next]_vars PROVE IInv'
    OBVIOUS
  <2>1. TypeInv /\ OrderInv /\ WorkInv /\ AskedInv /\ BuffersConserved
    BY IInvParts
  <2>2. TypeOK
    BY <2>1 DEF TypeInv
  <2>3. TypeInv' /\ OrderInv' /\ WorkInv' /\ AskedInv' /\ BuffersConserved'
    BY <2>1, <2>2, TypeInvStep, OrderInvStep, WorkInvStep, AskedInvStep,
       BuffersConservedStep
  <2> QED BY <2>3 DEF IInv, TypeInv, OrderInv, WorkInv, AskedInv
<1> QED BY <1>1, <1>2, PTL DEF Spec

-----------------------------------------------------------------------------
(* Refinement                                                              *)

(* The initial states of the renderer map to those of the reorder buffer.  *)
LEMMA ReassemblesInit == Init => Abstract!Init
  BY DEF Init, Abstract!Init, Ahead, Entries

(* A packet is ahead when it is held and has not been returned.            *)
LEMMA AheadMembers ==
  ASSUME NEW x
  PROVE  x \in Ahead <=> (\E i \in 1..Len(mPackets) : x = mPackets[i]) /\ ~IsStale(x)
  BY EntriesMembers DEF Ahead

(* Every step maps to Accept, to Play, or to a stuttering step.            *)
LEMMA ReassemblesStep ==
  TypeOK /\ OrderInv /\ [Next]_vars => [Abstract!Next]_(Abstract!vars)
<1> SUFFICES ASSUME TypeOK, OrderInv, [Next]_vars
             PROVE  [Abstract!Next]_(Abstract!vars)
  OBVIOUS
<1>0. Len(mPackets) \in Nat /\ Sorted
  BY DEF TypeOK, OrderInv
<1>1. CASE UNCHANGED <<mPackets, mLastDequeuedExtSeqNo, played>>
  BY <1>1 DEF Abstract!vars, Ahead, Entries, IsStale
<1>2. ASSUME NEW e \in ExtSeqNos, QueueBuffer(e)
      PROVE  [Abstract!Next]_(Abstract!vars)
  <2>1. PICK k \in 0..Len(mPackets) :
          /\ ScanStops(mPackets, k, e)
          /\ mPackets' = IF k > 0 /\ mPackets[k] = e
                           THEN mPackets
                           ELSE InsertAfter(mPackets, k, e)
    BY <1>2 DEF QueueBuffer
  <2>2. UNCHANGED <<mLastDequeuedExtSeqNo, played>>
    BY <1>2 DEF QueueBuffer, stream
  <2>3. CASE k > 0 /\ mPackets[k] = e
    BY <1>1, <2>1, <2>2, <2>3
  <2>4. CASE ~(k > 0 /\ mPackets[k] = e)
    <3>1. Entries(mPackets') = Entries(mPackets) \cup {e}
      BY <2>1, <2>4, InsertAfterSorted DEF TypeOK, OrderInv, Sorted
    <3>2. CASE IsStale(e)
      <4>1. Ahead' = Ahead
        BY <2>2, <3>1, <3>2 DEF Ahead, IsStale
      <4> QED BY <2>2, <4>1 DEF Abstract!vars
    <3>3. CASE ~IsStale(e)
      <4>1. Ahead' = Ahead \cup {e}
        BY <2>2, <3>1, <3>3 DEF Ahead, IsStale
      <4>2. e > mLastDequeuedExtSeqNo
        BY <3>3, LastRange, ExtSeqNosNat DEF IsStale
      <4>3. Abstract!Accept(e)
        BY <2>2, <4>1, <4>2 DEF Abstract!Accept
      <4> QED BY <4>3 DEF Abstract!Next
    <3> QED BY <3>2, <3>3
  <2> QED BY <2>3, <2>4
<1>3. ASSUME NEW t \in Threads, StopWorking(t)
      PROVE  [Abstract!Next]_(Abstract!vars)
  <2>1. CASE UNCHANGED renderer
    BY <1>1, <1>3, <2>1 DEF StopWorking, renderer, stream
  <2>2. CASE ~UNCHANGED renderer
    <3>1. PICK d \in 0..Len(mPackets) :
            /\ StalePrefix(d)
            /\ mPackets' = Without(d)
            /\ UNCHANGED <<mLastDequeuedExtSeqNo, played>>
      BY <1>3, <2>2 DEF StopWorking, stream
    <3>2. \A x : x \in Entries(mPackets') <=>
                 \E i \in d+1..Len(mPackets) : x = mPackets[i]
      BY <1>0, <3>1, WithoutKeepsOrder
    <3>3. ASSUME NEW x PROVE x \in Ahead' <=> x \in Ahead
      <4>1. x \in Ahead' <=> x \in Entries(mPackets') /\ ~IsStale(x)
        BY <3>1 DEF Ahead, IsStale
      <4>2. ASSUME NEW i \in 1..Len(mPackets), ~IsStale(mPackets[i])
            PROVE  i \in d+1..Len(mPackets)
        BY <1>0, <3>1, <4>2 DEF StalePrefix
      <4> QED BY <1>0, <3>2, <4>1, <4>2, AheadMembers
    <3>4. Ahead' = Ahead
      BY <3>3 DEF Ahead
    <3> QED BY <3>1, <3>4 DEF Abstract!vars
  <2> QED BY <2>1, <2>2
<1>4. ASSUME NEW t \in Threads, PlayOne(t)
      PROVE  [Abstract!Next]_(Abstract!vars)
  <2>1. PICK d \in 0..Len(mPackets) :
          /\ StalePrefix(d)
          /\ d < Len(mPackets)
          /\ mLastDequeuedExtSeqNo' = mPackets[d+1]
          /\ played' = Append(played, mPackets[d+1])
          /\ mPackets' = Without(d+1)
    BY <1>4 DEF PlayOne, MayReturn
  <2> DEFINE e == mPackets[d+1]
  <2>2. /\ d+1 \in 1..Len(mPackets)
        /\ e \in ExtSeqNos /\ e \in Nat
        /\ e > mLastDequeuedExtSeqNo
        /\ mLastDequeuedExtSeqNo \in Int
    BY <1>0, <2>1, HeadIsNewer, ExtSeqNosNat, LastRange
  <2>3. \A i \in 1..Len(mPackets) : mPackets[i] \in Nat
    <3>1. \A i \in 1..Len(mPackets) : mPackets[i] \in ExtSeqNos
      BY DEF TypeOK
    <3> QED BY <3>1, ExtSeqNosNat
  <2>4. \A x : x \in Entries(mPackets') <=>
               \E i \in d+2..Len(mPackets) : x = mPackets[i]
    <3>1. PICK c \in 0..Len(mPackets) : c = d+1
      BY <2>2
    <3>2. \A x : x \in Entries(mPackets') <=>
                 \E i \in c+1..Len(mPackets) : x = mPackets[i]
      BY <1>0, <2>1, <3>1, WithoutKeepsOrder
    <3>3. c+1 = d+2
      BY <3>1
    <3> QED BY <3>2, <3>3
  <2>5. /\ \A i \in 1..d : mPackets[i] < e
        /\ \A i \in d+2..Len(mPackets) : e < mPackets[i]
    BY <1>0, <2>2 DEF Sorted, StrictlyAscending
  <2>6. ~IsStale(e)
    BY <2>2 DEF IsStale
  <2>7. ASSUME NEW i \in 1..Len(mPackets), ~IsStale(mPackets[i])
        PROVE  i \in d+1..Len(mPackets)
    BY <1>0, <2>1, <2>7 DEF StalePrefix
  <2> DEFINE StaleNow(x) == e >= 0 /\ x <= e
  <2>8. \A x : x \in Ahead' <=> x \in Entries(mPackets') /\ ~StaleNow(x)
    BY <2>1 DEF Ahead, IsStale
  <2>9. ASSUME NEW x PROVE x \in Ahead' => x \in Ahead \ {e}
    <3> SUFFICES ASSUME NEW i \in d+2..Len(mPackets), x = mPackets[i]
                 PROVE  x \in Ahead \ {e}
      BY <2>4, <2>8
    <3>1. i \in 1..Len(mPackets) /\ x \in Nat /\ e < x
      BY <1>0, <2>2, <2>3, <2>5
    <3>2. ~IsStale(x)
      BY <2>2, <3>1 DEF IsStale
    <3> QED BY <2>2, <3>1, <3>2, AheadMembers
  <2>10. ASSUME NEW x PROVE x \in Ahead \ {e} => x \in Ahead'
    <3> SUFFICES ASSUME x \in Ahead, x # e PROVE x \in Ahead'
      OBVIOUS
    <3>1. PICK i \in 1..Len(mPackets) : x = mPackets[i] /\ ~IsStale(x)
      BY AheadMembers
    <3>2. i \in d+2..Len(mPackets)
      <4>1. i \in d+1..Len(mPackets) /\ i # d+1
        BY <2>7, <3>1
      <4> QED BY <1>0, <4>1
    <3>3. e < x /\ x \in Nat
      BY <2>3, <2>5, <3>1, <3>2
    <3>4. ~StaleNow(x)
      BY <2>2, <3>3
    <3> QED BY <2>4, <2>8, <3>1, <3>2, <3>4
  <2>11. Ahead' = Ahead \ {e}
    BY <2>9, <2>10 DEF Ahead
  <2>12. e \in Ahead
    BY <2>2, <2>6, AheadMembers
  <2>13. ASSUME NEW f \in Ahead PROVE e <= f
    <3>1. PICK i \in 1..Len(mPackets) : f = mPackets[i] /\ ~IsStale(f)
      BY AheadMembers
    <3>2. i \in d+1..Len(mPackets)
      BY <2>7, <3>1
    <3>3. CASE i = d+1
      BY <2>2, <3>1, <3>3
    <3>4. CASE i \in d+2..Len(mPackets)
      BY <2>2, <2>3, <2>5, <3>1, <3>4
    <3> QED BY <1>0, <3>2, <3>3, <3>4
  <2>14. Abstract!Play(e)
    BY <2>1, <2>11, <2>12, <2>13 DEF Abstract!Play
  <2> QED BY <2>2, <2>14 DEF Abstract!Next
<1> QED
  BY <1>1, <1>2, <1>3, <1>4
  DEF Next, Looper, Thread, InitPlayer, CallDoSomeWork, OnBufferAvailable,
      LockStreamSource, Tick, vars, renderer, stream

(* The renderer implements the abstract reorder buffer.                    *)
THEOREM Implements == Spec => Reassembles
<1>1. Reassembles <=> Abstract!Init /\ [][Abstract!Next]_(Abstract!vars)
  BY DEF Reassembles, Abstract!Spec
<1> QED
  BY TypeCorrect, ListSorted, ReassemblesInit, ReassemblesStep, <1>1, PTL
  DEF Spec

=============================================================================
