----------------------------- MODULE RTPSinkProofs -----------------------------
(***************************************************************************)
(* Proofs about RTPSink: for any numbers of packets and duplicates, any    *)
(* width of the sequence numbers and every network that loses and delays   *)
(* no more than updateSeq has windows for.                                 *)
(***************************************************************************)
EXTENDS RTPSink, FiniteSetTheorems, TLAPS

-----------------------------------------------------------------------------
(* The inductive invariant                                                 *)

(* The network stays within the windows of updateSeq: no late packet is    *)
(* taken for a jump, and no gap, not even one that begins at the oldest    *)
(* packet that may still come last in the probation.                       *)
WithinWindows ==
  /\ MaxLate < MaxMisorder
  /\ \A d \in (1..MaxGap) \cup Outages : d < MaxDropout /\ d + MaxLate <= MaxDropout

Top == ExtMaxSeq(mSource)

Numbers == {o[1] : o \in origins}

(* What each variable holds.                                               *)
Shape ==
  /\ mRTPSession \in BOOLEAN /\ mRTCPSession \in BOOLEAN
  /\ mIsConnectRemotePort \in BOOLEAN
  /\ rtpPeer \in Ports \cup {Unconnected} /\ rtcpPeer \in Ports \cup {Unconnected}
  /\ mSource = NoSource \/ mSource \in SourceType
  /\ sendRR \in 0..1 /\ reportsSent \in 0..1
  /\ held \subseteq Exts /\ last \in Exts \cup {-1} /\ played \in Seq(Exts)
  /\ arrived \subseteq Indices /\ copies \in 0..MaxCopies /\ base \in Indices
  /\ counted \subseteq arrived /\ origins \subseteq Exts \X Indices
  /\ lateAcrossWrap \in BOOLEAN

(* Reports are scheduled when the sockets are connected, which is done once. *)
ConnectedOnce == ~mIsConnectRemotePort => sendRR = 0

(* There is a newest packet as soon as there is one.                       *)
HasNewest ==
  /\ mSource = NoSource <=> arrived = {}
  /\ arrived # {} => \E n \in arrived : \A m \in arrived : m <= n

(* No packet is much newer than the one that came last.                    *)
OnProbation == mSource # NoSource /\ ~Validated =>
  /\ mSource.mCycles = 0 /\ mSource.mReceived = 0
  /\ \A n \in arrived : n < SeqMod /\ n <= mSource.mMaxSeq + MaxLate

(* The extended highest sequence number is the number of the newest packet *)
(* that has come since the source was validated.                           *)
Counting == Validated =>
  /\ \E c \in Nat : mSource.mCycles = SeqMod * c
  /\ Top \in counted /\ \A n \in counted : n <= Top
  /\ \A n \in arrived : n <= Top \/ n < Top + MaxLate
  /\ mSource.mBaseSeq = base /\ base \in counted
  /\ mSource.mReceived >= 1 /\ Cardinality(counted) <= mSource.mReceived

(* But for those from before a wrap packets carry their own number.        *)
Faithful == lateAcrossWrap \/ \A o \in origins : o[1] = o[2]

(* The renderer plays what it was given, each number once and in order.    *)
Playing ==
  /\ held \subseteq Numbers /\ \A i \in 1..Len(played) : played[i] \in Numbers
  /\ \A e \in held : e > last
  /\ \A i \in 1..Len(played) : played[i] <= last
  /\ \A i, j \in 1..Len(played) : i < j => played[i] < played[j]

IInv == Shape /\ ConnectedOnce /\ HasNewest /\ OnProbation /\ Counting /\ Faithful /\ Playing

-----------------------------------------------------------------------------
(* Arithmetic of numbers that wrap                                         *)

(* A multiple of b that is smaller than b either way is zero.              *)
LEMMA SmallMultiple ==
  ASSUME NEW b \in Nat \ {0}, NEW q \in Int, -b < b*q, b*q < b
  PROVE  q = 0
<1>1. CASE q >= 1
  <2>1. b*q >= b
    BY <1>1
  <2> QED BY <2>1
<1>2. CASE q <= -1
  <2>1. b*q <= -b
    BY <1>2
  <2> QED BY <2>1
<1> QED BY <1>1, <1>2

(* Division, and that it has one result only.                              *)
LEMMA DivMod ==
  ASSUME NEW b \in Nat \ {0}, NEW n \in Int
  PROVE  /\ n \div b \in Int /\ n % b \in 0..b-1
         /\ n = b * (n \div b) + (n % b)
OBVIOUS

LEMMA ModUnique ==
  ASSUME NEW b \in Nat \ {0}, NEW q \in Int, NEW r \in 0..b-1
  PROVE  (b*q + r) % b = r /\ (b*q + r) \div b = q
<1> DEFINE n == b*q + r
<1>1. n \in Int
  OBVIOUS
<1>2. /\ n \div b \in Int /\ n % b \in 0..b-1
      /\ n = b * (n \div b) + (n % b)
  BY <1>1, DivMod
<1> HIDE DEF n
<1>3. PICK p \in Int, m \in 0..b-1 : p = n \div b /\ m = n % b
  BY <1>2
<1>4. b*p + m = b*q + r
  BY <1>2, <1>3 DEF n
<1>5. b*(p - q) = r - m
  BY <1>4
<1>6. p - q = 0
  BY <1>5, SmallMultiple
<1>7. p = q /\ m = r
  BY <1>5, <1>6
<1> QED BY <1>3, <1>7 DEF n

(* The number top has come round c times.                                  *)
Round(b, top, c, m) ==
  b \in Nat \ {0} /\ c \in Nat /\ m \in 0..b-1 /\ top \in Nat /\ top = b*c + m

Multiple(b, x) == \E q \in Nat : x = b*q

(* The cycles counted when s comes.                                        *)
Wrapped(b, c, m, s) == IF s < m THEN b*c + b ELSE b*c

(* A packet is numbered n when the newest is top: the difference of their  *)
(* sequence numbers, as updateSeq computes it, and whether there was a wrap*)
(* between them.                                                           *)
LEMMA Ahead ==
  ASSUME NEW b, NEW top, NEW c, NEW m, Round(b, top, c, m), NEW n \in Nat,
         top <= n, n - top < b
  PROVE  /\ ((n % b) - m) % b = n - top
         /\ n = Wrapped(b, c, m, n % b) + (n % b)
         /\ Multiple(b, Wrapped(b, c, m, n % b))
<1> USE DEF Round, Wrapped, Multiple
<1>0. 0 <= n - top
  OBVIOUS
<1>1. PICK q \in Int, s \in 0..b-1 : q = n \div b /\ s = n % b /\ n = b*q + s
  BY DivMod
<1>2. b*(q - c) = (n - top) - (s - m)
  BY <1>1
<1>3. q - c \in {0, 1}
  <2>1. -b < b*(q - c) /\ b*(q - c) < b + b
    BY <1>1, <1>2
  <2>2. CASE q - c <= -1
    <3>1. b*(q - c) <= -b
      BY <2>2
    <3> QED BY <2>1, <3>1
  <2>3. CASE q - c >= 2
    <3>1. b*(q - c) >= b + b
      BY <2>3
    <3> QED BY <2>1, <3>1
  <2> QED BY <2>2, <2>3
<1>4. CASE q = c
  <2>1. s - m = n - top /\ s - m \in 0..b-1 /\ ~(s < m) /\ n = b*c + s
    <3>1. n = b*c + s
      BY <1>1, <1>4
    <3>2. PICK k \in Int : k = b*c
      OBVIOUS
    <3>3. s - m = n - top
      BY <3>1, <3>2
    <3> QED BY <1>0, <3>1, <3>3
  <2>2. (b*0 + (s - m)) % b = s - m
    BY <2>1, ModUnique
  <2>3. b*0 + (s - m) = s - m
    BY <2>1
  <2> QED BY <1>1, <2>1, <2>2, <2>3
<1>5. CASE q = c + 1
  <2>1. b*(q - c) = b /\ b*q = b*c + b
    BY <1>5
  <2>2. s - m = b*(-1) + (n - top) /\ s < m /\ n = b*c + b + s
    BY <1>1, <1>2, <2>1
  <2>3. (b*(-1) + (n - top)) % b = n - top
    BY ModUnique
  <2>4. c + 1 \in Nat /\ b*c + b = b*(c + 1)
    BY <1>5, <2>1
  <2>5. n % b < m
    BY <1>1, <2>2
  <2>6. ((n % b) - m) % b = n - top
    BY <1>1, <2>2, <2>3
  <2>7. n = b*c + b + (n % b)
    BY <1>1, <2>2
  <2> QED BY <2>4, <2>5, <2>6, <2>7
<1> QED BY <1>3, <1>4, <1>5

(* A late one, and whether there was a wrap between them.                  *)
LEMMA Behind ==
  ASSUME NEW b, NEW top, NEW c, NEW m, Round(b, top, c, m), NEW n \in Nat,
         0 < top - n, top - n < b
  PROVE  /\ ((n % b) - m) % b = b - (top - n)
         /\ n = b*c + (n % b) \/ n \div b # top \div b
<1> USE DEF Round
<1>1. PICK q \in Int, s \in 0..b-1 : q = n \div b /\ s = n % b /\ n = b*q + s
  BY DivMod
<1>2. b*(q - c) = (s - m) * (-1) - (top - n)
  BY <1>1
<1>3. top \div b = c
  BY ModUnique
<1>4. q - c \in {0, -1}
  <2>1. -(b + b) < b*(q - c) /\ b*(q - c) < b
    BY <1>1, <1>2
  <2>2. CASE q - c <= -2
    <3>1. b*(q - c) <= -(b + b)
      BY <2>2
    <3> QED BY <2>1, <3>1
  <2>3. CASE q - c >= 1
    <3>1. b*(q - c) >= b
      BY <2>3
    <3> QED BY <2>1, <3>1
  <2> QED BY <2>2, <2>3
<1>5. CASE q = c
  <2>1. s - m = b*(-1) + (b - (top - n)) /\ n = b*c + s
    <3>1. b*(q - c) = 0 /\ b*(-1) = -b
      BY <1>5
    <3> QED BY <1>1, <1>2, <1>5, <3>1
  <2>2. (b*(-1) + (b - (top - n))) % b = b - (top - n)
    BY ModUnique
  <2> QED BY <1>1, <2>1, <2>2
<1>6. CASE q = c - 1
  <2>1. b*(q - c) = -b
    BY <1>6
  <2>2. s - m = b*0 + (b - (top - n))
    BY <1>1, <1>2, <2>1
  <2>3. (b*0 + (b - (top - n))) % b = b - (top - n)
    BY ModUnique
  <2> QED BY <1>1, <1>3, <1>6, <2>2, <2>3
<1> QED BY <1>4, <1>5, <1>6

-----------------------------------------------------------------------------
(* The Source                                                              *)

(* What the assumptions on the constants come down to.                     *)
LEMMA Bounds ==
  ASSUME WithinWindows
  PROVE  /\ SeqMod \in Nat /\ SeqMod >= 2 /\ MaxDropout \in Nat /\ MaxMisorder \in Nat
         /\ MaxDropout + MaxMisorder <= SeqMod /\ MaxDropout > 0 /\ MaxMisorder > 0
         /\ MinSequential \in Nat /\ MinSequential >= 2
         /\ MaxLate \in Nat /\ MaxLate < MaxMisorder /\ MaxLate < MaxDropout
         /\ MaxIndex \in Nat /\ MaxCopies \in Nat /\ MaxGap \in Nat
         /\ \A d \in (1..MaxGap) \cup Outages : d \in Nat /\ d < MaxDropout /\ d + MaxLate <= MaxDropout
<1>1. 1 \in 1..MaxGap /\ 1..MaxGap \subseteq Nat
  BY NetworkAssumption
<1>2. MaxLate < MaxDropout
  BY <1>1, NetworkAssumption, SeqModAssumption DEF WithinWindows
<1> QED BY <1>1, <1>2, NetworkAssumption, SeqModAssumption, MinSequentialAssumption DEF WithinWindows

(* The first packet: nothing follows it in sequence yet.                   *)
LEMMA NewSourceGives ==
  ASSUME WithinWindows
  PROVE  LET upd == NewSource(0 % SeqMod)
         IN /\ upd.src \in SourceType /\ upd.ext = 0
            /\ upd.src.mProbation > 0 /\ upd.src.mCycles = 0 /\ upd.src.mReceived = 0
            /\ upd.src.mMaxSeq = SeqMod - 1
<1>1. SeqMod \in Nat /\ SeqMod >= 2 /\ MinSequential \in Nat /\ MinSequential >= 2
  BY Bounds
<1>2. 0 % SeqMod = 0
  <2>1. (SeqMod*0 + 0) % SeqMod = 0
    BY <1>1, ModUnique
  <2> QED BY <1>1, <2>1
<1>3. (0 - 1) % SeqMod = SeqMod - 1
  <2>1. (SeqMod*(-1) + (SeqMod - 1)) % SeqMod = SeqMod - 1
    BY <1>1, ModUnique
  <2>2. SeqMod*(-1) + (SeqMod - 1) = 0 - 1
    BY <1>1
  <2> QED BY <2>1, <2>2
<1> DEFINE src == [mMaxSeq |-> SeqMod - 1, mCycles |-> 0, mBaseSeq |-> 0, mBadSeq |-> NoBadSeq,
                   mProbation |-> MinSequential, mReceived |-> 0]
<1>4. NewSource(0) = [src |-> src, ext |-> 0]
  BY <1>1, <1>3 DEF NewSource, InitSeq, Queued
<1>5. src \in SourceType
  BY <1>1 DEF SourceType, Seqs
<1> HIDE DEF src
<1>6. /\ src.mProbation > 0 /\ src.mCycles = 0 /\ src.mReceived = 0 /\ src.mMaxSeq = SeqMod - 1
  BY <1>1 DEF src
<1> QED BY <1>2, <1>4, <1>5, <1>6

(* On probation a packet is queued under its own number, and the probation *)
(* ends with one that follows the packet before it.                        *)
LEMMA ProbationGives ==
  ASSUME WithinWindows, NEW src \in SourceType, src.mProbation > 0, src.mCycles = 0,
         src.mReceived = 0, NEW seq \in Seqs
  PROVE  LET upd == UpdateSeq(src, seq)
         IN /\ upd.src \in SourceType /\ upd.ext = seq
            /\ upd.src.mMaxSeq = seq /\ upd.src.mCycles = 0
            /\ IF upd.src.mProbation = 0
                 THEN seq = src.mMaxSeq + 1 /\ upd.src.mReceived = 1 /\ upd.src.mBaseSeq = seq
                 ELSE upd.src.mReceived = 0
<1>1. MinSequential \in Nat /\ MinSequential >= 2 /\ seq \in Nat
  BY Bounds DEF Seqs
<1>2. UpdateSeq(src, seq) = ProbationSeq(src, seq)
  BY DEF UpdateSeq
<1>3. CASE seq # src.mMaxSeq + 1
  <2> DEFINE new == [src EXCEPT !.mProbation = MinSequential - 1, !.mMaxSeq = seq]
  <2>1. ProbationSeq(src, seq) = [src |-> new, ext |-> seq]
    BY <1>1, <1>3 DEF ProbationSeq, Queued, SourceType
  <2>2. /\ new \in SourceType /\ new.mMaxSeq = seq /\ new.mCycles = 0 /\ new.mReceived = 0
        /\ new.mProbation # 0
    <3>1. MinSequential - 1 \in 0..MinSequential /\ MinSequential - 1 # 0
      BY <1>1
    <3> QED BY <3>1 DEF SourceType
  <2> HIDE DEF new
  <2> QED BY <1>2, <2>1, <2>2
<1>4. CASE seq = src.mMaxSeq + 1
  <2> DEFINE next == [src EXCEPT !.mProbation = @ - 1, !.mMaxSeq = seq]
             new  == IF next.mProbation = 0 THEN [InitSeq(next, seq) EXCEPT !.mReceived = 1]
                                            ELSE next
  <2>1. ProbationSeq(src, seq) = [src |-> new, ext |-> seq]
    BY <1>1, <1>4 DEF ProbationSeq
  <2>2. /\ next \in SourceType /\ next.mMaxSeq = seq /\ next.mCycles = 0 /\ next.mReceived = 0
    <3>1. src.mProbation - 1 \in 0..MinSequential
      BY <1>1 DEF SourceType
    <3> QED BY <3>1 DEF SourceType
  <2> HIDE DEF next
  <2>3. CASE next.mProbation = 0
    <3>1. new = [mMaxSeq |-> seq, mCycles |-> 0, mBaseSeq |-> seq, mBadSeq |-> NoBadSeq,
                 mProbation |-> 0, mReceived |-> 1]
      BY <2>3 DEF InitSeq
    <3>2. new \in SourceType
      BY <1>1, <3>1 DEF SourceType
    <3> QED BY <1>2, <1>4, <2>1, <3>1, <3>2
  <2>4. CASE next.mProbation # 0
    <3>1. new = next
      BY <2>4
    <3> HIDE DEF new
    <3> QED BY <1>2, <2>1, <2>2, <2>4, <3>1
  <2> QED BY <2>3, <2>4
<1> QED BY <1>3, <1>4

(* Once validated, a packet not older than the highest one is it now,      *)
(* however often the number wrapped.                                       *)
LEMMA AheadGives ==
  ASSUME WithinWindows, NEW src \in SourceType, src.mProbation = 0, NEW c \in Nat,
         src.mCycles = SeqMod * c, NEW n \in Nat, NEW top \in Nat, top = src.mMaxSeq + src.mCycles,
         top <= n, n - top < MaxDropout
  PROVE  LET upd == UpdateSeq(src, n % SeqMod)
         IN /\ upd.src \in SourceType /\ upd.ext = n /\ ExtMaxSeq(upd.src) = n
            /\ Multiple(SeqMod, upd.src.mCycles)
            /\ upd.src.mProbation = 0 /\ upd.src.mBaseSeq = src.mBaseSeq
            /\ upd.src.mReceived = src.mReceived + 1
<1>1. /\ SeqMod \in Nat /\ SeqMod >= 2 /\ MaxDropout \in Nat /\ MaxDropout <= SeqMod
  BY Bounds
<1>2. src.mMaxSeq \in 0..SeqMod-1 /\ src.mCycles \in Nat /\ src.mReceived \in Nat
  BY DEF SourceType, Seqs
<1>3. SeqMod \in Nat \ {0} /\ n \in Int /\ n % SeqMod \in 0..SeqMod-1
  <2>1. SeqMod \in Nat \ {0} /\ n \in Int
    BY <1>1
  <2> QED BY <2>1, DivMod
<1> DEFINE s == n % SeqMod
           cycles == IF s < src.mMaxSeq THEN src.mCycles + SeqMod ELSE src.mCycles
           adv == [src EXCEPT !.mMaxSeq = s, !.mCycles = cycles]
           new == [adv EXCEPT !.mReceived = @ + 1]
<1>4. /\ (s - src.mMaxSeq) % SeqMod = n - top /\ n = cycles + s
      /\ Multiple(SeqMod, cycles)
  <2>1. PICK m \in 0..SeqMod-1 : m = src.mMaxSeq
    BY <1>2
  <2>2. Round(SeqMod, top, c, m) /\ top <= n /\ n - top < SeqMod
    BY <1>1, <1>2, <2>1 DEF Round
  <2> HIDE DEF cycles, adv, new
  <2>3. /\ (s - m) % SeqMod = n - top
        /\ n = Wrapped(SeqMod, c, m, s) + s
        /\ Multiple(SeqMod, Wrapped(SeqMod, c, m, s))
    BY <1>3, <2>2, Ahead
  <2>4. cycles = Wrapped(SeqMod, c, m, s)
    BY <2>1 DEF Wrapped, cycles
  <2> QED BY <2>1, <2>3, <2>4
<1>5. UpdateSeq(src, s) = Receive(Advance(src, s), s)
  BY <1>4 DEF UpdateSeq
<1>6. Advance(src, s) = adv
  BY DEF Advance
<1> HIDE DEF s
<1>7. s \in Seqs /\ cycles \in Nat
  BY <1>1, <1>2, <1>3 DEF s, Seqs
<1> HIDE DEF cycles
<1>8. adv \in SourceType /\ adv.mReceived = src.mReceived /\ adv.mCycles = cycles
      /\ adv.mMaxSeq = s /\ adv.mProbation = 0 /\ adv.mBaseSeq = src.mBaseSeq
  BY <1>7 DEF SourceType
<1> HIDE DEF adv
<1>9. /\ new \in SourceType /\ new.mReceived = src.mReceived + 1 /\ new.mCycles = cycles
      /\ new.mMaxSeq = s /\ new.mProbation = 0 /\ new.mBaseSeq = src.mBaseSeq
  BY <1>8 DEF SourceType
<1>10. Receive(adv, s) = [src |-> new, ext |-> cycles + s]
  BY <1>9 DEF Receive, Queued
<1> HIDE DEF new
<1>11. UpdateSeq(src, n % SeqMod) = [src |-> new, ext |-> n]
  BY <1>4, <1>5, <1>6, <1>10 DEF s
<1>12. ExtMaxSeq(new) = n
  BY <1>4, <1>7, <1>9 DEF ExtMaxSeq, Seqs
<1> QED BY <1>4, <1>9, <1>11, <1>12

(* A late one changes nothing but what is counted.                         *)
LEMMA BehindGives ==
  ASSUME WithinWindows, NEW src \in SourceType, src.mProbation = 0, NEW c \in Nat,
         src.mCycles = SeqMod * c, NEW n \in Nat, NEW top \in Nat, top = src.mMaxSeq + src.mCycles,
         0 < top - n, top - n <= MaxLate
  PROVE  LET upd == UpdateSeq(src, n % SeqMod)
         IN /\ upd.src \in SourceType /\ upd.src.mReceived = src.mReceived + 1
            /\ ExtMaxSeq(upd.src) = top /\ upd.src.mCycles = src.mCycles
            /\ upd.src.mProbation = 0 /\ upd.src.mBaseSeq = src.mBaseSeq
            /\ upd.ext \in 0..(top + SeqMod)
            /\ upd.ext = n \/ n \div SeqMod # top \div SeqMod
<1>1. /\ SeqMod \in Nat /\ SeqMod >= 2 /\ MaxDropout \in Nat /\ MaxDropout + MaxMisorder <= SeqMod
      /\ MaxMisorder \in Nat /\ MaxLate \in Nat /\ MaxLate < MaxMisorder
  BY Bounds
<1>2. src.mMaxSeq \in 0..SeqMod-1 /\ src.mCycles \in Nat /\ src.mReceived \in Nat
  BY DEF SourceType, Seqs
<1>3. SeqMod \in Nat \ {0} /\ n \in Int /\ n % SeqMod \in 0..SeqMod-1
  <2>1. SeqMod \in Nat \ {0} /\ n \in Int
    BY <1>1
  <2> QED BY <2>1, DivMod
<1> DEFINE s == n % SeqMod
           new == [src EXCEPT !.mReceived = @ + 1]
<1>4. /\ (s - src.mMaxSeq) % SeqMod = SeqMod - (top - n)
      /\ n = src.mCycles + s \/ n \div SeqMod # top \div SeqMod
  <2>1. PICK m \in 0..SeqMod-1 : m = src.mMaxSeq
    BY <1>2
  <2>2. Round(SeqMod, top, c, m) /\ top - n < SeqMod
    BY <1>1, <1>2, <2>1 DEF Round
  <2>3. /\ (s - m) % SeqMod = SeqMod - (top - n)
        /\ n = SeqMod*c + s \/ n \div SeqMod # top \div SeqMod
    BY <1>3, <2>2, Behind
  <2> QED BY <2>1, <2>3
<1>5. UpdateSeq(src, s) = Receive(src, s)
  <2>1. ~(SeqMod - (top - n) < MaxDropout) /\ ~(SeqMod - (top - n) <= SeqMod - MaxMisorder)
    BY <1>1
  <2> QED BY <1>4, <2>1 DEF UpdateSeq
<1>6. /\ new \in SourceType /\ new.mReceived = src.mReceived + 1 /\ new.mCycles = src.mCycles
      /\ new.mMaxSeq = src.mMaxSeq /\ new.mProbation = 0 /\ new.mBaseSeq = src.mBaseSeq
  BY <1>2 DEF SourceType
<1> HIDE DEF s
<1>7. Receive(src, s) = [src |-> new, ext |-> src.mCycles + s]
  BY <1>6 DEF Receive, Queued
<1> HIDE DEF new
<1>8. UpdateSeq(src, n % SeqMod) = [src |-> new, ext |-> src.mCycles + s]
  BY <1>5, <1>7 DEF s
<1>9. ExtMaxSeq(new) = top
  BY <1>6 DEF ExtMaxSeq
<1>10. src.mCycles + s \in 0..(top + SeqMod)
  BY <1>1, <1>2, <1>3 DEF s
<1> QED BY <1>4, <1>6, <1>8, <1>9, <1>10

-----------------------------------------------------------------------------
(* A packet arrives                                                        *)

(* The newest number of a set is the one no other exceeds.                 *)
LEMMA NewestIs ==
  ASSUME NEW S \in SUBSET Int, NEW x \in S, \A m \in S : m <= x
  PROVE  Newest(S) = x
<1>1. PICK y \in S : y = Newest(S) /\ \A m \in S : m <= y
  BY DEF Newest
<1>2. x <= y /\ y <= x /\ x \in Int /\ y \in Int
  BY <1>1
<1> QED BY <1>1, <1>2

(* A Source is never mistaken for the absence of one.                      *)
LEMMA SourceIsOne ==
  ASSUME NEW src \in SourceType
  PROVE  src # NoSource
<1>1. src.mProbation \in 0..MinSequential
  BY DEF SourceType
<1>2. NoSource.mProbation = -1
  BY DEF NoSource
<1>3. src.mProbation # -1
  BY <1>1, MinSequentialAssumption
<1> QED BY <1>2, <1>3

(* How far from the newest packet the one that arrives may be.             *)
LEMMA ArrivesNear ==
  ASSUME WithinWindows, Shape, HasNewest, NEW n \in Indices, MayArrive(n), arrived # {}
  PROVE  \E newest \in arrived :
           /\ \A m \in arrived : m <= newest
           /\ \/ newest < n /\ n - newest < MaxDropout /\ n - newest + MaxLate <= MaxDropout
              \/ n <= newest /\ newest - n <= MaxLate
<1>1. PICK x \in arrived : \A m \in arrived : m <= x
  BY DEF HasNewest
<1>2. arrived \in SUBSET Int /\ x \in Int /\ n \in Int
  BY NetworkAssumption DEF Shape, Indices
<1>3. Newest(arrived) = x
  BY <1>1, <1>2, NewestIs
<1>4. n - x \in 1..MaxGap \/ n - x \in Outages \/ x - n \in 0..MaxLate
  BY <1>3 DEF MayArrive
<1>5. CASE n - x \in (1..MaxGap) \cup Outages
  <2>1. PICK d \in (1..MaxGap) \cup Outages : d = n - x
    BY <1>5
  <2>2. d \in Nat /\ d < MaxDropout /\ d + MaxLate <= MaxDropout /\ MaxLate \in Nat
    BY Bounds
  <2>3. x < n \/ x = n
    BY <1>2, <2>1, <2>2
  <2>4. CASE x < n
    BY <1>1, <2>1, <2>2, <2>4
  <2>5. CASE x = n
    <3>1. n <= x /\ x - n <= MaxLate
      BY <1>2, <2>2, <2>5
    <3> QED BY <1>1, <3>1
  <2> QED BY <2>3, <2>4, <2>5
<1>6. CASE x - n \in 0..MaxLate
  <2>1. n <= x /\ x - n <= MaxLate
    BY <1>2, <1>6, Bounds
  <2> QED BY <1>1, <2>1
<1> QED BY <1>4, <1>5, <1>6

(* The number of a packet, before and after it is a sequence number.       *)
LEMMA Indexed ==
  ASSUME NEW n \in Indices
  PROVE  /\ n \in Nat /\ n <= MaxIndex /\ MaxIndex \in Nat /\ n \in Exts
         /\ n % SeqMod \in Seqs
         /\ n < SeqMod => n % SeqMod = n
<1>1. n \in Nat /\ n <= MaxIndex /\ MaxIndex \in Nat /\ SeqMod \in Nat \ {0}
  BY NetworkAssumption, SeqModAssumption DEF Indices
<1>2. n \in Exts
  BY <1>1 DEF Exts
<1>3. n % SeqMod \in Seqs
  BY <1>1, DivMod DEF Seqs
<1>4. ASSUME n < SeqMod PROVE n % SeqMod = n
  <2>1. n \in 0..SeqMod-1
    BY <1>1, <1>4
  <2>2. (SeqMod*0 + n) % SeqMod = n
    BY <1>1, <2>1, ModUnique
  <2> QED BY <1>1, <2>2
<1> QED BY <1>1, <1>2, <1>3, <1>4

(* What parseRTP does with a packet: it is queued under a number that is   *)
(* its own, or it came from before a wrap.                                 *)
Handled(n) ==
  /\ mSource' \in SourceType /\ OnProbation' /\ Counting'
  /\ base' \in Indices /\ counted' \subseteq arrived'
  /\ \E ext \in Exts : /\ origins' = origins \cup {<<ext, n>>} /\ HandOver(ext)
                       /\ ext = n \/ FromBeforeWrap(n)

(* What updateSeq, or the constructor, answers.                            *)
Answer(n) == IF mSource = NoSource THEN NewSource(n % SeqMod) ELSE UpdateSeq(mSource, n % SeqMod)

LEMMA QueuedGives ==
  ASSUME NEW n, ParseRTP(n), NEW src, NEW ext, Answer(n).src = src, Answer(n).ext = ext,
         ext \in Int, ext >= 0
  PROVE  /\ mSource' = src /\ arrived' = arrived \cup {n}
         /\ src.mReceived = 1 => base' = n /\ counted' = {n}
         /\ src.mReceived # 1 =>
              base' = base /\ counted' = IF Validated THEN counted \cup {n} ELSE {}
         /\ origins' = origins \cup {<<ext, n>>} /\ HandOver(ext)
<1>1. ext # NotQueued
  BY DEF NotQueued
<1> QED BY <1>1 DEF ParseRTP, Answer

(* The first packet.                                                       *)
LEMMA FirstHandled ==
  ASSUME WithinWindows, IInv, NEW n \in Indices, MayArrive(n), ParseRTP(n), mSource = NoSource
  PROVE  Handled(n)
<1>1. arrived = {} /\ n = 0
  BY DEF IInv, HasNewest, MayArrive
<1>2. PICK src, ext : src = Answer(n).src /\ ext = Answer(n).ext
  OBVIOUS
<1>3. /\ src \in SourceType /\ ext = 0 /\ src.mProbation > 0 /\ src.mCycles = 0
      /\ src.mReceived = 0 /\ src.mMaxSeq = SeqMod - 1
  BY <1>1, <1>2, NewSourceGives DEF Answer
<1>4. ~Validated
  BY DEF Validated
<1>5. /\ mSource' = src /\ arrived' = {0} /\ base' = base /\ counted' = {}
      /\ origins' = origins \cup {<<ext, n>>} /\ HandOver(ext)
  BY <1>1, <1>2, <1>3, <1>4, QueuedGives
<1>6. src.mProbation # 0
  BY <1>3
<1>7. Counting'
  BY <1>5, <1>6 DEF Counting, Validated
<1>8. OnProbation'
  <2>1. 0 < SeqMod /\ 0 <= SeqMod - 1 + MaxLate
    BY Bounds
  <2> QED BY <1>3, <1>5, <2>1 DEF OnProbation
<1> QED BY <1>1, <1>3, <1>5, <1>7, <1>8, Indexed DEF Handled, IInv, Shape

(* A packet on probation, the one that ends it included.                   *)
LEMMA ProbationHandled ==
  ASSUME WithinWindows, IInv, NEW n \in Indices, MayArrive(n), ParseRTP(n),
         mSource # NoSource, ~Validated
  PROVE  Handled(n)
<1> USE DEF IInv
<1>1. /\ mSource \in SourceType /\ mSource.mProbation > 0 /\ mSource.mCycles = 0
      /\ mSource.mReceived = 0 /\ mSource.mMaxSeq \in Int
  BY MinSequentialAssumption, SeqModAssumption
     DEF Shape, OnProbation, Validated, SourceType, Seqs
<1>2. /\ n \in Nat /\ n < SeqMod /\ SeqMod \in Nat /\ n \in Exts /\ n % SeqMod = n /\ n \in Seqs
      /\ MaxLate \in Nat
  <2>1. n < SeqMod
    BY Indexed, Bounds DEF MayArrive
  <2> QED BY <2>1, Indexed, Bounds
<1>3. arrived # {} /\ arrived \subseteq Nat
  BY NetworkAssumption DEF HasNewest, Shape, Indices
<1>4. PICK x \in arrived : (\A m \in arrived : m <= x) /\ (x < n \/ x - n <= MaxLate)
  BY <1>3, ArrivesNear
<1>5. PICK src, ext : src = Answer(n).src /\ ext = Answer(n).ext
  OBVIOUS
<1>6. /\ src \in SourceType /\ ext = n /\ src.mMaxSeq = n /\ src.mCycles = 0
      /\ IF src.mProbation = 0
           THEN n = mSource.mMaxSeq + 1 /\ src.mReceived = 1 /\ src.mBaseSeq = n
           ELSE src.mReceived = 0
  BY <1>1, <1>2, <1>5, ProbationGives DEF Answer
<1>7. /\ mSource' = src /\ arrived' = arrived \cup {n}
      /\ src.mReceived = 1 => base' = n /\ counted' = {n}
      /\ src.mReceived # 1 => base' = base /\ counted' = {}
      /\ origins' = origins \cup {<<ext, n>>} /\ HandOver(ext)
  <2>1. ext \in Int /\ ext >= 0
    BY <1>2, <1>6
  <2> QED BY <1>5, <2>1, QueuedGives
<1>8. OnProbation'
  <2>1. CASE src.mProbation # 0
    <3>1. \A m \in arrived : m < SeqMod
      BY DEF OnProbation
    <3>2. \A m \in arrived : m <= n + MaxLate
      BY <1>2, <1>3, <1>4
    <3>3. n <= n + MaxLate
      BY <1>2
    <3> QED BY <1>2, <1>6, <1>7, <2>1, <3>1, <3>2, <3>3 DEF OnProbation
  <2>2. CASE src.mProbation = 0
    BY <1>6, <1>7, <2>2, SourceIsOne DEF OnProbation, Validated
  <2> QED BY <2>1, <2>2
<1>9. Counting' /\ base' \in Indices /\ counted' \subseteq arrived'
  <2>1. CASE src.mProbation # 0
    BY <1>6, <1>7, <2>1 DEF Counting, Validated, Shape
  <2>2. CASE src.mProbation = 0
    <3>1. base' = n /\ counted' = {n} /\ src.mReceived = 1 /\ src.mBaseSeq = n
      BY <1>6, <1>7, <2>2
    <3>2. ExtMaxSeq(src) = n /\ src.mCycles = SeqMod * 0
      BY <1>2, <1>6 DEF ExtMaxSeq
    <3>3. \A m \in arrived : m <= n \/ m < n + MaxLate
      <4>1. \A m \in arrived : m <= mSource.mMaxSeq + MaxLate
        BY <1>1 DEF OnProbation
      <4>2. n = mSource.mMaxSeq + 1
        BY <1>6, <2>2
      <4> QED BY <1>1, <1>2, <1>3, <4>1, <4>2
    <3>4. Cardinality({n}) = 1
      BY FS_Singleton
    <3> QED BY <1>2, <1>7, <3>1, <3>2, <3>3, <3>4 DEF Counting, Top
  <2> QED BY <2>1, <2>2
<1> QED BY <1>2, <1>6, <1>7, <1>8, <1>9 DEF Handled

(* Finite sets of numbers.                                                 *)
LEMMA CountedIsFinite ==
  ASSUME Shape
  PROVE  IsFiniteSet(counted)
<1>1. IsFiniteSet(Indices) /\ counted \subseteq Indices
  BY NetworkAssumption, FS_Interval DEF Indices, Shape
<1> QED BY <1>1, FS_Subset

(* One more packet is counted, unless it is a duplicate.                   *)
LEMMA CountsOne ==
  ASSUME Shape, NEW n \in Indices, NEW r \in Nat, Cardinality(counted) <= r
  PROVE  Cardinality(counted \cup {n}) <= r + 1
<1>1. IsFiniteSet(counted)
  BY CountedIsFinite
<1>2. Cardinality(counted) \in Nat
  BY <1>1, FS_CardinalityType
<1>3. Cardinality(counted \cup {n}) = Cardinality(counted)
        \/ Cardinality(counted \cup {n}) = Cardinality(counted) + 1
  BY <1>1, FS_AddElement
<1> QED BY <1>2, <1>3

(* Once the source is validated, a packet is ahead of the highest number   *)
(* by less than the permissible gap, or behind it by no more than a late   *)
(* one may be.                                                             *)
LEMMA NearTop ==
  ASSUME WithinWindows, IInv, NEW n \in Indices, MayArrive(n), Validated,
         NEW top \in Nat, top = Top
  PROVE  \/ top <= n /\ n - top < MaxDropout
         \/ 0 < top - n /\ top - n <= MaxLate
<1> USE DEF IInv
<1>1. top \in counted /\ counted \subseteq arrived /\ arrived # {} /\ n \in Nat
  BY Indexed DEF Counting, Shape
<1>2. PICK x \in arrived :
        /\ \A m \in arrived : m <= x
        /\ \/ x < n /\ n - x < MaxDropout /\ n - x + MaxLate <= MaxDropout
           \/ n <= x /\ x - n <= MaxLate
  BY <1>1, ArrivesNear
<1>3. x \in Nat /\ top <= x
  BY <1>1, <1>2, NetworkAssumption DEF Shape, Indices
<1>4. x <= top \/ x < top + MaxLate
  BY DEF Counting
<1>5. MaxLate \in Nat /\ MaxDropout \in Nat /\ MaxLate < MaxDropout /\ MaxDropout > 0
  BY Bounds
<1>6. CASE x < n /\ n - x < MaxDropout /\ n - x + MaxLate <= MaxDropout
  BY <1>1, <1>3, <1>4, <1>5, <1>6
<1>7. CASE n <= x /\ x - n <= MaxLate
  BY <1>1, <1>3, <1>4, <1>5, <1>7
<1> QED BY <1>2, <1>6, <1>7

(* A packet of a source that is validated.                                 *)
LEMMA ValidatedHandled ==
  ASSUME WithinWindows, IInv, NEW n \in Indices, MayArrive(n), ParseRTP(n), Validated
  PROVE  Handled(n)
<1> USE DEF IInv
<1>1. /\ mSource \in SourceType /\ mSource.mProbation = 0 /\ mSource.mReceived \in Nat
      /\ mSource.mMaxSeq \in Nat /\ mSource.mCycles \in Nat /\ mSource # NoSource
  BY SeqModAssumption DEF Shape, Validated, SourceType, Seqs
<1>2. PICK top \in Nat : top = Top /\ top = mSource.mMaxSeq + mSource.mCycles
  BY <1>1 DEF Top, ExtMaxSeq
<1>3. PICK c \in Nat : mSource.mCycles = SeqMod * c
  BY DEF Counting
<1>4. n \in Nat /\ n \in Exts
  BY Indexed
<1>5. /\ top \in counted /\ counted \subseteq arrived /\ base \in counted /\ base \in Indices
      /\ arrived \subseteq Indices /\ top \in arrived /\ top <= MaxIndex
      /\ mSource.mBaseSeq = base /\ mSource.mReceived >= 1
      /\ Cardinality(counted) <= mSource.mReceived
  BY <1>2, Indexed DEF Counting, Shape
<1>6. PICK src, ext : src = Answer(n).src /\ ext = Answer(n).ext
  OBVIOUS
<1>7. PICK newTop \in Nat : newTop = IF top <= n THEN n ELSE top
  BY <1>4
<1>8. /\ src \in SourceType /\ src.mProbation = 0 /\ src.mBaseSeq = mSource.mBaseSeq
      /\ src.mReceived = mSource.mReceived + 1 /\ ExtMaxSeq(src) = newTop
      /\ \E q \in Nat : src.mCycles = SeqMod * q
      /\ ext \in Exts /\ (ext = n \/ FromBeforeWrap(n))
  <2>1. CASE top <= n /\ n - top < MaxDropout
    <3>1. newTop = n
      BY <1>7, <2>1
    <3> QED BY <1>1, <1>2, <1>3, <1>4, <1>6, <2>1, <3>1, AheadGives DEF Answer, Multiple
  <2>2. CASE 0 < top - n /\ top - n <= MaxLate
    <3>1. newTop = top /\ n < top
      BY <1>4, <1>7, <2>2
    <3>2. /\ src \in SourceType /\ src.mReceived = mSource.mReceived + 1
          /\ ExtMaxSeq(src) = top /\ src.mCycles = mSource.mCycles
          /\ src.mProbation = 0 /\ src.mBaseSeq = mSource.mBaseSeq
          /\ ext \in 0..(top + SeqMod)
          /\ ext = n \/ n \div SeqMod # top \div SeqMod
      BY <1>1, <1>2, <1>3, <1>4, <1>6, <2>2, BehindGives DEF Answer
    <3>3. ext \in Exts
      <4>1. MaxIndex \in Nat /\ SeqMod \in Nat
        BY Bounds
      <4> QED BY <1>5, <3>2, <4>1 DEF Exts
    <3>4. ext = n \/ FromBeforeWrap(n)
      BY <1>5, <3>1, <3>2 DEF FromBeforeWrap
    <3> QED BY <1>3, <3>1, <3>2, <3>3, <3>4
  <2> QED BY <1>2, <2>1, <2>2, NearTop
<1>9. ext \in Int /\ ext >= 0 /\ src.mReceived # 1
  <2>1. ext \in Int /\ ext >= 0
    BY <1>8, NetworkAssumption, SeqModAssumption DEF Exts
  <2> QED BY <1>1, <1>5, <1>8, <2>1
<1>10. /\ mSource' = src /\ arrived' = arrived \cup {n}
       /\ base' = base /\ counted' = counted \cup {n}
       /\ origins' = origins \cup {<<ext, n>>} /\ HandOver(ext)
  BY <1>6, <1>9, QueuedGives
<1>11. OnProbation'
  BY <1>8, <1>10 DEF OnProbation, Validated
<1>12. Counting'
  <2>1. newTop \in counted \cup {n} /\ base \in counted \cup {n}
    BY <1>5, <1>7
  <2>2. \A k \in counted \cup {n} : k <= newTop
    <3>1. \A k \in counted : k <= top /\ k \in Int
      BY <1>2, <1>5, NetworkAssumption DEF Counting, Indices
    <3> QED BY <1>4, <1>7, <3>1
  <2>3. \A k \in arrived \cup {n} : k <= newTop \/ k < newTop + MaxLate
    <3>1. \A k \in arrived : (k <= top \/ k < top + MaxLate) /\ k \in Int
      BY <1>2, <1>5, NetworkAssumption DEF Counting, Indices
    <3> QED BY <1>4, <1>7, <3>1, Bounds
  <2>4. Cardinality(counted \cup {n}) <= src.mReceived
    BY <1>1, <1>5, <1>8, CountsOne
  <2>5. src.mReceived >= 1
    BY <1>1, <1>8
  <2> QED BY <1>5, <1>8, <1>10, <2>1, <2>2, <2>3, <2>4, <2>5 DEF Counting, Top
<1> QED BY <1>5, <1>8, <1>10, <1>11, <1>12 DEF Handled

(* Every packet is handled in one of these ways.                           *)
LEMMA EveryPacketHandled ==
  ASSUME WithinWindows, IInv, NEW n \in Indices, MayArrive(n), ParseRTP(n)
  PROVE  Handled(n) /\ HasNewest'
<1>1. Handled(n)
  BY FirstHandled, ProbationHandled, ValidatedHandled DEF Validated
<1>2. mSource' # NoSource
  BY <1>1, SourceIsOne DEF Handled
<1>3. arrived' = arrived \cup {n}
  BY DEF ParseRTP
<1>4. n \in Int /\ arrived \subseteq Int
  BY NetworkAssumption DEF IInv, Shape, Indices
<1>5. \E x \in arrived' : \A m \in arrived' : m <= x
  <2>1. CASE arrived = {}
    BY <1>3, <1>4, <2>1
  <2>2. CASE arrived # {}
    <3>1. PICK x \in arrived : \A m \in arrived : m <= x
      BY <2>2 DEF IInv, HasNewest
    <3>2. CASE n <= x
      BY <1>3, <3>1, <3>2
    <3>3. CASE x <= n
      BY <1>3, <1>4, <3>1, <3>3
    <3> QED BY <1>4, <3>1, <3>2, <3>3
  <2> QED BY <2>1, <2>2
<1> QED BY <1>1, <1>2, <1>3, <1>5 DEF HasNewest

-----------------------------------------------------------------------------
(* The renderer and the sockets                                            *)

(* A packet is handed over: it is held, or it is too old and ignored.      *)
LEMMA HandOverPlays ==
  ASSUME Shape, Playing, NEW n, NEW ext \in Exts, HandOver(ext),
         origins' = origins \cup {<<ext, n>>}
  PROVE  Playing' /\ held' \subseteq Exts /\ last' = last /\ played' = played
<1>1. Numbers \subseteq Numbers' /\ ext \in Numbers'
  <2>1. Numbers \subseteq Numbers'
    BY DEF Numbers
  <2>2. <<ext, n>> \in origins' /\ <<ext, n>>[1] = ext
    OBVIOUS
  <2>3. ext \in Numbers'
    BY <2>2 DEF Numbers
  <2> QED BY <2>1, <2>3
<1>2. CASE ext > last
  <2>1. held' = held \cup {ext} /\ last' = last /\ played' = played
    BY <1>2 DEF HandOver, Renderer!Accept
  <2> QED BY <1>1, <1>2, <2>1 DEF Playing, Shape
<1>3. CASE ~(ext > last)
  <2>1. held' = held /\ last' = last /\ played' = played
    BY <1>3 DEF HandOver, renderer
  <2> QED BY <1>1, <2>1 DEF Playing, Shape
<1> QED BY <1>2, <1>3

(* The oldest packet held is newer than all that were played and older     *)
(* than the others.                                                        *)
LEMMA PlayPacketPlays ==
  ASSUME Shape, Playing, PlayPacket
  PROVE  /\ Playing' /\ held' \subseteq Exts /\ last' \in Exts /\ played' \in Seq(Exts)
         /\ UNCHANGED <<sockets, reports, mSource, history>>
<1>1. PICK e \in held :
        /\ \A f \in held : e <= f
        /\ held' = held \ {e} /\ last' = e /\ played' = Append(played, e)
        /\ UNCHANGED <<sockets, reports, mSource, history>>
  <2>1. PICK e \in held : Renderer!Play(e) /\ UNCHANGED <<sockets, reports, mSource, history>>
    BY DEF PlayPacket
  <2>2. /\ \A f \in held : e <= f
        /\ held' = held \ {e} /\ last' = e /\ played' = Append(played, e)
    BY <2>1 DEF Renderer!Play
  <2> QED BY <2>1, <2>2
<1>2. Exts \subseteq Int /\ held \subseteq Exts /\ e \in Exts /\ last \in Int /\ played \in Seq(Exts)
  BY NetworkAssumption, SeqModAssumption DEF Exts, Shape
<1>3. PICK k \in Nat : k = Len(played)
  BY <1>2
<1>4. /\ Len(played') = k + 1 /\ played'[k+1] = e
      /\ \A i \in 1..k : played'[i] = played[i] /\ played[i] \in Exts
      /\ played' \in Seq(Exts)
  BY <1>1, <1>2, <1>3
<1>5. Numbers' = Numbers /\ e \in Numbers
  BY <1>1 DEF Numbers, history, Playing
<1>6. held' \subseteq Numbers' /\ \A i \in 1..Len(played') : played'[i] \in Numbers'
  <2>1. \A i \in 1..k : played[i] \in Numbers
    BY <1>3 DEF Playing
  <2>2. \A i \in 1..k+1 : i \in 1..k \/ i = k+1
    BY <1>3
  <2>3. held \subseteq Numbers
    BY DEF Playing
  <2> QED BY <1>1, <1>4, <1>5, <2>1, <2>2, <2>3
<1>7. \A f \in held' : f > last'
  BY <1>1, <1>2
<1>8. \A i \in 1..k : played'[i] < e
  <2>1. e > last /\ \A i \in 1..k : played[i] <= last
    BY <1>3 DEF Playing
  <2>2. TAKE i \in 1..k
  <2>3. played[i] <= last /\ played[i] \in Int /\ last < e /\ e \in Int /\ last \in Int
    BY <1>2, <1>4, <2>1
  <2>4. played[i] < e
    BY <2>3
  <2> QED BY <1>4, <2>4
<1>9. \A i \in 1..Len(played') : played'[i] <= last'
  <2>1. \A i \in 1..k+1 : i \in 1..k \/ i = k+1
    BY <1>3
  <2>2. \A i \in 1..k : played'[i] \in Int
    BY <1>2, <1>4
  <2> QED BY <1>1, <1>2, <1>4, <1>8, <2>1, <2>2
<1>10. \A i, j \in 1..Len(played') : i < j => played'[i] < played'[j]
  <2>1. TAKE i, j \in 1..Len(played')
  <2>2. HAVE i < j
  <2>3. i \in 1..k /\ (j \in 1..k \/ j = k+1)
    BY <1>3, <1>4, <2>2
  <2>4. CASE j = k+1
    BY <1>4, <1>8, <2>3, <2>4
  <2>5. CASE j \in 1..k
    <3>1. played[i] < played[j]
      BY <1>3, <2>2, <2>3, <2>5 DEF Playing
    <3> QED BY <1>4, <2>3, <2>5, <3>1
  <2> QED BY <2>3, <2>4, <2>5
<1>11. Playing'
  BY <1>6, <1>7, <1>9, <1>10 DEF Playing
<1> QED BY <1>1, <1>2, <1>4, <1>11

(* The sockets are connected once, and the first report is scheduled then. *)
LEMMA ConnectKeeps ==
  ASSUME Shape, ConnectedOnce, NEW port \in 0..1, ConnectOnFirst(port)
  PROVE  /\ mIsConnectRemotePort' = TRUE /\ sendRR' \in 0..1
         /\ rtpPeer' \in Ports \cup {Unconnected} /\ rtcpPeer' \in Ports \cup {Unconnected}
<1>1. port \in Ports /\ port + 1 \in Ports
  BY DEF Ports
<1>2. CASE mIsConnectRemotePort
  BY <1>2 DEF ConnectOnFirst, Shape
<1>3. CASE ~mIsConnectRemotePort
  BY <1>1, <1>3 DEF ConnectOnFirst, Shape, ConnectedOnce
<1> QED BY <1>2, <1>3

(* What depends on the source and the history stays when they do.          *)
LEMMA SourceKept ==
  ASSUME HasNewest, OnProbation, Counting, Faithful, UNCHANGED <<mSource, history>>
  PROVE  HasNewest' /\ OnProbation' /\ Counting' /\ Faithful'
BY DEF HasNewest, OnProbation, Counting, Faithful, Validated, Top, history

LEMMA RendererKept ==
  ASSUME Playing, UNCHANGED <<renderer, history>>
  PROVE  Playing'
BY DEF Playing, Numbers, renderer, history

-----------------------------------------------------------------------------
(* The invariant is inductive                                              *)

LEMMA InitIInv ==
  ASSUME WithinWindows, Init
  PROVE  IInv
<1>1. Shape
  <2>1. held = {} /\ last = -1 /\ played = << >>
    BY DEF Init, Renderer!Init
  <2>2. 0 \in Indices /\ 0 \in 0..MaxCopies /\ 0 \in 0..1
    BY NetworkAssumption DEF Indices
  <2>3. /\ held \subseteq Exts /\ last \in Exts \cup {-1} /\ played \in Seq(Exts)
    BY <2>1
  <2> QED BY <2>2, <2>3 DEF Init, Shape
<1>2. HasNewest /\ OnProbation /\ Counting
  BY DEF Init, HasNewest, OnProbation, Counting, Validated
<1>3. ConnectedOnce /\ Faithful
  BY DEF Init, ConnectedOnce, Faithful
<1>4. Playing
  BY DEF Init, Renderer!Init, Playing
<1> QED BY <1>1, <1>2, <1>3, <1>4 DEF IInv

(* A datagram with a packet.                                               *)
LEMMA RTPDatagramKeeps ==
  ASSUME WithinWindows, IInv, NEW n \in Indices, RTPDatagram(n)
  PROVE  IInv'
<1> USE DEF IInv
<1>1. /\ MayArrive(n) /\ ParseRTP(n) /\ ConnectOnFirst(0)
      /\ UNCHANGED <<mRTPSession, mRTCPSession, reportsSent>>
  BY DEF RTPDatagram
<1>2. Handled(n) /\ HasNewest'
  BY <1>1, EveryPacketHandled
<1>3. PICK ext \in Exts :
        /\ origins' = origins \cup {<<ext, n>>} /\ HandOver(ext)
        /\ ext = n \/ FromBeforeWrap(n)
  BY <1>2 DEF Handled
<1>4. Playing' /\ held' \subseteq Exts /\ last' = last /\ played' = played
  BY <1>3, HandOverPlays
<1>5. /\ mIsConnectRemotePort' = TRUE /\ sendRR' \in 0..1
      /\ rtpPeer' \in Ports \cup {Unconnected} /\ rtcpPeer' \in Ports \cup {Unconnected}
  BY <1>1, ConnectKeeps
<1>6. /\ arrived' = arrived \cup {n}
      /\ copies' = IF n \in arrived THEN copies + 1 ELSE copies
      /\ lateAcrossWrap' = (lateAcrossWrap \/ FromBeforeWrap(n))
  BY <1>1 DEF ParseRTP
<1>7. copies' \in 0..MaxCopies
  <2>1. copies \in 0..MaxCopies /\ MaxCopies \in Nat /\ (n \in arrived => copies < MaxCopies)
    BY <1>1, NetworkAssumption DEF Shape, MayArrive
  <2> QED BY <1>6, <2>1
<1>8. lateAcrossWrap' \in BOOLEAN
  BY <1>6 DEF Shape, FromBeforeWrap
<1>9. Shape'
  <2>1. origins' \subseteq Exts \X Indices /\ arrived' \subseteq Indices
    BY <1>3, <1>6 DEF Shape
  <2> QED BY <1>1, <1>2, <1>4, <1>5, <1>7, <1>8, <2>1 DEF Shape, Handled
<1>10. ConnectedOnce'
  BY <1>5 DEF ConnectedOnce
<1>11. Faithful'
  <2>1. CASE lateAcrossWrap'
    BY <2>1 DEF Faithful
  <2>2. CASE ~lateAcrossWrap'
    <3>1. ext = n /\ ~lateAcrossWrap
      BY <1>3, <1>6, <2>2
    <3> QED BY <1>3, <3>1 DEF Faithful
  <2> QED BY <2>1, <2>2
<1> QED BY <1>2, <1>4, <1>9, <1>10, <1>11 DEF Handled

LEMMA Inductive ==
  ASSUME WithinWindows, IInv, [Next]_vars
  PROVE  IInv'
<1> USE DEF IInv
<1>1. ASSUME NEW n \in Indices, RTPDatagram(n) PROVE IInv'
  BY <1>1, RTPDatagramKeeps
<1>2. CASE RTCPDatagram
  <2>1. /\ mIsConnectRemotePort' = TRUE /\ sendRR' \in 0..1
        /\ rtpPeer' \in Ports \cup {Unconnected} /\ rtcpPeer' \in Ports \cup {Unconnected}
    BY <1>2, ConnectKeeps DEF RTCPDatagram
  <2>2. UNCHANGED <<mRTPSession, mRTCPSession, reportsSent, mSource, renderer, history>>
    BY <1>2 DEF RTCPDatagram
  <2>3. Shape' /\ ConnectedOnce'
    BY <2>1, <2>2 DEF Shape, ConnectedOnce, renderer, history
  <2> QED BY <2>2, <2>3, SourceKept, RendererKept
<1>3. CASE RTPError \/ RTCPError
  <2>1. /\ mRTPSession' \in BOOLEAN /\ mRTCPSession' \in BOOLEAN
        /\ UNCHANGED <<mIsConnectRemotePort, rtpPeer, rtcpPeer, reports, mSource, renderer, history>>
    BY <1>3 DEF RTPError, RTCPError, Shape
  <2>2. Shape' /\ ConnectedOnce'
    BY <2>1 DEF Shape, ConnectedOnce, reports, renderer, history
  <2> QED BY <2>1, <2>2, SourceKept, RendererKept
<1>4. CASE OnSendRR
  <2>1. reportsSent' \in 0..1 /\ UNCHANGED <<sockets, sendRR, mSource, renderer, history>>
    <3>1. reportsSent \in 0..1
      BY DEF Shape
    <3> QED BY <1>4, <3>1 DEF OnSendRR
  <2>2. Shape' /\ ConnectedOnce'
    BY <2>1 DEF Shape, ConnectedOnce, sockets, renderer, history
  <2> QED BY <2>1, <2>2, SourceKept, RendererKept
<1>5. CASE PlayPacket
  <2>1. /\ Playing' /\ held' \subseteq Exts /\ last' \in Exts /\ played' \in Seq(Exts)
        /\ UNCHANGED <<sockets, reports, mSource, history>>
    BY <1>5, PlayPacketPlays
  <2>2. Shape' /\ ConnectedOnce'
    BY <2>1 DEF Shape, ConnectedOnce, sockets, reports, history
  <2> QED BY <2>1, <2>2, SourceKept
<1>6. CASE UNCHANGED vars
  <2>1. UNCHANGED <<sockets, reports, mSource, renderer, history>>
    BY <1>6 DEF vars
  <2>2. Shape' /\ ConnectedOnce'
    BY <2>1 DEF Shape, ConnectedOnce, sockets, reports, renderer, history
  <2> QED BY <2>1, <2>2, SourceKept, RendererKept
<1> QED BY <1>1, <1>2, <1>3, <1>4, <1>5, <1>6 DEF Next

(* The invariant holds in every state.                                     *)
LEMMA Invariance ==
  ASSUME WithinWindows
  PROVE  Spec => []IInv
<1>1. Init => IInv
  BY InitIInv
<1>2. IInv /\ [Next]_vars => IInv'
  BY Inductive
<1> QED BY <1>1, <1>2, PTL DEF Spec

-----------------------------------------------------------------------------
(* The theorems                                                            *)

(* Whatever is received, lost, late or duplicated, in any order, the state *)
(* of the receiver has the types RTPSink.h declares, no two chains of      *)
(* reports run, and no packet is queued under a number out of reach.       *)
THEOREM TypeCorrect ==
  ASSUME WithinWindows
  PROVE  Spec => []TypeOK
<1>1. IInv => TypeOK
  BY DEF IInv, Shape, TypeOK
<1> QED BY <1>1, Invariance, PTL

(* The number of packets that are missing is at least what is expected     *)
(* less what has been counted.                                             *)
LEMMA MissingAtLeast ==
  ASSUME NEW lo \in Nat, NEW hi \in Nat, lo <= hi, NEW S, IsFiniteSet(S)
  PROVE  /\ Cardinality((lo..hi) \ S) \in Nat
         /\ Cardinality((lo..hi) \ S) >= hi - lo + 1 - Cardinality(S)
<1>1. IsFiniteSet(lo..hi) /\ Cardinality(lo..hi) = hi - lo + 1
  BY FS_Interval
<1>2. PICK T : T = lo..hi
  OBVIOUS
<1>3. /\ IsFiniteSet(T \cap S) /\ Cardinality(T \cap S) <= Cardinality(S)
      /\ IsFiniteSet(T \ S)
      /\ Cardinality(T \ S) = Cardinality(T) - Cardinality(T \cap S)
  <2>1. IsFiniteSet(T)
    BY <1>1, <1>2
  <2>2. IsFiniteSet(T \ S) /\ Cardinality(T \ S) = Cardinality(T) - Cardinality(T \cap S)
    BY <2>1, FS_Difference
  <2>3. T \cap S \subseteq S
    OBVIOUS
  <2> QED BY <2>2, <2>3, FS_Subset
<1>4. Cardinality(S) \in Nat /\ Cardinality((lo..hi) \cap S) \in Nat
  BY <1>2, <1>3, FS_CardinalityType
<1>5. Cardinality((lo..hi) \ S) \in Nat
  BY <1>2, <1>3, FS_CardinalityType
<1> QED BY <1>1, <1>2, <1>3, <1>4, <1>5

(* A report says the truth: the highest sequence number is that of the     *)
(* newest packet, and no more are reported lost than are missing. This is  *)
(* what addReportBlock promises the sender, after any number of wraps.     *)
THEOREM ReportsAreTrue ==
  ASSUME WithinWindows
  PROVE  Spec => []ReportIsTrue
<1>1. IInv => ReportIsTrue
  <2> SUFFICES ASSUME IInv, Validated
               PROVE  HighestIsNewest /\ LossNotOverstated
    BY DEF ReportIsTrue
  <2> USE DEF IInv
  <2>1. /\ Top \in counted /\ (\A n \in counted : n <= Top) /\ base \in counted
        /\ mSource.mBaseSeq = base /\ Cardinality(counted) <= mSource.mReceived
    BY DEF Counting
  <2>2. counted \subseteq Nat
    BY NetworkAssumption DEF Shape, Indices
  <2>3. Newest(counted) = Top
    BY <2>1, <2>2, NewestIs
  <2>4. HighestIsNewest
    BY <2>1, <2>3 DEF HighestIsNewest, Top
  <2>5. IsFiniteSet(counted)
    BY CountedIsFinite
  <2>6. PICK top \in Nat, lo \in Nat : top = Top /\ lo = base /\ lo <= top
    BY <2>1, <2>2
  <2>7. /\ Cardinality((lo..top) \ counted) \in Nat
        /\ Cardinality((lo..top) \ counted) >= top - lo + 1 - Cardinality(counted)
    BY <2>5, <2>6, MissingAtLeast
  <2>8. Cardinality(counted) \in Nat /\ mSource.mReceived \in Nat
    BY <2>5, FS_CardinalityType DEF Shape, Validated, SourceType
  <2>9. top - lo + 1 - mSource.mReceived <= Cardinality((lo..top) \ counted)
    BY <2>1, <2>6, <2>7, <2>8
  <2>10. CumulativeLost(mSource) = top - lo + 1 - mSource.mReceived
    <3>1. Expected(mSource) = Top - base + 1
      BY <2>1 DEF Expected, Top
    <3>2. Expected(mSource) = top - lo + 1
      BY <2>6, <3>1
    <3> QED BY <2>8, <3>2 DEF CumulativeLost
  <2> QED BY <2>3, <2>4, <2>6, <2>9, <2>10 DEF LossNotOverstated
<1> QED BY <1>1, Invariance, PTL

(* Unless a packet from before a wrap of the numbers comes after it, what  *)
(* is played is in the order in which the sender numbered it.              *)
THEOREM PlaysInSendingOrder ==
  ASSUME WithinWindows
  PROVE  Spec => []PlayedInSendingOrder
<1>1. IInv => PlayedInSendingOrder
  <2> SUFFICES ASSUME IInv, ~lateAcrossWrap, NEW i \in 1..Len(played), NEW j \in 1..Len(played),
                      i < j
               PROVE  \E m \in CarriedBy(played[i]), n \in CarriedBy(played[j]) : m < n
    BY DEF PlayedInSendingOrder
  <2>1. \A k \in 1..Len(played) : played[k] \in CarriedBy(played[k])
    <3>1. TAKE k \in 1..Len(played)
    <3>2. PICK o \in origins : o[1] = played[k]
      BY DEF IInv, Playing, Numbers
    <3>3. o[2] = played[k]
      BY <3>2 DEF IInv, Faithful
    <3> QED BY <3>2, <3>3 DEF CarriedBy
  <2>2. played[i] < played[j]
    BY DEF IInv, Playing
  <2> QED BY <2>1, <2>2
<1> QED BY <1>1, Invariance, PTL
=============================================================================
