------------------------------ MODULE RtpSource ------------------------------
(***************************************************************************)
(* RTPSink::Source of sink/RTPSink.cpp: the validation of RFC 3550,        *)
(* appendix A.1, for one SSRC, as operators on the Source object.          *)
(*                                                                         *)
(* An operation of the class that queues its packet for the renderer is a  *)
(* record [src |-> the object afterwards, ext |-> the extended sequence    *)
(* number of the packet queued, or NotQueued].                             *)
(*                                                                         *)
(* The 16 bit sequence numbers are numbers below SeqMod. mCycles is a      *)
(* multiple of SeqMod, so "mCycles | seq" is mCycles + seq. The fraction   *)
(* lost since the last report (mExpectedPrior, mReceivedPrior) is left out.*)
(***************************************************************************)
EXTENDS Integers

CONSTANTS
  SeqMod,         \* kRTPSeqMod = 65536
  MaxDropout,     \* kMaxDropout = 3000
  MaxMisorder,    \* kMaxMisorder = 100
  MinSequential   \* kMinSequential = 2

ASSUME SeqModAssumption ==
  /\ SeqMod \in Nat /\ MaxDropout \in Nat \ {0} /\ MaxMisorder \in Nat \ {0}
  /\ MaxDropout + MaxMisorder <= SeqMod

(* With 1 a packet out of sequence would end the probation uninitialised.  *)
ASSUME MinSequentialAssumption == MinSequential \in Nat \ {0, 1}

Seqs      == 0..SeqMod-1
NotQueued == -1

(* No sequence number equals it: no second packet of a jump is awaited.    *)
NoBadSeq == SeqMod + 1

SourceType ==
  [mMaxSeq : Seqs, mCycles : Nat, mBaseSeq : Seqs, mBadSeq : Seqs \cup {NoBadSeq},
   mProbation : 0..MinSequential, mReceived : Nat]

InitSeq(src, seq) ==
  [mMaxSeq |-> seq, mCycles |-> 0, mBaseSeq |-> seq, mBadSeq |-> NoBadSeq,
   mProbation |-> src.mProbation, mReceived |-> 0]

Queued(src, seq) == [src |-> src, ext |-> src.mCycles + seq]

(* The constructor: the first packet of an SSRC.                           *)
NewSource(seq) ==
  LET fresh == InitSeq([mProbation |-> MinSequential], seq)
  IN  Queued([fresh EXCEPT !.mMaxSeq = (seq - 1) % SeqMod], seq)

(* updateSeq while mProbation > 0. "seq == mMaxSeq + 1" is compared as int,*)
(* so 0 does not follow SeqMod - 1 here.                                   *)
ProbationSeq(src, seq) ==
  IF seq = src.mMaxSeq + 1
    THEN LET next == [src EXCEPT !.mProbation = @ - 1, !.mMaxSeq = seq]
         IN  [src |-> IF next.mProbation = 0
                        THEN [InitSeq(next, seq) EXCEPT !.mReceived = 1]
                        ELSE next,
              ext |-> src.mCycles + seq]
    ELSE Queued([src EXCEPT !.mProbation = MinSequential - 1, !.mMaxSeq = seq], seq)

(* Fault: packets are not counted.                                         *)
ReceiveUncounted(src, seq) == Queued(src, seq)

Receive(src, seq) == Queued([src EXCEPT !.mReceived = @ + 1], seq)

(* Fault: a wrap of the sequence number is not counted.                    *)
AdvanceNoWrap(src, seq) == [src EXCEPT !.mMaxSeq = seq]

(* In order, with permissible gap: one more cycle when the number wrapped. *)
Advance(src, seq) ==
  [src EXCEPT !.mMaxSeq = seq,
              !.mCycles = IF seq < src.mMaxSeq THEN @ + SeqMod ELSE @]

(* The sequence number made a very large jump: the second of two           *)
(* sequential packets resynchronises, the first one is dropped.            *)
Jump(src, seq) ==
  IF seq = src.mBadSeq
    THEN Receive(InitSeq(src, seq), seq)
    ELSE [src |-> [src EXCEPT !.mBadSeq = (seq + 1) % SeqMod], ext |-> NotQueued]

(* Fault: a reordered packet moves the highest sequence number back.       *)
UpdateSeqMovesBack(src, seq) ==
  IF src.mProbation > 0 THEN ProbationSeq(src, seq)
                        ELSE Receive(Advance(src, seq), seq)

UpdateSeq(src, seq) ==
  LET udelta == (seq - src.mMaxSeq) % SeqMod
  IN  IF src.mProbation > 0                     THEN ProbationSeq(src, seq)
      ELSE IF udelta < MaxDropout               THEN Receive(Advance(src, seq), seq)
      ELSE IF udelta <= SeqMod - MaxMisorder    THEN Jump(src, seq)
      ELSE Receive(src, seq)                    \* duplicate or reordered

(* What addReportBlock reports, before it is clamped and packed.           *)
ExtMaxSeq(src) == src.mMaxSeq + src.mCycles
Expected(src)  == ExtMaxSeq(src) - src.mBaseSeq + 1
CumulativeLost(src) == Expected(src) - src.mReceived

=============================================================================
