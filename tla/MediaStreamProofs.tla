-------------------------- MODULE MediaStreamProofs --------------------------
(***************************************************************************)
(* Proofs about MediaStream: for any plan of access units, any number of   *)
(* tracks, losses and socket errors, and any width of the counters and the *)
(* sequence numbers.                                                       *)
(*                                                                         *)
(* First TSPacketizer: for access units of every size and any stuffing     *)
(* that leaves room in the first packet, packetize makes room for exactly  *)
(* the packets its loop writes and fills each of them. The invariant: the  *)
(* packets still to be written, num - Len(packets), are what the rest of   *)
(* the unit needs at 184 bytes a packet.                                   *)
(*                                                                         *)
(* All that packetize has written is one stream, in which every PID counts *)
(* its packets. RTP packet n is the piece of it that begins at cut[n], and *)
(* n + 1 begins where n ends, for every packet that is still in a list, in *)
(* the history, on its way or at the sink. So what is played in the order  *)
(* of the numbers is one piece, too.                                       *)
(***************************************************************************)
EXTENDS MediaStream, FiniteSetTheorems, NaturalsInduction, TLAPS

-----------------------------------------------------------------------------
(* The packetizer                                                          *)

TrackType == [kind : Kinds, pid : Nat, streamID : Nat, cc : Counters]

TracksTyped ==
  /\ mTracks \in Seq(TrackType)
  /\ mPATContinuityCounter \in Counters
  /\ mPMTContinuityCounter \in Counters

JobType == [num : Nat, track : Nat, size : Nat, offset : Nat,
            packets : Seq([pid : Nat, cc : Nat, bytes : Nat])]

(* Packets that the rest of a unit takes.                                  *)
Needed(rest) == (rest + 183) \div 184

JobOnCourse ==
  job # NoJob =>
    /\ job \in JobType
    /\ job.track \in 1..Len(mTracks)
    /\ job.packets # << >>
    /\ job.offset <= job.size
    /\ job.num = Len(job.packets) + Needed(job.size - job.offset)

PacketizerInv == TracksTyped /\ JobOnCourse /\ failed = FALSE

-----------------------------------------------------------------------------
(* Arithmetic                                                              *)

(* The first packet: the data fills it, and the rest needs the packets     *)
(* Fragments counted besides it.                                           *)
LEMMA FirstPacketFits ==
  ASSUME NEW size \in Nat, NEW extra \in 0..170
  PROVE  /\ FirstRoom(size, extra) = Smaller(size, FirstRoom(size, extra))
         /\ FirstRoom(size, extra) \in Nat
         /\ FirstRoom(size, extra) <= size
         /\ Fragments(PESLength(size, extra)) \in Nat
         /\ Fragments(PESLength(size, extra)) =
              1 + Needed(size - FirstRoom(size, extra))
<1> DEFINE len  == PESLength(size, extra)
           room == FirstRoom(size, extra)
           copy == Smaller(size, room)
<1>0. len = size + 8 + extra
  BY DEF PESLength
<1>1. CASE len < 178
  <2>1. Padding(178, len) = 178 - len
    BY <1>1 DEF Padding
  <2>2. room = size
    BY <2>1, <1>0 DEF FirstRoom
  <2>3. copy = size
    BY <2>2 DEF Smaller
  <2>4. Needed(size - copy) = 0
    BY <2>3 DEF Needed
  <2>5. Fragments(len) = 1
    BY <1>1, <1>0 DEF Fragments
  <2> QED BY <2>2, <2>3, <2>4, <2>5
<1>2. CASE len >= 178
  <2>1. Padding(178, len) = 0
    BY <1>2, <1>0 DEF Padding
  <2>2. room = 170 - extra
    BY <2>1 DEF FirstRoom
  <2>3. room <= size
    BY <2>2, <1>2, <1>0
  <2>4. copy = room
    BY <2>2, <2>3 DEF Smaller
  <2>5. size - copy = len - 178
    BY <2>2, <2>4, <1>0
  <2>6. Fragments(len) = 1 + Needed(len - 178)
    <3>1. CASE len = 178
      BY <3>1 DEF Fragments, Needed
    <3>2. CASE len > 178
      BY <3>2, <1>0 DEF Fragments, Needed
    <3> QED BY <3>1, <3>2, <1>2, <1>0
  <2>7. Needed(len - 178) \in Nat
    BY <1>2, <1>0 DEF Needed
  <2> QED BY <2>2, <2>3, <2>4, <2>5, <2>6, <2>7
<1> QED BY <1>0, <1>1, <1>2

(* A further packet: the data fills it and needs one packet less after it. *)
LEMMA FragmentFits ==
  ASSUME NEW rest \in Nat, rest > 0
  PROVE  /\ RestRoom(rest) = Smaller(rest, RestRoom(rest))
         /\ RestRoom(rest) \in Nat
         /\ RestRoom(rest) <= rest
         /\ Needed(rest) = 1 + Needed(rest - RestRoom(rest))
<1> DEFINE room == RestRoom(rest)
           copy == Smaller(rest, room)
<1>1. CASE rest < 184
  <2>1. room = rest
    BY <1>1 DEF Padding, RestRoom
  <2>2. copy = rest
    BY <2>1 DEF Smaller
  <2>3. Needed(rest) = 1
    BY <1>1 DEF Needed
  <2>4. Needed(rest - copy) = 0
    BY <2>2 DEF Needed
  <2> QED BY <2>1, <2>2, <2>3, <2>4
<1>2. CASE rest >= 184
  <2>1. room = 184
    BY <1>2 DEF Padding, RestRoom
  <2>2. copy = 184
    BY <2>1, <1>2 DEF Smaller
  <2>3. Needed(rest) = 1 + Needed(rest - 184)
    BY <1>2 DEF Needed
  <2> QED BY <2>1, <2>2, <2>3, <1>2
<1> QED BY <1>1, <1>2

-----------------------------------------------------------------------------
(* The invariant                                                           *)

(* A counter stays a counter.                                              *)
LEMMA StepType ==
  ASSUME NEW counter \in Counters
  PROVE  Step(counter) \in Counters
BY CounterModAssumption DEF Counters, Step

(* A record with a track is not NoJob.                                     *)
LEMMA NoJobIsNoJob ==
  ASSUME NEW j \in JobType
  PROVE  j # NoJob
<1>1. DOMAIN j = {"num", "track", "size", "offset", "packets"}
  BY DEF JobType
<1>2. DOMAIN NoJob = {"num"}
  BY DEF NoJob
<1> QED BY <1>1, <1>2

(* The invariant holds at first.                                           *)
LEMMA InitHolds == TSInit => PacketizerInv
<1> SUFFICES ASSUME TSInit PROVE PacketizerInv
  OBVIOUS
<1>1. TracksTyped
  BY CounterModAssumption DEF TSInit, TracksTyped, Counters
<1> QED BY <1>1 DEF TSInit, PacketizerInv, JobOnCourse

(* The number of tracks of some kinds, and how an added track counts.      *)
LEMMA CountType ==
  ASSUME mTracks \in Seq(TrackType), NEW P
  PROVE  CountTracks(P) \in Nat
<1> DEFINE T == {t \in 1..Len(mTracks) : mTracks[t].kind \in P}
<1>1. IsFiniteSet(1..Len(mTracks)) /\ T \subseteq 1..Len(mTracks)
  BY FS_Interval
<1>2. IsFiniteSet(T)
  BY <1>1, FS_Subset
<1> QED BY <1>2, FS_CardinalityType DEF CountTracks

LEMMA AppendedCounts ==
  ASSUME mTracks \in Seq(TrackType), NEW new \in TrackType,
         mTracks' = Append(mTracks, new), NEW P
  PROVE  CountTracks(P)' = CountTracks(P) + (IF new.kind \in P THEN 1 ELSE 0)
<1> DEFINE n == Len(mTracks)
           T == {t \in 1..n : mTracks[t].kind \in P}
           U == {t \in 1..n+1 : Append(mTracks, new)[t].kind \in P}
<1>1. n \in Nat /\ Len(mTracks') = n + 1
  OBVIOUS
<1>2. IsFiniteSet(1..n) /\ T \subseteq 1..n
  BY <1>1, FS_Interval
<1>3. IsFiniteSet(T) /\ n + 1 \notin T
  BY <1>1, <1>2, FS_Subset
<1>4. Cardinality(T) \in Nat
  BY <1>3, FS_CardinalityType
<1>5. /\ \A t \in 1..n : Append(mTracks, new)[t] = mTracks[t]
      /\ Append(mTracks, new)[n+1] = new
  OBVIOUS
<1>6. U = IF new.kind \in P THEN T \cup {n+1} ELSE T
  <2>1. 1..n+1 = (1..n) \cup {n+1}
    BY <1>1
  <2> HIDE DEF n
  <2> QED BY <1>5, <2>1
<1>7. Cardinality(T \cup {n+1}) = Cardinality(T) + 1
  BY <1>3, FS_AddElement
<1>8. CountTracks(P) = Cardinality(T) /\ CountTracks(P)' = Cardinality(U)
  BY <1>1 DEF CountTracks
<1> HIDE DEF T, U, n
<1>9. CASE new.kind \in P
  <2>1. Cardinality(U) = Cardinality(T) + 1
    BY <1>3, <1>6, <1>7, <1>9
  <2> QED BY <1>8, <1>9, <2>1
<1>10. CASE new.kind \notin P
  BY <1>4, <1>6, <1>8, <1>10
<1> QED BY <1>9, <1>10

(* addTrack keeps it.                                                      *)
LEMMA AddTrackHolds ==
  ASSUME PacketizerInv, NEW kind \in Kinds, AddTrack(kind)
  PROVE  PacketizerInv'
<1> USE DEF PacketizerInv
<1> DEFINE new == [kind |-> kind,
                   pid |-> FirstPID(kind) + CountTracks(SameClass(kind)),
                   streamID |-> FirstStreamID(kind) + CountTracks({kind}),
                   cc |-> 0]
<1>1. \A P : CountTracks(P) \in Nat
  BY CountType DEF TracksTyped
<1>2. FirstPID(kind) \in Nat /\ FirstStreamID(kind) \in Nat
  BY DEF Kinds, FirstPID, FirstStreamID, IsVideo
<1>3. new \in TrackType
  BY <1>1, <1>2, CounterModAssumption DEF TrackType, Counters
<1>4. mTracks' = Append(mTracks, new)
  BY DEF AddTrack
<1>5. mTracks' \in Seq(TrackType)
  BY <1>3, <1>4 DEF TracksTyped
<1>6. TracksTyped'
  BY <1>5 DEF AddTrack, TracksTyped
<1>7. JobOnCourse'
  BY DEF AddTrack, JobOnCourse
<1> QED BY <1>6, <1>7 DEF AddTrack

(* CountPacket only moves one counter.                                     *)
LEMMA CountPacketTyped ==
  ASSUME mTracks \in Seq(TrackType), NEW t \in 1..Len(mTracks), CountPacket(t)
  PROVE  /\ mTracks' \in Seq(TrackType)
         /\ Len(mTracks') = Len(mTracks)
<1>1. mTracks[t] \in TrackType
  OBVIOUS
<1>2. Step(mTracks[t].cc) \in Counters
  BY <1>1, StepType DEF TrackType
<1>3. [mTracks[t] EXCEPT !.cc = Step(mTracks[t].cc)] \in TrackType
  BY <1>1, <1>2 DEF TrackType
<1>4. mTracks' = [mTracks EXCEPT ![t] =
                    [mTracks[t] EXCEPT !.cc = Step(mTracks[t].cc)]]
  BY DEF CountPacket
<1> QED BY <1>3, <1>4

(* A transport stream packet has its type.                                 *)
LEMMA PacketTyped ==
  ASSUME NEW pid \in Nat, NEW cc \in Counters, NEW bytes \in Nat
  PROVE  TSPacket(pid, cc, bytes) \in [pid : Nat, cc : Nat, bytes : Nat]
BY CounterModAssumption DEF TSPacket, Counters

(* The tables are three packets without data.                              *)
LEMMA TablesTyped ==
  ASSUME TracksTyped
  PROVE  /\ Tables \in Seq([pid : Nat, cc : Nat, bytes : Nat])
         /\ Len(Tables) = 3
<1>1. 0 \in Counters
  BY CounterModAssumption DEF Counters
<1>2. /\ Step(mPATContinuityCounter) \in Counters
      /\ Step(mPMTContinuityCounter) \in Counters
  BY StepType DEF TracksTyped
<1>3. PAT \in Nat /\ PMT \in Nat /\ PCR \in Nat
  BY DEF PAT, PMT, PCR
<1> DEFINE a == TSPacket(PAT, Step(mPATContinuityCounter), 0)
           b == TSPacket(PMT, Step(mPMTContinuityCounter), 0)
           c == TSPacket(PCR, 0, 0)
           P == [pid : Nat, cc : Nat, bytes : Nat]
<1>4. a \in P /\ b \in P /\ c \in P
  BY <1>1, <1>2, <1>3, PacketTyped
<1>5. Tables = <<a, b, c>>
  BY DEF Tables
<1> HIDE DEF a, b, c, P
<1>6. <<a, b, c>> \in Seq(P) /\ Len(<<a, b, c>>) = 3
  BY <1>4
<1> QED BY <1>5, <1>6 DEF P

(* packetize up to the first data packet keeps it: Fragments counts what   *)
(* the rest needs.                                                         *)
LEMMA PacketizeHolds ==
  ASSUME PacketizerInv, NEW t \in 1..Len(mTracks), NEW size \in Nat,
         NEW extra \in 0..170, NEW tables \in BOOLEAN,
         Fits(t, size, extra), Packetize(t, size, extra, tables)
  PROVE  PacketizerInv'
<1> DEFINE P     == [pid : Nat, cc : Nat, bytes : Nat]
           len   == PESLength(size, extra)
           room  == FirstRoom(size, extra)
           copy  == Smaller(size, room)
           lead  == IF tables THEN Tables ELSE << >>
           first == TSPacket(mTracks[t].pid, mTracks[t].cc, copy)
           packets == Append(lead, first)
<1>0. size \in Nat /\ extra \in 0..170
  OBVIOUS
<1>1. /\ room = copy /\ copy \in Nat /\ copy <= size
      /\ Fragments(len) \in Nat
      /\ Fragments(len) = 1 + Needed(size - copy)
  BY <1>0, FirstPacketFits
<1>2. mTracks \in Seq(TrackType) /\ mTracks[t] \in TrackType
  BY DEF PacketizerInv, TracksTyped
<1>3. first \in P
  BY <1>1, <1>2, PacketTyped DEF TrackType
<1>4. lead \in Seq(P) /\ Len(lead) \in Nat
  BY TablesTyped DEF PacketizerInv
<1>5. /\ job' = [num |-> Fragments(len) + Len(lead), track |-> t,
                 size |-> size, offset |-> copy, packets |-> packets]
      /\ failed' = ~FirstChecks(t, len, room, copy)
      /\ CountPacket(t)
      /\ mPATContinuityCounter' =
           IF tables THEN Step(mPATContinuityCounter) ELSE mPATContinuityCounter
      /\ mPMTContinuityCounter' =
           IF tables THEN Step(mPMTContinuityCounter) ELSE mPMTContinuityCounter
  BY DEF Packetize
<1>6. mTracks' \in Seq(TrackType) /\ Len(mTracks') = Len(mTracks)
  BY <1>2, <1>5, CountPacketTyped
<1>7. TracksTyped'
  BY <1>5, <1>6, StepType DEF TracksTyped, PacketizerInv
<1>8. FirstChecks(t, len, room, copy)
  BY <1>1 DEF FirstChecks, Fits
<1> HIDE DEF len, room, copy, lead, first, P
<1>9. packets \in Seq(P) /\ Len(packets) = Len(lead) + 1
  BY <1>3, <1>4
<1> HIDE DEF packets
<1>10. t \in Nat /\ Fragments(len) + Len(lead) \in Nat
  BY <1>1, <1>2, <1>4
<1>11. job' \in JobType
  <2>1. job' = [num |-> Fragments(len) + Len(lead), track |-> t,
                size |-> size, offset |-> copy, packets |-> packets]
    BY <1>5
  <2>2. size \in Nat /\ copy \in Nat
    BY <1>0, <1>1
  <2> HIDE DEF P
  <2>3. packets \in Seq([pid : Nat, cc : Nat, bytes : Nat])
    BY <1>9 DEF P
  <2> QED BY <1>10, <2>1, <2>2, <2>3, Zenon DEF JobType
<1>12. /\ job'.num = Fragments(len) + Len(lead) /\ job'.track = t
       /\ job'.size = size /\ job'.offset = copy /\ job'.packets = packets
  BY <1>5
<1>13. Needed(size - copy) \in Nat
  BY <1>0, <1>1 DEF Needed
<1>14. Fragments(len) + Len(lead) = Len(packets) + Needed(size - copy)
  BY <1>1, <1>4, <1>9, <1>13
<1>15. JobOnCourse'
  BY <1>1, <1>6, <1>11, <1>12, <1>14 DEF JobOnCourse, Needed
<1> QED BY <1>5, <1>7, <1>8, <1>15 DEF PacketizerInv

(* A turn of the loop writes one packet, full, and leaves the rest one     *)
(* less.                                                                   *)
LEMMA NextFragmentHolds ==
  ASSUME PacketizerInv, NextFragment
  PROVE  PacketizerInv'
<1> DEFINE P     == [pid : Nat, cc : Nat, bytes : Nat]
           rest  == job.size - job.offset
           room  == RestRoom(rest)
           copy  == Smaller(rest, room)
           track == mTracks[job.track]
           new   == TSPacket(track.pid, track.cc, copy)
<1>1. /\ job \in JobType /\ job.track \in 1..Len(mTracks)
      /\ job.num = Len(job.packets) + Needed(rest)
      /\ job.offset < job.size
  BY DEF NextFragment, PacketizerInv, JobOnCourse
<1>2. /\ job.num \in Nat /\ job.track \in Nat /\ job.size \in Nat
      /\ job.offset \in Nat /\ job.packets \in Seq(P)
  BY <1>1 DEF JobType
<1>3. rest \in Nat /\ rest > 0
  BY <1>1, <1>2
<1>4. /\ room = copy /\ copy \in Nat /\ copy <= rest
      /\ Needed(rest) = 1 + Needed(rest - copy)
  BY <1>3, FragmentFits
<1>5. mTracks \in Seq(TrackType) /\ track \in TrackType
  BY <1>1 DEF PacketizerInv, TracksTyped
<1>6. new \in P
  BY <1>4, <1>5, PacketTyped DEF TrackType
<1>7. /\ job' = [job EXCEPT !.offset = @ + copy, !.packets = Append(@, new)]
      /\ CountPacket(job.track)
      /\ failed' = (room # copy)
      /\ UNCHANGED <<mPATContinuityCounter, mPMTContinuityCounter>>
  BY DEF NextFragment
<1>8. mTracks' \in Seq(TrackType) /\ Len(mTracks') = Len(mTracks)
  BY <1>1, <1>5, <1>7, CountPacketTyped
<1>9. TracksTyped'
  BY <1>7, <1>8 DEF TracksTyped, PacketizerInv
<1> HIDE DEF rest, room, copy, track, new, P
<1>10. /\ Append(job.packets, new) \in Seq(P)
       /\ Len(Append(job.packets, new)) = Len(job.packets) + 1
  BY <1>2, <1>6
<1>11. job' = [num |-> job.num, track |-> job.track, size |-> job.size,
               offset |-> job.offset + copy,
               packets |-> Append(job.packets, new)]
  BY <1>1, <1>7 DEF JobType
<1>12. job.offset + copy \in Nat
  BY <1>2, <1>4
<1>13. job' \in JobType
  BY <1>2, <1>10, <1>11, <1>12 DEF JobType, P
<1>14. /\ job'.num = job.num /\ job'.track = job.track /\ job'.size = job.size
       /\ job'.offset = job.offset + copy
       /\ job'.packets = Append(job.packets, new)
  BY <1>11
<1>15. /\ job.size - (job.offset + copy) = rest - copy
       /\ job.offset + copy <= job.size
  BY <1>2, <1>4 DEF rest
<1>16. Needed(rest - copy) \in Nat /\ Len(job.packets) \in Nat
  BY <1>2, <1>3, <1>4 DEF Needed
<1>17. job.num = Len(job.packets) + 1 + Needed(rest - copy)
  BY <1>1, <1>4, <1>16
<1>18. job'.num = Len(job'.packets) + Needed(job'.size - job'.offset)
  BY <1>10, <1>14, <1>15, <1>17
<1>19. job'.packets # << >>
  BY <1>2, <1>10, <1>14
<1>20. JobOnCourse'
  BY <1>1, <1>8, <1>13, <1>14, <1>15, <1>18, <1>19 DEF JobOnCourse
<1> QED BY <1>4, <1>7, <1>9, <1>20 DEF PacketizerInv

(* When nothing is left all packets made room for are written.             *)
LEMMA FinishHolds ==
  ASSUME PacketizerInv, Finish
  PROVE  PacketizerInv'
<1>1. /\ job \in JobType
      /\ job.offset <= job.size /\ job.offset >= job.size
      /\ job.num = Len(job.packets) + Needed(job.size - job.offset)
  BY DEF Finish, PacketizerInv, JobOnCourse
<1>2. job.size \in Nat /\ job.offset \in Nat /\ Len(job.packets) \in Nat
  BY <1>1 DEF JobType
<1>3. Needed(job.size - job.offset) = 0
  BY <1>1, <1>2 DEF Needed
<1>4. Len(job.packets) = job.num
  BY <1>1, <1>2, <1>3
<1>5. failed' = FALSE /\ job' = NoJob
  BY <1>4 DEF Finish
<1>6. TracksTyped'
  BY DEF Finish, PacketizerInv, TracksTyped
<1> QED BY <1>5, <1>6 DEF PacketizerInv, JobOnCourse

-----------------------------------------------------------------------------
(* PIDs                                                                    *)

Reserved == {PAT, PMT, PCR}

(* No two tracks share a PID, nor a track one with the tables or the clock.*)
DistinctPIDs ==
  /\ \A t \in 1..Len(mTracks) : mTracks[t].pid \notin Reserved
  /\ \A t, u \in 1..Len(mTracks) : t # u => mTracks[t].pid # mTracks[u].pid

(* Why: each class of tracks uses its PIDs one after the other, and video  *)
(* runs out of stream ids before its PIDs reach those of audio.            *)
PIDsInUse(kind) == FirstPID(kind)..(FirstPID(kind) + CountTracks(SameClass(kind)) - 1)

PIDsCounted ==
  /\ \A t \in 1..Len(mTracks) : mTracks[t].pid \in PIDsInUse(mTracks[t].kind)
  /\ CountTracks(SameClass("avc")) <= 16
  /\ DistinctPIDs

(* No track has a PID yet.                                                 *)
LEMMA InitDistinct == TSInit => PIDsCounted
<1> SUFFICES ASSUME TSInit PROVE PIDsCounted
  OBVIOUS
<1>1. mTracks = << >> /\ Len(mTracks) = 0
  BY DEF TSInit
<1>2. CountTracks(SameClass("avc")) = 0
  <2>1. {t \in 1..Len(mTracks) : mTracks[t].kind \in SameClass("avc")} = {}
    BY <1>1
  <2> QED BY <2>1, FS_EmptySet DEF CountTracks
<1> QED BY <1>1, <1>2 DEF PIDsCounted, DistinctPIDs

(* The two classes.                                                        *)
LEMMA Classes ==
  ASSUME NEW kind \in Kinds, NEW other \in Kinds
  PROVE  /\ IF IsVideo(kind) THEN FirstPID(kind) = 4113 ELSE FirstPID(kind) = 4352
         /\ IsVideo(kind) = IsVideo(other) => SameClass(kind) = SameClass(other)
         /\ IsVideo(kind) # IsVideo(other) => other \notin SameClass(kind)
         /\ kind \in SameClass(kind)
         /\ IsVideo(kind) => kind = "avc" /\ SameClass(kind) = {kind}
BY DEF Kinds, IsVideo, FirstPID, SameClass

(* A PID that is in use.                                                   *)
LEMMA InUse ==
  ASSUME mTracks \in Seq(TrackType), NEW kind \in Kinds, NEW pid \in PIDsInUse(kind)
  PROVE  /\ pid \in Nat
         /\ pid >= FirstPID(kind) /\ pid < FirstPID(kind) + CountTracks(SameClass(kind))
<1>1. CountTracks(SameClass(kind)) \in Nat
  BY CountType
<1>2. FirstPID(kind) \in Nat
  BY Classes
<1> QED BY <1>1, <1>2 DEF PIDsInUse

(* Adding a track keeps all this.                                          *)
LEMMA AddTrackDistinct ==
  ASSUME PacketizerInv, PIDsCounted, NEW kind \in Kinds, AddTrack(kind)
  PROVE  /\ PIDsCounted'
         /\ \A t \in 1..Len(mTracks) :
              mTracks'[t] = mTracks[t] /\ mTracks[t].pid # mTracks'[Len(mTracks) + 1].pid
         /\ mTracks'[Len(mTracks) + 1].pid \notin Reserved
         /\ Len(mTracks') = Len(mTracks) + 1
         /\ mTracks'[Len(mTracks) + 1].cc = 0
         /\ mTracks'[Len(mTracks) + 1].kind = kind
<1> DEFINE n   == Len(mTracks)
           pid == FirstPID(kind) + CountTracks(SameClass(kind))
           new == [kind |-> kind, pid |-> pid,
                   streamID |-> FirstStreamID(kind) + CountTracks({kind}),
                   cc |-> 0]
<1>1. mTracks \in Seq(TrackType) /\ n \in Nat
  BY DEF PacketizerInv, TracksTyped
<1>2. \A P : CountTracks(P) \in Nat
  BY <1>1, CountType
<1>3. FirstPID(kind) \in Nat /\ FirstStreamID(kind) \in Nat
  BY DEF Kinds, FirstPID, FirstStreamID, IsVideo
<1>4. new \in TrackType
  BY <1>2, <1>3, CounterModAssumption DEF TrackType, Counters
<1>5. mTracks' = Append(mTracks, new)
  BY DEF AddTrack
<1>6. /\ mTracks' \in Seq(TrackType) /\ Len(mTracks') = n + 1
      /\ \A t \in 1..n : mTracks'[t] = mTracks[t]
      /\ mTracks'[n+1].kind = kind /\ mTracks'[n+1].pid = pid /\ mTracks'[n+1].cc = 0
  <2>1. new.kind = kind /\ new.pid = pid /\ new.cc = 0
    OBVIOUS
  <2> HIDE DEF new
  <2>2. mTracks'[n+1] = new
    BY <1>1, <1>4, <1>5
  <2> QED BY <1>1, <1>4, <1>5, <2>1, <2>2
<1>7. \A P : CountTracks(P)' = CountTracks(P) + (IF kind \in P THEN 1 ELSE 0)
  <2> SUFFICES ASSUME NEW P
               PROVE  CountTracks(P)' = CountTracks(P) + (IF kind \in P THEN 1 ELSE 0)
    OBVIOUS
  <2>1. new.kind = kind
    OBVIOUS
  <2> HIDE DEF new
  <2>2. CountTracks(P)' = CountTracks(P) + (IF new.kind \in P THEN 1 ELSE 0)
    BY <1>1, <1>4, <1>5, AppendedCounts
  <2> QED BY <2>1, <2>2
<1> HIDE DEF new, n
<1>8. \A t \in 1..n : mTracks[t].kind \in Kinds /\ mTracks[t].pid \in Nat
  <2>1. \A t \in 1..n : mTracks[t] \in TrackType
    BY <1>1 DEF n
  <2> QED BY <2>1 DEF TrackType
<1>9. "avc" \in Kinds
  BY DEF Kinds
<1>10. CountTracks(SameClass("avc"))' <= 16
  <2>1. CASE IsVideo(kind)
    <3>1. kind = "avc" /\ SameClass("avc") = {kind}
      BY <2>1, Classes
    <3>2. CountTracks({kind}) <= 15
      <4>1. FirstStreamID(kind) = 224 /\ LastStreamID(kind) = 239
        BY <3>1 DEF FirstStreamID, LastStreamID
      <4>2. FirstStreamID(kind) + CountTracks({kind}) <= LastStreamID(kind)
        BY DEF AddTrack
      <4> QED BY <1>2, <4>1, <4>2
    <3>3. CountTracks({kind})' = CountTracks({kind}) + 1
      BY <1>7
    <3>4. CountTracks({kind})' <= 16
      BY <1>2, <3>2, <3>3
    <3>5. CountTracks(SameClass("avc"))' = CountTracks(SameClass("avc")) + 1
      <4>1. kind \in SameClass("avc")
        BY <3>1
      <4> QED BY <1>7, <4>1
    <3>6. CountTracks(SameClass("avc")) <= 15
      BY <3>1, <3>2
    <3> QED BY <1>2, <3>5, <3>6
  <2>2. CASE ~IsVideo(kind)
    <3>1. kind \notin SameClass("avc")
      BY <2>2, <1>9, Classes DEF IsVideo
    <3>2. CountTracks(SameClass("avc"))' = CountTracks(SameClass("avc")) + 0
      BY <1>7, <3>1
    <3> QED BY <1>2, <3>2 DEF PIDsCounted
  <2> QED BY <2>1, <2>2
<1>11. \A t \in 1..n : mTracks[t].pid < pid \/ (IsVideo(kind) /\ mTracks[t].pid > pid)
                                            \/ (~IsVideo(kind) /\ mTracks[t].pid < 4352)
  <2> SUFFICES ASSUME NEW t \in 1..n
               PROVE  mTracks[t].pid < pid \/ (IsVideo(kind) /\ mTracks[t].pid > pid)
                                           \/ (~IsVideo(kind) /\ mTracks[t].pid < 4352)
    OBVIOUS
  <2> DEFINE k == mTracks[t].kind
             p == mTracks[t].pid
  <2>1. k \in Kinds /\ p \in Nat /\ p \in PIDsInUse(k)
    BY <1>8 DEF PIDsCounted, n
  <2>2. p >= FirstPID(k) /\ p < FirstPID(k) + CountTracks(SameClass(k))
    BY <1>1, <2>1, InUse
  <2> HIDE DEF k, p
  <2>3. CASE IsVideo(k) = IsVideo(kind)
    <3>1. SameClass(k) = SameClass(kind)
      BY <2>1, <2>3, Classes
    <3>2. FirstPID(k) = FirstPID(kind)
      BY <2>3 DEF FirstPID
    <3>3. p < pid
      BY <2>2, <3>1, <3>2
    <3> QED BY <3>3 DEF p
  <2>4. CASE IsVideo(k) /\ ~IsVideo(kind)
    <3>1. k = "avc" /\ FirstPID(k) = 4113
      BY <2>1, <2>4, Classes
    <3>2. CountTracks(SameClass(k)) <= 16
      BY <3>1 DEF PIDsCounted
    <3>3. p < 4352
      BY <1>2, <2>1, <2>2, <3>1, <3>2
    <3> QED BY <2>4, <3>3 DEF p
  <2>5. CASE ~IsVideo(k) /\ IsVideo(kind)
    <3>1. FirstPID(k) = 4352 /\ FirstPID(kind) = 4113 /\ kind = "avc"
      BY <2>1, <2>5, Classes
    <3>2. CountTracks(SameClass(kind)) <= 16
      BY <3>1 DEF PIDsCounted
    <3>3. p > pid
      BY <1>2, <2>1, <2>2, <3>1, <3>2
    <3> QED BY <2>5, <3>3 DEF p
  <2> QED BY <2>3, <2>4, <2>5 DEF IsVideo
<1>12. pid \in Nat /\ (IsVideo(kind) => pid >= 4113) /\ (~IsVideo(kind) => pid >= 4352)
  <2>1. IF IsVideo(kind) THEN FirstPID(kind) = 4113 ELSE FirstPID(kind) = 4352
    BY Classes
  <2> QED BY <1>2, <1>3, <2>1
<1>13. \A t \in 1..n : mTracks[t].pid # pid
  BY <1>8, <1>11, <1>12
<1>14. pid \notin Reserved
  BY <1>12 DEF Reserved, PAT, PMT, PCR
<1>15. \A t \in 1..n+1 : t \in 1..n \/ t = n + 1
  BY <1>1 DEF n
<1>16. DistinctPIDs'
  <2>1. \A t \in 1..n : mTracks[t].pid \notin Reserved
    BY DEF PIDsCounted, DistinctPIDs, n
  <2>2. \A t, u \in 1..n : t # u => mTracks[t].pid # mTracks[u].pid
    BY DEF PIDsCounted, DistinctPIDs, n
  <2>3. \A t \in 1..n+1 : mTracks'[t].pid \notin Reserved
    BY <1>6, <1>14, <1>15, <2>1
  <2>4. ASSUME NEW t \in 1..n+1, NEW u \in 1..n+1, t # u
        PROVE  mTracks'[t].pid # mTracks'[u].pid
    BY <1>6, <1>13, <1>15, <2>2, <2>4
  <2> QED BY <1>6, <2>3, <2>4 DEF DistinctPIDs
<1>17. \A k \in Kinds : /\ PIDsInUse(k) \subseteq PIDsInUse(k)'
                        /\ k = kind => pid \in PIDsInUse(k)'
  <2> SUFFICES ASSUME NEW k \in Kinds
               PROVE  /\ PIDsInUse(k) \subseteq PIDsInUse(k)'
                      /\ k = kind => pid \in PIDsInUse(k)'
    OBVIOUS
  <2>1. PICK c \in Nat, d \in Nat :
          c = CountTracks(SameClass(k)) /\ d = CountTracks(SameClass(k))'
    BY <1>2, <1>7
  <2>2. d = c + (IF kind \in SameClass(k) THEN 1 ELSE 0)
    BY <1>7, <2>1
  <2>3. FirstPID(k) \in Nat
    BY Classes
  <2>4. PIDsInUse(k) = FirstPID(k)..(FirstPID(k) + c - 1)
    BY <2>1 DEF PIDsInUse
  <2>5. PIDsInUse(k)' = FirstPID(k)..(FirstPID(k) + d - 1)
    BY <2>1 DEF PIDsInUse
  <2>6. PIDsInUse(k) \subseteq PIDsInUse(k)'
    BY <2>2, <2>3, <2>4, <2>5
  <2>7. ASSUME k = kind PROVE pid \in PIDsInUse(k)'
    <3>1. d = c + 1 /\ pid = FirstPID(k) + c
      BY <2>1, <2>2, <2>7, Classes
    <3> HIDE DEF pid
    <3> QED BY <2>3, <2>5, <3>1
  <2> QED BY <2>6, <2>7
<1>18. (\A t \in 1..Len(mTracks) : mTracks[t].pid \in PIDsInUse(mTracks[t].kind))'
  <2> SUFFICES ASSUME NEW t \in 1..n+1
               PROVE  (mTracks[t].pid \in PIDsInUse(mTracks[t].kind))'
    BY <1>6
  <2>1. CASE t = n + 1
    <3>1. mTracks'[t].pid = pid /\ mTracks'[t].kind = kind
      BY <1>6, <2>1
    <3>2. pid \in PIDsInUse(kind)'
      BY <1>17
    <3> HIDE DEF pid
    <3> QED BY <3>1, <3>2 DEF PIDsInUse
  <2>2. CASE t \in 1..n
    <3>1. PICK k \in Kinds : k = mTracks[t].kind
      BY <1>8, <2>2
    <3>2. mTracks'[t].pid = mTracks[t].pid /\ mTracks'[t].kind = k
      BY <1>6, <2>2, <3>1
    <3>3. mTracks[t].pid \in PIDsInUse(k)
      BY <2>2, <3>1 DEF PIDsCounted, n
    <3>4. mTracks[t].pid \in PIDsInUse(k)'
      BY <1>17, <3>3
    <3> QED BY <3>2, <3>4 DEF PIDsInUse
  <2> QED BY <1>15, <2>1, <2>2
<1>19. PIDsCounted'
  BY <1>10, <1>16, <1>18 DEF PIDsCounted
<1> QED BY <1>6, <1>13, <1>14, <1>19 DEF n

(* Counting a packet changes neither kinds nor PIDs.                       *)
LEMMA CountPacketDistinct ==
  ASSUME mTracks \in Seq(TrackType), NEW t \in 1..Len(mTracks), CountPacket(t), PIDsCounted
  PROVE  /\ PIDsCounted'
         /\ \A u \in 1..Len(mTracks) :
              /\ mTracks'[u].kind = mTracks[u].kind /\ mTracks'[u].pid = mTracks[u].pid
              /\ mTracks'[u].cc = IF u = t THEN Step(mTracks[t].cc) ELSE mTracks[u].cc
<1>1. mTracks' = [mTracks EXCEPT ![t].cc = Step(mTracks[t].cc)]
  BY DEF CountPacket
<1>2. Len(mTracks') = Len(mTracks)
  BY CountPacketTyped
<1>3. \A u \in 1..Len(mTracks) :
        /\ mTracks'[u].kind = mTracks[u].kind /\ mTracks'[u].pid = mTracks[u].pid
        /\ mTracks'[u].cc = IF u = t THEN Step(mTracks[t].cc) ELSE mTracks[u].cc
  <2>1. \A u \in 1..Len(mTracks) : mTracks[u] \in TrackType
    OBVIOUS
  <2> QED BY <1>1, <2>1 DEF TrackType
<1>4. \A P : CountTracks(P)' = CountTracks(P)
  BY <1>2, <1>3 DEF CountTracks
<1>5. \A kind : PIDsInUse(kind)' = PIDsInUse(kind)
  BY <1>4 DEF PIDsInUse
<1>6. DistinctPIDs'
  BY <1>2, <1>3 DEF PIDsCounted, DistinctPIDs
<1> QED BY <1>2, <1>3, <1>4, <1>5, <1>6 DEF PIDsCounted

-----------------------------------------------------------------------------
(* The packetizer by itself                                                *)

(* Every step keeps the invariant.                                         *)
LEMMA StepHolds == PacketizerInv /\ [TSNext]_tsVars => PacketizerInv'
<1> SUFFICES ASSUME PacketizerInv, [TSNext]_tsVars PROVE PacketizerInv'
  OBVIOUS
<1>1. ASSUME NEW kind \in Kinds, AddTrack(kind) PROVE PacketizerInv'
  BY <1>1, AddTrackHolds
<1>2. ASSUME NEW t \in 1..Len(mTracks), NEW size \in Sizes,
             NEW extra \in Extras, NEW tables \in BOOLEAN,
             Fits(t, size, extra), Packetize(t, size, extra, tables)
      PROVE  PacketizerInv'
  BY <1>2, PacketizeHolds, SizesAssumption, ExtrasAssumption
<1>3. CASE NextFragment
  BY <1>3, NextFragmentHolds
<1>4. CASE Finish
  BY <1>4, FinishHolds
<1>5. CASE UNCHANGED tsVars
  BY <1>5 DEF tsVars, PacketizerInv, TracksTyped, JobOnCourse
<1> QED BY <1>1, <1>2, <1>3, <1>4, <1>5 DEF TSNext

(* No CHECK of packetize fails, whatever the sizes of the access units.    *)
THEOREM PacketizeNeverFails == TSSpec => []ChecksHold
<1>1. PacketizerInv => ChecksHold
  BY DEF PacketizerInv, ChecksHold
<1> QED BY InitHolds, StepHolds, <1>1, PTL DEF TSSpec

(* While a unit is cut up, the packets still to come are those the rest of *)
(* the unit needs: the buffer of line 481 is neither overrun nor left      *)
(* partly unwritten at any point.                                          *)
THEOREM PacketizeOnCourse == TSSpec => []JobOnCourse
<1>1. PacketizerInv => JobOnCourse
  BY DEF PacketizerInv
<1> QED BY InitHolds, StepHolds, <1>1, PTL DEF TSSpec

(* All tracks keep PIDs of their own, which no table and no clock uses: so *)
(* each PID has one continuity counter.                                    *)
THEOREM TracksAreDistinct == TSSpec => []DistinctPIDs
<1>1. TSInit => PIDsCounted
  BY InitDistinct
<1>2. PacketizerInv /\ PIDsCounted /\ [TSNext]_tsVars => PIDsCounted'
  <2> SUFFICES ASSUME PacketizerInv, PIDsCounted, [TSNext]_tsVars PROVE PIDsCounted'
    OBVIOUS
  <2>1. ASSUME UNCHANGED mTracks PROVE PIDsCounted'
    BY <2>1 DEF PIDsCounted, PIDsInUse, DistinctPIDs, CountTracks
  <2>2. ASSUME NEW t \in 1..Len(mTracks), CountPacket(t) PROVE PIDsCounted'
    BY <2>2, CountPacketDistinct DEF PacketizerInv, TracksTyped
  <2>3. ASSUME NEW kind \in Kinds, AddTrack(kind) PROVE PIDsCounted'
    BY <2>3, AddTrackDistinct
  <2>4. ASSUME NEW t \in 1..Len(mTracks), NEW size, NEW extra, NEW tables,
               Packetize(t, size, extra, tables)
        PROVE  PIDsCounted'
    BY <2>2, <2>4 DEF Packetize
  <2>5. CASE NextFragment
    BY <2>2, <2>5 DEF NextFragment, PacketizerInv, JobOnCourse
  <2>6. CASE Finish
    BY <2>1, <2>6 DEF Finish
  <2>7. CASE UNCHANGED tsVars
    BY <2>1, <2>7 DEF tsVars
  <2> QED BY <2>3, <2>4, <2>5, <2>6, <2>7 DEF TSNext
<1>3. PIDsCounted => DistinctPIDs
  BY DEF PIDsCounted
<1> QED BY InitHolds, StepHolds, <1>1, <1>2, <1>3, PTL DEF TSSpec

-----------------------------------------------------------------------------
(* The stream                                                              *)

TSType  == [pid : Nat, cc : Nat, bytes : Nat]
RTPType == [n : Nat, ts : Seq(TSType)]

(* RTP packets numbered one after the other, and end the number after them.*)
EndsAt(s, end) == \A j \in 1..Len(s) : s[j].n = end - Len(s) + j - 1

(* Lists of packets each of which goes on where the one before it ended;   *)
(* the packet after the last of them has number next.                      *)
After(lists, next, i) == IF i < Len(lists) THEN lists[i+1][1].n ELSE next

InTurn(lists, next) ==
  \A i \in 1..Len(lists) : Len(lists[i]) > 0 /\ EndsAt(lists[i], After(lists, next, i))

(* In a sequence of transport stream packets: j is the next packet on the  *)
(* PID of i; the counters go up by one on every PID that carries data; cc  *)
(* comes next on pid; t is what is there after the first from packets.     *)
Succeeds(s, i, j) ==
  /\ i < j /\ s[i].pid = s[j].pid
  /\ \A k \in i+1..j-1 : s[k].pid # s[i].pid

Counted(s) ==
  \A i, j \in 1..Len(s) : Succeeds(s, i, j) /\ s[i].pid # PCR => s[j].cc = Step(s[i].cc)

NextIs(s, pid, cc) ==
  \A i \in 1..Len(s) :
    s[i].pid = pid /\ (\A k \in i+1..Len(s) : s[k].pid # pid) => cc = Step(s[i].cc)

Piece(s, t, from) ==
  from + Len(t) <= Len(s) /\ \A i \in 1..Len(t) : t[i] = s[from + i]

Extends(s, old) == Len(old) <= Len(s) /\ \A i \in 1..Len(old) : s[i] = old[i]

(* All that packetize has written, up to the values the counters have.     *)
Written(s, pat, pmt, tracks) ==
  /\ s \in Seq(TSType) /\ Counted(s)
  /\ NextIs(s, PAT, Step(pat)) /\ NextIs(s, PMT, Step(pmt))
  /\ \A t \in 1..Len(tracks) : NextIs(s, tracks[t].pid, tracks[t].cc)
  /\ \A i \in 1..Len(s) :
       s[i].pid \in Reserved \/ \E t \in 1..Len(tracks) : s[i].pid = tracks[t].pid

(* Tracks with PIDs of their own; one track counting a packet.             *)
Apart(tracks) ==
  /\ \A t \in 1..Len(tracks) : tracks[t].pid \notin Reserved
  /\ \A t, u \in 1..Len(tracks) : t # u => tracks[t].pid # tracks[u].pid

CountsOn(tracks, after, u) ==
  /\ Len(after) = Len(tracks)
  /\ \A t \in 1..Len(tracks) :
       /\ after[t].pid = tracks[t].pid
       /\ after[t].cc = IF t = u THEN Step(tracks[u].cc) ELSE tracks[t].cc

-----------------------------------------------------------------------------
(* The invariant                                                           *)

(* The tracks are added in their order, and what is to come fits them.     *)
PlanHolds ==
  /\ todo \in Seq(AccessUnits)
  /\ Len(mTracks) <= Len(TrackKinds)
  /\ \A t \in 1..Len(mTracks) : mTracks[t].kind = TrackKinds[t]

(* A session is there once: it lives or has been reported dead.            *)
SocketsHold ==
  /\ mRTPSessionID \in BOOLEAN /\ mRTCPSessionID \in BOOLEAN
  /\ tried \in 0..MaxPorts /\ mRTPPort \in {0, tried}
  /\ sessionsDead \in 0..2
  /\ mRTPSessionID \/ mRTCPSessionID => sessionsDead < 2
  /\ mRTPSessionID /\ mRTCPSessionID => sessionsDead = 0
  /\ mRTPPort = 0 => /\ tried < MaxPorts /\ ~mRTPSessionID /\ ~mRTCPSessionID
                     /\ sessionsDead = 0

ReportsHold ==
  /\ mSendSRPending \in BOOLEAN
  /\ srMessages = IF mSendSRPending THEN 1 ELSE 0

(* The history ends where the lists still to be sent begin, and the last   *)
(* of these where the next packet is numbered.                             *)
QueuesHold ==
  /\ mRTPSeqNo \in Nat /\ drains \in Seq(Seq(RTPType)) /\ InTurn(drains, mRTPSeqNo)
  /\ mHistory \in Seq(RTPType) /\ Len(mHistory) <= MaxHistoryLength
  /\ EndsAt(mHistory, After(drains, mRTPSeqNo, 0))

(* A Source counts in whole cycles, and from 0 until its probation is over.*)
Valid(src) ==
  /\ src \in SourceType
  /\ \E c \in Nat : src.mCycles = SeqMod * c
  /\ src.mProbation > 0 => src.mCycles = 0

(* The RTP packets there are.                                              *)
Waiting == UNION {Entries(drains[i]) : i \in 1..Len(drains)}
Known   == Waiting \cup Entries(mHistory) \cup {d.p : d \in air} \cup {h.p : h \in held}

KnownHold == \A p \in Known : p \in RTPType /\ p.n < mRTPSeqNo

SinkHolds ==
  /\ mSource = NoSource \/ Valid(mSource)
  /\ \A h \in held : h \in [ext : Nat, p : RTPType]
  /\ last \in Int /\ last >= -1
  /\ newest \in Int /\ newest >= -1

WaitHolds ==
  /\ mFirstFailedAttempt \in {"none", "recent", "over"}
  /\ faults \in 0..MaxFaults

Base ==
  /\ PacketizerInv /\ PIDsCounted /\ PlanHolds
  /\ SocketsHold /\ ReportsHold /\ QueuesHold /\ KnownHold
  /\ SinkHolds /\ WaitHolds

-----------------------------------------------------------------------------
(* Packets in the order of their numbers                                   *)

(* Taking the first list, and adding one.                                  *)
LEMMA TailInTurn ==
  ASSUME NEW d \in Seq(Seq(RTPType)), d # << >>, NEW next \in Nat, InTurn(d, next)
  PROVE  /\ InTurn(Tail(d), next)
         /\ After(Tail(d), next, 0) = After(d, next, 1)
         /\ EndsAt(Head(d), After(d, next, 1))
         /\ After(d, next, 1) \in Nat
         /\ After(d, next, 0) = After(d, next, 1) - Len(Head(d))
<1>1. PICK k \in Nat : k = Len(d) /\ k > 0
  OBVIOUS
<1>2. /\ Len(Tail(d)) = k - 1 /\ \A i \in 1..k-1 : Tail(d)[i] = d[i+1]
      /\ Head(d) = d[1]
  BY <1>1
<1>3. \A i \in 1..k : d[i] \in Seq(RTPType) /\ Len(d[i]) > 0 /\ d[i][1] \in RTPType
  <2>1. \A i \in 1..k : d[i] \in Seq(RTPType) /\ Len(d[i]) > 0
    BY <1>1 DEF InTurn
  <2> QED BY <2>1
<1>4. \A i \in 1..k : d[i][1].n \in Nat
  BY <1>3 DEF RTPType
<1>5. \A i \in 0..k-1 : After(Tail(d), next, i) = After(d, next, i+1)
  <2> SUFFICES ASSUME NEW i \in 0..k-1
               PROVE  After(Tail(d), next, i) = After(d, next, i+1)
    OBVIOUS
  <2>1. CASE i < k - 1
    <3>1. i + 1 \in 1..k-1
      BY <1>1, <2>1
    <3>2. Tail(d)[i+1] = d[(i+1)+1]
      BY <1>2, <3>1
    <3> QED BY <1>1, <1>2, <2>1, <3>2 DEF After
  <2>2. CASE ~(i < k - 1)
    BY <1>1, <1>2, <2>2 DEF After
  <2> QED BY <2>1, <2>2
<1>6. InTurn(Tail(d), next)
  <2> SUFFICES ASSUME NEW i \in 1..k-1
               PROVE  Len(Tail(d)[i]) > 0 /\ EndsAt(Tail(d)[i], After(Tail(d), next, i))
    BY <1>2 DEF InTurn
  <2>1. i + 1 \in 1..k /\ i \in 0..k-1
    BY <1>1
  <2>2. Len(d[i+1]) > 0 /\ EndsAt(d[i+1], After(d, next, i+1))
    BY <1>1, <2>1 DEF InTurn
  <2> QED BY <1>2, <1>5, <2>1, <2>2
<1>7. After(d, next, 1) \in Nat
  <2>1. CASE 1 < k
    <3>1. 1 + 1 \in 1..k
      BY <1>1, <2>1
    <3> QED BY <1>1, <1>4, <2>1, <3>1 DEF After
  <2>2. CASE ~(1 < k)
    BY <1>1, <2>2 DEF After
  <2> QED BY <2>1, <2>2
<1>8. EndsAt(Head(d), After(d, next, 1))
  BY <1>1, <1>2 DEF InTurn
<1>9. d[1][1].n = After(d, next, 1) - Len(d[1])
  <2>1. 1 \in 1..Len(d[1]) /\ Len(d[1]) \in Nat
    BY <1>1, <1>3
  <2>2. d[1][1].n = After(d, next, 1) - Len(d[1]) + 1 - 1
    BY <1>2, <1>8, <2>1 DEF EndsAt
  <2> QED BY <1>7, <2>1, <2>2
<1>10. After(d, next, 0) = d[1][1].n
  BY <1>1 DEF After
<1> QED BY <1>1, <1>2, <1>5, <1>6, <1>7, <1>8, <1>9, <1>10

LEMMA AppendInTurn ==
  ASSUME NEW d \in Seq(Seq(RTPType)), NEW next \in Nat, InTurn(d, next),
         NEW r \in Seq(RTPType), Len(r) > 0, EndsAt(r, next + Len(r))
  PROVE  /\ InTurn(Append(d, r), next + Len(r))
         /\ After(Append(d, r), next + Len(r), 0) = After(d, next, 0)
<1> DEFINE e == Append(d, r)
<1>1. PICK k \in Nat : k = Len(d)
  OBVIOUS
<1>2. PICK l \in Nat : l = Len(r)
  OBVIOUS
<1>3. /\ Len(e) = k + 1 /\ \A i \in 1..k : e[i] = d[i]
      /\ e[k+1] = r
  BY <1>1
<1> HIDE DEF e
<1>4. r[1].n = next
  <2>1. r[1].n = next + l - l + 1 - 1
    BY <1>2 DEF EndsAt
  <2> QED BY <1>2, <2>1
<1>5. \A i \in 0..k : After(e, next + l, i) = After(d, next, i)
  <2> SUFFICES ASSUME NEW i \in 0..k
               PROVE  After(e, next + l, i) = After(d, next, i)
    OBVIOUS
  <2>1. CASE i < k
    <3>1. i + 1 \in 1..k
      BY <1>1, <2>1
    <3> QED BY <1>1, <1>3, <2>1, <3>1 DEF After
  <2>2. CASE i = k
    BY <1>1, <1>3, <1>4, <2>2 DEF After
  <2> QED BY <1>1, <2>1, <2>2
<1>6. InTurn(e, next + l)
  <2> SUFFICES ASSUME NEW i \in 1..k+1
               PROVE  Len(e[i]) > 0 /\ EndsAt(e[i], After(e, next + l, i))
    BY <1>3 DEF InTurn
  <2>1. CASE i \in 1..k
    BY <1>1, <1>3, <1>5, <2>1 DEF InTurn
  <2>2. CASE i = k + 1
    <3>1. After(e, next + l, i) = next + l
      BY <1>1, <1>3, <2>2 DEF After
    <3> QED BY <1>2, <1>3, <2>2, <3>1
  <2> QED BY <1>1, <2>1, <2>2
<1> QED BY <1>1, <1>2, <1>5, <1>6 DEF e

(* One list after the other, and the newest packets of it.                 *)
LEMMA ConcatEndsAt ==
  ASSUME NEW h \in Seq(RTPType), NEW r \in Seq(RTPType), NEW end \in Int,
         EndsAt(h, end - Len(r)), EndsAt(r, end)
  PROVE  EndsAt(h \o r, end)
<1>1. PICK k \in Nat, l \in Nat : k = Len(h) /\ l = Len(r)
  OBVIOUS
<1>2. /\ Len(h \o r) = k + l
      /\ \A j \in 1..k+l : (h \o r)[j] = IF j <= k THEN h[j] ELSE r[j - k]
  BY <1>1
<1> SUFFICES ASSUME NEW j \in 1..k+l
             PROVE  (h \o r)[j].n = end - (k + l) + j - 1
  BY <1>2 DEF EndsAt
<1>3. CASE j <= k
  <2>1. h[j].n = (end - l) - k + j - 1
    BY <1>1, <1>3 DEF EndsAt
  <2> QED BY <1>1, <1>2, <1>3, <2>1
<1>4. CASE j > k
  <2>1. j - k \in 1..l
    BY <1>1, <1>4
  <2>2. r[j-k].n = end - l + (j - k) - 1
    BY <1>1, <2>1 DEF EndsAt
  <2>3. (h \o r)[j] = r[j-k]
    BY <1>1, <1>2, <1>4
  <2>4. end - l + (j - k) - 1 = end - (k + l) + j - 1
    BY <1>1
  <2> QED BY <2>2, <2>3, <2>4
<1> QED BY <1>1, <1>3, <1>4

LEMMA KeepNewestGives ==
  ASSUME NEW s \in Seq(RTPType), NEW end \in Int, EndsAt(s, end)
  PROVE  /\ KeepNewest(s) \in Seq(RTPType) /\ EndsAt(KeepNewest(s), end)
         /\ Len(KeepNewest(s)) <= MaxHistoryLength
         /\ Entries(KeepNewest(s)) \subseteq Entries(s)
<1>1. PICK k \in Nat, m \in Nat : k = Len(s) /\ m = MaxHistoryLength /\ m > 0
  BY MaxHistoryLengthAssumption, WireModAssumption
<1>2. PICK a \in 0..k : a = IF k > m THEN k - m ELSE 0
  BY <1>1
<1> DEFINE t == SubSeq(s, a+1, k)
<1>3. KeepNewest(s) = t
  <2>1. (IF k > m THEN k - m + 1 ELSE 1) = a + 1
    BY <1>1, <1>2
  <2>2. KeepNewest(s) = SubSeq(s, IF k > m THEN k - m + 1 ELSE 1, k)
    BY <1>1 DEF KeepNewest
  <2> QED BY <2>1, <2>2
<1>4. /\ t \in Seq(RTPType) /\ Len(t) = k - a
      /\ \A j \in 1..k-a : t[j] = s[a+j]
  <2>0. a + 1 \in 1..k+1
    BY <1>2
  <2>1. PICK b \in 1..k+1 : b = a + 1
    BY <2>0
  <2> DEFINE u == SubSeq(s, b, k)
  <2>2. Len(u) = k - b + 1 /\ \A j \in 1..k-b+1 : u[j] = s[b+j-1]
    BY <1>1, <2>1
  <2>3. \A j \in 1..k-b+1 : b + j - 1 \in 1..k
    BY <2>1
  <2>4. u \in Seq(RTPType)
    BY <1>1, <2>1, <2>3
  <2> HIDE DEF u
  <2>5. t = u
    BY <2>1 DEF u
  <2>6. \A j \in 1..k-a : b + j - 1 = a + j
    BY <2>1
  <2> QED BY <2>1, <2>2, <2>4, <2>5, <2>6
<1> HIDE DEF t
<1>5. EndsAt(t, end)
  <2> SUFFICES ASSUME NEW j \in 1..k-a PROVE t[j].n = end - (k - a) + j - 1
    BY <1>4 DEF EndsAt
  <2>1. a + j \in 1..k
    BY <1>2
  <2>2. s[a+j].n = end - k + (a + j) - 1
    BY <1>1, <2>1 DEF EndsAt
  <2> QED BY <1>2, <1>4, <2>2
<1>6. Entries(t) \subseteq Entries(s)
  <2>1. \A j \in 1..k-a : a + j \in 1..k
    BY <1>2
  <2> QED BY <1>1, <1>4, <2>1 DEF Entries
<1>7. Len(t) <= MaxHistoryLength
  BY <1>1, <1>2, <1>4
<1> QED BY <1>3, <1>4, <1>5, <1>6, <1>7

-----------------------------------------------------------------------------
(* Transport stream packets to RTP packets                                 *)

(* How many RTP packets l packets fill, at b to each.                      *)
LEMMA RoundedUp ==
  ASSUME NEW b \in Nat \ {0}, NEW l \in Nat \ {0}
  PROVE  \E k \in Nat \ {0} :
           /\ k = (l + b - 1) \div b /\ l <= b * k
           /\ \A i \in 1..k : b * (i - 1) < l /\ b * (i - 1) \in Nat
<1>1. PICK k \in Int, r \in 0..b-1 : k = (l + b - 1) \div b /\ l + b - 1 = b * k + r
  <2>1. \A n \in Int : n \div b \in Int /\ n % b \in 0..b-1 /\ n = b * (n \div b) + (n % b)
    OBVIOUS
  <2>2. l + b - 1 \in Int
    OBVIOUS
  <2> QED BY <2>1, <2>2
<1>2. b * k >= l
  BY <1>1
<1>3. k > 0
  <2>1. CASE k <= 0
    <3>1. b * k <= 0
      BY <2>1
    <3> QED BY <1>2, <3>1
  <2> QED BY <1>1, <2>1
<1>4. ASSUME NEW i \in 1..k PROVE b * (i - 1) < l /\ b * (i - 1) \in Nat
  <2>1. b * (k - i) >= 0 /\ b * (i - 1) >= 0
    BY <1>1, <1>3
  <2>2. b * (i - 1) = b * k - b * (k - i) - b
    BY <1>1, <1>3
  <2> QED BY <1>1, <2>1, <2>2
<1> QED BY <1>1, <1>2, <1>3, <1>4

(* Where the packet after RTP packet i begins.                             *)
Upto(ts, i) == Smallest(i * PerRTP, Len(ts))

LEMMA NumberedGives ==
  ASSUME NEW ts \in Seq(TSType), ts # << >>, NEW n \in Nat
  PROVE  LET r == Numbered(ts, n)
         IN  /\ r \in Seq(RTPType) /\ Len(r) > 0 /\ EndsAt(r, n + Len(r))
             /\ Upto(ts, 0) = 0 /\ Upto(ts, Len(r)) = Len(ts)
             /\ \A i \in 1..Len(r) :
                  /\ Upto(ts, i-1) \in Nat /\ Upto(ts, i) \in Nat /\ Upto(ts, i) <= Len(ts)
                  /\ Upto(ts, i) = Upto(ts, i-1) + Len(r[i].ts)
                  /\ \A j \in 1..Len(r[i].ts) : r[i].ts[j] = ts[Upto(ts, i-1) + j]
<1> DEFINE r == Numbered(ts, n)
<1>1. PICK l \in Nat \ {0}, b \in Nat \ {0} : l = Len(ts) /\ b = PerRTP
  BY PerRTPAssumption
<1>2. PICK k \in Nat \ {0} :
        /\ k = (l + b - 1) \div b /\ l <= b * k
        /\ \A i \in 1..k : b * (i - 1) < l /\ b * (i - 1) \in Nat
  BY RoundedUp
<1>3. /\ r = [i \in 1..k |->
               [n |-> n + i - 1,
                ts |-> SubSeq(ts, (i-1) * b + 1, Smallest(i * b, l))]]
  BY <1>1, <1>2 DEF Numbered
<1>4. ASSUME NEW i \in 1..k
      PROVE  /\ Upto(ts, i-1) = b * (i - 1)
             /\ Upto(ts, i) \in Nat /\ Upto(ts, i) > b * (i - 1) /\ Upto(ts, i) <= l
  <2>1. b * (i - 1) < l /\ b * (i - 1) \in Nat
    BY <1>2
  <2>2. (i - 1) * b = b * (i - 1) /\ i * b = b * (i - 1) + b
    OBVIOUS
  <2>3. Upto(ts, i-1) = b * (i - 1)
    BY <1>1, <2>1, <2>2 DEF Upto, Smallest
  <2>4. PICK x \in Nat : x = b * (i - 1) /\ x < l
    BY <2>1
  <2>5. Upto(ts, i) = IF x + b < l THEN x + b ELSE l
    BY <1>1, <2>2, <2>4 DEF Upto, Smallest
  <2>6. Upto(ts, i) \in Nat /\ Upto(ts, i) > x /\ Upto(ts, i) <= l
    BY <2>4, <2>5
  <2> QED BY <2>3, <2>4, <2>6
<1>5. ASSUME NEW i \in 1..k, NEW x \in Nat, NEW y \in Nat,
             x = Upto(ts, i-1), y = Upto(ts, i)
      PROVE  /\ r[i].n = n + i - 1
             /\ r[i].ts \in Seq(TSType) /\ Len(r[i].ts) = y - x
             /\ \A j \in 1..y-x : r[i].ts[j] = ts[x + j]
             /\ r[i] \in RTPType
  <2> DEFINE u == SubSeq(ts, x+1, y)
  <2>1. x < y /\ y <= l /\ x = b * (i - 1)
    BY <1>4, <1>5
  <2>2. (i-1) * b + 1 = x + 1
    BY <2>1
  <2>3. Smallest(i * b, l) = y
    BY <1>1, <1>5 DEF Upto
  <2>4. r[i] = [n |-> n + i - 1, ts |-> u]
    BY <1>3, <2>2, <2>3
  <2>5. /\ u \in Seq(TSType) /\ Len(u) = y - x
        /\ \A j \in 1..y-x : u[j] = ts[x + j]
    <3>1. x + 1 \in 1..l /\ y \in 1..l
      BY <2>1
    <3>2. PICK z \in 1..l : z = x + 1
      BY <3>1
    <3> DEFINE v == SubSeq(ts, z, y)
    <3>3. /\ Len(v) = y - z + 1 /\ \A j \in 1..y-z+1 : v[j] = ts[z+j-1]
      BY <1>1, <2>1, <3>1, <3>2
    <3>4. \A j \in 1..y-z+1 : z + j - 1 \in 1..l
      BY <2>1, <3>1, <3>2
    <3>5. v \in Seq(TSType)
      BY <1>1, <3>1, <3>2, <3>4
    <3> HIDE DEF v
    <3>6. u = v
      BY <3>2 DEF v
    <3>7. \A j \in 1..y-x : z + j - 1 = x + j
      BY <3>2
    <3> QED BY <3>2, <3>3, <3>5, <3>6, <3>7
  <2> HIDE DEF r, u
  <2>6. r[i].n = n + i - 1 /\ r[i].ts = u
    BY <2>4
  <2>7. n + i - 1 \in Nat
    OBVIOUS
  <2>8. r[i] \in RTPType
    BY <2>4, <2>5, <2>7 DEF RTPType
  <2> QED BY <2>5, <2>6, <2>8
<1>6. Len(r) = k /\ DOMAIN r = 1..k
  BY <1>3
<1>7. \A i \in 1..k : r[i] \in RTPType /\ r[i].n = n + i - 1
  <2> SUFFICES ASSUME NEW i \in 1..k PROVE r[i] \in RTPType /\ r[i].n = n + i - 1
    OBVIOUS
  <2>1. PICK x \in Nat, y \in Nat : x = Upto(ts, i-1) /\ y = Upto(ts, i)
    BY <1>2, <1>4
  <2> QED BY <1>5, <2>1
<1>8. r \in Seq(RTPType)
  <2>1. r \in [1..k -> RTPType]
    <3>1. r = [i \in 1..k |-> r[i]]
      BY <1>3
    <3> HIDE DEF r
    <3> QED BY <1>7, <3>1
  <2> HIDE DEF r
  <2> QED BY <1>2, <2>1
<1> HIDE DEF r
<1>9. EndsAt(r, n + k)
  <2> SUFFICES ASSUME NEW j \in 1..k PROVE r[j].n = n + k - k + j - 1
    BY <1>6 DEF EndsAt
  <2> QED BY <1>2, <1>7
<1>10. Upto(ts, 0) = 0
  BY <1>1 DEF Upto, Smallest
<1>11. Upto(ts, k) = l
  <2>1. k * b = b * k /\ b * k \in Nat
    BY <1>2
  <2> QED BY <1>1, <1>2, <2>1 DEF Upto, Smallest
<1>12. ASSUME NEW i \in 1..k
       PROVE  /\ Upto(ts, i-1) \in Nat /\ Upto(ts, i) \in Nat /\ Upto(ts, i) <= l
              /\ Upto(ts, i) = Upto(ts, i-1) + Len(r[i].ts)
              /\ \A j \in 1..Len(r[i].ts) : r[i].ts[j] = ts[Upto(ts, i-1) + j]
  <2>1. PICK x \in Nat, y \in Nat : x = Upto(ts, i-1) /\ y = Upto(ts, i)
    BY <1>2, <1>4
  <2>2. Len(r[i].ts) = y - x /\ \A j \in 1..y-x : r[i].ts[j] = ts[x + j]
    BY <1>5, <2>1
  <2>3. y <= l
    BY <1>4, <2>1
  <2> QED BY <2>1, <2>2, <2>3
<1> QED BY <1>1, <1>2, <1>6, <1>8, <1>9, <1>10, <1>11, <1>12 DEF r

-----------------------------------------------------------------------------
(* What is sent again                                                      *)

(* Numbers less than b apart that agree modulo b are the same.             *)
LEMMA SameResidue ==
  ASSUME NEW b \in Nat \ {0}, NEW x \in Int, NEW y \in Int, x % b = y % b,
         x - y < b, y - x < b
  PROVE  x = y
<1>1. PICK p \in Int, q \in Int, r \in 0..b-1 : x = b * p + r /\ y = b * q + r
  <2>1. \A n \in Int : n \div b \in Int /\ n % b \in 0..b-1 /\ n = b * (n \div b) + (n % b)
    OBVIOUS
  <2>2. /\ x \div b \in Int /\ y \div b \in Int /\ x % b \in 0..b-1
        /\ x = b * (x \div b) + (x % b)
        /\ y = b * (y \div b) + (y % b)
    BY <2>1
  <2>3. y = b * (y \div b) + (x % b)
    BY <2>2
  <2> QED BY <2>2, <2>3, Zenon
<1>2. x - y = b * (p - q)
  BY <1>1
<1>3. CASE p - q >= 1
  <2>1. b * (p - q) >= b
    BY <1>3
  <2> QED BY <1>2, <2>1
<1>4. CASE p - q <= -1
  <2>1. b * (p - q) <= -b
    BY <1>4
  <2> QED BY <1>2, <2>1
<1> QED BY <1>1, <1>3, <1>4

(* The history holds no two packets with the same sequence number, so that *)
(* the first match of a bit is the only one.                               *)
LEMMA ResentIsWhatWasAsked ==
  ASSUME mHistory \in Seq(RTPType), Len(mHistory) <= MaxHistoryLength,
         NEW end \in Int, EndsAt(mHistory, end)
  PROVE  ResendsWhatWasAsked
<1>1. PICK k \in Nat : k = Len(mHistory) /\ k <= WireMod
  BY MaxHistoryLengthAssumption, WireModAssumption
<1>2. ASSUME NEW i \in 1..k, NEW j \in 1..k, mHistory[i].n % WireMod = mHistory[j].n % WireMod
      PROVE  i = j
  <2>1. mHistory[i].n = end - k + i - 1 /\ mHistory[j].n = end - k + j - 1
    BY <1>1 DEF EndsAt
  <2>2. PICK x \in Int, y \in Int : x = end - k + i - 1 /\ y = end - k + j - 1
    OBVIOUS
  <2>3. x % WireMod = y % WireMod
    BY <1>2, <2>1, <2>2
  <2>4. x - y = i - j
    BY <2>2
  <2>5. x - y < WireMod /\ y - x < WireMod
    BY <1>1, <2>4, WireModAssumption
  <2>6. x = y
    BY <2>3, <2>5, SameResidue, WireModAssumption
  <2> QED BY <2>4, <2>6
<1> SUFFICES ASSUME NEW seq \in WireSeqs, NEW mask \in SUBSET (0..MaskBits-1)
             PROVE  Resent(seq, mask) =
                      {p \in Entries(mHistory) :
                         \/ p.n % WireMod = seq
                         \/ \E b \in mask : p.n % WireMod = (seq + b + 1) % WireMod}
  BY DEF ResendsWhatWasAsked
<1> DEFINE Asked(i) == \/ mHistory[i].n % WireMod = seq
                       \/ \E b \in mask : mHistory[i].n % WireMod = (seq + b + 1) % WireMod
           Given(i) == Again(seq, mask, i) /\ \A m \in 1..i-1 : ~AllFound(seq, mask, m)
<1>3. ASSUME NEW i \in 1..k, Given(i) PROVE Asked(i)
  BY <1>3 DEF Again, IsSeq, BitsOf
<1>4. ASSUME NEW i \in 1..k, mHistory[i].n % WireMod = seq PROVE Given(i)
  <2>1. Again(seq, mask, i)
    BY <1>4 DEF Again, IsSeq
  <2>2. ASSUME NEW m \in 1..i-1, AllFound(seq, mask, m) PROVE FALSE
    <3>1. PICK l \in 1..m : mHistory[l].n % WireMod = seq
      BY <2>2 DEF AllFound, IsSeq
    <3>2. l \in 1..k /\ l # i
      BY <1>1
    <3> QED BY <1>2, <1>4, <3>1, <3>2
  <2> QED BY <2>1, <2>2
<1>5. ASSUME NEW i \in 1..k, mHistory[i].n % WireMod # seq, NEW b \in mask,
             mHistory[i].n % WireMod = (seq + b + 1) % WireMod
      PROVE  Given(i)
  <2>1. b \in BitsOf(seq, mask, i)
    BY <1>5 DEF BitsOf, IsSeq
  <2>2. ASSUME NEW m \in 1..k, m # i PROVE b \notin BitsOf(seq, mask, m)
    BY <1>2, <1>5, <2>2 DEF BitsOf
  <2>3. ASSUME NEW m \in 1..i PROVE b \in Open(seq, mask, m)
    <3>1. \A l \in 1..m-1 : l \in 1..k /\ l # i
      BY <1>1
    <3> QED BY <1>5, <2>2, <3>1 DEF Open
  <2>4. Again(seq, mask, i)
    BY <2>1, <2>3 DEF Again
  <2>5. ASSUME NEW m \in 1..i-1 PROVE ~AllFound(seq, mask, m)
    <3>1. m + 1 \in 1..i
      BY <1>1
    <3> QED BY <2>3, <3>1 DEF AllFound
  <2> QED BY <2>4, <2>5
<1>6. \A i \in 1..k : Given(i) <=> Asked(i)
  BY <1>3, <1>4, <1>5
<1>7. Resent(seq, mask) = {mHistory[i] : i \in {j \in 1..k : Given(j)}}
  BY <1>1 DEF Resent
<1> HIDE DEF Given
<1>8. Resent(seq, mask) = {mHistory[i] : i \in {j \in 1..k : Asked(j)}}
  BY <1>6, <1>7
<1>9. Entries(mHistory) = {mHistory[i] : i \in 1..k}
  BY <1>1 DEF Entries
<1> QED BY <1>8, <1>9

-----------------------------------------------------------------------------
(* The transport stream                                                    *)

LEMMA ExtendsPiece ==
  ASSUME NEW old \in Seq(TSType), NEW s \in Seq(TSType), Extends(s, old),
         NEW t \in Seq(TSType), NEW from \in Nat, Piece(old, t, from)
  PROVE  Piece(s, t, from)
<1>1. PICK k \in Nat, l \in Nat, m \in Nat : k = Len(old) /\ l = Len(s) /\ m = Len(t)
  OBVIOUS
<1>2. k <= l /\ from + m <= k
  BY <1>1 DEF Extends, Piece
<1>3. ASSUME NEW i \in 1..m PROVE t[i] = s[from + i]
  <2>1. from + i \in 1..k
    BY <1>2
  <2> QED BY <1>1, <2>1 DEF Extends, Piece
<1> QED BY <1>1, <1>2, <1>3 DEF Piece

(* One packet more, with the counter that comes next.                      *)
LEMMA AppendCounted ==
  ASSUME NEW s \in Seq(TSType), NEW p \in TSType, Counted(s),
         p.pid = PCR \/ NextIs(s, p.pid, p.cc)
  PROVE  LET s2 == Append(s, p)
         IN  /\ s2 \in Seq(TSType) /\ Counted(s2) /\ Extends(s2, s)
             /\ Len(s2) = Len(s) + 1 /\ s2[Len(s2)] = p
             /\ NextIs(s2, p.pid, Step(p.cc))
             /\ \A q, c : q # p.pid /\ NextIs(s, q, c) => NextIs(s2, q, c)
<1> DEFINE s2 == Append(s, p)
<1>1. PICK l \in Nat : l = Len(s)
  OBVIOUS
<1>2. /\ s2 \in Seq(TSType) /\ Len(s2) = l + 1 /\ s2[l+1] = p
      /\ \A i \in 1..l : s2[i] = s[i]
  BY <1>1
<1> HIDE DEF s2
<1>3. Extends(s2, s)
  BY <1>1, <1>2 DEF Extends
<1>4. ASSUME NEW i \in 1..l+1, NEW j \in 1..l+1, Succeeds(s2, i, j), s2[i].pid # PCR
      PROVE  s2[j].cc = Step(s2[i].cc)
  <2>1. i \in 1..l /\ i < j
    BY <1>4 DEF Succeeds
  <2>2. CASE j \in 1..l
    <3>1. \A k \in i+1..j-1 : k \in 1..l
      BY <2>1, <2>2
    <3>2. Succeeds(s, i, j)
      BY <1>2, <1>4, <2>1, <2>2, <3>1 DEF Succeeds
    <3> QED BY <1>1, <1>2, <1>4, <2>1, <2>2, <3>2 DEF Counted
  <2>3. CASE j = l + 1
    <3>1. s[i].pid = p.pid /\ p.pid # PCR
      BY <1>2, <1>4, <2>1, <2>3 DEF Succeeds
    <3>2. \A k \in i+1..l : s[k].pid # p.pid
      <4>1. \A k \in i+1..l : k \in 1..l /\ k \in i+1..j-1
        BY <2>1, <2>3
      <4> QED BY <1>2, <1>4, <2>1, <3>1, <4>1 DEF Succeeds
    <3>3. p.cc = Step(s[i].cc)
      BY <1>1, <2>1, <3>1, <3>2 DEF NextIs
    <3> QED BY <1>2, <2>1, <2>3, <3>3
  <2> QED BY <1>1, <2>2, <2>3
<1>5. Counted(s2)
  BY <1>2, <1>4 DEF Counted
<1>6. NextIs(s2, p.pid, Step(p.cc))
  <2> SUFFICES ASSUME NEW i \in 1..l+1, s2[i].pid = p.pid,
                      \A k \in i+1..l+1 : s2[k].pid # p.pid
               PROVE  Step(p.cc) = Step(s2[i].cc)
    BY <1>2 DEF NextIs
  <2>1. i = l + 1
    <3>1. CASE i # l + 1
      <4>1. l + 1 \in i+1..l+1
        BY <1>1, <3>1
      <4> QED BY <1>2, <4>1
    <3> QED BY <3>1
  <2> QED BY <1>2, <2>1
<1>7. ASSUME NEW q, NEW c, q # p.pid, NextIs(s, q, c) PROVE NextIs(s2, q, c)
  <2> SUFFICES ASSUME NEW i \in 1..l+1, s2[i].pid = q,
                      \A k \in i+1..l+1 : s2[k].pid # q
               PROVE  c = Step(s2[i].cc)
    BY <1>2 DEF NextIs
  <2>1. i \in 1..l
    BY <1>1, <1>2, <1>7
  <2>2. \A k \in i+1..l : k \in 1..l /\ k \in i+1..l+1
    BY <1>1
  <2>3. \A k \in i+1..l : s[k].pid # q
    BY <1>2, <2>2
  <2> QED BY <1>1, <1>2, <1>7, <2>1, <2>3 DEF NextIs
<1> QED BY <1>1, <1>2, <1>3, <1>5, <1>6, <1>7 DEF s2

(* What is appended to a piece at the end.                                 *)
LEMMA AppendPiece ==
  ASSUME NEW s \in Seq(TSType), NEW p \in TSType, NEW t \in Seq(TSType), NEW from \in Nat,
         Piece(s, t, from), from + Len(t) = Len(s)
  PROVE  /\ Piece(Append(s, p), Append(t, p), from)
         /\ from + Len(Append(t, p)) = Len(Append(s, p))
<1>1. PICK l \in Nat, m \in Nat : l = Len(s) /\ m = Len(t) /\ from + m = l
  OBVIOUS
<1> DEFINE s2 == Append(s, p)
           t2 == Append(t, p)
<1>2. /\ Len(s2) = l + 1 /\ s2[l+1] = p /\ \A i \in 1..l : s2[i] = s[i]
      /\ Len(t2) = m + 1 /\ t2[m+1] = p /\ \A i \in 1..m : t2[i] = t[i]
  BY <1>1
<1> HIDE DEF s2, t2
<1>3. ASSUME NEW i \in 1..m+1 PROVE t2[i] = s2[from + i]
  <2>1. CASE i = m + 1
    BY <1>1, <1>2, <2>1
  <2>2. CASE i \in 1..m
    <3>1. from + i \in 1..l
      BY <1>1, <2>2
    <3> QED BY <1>1, <1>2, <2>2, <3>1 DEF Piece
  <2> QED BY <1>1, <2>1, <2>2
<1> QED BY <1>1, <1>2, <1>3 DEF Piece, s2, t2

(* The tables and the clock.                                               *)
LEMMA TablesAreCounted ==
  ASSUME NEW s, NEW pat \in Counters, NEW pmt \in Counters, NEW tracks \in Seq(TrackType),
         Written(s, pat, pmt, tracks), Apart(tracks),
         NEW a, a = TSPacket(PAT, Step(pat), 0),
         NEW b, b = TSPacket(PMT, Step(pmt), 0),
         NEW c, c = TSPacket(PCR, 0, 0)
  PROVE  LET s2 == Append(Append(Append(s, a), b), c)
         IN  /\ a \in TSType /\ b \in TSType /\ c \in TSType
             /\ Written(s2, Step(pat), Step(pmt), tracks)
             /\ Extends(s2, s) /\ Piece(s2, <<a, b, c>>, Len(s))
             /\ Len(s) + 3 = Len(s2)
<1> DEFINE s1 == Append(s, a)
           s2 == Append(s1, b)
           s3 == Append(s2, c)
<1> USE DEF Apart
<1>1. /\ PAT = 0 /\ PMT = 256 /\ PCR = 4096
      /\ PAT \in Nat /\ PMT \in Nat /\ PCR \in Nat
      /\ PAT \in Reserved /\ PMT \in Reserved /\ PCR \in Reserved
  BY DEF PAT, PMT, PCR, Reserved
<1>2. 0 \in Counters /\ Step(pat) \in Counters /\ Step(pmt) \in Counters
  BY StepType, CounterModAssumption DEF Counters
<1>3. a \in TSType /\ b \in TSType /\ c \in TSType
  BY <1>1, <1>2, PacketTyped DEF TSType
<1>4. /\ a.pid = PAT /\ a.cc = Step(pat) /\ b.pid = PMT /\ b.cc = Step(pmt) /\ c.pid = PCR
  BY DEF TSPacket
<1>5. s \in Seq(TSType) /\ Counted(s)
  BY DEF Written
<1>6. PICK l \in Nat : l = Len(s)
  BY <1>5
<1>7. /\ s1 \in Seq(TSType) /\ Counted(s1) /\ Extends(s1, s) /\ Len(s1) = l + 1 /\ s1[l+1] = a
      /\ NextIs(s1, PAT, Step(Step(pat)))
      /\ \A q, x : q # PAT /\ NextIs(s, q, x) => NextIs(s1, q, x)
  BY <1>3, <1>4, <1>5, <1>6, AppendCounted DEF Written
<1> HIDE DEF s1
<1>8. NextIs(s1, PMT, Step(pmt))
  BY <1>1, <1>7 DEF Written
<1>9. /\ s2 \in Seq(TSType) /\ Counted(s2) /\ Extends(s2, s1)
      /\ Len(s2) = l + 1 + 1 /\ s2[l+1+1] = b
      /\ NextIs(s2, PMT, Step(Step(pmt)))
      /\ \A q, x : q # PMT /\ NextIs(s1, q, x) => NextIs(s2, q, x)
  BY <1>3, <1>4, <1>7, <1>8, AppendCounted
<1> HIDE DEF s2
<1>10. /\ s3 \in Seq(TSType) /\ Counted(s3) /\ Extends(s3, s2)
       /\ Len(s3) = l + 1 + 1 + 1 /\ s3[l+1+1+1] = c
       /\ \A q, x : q # PCR /\ NextIs(s2, q, x) => NextIs(s3, q, x)
  BY <1>3, <1>4, <1>9, AppendCounted
<1> HIDE DEF s3
<1>11. /\ Len(s1) = l + 1 /\ Len(s2) = l + 2 /\ Len(s3) = l + 3
       /\ s1[l+1] = a /\ s2[l+2] = b /\ s3[l+3] = c
  <2>1. l+1+1 = l+2 /\ l+1+1+1 = l+3
    BY <1>6
  <2> QED BY <1>7, <1>9, <1>10, <2>1
<1>12. \A i \in 1..l : s3[i] = s[i]
  <2>1. \A i \in 1..l : s1[i] = s[i]
    BY <1>6, <1>7 DEF Extends
  <2>2. \A i \in 1..l+1 : s2[i] = s1[i]
    BY <1>9, <1>11 DEF Extends
  <2>3. \A i \in 1..l+2 : s3[i] = s2[i]
    BY <1>10, <1>11 DEF Extends
  <2>4. \A i \in 1..l : i \in 1..l+1 /\ i \in 1..l+2
    BY <1>6
  <2> QED BY <2>1, <2>2, <2>3, <2>4
<1>13. s3[l+1] = a /\ s3[l+2] = b /\ s3[l+3] = c
  <2>1. l+1 \in 1..l+1 /\ l+1 \in 1..l+2 /\ l+2 \in 1..l+2
    BY <1>6
  <2>2. s2[l+1] = a
    BY <1>9, <1>11, <2>1 DEF Extends
  <2>3. s3[l+1] = s2[l+1] /\ s3[l+2] = s2[l+2]
    BY <1>10, <1>11, <2>1 DEF Extends
  <2> QED BY <1>11, <2>2, <2>3
<1>14. Extends(s3, s) /\ Piece(s3, <<a, b, c>>, Len(s)) /\ Len(s) + 3 = Len(s3)
  <2>1. Len(<<a, b, c>>) = 3 /\ <<a, b, c>>[1] = a /\ <<a, b, c>>[2] = b /\ <<a, b, c>>[3] = c
    OBVIOUS
  <2>2. \A i \in 1..3 : i = 1 \/ i = 2 \/ i = 3
    OBVIOUS
  <2>3. \A i \in 1..3 : <<a, b, c>>[i] = s3[l + i]
    BY <1>13, <2>1, <2>2
  <2> HIDE DEF s3
  <2>4. Extends(s3, s)
    BY <1>6, <1>11, <1>12 DEF Extends
  <2> QED BY <1>6, <1>11, <2>1, <2>3, <2>4 DEF Piece
<1>15. NextIs(s3, PAT, Step(Step(pat))) /\ NextIs(s3, PMT, Step(Step(pmt)))
  BY <1>1, <1>7, <1>9, <1>10
<1>16. ASSUME NEW t \in 1..Len(tracks) PROVE NextIs(s3, tracks[t].pid, tracks[t].cc)
  <2>1. tracks[t].pid # PAT /\ tracks[t].pid # PMT /\ tracks[t].pid # PCR
    BY <1>1
  <2>2. NextIs(s, tracks[t].pid, tracks[t].cc)
    BY DEF Written
  <2> QED BY <1>7, <1>9, <1>10, <2>1, <2>2
<1>17. ASSUME NEW i \in 1..l+3
       PROVE  s3[i].pid \in Reserved \/ \E t \in 1..Len(tracks) : s3[i].pid = tracks[t].pid
  <2>1. i \in 1..l \/ i = l + 1 \/ i = l + 2 \/ i = l + 3
    BY <1>6
  <2> QED BY <1>1, <1>4, <1>6, <1>12, <1>13, <2>1 DEF Written
<1>18. Written(s3, Step(pat), Step(pmt), tracks)
  BY <1>10, <1>11, <1>15, <1>16, <1>17 DEF Written
<1> QED BY <1>3, <1>14, <1>18 DEF s1, s2, s3

(* A packet with data of a track, after which the track counts on.         *)
LEMMA DataIsCounted ==
  ASSUME NEW s, NEW pat \in Counters, NEW pmt \in Counters, NEW tracks \in Seq(TrackType),
         Written(s, pat, pmt, tracks),
         Apart(tracks),
         NEW u \in 1..Len(tracks), NEW p \in TSType, p.pid = tracks[u].pid, p.cc = tracks[u].cc,
         NEW after, CountsOn(tracks, after, u)
  PROVE  Written(Append(s, p), pat, pmt, after) /\ Extends(Append(s, p), s)
<1> DEFINE s2 == Append(s, p)
<1> USE DEF Apart, CountsOn
<1>1. s \in Seq(TSType) /\ Counted(s) /\ NextIs(s, p.pid, p.cc)
  BY DEF Written
<1>2. PICK l \in Nat : l = Len(s)
  BY <1>1
<1>3. /\ s2 \in Seq(TSType) /\ Counted(s2) /\ Extends(s2, s)
      /\ Len(s2) = l + 1 /\ s2[l+1] = p
      /\ NextIs(s2, p.pid, Step(p.cc))
      /\ \A q, c : q # p.pid /\ NextIs(s, q, c) => NextIs(s2, q, c)
  BY <1>1, <1>2, AppendCounted
<1> HIDE DEF s2
<1>4. PAT \in Reserved /\ PMT \in Reserved
  BY DEF Reserved
<1>5. NextIs(s2, PAT, Step(pat)) /\ NextIs(s2, PMT, Step(pmt))
  <2>1. p.pid # PAT /\ p.pid # PMT
    BY <1>4
  <2> QED BY <1>3, <2>1 DEF Written
<1>6. ASSUME NEW t \in 1..Len(tracks) PROVE NextIs(s2, after[t].pid, after[t].cc)
  <2>1. CASE t = u
    BY <1>3, <2>1
  <2>2. CASE t # u
    <3>1. tracks[t].pid # p.pid /\ NextIs(s, tracks[t].pid, tracks[t].cc)
      BY <2>2 DEF Written
    <3> QED BY <1>3, <2>2, <3>1
  <2> QED BY <2>1, <2>2
<1>7. ASSUME NEW i \in 1..l+1
      PROVE  s2[i].pid \in Reserved \/ \E t \in 1..Len(tracks) : s2[i].pid = after[t].pid
  <2>1. CASE i = l + 1
    BY <1>3, <2>1
  <2>2. CASE i \in 1..l
    <3>1. s2[i] = s[i]
      BY <1>2, <1>3, <2>2 DEF Extends
    <3>2. s[i].pid \in Reserved \/ \E t \in 1..Len(tracks) : s[i].pid = tracks[t].pid
      BY <1>2, <2>2 DEF Written
    <3> QED BY <3>1, <3>2
  <2>3. i = l + 1 \/ i \in 1..l
    BY <1>2
  <2> QED BY <2>1, <2>2, <2>3
<1>8. Written(s2, pat, pmt, after)
  BY <1>3, <1>5, <1>6, <1>7 DEF Written
<1> QED BY <1>3, <1>8 DEF s2

(* A new track, of which nothing has been written.                         *)
LEMMA NewTrackIsCounted ==
  ASSUME NEW s, NEW pat, NEW pmt, NEW tracks \in Seq(TrackType), Written(s, pat, pmt, tracks),
         NEW after, Len(after) = Len(tracks) + 1,
         \A t \in 1..Len(tracks) :
            after[t] = tracks[t] /\ tracks[t].pid # after[Len(tracks) + 1].pid,
         after[Len(tracks) + 1].pid \notin Reserved
  PROVE  Written(s, pat, pmt, after)
<1>1. PICK n \in Nat : n = Len(tracks)
  OBVIOUS
<1>2. \A i \in 1..Len(s) : s[i].pid # after[n+1].pid
  BY <1>1 DEF Written
<1>3. NextIs(s, after[n+1].pid, after[n+1].cc)
  BY <1>2 DEF NextIs
<1>4. \A t \in 1..n+1 : t \in 1..n \/ t = n + 1
  BY <1>1
<1>5. \A t \in 1..n+1 : NextIs(s, after[t].pid, after[t].cc)
  BY <1>1, <1>3, <1>4 DEF Written
<1>6. \A t \in 1..n : t \in 1..n+1
  BY <1>1
<1>7. \A i \in 1..Len(s) :
        s[i].pid \in Reserved \/ \E t \in 1..n+1 : s[i].pid = after[t].pid
  BY <1>1, <1>6 DEF Written
<1> QED BY <1>1, <1>5, <1>7 DEF Written

(* What packetize has written when it has written the first data packet.   *)
LEMMA PacketizeWrites ==
  ASSUME PacketizerInv, PIDsCounted, NEW t \in 1..Len(mTracks), NEW size \in Nat,
         NEW extra \in 0..170, NEW tables \in BOOLEAN, Packetize(t, size, extra, tables),
         NEW s, Written(s, mPATContinuityCounter, mPMTContinuityCounter, mTracks)
  PROVE  \E s2 : /\ Written(s2, mPATContinuityCounter', mPMTContinuityCounter', mTracks')
                 /\ Extends(s2, s) /\ Piece(s2, job'.packets, Len(s))
                 /\ Len(s) + Len(job'.packets) = Len(s2)
<1> DEFINE pat   == mPATContinuityCounter
           pmt   == mPMTContinuityCounter
           copy  == Smaller(size, FirstRoom(size, extra))
           lead  == IF tables THEN Tables ELSE << >>
           first == TSPacket(mTracks[t].pid, mTracks[t].cc, copy)
<1>1. /\ mTracks \in Seq(TrackType) /\ mTracks[t] \in TrackType
      /\ pat \in Counters /\ pmt \in Counters
  BY DEF PacketizerInv, TracksTyped
<1>2. /\ pat' = (IF tables THEN Step(pat) ELSE pat)
      /\ pmt' = (IF tables THEN Step(pmt) ELSE pmt)
      /\ CountPacket(t) /\ job'.packets = Append(lead, first)
  BY DEF Packetize
<1>3. copy \in Nat
  <2>1. FirstRoom(size, extra) = copy /\ FirstRoom(size, extra) \in Nat
    BY FirstPacketFits
  <2> QED BY <2>1
<1>4. first \in TSType /\ first.pid = mTracks[t].pid /\ first.cc = mTracks[t].cc
  BY <1>1, <1>3, PacketTyped DEF TrackType, TSType, TSPacket
<1> HIDE DEF copy, first
<1>5. CountsOn(mTracks, mTracks', t)
  BY <1>1, <1>2, CountPacketTyped, CountPacketDistinct DEF CountsOn
<1>6. Apart(mTracks)
  BY DEF PIDsCounted, DistinctPIDs, Apart
<1>7. s \in Seq(TSType)
  BY DEF Written
<1>8. PICK s1 : /\ s1 \in Seq(TSType) /\ lead \in Seq(TSType)
                /\ Written(s1, pat', pmt', mTracks)
                /\ Extends(s1, s) /\ Piece(s1, lead, Len(s)) /\ Len(s) + Len(lead) = Len(s1)
  <2>1. CASE tables
    <3> DEFINE a == TSPacket(PAT, Step(pat), 0)
               b == TSPacket(PMT, Step(pmt), 0)
               c == TSPacket(PCR, 0, 0)
               s3 == Append(Append(Append(s, a), b), c)
    <3>2. lead = <<a, b, c>>
      BY <2>1 DEF Tables
    <3>0. /\ a = TSPacket(PAT, Step(pat), 0) /\ b = TSPacket(PMT, Step(pmt), 0)
          /\ c = TSPacket(PCR, 0, 0)
      OBVIOUS
    <3> HIDE DEF a, b, c
    <3>1. /\ a \in TSType /\ b \in TSType /\ c \in TSType
          /\ Written(s3, Step(pat), Step(pmt), mTracks)
          /\ Extends(s3, s) /\ Piece(s3, <<a, b, c>>, Len(s)) /\ Len(s) + 3 = Len(s3)
      BY <1>1, <1>6, <3>0, TablesAreCounted
    <3> HIDE DEF s3
    <3>3. <<a, b, c>> \in Seq(TSType) /\ Len(<<a, b, c>>) = 3
      BY <3>1
    <3>4. s3 \in Seq(TSType)
      BY <3>1 DEF Written
    <3>5. pat' = Step(pat) /\ pmt' = Step(pmt)
      BY <1>2, <2>1
    <3> QED BY <3>1, <3>2, <3>3, <3>4, <3>5
  <2>2. CASE ~tables
    <3>1. lead = << >> /\ Len(lead) = 0 /\ lead \in Seq(TSType)
      BY <2>2
    <3>2. Extends(s, s) /\ Piece(s, lead, Len(s)) /\ Len(s) + 0 = Len(s)
      BY <1>7, <3>1 DEF Extends, Piece
    <3>3. pat' = pat /\ pmt' = pmt
      BY <1>2, <2>2
    <3> QED BY <1>7, <3>1, <3>2, <3>3
  <2> QED BY <2>1, <2>2
<1> HIDE DEF lead
<1>9. pat' \in Counters /\ pmt' \in Counters
  BY <1>1, <1>2, StepType
<1> DEFINE s2 == Append(s1, first)
<1>10. Written(s2, pat', pmt', mTracks') /\ Extends(s2, s1)
  BY <1>1, <1>4, <1>5, <1>6, <1>8, <1>9, DataIsCounted
<1>11. Len(s) \in Nat
  BY <1>7
<1>12. Piece(s2, job'.packets, Len(s)) /\ Len(s) + Len(job'.packets) = Len(s2)
  BY <1>2, <1>4, <1>8, <1>11, AppendPiece
<1>13. s2 \in Seq(TSType)
  BY <1>10 DEF Written
<1> HIDE DEF s2
<1>14. Extends(s2, s)
  BY <1>7, <1>8, <1>10, <1>13 DEF Extends
<1> QED BY <1>10, <1>12, <1>14

(* What it has written after one more turn of the loop.                    *)
LEMMA NextFragmentWrites ==
  ASSUME PacketizerInv, PIDsCounted, NextFragment,
         NEW s, Written(s, mPATContinuityCounter, mPMTContinuityCounter, mTracks),
         NEW from \in Nat, Piece(s, job.packets, from), from + Len(job.packets) = Len(s)
  PROVE  \E s2 : /\ Written(s2, mPATContinuityCounter', mPMTContinuityCounter', mTracks')
                 /\ Extends(s2, s) /\ Piece(s2, job'.packets, from)
                 /\ from + Len(job'.packets) = Len(s2)
<1>0. PICK t : t = job.track
  OBVIOUS
<1> DEFINE rest == job.size - job.offset
           copy == Smaller(rest, RestRoom(rest))
           new  == TSPacket(mTracks[t].pid, mTracks[t].cc, copy)
           s2   == Append(s, new)
<1>1. /\ mTracks \in Seq(TrackType)
      /\ mPATContinuityCounter \in Counters /\ mPMTContinuityCounter \in Counters
  BY DEF PacketizerInv, TracksTyped
<1>2. job \in JobType /\ t \in 1..Len(mTracks) /\ job.offset < job.size
  BY <1>0 DEF NextFragment, PacketizerInv, JobOnCourse
<1>3. /\ job.size \in Nat /\ job.offset \in Nat /\ job.packets \in Seq(TSType)
  BY <1>2 DEF JobType, TSType
<1>4. copy \in Nat
  <2>1. rest \in Nat /\ rest > 0
    BY <1>2, <1>3
  <2>2. RestRoom(rest) = copy /\ RestRoom(rest) \in Nat
    BY <2>1, FragmentFits
  <2> QED BY <2>2
<1>5. mTracks[t] \in TrackType
  BY <1>1, <1>2
<1>6. new \in TSType /\ new.pid = mTracks[t].pid /\ new.cc = mTracks[t].cc
  BY <1>4, <1>5, PacketTyped DEF TrackType, TSType, TSPacket
<1>7. CountPacket(t) /\ UNCHANGED <<mPATContinuityCounter, mPMTContinuityCounter>>
  BY <1>0 DEF NextFragment
<1>8. job'.packets = Append(job.packets, new)
  BY <1>0, <1>2 DEF NextFragment, JobType
<1>9. CountsOn(mTracks, mTracks', t)
  BY <1>1, <1>2, <1>7, CountPacketTyped, CountPacketDistinct DEF CountsOn
<1>10. Apart(mTracks)
  BY DEF PIDsCounted, DistinctPIDs, Apart
<1> HIDE DEF rest, copy, new
<1>14. t \in 1..Len(mTracks)
  BY <1>2
<1>11. /\ Written(s2, mPATContinuityCounter, mPMTContinuityCounter, mTracks')
       /\ Extends(s2, s)
  BY <1>1, <1>6, <1>9, <1>10, <1>14, DataIsCounted
<1>12. s \in Seq(TSType)
  BY DEF Written
<1>13. Piece(s2, job'.packets, from) /\ from + Len(job'.packets) = Len(s2)
  <2>1. PICK q \in Seq(TSType) : q = job.packets
    BY <1>3
  <2>2. Piece(s, q, from) /\ from + Len(q) = Len(s)
    BY <2>1
  <2>3. Piece(s2, Append(q, new), from) /\ from + Len(Append(q, new)) = Len(s2)
    BY <1>6, <1>12, <2>2, AppendPiece
  <2> QED BY <1>8, <2>1, <2>3
<1> QED BY <1>7, <1>11, <1>13

-----------------------------------------------------------------------------
(* Which actions change what                                               *)

LEMMA SourceFrame ==
  ASSUME [Next]_vars
  PROVE  \/ AddNextTrack \/ DrainAccessUnit \/ Fragment \/ HandOver
         \/ UNCHANGED <<tsVars, todo>>
BY DEF Next, vars, SourceStep, NetworkStep, RendererStep, Losses, OpenSockets, Start, DrainQueue,
       Report, SocketFails, Arrive, NackArrives, Lose, LoseNack, PlayOldest, Miss, WaitIsOver

LEMMA SocketsFrame ==
  ASSUME [Next]_vars
  PROVE  TryPorts \/ SocketFails \/ UNCHANGED <<sockets, sessionsDead>>
BY DEF Next, vars, SourceStep, NetworkStep, RendererStep, Losses, OpenSockets, Start, AddNextTrack,
       DrainAccessUnit, Fragment, HandOver, DrainQueue, Report, Arrive, NackArrives, Lose, LoseNack,
       PlayOldest, Miss, WaitIsOver, ScheduleSR, QueuePackets, OnDrainQueue, OnSendSR, OnNack,
       senderVars

LEMMA ReportsFrame ==
  ASSUME [Next]_vars
  PROVE  ScheduleSR \/ OnSendSR \/ UNCHANGED reports
BY DEF Next, vars, SourceStep, NetworkStep, RendererStep, Losses, OpenSockets, Start, AddNextTrack,
       DrainAccessUnit, Fragment, HandOver, DrainQueue, Report, SocketFails, Arrive, NackArrives,
       Lose, LoseNack, PlayOldest, Miss, WaitIsOver, QueuePackets, OnDrainQueue, OnNack, TryPorts,
       RTPError, RTCPError, senderVars

LEMMA QueuesFrame ==
  ASSUME [Next]_vars
  PROVE  HandOver \/ OnDrainQueue \/ UNCHANGED <<queues, mHistory>>
BY DEF Next, vars, SourceStep, NetworkStep, RendererStep, Losses, OpenSockets, Start, AddNextTrack,
       DrainAccessUnit, Fragment, DrainQueue, Report, SocketFails, Arrive, NackArrives,
       Lose, LoseNack, PlayOldest, Miss, WaitIsOver, ScheduleSR, OnSendSR, OnNack, TryPorts,
       RTPError, RTCPError, senderVars

LEMMA SinkFrame ==
  ASSUME [Next]_vars
  PROVE  \/ \E d \in air : Arrive(d)
         \/ PlayOldest \/ Miss
         \/ UNCHANGED <<mSource, held, last, decoded>>
BY DEF Next, vars, SourceStep, NetworkStep, RendererStep, Losses, OpenSockets, Start, AddNextTrack,
       DrainAccessUnit, Fragment, HandOver, DrainQueue, Report, SocketFails, NackArrives,
       Lose, LoseNack, WaitIsOver, sinkVars, rendererVars

LEMMA WindowsFrame ==
  ASSUME [Next]_vars
  PROVE  (\E d \in air : Arrive(d)) \/ UNCHANGED <<mSource, newest, inWindows>>
BY DEF Next, vars, SourceStep, NetworkStep, RendererStep, Losses, OpenSockets, Start, AddNextTrack,
       DrainAccessUnit, Fragment, HandOver, DrainQueue, Report, SocketFails, NackArrives,
       Lose, LoseNack, PlayOldest, Miss, WaitIsOver, sinkVars, rendererVars, fate

-----------------------------------------------------------------------------
(* Each part of the invariant                                              *)

(* The unit encoded next is one packetize can take.                        *)
LEMMA UnitFits ==
  ASSUME PlanHolds, DrainAccessUnit
  PROVE  \E t \in 1..Len(mTracks), size \in Nat, extra \in 0..170, tables \in BOOLEAN :
           Fits(t, size, extra) /\ Packetize(t, size, extra, tables)
<1> DEFINE unit == Head(todo)
<1>1. unit \in AccessUnits
  BY DEF PlanHolds, DrainAccessUnit
<1>2. Packetize(unit.track, unit.size, unit.extra, unit.tables)
  BY DEF DrainAccessUnit
<1> HIDE DEF unit
<1>3. /\ unit.track \in 1..Len(TrackKinds) /\ unit.size \in Nat /\ unit.extra \in 0..170
      /\ unit.tables \in BOOLEAN
      /\ PESLength(unit.size, unit.extra) < 65536 \/ IsVideo(TrackKinds[unit.track])
  BY <1>1 DEF AccessUnits
<1>4. unit.track \in 1..Len(mTracks) /\ mTracks[unit.track].kind = TrackKinds[unit.track]
  BY <1>3 DEF PlanHolds, DrainAccessUnit
<1>5. Fits(unit.track, unit.size, unit.extra)
  BY <1>3, <1>4 DEF Fits
<1>6. /\ Fits(unit.track, unit.size, unit.extra)
      /\ Packetize(unit.track, unit.size, unit.extra, unit.tables)
  BY <1>2, <1>5
<1>7. PICK t, size, extra, tables :
        t = unit.track /\ size = unit.size /\ extra = unit.extra /\ tables = unit.tables
  OBVIOUS
<1>8. t \in 1..Len(mTracks) /\ size \in Nat /\ extra \in 0..170 /\ tables \in BOOLEAN
  BY <1>3, <1>4, <1>7
<1>9. Fits(t, size, extra) /\ Packetize(t, size, extra, tables)
  BY <1>6, <1>7
<1> QED BY <1>8, <1>9

(* The track added next is one of those planned.                           *)
LEMMA TrackIsPlanned ==
  ASSUME PacketizerInv, PlanHolds, AddNextTrack
  PROVE  \E kind \in Kinds : AddTrack(kind) /\ kind = TrackKinds[Len(mTracks) + 1]
<1>1. Len(mTracks) \in Nat /\ Len(mTracks) < Len(TrackKinds)
  BY DEF PacketizerInv, TracksTyped, AddNextTrack
<1>2. Len(mTracks) + 1 \in 1..Len(TrackKinds)
  BY <1>1, StreamAssumption
<1>3. TrackKinds[Len(mTracks) + 1] \in Kinds
  BY <1>2, StreamAssumption
<1> QED BY <1>3 DEF AddNextTrack

LEMMA SourceHolds ==
  ASSUME Base, [Next]_vars
  PROVE  (PacketizerInv /\ PIDsCounted /\ PlanHolds)'
<1>1. PacketizerInv /\ PIDsCounted /\ PlanHolds
  BY DEF Base
<1>2. mTracks \in Seq(TrackType)
  BY <1>1 DEF PacketizerInv, TracksTyped
<1>3. ASSUME NEW t \in 1..Len(mTracks), CountPacket(t), todo' = todo \/ todo' = Tail(todo),
             todo # << >> \/ todo' = todo
      PROVE  PIDsCounted' /\ PlanHolds'
  <2>1. PIDsCounted' /\ \A u \in 1..Len(mTracks) : mTracks'[u].kind = mTracks[u].kind
    BY <1>1, <1>2, <1>3, CountPacketDistinct
  <2>2. Len(mTracks') = Len(mTracks)
    BY <1>2, <1>3, CountPacketTyped
  <2>3. todo' \in Seq(AccessUnits)
    BY <1>1, <1>3 DEF PlanHolds
  <2> QED BY <1>1, <2>1, <2>2, <2>3 DEF PlanHolds
<1>4. CASE AddNextTrack
  <2>1. PICK kind \in Kinds : AddTrack(kind) /\ kind = TrackKinds[Len(mTracks) + 1]
    BY <1>1, <1>4, TrackIsPlanned
  <2>2. PacketizerInv'
    BY <1>1, <2>1, AddTrackHolds
  <2>3. PICK n \in Nat : n = Len(mTracks)
    BY <1>2
  <2>4. /\ PIDsCounted' /\ Len(mTracks') = n + 1
        /\ \A t \in 1..n : mTracks'[t] = mTracks[t]
        /\ mTracks'[n+1].kind = kind
    BY <1>1, <2>1, <2>3, AddTrackDistinct
  <2>5. Len(TrackKinds) \in Nat /\ n < Len(TrackKinds) /\ todo' = todo
    BY <1>4, <2>3, StreamAssumption DEF AddNextTrack
  <2>6. \A t \in 1..n+1 : mTracks'[t].kind = TrackKinds[t]
    <3>1. \A t \in 1..n+1 : t \in 1..n \/ t = n + 1
      BY <2>3
    <3>2. \A t \in 1..n : mTracks[t].kind = TrackKinds[t]
      BY <1>1, <2>3 DEF PlanHolds
    <3> QED BY <2>1, <2>3, <2>4, <3>1, <3>2
  <2>7. PlanHolds'
    BY <1>1, <2>4, <2>5, <2>6 DEF PlanHolds
  <2> QED BY <2>2, <2>4, <2>7
<1>5. CASE DrainAccessUnit
  <2>1. PICK t \in 1..Len(mTracks), size \in Nat, extra \in 0..170, tables \in BOOLEAN :
          Fits(t, size, extra) /\ Packetize(t, size, extra, tables)
    BY <1>1, <1>5, UnitFits
  <2>2. PacketizerInv'
    BY <1>1, <2>1, PacketizeHolds
  <2>3. CountPacket(t) /\ todo' = Tail(todo) /\ todo # << >>
    BY <1>5, <2>1 DEF Packetize, DrainAccessUnit
  <2> QED BY <1>3, <2>2, <2>3
<1>6. CASE Fragment
  <2>1. NextFragment /\ todo' = todo
    BY <1>6 DEF Fragment
  <2>2. CountPacket(job.track) /\ job.track \in 1..Len(mTracks)
    BY <1>1, <2>1 DEF NextFragment, PacketizerInv, JobOnCourse
  <2>3. PacketizerInv'
    BY <1>1, <2>1, NextFragmentHolds
  <2> QED BY <1>3, <2>1, <2>2, <2>3
<1>7. CASE HandOver
  <2>1. Finish /\ todo' = todo /\ mTracks' = mTracks
    BY <1>7 DEF HandOver, Finish
  <2>2. PacketizerInv'
    BY <1>1, <2>1, FinishHolds
  <2> QED BY <1>1, <2>1, <2>2 DEF PIDsCounted, PIDsInUse, CountTracks, DistinctPIDs, PlanHolds
<1>8. CASE UNCHANGED <<tsVars, todo>>
  <2>1. UNCHANGED <<mTracks, mPATContinuityCounter, mPMTContinuityCounter, job, failed, todo>>
    BY <1>8 DEF tsVars
  <2> QED BY <1>1, <2>1 DEF PacketizerInv, TracksTyped, JobOnCourse, PIDsCounted, PIDsInUse,
                            CountTracks, DistinctPIDs, PlanHolds
<1> QED BY <1>4, <1>5, <1>6, <1>7, <1>8, SourceFrame

(* A session that is reported dead lived until then.                       *)
LEMMA SocketsStay ==
  ASSUME Base, [Next]_vars
  PROVE  SocketsHold'
<1>1. SocketsHold /\ MaxPorts \in Nat
  BY MaxPortsAssumption DEF Base
<1>2. CASE TryPorts
  <2>1. /\ tried \in Nat /\ tried < MaxPorts /\ tried' = tried + 1 /\ mRTPPort = 0
        /\ ~mRTPSessionID /\ ~mRTCPSessionID /\ sessionsDead = 0 /\ sessionsDead' = 0
    BY <1>1, <1>2 DEF TryPorts, SocketsHold
  <2>2. CASE mRTPPort' = tried' /\ mRTPSessionID' = TRUE /\ mRTCPSessionID' = TRUE
    <3>1. tried' \in 0..MaxPorts /\ tried' # 0
      BY <1>1, <2>1
    <3>2. mRTPPort' # 0 /\ mRTPPort' \in {0, tried'}
      BY <2>2, <3>1
    <3> QED BY <2>1, <2>2, <3>1, <3>2 DEF SocketsHold
  <2>3. CASE tried' < MaxPorts /\ UNCHANGED <<mRTPPort, mRTPSessionID, mRTCPSessionID>>
    <3>1. tried' \in 0..MaxPorts
      BY <1>1, <2>1
    <3> QED BY <1>1, <2>1, <2>3, <3>1 DEF SocketsHold
  <2> QED BY <1>2, <2>2, <2>3 DEF TryPorts
<1>3. CASE SocketFails
  <2>0. ASSUME UNCHANGED <<sockets, sessionsDead>> PROVE SocketsHold'
    BY <1>1, <2>0 DEF sockets, SocketsHold
  <2>1. ASSUME NEW send \in BOOLEAN, RTPError(send) PROVE SocketsHold'
    <3>1. mRTPSessionID = TRUE /\ UNCHANGED <<mRTCPSessionID, mRTPPort, tried>>
      BY <1>1, <2>1 DEF RTPError, SocketsHold
    <3>2. CASE send = TRUE
      <4>1. mRTPSessionID' = FALSE /\ sessionsDead' = sessionsDead + 1
        BY <2>1, <3>2 DEF RTPError
      <4>2. mRTPPort # 0 /\ sessionsDead < 2 /\ sessionsDead \in 0..2
        BY <1>1, <3>1 DEF SocketsHold
      <4>3. mRTCPSessionID = TRUE => sessionsDead = 0
        BY <1>1, <3>1 DEF SocketsHold
      <4>4. sessionsDead' \in 0..2 /\ (mRTCPSessionID' = TRUE => sessionsDead' < 2)
        BY <3>1, <4>1, <4>2, <4>3
      <4>5. mRTCPSessionID' \in BOOLEAN /\ tried' \in 0..MaxPorts /\ mRTPPort' \in {0, tried'}
        BY <1>1, <3>1 DEF SocketsHold
      <4>6. mRTPPort' # 0
        BY <3>1, <4>2
      <4> QED BY <4>1, <4>4, <4>5, <4>6 DEF SocketsHold
    <3>3. CASE send = FALSE
      <4>1. mRTPSessionID' = TRUE /\ sessionsDead' = sessionsDead
        BY <2>1, <3>3 DEF RTPError
      <4> QED BY <1>1, <3>1, <4>1 DEF SocketsHold
    <3> QED BY <3>2, <3>3
  <2>2. ASSUME RTCPError PROVE SocketsHold'
    <3>1. mRTCPSessionID = TRUE /\ UNCHANGED <<mRTPSessionID, mRTPPort, tried>>
      BY <1>1, <2>2 DEF RTCPError, SocketsHold
    <3>2. mRTCPSessionID' = FALSE /\ sessionsDead' = sessionsDead + 1
      BY <2>2 DEF RTCPError
    <3>3. mRTPPort # 0 /\ sessionsDead < 2 /\ sessionsDead \in 0..2
      BY <1>1, <3>1 DEF SocketsHold
    <3>4. mRTPSessionID = TRUE => sessionsDead = 0
      BY <1>1, <3>1 DEF SocketsHold
    <3>5. sessionsDead' \in 0..2 /\ (mRTPSessionID' = TRUE => sessionsDead' < 2)
      BY <3>1, <3>2, <3>3, <3>4
    <3>6. mRTPSessionID' \in BOOLEAN /\ tried' \in 0..MaxPorts /\ mRTPPort' \in {0, tried'}
      BY <1>1, <3>1 DEF SocketsHold
    <3>7. mRTPPort' # 0
      BY <3>1, <3>3
    <3> QED BY <3>2, <3>5, <3>6, <3>7 DEF SocketsHold
  <2> QED BY <1>3, <2>1, <2>2 DEF SocketFails
<1>4. CASE UNCHANGED <<sockets, sessionsDead>>
  BY <1>1, <1>4 DEF sockets, SocketsHold
<1> QED BY <1>2, <1>3, <1>4, SocketsFrame

(* A report is scheduled only when none is, or by the one before it.       *)
LEMMA ReportsStay ==
  ASSUME Base, [Next]_vars
  PROVE  ReportsHold'
<1>1. ReportsHold /\ mRTCPSessionID \in BOOLEAN
  BY DEF Base, SocketsHold
<1>2. CASE ScheduleSR
  BY <1>1, <1>2 DEF ScheduleSR, ReportsHold
<1>3. CASE OnSendSR
  BY <1>1, <1>3 DEF OnSendSR, ReportsHold
<1>4. CASE UNCHANGED reports
  BY <1>1, <1>4 DEF reports, ReportsHold
<1> QED BY <1>2, <1>3, <1>4, ReportsFrame

(* What packetize has written goes to the Sender whole.                    *)
LEMMA HandOverGives ==
  ASSUME PacketizerInv, QueuesHold, HandOver
  PROVE  LET r == Numbered(job.packets, mRTPSeqNo)
         IN  /\ job # NoJob /\ job' = NoJob
             /\ job.packets \in Seq(TSType) /\ job.packets # << >>
             /\ mRTPSeqNo' = mRTPSeqNo + Len(r) /\ drains' = Append(drains, r)
             /\ r \in Seq(RTPType) /\ Len(r) > 0 /\ EndsAt(r, mRTPSeqNo + Len(r))
             /\ UNCHANGED <<mHistory, air, held, last, decoded, mTracks>>
             /\ UNCHANGED <<mPATContinuityCounter, mPMTContinuityCounter>>
<1>1. job # NoJob /\ job' = NoJob
      /\ UNCHANGED <<mTracks, mPATContinuityCounter, mPMTContinuityCounter>>
  BY DEF HandOver, Finish
<1>2. job.packets \in Seq(TSType) /\ job.packets # << >>
  BY <1>1 DEF PacketizerInv, JobOnCourse, JobType, TSType
<1>3. /\ mRTPSeqNo' = mRTPSeqNo + Len(Numbered(job.packets, mRTPSeqNo))
      /\ drains' = Append(drains, Numbered(job.packets, mRTPSeqNo))
      /\ UNCHANGED <<mHistory, air>>
  BY DEF HandOver, QueuePackets
<1>4. UNCHANGED <<held, last, decoded>>
  BY DEF HandOver, sinkVars, rendererVars
<1>5. mRTPSeqNo \in Nat
  BY DEF QueuesHold
<1> QED BY <1>1, <1>2, <1>3, <1>4, <1>5, NumberedGives

(* The list sent next follows on the history.                              *)
LEMMA DrainGives ==
  ASSUME QueuesHold, OnDrainQueue
  PROVE  /\ drains # << >> /\ Head(drains) = drains[1] /\ 1 \in 1..Len(drains)
         /\ Head(drains) \in Seq(RTPType)
         /\ EndsAt(mHistory \o Head(drains), After(drains', mRTPSeqNo, 0))
         /\ After(drains', mRTPSeqNo, 0) \in Int /\ InTurn(drains', mRTPSeqNo)
         /\ drains' = Tail(drains) /\ drains' \in Seq(Seq(RTPType))
         /\ mHistory' = KeepNewest(mHistory \o Head(drains))
<1>1. /\ drains # << >> /\ drains \in Seq(Seq(RTPType)) /\ InTurn(drains, mRTPSeqNo)
      /\ mRTPSeqNo \in Nat
      /\ drains' = Tail(drains) /\ mHistory' = KeepNewest(mHistory \o Head(drains))
  BY DEF QueuesHold, OnDrainQueue
<1>2. /\ InTurn(Tail(drains), mRTPSeqNo)
      /\ After(Tail(drains), mRTPSeqNo, 0) = After(drains, mRTPSeqNo, 1)
      /\ EndsAt(Head(drains), After(drains, mRTPSeqNo, 1))
      /\ After(drains, mRTPSeqNo, 1) \in Nat
      /\ After(drains, mRTPSeqNo, 0) = After(drains, mRTPSeqNo, 1) - Len(Head(drains))
  BY <1>1, TailInTurn
<1>3. /\ Head(drains) \in Seq(RTPType) /\ Head(drains) = drains[1] /\ 1 \in 1..Len(drains)
      /\ Tail(drains) \in Seq(Seq(RTPType))
  BY <1>1
<1>4. EndsAt(mHistory \o Head(drains), After(drains, mRTPSeqNo, 1))
  BY <1>2, <1>3, ConcatEndsAt DEF QueuesHold
<1> QED BY <1>1, <1>2, <1>3, <1>4

LEMMA QueuesStay ==
  ASSUME Base, [Next]_vars
  PROVE  QueuesHold'
<1>1. QueuesHold /\ PacketizerInv
  BY DEF Base
<1>2. CASE HandOver
  <2> DEFINE r == Numbered(job.packets, mRTPSeqNo)
  <2>1. /\ mRTPSeqNo' = mRTPSeqNo + Len(r) /\ drains' = Append(drains, r)
        /\ r \in Seq(RTPType) /\ Len(r) > 0 /\ EndsAt(r, mRTPSeqNo + Len(r))
        /\ mHistory' = mHistory
    BY <1>1, <1>2, HandOverGives
  <2> HIDE DEF r
  <2>2. /\ InTurn(Append(drains, r), mRTPSeqNo + Len(r))
        /\ After(Append(drains, r), mRTPSeqNo + Len(r), 0) = After(drains, mRTPSeqNo, 0)
    BY <1>1, <2>1, AppendInTurn DEF QueuesHold
  <2>3. mRTPSeqNo' \in Nat /\ drains' \in Seq(Seq(RTPType))
    BY <1>1, <2>1 DEF QueuesHold
  <2> QED BY <1>1, <2>1, <2>2, <2>3 DEF QueuesHold
<1>3. CASE OnDrainQueue
  <2>1. /\ Head(drains) \in Seq(RTPType)
        /\ EndsAt(mHistory \o Head(drains), After(drains', mRTPSeqNo, 0))
        /\ After(drains', mRTPSeqNo, 0) \in Int /\ InTurn(drains', mRTPSeqNo)
        /\ drains' \in Seq(Seq(RTPType))
        /\ mHistory' = KeepNewest(mHistory \o Head(drains))
    BY <1>1, <1>3, DrainGives
  <2>2. mRTPSeqNo' = mRTPSeqNo /\ mHistory \o Head(drains) \in Seq(RTPType)
    BY <1>1, <1>3, <2>1 DEF OnDrainQueue, QueuesHold
  <2>3. /\ mHistory' \in Seq(RTPType) /\ EndsAt(mHistory', After(drains', mRTPSeqNo, 0))
        /\ Len(mHistory') <= MaxHistoryLength
    BY <2>1, <2>2, KeepNewestGives
  <2> QED BY <1>1, <2>1, <2>2, <2>3 DEF QueuesHold
<1>4. CASE UNCHANGED <<queues, mHistory>>
  <2>1. UNCHANGED <<mRTPSeqNo, drains, mHistory>>
    BY <1>4 DEF queues
  <2> QED BY <1>1, <2>1 DEF QueuesHold
<1> QED BY <1>2, <1>3, <1>4, QueuesFrame

-----------------------------------------------------------------------------
(* RTP packets                                                             *)

(* A packet is in a list still to be sent, in the history, on its way or   *)
(* held at the sink.                                                       *)
LEMMA KnownIs ==
  ASSUME NEW p
  PROVE  p \in Known <=> \/ \E i \in 1..Len(drains) : p \in Entries(drains[i])
                         \/ p \in Entries(mHistory)
                         \/ \E d \in air : p = d.p
                         \/ \E h \in held : p = h.p
BY DEF Known, Waiting

(* Only HandOver makes new packets.                                        *)
LEMMA NothingNew ==
  ASSUME Base, [Next]_vars, ~HandOver
  PROVE  Known' \subseteq Known /\ mRTPSeqNo' = mRTPSeqNo
<1>1. QueuesHold
  BY DEF Base
<1>2. CASE OnDrainQueue
  <2>1. /\ Head(drains) = drains[1] /\ 1 \in 1..Len(drains) /\ drains' = Tail(drains)
        /\ EndsAt(mHistory \o Head(drains), After(drains', mRTPSeqNo, 0))
        /\ After(drains', mRTPSeqNo, 0) \in Int
        /\ mHistory' = KeepNewest(mHistory \o Head(drains))
        /\ Head(drains) \in Seq(RTPType) /\ drains \in Seq(Seq(RTPType))
    BY <1>1, <1>2, DrainGives DEF QueuesHold
  <2>2. mHistory \in Seq(RTPType) /\ mHistory \o Head(drains) \in Seq(RTPType)
    BY <1>1, <2>1 DEF QueuesHold
  <2>3. Entries(Head(drains)) \subseteq Known
    BY <2>1 DEF Known, Waiting
  <2>4. Entries(mHistory \o Head(drains)) \subseteq Entries(mHistory) \cup Entries(Head(drains))
    <3>1. PICK h \in Seq(RTPType), r \in Seq(RTPType) : h = mHistory /\ r = Head(drains)
      BY <2>1, <2>2
    <3>2. Entries(h \o r) \subseteq Entries(h) \cup Entries(r)
      BY DEF Entries
    <3> QED BY <3>1, <3>2
  <2>5. Entries(mHistory') \subseteq Known
    <3>1. Entries(mHistory') \subseteq Entries(mHistory \o Head(drains))
      BY <2>1, <2>2, KeepNewestGives
    <3> QED BY <2>3, <2>4, <3>1 DEF Known
  <2>6. ASSUME NEW i \in 1..Len(drains') PROVE Entries(drains'[i]) \subseteq Known
    <3>1. i + 1 \in 1..Len(drains) /\ drains'[i] = drains[i+1]
      BY <2>1
    <3> QED BY <3>1 DEF Known, Waiting
  <2>7. ASSUME NEW d \in air' PROVE d.p \in Known
    <3>1. d \in air \/ d \in {[p |-> p, again |-> FALSE] : p \in Entries(Head(drains))}
      BY <1>2 DEF OnDrainQueue, Give
    <3>2. CASE d \in air
      BY <3>2 DEF Known
    <3>3. CASE d \in {[p |-> p, again |-> FALSE] : p \in Entries(Head(drains))}
      <4>1. d.p \in Entries(Head(drains))
        BY <3>3
      <4> QED BY <2>3, <4>1
    <3> QED BY <3>1, <3>2, <3>3
  <2>8. held' = held /\ mRTPSeqNo' = mRTPSeqNo
    <3>1. mRTPSeqNo' = mRTPSeqNo
      BY <1>2 DEF OnDrainQueue
    <3>2. ~(\E d \in air : Arrive(d)) /\ ~PlayOldest /\ ~Miss
      <4>1. drains' # drains
        <5>1. Len(drains) \in Nat /\ Len(drains') = Len(drains) - 1
          BY <2>1
        <5> QED BY <5>1
      <4> QED BY <4>1 DEF Arrive, PlayOldest, Miss, queues, senderVars, tsVars
    <3> QED BY <3>1, <3>2, SinkFrame
  <2>9. ASSUME NEW h \in held' PROVE h.p \in Known
    BY <2>8, <2>9 DEF Known
  <2> QED BY <2>5, <2>6, <2>7, <2>8, <2>9 DEF Known, Waiting
<1>3. CASE UNCHANGED <<queues, mHistory>>
  <2>1. UNCHANGED <<mRTPSeqNo, drains, mHistory>>
    BY <1>3 DEF queues
  <2>2. ASSUME \A d \in air' : d.p \in Known, \A h \in held' : h.p \in Known
        PROVE  Known' \subseteq Known
    <3>1. Waiting' = Waiting /\ Entries(mHistory)' = Entries(mHistory)
      BY <2>1 DEF Waiting
    <3> QED BY <2>2, <3>1 DEF Known
  <2>3. \A d \in air : d.p \in Known
    BY DEF Known
  <2>4. \A h \in held : h.p \in Known
    BY DEF Known
  <2>5. ASSUME NEW n, NackArrives(n) PROVE Known' \subseteq Known
    <3>1. held' = held
      BY <2>5 DEF NackArrives
    <3>2. air' = air \/ OnNack(n % WireMod, {})
      BY <2>5 DEF NackArrives, senderVars
    <3>3. Resent(n % WireMod, {}) \subseteq Entries(mHistory)
      BY DEF Resent, Entries
    <3>4. ASSUME NEW d \in air' PROVE d.p \in Known
      <4>1. d \in air \/ d \in {[p |-> p, again |-> TRUE] : p \in Resent(n % WireMod, {})}
        BY <3>2, <3>4 DEF OnNack, Give
      <4>2. CASE d \in {[p |-> p, again |-> TRUE] : p \in Resent(n % WireMod, {})}
        <5>1. d.p \in Entries(mHistory)
          BY <3>3, <4>2
        <5> QED BY <5>1 DEF Known
      <4> QED BY <2>3, <4>1, <4>2
    <3> QED BY <2>2, <2>4, <3>1, <3>4
  <2>6. ASSUME NEW d, Lose(d) PROVE Known' \subseteq Known
    BY <2>2, <2>3, <2>4, <2>6 DEF Lose, sinkVars, rendererVars
  <2>7. ASSUME NEW d \in air, Arrive(d) PROVE Known' \subseteq Known
    <3>1. air' = air \ {d}
      BY <2>7 DEF Arrive
    <3>2. ASSUME NEW h \in held' PROVE h.p \in Known
      <4>1. h \in held \/ h.p = d.p
        BY <2>7, <3>2 DEF Arrive, Insert
      <4> QED BY <2>3, <2>4, <4>1
    <3> QED BY <2>2, <2>3, <3>1, <3>2
  <2>8. CASE PlayOldest
    BY <2>1, <2>2, <2>3, <2>4, <2>8 DEF PlayOldest, Fresh, senderVars
  <2>9. CASE Miss
    BY <2>1, <2>2, <2>3, <2>4, <2>9 DEF Miss, Fresh, senderVars
  <2>10. CASE UNCHANGED <<air, held>>
    BY <2>1, <2>2, <2>3, <2>4, <2>10
  <2>11. \/ \E n : NackArrives(n)
         \/ \E d : Lose(d)
         \/ \E d \in air : Arrive(d)
         \/ PlayOldest \/ Miss \/ UNCHANGED <<air, held>>
         \/ OnDrainQueue
    BY DEF Next, vars, SourceStep, NetworkStep, RendererStep, Losses, OpenSockets, Start,
           AddNextTrack, DrainAccessUnit, Fragment, DrainQueue, Report, SocketFails,
           LoseNack, WaitIsOver, ScheduleSR, OnSendSR, TryPorts, RTPError, RTCPError, senderVars,
           sinkVars, rendererVars
  <2> QED BY <1>2, <2>1, <2>5, <2>6, <2>7, <2>8, <2>9, <2>10, <2>11
<1> QED BY <1>2, <1>3, QueuesFrame


(* And those are the ones packetize wrote.                                 *)
LEMMA HandedOver ==
  ASSUME drains \in Seq(Seq(RTPType)), NEW r \in Seq(RTPType), drains' = Append(drains, r),
         UNCHANGED <<mHistory, air, held>>
  PROVE  Known' \subseteq Known \cup Entries(r)
<1>1. PICK l \in Nat : l = Len(drains)
  OBVIOUS
<1>2. /\ Len(drains') = l + 1 /\ drains'[l+1] = r
      /\ \A i \in 1..l : drains'[i] = drains[i]
  BY <1>1
<1>3. ASSUME NEW i \in 1..l+1 PROVE Entries(drains'[i]) \subseteq Waiting \cup Entries(r)
  <2>1. CASE i = l + 1
    BY <1>2, <2>1
  <2>2. CASE i \in 1..l
    BY <1>1, <1>2, <2>2 DEF Waiting
  <2> QED BY <1>1, <2>1, <2>2
<1>4. Waiting' \subseteq Waiting \cup Entries(r)
  BY <1>2, <1>3 DEF Waiting
<1>5. Entries(mHistory)' = Entries(mHistory)
  OBVIOUS
<1> QED BY <1>4, <1>5 DEF Known
(* A packet's number never comes again.                                    *)
LEMMA KnownStay ==
  ASSUME Base, [Next]_vars
  PROVE  KnownHold'
<1>1. QueuesHold /\ PacketizerInv /\ \A p \in Known : p \in RTPType /\ p.n < mRTPSeqNo
  BY DEF Base, KnownHold
<1>2. CASE ~HandOver
  BY <1>1, <1>2, NothingNew DEF KnownHold
<1>3. CASE HandOver
  <2> DEFINE r == Numbered(job.packets, mRTPSeqNo)
  <2>1. /\ mRTPSeqNo' = mRTPSeqNo + Len(r) /\ drains' = Append(drains, r)
        /\ r \in Seq(RTPType) /\ Len(r) > 0 /\ EndsAt(r, mRTPSeqNo + Len(r))
        /\ mHistory' = mHistory /\ air' = air /\ held' = held
    BY <1>1, <1>3, HandOverGives
  <2> HIDE DEF r
  <2>2. PICK k \in Nat, n \in Nat : k = Len(r) /\ n = mRTPSeqNo
    BY <1>1, <2>1 DEF QueuesHold
  <2>3. ASSUME NEW p \in Entries(r) PROVE p \in RTPType /\ p.n < mRTPSeqNo'
    <3>1. PICK j \in 1..k : p = r[j]
      BY <2>2, <2>3 DEF Entries
    <3>2. p \in RTPType
      BY <2>1, <2>2, <3>1
    <3>3. p.n = n + k - k + j - 1
      BY <2>1, <2>2, <3>1 DEF EndsAt
    <3> QED BY <2>1, <2>2, <3>2, <3>3
  <2>4. ASSUME NEW p \in Known PROVE p \in RTPType /\ p.n < mRTPSeqNo'
    <3>1. p \in RTPType /\ p.n < n /\ p.n \in Nat
      BY <1>1, <2>2 DEF RTPType
    <3> QED BY <2>1, <2>2, <3>1
  <2>5. Known' \subseteq Known \cup Entries(r)
    <3>1. drains \in Seq(Seq(RTPType))
      BY <1>1 DEF QueuesHold
    <3> QED BY <2>1, <3>1, HandedOver
  <2> QED BY <2>3, <2>4, <2>5 DEF KnownHold
<1> QED BY <1>2, <1>3

-----------------------------------------------------------------------------
(* The sink                                                                *)

(* updateSeq, whatever the number of the packet.                           *)
LEMMA UpdateSeqGives ==
  ASSUME NEW src, Valid(src), NEW seq \in Seqs
  PROVE  LET upd == UpdateSeq(src, seq)
         IN  /\ Valid(upd.src) /\ upd.ext \in Nat \cup {NotQueued}
             /\ src.mProbation > 0 => upd.ext = seq
<1>1. /\ SeqMod \in Nat /\ SeqMod >= 2 /\ MinSequential \in Nat /\ MinSequential >= 2
      /\ seq \in Nat
  BY SeqModAssumption, MinSequentialAssumption DEF Seqs
<1>2. /\ src \in SourceType /\ src.mCycles \in Nat /\ src.mReceived \in Nat
      /\ src.mProbation \in 0..MinSequential /\ src.mMaxSeq \in Nat
  BY DEF Valid, SourceType, Seqs
<1>3. PICK c \in Nat : src.mCycles = SeqMod * c
  BY DEF Valid
<1>4. CASE src.mProbation > 0
  <2>1. src.mCycles = 0 /\ UpdateSeq(src, seq) = ProbationSeq(src, seq)
    BY <1>4 DEF Valid, UpdateSeq
  <2>2. SeqMod * 0 = 0
    BY <1>1
  <2>3. CASE seq # src.mMaxSeq + 1
    <3> DEFINE new == [src EXCEPT !.mProbation = MinSequential - 1, !.mMaxSeq = seq]
    <3>1. ProbationSeq(src, seq) = [src |-> new, ext |-> 0 + seq]
      BY <2>1, <2>3 DEF ProbationSeq, Queued, SourceType, Valid
    <3>2. new \in SourceType /\ new.mCycles = 0
      <4>1. MinSequential - 1 \in 0..MinSequential
        BY <1>1
      <4> QED BY <1>2, <2>1, <4>1 DEF SourceType
    <3> HIDE DEF new
    <3>3. Valid(new)
      BY <2>2, <3>2 DEF Valid
    <3> QED BY <1>1, <2>1, <3>1, <3>3
  <2>4. CASE seq = src.mMaxSeq + 1
    <3> DEFINE next == [src EXCEPT !.mProbation = @ - 1, !.mMaxSeq = seq]
               new  == IF next.mProbation = 0 THEN [InitSeq(next, seq) EXCEPT !.mReceived = 1]
                                              ELSE next
    <3>1. ProbationSeq(src, seq) = [src |-> new, ext |-> 0 + seq]
      BY <2>1, <2>4 DEF ProbationSeq
    <3>2. next \in SourceType /\ next.mCycles = 0
      <4>1. src.mProbation - 1 \in 0..MinSequential
        BY <1>1, <1>2, <1>4
      <4> QED BY <1>2, <2>1, <4>1 DEF SourceType
    <3>3. new \in SourceType /\ new.mCycles = 0
      <4>1. CASE next.mProbation = 0
        <5> DEFINE ended == [mMaxSeq |-> seq, mCycles |-> 0, mBaseSeq |-> seq,
                             mBadSeq |-> NoBadSeq, mProbation |-> 0, mReceived |-> 1]
        <5>1. new = ended
          BY <4>1 DEF InitSeq
        <5>2. ended \in SourceType /\ ended.mCycles = 0
          BY <1>1 DEF SourceType
        <5> HIDE DEF next, new, ended
        <5> QED BY <5>1, <5>2
      <4>2. CASE next.mProbation # 0
        <5>1. new = next
          BY <4>2
        <5> QED BY <3>2, <5>1
      <4> QED BY <4>1, <4>2
    <3> HIDE DEF new
    <3>4. Valid(new)
      BY <2>2, <3>3 DEF Valid
    <3> QED BY <1>1, <2>1, <3>1, <3>4
  <2> QED BY <2>3, <2>4
<1>5. CASE src.mProbation = 0
  <2>1. ASSUME NEW s \in SourceType, NEW d \in Nat, s.mCycles = SeqMod * d, s.mProbation = 0
        PROVE  Valid(Receive(s, seq).src) /\ Receive(s, seq).ext \in Nat
    <3> DEFINE new == [s EXCEPT !.mReceived = @ + 1]
    <3>1. s.mCycles \in Nat /\ s.mReceived \in Nat
      BY DEF SourceType
    <3>2. new \in SourceType /\ new.mCycles = s.mCycles /\ new.mProbation = 0
      BY <2>1, <3>1 DEF SourceType
    <3>3. Receive(s, seq) = [src |-> new, ext |-> s.mCycles + seq]
      BY <3>2 DEF Receive, Queued
    <3> HIDE DEF new
    <3>4. Valid(new)
      BY <2>1, <3>2 DEF Valid
    <3> QED BY <1>1, <3>1, <3>3, <3>4
  <2>2. Valid(Receive(src, seq).src) /\ Receive(src, seq).ext \in Nat
    BY <1>2, <1>3, <1>5, <2>1
  <2>3. Valid(Receive(Advance(src, seq), seq).src) /\ Receive(Advance(src, seq), seq).ext \in Nat
    <3> DEFINE cycles == IF seq < src.mMaxSeq THEN src.mCycles + SeqMod ELSE src.mCycles
               adv    == [src EXCEPT !.mMaxSeq = seq, !.mCycles = cycles]
    <3>1. cycles \in Nat /\ \E d \in Nat : cycles = SeqMod * d
      <4>1. SeqMod * (c + 1) = SeqMod * c + SeqMod /\ c + 1 \in Nat
        BY <1>1
      <4>2. CASE seq < src.mMaxSeq
        BY <1>1, <1>2, <1>3, <4>1, <4>2
      <4>3. CASE ~(seq < src.mMaxSeq)
        BY <1>2, <1>3, <4>3
      <4> QED BY <4>2, <4>3
    <3>2. Advance(src, seq) = adv
      BY DEF Advance
    <3> HIDE DEF cycles
    <3>3. adv \in SourceType /\ adv.mCycles = cycles /\ adv.mProbation = 0
      BY <1>2, <1>5, <3>1 DEF SourceType
    <3> HIDE DEF adv
    <3> QED BY <2>1, <3>1, <3>2, <3>3
  <2>4. Valid(Jump(src, seq).src) /\ Jump(src, seq).ext \in Nat \cup {NotQueued}
    <3>1. CASE seq = src.mBadSeq
      <4> DEFINE new == InitSeq(src, seq)
      <4>1. new \in SourceType /\ new.mCycles = SeqMod * 0 /\ new.mProbation = 0
        BY <1>1, <1>2, <1>5 DEF InitSeq, SourceType
      <4>2. Jump(src, seq) = Receive(new, seq)
        BY <3>1 DEF Jump
      <4> HIDE DEF new
      <4> QED BY <2>1, <4>1, <4>2
    <3>2. CASE seq # src.mBadSeq
      <4> DEFINE new == [src EXCEPT !.mBadSeq = (seq + 1) % SeqMod]
      <4>1. (seq + 1) % SeqMod \in Seqs
        BY <1>1 DEF Seqs
      <4>2. new \in SourceType /\ new.mCycles = src.mCycles /\ new.mProbation = 0
        BY <1>2, <1>5, <4>1 DEF SourceType
      <4>3. Jump(src, seq) = [src |-> new, ext |-> NotQueued]
        BY <3>2 DEF Jump
      <4> HIDE DEF new
      <4>4. Valid(new)
        BY <1>3, <4>2 DEF Valid
      <4> QED BY <4>3, <4>4
    <3> QED BY <3>1, <3>2
  <2>5. UpdateSeq(src, seq) \in {Receive(src, seq), Receive(Advance(src, seq), seq), Jump(src, seq)}
    BY <1>5 DEF UpdateSeq
  <2> QED BY <1>5, <2>2, <2>3, <2>4, <2>5
<1> QED BY <1>2, <1>4, <1>5

(* The first packet of the stream that comes.                              *)
LEMMA NewSourceGives ==
  ASSUME NEW seq \in Seqs
  PROVE  Valid(NewSource(seq).src) /\ NewSource(seq).ext = seq
<1>1. /\ SeqMod \in Nat /\ SeqMod >= 2 /\ MinSequential \in Nat /\ seq \in Nat
  BY SeqModAssumption, MinSequentialAssumption DEF Seqs
<1>2. (seq - 1) % SeqMod \in Seqs
  BY <1>1 DEF Seqs
<1> DEFINE src == [mMaxSeq |-> (seq - 1) % SeqMod, mCycles |-> 0, mBaseSeq |-> seq,
                   mBadSeq |-> NoBadSeq, mProbation |-> MinSequential, mReceived |-> 0]
<1>3. NewSource(seq) = [src |-> src, ext |-> 0 + seq]
  BY DEF NewSource, InitSeq, Queued
<1>4. src \in SourceType /\ src.mCycles = 0 /\ SeqMod * 0 = 0
  BY <1>1, <1>2 DEF SourceType
<1> HIDE DEF src
<1>5. Valid(src)
  BY <1>4 DEF Valid
<1> QED BY <1>1, <1>3, <1>5

(* There is an oldest packet among those held.                             *)
LEMMA OldestGives ==
  ASSUME NEW S, S # {}, \A h \in S : h.ext \in Nat
  PROVE  Oldest(S) \in S /\ \A g \in S : Oldest(S).ext <= g.ext
<1> DEFINE less == {m \in Nat \X Nat : m[1] < m[2]}
           T == {h.ext : h \in S}
<1>1. IsWellFoundedOn(less, Nat)
  BY NatLessThanWellFounded, Zenon DEF OpToRel
<1>2. T \in SUBSET Nat /\ T # {}
  OBVIOUS
<1>3. PICK n \in T : \A m \in T : ~(<<m, n>> \in less)
  <2> HIDE DEF less, T
  <2> QED BY <1>1, <1>2, WFMin
<1>4. PICK h \in S : n = h.ext
  OBVIOUS
<1>5. ASSUME NEW g \in S PROVE h.ext <= g.ext
  <2>1. g.ext \in T /\ g.ext \in Nat /\ h.ext \in Nat
    OBVIOUS
  <2>2. ~(<<g.ext, n>> \in less)
    BY <1>3, <2>1
  <2>3. ~(g.ext < h.ext)
    BY <1>4, <2>1, <2>2
  <2> QED BY <2>1, <2>3
<1> QED BY <1>5 DEF Oldest

(* A datagram that arrives has a sequence number to look at.               *)
LEMMA ArriveGives ==
  ASSUME Base, NEW d \in air, Arrive(d)
  PROVE  LET seq == d.p.n % SeqMod
             upd == IF mSource = NoSource THEN NewSource(seq) ELSE UpdateSeq(mSource, seq)
         IN  /\ d.p \in RTPType /\ d.p.n \in Nat /\ d.p.n < mRTPSeqNo /\ seq \in Seqs
             /\ mSource' = upd.src /\ Valid(upd.src) /\ upd.ext \in Nat \cup {NotQueued}
             /\ \/ held' = held
                \/ /\ upd.ext # NotQueued
                   /\ held' = held \cup {[ext |-> upd.ext, p |-> d.p]}
             /\ last' = last /\ decoded' = decoded
             /\ newest' \in {newest, d.p.n}
<1> DEFINE seq == d.p.n % SeqMod
           upd == IF mSource = NoSource THEN NewSource(seq) ELSE UpdateSeq(mSource, seq)
<1>1. d.p \in Known
  BY DEF Known
<1>2. d.p \in RTPType /\ d.p.n \in Nat /\ d.p.n < mRTPSeqNo
  BY <1>1 DEF Base, KnownHold, RTPType
<1>3. seq \in Seqs
  BY <1>2, SeqModAssumption DEF Seqs
<1>4. /\ mSource' = upd.src /\ last' = last /\ decoded' = decoded
      /\ newest' \in {newest, d.p.n}
      /\ \/ held' = held
         \/ /\ upd.ext # NotQueued
            /\ held' = held \cup {[ext |-> upd.ext, p |-> d.p]}
  BY SeqModIsWireMod DEF Arrive, Taken, Insert
<1> HIDE DEF seq
<1>5. Valid(upd.src) /\ upd.ext \in Nat \cup {NotQueued}
  <2>1. CASE mSource = NoSource
    BY <1>3, <2>1, NewSourceGives DEF Seqs
  <2>2. CASE mSource # NoSource
    <3>1. Valid(mSource)
      BY <2>2 DEF Base, SinkHolds
    <3> QED BY <1>3, <2>2, <3>1, UpdateSeqGives
  <2> QED BY <2>1, <2>2
<1> HIDE DEF upd
<1> QED BY <1>2, <1>3, <1>4, <1>5 DEF seq, upd

(* What is played is the oldest of what was not overtaken.                 *)
LEMMA PlayGives ==
  ASSUME Base, PlayOldest
  PROVE  LET h == Oldest(Fresh)
         IN  /\ h \in held /\ h \in [ext : Nat, p : RTPType]
             /\ last' = h.ext /\ last \in Int /\ h.ext > last
             /\ held' \subseteq held /\ mSource' = mSource
             /\ decoded' = Decode(h) /\ UNCHANGED <<tsVars, senderVars>>
<1>1. /\ \A h \in held : h \in [ext : Nat, p : RTPType]
      /\ last \in Int
  BY DEF Base, SinkHolds
<1>2. Fresh # {} /\ Fresh \subseteq held /\ \A h \in Fresh : h.ext > last
  BY DEF PlayOldest, Fresh
<1>3. \A h \in Fresh : h.ext \in Nat
  BY <1>1, <1>2
<1>4. Oldest(Fresh) \in Fresh
  BY <1>2, <1>3, OldestGives
<1> QED BY <1>1, <1>2, <1>4 DEF PlayOldest

LEMMA SinkStays ==
  ASSUME Base, [Next]_vars
  PROVE  SinkHolds'
<1>1. SinkHolds
  BY DEF Base
<1>2. ASSUME NEW d \in air, Arrive(d) PROVE SinkHolds'
  <2>1. PICK upd :
          /\ d.p \in RTPType /\ d.p.n \in Nat
          /\ mSource' = upd.src /\ Valid(upd.src) /\ upd.ext \in Nat \cup {NotQueued}
          /\ \/ held' = held
             \/ /\ upd.ext # NotQueued
                /\ held' = held \cup {[ext |-> upd.ext, p |-> d.p]}
          /\ last' = last /\ newest' \in {newest, d.p.n}
    BY <1>2, ArriveGives
  <2>2. \A h \in held' : h \in [ext : Nat, p : RTPType]
    <3>1. CASE held' = held
      BY <1>1, <3>1 DEF SinkHolds
    <3>2. CASE upd.ext # NotQueued /\ held' = held \cup {[ext |-> upd.ext, p |-> d.p]}
      <4>1. [ext |-> upd.ext, p |-> d.p] \in [ext : Nat, p : RTPType]
        BY <2>1, <3>2
      <4> QED BY <1>1, <3>2, <4>1 DEF SinkHolds
    <3> QED BY <2>1, <3>1, <3>2
  <2>3. newest' \in Int /\ newest' >= -1
    BY <1>1, <2>1 DEF SinkHolds
  <2> QED BY <1>1, <2>1, <2>2, <2>3 DEF SinkHolds
<1>3. CASE PlayOldest
  <2>1. PICK h \in [ext : Nat, p : RTPType] :
          last' = h.ext /\ held' \subseteq held /\ mSource' = mSource
    BY <1>3, PlayGives
  <2>2. last' \in Nat
    BY <2>1
  <2>3. newest' = newest
    BY <1>3 DEF PlayOldest, fate
  <2> QED BY <1>1, <2>1, <2>2, <2>3 DEF SinkHolds
<1>4. CASE Miss
  BY <1>1, <1>4 DEF Miss, Fresh, SinkHolds, fate
<1>5. CASE UNCHANGED <<mSource, newest, inWindows>> /\ UNCHANGED <<mSource, held, last, decoded>>
  BY <1>1, <1>5 DEF SinkHolds
<1> QED BY <1>2, <1>3, <1>4, <1>5, SinkFrame, WindowsFrame

LEMMA WaitStays ==
  ASSUME Base, [Next]_vars
  PROVE  WaitHolds'
<1>1. WaitHolds /\ MaxFaults \in Nat
  BY StreamAssumption DEF Base
<1>2. ASSUME faults' = faults \/ (faults < MaxFaults /\ faults' = faults + 1),
             mFirstFailedAttempt' \in {mFirstFailedAttempt, "none", "recent", "over"}
      PROVE  WaitHolds'
  <2>1. faults' \in 0..MaxFaults
    BY <1>1, <1>2 DEF WaitHolds
  <2> QED BY <1>1, <1>2, <2>1 DEF WaitHolds
<1>3. faults' = faults \/ (faults < MaxFaults /\ faults' = faults + 1)
  BY DEF Next, vars, SourceStep, NetworkStep, RendererStep, Losses, OpenSockets, Start,
         AddNextTrack, DrainAccessUnit, Fragment, HandOver, DrainQueue, Report, SocketFails,
         Arrive, NackArrives, Lose, LoseNack, PlayOldest, Miss, WaitIsOver, fate
<1>4. mFirstFailedAttempt' \in {mFirstFailedAttempt, "none", "recent", "over"}
  BY DEF Next, vars, SourceStep, NetworkStep, RendererStep, Losses, OpenSockets, Start,
         AddNextTrack, DrainAccessUnit, Fragment, HandOver, DrainQueue, Report, SocketFails,
         Arrive, NackArrives, Lose, LoseNack, PlayOldest, Miss, WaitIsOver, sinkVars, rendererVars
<1> QED BY <1>2, <1>3, <1>4

-----------------------------------------------------------------------------
LEMMA InitBase == Init => Base
<1> SUFFICES ASSUME Init PROVE Base
  OBVIOUS
<1>1. PacketizerInv
  BY InitHolds DEF Init
<1>2. PIDsCounted
  BY InitDistinct DEF Init
<1>3. PlanHolds
  BY StreamAssumption DEF Init, TSInit, PlanHolds
<1>4. SocketsHold /\ ReportsHold
  <2>1. 0 \in 0..MaxPorts /\ 0 < MaxPorts
    BY MaxPortsAssumption
  <2>2. /\ tried = 0 /\ mRTPPort = 0 /\ mRTPSessionID = FALSE /\ mRTCPSessionID = FALSE
        /\ sessionsDead = 0 /\ mSendSRPending = FALSE /\ srMessages = 0
    BY DEF Init, SenderInit
  <2>3. sessionsDead \in 0..2 /\ sessionsDead < 2 /\ tried \in 0..MaxPorts /\ tried < MaxPorts
    BY <2>1, <2>2
  <2>4. mRTPSessionID \in BOOLEAN /\ mRTCPSessionID \in BOOLEAN /\ mRTPPort \in {0, tried}
    BY <2>2
  <2>5. ~mRTPSessionID /\ ~mRTCPSessionID
    BY <2>2, Zenon
  <2>6. SocketsHold
    BY <2>2, <2>3, <2>4, <2>5, Zenon DEF SocketsHold
  <2> QED BY <2>2, <2>6 DEF ReportsHold
<1>5. QueuesHold
  BY MaxHistoryLengthAssumption, WireModAssumption
  DEF Init, SenderInit, QueuesHold, InTurn, EndsAt
<1>6. Known = {}
  BY DEF Init, SenderInit, Known, Waiting, Entries
<1>7. KnownHold
  BY <1>6 DEF KnownHold
<1>8. SinkHolds
  BY DEF Init, SinkHolds
<1>9. WaitHolds
  BY StreamAssumption DEF Init, WaitHolds
<1> QED BY <1>1, <1>2, <1>3, <1>4, <1>5, <1>7, <1>8, <1>9 DEF Base

LEMMA BaseStays == Base /\ [Next]_vars => Base'
BY SourceHolds, SocketsStay, ReportsStay, QueuesStay, KnownStay, SinkStays, WaitStays DEF Base

LEMMA BaseAlways == Init /\ [][Next]_vars => []Base
BY InitBase, BaseStays, PTL

(* Every CHECK of packetize holds, for the access units of any plan.       *)
THEOREM StreamChecksHold == Spec => []ChecksHold
<1>1. Base => ChecksHold
  BY DEF Base, PacketizerInv, ChecksHold
<1> QED BY <1>1, BaseAlways, PTL DEF Spec

LEMMA StreamEnds == QueuesHold => After(drains, mRTPSeqNo, 0) \in Int
<1> SUFFICES ASSUME QueuesHold PROVE After(drains, mRTPSeqNo, 0) \in Int
  OBVIOUS
<1>1. CASE drains = << >>
  BY <1>1 DEF After, QueuesHold
<1>2. CASE drains # << >>
  <2>1. /\ After(drains, mRTPSeqNo, 0) = After(drains, mRTPSeqNo, 1) - Len(Head(drains))
        /\ After(drains, mRTPSeqNo, 1) \in Nat /\ Head(drains) \in Seq(RTPType)
    BY <1>2, TailInTurn DEF QueuesHold
  <2> QED BY <2>1
<1> QED BY <1>1, <1>2

(* The Sender answers every NACK with all of what it asks for that is      *)
(* still in the history, and with nothing else.                            *)
THEOREM SenderResendsWhatWasAsked == Spec => []ResendsWhatWasAsked
<1>1. Base => ResendsWhatWasAsked
  <2> SUFFICES ASSUME Base PROVE ResendsWhatWasAsked
    OBVIOUS
  <2>1. QueuesHold
    BY DEF Base
  <2>2. After(drains, mRTPSeqNo, 0) \in Int
    BY <2>1, StreamEnds
  <2> QED BY <2>1, <2>2, ResentIsWhatWasAsked DEF QueuesHold
<1> QED BY <1>1, BaseAlways, PTL DEF Spec

-----------------------------------------------------------------------------
(* What the player gets, as long as all packets come in the windows        *)

NumbersHold ==
  /\ \A h \in held : h.ext > last => h.ext = h.p.n
  /\ last < mRTPSeqNo

LEMMA NumberedInit == Init => NumbersHold
BY DEF Init, SenderInit, NumbersHold

LEMMA NumberedStays ==
  ASSUME Base, NumbersHold, [Next]_vars, WellNumbered, inWindows'
  PROVE  NumbersHold'
<1>1. /\ \A h \in held : h.ext > last => h.ext = h.p.n
      /\ last \in Int /\ mRTPSeqNo \in Nat /\ last < mRTPSeqNo
  BY DEF Base, SinkHolds, QueuesHold, NumbersHold
<1>2. mRTPSeqNo' \in Nat /\ mRTPSeqNo' >= mRTPSeqNo
  <2>1. CASE HandOver
    <3>1. PICK r \in Seq(RTPType) : mRTPSeqNo' = mRTPSeqNo + Len(r)
      BY <2>1, HandOverGives DEF Base
    <3> QED BY <1>1, <3>1
  <2>2. CASE ~HandOver
    BY <1>1, <2>2, NothingNew
  <2> QED BY <2>1, <2>2
<1>3. ASSUME NEW d \in air, Arrive(d) PROVE NumbersHold'
  <2>3. Taken(d.p.n).ext = d.p.n
    BY <1>3 DEF WellNumbered
  <2>4. /\ held' = held \/ held' = held \cup {[ext |-> Taken(d.p.n).ext, p |-> d.p]}
        /\ last' = last
    BY <1>3, ArriveGives, SeqModIsWireMod DEF Taken
  <2>5. \A h \in held' : h.ext > last => h.ext = h.p.n
    BY <1>1, <2>3, <2>4
  <2>6. last' < mRTPSeqNo'
    BY <1>1, <1>2, <2>4
  <2> QED BY <2>4, <2>5, <2>6 DEF NumbersHold
<1>4. CASE PlayOldest
  <2>1. PICK h \in held : last' = h.ext /\ h.ext > last /\ held' \subseteq held
    BY <1>4, PlayGives
  <2>2. h.p \in Known
    BY DEF Known
  <2>3. h.p.n \in Nat /\ h.p.n < mRTPSeqNo
    BY <2>2 DEF Base, KnownHold, RTPType
  <2>4. last' = h.p.n
    BY <1>1, <2>1
  <2>5. last' < mRTPSeqNo'
    BY <1>1, <1>2, <2>3, <2>4
  <2>6. \A g \in held' : g.ext > last' => g.ext = g.p.n
    <3>1. \A g \in held' : g \in held /\ g.ext \in Nat
      BY <2>1 DEF Base, SinkHolds
    <3>2. last \in Int /\ last' \in Int /\ last' > last
      BY <1>1, <2>1, <2>3, <2>4
    <3> QED BY <1>1, <3>1, <3>2
  <2> QED BY <2>5, <2>6 DEF NumbersHold
<1>5. ASSUME last' = last, held' \subseteq held PROVE NumbersHold'
  <2>1. last' < mRTPSeqNo'
    BY <1>1, <1>2, <1>5
  <2> QED BY <1>1, <1>5, <2>1 DEF NumbersHold
<1>6. CASE Miss
  BY <1>5, <1>6 DEF Miss, Fresh
<1>7. CASE UNCHANGED <<mSource, held, last, decoded>>
  BY <1>5, <1>7
<1> QED BY <1>3, <1>4, <1>6, <1>7, SinkFrame

(* The types, the numbers and the history's order.                         *)
LEMMA TypesHold ==
  ASSUME Base
  PROVE  TypeOK
<1>1. PICK end \in Int : EndsAt(mHistory, end)
  <2>1. After(drains, mRTPSeqNo, 0) \in Int /\ EndsAt(mHistory, After(drains, mRTPSeqNo, 0))
    BY StreamEnds DEF Base, QueuesHold
  <2> QED BY <2>1
<1>2. PICK k \in Nat : k = Len(mHistory)
  BY DEF Base, QueuesHold
<1>3. ASSUME NEW i \in 1..k, NEW j \in 1..k, i < j PROVE mHistory[i].n < mHistory[j].n
  <2>1. mHistory[i].n = end - k + i - 1 /\ mHistory[j].n = end - k + j - 1
    BY <1>1, <1>2 DEF EndsAt
  <2> QED BY <1>3, <2>1
<1>4. SenderTypeOK
  <2>1. /\ mRTPSessionID \in BOOLEAN /\ mRTCPSessionID \in BOOLEAN
        /\ tried \in 0..MaxPorts /\ mRTPPort \in {0, tried} /\ sessionsDead \in 0..2
    BY DEF Base, SocketsHold
  <2>2. srMessages = IF mSendSRPending THEN 1 ELSE 0
    BY DEF Base, ReportsHold
  <2>3. mRTPSeqNo \in Nat /\ Len(mHistory) <= MaxHistoryLength
    BY DEF Base, QueuesHold
  <2>4. \A i, j \in 1..Len(mHistory) : i < j => mHistory[i].n < mHistory[j].n
    BY <1>2, <1>3
  <2> QED BY <2>1, <2>2, <2>3, <2>4 DEF SenderTypeOK
<1>5. /\ \A t \in 1..Len(mTracks) : mTracks[t].cc \in Counters
      /\ mPATContinuityCounter \in Counters /\ mPMTContinuityCounter \in Counters
  <2>1. /\ mTracks \in Seq(TrackType)
        /\ mPATContinuityCounter \in Counters /\ mPMTContinuityCounter \in Counters
    BY DEF Base, PacketizerInv, TracksTyped
  <2>2. \A t \in 1..Len(mTracks) : mTracks[t] \in TrackType
    BY <2>1
  <2>3. \A t \in 1..Len(mTracks) : mTracks[t].cc \in Counters
    BY <2>2 DEF TrackType
  <2> QED BY <2>1, <2>3
<1>6. mSource = NoSource \/ mSource \in SourceType
  BY DEF Base, SinkHolds, Valid
<1>7. last \in {-1} \cup Nat /\ newest \in {-1} \cup Nat
  BY DEF Base, SinkHolds
<1>8. mFirstFailedAttempt \in {"none", "recent", "over"} /\ faults \in 0..MaxFaults
  BY DEF Base, WaitHolds
<1> QED BY <1>4, <1>5, <1>6, <1>7, <1>8 DEF TypeOK

(* One piece after the other.                                              *)
LEMMA ConcatPieces ==
  ASSUME NEW s \in Seq(TSType), NEW t \in Seq(TSType), NEW u \in Seq(TSType), NEW from \in Nat,
         Piece(s, t, from), Piece(s, u, from + Len(t))
  PROVE  Piece(s, t \o u, from) /\ t \o u \in Seq(TSType) /\ Len(t \o u) = Len(t) + Len(u)
<1>1. PICK l \in Nat, m \in Nat, k \in Nat : l = Len(s) /\ m = Len(t) /\ k = Len(u)
  OBVIOUS
<1>2. /\ t \o u \in Seq(TSType) /\ Len(t \o u) = m + k
      /\ \A i \in 1..m+k : (t \o u)[i] = IF i <= m THEN t[i] ELSE u[i - m]
  BY <1>1
<1>3. from + m + k <= l
  BY <1>1 DEF Piece
<1>4. ASSUME NEW i \in 1..m+k PROVE (t \o u)[i] = s[from + i]
  <2>1. CASE i <= m
    <3>1. i \in 1..m
      BY <1>1, <2>1
    <3>2. t[i] = s[from + i]
      BY <1>1, <3>1 DEF Piece
    <3> QED BY <1>2, <2>1, <3>2
  <2>2. CASE ~(i <= m)
    <3>1. i - m \in 1..k
      BY <1>1, <2>2
    <3>2. u[i - m] = s[from + m + (i - m)]
      BY <1>1, <3>1 DEF Piece
    <3>3. from + m + (i - m) = from + i
      BY <1>1
    <3> QED BY <1>2, <2>2, <3>2, <3>3
  <2> QED BY <2>1, <2>2
<1> QED BY <1>1, <1>2, <1>3, <1>4 DEF Piece

(* A piece of a piece.                                                     *)
LEMMA PieceWithin ==
  ASSUME NEW s \in Seq(TSType), NEW t \in Seq(TSType), NEW from \in Nat, Piece(s, t, from),
         NEW u \in Seq(TSType), NEW x \in Nat, Piece(t, u, x)
  PROVE  Piece(s, u, from + x)
<1>1. PICK l \in Nat, m \in Nat, k \in Nat : l = Len(s) /\ m = Len(t) /\ k = Len(u)
  OBVIOUS
<1>2. from + m <= l /\ x + k <= m
  BY <1>1 DEF Piece
<1>3. ASSUME NEW i \in 1..k PROVE u[i] = s[from + x + i]
  <2>1. x + i \in 1..m
    BY <1>2
  <2>2. u[i] = t[x + i] /\ t[x + i] = s[from + (x + i)]
    BY <1>1, <2>1 DEF Piece
  <2> QED BY <2>2
<1> QED BY <1>1, <1>2, <1>3 DEF Piece

-----------------------------------------------------------------------------
(* The stream written, and where in it each RTP packet begins              *)

(* What packetize has written and not handed over.                         *)
Pending == IF job = NoJob THEN << >> ELSE job.packets

SentPieces(s, cut) ==
  /\ cut \in [Nat -> Nat]
  /\ Piece(s, Pending, cut[mRTPSeqNo]) /\ cut[mRTPSeqNo] + Len(Pending) = Len(s)
  /\ \A p \in Known : Piece(s, p.ts, cut[p.n]) /\ cut[p.n + 1] = cut[p.n] + Len(p.ts)

(* What was played since the last gap ends where the next packet begins.   *)
PlayedPiece(s, cut) ==
  /\ decoded \in Seq(TSType)
  /\ last < 0 => decoded = << >>
  /\ \E start \in Nat : /\ Piece(s, decoded, start)
                        /\ last >= 0 => start + Len(decoded) = cut[last + 1]

Stream(s) == Written(s, mPATContinuityCounter, mPMTContinuityCounter, mTracks)

Streamed == \E s, cut : Stream(s) /\ SentPieces(s, cut) /\ PlayedPiece(s, cut)

LEMMA PendingTyped ==
  ASSUME PacketizerInv
  PROVE  Pending \in Seq(TSType)
<1>1. CASE job = NoJob
  BY <1>1 DEF Pending
<1>2. CASE job # NoJob
  <2>1. job.packets \in Seq(TSType)
    BY <1>2 DEF PacketizerInv, JobOnCourse, JobType, TSType
  <2> QED BY <1>2, <2>1 DEF Pending
<1> QED BY <1>1, <1>2

LEMMA StreamedInit == Init => Streamed
<1> SUFFICES ASSUME Init PROVE Streamed
  OBVIOUS
<1> DEFINE s == << >>
           cut == [n \in Nat |-> 0]
<1>1. /\ mTracks = << >> /\ Len(mTracks) = 0 /\ job = NoJob /\ decoded = << >> /\ last = -1
      /\ mRTPSeqNo = 0
  BY DEF Init, TSInit, SenderInit
<1>2. Known = {}
  BY DEF Init, SenderInit, Known, Waiting, Entries
<1>3. s \in Seq(TSType) /\ Len(s) = 0
  OBVIOUS
<1>4. Stream(s)
  BY <1>1, <1>3 DEF Stream, Written, Counted, NextIs
<1>5. Piece(s, << >>, 0)
  BY <1>3 DEF Piece
<1>6. cut \in [Nat -> Nat] /\ cut[mRTPSeqNo] = 0 /\ Pending = << >>
  BY <1>1 DEF Pending
<1> HIDE DEF cut
<1>7. SentPieces(s, cut)
  BY <1>2, <1>3, <1>5, <1>6 DEF SentPieces
<1>8. PlayedPiece(s, cut)
  BY <1>1, <1>3, <1>5 DEF PlayedPiece
<1> QED BY <1>4, <1>7, <1>8 DEF Streamed

(* More is written: what was sent and played is where it was.              *)
LEMMA StreamGrows ==
  ASSUME Base, NEW s, NEW cut, Stream(s), SentPieces(s, cut), PlayedPiece(s, cut),
         Known' \subseteq Known, mRTPSeqNo' = mRTPSeqNo, UNCHANGED <<last, decoded>>,
         NEW s2, Stream(s2)', Extends(s2, s),
         Piece(s2, Pending', cut[mRTPSeqNo]), cut[mRTPSeqNo] + Len(Pending') = Len(s2)
  PROVE  Streamed'
<1>1. s \in Seq(TSType) /\ s2 \in Seq(TSType)
  BY DEF Stream, Written
<1>2. cut \in [Nat -> Nat]
  BY DEF SentPieces
<1>3. ASSUME NEW p \in Known'
      PROVE  Piece(s2, p.ts, cut[p.n]) /\ cut[p.n + 1] = cut[p.n] + Len(p.ts)
  <2>1. p \in Known /\ p \in RTPType
    BY DEF Base, KnownHold
  <2>2. p.ts \in Seq(TSType) /\ p.n \in Nat
    BY <2>1 DEF RTPType
  <2>3. Piece(s, p.ts, cut[p.n]) /\ cut[p.n + 1] = cut[p.n] + Len(p.ts)
    BY <2>1 DEF SentPieces
  <2>4. cut[p.n] \in Nat
    BY <1>2, <2>2
  <2> QED BY <1>1, <2>2, <2>3, <2>4, ExtendsPiece
<1>4. SentPieces(s2, cut)'
  BY <1>2, <1>3 DEF SentPieces
<1>5. PICK start \in Nat : /\ Piece(s, decoded, start)
                           /\ last >= 0 => start + Len(decoded) = cut[last + 1]
  BY DEF PlayedPiece
<1>6. Piece(s2, decoded, start) /\ decoded \in Seq(TSType) /\ (last < 0 => decoded = << >>)
  BY <1>1, <1>5, ExtendsPiece DEF PlayedPiece
<1>7. PlayedPiece(s2, cut)'
  BY <1>5, <1>6 DEF PlayedPiece
<1> QED BY <1>4, <1>7 DEF Streamed

(* Packets handed over begin where the stream was cut before.              *)
LEMMA HandOverStreams ==
  ASSUME Base, NumbersHold, HandOver,
         NEW s, NEW old, Stream(s), SentPieces(s, old), PlayedPiece(s, old)
  PROVE  Streamed'
<1>1. PICK q \in Seq(TSType), n \in Nat : q = job.packets /\ n = mRTPSeqNo
  <2>1. job.packets \in Seq(TSType) /\ mRTPSeqNo \in Nat
    BY HandOverGives DEF Base, QueuesHold
  <2> QED BY <2>1
<1>2. PICK r : r = Numbered(q, n)
  OBVIOUS
<1>3. /\ job # NoJob /\ job' = NoJob
      /\ q \in Seq(TSType) /\ q # << >>
      /\ mRTPSeqNo' = mRTPSeqNo + Len(r) /\ drains' = Append(drains, r)
      /\ r \in Seq(RTPType) /\ Len(r) > 0 /\ EndsAt(r, mRTPSeqNo + Len(r))
      /\ UNCHANGED <<mHistory, air, held, last, decoded, mTracks>>
      /\ UNCHANGED <<mPATContinuityCounter, mPMTContinuityCounter>>
  BY <1>1, <1>2, HandOverGives DEF Base
<1>4. /\ drains \in Seq(Seq(RTPType)) /\ mRTPSeqNo \in Nat
      /\ last \in Int /\ last >= -1 /\ last < mRTPSeqNo
  BY DEF Base, QueuesHold, SinkHolds, NumbersHold
<1>5. PICK k \in Nat : k = Len(r) /\ k > 0 /\ n \in Nat /\ n = mRTPSeqNo
  BY <1>1, <1>3
<1>6. /\ Upto(q, 0) = 0 /\ Upto(q, k) = Len(q)
      /\ \A i \in 1..k :
           /\ Upto(q, i-1) \in Nat /\ Upto(q, i) \in Nat /\ Upto(q, i) <= Len(q)
           /\ Upto(q, i) = Upto(q, i-1) + Len(r[i].ts)
           /\ \A j \in 1..Len(r[i].ts) : r[i].ts[j] = q[Upto(q, i-1) + j]
  <2> DEFINE w == Numbered(q, n)
  <2>1. q # << >>
    BY <1>3
  <2>2. /\ Upto(q, 0) = 0 /\ Upto(q, Len(w)) = Len(q)
        /\ \A i \in 1..Len(w) :
             /\ Upto(q, i-1) \in Nat /\ Upto(q, i) \in Nat /\ Upto(q, i) <= Len(q)
             /\ Upto(q, i) = Upto(q, i-1) + Len(w[i].ts)
             /\ \A j \in 1..Len(w[i].ts) : w[i].ts[j] = q[Upto(q, i-1) + j]
    BY <2>1, NumberedGives
  <2>3. w = r
    BY <1>2
  <2> HIDE DEF w
  <2> QED BY <1>5, <2>2, <2>3
<1>7. Pending = q /\ Pending' = << >>
  BY <1>1, <1>3 DEF Pending
<1>8. Known' \subseteq Known \cup Entries(r)
  BY <1>3, <1>4, HandedOver
<1>9. /\ s \in Seq(TSType) /\ old \in [Nat -> Nat] /\ Piece(s, q, old[n])
      /\ old[n] + Len(q) = Len(s) /\ old[n] \in Nat /\ Len(q) \in Nat
  <2>1. s \in Seq(TSType) /\ q \in Seq(TSType)
    BY <1>3 DEF Stream, Written
  <2>2. old \in [Nat -> Nat] /\ Piece(s, q, old[n]) /\ old[n] + Len(q) = Len(s)
    BY <1>5, <1>7 DEF SentPieces
  <2>3. old[n] \in Nat
    BY <2>2
  <2>4. Len(q) \in Nat
    OBVIOUS
  <2> QED BY <2>1, <2>2, <2>3, <2>4
<1>10. PICK at \in Nat : at = old[n]
  BY <1>9
<1>11. PICK cut : cut = [m \in Nat |-> IF m \in n+1..n+k THEN at + Upto(q, m - n) ELSE old[m]]
  OBVIOUS
<1>12. /\ \A m \in 0..n : cut[m] = old[m]
       /\ \A i \in 1..k : cut[n + i] = at + Upto(q, i)
       /\ \A i \in 0..k : cut[n + i] = at + Upto(q, i)
  <2>1. \A m \in 0..n : m \in Nat /\ m \notin n+1..n+k
    BY <1>5
  <2>2. \A m \in 0..n : cut[m] = old[m]
    BY <1>11, <2>1
  <2>3. ASSUME NEW i \in 1..k PROVE cut[n + i] = at + Upto(q, i)
    <3>1. n + i \in Nat /\ n + i \in n+1..n+k /\ (n + i) - n = i
      BY <1>5
    <3> QED BY <1>11, <3>1
  <2>4. cut[n + 0] = at + Upto(q, 0)
    <3>1. n \in 0..n /\ n + 0 = n
      BY <1>5
    <3>2. cut[n] = old[n]
      BY <2>2, <3>1
    <3> QED BY <1>6, <1>10, <3>1, <3>2
  <2>5. \A i \in 0..k : i \in 1..k \/ i = 0
    BY <1>5
  <2> QED BY <2>2, <2>3, <2>4, <2>5
<1>13. cut \in [Nat -> Nat]
  <2> SUFFICES ASSUME NEW m \in Nat PROVE cut[m] \in Nat
    BY <1>11
  <2>1. CASE m \in n+1..n+k
    <3>1. PICK i \in 1..k : m = n + i
      <4>1. m - n \in 1..k /\ m = n + (m - n)
        BY <1>5, <2>1
      <4> QED BY <4>1
    <3>2. cut[m] = at + Upto(q, i) /\ Upto(q, i) \in Nat
      BY <1>6, <1>12, <3>1
    <3> QED BY <1>10, <3>2
  <2>2. CASE m \notin n+1..n+k
    BY <1>9, <1>11, <2>2
  <2> QED BY <2>1, <2>2
<1>14. ASSUME NEW p \in Known
       PROVE  Piece(s, p.ts, cut[p.n]) /\ cut[p.n + 1] = cut[p.n] + Len(p.ts)
  <2>1. p.n \in Nat /\ p.n < n
    BY <1>5 DEF Base, KnownHold, RTPType
  <2>2. p.n \in 0..n /\ p.n + 1 \in 0..n
    BY <1>5, <2>1
  <2>3. Piece(s, p.ts, old[p.n]) /\ old[p.n + 1] = old[p.n] + Len(p.ts)
    BY DEF SentPieces
  <2> QED BY <1>12, <2>2, <2>3
<1>15. ASSUME NEW p \in Entries(r)
       PROVE  Piece(s, p.ts, cut[p.n]) /\ cut[p.n + 1] = cut[p.n] + Len(p.ts)
  <2>1. PICK i \in 1..k : p = r[i]
    BY <1>5, <1>15 DEF Entries
  <2>2. p \in RTPType /\ p.ts \in Seq(TSType)
    <3>1. p \in RTPType
      BY <1>3, <1>5, <2>1
    <3> QED BY <3>1 DEF RTPType
  <2>3. p.n = n + (i - 1) /\ p.n + 1 = n + i
    <3>1. p.n = n + k - k + i - 1
      BY <1>3, <1>5, <2>1 DEF EndsAt
    <3> QED BY <1>5, <3>1
  <2>4. PICK x \in Nat, y \in Nat : x = Upto(q, i-1) /\ y = Upto(q, i)
    BY <1>6
  <2>5. /\ y <= Len(q) /\ y = x + Len(p.ts)
        /\ \A j \in 1..Len(p.ts) : p.ts[j] = q[x + j]
    BY <1>6, <2>1, <2>4
  <2>6. Piece(q, p.ts, x)
    BY <2>5 DEF Piece
  <2>7. Piece(s, p.ts, at + x)
    BY <1>3, <1>9, <1>10, <2>2, <2>6, PieceWithin
  <2>8. i - 1 \in 0..k
    BY <1>5
  <2>9. cut[p.n] = at + x /\ cut[p.n + 1] = at + y
    BY <1>12, <2>3, <2>4, <2>8
  <2>10. Len(p.ts) \in Nat
    BY <2>2
  <2> QED BY <1>10, <2>5, <2>7, <2>9, <2>10
<1>16. mRTPSeqNo' = n + k /\ cut[n + k] = Len(s)
  <2>1. k \in 0..k
    BY <1>5
  <2>2. cut[n + k] = at + Len(q)
    BY <1>6, <1>12, <2>1
  <2> QED BY <1>3, <1>5, <1>9, <1>10, <2>2
<1>17. SentPieces(s, cut)'
  <2>1. Piece(s, << >>, cut[n + k]) /\ cut[n + k] + Len(<< >>) = Len(s)
    <3>1. Len(s) \in Nat /\ Len(<< >>) = 0
      BY <1>9
    <3> QED BY <1>16, <3>1 DEF Piece
  <2>2. \A p \in Known' : Piece(s, p.ts, cut[p.n]) /\ cut[p.n + 1] = cut[p.n] + Len(p.ts)
    BY <1>8, <1>14, <1>15
  <2> QED BY <1>7, <1>13, <1>16, <2>1, <2>2 DEF SentPieces
<1>18. PlayedPiece(s, cut)'
  <2>1. last + 1 \in 0..n
    BY <1>4, <1>5
  <2>2. cut[last + 1] = old[last + 1]
    BY <1>12, <2>1
  <2> QED BY <1>3, <2>2 DEF PlayedPiece
<1>19. Stream(s)'
  BY <1>3 DEF Stream
<1> QED BY <1>17, <1>18, <1>19 DEF Streamed

(* What is played goes on where it ended, or begins anew.                  *)
LEMMA PlayStreams ==
  ASSUME Base, NumbersHold, PlayOldest,
         NEW s, NEW cut, Stream(s), SentPieces(s, cut), PlayedPiece(s, cut)
  PROVE  Streamed'
<1>1. PICK h : /\ h \in held /\ h \in [ext : Nat, p : RTPType] /\ h = Oldest(Fresh)
               /\ last' = h.ext /\ last \in Int /\ h.ext > last
               /\ held' \subseteq held /\ mSource' = mSource
               /\ decoded' = Decode(h) /\ UNCHANGED <<tsVars, senderVars>>
  BY PlayGives
<1>2. /\ UNCHANGED <<mTracks, mPATContinuityCounter, mPMTContinuityCounter, job>>
      /\ UNCHANGED <<mRTPSeqNo, drains, mHistory, air>>
  BY <1>1 DEF tsVars, senderVars, queues
<1>3. h.ext = h.p.n /\ h.p \in Known /\ h.p \in RTPType
  BY <1>1 DEF NumbersHold, Known
<1>4. PICK n \in Nat, t \in Seq(TSType) : n = h.p.n /\ t = h.p.ts
  BY <1>3 DEF RTPType
<1>5. /\ cut \in [Nat -> Nat] /\ Piece(s, t, cut[n]) /\ cut[n + 1] = cut[n] + Len(t)
      /\ s \in Seq(TSType)
  BY <1>3, <1>4 DEF SentPieces, Stream, Written
<1>6. cut[n] \in Nat /\ last' = n /\ last' >= 0 /\ ~(last' < 0)
  <2>1. last' = n
    BY <1>1, <1>3, <1>4
  <2>2. cut[n] \in Nat
    BY <1>5
  <2> QED BY <2>1, <2>2
<1>7. PlayedPiece(s, cut)'
  <2>1. ASSUME decoded' = t PROVE PlayedPiece(s, cut)'
    <3>1. decoded' \in Seq(TSType) /\ Piece(s, decoded', cut[n])
          /\ cut[n] + Len(decoded') = cut[last' + 1]
      BY <1>5, <1>6, <2>1
    <3> QED BY <1>6, <3>1 DEF PlayedPiece
  <2>2. CASE last < 0
    <3>1. decoded = << >>
      BY <2>2 DEF PlayedPiece
    <3>2. decoded' = << >> \o t
      BY <1>1, <1>4, <2>2, <3>1 DEF Decode, IsNext
    <3>3. << >> \o t = t
      OBVIOUS
    <3> QED BY <2>1, <3>2, <3>3
  <2>3. CASE last >= 0 /\ n = last + 1
    <3>1. decoded' = decoded \o t
      BY <1>1, <1>3, <1>4, <2>3 DEF Decode, IsNext
    <3>2. PICK start \in Nat : Piece(s, decoded, start) /\ start + Len(decoded) = cut[last + 1]
      BY <2>3 DEF PlayedPiece
    <3>3. PICK u \in Seq(TSType) : u = decoded
      BY DEF PlayedPiece
    <3>4. Piece(s, t, start + Len(u)) /\ Piece(s, u, start)
      BY <1>5, <2>3, <3>2, <3>3
    <3>5. Piece(s, u \o t, start) /\ u \o t \in Seq(TSType) /\ Len(u \o t) = Len(u) + Len(t)
      BY <1>5, <3>4, ConcatPieces
    <3>6. start + Len(u \o t) = cut[n + 1]
      <4>1. Len(u) \in Nat /\ Len(t) \in Nat
        OBVIOUS
      <4>2. cut[n] = start + Len(u)
        BY <2>3, <3>2, <3>3
      <4>3. cut[n + 1] = start + Len(u) + Len(t)
        BY <1>5, <4>2
      <4> QED BY <3>5, <4>1, <4>3
    <3> QED BY <1>6, <3>1, <3>3, <3>5, <3>6 DEF PlayedPiece
  <2>4. CASE last >= 0 /\ n # last + 1
    <3>1. decoded' = t
      <4>1. ~IsNext
        BY <1>1, <1>3, <1>4, <2>4 DEF IsNext
      <4> QED BY <1>1, <1>4, <4>1 DEF Decode
    <3> QED BY <2>1, <3>1
  <2> QED BY <1>1, <2>2, <2>3, <2>4
<1>8. SentPieces(s, cut)'
  <2>1. Known' \subseteq Known
    <3>1. ~HandOver
      BY <1>1, <1>2 DEF HandOver, Finish
    <3>2. Waiting' = Waiting /\ Entries(mHistory)' = Entries(mHistory)
      BY <1>2 DEF Waiting
    <3> QED BY <1>1, <1>2, <3>2 DEF Known
  <2>2. Pending' = Pending
    BY <1>2 DEF Pending
  <2> QED BY <1>2, <2>1, <2>2 DEF SentPieces
<1>9. Stream(s)'
  BY <1>2 DEF Stream
<1> QED BY <1>7, <1>8, <1>9 DEF Streamed

(* A call to packetize that has written packets is under way.              *)
LEMMA UnderWay ==
  ASSUME NEW j, "packets" \in DOMAIN j
  PROVE  j # NoJob
<1>1. DOMAIN NoJob = {"num"}
  BY DEF NoJob
<1> QED BY <1>1

LEMMA StreamedStays ==
  ASSUME Base, NumbersHold, Streamed, [Next]_vars
  PROVE  Streamed'
<1>1. PICK s, cut : Stream(s) /\ SentPieces(s, cut) /\ PlayedPiece(s, cut)
  BY DEF Streamed
<1>2. CASE HandOver
  BY <1>1, <1>2, HandOverStreams
<1>3. CASE PlayOldest
  BY <1>1, <1>3, PlayStreams
<1>4. CASE ~HandOver /\ ~PlayOldest
  <2>1. Known' \subseteq Known /\ mRTPSeqNo' = mRTPSeqNo
    BY <1>4, NothingNew
  <2>2. UNCHANGED <<last, decoded>>
    BY <1>4, SinkFrame DEF Arrive, Miss
  <2>3. ASSUME NEW s2, Stream(s2)', Extends(s2, s),
               Piece(s2, Pending', cut[mRTPSeqNo]), cut[mRTPSeqNo] + Len(Pending') = Len(s2)
        PROVE  Streamed'
    BY <1>1, <2>1, <2>2, <2>3, StreamGrows
  <2>4. /\ s \in Seq(TSType) /\ cut[mRTPSeqNo] \in Nat
        /\ Piece(s, Pending, cut[mRTPSeqNo]) /\ cut[mRTPSeqNo] + Len(Pending) = Len(s)
        /\ Written(s, mPATContinuityCounter, mPMTContinuityCounter, mTracks)
    BY <1>1 DEF Stream, Written, SentPieces, Base, QueuesHold
  <2>5. Extends(s, s)
    BY <2>4 DEF Extends
  <2>6. PacketizerInv /\ PIDsCounted /\ PlanHolds
    BY DEF Base
  <2>7. CASE AddNextTrack
    <3>1. PICK kind \in Kinds : AddTrack(kind)
      BY <2>6, <2>7, TrackIsPlanned
    <3>2. UNCHANGED <<mPATContinuityCounter, mPMTContinuityCounter, job>>
      BY <3>1 DEF AddTrack
    <3>3. mTracks \in Seq(TrackType)
      BY <2>6 DEF PacketizerInv, TracksTyped
    <3>4. Written(s, mPATContinuityCounter, mPMTContinuityCounter, mTracks')
      BY <2>4, <2>6, <3>1, <3>3, AddTrackDistinct, NewTrackIsCounted
    <3>5. Stream(s)' /\ Pending' = Pending
      BY <3>2, <3>4 DEF Stream, Pending
    <3> QED BY <2>3, <2>4, <2>5, <3>5
  <2>8. CASE DrainAccessUnit
    <3>1. PICK t \in 1..Len(mTracks), size \in Nat, extra \in 0..170, tables \in BOOLEAN :
            Packetize(t, size, extra, tables)
      BY <2>6, <2>8, UnitFits
    <3>2. PICK s2 : /\ Written(s2, mPATContinuityCounter', mPMTContinuityCounter', mTracks')
                    /\ Extends(s2, s) /\ Piece(s2, job'.packets, Len(s))
                    /\ Len(s) + Len(job'.packets) = Len(s2)
      BY <2>4, <2>6, <3>1, PacketizeWrites
    <3>3. Pending = << >> /\ Len(s) = cut[mRTPSeqNo]
      <4>1. job = NoJob
        BY <3>1 DEF Packetize
      <4>2. Pending = << >> /\ Len(Pending) = 0
        BY <4>1 DEF Pending
      <4> QED BY <2>4, <4>2
    <3>4. Pending' = job'.packets
      <4>1. "packets" \in DOMAIN job'
        BY <3>1 DEF Packetize
      <4> QED BY <4>1, UnderWay DEF Pending
    <3>5. Stream(s2)'
      BY <3>2 DEF Stream
    <3> QED BY <2>3, <3>2, <3>3, <3>4, <3>5
  <2>9. CASE Fragment
    <3>1. NextFragment
      BY <2>9 DEF Fragment
    <3>2. job # NoJob /\ Pending = job.packets
      BY <3>1 DEF NextFragment, Pending
    <3>3. PICK s2 : /\ Written(s2, mPATContinuityCounter', mPMTContinuityCounter', mTracks')
                    /\ Extends(s2, s) /\ Piece(s2, job'.packets, cut[mRTPSeqNo])
                    /\ cut[mRTPSeqNo] + Len(job'.packets) = Len(s2)
      BY <2>4, <2>6, <3>1, <3>2, NextFragmentWrites
    <3>4. Pending' = job'.packets
      <4>1. DOMAIN job' = DOMAIN job
        BY <3>1 DEF NextFragment
      <4>2. job \in JobType
        BY <2>6, <3>2 DEF PacketizerInv, JobOnCourse
      <4>3. "packets" \in DOMAIN job'
        BY <4>1, <4>2 DEF JobType
      <4> QED BY <4>3, UnderWay DEF Pending
    <3>5. Stream(s2)'
      BY <3>3 DEF Stream
    <3> QED BY <2>3, <3>3, <3>4, <3>5
  <2>10. CASE UNCHANGED <<tsVars, todo>>
    <3>1. UNCHANGED <<mTracks, mPATContinuityCounter, mPMTContinuityCounter, job>>
      BY <2>10 DEF tsVars
    <3>2. Stream(s)' /\ Pending' = Pending
      BY <1>1, <3>1 DEF Stream, Pending
    <3> QED BY <2>3, <2>4, <2>5, <3>2
  <2> QED BY <1>4, <2>7, <2>8, <2>9, <2>10, SourceFrame
<1> QED BY <1>2, <1>3, <1>4

(* A piece of what was written counts as what was written does.            *)
LEMMA PlayedIsContinuous == Streamed => Continuous
<1> SUFFICES ASSUME Streamed PROVE Continuous
  OBVIOUS
<1>1. PICK s, cut : Stream(s) /\ PlayedPiece(s, cut)
  BY DEF Streamed
<1>2. PICK start \in Nat : Piece(s, decoded, start)
  BY <1>1 DEF PlayedPiece
<1>3. s \in Seq(TSType) /\ decoded \in Seq(TSType) /\ Counted(s) /\ Piece(s, decoded, start)
  BY <1>1, <1>2 DEF Stream, Written, PlayedPiece
<1>4. PICK m \in Nat, l \in Nat : m = Len(decoded) /\ l = Len(s) /\ start + m <= l
  <2>1. Len(decoded) \in Nat /\ Len(s) \in Nat
    BY <1>3
  <2> QED BY <1>3, <2>1 DEF Piece
<1> SUFFICES ASSUME NEW i \in 1..m, NEW j \in 1..m, i < j, Follows(i, j), decoded[i].pid # PCR
             PROVE  decoded[j].cc = Step(decoded[i].cc)
  BY <1>4 DEF Continuous
<1>5. start + i \in 1..l /\ start + j \in 1..l /\ start + i < start + j
  BY <1>4
<1>6. \A k \in 1..m : decoded[k] = s[start + k]
  BY <1>3, <1>4 DEF Piece
<1>7. ASSUME NEW k \in (start + i) + 1..(start + j) - 1 PROVE s[k].pid # s[start + i].pid
  <2>1. k - start \in i+1..j-1 /\ k - start \in 1..m /\ start + (k - start) = k
    BY <1>4
  <2>2. decoded[k - start].pid # decoded[i].pid
    BY <2>1 DEF Follows
  <2> QED BY <1>6, <2>1, <2>2
<1>8. Succeeds(s, start + i, start + j) /\ s[start + i].pid # PCR
  BY <1>5, <1>6, <1>7 DEF Succeeds, Follows
<1>9. s[start + j].cc = Step(s[start + i].cc)
  BY <1>3, <1>4, <1>5, <1>8 DEF Counted
<1> QED BY <1>6, <1>9

-----------------------------------------------------------------------------
(* Where numbers wrap                                                      *)

LEMMA ModOf ==
  ASSUME NEW b \in Nat \ {0}, NEW q \in Int, NEW r \in 0..b-1
  PROVE  (b*q + r) % b = r
<1> DEFINE n == b*q + r
<1>1. n \in Int
  OBVIOUS
<1>2. PICK p \in Int, t \in 0..b-1 : t = n % b /\ n = b*p + t
  <2> HIDE DEF n
  <2>1. n \div b \in Int /\ n % b \in 0..b-1 /\ n = b * (n \div b) + (n % b)
    BY <1>1
  <2> QED BY <2>1
<1>3. b*(p - q) = r - t
  BY <1>2
<1>4. CASE p - q >= 1
  <2>1. b*(p - q) >= b
    BY <1>4
  <2> QED BY <1>3, <2>1
<1>5. CASE p - q <= -1
  <2>1. b*(p - q) <= -b
    BY <1>5
  <2> QED BY <1>3, <2>1
<1>6. CASE p = q
  <2>1. b*(p - q) = 0
    BY <1>6
  <2> QED BY <1>2, <1>3, <2>1
<1> QED BY <1>4, <1>5, <1>6

LEMMA DivOf ==
  ASSUME NEW b \in Nat \ {0}, NEW q \in Int, NEW r \in 0..b-1
  PROVE  (b*q + r) \div b = q
<1> DEFINE n == b*q + r
<1>1. n \in Int
  OBVIOUS
<1>2. PICK p \in Int, t \in 0..b-1 : p = n \div b /\ n = b*p + t
  <2> HIDE DEF n
  <2>1. n \div b \in Int /\ n % b \in 0..b-1 /\ n = b * (n \div b) + (n % b)
    BY <1>1
  <2> QED BY <2>1
<1>3. b*(p - q) = r - t
  BY <1>2
<1>4. CASE p - q >= 1
  <2>1. b*(p - q) >= b
    BY <1>4
  <2> QED BY <1>3, <2>1
<1>5. CASE p - q <= -1
  <2>1. b*(p - q) <= -b
    BY <1>5
  <2> QED BY <1>3, <2>1
<1> QED BY <1>2, <1>4, <1>5

(* The highest number is top, from the cycle c; number n comes, which is   *)
(* less than a cycle away and not from a cycle before.                     *)
Comes(b, c, m, top, n, s) ==
  /\ b \in Nat \ {0} /\ c \in Nat /\ m \in 0..b-1 /\ top \in Nat /\ top = b*c + m
  /\ n \in Nat /\ n - top < b /\ top - n < b /\ n \div b >= c /\ s = n % b

(* What updateSeq computes then.                                           *)
LEMMA NumberedAgain ==
  ASSUME NEW b, NEW c, NEW m, NEW top, NEW n, NEW s, Comes(b, c, m, top, n, s)
  PROVE  /\ s \in 0..b-1
         /\ n >= top => /\ (s - m) % b = n - top
                        /\ n = (IF s < m THEN b*c + b ELSE b*c) + s
         /\ n < top => (s - m) % b = b - (top - n) /\ n = b*c + s
<1> USE DEF Comes
<1>1. PICK q \in Int : q = n \div b /\ s \in 0..b-1 /\ n = b*q + s
  <2>1. n \div b \in Int /\ n % b \in 0..b-1 /\ n = b * (n \div b) + (n % b)
    OBVIOUS
  <2> QED BY <2>1
<1>2. b*(q - c) = (n - top) - (s - m)
  BY <1>1
<1>3. q = c \/ q = c + 1
  <2>1. CASE q - c >= 2
    <3>1. b*(q - c) >= b + b
      BY <2>1
    <3> QED BY <1>1, <1>2, <3>1
  <2> QED BY <1>1, <2>1
<1>4. CASE q = c
  <2>1. b*(q - c) = 0
    BY <1>4
  <2>2. s - m = n - top /\ n = b*c + s
    BY <1>1, <1>2, <1>4, <2>1
  <2>3. CASE n >= top
    <3>1. s - m \in 0..b-1 /\ ~(s < m)
      BY <1>1, <2>2, <2>3
    <3>2. (b*0 + (s - m)) % b = s - m /\ b*0 + (s - m) = s - m
      BY <3>1, ModOf
    <3> QED BY <1>1, <2>2, <2>3, <3>1, <3>2
  <2>4. CASE n < top
    <3>1. b - (top - n) \in 0..b-1
      BY <2>4
    <3>2. (b*(-1) + (b - (top - n))) % b = b - (top - n)
      BY <3>1, ModOf
    <3>3. b*(-1) + (b - (top - n)) = s - m
      BY <1>1, <2>2
    <3> QED BY <1>1, <2>2, <2>4, <3>2, <3>3
  <2> QED BY <2>3, <2>4
<1>5. CASE q = c + 1
  <2>1. b*(q - c) = b /\ b*q = b*c + b
    BY <1>5
  <2>2. n = b*c + b + s /\ s - m = (n - top) - b /\ s < m /\ n >= top
    BY <1>1, <1>2, <2>1
  <2>3. (b*(-1) + (n - top)) % b = n - top
    <3>1. n - top \in 0..b-1
      BY <2>2
    <3> QED BY <3>1, ModOf
  <2>4. b*(-1) + (n - top) = s - m
    BY <1>1, <2>2
  <2> QED BY <1>1, <2>2, <2>3, <2>4
<1> QED BY <1>3, <1>4, <1>5

(* The packet that ends the probation is the highest, in the first cycle.  *)
LEMMA ValidatedAfter ==
  ASSUME NEW src, Valid(src), NEW seq \in Seqs, src.mProbation > 0,
         UpdateSeq(src, seq).src.mProbation = 0
  PROVE  ExtMaxSeq(UpdateSeq(src, seq).src) = seq
<1>1. UpdateSeq(src, seq) = ProbationSeq(src, seq)
  BY DEF UpdateSeq
<1>2. src \in SourceType /\ MinSequential \in Nat /\ MinSequential >= 2 /\ seq \in Nat
  BY MinSequentialAssumption, SeqModAssumption DEF Valid, Seqs
<1>3. seq = src.mMaxSeq + 1
  <2>1. ASSUME seq # src.mMaxSeq + 1
        PROVE  ProbationSeq(src, seq).src.mProbation = MinSequential - 1
    BY <1>2, <2>1 DEF ProbationSeq, Queued, SourceType
  <2> QED BY <1>1, <1>2, <2>1
<1> DEFINE next == [src EXCEPT !.mProbation = @ - 1, !.mMaxSeq = seq]
           new  == [InitSeq(next, seq) EXCEPT !.mReceived = 1]
<1>4. ProbationSeq(src, seq).src = IF next.mProbation = 0 THEN new ELSE next
  BY <1>3 DEF ProbationSeq
<1>5. new.mMaxSeq = seq /\ new.mCycles = 0
  BY DEF InitSeq
<1> HIDE DEF next, new
<1> QED BY <1>1, <1>2, <1>4, <1>5 DEF ExtMaxSeq

(* The newest packet is the one of the highest number, cycles included,    *)
(* once the source is validated.                                           *)
NewestHolds == Validated => newest = ExtMaxSeq(mSource)

(* A packet within the windows of updateSeq gets its own number, and the   *)
(* source is as far on as the newest packet afterwards.                    *)
LEMMA WindowKeepsNumber ==
  ASSUME Base, NewestHolds, NEW d \in air, Arrive(d), InWindow(d.p.n)
  PROVE  Taken(d.p.n).ext = d.p.n /\ NewestHolds'
<1>1. PICK n \in Nat, s \in Seqs : n = d.p.n /\ s = n % SeqMod
  BY ArriveGives
<1>2. /\ SeqMod \in Nat /\ SeqMod >= 2 /\ MaxDropout \in Nat /\ MaxMisorder \in Nat
      /\ MaxDropout + MaxMisorder <= SeqMod /\ MaxDropout > 0 /\ MaxMisorder > 0
  BY SeqModAssumption
<1>3. /\ mSource' = Taken(n).src
      /\ newest' = IF Validated /\ mSource'.mMaxSeq = mSource.mMaxSeq THEN newest ELSE n
  BY <1>1 DEF Arrive
<1>4. ASSUME n < SeqMod PROVE s = n
  <2>1. (SeqMod*0 + n) % SeqMod = n /\ SeqMod*0 + n = n
    BY <1>2, <1>4, ModOf
  <2> QED BY <1>1, <2>1
<1>5. ASSUME ~Validated PROVE s = n /\ newest' = n
  <2>1. n < SeqMod
    BY <1>1, <1>5, SeqModIsWireMod DEF InWindow
  <2> QED BY <1>3, <1>4, <1>5, <2>1
<1>6. CASE mSource = NoSource
  <2>1. ~Validated
    BY <1>6 DEF Validated
  <2>2. Taken(n) = NewSource(s)
    BY <1>1, <1>6, SeqModIsWireMod DEF Taken
  <2>3. NewSource(s).src.mProbation = MinSequential /\ MinSequential # 0
    BY MinSequentialAssumption DEF NewSource, InitSeq, Queued
  <2> QED BY <1>1, <1>3, <1>5, <2>1, <2>2, <2>3, NewSourceGives DEF NewestHolds, Validated
<1>7. CASE mSource # NoSource /\ mSource.mProbation > 0
  <2>1. PICK src : src = mSource
    OBVIOUS
  <2>2. Valid(src)
    BY <1>7, <2>1 DEF Base, SinkHolds
  <2>3. ~Validated
    BY <1>7 DEF Validated
  <2>4. Taken(n) = UpdateSeq(src, s)
    BY <1>1, <1>7, <2>1, SeqModIsWireMod DEF Taken
  <2>5. UpdateSeq(src, s).ext = s
    BY <1>7, <2>1, <2>2, UpdateSeqGives
  <2>6. UpdateSeq(src, s).src.mProbation = 0 => ExtMaxSeq(UpdateSeq(src, s).src) = s
    BY <1>7, <2>1, <2>2, ValidatedAfter
  <2> QED BY <1>1, <1>3, <1>5, <2>3, <2>4, <2>5, <2>6 DEF NewestHolds, Validated
<1>8. CASE mSource # NoSource /\ ~(mSource.mProbation > 0)
  <2>1. PICK src : src = mSource
    OBVIOUS
  <2>2. Valid(src)
    BY <1>8, <2>1 DEF Base, SinkHolds
  <2>3. src.mMaxSeq \in 0..SeqMod-1 /\ src.mCycles \in Nat /\ src.mProbation = 0
    BY <1>8, <2>1, <2>2, MinSequentialAssumption DEF Valid, SourceType, Seqs
  <2>4. PICK c \in Nat : src.mCycles = SeqMod * c
    BY <2>2 DEF Valid
  <2>5. PICK m \in 0..SeqMod-1, top \in Nat : m = src.mMaxSeq /\ top = SeqMod*c + m
    BY <2>3, <2>4
  <2>6. Validated /\ newest = top
    <3>1. ExtMaxSeq(src) = top
      BY <1>2, <2>4, <2>5 DEF ExtMaxSeq
    <3>2. Validated
      BY <1>8, <2>1, <2>3 DEF Validated
    <3> QED BY <2>1, <3>1, <3>2 DEF NewestHolds
  <2>7. n - top < SeqMod /\ top - n < SeqMod /\ n - top < MaxDropout /\ top - n < MaxMisorder
    <3>1. n - top < MaxDropout /\ top - n < MaxMisorder
      BY <1>1, <2>6 DEF InWindow
    <3> QED BY <1>2, <2>5, <3>1
  <2>8. n \div SeqMod >= c
    <3>1. n \div SeqMod >= top \div SeqMod
      BY <1>1, <2>6, SeqModIsWireMod DEF InWindow
    <3>2. top \div SeqMod = c
      <4>1. SeqMod \in Nat \ {0} /\ c \in Int
        BY <1>2
      <4>2. (SeqMod*c + m) \div SeqMod = c
        BY <4>1, DivOf
      <4> QED BY <2>5, <4>2
    <3> QED BY <3>1, <3>2
  <2>9. /\ s \in 0..SeqMod-1
        /\ n >= top => /\ (s - m) % SeqMod = n - top
                       /\ n = (IF s < m THEN SeqMod*c + SeqMod ELSE SeqMod*c) + s
        /\ n < top => (s - m) % SeqMod = SeqMod - (top - n) /\ n = SeqMod*c + s
    <3>1. SeqMod \in Nat \ {0} /\ n - top < SeqMod /\ top - n < SeqMod
      BY <1>2, <2>7
    <3>2. Comes(SeqMod, c, m, top, n, s)
      BY <1>1, <2>5, <2>8, <3>1 DEF Comes
    <3> QED BY <3>2, NumberedAgain
  <2>10. Taken(n) = UpdateSeq(src, s)
    BY <1>1, <1>8, <2>1, SeqModIsWireMod DEF Taken
  <2>11. CASE n >= top
    <3>1. UpdateSeq(src, s) = Receive(Advance(src, s), s)
      BY <2>3, <2>5, <2>7, <2>9, <2>11 DEF UpdateSeq
    <3>2. /\ Advance(src, s).mCycles = IF s < m THEN SeqMod*c + SeqMod ELSE SeqMod*c
          /\ Advance(src, s).mMaxSeq = s
          /\ {"mCycles", "mMaxSeq", "mReceived"} \subseteq DOMAIN Advance(src, s)
      <4>1. src \in SourceType
        BY <2>2 DEF Valid
      <4> QED BY <2>4, <2>5, <4>1 DEF Advance, SourceType
    <3>3. /\ Receive(Advance(src, s), s).ext = Advance(src, s).mCycles + s
          /\ Receive(Advance(src, s), s).src.mCycles = Advance(src, s).mCycles
          /\ Receive(Advance(src, s), s).src.mMaxSeq = s
      <4>1. ASSUME NEW a, {"mCycles", "mMaxSeq", "mReceived"} \subseteq DOMAIN a
            PROVE  /\ Receive(a, s).ext = a.mCycles + s
                   /\ Receive(a, s).src.mCycles = a.mCycles
                   /\ Receive(a, s).src.mMaxSeq = a.mMaxSeq
        BY <4>1 DEF Receive, Queued
      <4> QED BY <3>2, <4>1
    <3>4. Taken(n).ext = n /\ ExtMaxSeq(mSource') = n /\ mSource'.mMaxSeq = s
      BY <1>2, <1>3, <2>9, <2>10, <2>11, <2>4, <2>5, <3>1, <3>2, <3>3 DEF ExtMaxSeq
    <3>5. newest' = n
      <4>1. CASE s = m
        <5>1. (SeqMod*0 + 0) % SeqMod = 0 /\ s - m = 0 /\ SeqMod*0 + 0 = 0
          BY <1>2, <2>5, <4>1, ModOf
        <5>2. n = top
          BY <2>5, <2>9, <2>11, <5>1
        <5> QED BY <1>3, <2>6, <5>2
      <4>2. CASE s # m
        BY <1>3, <2>1, <2>5, <3>4, <4>2
      <4> QED BY <4>1, <4>2
    <3> QED BY <1>1, <3>4, <3>5 DEF NewestHolds
  <2>12. CASE n < top
    <3>1. (s - m) % SeqMod > SeqMod - MaxMisorder /\ (s - m) % SeqMod >= MaxDropout
      BY <1>2, <2>5, <2>7, <2>9, <2>12
    <3>2. UpdateSeq(src, s) = Receive(src, s)
      <4>1. PICK u \in Int : u = (s - m) % SeqMod
        BY <1>2, <2>9, <2>12, <2>5
      <4>2. ~(u < MaxDropout) /\ ~(u <= SeqMod - MaxMisorder)
        BY <1>2, <3>1, <4>1
      <4> QED BY <2>3, <2>5, <4>1, <4>2 DEF UpdateSeq
    <3>3. /\ Receive(src, s).ext = src.mCycles + s
          /\ Receive(src, s).src.mCycles = src.mCycles
          /\ Receive(src, s).src.mMaxSeq = src.mMaxSeq
      BY <2>2 DEF Receive, Queued, Valid, SourceType
    <3>4. ExtMaxSeq(mSource') = top /\ mSource'.mMaxSeq = mSource.mMaxSeq
      BY <1>2, <1>3, <2>1, <2>4, <2>5, <2>10, <3>2, <3>3 DEF ExtMaxSeq
    <3>5. newest' = top
      BY <1>3, <2>6, <3>4
    <3> QED BY <1>1, <2>4, <2>9, <2>10, <2>12, <3>2, <3>3, <3>4, <3>5 DEF NewestHolds
  <2> QED BY <2>5, <2>11, <2>12
<1> QED BY <1>6, <1>7, <1>8

LEMMA AllNumbered ==
  ASSUME Base, inWindows => NewestHolds
  PROVE  WellNumbered
<1>1. ASSUME NEW d \in air, Arrive(d), inWindows' PROVE Taken(d.p.n).ext = d.p.n
  <2>1. inWindows /\ InWindow(d.p.n)
    BY <1>1 DEF Arrive
  <2> QED BY <1>1, <2>1, WindowKeepsNumber
<1> QED BY <1>1 DEF WellNumbered

LEMMA NewestStays ==
  ASSUME Base, inWindows => NewestHolds, [Next]_vars
  PROVE  /\ inWindows' => inWindows
         /\ inWindows' => NewestHolds'
<1>1. ASSUME NEW d \in air, Arrive(d)
      PROVE  /\ inWindows' => inWindows
             /\ inWindows' => NewestHolds'
  <2>1. inWindows' => inWindows /\ InWindow(d.p.n)
    BY <1>1 DEF Arrive
  <2> QED BY <1>1, <2>1, WindowKeepsNumber
<1>2. CASE UNCHANGED <<mSource, newest, inWindows>>
  BY <1>2 DEF NewestHolds, Validated
<1> QED BY <1>1, <1>2, WindowsFrame

-----------------------------------------------------------------------------
(* The theorems                                                            *)

(* What holds as long as all packets have come in the windows.             *)
StreamHolds == NewestHolds /\ NumbersHold /\ Streamed

LEMMA StreamInvariant ==
  Init /\ [][Next]_vars => [](Base /\ (inWindows => StreamHolds)) /\ NumberedAsSent
<1> DEFINE I == Base /\ (inWindows => StreamHolds)
<1>1. Init => I
  <2>1. Init => NewestHolds
    BY DEF Init, NewestHolds, Validated
  <2> QED BY <2>1, InitBase, NumberedInit, StreamedInit DEF StreamHolds
<1>2. I => WellNumbered
  BY AllNumbered DEF StreamHolds
<1>3. I /\ [Next]_vars => I'
  <2> SUFFICES ASSUME I, [Next]_vars PROVE I'
    OBVIOUS
  <2>1. Base'
    BY BaseStays
  <2>2. ASSUME inWindows' PROVE StreamHolds'
    <3>1. inWindows /\ NewestHolds'
      BY <2>2, NewestStays DEF StreamHolds
    <3>2. NumbersHold' /\ Streamed'
      BY <1>2, <2>2, <3>1, NumberedStays, StreamedStays DEF StreamHolds
    <3> QED BY <3>1, <3>2 DEF StreamHolds
  <2> QED BY <2>1, <2>2
<1> HIDE DEF I
<1>4. Init /\ [][Next]_vars => []I /\ NumberedAsSent
  BY <1>1, <1>2, <1>3, PTL DEF NumberedAsSent
<1> QED BY <1>4 DEF I

(* The state keeps its types, whatever the network loses or reorders.      *)
THEOREM StreamTypeCorrect == Spec => []TypeOK
BY BaseAlways, TypesHold, PTL DEF Spec

(* As long as all packets have come in the windows of RFC 3550, however    *)
(* often the sequence numbers wrap, each is numbered as it was sent. That  *)
(* excludes, by the definition of InWindow, a packet overtaken by one from *)
(* after a wrap: updateSeq numbers it a cycle too high.                    *)
THEOREM StreamNumbersAsSent == Spec => NumberedAsSent
BY StreamInvariant, PTL DEF Spec

(* As long as they have, what the player gets between two packets given up *)
(* is a piece of what packetize wrote, in order and without a gap on any   *)
(* PID: whatever is lost, reordered or sent again.                         *)
THEOREM StreamIsContinuous == Spec => []Continuous
<1>1. (inWindows => StreamHolds) => Continuous
  BY PlayedIsContinuous DEF StreamHolds, Continuous
<1> QED BY <1>1, StreamInvariant, PTL DEF Spec
=============================================================================
