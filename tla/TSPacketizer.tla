---------------------------- MODULE TSPacketizer ----------------------------
(***************************************************************************)
(* source/TSPacketizer.cpp: one access unit of a track becomes the payload *)
(* of a PES packet that is cut into transport stream packets of 188 bytes, *)
(* led by the program tables and the clock when the caller asks for them.  *)
(*                                                                         *)
(* The call packetize() is the variable job: Packetize is the call up to   *)
(* the end of the first packet that carries data, NextFragment one turn of *)
(* the loop, Finish the return. Nothing else on the looper runs meanwhile. *)
(* The bytes of the tables and the headers are left out, what they take of *)
(* a packet is not. The codec data or ADTS header put in front of a unit   *)
(* counts as part of the unit.                                             *)
(***************************************************************************)
EXTENDS Integers, Sequences, FiniteSets

CONSTANTS
  CounterMod,     \* the continuity counters have 4 bits: 16
  Sizes,          \* sizes of the access units
  Extras,         \* bytes of stuffing and private data in the PES header
  MaxTracks       \* bound: tracks added

ASSUME CounterModAssumption == CounterMod \in Nat \ {0}
ASSUME SizesAssumption == Sizes \subseteq Nat
(* drainAccessUnit adds 2 bytes of stuffing for audio, 17 bytes of private *)
(* data for encrypted video; 18 bytes of header are there anyway.          *)
ASSUME ExtrasAssumption == Extras \subseteq 0..170
ASSUME MaxTracksAssumption == MaxTracks \in Nat

VARIABLES
  mTracks,                  \* the tracks, with their continuity counters
  mPATContinuityCounter,
  mPMTContinuityCounter,
  job,                      \* the packetize() call under way, or NoJob
  failed                    \* whether a CHECK failed: the program is gone

tsVars == <<mTracks, mPATContinuityCounter, mPMTContinuityCounter, job, failed>>

Kinds == {"avc", "aac", "raw"}
IsVideo(kind) == kind = "avc"

FirstPID(kind)      == IF IsVideo(kind) THEN 4113 ELSE 4352   \* 0x1011, 0x1100
FirstStreamID(kind) == [avc |-> 224, aac |-> 192, raw |-> 189][kind]
LastStreamID(kind)  == [avc |-> 239, aac |-> 223, raw |-> 189][kind]

PAT == 0
PMT == 256                  \* 0x100
PCR == 4096                 \* 0x1000

Counters == 0..CounterMod-1
NoJob == [num |-> 0]

TSInit ==
  /\ mTracks = << >>
  /\ mPATContinuityCounter = 0
  /\ mPMTContinuityCounter = 0
  /\ job = NoJob
  /\ failed = FALSE

-----------------------------------------------------------------------------
(* addTrack                                                                *)

CountTracks(P) == Cardinality({t \in 1..Len(mTracks) : mTracks[t].kind \in P})

(* The tracks whose PIDs start at the same number.                         *)
SameClass(kind) == {k \in Kinds : IsVideo(k) = IsVideo(kind)}

(* -ERANGE, which no caller survives, when the stream ids are used up.     *)
AddTrack(kind) ==
  /\ job = NoJob /\ ~failed
  /\ Len(mTracks) < MaxTracks
  /\ FirstStreamID(kind) + CountTracks({kind}) <= LastStreamID(kind)
  /\ mTracks' = Append(mTracks,
       [kind |-> kind,
        pid |-> FirstPID(kind) + CountTracks(SameClass(kind)),
        streamID |-> FirstStreamID(kind) + CountTracks({kind}),
        cc |-> 0])
  /\ UNCHANGED <<mPATContinuityCounter, mPMTContinuityCounter, job, failed>>

-----------------------------------------------------------------------------
(* packetize                                                               *)

Smaller(a, b) == IF a < b THEN a ELSE b

PESLength(size, extra) == size + 8 + extra

(* Fault: a rest that fills its packets exactly is given one more.         *)
FragmentsOneMore(len) ==
  IF len <= 178 THEN 1 ELSE 1 + (len - 178 + 184) \div 184

(* Packets needed for the data: the first takes 178 of the PES bytes that  *)
(* are counted in its length, the others 184.                              *)
Fragments(len) ==
  IF len <= 178 THEN 1 ELSE 1 + (len - 178 + 183) \div 184

Padding(room, bytes) == IF bytes < room THEN room - bytes ELSE 0

(* Room for data in the first packet and in the others.                    *)
FirstRoom(size, extra) ==
  188 - (18 + extra + Padding(178, PESLength(size, extra)))
RestRoom(rest) == 184 - Padding(184, rest)

(* The value a counter has next; packetize uses a track's value before the *)
(* step and the tables' after it.                                          *)
Step(counter) == (counter + 1) % CounterMod

TSPacket(pid, cc, bytes) == [pid |-> pid, cc |-> cc, bytes |-> bytes]

Tables == <<TSPacket(PAT, Step(mPATContinuityCounter), 0),
            TSPacket(PMT, Step(mPMTContinuityCounter), 0),
            TSPacket(PCR, 0, 0)>>

(* Fault: every access unit starts counting anew.                          *)
CountFromZero(t) == mTracks' = [mTracks EXCEPT ![t].cc = 1 % CounterMod]

CountPacket(t) == mTracks' = [mTracks EXCEPT ![t].cc = Step(@)]

(* The CHECKs up to the first data packet: only video may be longer than   *)
(* the PES length field can say, and the data fills the packet exactly.    *)
FirstChecks(t, len, room, copy) ==
  /\ len < 65536 \/ IsVideo(mTracks[t].kind)
  /\ room = copy

(* The caller asks for the tables and the clock together or for neither.   *)
Packetize(t, size, extra, tables) ==
  LET len   == PESLength(size, extra)
      room  == FirstRoom(size, extra)
      copy  == Smaller(size, room)
      lead  == IF tables THEN Tables ELSE << >>
      first == TSPacket(mTracks[t].pid, mTracks[t].cc, copy)
  IN  /\ job = NoJob /\ ~failed
      /\ mPATContinuityCounter' =
           IF tables THEN Step(mPATContinuityCounter) ELSE mPATContinuityCounter
      /\ mPMTContinuityCounter' =
           IF tables THEN Step(mPMTContinuityCounter) ELSE mPMTContinuityCounter
      /\ CountPacket(t)
      /\ job' = [num |-> Fragments(len) + Len(lead), track |-> t, size |-> size,
                 offset |-> copy, packets |-> Append(lead, first)]
      /\ failed' = ~FirstChecks(t, len, room, copy)

(* The loop over the rest of the unit, which must fill its packet too.     *)
NextFragment ==
  /\ job # NoJob /\ ~failed
  /\ job.offset < job.size
  /\ LET rest  == job.size - job.offset
         room  == RestRoom(rest)
         copy  == Smaller(rest, room)
         track == mTracks[job.track]
     IN  /\ job' = [job EXCEPT !.offset = @ + copy,
                      !.packets = Append(@, TSPacket(track.pid, track.cc, copy))]
         /\ CountPacket(job.track)
         /\ failed' = (room # copy)
  /\ UNCHANGED <<mPATContinuityCounter, mPMTContinuityCounter>>

(* The last CHECK: the packets written are the packets made room for.      *)
Finish ==
  /\ job # NoJob /\ ~failed
  /\ job.offset >= job.size
  /\ failed' = (Len(job.packets) # job.num)
  /\ job' = NoJob
  /\ UNCHANGED <<mTracks, mPATContinuityCounter, mPMTContinuityCounter>>

(* An audio unit fits the PES length field: encoders and PCM blocks are    *)
(* far below it.                                                           *)
Fits(t, size, extra) ==
  PESLength(size, extra) < 65536 \/ IsVideo(mTracks[t].kind)

TSNext ==
  \/ \E kind \in Kinds : AddTrack(kind)
  \/ \E t \in 1..Len(mTracks), size \in Sizes, extra \in Extras,
        tables \in BOOLEAN :
       Fits(t, size, extra) /\ Packetize(t, size, extra, tables)
  \/ NextFragment
  \/ Finish

TSSpec == TSInit /\ [][TSNext]_tsVars

-----------------------------------------------------------------------------
(* Properties                                                              *)

(* Every CHECK of packetize holds (lines 781, 828, 835, and 717 for        *)
(* audio): the number of packets computed beforehand is the number the     *)
(* loop writes, and each is filled to its last byte.                       *)
ChecksHold == ~failed

=============================================================================
