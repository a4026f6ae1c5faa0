------------------------ MODULE PlaybackSessionProofs ------------------------
(***************************************************************************)
(* Proofs about PlaybackSession: for every choice of bounds, that is for   *)
(* any number of units and failures, with one track and with two, over UDP *)
(* and over TCP, destroyed at any time or not at all.                      *)
(***************************************************************************)
EXTENDS PlaybackSession, TLAPS

-----------------------------------------------------------------------------
(* The inductive invariant                                                 *)

Whats == {"FinishPlay", "InitDone", "SenderDead", "Pulled", "EncoderActivity", "Shutdown",
          "AccessUnit", "Error", "EOS", "MediaPullerStopped", "TrackStopped",
          "SessionDestroyed"}
MsgType   == [what : Whats, track : Tracks, unit : Nat]
TrackType == [mStarted : BOOLEAN, mConverter : BOOLEAN, mPacketizerTrackIndex : BOOLEAN,
              mQueuedAccessUnits : SUBSET Nat, mQueuedOutputBuffers : SUBSET Nat]
ConverterType == [mEncoder : BOOLEAN, inputs : Seq(Nat), mDoMoreWorkPending : BOOLEAN]
PullType   == {"Pull", "Stop"} \X {0}
PullerType == [queue : Seq(PullType), mPullGeneration : 0..1, started : BOOLEAN,
               doing : {"idle", "reading", "dormant", "stopping"}]

(* What each variable holds.                                               *)
Shape ==
  /\ plan \in Plans
  /\ queue \in Seq(MsgType)
  /\ track \in [Tracks -> TrackType]
  /\ converter \in [Tracks -> ConverterType]
  /\ puller \in [Tracks -> PullerType]
  /\ sent \in [Tracks -> SUBSET Nat]
  /\ mTracks \subseteq Tracks
  /\ repeater \in [frame : {"none", "fresh", "stale"}, mStartTimeUs : BOOLEAN]
  /\ mSender \in {"init", "connecting", "half", "connected", "none"}
  /\ clock \in 0..plan.units /\ faults \in 0..plan.faults
  /\ \A t \in Tracks : /\ track[t].mQueuedAccessUnits \subseteq 1..plan.units
                       /\ track[t].mQueuedOutputBuffers \subseteq 1..plan.units

Members(q) == {q[i] : i \in 1..Len(q)}

Is(m, what, t) == m.what = what /\ m.track = t
Ends(m, t)     == m.what \in {"MediaPullerStopped", "TrackStopped"} /\ m.track = t
Yields(m, t)   == m.what \in {"AccessUnit", "EOS"} /\ m.track = t

(* What may come after what: the connection is made once, a track ends     *)
(* once, after its encoder, and yields nothing after that.                 *)
Fits(m, n) ==
  /\ ~(m.what = "FinishPlay" /\ n.what = "FinishPlay")
  /\ ~(m.what = "InitDone" /\ n.what = "InitDone")
  /\ \A t \in Tracks :
       /\ ~(Ends(m, t) /\ Ends(n, t))
       /\ ~(Is(m, "MediaPullerStopped", t) /\ Is(n, "Shutdown", t))
       /\ ~(Is(m, "TrackStopped", t) /\ Yields(n, t))

(* The units of a track come in order.                                     *)
Follows(m, n) == \A t \in Tracks :
  /\ Is(m, "AccessUnit", t) /\ Is(n, "AccessUnit", t) => m.unit < n.unit
  /\ Is(m, "Pulled", t) /\ Is(n, "Pulled", t) /\ n.unit # EOS => m.unit < n.unit

(* Tracks that were not told to stop end in turn, the video first.         *)
Turn(m, n) == \A t, k \in Tracks : t # k /\ Ends(m, t) /\ Ends(n, k) =>
  \/ Is(m, "MediaPullerStopped", "video") /\ Is(n, "MediaPullerStopped", "audio")
  \/ Is(m, "MediaPullerStopped", "audio") /\ Is(n, "TrackStopped", "video")
  \/ Is(m, "TrackStopped", "video") /\ Is(n, "TrackStopped", "audio")

Ordered(q) == \A i, j \in 1..Len(q) : i < j => Fits(q[i], q[j]) /\ Follows(q[i], q[j])
InTurn(q)  == \A i, j \in 1..Len(q) : i < j => Turn(q[i], q[j])

Queued(what, t) == \E m \in Members(queue) : Is(m, what, t)
Posted(what)    == \E m \in Members(queue) : m.what = what

(* The queue of a puller.                                                  *)
Stops(q)   == \E i \in 1..Len(q) : q[i][1] = "Stop"
OneStop(q) == \A i, j \in 1..Len(q) : q[i][1] = "Stop" /\ q[j][1] = "Stop" => i = j

ToldToStop(t) == puller[t].doing = "stopping" \/ Stops(puller[t].queue)

(* A puller is started once, stopped once, and then has nothing to do.     *)
PullersStopOnce == \A t \in Tracks :
  /\ puller[t].started => puller[t].mPullGeneration = 0
  /\ puller[t].doing # "idle" => puller[t].started
  /\ puller[t].queue # <<>> /\ puller[t].mPullGeneration = 0 => puller[t].started
  /\ OneStop(puller[t].queue)
  /\ puller[t].doing = "stopping" => ~Stops(puller[t].queue)

(* No track starts before the connection is made, which is done once.      *)
Unready ==
  \/ ~finishPlay \/ mSender \in {"connecting", "half"}
  \/ Posted("FinishPlay") \/ Posted("InitDone")

StartsOnce ==
  /\ ~finishPlay => ~Posted("FinishPlay")
  /\ ~finishPlay \/ Posted("FinishPlay") => mSender \in {"init", "none"} /\ ~Posted("InitDone")
  /\ mSender \in {"connecting", "half"} => ~Posted("InitDone")
  /\ Unready => \A t \in Tracks : /\ ~track[t].mStarted /\ ~puller[t].started
                                  /\ puller[t].mPullGeneration = 0

(* Before destroyAsync nothing is taken down.                              *)
Undisturbed == ~destroying =>
  /\ "video" \in mTracks /\ mSender # "none" /\ registered /\ ~Posted("SessionDestroyed")
  /\ \A t \in Tracks : /\ track[t].mConverter /\ track[t].mStarted = puller[t].started
                       /\ puller[t].mPullGeneration = 0
  /\ \A t \in mTracks : track[t].mStarted = track["video"].mStarted

(* How a track ends: its encoder is shut down, its puller is stopped, if it*)
(* was started, and the track goes.                                        *)
Ending(t) == \E m \in Members(queue) : Ends(m, t)

StopsInOrder == \A t \in Tracks :
  /\ ToldToStop(t) => puller[t].started /\ ~Ending(t)
  /\ ToldToStop(t) \/ Ending(t) => destroying /\ t \in mTracks
  /\ Queued("TrackStopped", t) => ~track[t].mConverter
  /\ destroying /\ t \in mTracks =>
       /\ Queued("Shutdown", t) \/ ~converter[t].mEncoder
       /\ puller[t].mPullGeneration = 0 => ToldToStop(t) \/ Ending(t)
  /\ ~track[t].mConverter => ~converter[t].mEncoder
  /\ ~converter[t].mEncoder => converter[t].inputs = <<>>
  /\ \A m \in Members(queue) : Yields(m, t) => t \in mTracks
  /\ t \notin mTracks => /\ converter[t].inputs = <<>>
                         /\ puller[t].doing = "idle" /\ ~puller[t].started
  /\ t \in mTracks => registered /\ ~Posted("SessionDestroyed")

(* destroyAsync came before the tracks were started, and did not tell them *)
(* to stop. They may be started all the same, but do not get away with it. *)
Untold ==
  /\ destroying /\ "audio" \in mTracks
  /\ puller["audio"].mPullGeneration = 0 /\ ~ToldToStop("audio")

NoneRunsAway == Untold =>
  /\ puller["video"].mPullGeneration = 0 /\ ~ToldToStop("video")
  /\ InTurn(queue)
  /\ Queued("MediaPullerStopped", "audio") => "video" \in mTracks
  /\ puller["audio"].started =>
       IF "video" \in mTracks THEN puller["video"].started ELSE track["audio"].mStarted

(* A source ends only if something failed.                                 *)
EndsByFault ==
  /\ \A m \in Members(queue) :
       m.what = "EOS" \/ (m.what = "Pulled" /\ m.unit = EOS) => faults > 0
  /\ \A t \in Tracks : EOS \in Members(converter[t].inputs) => faults > 0

(* Where the units of a track are.                                         *)
Pulls(t)  == {m.unit : m \in {n \in Members(queue) : Is(n, "Pulled", t)}} \ {EOS}
Input(t)  == Members(converter[t].inputs) \ {EOS}
Access(t) == {m.unit : m \in {n \in Members(queue) : Is(n, "AccessUnit", t)}}
Held(t)   == track[t].mQueuedAccessUnits \cup track[t].mQueuedOutputBuffers
Coming(t) == track[t].mQueuedOutputBuffers \cup Access(t) \cup Input(t) \cup Pulls(t)
Own(t)    == Held(t) \cup Access(t) \cup Input(t) \cup Pulls(t) \cup sent[t]

Below(S, T) == \A u \in S, v \in T : u < v

Rising(s) == \A i, j \in 1..Len(s) : i < j /\ s[j] # EOS => s[i] < s[j]

(* On its way from the source to the sender no unit overtakes another one  *)
(* of its track.                                                           *)
InLine == \A t \in Tracks :
  /\ Encodes(t) \/ converter[t].inputs = <<>>
  /\ Rising(converter[t].inputs)
  /\ Below(Input(t), Pulls(t))
  /\ Below(Access(t), Input(t) \cup Pulls(t))
  /\ Below(Held(t), Access(t) \cup Input(t) \cup Pulls(t))

(* A unit belongs to one track.                                            *)
Apart ==
  /\ \A t \in Tracks : Own(t) \subseteq 1..clock
  /\ \A t, k \in Tracks : t # k => Own(t) \cap Own(k) = {}

(* What was sent is older than what is to come of a track that was not     *)
(* passed over.                                                            *)
Merged ==
  /\ mAllTracksHavePacketizerIndex => \A t \in mTracks : track[t].mPacketizerTrackIndex
  /\ ~mAllTracksHavePacketizerIndex => \A t \in Tracks : sent[t] = {}
  /\ \A t \in mTracks \ passed, k \in Tracks : Below(sent[k], Coming(t))

Controlled == StartsOnce /\ Undisturbed /\ StopsInOrder /\ NoneRunsAway /\ EndsByFault
Carried    == InLine /\ Apart /\ Merged
Going      == Ordered(queue) /\ Controlled /\ Carried

IInv == Shape /\ PullersStopOnce /\ ChecksHold /\ (Alive => Going)

-----------------------------------------------------------------------------
(* The queue                                                               *)

(* What is left when the message at the head is handled.                   *)
LEMMA QueueTail ==
  ASSUME NEW q \in Seq(MsgType), q # <<>>, Ordered(q)
  PROVE  /\ Head(q) \in MsgType /\ Head(q) \in Members(q)
         /\ Tail(q) \in Seq(MsgType) /\ Members(Tail(q)) \subseteq Members(q)
         /\ \A m \in Members(q) : m = Head(q) \/ m \in Members(Tail(q))
         /\ Ordered(Tail(q)) /\ (InTurn(q) => InTurn(Tail(q)))
         /\ \A m \in Members(Tail(q)) : Fits(Head(q), m) /\ Follows(Head(q), m)
         /\ InTurn(q) => \A m \in Members(Tail(q)) : Turn(Head(q), m)
<1>1. /\ Len(q) \in Nat \ {0} /\ Head(q) = q[1] /\ Head(q) \in MsgType
      /\ Tail(q) \in Seq(MsgType) /\ Len(Tail(q)) = Len(q) - 1
      /\ \A i \in 1..Len(Tail(q)) : Tail(q)[i] = q[i+1] /\ i+1 \in 1..Len(q)
  OBVIOUS
<1>2. Head(q) \in Members(q) /\ Members(Tail(q)) \subseteq Members(q)
  BY <1>1 DEF Members
<1>3. \A m \in Members(q) : m = Head(q) \/ m \in Members(Tail(q))
  <2> SUFFICES ASSUME NEW i \in 1..Len(q), i # 1 PROVE q[i] \in Members(Tail(q))
    BY <1>1 DEF Members
  <2>1. i-1 \in 1..Len(Tail(q)) /\ Tail(q)[i-1] = q[i]
    BY <1>1
  <2> QED BY <2>1 DEF Members
<1>4. Ordered(Tail(q)) /\ (InTurn(q) => InTurn(Tail(q)))
  <2>1. ASSUME NEW i \in 1..Len(Tail(q)), NEW j \in 1..Len(Tail(q)), i < j
        PROVE  i+1 \in 1..Len(q) /\ j+1 \in 1..Len(q) /\ i+1 < j+1
               /\ Tail(q)[i] = q[i+1] /\ Tail(q)[j] = q[j+1]
    BY <1>1, <2>1
  <2> QED BY <2>1 DEF Ordered, InTurn
<1>5. ASSUME NEW m \in Members(Tail(q))
      PROVE  Fits(Head(q), m) /\ Follows(Head(q), m) /\ (InTurn(q) => Turn(Head(q), m))
  <2>1. PICK i \in 1..Len(Tail(q)) : m = Tail(q)[i]
    BY <1>5 DEF Members
  <2>2. 1 \in 1..Len(q) /\ i+1 \in 1..Len(q) /\ 1 < i+1 /\ m = q[i+1]
    BY <1>1, <2>1
  <2> QED BY <1>1, <2>2 DEF Ordered, InTurn
<1> QED BY <1>1, <1>2, <1>3, <1>4, <1>5

(* What is there when more messages are posted.                            *)
LEMMA QueueMore ==
  ASSUME NEW q \in Seq(MsgType), Ordered(q), NEW r \in Seq(MsgType), Ordered(r),
         \A m \in Members(q), n \in Members(r) : Fits(m, n) /\ Follows(m, n)
  PROVE  /\ q \o r \in Seq(MsgType) /\ Ordered(q \o r)
         /\ Members(q \o r) = Members(q) \cup Members(r)
         /\ InTurn(q) /\ InTurn(r) /\ (\A m \in Members(q), n \in Members(r) : Turn(m, n))
            => InTurn(q \o r)
<1> DEFINE s == q \o r
<1>1. /\ Len(q) \in Nat /\ Len(r) \in Nat /\ s \in Seq(MsgType)
      /\ Len(s) = Len(q) + Len(r)
      /\ \A i \in 1..Len(q) : s[i] = q[i]
      /\ \A i \in 1..Len(r) : s[Len(q) + i] = r[i]
  OBVIOUS
<1> HIDE DEF s
<1>2. \A i \in 1..Len(s) : i \in 1..Len(q) \/ (i - Len(q) \in 1..Len(r) /\ s[i] = r[i - Len(q)])
  <2> SUFFICES ASSUME NEW i \in 1..Len(s), i \notin 1..Len(q)
               PROVE  i - Len(q) \in 1..Len(r) /\ s[i] = r[i - Len(q)]
    OBVIOUS
  <2>1. i - Len(q) \in 1..Len(r) /\ Len(q) + (i - Len(q)) = i
    BY <1>1
  <2> QED BY <1>1, <2>1
<1>3. Members(s) = Members(q) \cup Members(r)
  <2>1. \A i \in 1..Len(q) : i \in 1..Len(s)
    BY <1>1
  <2>2. \A i \in 1..Len(r) : Len(q) + i \in 1..Len(s)
    BY <1>1
  <2>3. Members(q) \subseteq Members(s)
    BY <1>1, <2>1 DEF Members
  <2>4. Members(r) \subseteq Members(s)
    BY <1>1, <2>2 DEF Members
  <2>5. Members(s) \subseteq Members(q) \cup Members(r)
    BY <1>1, <1>2 DEF Members
  <2> QED BY <2>3, <2>4, <2>5
<1>4. ASSUME NEW i \in 1..Len(s), NEW j \in 1..Len(s), i < j
      PROVE  \/ /\ i \in 1..Len(q) /\ j \in 1..Len(q) /\ s[i] = q[i] /\ s[j] = q[j]
             \/ s[i] \in Members(q) /\ s[j] \in Members(r)
             \/ /\ i - Len(q) \in 1..Len(r) /\ j - Len(q) \in 1..Len(r)
                /\ i - Len(q) < j - Len(q)
                /\ s[i] = r[i - Len(q)] /\ s[j] = r[j - Len(q)]
  <2>1. CASE i \in 1..Len(q) /\ j \in 1..Len(q)
    BY <1>1, <2>1
  <2>2. CASE i \in 1..Len(q) /\ j \notin 1..Len(q)
    BY <1>1, <1>2, <2>2 DEF Members
  <2>3. CASE i \notin 1..Len(q)
    <3>1. j \notin 1..Len(q)
      BY <1>1, <1>4, <2>3
    <3> QED BY <1>1, <1>2, <1>4, <2>3, <3>1
  <2> QED BY <2>1, <2>2, <2>3
<1>5. Ordered(s)
  <2> SUFFICES ASSUME NEW i \in 1..Len(s), NEW j \in 1..Len(s), i < j
               PROVE  Fits(s[i], s[j]) /\ Follows(s[i], s[j])
    BY DEF Ordered
  <2> QED BY <1>4 DEF Ordered
<1>6. ASSUME InTurn(q), InTurn(r), \A m \in Members(q), n \in Members(r) : Turn(m, n)
      PROVE  InTurn(s)
  <2> SUFFICES ASSUME NEW i \in 1..Len(s), NEW j \in 1..Len(s), i < j
               PROVE  Turn(s[i], s[j])
    BY DEF InTurn
  <2> QED BY <1>4, <1>6 DEF InTurn
<1> QED BY <1>1, <1>3, <1>5, <1>6 DEF s

(* One message, and none.                                                  *)
LEMMA QueueOne ==
  ASSUME NEW n \in MsgType
  PROVE  /\ <<n>> \in Seq(MsgType) /\ Members(<<n>>) = {n}
         /\ Ordered(<<n>>) /\ InTurn(<<n>>)
<1>1. /\ <<n>> \in Seq(MsgType) /\ Len(<<n>>) = 1 /\ <<n>>[1] = n /\ 1..1 = {1}
  OBVIOUS
<1>2. \A i, j \in 1..1 : ~(i < j)
  OBVIOUS
<1> QED BY <1>1, <1>2 DEF Members, Ordered, InTurn

(* An empty queue is in order.                                             *)
LEMMA QueueNone ==
  /\ <<>> \in Seq(MsgType) /\ Members(<<>>) = {} /\ Ordered(<<>>) /\ InTurn(<<>>)
<1>1. <<>> \in Seq(MsgType) /\ Len(<<>>) = 0 /\ 1..0 = {}
  OBVIOUS
<1> QED BY <1>1 DEF Members, Ordered, InTurn

(* A message is appended to what is there.                                 *)
LEMMA QueueAppend ==
  ASSUME NEW q \in Seq(MsgType), NEW n \in MsgType
  PROVE  Append(q, n) = q \o <<n>>
OBVIOUS

(* The messages are what they are made of.                                 *)
LEMMA MessageType ==
  ASSUME NEW what \in Whats, NEW t \in Tracks, NEW unit \in Nat
  PROVE  /\ Message(what, t, unit) \in MsgType /\ Message(what, t, unit).what = what
         /\ Message(what, t, unit).track = t /\ Message(what, t, unit).unit = unit
         /\ Plain(what) = Message(what, "video", EOS) /\ EOS \in Nat /\ "video" \in Tracks
BY DEF Message, MsgType, Plain, EOS, Tracks

(* A message about no track is made as if about the video.                 *)
LEMMA PlainType ==
  ASSUME NEW what \in Whats
  PROVE  /\ Plain(what) \in MsgType /\ Plain(what).what = what
         /\ Plain(what).track = "video" /\ Plain(what).unit = EOS
<1>1. EOS \in Nat /\ "video" \in Tracks
  BY DEF EOS, Tracks
<1> QED BY <1>1 DEF Plain, Message, MsgType

-----------------------------------------------------------------------------
(* What a handler finds, and what a step may leave as it is                *)

(* The message at the head is handled: nothing has failed, and the rest is *)
(* as ordered as it was.                                                   *)
LEMMA Handled ==
  ASSUME IInv, NEW what, Handling(what)
  PROVE  /\ Alive /\ Going /\ queue # <<>> /\ queue \in Seq(MsgType)
         /\ Head(queue) \in MsgType /\ Head(queue) \in Members(queue)
         /\ Head(queue).what = what
         /\ Tail(queue) \in Seq(MsgType) /\ Members(Tail(queue)) \subseteq Members(queue)
         /\ \A m \in Members(queue) : m = Head(queue) \/ m \in Members(Tail(queue))
         /\ Ordered(Tail(queue)) /\ (InTurn(queue) => InTurn(Tail(queue)))
         /\ \A m \in Members(Tail(queue)) : Fits(Head(queue), m) /\ Follows(Head(queue), m)
         /\ InTurn(queue) => \A m \in Members(Tail(queue)) : Turn(Head(queue), m)
<1>1. /\ Alive /\ Going /\ queue # <<>> /\ queue \in Seq(MsgType) /\ Ordered(queue)
      /\ Head(queue).what = what
  BY DEF Handling, IInv, Going, Shape
<1> QED BY <1>1, QueueTail

(* One message is posted, or none.                                         *)
LEMMA PostOne ==
  ASSUME NEW q \in Seq(MsgType), Ordered(q), NEW n \in MsgType,
         \A m \in Members(q) : Fits(m, n) /\ Follows(m, n), queue' = q \o <<n>>
  PROVE  /\ queue' \in Seq(MsgType) /\ Ordered(queue') /\ Members(queue') = Members(q) \cup {n}
         /\ InTurn(q) /\ (\A m \in Members(q) : Turn(m, n)) => InTurn(queue')
<1>1. /\ <<n>> \in Seq(MsgType) /\ Members(<<n>>) = {n} /\ Ordered(<<n>>) /\ InTurn(<<n>>)
  BY QueueOne
<1>2. \A m \in Members(q), k \in Members(<<n>>) : Fits(m, k) /\ Follows(m, k)
  BY <1>1
<1>3. (\A m \in Members(q) : Turn(m, n)) =>
        \A m \in Members(q), k \in Members(<<n>>) : Turn(m, k)
  BY <1>1
<1> QED BY <1>1, <1>2, <1>3, QueueMore

(* Nothing is posted.                                                      *)
LEMMA PostNone ==
  ASSUME NEW q \in Seq(MsgType), queue' = q \o <<>>
  PROVE  queue' = q
OBVIOUS

(* Messages that may come at any time.                                     *)
Aside(n) == \/ n.what \in {"SenderDead", "EncoderActivity", "Error"}
            \/ n.what = "Pulled" /\ n.unit = EOS

(* They fit anywhere in the queue and say nothing of how a track ends.     *)
LEMMA AsideFits ==
  ASSUME NEW m, NEW n, Aside(n)
  PROVE  /\ Fits(m, n) /\ Follows(m, n) /\ Turn(m, n)
         /\ n.what \notin {"FinishPlay", "InitDone", "Shutdown", "MediaPullerStopped",
                           "TrackStopped", "SessionDestroyed", "AccessUnit", "EOS"}
<1>1. n.what \notin {"FinishPlay", "InitDone", "Shutdown", "MediaPullerStopped",
                     "TrackStopped", "SessionDestroyed", "AccessUnit", "EOS"}
  BY DEF Aside
<1>2. n.what = "Pulled" => n.unit = EOS
  BY DEF Aside
<1> QED BY <1>1, <1>2 DEF Fits, Follows, Turn, Is, Ends, Yields

(* The tracks, their pullers and their converters are as far as they were. *)
SteadyTracks ==
  /\ UNCHANGED <<mTracks, destroying>>
  /\ \A t \in Tracks :
       /\ track'[t].mStarted = track[t].mStarted
       /\ track'[t].mConverter = track[t].mConverter
       /\ puller'[t].started = puller[t].started
       /\ puller'[t].mPullGeneration = puller[t].mPullGeneration
       /\ ToldToStop(t)' <=> ToldToStop(t)
       /\ t \notin mTracks => puller'[t].doing = puller[t].doing
       /\ converter'[t].mEncoder = converter[t].mEncoder
       /\ ~converter[t].mEncoder \/ t \notin mTracks =>
            converter'[t].inputs = converter[t].inputs

(* The messages that end tracks stay, and there are no more of them.       *)
SteadyQueue ==
  /\ \A m \in Members(queue') : m \in Members(queue) \/
       /\ m.what \notin {"MediaPullerStopped", "TrackStopped", "SessionDestroyed"}
       /\ \A t \in Tracks : Yields(m, t) => t \in mTracks
  /\ \A m \in Members(queue) : m \in Members(queue') \/
       m.what \notin {"Shutdown", "MediaPullerStopped", "TrackStopped"}
  /\ InTurn(queue) => InTurn(queue')

(* Each part of the control is kept by a step of that kind.                *)
LEMMA UndisturbedKept ==
  ASSUME Undisturbed, mTracks \subseteq Tracks, SteadyTracks, SteadyQueue,
         mSender' # "none" \/ destroying, registered' = registered \/ mTracks = {}
  PROVE  Undisturbed'
<1> SUFFICES ASSUME ~destroying
             PROVE  /\ "video" \in mTracks /\ mSender' # "none" /\ registered'
                    /\ ~Posted("SessionDestroyed")'
                    /\ \A t \in Tracks :
                         /\ track'[t].mConverter /\ track'[t].mStarted = puller'[t].started
                         /\ puller'[t].mPullGeneration = 0
                    /\ \A t \in mTracks : track'[t].mStarted = track'["video"].mStarted
  BY DEF SteadyTracks, Undisturbed
<1>1. ~Posted("SessionDestroyed")'
  BY DEF Undisturbed, SteadyQueue, Posted
<1>2. "video" \in Tracks
  BY DEF Tracks
<1>3. \A t \in Tracks : /\ track'[t].mConverter /\ track'[t].mStarted = puller'[t].started
                        /\ puller'[t].mPullGeneration = 0
                        /\ track'[t].mStarted = track[t].mStarted
  BY DEF Undisturbed, SteadyTracks
<1>4. \A t \in mTracks : track'[t].mStarted = track'["video"].mStarted
  BY <1>2, <1>3 DEF Undisturbed
<1> QED BY <1>1, <1>3, <1>4 DEF Undisturbed

(* How the tracks end is kept by a step of that kind.                      *)
LEMMA StopsKept ==
  ASSUME StopsInOrder, SteadyTracks, SteadyQueue, registered' = registered \/ mTracks = {}
  PROVE  StopsInOrder'
<1> SUFFICES ASSUME NEW t \in Tracks
             PROVE  /\ ToldToStop(t)' => puller'[t].started /\ ~Ending(t)'
                    /\ ToldToStop(t)' \/ Ending(t)' => destroying' /\ t \in mTracks'
                    /\ Queued("TrackStopped", t)' => ~track'[t].mConverter
                    /\ destroying' /\ t \in mTracks' =>
                         /\ Queued("Shutdown", t)' \/ ~converter'[t].mEncoder
                         /\ puller'[t].mPullGeneration = 0 => ToldToStop(t)' \/ Ending(t)'
                    /\ ~track'[t].mConverter => ~converter'[t].mEncoder
                    /\ ~converter'[t].mEncoder => converter'[t].inputs = <<>>
                    /\ \A m \in Members(queue') : Yields(m, t) => t \in mTracks'
                    /\ t \notin mTracks' => /\ converter'[t].inputs = <<>>
                                            /\ puller'[t].doing = "idle"
                                            /\ ~puller'[t].started
                    /\ t \in mTracks' => registered' /\ ~Posted("SessionDestroyed")'
  BY DEF StopsInOrder
<1>1. Ending(t)' <=> Ending(t)
  BY DEF SteadyQueue, Ending, Ends
<1>2. Queued("TrackStopped", t)' => Queued("TrackStopped", t)
  BY DEF SteadyQueue, Queued, Is
<1>3. Queued("Shutdown", t) => Queued("Shutdown", t)'
  BY DEF SteadyQueue, Queued, Is
<1>4. \A m \in Members(queue') : Yields(m, t) => t \in mTracks
  BY DEF SteadyQueue, StopsInOrder
<1>5. Posted("SessionDestroyed")' => Posted("SessionDestroyed")
  BY DEF SteadyQueue, Posted
<1>6. t \in mTracks => registered' /\ ~Posted("SessionDestroyed")'
  BY <1>5 DEF StopsInOrder
<1> QED BY <1>1, <1>2, <1>3, <1>4, <1>6 DEF StopsInOrder, SteadyTracks

(* So is that no track gets away.                                          *)
LEMMA NoneKept ==
  ASSUME NoneRunsAway, SteadyTracks, SteadyQueue
  PROVE  NoneRunsAway'
<1>1. "audio" \in Tracks /\ "video" \in Tracks
  BY DEF Tracks
<1>2. Untold' => Untold
  BY <1>1 DEF Untold, SteadyTracks
<1>3. Queued("MediaPullerStopped", "audio")' => Queued("MediaPullerStopped", "audio")
  BY DEF SteadyQueue, Queued, Is
<1> QED BY <1>1, <1>2, <1>3 DEF NoneRunsAway, SteadyTracks, SteadyQueue

(* Nothing is begun again.                                                 *)
LEMMA StartsKept ==
  ASSUME StartsOnce, UNCHANGED finishPlay, mSender' \in {mSender, "none"},
         Posted("FinishPlay")' => Posted("FinishPlay"),
         Posted("InitDone")' => Posted("InitDone"),
         \A t \in Tracks :
           /\ track'[t].mStarted => track[t].mStarted
           /\ puller'[t].started => puller[t].started
           /\ puller[t].started \/ puller'[t].mPullGeneration = puller[t].mPullGeneration
  PROVE  StartsOnce'
<1>1. Unready' => Unready
  BY DEF Unready
<1> QED BY <1>1 DEF StartsOnce

(* Units only get lost, and nothing is sent.                               *)
LEMMA CarriedKept ==
  ASSUME Carried,
         UNCHANGED <<sent, passed, mAllTracksHavePacketizerIndex, clock, usePCMAudio>>,
         mTracks' \subseteq mTracks, mTracks \subseteq Tracks,
         \A t \in Tracks :
           /\ track'[t].mQueuedAccessUnits \subseteq track[t].mQueuedAccessUnits
           /\ track'[t].mQueuedOutputBuffers \subseteq track[t].mQueuedOutputBuffers
           /\ track'[t].mPacketizerTrackIndex = track[t].mPacketizerTrackIndex
           /\ converter'[t].inputs \in {converter[t].inputs, <<>>},
         \A m \in Members(queue') : m \in Members(queue) \/
           (m.what # "AccessUnit" /\ (m.what = "Pulled" => m.unit = EOS))
  PROVE  Carried'
<1>1. ASSUME NEW t \in Tracks
      PROVE  /\ Held(t)' \subseteq Held(t) /\ Access(t)' \subseteq Access(t)
             /\ Input(t)' \subseteq Input(t) /\ Pulls(t)' \subseteq Pulls(t)
             /\ Rising(converter[t].inputs) => Rising(converter'[t].inputs)
  <2>1. Held(t)' \subseteq Held(t)
    BY DEF Held
  <2>2. Access(t)' \subseteq Access(t)
    BY DEF Access, Is
  <2>3. Pulls(t)' \subseteq Pulls(t)
    BY DEF Pulls, Is
  <2>4. Members(<<>>) = {} /\ Rising(<<>>)
    BY QueueNone DEF Rising
  <2>5. Input(t)' \subseteq Input(t)
    BY <2>4 DEF Input
  <2> QED BY <2>1, <2>2, <2>3, <2>4, <2>5
<1>2. InLine'
  BY <1>1 DEF Carried, InLine, Below, Encodes
<1>3. Apart'
  BY <1>1 DEF Carried, Apart, Own
<1>4. \A t \in Tracks : Coming(t)' \subseteq Coming(t)
  BY <1>1 DEF Coming
<1>5. Merged'
  BY <1>4 DEF Carried, Merged, Below
<1> QED BY <1>2, <1>3, <1>5 DEF Carried

(* The control of the session goes on as it was.                           *)
LEMMA ControlledKept ==
  ASSUME IInv, Alive, EndsByFault', SteadyTracks, SteadyQueue,
         UNCHANGED <<finishPlay, mSender>>, registered' = registered \/ mTracks = {},
         \A m \in Members(queue') : m \in Members(queue) \/
           m.what \notin {"FinishPlay", "InitDone"}
  PROVE  Controlled'
<1>1. Controlled /\ mTracks \subseteq Tracks
  BY DEF IInv, Shape, Going
<1>2. StartsOnce'
  <2>1. (Posted("FinishPlay")' => Posted("FinishPlay"))
        /\ (Posted("InitDone")' => Posted("InitDone"))
    BY DEF Posted
  <2> QED BY <1>1, <2>1, StartsKept DEF Controlled, SteadyTracks
<1>3. Undisturbed'
  <2>1. mSender' # "none" \/ destroying
    BY <1>1 DEF Controlled, Undisturbed
  <2> QED BY <1>1, <2>1, UndisturbedKept DEF Controlled
<1>4. StopsInOrder' /\ NoneRunsAway'
  BY <1>1, StopsKept, NoneKept DEF Controlled
<1> QED BY <1>2, <1>3, <1>4 DEF Controlled

(* A step that does not touch what the invariant is about.                 *)
LEMMA QuietStep ==
  ASSUME IInv, Alive, aborted' = "none", Shape', PullersStopOnce', EndsByFault',
         Ordered(queue'), SteadyTracks, SteadyQueue,
         UNCHANGED <<finishPlay, mSender, sent, passed, mAllTracksHavePacketizerIndex,
                     clock, track, usePCMAudio>>,
         registered' = registered \/ mTracks = {},
         \A t \in Tracks : converter'[t].inputs \in {converter[t].inputs, <<>>},
         \A m \in Members(queue') : m \in Members(queue) \/ Aside(m)
  PROVE  IInv'
<1>1. Going /\ mTracks \subseteq Tracks
  BY DEF IInv, Shape
<1>2. \A m \in Members(queue') : m \in Members(queue) \/
        /\ m.what \notin {"FinishPlay", "InitDone", "AccessUnit"}
        /\ m.what = "Pulled" => m.unit = EOS
  BY AsideFits DEF Aside
<1>3. Controlled'
  BY <1>2, ControlledKept
<1>4. Carried'
  BY <1>1, <1>2, CarriedKept DEF Going, SteadyTracks
<1>5. ChecksHold'
  BY DEF ChecksHold
<1> QED BY <1>3, <1>4, <1>5 DEF IInv, Going

(* The queue after such a step.                                            *)
LEMMA AsideQueue ==
  ASSUME IInv, Alive, NEW q \in {queue, Tail(queue)}, NEW r \in Seq(MsgType),
         q # queue => queue # <<>> /\ Head(queue).what \notin
                        {"Shutdown", "MediaPullerStopped", "TrackStopped"},
         r = <<>> \/ \E n \in MsgType : r = <<n>> /\ Aside(n),
         queue' = q \o r
  PROVE  /\ queue' \in Seq(MsgType) /\ Ordered(queue') /\ SteadyQueue
         /\ \A m \in Members(queue') : m \in Members(queue) \/ Aside(m)
<1>1. queue \in Seq(MsgType) /\ Ordered(queue)
  BY DEF IInv, Shape, Going
<1>2. /\ q \in Seq(MsgType) /\ Ordered(q) /\ Members(q) \subseteq Members(queue)
      /\ InTurn(queue) => InTurn(q)
      /\ \A m \in Members(queue) : m \in Members(q) \/
           m.what \notin {"Shutdown", "MediaPullerStopped", "TrackStopped"}
  BY <1>1, QueueTail
<1>3. /\ queue' \in Seq(MsgType) /\ Ordered(queue') /\ (InTurn(q) => InTurn(queue'))
      /\ Members(q) \subseteq Members(queue')
      /\ \A m \in Members(queue') : m \in Members(q) \/ Aside(m)
  <2>1. CASE r = <<>>
    BY <1>2, <2>1, PostNone
  <2>2. ASSUME NEW n \in MsgType, r = <<n>>, Aside(n)
        PROVE  /\ queue' \in Seq(MsgType) /\ Ordered(queue')
               /\ (InTurn(q) => InTurn(queue')) /\ Members(q) \subseteq Members(queue')
               /\ \A m \in Members(queue') : m \in Members(q) \/ Aside(m)
    <3>1. \A m \in Members(q) : Fits(m, n) /\ Follows(m, n) /\ Turn(m, n)
      BY <2>2, AsideFits
    <3> QED BY <1>2, <2>2, <3>1, PostOne
  <2> QED BY <2>1, <2>2
<1>4. \A m \in Members(queue') : m \in Members(queue) \/
        /\ m.what \notin {"MediaPullerStopped", "TrackStopped", "SessionDestroyed"}
        /\ \A t \in Tracks : ~Yields(m, t)
  BY <1>2, <1>3, AsideFits DEF Yields
<1> QED BY <1>2, <1>3, <1>4 DEF SteadyQueue

(* The process dies.                                                       *)
LEMMA AbortStep ==
  ASSUME IInv, aborted' # "none", queue' \in Seq(MsgType), ChecksHold',
         UNCHANGED <<track, media, settings, sender, session, counts, history>>
  PROVE  IInv'
<1>1. UNCHANGED <<plan, track, converter, puller, repeater, sent, mTracks, mSender, clock,
                  faults>>
  BY DEF media, settings, sender, session, counts, history
<1>2. Shape'
  BY <1>1 DEF IInv, Shape
<1>3. PullersStopOnce'
  BY <1>1 DEF IInv, PullersStopOnce
<1> QED BY <1>2, <1>3 DEF IInv, Alive

(* The pullers are as they were.                                           *)
LEMMA PullersKept ==
  ASSUME IInv, UNCHANGED puller
  PROVE  PullersStopOnce' /\ \A t \in Tracks : ToldToStop(t)' <=> ToldToStop(t)
BY DEF IInv, PullersStopOnce, ToldToStop

(* So are the tracks and the converters.                                   *)
LEMMA TracksKept ==
  ASSUME IInv, UNCHANGED <<mTracks, destroying, track, puller, converter>>
  PROVE  SteadyTracks /\ PullersStopOnce'
BY PullersKept DEF SteadyTracks

(* Faults are counted.                                                     *)
LEMMA FaultsKept ==
  ASSUME IInv, Alive, faults' \in Nat, faults' >= faults,
         \A t \in Tracks : converter'[t].inputs \in {converter[t].inputs, <<>>},
         \A m \in Members(queue') : m \in Members(queue) \/
           m.what \notin {"EOS", "Pulled"} \/ faults' > 0
  PROVE  EndsByFault'
<1>1. faults \in Nat /\ EndsByFault /\ plan.faults \in Nat
  BY PlansAssumption DEF IInv, Shape, Going, Controlled
<1>2. faults > 0 => faults' > 0
  BY <1>1
<1>3. Members(<<>>) = {}
  BY QueueNone
<1> QED BY <1>1, <1>2, <1>3 DEF EndsByFault

(* The bounds are numbers, and the counters within them.                   *)
LEMMA FaultType ==
  ASSUME IInv
  PROVE  /\ plan.faults \in Nat /\ plan.units \in Nat /\ faults \in Nat /\ clock \in Nat
         /\ faults <= plan.faults /\ clock <= plan.units
         /\ Fault => /\ faults' \in 0..plan.faults /\ faults' \in Nat
                     /\ faults' > 0 /\ faults' >= faults
<1>1. /\ plan.faults \in Nat /\ plan.units \in Nat /\ faults \in 0..plan.faults
      /\ clock \in 0..plan.units
  BY PlansAssumption DEF IInv, Shape
<1> QED BY <1>1 DEF Fault, MayFail

-----------------------------------------------------------------------------
(* Steps of little consequence                                             *)

(* The types, when only messages and the repeater change.                  *)
LEMMA ShapeKept ==
  ASSUME IInv, UNCHANGED <<plan, usePCMAudio, track, converter, puller, sent, mTracks, mSender,
                           clock>>,
         repeater' \in [frame : {"none", "fresh", "stale"}, mStartTimeUs : BOOLEAN],
         queue' \in Seq(MsgType), faults' \in 0..plan.faults
  PROVE  Shape'
BY DEF IInv, Shape

(* The screen moves, or a frame is asked for.                              *)
LEMMA WakeUpType ==
  ASSUME IInv
  PROVE  WakeUp \in [frame : {"none", "fresh", "stale"}, mStartTimeUs : BOOLEAN]
BY DEF IInv, Shape, WakeUp

(* What is left to do when only messages and the repeater change.          *)
LEMMA AsideStep ==
  ASSUME IInv, Alive, NEW q \in {queue, Tail(queue)}, NEW r \in Seq(MsgType),
         q # queue => queue # <<>> /\ Head(queue).what \notin
                        {"Shutdown", "MediaPullerStopped", "TrackStopped"},
         r = <<>> \/ \E n \in MsgType : r = <<n>> /\ Aside(n) /\ n.what # "Pulled",
         queue' = q \o r, faults' \in 0..plan.faults, faults' >= faults,
         UNCHANGED <<plan, usePCMAudio, track, converter, puller, sent, mTracks, mSender, clock,
                     finishPlay, passed, mAllTracksHavePacketizerIndex, aborted, destroying>>,
         repeater' \in [frame : {"none", "fresh", "stale"}, mStartTimeUs : BOOLEAN],
         registered' = registered \/ mTracks = {}
  PROVE  IInv'
<1>1. /\ queue' \in Seq(MsgType) /\ Ordered(queue') /\ SteadyQueue
      /\ \A m \in Members(queue') : m \in Members(queue) \/ Aside(m)
  BY AsideQueue
<1>2. Shape'
  BY <1>1, ShapeKept
<1>3. SteadyTracks /\ PullersStopOnce'
  BY TracksKept
<1>4. EndsByFault'
  <2>1. queue \in Seq(MsgType) /\ Ordered(queue)
    BY DEF IInv, Shape, Going
  <2>2. q \in Seq(MsgType) /\ Ordered(q) /\ Members(q) \subseteq Members(queue)
    BY <2>1, QueueTail
  <2>3. \A m \in Members(queue') : m \in Members(queue) \/ m.what \notin {"EOS", "Pulled"}
    <3>1. CASE r = <<>>
      BY <2>2, <3>1, PostNone
    <3>2. ASSUME NEW n \in MsgType, r = <<n>>, Aside(n), n.what # "Pulled"
          PROVE  \A m \in Members(queue') : m \in Members(q) \/ m.what \notin {"EOS", "Pulled"}
      <4>1. \A m \in Members(q) : Fits(m, n) /\ Follows(m, n)
        BY <3>2, AsideFits
      <4>2. Members(queue') = Members(q) \cup {n}
        BY <2>2, <3>2, <4>1, PostOne
      <4> QED BY <3>2, <4>2 DEF Aside
    <3> QED BY <2>2, <3>1, <3>2
  <2>4. faults' \in Nat
    BY FaultType
  <2> QED BY <2>3, <2>4, FaultsKept
<1>5. aborted' = "none"
  BY DEF Alive
<1> QED BY <1>1, <1>2, <1>3, <1>4, <1>5, QuietStep

(* RequestIDRFrame wakes the repeater up, or finds no converter.           *)
LEMMA RequestIDRFrameStep ==
  ASSUME IInv, RequestIDRFrame
  PROVE  IInv'
<1>1. /\ Alive /\ registered /\ "video" \in mTracks /\ UNCHANGED queue
  BY DEF RequestIDRFrame
<1>2. CASE HasConverter("video")
  <2>1. /\ repeater' = WakeUp
        /\ UNCHANGED <<track, converter, puller, settings, sender, session, aborted, counts,
                       history>>
    BY <1>2 DEF RequestIDRFrame
  <2>2. UNCHANGED <<plan, usePCMAudio, sent, mTracks, mSender, clock, faults, finishPlay, passed, registered,
                    mAllTracksHavePacketizerIndex, destroying>>
    BY <2>1 DEF settings, sender, session, counts, history
  <2>3. queue \in Seq(MsgType) /\ queue' = queue \o <<>> /\ <<>> \in Seq(MsgType)
    BY <1>1, QueueNone DEF IInv, Shape
  <2>4. faults' \in 0..plan.faults /\ faults' >= faults
    BY <2>2, FaultType
  <2>5. registered' = registered \/ mTracks = {}
    BY <2>2
  <2> QED BY <1>1, <2>1, <2>2, <2>3, <2>4, <2>5, WakeUpType, AsideStep
<1>3. CASE ~HasConverter("video")
  <2>1. /\ aborted' = "requestIDRFrame"
        /\ UNCHANGED <<track, media, settings, sender, session, counts, history>>
    BY <1>3 DEF RequestIDRFrame, Abort
  <2>2. destroying /\ queue' \in Seq(MsgType)
    BY <1>1, <1>3 DEF IInv, Shape, Going, Controlled, Undisturbed, HasConverter, Tracks
  <2>3. ChecksHold'
    BY <2>1, <2>2 DEF ChecksHold, session
  <2> QED BY <2>1, <2>2, <2>3, AbortStep
<1> QED BY <1>2, <1>3

(* The connection of the sender fails.                                     *)
LEMMA SenderFailsStep ==
  ASSUME IInv, SenderFails
  PROVE  IInv'
<1>1. /\ Alive /\ Fault /\ queue' = Append(queue, Plain("SenderDead"))
      /\ UNCHANGED <<track, media, settings, sender, session, aborted, clock, history>>
  BY DEF SenderFails
<1>2. UNCHANGED <<plan, usePCMAudio, track, converter, puller, repeater, sent, mTracks,
                  mSender, clock, finishPlay, passed, registered, mAllTracksHavePacketizerIndex, destroying>>
  BY <1>1 DEF media, settings, sender, session, history
<1> DEFINE n == Plain("SenderDead")
<1>3. n \in MsgType /\ Aside(n) /\ n.what # "Pulled"
  <2>1. "SenderDead" \in Whats
    BY DEF Whats
  <2> QED BY <2>1, PlainType DEF Aside
<1> HIDE DEF n
<1>4. <<n>> \in Seq(MsgType) /\ queue' = queue \o <<n>>
  BY <1>1, <1>3, QueueOne, QueueAppend DEF IInv, Shape, n
<1>5. faults' \in 0..plan.faults /\ faults' >= faults
  BY <1>1, FaultType
<1>6. registered' = registered \/ mTracks = {}
  BY <1>2
<1>7. repeater' \in [frame : {"none", "fresh", "stale"}, mStartTimeUs : BOOLEAN]
  BY <1>2 DEF IInv, Shape
<1> QED BY <1>1, <1>2, <1>3, <1>4, <1>5, <1>6, <1>7, AsideStep

(* A handler that at most notes that the session is dead, or dropped.      *)
LEMMA NoteStep ==
  ASSUME IInv, NEW what \in {"SenderDead", "Error", "EOS", "SessionDestroyed", "InitDone",
                             "AccessUnit", "Pulled", "FinishPlay"},
         Handling(what), Done(<<>>), registered' = registered \/ mTracks = {},
         UNCHANGED <<track, media, settings, sender, mTracks, mAllTracksHavePacketizerIndex,
                     destroying, aborted, counts, history>>
  PROVE  IInv'
<1>1. /\ Alive /\ queue # <<>> /\ Head(queue).what = what /\ queue' = Tail(queue) \o <<>>
  BY DEF Handling, Done
<1>2. UNCHANGED <<plan, usePCMAudio, track, converter, puller, repeater, sent, mTracks,
                  mSender, clock, faults, finishPlay, passed>>
  BY DEF media, settings, sender, counts, history
<1>3. faults' \in 0..plan.faults /\ faults' >= faults
  BY <1>2, FaultType
<1>4. repeater' \in [frame : {"none", "fresh", "stale"}, mStartTimeUs : BOOLEAN]
  BY <1>2 DEF IInv, Shape
<1> QED BY <1>1, <1>2, <1>3, <1>4, QueueNone, AsideStep

(* The session takes note of a failure.                                    *)
LEMMA SenderDeadStep ==
  ASSUME IInv, OnSenderDead \/ OnError
  PROVE  IInv'
<1>1. registered' = registered \/ mTracks = {}
  BY DEF OnSenderDead, OnError
<1> QED BY <1>1, NoteStep DEF OnSenderDead, OnError

(* The source drops the session, which has no tracks left.                 *)
LEMMA SessionDestroyedStep ==
  ASSUME IInv, OnSessionDestroyed
  PROVE  IInv'
<1>1. /\ Handling("SessionDestroyed") /\ Done(<<>>)
      /\ UNCHANGED <<track, media, settings, sender, mTracks, mAllTracksHavePacketizerIndex,
                     destroying, aborted, counts, history>>
  BY DEF OnSessionDestroyed
<1>2. mTracks = {}
  <2>1. Posted("SessionDestroyed") /\ StopsInOrder /\ mTracks \subseteq Tracks
    BY <1>1, Handled DEF IInv, Shape, Going, Controlled, Posted
  <2> QED BY <2>1 DEF StopsInOrder
<1> QED BY <1>1, <1>2, NoteStep

(* The end of a source is not survived: it has failed before.              *)
LEMMA EOSStep ==
  ASSUME IInv, OnEOS
  PROVE  IInv'
<1>1. Handling("EOS") /\ Done(<<>>)
  BY DEF OnEOS
<1>2. /\ Alive /\ Going /\ Head(queue) \in Members(queue) /\ Head(queue).what = "EOS"
      /\ Tail(queue) \in Seq(MsgType) /\ Head(queue) \in MsgType
  BY <1>1, Handled
<1> DEFINE t == Head(queue).track
<1>3. CASE UNCHANGED <<track, media, settings, sender, session, aborted, counts, history>>
  BY <1>1, <1>3, NoteStep DEF session
<1>4. CASE Abort(IF ~HasConverter(t) THEN "EOS" ELSE "~Track")
  <2>1. /\ aborted' = IF ~HasConverter(t) THEN "EOS" ELSE "~Track"
        /\ UNCHANGED <<track, media, settings, sender, session, counts, history>>
    BY <1>4 DEF Abort
  <2>2. queue' \in Seq(MsgType)
    BY <1>1, <1>2, PostNone DEF Done
  <2>3. faults > 0
    BY <1>2 DEF Going, Controlled, EndsByFault
  <2>4. t \in Tracks /\ t \in mTracks
    BY <1>2 DEF MsgType, Going, Controlled, StopsInOrder, Yields
  <2>5. ~HasConverter(t) => destroying
    BY <1>2, <2>4 DEF Going, Controlled, Undisturbed, HasConverter
  <2>6. ChecksHold'
    BY <2>1, <2>3, <2>5 DEF ChecksHold, session, counts
  <2>7. aborted' # "none"
    BY <2>1
  <2> QED BY <2>1, <2>2, <2>6, <2>7, AbortStep
<1> QED BY <1>3, <1>4 DEF OnEOS

(* The encoder tells that it has done something.                           *)
LEMMA EncoderActivityStep ==
  ASSUME IInv, NEW t \in Tracks, EncoderActivity(t)
  PROVE  IInv'
<1> DEFINE n == Message("EncoderActivity", t, EOS)
<1>1. /\ Alive /\ queue' = Append(queue, n)
      /\ UNCHANGED <<track, media, settings, sender, session, aborted, counts, history>>
  BY DEF EncoderActivity
<1>2. UNCHANGED <<plan, usePCMAudio, track, converter, puller, repeater, sent, mTracks,
                  mSender, clock, faults, finishPlay, passed, registered, mAllTracksHavePacketizerIndex,
                  destroying>>
  BY <1>1 DEF media, settings, sender, session, counts, history
<1>3. n \in MsgType /\ Aside(n) /\ n.what # "Pulled"
  BY MessageType DEF Whats, Aside
<1> HIDE DEF n
<1>4. <<n>> \in Seq(MsgType) /\ queue' = queue \o <<n>>
  BY <1>1, <1>3, QueueOne, QueueAppend DEF IInv, Shape
<1>5. faults' \in 0..plan.faults /\ faults' >= faults
  BY <1>2, FaultType
<1>6. registered' = registered \/ mTracks = {}
  BY <1>2
<1>7. repeater' \in [frame : {"none", "fresh", "stale"}, mStartTimeUs : BOOLEAN]
  BY <1>2 DEF IInv, Shape
<1> QED BY <1>1, <1>2, <1>3, <1>4, <1>5, <1>6, <1>7, AsideStep

-----------------------------------------------------------------------------
(* The pullers                                                             *)

(* The first message of a puller's queue is handled.                       *)
LEMMA PullQueueTail ==
  ASSUME NEW q \in Seq(PullType), q # <<>>, OneStop(q)
  PROVE  /\ Head(q)[1] \in {"Pull", "Stop"} /\ Head(q)[2] = 0
         /\ Tail(q) \in Seq(PullType) /\ OneStop(Tail(q))
         /\ Stops(q) <=> Head(q)[1] = "Stop" \/ Stops(Tail(q))
         /\ Head(q)[1] = "Stop" => ~Stops(Tail(q))
<1>1. /\ Len(q) \in Nat \ {0} /\ Head(q) = q[1] /\ Head(q) \in PullType
      /\ Tail(q) \in Seq(PullType) /\ Len(Tail(q)) = Len(q) - 1
      /\ \A i \in 1..Len(Tail(q)) : Tail(q)[i] = q[i+1] /\ i+1 \in 1..Len(q)
  OBVIOUS
<1>2. \A i \in 1..Len(q) : i = 1 \/ (i-1 \in 1..Len(Tail(q)) /\ Tail(q)[i-1] = q[i])
  <2> SUFFICES ASSUME NEW i \in 1..Len(q), i # 1
               PROVE  i-1 \in 1..Len(Tail(q)) /\ Tail(q)[i-1] = q[i]
    OBVIOUS
  <2>1. i-1 \in 1..Len(Tail(q)) /\ (i-1)+1 = i
    BY <1>1
  <2> QED BY <1>1, <2>1
<1>3. 1 \in 1..Len(q) /\ \A i \in 1..Len(Tail(q)) : i+1 # 1
  BY <1>1
<1>4. OneStop(Tail(q))
  <2> SUFFICES ASSUME NEW i \in 1..Len(Tail(q)), NEW j \in 1..Len(Tail(q)),
                      Tail(q)[i][1] = "Stop", Tail(q)[j][1] = "Stop"
               PROVE  i = j
    BY DEF OneStop
  <2>1. i+1 = j+1
    BY <1>1 DEF OneStop
  <2> QED BY <2>1
<1>5. Stops(Tail(q)) => Stops(q)
  BY <1>1 DEF Stops
<1>6. Stops(q) => Head(q)[1] = "Stop" \/ Stops(Tail(q))
  BY <1>1, <1>2 DEF Stops
<1>7. Head(q)[1] = "Stop" => Stops(q)
  BY <1>1, <1>3 DEF Stops
<1>8. Head(q)[1] = "Stop" => ~Stops(Tail(q))
  BY <1>1, <1>3 DEF Stops, OneStop
<1> QED BY <1>1, <1>4, <1>5, <1>6, <1>7, <1>8 DEF PullType

(* A pull is posted to a puller.                                           *)
LEMMA PullQueueAppend ==
  ASSUME NEW q \in Seq(PullType), OneStop(q), NEW do \in {"Pull", "Stop"},
         do = "Stop" => ~Stops(q)
  PROVE  /\ Append(q, <<do, 0>>) \in Seq(PullType) /\ OneStop(Append(q, <<do, 0>>))
         /\ Stops(Append(q, <<do, 0>>)) <=> do = "Stop" \/ Stops(q)
         /\ Append(q, <<do, 0>>) # <<>>
<1> DEFINE s == Append(q, <<do, 0>>)
<1>1. /\ Len(q) \in Nat /\ s \in Seq(PullType) /\ Len(s) = Len(q) + 1
      /\ s[Len(q) + 1] = <<do, 0>> /\ \A i \in 1..Len(q) : s[i] = q[i]
  BY DEF PullType
<1>2. /\ \A i \in 1..Len(s) : i \in 1..Len(q) \/ i = Len(q) + 1
      /\ \A i \in 1..Len(q) : i \in 1..Len(s)
      /\ Len(q) + 1 \in 1..Len(s) /\ s # <<>>
  BY <1>1
<1>3. s[Len(q) + 1][1] = do
  BY <1>1
<1> HIDE DEF s
<1>4. Stops(s) <=> do = "Stop" \/ Stops(q)
  BY <1>1, <1>2, <1>3 DEF Stops
<1>5. OneStop(s)
  <2> SUFFICES ASSUME NEW i \in 1..Len(s), NEW j \in 1..Len(s),
                      s[i][1] = "Stop", s[j][1] = "Stop"
               PROVE  i = j
    BY DEF OneStop
  <2>1. CASE do = "Stop"
    <3>1. i = Len(q) + 1 /\ j = Len(q) + 1
      BY <1>1, <1>2, <2>1 DEF Stops
    <3> QED BY <3>1
  <2>2. CASE do # "Stop"
    <3>1. i \in 1..Len(q) /\ j \in 1..Len(q)
      BY <1>2, <1>3, <2>2
    <3> QED BY <1>1, <3>1 DEF OneStop
  <2> QED BY <2>1, <2>2
<1> QED BY <1>1, <1>2, <1>4, <1>5 DEF s

(* One puller changes.                                                     *)
PullerIs(t, p) == puller' = [puller EXCEPT ![t] = p]

(* One puller changes, the others do not.                                  *)
LEMMA PullerChanges ==
  ASSUME IInv, NEW t \in Tracks, NEW p \in PullerType, PullerIs(t, p),
         p.started => p.mPullGeneration = 0,
         p.doing # "idle" => p.started,
         p.queue # <<>> /\ p.mPullGeneration = 0 => p.started,
         OneStop(p.queue), p.doing = "stopping" => ~Stops(p.queue)
  PROVE  /\ PullersStopOnce' /\ puller' \in [Tracks -> PullerType]
         /\ puller'[t] = p /\ \A k \in Tracks \ {t} : puller'[k] = puller[k]
         /\ ToldToStop(t)' <=> p.doing = "stopping" \/ Stops(p.queue)
         /\ \A k \in Tracks \ {t} : ToldToStop(k)' <=> ToldToStop(k)
<1>1. /\ puller \in [Tracks -> PullerType] /\ puller' \in [Tracks -> PullerType]
      /\ puller'[t] = p /\ \A k \in Tracks \ {t} : puller'[k] = puller[k]
  BY DEF IInv, Shape, PullerIs
<1>2. \A k \in Tracks \ {t} : ToldToStop(k)' <=> ToldToStop(k)
  BY <1>1 DEF ToldToStop
<1>3. ToldToStop(t)' <=> p.doing = "stopping" \/ Stops(p.queue)
  BY <1>1 DEF ToldToStop
<1>4. PullersStopOnce'
  <2> SUFFICES ASSUME NEW k \in Tracks
               PROVE  /\ puller'[k].started => puller'[k].mPullGeneration = 0
                      /\ puller'[k].doing # "idle" => puller'[k].started
                      /\ puller'[k].queue # <<>> /\ puller'[k].mPullGeneration = 0 =>
                           puller'[k].started
                      /\ OneStop(puller'[k].queue)
                      /\ puller'[k].doing = "stopping" => ~Stops(puller'[k].queue)
    BY DEF PullersStopOnce
  <2>1. CASE k = t
    BY <1>1, <2>1
  <2>2. CASE k # t
    BY <1>1, <2>2 DEF IInv, PullersStopOnce
  <2> QED BY <2>1, <2>2
<1> QED BY <1>1, <1>2, <1>3, <1>4

(* It goes on, told to stop or not as it was.                              *)
LEMMA PullerGoesOn ==
  ASSUME IInv, NEW t \in Tracks, NEW p \in PullerType, PullerIs(t, p),
         p.started = puller[t].started, p.mPullGeneration = puller[t].mPullGeneration,
         p.doing # "idle" => p.started,
         p.queue # <<>> => puller[t].queue # <<>> \/ p.started,
         OneStop(p.queue), p.doing = "stopping" => ~Stops(p.queue),
         p.doing = "stopping" \/ Stops(p.queue) <=> ToldToStop(t),
         Alive, UNCHANGED <<mTracks, destroying, track, converter>>
  PROVE  SteadyTracks /\ PullersStopOnce' /\ puller' \in [Tracks -> PullerType]
<1>1. /\ puller[t].started => puller[t].mPullGeneration = 0
      /\ puller[t].queue # <<>> /\ puller[t].mPullGeneration = 0 => puller[t].started
      /\ t \notin mTracks => puller[t].doing = "idle" /\ ~puller[t].started
  BY DEF IInv, PullersStopOnce, Going, Controlled, StopsInOrder
<1>2. /\ PullersStopOnce' /\ puller' \in [Tracks -> PullerType]
      /\ puller'[t] = p /\ \A k \in Tracks \ {t} : puller'[k] = puller[k]
      /\ \A k \in Tracks : ToldToStop(k)' <=> ToldToStop(k)
  BY <1>1, PullerChanges
<1>3. \A k \in Tracks : /\ puller'[k].started = puller[k].started
                        /\ puller'[k].mPullGeneration = puller[k].mPullGeneration
                        /\ k \notin mTracks => puller'[k].doing = puller[k].doing
  BY <1>1, <1>2
<1> QED BY <1>2, <1>3 DEF SteadyTracks

(* What is left to do when a puller goes on.                               *)
LEMMA PullerStep ==
  ASSUME IInv, Alive, SteadyTracks, PullersStopOnce', puller' \in [Tracks -> PullerType],
         NEW r \in Seq(MsgType), queue' = queue \o r,
         r = <<>> \/ \E n \in MsgType : r = <<n>> /\ Aside(n) /\ faults' > 0,
         repeater' \in [frame : {"none", "fresh", "stale"}, mStartTimeUs : BOOLEAN],
         faults' \in 0..plan.faults, faults' >= faults,
         UNCHANGED <<track, converter, settings, sender, session, aborted, clock, history>>
  PROVE  IInv'
<1>1. UNCHANGED <<plan, usePCMAudio, track, converter, sent, mTracks, mSender, clock,
                  finishPlay, passed, registered, mAllTracksHavePacketizerIndex, destroying, aborted>>
  BY DEF settings, sender, session, history
<1>2. /\ queue' \in Seq(MsgType) /\ Ordered(queue') /\ SteadyQueue
      /\ \A m \in Members(queue') : m \in Members(queue) \/ Aside(m)
  BY AsideQueue
<1>3. Shape'
  BY <1>1, <1>2 DEF IInv, Shape
<1>4. EndsByFault'
  <2>1. \A m \in Members(queue') : m \in Members(queue) \/ faults' > 0
    <3>1. CASE r = <<>>
      BY <3>1, PostNone DEF IInv, Shape
    <3>2. CASE faults' > 0
      BY <3>2
    <3> QED BY <3>1, <3>2
  <2>2. faults' \in Nat
    BY FaultType
  <2> QED BY <1>1, <2>1, <2>2, FaultsKept
<1>5. registered' = registered \/ mTracks = {}
  BY <1>1
<1>6. aborted' = "none"
  BY <1>1 DEF Alive
<1> QED BY <1>1, <1>2, <1>3, <1>4, <1>5, <1>6, QuietStep

(* A puller begins to read, or finds its pull out of date.                 *)
LEMMA PullStep ==
  ASSUME IInv, NEW t \in Tracks, OnPull(t)
  PROVE  IInv'
<1> DEFINE doing == IF Head(puller[t].queue)[2] # puller[t].mPullGeneration THEN "idle"
                    ELSE IF t = "video" /\ ~repeater.mStartTimeUs THEN "dormant" ELSE "reading"
           p == [puller[t] EXCEPT !.queue = Tail(@), !.doing = doing]
<1>1. /\ Alive /\ puller[t].doing = "idle" /\ puller[t].queue # <<>>
      /\ Head(puller[t].queue)[1] = "Pull"
      /\ puller' = [puller EXCEPT ![t].queue = Tail(@), ![t].doing = doing]
      /\ UNCHANGED <<queue, track, converter, repeater, settings, sender, session, aborted,
                     counts, history>>
  BY DEF OnPull
<1>2. /\ puller \in [Tracks -> PullerType] /\ puller[t].queue \in Seq(PullType)
      /\ OneStop(puller[t].queue)
      /\ puller[t].queue # <<>> /\ puller[t].mPullGeneration = 0 => puller[t].started
  BY DEF IInv, Shape, PullersStopOnce, PullerType
<1>3. /\ Head(puller[t].queue)[2] = 0 /\ Tail(puller[t].queue) \in Seq(PullType)
      /\ OneStop(Tail(puller[t].queue))
      /\ Stops(puller[t].queue) <=> Stops(Tail(puller[t].queue))
  BY <1>1, <1>2, PullQueueTail
<1>4. doing \in {"idle", "dormant", "reading"}
  OBVIOUS
<1>5. doing # "idle" => puller[t].started
  BY <1>1, <1>2, <1>3
<1> HIDE DEF doing
<1>6. /\ p \in PullerType /\ p.queue = Tail(puller[t].queue) /\ p.doing = doing
      /\ p.started = puller[t].started /\ p.mPullGeneration = puller[t].mPullGeneration
      /\ PullerIs(t, p)
  BY <1>1, <1>2, <1>3, <1>4 DEF PullerType, PullerIs
<1> HIDE DEF p
<1>7. UNCHANGED <<mTracks, destroying, repeater, clock, faults>>
  BY <1>1 DEF session, counts
<1>8. p.doing = "stopping" \/ Stops(p.queue) <=> ToldToStop(t)
  BY <1>1, <1>3, <1>4, <1>6 DEF ToldToStop
<1>9. SteadyTracks /\ PullersStopOnce' /\ puller' \in [Tracks -> PullerType]
  BY <1>1, <1>3, <1>4, <1>5, <1>6, <1>7, <1>8, PullerGoesOn
<1>10. queue' = queue \o <<>>
  BY <1>1 DEF IInv, Shape
<1>11. /\ faults' \in 0..plan.faults /\ faults' >= faults
       /\ repeater' \in [frame : {"none", "fresh", "stale"}, mStartTimeUs : BOOLEAN]
  BY <1>7, FaultType DEF IInv, Shape
<1> QED BY <1>1, <1>7, <1>9, <1>10, <1>11, QueueNone, PullerStep

(* A puller begins to stop.                                                *)
LEMMA StopStep ==
  ASSUME IInv, NEW t \in Tracks, OnStop(t)
  PROVE  IInv'
<1> DEFINE p == [puller[t] EXCEPT !.queue = Tail(@), !.doing = "stopping"]
<1>1. /\ Alive /\ puller[t].doing = "idle" /\ puller[t].queue # <<>>
      /\ Head(puller[t].queue)[1] = "Stop"
      /\ puller' = [puller EXCEPT ![t].queue = Tail(@), ![t].doing = "stopping"]
      /\ UNCHANGED <<queue, track, converter, repeater, settings, sender, session, aborted,
                     counts, history>>
  BY DEF OnStop
<1>2. /\ puller \in [Tracks -> PullerType] /\ puller[t].queue \in Seq(PullType)
      /\ OneStop(puller[t].queue)
      /\ puller[t].queue # <<>> /\ puller[t].mPullGeneration = 0 => puller[t].started
  BY DEF IInv, Shape, PullersStopOnce, PullerType
<1>3. /\ Tail(puller[t].queue) \in Seq(PullType) /\ OneStop(Tail(puller[t].queue))
      /\ Stops(puller[t].queue) /\ ~Stops(Tail(puller[t].queue))
  BY <1>1, <1>2, PullQueueTail
<1>4. ToldToStop(t)
  BY <1>3 DEF ToldToStop
<1>5. puller[t].started
  BY <1>1, <1>4 DEF IInv, Going, Controlled, StopsInOrder, Undisturbed
<1>6. /\ p \in PullerType /\ p.queue = Tail(puller[t].queue) /\ p.doing = "stopping"
      /\ p.started = puller[t].started /\ p.mPullGeneration = puller[t].mPullGeneration
      /\ PullerIs(t, p)
  BY <1>1, <1>2, <1>3 DEF PullerType, PullerIs
<1> HIDE DEF p
<1>7. UNCHANGED <<mTracks, destroying, repeater, clock, faults>>
  BY <1>1 DEF session, counts
<1>8. SteadyTracks /\ PullersStopOnce' /\ puller' \in [Tracks -> PullerType]
  BY <1>1, <1>3, <1>4, <1>5, <1>6, <1>7, PullerGoesOn
<1>9. queue' = queue \o <<>>
  BY <1>1 DEF IInv, Shape
<1>10. /\ faults' \in 0..plan.faults /\ faults' >= faults
       /\ repeater' \in [frame : {"none", "fresh", "stale"}, mStartTimeUs : BOOLEAN]
  BY <1>7, FaultType DEF IInv, Shape
<1> QED BY <1>1, <1>7, <1>8, <1>9, <1>10, QueueNone, PullerStep

(* The read of the screen goes dormant.                                    *)
LEMMA DormantStep ==
  ASSUME IInv, GoesDormant
  PROVE  IInv'
<1> DEFINE p == [puller["video"] EXCEPT !.doing = "dormant"]
<1>1. /\ Alive /\ puller["video"].doing = "reading"
      /\ repeater' = [frame |-> "stale", mStartTimeUs |-> FALSE]
      /\ puller' = [puller EXCEPT !["video"].doing = "dormant"]
      /\ UNCHANGED <<queue, track, converter, settings, sender, session, aborted, counts,
                     history>>
  BY DEF GoesDormant
<1>2. "video" \in Tracks
  BY DEF Tracks
<1>3. /\ puller \in [Tracks -> PullerType] /\ puller["video"] \in PullerType
      /\ puller["video"].started /\ OneStop(puller["video"].queue)
  BY <1>1, <1>2 DEF IInv, Shape, PullersStopOnce
<1>4. /\ p \in PullerType /\ p.queue = puller["video"].queue /\ p.doing = "dormant"
      /\ p.started = puller["video"].started
      /\ p.mPullGeneration = puller["video"].mPullGeneration /\ PullerIs("video", p)
  BY <1>1, <1>3 DEF PullerType, PullerIs
<1> HIDE DEF p
<1>5. UNCHANGED <<mTracks, destroying, clock, faults>>
  BY <1>1 DEF session, counts
<1>6. p.doing = "stopping" \/ Stops(p.queue) <=> ToldToStop("video")
  BY <1>1, <1>4 DEF ToldToStop
<1>7. SteadyTracks /\ PullersStopOnce' /\ puller' \in [Tracks -> PullerType]
  BY <1>1, <1>2, <1>3, <1>4, <1>5, <1>6, PullerGoesOn
<1>8. queue' = queue \o <<>>
  BY <1>1 DEF IInv, Shape
<1>9. /\ faults' \in 0..plan.faults /\ faults' >= faults
      /\ repeater' \in [frame : {"none", "fresh", "stale"}, mStartTimeUs : BOOLEAN]
  BY <1>1, <1>5, FaultType
<1> QED BY <1>1, <1>5, <1>7, <1>8, <1>9, QueueNone, PullerStep

(* The screen changes.                                                     *)
LEMMA FrameStep ==
  ASSUME IInv, FrameArrives
  PROVE  IInv'
<1>1. /\ Alive /\ repeater' = [repeater EXCEPT !.frame = "fresh"]
      /\ UNCHANGED <<queue, track, converter, puller, settings, sender, session, aborted,
                     counts, history>>
  BY DEF FrameArrives
<1>2. UNCHANGED <<plan, usePCMAudio, track, converter, puller, sent, mTracks, mSender,
                  clock, faults, finishPlay, passed, registered, mAllTracksHavePacketizerIndex, destroying>>
  BY <1>1 DEF settings, sender, session, counts, history
<1>3. queue' = queue \o <<>>
  BY <1>1 DEF IInv, Shape
<1>4. faults' \in 0..plan.faults /\ faults' >= faults
  BY <1>2, FaultType
<1>5. repeater' \in [frame : {"none", "fresh", "stale"}, mStartTimeUs : BOOLEAN]
  BY <1>1 DEF IInv, Shape
<1>6. registered' = registered \/ mTracks = {}
  BY <1>2
<1> QED BY <1>1, <1>2, <1>3, <1>4, <1>5, <1>6, QueueNone, AsideStep

(* A source ends, which is a fault.                                        *)
LEMMA SourceEndsStep ==
  ASSUME IInv, NEW t \in Tracks, SourceEnds(t)
  PROVE  IInv'
<1> DEFINE p == [puller[t] EXCEPT !.doing = "idle"]
           n == Message("Pulled", t, EOS)
<1>1. /\ Alive /\ puller[t].doing \in {"reading", "dormant"} /\ Fault
      /\ puller' = [puller EXCEPT ![t].doing = "idle"]
      /\ queue' = Append(queue, n)
      /\ UNCHANGED <<track, converter, repeater, settings, sender, session, aborted, clock,
                     history>>
  BY DEF SourceEnds
<1>2. /\ puller \in [Tracks -> PullerType] /\ puller[t] \in PullerType
      /\ puller[t].started /\ OneStop(puller[t].queue)
  BY <1>1 DEF IInv, Shape, PullersStopOnce
<1>3. /\ p \in PullerType /\ p.queue = puller[t].queue /\ p.doing = "idle"
      /\ p.started = puller[t].started
      /\ p.mPullGeneration = puller[t].mPullGeneration /\ PullerIs(t, p)
  BY <1>1, <1>2 DEF PullerType, PullerIs
<1>4. n \in MsgType /\ Aside(n)
  <2>1. "Pulled" \in Whats /\ EOS \in Nat
    BY DEF Whats, EOS
  <2> QED BY <2>1, MessageType DEF Aside
<1> HIDE DEF p, n
<1>5. UNCHANGED <<mTracks, destroying, repeater>>
  BY <1>1 DEF session
<1>6. p.doing = "stopping" \/ Stops(p.queue) <=> ToldToStop(t)
  BY <1>1, <1>3 DEF ToldToStop
<1>7. SteadyTracks /\ PullersStopOnce' /\ puller' \in [Tracks -> PullerType]
  BY <1>1, <1>2, <1>3, <1>5, <1>6, PullerGoesOn
<1>8. queue' = queue \o <<n>> /\ <<n>> \in Seq(MsgType)
  BY <1>1, <1>4, QueueAppend, QueueOne DEF IInv, Shape
<1>9. /\ faults' \in 0..plan.faults /\ faults' >= faults /\ faults' > 0
      /\ repeater' \in [frame : {"none", "fresh", "stale"}, mStartTimeUs : BOOLEAN]
  BY <1>1, <1>5, FaultType DEF IInv, Shape
<1> QED BY <1>1, <1>4, <1>5, <1>7, <1>8, <1>9, PullerStep

-----------------------------------------------------------------------------
(* The way of a unit                                                       *)

(* Units of track t move on, and a new one may come.                       *)
Moves(t) ==
  /\ \A k \in Tracks \ {t} : /\ Pulls(k)' \subseteq Pulls(k) /\ Access(k)' \subseteq Access(k)
                             /\ converter'[k].inputs = converter[k].inputs
  /\ Encodes(t) \/ converter'[t].inputs = <<>>
  /\ Rising(converter'[t].inputs)
  /\ Below(Input(t)', Pulls(t)')
  /\ Below(Access(t)', Input(t)' \cup Pulls(t)')
  /\ Access(t)' \cup Input(t)' \cup Pulls(t)' \subseteq
       Access(t) \cup Input(t) \cup Pulls(t) \cup (clock+1)..clock'

(* They stay in line, apart, and behind what was sent.                     *)
LEMMA CarriedMoves ==
  ASSUME Carried, clock \in Nat, clock' \in Nat, clock' >= clock, NEW t \in Tracks, Moves(t),
         UNCHANGED <<track, sent, passed, mAllTracksHavePacketizerIndex, mTracks, usePCMAudio>>,
         mTracks \subseteq Tracks
  PROVE  Carried'
<1>1. \A k \in Tracks : Held(k)' = Held(k) /\ (Encodes(k)' <=> Encodes(k))
  BY DEF Held, Encodes
<1>2. ASSUME NEW k \in Tracks \ {t}
      PROVE  /\ Input(k)' = Input(k) /\ Pulls(k)' \subseteq Pulls(k)
             /\ Access(k)' \subseteq Access(k) /\ converter'[k].inputs = converter[k].inputs
             /\ Own(k)' \subseteq Own(k)
  <2>1. /\ Pulls(k)' \subseteq Pulls(k) /\ Access(k)' \subseteq Access(k)
        /\ converter'[k].inputs = converter[k].inputs
    BY DEF Moves
  <2>2. Input(k)' = Input(k)
    BY <2>1 DEF Input
  <2> QED BY <1>1, <2>1, <2>2 DEF Own
<1> DEFINE Old == Access(t) \cup Input(t) \cup Pulls(t)
           New == Access(t)' \cup Input(t)' \cup Pulls(t)'
           Late == (clock+1)..clock'
<1>3. New \subseteq Old \cup Late /\ Own(t) \subseteq 1..clock
  BY DEF Moves, Carried, Apart
<1>4. \A S : S \subseteq 1..clock => Below(S, Late) /\ S \cap Late = {} /\ S \subseteq 1..clock'
  <2> SUFFICES ASSUME NEW S, S \subseteq 1..clock, NEW u \in S, NEW v \in Late
               PROVE  u < v
    <3>1. 1..clock \subseteq 1..clock' /\ Late \subseteq 1..clock'
      OBVIOUS
    <3>2. ASSUME NEW u \in 1..clock, NEW v \in Late PROVE u < v /\ u # v
      OBVIOUS
    <3> QED BY <3>1, <3>2 DEF Below
  <2> QED OBVIOUS
<1>5. Late \subseteq 1..clock' /\ 1..clock \subseteq 1..clock'
  OBVIOUS
<1>6. Held(t) \subseteq 1..clock /\ Below(Held(t), Old)
  BY <1>3 DEF Own, Carried, InLine
<1>7. Below(Held(t), Late)
  BY <1>4, <1>6
<1>8. Below(Held(t)', New)
  BY <1>1, <1>3, <1>6, <1>7 DEF Below
<1>9. InLine'
  <2> SUFFICES ASSUME NEW k \in Tracks
               PROVE  /\ Encodes(k)' \/ converter'[k].inputs = <<>>
                      /\ Rising(converter'[k].inputs)
                      /\ Below(Input(k)', Pulls(k)')
                      /\ Below(Access(k)', Input(k)' \cup Pulls(k)')
                      /\ Below(Held(k)', Access(k)' \cup Input(k)' \cup Pulls(k)')
    BY DEF InLine
  <2>1. CASE k = t
    BY <1>1, <1>8, <2>1 DEF Moves
  <2>2. CASE k # t
    BY <1>1, <1>2, <2>2 DEF Carried, InLine, Below
  <2> QED BY <2>1, <2>2
<1>10. Apart'
  <2>1. Own(t)' \subseteq Own(t) \cup Late
    BY <1>1, <1>3 DEF Own
  <2>2. \A k \in Tracks : Own(k)' \subseteq 1..clock'
    BY <1>2, <1>3, <1>5, <2>1 DEF Carried, Apart
  <2>3. ASSUME NEW k \in Tracks \ {t} PROVE Own(k)' \cap Own(t)' = {}
    <3>1. Own(k) \cap Late = {} /\ Own(k) \cap Own(t) = {}
      BY <1>4 DEF Carried, Apart
    <3> QED BY <1>2, <2>1, <3>1
  <2>4. ASSUME NEW k \in Tracks \ {t}, NEW l \in Tracks \ {t}, k # l
        PROVE  Own(k)' \cap Own(l)' = {}
    BY <1>2, <2>4 DEF Carried, Apart
  <2> QED BY <2>2, <2>3, <2>4 DEF Apart
<1>11. Merged'
  <2>1. \A k \in Tracks \ {t} : Coming(k)' \subseteq Coming(k)
    BY <1>2 DEF Coming
  <2>2. Coming(t)' \subseteq Coming(t) \cup Late
    BY <1>3 DEF Coming
  <2>3. \A k \in Tracks : Below(sent[k], Late)
    BY <1>4 DEF Carried, Apart, Own
  <2>4. \A j \in Tracks \ passed, k \in Tracks :
          j \in mTracks /\ Below(sent[k], Coming(j)) => Below(sent[k], Coming(j)')
    BY <2>1, <2>2, <2>3 DEF Below
  <2> QED BY <2>4 DEF Carried, Merged
<1> QED BY <1>9, <1>10, <1>11 DEF Carried

(* What is left to do when units move.                                     *)
LEMMA MoveStep ==
  ASSUME IInv, Alive, NEW t \in Tracks, Moves(t),
         queue' \in Seq(MsgType), Ordered(queue'), SteadyQueue, SteadyTracks, PullersStopOnce',
         UNCHANGED <<track, settings, sender, session, aborted, history>>,
         converter' \in [Tracks -> ConverterType], puller' \in [Tracks -> PullerType],
         repeater' \in [frame : {"none", "fresh", "stale"}, mStartTimeUs : BOOLEAN],
         clock' \in 0..plan.units, clock' >= clock, faults' \in 0..plan.faults, EndsByFault',
         \A m \in Members(queue') : m \in Members(queue) \/
           m.what \notin {"FinishPlay", "InitDone"}
  PROVE  IInv'
<1>1. UNCHANGED <<plan, usePCMAudio, track, sent, mTracks, mSender, finishPlay, passed,
                  registered, mAllTracksHavePacketizerIndex, destroying, aborted>>
  BY DEF settings, sender, session, history
<1>2. Shape'
  BY <1>1 DEF IInv, Shape
<1>3. Controlled'
  <2>1. registered' = registered \/ mTracks = {}
    BY <1>1
  <2> QED BY <1>1, <2>1, ControlledKept
<1>4. Carried'
  <2>1. clock \in Nat /\ clock' \in Nat
    BY FaultType
  <2>2. Carried /\ mTracks \subseteq Tracks
    BY DEF IInv, Shape, Going
  <2> QED BY <1>1, <2>1, <2>2, CarriedMoves
<1>5. ChecksHold'
  BY <1>1 DEF ChecksHold, Alive
<1> QED BY <1>2, <1>3, <1>4, <1>5 DEF IInv, Going

(* A unit is read: the newest there is, of no track yet.                   *)
LEMMA DeliversStep ==
  ASSUME IInv, NEW t \in Tracks, Delivers(t)
  PROVE  IInv'
<1> DEFINE p == [puller[t] EXCEPT !.doing = "idle", !.queue = Append(@, <<"Pull", 0>>)]
<1>1. /\ Alive /\ puller[t].doing \in {"reading", "dormant"}
      /\ repeater' = IF t = "video" THEN [repeater EXCEPT !.mStartTimeUs = TRUE] ELSE repeater
      /\ puller' = [puller EXCEPT ![t].doing = "idle",
                                  ![t].queue = Append(@, <<"Pull", puller[t].mPullGeneration>>)]
      /\ UNCHANGED <<track, converter, settings, sender, session, aborted, faults, history>>
  BY DEF Delivers
<1>2. /\ puller \in [Tracks -> PullerType] /\ puller[t] \in PullerType
      /\ puller[t].started /\ OneStop(puller[t].queue) /\ puller[t].mPullGeneration = 0
      /\ puller[t].queue \in Seq(PullType)
  BY <1>1 DEF IInv, Shape, PullersStopOnce, PullerType
<1> DEFINE r == Append(puller[t].queue, <<"Pull", 0>>)
<1>3. /\ r \in Seq(PullType) /\ OneStop(r) /\ (Stops(r) <=> Stops(puller[t].queue))
  <2>1. "Pull" \in {"Pull", "Stop"} /\ "Pull" # "Stop"
    OBVIOUS
  <2> QED BY <1>2, <2>1, PullQueueAppend
<1>4. /\ p \in PullerType /\ p.queue = r /\ p.doing = "idle"
      /\ p.started = puller[t].started /\ p.mPullGeneration = puller[t].mPullGeneration
      /\ PullerIs(t, p)
  BY <1>1, <1>2, <1>3 DEF PullerType, PullerIs
<1> HIDE DEF p, r
<1>5. UNCHANGED <<plan, mTracks, destroying>>
  BY <1>1 DEF session, settings
<1>6. p.doing = "stopping" \/ Stops(p.queue) <=> ToldToStop(t)
  BY <1>1, <1>3, <1>4 DEF ToldToStop
<1>7. SteadyTracks /\ PullersStopOnce' /\ puller' \in [Tracks -> PullerType]
  BY <1>1, <1>2, <1>3, <1>4, <1>5, <1>6, PullerGoesOn
<1>8. /\ faults' \in 0..plan.faults /\ faults' >= faults
      /\ repeater' \in [frame : {"none", "fresh", "stale"}, mStartTimeUs : BOOLEAN]
      /\ converter' \in [Tracks -> ConverterType]
  <2>1. faults' \in 0..plan.faults /\ faults' >= faults
    <3>1. faults' = faults
      BY <1>1
    <3> QED BY <3>1, FaultType
  <2>2. repeater' \in [frame : {"none", "fresh", "stale"}, mStartTimeUs : BOOLEAN]
    BY <1>1 DEF IInv, Shape
  <2>3. converter' \in [Tracks -> ConverterType]
    BY <1>1 DEF IInv, Shape
  <2> QED BY <2>1, <2>2, <2>3
<1>9. queue \in Seq(MsgType) /\ Ordered(queue) /\ Carried
  BY <1>1 DEF IInv, Shape, Going
<1>10. CASE UNCHANGED <<clock, queue>>
  <2>1. queue' = queue \o <<>>
    BY <1>9, <1>10
  <2> QED BY <1>1, <1>5, <1>7, <1>8, <1>10, <2>1, QueueNone, PullerStep
<1>11. CASE /\ clock < plan.units /\ clock' = clock + 1
            /\ queue' = Append(queue, Message("Pulled", t, clock'))
  <2> DEFINE n == Message("Pulled", t, clock')
  <2>1. clock \in Nat /\ clock' \in Nat /\ clock' \in 0..plan.units /\ clock' >= clock
        /\ clock' # EOS /\ clock' \in (clock+1)..clock'
    BY <1>11, FaultType DEF EOS
  <2>2. /\ n \in MsgType /\ n.what = "Pulled" /\ n.track = t /\ n.unit = clock'
        /\ \A m : ~Yields(n, m)
    <3>1. "Pulled" \in Whats
      BY DEF Whats
    <3> QED BY <2>1, <3>1, MessageType DEF Yields
  <2> HIDE DEF n
  <2>3. \A u \in Own(t) : u < clock'
    BY <1>9, <1>11, <2>1 DEF Carried, Apart
  <2>4. ASSUME NEW m \in Members(queue) PROVE Fits(m, n) /\ Follows(m, n) /\ Turn(m, n)
    <3>1. Fits(m, n) /\ Turn(m, n)
      BY <2>2 DEF Fits, Turn, Is, Ends, Yields
    <3>2. m \in MsgType
      BY <1>9 DEF Members
    <3>3. Is(m, "Pulled", t) => m.unit < n.unit
      <4>1. m.unit \in Nat
        BY <3>2 DEF MsgType
      <4>2. Is(m, "Pulled", t) /\ m.unit # EOS => m.unit \in Own(t)
        BY DEF Pulls, Own
      <4>3. EOS < clock'
        BY <2>1, <1>11 DEF EOS
      <4> QED BY <2>2, <2>3, <4>1, <4>2, <4>3
    <3>4. Follows(m, n)
      BY <2>2, <3>3 DEF Follows, Is
    <3> QED BY <3>1, <3>4
  <2>5. queue' = queue \o <<n>>
    BY <1>9, <1>11, <2>2, QueueAppend DEF n
  <2>6. /\ queue' \in Seq(MsgType) /\ Ordered(queue')
        /\ Members(queue') = Members(queue) \cup {n}
        /\ InTurn(queue) => InTurn(queue')
    BY <1>9, <2>2, <2>4, <2>5, PostOne
  <2>7. SteadyQueue
    BY <2>2, <2>6 DEF SteadyQueue
  <2>8. EndsByFault'
    <3>1. EndsByFault /\ faults' = faults /\ converter' = converter
      BY <1>1 DEF IInv, Going, Controlled
    <3> QED BY <2>1, <2>2, <2>6, <3>1 DEF EndsByFault
  <2>9. \A k \in Tracks : Access(k)' = Access(k) /\ Input(k)' = Input(k)
    BY <1>1, <2>2, <2>6 DEF Access, Input, Is
  <2>10. \A k \in Tracks \ {t} : Pulls(k)' = Pulls(k)
    BY <2>2, <2>6 DEF Pulls, Is
  <2>11. Pulls(t)' = Pulls(t) \cup {clock'}
    BY <2>1, <2>2, <2>6 DEF Pulls, Is
  <2>12. Moves(t)
    <3>1. converter' = converter /\ InLine
      BY <1>1, <1>9 DEF Carried
    <3>2. Below(Input(t)', Pulls(t)')
      <4>1. \A u \in Input(t) : u < clock'
        BY <2>3 DEF Own
      <4> QED BY <2>9, <2>11, <3>1, <4>1 DEF InLine, Below
    <3>3. Below(Access(t)', Input(t)' \cup Pulls(t)')
      <4>1. \A u \in Access(t) : u < clock'
        BY <2>3 DEF Own
      <4> QED BY <2>9, <2>11, <3>1, <4>1 DEF InLine, Below
    <3>4. Access(t)' \cup Input(t)' \cup Pulls(t)' \subseteq
            Access(t) \cup Input(t) \cup Pulls(t) \cup (clock+1)..clock'
      BY <2>1, <2>9, <2>11
    <3> QED BY <2>9, <2>10, <3>1, <3>2, <3>3, <3>4 DEF Moves, InLine
  <2>13. \A m \in Members(queue') : m \in Members(queue) \/ m.what \notin {"FinishPlay", "InitDone"}
    BY <2>2, <2>6
  <2> QED BY <1>1, <1>7, <1>8, <2>1, <2>6, <2>7, <2>8, <2>12, <2>13, MoveStep
<1> QED BY <1>10, <1>11 DEF Delivers

(* A unit is handed to the encoder.                                        *)
LEMMA RisingAppend ==
  ASSUME NEW s \in Seq(Nat), Rising(s), NEW u \in Nat,
         u # EOS => \A v \in Members(s) \ {EOS} : v < u
  PROVE  /\ Append(s, u) \in Seq(Nat) /\ Rising(Append(s, u))
         /\ Members(Append(s, u)) = Members(s) \cup {u}
<1> DEFINE r == Append(s, u)
<1>1. /\ Len(s) \in Nat /\ r \in Seq(Nat) /\ Len(r) = Len(s) + 1 /\ r[Len(s) + 1] = u
      /\ \A i \in 1..Len(s) : r[i] = s[i] /\ s[i] \in Nat
  OBVIOUS
<1>2. /\ \A i \in 1..Len(r) : i \in 1..Len(s) \/ i = Len(s) + 1
      /\ \A i \in 1..Len(s) : i \in 1..Len(r) /\ ~(Len(s) + 1 < i)
      /\ Len(s) + 1 \in 1..Len(r) /\ ~(Len(s) + 1 < Len(s) + 1)
  BY <1>1
<1> HIDE DEF r
<1>3. Members(r) = Members(s) \cup {u}
  BY <1>1, <1>2 DEF Members
<1>4. Rising(r)
  <2> SUFFICES ASSUME NEW i \in 1..Len(r), NEW j \in 1..Len(r), i < j, r[j] # EOS
               PROVE  r[i] < r[j]
    BY DEF Rising
  <2>1. i \in 1..Len(s)
    BY <1>2
  <2>2. CASE j \in 1..Len(s)
    BY <1>1, <2>1, <2>2 DEF Rising
  <2>3. CASE j = Len(s) + 1
    <3>1. s[i] \in Nat /\ r[i] = s[i] /\ s[i] \in Members(s) /\ r[j] = u /\ u # EOS
      BY <1>1, <2>1, <2>3 DEF Members
    <3>2. CASE s[i] = EOS
      BY <3>1, <3>2 DEF EOS
    <3>3. CASE s[i] # EOS
      BY <3>1, <3>3
    <3> QED BY <3>2, <3>3
  <2> QED BY <1>2, <2>2, <2>3
<1> QED BY <1>1, <1>3, <1>4 DEF r

(* The unit reaches the converter, and goes on at once if it is raw audio. *)
LEMMA PulledStep ==
  ASSUME IInv, OnPulled
  PROVE  IInv'
<1>1. /\ Handling("Pulled")
      /\ UNCHANGED <<track, puller, repeater, settings, sender, session, counts, history>>
  BY DEF OnPulled
<1>2. /\ Alive /\ Going /\ queue # <<>> /\ queue \in Seq(MsgType)
      /\ Head(queue) \in MsgType /\ Head(queue) \in Members(queue)
      /\ Head(queue).what = "Pulled"
      /\ Tail(queue) \in Seq(MsgType) /\ Members(Tail(queue)) \subseteq Members(queue)
      /\ \A m \in Members(queue) : m = Head(queue) \/ m \in Members(Tail(queue))
      /\ Ordered(Tail(queue)) /\ (InTurn(queue) => InTurn(Tail(queue)))
      /\ \A m \in Members(Tail(queue)) : Fits(Head(queue), m) /\ Follows(Head(queue), m)
  BY <1>1, Handled
<1>0. PICK t \in Tracks, unit \in Nat : Head(queue).track = t /\ Head(queue).unit = unit
  BY <1>2 DEF MsgType
<1>3. /\ t \in Tracks /\ unit \in Nat /\ Is(Head(queue), "Pulled", t)
      /\ unit # EOS => unit \in Pulls(t)
      /\ unit = EOS => faults > 0
  <2>1. t \in Tracks /\ unit \in Nat /\ Is(Head(queue), "Pulled", t)
    BY <1>0, <1>2 DEF Is
  <2>2. unit # EOS => unit \in Pulls(t)
    BY <1>0, <1>2, <2>1 DEF Pulls
  <2>3. unit = EOS => faults > 0
    BY <1>0, <1>2 DEF Going, Controlled, EndsByFault
  <2> QED BY <2>1, <2>2, <2>3
<1>4. /\ converter \in [Tracks -> ConverterType] /\ puller \in [Tracks -> PullerType]
      /\ repeater \in [frame : {"none", "fresh", "stale"}, mStartTimeUs : BOOLEAN]
      /\ converter[t].inputs \in Seq(Nat) /\ converter[t] \in ConverterType
  BY <1>3 DEF IInv, Shape, ConverterType
<1>5. /\ UNCHANGED <<mTracks, destroying, clock, faults>>
      /\ clock' \in 0..plan.units /\ clock' >= clock /\ faults' \in 0..plan.faults
  BY <1>1, FaultType DEF session, counts
<1>6. PullersStopOnce' /\ \A k \in Tracks : ToldToStop(k)' <=> ToldToStop(k)
  BY <1>1, PullersKept
<1>7. /\ puller' \in [Tracks -> PullerType]
      /\ repeater' \in [frame : {"none", "fresh", "stale"}, mStartTimeUs : BOOLEAN]
  BY <1>1, <1>4
<1>8. /\ InLine /\ Rising(converter[t].inputs) /\ Below(Input(t), Pulls(t))
      /\ Below(Access(t), Input(t) \cup Pulls(t))
      /\ Encodes(t) \/ converter[t].inputs = <<>>
  BY <1>2, <1>3 DEF Going, Carried, InLine
<1>9. CASE (~HasConverter(t) \/ (Encodes(t) /\ ~converter[t].mEncoder))
           /\ Done(<<>>) /\ UNCHANGED <<converter, aborted>>
  <2>1. UNCHANGED <<media, mTracks, mAllTracksHavePacketizerIndex, destroying, registered>>
    BY <1>1, <1>9 DEF media, session
  <2>2. registered' = registered \/ mTracks = {}
    BY <2>1
  <2>3. "Pulled" \in {"SenderDead", "Error", "EOS", "SessionDestroyed", "InitDone",
                      "AccessUnit", "Pulled", "FinishPlay"}
    OBVIOUS
  <2> QED BY <1>1, <1>9, <2>1, <2>2, <2>3, NoteStep
<1>10. CASE /\ HasConverter(t) /\ Encodes(t) /\ converter[t].mEncoder
            /\ converter' = [converter EXCEPT ![t].inputs = Append(@, unit),
                                              ![t].mDoMoreWorkPending = TRUE]
            /\ Done(<<>>) /\ UNCHANGED aborted
  <2> DEFINE in == Append(converter[t].inputs, unit)
  <2>1. queue' = Tail(queue)
    BY <1>2, <1>10, PostNone DEF Done
  <2>2. in \in Seq(Nat) /\ Rising(in) /\ Members(in) = Members(converter[t].inputs) \cup {unit}
    <3>1. unit # EOS => \A v \in Members(converter[t].inputs) \ {EOS} : v < unit
      BY <1>3, <1>8 DEF Below, Input
    <3> QED BY <1>3, <1>4, <1>8, <3>1, RisingAppend
  <2> HIDE DEF in
  <2>3. /\ converter' \in [Tracks -> ConverterType] /\ converter'[t].inputs = in
        /\ \A k \in Tracks : converter'[k].mEncoder = converter[k].mEncoder
        /\ \A k \in Tracks \ {t} : converter'[k].inputs = converter[k].inputs
    BY <1>3, <1>4, <1>10, <2>2 DEF ConverterType, in
  <2>4. t \in mTracks
    BY <1>10 DEF HasConverter
  <2>5. SteadyTracks
    BY <1>1, <1>5, <1>6, <1>10, <2>3, <2>4 DEF SteadyTracks
  <2>6. SteadyQueue
    BY <1>2, <2>1 DEF SteadyQueue
  <2>7. EndsByFault'
    <3>1. EndsByFault /\ Members(queue') \subseteq Members(queue) /\ faults' = faults
      BY <1>2, <1>5, <2>1 DEF Going, Controlled
    <3>2. ASSUME NEW k \in Tracks, EOS \in Members(converter'[k].inputs) PROVE faults' > 0
      <4>1. CASE k = t
        BY <1>3, <2>2, <2>3, <3>1, <3>2, <4>1 DEF EndsByFault
      <4>2. CASE k # t
        BY <2>3, <3>1, <3>2, <4>2 DEF EndsByFault
      <4> QED BY <4>1, <4>2
    <3>3. \A m \in Members(queue') :
            m.what = "EOS" \/ (m.what = "Pulled" /\ m.unit = EOS) => faults' > 0
      BY <3>1 DEF EndsByFault
    <3> QED BY <3>2, <3>3 DEF EndsByFault
  <2>8. \A k \in Tracks : Access(k)' \subseteq Access(k) /\ Pulls(k)' \subseteq Pulls(k)
    BY <1>2, <2>1 DEF Access, Pulls
  <2>9. Input(t)' = Input(t) \cup ({unit} \ {EOS})
    BY <2>2, <2>3 DEF Input
  <2>10. \A u \in Pulls(t)' : unit < u
    <3>1. Pulls(t)' = {m.unit : m \in {n \in Members(Tail(queue)) : Is(n, "Pulled", t)}} \ {EOS}
      BY <2>1 DEF Pulls
    <3>2. ASSUME NEW m \in Members(Tail(queue)), Is(m, "Pulled", t), m.unit # EOS
          PROVE  unit < m.unit
      BY <1>0, <1>2, <1>3, <3>2 DEF Follows
    <3> QED BY <3>1, <3>2
  <2>11. Moves(t)
    <3>1. Below(Input(t)', Pulls(t)')
      BY <1>8, <2>8, <2>9, <2>10, <1>3 DEF Below
    <3>2. Input(t)' \cup Pulls(t)' \subseteq Input(t) \cup Pulls(t)
      BY <1>3, <2>8, <2>9
    <3>3. Below(Access(t)', Input(t)' \cup Pulls(t)')
      BY <1>3, <1>8, <2>8, <3>2 DEF Below
    <3> QED BY <1>3, <1>10, <2>2, <2>3, <2>8, <3>1, <3>2, <3>3 DEF Moves
  <2>12. \A m \in Members(queue') : m \in Members(queue)
    BY <1>2, <2>1
  <2>13. queue' \in Seq(MsgType) /\ Ordered(queue')
    BY <1>2, <2>1
  <2> QED BY <1>1, <1>2, <1>3, <1>5, <1>6, <1>7, <1>10, <2>3, <2>5, <2>6, <2>7, <2>11, <2>12,
             <2>13, MoveStep
<1>11. CASE /\ HasConverter(t) /\ ~Encodes(t) /\ unit = EOS
            /\ Done(<<>>) /\ aborted' = "feedRawAudioInputBuffers" /\ UNCHANGED converter
  <2>1. queue' \in Seq(MsgType) /\ aborted' # "none"
    BY <1>2, <1>11, PostNone DEF Done
  <2>2. ChecksHold'
    BY <1>3, <1>5, <1>11 DEF ChecksHold
  <2>3. UNCHANGED <<track, media, settings, sender, session, counts, history>>
    BY <1>1, <1>11 DEF media
  <2> QED BY <2>1, <2>2, <2>3, AbortStep
<1>12. CASE /\ HasConverter(t) /\ ~Encodes(t) /\ unit # EOS
            /\ Done(<<Message("AccessUnit", t, unit)>>) /\ UNCHANGED <<converter, aborted>>
  <2> DEFINE n == Message("AccessUnit", t, unit)
  <2>1. /\ n \in MsgType /\ n.what = "AccessUnit" /\ n.track = t /\ n.unit = unit
    <3>1. "AccessUnit" \in Whats
      BY DEF Whats
    <3> QED BY <1>3, <3>1, MessageType
  <2>2. queue' = Tail(queue) \o <<n>>
    BY <1>12 DEF Done
  <2> HIDE DEF n
  <2>3. t \in mTracks /\ track[t].mConverter
    BY <1>12 DEF HasConverter
  <2>4. ASSUME NEW m \in Members(Tail(queue)) PROVE Fits(m, n) /\ Follows(m, n) /\ Turn(m, n)
    <3>1. m \in Members(queue)
      BY <1>2
    <3>2. ~Is(m, "TrackStopped", t)
      BY <1>2, <1>3, <2>3, <3>1 DEF Going, Controlled, StopsInOrder, Queued
    <3>3. Fits(m, n) /\ Turn(m, n)
      BY <2>1, <3>2 DEF Fits, Turn, Is, Ends, Yields
    <3>4. Is(m, "AccessUnit", t) => m.unit < n.unit
      BY <1>3, <1>8, <1>12, <2>1, <3>1 DEF Below, Access
    <3>5. Follows(m, n)
      BY <2>1, <3>4 DEF Follows, Is
    <3> QED BY <3>3, <3>5
  <2>5. /\ queue' \in Seq(MsgType) /\ Ordered(queue')
        /\ Members(queue') = Members(Tail(queue)) \cup {n}
        /\ InTurn(Tail(queue)) => InTurn(queue')
    BY <1>2, <2>1, <2>2, <2>4, PostOne
  <2>6. SteadyQueue
    BY <1>2, <2>1, <2>3, <2>5 DEF SteadyQueue, Yields
  <2>7. SteadyTracks
    BY <1>1, <1>5, <1>6, <1>12 DEF SteadyTracks
  <2>8. EndsByFault'
    <3>1. EndsByFault
      BY <1>2 DEF Going, Controlled
    <3> QED BY <1>2, <1>5, <1>12, <2>1, <2>5, <3>1 DEF EndsByFault
  <2>9. \A k \in Tracks : Input(k)' = Input(k) /\ Pulls(k)' \subseteq Pulls(k)
    BY <1>2, <1>12, <2>1, <2>5 DEF Input, Pulls, Is
  <2>10. \A k \in Tracks \ {t} : Access(k)' \subseteq Access(k)
    BY <1>2, <2>1, <2>5 DEF Access, Is
  <2>11. Access(t)' \subseteq Access(t) \cup {unit}
    BY <1>2, <2>1, <2>5 DEF Access, Is
  <2>12. Input(t) = {}
    BY <1>8, <1>12, QueueNone DEF Input
  <2>13. \A u \in Pulls(t)' : unit < u
    <3>1. Pulls(t)' \subseteq
            {m.unit : m \in {k \in Members(Tail(queue)) : Is(k, "Pulled", t)}} \ {EOS}
      BY <2>1, <2>5 DEF Pulls, Is
    <3>2. ASSUME NEW m \in Members(Tail(queue)), Is(m, "Pulled", t), m.unit # EOS
          PROVE  unit < m.unit
      BY <1>0, <1>2, <1>3, <3>2 DEF Follows
    <3> QED BY <3>1, <3>2
  <2>14. Moves(t)
    <3>1. Below(Input(t)', Pulls(t)')
      BY <1>3, <2>9, <2>12 DEF Below
    <3>2. Below(Access(t)', Input(t)' \cup Pulls(t)')
      BY <1>3, <1>8, <2>9, <2>11, <2>12, <2>13 DEF Below
    <3>3. Access(t)' \cup Input(t)' \cup Pulls(t)' \subseteq Access(t) \cup Input(t) \cup Pulls(t)
      BY <1>3, <1>12, <2>9, <2>11
    <3> QED BY <1>3, <1>8, <1>12, <2>9, <2>10, <3>1, <3>2, <3>3 DEF Moves
  <2>15. \A m \in Members(queue') : m \in Members(queue) \/ m.what \notin {"FinishPlay", "InitDone"}
    BY <1>2, <2>1, <2>5
  <2>16. converter' \in [Tracks -> ConverterType]
    BY <1>4, <1>12
  <2> QED BY <1>1, <1>2, <1>3, <1>5, <1>6, <1>7, <1>12, <2>5, <2>6, <2>7, <2>8, <2>14, <2>15,
             <2>16, MoveStep
<1> QED BY <1>0, <1>9, <1>10, <1>11, <1>12 DEF OnPulled

(* What the encoder has not finished yet comes after what it has.          *)
LEMMA RisingSplit ==
  ASSUME NEW s \in Seq(Nat), Rising(s), NEW n \in 1..Len(s)
  PROVE  LET r == SubSeq(s, n + 1, Len(s))
         IN /\ r \in Seq(Nat) /\ Rising(r) /\ Members(r) \subseteq Members(s)
            /\ \A i \in 1..n : \A v \in Members(r) \ {EOS} : s[i] < v
<1> DEFINE r == SubSeq(s, n + 1, Len(s))
<1>1. /\ Len(s) \in Nat /\ n \in Nat /\ n <= Len(s) /\ r \in Seq(Nat) /\ Len(r) = Len(s) - n
      /\ \A i \in 1..Len(r) : r[i] = s[n + i]
  <2>1. Len(s) \in Nat /\ n \in Nat /\ n <= Len(s)
    OBVIOUS
  <2>2. \A i \in (n+1)..Len(s) : s[i] \in Nat
    OBVIOUS
  <2>3. r \in Seq(Nat) /\ Len(r) = Len(s) - n /\ \A i \in 1..Len(r) : r[i] = s[n + i]
    BY <2>1, <2>2
  <2> QED BY <2>1, <2>3
<1>2. /\ \A i \in 1..Len(r) : n + i \in 1..Len(s)
      /\ \A i, j \in 1..Len(r) : i < j => n + i < n + j
      /\ \A i \in 1..n, j \in 1..Len(r) : i \in 1..Len(s) /\ i < n + j
  BY <1>1
<1> HIDE DEF r
<1>3. Rising(r)
  BY <1>1, <1>2 DEF Rising
<1>4. Members(r) \subseteq Members(s)
  BY <1>1, <1>2 DEF Members
<1>5. ASSUME NEW i \in 1..n, NEW v \in Members(r) \ {EOS} PROVE s[i] < v
  BY <1>1, <1>2, <1>5 DEF Members, Rising
<1> QED BY <1>1, <1>3, <1>4, <1>5 DEF r

(* The encoder passes on the oldest units it has.                          *)
LEMMA OnEncoderActivityStep ==
  ASSUME IInv, OnEncoderActivity
  PROVE  IInv'
<1> DEFINE Notify(t, unit) == IF unit = EOS THEN Message("EOS", t, EOS)
                                            ELSE Message("AccessUnit", t, unit)
<1>1. /\ Handling("EncoderActivity")
      /\ UNCHANGED <<track, puller, repeater, settings, sender, session, aborted, clock, history>>
  BY DEF OnEncoderActivity
<1>2. /\ Alive /\ Going /\ queue # <<>> /\ queue \in Seq(MsgType)
      /\ Head(queue) \in MsgType /\ Head(queue) \in Members(queue)
      /\ Head(queue).what = "EncoderActivity"
      /\ Tail(queue) \in Seq(MsgType) /\ Members(Tail(queue)) \subseteq Members(queue)
      /\ \A m \in Members(queue) : m = Head(queue) \/ m \in Members(Tail(queue))
      /\ Ordered(Tail(queue)) /\ (InTurn(queue) => InTurn(Tail(queue)))
  BY <1>1, Handled
<1>3. PICK t \in Tracks : Head(queue).track = t
  BY <1>2 DEF MsgType
<1>4. /\ converter \in [Tracks -> ConverterType] /\ puller \in [Tracks -> PullerType]
      /\ repeater \in [frame : {"none", "fresh", "stale"}, mStartTimeUs : BOOLEAN]
      /\ converter[t].inputs \in Seq(Nat) /\ converter[t] \in ConverterType
  BY DEF IInv, Shape, ConverterType
<1>5. /\ UNCHANGED <<plan, usePCMAudio, sent, mTracks, mSender, finishPlay, passed, registered,
                     mAllTracksHavePacketizerIndex, destroying>>
      /\ clock' = clock /\ clock' \in 0..plan.units /\ clock' >= clock
  BY <1>1, FaultType DEF settings, sender, session, history
<1>6. PullersStopOnce' /\ \A k \in Tracks : ToldToStop(k)' <=> ToldToStop(k)
  BY <1>1, PullersKept
<1>7. /\ puller' \in [Tracks -> PullerType]
      /\ repeater' \in [frame : {"none", "fresh", "stale"}, mStartTimeUs : BOOLEAN]
  BY <1>1, <1>4
<1>8. ASSUME /\ converter' = [converter EXCEPT ![t].mDoMoreWorkPending = FALSE]
             /\ (Done(<<>>) /\ UNCHANGED faults) \/ (Done(<<Message("Error", t, EOS)>>) /\ Fault)
      PROVE  IInv'
  <2> DEFINE n == Message("Error", t, EOS)
  <2>1. n \in MsgType /\ Aside(n)
    <3>1. "Error" \in Whats /\ EOS \in Nat
      BY DEF Whats, EOS
    <3> QED BY <3>1, MessageType DEF Aside
  <2> HIDE DEF n
  <2>2. /\ queue' \in Seq(MsgType) /\ Ordered(queue') /\ SteadyQueue
        /\ \A m \in Members(queue') : m \in Members(queue) \/ Aside(m)
    <3>1. queue' = Tail(queue) \o <<>> \/ queue' = Tail(queue) \o <<n>>
      BY <1>8 DEF Done, n
    <3>2. <<n>> \in Seq(MsgType) /\ <<>> \in Seq(MsgType)
      BY <2>1, QueueOne, QueueNone
    <3>3. Head(queue).what \notin {"Shutdown", "MediaPullerStopped", "TrackStopped"}
      BY <1>2
    <3>4. CASE queue' = Tail(queue) \o <<>>
      BY <1>2, <3>2, <3>3, <3>4, AsideQueue
    <3>5. CASE queue' = Tail(queue) \o <<n>>
      BY <1>2, <2>1, <3>2, <3>3, <3>5, AsideQueue
    <3> QED BY <3>1, <3>4, <3>5
  <2>3. /\ converter' \in [Tracks -> ConverterType]
        /\ \A k \in Tracks : /\ converter'[k].mEncoder = converter[k].mEncoder
                             /\ converter'[k].inputs = converter[k].inputs
    BY <1>4, <1>8 DEF ConverterType
  <2>4. SteadyTracks
    BY <1>1, <1>5, <1>6, <2>3 DEF SteadyTracks
  <2>5. faults' \in 0..plan.faults /\ faults' \in Nat /\ faults' >= faults
    BY <1>8, FaultType
  <2>6. EndsByFault'
    <3>1. CASE Done(<<>>)
      <4>1. queue' = Tail(queue)
        BY <1>2, <3>1, PostNone DEF Done
      <4> QED BY <1>2, <2>3, <2>5, <4>1, FaultsKept
    <3>2. CASE Fault
      <4>1. faults' > 0
        BY <3>2, FaultType
      <4> QED BY <1>2, <2>3, <2>5, <4>1, FaultsKept
    <3> QED BY <1>8, <3>1, <3>2
  <2>7. Shape'
    BY <1>1, <1>5, <1>7, <2>2, <2>3, <2>5 DEF IInv, Shape
  <2>8. registered' = registered \/ mTracks = {}
    BY <1>2, <1>5 DEF Going, Controlled, Undisturbed
  <2>9. aborted' = "none"
    BY <1>1, <1>2 DEF Alive
  <2> QED BY <1>1, <1>2, <1>5, <1>6, <2>2, <2>3, <2>4, <2>6, <2>7, <2>8, <2>9, QuietStep
<1>9. ASSUME HasConverter(t), converter[t].mEncoder, NEW n \in 1..Len(converter[t].inputs),
             converter' = [converter EXCEPT ![t].inputs = SubSeq(@, n + 1, Len(@))],
             Done([i \in 1..n |-> Notify(t, converter[t].inputs[i])]), UNCHANGED faults
      PROVE  IInv'
  <2> DEFINE out  == converter[t].inputs
             rest == SubSeq(out, n + 1, Len(out))
             r    == [i \in 1..n |-> Notify(t, out[i])]
  <2>1. /\ InLine /\ Rising(out) /\ Below(Input(t), Pulls(t)) /\ Encodes(t)
        /\ Below(Access(t), Input(t) \cup Pulls(t))
        /\ EndsByFault
    <3>1. out # <<>>
      BY <1>4, <1>9
    <3> QED BY <1>2, <3>1 DEF Going, Controlled, Carried, InLine
  <2>2. /\ rest \in Seq(Nat) /\ Rising(rest) /\ Members(rest) \subseteq Members(out)
        /\ \A i \in 1..n : \A v \in Members(rest) \ {EOS} : out[i] < v
    BY <1>4, <2>1, RisingSplit
  <2>3. ASSUME NEW i \in 1..n
        PROVE  /\ i \in 1..Len(out) /\ out[i] \in Nat /\ out[i] \in Members(out)
               /\ Notify(t, out[i]) \in MsgType /\ Notify(t, out[i]).track = t
               /\ out[i] = EOS => Notify(t, out[i]).what = "EOS"
               /\ out[i] # EOS => /\ Notify(t, out[i]).what = "AccessUnit"
                                  /\ Notify(t, out[i]).unit = out[i]
    <3>1. i \in 1..Len(out) /\ out[i] \in Nat /\ out[i] \in Members(out)
      BY <1>4 DEF Members
    <3>2. "EOS" \in Whats /\ "AccessUnit" \in Whats /\ EOS \in Nat
      BY DEF Whats, EOS
    <3> QED BY <3>1, <3>2, MessageType
  <2>4. /\ r \in Seq(MsgType) /\ Len(r) = n /\ \A i \in 1..n : r[i] = Notify(t, out[i])
    BY <1>4, <2>3
  <2>5. queue' = Tail(queue) \o r
    BY <1>9 DEF Done
  <2>6. /\ converter' \in [Tracks -> ConverterType] /\ converter'[t].inputs = rest
        /\ \A k \in Tracks : converter'[k].mEncoder = converter[k].mEncoder
        /\ \A k \in Tracks \ {t} : converter'[k].inputs = converter[k].inputs
    BY <1>4, <1>9, <2>2 DEF ConverterType
  <2> HIDE DEF Notify, out, rest, r
  <2>7. \A m \in Members(r) : \E i \in 1..n :
          /\ m = Notify(t, out[i]) /\ m.track = t /\ out[i] \in Members(out)
          /\ out[i] = EOS => m.what = "EOS"
          /\ out[i] # EOS => m.what = "AccessUnit" /\ m.unit = out[i] /\ out[i] \in Input(t)
    BY <2>3, <2>4 DEF Members, Input, out
  <2>8. Ordered(r)
    <3> SUFFICES ASSUME NEW i \in 1..n, NEW j \in 1..n, i < j
                 PROVE  Fits(r[i], r[j]) /\ Follows(r[i], r[j])
      BY <2>4 DEF Ordered
    <3>1. /\ r[i].what \in {"EOS", "AccessUnit"} /\ r[j].what \in {"EOS", "AccessUnit"}
          /\ r[i].what = "AccessUnit" => out[i] # EOS /\ r[i].unit = out[i]
          /\ r[j].what = "AccessUnit" => out[j] # EOS /\ r[j].unit = out[j]
      BY <2>3, <2>4
    <3>2. Fits(r[i], r[j])
      BY <3>1 DEF Fits, Is, Ends
    <3>3. out[j] # EOS => out[i] < out[j]
      BY <2>1, <2>3 DEF Rising
    <3>4. Follows(r[i], r[j])
      BY <3>1, <3>3 DEF Follows, Is
    <3> QED BY <3>2, <3>4
  <2>9. t \in mTracks /\ track[t].mConverter
    BY <1>9 DEF HasConverter
  <2>10. ASSUME NEW m \in Members(Tail(queue)), NEW k \in Members(r)
         PROVE  Fits(m, k) /\ Follows(m, k) /\ Turn(m, k)
    <3>1. m \in Members(queue)
      BY <1>2
    <3>2. ~Is(m, "TrackStopped", t)
      BY <1>2, <2>9, <3>1 DEF Going, Controlled, StopsInOrder, Queued
    <3>3. /\ k.track = t /\ k.what \in {"EOS", "AccessUnit"}
          /\ k.what = "AccessUnit" => k.unit \in Input(t)
      BY <2>7
    <3>4. Fits(m, k) /\ Turn(m, k)
      BY <3>2, <3>3 DEF Fits, Turn, Is, Ends, Yields
    <3>5. Is(m, "AccessUnit", t) /\ k.what = "AccessUnit" => m.unit < k.unit
      BY <2>1, <3>1, <3>3 DEF Below, Access
    <3>6. Follows(m, k)
      BY <3>3, <3>5 DEF Follows, Is
    <3> QED BY <3>4, <3>6
  <2>11. InTurn(r)
    <3>1. ASSUME NEW i \in 1..n, NEW j \in 1..n PROVE Turn(r[i], r[j])
      <4>1. r[i].what \in {"EOS", "AccessUnit"}
        BY <2>3, <2>4
      <4> QED BY <4>1 DEF Turn, Ends
    <3> QED BY <2>4, <3>1 DEF InTurn
  <2>12. /\ queue' \in Seq(MsgType) /\ Ordered(queue')
         /\ Members(queue') = Members(Tail(queue)) \cup Members(r)
         /\ InTurn(Tail(queue)) => InTurn(queue')
    BY <1>2, <2>4, <2>5, <2>8, <2>10, <2>11, QueueMore
  <2>13. SteadyQueue
    <3>1. \A m \in Members(r) : /\ m.what \in {"EOS", "AccessUnit"}
                                /\ \A k \in Tracks : Yields(m, k) => k \in mTracks
      BY <2>7, <2>9 DEF Yields
    <3> QED BY <1>2, <2>12, <3>1 DEF SteadyQueue
  <2>14. SteadyTracks
    BY <1>1, <1>5, <1>6, <1>9, <2>6, <2>9 DEF SteadyTracks
  <2>15. EndsByFault'
    <3>1. faults' = faults
      BY <1>9
    <3>2. ASSUME NEW m \in Members(queue'), m.what = "EOS" \/ (m.what = "Pulled" /\ m.unit = EOS)
          PROVE  faults > 0
      <4>1. CASE m \in Members(Tail(queue))
        BY <1>2, <2>1, <3>2, <4>1 DEF EndsByFault
      <4>2. CASE m \in Members(r)
        <5>1. EOS \in Members(out)
          BY <2>7, <3>2, <4>2
        <5> QED BY <2>1, <5>1 DEF EndsByFault, out
      <4> QED BY <2>12, <4>1, <4>2
    <3>3. ASSUME NEW k \in Tracks, EOS \in Members(converter'[k].inputs) PROVE faults > 0
      <4>1. Members(converter'[k].inputs) \subseteq Members(converter[k].inputs)
        BY <2>2, <2>6 DEF out
      <4> QED BY <2>1, <3>3, <4>1 DEF EndsByFault
    <3> QED BY <3>1, <3>2, <3>3 DEF EndsByFault
  <2>16. /\ \A k \in Tracks : Pulls(k)' \subseteq Pulls(k)
         /\ \A k \in Tracks \ {t} : Access(k)' \subseteq Access(k)
    <3>1. \A m \in Members(r) : m.track = t /\ m.what # "Pulled"
      BY <2>7
    <3> QED BY <1>2, <2>12, <3>1 DEF Pulls, Access, Is
  <2>17. ASSUME NEW u \in Access(t)'
         PROVE  u \in Access(t) \/ (u \in Input(t) /\ \E i \in 1..n : u = out[i])
    <3>1. PICK m \in Members(queue') : Is(m, "AccessUnit", t) /\ m.unit = u
      BY <2>17 DEF Access
    <3>2. CASE m \in Members(Tail(queue))
      BY <1>2, <3>1, <3>2 DEF Access
    <3>3. CASE m \in Members(r)
      BY <2>7, <3>1, <3>3 DEF Is
    <3> QED BY <2>12, <3>2, <3>3
  <2>18. Input(t)' \subseteq Input(t) /\ Input(t)' = Members(rest) \ {EOS}
    BY <2>2, <2>6 DEF Input, out
  <2>19. Moves(t)
    <3>1. Below(Input(t)', Pulls(t)')
      BY <2>1, <2>16, <2>18 DEF Below
    <3>2. Below(Access(t)', Input(t)' \cup Pulls(t)')
      BY <2>1, <2>2, <2>16, <2>17, <2>18 DEF Below
    <3>3. Access(t)' \cup Input(t)' \cup Pulls(t)' \subseteq Access(t) \cup Input(t) \cup Pulls(t)
      BY <2>16, <2>17, <2>18
    <3> QED BY <2>1, <2>2, <2>6, <2>16, <3>1, <3>2, <3>3 DEF Moves
  <2>20. \A m \in Members(queue') : m \in Members(queue) \/ m.what \notin {"FinishPlay", "InitDone"}
    BY <1>2, <2>7, <2>12
  <2>21. faults' \in 0..plan.faults
    BY <1>9, FaultType
  <2> QED BY <1>1, <1>2, <1>5, <1>6, <1>7, <2>6, <2>12, <2>13, <2>14, <2>15, <2>19, <2>20, <2>21,
             MoveStep
<1> QED BY <1>3, <1>8, <1>9 DEF OnEncoderActivity

-----------------------------------------------------------------------------
(* The connection                                                          *)

(* What is left to do when only the connection is further.                 *)
LEMMA ConnectStep ==
  ASSUME IInv, Alive, UNCHANGED <<track, media, settings, session, aborted, clock, history>>,
         queue' \in Seq(MsgType), Ordered(queue'), StartsOnce',
         mSender' \in {"init", "connecting", "half", "connected", "none"},
         mSender' # "none" \/ destroying,
         faults' \in 0..plan.faults, faults' >= faults,
         InTurn(queue) => InTurn(queue'),
         \A m \in Members(queue') : m \in Members(queue) \/ m.what = "InitDone" \/
           m.what = "FinishPlay",
         \A m \in Members(queue) : m \in Members(queue') \/ m.what = "FinishPlay"
  PROVE  IInv'
<1>1. UNCHANGED <<plan, usePCMAudio, track, converter, puller, repeater, sent, mTracks, passed,
                  clock, registered, mAllTracksHavePacketizerIndex, destroying, aborted>>
  BY DEF media, settings, session, history
<1>2. Shape'
  BY <1>1 DEF IInv, Shape
<1>3. SteadyTracks /\ PullersStopOnce'
  BY <1>1, TracksKept
<1>4. SteadyQueue
  BY DEF SteadyQueue, Yields
<1>5. EndsByFault'
  <2>1. faults' \in Nat
    BY FaultType
  <2> QED BY <1>1, <2>1, FaultsKept
<1>6. Controlled'
  <2>1. Controlled /\ mTracks \subseteq Tracks
    BY DEF IInv, Shape, Going
  <2>3. registered' = registered \/ mTracks = {}
    BY <1>1
  <2>4. Undisturbed'
    BY <1>3, <1>4, <2>1, <2>3, UndisturbedKept DEF Controlled
  <2>5. StopsInOrder' /\ NoneRunsAway'
    BY <1>3, <1>4, <2>1, <2>3, StopsKept, NoneKept DEF Controlled
  <2> QED BY <1>5, <2>4, <2>5 DEF Controlled
<1>7. Carried'
  <2>1. Carried /\ mTracks \subseteq Tracks
    BY DEF IInv, Shape, Going
  <2>2. \A m \in Members(queue') : m \in Members(queue) \/
          (m.what # "AccessUnit" /\ (m.what = "Pulled" => m.unit = EOS))
    OBVIOUS
  <2> QED BY <1>1, <2>1, <2>2, CarriedKept
<1>8. ChecksHold'
  BY <1>1 DEF ChecksHold, Alive
<1> QED BY <1>2, <1>3, <1>6, <1>7, <1>8 DEF IInv, Going

(* finishPlay comes once.                                                  *)
LEMMA FinishPlayStep ==
  ASSUME IInv, FinishPlay
  PROVE  IInv'
<1> DEFINE n == Plain("FinishPlay")
<1>1. /\ Alive /\ ~finishPlay /\ finishPlay' /\ queue' = Append(queue, n)
      /\ UNCHANGED <<track, media, settings, mSender, session, aborted, counts, history>>
  BY DEF FinishPlay
<1>2. UNCHANGED <<track, puller, clock, faults>>
  BY <1>1 DEF media, counts
<1>3. n \in MsgType /\ n.what = "FinishPlay"
  <2>1. "FinishPlay" \in Whats
    BY DEF Whats
  <2> QED BY <2>1, PlainType
<1> HIDE DEF n
<1>4. /\ queue \in Seq(MsgType) /\ Ordered(queue) /\ StartsOnce /\ Undisturbed
  BY <1>1 DEF IInv, Shape, Going, Controlled
<1>5. ASSUME NEW m \in Members(queue) PROVE Fits(m, n) /\ Follows(m, n) /\ Turn(m, n)
  BY <1>1, <1>3, <1>4 DEF StartsOnce, Posted, Fits, Follows, Turn, Is, Ends, Yields
<1>6. queue' = queue \o <<n>>
  BY <1>1, <1>3, <1>4, QueueAppend
<1>7. /\ queue' \in Seq(MsgType) /\ Ordered(queue') /\ Members(queue') = Members(queue) \cup {n}
      /\ InTurn(queue) => InTurn(queue')
  BY <1>3, <1>4, <1>5, <1>6, PostOne
<1>8. StartsOnce'
  <2>1. Posted("InitDone")' => Posted("InitDone")
    BY <1>3, <1>7 DEF Posted
  <2>2. mSender' \in {"init", "none"} /\ ~Posted("InitDone")'
    BY <1>1, <1>4, <2>1 DEF StartsOnce
  <2>3. \A t \in Tracks : ~track'[t].mStarted /\ ~puller'[t].started /\ puller'[t].mPullGeneration = 0
    BY <1>1, <1>2, <1>4 DEF StartsOnce, Unready
  <2> QED BY <1>1, <2>2, <2>3 DEF StartsOnce
<1>9. faults' \in 0..plan.faults /\ faults' >= faults
  BY <1>2, FaultType
<1>10. mSender' \in {"init", "connecting", "half", "connected", "none"}
  BY <1>1 DEF IInv, Shape
<1>11. mSender' # "none" \/ destroying
  BY <1>1, <1>4 DEF Undisturbed
<1>12. UNCHANGED <<track, media, settings, session, aborted, clock, history>>
  BY <1>1, <1>2
<1> QED BY <1>1, <1>3, <1>7, <1>8, <1>9, <1>10, <1>11, <1>12, ConnectStep

(* The connection is opened once.                                          *)
LEMMA OnFinishPlayStep ==
  ASSUME IInv, OnFinishPlay
  PROVE  IInv'
<1>1. /\ Handling("FinishPlay")
      /\ UNCHANGED <<track, media, settings, session, finishPlay, clock, history>>
  BY DEF OnFinishPlay
<1>2. /\ Alive /\ Going /\ queue # <<>> /\ Head(queue) \in Members(queue)
      /\ Head(queue).what = "FinishPlay"
      /\ Tail(queue) \in Seq(MsgType) /\ Members(Tail(queue)) \subseteq Members(queue)
      /\ \A m \in Members(queue) : m = Head(queue) \/ m \in Members(Tail(queue))
      /\ Ordered(Tail(queue)) /\ (InTurn(queue) => InTurn(Tail(queue)))
      /\ \A m \in Members(Tail(queue)) : Fits(Head(queue), m)
  BY <1>1, Handled
<1>3. /\ StartsOnce /\ Undisturbed /\ Posted("FinishPlay") /\ finishPlay /\ Unready
      /\ mSender \in {"init", "none"} /\ ~Posted("InitDone")
  BY <1>2 DEF Going, Controlled, StartsOnce, Posted, Unready
<1>4. \A m \in Members(Tail(queue)) : m.what \notin {"FinishPlay", "InitDone"}
  BY <1>2, <1>3 DEF Fits, Posted
<1>5. \A t \in Tracks : /\ ~track[t].mStarted /\ ~puller[t].started
                        /\ puller[t].mPullGeneration = 0
  BY <1>3 DEF StartsOnce
<1>6. UNCHANGED <<track, puller, registered, mAllTracksHavePacketizerIndex, destroying, mTracks,
                  clock>>
  BY <1>1 DEF media, session
<1>7. registered' = registered \/ mTracks = {}
  BY <1>3, <1>6 DEF Undisturbed
<1>8. CASE Done(<<>>) /\ UNCHANGED <<mSender, faults, aborted>>
  <2>1. UNCHANGED <<sender, counts>>
    BY <1>1, <1>8 DEF sender, counts
  <2> QED BY <1>1, <1>6, <1>7, <1>8, <2>1, NoteStep
<1>9. CASE /\ mSender = "none" /\ Done(<<>>) /\ aborted' = "onFinishPlay"
           /\ UNCHANGED <<mSender, faults>>
  <2>1. queue' \in Seq(MsgType)
    BY <1>2, <1>9, PostNone DEF Done
  <2>2. ChecksHold'
    BY <1>3, <1>6, <1>9 DEF ChecksHold, Undisturbed
  <2>3. UNCHANGED <<track, media, settings, sender, session, counts, history>>
    BY <1>1, <1>9 DEF sender, counts
  <2>4. aborted' # "none"
    BY <1>9
  <2> QED BY <2>1, <2>2, <2>3, <2>4, AbortStep
<1>10. CASE mSender # "none" /\ Done(<<Plain("InitDone")>>) /\ UNCHANGED <<mSender, faults, aborted>>
  <2> DEFINE n == Plain("InitDone")
  <2>1. n \in MsgType /\ n.what = "InitDone"
    <3>1. "InitDone" \in Whats
      BY DEF Whats
    <3> QED BY <3>1, PlainType
  <2>2. queue' = Tail(queue) \o <<n>>
    BY <1>10 DEF Done
  <2> HIDE DEF n
  <2>3. ASSUME NEW m \in Members(Tail(queue)) PROVE Fits(m, n) /\ Follows(m, n) /\ Turn(m, n)
    BY <1>4, <2>1 DEF Fits, Follows, Turn, Is, Ends, Yields
  <2>4. /\ queue' \in Seq(MsgType) /\ Ordered(queue')
        /\ Members(queue') = Members(Tail(queue)) \cup {n}
        /\ InTurn(Tail(queue)) => InTurn(queue')
    BY <1>2, <2>1, <2>2, <2>3, PostOne
  <2>5. StartsOnce'
    <3>1. ~Posted("FinishPlay")' /\ finishPlay' /\ mSender' = "init"
      BY <1>1, <1>3, <1>4, <1>10, <2>1, <2>4 DEF Posted
    <3> QED BY <1>5, <1>6, <3>1 DEF StartsOnce
  <2>6. faults' \in 0..plan.faults /\ faults' >= faults
    BY <1>10, FaultType
  <2>7. /\ mSender' \in {"init", "connecting", "half", "connected", "none"} /\ mSender' # "none"
        /\ UNCHANGED <<track, media, settings, session, aborted, clock, history>>
    BY <1>1, <1>3, <1>10
  <2>8. /\ \A m \in Members(queue') : m \in Members(queue) \/ m.what = "InitDone"
        /\ \A m \in Members(queue) : m \in Members(queue') \/ m.what = "FinishPlay"
    BY <1>2, <2>1, <2>4
  <2> QED BY <1>2, <2>4, <2>5, <2>6, <2>7, <2>8, ConnectStep
<1>11. CASE /\ mSender # "none" /\ Done(<<>>) /\ UNCHANGED aborted
            /\ \/ mSender' = "connecting" /\ UNCHANGED faults
               \/ UNCHANGED mSender /\ Fault
  <2>1. queue' = Tail(queue)
    BY <1>2, <1>11, PostNone DEF Done
  <2>2. StartsOnce'
    <3>1. ~Posted("FinishPlay")' /\ ~Posted("InitDone")' /\ finishPlay'
      BY <1>1, <1>3, <1>4, <2>1 DEF Posted
    <3> QED BY <1>5, <1>6, <3>1 DEF StartsOnce
  <2>3. faults' \in 0..plan.faults /\ faults' >= faults
    BY <1>11, FaultType
  <2>4. /\ mSender' \in {"init", "connecting", "half", "connected", "none"} /\ mSender' # "none"
        /\ UNCHANGED <<track, media, settings, session, aborted, clock, history>>
    BY <1>1, <1>3, <1>11
  <2>5. /\ \A m \in Members(queue') : m \in Members(queue) \/ m.what = "InitDone"
        /\ \A m \in Members(queue) : m \in Members(queue') \/ m.what = "FinishPlay"
    BY <1>2, <2>1
  <2>6. queue' \in Seq(MsgType) /\ Ordered(queue') /\ (InTurn(queue) => InTurn(queue'))
    BY <1>2, <2>1
  <2> QED BY <1>2, <2>2, <2>3, <2>4, <2>5, <2>6, ConnectStep
<1> QED BY <1>8, <1>9, <1>10, <1>11 DEF OnFinishPlay

(* The sockets are connected once each.                                    *)
LEMMA ConnectedStep ==
  ASSUME IInv, Connected
  PROVE  IInv'
<1>1. /\ Alive /\ mSender \in {"connecting", "half"}
      /\ UNCHANGED <<track, media, settings, finishPlay, session, aborted, counts, history>>
  BY DEF Connected
<1>2. /\ queue \in Seq(MsgType) /\ Ordered(queue) /\ StartsOnce /\ Unready
      /\ finishPlay /\ ~Posted("FinishPlay") /\ ~Posted("InitDone")
  BY <1>1 DEF IInv, Shape, Going, Controlled, StartsOnce, Unready
<1>3. \A t \in Tracks : /\ ~track[t].mStarted /\ ~puller[t].started
                        /\ puller[t].mPullGeneration = 0
  BY <1>2 DEF StartsOnce
<1>4. UNCHANGED <<track, puller, clock, faults>>
  BY <1>1 DEF media, counts
<1>5. faults' \in 0..plan.faults /\ faults' >= faults
  BY <1>4, FaultType
<1>6. CASE mSender' = "half" /\ UNCHANGED queue
  <2>1. StartsOnce'
    <3>1. ~Posted("FinishPlay")' /\ ~Posted("InitDone")' /\ finishPlay'
      BY <1>1, <1>2, <1>6 DEF Posted
    <3> QED BY <1>3, <1>4, <3>1 DEF StartsOnce
  <2> QED BY <1>1, <1>2, <1>4, <1>5, <1>6, <2>1, ConnectStep
<1>7. CASE mSender' = "connected" /\ queue' = Append(queue, Plain("InitDone"))
  <2> DEFINE n == Plain("InitDone")
  <2>1. n \in MsgType /\ n.what = "InitDone"
    <3>1. "InitDone" \in Whats
      BY DEF Whats
    <3> QED BY <3>1, PlainType
  <2>2. queue' = queue \o <<n>>
    BY <1>2, <1>7, <2>1, QueueAppend
  <2> HIDE DEF n
  <2>3. ASSUME NEW m \in Members(queue) PROVE Fits(m, n) /\ Follows(m, n) /\ Turn(m, n)
    BY <1>2, <2>1 DEF Posted, Fits, Follows, Turn, Is, Ends, Yields
  <2>4. /\ queue' \in Seq(MsgType) /\ Ordered(queue') /\ Members(queue') = Members(queue) \cup {n}
        /\ InTurn(queue) => InTurn(queue')
    BY <1>2, <2>1, <2>2, <2>3, PostOne
  <2>5. StartsOnce'
    <3>1. ~Posted("FinishPlay")' /\ finishPlay'
      BY <1>1, <1>2, <2>1, <2>4 DEF Posted
    <3> QED BY <1>3, <1>4, <1>7, <3>1 DEF StartsOnce
  <2> QED BY <1>1, <1>4, <1>5, <1>7, <2>1, <2>4, <2>5, ConnectStep
<1> QED BY <1>6, <1>7 DEF Connected

(* The tracks are started, each for the first time.                        *)
LEMMA InitDoneStep ==
  ASSUME IInv, OnInitDone
  PROVE  IInv'
<1>1. Handling("InitDone") /\ Done(<<>>)
  BY DEF OnInitDone
<1>2. /\ Alive /\ Going /\ queue # <<>> /\ Head(queue) \in Members(queue)
      /\ Head(queue).what = "InitDone"
      /\ Tail(queue) \in Seq(MsgType) /\ Members(Tail(queue)) \subseteq Members(queue)
      /\ \A m \in Members(queue) : m = Head(queue) \/ m \in Members(Tail(queue))
      /\ Ordered(Tail(queue)) /\ (InTurn(queue) => InTurn(Tail(queue)))
      /\ \A m \in Members(Tail(queue)) : Fits(Head(queue), m)
  BY <1>1, Handled
<1>3. /\ StartsOnce /\ Undisturbed /\ StopsInOrder /\ NoneRunsAway /\ EndsByFault
      /\ Posted("InitDone") /\ Unready
      /\ finishPlay /\ ~Posted("FinishPlay") /\ mSender \notin {"connecting", "half"}
  BY <1>2 DEF Going, Controlled, StartsOnce, Posted, Unready
<1>4. ~\E m \in Members(Tail(queue)) : m.what \in {"FinishPlay", "InitDone"}
  BY <1>2, <1>3 DEF Fits, Posted
<1>5. \A t \in Tracks : /\ ~track[t].mStarted /\ ~puller[t].started
                        /\ puller[t].mPullGeneration = 0
  BY <1>3 DEF StartsOnce
<1>6. queue' = Tail(queue)
  BY <1>1, <1>2, PostNone DEF Done
<1>7. mTracks \subseteq Tracks
  BY DEF IInv, Shape
<1>8. CASE /\ ~registered
           /\ UNCHANGED <<track, media, settings, sender, session, aborted, counts, history>>
  <2>1. /\ UNCHANGED <<mTracks, mAllTracksHavePacketizerIndex, destroying>>
        /\ registered' = registered \/ mTracks = {}
    BY <1>3, <1>8 DEF session, Undisturbed
  <2> QED BY <1>1, <1>8, <2>1, NoteStep
<1>9. CASE (mSender = "none" \/ MayFail) /\ Abort("onFinishPlay2")
  <2>1. /\ aborted' = "onFinishPlay2"
        /\ UNCHANGED <<track, media, settings, sender, session, counts, history>>
    BY <1>9 DEF Abort
  <2>2. destroying \/ MayFail
    BY <1>3, <1>9 DEF Undisturbed
  <2>3. ChecksHold'
    BY <2>1, <2>2 DEF ChecksHold, MayFail, session, counts, settings
  <2>4. queue' \in Seq(MsgType) /\ aborted' # "none"
    BY <1>2, <1>6, <2>1
  <2> QED BY <2>1, <2>3, <2>4, AbortStep
<1>10. CASE (\E t \in mTracks : track[t].mStarted)
  BY <1>5, <1>7, <1>10
<1>11. CASE
    /\ track' = [t \in Tracks |->
         IF t \in mTracks THEN [track[t] EXCEPT !.mStarted = TRUE] ELSE track[t]]
    /\ puller' = [t \in Tracks |->
         IF t \in mTracks
           THEN [puller[t] EXCEPT !.started = TRUE,
                   !.queue = Append(@, <<"Pull", puller[t].mPullGeneration>>)]
           ELSE puller[t]]
    /\ UNCHANGED <<converter, repeater, settings, sender, session, aborted, counts, history>>
  <2>1. UNCHANGED <<plan, usePCMAudio, converter, repeater, sent, mTracks, mSender, passed, clock,
                    faults, finishPlay, registered, mAllTracksHavePacketizerIndex, destroying,
                    aborted>>
    BY <1>11 DEF settings, sender, session, counts, history
  <2>2. /\ puller \in [Tracks -> PullerType] /\ track \in [Tracks -> TrackType]
        /\ \A t \in Tracks : /\ puller[t].queue = <<>> /\ puller[t].doing = "idle"
                             /\ ~ToldToStop(t)
    <3>1. puller \in [Tracks -> PullerType] /\ track \in [Tracks -> TrackType]
      BY DEF IInv, Shape
    <3>2. \A t \in Tracks : puller[t].queue = <<>> /\ puller[t].doing = "idle"
      BY <1>5 DEF IInv, PullersStopOnce
    <3>3. \A t \in Tracks : ~ToldToStop(t)
      BY <1>3, <1>5 DEF StopsInOrder
    <3> QED BY <3>1, <3>2, <3>3
  <2>3. ASSUME NEW t \in Tracks
        PROVE  /\ puller'[t] \in PullerType /\ puller'[t].mPullGeneration = 0
               /\ puller'[t].doing = "idle" /\ puller'[t].started = (t \in mTracks)
               /\ puller'[t].started \/ puller'[t].queue = <<>>
               /\ OneStop(puller'[t].queue) /\ ~Stops(puller'[t].queue)
    <3>1. CASE t \in mTracks
      <4> DEFINE r == Append(puller[t].queue, <<"Pull", 0>>)
      <4>1. r \in Seq(PullType) /\ OneStop(r) /\ ~Stops(r)
        <5>1. /\ puller[t].queue \in Seq(PullType) /\ OneStop(puller[t].queue)
              /\ ~Stops(puller[t].queue)
          BY <2>2 DEF IInv, PullersStopOnce, PullerType, ToldToStop
        <5>2. "Pull" \in {"Pull", "Stop"} /\ "Pull" # "Stop"
          OBVIOUS
        <5> QED BY <5>1, <5>2, PullQueueAppend
      <4> HIDE DEF r
      <4>2. puller'[t] = [puller[t] EXCEPT !.started = TRUE, !.queue = r]
        BY <1>5, <1>11, <3>1 DEF r
      <4> QED BY <1>5, <2>2, <3>1, <4>1, <4>2 DEF PullerType
    <3>2. CASE t \notin mTracks
      <4>1. puller'[t] = puller[t]
        BY <1>11, <3>2
      <4>2. puller[t] \in PullerType /\ puller[t].started = FALSE
        BY <1>5, <2>2 DEF PullerType
      <4>3. OneStop(puller[t].queue) /\ ~Stops(puller[t].queue)
        BY <2>2 DEF IInv, PullersStopOnce, ToldToStop
      <4>4. (t \in mTracks) = FALSE
        BY <3>2
      <4>5. puller'[t].started = (t \in mTracks)
        BY <4>1, <4>2, <4>4
      <4> QED BY <1>5, <2>2, <4>1, <4>2, <4>3, <4>5
    <3> QED BY <3>1, <3>2
  <2>4. ASSUME NEW t \in Tracks
        PROVE  /\ track'[t] \in TrackType
               /\ track'[t].mStarted = (t \in mTracks)
               /\ track'[t].mConverter = track[t].mConverter
               /\ track'[t].mQueuedAccessUnits = track[t].mQueuedAccessUnits
               /\ track'[t].mQueuedOutputBuffers = track[t].mQueuedOutputBuffers
               /\ track'[t].mPacketizerTrackIndex = track[t].mPacketizerTrackIndex
    <3>1. track[t] \in TrackType /\ track[t].mStarted = FALSE
      BY <1>5, <2>2 DEF TrackType
    <3>2. CASE t \in mTracks
      <4>1. track'[t] = [track[t] EXCEPT !.mStarted = TRUE]
        BY <1>11, <3>2
      <4> QED BY <3>1, <3>2, <4>1 DEF TrackType
    <3>3. CASE t \notin mTracks
      <4>1. track'[t] = track[t]
        BY <1>11, <3>3
      <4>2. (t \in mTracks) = FALSE
        BY <3>3
      <4> QED BY <3>1, <4>1, <4>2
    <3> QED BY <3>2, <3>3
  <2>5. track' \in [Tracks -> TrackType] /\ puller' \in [Tracks -> PullerType]
    BY <1>11, <2>3, <2>4
  <2>6. \A t \in Tracks : ~ToldToStop(t)'
    BY <2>3 DEF ToldToStop
  <2>7. Shape'
    BY <1>2, <1>6, <2>1, <2>4, <2>5 DEF IInv, Shape
  <2>8. PullersStopOnce'
    BY <2>3 DEF PullersStopOnce
  <2>9. StartsOnce'
    BY <1>3, <1>4, <1>6, <2>1 DEF StartsOnce, Unready, Posted
  <2>10. Undisturbed'
    <3> SUFFICES ASSUME ~destroying
                 PROVE  /\ "video" \in mTracks /\ mSender # "none" /\ registered
                        /\ ~Posted("SessionDestroyed")'
                        /\ \A t \in Tracks :
                             /\ track'[t].mConverter /\ track'[t].mStarted = puller'[t].started
                             /\ puller'[t].mPullGeneration = 0
                        /\ \A t \in mTracks : track'[t].mStarted = track'["video"].mStarted
      BY <2>1 DEF Undisturbed
    <3>1. /\ "video" \in mTracks /\ mSender # "none" /\ registered
          /\ ~Posted("SessionDestroyed") /\ \A t \in Tracks : track[t].mConverter
      BY <1>3 DEF Undisturbed
    <3>2. ~Posted("SessionDestroyed")'
      BY <1>2, <1>6, <3>1 DEF Posted
    <3> QED BY <1>7, <2>3, <2>4, <3>1, <3>2
  <2>11. ASSUME NEW t \in Tracks
         PROVE  /\ Ending(t)' <=> Ending(t)
                /\ Queued("TrackStopped", t)' => Queued("TrackStopped", t)
                /\ Queued("Shutdown", t) => Queued("Shutdown", t)'
    BY <1>2, <1>6 DEF Ending, Ends, Queued, Is
  <2>12. StopsInOrder'
    <3> SUFFICES ASSUME NEW t \in Tracks
                 PROVE  /\ Ending(t)' => destroying /\ t \in mTracks
                        /\ Queued("TrackStopped", t)' => ~track'[t].mConverter
                        /\ destroying /\ t \in mTracks =>
                             /\ Queued("Shutdown", t)' \/ ~converter[t].mEncoder
                             /\ puller'[t].mPullGeneration = 0 => Ending(t)'
                        /\ ~track'[t].mConverter => ~converter[t].mEncoder
                        /\ ~converter[t].mEncoder => converter[t].inputs = <<>>
                        /\ \A m \in Members(queue') : Yields(m, t) => t \in mTracks
                        /\ t \notin mTracks => /\ converter[t].inputs = <<>>
                                               /\ puller'[t].doing = "idle"
                                               /\ ~puller'[t].started
                        /\ t \in mTracks => registered /\ ~Posted("SessionDestroyed")'
      BY <2>1, <2>6 DEF StopsInOrder
    <3>1. \A m \in Members(queue') : Yields(m, t) => t \in mTracks
      BY <1>2, <1>3, <1>6 DEF StopsInOrder
    <3>2. t \in mTracks => registered /\ ~Posted("SessionDestroyed")'
      BY <1>2, <1>3, <1>6 DEF StopsInOrder, Posted
    <3> QED BY <1>3, <1>5, <2>2, <2>3, <2>4, <2>11, <3>1, <3>2 DEF StopsInOrder
  <2>13. NoneRunsAway'
    <3> SUFFICES ASSUME Untold'
                 PROVE  /\ puller'["video"].mPullGeneration = 0 /\ ~ToldToStop("video")'
                        /\ InTurn(queue')
                        /\ Queued("MediaPullerStopped", "audio")' => "video" \in mTracks'
                        /\ puller'["audio"].started =>
                             IF "video" \in mTracks' THEN puller'["video"].started
                                                     ELSE track'["audio"].mStarted
      BY DEF NoneRunsAway
    <3>1. "video" \in Tracks /\ "audio" \in Tracks
      BY DEF Tracks
    <3>2. Untold /\ "audio" \in mTracks
      BY <1>5, <2>1, <2>2, <3>1 DEF Untold
    <3>3. InTurn(queue) /\ (Queued("MediaPullerStopped", "audio") => "video" \in mTracks)
      BY <1>3, <3>2 DEF NoneRunsAway
    <3>4. Queued("MediaPullerStopped", "audio")' => Queued("MediaPullerStopped", "audio")
      BY <1>2, <1>6 DEF Queued
    <3> QED BY <1>2, <1>6, <2>1, <2>3, <2>4, <2>6, <3>1, <3>2, <3>3, <3>4
  <2>14. EndsByFault'
    BY <1>2, <1>3, <1>6, <2>1 DEF EndsByFault
  <2>15. Carried'
    <3>1. Carried
      BY <1>2 DEF Going
    <3> QED BY <1>2, <1>6, <1>7, <2>1, <2>4, <3>1, CarriedKept
  <2>16. ChecksHold'
    BY <1>2, <2>1 DEF ChecksHold, Alive
  <2> QED BY <1>2, <1>6, <2>7, <2>8, <2>9, <2>10, <2>12, <2>13, <2>14, <2>15, <2>16
          DEF IInv, Going, Controlled
<1> QED BY <1>8, <1>9, <1>10, <1>11 DEF OnInitDone

-----------------------------------------------------------------------------
(* Going away                                                              *)

(* What is left to do when the session is being destroyed, and only the    *)
(* tracks that end change.                                                 *)
LEMMA LeaveStep ==
  ASSUME IInv, Alive, Shape', PullersStopOnce', Ordered(queue'), StopsInOrder', NoneRunsAway',
         destroying', UNCHANGED <<plan, usePCMAudio, sent, passed, clock, faults, finishPlay,
                                  mAllTracksHavePacketizerIndex, aborted>>,
         mSender' \in {mSender, "none"}, mTracks' \subseteq mTracks,
         \A t \in Tracks :
           /\ track'[t].mStarted => track[t].mStarted
           /\ track'[t].mQueuedAccessUnits = track[t].mQueuedAccessUnits
           /\ track'[t].mQueuedOutputBuffers = track[t].mQueuedOutputBuffers
           /\ track'[t].mPacketizerTrackIndex = track[t].mPacketizerTrackIndex
           /\ puller'[t].started => puller[t].started
           /\ puller[t].started \/ puller'[t].mPullGeneration = puller[t].mPullGeneration
           /\ converter'[t].inputs \in {converter[t].inputs, <<>>},
         \A m \in Members(queue') : m \in Members(queue) \/
           m.what \in {"Shutdown", "MediaPullerStopped", "TrackStopped", "SessionDestroyed"}
  PROVE  IInv'
<1>1. /\ Controlled /\ Carried /\ mTracks \subseteq Tracks
  BY DEF IInv, Shape, Going
<1>2. StartsOnce'
  <2>1. /\ Posted("FinishPlay")' => Posted("FinishPlay")
        /\ Posted("InitDone")' => Posted("InitDone")
    BY DEF Posted
  <2> QED BY <1>1, <2>1, StartsKept DEF Controlled
<1>3. Undisturbed'
  BY DEF Undisturbed
<1>4. EndsByFault'
  <2>1. faults' \in Nat /\ faults' >= faults
    BY FaultType
  <2> QED BY <2>1, FaultsKept
<1>5. Carried'
  BY <1>1, CarriedKept
<1>6. ChecksHold'
  BY DEF ChecksHold, Alive
<1> QED BY <1>2, <1>3, <1>4, <1>5, <1>6 DEF IInv, Going, Controlled

(* An encoder is shut down and forgets its input.                          *)
LEMMA ShutdownStep ==
  ASSUME IInv, OnShutdown
  PROVE  IInv'
<1>1. /\ Handling("Shutdown") /\ Done(<<>>)
      /\ UNCHANGED <<track, puller, repeater, settings, sender, session, aborted, counts, history>>
  BY DEF OnShutdown
<1>2. /\ Alive /\ Going /\ queue # <<>> /\ Head(queue) \in Members(queue)
      /\ Head(queue) \in MsgType /\ Head(queue).what = "Shutdown"
      /\ Tail(queue) \in Seq(MsgType) /\ Members(Tail(queue)) \subseteq Members(queue)
      /\ \A m \in Members(queue) : m = Head(queue) \/ m \in Members(Tail(queue))
      /\ Ordered(Tail(queue)) /\ (InTurn(queue) => InTurn(Tail(queue)))
  BY <1>1, Handled
<1>3. PICK t \in Tracks : Head(queue).track = t
  BY <1>2 DEF MsgType
<1>4. queue' = Tail(queue)
  BY <1>1, <1>2, PostNone DEF Done
<1>5. UNCHANGED <<plan, usePCMAudio, track, puller, repeater, sent, mTracks, mSender, passed, clock,
                  faults, finishPlay, registered, mAllTracksHavePacketizerIndex, destroying,
                  aborted>>
  BY <1>1 DEF settings, sender, session, counts, history
<1>6. /\ StopsInOrder /\ NoneRunsAway /\ Controlled /\ Carried /\ mTracks \subseteq Tracks
      /\ StartsOnce /\ Undisturbed
  BY <1>2 DEF IInv, Shape, Going, Controlled
<1>7. /\ converter' \in [Tracks -> ConverterType]
      /\ converter'[t].mEncoder = (~HasConverter(t) /\ converter[t].mEncoder)
      /\ converter'[t].inputs \in {converter[t].inputs, <<>>}
      /\ HasConverter(t) => converter'[t].inputs = <<>>
      /\ \A k \in Tracks \ {t} : converter'[k] = converter[k]
  <2>1. converter \in [Tracks -> ConverterType] /\ converter[t] \in ConverterType
        /\ <<>> \in Seq(Nat)
    BY DEF IInv, Shape
  <2>2. CASE HasConverter(t)
    <3>1. converter' = [converter EXCEPT ![t].mEncoder = FALSE, ![t].inputs = <<>>]
      BY <1>3, <2>2 DEF OnShutdown
    <3> QED BY <2>1, <2>2, <3>1 DEF ConverterType
  <2>3. CASE ~HasConverter(t)
    <3>1. converter' = converter
      BY <1>3, <2>3 DEF OnShutdown
    <3> QED BY <2>1, <2>3, <3>1 DEF ConverterType
  <2> QED BY <2>2, <2>3
<1>8. Shape'
  BY <1>2, <1>4, <1>5, <1>7 DEF IInv, Shape
<1>9. PullersStopOnce' /\ \A k \in Tracks : ToldToStop(k)' <=> ToldToStop(k)
  BY <1>5, PullersKept
<1>10. ASSUME NEW k \in Tracks
       PROVE  /\ Ending(k)' <=> Ending(k)
              /\ Queued("TrackStopped", k)' => Queued("TrackStopped", k)
              /\ Queued("Shutdown", k) /\ k # t => Queued("Shutdown", k)'
  BY <1>2, <1>3, <1>4 DEF Ending, Ends, Queued, Is
<1>11. StopsInOrder'
  <2> SUFFICES ASSUME NEW k \in Tracks
               PROVE  /\ destroying /\ k \in mTracks =>
                           Queued("Shutdown", k)' \/ ~converter'[k].mEncoder
                      /\ ~track[k].mConverter => ~converter'[k].mEncoder
                      /\ ~converter'[k].mEncoder => converter'[k].inputs = <<>>
                      /\ \A m \in Members(queue') : Yields(m, k) => k \in mTracks
                      /\ k \notin mTracks => converter'[k].inputs = <<>>
                      /\ k \in mTracks => ~Posted("SessionDestroyed")'
    BY <1>5, <1>6, <1>9, <1>10 DEF StopsInOrder
  <2>1. /\ \A m \in Members(queue') : Yields(m, k) => k \in mTracks
        /\ k \in mTracks => ~Posted("SessionDestroyed")'
    BY <1>2, <1>4, <1>6 DEF StopsInOrder, Posted
  <2>2. CASE k = t
    BY <1>6, <1>7, <2>1, <2>2 DEF StopsInOrder, HasConverter
  <2>3. CASE k # t
    BY <1>6, <1>7, <1>10, <2>1, <2>3 DEF StopsInOrder
  <2> QED BY <2>2, <2>3
<1>12. NoneRunsAway'
  <2>1. "audio" \in Tracks /\ "video" \in Tracks
    BY DEF Tracks
  <2>2. Untold' => Untold
    BY <1>5, <1>9, <2>1 DEF Untold
  <2>3. Queued("MediaPullerStopped", "audio")' => Queued("MediaPullerStopped", "audio")
    BY <1>2, <1>4 DEF Queued
  <2> QED BY <1>2, <1>4, <1>5, <1>6, <1>9, <2>1, <2>2, <2>3 DEF NoneRunsAway
<1>13. StartsOnce'
  <2>1. /\ Posted("FinishPlay")' => Posted("FinishPlay")
        /\ Posted("InitDone")' => Posted("InitDone")
    BY <1>2, <1>4 DEF Posted
  <2> QED BY <1>5, <1>6, <2>1, StartsKept
<1>14. Undisturbed'
  BY <1>2, <1>4, <1>5, <1>6 DEF Undisturbed, Posted
<1>15. \A k \in Tracks : converter'[k].inputs \in {converter[k].inputs, <<>>}
  BY <1>7
<1>16. EndsByFault'
  <2>1. faults' \in Nat /\ faults' >= faults
    BY <1>5, FaultType
  <2> QED BY <1>2, <1>4, <1>15, <2>1, FaultsKept
<1>17. Carried'
  BY <1>2, <1>4, <1>5, <1>6, <1>15, CarriedKept
<1>18. ChecksHold'
  BY <1>2, <1>5 DEF ChecksHold, Alive
<1> QED BY <1>2, <1>4, <1>8, <1>9, <1>11, <1>12, <1>13, <1>14, <1>16, <1>17, <1>18
        DEF IInv, Going, Controlled

(* What a track is told when the session is destroyed.                     *)
LEMMA StopAsyncType ==
  ASSUME NEW t \in Tracks
  PROVE  /\ StopAsync(t) \in Seq(MsgType) /\ Ordered(StopAsync(t)) /\ InTurn(StopAsync(t))
         /\ \A m \in Members(StopAsync(t)) : m \in MsgType /\ m.track = t
         /\ \E m \in Members(StopAsync(t)) : m.what = "Shutdown"
         /\ \A m \in Members(StopAsync(t)) :
              m.what = "Shutdown" \/ (m.what = "MediaPullerStopped" /\ ~track[t].mStarted)
         /\ ~track[t].mStarted =>
              \E m \in Members(StopAsync(t)) : m.what = "MediaPullerStopped"
<1> DEFINE s == Message("Shutdown", t, EOS)
           p == Message("MediaPullerStopped", t, EOS)
<1>1. /\ s \in MsgType /\ s.what = "Shutdown" /\ s.track = t
      /\ p \in MsgType /\ p.what = "MediaPullerStopped" /\ p.track = t
  <2>1. "Shutdown" \in Whats /\ "MediaPullerStopped" \in Whats /\ EOS \in Nat
    BY DEF Whats, EOS
  <2> QED BY <2>1, MessageType
<1>2. /\ track[t].mStarted => StopAsync(t) = <<s>> \o <<>>
      /\ ~track[t].mStarted => StopAsync(t) = <<s>> \o <<p>>
  BY DEF StopAsync
<1> HIDE DEF s, p
<1>3. /\ <<s>> \in Seq(MsgType) /\ Members(<<s>>) = {s} /\ Ordered(<<s>>) /\ InTurn(<<s>>)
      /\ <<p>> \in Seq(MsgType) /\ Members(<<p>>) = {p} /\ Ordered(<<p>>) /\ InTurn(<<p>>)
      /\ <<s>> \o <<>> = <<s>>
  <2>1. <<s>> \in Seq(MsgType) /\ Members(<<s>>) = {s} /\ Ordered(<<s>>) /\ InTurn(<<s>>)
    BY <1>1, QueueOne
  <2>2. <<p>> \in Seq(MsgType) /\ Members(<<p>>) = {p} /\ Ordered(<<p>>) /\ InTurn(<<p>>)
    BY <1>1, QueueOne
  <2>3. <<s>> \o <<>> = <<s>>
    BY <2>1
  <2> QED BY <2>1, <2>2, <2>3
<1>4. \A m \in Members(<<s>>), n \in Members(<<p>>) : Fits(m, n) /\ Follows(m, n) /\ Turn(m, n)
  BY <1>1, <1>3 DEF Fits, Follows, Turn, Is, Ends, Yields
<1>5. /\ <<s>> \o <<p>> \in Seq(MsgType) /\ Ordered(<<s>> \o <<p>>) /\ InTurn(<<s>> \o <<p>>)
      /\ Members(<<s>> \o <<p>>) = {s} \cup {p}
  BY <1>3, <1>4, QueueMore
<1>6. CASE track[t].mStarted
  BY <1>1, <1>2, <1>3, <1>6
<1>7. CASE ~track[t].mStarted
  BY <1>1, <1>2, <1>5, <1>7
<1> QED BY <1>6, <1>7

(* Each track is told to shut down its encoder, and its puller, if         *)
(* started, to stop.                                                       *)
LEMMA DestroyAsyncStep ==
  ASSUME IInv, DestroyAsync
  PROVE  IInv'
<1> DEFINE A == StopAsync("video")
           B == IF "audio" \in mTracks THEN StopAsync("audio") ELSE <<>>
<1>1. /\ Alive /\ ~destroying /\ destroying'
      /\ queue' = queue \o A \o B
      /\ repeater' = IF track["video"].mStarted THEN WakeUp ELSE repeater
      /\ puller' = [t \in Tracks |->
           IF t \in mTracks /\ track[t].mStarted
             THEN [puller[t] EXCEPT !.queue = Append(@, <<"Stop", 0>>)] ELSE puller[t]]
      /\ UNCHANGED <<track, converter, settings, sender, mTracks, mWeAreDead,
                     mAllTracksHavePacketizerIndex, registered, aborted, counts, history>>
  BY DEF DestroyAsync
<1>2. UNCHANGED <<plan, usePCMAudio, track, converter, sent, mTracks, mSender, passed, clock,
                  faults, finishPlay, registered, mAllTracksHavePacketizerIndex, aborted>>
  BY <1>1 DEF settings, sender, counts, history
<1>3. /\ queue \in Seq(MsgType) /\ Ordered(queue) /\ Undisturbed /\ StopsInOrder /\ Controlled
      /\ "video" \in mTracks /\ mTracks \subseteq Tracks
      /\ "video" \in Tracks /\ "audio" \in Tracks
      /\ registered /\ ~Posted("SessionDestroyed")
      /\ puller \in [Tracks -> PullerType]
  BY <1>1 DEF IInv, Shape, Going, Controlled, Undisturbed, Tracks
<1>4. \A t \in Tracks : /\ ~ToldToStop(t) /\ ~Ending(t)
                        /\ puller[t].mPullGeneration = 0
                        /\ track[t].mStarted = puller[t].started
  BY <1>1, <1>3 DEF StopsInOrder, Undisturbed
<1>5. \A m \in Members(queue), t \in Tracks : ~Ends(m, t)
  BY <1>4 DEF Ending
<1>6. /\ A \in Seq(MsgType) /\ Ordered(A) /\ InTurn(A)
      /\ \A m \in Members(A) : /\ m \in MsgType /\ m.track = "video"
                               /\ m.what = "Shutdown" \/
                                    (m.what = "MediaPullerStopped" /\ ~track["video"].mStarted)
      /\ \E m \in Members(A) : m.what = "Shutdown"
      /\ ~track["video"].mStarted => \E m \in Members(A) : m.what = "MediaPullerStopped"
  BY <1>3, StopAsyncType
<1>7. /\ B \in Seq(MsgType) /\ Ordered(B) /\ InTurn(B)
      /\ \A m \in Members(B) : /\ m \in MsgType /\ m.track = "audio" /\ "audio" \in mTracks
                               /\ m.what = "Shutdown" \/
                                    (m.what = "MediaPullerStopped" /\ ~track["audio"].mStarted)
      /\ "audio" \in mTracks => \E m \in Members(B) : m.what = "Shutdown"
      /\ "audio" \in mTracks /\ ~track["audio"].mStarted =>
           \E m \in Members(B) : m.what = "MediaPullerStopped"
  <2>1. CASE "audio" \in mTracks
    BY <1>3, <2>1, StopAsyncType
  <2>2. CASE "audio" \notin mTracks
    BY <2>2, QueueNone
  <2> QED BY <2>1, <2>2
<1> HIDE DEF A, B
<1>8. InTurn(queue)
  <2>1. \A i \in 1..Len(queue) : queue[i] \in Members(queue)
    BY DEF Members
  <2> QED BY <1>5, <2>1 DEF InTurn, Turn
<1>9. /\ queue \o A \in Seq(MsgType) /\ Ordered(queue \o A) /\ InTurn(queue \o A)
      /\ Members(queue \o A) = Members(queue) \cup Members(A)
  <2>1. ASSUME NEW m \in Members(queue), NEW n \in Members(A)
        PROVE  Fits(m, n) /\ Follows(m, n) /\ Turn(m, n)
    <3>1. \A t \in Tracks : ~Ends(m, t)
      BY <1>5
    <3>2. n.what \in {"Shutdown", "MediaPullerStopped"}
      BY <1>6
    <3>3. \A t \in Tracks : ~Is(m, "MediaPullerStopped", t) /\ ~Is(m, "TrackStopped", t)
      BY <3>1 DEF Ends, Is
    <3> QED BY <3>1, <3>2, <3>3 DEF Fits, Follows, Turn, Is
  <2> QED BY <1>3, <1>6, <1>8, <2>1, QueueMore
<1>10. /\ queue' \in Seq(MsgType) /\ Ordered(queue') /\ InTurn(queue')
       /\ Members(queue') = Members(queue) \cup Members(A) \cup Members(B)
  <2>1. ASSUME NEW m \in Members(queue \o A), NEW n \in Members(B)
        PROVE  Fits(m, n) /\ Follows(m, n) /\ Turn(m, n)
    <3>1. n.what \in {"Shutdown", "MediaPullerStopped"} /\ n.track = "audio"
      BY <1>7
    <3>2. CASE m \in Members(queue)
      <4>1. \A t \in Tracks : ~Ends(m, t)
        BY <1>5, <3>2
      <4>2. \A t \in Tracks : ~Is(m, "MediaPullerStopped", t) /\ ~Is(m, "TrackStopped", t)
        BY <4>1 DEF Ends, Is
      <4> QED BY <3>1, <4>1, <4>2 DEF Fits, Follows, Turn, Is
    <3>3. CASE m \in Members(A)
      <4>1. m.what \in {"Shutdown", "MediaPullerStopped"} /\ m.track = "video"
        BY <1>6, <3>3
      <4> QED BY <3>1, <4>1 DEF Fits, Follows, Turn, Is, Ends, Yields
    <3> QED BY <1>9, <3>2, <3>3
  <2> QED BY <1>1, <1>7, <1>9, <2>1, QueueMore
<1>11. ASSUME NEW t \in Tracks
       PROVE  /\ puller'[t] \in PullerType /\ puller'[t].mPullGeneration = 0
              /\ puller'[t].doing = puller[t].doing /\ puller'[t].doing # "stopping"
              /\ puller'[t].started = puller[t].started
              /\ puller'[t].queue = puller[t].queue \/ puller'[t].started
              /\ OneStop(puller'[t].queue)
              /\ Stops(puller'[t].queue) <=> t \in mTracks /\ track[t].mStarted
  <2>1. /\ puller[t] \in PullerType /\ puller[t].queue \in Seq(PullType)
        /\ OneStop(puller[t].queue) /\ ~Stops(puller[t].queue) /\ puller[t].doing # "stopping"
    BY <1>3, <1>4 DEF IInv, PullersStopOnce, PullerType, ToldToStop
  <2>2. CASE t \in mTracks /\ track[t].mStarted
    <3> DEFINE r == Append(puller[t].queue, <<"Stop", 0>>)
    <3>1. r \in Seq(PullType) /\ OneStop(r) /\ Stops(r)
      <4>1. "Stop" \in {"Pull", "Stop"}
        OBVIOUS
      <4> QED BY <2>1, <4>1, PullQueueAppend
    <3>2. puller'[t] = [puller[t] EXCEPT !.queue = r]
      BY <1>1, <2>2
    <3> HIDE DEF r
    <3> QED BY <1>4, <2>1, <2>2, <3>1, <3>2 DEF PullerType
  <2>3. CASE ~(t \in mTracks /\ track[t].mStarted)
    <3>1. puller'[t] = puller[t]
      BY <1>1, <2>3
    <3> QED BY <1>4, <2>1, <2>3, <3>1
  <2> QED BY <2>2, <2>3
<1>12. puller' \in [Tracks -> PullerType]
  BY <1>1, <1>11
<1>13. \A t \in Tracks : ToldToStop(t)' <=> t \in mTracks /\ track[t].mStarted
  BY <1>11 DEF ToldToStop
<1>14. Shape'
  <2>1. repeater' \in [frame : {"none", "fresh", "stale"}, mStartTimeUs : BOOLEAN]
    BY <1>1, WakeUpType DEF IInv, Shape
  <2> QED BY <1>2, <1>10, <1>12, <2>1 DEF IInv, Shape
<1>15. PullersStopOnce'
  <2> SUFFICES ASSUME NEW t \in Tracks
               PROVE  /\ puller'[t].started => puller'[t].mPullGeneration = 0
                      /\ puller'[t].doing # "idle" => puller'[t].started
                      /\ puller'[t].queue # <<>> /\ puller'[t].mPullGeneration = 0 =>
                           puller'[t].started
                      /\ OneStop(puller'[t].queue)
                      /\ puller'[t].doing = "stopping" => ~Stops(puller'[t].queue)
    BY DEF PullersStopOnce
  <2>1. /\ puller[t].doing # "idle" => puller[t].started
        /\ puller[t].queue # <<>> /\ puller[t].mPullGeneration = 0 => puller[t].started
    BY DEF IInv, PullersStopOnce
  <2> QED BY <1>4, <1>11, <2>1
<1>16. ASSUME NEW t \in Tracks
       PROVE  /\ Ending(t)' <=> t \in mTracks /\ ~track[t].mStarted
              /\ ~Queued("TrackStopped", t)'
              /\ t \in mTracks => Queued("Shutdown", t)'
  <2>1. \A m \in Members(queue') : m.what = "TrackStopped" => ~Ends(m, t)
    BY <1>5, <1>6, <1>7, <1>10
  <2>2. ~Queued("TrackStopped", t)'
    BY <2>1 DEF Queued, Is, Ends
  <2>3. Ending(t)' => t \in mTracks /\ ~track[t].mStarted
    BY <1>3, <1>5, <1>6, <1>7, <1>10 DEF Ending, Ends
  <2>4. t = "video" \/ t = "audio"
    BY DEF Tracks
  <2>5. t \in mTracks /\ ~track[t].mStarted => Ending(t)'
    BY <1>6, <1>7, <1>10, <2>4 DEF Ending, Ends
  <2>6. t \in mTracks => Queued("Shutdown", t)'
    BY <1>6, <1>7, <1>10, <2>4 DEF Queued, Is
  <2> QED BY <2>2, <2>3, <2>5, <2>6
<1>17. ~Posted("SessionDestroyed")'
  BY <1>3, <1>6, <1>7, <1>10 DEF Posted
<1>18. StopsInOrder'
  <2> SUFFICES ASSUME NEW t \in Tracks
               PROVE  /\ ToldToStop(t)' => puller'[t].started /\ ~Ending(t)'
                      /\ ToldToStop(t)' \/ Ending(t)' => t \in mTracks
                      /\ ~Queued("TrackStopped", t)'
                      /\ t \in mTracks => Queued("Shutdown", t)' /\ (ToldToStop(t)' \/ Ending(t)')
                      /\ ~track[t].mConverter => ~converter[t].mEncoder
                      /\ ~converter[t].mEncoder => converter[t].inputs = <<>>
                      /\ \A m \in Members(queue') : Yields(m, t) => t \in mTracks
                      /\ t \notin mTracks => /\ converter[t].inputs = <<>>
                                             /\ puller'[t].doing = "idle"
                                             /\ ~puller'[t].started
                      /\ t \in mTracks => registered /\ ~Posted("SessionDestroyed")'
    BY <1>1, <1>2 DEF StopsInOrder
  <2>1. \A m \in Members(queue') : Yields(m, t) => t \in mTracks
    BY <1>3, <1>6, <1>7, <1>10 DEF StopsInOrder, Yields
  <2>2. /\ ~track[t].mConverter => ~converter[t].mEncoder
        /\ ~converter[t].mEncoder => converter[t].inputs = <<>>
        /\ t \notin mTracks => /\ converter[t].inputs = <<>>
                               /\ puller'[t].doing = "idle" /\ ~puller'[t].started
    BY <1>3, <1>11 DEF StopsInOrder
  <2> QED BY <1>3, <1>4, <1>11, <1>13, <1>16, <1>17, <2>1, <2>2
<1>19. NoneRunsAway'
  <2> SUFFICES ASSUME Untold'
               PROVE  /\ puller'["video"].mPullGeneration = 0 /\ ~ToldToStop("video")'
                      /\ ~puller'["audio"].started
    BY <1>2, <1>3, <1>10 DEF NoneRunsAway
  <2>1. "audio" \in mTracks /\ ~track["audio"].mStarted
    BY <1>2, <1>3, <1>13 DEF Untold
  <2>2. ~track["video"].mStarted
    BY <1>1, <1>3, <2>1 DEF Undisturbed
  <2> QED BY <1>3, <1>4, <1>11, <1>13, <2>1, <2>2
<1>20. /\ \A t \in Tracks : /\ puller'[t].started = puller[t].started
                            /\ puller'[t].mPullGeneration = puller[t].mPullGeneration
       /\ \A m \in Members(queue') : m \in Members(queue) \/
            m.what \in {"Shutdown", "MediaPullerStopped", "TrackStopped", "SessionDestroyed"}
  BY <1>4, <1>6, <1>7, <1>10, <1>11
<1> QED BY <1>1, <1>2, <1>10, <1>14, <1>15, <1>18, <1>19, <1>20, LeaveStep

(* A puller has stopped, and tells its track.                              *)
LEMMA StoppedStep ==
  ASSUME IInv, NEW t \in Tracks, Stopped(t)
  PROVE  IInv'
<1> DEFINE p == [puller[t] EXCEPT !.doing = "idle", !.started = FALSE,
                                  !.mPullGeneration = @ + 1]
           n == Message("MediaPullerStopped", t, EOS)
<1>1. /\ Alive /\ puller[t].doing = "stopping"
      /\ puller' = [puller EXCEPT ![t].doing = "idle", ![t].started = FALSE,
                                  ![t].mPullGeneration = @ + 1]
      /\ queue' = Append(queue, n)
      /\ repeater' = IF t = "video" THEN [repeater EXCEPT !.frame = "none"] ELSE repeater
      /\ UNCHANGED <<track, converter, settings, sender, session, aborted, counts, history>>
  BY DEF Stopped
<1>2. UNCHANGED <<plan, usePCMAudio, track, converter, sent, mTracks, mSender, passed, clock,
                  faults, finishPlay, registered, mAllTracksHavePacketizerIndex, destroying,
                  aborted>>
  BY <1>1 DEF settings, sender, session, counts, history
<1>3. /\ queue \in Seq(MsgType) /\ Ordered(queue) /\ StopsInOrder /\ NoneRunsAway
      /\ puller \in [Tracks -> PullerType]
  BY <1>1 DEF IInv, Shape, Going, Controlled
<1>4. /\ ToldToStop(t) /\ puller[t].started /\ ~Ending(t) /\ destroying /\ t \in mTracks
      /\ puller[t].mPullGeneration = 0 /\ OneStop(puller[t].queue) /\ ~Stops(puller[t].queue)
  <2>1. ToldToStop(t)
    BY <1>1 DEF ToldToStop
  <2>2. puller[t].started /\ ~Ending(t) /\ destroying /\ t \in mTracks
    BY <1>3, <2>1 DEF StopsInOrder
  <2> QED BY <1>1, <2>1, <2>2 DEF IInv, PullersStopOnce
<1>5. n \in MsgType /\ n.what = "MediaPullerStopped" /\ n.track = t
  <2>1. "MediaPullerStopped" \in Whats /\ EOS \in Nat
    BY DEF Whats, EOS
  <2> QED BY <2>1, MessageType
<1> HIDE DEF n
<1>6. /\ p \in PullerType /\ p.queue = puller[t].queue /\ p.doing = "idle" /\ ~p.started
      /\ p.mPullGeneration = 1 /\ PullerIs(t, p)
  BY <1>1, <1>3, <1>4 DEF PullerType, PullerIs
<1> HIDE DEF p
<1>7. /\ PullersStopOnce' /\ puller' \in [Tracks -> PullerType]
      /\ puller'[t] = p /\ \A k \in Tracks \ {t} : puller'[k] = puller[k]
      /\ ~ToldToStop(t)' /\ \A k \in Tracks \ {t} : ToldToStop(k)' <=> ToldToStop(k)
  BY <1>4, <1>6, PullerChanges
<1>9. \A m \in Members(queue) : Fits(m, n) /\ Follows(m, n)
  <2> SUFFICES ASSUME NEW m \in Members(queue)
               PROVE  Fits(m, n) /\ Follows(m, n)
    OBVIOUS
  <2>1. ~Ends(m, t)
    BY <1>4 DEF Ending
  <2> QED BY <1>5, <2>1 DEF Fits, Follows, Is, Ends, Yields
<1>10. queue' = queue \o <<n>>
  BY <1>1, <1>3, <1>5, QueueAppend
<1>11. queue' \in Seq(MsgType) /\ Ordered(queue') /\ Members(queue') = Members(queue) \cup {n}
  BY <1>3, <1>5, <1>9, <1>10, PostOne
<1>12. Shape'
  <2>1. repeater' \in [frame : {"none", "fresh", "stale"}, mStartTimeUs : BOOLEAN]
    BY <1>1 DEF IInv, Shape
  <2> QED BY <1>2, <1>7, <1>11, <2>1 DEF IInv, Shape
<1>13. StopsInOrder'
  <2> SUFFICES ASSUME NEW k \in Tracks
               PROVE  /\ ToldToStop(k)' => puller'[k].started /\ ~Ending(k)'
                      /\ ToldToStop(k)' \/ Ending(k)' => k \in mTracks
                      /\ Queued("TrackStopped", k)' => ~track[k].mConverter
                      /\ k \in mTracks =>
                           /\ Queued("Shutdown", k)' \/ ~converter[k].mEncoder
                           /\ puller'[k].mPullGeneration = 0 => ToldToStop(k)' \/ Ending(k)'
                      /\ ~track[k].mConverter => ~converter[k].mEncoder
                      /\ ~converter[k].mEncoder => converter[k].inputs = <<>>
                      /\ \A m \in Members(queue') : Yields(m, k) => k \in mTracks
                      /\ k \notin mTracks => /\ converter[k].inputs = <<>>
                                             /\ puller'[k].doing = "idle"
                                             /\ ~puller'[k].started
                      /\ k \in mTracks => registered /\ ~Posted("SessionDestroyed")'
    BY <1>2, <1>4 DEF StopsInOrder
  <2>1. /\ Queued("TrackStopped", k)' => Queued("TrackStopped", k)
        /\ Queued("Shutdown", k) => Queued("Shutdown", k)'
        /\ Ending(k)' => Ending(k) \/ k = t
        /\ Ending(k) => Ending(k)'
    BY <1>5, <1>11 DEF Queued, Ending, Is, Ends
  <2>2. /\ \A m \in Members(queue') : Yields(m, k) => k \in mTracks
        /\ k \in mTracks => registered /\ ~Posted("SessionDestroyed")'
    BY <1>3, <1>5, <1>11 DEF StopsInOrder, Yields, Posted
  <2>3. CASE k = t
    BY <1>3, <1>4, <1>6, <1>7, <2>1, <2>2, <2>3 DEF StopsInOrder
  <2>4. CASE k # t
    BY <1>3, <1>4, <1>7, <2>1, <2>2, <2>4 DEF StopsInOrder
  <2> QED BY <2>3, <2>4
<1>14. NoneRunsAway'
  <2>1. ~Untold'
    <3> SUFFICES ASSUME Untold' PROVE FALSE
      OBVIOUS
    <3>1. "audio" \in Tracks /\ (t = "video" \/ t = "audio")
      BY DEF Tracks
    <3>2. t # "audio"
      BY <1>6, <1>7, <3>1 DEF Untold
    <3>3. Untold
      BY <1>2, <1>7, <3>1, <3>2 DEF Untold
    <3> QED BY <1>3, <1>4, <3>1, <3>2, <3>3 DEF NoneRunsAway
  <2> QED BY <2>1 DEF NoneRunsAway
<1>15. \A k \in Tracks : /\ puller'[k].started => puller[k].started
                         /\ puller[k].started \/
                              puller'[k].mPullGeneration = puller[k].mPullGeneration
  BY <1>4, <1>6, <1>7
<1>16. \A m \in Members(queue') : m \in Members(queue) \/
         m.what \in {"Shutdown", "MediaPullerStopped", "TrackStopped", "SessionDestroyed"}
  BY <1>5, <1>11
<1> QED BY <1>1, <1>2, <1>4, <1>7, <1>11, <1>12, <1>13, <1>14, <1>15, <1>16, LeaveStep

(* The track lets its converter go, and tells the session.                 *)
LEMMA MediaPullerStoppedStep ==
  ASSUME IInv, OnMediaPullerStopped
  PROVE  IInv'
<1>1. /\ Handling("MediaPullerStopped")
      /\ UNCHANGED <<media, settings, sender, session, aborted, counts, history>>
  BY DEF OnMediaPullerStopped
<1>2. /\ Alive /\ Going /\ queue # <<>> /\ Head(queue) \in Members(queue)
      /\ Head(queue) \in MsgType /\ Head(queue).what = "MediaPullerStopped"
      /\ Tail(queue) \in Seq(MsgType) /\ Members(Tail(queue)) \subseteq Members(queue)
      /\ \A m \in Members(queue) : m = Head(queue) \/ m \in Members(Tail(queue))
      /\ Ordered(Tail(queue)) /\ (InTurn(queue) => InTurn(Tail(queue)))
      /\ \A m \in Members(Tail(queue)) : Fits(Head(queue), m)
      /\ InTurn(queue) => \A m \in Members(Tail(queue)) : Turn(Head(queue), m)
  BY <1>1, Handled
<1>3. PICK t \in Tracks : Head(queue).track = t
  BY <1>2 DEF MsgType
<1>4. UNCHANGED <<plan, usePCMAudio, converter, puller, repeater, sent, mTracks, mSender, passed,
                  clock, faults, finishPlay, registered, mAllTracksHavePacketizerIndex,
                  destroying, aborted>>
  BY <1>1 DEF media, settings, sender, session, counts, history
<1>5. /\ StopsInOrder /\ NoneRunsAway /\ track \in [Tracks -> TrackType]
      /\ Ends(Head(queue), t) /\ Ending(t)
      /\ destroying /\ t \in mTracks /\ ~ToldToStop(t)
  <2>1. /\ StopsInOrder /\ NoneRunsAway /\ track \in [Tracks -> TrackType]
        /\ Ends(Head(queue), t) /\ Ending(t)
    BY <1>2, <1>3 DEF IInv, Shape, Going, Controlled, Ending, Ends
  <2> QED BY <2>1 DEF StopsInOrder
<1> DEFINE n == Message("TrackStopped", t, EOS)
<1>6. n \in MsgType /\ n.what = "TrackStopped" /\ n.track = t
  <2>1. "TrackStopped" \in Whats /\ EOS \in Nat
    BY DEF Whats, EOS
  <2> QED BY <2>1, MessageType
<1>7. /\ track' = [track EXCEPT ![t].mConverter = FALSE, ![t].mStarted = FALSE]
      /\ queue' = Tail(queue) \o <<n>>
  BY <1>3, <1>5 DEF OnMediaPullerStopped, Done
<1> HIDE DEF n
<1>8. /\ track' \in [Tracks -> TrackType] /\ ~track'[t].mConverter /\ ~track'[t].mStarted
      /\ \A k \in Tracks \ {t} : track'[k] = track[k]
      /\ \A k \in Tracks :
           /\ track'[k].mQueuedAccessUnits = track[k].mQueuedAccessUnits
           /\ track'[k].mQueuedOutputBuffers = track[k].mQueuedOutputBuffers
           /\ track'[k].mPacketizerTrackIndex = track[k].mPacketizerTrackIndex
  BY <1>5, <1>7 DEF TrackType
<1>9. ASSUME NEW m \in Members(Tail(queue))
      PROVE  Fits(m, n) /\ Follows(m, n) /\ ~Ends(m, t) /\ ~Is(m, "Shutdown", t)
  <2>1. ~Ends(m, t) /\ ~Is(m, "Shutdown", t)
    BY <1>2, <1>3, <1>5 DEF Fits, Is
  <2> QED BY <1>6, <2>1 DEF Fits, Follows, Is, Ends, Yields
<1>10. ASSUME InTurn(queue), NEW m \in Members(Tail(queue))
       PROVE  Turn(m, n)
  <2> SUFFICES ASSUME NEW k \in Tracks, k # t, Ends(m, k)
               PROVE  \/ Is(m, "MediaPullerStopped", "audio") /\ t = "video"
                      \/ Is(m, "TrackStopped", "video") /\ t = "audio"
    BY <1>6 DEF Turn, Is, Ends
  <2>1. \/ t = "video" /\ Is(m, "MediaPullerStopped", "audio")
        \/ t = "audio" /\ Is(m, "TrackStopped", "video")
    <3>1. Turn(Head(queue), m)
      BY <1>2, <1>10
    <3> QED BY <1>2, <1>3, <1>5, <3>1 DEF Turn, Is
  <2> QED BY <2>1
<1>11. /\ queue' \in Seq(MsgType) /\ Ordered(queue')
       /\ Members(queue') = Members(Tail(queue)) \cup {n}
       /\ InTurn(queue) => InTurn(queue')
  BY <1>2, <1>6, <1>7, <1>9, <1>10, PostOne
<1>12. Shape'
  BY <1>4, <1>8, <1>11 DEF IInv, Shape
<1>13. PullersStopOnce' /\ \A k \in Tracks : ToldToStop(k)' <=> ToldToStop(k)
  BY <1>4, PullersKept
<1>14. ~converter[t].mEncoder
  <2>1. ~Queued("Shutdown", t)
    BY <1>2, <1>9 DEF Queued, Is
  <2> QED BY <1>5, <2>1 DEF StopsInOrder
<1>15. StopsInOrder'
  <2> SUFFICES ASSUME NEW k \in Tracks
               PROVE  /\ ToldToStop(k)' => puller[k].started /\ ~Ending(k)'
                      /\ ToldToStop(k)' \/ Ending(k)' => k \in mTracks
                      /\ Queued("TrackStopped", k)' => ~track'[k].mConverter
                      /\ k \in mTracks =>
                           /\ Queued("Shutdown", k)' \/ ~converter[k].mEncoder
                           /\ puller[k].mPullGeneration = 0 => ToldToStop(k)' \/ Ending(k)'
                      /\ ~track'[k].mConverter => ~converter[k].mEncoder
                      /\ ~converter[k].mEncoder => converter[k].inputs = <<>>
                      /\ \A m \in Members(queue') : Yields(m, k) => k \in mTracks
                      /\ k \notin mTracks => /\ converter[k].inputs = <<>>
                                             /\ puller[k].doing = "idle"
                                             /\ ~puller[k].started
                      /\ k \in mTracks => registered /\ ~Posted("SessionDestroyed")'
    BY <1>4, <1>5 DEF StopsInOrder
  <2>1. /\ Queued("TrackStopped", k)' => Queued("TrackStopped", k) \/ k = t
        /\ Queued("Shutdown", k) => Queued("Shutdown", k)'
        /\ Ending(k)' <=> Ending(k)
    <3>1. Queued("TrackStopped", k)' => Queued("TrackStopped", k) \/ k = t
      BY <1>2, <1>6, <1>11 DEF Queued, Is
    <3>2. Queued("Shutdown", k) => Queued("Shutdown", k)'
      BY <1>2, <1>11 DEF Queued, Is
    <3>3. Ending(k)' => Ending(k)
      BY <1>2, <1>5, <1>6, <1>11 DEF Ending, Ends
    <3>4. Ending(k) => Ending(k)'
      <4>1. CASE k = t
        BY <1>6, <1>11, <4>1 DEF Ending, Ends
      <4>2. CASE k # t
        BY <1>2, <1>3, <1>11, <4>2 DEF Ending, Ends
      <4> QED BY <4>1, <4>2
    <3> QED BY <3>1, <3>2, <3>3, <3>4
  <2>2. /\ \A m \in Members(queue') : Yields(m, k) => k \in mTracks
        /\ k \in mTracks => registered /\ ~Posted("SessionDestroyed")'
    BY <1>2, <1>5, <1>6, <1>11 DEF StopsInOrder, Yields, Posted
  <2>3. CASE k = t
    BY <1>5, <1>8, <1>13, <1>14, <2>1, <2>2, <2>3 DEF StopsInOrder
  <2>4. CASE k # t
    BY <1>5, <1>8, <1>13, <2>1, <2>2, <2>4 DEF StopsInOrder
  <2> QED BY <2>3, <2>4
<1>16. NoneRunsAway'
  <2> SUFFICES ASSUME Untold'
               PROVE  /\ puller["video"].mPullGeneration = 0 /\ ~ToldToStop("video")'
                      /\ InTurn(queue')
                      /\ Queued("MediaPullerStopped", "audio")' => "video" \in mTracks
                      /\ puller["audio"].started =>
                           IF "video" \in mTracks THEN puller["video"].started
                                                  ELSE track'["audio"].mStarted
    BY <1>4 DEF NoneRunsAway
  <2>1. "video" \in Tracks /\ "audio" \in Tracks
    BY DEF Tracks
  <2>2. Untold
    BY <1>4, <1>13, <2>1 DEF Untold
  <2>3. Queued("MediaPullerStopped", "audio")' => Queued("MediaPullerStopped", "audio")
    BY <1>2, <1>6, <1>11 DEF Queued, Is
  <2>4. "video" \notin mTracks => t # "audio"
    <3>1. t = "audio" => Queued("MediaPullerStopped", "audio")
      BY <1>2, <1>3 DEF Queued, Is
    <3> QED BY <1>5, <2>2, <3>1 DEF NoneRunsAway
  <2>5. "video" \notin mTracks => track'["audio"] = track["audio"]
    BY <1>8, <2>1, <2>4
  <2> QED BY <1>5, <1>11, <1>13, <2>1, <2>2, <2>3, <2>5 DEF NoneRunsAway
<1>17. \A m \in Members(queue') : m \in Members(queue) \/
         m.what \in {"Shutdown", "MediaPullerStopped", "TrackStopped", "SessionDestroyed"}
  BY <1>2, <1>6, <1>11
<1>18. \A k \in Tracks : track'[k].mStarted => track[k].mStarted
  BY <1>8
<1> QED BY <1>2, <1>4, <1>5, <1>8, <1>11, <1>12, <1>13, <1>15, <1>16, <1>17, <1>18, LeaveStep

(* A track goes, and nothing of it is left at work.                        *)
LEMMA TrackStoppedStep ==
  ASSUME IInv, OnTrackStopped
  PROVE  IInv'
<1>1. Handling("TrackStopped")
  BY DEF OnTrackStopped
<1>2. /\ Alive /\ Going /\ queue # <<>> /\ Head(queue) \in Members(queue)
      /\ Head(queue) \in MsgType /\ Head(queue).what = "TrackStopped"
      /\ Tail(queue) \in Seq(MsgType) /\ Members(Tail(queue)) \subseteq Members(queue)
      /\ \A m \in Members(queue) : m = Head(queue) \/ m \in Members(Tail(queue))
      /\ Ordered(Tail(queue)) /\ (InTurn(queue) => InTurn(Tail(queue)))
      /\ \A m \in Members(Tail(queue)) : Fits(Head(queue), m)
      /\ InTurn(queue) => \A m \in Members(Tail(queue)) : Turn(Head(queue), m)
  BY <1>1, Handled
<1>3. PICK t \in Tracks : Head(queue).track = t
  BY <1>2 DEF MsgType
<1>4. /\ StopsInOrder /\ NoneRunsAway /\ mTracks \subseteq Tracks
      /\ Ends(Head(queue), t) /\ Is(Head(queue), "TrackStopped", t)
      /\ Ending(t) /\ Queued("TrackStopped", t)
  BY <1>2, <1>3 DEF IInv, Shape, Going, Controlled, Ending, Ends, Queued, Is
<1>5. /\ destroying /\ t \in mTracks /\ ~ToldToStop(t) /\ registered
      /\ ~Posted("SessionDestroyed") /\ converter[t].inputs = <<>>
  BY <1>4 DEF StopsInOrder
<1>6. ASSUME Done(<<>>), aborted' \in {"valueFor", "~Track", "~RepeaterSource"},
             UNCHANGED <<track, media, settings, sender, session, counts, history>>,
             aborted' = "valueFor" => t \notin mTracks
      PROVE  IInv'
  <2>1. queue' \in Seq(MsgType)
    BY <1>2, <1>6, PostNone DEF Done
  <2>2. ChecksHold'
    BY <1>5, <1>6 DEF ChecksHold, session
  <2>3. aborted' # "none"
    BY <1>6
  <2> QED BY <1>6, <2>1, <2>2, <2>3, AbortStep
<1>7. ASSUME ~track[t].mStarted, t = "video" => ~puller[t].started,
             mTracks' = mTracks \ {t},
             IF mTracks' = {}
               THEN mSender' = "none" /\ Done(<<Plain("SessionDestroyed")>>)
               ELSE UNCHANGED mSender /\ Done(<<>>),
             UNCHANGED <<track, media, settings, finishPlay, destroying, registered,
                         mAllTracksHavePacketizerIndex, mWeAreDead, aborted, counts, history>>
      PROVE  IInv'
  <2>1. UNCHANGED <<plan, usePCMAudio, track, converter, puller, repeater, sent, passed, clock,
                    faults, finishPlay, registered, mAllTracksHavePacketizerIndex, destroying,
                    aborted>>
    BY <1>7 DEF media, settings, counts, history
  <2>2. PullersStopOnce' /\ \A k \in Tracks : ToldToStop(k)' <=> ToldToStop(k)
    BY <2>1, PullersKept
  <2>3. /\ queue' \in Seq(MsgType) /\ Ordered(queue')
        /\ Members(Tail(queue)) \subseteq Members(queue')
        /\ \A m \in Members(queue') : m \in Members(Tail(queue)) \/
             (m.what = "SessionDestroyed" /\ mTracks' = {})
        /\ InTurn(queue) => InTurn(queue')
    <3>1. CASE mTracks' = {}
      <4> DEFINE n == Plain("SessionDestroyed")
      <4>1. n \in MsgType /\ n.what = "SessionDestroyed"
        <5>1. "SessionDestroyed" \in Whats
          BY DEF Whats
        <5> QED BY <5>1, PlainType
      <4>2. queue' = Tail(queue) \o <<n>>
        BY <1>7, <3>1 DEF Done
      <4> HIDE DEF n
      <4>3. ASSUME NEW m \in Members(Tail(queue)) PROVE Fits(m, n) /\ Follows(m, n) /\ Turn(m, n)
        BY <4>1 DEF Fits, Follows, Turn, Is, Ends, Yields
      <4>4. /\ queue' \in Seq(MsgType) /\ Ordered(queue')
            /\ Members(queue') = Members(Tail(queue)) \cup {n}
            /\ InTurn(Tail(queue)) => InTurn(queue')
        BY <1>2, <4>1, <4>2, <4>3, PostOne
      <4> QED BY <1>2, <3>1, <4>1, <4>4
    <3>2. CASE mTracks' # {}
      <4>1. queue' = Tail(queue)
        BY <1>2, <1>7, <3>2, PostNone DEF Done
      <4> QED BY <1>2, <4>1
    <3> QED BY <3>1, <3>2
  <2>4. /\ mTracks' \subseteq mTracks /\ mTracks' \subseteq Tracks /\ t \notin mTracks'
        /\ mSender' \in {mSender, "none"}
        /\ mSender' \in {"init", "connecting", "half", "connected", "none"}
    BY <1>4, <1>7 DEF IInv, Shape
  <2>5. Shape'
    BY <2>1, <2>3, <2>4 DEF IInv, Shape
  <2>6. \A m \in Members(Tail(queue)) : ~Ends(m, t) /\ ~Yields(m, t)
    BY <1>2, <1>4 DEF Fits
  <2>7. ~puller[t].started /\ puller[t].doing = "idle"
    <3>1. "video" \in Tracks /\ "audio" \in Tracks /\ (t = "video" \/ t = "audio")
      BY DEF Tracks
    <3>2. CASE t = "audio"
      <4> SUFFICES ASSUME puller["audio"].started PROVE FALSE
        BY <3>2 DEF IInv, PullersStopOnce
      <4>1. Untold
        BY <1>5, <3>1, <3>2 DEF Untold, IInv, PullersStopOnce
      <4>2. "video" \in mTracks
        BY <1>4, <1>7, <3>2, <4>1 DEF NoneRunsAway
      <4>3. Ending("video")
        BY <1>4, <1>5, <3>1, <4>1, <4>2 DEF NoneRunsAway, StopsInOrder
      <4>4. PICK m \in Members(Tail(queue)) : Ends(m, "video")
        BY <1>2, <1>3, <3>2, <4>3 DEF Ending, Ends
      <4>5. Turn(Head(queue), m)
        BY <1>2, <1>4, <4>1 DEF NoneRunsAway
      <4> QED BY <1>2, <1>4, <3>1, <3>2, <4>4, <4>5 DEF Turn, Is
    <3> QED BY <1>7, <3>1, <3>2 DEF IInv, PullersStopOnce
  <2>8. StopsInOrder'
    <3> SUFFICES ASSUME NEW k \in Tracks
                 PROVE  /\ ToldToStop(k)' => puller[k].started /\ ~Ending(k)'
                        /\ ToldToStop(k)' \/ Ending(k)' => k \in mTracks'
                        /\ Queued("TrackStopped", k)' => ~track[k].mConverter
                        /\ k \in mTracks' =>
                             /\ Queued("Shutdown", k)' \/ ~converter[k].mEncoder
                             /\ puller[k].mPullGeneration = 0 => ToldToStop(k)' \/ Ending(k)'
                        /\ ~track[k].mConverter => ~converter[k].mEncoder
                        /\ ~converter[k].mEncoder => converter[k].inputs = <<>>
                        /\ \A m \in Members(queue') : Yields(m, k) => k \in mTracks'
                        /\ k \notin mTracks' => /\ converter[k].inputs = <<>>
                                                /\ puller[k].doing = "idle"
                                                /\ ~puller[k].started
                        /\ k \in mTracks' => registered /\ ~Posted("SessionDestroyed")'
      BY <1>5, <2>1 DEF StopsInOrder
    <3>1. /\ Queued("TrackStopped", k)' => Queued("TrackStopped", k)
          /\ Queued("Shutdown", k) => Queued("Shutdown", k)'
          /\ Ending(k)' => Ending(k) /\ k # t
          /\ Ending(k) /\ k # t => Ending(k)'
      <4>1. Queued("TrackStopped", k)' => Queued("TrackStopped", k)
        BY <1>2, <2>3 DEF Queued, Is
      <4>2. Queued("Shutdown", k) => Queued("Shutdown", k)'
        BY <1>2, <2>3 DEF Queued, Is
      <4>3. Ending(k)' => Ending(k) /\ k # t
        BY <1>2, <2>3, <2>6 DEF Ending, Ends
      <4>4. Ending(k) /\ k # t => Ending(k)'
        BY <1>2, <1>3, <2>3 DEF Ending, Ends
      <4> QED BY <4>1, <4>2, <4>3, <4>4
    <3>2. /\ \A m \in Members(queue') : Yields(m, k) => Yields(m, k) /\ k \in mTracks /\ k # t
          /\ k \in mTracks' => registered /\ ~Posted("SessionDestroyed")'
      <4>1. \A m \in Members(queue') : Yields(m, k) => k \in mTracks /\ k # t
        BY <1>2, <1>4, <2>3, <2>6 DEF StopsInOrder, Yields
      <4>2. k \in mTracks' => ~Posted("SessionDestroyed")'
        BY <1>2, <1>5, <2>3 DEF Posted
      <4> QED BY <1>5, <4>1, <4>2
    <3>3. k \in mTracks' <=> k \in mTracks /\ k # t
      BY <1>7
    <3>4. CASE k = t
      BY <1>4, <1>5, <2>2, <2>7, <3>1, <3>2, <3>3, <3>4 DEF StopsInOrder
    <3>5. CASE k # t
      BY <1>4, <1>5, <2>2, <3>1, <3>2, <3>3, <3>5 DEF StopsInOrder
    <3> QED BY <3>4, <3>5
  <2>9. NoneRunsAway'
    <3> SUFFICES ASSUME Untold'
                 PROVE  /\ puller["video"].mPullGeneration = 0 /\ ~ToldToStop("video")'
                        /\ InTurn(queue')
                        /\ ~Queued("MediaPullerStopped", "audio")'
                        /\ ~puller["audio"].started
      BY <2>1 DEF NoneRunsAway
    <3>1. "video" \in Tracks /\ "audio" \in Tracks /\ (t = "video" \/ t = "audio")
      BY DEF Tracks
    <3>2. Untold /\ t = "video"
      BY <1>7, <2>1, <2>2, <3>1 DEF Untold
    <3>3. ~Queued("MediaPullerStopped", "audio")'
      <4> SUFFICES ASSUME NEW m \in Members(Tail(queue)), Is(m, "MediaPullerStopped", "audio")
                   PROVE  FALSE
        BY <2>3 DEF Queued, Is
      <4>1. Turn(Head(queue), m)
        BY <1>2, <1>4, <3>2 DEF NoneRunsAway
      <4> QED BY <1>2, <1>4, <3>1, <3>2, <4>1 DEF Turn, Is, Ends
    <3> QED BY <1>4, <1>5, <1>7, <2>2, <2>3, <3>1, <3>2, <3>3 DEF NoneRunsAway
  <2>10. \A m \in Members(queue') : m \in Members(queue) \/
           m.what \in {"Shutdown", "MediaPullerStopped", "TrackStopped", "SessionDestroyed"}
    BY <1>2, <2>3
  <2> QED BY <1>2, <1>5, <2>1, <2>2, <2>3, <2>4, <2>5, <2>8, <2>9, <2>10, LeaveStep
<1> QED BY <1>3, <1>5, <1>6, <1>7 DEF OnTrackStopped, Abort

-----------------------------------------------------------------------------
(* Access units                                                            *)

(* What track k holds once unit has been taken from the queue for track t. *)
HeldWith(t, unit, k) == IF k = t THEN Held(k) \cup {unit} ELSE Held(k)

(* The unit at the head is of a track that is left, and older than what is *)
(* to come.                                                                *)
LEMMA HeadUnit ==
  ASSUME IInv, Handling("AccessUnit"), NEW t \in Tracks, NEW unit \in Nat,
         Head(queue).track = t, Head(queue).unit = unit
  PROVE  /\ t \in mTracks /\ unit \in Access(t) /\ unit \in 1..plan.units
         /\ \A m \in Members(Tail(queue)) : Is(m, "AccessUnit", t) => unit < m.unit
         /\ \A u \in Input(t) \cup Pulls(t) : unit < u
<1>1. /\ Alive /\ Going /\ Head(queue) \in Members(queue) /\ Head(queue).what = "AccessUnit"
      /\ \A m \in Members(Tail(queue)) : Follows(Head(queue), m)
  BY Handled
<1>2. Is(Head(queue), "AccessUnit", t) /\ Yields(Head(queue), t)
  BY <1>1 DEF Is, Yields
<1>3. t \in mTracks /\ unit \in Access(t)
  BY <1>1, <1>2 DEF Going, Controlled, StopsInOrder, Access
<1>4. unit \in 1..plan.units
  <2>1. unit \in 1..clock
    BY <1>1, <1>3 DEF Going, Carried, Apart, Own
  <2> QED BY <2>1, FaultType
<1>5. \A m \in Members(Tail(queue)) : Is(m, "AccessUnit", t) => unit < m.unit
  BY <1>1, <1>2 DEF Follows
<1>6. \A u \in Input(t) \cup Pulls(t) : unit < u
  BY <1>1, <1>3 DEF Going, Carried, InLine, Below
<1> QED BY <1>3, <1>4, <1>5, <1>6

(* Taking a unit from the queue, holding it or sending it keeps the units  *)
(* in line and apart.                                                      *)
LEMMA UnitTaken ==
  ASSUME IInv, Handling("AccessUnit"), queue' = Tail(queue),
         NEW t \in Tracks, NEW unit \in Nat, Head(queue).track = t, Head(queue).unit = unit,
         UNCHANGED <<converter, clock, usePCMAudio>>,
         \A k \in Tracks : /\ Held(k)' \subseteq HeldWith(t, unit, k)
                           /\ sent'[k] \subseteq sent[k] \cup HeldWith(t, unit, k)
  PROVE  /\ InLine' /\ Apart'
         /\ \A k \in Tracks : /\ Access(k)' \subseteq Access(k) /\ Pulls(k)' \subseteq Pulls(k)
                              /\ Input(k)' = Input(k)
                              /\ Below(HeldWith(t, unit, k),
                                       Access(k)' \cup Input(k)' \cup Pulls(k)')
<1>1. Carried /\ Members(Tail(queue)) \subseteq Members(queue)
  BY Handled DEF Going
<1>2. /\ unit \in Access(t)
      /\ \A m \in Members(Tail(queue)) : Is(m, "AccessUnit", t) => unit < m.unit
      /\ \A u \in Input(t) \cup Pulls(t) : unit < u
  BY HeadUnit
<1>3. ASSUME NEW k \in Tracks
      PROVE  Access(k)' \subseteq Access(k) /\ Pulls(k)' \subseteq Pulls(k) /\ Input(k)' = Input(k)
  <2>1. Access(k)' \subseteq Access(k)
    BY <1>1 DEF Access
  <2>2. Pulls(k)' \subseteq Pulls(k)
    BY <1>1 DEF Pulls
  <2>3. Input(k)' = Input(k)
    BY DEF Input
  <2> QED BY <2>1, <2>2, <2>3
<1>4. \A u \in Access(t)' : unit < u
  BY <1>2 DEF Access
<1>5. ASSUME NEW k \in Tracks
      PROVE  Below(HeldWith(t, unit, k), Access(k)' \cup Input(k)' \cup Pulls(k)')
  <2>1. Below(Held(k), Access(k)' \cup Input(k)' \cup Pulls(k)')
    BY <1>1, <1>3 DEF Carried, InLine, Below
  <2>2. CASE k = t
    <3>1. \A u \in Access(t)' \cup Input(t)' \cup Pulls(t)' : unit < u
      BY <1>2, <1>3, <1>4
    <3> QED BY <2>1, <2>2, <3>1 DEF Below, HeldWith
  <2>3. CASE k # t
    BY <2>1, <2>3 DEF HeldWith
  <2> QED BY <2>2, <2>3
<1>6. InLine'
  <2> SUFFICES ASSUME NEW k \in Tracks
               PROVE  /\ Encodes(k)' \/ converter'[k].inputs = <<>>
                      /\ Rising(converter'[k].inputs)
                      /\ Below(Input(k)', Pulls(k)')
                      /\ Below(Access(k)', Input(k)' \cup Pulls(k)')
                      /\ Below(Held(k)', Access(k)' \cup Input(k)' \cup Pulls(k)')
    BY DEF InLine
  <2>1. (Encodes(k)' \/ converter'[k].inputs = <<>>) /\ Rising(converter'[k].inputs)
    BY <1>1 DEF Carried, InLine, Encodes
  <2>2. Below(Input(k)', Pulls(k)') /\ Below(Access(k)', Input(k)' \cup Pulls(k)')
    BY <1>1, <1>3 DEF Carried, InLine, Below
  <2>3. Below(Held(k)', Access(k)' \cup Input(k)' \cup Pulls(k)')
    BY <1>5 DEF Below
  <2> QED BY <2>1, <2>2, <2>3
<1>7. Apart'
  <2>1. \A k \in Tracks : HeldWith(t, unit, k) \subseteq Own(k)
    BY <1>2 DEF HeldWith, Own
  <2>2. \A k \in Tracks : sent[k] \subseteq Own(k) /\ Access(k) \subseteq Own(k)
                          /\ Input(k) \subseteq Own(k) /\ Pulls(k) \subseteq Own(k)
    BY DEF Own
  <2>3. \A k \in Tracks : Own(k)' \subseteq Own(k)
    BY <1>3, <2>1, <2>2 DEF Own
  <2> QED BY <1>1, <2>3 DEF Carried, Apart
<1> QED BY <1>3, <1>5, <1>6, <1>7

(* What a track holds when it has received a unit. Units that waited for   *)
(* a track to be known are only queued for output before any was sent.     *)
LEMMA ReceivedUnit ==
  ASSUME NEW t \in mTracks, NEW unit \in Nat, mTracks \subseteq Tracks, Merged,
         track \in [Tracks -> TrackType]
  PROVE  LET tr == Received(t, unit)
         IN /\ tr \in [Tracks -> TrackType]
            /\ \A k \in Tracks :
                 /\ tr[k].mStarted = track[k].mStarted /\ tr[k].mConverter = track[k].mConverter
                 /\ track[k].mPacketizerTrackIndex => tr[k].mPacketizerTrackIndex
                 /\ tr[k].mQueuedAccessUnits \cup tr[k].mQueuedOutputBuffers =
                      HeldWith(t, unit, k)
                 /\ ~mAllTracksHavePacketizerIndex \/
                    tr[k].mQueuedOutputBuffers \subseteq
                      track[k].mQueuedOutputBuffers \cup (IF k = t THEN {unit} ELSE {})
<1> DEFINE known == IF track[t].mPacketizerTrackIndex THEN track ELSE AddTrack(t)
           ready == IF ~track[t].mPacketizerTrackIndex /\ HaveIndex(known)
                      THEN Requeue(known) ELSE known
           tr    == IF HaveIndex(known)
                      THEN [ready EXCEPT ![t].mQueuedOutputBuffers = @ \cup {unit}]
                      ELSE [known EXCEPT ![t].mQueuedAccessUnits = @ \cup {unit}]
           Same(a, b) == /\ a.mStarted = b.mStarted /\ a.mConverter = b.mConverter
                         /\ b.mPacketizerTrackIndex => a.mPacketizerTrackIndex
<1>1. tr = Received(t, unit)
  BY DEF Received
<1>2. /\ known \in [Tracks -> TrackType]
      /\ \A k \in Tracks : /\ Same(known[k], track[k])
                           /\ known[k].mQueuedAccessUnits = track[k].mQueuedAccessUnits
                           /\ known[k].mQueuedOutputBuffers = track[k].mQueuedOutputBuffers
  BY DEF AddTrack, TrackType
<1>3. ~track[t].mPacketizerTrackIndex => ~mAllTracksHavePacketizerIndex
  BY DEF Merged
<1> HIDE DEF known
<1>4. /\ ready \in [Tracks -> TrackType]
      /\ \A k \in Tracks :
           /\ Same(ready[k], track[k])
           /\ ready[k].mQueuedAccessUnits \cup ready[k].mQueuedOutputBuffers = Held(k)
           /\ ~mAllTracksHavePacketizerIndex \/
                ready[k].mQueuedOutputBuffers = track[k].mQueuedOutputBuffers
  <2>1. CASE ready = known
    BY <1>2, <2>1 DEF Held
  <2>2. CASE ready = Requeue(known) /\ ~mAllTracksHavePacketizerIndex
    <3>1. ASSUME NEW k \in Tracks
          PROVE  /\ ready[k] \in TrackType /\ Same(ready[k], track[k])
                 /\ ready[k].mQueuedAccessUnits \cup ready[k].mQueuedOutputBuffers = Held(k)
      <4>1. known[k] \in TrackType
        BY <1>2
      <4>2. CASE k \in mTracks
        <5>1. ready[k] = [known[k] EXCEPT
                            !.mQueuedOutputBuffers = @ \cup known[k].mQueuedAccessUnits,
                            !.mQueuedAccessUnits = {}]
          BY <2>2, <4>2 DEF Requeue
        <5> QED BY <1>2, <4>1, <5>1 DEF TrackType, Held
      <4>3. CASE k \notin mTracks
        <5>1. ready[k] = known[k]
          BY <2>2, <4>3 DEF Requeue
        <5> QED BY <1>2, <4>1, <5>1 DEF Held
      <4> QED BY <4>2, <4>3
    <3>2. ready \in [Tracks -> TrackType]
      BY <2>2, <3>1 DEF Requeue
    <3> QED BY <2>2, <3>1, <3>2
  <2> QED BY <1>3, <2>1, <2>2
<1> HIDE DEF ready
<1>5. CASE HaveIndex(known)
  <2> DEFINE r == [ready[t] EXCEPT !.mQueuedOutputBuffers = @ \cup {unit}]
  <2>1. tr = [ready EXCEPT ![t] = r]
    BY <1>5
  <2>2. ready[t] \in TrackType /\ t \in Tracks
    BY <1>4
  <2>3. /\ r \in TrackType /\ Same(r, ready[t])
        /\ r.mQueuedAccessUnits = ready[t].mQueuedAccessUnits
        /\ r.mQueuedOutputBuffers = ready[t].mQueuedOutputBuffers \cup {unit}
    BY <2>2 DEF TrackType
  <2> HIDE DEF tr, r
  <2>4. /\ tr \in [Tracks -> TrackType] /\ tr[t] = r
        /\ \A k \in Tracks \ {t} : tr[k] = ready[k]
    BY <1>4, <2>1, <2>2, <2>3
  <2> QED BY <1>1, <1>4, <2>2, <2>3, <2>4 DEF HeldWith
<1>6. CASE ~HaveIndex(known)
  <2> DEFINE r == [known[t] EXCEPT !.mQueuedAccessUnits = @ \cup {unit}]
  <2>1. tr = [known EXCEPT ![t] = r]
    BY <1>6
  <2>2. known[t] \in TrackType /\ t \in Tracks
    BY <1>2
  <2>3. /\ r \in TrackType /\ Same(r, known[t])
        /\ r.mQueuedAccessUnits = known[t].mQueuedAccessUnits \cup {unit}
        /\ r.mQueuedOutputBuffers = known[t].mQueuedOutputBuffers
    BY <2>2 DEF TrackType
  <2> HIDE DEF tr, r
  <2>4. /\ tr \in [Tracks -> TrackType] /\ tr[t] = r
        /\ \A k \in Tracks \ {t} : tr[k] = known[k]
    BY <1>2, <2>1, <2>2, <2>3
  <2> QED BY <1>1, <1>2, <2>2, <2>3, <2>4 DEF HeldWith, Held
<1> QED BY <1>5, <1>6

(* What is drained is older than what is not.                              *)
LEMMA DrainedBelow ==
  ASSUME NEW tr, NEW idle, \A k \in mTracks : tr[k].mQueuedOutputBuffers \subseteq Nat,
         NEW s \in Drained(tr, idle), NEW k \in mTracks,
         NEW w \in tr[k].mQueuedOutputBuffers, w \notin Drained(tr, idle)
  PROVE  s < w
<1>1. /\ \E j \in mTracks : s \in tr[j].mQueuedOutputBuffers
      /\ \A j \in mTracks \ idle : \E v \in tr[j].mQueuedOutputBuffers : v >= s
  BY DEF Drained
<1>2. PICK j \in mTracks \ idle : \A v \in tr[j].mQueuedOutputBuffers : ~(v >= w)
  BY DEF Drained
<1>3. PICK v \in tr[j].mQueuedOutputBuffers : v >= s
  BY <1>1
<1>4. s \in Nat /\ v \in Nat /\ w \in Nat
  BY <1>1
<1> QED BY <1>2, <1>3, <1>4

(* The units that can be merged are taken from the queues of the tracks,   *)
(* and those before the cut are sent.                                      *)
Sends(tr, idle, cut, units, out) ==
  /\ units = Drained(tr, idle) /\ out = {u \in units : u < cut}
  /\ track' = Without(tr, {u \in units : u <= cut})
  /\ sent' = [k \in Tracks |-> sent[k] \cup (out \cap tr[k].mQueuedOutputBuffers)]
  /\ passed' = IF out = {} THEN passed
               ELSE passed \cup {k \in idle : tr[k].mQueuedOutputBuffers \subseteq out}
  /\ mAllTracksHavePacketizerIndex' = TRUE
  /\ UNCHANGED <<converter, clock, usePCMAudio, mTracks>>

(* What is sent is newer than what was sent before, and older than what is *)
(* still to come, but for tracks that were passed over.                    *)
LEMMA DrainSends ==
  ASSUME IInv, Handling("AccessUnit"), queue' = Tail(queue),
         NEW t \in Tracks, NEW unit \in Nat, Head(queue).track = t, Head(queue).unit = unit,
         NEW tr, tr = Received(t, unit), HaveIndex(tr),
         NEW idle \in SUBSET mTracks, NEW cut \in Nat, NEW units, NEW out,
         Sends(tr, idle, cut, units, out)
  PROVE  /\ Carried'
         /\ \A j, k \in Tracks : \A u \in sent'[j] \ sent[j], v \in sent[k] : u > v \/ j \in passed
         /\ track' \in [Tracks -> TrackType] /\ sent' \in [Tracks -> SUBSET Nat]
         /\ \A k \in Tracks :
              /\ track'[k].mStarted = track[k].mStarted
              /\ track'[k].mConverter = track[k].mConverter
              /\ track'[k].mQueuedAccessUnits \subseteq 1..plan.units
              /\ track'[k].mQueuedOutputBuffers \subseteq 1..plan.units
<1> USE DEF Sends
<1> DEFINE O(k) == tr[k].mQueuedOutputBuffers
<1>1. /\ t \in mTracks /\ unit \in Access(t) /\ unit \in 1..plan.units
      /\ Carried /\ InLine /\ Apart /\ Merged
      /\ mTracks \subseteq Tracks /\ track \in [Tracks -> TrackType]
      /\ sent \in [Tracks -> SUBSET Nat]
      /\ \A k \in Tracks : Held(k) \subseteq 1..plan.units
  BY HeadUnit, Handled DEF IInv, Shape, Going, Carried, Held
<1>2. /\ tr \in [Tracks -> TrackType]
      /\ \A k \in Tracks :
           /\ tr[k].mStarted = track[k].mStarted /\ tr[k].mConverter = track[k].mConverter
           /\ track[k].mPacketizerTrackIndex => tr[k].mPacketizerTrackIndex
           /\ tr[k].mQueuedAccessUnits \cup O(k) = HeldWith(t, unit, k)
           /\ ~mAllTracksHavePacketizerIndex \/
              O(k) \subseteq track[k].mQueuedOutputBuffers \cup (IF k = t THEN {unit} ELSE {})
  BY <1>1, ReceivedUnit
<1>3. ASSUME NEW k \in Tracks
      PROVE  /\ track'[k] \in TrackType
             /\ track'[k].mStarted = tr[k].mStarted /\ track'[k].mConverter = tr[k].mConverter
             /\ track'[k].mPacketizerTrackIndex = tr[k].mPacketizerTrackIndex
             /\ track'[k].mQueuedAccessUnits = tr[k].mQueuedAccessUnits
             /\ track'[k].mQueuedOutputBuffers = O(k) \ {u \in units : u <= cut}
             /\ O(k) \subseteq Nat /\ tr[k].mQueuedAccessUnits \subseteq Nat
  <2>1. tr[k] \in TrackType
    BY <1>2
  <2>2. track'[k] = [tr[k] EXCEPT !.mQueuedOutputBuffers = @ \ {u \in units : u <= cut}]
    BY DEF Without
  <2> DEFINE gone == {u \in units : u <= cut}
             r    == [tr[k] EXCEPT !.mQueuedOutputBuffers = @ \ gone]
  <2>3. track'[k] = r
    BY <2>2
  <2> HIDE DEF gone
  <2>4. /\ r \in TrackType /\ r.mStarted = tr[k].mStarted /\ r.mConverter = tr[k].mConverter
        /\ r.mPacketizerTrackIndex = tr[k].mPacketizerTrackIndex
        /\ r.mQueuedAccessUnits = tr[k].mQueuedAccessUnits
        /\ r.mQueuedOutputBuffers = tr[k].mQueuedOutputBuffers \ gone
    BY <2>1 DEF TrackType
  <2>5. O(k) \subseteq Nat /\ tr[k].mQueuedAccessUnits \subseteq Nat
    BY <2>1 DEF TrackType
  <2> HIDE DEF r
  <2> QED BY <2>3, <2>4, <2>5 DEF gone
<1>4. track' \in [Tracks -> TrackType]
  BY <1>3 DEF Without
<1>5. \A k \in Tracks : sent'[k] = sent[k] \cup (out \cap O(k))
  OBVIOUS
<1>6. \A k \in Tracks : /\ HeldWith(t, unit, k) \subseteq Own(k)
                        /\ HeldWith(t, unit, k) \subseteq 1..plan.units
                        /\ O(k) \subseteq HeldWith(t, unit, k)
                        /\ Held(k)' \subseteq HeldWith(t, unit, k)
                        /\ sent'[k] \subseteq sent[k] \cup HeldWith(t, unit, k)
  <2>1. \A k \in Tracks : /\ HeldWith(t, unit, k) \subseteq Own(k)
                          /\ HeldWith(t, unit, k) \subseteq 1..plan.units
    BY <1>1 DEF HeldWith, Own
  <2>2. \A k \in Tracks : O(k) \subseteq HeldWith(t, unit, k)
    BY <1>2
  <2>3. \A k \in Tracks : Held(k)' \subseteq HeldWith(t, unit, k)
    BY <1>2, <1>3 DEF Held
  <2> QED BY <1>5, <2>1, <2>2, <2>3
<1>7. /\ InLine' /\ Apart'
      /\ \A k \in Tracks : /\ Access(k)' \subseteq Access(k) /\ Pulls(k)' \subseteq Pulls(k)
                           /\ Input(k)' = Input(k)
                           /\ Below(HeldWith(t, unit, k),
                                    Access(k)' \cup Input(k)' \cup Pulls(k)')
  BY <1>6, UnitTaken
<1> DEFINE Later(k) == Access(k)' \cup Input(k)' \cup Pulls(k)'
<1>8. ASSUME NEW j \in mTracks \ passed, NEW k \in Tracks
      PROVE  Below(sent[k], O(j) \cup Later(j))
  <2>1. CASE ~mAllTracksHavePacketizerIndex
    <3>1. sent[k] = {}
      BY <1>1, <2>1 DEF Merged
    <3> QED BY <3>1 DEF Below
  <2>2. CASE mAllTracksHavePacketizerIndex
    <3>1. Below(sent[k], Coming(j)) /\ j \in Tracks
      BY <1>1 DEF Merged
    <3>2. O(j) \subseteq Coming(j)
      BY <1>1, <1>2, <2>2, <3>1 DEF Coming
    <3>3. Later(j) \subseteq Coming(j)
      BY <1>7, <3>1 DEF Coming
    <3> QED BY <3>1, <3>2, <3>3 DEF Below
  <2> QED BY <2>1, <2>2
<1>9. \A k \in mTracks : O(k) \subseteq Nat
  BY <1>1, <1>3
<1>10. ASSUME NEW s \in out, NEW j \in mTracks \ passed'
       PROVE  Below({s}, track'[j].mQueuedOutputBuffers \cup Later(j))
  <2>1. s \in units /\ s < cut /\ s \in Nat
    <3>1. \E k \in mTracks : s \in O(k)
      BY DEF Drained
    <3> QED BY <1>9, <3>1
  <2>2. j \in Tracks
    BY <1>1
  <2>3. \A w \in O(j) : w \notin units => s < w
    BY <1>9, <2>1, DrainedBelow
  <2>4. \E v \in O(j) : v >= s
    <3>1. CASE j \notin idle
      BY <2>1, <3>1 DEF Drained
    <3>2. CASE j \in idle
      <4>1. PICK w \in O(j) : w \notin out
        BY <3>2
      <4>2. w \in units => ~(w < cut)
        BY <4>1
      <4>3. w \in Nat
        BY <1>9, <4>1
      <4>4. CASE w \in units
        BY <2>1, <4>2, <4>3, <4>4
      <4>5. CASE w \notin units
        BY <2>1, <2>3, <4>3, <4>5
      <4> QED BY <4>4, <4>5
    <3> QED BY <3>1, <3>2
  <2>5. PICK v \in O(j) : v >= s
    BY <2>4
  <2>6. ASSUME NEW c \in Later(j) PROVE s < c
    <3>1. v < c
      BY <1>6, <1>7, <2>2, <2>5 DEF Below
    <3>2. v \in Nat /\ c \in Nat
      <4>1. c \in Own(j)'
        BY DEF Own
      <4>2. clock' \in Nat
        BY FaultType
      <4>3. c \in 1..clock'
        BY <1>7, <2>2, <4>1 DEF Apart
      <4> QED BY <1>9, <2>5, <4>2, <4>3
    <3> QED BY <2>1, <2>5, <3>1, <3>2
  <2>7. ASSUME NEW c \in track'[j].mQueuedOutputBuffers PROVE s < c
    <3>1. c \in O(j) /\ (c \in units => ~(c <= cut)) /\ c \in Nat
      BY <1>3, <2>2
    <3>2. CASE c \in units
      BY <2>1, <3>1, <3>2
    <3>3. CASE c \notin units
      BY <2>3, <3>1, <3>3
    <3> QED BY <3>2, <3>3
  <2> QED BY <2>6, <2>7 DEF Below
<1>11. Merged'
  <2>1. \A k \in mTracks' : track'[k].mPacketizerTrackIndex
    <3>1. \A k \in mTracks : tr[k].mPacketizerTrackIndex
      BY <1>1, <1>2 DEF HaveIndex, Merged
    <3> QED BY <1>1, <1>3, <3>1
  <2>2. ASSUME NEW j \in mTracks \ passed', NEW k \in Tracks PROVE Below(sent'[k], Coming(j)')
    <3>1. j \in mTracks \ passed /\ j \in Tracks
      BY <1>1
    <3>2. Coming(j)' = track'[j].mQueuedOutputBuffers \cup Later(j)
      BY DEF Coming
    <3>3. track'[j].mQueuedOutputBuffers \subseteq O(j)
      BY <1>3, <3>1
    <3>4. Below(sent[k], O(j) \cup Later(j))
      BY <1>8, <3>1
    <3>5. ASSUME NEW s \in out PROVE Below({s}, Coming(j)')
      <4>1. Below({s}, track'[j].mQueuedOutputBuffers \cup Later(j))
        BY <1>1, <1>10
      <4> QED BY <3>2, <4>1
    <3>6. Below(sent[k], Coming(j)')
      <4> HIDE DEF O, Later
      <4> QED BY <3>2, <3>3, <3>4 DEF Below
    <3>7. ASSUME NEW u \in sent'[k], NEW v \in Coming(j)' PROVE u < v
      <4>1. CASE u \in sent[k]
        BY <3>6, <4>1 DEF Below
      <4>2. CASE u \in out
        <5>1. Below({u}, Coming(j)')
          BY <3>5, <4>2
        <5> QED BY <5>1 DEF Below
      <4> QED BY <1>5, <4>1, <4>2
    <3> QED BY <3>7 DEF Below
  <2>3. mTracks' = mTracks
    OBVIOUS
  <2> QED BY <2>1, <2>2, <2>3 DEF Merged
<1>12. ASSUME NEW j \in Tracks, NEW k \in Tracks, NEW u \in sent'[j] \ sent[j], NEW v \in sent[k],
              j \notin passed
       PROVE  u > v
  <2>1. u \in out /\ u \in O(j)
    BY <1>5
  <2>2. j \in mTracks
    <3>1. PICK i \in mTracks : u \in O(i)
      BY <2>1 DEF Drained
    <3>2. i \in Tracks /\ u \in Own(i) /\ u \in Own(j)
      BY <1>1, <1>6, <2>1, <3>1
    <3> QED BY <1>1, <3>1, <3>2 DEF Apart
  <2>3. v < u
    BY <1>8, <1>12, <2>1, <2>2 DEF Below
  <2>4. u \in Nat /\ v \in Nat
    BY <1>1, <1>9, <2>1, <2>2
  <2> QED BY <2>3, <2>4
<1>13. sent' \in [Tracks -> SUBSET Nat]
  <2>1. \A k \in Tracks : sent[k] \subseteq Nat /\ O(k) \subseteq Nat
    BY <1>1, <1>3
  <2> HIDE DEF O
  <2>2. \A k \in Tracks : sent'[k] \subseteq Nat
    BY <1>5, <2>1
  <2>3. sent' = [k \in Tracks |-> sent'[k]]
    OBVIOUS
  <2> HIDE DEF O
  <2> QED BY <2>2, <2>3
<1>14. \A k \in Tracks : /\ track'[k].mStarted = track[k].mStarted
                         /\ track'[k].mConverter = track[k].mConverter
                         /\ track'[k].mQueuedAccessUnits \subseteq 1..plan.units
                         /\ track'[k].mQueuedOutputBuffers \subseteq 1..plan.units
  BY <1>2, <1>3, <1>6
<1> QED BY <1>4, <1>7, <1>11, <1>12, <1>13, <1>14 DEF Carried


(* What is left to show when a unit has been handled and its carriage is   *)
(* as it should be.                                                        *)
LEMMA UnitStep ==
  ASSUME IInv, Handling("AccessUnit"), Done(<<>>), Carried',
         UNCHANGED <<media, settings, sender, mTracks, destroying, registered, aborted, clock>>,
         faults' \in 0..plan.faults, faults' >= faults,
         track' \in [Tracks -> TrackType], sent' \in [Tracks -> SUBSET Nat],
         \A k \in Tracks :
           /\ track'[k].mStarted = track[k].mStarted
           /\ track'[k].mConverter = track[k].mConverter
           /\ track'[k].mQueuedAccessUnits \subseteq 1..plan.units
           /\ track'[k].mQueuedOutputBuffers \subseteq 1..plan.units
  PROVE  IInv'
<1>1. /\ Alive /\ queue # <<>> /\ Head(queue).what = "AccessUnit" /\ aborted' = "none"
      /\ queue' = Tail(queue) \o <<>>
  BY DEF Handling, Done, Alive
<1>2. UNCHANGED <<plan, usePCMAudio, converter, puller, repeater, mSender, finishPlay>>
  BY DEF media, settings, sender
<1>3. /\ queue' \in Seq(MsgType) /\ Ordered(queue') /\ SteadyQueue
      /\ Members(queue') \subseteq Members(queue)
  <2>1. queue' = Tail(queue)
    BY <1>1, Handled, PostNone
  <2> QED BY <1>1, <2>1, Handled, QueueNone, AsideQueue
<1>4. PullersStopOnce' /\ SteadyTracks
  BY <1>2, PullersKept DEF SteadyTracks
<1>5. Shape'
  BY <1>2, <1>3 DEF IInv, Shape
<1>6. EndsByFault'
  <2>1. faults' \in Nat
    BY FaultType
  <2> QED BY <1>1, <1>2, <1>3, <2>1, FaultsKept
<1>7. Controlled'
  BY <1>1, <1>2, <1>3, <1>4, <1>6, ControlledKept
<1>8. ChecksHold'
  BY <1>1 DEF ChecksHold
<1> QED BY <1>3, <1>4, <1>5, <1>7, <1>8 DEF IInv, Going

(* The unit waits until every track is known.                              *)
LEMMA UnitWaits ==
  ASSUME IInv, Handling("AccessUnit"), Done(<<>>),
         NEW t \in Tracks, NEW unit \in Nat, Head(queue).track = t, Head(queue).unit = unit,
         NEW tr, tr = Received(t, unit), ~HaveIndex(tr), track' = tr,
         UNCHANGED <<media, settings, sender, session, aborted, counts, history>>
  PROVE  IInv'
<1>1. /\ t \in mTracks /\ unit \in Access(t) /\ unit \in 1..plan.units
      /\ Carried /\ InLine /\ Apart /\ Merged
      /\ mTracks \subseteq Tracks /\ track \in [Tracks -> TrackType]
      /\ sent \in [Tracks -> SUBSET Nat]
      /\ \A k \in Tracks : Held(k) \subseteq 1..plan.units
  BY HeadUnit, Handled DEF IInv, Shape, Going, Carried, Held
<1>2. /\ tr \in [Tracks -> TrackType]
      /\ \A k \in Tracks :
           /\ tr[k].mStarted = track[k].mStarted /\ tr[k].mConverter = track[k].mConverter
           /\ tr[k].mQueuedAccessUnits \cup tr[k].mQueuedOutputBuffers = HeldWith(t, unit, k)
  BY <1>1, ReceivedUnit
<1>3. \A k \in Tracks : HeldWith(t, unit, k) \subseteq 1..plan.units
  BY <1>1 DEF HeldWith
<1>4. UNCHANGED <<converter, plan, usePCMAudio, sent, passed, clock, faults, mTracks,
                  mAllTracksHavePacketizerIndex, destroying, registered>>
  BY DEF media, settings, session, counts, history
<1>5. queue' = Tail(queue)
  BY Handled, PostNone DEF Done
<1>6. \A k \in Tracks : Held(k)' \subseteq HeldWith(t, unit, k)
  BY <1>2 DEF Held
<1>7. InLine' /\ Apart'
  BY <1>4, <1>5, <1>6, UnitTaken
<1>8. Merged'
  <2>1. ~mAllTracksHavePacketizerIndex /\ \A k \in Tracks : sent[k] = {}
    BY <1>1 DEF HaveIndex, Merged
  <2> QED BY <1>4, <2>1 DEF Merged, Below
<1>9. faults' \in 0..plan.faults /\ faults' >= faults
  BY <1>4, FaultType
<1> QED BY <1>1, <1>2, <1>3, <1>4, <1>7, <1>8, <1>9, UnitStep DEF Carried

(* The units that can be merged are sent.                                  *)
LEMMA UnitDrained ==
  ASSUME IInv, Handling("AccessUnit"), Done(<<>>),
         NEW t \in Tracks, NEW unit \in Nat, Head(queue).track = t, Head(queue).unit = unit,
         NEW tr, tr = Received(t, unit), HaveIndex(tr),
         NEW idle \in SUBSET mTracks, Drain(tr, idle)
  PROVE  /\ IInv'
         /\ \A j, k \in Tracks : \A u \in sent'[j] \ sent[j], v \in sent[k] : u > v \/ j \in passed
<1>1. queue' = Tail(queue) /\ queue' \in Seq(MsgType) /\ Alive /\ Controlled
  BY Handled, PostNone DEF Done, Going
<1>2. CASE Abort("packetizeAccessUnit") /\ ~HasConverter("video")
  <2>1. /\ aborted' = "packetizeAccessUnit"
        /\ UNCHANGED <<track, media, settings, sender, session, counts, history>>
    BY <1>2 DEF Abort
  <2>2. destroying
    <3>1. "video" \in Tracks
      BY DEF Tracks
    <3> QED BY <1>1, <1>2, <3>1 DEF Controlled, Undisturbed, HasConverter
  <2>3. ChecksHold'
    BY <2>1, <2>2 DEF ChecksHold, session
  <2>4. aborted' # "none" /\ sent' = sent
    BY <2>1 DEF history
  <2> QED BY <1>1, <2>1, <2>3, <2>4, AbortStep
<1>3. CASE ~(Abort("packetizeAccessUnit") /\ ~HasConverter("video"))
  <2> DEFINE ds == Drained(tr, idle)
             vs == ds \cap tr["video"].mQueuedOutputBuffers
  <2>1. /\ mAllTracksHavePacketizerIndex' = TRUE
        /\ UNCHANGED <<media, settings, sender, mTracks, destroying, registered, aborted, clock>>
    BY <1>3 DEF Drain
  <2>2. PICK cut \in (IF MayFail THEN vs ELSE {}) \cup {plan.units + 1} :
          LET out == {u \in ds : u < cut}
          IN /\ track' = Without(tr, {u \in ds : u <= cut})
             /\ sent' = [k \in Tracks |-> sent[k] \cup (out \cap tr[k].mQueuedOutputBuffers)]
             /\ passed' = IF out = {} THEN passed
                          ELSE passed \cup {k \in idle : tr[k].mQueuedOutputBuffers \subseteq out}
             /\ mWeAreDead' = (cut \in Units)
             /\ faults' = IF cut \in Units THEN faults + 1 ELSE faults
    BY <1>3 DEF Drain
  <2> HIDE DEF ds, vs
  <2>3. PICK units : units = ds
    OBVIOUS
  <2>4. PICK out : out = {u \in ds : u < cut}
    OBVIOUS
  <2>5. units = Drained(tr, idle)
    BY <2>3 DEF ds
  <2>6. Sends(tr, idle, cut, units, out)
    BY <2>1, <2>2, <2>3, <2>4, <2>5 DEF Sends, media, settings
  <2>7. plan.units \in Nat /\ plan.faults \in Nat /\ faults \in Nat /\ faults <= plan.faults
    BY FaultType
  <2>8. cut \in Nat
    <3>1. CASE cut = plan.units + 1
      BY <2>7, <3>1
    <3>2. CASE cut \in vs
      <4>1. /\ t \in mTracks /\ mTracks \subseteq Tracks /\ track \in [Tracks -> TrackType]
            /\ Merged
        BY HeadUnit, Handled DEF IInv, Shape, Going, Carried
      <4>2. tr \in [Tracks -> TrackType] /\ "video" \in Tracks
        BY <4>1, ReceivedUnit DEF Tracks
      <4> QED BY <3>2, <4>2 DEF TrackType, vs
    <3> QED BY <2>2, <3>1, <3>2
  <2>9. faults' \in 0..plan.faults /\ faults' >= faults
    <3>1. CASE cut \in Units
      <4>1. cut # plan.units + 1
        BY <2>7, <3>1 DEF Units
      <4>2. faults < plan.faults
        BY <2>2, <4>1 DEF MayFail
      <4> QED BY <2>2, <2>7, <3>1, <4>2
    <3>2. CASE cut \notin Units
      BY <2>2, <2>7, <3>2
    <3> QED BY <3>1, <3>2
  <2>10. /\ Carried'
         /\ \A j, k \in Tracks : \A u \in sent'[j] \ sent[j], v \in sent[k] : u > v \/ j \in passed
         /\ track' \in [Tracks -> TrackType] /\ sent' \in [Tracks -> SUBSET Nat]
         /\ \A k \in Tracks :
              /\ track'[k].mStarted = track[k].mStarted
              /\ track'[k].mConverter = track[k].mConverter
              /\ track'[k].mQueuedAccessUnits \subseteq 1..plan.units
              /\ track'[k].mQueuedOutputBuffers \subseteq 1..plan.units
    BY <1>1, <2>6, <2>8, DrainSends
  <2>11. IInv'
    BY <2>1, <2>9, <2>10, UnitStep
  <2> QED BY <2>10, <2>11
<1> QED BY <1>2, <1>3

(* What has been sent is not overtaken.                                    *)
InOrder ==
  \A j, k \in Tracks : \A u \in sent'[j] \ sent[j], v \in sent[k] : u > v \/ j \in passed

(* A step that sends nothing overtakes nothing.                            *)
LEMMA NoneSent ==
  ASSUME UNCHANGED sent
  PROVE  InOrder
BY DEF InOrder

(* A unit is dropped, waits, or is merged with those of the other tracks.  *)
LEMMA AccessUnitStep ==
  ASSUME IInv, OnAccessUnit
  PROVE  IInv' /\ InOrder
<1>1. Handling("AccessUnit") /\ Done(<<>>)
  BY DEF OnAccessUnit
<1>2. /\ Alive /\ Controlled /\ Head(queue) \in MsgType
      /\ queue' = Tail(queue) /\ queue' \in Seq(MsgType)
  BY <1>1, Handled, PostNone DEF Done, Going
<1>3. PICK t \in Tracks, unit \in Nat : Head(queue).track = t /\ Head(queue).unit = unit
  BY <1>2 DEF MsgType
<1>4. t \in mTracks
  BY <1>1, <1>3, HeadUnit
<1>5. CASE UNCHANGED <<track, media, settings, sender, session, aborted, counts, history>>
  <2>1. UNCHANGED <<mTracks, mAllTracksHavePacketizerIndex, destroying, registered, sent>>
    BY <1>5 DEF session, history
  <2> QED BY <1>1, <1>5, <2>1, NoteStep, NoneSent
<1>6. CASE Abort("getFormat") /\ ~HasConverter(t)
  <2>1. /\ aborted' = "getFormat"
        /\ UNCHANGED <<track, media, settings, sender, session, counts, history>>
    BY <1>6 DEF Abort
  <2>2. destroying
    BY <1>2, <1>4, <1>6 DEF Controlled, Undisturbed, HasConverter
  <2>3. ChecksHold'
    BY <2>1, <2>2 DEF ChecksHold, session
  <2>4. aborted' # "none" /\ sent' = sent
    BY <2>1 DEF history
  <2> QED BY <1>2, <2>1, <2>3, <2>4, AbortStep, NoneSent
<1>7. PICK tr : tr = Received(t, unit)
  OBVIOUS
<1>8. CASE HaveIndex(tr) /\ \E idle \in SUBSET (mTracks \ {t}) : Drain(tr, idle)
  <2>1. PICK idle \in SUBSET mTracks : Drain(tr, idle)
    BY <1>8
  <2> QED BY <1>1, <1>3, <1>7, <1>8, <2>1, UnitDrained DEF InOrder
<1>9. CASE /\ ~HaveIndex(tr) /\ track' = tr
           /\ UNCHANGED <<media, settings, sender, session, aborted, counts, history>>
  <2>1. UNCHANGED sent
    BY <1>9 DEF history
  <2> QED BY <1>1, <1>3, <1>7, <1>9, <2>1, UnitWaits, NoneSent
<1>10. \/ UNCHANGED <<track, media, settings, sender, session, aborted, counts, history>>
       \/ Abort("getFormat") /\ ~HasConverter(t)
       \/ HaveIndex(tr) /\ \E idle \in SUBSET (mTracks \ {t}) : Drain(tr, idle)
       \/ /\ ~HaveIndex(tr) /\ track' = tr
          /\ UNCHANGED <<media, settings, sender, session, aborted, counts, history>>
  BY <1>3, <1>4, <1>7 DEF OnAccessUnit
<1> QED BY <1>5, <1>6, <1>8, <1>9, <1>10

-----------------------------------------------------------------------------
(* The theorems                                                            *)

(* At first the queues are empty.                                          *)
LEMMA InitIInv ==
  ASSUME Init
  PROVE  IInv
<1>1. Alive /\ queue = <<>> /\ Members(queue) = {} /\ Ordered(queue) /\ InTurn(queue)
      /\ queue \in Seq(MsgType)
  BY QueueNone DEF Init, Alive
<1>2. \A t \in Tracks : /\ track[t] = [mStarted |-> FALSE, mConverter |-> TRUE,
                                       mPacketizerTrackIndex |-> FALSE,
                                       mQueuedAccessUnits |-> {}, mQueuedOutputBuffers |-> {}]
                        /\ converter[t] = [mEncoder |-> TRUE, inputs |-> <<>>,
                                           mDoMoreWorkPending |-> FALSE]
                        /\ puller[t] = [queue |-> <<>>, mPullGeneration |-> 0,
                                        started |-> FALSE, doing |-> "idle"]
                        /\ sent[t] = {}
  BY DEF Init
<1>3. Shape
  <2>1. /\ plan \in Plans /\ plan.units \in Nat /\ plan.faults \in Nat /\ clock = 0 /\ faults = 0
        /\ mTracks \subseteq Tracks /\ mSender = "init"
    BY PlansAssumption DEF Init, Tracks
  <2>2. track \in [Tracks -> TrackType]
    BY DEF Init, TrackType
  <2>3. converter \in [Tracks -> ConverterType]
    BY DEF Init, ConverterType
  <2>4. puller \in [Tracks -> PullerType]
    BY DEF Init, PullerType
  <2>5. sent \in [Tracks -> SUBSET Nat]
    BY DEF Init
  <2>6. repeater \in [frame : {"none", "fresh", "stale"}, mStartTimeUs : BOOLEAN]
    BY DEF Init
  <2> QED BY <1>1, <1>2, <2>1, <2>2, <2>3, <2>4, <2>5, <2>6 DEF Shape
<1>4. \A t \in Tracks : ~Stops(puller[t].queue) /\ OneStop(puller[t].queue) /\ ~ToldToStop(t)
  BY <1>2 DEF Stops, OneStop, ToldToStop
<1>5. PullersStopOnce
  BY <1>2, <1>4 DEF PullersStopOnce
<1>6. ChecksHold
  BY DEF Init, ChecksHold
<1>7. StartsOnce
  BY <1>1, <1>2 DEF Init, StartsOnce, Posted
<1>8. Undisturbed
  <2>1. "video" \in Tracks /\ "video" \in mTracks /\ mTracks \subseteq Tracks
    BY DEF Init, Tracks
  <2> QED BY <1>1, <1>2, <2>1 DEF Init, Undisturbed, Posted
<1>9. StopsInOrder
  <2>1. destroying = FALSE /\ registered = TRUE
    BY DEF Init
  <2> QED BY <1>1, <1>2, <1>4, <2>1 DEF StopsInOrder, Ending, Queued, Posted
<1>10. NoneRunsAway
  BY DEF Init, NoneRunsAway, Untold
<1>11. EndsByFault
  BY <1>1, <1>2, QueueNone DEF EndsByFault
<1>12. \A t \in Tracks : /\ Pulls(t) = {} /\ Input(t) = {} /\ Access(t) = {} /\ Held(t) = {}
                         /\ Coming(t) = {} /\ Own(t) = {}
  BY <1>1, <1>2, QueueNone DEF Pulls, Input, Access, Held, Coming, Own
<1>13. Carried
  <2>1. InLine
    BY <1>2, <1>12 DEF InLine, Below, Rising
  <2>2. Apart
    BY <1>12 DEF Apart
  <2>3. Merged
    BY <1>2 DEF Init, Merged, Below
  <2> QED BY <2>1, <2>2, <2>3 DEF Carried
<1> QED BY <1>1, <1>3, <1>5, <1>6, <1>7, <1>8, <1>9, <1>10, <1>11, <1>13
        DEF IInv, Going, Controlled

(* A step that changes nothing keeps the invariant.                        *)
LEMMA StutterStep ==
  ASSUME IInv, UNCHANGED vars
  PROVE  IInv' /\ InOrder
<1>1. UNCHANGED <<plan, usePCMAudio, queue, track, converter, puller, repeater, mSender,
                  finishPlay, mTracks, mAllTracksHavePacketizerIndex, destroying, registered,
                  aborted, clock, faults, sent, passed>>
  BY DEF vars, media, settings, sender, session, counts, history
<1>2. Shape' /\ PullersStopOnce'
  BY <1>1, PullersKept DEF IInv, Shape
<1>3. ChecksHold' /\ (Alive' <=> Alive)
  BY <1>1 DEF IInv, ChecksHold, Alive, MayFail
<1>4. ASSUME Alive PROVE Ordered(queue') /\ Controlled' /\ Carried'
  <2>1. Going /\ mTracks \subseteq Tracks
    BY <1>4 DEF IInv, Shape
  <2>2. SteadyTracks /\ SteadyQueue
    BY <1>1, TracksKept DEF SteadyQueue
  <2>3. faults' \in Nat /\ faults' >= faults /\ registered' = registered
    BY <1>1, FaultType
  <2>4. EndsByFault'
    BY <1>1, <1>4, <2>3, FaultsKept
  <2>5. registered' = registered \/ mTracks = {}
    BY <2>3
  <2>6. Controlled'
    BY <1>1, <1>4, <2>2, <2>4, <2>5, ControlledKept
  <2>7. Carried'
    BY <1>1, <2>1, CarriedKept DEF Going
  <2> QED BY <1>1, <2>1, <2>6, <2>7 DEF Going
<1>5. InOrder
  BY <1>1, NoneSent
<1> QED BY <1>2, <1>3, <1>4, <1>5 DEF IInv, Going

(* One step for each action.                                               *)
LEMMA Inductive ==
  ASSUME IInv, [Next]_vars
  PROVE  IInv' /\ InOrder
<1>1. CASE OnAccessUnit
  BY <1>1, AccessUnitStep
<1>2. CASE UNCHANGED vars
  BY <1>2, StutterStep
<1> DEFINE Rest ==
      \/ FinishPlay \/ DestroyAsync \/ RequestIDRFrame
      \/ OnFinishPlay \/ OnSenderDead \/ OnInitDone \/ OnPulled \/ OnEncoderActivity
      \/ OnShutdown \/ OnError \/ OnEOS \/ OnMediaPullerStopped \/ OnTrackStopped
      \/ OnSessionDestroyed
      \/ Connected \/ SenderFails \/ FrameArrives \/ GoesDormant
      \/ \E t \in Tracks : \/ OnPull(t) \/ Delivers(t) \/ OnStop(t)
                           \/ Stopped(t) \/ SourceEnds(t) \/ EncoderActivity(t)
<1>3. CASE Rest
  <2>1. UNCHANGED sent
    BY <1>3 DEF FinishPlay, DestroyAsync, RequestIDRFrame, OnFinishPlay, OnSenderDead, OnInitDone,
       OnPulled, OnEncoderActivity, OnShutdown, OnError, OnEOS, OnMediaPullerStopped,
       OnTrackStopped, OnSessionDestroyed, Connected, SenderFails, FrameArrives, GoesDormant,
       OnPull, Delivers, OnStop, Stopped, SourceEnds, EncoderActivity, Abort, history
  <2>2. IInv'
    <3>1. CASE FinishPlay
      BY <3>1, FinishPlayStep
    <3>2. CASE DestroyAsync
      BY <3>2, DestroyAsyncStep
    <3>3. CASE RequestIDRFrame
      BY <3>3, RequestIDRFrameStep
    <3>4. CASE OnFinishPlay
      BY <3>4, OnFinishPlayStep
    <3>5. CASE OnSenderDead \/ OnError
      BY <3>5, SenderDeadStep
    <3>6. CASE OnInitDone
      BY <3>6, InitDoneStep
    <3>7. CASE OnPulled
      BY <3>7, PulledStep
    <3>8. CASE OnEncoderActivity
      BY <3>8, OnEncoderActivityStep
    <3>9. CASE OnShutdown
      BY <3>9, ShutdownStep
    <3>10. CASE OnEOS
      BY <3>10, EOSStep
    <3>11. CASE OnMediaPullerStopped
      BY <3>11, MediaPullerStoppedStep
    <3>12. CASE OnTrackStopped
      BY <3>12, TrackStoppedStep
    <3>13. CASE OnSessionDestroyed
      BY <3>13, SessionDestroyedStep
    <3>14. CASE Connected
      BY <3>14, ConnectedStep
    <3>15. CASE SenderFails
      BY <3>15, SenderFailsStep
    <3>16. CASE FrameArrives
      BY <3>16, FrameStep
    <3>17. CASE GoesDormant
      BY <3>17, DormantStep
    <3>18. ASSUME NEW t \in Tracks, OnPull(t) PROVE IInv'
      BY <3>18, PullStep
    <3>19. ASSUME NEW t \in Tracks, Delivers(t) PROVE IInv'
      BY <3>19, DeliversStep
    <3>20. ASSUME NEW t \in Tracks, OnStop(t) PROVE IInv'
      BY <3>20, StopStep
    <3>21. ASSUME NEW t \in Tracks, Stopped(t) PROVE IInv'
      BY <3>21, StoppedStep
    <3>22. ASSUME NEW t \in Tracks, SourceEnds(t) PROVE IInv'
      BY <3>22, SourceEndsStep
    <3>23. ASSUME NEW t \in Tracks, EncoderActivity(t) PROVE IInv'
      BY <3>23, EncoderActivityStep
    <3> QED BY <1>3, <3>1, <3>2, <3>3, <3>4, <3>5, <3>6, <3>7, <3>8, <3>9, <3>10, <3>11, <3>12,
               <3>13, <3>14, <3>15, <3>16, <3>17, <3>18, <3>19, <3>20, <3>21, <3>22, <3>23
  <2> QED BY <2>1, <2>2, NoneSent
<1>4. OnAccessUnit \/ UNCHANGED vars \/ Rest
  BY DEF Next, Looper, Puller
<1> QED BY <1>1, <1>2, <1>3, <1>4

(* The invariant, and what it is for.                                      *)
LEMMA Invariance == Spec => []IInv
<1>1. Init => IInv
  BY InitIInv
<1>2. IInv /\ [Next]_vars => IInv'
  BY Inductive
<1> QED BY <1>1, <1>2, PTL DEF Spec

(* The variables keep their types, and a puller is at work on its source   *)
(* only between its start and its stop (MediaPuller::onMessageReceived).   *)
THEOREM TypeCorrect == Spec => []TypeOK
<1>1. IInv => TypeOK
  <2> SUFFICES ASSUME IInv PROVE TypeOK
    OBVIOUS
  <2>1. /\ mTracks \subseteq Tracks /\ mSender \in {"init", "connecting", "half", "connected", "none"}
        /\ repeater.frame \in {"none", "fresh", "stale"}
        /\ clock \in 0..plan.units /\ faults \in 0..plan.faults
    BY DEF IInv, Shape
  <2>2. ASSUME NEW t \in Tracks
        PROVE  /\ track[t].mQueuedAccessUnits \subseteq Units
               /\ track[t].mQueuedOutputBuffers \subseteq Units
               /\ puller[t].mPullGeneration \in 0..1
               /\ puller[t].doing \in {"idle", "reading", "dormant", "stopping"}
               /\ puller[t].doing # "idle" => puller[t].started
    <3>1. puller[t] \in PullerType
      BY DEF IInv, Shape
    <3>2. /\ puller[t].mPullGeneration \in 0..1
          /\ puller[t].doing \in {"idle", "reading", "dormant", "stopping"}
      BY <3>1 DEF PullerType
    <3>3. /\ track[t].mQueuedAccessUnits \subseteq Units
          /\ track[t].mQueuedOutputBuffers \subseteq Units
      BY DEF IInv, Shape, Units
    <3> QED BY <3>2, <3>3 DEF IInv, PullersStopOnce
  <2> QED BY <2>1, <2>2 DEF TypeOK
<1> QED BY <1>1, Invariance, PTL

(* The CHECKs of PlaybackSession, Track, Converter and RepeaterSource hold *)
(* while nobody has called destroyAsync and no source has ended; and no    *)
(* track is ever started twice, or looked for when it is gone.             *)
THEOREM ChecksAlwaysHold == Spec => []ChecksHold
<1>1. IInv => ChecksHold
  BY DEF IInv
<1> QED BY <1>1, Invariance, PTL

(* When the last track has told that it is stopped, so have its puller and *)
(* its encoder: no thread is at work on what is then destroyed.            *)
THEOREM DestroyedIsAlwaysQuiet == Spec => []DestroyedIsQuiet
<1>1. IInv => DestroyedIsQuiet
  BY DEF IInv, Alive, Going, Controlled, StopsInOrder, DestroyedIsQuiet
<1> QED BY <1>1, Invariance, PTL

(* The units of the tracks are merged: what drainAccessUnit hands to the   *)
(* sender is newer than all that was sent before, but for a track that was *)
(* passed over as idle.                                                    *)
THEOREM SendsInOrder == Spec => SentInOrder
<1>1. IInv /\ [Next]_vars =>
        [\A t, k \in Tracks : \A u \in sent'[t] \ sent[t], v \in sent[k] :
           u > v \/ t \in passed]_vars
  BY Inductive DEF InOrder
<1> QED BY <1>1, Invariance, PTL DEF Spec, SentInOrder
=============================================================================
