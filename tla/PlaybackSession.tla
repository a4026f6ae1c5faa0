--------------------------- MODULE PlaybackSession ---------------------------
(***************************************************************************)
(* PlaybackSession.cpp with what it drives: a Track per medium, each with  *)
(* a MediaPuller on a thread of its own and a Converter, the RepeaterSource*)
(* between the puller and the screen, and the part of Sender.cpp that      *)
(* opens the connection and reports its failure.                           *)
(*                                                                         *)
(* PlaybackSession, Track and Converter are handlers of one looper: queue  *)
(* holds their messages, handled one at a time in the order posted. A      *)
(* puller has a looper of its own and may be blocked in read() of its      *)
(* source. WifiDisplaySource, on the looper of the session, calls          *)
(* finishPlay and destroyAsync, once each.                                 *)
(*                                                                         *)
(* A media unit is its time stamp. The units of a track come in the order  *)
(* of their time stamps, so the two queues a track keeps are sets. An      *)
(* access unit comes out of the encoder for each unit that goes in.        *)
(* Encoding, encryption and packetizing are left out, but not their        *)
(* failures.                                                               *)
(*                                                                         *)
(* Outside src/: MediaCodec, the screen, the microphone, the dongle.       *)
(***************************************************************************)
EXTENDS Integers, Sequences, FiniteSets

CONSTANT
  Plans   \* bounds, one of which each behaviour keeps: the units looked at,
          \* the failures, and whether the session is destroyed

ASSUME PlansAssumption ==
  \A p \in Plans : p.units \in Nat /\ p.faults \in Nat /\ p.leaves \in BOOLEAN

Tracks == {"video", "audio"}

EOS    == 0   \* in place of a unit: the source has ended

VARIABLES
  plan,           \* of Plans
  queue,          \* of the looper of the session
  mTracks,        \* the tracks that are left
  track, converter, puller, repeater,
  usePCMAudio, transportMode,
  mSender,        \* "none" once it is cleared
  mAllTracksHavePacketizerIndex,
  mWeAreDead,
  finishPlay,     \* whether kWhatFinishPlay has come
  destroying,     \* whether destroyAsync was called
  registered,     \* FALSE once WifiDisplaySource has dropped the session
  aborted,        \* where the process died
  clock, faults,
  sent,           \* history: the units given to the sender, by track
  passed          \* history: tracks passed over as idle

settings == <<plan, usePCMAudio, transportMode>>
sender   == <<mSender, finishPlay>>
history  == <<sent, passed>>
counts   == <<clock, faults>>
media    == <<converter, puller, repeater>>
session  == <<mTracks, mAllTracksHavePacketizerIndex, mWeAreDead, destroying,
              registered>>
vars     == <<queue, track, media, settings, sender, session, aborted, counts,
              history>>

Units == 1..plan.units

Message(what, t, unit) == [what |-> what, track |-> t, unit |-> unit]
Plain(what)            == Message(what, "video", EOS)

Init ==
  /\ plan \in Plans
  /\ queue = <<>> /\ aborted = "none"
  /\ mTracks \in {{"video"}, Tracks}          \* there may be no AudioSource
  /\ track = [t \in Tracks |-> [mStarted |-> FALSE, mConverter |-> TRUE,
                                mPacketizerTrackIndex |-> FALSE,
                                mQueuedAccessUnits |-> {},
                                mQueuedOutputBuffers |-> {}]]
  /\ converter = [t \in Tracks |-> [mEncoder |-> TRUE, inputs |-> <<>>,
                                    mDoMoreWorkPending |-> FALSE]]
  /\ puller = [t \in Tracks |-> [queue |-> <<>>, mPullGeneration |-> 0,
                                 started |-> FALSE, doing |-> "idle"]]
  /\ repeater = [frame |-> "none", mStartTimeUs |-> FALSE]
  /\ usePCMAudio \in BOOLEAN      \* chosen together: they share no step
  /\ transportMode = IF usePCMAudio THEN "TCP" ELSE "UDP"
  /\ mSender = "init" /\ finishPlay = FALSE
  /\ mAllTracksHavePacketizerIndex = FALSE /\ mWeAreDead = FALSE
  /\ destroying = FALSE /\ registered = TRUE
  /\ clock = 0 /\ faults = 0
  /\ sent = [t \in Tracks |-> {}] /\ passed = {}

-----------------------------------------------------------------------------
(* Helpers. *)

Alive       == aborted = "none"
Encodes(t)  == ~(usePCMAudio /\ t = "audio")
MayFail     == faults < plan.faults
Fault       == MayFail /\ faults' = faults + 1
Abort(where) ==
  /\ aborted' = where
  /\ UNCHANGED <<track, media, settings, sender, session, counts, history>>

(* A converter lives as long as its track holds it. *)
HasConverter(t) == t \in mTracks /\ track[t].mConverter

(* The message at the head of the queue is handled; these are posted. *)
Handling(what)  == Alive /\ queue # <<>> /\ Head(queue).what = what
Done(posted)    == queue' = Tail(queue) \o posted

(* RepeaterSource::wakeUp *)
WakeUp == [repeater EXCEPT !.frame = IF @ = "stale" THEN "fresh" ELSE @]

-----------------------------------------------------------------------------
(* Called by WifiDisplaySource. *)

(* finishPlay gives the dongle a second: the step is the end of that, and  *)
(* destroyAsync may have been called meanwhile.                            *)
FinishPlay ==
  /\ Alive /\ ~finishPlay /\ finishPlay' = TRUE
  /\ queue' = Append(queue, Plain("FinishPlay"))
  /\ UNCHANGED <<track, media, settings, mSender, session, aborted, counts,
                 history>>

(* Fault: a track that was never started is not reported stopped. *)
StopAsyncIfStarted(t) == <<Message("Shutdown", t, EOS)>>

(* Fault: the track is reported stopped while its puller runs. *)
StopAsyncAtOnce(t) == <<Message("Shutdown", t, EOS),
                        Message("MediaPullerStopped", t, EOS)>>

StopAsync(t) == <<Message("Shutdown", t, EOS)>>
                \o IF track[t].mStarted THEN <<>>
                   ELSE <<Message("MediaPullerStopped", t, EOS)>>

DestroyAsync ==
  /\ Alive /\ plan.leaves /\ ~destroying /\ destroying' = TRUE
  /\ queue' = queue \o StopAsync("video")
                    \o (IF "audio" \in mTracks THEN StopAsync("audio") ELSE <<>>)
  /\ repeater' = IF track["video"].mStarted THEN WakeUp ELSE repeater
  /\ puller' = [t \in Tracks |->
       IF t \in mTracks /\ track[t].mStarted
         THEN [puller[t] EXCEPT !.queue = Append(@, <<"Stop", 0>>)]
         ELSE puller[t]]
  /\ UNCHANGED <<track, converter, settings, sender, mTracks, mWeAreDead,
                 mAllTracksHavePacketizerIndex, registered, aborted, counts,
                 history>>

RequestIDRFrame ==
  /\ Alive /\ registered /\ "video" \in mTracks
  /\ UNCHANGED queue
  /\ IF HasConverter("video")
       THEN /\ repeater' = WakeUp
            /\ UNCHANGED <<track, converter, puller, settings, sender, session,
                           aborted, counts, history>>
       ELSE Abort("requestIDRFrame")

-----------------------------------------------------------------------------
(* Opening the connection: Sender::finishInit and what it is told. *)

OnFinishPlay ==
  /\ Handling("FinishPlay")
  /\ IF ~registered
       THEN Done(<<>>) /\ UNCHANGED <<mSender, faults, aborted>>
       ELSE \/ /\ mSender = "none"
               /\ Done(<<>>) /\ aborted' = "onFinishPlay"
               /\ UNCHANGED <<mSender, faults>>
            \/ /\ mSender # "none" /\ transportMode # "TCP"
               /\ Done(<<Plain("InitDone")>>)
               /\ UNCHANGED <<mSender, faults, aborted>>
            \/ /\ mSender # "none" /\ transportMode = "TCP"
               /\ mSender' = "connecting" /\ Done(<<>>)
               /\ UNCHANGED <<faults, aborted>>
            \/ /\ mSender # "none" /\ transportMode = "TCP"
               /\ Fault /\ Done(<<>>)          \* the error is dropped
               /\ UNCHANGED <<mSender, aborted>>
  /\ UNCHANGED <<track, media, settings, session, finishPlay, clock, history>>

(* Fault: the first of the two sockets that connects is taken for both.    *)
ConnectedIsDone ==
  /\ Alive /\ mSender \in {"connecting", "half"}
  /\ mSender' = IF mSender = "half" THEN "connected" ELSE "half"
  /\ queue' = Append(queue, Plain("InitDone"))
  /\ UNCHANGED <<track, media, settings, finishPlay, session, aborted, counts,
                 history>>

(* kWhatConnected, of the one socket and then of the other: only of the    *)
(* RTP socket when the client named no RTCP port (Sender.cpp:447-450).     *)
Connected ==
  \/ /\ Alive /\ mSender = "connecting" /\ mSender' = "half" /\ UNCHANGED queue
     /\ UNCHANGED <<track, media, settings, finishPlay, session, aborted, counts,
                    history>>
  \/ /\ Alive /\ mSender \in {"connecting", "half"} /\ mSender' = "connected"
     /\ queue' = Append(queue, Plain("InitDone"))
     /\ UNCHANGED <<track, media, settings, finishPlay, session, aborted, counts,
                    history>>

(* kWhatError of a session the sender cannot do without. An RTP socket     *)
(* that fails to connect is told as an error of receiving, and ignored     *)
(* (Sender.cpp:371-379): Connected is then never taken.                    *)
SenderFails ==
  /\ Alive /\ mSender # "none" /\ Fault
  /\ queue' = Append(queue, Plain("SenderDead"))
  /\ UNCHANGED <<track, media, settings, sender, session, aborted, clock, history>>

OnSenderDead ==
  /\ Handling("SenderDead") /\ Done(<<>>)
  /\ mWeAreDead' = (mWeAreDead \/ registered)
  /\ UNCHANGED <<track, media, settings, sender, mTracks, destroying, registered,
                 mAllTracksHavePacketizerIndex, aborted, counts, history>>

(* onFinishPlay2: MediaPuller::start is synchronous and must not fail. *)
OnInitDone ==
  /\ Handling("InitDone") /\ Done(<<>>)
  /\ \/ ~registered
        /\ UNCHANGED <<track, media, settings, sender, session, aborted, counts,
                       history>>
     \/ registered /\ mSender = "none" /\ Abort("onFinishPlay2")
     \/ registered /\ mSender # "none" /\ MayFail /\ Abort("onFinishPlay2")
     \/ /\ registered /\ mSender # "none"
        /\ \E t \in mTracks : track[t].mStarted
        /\ Abort("start")
     \/ /\ registered /\ mSender # "none"
        /\ \A t \in mTracks : ~track[t].mStarted
        /\ track' = [t \in Tracks |->
             IF t \in mTracks THEN [track[t] EXCEPT !.mStarted = TRUE] ELSE track[t]]
        /\ puller' = [t \in Tracks |->
             IF t \in mTracks
               THEN [puller[t] EXCEPT !.started = TRUE,
                       !.queue = Append(@, <<"Pull", puller[t].mPullGeneration>>)]
               ELSE puller[t]]
        /\ UNCHANGED <<converter, repeater, settings, sender, session, aborted,
                       counts, history>>

-----------------------------------------------------------------------------
(* MediaPuller, and the RepeaterSource it reads the screen through. *)

(* Fault: a pull posted before the stop is served after it. *)
OnPullAnyway(t) ==
  /\ Alive /\ puller[t].doing = "idle" /\ puller[t].queue # <<>>
  /\ Head(puller[t].queue)[1] = "Pull"
  /\ puller' = [puller EXCEPT ![t].queue = Tail(@), ![t].doing = "reading"]
  /\ UNCHANGED <<queue, track, converter, repeater, settings, sender, session,
                 aborted, counts, history>>

(* kWhatPull: read() begins. *)
OnPull(t) ==
  /\ Alive /\ puller[t].doing = "idle" /\ puller[t].queue # <<>>
  /\ Head(puller[t].queue)[1] = "Pull"
  /\ puller' = [puller EXCEPT
       ![t].queue = Tail(@),
       ![t].doing = IF Head(puller[t].queue)[2] # puller[t].mPullGeneration
                      THEN "idle"
                    ELSE IF t = "video" /\ ~repeater.mStartTimeUs
                      THEN "dormant" ELSE "reading"]
  /\ UNCHANGED <<queue, track, converter, repeater, settings, sender, session,
                 aborted, counts, history>>

(* read() returns a unit. Dormant, it waited for the frame, or for wakeUp, *)
(* which the unit then follows at once.                                    *)
Delivers(t) ==
  /\ Alive /\ puller[t].doing \in {"reading", "dormant"}
  /\ t = "video" => repeater.frame = "fresh"
  /\ repeater' = IF t = "video" THEN [repeater EXCEPT !.mStartTimeUs = TRUE]
                                ELSE repeater
  /\ puller' = [puller EXCEPT
       ![t].doing = "idle",
       ![t].queue = Append(@, <<"Pull", puller[t].mPullGeneration>>)]
  /\ IF clock < plan.units
       THEN /\ clock' = clock + 1
            /\ queue' = Append(queue, Message("Pulled", t, clock'))
       ELSE UNCHANGED <<clock, queue>>
  /\ UNCHANGED <<track, converter, settings, sender, session, aborted, faults,
                 history>>

(* The source fails, or has ended. *)
SourceEnds(t) ==
  /\ Alive /\ puller[t].doing \in {"reading", "dormant"} /\ Fault
  /\ puller' = [puller EXCEPT ![t].doing = "idle"]
  /\ queue' = Append(queue, Message("Pulled", t, EOS))
  /\ UNCHANGED <<track, converter, repeater, settings, sender, session, aborted,
                 clock, history>>

(* No frame for a second: read() does not return, but waits for one. *)
GoesDormant ==
  /\ Alive /\ puller["video"].doing = "reading"
  /\ repeater' = [frame |-> "stale", mStartTimeUs |-> FALSE]
  /\ puller' = [puller EXCEPT !["video"].doing = "dormant"]
  /\ UNCHANGED <<queue, track, converter, settings, sender, session, aborted,
                 counts, history>>

(* kWhatRead on the looper of the RepeaterSource: a frame from the screen *)
FrameArrives ==
  /\ Alive /\ puller["video"].started
  /\ repeater' = [repeater EXCEPT !.frame = "fresh"]
  /\ UNCHANGED <<queue, track, converter, puller, settings, sender, session,
                 aborted, counts, history>>

(* kWhatStop. RepeaterSource::stop first waits for its looper, which is in *)
(* read() of the screen and leaves it with the next frame only.            *)
OnStop(t) ==
  /\ Alive /\ puller[t].doing = "idle" /\ puller[t].queue # <<>>
  /\ Head(puller[t].queue)[1] = "Stop"
  /\ puller' = [puller EXCEPT ![t].queue = Tail(@), ![t].doing = "stopping"]
  /\ UNCHANGED <<queue, track, converter, repeater, settings, sender, session,
                 aborted, counts, history>>

Stopped(t) ==
  /\ Alive /\ puller[t].doing = "stopping"
  /\ puller' = [puller EXCEPT ![t].doing = "idle", ![t].started = FALSE,
                              ![t].mPullGeneration = @ + 1]
  /\ queue' = Append(queue, Message("MediaPullerStopped", t, EOS))
  /\ repeater' = IF t = "video" THEN [repeater EXCEPT !.frame = "none"] ELSE repeater
  /\ UNCHANGED <<track, converter, settings, sender, session, aborted, counts,
                 history>>

-----------------------------------------------------------------------------
(* Converter. *)

(* kWhatMediaPullerNotify. Raw audio goes straight on; the end of it would *)
(* be read from a buffer that is not there.                                *)
OnPulled ==
  /\ Handling("Pulled")
  /\ LET t == Head(queue).track
         unit == Head(queue).unit
     IN \/ /\ ~HasConverter(t) \/ (Encodes(t) /\ ~converter[t].mEncoder)
           /\ Done(<<>>)
           /\ UNCHANGED <<converter, aborted>>
        \/ /\ HasConverter(t) /\ Encodes(t) /\ converter[t].mEncoder
           /\ converter' = [converter EXCEPT ![t].inputs = Append(@, unit),
                                             ![t].mDoMoreWorkPending = TRUE]
           /\ Done(<<>>)
           /\ UNCHANGED aborted
        \/ /\ HasConverter(t) /\ ~Encodes(t)
           /\ IF unit = EOS
                THEN Done(<<>>) /\ aborted' = "feedRawAudioInputBuffers"
                ELSE Done(<<Message("AccessUnit", t, unit)>>) /\ UNCHANGED aborted
           /\ UNCHANGED converter
  /\ UNCHANGED <<track, puller, repeater, settings, sender, session, counts, history>>

(* The encoder, when asked to, tells that it has done something. *)
EncoderActivity(t) ==
  /\ Alive /\ HasConverter(t) /\ converter[t].mEncoder /\ converter[t].mDoMoreWorkPending
  /\ converter[t].inputs # <<>>
  /\ ~\E i \in DOMAIN queue : queue[i] = Message("EncoderActivity", t, EOS)
  /\ queue' = Append(queue, Message("EncoderActivity", t, EOS))
  /\ UNCHANGED <<track, media, settings, sender, session, aborted, counts, history>>

(* doMoreWork: what the encoder has finished is passed on. *)
OnEncoderActivity ==
  /\ Handling("EncoderActivity")
  /\ LET t   == Head(queue).track
         out == converter[t].inputs
         Notify(unit) == IF unit = EOS THEN Message("EOS", t, EOS)
                                       ELSE Message("AccessUnit", t, unit)
     IN \/ /\ ~HasConverter(t) \/ ~converter[t].mEncoder
           /\ converter' = [converter EXCEPT ![t].mDoMoreWorkPending = FALSE]
           /\ Done(<<>>) /\ UNCHANGED faults
        \/ /\ HasConverter(t) /\ converter[t].mEncoder /\ out # <<>>
           /\ \E n \in 1..Len(out) :
                /\ converter' = [converter EXCEPT ![t].inputs = SubSeq(@, n + 1, Len(@))]
                /\ Done([i \in 1..n |-> Notify(out[i])])
           /\ UNCHANGED faults
        \/ /\ HasConverter(t) /\ converter[t].mEncoder
           /\ Fault
           /\ converter' = [converter EXCEPT ![t].mDoMoreWorkPending = FALSE]
           /\ Done(<<Message("Error", t, EOS)>>)
  /\ UNCHANGED <<track, puller, repeater, settings, sender, session, aborted, clock,
                 history>>

OnShutdown ==
  /\ Handling("Shutdown") /\ Done(<<>>)
  /\ LET t == Head(queue).track
     IN converter' = IF HasConverter(t)
                       THEN [converter EXCEPT ![t].mEncoder = FALSE, ![t].inputs = <<>>]
                       ELSE converter
  /\ UNCHANGED <<track, puller, repeater, settings, sender, session, aborted, counts,
                 history>>

-----------------------------------------------------------------------------
(* Access units: each track has to be known to the packetizer before any   *)
(* unit is, then the units of all tracks are merged.                       *)

HaveIndex(tr) == mAllTracksHavePacketizerIndex
                 \/ \A t \in mTracks : tr[t].mPacketizerTrackIndex

AddTrack(t) == [track EXCEPT ![t].mPacketizerTrackIndex = TRUE]

(* packetizeQueuedAccessUnits *)
Requeue(tr) == [t \in Tracks |->
  IF t \in mTracks
    THEN [tr[t] EXCEPT !.mQueuedOutputBuffers = @ \cup tr[t].mQueuedAccessUnits,
                       !.mQueuedAccessUnits = {}]
    ELSE tr[t]]

(* The unit arrives at track t; it is queued to wait, or for output. *)
Received(t, unit) ==
  LET known == IF track[t].mPacketizerTrackIndex THEN track ELSE AddTrack(t)
      ready == IF ~track[t].mPacketizerTrackIndex /\ HaveIndex(known)
                 THEN Requeue(known) ELSE known
  IN IF HaveIndex(known)
       THEN [ready EXCEPT ![t].mQueuedOutputBuffers = @ \cup {unit}]
       ELSE [known EXCEPT ![t].mQueuedAccessUnits = @ \cup {unit}]

(* Fault: a track without a unit is never waited for. *)
DrainedAll(tr, idle) == UNION {tr[t].mQueuedOutputBuffers : t \in mTracks}

(* drainAccessUnit goes on while each track that is not idle has a unit. *)
Drained(tr, idle) ==
  LET Queued(t) == tr[t].mQueuedOutputBuffers
  IN {u \in UNION {Queued(t) : t \in mTracks} :
        \A t \in mTracks \ idle : \E v \in Queued(t) : v >= u}

Without(tr, units) == [t \in Tracks |->
  [tr[t] EXCEPT !.mQueuedOutputBuffers = @ \ units]]

(* The units leave in the order of their time stamps. If the encryption of *)
(* one fails, it and those after it are not sent.                          *)
Drain(tr, idle) ==
  LET units == Drained(tr, idle)
      video == units \cap tr["video"].mQueuedOutputBuffers
  IN \/ /\ video # {} /\ ~HasConverter("video")
        /\ Abort("packetizeAccessUnit") /\ UNCHANGED <<mTracks>>
     \/ /\ video = {} \/ HasConverter("video")
        /\ \E cut \in (IF MayFail THEN video ELSE {}) \cup {plan.units + 1} :
             LET out == {u \in units : u < cut}
             IN /\ track' = Without(tr, {u \in units : u <= cut})
                /\ sent' = [t \in Tracks |->
                              sent[t] \cup (out \cap tr[t].mQueuedOutputBuffers)]
                /\ passed' = IF out = {} THEN passed
                             ELSE passed \cup {t \in idle :
                                    tr[t].mQueuedOutputBuffers \subseteq out}
                /\ mWeAreDead' = (cut \in Units)
                /\ faults' = IF cut \in Units THEN faults + 1 ELSE faults
        /\ mAllTracksHavePacketizerIndex' = TRUE
        /\ UNCHANGED <<media, settings, sender, mTracks, destroying, registered,
                       aborted, clock>>

OnAccessUnit ==
  /\ Handling("AccessUnit") /\ Done(<<>>)
  /\ LET t == Head(queue).track
         unit == Head(queue).unit
     IN \/ /\ ~registered \/ mWeAreDead
           /\ UNCHANGED <<track, media, settings, sender, session, aborted, counts,
                          history>>
        \/ /\ registered /\ ~mWeAreDead /\ t \notin mTracks
           /\ Abort("valueFor")
        \/ /\ registered /\ ~mWeAreDead /\ t \in mTracks
           /\ ~track[t].mPacketizerTrackIndex /\ ~HasConverter(t)
           /\ Abort("getFormat")
        \/ /\ registered /\ ~mWeAreDead /\ t \in mTracks
           /\ track[t].mPacketizerTrackIndex \/ HasConverter(t)
           /\ LET tr == Received(t, unit)
              IN IF HaveIndex(tr)
                   THEN \E idle \in SUBSET (mTracks \ {t}) : Drain(tr, idle)
                   ELSE /\ track' = tr
                        /\ UNCHANGED <<media, settings, sender, session, aborted,
                                       counts, history>>

(* kWhatError of a converter; notifySessionDead *)
OnError ==
  /\ Handling("Error") /\ Done(<<>>)
  /\ mWeAreDead' = (mWeAreDead \/ registered)
  /\ UNCHANGED <<track, media, settings, sender, mTracks, destroying, registered,
                 mAllTracksHavePacketizerIndex, aborted, counts, history>>

(* kWhatEOS takes the track out; ~Track checks that it is not started. *)
OnEOS ==
  /\ Handling("EOS") /\ Done(<<>>)
  /\ LET t == Head(queue).track
     IN \/ /\ ~registered \/ mWeAreDead
           /\ UNCHANGED <<track, media, settings, sender, session, aborted, counts,
                          history>>
        \/ /\ registered /\ ~mWeAreDead
           /\ Abort(IF ~HasConverter(t) THEN "EOS" ELSE "~Track")

-----------------------------------------------------------------------------
(* Going away. *)

(* Track's kWhatMediaPullerStopped *)
OnMediaPullerStopped ==
  /\ Handling("MediaPullerStopped")
  /\ LET t == Head(queue).track
     IN IF t \in mTracks
          THEN /\ track' = [track EXCEPT ![t].mConverter = FALSE, ![t].mStarted = FALSE]
               /\ Done(<<Message("TrackStopped", t, EOS)>>)
          ELSE /\ Done(<<>>) /\ UNCHANGED track
  /\ UNCHANGED <<media, settings, sender, session, aborted, counts, history>>

(* The track goes, with its puller and source; the last one takes the      *)
(* sender with it.                                                         *)
OnTrackStopped ==
  /\ Handling("TrackStopped")
  /\ LET t == Head(queue).track
     IN \/ /\ ~registered /\ Done(<<>>)
           /\ UNCHANGED <<track, media, settings, sender, session, aborted, counts,
                          history>>
        \/ /\ registered /\ t \notin mTracks
           /\ Done(<<>>) /\ Abort("valueFor")
        \/ /\ registered /\ t \in mTracks /\ track[t].mStarted
           /\ Done(<<>>) /\ Abort("~Track")
        \/ /\ registered /\ t \in mTracks /\ ~track[t].mStarted
           /\ t = "video" /\ puller[t].started
           /\ Done(<<>>) /\ Abort("~RepeaterSource")
        \/ /\ registered /\ t \in mTracks /\ ~track[t].mStarted
           /\ t = "video" => ~puller[t].started
           /\ mTracks' = mTracks \ {t}
           /\ IF mTracks' = {}
                THEN mSender' = "none" /\ Done(<<Plain("SessionDestroyed")>>)
                ELSE UNCHANGED mSender /\ Done(<<>>)
           /\ UNCHANGED <<track, media, settings, finishPlay, destroying, registered,
                          mAllTracksHavePacketizerIndex, mWeAreDead, aborted, counts,
                          history>>

(* WifiDisplaySource::disconnectClient2 *)
OnSessionDestroyed ==
  /\ Handling("SessionDestroyed") /\ Done(<<>>)
  /\ registered' = FALSE
  /\ UNCHANGED <<track, media, settings, sender, mTracks, mWeAreDead, destroying,
                 mAllTracksHavePacketizerIndex, aborted, counts, history>>

-----------------------------------------------------------------------------
Looper ==
  \/ OnFinishPlay \/ OnSenderDead \/ OnInitDone
  \/ OnPulled \/ OnEncoderActivity \/ OnShutdown
  \/ OnAccessUnit \/ OnError \/ OnEOS
  \/ OnMediaPullerStopped \/ OnTrackStopped \/ OnSessionDestroyed

Puller(t) == OnPull(t) \/ Delivers(t) \/ OnStop(t)

Next ==
  \/ FinishPlay \/ DestroyAsync \/ RequestIDRFrame
  \/ Looper \/ Connected \/ SenderFails
  \/ FrameArrives \/ GoesDormant
  \/ \E t \in Tracks :
       Puller(t) \/ Stopped(t) \/ SourceEnds(t) \/ EncoderActivity(t)

Spec == Init /\ [][Next]_vars

(* The loopers run, and the microphone is always read. The screen may stay *)
(* as it is for ever, and the dongle need not answer.                      *)
FairSpec ==
  /\ Spec
  /\ WF_vars(Looper)
  /\ \A t \in Tracks : WF_vars(Puller(t))
  /\ WF_vars(Stopped("audio"))

-----------------------------------------------------------------------------
(* The variables keep their types; a source is read only between its start *)
(* and its stop, which pulls posted before the stop must not change; and   *)
(* there are no more pulls to come after its stop.                         *)
TypeOK ==
  /\ mTracks \subseteq Tracks
  /\ \A t \in Tracks :
       /\ track[t].mQueuedAccessUnits \subseteq Units
       /\ track[t].mQueuedOutputBuffers \subseteq Units
       /\ puller[t].mPullGeneration \in 0..1
       /\ puller[t].doing \in {"idle", "reading", "dormant", "stopping"}
       /\ puller[t].doing # "idle" => puller[t].started
  /\ mSender \in {"init", "connecting", "half", "connected", "none"}
  /\ repeater.frame \in {"none", "fresh", "stale"}
  /\ clock \in 0..plan.units /\ faults \in 0..plan.faults

(* The CHECKs hold for a session nobody disturbs: those for the converter, *)
(* the sender and the source only fail once destroyAsync was called (lines *)
(* 802, 391; Track::requestIDRFrame), those that let a track go only when  *)
(* its source has ended (line 497), those of the start only when it fails. *)
(* No track is ever started twice or looked for when it is gone.           *)
ChecksHold ==
  /\ aborted \notin {"start", "valueFor"}
  /\ aborted \in {"getFormat", "packetizeAccessUnit", "requestIDRFrame",
                  "onFinishPlay", "~RepeaterSource", "EOS"} => destroying
  /\ aborted \in {"~Track", "feedRawAudioInputBuffers"} => destroying \/ faults > 0
  /\ aborted = "onFinishPlay2" => destroying \/ MayFail

(* When the last track is gone, and the session about to tell that it is   *)
(* destroyed, no puller is at work on its source and no encoder has work:  *)
(* destroyAsync has waited for each of their threads.                      *)
DestroyedIsQuiet ==
  mTracks = {} /\ aborted = "none" =>
    \A t \in Tracks :
      /\ puller[t].doing = "idle" /\ ~puller[t].started
      /\ converter[t].inputs = <<>>

(* The units of the two tracks reach the sender in the order of their time *)
(* stamps; only a track that was passed over as idle may be late.          *)
SentInOrder ==
  [][\A t, k \in Tracks : \A u \in sent'[t] \ sent[t], v \in sent[k] :
       u > v \/ t \in passed]_vars

(* destroyAsync is answered, unless the process died or the puller waits   *)
(* for a frame of the screen for ever.                                     *)
WaitsForFrame == puller["video"].doing \in {"dormant", "stopping"}
DestroyIsAnswered ==
  destroying ~> (~registered \/ aborted # "none" \/ []WaitsForFrame)

(* The comment in stopAsync: "Let's unblock MediaPuller's                  *)
(* MediaSource::read()" (PlaybackSession.cpp:201). Once there has been a   *)
(* frame to repeat, no read keeps the stop waiting for another one.        *)
StopIsKept ==
  /\ puller["video"].doing = "dormant" /\ repeater.frame # "none"
  /\ \E i \in DOMAIN puller["video"].queue : puller["video"].queue[i][1] = "Stop"
ReadIsUnblocked == StopIsKept ~> (~StopIsKept \/ ~Alive)
=============================================================================
