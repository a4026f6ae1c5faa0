----------------------------- MODULE WfdSession -----------------------------
(***************************************************************************)
(* The source and sinks of this repository connected to each other: sink s *)
(* makes connection s, and what it has sent stands in the source's queue.  *)
(* The source keeps one of them and rejects those that come meanwhile. A   *)
(* connection can break at any time; when one end closes it the other end  *)
(* reads what is left and then the error.                                  *)
(***************************************************************************)
EXTENDS WifiDisplaySource, WifiDisplaySink

(* The sink does not know of content protection.                           *)
ASSUME SessionAssumption == ~SupportsHDCP

VARIABLE sink   \* per session: the WifiDisplaySink

SinkRuns(s) == sink[s].mSessionID /\ ~sink[s].aborted
LinkIsUp(s) == dongle[s] = "on" /\ s \in live /\ aborted = "no"

(* kWhatStart: the sink connects, the source accepts.                      *)
SinkStarts(s) ==
  /\ aborted = "no" /\ mSessionID
  /\ sink[s].mState = "UNDEFINED"
  /\ \A r \in SessionIDs : r < s => sink[r].mState # "UNDEFINED"
  /\ sink' = [sink EXCEPT ![s] = SinkStart(@)]
  /\ dongle' = [dongle EXCEPT ![s] = "on"]
  /\ live' = live \cup {s}
  /\ Post(s, "ClientConnected", "remote")
  /\ UNCHANGED <<source, sent, asked>>

SinkGetsConnected(s) ==
  /\ SinkRuns(s)
  /\ sink[s].mState = "CONNECTING"
  /\ sink' = [sink EXCEPT ![s] = SinkConnected(@)]
  /\ UNCHANGED <<source, queue, live, sent, peer>>

(* The source cannot be sent anything over a connection that is down. A    *)
(* handler asks once at most.                                              *)
SinkReceives(s) ==
  /\ SinkRuns(s)
  /\ sink[s].mState # "CONNECTING" /\ sent[s] # << >>
  /\ LET done == SinkReceive(sink[s], Head(sent[s]))
         data == [i \in 1..Len(done.out) |-> Msg("Data", s, done.out[i])]
     IN  /\ sink' = [sink EXCEPT ![s] = done.sink]
         /\ queue' = IF LinkIsUp(s) THEN queue \o data ELSE queue
         /\ asked' = IF \E i \in 1..Len(done.out) : done.out[i][1] = "ask"
                       THEN [asked EXCEPT ![s] = @ + 1] ELSE asked
  /\ sent' = [sent EXCEPT ![s] = Tail(@)]
  /\ UNCHANGED <<source, live, dongle>>

(* The network fails, the sink's player is closed, or the sink has aborted.*)
LinkBreaks(s) ==
  /\ LinkIsUp(s)
  /\ dongle' = [dongle EXCEPT ![s] = "gone"]
  /\ Post(s, "Error", "")
  /\ \/ UNCHANGED sink
     \/ SinkRuns(s) /\ sink' = [sink EXCEPT ![s] = SinkLost(@)]
  /\ UNCHANGED <<source, live, sent, asked>>

(* The sink reads the end of the connection.                               *)
SinkLoses(s) ==
  /\ SinkRuns(s)
  /\ ~LinkIsUp(s)
  /\ sink' = [sink EXCEPT ![s] = SinkLost(@)]
  /\ UNCHANGED <<source, queue, live, sent, peer>>

SinkNext == \E s \in SessionIDs :
  \/ SinkStarts(s)
  \/ SinkGetsConnected(s)
  \/ SinkReceives(s)
  \/ LinkBreaks(s)
  \/ SinkLoses(s)

SessionNext == (SourceNext /\ UNCHANGED <<peer, sink>>) \/ SinkNext

SessionInit == Init /\ sink = [s \in SessionIDs |-> NewSink]

SessionSpec == SessionInit /\ [][SessionNext]_<<vars, peer, sink>>

SinkGoes(s) == SinkGetsConnected(s) \/ SinkReceives(s) \/ SinkLoses(s)

(* All loopers and the network make progress. Over UDP a sender needs no   *)
(* connection to be initialised.                                           *)
FairSession ==
  /\ SessionSpec /\ SourceFairness
  /\ WF_vars(PlaybackEstablished)
  /\ \A s \in SessionIDs : WF_<<vars, sink>>(SinkGoes(s))

-----------------------------------------------------------------------------
(* Properties                                                              *)

(* The source never sends media to a sink that has not bound its sockets,  *)
(* or has bound them twice (sendSetup, sink; onSetupRequest, source), and  *)
(* no other sink binds any.                                                *)
SocketsAreBound ==
  playback # "none" => \E s \in SessionIDs :
    /\ mClientSessionID \in {s, 0}
    /\ \A t \in SessionIDs : sink[t].mRTPSinks = IF t = s THEN 1 ELSE 0

(* One sink plays, and only what the source was asked to play.             *)
StatesAgree ==
  /\ aborted = "no" => \A s \in SessionIDs :
       /\ sink[s].mState = "PAUSED" => mState \in AfterSetup \cup BeingStopped
       /\ sink[s].mState = "PLAYING" =>
            mState \in {"ABOUT_TO_PLAY", "PLAYING"} \cup BeingStopped
  /\ \A s, t \in SessionIDs :
       sink[s].mState \in {"PAUSED", "PLAYING"} /\ sink[t].mState \in {"PAUSED", "PLAYING"}
         => s = t

Lost(s) ==
  \/ dongle[s] = "gone" \/ s \notin live
  \/ stopCalled \/ displayError \/ aborted # "no" \/ sink[s].aborted

(* A sink that connects ends up playing, unless the connection is lost or  *)
(* rejected, an error is shown, stop() is called or a CHECK fails: nobody  *)
(* waits for a message that the other one waits to be asked for.           *)
ReachesPlaying == \A s \in SessionIDs :
  dongle[s] = "on" ~> \/ mState = "PLAYING" /\ sink[s].mState = "PLAYING"
                      \/ Lost(s)

(* stop() of the source ends the session at the sinks, in order or not,    *)
(* unless the playback session never answers destroyAsync and the link     *)
(* holds: then the source keeps the connection of a sink that waits for    *)
(* nothing.                                                                *)
StopReachesSink ==
  stopCalled ~> \/ \A s \in SessionIDs : ~SinkRuns(s)
                \/ PlaybackNeverAnswers

=============================================================================
