-------------------------- MODULE WifiDisplaySource --------------------------
(***************************************************************************)
(* source/WifiDisplaySource.cpp: the RTSP server of the sending device. It *)
(* accepts one client (a "dongle"), negotiates capabilities with it (M1 to *)
(* M5), serves its SETUP, PLAY and TEARDOWN, keeps it alive with M16 and   *)
(* reaps it when it falls silent, and stops on request.                    *)
(*                                                                         *)
(* Every handler runs on one looper; a handler is one step. "queue" is the *)
(* looper's queue of messages that are due: the notifications of the       *)
(* network session, in the order the network posted them, those of the     *)
(* playback session and of HDCP, and stop(). Messages posted with a delay  *)
(* are variables of their own and may come at any time.                    *)
(*                                                                         *)
(* A CHECK that fails aborts the process: "aborted" says in which function *)
(* and nothing happens any more.                                           *)
(*                                                                         *)
(* Outside this file: the dongle, see Dongle and WfdSession; the network   *)
(* session, here the set of live sessions; the playback session, which has *)
(* at least one track; the HDCP module. Dongles answer in order and no    *)
(* request is asked again before it was answered, so a response is matched *)
(* to its request by name, not by CSeq.                                    *)
(***************************************************************************)
EXTENDS Integers, Sequences, FiniteSets

CONSTANTS
  MaxClients,     \* bound: connections dongles make
  Lifesigns,      \* the requests of dongles that only prolong their life
  SupportsHDCP    \* whether dongles ask for content protection

ASSUME SourceAssumption ==
  /\ MaxClients \in Nat \ {0}
  /\ Lifesigns \subseteq {"PAUSE", "GET_PARAMETER", "SET_PARAMETER"}
  /\ SupportsHDCP \in BOOLEAN

SessionIDs == 1..MaxClients

(* The requests of the source: M5 triggers SETUP, M5stop triggers TEARDOWN.*)
Requests == {"M1", "M3", "M4", "M5", "M5stop", "M16"}

States ==
  {"INITIALIZED", "AWAITING_CLIENT_CONNECTION", "AWAITING_CLIENT_SETUP",
   "AWAITING_CLIENT_PLAY", "ABOUT_TO_PLAY", "PLAYING",
   "AWAITING_CLIENT_TEARDOWN", "STOPPING", "STOPPED"}

AfterSetup    == {"AWAITING_CLIENT_PLAY", "ABOUT_TO_PLAY", "PLAYING"}
BeingStopped  == {"AWAITING_CLIENT_TEARDOWN", "STOPPING", "STOPPED"}

VARIABLES
  mState,
  mSessionID,           \* whether the listening session exists
  mClientSessionID,     \* the client's session, 0 if none
  mPlaybackSessionID,   \* whether the client has had a SETUP, # -1 in the code
  playback,             \* mPlaybackSession: "none" is NULL
  mResponseHandlers,
  mReaperPending,
  keepAlives,           \* sessions with kWhatKeepAlive scheduled
  teardownTimer,        \* whether kWhatTeardownTriggerTimedOut is scheduled
  finishStop2,          \* whether kWhatFinishStop2 is scheduled
  finishPlay,           \* whether the playback session's kWhatFinishPlay is
  mHDCP,                \* the HDCP module: "none" is NULL
  mUsingHDCP, mHDCPInitializationComplete, mSetupTriggerDeferred,
  queue,                \* the looper's queue
  replies,              \* history: replies to stop()
  stopCalled,           \* history: whether stop() was called
  displayError,         \* history: whether onDisplayError was called
  aborted,
  live,                 \* sessions the network session has
  sent,                 \* per session: what the dongle has not received yet
  dongle,               \* per session: what the dongle knows, "absent" before it
                        \* connects and "gone" when the connection is broken
  asked                 \* per session: the number of messages it sent unasked

client   == <<mClientSessionID, mPlaybackSessionID>>
timers   == <<mReaperPending, keepAlives, teardownTimer, finishStop2>>
hdcp     == <<mUsingHDCP, mHDCPInitializationComplete, mSetupTriggerDeferred>>
stopping == <<mSessionID, mHDCP, replies>>
vars     == <<mState, client, playback, mResponseHandlers, timers, finishPlay,
              hdcp, stopping, queue, stopCalled, displayError, aborted, live,
              sent>>
peer     == <<dongle, asked>>

Msg(what, s, arg) == [what |-> what, session |-> s, arg |-> arg]

Init ==
  /\ mState = "INITIALIZED" /\ mSessionID = FALSE
  /\ mClientSessionID = 0 /\ mPlaybackSessionID = FALSE
  /\ playback = "none" /\ finishPlay = FALSE
  /\ mResponseHandlers = {}
  /\ mReaperPending = FALSE /\ keepAlives = {}
  /\ teardownTimer = FALSE /\ finishStop2 = FALSE
  /\ mHDCP = "none" /\ mUsingHDCP = FALSE
  /\ mHDCPInitializationComplete = FALSE /\ mSetupTriggerDeferred = FALSE
  /\ queue = << >> /\ replies = 0 /\ stopCalled = FALSE
  /\ displayError = FALSE /\ aborted = "no"
  /\ live = {} /\ sent = [s \in SessionIDs |-> << >>]
  /\ dongle = [s \in SessionIDs |-> "absent"]
  /\ asked = [s \in SessionIDs |-> 0]

(* A notification of the network session.                                  *)
Post(s, what, arg) == queue' = Append(queue, Msg(what, s, arg))

(* ANetworkSession::sendRequest fails if there is no such session.         *)
Send(s, msgs) ==
  sent' = IF s \in live THEN [sent EXCEPT ![s] = @ \o msgs] ELSE sent

Ask(req)     == <<"ask", req>>
Ok(req)      == <<"ok", req>>
Refused(req) == <<"refused", req>>

(* sendM1, sendM3, ...: the request is sent and its response handler added.*)
SendRequest(s, req) ==
  /\ Send(s, <<Ask(req)>>)
  /\ mResponseHandlers' = IF s \in live THEN mResponseHandlers \cup {<<s, req>>}
                                        ELSE mResponseHandlers

(* The handler of the message at the head of the queue.                    *)
Handle(what) ==
  /\ aborted = "no"
  /\ queue # << >>
  /\ Head(queue).what = what
  /\ queue' = Tail(queue)

Due == aborted = "no" /\ UNCHANGED queue

Session == Head(queue).session

(* err # OK is shown to the user by onDisplayError.                        *)
Show(err) == displayError' = (displayError \/ err)

-----------------------------------------------------------------------------
(* Starting and stopping                                                   *)

Start ==
  /\ Due
  /\ mState = "INITIALIZED" /\ ~stopCalled
  /\ mState' = "AWAITING_CLIENT_CONNECTION"
  /\ mSessionID' = TRUE
  /\ UNCHANGED <<client, playback, mResponseHandlers, timers, finishPlay, hdcp,
                 mHDCP, replies, stopCalled, displayError, aborted, live, sent>>

FinishStop2 ==
  /\ mHDCP' = "none"
  /\ mSessionID' = FALSE
  /\ mState' = "STOPPED"
  /\ replies' = replies + 1

(* Fault: the client's session is left to the network session.             *)
DisconnectOnly ==
  /\ playback' = "none"
  /\ mClientSessionID' = 0
  /\ UNCHANGED live
  /\ FinishStop2

(* disconnectClient2 and finishStopAfterDisconnectingClient.               *)
DisconnectClient2 ==
  /\ playback' = "none"
  /\ live' = live \ {mClientSessionID}
  /\ mClientSessionID' = 0
  /\ IF mHDCP = "none"
       THEN FinishStop2
       ELSE /\ mHDCP' = "shutting down"       \* shutdownAsync
            /\ mState' = "STOPPING"
            /\ UNCHANGED <<mSessionID, replies>>

(* Fault: the client is disconnected while its playback session runs.      *)
FinishStopNow == DisconnectClient2

(* Fault: stop() is answered before the playback session is destroyed.     *)
FinishStopEarly ==
  IF playback = "none"
    THEN DisconnectClient2
    ELSE /\ playback' = "destroying"
         /\ FinishStop2
         /\ UNCHANGED <<mClientSessionID, live>>

(* finishStop and disconnectClientAsync.                                   *)
FinishStop ==
  IF playback = "none"
    THEN DisconnectClient2
    ELSE /\ playback' = "destroying"          \* destroyAsync
         /\ mState' = "STOPPING"
         /\ UNCHANGED <<mClientSessionID, live, stopping>>

StopCall ==
  /\ aborted = "no" /\ ~stopCalled
  /\ stopCalled' = TRUE
  /\ queue' = Append(queue, Msg("Stop", 0, ""))
  /\ UNCHANGED <<mState, client, playback, mResponseHandlers, timers, finishPlay,
                 hdcp, stopping, displayError, aborted, live, sent>>

(* Fault: no time limit for the TEARDOWN of the dongle.                    *)
OnStopNoTimeout ==
  /\ Handle("Stop")
  /\ IF mState \in AfterSetup /\ mClientSessionID \in live
       THEN /\ SendRequest(mClientSessionID, "M5stop")
            /\ mState' = "AWAITING_CLIENT_TEARDOWN"
            /\ UNCHANGED <<mClientSessionID, playback, live, stopping>>
       ELSE /\ FinishStop
            /\ UNCHANGED <<sent, mResponseHandlers>>
  /\ UNCHANGED <<mPlaybackSessionID, timers, finishPlay, hdcp, stopCalled,
                 displayError, aborted>>

(* kWhatStop.                                                              *)
OnStop ==
  /\ Handle("Stop")
  /\ IF mState \in AfterSetup /\ mClientSessionID \in live
       THEN /\ SendRequest(mClientSessionID, "M5stop")
            /\ mState' = "AWAITING_CLIENT_TEARDOWN"
            /\ teardownTimer' = TRUE
            /\ UNCHANGED <<mClientSessionID, playback, live, stopping>>
       ELSE /\ FinishStop
            /\ UNCHANGED <<sent, mResponseHandlers, teardownTimer>>
  /\ UNCHANGED <<mPlaybackSessionID, mReaperPending, keepAlives, finishStop2,
                 finishPlay, hdcp, stopCalled, displayError, aborted>>

(* Fault: the time limit applies whatever happened since.                  *)
TeardownAlwaysTimesOut ==
  /\ Due
  /\ teardownTimer /\ teardownTimer' = FALSE
  /\ FinishStop
  /\ UNCHANGED <<mPlaybackSessionID, mResponseHandlers, mReaperPending, keepAlives,
                 finishStop2, finishPlay, hdcp, stopCalled, displayError, aborted,
                 sent>>

TeardownTriggerTimedOut ==
  /\ Due
  /\ teardownTimer /\ teardownTimer' = FALSE
  /\ IF mState = "AWAITING_CLIENT_TEARDOWN"
       THEN FinishStop
       ELSE UNCHANGED <<mState, playback, mClientSessionID, live, stopping>>
  /\ UNCHANGED <<mPlaybackSessionID, mResponseHandlers, mReaperPending, keepAlives,
                 finishStop2, finishPlay, hdcp, stopCalled, displayError, aborted,
                 sent>>

(* kWhatFinishStop2, 0.3s after HDCP has shut down.                        *)
OnFinishStop2 ==
  /\ Due
  /\ finishStop2 /\ finishStop2' = FALSE
  /\ FinishStop2
  /\ UNCHANGED <<client, playback, mResponseHandlers, mReaperPending, keepAlives,
                 teardownTimer, finishPlay, hdcp, stopCalled, displayError, aborted,
                 live, sent>>

-----------------------------------------------------------------------------
(* The control connection                                                  *)

OnError ==
  /\ Handle("Error")
  /\ live' = live \ {Session}
  /\ IF Session = mClientSessionID
       THEN mClientSessionID' = 0 /\ displayError' = TRUE
       ELSE UNCHANGED <<mClientSessionID, displayError>>
  /\ UNCHANGED <<mState, mPlaybackSessionID, playback, mResponseHandlers, timers,
                 finishPlay, hdcp, stopping, stopCalled, aborted, sent>>

(* Fault: a second client is ignored, its session lives on.                *)
IgnoreClient(s) == UNCHANGED live

RejectClient(s) == live' = live \ {s}

(* kWhatClientConnected.                                                   *)
OnClientConnected ==
  /\ Handle("ClientConnected")
  /\ IF mClientSessionID > 0
       THEN /\ RejectClient(Session)
            /\ UNCHANGED <<mState, client, mResponseHandlers, sent, aborted>>
     ELSE IF mState # "AWAITING_CLIENT_CONNECTION"
       THEN /\ aborted' = "onClientConnected"
            /\ UNCHANGED <<mState, client, mResponseHandlers, sent, live>>
     ELSE IF Head(queue).arg = "local"
       THEN /\ RejectClient(Session)
            /\ UNCHANGED <<mState, client, mResponseHandlers, sent, aborted>>
     ELSE   /\ mPlaybackSessionID' = FALSE
            /\ mClientSessionID' = Session
            /\ mState' = "AWAITING_CLIENT_SETUP"
            /\ SendRequest(Session, "M1")
            /\ aborted' = IF Session \in live THEN aborted ELSE "sendM1"
            /\ UNCHANGED live
  /\ UNCHANGED <<playback, timers, finishPlay, hdcp, stopping, stopCalled,
                 displayError>>

-----------------------------------------------------------------------------
(* onReceiveClientData, responses                                          *)

(* The response at the head of the queue answers req, with a handler.      *)
IsResponse(req) ==
  /\ Handle("Data")
  /\ Head(queue).arg \in {Ok(req), Refused(req)}
  /\ <<Session, req>> \in mResponseHandlers

Answered(req) == mResponseHandlers \ {<<Session, req>>}
IsOk          == Head(queue).arg[1] = "ok"

(* A response nobody waits for.                                            *)
OnUnsolicited ==
  /\ Handle("Data")
  /\ Head(queue).arg[1] # "ask"
  /\ <<Session, Head(queue).arg[2]>> \notin mResponseHandlers
  /\ displayError' = TRUE
  /\ UNCHANGED <<mState, client, playback, mResponseHandlers, timers, finishPlay,
                 hdcp, stopping, stopCalled, aborted, live, sent>>

(* onReceiveM1Response and onReceiveM5Response.                            *)
OnPlainResponse ==
  /\ \E req \in {"M1", "M5", "M5stop"} :
       /\ IsResponse(req)
       /\ mResponseHandlers' = Answered(req)
  /\ Show(~IsOk)
  /\ UNCHANGED <<mState, client, playback, timers, finishPlay, hdcp, stopping,
                 stopCalled, aborted, live, sent>>

(* makeHDCP: there may be no HDCP module, or it may not start; then it is  *)
(* not used.                                                               *)
MakeHDCP ==
  IF ~SupportsHDCP THEN mUsingHDCP' = FALSE /\ UNCHANGED mHDCP
  ELSE \/ mUsingHDCP' = FALSE /\ mHDCP' = "none"
       \/ mUsingHDCP' = FALSE /\ mHDCP' = "not started"
       \/ mUsingHDCP' = TRUE  /\ mHDCP' = "starting"

(* onReceiveM3Response: choose ports and codecs, start HDCP, send M4, which*)
(* CHECKs that the session is the client's. A response the source cannot   *)
(* use counts as refused; mUsingHDCP stays set when it is the content      *)
(* protection that is malformed.                                           *)
OnM3Response ==
  /\ IsResponse("M3")
  /\ IF ~IsOk
       THEN /\ mResponseHandlers' = Answered("M3")
            /\ displayError' = TRUE
            /\ mUsingHDCP' \in {mUsingHDCP, SupportsHDCP}
            /\ UNCHANGED <<mHDCP, sent, aborted>>
       ELSE /\ MakeHDCP
            /\ IF Session # mClientSessionID
                 THEN /\ aborted' = "sendM4"
                      /\ UNCHANGED <<mResponseHandlers, sent, displayError>>
                 ELSE /\ Send(Session, <<Ask("M4")>>)
                      /\ mResponseHandlers' =
                           IF Session \in live
                             THEN Answered("M3") \cup {<<Session, "M4">>}
                             ELSE Answered("M3")
                      /\ Show(Session \notin live)
                      /\ UNCHANGED aborted
  /\ UNCHANGED <<mState, client, playback, timers, finishPlay, mSessionID, replies,
                 mHDCPInitializationComplete, mSetupTriggerDeferred, stopCalled,
                 live>>

(* Fault: the SETUP trigger does not wait for HDCP.                        *)
OnM4ResponseAtOnce ==
  /\ IsResponse("M4")
  /\ Send(Session, <<Ask("M5")>>)
  /\ mResponseHandlers' = Answered("M4") \cup {<<Session, "M5">>}
  /\ UNCHANGED <<mState, client, playback, timers, finishPlay, hdcp, displayError,
                 stopping, stopCalled, aborted, live>>

(* onReceiveM4Response: trigger SETUP, or defer that until HDCP is ready.  *)
OnM4Response ==
  /\ IsResponse("M4")
  /\ IF ~IsOk
       THEN /\ mResponseHandlers' = Answered("M4")
            /\ displayError' = TRUE
            /\ UNCHANGED <<mSetupTriggerDeferred, sent>>
     ELSE IF mUsingHDCP /\ ~mHDCPInitializationComplete
       THEN /\ mSetupTriggerDeferred' = TRUE
            /\ mResponseHandlers' = Answered("M4")
            /\ UNCHANGED <<sent, displayError>>
     ELSE   /\ Send(Session, <<Ask("M5")>>)
            /\ mResponseHandlers' = IF Session \in live
                                      THEN Answered("M4") \cup {<<Session, "M5">>}
                                      ELSE Answered("M4")
            /\ Show(Session \notin live)
            /\ UNCHANGED mSetupTriggerDeferred
  /\ UNCHANGED <<mState, client, playback, timers, finishPlay, mUsingHDCP,
                 mHDCPInitializationComplete, stopping, stopCalled, aborted, live>>

(* Fault: the keep-alives end with the first answer.                       *)
OnM16ResponseOnce ==
  /\ IsResponse("M16")
  /\ mResponseHandlers' = Answered("M16")
  /\ UNCHANGED <<mState, client, playback, timers, finishPlay, hdcp, stopping,
                 stopCalled, displayError, aborted, live, sent>>

(* onReceiveM16Response, whatever the status.                              *)
OnM16Response ==
  /\ IsResponse("M16")
  /\ IF Session # mClientSessionID
       THEN aborted' = "onReceiveM16Response" /\ UNCHANGED <<mResponseHandlers, keepAlives>>
       ELSE /\ mResponseHandlers' = Answered("M16")
            /\ keepAlives' = IF playback # "none" THEN keepAlives \cup {Session}
                                                  ELSE keepAlives
            /\ UNCHANGED aborted
  /\ UNCHANGED <<mState, client, playback, mReaperPending, teardownTimer, finishStop2,
                 finishPlay, hdcp, stopping, stopCalled, displayError, live, sent>>

-----------------------------------------------------------------------------
(* onReceiveClientData, requests                                           *)

IsRequest(req) == Handle("Data") /\ Head(queue).arg = Ask(req)

(* onOptionsRequest: answer, then ask for the capabilities (M3).           *)
OnOptionsRequest ==
  /\ IsRequest("OPTIONS")
  /\ Send(Session, <<Ok("OPTIONS"), Ask("M3")>>)
  /\ mResponseHandlers' = IF Session \in live
                            THEN mResponseHandlers \cup {<<Session, "M3">>}
                            ELSE mResponseHandlers
  /\ Show(Session \notin live)
  /\ UNCHANGED <<mState, client, playback, timers, finishPlay, hdcp, stopping,
                 stopCalled, aborted, live>>

RefuseSetup ==
  /\ Send(Session, <<Refused("SETUP")>>)
  /\ displayError' = TRUE
  /\ UNCHANGED <<mState, mPlaybackSessionID, playback, mReaperPending, keepAlives,
                 aborted>>

(* onSetupRequest: one playback session per client. PlaybackSession::init  *)
(* may fail.                                                               *)
OnSetupRequest ==
  /\ IsRequest("SETUP")
  /\ \/ /\ Session # mClientSessionID
        /\ aborted' = "onSetupRequest"
        /\ UNCHANGED <<mState, mPlaybackSessionID, playback, mReaperPending,
                       keepAlives, sent, displayError>>
     \/ /\ Session = mClientSessionID
        /\ RefuseSetup
     \/ /\ Session = mClientSessionID /\ ~mPlaybackSessionID
        /\ mPlaybackSessionID' = TRUE
        /\ playback' = "ready"
        /\ Send(Session, <<Ok("SETUP")>>)
        /\ IF Session \in live
             THEN /\ mState' = "AWAITING_CLIENT_PLAY"
                  /\ mReaperPending' = TRUE
                  /\ keepAlives' = keepAlives \cup {Session}
             ELSE UNCHANGED <<mState, mReaperPending, keepAlives>>
        /\ Show(Session \notin live)
        /\ UNCHANGED aborted
  /\ UNCHANGED <<mClientSessionID, mResponseHandlers, teardownTimer, finishStop2,
                 finishPlay, hdcp, stopping, stopCalled, live>>

(* 454: the request does not find the playback session. A dongle knows of  *)
(* one playback session and names no other.                                *)
SessionNotFound ==
  \E req \in {"PLAY", "TEARDOWN"} \cup Lifesigns :
    /\ playback = "none"
    /\ IsRequest(req)
    /\ Send(Session, <<Refused(req)>>)
    /\ displayError' = TRUE
    /\ UNCHANGED <<mState, client, playback, mResponseHandlers, timers, finishPlay,
                   hdcp, stopping, stopCalled, aborted, live>>

(* onPlayRequest: the answer is out before the state is checked.           *)
OnPlayRequest ==
  /\ IsRequest("PLAY")
  /\ playback # "none"
  /\ Send(Session, <<Ok("PLAY")>>)
  /\ IF Session \in live
       THEN /\ finishPlay' = TRUE
            /\ IF mState = "AWAITING_CLIENT_PLAY"
                 THEN mState' = "ABOUT_TO_PLAY" /\ UNCHANGED aborted
                 ELSE aborted' = "onPlayRequest" /\ UNCHANGED mState
            /\ UNCHANGED displayError
       ELSE displayError' = TRUE /\ UNCHANGED <<finishPlay, mState, aborted>>
  /\ UNCHANGED <<client, playback, mResponseHandlers, timers, hdcp, stopping,
                 stopCalled, live>>

(* onPauseRequest, onGetParameterRequest, onSetParameterRequest: the client*)
(* is alive.                                                               *)
OnLifesign ==
  \E req \in Lifesigns :
    /\ IsRequest(req)
    /\ playback # "none"
    /\ Send(Session, <<Ok(req)>>)
    /\ Show(Session \notin live)
    /\ UNCHANGED <<mState, client, playback, mResponseHandlers, timers, finishPlay,
                   hdcp, stopping, stopCalled, aborted, live>>

OnTeardownRequest ==
  /\ IsRequest("TEARDOWN")
  /\ playback # "none"
  /\ Send(Session, <<Ok("TEARDOWN")>>)
  /\ IF mState = "AWAITING_CLIENT_TEARDOWN"
       THEN FinishStop /\ UNCHANGED displayError
       ELSE /\ displayError' = TRUE
            /\ UNCHANGED <<mState, mClientSessionID, playback, live, stopping>>
  /\ UNCHANGED <<mPlaybackSessionID, mResponseHandlers, timers, finishPlay, hdcp,
                 stopCalled, aborted>>

-----------------------------------------------------------------------------
(* Keeping the client alive                                                *)

(* kWhatKeepAlive, 25s after the last sign of life it was scheduled by.    *)
OnKeepAlive ==
  /\ Due
  /\ \E s \in keepAlives :
       /\ keepAlives' = keepAlives \ {s}
       /\ IF s = mClientSessionID
            THEN SendRequest(s, "M16")
            ELSE UNCHANGED <<sent, mResponseHandlers>>
  /\ UNCHANGED <<mState, client, playback, mReaperPending, teardownTimer, finishStop2,
                 finishPlay, hdcp, stopping, stopCalled, displayError, aborted, live>>

(* No sign of life for 30s. A keep-alive is due 25s after the sign of life *)
(* it was scheduled by, so it has been sent by then.                       *)
TimedOut == mClientSessionID \notin keepAlives

(* kWhatReapDeadClients, every second.                                     *)
OnReapDeadClients ==
  /\ Due
  /\ mReaperPending
  /\ IF mClientSessionID = 0 \/ playback = "none"
       THEN mReaperPending' = FALSE /\ UNCHANGED <<live, mClientSessionID, displayError>>
       ELSE /\ TimedOut
            /\ mReaperPending' = FALSE
            /\ live' = live \ {mClientSessionID}
            /\ mClientSessionID' = 0
            /\ displayError' = TRUE
  /\ UNCHANGED <<mState, mPlaybackSessionID, playback, mResponseHandlers, keepAlives,
                 teardownTimer, finishStop2, finishPlay, hdcp, stopping, stopCalled,
                 aborted, sent>>

-----------------------------------------------------------------------------
(* The playback session and its notifications                              *)

(* finishPlay's second is over: the sender is initialised, the tracks are  *)
(* started. The session may be on its way out.                             *)
PlaybackEstablished ==
  /\ aborted = "no"
  /\ finishPlay /\ finishPlay' = FALSE
  /\ queue' = IF playback \in {"ready", "destroying"}
                THEN Append(queue, Msg("SessionEstablished", 0, "")) ELSE queue
  /\ UNCHANGED <<mState, client, playback, mResponseHandlers, timers, hdcp, stopping,
                 stopCalled, displayError, aborted, live, sent>>

(* All tracks have stopped.                                                *)
PlaybackDestroyed ==
  /\ aborted = "no"
  /\ playback = "destroying" /\ playback' = "destroyed"
  /\ queue' = Append(queue, Msg("SessionDestroyed", 0, ""))
  /\ UNCHANGED <<mState, client, mResponseHandlers, timers, finishPlay, hdcp, stopping,
                 stopCalled, displayError, aborted, live, sent>>

(* kWhatSessionEstablished: the handler uses mPlaybackSession.             *)
OnSessionEstablished ==
  /\ Handle("SessionEstablished")
  /\ IF playback = "none"
       THEN aborted' = "onSessionEstablished" /\ UNCHANGED mState
       ELSE /\ mState' = IF mState = "ABOUT_TO_PLAY" THEN "PLAYING" ELSE mState
            /\ UNCHANGED aborted
  /\ UNCHANGED <<client, playback, mResponseHandlers, timers, finishPlay, hdcp,
                 stopping, stopCalled, displayError, live, sent>>

(* Sender or converter failed: notifySessionDead, onDisplayError.          *)
OnSessionDead ==
  /\ Due
  /\ playback = "ready" /\ ~displayError
  /\ displayError' = TRUE
  /\ UNCHANGED <<mState, client, playback, mResponseHandlers, timers, finishPlay, hdcp,
                 stopping, stopCalled, aborted, live, sent>>

OnSessionDestroyed ==
  /\ Handle("SessionDestroyed")
  /\ DisconnectClient2
  /\ UNCHANGED <<mPlaybackSessionID, mResponseHandlers, timers, finishPlay, hdcp,
                 stopCalled, displayError, aborted, sent>>

-----------------------------------------------------------------------------
(* HDCP                                                                    *)

(* HDCP_INITIALIZATION_COMPLETE.                                           *)
OnHDCPReady ==
  /\ Due
  /\ mHDCP = "starting" /\ mHDCP' = "ready"
  /\ mHDCPInitializationComplete' = TRUE
  /\ mSetupTriggerDeferred' = FALSE
  /\ IF mSetupTriggerDeferred
       THEN SendRequest(mClientSessionID, "M5")
       ELSE UNCHANGED <<sent, mResponseHandlers>>
  /\ UNCHANGED <<mState, client, playback, timers, finishPlay, mUsingHDCP, mSessionID,
                 replies, stopCalled, displayError, aborted, live>>

OnHDCPFailed ==
  /\ Due
  /\ mHDCP \in {"starting", "ready"} /\ ~displayError
  /\ displayError' = TRUE
  /\ UNCHANGED <<mState, client, playback, mResponseHandlers, timers, finishPlay, hdcp,
                 stopping, stopCalled, aborted, live, sent>>

(* HDCP_SHUTDOWN_COMPLETE or HDCP_SHUTDOWN_FAILED.                         *)
OnHDCPShutdown ==
  /\ Due
  /\ mHDCP = "shutting down" /\ ~finishStop2
  /\ finishStop2' = TRUE
  /\ UNCHANGED <<mState, client, playback, mResponseHandlers, mReaperPending,
                 keepAlives, teardownTimer, finishPlay, hdcp, stopping, stopCalled,
                 displayError, aborted, live, sent>>

-----------------------------------------------------------------------------
(* The handlers of the messages in the queue.                              *)
Queued ==
  \/ OnStop
  \/ OnError \/ OnClientConnected
  \/ OnUnsolicited \/ OnPlainResponse \/ OnM3Response \/ OnM4Response \/ OnM16Response
  \/ OnOptionsRequest \/ OnSetupRequest \/ SessionNotFound \/ OnPlayRequest
  \/ OnLifesign \/ OnTeardownRequest
  \/ OnSessionEstablished \/ OnSessionDestroyed

(* Everything but the connections.                                         *)
source == <<mState, client, playback, mResponseHandlers, timers, finishPlay, hdcp,
            stopping, stopCalled, displayError, aborted>>

SourceNext ==
  \/ Start \/ StopCall
  \/ Queued
  \/ TeardownTriggerTimedOut \/ OnFinishStop2
  \/ OnKeepAlive \/ OnReapDeadClients
  \/ PlaybackEstablished \/ PlaybackDestroyed \/ OnSessionDead
  \/ OnHDCPReady \/ OnHDCPFailed \/ OnHDCPShutdown

(* The looper handles every message and every timer. Nothing is assumed of *)
(* dongles, of the playback session, which need not answer destroyAsync    *)
(* (see PlaybackSession), and of HDCP, which need not answer shutdownAsync.*)
SourceFairness ==
  /\ WF_vars(Queued)
  /\ WF_vars(TeardownTriggerTimedOut) /\ WF_vars(OnFinishStop2)

-----------------------------------------------------------------------------
(* Properties                                                              *)

(* The state has the types WifiDisplaySource.h declares, and stop() is     *)
(* answered at most once (kWhatStop, finishStop2).                         *)
TypeOK ==
  /\ mState \in States
  /\ mSessionID \in BOOLEAN /\ mPlaybackSessionID \in BOOLEAN
  /\ mClientSessionID \in SessionIDs \cup {0}
  /\ playback \in {"none", "ready", "destroying", "destroyed"}
  /\ mResponseHandlers \subseteq SessionIDs \X Requests
  /\ mReaperPending \in BOOLEAN /\ keepAlives \subseteq SessionIDs
  /\ teardownTimer \in BOOLEAN /\ finishStop2 \in BOOLEAN /\ finishPlay \in BOOLEAN
  /\ mHDCP \in {"none", "not started", "starting", "ready", "shutting down"}
  /\ mUsingHDCP \in BOOLEAN /\ mHDCPInitializationComplete \in BOOLEAN
  /\ mSetupTriggerDeferred \in BOOLEAN
  /\ replies \in 0..1 /\ stopCalled \in BOOLEAN /\ displayError \in BOOLEAN
  /\ live \subseteq SessionIDs

(* When stop() is answered (finishStop2) nothing is left behind: no client,*)
(* no playback session, no HDCP module, nobody listens.                    *)
AnsweredIsClean ==
  replies > 0 /\ aborted = "no" =>
    /\ mState = "STOPPED"
    /\ mClientSessionID = 0 /\ playback = "none"
    /\ mHDCP = "none" /\ ~mSessionID

(* No network session is leaked: one that lives is the client's, or the    *)
(* message that will end it or make it the client's is in the queue.       *)
SessionsAccounted ==
  aborted = "no" => \A s \in live :
    \/ s = mClientSessionID
    \/ \E i \in 1..Len(queue) : /\ queue[i].session = s
                                /\ queue[i].what \in {"ClientConnected", "Error"}

(* A client is only reaped while it owes the answer to an M16: the chain   *)
(* of keep-alives, each scheduled by the answer to the one before, never   *)
(* breaks on its own.                                                      *)
ReapedOnlyIfSilent ==
  [][ (mReaperPending /\ ~mReaperPending' /\ mClientSessionID # 0
        /\ mClientSessionID' = 0)
      => <<mClientSessionID, "M16">> \in mResponseHandlers ]_vars

(* A dongle that uses content protection is only told to SETUP when HDCP is*)
(* ready, and then it is told ("Deferring SETUP trigger until HDCP         *)
(* initialization completes.", WifiDisplaySource.cpp:805).                 *)
SetupAwaitsHDCP ==
  /\ mUsingHDCP /\ ~mHDCPInitializationComplete =>
       \A s \in SessionIDs : <<s, "M5">> \notin mResponseHandlers
  /\ ~(mSetupTriggerDeferred /\ mHDCPInitializationComplete)

(* The CHECKs of the handlers hold in a session nobody cuts off: they only *)
(* fail on a client that comes after the first one was lost or after       *)
(* stop() (line 204), on a message of a client that was dropped while it   *)
(* was in the queue (lines 520, 831, 979), on a PLAY that is repeated or   *)
(* comes after stop() (line 1189); a client that is accepted can be asked  *)
(* (line 227), and a session that is established is there.                 *)
CutOff == stopCalled \/ mClientSessionID = 0

AbortsOnlyWhenCutOff ==
  /\ aborted \in {"onClientConnected", "sendM4", "onSetupRequest",
                  "onReceiveM16Response"} => CutOff
  /\ aborted = "onPlayRequest" => CutOff \/ mState \in {"ABOUT_TO_PLAY", "PLAYING"}
  /\ aborted \notin {"sendM1", "onSessionEstablished"}

(* stop() is answered, unless it waits for ever for the playback session to*)
(* answer destroyAsync or for HDCP to answer shutdownAsync, or the process *)
(* aborts in a CHECK. It never waits for the client.                       *)
PlaybackNeverAnswers == [](playback = "destroying")
HDCPNeverAnswers     == [](mHDCP = "shutting down" /\ ~finishStop2)

StopIsAnswered ==
  stopCalled ~> \/ replies = 1
                \/ PlaybackNeverAnswers
                \/ HDCPNeverAnswers
                \/ aborted # "no"

(* CHECK_EQ(mState, AWAITING_CLIENT_CONNECTION) on a new client            *)
(* (WifiDisplaySource.cpp:204) never fails.                                *)
ClientIsAwaited == aborted # "onClientConnected"

=============================================================================
