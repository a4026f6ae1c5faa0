--------------------------- MODULE WifiDisplaySink ---------------------------
(***************************************************************************)
(* sink/WifiDisplaySink.cpp: the RTSP client of the receiving device, as   *)
(* operators on the WifiDisplaySink object. It speaks when spoken to: each *)
(* request of the source makes it answer, and some make it ask (OPTIONS,   *)
(* SETUP, PLAY).                                                           *)
(*                                                                         *)
(* A handler is a record [sink |-> the object afterwards, out |-> the      *)
(* messages it sends, in order]. sendRequest only fails without a session, *)
(* and without one the looper is stopped. A CHECK that fails aborts the    *)
(* process. The player starts the sink by host and port, so mSetupURI is   *)
(* empty and DESCRIBE is never sent.                                       *)
(***************************************************************************)
EXTENDS Sequences, Integers

(* mState is UNDEFINED, CONNECTING, CONNECTED, PAUSED or PLAYING,          *)
(* mSessionID whether the session exists, mResponseHandlers the requests   *)
(* whose response is expected, mRTPSinks the number of RTPSinks made so    *)
(* far, mPresentation_URL whether it is known.                             *)
NewSink ==
  [mState |-> "UNDEFINED", mSessionID |-> FALSE, mResponseHandlers |-> {},
   mRTPSinks |-> 0, mPresentation_URL |-> FALSE, aborted |-> FALSE]

(* kWhatStart: createRTSPClient.                                           *)
SinkStart(sink) == [sink EXCEPT !.mState = "CONNECTING", !.mSessionID = TRUE]

(* kWhatConnected.                                                         *)
SinkConnected(sink) == [sink EXCEPT !.mState = "CONNECTED"]

(* kWhatError of its session; the looper stops.                            *)
SinkLost(sink) == [sink EXCEPT !.mSessionID = FALSE]

(* sendM2, sendSetup, sendPlay: the response is expected.                  *)
Expects(sink, req) == [sink EXCEPT !.mResponseHandlers = @ \cup {req}]

(* Fault: the capabilities of the source are not asked for.                *)
OnlyAnswerM1(sink) == [sink |-> sink, out |-> <<<<"ok", "M1">>>>]

(* onOptionsRequest: answer M1, then ask OPTIONS (sendM2).                 *)
AnswerM1(sink) ==
  [sink |-> Expects(sink, "OPTIONS"),
   out  |-> <<<<"ok", "M1">>, <<"ask", "OPTIONS">>>>]

(* onGetParameterRequest: M3 and the keep-alive M16.                       *)
AnswerGet(sink, req) == [sink |-> sink, out |-> <<<<"ok", req>>>>]

(* Fault: SETUP is sent before the sockets are bound.                      *)
SetupUnbound(sink) ==
  [sink |-> Expects(sink, "SETUP"), out |-> <<<<"ask", "SETUP">>>>]

(* sendSetup: a new RTPSink binds its sockets, then SETUP is sent. init    *)
(* tries one pair of ports after the other until it has two, so the CHECK  *)
(* that it succeeded cannot fail.                                          *)
SendSetup(sink) ==
  [sink |-> [Expects(sink, "SETUP") EXCEPT !.mRTPSinks = @ + 1],
   out  |-> <<<<"ask", "SETUP">>>>]

(* onSetParameterRequest: M4 has the presentation URL, M5 triggers SETUP,  *)
(* which is sent before the answer. The TEARDOWN trigger only gets an      *)
(* answer.                                                                 *)
AnswerSet(sink, req) ==
  LET seen  == IF req = "M4" THEN [sink EXCEPT !.mPresentation_URL = TRUE] ELSE sink
      asked == IF req = "M5" THEN SendSetup(seen) ELSE [sink |-> seen, out |-> << >>]
  IN  [asked EXCEPT !.out = Append(@, <<"ok", req>>)]

(* Fault: the sink does not wait for the answer to PLAY.                   *)
AfterSetupPlaying(sink) ==
  [sink |-> Expects([sink EXCEPT !.mState = "PLAYING"], "PLAY"),
   out  |-> <<<<"ask", "PLAY">>>>]

(* onReceiveSetupResponse: PAUSED, and PLAY at once.                       *)
AfterSetupOk(sink) ==
  [sink |-> Expects([sink EXCEPT !.mState = "PAUSED"], "PLAY"),
   out  |-> <<<<"ask", "PLAY">>>>]

(* A response: its handler must succeed, CHECK_EQ(err, OK).                *)
AnswerReceived(sink, status, req) ==
  LET heard == [sink EXCEPT !.mResponseHandlers = @ \ {req}]
  IN  IF req \notin sink.mResponseHandlers
        THEN [sink |-> sink, out |-> << >>]
      ELSE IF status # "ok"
        THEN [sink |-> [heard EXCEPT !.aborted = TRUE], out |-> << >>]
      ELSE CASE req = "OPTIONS" -> [sink |-> heard, out |-> << >>]
             [] req = "SETUP"   -> AfterSetupOk(heard)
             [] req = "PLAY"    -> [sink |-> [heard EXCEPT !.mState = "PLAYING"],
                                    out  |-> << >>]

(* onReceiveClientData.                                                    *)
SinkReceive(sink, msg) ==
  IF msg[1] # "ask"
    THEN AnswerReceived(sink, msg[1], msg[2])
  ELSE CASE msg[2] = "M1"                     -> AnswerM1(sink)
         [] msg[2] \in {"M3", "M16"}          -> AnswerGet(sink, msg[2])
         [] msg[2] \in {"M4", "M5", "M5stop"} -> AnswerSet(sink, msg[2])

=============================================================================
