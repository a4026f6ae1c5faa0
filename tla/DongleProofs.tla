---------------------------- MODULE DongleProofs ----------------------------
(***************************************************************************)
(* Proofs about WifiDisplaySource and the dongles it serves: for every     *)
(* number of connections and of messages dongles send, with and without    *)
(* content protection.                                                     *)
(***************************************************************************)
EXTENDS Dongle, TLAPS

-----------------------------------------------------------------------------
(* The inductive invariant                                                 *)

Whats    == {"Stop", "ClientConnected", "Error", "Data", "SessionEstablished",
             "SessionDestroyed"}
Unasked  == {"OPTIONS", "SETUP", "PLAY", "TEARDOWN"} \cup Lifesigns
Wire     == {"ask", "ok", "refused"} \X (Requests \cup Unasked)
MsgType  == [what : Whats, session : SessionIDs \cup {0},
             arg : Wire \cup {"", "remote", "local"}]

(* What the messages are of.                                               *)
QueueType ==
  /\ queue \in Seq(MsgType)
  /\ sent \in [SessionIDs -> Seq(Wire)]
  /\ asked \in [SessionIDs -> Nat]
  /\ dongle \in [SessionIDs -> {"absent", "on", "greeted", "triggered", "set up",
                                 "gone"}]

Members(q) == {q[i] : i \in 1..Len(q)}

IsOptions(m) == m.what = "Data" /\ m.arg = Ask("OPTIONS")

WellFormed(m) ==
  /\ m.what \in {"ClientConnected", "Error", "Data"} => m.session \in SessionIDs
  /\ m.what = "Data" => m.arg \in Wire

(* What may come after what: stop() is called and a playback session       *)
(* destroyed once, nothing is established after that, and a connection     *)
(* begins before anything comes over it.                                   *)
Fits(m, n) ==
  /\ ~(m.what = "Stop" /\ n.what = "Stop")
  /\ ~(m.what = "SessionDestroyed" /\ n.what \in {"SessionDestroyed", "SessionEstablished"})
  /\ m.session = n.session =>
       /\ ~(m.what \in {"ClientConnected", "Error", "Data"} /\ n.what = "ClientConnected")
       /\ ~(IsOptions(m) /\ IsOptions(n))

Ordered(q) == \A i, j \in 1..Len(q) : i < j => Fits(q[i], q[j])

QueueInOrder == Ordered(queue) /\ \A m \in Members(queue) : WellFormed(m)

(* The source has dealings with a session: it is the client's, it was asked*)
(* something, it asks something.                                           *)
Met(s) ==
  \/ s = mClientSessionID
  \/ asked[s] > 0
  \/ dongle[s] \in {"greeted", "triggered", "set up"}
  \/ sent[s] # << >>
  \/ \E req \in Requests : <<s, req>> \in mResponseHandlers
  \/ \E m \in Members(queue) : m.what = "Data" /\ m.session = s

(* There is one client ever.                                               *)
OneClient ==
  /\ \A s, t \in SessionIDs : Met(s) /\ Met(t) => s = t
  /\ mState \in {"INITIALIZED", "AWAITING_CLIENT_CONNECTION"} =>
       \A s \in SessionIDs : ~Met(s)

(* A session the source was not told of yet is new and alive, one that     *)
(* dongles have not made yet is nowhere, and the client's is alive.        *)
Connections ==
  /\ \A m \in Members(queue) :
       m.what = "ClientConnected" => /\ ~Met(m.session) /\ m.session \in live
                                     /\ dongle[m.session] # "absent"
  /\ \A s \in SessionIDs : dongle[s] = "absent" =>
       /\ s \notin live /\ ~Met(s)
       /\ \A m \in Members(queue) : m.session # s
  /\ mClientSessionID # 0 => mClientSessionID \in live

(* How far stop() is, and what there is to stop.                           *)
Stopping ==
  /\ \A m \in Members(queue) :
       /\ m.what = "Stop" => stopCalled /\ mState \notin BeingStopped
       /\ m.what = "SessionDestroyed" => playback = "destroyed"
       /\ m.what = "SessionEstablished" => playback # "none"
  /\ mState \in BeingStopped => stopCalled
  /\ mState \in AfterSetup \cup {"AWAITING_CLIENT_TEARDOWN"} <=> playback = "ready"
  /\ playback \in {"destroying", "destroyed"} => mState = "STOPPING"
  /\ playback # "none" => mPlaybackSessionID
  /\ mState = "STOPPING" =>
       playback # "none" \/ (mHDCP = "shutting down" /\ mClientSessionID = 0)
  /\ mHDCP = "shutting down" => mState = "STOPPING" /\ playback = "none"
  /\ finishStop2 => mHDCP = "shutting down"
  /\ mState = "STOPPED" <=> replies = 1

(* OPTIONS, M3, M4 and M5 come in this order, once each.                   *)
Options(s) == \E m \in Members(queue) : m.session = s /\ IsOptions(m)

NotBefore(s) ==
  ~Options(s) /\ <<s, "M3">> \notin mResponseHandlers /\ <<s, "M4">> \notin mResponseHandlers

Negotiation ==
  /\ \A s \in SessionIDs :
       /\ asked[s] = 0 => NotBefore(s) /\ <<s, "M5">> \notin mResponseHandlers
       /\ Options(s) => /\ <<s, "M3">> \notin mResponseHandlers
                        /\ <<s, "M4">> \notin mResponseHandlers
                        /\ <<s, "M5">> \notin mResponseHandlers
       /\ <<s, "M3">> \in mResponseHandlers => /\ <<s, "M4">> \notin mResponseHandlers
                                               /\ <<s, "M5">> \notin mResponseHandlers
       /\ <<s, "M4">> \in mResponseHandlers => <<s, "M5">> \notin mResponseHandlers
  /\ mSetupTriggerDeferred => /\ \E t \in SessionIDs : asked[t] > 0
                              /\ \A s \in SessionIDs : NotBefore(s)

(* The chain of keep-alives.                                               *)
KeptAlive ==
  mReaperPending /\ playback # "none" /\ mClientSessionID # 0 =>
    mClientSessionID \in keepAlives \/ <<mClientSessionID, "M16">> \in mResponseHandlers

Going ==
  /\ QueueInOrder /\ OneClient /\ Connections /\ Stopping /\ Negotiation /\ KeptAlive
  /\ AnsweredIsClean /\ SessionsAccounted

IInv ==
  /\ TypeOK /\ QueueType
  /\ SetupAwaitsHDCP /\ AbortsOnlyWhenCutOff
  /\ aborted = "no" => Going

(* The types, by kind.                                                     *)
Flags ==
  /\ mSessionID \in BOOLEAN /\ mPlaybackSessionID \in BOOLEAN
  /\ mReaperPending \in BOOLEAN /\ teardownTimer \in BOOLEAN /\ finishStop2 \in BOOLEAN
  /\ finishPlay \in BOOLEAN /\ mUsingHDCP \in BOOLEAN
  /\ mHDCPInitializationComplete \in BOOLEAN /\ mSetupTriggerDeferred \in BOOLEAN
  /\ stopCalled \in BOOLEAN /\ displayError \in BOOLEAN

Names ==
  /\ mState \in States
  /\ playback \in {"none", "ready", "destroying", "destroyed"}
  /\ mHDCP \in {"none", "not started", "starting", "ready", "shutting down"}

Numbers ==
  /\ mClientSessionID \in SessionIDs \cup {0} /\ replies \in 0..1
  /\ mResponseHandlers \subseteq SessionIDs \X Requests
  /\ keepAlives \subseteq SessionIDs /\ live \subseteq SessionIDs

(* 0 is no session.                                                        *)
LEMMA NoSession == 0 \notin SessionIDs
BY SourceAssumption DEF SessionIDs

-----------------------------------------------------------------------------
(* The queue                                                               *)

(* What is left when the message at the head is handled.                   *)
LEMMA QueueTail ==
  ASSUME NEW q \in Seq(MsgType), q # << >>, Ordered(q)
  PROVE  /\ Head(q) \in MsgType /\ Head(q) \in Members(q)
         /\ Tail(q) \in Seq(MsgType) /\ Members(Tail(q)) \subseteq Members(q)
         /\ \A m \in Members(q) : m = Head(q) \/ m \in Members(Tail(q))
         /\ Ordered(Tail(q))
         /\ \A m \in Members(Tail(q)) : Fits(Head(q), m)
<1>1. /\ Len(q) \in Nat \ {0} /\ Head(q) = q[1] /\ Head(q) \in MsgType
      /\ Tail(q) \in Seq(MsgType) /\ Len(Tail(q)) = Len(q) - 1
      /\ \A i \in 1..Len(Tail(q)) : Tail(q)[i] = q[i+1] /\ i+1 \in 1..Len(q)
  OBVIOUS
<1>2. Head(q) \in Members(q) /\ Members(Tail(q)) \subseteq Members(q)
  BY <1>1 DEF Members
<1>3. \A m \in Members(q) : m = Head(q) \/ m \in Members(Tail(q))
  <2> SUFFICES ASSUME NEW i \in 1..Len(q), i # 1 PROVE q[i] \in Members(Tail(q))
    BY <1>1 DEF Members
  <2>1. i-1 \in 1..Len(Tail(q)) /\ Tail(q)[i-1] = q[i]
    BY <1>1
  <2> QED BY <2>1 DEF Members
<1>4. Ordered(Tail(q))
  <2> SUFFICES ASSUME NEW i \in 1..Len(Tail(q)), NEW j \in 1..Len(Tail(q)), i < j
               PROVE  Fits(Tail(q)[i], Tail(q)[j])
    BY DEF Ordered
  <2>1. i+1 \in 1..Len(q) /\ j+1 \in 1..Len(q) /\ i+1 < j+1
    BY <1>1
  <2> QED BY <1>1, <2>1 DEF Ordered
<1>5. \A m \in Members(Tail(q)) : Fits(Head(q), m)
  <2> SUFFICES ASSUME NEW i \in 1..Len(Tail(q)) PROVE Fits(q[1], Tail(q)[i])
    BY <1>1 DEF Members
  <2>1. 1 \in 1..Len(q) /\ i+1 \in 1..Len(q) /\ 1 < i+1
    BY <1>1
  <2> QED BY <1>1, <2>1 DEF Ordered
<1> QED BY <1>1, <1>2, <1>3, <1>4, <1>5

(* What is there when one more message is posted.                          *)
LEMMA QueueAppend ==
  ASSUME NEW q \in Seq(MsgType), Ordered(q), NEW n \in MsgType,
         \A m \in Members(q) : Fits(m, n)
  PROVE  /\ Append(q, n) \in Seq(MsgType) /\ Ordered(Append(q, n))
         /\ Members(Append(q, n)) = Members(q) \cup {n}
<1>1. /\ Len(q) \in Nat /\ Append(q, n) \in Seq(MsgType)
      /\ Len(Append(q, n)) = Len(q) + 1 /\ Append(q, n)[Len(q) + 1] = n
      /\ \A i \in 1..Len(q) : Append(q, n)[i] = q[i]
  OBVIOUS
<1>2. Members(Append(q, n)) = Members(q) \cup {n}
  <2>1. \A i \in 1..Len(q) : i \in 1..Len(Append(q, n))
    BY <1>1
  <2>2. \A i \in 1..Len(Append(q, n)) : i \in 1..Len(q) \/ i = Len(q) + 1
    BY <1>1
  <2>3. Len(q) + 1 \in 1..Len(Append(q, n))
    BY <1>1
  <2> QED BY <1>1, <2>1, <2>2, <2>3 DEF Members
<1>3. Ordered(Append(q, n))
  <2> SUFFICES ASSUME NEW i \in 1..Len(q)+1, NEW j \in 1..Len(q)+1, i < j
               PROVE  Fits(Append(q, n)[i], Append(q, n)[j])
    BY <1>1 DEF Ordered
  <2>1. i \in 1..Len(q) /\ q[i] \in Members(q)
    BY <1>1 DEF Members
  <2>2. CASE j \in 1..Len(q)
    BY <1>1, <2>1, <2>2 DEF Ordered
  <2>3. CASE j = Len(q) + 1
    BY <1>1, <2>1, <2>3
  <2> QED BY <1>1, <2>2, <2>3
<1> QED BY <1>1, <1>2, <1>3

(* A handler takes its message out of the queue and leaves it in order.    *)
LEMMA Handled ==
  ASSUME IInv, NEW what, Handle(what)
  PROVE  /\ aborted = "no" /\ Going
         /\ Head(queue) \in MsgType /\ Head(queue) \in Members(queue)
         /\ Head(queue).what = what /\ WellFormed(Head(queue))
         /\ Members(queue') \subseteq Members(queue)
         /\ \A m \in Members(queue) : m = Head(queue) \/ m \in Members(queue')
         /\ \A m \in Members(queue') : Fits(Head(queue), m)
         /\ queue' \in Seq(MsgType) /\ QueueInOrder'
<1>1. /\ aborted = "no" /\ Going /\ queue \in Seq(MsgType) /\ queue # << >>
      /\ queue' = Tail(queue) /\ Head(queue).what = what
      /\ Ordered(queue) /\ \A m \in Members(queue) : WellFormed(m)
  BY DEF IInv, Handle, QueueType, Going, QueueInOrder
<1>2. /\ Head(queue) \in MsgType /\ Head(queue) \in Members(queue)
      /\ queue' \in Seq(MsgType) /\ Members(queue') \subseteq Members(queue)
      /\ \A m \in Members(queue) : m = Head(queue) \/ m \in Members(queue')
      /\ Ordered(queue')
      /\ \A m \in Members(queue') : Fits(Head(queue), m)
  BY <1>1, QueueTail
<1>3. QueueInOrder'
  BY <1>1, <1>2 DEF QueueInOrder
<1> QED BY <1>1, <1>2, <1>3

(* A message of a session, with the session.                               *)
LEMMA HandledData ==
  ASSUME IInv, Handle("Data")
  PROVE  Session \in SessionIDs /\ Met(Session) /\ Head(queue).arg \in Wire
<1>1. Head(queue) \in Members(queue) /\ Head(queue).what = "Data"
      /\ WellFormed(Head(queue))
  BY Handled
<1> QED BY <1>1 DEF WellFormed, Session, Met

(* What is sent over a session.                                            *)
LEMMA SendType ==
  ASSUME IInv, NEW s, NEW msgs \in Seq(Wire), Send(s, msgs)
  PROVE  /\ sent' \in [SessionIDs -> Seq(Wire)]
         /\ \A t \in SessionIDs \ {s} : sent'[t] = sent[t]
<1>1. sent \in [SessionIDs -> Seq(Wire)] /\ live \subseteq SessionIDs
  BY DEF IInv, QueueType, TypeOK
<1>2. CASE s \in live
  <2>1. sent[s] \o msgs \in Seq(Wire)
    BY <1>1, <1>2
  <2> QED BY <1>1, <1>2, <2>1 DEF Send
<1>3. CASE s \notin live
  BY <1>1, <1>3 DEF Send
<1> QED BY <1>2, <1>3

(* The messages of the source are such.                                    *)
LEMMA WireType ==
  /\ \A req \in Requests \cup Unasked :
       /\ <<Ask(req)>> \in Seq(Wire) /\ <<Ok(req)>> \in Seq(Wire)
       /\ <<Refused(req)>> \in Seq(Wire)
  /\ <<Ok("OPTIONS"), Ask("M3")>> \in Seq(Wire)
  /\ {"M1", "M3", "M4", "M5", "M5stop", "M16"} = Requests
  /\ {"OPTIONS", "SETUP", "PLAY", "TEARDOWN"} \subseteq Unasked
  /\ Lifesigns \subseteq Unasked
<1>1. \A req \in Requests \cup Unasked : Ask(req) \in Wire /\ Ok(req) \in Wire
                                          /\ Refused(req) \in Wire
  BY DEF Wire, Ask, Ok, Refused
<1>2. "OPTIONS" \in Requests \cup Unasked /\ "M3" \in Requests \cup Unasked
  BY DEF Requests, Unasked
<1> QED BY <1>1, <1>2 DEF Requests, Unasked

-----------------------------------------------------------------------------
(* What a step leaves alone                                                *)

(* The source only sends to, and asks, a session it has met.               *)
OnlyMeets(S) ==
  /\ UNCHANGED peer
  /\ Members(queue') \subseteq Members(queue)
  /\ mClientSessionID' \in {mClientSessionID, 0}
  /\ S \in SessionIDs => Met(S)
  /\ \A s \in SessionIDs \ {S} : sent'[s] = sent[s]
  /\ \A s \in SessionIDs, req \in Requests :
       <<s, req>> \in mResponseHandlers' => s = S \/ <<s, req>> \in mResponseHandlers

(* No session is met by such a step.                                       *)
LEMMA MeetsNobody ==
  ASSUME NEW S, OnlyMeets(S)
  PROVE  \A s \in SessionIDs : Met(s)' => Met(s)
<1> SUFFICES ASSUME NEW s \in SessionIDs, s # S, Met(s)' PROVE Met(s)
  BY DEF OnlyMeets
<1>1. s # 0
  BY NoSession
<1> QED BY <1>1 DEF OnlyMeets, Met, peer

(* There is one client if no session is met.                               *)
LEMMA OneClientKept ==
  ASSUME Going, \A s \in SessionIDs : Met(s)' => Met(s),
         mState' \in {"INITIALIZED", "AWAITING_CLIENT_CONNECTION"} =>
           mState \in {"INITIALIZED", "AWAITING_CLIENT_CONNECTION"}
  PROVE  OneClient'
  BY DEF Going, OneClient

(* Connections if sessions are only given up.                              *)
LEMMA ConnectionsKept ==
  ASSUME Going, \A s \in SessionIDs : Met(s)' => Met(s), UNCHANGED dongle,
         QueueInOrder, Members(queue') \subseteq Members(queue),
         mClientSessionID' \in {mClientSessionID, 0}, live' \subseteq live,
         \A m \in Members(queue') : m.what = "ClientConnected" => m.session \in live',
         mClientSessionID' # 0 => mClientSessionID' \in live'
  PROVE  Connections'
  BY DEF Going, Connections, QueueInOrder, WellFormed

(* A stop is as far as it was if what it looks at stays.                   *)
LEMMA StoppingKept ==
  ASSUME Going, aborted = "no", Members(queue') \subseteq Members(queue),
         mClientSessionID' \in {mClientSessionID, 0},
         UNCHANGED <<mState, playback, mPlaybackSessionID, stopCalled, mHDCP,
                     mSessionID, replies, finishStop2>>
  PROVE  Stopping' /\ AnsweredIsClean'
<1>1. Stopping'
  BY DEF Going, Stopping
<1>2. AnsweredIsClean'
  <2> SUFFICES ASSUME replies > 0
               PROVE  /\ mState = "STOPPED" /\ mClientSessionID' = 0 /\ playback = "none"
                      /\ mHDCP = "none" /\ ~mSessionID
    BY DEF AnsweredIsClean
  <2> QED BY DEF Going, AnsweredIsClean
<1> QED BY <1>1, <1>2

(* Nothing stops while the client goes from SETUP to PLAY.                 *)
LEMMA StoppingAdvanced ==
  ASSUME Going, aborted = "no", Members(queue') \subseteq Members(queue),
         mState \in AfterSetup, mState' \in AfterSetup,
         UNCHANGED <<playback, mPlaybackSessionID, stopCalled, mHDCP, replies, finishStop2>>
  PROVE  Stopping' /\ AnsweredIsClean'
<1>1. /\ mState \notin BeingStopped /\ mState' \notin BeingStopped
      /\ mState # "STOPPING" /\ mState # "STOPPED"
      /\ mState' # "STOPPING" /\ mState' # "STOPPED"
  BY DEF AfterSetup, BeingStopped
<1>2. Stopping'
  BY <1>1 DEF Going, Stopping
<1>3. ~(replies > 0)
  BY <1>1 DEF Going, AnsweredIsClean
<1> QED BY <1>2, <1>3 DEF AnsweredIsClean

(* The HDCP module comes to be, or is ready, or fails.                     *)
LEMMA HDCPStarts ==
  ASSUME Going, Members(queue') \subseteq Members(queue),
         mHDCP # "shutting down", mHDCP' # "shutting down",
         UNCHANGED <<mState, mClientSessionID, playback, mPlaybackSessionID, stopCalled,
                     replies, finishStop2>>
  PROVE  Stopping'
BY DEF Going, Stopping

(* The requests that lead to SETUP.                                        *)
LEMMA NegotiationKept ==
  ASSUME Going, SetupAwaitsHDCP, Members(queue') \subseteq Members(queue),
         UNCHANGED <<asked, mUsingHDCP, mHDCPInitializationComplete>>,
         mSetupTriggerDeferred' => mSetupTriggerDeferred,
         \A s \in SessionIDs, req \in {"M3", "M4", "M5"} :
           <<s, req>> \in mResponseHandlers' => <<s, req>> \in mResponseHandlers
  PROVE  Negotiation' /\ SetupAwaitsHDCP'
<1>1. \A s \in SessionIDs : Options(s)' => Options(s)
  BY DEF Options
<1>2. Negotiation'
  BY <1>1 DEF Going, Negotiation, NotBefore
<1>3. SetupAwaitsHDCP'
  BY DEF SetupAwaitsHDCP
<1> QED BY <1>2, <1>3

(* The chain of keep-alives is not broken.                                 *)
LEMMA KeptAliveKept ==
  ASSUME Going, UNCHANGED playback, mClientSessionID' \in {mClientSessionID, 0},
         mReaperPending' => mReaperPending,
         mClientSessionID \in keepAlives \/ <<mClientSessionID, "M16">> \in mResponseHandlers
         => \/ mClientSessionID \in keepAlives'
            \/ <<mClientSessionID, "M16">> \in mResponseHandlers'
  PROVE  KeptAlive'
  BY DEF Going, KeptAlive

(* Sessions are only given up, and the messages that account for the others*)
(* stay.                                                                   *)
LEMMA AccountedKept ==
  ASSUME Going, aborted = "no", queue \in Seq(MsgType), queue' \in Seq(MsgType),
         live' \subseteq live,
         mClientSessionID \in live' => mClientSessionID' = mClientSessionID,
         \A m \in Members(queue) :
           m.what \in {"ClientConnected", "Error"} =>
             m \in Members(queue') \/ m.session \notin live'
  PROVE  SessionsAccounted'
<1> SUFFICES ASSUME NEW s \in live', s # mClientSessionID'
             PROVE  \E i \in 1..Len(queue') :
                      /\ queue'[i].session = s
                      /\ queue'[i].what \in {"ClientConnected", "Error"}
  BY DEF SessionsAccounted
<1>1. PICK i \in 1..Len(queue) : /\ queue[i].session = s
                                 /\ queue[i].what \in {"ClientConnected", "Error"}
  BY DEF Going, SessionsAccounted
<1>2. queue[i] \in Members(queue')
  BY <1>1 DEF Members
<1> QED BY <1>1, <1>2 DEF Members

-----------------------------------------------------------------------------
(* Steps that hardly change anything                                       *)

(* A message that opens no connection and ends none is handled, or none is.*)
OneLess ==
  \/ UNCHANGED queue
  \/ \E what \in {"Stop", "Data", "SessionEstablished", "SessionDestroyed"} : Handle(what)

(* The queue after such a step.                                            *)
LEMMA OneLessQueue ==
  ASSUME IInv, aborted = "no", OneLess
  PROVE  /\ Going /\ queue \in Seq(MsgType) /\ queue' \in Seq(MsgType) /\ QueueInOrder'
         /\ Members(queue') \subseteq Members(queue)
         /\ \A m \in Members(queue) : m.what \in {"ClientConnected", "Error"} =>
              m \in Members(queue')
<1>1. Going /\ queue \in Seq(MsgType)
  BY DEF IInv, QueueType
<1>2. CASE UNCHANGED queue
  BY <1>1, <1>2 DEF Going, QueueInOrder
<1>3. ASSUME NEW what \in {"Stop", "Data", "SessionEstablished", "SessionDestroyed"},
             Handle(what)
      PROVE  /\ queue' \in Seq(MsgType) /\ QueueInOrder'
             /\ Members(queue') \subseteq Members(queue)
             /\ \A m \in Members(queue) : m.what \in {"ClientConnected", "Error"} =>
                  m \in Members(queue')
  BY <1>3, Handled
<1> QED BY <1>1, <1>2, <1>3 DEF OneLess

(* Such a step may give up the client, send to S and ask it something.     *)
Aside(S) ==
  /\ aborted = "no" /\ OneLess
  /\ UNCHANGED <<aborted, peer>>
  /\ \/ UNCHANGED <<mClientSessionID, live>>
     \/ mClientSessionID' = 0 /\ live' = live \ {mClientSessionID}
  /\ mState' \in {"INITIALIZED", "AWAITING_CLIENT_CONNECTION"} =>
       mState \in {"INITIALIZED", "AWAITING_CLIENT_CONNECTION"}
  /\ sent' \in [SessionIDs -> Seq(Wire)]
  /\ S \in SessionIDs => Met(S)
  /\ \A s \in SessionIDs \ {S} : sent'[s] = sent[s]
  /\ \A s \in SessionIDs, req \in Requests :
       <<s, req>> \in mResponseHandlers' => s = S \/ <<s, req>> \in mResponseHandlers

(* What a step that meets nobody leaves true of the connections.           *)
LEMMA AsideStep ==
  ASSUME IInv, NEW S, Aside(S)
  PROVE  /\ Going /\ Members(queue') \subseteq Members(queue)
         /\ \A s \in SessionIDs : Met(s)' => Met(s)
         /\ QueueType' /\ QueueInOrder' /\ OneClient' /\ Connections' /\ SessionsAccounted'
         /\ AbortsOnlyWhenCutOff'
<1>1. /\ Going /\ queue \in Seq(MsgType) /\ queue' \in Seq(MsgType) /\ QueueInOrder'
      /\ Members(queue') \subseteq Members(queue)
      /\ \A m \in Members(queue) : m.what \in {"ClientConnected", "Error"} =>
           m \in Members(queue')
  BY OneLessQueue DEF Aside
<1>2. mClientSessionID' \in {mClientSessionID, 0} /\ live' \subseteq live
  BY DEF Aside
<1>3. QueueType'
  BY <1>1 DEF IInv, QueueType, Aside, peer
<1>4. \A s \in SessionIDs : Met(s)' => Met(s)
  <2>1. OnlyMeets(S)
    BY <1>1, <1>2 DEF Aside, OnlyMeets
  <2> QED BY <2>1, MeetsNobody
<1>5. OneClient'
  BY <1>1, <1>4, OneClientKept DEF Aside
<1>6. Connections'
  <2>1. mClientSessionID' # 0 => mClientSessionID' \in live'
    BY <1>1, <1>2 DEF Going, Connections, Aside
  <2>2. ASSUME NEW m \in Members(queue'), m.what = "ClientConnected"
        PROVE  m.session \in live'
    <3>1. m.session \in live /\ ~Met(m.session)
      BY <1>1, <2>2 DEF Going, Connections
    <3>2. m.session # mClientSessionID
      BY <3>1 DEF Met
    <3> QED BY <3>1, <3>2 DEF Aside
  <2> QED BY <1>1, <1>2, <1>4, <2>1, <2>2, ConnectionsKept DEF Aside, peer, Going
<1>7. SessionsAccounted'
  <2>1. mClientSessionID \in live' => mClientSessionID' = mClientSessionID
    BY DEF Aside
  <2> QED BY <1>1, <1>2, <2>1, AccountedKept DEF Aside
<1>8. AbortsOnlyWhenCutOff'
  BY DEF Aside, AbortsOnlyWhenCutOff
<1> QED BY <1>1, <1>3, <1>4, <1>5, <1>6, <1>7, <1>8

(* A step that hardly changes anything but what is asked and answered.     *)
Quiet(S) ==
  /\ aborted = "no" /\ OneLess
  /\ UNCHANGED <<mState, client, playback, mReaperPending, finishStop2, hdcp, stopping,
                 stopCalled, live, aborted, peer>>
  /\ teardownTimer' \in BOOLEAN /\ finishPlay' \in BOOLEAN /\ displayError' \in BOOLEAN
  /\ keepAlives' \subseteq SessionIDs
  /\ mResponseHandlers' \subseteq SessionIDs \X Requests
  /\ sent' \in [SessionIDs -> Seq(Wire)]
  /\ S \in SessionIDs => Met(S)
  /\ \A s \in SessionIDs \ {S} : sent'[s] = sent[s]
  /\ \A s \in SessionIDs, req \in Requests :
       <<s, req>> \in mResponseHandlers' =>
         \/ <<s, req>> \in mResponseHandlers
         \/ s = S /\ req \in {"M1", "M5stop", "M16"}
  /\ playback # "none" /\ (\/ mClientSessionID \in keepAlives
                           \/ <<mClientSessionID, "M16">> \in mResponseHandlers)
     => \/ mClientSessionID \in keepAlives'
        \/ <<mClientSessionID, "M16">> \in mResponseHandlers'

(* The invariant after a step of no consequence to the client.             *)
LEMMA QuietStep ==
  ASSUME IInv, NEW S, Quiet(S)
  PROVE  IInv'
<1>1. UNCHANGED <<mClientSessionID, live, mState, aborted, peer>>
  BY DEF Quiet, client
<1>2. Aside(S)
  BY <1>1 DEF Quiet, Aside
<1>3. /\ Going /\ Members(queue') \subseteq Members(queue)
      /\ QueueType' /\ QueueInOrder' /\ OneClient' /\ Connections' /\ SessionsAccounted'
      /\ AbortsOnlyWhenCutOff'
  BY <1>2, AsideStep
<1>4. TypeOK'
  <2>1. Flags'
    BY DEF Quiet, IInv, TypeOK, Flags, client, hdcp, stopping
  <2>2. Names'
    BY DEF Quiet, IInv, TypeOK, Names, States, stopping
  <2>3. Numbers'
    BY DEF Quiet, IInv, TypeOK, Numbers, client, stopping
  <2> QED BY <2>1, <2>2, <2>3 DEF TypeOK, Flags, Names, Numbers
<1>5. Stopping' /\ AnsweredIsClean'
  BY <1>3, StoppingKept DEF Quiet, client, stopping
<1>6. Negotiation' /\ SetupAwaitsHDCP'
  <2>1. \A s \in SessionIDs, req \in {"M3", "M4", "M5"} :
          <<s, req>> \in mResponseHandlers' => <<s, req>> \in mResponseHandlers
    BY DEF Quiet, Requests
  <2> QED BY <1>3, <2>1, NegotiationKept DEF Quiet, hdcp, peer, IInv
<1>7. KeptAlive'
  BY <1>3 DEF Quiet, Going, KeptAlive, client
<1> QED BY <1>3, <1>4, <1>5, <1>6, <1>7 DEF IInv, Going

(* Whoever sends data is the client, if there is one.                      *)
LEMMA SenderIsClient ==
  ASSUME IInv, Handle("Data")
  PROVE  /\ aborted = "no" /\ OneLess
         /\ Session \in SessionIDs /\ Met(Session) /\ Head(queue).arg \in Wire
         /\ mClientSessionID \in {Session, 0}
<1>1. /\ aborted = "no" /\ Going /\ mClientSessionID \in SessionIDs \cup {0}
  BY Handled DEF IInv, TypeOK
<1>2. Session \in SessionIDs /\ Met(Session) /\ Head(queue).arg \in Wire
  BY HandledData
<1>3. mClientSessionID \in SessionIDs => Met(mClientSessionID)
  BY DEF Met
<1>4. OneLess
  BY DEF OneLess
<1> QED BY <1>1, <1>2, <1>3, <1>4 DEF Going, OneClient

(* Handlers that do no more than answer.                                   *)
LEMMA AnswerStep ==
  ASSUME IInv, UNCHANGED peer,
         \/ OnUnsolicited \/ OnPlainResponse \/ SessionNotFound \/ OnLifesign
  PROVE  IInv'
<1>1. Handle("Data")
  BY DEF OnUnsolicited, OnPlainResponse, SessionNotFound, OnLifesign, IsResponse, IsRequest
<1>2. /\ aborted = "no" /\ OneLess
      /\ Session \in SessionIDs /\ Met(Session)
  BY <1>1, SenderIsClient
<1>3. /\ sent \in [SessionIDs -> Seq(Wire)] /\ mResponseHandlers \subseteq SessionIDs \X Requests
      /\ keepAlives \subseteq SessionIDs /\ teardownTimer \in BOOLEAN
      /\ finishPlay \in BOOLEAN /\ displayError \in BOOLEAN
  BY DEF IInv, QueueType, TypeOK
<1>4. /\ UNCHANGED <<mState, client, playback, timers, finishPlay, hdcp, stopping,
                     stopCalled, live, aborted>>
      /\ displayError' \in BOOLEAN
  BY <1>3 DEF OnUnsolicited, OnPlainResponse, SessionNotFound, OnLifesign, Show
<1>5. /\ sent' \in [SessionIDs -> Seq(Wire)]
      /\ \A s \in SessionIDs \ {Session} : sent'[s] = sent[s]
  <2>1. CASE UNCHANGED sent
    BY <1>3, <2>1
  <2>2. ASSUME NEW req \in {"PLAY", "TEARDOWN"} \cup Lifesigns,
               Send(Session, <<Refused(req)>>) \/ Send(Session, <<Ok(req)>>)
        PROVE  /\ sent' \in [SessionIDs -> Seq(Wire)]
               /\ \A s \in SessionIDs \ {Session} : sent'[s] = sent[s]
    BY <2>2, SendType, WireType
  <2> QED BY <2>1, <2>2 DEF OnUnsolicited, OnPlainResponse, SessionNotFound, OnLifesign
<1>6. /\ mResponseHandlers' \subseteq mResponseHandlers
      /\ \A s \in SessionIDs : <<s, "M16">> \in mResponseHandlers => <<s, "M16">> \in mResponseHandlers'
  BY DEF OnUnsolicited, OnPlainResponse, SessionNotFound, OnLifesign, Answered
<1>7. /\ playback # "none" /\ (\/ mClientSessionID \in keepAlives
                           \/ <<mClientSessionID, "M16">> \in mResponseHandlers)
     => \/ mClientSessionID \in keepAlives'
        \/ <<mClientSessionID, "M16">> \in mResponseHandlers'
  BY <1>3, <1>4, <1>6 DEF timers
<1>8. Quiet(Session)
  BY <1>2, <1>3, <1>4, <1>5, <1>6, <1>7 DEF Quiet, timers
<1> QED BY <1>8, QuietStep

(* Timers and failures that only show.                                     *)
LEMMA ShowStep ==
  ASSUME IInv, UNCHANGED peer, OnSessionDead \/ OnHDCPFailed
  PROVE  IInv'
<1>1. /\ sent \in [SessionIDs -> Seq(Wire)] /\ mResponseHandlers \subseteq SessionIDs \X Requests
      /\ keepAlives \subseteq SessionIDs /\ teardownTimer \in BOOLEAN
      /\ finishPlay \in BOOLEAN
  BY DEF IInv, QueueType, TypeOK
<1>2. /\ aborted = "no" /\ UNCHANGED queue /\ displayError' = TRUE
      /\ UNCHANGED <<mState, client, playback, mResponseHandlers, timers, finishPlay, hdcp,
                     stopping, stopCalled, aborted, live, sent>>
  BY DEF Due, OnSessionDead, OnHDCPFailed
<1>3. 0 \notin SessionIDs /\ OneLess
  BY <1>2, NoSession DEF OneLess
<1>4. Quiet(0)
  BY <1>1, <1>2, <1>3 DEF Quiet, timers
<1> QED BY <1>4, QuietStep

(* kWhatKeepAlive: the client, asked for a sign of life, owes an answer.   *)
LEMMA KeepAliveStep ==
  ASSUME IInv, UNCHANGED peer, OnKeepAlive
  PROVE  IInv'
<1>1. /\ sent \in [SessionIDs -> Seq(Wire)] /\ mResponseHandlers \subseteq SessionIDs \X Requests
      /\ keepAlives \subseteq SessionIDs /\ teardownTimer \in BOOLEAN
      /\ finishPlay \in BOOLEAN /\ displayError \in BOOLEAN
  BY DEF IInv, QueueType, TypeOK
<1>2. PICK s \in keepAlives :
        /\ keepAlives' = keepAlives \ {s}
        /\ IF s = mClientSessionID
             THEN SendRequest(s, "M16")
             ELSE UNCHANGED <<sent, mResponseHandlers>>
  BY DEF OnKeepAlive
<1>3. /\ aborted = "no" /\ UNCHANGED queue
      /\ UNCHANGED <<mState, client, playback, mReaperPending, teardownTimer, finishStop2,
                     finishPlay, hdcp, stopping, stopCalled, displayError, aborted, live>>
  BY DEF OnKeepAlive, Due
<1>4. CASE s = mClientSessionID
  <2>1. s \in SessionIDs /\ s # 0 /\ s \in live
    BY <1>1, <1>3, <1>4, NoSession DEF IInv, Going, Connections
  <2>2. /\ Send(s, <<Ask("M16")>>)
        /\ mResponseHandlers' = mResponseHandlers \cup {<<s, "M16">>}
    BY <1>2, <1>4, <2>1 DEF SendRequest
  <2>3. /\ sent' \in [SessionIDs -> Seq(Wire)]
        /\ \A t \in SessionIDs \ {s} : sent'[t] = sent[t]
    <3>1. <<Ask("M16")>> \in Seq(Wire)
      BY WireType DEF Requests
    <3> QED BY <2>2, <3>1, SendType
  <2>4. Met(s)
    BY <1>4 DEF Met
  <2>5. Quiet(s)
    BY <1>1, <1>2, <1>3, <1>4, <2>1, <2>2, <2>3, <2>4 DEF Quiet, OneLess, Requests
  <2> QED BY <2>5, QuietStep
<1>5. CASE s # mClientSessionID
  <2>1. Quiet(0)
    BY <1>1, <1>2, <1>3, <1>5, NoSession DEF Quiet, OneLess
  <2> QED BY <2>1, QuietStep
<1> QED BY <1>4, <1>5

-----------------------------------------------------------------------------
(* Steps that abort                                                        *)

(* Nothing is promised of a process that aborted.                          *)
LEMMA AbortStep ==
  ASSUME IInv, aborted' # "no", TypeOK', QueueType', SetupAwaitsHDCP',
         AbortsOnlyWhenCutOff'
  PROVE  IInv'
BY DEF IInv

(* A handler that aborts has left all but the answers alone.               *)
LEMMA AbortQuietly ==
  ASSUME IInv, aborted = "no", OneLess \/ \E what : Handle(what),
         UNCHANGED <<mState, client, playback, mResponseHandlers, timers, hdcp,
                     stopping, stopCalled, live, peer>>,
         finishPlay' \in BOOLEAN, displayError' \in BOOLEAN,
         sent' \in [SessionIDs -> Seq(Wire)],
         aborted' # "no", AbortsOnlyWhenCutOff'
  PROVE  IInv'
<1>1. UNCHANGED <<mState, mClientSessionID, mPlaybackSessionID, playback, mReaperPending,
                  finishStop2, mUsingHDCP, mHDCPInitializationComplete,
                  mSetupTriggerDeferred, mSessionID, mHDCP, replies, stopCalled, live,
                  keepAlives, teardownTimer, mResponseHandlers>>
  BY DEF client, timers, hdcp, stopping
<1>2. TypeOK'
  <2>1. Flags'
    BY <1>1 DEF IInv, TypeOK, Flags
  <2>2. Names'
    BY <1>1 DEF IInv, TypeOK, Names, States
  <2>3. Numbers'
    BY <1>1 DEF IInv, TypeOK, Numbers
  <2> QED BY <2>1, <2>2, <2>3 DEF TypeOK, Flags, Names, Numbers
<1>3. QueueType'
  <2>1. queue' \in Seq(MsgType)
    BY Handled, OneLessQueue
  <2> QED BY <2>1 DEF IInv, QueueType, peer
<1>4. SetupAwaitsHDCP'
  BY <1>1 DEF IInv, SetupAwaitsHDCP
<1> QED BY <1>2, <1>3, <1>4, AbortStep

(* kWhatM16Response: the next keep-alive is scheduled.                     *)
LEMMA M16Step ==
  ASSUME IInv, UNCHANGED peer, OnM16Response
  PROVE  IInv'
<1>1. /\ aborted = "no" /\ Handle("Data") /\ OneLess /\ Session \in SessionIDs /\ Met(Session)
      /\ mClientSessionID \in {Session, 0}
  BY SenderIsClient DEF OnM16Response, IsResponse
<1>2. /\ sent \in [SessionIDs -> Seq(Wire)] /\ mResponseHandlers \subseteq SessionIDs \X Requests
      /\ keepAlives \subseteq SessionIDs /\ teardownTimer \in BOOLEAN
      /\ finishPlay \in BOOLEAN /\ displayError \in BOOLEAN
  BY DEF IInv, QueueType, TypeOK
<1>3. UNCHANGED <<mState, client, playback, mReaperPending, teardownTimer, finishStop2,
                  finishPlay, hdcp, stopping, stopCalled, displayError, live, sent>>
  BY DEF OnM16Response
<1>4. CASE Session = mClientSessionID
  <2>1. /\ mResponseHandlers' = mResponseHandlers \ {<<Session, "M16">>}
        /\ keepAlives' = IF playback # "none" THEN keepAlives \cup {Session} ELSE keepAlives
        /\ UNCHANGED aborted
    BY <1>4 DEF OnM16Response, Answered
  <2>2. keepAlives' \subseteq SessionIDs
    BY <1>1, <1>2, <2>1
  <2>3. Quiet(Session)
    BY <1>1, <1>2, <1>3, <1>4, <2>1, <2>2 DEF Quiet
  <2> QED BY <2>3, QuietStep
<1>5. CASE Session # mClientSessionID
  <2>1. aborted' = "onReceiveM16Response" /\ UNCHANGED <<mResponseHandlers, keepAlives>>
    BY <1>5 DEF OnM16Response
  <2>2. AbortsOnlyWhenCutOff'
    BY <1>1, <1>3, <1>5, <2>1 DEF AbortsOnlyWhenCutOff, CutOff, client
  <2>3. UNCHANGED timers
    BY <1>3, <2>1 DEF timers
  <2> QED BY <1>1, <1>2, <1>3, <2>1, <2>2, <2>3, AbortQuietly
<1> QED BY <1>4, <1>5

(* The client comes nearer to playing.                                     *)
LEMMA AdvanceStep ==
  ASSUME IInv, NEW S, Aside(S),
         UNCHANGED <<client, playback, mResponseHandlers, timers, hdcp, stopping, stopCalled,
                     live>>,
         finishPlay' \in BOOLEAN, displayError' \in BOOLEAN,
         mState' = mState \/ (mState \in AfterSetup /\ mState' \in AfterSetup)
  PROVE  IInv'
<1>1. /\ Members(queue') \subseteq Members(queue) /\ Going /\ aborted = "no"
      /\ QueueType' /\ QueueInOrder' /\ OneClient' /\ Connections' /\ SessionsAccounted'
      /\ AbortsOnlyWhenCutOff'
  BY AsideStep DEF Aside
<1>2. UNCHANGED <<playback, mPlaybackSessionID, stopCalled, mHDCP, mSessionID, replies,
                  mClientSessionID, finishStop2, mReaperPending, keepAlives,
                  mResponseHandlers>>
  BY DEF client, stopping, timers
<1>3. TypeOK'
  <2>1. Flags'
    BY DEF IInv, TypeOK, Flags, client, timers, hdcp, stopping
  <2>2. Names'
    BY DEF IInv, TypeOK, Names, States, AfterSetup, stopping
  <2>3. Numbers'
    BY DEF IInv, TypeOK, Numbers, client, timers, stopping
  <2> QED BY <2>1, <2>2, <2>3 DEF TypeOK, Flags, Names, Numbers
<1>4. Stopping' /\ AnsweredIsClean'
  <2>1. CASE mState' = mState
    BY <1>1, <1>2, <2>1, StoppingKept
  <2>2. CASE mState \in AfterSetup /\ mState' \in AfterSetup
    BY <1>1, <1>2, <2>2, StoppingAdvanced
  <2> QED BY <2>1, <2>2
<1>5. Negotiation' /\ SetupAwaitsHDCP'
  BY <1>1, NegotiationKept DEF hdcp, peer, IInv, Aside
<1>6. KeptAlive'
  BY <1>1, <1>2 DEF Going, KeptAlive
<1> QED BY <1>1, <1>3, <1>4, <1>5, <1>6 DEF IInv, Going

(* kWhatSessionEstablished: the playback session is there.                 *)
LEMMA EstablishedStep ==
  ASSUME IInv, UNCHANGED peer, OnSessionEstablished
  PROVE  IInv'
<1>1. /\ aborted = "no" /\ Handle("SessionEstablished") /\ OneLess /\ Going
      /\ Head(queue) \in Members(queue) /\ Head(queue).what = "SessionEstablished"
  BY Handled DEF OnSessionEstablished, OneLess
<1>2. playback # "none"
  BY <1>1 DEF Going, Stopping
<1>3. /\ UNCHANGED <<client, playback, mResponseHandlers, timers, finishPlay, hdcp, stopping,
                     stopCalled, displayError, live, sent, aborted>>
      /\ mState' = IF mState = "ABOUT_TO_PLAY" THEN "PLAYING" ELSE mState
  BY <1>2 DEF OnSessionEstablished
<1>4. Aside(0)
  <2>1. UNCHANGED <<mClientSessionID, live, sent, mResponseHandlers, aborted>>
    BY <1>3 DEF client
  <2>2. sent \in [SessionIDs -> Seq(Wire)] /\ 0 \notin SessionIDs
    BY NoSession DEF IInv, QueueType
  <2>3. mState' \in {"INITIALIZED", "AWAITING_CLIENT_CONNECTION"} => mState' = mState
    BY <1>2 DEF OnSessionEstablished
  <2> QED BY <1>1, <2>1, <2>2, <2>3 DEF Aside
<1>5. UNCHANGED <<client, playback, mResponseHandlers, timers, hdcp, stopping, stopCalled, live>>
  BY <1>3
<1>6. finishPlay' \in BOOLEAN /\ displayError' \in BOOLEAN
  BY <1>3 DEF IInv, TypeOK
<1>7. mState' = mState \/ (mState \in AfterSetup /\ mState' \in AfterSetup)
  BY <1>2 DEF OnSessionEstablished, AfterSetup
<1> QED BY <1>4, <1>5, <1>6, <1>7, AdvanceStep

(* What a handler sends back.                                              *)
LEMMA AnswerType ==
  ASSUME IInv, Handle("Data"),
         NEW req \in Requests \cup Unasked,
         NEW msg \in {Ask(req), Ok(req), Refused(req)}, Send(Session, <<msg>>)
  PROVE  /\ sent' \in [SessionIDs -> Seq(Wire)]
         /\ \A s \in SessionIDs \ {Session} : sent'[s] = sent[s]
<1>1. <<msg>> \in Seq(Wire)
  BY WireType
<1> QED BY <1>1, SendType

(* onPlayRequest: only a PLAY after the one before, or after stop(), fails *)
(* the CHECK.                                                              *)
LEMMA PlayStep ==
  ASSUME IInv, UNCHANGED peer, OnPlayRequest
  PROVE  IInv'
<1>1. /\ aborted = "no" /\ Handle("Data") /\ OneLess /\ Session \in SessionIDs /\ Met(Session)
      /\ mClientSessionID \in {Session, 0} /\ Going
  BY SenderIsClient DEF OnPlayRequest, IsRequest, IInv
<1>2. /\ UNCHANGED <<client, playback, mResponseHandlers, timers, hdcp, stopping, stopCalled,
                     live, peer>>
      /\ playback # "none" /\ Send(Session, <<Ok("PLAY")>>)
  BY DEF OnPlayRequest
<1>3. /\ sent' \in [SessionIDs -> Seq(Wire)]
      /\ \A s \in SessionIDs \ {Session} : sent'[s] = sent[s]
  BY <1>1, <1>2, AnswerType DEF Unasked
<1>4. finishPlay \in BOOLEAN /\ displayError \in BOOLEAN
  BY DEF IInv, TypeOK
<1>5. finishPlay' \in BOOLEAN /\ displayError' \in BOOLEAN
  BY <1>4 DEF OnPlayRequest
<1>6. CASE Session \in live => mState = "AWAITING_CLIENT_PLAY"
  <2>1. UNCHANGED aborted /\ mState' \in {mState, "ABOUT_TO_PLAY"}
        /\ (mState' # mState => mState = "AWAITING_CLIENT_PLAY")
    BY <1>6 DEF OnPlayRequest
  <2>2. UNCHANGED <<mClientSessionID, live, mResponseHandlers>>
    BY <1>2 DEF client
  <2>3. Aside(Session)
    BY <1>1, <1>3, <2>1, <2>2 DEF Aside
  <2>4. mState' = mState \/ (mState \in AfterSetup /\ mState' \in AfterSetup)
    BY <2>1 DEF AfterSetup
  <2> QED BY <1>2, <1>5, <2>3, <2>4, AdvanceStep
<1>7. CASE Session \in live /\ mState # "AWAITING_CLIENT_PLAY"
  <2>1. aborted' = "onPlayRequest" /\ UNCHANGED mState
    BY <1>7 DEF OnPlayRequest
  <2>2. mState \in {"ABOUT_TO_PLAY", "PLAYING"} \/ stopCalled
    BY <1>1, <1>2, <1>7 DEF IInv, TypeOK, Going, Stopping, AfterSetup, BeingStopped
  <2>3. AbortsOnlyWhenCutOff'
    BY <1>2, <2>1, <2>2 DEF AbortsOnlyWhenCutOff, CutOff
  <2> QED BY <1>1, <1>2, <1>3, <1>5, <2>1, <2>3, AbortQuietly
<1> QED BY <1>6, <1>7

(* A client whose SETUP was not served yet is awaited to ask for it.       *)
LEMMA SetupIsAwaited ==
  ASSUME IInv, aborted = "no", mClientSessionID # 0, ~mPlaybackSessionID
  PROVE  /\ mState = "AWAITING_CLIENT_SETUP" /\ playback = "none"
         /\ mClientSessionID \in live /\ mHDCP # "shutting down" /\ replies # 1
<1>1. Going /\ mState \in States /\ mClientSessionID \in SessionIDs
  BY DEF IInv, TypeOK
<1>2. playback = "none" /\ mClientSessionID \in live
  BY <1>1 DEF Going, Stopping, Connections
<1>3. mState \notin AfterSetup /\ mState \notin {"AWAITING_CLIENT_TEARDOWN", "STOPPING"}
  BY <1>1, <1>2 DEF Going, Stopping
<1>4. mState # "STOPPED"
  <2>1. mState = "STOPPED" => replies = 1
    BY <1>1 DEF Going, Stopping
  <2>2. ~(replies > 0)
    BY <1>1 DEF Going, AnsweredIsClean
  <2> QED BY <2>1, <2>2
<1>5. mState \notin {"INITIALIZED", "AWAITING_CLIENT_CONNECTION"}
  BY <1>1 DEF Going, OneClient, Met
<1>6. mState = "AWAITING_CLIENT_SETUP"
  BY <1>1, <1>3, <1>4, <1>5 DEF States, AfterSetup
<1>7. mHDCP # "shutting down" /\ replies # 1
  BY <1>1, <1>6 DEF Going, Stopping
<1> QED BY <1>2, <1>6, <1>7

(* onSetupRequest, where it makes the playback session.                    *)
LEMMA SetupServed ==
  ASSUME IInv, UNCHANGED peer, OnSetupRequest, Session = mClientSessionID,
         ~mPlaybackSessionID, mPlaybackSessionID' = TRUE, playback' = "ready",
         Send(Session, <<Ok("SETUP")>>),
         IF Session \in live
             THEN /\ mState' = "AWAITING_CLIENT_PLAY"
                  /\ mReaperPending' = TRUE
                  /\ keepAlives' = keepAlives \cup {Session}
             ELSE UNCHANGED <<mState, mReaperPending, keepAlives>>,
         displayError' \in BOOLEAN, UNCHANGED aborted
  PROVE  IInv'
<1>1. /\ aborted = "no" /\ Handle("Data") /\ OneLess /\ Session \in SessionIDs /\ Met(Session)
      /\ Session # 0 /\ Going
  BY SenderIsClient, NoSession DEF OnSetupRequest, IsRequest, IInv
<1>2. /\ mState = "AWAITING_CLIENT_SETUP" /\ playback = "none" /\ Session \in live
      /\ mHDCP # "shutting down" /\ replies # 1
  BY <1>1, SetupIsAwaited
<1>3. /\ mState' = "AWAITING_CLIENT_PLAY" /\ mReaperPending' = TRUE
      /\ keepAlives' = keepAlives \cup {Session}
  BY <1>2
<1>4. UNCHANGED <<mClientSessionID, mResponseHandlers, teardownTimer, finishStop2,
                  finishPlay, hdcp, stopping, stopCalled, live>>
  BY DEF OnSetupRequest
<1>5. /\ sent' \in [SessionIDs -> Seq(Wire)]
      /\ \A s \in SessionIDs \ {Session} : sent'[s] = sent[s]
  BY <1>1, AnswerType DEF Unasked
<1>6. Aside(Session)
  BY <1>1, <1>3, <1>4, <1>5 DEF Aside
<1>7. /\ Members(queue') \subseteq Members(queue)
      /\ QueueType' /\ QueueInOrder' /\ OneClient' /\ Connections' /\ SessionsAccounted'
      /\ AbortsOnlyWhenCutOff'
  BY <1>6, AsideStep
<1>8. TypeOK'
  <2>1. Flags'
    BY <1>3, <1>4 DEF IInv, TypeOK, Flags, hdcp, stopping
  <2>2. Names'
    BY <1>3, <1>4 DEF IInv, TypeOK, Names, States, stopping
  <2>3. Numbers'
    BY <1>1, <1>3, <1>4 DEF IInv, TypeOK, Numbers, stopping
  <2> QED BY <2>1, <2>2, <2>3 DEF TypeOK, Flags, Names, Numbers
<1>9. Stopping'
  <2>1. mHDCP' = mHDCP /\ replies' = replies
    BY <1>4 DEF stopping
  <2>2. \A m \in Members(queue) : m.what # "SessionDestroyed"
    BY <1>1, <1>2 DEF Going, Stopping
  <2>3. ~finishStop2'
    BY <1>1, <1>2, <1>4 DEF Going, Stopping
  <2> QED BY <1>1, <1>2, <1>3, <1>4, <1>7, <2>1, <2>2, <2>3
          DEF Going, Stopping, AfterSetup, BeingStopped
<1>10. AnsweredIsClean'
  BY <1>1, <1>2, <1>4 DEF Going, AnsweredIsClean, stopping
<1>11. Negotiation' /\ SetupAwaitsHDCP'
  BY <1>1, <1>4, <1>7, NegotiationKept DEF hdcp, peer, IInv
<1>12. KeptAlive'
  BY <1>3, <1>4 DEF KeptAlive
<1> QED BY <1>7, <1>8, <1>9, <1>10, <1>11, <1>12 DEF IInv, Going

(* onSetupRequest.                                                         *)
LEMMA SetupStep ==
  ASSUME IInv, UNCHANGED peer, OnSetupRequest
  PROVE  IInv'
<1>1. /\ aborted = "no" /\ Handle("Data") /\ OneLess /\ Session \in SessionIDs /\ Met(Session)
      /\ mClientSessionID \in {Session, 0}
  BY SenderIsClient DEF OnSetupRequest, IsRequest
<1>2. UNCHANGED <<mClientSessionID, mResponseHandlers, teardownTimer, finishStop2,
                  finishPlay, hdcp, stopping, stopCalled, live>>
  BY DEF OnSetupRequest
<1>3. /\ sent \in [SessionIDs -> Seq(Wire)] /\ mResponseHandlers \subseteq SessionIDs \X Requests
      /\ keepAlives \subseteq SessionIDs /\ teardownTimer \in BOOLEAN
      /\ finishPlay \in BOOLEAN /\ displayError \in BOOLEAN
  BY DEF IInv, QueueType, TypeOK
<1>4. CASE /\ Session # mClientSessionID /\ aborted' = "onSetupRequest"
           /\ UNCHANGED <<mState, mPlaybackSessionID, playback, mReaperPending,
                          keepAlives, sent, displayError>>
  <2>1. AbortsOnlyWhenCutOff'
    BY <1>1, <1>2, <1>4 DEF AbortsOnlyWhenCutOff, CutOff
  <2>2. UNCHANGED <<client, timers>>
    BY <1>2, <1>4 DEF client, timers
  <2> QED BY <1>1, <1>2, <1>3, <1>4, <2>1, <2>2, AbortQuietly
<1>5. CASE Session = mClientSessionID /\ RefuseSetup
  <2>1. /\ sent' \in [SessionIDs -> Seq(Wire)]
        /\ \A s \in SessionIDs \ {Session} : sent'[s] = sent[s]
    BY <1>1, <1>5, AnswerType DEF Unasked, RefuseSetup
  <2>2. UNCHANGED <<mState, client, playback, mReaperPending, keepAlives, aborted>>
        /\ displayError' = TRUE
    BY <1>2, <1>5 DEF client, RefuseSetup
  <2>3. Quiet(Session)
    BY <1>1, <1>2, <1>3, <2>1, <2>2 DEF Quiet
  <2> QED BY <2>3, QuietStep
<1>6. CASE /\ Session = mClientSessionID /\ ~mPlaybackSessionID
           /\ mPlaybackSessionID' = TRUE
           /\ playback' = "ready"
           /\ Send(Session, <<Ok("SETUP")>>)
           /\ IF Session \in live
                THEN /\ mState' = "AWAITING_CLIENT_PLAY"
                     /\ mReaperPending' = TRUE
                     /\ keepAlives' = keepAlives \cup {Session}
                ELSE UNCHANGED <<mState, mReaperPending, keepAlives>>
           /\ Show(Session \notin live)
           /\ UNCHANGED aborted
  <2>1. displayError' \in BOOLEAN
    BY <1>3, <1>6 DEF Show
  <2> QED BY <1>6, <2>1, SetupServed
<1> QED BY <1>4, <1>5, <1>6 DEF OnSetupRequest

-----------------------------------------------------------------------------
(* The requests that lead to SETUP                                         *)

(* A step of the negotiation, which may also start HDCP.                   *)
LEMMA NegotiateStep ==
  ASSUME IInv, NEW S, Aside(S),
         UNCHANGED <<mState, client, playback, timers, finishPlay, mSessionID, replies,
                     stopCalled, live>>,
         displayError' \in BOOLEAN, mUsingHDCP' \in BOOLEAN,
         mHDCPInitializationComplete' \in BOOLEAN, mSetupTriggerDeferred' \in BOOLEAN,
         \/ UNCHANGED mHDCP
         \/ /\ mHDCP # "shutting down" /\ ~(replies > 0)
            /\ mHDCP' \in {"none", "not started", "starting", "ready"},
         mResponseHandlers' \subseteq SessionIDs \X Requests,
         \A s \in SessionIDs : <<s, "M16">> \in mResponseHandlers =>
           <<s, "M16">> \in mResponseHandlers',
         Negotiation', SetupAwaitsHDCP'
  PROVE  IInv'
<1>1. /\ Members(queue') \subseteq Members(queue) /\ Going /\ aborted = "no"
      /\ QueueType' /\ QueueInOrder' /\ OneClient' /\ Connections' /\ SessionsAccounted'
      /\ AbortsOnlyWhenCutOff'
  BY AsideStep DEF Aside
<1>2. UNCHANGED <<mClientSessionID, mPlaybackSessionID, mReaperPending, keepAlives,
                  teardownTimer, finishStop2>>
  BY DEF client, timers
<1>3. TypeOK'
  <2>1. Flags'
    BY <1>2 DEF IInv, TypeOK, Flags
  <2>2. Names'
    BY DEF IInv, TypeOK, Names, States
  <2>3. Numbers'
    BY <1>2 DEF IInv, TypeOK, Numbers
  <2> QED BY <2>1, <2>2, <2>3 DEF TypeOK, Flags, Names, Numbers
<1>4. Stopping' /\ AnsweredIsClean'
  <2>1. CASE UNCHANGED mHDCP
    BY <1>1, <1>2, <2>1, StoppingKept
  <2>2. CASE /\ mHDCP # "shutting down" /\ ~(replies > 0)
             /\ mHDCP' \in {"none", "not started", "starting", "ready"}
    <3>1. mHDCP' # "shutting down"
      BY <2>2
    <3>2. Stopping'
      BY <1>1, <1>2, <2>2, <3>1, HDCPStarts
    <3>3. AnsweredIsClean'
      BY <2>2 DEF AnsweredIsClean
    <3> QED BY <3>2, <3>3
  <2> QED BY <2>1, <2>2
<1>5. KeptAlive'
  <2>1. mClientSessionID \in SessionIDs \cup {0}
    BY DEF IInv, TypeOK
  <2> QED BY <1>1, <1>2, <2>1 DEF Going, KeptAlive
<1> QED BY <1>1, <1>3, <1>4, <1>5 DEF IInv, Going

(* Only the client negotiates.                                             *)
LEMMA OnlyOneNegotiates ==
  ASSUME Going, NEW s \in SessionIDs, Met(s), NEW t \in SessionIDs, t # s
  PROVE  /\ ~Options(t)
         /\ \A req \in Requests : <<t, req>> \notin mResponseHandlers
         /\ asked[t] \in Nat => asked[t] = 0
<1>1. ~Met(t)
  BY DEF Going, OneClient
<1>2. /\ ~(asked[t] > 0)
      /\ \A req \in Requests : <<t, req>> \notin mResponseHandlers
      /\ \A m \in Members(queue) : m.what # "Data" \/ m.session # t
  BY <1>1 DEF Met
<1>3. ~Options(t)
  BY <1>2 DEF Options, IsOptions
<1>4. asked[t] \in Nat => asked[t] = 0
  BY <1>2
<1> QED BY <1>2, <1>3, <1>4

(* onOptionsRequest.                                                       *)
LEMMA OptionsStep ==
  ASSUME IInv, UNCHANGED peer, OnOptionsRequest
  PROVE  IInv'
<1>1. /\ aborted = "no" /\ Handle("Data") /\ OneLess /\ Session \in SessionIDs /\ Met(Session)
      /\ mClientSessionID \in {Session, 0} /\ Going
  BY SenderIsClient DEF OnOptionsRequest, IsRequest, IInv
<1>2. /\ Head(queue) \in Members(queue) /\ IsOptions(Head(queue))
      /\ Members(queue') \subseteq Members(queue)
      /\ \A m \in Members(queue') : Fits(Head(queue), m)
  BY <1>1, Handled DEF OnOptionsRequest, IsRequest, IsOptions
<1>3. Options(Session) /\ \A s \in SessionIDs : Options(s)' => Options(s) /\ s # Session
  BY <1>2 DEF Options, Fits, Session
<1>4. /\ UNCHANGED <<mState, client, playback, timers, finishPlay, hdcp, stopping,
                     stopCalled, aborted, live>>
      /\ Send(Session, <<Ok("OPTIONS"), Ask("M3")>>)
      /\ mResponseHandlers' \in {mResponseHandlers, mResponseHandlers \cup {<<Session, "M3">>}}
  BY DEF OnOptionsRequest
<1>5. /\ sent' \in [SessionIDs -> Seq(Wire)]
      /\ \A s \in SessionIDs \ {Session} : sent'[s] = sent[s]
  BY <1>4, SendType, WireType
<1>6. /\ mResponseHandlers \subseteq SessionIDs \X Requests /\ displayError \in BOOLEAN
      /\ mUsingHDCP \in BOOLEAN /\ mHDCPInitializationComplete \in BOOLEAN
      /\ mSetupTriggerDeferred \in BOOLEAN
  BY DEF IInv, TypeOK
<1>7. /\ UNCHANGED <<mClientSessionID, mUsingHDCP, mHDCPInitializationComplete,
                     mSetupTriggerDeferred, mSessionID, replies, mHDCP, asked>>
      /\ displayError' \in BOOLEAN
  BY <1>4, <1>6 DEF client, hdcp, stopping, peer, OnOptionsRequest, Show
<1>8. Aside(Session)
  BY <1>1, <1>4, <1>5, <1>7 DEF Aside
<1>9. Negotiation'
  <2>1. PICK c \in SessionIDs : c = Session
    BY <1>1
  <2>2. /\ asked[c] # 0 /\ ~mSetupTriggerDeferred
        /\ \A req \in {"M3", "M4", "M5"} : <<c, req>> \notin mResponseHandlers
    BY <1>1, <1>3, <2>1 DEF Going, Negotiation, NotBefore
  <2>3. /\ <<c, "M4">> \notin mResponseHandlers' /\ <<c, "M5">> \notin mResponseHandlers'
        /\ ~Options(c)'
    BY <1>3, <1>4, <2>1, <2>2
  <2>4. \A s \in SessionIDs \ {c}, req \in {"M3", "M4", "M5"} :
          <<s, req>> \in mResponseHandlers' => <<s, req>> \in mResponseHandlers
    BY <1>4, <2>1
  <2> QED BY <1>1, <1>3, <1>7, <2>2, <2>3, <2>4 DEF Going, Negotiation, NotBefore
<1>10. SetupAwaitsHDCP'
  BY <1>4, <1>7 DEF IInv, SetupAwaitsHDCP
<1>11. mResponseHandlers' \subseteq SessionIDs \X Requests
  BY <1>1, <1>4, <1>6 DEF Requests
<1>12. \A s \in SessionIDs : <<s, "M16">> \in mResponseHandlers =>
         <<s, "M16">> \in mResponseHandlers'
  BY <1>4
<1> QED BY <1>4, <1>6, <1>7, <1>8, <1>9, <1>10, <1>11, <1>12, NegotiateStep

(* The answer of the dongle to one of these requests.                      *)
LEMMA Responded ==
  ASSUME IInv, NEW req \in Requests, IsResponse(req)
  PROVE  /\ aborted = "no" /\ Handle("Data") /\ OneLess /\ Session \in SessionIDs
         /\ Met(Session) /\ mClientSessionID \in {Session, 0} /\ Going
         /\ Members(queue') \subseteq Members(queue)
         /\ <<Session, req>> \in mResponseHandlers
         /\ Answered(req) \subseteq SessionIDs \X Requests
         /\ \A s \in SessionIDs, r \in Requests :
              <<s, r>> \in Answered(req) <=>
                <<s, r>> \in mResponseHandlers /\ <<s, r>> # <<Session, req>>
<1>1. Handle("Data") /\ <<Session, req>> \in mResponseHandlers
  BY DEF IsResponse
<1>2. mResponseHandlers \subseteq SessionIDs \X Requests
  BY DEF IInv, TypeOK
<1>3. Members(queue') \subseteq Members(queue) /\ Going
  BY <1>1, Handled
<1> QED BY <1>1, <1>2, <1>3, SenderIsClient DEF Answered

(* A refusal ends the negotiation.                                         *)
LEMMA RefusedStep ==
  ASSUME IInv, NEW req \in {"M3", "M4"}, IsResponse(req), UNCHANGED peer,
         mResponseHandlers' = Answered(req), displayError' = TRUE,
         UNCHANGED <<mState, client, playback, timers, finishPlay, hdcp, stopping, sent,
                     stopCalled, live, aborted>>
  PROVE  IInv'
<1>1. /\ aborted = "no" /\ OneLess /\ Session \in SessionIDs /\ Met(Session) /\ Going
      /\ mResponseHandlers' \subseteq SessionIDs \X Requests
      /\ \A s \in SessionIDs, r \in Requests :
           <<s, r>> \in mResponseHandlers' <=>
             <<s, r>> \in mResponseHandlers /\ <<s, r>> # <<Session, req>>
  BY Responded DEF Requests
<1>2. /\ sent \in [SessionIDs -> Seq(Wire)] /\ finishPlay \in BOOLEAN /\ teardownTimer \in BOOLEAN
      /\ keepAlives \subseteq SessionIDs /\ mClientSessionID \in SessionIDs \cup {0}
      /\ mResponseHandlers \subseteq SessionIDs \X Requests
  BY DEF IInv, QueueType, TypeOK
<1>3. <<mClientSessionID, "M16">> \in mResponseHandlers =>
        <<mClientSessionID, "M16">> \in mResponseHandlers'
  BY <1>1, <1>2 DEF Requests
<1>4. UNCHANGED <<mReaperPending, keepAlives, teardownTimer, finishStop2>>
  BY DEF timers
<1>5. Quiet(Session)
  BY <1>1, <1>2, <1>3, <1>4 DEF Quiet
<1> QED BY <1>5, QuietStep

(* makeHDCP changes nothing for a dongle that is not told to SETUP yet.    *)
LEMMA NobodyTriggered ==
  ASSUME Going, NEW s \in SessionIDs, Met(s), <<s, "M3">> \in mResponseHandlers
  PROVE  \A t \in SessionIDs : <<t, "M5">> \notin mResponseHandlers
<1>1. <<s, "M5">> \notin mResponseHandlers
  BY DEF Going, Negotiation
<1>2. \A t \in SessionIDs \ {s} : <<t, "M5">> \notin mResponseHandlers
  BY OnlyOneNegotiates DEF Requests
<1> QED BY <1>1, <1>2

(* onReceiveM3Response.                                                    *)
LEMMA M3Step ==
  ASSUME IInv, UNCHANGED peer, OnM3Response
  PROVE  IInv'
<1>1. PICK c \in SessionIDs : c = Session
  BY HandledData DEF OnM3Response, IsResponse
<1>2. /\ aborted = "no" /\ Handle("Data") /\ OneLess /\ Met(c)
      /\ mClientSessionID \in {c, 0} /\ Going /\ Members(queue') \subseteq Members(queue)
      /\ <<c, "M3">> \in mResponseHandlers /\ Answered("M3") \subseteq SessionIDs \X Requests
      /\ \A s \in SessionIDs, r \in Requests :
           <<s, r>> \in Answered("M3") <=>
             <<s, r>> \in mResponseHandlers /\ <<s, r>> # <<c, "M3">>
  BY <1>1, Responded DEF OnM3Response, Requests
<1>3. UNCHANGED <<mState, client, playback, timers, finishPlay, mSessionID, replies,
                  mHDCPInitializationComplete, mSetupTriggerDeferred, stopCalled, live>>
  BY DEF OnM3Response
<1>4. /\ mResponseHandlers \subseteq SessionIDs \X Requests /\ displayError \in BOOLEAN
      /\ mUsingHDCP \in BOOLEAN /\ mHDCPInitializationComplete \in BOOLEAN
      /\ mSetupTriggerDeferred \in BOOLEAN /\ finishPlay \in BOOLEAN
      /\ sent \in [SessionIDs -> Seq(Wire)]
      /\ mHDCP \in {"none", "not started", "starting", "ready", "shutting down"}
  BY DEF IInv, TypeOK, QueueType
<1>5. CASE ~IsOk
  <2>1. /\ mResponseHandlers' = Answered("M3") /\ displayError' = TRUE
        /\ mUsingHDCP' \in {mUsingHDCP, SupportsHDCP}
        /\ UNCHANGED <<mHDCP, sent, aborted>>
    BY <1>5 DEF OnM3Response
  <2>2. mUsingHDCP' \in BOOLEAN
    BY <1>4, <2>1, SourceAssumption
  <2>3. UNCHANGED <<mClientSessionID, asked>>
    BY <1>3 DEF client, peer
  <2>4. Aside(c)
    BY <1>2, <1>3, <1>4, <2>1, <2>3 DEF Aside
  <2>5. \A t \in SessionIDs : <<t, "M5">> \notin mResponseHandlers'
    <3>1. \A t \in SessionIDs : <<t, "M5">> \notin mResponseHandlers
      BY <1>2, NobodyTriggered
    <3> QED BY <1>2, <2>1, <3>1 DEF Requests
  <2>6. SetupAwaitsHDCP'
    BY <1>3, <2>5 DEF IInv, SetupAwaitsHDCP
  <2>7. Negotiation'
    <3>1. \A s \in SessionIDs, r \in {"M3", "M4", "M5"} :
            <<s, r>> \in mResponseHandlers' => <<s, r>> \in mResponseHandlers
      BY <1>2, <2>1 DEF Requests
    <3>2. \A s \in SessionIDs : Options(s)' => Options(s)
      BY <1>2 DEF Options
    <3> QED BY <1>2, <1>3, <2>3, <3>1, <3>2 DEF Going, Negotiation, NotBefore
  <2>8. \A s \in SessionIDs : <<s, "M16">> \in mResponseHandlers =>
          <<s, "M16">> \in mResponseHandlers'
    BY <1>2, <2>1 DEF Requests
  <2> QED BY <1>2, <1>3, <1>4, <2>1, <2>2, <2>4, <2>6, <2>7, <2>8, NegotiateStep
<1>6. CASE IsOk
  <2>1. MakeHDCP
    BY <1>6 DEF OnM3Response
  <2>2. \A t \in SessionIDs : <<t, "M5">> \notin mResponseHandlers
    BY <1>2, NobodyTriggered
  <2>3. mUsingHDCP' \in BOOLEAN
    BY <2>1 DEF MakeHDCP
  <2>4. mHDCP' = mHDCP \/ mHDCP' \in {"none", "not started", "starting"}
    BY <2>1 DEF MakeHDCP
  <2>5. CASE c # mClientSessionID
    <3>1. aborted' = "sendM4" /\ UNCHANGED <<mResponseHandlers, sent, displayError>>
      BY <1>1, <1>6, <2>5 DEF OnM3Response
    <3>2. TypeOK'
      <4>1. Flags'
        BY <1>3, <2>3, <3>1 DEF IInv, TypeOK, Flags, client, timers
      <4>2. Names'
        BY <1>3, <1>4, <2>4 DEF IInv, TypeOK, Names, States
      <4>3. Numbers'
        BY <1>3, <3>1 DEF IInv, TypeOK, Numbers, client, timers
      <4> QED BY <4>1, <4>2, <4>3 DEF TypeOK, Flags, Names, Numbers
    <3>3. QueueType'
      <4>1. queue' \in Seq(MsgType)
        BY <1>2, OneLessQueue
      <4> QED BY <3>1, <4>1 DEF IInv, QueueType, peer
    <3>4. SetupAwaitsHDCP'
      BY <1>3, <2>2, <3>1 DEF IInv, SetupAwaitsHDCP
    <3>5. AbortsOnlyWhenCutOff'
      <4>1. mClientSessionID' = 0
        BY <1>2, <1>3, <2>5 DEF client
      <4> QED BY <3>1, <4>1 DEF AbortsOnlyWhenCutOff, CutOff
    <3> QED BY <3>1, <3>2, <3>3, <3>4, <3>5, AbortStep
  <2>6. CASE c = mClientSessionID
    <3>1. c # 0 /\ c \in live
      BY <1>2, <2>6, NoSession DEF Going, Connections
    <3>2. /\ Send(Session, <<Ask("M4")>>) /\ displayError' \in BOOLEAN
          /\ mResponseHandlers' = Answered("M3") \cup {<<c, "M4">>} /\ UNCHANGED aborted
      BY <1>1, <1>4, <1>6, <2>6, <3>1 DEF OnM3Response, Show
    <3>3. /\ sent' \in [SessionIDs -> Seq(Wire)]
          /\ \A s \in SessionIDs \ {c} : sent'[s] = sent[s]
      BY <1>1, <1>2, <3>2, AnswerType DEF Requests
    <3>4. mHDCP # "shutting down" /\ ~(replies > 0)
      BY <1>2, <2>6, <3>1 DEF Going, Stopping, AnsweredIsClean
    <3>5. UNCHANGED <<mClientSessionID, asked>>
      BY <1>3 DEF client, peer
    <3>6. /\ mResponseHandlers' \subseteq SessionIDs \X Requests
          /\ \A s \in SessionIDs, r \in Requests :
               <<s, r>> \in mResponseHandlers' <=>
                 \/ <<s, r>> \in mResponseHandlers /\ <<s, r>> # <<c, "M3">>
                 \/ <<s, r>> = <<c, "M4">>
      <4>1. <<c, "M4">> \in SessionIDs \X Requests
        BY DEF Requests
      <4>2. ASSUME NEW s \in SessionIDs, NEW r \in Requests
            PROVE  <<s, r>> \in mResponseHandlers' <=>
                     <<s, r>> \in Answered("M3") \/ <<s, r>> = <<c, "M4">>
        BY <3>2
      <4> QED BY <1>2, <3>2, <4>1, <4>2
    <3>7. Aside(c)
      BY <1>2, <1>3, <3>2, <3>3, <3>5, <3>6 DEF Aside
    <3>8. Negotiation'
      <4>1. asked[c] # 0 /\ ~Options(c) /\ ~mSetupTriggerDeferred
        BY <1>2 DEF Going, Negotiation, NotBefore
      <4>2. \A s \in SessionIDs : Options(s)' => Options(s)
        BY <1>2 DEF Options
      <4>3. /\ <<c, "M3">> \notin mResponseHandlers' /\ <<c, "M5">> \notin mResponseHandlers'
        BY <2>2, <3>6 DEF Requests
      <4>4. \A s \in SessionIDs \ {c}, req \in {"M3", "M4", "M5"} :
              <<s, req>> \in mResponseHandlers' => <<s, req>> \in mResponseHandlers
        BY <3>6 DEF Requests
      <4> QED BY <1>2, <1>3, <3>5, <4>1, <4>2, <4>3, <4>4 DEF Going, Negotiation, NotBefore
    <3>9. SetupAwaitsHDCP'
      BY <1>3, <2>2, <3>6 DEF IInv, SetupAwaitsHDCP, Requests
    <3>10. \A s \in SessionIDs : <<s, "M16">> \in mResponseHandlers =>
             <<s, "M16">> \in mResponseHandlers'
      BY <3>6 DEF Requests
    <3>11. UNCHANGED mHDCP \/ /\ mHDCP # "shutting down" /\ ~(replies > 0)
                              /\ mHDCP' \in {"none", "not started", "starting", "ready"}
      BY <2>4, <3>4
    <3>12. mHDCPInitializationComplete' \in BOOLEAN /\ mSetupTriggerDeferred' \in BOOLEAN
      BY <1>3, <1>4
    <3> QED BY <1>3, <2>3, <3>2, <3>6, <3>7, <3>8, <3>9, <3>10, <3>11, <3>12, NegotiateStep
  <2> QED BY <2>5, <2>6
<1> QED BY <1>5, <1>6

(* onReceiveM4Response: SETUP is triggered, or that is deferred.           *)
LEMMA M4Step ==
  ASSUME IInv, UNCHANGED peer, OnM4Response
  PROVE  IInv'
<1>1. PICK c \in SessionIDs : c = Session
  BY HandledData DEF OnM4Response, IsResponse
<1>2. /\ aborted = "no" /\ Handle("Data") /\ OneLess /\ Met(c)
      /\ mClientSessionID \in {c, 0} /\ Going /\ Members(queue') \subseteq Members(queue)
      /\ <<c, "M4">> \in mResponseHandlers /\ Answered("M4") \subseteq SessionIDs \X Requests
      /\ \A s \in SessionIDs, r \in Requests :
           <<s, r>> \in Answered("M4") <=>
             <<s, r>> \in mResponseHandlers /\ <<s, r>> # <<c, "M4">>
  BY <1>1, Responded DEF OnM4Response, Requests
<1>3. UNCHANGED <<mState, client, playback, timers, finishPlay, mUsingHDCP,
                  mHDCPInitializationComplete, stopping, stopCalled, aborted, live>>
  BY DEF OnM4Response
<1>4. /\ mResponseHandlers \subseteq SessionIDs \X Requests /\ displayError \in BOOLEAN
      /\ mUsingHDCP \in BOOLEAN /\ mHDCPInitializationComplete \in BOOLEAN
      /\ mSetupTriggerDeferred \in BOOLEAN
      /\ sent \in [SessionIDs -> Seq(Wire)] /\ asked[c] \in Nat
  BY DEF IInv, TypeOK, QueueType
<1>5. UNCHANGED <<mClientSessionID, mSessionID, replies, mHDCP, asked>>
  BY <1>3 DEF client, stopping, peer
<1>6. /\ asked[c] # 0 /\ ~Options(c) /\ ~mSetupTriggerDeferred
      /\ <<c, "M3">> \notin mResponseHandlers /\ <<c, "M5">> \notin mResponseHandlers
  BY <1>2 DEF Going, Negotiation, NotBefore
<1>7. \A s \in SessionIDs : Options(s)' => Options(s)
  BY <1>2 DEF Options
<1>8. CASE ~IsOk
  <2>1. /\ mResponseHandlers' = Answered("M4") /\ displayError' = TRUE
        /\ UNCHANGED <<mSetupTriggerDeferred, sent>> /\ IsResponse("M4")
    BY <1>8 DEF OnM4Response
  <2>2. UNCHANGED hdcp
    BY <1>3, <2>1 DEF hdcp
  <2> QED BY <1>3, <2>1, <2>2, RefusedStep
<1>9. CASE IsOk /\ mUsingHDCP /\ ~mHDCPInitializationComplete
  <2>1. /\ mSetupTriggerDeferred' = TRUE /\ mResponseHandlers' = Answered("M4")
        /\ UNCHANGED <<sent, displayError>>
    BY <1>9 DEF OnM4Response
  <2>2. /\ mResponseHandlers' \subseteq SessionIDs \X Requests
        /\ \A s \in SessionIDs, r \in Requests :
             <<s, r>> \in mResponseHandlers' <=>
               <<s, r>> \in mResponseHandlers /\ <<s, r>> # <<c, "M4">>
    BY <1>2, <2>1
  <2>3. Aside(c)
    BY <1>2, <1>3, <1>4, <1>5, <2>1, <2>2 DEF Aside
  <2>4. Negotiation'
    <3>1. asked[c]' > 0
      BY <1>4, <1>5, <1>6
    <3>2. NotBefore(c)'
      BY <1>6, <1>7, <2>2 DEF NotBefore, Requests
    <3>3. \A s \in SessionIDs \ {c} : NotBefore(s)'
      BY <1>2, <1>7, <2>2, OnlyOneNegotiates DEF NotBefore, Requests
    <3>4. \A s \in SessionIDs, req \in {"M3", "M4", "M5"} :
            <<s, req>> \in mResponseHandlers' => <<s, req>> \in mResponseHandlers
      BY <2>2 DEF Requests
    <3> QED BY <1>2, <1>5, <1>7, <3>1, <3>2, <3>3, <3>4 DEF Going, Negotiation, NotBefore
  <2>5. SetupAwaitsHDCP'
    BY <1>3, <1>9, <2>2 DEF IInv, SetupAwaitsHDCP, Requests
  <2>6. \A s \in SessionIDs : <<s, "M16">> \in mResponseHandlers =>
          <<s, "M16">> \in mResponseHandlers'
    BY <2>2 DEF Requests
  <2>7. /\ displayError' \in BOOLEAN /\ mUsingHDCP' \in BOOLEAN
        /\ mHDCPInitializationComplete' \in BOOLEAN /\ mSetupTriggerDeferred' \in BOOLEAN
    BY <1>3, <1>4, <2>1
  <2> QED BY <1>3, <1>5, <2>2, <2>3, <2>4, <2>5, <2>6, <2>7, NegotiateStep
<1>10. CASE IsOk /\ ~(mUsingHDCP /\ ~mHDCPInitializationComplete)
  <2>1. /\ Send(Session, <<Ask("M5")>>) /\ UNCHANGED mSetupTriggerDeferred
        /\ displayError' \in BOOLEAN
        /\ mResponseHandlers' \in {Answered("M4"), Answered("M4") \cup {<<c, "M5">>}}
    BY <1>1, <1>4, <1>10 DEF OnM4Response, Show
  <2>2. /\ sent' \in [SessionIDs -> Seq(Wire)]
        /\ \A s \in SessionIDs \ {c} : sent'[s] = sent[s]
    BY <1>1, <1>2, <2>1, AnswerType DEF Requests
  <2>3. /\ mResponseHandlers' \subseteq SessionIDs \X Requests
        /\ \A s \in SessionIDs, r \in Requests :
             <<s, r>> \in mResponseHandlers' =>
               \/ <<s, r>> \in mResponseHandlers /\ <<s, r>> # <<c, "M4">>
               \/ <<s, r>> = <<c, "M5">>
        /\ \A s \in SessionIDs, r \in Requests :
             <<s, r>> \in mResponseHandlers /\ <<s, r>> # <<c, "M4">> =>
               <<s, r>> \in mResponseHandlers'
    <3>1. <<c, "M5">> \in SessionIDs \X Requests
      BY DEF Requests
    <3>2. mResponseHandlers' \subseteq SessionIDs \X Requests
      BY <1>2, <2>1, <3>1
    <3>3. ASSUME NEW s \in SessionIDs, NEW r \in Requests
          PROVE  /\ <<s, r>> \in mResponseHandlers' =>
                      <<s, r>> \in Answered("M4") \/ <<s, r>> = <<c, "M5">>
                 /\ <<s, r>> \in Answered("M4") => <<s, r>> \in mResponseHandlers'
      BY <2>1
    <3> QED BY <1>2, <3>2, <3>3
  <2>4. Aside(c)
    BY <1>2, <1>3, <1>5, <2>2, <2>3 DEF Aside
  <2>5. Negotiation'
    <3>1. /\ <<c, "M3">> \notin mResponseHandlers' /\ <<c, "M4">> \notin mResponseHandlers'
      BY <1>6, <2>3 DEF Requests
    <3>2. \A s \in SessionIDs \ {c}, req \in {"M3", "M4", "M5"} :
            <<s, req>> \in mResponseHandlers' => <<s, req>> \in mResponseHandlers
      BY <2>3 DEF Requests
    <3> QED BY <1>2, <1>5, <1>6, <1>7, <2>1, <3>1, <3>2 DEF Going, Negotiation, NotBefore
  <2>6. SetupAwaitsHDCP'
    BY <1>3, <1>10, <2>1 DEF IInv, SetupAwaitsHDCP
  <2>7. \A s \in SessionIDs : <<s, "M16">> \in mResponseHandlers =>
          <<s, "M16">> \in mResponseHandlers'
    BY <2>3 DEF Requests
  <2>8. /\ mUsingHDCP' \in BOOLEAN
        /\ mHDCPInitializationComplete' \in BOOLEAN /\ mSetupTriggerDeferred' \in BOOLEAN
    BY <1>3, <1>4, <2>1
  <2> QED BY <1>3, <1>5, <2>1, <2>3, <2>4, <2>5, <2>6, <2>7, <2>8, NegotiateStep
<1> QED BY <1>8, <1>9, <1>10

(* HDCP_INITIALIZATION_COMPLETE: a trigger that was deferred is sent.      *)
LEMMA HDCPReadyStep ==
  ASSUME IInv, UNCHANGED peer, OnHDCPReady
  PROVE  IInv'
<1>1. /\ aborted = "no" /\ OneLess /\ Going /\ Members(queue') \subseteq Members(queue)
  BY DEF OnHDCPReady, Due, OneLess, IInv
<1>2. /\ UNCHANGED <<mState, client, playback, timers, finishPlay, mUsingHDCP, mSessionID,
                     replies, stopCalled, displayError, aborted, live>>
      /\ mHDCP = "starting" /\ mHDCP' = "ready"
      /\ mHDCPInitializationComplete' = TRUE /\ mSetupTriggerDeferred' = FALSE
  BY DEF OnHDCPReady
<1>3. /\ mResponseHandlers \subseteq SessionIDs \X Requests /\ displayError \in BOOLEAN
      /\ mUsingHDCP \in BOOLEAN /\ mClientSessionID \in SessionIDs \cup {0}
      /\ live \subseteq SessionIDs
      /\ sent \in [SessionIDs -> Seq(Wire)] /\ asked \in [SessionIDs -> Nat]
  BY DEF IInv, TypeOK, QueueType
<1>4. UNCHANGED <<mClientSessionID, asked>>
  BY <1>2 DEF client, peer
<1>5. \A s \in SessionIDs : Options(s)' => Options(s)
  BY <1>1 DEF Options
<1>6. mHDCP # "shutting down" /\ ~(replies > 0)
  BY <1>1, <1>2 DEF Going, AnsweredIsClean
<1>7. /\ displayError' \in BOOLEAN /\ mUsingHDCP' \in BOOLEAN
      /\ mHDCPInitializationComplete' \in BOOLEAN /\ mSetupTriggerDeferred' \in BOOLEAN
      /\ mHDCP' \in {"none", "not started", "starting", "ready"}
  BY <1>2, <1>3
<1>8. SetupAwaitsHDCP'
  BY <1>2 DEF SetupAwaitsHDCP
<1>9. CASE mSetupTriggerDeferred /\ mClientSessionID \in live
  <2> DEFINE c == mClientSessionID
  <2>1. /\ Send(c, <<Ask("M5")>>) /\ mResponseHandlers' = mResponseHandlers \cup {<<c, "M5">>}
        /\ c \in SessionIDs /\ Met(c)
    BY <1>3, <1>9 DEF OnHDCPReady, SendRequest, Met
  <2>2. /\ sent' \in [SessionIDs -> Seq(Wire)]
        /\ \A s \in SessionIDs \ {c} : sent'[s] = sent[s]
    <3>1. <<Ask("M5")>> \in Seq(Wire)
      BY WireType DEF Requests
    <3> QED BY <2>1, <3>1, SendType
  <2>3. /\ mResponseHandlers' \subseteq SessionIDs \X Requests
        /\ \A s \in SessionIDs, r \in Requests :
             <<s, r>> \in mResponseHandlers' =>
               <<s, r>> \in mResponseHandlers \/ <<s, r>> = <<c, "M5">>
        /\ mResponseHandlers \subseteq mResponseHandlers'
    BY <1>3, <2>1 DEF Requests
  <2>4. Aside(c)
    BY <1>1, <1>2, <1>4, <2>1, <2>2, <2>3 DEF Aside
  <2>5. asked[c] # 0
    <3>1. PICK t \in SessionIDs : asked[t] > 0
      BY <1>1, <1>9 DEF Going, Negotiation
    <3>2. t = c
      BY <1>1, <2>1, <3>1 DEF Met, Going, OneClient
    <3> QED BY <1>3, <3>1, <3>2
  <2>6. Negotiation'
    <3>1. \A s \in SessionIDs : NotBefore(s)
      BY <1>1, <1>9 DEF Going, Negotiation
    <3>2. \A s \in SessionIDs : NotBefore(s)'
      BY <1>5, <2>3, <3>1 DEF NotBefore, Requests
    <3>3. \A s \in SessionIDs : <<s, "M5">> \in mResponseHandlers' =>
            <<s, "M5">> \in mResponseHandlers \/ s = c
      BY <2>3 DEF Requests
    <3>4. \A s \in SessionIDs : asked[s] = 0 => <<s, "M5">> \notin mResponseHandlers
      BY <1>1 DEF Going, Negotiation
    <3> QED BY <1>2, <1>4, <2>5, <3>2, <3>3, <3>4 DEF Negotiation, NotBefore
  <2> HIDE DEF c
  <2> QED BY <1>2, <1>6, <1>7, <1>8, <2>3, <2>4, <2>6, NegotiateStep
<1>10. CASE ~(mSetupTriggerDeferred /\ mClientSessionID \in live)
  <2>1. UNCHANGED <<sent, mResponseHandlers>>
    BY <1>10 DEF OnHDCPReady, SendRequest, Send
  <2>2. Aside(0)
    BY <1>1, <1>2, <1>3, <1>4, <2>1, NoSession DEF Aside
  <2>3. Negotiation'
    BY <1>1, <1>2, <1>4, <1>5, <2>1 DEF Going, Negotiation, NotBefore
  <2> QED BY <1>2, <1>3, <1>6, <1>7, <1>8, <2>1, <2>2, <2>3, NegotiateStep
<1> QED BY <1>9, <1>10

-----------------------------------------------------------------------------
(* Messages the source posts to itself                                     *)

(* The source posts a message to itself.                                   *)
LEMMA PostStep ==
  ASSUME IInv, aborted = "no",
         NEW what \in {"Stop", "SessionEstablished", "SessionDestroyed"},
         queue' = Append(queue, Msg(what, 0, "")),
         \A m \in Members(queue) : Fits(m, Msg(what, 0, "")),
         UNCHANGED <<mState, client, mResponseHandlers, timers, hdcp, stopping, displayError,
                     aborted, live, sent, peer>>,
         finishPlay' \in BOOLEAN, stopCalled' \in BOOLEAN,
         playback' = playback \/ (playback = "destroying" /\ playback' = "destroyed"),
         Stopping'
  PROVE  IInv'
<1> DEFINE n == Msg(what, 0, "")
<1>1. /\ n \in MsgType /\ n.what = what /\ n.session = 0
      /\ what \notin {"ClientConnected", "Error", "Data"}
  BY DEF Msg, MsgType, Whats
<1>2. Going /\ queue \in Seq(MsgType) /\ Ordered(queue)
  BY DEF IInv, QueueType, Going, QueueInOrder
<1>3. /\ queue' \in Seq(MsgType) /\ Ordered(queue') /\ Members(queue') = Members(queue) \cup {n}
  BY <1>1, <1>2, QueueAppend
<1> HIDE DEF n
<1>4. QueueInOrder'
  BY <1>1, <1>2, <1>3 DEF Going, QueueInOrder, WellFormed
<1>5. UNCHANGED <<mClientSessionID, mPlaybackSessionID, mReaperPending, keepAlives, finishStop2,
                  mUsingHDCP, mHDCPInitializationComplete, mSetupTriggerDeferred, mSessionID,
                  mHDCP, replies, asked, dongle>>
  BY DEF client, timers, hdcp, stopping, peer
<1>6. \A s \in SessionIDs : Met(s)' <=> Met(s)
  BY <1>1, <1>3, <1>5 DEF Met
<1>7. \A s \in SessionIDs : Options(s)' <=> Options(s)
  BY <1>1, <1>3 DEF Options, IsOptions
<1>8. TypeOK'
  <2>1. Flags'
    BY <1>5 DEF IInv, TypeOK, Flags, timers
  <2>2. Names'
    BY <1>5 DEF IInv, TypeOK, Names, States
  <2>3. Numbers'
    BY <1>5 DEF IInv, TypeOK, Numbers
  <2> QED BY <2>1, <2>2, <2>3 DEF TypeOK, Flags, Names, Numbers
<1>9. QueueType'
  BY <1>3, <1>5 DEF IInv, QueueType
<1>10. OneClient'
  BY <1>2, <1>6 DEF Going, OneClient
<1>11. Connections'
  <2>1. \A m \in Members(queue') : m.what = "ClientConnected" =>
          /\ m.session \in SessionIDs /\ ~Met(m.session) /\ m.session \in live
          /\ dongle[m.session] # "absent"
    BY <1>1, <1>2, <1>3 DEF Going, Connections, QueueInOrder, WellFormed
  <2>2. \A s \in SessionIDs : dongle[s] = "absent" =>
          /\ s \notin live /\ ~Met(s)
          /\ \A m \in Members(queue') : m.session # s
    BY <1>1, <1>2, <1>3, NoSession DEF Going, Connections
  <2>3. mClientSessionID # 0 => mClientSessionID \in live
    BY <1>2 DEF Going, Connections
  <2> QED BY <1>5, <1>6, <2>1, <2>2, <2>3 DEF Connections
<1>12. Negotiation' /\ SetupAwaitsHDCP'
  <2>1. Negotiation'
    BY <1>2, <1>5, <1>7 DEF Going, Negotiation, NotBefore
  <2>2. SetupAwaitsHDCP'
    BY <1>5 DEF IInv, SetupAwaitsHDCP
  <2> QED BY <2>1, <2>2
<1>13. KeptAlive'
  BY <1>2, <1>5 DEF Going, KeptAlive
<1>14. AnsweredIsClean'
  BY <1>2, <1>5 DEF Going, AnsweredIsClean
<1>15. SessionsAccounted'
  <2>1. \A m \in Members(queue) : m \in Members(queue')
    BY <1>3
  <2> QED BY <1>2, <1>3, <1>5, <2>1, AccountedKept
<1>16. AbortsOnlyWhenCutOff'
  BY DEF AbortsOnlyWhenCutOff
<1> QED BY <1>4, <1>8, <1>9, <1>10, <1>11, <1>12, <1>13, <1>14, <1>15, <1>16 DEF IInv, Going

(* stop().                                                                 *)
LEMMA StopCallStep ==
  ASSUME IInv, UNCHANGED peer, StopCall
  PROVE  IInv'
<1>1. /\ aborted = "no" /\ ~stopCalled /\ stopCalled' = TRUE
      /\ queue' = Append(queue, Msg("Stop", 0, ""))
      /\ UNCHANGED <<mState, client, playback, mResponseHandlers, timers, finishPlay,
                     hdcp, stopping, displayError, aborted, live, sent>>
  BY DEF StopCall
<1>2. Going /\ finishPlay \in BOOLEAN
  BY <1>1 DEF IInv, TypeOK
<1>3. /\ \A m \in Members(queue) : m.what # "Stop"
      /\ mState \notin BeingStopped
  BY <1>1, <1>2 DEF Going, Stopping
<1>4. \A m \in Members(queue) : Fits(m, Msg("Stop", 0, ""))
  BY <1>3 DEF Fits, Msg, IsOptions
<1>5. queue \in Seq(MsgType) /\ Ordered(queue) /\ Msg("Stop", 0, "") \in MsgType
  BY <1>2 DEF IInv, QueueType, Going, QueueInOrder, Msg, MsgType, Whats
<1>6. Members(queue') = Members(queue) \cup {Msg("Stop", 0, "")}
  BY <1>1, <1>4, <1>5, QueueAppend
<1>7. Stopping'
  <2>1. UNCHANGED <<mPlaybackSessionID, mClientSessionID, mHDCP, replies, finishStop2>>
    BY <1>1 DEF client, timers, stopping
  <2>2. /\ Msg("Stop", 0, "").what = "Stop"
    BY DEF Msg
  <2> QED BY <1>1, <1>2, <1>3, <1>6, <2>1, <2>2 DEF Going, Stopping
<1> QED BY <1>1, <1>2, <1>4, <1>7, PostStep

(* finishPlay: the playback session says it is established, unless its end *)
(* was announced.                                                          *)
LEMMA PlaybackEstablishedStep ==
  ASSUME IInv, UNCHANGED peer, PlaybackEstablished
  PROVE  IInv'
<1>1. /\ aborted = "no" /\ finishPlay' = FALSE
      /\ UNCHANGED <<mState, client, playback, mResponseHandlers, timers, hdcp, stopping,
                     stopCalled, displayError, aborted, live, sent>>
  BY DEF PlaybackEstablished
<1>2. /\ Going /\ displayError \in BOOLEAN /\ stopCalled \in BOOLEAN /\ teardownTimer \in BOOLEAN
      /\ keepAlives \subseteq SessionIDs /\ mResponseHandlers \subseteq SessionIDs \X Requests
      /\ sent \in [SessionIDs -> Seq(Wire)]
  BY <1>1 DEF IInv, TypeOK, QueueType
<1>3. UNCHANGED <<mPlaybackSessionID, mClientSessionID, mSessionID, mHDCP, replies,
                  mReaperPending, keepAlives, teardownTimer, finishStop2>>
  BY <1>1 DEF client, timers, stopping
<1>4. CASE playback \in {"ready", "destroying"}
  <2> DEFINE n == Msg("SessionEstablished", 0, "")
  <2>1. queue' = Append(queue, n)
    BY <1>4 DEF PlaybackEstablished
  <2>2. \A m \in Members(queue) : m.what # "SessionDestroyed"
    BY <1>2, <1>4 DEF Going, Stopping
  <2>3. \A m \in Members(queue) : Fits(m, n)
    BY <2>2 DEF Fits, Msg, IsOptions
  <2>4. queue \in Seq(MsgType) /\ Ordered(queue) /\ n \in MsgType
    BY <1>2 DEF IInv, QueueType, Going, QueueInOrder, Msg, MsgType, Whats
  <2>5. Members(queue') = Members(queue) \cup {n} /\ n.what = "SessionEstablished"
    BY <2>1, <2>3, <2>4, QueueAppend DEF Msg
  <2>6. Stopping'
    BY <1>1, <1>2, <1>3, <1>4, <2>5 DEF Going, Stopping
  <2> QED BY <1>1, <1>2, <2>1, <2>3, <2>6, PostStep
<1>5. CASE playback \notin {"ready", "destroying"}
  <2>1. UNCHANGED queue
    BY <1>5 DEF PlaybackEstablished
  <2>2. Quiet(0)
    BY <1>1, <1>2, <1>3, <2>1, NoSession DEF Quiet, OneLess
  <2> QED BY <2>2, QuietStep
<1> QED BY <1>4, <1>5

(* All tracks have stopped: that is posted once.                           *)
LEMMA PlaybackDestroyedStep ==
  ASSUME IInv, UNCHANGED peer, PlaybackDestroyed
  PROVE  IInv'
<1> DEFINE n == Msg("SessionDestroyed", 0, "")
<1>1. /\ aborted = "no" /\ playback = "destroying" /\ playback' = "destroyed"
      /\ queue' = Append(queue, n)
      /\ UNCHANGED <<mState, client, mResponseHandlers, timers, finishPlay, hdcp, stopping,
                     stopCalled, displayError, aborted, live, sent>>
  BY DEF PlaybackDestroyed
<1>2. Going /\ stopCalled \in BOOLEAN /\ finishPlay \in BOOLEAN
  BY <1>1 DEF IInv, TypeOK
<1>3. UNCHANGED <<mPlaybackSessionID, mClientSessionID, mHDCP, replies, finishStop2>>
  BY <1>1 DEF client, timers, stopping
<1>4. \A m \in Members(queue) : m.what # "SessionDestroyed"
  BY <1>1, <1>2 DEF Going, Stopping
<1>5. \A m \in Members(queue) : Fits(m, n)
  BY <1>4 DEF Fits, Msg, IsOptions
<1>6. queue \in Seq(MsgType) /\ Ordered(queue) /\ n \in MsgType
  BY <1>2 DEF IInv, QueueType, Going, QueueInOrder, Msg, MsgType, Whats
<1>7. Members(queue') = Members(queue) \cup {n} /\ n.what = "SessionDestroyed"
  BY <1>1, <1>5, <1>6, QueueAppend DEF Msg
<1>8. Stopping'
  <2>1. mState = "STOPPING" /\ mState \notin AfterSetup /\ mHDCP # "shutting down"
    BY <1>1, <1>2 DEF Going, Stopping, AfterSetup
  <2> QED BY <1>1, <1>2, <1>3, <1>7, <2>1 DEF Going, Stopping
<1> QED BY <1>1, <1>2, <1>5, <1>8, PostStep

-----------------------------------------------------------------------------
(* Starting, losing the client, stopping                                   *)

(* start() only listens.                                                   *)
LEMMA StartStep ==
  ASSUME IInv, UNCHANGED peer, Start
  PROVE  IInv'
<1>1. /\ aborted = "no" /\ UNCHANGED queue /\ mState = "INITIALIZED" /\ ~stopCalled
      /\ mState' = "AWAITING_CLIENT_CONNECTION" /\ mSessionID' = TRUE
      /\ UNCHANGED <<client, playback, mResponseHandlers, timers, finishPlay, hdcp,
                     mHDCP, replies, stopCalled, displayError, aborted, live, sent>>
  BY DEF Start, Due
<1>2. UNCHANGED <<mPlaybackSessionID, mClientSessionID, finishStop2, mReaperPending, keepAlives>>
  BY <1>1 DEF client, timers
<1>3. sent \in [SessionIDs -> Seq(Wire)]
  BY DEF IInv, QueueType
<1>4. Aside(0)
  BY <1>1, <1>2, <1>3, NoSession DEF Aside, OneLess
<1>5. /\ Members(queue') \subseteq Members(queue) /\ Going
      /\ QueueType' /\ QueueInOrder' /\ OneClient' /\ Connections' /\ SessionsAccounted'
      /\ AbortsOnlyWhenCutOff'
  BY <1>4, AsideStep
<1>6. TypeOK'
  <2>1. Flags'
    BY <1>1 DEF IInv, TypeOK, Flags, client, timers, hdcp
  <2>2. Names'
    BY <1>1 DEF IInv, TypeOK, Names, States
  <2>3. Numbers'
    BY <1>1, <1>2 DEF IInv, TypeOK, Numbers
  <2> QED BY <2>1, <2>2, <2>3 DEF TypeOK, Flags, Names, Numbers
<1>7. Stopping'
  <2>1. /\ mState' \notin BeingStopped /\ mState' \notin AfterSetup
        /\ mState \notin AfterSetup
    BY <1>1 DEF BeingStopped, AfterSetup
  <2> QED BY <1>1, <1>2, <1>5, <2>1 DEF Going, Stopping
<1>8. AnsweredIsClean'
  BY <1>1, <1>5 DEF Going, AnsweredIsClean
<1>9. Negotiation' /\ SetupAwaitsHDCP'
  BY <1>1, <1>5, NegotiationKept DEF hdcp, peer, IInv
<1>10. KeptAlive'
  BY <1>1, <1>2, <1>5 DEF Going, KeptAlive
<1> QED BY <1>5, <1>6, <1>7, <1>8, <1>9, <1>10 DEF IInv, Going

(* kWhatReapDeadClients.                                                   *)
LEMMA ReapStep ==
  ASSUME IInv, UNCHANGED peer, OnReapDeadClients
  PROVE  IInv'
<1>1. /\ aborted = "no" /\ UNCHANGED queue
      /\ UNCHANGED <<mState, mPlaybackSessionID, playback, mResponseHandlers, keepAlives,
                     teardownTimer, finishStop2, finishPlay, hdcp, stopping, stopCalled,
                     aborted, sent>>
  BY DEF OnReapDeadClients, Due
<1>2. sent \in [SessionIDs -> Seq(Wire)] /\ displayError \in BOOLEAN /\ Going
  BY <1>1 DEF IInv, QueueType, TypeOK
<1>3. /\ \/ UNCHANGED <<mClientSessionID, live>>
         \/ mClientSessionID' = 0 /\ live' = live \ {mClientSessionID}
      /\ displayError' \in BOOLEAN /\ mReaperPending' = FALSE
  BY <1>2 DEF OnReapDeadClients
<1>4. Aside(0)
  BY <1>1, <1>2, <1>3, NoSession DEF Aside, OneLess
<1>5. /\ Members(queue') \subseteq Members(queue)
      /\ QueueType' /\ QueueInOrder' /\ OneClient' /\ Connections' /\ SessionsAccounted'
      /\ AbortsOnlyWhenCutOff'
  BY <1>4, AsideStep
<1>6. TypeOK'
  <2>1. Flags'
    BY <1>1, <1>3 DEF IInv, TypeOK, Flags, hdcp, stopping
  <2>2. Names'
    BY <1>1 DEF IInv, TypeOK, Names, States, stopping
  <2>3. Numbers'
    BY <1>1, <1>3 DEF IInv, TypeOK, Numbers, stopping
  <2> QED BY <2>1, <2>2, <2>3 DEF TypeOK, Flags, Names, Numbers
<1>7. Stopping' /\ AnsweredIsClean'
  <2>1. UNCHANGED <<mHDCP, mSessionID, replies>>
    BY <1>1 DEF stopping
  <2>2. mClientSessionID' \in {mClientSessionID, 0}
    BY <1>3
  <2> QED BY <1>1, <1>2, <1>5, <2>1, <2>2, StoppingKept
<1>8. Negotiation' /\ SetupAwaitsHDCP'
  BY <1>1, <1>2, <1>5, NegotiationKept DEF hdcp, peer, IInv
<1>9. KeptAlive'
  BY <1>3 DEF KeptAlive
<1> QED BY <1>5, <1>6, <1>7, <1>8, <1>9 DEF IInv, Going

(* HDCP has shut down, the rest waits a little.                            *)
LEMMA HDCPShutdownStep ==
  ASSUME IInv, UNCHANGED peer, OnHDCPShutdown
  PROVE  IInv'
<1>1. /\ aborted = "no" /\ UNCHANGED queue /\ mHDCP = "shutting down" /\ finishStop2' = TRUE
      /\ UNCHANGED <<mState, client, playback, mResponseHandlers, mReaperPending,
                     keepAlives, teardownTimer, finishPlay, hdcp, stopping, stopCalled,
                     displayError, aborted, live, sent>>
  BY DEF OnHDCPShutdown, Due
<1>2. UNCHANGED <<mPlaybackSessionID, mClientSessionID, mHDCP, mSessionID, replies>>
  BY <1>1 DEF client, stopping
<1>3. sent \in [SessionIDs -> Seq(Wire)] /\ Going
  BY <1>1 DEF IInv, QueueType
<1>4. Aside(0)
  BY <1>1, <1>2, <1>3, NoSession DEF Aside, OneLess
<1>5. /\ Members(queue') \subseteq Members(queue)
      /\ QueueType' /\ QueueInOrder' /\ OneClient' /\ Connections' /\ SessionsAccounted'
      /\ AbortsOnlyWhenCutOff'
  BY <1>4, AsideStep
<1>6. TypeOK'
  <2>1. Flags'
    BY <1>1, <1>2 DEF IInv, TypeOK, Flags, hdcp
  <2>2. Names'
    BY <1>1, <1>2 DEF IInv, TypeOK, Names, States
  <2>3. Numbers'
    BY <1>1, <1>2 DEF IInv, TypeOK, Numbers
  <2> QED BY <2>1, <2>2, <2>3 DEF TypeOK, Flags, Names, Numbers
<1>7. Stopping'
  BY <1>1, <1>2, <1>3, <1>5 DEF Going, Stopping
<1>8. AnsweredIsClean'
  BY <1>1, <1>2, <1>3 DEF Going, AnsweredIsClean
<1>9. Negotiation' /\ SetupAwaitsHDCP'
  BY <1>1, <1>3, <1>5, NegotiationKept DEF hdcp, peer, IInv
<1>10. KeptAlive'
  BY <1>1, <1>2, <1>3 DEF Going, KeptAlive
<1> QED BY <1>5, <1>6, <1>7, <1>8, <1>9, <1>10 DEF IInv, Going

(* stop() is only answered in the state STOPPED.                           *)
LEMMA NotAnswered ==
  ASSUME TypeOK, Going, mState # "STOPPED"
  PROVE  replies = 0
<1>1. replies # 1
  BY DEF Going, Stopping
<1>2. replies \in 0..1
  BY DEF TypeOK
<1> QED BY <1>1, <1>2

(* The end of a stop: the state is STOPPED, and it was not before.         *)
LEMMA Answering ==
  ASSUME IInv, aborted = "no", FinishStop2, UNCHANGED aborted, mState # "STOPPED",
         stopCalled, UNCHANGED stopCalled, finishStop2' = FALSE,
         playback' = "none", mClientSessionID' = 0,
         \A m \in Members(queue') :
           m.what \notin {"Stop", "SessionDestroyed", "SessionEstablished"}
  PROVE  Stopping' /\ AnsweredIsClean' /\ replies' \in 0..1
<1>1. /\ mHDCP' = "none" /\ mSessionID' = FALSE /\ mState' = "STOPPED"
      /\ replies' = replies + 1
  BY DEF FinishStop2
<1>2. replies = 0
  BY NotAnswered DEF IInv
<1>3. replies' = 1 /\ replies' \in 0..1
  BY <1>1, <1>2
<1>4. mState' \notin AfterSetup \cup {"AWAITING_CLIENT_TEARDOWN"} /\ mState' # "STOPPING"
  BY <1>1 DEF AfterSetup
<1>5. Stopping'
  BY <1>1, <1>3, <1>4 DEF Stopping
<1>6. AnsweredIsClean'
  BY <1>1 DEF AnsweredIsClean
<1> QED BY <1>3, <1>5, <1>6

(* stop() was not answered. (Arithmetic for the steps about strings.)      *)
LEMMA NoReply ==
  ASSUME NEW r, r = 0
  PROVE  r # 1 /\ ~(r > 0) /\ r \in 0..1
OBVIOUS

(* A stop goes on while HDCP shuts down.                                   *)
LEMMA Withdrawing ==
  ASSUME mHDCP' = "shutting down", mState' = "STOPPING", replies' = 0,
         stopCalled', playback' = "none", mClientSessionID' = 0,
         \A m \in Members(queue') :
           m.what \notin {"Stop", "SessionDestroyed", "SessionEstablished"}
  PROVE  Stopping' /\ AnsweredIsClean' /\ replies' \in 0..1
<1>1. mState' \notin AfterSetup \cup {"AWAITING_CLIENT_TEARDOWN"}
  BY DEF AfterSetup
<1>2. replies' # 1 /\ ~(replies' > 0) /\ replies' \in 0..1
  BY NoReply
<1>3. mState' # "STOPPED" /\ playback' # "ready" /\ playback' \notin {"destroying", "destroyed"}
  OBVIOUS
<1>4. Stopping'
  BY <1>1, <1>2, <1>3, Zenon DEF Stopping
<1>5. AnsweredIsClean'
  BY <1>2 DEF AnsweredIsClean
<1> QED BY <1>2, <1>4, <1>5

(* A stop goes on: the playback session is destroyed.                      *)
LEMMA DestroyStep ==
  ASSUME IInv, NEW S, Aside(S), stopCalled, playback = "ready", playback' = "destroying",
         mState' = "STOPPING",
         UNCHANGED <<client, live, stopping, mReaperPending, keepAlives, finishStop2,
                     finishPlay, hdcp, stopCalled, mResponseHandlers>>,
         teardownTimer' \in BOOLEAN, displayError' \in BOOLEAN,
         \A m \in Members(queue') : m.what # "Stop"
  PROVE  IInv'
<1>1. /\ Members(queue') \subseteq Members(queue) /\ Going /\ aborted = "no" /\ UNCHANGED peer
      /\ QueueType' /\ QueueInOrder' /\ OneClient' /\ Connections' /\ SessionsAccounted'
      /\ AbortsOnlyWhenCutOff'
  BY AsideStep DEF Aside
<1>2. UNCHANGED <<mClientSessionID, mPlaybackSessionID, mSessionID, mHDCP, replies>>
  BY DEF client, stopping
<1>3. TypeOK'
  <2>1. Flags'
    BY <1>2 DEF IInv, TypeOK, Flags, hdcp
  <2>2. Names'
    BY <1>2 DEF IInv, TypeOK, Names, States
  <2>3. Numbers'
    BY <1>2 DEF IInv, TypeOK, Numbers
  <2> QED BY <2>1, <2>2, <2>3 DEF TypeOK, Flags, Names, Numbers
<1>4. mState \in AfterSetup \cup {"AWAITING_CLIENT_TEARDOWN"} /\ mHDCP # "shutting down"
  BY <1>1 DEF Going, Stopping
<1>5. ~(replies > 0) /\ replies # 1
  BY <1>1, <1>4 DEF Going, AnsweredIsClean, Stopping, AfterSetup
<1>6. Stopping'
  <2>1. \A m \in Members(queue') : m.what # "SessionDestroyed"
    BY <1>1 DEF Going, Stopping
  <2>2. mState' \notin AfterSetup \cup {"AWAITING_CLIENT_TEARDOWN"}
    BY DEF AfterSetup
  <2> QED BY <1>1, <1>2, <1>4, <1>5, <2>1, <2>2 DEF Going, Stopping
<1>7. AnsweredIsClean'
  BY <1>2, <1>5 DEF AnsweredIsClean
<1>8. Negotiation' /\ SetupAwaitsHDCP'
  BY <1>1, NegotiationKept DEF hdcp, peer, IInv
<1>9. KeptAlive'
  BY <1>1, <1>2 DEF Going, KeptAlive
<1> QED BY <1>1, <1>3, <1>6, <1>7, <1>8, <1>9 DEF IInv, Going

(* A stop goes on: the client is disconnected, HDCP shut down.             *)
LEMMA DisconnectStep ==
  ASSUME IInv, stopCalled, playback \in {"none", "destroyed"}, DisconnectClient2,
         mHDCP # "shutting down", mState # "STOPPED", aborted = "no", OneLess,
         UNCHANGED <<mPlaybackSessionID, mReaperPending, keepAlives, finishStop2,
                     finishPlay, hdcp, stopCalled, mResponseHandlers, aborted, peer, sent>>,
         teardownTimer' \in BOOLEAN, displayError' \in BOOLEAN,
         \A m \in Members(queue') :
           m.what \notin {"Stop", "SessionDestroyed", "SessionEstablished"}
  PROVE  IInv'
<1>1. /\ playback' = "none" /\ mClientSessionID' = 0 /\ live' = live \ {mClientSessionID}
      /\ mState' \in {"STOPPING", "STOPPED"}
      /\ mHDCP' \in {"none", "shutting down"}
      /\ \/ FinishStop2
         \/ /\ mHDCP' = "shutting down" /\ mState' = "STOPPING"
            /\ UNCHANGED <<mSessionID, replies>>
  BY DEF DisconnectClient2, FinishStop2
<1>2. Aside(0)
  <2>1. sent \in [SessionIDs -> Seq(Wire)]
    BY DEF IInv, QueueType
  <2> QED BY <1>1, <2>1, NoSession DEF Aside
<1>3. /\ Members(queue') \subseteq Members(queue) /\ Going
      /\ QueueType' /\ QueueInOrder' /\ OneClient' /\ Connections' /\ SessionsAccounted'
      /\ AbortsOnlyWhenCutOff'
  BY <1>2, AsideStep
<1>4. finishStop2 = FALSE
  BY <1>3 DEF Going, Stopping, IInv, TypeOK
<1>5. Stopping' /\ AnsweredIsClean' /\ replies' \in 0..1
  <2>1. CASE FinishStop2
    BY <1>1, <1>4, <2>1, Answering
  <2>2. CASE /\ mHDCP' = "shutting down" /\ mState' = "STOPPING"
             /\ UNCHANGED <<mSessionID, replies>>
    <3>1. replies' = 0
      BY <1>3, <2>2, NotAnswered DEF IInv
    <3> QED BY <1>1, <2>2, <3>1, Withdrawing
  <2> QED BY <1>1, <2>1, <2>2
<1>6. mSessionID' \in BOOLEAN
  BY <1>1 DEF FinishStop2, IInv, TypeOK
<1>7. TypeOK'
  <2>1. Flags'
    BY <1>6 DEF IInv, TypeOK, Flags, hdcp
  <2>2. Names'
    BY <1>1 DEF IInv, TypeOK, Names, States
  <2>3. Numbers'
    BY <1>1, <1>5 DEF IInv, TypeOK, Numbers
  <2> QED BY <2>1, <2>2, <2>3 DEF TypeOK, Flags, Names, Numbers
<1>8. Negotiation' /\ SetupAwaitsHDCP'
  BY <1>3, NegotiationKept DEF hdcp, peer, IInv
<1>9. KeptAlive'
  BY <1>1 DEF KeptAlive
<1> QED BY <1>3, <1>5, <1>7, <1>8, <1>9 DEF IInv, Going

(* finishStop while the dongle is awaited to tear down: the playback       *)
(* session is there.                                                       *)
LEMMA TornDown ==
  ASSUME IInv, aborted = "no", mState = "AWAITING_CLIENT_TEARDOWN"
  PROVE  /\ stopCalled /\ playback = "ready" /\ mHDCP # "shutting down"
         /\ \A m \in Members(queue) : m.what # "Stop"
<1>1. Going /\ mState \in BeingStopped
  BY DEF IInv, BeingStopped
<1> QED BY <1>1 DEF Going, Stopping

(* kWhatTeardownTriggerTimedOut.                                           *)
LEMMA TeardownTimedOutStep ==
  ASSUME IInv, UNCHANGED peer, TeardownTriggerTimedOut
  PROVE  IInv'
<1>1. /\ aborted = "no" /\ UNCHANGED queue /\ OneLess /\ teardownTimer' = FALSE
      /\ UNCHANGED <<mPlaybackSessionID, mResponseHandlers, mReaperPending, keepAlives,
                     finishStop2, finishPlay, hdcp, stopCalled, displayError, aborted, sent>>
  BY DEF TeardownTriggerTimedOut, Due, OneLess
<1>2. /\ sent \in [SessionIDs -> Seq(Wire)] /\ displayError \in BOOLEAN /\ finishPlay \in BOOLEAN
      /\ keepAlives \subseteq SessionIDs /\ mResponseHandlers \subseteq SessionIDs \X Requests
  BY DEF IInv, TypeOK, QueueType
<1>3. CASE mState = "AWAITING_CLIENT_TEARDOWN"
  <2>1. /\ stopCalled /\ playback = "ready"
        /\ \A m \in Members(queue') : m.what # "Stop"
    BY <1>1, <1>3, TornDown
  <2>2. /\ playback' = "destroying" /\ mState' = "STOPPING"
        /\ UNCHANGED <<mClientSessionID, live, stopping>>
    BY <1>3, <2>1 DEF TeardownTriggerTimedOut, FinishStop
  <2>3. Aside(0)
    BY <1>1, <1>2, <2>2, NoSession DEF Aside
  <2>4. UNCHANGED client /\ teardownTimer' \in BOOLEAN /\ displayError' \in BOOLEAN
    BY <1>1, <1>2, <2>2 DEF client
  <2> QED BY <1>1, <2>1, <2>2, <2>3, <2>4, DestroyStep
<1>4. CASE mState # "AWAITING_CLIENT_TEARDOWN"
  <2>1. UNCHANGED <<mState, playback, mClientSessionID, live, stopping, client>>
    BY <1>1, <1>4 DEF TeardownTriggerTimedOut, client
  <2>2. Quiet(0)
    BY <1>1, <1>2, <2>1, NoSession DEF Quiet
  <2> QED BY <2>2, QuietStep
<1> QED BY <1>3, <1>4

(* onTeardownRequest.                                                      *)
LEMMA TeardownStep ==
  ASSUME IInv, UNCHANGED peer, OnTeardownRequest
  PROVE  IInv'
<1>1. /\ aborted = "no" /\ Handle("Data") /\ OneLess /\ Session \in SessionIDs /\ Met(Session)
      /\ Members(queue') \subseteq Members(queue)
  BY SenderIsClient, Handled DEF OnTeardownRequest, IsRequest
<1>2. /\ UNCHANGED <<mPlaybackSessionID, mResponseHandlers, timers, finishPlay, hdcp,
                     stopCalled, aborted>>
      /\ Send(Session, <<Ok("TEARDOWN")>>)
  BY DEF OnTeardownRequest
<1>3. UNCHANGED <<mReaperPending, keepAlives, teardownTimer, finishStop2>>
  BY <1>2 DEF timers
<1>4. /\ displayError \in BOOLEAN /\ finishPlay \in BOOLEAN /\ teardownTimer \in BOOLEAN
      /\ keepAlives \subseteq SessionIDs /\ mResponseHandlers \subseteq SessionIDs \X Requests
  BY DEF IInv, TypeOK
<1>5. /\ sent' \in [SessionIDs -> Seq(Wire)]
      /\ \A s \in SessionIDs \ {Session} : sent'[s] = sent[s]
  BY <1>1, <1>2, AnswerType DEF Unasked
<1>6. CASE mState = "AWAITING_CLIENT_TEARDOWN"
  <2>1. /\ stopCalled /\ playback = "ready"
        /\ \A m \in Members(queue') : m.what # "Stop"
    BY <1>1, <1>6, TornDown
  <2>2. /\ playback' = "destroying" /\ mState' = "STOPPING"
        /\ UNCHANGED <<mClientSessionID, live, stopping, displayError>>
    BY <1>6, <2>1 DEF OnTeardownRequest, FinishStop
  <2>3. Aside(Session)
    BY <1>1, <1>2, <1>5, <2>2 DEF Aside
  <2>4. UNCHANGED client /\ teardownTimer' \in BOOLEAN /\ displayError' \in BOOLEAN
    BY <1>2, <1>3, <1>4, <2>2 DEF client
  <2> QED BY <1>2, <1>3, <2>1, <2>2, <2>3, <2>4, DestroyStep
<1>7. CASE mState # "AWAITING_CLIENT_TEARDOWN"
  <2>1. UNCHANGED <<mState, playback, mClientSessionID, live, stopping, client>>
        /\ displayError' = TRUE
    BY <1>2, <1>7 DEF OnTeardownRequest, client
  <2>2. Quiet(Session)
    BY <1>1, <1>2, <1>3, <1>4, <1>5, <2>1 DEF Quiet
  <2> QED BY <2>2, QuietStep
<1> QED BY <1>6, <1>7

(* kWhatSessionDestroyed: the playback session's end is announced once.    *)
LEMMA DestroyedStep ==
  ASSUME IInv, UNCHANGED peer, OnSessionDestroyed
  PROVE  IInv'
<1>1. /\ aborted = "no" /\ Handle("SessionDestroyed") /\ OneLess /\ Going
      /\ Head(queue) \in Members(queue) /\ Head(queue).what = "SessionDestroyed"
      /\ Members(queue') \subseteq Members(queue)
      /\ \A m \in Members(queue') : Fits(Head(queue), m)
  BY Handled DEF OnSessionDestroyed, OneLess
<1>2. /\ DisconnectClient2
      /\ UNCHANGED <<mPlaybackSessionID, mResponseHandlers, timers, finishPlay, hdcp,
                     stopCalled, displayError, aborted, sent>>
  BY DEF OnSessionDestroyed
<1>3. UNCHANGED <<mReaperPending, keepAlives, teardownTimer, finishStop2>>
  BY <1>2 DEF timers
<1>4. playback = "destroyed" /\ mState = "STOPPING" /\ mHDCP # "shutting down"
  BY <1>1 DEF Going, Stopping
<1>5. stopCalled /\ \A m \in Members(queue) : m.what # "Stop"
  BY <1>1, <1>4 DEF Going, Stopping, BeingStopped
<1>6. \A m \in Members(queue') :
        m.what \notin {"Stop", "SessionDestroyed", "SessionEstablished"}
  BY <1>1, <1>5 DEF Fits
<1>7. teardownTimer' \in BOOLEAN /\ displayError' \in BOOLEAN
  BY <1>2, <1>3 DEF IInv, TypeOK
<1> QED BY <1>1, <1>2, <1>3, <1>4, <1>5, <1>6, <1>7, DisconnectStep

(* kWhatFinishStop2.                                                       *)
LEMMA FinishStop2Step ==
  ASSUME IInv, UNCHANGED peer, OnFinishStop2
  PROVE  IInv'
<1>1. /\ aborted = "no" /\ UNCHANGED queue /\ OneLess /\ finishStop2 /\ finishStop2' = FALSE
      /\ FinishStop2
      /\ UNCHANGED <<client, playback, mResponseHandlers, mReaperPending, keepAlives,
                     teardownTimer, finishPlay, hdcp, stopCalled, displayError, aborted,
                     live, sent>>
  BY DEF OnFinishStop2, Due, OneLess
<1>2. Going /\ sent \in [SessionIDs -> Seq(Wire)]
  BY <1>1 DEF IInv, QueueType
<1>3. /\ mHDCP = "shutting down" /\ mState = "STOPPING" /\ playback = "none"
      /\ mClientSessionID = 0
  BY <1>1, <1>2 DEF Going, Stopping
<1>4. stopCalled /\ \A m \in Members(queue) :
        m.what \notin {"Stop", "SessionDestroyed", "SessionEstablished"}
  BY <1>2, <1>3 DEF Going, Stopping, BeingStopped
<1>5. UNCHANGED <<mClientSessionID, mPlaybackSessionID>>
  BY <1>1 DEF client
<1>6. mHDCP' = "none" /\ mSessionID' = FALSE /\ mState' = "STOPPED"
  BY <1>1 DEF FinishStop2
<1>7. Aside(0)
  BY <1>1, <1>2, <1>5, <1>6, NoSession DEF Aside
<1>8. /\ Members(queue') \subseteq Members(queue)
      /\ QueueType' /\ QueueInOrder' /\ OneClient' /\ Connections' /\ SessionsAccounted'
      /\ AbortsOnlyWhenCutOff'
  BY <1>7, AsideStep
<1>9. Stopping' /\ AnsweredIsClean' /\ replies' \in 0..1
  BY <1>1, <1>3, <1>4, <1>5, <1>8, Answering
<1>10. TypeOK'
  <2>1. Flags'
    BY <1>1, <1>5, <1>6 DEF IInv, TypeOK, Flags, hdcp
  <2>2. Names'
    BY <1>1, <1>6 DEF IInv, TypeOK, Names, States
  <2>3. Numbers'
    BY <1>1, <1>5, <1>9 DEF IInv, TypeOK, Numbers
  <2> QED BY <2>1, <2>2, <2>3 DEF TypeOK, Flags, Names, Numbers
<1>11. Negotiation' /\ SetupAwaitsHDCP'
  BY <1>1, <1>2, <1>8, NegotiationKept DEF hdcp, peer, IInv
<1>12. KeptAlive'
  BY <1>1, <1>3 DEF KeptAlive
<1> QED BY <1>8, <1>9, <1>10, <1>11, <1>12 DEF IInv, Going

(* kWhatStop: the dongle is asked to tear down, or the stop begins.        *)
LEMMA StopStep ==
  ASSUME IInv, UNCHANGED peer, OnStop
  PROVE  IInv'
<1>1. /\ aborted = "no" /\ Handle("Stop") /\ OneLess /\ Going
      /\ Head(queue) \in Members(queue) /\ Head(queue).what = "Stop"
      /\ Members(queue') \subseteq Members(queue)
      /\ \A m \in Members(queue') : Fits(Head(queue), m)
  BY Handled DEF OnStop, OneLess
<1>2. /\ UNCHANGED <<mPlaybackSessionID, mReaperPending, keepAlives, finishStop2, finishPlay,
                     hdcp, stopCalled, displayError, aborted>>
  BY DEF OnStop
<1>3. /\ stopCalled /\ mState \notin BeingStopped
      /\ \A m \in Members(queue') : m.what # "Stop"
  BY <1>1 DEF Going, Stopping, Fits
<1>4. mHDCP # "shutting down" /\ mState # "STOPPED" /\ mState # "AWAITING_CLIENT_TEARDOWN"
  BY <1>1, <1>3 DEF Going, Stopping, BeingStopped
<1>5. /\ teardownTimer \in BOOLEAN /\ displayError \in BOOLEAN /\ stopCalled \in BOOLEAN
      /\ sent \in [SessionIDs -> Seq(Wire)] /\ live \subseteq SessionIDs
      /\ mResponseHandlers \subseteq SessionIDs \X Requests
      /\ mClientSessionID \in SessionIDs \cup {0}
      /\ playback \in {"none", "ready", "destroying", "destroyed"}
  BY DEF IInv, TypeOK, QueueType
<1>6. CASE mState \in AfterSetup /\ mClientSessionID \in live
  <2> DEFINE c == mClientSessionID
  <2>1. /\ Send(c, <<Ask("M5stop")>>)
        /\ mResponseHandlers' = mResponseHandlers \cup {<<c, "M5stop">>}
        /\ mState' = "AWAITING_CLIENT_TEARDOWN" /\ teardownTimer' = TRUE
        /\ UNCHANGED <<mClientSessionID, playback, live, stopping>>
        /\ c \in SessionIDs /\ Met(c)
    BY <1>5, <1>6 DEF OnStop, SendRequest, Met
  <2>2. /\ sent' \in [SessionIDs -> Seq(Wire)]
        /\ \A s \in SessionIDs \ {c} : sent'[s] = sent[s]
    <3>1. <<Ask("M5stop")>> \in Seq(Wire)
      BY WireType DEF Requests
    <3> QED BY <2>1, <3>1, SendType
  <2>3. /\ mResponseHandlers' \subseteq SessionIDs \X Requests
        /\ \A s \in SessionIDs, r \in Requests :
             <<s, r>> \in mResponseHandlers' =>
               <<s, r>> \in mResponseHandlers \/ <<s, r>> = <<c, "M5stop">>
    BY <1>5, <2>1 DEF Requests
  <2>4. Aside(c)
    BY <1>1, <1>2, <2>1, <2>2, <2>3 DEF Aside
  <2>5. /\ QueueType' /\ QueueInOrder' /\ OneClient' /\ Connections' /\ SessionsAccounted'
        /\ AbortsOnlyWhenCutOff'
    BY <2>4, AsideStep
  <2>6. UNCHANGED <<mSessionID, mHDCP, replies>>
    BY <2>1 DEF stopping
  <2>7. TypeOK'
    <3>1. Flags'
      BY <1>2, <2>1, <2>6 DEF IInv, TypeOK, Flags, hdcp
    <3>2. Names'
      BY <2>1, <2>6 DEF IInv, TypeOK, Names, States
    <3>3. Numbers'
      BY <1>2, <2>1, <2>3, <2>6 DEF IInv, TypeOK, Numbers
    <3> QED BY <3>1, <3>2, <3>3 DEF TypeOK, Flags, Names, Numbers
  <2>8. replies = 0
    BY <1>1, <1>4, NotAnswered DEF IInv
  <2>9. /\ replies' # 1 /\ ~(replies' > 0)
    BY <2>6, <2>8, NoReply
  <2>10. Stopping'
    <3>1. playback = "ready"
      BY <1>1, <1>6 DEF Going, Stopping
    <3>2. mState' \notin {"STOPPING", "STOPPED"}
      BY <2>1
    <3> QED BY <1>1, <1>2, <1>3, <1>4, <2>1, <2>6, <2>9, <3>1, <3>2 DEF Going, Stopping
  <2>11. AnsweredIsClean'
    BY <2>9 DEF AnsweredIsClean
  <2>12. Negotiation' /\ SetupAwaitsHDCP'
    <3>1. \A s \in SessionIDs, req \in {"M3", "M4", "M5"} :
            <<s, req>> \in mResponseHandlers' => <<s, req>> \in mResponseHandlers
      BY <2>3 DEF Requests
    <3> QED BY <1>1, <1>2, <3>1, NegotiationKept DEF hdcp, peer, IInv
  <2>13. KeptAlive'
    BY <1>1, <1>2, <2>1 DEF Going, KeptAlive
  <2> HIDE DEF c
  <2> QED BY <2>5, <2>7, <2>10, <2>11, <2>12, <2>13 DEF IInv, Going
<1>7. CASE mState \in AfterSetup /\ mClientSessionID \notin live
  <2>1. FinishStop /\ UNCHANGED <<sent, mResponseHandlers, teardownTimer>>
    BY <1>7 DEF OnStop
  <2>2. playback = "ready"
    BY <1>1, <1>7 DEF Going, Stopping
  <2>3. /\ playback' = "destroying" /\ mState' = "STOPPING"
        /\ UNCHANGED <<mClientSessionID, live, stopping>>
    BY <2>1, <2>2 DEF FinishStop
  <2>4. Aside(0)
    BY <1>1, <1>2, <1>5, <2>1, <2>3, NoSession DEF Aside
  <2>5. UNCHANGED client /\ teardownTimer' \in BOOLEAN /\ displayError' \in BOOLEAN
    BY <1>2, <1>5, <2>1, <2>3 DEF client
  <2> QED BY <1>2, <1>3, <2>1, <2>2, <2>3, <2>4, <2>5, DestroyStep
<1>8. CASE mState \notin AfterSetup
  <2>1. FinishStop /\ UNCHANGED <<sent, mResponseHandlers, teardownTimer>>
    BY <1>8 DEF OnStop
  <2>2. playback = "none"
    BY <1>1, <1>3, <1>4, <1>5, <1>8 DEF Going, Stopping, BeingStopped
  <2>3. DisconnectClient2
    BY <2>1, <2>2 DEF FinishStop
  <2>4. \A m \in Members(queue') :
          m.what \notin {"Stop", "SessionDestroyed", "SessionEstablished"}
    BY <1>1, <1>3, <2>2 DEF Going, Stopping
  <2>5. teardownTimer' \in BOOLEAN /\ displayError' \in BOOLEAN
    BY <1>2, <1>5, <2>1
  <2> QED BY <1>1, <1>2, <1>3, <1>4, <2>1, <2>2, <2>3, <2>4, <2>5, DisconnectStep
<1> QED BY <1>6, <1>7, <1>8

-----------------------------------------------------------------------------
(* The control connection                                                  *)

(* A session is given up, with the message that accounts for it.           *)
LEMMA DropStep ==
  ASSUME IInv, NEW what \in {"Error", "ClientConnected"}, Handle(what),
         live' = live \ {Session},
         mClientSessionID' = IF Session = mClientSessionID THEN 0 ELSE mClientSessionID,
         UNCHANGED <<mState, mPlaybackSessionID, playback, mResponseHandlers, timers,
                     finishPlay, hdcp, stopping, stopCalled, aborted, sent, peer>>,
         displayError' \in BOOLEAN
  PROVE  IInv'
<1>1. /\ aborted = "no" /\ Going
      /\ Head(queue) \in Members(queue)
      /\ Head(queue).what = what /\ WellFormed(Head(queue))
      /\ Members(queue') \subseteq Members(queue)
      /\ \A m \in Members(queue) : m = Head(queue) \/ m \in Members(queue')
      /\ \A m \in Members(queue') : Fits(Head(queue), m)
      /\ queue' \in Seq(MsgType) /\ QueueInOrder'
  BY Handled
<1>2. PICK c \in SessionIDs : c = Session /\ Head(queue).session = c
  BY <1>1 DEF WellFormed, Session
<1>3. /\ mClientSessionID' \in {mClientSessionID, 0} /\ live' \subseteq live
      /\ mClientSessionID' # c
  BY <1>2, NoSession
<1>4. UNCHANGED <<finishStop2, mReaperPending, keepAlives, teardownTimer, mSessionID, mHDCP,
                  replies, asked, dongle>>
  BY DEF timers, stopping, peer
<1>5. TypeOK'
  <2>1. Flags'
    BY <1>4 DEF IInv, TypeOK, Flags, hdcp
  <2>2. Names'
    BY <1>4 DEF IInv, TypeOK, Names, States
  <2>3. Numbers'
    BY <1>3, <1>4 DEF IInv, TypeOK, Numbers
  <2> QED BY <2>1, <2>2, <2>3 DEF TypeOK, Flags, Names, Numbers
<1>6. QueueType'
  BY <1>1, <1>4 DEF IInv, QueueType
<1>7. \A s \in SessionIDs : Met(s)' => Met(s)
  BY <1>1, <1>3, <1>4, NoSession DEF Met
<1>8. OneClient'
  BY <1>1, <1>7, OneClientKept
<1>9. \A m \in Members(queue') : m.what = "ClientConnected" => m.session \in live'
  <2>1. SUFFICES ASSUME NEW m \in Members(queue'), m.what = "ClientConnected"
                 PROVE  m.session \in live'
    OBVIOUS
  <2>2. m.session \in live
    BY <1>1, <2>1 DEF Going, Connections
  <2>3. m.session # c
    BY <1>1, <1>2, <2>1 DEF Fits
  <2> QED BY <1>2, <2>2, <2>3
<1>10. Connections'
  <2>1. mClientSessionID' # 0 => mClientSessionID' \in live'
    BY <1>1, <1>2, <1>3 DEF Going, Connections
  <2> QED BY <1>1, <1>3, <1>4, <1>7, <1>9, <2>1, ConnectionsKept DEF Going
<1>11. Stopping' /\ AnsweredIsClean'
  BY <1>1, <1>3, <1>4, StoppingKept
<1>12. Negotiation' /\ SetupAwaitsHDCP'
  BY <1>1, NegotiationKept DEF hdcp, peer, IInv
<1>13. KeptAlive'
  BY <1>1, <1>3, <1>4 DEF Going, KeptAlive
<1>14. SessionsAccounted'
  <2>1. queue \in Seq(MsgType)
    BY DEF IInv, QueueType
  <2>2. mClientSessionID \in live' => mClientSessionID' = mClientSessionID
    BY <1>2
  <2>3. \A m \in Members(queue) : m.what \in {"ClientConnected", "Error"} =>
          m \in Members(queue') \/ m.session \notin live'
    BY <1>1, <1>2
  <2> QED BY <1>1, <1>3, <2>1, <2>2, <2>3, AccountedKept
<1>15. AbortsOnlyWhenCutOff'
  BY <1>1 DEF AbortsOnlyWhenCutOff
<1> QED BY <1>1, <1>5, <1>6, <1>8, <1>10, <1>11, <1>12, <1>13, <1>14, <1>15 DEF IInv, Going

(* The connection of a client breaks.                                      *)
LEMMA ErrorStep ==
  ASSUME IInv, UNCHANGED peer, OnError
  PROVE  IInv'
<1>1. /\ Handle("Error") /\ live' = live \ {Session}
      /\ mClientSessionID' = IF Session = mClientSessionID THEN 0 ELSE mClientSessionID
      /\ UNCHANGED <<mState, mPlaybackSessionID, playback, mResponseHandlers, timers,
                     finishPlay, hdcp, stopping, stopCalled, aborted, sent>>
  BY DEF OnError
<1>2. displayError' \in BOOLEAN
  BY DEF OnError, IInv, TypeOK
<1> QED BY <1>1, <1>2, DropStep

(* A new connection is not the client's, and is alive.                     *)
LEMMA Newcomer ==
  ASSUME IInv, Handle("ClientConnected")
  PROVE  /\ aborted = "no" /\ Going /\ Session \in SessionIDs /\ ~Met(Session)
         /\ Session \in live /\ dongle[Session] # "absent" /\ Session # mClientSessionID
<1>1. /\ aborted = "no" /\ Going /\ Head(queue) \in Members(queue)
      /\ Head(queue).what = "ClientConnected" /\ WellFormed(Head(queue))
  BY Handled
<1>2. Session \in SessionIDs
  BY <1>1 DEF WellFormed, Session
<1>3. ~Met(Session) /\ Session \in live /\ dongle[Session] # "absent"
  BY <1>1 DEF Going, Connections, Session
<1>4. Session # mClientSessionID
  BY <1>3 DEF Met
<1> QED BY <1>1, <1>2, <1>3, <1>4

(* The first connection, from another host, is the client's.               *)
LEMMA ClientAccepted ==
  ASSUME IInv, UNCHANGED peer, Handle("ClientConnected"),
         mClientSessionID = 0, mState = "AWAITING_CLIENT_CONNECTION",
         mPlaybackSessionID' = FALSE, mClientSessionID' = Session,
         mState' = "AWAITING_CLIENT_SETUP", SendRequest(Session, "M1"),
         UNCHANGED <<live, aborted, playback, timers, finishPlay, hdcp, stopping, stopCalled,
                     displayError>>
  PROVE  IInv'
<1>1. PICK c \in SessionIDs : c = Session
  BY Newcomer
<1>2. /\ aborted = "no" /\ Going /\ c \in live /\ dongle[c] # "absent"
  BY <1>1, Newcomer
<1>3. /\ Head(queue) \in Members(queue) /\ Head(queue).session = c
      /\ Head(queue).what = "ClientConnected"
      /\ Members(queue') \subseteq Members(queue)
      /\ \A m \in Members(queue) : m = Head(queue) \/ m \in Members(queue')
      /\ \A m \in Members(queue') : Fits(Head(queue), m)
      /\ queue \in Seq(MsgType) /\ queue' \in Seq(MsgType) /\ QueueInOrder'
  BY <1>1, Handled DEF Session, IInv, QueueType
<1>4. \A m \in Members(queue') : m.what = "ClientConnected" => m.session # c
  BY <1>3 DEF Fits
<1>5. \A s \in SessionIDs : ~Met(s)
  BY <1>2 DEF Going, OneClient
<1>6. /\ Send(c, <<Ask("M1")>>)
      /\ mResponseHandlers' = mResponseHandlers \cup {<<c, "M1">>}
  BY <1>1, <1>2 DEF SendRequest
<1>7. /\ sent' \in [SessionIDs -> Seq(Wire)]
      /\ \A s \in SessionIDs \ {c} : sent'[s] = sent[s]
  <2>1. <<Ask("M1")>> \in Seq(Wire)
    BY WireType DEF Requests
  <2> QED BY <1>6, <2>1, SendType
<1>8. mResponseHandlers \subseteq SessionIDs \X Requests
  BY DEF IInv, TypeOK
<1>9. /\ mResponseHandlers' \subseteq SessionIDs \X Requests
      /\ \A s \in SessionIDs, r \in Requests :
           <<s, r>> \in mResponseHandlers' =>
             <<s, r>> \in mResponseHandlers \/ <<s, r>> = <<c, "M1">>
  BY <1>6, <1>8 DEF Requests
<1>10. UNCHANGED <<finishStop2, mReaperPending, keepAlives, teardownTimer, mSessionID, mHDCP,
                   replies, asked, dongle>>
  BY DEF timers, stopping, peer
<1>11. TypeOK'
  <2>1. Flags'
    BY <1>10 DEF IInv, TypeOK, Flags, hdcp
  <2>2. Names'
    BY <1>10 DEF IInv, TypeOK, Names, States
  <2>3. Numbers'
    BY <1>1, <1>9, <1>10 DEF IInv, TypeOK, Numbers
  <2> QED BY <2>1, <2>2, <2>3 DEF TypeOK, Flags, Names, Numbers
<1>12. QueueType'
  BY <1>3, <1>7, <1>10 DEF IInv, QueueType
<1>13. \A s \in SessionIDs : Met(s)' => s = c
  <2>1. SUFFICES ASSUME NEW s \in SessionIDs, s # c PROVE ~Met(s)'
    OBVIOUS
  <2>2. ~Met(s)
    BY <1>5
  <2>3. \A r \in Requests : <<s, r>> \notin mResponseHandlers'
    BY <1>9, <2>1, <2>2 DEF Met
  <2> QED BY <1>1, <1>3, <1>7, <1>10, <2>1, <2>2, <2>3 DEF Met
<1>14. OneClient'
  BY <1>13 DEF OneClient
<1>15. Connections'
  <2>1. \A m \in Members(queue') : m.what = "ClientConnected" =>
          /\ m.session \in SessionIDs /\ m.session \in live /\ dongle[m.session] # "absent"
    BY <1>2, <1>3 DEF Going, Connections, QueueInOrder, WellFormed
  <2>2. \A s \in SessionIDs : dongle[s] = "absent" =>
          s # c /\ s \notin live /\ \A m \in Members(queue') : m.session # s
    BY <1>2, <1>3 DEF Going, Connections
  <2> QED BY <1>1, <1>2, <1>4, <1>10, <1>13, <2>1, <2>2 DEF Connections
<1>16. mState \notin AfterSetup \cup BeingStopped /\ mState' \notin AfterSetup \cup BeingStopped
  BY DEF AfterSetup, BeingStopped
<1>17. playback = "none" /\ mHDCP # "shutting down" /\ replies # 1 /\ ~(replies > 0)
  BY <1>2, <1>16 DEF Going, Stopping, AnsweredIsClean, IInv, TypeOK, BeingStopped
<1>18. Stopping'
  BY <1>2, <1>3, <1>10, <1>16, <1>17 DEF Going, Stopping, BeingStopped
<1>19. AnsweredIsClean'
  BY <1>10, <1>17 DEF AnsweredIsClean
<1>20. Negotiation' /\ SetupAwaitsHDCP'
  <2>1. \A s \in SessionIDs, req \in {"M3", "M4", "M5"} :
          <<s, req>> \in mResponseHandlers' => <<s, req>> \in mResponseHandlers
    BY <1>9 DEF Requests
  <2> QED BY <1>2, <1>3, <1>10, <2>1, NegotiationKept DEF hdcp, IInv
<1>21. KeptAlive'
  BY <1>17 DEF KeptAlive
<1>22. SessionsAccounted'
  <2>1. SUFFICES ASSUME NEW s \in live, s # c
                 PROVE  \E i \in 1..Len(queue') :
                          /\ queue'[i].session = s
                          /\ queue'[i].what \in {"ClientConnected", "Error"}
    BY <1>1 DEF SessionsAccounted
  <2>2. s # mClientSessionID
    BY NoSession DEF IInv, TypeOK
  <2>3. PICK i \in 1..Len(queue) : /\ queue[i].session = s
                                   /\ queue[i].what \in {"ClientConnected", "Error"}
    BY <1>2, <2>2 DEF Going, SessionsAccounted
  <2>4. queue[i] \in Members(queue')
    BY <1>3, <2>1, <2>3 DEF Members
  <2> QED BY <2>3, <2>4 DEF Members
<1>23. AbortsOnlyWhenCutOff'
  BY <1>2 DEF AbortsOnlyWhenCutOff
<1> QED BY <1>2, <1>3, <1>11, <1>12, <1>14, <1>15, <1>18, <1>19, <1>20, <1>21, <1>22, <1>23
        DEF IInv, Going

(* kWhatClientConnected.                                                   *)
LEMMA ConnectedStep ==
  ASSUME IInv, UNCHANGED peer, OnClientConnected
  PROVE  IInv'
<1>1. /\ Handle("ClientConnected")
      /\ UNCHANGED <<playback, timers, finishPlay, hdcp, stopping, stopCalled, displayError>>
  BY DEF OnClientConnected
<1>2. aborted = "no" /\ Session # mClientSessionID
  BY <1>1, Newcomer
<1>3. /\ displayError \in BOOLEAN /\ finishPlay \in BOOLEAN
      /\ sent \in [SessionIDs -> Seq(Wire)]
  BY DEF IInv, TypeOK, QueueType
<1>4. mClientSessionID > 0 \/ mClientSessionID = 0
  <2>1. mClientSessionID \in SessionIDs \cup {0}
    BY DEF IInv, TypeOK
  <2> QED BY <2>1, SourceAssumption DEF SessionIDs
<1>5. CASE /\ RejectClient(Session)
           /\ UNCHANGED <<mState, client, mResponseHandlers, sent, aborted>>
  <2>1. UNCHANGED <<mClientSessionID, mPlaybackSessionID>> /\ live' = live \ {Session}
    BY <1>5 DEF client, RejectClient
  <2> QED BY <1>1, <1>2, <1>3, <1>5, <2>1, DropStep
<1>6. CASE /\ mClientSessionID = 0 /\ aborted' = "onClientConnected"
           /\ UNCHANGED <<mState, client, mResponseHandlers, sent, live>>
  <2>1. AbortsOnlyWhenCutOff'
    BY <1>6 DEF AbortsOnlyWhenCutOff, CutOff, client
  <2>2. sent' \in [SessionIDs -> Seq(Wire)]
    BY <1>3, <1>6
  <2> QED BY <1>1, <1>2, <1>3, <1>6, <2>1, <2>2, AbortQuietly
<1>7. CASE /\ mClientSessionID = 0 /\ mState = "AWAITING_CLIENT_CONNECTION"
           /\ mPlaybackSessionID' = FALSE
           /\ mClientSessionID' = Session
           /\ mState' = "AWAITING_CLIENT_SETUP"
           /\ SendRequest(Session, "M1")
           /\ aborted' = (IF Session \in live THEN aborted ELSE "sendM1")
           /\ UNCHANGED live
  <2>1. UNCHANGED aborted
    BY <1>1, <1>7, Newcomer
  <2> QED BY <1>1, <1>7, <2>1, ClientAccepted
<1> QED BY <1>4, <1>5, <1>6, <1>7 DEF OnClientConnected

-----------------------------------------------------------------------------
(* The dongles                                                             *)

(* A message of a dongle is posted.                                        *)
LEMMA Posted ==
  ASSUME IInv, aborted = "no", NEW n \in MsgType, WellFormed(n), queue' = Append(queue, n),
         \A m \in Members(queue) : Fits(m, n)
  PROVE  /\ Going /\ queue' \in Seq(MsgType) /\ QueueInOrder'
         /\ Members(queue') = Members(queue) \cup {n}
<1>1. Going /\ queue \in Seq(MsgType) /\ Ordered(queue)
  BY DEF IInv, QueueType, Going, QueueInOrder
<1>2. /\ queue' \in Seq(MsgType) /\ Ordered(queue') /\ Members(queue') = Members(queue) \cup {n}
  BY <1>1, QueueAppend
<1> QED BY <1>1, <1>2 DEF Going, QueueInOrder

(* What the messages of dongles mean to the source it sees when it handles *)
(* them.                                                                   *)
LEMMA SourceKept ==
  ASSUME IInv, aborted = "no", UNCHANGED source, live' \subseteq SessionIDs,
         \A m \in Members(queue') :
           m \in Members(queue) \/ m.what \in {"ClientConnected", "Error", "Data"}
  PROVE  /\ TypeOK' /\ Stopping' /\ AnsweredIsClean' /\ SetupAwaitsHDCP' /\ KeptAlive'
         /\ AbortsOnlyWhenCutOff' /\ aborted' = "no"
<1>1. UNCHANGED <<mState, mPlaybackSessionID, mClientSessionID, playback, mResponseHandlers,
                  mReaperPending, keepAlives, teardownTimer, finishStop2, finishPlay,
                  mUsingHDCP, mHDCPInitializationComplete, mSetupTriggerDeferred, mSessionID,
                  mHDCP, replies, stopCalled, displayError, aborted>>
  BY DEF source, client, timers, hdcp, stopping
<1>2. Going
  BY DEF IInv
<1>3. TypeOK'
  <2>1. Flags'
    BY <1>1 DEF IInv, TypeOK, Flags
  <2>2. Names'
    BY <1>1 DEF IInv, TypeOK, Names, States
  <2>3. Numbers'
    BY <1>1 DEF IInv, TypeOK, Numbers
  <2> QED BY <2>1, <2>2, <2>3 DEF TypeOK, Flags, Names, Numbers
<1>4. Stopping'
  BY <1>1, <1>2 DEF Going, Stopping
<1>5. AnsweredIsClean'
  BY <1>1, <1>2 DEF Going, AnsweredIsClean
<1>6. SetupAwaitsHDCP'
  BY <1>1 DEF IInv, SetupAwaitsHDCP
<1>7. KeptAlive'
  BY <1>1, <1>2 DEF Going, KeptAlive
<1>8. AbortsOnlyWhenCutOff'
  BY <1>1 DEF AbortsOnlyWhenCutOff
<1> QED BY <1>1, <1>3, <1>4, <1>5, <1>6, <1>7, <1>8

(* Sessions that are accounted for stay so.                                *)
LEMMA AccountedStays ==
  ASSUME IInv, aborted = "no", mClientSessionID' = mClientSessionID,
         queue' \in Seq(MsgType), Members(queue) \subseteq Members(queue'),
         \A s \in live' \ live : \E m \in Members(queue') :
           m.session = s /\ m.what = "ClientConnected"
  PROVE  SessionsAccounted'
<1> SUFFICES ASSUME NEW s \in live', s # mClientSessionID
             PROVE  \E i \in 1..Len(queue') :
                      /\ queue'[i].session = s
                      /\ queue'[i].what \in {"ClientConnected", "Error"}
  BY DEF SessionsAccounted
<1>1. CASE s \in live
  <2>1. PICK i \in 1..Len(queue) : /\ queue[i].session = s
                                   /\ queue[i].what \in {"ClientConnected", "Error"}
    BY <1>1 DEF IInv, Going, SessionsAccounted
  <2>2. queue[i] \in Members(queue')
    BY <2>1 DEF Members
  <2> QED BY <2>1, <2>2 DEF Members
<1>2. CASE s \notin live
  <2>1. PICK m \in Members(queue') : m.session = s /\ m.what = "ClientConnected"
    BY <1>2
  <2> QED BY <2>1 DEF Members
<1> QED BY <1>1, <1>2

(* A connection is made.                                                   *)
LEMMA ConnectionMade ==
  ASSUME IInv, aborted = "no", NEW s \in SessionIDs, dongle[s] = "absent",
         NEW from \in {"remote", "local"}, Post(s, "ClientConnected", from),
         dongle' = [dongle EXCEPT ![s] = IF from = "local" THEN "gone" ELSE "on"],
         live' = live \cup {s}, UNCHANGED <<source, sent, asked>>
  PROVE  IInv'
<1>1. dongle' = [dongle EXCEPT ![s] = IF from = "local" THEN "gone" ELSE "on"]
  OBVIOUS
<1> DEFINE n == Msg("ClientConnected", s, from)
<1>2. /\ aborted = "no" /\ dongle[s] = "absent" /\ live' = live \cup {s}
      /\ UNCHANGED <<source, sent, asked>> /\ queue' = Append(queue, n)
  BY DEF Post
<1>3. /\ n \in MsgType /\ WellFormed(n) /\ n.what = "ClientConnected" /\ n.session = s
      /\ ~IsOptions(n)
  BY DEF Msg, MsgType, Whats, WellFormed, IsOptions
<1>4. Going /\ dongle \in [SessionIDs -> {"absent", "on", "greeted", "triggered", "set up", "gone"}]
      /\ live \subseteq SessionIDs
  BY <1>2 DEF IInv, QueueType, TypeOK
<1>5. s \notin live /\ ~Met(s) /\ \A m \in Members(queue) : m.session # s
  BY <1>2, <1>4 DEF Going, Connections
<1>6. \A m \in Members(queue) : Fits(m, n)
  BY <1>3, <1>5 DEF Fits
<1> HIDE DEF n
<1>7. /\ queue' \in Seq(MsgType) /\ QueueInOrder' /\ Members(queue') = Members(queue) \cup {n}
  BY <1>2, <1>3, <1>6, Posted
<1>8. UNCHANGED <<mClientSessionID, mResponseHandlers, mState, mSetupTriggerDeferred>>
  BY <1>2 DEF source, client, hdcp
<1>9. /\ TypeOK' /\ Stopping' /\ AnsweredIsClean' /\ SetupAwaitsHDCP' /\ KeptAlive'
      /\ AbortsOnlyWhenCutOff' /\ aborted' = "no"
  BY <1>2, <1>3, <1>4, <1>7, SourceKept
<1>10. dongle'[s] \in {"gone", "on"} /\ \A t \in SessionIDs \ {s} : dongle'[t] = dongle[t]
  BY <1>1, <1>4
<1>11. QueueType'
  <2>1. dongle' \in [SessionIDs -> {"absent", "on", "greeted", "triggered", "set up", "gone"}]
    BY <1>1, <1>4
  <2> QED BY <1>2, <1>7, <2>1 DEF IInv, QueueType
<1>12. \A t \in SessionIDs : Met(t)' => Met(t)
  <2>1. SUFFICES ASSUME NEW t \in SessionIDs, Met(t)' PROVE Met(t)
    OBVIOUS
  <2>2. dongle'[t] \in {"greeted", "triggered", "set up"} => dongle'[t] = dongle[t]
    BY <1>10
  <2> QED BY <1>2, <1>3, <1>7, <1>8, <2>1, <2>2 DEF Met
<1>13. OneClient'
  BY <1>4, <1>8, <1>12 DEF Going, OneClient
<1>14. Connections'
  <2>1. \A m \in Members(queue') : m.what = "ClientConnected" =>
          /\ m.session \in SessionIDs /\ ~Met(m.session) /\ m.session \in live'
          /\ dongle'[m.session] # "absent"
    <3>1. \A m \in Members(queue) : m.what = "ClientConnected" =>
            /\ m.session \in SessionIDs /\ ~Met(m.session) /\ m.session \in live
            /\ dongle[m.session] # "absent"
      BY <1>4 DEF Going, Connections, QueueInOrder, WellFormed
    <3> QED BY <1>2, <1>3, <1>5, <1>7, <1>10, <3>1
  <2>2. ASSUME NEW t \in SessionIDs, dongle'[t] = "absent"
        PROVE  /\ t \notin live' /\ ~Met(t)
               /\ \A m \in Members(queue') : m.session # t
    <3>1. t # s /\ dongle[t] = "absent"
      BY <1>10, <2>2
    <3> QED BY <1>2, <1>3, <1>4, <1>7, <3>1 DEF Going, Connections
  <2>3. mClientSessionID # 0 => mClientSessionID \in live
    BY <1>4 DEF Going, Connections
  <2> QED BY <1>2, <1>8, <1>12, <2>1, <2>2, <2>3 DEF Connections
<1>15. Negotiation'
  <2>1. \A t \in SessionIDs : Options(t)' => Options(t)
    BY <1>3, <1>7 DEF Options
  <2> QED BY <1>2, <1>4, <1>8, <2>1 DEF Going, Negotiation, NotBefore
<1>16. SessionsAccounted'
  <2>1. \A t \in live' \ live : t = s
    BY <1>2
  <2> QED BY <1>2, <1>3, <1>7, <1>8, <2>1, AccountedStays
<1> QED BY <1>7, <1>9, <1>11, <1>13, <1>14, <1>15, <1>16 DEF IInv, Going

(* It connects.                                                            *)
LEMMA DongleConnectsStep ==
  ASSUME IInv, NEW s \in SessionIDs, DongleConnects(s)
  PROVE  IInv'
<1>1. PICK from \in {"remote", "local"} :
        /\ Post(s, "ClientConnected", from)
        /\ dongle' = [dongle EXCEPT ![s] = IF from = "local" THEN "gone" ELSE "on"]
  BY DEF DongleConnects
<1> QED BY <1>1, ConnectionMade DEF DongleConnects

(* Something happens to a connection that exists.                          *)
LEMMA TalkStep ==
  ASSUME IInv, aborted = "no", NEW s \in SessionIDs, UNCHANGED <<source, live>>,
         QueueType', QueueInOrder', Members(queue) \subseteq Members(queue'),
         \A m \in Members(queue') :
           m \in Members(queue) \/ (m.session = s /\ m.what \in {"Error", "Data"}),
         dongle[s] # "absent", dongle'[s] # "absent",
         \A t \in SessionIDs \ {s} :
           dongle'[t] = dongle[t] /\ asked'[t] = asked[t] /\ sent'[t] = sent[t],
         Met(s)' => Met(s),
         Negotiation'
  PROVE  IInv'
<1>1. Going /\ live \subseteq SessionIDs
  BY DEF IInv, TypeOK
<1>2. UNCHANGED <<mClientSessionID, mResponseHandlers, mState>>
  BY DEF source, client
<1>3. /\ TypeOK' /\ Stopping' /\ AnsweredIsClean' /\ SetupAwaitsHDCP' /\ KeptAlive'
      /\ AbortsOnlyWhenCutOff' /\ aborted' = "no"
  BY <1>1, SourceKept
<1>4. \A t \in SessionIDs : Met(t)' => Met(t)
  <2>1. SUFFICES ASSUME NEW t \in SessionIDs, t # s, Met(t)' PROVE Met(t)
    OBVIOUS
  <2> QED BY <1>2, <2>1 DEF Met
<1>5. OneClient'
  BY <1>1, <1>2, <1>4 DEF Going, OneClient
<1>6. Connections'
  <2>1. ASSUME NEW m \in Members(queue'), m.what = "ClientConnected"
        PROVE  /\ m.session \in SessionIDs /\ ~Met(m.session) /\ m.session \in live
               /\ dongle'[m.session] # "absent"
    <3>1. m \in Members(queue)
      BY <2>1
    <3> QED BY <1>1, <2>1, <3>1 DEF Going, Connections, QueueInOrder, WellFormed
  <2>2. ASSUME NEW t \in SessionIDs, dongle'[t] = "absent"
        PROVE  /\ t \notin live /\ ~Met(t)
               /\ \A m \in Members(queue') : m.session # t
    <3>1. t # s /\ dongle[t] = "absent"
      BY <2>2
    <3> QED BY <1>1, <3>1 DEF Going, Connections
  <2>3. mClientSessionID # 0 => mClientSessionID \in live
    BY <1>1 DEF Going, Connections
  <2> QED BY <1>2, <1>4, <2>1, <2>2, <2>3 DEF Connections
<1>7. SessionsAccounted'
  <2>1. queue' \in Seq(MsgType)
    BY DEF QueueType
  <2> QED BY <1>2, <2>1, AccountedStays
<1> QED BY <1>3, <1>5, <1>6, <1>7 DEF IInv, Going

(* A connection breaks.                                                    *)
LEMMA ConnectionBreaks ==
  ASSUME IInv, aborted = "no", NEW s \in SessionIDs, s \in live, Post(s, "Error", ""),
         dongle' = [dongle EXCEPT ![s] = "gone"], UNCHANGED <<source, live, sent, asked>>
  PROVE  IInv'
<1> DEFINE n == Msg("Error", s, "")
<1>1. /\ aborted = "no" /\ s \in live /\ dongle' = [dongle EXCEPT ![s] = "gone"]
      /\ UNCHANGED <<source, live, sent, asked>> /\ queue' = Append(queue, n)
  BY DEF Post
<1>2. /\ n \in MsgType /\ WellFormed(n) /\ n.what = "Error" /\ n.session = s
      /\ ~IsOptions(n)
  BY DEF Msg, MsgType, Whats, WellFormed, IsOptions
<1>3. Going /\ dongle \in [SessionIDs -> {"absent", "on", "greeted", "triggered", "set up", "gone"}]
  BY <1>1 DEF IInv, QueueType
<1>4. dongle[s] # "absent"
  BY <1>1, <1>3 DEF Going, Connections
<1>5. \A m \in Members(queue) : Fits(m, n)
  BY <1>2 DEF Fits
<1> HIDE DEF n
<1>6. /\ queue' \in Seq(MsgType) /\ QueueInOrder' /\ Members(queue') = Members(queue) \cup {n}
  BY <1>1, <1>2, <1>5, Posted
<1>7. UNCHANGED <<mClientSessionID, mResponseHandlers, mSetupTriggerDeferred>>
  BY <1>1 DEF source, client, hdcp
<1>8. dongle'[s] = "gone" /\ \A t \in SessionIDs \ {s} : dongle'[t] = dongle[t]
  BY <1>1, <1>3
<1>9. QueueType'
  <2>1. dongle' \in [SessionIDs -> {"absent", "on", "greeted", "triggered", "set up", "gone"}]
    BY <1>1, <1>3
  <2> QED BY <1>1, <1>6, <2>1 DEF IInv, QueueType
<1>10. Met(s)' => Met(s)
  BY <1>1, <1>2, <1>6, <1>7, <1>8 DEF Met
<1>11. Negotiation'
  <2>1. \A t \in SessionIDs : Options(t)' => Options(t)
    BY <1>2, <1>6 DEF Options
  <2> QED BY <1>1, <1>3, <1>7, <2>1 DEF Going, Negotiation, NotBefore
<1>12. /\ \A m \in Members(queue') :
            m \in Members(queue) \/ (m.session = s /\ m.what \in {"Error", "Data"})
       /\ Members(queue) \subseteq Members(queue')
  BY <1>2, <1>6
<1>13. \A t \in SessionIDs \ {s} :
         dongle'[t] = dongle[t] /\ asked'[t] = asked[t] /\ sent'[t] = sent[t]
  BY <1>1, <1>8
<1>14. dongle'[s] # "absent"
  BY <1>8
<1> QED BY <1>1, <1>4, <1>6, <1>9, <1>10, <1>11, <1>12, <1>13, <1>14, TalkStep

(* It leaves.                                                              *)
LEMMA DongleLeavesStep ==
  ASSUME IInv, NEW s \in SessionIDs, DongleLeaves(s)
  PROVE  IInv'
BY ConnectionBreaks DEF DongleLeaves

(* Whatever is said unasked, OPTIONS comes first and once.                 *)
LEMMA NegotiationTalks ==
  ASSUME IInv, aborted = "no", NEW s \in SessionIDs, Met(s), UNCHANGED source,
         UNCHANGED asked \/ asked' = [asked EXCEPT ![s] = @ + 1],
         \A t \in SessionIDs : Options(t)' =>
           Options(t) \/ (t = s /\ asked[s] = 0 /\ asked' # asked)
  PROVE  Negotiation'
<1>1. Going /\ asked \in [SessionIDs -> Nat]
  BY DEF IInv, QueueType
<1>2. UNCHANGED <<mResponseHandlers, mSetupTriggerDeferred>>
  BY DEF source, client, hdcp
<1>3. CASE UNCHANGED asked
  BY <1>1, <1>2, <1>3 DEF Going, Negotiation, NotBefore
<1>4. CASE asked' = [asked EXCEPT ![s] = @ + 1]
  <2>1. /\ asked'[s] # 0 /\ asked'[s] > 0
        /\ \A t \in SessionIDs \ {s} : asked'[t] = asked[t]
    <3>1. asked[s] \in Nat
      BY <1>1
    <3>2. asked[s] + 1 # 0 /\ asked[s] + 1 > 0
      BY <3>1
    <3> QED BY <1>1, <1>4, <3>2
  <2>2. \A t \in SessionIDs \ {s} : Options(t)' => Options(t)
    OBVIOUS
  <2>3. Options(s)' => /\ <<s, "M3">> \notin mResponseHandlers
                       /\ <<s, "M4">> \notin mResponseHandlers
                       /\ <<s, "M5">> \notin mResponseHandlers
    BY <1>1 DEF NotBefore, Going, Negotiation
  <2>4. ASSUME mSetupTriggerDeferred
        PROVE  \A t \in SessionIDs : NotBefore(t)'
    <3>1. PICK t \in SessionIDs : asked[t] > 0
      BY <1>1, <2>4 DEF Going, Negotiation
    <3>2. t = s
      BY <1>1, <3>1 DEF Met, Going, OneClient
    <3>3. asked[s] # 0
      <4>1. asked[s] \in Nat
        BY <1>1
      <4>2. asked[s] > 0
        BY <3>1, <3>2
      <4> QED BY <4>1, <4>2
    <3>4. \A u \in SessionIDs : NotBefore(u)
      BY <1>1, <2>4 DEF Going, Negotiation
    <3> QED BY <1>2, <3>3, <3>4 DEF NotBefore
  <2>5. \A t \in SessionIDs \ {s} : asked'[t] = 0 =>
          NotBefore(t)' /\ <<t, "M5">> \notin mResponseHandlers'
    BY <1>1, <1>2, <2>1, <2>2 DEF Going, Negotiation, NotBefore
  <2> QED BY <1>1, <1>2, <2>1, <2>2, <2>3, <2>4, <2>5 DEF Going, Negotiation
<1> QED BY <1>3, <1>4

(* It receives a message, and may answer it.                               *)
LEMMA DongleReceivesStep ==
  ASSUME IInv, NEW s \in SessionIDs, DongleReceives(s)
  PROVE  IInv'
<1> DEFINE msg == Head(sent[s])
<1>1. /\ aborted = "no" /\ sent[s] # << >> /\ sent' = [sent EXCEPT ![s] = Tail(@)]
      /\ UNCHANGED <<source, live, asked>>
      /\ dongle' = [dongle EXCEPT ![s] =
                      CASE msg = Ask("M1")   -> "greeted"
                        [] msg = Ask("M5")   -> "triggered"
                        [] msg = Ok("SETUP") -> "set up"
                        [] OTHER             -> @]
      /\ IF msg[1] = "ask" /\ s \in live
           THEN \E status \in {"ok", "refused"} : Post(s, "Data", <<status, msg[2]>>)
           ELSE UNCHANGED queue
  BY DEF DongleReceives
<1>2. /\ Going /\ sent \in [SessionIDs -> Seq(Wire)]
      /\ dongle \in [SessionIDs -> {"absent", "on", "greeted", "triggered", "set up", "gone"}]
  BY <1>1 DEF IInv, QueueType
<1>3. msg \in Wire /\ Tail(sent[s]) \in Seq(Wire)
  <2>1. sent[s] \in Seq(Wire) /\ sent[s] # << >>
    BY <1>1, <1>2
  <2> QED BY <2>1
<1>4. Met(s) /\ dongle[s] # "absent"
  <2>1. Met(s)
    BY <1>1 DEF Met
  <2> QED BY <1>2, <2>1 DEF Going, Connections
<1>5. /\ dongle'[s] \in {"greeted", "triggered", "set up", dongle[s]}
      /\ \A t \in SessionIDs \ {s} : dongle'[t] = dongle[t] /\ sent'[t] = sent[t]
      /\ sent' \in [SessionIDs -> Seq(Wire)]
      /\ dongle' \in [SessionIDs -> {"absent", "on", "greeted", "triggered", "set up", "gone"}]
  BY <1>1, <1>2, <1>3
<1> HIDE DEF msg
<1>6. CASE UNCHANGED queue
  <2>1. queue' \in Seq(MsgType) /\ QueueInOrder' /\ QueueType'
    BY <1>1, <1>2, <1>5, <1>6 DEF IInv, QueueType, Going, QueueInOrder
  <2>2. UNCHANGED <<mClientSessionID, mResponseHandlers, mSetupTriggerDeferred>>
    BY <1>1 DEF source, client, hdcp
  <2>3. Negotiation'
    BY <1>1, <1>2, <1>6, <2>2 DEF Going, Negotiation, NotBefore, Options
  <2>4. dongle'[s] # "absent"
    BY <1>4, <1>5
  <2>5. \A t \in SessionIDs \ {s} :
          dongle'[t] = dongle[t] /\ asked'[t] = asked[t] /\ sent'[t] = sent[t]
    BY <1>1, <1>5
  <2> QED BY <1>1, <1>4, <1>6, <2>1, <2>3, <2>4, <2>5, TalkStep
<1>7. ASSUME NEW status \in {"ok", "refused"}, Post(s, "Data", <<status, msg[2]>>)
      PROVE  IInv'
  <2> DEFINE n == Msg("Data", s, <<status, msg[2]>>)
  <2>1. queue' = Append(queue, n)
    BY <1>7 DEF Post
  <2>2. <<status, msg[2]>> \in Wire /\ <<status, msg[2]>> # Ask("OPTIONS")
    BY <1>3 DEF Wire, Ask
  <2>3. /\ n \in MsgType /\ WellFormed(n) /\ n.what = "Data" /\ n.session = s
        /\ ~IsOptions(n)
    BY <2>2 DEF Msg, MsgType, Whats, WellFormed, IsOptions
  <2>4. \A m \in Members(queue) : Fits(m, n)
    BY <2>3 DEF Fits
  <2> HIDE DEF n
  <2>5. /\ queue' \in Seq(MsgType) /\ QueueInOrder' /\ Members(queue') = Members(queue) \cup {n}
    BY <1>1, <2>1, <2>3, <2>4, Posted
  <2>6. QueueType'
    BY <1>1, <1>5, <2>5 DEF IInv, QueueType
  <2>7. UNCHANGED <<mClientSessionID, mResponseHandlers, mSetupTriggerDeferred>>
    BY <1>1 DEF source, client, hdcp
  <2>8. Negotiation'
    <3>1. \A t \in SessionIDs : Options(t)' => Options(t)
      BY <2>3, <2>5 DEF Options
    <3> QED BY <1>1, <1>2, <2>7, <3>1 DEF Going, Negotiation, NotBefore
  <2>9. /\ \A m \in Members(queue') :
             m \in Members(queue) \/ (m.session = s /\ m.what \in {"Error", "Data"})
        /\ Members(queue) \subseteq Members(queue')
    BY <2>3, <2>5
  <2>10. dongle'[s] # "absent"
    BY <1>4, <1>5
  <2>11. \A t \in SessionIDs \ {s} :
           dongle'[t] = dongle[t] /\ asked'[t] = asked[t] /\ sent'[t] = sent[t]
    BY <1>1, <1>5
  <2> QED BY <1>1, <1>4, <2>5, <2>6, <2>8, <2>9, <2>10, <2>11, TalkStep
<1> QED BY <1>1, <1>6, <1>7

(* It says something unasked.                                              *)
LEMMA DongleSendsStep ==
  ASSUME IInv, NEW s \in SessionIDs, DongleSends(s)
  PROVE  IInv'
<1>1. PICK msg \in MaySend(s) : Post(s, "Data", msg)
  BY DEF DongleSends
<1> DEFINE n == Msg("Data", s, msg)
<1>2. /\ aborted = "no" /\ queue' = Append(queue, n)
      /\ asked' = [asked EXCEPT ![s] = @ + 1]
      /\ UNCHANGED <<source, live, sent, dongle>>
  BY <1>1 DEF DongleSends, Post
<1>3. /\ Going /\ asked \in [SessionIDs -> Nat]
      /\ dongle \in [SessionIDs -> {"absent", "on", "greeted", "triggered", "set up", "gone"}]
  BY <1>2 DEF IInv, QueueType
<1>4. /\ dongle[s] \in {"greeted", "triggered", "set up"} /\ Met(s) /\ dongle[s] # "absent"
  <2>1. dongle[s] \in {"greeted", "triggered", "set up"}
    BY <1>1, <1>3 DEF MaySend
  <2> QED BY <2>1 DEF Met
<1>5. msg \in Wire /\ (msg = Ask("OPTIONS") => asked[s] = 0)
  <2>1. CASE dongle[s] = "greeted"
    BY <1>1, <2>1 DEF MaySend, Wire, Ask, Ok, Requests, Unasked
  <2>2. CASE dongle[s] = "triggered"
    BY <1>1, <2>2 DEF MaySend, Wire, Ask, Ok, Requests, Unasked
  <2>3. CASE dongle[s] = "set up"
    <3>1. PICK req \in {"PLAY", "TEARDOWN"} \cup Lifesigns : msg = Ask(req)
      BY <1>1, <2>3 DEF MaySend
    <3>2. req # "OPTIONS"
      BY SourceAssumption
    <3> QED BY <3>1, <3>2 DEF Wire, Ask, Unasked
  <2> QED BY <1>4, <2>1, <2>2, <2>3
<1>6. /\ n \in MsgType /\ WellFormed(n) /\ n.what = "Data" /\ n.session = s
      /\ (IsOptions(n) => asked[s] = 0)
  BY <1>5 DEF Msg, MsgType, Whats, WellFormed, IsOptions
<1> HIDE DEF n
<1>7. asked[s] = 0 => NotBefore(s) /\ <<s, "M5">> \notin mResponseHandlers
  BY <1>3 DEF Going, Negotiation
<1>8. ASSUME NEW m \in Members(queue) PROVE Fits(m, n)
  <2>1. m.session = s /\ IsOptions(m) => Options(s)
    BY DEF Options
  <2>2. m.session = s /\ IsOptions(m) => ~IsOptions(n)
    BY <1>6, <1>7, <2>1 DEF NotBefore
  <2> QED BY <1>6, <2>2 DEF Fits
<1>9. /\ queue' \in Seq(MsgType) /\ QueueInOrder' /\ Members(queue') = Members(queue) \cup {n}
  BY <1>2, <1>6, <1>8, Posted
<1>10. /\ asked' \in [SessionIDs -> Nat] /\ asked'[s] # 0 /\ asked'[s] > 0
       /\ \A t \in SessionIDs \ {s} : asked'[t] = asked[t]
  <2>1. asked[s] \in Nat
    BY <1>3
  <2>2. asked[s] + 1 \in Nat /\ asked[s] + 1 # 0 /\ asked[s] + 1 > 0
    BY <2>1
  <2> QED BY <1>2, <1>3, <2>2
<1>11. QueueType'
  BY <1>2, <1>9, <1>10 DEF IInv, QueueType
<1>12. UNCHANGED <<mClientSessionID, mResponseHandlers, mSetupTriggerDeferred>>
  BY <1>2 DEF source, client, hdcp
<1>13. Negotiation'
  <2>1. \A t \in SessionIDs : Options(t)' => Options(t) \/ (t = s /\ asked[s] = 0)
    BY <1>6, <1>9 DEF Options
  <2>2. asked' # asked
    <3>1. asked[s] \in Nat /\ asked'[s] = asked[s] + 1
      BY <1>2, <1>3
    <3> QED BY <3>1
  <2> QED BY <1>2, <1>4, <2>1, <2>2, NegotiationTalks
<1>14. /\ \A m \in Members(queue') :
            m \in Members(queue) \/ (m.session = s /\ m.what \in {"Error", "Data"})
       /\ Members(queue) \subseteq Members(queue')
  BY <1>6, <1>9
<1>15. \A t \in SessionIDs \ {s} :
         dongle'[t] = dongle[t] /\ asked'[t] = asked[t] /\ sent'[t] = sent[t]
  BY <1>2, <1>10
<1>16. dongle'[s] # "absent"
  BY <1>2, <1>4
<1> QED BY <1>2, <1>4, <1>9, <1>11, <1>13, <1>14, <1>15, <1>16, TalkStep

-----------------------------------------------------------------------------
(* The invariant is inductive                                              *)

(* It holds at the start.                                                  *)
LEMMA InitIInv == Init => IInv
<1> SUFFICES ASSUME Init PROVE IInv
  OBVIOUS
<1> USE DEF Init
<1>1. TypeOK
  <2>1. Flags
    BY DEF Flags
  <2>2. Names
    BY DEF Names, States
  <2>3. replies \in 0..1
    OBVIOUS
  <2>4. Numbers
    BY <2>3 DEF Numbers
  <2> QED BY <2>1, <2>2, <2>4 DEF TypeOK, Flags, Names, Numbers
<1>2. QueueType
  BY DEF QueueType
<1>3. queue = << >> /\ Members(queue) = {} /\ Len(queue) = 0
  BY DEF Members
<1>4. QueueInOrder
  BY <1>3 DEF QueueInOrder, Ordered
<1>5. \A s \in SessionIDs : ~Met(s)
  BY <1>3, NoSession DEF Met
<1>6. OneClient
  BY <1>5 DEF OneClient
<1>7. Connections
  BY <1>3, <1>5 DEF Connections
<1>8. Stopping
  <2>1. mState \notin AfterSetup \cup BeingStopped
    BY DEF AfterSetup, BeingStopped
  <2>2. replies # 1
    BY NoReply
  <2>3. mHDCP # "shutting down" /\ ~finishStop2
    OBVIOUS
  <2> QED BY <1>3, <2>1, <2>2, <2>3 DEF Stopping, BeingStopped
<1>9. Negotiation
  BY <1>3 DEF Negotiation, NotBefore, Options
<1>10. KeptAlive
  BY DEF KeptAlive
<1>11. ~(replies > 0)
  BY NoReply
<1>12. AnsweredIsClean
  BY <1>11 DEF AnsweredIsClean
<1>13. SessionsAccounted
  BY DEF SessionsAccounted
<1>14. SetupAwaitsHDCP
  BY DEF SetupAwaitsHDCP
<1>15. AbortsOnlyWhenCutOff
  BY DEF AbortsOnlyWhenCutOff
<1> QED BY <1>1, <1>2, <1>4, <1>6, <1>7, <1>8, <1>9, <1>10, <1>12, <1>13, <1>14, <1>15
        DEF IInv, Going

(* Every operation of the source preserves it.                             *)
LEMMA SourceStep ==
  ASSUME IInv, SourceNext, UNCHANGED peer
  PROVE  IInv'
<1>1. CASE Start
  BY <1>1, StartStep
<1>2. CASE StopCall
  BY <1>2, StopCallStep
<1>3. CASE OnStop
  BY <1>3, StopStep
<1>4. CASE OnError
  BY <1>4, ErrorStep
<1>5. CASE OnClientConnected
  BY <1>5, ConnectedStep
<1>6. CASE OnUnsolicited \/ OnPlainResponse \/ SessionNotFound \/ OnLifesign
  BY <1>6, AnswerStep
<1>7. CASE OnM3Response
  BY <1>7, M3Step
<1>8. CASE OnM4Response
  BY <1>8, M4Step
<1>9. CASE OnM16Response
  BY <1>9, M16Step
<1>10. CASE OnOptionsRequest
  BY <1>10, OptionsStep
<1>11. CASE OnSetupRequest
  BY <1>11, SetupStep
<1>12. CASE OnPlayRequest
  BY <1>12, PlayStep
<1>13. CASE OnTeardownRequest
  BY <1>13, TeardownStep
<1>14. CASE OnSessionEstablished
  BY <1>14, EstablishedStep
<1>15. CASE OnSessionDestroyed
  BY <1>15, DestroyedStep
<1>16. CASE TeardownTriggerTimedOut
  BY <1>16, TeardownTimedOutStep
<1>17. CASE OnFinishStop2
  BY <1>17, FinishStop2Step
<1>18. CASE OnKeepAlive
  BY <1>18, KeepAliveStep
<1>19. CASE OnReapDeadClients
  BY <1>19, ReapStep
<1>20. CASE PlaybackEstablished
  BY <1>20, PlaybackEstablishedStep
<1>21. CASE PlaybackDestroyed
  BY <1>21, PlaybackDestroyedStep
<1>22. CASE OnSessionDead \/ OnHDCPFailed
  BY <1>22, ShowStep
<1>23. CASE OnHDCPReady
  BY <1>23, HDCPReadyStep
<1>24. CASE OnHDCPShutdown
  BY <1>24, HDCPShutdownStep
<1> QED BY <1>1, <1>2, <1>3, <1>4, <1>5, <1>6, <1>7, <1>8, <1>9, <1>10, <1>11, <1>12,
           <1>13, <1>14, <1>15, <1>16, <1>17, <1>18, <1>19, <1>20, <1>21, <1>22, <1>23,
           <1>24 DEF SourceNext, Queued

(* So does a step of something else.                                       *)
LEMMA StutterStep ==
  ASSUME IInv, UNCHANGED <<vars, peer>>
  PROVE  IInv'
<1>1. UNCHANGED <<queue, sent, live, peer, mState, client, playback, mResponseHandlers,
                  timers, finishPlay, hdcp, stopping, stopCalled, displayError, aborted>>
  BY DEF vars
<1>2. /\ sent \in [SessionIDs -> Seq(Wire)] /\ teardownTimer \in BOOLEAN
      /\ finishPlay \in BOOLEAN /\ displayError \in BOOLEAN /\ keepAlives \subseteq SessionIDs
      /\ mResponseHandlers \subseteq SessionIDs \X Requests
  BY DEF IInv, TypeOK, QueueType
<1>3. UNCHANGED <<mReaperPending, keepAlives, teardownTimer, finishStop2, mClientSessionID>>
  BY <1>1 DEF timers, client
<1>4. CASE aborted = "no"
  <2>1. Quiet(0)
    BY <1>1, <1>2, <1>3, <1>4, NoSession DEF Quiet, OneLess
  <2> QED BY <2>1, QuietStep
<1>5. CASE aborted # "no"
  <2>1. AbortsOnlyWhenCutOff'
    BY <1>1, <1>3 DEF IInv, AbortsOnlyWhenCutOff, CutOff
  <2>2. TypeOK'
    <3>1. Flags'
      BY <1>1 DEF IInv, TypeOK, Flags, client, timers, hdcp, stopping
    <3>2. Names'
      BY <1>1 DEF IInv, TypeOK, Names, States, stopping
    <3>3. Numbers'
      BY <1>1 DEF IInv, TypeOK, Numbers, client, timers, stopping
    <3> QED BY <3>1, <3>2, <3>3 DEF TypeOK, Flags, Names, Numbers
  <2>3. QueueType'
    BY <1>1 DEF IInv, QueueType, peer
  <2>4. SetupAwaitsHDCP'
    BY <1>1 DEF IInv, SetupAwaitsHDCP, hdcp
  <2> QED BY <1>1, <1>5, <2>1, <2>2, <2>3, <2>4, AbortStep
<1> QED BY <1>4, <1>5

(* Every operation of the source, and all that dongles do, preserve it.    *)
LEMMA Inductive == IInv /\ [Next]_<<vars, peer>> => IInv'
<1> SUFFICES ASSUME IInv, [Next]_<<vars, peer>> PROVE IInv'
  OBVIOUS
<1>1. CASE SourceNext /\ UNCHANGED peer
  BY <1>1, SourceStep
<1>2. ASSUME NEW s \in SessionIDs,
             DongleConnects(s) \/ DongleReceives(s) \/ DongleSends(s) \/ DongleLeaves(s)
      PROVE  IInv'
  BY <1>2, DongleConnectsStep, DongleReceivesStep, DongleSendsStep, DongleLeavesStep
<1>3. CASE UNCHANGED <<vars, peer>>
  BY <1>3, StutterStep
<1> QED BY <1>1, <1>2, <1>3 DEF Next, DongleNext

-----------------------------------------------------------------------------
(* Theorems                                                                *)

(* IInv holds in every state.                                              *)
LEMMA Invariance == Spec => []IInv
<1> QED BY InitIInv, Inductive, PTL DEF Spec

(* The state keeps its types, and stop() is answered at most once, whatever*)
(* dongles do.                                                             *)
THEOREM TypeCorrect == Spec => []TypeOK
<1>1. IInv => TypeOK
  BY DEF IInv
<1> QED BY <1>1, Invariance, PTL

(* Nothing is left behind when stop() is answered: no client, no playback  *)
(* session, no HDCP module, no listening session.                          *)
THEOREM StopsCompletely == Spec => []AnsweredIsClean
<1>1. IInv => AnsweredIsClean
  BY DEF IInv, Going, AnsweredIsClean
<1> QED BY <1>1, Invariance, PTL

(* No network session outlives the source's interest in it unnoticed.      *)
THEOREM LeaksNoSession == Spec => []SessionsAccounted
<1>1. IInv => SessionsAccounted
  BY DEF IInv, Going, SessionsAccounted
<1> QED BY <1>1, Invariance, PTL

(* A dongle is not told to SETUP before HDCP is initialised, and is not    *)
(* forgotten once it is.                                                   *)
THEOREM SetsUpAfterHDCP == Spec => []SetupAwaitsHDCP
<1>1. IInv => SetupAwaitsHDCP
  BY DEF IInv
<1> QED BY <1>1, Invariance, PTL

(* The CHECKs of the handlers fail only in a session that was cut off.     *)
THEOREM ChecksHoldUnlessCutOff == Spec => []AbortsOnlyWhenCutOff
<1>1. IInv => AbortsOnlyWhenCutOff
  BY DEF IInv
<1> QED BY <1>1, Invariance, PTL

(* The handlers of the queue's messages let the reaper be.                 *)
LEMMA QueuedKeepReaper ==
  ASSUME Queued, mReaperPending
  PROVE  mReaperPending'
<1>1. CASE OnStop
  BY <1>1 DEF OnStop
<1>2. CASE OnError
  BY <1>2 DEF OnError, timers
<1>3. CASE OnClientConnected
  BY <1>3 DEF OnClientConnected, timers
<1>4. CASE OnUnsolicited
  BY <1>4 DEF OnUnsolicited, timers
<1>5. CASE OnPlainResponse
  BY <1>5 DEF OnPlainResponse, timers
<1>6. CASE OnM3Response
  BY <1>6 DEF OnM3Response, timers
<1>7. CASE OnM4Response
  BY <1>7 DEF OnM4Response, timers
<1>8. CASE OnM16Response
  BY <1>8 DEF OnM16Response, timers
<1>9. CASE OnOptionsRequest
  BY <1>9 DEF OnOptionsRequest, timers
<1>10. CASE OnSetupRequest
  BY <1>10 DEF OnSetupRequest, RefuseSetup
<1>11. CASE SessionNotFound
  BY <1>11 DEF SessionNotFound, timers
<1>12. CASE OnPlayRequest
  BY <1>12 DEF OnPlayRequest, timers
<1>13. CASE OnLifesign
  BY <1>13 DEF OnLifesign, timers
<1>14. CASE OnTeardownRequest
  BY <1>14 DEF OnTeardownRequest, timers
<1>15. CASE OnSessionEstablished
  BY <1>15 DEF OnSessionEstablished, timers
<1>16. CASE OnSessionDestroyed
  BY <1>16 DEF OnSessionDestroyed, timers
<1> QED BY <1>1, <1>2, <1>3, <1>4, <1>5, <1>6, <1>7, <1>8, <1>9, <1>10, <1>11, <1>12,
           <1>13, <1>14, <1>15, <1>16 DEF Queued

(* The source puts the reaper to rest in its own handler only.             *)
LEMMA SourceKeepsReaper ==
  ASSUME SourceNext, mReaperPending
  PROVE  mReaperPending' \/ OnReapDeadClients
<1>1. CASE Start
  BY <1>1 DEF Start, timers
<1>2. CASE StopCall
  BY <1>2 DEF StopCall, timers
<1>3. CASE Queued
  BY <1>3, QueuedKeepReaper
<1>4. CASE TeardownTriggerTimedOut
  BY <1>4 DEF TeardownTriggerTimedOut
<1>5. CASE OnFinishStop2
  BY <1>5 DEF OnFinishStop2
<1>6. CASE OnKeepAlive
  BY <1>6 DEF OnKeepAlive
<1>7. CASE PlaybackEstablished
  BY <1>7 DEF PlaybackEstablished, timers
<1>8. CASE PlaybackDestroyed
  BY <1>8 DEF PlaybackDestroyed, timers
<1>9. CASE OnSessionDead
  BY <1>9 DEF OnSessionDead, timers
<1>10. CASE OnHDCPReady
  BY <1>10 DEF OnHDCPReady, timers
<1>11. CASE OnHDCPFailed
  BY <1>11 DEF OnHDCPFailed, timers
<1>12. CASE OnHDCPShutdown
  BY <1>12 DEF OnHDCPShutdown, timers
<1> QED BY <1>1, <1>2, <1>3, <1>4, <1>5, <1>6, <1>7, <1>8, <1>9, <1>10, <1>11, <1>12
        DEF SourceNext

(* Who is reaped owes an answer.                                           *)
LEMMA ReapedIsSilent ==
  ASSUME IInv, mReaperPending, mClientSessionID # 0, OnReapDeadClients,
         mClientSessionID' = 0
  PROVE  <<mClientSessionID, "M16">> \in mResponseHandlers
<1>1. /\ aborted = "no" /\ playback # "none"
      /\ mClientSessionID \notin keepAlives
  BY DEF OnReapDeadClients, Due, TimedOut
<1>2. KeptAlive
  BY <1>1 DEF IInv, Going
<1> QED BY <1>1, <1>2 DEF KeptAlive

(* The reaper of dead clients is put to rest by itself only.               *)
LEMMA ReaperRestsItself ==
  ASSUME [Next]_<<vars, peer>>, mReaperPending
  PROVE  mReaperPending' \/ OnReapDeadClients
<1>1. CASE DongleNext
  BY <1>1 DEF DongleNext, DongleConnects, DongleReceives, DongleSends, DongleLeaves,
              source, timers
<1>2. CASE SourceNext
  BY <1>2, SourceKeepsReaper
<1>3. CASE UNCHANGED <<vars, peer>>
  BY <1>3 DEF vars, timers
<1> QED BY <1>1, <1>2, <1>3 DEF Next

(* A client is reaped only while it owes an answer to an M16: the chain of *)
(* keep-alives does not break on the source's side.                        *)
THEOREM ReapsTheSilentOnly == Spec => ReapedOnlyIfSilent
<1>1. ASSUME IInv, [Next]_<<vars, peer>>, mReaperPending, ~mReaperPending',
             mClientSessionID # 0, mClientSessionID' = 0
      PROVE  <<mClientSessionID, "M16">> \in mResponseHandlers
  <2>1. OnReapDeadClients
    BY <1>1, ReaperRestsItself
  <2> QED BY <1>1, <2>1, ReapedIsSilent
<1>2. IInv /\ [Next]_<<vars, peer>> =>
        [ (mReaperPending /\ ~mReaperPending' /\ mClientSessionID # 0
             /\ mClientSessionID' = 0)
          => <<mClientSessionID, "M16">> \in mResponseHandlers ]_vars
  BY <1>1
<1>3. Spec => [][Next]_<<vars, peer>>
  BY DEF Spec
<1> QED BY <1>2, <1>3, Invariance, PTL DEF ReapedOnlyIfSilent
=============================================================================
