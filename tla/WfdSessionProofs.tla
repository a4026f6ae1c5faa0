-------------------------- MODULE WfdSessionProofs --------------------------
(***************************************************************************)
(* Proofs about the source and the sinks of this repository connected to   *)
(* each other, for every number of sinks. The sinks are dongles: what is   *)
(* proved of the source with dongles is carried over to them, and the      *)
(* lemmas about its steps are those of DongleProofs.                       *)
(***************************************************************************)
EXTENDS WfdSession, DongleProofs

-----------------------------------------------------------------------------
(* The inductive invariant                                                 *)

(* The messages that bring a sink from its connection to PLAY, each the    *)
(* answer to the one before: those before SETUP and all of them.           *)
EarlyToSink   == {Ask("M1"), Ask("M3"), Ask("M4"), Ask("M5")}
EarlyToSource == {Ask("OPTIONS"), Ok("M3"), Ok("M4")}
ToSink        == EarlyToSink \cup {Ok("SETUP"), Ok("PLAY")}
ToSource      == EarlyToSource \cup {Ask("SETUP"), Ask("PLAY")}

(* Those of sink s that the source has not handled yet.                    *)
IsBaton(m) == m.what = "ClientConnected" \/ (m.what = "Data" /\ m.arg \in ToSource)
Batons(s)  == {m \in MsgType : m.session = s /\ IsBaton(m)}

(* No two of q are in S.                                                   *)
Lone(q, S) == \A i, j \in 1..Len(q) : q[i] \in S /\ q[j] \in S => i = j

(* Nothing of p and q is in S and T.                                       *)
NotBoth(p, S, q, T) == \A m \in Members(p), x \in Members(q) : ~(m \in S /\ x \in T)

(* One of them is under way at a time.                                     *)
OneBaton(s) ==
  /\ Lone(queue, Batons(s)) /\ Lone(sent[s], ToSink)
  /\ NotBoth(queue, Batons(s), sent[s], ToSink)

IsUp(s) == sink[s].mState \in {"PAUSED", "PLAYING"}

(* How far a sink is when the source has this message of it in its queue.  *)
StageThere(s, m) ==
  /\ m.what = "ClientConnected" => asked[s] = 0
  /\ m.what = "Data" /\ m.arg \in EarlyToSource => playback = "none"
  /\ m.what = "ClientConnected" \/ (m.what = "Data" /\ m.arg \in EarlyToSource) =>
       sink[s].mRTPSinks = 0 /\ ~IsUp(s)
  /\ m.what = "Data" /\ m.arg = Ask("SETUP") => sink[s].mRTPSinks = 1 /\ ~IsUp(s)

(* How far sink and source are when this message is on its way to the sink.*)
StageHere(s, x) ==
  /\ x = Ask("M1") => asked[s] = 0
  /\ x \in EarlyToSink => sink[s].mRTPSinks = 0 /\ ~IsUp(s) /\ playback = "none"
  /\ x = Ok("SETUP") /\ aborted = "no" => mState \in {"AWAITING_CLIENT_PLAY"} \cup BeingStopped
  /\ x = Ok("PLAY") /\ aborted = "no" => mState \in {"ABOUT_TO_PLAY", "PLAYING"} \cup BeingStopped

(* How far it is on its own: it has not started, or asked for all it has.  *)
StageOf(s) ==
  /\ sink[s].mState = "UNDEFINED" =>
       /\ sink[s].mRTPSinks = 0 /\ ~sink[s].mSessionID /\ ~sink[s].aborted
       /\ sink[s].mResponseHandlers = {} /\ dongle[s] = "absent"
  /\ sink[s].mRTPSinks # 0 \/ IsUp(s) \/ sink[s].mResponseHandlers # {} => asked[s] # 0

Stages(s) ==
  /\ \A m \in Members(queue) : m.session = s => StageThere(s, m)
  /\ \A x \in Members(sent[s]) : StageHere(s, x)
  /\ StageOf(s)

(* What the source says, and what it shows when it refuses something.      *)
Spoken(s) ==
  /\ \A x \in Members(sent[s]) : /\ x[1] = "ask" => x[2] \in Requests
                                 /\ x[1] = "refused" => displayError
  /\ sink[s].aborted => displayError

(* It speaks to one sink only.                                             *)
Touched(s) == sent[s] # << >> \/ asked[s] # 0
OneServed  == \A s, t \in SessionIDs : Touched(s) /\ Touched(t) => s = t

Sinks ==
  [mState : {"UNDEFINED", "CONNECTING", "CONNECTED", "PAUSED", "PLAYING"},
   mSessionID : BOOLEAN, mResponseHandlers : SUBSET {"OPTIONS", "SETUP", "PLAY"},
   mRTPSinks : Nat, mPresentation_URL : BOOLEAN, aborted : BOOLEAN]

SinkTypeOK == sink \in [SessionIDs -> Sinks]

(* What the sinks play.                                                    *)
PlaysAsAsked(s) ==
  aborted = "no" =>
    /\ sink[s].mState = "PAUSED" => mState \in AfterSetup \cup BeingStopped
    /\ sink[s].mState = "PLAYING" =>
         mState \in {"ABOUT_TO_PLAY", "PLAYING"} \cup BeingStopped

Of(s) == OneBaton(s) /\ Stages(s) /\ Spoken(s) /\ PlaysAsAsked(s)

SInv ==
  /\ SinkTypeOK /\ mHDCP = "none" /\ OneServed /\ SocketsAreBound
  /\ \A s \in SessionIDs : Of(s)

-----------------------------------------------------------------------------
(* Sequences                                                               *)

(* What is left of a sequence.                                             *)
LEMMA LoneTail ==
  ASSUME NEW T, NEW q \in Seq(T), q # << >>
  PROVE  /\ Head(q) \in Members(q) /\ Head(q) \in T
         /\ Tail(q) \in Seq(T) /\ Members(Tail(q)) \subseteq Members(q)
         /\ \A S : Lone(q, S) => /\ Lone(Tail(q), S)
                                 /\ Head(q) \in S => \A x \in Members(Tail(q)) : x \notin S
<1>1. /\ Len(q) \in Nat \ {0} /\ Head(q) = q[1] /\ Head(q) \in T
      /\ Tail(q) \in Seq(T) /\ Len(Tail(q)) = Len(q) - 1
      /\ \A i \in 1..Len(Tail(q)) : Tail(q)[i] = q[i+1] /\ i+1 \in 1..Len(q)
  OBVIOUS
<1>2. Head(q) \in Members(q) /\ Members(Tail(q)) \subseteq Members(q)
  BY <1>1 DEF Members
<1>3. ASSUME NEW S, Lone(q, S) PROVE Lone(Tail(q), S)
  <2> SUFFICES ASSUME NEW i \in 1..Len(Tail(q)), NEW j \in 1..Len(Tail(q)),
                      Tail(q)[i] \in S, Tail(q)[j] \in S
               PROVE  i = j
    BY DEF Lone
  <2>1. i+1 = j+1
    BY <1>1, <1>3 DEF Lone
  <2> QED BY <1>1, <2>1
<1>4. ASSUME NEW S, Lone(q, S), Head(q) \in S, NEW i \in 1..Len(Tail(q))
      PROVE  Tail(q)[i] \notin S
  <2>1. i+1 # 1 /\ 1 \in 1..Len(q) /\ i+1 \in 1..Len(q)
    BY <1>1
  <2> QED BY <1>1, <1>4, <2>1 DEF Lone
<1>5. \A S : Lone(q, S) /\ Head(q) \in S => \A x \in Members(Tail(q)) : x \notin S
  BY <1>4 DEF Members
<1> QED BY <1>1, <1>2, <1>3, <1>5

(* Two sequences in a row.                                                 *)
LEMMA LoneConcat ==
  ASSUME NEW T, NEW p \in Seq(T), NEW q \in Seq(T)
  PROVE  /\ p \o q \in Seq(T) /\ Members(p \o q) = Members(p) \cup Members(q)
         /\ \A S : Lone(p, S) /\ Lone(q, S) /\ NotBoth(p, S, q, S) => Lone(p \o q, S)
<1>1. /\ Len(p) \in Nat /\ Len(q) \in Nat
      /\ p \o q \in Seq(T) /\ Len(p \o q) = Len(p) + Len(q)
      /\ \A i \in 1..Len(p) : (p \o q)[i] = p[i]
      /\ \A i \in Len(p)+1..Len(p)+Len(q) : (p \o q)[i] = q[i - Len(p)]
  OBVIOUS
<1>2. \A i \in 1..Len(p \o q) : \/ i \in 1..Len(p)
                                \/ i \in Len(p)+1..Len(p)+Len(q) /\ i - Len(p) \in 1..Len(q)
  BY <1>1
<1>3. Members(p \o q) = Members(p) \cup Members(q)
  <2>1. ASSUME NEW i \in 1..Len(p) PROVE p[i] \in Members(p \o q)
    <3>1. i \in 1..Len(p \o q)
      BY <1>1
    <3> QED BY <1>1, <3>1 DEF Members
  <2>2. ASSUME NEW i \in 1..Len(q) PROVE q[i] \in Members(p \o q)
    <3>1. Len(p) + i \in 1..Len(p \o q) /\ Len(p) + i \in Len(p)+1..Len(p)+Len(q)
          /\ (Len(p) + i) - Len(p) = i
      BY <1>1
    <3>2. (p \o q)[Len(p) + i] = q[i]
      BY <1>1, <3>1
    <3> QED BY <3>1, <3>2 DEF Members
  <2>3. ASSUME NEW i \in 1..Len(p \o q) PROVE (p \o q)[i] \in Members(p) \cup Members(q)
    <3>1. CASE i \in 1..Len(p)
      BY <1>1, <3>1 DEF Members
    <3>2. CASE i \in Len(p)+1..Len(p)+Len(q) /\ i - Len(p) \in 1..Len(q)
      BY <1>1, <3>2 DEF Members
    <3> QED BY <1>2, <3>1, <3>2
  <2> QED BY <2>1, <2>2, <2>3 DEF Members
<1>4. ASSUME NEW S, Lone(p, S), Lone(q, S), NotBoth(p, S, q, S),
             NEW i \in 1..Len(p \o q), NEW j \in 1..Len(p \o q),
             (p \o q)[i] \in S, (p \o q)[j] \in S
      PROVE  i = j
  <2>1. CASE i \in 1..Len(p) /\ j \in 1..Len(p)
    BY <1>1, <1>4, <2>1 DEF Lone
  <2>2. CASE /\ i \in Len(p)+1..Len(p)+Len(q) /\ i - Len(p) \in 1..Len(q)
             /\ j \in Len(p)+1..Len(p)+Len(q) /\ j - Len(p) \in 1..Len(q)
    <3>1. q[i - Len(p)] \in S /\ q[j - Len(p)] \in S
      BY <1>1, <1>4, <2>2
    <3>2. i - Len(p) = j - Len(p)
      BY <1>4, <2>2, <3>1 DEF Lone
    <3> QED BY <1>1, <2>2, <3>2
  <2>3. CASE i \in 1..Len(p) /\ j \in Len(p)+1..Len(p)+Len(q) /\ j - Len(p) \in 1..Len(q)
    <3>1. p[i] \in Members(p) /\ q[j - Len(p)] \in Members(q)
      BY <2>3 DEF Members
    <3>2. p[i] \in S /\ q[j - Len(p)] \in S
      BY <1>1, <1>4, <2>3
    <3> QED BY <1>4, <3>1, <3>2 DEF NotBoth
  <2>4. CASE j \in 1..Len(p) /\ i \in Len(p)+1..Len(p)+Len(q) /\ i - Len(p) \in 1..Len(q)
    <3>1. p[j] \in Members(p) /\ q[i - Len(p)] \in Members(q)
      BY <2>4 DEF Members
    <3>2. p[j] \in S /\ q[i - Len(p)] \in S
      BY <1>1, <1>4, <2>4
    <3> QED BY <1>4, <3>1, <3>2 DEF NotBoth
  <2> QED BY <1>2, <2>1, <2>2, <2>3, <2>4
<1>5. \A S : Lone(p, S) /\ Lone(q, S) /\ NotBoth(p, S, q, S) => Lone(p \o q, S)
  <2> SUFFICES ASSUME NEW S, Lone(p, S), Lone(q, S), NotBoth(p, S, q, S)
               PROVE  \A i, j \in 1..Len(p \o q) :
                        (p \o q)[i] \in S /\ (p \o q)[j] \in S => i = j
    BY DEF Lone
  <2> QED BY <1>4
<1> QED BY <1>1, <1>3, <1>5

(* Short ones.                                                             *)
LEMMA LoneShort ==
  /\ Members(<< >>) = {} /\ \A S : Lone(<< >>, S)
  /\ \A a : Members(<<a>>) = {a} /\ \A S : Lone(<<a>>, S)
  /\ \A a, b : /\ Members(<<a, b>>) = {a, b}
               /\ \A S : ~(a \in S /\ b \in S) => Lone(<<a, b>>, S)
<1>1. Members(<< >>) = {} /\ \A S : Lone(<< >>, S)
  BY DEF Members, Lone
<1>2. ASSUME NEW a PROVE Members(<<a>>) = {a} /\ \A S : Lone(<<a>>, S)
  <2>1. 1..Len(<<a>>) = {1} /\ <<a>>[1] = a
    OBVIOUS
  <2> QED BY <2>1 DEF Members, Lone
<1>3. ASSUME NEW a, NEW b
      PROVE  /\ Members(<<a, b>>) = {a, b}
             /\ \A S : ~(a \in S /\ b \in S) => Lone(<<a, b>>, S)
  <2>1. 1..Len(<<a, b>>) = {1, 2} /\ <<a, b>>[1] = a /\ <<a, b>>[2] = b
    OBVIOUS
  <2> QED BY <2>1 DEF Members, Lone
<1> QED BY <1>1, <1>2, <1>3

-----------------------------------------------------------------------------
(* What the source does with the messages                                  *)

(* What a step of the source takes off its queue, or puts on it.           *)
Looper ==
  \/ UNCHANGED queue
  \/ queue # << >> /\ queue' = Tail(queue)
  \/ \E n \in MsgType : n.session = 0 /\ queue' = Append(queue, n)

(* The source says out to S.                                               *)
Says(S, out) ==
  /\ S \in SessionIDs /\ out \in Seq(Wire)
  /\ \A t \in SessionIDs : sent'[t] = IF t = S THEN sent[S] \o out ELSE sent[t]
  /\ \A x \in Members(out) : /\ x[1] = "ask" => x[2] \in Requests
                             /\ x[1] = "refused" => displayError'

(* The queue keeps its order and gets nothing of the sinks.                *)
LEMMA LooperKeeps ==
  ASSUME IInv, Looper
  PROVE  /\ \A m \in Members(queue') : m \in Members(queue) \/ m.session = 0
         /\ \A s \in SessionIDs : Lone(queue, Batons(s)) => Lone(queue', Batons(s))
<1>1. queue \in Seq(MsgType)
  BY DEF IInv, QueueType
<1>2. CASE UNCHANGED queue
  BY <1>2
<1>3. CASE queue # << >> /\ queue' = Tail(queue)
  BY <1>1, <1>3, LoneTail
<1>4. ASSUME NEW n \in MsgType, n.session = 0, queue' = Append(queue, n)
      PROVE  /\ \A m \in Members(queue') : m \in Members(queue) \/ m.session = 0
             /\ \A s \in SessionIDs : Lone(queue, Batons(s)) => Lone(queue', Batons(s))
  <2>1. queue' = queue \o <<n>> /\ <<n>> \in Seq(MsgType)
    BY <1>1, <1>4
  <2>2. Members(<<n>>) = {n} /\ \A S : Lone(<<n>>, S)
    BY LoneShort
  <2>3. Members(queue') = Members(queue) \cup {n}
    BY <1>1, <2>1, <2>2, LoneConcat
  <2>4. ASSUME NEW s \in SessionIDs, Lone(queue, Batons(s))
        PROVE  Lone(queue', Batons(s))
    <3>1. n \notin Batons(s)
      BY <1>4, NoSession DEF Batons
    <3>2. NotBoth(queue, Batons(s), <<n>>, Batons(s))
      BY <2>2, <3>1 DEF NotBoth
    <3> QED BY <1>1, <2>1, <2>2, <2>4, <3>2, LoneConcat
  <2> QED BY <1>4, <2>3, <2>4
<1> QED BY <1>2, <1>3, <1>4 DEF Looper

(* What is on its way to the sinks then.                                   *)
LEMMA SaysAdds ==
  ASSUME IInv, NEW S, NEW out, Says(S, out)
  PROVE  /\ Members(sent'[S]) = Members(sent[S]) \cup Members(out)
         /\ \A T : /\ Lone(sent[S], T) /\ Lone(out, T) /\ NotBoth(sent[S], T, out, T)
                   => Lone(sent'[S], T)
         /\ \A t \in SessionIDs \ {S} : sent'[t] = sent[t]
<1>1. /\ S \in SessionIDs /\ sent[S] \in Seq(Wire) /\ out \in Seq(Wire)
      /\ sent'[S] = sent[S] \o out
      /\ \A t \in SessionIDs \ {S} : sent'[t] = sent[t]
  BY DEF IInv, QueueType, Says
<1>2. /\ Members(sent[S] \o out) = Members(sent[S]) \cup Members(out)
      /\ \A T : /\ Lone(sent[S], T) /\ Lone(out, T) /\ NotBoth(sent[S], T, out, T)
                => Lone(sent[S] \o out, T)
  BY <1>1, LoneConcat
<1> QED BY <1>1, <1>2

(* What it says is sent if the session is there.                           *)
LEMMA Saying ==
  ASSUME IInv, NEW S \in SessionIDs, NEW msgs \in Seq(Wire), Send(S, msgs),
         \A x \in Members(msgs) : /\ x[1] = "ask" => x[2] \in Requests
                                  /\ x[1] = "refused" => displayError'
  PROVE  Says(S, msgs) \/ (UNCHANGED sent /\ Says(S, << >>))
<1>1. sent \in [SessionIDs -> Seq(Wire)]
  BY DEF IInv, QueueType
<1>2. CASE S \in live
  BY <1>1, <1>2 DEF Send, Says
<1>3. CASE S \notin live
  <2>1. sent' = sent /\ << >> \in Seq(Wire) /\ Members(<< >>) = {}
    BY <1>3, LoneShort DEF Send
  <2>2. sent[S] \o << >> = sent[S]
    BY <1>1
  <2> QED BY <2>1, <2>2 DEF Says
<1> QED BY <1>2, <1>3

(* The sinks are met if they are spoken to.                                *)
LEMMA TouchedMet ==
  ASSUME IInv, NEW s \in SessionIDs, Touched(s)
  PROVE  Met(s)
<1>1. asked[s] \in Nat
  BY DEF IInv, QueueType
<1>2. asked[s] # 0 => asked[s] > 0
  BY <1>1
<1> QED BY <1>2 DEF Touched, Met

(* What one is that is not spoken to.                                      *)
LEMMA Untouched ==
  ASSUME SInv, NEW s \in SessionIDs, ~Touched(s)
  PROVE  sent[s] = << >> /\ asked[s] = 0 /\ sink[s].mRTPSinks = 0 /\ ~IsUp(s)
<1>1. StageOf(s)
  BY DEF SInv, Of, Stages
<1> QED BY <1>1 DEF Touched, StageOf

(* A playback session that stays keeps the sockets of its sink.            *)
LEMMA SocketsKept ==
  ASSUME SInv, mClientSessionID' \in {mClientSessionID, 0}, UNCHANGED sink,
         playback = "none" => playback' = "none"
  PROVE  SocketsAreBound'
<1> SUFFICES ASSUME playback # "none"
             PROVE  \E s \in SessionIDs :
                      /\ mClientSessionID' \in {s, 0}
                      /\ \A t \in SessionIDs :
                           sink'[t].mRTPSinks = IF t = s THEN 1 ELSE 0
  BY DEF SocketsAreBound
<1>1. PICK s \in SessionIDs :
        /\ mClientSessionID \in {s, 0}
        /\ \A t \in SessionIDs : sink[t].mRTPSinks = IF t = s THEN 1 ELSE 0
  BY DEF SInv, SocketsAreBound
<1>2. mClientSessionID' \in {s, 0}
  BY <1>1
<1> QED BY <1>1, <1>2

(* A step that takes the sinks no further.                                 *)
Ordinary ==
  /\ aborted = "no" /\ UNCHANGED <<peer, sink>> /\ Looper
  /\ playback = "none" => playback' = "none"
  /\ \/ mState' \in {mState} \cup BeingStopped
     \/ mState = "INITIALIZED"
     \/ mState = "ABOUT_TO_PLAY" /\ mState' = "PLAYING"
  /\ mHDCP' = "none" /\ mClientSessionID' \in {mClientSessionID, 0}
  /\ displayError => displayError'

(* One that tells them nothing that takes them further.                    *)
LEMMA OrdinaryStep ==
  ASSUME IInv, SInv, Ordinary, NEW S, NEW out, Says(S, out), out # << >> => Met(S),
         \A x \in Members(out) : x \notin ToSink
  PROVE  SInv'
<1>1. /\ aborted = "no" /\ UNCHANGED <<asked, dongle, sink>> /\ Looper /\ Going
      /\ S \in SessionIDs /\ out \in Seq(Wire)
  BY DEF Ordinary, peer, IInv, Says
<1>2. /\ \A m \in Members(queue') : m \in Members(queue) \/ m.session = 0
      /\ \A s \in SessionIDs : Lone(queue, Batons(s)) => Lone(queue', Batons(s))
  BY <1>1, LooperKeeps
<1>3. /\ \A t \in SessionIDs : \A x \in Members(sent'[t]) :
           x \in Members(sent[t]) \/ (t = S /\ x \in Members(out))
      /\ \A t \in SessionIDs : Lone(sent[t], ToSink) => Lone(sent'[t], ToSink)
      /\ \A t \in SessionIDs : sent'[t] # << >> => sent[t] # << >> \/ t = S
  <2>1. /\ Members(sent'[S]) = Members(sent[S]) \cup Members(out)
        /\ (Lone(sent[S], ToSink) /\ Lone(out, ToSink) /\ NotBoth(sent[S], ToSink, out, ToSink)
             => Lone(sent'[S], ToSink))
        /\ \A t \in SessionIDs \ {S} : sent'[t] = sent[t]
    BY SaysAdds
  <2>2. Lone(out, ToSink)
    BY DEF Lone, Members
  <2>3. NotBoth(sent[S], ToSink, out, ToSink)
    BY DEF NotBoth
  <2> QED BY <2>1, <2>2, <2>3
<1>4. OneServed'
  <2>1. ASSUME NEW t \in SessionIDs, Touched(t)' PROVE Met(t)
    <3>1. CASE Touched(t)
      BY <3>1, TouchedMet
    <3>2. CASE ~Touched(t)
      <4>1. sent[t] = << >> /\ sent'[t] # << >> /\ t = S
        BY <1>1, <1>3, <2>1, <3>2 DEF Touched
      <4>2. out # << >>
        <5>1. out = << >> => sent'[S] = sent[S]
          <6>1. sent'[S] = sent[S] \o out /\ sent[S] \in Seq(Wire)
            BY <1>1 DEF Says, IInv, QueueType
          <6> QED BY <6>1
        <5> QED BY <4>1, <5>1
      <4> QED BY <4>1, <4>2
    <3> QED BY <3>1, <3>2
  <2> QED BY <1>1, <2>1 DEF OneServed, Going, OneClient
<1>5. SocketsAreBound'
  BY <1>1, SocketsKept DEF Ordinary
<1>6. SinkTypeOK' /\ mHDCP' = "none"
  BY <1>1 DEF SInv, SinkTypeOK, Ordinary
<1>7. /\ mState \in AfterSetup \cup BeingStopped => mState' \in AfterSetup \cup BeingStopped
      /\ mState \in {"AWAITING_CLIENT_PLAY"} \cup BeingStopped =>
           mState' \in {"AWAITING_CLIENT_PLAY"} \cup BeingStopped
      /\ mState \in {"ABOUT_TO_PLAY", "PLAYING"} \cup BeingStopped =>
           mState' \in {"ABOUT_TO_PLAY", "PLAYING"} \cup BeingStopped
  BY DEF Ordinary, AfterSetup, BeingStopped
<1>8. ASSUME NEW s \in SessionIDs PROVE Of(s)'
  <2>1. OneBaton(s) /\ Stages(s) /\ Spoken(s) /\ PlaysAsAsked(s)
    BY DEF SInv, Of
  <2>2. OneBaton(s)'
    <3>1. \A m \in Members(queue') : m \in Batons(s) => m \in Members(queue)
      BY <1>2, NoSession DEF Batons
    <3>2. \A x \in Members(sent'[s]) : x \in ToSink => x \in Members(sent[s])
      BY <1>3
    <3> QED BY <1>2, <1>3, <2>1, <3>1, <3>2 DEF OneBaton, NotBoth
  <2>3. Stages(s)'
    <3>1. ASSUME NEW m \in Members(queue'), m.session = s PROVE StageThere(s, m)'
      <4>1. m \in Members(queue) /\ StageThere(s, m)
        BY <1>2, <2>1, <3>1, NoSession DEF Stages
      <4> QED BY <1>1, <4>1 DEF StageThere, IsUp, Ordinary
    <3>2. ASSUME NEW x \in Members(sent'[s]) PROVE StageHere(s, x)'
      <4>1. CASE x \in ToSink
        <5>1. StageHere(s, x)
          BY <1>3, <2>1, <4>1 DEF Stages
        <5> QED BY <1>1, <1>7, <5>1 DEF StageHere, IsUp, Ordinary
      <4>2. CASE x \notin ToSink
        BY <4>2 DEF StageHere, ToSink, EarlyToSink
      <4> QED BY <4>1, <4>2
    <3>3. StageOf(s)'
      BY <1>1, <2>1 DEF Stages, StageOf, IsUp
    <3> QED BY <3>1, <3>2, <3>3 DEF Stages
  <2>4. Spoken(s)'
    <3>1. ASSUME NEW x \in Members(sent'[s])
          PROVE  (x[1] = "ask" => x[2] \in Requests) /\ (x[1] = "refused" => displayError')
      <4>1. CASE x \in Members(sent[s])
        BY <2>1, <4>1 DEF Spoken, Ordinary
      <4>2. CASE x \in Members(out)
        BY <4>2 DEF Says
      <4> QED BY <1>3, <4>1, <4>2
    <3> QED BY <1>1, <2>1, <3>1 DEF Spoken, Ordinary
  <2>5. PlaysAsAsked(s)'
    BY <1>1, <1>7, <2>1 DEF PlaysAsAsked
  <2> QED BY <2>2, <2>3, <2>4, <2>5 DEF Of
<1> QED BY <1>4, <1>5, <1>6, <1>8 DEF SInv

(* One that tells them nothing.                                            *)
LEMMA OrdinaryQuiet ==
  ASSUME IInv, SInv, Ordinary, UNCHANGED sent
  PROVE  SInv'
<1>1. PICK S : S \in SessionIDs
  BY SourceAssumption DEF SessionIDs
<1>2. sent[S] \in Seq(Wire)
  BY <1>1 DEF IInv, QueueType
<1>3. sent[S] \o << >> = sent[S] /\ << >> \in Seq(Wire)
  BY <1>2
<1>4. Members(<< >>) = {}
  BY LoneShort
<1>5. Says(S, << >>)
  BY <1>1, <1>3, <1>4 DEF Says
<1> QED BY <1>4, <1>5, OrdinaryStep

(* One that tells one of them what it may hear at any time.                *)
LEMMA OrdinaryTalk ==
  ASSUME IInv, SInv, Ordinary, NEW S \in SessionIDs, Met(S), NEW msg \in Wire, msg \notin ToSink,
         Send(S, <<msg>>), msg[1] = "ask" => msg[2] \in Requests,
         msg[1] = "refused" => displayError'
  PROVE  SInv'
<1>1. <<msg>> \in Seq(Wire) /\ Members(<<msg>>) = {msg}
  BY LoneShort
<1>2. Says(S, <<msg>>) \/ UNCHANGED sent
  BY <1>1, Saying
<1>3. CASE Says(S, <<msg>>)
  BY <1>1, <1>3, OrdinaryStep
<1>4. CASE UNCHANGED sent
  BY <1>4, OrdinaryQuiet
<1> QED BY <1>2, <1>3, <1>4

(* Stopping takes nobody further.                                          *)
LEMMA FinishStopMoves ==
  ASSUME mHDCP = "none", FinishStop \/ DisconnectClient2
  PROVE  /\ mHDCP' = "none" /\ mState' \in BeingStopped
         /\ mClientSessionID' \in {mClientSessionID, 0}
         /\ playback = "none" => playback' = "none"
<1>1. CASE DisconnectClient2
  BY <1>1 DEF DisconnectClient2, FinishStop2, BeingStopped
<1>2. CASE FinishStop /\ ~DisconnectClient2
  BY <1>2 DEF FinishStop, BeingStopped, stopping
<1> QED BY <1>1, <1>2

(* A handler takes its message off the queue.                              *)
LEMMA HandleLooper ==
  ASSUME NEW what, Handle(what)
  PROVE  aborted = "no" /\ Looper
BY DEF Handle, Looper

(* What was shown is not taken back.                                       *)
LEMMA ShowKeeps ==
  ASSUME NEW err, Show(err), displayError
  PROVE  displayError'
BY Zenon DEF Show

(* The source looks after itself.                                          *)
LEMMA QuietSourceStep ==
  ASSUME IInv, SInv, UNCHANGED <<peer, sink>>,
         \/ Start \/ StopCall \/ OnError
         \/ OnUnsolicited \/ OnPlainResponse \/ OnM16Response
         \/ OnSessionEstablished \/ OnSessionDestroyed
         \/ TeardownTriggerTimedOut \/ OnFinishStop2 \/ OnReapDeadClients
         \/ PlaybackEstablished \/ PlaybackDestroyed \/ OnSessionDead
  PROVE  SInv'
<1>1. mHDCP = "none"
  BY DEF SInv
<1>2. \A what \in Whats : Msg(what, 0, "") \in MsgType /\ Msg(what, 0, "").session = 0
  BY DEF Msg, MsgType
<1>3. CASE Start
  <2>1. UNCHANGED <<queue, playback, mClientSessionID, mHDCP, displayError, sent>>
        /\ aborted = "no" /\ mState = "INITIALIZED"
    BY <1>3 DEF Start, Due, client
  <2> QED BY <1>1, <2>1, OrdinaryQuiet DEF Ordinary, Looper
<1>4. CASE StopCall
  <2>1. UNCHANGED <<mState, playback, mClientSessionID, mHDCP, displayError, sent>>
        /\ aborted = "no" /\ queue' = Append(queue, Msg("Stop", 0, ""))
    BY <1>4 DEF StopCall, client, stopping
  <2>2. Looper
    BY <1>2, <2>1 DEF Looper, Whats
  <2> QED BY <1>1, <2>1, <2>2, OrdinaryQuiet DEF Ordinary
<1>5. CASE OnError
  <2>1. /\ UNCHANGED <<mState, playback, mHDCP, sent>> /\ Handle("Error")
        /\ mClientSessionID' \in {mClientSessionID, 0} /\ (displayError => displayError')
    BY <1>5 DEF OnError, stopping
  <2> QED BY <1>1, <2>1, HandleLooper, OrdinaryQuiet DEF Ordinary
<1>6. CASE OnUnsolicited \/ OnPlainResponse \/ OnM16Response
  <2>1. /\ UNCHANGED <<mState, playback, mHDCP, sent, mClientSessionID>> /\ Handle("Data")
    BY <1>6 DEF OnUnsolicited, OnPlainResponse, OnM16Response, IsResponse, stopping, client
  <2>2. \/ displayError' = TRUE \/ UNCHANGED displayError
        \/ Show(~IsOk)
    BY <1>6 DEF OnUnsolicited, OnPlainResponse, OnM16Response
  <2>3. displayError => displayError'
    BY <2>2, ShowKeeps
  <2> QED BY <1>1, <2>1, <2>3, HandleLooper, OrdinaryQuiet DEF Ordinary
<1>7. CASE OnSessionEstablished
  <2>1. /\ UNCHANGED <<playback, mHDCP, sent, mClientSessionID, displayError>>
        /\ Handle("SessionEstablished")
        /\ \/ mState' = mState
           \/ mState = "ABOUT_TO_PLAY" /\ mState' = "PLAYING"
    BY <1>7 DEF OnSessionEstablished, stopping, client
  <2> QED BY <1>1, <2>1, HandleLooper, OrdinaryQuiet DEF Ordinary
<1>8. CASE OnSessionDestroyed
  <2>1. UNCHANGED <<sent, displayError>> /\ Handle("SessionDestroyed") /\ DisconnectClient2
    BY <1>8 DEF OnSessionDestroyed
  <2> QED BY <1>1, <2>1, HandleLooper, FinishStopMoves, OrdinaryQuiet DEF Ordinary
<1>9. CASE TeardownTriggerTimedOut
  <2>1. UNCHANGED <<sent, displayError, queue>> /\ aborted = "no"
    BY <1>9 DEF TeardownTriggerTimedOut, Due
  <2>2. \/ FinishStop
        \/ UNCHANGED <<mState, playback, mClientSessionID, mHDCP>>
    BY <1>9 DEF TeardownTriggerTimedOut, stopping
  <2> QED BY <1>1, <2>1, <2>2, FinishStopMoves, OrdinaryQuiet DEF Ordinary, Looper
<1>10. CASE OnFinishStop2
  <2>1. /\ UNCHANGED <<sent, displayError, queue, playback, mClientSessionID>>
        /\ aborted = "no" /\ mHDCP' = "none" /\ mState' \in BeingStopped
    BY <1>10 DEF OnFinishStop2, Due, FinishStop2, client, BeingStopped
  <2> QED BY <2>1, OrdinaryQuiet DEF Ordinary, Looper
<1>11. CASE OnReapDeadClients
  <2>1. /\ UNCHANGED <<mState, playback, mHDCP, sent, queue>> /\ aborted = "no"
        /\ mClientSessionID' \in {mClientSessionID, 0} /\ (displayError => displayError')
    BY <1>11 DEF OnReapDeadClients, Due, stopping
  <2> QED BY <1>1, <2>1, OrdinaryQuiet DEF Ordinary, Looper
<1>12. CASE PlaybackEstablished \/ PlaybackDestroyed
  <2>1. /\ UNCHANGED <<mState, mHDCP, sent, mClientSessionID, displayError>>
        /\ aborted = "no" /\ (playback = "none" => playback' = "none")
    BY <1>12 DEF PlaybackEstablished, PlaybackDestroyed, stopping, client
  <2>2. Looper
    BY <1>2, <1>12 DEF PlaybackEstablished, PlaybackDestroyed, Looper, Whats
  <2> QED BY <1>1, <2>1, <2>2, OrdinaryQuiet DEF Ordinary
<1>13. CASE OnSessionDead
  <2>1. /\ UNCHANGED <<mState, playback, mHDCP, sent, queue, mClientSessionID>>
        /\ aborted = "no" /\ (displayError => displayError')
    BY <1>13 DEF OnSessionDead, Due, stopping, client
  <2> QED BY <1>1, <2>1, OrdinaryQuiet DEF Ordinary, Looper
<1> QED BY <1>3, <1>4, <1>5, <1>6, <1>7, <1>8, <1>9, <1>10, <1>11, <1>12, <1>13

(* What it says by the way takes no sink further.                          *)
LEMMA Asides ==
  /\ \A req \in Requests \cup Unasked :
       /\ Refused(req) \in Wire /\ Refused(req) \notin ToSink
       /\ Refused(req)[1] = "refused"
       /\ Ok(req) \in Wire /\ Ok(req)[1] = "ok" /\ Ask(req) \in Wire /\ Ask(req)[1] = "ask"
       /\ Ask(req)[2] = req
  /\ \A req \in {"TEARDOWN"} \cup Lifesigns : Ok(req) \notin ToSink
  /\ \A req \in {"M5stop", "M16"} : Ask(req) \notin ToSink
<1>1. \A req \in {"TEARDOWN"} \cup Lifesigns : req # "SETUP" /\ req # "PLAY"
  BY SourceAssumption
<1> QED BY <1>1 DEF Wire, Ask, Ok, Refused, ToSink, EarlyToSink

(* The source answers, or asks, what takes no sink further.                *)
LEMMA TalkingSourceStep ==
  ASSUME IInv, SInv, UNCHANGED <<peer, sink>>,
         SessionNotFound \/ OnLifesign \/ OnTeardownRequest \/ OnStop \/ OnKeepAlive
  PROVE  SInv'
<1>1. mHDCP = "none"
  BY DEF SInv
<1>2. CASE SessionNotFound
  <2>1. PICK req \in {"PLAY", "TEARDOWN"} \cup Lifesigns :
          IsRequest(req) /\ Send(Session, <<Refused(req)>>)
    BY <1>2 DEF SessionNotFound
  <2>2. /\ UNCHANGED <<mState, playback, mHDCP, mClientSessionID>> /\ Handle("Data")
        /\ displayError'
    BY <1>2 DEF SessionNotFound, IsRequest, stopping, client
  <2>3. Ordinary
    BY <1>1, <2>2, HandleLooper DEF Ordinary
  <2>4. Session \in SessionIDs /\ Met(Session)
    BY <2>2, HandledData
  <2>5. req \in Unasked
    BY <2>1, WireType
  <2>6. Refused(req) \in Wire /\ Refused(req) \notin ToSink /\ Refused(req)[1] = "refused"
    BY <2>5, Asides
  <2> QED BY <2>1, <2>2, <2>3, <2>4, <2>6, OrdinaryTalk
<1>3. CASE OnLifesign
  <2>1. PICK req \in Lifesigns : IsRequest(req) /\ Send(Session, <<Ok(req)>>)
    BY <1>3 DEF OnLifesign
  <2>2. /\ UNCHANGED <<mState, playback, mHDCP, mClientSessionID>> /\ Handle("Data")
        /\ (displayError => displayError')
    BY <1>3, ShowKeeps DEF OnLifesign, IsRequest, stopping, client
  <2>3. Ordinary
    BY <1>1, <2>2, HandleLooper DEF Ordinary
  <2>4. Session \in SessionIDs /\ Met(Session)
    BY <2>2, HandledData
  <2>5. Ok(req) \in Wire /\ Ok(req) \notin ToSink /\ Ok(req)[1] = "ok"
    BY <2>1, Asides, WireType
  <2> QED BY <2>1, <2>2, <2>3, <2>4, <2>5, OrdinaryTalk
<1>4. CASE OnTeardownRequest
  <2>1. /\ Handle("Data") /\ Send(Session, <<Ok("TEARDOWN")>>)
        /\ (displayError => displayError')
    BY <1>4 DEF OnTeardownRequest, IsRequest
  <2>2. \/ FinishStop
        \/ UNCHANGED <<mState, playback, mClientSessionID, mHDCP>>
    BY <1>4 DEF OnTeardownRequest, stopping
  <2>3. Ordinary
    BY <1>1, <2>1, <2>2, HandleLooper, FinishStopMoves DEF Ordinary
  <2>4. Session \in SessionIDs /\ Met(Session)
    BY <2>1, HandledData
  <2>5. Ok("TEARDOWN") \in Wire /\ Ok("TEARDOWN") \notin ToSink /\ Ok("TEARDOWN")[1] = "ok"
    BY Asides, WireType
  <2> QED BY <2>1, <2>3, <2>4, <2>5, OrdinaryTalk
<1>5. CASE OnStop
  <2>1. Handle("Stop") /\ UNCHANGED displayError
    BY <1>5 DEF OnStop
  <2>2. CASE mClientSessionID \in live /\ Send(mClientSessionID, <<Ask("M5stop")>>)
             /\ mState' = "AWAITING_CLIENT_TEARDOWN"
             /\ UNCHANGED <<mClientSessionID, playback, mHDCP>>
    <3>1. Ordinary
      BY <1>1, <2>1, <2>2, HandleLooper DEF Ordinary, BeingStopped
    <3>2. mClientSessionID \in SessionIDs /\ Met(mClientSessionID)
      BY <2>2 DEF IInv, TypeOK, Met
    <3>3. /\ Ask("M5stop") \in Wire /\ Ask("M5stop") \notin ToSink /\ Ask("M5stop")[1] = "ask"
          /\ Ask("M5stop")[2] \in Requests
      BY Asides, WireType
    <3> QED BY <2>2, <3>1, <3>2, <3>3, OrdinaryTalk
  <2>3. CASE FinishStop /\ UNCHANGED sent
    BY <1>1, <2>1, <2>3, HandleLooper, FinishStopMoves, OrdinaryQuiet DEF Ordinary
  <2> QED BY <1>5, <2>2, <2>3 DEF OnStop, SendRequest, stopping
<1>6. CASE OnKeepAlive
  <2>1. PICK s \in keepAlives :
          IF s = mClientSessionID THEN SendRequest(s, "M16") ELSE UNCHANGED sent
    BY <1>6 DEF OnKeepAlive
  <2>2. /\ UNCHANGED <<mState, playback, mHDCP, mClientSessionID, queue, displayError>>
        /\ aborted = "no"
    BY <1>6 DEF OnKeepAlive, stopping, client, Due
  <2>3. Ordinary
    BY <1>1, <2>2 DEF Ordinary, Looper
  <2>4. CASE s = mClientSessionID /\ Send(s, <<Ask("M16")>>)
    <3>1. s \in SessionIDs /\ Met(s)
      BY <2>1, <2>4 DEF IInv, TypeOK, Met
    <3>2. /\ Ask("M16") \in Wire /\ Ask("M16") \notin ToSink /\ Ask("M16")[1] = "ask"
          /\ Ask("M16")[2] \in Requests
      BY Asides, WireType
    <3> QED BY <2>3, <2>4, <3>1, <3>2, OrdinaryTalk
  <2>5. CASE UNCHANGED sent
    BY <2>3, <2>5, OrdinaryQuiet
  <2> QED BY <2>1, <2>4, <2>5 DEF SendRequest
<1> QED BY <1>2, <1>3, <1>4, <1>5, <1>6

-----------------------------------------------------------------------------
(* The messages that take a sink further                                   *)

(* One is handled, and perhaps the next one sent.                          *)
LEMMA BatonStep ==
  ASSUME IInv, SInv, aborted = "no", UNCHANGED <<peer, sink>>,
         queue # << >>, queue' = Tail(queue), NEW S, Head(queue) \in Batons(S),
         NEW out, Says(S, out), Lone(out, ToSink),
         \A t \in SessionIDs : t # S => ~Met(t),
         mHDCP' = "none", displayError => displayError', SocketsAreBound',
         PlaysAsAsked(S)', \A x \in Members(out) : StageHere(S, x)'
  PROVE  SInv'
<1>1. /\ UNCHANGED <<asked, dongle, sink>> /\ Going
      /\ S \in SessionIDs /\ out \in Seq(Wire) /\ queue \in Seq(MsgType)
  BY DEF peer, IInv, Says, QueueType
<1>2. OneBaton(S) /\ Stages(S) /\ Spoken(S)
  BY <1>1 DEF SInv, Of
<1>3. /\ Head(queue) \in Members(queue) /\ Members(queue') \subseteq Members(queue)
      /\ Lone(queue', Batons(S)) /\ \A m \in Members(queue') : m \notin Batons(S)
  BY <1>1, <1>2, LoneTail DEF OneBaton
<1>4. \A x \in Members(sent[S]) : x \notin ToSink
  BY <1>2, <1>3 DEF OneBaton, NotBoth
<1>5. /\ \A x \in Members(sent'[S]) : x \in Members(sent[S]) \/ x \in Members(out)
      /\ Lone(sent'[S], ToSink)
      /\ \A t \in SessionIDs : t # S => sent'[t] = sent[t]
  <2>1. NotBoth(sent[S], ToSink, out, ToSink)
    BY <1>4 DEF NotBoth
  <2>2. Lone(sent[S], ToSink)
    BY <1>2 DEF OneBaton
  <2>3. /\ Members(sent'[S]) = Members(sent[S]) \cup Members(out)
        /\ (Lone(sent[S], ToSink) /\ Lone(out, ToSink) /\ NotBoth(sent[S], ToSink, out, ToSink)
             => Lone(sent'[S], ToSink))
        /\ \A t \in SessionIDs \ {S} : sent'[t] = sent[t]
    BY SaysAdds
  <2> QED BY <2>1, <2>2, <2>3
<1>6. ASSUME NEW t \in SessionIDs, t # S
      PROVE  ~Touched(t) /\ ~Touched(t)' /\ sent'[t] = << >> /\ sink[t].mRTPSinks = 0 /\ ~IsUp(t)
  <2>1. ~Touched(t)
    BY <1>6, TouchedMet
  <2> QED BY <1>1, <1>5, <1>6, <2>1, Untouched DEF Touched
<1>7. OneServed'
  BY <1>6 DEF OneServed
<1>8. SinkTypeOK'
  BY <1>1 DEF SInv, SinkTypeOK
<1>9. Of(S)'
  <2>1. OneBaton(S)'
    BY <1>3, <1>5 DEF OneBaton, NotBoth
  <2>2. ASSUME NEW m \in Members(queue'), m.session = S PROVE StageThere(S, m)'
    <3>1. m \in MsgType
      BY <1>1, <1>3 DEF Members
    <3>2. ~IsBaton(m)
      BY <1>3, <2>2, <3>1 DEF Batons
    <3> QED BY <3>2 DEF StageThere, IsBaton, ToSource
  <2>3. ASSUME NEW x \in Members(sent'[S]) PROVE StageHere(S, x)'
    <3>1. CASE x \in ToSink
      BY <1>4, <1>5, <3>1
    <3>2. CASE x \notin ToSink
      BY <3>2 DEF StageHere, ToSink, EarlyToSink
    <3> QED BY <3>1, <3>2
  <2>4. StageOf(S)'
    BY <1>1, <1>2 DEF Stages, StageOf, IsUp
  <2>5. Stages(S)'
    BY <2>2, <2>3, <2>4 DEF Stages
  <2>6. Spoken(S)'
    <3>1. ASSUME NEW x \in Members(sent'[S])
          PROVE  (x[1] = "ask" => x[2] \in Requests) /\ (x[1] = "refused" => displayError')
      <4>1. CASE x \in Members(sent[S])
        BY <1>2, <4>1 DEF Spoken
      <4>2. CASE x \in Members(out)
        BY <4>2 DEF Says
      <4> QED BY <1>5, <4>1, <4>2
    <3> QED BY <1>1, <1>2, <3>1 DEF Spoken
  <2> QED BY <2>1, <2>5, <2>6 DEF Of
<1>10. ASSUME NEW t \in SessionIDs, t # S PROVE Of(t)'
  <2>1. OneBaton(t) /\ Stages(t) /\ Spoken(t)
    BY DEF SInv, Of
  <2>2. sent'[t] = << >> /\ sink[t].mRTPSinks = 0 /\ ~IsUp(t) /\ ~Met(t) /\ asked[t] = 0
    BY <1>6, <1>10 DEF Touched
  <2>3. Members(sent'[t]) = {}
    BY <2>2, LoneShort
  <2>4. OneBaton(t)'
    <3>1. Lone(queue', Batons(t))
      BY <1>1, <2>1, LoneTail DEF OneBaton
    <3>2. Lone(sent'[t], ToSink)
      BY <2>2, LoneShort
    <3>3. NotBoth(queue', Batons(t), sent'[t], ToSink)
      BY <2>3 DEF NotBoth
    <3> QED BY <3>1, <3>2, <3>3 DEF OneBaton
  <2>5. ASSUME NEW m \in Members(queue'), m.session = t PROVE StageThere(t, m)'
    <3>1. m.what # "Data"
      BY <1>3, <2>2, <2>5 DEF Met
    <3> QED BY <1>1, <2>2, <3>1 DEF StageThere, IsUp
  <2>6. StageOf(t)'
    BY <1>1, <2>1 DEF Stages, StageOf, IsUp
  <2>7. Stages(t)'
    BY <2>3, <2>5, <2>6 DEF Stages
  <2>8. Spoken(t)'
    BY <1>1, <2>1, <2>3 DEF Spoken
  <2>9. PlaysAsAsked(t)'
    BY <1>1, <2>2 DEF PlaysAsAsked, IsUp
  <2> QED BY <2>4, <2>7, <2>8, <2>9 DEF Of
<1> QED BY <1>7, <1>8, <1>9, <1>10 DEF SInv

(* The sink whose message is handled is the one that is served.            *)
LEMMA BatonHandled ==
  ASSUME IInv, SInv, Handle("Data"), Head(queue).arg \in ToSource
  PROVE  /\ aborted = "no" /\ queue # << >> /\ queue' = Tail(queue)
         /\ Session \in SessionIDs /\ Head(queue) \in Batons(Session)
         /\ StageThere(Session, Head(queue)) /\ Head(queue).what = "Data"
         /\ Met(Session) /\ \A t \in SessionIDs : t # Session => ~Met(t)
<1>1. /\ aborted = "no" /\ Going /\ Head(queue) \in Members(queue) /\ Head(queue) \in MsgType
      /\ Head(queue).what = "Data" /\ queue # << >> /\ queue' = Tail(queue)
  BY Handled DEF Handle
<1>2. Session \in SessionIDs /\ Met(Session)
  BY HandledData
<1>3. \A t \in SessionIDs : t # Session => ~Met(t)
  BY <1>1, <1>2 DEF Going, OneClient
<1>4. Head(queue) \in Batons(Session)
  BY <1>1 DEF Batons, IsBaton, Session
<1>5. StageThere(Session, Head(queue))
  <2>1. Stages(Session)
    BY <1>2 DEF SInv, Of
  <2> QED BY <1>1, <2>1 DEF Stages, Session
<1> QED BY <1>1, <1>2, <1>3, <1>4, <1>5

(* The source goes on with the negotiation.                                *)
LEMMA Negotiates ==
  ASSUME IInv, SInv, UNCHANGED <<peer, sink, playback, mHDCP, mClientSessionID>>,
         Handle("Data"), Head(queue).arg \in EarlyToSource, displayError => displayError',
         NEW out, Says(Session, out), Lone(out, ToSink),
         Members(out) \subseteq {Ok("OPTIONS"), Ask("M3"), Ask("M4"), Ask("M5")}
  PROVE  SInv'
<1>1. Head(queue).arg \in ToSource
  BY DEF ToSource
<1>2. /\ aborted = "no" /\ queue # << >> /\ queue' = Tail(queue)
      /\ Session \in SessionIDs /\ Head(queue) \in Batons(Session)
      /\ StageThere(Session, Head(queue)) /\ Head(queue).what = "Data"
      /\ \A t \in SessionIDs : t # Session => ~Met(t)
  BY <1>1, BatonHandled
<1>3. PICK S : S = Session
  OBVIOUS
<1>4. sink[S].mRTPSinks = 0 /\ ~IsUp(S) /\ playback = "none"
  BY <1>2, <1>3 DEF StageThere
<1>5. PlaysAsAsked(S)'
  BY <1>4 DEF PlaysAsAsked, IsUp
<1>6. ASSUME NEW x \in Members(out) PROVE StageHere(S, x)'
  <2>1. x # Ask("M1") /\ x # Ok("SETUP") /\ x # Ok("PLAY")
    BY <1>6 DEF Ask, Ok
  <2> QED BY <1>4, <2>1 DEF StageHere, IsUp
<1>7. SocketsAreBound' /\ mHDCP' = "none"
  BY SocketsKept DEF SInv
<1> QED BY <1>2, <1>3, <1>5, <1>6, <1>7, BatonStep

(* M3, M4 and M5.                                                          *)
LEMMA NegotiationStep ==
  ASSUME IInv, SInv, UNCHANGED <<peer, sink>>,
         OnOptionsRequest \/ OnM3Response \/ OnM4Response
  PROVE  SInv'
<1>1. /\ Handle("Data") /\ UNCHANGED <<mState, playback, mClientSessionID, mHDCP>>
      /\ (displayError => displayError')
  <2>1. CASE OnOptionsRequest
    BY <2>1, ShowKeeps DEF OnOptionsRequest, IsRequest, client, stopping
  <2>2. CASE OnM3Response
    <3>1. Handle("Data") /\ UNCHANGED <<mState, playback, mClientSessionID>>
      BY <2>2 DEF OnM3Response, IsResponse, client
    <3>2. UNCHANGED mHDCP
      BY <2>2, SessionAssumption DEF OnM3Response, MakeHDCP
    <3>3. displayError => displayError'
      BY <2>2, ShowKeeps DEF OnM3Response
    <3> QED BY <3>1, <3>2, <3>3
  <2>3. CASE OnM4Response
    BY <2>3, ShowKeeps DEF OnM4Response, IsResponse, client, stopping
  <2> QED BY <2>1, <2>2, <2>3
<1>2. CASE UNCHANGED sent
  <2>1. mHDCP = "none"
    BY DEF SInv
  <2> QED BY <1>1, <1>2, <2>1, HandleLooper, OrdinaryQuiet DEF Ordinary
<1>3. Session \in SessionIDs
  BY <1>1, HandledData
<1>4. ASSUME NEW msgs \in Seq(Wire), Send(Session, msgs),
             Head(queue).arg \in EarlyToSource, Lone(msgs, ToSink),
             Members(msgs) \subseteq {Ok("OPTIONS"), Ask("M3"), Ask("M4"), Ask("M5")}
      PROVE  SInv'
  <2>1. \A x \in Members(msgs) : /\ x[1] = "ask" => x[2] \in Requests
                                 /\ x[1] = "refused" => displayError'
    <3>1. \A x \in {Ok("OPTIONS"), Ask("M3"), Ask("M4"), Ask("M5")} :
            x[1] # "refused" /\ (x[1] = "ask" => x[2] \in Requests)
      BY DEF Ok, Ask, Requests
    <3> QED BY <1>4, <3>1
  <2>2. Says(Session, msgs) \/ UNCHANGED sent
    BY <1>3, <1>4, <2>1, Saying
  <2>3. CASE Says(Session, msgs)
    BY <1>1, <1>4, <2>3, Negotiates
  <2> QED BY <1>2, <2>2, <2>3
<1>5. CASE OnOptionsRequest
  <2>1. Send(Session, <<Ok("OPTIONS"), Ask("M3")>>) /\ Head(queue).arg \in EarlyToSource
    BY <1>5 DEF OnOptionsRequest, IsRequest, EarlyToSource
  <2>2. <<Ok("OPTIONS"), Ask("M3")>> \in Seq(Wire)
    BY WireType
  <2>3. Members(<<Ok("OPTIONS"), Ask("M3")>>) = {Ok("OPTIONS"), Ask("M3")}
    BY LoneShort
  <2>4. Ok("OPTIONS") \notin ToSink
    BY DEF ToSink, EarlyToSink, Ok, Ask
  <2>5. Lone(<<Ok("OPTIONS"), Ask("M3")>>, ToSink)
    BY <2>4, LoneShort
  <2> QED BY <1>4, <2>1, <2>2, <2>3, <2>5
<1>6. ASSUME NEW req \in {"M4", "M5"}, Send(Session, <<Ask(req)>>),
             Head(queue).arg \in EarlyToSource
      PROVE  SInv'
  <2>1. <<Ask(req)>> \in Seq(Wire)
    BY <1>6, WireType DEF Requests
  <2>2. Members(<<Ask(req)>>) = {Ask(req)} /\ Lone(<<Ask(req)>>, ToSink)
    BY LoneShort
  <2> QED BY <1>4, <1>6, <2>1, <2>2
<1>7. CASE OnM3Response
  <2>1. \/ UNCHANGED sent
        \/ IsOk /\ Send(Session, <<Ask("M4")>>) /\ IsResponse("M3")
    BY <1>7 DEF OnM3Response
  <2>2. IsOk /\ IsResponse("M3") => Head(queue).arg \in EarlyToSource
    BY DEF IsOk, IsResponse, EarlyToSource, Refused
  <2> QED BY <1>2, <1>6, <2>1, <2>2
<1>8. CASE OnM4Response
  <2>1. \/ UNCHANGED sent
        \/ IsOk /\ Send(Session, <<Ask("M5")>>) /\ IsResponse("M4")
    BY <1>8 DEF OnM4Response
  <2>2. IsOk /\ IsResponse("M4") => Head(queue).arg \in EarlyToSource
    BY DEF IsOk, IsResponse, EarlyToSource, Refused
  <2> QED BY <1>2, <1>6, <2>1, <2>2
<1> QED BY <1>5, <1>7, <1>8

(* SETUP is served once, to a sink that has bound its sockets.             *)
LEMMA SetupHanded ==
  ASSUME IInv, SInv, UNCHANGED <<peer, sink>>, OnSetupRequest
  PROVE  SInv'
<1>1. /\ Handle("Data") /\ Head(queue).arg = Ask("SETUP")
      /\ UNCHANGED <<mHDCP, mClientSessionID>> /\ mHDCP = "none"
  BY DEF OnSetupRequest, IsRequest, stopping, SInv
<1>2. /\ aborted = "no" /\ queue # << >> /\ queue' = Tail(queue)
      /\ Session \in SessionIDs /\ Head(queue) \in Batons(Session)
      /\ StageThere(Session, Head(queue)) /\ Head(queue).what = "Data"
      /\ Met(Session) /\ \A t \in SessionIDs : t # Session => ~Met(t)
  BY <1>1, BatonHandled DEF ToSource
<1>3. CASE UNCHANGED <<mState, playback, sent, displayError>>
  BY <1>1, <1>3, HandleLooper, OrdinaryQuiet DEF Ordinary
<1>4. CASE RefuseSetup
  <2>1. UNCHANGED <<mState, playback>> /\ displayError' /\ Send(Session, <<Refused("SETUP")>>)
    BY <1>4 DEF RefuseSetup
  <2>2. Ordinary
    BY <1>1, <2>1, HandleLooper DEF Ordinary
  <2>3. /\ Refused("SETUP") \in Wire /\ Refused("SETUP") \notin ToSink
        /\ Refused("SETUP")[1] = "refused"
    BY Asides, WireType
  <2> QED BY <1>2, <2>1, <2>2, <2>3, OrdinaryTalk
<1>5. CASE /\ Session = mClientSessionID /\ ~mPlaybackSessionID
           /\ Send(Session, <<Ok("SETUP")>>) /\ Show(Session \notin live)
           /\ Session \in live => mState' = "AWAITING_CLIENT_PLAY"
  <2>1. PICK S : S = Session
    OBVIOUS
  <2>2. Session \in live
    BY <1>2, <1>5, NoSession, SetupIsAwaited
  <2>3. mState' = "AWAITING_CLIENT_PLAY" /\ (displayError => displayError')
    BY <1>5, <2>2, ShowKeeps
  <2>4. Says(S, <<Ok("SETUP")>>)
    <3>1. sent \in [SessionIDs -> Seq(Wire)] /\ <<Ok("SETUP")>> \in Seq(Wire)
      BY WireType DEF IInv, QueueType
    <3>2. Members(<<Ok("SETUP")>>) = {Ok("SETUP")} /\ Ok("SETUP")[1] = "ok"
      BY LoneShort DEF Ok
    <3> QED BY <1>2, <1>5, <2>1, <2>2, <3>1, <3>2 DEF Says, Send
  <2>5. sink[S].mRTPSinks = 1 /\ ~IsUp(S)
    BY <1>1, <1>2, <2>1 DEF StageThere
  <2>6. \A t \in SessionIDs : t # S => sink[t].mRTPSinks = 0
    BY <1>2, <2>1, TouchedMet, Untouched
  <2>7. SocketsAreBound'
    <3>1. S \in SessionIDs /\ mClientSessionID' = S
      BY <1>1, <1>2, <1>5, <2>1
    <3>2. \A t \in SessionIDs : sink'[t].mRTPSinks = IF t = S THEN 1 ELSE 0
      BY <2>5, <2>6
    <3> QED BY <3>1, <3>2 DEF SocketsAreBound
  <2>8. PlaysAsAsked(S)'
    BY <2>5 DEF PlaysAsAsked, IsUp
  <2>9. StageHere(S, Ok("SETUP"))'
    <3>1. Ok("SETUP") \notin EarlyToSink /\ Ok("SETUP") # Ask("M1") /\ Ok("SETUP") # Ok("PLAY")
      BY DEF EarlyToSink, Ok, Ask
    <3> QED BY <2>3, <3>1 DEF StageHere
  <2>10. Members(<<Ok("SETUP")>>) = {Ok("SETUP")} /\ Lone(<<Ok("SETUP")>>, ToSink)
    BY LoneShort
  <2>11. Head(queue) \in Batons(S) /\ \A t \in SessionIDs : t # S => ~Met(t)
    BY <1>2, <2>1
  <2> QED BY <1>1, <1>2, <2>3, <2>4, <2>7, <2>8, <2>9, <2>10, <2>11, BatonStep
<1> QED BY <1>3, <1>4, <1>5 DEF OnSetupRequest

(* PLAY is answered whatever the state, and then the state is checked.     *)
LEMMA PlayHanded ==
  ASSUME IInv, SInv, UNCHANGED <<peer, sink>>, OnPlayRequest
  PROVE  SInv'
<1>1. /\ Handle("Data") /\ Head(queue).arg = Ask("PLAY") /\ mHDCP = "none"
      /\ UNCHANGED <<mHDCP, mClientSessionID, playback>> /\ Send(Session, <<Ok("PLAY")>>)
  BY DEF OnPlayRequest, IsRequest, stopping, client, SInv
<1>2. /\ aborted = "no" /\ queue # << >> /\ queue' = Tail(queue)
      /\ Session \in SessionIDs /\ Head(queue) \in Batons(Session)
      /\ \A t \in SessionIDs : t # Session => ~Met(t)
  BY <1>1, BatonHandled DEF ToSource
<1>3. CASE Session \notin live
  <2>1. UNCHANGED <<mState, sent>> /\ displayError'
    BY <1>1, <1>3 DEF OnPlayRequest, Send
  <2> QED BY <1>1, <2>1, HandleLooper, OrdinaryQuiet DEF Ordinary
<1>4. CASE Session \in live
  <2>1. PICK S : S = Session
    OBVIOUS
  <2>2. /\ UNCHANGED displayError
        /\ \/ mState = "AWAITING_CLIENT_PLAY" /\ mState' = "ABOUT_TO_PLAY"
           \/ aborted' # "no"
    BY <1>4 DEF OnPlayRequest
  <2>3. Says(S, <<Ok("PLAY")>>)
    <3>1. sent \in [SessionIDs -> Seq(Wire)] /\ <<Ok("PLAY")>> \in Seq(Wire)
      BY WireType DEF IInv, QueueType
    <3>2. Members(<<Ok("PLAY")>>) = {Ok("PLAY")} /\ Ok("PLAY")[1] = "ok"
      BY LoneShort DEF Ok
    <3> QED BY <1>1, <1>2, <1>4, <2>1, <3>1, <3>2 DEF Says, Send
  <2>4. SocketsAreBound'
    BY <1>1, SocketsKept
  <2>5. PlaysAsAsked(S)'
    <3>1. PlaysAsAsked(S)
      BY <1>2, <2>1 DEF SInv, Of
    <3> QED BY <1>2, <2>2, <3>1 DEF PlaysAsAsked, AfterSetup, BeingStopped
  <2>6. StageHere(S, Ok("PLAY"))'
    <3>1. Ok("PLAY") \notin EarlyToSink /\ Ok("PLAY") # Ask("M1") /\ Ok("PLAY") # Ok("SETUP")
      BY DEF EarlyToSink, Ok, Ask
    <3> QED BY <2>2, <3>1 DEF StageHere
  <2>7. Members(<<Ok("PLAY")>>) = {Ok("PLAY")} /\ Lone(<<Ok("PLAY")>>, ToSink)
    BY LoneShort
  <2>8. Head(queue) \in Batons(S) /\ \A t \in SessionIDs : t # S => ~Met(t)
    BY <1>2, <2>1
  <2> QED BY <1>1, <1>2, <2>2, <2>3, <2>4, <2>5, <2>6, <2>7, <2>8, BatonStep
<1> QED BY <1>3, <1>4

(* A sink is accepted, which nobody was before, or rejected.               *)
LEMMA ConnectedHanded ==
  ASSUME IInv, SInv, UNCHANGED <<peer, sink>>, OnClientConnected
  PROVE  SInv'
<1>1. /\ Handle("ClientConnected") /\ UNCHANGED <<mHDCP, playback, displayError>>
      /\ mHDCP = "none"
  BY DEF OnClientConnected, stopping, SInv
<1>2. CASE UNCHANGED <<mState, mClientSessionID, sent>>
  BY <1>1, <1>2, HandleLooper, OrdinaryQuiet DEF Ordinary
<1>3. CASE /\ mState = "AWAITING_CLIENT_CONNECTION" /\ mClientSessionID' = Session
           /\ Send(Session, <<Ask("M1")>>)
  <2>1. PICK S : S = Session
    OBVIOUS
  <2>2. aborted = "no" /\ Going /\ S \in SessionIDs /\ S \in live
    BY <1>1, <2>1, Newcomer
  <2>3. \A t \in SessionIDs : ~Met(t)
    BY <1>3, <2>2 DEF Going, OneClient
  <2>4. playback = "none"
    BY <1>3, <2>2 DEF Going, Stopping, IInv, TypeOK, AfterSetup
  <2>5. /\ queue # << >> /\ queue' = Tail(queue) /\ Head(queue) \in Batons(S)
    <3>1. Head(queue) \in MsgType /\ Head(queue).what = "ClientConnected"
      BY <1>1, Handled
    <3> QED BY <1>1, <2>1, <3>1 DEF Handle, Batons, IsBaton, Session
  <2>6. asked[S] = 0 /\ sink[S].mRTPSinks = 0 /\ ~IsUp(S)
    BY <2>2, <2>3, TouchedMet, Untouched
  <2>7. Says(S, <<Ask("M1")>>)
    <3>1. sent \in [SessionIDs -> Seq(Wire)] /\ <<Ask("M1")>> \in Seq(Wire)
      BY WireType DEF IInv, QueueType
    <3>2. /\ Members(<<Ask("M1")>>) = {Ask("M1")} /\ Ask("M1")[1] = "ask"
          /\ Ask("M1")[2] \in Requests
      BY LoneShort DEF Ask, Requests
    <3> QED BY <1>3, <2>1, <2>2, <3>1, <3>2 DEF Says, Send
  <2>8. SocketsAreBound'
    BY <1>1, <2>4 DEF SocketsAreBound
  <2>9. PlaysAsAsked(S)'
    BY <2>6 DEF PlaysAsAsked, IsUp
  <2>10. StageHere(S, Ask("M1"))'
    <3>1. Ask("M1") # Ok("SETUP") /\ Ask("M1") # Ok("PLAY")
      BY DEF Ok, Ask
    <3> QED BY <1>1, <2>4, <2>6, <3>1 DEF StageHere, IsUp, peer
  <2>11. Members(<<Ask("M1")>>) = {Ask("M1")} /\ Lone(<<Ask("M1")>>, ToSink)
    BY LoneShort
  <2> QED BY <1>1, <2>2, <2>3, <2>5, <2>7, <2>8, <2>9, <2>10, <2>11, BatonStep
<1>4. UNCHANGED client => UNCHANGED mClientSessionID
  BY DEF client
<1> QED BY <1>2, <1>3, <1>4 DEF OnClientConnected, SendRequest

(* Every operation of the source.                                          *)
LEMMA SourceKeepsSinks ==
  ASSUME IInv, SInv, UNCHANGED <<peer, sink>>, SourceNext
  PROVE  SInv'
<1>1. CASE \/ Start \/ StopCall \/ OnError
           \/ OnUnsolicited \/ OnPlainResponse \/ OnM16Response
           \/ OnSessionEstablished \/ OnSessionDestroyed
           \/ TeardownTriggerTimedOut \/ OnFinishStop2 \/ OnReapDeadClients
           \/ PlaybackEstablished \/ PlaybackDestroyed \/ OnSessionDead
  BY <1>1, QuietSourceStep
<1>2. CASE SessionNotFound \/ OnLifesign \/ OnTeardownRequest \/ OnStop \/ OnKeepAlive
  BY <1>2, TalkingSourceStep
<1>3. CASE OnOptionsRequest \/ OnM3Response \/ OnM4Response
  BY <1>3, NegotiationStep
<1>4. CASE OnSetupRequest
  BY <1>4, SetupHanded
<1>5. CASE OnPlayRequest
  BY <1>5, PlayHanded
<1>6. CASE OnClientConnected
  BY <1>6, ConnectedHanded
<1>7. ~(OnHDCPReady \/ OnHDCPFailed \/ OnHDCPShutdown)
  BY DEF OnHDCPReady, OnHDCPFailed, OnHDCPShutdown, SInv
<1> QED BY <1>1, <1>2, <1>3, <1>4, <1>5, <1>6, <1>7 DEF SourceNext, Queued

-----------------------------------------------------------------------------
(* What a sink does with a message                                         *)

Unmoved(k, done) == done.sink.mState = k.mState /\ done.sink.mRTPSinks = k.mRTPSinks

(* It says nothing that takes it further.                                  *)
Listens(k, done) ==
  /\ Unmoved(k, done) /\ done.sink.mResponseHandlers \subseteq k.mResponseHandlers
  /\ done.out \in {<< >>, <<Ok("M16")>>, <<Ok("M5stop")>>}

(* It answers M1, M3, M4 and M5, and what was answered it.                 *)
Greets(k, msg, done) ==
  msg = Ask("M1") /\ Unmoved(k, done) /\ done.out = <<Ok("M1"), Ask("OPTIONS")>>

Describes(k, msg, done) ==
  \E req \in {"M3", "M4"} :
    /\ msg = Ask(req) /\ done.out = <<Ok(req)>> /\ Unmoved(k, done)
    /\ done.sink.mResponseHandlers = k.mResponseHandlers

Binds(k, msg, done) ==
  /\ msg = Ask("M5") /\ done.out = <<Ask("SETUP"), Ok("M5")>>
  /\ done.sink.mState = k.mState /\ done.sink.mRTPSinks = k.mRTPSinks + 1

Pauses(k, msg, done) ==
  /\ msg = Ok("SETUP") /\ done.out = <<Ask("PLAY")>>
  /\ done.sink.mState = "PAUSED" /\ done.sink.mRTPSinks = k.mRTPSinks

Plays(k, msg, done) ==
  /\ msg = Ok("PLAY") /\ done.out = << >> /\ "PLAY" \in k.mResponseHandlers
  /\ done.sink.mState = "PLAYING" /\ done.sink.mRTPSinks = k.mRTPSinks
  /\ done.sink.mResponseHandlers \subseteq k.mResponseHandlers

Moves(k, msg, done) ==
  \/ Listens(k, done) \/ Greets(k, msg, done) \/ Describes(k, msg, done)
  \/ Binds(k, msg, done) \/ Pauses(k, msg, done) \/ Plays(k, msg, done)

Hears(k, msg, done) ==
  /\ done.sink \in Sinks /\ done.sink.mSessionID = k.mSessionID
  /\ done.sink.aborted => k.aborted \/ msg[1] = "refused"
  /\ Moves(k, msg, done)

(* One message, and another.                                               *)
LEMMA Pair ==
  ASSUME NEW a, NEW b
  PROVE  Append(<<a>>, b) = <<a, b>>
<1>1. PICK T : T = {a, b}
  OBVIOUS
<1>2. <<a>> \in Seq(T) /\ Len(<<a>>) = 1 /\ <<a>>[1] = a /\ b \in T
  BY <1>1
<1>3. PICK p : p = Append(<<a>>, b)
  OBVIOUS
<1>4. p \in Seq(T) /\ Len(p) = 2 /\ p[1] = a /\ p[2] = b
  BY <1>2, <1>3
<1>5. p \in [1..2 -> T]
  BY <1>4
<1>6. p = [i \in 1..2 |-> IF i = 1 THEN a ELSE b]
  BY <1>4, <1>5
<1>7. <<a, b>> = [i \in 1..2 |-> IF i = 1 THEN a ELSE b]
  OBVIOUS
<1> QED BY <1>3, <1>6, <1>7

(* The parts of a sink.                                                    *)
LEMMA SinkParts ==
  ASSUME NEW k \in Sinks, NEW j
  PROVE  /\ \A h \in SUBSET {"OPTIONS", "SETUP", "PLAY"} :
              j = [k EXCEPT !.mResponseHandlers = h] =>
                /\ j \in Sinks /\ j.mResponseHandlers = h
                /\ j.mState = k.mState /\ j.mRTPSinks = k.mRTPSinks
                /\ j.mSessionID = k.mSessionID /\ j.aborted = k.aborted
         /\ \A w \in {"PAUSED", "PLAYING"} :
              j = [k EXCEPT !.mState = w] =>
                /\ j \in Sinks /\ j.mState = w
                /\ j.mResponseHandlers = k.mResponseHandlers /\ j.mRTPSinks = k.mRTPSinks
                /\ j.mSessionID = k.mSessionID /\ j.aborted = k.aborted
         /\ \A n \in Nat :
              j = [k EXCEPT !.mRTPSinks = n] =>
                /\ j \in Sinks /\ j.mRTPSinks = n
                /\ j.mResponseHandlers = k.mResponseHandlers /\ j.mState = k.mState
                /\ j.mSessionID = k.mSessionID /\ j.aborted = k.aborted
         /\ (j = [k EXCEPT !.mPresentation_URL = TRUE] \/ j = [k EXCEPT !.aborted = TRUE]) =>
              /\ j \in Sinks /\ j.mRTPSinks = k.mRTPSinks
              /\ j.mResponseHandlers = k.mResponseHandlers /\ j.mState = k.mState
              /\ j.mSessionID = k.mSessionID
         /\ j = [k EXCEPT !.mPresentation_URL = TRUE] => j.aborted = k.aborted
         /\ k.mResponseHandlers \subseteq {"OPTIONS", "SETUP", "PLAY"} /\ k.mRTPSinks \in Nat
BY DEF Sinks

(* That is all a sink does.                                                *)
LEMMA SinkHears ==
  ASSUME NEW k \in Sinks, NEW msg \in Wire, msg[1] = "ask" => msg[2] \in Requests,
         NEW done, done = SinkReceive(k, msg)
  PROVE  Hears(k, msg, done)
<1>1. PICK status \in {"ask", "ok", "refused"}, req \in Requests \cup Unasked :
        msg = <<status, req>>
  BY DEF Wire
<1>2. k.mRTPSinks + 1 \in Nat /\ k.mResponseHandlers \subseteq {"OPTIONS", "SETUP", "PLAY"}
  BY SinkParts
<1>3. CASE status # "ask"
  <2>1. done = AnswerReceived(k, status, req)
    BY <1>1, <1>3 DEF SinkReceive
  <2>2. PICK heard : heard = [k EXCEPT !.mResponseHandlers = @ \ {req}]
    OBVIOUS
  <2>3. /\ heard \in Sinks /\ heard.mResponseHandlers \subseteq k.mResponseHandlers
        /\ heard.mState = k.mState /\ heard.mRTPSinks = k.mRTPSinks
        /\ heard.mSessionID = k.mSessionID /\ heard.aborted = k.aborted
    <3>1. k.mResponseHandlers \ {req} \in SUBSET {"OPTIONS", "SETUP", "PLAY"}
      BY <1>2
    <3> QED BY <2>2, <3>1, SinkParts
  <2>4. CASE req \notin k.mResponseHandlers
    <3>1. done = [sink |-> k, out |-> << >>]
      BY <2>1, <2>4 DEF AnswerReceived
    <3>2. done.sink = k /\ done.out = << >>
      BY <3>1
    <3> QED BY <3>2 DEF Hears, Moves, Listens, Unmoved
  <2>5. CASE req \in k.mResponseHandlers /\ status # "ok"
    <3>1. PICK fallen : fallen = [heard EXCEPT !.aborted = TRUE]
      OBVIOUS
    <3>2. done = [sink |-> fallen, out |-> << >>]
      BY <2>1, <2>2, <2>5, <3>1 DEF AnswerReceived
    <3>3. done.sink = fallen /\ done.out = << >>
      BY <3>2
    <3>4. msg[1] = "refused"
      BY <1>1, <1>3, <2>5
    <3>5. /\ fallen \in Sinks /\ fallen.mRTPSinks = heard.mRTPSinks
          /\ fallen.mResponseHandlers = heard.mResponseHandlers
          /\ fallen.mState = heard.mState /\ fallen.mSessionID = heard.mSessionID
      BY <2>3, <3>1, SinkParts
    <3> QED BY <2>3, <3>3, <3>4, <3>5 DEF Hears, Moves, Listens, Unmoved
  <2>6. CASE req = "OPTIONS" /\ req \in k.mResponseHandlers /\ status = "ok"
    <3>1. done = [sink |-> heard, out |-> << >>]
      BY <2>1, <2>2, <2>6 DEF AnswerReceived
    <3>2. done.sink = heard /\ done.out = << >>
      BY <3>1
    <3> QED BY <2>3, <3>2 DEF Hears, Moves, Listens, Unmoved
  <2>7. CASE req = "SETUP" /\ req \in k.mResponseHandlers /\ status = "ok"
    <3>1. done = AfterSetupOk(heard)
      BY <2>1, <2>2, <2>7 DEF AnswerReceived
    <3>2. PICK paused : paused = [heard EXCEPT !.mState = "PAUSED"]
      OBVIOUS
    <3>3. PICK asking : asking = [paused EXCEPT !.mResponseHandlers = @ \cup {"PLAY"}]
      OBVIOUS
    <3>4. done.sink = asking /\ done.out = <<Ask("PLAY")>>
      BY <3>1, <3>2, <3>3 DEF AfterSetupOk, Expects, Ask
    <3>5. /\ paused \in Sinks /\ paused.mState = "PAUSED"
          /\ paused.mRTPSinks = heard.mRTPSinks
          /\ paused.mSessionID = heard.mSessionID /\ paused.aborted = heard.aborted
      BY <2>3, <3>2, SinkParts
    <3>6. /\ asking \in Sinks /\ asking.mState = "PAUSED"
          /\ asking.mRTPSinks = heard.mRTPSinks
          /\ asking.mSessionID = heard.mSessionID /\ asking.aborted = heard.aborted
      <4>1. paused.mResponseHandlers \cup {"PLAY"} \in SUBSET {"OPTIONS", "SETUP", "PLAY"}
        BY <3>5, SinkParts
      <4> QED BY <3>3, <3>5, <4>1, SinkParts
    <3>7. msg = Ok("SETUP")
      BY <1>1, <2>7 DEF Ok
    <3> QED BY <2>3, <3>4, <3>6, <3>7 DEF Hears, Moves, Pauses
  <2>8. CASE req = "PLAY" /\ req \in k.mResponseHandlers /\ status = "ok"
    <3>1. PICK playing : playing = [heard EXCEPT !.mState = "PLAYING"]
      OBVIOUS
    <3>2. done = [sink |-> playing, out |-> << >>]
      BY <2>1, <2>2, <2>8, <3>1 DEF AnswerReceived
    <3>3. done.sink = playing /\ done.out = << >>
      BY <3>2
    <3>4. /\ playing \in Sinks /\ playing.mState = "PLAYING"
          /\ playing.mRTPSinks = heard.mRTPSinks
          /\ playing.mResponseHandlers = heard.mResponseHandlers
          /\ playing.mSessionID = heard.mSessionID /\ playing.aborted = heard.aborted
      BY <2>3, <3>1, SinkParts
    <3>5. msg = Ok("PLAY") /\ "PLAY" \in k.mResponseHandlers
      BY <1>1, <2>8 DEF Ok
    <3> QED BY <2>3, <3>3, <3>4, <3>5 DEF Hears, Moves, Plays
  <2> QED BY <1>2, <2>4, <2>5, <2>6, <2>7, <2>8
<1>4. CASE status = "ask" /\ req = "M1"
  <2>1. done = AnswerM1(k) /\ msg = Ask("M1")
    BY <1>1, <1>4 DEF SinkReceive, Ask
  <2>2. PICK asking : asking = [k EXCEPT !.mResponseHandlers = @ \cup {"OPTIONS"}]
    OBVIOUS
  <2>3. done.sink = asking /\ done.out = <<Ok("M1"), Ask("OPTIONS")>>
    BY <2>1, <2>2 DEF AnswerM1, Expects, Ok, Ask
  <2>4. k.mResponseHandlers \cup {"OPTIONS"} \in SUBSET {"OPTIONS", "SETUP", "PLAY"}
    BY <1>2
  <2>5. /\ asking \in Sinks /\ asking.mState = k.mState /\ asking.mRTPSinks = k.mRTPSinks
        /\ asking.mSessionID = k.mSessionID /\ asking.aborted = k.aborted
    BY <2>2, <2>4, SinkParts
  <2> QED BY <2>1, <2>3, <2>5 DEF Hears, Moves, Greets, Unmoved
<1>5. CASE status = "ask" /\ req \in {"M3", "M16"}
  <2>1. done = [sink |-> k, out |-> <<Ok(req)>>]
    BY <1>1, <1>5 DEF SinkReceive, AnswerGet, Ok
  <2>2. msg = Ask(req) /\ done.sink = k /\ done.out = <<Ok(req)>>
    BY <1>1, <1>5, <2>1 DEF Ask
  <2>3. CASE req = "M3"
    BY <2>2, <2>3 DEF Hears, Moves, Describes, Unmoved
  <2>4. CASE req = "M16"
    BY <2>2, <2>4 DEF Hears, Moves, Listens, Unmoved
  <2> QED BY <1>5, <2>3, <2>4
<1>6. CASE status = "ask" /\ req \in {"M4", "M5", "M5stop"}
  <2>1. done = AnswerSet(k, req) /\ msg = Ask(req)
    BY <1>1, <1>6 DEF SinkReceive, Ask
  <2>2. CASE req = "M4"
    <3>1. PICK seen : seen = [k EXCEPT !.mPresentation_URL = TRUE]
      OBVIOUS
    <3>2. done.sink = seen /\ done.out = <<Ok("M4")>>
      BY <2>1, <2>2, <3>1 DEF AnswerSet, Ok
    <3>3. /\ seen \in Sinks /\ seen.mState = k.mState /\ seen.mRTPSinks = k.mRTPSinks
          /\ seen.mResponseHandlers = k.mResponseHandlers
          /\ seen.mSessionID = k.mSessionID /\ seen.aborted = k.aborted
      BY <3>1, SinkParts
    <3>4. Describes(k, msg, done)
      BY <2>1, <2>2, <3>2, <3>3 DEF Describes, Unmoved
    <3> QED BY <3>2, <3>3, <3>4 DEF Hears, Moves
  <2>3. CASE req = "M5"
    <3>1. PICK asking : asking = [k EXCEPT !.mResponseHandlers = @ \cup {"SETUP"}]
      OBVIOUS
    <3>2. PICK bound : bound = [asking EXCEPT !.mRTPSinks = @ + 1]
      OBVIOUS
    <3>3. done.sink = bound /\ done.out = <<Ask("SETUP"), Ok("M5")>>
      <4>1. SendSetup(k) = [sink |-> bound, out |-> <<<<"ask", "SETUP">>>>]
        BY <3>1, <3>2 DEF SendSetup, Expects
      <4>2. done = [SendSetup(k) EXCEPT !.out = Append(@, <<"ok", "M5">>)]
        BY <2>1, <2>3 DEF AnswerSet
      <4>3. Append(<<<<"ask", "SETUP">>>>, <<"ok", "M5">>)
              = <<<<"ask", "SETUP">>, <<"ok", "M5">>>>
        BY Pair
      <4> QED BY <4>1, <4>2, <4>3 DEF Ask, Ok
    <3>4. k.mResponseHandlers \cup {"SETUP"} \in SUBSET {"OPTIONS", "SETUP", "PLAY"}
      BY <1>2
    <3>5. /\ asking \in Sinks /\ asking.mState = k.mState /\ asking.mRTPSinks = k.mRTPSinks
          /\ asking.mSessionID = k.mSessionID /\ asking.aborted = k.aborted
      BY <3>1, <3>4, SinkParts
    <3>6. /\ bound \in Sinks /\ bound.mState = k.mState /\ bound.mRTPSinks = k.mRTPSinks + 1
          /\ bound.mSessionID = k.mSessionID /\ bound.aborted = k.aborted
      BY <1>2, <3>2, <3>5, SinkParts
    <3> QED BY <2>1, <2>3, <3>3, <3>6 DEF Hears, Moves, Binds
  <2>4. CASE req = "M5stop"
    <3>1. done = [sink |-> k, out |-> <<Ok("M5stop")>>]
      BY <2>1, <2>4 DEF AnswerSet, Ok
    <3>2. done.sink = k /\ done.out = <<Ok("M5stop")>>
      BY <3>1
    <3> QED BY <3>2 DEF Hears, Moves, Listens, Unmoved
  <2> QED BY <1>6, <2>2, <2>3, <2>4
<1>7. status = "ask" => req \in Requests
  BY <1>1
<1> QED BY <1>3, <1>4, <1>5, <1>6, <1>7 DEF Requests

(* What it says then.                                                      *)
LEMMA SinkSays ==
  ASSUME NEW k, NEW msg, NEW done, Moves(k, msg, done)
  PROVE  /\ done.out \in Seq(Wire) /\ Lone(done.out, ToSource)
         /\ \A x \in Members(done.out) :
              /\ x \in ToSource => msg \in ToSink
              /\ x \in EarlyToSource => msg \in EarlyToSink /\ Unmoved(k, done)
              /\ x = Ask("OPTIONS") => msg = Ask("M1")
              /\ x = Ask("SETUP") => Binds(k, msg, done)
<1>1. /\ \A req \in {"M1", "M3", "M4", "M5", "M16", "M5stop"} : Ok(req) \in Wire
      /\ \A req \in {"OPTIONS", "SETUP", "PLAY"} : Ask(req) \in Wire
      /\ Ok("M16") \notin ToSource /\ Ok("M5stop") \notin ToSource
      /\ Ok("M1") \notin ToSource /\ Ok("M5") \notin ToSource
  BY DEF Wire, Ask, Ok, Requests, Unasked, ToSource, EarlyToSource
<1>2. CASE Listens(k, done)
  <2>1. Members(<< >>) = {} /\ << >> \in Seq(Wire) /\ Lone(<< >>, ToSource)
    BY LoneShort
  <2>2. ASSUME NEW req \in {"M16", "M5stop"}
        PROVE  /\ <<Ok(req)>> \in Seq(Wire) /\ Lone(<<Ok(req)>>, ToSource)
               /\ Members(<<Ok(req)>>) = {Ok(req)}
    BY <1>1, <2>2, LoneShort
  <2>3. \A x \in Members(done.out) : x \notin ToSource
    BY <1>1, <1>2, <2>1, <2>2 DEF Listens
  <2>4. done.out \in Seq(Wire) /\ Lone(done.out, ToSource)
    BY <1>2, <2>1, <2>2 DEF Listens
  <2> QED BY <2>3, <2>4 DEF ToSource, EarlyToSource
<1>3. CASE Greets(k, msg, done)
  <2>1. /\ Members(<<Ok("M1"), Ask("OPTIONS")>>) = {Ok("M1"), Ask("OPTIONS")}
        /\ <<Ok("M1"), Ask("OPTIONS")>> \in Seq(Wire)
        /\ Lone(<<Ok("M1"), Ask("OPTIONS")>>, ToSource)
    BY <1>1, LoneShort
  <2>2. Ok("M1") # Ask("SETUP") /\ Ask("OPTIONS") # Ask("SETUP") /\ Ok("M1") # Ask("OPTIONS")
    BY DEF Ok, Ask
  <2>3. msg \in EarlyToSink /\ msg \in ToSink /\ Ok("M1") \notin EarlyToSource
    BY <1>1, <1>3 DEF Greets, EarlyToSink, ToSink, ToSource
  <2> QED BY <1>1, <1>3, <2>1, <2>2, <2>3 DEF Greets
<1>4. CASE Describes(k, msg, done)
  <2>1. PICK req \in {"M3", "M4"} : msg = Ask(req) /\ done.out = <<Ok(req)>> /\ Unmoved(k, done)
    BY <1>4 DEF Describes
  <2>2. /\ Members(<<Ok(req)>>) = {Ok(req)} /\ <<Ok(req)>> \in Seq(Wire)
        /\ Lone(<<Ok(req)>>, ToSource)
    BY <1>1, LoneShort
  <2>3. Ok(req) # Ask("SETUP") /\ Ok(req) # Ask("OPTIONS")
    BY DEF Ok, Ask
  <2>4. msg \in EarlyToSink /\ msg \in ToSink
    BY <2>1 DEF EarlyToSink, ToSink
  <2> QED BY <2>1, <2>2, <2>3, <2>4
<1>5. CASE Binds(k, msg, done)
  <2>1. /\ Members(<<Ask("SETUP"), Ok("M5")>>) = {Ask("SETUP"), Ok("M5")}
        /\ <<Ask("SETUP"), Ok("M5")>> \in Seq(Wire)
        /\ Lone(<<Ask("SETUP"), Ok("M5")>>, ToSource)
    BY <1>1, LoneShort
  <2>2. /\ Ask("SETUP") \notin EarlyToSource /\ Ok("M5") \notin EarlyToSource
        /\ Ask("SETUP") # Ask("OPTIONS") /\ Ok("M5") # Ask("OPTIONS")
    BY DEF Ok, Ask, EarlyToSource
  <2>3. msg \in ToSink
    BY <1>5 DEF Binds, EarlyToSink, ToSink
  <2> QED BY <1>5, <2>1, <2>2, <2>3 DEF Binds
<1>6. CASE Pauses(k, msg, done)
  <2>1. /\ Members(<<Ask("PLAY")>>) = {Ask("PLAY")} /\ <<Ask("PLAY")>> \in Seq(Wire)
        /\ Lone(<<Ask("PLAY")>>, ToSource)
    BY <1>1, LoneShort
  <2>2. /\ Ask("PLAY") \notin EarlyToSource /\ Ask("PLAY") # Ask("OPTIONS")
        /\ Ask("PLAY") # Ask("SETUP")
    BY DEF Ok, Ask, EarlyToSource
  <2>3. msg \in ToSink
    BY <1>6 DEF Pauses, ToSink
  <2> QED BY <1>6, <2>1, <2>2, <2>3 DEF Pauses
<1>7. CASE Plays(k, msg, done)
  <2>1. Members(<< >>) = {} /\ << >> \in Seq(Wire) /\ Lone(<< >>, ToSource)
    BY LoneShort
  <2> QED BY <1>7, <2>1 DEF Plays
<1> QED BY <1>2, <1>3, <1>4, <1>5, <1>6, <1>7 DEF Moves

-----------------------------------------------------------------------------
(* A sink receives a message                                               *)

(* What it says stands in the source's queue.                              *)
DataOf(s, out) == [i \in 1..Len(out) |-> Msg("Data", s, out[i])]

LEMMA DataType ==
  ASSUME NEW s \in SessionIDs, NEW out \in Seq(Wire), Lone(out, ToSource),
         NEW data, data = DataOf(s, out)
  PROVE  /\ data \in Seq(MsgType) /\ Ordered(data)
         /\ \A m \in Members(data) : /\ m \in MsgType /\ WellFormed(m) /\ m.what = "Data"
                                     /\ m.session = s /\ m.arg \in Members(out)
         /\ \A t \in SessionIDs : Lone(data, Batons(t))
<1>1. Len(out) \in Nat /\ \A i \in 1..Len(out) : out[i] \in Wire
  OBVIOUS
<1>2. \A x \in Wire : /\ Msg("Data", s, x) \in MsgType /\ WellFormed(Msg("Data", s, x))
                      /\ Msg("Data", s, x).what = "Data" /\ Msg("Data", s, x).session = s
                      /\ Msg("Data", s, x).arg = x
  BY DEF Msg, MsgType, Whats, WellFormed
<1>3. /\ data \in Seq(MsgType) /\ Len(data) = Len(out)
      /\ \A i \in 1..Len(out) : data[i] = Msg("Data", s, out[i])
  <2>1. data \in [1..Len(out) -> MsgType]
    BY <1>1, <1>2 DEF DataOf
  <2> QED BY <1>1, <2>1 DEF DataOf
<1>4. \A i \in 1..Len(data) : /\ data[i] \in MsgType /\ WellFormed(data[i])
                              /\ data[i].what = "Data" /\ data[i].session = s
                              /\ data[i].arg = out[i] /\ i \in 1..Len(out)
  BY <1>1, <1>2, <1>3
<1>5. ASSUME NEW m \in Members(data)
      PROVE  /\ m \in MsgType /\ WellFormed(m) /\ m.what = "Data"
             /\ m.session = s /\ m.arg \in Members(out)
  BY <1>4 DEF Members
<1>6. ASSUME NEW i \in 1..Len(data), NEW j \in 1..Len(data),
             data[i].arg \in ToSource, data[j].arg \in ToSource
      PROVE  i = j
  BY <1>4, <1>6 DEF Lone
<1>7. Ordered(data)
  <2> SUFFICES ASSUME NEW i \in 1..Len(data), NEW j \in 1..Len(data), i < j
               PROVE  Fits(data[i], data[j])
    BY DEF Ordered
  <2>1. i # j
    BY <1>1, <1>3
  <2>2. ~(IsOptions(data[i]) /\ IsOptions(data[j]))
    BY <1>6, <2>1 DEF IsOptions, ToSource, EarlyToSource
  <2>3. data[i].what = "Data" /\ data[j].what = "Data"
    BY <1>4
  <2> QED BY <2>2, <2>3 DEF Fits
<1>8. ASSUME NEW t \in SessionIDs PROVE Lone(data, Batons(t))
  <2> SUFFICES ASSUME NEW i \in 1..Len(data), NEW j \in 1..Len(data),
                      data[i] \in Batons(t), data[j] \in Batons(t)
               PROVE  i = j
    BY DEF Lone
  <2>1. data[i].arg \in ToSource /\ data[j].arg \in ToSource
    BY <1>4 DEF Batons, IsBaton
  <2> QED BY <1>6, <2>1
<1> QED BY <1>3, <1>5, <1>7, <1>8

(* Two queues in a row are in order if the one fits the other.             *)
LEMMA OrderedConcat ==
  ASSUME NEW p \in Seq(MsgType), NEW q \in Seq(MsgType), Ordered(p), Ordered(q),
         \A m \in Members(p), n \in Members(q) : Fits(m, n)
  PROVE  Ordered(p \o q)
<1>1. /\ Len(p) \in Nat /\ Len(q) \in Nat /\ Len(p \o q) = Len(p) + Len(q)
      /\ \A i \in 1..Len(p) : (p \o q)[i] = p[i]
      /\ \A i \in Len(p)+1..Len(p)+Len(q) : (p \o q)[i] = q[i - Len(p)]
  OBVIOUS
<1> SUFFICES ASSUME NEW i \in 1..Len(p \o q), NEW j \in 1..Len(p \o q), i < j
             PROVE  Fits((p \o q)[i], (p \o q)[j])
  BY DEF Ordered
<1>2. CASE i \in 1..Len(p) /\ j \in 1..Len(p)
  BY <1>1, <1>2 DEF Ordered
<1>3. CASE /\ i \in Len(p)+1..Len(p)+Len(q) /\ i - Len(p) \in 1..Len(q)
           /\ j \in Len(p)+1..Len(p)+Len(q) /\ j - Len(p) \in 1..Len(q)
  <2>1. i - Len(p) < j - Len(p)
    BY <1>1, <1>3
  <2> QED BY <1>1, <1>3, <2>1 DEF Ordered
<1>4. CASE i \in 1..Len(p) /\ j \in Len(p)+1..Len(p)+Len(q) /\ j - Len(p) \in 1..Len(q)
  <2>1. p[i] \in Members(p) /\ q[j - Len(p)] \in Members(q)
    BY <1>4 DEF Members
  <2> QED BY <1>1, <1>4, <2>1
<1>5. \/ i \in 1..Len(p) /\ j \in 1..Len(p)
      \/ /\ i \in Len(p)+1..Len(p)+Len(q) /\ i - Len(p) \in 1..Len(q)
         /\ j \in Len(p)+1..Len(p)+Len(q) /\ j - Len(p) \in 1..Len(q)
      \/ i \in 1..Len(p) /\ j \in Len(p)+1..Len(p)+Len(q) /\ j - Len(p) \in 1..Len(q)
  BY <1>1
<1> QED BY <1>2, <1>3, <1>4, <1>5

(* The step, with what the sink does.                                      *)
Receives(s, done) ==
  /\ sent[s] # << >> /\ sink[s].mSessionID
  /\ Hears(sink[s], Head(sent[s]), done)
  /\ sink' = [sink EXCEPT ![s] = done.sink]
  /\ sent' = [sent EXCEPT ![s] = Tail(@)]
  /\ \/ UNCHANGED queue
     \/ aborted = "no" /\ queue' = queue \o DataOf(s, done.out)
  /\ \/ UNCHANGED asked /\ \A x \in Members(done.out) : x[1] # "ask"
     \/ asked' = [asked EXCEPT ![s] = @ + 1] /\ \E x \in Members(done.out) : x[1] = "ask"
  /\ UNCHANGED <<source, live, dongle>>

LEMMA Reception ==
  ASSUME IInv, SInv, NEW s \in SessionIDs, SinkReceives(s)
  PROVE  \E done : Receives(s, done)
<1>1. PICK done : done = SinkReceive(sink[s], Head(sent[s]))
  OBVIOUS
<1>2. /\ SinkRuns(s) /\ sent[s] # << >> /\ sent' = [sent EXCEPT ![s] = Tail(@)]
      /\ sink' = [sink EXCEPT ![s] = done.sink]
      /\ queue' = IF LinkIsUp(s) THEN queue \o DataOf(s, done.out) ELSE queue
      /\ asked' = IF \E i \in 1..Len(done.out) : done.out[i][1] = "ask"
                    THEN [asked EXCEPT ![s] = @ + 1] ELSE asked
      /\ UNCHANGED <<source, live, dongle>>
  BY <1>1 DEF SinkReceives, DataOf
<1>3. sent[s] \in Seq(Wire) /\ sink[s] \in Sinks
  BY DEF IInv, QueueType, SInv, SinkTypeOK
<1>4. Head(sent[s]) \in Members(sent[s]) /\ Head(sent[s]) \in Wire
  BY <1>2, <1>3, LoneTail
<1>5. Head(sent[s])[1] = "ask" => Head(sent[s])[2] \in Requests
  BY <1>4 DEF SInv, Of, Spoken
<1>6. Hears(sink[s], Head(sent[s]), done)
  BY <1>1, <1>3, <1>4, <1>5, SinkHears
<1>7. \/ UNCHANGED asked /\ \A x \in Members(done.out) : x[1] # "ask"
      \/ asked' = [asked EXCEPT ![s] = @ + 1] /\ \E x \in Members(done.out) : x[1] = "ask"
  BY <1>2 DEF Members
<1>8. \/ UNCHANGED queue
      \/ aborted = "no" /\ queue' = queue \o DataOf(s, done.out)
  BY <1>2 DEF LinkIsUp
<1>9. sink[s].mSessionID
  BY <1>2 DEF SinkRuns
<1>10. Receives(s, done)
  BY <1>2, <1>6, <1>7, <1>8, <1>9 DEF Receives
<1> QED BY <1>10

(* What is received, and what is left.                                     *)
LEMMA Received ==
  ASSUME IInv, SInv, NEW s \in SessionIDs, NEW done, Receives(s, done)
  PROVE  /\ Head(sent[s]) \in Members(sent[s])
         /\ sent' \in [SessionIDs -> Seq(Wire)] /\ asked' \in [SessionIDs -> Nat]
         /\ sink[s] \in Sinks /\ sink' \in [SessionIDs -> Sinks] /\ sink'[s] = done.sink
         /\ Members(sent'[s]) \subseteq Members(sent[s]) /\ Lone(sent'[s], ToSink)
         /\ Head(sent[s]) \in ToSink => \A x \in Members(sent'[s]) : x \notin ToSink
         /\ \A t \in SessionIDs : t # s =>
              sink'[t] = sink[t] /\ sent'[t] = sent[t] /\ asked'[t] = asked[t]
         /\ (\E x \in Members(done.out) : x[1] = "ask") => asked'[s] = asked[s] + 1
         /\ asked[s] \in Nat /\ asked'[s] \in {asked[s], asked[s] + 1}
<1>1. /\ sent \in [SessionIDs -> Seq(Wire)] /\ asked \in [SessionIDs -> Nat]
      /\ sink \in [SessionIDs -> Sinks] /\ sent[s] # << >> /\ done.sink \in Sinks
      /\ Lone(sent[s], ToSink)
  BY DEF IInv, QueueType, SInv, SinkTypeOK, Receives, Hears, Of, OneBaton
<1>2. /\ Head(sent[s]) \in Members(sent[s]) /\ Tail(sent[s]) \in Seq(Wire)
      /\ Members(Tail(sent[s])) \subseteq Members(sent[s]) /\ Lone(Tail(sent[s]), ToSink)
      /\ (Head(sent[s]) \in ToSink => \A x \in Members(Tail(sent[s])) : x \notin ToSink)
  BY <1>1, LoneTail
<1>3. /\ sent' \in [SessionIDs -> Seq(Wire)] /\ sent'[s] = Tail(sent[s])
      /\ \A t \in SessionIDs : t # s => sent'[t] = sent[t]
  BY <1>1, <1>2 DEF Receives
<1>4. /\ sink' \in [SessionIDs -> Sinks] /\ sink'[s] = done.sink
      /\ \A t \in SessionIDs : t # s => sink'[t] = sink[t]
  BY <1>1 DEF Receives
<1>5. /\ asked' \in [SessionIDs -> Nat] /\ \A t \in SessionIDs : t # s => asked'[t] = asked[t]
      /\ (\E x \in Members(done.out) : x[1] = "ask") => asked'[s] = asked[s] + 1
      /\ asked[s] \in Nat /\ asked'[s] \in {asked[s], asked[s] + 1}
  <2>1. CASE UNCHANGED asked /\ \A x \in Members(done.out) : x[1] # "ask"
    BY <1>1, <2>1
  <2>2. CASE asked' = [asked EXCEPT ![s] = @ + 1]
    <3>1. asked[s] \in Nat /\ asked[s] + 1 \in Nat
      BY <1>1
    <3> QED BY <1>1, <2>2, <3>1
  <2> QED BY <2>1, <2>2 DEF Receives
<1> QED BY <1>1, <1>2, <1>3, <1>4, <1>5

(* It is told by the source's queue.                                       *)
LEMMA Told ==
  ASSUME IInv, SInv, NEW s \in SessionIDs, NEW done, Receives(s, done)
  PROVE  /\ queue' \in Seq(MsgType)
         /\ Ordered(queue) /\ ~(Options(s) /\ Ask("OPTIONS") \in Members(done.out)) =>
              Ordered(queue')
         /\ Members(queue) \subseteq Members(queue')
         /\ \A m \in Members(queue') : m \in Members(queue) \/
              /\ m \in MsgType /\ WellFormed(m) /\ m.what = "Data" /\ m.session = s
              /\ m.arg \in Members(done.out)
         /\ \A t \in SessionIDs : Lone(queue', Batons(t))
<1>1. /\ queue \in Seq(MsgType) /\ OneBaton(s) /\ \A t \in SessionIDs : Lone(queue, Batons(t))
      /\ Moves(sink[s], Head(sent[s]), done) /\ Head(sent[s]) \in Members(sent[s])
  BY Received DEF IInv, QueueType, SInv, Of, OneBaton, Receives, Hears
<1>2. CASE UNCHANGED queue
  BY <1>1, <1>2
<1>3. CASE queue' = queue \o DataOf(s, done.out)
  <2>1. PICK data : data = DataOf(s, done.out)
    OBVIOUS
  <2>2. /\ done.out \in Seq(Wire) /\ Lone(done.out, ToSource)
        /\ \A x \in Members(done.out) : x \in ToSource => Head(sent[s]) \in ToSink
    BY <1>1, SinkSays
  <2>3. /\ data \in Seq(MsgType) /\ Ordered(data)
        /\ \A m \in Members(data) : /\ m \in MsgType /\ WellFormed(m) /\ m.what = "Data"
                                    /\ m.session = s /\ m.arg \in Members(done.out)
        /\ \A t \in SessionIDs : Lone(data, Batons(t))
    BY <2>1, <2>2, DataType
  <2>4. queue' \in Seq(MsgType) /\ Members(queue') = Members(queue) \cup Members(data)
    BY <1>1, <1>3, <2>1, <2>3, LoneConcat
  <2>5. ASSUME NEW t \in SessionIDs PROVE Lone(queue', Batons(t))
    <3>1. NotBoth(queue, Batons(t), data, Batons(t))
      <4>1. ASSUME NEW m \in Members(queue), NEW n \in Members(data),
                   m \in Batons(t), n \in Batons(t)
            PROVE  FALSE
        <5>1. t = s /\ n.what = "Data" /\ n.arg \in ToSource
          BY <2>3, <4>1 DEF Batons, IsBaton
        <5>2. Head(sent[s]) \in ToSink
          BY <2>2, <2>3, <4>1, <5>1
        <5> QED BY <1>1, <4>1, <5>1, <5>2 DEF OneBaton, NotBoth
      <4> QED BY <4>1 DEF NotBoth
    <3> QED BY <1>1, <1>3, <2>1, <2>3, <3>1, LoneConcat
  <2>6. ASSUME Ordered(queue), ~(Options(s) /\ Ask("OPTIONS") \in Members(done.out))
        PROVE  Ordered(queue')
    <3>1. ASSUME NEW m \in Members(queue), NEW n \in Members(data) PROVE Fits(m, n)
      <4>1. n.what = "Data" /\ n.session = s /\ n.arg \in Members(done.out)
        BY <2>3, <3>1
      <4>2. ~(m.session = s /\ IsOptions(m) /\ IsOptions(n))
        BY <2>6, <3>1, <4>1 DEF IsOptions, Options
      <4> QED BY <4>1, <4>2 DEF Fits
    <3> QED BY <1>1, <1>3, <2>1, <2>3, <2>6, <3>1, OrderedConcat
  <2> QED BY <2>3, <2>4, <2>5, <2>6
<1> QED BY <1>2, <1>3 DEF Receives

(* The source's invariant does not mind.                                   *)
LEMMA ReceptionStep ==
  ASSUME IInv, SInv, NEW s \in SessionIDs, NEW done, Receives(s, done)
  PROVE  IInv'
<1>1. /\ UNCHANGED <<source, live, dongle>> /\ sent[s] # << >> /\ SinkTypeOK
      /\ Moves(sink[s], Head(sent[s]), done) /\ dongle \in [SessionIDs -> {"absent", "on",
                                                 "greeted", "triggered", "set up", "gone"}]
  BY DEF Receives, Hears, SInv, IInv, QueueType
<1>2. /\ Head(sent[s]) \in Members(sent[s])
      /\ sent' \in [SessionIDs -> Seq(Wire)] /\ asked' \in [SessionIDs -> Nat]
      /\ \A t \in SessionIDs : t # s =>
           sink'[t] = sink[t] /\ sent'[t] = sent[t] /\ asked'[t] = asked[t]
      /\ (\E x \in Members(done.out) : x[1] = "ask") => asked'[s] = asked[s] + 1
      /\ asked[s] \in Nat
  BY Received
<1>3. /\ queue' \in Seq(MsgType)
      /\ (Ordered(queue) /\ ~(Options(s) /\ Ask("OPTIONS") \in Members(done.out)) =>
           Ordered(queue'))
      /\ Members(queue) \subseteq Members(queue')
      /\ \A m \in Members(queue') : m \in Members(queue) \/
           /\ m \in MsgType /\ WellFormed(m) /\ m.what = "Data" /\ m.session = s
           /\ m.arg \in Members(done.out)
  BY Told
<1>4. QueueType'
  BY <1>1, <1>2, <1>3 DEF QueueType
<1>5. UNCHANGED <<mState, mSessionID, mClientSessionID, mPlaybackSessionID, playback,
                  mResponseHandlers, mReaperPending, keepAlives, teardownTimer, finishStop2,
                  finishPlay, mHDCP, mUsingHDCP, mHDCPInitializationComplete,
                  mSetupTriggerDeferred, replies, stopCalled, displayError, aborted, live>>
  BY <1>1 DEF source, client, timers, hdcp, stopping
<1>6. CASE aborted # "no"
  <2>1. TypeOK'
    <3>1. Flags'
      BY <1>5 DEF IInv, TypeOK, Flags
    <3>2. Names'
      BY <1>5 DEF IInv, TypeOK, Names, States
    <3>3. Numbers'
      BY <1>5 DEF IInv, TypeOK, Numbers
    <3> QED BY <3>1, <3>2, <3>3 DEF TypeOK, Flags, Names, Numbers
  <2>2. AbortsOnlyWhenCutOff'
    BY <1>5 DEF IInv, AbortsOnlyWhenCutOff, CutOff
  <2>3. SetupAwaitsHDCP'
    BY <1>5 DEF IInv, SetupAwaitsHDCP
  <2> QED BY <1>4, <1>5, <1>6, <2>1, <2>2, <2>3, AbortStep
<1>7. CASE aborted = "no"
  <2>1. Going /\ Met(s) /\ dongle[s] # "absent"
    <3>1. Going /\ Met(s)
      BY <1>1, <1>7 DEF Met, IInv
    <3> QED BY <3>1 DEF Going, Connections
  <2>2. Ask("OPTIONS") \in Members(done.out) => asked[s] = 0 /\ ~Options(s) /\ asked' # asked
    <3> SUFFICES ASSUME Ask("OPTIONS") \in Members(done.out)
                 PROVE  asked[s] = 0 /\ ~Options(s) /\ asked' # asked
      OBVIOUS
    <3>1. Head(sent[s]) = Ask("M1")
      <4>1. PICK k, msg : k = sink[s] /\ msg = Head(sent[s]) /\ Moves(k, msg, done)
        BY <1>1
      <4>2. \A x \in Members(done.out) : x = Ask("OPTIONS") => msg = Ask("M1")
        BY <4>1, SinkSays
      <4> QED BY <4>1, <4>2
    <3>2. asked[s] = 0
      BY <1>2, <3>1 DEF SInv, Of, Stages, StageHere
    <3>3. ~Options(s)
      BY <2>1, <3>2 DEF Going, Negotiation, NotBefore
    <3>4. Ask("OPTIONS")[1] = "ask"
      BY DEF Ask
    <3>5. asked'[s] = asked[s] + 1
      BY <1>2, <3>4
    <3>6. asked' # asked
      BY <1>2, <3>5
    <3> QED BY <3>2, <3>3, <3>6
  <2>3. QueueInOrder'
    BY <1>3, <2>1, <2>2 DEF Going, QueueInOrder
  <2>4. UNCHANGED asked \/ asked' = [asked EXCEPT ![s] = @ + 1]
    BY DEF Receives
  <2>5. \A t \in SessionIDs : Options(t)' =>
          Options(t) \/ (t = s /\ asked[s] = 0 /\ asked' # asked)
    <3> SUFFICES ASSUME NEW t \in SessionIDs, NEW m \in Members(queue'), m.session = t,
                        IsOptions(m), m \notin Members(queue)
                 PROVE  t = s /\ asked[s] = 0 /\ asked' # asked
      BY DEF Options
    <3>1. m.session = s /\ m.arg = Ask("OPTIONS") /\ m.arg \in Members(done.out)
      BY <1>3 DEF IsOptions
    <3> QED BY <2>2, <3>1
  <2>6. Negotiation'
    BY <1>1, <1>7, <2>1, <2>4, <2>5, NegotiationTalks
  <2>7. \A m \in Members(queue') :
          m \in Members(queue) \/ (m.session = s /\ m.what \in {"Error", "Data"})
    BY <1>3
  <2>8. \A t \in SessionIDs \ {s} :
          dongle'[t] = dongle[t] /\ asked'[t] = asked[t] /\ sent'[t] = sent[t]
    BY <1>1, <1>2
  <2> QED BY <1>1, <1>3, <1>4, <1>7, <2>1, <2>3, <2>6, <2>7, <2>8, TalkStep
<1> QED BY <1>6, <1>7

(* The message takes it a stage further.                                   *)
LEMMA ReceptionStages ==
  ASSUME IInv, SInv, NEW s \in SessionIDs, NEW done, Receives(s, done)
  PROVE  Stages(s)' /\ PlaysAsAsked(s)'
<1>1. /\ UNCHANGED <<source, live, dongle>>
      /\ Moves(sink[s], Head(sent[s]), done) /\ sent[s] # << >> /\ sink[s].mSessionID
      /\ done.sink.mSessionID = sink[s].mSessionID
      /\ OneBaton(s) /\ Stages(s) /\ PlaysAsAsked(s)
  BY DEF Receives, Hears, SInv, Of
<1>2. UNCHANGED <<mState, playback, aborted>>
  BY <1>1 DEF source
<1>3. PICK msg : msg = Head(sent[s])
  OBVIOUS
<1>4. /\ msg \in Members(sent[s]) /\ sink'[s] = done.sink /\ sink[s] \in Sinks
      /\ Members(sent'[s]) \subseteq Members(sent[s])
      /\ msg \in ToSink => \A x \in Members(sent'[s]) : x \notin ToSink
      /\ (\E x \in Members(done.out) : x[1] = "ask") => asked'[s] = asked[s] + 1
      /\ asked[s] \in Nat /\ asked'[s] \in {asked[s], asked[s] + 1}
  BY <1>3, Received
<1>5. \A m \in Members(queue') : m \in Members(queue) \/
           /\ m \in MsgType /\ WellFormed(m) /\ m.what = "Data" /\ m.session = s
           /\ m.arg \in Members(done.out)
  BY Told
<1>6. /\ StageHere(s, msg) /\ StageOf(s)
      /\ \A m \in Members(queue) : m.session = s => StageThere(s, m)
      /\ \A x \in Members(sent'[s]) : StageHere(s, x)
  BY <1>1, <1>4 DEF Stages
<1>7. /\ asked'[s] = 0 => asked[s] = 0
      /\ asked[s] # 0 => asked'[s] # 0
      /\ (\E x \in Members(done.out) : x[1] = "ask") => asked'[s] # 0
  BY <1>4
<1>8. CASE msg \in ToSink
  <2>1. \A m \in Members(queue) : m.session = s => ~IsBaton(m)
    <3>1. \A m \in Members(queue) : m \in MsgType
      <4>1. queue \in Seq(MsgType)
        BY DEF IInv, QueueType
      <4> QED BY <4>1 DEF Members
    <3> QED BY <1>1, <1>4, <1>8, <3>1 DEF OneBaton, NotBoth, Batons
  <2>2. \A x \in Members(sent'[s]) : x \notin ToSink
    BY <1>4, <1>8
  <2>3. \A x \in Members(sent'[s]) : StageHere(s, x)'
    BY <2>2 DEF StageHere, ToSink, EarlyToSink
  <2>4. \A m \in Members(queue) : m.session = s => StageThere(s, m)'
    BY <2>1 DEF StageThere, IsBaton, ToSource
  <2>5. ASSUME NEW m \in Members(queue'), m.what = "Data", m.arg \in Members(done.out)
        PROVE  StageThere(s, m)'
    <3>1. m.arg \in EarlyToSource => msg \in EarlyToSink /\ Unmoved(sink[s], done)
      BY <1>1, <1>3, <2>5, SinkSays
    <3>2. m.arg \in EarlyToSource =>
            playback = "none" /\ done.sink.mRTPSinks = 0 /\ done.sink.mState \notin {"PAUSED", "PLAYING"}
      BY <1>6, <3>1 DEF StageHere, Unmoved, IsUp
    <3>3. m.arg = Ask("SETUP") => Binds(sink[s], msg, done)
      BY <1>1, <1>3, <2>5, SinkSays
    <3>4. Binds(sink[s], msg, done) =>
            done.sink.mRTPSinks = 1 /\ done.sink.mState \notin {"PAUSED", "PLAYING"}
      BY <1>6 DEF StageHere, Binds, EarlyToSink, IsUp
    <3> QED BY <1>2, <1>4, <2>5, <3>2, <3>3, <3>4 DEF StageThere, IsUp
  <2>6. StageOf(s)'
    <3>1. sink[s].mState # "UNDEFINED"
      BY <1>1, <1>6 DEF StageOf
    <3>2. Listens(sink[s], done) => StageOf(s)'
      BY <1>4, <1>6, <1>7, <3>1 DEF Listens, Unmoved, StageOf, IsUp
    <3>3. ASSUME NEW x \in {Ask("OPTIONS"), Ask("SETUP"), Ask("PLAY")}, x \in Members(done.out)
          PROVE  asked'[s] # 0
      BY <1>7, <3>3 DEF Ask
    <3>4. /\ Members(<<Ok("M1"), Ask("OPTIONS")>>) = {Ok("M1"), Ask("OPTIONS")}
          /\ Members(<<Ask("SETUP"), Ok("M5")>>) = {Ask("SETUP"), Ok("M5")}
          /\ Members(<<Ask("PLAY")>>) = {Ask("PLAY")}
      BY LoneShort
    <3>5. Greets(sink[s], msg, done) => StageOf(s)'
      BY <1>4, <3>1, <3>3, <3>4 DEF Greets, Unmoved, StageOf
    <3>6. Describes(sink[s], msg, done) => StageOf(s)'
      BY <1>4, <1>6, <1>7, <3>1 DEF Describes, Unmoved, StageOf, IsUp
    <3>7. Binds(sink[s], msg, done) => StageOf(s)'
      BY <1>4, <3>1, <3>3, <3>4 DEF Binds, StageOf
    <3>8. Pauses(sink[s], msg, done) => StageOf(s)'
      BY <1>4, <3>3, <3>4 DEF Pauses, StageOf
    <3>9. Plays(sink[s], msg, done) => StageOf(s)'
      BY <1>4, <1>6, <1>7 DEF Plays, StageOf
    <3> QED BY <1>1, <1>3, <3>2, <3>5, <3>6, <3>7, <3>8, <3>9 DEF Moves
  <2>7. PlaysAsAsked(s)'
    <3>1. CASE Pauses(sink[s], msg, done)
      BY <1>2, <1>4, <1>6, <3>1 DEF Pauses, StageHere, PlaysAsAsked, AfterSetup
    <3>2. CASE Plays(sink[s], msg, done)
      BY <1>2, <1>4, <1>6, <3>2 DEF Plays, StageHere, PlaysAsAsked
    <3>3. CASE done.sink.mState = sink[s].mState
      BY <1>1, <1>2, <1>4, <3>3 DEF PlaysAsAsked
    <3> QED BY <1>1, <1>3, <3>1, <3>2, <3>3
            DEF Moves, Listens, Greets, Describes, Binds, Unmoved
  <2> QED BY <1>5, <2>3, <2>4, <2>5, <2>6, <2>7 DEF Stages
<1>9. CASE msg \notin ToSink
  <2>1. Listens(sink[s], done)
    BY <1>1, <1>3, <1>9 DEF Moves, Greets, Describes, Binds, Pauses, Plays, ToSink, EarlyToSink
  <2>2. \A x \in Members(done.out) : x \notin ToSource
    BY <1>1, <1>3, <1>9, SinkSays
  <2>3. UNCHANGED asked
    <3>1. Members(<< >>) = {} /\ \A a : Members(<<a>>) = {a}
      BY LoneShort
    <3>2. \A x \in Members(done.out) : x[1] = "ok"
      BY <2>1, <3>1 DEF Listens, Ok
    <3> QED BY <3>2 DEF Receives
  <2>4. /\ sink'[s].mState = sink[s].mState /\ sink'[s].mRTPSinks = sink[s].mRTPSinks
        /\ sink'[s].mResponseHandlers \subseteq sink[s].mResponseHandlers
    BY <1>4, <2>1 DEF Listens, Unmoved
  <2>5. \A x \in Members(sent'[s]) : StageHere(s, x)'
    BY <1>2, <1>6, <2>3, <2>4 DEF StageHere, IsUp
  <2>6. ASSUME NEW m \in Members(queue'), m.session = s PROVE StageThere(s, m)'
    <3>1. CASE m \in Members(queue)
      BY <1>2, <1>6, <2>3, <2>4, <2>6, <3>1 DEF StageThere, IsUp
    <3>2. CASE m.what = "Data" /\ m.arg \in Members(done.out)
      BY <2>2, <3>2 DEF StageThere, ToSource
    <3> QED BY <1>5, <3>1, <3>2
  <2>7. StageOf(s)'
    <3>1. sink[s].mState # "UNDEFINED"
      BY <1>1, <1>6 DEF StageOf
    <3> QED BY <1>6, <2>3, <2>4, <3>1 DEF StageOf, IsUp
  <2>8. PlaysAsAsked(s)'
    BY <1>1, <1>2, <2>4 DEF PlaysAsAsked
  <2> QED BY <2>5, <2>6, <2>7, <2>8 DEF Stages
<1> QED BY <1>8, <1>9


-----------------------------------------------------------------------------
(* What becomes of the sinks                                               *)

(* One that nothing takes further.                                         *)
LEMMA SinkStays ==
  ASSUME SInv, NEW t \in SessionIDs, UNCHANGED source, sent'[t] = sent[t], asked'[t] = asked[t],
         sink'[t].mRTPSinks = sink[t].mRTPSinks, sink'[t].aborted = sink[t].aborted,
         sink'[t].mResponseHandlers = sink[t].mResponseHandlers,
         sink'[t].mState # sink[t].mState => sink'[t].mState = "CONNECTED",
         sink[t].mState = "UNDEFINED" => sink'[t] = sink[t] /\ dongle'[t] = dongle[t],
         Lone(queue', Batons(t)),
         \A m \in Members(queue') : m \in Members(queue) \/ m.session # t \/ m.what = "Error"
  PROVE  Of(t)'
<1>1. /\ UNCHANGED <<mState, playback, aborted, displayError>>
      /\ OneBaton(t) /\ Stages(t) /\ Spoken(t) /\ PlaysAsAsked(t)
  BY DEF source, stopping, SInv, Of
<1>2. sink'[t].mState \in {"UNDEFINED", "PAUSED", "PLAYING"} => sink'[t].mState = sink[t].mState
  OBVIOUS
<1>3. \A m \in Members(queue') : m \in Batons(t) => m \in Members(queue)
  BY DEF Batons, IsBaton
<1>4. OneBaton(t)'
  BY <1>1, <1>3 DEF OneBaton, NotBoth
<1>5. \A m \in Members(queue') : m.session = t => StageThere(t, m)'
  <2> SUFFICES ASSUME NEW m \in Members(queue'), m.session = t
               PROVE  StageThere(t, m)'
    OBVIOUS
  <2>1. CASE m \in Members(queue)
    BY <1>1, <1>2, <2>1 DEF Stages, StageThere, IsUp
  <2>2. CASE m.what = "Error"
    BY <2>2 DEF StageThere
  <2> QED BY <2>1, <2>2
<1>6. \A x \in Members(sent'[t]) : StageHere(t, x)'
  BY <1>1, <1>2 DEF Stages, StageHere, IsUp
<1>7. StageOf(t)'
  BY <1>1, <1>2 DEF Stages, StageOf, IsUp
<1>8. Spoken(t)'
  BY <1>1 DEF Spoken
<1>9. PlaysAsAsked(t)'
  BY <1>1, <1>2 DEF PlaysAsAsked
<1> QED BY <1>4, <1>5, <1>6, <1>7, <1>8, <1>9 DEF Of, Stages

(* All of them then.                                                       *)
LEMMA SinksStay ==
  ASSUME SInv, UNCHANGED source, SinkTypeOK',
         \A t \in SessionIDs : Of(t)' /\ (Touched(t)' => Touched(t)),
         \/ playback = "none"
         \/ \A t \in SessionIDs : sink'[t].mRTPSinks = sink[t].mRTPSinks
  PROVE  SInv'
<1>1. UNCHANGED <<playback, mHDCP, mClientSessionID>>
  BY DEF source, client, stopping
<1>2. OneServed'
  BY DEF SInv, OneServed
<1>3. SocketsAreBound'
  BY <1>1 DEF SInv, SocketsAreBound
<1> QED BY <1>1, <1>2, <1>3 DEF SInv

LEMMA ReceptionKeeps ==
  ASSUME IInv, SInv, NEW s \in SessionIDs, NEW done, Receives(s, done)
  PROVE  SInv'
<1>1. /\ UNCHANGED <<source, live, dongle>> /\ sent[s] # << >>
      /\ Moves(sink[s], Head(sent[s]), done)
      /\ done.sink.aborted => sink[s].aborted \/ Head(sent[s])[1] = "refused"
      /\ OneBaton(s) /\ Stages(s) /\ Spoken(s)
  BY DEF Receives, Hears, SInv, Of
<1>2. UNCHANGED <<playback, displayError>>
  BY <1>1 DEF source
<1>3. PICK msg : msg = Head(sent[s])
  OBVIOUS
<1>4. /\ msg \in Members(sent[s]) /\ sink' \in [SessionIDs -> Sinks] /\ sink'[s] = done.sink
      /\ Members(sent'[s]) \subseteq Members(sent[s]) /\ Lone(sent'[s], ToSink)
      /\ msg \in ToSink => \A x \in Members(sent'[s]) : x \notin ToSink
      /\ \A t \in SessionIDs : t # s =>
           sink'[t] = sink[t] /\ sent'[t] = sent[t] /\ asked'[t] = asked[t]
  BY <1>3, Received
<1>5. /\ \A m \in Members(queue') : m \in Members(queue) \/
           /\ m \in MsgType /\ WellFormed(m) /\ m.what = "Data" /\ m.session = s
           /\ m.arg \in Members(done.out)
      /\ \A t \in SessionIDs : Lone(queue', Batons(t))
  BY Told
<1>6. Stages(s)' /\ PlaysAsAsked(s)'
  BY ReceptionStages
<1>7. OneBaton(s)'
  <2>1. CASE msg \in ToSink
    BY <1>4, <1>5, <2>1 DEF OneBaton, NotBoth
  <2>2. CASE msg \notin ToSink
    <3>1. \A x \in Members(done.out) : x \notin ToSource
      BY <1>1, <1>3, <2>2, SinkSays
    <3>2. \A m \in Members(queue') : m \in Batons(s) => m \in Members(queue)
      BY <1>5, <3>1 DEF Batons, IsBaton
    <3> QED BY <1>1, <1>4, <1>5, <3>2 DEF OneBaton, NotBoth
  <2> QED BY <2>1, <2>2
<1>8. Spoken(s)'
  BY <1>1, <1>2, <1>3, <1>4 DEF Spoken
<1>9. ASSUME NEW t \in SessionIDs
      PROVE  Of(t)' /\ (Touched(t)' => Touched(t))
  <2>1. CASE t = s
    BY <1>1, <1>6, <1>7, <1>8, <2>1 DEF Of, Touched
  <2>2. CASE t # s
    <3>1. sink'[t] = sink[t] /\ sent'[t] = sent[t] /\ asked'[t] = asked[t] /\ dongle'[t] = dongle[t]
      BY <1>1, <1>4, <2>2
    <3>2. \A m \in Members(queue') : m \in Members(queue) \/ m.session # t
      BY <1>5, <2>2
    <3>3. Of(t)'
      BY <1>1, <1>5, <3>1, <3>2, SinkStays
    <3> QED BY <3>1, <3>3 DEF Touched
  <2> QED BY <2>1, <2>2
<1>10. \/ playback = "none"
       \/ \A t \in SessionIDs : sink'[t].mRTPSinks = sink[t].mRTPSinks
  <2>1. CASE Binds(sink[s], msg, done)
    BY <1>1, <1>4, <2>1 DEF Binds, Stages, StageHere, EarlyToSink
  <2>2. CASE done.sink.mRTPSinks = sink[s].mRTPSinks
    <3>1. ASSUME NEW t \in SessionIDs PROVE sink'[t].mRTPSinks = sink[t].mRTPSinks
      BY <1>4, <2>2
    <3> QED BY <3>1
  <2> QED BY <1>1, <1>3, <2>1, <2>2
          DEF Moves, Listens, Greets, Describes, Pauses, Plays, Unmoved
<1> QED BY <1>1, <1>4, <1>9, <1>10, SinksStay DEF SinkTypeOK


LEMMA SinkReceivesKeeps ==
  ASSUME IInv, SInv, NEW s \in SessionIDs, SinkReceives(s)
  PROVE  IInv' /\ SInv'
<1>1. PICK done : Receives(s, done)
  BY Reception
<1> QED BY <1>1, ReceptionStep, ReceptionKeeps

LEMMA AppendOne ==
  ASSUME NEW T, NEW q \in Seq(T), NEW n \in T
  PROVE  Append(q, n) = q \o <<n>> /\ <<n>> \in Seq(T)
OBVIOUS

(* The network session tells the source something.                         *)
LEMMA PostKeeps ==
  ASSUME IInv, NEW n \in MsgType, queue' = Append(queue, n),
         IsBaton(n) => \A m \in Members(queue) : m.session # n.session
  PROVE  /\ Members(queue') = Members(queue) \cup {n}
         /\ \A t \in SessionIDs : Lone(queue, Batons(t)) => Lone(queue', Batons(t))
<1>1. queue \in Seq(MsgType)
  BY DEF IInv, QueueType
<1>2. queue' = queue \o <<n>> /\ <<n>> \in Seq(MsgType)
  BY <1>1, AppendOne
<1>3. Members(<<n>>) = {n} /\ \A S : Lone(<<n>>, S)
  BY LoneShort
<1>4. Members(queue') = Members(queue) \cup {n}
  BY <1>1, <1>2, <1>3, LoneConcat
<1>5. ASSUME NEW t \in SessionIDs, Lone(queue, Batons(t)) PROVE Lone(queue', Batons(t))
  <2>1. NotBoth(queue, Batons(t), <<n>>, Batons(t))
    BY <1>3 DEF NotBoth, Batons
  <2> QED BY <1>1, <1>2, <1>3, <1>5, <2>1, LoneConcat
<1> QED BY <1>4, <1>5

LEMMA SinkStartsKeeps ==
  ASSUME IInv, SInv, NEW s \in SessionIDs, SinkStarts(s)
  PROVE  IInv' /\ SInv'
<1>1. /\ aborted = "no" /\ sink[s].mState = "UNDEFINED"
      /\ sink' = [sink EXCEPT ![s] = SinkStart(@)] /\ dongle' = [dongle EXCEPT ![s] = "on"]
      /\ live' = live \cup {s} /\ Post(s, "ClientConnected", "remote")
      /\ UNCHANGED <<source, sent, asked>>
  BY DEF SinkStarts
<1>2. /\ sink \in [SessionIDs -> Sinks] /\ OneBaton(s) /\ StageOf(s) /\ Spoken(s)
      /\ \A t \in SessionIDs : Lone(queue, Batons(t))
      /\ dongle \in [SessionIDs -> {"absent", "on", "greeted", "triggered", "set up", "gone"}]
  BY DEF SInv, SinkTypeOK, Of, Stages, OneBaton, IInv, QueueType
<1>3. dongle[s] = "absent"
  BY <1>1, <1>2 DEF StageOf
<1>4. IInv'
  <2>1. dongle' = [dongle EXCEPT ![s] = IF "remote" = "local" THEN "gone" ELSE "on"]
    BY <1>1
  <2>2. "remote" \in {"remote", "local"}
    OBVIOUS
  <2> QED BY <1>1, <1>3, <2>1, <2>2, ConnectionMade
<1>5. ~Met(s) /\ \A m \in Members(queue) : m.session # s
  BY <1>1, <1>3 DEF IInv, Going, Connections
<1>6. ~Touched(s) /\ sent[s] = << >> /\ asked[s] = 0
  BY <1>5, TouchedMet DEF Touched
<1>7. PICK n : n = Msg("ClientConnected", s, "remote")
  OBVIOUS
<1>8. /\ Members(queue') = Members(queue) \cup {n} /\ n.what = "ClientConnected" /\ n.session = s
      /\ \A t \in SessionIDs : Lone(queue', Batons(t))
  <2>1. n \in MsgType /\ n.what = "ClientConnected" /\ n.session = s /\ queue' = Append(queue, n)
    BY <1>1, <1>7 DEF Msg, MsgType, Whats, Post
  <2> QED BY <1>2, <1>5, <2>1, PostKeeps
<1>9. /\ sink' \in [SessionIDs -> Sinks] /\ sink'[s].mState = "CONNECTING"
      /\ sink'[s].mSessionID /\ sink'[s].mRTPSinks = sink[s].mRTPSinks
      /\ sink'[s].mResponseHandlers = sink[s].mResponseHandlers
      /\ sink'[s].aborted = sink[s].aborted
      /\ \A t \in SessionIDs : t # s => sink'[t] = sink[t] /\ dongle'[t] = dongle[t]
  <2>1. PICK k : k = SinkStart(sink[s])
    OBVIOUS
  <2>2. /\ k \in Sinks /\ k.mState = "CONNECTING" /\ k.mSessionID
        /\ k.mRTPSinks = sink[s].mRTPSinks /\ k.mResponseHandlers = sink[s].mResponseHandlers
        /\ k.aborted = sink[s].aborted
    BY <1>2, <2>1 DEF SinkStart, Sinks
  <2>3. sink' = [sink EXCEPT ![s] = k]
    BY <1>1, <2>1
  <2> QED BY <1>1, <1>2, <2>2, <2>3
<1>10. Of(s)'
  <2>1. UNCHANGED <<sent, asked, displayError>> /\ Members(<< >>) = {}
    BY <1>1, LoneShort DEF source
  <2>2. sent'[s] = << >> /\ Members(sent'[s]) = {} /\ asked'[s] = 0
    BY <1>6, <2>1
  <2>3. OneBaton(s)'
    BY <1>2, <1>8, <1>6, <2>1, <2>2 DEF OneBaton, NotBoth
  <2>4. sink'[s].mRTPSinks = 0 /\ ~IsUp(s)' /\ ~sink'[s].aborted /\ sink'[s].mResponseHandlers = {}
    BY <1>1, <1>2, <1>9 DEF IsUp, StageOf
  <2>5. \A m \in Members(queue') : m.session = s => StageThere(s, m)'
    BY <1>5, <1>8, <2>2, <2>4 DEF StageThere
  <2>6. StageOf(s)'
    BY <1>9, <2>4 DEF StageOf
  <2>7. Spoken(s)' /\ PlaysAsAsked(s)'
    BY <1>9, <2>2, <2>4 DEF Spoken, PlaysAsAsked
  <2> QED BY <2>2, <2>3, <2>5, <2>6, <2>7 DEF Of, Stages
<1>11. ASSUME NEW t \in SessionIDs
       PROVE  Of(t)' /\ (Touched(t)' => Touched(t)) /\ sink'[t].mRTPSinks = sink[t].mRTPSinks
  <2>1. CASE t = s
    BY <1>1, <1>9, <1>10, <2>1 DEF Touched
  <2>2. CASE t # s
    <3>1. sink'[t] = sink[t] /\ dongle'[t] = dongle[t] /\ sent'[t] = sent[t] /\ asked'[t] = asked[t]
      BY <1>1, <1>9, <2>2
    <3>2. Of(t)'
      BY <1>1, <1>8, <2>2, <3>1, SinkStays
    <3> QED BY <3>1, <3>2 DEF Touched
  <2> QED BY <2>1, <2>2
<1>12. SinkTypeOK'
  BY <1>9 DEF SinkTypeOK
<1>13. SInv'
  BY <1>1, <1>11, <1>12, SinksStay
<1> QED BY <1>4, <1>13

(* One that reads the end of its connection, or of its being made.         *)
LEMMA SinkTurns ==
  ASSUME SInv, NEW s \in SessionIDs, NEW k,
         \/ k = SinkConnected(sink[s]) /\ sink[s].mState = "CONNECTING"
         \/ k = SinkLost(sink[s]) /\ sink[s].mState # "UNDEFINED",
         sink' = [sink EXCEPT ![s] = k]
  PROVE  /\ SinkTypeOK' /\ sink[s].mState # "UNDEFINED"
         /\ sink'[s].mRTPSinks = sink[s].mRTPSinks /\ sink'[s].aborted = sink[s].aborted
         /\ sink'[s].mResponseHandlers = sink[s].mResponseHandlers
         /\ sink'[s].mState # sink[s].mState => sink'[s].mState = "CONNECTED"
         /\ \A t \in SessionIDs : t # s => sink'[t] = sink[t]
<1>1. sink \in [SessionIDs -> Sinks]
  BY DEF SInv, SinkTypeOK
<1>2. /\ k \in Sinks /\ k.mRTPSinks = sink[s].mRTPSinks /\ k.aborted = sink[s].aborted
      /\ k.mResponseHandlers = sink[s].mResponseHandlers
      /\ k.mState # sink[s].mState => k.mState = "CONNECTED"
  BY <1>1 DEF SinkConnected, SinkLost, Sinks
<1> QED BY <1>1, <1>2 DEF SinkTypeOK

LEMMA SinkTurnsKeeps ==
  ASSUME IInv, SInv, NEW s \in SessionIDs, SinkGetsConnected(s) \/ SinkLoses(s)
  PROVE  IInv' /\ SInv'
<1>1. UNCHANGED <<source, queue, live, sent, dongle, asked>>
  BY DEF SinkGetsConnected, SinkLoses, peer
<1>2. IInv'
  <2>1. UNCHANGED <<vars, peer>>
    BY <1>1 DEF source, vars, peer
  <2> QED BY <2>1, StutterStep
<1>3. PICK k : /\ \/ k = SinkConnected(sink[s]) /\ sink[s].mState = "CONNECTING"
                  \/ k = SinkLost(sink[s]) /\ sink[s].mState # "UNDEFINED"
               /\ sink' = [sink EXCEPT ![s] = k]
  <2>1. SinkRuns(s) => sink[s].mState # "UNDEFINED"
    BY DEF SinkRuns, SInv, Of, Stages, StageOf
  <2>2. CASE SinkGetsConnected(s)
    BY <2>2 DEF SinkGetsConnected
  <2>3. CASE SinkLoses(s)
    BY <2>1, <2>3 DEF SinkLoses
  <2> QED BY <2>2, <2>3
<1>4. /\ SinkTypeOK' /\ sink[s].mState # "UNDEFINED"
      /\ sink'[s].mRTPSinks = sink[s].mRTPSinks /\ sink'[s].aborted = sink[s].aborted
      /\ sink'[s].mResponseHandlers = sink[s].mResponseHandlers
      /\ sink'[s].mState # sink[s].mState => sink'[s].mState = "CONNECTED"
      /\ \A t \in SessionIDs : t # s => sink'[t] = sink[t]
  BY <1>3, SinkTurns
<1>5. ASSUME NEW t \in SessionIDs
      PROVE  Of(t)' /\ (Touched(t)' => Touched(t)) /\ sink'[t].mRTPSinks = sink[t].mRTPSinks
  <2>1. /\ sent'[t] = sent[t] /\ asked'[t] = asked[t] /\ dongle'[t] = dongle[t]
        /\ Members(queue') = Members(queue) /\ Lone(queue', Batons(t))
    BY <1>1 DEF SInv, Of, OneBaton
  <2>2. /\ sink'[t].mRTPSinks = sink[t].mRTPSinks /\ sink'[t].aborted = sink[t].aborted
        /\ sink'[t].mResponseHandlers = sink[t].mResponseHandlers
        /\ sink'[t].mState # sink[t].mState => sink'[t].mState = "CONNECTED"
        /\ sink[t].mState = "UNDEFINED" => sink'[t] = sink[t]
    BY <1>4
  <2>3. Of(t)'
    BY <1>1, <2>1, <2>2, SinkStays
  <2> QED BY <2>1, <2>2, <2>3 DEF Touched
<1>6. SInv'
  BY <1>1, <1>4, <1>5, SinksStay
<1> QED BY <1>2, <1>6

LEMMA LinkBreaksKeeps ==
  ASSUME IInv, SInv, NEW s \in SessionIDs, LinkBreaks(s)
  PROVE  IInv' /\ SInv'
<1>1. /\ aborted = "no" /\ dongle[s] = "on" /\ s \in live /\ Post(s, "Error", "")
      /\ dongle' = [dongle EXCEPT ![s] = "gone"] /\ UNCHANGED <<source, live, sent, asked>>
      /\ UNCHANGED sink \/ sink' = [sink EXCEPT ![s] = SinkLost(@)]
  BY DEF LinkBreaks, LinkIsUp
<1>2. IInv'
  BY <1>1, ConnectionBreaks
<1>3. PICK n : n = Msg("Error", s, "")
  OBVIOUS
<1>4. /\ Members(queue') = Members(queue) \cup {n} /\ n.what = "Error" /\ n.session = s
      /\ \A t \in SessionIDs : Lone(queue', Batons(t))
  <2>1. \A t \in SessionIDs : Lone(queue, Batons(t))
    BY DEF SInv, Of, OneBaton
  <2>2. n \in MsgType /\ n.what = "Error" /\ n.session = s /\ queue' = Append(queue, n)
    BY <1>1, <1>3 DEF Msg, MsgType, Whats, Post
  <2>3. ~IsBaton(n)
    BY <2>2 DEF IsBaton
  <2> QED BY <2>1, <2>2, <2>3, PostKeeps
<1>5. sink[s].mState # "UNDEFINED"
  BY <1>1 DEF SInv, Of, Stages, StageOf
<1>6. /\ SinkTypeOK'
      /\ sink'[s].mRTPSinks = sink[s].mRTPSinks /\ sink'[s].aborted = sink[s].aborted
      /\ sink'[s].mResponseHandlers = sink[s].mResponseHandlers
      /\ sink'[s].mState # sink[s].mState => sink'[s].mState = "CONNECTED"
      /\ \A t \in SessionIDs : t # s => sink'[t] = sink[t]
  <2>1. CASE UNCHANGED sink
    BY <2>1 DEF SInv, SinkTypeOK
  <2>2. CASE sink' = [sink EXCEPT ![s] = SinkLost(@)]
    <3>1. PICK k : k = SinkLost(sink[s])
      OBVIOUS
    <3>2. sink' = [sink EXCEPT ![s] = k]
      BY <2>2, <3>1
    <3> QED BY <1>5, <3>1, <3>2, SinkTurns
  <2> QED BY <1>1, <2>1, <2>2
<1>7. dongle \in [SessionIDs -> {"absent", "on", "greeted", "triggered", "set up", "gone"}]
  BY DEF IInv, QueueType
<1>8. ASSUME NEW t \in SessionIDs
      PROVE  Of(t)' /\ (Touched(t)' => Touched(t)) /\ sink'[t].mRTPSinks = sink[t].mRTPSinks
  <2>1. /\ sent'[t] = sent[t] /\ asked'[t] = asked[t] /\ (t # s => dongle'[t] = dongle[t])
        /\ \A m \in Members(queue') : m \in Members(queue) \/ m.what = "Error"
    BY <1>1, <1>4, <1>7
  <2>2. /\ sink'[t].mRTPSinks = sink[t].mRTPSinks /\ sink'[t].aborted = sink[t].aborted
        /\ sink'[t].mResponseHandlers = sink[t].mResponseHandlers
        /\ sink'[t].mState # sink[t].mState => sink'[t].mState = "CONNECTED"
        /\ sink[t].mState = "UNDEFINED" => sink'[t] = sink[t] /\ dongle'[t] = dongle[t]
    BY <1>5, <1>6, <2>1
  <2>3. Of(t)'
    BY <1>1, <1>4, <2>1, <2>2, SinkStays
  <2> QED BY <2>1, <2>2, <2>3 DEF Touched
<1>9. SInv'
  BY <1>1, <1>6, <1>8, SinksStay
<1> QED BY <1>2, <1>9


-----------------------------------------------------------------------------
(* Every step                                                              *)

LEMMA InitSInv == SessionInit => SInv
<1> SUFFICES ASSUME SessionInit PROVE SInv
  OBVIOUS
<1>1. /\ Init /\ sink = [s \in SessionIDs |-> NewSink]
      /\ playback = "none" /\ mHDCP = "none" /\ queue = << >> /\ aborted = "no"
      /\ \A s \in SessionIDs : /\ sent[s] = << >> /\ asked[s] = 0 /\ dongle[s] = "absent"
  BY DEF SessionInit, Init
<1>2. NewSink \in Sinks
  BY DEF NewSink, Sinks
<1>3. SinkTypeOK
  BY <1>1, <1>2 DEF SinkTypeOK
<1>4. Members(<< >>) = {} /\ \A S : Lone(<< >>, S)
  BY LoneShort
<1>5. ASSUME NEW s \in SessionIDs PROVE Of(s)
  <2>1. sink[s] = NewSink /\ sent[s] = << >> /\ asked[s] = 0 /\ dongle[s] = "absent"
    BY <1>1
  <2>2. Members(queue) = {} /\ Members(sent[s]) = {}
    BY <1>1, <1>4, <2>1
  <2>3. OneBaton(s)
    BY <1>1, <1>4, <2>1, <2>2 DEF OneBaton, NotBoth
  <2>4. StageOf(s)
    BY <2>1 DEF StageOf, IsUp, NewSink
  <2>5. ~NewSink.aborted /\ NewSink.mState = "UNDEFINED"
    BY DEF NewSink
  <2>6. Spoken(s) /\ PlaysAsAsked(s)
    BY <2>1, <2>2, <2>5 DEF Spoken, PlaysAsAsked
  <2> QED BY <2>2, <2>3, <2>4, <2>6 DEF Of, Stages
<1>6. OneServed /\ SocketsAreBound
  BY <1>1 DEF OneServed, Touched, SocketsAreBound
<1> QED BY <1>1, <1>3, <1>5, <1>6 DEF SInv

LEMMA SessionStutters ==
  ASSUME IInv, SInv, UNCHANGED <<vars, peer, sink>>
  PROVE  IInv' /\ SInv'
<1>1. /\ UNCHANGED <<source, queue, sent, dongle, asked, sink>> /\ UNCHANGED <<vars, peer>>
  BY DEF vars, peer, source
<1>2. IInv'
  BY <1>1, StutterStep
<1>3. ASSUME NEW t \in SessionIDs
      PROVE  Of(t)' /\ (Touched(t)' => Touched(t)) /\ sink'[t].mRTPSinks = sink[t].mRTPSinks
  <2>1. /\ sent'[t] = sent[t] /\ asked'[t] = asked[t] /\ dongle'[t] = dongle[t]
        /\ sink'[t] = sink[t]
        /\ Members(queue') = Members(queue) /\ Lone(queue', Batons(t))
    BY <1>1 DEF SInv, Of, OneBaton
  <2>2. Of(t)'
    BY <1>1, <2>1, SinkStays
  <2> QED BY <2>1, <2>2 DEF Touched
<1>4. SinkTypeOK'
  BY <1>1 DEF SInv, SinkTypeOK
<1>5. SInv'
  BY <1>1, <1>3, <1>4, SinksStay
<1> QED BY <1>2, <1>5

(* The two invariants carry each other from state to state.                *)
LEMMA SessionInductive ==
  IInv /\ SInv /\ [SessionNext]_<<vars, peer, sink>> => IInv' /\ SInv'
<1> SUFFICES ASSUME IInv, SInv, [SessionNext]_<<vars, peer, sink>> PROVE IInv' /\ SInv'
  OBVIOUS
<1>1. CASE SourceNext /\ UNCHANGED <<peer, sink>>
  BY <1>1, SourceStep, SourceKeepsSinks
<1>2. ASSUME NEW s \in SessionIDs,
             \/ SinkStarts(s) \/ SinkGetsConnected(s) \/ SinkReceives(s)
             \/ LinkBreaks(s) \/ SinkLoses(s)
      PROVE  IInv' /\ SInv'
  BY <1>2, SinkStartsKeeps, SinkTurnsKeeps, SinkReceivesKeeps, LinkBreaksKeeps
<1>3. CASE UNCHANGED <<vars, peer, sink>>
  BY <1>3, SessionStutters
<1> QED BY <1>1, <1>2, <1>3 DEF SessionNext, SinkNext

LEMMA SessionInvariance == SessionSpec => [](IInv /\ SInv)
<1>1. SessionInit => IInv /\ SInv
  BY InitIInv, InitSInv DEF SessionInit
<1> QED BY <1>1, SessionInductive, PTL DEF SessionSpec

-----------------------------------------------------------------------------
(* Theorems                                                                *)

(* The state keeps its types, whatever the sinks are sent and however their*)
(* connections break.                                                      *)
THEOREM SessionTypes == SessionSpec => [](TypeOK /\ SinkTypeOK)
<1>1. IInv /\ SInv => TypeOK /\ SinkTypeOK
  BY DEF IInv, SInv
<1> QED BY <1>1, SessionInvariance, PTL

(* The source sends media only to the sink that has bound its sockets,     *)
(* once (sendSetup, sink; onSetupRequest, source), whatever else sinks that*)
(* came and were rejected do.                                              *)
THEOREM MediaMeetSockets == SessionSpec => []SocketsAreBound
<1>1. IInv /\ SInv => SocketsAreBound
  BY DEF SInv
<1> QED BY <1>1, SessionInvariance, PTL

(* One sink is PAUSED or PLAYING at a time, and the source was asked to    *)
(* set up, or to play, before it is.                                       *)
THEOREM StatesStayTogether == SessionSpec => []StatesAgree
<1>1. ASSUME SInv PROVE StatesAgree
  <2>1. aborted = "no" => \A s \in SessionIDs :
          /\ sink[s].mState = "PAUSED" => mState \in AfterSetup \cup BeingStopped
          /\ sink[s].mState = "PLAYING" =>
               mState \in {"ABOUT_TO_PLAY", "PLAYING"} \cup BeingStopped
    BY <1>1 DEF SInv, Of, PlaysAsAsked
  <2>2. ASSUME NEW s \in SessionIDs, sink[s].mState \in {"PAUSED", "PLAYING"}
        PROVE  Touched(s)
    BY <1>1, <2>2, Untouched DEF IsUp
  <2>3. \A s, t \in SessionIDs :
          sink[s].mState \in {"PAUSED", "PLAYING"} /\ sink[t].mState \in {"PAUSED", "PLAYING"}
            => s = t
    BY <1>1, <2>2 DEF SInv, OneServed
  <2> QED BY <2>1, <2>3 DEF StatesAgree
<1> QED BY <1>1, SessionInvariance, PTL

(* With the sinks of this repository, too, stop() leaves nothing behind,   *)
(* and no network session is forgotten.                                    *)
THEOREM SessionsStopCompletely ==
  SessionSpec => [](AnsweredIsClean /\ SessionsAccounted)
<1>1. IInv => AnsweredIsClean /\ SessionsAccounted
  BY DEF IInv, Going, AnsweredIsClean, SessionsAccounted
<1> QED BY <1>1, SessionInvariance, PTL

(* A CHECK of the source fails only in a session that was cut off, and one *)
(* of a sink only after the source has refused it something and shown why: *)
(* nothing else brings the process down.                                   *)
THEOREM SessionsChecksHold ==
  SessionSpec => [](/\ AbortsOnlyWhenCutOff
                    /\ \A s \in SessionIDs : sink[s].aborted => displayError)
<1>1. IInv /\ SInv =>
        AbortsOnlyWhenCutOff /\ \A s \in SessionIDs : sink[s].aborted => displayError
  BY DEF IInv, SInv, Of, Spoken
<1> QED BY <1>1, SessionInvariance, PTL

(* The sinks let the reaper of dead clients be.                            *)
LEMMA SinksKeepReaper ==
  ASSUME [SessionNext]_<<vars, peer, sink>>, mReaperPending
  PROVE  mReaperPending' \/ OnReapDeadClients
<1>1. CASE SinkNext
  BY <1>1 DEF SinkNext, SinkStarts, SinkGetsConnected, SinkReceives, LinkBreaks, SinkLoses,
              source, timers
<1>2. CASE SourceNext
  BY <1>2, SourceKeepsReaper
<1>3. CASE UNCHANGED <<vars, peer, sink>>
  BY <1>3 DEF vars, timers
<1> QED BY <1>1, <1>2, <1>3 DEF SessionNext

(* A sink of this repository is reaped only while it owes an answer to an  *)
(* M16.                                                                    *)
THEOREM SinksReapedIfSilent == SessionSpec => ReapedOnlyIfSilent
<1>1. ASSUME IInv, [SessionNext]_<<vars, peer, sink>>, mReaperPending, ~mReaperPending',
             mClientSessionID # 0, mClientSessionID' = 0
      PROVE  <<mClientSessionID, "M16">> \in mResponseHandlers
  <2>1. OnReapDeadClients
    BY <1>1, SinksKeepReaper
  <2> QED BY <1>1, <2>1, ReapedIsSilent
<1>2. IInv /\ SInv /\ [SessionNext]_<<vars, peer, sink>> =>
        [ (mReaperPending /\ ~mReaperPending' /\ mClientSessionID # 0
             /\ mClientSessionID' = 0)
          => <<mClientSessionID, "M16">> \in mResponseHandlers ]_vars
  BY <1>1
<1>3. SessionSpec => [][SessionNext]_<<vars, peer, sink>>
  BY DEF SessionSpec
<1> QED BY <1>2, <1>3, SessionInvariance, PTL DEF ReapedOnlyIfSilent

=============================================================================
