------------------------ MODULE ANetworkSessionProofs ------------------------
(***************************************************************************)
(* Proofs about ANetworkSession: for every number of sessions, of sockets, *)
(* of requests and of arrivals.                                            *)
(***************************************************************************)
EXTENDS ANetworkSession, WellFoundedInduction, NaturalsInduction, TLAPS

-----------------------------------------------------------------------------
(* The inductive invariant                                                 *)

JobType == [do : {"read", "write"}, session : SessionIDs]

(* The state keeps its types.                                              *)
TypeOK ==
  /\ mSessions \in [SessionIDs -> SessionType \cup {NoSession}]
  /\ mNextSessionID \in Nat
  /\ pipe \in Nat
  /\ pc \in {"collect", "select", "ready", "dispatch", "exited"}
  /\ rs \in SUBSET (Sockets \X SessionIDs)
  /\ ws \in SUBSET (Sockets \X SessionIDs)
  /\ jobs \in SUBSET JobType
  /\ stopping \in {"no", "exit requested", "waiting"}
  /\ errors \in [Directions -> Nat]
  /\ aborted \in {"no", "writeMore"}

(* A number names one session ever, a socket one session at a time.        *)
IDsAreFresh ==
  /\ \A s \in Live : s < mNextSessionID
  /\ \A bit \in rs \cup ws : bit[2] < mNextSessionID

SocketsAreOwn ==
  \A s, t \in Live : mSessions[s].mSocket = mSessions[t].mSocket => s = t

(* A bit of a session that still exists is that of its socket.             *)
BitsAreOfSockets ==
  \A bit \in rs \cup ws : bit[2] \in Live => mSessions[bit[2]].mSocket = bit[1]

(* What is to be done is to be done for sessions that exist and whose      *)
(* socket is set.                                                          *)
JobsAreOfBits ==
  /\ pc # "dispatch" => jobs = {}
  /\ \A j \in jobs : /\ j.session \in Live
                     /\ j.do = "read" => IsSet(j.session, rs)
                     /\ j.do = "write" => IsSet(j.session, ws)

(* From Collect on, until its turn comes.                                  *)
Awaits(do, s) ==
  pc \in {"select", "ready"} \/ [do |-> do, session |-> s] \in jobs

(* A session whose turn to be read or written is to come has not failed    *)
(* yet, though the bit may be that of the former owner of its socket.      *)
FailuresAreFirst ==
  \A s \in Live :
    /\ IsSet(s, rs) /\ Awaits("read", s) => ~mSessions[s].mSawReceiveFailure
    /\ IsSet(s, ws) /\ Awaits("write", s) => ~mSessions[s].mSawSendFailure

(* A session watched to be written wants it until its turn comes.          *)
StillWants ==
  \A bit \in ws : bit[2] \in Live /\ Awaits("write", bit[2]) => WantsToWrite(bit[2])

(* Failures told are failures remembered. One to send of a session that    *)
(* connects is one to connect, told as one to receive.                     *)
SawReceiveFailure(s) == s \in Live /\ mSessions[s].mSawReceiveFailure

SawConnectFailure(s) ==
  s \in Live /\ mSessions[s].mSawSendFailure /\ mSessions[s].mState = "CONNECTING"

SawSendFailure(s) ==
  s \in Live /\ mSessions[s].mSawSendFailure /\ mSessions[s].mState # "CONNECTING"

ErrorsAreSeen ==
  \A s \in SessionIDs :
    /\ errors[<<s, "receive">>] = (IF SawReceiveFailure(s) THEN 1 ELSE 0)
                                    + (IF SawConnectFailure(s) THEN 1 ELSE 0)
    /\ errors[<<s, "send">>] = IF SawSendFailure(s) THEN 1 ELSE 0

(* A byte is left for the round after the one that reads that of stop().   *)
StopIsHeard == stopping = "waiting" /\ pc \in {"collect", "select"} => pipe > 0

IInv ==
  /\ TypeOK /\ IDsAreFresh /\ SocketsAreOwn /\ BitsAreOfSockets /\ JobsAreOfBits
  /\ FailuresAreFirst /\ StillWants /\ ErrorsAreSeen /\ StopIsHeard
  /\ NoWakeupLost /\ AbortsOnlyOnReusedSocket

-----------------------------------------------------------------------------
(* The table of sessions                                                   *)

(* Of some numbers one is the lowest.                                      *)
LEMMA LowestNumber ==
  ASSUME NEW S \in SUBSET Nat, S # {}
  PROVE  \E n \in S : \A m \in S : n <= m
<1> DEFINE less == {p \in Nat \X Nat : p[1] < p[2]}
<1>1. IsWellFoundedOn(less, Nat)
  BY NatLessThanWellFounded, Zenon DEF OpToRel
<1>2. PICK n \in S : \A m \in S : ~(<<m, n>> \in less)
  <2> HIDE DEF less
  <2> QED BY <1>1, WFMin
<1>3. ASSUME NEW m \in S PROVE n <= m
  <2>1. m \in Nat /\ n \in Nat /\ ~(m < n)
    BY <1>2
  <2> QED BY <2>1
<1> QED BY <1>3

(* A session that exists has the type of one, and there is no other.       *)
LEMMA LiveType ==
  ASSUME TypeOK
  PROVE  /\ \A s \in SessionIDs : s \in Live <=> mSessions[s] # NoSession
         /\ \A s \in Live : s \in SessionIDs /\ mSessions[s] \in SessionType
         /\ \A r \in SessionType : r # NoSession
<1>1. \A r \in SessionType : r # NoSession
  <2> SUFFICES ASSUME NEW r \in SessionType PROVE r # NoSession
    OBVIOUS
  <2>1. r.mState \in States /\ NoSession.mState \notin States
    BY DEF SessionType, NoSession, States
  <2> QED BY <2>1
<1> QED BY <1>1 DEF TypeOK, Live

(* socket() and accept() return a free socket when there is one.           *)
LEMMA NewSessionType ==
  ASSUME FreeSockets # {}, NEW state \in States
  PROVE  /\ NewSession(state) \in SessionType
         /\ NewSession(state).mSocket \in FreeSockets
         /\ NewSession(state).mState = state
         /\ ~NewSession(state).mSawReceiveFailure
         /\ ~NewSession(state).mSawSendFailure
         /\ NewSession(state).mOut = 0
<1> DEFINE n == CHOOSE n \in FreeSockets : \A m \in FreeSockets : n <= m
<1>1. n \in FreeSockets /\ n \in Sockets
  <2>1. FreeSockets \in SUBSET Nat /\ FreeSockets \subseteq Sockets
    BY BoundsAssumption DEF FreeSockets, Sockets
  <2>2. \E l \in FreeSockets : \A m \in FreeSockets : l <= m
    BY <2>1, LowestNumber
  <2> QED BY <2>1, <2>2
<1> HIDE DEF n
<1>2. NewSession(state) =
        [mState |-> state, mSocket |-> n, mSawReceiveFailure |-> FALSE,
         mSawSendFailure |-> FALSE, mOut |-> 0,
         link |-> IF state = "CONNECTING" THEN "pending" ELSE "up",
         arrived |-> 0, hungUp |-> FALSE]
  BY DEF NewSession, n
<1> QED BY <1>1, <1>2 DEF SessionType

(* What changes nothing but what a session holds besides its socket, which *)
(* session it is of and what it is watched for, changes nothing of who     *)
(* lives and which socket is whose.                                        *)
LEMMA SessionChanges ==
  ASSUME TypeOK, NEW s \in Live, NEW r \in SessionType,
         r.mSocket = mSessions[s].mSocket,
         mSessions' = [mSessions EXCEPT ![s] = r]
  PROVE  /\ mSessions' \in [SessionIDs -> SessionType \cup {NoSession}]
         /\ Live' = Live
         /\ \A t \in Live : mSessions'[t].mSocket = mSessions[t].mSocket
         /\ \A t \in Live \ {s} : mSessions'[t] = mSessions[t]
         /\ mSessions'[s] = r
<1>1. s \in SessionIDs /\ mSessions \in [SessionIDs -> SessionType \cup {NoSession}]
  BY DEF TypeOK, Live
<1>2. /\ mSessions' \in [SessionIDs -> SessionType \cup {NoSession}]
      /\ mSessions'[s] = r
      /\ \A t \in SessionIDs \ {s} : mSessions'[t] = mSessions[t]
  BY <1>1
<1>3. Live' = Live
  BY <1>1, <1>2, LiveType DEF Live
<1> QED BY <1>1, <1>2, <1>3 DEF Live

(* The fields of a session after one is assigned.                          *)
LEMMA SessionFields ==
  ASSUME NEW r \in SessionType
  PROVE  /\ \A x \in BOOLEAN : [r EXCEPT !.mSawReceiveFailure = x] \in SessionType
         /\ \A x \in BOOLEAN : [r EXCEPT !.mSawSendFailure = x] \in SessionType
         /\ \A x \in States : [r EXCEPT !.mState = x] \in SessionType
         /\ \A x \in Nat : [r EXCEPT !.mOut = x] \in SessionType
         /\ \A x \in {"up", "refused"} : [r EXCEPT !.link = x] \in SessionType
         /\ \A x \in Nat : [r EXCEPT !.arrived = x] \in SessionType
         /\ [r EXCEPT !.hungUp = TRUE] \in SessionType
  BY DEF SessionType

(* The table, the fd sets and what is to be done are left as they are.     *)
SameSockets ==
  /\ Live' = Live
  /\ \A t \in Live : mSessions'[t].mSocket = mSessions[t].mSocket
  /\ UNCHANGED <<mNextSessionID, rs, ws>>

(* Who owns which socket is as it was.                                     *)
LEMMA SocketsKept ==
  ASSUME IInv, SameSockets
  PROVE  /\ IDsAreFresh' /\ SocketsAreOwn' /\ BitsAreOfSockets'
         /\ \A t \in Live : IsSet(t, rs)' <=> IsSet(t, rs)
         /\ \A t \in Live : IsSet(t, ws)' <=> IsSet(t, ws)
<1> USE DEF SameSockets
<1>1. IDsAreFresh'
  BY DEF IInv, IDsAreFresh
<1>2. SocketsAreOwn'
  BY DEF IInv, SocketsAreOwn
<1>3. BitsAreOfSockets'
  BY DEF IInv, BitsAreOfSockets
<1>4. /\ \A t \in Live : IsSet(t, rs)' <=> IsSet(t, rs)
      /\ \A t \in Live : IsSet(t, ws)' <=> IsSet(t, ws)
  BY DEF IsSet
<1> QED BY <1>1, <1>2, <1>3, <1>4

-----------------------------------------------------------------------------
(* The initial states                                                      *)

(* It holds at the start.                                                  *)
LEMMA InitIInv == Init => IInv
<1> SUFFICES ASSUME Init PROVE IInv
  OBVIOUS
<1>1. Live = {}
  BY DEF Init, Live
<1>2. TypeOK
  BY DEF Init, TypeOK, JobType
<1>3. IDsAreFresh /\ SocketsAreOwn /\ BitsAreOfSockets /\ JobsAreOfBits
  BY <1>1 DEF Init, IDsAreFresh, SocketsAreOwn, BitsAreOfSockets, JobsAreOfBits
<1>4. FailuresAreFirst /\ StillWants /\ NoWakeupLost
  BY <1>1 DEF Init, FailuresAreFirst, StillWants, NoWakeupLost
<1>5. ErrorsAreSeen /\ StopIsHeard /\ AbortsOnlyOnReusedSocket
  BY <1>1 DEF Init, ErrorsAreSeen, SawReceiveFailure, SawConnectFailure,
              SawSendFailure, Directions, StopIsHeard, AbortsOnlyOnReusedSocket
<1> QED BY <1>2, <1>3, <1>4, <1>5 DEF IInv

-----------------------------------------------------------------------------
(* Calls of other threads                                                  *)

(* A table with the sessions of this one, as they are but for what has     *)
(* arrived.                                                                *)
SameSessions(sessions) ==
  /\ sessions \in [SessionIDs -> SessionType \cup {NoSession}]
  /\ \A t \in SessionIDs : sessions[t] = NoSession <=> mSessions[t] = NoSession
  /\ \A t \in Live : /\ sessions[t].mSocket = mSessions[t].mSocket
                     /\ sessions[t].mState = mSessions[t].mState
                     /\ sessions[t].mOut = mSessions[t].mOut
                     /\ sessions[t].mSawReceiveFailure = mSessions[t].mSawReceiveFailure
                     /\ sessions[t].mSawSendFailure = mSessions[t].mSawSendFailure

(* A session that lives on is as it was in the same sense.                 *)
SameSession(t) ==
  /\ mSessions'[t].mSocket = mSessions[t].mSocket
  /\ mSessions'[t].mState = mSessions[t].mState
  /\ mSessions'[t].mOut = mSessions[t].mOut
  /\ mSessions'[t].mSawReceiveFailure = mSessions[t].mSawReceiveFailure
  /\ mSessions'[t].mSawSendFailure = mSessions[t].mSawSendFailure

(* A new session, created or accepted.                                     *)
LEMMA SessionAdded ==
  ASSUME IInv, NEW state \in States, NEW sessions, SameSessions(sessions),
         AddSession(sessions, state)
  PROVE  /\ mSessions' \in [SessionIDs -> SessionType \cup {NoSession}]
         /\ mNextSessionID' \in Nat
         /\ mNextSessionID \in SessionIDs /\ mNextSessionID' = mNextSessionID + 1
         /\ mNextSessionID \notin Live /\ Live' = Live \cup {mNextSessionID}
         /\ \A t \in Live : SameSession(t)
         /\ mSessions'[mNextSessionID] = NewSession(state)
         /\ \A t \in Live : mSessions[t].mSocket # NewSession(state).mSocket
<1>1. TypeOK /\ \A s \in Live : s < mNextSessionID
  BY DEF IInv, IDsAreFresh
<1>2. /\ mNextSessionID \in SessionIDs /\ FreeSockets # {}
      /\ mSessions' = [sessions EXCEPT ![mNextSessionID] = NewSession(state)]
      /\ mNextSessionID' = mNextSessionID + 1
  BY DEF AddSession
<1>3. /\ NewSession(state) \in SessionType
      /\ NewSession(state).mSocket \in FreeSockets
  BY <1>2, NewSessionType
<1>4. mNextSessionID \in Nat /\ mNextSessionID \notin Live
  <2>1. mNextSessionID \in Nat
    BY <1>1 DEF TypeOK
  <2>2. ~(mNextSessionID < mNextSessionID)
    BY <2>1
  <2> QED BY <2>1, <2>2, <1>1
<1>5. /\ mSessions' \in [SessionIDs -> SessionType \cup {NoSession}]
      /\ mSessions'[mNextSessionID] = NewSession(state)
      /\ \A t \in SessionIDs \ {mNextSessionID} : mSessions'[t] = sessions[t]
  BY <1>2, <1>3 DEF SameSessions
<1>6. Live' = Live \cup {mNextSessionID}
  <2>1. NewSession(state) # NoSession
    BY <1>1, <1>3, LiveType
  <2> QED BY <1>2, <1>5, <2>1 DEF Live, SameSessions
<1>7. \A t \in Live : SameSession(t)
  BY <1>4, <1>5 DEF Live, SameSessions, SameSession
<1>8. \A t \in Live : mSessions[t].mSocket # NewSession(state).mSocket
  BY <1>3 DEF FreeSockets
<1> QED BY <1>2, <1>4, <1>5, <1>6, <1>7, <1>8

(* A new session owns its socket alone, though bits of a former owner may  *)
(* be set, and has not failed.                                             *)
LEMMA AddedKeeps ==
  ASSUME IInv, NEW state \in States, NEW sessions, SameSessions(sessions),
         AddSession(sessions, state), UNCHANGED <<rs, ws, errors>>
  PROVE  /\ IDsAreFresh' /\ SocketsAreOwn' /\ BitsAreOfSockets'
         /\ \A t \in Live : IsSet(t, rs)' <=> IsSet(t, rs)
         /\ \A t \in Live : IsSet(t, ws)' <=> IsSet(t, ws)
         /\ ~mSessions'[mNextSessionID].mSawReceiveFailure
         /\ ~mSessions'[mNextSessionID].mSawSendFailure
         /\ \A bit \in ws' : bit[2] # mNextSessionID
         /\ ErrorsAreSeen'
<1>0. /\ mNextSessionID \in Nat /\ mNextSessionID' = mNextSessionID + 1
      /\ mNextSessionID \notin Live
      /\ Live' = Live \cup {mNextSessionID}
      /\ \A t \in Live : SameSession(t)
      /\ mSessions'[mNextSessionID] = NewSession(state)
      /\ \A t \in Live : mSessions[t].mSocket # NewSession(state).mSocket
      /\ FreeSockets # {}
  BY SessionAdded DEF IInv, TypeOK, AddSession
<1>1. /\ \A s \in Live : s < mNextSessionID /\ s \in SessionIDs
      /\ \A bit \in rs \cup ws : bit[2] < mNextSessionID /\ bit[2] \in SessionIDs
  BY DEF IInv, IDsAreFresh, TypeOK, Live
<1>2. \A s \in SessionIDs : s \in Nat
  BY BoundsAssumption DEF SessionIDs
<1>3. IDsAreFresh'
  BY <1>0, <1>1, <1>2 DEF IDsAreFresh
<1>4. SocketsAreOwn'
  BY <1>0 DEF IInv, SocketsAreOwn, SameSession
<1>5. \A bit \in rs \cup ws : bit[2] # mNextSessionID
  BY <1>0, <1>1, <1>2
<1>6. BitsAreOfSockets'
  BY <1>0, <1>5 DEF IInv, BitsAreOfSockets, SameSession
<1>7. /\ \A t \in Live : IsSet(t, rs)' <=> IsSet(t, rs)
      /\ \A t \in Live : IsSet(t, ws)' <=> IsSet(t, ws)
  BY <1>0 DEF IsSet, SameSession
<1>8. ~NewSession(state).mSawReceiveFailure /\ ~NewSession(state).mSawSendFailure
  BY <1>0, NewSessionType
<1>9. ErrorsAreSeen'
  <2>1. \A t \in SessionIDs : /\ SawReceiveFailure(t)' <=> SawReceiveFailure(t)
                              /\ SawConnectFailure(t)' <=> SawConnectFailure(t)
                              /\ SawSendFailure(t)' <=> SawSendFailure(t)
    BY <1>0, <1>8 DEF SawReceiveFailure, SawConnectFailure, SawSendFailure, SameSession
  <2> QED BY <2>1 DEF IInv, ErrorsAreSeen
<1> QED BY <1>0, <1>3, <1>4, <1>5, <1>6, <1>7, <1>8, <1>9

(* A session for a socket that connects or listens.                        *)
LEMMA CreateClientOrServerStep ==
  ASSUME IInv, CreateClientOrServer
  PROVE  IInv'
<1>1. PICK state \in States : AddSession(mSessions, state)
  BY DEF CreateClientOrServer, States
<1>1a. SameSessions(mSessions)
  BY DEF SameSessions, IInv, TypeOK
<1>2. /\ pc # "dispatch" /\ stopping = "no" /\ aborted = "no"
      /\ pipe' = pipe + 1 /\ pipe \in Nat
      /\ UNCHANGED <<pc, rs, ws, jobs, stopping, errors, aborted>>
  BY DEF CreateClientOrServer, Unlocked, Runs, Interrupt, thread, IInv, TypeOK
<1>3. jobs = {}
  BY <1>2 DEF IInv, JobsAreOfBits
<1>4. /\ mSessions' \in [SessionIDs -> SessionType \cup {NoSession}]
      /\ mNextSessionID' \in Nat
      /\ mNextSessionID \notin Live /\ Live' = Live \cup {mNextSessionID}
      /\ \A t \in Live : SameSession(t)
  BY <1>1, <1>1a, SessionAdded
<1>5. /\ IDsAreFresh' /\ SocketsAreOwn' /\ BitsAreOfSockets'
      /\ \A t \in Live : IsSet(t, rs)' <=> IsSet(t, rs)
      /\ \A t \in Live : IsSet(t, ws)' <=> IsSet(t, ws)
      /\ ~mSessions'[mNextSessionID].mSawReceiveFailure
      /\ ~mSessions'[mNextSessionID].mSawSendFailure
      /\ \A bit \in ws' : bit[2] # mNextSessionID
      /\ ErrorsAreSeen'
  BY <1>1, <1>1a, <1>2, AddedKeeps
<1>6. TypeOK'
  BY <1>2, <1>4 DEF IInv, TypeOK
<1>7. JobsAreOfBits'
  BY <1>2, <1>3 DEF JobsAreOfBits
<1>8. FailuresAreFirst'
  BY <1>2, <1>4, <1>5 DEF IInv, FailuresAreFirst, Awaits, SameSession
<1>9. StillWants'
  BY <1>2, <1>4, <1>5 DEF IInv, StillWants, Awaits, WantsToWrite, SameSession
<1>10. StopIsHeard' /\ NoWakeupLost' /\ AbortsOnlyOnReusedSocket'
  BY <1>2 DEF StopIsHeard, NoWakeupLost, AbortsOnlyOnReusedSocket
<1> QED BY <1>5, <1>6, <1>7, <1>8, <1>9, <1>10 DEF IInv

(* A session destroyed leaves bits of nobody behind.                       *)
LEMMA DestroySessionStep ==
  ASSUME IInv, NEW s \in SessionIDs, DestroySession(s)
  PROVE  IInv'
<1>1. /\ pc # "dispatch" /\ stopping = "no" /\ aborted = "no" /\ s \in Live
      /\ mSessions' = [mSessions EXCEPT ![s] = NoSession]
      /\ errors' = [d \in Directions |-> IF d[1] = s THEN 0 ELSE errors[d]]
      /\ pipe' = pipe + 1 /\ pipe \in Nat
      /\ UNCHANGED <<mNextSessionID, pc, rs, ws, jobs, stopping, aborted>>
  BY DEF DestroySession, Unlocked, Runs, Interrupt, thread, IInv, TypeOK
<1>2. jobs = {}
  BY <1>1 DEF IInv, JobsAreOfBits
<1>3. /\ mSessions' \in [SessionIDs -> SessionType \cup {NoSession}]
      /\ Live' = Live \ {s}
      /\ \A t \in Live' : mSessions'[t] = mSessions[t]
  <2>1. mSessions \in [SessionIDs -> SessionType \cup {NoSession}]
    BY DEF IInv, TypeOK
  <2> QED BY <1>1, <2>1 DEF Live
<1>4. TypeOK'
  <2>1. errors' \in [Directions -> Nat]
    BY <1>1 DEF IInv, TypeOK
  <2> QED BY <1>1, <1>3, <2>1 DEF IInv, TypeOK
<1>5. IDsAreFresh' /\ SocketsAreOwn' /\ BitsAreOfSockets'
  BY <1>1, <1>3 DEF IInv, IDsAreFresh, SocketsAreOwn, BitsAreOfSockets
<1>6. JobsAreOfBits'
  BY <1>1, <1>2 DEF JobsAreOfBits
<1>7. FailuresAreFirst'
  BY <1>1, <1>2, <1>3 DEF IInv, FailuresAreFirst, Awaits, IsSet
<1>8. StillWants'
  BY <1>1, <1>2, <1>3 DEF IInv, StillWants, Awaits, WantsToWrite
<1>9. ErrorsAreSeen'
  <2> SUFFICES ASSUME NEW t \in SessionIDs
               PROVE  /\ errors'[<<t, "receive">>] =
                           (IF SawReceiveFailure(t)' THEN 1 ELSE 0)
                             + (IF SawConnectFailure(t)' THEN 1 ELSE 0)
                      /\ errors'[<<t, "send">>] = IF SawSendFailure(t)' THEN 1 ELSE 0
    BY DEF ErrorsAreSeen
  <2>1. <<t, "receive">> \in Directions /\ <<t, "send">> \in Directions
    BY DEF Directions
  <2>2. CASE t = s
    <3>1. ~SawReceiveFailure(t)' /\ ~SawConnectFailure(t)' /\ ~SawSendFailure(t)'
      BY <1>3, <2>2 DEF SawReceiveFailure, SawConnectFailure, SawSendFailure
    <3>2. errors'[<<t, "receive">>] = 0 /\ errors'[<<t, "send">>] = 0
      BY <1>1, <2>1, <2>2
    <3> QED BY <3>1, <3>2
  <2>3. CASE t # s
    <3>1. /\ errors'[<<t, "receive">>] = errors[<<t, "receive">>]
          /\ errors'[<<t, "send">>] = errors[<<t, "send">>]
      BY <1>1, <2>1, <2>3
    <3>2. /\ SawReceiveFailure(t)' <=> SawReceiveFailure(t)
          /\ SawConnectFailure(t)' <=> SawConnectFailure(t)
          /\ SawSendFailure(t)' <=> SawSendFailure(t)
      BY <1>3, <2>3 DEF SawReceiveFailure, SawConnectFailure, SawSendFailure
    <3> QED BY <3>1, <3>2 DEF IInv, ErrorsAreSeen
  <2> QED BY <2>2, <2>3
<1>10. StopIsHeard' /\ NoWakeupLost' /\ AbortsOnlyOnReusedSocket'
  BY <1>1 DEF StopIsHeard, NoWakeupLost, AbortsOnlyOnReusedSocket
<1> QED BY <1>4, <1>5, <1>6, <1>7, <1>8, <1>9, <1>10 DEF IInv

(* A change of one session outside the second critical section that leaves *)
(* its socket, its state and its failures as they are, and takes nothing   *)
(* out of its queue.                                                       *)
LEMMA QuietChange ==
  ASSUME IInv, pc # "dispatch", aborted = "no", NEW s \in Live, NEW r \in SessionType,
         r.mSocket = mSessions[s].mSocket, r.mState = mSessions[s].mState,
         r.mSawReceiveFailure = mSessions[s].mSawReceiveFailure,
         r.mSawSendFailure = mSessions[s].mSawSendFailure,
         r.mOut >= mSessions[s].mOut,
         mSessions' = [mSessions EXCEPT ![s] = r],
         pipe' \in Nat, pipe' >= pipe, r.mOut = mSessions[s].mOut \/ pipe' > 0,
         UNCHANGED <<mNextSessionID, pc, rs, ws, jobs, stopping, errors, aborted>>
  PROVE  IInv'
<1>1. /\ mSessions' \in [SessionIDs -> SessionType \cup {NoSession}]
      /\ Live' = Live
      /\ \A t \in Live : mSessions'[t].mSocket = mSessions[t].mSocket
      /\ \A t \in Live \ {s} : mSessions'[t] = mSessions[t]
      /\ mSessions'[s] = r
  BY SessionChanges DEF IInv
<1>2. SameSockets
  BY <1>1 DEF SameSockets
<1>3. /\ IDsAreFresh' /\ SocketsAreOwn' /\ BitsAreOfSockets'
      /\ \A t \in Live : IsSet(t, rs)' <=> IsSet(t, rs)
      /\ \A t \in Live : IsSet(t, ws)' <=> IsSet(t, ws)
  BY <1>2, SocketsKept
<1>4. \A t \in Live : /\ mSessions'[t].mSawReceiveFailure = mSessions[t].mSawReceiveFailure
                      /\ mSessions'[t].mSawSendFailure = mSessions[t].mSawSendFailure
                      /\ mSessions'[t].mState = mSessions[t].mState
  BY <1>1
<1>5. \A t \in Live : /\ WantsToRead(t)' <=> WantsToRead(t)
                      /\ WantsToWrite(t) => WantsToWrite(t)'
  <2>1. \A t \in Live : mSessions[t].mOut \in Nat /\ mSessions'[t].mOut \in Nat
                        /\ mSessions'[t].mOut >= mSessions[t].mOut
    BY <1>1, LiveType DEF IInv, SessionType
  <2> QED BY <1>4, <2>1 DEF WantsToRead, WantsToWrite
<1>6. TypeOK'
  BY <1>1 DEF IInv, TypeOK
<1>7. JobsAreOfBits'
  BY DEF IInv, JobsAreOfBits
<1>8. FailuresAreFirst'
  BY <1>1, <1>3, <1>4 DEF IInv, FailuresAreFirst, Awaits
<1>9. StillWants'
  BY <1>1, <1>5 DEF IInv, StillWants, Awaits
<1>10. ErrorsAreSeen'
  <2>1. \A t \in SessionIDs : /\ SawReceiveFailure(t)' <=> SawReceiveFailure(t)
                              /\ SawConnectFailure(t)' <=> SawConnectFailure(t)
                              /\ SawSendFailure(t)' <=> SawSendFailure(t)
    BY <1>1, <1>4 DEF SawReceiveFailure, SawConnectFailure, SawSendFailure
  <2> QED BY <2>1 DEF IInv, ErrorsAreSeen
<1>11. StopIsHeard'
  BY DEF IInv, TypeOK, StopIsHeard
<1>12. NoWakeupLost'
  <2> SUFFICES ASSUME pc = "select", pipe' = 0
               PROVE  (\A t \in Live : Watched(t)') /\ stopping # "waiting"
    BY <1>1 DEF NoWakeupLost
  <2>a. pipe \in Nat
    BY DEF IInv, TypeOK
  <2>1. pipe = 0 /\ r.mOut = mSessions[s].mOut
    BY <2>a
  <2>2. \A t \in Live : WantsToWrite(t)' <=> WantsToWrite(t)
    BY <1>1, <1>4, <2>1 DEF WantsToWrite
  <2> QED BY <1>1, <1>5, <2>1, <2>2 DEF IInv, NoWakeupLost, Watched
<1>13. AbortsOnlyOnReusedSocket'
  BY DEF AbortsOnlyOnReusedSocket
<1> QED BY <1>3, <1>6, <1>7, <1>8, <1>9, <1>10, <1>11, <1>12, <1>13 DEF IInv

(* The owner gives a session more to send.                                 *)
LEMMA SendRequestStep ==
  ASSUME IInv, NEW s \in SessionIDs, SendRequest(s)
  PROVE  IInv'
<1> DEFINE r == [mSessions[s] EXCEPT !.mOut = @ + 1]
<1>1. s \in Live /\ mSessions[s] \in SessionType /\ pipe \in Nat
  BY LiveType DEF SendRequest, IInv, TypeOK
<1>2. /\ pc # "dispatch" /\ aborted = "no" /\ pipe' = pipe + 1
      /\ mSessions' = [mSessions EXCEPT ![s] = r]
      /\ UNCHANGED <<mNextSessionID, pc, rs, ws, jobs, stopping, errors, aborted>>
  BY DEF SendRequest, Unlocked, Runs, Interrupt, thread
<1>3. /\ r \in SessionType /\ mSessions[s].mOut \in Nat
      /\ r.mOut = mSessions[s].mOut + 1
      /\ r.mSocket = mSessions[s].mSocket /\ r.mState = mSessions[s].mState
      /\ r.mSawReceiveFailure = mSessions[s].mSawReceiveFailure
      /\ r.mSawSendFailure = mSessions[s].mSawSendFailure
  BY <1>1 DEF SessionType
<1> HIDE DEF r
<1>4. /\ pipe' \in Nat /\ pipe' >= pipe /\ r.mOut >= mSessions[s].mOut
      /\ r.mOut = mSessions[s].mOut \/ pipe' > 0
  BY <1>1, <1>2, <1>3
<1> QED BY <1>1, <1>2, <1>3, <1>4, QuietChange

(* The attempt to connect ends, well or not.                               *)
LEMMA ConnectEndsStep ==
  ASSUME IInv, NEW s \in SessionIDs, ConnectEnds(s)
  PROVE  IInv'
<1>1. s \in Live /\ mSessions[s] \in SessionType /\ pipe \in Nat
  BY LiveType DEF ConnectEnds, IInv, TypeOK
<1>2. PICK link \in {"up", "refused"} :
        mSessions' = [mSessions EXCEPT ![s].link = link]
  BY DEF ConnectEnds
<1> DEFINE r == [mSessions[s] EXCEPT !.link = link]
<1>3. /\ pc # "dispatch" /\ aborted = "no"
      /\ mSessions' = [mSessions EXCEPT ![s] = r]
      /\ UNCHANGED <<mNextSessionID, pipe, pc, rs, ws, jobs, stopping, errors, aborted>>
  BY <1>2 DEF ConnectEnds, Unlocked, Runs, thread
<1>4. /\ r \in SessionType /\ mSessions[s].mOut \in Nat
      /\ r.mOut = mSessions[s].mOut
      /\ r.mSocket = mSessions[s].mSocket /\ r.mState = mSessions[s].mState
      /\ r.mSawReceiveFailure = mSessions[s].mSawReceiveFailure
      /\ r.mSawSendFailure = mSessions[s].mSawSendFailure
  BY <1>1 DEF SessionType
<1> HIDE DEF r
<1>5. /\ pipe' \in Nat /\ pipe' >= pipe /\ r.mOut >= mSessions[s].mOut
      /\ r.mOut = mSessions[s].mOut \/ pipe' > 0
  BY <1>1, <1>3, <1>4
<1> QED BY <1>1, <1>3, <1>4, <1>5, QuietChange

(* Something arrives at a socket.                                          *)
LEMMA ArrivesStep ==
  ASSUME IInv, NEW s \in SessionIDs, Arrives(s)
  PROVE  IInv'
<1> DEFINE r == [mSessions[s] EXCEPT !.arrived = @ + 1]
<1>1. s \in Live /\ mSessions[s] \in SessionType /\ pipe \in Nat
  BY LiveType DEF Arrives, IInv, TypeOK
<1>2. /\ pc # "dispatch" /\ aborted = "no"
      /\ mSessions' = [mSessions EXCEPT ![s] = r]
      /\ UNCHANGED <<mNextSessionID, pipe, pc, rs, ws, jobs, stopping, errors, aborted>>
  BY DEF Arrives, Unlocked, Runs, thread
<1>3. /\ r \in SessionType /\ mSessions[s].mOut \in Nat
      /\ r.mOut = mSessions[s].mOut
      /\ r.mSocket = mSessions[s].mSocket /\ r.mState = mSessions[s].mState
      /\ r.mSawReceiveFailure = mSessions[s].mSawReceiveFailure
      /\ r.mSawSendFailure = mSessions[s].mSawSendFailure
  BY <1>1 DEF SessionType
<1> HIDE DEF r
<1>4. /\ pipe' \in Nat /\ pipe' >= pipe /\ r.mOut >= mSessions[s].mOut
      /\ r.mOut = mSessions[s].mOut \/ pipe' > 0
  BY <1>1, <1>2, <1>3
<1> QED BY <1>1, <1>2, <1>3, <1>4, QuietChange

(* The peer hangs up.                                                      *)
LEMMA HangsUpStep ==
  ASSUME IInv, NEW s \in SessionIDs, HangsUp(s)
  PROVE  IInv'
<1> DEFINE r == [mSessions[s] EXCEPT !.hungUp = TRUE]
<1>1. s \in Live /\ mSessions[s] \in SessionType /\ pipe \in Nat
  BY LiveType DEF HangsUp, IInv, TypeOK
<1>2. /\ pc # "dispatch" /\ aborted = "no"
      /\ mSessions' = [mSessions EXCEPT ![s] = r]
      /\ UNCHANGED <<mNextSessionID, pipe, pc, rs, ws, jobs, stopping, errors, aborted>>
  BY DEF HangsUp, Unlocked, Runs, thread
<1>3. /\ r \in SessionType /\ mSessions[s].mOut \in Nat
      /\ r.mOut = mSessions[s].mOut
      /\ r.mSocket = mSessions[s].mSocket /\ r.mState = mSessions[s].mState
      /\ r.mSawReceiveFailure = mSessions[s].mSawReceiveFailure
      /\ r.mSawSendFailure = mSessions[s].mSawSendFailure
  BY <1>1 DEF SessionType
<1> HIDE DEF r
<1>4. /\ pipe' \in Nat /\ pipe' >= pipe /\ r.mOut >= mSessions[s].mOut
      /\ r.mOut = mSessions[s].mOut \/ pipe' > 0
  BY <1>1, <1>2, <1>3
<1> QED BY <1>1, <1>2, <1>3, <1>4, QuietChange

(* stop() leaves a byte in the pipe before it waits.                       *)
LEMMA StopStep ==
  ASSUME IInv, Stop
  PROVE  IInv'
<1>1. /\ aborted = "no" /\ pipe \in Nat
      /\ UNCHANGED <<mSessions, mNextSessionID, pc, rs, ws, jobs, errors, aborted>>
  BY DEF Stop, Runs, thread, IInv, TypeOK
<1>1a. stopping' \in {"no", "exit requested", "waiting"}
  BY Zenon DEF Stop
<1>1b. /\ pipe' = pipe \/ pipe' = pipe + 1
       /\ stopping' = "waiting" => pipe' = pipe + 1
  BY Zenon DEF Stop, Interrupt
<1>1c. pipe' \in Nat /\ (pipe' = 0 => pipe = 0 /\ stopping' # "waiting")
       /\ (stopping' = "waiting" => pipe' > 0)
  BY <1>1, <1>1b
<1>2. TypeOK'
  BY <1>1, <1>1a, <1>1c DEF IInv, TypeOK
<1>3. /\ IDsAreFresh' /\ SocketsAreOwn' /\ BitsAreOfSockets' /\ JobsAreOfBits'
      /\ Live' = Live
  BY <1>1 DEF IInv, IDsAreFresh, SocketsAreOwn, BitsAreOfSockets, JobsAreOfBits, Live,
              IsSet
<1>4. FailuresAreFirst' /\ StillWants' /\ ErrorsAreSeen'
  BY <1>1, <1>3 DEF IInv, FailuresAreFirst, StillWants, ErrorsAreSeen, Awaits, IsSet,
                    WantsToWrite, SawReceiveFailure, SawConnectFailure, SawSendFailure
<1>5. StopIsHeard'
  BY <1>1c DEF StopIsHeard
<1>6. NoWakeupLost'
  BY <1>1, <1>1c, <1>3 DEF IInv, NoWakeupLost, Watched, WantsToRead, WantsToWrite
<1>7. AbortsOnlyOnReusedSocket'
  BY <1>1 DEF AbortsOnlyOnReusedSocket
<1> QED BY <1>2, <1>3, <1>4, <1>5, <1>6, <1>7 DEF IInv

-----------------------------------------------------------------------------
(* The network thread                                                      *)

(* The sessions stay as they are: who lives, what each wants and what was  *)
(* told.                                                                   *)
LEMMA SessionsKept ==
  ASSUME IInv, UNCHANGED <<mSessions, mNextSessionID, errors>>
  PROVE  /\ Live' = Live /\ SocketsAreOwn' /\ ErrorsAreSeen'
         /\ \A s \in Live : s < mNextSessionID
         /\ \A s : (WantsToRead(s)' <=> WantsToRead(s))
                   /\ (WantsToWrite(s)' <=> WantsToWrite(s))
<1>1. Live' = Live
  BY DEF Live
<1> QED BY <1>1 DEF IInv, SocketsAreOwn, ErrorsAreSeen, SawReceiveFailure,
                    SawConnectFailure, SawSendFailure, IDsAreFresh, WantsToRead,
                    WantsToWrite

(* After Collect the bits are those of the sessions as they are.           *)
LEMMA CollectStep ==
  ASSUME IInv, Collect
  PROVE  IInv'
<1>1. /\ aborted = "no" /\ pc = "collect" /\ pc' = "select"
      /\ rs' = {<<mSessions[s].mSocket, s>> : s \in {r \in Live : WantsToRead(r)}}
      /\ ws' = {<<mSessions[s].mSocket, s>> : s \in {w \in Live : WantsToWrite(w)}}
      /\ UNCHANGED <<mSessions, mNextSessionID, pipe, jobs, stopping, errors, aborted>>
  BY DEF Collect, Runs
<1>2. /\ Live' = Live /\ SocketsAreOwn' /\ ErrorsAreSeen'
      /\ \A s \in Live : s < mNextSessionID
      /\ \A s : (WantsToRead(s)' <=> WantsToRead(s))
                /\ (WantsToWrite(s)' <=> WantsToWrite(s))
  BY <1>1, SessionsKept
<1>3. \A s \in Live : mSessions[s].mSocket \in Sockets /\ s \in SessionIDs
  BY LiveType DEF IInv, SessionType
<1>4. \A bit \in rs' :
        \E s \in Live : WantsToRead(s) /\ bit = <<mSessions[s].mSocket, s>>
  BY <1>1
<1>5. \A bit \in ws' :
        \E s \in Live : WantsToWrite(s) /\ bit = <<mSessions[s].mSocket, s>>
  BY <1>1
<1>6. TypeOK'
  <2>1. rs' \in SUBSET (Sockets \X SessionIDs) /\ ws' \in SUBSET (Sockets \X SessionIDs)
    BY <1>3, <1>4, <1>5
  <2> QED BY <1>1, <2>1 DEF IInv, TypeOK
<1>7. IDsAreFresh' /\ BitsAreOfSockets'
  BY <1>1, <1>2, <1>4, <1>5 DEF IDsAreFresh, BitsAreOfSockets
<1>8. JobsAreOfBits'
  BY <1>1 DEF IInv, JobsAreOfBits
<1>9. FailuresAreFirst'
  <2> SUFFICES ASSUME NEW s \in Live
               PROVE  /\ IsSet(s, rs)' => ~mSessions[s].mSawReceiveFailure
                      /\ IsSet(s, ws)' => ~mSessions[s].mSawSendFailure
    BY <1>1, <1>2 DEF FailuresAreFirst
  <2>1. IsSet(s, rs)' => WantsToRead(s)
    BY <1>1, <1>4 DEF IsSet, IInv, SocketsAreOwn
  <2>2. IsSet(s, ws)' => WantsToWrite(s)
    BY <1>1, <1>5 DEF IsSet, IInv, SocketsAreOwn
  <2> QED BY <2>1, <2>2 DEF WantsToRead, WantsToWrite
<1>10. StillWants'
  BY <1>2, <1>5 DEF StillWants
<1>11. StopIsHeard'
  BY <1>1 DEF IInv, StopIsHeard
<1>12. NoWakeupLost'
  <2>1. \A s \in Live : Watched(s)'
    BY <1>1, <1>2 DEF Watched
  <2> QED BY <1>1, <1>2, <1>11, <2>1 DEF NoWakeupLost, StopIsHeard
<1>13. AbortsOnlyOnReusedSocket'
  BY <1>1 DEF AbortsOnlyOnReusedSocket
<1> QED BY <1>2, <1>6, <1>7, <1>8, <1>9, <1>10, <1>11, <1>12, <1>13 DEF IInv

(* A step of the network thread that leaves the sessions alone, keeps no   *)
(* bit that was not set and leaves nothing to be done.                     *)
LEMMA QuietRound ==
  ASSUME IInv, aborted = "no", pc' \in {"collect", "ready", "exited"},
         pc' = "collect" => stopping = "no",
         pc' = "ready" => pc = "select",
         rs' \subseteq rs, ws' \subseteq ws, jobs' = {}, pipe' \in Nat,
         UNCHANGED <<mSessions, mNextSessionID, stopping, errors, aborted>>
  PROVE  IInv'
<1>1. /\ Live' = Live /\ SocketsAreOwn' /\ ErrorsAreSeen'
      /\ \A s : (WantsToRead(s)' <=> WantsToRead(s))
                /\ (WantsToWrite(s)' <=> WantsToWrite(s))
  BY SessionsKept
<1>2. \A s : (IsSet(s, rs)' => IsSet(s, rs)) /\ (IsSet(s, ws)' => IsSet(s, ws))
  BY DEF IsSet
<1>3. TypeOK'
  BY DEF IInv, TypeOK
<1>4. IDsAreFresh' /\ BitsAreOfSockets' /\ JobsAreOfBits'
  BY <1>1 DEF IInv, IDsAreFresh, BitsAreOfSockets, JobsAreOfBits
<1>5. FailuresAreFirst'
  BY <1>1, <1>2 DEF IInv, FailuresAreFirst, Awaits
<1>6. StillWants'
  BY <1>1 DEF IInv, StillWants, Awaits
<1>7. StopIsHeard' /\ NoWakeupLost' /\ AbortsOnlyOnReusedSocket'
  BY DEF StopIsHeard, NoWakeupLost, AbortsOnlyOnReusedSocket
<1> QED BY <1>1, <1>3, <1>4, <1>5, <1>6, <1>7 DEF IInv

(* select() returns: the pipe is read, what is ready is to be done.        *)
LEMMA SelectStep ==
  ASSUME IInv, Select
  PROVE  IInv'
<1>1. pipe \in Nat /\ jobs = {}
  BY DEF IInv, TypeOK, JobsAreOfBits, Select
<1>2. /\ aborted = "no" /\ pc = "select" /\ pc' = "ready"
      /\ rs' \subseteq rs /\ ws' \subseteq ws /\ jobs' = {}
      /\ UNCHANGED <<mSessions, mNextSessionID, stopping, errors, aborted>>
  BY <1>1 DEF Select, Runs
<1>3. pipe' \in Nat
  BY <1>1 DEF Select, ReadPipe
<1> QED BY <1>2, <1>3, QuietRound

(* select() fails: a round with nothing to do.                             *)
LEMMA SelectFailsStep ==
  ASSUME IInv, SelectFails
  PROVE  IInv'
<1>1. pipe \in Nat /\ jobs = {}
  BY DEF IInv, TypeOK, JobsAreOfBits, SelectFails
<1>2. /\ aborted = "no" /\ pc' \in {"collect", "exited"}
      /\ pc' = "collect" => stopping = "no"
      /\ rs' \subseteq rs /\ ws' \subseteq ws /\ jobs' = {} /\ pipe' \in Nat
      /\ UNCHANGED <<mSessions, mNextSessionID, stopping, errors, aborted>>
  BY <1>1 DEF SelectFails, Runs, NextRound
<1> QED BY <1>2, QuietRound

(* The last of the ready sockets has been seen to.                         *)
LEMMA DispatchEndsStep ==
  ASSUME IInv, DispatchEnds
  PROVE  IInv'
<1>1. pipe \in Nat
  BY DEF IInv, TypeOK
<1>2. /\ aborted = "no" /\ pc' \in {"collect", "exited"}
      /\ pc' = "collect" => stopping = "no"
      /\ rs' \subseteq rs /\ ws' \subseteq ws /\ jobs' = {} /\ pipe' \in Nat
      /\ UNCHANGED <<mSessions, mNextSessionID, stopping, errors, aborted>>
  BY <1>1 DEF DispatchEnds, Runs, NextRound
<1> QED BY <1>2, QuietRound

(* The round begins: of every session whose socket is set there is to do.  *)
LEMMA DispatchStep ==
  ASSUME IInv, Dispatch
  PROVE  IInv'
<1>1. /\ aborted = "no" /\ pc = "ready" /\ pc' = "dispatch"
      /\ jobs' = {[do |-> "read", session |-> s] : s \in {r \in Live : IsSet(r, rs)}}
                   \cup {[do |-> "write", session |-> s] : s \in {w \in Live : IsSet(w, ws)}}
      /\ UNCHANGED <<mSessions, mNextSessionID, pipe, rs, ws, stopping, errors, aborted>>
  BY DEF Dispatch, Runs
<1>2. /\ Live' = Live /\ SocketsAreOwn' /\ ErrorsAreSeen'
      /\ \A s : (WantsToRead(s)' <=> WantsToRead(s))
                /\ (WantsToWrite(s)' <=> WantsToWrite(s))
  BY <1>1, SessionsKept
<1>3. \A s : (IsSet(s, rs)' <=> IsSet(s, rs)) /\ (IsSet(s, ws)' <=> IsSet(s, ws))
  BY <1>1 DEF IsSet
<1>4. \A j \in jobs' : /\ j \in JobType /\ j.session \in Live
                       /\ j.do = "read" => IsSet(j.session, rs)
                       /\ j.do = "write" => IsSet(j.session, ws)
  BY <1>1 DEF JobType, Live
<1>5. TypeOK'
  BY <1>1, <1>4 DEF IInv, TypeOK
<1>6. IDsAreFresh' /\ BitsAreOfSockets' /\ JobsAreOfBits'
  BY <1>1, <1>2, <1>3, <1>4 DEF IInv, IDsAreFresh, BitsAreOfSockets, JobsAreOfBits
<1>7. FailuresAreFirst' /\ StillWants'
  BY <1>1, <1>2, <1>3 DEF IInv, FailuresAreFirst, StillWants, Awaits
<1>8. StopIsHeard' /\ NoWakeupLost' /\ AbortsOnlyOnReusedSocket'
  BY <1>1 DEF StopIsHeard, NoWakeupLost, AbortsOnlyOnReusedSocket
<1> QED BY <1>2, <1>5, <1>6, <1>7, <1>8 DEF IInv

-----------------------------------------------------------------------------
(* The second critical section                                             *)

(* The turn of a session comes: it exists and its socket is set, so it has *)
(* not failed yet.                                                         *)
LEMMA JobsTurn ==
  ASSUME IInv, NEW do \in {"read", "write"}, NEW s \in SessionIDs, Job(do, s)
  PROVE  /\ aborted = "no" /\ pc = "dispatch"
         /\ jobs' = jobs \ {[do |-> do, session |-> s]}
         /\ [do |-> do, session |-> s] \in jobs
         /\ s \in Live /\ mSessions[s] \in SessionType
         /\ do = "read" => ~mSessions[s].mSawReceiveFailure
         /\ do = "write" => IsSet(s, ws) /\ ~mSessions[s].mSawSendFailure
<1> DEFINE job == [do |-> do, session |-> s]
<1>1. /\ aborted = "no" /\ pc = "dispatch" /\ job \in jobs
      /\ jobs' = jobs \ {job}
  BY DEF Job, Runs
<1>2. job.do = do /\ job.session = s
  OBVIOUS
<1>3. /\ s \in Live
      /\ do = "read" => IsSet(s, rs)
      /\ do = "write" => IsSet(s, ws)
  BY <1>1, <1>2 DEF IInv, JobsAreOfBits
<1>4. mSessions[s] \in SessionType
  BY <1>3, LiveType DEF IInv
<1>5. /\ do = "read" => ~mSessions[s].mSawReceiveFailure
      /\ do = "write" => ~mSessions[s].mSawSendFailure
  BY <1>1, <1>3 DEF IInv, FailuresAreFirst, Awaits
<1> QED BY <1>1, <1>3, <1>4, <1>5

(* A connection accepted belongs to a session of which there is nothing    *)
(* else to do this round.                                                  *)
LEMMA AcceptStep ==
  ASSUME IInv, NEW s \in SessionIDs, Accept(s)
  PROVE  IInv'
<1>1. /\ pc = "dispatch" /\ aborted = "no"
      /\ jobs' = jobs \ {[do |-> "read", session |-> s]}
      /\ UNCHANGED <<pipe, pc, rs, ws, stopping, errors, aborted>>
  BY JobsTurn DEF Accept
<1>2. CASE UNCHANGED <<mSessions, mNextSessionID>>
  <2>1. /\ Live' = Live /\ SocketsAreOwn' /\ ErrorsAreSeen'
        /\ \A t : (WantsToRead(t)' <=> WantsToRead(t))
                  /\ (WantsToWrite(t)' <=> WantsToWrite(t))
    BY <1>1, <1>2, SessionsKept
  <2>2. \A t : (IsSet(t, rs)' <=> IsSet(t, rs)) /\ (IsSet(t, ws)' <=> IsSet(t, ws))
    BY <1>1, <1>2 DEF IsSet
  <2>3. TypeOK'
    BY <1>1, <1>2 DEF IInv, TypeOK
  <2>4. IDsAreFresh' /\ BitsAreOfSockets' /\ JobsAreOfBits'
    BY <1>1, <1>2, <2>1, <2>2 DEF IInv, IDsAreFresh, BitsAreOfSockets, JobsAreOfBits
  <2>5. FailuresAreFirst' /\ StillWants'
    BY <1>1, <1>2, <2>1, <2>2 DEF IInv, FailuresAreFirst, StillWants, Awaits
  <2>6. StopIsHeard' /\ NoWakeupLost' /\ AbortsOnlyOnReusedSocket'
    BY <1>1 DEF StopIsHeard, NoWakeupLost, AbortsOnlyOnReusedSocket
  <2> QED BY <2>1, <2>3, <2>4, <2>5, <2>6 DEF IInv
<1>3. CASE AddSession([mSessions EXCEPT ![s].arrived = @ - 1], "CONNECTED")
           /\ mSessions[s].arrived > 0
  <2> DEFINE sessions == [mSessions EXCEPT ![s].arrived = @ - 1]
  <2>0. "CONNECTED" \in States
    BY DEF States
  <2>0a. SameSessions(sessions)
    <3>1. s \in Live /\ mSessions[s] \in SessionType
      BY JobsTurn DEF Accept
    <3>2. PICK r : r = [mSessions[s] EXCEPT !.arrived = @ - 1]
      OBVIOUS
    <3>3. sessions = [mSessions EXCEPT ![s] = r]
      BY <3>2
    <3>4. /\ r \in SessionType /\ r.mSocket = mSessions[s].mSocket
          /\ r.mState = mSessions[s].mState /\ r.mOut = mSessions[s].mOut
          /\ r.mSawReceiveFailure = mSessions[s].mSawReceiveFailure
          /\ r.mSawSendFailure = mSessions[s].mSawSendFailure
      BY <1>3, <3>1, <3>2 DEF SessionType
    <3>5. /\ sessions \in [SessionIDs -> SessionType \cup {NoSession}]
          /\ \A t \in SessionIDs : sessions[t] = IF t = s THEN r ELSE mSessions[t]
      BY <3>3, <3>4 DEF IInv, TypeOK
    <3>6. \A x \in SessionType : x # NoSession
      BY LiveType DEF IInv
    <3> HIDE DEF sessions
    <3> QED BY <3>1, <3>4, <3>5, <3>6 DEF SameSessions, Live
  <2> HIDE DEF sessions
  <2>0b. AddSession(sessions, "CONNECTED")
    BY <1>3 DEF sessions
  <2>1. /\ mSessions' \in [SessionIDs -> SessionType \cup {NoSession}]
        /\ mNextSessionID' \in Nat
        /\ mNextSessionID \notin Live /\ Live' = Live \cup {mNextSessionID}
        /\ \A t \in Live : SameSession(t)
    BY <2>0, <2>0a, <2>0b, SessionAdded
  <2>2. /\ IDsAreFresh' /\ SocketsAreOwn' /\ BitsAreOfSockets'
        /\ \A t \in Live : IsSet(t, rs)' <=> IsSet(t, rs)
        /\ \A t \in Live : IsSet(t, ws)' <=> IsSet(t, ws)
        /\ ~mSessions'[mNextSessionID].mSawReceiveFailure
        /\ ~mSessions'[mNextSessionID].mSawSendFailure
        /\ \A bit \in ws' : bit[2] # mNextSessionID
        /\ ErrorsAreSeen'
    BY <1>1, <2>0, <2>0a, <2>0b, AddedKeeps
  <2>3. TypeOK'
    BY <1>1, <2>1 DEF IInv, TypeOK
  <2>4. JobsAreOfBits'
    BY <1>1, <2>1, <2>2 DEF IInv, JobsAreOfBits
  <2>5. FailuresAreFirst'
    BY <1>1, <2>1, <2>2 DEF IInv, FailuresAreFirst, Awaits, SameSession
  <2>6. StillWants'
    BY <1>1, <2>1, <2>2 DEF IInv, StillWants, Awaits, WantsToWrite, SameSession
  <2>7. StopIsHeard' /\ NoWakeupLost' /\ AbortsOnlyOnReusedSocket'
    BY <1>1 DEF StopIsHeard, NoWakeupLost, AbortsOnlyOnReusedSocket
  <2> QED BY <2>2, <2>3, <2>4, <2>5, <2>6, <2>7 DEF IInv
<1> QED BY <1>2, <1>3 DEF Accept

(* A session whose turn has come changes, its socket excepted. What it     *)
(* fails is counted, and what other sessions await is as before.           *)
LEMMA TurnTaken ==
  ASSUME IInv, NEW do \in {"read", "write"}, NEW s \in SessionIDs, Job(do, s),
         NEW r \in SessionType, r.mSocket = mSessions[s].mSocket,
         mSessions' = [mSessions EXCEPT ![s] = r],
         do = "read" => /\ r.mState = mSessions[s].mState
                        /\ r.mOut = mSessions[s].mOut
                        /\ r.mSawSendFailure = mSessions[s].mSawSendFailure,
         do = "write" => r.mSawReceiveFailure = mSessions[s].mSawReceiveFailure,
         errors' \in [Directions -> Nat], ErrorsAreSeen',
         UNCHANGED <<mNextSessionID, pipe, pc, rs, ws, stopping, aborted>>
  PROVE  IInv'
<1> DEFINE job == [do |-> do, session |-> s]
<1>1. /\ aborted = "no" /\ pc = "dispatch" /\ jobs' = jobs \ {job} /\ s \in Live
  BY JobsTurn
<1>2. /\ mSessions' \in [SessionIDs -> SessionType \cup {NoSession}]
      /\ Live' = Live
      /\ \A t \in Live : mSessions'[t].mSocket = mSessions[t].mSocket
      /\ \A t \in Live \ {s} : mSessions'[t] = mSessions[t]
      /\ mSessions'[s] = r
  BY <1>1, SessionChanges DEF IInv
<1>3. SameSockets
  BY <1>2 DEF SameSockets
<1>4. /\ IDsAreFresh' /\ SocketsAreOwn' /\ BitsAreOfSockets'
      /\ \A t \in Live : IsSet(t, rs)' <=> IsSet(t, rs)
      /\ \A t \in Live : IsSet(t, ws)' <=> IsSet(t, ws)
  BY <1>3, SocketsKept
<1>5. \A d, t : Awaits(d, t)' => Awaits(d, t) /\ (d # do \/ t # s)
  BY <1>1 DEF Awaits
<1>6. TypeOK'
  BY <1>1, <1>2 DEF IInv, TypeOK
<1>7. JobsAreOfBits'
  BY <1>1, <1>2, <1>4 DEF IInv, JobsAreOfBits
<1>8. FailuresAreFirst'
  <2> SUFFICES ASSUME NEW t \in Live
               PROVE  /\ IsSet(t, rs) /\ Awaits("read", t)'
                           => ~mSessions'[t].mSawReceiveFailure
                      /\ IsSet(t, ws) /\ Awaits("write", t)'
                           => ~mSessions'[t].mSawSendFailure
    BY <1>2, <1>4 DEF FailuresAreFirst
  <2>1. /\ IsSet(t, rs) /\ Awaits("read", t)' => ~mSessions[t].mSawReceiveFailure
        /\ IsSet(t, ws) /\ Awaits("write", t)' => ~mSessions[t].mSawSendFailure
    BY <1>5 DEF IInv, FailuresAreFirst
  <2>2. CASE t # s
    BY <1>2, <2>1, <2>2
  <2>3. CASE t = s
    BY <1>2, <1>5, <2>1, <2>3
  <2> QED BY <2>2, <2>3
<1>9. StillWants'
  <2> SUFFICES ASSUME NEW bit \in ws, bit[2] \in Live, Awaits("write", bit[2])'
               PROVE  WantsToWrite(bit[2])'
    BY <1>2 DEF StillWants
  <2>1. WantsToWrite(bit[2])
    BY <1>5 DEF IInv, StillWants
  <2>2. CASE bit[2] # s
    BY <1>2, <2>1, <2>2 DEF WantsToWrite
  <2>3. CASE bit[2] = s
    BY <1>2, <1>5, <2>1, <2>3 DEF WantsToWrite
  <2> QED BY <2>2, <2>3
<1>10. StopIsHeard' /\ NoWakeupLost' /\ AbortsOnlyOnReusedSocket'
  BY <1>1 DEF StopIsHeard, NoWakeupLost, AbortsOnlyOnReusedSocket
<1> QED BY <1>4, <1>6, <1>7, <1>8, <1>9, <1>10 DEF IInv

(* What a session fails is told in its direction, and counted there.       *)
LEMMA FailureTold ==
  ASSUME IInv, NEW direction \in {"receive", "send"}, NEW s \in Live,
         NEW r \in SessionType, mSessions' = [mSessions EXCEPT ![s] = r],
         r.mSocket = mSessions[s].mSocket, NotifyError(s, direction),
         direction = "receive" =>
           \/ /\ ~SawReceiveFailure(s) /\ r.mSawReceiveFailure
              /\ r.mSawSendFailure = mSessions[s].mSawSendFailure
              /\ r.mState = mSessions[s].mState
           \/ /\ ~SawConnectFailure(s) /\ ~SawSendFailure(s)
              /\ r.mSawSendFailure /\ r.mState = "CONNECTING"
              /\ r.mSawReceiveFailure = mSessions[s].mSawReceiveFailure,
         direction = "send" =>
           /\ ~SawConnectFailure(s) /\ ~SawSendFailure(s)
           /\ r.mSawSendFailure /\ r.mState # "CONNECTING"
           /\ r.mSawReceiveFailure = mSessions[s].mSawReceiveFailure
  PROVE  errors' \in [Directions -> Nat] /\ ErrorsAreSeen'
<1>1. /\ s \in SessionIDs /\ mSessions[s] \in SessionType
      /\ errors \in [Directions -> Nat]
      /\ errors' = [errors EXCEPT ![<<s, direction>>] = @ + 1]
  BY LiveType DEF IInv, TypeOK, NotifyError
<1>2. \A t \in SessionIDs : <<t, "receive">> \in Directions /\ <<t, "send">> \in Directions
  BY DEF Directions
<1>3. /\ errors'[<<s, direction>>] = errors[<<s, direction>>] + 1
      /\ errors' \in [Directions -> Nat]
      /\ \A d \in Directions : d # <<s, direction>> => errors'[d] = errors[d]
  <2>1. <<s, direction>> \in Directions
    BY <1>1 DEF Directions
  <2> QED BY <1>1, <2>1
<1>4. /\ Live' = Live /\ mSessions'[s] = r
      /\ \A t \in Live \ {s} : mSessions'[t] = mSessions[t]
  BY SessionChanges DEF IInv
<1>5. ErrorsAreSeen'
  <2> SUFFICES ASSUME NEW t \in SessionIDs
               PROVE  /\ errors'[<<t, "receive">>] =
                           (IF SawReceiveFailure(t)' THEN 1 ELSE 0)
                             + (IF SawConnectFailure(t)' THEN 1 ELSE 0)
                      /\ errors'[<<t, "send">>] = IF SawSendFailure(t)' THEN 1 ELSE 0
    BY DEF ErrorsAreSeen
  <2>1. /\ errors[<<t, "receive">>] = (IF SawReceiveFailure(t) THEN 1 ELSE 0)
                                       + (IF SawConnectFailure(t) THEN 1 ELSE 0)
        /\ errors[<<t, "send">>] = IF SawSendFailure(t) THEN 1 ELSE 0
    BY DEF IInv, ErrorsAreSeen
  <2>2. CASE t # s
    <3>1. /\ errors'[<<t, "receive">>] = errors[<<t, "receive">>]
          /\ errors'[<<t, "send">>] = errors[<<t, "send">>]
      BY <1>2, <1>3, <2>2
    <3>2. /\ SawReceiveFailure(t)' <=> SawReceiveFailure(t)
          /\ SawConnectFailure(t)' <=> SawConnectFailure(t)
          /\ SawSendFailure(t)' <=> SawSendFailure(t)
      BY <1>4, <2>2 DEF SawReceiveFailure, SawConnectFailure, SawSendFailure
    <3> QED BY <2>1, <3>1, <3>2
  <2>3. /\ t = s => (SawReceiveFailure(t)' <=> r.mSawReceiveFailure)
        /\ t = s => (SawConnectFailure(t)' <=> r.mSawSendFailure /\ r.mState = "CONNECTING")
        /\ t = s => (SawSendFailure(t)' <=> r.mSawSendFailure /\ r.mState # "CONNECTING")
    BY <1>4 DEF SawReceiveFailure, SawConnectFailure, SawSendFailure
  <2>4. CASE t = s /\ direction = "receive"
    <3>1. /\ errors'[<<t, "receive">>] = errors[<<t, "receive">>] + 1
          /\ errors'[<<t, "send">>] = errors[<<t, "send">>]
      BY <1>2, <1>3, <2>4
    <3>2. CASE /\ ~SawReceiveFailure(s) /\ r.mSawReceiveFailure
               /\ r.mSawSendFailure = mSessions[s].mSawSendFailure
               /\ r.mState = mSessions[s].mState
      <4>1. /\ SawReceiveFailure(t)' /\ ~SawReceiveFailure(t)
            /\ SawConnectFailure(t)' <=> SawConnectFailure(t)
            /\ SawSendFailure(t)' <=> SawSendFailure(t)
        BY <2>3, <2>4, <3>2 DEF SawConnectFailure, SawSendFailure
      <4> QED BY <2>1, <3>1, <4>1
    <3>3. CASE /\ ~SawConnectFailure(s) /\ ~SawSendFailure(s)
               /\ r.mSawSendFailure /\ r.mState = "CONNECTING"
               /\ r.mSawReceiveFailure = mSessions[s].mSawReceiveFailure
      <4>1. /\ SawReceiveFailure(t)' <=> SawReceiveFailure(t)
            /\ SawConnectFailure(t)' /\ ~SawConnectFailure(t)
            /\ ~SawSendFailure(t)' /\ ~SawSendFailure(t)
        BY <2>3, <2>4, <3>3 DEF SawReceiveFailure
      <4> QED BY <2>1, <3>1, <4>1
    <3> QED BY <2>4, <3>2, <3>3
  <2>5. CASE t = s /\ direction = "send"
    <3>1. /\ errors'[<<t, "send">>] = errors[<<t, "send">>] + 1
          /\ errors'[<<t, "receive">>] = errors[<<t, "receive">>]
      BY <1>2, <1>3, <2>5
    <3>2. /\ SawReceiveFailure(t)' <=> SawReceiveFailure(t)
          /\ ~SawConnectFailure(t)' /\ ~SawConnectFailure(t)
          /\ SawSendFailure(t)' /\ ~SawSendFailure(t)
      BY <2>3, <2>5 DEF SawReceiveFailure
    <3> QED BY <2>1, <3>1, <3>2
  <2> QED BY <2>2, <2>4, <2>5
<1> QED BY <1>3, <1>5

(* No failure, none told. A session that has not failed may be connected.  *)
LEMMA NoFailureTold ==
  ASSUME IInv, NEW s \in Live, NEW r \in SessionType,
         r.mSocket = mSessions[s].mSocket,
         r.mSawReceiveFailure = mSessions[s].mSawReceiveFailure,
         r.mSawSendFailure = mSessions[s].mSawSendFailure,
         r.mState = mSessions[s].mState \/ ~r.mSawSendFailure,
         mSessions' = [mSessions EXCEPT ![s] = r], UNCHANGED errors
  PROVE  errors' \in [Directions -> Nat] /\ ErrorsAreSeen'
<1>1. /\ Live' = Live /\ mSessions'[s] = r
      /\ \A t \in Live \ {s} : mSessions'[t] = mSessions[t]
  BY SessionChanges DEF IInv
<1>2. errors' \in [Directions -> Nat]
  BY DEF IInv, TypeOK
<1>3. ErrorsAreSeen'
  <2>1. \A t \in SessionIDs : /\ SawReceiveFailure(t)' <=> SawReceiveFailure(t)
                              /\ SawConnectFailure(t)' <=> SawConnectFailure(t)
                              /\ SawSendFailure(t)' <=> SawSendFailure(t)
    BY <1>1 DEF SawReceiveFailure, SawConnectFailure, SawSendFailure
  <2> QED BY <2>1 DEF IInv, ErrorsAreSeen
<1> QED BY <1>2, <1>3

(* A socket that is ready is read.                                         *)
LEMMA ReadMoreStep ==
  ASSUME IInv, NEW s \in SessionIDs, ReadMore(s)
  PROVE  IInv'
<1>1. /\ Job("read", s)
      /\ UNCHANGED <<mNextSessionID, pipe, pc, rs, ws, stopping, aborted>>
  BY DEF ReadMore
<1>2. /\ s \in Live /\ mSessions[s] \in SessionType
      /\ ~mSessions[s].mSawReceiveFailure
  BY <1>1, JobsTurn
<1>3. ASSUME NEW left \in Nat, mSessions' = [mSessions EXCEPT ![s].arrived = left],
             UNCHANGED errors
      PROVE  IInv'
  <2> DEFINE r == [mSessions[s] EXCEPT !.arrived = left]
  <2>1. r \in SessionType
    BY <1>2, SessionFields
  <2>2. /\ r.mSocket = mSessions[s].mSocket /\ r.mState = mSessions[s].mState
        /\ r.mOut = mSessions[s].mOut
        /\ r.mSawReceiveFailure = mSessions[s].mSawReceiveFailure
        /\ r.mSawSendFailure = mSessions[s].mSawSendFailure
    BY <1>2 DEF SessionType
  <2>3. mSessions' = [mSessions EXCEPT ![s] = r]
    BY <1>3
  <2> HIDE DEF r
  <2>4. errors' \in [Directions -> Nat] /\ ErrorsAreSeen'
    BY <1>2, <1>3, <2>1, <2>2, <2>3, NoFailureTold
  <2> QED BY <1>1, <2>1, <2>2, <2>3, <2>4, TurnTaken
<1>4. ASSUME ReceiveFails(s)
      PROVE  IInv'
  <2> DEFINE r == [mSessions[s] EXCEPT !.mSawReceiveFailure = TRUE]
  <2>1. r \in SessionType
    BY <1>2, SessionFields
  <2>2. /\ r.mSocket = mSessions[s].mSocket /\ r.mState = mSessions[s].mState
        /\ r.mOut = mSessions[s].mOut
        /\ r.mSawSendFailure = mSessions[s].mSawSendFailure
    BY <1>2 DEF SessionType
  <2>3. /\ mSessions' = [mSessions EXCEPT ![s].mSawReceiveFailure = TRUE]
        /\ mSessions' = [mSessions EXCEPT ![s] = r]
        /\ NotifyError(s, "receive")
    BY <1>4 DEF ReceiveFails
  <2>3a. r.mSawReceiveFailure
    BY <1>2 DEF SessionType
  <2> HIDE DEF r
  <2>3b. ~SawReceiveFailure(s)
    BY <1>2 DEF SawReceiveFailure
  <2>4. errors' \in [Directions -> Nat] /\ ErrorsAreSeen'
    BY <1>2, <2>1, <2>2, <2>3, <2>3a, <2>3b, FailureTold
  <2> QED BY <1>1, <2>1, <2>2, <2>3, <2>4, TurnTaken
<1>5. \A left \in 0..mSessions[s].arrived - 1 : left \in Nat
  BY <1>2 DEF SessionType
<1> QED BY <1>3, <1>4, <1>5 DEF ReadMore

(* A CHECK of writeMore fails on a bit of a session that is no more: one   *)
(* of the session itself would show that it has something to write.        *)
LEMMA WriteMoreAborts ==
  ASSUME IInv, NEW s \in SessionIDs, Job("write", s), NothingToWrite(s),
         aborted' = "writeMore",
         UNCHANGED <<mSessions, mNextSessionID, pipe, pc, rs, ws, stopping, errors>>
  PROVE  IInv'
<1>1. /\ pc = "dispatch" /\ jobs' = jobs \ {[do |-> "write", session |-> s]}
      /\ [do |-> "write", session |-> s] \in jobs /\ s \in Live /\ IsSet(s, ws)
  BY JobsTurn
<1>2. /\ Live' = Live /\ SocketsAreOwn' /\ ErrorsAreSeen'
      /\ \A t : (WantsToRead(t)' <=> WantsToRead(t))
                /\ (WantsToWrite(t)' <=> WantsToWrite(t))
  BY SessionsKept
<1>3. \A t : (IsSet(t, rs)' <=> IsSet(t, rs)) /\ (IsSet(t, ws)' <=> IsSet(t, ws))
  BY DEF IsSet
<1>4. TypeOK'
  BY <1>1 DEF IInv, TypeOK
<1>5. IDsAreFresh' /\ BitsAreOfSockets' /\ JobsAreOfBits'
  BY <1>1, <1>2, <1>3 DEF IInv, IDsAreFresh, BitsAreOfSockets, JobsAreOfBits
<1>6. FailuresAreFirst' /\ StillWants'
  BY <1>1, <1>2, <1>3 DEF IInv, FailuresAreFirst, StillWants, Awaits
<1>7. AbortsOnlyOnReusedSocket'
  <2>1. PICK bit \in ws : bit[1] = mSessions[s].mSocket
    BY <1>1 DEF IsSet
  <2>2. CASE bit[2] \in Live
    <3>1. bit[2] = s
      BY <1>1, <2>1, <2>2 DEF IInv, BitsAreOfSockets, SocketsAreOwn
    <3>2. WantsToWrite(s)
      BY <1>1, <2>2, <3>1 DEF IInv, StillWants, Awaits
    <3>3. ~NothingToWrite(s)
      BY <3>2 DEF WantsToWrite, NothingToWrite
    <3> QED BY <3>3
  <2>3. CASE bit[2] \notin Live
    BY <1>1, <1>2, <2>1, <2>3 DEF AbortsOnlyOnReusedSocket, ReusedSocket
  <2> QED BY <2>2, <2>3
<1>8. StopIsHeard' /\ NoWakeupLost'
  BY <1>1 DEF StopIsHeard, NoWakeupLost
<1> QED BY <1>2, <1>4, <1>5, <1>6, <1>7, <1>8 DEF IInv

(* A socket that is ready is written.                                      *)
LEMMA WriteMoreStep ==
  ASSUME IInv, NEW s \in SessionIDs, WriteMore(s)
  PROVE  IInv'
<1>1. /\ Job("write", s)
      /\ UNCHANGED <<mNextSessionID, pipe, pc, rs, ws, stopping>>
  BY DEF WriteMore
<1>2. /\ s \in Live /\ mSessions[s] \in SessionType
      /\ ~mSessions[s].mSawSendFailure
  BY <1>1, JobsTurn
<1>3. CASE NothingToWrite(s) /\ aborted' = "writeMore" /\ UNCHANGED <<mSessions, errors>>
  BY <1>1, <1>3, WriteMoreAborts
<1>4. ASSUME UNCHANGED <<aborted, errors>>, NEW r \in SessionType,
             mSessions' = [mSessions EXCEPT ![s] = r],
             r.mSocket = mSessions[s].mSocket,
             r.mSawReceiveFailure = mSessions[s].mSawReceiveFailure,
             r.mSawSendFailure = mSessions[s].mSawSendFailure
      PROVE  IInv'
  <2>1. errors' \in [Directions -> Nat] /\ ErrorsAreSeen'
    BY <1>2, <1>4, NoFailureTold
  <2> QED BY <1>1, <1>4, <2>1, TurnTaken
<1>5. ASSUME mSessions' = [mSessions EXCEPT ![s].mState = "CONNECTED"],
             UNCHANGED <<aborted, errors>>
      PROVE  IInv'
  <2> DEFINE r == [mSessions[s] EXCEPT !.mState = "CONNECTED"]
  <2>1. r \in SessionType
    BY <1>2, SessionFields DEF States
  <2>2. /\ r.mSocket = mSessions[s].mSocket
        /\ r.mSawReceiveFailure = mSessions[s].mSawReceiveFailure
        /\ r.mSawSendFailure = mSessions[s].mSawSendFailure
    BY <1>2 DEF SessionType
  <2>3. mSessions' = [mSessions EXCEPT ![s] = r]
    BY <1>5
  <2> HIDE DEF r
  <2> QED BY <1>4, <1>5, <2>1, <2>2, <2>3
<1>6. ASSUME NEW left \in Nat, mSessions' = [mSessions EXCEPT ![s].mOut = left],
             UNCHANGED <<aborted, errors>>
      PROVE  IInv'
  <2> DEFINE r == [mSessions[s] EXCEPT !.mOut = left]
  <2>1. r \in SessionType
    BY <1>2, SessionFields
  <2>2. /\ r.mSocket = mSessions[s].mSocket
        /\ r.mSawReceiveFailure = mSessions[s].mSawReceiveFailure
        /\ r.mSawSendFailure = mSessions[s].mSawSendFailure
    BY <1>2 DEF SessionType
  <2>3. mSessions' = [mSessions EXCEPT ![s] = r]
    BY <1>6
  <2> HIDE DEF r
  <2> QED BY <1>4, <1>6, <2>1, <2>2, <2>3
<1>7. ASSUME \/ mSessions[s].mState = "CONNECTING" /\ ConnectFails(s)
             \/ mSessions[s].mState # "CONNECTING" /\ SendFails(s),
             UNCHANGED aborted
      PROVE  IInv'
  <2> DEFINE r == [mSessions[s] EXCEPT !.mSawSendFailure = TRUE]
  <2>1. r \in SessionType
    BY <1>2, SessionFields
  <2>2. /\ r.mSocket = mSessions[s].mSocket /\ r.mState = mSessions[s].mState
        /\ r.mSawReceiveFailure = mSessions[s].mSawReceiveFailure
        /\ r.mSawSendFailure
    BY <1>2 DEF SessionType
  <2>3. /\ mSessions' = [mSessions EXCEPT ![s].mSawSendFailure = TRUE]
        /\ mSessions' = [mSessions EXCEPT ![s] = r]
    BY <1>7 DEF SendFails, ConnectFails
  <2> HIDE DEF r
  <2>4. ~SawConnectFailure(s) /\ ~SawSendFailure(s)
    BY <1>2 DEF SawConnectFailure, SawSendFailure
  <2>5. errors' \in [Directions -> Nat] /\ ErrorsAreSeen'
    <3>1. CASE mSessions[s].mState = "CONNECTING" /\ ConnectFails(s)
      <4>1. NotifyError(s, "receive") /\ r.mState = "CONNECTING"
        BY <2>2, <3>1 DEF ConnectFails
      <4> QED BY <1>2, <2>1, <2>2, <2>3, <2>4, <4>1, FailureTold
    <3>2. CASE mSessions[s].mState # "CONNECTING" /\ SendFails(s)
      <4>1. NotifyError(s, "send") /\ r.mState # "CONNECTING"
        BY <2>2, <3>2 DEF SendFails
      <4> QED BY <1>2, <2>1, <2>2, <2>3, <2>4, <4>1, FailureTold
    <3> QED BY <1>7, <3>1, <3>2
  <2> QED BY <1>1, <1>7, <2>1, <2>2, <2>3, <2>5, TurnTaken
<1>8. \A left \in 0..mSessions[s].mOut - 1 : left \in Nat
  BY <1>2 DEF SessionType
<1> QED BY <1>3, <1>5, <1>6, <1>7, <1>8 DEF WriteMore

-----------------------------------------------------------------------------
(* The theorems                                                            *)

(* IInv is inductive.                                                      *)
LEMMA Inductive == IInv /\ [Next]_vars => IInv'
<1> SUFFICES ASSUME IInv, [Next]_vars PROVE IInv'
  OBVIOUS
<1>1. CASE CreateClientOrServer
  BY <1>1, CreateClientOrServerStep
<1>2. ASSUME NEW s \in SessionIDs,
             \/ DestroySession(s) \/ SendRequest(s)
             \/ ConnectEnds(s) \/ Arrives(s) \/ HangsUp(s)
      PROVE  IInv'
  BY <1>2, DestroySessionStep, SendRequestStep, ConnectEndsStep, ArrivesStep,
     HangsUpStep
<1>3. CASE Stop
  BY <1>3, StopStep
<1>4. CASE Collect \/ Select \/ SelectFails \/ Dispatch \/ DispatchEnds
  BY <1>4, CollectStep, SelectStep, SelectFailsStep, DispatchStep, DispatchEndsStep
<1>5. ASSUME NEW s \in SessionIDs, Accept(s) \/ ReadMore(s) \/ WriteMore(s)
      PROVE  IInv'
  BY <1>5, AcceptStep, ReadMoreStep, WriteMoreStep
<1>6. CASE UNCHANGED vars
  <2>1. UNCHANGED <<mSessions, mNextSessionID, pipe, pc, rs, ws, jobs, stopping,
                    errors, aborted>>
    BY <1>6 DEF vars, thread
  <2>2. /\ Live' = Live
        /\ \A t : (WantsToRead(t)' <=> WantsToRead(t))
                  /\ (WantsToWrite(t)' <=> WantsToWrite(t))
    BY <2>1, SessionsKept
  <2>3. \A t : (IsSet(t, rs)' <=> IsSet(t, rs)) /\ (IsSet(t, ws)' <=> IsSet(t, ws))
    BY <2>1 DEF IsSet
  <2>4. TypeOK' /\ StopIsHeard'
    BY <2>1 DEF IInv, TypeOK, StopIsHeard
  <2>5. /\ IDsAreFresh' /\ SocketsAreOwn' /\ BitsAreOfSockets' /\ JobsAreOfBits'
        /\ ErrorsAreSeen'
    BY <2>1, <2>2, <2>3 DEF IInv, IDsAreFresh, SocketsAreOwn, BitsAreOfSockets,
                            JobsAreOfBits, ErrorsAreSeen, SawReceiveFailure,
                            SawConnectFailure, SawSendFailure
  <2>6. FailuresAreFirst' /\ StillWants'
    BY <2>1, <2>2, <2>3 DEF IInv, FailuresAreFirst, StillWants, Awaits
  <2>7. NoWakeupLost' /\ AbortsOnlyOnReusedSocket'
    BY <2>1, <2>2 DEF IInv, NoWakeupLost, Watched, AbortsOnlyOnReusedSocket, ReusedSocket
  <2> QED BY <2>4, <2>5, <2>6, <2>7 DEF IInv
<1> QED BY <1>1, <1>2, <1>3, <1>4, <1>5, <1>6 DEF Next, NetworkThread

(* IInv holds in every state.                                              *)
LEMMA Invariance == Spec => []IInv
<1> QED BY InitIInv, Inductive, PTL DEF Spec

(* The state keeps its types, whatever the number of sessions and sockets. *)
THEOREM TypeCorrect == Spec => []TypeOK
<1>1. IInv => TypeOK
  BY DEF IInv
<1> QED BY <1>1, Invariance, PTL

(* Every call wakes the network thread: while it waits in select() with an *)
(* empty pipe it watches every session as the session wants to be, and no  *)
(* stop() waits for it.                                                    *)
THEOREM WakesForEveryCall == Spec => []NoWakeupLost
<1>1. IInv => NoWakeupLost
  BY DEF IInv
<1> QED BY <1>1, Invariance, PTL

(* The owner of a session is told of no more than two failures, of one to  *)
(* send and of one to receive; of a second one to receive only if connect()*)
(* fails after the session was read, on a socket that was another's.       *)
THEOREM TellsFailuresOnce == Spec => []FailuresToldOnce
<1>1. IInv => FailuresToldOnce
  <2> SUFFICES ASSUME IInv, NEW s \in SessionIDs
               PROVE  /\ errors[<<s, "receive">>] + errors[<<s, "send">>] <= 2
                      /\ errors[<<s, "send">>] <= 1
                      /\ errors[<<s, "receive">>] > 1 => ReadUnconnected(s)
    BY DEF FailuresToldOnce
  <2>1. /\ errors[<<s, "receive">>] = (IF SawReceiveFailure(s) THEN 1 ELSE 0)
                                       + (IF SawConnectFailure(s) THEN 1 ELSE 0)
        /\ errors[<<s, "send">>] = IF SawSendFailure(s) THEN 1 ELSE 0
    BY DEF IInv, ErrorsAreSeen
  <2>2. /\ ~(SawConnectFailure(s) /\ SawSendFailure(s))
        /\ SawReceiveFailure(s) /\ SawConnectFailure(s) => ReadUnconnected(s)
    BY DEF SawReceiveFailure, SawConnectFailure, SawSendFailure, ReadUnconnected
  <2> QED BY <2>1, <2>2
<1> QED BY <1>1, Invariance, PTL

(* The CHECKs of writeMore fail on a socket used again and nowhere else.   *)
THEOREM ChecksFailOnReuseOnly == Spec => []AbortsOnlyOnReusedSocket
<1>1. IInv => AbortsOnlyOnReusedSocket
  BY DEF IInv
<1> QED BY <1>1, Invariance, PTL

=============================================================================
