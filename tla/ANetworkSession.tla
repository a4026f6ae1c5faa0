--------------------------- MODULE ANetworkSession ---------------------------
(***************************************************************************)
(* ANetworkSession.cpp: the sockets of the program. One network thread     *)
(* waits in select() for all of them; other threads create and destroy     *)
(* sessions and queue data to send, under mLock, and wake the network      *)
(* thread through a pipe. The network thread takes mLock twice per round:  *)
(* to collect the sockets for select(), and to read and write those that   *)
(* are ready. In between sessions come and go, and the number of a closed  *)
(* socket may be that of a new one.                                        *)
(*                                                                         *)
(* A call made under mLock is one step; the second critical section of the *)
(* network thread is one step per socket, and no call falls between them.  *)
(* Data is counted, in requests queued and in pieces that arrive. The fd   *)
(* sets hold pairs, the socket and the session it was set for; the code    *)
(* sees the socket only. The early exit of the dispatch loop on res = 0 is *)
(* left out: res is at least the number of sockets still to come. So are   *)
(* the TCP datagram sessions, which differ in framing only.                *)
(*                                                                         *)
(* Outside src/: the kernel and the peers. A socket never stays full.      *)
(* Reading a socket leaves the error of its connect() where it is.         *)
(***************************************************************************)
EXTENDS Integers

CONSTANTS
  MaxSessions,    \* bound: sessions created in all
  MaxSocket,      \* bound: sockets open at a time
  MaxRequests,    \* bound: requests queued in all
  MaxArrivals     \* bound: connections and pieces of data that arrive in all

ASSUME BoundsAssumption ==
  /\ MaxSessions \in Nat /\ MaxSocket \in Nat
  /\ MaxRequests \in Nat /\ MaxArrivals \in Nat

SessionIDs == 1..MaxSessions
Sockets    == 1..MaxSocket
Directions == SessionIDs \X {"receive", "send"}
States     == {"CONNECTING", "CONNECTED", "LISTENING_RTSP", "DATAGRAM"}

VARIABLES
  mSessions,      \* the sessions, NoSession where there is none
  mNextSessionID,
  pipe,           \* bytes in the pipe
  pc,             \* of the network thread
  rs, ws,         \* the fd sets: <<socket, session>>
  jobs,           \* what the network thread still has to do under mLock
  stopping,       \* how far stop() is
  errors,         \* history: kWhatError notifications of each session, by direction
  aborted,        \* in which function a CHECK failed
  requests, arrivals

thread == <<pc, rs, ws, jobs>>
counts == <<requests, arrivals>>
vars   == <<mSessions, mNextSessionID, pipe, thread, stopping, errors, aborted,
            counts>>

(* link, arrived and hungUp are the kernel's view of the socket: how far a *)
(* connect() is, what can be read, whether the peer is gone.               *)
SessionType ==
  [mState : States, mSocket : Sockets, mSawReceiveFailure : BOOLEAN,
   mSawSendFailure : BOOLEAN, mOut : Nat,
   link : {"pending", "up", "refused"}, arrived : Nat, hungUp : BOOLEAN]

NoSession == [mState |-> "NONE"]

Live == {s \in SessionIDs : mSessions[s] # NoSession}

FreeSockets == Sockets \ {mSessions[s].mSocket : s \in Live}

(* socket() and accept() return the lowest number that is free.            *)
NewSession(state) ==
  [mState |-> state,
   mSocket |-> CHOOSE n \in FreeSockets : \A m \in FreeSockets : n <= m,
   mSawReceiveFailure |-> FALSE, mSawSendFailure |-> FALSE, mOut |-> 0,
   link |-> IF state = "CONNECTING" THEN "pending" ELSE "up",
   arrived |-> 0, hungUp |-> FALSE]

Init ==
  /\ mSessions = [s \in SessionIDs |-> NoSession]
  /\ mNextSessionID = 1
  /\ pipe = 0
  /\ pc = "collect" /\ rs = {} /\ ws = {} /\ jobs = {}
  /\ stopping = "no" /\ errors = [d \in Directions |-> 0] /\ aborted = "no"
  /\ requests = 0 /\ arrivals = 0

Runs == aborted = "no"

(* A call gets mLock. No call comes after stop(), the destructor's.        *)
Unlocked == Runs /\ pc # "dispatch" /\ stopping = "no"

-----------------------------------------------------------------------------
(* Calls of other threads                                                  *)

(* Fault: the network thread is not woken.                                 *)
NoInterrupt == UNCHANGED pipe

Interrupt == pipe' = pipe + 1

(* A session is added to a table of sessions.                              *)
AddSession(sessions, state) ==
  /\ mNextSessionID \in SessionIDs /\ FreeSockets # {}
  /\ mSessions' = [sessions EXCEPT ![mNextSessionID] = NewSession(state)]
  /\ mNextSessionID' = mNextSessionID + 1

(* createClientOrServer.                                                   *)
CreateClientOrServer ==
  /\ Unlocked
  /\ \E state \in {"CONNECTING", "LISTENING_RTSP", "DATAGRAM"} :
       AddSession(mSessions, state)
  /\ Interrupt
  /\ UNCHANGED <<thread, stopping, errors, aborted, counts>>

DestroySession(s) ==
  /\ Unlocked
  /\ s \in Live
  /\ mSessions' = [mSessions EXCEPT ![s] = NoSession]
  /\ errors' = [d \in Directions |-> IF d[1] = s THEN 0 ELSE errors[d]]
  /\ Interrupt
  /\ UNCHANGED <<mNextSessionID, thread, stopping, aborted, counts>>

(* Callers only send over datagram sockets and over sessions they were told*)
(* are connected.                                                          *)
SendRequest(s) ==
  /\ Unlocked
  /\ s \in Live /\ mSessions[s].mState \in {"CONNECTED", "DATAGRAM"}
  /\ requests < MaxRequests /\ requests' = requests + 1
  /\ mSessions' = [mSessions EXCEPT ![s].mOut = @ + 1]
  /\ Interrupt
  /\ UNCHANGED <<mNextSessionID, thread, stopping, errors, aborted, arrivals>>

(* stop(): requestExit, then interrupt, without mLock. It then waits for   *)
(* the network thread to exit.                                             *)
Stop ==
  /\ Runs
  /\ \/ /\ stopping = "no" /\ stopping' = "exit requested"
        /\ UNCHANGED pipe
     \/ /\ stopping = "exit requested" /\ stopping' = "waiting"
        /\ Interrupt
  /\ UNCHANGED <<mSessions, mNextSessionID, thread, errors, aborted, counts>>

-----------------------------------------------------------------------------
(* The network thread                                                      *)

WantsToRead(s) ==
  ~mSessions[s].mSawReceiveFailure /\ mSessions[s].mState # "CONNECTING"

(* Fault: only a stream that still connects is watched.                    *)
WantsToConnect(s) ==
  ~mSessions[s].mSawSendFailure /\ mSessions[s].mState = "CONNECTING"

(* Fault: a connected stream is watched with nothing to send.              *)
WantsToWriteAlways(s) ==
  /\ ~mSessions[s].mSawSendFailure
  /\ mSessions[s].mState \in {"CONNECTING", "CONNECTED"}

WantsToWrite(s) ==
  /\ ~mSessions[s].mSawSendFailure
  /\ \/ mSessions[s].mState = "CONNECTING"
     \/ mSessions[s].mState \in {"CONNECTED", "DATAGRAM"} /\ mSessions[s].mOut > 0

(* The first critical section of threadLoop.                               *)
Collect ==
  /\ Runs /\ pc = "collect"
  /\ rs' = {<<mSessions[s].mSocket, s>> : s \in {r \in Live : WantsToRead(r)}}
  /\ ws' = {<<mSessions[s].mSocket, s>> : s \in {w \in Live : WantsToWrite(w)}}
  /\ pc' = "select"
  /\ UNCHANGED <<mSessions, mNextSessionID, pipe, jobs, stopping, errors, aborted,
                 counts>>

(* threadLoop returns; the thread goes on unless it is to exit.            *)
NextRound == pc' = IF stopping = "no" THEN "collect" ELSE "exited"

Readable(s) == mSessions[s].arrived > 0 \/ mSessions[s].hungUp
Writable(s) == mSessions[s].link # "pending"

(* select() returns the bits that are ready. Of a socket closed meanwhile  *)
(* it may return any.                                                      *)
Selected(set, ready, sessions) ==
  /\ ready \subseteq set
  /\ \A bit \in set : bit[2] \in Live => (bit \in ready <=> bit[2] \in sessions)

(* One byte of the pipe is read, however many there are.                   *)
ReadPipe == pipe' = IF pipe > 0 THEN pipe - 1 ELSE 0

Select ==
  /\ Runs /\ pc = "select"
  /\ \E r \in SUBSET rs, w \in SUBSET ws :
       /\ Selected(rs, r, {s \in Live : Readable(s)})
       /\ Selected(ws, w, {s \in Live : Writable(s)})
       /\ pipe > 0 \/ r # {} \/ w # {}
       /\ rs' = r /\ ws' = w
  /\ ReadPipe
  /\ pc' = "ready"
  /\ UNCHANGED <<mSessions, mNextSessionID, jobs, stopping, errors, aborted, counts>>

(* select() fails on a socket that is closed by now.                       *)
SelectFails ==
  /\ Runs /\ pc = "select"
  /\ \E bit \in rs \cup ws : bit[2] \notin Live
  /\ NextRound
  /\ UNCHANGED <<mSessions, mNextSessionID, pipe, rs, ws, jobs, stopping, errors,
                 aborted, counts>>

IsSet(s, set) == \E bit \in set : bit[1] = mSessions[s].mSocket

(* The second critical section begins: what there is to do of each session *)
(* is fixed here, for those accepted on the way are not gone through.      *)
Dispatch ==
  /\ Runs /\ pc = "ready"
  /\ jobs' = {[do |-> "read", session |-> s] : s \in {r \in Live : IsSet(r, rs)}}
                \cup {[do |-> "write", session |-> s] : s \in {w \in Live : IsSet(w, ws)}}
  /\ pc' = "dispatch"
  /\ UNCHANGED <<mSessions, mNextSessionID, pipe, rs, ws, stopping, errors, aborted,
                 counts>>

DispatchEnds ==
  /\ Runs /\ pc = "dispatch" /\ jobs = {}
  /\ rs' = {} /\ ws' = {}
  /\ NextRound
  /\ UNCHANGED <<mSessions, mNextSessionID, pipe, jobs, stopping, errors, aborted,
                 counts>>

(* Sessions are gone through from the newest to the oldest, and each is    *)
(* read before it is written.                                              *)
Before(j, k) ==
  \/ j.session > k.session
  \/ j.session = k.session /\ j.do = "read"

Job(do, s) ==
  LET job == [do |-> do, session |-> s]
  IN  /\ Runs /\ pc = "dispatch"
      /\ job \in jobs /\ \A other \in jobs \ {job} : Before(job, other)
      /\ jobs' = jobs \ {job}

(* A connection is accepted, if there is one and a socket for it.          *)
Accept(s) ==
  /\ Job("read", s)
  /\ mSessions[s].mState = "LISTENING_RTSP"
  /\ \/ /\ mSessions[s].arrived > 0
        /\ AddSession([mSessions EXCEPT ![s].arrived = @ - 1], "CONNECTED")
     \/ /\ mSessions[s].arrived = 0 \/ FreeSockets = {} \/ mNextSessionID > MaxSessions
        /\ UNCHANGED <<mSessions, mNextSessionID>>
  /\ UNCHANGED <<pipe, pc, rs, ws, stopping, errors, aborted, counts>>

(* notifyError, with send false or true.                                   *)
NotifyError(s, direction) == errors' = [errors EXCEPT ![<<s, direction>>] = @ + 1]

(* Fault: the failure is not remembered.                                   *)
ReceiveFailsAgain(s) == UNCHANGED mSessions /\ NotifyError(s, "receive")

ReceiveFails(s) ==
  /\ mSessions' = [mSessions EXCEPT ![s].mSawReceiveFailure = TRUE]
  /\ NotifyError(s, "receive")

SendFails(s) ==
  /\ mSessions' = [mSessions EXCEPT ![s].mSawSendFailure = TRUE]
  /\ NotifyError(s, "send")

(* The reason, kWhatError = 0, is passed where send is expected: a connect()*)
(* that failed is told as a failure to receive.                            *)
ConnectFails(s) ==
  /\ mSessions' = [mSessions EXCEPT ![s].mSawSendFailure = TRUE]
  /\ NotifyError(s, "receive")

(* A datagram socket is read until it is empty, a stream once. Nothing to  *)
(* read is an error of a stream (EAGAIN), and so is its end.               *)
ReadMore(s) ==
  /\ Job("read", s)
  /\ mSessions[s].mState # "LISTENING_RTSP"
  /\ \/ /\ mSessions[s].mState = "DATAGRAM" /\ ~mSessions[s].hungUp
        /\ mSessions' = [mSessions EXCEPT ![s].arrived = 0]
        /\ UNCHANGED errors
     \/ /\ mSessions[s].mState # "DATAGRAM" /\ mSessions[s].arrived > 0
        /\ \E left \in 0..mSessions[s].arrived - 1 :
             mSessions' = [mSessions EXCEPT ![s].arrived = left]
        /\ UNCHANGED errors
     \/ /\ \/ mSessions[s].hungUp
           \/ mSessions[s].mState # "DATAGRAM"
        /\ mSessions[s].arrived = 0 \/ mSessions[s].mState = "DATAGRAM"
        /\ ReceiveFails(s)
  /\ UNCHANGED <<mNextSessionID, pipe, pc, rs, ws, stopping, aborted, counts>>

(* CHECK_EQ(mState, CONNECTED), CHECK(!mOutDatagrams.empty()) and          *)
(* CHECK(!mOutBuffer.empty()).                                             *)
NothingToWrite(s) ==
  \/ mSessions[s].mState = "LISTENING_RTSP"
  \/ mSessions[s].mState \in {"DATAGRAM", "CONNECTED"} /\ mSessions[s].mOut = 0

(* Sending may fail at any time; what is not sent stays queued. The first  *)
(* write of a stream finds out how its connect() ended.                    *)
WriteMore(s) ==
  /\ Job("write", s)
  /\ \/ /\ NothingToWrite(s)
        /\ aborted' = "writeMore"
        /\ UNCHANGED <<mSessions, errors>>
     \/ /\ mSessions[s].mState = "CONNECTING"
        /\ UNCHANGED aborted
        /\ IF mSessions[s].link = "refused"
             THEN ConnectFails(s)
             ELSE /\ mSessions' = [mSessions EXCEPT ![s].mState = "CONNECTED"]
                  /\ UNCHANGED errors
     \/ /\ mSessions[s].mState \in {"DATAGRAM", "CONNECTED"} /\ mSessions[s].mOut > 0
        /\ UNCHANGED aborted
        /\ \/ /\ \E left \in 0..mSessions[s].mOut - 1 :
                   mSessions' = [mSessions EXCEPT ![s].mOut = left]
              /\ UNCHANGED errors
           \/ SendFails(s)
  /\ UNCHANGED <<mNextSessionID, pipe, pc, rs, ws, stopping, counts>>

-----------------------------------------------------------------------------
(* The network. What happens while the network thread holds mLock might as *)
(* well happen just before or after.                                       *)

(* connect() ends, one way or the other.                                   *)
ConnectEnds(s) ==
  /\ Unlocked /\ s \in Live
  /\ mSessions[s].link = "pending"
  /\ \E link \in {"up", "refused"} :
       mSessions' = [mSessions EXCEPT ![s].link = link]
  /\ UNCHANGED <<mNextSessionID, pipe, thread, stopping, errors, aborted, counts>>

(* A connection or a piece of data arrives.                                *)
Arrives(s) ==
  /\ Unlocked /\ s \in Live
  /\ mSessions[s].link = "up" /\ ~mSessions[s].hungUp
  /\ arrivals < MaxArrivals /\ arrivals' = arrivals + 1
  /\ mSessions' = [mSessions EXCEPT ![s].arrived = @ + 1]
  /\ UNCHANGED <<mNextSessionID, pipe, thread, stopping, errors, aborted, requests>>

(* The peer of a socket that does not listen goes away.                    *)
HangsUp(s) ==
  /\ Unlocked /\ s \in Live
  /\ mSessions[s].link = "up" /\ ~mSessions[s].hungUp
  /\ mSessions[s].mState # "LISTENING_RTSP"
  /\ mSessions' = [mSessions EXCEPT ![s].hungUp = TRUE]
  /\ UNCHANGED <<mNextSessionID, pipe, thread, stopping, errors, aborted, counts>>

-----------------------------------------------------------------------------
NetworkThread ==
  \/ Collect \/ Select \/ SelectFails \/ Dispatch \/ DispatchEnds
  \/ \E s \in SessionIDs : Accept(s) \/ ReadMore(s) \/ WriteMore(s)

Next ==
  \/ CreateClientOrServer
  \/ \E s \in SessionIDs :
       \/ DestroySession(s) \/ SendRequest(s)
       \/ ConnectEnds(s) \/ Arrives(s) \/ HangsUp(s)
  \/ Stop
  \/ NetworkThread

Spec == Init /\ [][Next]_vars

(* The network thread runs when it can; connect() takes finite time.       *)
FairSpec ==
  /\ Spec
  /\ WF_vars(NetworkThread)
  /\ \A s \in SessionIDs : WF_vars(ConnectEnds(s))

-----------------------------------------------------------------------------
(* Properties                                                              *)

(* While the network thread waits in select(), a session it does not watch *)
(* as the session wants to be watched, and a stop() that waits for it, have*)
(* left a byte in the pipe: every call wakes the thread.                   *)
Watched(s) ==
  /\ WantsToRead(s) => <<mSessions[s].mSocket, s>> \in rs
  /\ WantsToWrite(s) => <<mSessions[s].mSocket, s>> \in ws

NoWakeupLost ==
  pc = "select" /\ pipe = 0 =>
    /\ \A s \in Live : Watched(s)
    /\ stopping # "waiting"

(* The owner of a session is not flooded with errors while it gets round to*)
(* destroy the session (mSawReceiveFailure, mSawSendFailure): it is told of*)
(* a failure to receive once and of a failure to send once. A connect()    *)
(* that fails is told as a failure to receive, which may come second only  *)
(* to a session that was read before it connected; as sessions that connect*)
(* are not watched to be read, that takes a socket used again.             *)
ReadUnconnected(s) ==
  s \in Live /\ mSessions[s].mState = "CONNECTING" /\ mSessions[s].mSawReceiveFailure

FailuresToldOnce ==
  \A s \in SessionIDs :
    /\ errors[<<s, "receive">>] + errors[<<s, "send">>] <= 2
    /\ errors[<<s, "send">>] <= 1
    /\ errors[<<s, "receive">>] > 1 => ReadUnconnected(s)

(* The CHECKs of writeMore (lines 406, 480, 481) only fail on a socket that*)
(* was closed and given to another session while mLock was given up for    *)
(* select(): nothing the network thread or the owner of a session does     *)
(* between the two leaves a session watched that has nothing to write.     *)
ReusedSocket ==
  \E bit \in ws : bit[2] \notin Live
                 /\ \E s \in Live : mSessions[s].mSocket = bit[1]

AbortsOnlyOnReusedSocket == aborted # "no" => ReusedSocket

(* What sendRequest has queued is sent, unless sending fails, the session  *)
(* is destroyed or the network session stopped.                            *)
RequestsAreSent ==
  \A s \in SessionIDs :
    (s \in Live /\ mSessions[s].mState \in {"CONNECTED", "DATAGRAM"} /\ mSessions[s].mOut > 0)
      ~> (\/ s \notin Live \/ mSessions[s].mSawSendFailure
          \/ mSessions[s].mOut = 0
          \/ stopping # "no" \/ aborted # "no")

=============================================================================
