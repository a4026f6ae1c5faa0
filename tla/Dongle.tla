------------------------------- MODULE Dongle -------------------------------
(***************************************************************************)
(* WifiDisplaySource with the dongles it is written for. They are not part *)
(* of src/: what they may do is what the source's handlers and the order   *)
(* of M1 to M16 expect of them. A dongle answers the requests it receives  *)
(* in order, well or not, asks for what it may ask for, and leaves when it *)
(* likes or not at all.                                                    *)
(***************************************************************************)
EXTENDS WifiDisplaySource

CONSTANTS
  MaxRequests,    \* bound: messages a dongle sends unasked
  MaxQueue        \* bound: dongles wait while so many messages of theirs are queued

ASSUME DongleAssumption == MaxRequests \in Nat /\ MaxQueue \in Nat \ {0}

Backlog == Len(SelectSeq(queue, LAMBDA m : m.session # 0))

(* It connects, from another host or from this one.                        *)
DongleConnects(s) ==
  /\ aborted = "no"
  /\ mSessionID /\ Backlog < MaxQueue
  /\ dongle[s] = "absent" /\ \A r \in SessionIDs : r < s => dongle[r] # "absent"
  /\ live' = live \cup {s}
  /\ \E from \in {"remote", "local"} :
       /\ Post(s, "ClientConnected", from)
       /\ dongle' = [dongle EXCEPT ![s] = IF from = "local" THEN "gone" ELSE "on"]
  /\ UNCHANGED <<source, sent, asked>>

(* It receives a message: a request is answered.                           *)
DongleReceives(s) ==
  /\ aborted = "no" /\ dongle[s] # "gone"
  /\ sent[s] # << >> /\ Backlog < MaxQueue
  /\ sent' = [sent EXCEPT ![s] = Tail(@)]
  /\ LET msg == Head(sent[s])
     IN  /\ dongle' = [dongle EXCEPT ![s] =
                         CASE msg = Ask("M1")   -> "greeted"
                           [] msg = Ask("M5")   -> "triggered"
                           [] msg = Ok("SETUP") -> "set up"
                           [] OTHER             -> @]
         /\ IF msg[1] = "ask" /\ s \in live
              THEN \E status \in {"ok", "refused"} : Post(s, "Data", <<status, msg[2]>>)
              ELSE UNCHANGED queue
  /\ UNCHANGED <<source, live, asked>>

(* What it may send unasked now. It may repeat its answer to M1.           *)
MaySend(s) ==
  CASE dongle[s] = "greeted"   -> IF asked[s] = 0 THEN {Ask("OPTIONS"), Ok("M1")} ELSE {}
    [] dongle[s] = "triggered" -> {Ask("SETUP")}
    [] dongle[s] = "set up"    -> {Ask(req) : req \in {"PLAY", "TEARDOWN"} \cup Lifesigns}
    [] OTHER                   -> {}

DongleSends(s) ==
  /\ aborted = "no" /\ s \in live
  /\ asked[s] < MaxRequests /\ Backlog < MaxQueue
  /\ \E msg \in MaySend(s) : Post(s, "Data", msg)
  /\ asked' = [asked EXCEPT ![s] = @ + 1]
  /\ UNCHANGED <<source, live, sent, dongle>>

(* The connection breaks.                                                  *)
DongleLeaves(s) ==
  /\ aborted = "no" /\ s \in live /\ dongle[s] # "gone"
  /\ Backlog < MaxQueue
  /\ Post(s, "Error", "")
  /\ dongle' = [dongle EXCEPT ![s] = "gone"]
  /\ UNCHANGED <<source, live, sent, asked>>

DongleNext == \E s \in SessionIDs :
  \/ DongleConnects(s)
  \/ DongleReceives(s)
  \/ DongleSends(s)
  \/ DongleLeaves(s)

Next == (SourceNext /\ UNCHANGED peer) \/ DongleNext

Spec == Init /\ [][Next]_<<vars, peer>>

(* Nothing is assumed of dongles.                                          *)
FairSpec == Spec /\ SourceFairness

=============================================================================
