------------------------ MODULE WifiDisplayController ------------------------
(***************************************************************************)
(* WifiDisplayController.java: finds displays, connects to the one the     *)
(* user wants over Wi-Fi Direct, listens for its RTSP connection, and      *)
(* retries or gives up. Everything runs on one handler thread; a handler,  *)
(* a callback or a runnable is one step.                                   *)
(*                                                                         *)
(* The code tells connection attempts apart by the identity of the         *)
(* WifiP2pDevice object: an object is <<address, number>>, a new one has a *)
(* number never used before.                                               *)
(*                                                                         *)
(* "link" is the object's state about the connection, and what is under    *)
(* way for it, as one record, since updateConnection passes over all of it *)
(* and is called in the middle of other handlers. "wfd" and "scan" are the *)
(* state about the feature and about discovery.                            *)
(*                                                                         *)
(* Outside src/: WifiP2pManager answers each call once, at any later time  *)
(* and in any order; broadcasts come at any time and say anything. The     *)
(* listener is told by runnables that change nothing here, in the order    *)
(* they are posted: the model tells it at once.                            *)
(***************************************************************************)
EXTENDS Integers, FiniteSets

CONSTANTS
  Devices,        \* addresses of devices
  null,
  MaxRetries,     \* CONNECT_MAX_RETRIES = 3
  ScanRetries,    \* DISCOVER_PEERS_MAX_RETRIES = 10
  Plans           \* bounds: how often users and framework act, see Planned

ASSUME DevicesAssumption == null \notin Devices /\ null \notin Devices \X Nat
ASSUME RetriesAssumption == MaxRetries \in Nat /\ ScanRetries \in Nat

(* up: whether the feature is enabled and the peers are known at first.    *)
PlanType == [up : BOOLEAN, requests : Nat, broadcasts : Nat, scans : Nat,
             toggles : Nat]
ASSUME PlansAssumption == Plans \subseteq PlanType

Objects == Devices \X Nat
Address(o) == o[1]
Known == Objects \cup {null}

VARIABLES
  link,      \* the connection, see LinkType
  wfd,       \* the feature, see WfdType
  scan,      \* discovery, see ScanType
  plan       \* what users and framework may still do

vars == <<link, wfd, scan, plan>>

Calls == [op : {"connect", "removeGroup", "cancelConnect"}, device : Objects,
          attempt : Nat]

LinkType ==
  [mDesiredDevice : Known, mConnectingDevice : Known, mCancelingDevice : Known,
   mDisconnectingDevice : Known, mConnectedDevice : Known,
   mConnectionRetriesLeft : 0..MaxRetries,
   mRemoteDisplay : Known,         \* the device its listener was made for
   mRemoteDisplayConnected : BOOLEAN, mRemoteSubmixOn : BOOLEAN,
   mAdvertisedDisplay : Devices \cup {null}, mAdvertisedSurface : BOOLEAN,
   calls : SUBSET Calls,           \* of WifiP2pManager, not answered yet
   groupInfos : Nat,               \* requestGroupInfo, not answered yet
   connectionTimeouts : SUBSET Nat,\* mConnectionTimeout posted, for which attempt
   rtspTimeouts : Nat,             \* mRtspTimeout posted
   retries : SUBSET Objects,       \* retries posted, with their oldDevice
   numbered : Nat,                 \* highest number of an object
   display : Devices \cup {null},  \* what the listener was told:
   connected : BOOLEAN,            \*   which display, whether it is connected
   attempt : Nat,                  \* history: how often connect was called
   failed : BOOLEAN]               \* history: the last attempt has failed

WfdType ==
  [mWifiP2pEnabled : BOOLEAN, mWifiDisplayOnSetting : BOOLEAN,
   mWfdEnabled : BOOLEAN, mWfdEnabling : BOOLEAN,
   calls : Nat]                    \* setWFDInfo, not answered yet

Ends == {"no", "stopped", "cut short"}

ScanType ==
  [mAvailableWifiDisplayPeers : SUBSET Objects,
   mDiscoverPeersInProgress : BOOLEAN,
   mDiscoverPeersRetriesLeft : 0..ScanRetries,
   discovers : Nat, stops : Nat, peers : Nat,  \* calls not answered yet
   retries : Nat,                  \* retries posted
   scanning : BOOLEAN,             \* listener: a scan is started, not finished
   asked : BOOLEAN,                \* history: requestStopScan since it started
   ended : Ends]                   \* history: by which stop, if by one

Planned(what) == plan[what] > 0
Spend(what) == plan' = [plan EXCEPT ![what] = @ - 1]

NoLink ==
  [mDesiredDevice |-> null, mConnectingDevice |-> null,
   mCancelingDevice |-> null, mDisconnectingDevice |-> null,
   mConnectedDevice |-> null, mConnectionRetriesLeft |-> 0,
   mRemoteDisplay |-> null, mRemoteDisplayConnected |-> FALSE,
   mRemoteSubmixOn |-> FALSE, mAdvertisedDisplay |-> null,
   mAdvertisedSurface |-> FALSE, calls |-> {}, groupInfos |-> 0,
   connectionTimeouts |-> {}, rtspTimeouts |-> 0, retries |-> {},
   numbered |-> 0, display |-> null, connected |-> FALSE, attempt |-> 0,
   failed |-> FALSE]

Init ==
  /\ plan \in Plans
  /\ link = NoLink
  /\ wfd = [mWifiP2pEnabled |-> plan.up, mWifiDisplayOnSetting |-> plan.up,
            mWfdEnabled |-> plan.up, mWfdEnabling |-> FALSE, calls |-> 0]
  /\ scan = [mAvailableWifiDisplayPeers |->
               IF plan.up THEN {<<d, 0>> : d \in Devices} ELSE {},
             mDiscoverPeersInProgress |-> FALSE, mDiscoverPeersRetriesLeft |-> 0,
             discovers |-> 0, stops |-> 0, peers |-> 0, retries |-> 0,
             scanning |-> FALSE, asked |-> FALSE, ended |-> "no"]

-----------------------------------------------------------------------------
(* The listener                                                            *)

(* Fault: the display is announced only when its surface is there.         *)
AdvertiseLate(c, d, surface) ==
  [c EXCEPT !.mAdvertisedDisplay = d, !.mAdvertisedSurface = surface,
            !.display = IF surface THEN d ELSE null, !.connected = surface]

(* advertiseDisplay, with the calls of the listener its runnable makes. A  *)
(* display has no other property than its address here.                    *)
AdvertiseDisplay(c, d, surface) ==
  LET oldD == c.mAdvertisedDisplay
      gone == c.mAdvertisedSurface /\ ~surface
      kept == ~gone /\ oldD \in {null, d}
      now  == IF d # null /\ d # oldD THEN d ELSE IF kept THEN c.display ELSE null
  IN  IF oldD = d /\ c.mAdvertisedSurface = surface THEN c
      ELSE [c EXCEPT !.mAdvertisedDisplay = d, !.mAdvertisedSurface = surface,
              !.display = now,
              !.connected = \/ ~gone /\ c.connected
                            \/ d # null /\ surface /\ ~c.mAdvertisedSurface]

UnadvertiseDisplay(c) == AdvertiseDisplay(c, null, FALSE)

-----------------------------------------------------------------------------
(* updateConnection                                                        *)

Call(c, op, o) == [op |-> op, device |-> o, attempt |-> c.attempt]

(* Step 1. A display is listened to and its device is not wanted any more. *)
StopListening(c) ==
  IF c.mRemoteDisplay # null /\ c.mConnectedDevice # c.mDesiredDevice
    THEN UnadvertiseDisplay(
           [c EXCEPT !.mRemoteDisplay = null, !.mRemoteDisplayConnected = FALSE,
                     !.rtspTimeouts = 0, !.mRemoteSubmixOn = FALSE])
    ELSE c

(* Step 2, with no disconnection under way.                                *)
RemoveGroup(c) ==
  UnadvertiseDisplay(
    [c EXCEPT !.mDisconnectingDevice = c.mConnectedDevice,
              !.mConnectedDevice = null,
              !.calls = @ \cup {Call(c, "removeGroup", c.mConnectedDevice)}])

(* Fault: the device being cancelled keeps its old role as well.           *)
CancelConnectKept(c) ==
  UnadvertiseDisplay(
    [c EXCEPT !.mCancelingDevice = c.mConnectingDevice,
              !.connectionTimeouts = {},
              !.calls = @ \cup {Call(c, "cancelConnect", c.mConnectingDevice)}])

(* Step 3, with no cancellation under way.                                 *)
CancelConnect(c) ==
  UnadvertiseDisplay(
    [c EXCEPT !.mCancelingDevice = c.mConnectingDevice,
              !.mConnectingDevice = null,
              !.connectionTimeouts = {},
              !.calls = @ \cup {Call(c, "cancelConnect", c.mConnectingDevice)}])

(* Steps 1 to 4: let go of what is not wanted.                             *)
LetGo(c0) ==
  LET c == StopListening(c0)
  IN  IF c.mDisconnectingDevice # null THEN c
      ELSE IF c.mConnectedDevice \notin {null, c.mDesiredDevice}
        THEN RemoveGroup(c)
      ELSE IF c.mCancelingDevice # null THEN c
      ELSE IF c.mConnectingDevice \notin {null, c.mDesiredDevice}
        THEN CancelConnect(c)
      ELSE IF c.mDesiredDevice = null THEN UnadvertiseDisplay(c)
      ELSE c

(* One of steps 2 to 4 has returned.                                       *)
Settled(c) ==
  \/ c.mDisconnectingDevice # null
  \/ c.mCancelingDevice # null
  \/ c.mDesiredDevice = null

Disconnect(c) == LetGo([c EXCEPT !.mDesiredDevice = null])

(* Fault: retries are posted when none is left.                            *)
RetryForever(c, attempt) ==
  IF c.mDesiredDevice = null THEN c
  ELSE [c EXCEPT !.failed = @ \/ attempt = c.attempt,
                 !.retries = @ \cup {c.mDesiredDevice}]

(* handleConnectionFailure, of the last attempt or an earlier one: a retry *)
(* is posted for the device that is wanted now.                            *)
HandleConnectionFailure(c, attempt) ==
  LET told == [c EXCEPT !.failed = @ \/ attempt = c.attempt]
  IN  IF c.mDesiredDevice = null THEN told
      ELSE IF c.mConnectionRetriesLeft > 0
        THEN [told EXCEPT !.retries = @ \cup {c.mDesiredDevice}]
        ELSE Disconnect(told)

(* Step 5.                                                                 *)
Connect(c0) ==
  LET c == [c0 EXCEPT !.attempt = @ + 1, !.failed = FALSE]
  IN  AdvertiseDisplay(
        [c EXCEPT !.mConnectingDevice = c.mDesiredDevice,
                  !.calls = @ \cup {Call(c, "connect", c.mDesiredDevice)}],
        Address(c.mDesiredDevice), FALSE)

(* Step 6; hasAddress: whether getInterfaceAddress finds one.              *)
Listen(c, hasAddress) ==
  IF hasAddress
    THEN [c EXCEPT !.mRemoteSubmixOn = TRUE,
                   !.mRemoteDisplay = c.mConnectedDevice,
                   !.rtspTimeouts = @ + 1]
    ELSE HandleConnectionFailure(c, c.attempt)

UpdateConnection(c0, hasAddress) ==
  LET c == LetGo(c0)
  IN  IF Settled(c) THEN c
      ELSE IF c.mConnectedDevice = null /\ c.mConnectingDevice = null
        THEN Connect(c)
      ELSE IF c.mConnectedDevice # null /\ c.mRemoteDisplay = null
        THEN Listen(c, hasAddress)
      ELSE c


-----------------------------------------------------------------------------
(* The user, through requestConnect and requestDisconnect                  *)

(* connect(): nothing to do while another device is wanted, or while       *)
(* another is still connected and none is wanted.                          *)
RequestConnect(o, hasAddress) ==
  /\ Planned("requests") /\ Spend("requests")
  /\ o \in scan.mAvailableWifiDisplayPeers
  /\ link' = IF \/ /\ link.mDesiredDevice # null
                  /\ Address(link.mDesiredDevice) # Address(o)
               \/ /\ link.mDesiredDevice = null
                  /\ link.mConnectedDevice # null
                  /\ Address(link.mConnectedDevice) # Address(o)
              THEN link
              ELSE UpdateConnection(
                     [link EXCEPT !.mDesiredDevice = o, !.mConnectionRetriesLeft = MaxRetries],
                     hasAddress)
  /\ UNCHANGED <<wfd, scan>>

RequestDisconnect ==
  /\ Planned("requests") /\ Spend("requests")
  /\ link' = Disconnect(link)
  /\ UNCHANGED <<wfd, scan>>

-----------------------------------------------------------------------------
(* Answers of WifiP2pManager about the connection                          *)

Answered(c, call) == [c EXCEPT !.calls = @ \ {call}]

(* next() of removeGroup, which does not ask how it went.                  *)
OnRemoveGroup(call, hasAddress) ==
  /\ call \in link.calls /\ call.op = "removeGroup"
  /\ LET c == Answered(link, call)
     IN  link' = IF c.mDisconnectingDevice = call.device
                 THEN UpdateConnection([c EXCEPT !.mDisconnectingDevice = null],
                                       hasAddress)
                 ELSE c
  /\ UNCHANGED <<wfd, scan, plan>>

(* next() of cancelConnect.                                                *)
OnCancelConnect(call, hasAddress) ==
  /\ call \in link.calls /\ call.op = "cancelConnect"
  /\ LET c == Answered(link, call)
     IN  link' = IF c.mCancelingDevice = call.device
                 THEN UpdateConnection([c EXCEPT !.mCancelingDevice = null],
                                       hasAddress)
                 ELSE c
  /\ UNCHANGED <<wfd, scan, plan>>

(* onSuccess of connect posts the time limit, whatever is wanted by now.   *)
OnConnectSuccess(call) ==
  /\ call \in link.calls /\ call.op = "connect"
  /\ link' = [Answered(link, call) EXCEPT !.connectionTimeouts = @ \cup {call.attempt}]
  /\ UNCHANGED <<wfd, scan, plan>>

OnConnectFailure(call) ==
  /\ call \in link.calls /\ call.op = "connect"
  /\ LET c == Answered(link, call)
     IN  link' = IF c.mConnectingDevice = call.device
                 THEN HandleConnectionFailure(
                        [c EXCEPT !.mConnectingDevice = null], call.attempt)
                 ELSE c
  /\ UNCHANGED <<wfd, scan, plan>>

-----------------------------------------------------------------------------
(* WIFI_P2P_CONNECTION_CHANGED_ACTION                                      *)

(* handleConnectionChanged. With no device wanted a connection was made by *)
(* the other side, and the player is sent an intent: nothing changes here. *)
HandleConnectionChanged(isConnected) ==
  /\ Planned("broadcasts") /\ Spend("broadcasts")
  /\ IF wfd.mWfdEnabled /\ isConnected
       THEN /\ link' = IF link.mDesiredDevice = null THEN link
                       ELSE [link EXCEPT !.groupInfos = @ + 1]
            /\ UNCHANGED scan
       ELSE /\ link' = Disconnect(link)
            /\ scan' = IF wfd.mWfdEnabled THEN [scan EXCEPT !.peers = @ + 1]
                                          ELSE scan
  /\ UNCHANGED wfd

(* onGroupInfoAvailable: the group has the given members.                  *)
OnGroupInfoAvailable(members, hasAddress) ==
  /\ link.groupInfos > 0
  /\ LET c == [link EXCEPT !.groupInfos = @ - 1]
         Absent(o) == o # null /\ Address(o) \notin members
     IN  link' = IF Absent(c.mConnectingDevice)
                   THEN HandleConnectionFailure(c, c.attempt)
                 ELSE IF Absent(c.mDesiredDevice) THEN Disconnect(c)
                 ELSE IF /\ c.mConnectingDevice # null
                         /\ c.mConnectingDevice = c.mDesiredDevice
                   THEN UpdateConnection(
                          [c EXCEPT !.connectionTimeouts = {},
                                    !.mConnectedDevice = c.mConnectingDevice,
                                    !.mConnectingDevice = null], hasAddress)
                 ELSE c
  /\ UNCHANGED <<wfd, scan, plan>>

-----------------------------------------------------------------------------
(* Time limits and retries                                                 *)

(* mConnectionTimeout, posted for an attempt.                               *)
ConnectionTimeout(attempt) ==
  /\ attempt \in link.connectionTimeouts
  /\ LET c == [link EXCEPT !.connectionTimeouts = @ \ {attempt}]
     IN  link' = IF c.mConnectingDevice # null
                    /\ c.mConnectingDevice = c.mDesiredDevice
                 THEN HandleConnectionFailure(c, attempt) ELSE c
  /\ UNCHANGED <<wfd, scan, plan>>

(* mRtspTimeout.                                                           *)
RtspTimeout ==
  /\ link.rtspTimeouts > 0
  /\ LET c == [link EXCEPT !.rtspTimeouts = @ - 1]
     IN  link' = IF /\ c.mConnectedDevice # null
                    /\ c.mRemoteDisplay # null /\ ~c.mRemoteDisplayConnected
                 THEN HandleConnectionFailure(c, c.attempt) ELSE c
  /\ UNCHANGED <<wfd, scan, plan>>

(* The runnable handleConnectionFailure posts, with retryConnection: a new *)
(* object for the same device, so that everything is torn down.            *)
RetryConnection(oldDevice, hasAddress) ==
  /\ oldDevice \in link.retries
  /\ LET c == [link EXCEPT !.retries = @ \ {oldDevice}]
         copy == <<Address(oldDevice), c.numbered + 1>>
     IN  link' = IF c.mDesiredDevice = oldDevice /\ c.mConnectionRetriesLeft > 0
                 THEN UpdateConnection(
                        [c EXCEPT !.mDesiredDevice = copy, !.numbered = @ + 1,
                                   !.mConnectionRetriesLeft = @ - 1],
                        hasAddress)
                 ELSE c
  /\ UNCHANGED <<wfd, scan, plan>>

-----------------------------------------------------------------------------
(* RemoteDisplay.Listener                                                  *)

OnDisplayConnected ==
  /\ link.mRemoteDisplay # null
  /\ link.mConnectedDevice = link.mRemoteDisplay /\ ~link.mRemoteDisplayConnected
  /\ link' = AdvertiseDisplay(
                [link EXCEPT !.mRemoteDisplayConnected = TRUE, !.rtspTimeouts = 0],
                Address(link.mConnectedDevice), TRUE)
  /\ UNCHANGED <<wfd, scan, plan>>

OnDisplayDisconnected ==
  /\ link.mRemoteDisplay # null
  /\ link.mConnectedDevice = link.mRemoteDisplay
  /\ link' = Disconnect([link EXCEPT !.rtspTimeouts = 0])
  /\ UNCHANGED <<wfd, scan, plan>>

OnDisplayError ==
  /\ link.mRemoteDisplay # null
  /\ link.mConnectedDevice = link.mRemoteDisplay
  /\ link' = HandleConnectionFailure([link EXCEPT !.rtspTimeouts = 0], link.attempt)
  /\ UNCHANGED <<wfd, scan, plan>>

-----------------------------------------------------------------------------
(* The feature                                                             *)

(* updateWfdEnableState, with the two conditions it reads.                 *)
UpdateWfdEnableState(on, enabled) ==
  LET w == [wfd EXCEPT !.mWifiDisplayOnSetting = on, !.mWifiP2pEnabled = enabled]
  IN  IF on /\ enabled
        THEN /\ wfd' = IF w.mWfdEnabled \/ w.mWfdEnabling THEN w
                       ELSE [w EXCEPT !.mWfdEnabling = TRUE, !.calls = @ + 1]
             /\ UNCHANGED link
        ELSE /\ wfd' = [w EXCEPT !.mWfdEnabling = FALSE, !.mWfdEnabled = FALSE]
             /\ link' = Disconnect(link)

(* The settings observer; handleStateChanged.                              *)
UpdateSettings(on) ==
  /\ Planned("toggles") /\ Spend("toggles")
  /\ UpdateWfdEnableState(on, wfd.mWifiP2pEnabled)
  /\ UNCHANGED scan

HandleStateChanged(enabled) ==
  /\ Planned("toggles") /\ Spend("toggles")
  /\ UpdateWfdEnableState(wfd.mWifiDisplayOnSetting, enabled)
  /\ UNCHANGED scan

(* Answers to setWFDInfo, which do not say which call they answer.         *)
OnSetWfdInfoSuccess ==
  /\ wfd.calls > 0
  /\ wfd' = [wfd EXCEPT !.calls = @ - 1, !.mWfdEnabling = FALSE,
                        !.mWfdEnabled = @ \/ wfd.mWfdEnabling]
  /\ UNCHANGED <<link, scan, plan>>

OnSetWfdInfoFailure ==
  /\ wfd.calls > 0
  /\ wfd' = [wfd EXCEPT !.calls = @ - 1, !.mWfdEnabling = FALSE]
  /\ UNCHANGED <<link, scan, plan>>

-----------------------------------------------------------------------------
(* Discovery                                                               *)

(* The end of a scan as far as the listener is told: handleScanFinished    *)
(* with mDiscoverPeersInProgress = false.                                  *)
GiveUpScan(s) == [s EXCEPT !.scanning = FALSE, !.mDiscoverPeersInProgress = FALSE]

(* discoverPeers.                                                          *)
RequestScan ==
  /\ Planned("scans") /\ Spend("scans")
  /\ scan' = IF scan.mDiscoverPeersInProgress THEN scan
             ELSE [scan EXCEPT !.mDiscoverPeersInProgress = TRUE,
                               !.mDiscoverPeersRetriesLeft = ScanRetries,
                               !.scanning = TRUE, !.asked = FALSE,
                               !.ended = "no", !.discovers = @ + 1]
  /\ UNCHANGED <<link, wfd>>

(* stopDiscoverPeers.                                                      *)
RequestStopScan ==
  /\ Planned("scans") /\ Spend("scans")
  /\ scan' = [scan EXCEPT !.stops = @ + 1, !.asked = TRUE]
  /\ UNCHANGED <<link, wfd>>

OnDiscoverSuccess ==
  /\ scan.discovers > 0
  /\ scan' = [scan EXCEPT !.discovers = @ - 1, !.peers = @ + 1,
                          !.mDiscoverPeersInProgress = FALSE]
  /\ UNCHANGED <<link, wfd, plan>>

(* isError: reason 0, for which it is worth trying again.                  *)
OnDiscoverFailure(isError) ==
  /\ scan.discovers > 0
  /\ LET s == [scan EXCEPT !.discovers = @ - 1]
     IN  scan' = IF ~s.mDiscoverPeersInProgress THEN s
                 ELSE IF isError /\ s.mDiscoverPeersRetriesLeft > 0 /\ wfd.mWfdEnabled
                   THEN [s EXCEPT !.retries = @ + 1]
                   ELSE GiveUpScan(s)
  /\ UNCHANGED <<link, wfd, plan>>

(* Fault: the retry that finds no retries left says nothing.               *)
RetryDiscoverSilently ==
  /\ scan.retries > 0
  /\ LET s == [scan EXCEPT !.retries = @ - 1]
     IN  scan' = IF ~s.mDiscoverPeersInProgress THEN s
                 ELSE IF s.mDiscoverPeersRetriesLeft > 0 /\ wfd.mWfdEnabled
                   THEN [s EXCEPT !.mDiscoverPeersRetriesLeft = @ - 1,
                                  !.discovers = @ + 1]
                   ELSE [s EXCEPT !.mDiscoverPeersInProgress = FALSE]
  /\ UNCHANGED <<link, wfd, plan>>

(* The retry that onFailure posts.                                         *)
RetryDiscover ==
  /\ scan.retries > 0
  /\ LET s == [scan EXCEPT !.retries = @ - 1]
     IN  scan' = IF ~s.mDiscoverPeersInProgress THEN s
                 ELSE IF s.mDiscoverPeersRetriesLeft > 0 /\ wfd.mWfdEnabled
                   THEN [s EXCEPT !.mDiscoverPeersRetriesLeft = @ - 1,
                                  !.discovers = @ + 1]
                   ELSE GiveUpScan(s)
  /\ UNCHANGED <<link, wfd, plan>>

(* The answer to stopPeerDiscovery, with success or without. It names no   *)
(* scan: one that was asked for before this scan began cuts it short.      *)
OnStopPeerDiscovery(success) ==
  /\ scan.stops > 0
  /\ scan' = [scan EXCEPT
       !.stops = @ - 1,
       !.mDiscoverPeersInProgress = @ /\ ~success,
       !.ended = IF ~(success /\ scan.mDiscoverPeersInProgress) THEN @
                 ELSE IF scan.asked THEN "stopped" ELSE "cut short"]
  /\ UNCHANGED <<link, wfd, plan>>

(* WIFI_P2P_PEERS_CHANGED_ACTION: requestPeers.                            *)
HandlePeersChanged ==
  /\ Planned("broadcasts") /\ Spend("broadcasts")
  /\ scan' = [scan EXCEPT !.peers = @ + 1]
  /\ UNCHANGED <<link, wfd>>

(* onPeersAvailable: new objects for the displays among the peers. The     *)
(* device wanted is updated in place.                                      *)
OnPeersAvailable(found) ==
  /\ scan.peers > 0
  /\ scan' = [scan EXCEPT !.peers = @ - 1, !.scanning = FALSE,
                          !.mAvailableWifiDisplayPeers =
                             {<<d, link.numbered + 1>> : d \in found}]
  /\ link' = [link EXCEPT !.numbered = @ + 1]
  /\ UNCHANGED <<wfd, plan>>

-----------------------------------------------------------------------------
ConnectAnswered ==
  \E call \in link.calls : OnConnectSuccess(call) \/ OnConnectFailure(call)
RemoveGroupAnswered ==
  \E call \in link.calls, hasAddress \in BOOLEAN : OnRemoveGroup(call, hasAddress)
CancelConnectAnswered ==
  \E call \in link.calls, hasAddress \in BOOLEAN : OnCancelConnect(call, hasAddress)
GroupInfoAnswered ==
  \E members \in SUBSET Devices, hasAddress \in BOOLEAN :
    OnGroupInfoAvailable(members, hasAddress)
Retried ==
  \E o \in link.retries, hasAddress \in BOOLEAN : RetryConnection(o, hasAddress)
TimedOut == \E w \in link.connectionTimeouts : ConnectionTimeout(w)

RequestsAndBroadcasts ==
  \/ \E o \in scan.mAvailableWifiDisplayPeers, hasAddress \in BOOLEAN :
       RequestConnect(o, hasAddress)
  \/ RequestDisconnect
  \/ \E isConnected \in BOOLEAN : HandleConnectionChanged(isConnected)
  \/ \E on \in BOOLEAN : UpdateSettings(on)
  \/ \E enabled \in BOOLEAN : HandleStateChanged(enabled)
  \/ RequestScan
  \/ RequestStopScan
  \/ HandlePeersChanged

DisplayEvents == OnDisplayConnected \/ OnDisplayDisconnected \/ OnDisplayError

WfdAnswers == OnSetWfdInfoSuccess \/ OnSetWfdInfoFailure

DiscoverAnswered ==
  OnDiscoverSuccess \/ \E isError \in BOOLEAN : OnDiscoverFailure(isError)
StopAnswered == \E success \in BOOLEAN : OnStopPeerDiscovery(success)
PeersAnswered == \E found \in SUBSET Devices : OnPeersAvailable(found)

Next ==
  \/ RequestsAndBroadcasts
  \/ ConnectAnswered \/ RemoveGroupAnswered \/ CancelConnectAnswered
  \/ GroupInfoAnswered \/ TimedOut \/ RtspTimeout \/ Retried
  \/ DisplayEvents
  \/ WfdAnswers
  \/ DiscoverAnswered \/ RetryDiscover \/ StopAnswered \/ PeersAnswered

(* The framework answers every call, and the handler delivers what was     *)
(* posted when it is due. Of users, devices and broadcasts nothing is      *)
(* assumed.                                                                *)
Fairness ==
  /\ WF_vars(ConnectAnswered) /\ WF_vars(RemoveGroupAnswered)
  /\ WF_vars(CancelConnectAnswered) /\ WF_vars(TimedOut)
  /\ WF_vars(RtspTimeout) /\ WF_vars(Retried)
  /\ WF_vars(DiscoverAnswered) /\ WF_vars(RetryDiscover)
  /\ WF_vars(PeersAnswered)

Spec == Init /\ [][Next]_vars /\ Fairness

-----------------------------------------------------------------------------
(* Properties                                                              *)

TypeOK ==
  /\ link \in LinkType
  /\ wfd \in WfdType
  /\ scan \in ScanType
  /\ plan \in PlanType

(* One device has one role: at any time at most one device is connecting,  *)
(* connected, being cancelled or being disconnected; and between handlers  *)
(* what is connecting or connected is the very object wanted.              *)
Roles(c) ==
  {<<"connecting", c.mConnectingDevice>>, <<"connected", c.mConnectedDevice>>,
   <<"canceling", c.mCancelingDevice>>, <<"disconnecting", c.mDisconnectingDevice>>}

OneRole(c) ==
  /\ \A r, q \in Roles(c) : r[2] # null /\ q[2] # null => r = q
  /\ c.mConnectingDevice \in {null, c.mDesiredDevice}
  /\ c.mConnectedDevice \in {null, c.mDesiredDevice}

(* The display listened to is that of the connected device, the sound goes *)
(* to the submix while it is, and only then may the RTSP time limit run.   *)
DisplayIsOfConnected(c) ==
  /\ c.mRemoteDisplay \in {null, c.mConnectedDevice}
  /\ c.mRemoteSubmixOn <=> c.mRemoteDisplay # null
  /\ c.mRemoteDisplayConnected => c.mRemoteDisplay # null
  /\ \/ c.rtspTimeouts = 0
     \/ c.rtspTimeouts = 1 /\ c.mRemoteDisplay # null

(* What is advertised is the device wanted, from connect() on until it is  *)
(* let go of, with its surface exactly while its RTSP connection is open;  *)
(* and the listener knows just that.                                       *)
AdvertisedIsWanted(c) ==
  /\ c.mAdvertisedDisplay # null =>
       /\ c.mDesiredDevice # null
       /\ Address(c.mDesiredDevice) = c.mAdvertisedDisplay
       /\ c.mCancelingDevice = null /\ c.mDisconnectingDevice = null
  /\ c.mConnectingDevice # null \/ c.mConnectedDevice # null =>
       c.mAdvertisedDisplay # null
  /\ c.mAdvertisedSurface = c.mRemoteDisplayConnected
  /\ c.display = c.mAdvertisedDisplay
  /\ c.connected = c.mAdvertisedSurface

(* The feature is on only while it may be, and what is in progress waits   *)
(* for an answer or a retry that is on its way.                            *)
FeatureIsAllowed ==
  /\ wfd.mWfdEnabled \/ wfd.mWfdEnabling =>
       wfd.mWifiP2pEnabled /\ wfd.mWifiDisplayOnSetting
  /\ ~(wfd.mWfdEnabled /\ wfd.mWfdEnabling)
  /\ wfd.mWfdEnabling => wfd.calls > 0

ScanGoesOn ==
  scan.mDiscoverPeersInProgress => scan.discovers + scan.retries > 0

(* All of it: no two roles, no display without its device, no announcement *)
(* of what is not wanted, and nothing in progress that nobody ends.        *)
Consistent ==
  /\ OneRole(link) /\ DisplayIsOfConnected(link) /\ AdvertisedIsWanted(link)
  /\ FeatureIsAllowed /\ ScanGoesOn

(* The listener is told what WifiDisplayController.Listener promises.      *)
Told == INSTANCE DisplayListener WITH
          display <- link.display, connected <- link.connected
ToldInOrder == Told!Spec

(* A wish for a display is settled: it is connected, or it is given up     *)
(* after the retries; and once nothing is wanted, everything is let go of  *)
(* and the listener knows.                                                 *)
Idle ==
  /\ \A r \in Roles(link) : r[2] = null
  /\ link.mRemoteDisplay = null /\ link.display = null

WishesAreSettled ==
  /\ link.mDesiredDevice # null ~>
       link.mDesiredDevice = null \/ link.mRemoteDisplayConnected
  /\ link.mDesiredDevice = null ~> link.mDesiredDevice # null \/ Idle

(* A scan of which the listener knows ends for it, with all its retries,   *)
(* unless a stop asked for since has succeeded, or one asked for before it *)
(* began has cut it short (WifiDisplayController.java:390-400): those two  *)
(* are never told to be finished, and no third way leaves a scan so.       *)
ScanIsFinished ==
  scan.scanning ~>
    \/ ~scan.scanning
    \/ scan.ended = "stopped"
    \/ scan.ended = "cut short"

(* A retry tears down only an attempt that has failed itself ("so that we  *)
(* can distinguish it from the previous connection attempt",               *)
(* WifiDisplayController.java:510-511).                                    *)
RetriedForItsOwnFailure ==
  [][ link'.mConnectionRetriesLeft < link.mConnectionRetriesLeft
      => link.failed ]_vars
=============================================================================
