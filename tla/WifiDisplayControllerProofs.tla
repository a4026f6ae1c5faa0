--------------------- MODULE WifiDisplayControllerProofs ---------------------
(***************************************************************************)
(* Proofs about WifiDisplayController: for every set of devices, every     *)
(* number of retries and every plan of what users and framework do.        *)
(***************************************************************************)
EXTENDS WifiDisplayController, TLAPS

-----------------------------------------------------------------------------
(* Types                                                                   *)

(* The address of an object is a device.                                   *)
LEMMA AddressType == ASSUME NEW o \in Objects PROVE Address(o) \in Devices
  BY DEF Objects, Address

(* null is neither an object nor an address.                               *)
LEMMA NullIsNoObject == null \notin Objects /\ null \notin Devices
  BY DevicesAssumption DEF Objects

(* The fields of a link have their types.                                  *)
LEMMA FieldValues ==
  ASSUME NEW c \in LinkType
  PROVE  /\ c.mDesiredDevice \in Known
         /\ c.mConnectingDevice \in Known
         /\ c.mCancelingDevice \in Known
         /\ c.mDisconnectingDevice \in Known
         /\ c.mConnectedDevice \in Known
         /\ c.mConnectionRetriesLeft \in 0..MaxRetries
         /\ c.mRemoteDisplay \in Known
         /\ c.mRemoteDisplayConnected \in BOOLEAN
         /\ c.mRemoteSubmixOn \in BOOLEAN
         /\ c.mAdvertisedDisplay \in Devices \cup {null}
         /\ c.mAdvertisedSurface \in BOOLEAN
         /\ c.calls \in SUBSET Calls
         /\ c.groupInfos \in Nat
         /\ c.connectionTimeouts \in SUBSET Nat
         /\ c.rtspTimeouts \in Nat
         /\ c.retries \in SUBSET Objects
         /\ c.numbered \in Nat
         /\ c.display \in Devices \cup {null}
         /\ c.connected \in BOOLEAN
         /\ c.attempt \in Nat
         /\ c.failed \in BOOLEAN
  BY DEF LinkType

(* A field that is given a value of its type leaves the link of its type.  *)
LEMMA FieldTypes ==
  \A c \in LinkType :
    /\ \A v \in Known : [c EXCEPT !.mDesiredDevice = v] \in LinkType
    /\ \A v \in Known : [c EXCEPT !.mConnectingDevice = v] \in LinkType
    /\ \A v \in Known : [c EXCEPT !.mCancelingDevice = v] \in LinkType
    /\ \A v \in Known : [c EXCEPT !.mDisconnectingDevice = v] \in LinkType
    /\ \A v \in Known : [c EXCEPT !.mConnectedDevice = v] \in LinkType
    /\ \A v \in 0..MaxRetries : [c EXCEPT !.mConnectionRetriesLeft = v] \in LinkType
    /\ \A v \in Known : [c EXCEPT !.mRemoteDisplay = v] \in LinkType
    /\ \A v \in BOOLEAN : [c EXCEPT !.mRemoteDisplayConnected = v] \in LinkType
    /\ \A v \in BOOLEAN : [c EXCEPT !.mRemoteSubmixOn = v] \in LinkType
    /\ \A v \in Devices \cup {null} : [c EXCEPT !.mAdvertisedDisplay = v] \in LinkType
    /\ \A v \in BOOLEAN : [c EXCEPT !.mAdvertisedSurface = v] \in LinkType
    /\ \A v \in SUBSET Calls : [c EXCEPT !.calls = v] \in LinkType
    /\ \A v \in Nat : [c EXCEPT !.groupInfos = v] \in LinkType
    /\ \A v \in SUBSET Nat : [c EXCEPT !.connectionTimeouts = v] \in LinkType
    /\ \A v \in Nat : [c EXCEPT !.rtspTimeouts = v] \in LinkType
    /\ \A v \in SUBSET Objects : [c EXCEPT !.retries = v] \in LinkType
    /\ \A v \in Nat : [c EXCEPT !.numbered = v] \in LinkType
    /\ \A v \in Devices \cup {null} : [c EXCEPT !.display = v] \in LinkType
    /\ \A v \in BOOLEAN : [c EXCEPT !.connected = v] \in LinkType
    /\ \A v \in Nat : [c EXCEPT !.attempt = v] \in LinkType
    /\ \A v \in BOOLEAN : [c EXCEPT !.failed = v] \in LinkType
<1> SUFFICES ASSUME NEW c \in LinkType
             PROVE  /\ \A v \in Known : [c EXCEPT !.mDesiredDevice = v] \in LinkType
                    /\ \A v \in Known : [c EXCEPT !.mConnectingDevice = v] \in LinkType
                    /\ \A v \in Known : [c EXCEPT !.mCancelingDevice = v] \in LinkType
                    /\ \A v \in Known : [c EXCEPT !.mDisconnectingDevice = v] \in LinkType
                    /\ \A v \in Known : [c EXCEPT !.mConnectedDevice = v] \in LinkType
                    /\ \A v \in 0..MaxRetries : [c EXCEPT !.mConnectionRetriesLeft = v] \in LinkType
                    /\ \A v \in Known : [c EXCEPT !.mRemoteDisplay = v] \in LinkType
                    /\ \A v \in BOOLEAN : [c EXCEPT !.mRemoteDisplayConnected = v] \in LinkType
                    /\ \A v \in BOOLEAN : [c EXCEPT !.mRemoteSubmixOn = v] \in LinkType
                    /\ \A v \in Devices \cup {null} : [c EXCEPT !.mAdvertisedDisplay = v] \in LinkType
                    /\ \A v \in BOOLEAN : [c EXCEPT !.mAdvertisedSurface = v] \in LinkType
                    /\ \A v \in SUBSET Calls : [c EXCEPT !.calls = v] \in LinkType
                    /\ \A v \in Nat : [c EXCEPT !.groupInfos = v] \in LinkType
                    /\ \A v \in SUBSET Nat : [c EXCEPT !.connectionTimeouts = v] \in LinkType
                    /\ \A v \in Nat : [c EXCEPT !.rtspTimeouts = v] \in LinkType
                    /\ \A v \in SUBSET Objects : [c EXCEPT !.retries = v] \in LinkType
                    /\ \A v \in Nat : [c EXCEPT !.numbered = v] \in LinkType
                    /\ \A v \in Devices \cup {null} : [c EXCEPT !.display = v] \in LinkType
                    /\ \A v \in BOOLEAN : [c EXCEPT !.connected = v] \in LinkType
                    /\ \A v \in Nat : [c EXCEPT !.attempt = v] \in LinkType
                    /\ \A v \in BOOLEAN : [c EXCEPT !.failed = v] \in LinkType
  OBVIOUS
<1>1. \A v \in Known : [c EXCEPT !.mDesiredDevice = v] \in LinkType
  BY Zenon DEF LinkType
<1>2. \A v \in Known : [c EXCEPT !.mConnectingDevice = v] \in LinkType
  BY Zenon DEF LinkType
<1>3. \A v \in Known : [c EXCEPT !.mCancelingDevice = v] \in LinkType
  BY Zenon DEF LinkType
<1>4. \A v \in Known : [c EXCEPT !.mDisconnectingDevice = v] \in LinkType
  BY Zenon DEF LinkType
<1>5. \A v \in Known : [c EXCEPT !.mConnectedDevice = v] \in LinkType
  BY Zenon DEF LinkType
<1>6. \A v \in 0..MaxRetries : [c EXCEPT !.mConnectionRetriesLeft = v] \in LinkType
  BY Zenon DEF LinkType
<1>7. \A v \in Known : [c EXCEPT !.mRemoteDisplay = v] \in LinkType
  BY Zenon DEF LinkType
<1>8. \A v \in BOOLEAN : [c EXCEPT !.mRemoteDisplayConnected = v] \in LinkType
  BY Zenon DEF LinkType
<1>9. \A v \in BOOLEAN : [c EXCEPT !.mRemoteSubmixOn = v] \in LinkType
  BY Zenon DEF LinkType
<1>10. \A v \in Devices \cup {null} : [c EXCEPT !.mAdvertisedDisplay = v] \in LinkType
  BY Zenon DEF LinkType
<1>11. \A v \in BOOLEAN : [c EXCEPT !.mAdvertisedSurface = v] \in LinkType
  BY Zenon DEF LinkType
<1>12. \A v \in SUBSET Calls : [c EXCEPT !.calls = v] \in LinkType
  BY Zenon DEF LinkType
<1>13. \A v \in Nat : [c EXCEPT !.groupInfos = v] \in LinkType
  BY Zenon DEF LinkType
<1>14. \A v \in SUBSET Nat : [c EXCEPT !.connectionTimeouts = v] \in LinkType
  BY Zenon DEF LinkType
<1>15. \A v \in Nat : [c EXCEPT !.rtspTimeouts = v] \in LinkType
  BY Zenon DEF LinkType
<1>16. \A v \in SUBSET Objects : [c EXCEPT !.retries = v] \in LinkType
  BY Zenon DEF LinkType
<1>17. \A v \in Nat : [c EXCEPT !.numbered = v] \in LinkType
  BY Zenon DEF LinkType
<1>18. \A v \in Devices \cup {null} : [c EXCEPT !.display = v] \in LinkType
  BY Zenon DEF LinkType
<1>19. \A v \in BOOLEAN : [c EXCEPT !.connected = v] \in LinkType
  BY Zenon DEF LinkType
<1>20. \A v \in Nat : [c EXCEPT !.attempt = v] \in LinkType
  BY Zenon DEF LinkType
<1>21. \A v \in BOOLEAN : [c EXCEPT !.failed = v] \in LinkType
  BY Zenon DEF LinkType
<1> QED BY <1>1, <1>2, <1>3, <1>4, <1>5, <1>6, <1>7, <1>8, <1>9, <1>10, <1>11,
           <1>12, <1>13, <1>14, <1>15, <1>16, <1>17, <1>18, <1>19, <1>20, <1>21

-----------------------------------------------------------------------------
(* The link between handlers, and in the middle of one                     *)

(* No two of the four roles are taken.                                     *)
OneTaken(c) ==
  /\ c.mConnectingDevice = null \/ c.mConnectedDevice = null
  /\ c.mConnectingDevice # null \/ c.mConnectedDevice # null =>
       c.mCancelingDevice = null /\ c.mDisconnectingDevice = null
  /\ c.mCancelingDevice = null \/ c.mDisconnectingDevice = null

(* What OneRole says of Roles, said of the fields.                         *)
LEMMA RolesApart ==
  ASSUME NEW c
  PROVE  (\A r, q \in Roles(c) : r[2] # null /\ q[2] # null => r = q) <=> OneTaken(c)
<1> DEFINE P == \A r, q \in Roles(c) : r[2] # null /\ q[2] # null => r = q
<1>1. ASSUME P PROVE OneTaken(c)
  <2> DEFINE a == <<"connecting", c.mConnectingDevice>>
             b == <<"connected", c.mConnectedDevice>>
             d == <<"canceling", c.mCancelingDevice>>
             e == <<"disconnecting", c.mDisconnectingDevice>>
  <2>1. {a, b, d, e} = Roles(c)
    BY DEF Roles
  <2>2. a # b /\ a # d /\ a # e /\ b # d /\ b # e /\ d # e
    OBVIOUS
  <2>3. \A r, q \in {a, b, d, e} : r[2] # null /\ q[2] # null => r = q
    BY <1>1, <2>1
  <2>4. /\ a[2] = c.mConnectingDevice /\ b[2] = c.mConnectedDevice
        /\ d[2] = c.mCancelingDevice /\ e[2] = c.mDisconnectingDevice
    OBVIOUS
  <2> HIDE DEF a, b, d, e
  <2> QED BY <2>2, <2>3, <2>4 DEF OneTaken
<1>2. ASSUME OneTaken(c) PROVE P
  BY <1>2 DEF OneTaken, Roles
<1> QED BY <1>1, <1>2

(* In the middle of a handler the device wanted may just have changed, but *)
(* not to one of another address unless nothing is advertised.             *)
Between(c) ==
  /\ OneTaken(c)
  /\ DisplayIsOfConnected(c)
  /\ c.mAdvertisedDisplay # null =>
       /\ c.mCancelingDevice = null /\ c.mDisconnectingDevice = null
       /\ c.mDesiredDevice # null => Address(c.mDesiredDevice) = c.mAdvertisedDisplay
  /\ c.mConnectingDevice # null \/ c.mConnectedDevice # null =>
       c.mAdvertisedDisplay # null
  /\ c.mAdvertisedSurface = c.mRemoteDisplayConnected
  /\ c.display = c.mAdvertisedDisplay
  /\ c.connected = c.mAdvertisedSurface

(* Between handlers it is what is connecting, connected and advertised.    *)
Held(c) ==
  /\ Between(c)
  /\ c.mConnectingDevice \in {null, c.mDesiredDevice}
  /\ c.mConnectedDevice \in {null, c.mDesiredDevice}
  /\ c.mAdvertisedDisplay # null => c.mDesiredDevice # null

(* What holds between handlers is what Consistent says of the link.        *)
LEMMA HeldIsConsistent ==
  ASSUME NEW c
  PROVE  Held(c) <=> OneRole(c) /\ DisplayIsOfConnected(c) /\ AdvertisedIsWanted(c)
  BY RolesApart DEF Held, Between, OneRole, AdvertisedIsWanted

(* A step of the link tells the listener nothing, or one thing that        *)
(* DisplayListener allows.                                                 *)
Tells(c, d) ==
  \/ d.display = c.display /\ d.connected = c.connected
  \/ c.display # null /\ d.display = null /\ ~d.connected
  \/ /\ c.display = null /\ ~c.connected
     /\ d.display \in Devices /\ ~d.connected
  \/ /\ c.display # null /\ ~c.connected
     /\ d.display = c.display /\ d.connected

(* What a step tells is nothing or one of the calls of DisplayListener.    *)
LEMMA TellsIsListener ==
  ASSUME NEW c \in LinkType, NEW d \in LinkType, Tells(c, d)
  PROVE  \/ d.display = c.display /\ d.connected = c.connected
         \/ \E a \in Devices : c.display = null /\ d.display = a /\ d.connected = c.connected
         \/ c.display # null /\ ~c.connected /\ d.connected = TRUE /\ d.display = c.display
         \/ c.display # null /\ ~c.connected /\ d.display = null /\ d.connected = c.connected
         \/ c.connected /\ d.display = null /\ d.connected = FALSE
  BY DEF Tells, LinkType

-----------------------------------------------------------------------------
(* The parts of updateConnection                                           *)

(* Unadvertising takes back what the listener was told.                    *)
LEMMA Unadvertised ==
  ASSUME NEW c \in LinkType,
         c.display = c.mAdvertisedDisplay, c.connected = c.mAdvertisedSurface,
         c.mAdvertisedDisplay = null => ~c.mAdvertisedSurface
  PROVE  UnadvertiseDisplay(c) =
           [c EXCEPT !.mAdvertisedDisplay = null, !.mAdvertisedSurface = FALSE,
                     !.display = null, !.connected = FALSE]
  BY DEF UnadvertiseDisplay, AdvertiseDisplay, LinkType

(* advertiseDisplay keeps the types.                                       *)
LEMMA AdvertiseType ==
  ASSUME NEW c \in LinkType, NEW a \in Devices \cup {null}, NEW surface \in BOOLEAN
  PROVE  AdvertiseDisplay(c, a, surface) \in LinkType
<1> DEFINE d == AdvertiseDisplay(c, a, surface)
           c1 == [c EXCEPT !.mAdvertisedDisplay = a]
           c2 == [c1 EXCEPT !.mAdvertisedSurface = surface]
<1>1. c2 \in LinkType
  <2>1. c1 \in LinkType
    BY FieldTypes
  <2> QED BY <2>1, FieldTypes
<1>2. \A v \in Devices \cup {null}, w \in BOOLEAN :
        [c2 EXCEPT !.display = v, !.connected = w] \in LinkType
  <2> SUFFICES ASSUME NEW v \in Devices \cup {null}, NEW w \in BOOLEAN
               PROVE  [c2 EXCEPT !.display = v, !.connected = w] \in LinkType
    OBVIOUS
  <2> HIDE DEF c2
  <2>1. [c2 EXCEPT !.display = v] \in LinkType
    BY <1>1, FieldTypes
  <2> QED BY <2>1, FieldTypes
<1>3. CASE c.mAdvertisedDisplay = a /\ c.mAdvertisedSurface = surface
  BY <1>3 DEF AdvertiseDisplay
<1>4. CASE ~(c.mAdvertisedDisplay = a /\ c.mAdvertisedSurface = surface)
  <2> DEFINE gone == c.mAdvertisedSurface /\ ~surface
             kept == ~gone /\ c.mAdvertisedDisplay \in {null, a}
             now  == IF a # null /\ a # c.mAdvertisedDisplay THEN a
                     ELSE IF kept THEN c.display ELSE null
             live == \/ ~gone /\ c.connected
                     \/ a # null /\ surface /\ ~c.mAdvertisedSurface
  <2>1. d = [c2 EXCEPT !.display = now, !.connected = live]
    BY <1>4 DEF AdvertiseDisplay
  <2>2. now \in Devices \cup {null} /\ live \in BOOLEAN
    BY FieldValues
  <2> HIDE DEF now, live, c2
  <2> QED BY <1>2, <2>1, <2>2
<1> QED BY <1>3, <1>4

(* There is no surface without a display.                                  *)
LEMMA NoSurfaceAlone ==
  ASSUME NEW c \in LinkType, Between(c)
  PROVE  c.mAdvertisedDisplay = null => ~c.mAdvertisedSurface
  BY DEF Between, DisplayIsOfConnected, LinkType

-----------------------------------------------------------------------------
(* The steps of updateConnection                                           *)

(* Nothing is listened to, and the listener knows what is advertised.      *)
Silent(c) ==
  /\ OneTaken(c)
  /\ c.mRemoteDisplay = null /\ ~c.mRemoteSubmixOn /\ ~c.mRemoteDisplayConnected
  /\ c.rtspTimeouts = 0
  /\ ~c.mAdvertisedSurface /\ ~c.connected /\ c.display = c.mAdvertisedDisplay

(* With no display listened to, none is announced as connected.            *)
LEMMA BetweenIsSilent ==
  ASSUME NEW c \in LinkType, Between(c), c.mRemoteDisplay = null
  PROVE  Silent(c)
  BY FieldValues DEF Between, Silent, DisplayIsOfConnected

(* To take back a display that is not connected changes nothing else.      *)
LEMMA UnadvertisedSilent ==
  ASSUME NEW c \in LinkType, Silent(c)
  PROVE  UnadvertiseDisplay(c) =
           [c EXCEPT !.mAdvertisedDisplay = null, !.mAdvertisedSurface = FALSE,
                     !.display = null, !.connected = FALSE]
  BY Unadvertised, FieldValues DEF Silent

(* Removing the group holds, whether a display was listened to or not.     *)
LEMMA RemoveGroupHolds ==
  ASSUME NEW c \in LinkType, Silent(c), c.mConnectedDevice # null
  PROVE  /\ RemoveGroup(c) \in LinkType
         /\ Held(RemoveGroup(c))
         /\ RemoveGroup(c).display = null /\ ~RemoveGroup(c).connected
         /\ RemoveGroup(c).mDisconnectingDevice # null
         /\ RemoveGroup(c).mDesiredDevice = c.mDesiredDevice
<1> DEFINE call == Call(c, "removeGroup", c.mConnectedDevice)
           c1 == [c EXCEPT !.mDisconnectingDevice = c.mConnectedDevice]
           c2 == [c1 EXCEPT !.mConnectedDevice = null]
           d == [c2 EXCEPT !.calls = @ \cup {call}]
<1>1. c.mConnectedDevice \in Objects
  BY FieldValues DEF Known
<1>2. call \in Calls
  BY <1>1, FieldValues DEF Call, Calls
<1>3. d \in LinkType
  <2>1. c1 \in LinkType
    BY <1>1, FieldTypes DEF Known
  <2>2. c2 \in LinkType
    BY <2>1, FieldTypes DEF Known
  <2>3. c2.calls \cup {call} \in SUBSET Calls
    BY <2>2, <1>2, FieldValues
  <2> QED BY <2>2, <2>3, FieldTypes
<1>4. Silent(d)
  BY NullIsNoObject, <1>1 DEF Silent, OneTaken, LinkType
<1> DEFINE r == [d EXCEPT !.mAdvertisedDisplay = null, !.mAdvertisedSurface = FALSE,
                          !.display = null, !.connected = FALSE]
<1>5. UnadvertiseDisplay(d) = r
  BY <1>3, <1>4, UnadvertisedSilent
<1>6. RemoveGroup(c) = UnadvertiseDisplay(d)
  BY DEF RemoveGroup
<1>7. UnadvertiseDisplay(d) \in LinkType
  BY <1>3, AdvertiseType DEF UnadvertiseDisplay
<1>8. /\ Held(r) /\ r.display = null /\ ~r.connected
      /\ r.mDisconnectingDevice # null /\ r.mDesiredDevice = c.mDesiredDevice
  BY NullIsNoObject, <1>1
  DEF Held, Between, Silent, OneTaken, DisplayIsOfConnected, LinkType
<1> QED BY <1>5, <1>6, <1>7, <1>8

(* Step 3 ends with one device being cancelled and nothing announced.      *)
LEMMA CancelConnectHolds ==
  ASSUME NEW c \in LinkType, Silent(c), c.mConnectingDevice # null
  PROVE  /\ CancelConnect(c) \in LinkType
         /\ Held(CancelConnect(c))
         /\ CancelConnect(c).display = null /\ ~CancelConnect(c).connected
         /\ CancelConnect(c).mCancelingDevice # null
         /\ CancelConnect(c).mDesiredDevice = c.mDesiredDevice
<1> DEFINE call == Call(c, "cancelConnect", c.mConnectingDevice)
           c1 == [c EXCEPT !.mCancelingDevice = c.mConnectingDevice]
           c2 == [c1 EXCEPT !.mConnectingDevice = null]
           c3 == [c2 EXCEPT !.connectionTimeouts = {}]
           d == [c3 EXCEPT !.calls = @ \cup {call}]
<1>1. c.mConnectingDevice \in Objects
  BY FieldValues DEF Known
<1>2. call \in Calls
  BY <1>1, FieldValues DEF Call, Calls
<1>3. d \in LinkType
  <2>1. c1 \in LinkType
    BY <1>1, FieldTypes DEF Known
  <2>2. c2 \in LinkType
    BY <2>1, FieldTypes DEF Known
  <2>3. c3 \in LinkType
    BY <2>2, FieldTypes
  <2>4. c3.calls \cup {call} \in SUBSET Calls
    BY <2>3, <1>2, FieldValues
  <2> QED BY <2>3, <2>4, FieldTypes
<1>4. Silent(d)
  BY NullIsNoObject, <1>1 DEF Silent, OneTaken, LinkType
<1> DEFINE r == [d EXCEPT !.mAdvertisedDisplay = null, !.mAdvertisedSurface = FALSE,
                          !.display = null, !.connected = FALSE]
<1>5. UnadvertiseDisplay(d) = r
  BY <1>3, <1>4, UnadvertisedSilent
<1>6. CancelConnect(c) = UnadvertiseDisplay(d)
  BY DEF CancelConnect
<1>7. UnadvertiseDisplay(d) \in LinkType
  BY <1>3, AdvertiseType DEF UnadvertiseDisplay
<1>8. /\ Held(r) /\ r.display = null /\ ~r.connected
      /\ r.mCancelingDevice # null /\ r.mDesiredDevice = c.mDesiredDevice
  BY NullIsNoObject, <1>1
  DEF Held, Between, Silent, OneTaken, DisplayIsOfConnected, LinkType
<1> QED BY <1>5, <1>6, <1>7, <1>8

(* After step 1 nothing is listened to, unless nothing had to be done.     *)
LEMMA StopListeningIsSilent ==
  ASSUME NEW c \in LinkType, Between(c),
         c.mRemoteDisplay # null, c.mConnectedDevice # c.mDesiredDevice
  PROVE  /\ StopListening(c) \in LinkType
         /\ Silent(StopListening(c))
         /\ StopListening(c).mConnectedDevice = c.mConnectedDevice
         /\ StopListening(c).mConnectingDevice = null
         /\ StopListening(c).mDisconnectingDevice = null
         /\ StopListening(c).mDesiredDevice = c.mDesiredDevice
<1> DEFINE c1 == [c EXCEPT !.mRemoteDisplay = null]
           c2 == [c1 EXCEPT !.mRemoteDisplayConnected = FALSE]
           c3 == [c2 EXCEPT !.rtspTimeouts = 0]
           d == [c3 EXCEPT !.mRemoteSubmixOn = FALSE]
           r == [d EXCEPT !.mAdvertisedDisplay = null, !.mAdvertisedSurface = FALSE,
                          !.display = null, !.connected = FALSE]
<1>1. d \in LinkType
  <2>1. c1 \in LinkType
    BY FieldTypes DEF Known
  <2>2. c2 \in LinkType
    BY <2>1, FieldTypes
  <2>3. c3 \in LinkType
    BY <2>2, FieldTypes
  <2> QED BY <2>3, FieldTypes
<1>2. /\ d.display = d.mAdvertisedDisplay /\ d.connected = d.mAdvertisedSurface
      /\ d.mAdvertisedDisplay = null => ~d.mAdvertisedSurface
  BY NoSurfaceAlone DEF Between, LinkType
<1>3. UnadvertiseDisplay(d) = r
  BY <1>1, <1>2, Unadvertised
<1>4. StopListening(c) = UnadvertiseDisplay(d)
  BY DEF StopListening
<1>5. UnadvertiseDisplay(d) \in LinkType
  BY <1>1, AdvertiseType DEF UnadvertiseDisplay
<1>6. /\ r.mConnectedDevice = c.mConnectedDevice
      /\ r.mConnectingDevice = null /\ r.mDisconnectingDevice = null
      /\ r.mDesiredDevice = c.mDesiredDevice /\ Silent(r)
  BY DEF Between, Silent, OneTaken, DisplayIsOfConnected, LinkType
<1> QED BY <1>3, <1>4, <1>5, <1>6

(* Steps 2 to 4, with nothing listened to whose device is not wanted.      *)
LEMMA LetGoHolds ==
  ASSUME NEW c \in LinkType, Between(c)
  PROVE  /\ LetGo(c) \in LinkType
         /\ Held(LetGo(c))
         /\ \/ LetGo(c) = c
            \/ LetGo(c).display = null /\ ~LetGo(c).connected /\ Settled(LetGo(c))
         /\ LetGo(c).mDesiredDevice = c.mDesiredDevice
<1>1. CASE c.mRemoteDisplay # null /\ c.mConnectedDevice # c.mDesiredDevice
  <2> DEFINE s == StopListening(c)
  <2>1. /\ s \in LinkType /\ Silent(s)
        /\ s.mConnectedDevice = c.mConnectedDevice /\ s.mDisconnectingDevice = null
        /\ s.mDesiredDevice = c.mDesiredDevice
    BY <1>1, StopListeningIsSilent
  <2>2. c.mConnectedDevice # null
    BY <1>1 DEF Between, DisplayIsOfConnected
  <2>3. LetGo(c) = RemoveGroup(s)
    BY <1>1, <2>1, <2>2 DEF LetGo
  <2> HIDE DEF s
  <2> QED BY <2>1, <2>2, <2>3, RemoveGroupHolds DEF Settled
<1>2. CASE ~(c.mRemoteDisplay # null /\ c.mConnectedDevice # c.mDesiredDevice)
  <2>1. StopListening(c) = c
    BY <1>2 DEF StopListening
  <2>2. CASE c.mDisconnectingDevice # null
    <3>1. LetGo(c) = c
      BY <2>1, <2>2 DEF LetGo
    <3>2. Held(c)
      BY <2>2 DEF Between, Held, OneTaken
    <3> QED BY <3>1, <3>2
  <2>3. CASE c.mDisconnectingDevice = null /\ c.mConnectedDevice \notin {null, c.mDesiredDevice}
    <3>1. LetGo(c) = RemoveGroup(c)
      BY <2>1, <2>3 DEF LetGo
    <3>2. c.mRemoteDisplay = null
      BY <1>2, <2>3
    <3> QED BY <2>3, <3>1, <3>2, BetweenIsSilent, RemoveGroupHolds DEF Settled
  <2>4. CASE /\ c.mDisconnectingDevice = null /\ c.mConnectedDevice \in {null, c.mDesiredDevice}
             /\ c.mCancelingDevice # null
    <3>1. LetGo(c) = c
      BY <2>1, <2>4 DEF LetGo
    <3>2. Held(c)
      BY <2>4 DEF Between, Held, OneTaken
    <3> QED BY <3>1, <3>2
  <2>5. CASE /\ c.mDisconnectingDevice = null /\ c.mConnectedDevice \in {null, c.mDesiredDevice}
             /\ c.mCancelingDevice = null
             /\ c.mConnectingDevice \notin {null, c.mDesiredDevice}
    <3>1. LetGo(c) = CancelConnect(c)
      BY <2>1, <2>5 DEF LetGo
    <3>2. c.mRemoteDisplay = null
      BY <2>5 DEF Between, OneTaken, DisplayIsOfConnected
    <3> QED BY <2>5, <3>1, <3>2, BetweenIsSilent, CancelConnectHolds DEF Settled
  <2>6. CASE /\ c.mDisconnectingDevice = null /\ c.mConnectedDevice \in {null, c.mDesiredDevice}
             /\ c.mCancelingDevice = null
             /\ c.mConnectingDevice \in {null, c.mDesiredDevice}
             /\ c.mDesiredDevice = null
    <3> DEFINE r == [c EXCEPT !.mAdvertisedDisplay = null, !.mAdvertisedSurface = FALSE,
                              !.display = null, !.connected = FALSE]
    <3>1. LetGo(c) = UnadvertiseDisplay(c)
      BY <2>1, <2>6 DEF LetGo
    <3>2. c.mRemoteDisplay = null
      BY <2>6 DEF Between, DisplayIsOfConnected
    <3>3. Silent(c)
      BY <3>2, BetweenIsSilent
    <3>4. UnadvertiseDisplay(c) = r
      BY <3>3, UnadvertisedSilent
    <3>5. /\ Held(r) /\ r.display = null /\ ~r.connected
          /\ Settled(r) /\ r.mDesiredDevice = c.mDesiredDevice
      BY <2>6, <3>2, <3>3
      DEF Held, Between, Silent, OneTaken, DisplayIsOfConnected, LinkType, Settled
    <3>6. UnadvertiseDisplay(c) \in LinkType
      BY AdvertiseType DEF UnadvertiseDisplay
    <3> QED BY <3>1, <3>4, <3>5, <3>6
  <2>7. CASE /\ c.mDisconnectingDevice = null /\ c.mConnectedDevice \in {null, c.mDesiredDevice}
             /\ c.mCancelingDevice = null
             /\ c.mConnectingDevice \in {null, c.mDesiredDevice}
             /\ c.mDesiredDevice # null
    <3>1. LetGo(c) = c
      BY <2>1, <2>7 DEF LetGo
    <3>2. Held(c)
      BY <2>7 DEF Between, Held
    <3> QED BY <3>1, <3>2
  <2> QED BY <2>2, <2>3, <2>4, <2>5, <2>6, <2>7
<1> QED BY <1>1, <1>2

(* Steps 1 to 4 tell the listener one thing at most.                       *)
LEMMA LetGoTells ==
  ASSUME NEW c \in LinkType, Between(c)
  PROVE  Tells(c, LetGo(c))
<1>1. c.display = null => ~c.connected
  BY NoSurfaceAlone DEF Between
<1> QED BY <1>1, LetGoHolds, FieldValues DEF Tells

-----------------------------------------------------------------------------
(* disconnect, handleConnectionFailure, connecting and listening           *)

(* What a step must do for the link: keep its type, hold it together, and  *)
(* tell the listener at most one thing.                                    *)
Keeps(c, d) == d \in LinkType /\ Held(d) /\ Tells(c, d)

(* Two links with the same devices, display and announcement.              *)
Same(c, d) ==
  /\ d.mDesiredDevice = c.mDesiredDevice
  /\ d.mConnectingDevice = c.mConnectingDevice
  /\ d.mCancelingDevice = c.mCancelingDevice
  /\ d.mDisconnectingDevice = c.mDisconnectingDevice
  /\ d.mConnectedDevice = c.mConnectedDevice
  /\ d.mRemoteDisplay = c.mRemoteDisplay
  /\ d.mRemoteDisplayConnected = c.mRemoteDisplayConnected
  /\ d.mRemoteSubmixOn = c.mRemoteSubmixOn
  /\ d.rtspTimeouts = c.rtspTimeouts
  /\ d.mAdvertisedDisplay = c.mAdvertisedDisplay
  /\ d.mAdvertisedSurface = c.mAdvertisedSurface
  /\ d.display = c.display
  /\ d.connected = c.connected

(* Other fields than the devices and the announcement do not matter.       *)
LEMMA SameHolds ==
  ASSUME NEW c, NEW d \in LinkType, Same(c, d), Held(c)
  PROVE  Keeps(c, d)
  BY DEF Same, Held, Between, OneTaken, DisplayIsOfConnected, Keeps, Tells

(* Only what was announced before and after a step matters to Tells.       *)
LEMMA TellsFrom ==
  ASSUME NEW b, NEW c, NEW d, Keeps(c, d),
         b.display = c.display, b.connected = c.connected
  PROVE  Keeps(b, d)
  BY DEF Keeps, Tells

(* disconnect() keeps what holds between handlers.                         *)
LEMMA DisconnectHolds ==
  ASSUME NEW c \in LinkType, Held(c)
  PROVE  Keeps(c, Disconnect(c))
<1> DEFINE d == [c EXCEPT !.mDesiredDevice = null]
<1>1. d \in LinkType
  BY FieldTypes DEF Known
<1>2. Between(d) /\ d.display = c.display /\ d.connected = c.connected
  BY DEF Held, Between, OneTaken, DisplayIsOfConnected, LinkType
<1>3. Keeps(d, LetGo(d))
  BY <1>1, <1>2, LetGoHolds, LetGoTells DEF Keeps
<1> HIDE DEF d
<1>4. Keeps(c, LetGo(d))
  BY <1>2, <1>3, TellsFrom
<1> QED BY <1>4 DEF Disconnect, d

(* handleConnectionFailure keeps it, with a retry or without.              *)
LEMMA HandleFailureHolds ==
  ASSUME NEW c \in LinkType, Held(c), NEW attempt \in Nat
  PROVE  Keeps(c, HandleConnectionFailure(c, attempt))
<1> DEFINE told == [c EXCEPT !.failed = @ \/ attempt = c.attempt]
           again == [told EXCEPT !.retries = @ \cup {c.mDesiredDevice}]
<1>1. told \in LinkType
  BY FieldTypes, FieldValues
<1>2. Same(c, told)
  BY DEF Same, LinkType
<1>3. Keeps(c, told)
  BY <1>1, <1>2, SameHolds
<1>4. CASE c.mDesiredDevice = null
  BY <1>3, <1>4 DEF HandleConnectionFailure
<1>5. CASE c.mDesiredDevice # null /\ c.mConnectionRetriesLeft > 0
  <2>1. told.retries \cup {c.mDesiredDevice} \in SUBSET Objects
    BY <1>1, <1>5, FieldValues DEF Known
  <2>2. again \in LinkType
    BY <1>1, <2>1, FieldTypes
  <2>3. Same(c, again)
    BY DEF Same, LinkType
  <2>4. HandleConnectionFailure(c, attempt) = again
    BY <1>5 DEF HandleConnectionFailure
  <2> QED BY <2>2, <2>3, <2>4, SameHolds
<1>6. CASE c.mDesiredDevice # null /\ ~(c.mConnectionRetriesLeft > 0)
  <2>1. HandleConnectionFailure(c, attempt) = Disconnect(told)
    BY <1>6 DEF HandleConnectionFailure
  <2>2. Keeps(told, Disconnect(told))
    BY <1>1, <1>3, DisconnectHolds DEF Keeps
  <2> QED BY <2>1, <2>2, <1>2, TellsFrom DEF Same
<1> QED BY <1>4, <1>5, <1>6

(* Step 5 keeps it, and announces the display as connecting.               *)
LEMMA ConnectHolds ==
  ASSUME NEW c \in LinkType, Held(c), ~Settled(c),
         c.mConnectingDevice = null, c.mConnectedDevice = null
  PROVE  Keeps(c, Connect(c))
<1> DEFINE a == Address(c.mDesiredDevice)
           c1 == [c EXCEPT !.attempt = @ + 1]
           c2 == [c1 EXCEPT !.failed = FALSE]
           c3 == [c2 EXCEPT !.mConnectingDevice = c.mDesiredDevice]
           call == Call(c2, "connect", c.mDesiredDevice)
           d == [c3 EXCEPT !.calls = @ \cup {call}]
<1>1. c.mDesiredDevice \in Objects /\ a \in Devices
  BY FieldValues, AddressType DEF Settled, Known
<1>2. d \in LinkType
  <2>1. c1 \in LinkType
    BY FieldTypes, FieldValues
  <2>2. c2 \in LinkType
    BY <2>1, FieldTypes
  <2>3. c3 \in LinkType
    BY <2>2, <1>1, FieldTypes DEF Known
  <2>4. call \in Calls
    BY <1>1, <2>2, FieldValues DEF Call, Calls
  <2>5. c3.calls \cup {call} \in SUBSET Calls
    BY <2>3, <2>4, FieldValues
  <2> QED BY <2>3, <2>5, FieldTypes
<1>3. Connect(c) = AdvertiseDisplay(d, a, FALSE)
  BY DEF Connect, LinkType
<1>4. Connect(c) \in LinkType
  BY <1>1, <1>2, <1>3, AdvertiseType
<1>5. /\ d.mAdvertisedDisplay \in {null, a} /\ ~d.mAdvertisedSurface
      /\ d.display = d.mAdvertisedDisplay /\ ~d.connected
      /\ d.display = c.display /\ d.connected = c.connected
  BY DEF Held, Between, DisplayIsOfConnected, LinkType
<1>6. CASE d.mAdvertisedDisplay = a
  <2>1. Connect(c) = d
    BY <1>2, <1>3, <1>5, <1>6, FieldValues DEF AdvertiseDisplay
  <2>2. Held(d)
    BY <1>1, <1>6, NullIsNoObject
    DEF Held, Between, OneTaken, DisplayIsOfConnected, Settled, LinkType
  <2> QED BY <1>4, <1>5, <2>1, <2>2 DEF Keeps, Tells
<1>7. CASE d.mAdvertisedDisplay = null
  <2> DEFINE r == [d EXCEPT !.mAdvertisedDisplay = a, !.mAdvertisedSurface = FALSE,
                            !.display = a, !.connected = FALSE]
  <2>1. Connect(c) = r
    <3> HIDE DEF d, a
    <3>1. a # null /\ d.mAdvertisedSurface = FALSE /\ d.connected = FALSE
      BY <1>1, <1>2, <1>5, NullIsNoObject, FieldValues
    <3> QED BY <1>3, <1>7, <3>1 DEF AdvertiseDisplay
  <2>2. Held(r)
    BY <1>1, <1>7, NullIsNoObject
    DEF Held, Between, OneTaken, DisplayIsOfConnected, Settled, LinkType
  <2>3. c.display = null /\ ~c.connected /\ r.display = a /\ ~r.connected
    BY <1>5, <1>7 DEF LinkType
  <2> QED BY <1>1, <1>4, <2>1, <2>2, <2>3 DEF Keeps, Tells
<1> QED BY <1>5, <1>6, <1>7

(* Step 6 keeps it.                                                        *)
LEMMA ListenHolds ==
  ASSUME NEW c \in LinkType, Held(c), ~Settled(c),
         c.mConnectedDevice # null, c.mRemoteDisplay = null, NEW hasAddress \in BOOLEAN
  PROVE  Keeps(c, Listen(c, hasAddress))
<1> DEFINE c1 == [c EXCEPT !.mRemoteSubmixOn = TRUE]
           c2 == [c1 EXCEPT !.mRemoteDisplay = c.mConnectedDevice]
           d == [c2 EXCEPT !.rtspTimeouts = @ + 1]
<1>1. CASE hasAddress
  <2>1. d \in LinkType
    <3>1. c1 \in LinkType
      BY FieldTypes
    <3>2. c2 \in LinkType
      BY <3>1, FieldTypes, FieldValues
    <3>3. c2.rtspTimeouts + 1 \in Nat
      BY <3>2, FieldValues
    <3> QED BY <3>2, <3>3, FieldTypes
  <2>2. Listen(c, hasAddress) = d
    BY <1>1 DEF Listen
  <2>3. Held(d) /\ d.display = c.display /\ d.connected = c.connected
    BY DEF Held, Between, OneTaken, DisplayIsOfConnected, LinkType
  <2> QED BY <2>1, <2>2, <2>3 DEF Keeps, Tells
<1>2. CASE ~hasAddress
  BY <1>2, HandleFailureHolds, FieldValues DEF Listen
<1> QED BY <1>1, <1>2

(* updateConnection takes what holds within a handler to what holds after  *)
(* it.                                                                     *)
LEMMA UpdateHolds ==
  ASSUME NEW c \in LinkType, Between(c), NEW hasAddress \in BOOLEAN
  PROVE  Keeps(c, UpdateConnection(c, hasAddress))
<1> DEFINE d == LetGo(c)
<1>1. d \in LinkType /\ Held(d) /\ Tells(c, d) /\ (d = c \/ Settled(d))
  BY LetGoHolds, LetGoTells
<1>2. CASE Settled(d)
  BY <1>1, <1>2 DEF UpdateConnection, Keeps
<1>3. CASE ~Settled(d) /\ d.mConnectedDevice = null /\ d.mConnectingDevice = null
  <2>1. UpdateConnection(c, hasAddress) = Connect(d)
    BY <1>3 DEF UpdateConnection
  <2> QED BY <1>1, <1>3, <2>1, ConnectHolds
<1>4. CASE ~Settled(d) /\ d.mConnectedDevice # null /\ d.mRemoteDisplay = null
  <2>1. UpdateConnection(c, hasAddress) = Listen(d, hasAddress)
    BY <1>4 DEF UpdateConnection
  <2> QED BY <1>1, <1>4, <2>1, ListenHolds
<1>5. CASE /\ ~Settled(d)
           /\ ~(d.mConnectedDevice = null /\ d.mConnectingDevice = null)
           /\ ~(d.mConnectedDevice # null /\ d.mRemoteDisplay = null)
  BY <1>1, <1>5 DEF UpdateConnection, Keeps
<1> QED BY <1>2, <1>3, <1>4, <1>5

-----------------------------------------------------------------------------
(* The actions that change the link                                        *)

Linked == link \in LinkType /\ Held(link)

(* Each of them first changes some fields, giving b, and then does nothing *)
(* more or calls one of the three operations.                              *)
LEMMA UpdateFrom ==
  ASSUME NEW c, NEW b \in LinkType, Between(b), NEW hasAddress \in BOOLEAN,
         b.display = c.display, b.connected = c.connected
  PROVE  Keeps(c, UpdateConnection(b, hasAddress))
  BY UpdateHolds, TellsFrom

(* The same for handleConnectionFailure.                                   *)
LEMMA FailureFrom ==
  ASSUME NEW c, NEW b \in LinkType, Held(b), NEW attempt \in Nat,
         b.display = c.display, b.connected = c.connected
  PROVE  Keeps(c, HandleConnectionFailure(b, attempt))
  BY HandleFailureHolds, TellsFrom

(* requestConnect keeps the link consistent.                               *)
LEMMA RequestConnectKeeps ==
  ASSUME Linked, scan \in ScanType, NEW o \in scan.mAvailableWifiDisplayPeers,
         NEW hasAddress \in BOOLEAN, RequestConnect(o, hasAddress)
  PROVE  Keeps(link, link')
<1> DEFINE b1 == [link EXCEPT !.mDesiredDevice = o]
           b == [b1 EXCEPT !.mConnectionRetriesLeft = MaxRetries]
<1>1. o \in Objects
  BY DEF ScanType
<1>2. b \in LinkType
  <2>1. b1 \in LinkType
    BY <1>1, FieldTypes DEF Known, Linked
  <2>2. MaxRetries \in 0..MaxRetries
    BY RetriesAssumption
  <2> QED BY <2>1, <2>2, FieldTypes
<1>3. CASE link' = link
  BY <1>3 DEF Linked, Keeps, Tells
<1>4. CASE link' # link
  <2>1. link' = UpdateConnection(b, hasAddress)
    BY <1>4 DEF RequestConnect
  <2>2. /\ link.mDesiredDevice # null => Address(link.mDesiredDevice) = Address(o)
        /\ link.mDesiredDevice = null =>
             link.mConnectedDevice = null \/ Address(link.mConnectedDevice) = Address(o)
    BY <1>4 DEF RequestConnect
  <2>3. Between(b) /\ b.display = link.display /\ b.connected = link.connected
    BY <2>2 DEF Linked, Held, Between, OneTaken, DisplayIsOfConnected, LinkType
  <2> QED BY <1>2, <2>1, <2>3, UpdateFrom
<1> QED BY <1>3, <1>4

(* To strike out an answered call changes nothing that matters.            *)
LEMMA AnsweredIsSame ==
  ASSUME NEW c \in LinkType, NEW call
  PROVE  Answered(c, call) \in LinkType /\ Same(c, Answered(c, call))
<1>1. c.calls \ {call} \in SUBSET Calls
  BY FieldValues
<1>2. Answered(c, call) \in LinkType
  BY <1>1, FieldTypes DEF Answered
<1>3. Same(c, Answered(c, call))
  BY DEF Answered, Same, LinkType
<1> QED BY <1>2, <1>3

(* The answer to removeGroup keeps it.                                     *)
LEMMA OnRemoveGroupKeeps ==
  ASSUME Linked, NEW call \in link.calls, NEW hasAddress \in BOOLEAN,
         OnRemoveGroup(call, hasAddress)
  PROVE  Keeps(link, link')
<1> DEFINE c == Answered(link, call)
           b == [c EXCEPT !.mDisconnectingDevice = null]
<1>1. c \in LinkType /\ Same(link, c) /\ Keeps(link, c)
  BY AnsweredIsSame, SameHolds DEF Linked
<1>2. b \in LinkType
  BY <1>1, FieldTypes DEF Known
<1>3. Between(b) /\ b.display = link.display /\ b.connected = link.connected
  <2> HIDE DEF c
  <2> QED BY <1>1
      DEF Keeps, Same, Held, Between, OneTaken, DisplayIsOfConnected, LinkType
<1>4. link' = c \/ link' = UpdateConnection(b, hasAddress)
  BY DEF OnRemoveGroup
<1> QED BY <1>1, <1>2, <1>3, <1>4, UpdateFrom

(* The answer to cancelConnect keeps it.                                   *)
LEMMA OnCancelConnectKeeps ==
  ASSUME Linked, NEW call \in link.calls, NEW hasAddress \in BOOLEAN,
         OnCancelConnect(call, hasAddress)
  PROVE  Keeps(link, link')
<1> DEFINE c == Answered(link, call)
           b == [c EXCEPT !.mCancelingDevice = null]
<1>1. c \in LinkType /\ Same(link, c) /\ Keeps(link, c)
  BY AnsweredIsSame, SameHolds DEF Linked
<1>2. b \in LinkType
  BY <1>1, FieldTypes DEF Known
<1>3. Between(b) /\ b.display = link.display /\ b.connected = link.connected
  <2> HIDE DEF c
  <2> QED BY <1>1
      DEF Keeps, Same, Held, Between, OneTaken, DisplayIsOfConnected, LinkType
<1>4. link' = c \/ link' = UpdateConnection(b, hasAddress)
  BY DEF OnCancelConnect
<1> QED BY <1>1, <1>2, <1>3, <1>4, UpdateFrom

(* The success of connect keeps it.                                        *)
LEMMA OnConnectSuccessKeeps ==
  ASSUME Linked, NEW call \in link.calls, OnConnectSuccess(call)
  PROVE  Keeps(link, link')
<1> DEFINE c == Answered(link, call)
           d == [c EXCEPT !.connectionTimeouts = @ \cup {call.attempt}]
<1>1. c \in LinkType /\ Same(link, c) /\ Keeps(link, c)
  BY AnsweredIsSame, SameHolds DEF Linked
<1>2. c.connectionTimeouts \cup {call.attempt} \in SUBSET Nat
  <2>1. call \in Calls
    BY FieldValues DEF Linked
  <2>2. call.attempt \in Nat
    BY <2>1 DEF Calls
  <2> QED BY <1>1, <2>2, FieldValues
<1>3. d \in LinkType
  <2> HIDE DEF c
  <2> QED BY <1>1, <1>2, FieldTypes
<1>4. Same(link, d)
  <2> HIDE DEF c
  <2> QED BY <1>1 DEF Same, LinkType
<1>5. link' = d
  BY DEF OnConnectSuccess
<1> QED BY <1>3, <1>4, <1>5, SameHolds DEF Linked

(* The failure of connect keeps it.                                        *)
LEMMA OnConnectFailureKeeps ==
  ASSUME Linked, NEW call \in link.calls, OnConnectFailure(call)
  PROVE  Keeps(link, link')
<1> DEFINE c == Answered(link, call)
           b == [c EXCEPT !.mConnectingDevice = null]
<1>1. c \in LinkType /\ Same(link, c) /\ Keeps(link, c)
  BY AnsweredIsSame, SameHolds DEF Linked
<1>2. b \in LinkType
  BY <1>1, FieldTypes DEF Known
<1>3. Held(b) /\ b.display = link.display /\ b.connected = link.connected
  <2> HIDE DEF c
  <2> QED BY <1>1
      DEF Keeps, Same, Held, Between, OneTaken, DisplayIsOfConnected, LinkType
<1>4. call.attempt \in Nat
  <2>1. call \in Calls
    BY FieldValues DEF Linked
  <2> QED BY <2>1 DEF Calls
<1>5. link' = c \/ link' = HandleConnectionFailure(b, call.attempt)
  BY DEF OnConnectFailure
<1> QED BY <1>1, <1>2, <1>3, <1>4, <1>5, FailureFrom

(* A change of the connection keeps it.                                    *)
LEMMA HandleConnectionChangedKeeps ==
  ASSUME Linked, NEW isConnected \in BOOLEAN, HandleConnectionChanged(isConnected)
  PROVE  Keeps(link, link')
<1> DEFINE d == [link EXCEPT !.groupInfos = @ + 1]
<1>1. d \in LinkType
  BY FieldTypes, FieldValues DEF Linked
<1>2. Same(link, d) /\ Same(link, link)
  BY DEF Same, Linked, LinkType
<1>3. link' = link \/ link' = d \/ link' = Disconnect(link)
  BY DEF HandleConnectionChanged
<1> QED BY <1>1, <1>2, <1>3, SameHolds, DisconnectHolds DEF Linked

(* Group info, of whatever group, keeps it.                                *)
LEMMA OnGroupInfoKeeps ==
  ASSUME Linked, NEW members \in SUBSET Devices, NEW hasAddress \in BOOLEAN,
         OnGroupInfoAvailable(members, hasAddress)
  PROVE  Keeps(link, link')
<1> DEFINE c == [link EXCEPT !.groupInfos = @ - 1]
           b1 == [c EXCEPT !.connectionTimeouts = {}]
           b2 == [b1 EXCEPT !.mConnectedDevice = c.mConnectingDevice]
           b == [b2 EXCEPT !.mConnectingDevice = null]
<1>1. c \in LinkType
  <2>1. link.groupInfos - 1 \in Nat
    BY FieldValues DEF Linked, OnGroupInfoAvailable
  <2> QED BY <2>1, FieldTypes DEF Linked
<1>2. Same(link, c)
  BY DEF Same, Linked, LinkType
<1>3. Keeps(link, c)
  BY <1>1, <1>2, SameHolds DEF Linked
<1>4. b \in LinkType
  <2> HIDE DEF c
  <2>1. b1 \in LinkType
    BY <1>1, FieldTypes
  <2>2. b2 \in LinkType
    BY <1>1, <2>1, FieldTypes, FieldValues
  <2> QED BY <2>2, FieldTypes DEF Known
<1>5. /\ Held(c) /\ c.display = link.display /\ c.connected = link.connected
      /\ c.attempt \in Nat
  BY <1>1, <1>2, <1>3, FieldValues DEF Keeps, Same
<1>6. CASE link' = c
  BY <1>3, <1>6
<1>7. CASE link' = HandleConnectionFailure(c, c.attempt)
  BY <1>1, <1>5, <1>7, FailureFrom
<1>8. CASE link' = Disconnect(c)
  BY <1>1, <1>5, <1>8, DisconnectHolds, TellsFrom
<1>9. CASE /\ c.mConnectingDevice # null /\ c.mConnectingDevice = c.mDesiredDevice
           /\ link' = UpdateConnection(b, hasAddress)
  <2>1. Between(b) /\ b.display = link.display /\ b.connected = link.connected
    <3> HIDE DEF c
    <3> QED BY <1>1, <1>5, <1>9
        DEF Held, Between, OneTaken, DisplayIsOfConnected, LinkType
  <2> QED BY <1>4, <1>9, <2>1, UpdateFrom
<1> QED BY <1>6, <1>7, <1>8, <1>9 DEF OnGroupInfoAvailable

(* The time limit of connecting keeps it, also of an earlier attempt.      *)
LEMMA ConnectionTimeoutKeeps ==
  ASSUME Linked, NEW attempt \in link.connectionTimeouts, ConnectionTimeout(attempt)
  PROVE  Keeps(link, link')
<1> DEFINE c == [link EXCEPT !.connectionTimeouts = @ \ {attempt}]
<1>1. c \in LinkType
  <2>1. link.connectionTimeouts \ {attempt} \in SUBSET Nat
    BY FieldValues DEF Linked
  <2> QED BY <2>1, FieldTypes DEF Linked
<1>2. Same(link, c)
  BY DEF Same, Linked, LinkType
<1>3. Keeps(link, c)
  BY <1>1, <1>2, SameHolds DEF Linked
<1>4. attempt \in Nat
  BY FieldValues DEF Linked
<1>5. link' = c \/ link' = HandleConnectionFailure(c, attempt)
  BY DEF ConnectionTimeout
<1> QED BY <1>1, <1>2, <1>3, <1>4, <1>5, FailureFrom DEF Keeps, Same

(* The time limit of RTSP keeps it.                                        *)
LEMMA RtspTimeoutKeeps ==
  ASSUME Linked, RtspTimeout
  PROVE  Keeps(link, link')
<1> DEFINE c == [link EXCEPT !.rtspTimeouts = @ - 1]
<1>1. c \in LinkType
  <2>1. link.rtspTimeouts - 1 \in Nat
    BY FieldValues DEF Linked, RtspTimeout
  <2> QED BY <2>1, FieldTypes DEF Linked
<1>2. Held(c) /\ c.display = link.display /\ c.connected = link.connected
  BY DEF RtspTimeout, Linked, Held, Between, OneTaken, DisplayIsOfConnected, LinkType
<1>3. c.attempt \in Nat
  BY <1>1, FieldValues
<1>4. link' = c \/ link' = HandleConnectionFailure(c, c.attempt)
  BY DEF RtspTimeout
<1>5. Keeps(link, c)
  BY <1>1, <1>2 DEF Keeps, Tells
<1> QED BY <1>1, <1>2, <1>3, <1>4, <1>5, FailureFrom

(* A retry keeps it, also one that takes a later attempt for its own.      *)
LEMMA RetryConnectionKeeps ==
  ASSUME Linked, NEW oldDevice \in link.retries, NEW hasAddress \in BOOLEAN,
         RetryConnection(oldDevice, hasAddress)
  PROVE  Keeps(link, link')
<1> DEFINE c == [link EXCEPT !.retries = @ \ {oldDevice}]
           copy == <<Address(oldDevice), c.numbered + 1>>
           b1 == [c EXCEPT !.mDesiredDevice = copy]
           b2 == [b1 EXCEPT !.numbered = @ + 1]
           b == [b2 EXCEPT !.mConnectionRetriesLeft = @ - 1]
<1>1. c \in LinkType
  <2>1. link.retries \ {oldDevice} \in SUBSET Objects
    BY FieldValues DEF Linked
  <2> QED BY <2>1, FieldTypes DEF Linked
<1>2. Same(link, c)
  BY DEF Same, Linked, LinkType
<1>3. Keeps(link, c)
  BY <1>1, <1>2, SameHolds DEF Linked
<1>4. CASE link' = c
  BY <1>3, <1>4
<1>5. CASE /\ c.mDesiredDevice = oldDevice /\ c.mConnectionRetriesLeft > 0
           /\ link' = UpdateConnection(b, hasAddress)
  <2>1. copy \in Objects /\ Address(copy) = Address(oldDevice)
    <3>1. oldDevice \in Objects
      BY FieldValues DEF Linked
    <3> HIDE DEF c
    <3>2. c.numbered + 1 \in Nat
      BY <1>1, FieldValues
    <3> QED BY <3>1, <3>2, AddressType DEF Objects, Address
  <2>2. b \in LinkType
    <3> HIDE DEF c, copy
    <3>1. b1 \in LinkType
      BY <1>1, <2>1, FieldTypes DEF Known
    <3>2. b1.numbered + 1 \in Nat
      <4> HIDE DEF b1
      <4> QED BY <3>1, FieldValues
    <3>3. b2 \in LinkType
      BY <3>1, <3>2, FieldTypes
    <3>4. b2.mConnectionRetriesLeft = c.mConnectionRetriesLeft
      BY <1>1 DEF LinkType
    <3>5. b2.mConnectionRetriesLeft - 1 \in 0..MaxRetries
      BY <1>1, <1>5, <3>4, RetriesAssumption, FieldValues
    <3> QED BY <3>3, <3>5, FieldTypes
  <2>3. Between(b) /\ b.display = link.display /\ b.connected = link.connected
    <3>1. c.mDesiredDevice # null
      BY <1>1, <1>5, NullIsNoObject, FieldValues DEF Linked
    <3>2. Held(c) /\ c.display = link.display /\ c.connected = link.connected
      BY <1>2, <1>3 DEF Keeps, Same
    <3>3. /\ b.mDesiredDevice = copy
          /\ b.mConnectingDevice = c.mConnectingDevice
          /\ b.mCancelingDevice = c.mCancelingDevice
          /\ b.mDisconnectingDevice = c.mDisconnectingDevice
          /\ b.mConnectedDevice = c.mConnectedDevice
          /\ b.mRemoteDisplay = c.mRemoteDisplay
          /\ b.mRemoteDisplayConnected = c.mRemoteDisplayConnected
          /\ b.mRemoteSubmixOn = c.mRemoteSubmixOn
          /\ b.rtspTimeouts = c.rtspTimeouts
          /\ b.mAdvertisedDisplay = c.mAdvertisedDisplay
          /\ b.mAdvertisedSurface = c.mAdvertisedSurface
          /\ b.display = c.display /\ b.connected = c.connected
      <4> HIDE DEF c, copy
      <4> QED BY <1>1 DEF LinkType
    <3> HIDE DEF c, copy, b
    <3> QED BY <1>5, <2>1, <3>1, <3>2, <3>3
        DEF Held, Between, OneTaken, DisplayIsOfConnected
  <2> QED BY <1>5, <2>2, <2>3, UpdateFrom
<1> QED BY <1>4, <1>5 DEF RetryConnection

(* The display connects.                                                   *)
LEMMA OnDisplayConnectedKeeps ==
  ASSUME Linked, OnDisplayConnected
  PROVE  Keeps(link, link')
<1> DEFINE a == Address(link.mConnectedDevice)
           b1 == [link EXCEPT !.mRemoteDisplayConnected = TRUE]
           b == [b1 EXCEPT !.rtspTimeouts = 0]
           r == [b EXCEPT !.mAdvertisedDisplay = a, !.mAdvertisedSurface = TRUE,
                          !.display = a, !.connected = TRUE]
<1>1. link.mConnectedDevice \in Objects /\ a \in Devices /\ a # null
  BY FieldValues, AddressType, NullIsNoObject
  DEF OnDisplayConnected, Linked, Known
<1>2. b \in LinkType
  <2>1. b1 \in LinkType
    BY FieldTypes DEF Linked
  <2> QED BY <2>1, FieldTypes
<1>3. link' = AdvertiseDisplay(b, a, TRUE)
  BY DEF OnDisplayConnected
<1>4. link' \in LinkType
  BY <1>1, <1>2, <1>3, AdvertiseType
<1>5. /\ link.mAdvertisedDisplay = a /\ link.display = a
      /\ link.mAdvertisedSurface = FALSE /\ link.connected = FALSE
  BY <1>1, FieldValues DEF OnDisplayConnected, Linked, Held, Between
<1>6. link' = r
  <2>1. /\ b.mAdvertisedDisplay = a /\ b.display = a /\ b.mAdvertisedSurface = FALSE
    BY <1>5 DEF Linked, LinkType
  <2> HIDE DEF a, b
  <2> QED BY <1>1, <1>3, <2>1 DEF AdvertiseDisplay
<1>7. Held(r) /\ r.display = a /\ r.connected
  BY <1>1, <1>5
  DEF OnDisplayConnected, Linked, Held, Between, OneTaken, DisplayIsOfConnected, LinkType
<1> QED BY <1>1, <1>4, <1>5, <1>6, <1>7 DEF Keeps, Tells

(* Without its time limit the link is as consistent as before.             *)
LEMMA RtspTimeoutOff ==
  ASSUME Linked
  PROVE  LET c == [link EXCEPT !.rtspTimeouts = 0]
         IN  c \in LinkType /\ Held(c) /\ c.display = link.display
             /\ c.connected = link.connected /\ link.attempt \in Nat
<1>1. [link EXCEPT !.rtspTimeouts = 0] \in LinkType
  BY FieldTypes DEF Linked
<1> QED BY <1>1 DEF Linked, Held, Between, OneTaken, DisplayIsOfConnected, LinkType

(* The display disconnects or fails.                                       *)
LEMMA OnDisplayLostKeeps ==
  ASSUME Linked, OnDisplayDisconnected \/ OnDisplayError
  PROVE  Keeps(link, link')
<1> DEFINE c == [link EXCEPT !.rtspTimeouts = 0]
<1>1. /\ c \in LinkType /\ Held(c) /\ c.display = link.display
      /\ c.connected = link.connected /\ link.attempt \in Nat
  BY RtspTimeoutOff
<1>2. link' = Disconnect(c) \/ link' = HandleConnectionFailure(c, link.attempt)
  BY DEF OnDisplayDisconnected, OnDisplayError
<1>3. CASE link' = Disconnect(c)
  <2>1. Keeps(c, Disconnect(c))
    BY <1>1, DisconnectHolds
  <2> HIDE DEF c
  <2> QED BY <1>1, <1>3, <2>1, TellsFrom
<1>4. CASE link' = HandleConnectionFailure(c, link.attempt)
  BY <1>1, <1>4, FailureFrom
<1> QED BY <1>2, <1>3, <1>4

(* The feature going off lets go of the connection.                        *)
LEMMA UpdateWfdKeeps ==
  ASSUME Linked, NEW on \in BOOLEAN, NEW enabled \in BOOLEAN,
         UpdateWfdEnableState(on, enabled)
  PROVE  Keeps(link, link')
<1>1. link' = link \/ link' = Disconnect(link)
  BY DEF UpdateWfdEnableState
<1>2. Same(link, link)
  BY DEF Same
<1> QED BY <1>1, <1>2, SameHolds, DisconnectHolds DEF Linked

(* A new list of peers keeps the link.                                     *)
LEMMA OnPeersAvailableKeeps ==
  ASSUME Linked, NEW found \in SUBSET Devices, OnPeersAvailable(found)
  PROVE  Keeps(link, link')
<1> DEFINE d == [link EXCEPT !.numbered = @ + 1]
<1>1. d \in LinkType
  BY FieldTypes, FieldValues DEF Linked
<1>2. Same(link, d)
  BY DEF Same, Linked, LinkType
<1>3. link' = d
  BY DEF OnPeersAvailable
<1> QED BY <1>1, <1>2, <1>3, SameHolds DEF Linked

-----------------------------------------------------------------------------
(* The other variables                                                     *)

(* A plan stays a plan.                                                    *)
LEMMA PlanTypes ==
  ASSUME plan \in PlanType,
         NEW what \in {"requests", "broadcasts", "scans", "toggles"},
         Planned(what), Spend(what)
  PROVE  plan' \in PlanType
  BY DEF PlanType, Planned, Spend

(* What the feature and discovery owe: their types and their part of       *)
(* Consistent.                                                             *)
Allowed(w) ==
  /\ w \in WfdType
  /\ w.mWfdEnabled \/ w.mWfdEnabling => w.mWifiP2pEnabled /\ w.mWifiDisplayOnSetting
  /\ ~(w.mWfdEnabled /\ w.mWfdEnabling)
  /\ w.mWfdEnabling => w.calls > 0

(* updateWfdEnableState keeps the feature to what is allowed.              *)
LEMMA UpdateWfdGood ==
  ASSUME Allowed(wfd), NEW on \in BOOLEAN, NEW enabled \in BOOLEAN,
         UpdateWfdEnableState(on, enabled)
  PROVE  Allowed(wfd')
<1> DEFINE w == [wfd EXCEPT !.mWifiDisplayOnSetting = on, !.mWifiP2pEnabled = enabled]
<1>1. w \in WfdType
  BY DEF Allowed, WfdType
<1>2. /\ w.mWifiDisplayOnSetting = on /\ w.mWifiP2pEnabled = enabled
      /\ w.mWfdEnabled = wfd.mWfdEnabled /\ w.mWfdEnabling = wfd.mWfdEnabling
      /\ w.calls = wfd.calls
  BY DEF Allowed, WfdType
<1>3. CASE on /\ enabled /\ wfd' = w
  <2> HIDE DEF w
  <2> QED BY <1>1, <1>2, <1>3 DEF Allowed
<1>4. CASE /\ on /\ enabled /\ ~(w.mWfdEnabled \/ w.mWfdEnabling)
           /\ wfd' = [w EXCEPT !.mWfdEnabling = TRUE, !.calls = @ + 1]
  <2> HIDE DEF w
  <2>1. w.calls + 1 \in Nat /\ w.calls + 1 > 0
    BY <1>1 DEF WfdType
  <2>2. wfd' \in WfdType
    BY <1>1, <1>4, <2>1, Zenon DEF WfdType
  <2>3. /\ wfd'.mWfdEnabling = TRUE /\ wfd'.mWfdEnabled = w.mWfdEnabled
        /\ wfd'.mWifiDisplayOnSetting = w.mWifiDisplayOnSetting
        /\ wfd'.mWifiP2pEnabled = w.mWifiP2pEnabled /\ wfd'.calls = w.calls + 1
    BY <1>1, <1>4 DEF WfdType
  <2> QED BY <1>1, <1>2, <1>4, <2>1, <2>2, <2>3 DEF Allowed
<1>5. CASE wfd' = [w EXCEPT !.mWfdEnabling = FALSE, !.mWfdEnabled = FALSE]
  <2> HIDE DEF w
  <2> QED BY <1>1, <1>5 DEF Allowed, WfdType
<1> QED BY <1>3, <1>4, <1>5 DEF UpdateWfdEnableState

(* An answer to setWFDInfo keeps it, whichever call it answers.            *)
LEMMA SetWfdInfoGood ==
  ASSUME Allowed(wfd), WfdAnswers
  PROVE  Allowed(wfd')
<1>1. CASE OnSetWfdInfoSuccess
  <2> DEFINE on == wfd.mWfdEnabled \/ wfd.mWfdEnabling
  <2>1. wfd' = [wfd EXCEPT !.calls = @ - 1, !.mWfdEnabling = FALSE, !.mWfdEnabled = on]
    BY <1>1 DEF OnSetWfdInfoSuccess
  <2>2. on \in BOOLEAN /\ (on => wfd.mWifiP2pEnabled /\ wfd.mWifiDisplayOnSetting)
    BY DEF Allowed, WfdType
  <2>3. wfd.calls - 1 \in Nat
    BY <1>1 DEF Allowed, WfdType, OnSetWfdInfoSuccess
  <2> HIDE DEF on
  <2> QED BY <2>1, <2>2, <2>3 DEF Allowed, WfdType
<1>2. CASE OnSetWfdInfoFailure
  <2>1. wfd.calls - 1 \in Nat
    BY <1>2 DEF Allowed, WfdType, OnSetWfdInfoFailure
  <2> QED BY <1>2, <2>1 DEF Allowed, WfdType, OnSetWfdInfoFailure
<1> QED BY <1>1, <1>2 DEF WfdAnswers

(* The same of discovery.                                                   *)
Goes(s) ==
  /\ s \in ScanType
  /\ s.mDiscoverPeersInProgress => s.discovers + s.retries > 0

(* A request for the peers does not touch the scan.                        *)
LEMMA PeersGood ==
  ASSUME Goes(scan), scan' = [scan EXCEPT !.peers = @ + 1]
  PROVE  Goes(scan')
  BY DEF Goes, ScanType

(* A scan asked for has its discovery on the way.                          *)
LEMMA RequestScanGood ==
  ASSUME Goes(scan), RequestScan \/ RequestStopScan
  PROVE  Goes(scan')
<1>1. CASE scan' = scan
  BY <1>1
<1>2. CASE scan' = [scan EXCEPT !.mDiscoverPeersInProgress = TRUE,
                               !.mDiscoverPeersRetriesLeft = ScanRetries,
                               !.scanning = TRUE, !.asked = FALSE,
                               !.ended = "no", !.discovers = @ + 1]
  <2> DEFINE s1 == [scan EXCEPT !.mDiscoverPeersInProgress = TRUE,
                                !.mDiscoverPeersRetriesLeft = ScanRetries]
             s2 == [s1 EXCEPT !.scanning = TRUE, !.asked = FALSE, !.ended = "no"]
  <2>1. s1 \in ScanType
    <3>1. ScanRetries \in 0..ScanRetries
      BY RetriesAssumption
    <3> QED BY <3>1, Zenon DEF Goes, ScanType
  <2>2. s2 \in ScanType
    <3> HIDE DEF s1
    <3> QED BY <2>1 DEF ScanType, Ends
  <2>3. scan' = [s2 EXCEPT !.discovers = @ + 1]
    BY <1>2
  <2> HIDE DEF s2
  <2> QED BY <2>2, <2>3 DEF Goes, ScanType
<1>3. CASE scan' = [scan EXCEPT !.stops = @ + 1, !.asked = TRUE]
  <2> DEFINE s1 == [scan EXCEPT !.asked = TRUE]
  <2>1. /\ s1 \in ScanType /\ s1.discovers = scan.discovers /\ s1.retries = scan.retries
        /\ s1.mDiscoverPeersInProgress = scan.mDiscoverPeersInProgress
    BY Zenon DEF Goes, ScanType
  <2>2. scan' = [s1 EXCEPT !.stops = @ + 1]
    BY <1>3
  <2> HIDE DEF s1
  <2> QED BY <2>1, <2>2 DEF Goes, ScanType
<1> QED BY <1>1, <1>2, <1>3 DEF RequestScan, RequestStopScan

(* A scan given up needs no answer.                                        *)
LEMMA GiveUpGood ==
  ASSUME NEW s \in ScanType
  PROVE  Goes(GiveUpScan(s))
  BY DEF Goes, ScanType, GiveUpScan

(* An answer to discoverPeers ends the scan or leaves a retry.             *)
LEMMA DiscoverAnsweredGood ==
  ASSUME Goes(scan), DiscoverAnswered
  PROVE  Goes(scan')
<1>1. CASE OnDiscoverSuccess
  <2> DEFINE s == [scan EXCEPT !.discovers = @ - 1, !.peers = @ + 1]
  <2>1. s \in ScanType
    <3>1. scan \in ScanType /\ scan.discovers - 1 \in Nat /\ scan.peers + 1 \in Nat
      BY <1>1 DEF OnDiscoverSuccess, Goes, ScanType
    <3> QED BY <3>1, Zenon DEF ScanType
  <2>2. scan' = [s EXCEPT !.mDiscoverPeersInProgress = FALSE]
    BY <1>1 DEF OnDiscoverSuccess
  <2> HIDE DEF s
  <2> QED BY <2>1, <2>2 DEF Goes, ScanType
<1>2. ASSUME NEW isError \in BOOLEAN, OnDiscoverFailure(isError)
      PROVE  Goes(scan')
  <2> DEFINE s == [scan EXCEPT !.discovers = @ - 1]
  <2>1. /\ s \in ScanType /\ s.retries = scan.retries
        /\ s.mDiscoverPeersInProgress = scan.mDiscoverPeersInProgress
    BY <1>2 DEF OnDiscoverFailure, Goes, ScanType
  <2>2. \/ ~s.mDiscoverPeersInProgress /\ scan' = s
        \/ scan' = [s EXCEPT !.retries = @ + 1]
        \/ scan' = GiveUpScan(s)
    BY <1>2 DEF OnDiscoverFailure
  <2> HIDE DEF s
  <2>3. CASE ~s.mDiscoverPeersInProgress /\ scan' = s
    BY <2>1, <2>3 DEF Goes
  <2>4. CASE scan' = [s EXCEPT !.retries = @ + 1]
    BY <2>1, <2>4 DEF Goes, ScanType
  <2> QED BY <2>1, <2>2, <2>3, <2>4, GiveUpGood
<1> QED BY <1>1, <1>2 DEF DiscoverAnswered

(* A retry ends the scan or asks again.                                    *)
LEMMA RetryDiscoverGood ==
  ASSUME Goes(scan), RetryDiscover
  PROVE  Goes(scan')
<1> DEFINE s == [scan EXCEPT !.retries = @ - 1]
<1>1. s \in ScanType /\ s.mDiscoverPeersInProgress = scan.mDiscoverPeersInProgress
  BY DEF RetryDiscover, Goes, ScanType
<1>2. \/ ~s.mDiscoverPeersInProgress /\ scan' = s
      \/ /\ s.mDiscoverPeersRetriesLeft > 0
         /\ scan' = [s EXCEPT !.mDiscoverPeersRetriesLeft = @ - 1, !.discovers = @ + 1]
      \/ scan' = GiveUpScan(s)
  BY DEF RetryDiscover
<1> HIDE DEF s
<1>3. CASE ~s.mDiscoverPeersInProgress /\ scan' = s
  BY <1>1, <1>3 DEF Goes
<1>4. CASE /\ s.mDiscoverPeersRetriesLeft > 0
           /\ scan' = [s EXCEPT !.mDiscoverPeersRetriesLeft = @ - 1, !.discovers = @ + 1]
  <2>1. s.mDiscoverPeersRetriesLeft - 1 \in 0..ScanRetries
    BY <1>1, <1>4, RetriesAssumption DEF ScanType
  <2> DEFINE t == [s EXCEPT !.mDiscoverPeersRetriesLeft = @ - 1]
  <2>2. t \in ScanType
    BY <1>1, <2>1 DEF ScanType
  <2>3. scan' = [t EXCEPT !.discovers = @ + 1]
    BY <1>4
  <2> HIDE DEF t
  <2> QED BY <2>2, <2>3 DEF Goes, ScanType
<1> QED BY <1>1, <1>2, <1>3, <1>4, GiveUpGood

(* An answer to stopPeerDiscovery keeps it.                                *)
LEMMA StopAnsweredGood ==
  ASSUME Goes(scan), StopAnswered
  PROVE  Goes(scan')
<1> PICK success \in BOOLEAN : OnStopPeerDiscovery(success)
  BY DEF StopAnswered
<1> DEFINE on == scan.mDiscoverPeersInProgress /\ ~success
           by == IF ~(success /\ scan.mDiscoverPeersInProgress) THEN scan.ended
                 ELSE IF scan.asked THEN "stopped" ELSE "cut short"
<1>1. scan' = [scan EXCEPT !.stops = @ - 1, !.mDiscoverPeersInProgress = on, !.ended = by]
  BY DEF OnStopPeerDiscovery
<1>2. /\ on \in BOOLEAN /\ scan.stops - 1 \in Nat
      /\ on => scan.mDiscoverPeersInProgress
  BY DEF OnStopPeerDiscovery, Goes, ScanType
<1>3. by \in Ends
  BY DEF Goes, ScanType, Ends
<1> HIDE DEF on, by
<1> QED BY <1>1, <1>2, <1>3 DEF Goes, ScanType

(* A list of peers keeps it.                                               *)
LEMMA PeersAnsweredGood ==
  ASSUME Goes(scan), Linked, PeersAnswered
  PROVE  Goes(scan')
<1> PICK found \in SUBSET Devices : OnPeersAvailable(found)
  BY DEF PeersAnswered
<1> DEFINE peers == {<<d, link.numbered + 1>> : d \in found}
           s == [scan EXCEPT !.peers = @ - 1, !.scanning = FALSE]
<1>1. peers \in SUBSET Objects
  <2>1. link.numbered + 1 \in Nat
    BY FieldValues DEF Linked
  <2> QED BY <2>1 DEF Objects
<1>2. s \in ScanType
  <2>1. scan \in ScanType /\ scan.peers - 1 \in Nat
    BY DEF OnPeersAvailable, Goes, ScanType
  <2> QED BY <2>1, Zenon DEF ScanType
<1>3. /\ s.mDiscoverPeersInProgress = scan.mDiscoverPeersInProgress
      /\ s.discovers = scan.discovers /\ s.retries = scan.retries
  BY DEF Goes, ScanType
<1>4. scan' = [s EXCEPT !.mAvailableWifiDisplayPeers = peers]
  BY DEF OnPeersAvailable
<1> HIDE DEF s, peers
<1> QED BY <1>1, <1>2, <1>3, <1>4 DEF Goes, ScanType

-----------------------------------------------------------------------------
(* Every step                                                              *)

(* The inductive invariant: the types, and Consistent in the form the      *)
(* lemmas use.                                                             *)
IInv ==
  /\ link \in LinkType /\ Held(link)
  /\ Allowed(wfd)
  /\ Goes(scan)
  /\ plan \in PlanType

(* The inductive invariant is TypeOK and Consistent, said by parts.        *)
LEMMA IInvIsInvariant == IInv <=> TypeOK /\ Consistent
  BY HeldIsConsistent
  DEF IInv, Allowed, Goes, TypeOK, Consistent, FeatureIsAllowed, ScanGoesOn

(* It holds at first.                                                      *)
LEMMA InitGood == Init => IInv
<1> SUFFICES ASSUME Init PROVE IInv
  OBVIOUS
<1>1. plan \in PlanType
  BY PlansAssumption DEF Init
<1>2. NoLink \in LinkType
  BY RetriesAssumption DEF NoLink, LinkType, Known
<1>3. Held(NoLink)
  BY DEF NoLink, Held, Between, OneTaken, DisplayIsOfConnected
<1>4. Allowed(wfd)
  BY <1>1 DEF Init, Allowed, WfdType, PlanType
<1>5. Goes(scan)
  <2>1. (IF plan.up THEN {<<d, 0>> : d \in Devices} ELSE {}) \in SUBSET Objects
    BY DEF Objects
  <2>2. "no" \in Ends
    BY DEF Ends
  <2> QED BY <2>1, <2>2, RetriesAssumption DEF Init, Goes, ScanType
<1> QED BY <1>1, <1>2, <1>3, <1>4, <1>5 DEF Init, IInv

(* What users and framework do.                                            *)
LEMMA RequestsGood ==
  ASSUME IInv, RequestsAndBroadcasts
  PROVE  IInv' /\ (Keeps(link, link') \/ UNCHANGED link)
<1> USE DEF IInv, Linked
<1>1. ASSUME NEW o \in scan.mAvailableWifiDisplayPeers, NEW hasAddress \in BOOLEAN,
             RequestConnect(o, hasAddress)
      PROVE  IInv' /\ Keeps(link, link')
  <2>1. Keeps(link, link')
    BY <1>1, RequestConnectKeeps DEF Goes
  <2>2. plan' \in PlanType /\ wfd' = wfd /\ scan' = scan
    BY <1>1, PlanTypes DEF RequestConnect
  <2> QED BY <2>1, <2>2 DEF Keeps
<1>2. ASSUME RequestDisconnect PROVE IInv' /\ Keeps(link, link')
  <2>1. Keeps(link, link')
    BY <1>2, DisconnectHolds DEF RequestDisconnect
  <2>2. plan' \in PlanType /\ wfd' = wfd /\ scan' = scan
    BY <1>2, PlanTypes DEF RequestDisconnect
  <2> QED BY <2>1, <2>2 DEF Keeps
<1>3. ASSUME NEW isConnected \in BOOLEAN, HandleConnectionChanged(isConnected)
      PROVE  IInv' /\ Keeps(link, link')
  <2>1. Keeps(link, link')
    BY <1>3, HandleConnectionChangedKeeps
  <2>2. plan' \in PlanType /\ wfd' = wfd
    BY <1>3, PlanTypes DEF HandleConnectionChanged
  <2>3. Goes(scan')
    BY <1>3, PeersGood DEF HandleConnectionChanged
  <2> QED BY <2>1, <2>2, <2>3 DEF Keeps
<1>4. ASSUME NEW on \in BOOLEAN, UpdateSettings(on)
      PROVE  IInv' /\ Keeps(link, link')
  <2>1. wfd.mWifiP2pEnabled \in BOOLEAN /\ UpdateWfdEnableState(on, wfd.mWifiP2pEnabled)
    BY <1>4 DEF UpdateSettings, Allowed, WfdType
  <2>2. plan' \in PlanType /\ scan' = scan
    BY <1>4, PlanTypes DEF UpdateSettings
  <2> QED BY <2>1, <2>2, UpdateWfdKeeps, UpdateWfdGood DEF Keeps
<1>5. ASSUME NEW enabled \in BOOLEAN, HandleStateChanged(enabled)
      PROVE  IInv' /\ Keeps(link, link')
  <2>1. /\ wfd.mWifiDisplayOnSetting \in BOOLEAN
        /\ UpdateWfdEnableState(wfd.mWifiDisplayOnSetting, enabled)
    BY <1>5 DEF HandleStateChanged, Allowed, WfdType
  <2>2. plan' \in PlanType /\ scan' = scan
    BY <1>5, PlanTypes DEF HandleStateChanged
  <2> QED BY <2>1, <2>2, UpdateWfdKeeps, UpdateWfdGood DEF Keeps
<1>6. ASSUME RequestScan \/ RequestStopScan PROVE IInv' /\ UNCHANGED link
  <2>1. plan' \in PlanType /\ wfd' = wfd /\ link' = link
    BY <1>6, PlanTypes DEF RequestScan, RequestStopScan
  <2> QED BY <1>6, <2>1, RequestScanGood
<1>7. ASSUME HandlePeersChanged PROVE IInv' /\ UNCHANGED link
  <2>1. plan' \in PlanType /\ wfd' = wfd /\ link' = link
    BY <1>7, PlanTypes DEF HandlePeersChanged
  <2>2. Goes(scan')
    BY <1>7, PeersGood DEF HandlePeersChanged
  <2> QED BY <2>1, <2>2
<1> QED BY <1>1, <1>2, <1>3, <1>4, <1>5, <1>6, <1>7 DEF RequestsAndBroadcasts

(* What the framework answers and the handler delivers about the link.     *)
LEMMA LinkAnswersGood ==
  ASSUME IInv,
         \/ ConnectAnswered \/ RemoveGroupAnswered \/ CancelConnectAnswered
         \/ GroupInfoAnswered \/ TimedOut \/ RtspTimeout \/ Retried \/ DisplayEvents
  PROVE  IInv' /\ Keeps(link, link')
<1> USE DEF IInv, Linked
<1>1. CASE ConnectAnswered
  <2> PICK call \in link.calls : OnConnectSuccess(call) \/ OnConnectFailure(call)
    BY <1>1 DEF ConnectAnswered
  <2>1. Keeps(link, link')
    BY OnConnectSuccessKeeps, OnConnectFailureKeeps
  <2>2. UNCHANGED <<wfd, scan, plan>>
    BY DEF OnConnectSuccess, OnConnectFailure
  <2> QED BY <2>1, <2>2 DEF Keeps
<1>2. CASE RemoveGroupAnswered
  <2> PICK call \in link.calls, hasAddress \in BOOLEAN : OnRemoveGroup(call, hasAddress)
    BY <1>2 DEF RemoveGroupAnswered
  <2>1. Keeps(link, link')
    BY OnRemoveGroupKeeps
  <2>2. UNCHANGED <<wfd, scan, plan>>
    BY DEF OnRemoveGroup
  <2> QED BY <2>1, <2>2 DEF Keeps
<1>3. CASE CancelConnectAnswered
  <2> PICK call \in link.calls, hasAddress \in BOOLEAN : OnCancelConnect(call, hasAddress)
    BY <1>3 DEF CancelConnectAnswered
  <2>1. Keeps(link, link')
    BY OnCancelConnectKeeps
  <2>2. UNCHANGED <<wfd, scan, plan>>
    BY DEF OnCancelConnect
  <2> QED BY <2>1, <2>2 DEF Keeps
<1>4. CASE GroupInfoAnswered
  <2> PICK members \in SUBSET Devices, hasAddress \in BOOLEAN :
             OnGroupInfoAvailable(members, hasAddress)
    BY <1>4 DEF GroupInfoAnswered
  <2>1. Keeps(link, link')
    BY OnGroupInfoKeeps
  <2>2. UNCHANGED <<wfd, scan, plan>>
    BY DEF OnGroupInfoAvailable
  <2> QED BY <2>1, <2>2 DEF Keeps
<1>5. CASE TimedOut
  <2> PICK attempt \in link.connectionTimeouts : ConnectionTimeout(attempt)
    BY <1>5 DEF TimedOut
  <2>1. Keeps(link, link')
    BY ConnectionTimeoutKeeps
  <2>2. UNCHANGED <<wfd, scan, plan>>
    BY DEF ConnectionTimeout
  <2> QED BY <2>1, <2>2 DEF Keeps
<1>6. CASE RtspTimeout
  <2>1. Keeps(link, link')
    BY <1>6, RtspTimeoutKeeps
  <2>2. UNCHANGED <<wfd, scan, plan>>
    BY <1>6 DEF RtspTimeout
  <2> QED BY <2>1, <2>2 DEF Keeps
<1>7. CASE Retried
  <2> PICK oldDevice \in link.retries, hasAddress \in BOOLEAN :
             RetryConnection(oldDevice, hasAddress)
    BY <1>7 DEF Retried
  <2>1. Keeps(link, link')
    BY RetryConnectionKeeps
  <2>2. UNCHANGED <<wfd, scan, plan>>
    BY DEF RetryConnection
  <2> QED BY <2>1, <2>2 DEF Keeps
<1>8. CASE DisplayEvents
  <2>1. Keeps(link, link')
    BY <1>8, OnDisplayConnectedKeeps, OnDisplayLostKeeps DEF DisplayEvents
  <2>2. UNCHANGED <<wfd, scan, plan>>
    BY <1>8 DEF DisplayEvents, OnDisplayConnected, OnDisplayDisconnected, OnDisplayError
  <2> QED BY <2>1, <2>2 DEF Keeps
<1> QED BY <1>1, <1>2, <1>3, <1>4, <1>5, <1>6, <1>7, <1>8

(* What it answers about the feature and discovery.                        *)
LEMMA OtherAnswersGood ==
  ASSUME IInv,
         WfdAnswers \/ DiscoverAnswered \/ RetryDiscover \/ StopAnswered \/ PeersAnswered
  PROVE  IInv' /\ (Keeps(link, link') \/ UNCHANGED link)
<1> USE DEF IInv, Linked
<1>1. CASE WfdAnswers
  <2>1. UNCHANGED <<link, scan, plan>>
    BY <1>1 DEF WfdAnswers, OnSetWfdInfoSuccess, OnSetWfdInfoFailure
  <2> QED BY <1>1, <2>1, SetWfdInfoGood
<1>2. CASE DiscoverAnswered
  <2>1. UNCHANGED <<link, wfd, plan>>
    BY <1>2 DEF DiscoverAnswered, OnDiscoverSuccess, OnDiscoverFailure
  <2> QED BY <1>2, <2>1, DiscoverAnsweredGood
<1>3. CASE RetryDiscover
  <2>1. UNCHANGED <<link, wfd, plan>>
    BY <1>3 DEF RetryDiscover
  <2> QED BY <1>3, <2>1, RetryDiscoverGood
<1>4. CASE StopAnswered
  <2>1. UNCHANGED <<link, wfd, plan>>
    BY <1>4 DEF StopAnswered, OnStopPeerDiscovery
  <2> QED BY <1>4, <2>1, StopAnsweredGood
<1>5. CASE PeersAnswered
  <2> PICK found \in SUBSET Devices : OnPeersAvailable(found)
    BY <1>5 DEF PeersAnswered
  <2>1. Keeps(link, link')
    BY OnPeersAvailableKeeps
  <2>2. UNCHANGED <<wfd, plan>>
    BY DEF OnPeersAvailable
  <2> QED BY <1>5, <2>1, <2>2, PeersAnsweredGood DEF Keeps
<1> QED BY <1>1, <1>2, <1>3, <1>4, <1>5

(* Every step keeps it and tells the listener one thing at most.           *)
LEMMA NextGood ==
  ASSUME IInv, [Next]_vars
  PROVE  IInv' /\ (Keeps(link, link') \/ UNCHANGED link)
<1>1. CASE UNCHANGED vars
  BY <1>1 DEF vars, IInv
<1>2. CASE Next
  BY <1>2, RequestsGood, LinkAnswersGood, OtherAnswersGood DEF Next
<1> QED BY <1>1, <1>2

(* It holds in every reachable state.                                      *)
LEMMA Inductive == Spec => []IInv
<1>1. Init => IInv
  BY InitGood
<1>2. IInv /\ [Next]_vars => IInv'
  BY NextGood
<1> QED BY <1>1, <1>2, PTL DEF Spec

-----------------------------------------------------------------------------
(* Theorems                                                                *)

(* Every variable has its type, for every set of devices.                  *)
THEOREM TypeCorrect == Spec => []TypeOK
<1>1. IInv => TypeOK
  BY IInvIsInvariant
<1> QED BY <1>1, Inductive, PTL

(* No two devices have a role at the same time, the display listened to    *)
(* and the one announced are that of the connected device, and nothing is  *)
(* in progress that nobody will end: whatever users, framework and devices *)
(* do, in any order and any number.                                        *)
THEOREM StaysConsistent == Spec => []Consistent
<1>1. IInv => Consistent
  BY IInvIsInvariant
<1> QED BY <1>1, Inductive, PTL

(* The controller implements what its listener is promised.                *)
THEOREM ListenerToldInOrder == Spec => ToldInOrder
<1>1. Init => Told!Init
  BY DEF Init, NoLink, Told!Init
<1>2. ASSUME IInv, [Next]_vars
      PROVE  [Told!Next]_(Told!vars)
  <2>1. CASE UNCHANGED link
    BY <2>1 DEF Told!vars
  <2>2. CASE Keeps(link, link')
    <3>1. link \in LinkType /\ link' \in LinkType /\ Tells(link, link')
      BY <1>2, <2>2 DEF IInv, Keeps
    <3> QED BY <3>1, TellsIsListener
        DEF Told!Next, Told!vars, Told!OnDisplayConnecting, Told!OnDisplayConnected,
            Told!OnDisplayConnectionFailed, Told!OnDisplayDisconnected
  <2> QED BY <1>2, <2>1, <2>2, NextGood
<1> QED BY <1>1, <1>2, Inductive, PTL DEF Spec, ToldInOrder, Told!Spec
=============================================================================
