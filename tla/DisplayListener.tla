--------------------------- MODULE DisplayListener ---------------------------
(***************************************************************************)
(* What WifiDisplayController.Listener is promised: at most one display at *)
(* a time, announced as connecting before it is connected, and taken back  *)
(* by onDisplayConnectionFailed if it never was connected, otherwise by    *)
(* onDisplayDisconnected.                                                  *)
(***************************************************************************)
CONSTANTS Devices,   \* addresses of displays
          null       \* no display

VARIABLES display,   \* the display last announced, or null
          connected  \* whether it was announced as connected

vars == <<display, connected>>

Init == display = null /\ connected = FALSE

OnDisplayConnecting(d) ==
  /\ display = null
  /\ display' = d
  /\ UNCHANGED connected

OnDisplayConnected ==
  /\ display # null /\ ~connected
  /\ connected' = TRUE
  /\ UNCHANGED display

OnDisplayConnectionFailed ==
  /\ display # null /\ ~connected
  /\ display' = null
  /\ UNCHANGED connected

OnDisplayDisconnected ==
  /\ connected
  /\ display' = null
  /\ connected' = FALSE

Next ==
  \/ \E d \in Devices : OnDisplayConnecting(d)
  \/ OnDisplayConnected
  \/ OnDisplayConnectionFailed
  \/ OnDisplayDisconnected

Spec == Init /\ [][Next]_vars
=============================================================================
