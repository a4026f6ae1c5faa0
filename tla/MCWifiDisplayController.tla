---------------------- MODULE MCWifiDisplayController ----------------------
(* TLC instances of WifiDisplayController.                                  *)
EXTENDS WifiDisplayController

(* One connection asked for twice; one that is caught by the feature going *)
(* off; scans and the feature from the beginning on.                       *)
MCPlans ==
  {[up |-> TRUE, requests |-> 2, broadcasts |-> 2, scans |-> 0, toggles |-> 0],
   [up |-> TRUE, requests |-> 1, broadcasts |-> 1, scans |-> 0, toggles |-> 1],
   [up |-> FALSE, requests |-> 0, broadcasts |-> 0, scans |-> 2, toggles |-> 3]}

(* Connect, disconnect, connect again.                                     *)
ThreeRequests ==
  {[up |-> TRUE, requests |-> 3, broadcasts |-> 0, scans |-> 0, toggles |-> 0]}
=============================================================================
