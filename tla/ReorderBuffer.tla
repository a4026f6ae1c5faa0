---------------------------- MODULE ReorderBuffer ----------------------------
(***************************************************************************)
(* What TunnelRenderer.h promises: "reassembles incoming RTP packets into  *)
(* the correct order and sends the resulting transport stream to a         *)
(* mediaplayer instance" (sink/TunnelRenderer.h:33-35).                    *)
(*                                                                         *)
(* The promise, without lists, locks, clocks or media buffers: packets     *)
(* are held in a set, and what leaves is always the oldest packet held,    *)
(* never a packet older than one that already left.                        *)
(***************************************************************************)
EXTENDS Integers, Sequences

CONSTANT ExtSeqNos      \* the extended sequence numbers packets may carry

VARIABLES
  held,                 \* packets waiting to be played
  last,                 \* the packet played last, -1 before the first one
  played                \* everything played so far, in order

vars == <<held, last, played>>

Init == held = {} /\ last = -1 /\ played = << >>

(* A packet arrives. One that is not newer than what was played is ignored. *)
Accept(e) ==
  /\ e > last
  /\ held' = held \cup {e}
  /\ UNCHANGED <<last, played>>

(* The oldest packet held is played; the packets in between are given up.  *)
Play(e) ==
  /\ e \in held
  /\ \A f \in held : e <= f
  /\ held' = held \ {e}
  /\ last' = e
  /\ played' = Append(played, e)

Next == \E e \in ExtSeqNos : Accept(e) \/ Play(e)

Spec == Init /\ [][Next]_vars

=============================================================================
