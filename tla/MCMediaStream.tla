---------------------------- MODULE MCMediaStream ----------------------------
(* MediaStream for TLC: units at the sizes where the number of transport   *)
(* stream packets changes, with and without the tables.                    *)
EXTENDS MediaStream

Video(size, tables) == [track |-> 1, size |-> size, extra |-> 0, tables |-> tables]
Hidden(size)        == [track |-> 1, size |-> size, extra |-> 17, tables |-> FALSE]
Audio(size, tables) == [track |-> 2, size |-> size, extra |-> 2, tables |-> tables]

MCPlans ==
  {<<Video(170, TRUE), Audio(160, FALSE), Video(355, FALSE), Audio(168, TRUE)>>,
   <<Audio(169, TRUE), Hidden(154), Video(354, FALSE), Hidden(153), Audio(0, FALSE),
     Audio(160, FALSE)>>}
MCSizes  == {0}
MCExtras == {0}
MCKinds  == <<"avc", "aac">>
=============================================================================
