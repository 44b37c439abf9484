------------------------------- MODULE MCBoard ------------------------------
(***************************************************************************)
(* Small instances of Board.  Image A has two blocks and a healthy         *)
(* payload; Bad is one block and never becomes healthy; Refused passes     *)
(* image_is_bootable but not the BootROM; Blank reads as erased flash and  *)
(* has no boot header; Long does not fit the slot; Stub is A cut short.    *)
(***************************************************************************)
EXTENDS Board

MCBlocks == {"ff", "hA", "a", "hBad", "hRef", "torn", "tornh"}
MCGarbage == {"torn", "tornh"}
MCBootHeaders == {"hA", "hBad", "hRef", "tornh"}
MCLoadable == {"hA", "hBad", "tornh"}

A == <<"hA", "a">>
Bad == <<"hBad">>
Refused == <<"hRef", "a">>
Blank == <<"ff">>
Long == <<"hA", "a", "a">>
Stub == <<"hA">>

Describe(img, v) == [image |-> img, version |-> v]

FieldImages == {A, Bad, Refused, Blank, Long, Stub}
FieldManifests ==
  {Describe(A, 2), Describe(Bad, 1), Describe(Refused, 1),
   Describe(Blank, 1), Describe(Long, 2), Describe(Stub, 1)}

LiveImages == {A, Bad, Refused}
LiveManifests == {Describe(A, 2), Describe(Bad, 1), Describe(Refused, 1)}

OneImage == {A}
OneManifest == {Describe(A, 1)}

MCHealthy == {A}
MCSearchEnds == {512}
AllFaults == FaultClasses
InitFaults == {"init"}
ResetFaults == {"reset"}
LiveFaults == {"reset", "write", "net", "netif", "hang"}
AllVerbs == VerbNames
=============================================================================
