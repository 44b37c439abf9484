------------------------------- MODULE MCQspi -------------------------------
(***************************************************************************)
(* TLC instances of QspiFlash: a part of eight pages, two to a sector.     *)
(* The sectors are golden, two of the update slot, and the boot state.     *)
(***************************************************************************)
EXTENDS QspiFlash, TLC

\* Bytes a page apart differ, as neighbours do.
MCSources ==
  {[k \in 1 .. FlashSize |-> IF k % 3 = 0 THEN {1} ELSE IF k % 3 = 1 THEN {2} ELSE {}]}

\* Golden and the record are programmed; the slot is erased.
MCContents ==
  {[a \in Addresses |-> IF a \in Region("image") THEN {} ELSE {1}]}
=============================================================================
