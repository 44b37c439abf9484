---------------------------- MODULE VerifiedSlot ----------------------------
(***************************************************************************)
(* What the flash promises a board: the contents of the update slot are    *)
(* vouched for, by version, only while they are the whole of an image some *)
(* manifest describes and that has a boot header.  Nothing may be written  *)
(* to a slot that is vouched for, whatever fails and whenever power goes.  *)
(***************************************************************************)
EXTENDS Naturals, Sequences

CONSTANTS Blocks, BootHeaders, SlotBlocks, Manifests

VARIABLES
  slot,      \* the contents of the update slot
  vouched    \* the version on record: {v}, or {} for none

Holds(img) ==
  /\ Len(img) <= SlotBlocks
  /\ \A i \in 1 .. Len(img) : slot[i] = img[i]

\* The slot holds, whole, the bootable image of a manifest of version v.
Verified(v) ==
  \E m \in Manifests :
    /\ m.version = v
    /\ Holds(m.image)
    /\ m.image[1] \in BootHeaders

Init ==
  /\ slot \in [1 .. SlotBlocks -> Blocks]
  /\ vouched = {}

\* The record stops vouching: a rewrite is about to start, or the record
\* itself is being rewritten or was lost.
Withdraw == vouched' = {} /\ UNCHANGED slot

\* Anything at all can be written while nothing vouches for the slot.
Rewrite ==
  /\ vouched = {} /\ vouched' = {}
  /\ slot' \in [1 .. SlotBlocks -> Blocks]

Vouch ==
  /\ vouched = {}
  /\ \E v \in {m.version : m \in Manifests} : Verified(v) /\ vouched' = {v}
  /\ UNCHANGED slot

Next == Withdraw \/ Rewrite \/ Vouch

Spec == Init /\ [][Next]_<<slot, vouched>>
=============================================================================
