--------------------------- MODULE UpdatePipeline ---------------------------
(***************************************************************************)
(* updater_run (updater.c): fetch a manifest, decide whether its image is  *)
(* wanted, fetch and verify the image, then invalidate, rewrite, read back *)
(* and commit the update slot.  The actions follow the step numbers of the *)
(* code.  Two digests are equal exactly when the bytes are, so a manifest  *)
(* carries the image it describes; the version is only its claim.          *)
(* A refusal is a return with the flash untouched.                         *)
(***************************************************************************)
EXTENDS BoardState

\* updater_run returns, and do_update answers.
Reply(r) == pc' = "serve" /\ reply' = r

\* image_is_bootable, of the block that holds the boot header.
Bootable(img) == img[1] \in BootHeaders

\* Step 2: GET update.sha, parse it, and refuse what cannot fit the slot
\* before anything is invalidated.
GetManifest ==
  /\ pc = "manifest"
  /\ \/ /\ Fault("net")
        /\ Reply("REFUSED") /\ UNCHANGED man
     \/ /\ NoFault
        /\ \E m \in Manifests :
             /\ man' = m
             /\ IF Len(m.image) > SlotBlocks
                THEN Reply("REFUSED")
                ELSE pc' = "wanted" /\ UNCHANGED reply
  /\ UNCHANGED <<flash, platform, call, st, force, off, baseline, tries>>

\* Mutated form of Downgrade: the force flag decides alone.
DowngradeUngated(rec) == FALSE

Downgrade(rec) == rec.present /\ man.version < rec.version /\ ~force

\* Step 2b: a declared downgrade is refused unless forced.
CheckWanted ==
  /\ pc = "wanted"
  /\ \E rec \in Readable :
       /\ BootStateRead(rec)
       /\ st' = rec
       /\ IF Downgrade(rec)
          THEN Reply("REFUSED")
          ELSE pc' = "hash" /\ UNCHANGED reply
  /\ UNCHANGED <<flash, platform, call, man, force, off, baseline, tries>>

\* Mutated form of RecordAgrees: a digest match alone is reported as done.
RecordIgnored == TRUE

RecordAgrees == st.present /\ st.version = man.version

\* Step 2c: hash the slot over the manifest's length.  A slot that cannot be
\* read only loses the shortcut; a match with a record that agrees is all
\* there is to do; a match with another record completes that record.
HashSlot ==
  /\ pc = "hash"
  /\ \/ /\ Fault("read")
        /\ pc' = "image" /\ UNCHANGED reply
     \/ /\ NoFault
        /\ CASE ~SlotHolds(man.image) -> pc' = "image" /\ UNCHANGED reply
             [] SlotHolds(man.image) /\ RecordAgrees -> Reply("SKIPPED")
             [] OTHER -> pc' = "header" /\ UNCHANGED reply
  /\ UNCHANGED <<flash, platform, call, ram, baseline, tries>>

\* Step 8, reached by step 7 and by step 2c: record the slot as good.
CommitSlot ==
  CallWrite([present |-> TRUE, attempts |-> 0, version |-> man.version], "install")

\* Step 2c, a match the record does not know of: the slot must still be
\* something the BootROM will load.
CompleteRecord ==
  /\ pc = "header"
  /\ \/ /\ Fault("read")
        /\ Reply("REFUSED") /\ UNCHANGED <<st, ret>>
     \/ /\ NoFault /\ slot[1] \notin BootHeaders
        /\ Reply("REFUSED") /\ UNCHANGED <<st, ret>>
     \/ /\ NoFault /\ slot[1] \in BootHeaders
        /\ CommitSlot /\ UNCHANGED reply
  /\ UNCHANGED <<flash, platform, br, man, force, off, baseline, tries>>

\* Steps 3 to 4b ask of what arrived: long enough, the described bytes over
\* the described length, and a Zynq boot image.
Acceptable(img) ==
  /\ Len(img) >= Len(man.image)
  /\ SubSeq(img, 1, Len(man.image)) = man.image
  /\ Bootable(man.image)

\* Mutated form of GetImage: step 5 moved before steps 4 and 4b.
GetImageInvalidateFirst ==
  /\ pc = "image"
  /\ NoFault
  /\ sector' = Unreadable
  /\ \E img \in Images :
       IF Acceptable(img)
       THEN CallWrite([st EXCEPT !.present = FALSE], "invalidate") /\ UNCHANGED reply
       ELSE Reply("REFUSED") /\ UNCHANGED <<st, ret>>
  /\ UNCHANGED <<slot, platform, br, man, force, off, baseline, tries>>

\* Mutated form of GetImage: the slot is rewritten without step 5.
GetImageNoInvalidate ==
  /\ pc = "image"
  /\ NoFault
  /\ \E img \in Images :
       IF Acceptable(img)
       THEN pc' = "erase" /\ off' = 0 /\ UNCHANGED reply
       ELSE Reply("REFUSED") /\ UNCHANGED off
  /\ UNCHANGED <<flash, platform, call, st, man, force, baseline, tries>>

\* Steps 3 to 5: GET update.bin, verify it, and only then give up the
\* installed update by recording the slot as empty.
GetImage ==
  /\ pc = "image"
  /\ \/ /\ Fault("net")
        /\ Reply("REFUSED") /\ UNCHANGED <<st, ret>>
     \/ /\ NoFault
        /\ \E img \in Images :
             IF Acceptable(img)
             THEN CallWrite([st EXCEPT !.present = FALSE], "invalidate") /\ UNCHANGED reply
             ELSE Reply("REFUSED") /\ UNCHANGED <<st, ret>>
  /\ UNCHANGED <<flash, platform, br, man, force, off, baseline, tries>>

\* Step 5 returns: go on only if the record took.
Invalidated ==
  /\ pc = "invalidate"
  /\ IF br = "ok"
     THEN pc' = "erase" /\ off' = 0 /\ UNCHANGED reply
     ELSE Reply("ERR") /\ UNCHANGED off
  /\ UNCHANGED <<flash, platform, call, st, man, force, baseline, tries, budget>>

\* Mutated form of NextBlock: one block too many.
NextBlockOverrun(next) ==
  IF off < Len(man.image)
  THEN off' = off + 1 /\ UNCHANGED pc
  ELSE off' = 0 /\ pc' = next

\* The loops of step 6 run over the blocks the image spans.
NextBlock(next) ==
  IF off + 1 < Len(man.image)
  THEN off' = off + 1 /\ UNCHANGED pc
  ELSE off' = 0 /\ pc' = next

\* One block of step 6, for the operation that leaves the contents new there.
\* It can fail and leave anything it touched, or report success over a block
\* that did not take.
WriteBlock(new, next) ==
  \/ /\ NoFault
     /\ slot' = [slot EXCEPT ![off + 1] = new]
     /\ NextBlock(next) /\ UNCHANGED reply
  \/ /\ Fault("write")
     /\ \E b \in {slot[off + 1], new} \cup Garbage :
          slot' = [slot EXCEPT ![off + 1] = b]
     /\ Reply("ERR") /\ UNCHANGED off
  \/ /\ Fault("write")
     /\ \E b \in Garbage : slot' = [slot EXCEPT ![off + 1] = b]
     /\ NextBlock(next) /\ UNCHANGED reply

\* Step 6, erase: one 64 KB sector.
Erase ==
  /\ pc = "erase"
  /\ WriteBlock(Erased, "program")
  /\ UNCHANGED <<sector, platform, call, st, man, force, baseline, tries>>

\* Programming clears bits only: a block that was not erased becomes garbage.
Programmed(block) ==
  IF slot[off + 1] = Erased THEN {block} ELSE Garbage

\* Step 6, program: one 64 KB chunk of the downloaded image.
Program ==
  /\ pc = "program"
  /\ \E new \in Programmed(man.image[off + 1]) : WriteBlock(new, "readback")
  /\ UNCHANGED <<sector, platform, call, st, man, force, baseline, tries>>

\* Mutated form of ReadBack: what landed is not compared.
ReadBackTrusted ==
  /\ pc = "readback"
  /\ NoFault
  /\ CommitSlot /\ UNCHANGED reply
  /\ UNCHANGED <<flash, platform, br, man, force, off, baseline, tries>>

\* Step 7: hash what landed, and commit it only if it is the image.
ReadBack ==
  /\ pc = "readback"
  /\ \/ /\ Fault("read")
        /\ Reply("ERR") /\ UNCHANGED <<st, ret>>
     \/ /\ NoFault /\ ~SlotHolds(man.image)
        /\ Reply("ERR") /\ UNCHANGED <<st, ret>>
     \/ /\ NoFault /\ SlotHolds(man.image)
        /\ CommitSlot /\ UNCHANGED reply
  /\ UNCHANGED <<flash, platform, br, man, force, off, baseline, tries>>

\* Mutated form of Installed: the result of the commit is not looked at.
InstalledAnyway ==
  /\ pc = "install"
  /\ Reply("INSTALLED")
  /\ UNCHANGED <<flash, platform, call, ram, baseline, tries, budget>>

\* Step 8 returns.
Installed ==
  /\ pc = "install"
  /\ Reply(IF br = "ok" THEN "INSTALLED" ELSE "ERR")
  /\ UNCHANGED <<flash, platform, call, ram, baseline, tries, budget>>

Pipeline ==
  \/ GetManifest \/ CheckWanted \/ HashSlot \/ CompleteRecord \/ GetImage
  \/ Invalidated \/ Erase \/ Program \/ ReadBack \/ Installed
=============================================================================
