----------------------------- MODULE BoardProofs ----------------------------
(***************************************************************************)
(* What TLAPS proves of Board for every value of its constants: its type   *)
(* correctness, that a record claiming an update stands over a verified    *)
(* slot, that only verified code runs from the slot, and that the board    *)
(* implements VerifiedSlot.                                                *)
(***************************************************************************)
EXTENDS Board, TLAPS

-----------------------------------------------------------------------------
(* Lemmas about the helpers                                                *)

\* The safe default is a record.
LEMMA DefaultIsRecord == DefaultRecord \in Record
BY DEF DefaultRecord, Record

\* Counting an attempt, or setting a field, yields a record.
LEMMA EditedIsRecord ==
  ASSUME NEW rec \in Record, NEW n \in Nat, NEW p \in BOOLEAN
  PROVE  /\ Counted(rec) \in Record
         /\ [rec EXCEPT !.attempts = n] \in Record
         /\ [rec EXCEPT !.present = p] \in Record
         /\ [present |-> p, attempts |-> 0, version |-> n] \in Record
BY DEF Counted, Record

\* Faulting or not keeps the budget within its bound.
LEMMA BudgetBounded ==
  ASSUME NEW class, budget \in 0 .. MaxFaults, Fault(class) \/ NoFault
  PROVE  budget' \in 0 .. MaxFaults
BY PlatformAssumption DEF Fault, NoFault

\* boot_state_read always yields a record, whatever the flash holds.
LEMMA ReadYieldsRecord ==
  ASSUME TypeOK, NEW rec \in Readable, BootStateRead(rec)
  PROVE  rec \in Record /\ rec.attempts \in Nat /\ budget' \in 0 .. MaxFaults
<1>1. rec \in Record
  BY DefaultIsRecord DEF TypeOK, Readable, Stored
<1>2. Fault("read") \/ NoFault
  BY DEF BootStateRead
<1> QED
  BY <1>1, <1>2, BudgetBounded DEF TypeOK, Record

\* The labels a write returns to are labels.
LEMMA ReturnsAreLabels == Returns \ {"none"} \subseteq Labels
BY DEF Returns, Labels, InMain

-----------------------------------------------------------------------------
(* Type correctness                                                        *)

LEMMA TypeInit == Init => TypeOK
<1> SUFFICES ASSUME Init PROVE TypeOK
  OBVIOUS
<1>1. wdt \in BOOLEAN /\ net_ok \in BOOLEAN /\ force \in BOOLEAN
  BY DEF Init
<1> QED
  BY <1>1, DefaultIsRecord, SlotAssumption, PlatformAssumption
  DEF Init, TypeOK, Labels, Returns, Replies, GoldenSlot

\* A reset keeps the board well typed, wherever the register points.
LEMMA TypeReset ==
  ASSUME TypeOK, ResetSystem, mboot' \in Nat, slot' \in [1 .. SlotBlocks -> Blocks],
         UNCHANGED sector, reply' \in Replies, tries' \in Nat, budget' \in 0 .. MaxFaults
  PROVE  TypeOK'
<1>1. wdt' \in BOOLEAN /\ net_ok' \in BOOLEAN /\ force' \in BOOLEAN
  BY DEF ResetSystem
<1> QED
  BY <1>1, DefaultIsRecord, SlotAssumption DEF TypeOK, ResetSystem, Labels, Returns

\* A boot: every step of the BootROM and of the arbiter.
LEMMA TypeBoot == ASSUME TypeOK, BootRom \/ Arbiter PROVE TypeOK'
<1> USE DEF TypeOK, flash, platform, call, ram, history
<1>1. CASE BootRom
  BY <1>1, PlatformAssumption DEF BootRom, Labels
<1>2. CASE HookInitFails
  BY <1>2, BudgetBounded DEF HookInitFails, Labels, InMain
<1>3. CASE HookGolden
  BY <1>3, ReadYieldsRecord DEF HookGolden, Labels
<1>4. CASE HookWrapped
  <2>1. PICK rec \in Readable : BootStateRead(rec) /\ CallWrite(Counted(rec), "counted")
    BY <1>4 DEF HookWrapped
  <2> QED
    BY <1>4, <2>1, ReadYieldsRecord, EditedIsRecord
    DEF HookWrapped, CallWrite, Labels, Returns
<1>5. CASE StayGolden \/ BootGolden \/ BootUpdate
  BY <1>5 DEF StayGolden, BootGolden, BootUpdate, Labels, InMain
<1>6. CASE Redirect
  BY <1>6, TypeReset DEF Redirect, MultibootTo, UpdateSlot
<1>7. CASE HookFallback
  <2>1. budget' \in 0 .. MaxFaults
    BY <1>7, ReadYieldsRecord DEF HookFallback
  <2> QED
    BY <1>7, <2>1, TypeReset DEF HookFallback, MultibootTo, GoldenSlot
<1>8. CASE HookCountAttempt
  <2>1. PICK rec \in Readable : BootStateRead(rec) /\ CallWrite(Counted(rec), "tried")
    BY <1>8 DEF HookCountAttempt
  <2> QED
    BY <1>8, <2>1, ReadYieldsRecord, EditedIsRecord
    DEF HookCountAttempt, CallWrite, Labels, Returns
<1> QED
  BY <1>1, <1>2, <1>3, <1>4, <1>5, <1>6, <1>7, <1>8 DEF Arbiter

\* Both halves of boot_state_write.
LEMMA TypeWrite == ASSUME TypeOK, ReturnsInv, WriteErase \/ WriteProgram PROVE TypeOK'
<1>1. pc' \in Labels /\ br' \in {"ok", "flash"} /\ budget' \in 0 .. MaxFaults
  BY ReturnsAreLabels, BudgetBounded
  DEF TypeOK, ReturnsInv, Writing, WriteErase, WriteProgram, Labels
<1> QED
  BY <1>1 DEF TypeOK, WriteErase, WriteProgram, platform, ram, history

\* Every step of the pipeline.
LEMMA TypePipeline == ASSUME TypeOK, ManifestInv, Pipeline PROVE TypeOK'
<1> USE BudgetBounded
    DEF TypeOK, flash, platform, call, ram, history, Reply, Labels, InMain, Replies
<1>1. CASE GetManifest
  BY <1>1 DEF GetManifest
<1>2. CASE CheckWanted
  BY <1>2, ReadYieldsRecord DEF CheckWanted
<1>3. CASE HashSlot
  BY <1>3 DEF HashSlot
<1>4. CASE CompleteRecord \/ ReadBack
  <2>1. man \in Manifests /\ man.version \in Nat
    BY <1>4, ImageAssumption
    DEF ManifestInv, InPipeline, CompleteRecord, ReadBack
  <2>2. budget' \in 0 .. MaxFaults
    BY <1>4 DEF CompleteRecord, ReadBack
  <2>3. st' \in Record /\ ret' \in Returns
    BY <1>4, <2>1, EditedIsRecord
    DEF CompleteRecord, ReadBack, CommitSlot, CallWrite, Returns
  <2>4. pc' \in Labels /\ reply' \in Replies
    BY <1>4 DEF CompleteRecord, ReadBack, CommitSlot, CallWrite
  <2> QED
    BY <1>4, <2>2, <2>3, <2>4 DEF CompleteRecord, ReadBack
<1>5. CASE GetImage
  <2>1. [st EXCEPT !.present = FALSE] \in Record
    BY DEF Record
  <2>2. budget' \in 0 .. MaxFaults
    BY <1>5 DEF GetImage
  <2>3. st' \in Record /\ ret' \in Returns
    BY <1>5, <2>1 DEF GetImage, CallWrite, Returns
  <2>4. pc' \in Labels /\ reply' \in Replies
    BY <1>5 DEF GetImage, CallWrite
  <2> QED
    BY <1>5, <2>2, <2>3, <2>4 DEF GetImage
<1>6. CASE Invalidated
  BY <1>6, SlotAssumption DEF Invalidated
<1>7. CASE Erase \/ Program
  <2>1. man \in Manifests /\ Len(man.image) <= SlotBlocks /\ man.image \in Seq(Blocks) \ {<<>>}
    BY <1>7, ImageAssumption DEF ManifestInv, InPipeline, Erase, Program
  <2>2. off + 1 \in 1 .. Len(man.image) /\ man.image[off + 1] \in Blocks
    BY <1>7, <2>1, SlotAssumption DEF ManifestInv, Erase, Program
  <2>3. PICK new \in Blocks, next \in {"program", "readback"} : WriteBlock(new, next)
    BY <1>7, <2>1, <2>2, SlotAssumption DEF Erase, Program, Programmed
  <2>4. budget' \in 0 .. MaxFaults
    BY <2>3 DEF WriteBlock
  <2>5. slot' \in [1 .. SlotBlocks -> Blocks]
    BY <2>1, <2>2, <2>3, SlotAssumption DEF WriteBlock
  <2>6. pc' \in Labels /\ reply' \in Replies /\ off' \in 0 .. SlotBlocks - 1
    BY <1>7, <2>1, <2>2, <2>3, SlotAssumption DEF WriteBlock, NextBlock, Erase, Program
  <2> QED
    BY <1>7, <2>4, <2>5, <2>6 DEF Erase, Program
<1>8. CASE Installed
  BY <1>8 DEF Installed
<1> QED
  BY <1>1, <1>2, <1>3, <1>4, <1>5, <1>6, <1>7, <1>8 DEF Pipeline

\* Every step of the application, of the operator and of the environment.
LEMMA TypeApp ==
  ASSUME TypeOK, ReturnsInv, App \/ Operator \/ WatchdogReset \/ ExternalReset \/ AppHangs
  PROVE  TypeOK'
<1> USE DEF TypeOK, vars, flash, platform, call, ram, history, Labels, InMain, Replies
<1>1. CASE MainInitFails \/ AppHangs
  BY <1>1, BudgetBounded DEF MainInitFails, AppHangs
<1>2. CASE KickForever \/ HangForever
  BY <1>2 DEF KickForever, HangForever
<1>13. CASE MainGolden \/ ServeUpdate
  <2>1. net_ok' \in BOOLEAN
    BY <1>13 DEF MainGolden, ServeUpdate, Serves, NetUp
  <2>2. budget' \in 0 .. MaxFaults
    BY <1>13, BudgetBounded DEF MainGolden, ServeUpdate, Serves, NetUp
  <2> QED
    BY <1>13, <2>1, <2>2 DEF MainGolden, ServeUpdate, Serves
<1>14. CASE ArmWatchdog
  <2>1. wdt' \in BOOLEAN
    BY <1>14 DEF ArmWatchdog
  <2>2. budget' \in 0 .. MaxFaults
    BY <1>14, BudgetBounded DEF ArmWatchdog
  <2> QED
    BY <1>14, <2>1, <2>2 DEF ArmWatchdog
<1>3. CASE MainUpdate
  BY <1>3, ReadYieldsRecord DEF MainUpdate
<1>4. CASE Probe
  <2>1. [st EXCEPT !.attempts = 0] \in Record
    BY DEF Record
  <2> QED
    BY <1>4, <2>1 DEF Probe, CallWrite, Returns
<1>5. CASE SetAttempts
  <2>1. PICK rec \in Readable :
          BootStateRead(rec) /\ CallWrite([rec EXCEPT !.attempts = AttemptsFor(ret)], ret)
    BY <1>5 DEF SetAttempts
  <2>2. AttemptsFor(ret) \in Nat
    BY AttemptsAssumption DEF AttemptsFor
  <2>3. rec \in Record /\ budget' \in 0 .. MaxFaults
    BY <2>1, ReadYieldsRecord
  <2>4. st' \in Record
    BY <2>1, <2>2, <2>3, EditedIsRecord DEF CallWrite
  <2>5. pc' \in Labels /\ ret' \in Returns
    BY <1>5, <2>1 DEF SetAttempts, CallWrite, Returns
  <2> QED
    BY <1>5, <2>3, <2>4, <2>5 DEF SetAttempts, CallWrite
<1>6. CASE AttemptsNotSet
  BY <1>6, BudgetBounded DEF AttemptsNotSet, Refuse
<1>7. CASE SwitchResets \/ GoldenResets \/ MenuReset
  BY <1>7, TypeReset
  DEF SwitchResets, GoldenResets, MenuReset, Takes, MultibootTo, UpdateSlot, GoldenSlot
<1>8. ASSUME NEW verb \in Verbs, Update(verb) PROVE TypeOK'
  BY <1>8, BudgetBounded DEF Update, Refuse, Takes
<1>9. CASE SwitchVerb
  <2>1. budget' \in 0 .. MaxFaults
    BY <1>9, ReadYieldsRecord, BudgetBounded DEF SwitchVerb
  <2> QED
    BY <1>9, <2>1 DEF SwitchVerb, Refuse, Returns
<1>10. CASE GoldenVerb
  <2>1. PICK rec \in Readable : BootStateRead(rec)
    BY <1>10 DEF GoldenVerb
  <2>2. budget' \in 0 .. MaxFaults
    BY <2>1, ReadYieldsRecord
  <2>3. CASE pc' = "bootrom"
    BY <1>10, <2>2, <2>3, TypeReset DEF GoldenVerb, Refuse, MultibootTo, GoldenSlot
  <2> QED
    BY <1>10, <2>2, <2>3 DEF GoldenVerb, MultibootTo, ResetSystem, Returns
<1>11. CASE WatchdogReset
  BY <1>11, TypeReset DEF WatchdogReset
<1>12. CASE ExternalReset
  <2>1. budget' \in 0 .. MaxFaults
    BY <1>12, BudgetBounded DEF ExternalReset
  <2>2. slot' \in [1 .. SlotBlocks -> Blocks]
    BY <1>12, SlotAssumption DEF ExternalReset, Interrupted
  <2>3. ResetSystem /\ mboot' \in Nat /\ reply' \in Replies /\ UNCHANGED <<sector, tries>>
    BY <1>12 DEF ExternalReset, GoldenSlot
  <2> QED
    BY <2>1, <2>2, <2>3, TypeReset
<1> QED
  BY <1>1, <1>2, <1>3, <1>4, <1>5, <1>6, <1>7, <1>8, <1>9, <1>10, <1>11, <1>12, <1>13, <1>14
  DEF App, Operator
-----------------------------------------------------------------------------
(* The inductive invariant                                                 *)

\* While the slot keeps its contents, what they prove stays proved.
LEMMA SameSlot ==
  ASSUME UNCHANGED slot
  PROVE  /\ \A v : Verified(v)' <=> Verified(v)
         /\ SomeVerified' <=> SomeVerified
         /\ UNCHANGED man => (SlotHolds(man.image)' <=> SlotHolds(man.image))
BY DEF Verified, SomeVerified, SlotHolds, Bootable

\* While record and slot keep their contents, the record stays honest.
LEMMA SameFlash ==
  ASSUME PresentImpliesVerified, UNCHANGED flash
  PROVE  PresentImpliesVerified' /\ Vouched' = Vouched
BY SameSlot DEF PresentImpliesVerified, Vouched, flash

\* A verified version is in particular something verified.
LEMMA VerifiedIsSome == ASSUME NEW v, Verified(v) PROVE SomeVerified
BY DEF Verified, SomeVerified

\* A record read back claims no more than the stored one.
LEMMA ReadClaims ==
  ASSUME PresentImpliesVerified, NEW rec \in Readable, rec.present
  PROVE  Verified(rec.version)
BY DEF PresentImpliesVerified, Readable, Stored, DefaultRecord, Vouched

\* After a reset nothing is in progress.
LEMMA AfterReset ==
  ASSUME ResetSystem PROVE ReturnsInv' /\ ManifestInv' /\ RecordInv' /\ RewriteInv'
BY DEF ResetSystem, ReturnsInv, ManifestInv, RecordInv, RewriteInv, Writing, InPipeline,
       Invalidating, Rewriting

\* A redirect to a verified slot, or to golden, keeps the register honest.
LEMMA AfterRedirect ==
  ASSUME NEW s, MultibootTo(s), UNCHANGED flash, InstallInv, s = UpdateSlot => SomeVerified
  PROVE  ReturnsInv' /\ ManifestInv' /\ RecordInv' /\ RewriteInv' /\ RegisterInv'
         /\ PresentImpliesVerified'
BY AfterReset, SameSlot, SameFlash
DEF MultibootTo, ResetSystem, flash, InstallInv, RegisterInv, Writing, Invalidating, InPipeline

\* The parts of the invariant that are not about types.
LEMMA BootKeeps ==
  ASSUME InstallInv, BootRom \/ Arbiter
  PROVE  ReturnsInv' /\ ManifestInv' /\ RecordInv' /\ RewriteInv' /\ RegisterInv'
         /\ PresentImpliesVerified'
<1> USE DEF InstallInv, flash, platform, call, ram,
            ReturnsInv, ManifestInv, RecordInv, RewriteInv, RegisterInv,
            Writing, InPipeline, Invalidating, Rewriting
<1>1. CASE Redirect \/ HookFallback
  <2>1. Redirect => SomeVerified
    BY VerifiedIsSome DEF Redirect, Deciding, WorthTrying
  <2> QED
    BY <1>1, <2>1, AfterRedirect DEF Redirect, HookFallback, GoldenSlot, UpdateSlot
<1>2. CASE BootRom
  BY <1>2, SameSlot, SameFlash, PlatformAssumption DEF BootRom
<1>3. CASE HookInitFails \/ StayGolden \/ BootGolden \/ BootUpdate
  <2>1. UNCHANGED <<flash, mboot, loaded, wdt>> /\ pc' = "main" /\ pc # "bootrom"
    BY <1>3 DEF HookInitFails, StayGolden, BootGolden, Deciding, BootUpdate
  <2> QED
    BY <2>1, SameSlot, SameFlash
<1>4. CASE HookGolden
  BY <1>4, SameSlot, SameFlash, ReadClaims DEF HookGolden
<1>5. CASE HookWrapped \/ HookCountAttempt
  <2>1. PICK rec \in Readable, label \in {"counted", "tried"} :
          BootStateRead(rec) /\ CallWrite(Counted(rec), label)
    BY <1>5 DEF HookWrapped, HookCountAttempt
  <2>2. Counted(rec).present = rec.present /\ Counted(rec).version = rec.version
    BY <2>1, ReadYieldsRecord DEF Counted, Record
  <2> QED
    BY <1>5, <2>1, <2>2, SameSlot, SameFlash, ReadClaims
    DEF HookWrapped, HookCountAttempt, CallWrite
<1> QED
  BY <1>1, <1>2, <1>3, <1>4, <1>5 DEF Arbiter

\* Both halves of boot_state_write: what is written is what RecordInv allows.
LEMMA WriteKeeps ==
  ASSUME InstallInv, WriteErase \/ WriteProgram
  PROVE  ReturnsInv' /\ ManifestInv' /\ RecordInv' /\ RewriteInv' /\ RegisterInv'
         /\ PresentImpliesVerified'
<1> USE DEF InstallInv, platform, ram, Writing, InPipeline, Invalidating, Rewriting
<1>1. Writing /\ ret \in Returns \ {"none"} /\ UNCHANGED <<slot, st, man, ret, mboot, loaded, wdt>>
      /\ pc' \in {"bsw_program", ret} /\ sector' \in {sector, Unreadable, st}
      /\ (pc' = "bsw_program" => sector' = Unreadable)
      /\ (sector' = st => pc = "bsw_program" \/ sector = st)
  BY RecordAssumption DEF WriteErase, WriteProgram, TypeOK, ReturnsInv, Returns
<1>2. PresentImpliesVerified'
  BY <1>1, SameSlot DEF PresentImpliesVerified, Vouched, RecordInv
<1>3. ReturnsInv' /\ ManifestInv'
  BY <1>1, SameSlot DEF ReturnsInv, ManifestInv, Returns
<1>4. RecordInv'
  BY <1>1, SameSlot DEF RecordInv, Returns
<1>5. RewriteInv'
  BY <1>1 DEF RewriteInv, Returns, WriteErase, WriteProgram
<1>6. RegisterInv'
  BY <1>1, SameSlot DEF RegisterInv, Returns
<1> QED
  BY <1>2, <1>3, <1>4, <1>5, <1>6

\* Every step of the pipeline: the slot is written only between step 5 and the
\* commit, and the commit records only what step 7 or step 2c has just seen.
LEMMA PipelineKeeps ==
  ASSUME InstallInv, Pipeline
  PROVE  ReturnsInv' /\ ManifestInv' /\ RecordInv' /\ RewriteInv' /\ RegisterInv'
         /\ PresentImpliesVerified'
<1> USE DEF InstallInv, flash, platform, call, ram,
            ReturnsInv, ManifestInv, RecordInv, RewriteInv, RegisterInv,
            Writing, InPipeline, Invalidating, Rewriting, Reply
<1>1. CASE GetManifest
  BY <1>1, SameSlot, SameFlash, ImageAssumption, SlotAssumption DEF GetManifest
<1>2. CASE CheckWanted
  BY <1>2, SameSlot, SameFlash DEF CheckWanted
<1>3. CASE HashSlot
  BY <1>3, SameSlot, SameFlash DEF HashSlot
<1>4. CASE CompleteRecord \/ ReadBack
  <2>1. CASE pc' = "serve"
    BY <1>4, <2>1, SameSlot, SameFlash DEF CompleteRecord, ReadBack, CommitSlot, CallWrite
  <2>2. CASE pc' # "serve"
    <3>1. SlotHolds(man.image) /\ Bootable(man.image) /\ man \in Manifests
      <4>1. CASE CompleteRecord
        <5>1. man.image \in Seq(Blocks) \ {<<>>} /\ man \in Manifests
          BY <4>1, ImageAssumption DEF CompleteRecord
        <5>2. SlotHolds(man.image) /\ slot[1] \in BootHeaders
          BY <2>2, <4>1 DEF CompleteRecord
        <5>3. 1 \in 1 .. Len(man.image)
          BY <5>1
        <5> QED
          BY <5>1, <5>2, <5>3 DEF SlotHolds, Bootable
      <4>2. CASE ReadBack
        BY <2>2, <4>2 DEF ReadBack
      <4> QED
        BY <1>4, <4>1, <4>2
    <3>2. Verified(man.version)
      BY <3>1 DEF Verified
    <3>3. st'.version = man.version /\ pc' = "bsw_erase" /\ ret' = "install"
          /\ UNCHANGED <<flash, mboot, loaded, wdt, man, br>> /\ pc # "bootrom"
      BY <1>4, <2>2 DEF CompleteRecord, ReadBack, CommitSlot, CallWrite
    <3>4. mboot # UpdateSlot
      BY <1>4 DEF CompleteRecord, ReadBack
    <3> QED
      BY <3>2, <3>3, <3>4, SameSlot, SameFlash
  <2> QED
    BY <2>1, <2>2
<1>5. CASE GetImage
  <2>1. [st EXCEPT !.present = FALSE].present = FALSE
    BY DEF TypeOK, Record
  <2>2. CASE pc' = "serve"
    BY <1>5, <2>2, SameSlot, SameFlash DEF GetImage, CallWrite
  <2>3. CASE pc' # "serve"
    <3>1. Bootable(man.image) /\ ~st'.present /\ pc' = "bsw_erase" /\ ret' = "invalidate"
      BY <1>5, <2>1, <2>3 DEF GetImage, CallWrite, Acceptable
    <3> QED
      BY <1>5, <3>1, SameSlot, SameFlash DEF GetImage, Bootable
  <2> QED
    BY <2>2, <2>3
<1>6. CASE Invalidated
  <2>1. pc' = "erase" => Vouched = {} /\ 0 < Len(man.image)
    BY <1>6, RecordAssumption, ImageAssumption DEF Invalidated, Vouched, TypeOK
  <2> QED
    BY <1>6, <2>1, SameSlot, SameFlash DEF Invalidated, Bootable
<1>7. CASE Erase \/ Program
  <2>1. /\ UNCHANGED <<sector, mboot, loaded, wdt, ret, br, st, man>>
        /\ pc \in {"erase", "program"} /\ pc' \in {"erase", "program", "readback", "serve"}
    BY <1>7 DEF Erase, Program, WriteBlock, NextBlock
  <2>2. Vouched' = {}
    BY <2>1 DEF Vouched
  <2>3. pc' \in {"erase", "program"} => off' < Len(man.image)
    BY <1>7, ImageAssumption DEF Erase, Program, WriteBlock, NextBlock, TypeOK
  <2> QED
    BY <2>1, <2>2, <2>3 DEF PresentImpliesVerified, Bootable
<1>8. CASE Installed
  BY <1>8, SameSlot, SameFlash DEF Installed
<1> QED
  BY <1>1, <1>2, <1>3, <1>4, <1>5, <1>6, <1>7, <1>8 DEF Pipeline

\* Every step of the application and of the operator.
LEMMA AppKeeps ==
  ASSUME InstallInv, App \/ Operator
  PROVE  ReturnsInv' /\ ManifestInv' /\ RecordInv' /\ RewriteInv' /\ RegisterInv'
         /\ PresentImpliesVerified'
<1> USE DEF InstallInv, flash, platform, call, ram,
            ReturnsInv, ManifestInv, RecordInv, RewriteInv, RegisterInv,
            Writing, InPipeline, Invalidating, Rewriting
<1>1. CASE MainInitFails \/ MainGolden \/ ServeUpdate \/ AttemptsNotSet
  <2>1. UNCHANGED <<flash, mboot, loaded, wdt>> /\ pc' \in {"qspidead", "serve"} /\ pc # "bootrom"
    BY <1>1 DEF MainInitFails, Starting, MainGolden, ServeUpdate, Serves, AttemptsNotSet, Refuse
  <2> QED
    BY <2>1, SameSlot, SameFlash
<1>2. CASE KickForever \/ HangForever
  BY <1>2, SameSlot, SameFlash DEF KickForever, HangForever, vars
<1>10. CASE ArmWatchdog
  BY <1>10, SameSlot, SameFlash DEF ArmWatchdog, IsGolden
<1>3. CASE MainUpdate
  BY <1>3, SameSlot, SameFlash, ReadClaims DEF MainUpdate
<1>4. CASE Probe
  <2>1. [st EXCEPT !.attempts = 0].present = st.present
        /\ [st EXCEPT !.attempts = 0].version = st.version
    BY DEF TypeOK, Record
  <2> QED
    BY <1>4, <2>1, SameSlot, SameFlash DEF Probe, CallWrite
<1>5. CASE SetAttempts
  <2>1. PICK rec \in Readable :
          BootStateRead(rec) /\ CallWrite([rec EXCEPT !.attempts = AttemptsFor(ret)], ret)
    BY <1>5 DEF SetAttempts
  <2>2. st'.present = rec.present /\ st'.version = rec.version
    BY <2>1, ReadYieldsRecord DEF CallWrite, Record
  <2> QED
    BY <1>5, <2>1, <2>2, SameSlot, SameFlash, ReadClaims DEF SetAttempts, CallWrite
<1>6. CASE SwitchResets \/ GoldenResets \/ MenuReset
  BY <1>6, AfterRedirect
  DEF SwitchResets, GoldenResets, MenuReset, Takes, GoldenSlot, UpdateSlot
<1>7. ASSUME NEW verb \in Verbs, Update(verb)
      PROVE  ReturnsInv' /\ ManifestInv' /\ RecordInv' /\ RewriteInv' /\ RegisterInv'
             /\ PresentImpliesVerified'
  BY <1>7, SameSlot, SameFlash DEF Update, Takes, Refuse, IsGolden
<1>8. CASE SwitchVerb
  BY <1>8, SameSlot, SameFlash, ReadClaims, VerifiedIsSome DEF SwitchVerb, Takes, Refuse
<1>9. CASE GoldenVerb
  <2>1. CASE pc' = "bootrom"
    BY <1>9, <2>1, AfterRedirect DEF GoldenVerb, Takes, Refuse, GoldenSlot, UpdateSlot
  <2>2. CASE pc' # "bootrom"
    <3>1. UNCHANGED <<flash, mboot, loaded, wdt>> /\ pc # "bootrom"
          /\ (pc' = "serve" \/ (pc' = "set_attempts" /\ ret' = "golden"))
      BY <1>9, <2>2 DEF GoldenVerb, Takes, Refuse, MultibootTo, ResetSystem
    <3> QED
      BY <3>1, SameSlot, SameFlash
  <2> QED
    BY <2>1, <2>2
<1> QED
  BY <1>1, <1>2, <1>3, <1>4, <1>5, <1>6, <1>7, <1>8, <1>9, <1>10 DEF App, Operator

\* The environment strikes anywhere; only a reset in the middle of step 6
\* touches the slot, and nothing vouches for it then.
LEMMA EnvironmentKeeps ==
  ASSUME InstallInv, WatchdogReset \/ ExternalReset \/ AppHangs
  PROVE  ReturnsInv' /\ ManifestInv' /\ RecordInv' /\ RewriteInv' /\ RegisterInv'
         /\ PresentImpliesVerified'
<1>1. CASE AppHangs
  <2>1. UNCHANGED <<flash, mboot, loaded, wdt>> /\ pc' = "hung" /\ pc # "bootrom"
    BY <1>1 DEF AppHangs, UpdateRuns, InMain, flash, platform
  <2> QED
    BY <2>1, SameSlot, SameFlash
    DEF InstallInv, ReturnsInv, ManifestInv, RecordInv, RewriteInv, RegisterInv,
        Writing, InPipeline, Invalidating, Rewriting, flash
<1>2. CASE WatchdogReset \/ ExternalReset
  <2>1. ResetSystem /\ UNCHANGED sector /\ mboot' \in {mboot, GoldenSlot}
    BY <1>2 DEF WatchdogReset, ExternalReset, flash
  <2>2. UNCHANGED slot \/ (Rewriting /\ mboot # UpdateSlot)
    BY <1>2 DEF WatchdogReset, ExternalReset, Interrupted, flash, Rewriting,
                InstallInv, RegisterInv, InPipeline
  <2>3. RegisterInv'
    BY <2>1, <2>2, SameSlot
    DEF ResetSystem, InstallInv, RegisterInv, Writing, Invalidating, InPipeline,
        GoldenSlot, UpdateSlot
  <2>4. PresentImpliesVerified'
    <3>1. CASE UNCHANGED slot
      BY <2>1, <3>1, SameSlot DEF InstallInv, PresentImpliesVerified, Vouched
    <3>2. CASE Rewriting
      BY <2>1, <3>2 DEF InstallInv, RewriteInv, PresentImpliesVerified, Vouched
    <3> QED
      BY <2>2, <3>1, <3>2
  <2> QED
    BY <2>1, <2>3, <2>4, AfterReset
<1> QED
  BY <1>1, <1>2

LEMMA InstallInit == Init => InstallInv
<1> SUFFICES ASSUME Init PROVE InstallInv
  OBVIOUS
<1>1. TypeOK
  BY TypeInit
<1> QED
  BY <1>1 DEF Init, InstallInv, ReturnsInv, ManifestInv, RecordInv, RewriteInv, RegisterInv,
              PresentImpliesVerified, Vouched, Writing, Invalidating, Rewriting, InPipeline,
              GoldenSlot, UpdateSlot

LEMMA InstallStep == InstallInv /\ [Next]_vars => InstallInv'
<1> SUFFICES ASSUME InstallInv, [Next]_vars PROVE InstallInv'
  OBVIOUS
<1>1. CASE Next
  <2>1. TypeOK'
    BY <1>1, TypeBoot, TypeWrite, TypePipeline, TypeApp DEF Next, Progress, InstallInv
  <2> QED
    BY <1>1, <2>1, BootKeeps, WriteKeeps, PipelineKeeps, AppKeeps, EnvironmentKeeps
    DEF Next, Progress, InstallInv
<1>2. CASE UNCHANGED vars
  BY <1>2, SameSlot, SameFlash
  DEF vars, flash, platform, call, ram, history, InstallInv, TypeOK, ReturnsInv,
      ManifestInv, RecordInv, RewriteInv, RegisterInv, Writing, Invalidating, Rewriting,
      InPipeline, Bootable
<1> QED
  BY <1>1, <1>2

-----------------------------------------------------------------------------
(* Theorems                                                                *)

\* The strengthening on which every claim below rests.
THEOREM InstallInvariant == Spec => []InstallInv
BY InstallInit, InstallStep, PTL DEF Spec

\* The state of the board keeps its types: the block offset of step 6 stays
\* inside the slot and every write returns to a label.
THEOREM TypeCorrect == Spec => []TypeOK
<1>1. InstallInv => TypeOK
  BY DEF InstallInv
<1> QED
  BY <1>1, InstallInvariant, PTL

\* A record that claims an update always stands over a whole, verified image,
\* whatever was interrupted and whichever flash accesses failed
\* (updater.c steps 5 to 8, boot_state.c).
THEOREM RecordIsHonest == Spec => []PresentImpliesVerified
<1>1. InstallInv => PresentImpliesVerified
  BY DEF InstallInv
<1> QED
  BY <1>1, InstallInvariant, PTL

\* The bytes of the slot run only when they are a whole, verified image
\* (the arbiter's redirect, SWITCH, and MULTIBOOT_ADDR across resets).
THEOREM SlotCodeIsVerified == Spec => []OnlyVerifiedCodeRuns
<1>1. InstallInv => OnlyVerifiedCodeRuns
  BY DEF InstallInv, RegisterInv, OnlyVerifiedCodeRuns, SomeVerified
<1> QED
  BY <1>1, InstallInvariant, PTL

\* The application's role is the role of the bytes that were loaded, also when
\* the BootROM's search wrapped onto golden (fsbl_hooks.c:119-133).
THEOREM RoleIsRight == Spec => []RoleMatchesBytes
<1>1. InstallInv => RoleMatchesBytes
  BY DEF InstallInv, TypeOK, RegisterInv, RoleMatchesBytes, IsGolden, InMain
<1> QED
  BY <1>1, InstallInvariant, PTL

\* The slot changes only while nothing vouches for it.
LEMMA SlotChangesUnvouched ==
  ASSUME InstallInv, [Next]_vars
  PROVE  UNCHANGED slot \/ (Vouched = {} /\ Vouched' = {})
<1>1. CASE Erase \/ Program
  BY <1>1 DEF Erase, Program, InstallInv, RewriteInv, Rewriting, Vouched
<1>2. CASE ExternalReset
  BY <1>2 DEF ExternalReset, Interrupted, InstallInv, RewriteInv, Rewriting, Vouched
<1>3. CASE BootRom \/ Arbiter \/ WriteErase \/ WriteProgram
  BY <1>3
  DEF BootRom, Arbiter, HookInitFails, HookGolden, HookWrapped, StayGolden, Redirect,
      BootGolden, HookFallback, HookCountAttempt, BootUpdate, WriteErase, WriteProgram, flash
<1>4. CASE App \/ Operator \/ WatchdogReset \/ AppHangs
  BY <1>4
  DEF App, ArmWatchdog, MainInitFails, KickForever, HangForever, MainGolden, Serves,
      MainUpdate, Probe, ServeUpdate,
      SetAttempts, AttemptsNotSet, SwitchResets, GoldenResets, Operator, Update,
      SwitchVerb, GoldenVerb, MenuReset, Refuse, WatchdogReset, AppHangs, vars, flash
<1>5. CASE Pipeline
  BY <1>1, <1>5
  DEF Pipeline, GetManifest, CheckWanted, HashSlot, CompleteRecord, GetImage,
      Invalidated, ReadBack, Installed, flash
<1>6. CASE UNCHANGED vars
  BY <1>6 DEF vars, flash
<1> QED
  BY <1>1, <1>2, <1>3, <1>4, <1>5, <1>6 DEF Next, Progress

\* The record never goes from one claim to another without withdrawing the
\* first: boot_state_write erases before it programs.
LEMMA ClaimsAreWithdrawn ==
  ASSUME InstallInv, [Next]_vars
  PROVE  Vouched' \in {Vouched, {}} \/ Vouched = {}
<1>1. CASE WriteErase \/ WriteProgram
  BY <1>1 DEF WriteErase, WriteProgram, InstallInv, ReturnsInv, Vouched
<1>2. CASE BootRom \/ Arbiter \/ Pipeline
  BY <1>2
  DEF BootRom, Arbiter, HookInitFails, HookGolden, HookWrapped, StayGolden, Redirect,
      BootGolden, HookFallback, HookCountAttempt, BootUpdate,
      Pipeline, GetManifest, CheckWanted, HashSlot, CompleteRecord, GetImage,
      Invalidated, Erase, Program, ReadBack, Installed, Vouched, flash
<1>3. CASE App \/ Operator \/ WatchdogReset \/ ExternalReset \/ AppHangs
  BY <1>3
  DEF App, ArmWatchdog, MainInitFails, KickForever, HangForever, MainGolden, Serves,
      MainUpdate, Probe, ServeUpdate,
      SetAttempts, AttemptsNotSet, SwitchResets, GoldenResets, Operator, Update,
      SwitchVerb, GoldenVerb, MenuReset, Refuse, WatchdogReset, ExternalReset, AppHangs,
      Vouched, vars, flash
<1>4. CASE UNCHANGED vars
  BY <1>4 DEF Vouched, vars, flash
<1> QED
  BY <1>1, <1>2, <1>3, <1>4 DEF Next, Progress

\* The board implements VerifiedSlot: every step withdraws the claim, rewrites
\* a slot nobody vouches for, vouches for a verified slot, or changes neither.
THEOREM ImplementsSlotPromise == Spec => SlotPromise
<1>1. Init => Slot!Init
  BY TypeInit DEF Init, Slot!Init, Vouched, TypeOK
<1>2. InstallInv /\ [Next]_vars => [Slot!Next]_<<slot, Vouched>>
  <2> SUFFICES ASSUME InstallInv, InstallInv', [Next]_vars
               PROVE  [Slot!Next]_<<slot, Vouched>>
    BY InstallStep
  <2>1. slot' \in [1 .. SlotBlocks -> Blocks]
    BY DEF InstallInv, TypeOK
  <2>2. UNCHANGED slot \/ (Vouched = {} /\ Vouched' = {})
    BY SlotChangesUnvouched
  <2>3. ASSUME UNCHANGED slot, Vouched' # Vouched, Vouched' # {}
        PROVE  Slot!Vouch
    <3>1. PICK v : Vouched' = {v}
      BY <2>3 DEF Vouched
    <3>2. Verified(v)
      BY <2>3, <3>1, SameSlot DEF InstallInv, PresentImpliesVerified
    <3>3. Vouched = {}
      BY <2>3, ClaimsAreWithdrawn
    <3> QED
      BY <2>3, <3>1, <3>2, <3>3
      DEF Verified, SlotHolds, Bootable, Slot!Vouch, Slot!Verified, Slot!Holds
  <2> QED
    BY <2>1, <2>2, <2>3 DEF Slot!Next, Slot!Withdraw, Slot!Rewrite
<1> QED
  BY <1>1, <1>2, InstallInvariant, PTL DEF Spec, SlotPromise, Slot!Spec
=============================================================================
