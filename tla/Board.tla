------------------------------- MODULE Board --------------------------------
(***************************************************************************)
(* The whole board: BootROM, arbiter and application take turns on one     *)
(* thread of control, the operator sends verbs, and resets, flash faults   *)
(* and hangs strike between any two steps.                                 *)
(***************************************************************************)
EXTENDS UpdaterApp

Labels == InMain \cup {"bootrom", "hook", "redirect", "counted", "tried",
                       "bsw_erase", "bsw_program"}
Returns == {"none", "counted", "tried", "commit", "switch", "golden",
            "invalidate", "install"}
Replies == {"none", "ERR", "REFUSED", "SKIPPED", "INSTALLED", "OK_SWITCH", "OK_GOLDEN"}

\* A board fresh from the factory: no record, and a slot the host has never
\* written, powered on.
Init ==
  /\ sector = Unreadable
  /\ slot = [i \in 1 .. SlotBlocks |-> Erased]
  /\ mboot = GoldenSlot /\ loaded = "golden" /\ wdt = FALSE /\ net_ok = FALSE
  /\ pc = "bootrom" /\ ret = "none" /\ br = "ok"
  /\ st = DefaultRecord /\ man = NoManifest /\ force = FALSE /\ off = 0
  /\ reply = "none" /\ baseline = Unreadable /\ tries = 0
  /\ budget = MaxFaults

\* What the board does by itself, without operator or environment.
Progress == BootRom \/ Arbiter \/ WriteErase \/ WriteProgram \/ Pipeline \/ App

Next == Progress \/ WatchdogReset \/ Operator \/ ExternalReset \/ AppHangs

Spec == Init /\ [][Next]_vars

\* The processor keeps executing and an armed watchdog that is not kicked
\* expires.
Running == WF_vars(Progress) /\ WF_vars(WatchdogReset)

RunningSpec == Spec /\ Running

\* An operator who, whenever the board keeps coming back to its serve loop,
\* sooner or later sends each of the two commands an installation takes.
Persistent == SF_vars(GoldenVerb) /\ SF_vars(Update("UPDATE"))

\* A host that at some point stops publishing images the board refuses.
HostSettles == <>[][pc = "image" => reply' # "REFUSED"]_vars

-----------------------------------------------------------------------------
(* Safety                                                                  *)

\* Type correctness of the state of the board.
TypeOK ==
  /\ sector \in Record \cup {Unreadable}
  /\ slot \in [1 .. SlotBlocks -> Blocks]
  /\ mboot \in Nat /\ loaded \in {"golden", "slot"} /\ wdt \in BOOLEAN /\ net_ok \in BOOLEAN
  /\ pc \in Labels /\ ret \in Returns /\ br \in {"ok", "flash"}
  /\ st \in Record /\ man \in Manifests \cup {NoManifest}
  /\ force \in BOOLEAN /\ off \in 0 .. SlotBlocks - 1
  /\ reply \in Replies /\ baseline \in Record \cup {Unreadable}
  /\ tries \in Nat /\ budget \in 0 .. MaxFaults

\* The version the stored record vouches for, as a set.
Vouched ==
  IF sector = Unreadable THEN {}
  ELSE IF sector.present THEN {sector.version} ELSE {}

Verified(v) ==
  \E m \in Manifests :
    /\ m.version = v
    /\ SlotHolds(m.image)
    /\ Bootable(m.image)

\* "update_present: 1 = update slot verified good" (boot_state.h:43): at every
\* moment, whatever was interrupted, a record that claims an update stands
\* over a slot that holds all of the image its manifest described.
PresentImpliesVerified == \A v \in Vouched : Verified(v)

\* The code of the slot only ever runs when the slot holds, whole, an image
\* that was hashed against a manifest and has a boot header: no partly
\* written slot is ever executed (steps 5 to 8, and the arbiter's redirect).
OnlyVerifiedCodeRuns ==
  loaded = "slot" /\ pc # "bootrom" =>
    \E m \in Manifests : SlotHolds(m.image) /\ Bootable(m.image)

\* The application takes the update role exactly when the BootROM loaded the
\* update's bytes, also after a search that wrapped onto golden
\* (fsbl_hooks.c:119-133, main.c:660-673).
RoleMatchesBytes == pc \in InMain => (IsGolden <=> loaded = "golden")

\* "OK UPDATE installed" is sent only when the record on flash already vouches
\* for the manifest's version over the manifest's image (do_update, step 8).
InstalledReplyIsTrue ==
  reply = "INSTALLED" /\ pc = "serve" =>
    man.version \in Vouched /\ SlotHolds(man.image) /\ sector.attempts = 0

\* "OK UPDATE skipped - the slot already holds this image" leaves the board
\* with a record that makes SWITCH work, so the skip never strands it.
SkippedReplyIsTrue ==
  reply = "SKIPPED" /\ pc = "serve" =>
    man.version \in Vouched /\ SlotHolds(man.image)

\* A refused UPDATE costs nothing: every refusal of steps 2 to 4b, and of the
\* reconcile, leaves the boot record as it was (updater.c:611-615).
RefusalCostsNothing == reply = "REFUSED" /\ pc = "serve" => sector = baseline

\* An install of a version older than the one the record on flash names
\* happens only under UPDATE FORCE (updater.c:603-629).
NoUnforcedDowngrade ==
  reply = "INSTALLED" /\ pc = "serve" /\ baseline # Unreadable =>
    \/ ~baseline.present \/ force
    \/ man.version >= baseline.version

\* "OK GOLDEN rebooting into golden": the next time the board serves, it
\* serves golden; the arbiter does not route it back (main.c:347-353).
GoldenReplyIsKept == reply = "OK_GOLDEN" /\ pc = "serve" => IsGolden

\* "OK SWITCH rebooting into update slot": the next application that starts is
\* the update, unless the BootROM cannot load it.
SwitchReplyIsKept ==
  reply = "OK_SWITCH" /\ pc = "main" => ~IsGolden \/ slot[1] \notin Loadable

\* SWITCH and GOLDEN change only boot_attempts: the record they write keeps
\* update_present, or the other verb could not undo them (main.c:350-352).
VerbsKeepPresent ==
  pc \in {"bsw_erase", "bsw_program"} /\ ret \in {"switch", "golden"} => st.present

\* The fallback margin: without faults, the update is started at most
\* BOOT_ATTEMPTS_MAX times in a row before the board serves; every fault can
\* buy at most that many starts again.
StartsBounded == tries <= BootAttemptsMax * (1 + MaxFaults - budget)

\* "the failure mode of an unreadable record is 'boot the image that was never
\* written in the field'" (boot_state.h:11-15): a boot that finds the record
\* unreadable ends in golden.
UnreadableBootsGolden ==
  [][pc = "hook" /\ sector = Unreadable /\ pc' # "bootrom" => IsGolden]_vars

-----------------------------------------------------------------------------
(* The inductive invariant behind the claims about the update slot         *)

Writing == pc \in {"bsw_erase", "bsw_program"}

SomeVerified == \E m \in Manifests : SlotHolds(m.image) /\ Bootable(m.image)

\* Between the decision to rewrite the slot and the record saying so.
Invalidating == pc = "invalidate" \/ (Writing /\ ret = "invalidate")

Rewriting == pc \in {"erase", "program", "readback"}

\* A pending write returns where its caller left it, and programs a sector it
\* has erased.
ReturnsInv ==
  /\ pc = "bsw_program" => sector = Unreadable
  /\ Writing => ret # "none"
  /\ pc = "set_attempts" => ret \in {"switch", "golden"}

\* The pipeline holds a manifest that fits, and from step 5 on one whose
\* image has a boot header.
ManifestInv ==
  /\ pc \in InPipeline \ {"manifest", "install"} \/ Invalidating =>
       man \in Manifests /\ Len(man.image) <= SlotBlocks
  /\ pc = "header" => SlotHolds(man.image)
  /\ Invalidating \/ Rewriting => Bootable(man.image)
  /\ pc \in {"erase", "program"} => off < Len(man.image)

\* A record that is on its way to the flash, or about to be acted upon,
\* claims no more than the slot can prove.
RecordInv ==
  pc \in {"bsw_erase", "bsw_program", "counted", "redirect", "probe"} /\ st.present =>
    Verified(st.version)

\* Nothing vouches for the slot while it is rewritten.
RewriteInv ==
  /\ Invalidating => ~st.present
  /\ pc = "invalidate" /\ br = "ok" => sector = st
  /\ Rewriting => Vouched = {}

\* The register names the update slot only over a verified image, and never
\* while the pipeline runs; the watchdog runs with the update only.
RegisterInv ==
  /\ mboot = UpdateSlot => SomeVerified
  /\ pc # "bootrom" => (loaded = "slot" <=> mboot = UpdateSlot)
  /\ wdt => mboot = UpdateSlot /\ pc # "bootrom"
  /\ pc \in InPipeline \/ Invalidating \/ (Writing /\ ret = "install") =>
       mboot # UpdateSlot
  /\ pc = "switch" \/ (ret = "switch" /\ (Writing \/ pc = "set_attempts")) => SomeVerified

InstallInv ==
  /\ TypeOK /\ ReturnsInv /\ ManifestInv /\ RecordInv /\ RewriteInv /\ RegisterInv
  /\ PresentImpliesVerified

-----------------------------------------------------------------------------
(* The inductive invariants behind the claims about replies and starts     *)

Committing == (Writing /\ ret = "install") \/ pc = "install"

\* A verb's new count is on its way to the record, or the verb back from it.
Recounting == pc \in {"set_attempts", "switch", "golden"} \/ (Writing /\ ret \in {"switch", "golden"})

\* What became of an UPDATE is said in the golden role, and the next verb
\* clears it; while a verb works nothing is said.
AnswerInv ==
  /\ reply \in {"INSTALLED", "SKIPPED", "REFUSED"} => pc = "serve" /\ IsGolden
  /\ pc \in InPipeline \/ Invalidating \/ Committing \/ Recounting => reply = "none"
  /\ pc \in {"switch", "golden"} => ret = pc

\* A commit vouches for the manifest over a slot that holds its image, and a
\* write that returned "ok" is on the flash.
CommitInv ==
  /\ Committing =>
       /\ st = [present |-> TRUE, attempts |-> 0, version |-> man.version]
       /\ SlotHolds(man.image)
  /\ pc \in {"install", "switch", "golden"} /\ br = "ok" => sector = st

\* Up to step 5 an UPDATE has not touched the record it found, and the copy
\* it compares the manifest with claims nothing the record does not.
BaselineInv ==
  /\ pc \in {"manifest", "wanted", "hash", "header", "image"} => sector = baseline
  /\ pc = "hash" /\ st.present => sector = st

UpdateInv ==
  /\ AnswerInv /\ CommitInv /\ BaselineInv
  /\ InstalledReplyIsTrue /\ SkippedReplyIsTrue /\ RefusalCostsNothing

\* The arbiter decides about a redirect in golden only.
DecideInv ==
  pc \in {"redirect", "counted"} \/ (Writing /\ ret = "counted") => IsGolden

\* After SWITCH the register names the update, and the record does not turn
\* the arbiter away from it, until the BootROM finds it cannot load it.
SwitchInv ==
  /\ ret = "switch" /\ (Writing \/ pc = "switch") => st.attempts = 0
  /\ reply = "OK_SWITCH" /\ slot[1] \in Loadable =>
       /\ ~IsGolden
       /\ pc \in {"bootrom", "hook"} => Stored.attempts < BootAttemptsMax

Spare(rec) ==
  IF rec.attempts < BootAttemptsMax THEN BootAttemptsMax - rec.attempts ELSE 0

\* How often the update can still be started before the board serves, if
\* nothing fails from here on.
StartsLeft ==
  CASE pc \in {"bootrom", "hook", "redirect", "probe", "hung"} -> Spare(Stored)
    [] pc = "counted" -> IF br = "ok" THEN Spare(Stored) ELSE 0
    [] pc \in {"tried", "start"} -> 1 + Spare(Stored)
    [] pc = "main" -> IF IsGolden THEN 0 ELSE 1 + Spare(Stored)
    [] Writing /\ ret = "counted" -> Spare(st)
    [] Writing /\ ret = "tried" -> 1 + Spare(st)
    [] OTHER -> 0

\* The board has served since the last start.
Serving ==
  \/ pc \in InPipeline \cup {"serve", "set_attempts", "switch", "golden"}
  \/ Writing /\ ret \in {"switch", "golden", "invalidate", "install"}

\* The starts there have been since the board served, and those to come.
StartsDue == tries + StartsLeft

\* Every fault buys as many starts as a record that was never counted.
FaultBudget == BootAttemptsMax * (1 + MaxFaults - budget)

StartsInv ==
  /\ StartsDue <= FaultBudget
  /\ Serving => tries = 0

\* The three that follow take reads that do not fail.  A verb that writes a
\* count found an update installed, and GOLDEN condemns it.
VerbInv ==
  /\ pc = "set_attempts" => Stored.present
  /\ VerbsKeepPresent
  /\ ret = "golden" /\ (Writing \/ pc = "golden") => st.attempts = BootAttemptsMax

\* After GOLDEN nothing on the way to the serve loop is worth a redirect.
GoldenInv ==
  reply = "OK_GOLDEN" =>
    /\ mboot = GoldenSlot
    /\ pc \in {"bootrom", "hook", "redirect", "main", "qspidead", "serve"}
    /\ pc \in {"bootrom", "hook"} =>
         ~Stored.present \/ Stored.attempts >= BootAttemptsMax
    /\ pc = "redirect" => ~WorthTrying

\* The manifest was found new enough for the record the UPDATE began with.
NewEnough ==
  \/ baseline = Unreadable \/ ~baseline.present \/ force
  \/ man.version >= baseline.version

VersionInv ==
  \/ pc \in {"hash", "header", "image"} \/ Invalidating \/ Rewriting \/ Committing
  \/ reply = "INSTALLED"
  => NewEnough

-----------------------------------------------------------------------------
(* Liveness                                                                *)

\* The board always gets back to a serve loop, where an operator can reach
\* it: no redirect loop, no boot loop, no hang that nothing ends.
BoardServesAgain == []<>(pc = "serve")

\* An update that cannot become healthy ends with golden serving, without
\* anybody touching the board.
BadUpdateFallsBack ==
  (pc = "hung" /\ ~PayloadHealthy) ~> (pc = "serve" /\ IsGolden)

\* However runs were cut short, an operator who keeps asking, of a host that
\* ends up serving good images, gets one installed: no interrupted update
\* leaves a record and a slot that refuse each other (updater.c:644-651).
PersistenceInstalls == Persistent /\ HostSettles => []<>(Vouched # {})

\* "in the update role the watchdog will reset us" (main.c:686-688).
InitFailureIsReset == (pc = "qspidead" /\ ~IsGolden) ~> (pc = "bootrom")

-----------------------------------------------------------------------------
(* Refinement                                                              *)

Slot == INSTANCE VerifiedSlot WITH vouched <- Vouched

\* The board implements the abstract promise about its update slot.
SlotPromise == Slot!Spec
=============================================================================
