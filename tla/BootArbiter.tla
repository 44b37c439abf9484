---------------------------- MODULE BootArbiter -----------------------------
(***************************************************************************)
(* The FSBL hook that decides which image boots (fsbl_hooks.c).  It runs   *)
(* once per boot, before the bitstream of the loaded image is configured.  *)
(* The QSPI controller registers it saves and restores around its flash    *)
(* accesses are not modelled.                                              *)
(***************************************************************************)
EXTENDS BoardState

Counted(rec) == [rec EXCEPT !.attempts = @ + 1]

\* Mutated form of IsGolden: only slot 0 is golden.
GoldenOnlyAtZero == mboot = GoldenSlot

\* Exactly one register value means update; every other one means golden.
\* The arbiter and the application's main() apply this same test.
IsGolden == mboot # UpdateSlot

\* The controller will not initialise: carry on with whatever was loaded.
HookInitFails ==
  /\ pc = "hook"
  /\ Fault("init")
  /\ pc' = "main"
  /\ UNCHANGED <<flash, platform, call, ram, history>>

\* Golden, reached the ordinary way.
HookGolden ==
  /\ pc = "hook" /\ IsGolden /\ mboot = GoldenSlot
  /\ \E rec \in Readable : BootStateRead(rec) /\ st' = rec
  /\ pc' = "redirect"
  /\ UNCHANGED <<flash, platform, call, man, force, off, history>>

\* Mutated form of HookWrapped: the search that ended here is not counted.
HookWrappedUncounted ==
  /\ pc = "hook" /\ IsGolden /\ mboot # GoldenSlot
  /\ \E rec \in Readable : BootStateRead(rec) /\ st' = rec
  /\ pc' = "redirect"
  /\ UNCHANGED <<flash, platform, call, man, force, off, history>>

\* Golden, because the BootROM searched on from an image it could not load:
\* that is an attempt, and it is counted here.
HookWrapped ==
  /\ pc = "hook" /\ IsGolden /\ mboot # GoldenSlot
  /\ \E rec \in Readable : BootStateRead(rec) /\ CallWrite(Counted(rec), "counted")
  /\ UNCHANGED <<flash, platform, br, man, force, off, history>>

\* The wrapped boot could not be counted: refuse to redirect.
StayGolden ==
  /\ pc = "counted" /\ br # "ok"
  /\ pc' = "main"
  /\ UNCHANGED <<flash, platform, call, ram, history, budget>>

\* Mutated form of WorthTrying: the record's verdict ignored.
WorthTryingAbsent == st.attempts < BootAttemptsMax

WorthTrying == st.present /\ st.attempts < BootAttemptsMax

Deciding == pc = "redirect" \/ (pc = "counted" /\ br = "ok")

\* A valid update with attempts left: send the BootROM to it.
Redirect ==
  /\ Deciding /\ WorthTrying
  /\ MultibootTo(UpdateSlot)
  /\ UNCHANGED <<flash, reply, tries, budget>>

BootGolden ==
  /\ Deciding /\ ~WorthTrying
  /\ pc' = "main"
  /\ UNCHANGED <<flash, platform, call, ram, history, budget>>

\* The update was loaded but its attempts are used up.
HookFallback ==
  /\ pc = "hook" /\ ~IsGolden
  /\ \E rec \in Readable :
       BootStateRead(rec) /\ rec.attempts >= BootAttemptsMax
  /\ MultibootTo(GoldenSlot)
  /\ UNCHANGED <<flash, reply, tries>>

\* Mutated form of HookCountAttempt: the attempt is not recorded.
HookAttemptUncounted ==
  /\ pc = "hook" /\ ~IsGolden
  /\ \E rec \in Readable :
       BootStateRead(rec) /\ rec.attempts < BootAttemptsMax /\ CallWrite(rec, "tried")
  /\ UNCHANGED <<flash, platform, br, man, force, off, history>>

\* The update was loaded: count the attempt before the application can hang.
HookCountAttempt ==
  /\ pc = "hook" /\ ~IsGolden
  /\ \E rec \in Readable :
       /\ BootStateRead(rec)
       /\ rec.attempts < BootAttemptsMax
       /\ CallWrite(Counted(rec), "tried")
  /\ UNCHANGED <<flash, platform, br, man, force, off, history>>

\* The count was written, or its failure is tolerated: boot the update.
BootUpdate ==
  /\ pc = "tried"
  /\ pc' = "main"
  /\ UNCHANGED <<flash, platform, call, ram, history, budget>>

Arbiter ==
  \/ HookInitFails \/ HookGolden \/ HookWrapped \/ StayGolden
  \/ Redirect \/ BootGolden
  \/ HookFallback \/ HookCountAttempt \/ BootUpdate
=============================================================================
