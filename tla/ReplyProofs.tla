----------------------------- MODULE ReplyProofs -----------------------------
(***************************************************************************)
(* What TLAPS proves of what the board tells its operator, for every value *)
(* of the constants: INSTALLED, SKIPPED, REFUSED and OK SWITCH are kept    *)
(* whatever fails; OK GOLDEN, the downgrade refusal and update_present     *)
(* across the verbs when the reads of the record do not fail; and how many *)
(* starts an update gets before the board serves.                          *)
(***************************************************************************)
EXTENDS BoardProofs

-----------------------------------------------------------------------------
(* The answers of UPDATE.                                                  *)

Answers == {"INSTALLED", "SKIPPED", "REFUSED"}

VerbLabels == {"set_attempts", "switch", "golden"}

\* Where no UPDATE and no verb is at work, and no answer stands, there is
\* nothing to keep.
LEMMA Elsewhere ==
  ASSUME reply' \notin Answers, pc' \notin InPipeline \cup VerbLabels,
         Writing' => ret' \in {"none", "counted", "tried", "commit"}
  PROVE  UpdateInv'
BY DEF Answers, InPipeline, VerbLabels, UpdateInv, AnswerInv, CommitInv, BaselineInv, Committing,
       Invalidating, Recounting, Writing, InstalledReplyIsTrue, SkippedReplyIsTrue,
       RefusalCostsNothing

\* Answers stand in golden's serve loop only.
LEMMA AnswersServe ==
  ASSUME UpdateInv, pc # "serve" \/ ~IsGolden PROVE reply \notin Answers
BY DEF UpdateInv, AnswerInv, Answers

LEMMA BootAnswers ==
  ASSUME UpdateInv, BootRom \/ Arbiter PROVE UpdateInv'
<1>1. reply' \notin Answers
  BY AnswersServe
  DEF BootRom, Arbiter, HookInitFails, HookGolden, HookWrapped, StayGolden, Redirect, Deciding,
      BootGolden, HookFallback, HookCountAttempt, BootUpdate, history, MultibootTo, ResetSystem
<1>2. \/ pc' \in {"hook", "main", "redirect", "bootrom"}
      \/ pc' = "bsw_erase" /\ ret' \in {"counted", "tried"}
  BY DEF BootRom, Arbiter, HookInitFails, HookGolden, HookWrapped, StayGolden, Redirect, Deciding,
      BootGolden, HookFallback, HookCountAttempt, BootUpdate, CallWrite, MultibootTo, ResetSystem
<1> QED
  BY <1>1, <1>2, Elsewhere DEF InPipeline, VerbLabels, Writing

LEMMA EnvironmentAnswers ==
  ASSUME UpdateInv, WatchdogReset \/ ExternalReset \/ AppHangs PROVE UpdateInv'
<1>1. reply' \notin Answers
  BY AnswersServe DEF WatchdogReset, ExternalReset, AppHangs, UpdateRuns, history, Answers
<1>2. pc' \in {"bootrom", "hung"}
  BY DEF WatchdogReset, ExternalReset, AppHangs, ResetSystem
<1> QED
  BY <1>1, <1>2, Elsewhere DEF InPipeline, VerbLabels, Writing

\* A record that is on its way stays what its caller made it, and is on the
\* flash when the write says so.
LEMMA WriteAnswers ==
  ASSUME InstallInv, UpdateInv, WriteErase \/ WriteProgram PROVE UpdateInv'
<1>1. /\ Writing /\ ret \in Returns \ {"none"}
      /\ UNCHANGED <<slot, st, man, ret, mboot, reply, baseline>>
      /\ pc' \in {"bsw_program", ret}
      /\ pc' = ret => br' = "flash" \/ sector' = st
  BY DEF WriteErase, WriteProgram, InstallInv, TypeOK, ReturnsInv, Returns, Writing, platform,
         ram, history
<1>2. reply \notin Answers
  BY <1>1, AnswersServe DEF Writing
<1>3. CASE ret \in {"counted", "tried", "commit"}
  BY <1>1, <1>2, <1>3, Elsewhere DEF InPipeline, VerbLabels, Writing
<1>4. CASE ret \in {"install", "invalidate", "switch", "golden"}
  <2>1. reply = "none"
    BY <1>1, <1>4 DEF UpdateInv, AnswerInv, Invalidating, Committing, Recounting
  <2>2. AnswerInv'
    BY <1>1, <2>1 DEF AnswerInv, Writing
  <2>3. CommitInv'
    BY <1>1, SameSlot DEF UpdateInv, CommitInv, Committing, Writing
  <2>4. BaselineInv'
    BY <1>1, <1>4 DEF BaselineInv, Writing
  <2> QED
    BY <1>1, <2>1, <2>2, <2>3, <2>4
    DEF UpdateInv, InstalledReplyIsTrue, SkippedReplyIsTrue, RefusalCostsNothing
<1> QED
  BY <1>1, <1>3, <1>4 DEF Returns

LEMMA AppAnswers ==
  ASSUME InstallInv, UpdateInv, App \/ Operator PROVE UpdateInv'
<1>1. CASE ArmWatchdog \/ MainInitFails \/ MainGolden \/ MainUpdate \/ Probe \/ ServeUpdate
  <2>1. pc # "serve" /\ UNCHANGED reply
    BY <1>1
    DEF ArmWatchdog, MainInitFails, Starting, MainGolden, MainUpdate, Probe, ServeUpdate, Serves,
        history
  <2>2. reply' \notin Answers
    BY <2>1, AnswersServe
  <2>3. \/ pc' \in {"start", "qspidead", "serve", "probe", "hung"}
        \/ pc' = "bsw_erase" /\ ret' = "commit"
    BY <1>1
    DEF ArmWatchdog, MainInitFails, MainGolden, MainUpdate, Probe, ServeUpdate, Serves, CallWrite
  <2> QED
    BY <2>2, <2>3, Elsewhere DEF InPipeline, VerbLabels, Writing
<1>2. CASE KickForever \/ HangForever
  <2>1. pc \in {"qspidead", "hung"} /\ UNCHANGED vars
    BY <1>2 DEF KickForever, HangForever
  <2>2. reply' \notin Answers /\ pc' \in {"qspidead", "hung"}
    BY <2>1, AnswersServe DEF vars, history
  <2> QED
    BY <2>2, Elsewhere DEF InPipeline, VerbLabels, Writing
<1>3. CASE SetAttempts
  <2>1. ret \in {"switch", "golden"} /\ reply = "none"
    BY <1>3 DEF SetAttempts, InstallInv, ReturnsInv, UpdateInv, AnswerInv, Recounting
  <2>2. pc' = "bsw_erase" /\ ret' = ret /\ reply' = reply
    BY <1>3 DEF SetAttempts, CallWrite, history
  <2> QED
    BY <2>1, <2>2
    DEF UpdateInv, AnswerInv, CommitInv, BaselineInv, Committing, Invalidating, Recounting,
        Writing, InPipeline, InstalledReplyIsTrue, SkippedReplyIsTrue, RefusalCostsNothing
<1>4. ASSUME pc' = "bootrom" \/ pc' = "serve", reply' \notin Answers PROVE UpdateInv'
  BY <1>4, Elsewhere DEF InPipeline, VerbLabels, Writing
<1>5. CASE AttemptsNotSet \/ SwitchResets \/ GoldenResets \/ MenuReset
  BY <1>4, <1>5
  DEF AttemptsNotSet, Refuse, SwitchResets, GoldenResets, MenuReset, MultibootTo, ResetSystem,
      Answers
<1>6. ASSUME pc' = "set_attempts", ret' \in {"switch", "golden"}, reply' = "none" PROVE UpdateInv'
  BY <1>6
  DEF UpdateInv, AnswerInv, CommitInv, BaselineInv, Committing, Invalidating, Recounting,
      Writing, InPipeline, InstalledReplyIsTrue, SkippedReplyIsTrue, RefusalCostsNothing
<1>7. CASE SwitchVerb
  <2>1. (pc' = "serve" /\ reply' = "ERR")
        \/ (pc' = "set_attempts" /\ ret' = "switch" /\ reply' = "none")
    BY <1>7 DEF SwitchVerb, Refuse
  <2> QED
    BY <1>4, <1>6, <2>1 DEF Answers
<1>8. CASE GoldenVerb
  <2>1. (pc' = "bootrom" /\ reply' = "OK_GOLDEN")
        \/ (pc' = "set_attempts" /\ ret' = "golden" /\ reply' = "none")
    BY <1>8 DEF GoldenVerb, MultibootTo, ResetSystem
  <2> QED
    BY <1>4, <1>6, <2>1 DEF Answers
<1>9. ASSUME NEW verb \in Verbs, Update(verb) PROVE UpdateInv'
  <2>1. CASE IsGolden /\ net_ok
    <3>1. pc' = "manifest" /\ reply' = "none" /\ baseline' = sector /\ sector' = sector
      BY <1>9, <2>1 DEF Update, flash
    <3> QED
      BY <3>1
      DEF UpdateInv, AnswerInv, CommitInv, BaselineInv, Committing, Invalidating, Recounting,
          Writing, InPipeline, InstalledReplyIsTrue, SkippedReplyIsTrue, RefusalCostsNothing
  <2>2. CASE ~(IsGolden /\ net_ok)
    BY <1>4, <1>9, <2>2 DEF Update, Refuse, Answers
  <2> QED
    BY <2>1, <2>2
<1> QED
  BY <1>1, <1>2, <1>3, <1>5, <1>7, <1>8, <1>9 DEF App, Operator

\* The pipeline answers only what it has just seen on the flash.
LEMMA PipelineAnswers ==
  ASSUME InstallInv, UpdateInv, Pipeline PROVE UpdateInv'
<1> USE DEF UpdateInv, AnswerInv, CommitInv, BaselineInv, Committing, Invalidating, Recounting,
            Writing, InPipeline, InstalledReplyIsTrue, SkippedReplyIsTrue, RefusalCostsNothing,
            flash, platform, call, ram, history, Reply
<1>1. pc \in InPipeline /\ reply = "none" /\ IsGolden /\ IsGolden'
  BY DEF Pipeline, GetManifest, CheckWanted, HashSlot, CompleteRecord, GetImage, Invalidated,
         Erase, Program, ReadBack, Installed, InstallInv, RegisterInv, IsGolden
<1>2. CASE GetManifest
  BY <1>1, <1>2 DEF GetManifest
<1>3. CASE CheckWanted
  <2>1. PICK rec \in Readable : st' = rec
    BY <1>3 DEF CheckWanted
  <2>2. st'.present => sector = st'
    BY <2>1 DEF Readable, Stored, DefaultRecord
  <2> QED
    BY <1>1, <1>3, <2>2 DEF CheckWanted
<1>4. CASE HashSlot
  <2>1. pc' = "serve" => SlotHolds(man.image) /\ RecordAgrees /\ reply' = "SKIPPED"
    BY <1>4 DEF HashSlot
  <2>2. RecordAgrees => man.version \in Vouched
    BY <1>4, RecordAssumption DEF HashSlot, RecordAgrees, Vouched, InstallInv, TypeOK
  <2> QED
    BY <1>1, <1>4, <2>1, <2>2, SameSlot, SameFlash DEF HashSlot, InstallInv
<1>5. CASE CompleteRecord
  BY <1>1, <1>5, SameSlot DEF CompleteRecord, CommitSlot, CallWrite, InstallInv, ManifestInv
<1>6. CASE GetImage
  BY <1>1, <1>6 DEF GetImage, CallWrite
<1>7. CASE Invalidated
  BY <1>1, <1>7 DEF Invalidated
<1>8. CASE Erase \/ Program
  BY <1>1, <1>8 DEF Erase, Program, WriteBlock, NextBlock
<1>9. CASE ReadBack
  BY <1>1, <1>9, SameSlot DEF ReadBack, CommitSlot, CallWrite
<1>10. CASE Installed
  <2>1. CASE br = "ok"
    <3>1. sector = [present |-> TRUE, attempts |-> 0, version |-> man.version]
          /\ SlotHolds(man.image) /\ sector = st
      BY <1>10, <2>1 DEF Installed
    <3>2. sector # Unreadable
      BY <3>1, RecordAssumption DEF InstallInv, TypeOK
    <3>3. Vouched = {man.version} /\ sector.attempts = 0
      BY <3>1, <3>2 DEF Vouched
    <3> QED
      BY <1>1, <1>10, <2>1, <3>1, <3>3, SameSlot, SameFlash DEF Installed, InstallInv
  <2>2. CASE br # "ok"
    BY <1>1, <1>10, <2>2 DEF Installed
  <2> QED
    BY <2>1, <2>2
<1> QED
  BY <1>2, <1>3, <1>4, <1>5, <1>6, <1>7, <1>8, <1>9, <1>10 DEF Pipeline

LEMMA UpdateInit == Init => UpdateInv
BY DEF Init, UpdateInv, AnswerInv, CommitInv, BaselineInv, Committing, Invalidating, Recounting,
       Writing, InPipeline, InstalledReplyIsTrue, SkippedReplyIsTrue, RefusalCostsNothing

LEMMA UpdateStep == InstallInv /\ UpdateInv /\ [Next]_vars => UpdateInv'
<1> SUFFICES ASSUME InstallInv, UpdateInv, [Next]_vars PROVE UpdateInv'
  OBVIOUS
<1>1. CASE UNCHANGED vars
  BY <1>1, SameSlot, SameFlash
  DEF vars, flash, platform, call, ram, history, InstallInv,
      UpdateInv, AnswerInv, CommitInv, BaselineInv, Committing, Invalidating, Recounting,
      Writing, IsGolden, InstalledReplyIsTrue, SkippedReplyIsTrue, RefusalCostsNothing
<1> QED
  BY <1>1, BootAnswers, WriteAnswers, PipelineAnswers, AppAnswers, EnvironmentAnswers
  DEF Next, Progress

THEOREM UpdateInvariant == Spec => []UpdateInv
BY UpdateInit, UpdateStep, InstallInvariant, PTL DEF Spec

\* "OK UPDATE installed" is sent only over a record that vouches for the
\* manifest's version and a slot that holds its image, and stays true until
\* the next verb.
THEOREM InstalledIsTrue == Spec => []InstalledReplyIsTrue
<1>1. UpdateInv => InstalledReplyIsTrue
  BY DEF UpdateInv
<1> QED
  BY <1>1, UpdateInvariant, PTL

\* "OK UPDATE skipped" leaves a record that makes SWITCH work.
THEOREM SkippedIsTrue == Spec => []SkippedReplyIsTrue
<1>1. UpdateInv => SkippedReplyIsTrue
  BY DEF UpdateInv
<1> QED
  BY <1>1, UpdateInvariant, PTL

\* A refused UPDATE leaves the boot record as the UPDATE found it.
THEOREM RefusalIsFree == Spec => []RefusalCostsNothing
<1>1. UpdateInv => RefusalCostsNothing
  BY DEF UpdateInv
<1> QED
  BY <1>1, UpdateInvariant, PTL

-----------------------------------------------------------------------------
(* SWITCH.                                                                 *)

LEMMA DecideInit == Init => DecideInv
BY DEF Init, DecideInv, Writing

LEMMA DecideStep == InstallInv /\ DecideInv /\ [Next]_vars => DecideInv'
<1> SUFFICES ASSUME InstallInv, DecideInv, [Next]_vars PROVE DecideInv'
  OBVIOUS
<1> USE DEF DecideInv, Writing, IsGolden
<1>1. CASE BootRom \/ Arbiter
  BY <1>1
  DEF BootRom, Arbiter, HookInitFails, HookGolden, HookWrapped, StayGolden, Redirect,
      BootGolden, HookFallback, HookCountAttempt, BootUpdate, CallWrite, MultibootTo, ResetSystem,
      platform, call
<1>2. CASE WriteErase \/ WriteProgram
  BY <1>2
  DEF WriteErase, WriteProgram, InstallInv, TypeOK, ReturnsInv, Returns, platform
<1>3. CASE Pipeline
  <2>1. pc' \notin {"redirect", "counted", "bsw_program"}
        /\ (pc' = "bsw_erase" => ret' \in {"invalidate", "install"})
    BY <1>3
    DEF Pipeline, GetManifest, CheckWanted, HashSlot, CompleteRecord, GetImage, Invalidated,
        Erase, Program, WriteBlock, NextBlock, ReadBack, Installed, Reply, CommitSlot, CallWrite
  <2> QED
    BY <2>1
<1>4. CASE App \/ Operator
  <2>1. \/ pc' \notin {"redirect", "counted", "bsw_program", "bsw_erase"}
        \/ pc' = "bsw_erase" /\ ret' \in {"commit", "switch", "golden"}
    BY <1>4
    DEF App, ArmWatchdog, MainInitFails, KickForever, HangForever, MainGolden, Serves,
        MainUpdate, Probe, ServeUpdate, SetAttempts, AttemptsNotSet, SwitchResets, GoldenResets,
        Operator, Update, SwitchVerb, GoldenVerb, MenuReset, Refuse, MultibootTo, ResetSystem,
        CallWrite, vars, InstallInv, ReturnsInv
  <2> QED
    BY <2>1
<1>5. CASE WatchdogReset \/ ExternalReset \/ AppHangs
  BY <1>5 DEF WatchdogReset, ExternalReset, AppHangs, ResetSystem
<1>6. CASE UNCHANGED vars
  BY <1>6 DEF vars, platform, call
<1> QED
  BY <1>1, <1>2, <1>3, <1>4, <1>5, <1>6 DEF Next, Progress

\* The steps that may end in the BootROM or at the hook are few.
LEMMA SwitchStep ==
  InstallInv /\ UpdateInv /\ DecideInv /\ SwitchInv /\ [Next]_vars => SwitchInv'
<1> SUFFICES ASSUME InstallInv, UpdateInv, DecideInv, SwitchInv, [Next]_vars PROVE SwitchInv'
  OBVIOUS
<1> DEFINE At == ret = "switch" /\ (Writing \/ pc = "switch")
<1>1. ASSUME ~At', reply' # "OK_SWITCH" PROVE SwitchInv'
  BY <1>1 DEF SwitchInv
<1>2. ASSUME ~At', UNCHANGED <<slot, reply, mboot>>, pc' \notin {"bootrom", "hook"} PROVE SwitchInv'
  BY <1>2 DEF SwitchInv, IsGolden
<1>3. CASE BootRom
  BY <1>3 DEF BootRom, SwitchInv, IsGolden, Writing, flash, history, Stored
<1>4. CASE Arbiter
  <2>1. CASE HookInitFails \/ HookGolden \/ HookWrapped \/ StayGolden \/ BootGolden
             \/ HookCountAttempt \/ BootUpdate
    <3>1. ~At' /\ UNCHANGED <<slot, reply, mboot>> /\ pc' \notin {"bootrom", "hook"}
      BY <2>1
      DEF HookInitFails, HookGolden, HookWrapped, StayGolden, BootGolden, Deciding,
          HookCountAttempt, BootUpdate, CallWrite, Writing, flash, history, platform
    <3> QED
      BY <1>2, <3>1
  <2>2. CASE Redirect
    BY <2>2
    DEF Redirect, Deciding, DecideInv, SwitchInv, MultibootTo, ResetSystem, Writing, flash
  <2>3. CASE HookFallback
    <3>1. Stored.attempts >= BootAttemptsMax /\ pc = "hook" /\ ~IsGolden
      BY <2>3, AttemptsAssumption DEF HookFallback, Readable, DefaultRecord
    <3>2. Stored.attempts \in Nat
      BY DefaultIsRecord DEF Stored, InstallInv, TypeOK, Record
    <3>3. ~(reply = "OK_SWITCH" /\ slot[1] \in Loadable)
      BY <3>1, <3>2, AttemptsAssumption DEF SwitchInv
    <3> QED
      BY <2>3, <3>3 DEF HookFallback, SwitchInv, MultibootTo, ResetSystem, Writing, flash
  <2> QED
    BY <1>4, <2>1, <2>2, <2>3 DEF Arbiter
<1>5. CASE WriteErase \/ WriteProgram
  <2>1. /\ Writing /\ ret \in Returns \ {"none"} /\ UNCHANGED <<slot, st, ret, mboot, reply>>
        /\ pc' \in {"bsw_program", ret}
    BY <1>5
    DEF WriteErase, WriteProgram, InstallInv, TypeOK, ReturnsInv, Writing, platform, ram, history
  <2> QED
    BY <2>1 DEF SwitchInv, Writing, Returns, IsGolden
<1>6. CASE Pipeline
  <2>1. pc \in InPipeline
    BY <1>6
    DEF Pipeline, GetManifest, CheckWanted, HashSlot, CompleteRecord, GetImage, Invalidated,
        Erase, Program, ReadBack, Installed, InPipeline
  <2>2. reply = "none"
    BY <2>1 DEF UpdateInv, AnswerInv
  <2>3. reply' # "OK_SWITCH"
    BY <1>6, <2>2
    DEF Pipeline, GetManifest, CheckWanted, HashSlot, CompleteRecord, GetImage, Invalidated,
        Erase, Program, WriteBlock, ReadBack, Installed, Reply
  <2>4. pc' \notin {"switch", "bsw_program"} /\ (pc' = "bsw_erase" => ret' # "switch")
    BY <1>6
    DEF Pipeline, GetManifest, CheckWanted, HashSlot, CompleteRecord, GetImage, Invalidated,
        Erase, Program, WriteBlock, NextBlock, ReadBack, Installed, Reply, CommitSlot, CallWrite
  <2> QED
    BY <1>1, <2>3, <2>4 DEF Writing
<1>7. CASE ArmWatchdog \/ MainInitFails \/ MainGolden \/ MainUpdate \/ Probe \/ ServeUpdate
           \/ AppHangs
  <2>1. UNCHANGED <<slot, reply, mboot>>
    BY <1>7
    DEF ArmWatchdog, MainInitFails, MainGolden, MainUpdate, Probe, ServeUpdate, Serves, AppHangs,
        flash, history, platform
  <2>2. \/ pc' \in {"start", "qspidead", "serve", "probe", "hung"}
        \/ pc' = "bsw_erase" /\ ret' = "commit"
    BY <1>7
    DEF ArmWatchdog, MainInitFails, MainGolden, MainUpdate, Probe, ServeUpdate, Serves, AppHangs,
        CallWrite
  <2> QED
    BY <1>2, <2>1, <2>2 DEF Writing
<1>8. CASE UNCHANGED vars
  BY <1>8
  DEF vars, flash, platform, call, ram, history, SwitchInv, Writing, IsGolden, Stored
<1>9. CASE SetAttempts
  <2>1. PICK rec \in Readable :
          BootStateRead(rec) /\ CallWrite([rec EXCEPT !.attempts = AttemptsFor(ret)], ret)
    BY <1>9 DEF SetAttempts
  <2>2. rec \in Record
    BY <2>1, ReadYieldsRecord DEF InstallInv
  <2>3. ret' = "switch" => st'.attempts = 0
    BY <2>1, <2>2 DEF CallWrite, AttemptsFor, Record
  <2>4. reply = "none"
    BY <1>9 DEF SetAttempts, UpdateInv, AnswerInv, Recounting
  <2> QED
    BY <1>9, <2>3, <2>4 DEF SetAttempts, history, SwitchInv
<1>10. CASE SwitchResets
  <2>1. ret = "switch" /\ sector = st
    BY <1>10 DEF SwitchResets, UpdateInv, AnswerInv, CommitInv
  <2>2. Stored.attempts = 0
    BY <1>10, <2>1 DEF SwitchResets, SwitchInv, Stored, DefaultRecord
  <2>3. Stored'.attempts = 0 /\ ~IsGolden' /\ ~At'
    BY <1>10, <2>2 DEF SwitchResets, MultibootTo, ResetSystem, Stored, flash, IsGolden, Writing
  <2> QED
    BY <2>3, AttemptsAssumption DEF SwitchInv
<1>11. CASE AttemptsNotSet \/ GoldenResets \/ Operator \/ WatchdogReset \/ ExternalReset
  <2>1. reply' # "OK_SWITCH" /\ pc' \in {"serve", "bootrom", "manifest", "set_attempts"}
    BY <1>11
    DEF AttemptsNotSet, GoldenResets, Operator, Update, SwitchVerb, GoldenVerb, MenuReset, Refuse,
        WatchdogReset, ExternalReset, MultibootTo, ResetSystem
  <2> QED
    BY <1>1, <2>1 DEF Writing
<1> QED
  BY <1>3, <1>4, <1>5, <1>6, <1>7, <1>8, <1>9, <1>10, <1>11
  DEF Next, Progress, App, KickForever, HangForever

THEOREM SwitchInvariant == Spec => [](DecideInv /\ SwitchInv)
<1>1. Init => SwitchInv
  BY DEF Init, SwitchInv, Writing
<1> QED
  BY <1>1, DecideInit, DecideStep, SwitchStep, InstallInvariant, UpdateInvariant, PTL DEF Spec

\* After "OK SWITCH" the next application is the update, unless the BootROM
\* cannot load the slot: no count, fault or flash error turns it away.
THEOREM SwitchIsKept == Spec => []SwitchReplyIsKept
<1>1. SwitchInv => SwitchReplyIsKept
  BY DEF SwitchInv, SwitchReplyIsKept
<1> QED
  BY <1>1, SwitchInvariant, PTL

-----------------------------------------------------------------------------
(* How often the update starts.                                            *)

LEMMA SpareBounds ==
  ASSUME NEW rec \in Record
  PROVE  /\ Spare(rec) \in 0 .. BootAttemptsMax
         /\ Spare(Counted(rec)) \in 0 .. BootAttemptsMax
         /\ Spare(Counted(rec)) <= Spare(rec)
         /\ rec.attempts < BootAttemptsMax => 1 + Spare(Counted(rec)) = Spare(rec)
BY AttemptsAssumption DEF Spare, Counted, Record

LEMMA StoredIsRecord == TypeOK => Stored \in Record
BY DefaultIsRecord DEF TypeOK, Stored

LEMMA BudgetBuys ==
  ASSUME TypeOK, budget' \in {budget, budget - 1}
  PROVE  /\ FaultBudget \in Nat /\ BootAttemptsMax <= FaultBudget
         /\ budget' = budget => FaultBudget' = FaultBudget
         /\ budget' = budget - 1 => FaultBudget' = FaultBudget + BootAttemptsMax
<1> DEFINE k == 1 + MaxFaults - budget
<1>1. k \in Nat /\ 1 <= k /\ BootAttemptsMax \in Nat
  BY AttemptsAssumption, PlatformAssumption DEF TypeOK
<1>2. FaultBudget = BootAttemptsMax * k
  BY DEF FaultBudget
<1>3. FaultBudget \in Nat /\ BootAttemptsMax <= FaultBudget
  <2> HIDE DEF k
  <2> QED
    BY <1>1, <1>2
<1>4. budget' = budget => FaultBudget' = FaultBudget
  BY DEF FaultBudget
<1>5. ASSUME budget' = budget - 1 PROVE FaultBudget' = FaultBudget + BootAttemptsMax
  <2>1. k' = k + 1
    BY <1>5, PlatformAssumption DEF TypeOK
  <2>2. FaultBudget' = BootAttemptsMax * k'
    BY DEF FaultBudget
  <2> HIDE DEF k
  <2> QED
    BY <1>1, <1>2, <2>1, <2>2
<1> QED
  BY <1>3, <1>4, <1>5

LEMMA LeftIsNatural == TypeOK => StartsLeft \in Nat
<1> SUFFICES ASSUME TypeOK PROVE StartsLeft \in Nat
  OBVIOUS
<1>1. Spare(Stored) \in Nat /\ Spare(st) \in Nat
  BY SpareBounds, StoredIsRecord, AttemptsAssumption DEF TypeOK
<1> QED
  BY <1>1 DEF StartsLeft

LEMMA LeftIsNaturalNext == TypeOK' => (StartsLeft \in Nat)'
BY LeftIsNatural, PTL

\* What a step may do to the count of starts and to those that are left.
Spends ==
  /\ \/ budget' = budget /\ tries' = tries /\ StartsLeft' <= StartsLeft
     \/ budget' = budget - 1 /\ tries' = tries /\ StartsLeft' <= StartsLeft + BootAttemptsMax
     \/ budget' \in {budget, budget - 1} /\ tries' = tries + 1 /\ StartsLeft' = StartsLeft - 1
     \/ budget' \in {budget, budget - 1} /\ tries' = 0 /\ StartsLeft' <= BootAttemptsMax
  /\ Serving' => tries' = 0

LEMMA Monotone ==
  \A t, l, m \in Nat : t + l \in Nat /\ 0 + l = l /\ (l <= m => t + l <= t + m)
OBVIOUS

LEMMA SpendingIsBounded ==
  ASSUME TypeOK, TypeOK', StartsInv, Spends PROVE StartsInv'
<1>1. tries \in Nat /\ BootAttemptsMax \in Nat /\ budget \in Nat
  BY AttemptsAssumption, PlatformAssumption DEF TypeOK
<1>2. StartsLeft \in Nat /\ StartsLeft' \in Nat
  BY LeftIsNatural, LeftIsNaturalNext
<1>3. /\ FaultBudget \in Nat /\ BootAttemptsMax <= FaultBudget
      /\ budget' = budget => FaultBudget' = FaultBudget
      /\ budget' = budget - 1 => FaultBudget' = FaultBudget + BootAttemptsMax
  BY BudgetBuys DEF Spends
<1>4. StartsDue = tries + StartsLeft /\ StartsDue <= FaultBudget /\ StartsDue \in Nat
  BY <1>1, <1>2 DEF StartsInv, StartsDue
<1>5. StartsDue' = tries' + StartsLeft'
  BY DEF StartsDue
<1>6. StartsDue' <= FaultBudget'
  <2>1. CASE budget' = budget /\ tries' = tries /\ StartsLeft' <= StartsLeft
    <3>1. StartsDue' = tries + StartsLeft'
      BY <1>5, <2>1
    <3>2. StartsDue' <= StartsDue
      BY <1>1, <1>2, <1>4, <2>1, <3>1, Monotone, Zenon
    <3>3. StartsDue' \in Nat
      BY <1>1, <1>2, <3>1, Monotone, Zenon
    <3>4. FaultBudget' = FaultBudget
      BY <1>3, <2>1
    <3> QED
      BY <1>3, <1>4, <3>2, <3>3, <3>4
  <2>2. CASE budget' = budget - 1 /\ tries' = tries /\ StartsLeft' <= StartsLeft + BootAttemptsMax
    <3>1. StartsDue' = tries + StartsLeft'
      BY <1>5, <2>2
    <3>2. StartsDue' <= tries + (StartsLeft + BootAttemptsMax)
      <4>1. StartsLeft + BootAttemptsMax \in Nat
        BY <1>1, <1>2
      <4> QED
        BY <1>1, <1>2, <2>2, <3>1, <4>1, Monotone, Zenon
    <3>3. tries + (StartsLeft + BootAttemptsMax) = StartsDue + BootAttemptsMax
      BY <1>1, <1>2, <1>4
    <3>4. StartsDue' \in Nat
      BY <1>1, <1>2, <3>1, Monotone, Zenon
    <3>5. FaultBudget' = FaultBudget + BootAttemptsMax
      BY <1>3, <2>2
    <3> QED
      BY <1>1, <1>3, <1>4, <3>2, <3>3, <3>4, <3>5
  <2>3. CASE budget' \in {budget, budget - 1} /\ tries' = tries + 1 /\ StartsLeft' = StartsLeft - 1
    <3>1. StartsDue' = StartsDue
      BY <1>1, <1>2, <1>4, <1>5, <2>3
    <3>2. FaultBudget' \in {FaultBudget, FaultBudget + BootAttemptsMax}
      BY <1>3, <2>3
    <3> QED
      BY <1>1, <1>3, <1>4, <3>1, <3>2
  <2>4. CASE budget' \in {budget, budget - 1} /\ tries' = 0 /\ StartsLeft' <= BootAttemptsMax
    <3>1. StartsDue' = StartsLeft'
      BY <1>1, <1>2, <1>5, <2>4, Monotone, Zenon
    <3>2. FaultBudget' \in {FaultBudget, FaultBudget + BootAttemptsMax}
      BY <1>3, <2>4
    <3> QED
      BY <1>1, <1>2, <1>3, <2>4, <3>1, <3>2
  <2> QED
    BY <2>1, <2>2, <2>3, <2>4 DEF Spends
<1> QED
  BY <1>6 DEF StartsInv, Spends

\* The bounds of the counts that the steps below compare.
LEMMA SpareStored ==
  ASSUME TypeOK, TypeOK'
  PROVE  /\ Spare(Stored) \in 0 .. BootAttemptsMax /\ Spare(st) \in 0 .. BootAttemptsMax
         /\ Spare(Stored)' \in 0 .. BootAttemptsMax /\ Spare(st)' \in 0 .. BootAttemptsMax
         /\ UNCHANGED sector => Spare(Stored)' = Spare(Stored)
<1>1. Stored \in Record /\ st \in Record /\ st' \in Record
  BY StoredIsRecord DEF TypeOK
<1>2. Stored' \in Record
  BY DefaultIsRecord DEF TypeOK, Stored
<1>3. Spare(Stored)' = Spare(Stored') /\ Spare(st)' = Spare(st')
  BY DEF Spare
<1> HIDE DEF Stored
<1>4. Spare(Stored) \in 0 .. BootAttemptsMax /\ Spare(st) \in 0 .. BootAttemptsMax
      /\ Spare(Stored') \in 0 .. BootAttemptsMax /\ Spare(st') \in 0 .. BootAttemptsMax
  BY <1>1, <1>2, SpareBounds
<1> QED
  BY <1>3, <1>4 DEF Stored

\* A fault costs one of the budget, and no other step touches it.
LEMMA BudgetSpent ==
  ASSUME TypeOK, NEW class, Fault(class) \/ NoFault PROVE budget' \in {budget, budget - 1}
BY DEF Fault, NoFault, TypeOK

LEMMA BootSpends ==
  ASSUME TypeOK, TypeOK', DecideInv, StartsInv, BootRom \/ Arbiter PROVE Spends
<1> USE AttemptsAssumption, PlatformAssumption, SpareStored
    DEF StartsLeft, Serving, Writing, InPipeline, flash, platform, call, history, ram
<1>1. CASE BootRom
  BY <1>1 DEF BootRom, Spends
<1>2. CASE HookInitFails
  BY <1>2 DEF HookInitFails, Fault, Spends
<1>3. CASE HookGolden
  <2>1. budget' \in {budget, budget - 1}
    BY <1>3, BudgetSpent DEF HookGolden, BootStateRead
  <2> QED
    BY <1>3, <2>1 DEF HookGolden, Spends
<1>4. CASE HookWrapped
  <2>1. PICK rec \in Readable : BootStateRead(rec) /\ CallWrite(Counted(rec), "counted")
    BY <1>4 DEF HookWrapped
  <2>2. rec \in Record
    BY <2>1, ReadYieldsRecord
  <2>3. Spare(Counted(rec)) \in 0 .. BootAttemptsMax /\ Spare(Counted(rec)) <= Spare(rec)
    BY <2>2, SpareBounds
  <2>4. StartsLeft = Spare(Stored) /\ StartsLeft' = Spare(Counted(rec)) /\ tries' = tries /\ ~Serving'
    BY <1>4, <2>1 DEF HookWrapped, CallWrite, Spare
  <2>5. (budget' = budget /\ rec = Stored) \/ budget' = budget - 1
    BY <2>1 DEF BootStateRead, Fault, NoFault
  <2> HIDE DEF StartsLeft, Serving, Stored
  <2> QED
    BY <2>3, <2>4, <2>5 DEF Spends
<1>5. CASE StayGolden \/ BootGolden
  <2>1. StartsLeft' = 0 /\ UNCHANGED <<tries, budget>> /\ ~Serving'
    BY <1>5 DEF StayGolden, BootGolden, Deciding, DecideInv, IsGolden
  <2>2. StartsLeft >= 0
    BY LeftIsNatural
  <2> HIDE DEF StartsLeft, Serving
  <2> QED
    BY <2>1, <2>2 DEF Spends
<1>6. CASE Redirect
  BY <1>6 DEF Redirect, Deciding, MultibootTo, ResetSystem, Spends
<1>7. CASE HookFallback
  <2>1. budget' \in {budget, budget - 1}
    BY <1>7, BudgetSpent DEF HookFallback, BootStateRead
  <2> QED
    BY <1>7, <2>1 DEF HookFallback, MultibootTo, ResetSystem, Spends
<1>8. CASE HookCountAttempt
  <2>1. PICK rec \in Readable :
          /\ BootStateRead(rec) /\ rec.attempts < BootAttemptsMax
          /\ CallWrite(Counted(rec), "tried")
    BY <1>8 DEF HookCountAttempt
  <2>2. rec \in Record
    BY <2>1, ReadYieldsRecord
  <2>3. 1 + Spare(Counted(rec)) = Spare(rec) /\ Spare(rec) \in 0 .. BootAttemptsMax
    BY <2>1, <2>2, SpareBounds
  <2>4. StartsLeft = Spare(Stored) /\ StartsLeft' = 1 + Spare(Counted(rec)) /\ tries' = tries
        /\ ~Serving'
    BY <1>8, <2>1 DEF HookCountAttempt, CallWrite, Spare
  <2>5. StartsLeft' = Spare(rec)
    BY <2>3, <2>4
  <2>6. (budget' = budget /\ rec = Stored) \/ budget' = budget - 1
    BY <2>1 DEF BootStateRead, Fault, NoFault
  <2> HIDE DEF StartsLeft, Serving, Stored
  <2> QED
    BY <2>3, <2>4, <2>5, <2>6 DEF Spends
<1>9. CASE BootUpdate
  BY <1>9 DEF BootUpdate, Spends
<1> QED
  BY <1>1, <1>2, <1>3, <1>4, <1>5, <1>6, <1>7, <1>8, <1>9 DEF Arbiter

LEMMA WriteSpends ==
  ASSUME TypeOK, TypeOK', ReturnsInv, StartsInv, WriteErase \/ WriteProgram PROVE Spends
<1> USE AttemptsAssumption, PlatformAssumption, SpareStored
<1>1. Writing /\ ret \in Returns \ {"none"} /\ UNCHANGED <<st, ret, tries>> /\ Spare(st)' = Spare(st)
  BY DEF WriteErase, WriteProgram, TypeOK, ReturnsInv, Writing, ram, history, Spare
<1>2. Serving' => tries' = 0
  BY <1>1 DEF Serving, StartsInv, Returns, Writing, WriteErase, WriteProgram, InPipeline
<1>3. StartsLeft = IF ret = "counted" THEN Spare(st) ELSE IF ret = "tried" THEN 1 + Spare(st) ELSE 0
  BY <1>1 DEF StartsLeft, Writing
<1>4. CASE pc' = "bsw_program"
  <2>1. budget' = budget
    BY <1>1, <1>4 DEF WriteErase, WriteProgram, NoFault, Returns
  <2>2. StartsLeft' = IF ret = "counted" THEN Spare(st) ELSE IF ret = "tried" THEN 1 + Spare(st) ELSE 0
    BY <1>1, <1>4 DEF StartsLeft, Writing
  <2> QED
    BY <1>1, <1>2, <1>3, <2>1, <2>2 DEF Spends
<1>5. CASE pc' = ret /\ br' = "flash" /\ budget' = budget - 1
  <2>1. StartsLeft' = IF ret = "tried" THEN 1 + Spare(Stored)' ELSE 0
    BY <1>1, <1>5 DEF StartsLeft, Writing, Returns
  <2> QED
    BY <1>1, <1>2, <1>3, <1>5, <2>1 DEF Spends
<1>6. CASE pc' = ret /\ br' = "ok" /\ sector' = st /\ budget' = budget
  <2>1. Spare(Stored)' = Spare(st)
    BY <1>1, <1>6, RecordAssumption DEF Stored, TypeOK, Spare
  <2>2. StartsLeft' = IF ret = "counted" THEN Spare(st) ELSE IF ret = "tried" THEN 1 + Spare(st) ELSE 0
    BY <1>1, <1>6, <2>1 DEF StartsLeft, Writing, Returns
  <2> QED
    BY <1>1, <1>2, <1>3, <1>6, <2>2 DEF Spends
<1> QED
  BY <1>4, <1>5, <1>6 DEF WriteErase, WriteProgram, Fault, NoFault

\* While the board serves, nothing is left over and nothing is spent.
LEMMA ServingSpends ==
  ASSUME StartsInv, Serving, budget' \in {budget, budget - 1}, tries' \in {tries, 0},
         StartsLeft' <= BootAttemptsMax
  PROVE  Spends
BY DEF StartsInv, Spends

LEMMA PipelineSpends ==
  ASSUME TypeOK, TypeOK', StartsInv, Pipeline PROVE Spends
<1>1. budget' \in {budget, budget - 1}
  BY BudgetSpent
  DEF Pipeline, GetManifest, CheckWanted, BootStateRead, HashSlot, CompleteRecord, GetImage,
      Invalidated, Erase, Program, WriteBlock, ReadBack, Installed
<1>2. Serving /\ tries' = tries
  BY DEF Pipeline, GetManifest, CheckWanted, HashSlot, CompleteRecord, GetImage, Invalidated,
         Erase, Program, ReadBack, Installed, Serving, InPipeline
<1>3. pc' \in InPipeline \cup {"serve"} \/ (Writing' /\ ret' \in {"invalidate", "install"})
  BY DEF Pipeline, GetManifest, CheckWanted, HashSlot, CompleteRecord, GetImage, Invalidated,
         Erase, Program, WriteBlock, NextBlock, ReadBack, Installed, Reply, CommitSlot, CallWrite,
         InPipeline, Writing
<1>4. Serving' /\ StartsLeft' = 0
  BY <1>3 DEF Serving, StartsLeft, InPipeline, Writing
<1> QED
  BY <1>1, <1>2, <1>4, ServingSpends, AttemptsAssumption

LEMMA AppSpends ==
  ASSUME TypeOK, TypeOK', ReturnsInv, StartsInv,
         App \/ Operator \/ WatchdogReset \/ ExternalReset \/ AppHangs \/ UNCHANGED vars
  PROVE  Spends
<1> USE AttemptsAssumption, PlatformAssumption, SpareStored
    DEF flash, platform, call, history, ram
<1>1. CASE ArmWatchdog
  <2>1. budget' \in {budget, budget - 1}
    BY <1>1, BudgetSpent DEF ArmWatchdog
  <2> QED
    BY <1>1, <2>1 DEF ArmWatchdog, StartsLeft, Serving, Writing, InPipeline, Spends
<1>2. CASE MainInitFails \/ AppHangs
  <2>1. budget' = budget - 1 /\ tries' = tries /\ pc' \in {"qspidead", "hung"}
    BY <1>2 DEF MainInitFails, AppHangs, Fault
  <2>2. ~Serving' /\ StartsLeft' <= BootAttemptsMax
    BY <2>1 DEF StartsLeft, Serving, Writing, InPipeline
  <2>3. StartsLeft \in Nat /\ StartsLeft' \in Nat
    BY LeftIsNatural, LeftIsNaturalNext
  <2> QED
    BY <2>1, <2>2, <2>3 DEF Spends
<1>3. CASE (KickForever \/ HangForever) \/ UNCHANGED vars
  <2>1. UNCHANGED vars
    BY <1>3 DEF KickForever, HangForever
  <2>2. StartsLeft' = StartsLeft /\ (Serving' <=> Serving) /\ StartsLeft \in Nat
    BY <2>1, LeftIsNatural DEF vars, StartsLeft, Serving, Writing, IsGolden, Stored, Spare
  <2> QED
    BY <2>1, <2>2 DEF vars, Spends, StartsInv
<1>4. CASE MainGolden \/ ServeUpdate
  <2>1. budget' \in {budget, budget - 1}
    BY <1>4, BudgetSpent DEF MainGolden, ServeUpdate, Serves, NetUp
  <2>2. tries' = 0 /\ StartsLeft' = 0
    BY <1>4 DEF MainGolden, ServeUpdate, Serves, StartsLeft, Writing
  <2> QED
    BY <2>1, <2>2 DEF Spends
<1>5. CASE MainUpdate
  <2>1. budget' \in {budget, budget - 1}
    BY <1>5, BudgetSpent DEF MainUpdate, BootStateRead
  <2> QED
    BY <1>5, <2>1 DEF MainUpdate, StartsLeft, Serving, Writing, InPipeline, Spends
<1>6. CASE Probe
  BY <1>6 DEF Probe, CallWrite, StartsLeft, Serving, Writing, InPipeline, Spends
<1>7. CASE SetAttempts \/ AttemptsNotSet \/ SwitchResets \/ GoldenResets \/ Operator
  <2>1. Serving
    BY <1>7
    DEF SetAttempts, AttemptsNotSet, SwitchResets, GoldenResets, Operator, Update, SwitchVerb,
        GoldenVerb, MenuReset, Takes, Serving
  <2>2. budget' \in {budget, budget - 1}
    BY <1>7, BudgetSpent
    DEF SetAttempts, AttemptsNotSet, SwitchResets, GoldenResets, Operator, Update, SwitchVerb,
        GoldenVerb, MenuReset, BootStateRead
  <2>3. tries' \in {tries, 0}
    BY <1>7
    DEF SetAttempts, AttemptsNotSet, SwitchResets, GoldenResets, Operator, Update, SwitchVerb,
        GoldenVerb, MenuReset, Refuse
  <2>4. \/ pc' \in {"serve", "bootrom", "manifest", "set_attempts"}
        \/ pc' = "bsw_erase" /\ ret' = ret
    BY <1>7
    DEF SetAttempts, AttemptsNotSet, SwitchResets, GoldenResets, Operator, Update, SwitchVerb,
        GoldenVerb, MenuReset, Refuse, MultibootTo, ResetSystem, CallWrite
  <2>5. pc' = "bsw_erase" => Serving'
    <3>1. pc' = "bsw_erase" => pc = "set_attempts" /\ ret' = ret
      BY <1>7
      DEF SetAttempts, AttemptsNotSet, SwitchResets, GoldenResets, Operator, Update, SwitchVerb,
          GoldenVerb, MenuReset, Refuse, MultibootTo, ResetSystem, CallWrite
    <3> QED
      BY <3>1 DEF ReturnsInv, Serving, Writing
  <2>6. StartsLeft' <= BootAttemptsMax
    BY <2>4, <2>5 DEF StartsLeft, Serving, Writing, InPipeline
  <2> QED
    BY <2>1, <2>2, <2>3, <2>6, ServingSpends
<1>8. CASE WatchdogReset
  BY <1>8 DEF WatchdogReset, ResetSystem, StartsLeft, Serving, Writing, InPipeline, Spends
<1>9. CASE ExternalReset
  <2>1. budget' = budget - 1 /\ tries' = tries /\ pc' = "bootrom"
    BY <1>9 DEF ExternalReset, ResetSystem, Fault
  <2>2. ~Serving' /\ StartsLeft' <= BootAttemptsMax
    BY <2>1 DEF StartsLeft, Serving, Writing, InPipeline
  <2>3. StartsLeft \in Nat /\ StartsLeft' \in Nat
    BY LeftIsNatural, LeftIsNaturalNext
  <2> QED
    BY <2>1, <2>2, <2>3 DEF Spends
<1> QED
  BY <1>1, <1>2, <1>3, <1>4, <1>5, <1>6, <1>7, <1>8, <1>9 DEF App

LEMMA StartsInit == Init => StartsInv
<1> SUFFICES ASSUME Init PROVE StartsInv
  OBVIOUS
<1>1. StartsDue = Spare(DefaultRecord) /\ FaultBudget = BootAttemptsMax
  <2>1. StartsLeft = Spare(DefaultRecord) /\ tries = 0
    BY DEF Init, StartsLeft, Stored
  <2>2. Spare(DefaultRecord) \in Nat
    BY SpareBounds, DefaultIsRecord, AttemptsAssumption
  <2> QED
    BY <2>1, <2>2, AttemptsAssumption, PlatformAssumption DEF Init, StartsDue, FaultBudget
<1>2. Spare(DefaultRecord) <= BootAttemptsMax
  BY SpareBounds, DefaultIsRecord, AttemptsAssumption
<1> QED
  BY <1>1, <1>2 DEF Init, StartsInv, Serving, Writing, InPipeline

LEMMA StartsStep ==
  InstallInv /\ InstallInv' /\ DecideInv /\ StartsInv /\ [Next]_vars => StartsInv'
<1> SUFFICES ASSUME InstallInv, InstallInv', DecideInv, StartsInv, [Next]_vars PROVE StartsInv'
  OBVIOUS
<1>1. TypeOK /\ TypeOK' /\ ReturnsInv
  BY DEF InstallInv
<1>2. Spends
  BY <1>1, BootSpends, WriteSpends, PipelineSpends, AppSpends DEF Next, Progress
<1> QED
  BY <1>1, <1>2, SpendingIsBounded

THEOREM StartsInvariant == Spec => []StartsInv
BY StartsInit, StartsStep, InstallInvariant, SwitchInvariant, PTL DEF Spec

\* The update starts at most BOOT_ATTEMPTS_MAX times in a row before the board
\* serves, and at most that many times more for each fault there was.
THEOREM StartsAreBounded == Spec => []StartsBounded
<1>1. TypeOK /\ StartsInv => StartsBounded
  <2> SUFFICES ASSUME TypeOK, StartsInv PROVE StartsBounded
    OBVIOUS
  <2>1. tries \in Nat /\ StartsLeft \in Nat
    BY LeftIsNatural DEF TypeOK
  <2>2. tries <= StartsDue
    BY <2>1 DEF StartsDue
  <2>3. StartsDue <= FaultBudget /\ StartsDue \in Nat
    BY <2>1 DEF StartsInv, StartsDue
  <2>4. FaultBudget \in Nat
    BY AttemptsAssumption, PlatformAssumption DEF FaultBudget, TypeOK
  <2> QED
    BY <2>1, <2>2, <2>3, <2>4 DEF StartsBounded, FaultBudget
<1> QED
  BY <1>1, StartsInvariant, TypeCorrect, PTL

-----------------------------------------------------------------------------
(* What holds while reads of the record do not fail.                       *)

LEMMA ReadsWork ==
  ASSUME "read" \notin Faults, NEW rec, BootStateRead(rec) PROVE rec = Stored /\ NoFault
BY DEF BootStateRead, Fault

LEMMA VerbStep ==
  ASSUME "read" \notin Faults, InstallInv, VerbInv, [Next]_vars PROVE VerbInv'
<1> USE DEF VerbInv, VerbsKeepPresent, Writing
<1>1. ASSUME pc' \notin {"set_attempts", "golden"}, Writing' => ret' \notin {"switch", "golden"}
      PROVE  VerbInv'
  BY <1>1
<1>2. CASE BootRom \/ Arbiter
  <2>1. \/ pc' \in {"hook", "main", "redirect", "bootrom"}
        \/ pc' = "bsw_erase" /\ ret' \in {"counted", "tried"}
    BY <1>2
    DEF BootRom, Arbiter, HookInitFails, HookGolden, HookWrapped, StayGolden, Redirect, Deciding,
        BootGolden, HookFallback, HookCountAttempt, BootUpdate, CallWrite, MultibootTo, ResetSystem
  <2> QED
    BY <1>1, <2>1
<1>3. CASE WriteErase \/ WriteProgram
  <2>1. Writing /\ ret \in Returns \ {"none"} /\ UNCHANGED <<st, ret>> /\ pc' \in {"bsw_program", ret}
    BY <1>3 DEF WriteErase, WriteProgram, InstallInv, TypeOK, ReturnsInv, ram
  <2> QED
    BY <2>1 DEF Returns
<1>4. CASE Pipeline
  <2>1. pc' \notin {"set_attempts", "golden", "bsw_program"}
        /\ (pc' = "bsw_erase" => ret' \in {"invalidate", "install"})
    BY <1>4
    DEF Pipeline, GetManifest, CheckWanted, HashSlot, CompleteRecord, GetImage, Invalidated,
        Erase, Program, WriteBlock, NextBlock, ReadBack, Installed, Reply, CommitSlot, CallWrite
  <2> QED
    BY <1>1, <2>1
<1>5. CASE ArmWatchdog \/ MainInitFails \/ MainGolden \/ MainUpdate \/ Probe \/ ServeUpdate
           \/ AttemptsNotSet \/ SwitchResets \/ GoldenResets \/ MenuReset
           \/ WatchdogReset \/ ExternalReset \/ AppHangs
  <2>1. \/ pc' \in {"start", "qspidead", "serve", "probe", "hung", "bootrom"}
        \/ pc' = "bsw_erase" /\ ret' = "commit"
    BY <1>5
    DEF ArmWatchdog, MainInitFails, MainGolden, MainUpdate, Probe, ServeUpdate, Serves, CallWrite,
        AttemptsNotSet, Refuse, SwitchResets, GoldenResets, MenuReset, MultibootTo, ResetSystem,
        WatchdogReset, ExternalReset, AppHangs
  <2> QED
    BY <1>1, <2>1
<1>6. ASSUME NEW verb \in Verbs, Update(verb) PROVE VerbInv'
  <2>1. pc' \in {"manifest", "serve"}
    BY <1>6 DEF Update, Refuse
  <2> QED
    BY <1>1, <2>1
<1>7. CASE SwitchVerb \/ GoldenVerb
  <2>1. CASE pc' = "set_attempts"
    <3>1. Stored.present /\ UNCHANGED sector
      BY <1>7, <2>1, ReadsWork
      DEF SwitchVerb, GoldenVerb, Refuse, MultibootTo, ResetSystem, flash
    <3> QED
      BY <2>1, <3>1 DEF Stored
  <2>2. CASE pc' \in {"serve", "bootrom"}
    BY <1>1, <2>2
  <2> QED
    BY <1>7, <2>1, <2>2 DEF SwitchVerb, GoldenVerb, Refuse, MultibootTo, ResetSystem
<1>8. CASE SetAttempts
  <2>1. CallWrite([Stored EXCEPT !.attempts = AttemptsFor(ret)], ret) /\ Stored.present
    BY <1>8, ReadsWork DEF SetAttempts
  <2>2. Stored \in Record
    BY StoredIsRecord DEF InstallInv
  <2>3. st'.present /\ st'.attempts = AttemptsFor(ret) /\ ret' = ret /\ pc' = "bsw_erase"
    BY <2>1, <2>2 DEF CallWrite, Record
  <2> QED
    BY <2>3 DEF AttemptsFor
<1>9. CASE UNCHANGED vars
  BY <1>9 DEF vars, flash, call, ram, Stored
<1> QED
  BY <1>2, <1>3, <1>4, <1>5, <1>6, <1>7, <1>8, <1>9
  DEF Next, Progress, App, Operator, KickForever, HangForever

LEMMA GoldenStep ==
  ASSUME "read" \notin Faults, InstallInv, UpdateInv, VerbInv, GoldenInv, [Next]_vars
  PROVE  GoldenInv'
<1>1. CASE reply' # "OK_GOLDEN"
  BY <1>1 DEF GoldenInv
<1>2. CASE UNCHANGED vars
  BY <1>2 DEF vars, flash, platform, ram, history, GoldenInv, Stored, WorthTrying
<1>3. CASE GoldenVerb
  <2>1. reply' = "OK_GOLDEN" => MultibootTo(GoldenSlot) /\ UNCHANGED sector /\ ~Stored.present
    BY <1>3, ReadsWork DEF GoldenVerb, flash
  <2> QED
    BY <2>1 DEF GoldenInv, MultibootTo, ResetSystem, Stored
<1>4. CASE GoldenResets
  <2>1. sector = st /\ st.attempts = BootAttemptsMax
    BY <1>4 DEF GoldenResets, UpdateInv, AnswerInv, CommitInv, VerbInv
  <2>2. sector # Unreadable
    BY <2>1, RecordAssumption DEF InstallInv, TypeOK
  <2>3. Stored' = st
    BY <1>4, <2>1, <2>2 DEF GoldenResets, Stored, flash
  <2> QED
    BY <1>4, <2>1, <2>3, AttemptsAssumption DEF GoldenResets, GoldenInv, MultibootTo, ResetSystem
<1>5. ASSUME reply = "OK_GOLDEN", reply' = reply, Next, ~GoldenVerb, ~GoldenResets
      PROVE  GoldenInv'
  <2>1. /\ mboot = GoldenSlot /\ IsGolden
        /\ pc \in {"bootrom", "hook", "redirect", "main", "qspidead", "serve"}
        /\ pc \in {"bootrom", "hook"} => ~Stored.present \/ Stored.attempts >= BootAttemptsMax
        /\ pc = "redirect" => ~WorthTrying
    BY <1>5 DEF GoldenInv, IsGolden, GoldenSlot, UpdateSlot
  <2>2. CASE BootRom
    BY <2>1, <2>2 DEF BootRom, GoldenInv, Stored, flash, GoldenSlot, UpdateSlot
  <2>3. CASE Arbiter
    <3>1. CASE HookGolden
      <4>1. st' = Stored /\ pc' = "redirect" /\ pc = "hook" /\ UNCHANGED mboot
        BY <3>1, ReadsWork DEF HookGolden, platform
      <4>2. ~WorthTrying'
        BY <2>1, <4>1, StoredIsRecord, AttemptsAssumption DEF WorthTrying, InstallInv, Record
      <4> QED
        BY <2>1, <4>1, <4>2 DEF GoldenInv
    <3>2. CASE HookInitFails \/ BootGolden
      BY <2>1, <3>2 DEF HookInitFails, BootGolden, GoldenInv, platform
    <3> QED
      BY <2>1, <2>3, <3>1, <3>2
      DEF Arbiter, HookWrapped, StayGolden, Redirect, Deciding, HookFallback, HookCountAttempt,
          BootUpdate
  <2>4. CASE MainInitFails \/ MainGolden
    BY <2>1, <2>4 DEF MainInitFails, MainGolden, Serves, GoldenInv, platform
  <2>5. CASE KickForever \/ HangForever
    BY <1>2, <2>5 DEF KickForever, HangForever
  <2>6. ~Pipeline /\ ~WriteErase /\ ~WriteProgram
    BY <2>1
    DEF Pipeline, GetManifest, CheckWanted, HashSlot, CompleteRecord, GetImage, Invalidated,
        Erase, Program, ReadBack, Installed, WriteErase, WriteProgram
  <2>7. ~(ArmWatchdog \/ MainUpdate \/ Probe \/ ServeUpdate \/ SetAttempts \/ AttemptsNotSet
          \/ SwitchResets \/ WatchdogReset \/ AppHangs)
    BY <2>1
    DEF ArmWatchdog, MainUpdate, Probe, ServeUpdate, SetAttempts, AttemptsNotSet, SwitchResets,
        WatchdogReset, AppHangs, UpdateRuns
  <2>8. ~ExternalReset /\ ~(\E verb \in Verbs : Update(verb)) /\ ~SwitchVerb /\ ~MenuReset
    BY <1>5 DEF ExternalReset, Update, SwitchVerb, MenuReset, Refuse
  <2> QED
    BY <1>5, <2>2, <2>3, <2>4, <2>5, <2>6, <2>7, <2>8 DEF Next, Progress, App, Operator
<1>6. reply' = "OK_GOLDEN" => reply' = reply \/ GoldenVerb \/ GoldenResets
  <2>1. ASSUME NEW verb \in Verbs, Update(verb) PROVE reply' # "OK_GOLDEN"
    BY <2>1 DEF Update, Refuse
  <2>2. CASE BootRom \/ Arbiter \/ WriteErase \/ WriteProgram \/ UNCHANGED vars
    BY <2>2
    DEF BootRom, Arbiter, HookInitFails, HookGolden, HookWrapped, StayGolden, Redirect, BootGolden,
        HookFallback, HookCountAttempt, BootUpdate, WriteErase, WriteProgram, history, vars
  <2>3. CASE Pipeline
    BY <2>3
    DEF Pipeline, GetManifest, CheckWanted, HashSlot, CompleteRecord, GetImage, Invalidated,
        Erase, Program, WriteBlock, ReadBack, Installed, Reply
  <2>4. CASE App
    BY <2>4
    DEF App, ArmWatchdog, MainInitFails, KickForever, HangForever, MainGolden, Serves,
        MainUpdate, Probe, ServeUpdate, SetAttempts, AttemptsNotSet, Refuse, SwitchResets,
        history, vars
  <2>5. CASE SwitchVerb \/ MenuReset \/ WatchdogReset \/ ExternalReset \/ AppHangs
    BY <2>5
    DEF SwitchVerb, MenuReset, Refuse, WatchdogReset, ExternalReset, AppHangs, history
  <2> QED
    BY <2>1, <2>2, <2>3, <2>4, <2>5 DEF Next, Progress, Operator
<1> QED
  BY <1>1, <1>2, <1>3, <1>4, <1>5, <1>6

\* Once the version has been compared, the pipeline changes none of what it
\* was compared with.
LEMMA VersionStep ==
  ASSUME "read" \notin Faults, InstallInv, UpdateInv, VersionInv, [Next]_vars PROVE VersionInv'
<1>1. ASSUME pc' \notin {"hash", "header", "image", "invalidate", "erase", "program", "readback", "install"},
             Writing' => ret' \notin {"invalidate", "install"}, reply' # "INSTALLED"
      PROVE  VersionInv'
  BY <1>1 DEF VersionInv, Invalidating, Rewriting, Committing
<1>2. CASE UNCHANGED vars
  BY <1>2
  DEF vars, flash, platform, call, ram, history, VersionInv, Invalidating, Rewriting, Committing,
      Writing, NewEnough
<1>3. CASE BootRom \/ Arbiter
  <2>1. \/ pc' \in {"hook", "main", "redirect", "bootrom"}
        \/ pc' = "bsw_erase" /\ ret' \in {"counted", "tried"}
    BY <1>3
    DEF BootRom, Arbiter, HookInitFails, HookGolden, HookWrapped, StayGolden, Redirect, Deciding,
        BootGolden, HookFallback, HookCountAttempt, BootUpdate, CallWrite, MultibootTo, ResetSystem
  <2>2. pc # "serve" /\ UNCHANGED reply
    BY <1>3
    DEF BootRom, Arbiter, HookInitFails, HookGolden, HookWrapped, StayGolden, Redirect, Deciding,
        BootGolden, HookFallback, HookCountAttempt, BootUpdate, history
  <2> QED
    BY <1>1, <2>1, <2>2, AnswersServe DEF Answers, Writing
<1>4. CASE WriteErase \/ WriteProgram
  <2>1. /\ Writing /\ ret \in Returns \ {"none"} /\ pc' \in {"bsw_program", ret}
        /\ UNCHANGED <<ret, man, force, baseline, reply>>
    BY <1>4 DEF WriteErase, WriteProgram, InstallInv, TypeOK, ReturnsInv, ram, history, Writing
  <2>2. reply # "INSTALLED"
    BY <2>1, AnswersServe DEF Writing, Answers
  <2>3. CASE ret \in {"invalidate", "install"}
    BY <2>1, <2>3 DEF VersionInv, NewEnough, Invalidating, Committing
  <2>4. CASE ret \in Returns \ {"none", "invalidate", "install"}
    BY <1>1, <2>1, <2>2, <2>4 DEF Returns
  <2> QED
    BY <2>1, <2>3, <2>4
<1>5. CASE GetManifest
  <2>1. pc' \in {"serve", "wanted"} /\ reply' # "INSTALLED"
    BY <1>5 DEF GetManifest, Reply, UpdateInv, AnswerInv, InPipeline
  <2> QED
    BY <1>1, <2>1 DEF Writing
<1>6. CASE CheckWanted
  <2>1. st' = Stored /\ UNCHANGED <<man, force, baseline>>
        /\ (pc' = "serve" \/ (pc' = "hash" /\ ~Downgrade(Stored)))
        /\ reply' # "INSTALLED"
    BY <1>6, ReadsWork DEF CheckWanted, Reply, UpdateInv, AnswerInv, InPipeline
  <2>2. sector = baseline
    BY <1>6 DEF CheckWanted, UpdateInv, BaselineInv
  <2>3. ~Downgrade(Stored) => NewEnough
    <3>1. man.version \in Nat
      BY <1>6, ImageAssumption DEF CheckWanted, InstallInv, ManifestInv, InPipeline
    <3>2. CASE baseline = Unreadable
      BY <3>2 DEF NewEnough
    <3>3. CASE baseline # Unreadable
      <4>1. Stored = baseline /\ baseline.version \in Nat
        BY <2>2, <3>3, RecordAssumption DEF Stored, InstallInv, TypeOK, Record
      <4> QED
        BY <3>1, <4>1 DEF Downgrade, NewEnough
    <3> QED
      BY <3>2, <3>3
  <2>4. CASE pc' = "serve"
    BY <1>1, <2>1, <2>4 DEF Writing
  <2>5. CASE pc' = "hash"
    <3>1. NewEnough'
      BY <2>1, <2>3, <2>5 DEF NewEnough
    <3> QED
      BY <3>1 DEF VersionInv
  <2> QED
    BY <2>1, <2>4, <2>5
<1>7. CASE HashSlot \/ CompleteRecord \/ GetImage \/ Invalidated \/ Erase \/ Program \/ ReadBack
           \/ Installed
  <2>1. UNCHANGED <<man, force, baseline>>
    BY <1>7
    DEF HashSlot, CompleteRecord, GetImage, Invalidated, Erase, Program, ReadBack, Installed,
        CommitSlot, CallWrite, ram
  <2>2. NewEnough
    BY <1>7
    DEF HashSlot, CompleteRecord, GetImage, Invalidated, Erase, Program, ReadBack, Installed,
        VersionInv, Invalidating, Rewriting, Committing
  <2>3. NewEnough'
    BY <2>1, <2>2 DEF NewEnough
  <2> QED
    BY <2>3 DEF VersionInv
<1>8. CASE ArmWatchdog \/ MainInitFails \/ MainGolden \/ MainUpdate \/ Probe \/ ServeUpdate
           \/ SetAttempts \/ WatchdogReset \/ ExternalReset \/ AppHangs
  <2>1. \/ pc' \in {"start", "qspidead", "serve", "probe", "hung", "bootrom"}
        \/ pc' = "bsw_erase" /\ ret' \in {"commit", "switch", "golden"}
    BY <1>8
    DEF ArmWatchdog, MainInitFails, MainGolden, MainUpdate, Probe, ServeUpdate, Serves, CallWrite,
        SetAttempts, InstallInv, ReturnsInv, WatchdogReset, ExternalReset, AppHangs, ResetSystem
  <2>2. \/ reply' = "none"
        \/ (pc # "serve" \/ ~IsGolden) /\ UNCHANGED reply
    BY <1>8
    DEF ArmWatchdog, MainInitFails, Starting, MainGolden, MainUpdate, Probe, ServeUpdate, Serves,
        SetAttempts, WatchdogReset, ExternalReset, AppHangs, UpdateRuns, history
  <2> QED
    BY <1>1, <2>1, <2>2, AnswersServe DEF Writing, Answers
<1>9. CASE AttemptsNotSet \/ SwitchResets \/ GoldenResets \/ MenuReset \/ SwitchVerb \/ GoldenVerb
  <2>1. pc' \in {"serve", "bootrom", "set_attempts"}
        /\ reply' \in {"ERR", "OK_SWITCH", "OK_GOLDEN", "none"}
    BY <1>9
    DEF AttemptsNotSet, Refuse, SwitchResets, GoldenResets, MenuReset, SwitchVerb, GoldenVerb,
        MultibootTo, ResetSystem
  <2> QED
    BY <1>1, <2>1 DEF Writing
<1>10. ASSUME NEW verb \in Verbs, Update(verb) PROVE VersionInv'
  <2>1. pc' \in {"manifest", "serve"} /\ reply' \in {"none", "ERR"}
    BY <1>10 DEF Update, Refuse
  <2> QED
    BY <1>1, <2>1 DEF Writing
<1> QED
  BY <1>2, <1>3, <1>4, <1>5, <1>6, <1>7, <1>8, <1>9, <1>10
  DEF Next, Progress, Pipeline, App, Operator, KickForever, HangForever

\* The replies and verbs while reads of the record do not fail: with a read
\* that fails the code acts on the safe default instead of the record, which
\* permits a downgrade and writes a record without its update_present.
THEOREM ReadableInvariant ==
  ASSUME "read" \notin Faults PROVE Spec => [](VerbInv /\ GoldenInv /\ VersionInv)
<1>1. Init => VerbInv /\ GoldenInv /\ VersionInv
  BY DEF Init, VerbInv, VerbsKeepPresent, GoldenInv, VersionInv, Writing, Invalidating, Rewriting,
         Committing
<1>2. InstallInv /\ UpdateInv /\ (VerbInv /\ GoldenInv /\ VersionInv) /\ [Next]_vars
      => (VerbInv /\ GoldenInv /\ VersionInv)'
  BY VerbStep, GoldenStep, VersionStep
<1> QED
  BY <1>1, <1>2, InstallInvariant, UpdateInvariant, PTL DEF Spec

\* SWITCH and GOLDEN write back a record that still claims the update, so the
\* other verb can undo them.
THEOREM VerbsKeepUpdate ==
  ASSUME "read" \notin Faults PROVE Spec => []VerbsKeepPresent
<1>1. VerbInv => VerbsKeepPresent
  BY DEF VerbInv
<1> QED
  BY <1>1, ReadableInvariant, PTL

\* After "OK GOLDEN" the next serve loop is golden's.
THEOREM GoldenIsKept ==
  ASSUME "read" \notin Faults PROVE Spec => []GoldenReplyIsKept
<1>1. GoldenInv => GoldenReplyIsKept
  BY DEF GoldenInv, GoldenReplyIsKept, IsGolden, GoldenSlot, UpdateSlot
<1> QED
  BY <1>1, ReadableInvariant, PTL

\* Only UPDATE FORCE installs a version older than the recorded one.
THEOREM DowngradesAreForced ==
  ASSUME "read" \notin Faults PROVE Spec => []NoUnforcedDowngrade
<1>1. VersionInv => NoUnforcedDowngrade
  BY DEF VersionInv, NewEnough, NoUnforcedDowngrade
<1> QED
  BY <1>1, ReadableInvariant, PTL
=============================================================================
