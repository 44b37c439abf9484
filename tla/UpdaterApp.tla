----------------------------- MODULE UpdaterApp -----------------------------
(***************************************************************************)
(* The application (main.c): start in the role the arbiter decided, prove  *)
(* the payload and commit in the update role, then serve operator verbs.   *)
(* A verb arrives from the network or from the serial menu; both reach     *)
(* dispatch with the same effect; without a network only the menu does.    *)
(* STATUS only reads and is left out.                                      *)
(***************************************************************************)
EXTENDS BootArbiter, UpdatePipeline

\* Labels at which code of the application is running.
InMain == {"main", "start", "probe", "commit", "serve", "set_attempts", "switch", "golden",
           "manifest", "wanted", "hash", "header", "image", "invalidate",
           "erase", "program", "readback", "install", "qspidead", "hung"}
InPipeline == {"manifest", "wanted", "hash", "header", "image", "invalidate",
               "erase", "program", "readback", "install"}

\* Mutated form of ArmWatchdog: it is left for later.
ArmWatchdogLater ==
  /\ pc = "main" /\ ~IsGolden
  /\ pc' = "start"
  /\ NoFault
  /\ UNCHANGED <<flash, platform, call, ram, history>>

\* main, wdt_arm: the update role arms the watchdog before anything else, and
\* goes on without one that cannot be initialised.
ArmWatchdog ==
  /\ pc = "main" /\ ~IsGolden
  /\ \/ NoFault /\ wdt' = TRUE
     \/ Fault("wdt") /\ UNCHANGED wdt
  /\ pc' = "start"
  /\ UNCHANGED <<flash, mboot, loaded, net_ok, call, ram, history>>

Starting == pc = "start" \/ (pc = "main" /\ IsGolden)

\* main, no flash: report and stop, kicking the watchdog all the while.
MainInitFails ==
  /\ Starting
  /\ Fault("init")
  /\ pc' = "qspidead"
  /\ UNCHANGED <<flash, platform, call, ram, history>>

KickForever == pc = "qspidead" /\ UNCHANGED vars

\* net_up: an interface that does not come up leaves the serial menu.
NetUp ==
  \/ NoFault /\ net_ok' = TRUE
  \/ Fault("netif") /\ UNCHANGED net_ok

Serves ==
  /\ NetUp
  /\ pc' = "serve"
  /\ tries' = 0
  /\ UNCHANGED <<flash, mboot, loaded, wdt, call, ram, reply, baseline>>

\* run_golden: straight to the serve loop.
MainGolden == pc = "main" /\ IsGolden /\ Serves

\* run_update: read the record, then prove the payload.
MainUpdate ==
  /\ pc = "start"
  /\ \E rec \in Readable : BootStateRead(rec) /\ st' = rec
  /\ pc' = "probe"
  /\ tries' = tries + 1
  /\ UNCHANGED <<flash, platform, call, man, force, off, reply, baseline>>

PayloadHealthy == \E img \in Healthy : SlotHolds(img)

\* run_update: a heartbeat that moves earns the commit, which clears the
\* attempts; one that does not is left to the watchdog.
Probe ==
  /\ pc = "probe"
  /\ IF PayloadHealthy
     THEN CallWrite([st EXCEPT !.attempts = 0], "commit")
     ELSE pc' = "hung" /\ UNCHANGED <<st, ret>>
  /\ UNCHANGED <<flash, platform, br, man, force, off, history, budget>>

\* run_update serves whether or not the commit was recorded.
ServeUpdate == pc = "commit" /\ Serves

\* Code of the update's application runs.
UpdateRuns ==
  /\ ~IsGolden
  /\ \/ pc \in InMain \ {"main", "hung"}
     \/ pc \in {"bsw_erase", "bsw_program"} /\ ret \in {"commit", "golden"}

\* The update image stops making progress anywhere in its life.
AppHangs ==
  /\ Fault("hang")
  /\ UpdateRuns
  /\ pc' = "hung"
  /\ UNCHANGED <<flash, platform, call, ram, history>>

\* Without a watchdog nothing ends that.
HangForever == pc = "hung" /\ ~wdt /\ UNCHANGED vars

-----------------------------------------------------------------------------
(* dispatch and the verb handlers                                          *)

Takes(verb) == pc = "serve" /\ verb \in Verbs

Refuse ==
  /\ pc' = "serve"
  /\ reply' = "ERR"
  /\ UNCHANGED <<flash, platform, call, ram, baseline, tries>>

\* UPDATE and UPDATE FORCE are for the golden role with a network only; the
\* menu has no key for FORCE.
Update(verb) ==
  /\ Takes(verb)
  /\ verb = "UPDATE" \/ (verb = "UPDATE_FORCE" /\ net_ok)
  /\ IF IsGolden /\ net_ok
     THEN /\ pc' = "manifest"
          /\ force' = (verb = "UPDATE_FORCE")
          /\ reply' = "none"
          /\ baseline' = sector
          /\ UNCHANGED <<flash, platform, call, st, man, off, tries>>
     ELSE Refuse
  /\ NoFault

\* do_switch and do_golden look at the record before set_attempts reads it
\* again to change the count.
SwitchVerb ==
  /\ Takes("SWITCH")
  /\ \/ ~IsGolden /\ NoFault /\ Refuse
     \/ /\ IsGolden
        /\ \E rec \in Readable :
             /\ BootStateRead(rec)
             /\ IF rec.present
                THEN /\ pc' = "set_attempts" /\ ret' = "switch"
                     /\ reply' = "none"
                     /\ UNCHANGED <<flash, platform, br, ram, baseline, tries>>
                ELSE Refuse

\* GOLDEN writes nothing when no update is installed.
GoldenVerb ==
  /\ Takes("GOLDEN")
  /\ \E rec \in Readable :
       /\ BootStateRead(rec)
       /\ IF rec.present
          THEN /\ pc' = "set_attempts" /\ ret' = "golden"
               /\ reply' = "none"
               /\ UNCHANGED <<flash, platform, br, ram, baseline, tries>>
          ELSE /\ MultibootTo(GoldenSlot)
               /\ reply' = "OK_GOLDEN"
               /\ UNCHANGED <<flash, tries>>

\* Mutated forms of AttemptsFor: GOLDEN forgets to condemn the update; the
\* two verbs' counts swapped.
AttemptsForNeither(label) == 0
AttemptsForSwapped(label) == IF label = "switch" THEN BootAttemptsMax ELSE 0

AttemptsFor(label) == IF label = "golden" THEN BootAttemptsMax ELSE 0

\* Mutated form of SetAttempts: GOLDEN clears update_present as well.
SetAttemptsForgetful ==
  /\ pc = "set_attempts"
  /\ \E rec \in Readable :
       /\ BootStateRead(rec)
       /\ CallWrite([rec EXCEPT !.attempts = AttemptsFor(ret), !.present = FALSE], ret)
  /\ UNCHANGED <<flash, platform, br, man, force, off, history>>

SetAttempts ==
  /\ pc = "set_attempts"
  /\ \E rec \in Readable :
       /\ BootStateRead(rec)
       /\ CallWrite([rec EXCEPT !.attempts = AttemptsFor(ret)], ret)
  /\ UNCHANGED <<flash, platform, br, man, force, off, history>>

\* A record that was not written: answer ERR and stay up, no reset.
AttemptsNotSet ==
  /\ pc \in {"switch", "golden"} /\ br # "ok"
  /\ Refuse /\ NoFault

\* reply_then_reset: the reply is on the wire before the board goes down.
SwitchResets ==
  /\ pc = "switch" /\ br = "ok"
  /\ MultibootTo(UpdateSlot)
  /\ reply' = "OK_SWITCH"
  /\ tries' = 0
  /\ UNCHANGED <<flash, budget>>

GoldenResets ==
  /\ pc = "golden" /\ br = "ok"
  /\ MultibootTo(GoldenSlot)
  /\ reply' = "OK_GOLDEN"
  /\ UNCHANGED <<flash, tries, budget>>

\* The serial menu's soft reset changes no state and is not GOLDEN.
MenuReset ==
  /\ Takes("r")
  /\ MultibootTo(GoldenSlot)
  /\ reply' = "none"
  /\ UNCHANGED <<flash, tries, budget>>

Operator ==
  \/ \E verb \in Verbs : Update(verb)
  \/ SwitchVerb \/ GoldenVerb \/ MenuReset

App ==
  \/ ArmWatchdog \/ MainInitFails \/ KickForever \/ MainGolden \/ MainUpdate
  \/ Probe \/ ServeUpdate \/ HangForever
  \/ SetAttempts \/ AttemptsNotSet \/ SwitchResets \/ GoldenResets
=============================================================================
