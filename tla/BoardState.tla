----------------------------- MODULE BoardState -----------------------------
(***************************************************************************)
(* The state of one Zynq-7000 board that carries the field updater, and    *)
(* the services every part of the program calls: reading and writing the   *)
(* boot-state record (boot_state.c), the redirect through the BootROM      *)
(* (multiboot.c), and the resets.  The parts of the program that use them  *)
(* are BootArbiter, UpdatePipeline and UpdaterApp; Board composes them.    *)
(*                                                                         *)
(* The board runs one thread of control, so its position is one label, pc. *)
(* A call of boot_state_write is two steps, erase and program, because a   *)
(* reset between the two is the interesting case; ret is the label the     *)
(* call returns to and br its result.                                      *)
(***************************************************************************)
EXTENDS Naturals, Sequences

CONSTANTS
  BootAttemptsMax,  \* BOOT_ATTEMPTS_MAX
  Unreadable,       \* a state sector that is erased, torn, corrupt or legacy
  NoManifest,       \* no manifest has been parsed since reset
  Blocks,           \* contents of one 64 KB erase sector of the update slot
  Erased,           \* the block that is all 0xFF
  Garbage,          \* blocks an interrupted erase or program can leave
  BootHeaders,      \* first blocks whose header passes image_is_bootable
  Loadable,         \* first blocks the BootROM itself accepts
  SlotBlocks,       \* size of the update slot
  Images,           \* the update.bin files the host may serve
  Healthy,          \* the images whose payload heartbeat moves once booted
  Manifests,        \* the update.sha files: the image described, its version
  SearchEnds,       \* MULTIBOOT values a failed BootROM search can leave
  Verbs,            \* the operator commands in play
  Faults,           \* classes of fault the environment may inject
  MaxFaults         \* bound: faults in one behaviour

GoldenSlot == 0     \* offset 0
UpdateSlot == 224   \* UPDATE_BASE 0x700000 in units of 32 KB

FaultClasses == {"reset", "read", "write", "init", "net", "netif", "wdt", "hang"}
VerbNames == {"UPDATE", "UPDATE_FORCE", "SWITCH", "GOLDEN", "r"}
Record == [present : BOOLEAN, attempts : Nat, version : Nat]
DefaultRecord == [present |-> FALSE, attempts |-> 0, version |-> 0]

ASSUME AttemptsAssumption == BootAttemptsMax \in Nat \ {0}
ASSUME SlotAssumption ==
  /\ SlotBlocks \in Nat \ {0}
  /\ Erased \in Blocks /\ Garbage \subseteq Blocks
  /\ BootHeaders \subseteq Blocks /\ Loadable \subseteq BootHeaders
ASSUME ImageAssumption ==
  /\ Images \subseteq Seq(Blocks) \ {<<>>}
  /\ Healthy \subseteq Images
  /\ Manifests \subseteq [image : Images, version : Nat]
  /\ NoManifest \notin Manifests
ASSUME RecordAssumption == Unreadable \notin Record
ASSUME PlatformAssumption ==
  /\ SearchEnds \subseteq Nat \ {GoldenSlot, UpdateSlot}
  /\ Verbs \subseteq VerbNames
  /\ Faults \subseteq FaultClasses
  /\ MaxFaults \in Nat

VARIABLES
  sector,    \* the state sector of the flash
  slot,      \* the update slot of the flash
  mboot,     \* MULTIBOOT_ADDR: survives every reset but a power-on reset
  loaded,    \* whose bytes the BootROM loaded: "golden" or "slot"
  wdt,       \* the watchdog is armed
  net_ok,    \* the network interface came up
  pc,        \* where the program is
  ret,       \* where the pending boot_state_write returns to
  br,        \* result of the last boot_state_write
  st,        \* the boot_state_t of the function that is running
  man,       \* the parsed manifest
  force,     \* UPDATE FORCE
  off,       \* blocks of the slot erased, then programmed, so far
  reply,     \* the last reply the operator received
  baseline,  \* history: the state sector when the running UPDATE began
  tries,     \* history: starts of the update image since the board last served
  budget     \* faults the environment may still inject

flash == <<sector, slot>>
platform == <<mboot, loaded, wdt, net_ok>>
call == <<ret, br>>
ram == <<st, man, force, off>>
history == <<reply, baseline, tries>>
vars == <<flash, platform, pc, call, ram, history, budget>>

-----------------------------------------------------------------------------
(* Faults.  Every fault costs one of MaxFaults, so each behaviour has a    *)
(* last one; no other action depends on the budget.                        *)

Fault(class) ==
  /\ class \in Faults
  /\ budget > 0
  /\ budget' = budget - 1

NoFault == UNCHANGED budget

-----------------------------------------------------------------------------
(* boot_state.c                                                            *)

\* What a read that reaches the flash returns: the record if magic and CRC
\* are right, the safe default for every other content.
Stored == IF sector = Unreadable THEN DefaultRecord ELSE sector

\* A read whose flash access fails returns the safe default as well, and
\* every caller in the program ignores the difference.
BootStateRead(rec) ==
  \/ rec = Stored /\ NoFault
  \/ rec = DefaultRecord /\ Fault("read")

Readable == {Stored, DefaultRecord}

\* Call boot_state_write(rec); it returns to label.
CallWrite(rec, label) ==
  /\ st' = rec
  /\ ret' = label
  /\ pc' = "bsw_erase"

\* boot_state_write, first half: erase the sector.  An erase that reports
\* failure may have erased the sector all the same.
WriteErase ==
  /\ pc = "bsw_erase"
  /\ \/ /\ NoFault
        /\ sector' = Unreadable
        /\ pc' = "bsw_program"
        /\ UNCHANGED br
     \/ /\ Fault("write")
        /\ sector' \in {sector, Unreadable}
        /\ pc' = ret
        /\ br' = "flash"
  /\ UNCHANGED <<slot, platform, ret, ram, history>>

\* boot_state_write, second half: program the record.  A program that
\* reports failure may have completed all the same.
WriteProgram ==
  /\ pc = "bsw_program"
  /\ \/ NoFault /\ sector' = st /\ br' = "ok"
     \/ Fault("write") /\ sector' \in {sector, st} /\ br' = "flash"
  /\ pc' = ret
  /\ UNCHANGED <<slot, platform, ret, ram, history>>

-----------------------------------------------------------------------------
(* multiboot.c, the BootROM and the resets                                 *)

\* What every reset does to the processing system: RAM is lost and the
\* watchdog stops.
ResetSystem ==
  /\ pc' = "bootrom"
  /\ wdt' = FALSE /\ net_ok' = FALSE
  /\ ret' = "none" /\ br' = "ok"
  /\ st' = DefaultRecord /\ man' = NoManifest /\ force' = FALSE /\ off' = 0
  /\ baseline' = Unreadable
  /\ UNCHANGED loaded

\* multiboot_to: write the slot to the register, then soft reset.  The two
\* offsets the program passes are always accepted.
MultibootTo(s) == mboot' = s /\ ResetSystem

\* The image in the update slot, if the slot starts with the whole of it.
SlotHolds(img) ==
  /\ Len(img) <= SlotBlocks
  /\ \A i \in 1 .. Len(img) : slot[i] = img[i]

\* The BootROM loads the image the register names.  When the image there has
\* a bad header it searches on, wraps past the end of the part and ends in
\* golden's bytes with the register left somewhere else.
BootRom ==
  /\ pc = "bootrom"
  /\ pc' = "hook"
  /\ \/ mboot = UpdateSlot /\ slot[1] \in Loadable
        /\ loaded' = "slot" /\ UNCHANGED mboot
     \/ mboot = UpdateSlot /\ slot[1] \notin Loadable
        /\ loaded' = "golden" /\ mboot' \in SearchEnds
     \/ mboot # UpdateSlot
        /\ loaded' = "golden" /\ UNCHANGED mboot
  /\ UNCHANGED <<flash, wdt, net_ok, call, ram, history, budget>>

\* What a reset in the middle of an erase or program of the slot leaves.
Interrupted ==
  IF pc \in {"erase", "program"}
  THEN {slot} \cup {[slot EXCEPT ![off + 1] = g] : g \in Garbage}
  ELSE {slot}

\* The reset button, the debugger, or the power switch, at any moment.
\* Only losing power clears MULTIBOOT_ADDR.
ExternalReset ==
  /\ Fault("reset")
  /\ ResetSystem
  /\ mboot' \in {mboot, GoldenSlot}
  /\ slot' \in Interrupted
  /\ reply' = "none"
  /\ UNCHANGED <<sector, tries>>

\* The watchdog expires: the program has stopped kicking it.
WatchdogReset ==
  /\ pc = "hung" /\ wdt
  /\ ResetSystem
  /\ reply' = "none"
  /\ UNCHANGED <<flash, mboot, tries, budget>>
=============================================================================
