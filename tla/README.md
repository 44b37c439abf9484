# Verification of the Arty Z7 field updater

The repository is a field-update demonstrator for a Zynq-7000 board: a golden
image that is never rewritten, an update slot that is rewritten over the
network, an arbiter in the boot loader that chooses between them, a UDP control
channel with a shell script at its other end, a TFTP client that fetches the
image, a flash driver behind a write window, and an AXI4-Lite LED core whose
heartbeat is the payload's proof of life. This directory holds TLA+ models of
those parts, TLC runs that check them on small instances, and TLAPS proofs about
them for every value of the constants.

Run everything from this directory:

    tlc -workers 2 -config board_faults.cfg MCBoard     # any of the runs below
    tlapm BoardProofs.tla                               # any of the proof modules

## 1. The system

| Component | Source | State it keeps | Operations |
|---|---|---|---|
| Boot-state record | `sw/lib/bootstate` | one flash sector: magic, present, attempts, version, CRC | read with a safe default; write = erase, then program |
| Boot arbiter | `sw/arty_fsbl_hooks/fsbl_hooks.c` | `MULTIBOOT_ADDR`, the record | stay golden, redirect, count an attempt, fall back |
| Multiboot redirect | `sw/lib/multiboot` | `MULTIBOOT_ADDR` | drain the console, write the register, soft reset |
| Update pipeline | `sw/arty_updater/updater.c` | manifest, image in DDR, the slot, the record | steps 2 to 8 of `updater_run` |
| Application | `sw/arty_updater/main.c` | role, watchdog, network up | golden and update start-up, health probe, commit, STATUS, UPDATE, SWITCH, GOLDEN, serial menu |
| QSPI flash driver | `sw/lib/qspi` | controller mode, ready, the part | read, erase, program behind a write window; state sector; init and forced re-init |
| Control channel | `sw/lib/ctrl`, `sw/lib/netpump` | pending verb, busy, requester | receive callback, take, begin local, reply, done, drain |
| `ctrl.sh` | `host/ctrl.sh` | one socket, tries, reboot watch | request, retry of STATUS, result, `reboot_wait` |
| TFTP client | `sw/lib/tftp` | block, latched TID, flags, bytes written | `tftp_get` loop and receive callback |
| Manifest parser | `updater.c` 212-394 | keys seen, values | `manifest_parse` |
| SHA-256 | `sw/lib/sha256` | chaining value, buffer, length | init, update, final |
| blinkctl | `rtl/blinkctl.vhd` | registers, AXI4-Lite holds | bus reads and writes, divider, heartbeat |
| Publishing scripts | `host/release.sh`, ... | files in the TFTP root | put image and manifest in place |

How they interact. Everything on the board runs on **one thread**: BootROM, then
the arbiter inside the FSBL, then the application. The only callbacks (control
channel, TFTP) run inside `net_pump()`, so they interleave with a verb exactly
where it polls. State crosses a reset in two places only, the flash and
`MULTIBOOT_ADDR`, and the arbiter, the application and the pipeline all read
and write both. The flash part and the controller in front of it are shared by
the FSBL, its hook and the application; a reset of the processor resets the
controller but not the part, which may still be erasing. The LED core runs
beside all of this on its own clock and meets the processor on the bus only.
The board meets the hosts through UDP datagrams, and the files
it fetches can change between, and during, transfers.

What is hard here: a reset or a power cut between any two steps, in particular
between the erase and the program of one record; a flash operation that reports
failure over work it did or success over work it did not do; a BootROM search
that ends in golden's bytes with another register value; the redirect loop that
a slot the BootROM rejects would make; a callback that runs inside a verb; a
lost reply that cannot be told from a lost request; sessions of repeated RRQs
that answer late; block numbers that wrap; page programs that wrap; a part that
is still busy, or never gets ready; halves of a bus write that arrive in any
order.

What makes each part correct, in one line each:

- record and slot: whatever fails, a record that claims an update stands over a
  whole verified image (`PresentImpliesVerified`, `SlotPromise`);
- arbiter: it never runs slot code that is not such an image, knows its role from
  the register alone, and gives a bad update a bounded number of starts
  (`OnlyVerifiedCodeRuns`, `RoleMatchesBytes`, `StartsBounded`,
  `BoardServesAgain`);
- pipeline: refusals cost nothing, replies are true, an interrupted install can
  be completed (`RefusalCostsNothing`, `InstalledReplyIsTrue`,
  `SkippedReplyIsTrue`, `PersistenceInstalls`, `NoUnforcedDowngrade`);
- verbs: an OK is kept across the reset that follows it (`GoldenReplyIsKept`,
  `SwitchReplyIsKept`, `VerbsKeepPresent`);
- control channel: every answer reaches the socket that asked, about what it
  asked, and no verb starts inside another (`AnswersMatch`, `ChannelInv`,
  `VerbKeepsRequester`);
- `ctrl.sh`: it ends, never repeats a verb that acts, and calls healthy only a
  board that has rebooted (`ScriptsEnd`, `OneShotVerbsRunOnce`,
  `HealthyMeansRebooted`);
- TFTP: OK means one whole version of the file, an error names the right reason,
  the call ends (`OkMeansWhole`, `TooBigIsTooBig`, `ProtoNeedsDisorder`,
  `RetriesOutlast`, `TransferEnds`, `TransferPromise`);
- flash driver: only the span of a call changes, inside its one region, OK means
  done, and every call returns (`OnlyTheSpanChanges`, `FlashPromise`,
  `CallsReturn`, `ControllerMode`);
- manifest, hash and download buffer: a candidate is accepted exactly when what
  was served is an image (`ParserIsStrict`, `HashIsOnePiece`,
  `VerdictIsAcceptable`);
- blinkctl: a write executes once with its own halves, the bus never stalls, the
  LED keeps its period (`WriteExecutesOnce`, `BusAnswers`, `LedPeriod`).

`PROJECT.json` lists every component, and every hazard at its line.

## 2. The models

### The board: `Board` = `BoardState` + `BootArbiter` + `UpdatePipeline` + `UpdaterApp`

| Module | Code | Contents |
|---|---|---|
| `BoardState` | `boot_state.c`, `multiboot.c`, BootROM, resets | the variables; reading and writing the record; redirect; faults |
| `BootArbiter` | `fsbl_hooks.c` | one action per decision of `FsblHookBeforeBitstreamDload` |
| `UpdatePipeline` | `updater.c` | one action per numbered step of `updater_run` |
| `UpdaterApp` | `main.c` | start-up in both roles, probe, commit, watchdog, verbs |
| `Board` | | composition, properties, the inductive invariant |
| `VerifiedSlot` | | the abstract promise of the update slot |
| `MCBoard` | | images, manifests and fault classes for TLC |
| `BoardProofs`, `ReplyProofs` | | theorems: slot and roles; replies and starts |

One program counter `pc` says where the single thread is. A call of
`boot_state_write` is two steps (`WriteErase`, `WriteProgram`) with a return
label `ret` and a result `br`, so that a reset can fall between them. The slot
is a sequence of 64 KB blocks; an image is a sequence of blocks and its first
block decides whether `image_is_bootable` and the BootROM accept it. They are
two different sets, because the BootROM checks more than step 4b does.

A **fault** is one of: external reset (with or without loss of
`MULTIBOOT_ADDR`), failed read, failed or silently wrong write, failed
controller initialisation, failed transfer, an interface that does not come up,
a watchdog that cannot be armed, hang of the update image. Each may
strike wherever the code can meet it and costs one of `MaxFaults`.

Assumptions of the model, each a simplification of the environment:

- two digests are equal exactly when the bytes are; a manifest therefore carries
  the image it describes, and its version is only a claim;
- a program that reports success over wrong contents happens in the slot only;
  in the record it would be a CRC error, which is the value `Unreadable`;
- programming clears bits only, so programming a block that was not erased
  leaves garbage; an interrupted erase or program of a slot block leaves the old
  block, or garbage;
- the update image's payload either works whenever it runs or never does; the
  golden image does not hang;
- a board without a network takes verbs from its serial menu, which has no key
  for UPDATE FORCE;
- STATUS reads only and is left out here (it is in the control channel);
- `multiboot_to` accepts the two offsets the program passes, so its refusal is
  unreachable; it is one step, since a reset between arming the register and
  resetting is no different from the reset it makes. The drain of the console
  only delays it.

### The control channel: `CtrlSystem` = `CtrlWire` + `CtrlChannel` + `CtrlClient`

| Module | Code | Contents |
|---|---|---|
| `CtrlWire` | UDP, the MAC's ring | the variables of all parts; loss, reordering, bounded duplication; the ring |
| `CtrlChannel` | `ctrl_channel.c`, `net_pump.c`, `serve` and the handlers of `main.c` | callback, pending verb, busy, requester, main loop, menu, drain, resets |
| `CtrlClient` | `host/ctrl.sh` | request, retry, result, `reboot_wait` |
| `CtrlSystem` | | composition, properties, the inductive invariant |
| `MCCtrl`, `CtrlProofs`, `ScriptProofs` | | TLC instances; theorems: the channel; `ctrl.sh` |

Datagrams under way are sets, so they overtake each other freely; those in the
MAC's ring are in order and wait until the board pumps. `Pumping` names the
three places where it does: the main loop, the pipeline's transfers and flash
loops, and `ctrl_drain`. What a verb does to flash is the business of `Board`;
here its outcome is a free choice among the replies its handler can send. A
request is identified with the socket it is sent from, as in the script, which
opens one per request. `UPDATE FORCE` is the same to the channel as `UPDATE`.
`era` counts boots, `ran` and `reruns` are history variables.

### The TFTP transfer: `TftpClient` over `TftpWorld`

| Module | Code | Contents |
|---|---|---|
| `TftpWorld` | UDP, the host's server (external) | lockstep server with sessions; loss, duplication, overtaking, strays |
| `TftpClient` | `tftp_client.c` | `tftp_get` and `tftp_recv_cb`, properties |
| `FileTransfer` | | the abstract promise to the caller of `tftp_get` |
| `MCTftp`, `TftpProofs` | | TLC instance; theorems |

The server opens a session of its own for every RRQ it sees, a repeated one too,
and each reads the file then in place: another version, or none. A DATA carries
the file and the true block number; the client compares only the number modulo
`Wrap`, as the code does. Clock ticks are abstracted: whenever the client waits
it may time out. A timeout that was too early, and a datagram lost, are counted
in `losses`, so that `RetriesOutlast` can say that the budgets are really spent.
A session reads one fixed version of the file: `release.sh` copies in place, but
a mixture it might serve is not accepted by the digest of step 4, which is the
board model's matter. A failed send whose result the code ignores is a loss.
What happens on the wire once the port is closed is not followed; a second call
binds a new port. What is on the wire to the client may also be repeated without
end and uncounted, a peer that repeats faster than the client times out: then
the client acknowledges and starts its wait again, and counts no retry
(`tftp_client.c:404` and 415-418). `Echoes` bounds only how many datagrams are
under way to the client when one is so repeated; 0 leaves counted copies only, as
`tftp_other_port` does.

`FileTransfer` is what the caller of `tftp_get` may count on: a failure, or the
whole of one version of the file. The board model takes a transfer to be just
that: a fault, or one of the images.

### The flash driver: `QspiFlash` over `NorPart`

| Module | Code | Contents |
|---|---|---|
| `NorPart` | the serial NOR part (external) | contents, the operation in progress, write enable latch |
| `QspiFlash` | `qspi_flash.c`, and its callers in `boot_state.c`, `updater.c`, `fsbl_hooks.c`, `main.c` | the checks of every call; one action per command; who has the controller; properties |
| `FlashCalls` | `qspi_flash.h`, as its callers take it | the abstract flash: calls answered, spans changed |
| `MCQspi`, `QspiProofs` | | TLC instance; theorems |

A byte is the set of its bits that are 0: an erased byte is `{}` and programming
is union, so "programming only clears bits" needs no arithmetic. While an
operation is in progress the part ignores every other command but the status
read and a read clocks in an undriven bus. A program wraps within its page. An
operation completes whenever the part likes (`PartFinishes`), or never; a reset
of the processor leaves it running, and a loss of power leaves what it was
writing as it was, as it was to become, or as neither.

A call is accepted or refused by the checks of the code in their order
(`Checked`), then sends one command per step, so that the part can finish, a
transfer can fail (having reached the part or not) and a reset can come between
any two. `owner` says who runs: the BootROM and the FSBL read through the linear
controller, the hook borrows it (more than once, if the FSBL calls it so), the
application configures its own. `issuer` remembers which call started the
operation in progress, `before` what the flash held when the call began.

`FlashCalls` is what a caller may count on, and `QspiFlash` is shown to implement
it (`FlashPromise`): no commands, pages, chunks or polls, only the contents, the
call that was asked, its answer, and `loose`, the addresses that a write already
given up may still change. A call that finds the part idle is one step: `Succeed`
changes its whole span (or reads it), `Fail` changes nothing outside it. The
mapping shows the flash as it was (`before`) until such a call answers, which no
caller can tell from the truth, since the program waits for the answer. A call
that finds the part busy promises only that nothing but its own span and what is
loose can change.

The board model takes one `boot_state_write` as an erase and a program that
succeed or fail, and may have taken effect either way. Those are the outcomes of
`FlashCalls` for calls on an idle part: `Succeed` is the erased, or the written,
sector; what `Fail` leaves in between is the old record, the new one, or a sector
that is neither, which is `Unreadable`.

### What a candidate is: `Candidate` = `Manifest` + `Sha256`

| Module | Code | Contents |
|---|---|---|
| `Manifest` | `manifest_parse` and its helpers | one action per kind of line; the decimal accumulator; `IsFormat1`, what a manifest is, without a parser |
| `Sha256` | `sha256.c` | block buffer, chunking, padding as operators on a context; `Padded`, the message of FIPS 180-4 |
| `Candidate` | `updater_run`, steps 2 to 4b | parse, check the size, fetch over the old buffer, hash by chunks, compare |
| `MCCandidate`, `CandidateProofs` | | TLC instance; theorems |

A line is a key and a value; a decimal value is the sequence of its characters,
since where it overflows matters, and digests and versions are well formed or
`Bad`. The compression function is taken to be injective, so a digest is the
padded message itself and a wrong buffer is a wrong digest. `UpdatePipeline`
takes all of this as one verdict, `Acceptable`; `VerdictIsAcceptable` is the
justification for doing so.

### The LED core: `BlinkCtl`

`BlinkCtl` models `blinkctl.vhd` clock by clock: one `Tick` is one rising edge,
on which the core (`Run`, or `ResetRegs` while the wrapper's inverted reset is
held) and a bus master both take their next values from what the other drove.
The master presents addresses and data in any order and with any spacing, holds
a beat until it is accepted, and takes responses as late as it likes. The
order of the code's variable assignments inside one clock (capture, retire,
execute, ready) is kept by the primed variables each operator refers to.
`awSent`, `wSent`, `executed` and `answered` are history variables, as are
`active` and `cnt`: BLINK_DIV as it was when the LED last changed, and the enabled
clocks since. They follow the LED alone (`Watch`), so that `LedPeriod` can compare
with them what the divider makes of it.
`MCBlinkCtl` instantiates it for TLC, and `BlinkProofs` holds its theorems.

## 3. The runs

| Run | Asks | Bounds | Distinct states |
|---|---|---|---|
| `board_faults` | safety of slot, roles, replies; refinement of `VerifiedSlot` | two faults of any class, six images, three attempts | 446 087 |
| `board_live` | promises of the verbs; serving again; fallback; an operator who keeps asking | two faults (no failed read), three images | 193 760 |
| `ctrl_wire` | who is answered, and about what | two hosts, one duplicate, one reset | 2 283 120 |
| `ctrl_script` | liveness and truth of `ctrl.sh` | one host, two sockets, one reset, long and unknown lines | 110 095 |
| `tftp` | one transfer, and that it ends; refinement of `FileTransfer` | two faults, repeats without end (`Echoes` 2), two sessions, three files, `Wrap` 4 | 773 781 |
| `qspi` | what a call changes, and that it returns; refinement of `FlashCalls` | two calls, one fault, eight pages in four sectors, 5-bit addresses | 160 509 |
| `candidate` | what is accepted as an image | all manifests of up to four lines, numerals of three digits, nine images, four chunk lengths | 500 512 |
| `blinkctl` | the bus and the LED | two writes, reads beside them, one reset, registers of two bits | 115 443 |

Why the bounds are enough to meet the interesting cases:

- **Two faults** is the least that makes the hard interleavings: a reset inside
  a rewrite and a second one inside its repair, or a lost count followed by a
  hang. Every fault class occurs at every point of the code that can meet it.
- **Images**: one healthy of two blocks (so that erase and program loops iterate),
  one whose payload never works, one that step 4b accepts and the BootROM does
  not, one that reads as erased flash, one that does not fit, and one that is
  the beginning of the healthy one.
- **Hosts**: two are the requester and the intruder; a third would only be another
  intruder. The hosts are symmetric and checked so; liveness runs use no symmetry.
- **TFTP**: files with 3, 4 and 4 full blocks with and without a tail, a buffer of
  exactly four blocks, and block numbers modulo 4: every block number wraps, the
  buffer is filled to its last byte, the last block is empty, short, or too much.
  Two faults, because with a third, with numbers modulo 4, a repeated block can be
  delayed until it passes for a later one (with 65536 and a buffer below 32 MiB it
  cannot, and the theorems hold for any number).
- **QSPI**: pages of two bytes and sectors of two pages give every alignment of a
  span; lengths up to the whole address range make an end that wraps; two calls
  let one fail and leave the part busy under the next; the one fault is a failed
  transfer, a failed initialisation, or a reset.
- **Candidate**: blocks of four bytes, two for the length, and messages of up to
  seven put the padding in the same block, exactly at its end, and in a block of
  its own; decimals in base 3 below 8 overflow at the second and third digit;
  a buffer longer than the slot holds an earlier image that the truncated one is
  a beginning of.
- **blinkctl**: two writes are the least for a beat to be presented while the
  write before it is held, executes, or awaits its response; the divider is
  written as 0 and as 3, by an aliased address, and disabled by the other write.

Deadlock is checked on the board, which never stops. The scripts and a transfer
end, and so do the calls of `qspi` and a candidate, so their runs do not check
it; the clock of `blinkctl` never stops.

Four statements of the code's comments and documents do not hold, and a violation
run keeps the counterexample of each. `PROJECT.json` quotes the lines.

| Run | Says | Shows |
|---|---|---|
| `init_failure_not_reset` | after a flash initialisation failure the watchdog resets the update | the loop kicks the watchdog |
| `unreadable_record_boots_update` | an unreadable record boots golden | a soft reset between erase and program, with the register naming the update, boots the update |
| `ctrl_queued` | a command during a verb is refused, never queued | one that arrives while the record is written waits in the ring and runs |
| `tftp_other_port` | a packet from another port leaves the transfer undisturbed | an ERROR of a repeated RRQ's session ends it |

Smaller disagreements met while modelling, not worth a run of their own:

- One failed read of the record breaks each of three promises, so `board_live`,
  which checks them, leaves failed reads out, and the hazards behind them have no
  property. SWITCH and GOLDEN are said not to touch `update_present`
  (`main.c:350-352`), but `set_attempts` ignores the result of its own read and
  then writes the default record (`VerbsKeepPresent`). `do_golden` cannot tell a
  failed read from a board without an update: it answers OK, writes nothing, and
  the arbiter redirects (`GoldenReplyIsKept`). A bare UPDATE takes the recorded
  version to be absent and installs an older one (`NoUnforcedDowngrade`). TLC
  finds each with "read" as the only fault and `MaxFaults` 1.
- "An installed image that is a different size cannot match" (`updater.c:471-474`),
  but the slot is hashed over the candidate's length: one that begins with the
  described bytes does match. `Stub` in `board_faults` is that case; what is then
  recorded is still true of the slot.
- `QSPI_OK` is "operation completed" (`qspi_flash.h:43`), but a call made while
  the part is still busy with one that timed out has its commands ignored, waits
  for the old operation, and answers OK. `FlashCalls` has that answer too
  (`SeemToSucceed`), and promises what OK means of the other calls only.
- Unknown keys are refused (`updater.c:165`), but what follows a lone CR up to the
  next LF is never looked at.
- The update role is to be reset by its watchdog when it hangs; if the watchdog
  cannot be armed the program says so and goes on, and `board_live` leaves that
  fault out.
- `icd_boot_arbiter.org` draws the role test as "slot index non-zero", which is
  not the code's: any value but the update's is golden.
- `icd_updater.org` line 294 counts record writes per boot; a boot that wrapped
  can add one.
- A failed initialisation in the hook prints that golden boots and, in the update
  slot, goes on with the update.
- A datagram shorter than a TFTP header fails a transfer before its sender is
  looked at.

### Fairness

- Board: weak fairness of `Progress` (the processor executes) and of
  `WatchdogReset` (an armed watchdog that is not kicked expires; it is hardware).
  Nothing is assumed of operators. `PersistenceInstalls` has its assumptions as
  antecedents, in the open: an operator who comes back with UPDATE and GOLDEN
  whenever the board serves (`Persistent`), and a host that at some point stops
  publishing images the board refuses (`HostSettles`).
- Control channel: weak fairness of the board and of each script; both are
  programs with timeouts. The network owes nothing.
- TFTP: weak fairness of `Loop`, the steps `tftp_get` takes between two
  deliveries, and strong fairness of `EndsDally`. `net_pump` hands over one
  datagram and returns the ticks the timer interrupt counted, so neither the loop
  nor its clock is stopped by what arrives; a retry is, because a repeat raises
  `resendAck`, and is not a step then. The dally counts its ticks whatever
  arrives, so it ends although a repeat may be what is handed over at any moment.
  Neither the server nor the wire need ever do anything again. That the current
  block is not repeated without end is the antecedent of `TransferEnds`, since
  the code gives no end then: without it TLC finds the call waiting for ever.
- QSPI: weak fairness of `Driver` alone. The part need never get ready.
- blinkctl: weak fairness of `Tick`, the clock. That the master takes its
  responses is an antecedent of `BusAnswers`.

Faults are bounded, so every behaviour has a last one, except the repeats of
`tftp`; no action of the board waits for the budget to run out.

## 4. The proofs

All theorems are checked by TLAPS for every value of the constants that satisfies
the named assumptions; the runs check the same formulas on small instances. TLC
has checked each inductive invariant on the instance of its run as well (those of
TFTP with a buffer of five bytes, which keeps their hypothesis, and a file of six
blocks, which is past the wrap). No theorem has a hypothesis that is not named
here.

**Board: slot and roles** (`BoardProofs`). `InstallInv` is the inductive
invariant. The property alone is not inductive: that a record stands over a
verified image needs to know what the pipeline holds when it starts to rewrite
(`ManifestInv`), what a pending write is about to claim (`RecordInv`), that
nothing vouches for the slot while it is rewritten (`RewriteInv`) and when the
register may name the slot (`RegisterInv`). Each action preserves each part;
`PresentImpliesVerified`, `OnlyVerifiedCodeRuns`, `RoleMatchesBytes` and `TypeOK`
follow, for any images, slot size and number of faults. `ImplementsSlotPromise`
shows with the same invariant that every step of the board is a step of
`VerifiedSlot` or leaves slot and record's verdict alone.

**Board: replies and starts** (`ReplyProofs`), on top of `InstallInv`, for any
images, `BootAttemptsMax` and number of faults.

- `InstalledReplyIsTrue`, `SkippedReplyIsTrue` and `RefusalCostsNothing` follow
  from `UpdateInv`: an answer stands in golden's serve loop only (`AnswerInv`), a
  commit writes what the manifest says over a slot that holds it and a write that
  returned OK is on the flash (`CommitInv`), and up to step 5 the record is the
  one the UPDATE found (`BaselineInv`).
- `SwitchReplyIsKept` follows from `SwitchInv`: after OK SWITCH the register names
  the slot and the stored count lets the arbiter pass, until the BootROM finds
  that it cannot load it.
- `StartsBounded` is a potential argument. `StartsLeft` is how often the update
  can still start from here if nothing fails, read off the record, or off the
  write that is under way. A start that the arbiter counts moves one from
  `StartsLeft` to `tries`; a fault may lift it to `BootAttemptsMax`, which the
  budget pays for. So their sum stays below `FaultBudget`.
- `GoldenReplyIsKept`, `VerbsKeepPresent` and `NoUnforcedDowngrade` are proved
  where `"read"` is not among the fault classes, and need it: after a failed read
  the code acts on the safe default, which opens the downgrade gate, makes
  SWITCH and GOLDEN write back a record without its `update_present`, and can let
  the arbiter of a board that said OK GOLDEN redirect again. `board_live`, which
  checks them, leaves read faults out for the same reason; all other faults
  strike.

**Control channel** (`CtrlProofs`). `ChannelInv` joins busy, pending verb,
requester and replies under way: busy is up from taking a verb to `ctrl_done`,
a pending or running verb of the wire has the requester that asked for it, so
what is sent is about what was asked. For any number of hosts, duplicates,
resets and ring slots.

**`ctrl.sh`** (`ScriptProofs`), on top of `ChannelInv`, for any number of hosts,
sockets, copies and resets. `OpenedInv` says that whatever is under way names a
socket that its host opened before, so a new socket meets nothing old.
`SurplusInv` counts: the datagrams of requests that are sent once, on the wire
and in the ring, plus those recorded, started and started again, are no more than
the requests there were plus the wire's copies. `OneShotVerbsRunOnce` is what
that leaves for the last. `RebootInv` says that a boot which has said OK to
SWITCH or GOLDEN is draining until it is gone, so whatever reports to a script
that watches is a later boot: `HealthyMeansRebooted`.

**TFTP** (`TftpProofs`). `TransferInv` says that a session's blocks on the wire
are blocks of its file, that what is stored is a prefix of the latched session's
file, and that no ACK runs ahead of it. That needs a number in sequence to be the
next block, so it is proved under `SmallBuffer`: the caller's buffer does not
hold `Wrap - 1` blocks (32 MiB with the code's constants; `updater_run` passes
`DL_MAX`, the 8.94 MiB of a slot). Nothing is assumed of the server's files, which
may be larger and wrap. `ServedInv` is why they do no harm: the server moves on
only when a block is acknowledged, so it is at most one block ahead of the client
(`Lockstep`), and no block beyond that was ever sent. Since what is stored fits
the buffer, no number that either end compares has wrapped (`NeverWraps`,
`NoWrap`); the three are one induction, `TransferInvariant`. `OkMeansWhole`,
`DoneMeansStored` and `TypeOK` (the buffer is never overrun) follow for any
files, retry budgets, sessions and faults of the wire. `TooBigIsTooBig`
needs only that a session keeps the file it opened (`BigInv`).
`ProtoNeedsDisorder` needs the order of the wire in the invariant: while nothing
was overtaken or strayed (`OrderInv`), what is under way to the client carries
each session's blocks in ascending order, none older than the block it has
(`InOrder`); then the next number the client has not seen is the one it expects.
`RetriesOutlast` is an account of what is under way. In `PatienceInv` each end's
sends of the block it is at are paid for, one loss each, but for one that may
still be alive: the block is on the wire to the client, or the answer to it is on
its way back (`Carried`), or the server has yet to send again (`MaySend`). A step
of the wire that ends a life is a loss; a timeout that comes while one is alive
counts as one. One hypothesis is needed, and TLC finds the counterexample
without it. `PatientServer`: the server sends a block more often than the
client asks for it again (otherwise the server may give up after fewer losses
than the client has retries, which the client spends on silence).
`ImplementsTransfer` puts what the caller sees together: by `TransferInv` and
`BigInv` every step of the client, the wire or the server is a step of
`FileTransfer`, which knows neither wire nor server, or changes nothing of it.
A buffer that holds the wrap is model-checked by `tftp`.

**Flash driver** (`QspiProofs`), for any geometry, write window, word width,
number of calls and of faults. `GuardConfines`: what `guard_write_range` lets
through lies inside the write window although its last sum is modulo `Word`.
`ChunkFits` and `ChunkLands`: a chunk ends where its page does, so a program
never wraps. `DriverInv` then says that a call which is past its checks writes
inside its region (`JobInv`), that the operation in progress reaches only the
span of the call that issued it, which may be an earlier call, or one of a
program before the reset (`IssuerInv`), who has the controller in which mode
(`OwnerInv`), and, for a call that found the part idle, how far its span is done
(`CleanInv`). `OnlyTheSpanChanges`, `OkMeansDone` and `ControllerMode` follow,
and that no step changes a byte below the window, where golden lives
(`GoldenIsNeverWritten`). So does `ImplementsFlashCalls`, step by step: while a
call has the part to itself, what it has changed so far and what the part is
doing lie in its span (`AloneInTarget`), so a call that gives up, or a reset that
ends it, leaves loose only what it was asked to change, and one that answers OK
has changed all of it.

**What a candidate is** (`CandidateProofs`), for any radix, word, block and chunk
length, manifests and images of any length, and any contents of the buffer.

- Induction. What the folds of `Manifest` compute is proved with the least
  element principle (`LeastMember`, from the library's well-foundedness of `<`):
  a set of naturals that holds 0 and the successor of each member holds them all
  (`Induction`). `Recursion` gives from it the function that a recursive
  definition names.
- The parser. `ParsesNumbers`: the accumulator of `man_parse_dec` is `Number` or
  `Bad`, since its check before each digit is exact (`DigitFitsMeans`) and a
  number that fits has only prefixes that fit. `ParserInv` says of the lines
  before the current one that each was taken for what it means, and of a file
  that was refused that it is not of format 1; `ParserIsStrict` follows.
- The hash. `Hashes(c, s)` says what the context c holds once s has gone into it:
  the whole blocks of s are compressed, the rest is at the start of `buf`, and
  `bitlen` counts them modulo 2^64. `UpdateHashes`: `sha256_update` takes
  `Hashes(c, s)` to `Hashes(c', s \o d)`, in each of its three phases.
  `FinalIsPadded`: from there `sha256_final` makes `Padded(s)`, whether the length
  fits the block or takes another, and whatever is left behind `buflen` in the
  buffer. `HashIsOnePiece` follows.
- The verdict. `StageInv` says that where the hash runs the length fits and the
  buffer starts with that many bytes of the file that was served.
  `VerdictIsAcceptable` follows: the verdict is about those bytes, not about what
  the buffer held before.
- One step. The board model asks of an image, in one step, whether it starts with
  the bytes the manifest describes and these are a boot image (`Acceptable`).
  `VerdictIsOneStep` says the same of the verdict here: for any bytes d of which
  the file served is a manifest (its length and digest are d's), updater_run goes
  on to step 5 exactly if d fits the slot, carries a boot header, and is what the
  served image starts with. It needs `PaddedTellsApart`: equal padded messages of
  one length are equal.

Two assumptions serve this module: `LinesAssumption` says what a line is (keys and
the characters of decimals), and `PowerAssumption` that the modulus of the bit
count, a power of two, is a positive number, which the provers cannot compute.

**LED core** (`BlinkProofs`). `LedInv` says that the divider is what is left of the
half period (`DividerInv`: `active - cnt`, and never below one clock), that
whatever a write may execute with is a register value, and that the divider loaded
next is clamped. From it, one clock changes the LED exactly when it is the last of
the half period (`LedChanges`), which is the action property `LedPeriod`.
`WriteInv` says where the beats sent on each channel are: executed with, held, or
still presented (`Half`), with READY high only while the core can keep what it
accepts. Both properties, `LedPeriod` and `WriteExecutesOnce`, follow for any width, divider,
number of writes and resets, and any master.

Only model-checked:

- the liveness properties, which are out of the prover's reach:
  `BoardServesAgain`, `BadUpdateFallsBack`, `PersistenceInstalls`, `VerbsEnd`,
  `ScriptsEnd`, `TransferEnds`, `CallsReturn` and `BusAnswers`;
- of the TFTP client, transfers past the wrap of the block number into a buffer
  that holds them (`tftp`: four blocks, numbers modulo 4).

## 5. Plan

All the modules are written, every safety property of a run is a theorem, and so
are the three implementations of an abstract specification (the verified slot,
the transfer, the flash driver's calls) and the link between the verdict and its one step in
the board model. Two links are by argument, given in section 2, and not by
theorem: that the board's `boot_state_write` has the outcomes of `FlashCalls`, and
that its arrival of an image or a fault has those of `FileTransfer`.

## 6. Not modelled, and why

- The compression function of SHA-256 and `sha256_hex`: arithmetic and formatting
  on values, with no state that outlives the call. `Sha256` assumes the former
  injective.
- `qspi_flash_read_id` and the capacity check: they change no state, and only an
  example calls them.
- The text of replies and banners, and the splitting of a command line into
  words: the control channel takes a line by what it is understood as.
- The AXI wrapper of the LED core (wiring, and the inversion of the reset, which
  `BlinkCtl` has), the block design, constraints, `.bif` files, makefiles and
  build scripts: nothing of them has state at run time.
- lwIP, the Xilinx drivers, the FSBL outside its hooks, the BootROM, the TFTP
  server and the flash part are not in the repository. They appear as the
  environment the code relies on, and `PROJECT.json` marks those definitions
  external.
- The publishing and console scripts of `host/`: their effect, which files a
  server offers and when they change, is in `TftpWorld` and in the publishing
  step of the board.
- Examples, test benches and unit tests were read as statements of intent.
