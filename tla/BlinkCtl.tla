------------------------------- MODULE BlinkCtl -------------------------------
(***************************************************************************)
(* The LED core of the FPGA design (blinkctl.vhd) on its AXI4-Lite bus.    *)
(* Everything changes at the rising edge of one clock: Tick is one edge,   *)
(* on which the core and the bus master each sample what the other drives. *)
(* WSTRB, PROT and the response codes, which are always OKAY, are left     *)
(* out; an address is a word address, of which the core decodes four bits. *)
(***************************************************************************)
EXTENDS Naturals, Sequences

CONSTANTS
  Word,          \* registers hold 0 .. Word - 1
  Version,       \* G_VERSION
  DivReset,      \* G_BLINK_DIV_RST
  ScratchReset,  \* R_SCRATCH_RESET
  None,          \* a channel with VALID low
  Addrs,         \* addresses the master writes
  ReadAddrs,     \* addresses the master reads
  Values,        \* data the master writes
  MaxWrites,     \* bound: write beats since the last reset
  MaxResets      \* bound: resets after the first

ASSUME WidthAssumption ==
  /\ Word \in Nat /\ 2 <= Word
  /\ Version \in 0 .. Word - 1 /\ DivReset \in 0 .. Word - 1
  /\ ScratchReset \in 0 .. Word - 1
ASSUME BusAssumption ==
  /\ Addrs \subseteq Nat /\ ReadAddrs \subseteq Nat
  /\ Values \subseteq 0 .. Word - 1
  /\ None \notin Addrs \cup ReadAddrs \cup Values
ASSUME BoundsAssumption == MaxWrites \in Nat /\ MaxResets \in Nat

VARIABLES
  divider, div_pending, heartbeat, ctrl, scratch, status, led_state,
  awready, aw_hold, awaddr, wready, w_hold, wdata, bvalid,
  arready, rvalid, rdata,
  aw, w, ar,       \* the master: what it presents on a channel, or None
  bready, rready,  \* and whether it takes a response
  aresetn,
  awSent, wSent,   \* history: the beats presented since the last reset
  executed,        \* history: the writes executed, as the core saw them
  answered,        \* history: write responses the master has taken
  active, cnt,     \* history: BLINK_DIV when the LED last changed, enabled clocks since
  resets

blink == <<divider, led_state, active, cnt>>
file == <<div_pending, ctrl, scratch, status>>
writes == <<awready, aw_hold, awaddr, wready, w_hold, wdata, bvalid, executed>>
reads == <<arready, rvalid, rdata>>
core == <<blink, file, heartbeat, writes, reads>>
master == <<aw, w, ar, bready, rready, aresetn, awSent, wSent, answered, resets>>
vars == <<core, master>>

-----------------------------------------------------------------------------
(* The registers.                                                          *)

\* Mutated form of clamp_div: a zero is kept.
ClampNot(v) == v

clamp_div(v) == IF v = 0 THEN 1 ELSE v

\* addr(5 downto 2): the register is the low four bits of the word address.
Reg(addr) == addr % 16

read_reg(addr) ==
  CASE Reg(addr) = 0 -> Version
    [] Reg(addr) = 1 -> ctrl
    [] Reg(addr) = 2 -> div_pending
    [] Reg(addr) = 3 -> heartbeat
    [] Reg(addr) = 4 -> scratch
    [] Reg(addr) = 5 -> status
    [] OTHER -> 0

\* One write.  STATUS has one bit that is ever set: a divider of 0 sets it,
\* and writing a 1 to it clears it.
WriteReg(addr, d) ==
  /\ ctrl' = IF Reg(addr) = 1 THEN d ELSE ctrl
  /\ div_pending' = IF Reg(addr) = 2 THEN clamp_div(d) ELSE div_pending
  /\ scratch' = IF Reg(addr) = 4 THEN d ELSE scratch
  /\ status' = IF Reg(addr) = 2 /\ d = 0 THEN 1
               ELSE IF Reg(addr) = 5 /\ d % 2 = 1 THEN 0 ELSE status

-----------------------------------------------------------------------------
(* The LED.                                                                *)

Enabled == ctrl % 2 = 1

Disabled == ~Enabled /\ UNCHANGED <<divider, led_state>>

CountDown ==
  /\ Enabled /\ divider > 1
  /\ divider' = divider - 1 /\ UNCHANGED led_state

Toggle ==
  /\ Enabled /\ divider <= 1
  /\ divider' = div_pending /\ led_state' = ~led_state

\* What is seen of the LED and of BLINK_DIV, without the divider.
Watch ==
  IF led_state' # led_state
  THEN active' = div_pending /\ cnt' = 0
  ELSE cnt' = (IF Enabled THEN cnt + 1 ELSE cnt) /\ UNCHANGED active

Blink == (Disabled \/ CountDown \/ Toggle) /\ Watch

-----------------------------------------------------------------------------
(* The write channels: address and data are accepted in any order, and the *)
(* write executes once both are here and no response is outstanding.       *)

GotAw == awready /\ aw # None
GotW == wready /\ w # None
Addr == IF GotAw THEN aw ELSE awaddr
Data == IF GotW THEN w ELSE wdata
HasAw == aw_hold \/ GotAw
HasW == w_hold \/ GotW
ResponseStays == bvalid /\ ~bready

\* What the comb process calls ready: not holding a beat, no response.  The
\* mutated form does not look at the held beat.
ReadyBlind(hold) == ~bvalid'
Ready(hold) == ~hold /\ ~bvalid'

Execute ==
  /\ HasAw /\ HasW /\ ~ResponseStays
  /\ WriteReg(Addr, Data)
  /\ aw_hold' = FALSE /\ w_hold' = FALSE /\ bvalid' = TRUE
  /\ executed' = Append(executed, <<Addr, Data>>)

Collect ==
  /\ ~(HasAw /\ HasW) \/ ResponseStays
  /\ aw_hold' = HasAw /\ w_hold' = HasW /\ bvalid' = ResponseStays
  /\ UNCHANGED <<file, executed>>

\* Mutated form of WriteChannels: each half waits for the other.
WriteChannelsInTurn ==
  /\ Execute \/ Collect
  /\ awaddr' = Addr /\ wdata' = Data
  /\ awready' = (Ready(aw_hold') /\ w_hold') /\ wready' = (Ready(w_hold') /\ aw_hold')

WriteChannels ==
  /\ Execute \/ Collect
  /\ awaddr' = Addr /\ wdata' = Data
  /\ awready' = Ready(aw_hold') /\ wready' = Ready(w_hold')

\* The read channels: the registers as they are at the address handshake.
GotAr == arready /\ ar # None

ReadChannels ==
  /\ rvalid' = (GotAr \/ (rvalid /\ ~rready))
  /\ rdata' = IF GotAr THEN read_reg(ar) ELSE rdata
  /\ arready' = ~rvalid'

Run ==
  /\ aresetn
  /\ Blink /\ WriteChannels /\ ReadChannels
  /\ heartbeat' = (heartbeat + 1) % Word

\* reset_regs; the wrapper inverts the bus's active-low reset.
ResetRegs ==
  /\ ~aresetn
  /\ divider' = clamp_div(DivReset) /\ div_pending' = clamp_div(DivReset)
  /\ led_state' = FALSE /\ active' = clamp_div(DivReset) /\ cnt' = 0
  /\ heartbeat' = 0 /\ ctrl' = 1 /\ scratch' = ScratchReset /\ status' = 0
  /\ awready' = FALSE /\ aw_hold' = FALSE /\ awaddr' = 0
  /\ wready' = FALSE /\ w_hold' = FALSE /\ wdata' = 0 /\ bvalid' = FALSE
  /\ arready' = FALSE /\ rvalid' = FALSE /\ rdata' = 0
  /\ executed' = <<>>

-----------------------------------------------------------------------------
(* The bus master: a beat it presents stays until it is accepted, and it   *)
(* presents addresses and data in any order.                               *)

\* Channel beat after an edge on which it was accepted or not.
Presents(beat, taken, choices) ==
  IF beat # None /\ ~taken THEN {beat} ELSE choices \cup {None}

\* READY matters only while there is a response.
Takes(valid) == IF valid THEN BOOLEAN ELSE {FALSE}

Sent(sent, beat, taken, next) ==
  IF next # None /\ (beat = None \/ taken) THEN Append(sent, next) ELSE sent

MasterRuns ==
  /\ aresetn
  /\ aw' \in Presents(aw, GotAw, IF Len(awSent) < MaxWrites THEN Addrs ELSE {})
  /\ w' \in Presents(w, GotW, IF Len(wSent) < MaxWrites THEN Values ELSE {})
  /\ ar' \in Presents(ar, GotAr, ReadAddrs)
  /\ awSent' = Sent(awSent, aw, GotAw, aw')
  /\ wSent' = Sent(wSent, w, GotW, w')
  /\ bready' \in Takes(bvalid') /\ rready' \in Takes(rvalid')
  /\ answered' = IF bvalid /\ bready THEN answered + 1 ELSE answered
  /\ \/ UNCHANGED <<aresetn, resets>>
     \/ resets < MaxResets /\ resets' = resets + 1 /\ aresetn' = FALSE

MasterReset ==
  /\ ~aresetn /\ aresetn' = TRUE
  /\ aw' = None /\ w' = None /\ ar' = None /\ bready' = FALSE /\ rready' = FALSE
  /\ awSent' = <<>> /\ wSent' = <<>> /\ answered' = 0
  /\ UNCHANGED resets

-----------------------------------------------------------------------------
\* The signals start at reset_regs, with the bus still in reset.
Init ==
  /\ divider = clamp_div(DivReset) /\ div_pending = clamp_div(DivReset)
  /\ led_state = FALSE /\ active = clamp_div(DivReset) /\ cnt = 0
  /\ heartbeat = 0 /\ ctrl = 1 /\ scratch = ScratchReset /\ status = 0
  /\ awready = FALSE /\ aw_hold = FALSE /\ awaddr = 0
  /\ wready = FALSE /\ w_hold = FALSE /\ wdata = 0 /\ bvalid = FALSE
  /\ arready = FALSE /\ rvalid = FALSE /\ rdata = 0
  /\ aw = None /\ w = None /\ ar = None /\ bready = FALSE /\ rready = FALSE
  /\ awSent = <<>> /\ wSent = <<>> /\ answered = 0 /\ executed = <<>>
  /\ resets = 0 /\ aresetn = FALSE

Tick == (Run /\ MasterRuns) \/ (ResetRegs /\ MasterReset)

Next == Tick

Spec == Init /\ [][Next]_vars

\* The clock runs.
FairSpec == Spec /\ WF_vars(Tick)

-----------------------------------------------------------------------------
\* The n-th address and the n-th data of the bus make the n-th write: it
\* executes once, with both, and gets one response, in whatever order and
\* however far apart the two arrive.
WriteExecutesOnce ==
  /\ Len(executed) = answered + (IF bvalid THEN 1 ELSE 0)
  /\ Len(executed) <= Len(awSent) /\ Len(executed) <= Len(wSent)
  /\ \A n \in 1 .. Len(executed) : executed[n] = <<awSent[n], wSent[n]>>

\* The LED changes at the enabled clock that BLINK_DIV, as it was when the LED
\* last changed, says, and at no other: a new divider never cuts a half period
\* short nor stretches it, also when 0 is written, and disabling only suspends it.
LedPeriod ==
  [][aresetn => (led_state' # led_state <=> Enabled /\ cnt + 1 = active)]_vars

\* While a master that keeps taking its responses is not reset, every write
\* whose address and data it has presented is answered, and so is every read.
BusAnswers ==
  []<>(bready \/ ~bvalid) /\ []<>(rready \/ ~rvalid) =>
    /\ \A n \in 1 .. MaxWrites :
         Len(awSent) >= n /\ Len(wSent) >= n ~> answered >= n \/ ~aresetn
    /\ ar # None ~> rvalid \/ ~aresetn
=============================================================================
