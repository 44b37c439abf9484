---------------------------- MODULE BlinkProofs ----------------------------
(***************************************************************************)
(* What TLAPS proves of BlinkCtl for every register width, divider and     *)
(* bus master: the LED keeps its period, and a write executes once, with   *)
(* its own halves.                                                         *)
(***************************************************************************)
EXTENDS BlinkCtl, TLAPS

-----------------------------------------------------------------------------
(* The LED.                                                                *)

\* The data a write would execute with is a register value, and so is the
\* divider the next toggle loads, which is never 0.
DataInv ==
  /\ w \in Values \cup {None}
  /\ wdata \in Nat
  /\ div_pending \in Nat \ {0}

\* The divider is what is left of the half period.
DividerInv ==
  /\ divider \in Nat /\ active \in Nat /\ cnt \in Nat /\ led_state \in BOOLEAN
  /\ divider = active - cnt /\ cnt < active

LedInv == DataInv /\ DividerInv

\* A divider is clamped to at least one clock.
LEMMA ClampIsPositive ==
  ASSUME NEW v \in Nat
  PROVE  clamp_div(v) \in Nat \ {0}
BY DEF clamp_div

LEMMA ResetDividerIsPositive == clamp_div(DivReset) \in Nat \ {0}
BY WidthAssumption, ClampIsPositive

LEMMA LedInit == Init => LedInv
<1> SUFFICES ASSUME Init PROVE LedInv
  OBVIOUS
<1>1. DataInv
  BY ResetDividerIsPositive DEF Init, DataInv
<1>2. led_state \in BOOLEAN
  BY Zenon DEF Init
<1>3. divider = active - cnt /\ divider \in Nat /\ active \in Nat /\ cnt = 0 /\ cnt < active
  BY ResetDividerIsPositive, SMT DEF Init
<1> QED
  BY <1>1, <1>2, <1>3 DEF LedInv, DividerInv

\* One clock keeps what is loaded and what may be.
LEMMA LedStep == LedInv /\ [Next]_vars => LedInv'
<1> SUFFICES ASSUME LedInv, [Next]_vars PROVE LedInv'
  OBVIOUS
<1>1. CASE Run /\ MasterRuns
  <2>1. Data \in Nat
    BY BusAssumption, WidthAssumption DEF LedInv, DataInv, Data, GotW
  <2>2. w' \in Values \cup {None}
    BY <1>1 DEF MasterRuns, Presents, LedInv, DataInv
  <2>3. wdata' \in Nat
    BY <1>1, <2>1 DEF Run, WriteChannels
  <2>4. div_pending' \in Nat \ {0}
    <3>1. clamp_div(Data) \in Nat \ {0}
      BY <2>1, ClampIsPositive
    <3>2. CASE Execute
      BY <3>1, <3>2 DEF Execute, WriteReg, LedInv, DataInv
    <3>3. CASE Collect
      BY <3>3 DEF Collect, file, LedInv, DataInv
    <3> QED
      BY <1>1, <3>2, <3>3 DEF Run, WriteChannels
  <2>5. DividerInv'
    <3>1. Blink
      BY <1>1 DEF Run
    <3>2. CASE Disabled
      BY <3>1, <3>2 DEF Blink, Watch, Disabled, LedInv, DividerInv
    <3>3. CASE CountDown
      BY <3>1, <3>3 DEF Blink, Watch, CountDown, LedInv, DividerInv
    <3>4. CASE Toggle
      BY <3>1, <3>4 DEF Blink, Watch, Toggle, LedInv, DataInv, DividerInv
    <3> QED
      BY <3>1, <3>2, <3>3, <3>4 DEF Blink
  <2> QED
    BY <2>2, <2>3, <2>4, <2>5 DEF LedInv, DataInv
<1>2. CASE ResetRegs /\ MasterReset
  <2>1. DataInv'
    BY <1>2, ResetDividerIsPositive DEF ResetRegs, MasterReset, DataInv
  <2>2. (led_state \in BOOLEAN)'
    BY <1>2, Zenon DEF ResetRegs
  <2>3. (divider = active - cnt /\ divider \in Nat /\ active \in Nat /\ cnt = 0 /\ cnt < active)'
    BY <1>2, ResetDividerIsPositive, SMT DEF ResetRegs
  <2> QED
    BY <2>1, <2>2, <2>3 DEF LedInv, DividerInv
<1>3. CASE UNCHANGED vars
  BY <1>3 DEF vars, core, master, blink, file, writes, LedInv, DataInv, DividerInv
<1> QED
  BY <1>1, <1>2, <1>3 DEF Next, Tick

\* An enabled clock changes the LED exactly when it ends the half period.
LEMMA LedChanges ==
  ASSUME LedInv, [Next]_vars, aresetn
  PROVE  UNCHANGED vars \/ (led_state' # led_state <=> Enabled /\ cnt + 1 = active)
<1>1. CASE Run
  <2>1. Blink
    BY <1>1 DEF Run
  <2>2. CASE Disabled
    BY <2>2 DEF Disabled
  <2>3. CASE CountDown
    BY <2>3 DEF CountDown, LedInv, DividerInv
  <2>4. CASE Toggle
    BY <2>4 DEF Toggle, LedInv, DividerInv
  <2> QED
    BY <2>1, <2>2, <2>3, <2>4 DEF Blink
<1>2. CASE UNCHANGED vars
  BY <1>2
<1> QED
  BY <1>1, <1>2 DEF Next, Tick, ResetRegs

\* The LED changes every half period, whatever is written to BLINK_DIV and
\* whenever.
THEOREM LedKeepsPeriod == Spec => LedPeriod
<1>1. LedInv /\ [Next]_vars
        => [aresetn => (led_state' # led_state <=> Enabled /\ cnt + 1 = active)]_vars
  BY LedChanges
<1> QED
  BY LedInit, LedStep, <1>1, PTL DEF Spec, LedPeriod

-----------------------------------------------------------------------------
(* The write channels.                                                     *)

One(b) == IF b THEN 1 ELSE 0

\* Of the beats sent on a channel, n were executed with; one may be held,
\* then one may still be presented.
Half(sent, n, hold, reg, beat) ==
  /\ Len(sent) = n + One(hold) + One(beat # None)
  /\ hold => sent[n + 1] = reg
  /\ beat # None => sent[Len(sent)] = beat

\* Every write executed was sent.
LEMMA HalfLength ==
  ASSUME NEW sent, NEW n \in Nat, NEW hold, NEW reg, NEW beat,
         Half(sent, n, hold, reg, beat)
  PROVE  n <= Len(sent)
BY DEF Half, One

WriteTypes ==
  /\ awSent \in Seq(Addrs) /\ wSent \in Seq(Values)
  /\ executed \in Seq(Nat \X Nat)
  /\ aw \in Addrs \cup {None} /\ w \in Values \cup {None}
  /\ awaddr \in Nat /\ wdata \in Nat
  /\ {awready, wready, aw_hold, w_hold, bvalid, bready} \subseteq BOOLEAN
  /\ answered \in Nat

\* READY is high only while the core can keep what it accepts.
ReadyInv ==
  /\ awready => ~aw_hold /\ ~bvalid
  /\ wready => ~w_hold /\ ~bvalid

WriteInv ==
  /\ WriteTypes
  /\ ReadyInv
  /\ Half(awSent, Len(executed), aw_hold, awaddr, aw)
  /\ Half(wSent, Len(executed), w_hold, wdata, w)
  /\ WriteExecutesOnce

\* What a channel has after the edge that may accept a beat.
LEMMA HalfAccepts ==
  ASSUME NEW S, None \notin S, NEW sent \in Seq(S), NEW n \in Nat, NEW hold \in BOOLEAN,
         NEW reg, NEW beat \in S \cup {None}, NEW rdy \in BOOLEAN,
         Half(sent, n, hold, reg, beat), rdy => ~hold
  PROVE  LET taken == rdy /\ beat # None
             has == hold \/ taken
         IN /\ Len(sent) = n + One(has) + One(beat # None /\ ~taken)
            /\ has => sent[n + 1] = (IF taken THEN beat ELSE reg)
            /\ beat # None /\ ~taken => sent[Len(sent)] = beat
BY DEF Half, One

\* What the master presents next is the last beat it has sent, and what it
\* sent before stays.
Continues(new, S, sent, left, next) ==
  /\ new \in Seq(S)
  /\ Len(new) = Len(sent) - One(left) + One(next # None)
  /\ \A i \in 1 .. Len(sent) : new[i] = sent[i]
  /\ next # None => new[Len(new)] = next

LEMMA HalfSends ==
  ASSUME NEW S, None \notin S, NEW sent \in Seq(S), NEW beat \in S \cup {None},
         NEW taken \in BOOLEAN, NEW next \in S \cup {None},
         beat # None /\ ~taken => sent[Len(sent)] = beat /\ next = beat
  PROVE  Continues(Sent(sent, beat, taken, next), S, sent, beat # None /\ ~taken, next)
<1> USE DEF Continues
<1>1. CASE beat # None /\ ~taken
  BY <1>1 DEF Sent, One
<1>2. CASE ~(beat # None /\ ~taken)
  <2>1. beat = None \/ taken
    BY <1>2
  <2>2. CASE next = None
    BY <1>2, <2>2 DEF Sent, One
  <2>3. CASE next # None
    <3>1. Sent(sent, beat, taken, next) = Append(sent, next)
      BY <2>1, <2>3 DEF Sent
    <3> QED
      BY <1>2, <2>3, <3>1 DEF One
  <2> QED
    BY <2>2, <2>3
<1> QED
  BY <1>1, <1>2

LEMMA WriteInit == Init => WriteInv
<1> SUFFICES ASSUME Init PROVE WriteInv
  OBVIOUS
<1>1. WriteTypes
  <2>1. awSent \in Seq(Addrs) /\ wSent \in Seq(Values) /\ executed \in Seq(Nat \X Nat)
    BY DEF Init
  <2>2. {awready, wready, aw_hold, w_hold, bvalid, bready} \subseteq BOOLEAN
    BY DEF Init
  <2> QED
    BY <2>1, <2>2 DEF Init, WriteTypes
<1>2. ReadyInv
  BY DEF Init, ReadyInv
<1>3. /\ Half(awSent, Len(executed), aw_hold, awaddr, aw)
      /\ Half(wSent, Len(executed), w_hold, wdata, w)
  BY DEF Init, Half, One
<1>4. WriteExecutesOnce
  BY DEF Init, WriteExecutesOnce
<1> QED
  BY <1>1, <1>2, <1>3, <1>4 DEF WriteInv

\* One clock keeps the halves together.
LEMMA WriteStep == WriteInv /\ [Next]_vars => WriteInv'
<1> SUFFICES ASSUME WriteInv, [Next]_vars PROVE WriteInv'
  OBVIOUS
<1> USE DEF WriteInv
<1>1. CASE Run /\ MasterRuns
  <2> DEFINE n == Len(executed)
  <2>1. /\ n \in Nat
        /\ None \notin Addrs /\ None \notin Values
        /\ Addrs \subseteq Nat /\ Values \subseteq Nat
    BY BusAssumption, WidthAssumption DEF WriteTypes
  <2>2. /\ HasAw \in BOOLEAN /\ HasW \in BOOLEAN
        /\ GotAw \in BOOLEAN /\ GotW \in BOOLEAN
        /\ ResponseStays \in BOOLEAN
    BY DEF HasAw, HasW, GotAw, GotW, ResponseStays, WriteTypes
  <2>3. Addr \in Nat /\ Data \in Nat
    BY <2>1 DEF Addr, Data, GotAw, GotW, WriteTypes
  <2>4. /\ Len(awSent) = n + One(HasAw) + One(aw # None /\ ~GotAw)
        /\ HasAw => awSent[n + 1] = Addr
        /\ aw # None /\ ~GotAw => awSent[Len(awSent)] = aw
    <3>1. Half(awSent, n, aw_hold, awaddr, aw) /\ (awready => ~aw_hold)
      BY DEF ReadyInv
    <3>2. awSent \in Seq(Addrs) /\ aw \in Addrs \cup {None}
          /\ aw_hold \in BOOLEAN /\ awready \in BOOLEAN
      BY DEF WriteTypes
    <3> HIDE DEF n, WriteInv
    <3>3. LET taken == awready /\ aw # None
              has == aw_hold \/ taken
          IN /\ Len(awSent) = n + One(has) + One(aw # None /\ ~taken)
             /\ has => awSent[n + 1] = (IF taken THEN aw ELSE awaddr)
             /\ aw # None /\ ~taken => awSent[Len(awSent)] = aw
      BY <2>1, <3>1, <3>2, HalfAccepts
    <3> QED
      BY <3>3 DEF HasAw, GotAw, Addr
  <2>5. /\ Len(wSent) = n + One(HasW) + One(w # None /\ ~GotW)
        /\ HasW => wSent[n + 1] = Data
        /\ w # None /\ ~GotW => wSent[Len(wSent)] = w
    <3>1. Half(wSent, n, w_hold, wdata, w) /\ (wready => ~w_hold)
      BY DEF ReadyInv
    <3>2. wSent \in Seq(Values) /\ w \in Values \cup {None}
          /\ w_hold \in BOOLEAN /\ wready \in BOOLEAN
      BY DEF WriteTypes
    <3> HIDE DEF n, WriteInv
    <3>3. LET taken == wready /\ w # None
              has == w_hold \/ taken
          IN /\ Len(wSent) = n + One(has) + One(w # None /\ ~taken)
             /\ has => wSent[n + 1] = (IF taken THEN w ELSE wdata)
             /\ w # None /\ ~taken => wSent[Len(wSent)] = w
      BY <2>1, <3>1, <3>2, HalfAccepts
    <3> QED
      BY <3>3 DEF HasW, GotW, Data
  <2>6. /\ aw' \in Addrs \cup {None}
        /\ awSent' \in Seq(Addrs)
        /\ Len(awSent') = Len(awSent) - One(aw # None /\ ~GotAw) + One(aw' # None)
        /\ \A i \in 1 .. Len(awSent) : awSent'[i] = awSent[i]
        /\ aw' # None => awSent'[Len(awSent')] = aw'
    <3>1. /\ aw' \in Addrs \cup {None}
          /\ aw # None /\ ~GotAw => aw' = aw
      BY <1>1 DEF MasterRuns, Presents, WriteTypes
    <3>2. awSent' = Sent(awSent, aw, GotAw, aw')
      BY <1>1 DEF MasterRuns
    <3>3. awSent \in Seq(Addrs) /\ aw \in Addrs \cup {None}
      BY DEF WriteTypes
    <3> HIDE DEF n, WriteInv
    <3>4. Continues(Sent(awSent, aw, GotAw, aw'), Addrs, awSent, aw # None /\ ~GotAw, aw')
      <4>1. /\ None \notin Addrs /\ GotAw \in BOOLEAN
            /\ aw # None /\ ~GotAw => awSent[Len(awSent)] = aw /\ aw' = aw
        BY <2>1, <2>2, <2>4, <3>1
      <4> QED
        BY <3>1, <3>3, <4>1, HalfSends
    <3> QED
      BY <3>1, <3>2, <3>4 DEF Continues
  <2>7. /\ w' \in Values \cup {None}
        /\ wSent' \in Seq(Values)
        /\ Len(wSent') = Len(wSent) - One(w # None /\ ~GotW) + One(w' # None)
        /\ \A i \in 1 .. Len(wSent) : wSent'[i] = wSent[i]
        /\ w' # None => wSent'[Len(wSent')] = w'
    <3>1. /\ w' \in Values \cup {None}
          /\ w # None /\ ~GotW => w' = w
      BY <1>1 DEF MasterRuns, Presents, WriteTypes
    <3>2. wSent' = Sent(wSent, w, GotW, w')
      BY <1>1 DEF MasterRuns
    <3>3. wSent \in Seq(Values) /\ w \in Values \cup {None}
      BY DEF WriteTypes
    <3> HIDE DEF n, WriteInv
    <3>4. Continues(Sent(wSent, w, GotW, w'), Values, wSent, w # None /\ ~GotW, w')
      <4>1. /\ None \notin Values /\ GotW \in BOOLEAN
            /\ w # None /\ ~GotW => wSent[Len(wSent)] = w /\ w' = w
        BY <2>1, <2>2, <2>5, <3>1
      <4> QED
        BY <3>1, <3>3, <4>1, HalfSends
    <3> QED
      BY <3>1, <3>2, <3>4 DEF Continues
  <2>8. ReadyInv'
    BY <1>1 DEF Run, WriteChannels, Ready, ReadyInv
  <2>9. /\ awaddr' = Addr /\ wdata' = Data
        /\ awready' \in BOOLEAN /\ wready' \in BOOLEAN
        /\ bready' \in BOOLEAN
    BY <1>1 DEF Run, WriteChannels, Ready, MasterRuns, Takes
  <2>10. answered' = answered + One(bvalid /\ bready)
    BY <1>1 DEF MasterRuns, One, WriteTypes
  <2>11. /\ n <= Len(awSent) /\ n <= Len(wSent)
         /\ n = answered + One(bvalid)
         /\ \A i \in 1 .. n : executed[i] = <<awSent[i], wSent[i]>>
    BY DEF WriteExecutesOnce, One
  <2>12. CASE Execute
    <3>1. /\ executed' = Append(executed, <<Addr, Data>>)
          /\ aw_hold' = FALSE /\ w_hold' = FALSE /\ bvalid' = TRUE
          /\ HasAw /\ HasW /\ (bvalid => bready)
      BY <2>12 DEF Execute, ResponseStays, WriteTypes
    <3>2. executed' \in Seq(Nat \X Nat) /\ Len(executed') = n + 1
      BY <3>1, <2>3 DEF WriteTypes
    <3>3. WriteTypes'
      <4>1. answered' \in Nat
        BY <2>10 DEF WriteTypes, One
      <4>2. {awready', wready', aw_hold', w_hold', bvalid', bready'} \subseteq BOOLEAN
        BY <2>9, <3>1
      <4> QED
        BY <2>3, <2>6, <2>7, <2>9, <3>2, <4>1, <4>2 DEF WriteTypes
    <3>5. Half(awSent', n + 1, FALSE, Addr, aw')
      BY <2>1, <2>2, <2>4, <2>6, <3>1 DEF Half, One, WriteTypes
    <3>6. Half(wSent', n + 1, FALSE, Data, w')
      BY <2>1, <2>2, <2>5, <2>7, <3>1 DEF Half, One, WriteTypes
    <3>7. WriteExecutesOnce'
      <4>1. Len(executed') = answered' + 1
        BY <2>2, <2>10, <2>11, <3>1, <3>2 DEF One, WriteTypes
      <4>2. n + 1 <= Len(awSent) /\ n + 1 <= Len(wSent)
        BY <2>1, <2>4, <2>5, <3>1 DEF One
      <4>3. n + 1 <= Len(awSent') /\ n + 1 <= Len(wSent')
        <5>1. n + 1 \in Nat
          BY <2>1
        <5> HIDE DEF n, WriteInv
        <5>2. n + 1 <= Len(awSent')
          BY <3>5, <5>1, HalfLength
        <5>3. n + 1 <= Len(wSent')
          BY <3>6, <5>1, HalfLength
        <5> QED
          BY <5>2, <5>3
      <4>4. ASSUME NEW i \in 1 .. n + 1
            PROVE  executed'[i] = <<awSent'[i], wSent'[i]>>
        <5>1. awSent'[i] = awSent[i] /\ wSent'[i] = wSent[i]
          BY <2>1, <2>6, <2>7, <4>2 DEF WriteTypes
        <5>2. CASE i = n + 1
          <6>1. executed'[n + 1] = <<Addr, Data>>
            BY <2>1, <2>3, <3>1 DEF WriteTypes
          <6> QED
            BY <2>4, <2>5, <3>1, <5>1, <5>2, <6>1
        <5>3. CASE i # n + 1
          <6>1. i \in 1 .. n /\ executed'[i] = executed[i]
            BY <2>1, <3>1, <5>3 DEF WriteTypes
          <6> QED
            BY <2>11, <5>1, <6>1
        <5> QED
          BY <5>2, <5>3
      <4> QED
        BY <3>1, <3>2, <4>1, <4>3, <4>4 DEF WriteExecutesOnce
    <3> QED
      BY <2>8, <2>9, <3>1, <3>2, <3>3, <3>5, <3>6, <3>7
  <2>13. CASE Collect
    <3>1. /\ executed' = executed
          /\ aw_hold' = HasAw /\ w_hold' = HasW /\ bvalid' = (bvalid /\ ~bready)
      BY <2>13 DEF Collect, ResponseStays
    <3>2. WriteTypes'
      <4>1. answered' \in Nat
        BY <2>10 DEF WriteTypes, One
      <4>2. {awready', wready', aw_hold', w_hold', bvalid', bready'} \subseteq BOOLEAN
        BY <2>2, <2>9, <3>1 DEF WriteTypes
      <4>3. awSent' \in Seq(Addrs) /\ wSent' \in Seq(Values)
        BY <2>6, <2>7
      <4>4. executed' \in Seq(Nat \X Nat) /\ awaddr' \in Nat /\ wdata' \in Nat
        BY <2>3, <2>9, <3>1 DEF WriteTypes
      <4> QED
        BY <2>6, <2>7, <4>1, <4>2, <4>3, <4>4 DEF WriteTypes
    <3>3. Half(awSent', n, HasAw, Addr, aw')
      <4>1. Len(awSent') = n + One(HasAw) + One(aw' # None)
        BY <2>1, <2>4, <2>6 DEF One
      <4>2. HasAw => n + 1 \in 1 .. Len(awSent)
        BY <2>1, <2>4 DEF One
      <4> QED
        BY <2>4, <2>6, <4>1, <4>2 DEF Half
    <3>4. Half(wSent', n, HasW, Data, w')
      <4>1. Len(wSent') = n + One(HasW) + One(w' # None)
        BY <2>1, <2>5, <2>7 DEF One
      <4>2. HasW => n + 1 \in 1 .. Len(wSent)
        BY <2>1, <2>5 DEF One
      <4> QED
        BY <2>5, <2>7, <4>1, <4>2 DEF Half
    <3>5. WriteExecutesOnce'
      <4>1. n = answered' + One(bvalid')
        <5>1. One(bvalid) = One(bvalid /\ bready) + One(bvalid /\ ~bready)
          BY DEF One
        <5>2. One(bvalid /\ bready) \in Nat /\ One(bvalid /\ ~bready) \in Nat
          BY DEF One
        <5>3. answered \in Nat
          BY DEF WriteTypes
        <5> QED
          BY <2>1, <2>10, <2>11, <3>1, <5>1, <5>2, <5>3
      <4>2. n <= Len(awSent') /\ n <= Len(wSent')
        BY <2>1, <3>3, <3>4, HalfLength
      <4>3. ASSUME NEW i \in 1 .. n
            PROVE  executed[i] = <<awSent'[i], wSent'[i]>>
        <5>1. i \in 1 .. Len(awSent) /\ i \in 1 .. Len(wSent)
          <6>1. Len(awSent) \in Nat /\ Len(wSent) \in Nat
            BY DEF WriteTypes
          <6> QED
            BY <2>1, <2>11, <6>1
        <5> QED
          BY <2>6, <2>7, <2>11, <5>1
      <4> QED
        BY <3>1, <4>1, <4>2, <4>3 DEF WriteExecutesOnce, One
    <3> QED
      BY <2>8, <2>9, <3>1, <3>2, <3>3, <3>4, <3>5
  <2> QED
    BY <1>1, <2>12, <2>13 DEF Run, WriteChannels
<1>2. CASE ResetRegs /\ MasterReset
  <2>1. /\ awSent' = <<>> /\ wSent' = <<>> /\ executed' = <<>>
        /\ aw' = None /\ w' = None /\ awaddr' = 0 /\ wdata' = 0
        /\ awready' = FALSE /\ wready' = FALSE /\ aw_hold' = FALSE /\ w_hold' = FALSE
        /\ bvalid' = FALSE /\ bready' = FALSE /\ answered' = 0
    BY <1>2 DEF ResetRegs, MasterReset
  <2>2. awSent' \in Seq(Addrs) /\ wSent' \in Seq(Values) /\ executed' \in Seq(Nat \X Nat)
    BY <2>1
  <2>3. WriteTypes'
    BY <2>1, <2>2 DEF WriteTypes
  <2>4. ReadyInv' /\ WriteExecutesOnce'
    BY <2>1 DEF ReadyInv, WriteExecutesOnce
  <2>5. /\ Half(awSent', Len(executed'), aw_hold', awaddr', aw')
        /\ Half(wSent', Len(executed'), w_hold', wdata', w')
    BY <2>1 DEF Half, One
  <2> QED
    BY <2>3, <2>4, <2>5
<1>3. CASE UNCHANGED vars
  BY <1>3 DEF vars, core, master, blink, file, writes, WriteTypes, ReadyInv, Half,
     WriteExecutesOnce
<1> QED
  BY <1>1, <1>2, <1>3 DEF Next, Tick

\* A write of the bus executes once, with the address and the data that
\* belong together, and is answered once.
THEOREM WritesExecuteOnce == Spec => []WriteExecutesOnce
<1>1. WriteInv => WriteExecutesOnce
  BY DEF WriteInv
<1> QED
  BY WriteInit, WriteStep, <1>1, PTL DEF Spec
=============================================================================
