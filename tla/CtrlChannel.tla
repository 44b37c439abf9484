---------------------------- MODULE CtrlChannel ----------------------------
(***************************************************************************)
(* The board's end of the control channel: ctrl_channel.c, the pump that   *)
(* drives its callback, and the loop of main.c that runs the verbs.        *)
(*                                                                         *)
(* Everything runs on one thread.  The callback runs inside net_pump(),    *)
(* and net_pump() runs only where the loop, the update pipeline or         *)
(* ctrl_drain() call it: Pumping.  What a verb does to flash is the        *)
(* business of the modules of Board; here its outcome is a free choice     *)
(* among the replies its handler can send.                                 *)
(***************************************************************************)
EXTENDS CtrlWire

Labels == {"boot", "pump", "take", "console", "dispatch", "pipeline", "commit", "drain", "done"}
Pumping == {"pump", "pipeline", "drain"}
Roles == {"golden", "update"}

BoardInit ==
  /\ ring = <<>>
  /\ pending = None /\ busy = FALSE /\ hasPeer = FALSE /\ peer = NoSocket
  /\ role \in Roles /\ pc = "boot" /\ verb = None /\ origin = "wire"
  /\ era = 0
  /\ ran = {} /\ reruns = 0

\* udp_sendto to one socket: the line is lost, or is under way to a socket
\* that is still open.
SendTo(s, v, kind) ==
  \/ UNCHANGED toHost
  \/ /\ Open(s)
     /\ toHost' = toHost \cup {[to |-> s, verb |-> v, kind |-> kind, era |-> era]}

\* ctrl_reply_send: to the requester if there is one, and to the console.
\* Its mutated form answers a verb of the menu to whoever asked last.
ReplySendToLast(kind) ==
  IF peer # NoSocket THEN SendTo(peer, verb, kind) ELSE UNCHANGED toHost

ReplySend(kind) ==
  IF hasPeer THEN SendTo(peer, verb, kind) ELSE UNCHANGED toHost

-----------------------------------------------------------------------------
(* The receive callback.                                                   *)

\* Mutated form of RecvCb: the requester is recorded before the busy test.
RecvCbStealsPeer(s) ==
  /\ s.text \in Verbs
  /\ peer' = s /\ hasPeer' = TRUE
  /\ \/ /\ busy \/ pending # None
        /\ SendTo(s, s.text, "busy")
        /\ UNCHANGED <<pending, busy>>
     \/ /\ ~busy /\ pending = None
        /\ pending' = s.text
        /\ UNCHANGED <<busy, toHost>>

\* One datagram of socket s: dropped, refused, answered busy, or recorded
\* with its requester.
RecvCb(s) ==
  \/ /\ s.text = "long"
     /\ UNCHANGED <<statics, toHost>>
  \/ /\ s.text = "unknown"
     /\ SendTo(s, s.text, "parse")
     /\ UNCHANGED statics
  \/ /\ s.text \in Verbs /\ (busy \/ pending # None)
     /\ SendTo(s, s.text, "busy")
     /\ UNCHANGED statics
  \/ /\ s.text \in Verbs /\ ~busy /\ pending = None
     /\ pending' = s.text /\ peer' = s /\ hasPeer' = TRUE
     /\ UNCHANGED <<busy, toHost>>

\* net_pump() hands the next datagram to the callback.  The main loop's pump
\* may deliver more than one before it looks at the pending verb.
Deliver ==
  /\ pc \in Pumping
  /\ ring # <<>>
  /\ ring' = Tail(ring)
  /\ RecvCb(Head(ring).from)
  /\ \/ UNCHANGED pc
     \/ pc = "pump" /\ pc' = "take"
  /\ UNCHANGED <<toBoard, copies, verb, origin, ghosts, boot, client>>

PumpIdle ==
  /\ pc = "pump" /\ ring = <<>>
  /\ pc' = "take"
  /\ UNCHANGED <<wire, ring, statics, verb, origin, ghosts, boot, client>>

-----------------------------------------------------------------------------
(* The main loop, serve().                                                 *)

\* The verbs ctrl.sh sends once are counted: who was served, and how often
\* a request was served again.
Count(s) ==
  IF s.text = "STATUS" THEN UNCHANGED ghosts
  ELSE ran' = ran \cup {s} /\ reruns' = reruns + (IF s \in ran THEN 1 ELSE 0)

TakePending ==
  /\ pc = "take" /\ pending # None
  /\ verb' = pending /\ pending' = None /\ busy' = TRUE /\ origin' = "wire"
  /\ Count(peer)
  /\ pc' = "dispatch"
  /\ UNCHANGED <<wire, ring, hasPeer, peer, boot, client>>

\* Mutated form of NothingPending: the console goes before the wire.
ConsoleFirst ==
  /\ pc = "take"
  /\ pc' = "console"
  /\ UNCHANGED <<wire, ring, statics, verb, origin, ghosts, boot, client>>

NothingPending ==
  /\ pc = "take" /\ pending = None
  /\ pc' = "console"
  /\ UNCHANGED <<wire, ring, statics, verb, origin, ghosts, boot, client>>

\* No key, or one that is not a verb's: round again.
NoVerbKey ==
  /\ pc = "console"
  /\ pc' = "pump"
  /\ UNCHANGED <<wire, ring, statics, verb, origin, ghosts, boot, client>>

\* menu_key: the same handlers, with no requester.
MenuKey ==
  /\ pc = "console"
  /\ verb' \in Verbs /\ origin' = "menu"
  /\ busy' = TRUE /\ hasPeer' = FALSE
  /\ pc' = "dispatch"
  /\ UNCHANGED <<wire, ring, pending, peer, ghosts, boot, client>>

\* ctrl_done, and back to the loop: after a verb of the wire it still looks
\* at the console.  Its mutated form forgets to accept commands again.
DoneStaysBusy ==
  /\ pc = "done"
  /\ hasPeer' = FALSE
  /\ verb' = None
  /\ pc' = IF origin = "wire" THEN "console" ELSE "pump"
  /\ UNCHANGED <<wire, ring, pending, busy, peer, origin, ghosts, boot, client>>

Done ==
  /\ pc = "done"
  /\ busy' = FALSE /\ hasPeer' = FALSE
  /\ verb' = None
  /\ pc' = IF origin = "wire" THEN "console" ELSE "pump"
  /\ UNCHANGED <<wire, ring, pending, peer, origin, ghosts, boot, client>>

-----------------------------------------------------------------------------
(* dispatch() and the handlers, as far as the channel sees them.           *)

\* One reply, and the verb is over.
Answers(kind) ==
  /\ ReplySend(kind)
  /\ pc' = "done"
  /\ UNCHANGED <<toBoard, copies, ring, statics, verb, origin, ghosts, boot, client>>

DoStatus == pc = "dispatch" /\ verb = "STATUS" /\ Answers("report")

\* The role gate, and every refusal of a handler that wrote nothing or could
\* not write.
Refuses ==
  /\ pc = "dispatch"
  /\ verb \in {"UPDATE", "SWITCH", "GOLDEN"}
  /\ Answers("refused")

\* do_update: the first answer, then updater_run(), which pumps.
StartsUpdate ==
  /\ pc = "dispatch" /\ verb = "UPDATE" /\ role = "golden"
  /\ ReplySend("started")
  /\ pc' = "pipeline"
  /\ UNCHANGED <<toBoard, copies, ring, statics, verb, origin, ghosts, boot, client>>

\* A failure of the pipeline, or nothing to do.
EndsUpdate == pc = "pipeline" /\ Answers("failed")

\* commit_slot: boot_state_write erases and programs the record, no pump.
Commits ==
  /\ pc = "pipeline"
  /\ pc' = "commit"
  /\ UNCHANGED <<wire, ring, statics, verb, origin, ghosts, boot, client>>

Committed == pc = "commit" /\ \E kind \in {"installed", "failed"} : Answers(kind)

\* do_switch and do_golden once the record is written: reply, then drain.
\* The mutated form gives the channel back before it drains.
StartsResetDone ==
  /\ pc = "dispatch"
  /\ verb = "GOLDEN" \/ (verb = "SWITCH" /\ role = "golden")
  /\ era < MaxEras
  /\ ReplySend("going")
  /\ busy' = FALSE /\ hasPeer' = FALSE
  /\ pc' = "pump"
  /\ UNCHANGED <<toBoard, copies, ring, pending, peer, verb, origin, ghosts, boot, client>>

StartsReset ==
  /\ pc = "dispatch"
  /\ verb = "GOLDEN" \/ (verb = "SWITCH" /\ role = "golden")
  /\ era < MaxEras
  /\ ReplySend("going")
  /\ pc' = "drain"
  /\ UNCHANGED <<toBoard, copies, ring, statics, verb, origin, ghosts, boot, client>>

-----------------------------------------------------------------------------
(* Resets.                                                                 *)

\* Every reset loses the ring and the statics; the role after it is up to
\* the arbiter.
Reset ==
  /\ era < MaxEras
  /\ era' = era + 1
  /\ role' \in Roles
  /\ ring' = <<>>
  /\ pending' = None /\ busy' = FALSE /\ hasPeer' = FALSE /\ peer' = NoSocket
  /\ pc' = "boot" /\ verb' = None /\ origin' = "wire"
  /\ UNCHANGED <<wire, ghosts, client>>

\* reply_then_reset after ctrl_drain.
VerbResets == pc = "drain" /\ Reset

\* The menu's r, the watchdog, the power, at any moment.
OtherReset == pc # "boot" /\ Reset

\* main() down to serve(): the port is bound.
Boots ==
  /\ pc = "boot"
  /\ pc' = "pump"
  /\ UNCHANGED <<wire, ring, statics, verb, origin, ghosts, boot, client>>

\* What the board does of itself, and what is done to it.
BoardRuns ==
  \/ Deliver \/ PumpIdle \/ TakePending \/ NothingPending \/ NoVerbKey \/ Done
  \/ DoStatus \/ Refuses \/ StartsUpdate \/ EndsUpdate \/ Commits
  \/ Committed \/ StartsReset \/ VerbResets \/ Boots

Environment == MenuKey \/ OtherReset
=============================================================================
