------------------------------- MODULE Replay -------------------------------
(***************************************************************************)
(* What a window shows of a terminal: its screen as the agent took it, and *)
(* the output after it.  The agent's reader and its request handler        *)
(* (handler.rs, batch.rs), the connection, the hub's chunker, snapshot     *)
(* scheduler and spool (output-chunker.ts, snapshot-scheduler.ts,          *)
(* channel-lifecycle-manager.ts), an attach (session-manager.ts) and the   *)
(* pane (useTerminal.ts), for one terminal.                                *)
(*                                                                         *)
(* Output is counted in units 1, 2, ...  A snapshot is the number of units *)
(* its screen shows; a piece of output is the sequence of its units.       *)
(*                                                                         *)
(* Of the spool, only the newest snapshot and the output stored after it   *)
(* are kept here: nothing reads the rest.  Module Spool has the rows.      *)
(***************************************************************************)
EXTENDS Integers, Sequences, Functions

CONSTANTS
  Pane,         \* panes that may show the terminal
  MaxPrint,     \* bound: units the terminal prints
  MaxInFlight,  \* _maxConcurrentSnapshots
  MaxTail,      \* MAX_ATTACH_TAIL_BYTES, in units
  MaxWaiting,   \* bound: requests whose answer has not been read
  MaxFaults,    \* bound: connections lost and hubs restarted
  MaxAttach     \* bound: attaches begun

ASSUME SlotsAssumption == MaxInFlight \in Nat \ {0}
ASSUME BoundsAssumption ==
  /\ MaxPrint \in Nat /\ MaxTail \in Nat /\ MaxWaiting \in Nat
  /\ MaxFaults \in Nat /\ MaxAttach \in Nat

VARIABLES
  printed,   \* units read from the PTY: what the agent's screen shows
  routed,    \* of those, the units that left the batch loop
  away,      \* frames kept by the agent while the hub has no connection
  toAgent,   \* requests on the connection: SnapshotReq or an attach's number
  taken,     \* the request being answered with the screen taken for it, if any
  up,        \* the connection
  wire,      \* frames on the connection
  reading,   \* the hub is in the middle of one read of the connection
  heard,     \* the newest unit the hub has read
  buffer,    \* OutputChunker: output not yet stored
  tail,      \* spool.db: the output stored after the newest snapshot
  snap,      \* spool.db: the newest snapshot, or NoSnapshot
  changed,   \* ChannelTimers.changed
  inFlight,  \* _inFlightSnapshots
  timer,     \* the channel has an entry in _snapshotTimeouts
  panes,     \* pane -> what it does and shows
  overlooked, \* something was lost that nothing will ask for again
  faults,    \* how many connections were lost and hubs restarted
  attaches   \* how many attaches were begun

agentVars == <<printed, routed, away, taken>>
connVars  == <<up, toAgent, wire, overlooked>>
spoolVars == <<buffer, tail, snap>>
schedVars == <<changed, inFlight, timer>>
countVars == <<faults, attaches>>
vars == <<agentVars, connVars, reading, heard, spoolVars, schedVars, panes, countVars>>

Unit == 1..MaxPrint
NoSnapshot == -1
Snapshot == {NoSnapshot} \cup 0..MaxPrint
SnapshotReq == 0
Request == 0..MaxAttach

(* A pane is not attached, waits for the agent's ATTACH_OK, had it with    *)
(* the handler still to go on, or shows an answer, the agent's or the      *)
(* spool's.  It shows the screen base, then text.  A fresh one was reset   *)
(* to that screen; one that was not kept what it showed.                   *)
PaneRecord ==
  [state : {"away", "asking", "answered", "live", "cached"}, ask : Request,
   answer : Snapshot, keep : BOOLEAN, fresh : BOOLEAN,
   base : Snapshot, text : Seq(Unit)]

NewPane == [state |-> "away", ask |-> 0, answer |-> NoSnapshot, keep |-> FALSE,
            fresh |-> FALSE, base |-> NoSnapshot, text |-> <<>>]

Frame == [type : {"OUTPUT"}, units : Seq(Unit)]
           \cup [type : {"SNAPSHOT_RES"}, at : Snapshot]
           \cup [type : {"ATTACH_OK"}, id : Request, at : Snapshot]

(* The types of the variables.                                             *)
TypeOK ==
  /\ printed \in 0..MaxPrint /\ routed \in 0..printed /\ heard \in 0..routed
  /\ away \in Seq(Seq(Unit))
  /\ toAgent \in Seq(Request)
  /\ taken \in Seq([for : Request, at : Snapshot]) /\ Len(taken) <= 1
  /\ wire \in Seq(Frame)
  /\ <<up, reading, overlooked, changed, timer>> \in BOOLEAN \X BOOLEAN \X BOOLEAN \X BOOLEAN \X BOOLEAN
  /\ buffer \in Seq(Unit) /\ tail \in Seq(Unit) /\ snap \in Snapshot
  /\ inFlight \in 0..MaxInFlight
  /\ panes \in [Pane -> PaneRecord]
  /\ faults \in 0..MaxFaults /\ attaches \in 0..MaxAttach

Init ==
  /\ printed = 0 /\ routed = 0 /\ away = <<>> /\ taken = <<>>
  /\ up = TRUE /\ toAgent = <<>> /\ wire = <<>> /\ overlooked = FALSE
  /\ reading = FALSE /\ heard = 0
  /\ buffer = <<>> /\ tail = <<>> /\ snap = NoSnapshot
  /\ changed = TRUE /\ inFlight = 0 /\ timer = FALSE
  /\ panes = [p \in Pane |-> NewPane]
  /\ faults = 0 /\ attaches = 0

-----------------------------------------------------------------------------
(* The agent.                                                              *)

(* spawn_reader_task: what is read goes to the screen and to the batch     *)
(* loop.                                                                   *)
ReadPty ==
  /\ printed < MaxPrint
  /\ printed' = printed + 1
  /\ UNCHANGED <<routed, away, taken, connVars, reading, heard, spoolVars,
                 schedVars, panes, countVars>>

(* The batch loop lets a channel's output go as one frame and the router   *)
(* sends it to the hub's connection, or keeps it while there is none: the  *)
(* newest frames, how many depends on the hub's other terminals.           *)
Route ==
  /\ routed < printed
  /\ \E n \in routed + 1 .. printed :
       LET units == [i \in 1 .. n - routed |-> routed + i]
       IN /\ routed' = n
          /\ IF up
               THEN /\ wire' = Append(wire, [type |-> "OUTPUT", units |-> units])
                    /\ UNCHANGED away
               ELSE /\ \E k \in 1 .. Len(away) + 1 :
                         away' = SubSeq(Append(away, units), k, Len(away) + 1)
                    /\ UNCHANGED wire
  /\ UNCHANGED <<printed, taken, up, toAgent, overlooked, reading, heard, spoolVars,
                 schedVars, panes, countVars>>

(* SNAPSHOT_REQ and ATTACH: the connection's handler has the reader take   *)
(* the screen.                                                             *)
TakeScreen ==
  /\ up /\ toAgent # <<>> /\ taken = <<>>
  /\ taken' = <<[for |-> Head(toAgent), at |-> printed]>>
  /\ toAgent' = Tail(toAgent)
  /\ UNCHANGED <<printed, routed, away, up, wire, overlooked, reading, heard,
                 spoolVars, schedVars, panes, countVars>>

(* The handler then writes its answer: output the reader read since may    *)
(* have been routed before it.                                             *)
Answer ==
  /\ taken # <<>>
  /\ LET t == Head(taken)
     IN wire' = Append(wire,
          IF t.for = SnapshotReq THEN [type |-> "SNAPSHOT_RES", at |-> t.at]
          ELSE [type |-> "ATTACH_OK", id |-> t.for, at |-> t.at])
  /\ taken' = <<>>
  /\ UNCHANGED <<printed, routed, away, up, toAgent, overlooked, reading, heard,
                 spoolVars, schedVars, panes, countVars>>

Waiting == Len(toAgent) + Len(taken)
             + Len(SelectSeq(wire, LAMBDA f : f.type # "OUTPUT"))

-----------------------------------------------------------------------------
(* The hub.  All frames of one read are handled before the handler of an   *)
(* attach that one of them answered goes on; that goes on before anything  *)
(* else.                                                                   *)

Idle == ~reading /\ \A p \in Pane : panes[p].state # "answered"

MayRead(type) == (reading \/ Idle) /\ wire # <<>> /\ Head(wire).type = type

NextOfRead ==
  /\ wire' = Tail(wire)
  /\ reading' \in {FALSE, Len(wire) > 1}

Subscribed(p) == panes[p].state \in {"live", "cached"}

(* As if an earlier subscription of the pane were kept.                    *)
WrittenTwice(units) ==
  [p \in Pane |-> IF Subscribed(p) THEN [panes[p] EXCEPT !.text = @ \o units \o units]
                  ELSE panes[p]]

(* broadcastToChannel, and the pane's subscription to OUTPUT.              *)
Written(units) ==
  [p \in Pane |-> IF Subscribed(p) THEN [panes[p] EXCEPT !.text = @ \o units]
                  ELSE panes[p]]

(* SnapshotScheduler.onOutput, onResize.                                   *)
onOutput == changed' = TRUE /\ overlooked' = FALSE

(* OUTPUT: to the panes, to the scheduler and to the chunker.              *)
ReadOutput ==
  /\ MayRead("OUTPUT")
  /\ NextOfRead
  /\ LET units == Head(wire).units
     IN /\ panes' = Written(units)
        /\ heard' = units[Len(units)]
        /\ buffer' = buffer \o units
  /\ onOutput
  /\ UNCHANGED <<agentVars, up, toAgent, tail, snap, inFlight, timer, countVars>>

(* OutputChunker.flush: when it holds enough, or a second after the first  *)
(* output it holds.                                                        *)
Flush ==
  /\ buffer # <<>>
  /\ tail' = tail \o buffer
  /\ buffer' = <<>>
  /\ UNCHANGED <<agentVars, connVars, reading, heard, snap, schedVars, panes, countVars>>

(* storeSnapshot: the chunker is flushed, and the snapshot is numbered     *)
(* after all that is stored.                                               *)
storeSnapshot(at) ==
  /\ snap' = at
  /\ tail' = <<>>
  /\ buffer' = <<>>

(* SNAPSHOT_RES: onSnapshotResponse, then storeSnapshot.                   *)
ReadSnapshot ==
  /\ MayRead("SNAPSHOT_RES")
  /\ NextOfRead
  /\ inFlight' = IF inFlight > 0 THEN inFlight - 1 ELSE 0
  /\ timer' = FALSE
  /\ storeSnapshot(Head(wire).at)
  /\ UNCHANGED <<agentVars, up, toAgent, overlooked, heard, changed, panes, countVars>>

(* ATTACH_OK resolves the promise of the attach that asked, if it waits.   *)
ReadAttachOk ==
  /\ MayRead("ATTACH_OK")
  /\ NextOfRead
  /\ panes' = [p \in Pane |->
       IF panes[p].state = "asking" /\ panes[p].ask = Head(wire).id
         THEN [panes[p] EXCEPT !.state = "answered", !.answer = Head(wire).at]
         ELSE panes[p]]
  /\ UNCHANGED <<agentVars, up, toAgent, overlooked, heard, spoolVars, schedVars, countVars>>

(* reattachChannel of the pane once it is answered: it shows the screen    *)
(* and what follows it, unless it keeps what it shows, and subscribes.     *)
Shown(p, state, at, units) ==
  IF panes[p].keep \/ at = NoSnapshot
    THEN [panes[p] EXCEPT !.state = state, !.fresh = FALSE, !.answer = NoSnapshot]
    ELSE [NewPane EXCEPT !.state = state, !.fresh = TRUE, !.base = at, !.text = units]

(* handleAttach goes on with the agent's answer.  A snapshot read after it *)
(* in the same read is stored already, and an older one takes its place.   *)
FinishAttach(p) ==
  /\ ~reading /\ panes[p].state = "answered"
  /\ storeSnapshot(panes[p].answer)
  /\ panes' = [panes EXCEPT ![p] = Shown(p, "live", @.answer, <<>>)]
  /\ overlooked' = (overlooked \/ (panes[p].answer < snap /\ ~changed /\ ~timer))
  /\ UNCHANGED <<agentVars, up, toAgent, wire, reading, heard, schedVars, countVars>>

(* buildAttachPayload: the newest snapshot and what is stored after it, or *)
(* none of that when it is too much (boundTail).                           *)
ReplayTail == IF snap = NoSnapshot \/ Len(tail) > MaxTail THEN <<>> ELSE tail

(* handleAttach, with the agent connected and without.  A pane that shows  *)
(* the terminal already keeps what it shows (onReconnect).                 *)
Attach(p) ==
  /\ Idle /\ attaches < MaxAttach
  /\ panes[p].state \in {"away", "live", "cached"}
  /\ attaches' = attaches + 1
  /\ IF up
       THEN /\ Waiting < MaxWaiting
            /\ toAgent' = Append(toAgent, attaches + 1)
            /\ panes' = [panes EXCEPT ![p].state = "asking", ![p].ask = attaches + 1,
                                      ![p].keep = (panes[p].state # "away")]
       ELSE /\ panes' = [panes EXCEPT ![p] =
                 IF @.state = "away" THEN Shown(p, "cached", snap, ReplayTail)
                 ELSE [@ EXCEPT !.state = "cached", !.fresh = FALSE]]
            /\ UNCHANGED toAgent
  /\ UNCHANGED <<agentVars, up, wire, overlooked, reading, heard, spoolVars,
                 schedVars, faults>>

(* The agent did not answer an ATTACH in time: the spool answers.          *)
AttachTimeout(p) ==
  /\ Idle /\ panes[p].state = "asking"
  /\ panes' = [panes EXCEPT ![p] = Shown(p, "cached", snap, ReplayTail)]
  /\ UNCHANGED <<agentVars, connVars, reading, heard, spoolVars, schedVars, countVars>>

-----------------------------------------------------------------------------
(* SnapshotScheduler.                                                      *)

(* _requestSnapshot: nothing while all slots are taken or without an       *)
(* agent.                                                                  *)
requestSnapshot ==
  IF inFlight >= MaxInFlight \/ ~up
    THEN UNCHANGED <<schedVars, toAgent, overlooked>>
    ELSE /\ Waiting < MaxWaiting
         /\ toAgent' = Append(toAgent, SnapshotReq)
         /\ changed' = FALSE
         /\ inFlight' = inFlight + 1
         /\ timer' = TRUE
         /\ overlooked' = FALSE

(* As if only a terminal without a snapshot were asked for one.            *)
TickFirstOnly ==
  /\ Idle /\ changed /\ snap = NoSnapshot
  /\ requestSnapshot
  /\ UNCHANGED <<agentVars, up, wire, reading, heard, spoolVars, panes, countVars>>

(* _onIdleTimeout, _onForcedTimeout.                                       *)
Tick ==
  /\ Idle /\ changed
  /\ requestSnapshot
  /\ UNCHANGED <<agentVars, up, wire, reading, heard, spoolVars, panes, countVars>>

(* As if the timeout freed the slot and left it at that.                   *)
TimeoutForgets ==
  /\ Idle /\ timer
  /\ timer' = FALSE
  /\ inFlight' = IF inFlight > 0 THEN inFlight - 1 ELSE 0
  /\ UNCHANGED <<changed, agentVars, connVars, reading, heard, spoolVars, panes, countVars>>

(* As if the timeout did not free the slot.                                *)
TimeoutKeepsSlot ==
  /\ Idle /\ timer
  /\ timer' = FALSE
  /\ changed' = TRUE
  /\ UNCHANGED <<inFlight, agentVars, connVars, reading, heard, spoolVars, panes, countVars>>

(* The timeout of the channel's last request.                              *)
SnapshotTimeout ==
  /\ Idle /\ timer
  /\ timer' = FALSE
  /\ inFlight' = IF inFlight > 0 THEN inFlight - 1 ELSE 0
  /\ changed' = TRUE
  /\ UNCHANGED <<agentVars, connVars, reading, heard, spoolVars, panes, countVars>>

(* handleResize.                                                           *)
Resize ==
  /\ Idle /\ up
  /\ onOutput
  /\ UNCHANGED <<agentVars, up, toAgent, wire, reading, heard, spoolVars, inFlight,
                 timer, panes, countVars>>

(* detachClient: the last one to leave asks for a snapshot.                *)
Detach(p) ==
  /\ Idle /\ Subscribed(p)
  /\ panes' = [panes EXCEPT ![p] = NewPane]
  /\ IF \E q \in Pane \ {p} : panes[q].state # "away"
       THEN UNCHANGED <<schedVars, toAgent, overlooked>>
       ELSE requestSnapshot
  /\ UNCHANGED <<agentVars, up, wire, reading, heard, spoolVars, countVars>>

-----------------------------------------------------------------------------
(* Faults.                                                                 *)

OutputIn(w) == \E i \in DOMAIN w : w[i].type = "OUTPUT"
SnapshotIn(w) == \E i \in DOMAIN w : w[i].type = "SNAPSHOT_RES"

(* A snapshot that will come if the connection lasts.                      *)
SnapshotComes ==
  \/ SnapshotReq \in Range(toAgent)
  \/ \E i \in DOMAIN taken : taken[i].for = SnapshotReq
  \/ SnapshotIn(wire)

(* The frames and the requests of a connection go with it.                 *)
ConnectionGone ==
  /\ up' = FALSE
  /\ toAgent' = <<>> /\ wire' = <<>> /\ taken' = <<>>

(* The connection is lost.  The panes hear that the host is away.          *)
Drop ==
  /\ Idle /\ up /\ faults < MaxFaults
  /\ faults' = faults + 1
  /\ ConnectionGone
  /\ overlooked' = (overlooked \/ (~changed /\ ~timer /\ (OutputIn(wire) \/ SnapshotComes)))
  /\ panes' = [p \in Pane |-> IF panes[p].state = "live"
                                THEN [panes[p] EXCEPT !.state = "cached"] ELSE panes[p]]
  /\ UNCHANGED <<printed, routed, away, reading, heard, spoolVars, schedVars, attaches>>

(* register_active: what the agent kept goes first.                        *)
Reconnect ==
  /\ Idle /\ ~up
  /\ up' = TRUE
  /\ wire' = [i \in DOMAIN away |-> [type |-> "OUTPUT", units |-> away[i]]]
  /\ away' = <<>>
  /\ UNCHANGED <<printed, routed, taken, toAgent, overlooked, reading, heard, spoolVars,
                 schedVars, panes, countVars>>

(* trackChannel of a terminal that outlived the hub.                       *)
Restored == changed' = TRUE /\ overlooked' = FALSE

(* The hub stops, which stores what the chunker holds (shutdown), or is    *)
(* killed, and is started again (startup).  Its windows attach anew.       *)
HubRestart(stored) ==
  /\ faults < MaxFaults
  /\ faults' = faults + 1
  /\ stored => Idle
  /\ tail' = IF stored THEN tail \o buffer ELSE tail
  /\ buffer' = <<>>
  /\ reading' = FALSE
  /\ ConnectionGone
  /\ Restored
  /\ inFlight' = 0 /\ timer' = FALSE
  /\ panes' = [p \in Pane |-> [panes[p] EXCEPT !.state = "away", !.keep = FALSE, !.ask = 0,
                                                 !.answer = NoSnapshot]]
  /\ UNCHANGED <<printed, routed, away, heard, snap, attaches>>

-----------------------------------------------------------------------------
AgentNext == ReadPty \/ Route \/ TakeScreen \/ Answer
HubNext ==
  \/ ReadOutput \/ ReadSnapshot \/ ReadAttachOk
  \/ Flush \/ Tick \/ SnapshotTimeout \/ Resize
  \/ \E p \in Pane : Attach(p) \/ FinishAttach(p) \/ AttachTimeout(p) \/ Detach(p)
Fault == Drop \/ Reconnect \/ \E stored \in BOOLEAN : HubRestart(stored)

Next == AgentNext \/ HubNext \/ Fault

(* The agent's tasks and the hub's event loop go on; the timers of the     *)
(* scheduler fire.  Nothing makes a terminal print, a person attach or a   *)
(* connection come back.                                                   *)
Fairness ==
  /\ WF_vars(Route) /\ WF_vars(TakeScreen) /\ WF_vars(Answer)
  /\ WF_vars(ReadOutput) /\ WF_vars(ReadSnapshot) /\ WF_vars(ReadAttachOk)
  /\ \A p \in Pane : WF_vars(FinishAttach(p))
  /\ WF_vars(Tick) /\ WF_vars(SnapshotTimeout)

Spec == Init /\ [][Next]_vars /\ Fairness

-----------------------------------------------------------------------------
Stored == 1..snap \cup Range(tail) \cup Range(buffer)

(* When something the hub has read is neither on the stored screen nor in  *)
(* the output after it (an answer overtaken by output, a hub killed before *)
(* it stored what it had, output the agent dropped), the scheduler still   *)
(* has a reason to take the screen again: it knows of a change, or waits   *)
(* for an answer that comes or times out.  There are two exceptions        *)
(* (overlooked): a connection lost with what nothing asks for again, and   *)
(* an attach that stores the screen it was answered with over a newer one. *)
StaleIsKnown ==
  1..heard \subseteq Stored \/ changed \/ timer \/ SnapshotComes \/ overlooked

(* When all slots for snapshots are taken, a timeout is running that frees *)
(* one: slots that leak, and answers that come after their timeout, never  *)
(* stop the snapshots for good.                                            *)
SlotsComeBack == inFlight >= MaxInFlight => timer

(* No pane writes output twice, or older output after newer: not after a   *)
(* reconnect, a replay from the spool, or an attach that was asked for     *)
(* again.                                                                  *)
PaneInOrder ==
  \A p \in Pane : \A i \in 1 .. Len(panes[p].text) - 1 :
    panes[p].text[i] < panes[p].text[i + 1]

(* Once a terminal is quiet and its agent stays connected, what the spool  *)
(* would replay becomes the whole of what the terminal printed, whatever   *)
(* was lost before: by a hub killed, by the agent's bound, by a race.      *)
ReplayCatchesUp == <>[](up /\ ~overlooked) => <>[](snap = printed)

(* handleAttach answers with the agent's screen and no output after it:    *)
(* "There is no gap between the two to fill."  A pane that attached and    *)
(* stays connected shows all the hub has read of its terminal.             *)
AttachLeavesNoGap ==
  \A p \in Pane :
    panes[p].state = "live" /\ panes[p].fresh
      => 1..heard \subseteq 1..panes[p].base \cup Range(panes[p].text)
=============================================================================
