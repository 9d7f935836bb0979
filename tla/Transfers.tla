----------------------------- MODULE Transfers -----------------------------
(***************************************************************************)
(* An upload of files from a window to a remote host                       *)
(* (packages/hub/src/transfers/transfer-service.ts), over SFTP             *)
(* (files/sftp-upload.ts).  Each file is written to a temporary beside its *)
(* target, chunk by chunk, then checked and placed under its name without  *)
(* replacing what is there.  The hub awaits an answer of the host at each  *)
(* step, and meanwhile a window may cancel, retry, resume, discard or      *)
(* leave, the link may drop and the hub may stop; meta.db holds what a     *)
(* stopped hub takes up again.                                             *)
(*                                                                         *)
(* One upload is modelled, of files in one folder; a temporary is a        *)
(* number, never given twice, and a chunk is known by its offset.  What    *)
(* the hub holds of the upload is one record, hub, because its handlers    *)
(* call each other: each is an operator from that record to the next.      *)
(* The requests under way are hub.wire, in order: an SFTP server runs the  *)
(* requests of a session in the order they came and answers in that order. *)
(***************************************************************************)
EXTENDS Integers, Sequences, FiniteSets, FiniteSetsExt, SequencesExt

CONSTANTS
    File,           \* the files of the upload
    Window,         \* the windows of the device that holds their bytes
    Nobody,         \* no window
    Size,           \* chunks of a file
    Policies,       \* what on_conflict the upload may be started with
    MaxConcurrent,  \* files one window sends at once
    MaxTemp,        \* bound: temporaries named
    MaxFaults,      \* bound: losses of the link, stops of the hub and refusals of the host
    MaxAsks,        \* bound: what windows ask for besides sending bytes
    MaxEvents       \* bound: both together

ASSUME ConstantsAssumption ==
    /\ Size \in Nat \ {0}
    /\ MaxConcurrent \in Nat \ {0}
    /\ Nobody \notin Window
    /\ IsFiniteSet(File) /\ File # {}
    /\ MaxTemp \in Nat
    /\ Policies \subseteq {"ask", "replace", "keep_both", "skip"}

VARIABLES
    hub,        \* what the hub holds of the upload, and its requests under way
    host,       \* the host's files: temporaries, and what has each file's name
    saved,      \* the upload's rows in meta.db
    asked,      \* files somebody said to replace
    writers,    \* windows that may type into the upload's terminal
    again,      \* retries of a file that wait for its host to be connected
    count       \* what of the bounds is used up, and what has happened

vars == <<hub, host, saved, asked, writers, again, count>>

None == 0
Temp == 1..MaxTemp
Chunks == 0..(Size - 1)

Unsettled == {"queued", "sending", "verifying", "conflict", "interrupted"}
State == Unsettled \cup {"placed", "skipped", "failed", "cancelled"}
AskAgain == {"failed", "cancelled", "interrupted"}

NewItem == [state |-> "queued", acked |-> 0, temp |-> None, whole |-> FALSE,
            resolution |-> "none", sink |-> None, writing |-> FALSE]

Init ==
    /\ hub = [life |-> "none", item |-> [f \in File |-> NewItem],
              source |-> Nobody, backend |-> "none", linkDropped |-> FALSE,
              queue |-> <<>>, pumpDue |-> FALSE, stale |-> FALSE,
              doneSaid |-> FALSE, dirty |-> {}, flushDue |-> FALSE, noted |-> FALSE, unsaved |-> {},
              unsavedAcks |-> {}, link |-> "up", wire |-> <<>>,
              named |-> 0, removal |-> {}, policy |-> "ask"]
    /\ host \in [linked : {{}}, bytes : {[t \in Temp |-> {}]},
                 target : [File -> {"free", "theirs"}],
                 copies : {[f \in File |-> 0]},
                 placed : {[f \in File |-> {}]}]
    /\ saved = [life |-> "none", item |-> [f \in File |-> NewItem]]
    /\ asked = {}
    /\ writers = Window
    /\ again = [f \in File |-> 0]
    /\ count = [faults |-> 0, seen |-> {}, asks |-> 0]

-----------------------------------------------------------------------------
(* What is under way.                                                      *)

OpenKinds == {"stat", "cut", "clear", "create", "reopen"}
LookKinds == {"look", "lookcut", "lookclear"}
PlaceKinds == {"finish", "link", "unlink", "rename"}
Kinds == OpenKinds \cup LookKinds \cup PlaceKinds
            \cup {"write", "close", "remove", "purge"}

Request == [k : Kinds, f : File, t : 0..MaxTemp, n : Nat,
            old : BOOLEAN, w : Window \cup {Nobody}]

OnWire(s, K) == {i \in 1..Len(s.wire) : s.wire[i].k \in K}
Opening(s, f) == \E i \in OnWire(s, OpenKinds) : s.wire[i].f = f
\* item.opening is the promise of the latest open only.
LatestOpening(s, f) ==
    \E i \in OnWire(s, OpenKinds) : s.wire[i].f = f /\ ~s.wire[i].old
Looking(s, w) == \E i \in OnWire(s, LookKinds) : s.wire[i].w = w

\* upload.busy counts the checks, placements and resumes under way.
Busy(s) == OnWire(s, PlaceKinds \cup LookKinds) # {}
isSettled(s) == ~Busy(s) /\ \A f \in File : s.item[f].state \notin Unsettled
isActive(s) ==
    \/ Busy(s)
    \/ /\ s.source # Nobody
       /\ \E f \in File : s.item[f].state \in {"queued", "sending", "verifying"}

Ask(s, kind, f, t, n, old, w) ==
    [s EXCEPT !.wire = Append(@, [k |-> kind, f |-> f, t |-> t, n |-> n,
                                  old |-> old, w |-> w])]
AskFor(s, kind, f, t) == Ask(s, kind, f, t, 0, FALSE, Nobody)
AskAll(s, rs) == [s EXCEPT !.wire = @ \o rs]

\* A loop of the code: what op leaves of s, applied to each element of q in turn.
Each(op(_, _), s, q) ==
    LET after[n \in 0..Len(q)] == IF n = 0 THEN s ELSE op(after[n - 1], q[n])
    IN  after[Len(q)]

-----------------------------------------------------------------------------
(* Small steps of the service, each on the hub's record.                   *)

\* persist comes with every change of state.
setState(s, f, st) ==
    [s EXCEPT !.item[f].state = st, !.unsaved = @ \cup {f}, !.dirty = @ \cup {f}]

\* What changed is said soon (flush); nothing is said of what is not settled.
settle(s) == [s EXCEPT !.flushDue = TRUE]

schedulePump(s) == [s EXCEPT !.pumpDue = TRUE]

noteHost(s) == [s EXCEPT !.noted = s.life = "kept" /\ isActive(s)]

(* Mutant: the acknowledged bytes of the removed temporary still count.    *)
restartKeepsAcked(s, f) ==
    [s EXCEPT !.item[f].temp = None, !.item[f].whole = FALSE, !.unsaved = @ \cup {f}]

restartFile(s, f) ==
    [s EXCEPT !.item[f].acked = 0, !.item[f].temp = None,
              !.item[f].whole = FALSE, !.unsaved = @ \cup {f},
              !.dirty = IF s.item[f].acked > 0 THEN @ \cup {f} ELSE @]

\* A removal never rejects; over a lost connection it does nothing.
removeTemp(s, f, t) ==
    IF t # None /\ s.backend = "live" THEN AskFor(s, "remove", f, t) ELSE s

\* backendOf: the connection the upload has, or the host's when that one is lost.
Reached(s) == s.backend = "live" \/ s.link = "up"
backendOf(s) == [s EXCEPT !.backend = "live"]

interruptAll(s) ==
    IF s.backend = "live" THEN s
    ELSE LET moving == {f \in File : s.item[f].state \in {"sending", "queued"}}
         IN  [s EXCEPT !.item = [f \in File |->
                            IF f \in moving
                            THEN [@[f] EXCEPT !.state = "interrupted", !.sink = None]
                            ELSE @[f]],
                       !.unsaved = @ \cup moving, !.dirty = @ \cup moving,
                       !.linkDropped = @ \/ s.source # Nobody,
                       !.backend = "none"]

\* fileFailed, of an interruption: its temporary stays, for a resume.
Interrupted(s, f) ==
    interruptAll([setState(s, f, "interrupted") EXCEPT !.item[f].sink = None])

\* fileFailed, of anything else: its temporary goes.
fileFailed(s, f) ==
    removeTemp(restartFile([setState(s, f, "failed") EXCEPT !.item[f].sink = None], f),
               f, s.item[f].temp)

\* afterStop, once the write it had open is closed.
StopEnded(s, f) ==
    IF s.item[f].state # "cancelled" THEN s
    ELSE removeTemp(restartFile(s, f), f, s.item[f].temp)

afterStop(s, f, sink) ==
    IF sink = None THEN StopEnded(s, f) ELSE AskFor(s, "close", f, sink)

skip(s, f) ==
    removeTemp(restartFile(setState(s, f, "skipped"), f), f, s.item[f].temp)

-----------------------------------------------------------------------------
(* Checking and placing a file.                                            *)

(* Mutant: a placement renames over what has the name.                     *)
placeOver(s, f) ==
    IF s.item[f].temp = None THEN s
    ELSE AskFor(settle(setState(s, f, "verifying")), "rename", f, s.item[f].temp)

\* Nothing is checked again once it is asked: place goes on whatever the file
\* has become meanwhile.
place(s, f) ==
    IF s.item[f].temp = None THEN s
    ELSE LET v == settle(setState(s, f, "verifying"))
             how == IF s.item[f].resolution = "replace" THEN "rename" ELSE "link"
             copy == IF s.item[f].resolution = "keep_both" THEN 1 ELSE 0
         IN  IF Reached(s)
             THEN Ask(backendOf(v), how, f, s.item[f].temp, copy, FALSE, Nobody)
             ELSE Interrupted(v, f)

finishFile(s, f) ==
    IF s.item[f].sink = None \/ s.item[f].state # "sending" THEN s
    ELSE AskFor(schedulePump(settle([setState(s, f, "verifying")
                                       EXCEPT !.item[f].sink = None])),
                "finish", f, s.item[f].sink)

conflictFound(s, f) ==
    CASE s.policy = "skip" -> skip(s, f)
      [] s.policy \in {"keep_both", "replace"} ->
             place([s EXCEPT !.item[f].resolution = s.policy], f)
      [] OTHER -> setState(s, f, "conflict")

\* place ends: what changed is said, and what waits for room goes.
placeEnds(s) == schedulePump(settle(s))

filePlaced(s, f) ==
    setState([s EXCEPT !.item[f].temp = None, !.item[f].whole = FALSE], f, "placed")

-----------------------------------------------------------------------------
(* Opening a file: its temporary, or the one it has resumed.               *)

\* open, of a file without a temporary: the name is the hub's before it is
\* the host's.
newTemp(s, f, old) ==
    Ask([s EXCEPT !.named = @ + 1, !.item[f].temp = s.named + 1,
                  !.unsaved = @ \cup {f}],
        "create", f, s.named + 1, 0, old, Nobody)

\* open, of the temporary the file has: created when nothing of it is acknowledged.
openTemp(s, f, old) ==
    Ask([s EXCEPT !.unsaved = @ \cup {f}],
        IF s.item[f].acked = 0 THEN "create" ELSE "reopen",
        f, s.item[f].temp, 0, old, Nobody)

\* admit, and open up to its first request of the host.
admit(s, f) ==
    LET o == [setState(s, f, "sending") EXCEPT
                 !.wire = [i \in DOMAIN @ |->
                              IF @[i].k \in OpenKinds /\ @[i].f = f
                              THEN [@[i] EXCEPT !.old = TRUE] ELSE @[i]]]
        it == s.item[f]
    IN  settle(IF ~Reached(s) THEN Interrupted(o, f)
               ELSE IF it.temp = None THEN newTemp(backendOf(o), f, FALSE)
               ELSE AskFor(backendOf(o), IF it.acked > 0 THEN "stat" ELSE "clear", f, it.temp))

\* The write is open: a file stopped meanwhile closes it again.
opened(s, f, t) ==
    IF s.item[f].state = "sending"
    THEN LET o == [s EXCEPT !.item[f].sink = t]
         IN  IF o.item[f].acked = Size THEN finishFile(o, f) ELSE o
    ELSE afterStop([s EXCEPT !.item[f].sink = None], f, t)

openFailed(s, f) ==
    IF s.item[f].state = "sending" THEN fileFailed(s, f) ELSE s

-----------------------------------------------------------------------------
(* Asking again for what failed, was cancelled or interrupted.             *)

(* Mutant: a temporary is placed whether or not it is whole.               *)
requeueAnyTemp(s, f) ==
    IF s.item[f].temp # None THEN place(s, f)
    ELSE [setState(s, f, "queued") EXCEPT !.queue = Append(@, f)]

requeue(s, f) ==
    IF s.item[f].whole THEN place(s, f)
    ELSE [setState(s, f, "queued") EXCEPT !.queue = Append(@, f)]

requeueAll(s, F) ==
    LET q == Each(requeue, s, SetToSeq(F))
    IN  [q EXCEPT !.queue = IF s.stale
                            THEN SetToSeq({f \in File : q.item[f].state = "queued"})
                            ELSE @,
                  !.stale = FALSE, !.doneSaid = FALSE]

AgainIn(s) == {f \in File : s.item[f].state \in AskAgain}

(* Mutant: a resume queues its files and starts none.                      *)
tookUpUnpumped(s, w) ==
    IF s.life # "kept" THEN s
    ELSE settle(requeueAll([s EXCEPT !.source = w], AgainIn(s)))

\* takeUp, once every temporary has been looked at.
tookUp(s, w) ==
    IF s.life # "kept" THEN s
    ELSE schedulePump(settle(requeueAll([s EXCEPT !.source = w], AgainIn(s))))

\* takeUp, of an upload whose host is reached.
takeUp(s, w) ==
    LET b == backendOf([s EXCEPT !.linkDropped = FALSE])
        kept == {f \in File : /\ s.item[f].temp # None
                              /\ s.item[f].state \in AskAgain \cup {"queued", "conflict"}}
        order == SetToSeq(kept)
    IN  IF kept = {} THEN tookUp(b, w)
        ELSE AskAll(b, [i \in 1..Len(order) |->
                          [k |-> "look", f |-> order[i], t |-> s.item[order[i]].temp,
                           n |-> 0, old |-> FALSE, w |-> w]])

\* One temporary has been looked at; the last one lets the upload go on.
looked(s, w) == IF Looking(s, w) THEN s ELSE tookUp(s, w)

\* lookAtTemp, of a temporary that is not what it was.
lookAgain(s, r) ==
    Ask(s, "lookclear", r.f, r.t, 0, FALSE, r.w)

-----------------------------------------------------------------------------
(* The host (external): what a request does to its files.                  *)

Length(B) == IF B = {} THEN 0 ELSE Max(B) + 1
\* What stat says of a temporary: -1 when it is not there.
SizeOf(h, t) == IF t \in h.linked THEN Length(h.bytes[t]) ELSE -1

\* A hard link refuses a name that is taken; keep_both looks for a free one.
Links(h, r) == r.t \in h.linked /\ (r.n = 1 \/ h.target[r.f] = "free")

Done(h, r) ==
    CASE r.k \in {"cut", "lookcut"} ->
           [h EXCEPT !.bytes[r.t] = IF r.t \in h.linked
                                    THEN {c \in @ : c < r.n} ELSE @]
      [] r.k \in {"clear", "lookclear", "remove", "purge", "unlink"} ->
           [h EXCEPT !.linked = @ \ {r.t}]
      [] r.k = "create" /\ r.t \notin h.linked ->
           [h EXCEPT !.linked = @ \cup {r.t}, !.bytes[r.t] = {}]
      [] r.k = "write" -> [h EXCEPT !.bytes[r.t] = @ \cup {r.n}]
      [] r.k = "link" /\ Links(h, r) ->
           [h EXCEPT !.target[r.f] = IF r.n = 0 THEN "ours" ELSE @,
                     !.copies[r.f] = @ + r.n,
                     !.placed[r.f] = @ \cup {h.bytes[r.t]}]
      [] r.k = "rename" /\ r.t \in h.linked ->
           [h EXCEPT !.target[r.f] = "ours", !.linked = @ \ {r.t},
                     !.placed[r.f] = @ \cup {h.bytes[r.t]}]
      [] OTHER -> h

\* The host does the next request, and its answer is handled.
Answer(k, Then(_, _)) ==
    /\ hub.wire # <<>>
    /\ Head(hub.wire).k = k
    /\ host' = Done(host, Head(hub.wire))
    /\ hub' = Then([hub EXCEPT !.wire = Tail(@)], Head(hub.wire))
    /\ hub'.named <= MaxTemp
    /\ UNCHANGED <<asked, count>>

-----------------------------------------------------------------------------
(* Answers to open.                                                        *)

\* The temporary a file has is looked at before it is written to again; a
\* file stopped meanwhile has none any more.
statDone(s, r) ==
    LET it == s.item[r.f]
        size == SizeOf(host, r.t)
    IN  IF it.temp = None THEN newTemp(s, r.f, r.old)
        ELSE CASE size < it.acked -> Ask(s, "clear", r.f, it.temp, 0, r.old, Nobody)
               [] size > it.acked -> Ask(s, "cut", r.f, it.temp, it.acked, r.old, Nobody)
               [] OTHER -> openTemp(s, r.f, r.old)

StatAnswered == Answer("stat", statDone) /\ UNCHANGED saved

cutDone(s, r) ==
    IF s.item[r.f].temp = None THEN newTemp(s, r.f, r.old)
    ELSE IF r.t \in host.linked THEN openTemp(s, r.f, r.old)
    ELSE Ask(s, "clear", r.f, s.item[r.f].temp, 0, r.old, Nobody)

CutAnswered == Answer("cut", cutDone) /\ UNCHANGED saved

clearDone(s, r) == newTemp(restartFile(s, r.f), r.f, r.old)

ClearAnswered == Answer("clear", clearDone) /\ UNCHANGED saved

\* A name that is taken is left for another one, once.
createDone(s, r) ==
    IF r.t \notin host.linked THEN opened(s, r.f, r.t)
    ELSE IF s.item[r.f].acked = 0 THEN newTemp(s, r.f, r.old)
    ELSE openFailed(s, r.f)

CreateAnswered == Answer("create", createDone) /\ UNCHANGED saved

reopenDone(s, r) ==
    IF r.t \in host.linked THEN opened(s, r.f, r.t) ELSE openFailed(s, r.f)

ReopenAnswered == Answer("reopen", reopenDone) /\ UNCHANGED saved

-----------------------------------------------------------------------------
(* Answers to writing, checking and placing.                               *)

\* receive, once the chunk is written.
writeDone(s, r) ==
    LET w == [s EXCEPT !.item[r.f].writing = FALSE]
        a == settle([w EXCEPT !.item[r.f].acked = @ + 1,
                              !.dirty = @ \cup {r.f},
                              !.unsavedAcks = @ \cup {r.f}])
    IN  IF s.item[r.f].state # "sending" THEN afterStop(w, r.f, r.t)
        ELSE IF a.item[r.f].acked = Size THEN finishFile(a, r.f) ELSE a

WriteAnswered == Answer("write", writeDone) /\ UNCHANGED saved

\* finishFile, once the host said what it holds.
finishDone(s, r) ==
    IF Length(host.bytes[r.t]) = Size
    THEN place([s EXCEPT !.item[r.f].whole = TRUE, !.unsaved = @ \cup {r.f}], r.f)
    ELSE fileFailed(s, r.f)

FinishAnswered == Answer("finish", finishDone) /\ UNCHANGED saved

linkDone(s, r) ==
    CASE Links(host, r) -> AskFor(s, "unlink", r.f, r.t)
      [] r.n = 0 /\ host.target[r.f] # "free" -> placeEnds(conflictFound(s, r.f))
      [] OTHER -> placeEnds(fileFailed(s, r.f))

LinkAnswered == Answer("link", linkDone) /\ UNCHANGED saved

unlinkDone(s, r) == placeEnds(filePlaced(s, r.f))

UnlinkAnswered == Answer("unlink", unlinkDone) /\ UNCHANGED saved

renameDone(s, r) ==
    placeEnds(IF r.t \in host.linked THEN filePlaced(s, r.f) ELSE fileFailed(s, r.f))

RenameAnswered == Answer("rename", renameDone) /\ UNCHANGED saved

closeDone(s, r) == StopEnded(s, r.f)

CloseAnswered == Answer("close", closeDone) /\ UNCHANGED saved

removeDone(s, r) == s

RemoveAnswered == Answer("remove", removeDone) /\ UNCHANGED saved

-----------------------------------------------------------------------------
(* Answers to a resume, and to the removal of what was dropped.            *)

lookDone(s, r) ==
    LET it == s.item[r.f]
        size == SizeOf(host, r.t)
        gone == looked(restartFile(s, r.f), r.w)
    IN  CASE it.whole /\ size = Size -> looked(s, r.w)
          [] ~it.whole /\ it.acked > 0 /\ size = it.acked -> looked(s, r.w)
          [] ~it.whole /\ it.acked > 0 /\ size > it.acked ->
                 Ask(s, "lookcut", r.f, r.t, it.acked, FALSE, r.w)
          [] OTHER -> IF size >= 0 THEN lookAgain(s, r) ELSE gone

LookAnswered == Answer("look", lookDone) /\ UNCHANGED saved

lookcutDone(s, r) ==
    IF r.t \in host.linked THEN looked(s, r.w) ELSE lookAgain(s, r)

LookcutAnswered == Answer("lookcut", lookcutDone) /\ UNCHANGED saved

lookclearDone(s, r) == looked(restartFile(s, r.f), r.w)

LookclearAnswered == Answer("lookclear", lookclearDone) /\ UNCHANGED saved

\* removeDropped: the record goes once every temporary has.
purgeDone(s, r) ==
    IF OnWire(s, {"purge"}) = {} THEN [s EXCEPT !.removal = {}] ELSE s

PurgeAnswered ==
    /\ Answer("purge", purgeDone)
    /\ saved' = IF OnWire(hub', {"purge"}) = {}
                THEN [saved EXCEPT !.life = "none"] ELSE saved

\* atConnection, for what the upload left on the host when it was dropped.
removeDropped(s) ==
    IF OnWire(s, {"purge"}) # {} THEN s
    ELSE LET order == SetToSeq(s.removal)
         IN  AskAll(s, [i \in 1..Len(order) |->
                          [k |-> "purge", f |-> CHOOSE f \in File : TRUE, t |-> order[i],
                           n |-> 0, old |-> FALSE, w |-> Nobody]])

-----------------------------------------------------------------------------
(* The hub by itself.                                                      *)

\* pump: the files there is room for start, in their order, while the window
\* that sends them may type (sourceMayWrite); a whole one is only placed.
Room(s) == Cardinality({g \in File : s.item[g].state = "sending"}) < MaxConcurrent

pumpOne(s, f) ==
    IF ~Room(s) THEN [s EXCEPT !.queue = Append(@, f)]
    ELSE IF s.item[f].state # "queued" THEN s
    ELSE IF s.item[f].whole THEN place(s, f) ELSE admit(s, f)

Pump ==
    /\ hub.pumpDue
    /\ LET s == [hub EXCEPT !.pumpDue = FALSE]
       IN  hub' = IF s.life = "kept" /\ s.source \in writers
                  THEN Each(pumpOne, [s EXCEPT !.queue = <<>>], s.queue)
                  ELSE s
    /\ hub'.named <= MaxTemp
    /\ UNCHANGED <<host, saved, asked, count>>

\* flush: what is done is said, and an idle upload lets go of the connection.
Flush ==
    /\ hub.flushDue
    /\ LET s == [hub EXCEPT !.flushDue = FALSE]
           over == isSettled(s) /\ ~s.doneSaid
           idle == ~isActive(s) /\ s.source = Nobody
       IN  hub' = IF s.life # "kept" THEN s
                  ELSE noteHost([s EXCEPT !.doneSaid = @ \/ over, !.dirty = {},
                                          !.backend = IF over \/ idle THEN "none" ELSE @])
    /\ UNCHANGED <<host, saved, asked, count>>

\* save: the rows of what changed; the acknowledged bytes wait for their timer.
Row(it) == [it EXCEPT !.sink = None, !.writing = FALSE]
Rows(s, F) == [f \in File |-> IF f \in F THEN Row(s.item[f]) ELSE saved.item[f]]

Save(acks) ==
    LET F == hub.unsaved \cup (IF acks THEN hub.unsavedAcks ELSE {})
    IN  /\ F # {}
        /\ hub.life = "kept"
        /\ saved' = [saved EXCEPT !.item = Rows(hub, F)]
        /\ hub' = [hub EXCEPT !.unsaved = {}, !.unsavedAcks = @ \ F]
        /\ UNCHANGED <<host, asked, count>>

\* forgetLater: an upload whose every file is placed or skipped.
Forget ==
    /\ hub.life = "kept" /\ hub.doneSaid
    /\ \A f \in File : hub.item[f].state \in {"placed", "skipped"}
    /\ hub' = [hub EXCEPT !.life = "gone", !.unsaved = {}, !.unsavedAcks = {}]
    /\ saved' = [saved EXCEPT !.life = "none"]
    /\ UNCHANGED <<host, asked, count>>

\* drop: what it was doing stops, and its temporaries are to be removed.
drop(s) ==
    noteHost([s EXCEPT
        !.life = "gone", !.queue = <<>>, !.flushDue = FALSE, !.backend = "none",
        !.dirty = {}, !.unsaved = {}, !.unsavedAcks = {},
        !.removal = {s.item[f].temp : f \in {g \in File : s.item[g].state # "placed"}} \ {None},
        !.item = [f \in File |->
                     [s.item[f] EXCEPT
                         !.sink = None,
                         !.state = IF s.item[f].state \in Unsettled THEN "cancelled"
                                   ELSE s.item[f].state]]])

Dropped(s) ==
    /\ hub' = IF s.link = "up" THEN removeDropped(drop(s)) ELSE drop(s)
    /\ saved' = [saved EXCEPT !.life = IF hub'.removal = {} /\ s.link = "up"
                                       THEN "none" ELSE "discarded"]

Expire ==
    /\ hub.life = "kept" /\ hub.source = Nobody /\ ~isActive(hub)
    /\ Dropped(hub)
    /\ UNCHANGED <<host, asked, count>>

-----------------------------------------------------------------------------
(* What windows ask.                                                       *)

Asks ==
    /\ count.asks < MaxAsks /\ count.asks + count.faults < MaxEvents
    /\ count' = [count EXCEPT !.asks = @ + 1]

\* Files are asked for again, the hub being done with them or not (history).
Marks(done) == IF done THEN count.seen ELSE count.seen \cup {"overlap"}
Overlaps(done) == count' = [count EXCEPT !.seen = Marks(done)]
AsksAgain(done) ==
    /\ count.asks < MaxAsks /\ count.asks + count.faults < MaxEvents
    /\ count' = [count EXCEPT !.asks = @ + 1, !.seen = Marks(done)]

\* lockChanged: the terminal's write lock changed hands, or the terminal ended.
LockChanged ==
    /\ Asks
    /\ \E W \in SUBSET Window : W # writers /\ writers' = W
    /\ hub' = IF hub.life = "kept" THEN schedulePump(hub) ELSE hub
    /\ UNCHANGED <<host, saved, asked, again>>

\* start, from its look at the destination on: what has a file's name already
\* is a conflict, as the policy says.
Start(w, policy) ==
    /\ hub.life = "none" /\ hub.link = "up"
    /\ LET found == {f \in File : host.target[f] # "free"}
           item == [f \in File |->
                      IF f \notin found THEN NewItem
                      ELSE CASE policy = "skip" -> [NewItem EXCEPT !.state = "skipped"]
                             [] policy = "ask" -> [NewItem EXCEPT !.state = "conflict"]
                             [] OTHER -> [NewItem EXCEPT !.resolution = policy]]
       IN  /\ hub' = schedulePump(noteHost(settle([hub EXCEPT
                         !.life = "kept", !.source = w, !.backend = "live",
                         !.policy = policy, !.item = item,
                         !.queue = SetToSeq({f \in File : item[f].state = "queued"})])))
           /\ saved' = [life |-> "kept", item |-> item]
    /\ asked' = IF policy = "replace" THEN File ELSE {}
    /\ UNCHANGED <<host, count>>

\* receive, up to its write: the bytes go on from what is acknowledged.
Chunk(f) ==
    /\ hub.life = "kept" /\ hub.source # Nobody
    /\ hub.item[f].state = "sending" /\ ~LatestOpening(hub, f)
    /\ hub.item[f].sink # None /\ ~hub.item[f].writing
    /\ hub.item[f].acked < Size
    /\ hub' = IF hub.backend = "live"
              THEN Ask([hub EXCEPT !.item[f].writing = TRUE],
                       "write", f, hub.item[f].sink, hub.item[f].acked, FALSE, Nobody)
              ELSE Interrupted(hub, f)
    /\ UNCHANGED <<host, saved, asked, count>>

(* Mutant: a file being placed can be cancelled.                           *)
CancelVerifying(f) ==
    /\ hub.life = "kept" /\ Asks
    /\ hub.item[f].state \in {"queued", "sending", "verifying", "conflict", "interrupted"}
    /\ hub' = schedulePump(settle([setState(hub, f, "cancelled") EXCEPT !.item[f].sink = None]))
    /\ UNCHANGED <<host, saved, asked>>

Cancel(f) ==
    /\ hub.life = "kept" /\ Asks
    /\ hub.item[f].state \in {"queued", "sending", "conflict", "interrupted"}
    /\ LET s == schedulePump(settle([setState(hub, f, "cancelled")
                                      EXCEPT !.item[f].sink = None]))
       IN  hub' = IF hub.item[f].writing THEN s
                  ELSE afterStop(s, f, hub.item[f].sink)
    /\ UNCHANGED <<host, saved, asked>>

Resolve(f, action) ==
    /\ hub.life = "kept" /\ Asks
    /\ hub.item[f].state = "conflict"
    /\ LET s == [hub EXCEPT !.item[f].resolution = action]
       IN  hub' = schedulePump(settle(IF action = "skip" THEN skip(hub, f)
                                      ELSE requeue(s, f)))
    /\ asked' = IF action = "replace" THEN asked \cup {f} ELSE asked
    /\ UNCHANGED <<host, saved>>

\* The hub is done with what it last did of the files F.
AtRest(F) ==
    /\ OnWire(hub, LookKinds) = {}
    /\ \A f \in F : ~Opening(hub, f)

Retried(s, f) == schedulePump(settle(requeueAll(s, {f})))

\* retry, of a host that is connected.
Retry(f) ==
    /\ hub.life = "kept" /\ hub.link = "up"
    /\ hub.item[f].state \in AskAgain
    /\ AsksAgain(AtRest({f}))
    /\ hub' = Retried(hub, f)
    /\ UNCHANGED <<host, saved, asked>>

\* retry, of a host that has to be connected first: what to send again is
\* chosen before the wait.
RetryWaits(f) ==
    /\ hub.life = "kept" /\ hub.link = "down" /\ Asks
    /\ hub.item[f].state \in AskAgain
    /\ again' = [again EXCEPT ![f] = @ + 1]
    /\ UNCHANGED <<hub, host, saved, asked>>

\* connect ends: refused, or the file is queued again, whatever it has become.
RetryEnds(f) ==
    /\ again[f] > 0
    /\ again' = [again EXCEPT ![f] = @ - 1]
    /\ \/ UNCHANGED <<hub, count>>
       \/ /\ hub.link = "up"
          /\ Overlaps(/\ hub.life = "kept" /\ hub.item[f].state \in AskAgain
                      /\ AtRest({f}))
          /\ hub' = Retried(hub, f)
    /\ UNCHANGED <<host, saved, asked>>

\* join: a window that drops the same tree again sends an upload nobody sends.
Join(w) ==
    /\ hub.life = "kept" /\ hub.link = "up"
    /\ hub.source = Nobody
    /\ \E f \in File : hub.item[f].state \notin {"placed", "skipped"}
    /\ AsksAgain(AtRest(File))
    /\ hub' = schedulePump(settle(requeueAll(
                 [hub EXCEPT !.source = w, !.linkDropped = FALSE], AgainIn(hub))))
    /\ UNCHANGED <<host, saved, asked>>

\* resume, once its host is connected.
Resume(w) ==
    /\ hub.life = "kept" /\ hub.link = "up"
    /\ ~Looking(hub, w)
    /\ AsksAgain(AtRest(File) /\ hub.source = Nobody)
    /\ hub' = takeUp(hub, w)
    /\ UNCHANGED <<host, saved, asked>>

Discard ==
    /\ hub.life = "kept" /\ Asks
    /\ Dropped(hub)
    /\ UNCHANGED <<host, asked>>

\* clientGone: what the window was sending stops; a write under way ends by itself.
ClientGone ==
    /\ hub.source # Nobody /\ Asks
    /\ LET moving == {f \in File : hub.item[f].state = "sending"}
       IN  hub' = schedulePump(settle([hub EXCEPT
                     !.source = Nobody, !.unsaved = @ \cup moving,
                     !.dirty = @ \cup moving,
                     !.item = [f \in File |->
                                 IF f \in moving
                                 THEN [@[f] EXCEPT !.state = "interrupted", !.sink = None]
                                 ELSE @[f]]]))
    /\ UNCHANGED <<host, saved, asked>>

-----------------------------------------------------------------------------
(* Faults.                                                                 *)

Fault(kind) ==
    /\ count.faults < MaxFaults /\ count.asks + count.faults < MaxEvents
    /\ count' = [count EXCEPT !.faults = @ + 1, !.seen = @ \cup {kind}]

\* Somebody else takes a file's name on the host (external).
NameTaken(f) ==
    /\ host.target[f] = "free" /\ hub.life = "kept"
    /\ host' = [host EXCEPT !.target[f] = "theirs"]
    /\ UNCHANGED <<hub, saved, asked, count>>

\* What the hub does of a request the host refused: a temporary that cannot be
\* seen or cut starts again, a removal that is refused counts as done, a
\* placement whose temporary cannot be removed is a failure (removeOn).
refused(s, r) ==
    CASE r.k \in {"stat", "cut"} ->
           IF s.item[r.f].temp = None THEN newTemp(s, r.f, r.old)
           ELSE Ask(s, "clear", r.f, s.item[r.f].temp, 0, r.old, Nobody)
      [] r.k = "clear" -> clearDone(s, r)
      [] r.k \in {"create", "reopen"} -> openFailed(s, r.f)
      [] r.k = "write" -> openFailed([s EXCEPT !.item[r.f].writing = FALSE], r.f)
      [] r.k = "finish" -> fileFailed(s, r.f)
      [] r.k \in {"link", "unlink", "rename"} -> placeEnds(fileFailed(s, r.f))
      [] r.k \in {"look", "lookclear"} -> lookclearDone(s, r)
      [] r.k = "lookcut" -> lookAgain(s, r)
      [] r.k = "purge" -> purgeDone(s, r)
      [] OTHER -> s

\* Refusals of which nothing is said, one that leaves a file under its name,
\* and the others.
Refusal(k) ==
    CASE k \in {"create", "reopen", "write", "finish"} -> "refused"
      [] k = "unlink" -> "unlink"
      [] OTHER -> "declined"

\* The host refuses a request: no room, no permission, or not what was sent.
\* A name that is taken is no refusal, and a close that is refused is a close.
Refuse ==
    /\ hub.wire # <<>>
    /\ LET r == Head(hub.wire)
       IN  /\ r.k # "close" /\ (r.k = "link" => Links(host, r))
           /\ Fault(Refusal(r.k))
           /\ hub' = refused([hub EXCEPT !.wire = Tail(@)], r)
           /\ hub'.named <= MaxTemp
           /\ saved' = IF r.k = "purge" /\ OnWire(hub', {"purge"}) = {}
                       THEN [saved EXCEPT !.life = "none"] ELSE saved
    /\ UNCHANGED <<host, asked>>

\* The host does some of the requests under way before the connection goes.
DoneSome(k) == Each(Done, host, SubSeq(hub.wire, 1, k))

\* What a request that fails with its connection leaves: a file being opened,
\* written, checked or placed is interrupted; a cancelled one's stop goes on.
\* A temporary that could not be seen starts again (open), and a placement that
\* could not remove its temporary is a failure like any other (removeOn).
Fail(s, r) ==
    CASE r.k \in OpenKinds ->
           LET o == IF r.k \in {"stat", "clear"} THEN restartFile(s, r.f) ELSE s
           IN  IF s.item[r.f].state = "sending" THEN Interrupted(o, r.f) ELSE o
      [] r.k = "write" ->
           LET w == [s EXCEPT !.item[r.f].writing = FALSE]
           IN  IF s.item[r.f].state = "sending" THEN Interrupted(w, r.f) ELSE w
      [] r.k = "finish" -> Interrupted(s, r.f)
      [] r.k = "unlink" -> placeEnds(fileFailed(s, r.f))
      [] r.k \in {"link", "rename"} -> placeEnds(Interrupted(s, r.f))
      [] r.k \in LookKinds -> interruptAll(s)
      [] r.k = "close" -> StopEnded(s, r.f)
      [] OTHER -> s

\* The connection to the host goes, by itself or on purpose (interruptOn).
Lost(onPurpose) ==
    /\ hub.link = "up" /\ Fault("broken")
    /\ \E k \in 0..Len(hub.wire) : host' = DoneSome(k)
    /\ LET moving == {f \in File : hub.item[f].state \in {"queued", "sending", "verifying"}}
           s == IF onPurpose /\ hub.life = "kept"
                THEN settle([hub EXCEPT
                        !.backend = "none", !.unsaved = @ \cup moving,
                        !.dirty = @ \cup moving,
                        !.item = [f \in File |->
                                    IF f \in moving
                                    THEN [@[f] EXCEPT !.state = "interrupted", !.sink = None]
                                    ELSE @[f]]])
                ELSE hub
       IN  hub' = Each(Fail,
                     [s EXCEPT !.link = "down", !.wire = <<>>,
                               !.backend = IF @ = "live" THEN "lost" ELSE @],
                     hub.wire)
    /\ UNCHANGED <<saved, asked>>

\* hostConnected: what was dropped is removed, and an upload whose link
\* dropped while its window sent it goes on by itself.
\* (resumeDropped comes after the removals of removeDropped; of one upload,
\* which is dropped or kept, there is never both to do.)
Reconnect ==
    /\ hub.link = "down"
    /\ LET s == removeDropped([hub EXCEPT !.link = "up"])
           i == IF s.backend = "lost" /\ s.source # Nobody
                THEN interruptAll(s) ELSE s
       IN  hub' = IF i.life = "kept" /\ i.source # Nobody /\ i.linkDropped
                  THEN takeUp(i, i.source) ELSE i
    /\ saved' = [saved EXCEPT !.life = IF @ = "discarded" /\ hub.removal = {}
                                      THEN "none" ELSE @]
    /\ UNCHANGED <<host, asked, count>>

\* The hub stops, by a quit that saves first or by a crash, and starts again:
\* restore brings the upload back from its rows, no window sending it.
HubRestart(quit) ==
    /\ hub.life # "none" /\ Fault("broken")
    /\ \E k \in 0..Len(hub.wire) : host' = DoneSome(k)
    /\ LET unsaved == hub.unsaved \cup hub.unsavedAcks
           rows == IF quit /\ hub.life = "kept" THEN Rows(hub, unsaved) ELSE saved.item
           item == [f \in File |->
                      [rows[f] EXCEPT
                          !.state = IF @ \in {"sending", "verifying"}
                                    THEN "interrupted" ELSE @]]
           over == \A f \in File : item[f].state \notin Unsettled
           life == CASE saved.life = "none" -> "gone"
                     [] saved.life = "discarded" -> "gone"
                     [] over -> "gone"
                     [] OTHER -> "kept"
       IN  /\ saved' = [life |-> IF saved.life = "kept" /\ over THEN "none" ELSE saved.life,
                        item |-> item]
           /\ hub' = [hub EXCEPT
                  !.life = life, !.item = item, !.source = Nobody,
                  !.backend = "none", !.linkDropped = FALSE, !.queue = <<>>,
                  !.pumpDue = FALSE, !.stale = TRUE, !.doneSaid = FALSE,
                  !.dirty = {}, !.flushDue = FALSE,
                  !.noted = FALSE, !.unsaved = {}, !.unsavedAcks = {},
                  !.link = "down", !.wire = <<>>,
                  !.removal = IF saved.life # "discarded" THEN {}
                              ELSE {rows[f].temp : f \in
                                      {g \in File : rows[g].state # "placed"}} \ {None}]
    /\ again' = [f \in File |-> 0]
    /\ UNCHANGED asked

-----------------------------------------------------------------------------
Answered ==
    \/ StatAnswered \/ CutAnswered \/ ClearAnswered \/ CreateAnswered
    \/ ReopenAnswered \/ WriteAnswered \/ FinishAnswered \/ LinkAnswered
    \/ UnlinkAnswered \/ RenameAnswered \/ CloseAnswered \/ RemoveAnswered
    \/ LookAnswered \/ LookcutAnswered \/ LookclearAnswered \/ PurgeAnswered

Work ==
    \/ Answered
    \/ \E f \in File :
          \/ Chunk(f) \/ Cancel(f) \/ Retry(f) \/ NameTaken(f)
          \/ \E a \in {"replace", "keep_both", "skip"} : Resolve(f, a)
    \/ \E w \in Window :
          \/ \E p \in Policies : Start(w, p)
          \/ Join(w) \/ Resume(w)
    \/ Pump \/ Flush \/ Forget \/ Expire \/ Discard \/ ClientGone \/ Refuse \/ Reconnect
    \/ \E yes \in BOOLEAN : Save(yes) \/ Lost(yes)

Next ==
    \/ Work /\ UNCHANGED <<writers, again>>
    \/ /\ UNCHANGED writers
       /\ \/ \E f \in File : RetryWaits(f) \/ RetryEnds(f)
          \/ \E quit \in BOOLEAN : HubRestart(quit)
    \/ LockChanged

\* The host answers, the hub's timers fire, and a window sends the bytes it is
\* asked for.
Fairness ==
    /\ WF_vars(Answered /\ UNCHANGED <<writers, again>>)
    /\ WF_vars(Pump /\ UNCHANGED <<writers, again>>)
    /\ WF_vars(Flush /\ UNCHANGED <<writers, again>>)
    /\ \A f \in File : WF_vars(Chunk(f) /\ UNCHANGED <<writers, again>>)

Spec == Init /\ [][Next]_vars /\ Fairness

-----------------------------------------------------------------------------
(* Properties.                                                             *)

Item == [state : State, acked : 0..Size, temp : 0..MaxTemp, whole : BOOLEAN,
         resolution : {"none", "replace", "keep_both"},
         sink : 0..MaxTemp, writing : BOOLEAN]

\* The values the variables take: in particular no more than a file's size is
\* ever acknowledged.
TypeOK ==
    /\ hub.item \in [File -> Item]
    /\ hub.life \in {"none", "kept", "gone"}
    /\ hub.source \in Window \cup {Nobody}
    /\ hub.backend \in {"none", "live", "lost"}
    /\ hub.link \in {"up", "down"}
    /\ hub.queue \in Seq(File) /\ hub.dirty \in SUBSET File
    /\ hub.unsaved \in SUBSET File /\ hub.unsavedAcks \in SUBSET File
    /\ hub.wire \in Seq(Request)
    /\ hub.removal \in SUBSET Temp /\ hub.named \in 0..MaxTemp
    /\ {hub.linkDropped, hub.stale, hub.pumpDue, hub.doneSaid, hub.flushDue, hub.noted} \subseteq BOOLEAN
    /\ host.linked \in SUBSET Temp
    /\ host.bytes \in [Temp -> SUBSET Chunks]
    /\ host.target \in [File -> {"free", "theirs", "ours"}]
    /\ host.copies \in [File -> Nat]
    /\ saved.item \in [File -> Item]
    /\ saved.life \in {"none", "kept", "discarded"}
    /\ asked \in SUBSET File /\ writers \in SUBSET Window
    /\ again \in [File -> Nat]

\* A file was asked for again while the hub was still opening its temporary,
\* or still looking at those of the upload: two runs of open are then at work
\* on one file, and what follows is not promised any more.
Overlapped == "overlap" \in count.seen

\* A file that takes bytes writes them into the temporary it will place, which
\* the host has, and which holds every chunk before the next one: whatever was
\* cancelled, refused, interrupted, resumed or brought back from meta.db
\* meanwhile (open, receive, restartFile, bringBack).
PrefixIsThere ==
    ~Overlapped =>
    \A f \in File :
        LET it == hub.item[f]
        IN  it.state = "sending" /\ it.sink # None /\ ~Opening(hub, f) =>
                /\ it.temp = it.sink
                /\ it.sink \in host.linked
                /\ 0..(it.acked - 1) \subseteq host.bytes[it.sink]

\* What the hub puts under a name, the file's or a copy's, holds every chunk of
\* the file (finishFile and place check its size only).
NoHoles == \A f \in File : host.placed[f] \subseteq {Chunks}

\* So it is whatever was cancelled, refused, lost or taken up again.
PlacedIsWhole == ~Overlapped => NoHoles

\* A file said to be placed is there; and one that is not being placed is not
\* there, while no connection was lost, no hub stopped, and no host placed a
\* file and then refused to remove its temporary (place, removeOn).
OutcomeIsTrue ==
    ~Overlapped /\ hub.life = "kept" =>
        \A f \in File :
            /\ hub.item[f].state = "placed" => host.placed[f] # {}
            /\ /\ count.seen \cap {"broken", "unlink"} = {}
               /\ hub.item[f].state \notin {"verifying", "placed"}
               => host.placed[f] = {}

\* A file of somebody else that has a file's name is replaced only when the
\* upload's policy, or a window's answer to that conflict, said so: also over a
\* placement taken up again after a lost answer or a restart.
ReplacedWhenAsked ==
    [][\A f \in File :
          host.target[f] = "theirs" /\ host'.target[f] # "theirs" => f \in asked]_vars

\* While its window stays and may type, and its host stays, every file of an
\* upload comes to rest: placed, skipped, failed, cancelled, or waiting for an
\* answer or a window; and what waits for the host's last upload (noteHost) is
\* told.  Not so after a refusal of which nothing is said (FailureIsSaid), nor
\* for a file that is opened twice (Overlapped).
ComesToRest ==
    /\ [](~Overlapped /\ (hub.life = "kept" => "refused" \notin count.seen))
    /\ <>[](hub.life = "kept" /\ hub.link = "up" /\ hub.source \in writers)
    => <>[](/\ ~hub.noted
            /\ \A f \in File :
                  hub.item[f].state \notin {"queued", "sending", "verifying"})

\* A file the hub fails, of a chunk, an open or a check the host refused, is
\* said to have failed, in TRANSFER_PROGRESS (receive, admit, finishFile, flush).
FailureIsSaid ==
    \A f \in File :
        hub.item[f].state = "failed" /\ f \in hub.dirty
            ~> f \notin hub.dirty

\* TRANSFER_CANCEL removes what it stops: while nothing failed, the temporaries
\* on the host once nothing is under way are those of the upload's files.
CancelRemoves ==
    /\ hub.life = "kept" /\ hub.wire = <<>>
    /\ count.faults = 0
    => host.linked \subseteq {hub.item[f].temp : f \in File}

=============================================================================
