------------------------------- MODULE Spool -------------------------------
(***************************************************************************)
(* The stored output of one channel: the rows of spool.db, the numbers the *)
(* output chunker and the stored snapshots give them, and the garbage      *)
(* collector, which walks the rows in short steps between which the hub    *)
(* goes on writing.                                                        *)
(*                                                                         *)
(* Sources: session/output-chunker.ts, session/spool-gc.ts,                *)
(* storage/spool.ts, ChannelLifecycleManager.storeSnapshot and the purge   *)
(* of api/channels.ts.  spool.db has UNIQUE(channel_id, seq): inserting a  *)
(* number that is taken throws, and the output is lost.                    *)
(*                                                                         *)
(* Sizes and ages are abstracted: where the walk of a pass finds that the  *)
(* channel stops fitting is a choice, and so is how much a batch takes.    *)
(***************************************************************************)
EXTENDS Integers, FiniteSets

CONSTANTS
    MaxSeq,      \* bound: the highest number a row gets
    MaxLives,    \* bound: how often the terminal is started under its id
    MaxAsked,    \* bound: snapshots asked for and not answered
    MaxRestarts  \* bound: how often the hub restarts

ASSUME SpoolBounds ==
    MaxSeq \in Nat /\ MaxLives \in Nat /\ MaxAsked \in Nat /\ MaxRestarts \in Nat

VARIABLES
    meta,        \* the channel's row in meta.db: "alive", "dead" or "gone"
    lives,       \* how many times the terminal was started
    rows,        \* spool.db: [seq, kind, life]
    tracked,     \* the chunker has a buffer for the channel
    nextSeq,     \* ChannelBuffer.nextSeq (0: not tracked)
    held,        \* the buffer holds output
    asked,       \* snapshots the agent was asked for and has not answered
    restarts,    \* how often the hub restarted
    purging,     \* a purge waits in the collector's lane
    gc           \* the job the collector runs

terminal == <<meta, lives>>
chunker == <<tracked, nextSeq, held>>
vars == <<terminal, rows, chunker, asked, restarts, purging, gc>>

Kinds == {"output", "snapshot"}
Row == [seq : Nat, kind : Kinds, life : Nat]
Idle == [pc |-> "idle", job |-> "none", through |-> 0, after |-> 0, life |-> 0,
         seen |-> {}]

Pcs == {"idle", "max", "dead", "seek", "judge", "orphans", "newest",
        "snapshots", "walk", "others"}

Init ==
    /\ meta = "alive" /\ lives = 1
    \* A backlog of snapshots an earlier version left is the collector's.
    /\ rows \in {{}, {[seq |-> 1, kind |-> "snapshot", life |-> 1],
                      [seq |-> 2, kind |-> "snapshot", life |-> 1]}}
    /\ tracked = FALSE /\ nextSeq = 0 /\ held = FALSE
    /\ asked = 0 /\ restarts = 0 /\ purging = FALSE /\ gc = Idle

(* The types of the variables: a channel the chunker forgot has no number  *)
(* and no output held.                                                     *)
TypeOK ==
    /\ meta \in {"alive", "dead", "gone"} /\ lives \in Nat
    /\ rows \subseteq Row
    /\ tracked \in BOOLEAN /\ nextSeq \in Nat /\ held \in BOOLEAN
    /\ ~tracked => nextSeq = 0 /\ ~held
    /\ asked \in Nat /\ restarts \in Nat /\ purging \in BOOLEAN
    /\ gc \in [pc : Pcs, job : {"none", "pass", "purge"}, through : Int,
               after : Nat, life : Nat, seen : SUBSET Row]

----------------------------------------------------------------------------
(* What the statements of SpoolDAL say of the rows.                        *)

IsTop(r, S) == \A q \in S : q.seq <= r.seq

(* getMaxSeq: the highest number, 0 when the channel has no row.           *)
getMaxSeq(S) == IF S = {} THEN 0 ELSE (CHOOSE r \in S : IsTop(r, S)).seq

Snapshots(S) == {r \in S : r.kind = "snapshot"}

(* A row as it is inserted, of the terminal's present life.                *)
NewRow(n, kind) == [seq |-> n, kind |-> kind, life |-> lives]

(* flush: the buffer becomes one row, numbered nextSeq.                    *)
Flushed == IF tracked /\ held THEN rows \cup {NewRow(nextSeq, "output")} ELSE rows
SeqAfterFlush == IF tracked /\ held THEN nextSeq + 1 ELSE nextSeq

(* insertSnapshot: the snapshot goes in, the newest before it goes out.    *)
WithSnapshot(S, n) ==
    (S \ {r \in Snapshots(S) : IsTop(r, Snapshots(S)) /\ r.seq < n})
        \cup {NewRow(n, "snapshot")}

(* Mutant: the snapshot's number is not told to the chunker.               *)
bumpNothing(n, minSeq) == n

(* bumpSeq: the chunker's next number is at least this.                    *)
bumpSeq(n, minSeq) == IF tracked /\ n < minSeq THEN minSeq ELSE n

CanNumber == nextSeq < MaxSeq /\ getMaxSeq(rows) < MaxSeq - 1

----------------------------------------------------------------------------
(* The hub's side: output, snapshots, the life of the terminal.            *)

(* trackChannel: numbers go on after the highest row.                      *)
Track ==
    /\ meta = "alive" /\ ~tracked
    /\ tracked' = TRUE /\ held' = FALSE /\ nextSeq' = getMaxSeq(rows) + 1
    /\ UNCHANGED <<terminal, rows, asked, restarts, purging, gc>>

(* onOutput: kept until the size or the timer flushes it.                  *)
Output ==
    /\ tracked /\ ~held
    /\ held' = TRUE
    /\ UNCHANGED <<terminal, rows, tracked, nextSeq, asked, restarts, purging, gc>>

(* flush, by size or by timer.                                             *)
Flush ==
    /\ tracked /\ held /\ CanNumber
    /\ rows' = Flushed /\ nextSeq' = SeqAfterFlush /\ held' = FALSE
    /\ UNCHANGED <<terminal, tracked, asked, restarts, purging, gc>>

(* The scheduler, or an ATTACH, asks the agent for the screen.             *)
AskSnapshot ==
    /\ tracked /\ asked < MaxAsked
    /\ asked' = asked + 1
    /\ UNCHANGED <<terminal, rows, chunker, restarts, purging, gc>>

(* storeSnapshot, of a SNAPSHOT_RES or an ATTACH_OK.  Nothing asks whether *)
(* the channel is still tracked, or still has a row in meta.db: a late     *)
(* answer is stored too.  The agent's own last number is always 0.         *)
StoreSnapshot ==
    LET n == getMaxSeq(Flushed) + 1 IN
    /\ asked > 0 /\ CanNumber
    /\ asked' = asked - 1
    /\ rows' = WithSnapshot(Flushed, n)
    /\ nextSeq' = bumpSeq(SeqAfterFlush, n + 1)
    /\ held' = FALSE
    /\ UNCHANGED <<terminal, tracked, restarts, purging, gc>>

(* CHANNEL_EXIT, a destroy, or a list that lacks the terminal:             *)
(* untrackChannel flushes and forgets the buffer; the row says dead.       *)
Exit ==
    /\ meta = "alive" /\ (tracked /\ held => CanNumber)
    /\ meta' = "dead"
    /\ rows' = Flushed /\ tracked' = FALSE /\ nextSeq' = 0 /\ held' = FALSE
    /\ UNCHANGED <<lives, asked, restarts, purging, gc>>

(* The dead terminal is started again under its own id (afterSpawnOk).     *)
Restart ==
    /\ meta = "dead" /\ lives < MaxLives
    /\ meta' = "alive" /\ lives' = lives + 1
    /\ tracked' = TRUE /\ held' = FALSE /\ nextSeq' = getMaxSeq(rows) + 1
    /\ UNCHANGED <<rows, asked, restarts, purging, gc>>

(* DELETE /api/channels/:id of a dead one: meta.db first, then a purge.    *)
DeleteChannel ==
    /\ meta = "dead"
    /\ meta' = "gone" /\ purging' = TRUE
    /\ UNCHANGED <<lives, rows, chunker, asked, restarts, gc>>

(* The hub stops, with shutdown() (which flushes) or without, and starts:  *)
(* a purge or pass it was running is gone with it, and the answers to come *)
(* with the connection.                                                    *)
HubRestart ==
    \E graceful \in BOOLEAN :
        /\ restarts < MaxRestarts /\ restarts' = restarts + 1
        /\ graceful => tracked /\ held /\ CanNumber
        /\ rows' = IF graceful THEN Flushed ELSE rows
        /\ tracked' = FALSE /\ nextSeq' = 0 /\ held' = FALSE
        /\ asked' = 0 /\ purging' = FALSE /\ gc' = Idle
        /\ UNCHANGED terminal

----------------------------------------------------------------------------
(* The collector: one step of Slicer.step per action, anything of the hub  *)
(* may run between two of them.                                            *)

Goto(pc) == gc' = [gc EXCEPT !.pc = pc]
HubUnchanged == UNCHANGED <<terminal, chunker, asked, restarts>>

(* A range to delete: up to `through`, of the rows there are now.          *)
Range(pc, through) ==
    [gc EXCEPT !.pc = pc, !.through = through, !.after = 0, !.seen = rows]

(* collect: the timer's pass.  Its first step lists the channels dead past *)
(* their retention.  They run one at a time, purges in the order asked.    *)
StartPass ==
    /\ gc.pc = "idle" /\ ~purging
    /\ \E stale \in {meta = "dead", FALSE} :
           gc' = [Idle EXCEPT !.job = "pass", !.pc = IF stale THEN "max" ELSE "seek",
                              !.life = IF stale THEN lives ELSE 0]
    /\ HubUnchanged /\ UNCHANGED <<rows, purging>>

(* purge: of a channel meta.db still has, nothing goes.                    *)
StartPurge ==
    /\ gc.pc = "idle" /\ purging
    /\ purging' = FALSE
    /\ gc' = [Idle EXCEPT !.job = "purge", !.pc = "judge"]
    /\ HubUnchanged /\ UNCHANGED rows

(* The highest number of the channel that was listed, read in another step *)
(* than the list.                                                          *)
ReadMax ==
    /\ gc.pc = "max"
    /\ gc' = Range("dead", getMaxSeq(rows))
    /\ HubUnchanged /\ UNCHANGED <<rows, purging>>

(* nextChannelId: the channel is visited only if it has rows.              *)
Seek ==
    /\ gc.pc = "seek"
    /\ IF rows = {} THEN gc' = Idle ELSE Goto("judge")
    /\ HubUnchanged /\ UNCHANGED <<rows, purging>>

(* Mutant: only a purge looks for orphans.                                 *)
JudgePurgedOnly ==
    /\ gc.pc = "judge"
    /\ gc' = IF gc.job = "pass" THEN [gc EXCEPT !.pc = "newest"]
             ELSE IF meta = "gone" THEN Range("orphans", getMaxSeq(rows)) ELSE Idle
    /\ HubUnchanged /\ UNCHANGED <<rows, purging>>

(* collectOrphan: the look-up in meta.db and the highest number are one    *)
(* step.                                                                   *)
Judge ==
    /\ gc.pc = "judge"
    /\ gc' = IF meta = "gone"
             THEN Range("orphans", getMaxSeq(rows))
             ELSE IF gc.job = "purge" THEN Idle ELSE [gc EXCEPT !.pc = "newest"]
    /\ HubUnchanged /\ UNCHANGED <<rows, purging>>

(* Mutant: the newest is in the range of the older ones.                   *)
ThroughIt(n) == n

(* collectChannel: the newest snapshot, and the range below it.            *)
ThroughBelow(n) == n - 1

ReadNewest ==
    /\ gc.pc = "newest"
    /\ gc' = IF Snapshots(rows) = {} THEN [gc EXCEPT !.pc = "walk"]
             ELSE Range("snapshots", ThroughBelow(getMaxSeq(Snapshots(rows))))
    /\ HubUnchanged /\ UNCHANGED <<rows, purging>>

(* The walk down from the newest chunk, in steps of WALK_ROWS: it ends at  *)
(* the first one, not a snapshot, that no longer fits, or finds none.      *)
Walk ==
    /\ gc.pc = "walk"
    /\ \/ gc' = Idle
       \/ \E r \in rows \ Snapshots(rows) :
              gc' = Range("others", r.seq)
    /\ HubUnchanged /\ UNCHANGED <<rows, purging>>

(* The kinds a range deletes.                                              *)
InRange ==
    {r \in rows : /\ gc.after < r.seq /\ r.seq <= gc.through
                  /\ gc.pc = "snapshots" => r.kind = "snapshot"
                  /\ gc.pc = "others" => r.kind # "snapshot"}

Deleting == gc.pc \in {"dead", "orphans", "snapshots", "others"}

AfterRange ==
    CASE gc.pc = "dead"      -> [Idle EXCEPT !.job = gc.job, !.pc = "seek"]
      [] gc.pc = "snapshots" -> [Idle EXCEPT !.job = gc.job, !.pc = "walk"]
      [] OTHER               -> Idle

(* Mutant: the batch takes the newest of the range first.                  *)
NewestFirst(last) == {r \in InRange : r.seq >= last.seq}

(* The part of the range up to a row of it, which one batch takes.         *)
Oldest(last) == {r \in InRange : r.seq <= last.seq}

(* deleteChunkBatch: the oldest of the range, as many as the limits allow, *)
(* at least one; the next batch starts after the last.                     *)
Batch ==
    /\ Deleting
    /\ IF InRange = {} THEN gc' = AfterRange /\ rows' = rows
       ELSE \E last \in InRange :
                /\ rows' = rows \ Oldest(last)
                /\ gc' = [gc EXCEPT !.after = last.seq]
    /\ HubUnchanged /\ UNCHANGED purging

GcStep ==
    \/ StartPass \/ StartPurge \/ ReadMax \/ Seek \/ Judge \/ ReadNewest
    \/ Walk \/ Batch

HubStep ==
    \/ Track \/ Output \/ Flush \/ AskSnapshot \/ StoreSnapshot \/ Exit \/ Restart
    \/ DeleteChannel \/ HubRestart

Next == GcStep \/ HubStep

(* The timer of the collector runs as long as the hub does, and a slice    *)
(* yields to the event loop and is resumed by setImmediate.                *)
Spec == Init /\ [][Next]_vars /\ WF_vars(GcStep)

----------------------------------------------------------------------------
(* Properties.                                                             *)

(* The number the next chunk gets is above every stored row's, whatever    *)
(* snapshots were numbered and rows deleted in the meantime: no insert     *)
(* meets UNIQUE(channel_id, seq), which would throw the output away.       *)
NextSeqIsFree == tracked => \A r \in rows : r.seq < nextSeq

(* A batch takes nothing that was written after its range was read: every  *)
(* row written meanwhile has a higher number, although numbers start again *)
(* after the highest row there is and the rows are going.                  *)
WrittenSinceStays ==
    [][ Deleting /\ rows' \subseteq rows => rows \ rows' \subseteq gc.seen ]_vars

(* What an ATTACH replays, the newest snapshot, is deleted only when a     *)
(* newer one is stored or the whole channel is emptied, never by a pass    *)
(* that trims it, whatever was stored between the steps of the pass.       *)
NewestSnapshotStays ==
    [][ gc.pc \in {"snapshots", "others"} =>
            \A r \in Snapshots(rows) :
                IsTop(r, Snapshots(rows)) =>
                    \/ r \in rows'
                    \/ \E q \in Snapshots(rows') : q.seq > r.seq ]_vars

(* A deleted channel's output goes in the end: a snapshot that came late   *)
(* and was stored after the purge is found by a later pass.                *)
OrphanIsEmptied == (meta = "gone") ~> [](rows = {})

(* The comment of runPass: a channel dead past its retention loses "every  *)
(* chunk [it] held when judged"; what is written afterwards, by a terminal *)
(* brought back under the same id, stays.                                  *)
JudgedIsAllThatGoes ==
    [][ gc.pc = "dead" => \A r \in rows \ rows' : r.life <= gc.life ]_vars
=============================================================================
