---------------------------- MODULE SpoolProofs ----------------------------
(***************************************************************************)
(* Theorems about Spool, for every number of rows, lives and snapshots     *)
(* under way.                                                              *)
(***************************************************************************)
EXTENDS Spool, WellFoundedInduction, TLAPS

(* There is a number no row exceeds; rows are not known to be few.         *)
Bounded == \E b \in Nat : \A r \in rows : r.seq <= b

SpoolInv == TypeOK /\ Bounded /\ NextSeqIsFree

(* A row above the range is there until the range was deleted, so numbers  *)
(* given meanwhile are above it, and what is left of it was there when it  *)
(* was read.                                                               *)
RangeIsHeld ==
    Deleting =>
        /\ gc.after < gc.through => \E r \in rows : gc.through <= r.seq
        /\ \A r \in rows : gc.after < r.seq /\ r.seq <= gc.through => r \in gc.seen

(* While older snapshots go, a newer one is there.                         *)
NewerIsThere ==
    gc.pc = "snapshots" => \E q \in Snapshots(rows) : gc.through < q.seq

----------------------------------------------------------------------------
(* Numbers.                                                                *)

(* A bounded set of numbers that is not empty has a largest one.           *)
LEMMA LargestExists ==
    ASSUME NEW S \in SUBSET Nat, S # {},
           NEW b \in Nat, \A n \in S : n <= b
    PROVE  \E n \in S : \A k \in S : k <= n
<1> DEFINE U == {n \in Nat : \A k \in S : k <= n}
<1>1. U \subseteq Nat /\ U # {}
  OBVIOUS
<1>2. PICK m \in U : \A y \in U : ~ (<<y, m>> \in OpToRel(<, Nat))
  <2> HIDE DEF U
  <2> QED BY <1>1, NatLessThanWellFounded, WFMin, Zenon
<1>3. \A y \in U : ~ (y < m)
  BY <1>1, <1>2 DEF OpToRel
<1>4. m \in S
  <2>1. SUFFICES ASSUME m \notin S PROVE FALSE
    OBVIOUS
  <2>2. \A k \in S : k < m /\ k \in Nat /\ k <= m - 1
    BY <2>1
  <2>3. m - 1 \in Nat
    <3>1. PICK k \in S : TRUE
      OBVIOUS
    <3> QED BY <2>2, <3>1
  <2>4. m - 1 \in U
    BY <2>2, <2>3
  <2> QED BY <1>3, <2>4
<1> QED BY <1>4

(* getMaxSeq is the number of a row, and no row has a higher one.          *)
LEMMA MaxSeqIsTop ==
    ASSUME NEW S \in SUBSET Row, NEW b \in Nat, \A r \in S : r.seq <= b
    PROVE  /\ getMaxSeq(S) \in Nat
           /\ \A r \in S : r.seq <= getMaxSeq(S)
           /\ S # {} => \E r \in S : r.seq = getMaxSeq(S)
<1>1. CASE S = {}
  BY <1>1 DEF getMaxSeq
<1>2. CASE S # {}
  <2> DEFINE N == {r.seq : r \in S}
  <2>1. N \in SUBSET Nat /\ N # {} /\ \A n \in N : n <= b
    BY <1>2 DEF Row
  <2>2. PICK n \in N : \A k \in N : k <= n
    <3> HIDE DEF N
    <3> QED BY <2>1, LargestExists
  <2>3. PICK r \in S : r.seq = n
    BY <2>2
  <2>4. IsTop(r, S)
    BY <2>2, <2>3 DEF IsTop
  <2>5. /\ (CHOOSE q \in S : IsTop(q, S)) \in S
        /\ IsTop(CHOOSE q \in S : IsTop(q, S), S)
    BY <2>4
  <2> QED BY <1>2, <2>5 DEF getMaxSeq, IsTop, Row
<1> QED BY <1>1, <1>2

----------------------------------------------------------------------------
(* What is written.                                                        *)

(* flush adds at most one row, numbered above all others.                  *)
LEMMA FlushedRows ==
    ASSUME SpoolInv
    PROVE  /\ Flushed \in SUBSET Row /\ rows \subseteq Flushed
           /\ SeqAfterFlush \in Nat
           /\ tracked => \A r \in Flushed : r.seq < SeqAfterFlush
           /\ \E b \in Nat : \A r \in Flushed : r.seq <= b
           /\ \A r \in Flushed \ rows : \A q \in rows : q.seq < r.seq
<1>1. NewRow(nextSeq, "output") \in Row /\ NewRow(nextSeq, "output").seq = nextSeq
  BY DEF SpoolInv, TypeOK, NewRow, Row, Kinds
<1> DEFINE new == NewRow(nextSeq, "output")
<1> HIDE DEF new
<1>2. PICK b \in Nat : \A r \in rows : r.seq <= b
  BY DEF SpoolInv, Bounded
<1>3. \A r \in rows : r.seq \in Nat
  BY DEF SpoolInv, TypeOK, Row
<1>4. CASE tracked /\ held
  <2>1. Flushed = rows \cup {new} /\ SeqAfterFlush = nextSeq + 1
    BY <1>4 DEF Flushed, SeqAfterFlush, new
  <2>2. new \in Row /\ new.seq = nextSeq /\ nextSeq \in Nat
    BY <1>1 DEF new, SpoolInv, TypeOK
  <2>3. \A r \in rows : r.seq < nextSeq
    BY <1>4 DEF SpoolInv, NextSeqIsFree
  <2>4. \A r \in Flushed : r.seq <= b + nextSeq
    BY <1>2, <1>3, <2>1, <2>2
  <2>5. b + nextSeq \in Nat
    BY <2>2
  <2>6. rows \in SUBSET Row
    BY DEF SpoolInv, TypeOK
  <2> QED BY <1>3, <2>1, <2>2, <2>3, <2>4, <2>5, <2>6
<1>5. CASE ~(tracked /\ held)
  <2>1. Flushed = rows /\ SeqAfterFlush = nextSeq
    BY <1>5 DEF Flushed, SeqAfterFlush
  <2> QED BY <1>2, <2>1 DEF SpoolInv, TypeOK, NextSeqIsFree
<1> QED BY <1>4, <1>5

(* storeSnapshot gives the snapshot a number above everything stored.      *)
LEMMA SnapshotRows ==
    ASSUME SpoolInv, NEW n, n = getMaxSeq(Flushed) + 1
    PROVE  /\ n \in Nat /\ \A r \in Flushed : r.seq < n
           /\ \A r \in rows : r.seq < n
           /\ NewRow(n, "snapshot") \in Row
           /\ NewRow(n, "snapshot").seq = n
           /\ NewRow(n, "snapshot").kind = "snapshot"
           /\ NewRow(n, "snapshot") \notin rows
           /\ WithSnapshot(Flushed, n) \in SUBSET Row
           /\ \A r \in WithSnapshot(Flushed, n) : r.seq <= n
           /\ NewRow(n, "snapshot") \in WithSnapshot(Flushed, n)
           /\ WithSnapshot(Flushed, n) \subseteq Flushed \cup {NewRow(n, "snapshot")}
<1>1. PICK b \in Nat : \A r \in Flushed : r.seq <= b
  BY FlushedRows
<1>2. getMaxSeq(Flushed) \in Nat /\ \A r \in Flushed : r.seq <= getMaxSeq(Flushed)
  BY <1>1, FlushedRows, MaxSeqIsTop
<1>3. n \in Nat /\ \A r \in Flushed : r.seq < n
  BY <1>2, FlushedRows DEF Row
<1>4. rows \subseteq Flushed /\ Flushed \in SUBSET Row
  BY FlushedRows
<1> DEFINE new == NewRow(n, "snapshot")
<1>5. new \in Row /\ new.seq = n /\ new.kind = "snapshot"
  BY <1>3 DEF NewRow, Row, Kinds, SpoolInv, TypeOK
<1> HIDE DEF new
<1>6. WithSnapshot(Flushed, n) \subseteq Flushed \cup {new} /\ new \in WithSnapshot(Flushed, n)
  BY DEF WithSnapshot, new
<1>7. \A r \in rows : r.seq < n
  BY <1>3, <1>4
<1>8. new \notin rows
  BY <1>3, <1>5, <1>7
<1>9. \A r \in WithSnapshot(Flushed, n) : r.seq <= n
  BY <1>3, <1>4, <1>5, <1>6 DEF Row
<1>10. WithSnapshot(Flushed, n) \in SUBSET Row
  BY <1>4, <1>5, <1>6
<1> QED BY <1>3, <1>5, <1>6, <1>7, <1>8, <1>9, <1>10 DEF new

----------------------------------------------------------------------------
(* The hub's steps.                                                        *)

(* What the hub writes is numbered above what is there, and nothing that   *)
(* is there goes but an older snapshot for a newer one.                    *)
Grows ==
    /\ \A r \in rows' \ rows, q \in rows : q.seq < r.seq
    /\ \A q \in rows : \E r \in rows' : q.seq <= r.seq
    /\ \A q \in Snapshots(rows) :
          q \in rows' \/ \E r \in Snapshots(rows') : q.seq < r.seq
    /\ rows' # rows => ~ (rows' \subseteq rows)

(* The part of the type invariant that is about the collector.             *)
Jobs == [pc : Pcs, job : {"none", "pass", "purge"}, through : Int,
         after : Nat, life : Nat, seen : SUBSET Row]

(* A collector that has nothing to do is of that type.                     *)
LEMMA IdleIsAJob == Idle \in Jobs /\ Idle.pc = "idle"
  BY DEF Idle, Jobs, Pcs

(* Rows that only grow by rows numbered above them.                        *)
LEMMA MoreRowsGrow ==
    ASSUME TypeOK, rows \subseteq rows',
           \A r \in rows' \ rows, q \in rows : q.seq < r.seq
    PROVE  Grows
<1>1. \A q \in rows : q.seq \in Nat
  BY DEF TypeOK, Row
<1>2. Snapshots(rows) \subseteq Snapshots(rows') /\ Snapshots(rows) \subseteq rows
  BY DEF Snapshots
<1>3. \A q \in rows : q.seq <= q.seq
  BY <1>1
<1>4. \A q \in rows : \E r \in rows' : q.seq <= r.seq
  BY <1>3
<1>5. \A q \in Snapshots(rows) : q \in rows'
  BY <1>2
<1>6. rows' # rows => ~ (rows' \subseteq rows)
  OBVIOUS
<1> QED BY <1>4, <1>5, <1>6 DEF Grows

(* A step that stores nothing grows nothing.                               *)
LEMMA SameRowsGrow == ASSUME TypeOK, rows' = rows PROVE Grows
  BY MoreRowsGrow

(* Every step of the hub keeps the invariant, and grows the rows.          *)
LEMMA HubKeeps ==
    ASSUME SpoolInv, HubStep
    PROVE  SpoolInv' /\ Grows /\ (gc' = gc \/ gc' = Idle)
<1> USE SpoolBounds
<1>t. TypeOK /\ rows \in SUBSET Row /\ \A r \in rows : r.seq \in Nat
  BY DEF SpoolInv, TypeOK, Row
<1>b. PICK b \in Nat : \A r \in rows : r.seq <= b
  BY DEF SpoolInv, Bounded
<1>m. getMaxSeq(rows) \in Nat /\ \A r \in rows : r.seq <= getMaxSeq(rows)
  BY <1>t, <1>b, MaxSeqIsTop
<1>n. NextSeqIsFree
  BY DEF SpoolInv
<1>f. /\ Flushed \in SUBSET Row /\ rows \subseteq Flushed
      /\ SeqAfterFlush \in Nat
      /\ tracked => \A r \in Flushed : r.seq < SeqAfterFlush
      /\ \E c \in Nat : \A r \in Flushed : r.seq <= c
      /\ \A r \in Flushed \ rows : \A q \in rows : q.seq < r.seq
  BY FlushedRows
<1>1. CASE Track
  <2>1. TypeOK'
    <3>1. nextSeq' \in Nat
      BY <1>1, <1>m DEF Track
    <3> QED BY <1>1, <1>t, <3>1 DEF Track, TypeOK, terminal
  <2>2. NextSeqIsFree'
    BY <1>1, <1>t, <1>m DEF Track, NextSeqIsFree
  <2>3. Bounded' /\ Grows
    BY <1>1, <1>t, SameRowsGrow DEF Track, SpoolInv, Bounded
  <2> QED BY <1>1, <2>1, <2>2, <2>3 DEF SpoolInv, Track
<1>2. CASE Output
  <2>1. TypeOK'
    BY <1>2, <1>t DEF Output, TypeOK, terminal
  <2>2. NextSeqIsFree' /\ Bounded' /\ Grows
    BY <1>2, <1>t, SameRowsGrow DEF Output, SpoolInv, Bounded, NextSeqIsFree
  <2> QED BY <1>2, <2>1, <2>2 DEF SpoolInv, Output
<1>3. CASE Flush
  <2>1. TypeOK'
    BY <1>3, <1>t, <1>f DEF Flush, TypeOK, terminal
  <2>2. NextSeqIsFree' /\ Bounded'
    BY <1>3, <1>f DEF Flush, NextSeqIsFree, Bounded
  <2>3. Grows
    BY <1>3, <1>t, <1>f, MoreRowsGrow DEF Flush
  <2> QED BY <1>3, <2>1, <2>2, <2>3 DEF SpoolInv, Flush
<1>4. CASE AskSnapshot
  <2>1. TypeOK'
    BY <1>4, <1>t DEF AskSnapshot, TypeOK, terminal, chunker
  <2>2. NextSeqIsFree' /\ Bounded' /\ Grows
    BY <1>4, <1>t, SameRowsGrow DEF AskSnapshot, SpoolInv, Bounded, NextSeqIsFree, chunker
  <2> QED BY <1>4, <2>1, <2>2 DEF SpoolInv, AskSnapshot
<1>5. CASE StoreSnapshot
  <2> DEFINE n == getMaxSeq(Flushed) + 1
             new == NewRow(n, "snapshot")
  <2>1. /\ n \in Nat /\ \A r \in Flushed : r.seq < n
        /\ \A r \in rows : r.seq < n
        /\ new \in Row /\ new.seq = n /\ new.kind = "snapshot"
        /\ new \notin rows
        /\ WithSnapshot(Flushed, n) \in SUBSET Row
        /\ \A r \in WithSnapshot(Flushed, n) : r.seq <= n
        /\ new \in WithSnapshot(Flushed, n)
        /\ WithSnapshot(Flushed, n) \subseteq Flushed \cup {new}
    BY SnapshotRows
  <2>2. /\ rows' = WithSnapshot(Flushed, n)
        /\ nextSeq' = bumpSeq(SeqAfterFlush, n + 1)
        /\ asked' = asked - 1 /\ asked > 0 /\ held' = FALSE
        /\ UNCHANGED <<meta, lives, tracked, restarts, purging, gc>>
    BY <1>5 DEF StoreSnapshot, terminal
  <2> HIDE DEF n, new
  <2>3. /\ nextSeq' \in Nat
        /\ tracked => n + 1 <= nextSeq'
        /\ ~tracked => nextSeq' = nextSeq
    BY <1>f, <2>1, <2>2 DEF bumpSeq, SeqAfterFlush
  <2>4. TypeOK'
    <3>1. asked' \in Nat
      BY <1>t, <2>2 DEF TypeOK
    <3>2. rows' \subseteq Row
      BY <2>1, <2>2
    <3> QED BY <1>t, <2>2, <2>3, <3>1, <3>2 DEF TypeOK
  <2>5. NextSeqIsFree'
    <3>1. SUFFICES ASSUME tracked', NEW r \in rows' PROVE r.seq < nextSeq'
      BY DEF NextSeqIsFree
    <3>2. r.seq \in Nat /\ r.seq <= n
      BY <2>1, <2>2 DEF Row
    <3> QED BY <2>1, <2>2, <2>3, <3>1, <3>2
  <2>6. Bounded'
    BY <2>1, <2>2 DEF Bounded
  <2>7. Grows
    <3>1. \A r \in rows' \ rows, q \in rows : q.seq < r.seq
      BY <1>f, <2>1, <2>2
    <3>2. \A q \in rows : q.seq <= new.seq /\ q.seq < new.seq
      BY <1>t, <2>1
    <3>3. new \in Snapshots(rows') /\ new \in rows'
      BY <2>1, <2>2 DEF Snapshots
    <3>4. Snapshots(rows) \subseteq rows
      BY DEF Snapshots
    <3> QED BY <2>1, <3>1, <3>2, <3>3, <3>4 DEF Grows
  <2> QED BY <2>2, <2>4, <2>5, <2>6, <2>7 DEF SpoolInv
<1>6. CASE Exit
  <2>1. TypeOK'
    BY <1>6, <1>t, <1>f DEF Exit, TypeOK
  <2>2. NextSeqIsFree' /\ Bounded'
    BY <1>6, <1>f DEF Exit, NextSeqIsFree, Bounded
  <2>3. Grows
    BY <1>6, <1>t, <1>f, MoreRowsGrow DEF Exit
  <2> QED BY <1>6, <2>1, <2>2, <2>3 DEF SpoolInv, Exit
<1>7. CASE Restart
  <2>1. TypeOK'
    <3>1. nextSeq' \in Nat /\ lives' \in Nat
      BY <1>7, <1>t, <1>m DEF Restart, TypeOK
    <3> QED BY <1>7, <1>t, <3>1 DEF Restart, TypeOK
  <2>2. NextSeqIsFree'
    BY <1>7, <1>t, <1>m DEF Restart, NextSeqIsFree
  <2>3. Bounded' /\ Grows
    BY <1>7, <1>t, SameRowsGrow DEF Restart, SpoolInv, Bounded
  <2> QED BY <1>7, <2>1, <2>2, <2>3 DEF SpoolInv, Restart
<1>8. CASE DeleteChannel
  <2>1. TypeOK'
    BY <1>8, <1>t DEF DeleteChannel, TypeOK, chunker
  <2>2. NextSeqIsFree' /\ Bounded' /\ Grows
    BY <1>8, <1>t, SameRowsGrow DEF DeleteChannel, SpoolInv, Bounded, NextSeqIsFree, chunker
  <2> QED BY <1>8, <2>1, <2>2 DEF SpoolInv, DeleteChannel
<1>9. CASE HubRestart
  <2>1. PICK graceful \in BOOLEAN :
          /\ restarts' = restarts + 1
          /\ rows' = IF graceful THEN Flushed ELSE rows
          /\ tracked' = FALSE /\ nextSeq' = 0 /\ held' = FALSE
          /\ asked' = 0 /\ purging' = FALSE /\ gc' = Idle
          /\ UNCHANGED <<meta, lives>>
    BY <1>9 DEF HubRestart, terminal
  <2>2. TypeOK'
    <3>1. gc' \in Jobs
      BY <2>1, IdleIsAJob
    <3>2. rows' \subseteq Row
      BY <2>1, <1>t, <1>f
    <3>3. restarts' \in Nat /\ nextSeq' \in Nat /\ asked' \in Nat
      BY <1>t, <2>1 DEF TypeOK
    <3> QED BY <1>t, <2>1, <3>1, <3>2, <3>3 DEF TypeOK, Jobs
  <2>3. NextSeqIsFree'
    BY <2>1 DEF NextSeqIsFree
  <2>4. Bounded'
    BY <2>1, <1>b, <1>f DEF Bounded
  <2>5. Grows
    BY <2>1, <1>t, <1>f, MoreRowsGrow
  <2> QED BY <2>1, <2>2, <2>3, <2>4, <2>5 DEF SpoolInv
<1> QED BY <1>1, <1>2, <1>3, <1>4, <1>5, <1>6, <1>7, <1>8, <1>9 DEF HubStep

----------------------------------------------------------------------------
(* The collector's steps.                                                  *)

(* A job that begins is a job.                                             *)
LEMMA JobsBegin ==
    /\ \A pc \in Pcs, life \in Nat :
          [Idle EXCEPT !.job = "pass", !.pc = pc, !.life = life] \in Jobs
    /\ \A pc \in Pcs : [Idle EXCEPT !.job = "purge", !.pc = pc] \in Jobs
<1>1. /\ \A j \in Jobs, pc \in Pcs, life \in Nat :
            [j EXCEPT !.job = "pass", !.pc = pc, !.life = life] \in Jobs
      /\ \A j \in Jobs, pc \in Pcs : [j EXCEPT !.job = "purge", !.pc = pc] \in Jobs
  BY DEF Jobs
<1> QED BY <1>1, IdleIsAJob

(* A job that goes on elsewhere, or over a range, is a job.                *)
LEMMA JobsGoOn ==
    ASSUME gc \in Jobs, rows \in SUBSET Row
    PROVE  /\ \A pc \in Pcs : [gc EXCEPT !.pc = pc] \in Jobs /\ [gc EXCEPT !.pc = pc].pc = pc
           /\ \A pc \in Pcs, through \in Int :
                 /\ Range(pc, through) \in Jobs
                 /\ Range(pc, through).pc = pc
                 /\ Range(pc, through).through = through
                 /\ Range(pc, through).after = 0
                 /\ Range(pc, through).seen = rows
  BY DEF Jobs, Range

(* Of the steps of the collector, only Batch deletes.                      *)
LEMMA CollectorKeeps ==
    ASSUME SpoolInv, GcStep
    PROVE  /\ SpoolInv' /\ rows' \subseteq rows
           /\ Batch \/ rows' = rows
<1>t. TypeOK /\ gc \in Jobs /\ rows \in SUBSET Row
  BY DEF SpoolInv, TypeOK, Jobs
<1>j. /\ \A pc \in Pcs : [gc EXCEPT !.pc = pc] \in Jobs
      /\ \A pc \in Pcs, through \in Int : Range(pc, through) \in Jobs
  BY <1>t, JobsGoOn
<1>c. /\ "max" \in Pcs /\ "seek" \in Pcs /\ "judge" \in Pcs /\ "dead" \in Pcs /\ "walk" \in Pcs
      /\ "orphans" \in Pcs /\ "newest" \in Pcs /\ "snapshots" \in Pcs /\ "others" \in Pcs
  BY DEF Pcs
<1>b. PICK b \in Nat : \A r \in rows : r.seq <= b
  BY DEF SpoolInv, Bounded
<1>m. getMaxSeq(rows) \in Int
  BY <1>t, <1>b, MaxSeqIsTop
<1>s. getMaxSeq(Snapshots(rows)) \in Int
  <2>1. Snapshots(rows) \in SUBSET Row /\ \A r \in Snapshots(rows) : r.seq <= b
    BY <1>t, <1>b DEF Snapshots
  <2> QED BY <2>1, MaxSeqIsTop
<1> SUFFICES /\ gc' \in Jobs /\ purging' \in BOOLEAN /\ rows' \subseteq rows
             /\ HubUnchanged
             /\ Batch \/ rows' = rows
  <2>1. TypeOK'
    BY <1>t DEF TypeOK, Jobs, HubUnchanged, terminal, chunker
  <2>2. Bounded' /\ NextSeqIsFree'
    BY <1>b DEF SpoolInv, Bounded, NextSeqIsFree, HubUnchanged, chunker
  <2> QED BY <2>1, <2>2 DEF SpoolInv
<1>1. CASE StartPass
  <2>1. PICK stale \in BOOLEAN :
          gc' = [Idle EXCEPT !.job = "pass", !.pc = IF stale THEN "max" ELSE "seek",
                             !.life = IF stale THEN lives ELSE 0]
    BY <1>1 DEF StartPass
  <2>2. lives \in Nat /\ purging \in BOOLEAN
    BY <1>t DEF TypeOK
  <2>3. \A pc \in Pcs, life \in Nat :
          [Idle EXCEPT !.job = "pass", !.pc = pc, !.life = life] \in Jobs
    BY JobsBegin
  <2>4. gc' \in Jobs
    BY <1>c, <2>1, <2>2, <2>3
  <2> QED BY <1>1, <2>2, <2>4 DEF StartPass
<1>2. CASE StartPurge
  <2>1. [Idle EXCEPT !.job = "purge", !.pc = "judge"] \in Jobs
    BY <1>c, JobsBegin
  <2> QED BY <1>2, <2>1 DEF StartPurge
<1>p. purging \in BOOLEAN /\ Idle \in Jobs
  BY <1>t, IdleIsAJob DEF TypeOK
<1>3. CASE ReadMax
  <2>1. gc' \in Jobs
    BY <1>3, <1>m, <1>j, <1>c DEF ReadMax
  <2> QED BY <1>3, <1>p, <2>1 DEF ReadMax
<1>4. CASE Seek
  <2>1. gc' \in Jobs
    BY <1>4, <1>p, <1>j, <1>c DEF Seek, Goto
  <2> QED BY <1>4, <1>p, <2>1 DEF Seek
<1>5. CASE Judge
  <2>1. Range("orphans", getMaxSeq(rows)) \in Jobs /\ [gc EXCEPT !.pc = "newest"] \in Jobs
    BY <1>m, <1>j, <1>c
  <2>2. gc' \in Jobs
    BY <1>5, <1>p, <2>1 DEF Judge
  <2> QED BY <1>5, <1>p, <2>2 DEF Judge
<1>6. CASE ReadNewest
  <2>1. ThroughBelow(getMaxSeq(Snapshots(rows))) \in Int
    BY <1>s DEF ThroughBelow
  <2>2. /\ Range("snapshots", ThroughBelow(getMaxSeq(Snapshots(rows)))) \in Jobs
        /\ [gc EXCEPT !.pc = "walk"] \in Jobs
    BY <1>j, <1>c, <2>1
  <2>3. gc' \in Jobs
    BY <1>6, <2>2 DEF ReadNewest
  <2> QED BY <1>6, <1>p, <2>3 DEF ReadNewest
<1>7. CASE Walk
  <2>1. \A r \in rows : Range("others", r.seq) \in Jobs
    <3>1. \A r \in rows : r.seq \in Int
      BY <1>t DEF Row
    <3> QED BY <1>j, <1>c, <3>1
  <2>2. gc' \in Jobs
    BY <1>7, <1>p, <2>1 DEF Walk
  <2> QED BY <1>7, <1>p, <2>2 DEF Walk
<1>8. CASE Batch
  <2>1. AfterRange \in Jobs
    BY <1>t, <1>p DEF AfterRange, Idle, Jobs, Pcs
  <2>2. \A last \in InRange : [gc EXCEPT !.after = last.seq] \in Jobs
    BY <1>t DEF InRange, Jobs, Row
  <2>3. gc' \in Jobs
    BY <1>8, <2>1, <2>2 DEF Batch
  <2>4. rows' \subseteq rows
    BY <1>8 DEF Batch
  <2> QED BY <1>8, <1>p, <2>3, <2>4 DEF Batch
<1> QED BY <1>1, <1>2, <1>3, <1>4, <1>5, <1>6, <1>7, <1>8 DEF GcStep

----------------------------------------------------------------------------
(* The numbers of the rows.                                                *)

(* The invariant holds of an empty spool and of the backlog.               *)
LEMMA SpoolInvInitially == Init => SpoolInv
<1> SUFFICES ASSUME Init PROVE SpoolInv
  OBVIOUS
<1>1. TypeOK
  <2>1. rows \subseteq Row
    BY DEF Init, Row, Kinds
  <2>2. gc \in Jobs
    BY IdleIsAJob DEF Init
  <2> QED BY <2>1, <2>2 DEF Init, TypeOK, Jobs
<1>2. Bounded
  BY DEF Init, Bounded
<1>3. NextSeqIsFree
  BY DEF Init, NextSeqIsFree
<1> QED BY <1>1, <1>2, <1>3 DEF SpoolInv

(* It is about the variables alone.                                        *)
LEMMA SpoolInvStutters == SpoolInv /\ UNCHANGED vars => SpoolInv'
  BY DEF SpoolInv, TypeOK, Bounded, NextSeqIsFree, vars, terminal, chunker

(* It is inductive.                                                        *)
LEMMA SpoolInvAlways == Spec => []SpoolInv
<1>1. SpoolInv /\ [Next]_vars => SpoolInv'
  BY HubKeeps, CollectorKeeps, SpoolInvStutters DEF Next
<1> QED BY <1>1, SpoolInvInitially, PTL DEF Spec

(* The rows, the chunker and the collector keep their types.               *)
THEOREM SpoolTypeCorrect == Spec => []TypeOK
<1>1. SpoolInv => TypeOK
  BY DEF SpoolInv
<1> QED BY <1>1, SpoolInvAlways, PTL

(* A chunk is given a number above every stored row's, however snapshots,  *)
(* restarts and the collector cross: onOutput's insert never meets a       *)
(* number that is taken.                                                   *)
THEOREM NumbersAreFree == Spec => []NextSeqIsFree
<1>1. SpoolInv => NextSeqIsFree
  BY DEF SpoolInv
<1> QED BY <1>1, SpoolInvAlways, PTL

----------------------------------------------------------------------------
(* What the collector deletes.                                             *)

RangeInv == SpoolInv /\ RangeIsHeld /\ NewerIsThere

(* A pass that is not deleting has no range to keep.                       *)
LEMMA NoRange ==
    ASSUME gc'.pc \notin {"dead", "orphans", "snapshots", "others"}
    PROVE  RangeIsHeld' /\ NewerIsThere'
  BY DEF RangeIsHeld, NewerIsThere, Deleting

(* A range that is read holds, when a row is at its end or above.          *)
LEMMA RangeIsRead ==
    ASSUME SpoolInv, rows' = rows, NEW pc \in Pcs, NEW through \in Int,
           gc' = Range(pc, through),
           0 < through => \E r \in rows : through <= r.seq,
           pc = "snapshots" => \E q \in Snapshots(rows) : through < q.seq
    PROVE  RangeIsHeld' /\ NewerIsThere'
<1>1. gc \in Jobs /\ rows \in SUBSET Row
  BY DEF SpoolInv, TypeOK, Jobs
<1>2. gc'.pc = pc /\ gc'.through = through /\ gc'.after = 0 /\ gc'.seen = rows
  BY <1>1, JobsGoOn
<1>3. Snapshots(rows)' = Snapshots(rows)
  BY DEF Snapshots
<1> QED BY <1>2, <1>3 DEF RangeIsHeld, NewerIsThere

(* The hub's writing leaves the range of a collector as it was.            *)
LEMMA HubKeepsRange ==
    ASSUME RangeInv, HubStep
    PROVE  RangeInv'
<1>1. SpoolInv' /\ Grows /\ (gc' = gc \/ gc' = Idle)
  BY HubKeeps DEF RangeInv
<1>2. CASE gc' = Idle
  BY <1>1, <1>2, NoRange, IdleIsAJob DEF RangeInv
<1>3. CASE gc' = gc
  <2>t. /\ gc.after \in Nat /\ gc.through \in Int
        /\ \A r \in rows : r.seq \in Nat
        /\ \A r \in rows' : r.seq \in Nat
    BY <1>1 DEF RangeInv, SpoolInv, TypeOK, Row
  <2>1. RangeIsHeld'
    <3>1. SUFFICES ASSUME Deleting
                   PROVE  /\ gc.after < gc.through => \E r \in rows' : gc.through <= r.seq
                          /\ \A r \in rows' : gc.after < r.seq /\ r.seq <= gc.through
                                              => r \in gc.seen
      BY <1>3 DEF RangeIsHeld, Deleting
    <3>2. /\ gc.after < gc.through => \E r \in rows : gc.through <= r.seq
          /\ \A r \in rows : gc.after < r.seq /\ r.seq <= gc.through => r \in gc.seen
      BY <3>1 DEF RangeInv, RangeIsHeld
    <3>3. gc.after < gc.through => \E r \in rows' : gc.through <= r.seq
      BY <1>1, <2>t, <3>2 DEF Grows
    <3>4. ASSUME NEW r \in rows', gc.after < r.seq, r.seq <= gc.through
          PROVE  r \in gc.seen
      <4>1. CASE r \in rows
        BY <3>2, <3>4, <4>1
      <4>2. CASE r \notin rows
        <5>1. PICK q \in rows : gc.through <= q.seq
          BY <2>t, <3>2, <3>4
        <5>2. q.seq < r.seq
          BY <1>1, <4>2 DEF Grows
        <5> QED BY <2>t, <3>4, <5>1, <5>2
      <4> QED BY <4>1, <4>2
    <3> QED BY <3>3, <3>4
  <2>2. NewerIsThere'
    <3>1. \A q \in Snapshots(rows) : \E r \in Snapshots(rows') : q.seq <= r.seq
      BY <1>1, <2>t DEF Grows, Snapshots
    <3>2. Snapshots(rows) \subseteq rows /\ Snapshots(rows') \subseteq rows'
      BY DEF Snapshots
    <3>3. SUFFICES ASSUME gc.pc = "snapshots"
                   PROVE  \E r \in Snapshots(rows') : gc.through < r.seq
      BY <1>3 DEF NewerIsThere, Snapshots
    <3>4. PICK q \in Snapshots(rows) : gc.through < q.seq
      BY <3>3 DEF RangeInv, NewerIsThere
    <3>5. PICK r \in Snapshots(rows') : q.seq <= r.seq
      BY <3>1
    <3>6. gc.through < r.seq
      BY <2>t, <3>2, <3>4, <3>5
    <3> QED BY <3>5, <3>6
  <2> QED BY <1>1, <2>1, <2>2 DEF RangeInv
<1> QED BY <1>1, <1>2, <1>3

(* A batch leaves what is above the range, and what is in it above the     *)
(* last row it took.                                                       *)
LEMMA BatchKeepsRange ==
    ASSUME RangeInv, Batch
    PROVE  RangeIsHeld' /\ NewerIsThere'
<1>t. /\ gc \in Jobs /\ gc.after \in Nat /\ gc.through \in Int
      /\ \A r \in rows : r.seq \in Nat
  BY DEF RangeInv, SpoolInv, TypeOK, Jobs, Row
<1>1. CASE InRange = {}
  <2>1. gc' = AfterRange
    BY <1>1 DEF Batch
  <2>2. AfterRange.pc \in {"seek", "walk", "idle"}
    BY DEF AfterRange, Idle
  <2> QED BY <2>1, <2>2, NoRange
<1>2. CASE InRange # {}
  <2>1. PICK last \in InRange :
          rows' = rows \ Oldest(last) /\ gc' = [gc EXCEPT !.after = last.seq]
    BY <1>2 DEF Batch
  <2>2. /\ gc'.pc = gc.pc /\ gc'.through = gc.through /\ gc'.seen = gc.seen
        /\ gc'.after = last.seq
    BY <1>t, <2>1 DEF Jobs
  <2>3. last.seq \in Nat /\ gc.after < last.seq
    BY <1>t DEF InRange
  <2>4. Deleting
    BY DEF Batch
  <2>5. /\ gc.after < gc.through => \E r \in rows : gc.through <= r.seq
        /\ \A r \in rows : gc.after < r.seq /\ r.seq <= gc.through => r \in gc.seen
    BY <2>4 DEF RangeInv, RangeIsHeld
  <2>6. last.seq < gc.through => \E r \in rows' : gc.through <= r.seq
    BY <1>t, <2>1, <2>3, <2>5 DEF Oldest
  <2>7. \A r \in rows' : last.seq < r.seq /\ r.seq <= gc.through => r \in gc.seen
    BY <1>t, <2>1, <2>3, <2>5
  <2>8. RangeIsHeld'
    BY <2>2, <2>6, <2>7 DEF RangeIsHeld
  <2>9. NewerIsThere'
    <3>1. SUFFICES ASSUME gc.pc = "snapshots"
                   PROVE  \E q \in Snapshots(rows') : gc.through < q.seq
      BY <2>2 DEF NewerIsThere, Snapshots
    <3>2. PICK q \in Snapshots(rows) : gc.through < q.seq
      BY <3>1 DEF RangeInv, NewerIsThere
    <3>3. q \in Snapshots(rows')
      BY <1>t, <2>1, <3>2 DEF Snapshots, Oldest, InRange
    <3> QED BY <3>2, <3>3
  <2> QED BY <2>8, <2>9
<1> QED BY <1>1, <1>2

(* Every range the collector reads ends at a row, or below a snapshot.     *)
LEMMA CollectorKeepsRange ==
    ASSUME RangeInv, GcStep
    PROVE  RangeInv'
<1>1. SpoolInv /\ SpoolInv' /\ gc \in Jobs /\ rows \in SUBSET Row
  BY CollectorKeeps DEF RangeInv, SpoolInv, TypeOK, Jobs
<1>b. PICK b \in Nat : \A r \in rows : r.seq <= b
  BY <1>1 DEF SpoolInv, Bounded
<1>m. /\ getMaxSeq(rows) \in Nat
      /\ rows # {} => \E r \in rows : r.seq = getMaxSeq(rows)
      /\ 0 < getMaxSeq(rows) => \E r \in rows : getMaxSeq(rows) <= r.seq
  <2>1. /\ getMaxSeq(rows) \in Nat
        /\ rows # {} => \E r \in rows : r.seq = getMaxSeq(rows)
    BY <1>1, <1>b, MaxSeqIsTop
  <2>2. rows = {} => getMaxSeq(rows) = 0
    BY DEF getMaxSeq
  <2> QED BY <2>1, <2>2
<1> SUFFICES RangeIsHeld' /\ NewerIsThere'
  BY <1>1 DEF RangeInv
<1>i. Idle.pc = "idle"
  BY IdleIsAJob
<1>j. \A pc \in Pcs : [gc EXCEPT !.pc = pc].pc = pc
  BY <1>1, JobsGoOn
<1>2. CASE StartPass
  <2>1. gc'.pc \in {"max", "seek"}
    BY <1>2 DEF StartPass, Idle
  <2> QED BY <2>1, NoRange
<1>3. CASE StartPurge
  <2>1. gc'.pc = "judge"
    BY <1>3 DEF StartPurge, Idle
  <2> QED BY <2>1, NoRange
<1>4. CASE ReadMax
  <2>1. gc' = Range("dead", getMaxSeq(rows)) /\ rows' = rows /\ "dead" \in Pcs
    BY <1>4 DEF ReadMax, Pcs
  <2> QED BY <1>1, <1>m, <2>1, RangeIsRead
<1>5. CASE Seek
  <2>1. gc'.pc \in {"idle", "judge"}
    BY <1>5, <1>i, <1>j DEF Seek, Goto, Pcs
  <2> QED BY <2>1, NoRange
<1>6. CASE Judge
  <2>1. CASE meta = "gone"
    <3>1. gc' = Range("orphans", getMaxSeq(rows)) /\ rows' = rows /\ "orphans" \in Pcs
      BY <1>6, <2>1 DEF Judge, Pcs
    <3> QED BY <1>1, <1>m, <3>1, RangeIsRead
  <2>2. CASE meta # "gone"
    <3>1. gc'.pc \in {"idle", "newest"}
      BY <1>6, <2>2, <1>i, <1>j DEF Judge, Pcs
    <3> QED BY <3>1, NoRange
  <2> QED BY <2>1, <2>2
<1>7. CASE ReadNewest
  <2>1. CASE Snapshots(rows) = {}
    <3>1. gc'.pc = "walk"
      BY <1>7, <2>1, <1>j DEF ReadNewest, Pcs
    <3> QED BY <3>1, NoRange
  <2>2. CASE Snapshots(rows) # {}
    <3> DEFINE n == getMaxSeq(Snapshots(rows))
    <3>1. Snapshots(rows) \in SUBSET Row /\ Snapshots(rows) \subseteq rows
      BY <1>1 DEF Snapshots
    <3>2. n \in Nat /\ \E q \in Snapshots(rows) : q.seq = n
      BY <1>b, <2>2, <3>1, MaxSeqIsTop
    <3>3. gc' = Range("snapshots", n - 1) /\ rows' = rows /\ "snapshots" \in Pcs
      BY <1>7, <2>2 DEF ReadNewest, ThroughBelow, Pcs
    <3> HIDE DEF n
    <3>4. n - 1 \in Int /\ \E q \in Snapshots(rows) : n - 1 < q.seq /\ n - 1 <= q.seq
      BY <3>2
    <3> QED BY <1>1, <3>1, <3>3, <3>4, RangeIsRead
  <2> QED BY <2>1, <2>2
<1>8. CASE Walk
  <2>1. CASE gc' = Idle
    BY <2>1, <1>i, NoRange
  <2>2. CASE gc' # Idle
    <3>1. PICK r \in rows : gc' = Range("others", r.seq)
      BY <1>8, <2>2 DEF Walk
    <3>2. rows' = rows /\ "others" \in Pcs
      BY <1>8 DEF Walk, Pcs
    <3>3. r.seq \in Int /\ r.seq <= r.seq
      BY <1>1 DEF Row
    <3> QED BY <1>1, <3>1, <3>2, <3>3, RangeIsRead
  <2> QED BY <2>1, <2>2
<1>9. CASE Batch
  BY <1>9, BatchKeepsRange
<1> QED BY <1>2, <1>3, <1>4, <1>5, <1>6, <1>7, <1>8, <1>9 DEF GcStep

(* With what is known of a range, too.                                     *)
LEMMA RangeInvAlways == Spec => []RangeInv
<1>1. Init => RangeInv
  <2>1. Init => gc.pc = "idle"
    BY IdleIsAJob DEF Init
  <2> QED BY <2>1, SpoolInvInitially DEF RangeInv, RangeIsHeld, NewerIsThere, Deleting
<1>2. RangeInv /\ UNCHANGED vars => RangeInv'
  BY SpoolInvStutters
     DEF RangeInv, RangeIsHeld, NewerIsThere, Deleting, Snapshots, vars
<1>3. RangeInv /\ [Next]_vars => RangeInv'
  BY <1>2, HubKeepsRange, CollectorKeepsRange DEF Next
<1> QED BY <1>1, <1>3, PTL DEF Spec

(* A batch of deleteChunkBatch takes nothing that was written after its    *)
(* range was read, however the hub writes between two batches.             *)
THEOREM OnlyWhatWasReadGoes == Spec => WrittenSinceStays
<1>1. ASSUME RangeInv, Next, Deleting, rows' \subseteq rows
      PROVE  rows \ rows' \subseteq gc.seen
  <2>1. CASE HubStep
    <3>1. Grows
      BY <1>1, <2>1, HubKeeps DEF RangeInv
    <3> QED BY <1>1, <3>1 DEF Grows
  <2>2. CASE GcStep
    <3>1. CASE rows' = rows
      BY <3>1
    <3>2. CASE Batch
      <4>1. rows \ rows' \subseteq InRange
        BY <3>2 DEF Batch, Oldest
      <4> QED BY <1>1, <4>1 DEF InRange, RangeInv, RangeIsHeld
    <3> QED BY <1>1, <2>2, <3>1, <3>2, CollectorKeeps DEF RangeInv
  <2> QED BY <1>1, <2>1, <2>2 DEF Next
<1>2. RangeInv /\ [Next]_vars
        => [Deleting /\ rows' \subseteq rows => rows \ rows' \subseteq gc.seen]_vars
  BY <1>1
<1> QED BY <1>2, RangeInvAlways, PTL DEF Spec, WrittenSinceStays

(* A pass that trims a channel leaves its newest snapshot, whatever is     *)
(* stored between the step that looks for it and the ones that delete.     *)
THEOREM ReplayIsKept == Spec => NewestSnapshotStays
<1> DEFINE Kept == \A r \in Snapshots(rows) :
                     IsTop(r, Snapshots(rows)) =>
                       \/ r \in rows'
                       \/ \E q \in Snapshots(rows') : q.seq > r.seq
<1>1. ASSUME RangeInv, Next, gc.pc \in {"snapshots", "others"}
      PROVE  Kept
  <2> SUFFICES ASSUME NEW r \in Snapshots(rows), IsTop(r, Snapshots(rows)), r \notin rows'
               PROVE  \E q \in Snapshots(rows') : q.seq > r.seq
    OBVIOUS
  <2>t. /\ \A q \in rows : q.seq \in Nat
        /\ gc.through \in Int /\ r \in rows
        /\ Snapshots(rows) \subseteq rows /\ Snapshots(rows') \subseteq rows'
    BY <1>1 DEF RangeInv, SpoolInv, TypeOK, Row, Snapshots
  <2>1. CASE HubStep
    <3>1. Grows
      BY <1>1, <2>1, HubKeeps DEF RangeInv
    <3>2. PICK q \in Snapshots(rows') : r.seq < q.seq
      BY <3>1 DEF Grows
    <3>3. q.seq \in Nat
      BY <1>1, <2>1, <2>t, HubKeeps DEF RangeInv, SpoolInv, TypeOK, Row
    <3> QED BY <2>t, <3>2, <3>3
  <2>2. CASE GcStep
    <3>1. CASE rows' = rows
      BY <2>t, <3>1
    <3>2. CASE Batch
      <4>1. r \in InRange
        BY <2>t, <3>2 DEF Batch, Oldest
      <4>2. gc.pc = "snapshots" /\ r.seq <= gc.through
        BY <1>1, <4>1 DEF InRange, Snapshots
      <4>3. PICK q \in Snapshots(rows) : gc.through < q.seq
        BY <1>1, <4>2 DEF RangeInv, NewerIsThere
      <4>4. q.seq <= r.seq
        BY DEF IsTop
      <4> QED BY <2>t, <4>2, <4>3, <4>4
    <3> QED BY <1>1, <2>2, <3>1, <3>2, CollectorKeeps DEF RangeInv
  <2> QED BY <1>1, <2>1, <2>2 DEF Next
<1>2. RangeInv /\ [Next]_vars => [gc.pc \in {"snapshots", "others"} => Kept]_vars
  BY <1>1
<1> QED BY <1>2, RangeInvAlways, PTL DEF Spec, NewestSnapshotStays

=============================================================================
