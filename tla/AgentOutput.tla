---------------------------- MODULE AgentOutput ----------------------------
(***************************************************************************)
(* What the terminals of one hub say, on its way through the agent's       *)
(* daemon: a reader task per terminal, the batch loop, the router, the     *)
(* queue of the hub's current connection or, while it has none, the away   *)
(* queue.  The bytes are charged to the hub until its connection has       *)
(* written them, and the readers wait while there are too many.            *)
(*                                                                         *)
(* Sources, in crates/lasterm-agent/src: handler.rs (spawn_reader_task,    *)
(* Outgoing), batch.rs, flow.rs, away.rs and daemon.rs (HubRoutes,         *)
(* register_active, clear_active_if_ours, the writer of                    *)
(* handle_connection_inner).                                               *)
(*                                                                         *)
(* One read is one unit.  A frame is a run of what one terminal said: a    *)
(* batch of its output, or one event, encoded with a header.               *)
(***************************************************************************)
EXTENDS Integers, FiniteSets, Sequences, SequencesExt

CONSTANTS
    Terminal,
    MaxSaid,      \* bound: what one terminal says
    MaxTotal,     \* bound: what all of them say together
    MaxEvents,    \* bound: events are among the first this many
    MaxConn,      \* bound: connections of the hub
    High, Low,    \* flow.rs: HIGH_WATER, LOW_WATER
    BatchMax,     \* batch.rs: BATCH_MAX_BYTES
    EventSize,    \* what an event carries, in units
    Header,       \* what encoding adds to a frame
    PerTerminal,  \* away.rs: AWAY_BYTES_PER_CHANNEL
    PerHub        \* away.rs: AWAY_BYTES_PER_HUB

ASSUME FlowMarks ==
    /\ IsFiniteSet(Terminal)
    /\ {MaxSaid, MaxTotal, MaxEvents, MaxConn, High, Low, BatchMax, EventSize, Header, PerTerminal, PerHub} \subseteq Nat
    /\ Low < High /\ 0 < BatchMax

Conn == 1 .. MaxConn

VARIABLES
    said,      \* said[t]: how many things the terminal has said
    over,      \* the terminals that ended
    heldBack,  \* the readers that wait for the flow to drain
    pipe,      \* reader tasks -> batch loop
    buf,       \* Batcher.buffers: output not yet let go
    batched,   \* batch loop -> router: frames
    flow,      \* Flow: what the hub's terminals are charged
    current,   \* HubRoutes.connections: the hub's connection, 0 when none
    opened,    \* connections made so far
    broken,    \* connections whose writer has ended
    out,       \* out[c]: the queue of a connection's writer
    away,      \* AwayQueue: frames of every terminal, with their ranks
    kept,      \* kept[t]: how much the terminal said into the away queue,
               \* and the number of its last word there
    heard      \* heard[t]: <<connection, number>> of what was written

readers == <<said, over, heldBack>>
routes == <<current, opened, broken>>
vars == <<readers, pipe, buf, batched, flow, routes, out, away, kept, heard>>

----------------------------------------------------------------------------
(* Items, frames and their lengths.                                        *)

Item(t, n, kind) == [t |-> t, n |-> n, kind |-> kind]
(* The sum of a function's values, and of the sizes of a sequence's items.  *)
Total(f) == Cardinality(UNION {{i} \X (1 .. f[i]) : i \in DOMAIN f})
TotalOf(seq, Size(_)) == Total([i \in DOMAIN seq |-> Size(seq[i])])
SizeOf(item) == IF item.kind = "output" THEN 1 ELSE EventSize
FrameLen(items) == Header + TotalOf(items, SizeOf)

(* Output is charged as it is read, an event as it is encoded.             *)
Charge(item) == IF item.kind = "output" THEN 1 ELSE FrameLen(<<item>>)
ChargeOf(items) == TotalOf(items, Charge)
FramesCharge(frames) == TotalOf(frames, ChargeOf)

Pending == flow.transit + flow.queued
FullAt(f) == f.transit + f.queued >= High

NothingAway == [channels |-> [t \in Terminal |-> <<>>], next |-> 0]
NothingKept == [bytes |-> 0, last |-> 0]

Init ==
    /\ said = [t \in Terminal |-> 0] /\ over = {} /\ heldBack = {}
    /\ pipe = <<>> /\ buf = [t \in Terminal |-> <<>>] /\ batched = <<>>
    /\ flow = [transit |-> 0, conn |-> 0, queued |-> 0]
    /\ current = 0 /\ opened = 0 /\ broken = {}
    /\ out = [c \in Conn |-> <<>>] /\ away = NothingAway
    /\ kept = [t \in Terminal |-> NothingKept]
    /\ heard = [t \in Terminal |-> {}]

Items == [t : Terminal, n : 1 .. MaxSaid, kind : {"output", "event", "exit"}]

(* The types of the variables: only a terminal that goes on is held back.  *)
TypeOK ==
    /\ said \in [Terminal -> 0 .. MaxSaid] /\ over \subseteq Terminal
    /\ heldBack \subseteq Terminal \ over
    /\ pipe \in Seq(Items) /\ buf \in [Terminal -> Seq(Items)]
    /\ batched \in Seq(Seq(Items))
    /\ flow \in [transit : Nat, conn : 0 .. MaxConn, queued : Nat]
    /\ current \in 0 .. opened /\ opened \in 0 .. MaxConn /\ broken \subseteq Conn
    /\ out \in [Conn -> Seq([items : Seq(Items), counted : BOOLEAN, away : BOOLEAN])]
    /\ away \in [channels : [Terminal -> Seq([rank : Nat, items : Seq(Items), len : Nat])],
                next : Nat]
    /\ kept \in [Terminal -> [bytes : Nat, last : Nat]]
    /\ heard \in [Terminal -> SUBSET (Conn \X (1 .. MaxSaid))]

----------------------------------------------------------------------------
(* The readers (spawn_reader_task).                                        *)

Said(t, kind) ==
    /\ t \notin over /\ said[t] < MaxSaid /\ Total(said) < MaxTotal
    /\ said' = [said EXCEPT ![t] = @ + 1]
    /\ pipe' = Append(pipe, Item(t, said[t] + 1, kind))
    /\ flow' = [flow EXCEPT !.transit = @ + Charge(Item(t, said[t] + 1, kind))]
    /\ UNCHANGED <<buf, batched, routes, out, away, kept, heard>>

(* Mutant: the reader does not look at the flow after a read.              *)
NeverHeld(t) == heldBack

(* A reader that finds the flow full after a read waits for it to drain.   *)
HeldAfterRead(t) == IF FullAt(flow') THEN heldBack \cup {t} ELSE heldBack

(* A read of the PTY, unless the reader is held back.                      *)
Read(t) ==
    /\ t \notin heldBack
    /\ Said(t, "output")
    /\ heldBack' = HeldAfterRead(t)
    /\ UNCHANGED over

(* A title, a bell, a notification, a directory: charged, never held back. *)
SendEvent(t) ==
    /\ Total(said) < MaxEvents
    /\ Said(t, "event")
    /\ UNCHANGED <<over, heldBack>>

(* The PTY closes, or the channel is destroyed: CHANNEL_EXIT is the last.  *)
Ends(t) ==
    /\ Said(t, "exit")
    /\ over' = over \cup {t} /\ heldBack' = heldBack \ {t}

(* Flow::drained: registered before it checks, so no drain is missed.      *)
Resume(t) ==
    /\ t \in heldBack /\ Pending <= Low
    /\ heldBack' = heldBack \ {t}
    /\ UNCHANGED <<said, over, pipe, buf, batched, flow, routes, out, away, kept, heard>>

----------------------------------------------------------------------------
(* The batch loop.                                                         *)

(* Mutant: an event overtakes the output its terminal has buffered.        *)
EventFirst(held, event) ==
    IF held = <<>> THEN <<<<event>>>> ELSE <<<<event>>, held>>

(* An event first lets go of its terminal's output.                        *)
FlushThen(held, event) ==
    IF held = <<>> THEN <<<<event>>>> ELSE <<held, <<event>>>>

(* Batcher.accept: output waits for the tick or for BATCH_MAX_BYTES.       *)
Accept ==
    LET item == Head(pipe)
        held == buf[item.t]
        grown == Append(held, item)
    IN
    /\ pipe # <<>>
    /\ pipe' = Tail(pipe)
    /\ IF item.kind = "output" /\ Len(grown) < BatchMax
       THEN buf' = [buf EXCEPT ![item.t] = grown] /\ UNCHANGED batched
       ELSE /\ buf' = [buf EXCEPT ![item.t] = <<>>]
            /\ batched' = batched \o (IF item.kind = "output" THEN <<grown>>
                                      ELSE FlushThen(held, item))
    /\ UNCHANGED <<readers, flow, routes, out, away, kept, heard>>

(* Mutant: only the buffers that are full go.                              *)
FlushFull ==
    /\ \E order \in SetToSeqs({t \in Terminal : Len(buf[t]) >= BatchMax}) :
           /\ order # <<>>
           /\ batched' = batched \o [i \in 1 .. Len(order) |-> buf[order[i]]]
    /\ buf' = [t \in Terminal |-> <<>>]
    /\ UNCHANGED <<readers, pipe, flow, routes, out, away, kept, heard>>

(* flush_all, every 16 ms, in the order of a HashMap.                      *)
FlushAll ==
    /\ \E order \in SetToSeqs({t \in Terminal : buf[t] # <<>>}) :
           /\ order # <<>>
           /\ batched' = batched \o [i \in 1 .. Len(order) |-> buf[order[i]]]
    /\ buf' = [t \in Terminal |-> <<>>]
    /\ UNCHANGED <<readers, pipe, flow, routes, out, away, kept, heard>>

----------------------------------------------------------------------------
(* The away queue (away.rs): a queue of every terminal, its frames with    *)
(* their ranks among all of the hub's.                                     *)

BytesOf(q) == TotalOf(q, LAMBDA e : e.len)
BytesOfAll(queues) == Total([t \in Terminal |-> BytesOf(queues[t])])

(* Mutant: it is the newest frames that go.                                *)
DropNewest(q, k) == SubSeq(q, 1, IF Len(q) \in 1 .. k THEN 1 ELSE Len(q) - k)

(* drop_oldest, k times: a terminal always keeps its last word.            *)
DropOldest(q, k) == SubSeq(q, IF Len(q) \in 1 .. k THEN Len(q) ELSE k + 1, Len(q))

(* Mutant: the hub's bound is kept at the cost of the oldest frame of all. *)
AnyOfThem(queues) ==
    LET able == {t \in Terminal : Len(queues[t]) > 1} IN
    {t \in able : \A u \in able : queues[t][1].rank <= queues[u][1].rank}

(* The terminals that hold the most, of those that can drop a frame.       *)
Largest(queues) ==
    LET able == {t \in Terminal : Len(queues[t]) > 1} IN
    {t \in able : \A u \in able : BytesOf(queues[u]) <= BytesOf(queues[t])}

(* What is left of a terminal's queue: the fewest drops that do.           *)
WithinTerminal(q) ==
    LET enough == {k \in 0 .. Len(q) - 1 :
                      k = Len(q) - 1 \/ BytesOf(DropOldest(q, k)) <= PerTerminal}
    IN  IF BytesOf(q) <= PerTerminal THEN {q}
        ELSE {DropOldest(q, k) : k \in {k \in enough : \A j \in enough : k <= j}}

(* What a terminal has left, once these have dropped a frame each in turn. *)
Left(queues, turns) ==
    [t \in Terminal |->
        DropOldest(queues[t], Cardinality({i \in DOMAIN turns : turns[i] = t}))]

(* What may be left by the drops the hub's bound asks for.                 *)
WithinHub(queues) ==
    IF BytesOfAll(queues) <= PerHub THEN {queues}
    ELSE {Left(queues, turns) : turns \in
        {p \in BoundedSeq(Terminal, Total([t \in Terminal |-> Len(queues[t])])) :
            /\ \A i \in DOMAIN p :
                   LET now == Left(queues, SubSeq(p, 1, i - 1))
                   IN  BytesOfAll(now) > PerHub /\ p[i] \in Largest(now)
            /\ LET now == Left(queues, p)
               IN  BytesOfAll(now) <= PerHub \/ Largest(now) = {}}}

(* AwayQueue::push: the terminal's own bound first, then the hub's.        *)
Push(frame) ==
    LET t == frame[1].t
        grown == Append(away.channels[t], [rank |-> away.next, items |-> frame, len |-> FrameLen(frame)])
    IN
    /\ \E q \in WithinTerminal(grown) :
       \E queues \in WithinHub([away.channels EXCEPT ![t] = q]) :
           away' = [channels |-> queues, next |-> away.next + 1]
    /\ kept' = [kept EXCEPT ![t] =
                    [bytes |-> @.bytes + FrameLen(frame), last |-> frame[Len(frame)].n]]

(* AwayQueue::drain: what is kept, in the order of the ranks.              *)
Drained ==
    LET all == UNION {Range(away.channels[t]) : t \in Terminal} IN
    {s \in [1 .. Cardinality(all) -> all] :
        \A i, j \in DOMAIN s : i < j => s[i].rank < s[j].rank}

----------------------------------------------------------------------------
(* The router and the connections.                                         *)

(* A Queued charge released: only the flow's own connection counts.        *)
Released(f, c, entries) ==
    IF f.conn = c
    THEN [f EXCEPT !.queued =
             @ - TotalOf(entries, LAMBDA e : IF e.counted THEN FrameLen(e.items) ELSE 0)]
    ELSE f

(* HubRoutes::route: to the current connection, whose flow takes the       *)
(* charge over in one step, or to the away queue, charged to nothing.  A   *)
(* connection whose writer has ended refuses the frame.                    *)
Route ==
    LET frame == Head(batched)
        entry == [items |-> frame, counted |-> flow.conn = current, away |-> FALSE]
        taken == [flow EXCEPT !.transit = @ - ChargeOf(frame)]
    IN
    /\ batched # <<>>
    /\ batched' = Tail(batched)
    /\ IF current # 0 /\ current \notin broken
       THEN /\ out' = [out EXCEPT ![current] = Append(@, entry)]
            /\ flow' = IF entry.counted
                       THEN [taken EXCEPT !.queued = @ + FrameLen(frame)] ELSE taken
            /\ UNCHANGED <<away, kept>>
       ELSE /\ Push(frame)
            /\ flow' = taken
            /\ UNCHANGED out
    /\ UNCHANGED <<readers, pipe, buf, routes, heard>>

(* The writer has written a frame, and drops its charge.                   *)
Write(c) ==
    /\ out[c] # <<>> /\ c \notin broken
    /\ LET e == Head(out[c]) IN
           /\ heard' = [heard EXCEPT ![e.items[1].t] =
                            @ \cup {<<c, e.items[i].n>> : i \in DOMAIN e.items}]
           /\ flow' = Released(flow, c, <<e>>)
    /\ out' = [out EXCEPT ![c] = Tail(@)]
    /\ UNCHANGED <<readers, pipe, buf, batched, routes, away, kept>>

(* A write fails: the writer ends, and its queue goes with it.             *)
WriteFails(c) ==
    /\ c <= opened /\ c \notin broken
    /\ broken' = broken \cup {c}
    /\ flow' = Released(flow, c, out[c])
    /\ out' = [out EXCEPT ![c] = <<>>]
    /\ UNCHANGED <<readers, pipe, buf, batched, current, opened, away, kept, heard>>

(* Mutant: the charges of the connection that ended go on counting.        *)
detachKeeps(f, c) == IF f.conn = c THEN [f EXCEPT !.conn = 0] ELSE f

(* Flow::detach: what a connection that ended still holds counts no more.  *)
detach(f, c) == IF f.conn = c THEN [f EXCEPT !.conn = 0, !.queued = 0] ELSE f

(* The read loop ends (EOF, an error): clear_active_if_ours.  What is in   *)
(* the writer's queue it still tries to write.                             *)
Disconnect ==
    /\ current # 0
    /\ current' = 0 /\ flow' = detach(flow, current)
    /\ UNCHANGED <<readers, pipe, buf, batched, opened, broken, out, away, kept, heard>>

(* Flow::attach: the queue that counts is c's, and starts empty.           *)
attach(f, c) == [f EXCEPT !.conn = c, !.queued = 0]

(* register_active: the hub's newest connection replaces its previous one; *)
(* what was kept while it was away goes out first, and is charged.         *)
Connect ==
    LET c == opened + 1 IN
    /\ opened < MaxConn
    /\ opened' = c /\ current' = c
    /\ \E drained \in Drained :
           /\ out' = [out EXCEPT ![c] =
                          [i \in DOMAIN drained |->
                               [items |-> drained[i].items, counted |-> TRUE, away |-> TRUE]]]
           /\ flow' = [attach(flow, c) EXCEPT !.queued = @ + BytesOf(drained)]
    /\ away' = NothingAway /\ kept' = [t \in Terminal |-> NothingKept]
    /\ UNCHANGED <<readers, pipe, buf, batched, broken, heard>>

Next ==
    \/ \E t \in Terminal : Read(t) \/ SendEvent(t) \/ Ends(t) \/ Resume(t)
    \/ Accept \/ FlushAll \/ Route \/ Disconnect \/ Connect
    \/ \E c \in Conn : Write(c) \/ WriteFails(c)

(* The current connection's writer goes on, or fails: the hub reads its    *)
(* agents in flowing mode.  Nothing is assumed of a connection it left     *)
(* behind, nor that it ever connects again.                                *)
CurrentWrites == current # 0 /\ Write(current)

Spec ==
    /\ Init /\ [][Next]_vars
    /\ WF_vars(Accept) /\ WF_vars(FlushAll) /\ WF_vars(Route)
    /\ WF_vars(CurrentWrites)
    /\ \A t \in Terminal : WF_vars(Resume(t))

----------------------------------------------------------------------------
(* Properties.                                                             *)

(* The two counts of the flow are what is really there: what the readers   *)
(* read and the router has not taken, and what the hub's connection has    *)
(* not written, whatever connections were replaced or ended in between.    *)
(* A count that stayed behind would hold the terminals back for good.      *)
CountsAreTrue ==
    /\ flow.conn = current
    /\ flow.transit = ChargeOf(pipe) + FramesCharge(batched)
                      + Total([t \in Terminal |-> Len(buf[t])])
    /\ flow.queued = IF current = 0 THEN 0
                     ELSE TotalOf(out[current], LAMBDA e : FrameLen(e.items))

OutputIn(items) == TotalOf(items, LAMBDA x : IF x.kind = "output" THEN 1 ELSE 0)
OutputsIn(frames) == TotalOf(frames, OutputIn)

(* The terminals' output that waits for the hub's connection is bounded by *)
(* the high mark and one read of every terminal: a hub that stops reading  *)
(* does not fill the agent's memory.  (What comes out of the away queue    *)
(* has bounds of its own.)                                                 *)
OutputIsBounded ==
    OutputIn(pipe) + OutputsIn(batched)
        + Total([t \in Terminal |-> Len(buf[t])])
        + (IF current = 0 THEN 0
           ELSE TotalOf(out[current], LAMBDA e : IF e.away THEN 0 ELSE OutputIn(e.items)))
        <= High - 1 + Cardinality(Terminal)

(* One busy terminal never pushes out another's output: a terminal that    *)
(* said no more, while the hub was away, than its share of the hub's bound *)
(* has all of it kept.                                                     *)
QuietIsKept ==
    \A t \in Terminal :
        /\ kept[t].bytes <= PerTerminal
        /\ kept[t].bytes * Cardinality(Terminal) <= PerHub
        => BytesOf(away.channels[t]) = kept[t].bytes

(* A terminal's last word, its CHANNEL_EXIT in the end, is never among     *)
(* what the bounds drop: it is there until the hub's next connection.      *)
LastWordIsKept ==
    \A t \in Terminal : kept[t] # NothingKept =>
        \E i \in DOMAIN away.channels[t] :
            LET frame == away.channels[t][i].items
            IN  frame[Len(frame)].n = kept[t].last

(* A reader that was held back reads again, or its terminal ends: no       *)
(* connection the hub left behind keeps it waiting.                        *)
HeldBackResumes == \A t \in Terminal : t \in heldBack ~> t \notin heldBack

(* The pipeline implements Stream: in order, at most once.                 *)
TheStream ==
    INSTANCE Stream WITH Terminal <- Terminal, MaxConn <- MaxConn,
                         said <- said, over <- over, heard <- heard
InOrderAtMostOnce == TheStream!Spec
=============================================================================
