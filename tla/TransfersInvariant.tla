------------------------ MODULE TransfersInvariant ------------------------
(***************************************************************************)
(* The inductive invariant of uploads (Transfers), and the words its proof *)
(* is told in (TransfersProofs).                                           *)
(***************************************************************************)
EXTENDS Transfers

(* The shapes of what the hub, the host and meta.db hold, without the bounds. *)
ItemShape == [state : State, acked : Nat, temp : Nat, whole : BOOLEAN,
              resolution : {"none", "replace", "keep_both"},
              sink : Nat, writing : BOOLEAN]
ReqShape == [k : Kinds, f : File, t : Nat, n : Nat, old : BOOLEAN,
                 w : Window \cup {Nobody}]
HubShape ==
    [life : {"none", "kept", "gone"}, item : [File -> ItemShape],
     source : Window \cup {Nobody}, backend : {"none", "live", "lost"},
     linkDropped : BOOLEAN, queue : Seq(File), pumpDue : BOOLEAN, stale : BOOLEAN,
     doneSaid : BOOLEAN, dirty : SUBSET File, flushDue : BOOLEAN, noted : BOOLEAN,
     unsaved : SUBSET File, unsavedAcks : SUBSET File, link : {"up", "down"},
     wire : Seq(ReqShape), named : Nat, removal : SUBSET Nat,
     policy : {"ask", "replace", "keep_both", "skip"}]
HostShape ==
    [linked : SUBSET Temp, bytes : [Temp -> SUBSET Chunks],
     target : [File -> {"free", "theirs", "ours"}], copies : [File -> Nat],
     placed : [File -> SUBSET SUBSET Chunks]]
RowShape == [life : {"none", "kept", "discarded"}, item : [File -> ItemShape]]

(* What an argument about the hub's record takes from elsewhere: the file   *)
(* each temporary was named for, the files that are on the host under a     *)
(* name, the files somebody said to replace, and whether a connection was   *)
(* lost, a hub stopped or a placed file's temporary could not be removed.   *)
Env == [own : [Nat -> File], here : SUBSET File, asked : SUBSET File, broken : BOOLEAN]

Open(r) == r.k \in OpenKinds
Latest(r) == r.k \in OpenKinds /\ ~r.old
LookAt(r) == r.k \in LookKinds
Place(r) == r.k \in PlaceKinds
LatestOf(s, f) == \E i \in 1..Len(s.wire) : Latest(s.wire[i]) /\ s.wire[i].f = f

(* What is so of a file's item, and of its row, by itself. *)
WellItem(it) ==
    /\ it.acked <= Size
    /\ it.temp = None /\ it.state # "placed" => it.acked = 0
    /\ it.whole => it.acked = Size /\ it.temp # None
    /\ it.state = "conflict" => it.whole \/ it.temp = None
    /\ it.sink # None => it.state = "sending" /\ ~it.whole

Named(s, e, f, t) == t <= s.named /\ (t # None => e.own[t] = f)

ItemInv(s, v, e, f) ==
    /\ WellItem(s.item[f]) /\ WellItem(v.item[f])
    /\ v.item[f].sink = None /\ ~v.item[f].writing
    /\ Named(s, e, f, s.item[f].temp) /\ Named(s, e, f, s.item[f].sink)
    /\ Named(s, e, f, v.item[f].temp)
    /\ v.item[f].temp = s.item[f].temp /\ s.item[f].temp # None
          => v.item[f].acked <= s.item[f].acked
    /\ s.item[f].state = "sending"
          => /\ s.life = "kept" /\ s.source # Nobody /\ s.backend # "none"
             /\ (s.link = "up" => s.backend = "live")
    /\ s.linkDropped /\ s.source # Nobody /\ s.life = "kept" /\ s.item[f].state = "queued"
          => s.item[f].temp = None
    /\ s.item[f].resolution = "replace" => f \in e.asked
    /\ v.item[f].resolution = "replace" => f \in e.asked
    /\ s.life = "kept" /\ s.item[f].state = "placed" => f \in e.here
    /\ v.life = "kept" /\ v.item[f].state = "placed" => f \in e.here

Whole(s, v) ==
    /\ s.backend = "live" => s.link = "up"
    /\ s.linkDropped /\ s.source # Nobody /\ s.life = "kept" => s.link = "down"
    /\ s.life = "kept" => v.life = "kept"
    /\ s.life # "gone" => s.removal = {}
    /\ s.removal \subseteq 1..s.named
    /\ s.life = "none" => s.wire = <<>> /\ ~s.linkDropped /\ s.source = Nobody
GlobalInv(s, v, e) ==
    /\ Whole(s, v)
    /\ s.life # "none" /\ s.policy = "replace" => e.asked = File
    /\ s.life = "none" => e.here = {}
CutInv(s, v, r) ==
    r.k \in {"cut", "lookcut"} =>
        /\ s.item[r.f].temp = r.t => s.item[r.f].acked <= r.n
        /\ v.item[r.f].temp = r.t => v.item[r.f].acked <= r.n

CreateInv(s, v, r) ==
    r.k = "create" =>
        /\ s.item[r.f].acked = 0
        /\ v.item[r.f].temp = r.t => v.item[r.f].acked = 0

PlaceInv(s, e, r) ==
    Place(r) =>
        /\ s.item[r.f].state # "placed"
        /\ s.life # "gone" => s.item[r.f].state = "verifying"
        /\ \/ /\ s.item[r.f].temp = r.t /\ s.item[r.f].acked = Size
              /\ r.k # "finish" => s.item[r.f].whole
           \/ r.k # "finish" /\ s.item[r.f].temp = None
        /\ r.k = "rename" => r.f \in e.asked
        /\ r.k = "unlink" => r.f \in e.here

WriteInv(s, r) ==
    r.k = "write" =>
        /\ s.item[r.f].writing /\ s.item[r.f].temp = r.t
        /\ s.item[r.f].acked = r.n /\ r.n < Size

LookInv(s, r) ==
    LookAt(r) =>
        /\ s.item[r.f].state \notin {"sending", "placed"}
        /\ s.item[r.f].state = "queued" => s.source = Nobody
        /\ s.item[r.f].temp \in {None, r.t}
        /\ r.w \in Window
        /\ r.k = "look" /\ s.item[r.f].state = "conflict" => s.item[r.f].whole
        /\ r.k # "look" => ~s.item[r.f].whole /\ s.item[r.f].state # "conflict"
        /\ ~s.linkDropped
        /\ s.source # Nobody =>
              \A g \in File : s.item[g].state = "queued" => s.item[g].temp = None

OpenInv(s, r) ==
    Open(r) =>
        /\ s.item[r.f].state \notin {"verifying", "placed", "skipped"}
        /\ r.old \/ s.item[r.f].state = "queued" => r.k = "create"
        /\ ~r.old =>
              /\ s.item[r.f].temp \in {None, r.t}
              /\ s.item[r.f].state = "sending" => s.item[r.f].temp = r.t
              /\ s.item[r.f].temp = r.t /\ r.k \in {"stat", "cut", "reopen"}
                    => s.item[r.f].acked > 0

ReqInv(s, v, e, r) ==
    /\ r.t \in 1..s.named /\ (r.k # "purge" => e.own[r.t] = r.f)
    /\ s.link = "down" => r.k = "close"
    /\ r.k = "purge" => s.life = "gone"
    /\ r.k = "remove" => s.item[r.f].temp # r.t
    /\ Open(r) \/ r.k \in {"write", "close"}
          => ~s.item[r.f].whole /\ s.item[r.f].state # "conflict"
    /\ CutInv(s, v, r) /\ CreateInv(s, v, r) /\ PlaceInv(s, e, r)
    /\ WriteInv(s, r) /\ LookInv(s, r) /\ OpenInv(s, r)

(* What may be on the wire together, a before b. *)
Apart(a, b) ==
    /\ ~(Place(a) /\ Place(b))
    /\ ~(Place(a) /\ (Open(b) \/ LookAt(b) \/ b.k \in {"write", "close"}))
    /\ ~(Place(b) /\ (Open(a) \/ a.k \in {"write", "close", "lookcut", "lookclear"}))
    /\ LookAt(a) /\ Place(b) => b.k # "finish" /\ a.t = b.t
    /\ b.k = "write" => ~Open(a) /\ ~LookAt(a) /\ a.k \notin {"write", "close"}
    /\ a.k = "write" => b.k \notin {"close", "cut", "create", "reopen", "lookcut", "lookclear"}
    /\ LookAt(a) => ~LookAt(b) /\ ~Open(b)
    /\ Open(a) => ~LookAt(b)
    /\ Latest(a) => ~Open(b)

PairInv(a, b) ==
    /\ LookAt(a) /\ LookAt(b) => a.w = b.w
    /\ LookAt(a) /\ Open(b) => b.k = "create"
    /\ Open(a) /\ LookAt(b) => a.k = "create"
    /\ a.k = "create" /\ b.k = "create" => a.t # b.t
    /\ a.f = b.f /\ a.k # "purge" /\ b.k # "purge" => Apart(a, b)

\* The same, as it depends on the file.
PairNow(s, a, b) ==
    a.f = b.f =>
        /\ a.k = "write" /\ Open(b) => s.item[a.f].sink = None
        /\ s.item[a.f].state = "sending" /\ Latest(a) => b.k # "close"
        /\ LookAt(a) /\ Place(b) => s.item[a.f].whole

OldInv(s) ==
    \A i \in 1..Len(s.wire) :
        Open(s.wire[i]) /\ s.wire[i].old =>
            \E j \in 1..Len(s.wire) :
                j > i /\ Latest(s.wire[j]) /\ s.wire[j].f = s.wire[i].f

SendInv(s, f) ==
    s.item[f].state = "sending" /\ s.item[f].sink # None =>
        \/ LatestOf(s, f)
        \/ /\ s.item[f].temp = s.item[f].sink
           /\ \A i \in 1..Len(s.wire) : ~(s.wire[i].f = f /\ s.wire[i].k = "close")

HereInv(s, e, f) ==
    s.life = "kept" /\ ~e.broken /\ f \in e.here =>
        \/ s.item[f].state = "placed"
        \/ \E i \in 1..Len(s.wire) : s.wire[i].f = f /\ s.wire[i].k = "unlink"

(* What is so of the hub's record and meta.db.  X are the files a handler is *)
(* just at work on: of these it is not yet said that what they send goes     *)
(* into the temporary they will place (SendInv), nor that they are placed,   *)
(* or being placed, once they are on the host (HereInv).                     *)
HubInv(s, v, e, X) ==
    /\ s \in HubShape /\ v \in RowShape /\ e \in Env
    /\ GlobalInv(s, v, e)
    /\ \A f \in File : ItemInv(s, v, e, f)
    /\ \A i \in 1..Len(s.wire) : ReqInv(s, v, e, s.wire[i])
    /\ \A i, j \in 1..Len(s.wire) : i < j =>
          PairInv(s.wire[i], s.wire[j]) /\ PairNow(s, s.wire[i], s.wire[j])
    /\ OldInv(s)
    /\ \A f \in File \ X : SendInv(s, f) /\ HereInv(s, e, f)

Prefix(h, it) ==
    it.temp \in h.linked => 0..(it.acked - 1) \subseteq h.bytes[it.temp]

FullAt(h, t) == t \in h.linked => h.bytes[t] = Chunks

ReqHost(s, h, r) ==
    /\ r.k = "create" => r.t \notin h.linked
    /\ Place(r) /\ s.item[r.f].temp = None => FullAt(h, r.t)

SinkInv(s, h, f) ==
    s.item[f].state = "sending" /\ s.item[f].sink # None =>
        LatestOf(s, f) \/ s.item[f].sink \in h.linked

(* What is so of the host once the first m requests are done. *)
HostInv(s, h, v, e, m, X) ==
    /\ h \in HostShape /\ h.linked \subseteq 1..s.named
    /\ \A f \in File : Prefix(h, s.item[f]) /\ Prefix(h, v.item[f])
    /\ \A i \in 1..Len(s.wire) : i > m => ReqHost(s, h, s.wire[i])
    /\ \A f \in File \ X : SinkInv(s, h, f)
    /\ \A f \in File : h.placed[f] \subseteq {Chunks}
    /\ \A f \in File : h.placed[f] # {} <=> f \in e.here

Inv(s, h, v, e, X) == HubInv(s, v, e, X) /\ HostInv(s, h, v, e, 0, X)

\* What a step on one file leaves alone.
Still(s, u) ==
    /\ u.life = s.life /\ u.source = s.source /\ u.backend = s.backend
    /\ u.linkDropped = s.linkDropped /\ u.link = s.link /\ u.named = s.named
    /\ u.removal = s.removal /\ u.policy = s.policy

NoOn(s, f, K) ==
    \A i \in 1..Len(s.wire) : s.wire[i].f = f => s.wire[i].k \notin K

\* A request puts the file under a name.
Puts(h, r) == (r.k = "link" /\ Links(h, r)) \/ (r.k = "rename" /\ r.t \in h.linked)
EnvAfter(e, h, r) == IF Puts(h, r) THEN [e EXCEPT !.here = @ \cup {r.f}] ELSE e

\* The answer to r was taken from the wire, and is being handled.
Taken(s, h, v, e, r) ==
    /\ Inv(s, h, v, e, {r.f}) /\ r \in ReqShape /\ s.life # "none"
    /\ ReqInv(s, v, e, r)
    /\ \A i \in 1..Len(s.wire) : PairInv(r, s.wire[i]) /\ PairNow(s, r, s.wire[i])
    /\ Open(r) /\ r.old => LatestOf(s, r.f)
    /\ ~Latest(r) => SendInv(s, r.f) /\ SinkInv(s, h, r.f)
    /\ r.k \notin {"link", "unlink", "rename"} => HereInv(s, e, r.f)

\* Only what is said and saved, and what is to be pumped, is different; or the
\* connection to the host is taken.
Same(s, u) ==
    /\ u.life = s.life /\ u.source = s.source /\ u.linkDropped = s.linkDropped
    /\ u.link = s.link /\ u.named = s.named /\ u.removal = s.removal
    /\ u.policy = s.policy /\ u.item = s.item /\ u.wire = s.wire
    /\ u.backend = s.backend \/ (u.backend = "live" /\ s.link = "up")

\* Only the item of f is different, which is it now.
Changes(s, u, f, it) ==
    /\ u \in HubShape /\ Still(s, u) /\ u.wire = s.wire
    /\ it \in ItemShape /\ u.item[f] = it
    /\ \A g \in File : g # f => u.item[g] = s.item[g]

-----------------------------------------------------------------------------
(* How two states of an upload may differ.                                 *)

\* The loops by name.
PumpRun(s, q) == Each(pumpOne, s, q)
RequeueRun(s, q) == Each(requeue, s, q)
FailRun(s, q) == Each(Fail, s, q)
DoneRun(h, q) == Each(Done, h, q)

\* Requests after which a temporary may be gone.
Removes == {"clear", "lookclear", "remove", "purge", "unlink", "rename"}

\* What a file is that no window sends any more.
Stopped == {"failed", "cancelled", "interrupted", "skipped"}

\* Only a file's state and its open write are different.
Alike(it, jt) ==
    /\ jt.acked = it.acked /\ jt.temp = it.temp /\ jt.whole = it.whole
    /\ jt.writing = it.writing /\ jt.resolution = it.resolution

\* The files interruptAll interrupts.
Moving(s) == {f \in File : s.item[f].state \in {"sending", "queued"}}

\* Requests of a file of which none is under way when it is placed.
Before == OpenKinds \cup PlaceKinds \cup {"write", "close", "lookcut", "lookclear"}

\* What the wire holds more of is placements.
OnlyPlaces(s, u) ==
    \A i \in 1..Len(u.wire) :
        Place(u.wire[i]) \/ \E j \in 1..Len(s.wire) : u.wire[i] = s.wire[j]

\* Only whose the temporaries are may be different.
SameEnv(e, d) == d.here = e.here /\ d.asked = e.asked /\ d.broken = e.broken

\* Nothing is known under t.
Fresh(s, h, v, f, t) ==
    /\ t \notin h.linked /\ v.item[f].temp # t /\ s.item[f].temp # t
    /\ \A i \in 1..Len(s.wire) : s.wire[i].t # t

\* b is a, which is no longer the latest open of f.
Marked(a, b, f) ==
    /\ b.k = a.k /\ b.f = a.f /\ b.t = a.t /\ b.n = a.n /\ b.w = a.w
    /\ Open(a) /\ a.f = f => b.old
    /\ ~(Open(a) /\ a.f = f) => b = a

\* it, of a file that starts with the temporary t.
Starts(it, jt, t) ==
    /\ jt.state = "sending" /\ jt.temp = t /\ jt.acked = it.acked /\ jt.whole = it.whole
    /\ jt.resolution = it.resolution /\ jt.sink = it.sink /\ jt.writing = it.writing

\* u is s with the file f sending, its former opens old and q its latest.
Admits(s, h, v, e, f, q, u) ==
    /\ s.item[f].state = "queued" /\ ~s.item[f].whole /\ s.life = "kept" /\ s.source # Nobody
    /\ s.link = "up"
    /\ q.f = f /\ q.k \in {"create", "stat", "clear"} /\ ~q.old /\ q.t # None
    /\ Named(s, e, f, q.t)
    /\ q.k = "create" => Fresh(s, h, v, f, q.t) /\ s.item[f].temp = None
    /\ q.k # "create" => s.item[f].temp = q.t
    /\ q.k = "stat" => s.item[f].acked > 0
    /\ u.life = s.life /\ u.source = s.source /\ u.linkDropped = s.linkDropped
    /\ u.link = s.link /\ u.named = s.named /\ u.removal = s.removal /\ u.policy = s.policy
    /\ u.backend = "live" /\ Starts(s.item[f], u.item[f], q.t)
    /\ \A g \in File : g # f => u.item[g] = s.item[g]
    /\ Len(u.wire) = Len(s.wire) + 1 /\ u.wire[Len(s.wire) + 1] = q
    /\ \A i \in 1..Len(s.wire) : Marked(s.wire[i], u.wire[i], f)

\* The same files may be replaced, and as much was lost.
Like(e, d) == d.asked = e.asked /\ d.broken = e.broken

\* No temporary is named on the way from s to u.
Counts(s, u) == "named" \in DOMAIN s => "named" \in DOMAIN u /\ u.named = s.named

\* What somebody else has stays, but for the files of A.
Spared(h, g, A) == \A f \in File : h.target[f] = "theirs" /\ g.target[f] # "theirs" => f \in A

\* The connection is gone, with all that was under way.
CutOff(s) == s.link = "down" /\ s.backend # "live" /\ s.wire = <<>> /\ s.life # "none"

\* As Like, but something was lost.
Breaks(e, d) == d.asked = e.asked /\ d.broken

\* What a row is when the hub starts again.
Restored(it) ==
    [it EXCEPT !.state = IF @ \in {"sending", "verifying"} THEN "interrupted" ELSE @]

\* The wire once what an upload left is being removed.
PurgesOn(q, R) ==
    IF {i \in 1..Len(q) : q[i].k \in {"purge"}} # {} THEN q
    ELSE q \o [i \in 1..Len(SetToSeq(R)) |->
                  [k |-> "purge", f |-> CHOOSE f \in File : TRUE, t |-> SetToSeq(R)[i],
                   n |-> 0, old |-> FALSE, w |-> Nobody]]

(***************************************************************************)
(* What the properties follow from: the hub, the host and meta.db agree,   *)
(* for some account of which file each temporary was named for and which   *)
(* files were put under a name.                                            *)
(***************************************************************************)
Broken(seen) == seen \cap {"broken", "unlink"} # {}
Agreed(e) == Inv(hub, host, saved, e, {}) /\ e.asked = asked /\ (e.broken <=> Broken(count.seen))

Seen == {"refused", "unlink", "declined", "broken", "overlap"}
Counted ==
    /\ count \in [faults : Nat, seen : SUBSET Seen, asks : Nat]
    /\ writers \in SUBSET Window /\ again \in [File -> Nat]

UploadInv == Counted /\ (Overlapped \/ (hub.named <= MaxTemp /\ \E e : Agreed(e)))

=============================================================================
