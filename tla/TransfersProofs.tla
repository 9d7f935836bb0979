-------------------------- MODULE TransfersProofs --------------------------
(***************************************************************************)
(* Theorems about uploads (Transfers): of every run of the hub, up to a    *)
(* file being asked for again while the hub is still at work on it.        *)
(***************************************************************************)
EXTENDS TransfersInvariant, FiniteSetTheorems, FunctionTheorems, WellFoundedInduction,
        NaturalsInduction, TLAPS

------------------------------
\* Shapes.

\* The parts of the hub's record.
LEMMA HubParts ==
  ASSUME NEW s \in HubShape
  PROVE  /\ s.life \in {"none", "kept", "gone"} /\ s.item \in [File -> ItemShape]
         /\ s.source \in Window \cup {Nobody} /\ s.backend \in {"none", "live", "lost"}
         /\ s.linkDropped \in BOOLEAN /\ s.queue \in Seq(File)
         /\ s.unsaved \subseteq File /\ s.unsavedAcks \subseteq File /\ s.dirty \subseteq File
         /\ s.link \in {"up", "down"} /\ s.wire \in Seq(ReqShape) /\ Len(s.wire) \in Nat
         /\ \A i \in 1..Len(s.wire) : s.wire[i] \in ReqShape
         /\ s.named \in Nat /\ s.removal \subseteq Nat
         /\ s.policy \in {"ask", "replace", "keep_both", "skip"}
<1>1. /\ s.life \in {"none", "kept", "gone"} /\ s.item \in [File -> ItemShape]
      /\ s.source \in Window \cup {Nobody} /\ s.backend \in {"none", "live", "lost"}
      /\ s.linkDropped \in BOOLEAN /\ s.queue \in Seq(File)
      /\ s.unsaved \subseteq File /\ s.unsavedAcks \subseteq File /\ s.dirty \subseteq File
      /\ s.link \in {"up", "down"} /\ s.wire \in Seq(ReqShape)
      /\ s.named \in Nat /\ s.removal \subseteq Nat
      /\ s.policy \in {"ask", "replace", "keep_both", "skip"} BY DEF HubShape
<1>2. Len(s.wire) \in Nat /\ \A i \in 1..Len(s.wire) : s.wire[i] \in ReqShape BY <1>1
<1> QED BY <1>1, <1>2, Zenon

\* The parts of a file's item.
LEMMA ItemParts ==
  ASSUME NEW it \in ItemShape
  PROVE  /\ it.state \in State /\ it.acked \in Nat /\ it.temp \in Nat
         /\ it.whole \in BOOLEAN /\ it.resolution \in {"none", "replace", "keep_both"}
         /\ it.sink \in Nat /\ it.writing \in BOOLEAN BY DEF ItemShape

\* The parts of a request.
LEMMA ReqParts ==
  ASSUME NEW r \in ReqShape
  PROVE  /\ r.k \in Kinds /\ r.f \in File /\ r.t \in Nat /\ r.n \in Nat
         /\ r.old \in BOOLEAN /\ r.w \in Window \cup {Nobody} BY DEF ReqShape

------------------------------
\* Loops.

\* What holds at 0 and with each number of the next holds up to any.
LEMMA UpTo ==
  ASSUME NEW S, NEW N \in Nat, 0 \in S,
         \A n \in 0..(N - 1) : n \in S => n + 1 \in S
  PROVE  \A n \in 0..N : n \in S
<1> SUFFICES ASSUME NEW n \in 0..N, n \notin S PROVE FALSE OBVIOUS
<1> DEFINE U == {k \in 0..N : k \notin S}
<1>1. U \subseteq Nat /\ U # {} OBVIOUS
<1>2. PICK m \in U : \A y \in U : ~ (<<y, m>> \in OpToRel(<, Nat))
 <2> HIDE DEF U
 <2> QED BY <1>1, NatLessThanWellFounded, WFMin, Zenon
<1>3. \A y \in U : ~ (y < m) BY <1>1, <1>2 DEF OpToRel
<1>4. m # 0 /\ m - 1 \in 0..(N - 1)
 <2>1. m \in 0..N /\ m \notin S OBVIOUS
 <2> HIDE DEF U
 <2> QED BY <2>1
<1>5. m - 1 \in S BY <1>3, <1>4
<1> QED BY <1>4, <1>5

\* The states of the loop in Pump.
LEMMA PumpLoop ==
  ASSUME NEW s, NEW q, Len(q) \in Nat
  PROVE  \E after :
            /\ after[0] = s
            /\ \A n \in 1..Len(q) : after[n] = pumpOne(after[n - 1], q[n])
            /\ PumpRun(s, q) = after[Len(q)]
<1> DEFINE N == Len(q)
<1>0. N \in Nat OBVIOUS
<1>a. PumpRun(s, q)
        = (CHOOSE a : a = [n \in 0..N |-> IF n = 0 THEN s ELSE pumpOne(a[n - 1], q[n])])[N]
  BY DEF Each, PumpRun
<1> HIDE DEF N
<1> DEFINE Eq(a, k) == a = [n \in 0..k |-> IF n = 0 THEN s ELSE pumpOne(a[n - 1], q[n])]
<1> DEFINE S == {k \in 0..N : \E a : Eq(a, k)}
<1>1. 0 \in S
 <2>1. Eq([n \in 0..0 |-> s], 0) OBVIOUS
 <2> HIDE DEF Eq
 <2> QED BY <2>1, <1>0
<1>2. ASSUME NEW k \in 0..(N - 1), k \in S PROVE k + 1 \in S
 <2>1. PICK a : Eq(a, k) BY <1>2
 <2> DEFINE b == [n \in 0..(k + 1) |-> IF n = k + 1 THEN pumpOne(a[k], q[k + 1]) ELSE a[n]]
 <2>2. Eq(b, k + 1) BY <1>0, <2>1
 <2> HIDE DEF Eq, b
 <2> QED BY <1>0, <2>2
<1>3. N \in S
 <2>1. \A k \in 0..(N - 1) : k \in S => k + 1 \in S BY <1>2
 <2> HIDE DEF S
 <2>2. \A n \in 0..N : n \in S BY <1>0, <1>1, <2>1, UpTo
 <2> QED BY <1>0, <2>2
<1>4. \E a : Eq(a, N) BY <1>3
<1>5. Eq(CHOOSE a : Eq(a, N), N)
 <2> HIDE DEF Eq
 <2> QED BY <1>4, Zenon
<1> DEFINE a == CHOOSE a : Eq(a, N)
<1>6. ASSUME NEW b, Eq(b, N)
      PROVE  b[0] = s /\ \A n \in 1..N : b[n] = pumpOne(b[n - 1], q[n]) BY <1>0, <1>6
<1>7. a[0] = s /\ \A n \in 1..N : a[n] = pumpOne(a[n - 1], q[n])
 <2> HIDE DEF Eq
 <2> QED BY <1>5, <1>6, Zenon
<1>8. PumpRun(s, q) = a[N] BY <1>a, Zenon
<1> QED BY <1>7, <1>8, Zenon DEF N

\* The states of the loop in requeueAll.
LEMMA RequeueLoop ==
  ASSUME NEW s, NEW q, Len(q) \in Nat
  PROVE  \E after :
            /\ after[0] = s
            /\ \A n \in 1..Len(q) : after[n] = requeue(after[n - 1], q[n])
            /\ RequeueRun(s, q) = after[Len(q)]
<1> DEFINE N == Len(q)
<1>0. N \in Nat OBVIOUS
<1>a. RequeueRun(s, q)
        = (CHOOSE a : a = [n \in 0..N |-> IF n = 0 THEN s ELSE requeue(a[n - 1], q[n])])[N]
  BY DEF Each, RequeueRun
<1> HIDE DEF N
<1> DEFINE Eq(a, k) == a = [n \in 0..k |-> IF n = 0 THEN s ELSE requeue(a[n - 1], q[n])]
<1> DEFINE S == {k \in 0..N : \E a : Eq(a, k)}
<1>1. 0 \in S
 <2>1. Eq([n \in 0..0 |-> s], 0) OBVIOUS
 <2> HIDE DEF Eq
 <2> QED BY <2>1, <1>0
<1>2. ASSUME NEW k \in 0..(N - 1), k \in S PROVE k + 1 \in S
 <2>1. PICK a : Eq(a, k) BY <1>2
 <2> DEFINE b == [n \in 0..(k + 1) |-> IF n = k + 1 THEN requeue(a[k], q[k + 1]) ELSE a[n]]
 <2>2. Eq(b, k + 1) BY <1>0, <2>1
 <2> HIDE DEF Eq, b
 <2> QED BY <1>0, <2>2
<1>3. N \in S
 <2>1. \A k \in 0..(N - 1) : k \in S => k + 1 \in S BY <1>2
 <2> HIDE DEF S
 <2>2. \A n \in 0..N : n \in S BY <1>0, <1>1, <2>1, UpTo
 <2> QED BY <1>0, <2>2
<1>4. \E a : Eq(a, N) BY <1>3
<1>5. Eq(CHOOSE a : Eq(a, N), N)
 <2> HIDE DEF Eq
 <2> QED BY <1>4, Zenon
<1> DEFINE a == CHOOSE a : Eq(a, N)
<1>6. ASSUME NEW b, Eq(b, N)
      PROVE  b[0] = s /\ \A n \in 1..N : b[n] = requeue(b[n - 1], q[n]) BY <1>0, <1>6
<1>7. a[0] = s /\ \A n \in 1..N : a[n] = requeue(a[n - 1], q[n])
 <2> HIDE DEF Eq
 <2> QED BY <1>5, <1>6, Zenon
<1>8. RequeueRun(s, q) = a[N] BY <1>a, Zenon
<1> QED BY <1>7, <1>8, Zenon DEF N

\* The states of the loop over the requests that fail.
LEMMA FailLoop ==
  ASSUME NEW s, NEW q, Len(q) \in Nat
  PROVE  \E after :
            /\ after[0] = s
            /\ \A n \in 1..Len(q) : after[n] = Fail(after[n - 1], q[n])
            /\ FailRun(s, q) = after[Len(q)]
<1> DEFINE N == Len(q)
<1>0. N \in Nat OBVIOUS
<1>a. FailRun(s, q)
        = (CHOOSE a : a = [n \in 0..N |-> IF n = 0 THEN s ELSE Fail(a[n - 1], q[n])])[N]
  BY DEF Each, FailRun
<1> HIDE DEF N
<1> DEFINE Eq(a, k) == a = [n \in 0..k |-> IF n = 0 THEN s ELSE Fail(a[n - 1], q[n])]
<1> DEFINE S == {k \in 0..N : \E a : Eq(a, k)}
<1>1. 0 \in S
 <2>1. Eq([n \in 0..0 |-> s], 0) OBVIOUS
 <2> HIDE DEF Eq
 <2> QED BY <2>1, <1>0
<1>2. ASSUME NEW k \in 0..(N - 1), k \in S PROVE k + 1 \in S
 <2>1. PICK a : Eq(a, k) BY <1>2
 <2> DEFINE b == [n \in 0..(k + 1) |-> IF n = k + 1 THEN Fail(a[k], q[k + 1]) ELSE a[n]]
 <2>2. Eq(b, k + 1) BY <1>0, <2>1
 <2> HIDE DEF Eq, b
 <2> QED BY <1>0, <2>2
<1>3. N \in S
 <2>1. \A k \in 0..(N - 1) : k \in S => k + 1 \in S BY <1>2
 <2> HIDE DEF S
 <2>2. \A n \in 0..N : n \in S BY <1>0, <1>1, <2>1, UpTo
 <2> QED BY <1>0, <2>2
<1>4. \E a : Eq(a, N) BY <1>3
<1>5. Eq(CHOOSE a : Eq(a, N), N)
 <2> HIDE DEF Eq
 <2> QED BY <1>4, Zenon
<1> DEFINE a == CHOOSE a : Eq(a, N)
<1>6. ASSUME NEW b, Eq(b, N) PROVE b[0] = s /\ \A n \in 1..N : b[n] = Fail(b[n - 1], q[n]) BY <1>0, <1>6
<1>7. a[0] = s /\ \A n \in 1..N : a[n] = Fail(a[n - 1], q[n])
 <2> HIDE DEF Eq
 <2> QED BY <1>5, <1>6, Zenon
<1>8. FailRun(s, q) = a[N] BY <1>a, Zenon
<1> QED BY <1>7, <1>8, Zenon DEF N

\* What the host is after each request it still does.
LEMMA DoneLoop ==
  ASSUME NEW s, NEW q, Len(q) \in Nat
  PROVE  \E after :
            /\ after[0] = s
            /\ \A n \in 1..Len(q) : after[n] = Done(after[n - 1], q[n])
            /\ DoneRun(s, q) = after[Len(q)]
<1> DEFINE N == Len(q)
<1>0. N \in Nat OBVIOUS
<1>a. DoneRun(s, q)
        = (CHOOSE a : a = [n \in 0..N |-> IF n = 0 THEN s ELSE Done(a[n - 1], q[n])])[N]
  BY DEF Each, DoneRun
<1> HIDE DEF N
<1> DEFINE Eq(a, k) == a = [n \in 0..k |-> IF n = 0 THEN s ELSE Done(a[n - 1], q[n])]
<1> DEFINE S == {k \in 0..N : \E a : Eq(a, k)}
<1>1. 0 \in S
 <2>1. Eq([n \in 0..0 |-> s], 0) OBVIOUS
 <2> HIDE DEF Eq
 <2> QED BY <2>1, <1>0
<1>2. ASSUME NEW k \in 0..(N - 1), k \in S PROVE k + 1 \in S
 <2>1. PICK a : Eq(a, k) BY <1>2
 <2> DEFINE b == [n \in 0..(k + 1) |-> IF n = k + 1 THEN Done(a[k], q[k + 1]) ELSE a[n]]
 <2>2. Eq(b, k + 1) BY <1>0, <2>1
 <2> HIDE DEF Eq, b
 <2> QED BY <1>0, <2>2
<1>3. N \in S
 <2>1. \A k \in 0..(N - 1) : k \in S => k + 1 \in S BY <1>2
 <2> HIDE DEF S
 <2>2. \A n \in 0..N : n \in S BY <1>0, <1>1, <2>1, UpTo
 <2> QED BY <1>0, <2>2
<1>4. \E a : Eq(a, N) BY <1>3
<1>5. Eq(CHOOSE a : Eq(a, N), N)
 <2> HIDE DEF Eq
 <2> QED BY <1>4, Zenon
<1> DEFINE a == CHOOSE a : Eq(a, N)
<1>6. ASSUME NEW b, Eq(b, N) PROVE b[0] = s /\ \A n \in 1..N : b[n] = Done(b[n - 1], q[n]) BY <1>0, <1>6
<1>7. a[0] = s /\ \A n \in 1..N : a[n] = Done(a[n - 1], q[n])
 <2> HIDE DEF Eq
 <2> QED BY <1>5, <1>6, Zenon
<1>8. DoneRun(s, q) = a[N] BY <1>a, Zenon
<1> QED BY <1>7, <1>8, Zenon DEF N

------------------------------
\* Steps of the hub's record that keep the invariant.

\* A step that changes one file's item, and nothing on the wire.
LEMMA ItemStep ==
  ASSUME NEW s, NEW h, NEW v, NEW e, NEW X, NEW Y, Inv(s, h, v, e, X),
         NEW f \in File, NEW u \in HubShape,
         Still(s, u), u.wire = s.wire,
         \A g \in File : g # f => u.item[g] = s.item[g],
         ItemInv(u, v, e, f), Prefix(h, u.item[f]),
         \A i \in 1..Len(s.wire) : s.wire[i].f = f =>
            ReqInv(u, v, e, s.wire[i]) /\ ReqHost(u, h, s.wire[i]),
         u.item[f].state = "queued" /\ u.item[f].temp # None /\ u.source # Nobody
            => \A i \in 1..Len(s.wire) : ~LookAt(s.wire[i]),
         \A i, j \in 1..Len(s.wire) : i < j /\ s.wire[i].f = f =>
            PairNow(u, s.wire[i], s.wire[j]),
         X \subseteq Y \cup {f},
         f \in Y \/ (SendInv(u, f) /\ HereInv(u, e, f) /\ SinkInv(u, h, f))
  PROVE  Inv(u, h, v, e, Y)
<1> USE DEF Inv, Still
<1>0. s \in HubShape BY DEF HubInv
<1>1. GlobalInv(u, v, e) BY DEF HubInv, GlobalInv, Whole
<1>2. ASSUME NEW g \in File PROVE ItemInv(u, v, e, g)
 <2>1. CASE g = f BY <2>1
 <2>2. CASE g # f BY <2>2 DEF HubInv, ItemInv, Named
 <2> QED BY <2>1, <2>2
<1>3. ASSUME NEW i \in 1..Len(u.wire) PROVE ReqInv(u, v, e, u.wire[i]) /\ ReqHost(u, h, u.wire[i])
 <2>1. CASE u.wire[i].f = f BY <2>1
 <2>2. CASE u.wire[i].f # f
  <3>1. ReqInv(s, v, e, s.wire[i]) /\ ReqHost(s, h, s.wire[i]) BY <1>0, HubParts DEF HubInv, HostInv
  <3>2. s.wire[i].f \in File BY <1>0, HubParts, ReqParts
  <3>3. u.item[s.wire[i].f] = s.item[s.wire[i].f] BY <2>2, <3>2
  <3>4. LookInv(u, s.wire[i]) BY <3>1, <3>3 DEF ReqInv, LookInv
  <3>5. CutInv(u, v, s.wire[i]) /\ CreateInv(u, v, s.wire[i])
    BY <3>1, <3>3 DEF ReqInv, CutInv, CreateInv
  <3>6. PlaceInv(u, e, s.wire[i]) /\ WriteInv(u, s.wire[i]) /\ OpenInv(u, s.wire[i])
    BY <3>1, <3>3 DEF ReqInv, PlaceInv, WriteInv, OpenInv
  <3> QED BY <3>1, <3>3, <3>4, <3>5, <3>6 DEF ReqInv, ReqHost
 <2> QED BY <2>1, <2>2
<1>4. ASSUME NEW i \in 1..Len(u.wire), NEW j \in 1..Len(u.wire), i < j
      PROVE  PairInv(u.wire[i], u.wire[j]) /\ PairNow(u, u.wire[i], u.wire[j])
 <2>1. PairInv(s.wire[i], s.wire[j]) /\ PairNow(s, s.wire[i], s.wire[j]) BY <1>4 DEF HubInv
 <2>2. s.wire[i].f \in File BY <1>0, HubParts, ReqParts
 <2> QED BY <1>4, <2>1, <2>2 DEF PairNow
<1>5. OldInv(u) BY DEF HubInv, OldInv
<1>6. ASSUME NEW g \in File \ Y PROVE SendInv(u, g) /\ HereInv(u, e, g) /\ SinkInv(u, h, g)
 <2>1. CASE g = f BY <2>1
 <2>2. CASE g # f
  <3>1. SendInv(s, g) /\ HereInv(s, e, g) /\ SinkInv(s, h, g) BY <2>2 DEF HubInv, HostInv
  <3> QED BY <2>2, <3>1 DEF SendInv, HereInv, SinkInv, LatestOf
 <2> QED BY <2>1, <2>2
<1>7. HubInv(u, v, e, Y) BY <1>1, <1>2, <1>3, <1>4, <1>5, <1>6 DEF HubInv
<1>8. \A g \in File : Prefix(h, u.item[g]) BY DEF HostInv
<1>9. HostInv(u, h, v, e, 0, Y) BY <1>3, <1>6, <1>8 DEF HostInv
<1> QED BY <1>7, <1>9

\* A step that changes nothing the invariant is about.
LEMMA Agree ==
  ASSUME NEW s, NEW h, NEW v, NEW e, NEW X, Inv(s, h, v, e, X),
         NEW u \in HubShape, Same(s, u)
  PROVE  Inv(u, h, v, e, X)
<1> USE DEF Inv, Same
<1>0. s \in HubShape BY DEF HubInv
<1>1. GlobalInv(u, v, e) BY DEF HubInv, GlobalInv, Whole
<1>2. ASSUME NEW g \in File PROVE ItemInv(u, v, e, g) BY DEF HubInv, ItemInv, Named
<1>3. ASSUME NEW i \in 1..Len(u.wire) PROVE ReqInv(u, v, e, u.wire[i]) /\ ReqHost(u, h, u.wire[i])
 <2>1. ReqInv(s, v, e, s.wire[i]) /\ ReqHost(s, h, s.wire[i]) BY <1>0, HubParts DEF HubInv, HostInv
 <2>2. LookInv(u, s.wire[i]) BY <2>1 DEF ReqInv, LookInv
 <2>3. CutInv(u, v, s.wire[i]) /\ CreateInv(u, v, s.wire[i]) BY <2>1 DEF ReqInv, CutInv, CreateInv
 <2>4. PlaceInv(u, e, s.wire[i]) /\ WriteInv(u, s.wire[i]) /\ OpenInv(u, s.wire[i])
   BY <2>1 DEF ReqInv, PlaceInv, WriteInv, OpenInv
 <2> QED BY <2>1, <2>2, <2>3, <2>4 DEF ReqInv, ReqHost
<1>4. ASSUME NEW i \in 1..Len(u.wire), NEW j \in 1..Len(u.wire), i < j
      PROVE  PairInv(u.wire[i], u.wire[j]) /\ PairNow(u, u.wire[i], u.wire[j])
  BY <1>4 DEF HubInv, PairNow
<1>5. OldInv(u) BY DEF HubInv, OldInv
<1>6. ASSUME NEW g \in File \ X PROVE SendInv(u, g) /\ HereInv(u, e, g) /\ SinkInv(u, h, g)
 <2>1. SendInv(s, g) /\ HereInv(s, e, g) /\ SinkInv(s, h, g) BY DEF HubInv, HostInv
 <2> QED BY <2>1 DEF SendInv, HereInv, SinkInv, LatestOf
<1>7. HubInv(u, v, e, X) BY <1>1, <1>2, <1>3, <1>4, <1>5, <1>6 DEF HubInv
<1>9. HostInv(u, h, v, e, 0, X) BY <1>3, <1>6 DEF HostInv
<1> QED BY <1>7, <1>9

\* A step that only sends requests.
LEMMA Extend ==
  ASSUME NEW s, NEW h, NEW v, NEW e, NEW X, NEW Y, Inv(s, h, v, e, X),
         NEW u \in HubShape, Still(s, u), u.item = s.item, s.life # "none",
         Len(u.wire) >= Len(s.wire),
         \A i \in 1..Len(s.wire) : u.wire[i] = s.wire[i],
         \A i \in 1..Len(u.wire) : i > Len(s.wire) =>
            /\ ReqInv(s, v, e, u.wire[i]) /\ ReqHost(s, h, u.wire[i])
            /\ Open(u.wire[i]) => ~u.wire[i].old
            /\ u.wire[i].k = "close" => s.item[u.wire[i].f].sink = None
            /\ \A j \in 1..Len(u.wire) : j < i =>
                  PairInv(u.wire[j], u.wire[i]) /\ PairNow(s, u.wire[j], u.wire[i]),
         \A f \in File : f \in X /\ f \notin Y =>
            /\ LatestOf(u, f) \/ (SendInv(s, f) /\ SinkInv(s, h, f))
            /\ \/ \E i \in 1..Len(u.wire) : u.wire[i].f = f /\ u.wire[i].k = "unlink"
               \/ HereInv(s, e, f)
  PROVE  Inv(u, h, v, e, Y)
<1> USE DEF Inv, Still
<1>0. s \in HubShape BY DEF HubInv
<1>a. Len(s.wire) \in Nat /\ Len(u.wire) \in Nat BY <1>0, HubParts
<1>1. GlobalInv(u, v, e) BY DEF HubInv, GlobalInv, Whole
<1>2. ASSUME NEW g \in File PROVE ItemInv(u, v, e, g) BY DEF HubInv, ItemInv, Named
<1>3. ASSUME NEW i \in 1..Len(u.wire) PROVE ReqInv(u, v, e, u.wire[i]) /\ ReqHost(u, h, u.wire[i])
 <2>1. ReqInv(s, v, e, u.wire[i]) /\ ReqHost(s, h, u.wire[i])
   BY <1>0, <1>a, HubParts DEF HubInv, HostInv
 <2> DEFINE r == u.wire[i]
 <2>5. r = u.wire[i] OBVIOUS
 <2> HIDE DEF r
 <2>2. LookInv(u, r) BY <2>1, <2>5 DEF ReqInv, LookInv
 <2>3. CutInv(u, v, r) /\ CreateInv(u, v, r) BY <2>1, <2>5 DEF ReqInv, CutInv, CreateInv
 <2>4. PlaceInv(u, e, r) /\ WriteInv(u, r) /\ OpenInv(u, r)
   BY <2>1, <2>5 DEF ReqInv, PlaceInv, WriteInv, OpenInv
 <2> QED BY <2>1, <2>2, <2>3, <2>4, <2>5 DEF ReqInv, ReqHost
<1>4. ASSUME NEW i \in 1..Len(u.wire), NEW j \in 1..Len(u.wire), i < j
      PROVE  PairInv(u.wire[i], u.wire[j]) /\ PairNow(u, u.wire[i], u.wire[j])
 <2>1. PairInv(u.wire[i], u.wire[j]) /\ PairNow(s, u.wire[i], u.wire[j])
  <3>1. CASE j > Len(s.wire) BY <1>4, <3>1
  <3>2. CASE j <= Len(s.wire)
   <4>1. i \in 1..Len(s.wire) /\ j \in 1..Len(s.wire) BY <1>4, <1>a, <3>2
   <4> QED BY <1>4, <4>1 DEF HubInv
  <3> QED BY <1>a, <3>1, <3>2
 <2> QED BY <2>1 DEF PairNow
<1>5. OldInv(u)
 <2> SUFFICES ASSUME NEW i \in 1..Len(u.wire), Open(u.wire[i]), u.wire[i].old
              PROVE  \E j \in 1..Len(u.wire) :
                       j > i /\ Latest(u.wire[j]) /\ u.wire[j].f = u.wire[i].f BY DEF OldInv
 <2>1. i \in 1..Len(s.wire) /\ u.wire[i] = s.wire[i] BY <1>a
 <2>2. PICK j \in 1..Len(s.wire) : j > i /\ Latest(s.wire[j]) /\ s.wire[j].f = s.wire[i].f
   BY <2>1 DEF HubInv, OldInv
 <2> QED BY <1>a, <2>1, <2>2
<1>6. ASSUME NEW g \in File \ Y PROVE SendInv(u, g) /\ HereInv(u, e, g) /\ SinkInv(u, h, g)
 <2>0. LatestOf(s, g) => LatestOf(u, g) BY <1>a DEF LatestOf
 <2>1. LatestOf(u, g) \/ (SendInv(s, g) /\ SinkInv(s, h, g)) BY DEF HubInv, HostInv
 <2>2. SendInv(u, g)
  <3>1. CASE LatestOf(u, g) BY <3>1 DEF SendInv
  <3>2. CASE ~LatestOf(u, g)
   <4> SUFFICES ASSUME s.item[g].state = "sending", s.item[g].sink # None
                PROVE  /\ s.item[g].temp = s.item[g].sink
                       /\ \A i \in 1..Len(u.wire) : ~(u.wire[i].f = g /\ u.wire[i].k = "close")
     BY DEF SendInv
   <4>1. /\ s.item[g].temp = s.item[g].sink
         /\ \A i \in 1..Len(s.wire) : ~(s.wire[i].f = g /\ s.wire[i].k = "close")
     BY <2>0, <2>1, <3>2 DEF SendInv
   <4>2. ASSUME NEW i \in 1..Len(u.wire) PROVE ~(u.wire[i].f = g /\ u.wire[i].k = "close")
     BY <1>a, <4>1
   <4> QED BY <4>1, <4>2
  <3> QED BY <3>1, <3>2
 <2>3. SinkInv(u, h, g) BY <2>0, <2>1 DEF SinkInv
 <2>4. HereInv(u, e, g)
  <3>1. CASE \E i \in 1..Len(u.wire) : u.wire[i].f = g /\ u.wire[i].k = "unlink" BY <3>1 DEF HereInv
  <3>2. CASE ~\E i \in 1..Len(u.wire) : u.wire[i].f = g /\ u.wire[i].k = "unlink"
   <4>1. HereInv(s, e, g) BY <3>2 DEF HubInv
   <4>2. ~\E i \in 1..Len(s.wire) : s.wire[i].f = g /\ s.wire[i].k = "unlink" BY <1>a, <3>2
   <4> QED BY <4>1, <4>2 DEF HereInv
  <3> QED BY <3>1, <3>2
 <2> QED BY <2>2, <2>3, <2>4
<1>7. HubInv(u, v, e, Y) BY <1>1, <1>2, <1>3, <1>4, <1>5, <1>6 DEF HubInv
<1>9. HostInv(u, h, v, e, 0, Y) BY <1>3, <1>6 DEF HostInv
<1> QED BY <1>7, <1>9

\* A step that sends one request.
LEMMA AskStep ==
  ASSUME NEW s, NEW h, NEW v, NEW e, NEW X, NEW Y, Inv(s, h, v, e, X),
         NEW r \in ReqShape, s.life # "none",
         ReqInv(s, v, e, r), ReqHost(s, h, r), Open(r) => ~r.old,
         r.k = "close" => s.item[r.f].sink = None,
         \A i \in 1..Len(s.wire) : PairInv(s.wire[i], r) /\ PairNow(s, s.wire[i], r),
         X \subseteq Y \cup {r.f},
         \/ r.f \in Y
         \/ r.f \notin X
         \/ /\ Latest(r) \/ (SendInv(s, r.f) /\ SinkInv(s, h, r.f))
            /\ r.k = "unlink" \/ HereInv(s, e, r.f)
  PROVE  Inv([s EXCEPT !.wire = Append(@, r)], h, v, e, Y)
<1> DEFINE u == [s EXCEPT !.wire = Append(@, r)]
<1>1. s \in HubShape BY DEF Inv, HubInv
<1>2. u \in HubShape
 <2>1. Append(s.wire, r) \in Seq(ReqShape) BY <1>1, HubParts
 <2> QED BY <1>1, <2>1 DEF HubShape
<1>3. Still(s, u) /\ u.item = s.item /\ u.wire = Append(s.wire, r) BY <1>1 DEF HubShape, Still
<1>4. s.wire \in Seq(ReqShape) /\ Len(s.wire) \in Nat BY <1>1, HubParts
<1> HIDE DEF u
<1>5. Len(u.wire) = Len(s.wire) + 1 /\ u.wire[Len(s.wire) + 1] = r
      /\ \A i \in 1..Len(s.wire) : u.wire[i] = s.wire[i] BY <1>3, <1>4
<1>6. ASSUME NEW i \in 1..Len(u.wire), i > Len(s.wire)
      PROVE  /\ ReqInv(s, v, e, u.wire[i]) /\ ReqHost(s, h, u.wire[i])
             /\ Open(u.wire[i]) => ~u.wire[i].old
             /\ u.wire[i].k = "close" => s.item[u.wire[i].f].sink = None
             /\ \A j \in 1..Len(u.wire) : j < i =>
                   PairInv(u.wire[j], u.wire[i]) /\ PairNow(s, u.wire[j], u.wire[i])
 <2>1. i = Len(s.wire) + 1 /\ u.wire[i] = r BY <1>4, <1>5, <1>6
 <2>2. ASSUME NEW j \in 1..Len(u.wire), j < i
       PROVE  PairInv(u.wire[j], u.wire[i]) /\ PairNow(s, u.wire[j], u.wire[i])
  <3>1. j \in 1..Len(s.wire) /\ u.wire[j] = s.wire[j] BY <1>4, <1>5, <2>1, <2>2
  <3> QED BY <2>1, <3>1
 <2> QED BY <2>1, <2>2
<1>7. ASSUME NEW f \in File, f \in X /\ f \notin Y
      PROVE  /\ LatestOf(u, f) \/ (SendInv(s, f) /\ SinkInv(s, h, f))
             /\ \/ \E i \in 1..Len(u.wire) : u.wire[i].f = f /\ u.wire[i].k = "unlink"
                \/ HereInv(s, e, f)
 <2>1. f = r.f BY <1>7
 <2>2. Len(u.wire) \in 1..Len(u.wire) /\ u.wire[Len(u.wire)] = r BY <1>4, <1>5
 <2>3. Latest(r) => LatestOf(u, f) BY <2>1, <2>2 DEF LatestOf
 <2> QED BY <1>7, <2>1, <2>2, <2>3
<1>8. Inv(u, h, v, e, Y)
 <2>1. Len(u.wire) >= Len(s.wire) BY <1>4, <1>5
 <2> QED BY <1>2, <1>3, <1>5, <1>6, <1>7, <2>1, Extend, Zenon
<1> QED BY <1>8 DEF u

\* A file a handler was at work on is like the others again.
LEMMA Release ==
  ASSUME NEW s, NEW h, NEW v, NEW e, NEW X, NEW Y, Inv(s, h, v, e, X),
         \A f \in File : f \in X /\ f \notin Y =>
            SendInv(s, f) /\ HereInv(s, e, f) /\ SinkInv(s, h, f)
  PROVE  Inv(s, h, v, e, Y) BY DEF Inv, HubInv, HostInv

------------------------------
\* What the small steps of the service change.

\* What is said soon and what is pumped changes nothing else.
LEMMA SettleParts ==
  ASSUME NEW s \in HubShape
  PROVE  /\ settle(s) \in HubShape /\ Same(s, settle(s))
         /\ schedulePump(s) \in HubShape /\ Same(s, schedulePump(s))
  BY DEF HubShape, Same, settle, schedulePump

\* Nor does the note of the host's last upload.
LEMMA NoteParts ==
  ASSUME NEW s \in HubShape PROVE noteHost(s) \in HubShape /\ Same(s, noteHost(s))
<1>1. (s.life = "kept" /\ isActive(s)) \in BOOLEAN BY DEF isActive
<1> QED BY <1>1 DEF HubShape, Same, noteHost

\* Over a link that is up, the connection can be taken.
LEMMA BackendParts ==
  ASSUME NEW s \in HubShape, s.link = "up"
  PROVE  backendOf(s) \in HubShape /\ Same(s, backendOf(s)) /\ backendOf(s).backend = "live"
  BY DEF HubShape, Same, backendOf

\* A file's item put in the record, with what is to be said and saved.
LEMMA PutParts ==
  ASSUME NEW s \in HubShape, NEW f \in File, NEW it \in ItemShape,
         NEW U \in SUBSET File, NEW D \in SUBSET File, NEW A \in SUBSET File
  PROVE  Changes(s, [s EXCEPT !.item = [@ EXCEPT ![f] = it], !.unsaved = U, !.dirty = D,
                              !.unsavedAcks = A], f, it)
<1>1. s.item \in [File -> ItemShape] BY HubParts
<1>2. [s.item EXCEPT ![f] = it] \in [File -> ItemShape] BY <1>1
<1>3. \A g \in File : g # f => [s.item EXCEPT ![f] = it][g] = s.item[g] BY <1>1
<1>4. [s.item EXCEPT ![f] = it][f] = it BY <1>1
<1> DEFINE m == [s.item EXCEPT ![f] = it]
<1> HIDE DEF m
<1>5. [s EXCEPT !.item = m, !.unsaved = U, !.dirty = D, !.unsavedAcks = A] \in HubShape
  BY <1>2 DEF HubShape, m
<1> QED BY <1>3, <1>4, <1>5 DEF Changes, Still, HubShape, m

\* setState changes the state of its file.
LEMMA SetStateParts ==
  ASSUME NEW s \in HubShape, NEW f \in File, NEW st \in State
  PROVE  Changes(s, setState(s, f, st), f,
                 [s.item[f] EXCEPT !.state = st])
<1> DEFINE it == [s.item[f] EXCEPT !.state = st]
<1> DEFINE U == s.unsaved \cup {f}
<1> DEFINE D == s.dirty \cup {f}
<1> DEFINE A == s.unsavedAcks
<1>0. /\ s.item \in [File -> ItemShape] /\ s.unsaved \subseteq File
      /\ s.dirty \subseteq File /\ s.unsavedAcks \subseteq File BY HubParts
<1>1. s.item[f] \in ItemShape BY <1>0
<1>2. it \in ItemShape BY <1>1 DEF ItemShape, State, None, Unsettled
<1>3. U \in SUBSET File /\ D \in SUBSET File /\ A \in SUBSET File BY <1>0
<1>4. setState(s, f, st)
        = [s EXCEPT !.item = [@ EXCEPT ![f] = it], !.unsaved = U, !.dirty = D, !.unsavedAcks = A]
  BY <1>0 DEF setState, HubShape
<1> HIDE DEF it, U, D, A
<1>5. Changes(s, [s EXCEPT !.item = [@ EXCEPT ![f] = it], !.unsaved = U, !.dirty = D,
                          !.unsavedAcks = A], f, it) BY <1>2, <1>3, PutParts, Zenon
<1>6. Changes(s, setState(s, f, st), f, it) BY <1>4, <1>5
<1> QED BY <1>6 DEF it

\* A file that stops gets a state and loses its sink.
LEMMA StopParts ==
  ASSUME NEW s \in HubShape, NEW f \in File, NEW st \in State
  PROVE  Changes(s, [setState(s, f, st) EXCEPT !.item[f].sink = None], f,
                 [s.item[f] EXCEPT !.state = st, !.sink = None])
<1> DEFINE it == [s.item[f] EXCEPT !.state = st, !.sink = None]
<1> DEFINE U == s.unsaved \cup {f}
<1> DEFINE D == s.dirty \cup {f}
<1> DEFINE A == s.unsavedAcks
<1>0. /\ s.item \in [File -> ItemShape] /\ s.unsaved \subseteq File
      /\ s.dirty \subseteq File /\ s.unsavedAcks \subseteq File BY HubParts
<1>1. s.item[f] \in ItemShape BY <1>0
<1>2. it \in ItemShape BY <1>1 DEF ItemShape, State, None, Unsettled
<1>3. U \in SUBSET File /\ D \in SUBSET File /\ A \in SUBSET File BY <1>0
<1>4. [setState(s, f, st) EXCEPT !.item[f].sink = None]
        = [s EXCEPT !.item = [@ EXCEPT ![f] = it], !.unsaved = U, !.dirty = D, !.unsavedAcks = A]
  BY <1>0 DEF setState, HubShape
<1> HIDE DEF it, U, D, A
<1>5. Changes(s, [s EXCEPT !.item = [@ EXCEPT ![f] = it], !.unsaved = U, !.dirty = D,
                          !.unsavedAcks = A], f, it) BY <1>2, <1>3, PutParts, Zenon
<1>6. Changes(s, [setState(s, f, st) EXCEPT !.item[f].sink = None], f, it) BY <1>4, <1>5
<1> QED BY <1>6 DEF it

\* restartFile forgets the temporary and what it held.
LEMMA RestartParts ==
  ASSUME NEW s \in HubShape, NEW f \in File
  PROVE  Changes(s, restartFile(s, f), f,
                 [s.item[f] EXCEPT !.acked = 0, !.temp = None, !.whole = FALSE])
<1> DEFINE it == [s.item[f] EXCEPT !.acked = 0, !.temp = None, !.whole = FALSE]
<1> DEFINE U == s.unsaved \cup {f}
<1> DEFINE D == IF s.item[f].acked > 0 THEN s.dirty \cup {f} ELSE s.dirty
<1> DEFINE A == s.unsavedAcks
<1>0. /\ s.item \in [File -> ItemShape] /\ s.unsaved \subseteq File
      /\ s.dirty \subseteq File /\ s.unsavedAcks \subseteq File BY HubParts
<1>1. s.item[f] \in ItemShape BY <1>0
<1>2. it \in ItemShape BY <1>1 DEF ItemShape, State, None, Unsettled
<1>3. U \in SUBSET File /\ D \in SUBSET File /\ A \in SUBSET File BY <1>0
<1>4. restartFile(s, f)
        = [s EXCEPT !.item = [@ EXCEPT ![f] = it], !.unsaved = U, !.dirty = D, !.unsavedAcks = A]
 <2> DEFINE I == [s.item EXCEPT ![f].acked = 0, ![f].temp = None, ![f].whole = FALSE]
 <2>1. I = [s.item EXCEPT ![f] = it] BY <1>0
 <2>2. restartFile(s, f) = [s EXCEPT !.item = I, !.unsaved = U, !.dirty = D]
   BY DEF restartFile, HubShape
 <2> HIDE DEF I, it, U, D
 <2> QED BY <2>1, <2>2 DEF HubShape, A
<1> HIDE DEF it, U, D, A
<1>5. Changes(s, [s EXCEPT !.item = [@ EXCEPT ![f] = it], !.unsaved = U, !.dirty = D,
                          !.unsavedAcks = A], f, it) BY <1>2, <1>3, PutParts, Zenon
<1>6. Changes(s, restartFile(s, f), f, it) BY <1>4, <1>5
<1> QED BY <1>6 DEF it

\* Two changes of one file are one.
LEMMA ChangesTwice ==
  ASSUME NEW s, NEW u, NEW w, NEW f, NEW it, NEW jt,
         Changes(s, u, f, it), Changes(u, w, f, jt)
  PROVE  Changes(s, w, f, jt) BY DEF Changes, Still

------------------------------
\* The host.

\* What a request does to the host's files.
LEMMA DoneParts ==
  ASSUME NEW h \in HostShape, NEW r \in ReqShape, r.t \in Temp,
         r.k = "write" => r.n \in Chunks
  PROVE  /\ Done(h, r) \in HostShape
         /\ Done(h, r).linked \subseteq h.linked \cup {r.t}
         /\ r.k # "create" => Done(h, r).linked \subseteq h.linked
         /\ h.linked \subseteq Done(h, r).linked \cup {r.t}
         /\ r.k \notin Removes => h.linked \subseteq Done(h, r).linked
         /\ \A t \in Temp : t # r.t \/ r.k \notin {"cut", "lookcut", "create"}
               => h.bytes[t] \subseteq Done(h, r).bytes[t]
         /\ r.k \in {"cut", "lookcut"}
               => {c \in h.bytes[r.t] : c < r.n} \subseteq Done(h, r).bytes[r.t]
         /\ \A f \in File : Done(h, r).placed[f] =
               IF f = r.f /\ Puts(h, r) THEN h.placed[f] \cup {h.bytes[r.t]} ELSE h.placed[f]
<1>0. /\ h.linked \in SUBSET Temp /\ h.bytes \in [Temp -> SUBSET Chunks]
      /\ h.target \in [File -> {"free", "theirs", "ours"}] /\ h.copies \in [File -> Nat]
      /\ h.placed \in [File -> SUBSET SUBSET Chunks] BY DEF HostShape
<1>a. r.k \in Kinds /\ r.f \in File /\ r.n \in Nat BY ReqParts
<1>1. CASE r.k \in {"cut", "lookcut"}
 <2> DEFINE B == [h.bytes EXCEPT ![r.t] = IF r.t \in h.linked THEN {c \in @ : c < r.n} ELSE @]
 <2>1. Done(h, r) = [h EXCEPT !.bytes = B] BY <1>1 DEF Done
 <2>2. B \in [Temp -> SUBSET Chunks] BY <1>0
 <2>3. (\A t \in Temp : t # r.t => B[t] = h.bytes[t]) /\ {c \in h.bytes[r.t] : c < r.n} \subseteq B[r.t]
   BY <1>0
 <2> HIDE DEF B
 <2>4. Done(h, r) \in HostShape BY <2>1, <2>2 DEF HostShape
 <2>5. /\ Done(h, r).linked = h.linked /\ Done(h, r).bytes = B /\ Done(h, r).placed = h.placed
   BY <2>1 DEF HostShape
 <2> QED BY <1>1, <2>3, <2>4, <2>5 DEF Puts
<1>2. CASE r.k \in {"clear", "lookclear", "remove", "purge", "unlink"}
 <2>1. Done(h, r) = [h EXCEPT !.linked = @ \ {r.t}] BY <1>2 DEF Done
 <2>4. Done(h, r) \in HostShape BY <2>1, <1>0 DEF HostShape
 <2>5. /\ Done(h, r).linked = h.linked \ {r.t} /\ Done(h, r).bytes = h.bytes
       /\ Done(h, r).placed = h.placed BY <2>1 DEF HostShape
 <2> QED BY <1>2, <2>4, <2>5 DEF Puts, Removes
<1>3. CASE r.k = "create" /\ r.t \notin h.linked
 <2> DEFINE B == [h.bytes EXCEPT ![r.t] = {}]
 <2>1. Done(h, r) = [h EXCEPT !.linked = @ \cup {r.t}, !.bytes = B] BY <1>3 DEF Done
 <2>2. B \in [Temp -> SUBSET Chunks] /\ \A t \in Temp : t # r.t => B[t] = h.bytes[t] BY <1>0
 <2>3. h.linked \cup {r.t} \in SUBSET Temp BY <1>0
 <2> HIDE DEF B
 <2>4. Done(h, r) \in HostShape BY <2>1, <2>2, <2>3 DEF HostShape
 <2>5. /\ Done(h, r).linked = h.linked \cup {r.t} /\ Done(h, r).bytes = B
       /\ Done(h, r).placed = h.placed BY <2>1 DEF HostShape
 <2> QED BY <1>3, <2>2, <2>4, <2>5 DEF Puts, Removes
<1>4. CASE r.k = "write"
 <2> DEFINE B == [h.bytes EXCEPT ![r.t] = @ \cup {r.n}]
 <2>1. Done(h, r) = [h EXCEPT !.bytes = B] BY <1>4 DEF Done
 <2>2. B \in [Temp -> SUBSET Chunks] /\ \A t \in Temp : h.bytes[t] \subseteq B[t] BY <1>0, <1>4
 <2> HIDE DEF B
 <2>4. Done(h, r) \in HostShape BY <2>1, <2>2 DEF HostShape
 <2>5. /\ Done(h, r).linked = h.linked /\ Done(h, r).bytes = B /\ Done(h, r).placed = h.placed
   BY <2>1 DEF HostShape
 <2> QED BY <1>4, <2>2, <2>4, <2>5 DEF Puts, Removes
<1>5. CASE r.k = "link" /\ Links(h, r)
 <2> DEFINE T == [h.target EXCEPT ![r.f] = IF r.n = 0 THEN "ours" ELSE @]
 <2> DEFINE C == [h.copies EXCEPT ![r.f] = @ + r.n]
 <2> DEFINE P == [h.placed EXCEPT ![r.f] = @ \cup {h.bytes[r.t]}]
 <2>1. Done(h, r) = [h EXCEPT !.target = T, !.copies = C, !.placed = P] BY <1>5 DEF Done
 <2>2. /\ T \in [File -> {"free", "theirs", "ours"}] /\ C \in [File -> Nat]
       /\ P \in [File -> SUBSET SUBSET Chunks] BY <1>0, <1>a
 <2>3. \A f \in File : P[f] = IF f = r.f THEN h.placed[f] \cup {h.bytes[r.t]} ELSE h.placed[f]
   BY <1>0, <1>a
 <2> HIDE DEF T, C, P
 <2>4. Done(h, r) \in HostShape BY <2>1, <2>2 DEF HostShape
 <2>5. /\ Done(h, r).linked = h.linked /\ Done(h, r).bytes = h.bytes /\ Done(h, r).placed = P
   BY <2>1 DEF HostShape
 <2> QED BY <1>5, <2>3, <2>4, <2>5 DEF Puts, Removes
<1>6. CASE r.k = "rename" /\ r.t \in h.linked
 <2> DEFINE T == [h.target EXCEPT ![r.f] = "ours"]
 <2> DEFINE P == [h.placed EXCEPT ![r.f] = @ \cup {h.bytes[r.t]}]
 <2>1. Done(h, r) = [h EXCEPT !.target = T, !.linked = @ \ {r.t}, !.placed = P] BY <1>6 DEF Done
 <2>2. /\ T \in [File -> {"free", "theirs", "ours"}]
       /\ P \in [File -> SUBSET SUBSET Chunks] BY <1>0, <1>a
 <2>3. \A f \in File : P[f] = IF f = r.f THEN h.placed[f] \cup {h.bytes[r.t]} ELSE h.placed[f]
   BY <1>0, <1>a
 <2> HIDE DEF T, P
 <2>4. Done(h, r) \in HostShape BY <1>0, <2>1, <2>2 DEF HostShape
 <2>5. /\ Done(h, r).linked = h.linked \ {r.t} /\ Done(h, r).bytes = h.bytes
       /\ Done(h, r).placed = P BY <2>1 DEF HostShape
 <2> QED BY <1>6, <2>3, <2>4, <2>5 DEF Puts, Removes
<1>7. CASE /\ r.k \notin {"cut", "lookcut", "clear", "lookclear", "remove", "purge", "unlink", "write"}
           /\ ~(r.k = "create" /\ r.t \notin h.linked) /\ ~Puts(h, r)
 <2>1. Done(h, r) = h BY <1>7 DEF Done, Puts
 <2> QED BY <1>7, <2>1
<1> QED BY <1>1, <1>2, <1>3, <1>4, <1>5, <1>6, <1>7 DEF Puts

\* What the hub and meta.db hold stays right when a file is put under a name.
LEMMA MoreHere ==
  ASSUME NEW s, NEW h, NEW v, NEW e, NEW X, NEW Y, NEW r, HubInv(s, v, e, X), r.f \in File,
         X \subseteq Y, e.broken \/ ~Puts(h, r) \/ r.f \in Y, s.life # "none"
  PROVE  HubInv(s, v, EnvAfter(e, h, r), Y)
<1>1. CASE ~Puts(h, r) BY <1>1 DEF EnvAfter, HubInv
<1>2. CASE Puts(h, r)
 <2> DEFINE d == EnvAfter(e, h, r)
 <2>0. e \in Env BY DEF HubInv
 <2>1. d \in Env /\ d.own = e.own /\ d.here = e.here \cup {r.f} /\ d.asked = e.asked
       /\ d.broken = e.broken BY <1>2, <2>0 DEF EnvAfter, Env
 <2> HIDE DEF d
 <2>2. \A f \in File : ItemInv(s, v, d, f) BY <2>1 DEF HubInv, ItemInv, Named
 <2>3. GlobalInv(s, v, d) BY <2>1 DEF HubInv, GlobalInv
 <2>4. \A i \in 1..Len(s.wire) : ReqInv(s, v, d, s.wire[i])
  <3> SUFFICES ASSUME NEW i \in 1..Len(s.wire) PROVE ReqInv(s, v, d, s.wire[i]) OBVIOUS
  <3>1. ReqInv(s, v, e, s.wire[i]) BY DEF HubInv
  <3> QED BY <2>1, <3>1 DEF ReqInv, PlaceInv
 <2>5. \A f \in File \ Y : SendInv(s, f) /\ HereInv(s, d, f) BY <1>2, <2>1 DEF HubInv, HereInv
 <2> QED BY <2>1, <2>2, <2>3, <2>4, <2>5 DEF HubInv, d
<1> QED BY <1>1, <1>2

\* What the host holds stays right when it does the next request.
LEMMA HostStep ==
  ASSUME NEW s, NEW h, NEW v, NEW e, NEW m \in Nat, m < Len(s.wire), s.named <= MaxTemp,
         HubInv(s, v, e, {}), HostInv(s, h, v, e, m, {})
  PROVE  HostInv(s, Done(h, s.wire[m + 1]), v, EnvAfter(e, h, s.wire[m + 1]), m + 1, {})
<1> DEFINE r == s.wire[m + 1]
           D == Done(h, r)
           d == EnvAfter(e, h, r)
<1>0. s \in HubShape /\ v \in RowShape /\ e \in Env /\ h \in HostShape BY DEF HubInv, HostInv
<1>1. /\ Len(s.wire) \in Nat /\ m + 1 \in 1..Len(s.wire) /\ s.named \in Nat
      /\ s.item \in [File -> ItemShape] /\ \A i \in 1..Len(s.wire) : s.wire[i] \in ReqShape
  BY <1>0, HubParts
<1>2. r \in ReqShape BY <1>1
<1>3. r.k \in Kinds /\ r.f \in File /\ r.t \in Nat /\ r.n \in Nat BY <1>2, ReqParts
<1>4. ReqInv(s, v, e, r) /\ ReqHost(s, h, r) BY <1>1 DEF HubInv, HostInv
<1>5. r.t \in 1..s.named /\ r.t \in Temp /\ (r.k # "purge" => e.own[r.t] = r.f)
  BY <1>1, <1>3, <1>4, ConstantsAssumption DEF ReqInv, Temp
<1>6. r.k = "write" => r.n \in Chunks
  BY <1>3, <1>4, ConstantsAssumption DEF ReqInv, WriteInv, Chunks
<1>7. ASSUME NEW i \in 1..Len(s.wire), i > m + 1
      PROVE  PairInv(r, s.wire[i]) /\ ReqHost(s, h, s.wire[i]) /\ ReqInv(s, v, e, s.wire[i])
 <2>1. m + 1 < i /\ i > m BY <1>1, <1>7
 <2> QED BY <1>1, <1>7, <2>1 DEF HubInv, HostInv
<1> HIDE DEF r
<1>8. /\ D \in HostShape /\ D.linked \subseteq h.linked \cup {r.t}
      /\ r.k # "create" => D.linked \subseteq h.linked
      /\ h.linked \subseteq D.linked \cup {r.t}
      /\ r.k \notin Removes => h.linked \subseteq D.linked
      /\ \A t \in Temp : t # r.t \/ r.k \notin {"cut", "lookcut", "create"}
            => h.bytes[t] \subseteq D.bytes[t]
      /\ r.k \in {"cut", "lookcut"}
            => {c \in h.bytes[r.t] : c < r.n} \subseteq D.bytes[r.t]
      /\ \A f \in File : D.placed[f] =
            IF f = r.f /\ Puts(h, r) THEN h.placed[f] \cup {h.bytes[r.t]} ELSE h.placed[f]
  BY <1>0, <1>2, <1>5, <1>6, DoneParts
<1> HIDE DEF D
<1>9. D.linked \subseteq 1..s.named BY <1>5, <1>8 DEF HostInv
<1>10. ASSUME NEW it, NEW f \in File, it.temp \in Nat, it.acked \in Nat, Prefix(h, it),
              Named(s, e, f, it.temp),
              r.k \in {"cut", "lookcut"} /\ r.f = f /\ it.temp = r.t => it.acked <= r.n,
              r.k = "create" /\ r.f = f /\ it.temp = r.t => it.acked = 0
       PROVE  Prefix(D, it)
 <2> SUFFICES ASSUME it.temp \in D.linked, NEW c \in 0..(it.acked - 1)
              PROVE  c \in D.bytes[it.temp] BY DEF Prefix
 <2>1. it.temp \in Temp /\ it.temp # None BY <1>8 DEF HostShape, Temp, None
 <2>2. CASE it.temp # r.t
  <3>1. it.temp \in h.linked BY <1>8, <2>2
  <3> QED BY <1>8, <1>10, <2>1, <2>2, <3>1 DEF Prefix
 <2>3. CASE it.temp = r.t /\ r.k = "create"
  <3>1. r.f = f BY <1>5, <1>10, <2>1, <2>3 DEF Named
  <3> QED BY <1>10, <2>3, <3>1
 <2>4. CASE it.temp = r.t /\ r.k \in {"cut", "lookcut"}
  <3>1. r.f = f BY <1>5, <1>10, <2>1, <2>4 DEF Named
  <3>2. it.temp \in h.linked BY <1>8, <2>4
  <3>3. c \in h.bytes[r.t] /\ c < r.n BY <1>3, <1>10, <2>4, <3>1, <3>2 DEF Prefix
  <3> QED BY <1>8, <2>4, <3>3
 <2>5. CASE it.temp = r.t /\ r.k \notin {"cut", "lookcut", "create"}
  <3>1. it.temp \in h.linked BY <1>8, <2>5
  <3> QED BY <1>8, <1>10, <2>1, <2>5, <3>1 DEF Prefix
 <2> QED BY <2>2, <2>3, <2>4, <2>5
<1>11. ASSUME NEW f \in File PROVE Prefix(D, s.item[f]) /\ Prefix(D, v.item[f])
 <2>1. s.item[f] \in ItemShape /\ v.item[f] \in ItemShape BY <1>0, <1>1 DEF RowShape
 <2>2. /\ s.item[f].temp \in Nat /\ s.item[f].acked \in Nat
       /\ v.item[f].temp \in Nat /\ v.item[f].acked \in Nat BY <2>1, ItemParts
 <2>3. /\ Named(s, e, f, s.item[f].temp) /\ Named(s, e, f, v.item[f].temp)
       /\ Prefix(h, s.item[f]) /\ Prefix(h, v.item[f]) BY DEF HubInv, HostInv, ItemInv
 <2>4. Prefix(D, s.item[f])
  <3>1. r.k \in {"cut", "lookcut"} /\ r.f = f /\ s.item[f].temp = r.t => s.item[f].acked <= r.n
    BY <1>4 DEF ReqInv, CutInv
  <3>2. r.k = "create" /\ r.f = f /\ s.item[f].temp = r.t => s.item[f].acked = 0
    BY <1>4 DEF ReqInv, CreateInv
  <3> QED BY <1>10, <2>2, <2>3, <3>1, <3>2
 <2>5. Prefix(D, v.item[f])
  <3>1. r.k \in {"cut", "lookcut"} /\ r.f = f /\ v.item[f].temp = r.t => v.item[f].acked <= r.n
    BY <1>4 DEF ReqInv, CutInv
  <3>2. r.k = "create" /\ r.f = f /\ v.item[f].temp = r.t => v.item[f].acked = 0
    BY <1>4 DEF ReqInv, CreateInv
  <3> QED BY <1>10, <2>2, <2>3, <3>1, <3>2
 <2> QED BY <2>4, <2>5
<1>12. ASSUME NEW i \in 1..Len(s.wire), i > m + 1 PROVE ReqHost(s, D, s.wire[i])
 <2> DEFINE q == s.wire[i]
 <2>1. PairInv(r, q) /\ ReqHost(s, h, q) /\ ReqInv(s, v, e, q) BY <1>7, <1>12
 <2> HIDE DEF q
 <2>2. q.k = "create" => q.t \notin D.linked BY <1>8, <2>1 DEF ReqHost, PairInv
 <2>3. ASSUME Place(q), s.item[q.f].temp = None, q.t \in D.linked PROVE D.bytes[q.t] = Chunks
  <3>1. q.t = r.t => r.k \notin {"cut", "lookcut", "create"}
   <4> SUFFICES ASSUME q.t = r.t, r.k \in {"cut", "lookcut", "create"} PROVE FALSE OBVIOUS
   <4>1. q.k # "purge" /\ q.f = r.f BY <1>5, <2>1, <2>3 DEF ReqInv, Place, PlaceKinds
   <4> QED BY <2>1, <2>3, <4>1 DEF PairInv, Apart, Open, OpenKinds
  <3>2. q.t \in h.linked BY <1>8, <2>3, <3>1
  <3>3. h.bytes[q.t] = Chunks /\ q.t \in Temp
    BY <1>0, <2>1, <2>3, <3>2 DEF ReqHost, FullAt, HostShape
  <3>4. h.bytes[q.t] \subseteq D.bytes[q.t] BY <1>8, <3>1, <3>3
  <3>5. D.bytes[q.t] \subseteq Chunks BY <1>8, <3>3 DEF HostShape
  <3> QED BY <3>3, <3>4, <3>5
 <2> QED BY <2>2, <2>3 DEF ReqHost, FullAt, q
<1>13. ASSUME NEW f \in File PROVE SinkInv(s, D, f)
 <2> SUFFICES ASSUME s.item[f].state = "sending", s.item[f].sink # None, ~LatestOf(s, f)
              PROVE  s.item[f].sink \in D.linked BY DEF SinkInv
 <2>1. s.item[f].sink \in h.linked BY DEF HostInv, SinkInv
 <2>2. s.item[f].temp = s.item[f].sink /\ Named(s, e, f, s.item[f].temp)
       /\ s.life = "kept" BY DEF HubInv, SendInv, ItemInv
 <2>3. CASE s.item[f].sink # r.t \/ r.k \notin Removes BY <1>8, <2>1, <2>3
 <2>4. CASE s.item[f].sink = r.t /\ r.k \in Removes
  <3>1. r.k # "purge" BY <1>4, <2>2 DEF ReqInv
  <3>2. r.f = f BY <1>5, <2>2, <2>4, <3>1 DEF Named
  <3>3. r.k # "remove" BY <1>4, <2>2, <2>4, <3>2 DEF ReqInv
  <3>4. ~Place(r) BY <1>4, <2>2, <3>2 DEF ReqInv, PlaceInv
  <3>5. ~LookAt(r) BY <1>4, <3>2 DEF ReqInv, LookInv
  <3>6. r.k = "clear"
    BY <2>4, <3>1, <3>3, <3>4, <3>5 DEF Removes, Place, PlaceKinds, LookAt, LookKinds
  <3>7. CASE ~r.old BY <1>1, <3>2, <3>6, <3>7 DEF LatestOf, Latest, OpenKinds, r
  <3>8. CASE r.old BY <1>4, <3>6, <3>8 DEF ReqInv, OpenInv, Open, OpenKinds
  <3> QED BY <3>7, <3>8
 <2> QED BY <2>3, <2>4
<1>14. Puts(h, r) => h.bytes[r.t] = Chunks
 <2> SUFFICES ASSUME Puts(h, r) PROVE h.bytes[r.t] = Chunks OBVIOUS
 <2>1. Place(r) /\ r.t \in h.linked BY DEF Puts, Links, Place, PlaceKinds
 <2>2. CASE s.item[r.f].temp = None BY <1>4, <2>1, <2>2 DEF ReqHost, FullAt
 <2>3. CASE s.item[r.f].temp # None
  <3>1. s.item[r.f].temp = r.t /\ s.item[r.f].acked = Size BY <1>4, <2>1, <2>3 DEF ReqInv, PlaceInv
  <3>2. 0..(Size - 1) \subseteq h.bytes[r.t] BY <1>3, <2>1, <3>1 DEF HostInv, Prefix
  <3> QED BY <1>0, <1>5, <3>2 DEF Chunks, HostShape
 <2> QED BY <2>2, <2>3
<1>15. ASSUME NEW f \in File PROVE D.placed[f] \subseteq {Chunks} /\ (D.placed[f] # {} <=> f \in d.here)
 <2>1. h.placed[f] \subseteq {Chunks} /\ (h.placed[f] # {} <=> f \in e.here) BY DEF HostInv
 <2>2. d.here = IF Puts(h, r) THEN e.here \cup {r.f} ELSE e.here BY <1>0 DEF EnvAfter, Env
 <2> QED BY <1>8, <1>14, <2>1, <2>2
<1>16. \A f \in File \ {} : SinkInv(s, D, f) BY <1>13
<1> HIDE DEF d
<1>17. HostInv(s, D, v, d, m + 1, {}) BY <1>8, <1>9, <1>11, <1>12, <1>15, <1>16 DEF HostInv
<1> QED BY <1>17 DEF D, d, r

------------------------------
\* Answers.

\* What is so of a request depends on no other request.
LEMMA ReqSame ==
  ASSUME NEW s, NEW u, NEW h, NEW v, NEW e, NEW r, Still(s, u), u.item = s.item
  PROVE  /\ ReqInv(s, v, e, r) => ReqInv(u, v, e, r)
         /\ ReqHost(s, h, r) => ReqHost(u, h, r)
<1> USE DEF Still
<1>1. ASSUME ReqInv(s, v, e, r) PROVE ReqInv(u, v, e, r)
 <2>2. LookInv(u, r) BY <1>1 DEF ReqInv, LookInv
 <2>3. CutInv(u, v, r) /\ CreateInv(u, v, r) BY <1>1 DEF ReqInv, CutInv, CreateInv
 <2>4. PlaceInv(u, e, r) /\ WriteInv(u, r) /\ OpenInv(u, r)
   BY <1>1 DEF ReqInv, PlaceInv, WriteInv, OpenInv
 <2> QED BY <1>1, <2>2, <2>3, <2>4 DEF ReqInv
<1> QED BY <1>1 DEF ReqHost

\* The first request leaves the wire, done or refused.
LEMMA DropHead ==
  ASSUME NEW s, NEW h, NEW v, NEW e, s.wire # <<>>,
         HubInv(s, v, e, {Head(s.wire).f}), HostInv(s, h, v, e, 1, {}),
         SendInv(s, Head(s.wire).f),
         Head(s.wire).k \notin {"link", "rename"} => HereInv(s, e, Head(s.wire).f)
  PROVE  /\ Taken([s EXCEPT !.wire = Tail(@)], h, v, e, Head(s.wire))
         /\ Still(s, [s EXCEPT !.wire = Tail(@)])
         /\ [s EXCEPT !.wire = Tail(@)].item = s.item
         /\ Head(s.wire).k # "unlink" /\ HereInv(s, e, Head(s.wire).f)
               => HereInv([s EXCEPT !.wire = Tail(@)], e, Head(s.wire).f)
<1> DEFINE u == [s EXCEPT !.wire = Tail(@)]
           r == Head(s.wire)
<1>0. s \in HubShape BY DEF HubInv
<1>1. /\ s.wire \in Seq(ReqShape) /\ Len(s.wire) \in Nat
      /\ \A i \in 1..Len(s.wire) : s.wire[i] \in ReqShape BY <1>0, HubParts
<1>2. Tail(s.wire) \in Seq(ReqShape) /\ Len(Tail(s.wire)) = Len(s.wire) - 1
      /\ \A i \in 1..(Len(s.wire) - 1) : Tail(s.wire)[i] = s.wire[i + 1] BY <1>1
<1>b. Len(s.wire) >= 1 /\ s.wire[1] = r BY <1>1
<1>3. u \in HubShape BY <1>0, <1>2 DEF HubShape
<1>4. Still(s, u) /\ u.item = s.item /\ u.wire = Tail(s.wire) BY <1>0 DEF HubShape, Still
<1>5. r \in ReqShape /\ r.f \in File /\ r.k \in Kinds BY <1>1, <1>b, ReqParts
<1> HIDE DEF u, r
<1>6. /\ Len(u.wire) \in Nat /\ Len(u.wire) + 1 = Len(s.wire)
      /\ \A i \in 1..Len(u.wire) : i + 1 \in 1..Len(s.wire) /\ u.wire[i] = s.wire[i + 1]
  BY <1>1, <1>2, <1>4
<1>7. 1 \in 1..Len(s.wire) /\ s.wire[1] = r BY <1>1, <1>b
<1>8. ASSUME NEW i \in 1..Len(u.wire) PROVE ReqInv(u, v, e, u.wire[i]) /\ ReqHost(u, h, u.wire[i])
 <2>1. ReqInv(s, v, e, u.wire[i]) BY <1>6 DEF HubInv
 <2>2. ReqHost(s, h, u.wire[i]) BY <1>6 DEF HostInv
 <2> QED BY <1>4, <2>1, <2>2, ReqSame
<1>9. ASSUME NEW i \in 1..Len(u.wire), NEW j \in 1..Len(u.wire), i < j
      PROVE  PairInv(u.wire[i], u.wire[j]) /\ PairNow(u, u.wire[i], u.wire[j])
 <2>1. i + 1 < j + 1 BY <1>6, <1>9
 <2>2. PairInv(u.wire[i], u.wire[j]) /\ PairNow(s, u.wire[i], u.wire[j]) BY <1>6, <2>1 DEF HubInv
 <2> QED BY <1>4, <2>2 DEF PairNow
<1>10. ASSUME NEW i \in 1..Len(u.wire) PROVE PairInv(r, u.wire[i]) /\ PairNow(u, r, u.wire[i])
 <2>1. 1 < i + 1 BY <1>6
 <2>2. PairInv(r, u.wire[i]) /\ PairNow(s, r, u.wire[i]) BY <1>2, <1>6, <1>7, <2>1 DEF HubInv
 <2> QED BY <1>4, <2>2 DEF PairNow
<1>11. ASSUME NEW j \in 1..Len(s.wire), j > 1 PROVE j - 1 \in 1..Len(u.wire) /\ u.wire[j - 1] = s.wire[j]
 <2>1. j - 1 \in 1..Len(u.wire) /\ (j - 1) + 1 = j BY <1>1, <1>6, <1>11
 <2> QED BY <1>6, <2>1
<1>12. OldInv(u)
 <2> SUFFICES ASSUME NEW i \in 1..Len(u.wire), Open(u.wire[i]), u.wire[i].old
              PROVE  \E j \in 1..Len(u.wire) :
                       j > i /\ Latest(u.wire[j]) /\ u.wire[j].f = u.wire[i].f BY DEF OldInv
 <2>2. PICK j \in 1..Len(s.wire) : j > i + 1 /\ Latest(s.wire[j]) /\ s.wire[j].f = s.wire[i + 1].f
   BY <1>6 DEF HubInv, OldInv
 <2>3. j > 1 /\ j - 1 > i BY <1>6, <2>2
 <2>4. j - 1 \in 1..Len(u.wire) /\ u.wire[j - 1] = s.wire[j] /\ u.wire[i] = s.wire[i + 1]
   BY <1>6, <1>11, <2>3
 <2> QED BY <2>2, <2>3, <2>4
<1>13. ASSUME NEW g \in File, g # r.f \/ ~Latest(r) PROVE LatestOf(s, g) => LatestOf(u, g)
 <2> SUFFICES ASSUME NEW j \in 1..Len(s.wire), Latest(s.wire[j]), s.wire[j].f = g
              PROVE  LatestOf(u, g) BY DEF LatestOf
 <2>1. j # 1 BY <1>7, <1>13
 <2>2. j > 1 BY <1>1, <2>1
 <2> QED BY <1>11, <2>2 DEF LatestOf
<1>14. ASSUME NEW g \in File, g # r.f \/ ~Latest(r), SendInv(s, g), SinkInv(s, h, g)
       PROVE  SendInv(u, g) /\ SinkInv(u, h, g)
 <2>1. LatestOf(s, g) => LatestOf(u, g) BY <1>13, <1>14
 <2>2. SendInv(u, g) BY <1>4, <1>6, <1>14, <2>1 DEF SendInv
 <2> QED BY <1>4, <1>14, <2>1, <2>2 DEF SinkInv
<1>15. ASSUME NEW g \in File, g # r.f \/ r.k # "unlink", HereInv(s, e, g) PROVE HereInv(u, e, g)
 <2>1. ASSUME NEW j \in 1..Len(s.wire), s.wire[j].f = g, s.wire[j].k = "unlink"
       PROVE  \E i \in 1..Len(u.wire) : u.wire[i].f = g /\ u.wire[i].k = "unlink"
  <3>1. j > 1 BY <1>1, <1>7, <1>15, <2>1
  <3> QED BY <1>11, <2>1, <3>1
 <2> QED BY <1>4, <1>15, <2>1 DEF HereInv, Still
<1>16. ASSUME NEW g \in File PROVE SinkInv(s, h, g) BY DEF HostInv
<1>17. ASSUME NEW g \in File \ {r.f} PROVE SendInv(u, g) /\ HereInv(u, e, g) /\ SinkInv(u, h, g)
 <2>1. SendInv(s, g) /\ HereInv(s, e, g) BY DEF HubInv, r
 <2> QED BY <1>14, <1>15, <1>16, <2>1
<1>18. s.life # "none" BY DEF HubInv, GlobalInv, Whole
<1>19. GlobalInv(u, v, e) BY <1>4, <1>18 DEF HubInv, GlobalInv, Whole, Still
<1>20. ASSUME NEW g \in File PROVE ItemInv(u, v, e, g) BY <1>4 DEF HubInv, ItemInv, Named, Still
<1>21. HubInv(u, v, e, {r.f}) BY <1>3, <1>8, <1>9, <1>12, <1>17, <1>19, <1>20 DEF HubInv
<1>22. HostInv(u, h, v, e, 0, {r.f}) BY <1>4, <1>8, <1>17 DEF HostInv, Still
<1>23. ReqInv(u, v, e, r)
 <2>1. ReqInv(s, v, e, r) BY <1>7 DEF HubInv
 <2> QED BY <1>4, <2>1, ReqSame
<1>24. Open(r) /\ r.old => LatestOf(u, r.f)
 <2> SUFFICES ASSUME Open(r), r.old PROVE LatestOf(u, r.f) OBVIOUS
 <2>1. PICK j \in 1..Len(s.wire) : j > 1 /\ Latest(s.wire[j]) /\ s.wire[j].f = r.f
   BY <1>7 DEF HubInv, OldInv
 <2> QED BY <1>11, <2>1 DEF LatestOf
<1>25. Taken(u, h, v, e, r)
 <2>1. ~Latest(r) => SendInv(u, r.f) /\ SinkInv(u, h, r.f) BY <1>5, <1>14, <1>16 DEF r
 <2>2. r.k \notin {"link", "unlink", "rename"} => HereInv(u, e, r.f) BY <1>5, <1>15 DEF r
 <2>3. u.life # "none" BY <1>4, <1>18 DEF Still
 <2> QED BY <1>5, <1>10, <1>21, <1>22, <1>23, <1>24, <2>1, <2>2, <2>3 DEF Taken, Inv
<1>26. r.k # "unlink" /\ HereInv(s, e, r.f) => HereInv(u, e, r.f) BY <1>5, <1>15
<1> QED BY <1>4, <1>25, <1>26 DEF u, r

\* The next request is done, and its answer taken.
LEMMA AnswerTaken ==
  ASSUME NEW s, NEW h, NEW v, NEW e, Inv(s, h, v, e, {}), s.wire # <<>>, s.named <= MaxTemp
  PROVE  LET r == Head(s.wire)
             u == [s EXCEPT !.wire = Tail(@)]
         IN  /\ Taken(u, Done(h, r), v, EnvAfter(e, h, r), r)
             /\ Still(s, u) /\ u.item = s.item /\ ReqInv(u, v, e, r) /\ ReqHost(u, h, r)
             /\ h \in HostShape /\ r.t \in Temp
             /\ \A f \in File : Prefix(h, u.item[f])
             /\ ~Puts(h, r) /\ r.k # "unlink" => HereInv(u, EnvAfter(e, h, r), r.f)
<1> DEFINE r == Head(s.wire)
           u == [s EXCEPT !.wire = Tail(@)]
           d == EnvAfter(e, h, r)
<1>0. s \in HubShape /\ HubInv(s, v, e, {}) /\ HostInv(s, h, v, e, 0, {}) BY DEF Inv, HubInv
<1>1. /\ s.wire \in Seq(ReqShape) /\ Len(s.wire) \in Nat /\ s.named \in Nat
      /\ \A i \in 1..Len(s.wire) : s.wire[i] \in ReqShape BY <1>0, HubParts
<1>2. Len(s.wire) > 0 /\ s.wire[1] = r /\ 1 \in 1..Len(s.wire) BY <1>1
<1>3. r.f \in File BY <1>1, <1>2, ReqParts
<1> HIDE DEF r
<1>4. HostInv(s, Done(h, r), v, d, 1, {})
 <2>1. HostInv(s, Done(h, s.wire[0 + 1]), v, EnvAfter(e, h, s.wire[0 + 1]), 0 + 1, {})
   BY <1>0, <1>2, HostStep
 <2> QED BY <1>2, <2>1
<1>5. HubInv(s, v, d, {r.f})
 <2>1. s.life # "none" BY <1>0 DEF HubInv, GlobalInv, Whole
 <2> QED BY <1>0, <1>3, <2>1, MoreHere
<1>6. SendInv(s, r.f) /\ HereInv(s, e, r.f) BY <1>0, <1>3 DEF HubInv
<1>7. ~Puts(h, r) => HereInv(s, d, r.f) BY <1>6 DEF EnvAfter
<1>8. r.k \notin {"link", "rename"} => ~Puts(h, r) BY DEF Puts
<1> HIDE DEF d
<1>9. /\ Taken(u, Done(h, r), v, d, r) /\ Still(s, u) /\ u.item = s.item
      /\ r.k # "unlink" /\ HereInv(s, d, r.f) => HereInv(u, d, r.f)
  BY <1>4, <1>5, <1>6, <1>7, <1>8, DropHead DEF r
<1> HIDE DEF u
<1>10. ReqInv(s, v, e, r) /\ ReqHost(s, h, r) BY <1>0, <1>2 DEF HubInv, HostInv
<1>11. ReqInv(u, v, e, r) /\ ReqHost(u, h, r) BY <1>9, <1>10, ReqSame
<1>12. r.t \in Temp BY <1>1, <1>10, ConstantsAssumption DEF ReqInv, Temp
<1>13. h \in HostShape /\ \A f \in File : Prefix(h, u.item[f]) BY <1>0, <1>9 DEF HostInv
<1> QED BY <1>7, <1>9, <1>11, <1>12, <1>13 DEF r, u, d

\* The next request is refused, and nothing is done.
LEMMA RefuseTaken ==
  ASSUME NEW s, NEW h, NEW v, NEW e, Inv(s, h, v, e, {}), s.wire # <<>>
  PROVE  LET r == Head(s.wire)
             u == [s EXCEPT !.wire = Tail(@)]
         IN  /\ Taken(u, h, v, e, r)
             /\ r.k # "unlink" => HereInv(u, e, r.f)
<1> DEFINE r == Head(s.wire)
           u == [s EXCEPT !.wire = Tail(@)]
<1>0. s \in HubShape /\ HubInv(s, v, e, {}) /\ HostInv(s, h, v, e, 0, {}) BY DEF Inv, HubInv
<1>1. /\ s.wire \in Seq(ReqShape) /\ Len(s.wire) \in Nat
      /\ \A i \in 1..Len(s.wire) : s.wire[i] \in ReqShape BY <1>0, HubParts
<1>2. Len(s.wire) > 0 /\ s.wire[1] = r /\ 1 \in 1..Len(s.wire) BY <1>1
<1>3. r.f \in File BY <1>1, <1>2, ReqParts
<1> HIDE DEF r
<1>4. HostInv(s, h, v, e, 1, {}) /\ HubInv(s, v, e, {r.f}) BY <1>0, <1>1 DEF HostInv, HubInv
<1>6. SendInv(s, r.f) /\ HereInv(s, e, r.f) BY <1>0, <1>3 DEF HubInv
<1>9. /\ Taken(u, h, v, e, r) /\ Still(s, u) /\ u.item = s.item
      /\ r.k # "unlink" /\ HereInv(s, e, r.f) => HereInv(u, e, r.f) BY <1>4, <1>6, DropHead DEF r
<1> QED BY <1>6, <1>9 DEF r, u

------------------------------
\* Stopping and failing a file.

\* A file is failed, cancelled, interrupted or skipped, and keeps its temporary.
LEMMA StopStep ==
  ASSUME NEW s, NEW h, NEW v, NEW e, NEW X, Inv(s, h, v, e, X),
         NEW f \in File, NEW st \in Stopped, NEW u, NEW it, Changes(s, u, f, it),
         it.state = st, it.sink = None, Alike(s.item[f], it),
         s.item[f].state # "placed", NoOn(s, f, PlaceKinds),
         st = "skipped" => NoOn(s, f, OpenKinds), HereInv(s, e, f)
  PROVE  Inv(u, h, v, e, X \ {f})
<1>1. /\ u.item[f].state = st /\ u.item[f].sink = None
      /\ u.item[f].acked = s.item[f].acked /\ u.item[f].temp = s.item[f].temp
      /\ u.item[f].whole = s.item[f].whole /\ u.item[f].writing = s.item[f].writing
      /\ u.item[f].resolution = s.item[f].resolution BY DEF Changes, Alike
<1>2. u \in HubShape /\ Still(s, u) /\ u.wire = s.wire /\ \A g \in File : g # f => u.item[g] = s.item[g]
  BY DEF Changes
<1>3. st \notin {"sending", "queued", "placed", "conflict", "verifying"} BY DEF Stopped
<1>4. ItemInv(s, v, e, f) /\ Prefix(h, s.item[f]) BY DEF Inv, HubInv, HostInv
<1>5. ItemInv(u, v, e, f)
 <2>1. WellItem(u.item[f]) BY <1>1, <1>3, <1>4 DEF ItemInv, WellItem
 <2>2. Named(u, e, f, u.item[f].temp) /\ Named(u, e, f, u.item[f].sink) /\ Named(u, e, f, v.item[f].temp)
   BY <1>1, <1>2, <1>4, HubParts DEF ItemInv, Named, Still, None
 <2> QED BY <1>1, <1>2, <1>3, <1>4, <2>1, <2>2 DEF ItemInv, Still
<1>6. Prefix(h, u.item[f]) BY <1>1, <1>4 DEF Prefix
<1>7. ASSUME NEW i \in 1..Len(s.wire), s.wire[i].f = f
      PROVE  ReqInv(u, v, e, s.wire[i]) /\ ReqHost(u, h, s.wire[i])
 <2> DEFINE r == s.wire[i]
 <2>1. ReqInv(s, v, e, r) /\ ReqHost(s, h, r) /\ r.f = f /\ ~Place(r)
   BY <1>7 DEF Inv, HubInv, HostInv, NoOn, Place
 <2> HIDE DEF r
 <2>2. LookInv(u, r)
  <3>1. LookInv(s, r) BY <2>1 DEF ReqInv
  <3>2. \A g \in File : u.item[g].state = "queued" => u.item[g] = s.item[g] BY <1>1, <1>2, <1>3
  <3> QED BY <1>1, <1>2, <1>3, <2>1, <3>1, <3>2 DEF LookInv, Still
 <2>3. CutInv(u, v, r) /\ CreateInv(u, v, r) BY <1>1, <2>1 DEF ReqInv, CutInv, CreateInv
 <2>4. PlaceInv(u, e, r) /\ WriteInv(u, r) BY <1>1, <2>1 DEF ReqInv, PlaceInv, WriteInv
 <2>5. OpenInv(u, r)
  <3>1. Open(r) => st # "skipped" BY <1>7 DEF NoOn, Open, r
  <3> QED BY <1>1, <1>3, <2>1, <3>1 DEF ReqInv, OpenInv
 <2>6. ReqInv(u, v, e, r) BY <1>1, <1>2, <1>3, <2>1, <2>2, <2>3, <2>4, <2>5 DEF ReqInv, Still
 <2> QED BY <1>1, <2>1, <2>6 DEF ReqHost, r
<1>8. ASSUME NEW i \in 1..Len(s.wire), NEW j \in 1..Len(s.wire), i < j, s.wire[i].f = f
      PROVE  PairNow(u, s.wire[i], s.wire[j])
 <2>1. PairNow(s, s.wire[i], s.wire[j]) BY <1>8 DEF Inv, HubInv
 <2> QED BY <1>1, <1>3, <1>8, <2>1 DEF PairNow
<1>9. SendInv(u, f) /\ SinkInv(u, h, f) BY <1>1, <1>3 DEF SendInv, SinkInv
<1>10. HereInv(u, e, f) BY <1>1, <1>2 DEF HereInv, Still
<1>11. u.item[f].state # "queued" BY <1>1, <1>3
<1>12. X \subseteq (X \ {f}) \cup {f} OBVIOUS
<1> QED BY <1>2, <1>5, <1>6, <1>7, <1>8, <1>9, <1>10, <1>11, <1>12, ItemStep

\* A file loses its temporary.
LEMMA RestartStep ==
  ASSUME NEW s, NEW h, NEW v, NEW e, NEW X, Inv(s, h, v, e, X), NEW f \in File,
         NoOn(s, f, {"write"}),
         s.item[f].state = "sending" => f \in X /\ NoOn(s, f, OpenKinds),
         s.item[f].state = "conflict" => NoOn(s, f, LookKinds),
         \/ NoOn(s, f, PlaceKinds)
         \/ /\ NoOn(s, f, LookKinds)
            /\ \A i \in 1..Len(s.wire) : s.wire[i].f = f /\ Place(s.wire[i]) =>
                  s.wire[i].k # "finish" /\ FullAt(h, s.wire[i].t)
  PROVE  /\ Inv(restartFile(s, f), h, v, e, X)
         /\ Changes(s, restartFile(s, f), f,
                    [s.item[f] EXCEPT !.acked = 0, !.temp = None, !.whole = FALSE])
<1> DEFINE u == restartFile(s, f)
<1>0. s \in HubShape /\ s.item \in [File -> ItemShape] /\ s.item[f] \in ItemShape
      /\ s.named \in Nat BY HubParts DEF Inv, HubInv
<1>a. Changes(s, u, f, [s.item[f] EXCEPT !.acked = 0, !.temp = None, !.whole = FALSE])
  BY <1>0, RestartParts
<1> HIDE DEF u
<1>1. /\ u.item[f].acked = 0 /\ u.item[f].temp = None /\ u.item[f].whole = FALSE
      /\ u.item[f].state = s.item[f].state /\ u.item[f].sink = s.item[f].sink
      /\ u.item[f].writing = s.item[f].writing
      /\ u.item[f].resolution = s.item[f].resolution BY <1>0, <1>a DEF Changes, ItemShape
<1>2. u \in HubShape /\ Still(s, u) /\ u.wire = s.wire /\ \A g \in File : g # f => u.item[g] = s.item[g]
  BY <1>a DEF Changes
<1>4. ItemInv(s, v, e, f) /\ h.linked \subseteq 1..s.named BY DEF Inv, HubInv, HostInv
<1>5. ItemInv(u, v, e, f)
 <2>1. WellItem(u.item[f]) BY <1>1, <1>4, ConstantsAssumption DEF ItemInv, WellItem
 <2>2. Named(u, e, f, u.item[f].temp) /\ Named(u, e, f, u.item[f].sink) /\ Named(u, e, f, v.item[f].temp)
   BY <1>0, <1>1, <1>2, <1>4 DEF ItemInv, Named, Still, None
 <2> QED BY <1>1, <1>2, <1>4, <2>1, <2>2 DEF ItemInv, Still
<1>6. Prefix(h, u.item[f]) BY <1>0, <1>1, <1>4 DEF Prefix, None
<1>7. ASSUME NEW i \in 1..Len(s.wire), s.wire[i].f = f
      PROVE  ReqInv(u, v, e, s.wire[i]) /\ ReqHost(u, h, s.wire[i])
 <2> DEFINE r == s.wire[i]
 <2>1. ReqInv(s, v, e, r) /\ ReqHost(s, h, r) /\ r.f = f /\ r.k # "write"
   BY <1>7 DEF Inv, HubInv, HostInv, NoOn
 <2>a. Place(r) => r.k # "finish" /\ FullAt(h, r.t) BY <1>7 DEF NoOn, Place
 <2>b. /\ s.item[f].state = "sending" => ~Open(r)
       /\ s.item[f].state = "conflict" => ~LookAt(r) BY <1>7 DEF NoOn, Open, LookAt
 <2> HIDE DEF r
 <2>c. r.t # None BY <1>0, <2>1 DEF ReqInv, None
 <2>2. LookInv(u, r)
  <3>1. LookInv(s, r) BY <2>1 DEF ReqInv
  <3>2. \A g \in File : u.item[g].state = "queued" => s.item[g].state = "queued"
                           /\ (u.item[g] = s.item[g] \/ u.item[g].temp = None) BY <1>1, <1>2
  <3> QED BY <1>1, <1>2, <2>1, <2>b, <3>1, <3>2 DEF LookInv, Still
 <2>3. CutInv(u, v, r) /\ CreateInv(u, v, r) BY <1>1, <2>1, <2>c DEF ReqInv, CutInv, CreateInv
 <2>4. PlaceInv(u, e, r) /\ WriteInv(u, r)
   BY <1>1, <1>2, <2>1, <2>a DEF ReqInv, PlaceInv, WriteInv, Still
 <2>5. OpenInv(u, r) BY <1>1, <2>1, <2>b, <2>c DEF ReqInv, OpenInv
 <2>6. ReqInv(u, v, e, r) BY <1>1, <1>2, <2>1, <2>2, <2>3, <2>4, <2>5, <2>c DEF ReqInv, Still
 <2> QED BY <1>1, <2>1, <2>6, <2>a DEF ReqHost, r
<1>8. ASSUME NEW i \in 1..Len(s.wire), NEW j \in 1..Len(s.wire), i < j, s.wire[i].f = f
      PROVE  PairNow(u, s.wire[i], s.wire[j])
 <2>1. PairNow(s, s.wire[i], s.wire[j]) BY <1>8 DEF Inv, HubInv
 <2>2. ~(LookAt(s.wire[i]) /\ Place(s.wire[j]) /\ s.wire[j].f = f) BY <1>8 DEF NoOn, LookAt, Place
 <2> QED BY <1>1, <1>8, <2>1, <2>2 DEF PairNow
<1>9. f \in X \/ (SendInv(u, f) /\ HereInv(u, e, f) /\ SinkInv(u, h, f))
 <2> SUFFICES ASSUME f \notin X PROVE SendInv(u, f) /\ HereInv(u, e, f) /\ SinkInv(u, h, f)
   OBVIOUS
 <2>1. s.item[f].state # "sending" /\ HereInv(s, e, f) BY DEF Inv, HubInv
 <2> QED BY <1>1, <1>2, <2>1 DEF SendInv, SinkInv, HereInv, Still
<1>11. ~(u.item[f].state = "queued" /\ u.item[f].temp # None /\ u.source # Nobody) BY <1>1
<1>12. X \subseteq X \cup {f} OBVIOUS
<1>13. Inv(u, h, v, e, X) BY <1>2, <1>5, <1>6, <1>7, <1>8, <1>9, <1>11, <1>12, ItemStep
<1> QED BY <1>13, <1>a DEF u

\* The removal of a temporary no file has is asked for.
LEMMA RemoveStep ==
  ASSUME NEW s, NEW h, NEW v, NEW e, NEW X, Inv(s, h, v, e, X), NEW f \in File, NEW t \in Nat,
         Named(s, e, f, t), s.item[f].temp = None, s.life # "none"
  PROVE  Inv(removeTemp(s, f, t), h, v, e, X)
<1>0. s \in HubShape /\ s.named \in Nat BY HubParts DEF Inv, HubInv
<1>1. CASE ~(t # None /\ s.backend = "live") BY <1>1 DEF removeTemp
<1>2. CASE t # None /\ s.backend = "live"
 <2> DEFINE r == [k |-> "remove", f |-> f, t |-> t, n |-> 0, old |-> FALSE, w |-> Nobody]
 <2>1. r \in ReqShape BY DEF ReqShape, Kinds
 <2>2. /\ r.k = "remove" /\ r.f = f /\ r.t = t /\ r.old = FALSE
       /\ ~Open(r) /\ ~LookAt(r) /\ ~Place(r) /\ ~Latest(r)
   BY DEF Open, LookAt, Place, Latest, OpenKinds, LookKinds, PlaceKinds
 <2>3. removeTemp(s, f, t) = [s EXCEPT !.wire = Append(@, r)] BY <1>2 DEF removeTemp, AskFor, Ask
 <2> HIDE DEF r
 <2>4. s.link = "up" BY <1>2 DEF Inv, HubInv, GlobalInv, Whole
 <2>5. ReqInv(s, v, e, r)
  <3>1. CutInv(s, v, r) /\ CreateInv(s, v, r) /\ PlaceInv(s, e, r) /\ WriteInv(s, r)
        /\ LookInv(s, r) /\ OpenInv(s, r)
    BY <2>2 DEF CutInv, CreateInv, PlaceInv, WriteInv, LookInv, OpenInv
  <3>2. r.t \in 1..s.named /\ e.own[r.t] = r.f BY <1>0, <1>2, <2>2 DEF Named, None
  <3> QED BY <1>2, <2>2, <2>4, <3>1, <3>2 DEF ReqInv
 <2>6. ReqHost(s, h, r) BY <2>2 DEF ReqHost
 <2>7. ASSUME NEW i \in 1..Len(s.wire) PROVE PairInv(s.wire[i], r) /\ PairNow(s, s.wire[i], r)
   BY <2>2 DEF PairInv, PairNow, Apart
 <2>8. f \in X \/ f \notin X OBVIOUS
 <2> QED BY <2>1, <2>2, <2>3, <2>5, <2>6, <2>7, <2>8, AskStep
<1> QED BY <1>1, <1>2

\* A file fails and its temporary goes.
LEMMA FailStep ==
  ASSUME NEW s, NEW h, NEW v, NEW e, NEW X, Inv(s, h, v, e, X), NEW f \in File,
         s.item[f].state # "placed", NoOn(s, f, PlaceKinds), NoOn(s, f, {"write"}),
         HereInv(s, e, f), s.life # "none"
  PROVE  Inv(fileFailed(s, f), h, v, e, X \ {f})
<1>0. s \in HubShape /\ s.item[f] \in ItemShape /\ s.item[f].temp \in Nat
  BY HubParts, ItemParts DEF Inv, HubInv
<1> DEFINE a == [setState(s, f, "failed") EXCEPT !.item[f].sink = None]
           it == [s.item[f] EXCEPT !.state = "failed", !.sink = None]
           b == restartFile(a, f)
<1>1. "failed" \in State /\ "failed" \in Stopped BY DEF State, Stopped
<1>2. Changes(s, a, f, it) BY <1>0, <1>1, StopParts
<1>3. it.state = "failed" /\ it.sink = None /\ Alike(s.item[f], it) BY <1>0 DEF ItemShape, Alike
<1>4. fileFailed(s, f) = removeTemp(b, f, s.item[f].temp) BY DEF fileFailed
<1> HIDE DEF a, it
<1>5. Inv(a, h, v, e, X \ {f}) BY <1>1, <1>2, <1>3, StopStep
<1>6. a.item[f].state = "failed" /\ a.wire = s.wire /\ Still(s, a) BY <1>2, <1>3 DEF Changes
<1>7. NoOn(a, f, PlaceKinds) /\ NoOn(a, f, {"write"}) BY <1>6 DEF NoOn
<1>8. /\ Inv(b, h, v, e, X \ {f})
      /\ Changes(a, b, f, [a.item[f] EXCEPT !.acked = 0, !.temp = None, !.whole = FALSE])
  BY <1>5, <1>6, <1>7, RestartStep
<1> HIDE DEF b
<1>9. b.item[f].temp = None /\ Still(a, b)
 <2>1. a.item[f] \in ItemShape BY <1>2 DEF Changes
 <2> QED BY <1>8, <2>1 DEF Changes, ItemShape
<1>10. Named(b, e, f, s.item[f].temp) /\ b.life # "none"
 <2>1. Named(s, e, f, s.item[f].temp) BY DEF Inv, HubInv, ItemInv
 <2> QED BY <1>6, <1>9, <2>1 DEF Named, Still
<1> QED BY <1>0, <1>4, <1>8, <1>9, <1>10, RemoveStep

\* A file somebody said to skip loses its temporary.
LEMMA SkipStep ==
  ASSUME NEW s, NEW h, NEW v, NEW e, NEW X, Inv(s, h, v, e, X), NEW f \in File,
         s.item[f].state \notin {"placed", "sending"}, NoOn(s, f, PlaceKinds),
         NoOn(s, f, OpenKinds), NoOn(s, f, {"write"}), HereInv(s, e, f), s.life # "none"
  PROVE  Inv(skip(s, f), h, v, e, X \ {f})
<1>0. s \in HubShape /\ s.item[f] \in ItemShape /\ s.item[f].temp \in Nat
  BY HubParts, ItemParts DEF Inv, HubInv
<1> DEFINE a == setState(s, f, "skipped")
           it == [s.item[f] EXCEPT !.state = "skipped"]
           b == restartFile(a, f)
<1>1. "skipped" \in State /\ "skipped" \in Stopped BY DEF State, Stopped
<1>2. Changes(s, a, f, it) BY <1>0, <1>1, SetStateParts
<1>3. it.state = "skipped" /\ it.sink = None /\ Alike(s.item[f], it)
 <2>1. s.item[f].sink = None BY DEF Inv, HubInv, ItemInv, WellItem
 <2> QED BY <1>0, <2>1 DEF ItemShape, Alike
<1>4. skip(s, f) = removeTemp(b, f, s.item[f].temp) BY DEF skip
<1> HIDE DEF a, it
<1>5. Inv(a, h, v, e, X \ {f}) BY <1>1, <1>2, <1>3, StopStep
<1>6. a.item[f].state = "skipped" /\ a.wire = s.wire /\ Still(s, a) BY <1>2, <1>3 DEF Changes
<1>7. NoOn(a, f, PlaceKinds) /\ NoOn(a, f, {"write"}) BY <1>6 DEF NoOn
<1>8. /\ Inv(b, h, v, e, X \ {f})
      /\ Changes(a, b, f, [a.item[f] EXCEPT !.acked = 0, !.temp = None, !.whole = FALSE])
  BY <1>5, <1>6, <1>7, RestartStep
<1> HIDE DEF b
<1>9. b.item[f].temp = None /\ Still(a, b)
 <2>1. a.item[f] \in ItemShape BY <1>2 DEF Changes
 <2> QED BY <1>8, <2>1 DEF Changes, ItemShape
<1>10. Named(b, e, f, s.item[f].temp) /\ b.life # "none"
 <2>1. Named(s, e, f, s.item[f].temp) BY DEF Inv, HubInv, ItemInv
 <2> QED BY <1>6, <1>9, <2>1 DEF Named, Still
<1> QED BY <1>0, <1>4, <1>8, <1>9, <1>10, RemoveStep

\* The stop of a file goes on: a cancelled one loses its temporary.
LEMMA StopEndedStep ==
  ASSUME NEW s, NEW h, NEW v, NEW e, NEW X, Inv(s, h, v, e, X), NEW f \in File,
         NoOn(s, f, PlaceKinds), NoOn(s, f, {"write"}), s.life # "none"
  PROVE  Inv(StopEnded(s, f), h, v, e, X)
<1>0. s \in HubShape /\ s.item[f] \in ItemShape /\ s.item[f].temp \in Nat
  BY HubParts, ItemParts DEF Inv, HubInv
<1>1. CASE s.item[f].state # "cancelled" BY <1>1 DEF StopEnded
<1>2. CASE s.item[f].state = "cancelled"
 <2> DEFINE b == restartFile(s, f)
 <2>1. StopEnded(s, f) = removeTemp(b, f, s.item[f].temp) BY <1>2 DEF StopEnded
 <2>2. /\ Inv(b, h, v, e, X)
       /\ Changes(s, b, f, [s.item[f] EXCEPT !.acked = 0, !.temp = None, !.whole = FALSE])
   BY <1>2, RestartStep
 <2> HIDE DEF b
 <2>3. b.item[f].temp = None /\ Still(s, b) BY <1>0, <2>2 DEF Changes, ItemShape
 <2>4. Named(b, e, f, s.item[f].temp) /\ b.life # "none"
  <3>1. Named(s, e, f, s.item[f].temp) BY DEF Inv, HubInv, ItemInv
  <3> QED BY <2>3, <3>1 DEF Named, Still
 <2> QED BY <1>0, <2>1, <2>2, <2>3, <2>4, RemoveStep
<1> QED BY <1>1, <1>2

\* The write a file had open is closed, and its stop goes on.
LEMMA AfterStopStep ==
  ASSUME NEW s, NEW h, NEW v, NEW e, NEW X, Inv(s, h, v, e, X), NEW f \in File,
         NEW t \in Nat, Named(s, e, f, t),
         s.item[f].state # "sending", NoOn(s, f, PlaceKinds), NoOn(s, f, {"write"}),
         t # None => ~s.item[f].whole /\ s.item[f].state # "conflict", s.life # "none",
         HereInv(s, e, f)
  PROVE  Inv(afterStop(s, f, t), h, v, e, X \ {f})
<1>0. s \in HubShape /\ s.item[f] \in ItemShape /\ s.named \in Nat BY HubParts DEF Inv, HubInv
<1>a. SendInv(s, f) /\ SinkInv(s, h, f) BY DEF SendInv, SinkInv
<1>b. Inv(s, h, v, e, X \ {f}) BY <1>a, Release
<1>1. CASE t = None BY <1>1, <1>b, StopEndedStep DEF afterStop
<1>2. CASE t # None
 <2> DEFINE r == [k |-> "close", f |-> f, t |-> t, n |-> 0, old |-> FALSE, w |-> Nobody]
 <2>1. r \in ReqShape BY DEF ReqShape, Kinds
 <2>2. /\ r.k = "close" /\ r.f = f /\ r.t = t /\ r.old = FALSE
       /\ ~Open(r) /\ ~LookAt(r) /\ ~Place(r) /\ ~Latest(r)
   BY DEF Open, LookAt, Place, Latest, OpenKinds, LookKinds, PlaceKinds
 <2>3. afterStop(s, f, t) = [s EXCEPT !.wire = Append(@, r)] BY <1>2 DEF afterStop, AskFor, Ask
 <2> HIDE DEF r
 <2>5. ReqInv(s, v, e, r)
  <3>1. CutInv(s, v, r) /\ CreateInv(s, v, r) /\ PlaceInv(s, e, r) /\ WriteInv(s, r)
        /\ LookInv(s, r) /\ OpenInv(s, r)
    BY <2>2 DEF CutInv, CreateInv, PlaceInv, WriteInv, LookInv, OpenInv
  <3>2. r.t \in 1..s.named /\ e.own[r.t] = r.f BY <1>0, <1>2, <2>2 DEF Named, None
  <3> QED BY <1>2, <2>2, <3>1, <3>2 DEF ReqInv
 <2>6. ReqHost(s, h, r) BY <2>2 DEF ReqHost
 <2>7. ASSUME NEW i \in 1..Len(s.wire) PROVE PairInv(s.wire[i], r) /\ PairNow(s, s.wire[i], r)
  <3>1. s.wire[i].f = f => ~Place(s.wire[i]) /\ s.wire[i].k # "write" BY DEF NoOn, Place
  <3> QED BY <2>2, <3>1 DEF PairInv, PairNow, Apart
 <2>8. s.item[r.f].sink = None BY <2>2 DEF Inv, HubInv, ItemInv, WellItem
 <2>9. X \ {f} \subseteq (X \ {f}) \cup {r.f} /\ r.f \notin X \ {f} BY <2>2
 <2> QED BY <1>b, <2>1, <2>2, <2>3, <2>5, <2>6, <2>7, <2>8, <2>9, AskStep
<1> QED BY <1>1, <1>2

------------------------------
\* Interrupting.

\* A step that changes the items of several files, and nothing on the wire.
LEMMA WireKept ==
  ASSUME NEW s, NEW h, NEW v, NEW e, NEW X, NEW Y, Inv(s, h, v, e, X),
         NEW u \in HubShape, u.wire = s.wire, u.named = s.named, GlobalInv(u, v, e),
         \A f \in File : ItemInv(u, v, e, f) /\ Prefix(h, u.item[f]),
         \A i \in 1..Len(s.wire) : ReqInv(u, v, e, s.wire[i]) /\ ReqHost(u, h, s.wire[i]),
         \A i, j \in 1..Len(s.wire) : i < j => PairNow(u, s.wire[i], s.wire[j]),
         \A f \in File \ Y : SendInv(u, f) /\ HereInv(u, e, f) /\ SinkInv(u, h, f)
  PROVE  Inv(u, h, v, e, Y)
<1>1. OldInv(u) BY DEF Inv, HubInv, OldInv
<1>2. HubInv(u, v, e, Y) BY <1>1 DEF Inv, HubInv
<1>3. HostInv(u, h, v, e, 0, Y) BY DEF Inv, HostInv
<1> QED BY <1>2, <1>3 DEF Inv

\* interruptAll interrupts what moves, and nothing else.
LEMMA InterruptParts ==
  ASSUME NEW s \in HubShape, s.backend # "live"
  PROVE  LET u == interruptAll(s)
         IN  /\ u \in HubShape /\ u.wire = s.wire /\ u.named = s.named /\ u.life = s.life
             /\ u.source = s.source /\ u.link = s.link /\ u.removal = s.removal
             /\ u.policy = s.policy /\ u.backend = "none"
             /\ u.linkDropped = (s.linkDropped \/ s.source # Nobody)
             /\ \A f \in File : f \notin Moving(s) => u.item[f] = s.item[f]
             /\ \A f \in Moving(s) :
                   /\ u.item[f].state = "interrupted" /\ u.item[f].sink = None
                   /\ Alike(s.item[f], u.item[f])
<1> DEFINE m == Moving(s)
           I == [f \in File |-> IF f \in m THEN [s.item[f] EXCEPT !.state = "interrupted", !.sink = None]
                                ELSE s.item[f]]
           D == s.linkDropped \/ s.source # Nobody
           u == [s EXCEPT !.item = I, !.unsaved = @ \cup m, !.dirty = @ \cup m,
                          !.linkDropped = D, !.backend = "none"]
<1>1. interruptAll(s) = u BY DEF interruptAll, Moving
<1>2. s.item \in [File -> ItemShape] /\ s.linkDropped \in BOOLEAN BY HubParts
<1>3. I \in [File -> ItemShape]
 <2>1. ASSUME NEW f \in File PROVE I[f] \in ItemShape
  <3>1. s.item[f] \in ItemShape BY <1>2
  <3>2. [s.item[f] EXCEPT !.state = "interrupted", !.sink = None] \in ItemShape
    BY <3>1 DEF ItemShape, State, Unsettled, None
  <3> QED BY <3>1, <3>2
 <2> QED BY <2>1
<1>4. m \subseteq File /\ D \in BOOLEAN BY <1>2 DEF Moving
<1>5. \A f \in File : f \notin m => I[f] = s.item[f] OBVIOUS
<1>6. ASSUME NEW f \in m PROVE I[f].state = "interrupted" /\ I[f].sink = None /\ Alike(s.item[f], I[f])
 <2>1. f \in File /\ s.item[f] \in ItemShape BY <1>2, <1>4
 <2>2. I[f] = [s.item[f] EXCEPT !.state = "interrupted", !.sink = None] BY <2>1
 <2> HIDE DEF I
 <2> QED BY <2>1, <2>2 DEF ItemShape, Alike
<1> HIDE DEF I, m, D
<1>7. u \in HubShape BY <1>3, <1>4 DEF HubShape
<1>8. /\ u.wire = s.wire /\ u.named = s.named /\ u.life = s.life
      /\ u.source = s.source /\ u.link = s.link /\ u.removal = s.removal
      /\ u.policy = s.policy /\ u.backend = "none" /\ u.linkDropped = D /\ u.item = I
  BY DEF HubShape
<1> QED BY <1>1, <1>5, <1>6, <1>7, <1>8 DEF m, D

\* Over a lost connection everything that moves is interrupted.
LEMMA InterruptAllStep ==
  ASSUME NEW s, NEW h, NEW v, NEW e, NEW X, Inv(s, h, v, e, X),
         s.backend # "live", s.link = "down",
         \A f \in File : f \in X => HereInv(s, e, f)
  PROVE  /\ Inv(interruptAll(s), h, v, e, {})
         /\ \A f \in File : interruptAll(s).item[f].state \notin {"sending", "queued"}
<1> DEFINE u == interruptAll(s)
<1>0. s \in HubShape /\ s.item \in [File -> ItemShape] /\ s.named \in Nat
  BY HubParts DEF Inv, HubInv
<1>1. /\ u \in HubShape /\ u.wire = s.wire /\ u.named = s.named /\ u.life = s.life
      /\ u.source = s.source /\ u.link = s.link /\ u.removal = s.removal
      /\ u.policy = s.policy /\ u.backend = "none"
      /\ u.linkDropped = (s.linkDropped \/ s.source # Nobody)
      /\ \A f \in File : f \notin Moving(s) => u.item[f] = s.item[f]
      /\ \A f \in Moving(s) :
            /\ u.item[f].state = "interrupted" /\ u.item[f].sink = None
            /\ Alike(s.item[f], u.item[f]) BY <1>0, InterruptParts
<1> HIDE DEF u
<1>2. \A f \in File : u.item[f].state \notin {"sending", "queued"} BY <1>1 DEF Moving
<1>3. \A f \in File : f \in Moving(s) => s.item[f].state \in {"sending", "queued"} BY DEF Moving
<1>4. GlobalInv(u, v, e) BY <1>1 DEF Inv, HubInv, GlobalInv, Whole
<1>5. ASSUME NEW f \in File PROVE ItemInv(u, v, e, f) /\ Prefix(h, u.item[f])
 <2>1. ItemInv(s, v, e, f) /\ Prefix(h, s.item[f]) BY DEF Inv, HubInv, HostInv
 <2>2. CASE f \notin Moving(s)
  <3>1. u.item[f] = s.item[f] BY <1>1, <2>2
  <3> QED BY <1>1, <1>2, <2>1, <3>1 DEF ItemInv, Named
 <2>3. CASE f \in Moving(s)
  <3>1. u.item[f].state = "interrupted" /\ u.item[f].sink = None BY <1>1, <2>3
  <3>2. /\ u.item[f].acked = s.item[f].acked /\ u.item[f].temp = s.item[f].temp
        /\ u.item[f].whole = s.item[f].whole /\ u.item[f].resolution = s.item[f].resolution
    BY <1>1, <2>3 DEF Alike
  <3>3. WellItem(u.item[f]) BY <1>3, <2>1, <2>3, <3>1, <3>2 DEF ItemInv, WellItem
  <3>4. Named(u, e, f, u.item[f].temp) /\ Named(u, e, f, u.item[f].sink) /\ Named(u, e, f, v.item[f].temp)
    BY <1>0, <1>1, <2>1, <3>1, <3>2 DEF ItemInv, Named, None
  <3> QED BY <1>1, <2>1, <3>1, <3>2, <3>3, <3>4 DEF ItemInv, Prefix
 <2> QED BY <2>2, <2>3
<1>6. ASSUME NEW i \in 1..Len(s.wire) PROVE ReqInv(u, v, e, s.wire[i]) /\ ReqHost(u, h, s.wire[i])
 <2> DEFINE r == s.wire[i]
 <2>1. ReqInv(s, v, e, r) /\ r \in ReqShape BY <1>0, HubParts DEF Inv, HubInv
 <2> HIDE DEF r
 <2>2. r.k = "close" /\ r.f \in File BY <2>1, ReqParts DEF ReqInv
 <2>3. ~Open(r) /\ ~LookAt(r) /\ ~Place(r)
   BY <2>2 DEF Open, LookAt, Place, OpenKinds, LookKinds, PlaceKinds
 <2>4. ~u.item[r.f].whole /\ u.item[r.f].state # "conflict"
  <3>1. ~s.item[r.f].whole /\ s.item[r.f].state # "conflict" BY <2>1, <2>2 DEF ReqInv
  <3>2. CASE r.f \in Moving(s) BY <1>1, <3>1, <3>2 DEF Alike
  <3>3. CASE r.f \notin Moving(s) BY <1>1, <2>2, <3>1, <3>3
  <3> QED BY <3>2, <3>3
 <2>5. CutInv(u, v, r) /\ CreateInv(u, v, r) /\ PlaceInv(u, e, r) /\ WriteInv(u, r)
       /\ LookInv(u, r) /\ OpenInv(u, r)
   BY <2>2, <2>3 DEF CutInv, CreateInv, PlaceInv, WriteInv, LookInv, OpenInv
 <2>6. ReqInv(u, v, e, r) BY <1>1, <2>1, <2>2, <2>4, <2>5 DEF ReqInv
 <2>7. ReqHost(u, h, r) BY <2>2, <2>3 DEF ReqHost
 <2> QED BY <2>6, <2>7 DEF r
<1>7. ASSUME NEW i \in 1..Len(s.wire), NEW j \in 1..Len(s.wire), i < j
      PROVE  PairNow(u, s.wire[i], s.wire[j])
 <2>1. s.wire[i].f \in File BY <1>0, HubParts, ReqParts
 <2>2. s.wire[i].k = "close" BY DEF Inv, HubInv, ReqInv
 <2> QED BY <2>2 DEF PairNow, Latest, OpenKinds, LookAt, LookKinds
<1>8. ASSUME NEW f \in File \ {} PROVE SendInv(u, f) /\ HereInv(u, e, f) /\ SinkInv(u, h, f)
 <2>1. HereInv(s, e, f) BY DEF Inv, HubInv
 <2>2. s.item[f].state = "placed" => u.item[f].state = "placed" BY <1>1, <1>3
 <2> QED BY <1>1, <1>2, <2>1, <2>2 DEF SendInv, SinkInv, HereInv
<1>9. Inv(u, h, v, e, {}) BY <1>1, <1>4, <1>5, <1>6, <1>7, <1>8, WireKept
<1> QED BY <1>2, <1>9 DEF u

\* A file is interrupted over a lost connection, and with it what moves.
LEMMA InterruptedStep ==
  ASSUME NEW s, NEW h, NEW v, NEW e, NEW X, Inv(s, h, v, e, X), NEW f \in File,
         s.backend # "live", s.link = "down", s.item[f].state # "placed",
         \A g \in File : g \in X \cup {f} => HereInv(s, e, g)
  PROVE  /\ Inv(Interrupted(s, f), h, v, e, {})
         /\ \A g \in File : Interrupted(s, f).item[g].state \notin {"sending", "queued"}
         /\ \A g \in File : Interrupted(s, f).item[g].state = "placed"
                               => s.item[g].state = "placed"
         /\ Interrupted(s, f).backend = "none"
         /\ LET u == Interrupted(s, f)
            IN  /\ u.life = s.life /\ u.source = s.source /\ u.link = s.link
                /\ u.wire = s.wire /\ u.named = s.named
<1> DEFINE a == [setState(s, f, "interrupted") EXCEPT !.item[f].sink = None]
           it == [s.item[f] EXCEPT !.state = "interrupted", !.sink = None]
<1>0. s \in HubShape /\ s.item[f] \in ItemShape BY HubParts DEF Inv, HubInv
<1>1. "interrupted" \in State /\ "interrupted" \in Stopped BY DEF State, Stopped, Unsettled
<1>2. Changes(s, a, f, it) BY <1>0, <1>1, StopParts
<1>3. it.state = "interrupted" /\ it.sink = None /\ Alike(s.item[f], it)
  BY <1>0 DEF ItemShape, Alike
<1>4. Interrupted(s, f) = interruptAll(a) BY DEF Interrupted
<1> HIDE DEF a, it
<1>5. NoOn(s, f, PlaceKinds)
 <2>1. \A i \in 1..Len(s.wire) : s.wire[i].k = "close" BY DEF Inv, HubInv, ReqInv
 <2> QED BY <2>1 DEF NoOn, PlaceKinds
<1>6. Inv(a, h, v, e, X \ {f}) BY <1>1, <1>2, <1>3, <1>5, StopStep
<1>7. a.wire = s.wire /\ Still(s, a) /\ a \in HubShape
      /\ (\A g \in File : g # f => a.item[g] = s.item[g]) /\ a.item[f].state = "interrupted"
  BY <1>2, <1>3 DEF Changes
<1>8. ASSUME NEW g \in File, g \in X \ {f} PROVE HereInv(a, e, g) BY <1>7, <1>8 DEF HereInv, Still
<1>9. /\ Inv(interruptAll(a), h, v, e, {})
      /\ \A g \in File : interruptAll(a).item[g].state \notin {"sending", "queued"}
  BY <1>6, <1>7, <1>8, InterruptAllStep DEF Still
<1>10. LET u == interruptAll(a)
       IN  /\ u.wire = a.wire /\ u.named = a.named /\ u.life = a.life
           /\ u.source = a.source /\ u.link = a.link /\ u.backend = "none"
           /\ \A g \in File : g \notin Moving(a) => u.item[g] = a.item[g]
           /\ \A g \in Moving(a) : u.item[g].state = "interrupted" BY <1>7, InterruptParts DEF Still
<1>11. \A g \in File : interruptAll(a).item[g].state = "placed" => s.item[g].state = "placed"
  BY <1>7, <1>10
<1> QED BY <1>4, <1>7, <1>9, <1>10, <1>11 DEF Still

------------------------------
\* Checking and placing.

\* A file is checked or placed, waits for an answer, or is queued.
LEMMA StateStep ==
  ASSUME NEW s, NEW h, NEW v, NEW e, NEW X, Inv(s, h, v, e, X),
         NEW f \in File, NEW u, NEW it, Changes(s, u, f, it),
         it.state \in {"verifying", "conflict", "queued"}, it.sink = None, Alike(s.item[f], it),
         s.item[f].state # "placed", NoOn(s, f, PlaceKinds), HereInv(s, e, f),
         it.state = "verifying" => NoOn(s, f, OpenKinds),
         it.state = "conflict" =>
            /\ s.item[f].whole \/ s.item[f].temp = None
            /\ NoOn(s, f, OpenKinds \cup LookKinds \cup {"write", "close"}),
         it.state = "queued" =>
            /\ s.item[f].temp = None \/ ~(s.linkDropped /\ s.source # Nobody /\ s.life = "kept")
            /\ NoOn(s, f, LookKinds) /\ NoOn(s, f, OpenKinds \ {"create"})
            /\ \/ s.item[f].temp = None \/ s.source = Nobody
               \/ \A i \in 1..Len(s.wire) : ~LookAt(s.wire[i])
  PROVE  Inv(u, h, v, e, X \ {f})
<1>0. s \in HubShape /\ s.item \in [File -> ItemShape] /\ s.item[f] \in ItemShape
  BY HubParts DEF Inv, HubInv
<1>1. /\ u.item[f].state = it.state /\ u.item[f].sink = None
      /\ u.item[f].acked = s.item[f].acked /\ u.item[f].temp = s.item[f].temp
      /\ u.item[f].whole = s.item[f].whole /\ u.item[f].writing = s.item[f].writing
      /\ u.item[f].resolution = s.item[f].resolution BY DEF Changes, Alike
<1>2. u \in HubShape /\ Still(s, u) /\ u.wire = s.wire /\ \A g \in File : g # f => u.item[g] = s.item[g]
  BY DEF Changes
<1>3. it.state \notin {"sending", "placed", "skipped"} OBVIOUS
<1>4. ItemInv(s, v, e, f) /\ Prefix(h, s.item[f]) BY DEF Inv, HubInv, HostInv
<1>5. ItemInv(u, v, e, f)
 <2>1. WellItem(u.item[f]) BY <1>1, <1>3, <1>4 DEF ItemInv, WellItem
 <2>2. Named(u, e, f, u.item[f].temp) /\ Named(u, e, f, u.item[f].sink) /\ Named(u, e, f, v.item[f].temp)
   BY <1>0, <1>1, <1>2, <1>4, HubParts DEF ItemInv, Named, Still, None
 <2> QED BY <1>1, <1>2, <1>3, <1>4, <2>1, <2>2 DEF ItemInv, Still
<1>6. Prefix(h, u.item[f]) BY <1>1, <1>4 DEF Prefix
<1>7. ASSUME NEW i \in 1..Len(s.wire), s.wire[i].f = f
      PROVE  ReqInv(u, v, e, s.wire[i]) /\ ReqHost(u, h, s.wire[i])
 <2> DEFINE r == s.wire[i]
 <2>1. ReqInv(s, v, e, r) /\ ReqHost(s, h, r) /\ r.f = f /\ ~Place(r)
   BY <1>7 DEF Inv, HubInv, HostInv, NoOn, Place
 <2>a. /\ it.state = "verifying" => ~Open(r)
       /\ it.state = "conflict" => ~Open(r) /\ ~LookAt(r) /\ r.k \notin {"write", "close"}
       /\ it.state = "queued" => ~LookAt(r) /\ (Open(r) => r.k = "create")
   BY <1>7 DEF NoOn, Open, LookAt
 <2> HIDE DEF r
 <2>2. LookInv(u, r)
  <3>1. LookInv(s, r) BY <2>1 DEF ReqInv
  <3>2. LookAt(r) => \A g \in File : u.item[g].state = "queued" => u.item[g] = s.item[g]
    BY <1>1, <1>2, <2>a
  <3> QED BY <1>1, <1>2, <1>3, <2>1, <2>a, <3>1, <3>2 DEF LookInv, Still
 <2>3. CutInv(u, v, r) /\ CreateInv(u, v, r) BY <1>1, <2>1 DEF ReqInv, CutInv, CreateInv
 <2>4. PlaceInv(u, e, r) /\ WriteInv(u, r) BY <1>1, <2>1 DEF ReqInv, PlaceInv, WriteInv
 <2>5. OpenInv(u, r) BY <1>1, <1>3, <2>1, <2>a DEF ReqInv, OpenInv
 <2>6. ReqInv(u, v, e, r) BY <1>1, <1>2, <1>3, <2>1, <2>2, <2>3, <2>4, <2>5, <2>a DEF ReqInv, Still
 <2> QED BY <1>1, <2>1, <2>6 DEF ReqHost, r
<1>8. ASSUME NEW i \in 1..Len(s.wire), NEW j \in 1..Len(s.wire), i < j, s.wire[i].f = f
      PROVE  PairNow(u, s.wire[i], s.wire[j])
 <2>1. s.wire[j].f = f => ~Place(s.wire[j]) BY DEF NoOn, Place
 <2> QED BY <1>1, <1>3, <1>8, <2>1 DEF PairNow
<1>9. SendInv(u, f) /\ SinkInv(u, h, f) BY <1>1, <1>3 DEF SendInv, SinkInv
<1>10. HereInv(u, e, f) BY <1>1, <1>2 DEF HereInv, Still
<1>11. u.item[f].state = "queued" /\ u.item[f].temp # None /\ u.source # Nobody
          => \A i \in 1..Len(s.wire) : ~LookAt(s.wire[i]) BY <1>1, <1>2 DEF Still
<1>12. X \subseteq (X \ {f}) \cup {f} OBVIOUS
<1> QED BY <1>2, <1>5, <1>6, <1>7, <1>8, <1>9, <1>10, <1>11, <1>12, ItemStep

\* What a settle adds to a change.
LEMMA ChangesSettled ==
  ASSUME NEW s, NEW u, NEW f, NEW it, Changes(s, u, f, it)
  PROVE  Changes(s, settle(u), f, it) /\ Changes(s, schedulePump(u), f, it)
  BY DEF Changes, Still, settle, schedulePump, HubShape

\* A request of a placement is sent.
LEMMA AskPlaceStep ==
  ASSUME NEW s, NEW h, NEW v, NEW e, NEW X, Inv(s, h, v, e, X), NEW r \in ReqShape,
         Place(r), s.life # "none", s.link = "up", r.f \notin X,
         s.item[r.f].state # "placed", s.life # "gone" => s.item[r.f].state = "verifying",
         s.item[r.f].temp = r.t, s.item[r.f].acked = Size, r.t # None,
         r.k # "finish" => s.item[r.f].whole,
         r.k = "finish" => NoOn(s, r.f, LookKinds),
         r.k = "rename" => r.f \in e.asked, r.k # "unlink",
         NoOn(s, r.f, Before)
  PROVE  Inv([s EXCEPT !.wire = Append(@, r)], h, v, e, X)
<1>0. /\ s \in HubShape /\ s.item \in [File -> ItemShape] /\ s.named \in Nat
      /\ \A i \in 1..Len(s.wire) : s.wire[i] \in ReqShape BY HubParts DEF Inv, HubInv
<1>1. r.f \in File /\ r.t \in Nat BY ReqParts
<1>2. /\ ~Open(r) /\ ~LookAt(r) /\ ~Latest(r) /\ r.k \in {"finish", "link", "rename"}
      /\ r.k \notin {"purge", "remove", "write", "close", "cut", "lookcut", "create"}
  BY DEF Open, LookAt, Latest, Place, OpenKinds, LookKinds, PlaceKinds
<1>3. ReqInv(s, v, e, r)
 <2>1. CutInv(s, v, r) /\ CreateInv(s, v, r) /\ WriteInv(s, r) /\ LookInv(s, r) /\ OpenInv(s, r)
   BY <1>2 DEF CutInv, CreateInv, WriteInv, LookInv, OpenInv
 <2>2. PlaceInv(s, e, r) BY DEF PlaceInv
 <2>3. r.t \in 1..s.named /\ e.own[r.t] = r.f
  <3>1. Named(s, e, r.f, s.item[r.f].temp) BY <1>1 DEF Inv, HubInv, ItemInv
  <3> QED BY <1>0, <1>1, <3>1 DEF Named, None
 <2> QED BY <1>2, <2>1, <2>2, <2>3 DEF ReqInv
<1>4. ReqHost(s, h, r) BY <1>2 DEF ReqHost
<1>5. ASSUME NEW i \in 1..Len(s.wire) PROVE PairInv(s.wire[i], r) /\ PairNow(s, s.wire[i], r)
 <2> DEFINE a == s.wire[i]
 <2>1. a.f = r.f => /\ ~Open(a) /\ ~Place(a)
                    /\ a.k \notin {"write", "close", "lookcut", "lookclear"}
                    /\ r.k = "finish" => ~LookAt(a) BY DEF NoOn, Before, Open, Place, LookAt
 <2>2. a.f = r.f /\ LookAt(a) => a.t = r.t
  <3>1. LookInv(s, a) BY DEF Inv, HubInv, ReqInv
  <3> QED BY <3>1 DEF LookInv
 <2> HIDE DEF a
 <2>3. PairInv(a, r) BY <1>2, <2>1, <2>2 DEF PairInv, Apart, Latest, Open
 <2>4. PairNow(s, a, r) BY <1>2, <2>1 DEF PairNow
 <2> QED BY <2>3, <2>4 DEF a
<1>6. X \subseteq X \cup {r.f} OBVIOUS
<1> QED BY <1>2, <1>3, <1>4, <1>5, <1>6, AskStep

\* A file that is whole is placed; the link is up, or it is interrupted.
LEMMA PlaceStep ==
  ASSUME NEW s, NEW h, NEW v, NEW e, NEW X, Inv(s, h, v, e, X), NEW f \in File,
         s.item[f].whole \/ s.item[f].temp = None,
         s.item[f].state \notin {"placed", "sending"}, s.life # "none",
         NoOn(s, f, Before), HereInv(s, e, f),
         \A g \in File : g \in X => HereInv(s, e, g)
  PROVE  /\ Inv(place(s, f), h, v, e, X \ {f})
         /\ s.link = "up" =>
               LET u == place(s, f)
               IN  /\ u.life = s.life /\ u.source = s.source /\ u.link = s.link
                   /\ u.linkDropped = s.linkDropped
                   /\ \A g \in File : g # f => u.item[g] = s.item[g]
                   /\ OnlyPlaces(s, u)
         /\ LET u == place(s, f) IN u.life = s.life /\ u.source = s.source
<1>0. s \in HubShape /\ s.item \in [File -> ItemShape] /\ s.item[f] \in ItemShape
  BY HubParts DEF Inv, HubInv
<1>1. CASE s.item[f].temp = None
 <2>1. place(s, f) = s BY <1>1 DEF place
 <2>2. SendInv(s, f) /\ SinkInv(s, h, f) BY DEF SendInv, SinkInv
 <2>3. Inv(s, h, v, e, X \ {f}) BY <2>2, Release
 <2>4. OnlyPlaces(s, s) BY DEF OnlyPlaces
 <2> QED BY <2>1, <2>3, <2>4
<1>2. CASE s.item[f].temp # None
 <2> DEFINE w == settle(setState(s, f, "verifying"))
            it == [s.item[f] EXCEPT !.state = "verifying"]
 <2>1. "verifying" \in State BY DEF State, Unsettled
 <2>2. Changes(s, w, f, it) BY <1>0, <2>1, SetStateParts, ChangesSettled
 <2>3. it.state = "verifying" /\ it.sink = None /\ Alike(s.item[f], it)
  <3>1. s.item[f].sink = None BY DEF Inv, HubInv, ItemInv, WellItem
  <3> QED BY <1>0, <3>1 DEF ItemShape, Alike
 <2>a. place(s, f) = IF Reached(s)
                     THEN Ask(backendOf(w), IF s.item[f].resolution = "replace" THEN "rename" ELSE "link",
                              f, s.item[f].temp, IF s.item[f].resolution = "keep_both" THEN 1 ELSE 0,
                              FALSE, Nobody)
                     ELSE Interrupted(w, f) BY <1>2 DEF place
 <2> HIDE DEF w, it
 <2>4. Inv(w, h, v, e, X \ {f})
  <3>1. NoOn(s, f, PlaceKinds) /\ NoOn(s, f, OpenKinds) BY DEF NoOn, Before
  <3> QED BY <2>2, <2>3, <3>1, StateStep
 <2>5. /\ w \in HubShape /\ w.wire = s.wire /\ Still(s, w)
       /\ \A g \in File : g # f => w.item[g] = s.item[g]
       /\ w.item[f].state = "verifying" /\ w.item[f].temp = s.item[f].temp
       /\ w.item[f].whole = s.item[f].whole /\ w.item[f].acked = s.item[f].acked
   BY <2>2, <2>3 DEF Changes, Alike
 <2>6. s.backend = "live" => s.link = "up" BY DEF Inv, HubInv, GlobalInv, Whole
 <2>7. CASE Reached(s)
  <3>1. s.link = "up" BY <2>6, <2>7 DEF Reached
  <3> DEFINE b == backendOf(w)
             r == [k |-> IF s.item[f].resolution = "replace" THEN "rename" ELSE "link",
                   f |-> f, t |-> s.item[f].temp,
                   n |-> IF s.item[f].resolution = "keep_both" THEN 1 ELSE 0,
                   old |-> FALSE, w |-> Nobody]
  <3>2. b \in HubShape /\ Same(w, b) BY <2>5, <3>1, BackendParts DEF Still
  <3>3. Inv(b, h, v, e, X \ {f}) BY <2>4, <3>2, Agree
  <3>4. r \in ReqShape /\ Place(r) /\ r.k \notin {"finish", "unlink"} /\ r.f = f /\ r.t = s.item[f].temp
        /\ (r.k = "rename" => s.item[f].resolution = "replace")
    BY <1>0 DEF ReqShape, Kinds, PlaceKinds, Place, ItemShape
  <3>5. r.k = "rename" => r.f \in e.asked BY <3>4 DEF Inv, HubInv, ItemInv
  <3>6. place(s, f) = [b EXCEPT !.wire = Append(@, r)] BY <2>7, <2>a DEF Ask
  <3> HIDE DEF b, r
  <3>7. b.item = w.item /\ b.wire = s.wire /\ b.life = s.life /\ b.source = s.source
        /\ b.link = s.link /\ b.linkDropped = s.linkDropped BY <2>5, <3>2 DEF Same, Still
  <3>8. NoOn(b, f, Before) BY <3>7 DEF NoOn
  <3>9. s.item[f].acked = Size BY <1>2 DEF Inv, HubInv, ItemInv, WellItem
  <3>10. Inv([b EXCEPT !.wire = Append(@, r)], h, v, e, X \ {f})
   <4>1. r.f \notin X \ {f} BY <3>4
   <4> QED BY <1>2, <2>5, <3>1, <3>3, <3>4, <3>5, <3>7, <3>8, <3>9, <4>1, AskPlaceStep
  <3> DEFINE u == [b EXCEPT !.wire = Append(@, r)]
  <3>11. u.wire = Append(s.wire, r) /\ u.item = w.item /\ u.life = s.life /\ u.source = s.source
         /\ u.link = s.link /\ u.linkDropped = s.linkDropped BY <3>2, <3>7 DEF HubShape
  <3>12. s.wire \in Seq(ReqShape) BY <1>0, HubParts
  <3> HIDE DEF u
  <3>13. ASSUME NEW i \in 1..Len(u.wire)
         PROVE  Place(u.wire[i]) \/ \E j \in 1..Len(s.wire) : u.wire[i] = s.wire[j]
   <4>1. CASE i = Len(s.wire) + 1
    <5>1. u.wire[i] = r BY <3>11, <3>12, <4>1
    <5> QED BY <3>4, <5>1
   <4>2. CASE i # Len(s.wire) + 1
    <5>1. i \in 1..Len(s.wire) /\ u.wire[i] = s.wire[i] BY <3>11, <3>12, <4>2
    <5> QED BY <5>1
   <4> QED BY <4>1, <4>2
  <3>14. OnlyPlaces(s, u) BY <3>13 DEF OnlyPlaces
  <3> QED BY <2>5, <3>6, <3>10, <3>11, <3>14 DEF u
 <2>8. CASE ~Reached(s)
  <3>1. s.link = "down" /\ s.backend # "live" BY <1>0, <2>8, HubParts DEF Reached
  <3>2. w.link = "down" /\ w.backend # "live" /\ w.life = s.life /\ w.source = s.source
    BY <2>5, <3>1 DEF Still
  <3>3. ASSUME NEW g \in File, g \in (X \ {f}) \cup {f} PROVE HereInv(w, e, g)
   <4>1. HereInv(s, e, g) BY <3>3
   <4>2. w.item[g].state = "placed" <=> s.item[g].state = "placed" BY <2>5
   <4> QED BY <2>5, <4>1, <4>2 DEF HereInv, Still
  <3>4. /\ Inv(Interrupted(w, f), h, v, e, {})
        /\ Interrupted(w, f).life = w.life /\ Interrupted(w, f).source = w.source
    BY <2>4, <2>5, <3>2, <3>3, InterruptedStep
  <3>5. Inv(Interrupted(w, f), h, v, e, X \ {f}) BY <3>4, Release
  <3> QED BY <2>8, <2>a, <3>1, <3>2, <3>4, <3>5
 <2> QED BY <2>7, <2>8
<1> QED BY <1>1, <1>2

\* Every chunk of a file is written: it is checked.
LEMMA FinishStep ==
  ASSUME NEW s, NEW h, NEW v, NEW e, NEW X, Inv(s, h, v, e, X), NEW f \in File,
         s.item[f].state = "sending", s.item[f].sink # None,
         s.item[f].temp = s.item[f].sink, s.item[f].acked = Size,
         NoOn(s, f, Before), HereInv(s, e, f), s.life # "none", s.link = "up"
  PROVE  Inv(finishFile(s, f), h, v, e, X \ {f})
<1>0. s \in HubShape /\ s.item \in [File -> ItemShape] /\ s.item[f] \in ItemShape
  BY HubParts DEF Inv, HubInv
<1> DEFINE a == [setState(s, f, "verifying") EXCEPT !.item[f].sink = None]
           w == schedulePump(settle(a))
           it == [s.item[f] EXCEPT !.state = "verifying", !.sink = None]
           r == [k |-> "finish", f |-> f, t |-> s.item[f].sink, n |-> 0, old |-> FALSE, w |-> Nobody]
<1>1. "verifying" \in State BY DEF State, Unsettled
<1>2. Changes(s, w, f, it)
 <2>1. Changes(s, a, f, it) BY <1>0, <1>1, StopParts
 <2> HIDE DEF a
 <2> QED BY <2>1, ChangesSettled
<1>3. it.state = "verifying" /\ it.sink = None /\ Alike(s.item[f], it) BY <1>0 DEF ItemShape, Alike
<1>4. finishFile(s, f) = [w EXCEPT !.wire = Append(@, r)] BY DEF finishFile, AskFor, Ask
<1>5. r \in ReqShape /\ Place(r) /\ r.k = "finish" /\ r.f = f /\ r.t = s.item[f].temp
  BY <1>0 DEF ReqShape, Kinds, PlaceKinds, Place, ItemShape
<1> HIDE DEF w, it, r
<1>6. Inv(w, h, v, e, X \ {f})
 <2>1. NoOn(s, f, PlaceKinds) /\ NoOn(s, f, OpenKinds) BY DEF NoOn, Before
 <2> QED BY <1>2, <1>3, <2>1, StateStep
<1>7. /\ w.wire = s.wire /\ Still(s, w) /\ w.item[f].state = "verifying"
      /\ w.item[f].temp = s.item[f].temp /\ w.item[f].acked = s.item[f].acked
  BY <1>2, <1>3 DEF Changes, Alike
<1>8. NoOn(w, f, Before) /\ NoOn(w, f, LookKinds)
 <2>1. NoOn(s, f, LookKinds)
  <3>1. ASSUME NEW i \in 1..Len(s.wire), s.wire[i].f = f PROVE ~LookAt(s.wire[i])
   <4>1. LookInv(s, s.wire[i]) BY DEF Inv, HubInv, ReqInv
   <4> QED BY <3>1, <4>1 DEF LookInv
  <3> QED BY <3>1 DEF NoOn, LookAt
 <2> QED BY <1>7, <2>1 DEF NoOn
<1>9. w.link = "up" /\ w.life # "none" BY <1>7 DEF Still
<1>10. /\ r.f \notin X \ {f} /\ w.item[r.f].state = "verifying" /\ w.item[r.f].temp = r.t
       /\ w.item[r.f].acked = Size /\ r.t # None /\ NoOn(w, r.f, Before) /\ NoOn(w, r.f, LookKinds)
  BY <1>5, <1>7, <1>8
<1> HIDE DEF a
<1>11. Inv([w EXCEPT !.wire = Append(@, r)], h, v, e, X \ {f})
  BY ONLY <1>5, <1>6, <1>9, <1>10, AskPlaceStep
<1> QED BY <1>4, <1>11

\* What to do about a name that is taken is chosen.
LEMMA ResolutionStep ==
  ASSUME NEW s, NEW h, NEW v, NEW e, NEW X, Inv(s, h, v, e, X), NEW f \in File,
         NEW how \in {"replace", "keep_both"}, how = "replace" => f \in e.asked
  PROVE  LET u == [s EXCEPT !.item[f].resolution = how]
         IN  Inv(u, h, v, e, X) /\ Changes(s, u, f, [s.item[f] EXCEPT !.resolution = how])
<1> DEFINE u == [s EXCEPT !.item[f].resolution = how]
           it == [s.item[f] EXCEPT !.resolution = how]
<1>0. /\ s \in HubShape /\ s.item \in [File -> ItemShape] /\ s.item[f] \in ItemShape
      /\ s.unsaved \in SUBSET File /\ s.dirty \in SUBSET File /\ s.unsavedAcks \in SUBSET File
  BY HubParts DEF Inv, HubInv
<1>1. it \in ItemShape BY <1>0 DEF ItemShape
<1>a. /\ it.state = s.item[f].state /\ it.acked = s.item[f].acked /\ it.temp = s.item[f].temp
      /\ it.whole = s.item[f].whole /\ it.sink = s.item[f].sink /\ it.writing = s.item[f].writing
      /\ it.resolution = how BY <1>0 DEF ItemShape
<1>2. u = [s EXCEPT !.item = [@ EXCEPT ![f] = it], !.unsaved = s.unsaved, !.dirty = s.dirty,
                    !.unsavedAcks = s.unsavedAcks] BY <1>0 DEF HubShape
<1> HIDE DEF it
<1>3. Changes(s, u, f, it)
 <2>1. Changes(s, [s EXCEPT !.item = [@ EXCEPT ![f] = it], !.unsaved = s.unsaved, !.dirty = s.dirty,
                            !.unsavedAcks = s.unsavedAcks], f, it) BY <1>0, <1>1, PutParts, Zenon
 <2> QED BY <1>2, <2>1
<1> HIDE DEF u
<1>4. u \in HubShape /\ Still(s, u) /\ u.wire = s.wire /\ u.item[f] = it
      /\ \A g \in File : g # f => u.item[g] = s.item[g] BY <1>3 DEF Changes
<1>5. ItemInv(u, v, e, f) /\ Prefix(h, u.item[f])
 <2>1. ItemInv(s, v, e, f) /\ Prefix(h, s.item[f]) BY DEF Inv, HubInv, HostInv
 <2>2. WellItem(u.item[f]) BY <1>4, <1>a, <2>1 DEF ItemInv, WellItem
 <2>3. Named(u, e, f, u.item[f].temp) /\ Named(u, e, f, u.item[f].sink) /\ Named(u, e, f, v.item[f].temp)
   BY <1>4, <1>a, <2>1 DEF ItemInv, Named, Still
 <2> QED BY <1>4, <1>a, <2>1, <2>2, <2>3 DEF ItemInv, Still, Prefix
<1>6. ASSUME NEW i \in 1..Len(s.wire), s.wire[i].f = f
      PROVE  ReqInv(u, v, e, s.wire[i]) /\ ReqHost(u, h, s.wire[i])
 <2> DEFINE r == s.wire[i]
 <2>1. ReqInv(s, v, e, r) /\ ReqHost(s, h, r) /\ r.f = f BY <1>6 DEF Inv, HubInv, HostInv
 <2> HIDE DEF r
 <2>2. LookInv(u, r)
  <3>1. LookInv(s, r) BY <2>1 DEF ReqInv
  <3>2. \A g \in File : u.item[g].state = s.item[g].state /\ u.item[g].temp = s.item[g].temp
    BY <1>4, <1>a
  <3> QED BY <1>4, <1>a, <2>1, <3>1, <3>2 DEF LookInv, Still
 <2>3. CutInv(u, v, r) /\ CreateInv(u, v, r) BY <1>4, <1>a, <2>1 DEF ReqInv, CutInv, CreateInv
 <2>4. PlaceInv(u, e, r) /\ WriteInv(u, r) BY <1>4, <1>a, <2>1 DEF ReqInv, PlaceInv, WriteInv, Still
 <2>5. OpenInv(u, r) BY <1>4, <1>a, <2>1 DEF ReqInv, OpenInv
 <2>6. ReqInv(u, v, e, r) BY <1>4, <1>a, <2>1, <2>2, <2>3, <2>4, <2>5 DEF ReqInv, Still
 <2> QED BY <1>4, <1>a, <2>1, <2>6 DEF ReqHost, r
<1>7. ASSUME NEW i \in 1..Len(s.wire), NEW j \in 1..Len(s.wire), i < j, s.wire[i].f = f
      PROVE  PairNow(u, s.wire[i], s.wire[j])
 <2>1. PairNow(s, s.wire[i], s.wire[j]) BY <1>7 DEF Inv, HubInv
 <2> QED BY <1>4, <1>a, <1>7, <2>1 DEF PairNow
<1>8. f \in X \/ (SendInv(u, f) /\ HereInv(u, e, f) /\ SinkInv(u, h, f))
 <2> SUFFICES ASSUME f \notin X PROVE SendInv(u, f) /\ HereInv(u, e, f) /\ SinkInv(u, h, f)
   OBVIOUS
 <2>1. SendInv(s, f) /\ HereInv(s, e, f) /\ SinkInv(s, h, f) BY DEF Inv, HubInv, HostInv
 <2>2. LatestOf(u, f) <=> LatestOf(s, f) BY <1>4 DEF LatestOf
 <2> QED BY <1>4, <1>a, <2>1, <2>2 DEF SendInv, SinkInv, HereInv, Still
<1>9. u.item[f].state = "queued" /\ u.item[f].temp # None /\ u.source # Nobody
          => \A i \in 1..Len(s.wire) : ~LookAt(s.wire[i])
  BY <1>4, <1>a DEF Still, Inv, HubInv, ReqInv, LookInv
<1>10. X \subseteq X \cup {f} OBVIOUS
<1>11. Inv(u, h, v, e, X) BY <1>4, <1>5, <1>6, <1>7, <1>8, <1>9, <1>10, ItemStep
<1> QED BY <1>3, <1>11 DEF u, it

\* The name of a file that is placed is taken.
LEMMA ConflictStep ==
  ASSUME NEW s, NEW h, NEW v, NEW e, NEW X, Inv(s, h, v, e, X), NEW f \in File,
         s.item[f].whole \/ s.item[f].temp = None,
         s.item[f].state \notin {"placed", "sending"}, s.life # "none",
         NoOn(s, f, Before), NoOn(s, f, LookKinds), HereInv(s, e, f),
         \A g \in File : g \in X => HereInv(s, e, g)
  PROVE  Inv(conflictFound(s, f), h, v, e, X \ {f})
<1>0. s \in HubShape /\ s.item \in [File -> ItemShape] /\ s.item[f] \in ItemShape
      /\ s.policy \in {"ask", "replace", "keep_both", "skip"} BY HubParts DEF Inv, HubInv
<1>1. NoOn(s, f, PlaceKinds) /\ NoOn(s, f, OpenKinds) /\ NoOn(s, f, {"write"})
      /\ NoOn(s, f, OpenKinds \cup LookKinds \cup {"write", "close"}) BY DEF NoOn, Before
<1>2. CASE s.policy = "skip"
 <2>1. conflictFound(s, f) = skip(s, f) BY <1>2 DEF conflictFound
 <2> QED BY <1>1, <2>1, SkipStep
<1>3. CASE s.policy \in {"keep_both", "replace"}
 <2> DEFINE a == [s EXCEPT !.item[f].resolution = s.policy]
            it == [s.item[f] EXCEPT !.resolution = s.policy]
 <2>1. conflictFound(s, f) = place(a, f) BY <1>3 DEF conflictFound
 <2>2. s.policy = "replace" => f \in e.asked BY DEF Inv, HubInv, GlobalInv
 <2>3. Inv(a, h, v, e, X) /\ Changes(s, a, f, it) BY <1>3, <2>2, ResolutionStep
 <2>4. it.whole = s.item[f].whole /\ it.temp = s.item[f].temp /\ it.state = s.item[f].state
   BY <1>0 DEF ItemShape
 <2> HIDE DEF a, it
 <2>5. /\ a.wire = s.wire /\ a.life = s.life /\ a.item[f] = it
       /\ \A g \in File : a.item[g].state = s.item[g].state BY <2>3, <2>4 DEF Changes, Still
 <2>6. NoOn(a, f, Before) BY <2>5 DEF NoOn
 <2>7. HereInv(a, e, f) /\ \A g \in File : g \in X => HereInv(a, e, g) BY <2>5 DEF HereInv
 <2> QED BY <2>1, <2>3, <2>4, <2>5, <2>6, <2>7, PlaceStep
<1>4. CASE s.policy = "ask"
 <2> DEFINE a == setState(s, f, "conflict")
            it == [s.item[f] EXCEPT !.state = "conflict"]
 <2>1. conflictFound(s, f) = a BY <1>4 DEF conflictFound
 <2>2. "conflict" \in State BY DEF State, Unsettled
 <2>3. Changes(s, a, f, it) BY <1>0, <2>2, SetStateParts
 <2>4. it.state = "conflict" /\ it.sink = None /\ Alike(s.item[f], it)
  <3>1. s.item[f].sink = None BY DEF Inv, HubInv, ItemInv, WellItem
  <3> QED BY <1>0, <3>1 DEF ItemShape, Alike
 <2> HIDE DEF a, it
 <2>5. Inv(a, h, v, e, X \ {f}) BY <1>1, <2>3, <2>4, StateStep
 <2> QED BY <2>1, <2>5
<1> QED BY <1>0, <1>2, <1>3, <1>4

\* A file is placed: it has no temporary any more.
LEMMA PlacedStep ==
  ASSUME NEW s, NEW h, NEW v, NEW e, NEW X, Inv(s, h, v, e, X), NEW f \in File,
         f \in e.here, s.item[f].state # "sending",
         NoOn(s, f, OpenKinds \cup LookKinds \cup PlaceKinds \cup {"write", "close"})
  PROVE  Inv(filePlaced(s, f), h, v, e, X \ {f})
<1> DEFINE u == filePlaced(s, f)
           it == [s.item[f] EXCEPT !.temp = None, !.whole = FALSE, !.state = "placed"]
           I == [s.item EXCEPT ![f].temp = None, ![f].whole = FALSE, ![f].state = "placed"]
<1>0. /\ s \in HubShape /\ s.item \in [File -> ItemShape] /\ s.item[f] \in ItemShape /\ s.named \in Nat
      /\ s.unsaved \cup {f} \in SUBSET File /\ s.dirty \cup {f} \in SUBSET File
      /\ s.unsavedAcks \in SUBSET File BY HubParts DEF Inv, HubInv
<1>1. it \in ItemShape BY <1>0 DEF ItemShape, State, None
<1>a. /\ it.state = "placed" /\ it.acked = s.item[f].acked /\ it.temp = None
      /\ it.whole = FALSE /\ it.sink = s.item[f].sink /\ it.writing = s.item[f].writing
      /\ it.resolution = s.item[f].resolution BY <1>0 DEF ItemShape
<1>2. u = [s EXCEPT !.item = [@ EXCEPT ![f] = it], !.unsaved = s.unsaved \cup {f},
                    !.dirty = s.dirty \cup {f}, !.unsavedAcks = s.unsavedAcks]
 <2>1. I = [s.item EXCEPT ![f] = it] BY <1>0
 <2>2. u = [s EXCEPT !.item = I, !.unsaved = s.unsaved \cup {f}, !.dirty = s.dirty \cup {f}]
   BY <1>0 DEF filePlaced, setState, HubShape
 <2> HIDE DEF I, it
 <2> QED BY <1>0, <2>1, <2>2 DEF HubShape
<1> HIDE DEF it, u
<1>3. Changes(s, u, f, it)
 <2>1. Changes(s, [s EXCEPT !.item = [@ EXCEPT ![f] = it], !.unsaved = s.unsaved \cup {f},
                            !.dirty = s.dirty \cup {f}, !.unsavedAcks = s.unsavedAcks], f, it)
   BY <1>0, <1>1, PutParts, Zenon
 <2> QED BY <1>2, <2>1
<1>4. u \in HubShape /\ Still(s, u) /\ u.wire = s.wire /\ u.item[f] = it
      /\ \A g \in File : g # f => u.item[g] = s.item[g] BY <1>3 DEF Changes
<1>5. ItemInv(u, v, e, f) /\ Prefix(h, u.item[f])
 <2>1. ItemInv(s, v, e, f) /\ h.linked \subseteq 1..s.named BY DEF Inv, HubInv, HostInv
 <2>2. WellItem(u.item[f]) BY <1>4, <1>a, <2>1 DEF ItemInv, WellItem
 <2>3. Named(u, e, f, u.item[f].temp) /\ Named(u, e, f, u.item[f].sink) /\ Named(u, e, f, v.item[f].temp)
   BY <1>0, <1>4, <1>a, <2>1 DEF ItemInv, Named, Still, None
 <2>4. None \notin h.linked BY <1>0, <2>1 DEF None
 <2> QED BY <1>4, <1>a, <2>1, <2>2, <2>3, <2>4 DEF ItemInv, Still, Prefix
<1>6. ASSUME NEW i \in 1..Len(s.wire), s.wire[i].f = f
      PROVE  ReqInv(u, v, e, s.wire[i]) /\ ReqHost(u, h, s.wire[i])
 <2> DEFINE r == s.wire[i]
 <2>1. ReqInv(s, v, e, r) /\ ReqHost(s, h, r) /\ r.f = f BY <1>6 DEF Inv, HubInv, HostInv
 <2>2. ~Open(r) /\ ~LookAt(r) /\ ~Place(r) /\ r.k \notin {"write", "close", "create", "cut", "lookcut"}
   BY <1>6 DEF NoOn, Open, LookAt, Place, OpenKinds, LookKinds
 <2> HIDE DEF r
 <2>3. r.t # None BY <1>0, <2>1 DEF ReqInv, None
 <2>4. CutInv(u, v, r) /\ CreateInv(u, v, r) /\ PlaceInv(u, e, r) /\ WriteInv(u, r)
       /\ LookInv(u, r) /\ OpenInv(u, r)
   BY <2>2 DEF CutInv, CreateInv, PlaceInv, WriteInv, LookInv, OpenInv
 <2>6. ReqInv(u, v, e, r) BY <1>4, <1>a, <2>1, <2>2, <2>3, <2>4 DEF ReqInv, Still
 <2> QED BY <2>2, <2>6 DEF ReqHost, r
<1>7. ASSUME NEW i \in 1..Len(s.wire), NEW j \in 1..Len(s.wire), i < j, s.wire[i].f = f
      PROVE  PairNow(u, s.wire[i], s.wire[j])
 <2>1. s.wire[i].k # "write" /\ ~Latest(s.wire[i]) /\ ~LookAt(s.wire[i])
   BY <1>7 DEF NoOn, Latest, LookAt
 <2> QED BY <2>1 DEF PairNow
<1>8. SendInv(u, f) /\ HereInv(u, e, f) /\ SinkInv(u, h, f)
  BY <1>4, <1>a DEF SendInv, HereInv, SinkInv
<1>9. u.item[f].state # "queued" BY <1>4, <1>a
<1>10. X \subseteq (X \ {f}) \cup {f} OBVIOUS
<1>11. Inv(u, h, v, e, X \ {f}) BY <1>4, <1>5, <1>6, <1>7, <1>8, <1>9, <1>10, ItemStep
<1> QED BY <1>11 DEF u

\* Only what is said soon, or pumped soon, is different.
LEMMA EndsStep ==
  ASSUME NEW s, NEW h, NEW v, NEW e, NEW X, Inv(s, h, v, e, X)
  PROVE  /\ Inv(settle(s), h, v, e, X) /\ Inv(schedulePump(s), h, v, e, X)
         /\ Inv(placeEnds(s), h, v, e, X) /\ Inv(schedulePump(settle(s)), h, v, e, X)
<1>1. s \in HubShape BY DEF Inv, HubInv
<1>2. settle(s) \in HubShape /\ Same(s, settle(s)) /\ schedulePump(s) \in HubShape /\ Same(s, schedulePump(s))
  BY <1>1, SettleParts
<1>3. Inv(settle(s), h, v, e, X) /\ Inv(schedulePump(s), h, v, e, X) BY <1>2, Agree
<1>4. Inv(schedulePump(settle(s)), h, v, e, X) BY <1>2, <1>3, SettleParts, Agree
<1> QED BY <1>3, <1>4 DEF placeEnds

------------------------------
\* Answers to writing, checking and placing.

\* What is not on the wire of a file behind the request just answered.
LEMMA AfterHead ==
  ASSUME NEW s, NEW h, NEW v, NEW e, NEW r, Taken(s, h, v, e, r)
  PROVE  /\ r.f \in File /\ r.t \in Nat /\ r.n \in Nat
         /\ r.k # "close" => s.link = "up"
         /\ Named(s, e, r.f, r.t) \/ r.k = "purge"
         /\ r.t # None
         /\ Place(r) => NoOn(s, r.f, OpenKinds \cup LookKinds \cup PlaceKinds \cup {"write", "close"})
         /\ Open(r) => NoOn(s, r.f, LookKinds \cup PlaceKinds \cup {"write"})
         /\ Latest(r) => NoOn(s, r.f, OpenKinds)
         /\ Open(r) /\ r.k # "create" => \A i \in 1..Len(s.wire) : ~LookAt(s.wire[i])
         /\ r.k = "write" => NoOn(s, r.f, PlaceKinds \cup {"write", "close", "cut", "create", "reopen",
                                                           "lookcut", "lookclear"})
         /\ r.k = "close" => NoOn(s, r.f, PlaceKinds \cup {"write"})
         /\ LookAt(r) => NoOn(s, r.f, LookKinds \cup OpenKinds \cup {"write"})
         /\ r.k \in {"lookcut", "lookclear"} => NoOn(s, r.f, PlaceKinds)
<1>1. r \in ReqShape /\ ReqInv(s, v, e, r) /\ s \in HubShape BY DEF Taken, Inv, HubInv
<1>2. r.f \in File /\ r.t \in Nat /\ r.n \in Nat /\ s.link \in {"up", "down"} /\ s.named \in Nat
  BY <1>1, ReqParts, HubParts
<1>3. (r.k # "close" => s.link = "up") /\ (Named(s, e, r.f, r.t) \/ r.k = "purge") /\ r.t # None
  BY <1>1, <1>2 DEF ReqInv, Named, None
<1>4. ASSUME NEW i \in 1..Len(s.wire), s.wire[i].f = r.f, r.k # "purge"
      PROVE  s.wire[i].k = "purge" \/ Apart(r, s.wire[i])
 <2>1. PairInv(r, s.wire[i]) BY DEF Taken
 <2> QED BY <1>4, <2>1 DEF PairInv
<1>5. "purge" \notin OpenKinds \cup LookKinds \cup PlaceKinds \cup {"write", "close", "cut", "create",
                                              "reopen", "lookcut", "lookclear"}
  BY DEF OpenKinds, LookKinds, PlaceKinds
<1> USE DEF Place, Open, Latest, LookAt
<1>6. Place(r) => NoOn(s, r.f, OpenKinds \cup LookKinds \cup PlaceKinds \cup {"write", "close"})
  BY <1>4, <1>5 DEF NoOn, Apart
<1>7. Open(r) => NoOn(s, r.f, LookKinds \cup PlaceKinds \cup {"write"})
  BY <1>4, <1>5 DEF NoOn, Apart
<1>8. Latest(r) => NoOn(s, r.f, OpenKinds) BY <1>4, <1>5 DEF NoOn, Apart
<1>9. Open(r) /\ r.k # "create" => \A i \in 1..Len(s.wire) : ~LookAt(s.wire[i])
  BY DEF Taken, PairInv
<1>10. r.k = "write" => NoOn(s, r.f, PlaceKinds \cup {"write", "close", "cut", "create", "reopen",
                                                      "lookcut", "lookclear"})
  BY <1>4, <1>5 DEF NoOn, Apart
<1>11. r.k = "close" => NoOn(s, r.f, PlaceKinds \cup {"write"}) BY <1>4, <1>5 DEF NoOn, Apart
<1>12. LookAt(r) => NoOn(s, r.f, LookKinds \cup OpenKinds \cup {"write"})
  BY <1>4, <1>5 DEF NoOn, Apart
<1>13. r.k \in {"lookcut", "lookclear"} => NoOn(s, r.f, PlaceKinds) BY <1>4, <1>5 DEF NoOn, Apart
<1> QED BY <1>2, <1>3, <1>6, <1>7, <1>8, <1>9, <1>10, <1>11, <1>12, <1>13

\* A sink was closed.
LEMMA CloseDone ==
  ASSUME NEW s, NEW h, NEW v, NEW e, NEW r, Taken(s, h, v, e, r), r.k = "close"
  PROVE  Inv(closeDone(s, r), h, v, e, {})
<1>1. ~Latest(r) BY DEF Latest, OpenKinds
<1>2. Inv(s, h, v, e, {})
 <2>1. SendInv(s, r.f) /\ SinkInv(s, h, r.f) /\ HereInv(s, e, r.f) /\ Inv(s, h, v, e, {r.f})
   BY <1>1 DEF Taken
 <2> QED BY <2>1, Release
<1>3. r.f \in File /\ NoOn(s, r.f, PlaceKinds) /\ NoOn(s, r.f, {"write"}) /\ s.life # "none"
  BY AfterHead DEF NoOn, Taken
<1> QED BY <1>2, <1>3, StopEndedStep DEF closeDone

\* A temporary was removed.
LEMMA RemoveDone ==
  ASSUME NEW s, NEW h, NEW v, NEW e, NEW r, Taken(s, h, v, e, r), r.k \in {"remove", "purge"}
  PROVE  Inv(s, h, v, e, {})
<1>1. ~Latest(r) BY DEF Latest, OpenKinds
<1>2. SendInv(s, r.f) /\ SinkInv(s, h, r.f) /\ HereInv(s, e, r.f) /\ Inv(s, h, v, e, {r.f})
  BY <1>1 DEF Taken
<1> QED BY <1>2, Release

\* The file is placed, and its temporary gone.
LEMMA UnlinkDone ==
  ASSUME NEW s, NEW h, NEW v, NEW e, NEW r, Taken(s, h, v, e, r), r.k = "unlink"
  PROVE  Inv(unlinkDone(s, r), h, v, e, {})
<1>1. Place(r) BY DEF Place, PlaceKinds
<1>2. r.f \in File
      /\ NoOn(s, r.f, OpenKinds \cup LookKinds \cup PlaceKinds \cup {"write", "close"})
  BY <1>1, AfterHead
<1>3. r.f \in e.here /\ s.item[r.f].state # "sending"
 <2>1. PlaceInv(s, e, r) BY DEF Taken, ReqInv
 <2>2. ItemInv(s, v, e, r.f) BY <1>2 DEF Taken, Inv, HubInv
 <2> QED BY <1>1, <2>1, <2>2 DEF PlaceInv, ItemInv
<1>4. Inv(s, h, v, e, {r.f}) BY DEF Taken
<1>5. Inv(filePlaced(s, r.f), h, v, e, {r.f} \ {r.f}) BY <1>2, <1>3, <1>4, PlacedStep
<1>6. {r.f} \ {r.f} = {} OBVIOUS
<1> QED BY <1>5, <1>6, EndsStep DEF unlinkDone

\* The check or a placement fails, of a file whose link is up.
LEMMA PlaceFailed ==
  ASSUME NEW s, NEW h, NEW v, NEW e, NEW r, Taken(s, h, v, e, r), Place(r), HereInv(s, e, r.f)
  PROVE  Inv(fileFailed(s, r.f), h, v, e, {})
<1>2. r.f \in File
      /\ NoOn(s, r.f, OpenKinds \cup LookKinds \cup PlaceKinds \cup {"write", "close"}) BY AfterHead
<1>3. NoOn(s, r.f, PlaceKinds) /\ NoOn(s, r.f, {"write"}) BY <1>2 DEF NoOn
<1>4. s.item[r.f].state # "placed" /\ Inv(s, h, v, e, {r.f}) /\ s.life # "none"
  BY DEF Taken, ReqInv, PlaceInv
<1>5. Inv(fileFailed(s, r.f), h, v, e, {r.f} \ {r.f}) BY <1>2, <1>3, <1>4, FailStep
<1>6. {r.f} \ {r.f} = {} OBVIOUS
<1> QED BY <1>5, <1>6

\* The file was renamed over what had the name, or its temporary is lost.
LEMMA RenameDone ==
  ASSUME NEW s, NEW v, NEW e, NEW r, Taken(s, Done(host, r), v, EnvAfter(e, host, r), r),
         r.k = "rename", e \in Env,
         ~Puts(host, r) => HereInv(s, EnvAfter(e, host, r), r.f)
  PROVE  Inv(renameDone(s, r), Done(host, r), v, EnvAfter(e, host, r), {})
<1> DEFINE d == EnvAfter(e, host, r)
           h == Done(host, r)
<1>1. Place(r) BY DEF Place, PlaceKinds
<1>0. (r.t \in host.linked <=> Puts(host, r)) /\ (Puts(host, r) => r.f \in d.here)
  BY DEF Puts, EnvAfter, Env
<1> HIDE DEF d, h
<1>2. r.f \in File
      /\ NoOn(s, r.f, OpenKinds \cup LookKinds \cup PlaceKinds \cup {"write", "close"})
  BY <1>1, AfterHead
<1>3. CASE r.t \in host.linked
 <2>1. s.item[r.f].state # "sending"
  <3>1. PlaceInv(s, d, r) BY DEF Taken, ReqInv, d
  <3>2. ItemInv(s, v, d, r.f) BY <1>2 DEF Taken, Inv, HubInv, d
  <3> QED BY <1>1, <3>1, <3>2 DEF PlaceInv, ItemInv
 <2>2. Inv(s, h, v, d, {r.f}) BY DEF Taken, h, d
 <2>3. Inv(filePlaced(s, r.f), h, v, d, {r.f} \ {r.f}) BY <1>0, <1>2, <1>3, <2>1, <2>2, PlacedStep
 <2>4. {r.f} \ {r.f} = {} OBVIOUS
 <2>5. Inv(placeEnds(filePlaced(s, r.f)), h, v, d, {}) BY <2>3, <2>4, EndsStep
 <2> QED BY <1>3, <2>5 DEF renameDone, h, d
<1>4. CASE r.t \notin host.linked
 <2>1. Inv(fileFailed(s, r.f), h, v, d, {}) BY <1>0, <1>1, <1>4, PlaceFailed DEF h, d
 <2>2. Inv(placeEnds(fileFailed(s, r.f)), h, v, d, {}) BY <2>1, EndsStep
 <2> QED BY <1>4, <2>2 DEF renameDone, h, d
<1> QED BY <1>3, <1>4

(* A link is answered: the temporary's own name goes, or what has the file's  *)
\* name is a conflict, or the placement fails.
LEMMA LinkDone ==
  ASSUME NEW s, NEW v, NEW e, NEW r, Taken(s, Done(host, r), v, EnvAfter(e, host, r), r),
         r.k = "link", e \in Env, ReqHost(s, host, r), host \in HostShape,
         ~Puts(host, r) => HereInv(s, EnvAfter(e, host, r), r.f)
  PROVE  Inv(linkDone(s, r), Done(host, r), v, EnvAfter(e, host, r), {})
<1> DEFINE d == EnvAfter(e, host, r)
           h == Done(host, r)
<1>1. Place(r) BY DEF Place, PlaceKinds
<1>0. (Links(host, r) <=> Puts(host, r)) /\ (Puts(host, r) => r.f \in d.here)
  BY DEF Puts, EnvAfter, Env
<1> HIDE DEF d, h
<1>2. r.f \in File /\ r.t \in Nat /\ r.t # None /\ s.link = "up"
      /\ NoOn(s, r.f, OpenKinds \cup LookKinds \cup PlaceKinds \cup {"write", "close"})
  BY <1>1, AfterHead
<1>3. Inv(s, h, v, d, {r.f}) /\ ReqInv(s, v, d, r) /\ s.life # "none" /\ r \in ReqShape
      /\ s.item[r.f].state # "sending" /\ PlaceInv(s, d, r)
 <2>1. Inv(s, h, v, d, {r.f}) /\ ReqInv(s, v, d, r) /\ s.life # "none" /\ r \in ReqShape
   BY DEF Taken, h, d
 <2>2. PlaceInv(s, d, r) /\ ItemInv(s, v, d, r.f) BY <1>2, <2>1 DEF ReqInv, Inv, HubInv
 <2> QED BY <1>1, <2>1, <2>2 DEF PlaceInv, ItemInv
<1>4. CASE Links(host, r)
 <2> DEFINE q == [k |-> "unlink", f |-> r.f, t |-> r.t, n |-> 0, old |-> FALSE, w |-> Nobody]
 <2>1. q \in ReqShape /\ q.k = "unlink" /\ q.f = r.f /\ q.t = r.t
   BY <1>2 DEF ReqShape, Kinds, PlaceKinds
 <2>2. linkDone(s, r) = [s EXCEPT !.wire = Append(@, q)] BY <1>4 DEF linkDone, AskFor, Ask, Links
 <2>3. /\ ~Open(q) /\ ~LookAt(q) /\ ~Latest(q) /\ Place(q)
       /\ q.k \notin {"purge", "remove", "write", "close", "cut", "lookcut", "create"}
   BY <2>1 DEF Open, LookAt, Latest, Place, OpenKinds, LookKinds, PlaceKinds
 <2> HIDE DEF q
 <2>4. s.item[r.f].temp = None => FullAt(h, r.t)
  <3>1. Done(host, r) = [host EXCEPT !.target[r.f] = IF r.n = 0 THEN "ours" ELSE @,
                           !.copies[r.f] = @ + r.n, !.placed[r.f] = @ \cup {host.bytes[r.t]}]
    BY <1>4 DEF Done
  <3>2. h.linked = host.linked /\ h.bytes = host.bytes BY <3>1 DEF h, HostShape
  <3> QED BY <1>1, <3>2 DEF ReqHost, FullAt
 <2>5. ReqInv(s, v, d, q)
  <3>1. CutInv(s, v, q) /\ CreateInv(s, v, q) /\ WriteInv(s, q) /\ LookInv(s, q) /\ OpenInv(s, q)
    BY <2>3 DEF CutInv, CreateInv, WriteInv, LookInv, OpenInv
  <3>2. PlaceInv(s, d, q) BY <1>0, <1>1, <1>3, <1>4, <2>1 DEF PlaceInv
  <3> QED BY <1>2, <1>3, <2>1, <2>3, <3>1, <3>2 DEF ReqInv
 <2>6. ReqHost(s, h, q) BY <2>1, <2>4 DEF ReqHost
 <2>7. ASSUME NEW i \in 1..Len(s.wire) PROVE PairInv(s.wire[i], q) /\ PairNow(s, s.wire[i], q)
  <3>1. s.wire[i].f = r.f => /\ ~Open(s.wire[i]) /\ ~Place(s.wire[i]) /\ ~LookAt(s.wire[i])
                             /\ s.wire[i].k \notin {"write", "close", "lookcut", "lookclear"}
    BY <1>2 DEF NoOn, Open, Place, LookAt, LookKinds
  <3> QED BY <2>1, <2>3, <3>1 DEF PairInv, PairNow, Apart, Latest, Open
 <2>8. SendInv(s, q.f) /\ SinkInv(s, h, q.f) BY <1>3, <2>1 DEF SendInv, SinkInv
 <2>9. {r.f} \subseteq {} \cup {q.f} BY <2>1
 <2> QED BY <1>3, <2>1, <2>2, <2>3, <2>5, <2>6, <2>7, <2>8, <2>9, AskStep DEF h, d
<1>5. CASE ~Links(host, r) /\ r.n = 0 /\ host.target[r.f] # "free"
 <2>1. HereInv(s, d, r.f) BY <1>0, <1>5 DEF d
 <2>2. s.item[r.f].whole \/ s.item[r.f].temp = None BY <1>1, <1>3 DEF PlaceInv
 <2>3. NoOn(s, r.f, Before) /\ NoOn(s, r.f, LookKinds) BY <1>2 DEF NoOn, Before, LookKinds
 <2>4. Inv(conflictFound(s, r.f), h, v, d, {r.f} \ {r.f})
  <3>1. s.item[r.f].state \notin {"placed", "sending"} BY <1>1, <1>3 DEF PlaceInv
  <3> QED BY <1>2, <1>3, <2>1, <2>2, <2>3, <3>1, ConflictStep
 <2>5. {r.f} \ {r.f} = {} OBVIOUS
 <2>6. Inv(placeEnds(conflictFound(s, r.f)), h, v, d, {}) BY <2>4, <2>5, EndsStep
 <2> QED BY <1>5, <2>6 DEF linkDone, h, d
<1>6. CASE ~Links(host, r) /\ ~(r.n = 0 /\ host.target[r.f] # "free")
 <2>1. Inv(fileFailed(s, r.f), h, v, d, {}) BY <1>0, <1>1, <1>6, PlaceFailed DEF h, d
 <2>2. Inv(placeEnds(fileFailed(s, r.f)), h, v, d, {}) BY <2>1, EndsStep
 <2> QED BY <1>6, <2>2 DEF linkDone, h, d
<1> QED BY <1>4, <1>5, <1>6

\* A file whose bytes are all there is whole.
LEMMA WholeStep ==
  ASSUME NEW s, NEW h, NEW v, NEW e, NEW f \in File, Inv(s, h, v, e, {f}),
         s.item[f].acked = Size, s.item[f].temp # None, s.item[f].state # "sending",
         HereInv(s, e, f),
         NoOn(s, f, OpenKinds \cup LookKinds \cup PlaceKinds \cup {"write", "close"})
  PROVE  LET u == [s EXCEPT !.item[f].whole = TRUE, !.unsaved = @ \cup {f}]
             it == [s.item[f] EXCEPT !.whole = TRUE]
         IN  Inv(u, h, v, e, {f}) /\ Changes(s, u, f, it) /\ HereInv(u, e, f)
<1> DEFINE u == [s EXCEPT !.item[f].whole = TRUE, !.unsaved = @ \cup {f}]
           it == [s.item[f] EXCEPT !.whole = TRUE]
           U == s.unsaved \cup {f}
<1>0. /\ s \in HubShape /\ s.item \in [File -> ItemShape] /\ s.item[f] \in ItemShape
      /\ U \in SUBSET File /\ s.dirty \in SUBSET File /\ s.unsavedAcks \in SUBSET File
      /\ \A i \in 1..Len(s.wire) : s.wire[i] \in ReqShape BY HubParts DEF Inv, HubInv
<1>1. it \in ItemShape BY <1>0 DEF ItemShape
<1>a. /\ it.state = s.item[f].state /\ it.acked = s.item[f].acked /\ it.temp = s.item[f].temp
      /\ it.whole = TRUE /\ it.sink = s.item[f].sink /\ it.writing = s.item[f].writing
      /\ it.resolution = s.item[f].resolution BY <1>0 DEF ItemShape
<1>2. u = [s EXCEPT !.item = [@ EXCEPT ![f] = it], !.unsaved = U, !.dirty = s.dirty,
                    !.unsavedAcks = s.unsavedAcks] BY <1>0 DEF HubShape
<1> HIDE DEF it, U
<1>3. Changes(s, u, f, it)
 <2>1. Changes(s, [s EXCEPT !.item = [@ EXCEPT ![f] = it], !.unsaved = U, !.dirty = s.dirty,
                            !.unsavedAcks = s.unsavedAcks], f, it) BY <1>0, <1>1, PutParts, Zenon
 <2> QED BY <1>2, <2>1
<1> HIDE DEF u
<1>4. u \in HubShape /\ Still(s, u) /\ u.wire = s.wire /\ u.item[f] = it
      /\ \A g \in File : g # f => u.item[g] = s.item[g] BY <1>3 DEF Changes
<1>5. ItemInv(u, v, e, f) /\ Prefix(h, u.item[f])
 <2>1. ItemInv(s, v, e, f) /\ Prefix(h, s.item[f]) BY DEF Inv, HubInv, HostInv
 <2>2. WellItem(u.item[f]) BY <1>4, <1>a, <2>1 DEF ItemInv, WellItem
 <2>3. Named(u, e, f, u.item[f].temp) /\ Named(u, e, f, u.item[f].sink) /\ Named(u, e, f, v.item[f].temp)
   BY <1>4, <1>a, <2>1 DEF ItemInv, Named, Still
 <2> QED BY <1>4, <1>a, <2>1, <2>2, <2>3 DEF ItemInv, Still, Prefix
<1>6. ASSUME NEW i \in 1..Len(s.wire), s.wire[i].f = f
      PROVE  ReqInv(u, v, e, s.wire[i]) /\ ReqHost(u, h, s.wire[i])
 <2> DEFINE r == s.wire[i]
 <2>1. ReqInv(s, v, e, r) /\ ReqHost(s, h, r) /\ r.f = f BY <1>6 DEF Inv, HubInv, HostInv
 <2>2. ~Open(r) /\ ~LookAt(r) /\ ~Place(r) /\ r.k \notin {"write", "close"}
   BY <1>6 DEF NoOn, Open, LookAt, Place
 <2>3. r.k \notin {"cut", "lookcut", "create"} BY <2>2 DEF Open, LookAt, OpenKinds, LookKinds
 <2> HIDE DEF r
 <2>4. ReqInv(u, v, e, r) BY <1>4, <1>a, <2>1, <2>2, <2>3
   DEF ReqInv, CutInv, CreateInv, PlaceInv, WriteInv, LookInv, OpenInv, Still
 <2> QED BY <1>4, <1>a, <2>1, <2>4 DEF ReqHost, r
<1>7. ASSUME NEW i \in 1..Len(s.wire), NEW j \in 1..Len(s.wire), i < j, s.wire[i].f = f
      PROVE  PairNow(u, s.wire[i], s.wire[j])
 <2>1. PairNow(s, s.wire[i], s.wire[j]) BY <1>7 DEF Inv, HubInv
 <2> QED BY <1>4, <1>a, <1>7, <2>1 DEF PairNow
<1>9. u.item[f].state = "queued" /\ u.item[f].temp # None /\ u.source # Nobody
          => \A i \in 1..Len(s.wire) : ~LookAt(s.wire[i])
  BY <1>4, <1>a DEF Still, Inv, HubInv, ReqInv, LookInv
<1>10. {f} \subseteq {f} \cup {f} OBVIOUS
<1>11. Inv(u, h, v, e, {f}) BY <1>4, <1>5, <1>6, <1>7, <1>9, <1>10, ItemStep
<1>12. HereInv(u, e, f) BY <1>4, <1>a DEF HereInv, Still
<1> QED BY <1>3, <1>11, <1>12 DEF u, it

\* A file was checked: it is placed, waits in a conflict, or failed.
LEMMA FinishDone ==
  ASSUME NEW s, NEW v, NEW e, NEW r, Taken(s, host, v, e, r), r.k = "finish"
  PROVE  Inv(finishDone(s, r), host, v, e, {})
<1>1. Place(r) BY DEF Place, PlaceKinds
<1>2. r.f \in File /\ r.t \in Nat /\ r.t # None
      /\ NoOn(s, r.f, OpenKinds \cup LookKinds \cup PlaceKinds \cup {"write", "close"})
  BY <1>1, AfterHead
<1>3. Inv(s, host, v, e, {r.f}) /\ s.life # "none" /\ HereInv(s, e, r.f)
      /\ PlaceInv(s, e, r) /\ ItemInv(s, v, e, r.f) BY <1>2 DEF Taken, ReqInv, Inv, HubInv
<1>4. s.item[r.f].temp = r.t /\ s.item[r.f].acked = Size /\ s.item[r.f].state \notin {"placed", "sending"}
  BY <1>1, <1>3 DEF PlaceInv, ItemInv
<1>5. CASE Length(host.bytes[r.t]) = Size
 <2> DEFINE u == [s EXCEPT !.item[r.f].whole = TRUE, !.unsaved = @ \cup {r.f}]
            it == [s.item[r.f] EXCEPT !.whole = TRUE]
 <2>1. Inv(u, host, v, e, {r.f}) /\ Changes(s, u, r.f, it) /\ HereInv(u, e, r.f)
   BY <1>2, <1>3, <1>4, WholeStep
 <2>2. it.whole /\ it.state = s.item[r.f].state
  <3>1. s.item[r.f] \in ItemShape BY <1>2, <1>3, HubParts DEF Inv, HubInv
  <3> QED BY <3>1 DEF ItemShape
 <2> HIDE DEF u, it
 <2>3. NoOn(u, r.f, Before) /\ u.life # "none" /\ u.item[r.f] = it
   BY <1>2, <1>3, <2>1 DEF NoOn, Before, Changes, Still, LookKinds
 <2>4. Inv(place(u, r.f), host, v, e, {r.f} \ {r.f}) BY <1>2, <1>4, <2>1, <2>2, <2>3, PlaceStep
 <2>5. {r.f} \ {r.f} = {} OBVIOUS
 <2> QED BY <1>5, <2>4, <2>5 DEF finishDone, u
<1>6. CASE Length(host.bytes[r.t]) # Size
 <2>1. Inv(fileFailed(s, r.f), host, v, e, {}) BY <1>1, <1>3, PlaceFailed
 <2> QED BY <1>6, <2>1 DEF finishDone
<1> QED BY <1>5, <1>6

(* A file's bytes or its write are different, and not its state, its       *)
\* temporary or what it is written to.
LEMMA TweakStep ==
  ASSUME NEW s, NEW h, NEW v, NEW e, NEW X, Inv(s, h, v, e, X),
         NEW f \in File, NEW u, NEW it, Changes(s, u, f, it),
         it.state = s.item[f].state, it.temp = s.item[f].temp, it.sink = s.item[f].sink,
         it.resolution = s.item[f].resolution, it.whole = s.item[f].whole,
         WellItem(it), it.acked >= s.item[f].acked, Prefix(h, it),
         \A i \in 1..Len(s.wire) : s.wire[i].f = f =>
            /\ CutInv(u, v, s.wire[i]) /\ CreateInv(u, v, s.wire[i]) /\ PlaceInv(u, e, s.wire[i])
            /\ WriteInv(u, s.wire[i])
  PROVE  Inv(u, h, v, e, X)
<1>0. /\ s \in HubShape /\ s.item \in [File -> ItemShape] /\ s.item[f] \in ItemShape
      /\ v \in RowShape /\ v.item[f] \in ItemShape BY HubParts DEF Inv, HubInv, RowShape
<1>4. u \in HubShape /\ Still(s, u) /\ u.wire = s.wire /\ u.item[f] = it /\ it \in ItemShape
      /\ \A g \in File : g # f => u.item[g] = s.item[g] BY DEF Changes
<1>a. it.acked \in Nat /\ s.item[f].acked \in Nat /\ v.item[f].acked \in Nat
  BY <1>0, <1>4, ItemParts
<1>5. ItemInv(u, v, e, f)
 <2>1. ItemInv(s, v, e, f) BY DEF Inv, HubInv
 <2>3. Named(u, e, f, u.item[f].temp) /\ Named(u, e, f, u.item[f].sink) /\ Named(u, e, f, v.item[f].temp)
   BY <1>4, <2>1 DEF ItemInv, Named, Still
 <2>4. v.item[f].temp = u.item[f].temp /\ u.item[f].temp # None
         => v.item[f].acked <= u.item[f].acked BY <1>4, <1>a, <2>1 DEF ItemInv
 <2> QED BY <1>4, <2>1, <2>3, <2>4 DEF ItemInv, Still
<1>6. ASSUME NEW i \in 1..Len(s.wire), s.wire[i].f = f
      PROVE  ReqInv(u, v, e, s.wire[i]) /\ ReqHost(u, h, s.wire[i])
 <2> DEFINE r == s.wire[i]
 <2>1. ReqInv(s, v, e, r) /\ ReqHost(s, h, r) /\ r.f = f BY <1>6 DEF Inv, HubInv, HostInv
 <2>2. CutInv(u, v, r) /\ CreateInv(u, v, r) /\ PlaceInv(u, e, r) /\ WriteInv(u, r) BY <1>6
 <2> HIDE DEF r
 <2>3. LookInv(u, r)
  <3>1. LookInv(s, r) BY <2>1 DEF ReqInv
  <3>2. \A g \in File : u.item[g].state = s.item[g].state /\ u.item[g].temp = s.item[g].temp BY <1>4
  <3> QED BY <1>4, <2>1, <3>1, <3>2 DEF LookInv, Still
 <2>4. OpenInv(u, r) BY <1>4, <1>a, <2>1 DEF ReqInv, OpenInv
 <2>6. ReqInv(u, v, e, r) BY <1>4, <2>1, <2>2, <2>3, <2>4 DEF ReqInv, Still
 <2> QED BY <1>4, <2>1, <2>6 DEF ReqHost, r
<1>7. ASSUME NEW i \in 1..Len(s.wire), NEW j \in 1..Len(s.wire), i < j, s.wire[i].f = f
      PROVE  PairNow(u, s.wire[i], s.wire[j])
 <2>1. PairNow(s, s.wire[i], s.wire[j]) BY <1>7 DEF Inv, HubInv
 <2> QED BY <1>4, <1>7, <2>1 DEF PairNow
<1>8. f \in X \/ (SendInv(u, f) /\ HereInv(u, e, f) /\ SinkInv(u, h, f))
 <2> SUFFICES ASSUME f \notin X PROVE SendInv(u, f) /\ HereInv(u, e, f) /\ SinkInv(u, h, f)
   OBVIOUS
 <2>1. SendInv(s, f) /\ HereInv(s, e, f) /\ SinkInv(s, h, f) BY DEF Inv, HubInv, HostInv
 <2>2. LatestOf(u, f) <=> LatestOf(s, f) BY <1>4 DEF LatestOf
 <2> QED BY <1>4, <2>1, <2>2 DEF SendInv, SinkInv, HereInv, Still
<1>9. u.item[f].state = "queued" /\ u.item[f].temp # None /\ u.source # Nobody
          => \A i \in 1..Len(s.wire) : ~LookAt(s.wire[i])
  BY <1>4 DEF Still, Inv, HubInv, ReqInv, LookInv
<1>10. X \subseteq X \cup {f} OBVIOUS
<1> QED BY <1>4, <1>5, <1>6, <1>7, <1>8, <1>9, <1>10, ItemStep

\* A write is over.
LEMMA WrittenStep ==
  ASSUME NEW s, NEW h, NEW v, NEW e, NEW X, Inv(s, h, v, e, X), NEW f \in File,
         NoOn(s, f, {"write"})
  PROVE  LET u == [s EXCEPT !.item[f].writing = FALSE]
         IN  Inv(u, h, v, e, X) /\ Changes(s, u, f, [s.item[f] EXCEPT !.writing = FALSE])
<1> DEFINE u == [s EXCEPT !.item[f].writing = FALSE]
           it == [s.item[f] EXCEPT !.writing = FALSE]
<1>0. /\ s \in HubShape /\ s.item \in [File -> ItemShape] /\ s.item[f] \in ItemShape
      /\ s.unsaved \in SUBSET File /\ s.dirty \in SUBSET File /\ s.unsavedAcks \in SUBSET File
  BY HubParts DEF Inv, HubInv
<1>1. it \in ItemShape BY <1>0 DEF ItemShape
<1>a. /\ it.state = s.item[f].state /\ it.acked = s.item[f].acked /\ it.temp = s.item[f].temp
      /\ it.whole = s.item[f].whole /\ it.sink = s.item[f].sink /\ it.writing = FALSE
      /\ it.resolution = s.item[f].resolution BY <1>0 DEF ItemShape
<1>2. u = [s EXCEPT !.item = [@ EXCEPT ![f] = it], !.unsaved = s.unsaved, !.dirty = s.dirty,
                    !.unsavedAcks = s.unsavedAcks] BY <1>0 DEF HubShape
<1> HIDE DEF it
<1>3. Changes(s, u, f, it)
 <2>1. Changes(s, [s EXCEPT !.item = [@ EXCEPT ![f] = it], !.unsaved = s.unsaved, !.dirty = s.dirty,
                            !.unsavedAcks = s.unsavedAcks], f, it) BY <1>0, <1>1, PutParts, Zenon
 <2> QED BY <1>2, <2>1
<1> HIDE DEF u
<1>4. u.item[f] = it /\ Still(s, u) BY <1>3 DEF Changes
<1>5. WellItem(it) /\ Prefix(h, it)
 <2>1. WellItem(s.item[f]) /\ Prefix(h, s.item[f]) BY DEF Inv, HubInv, ItemInv, HostInv
 <2> QED BY <1>a, <2>1 DEF WellItem, Prefix
<1>6. it.acked >= s.item[f].acked BY <1>0, <1>a, ItemParts
<1>7. ASSUME NEW i \in 1..Len(s.wire), s.wire[i].f = f
      PROVE  /\ CutInv(u, v, s.wire[i]) /\ CreateInv(u, v, s.wire[i]) /\ PlaceInv(u, e, s.wire[i])
             /\ WriteInv(u, s.wire[i])
 <2>1. ReqInv(s, v, e, s.wire[i]) /\ s.wire[i].k # "write" BY <1>7 DEF Inv, HubInv, NoOn
 <2> QED BY <1>4, <1>7, <1>a, <2>1 DEF ReqInv, CutInv, CreateInv, PlaceInv, WriteInv, Still
<1>8. Inv(u, h, v, e, X) BY <1>3, <1>5, <1>6, <1>7, <1>a, TweakStep
<1> QED BY <1>3, <1>8 DEF u, it

\* A chunk was written.
LEMMA WriteDone ==
  ASSUME NEW s, NEW v, NEW e, NEW r, Taken(s, Done(host, r), v, e, r), r.k = "write",
         host \in HostShape, r.t \in Temp
  PROVE  Inv(writeDone(s, r), Done(host, r), v, e, {})
<1> DEFINE h == Done(host, r)
           f == r.f
           w == [s EXCEPT !.item[f].writing = FALSE]
<1>1. ~Latest(r) /\ ~Open(r) BY DEF Latest, Open, OpenKinds
<1>2. /\ f \in File /\ r.t \in Nat /\ r.t # None /\ r.n \in Nat /\ s.link = "up" /\ Named(s, e, f, r.t)
      /\ NoOn(s, r.f, PlaceKinds \cup {"write", "close", "cut", "create", "reopen",
                                       "lookcut", "lookclear"}) BY AfterHead
<1>3. Inv(s, h, v, e, {f}) /\ s.life # "none" /\ HereInv(s, e, f) /\ SendInv(s, f) /\ SinkInv(s, h, f)
      /\ ReqInv(s, v, e, r) /\ WriteInv(s, r) BY <1>1 DEF Taken, ReqInv
<1>4. /\ s.item[f].writing /\ s.item[f].temp = r.t /\ s.item[f].acked = r.n /\ r.n < Size
      /\ ~s.item[f].whole /\ s.item[f].state # "conflict" BY <1>3 DEF WriteInv, ReqInv
<1>a. r.n \in h.bytes[r.t]
 <2>1. h = [host EXCEPT !.bytes[r.t] = @ \cup {r.n}] BY DEF Done
 <2> QED BY <2>1 DEF HostShape
<1>b. /\ s \in HubShape /\ s.item \in [File -> ItemShape] /\ s.item[f] \in ItemShape
      /\ s.unsaved \in SUBSET File /\ s.dirty \in SUBSET File /\ s.unsavedAcks \in SUBSET File
  BY <1>2, <1>3, HubParts DEF Inv, HubInv
<1> HIDE DEF h
<1>5. NoOn(s, f, PlaceKinds) /\ NoOn(s, f, {"write"}) BY <1>2 DEF NoOn
<1>6. CASE s.item[f].state # "sending"
 <2>1. Inv(w, h, v, e, {f}) /\ Changes(s, w, f, [s.item[f] EXCEPT !.writing = FALSE])
   BY <1>2, <1>3, <1>5, WrittenStep
 <2>a. writeDone(s, r) = afterStop(w, f, r.t) BY <1>6 DEF writeDone
 <2> HIDE DEF w
 <2>2. /\ w.item[f].state = s.item[f].state /\ w.item[f].whole = s.item[f].whole
       /\ w.wire = s.wire /\ Still(s, w) BY <1>b, <2>1 DEF Changes, ItemShape
 <2>3. NoOn(w, f, PlaceKinds) /\ NoOn(w, f, {"write"}) /\ Named(w, e, f, r.t) /\ w.life # "none"
       /\ HereInv(w, e, f) BY <1>2, <1>3, <1>5, <2>2 DEF NoOn, Named, Still, HereInv
 <2>4. Inv(afterStop(w, f, r.t), h, v, e, {f} \ {f})
   BY <1>2, <1>4, <1>6, <2>1, <2>2, <2>3, AfterStopStep
 <2>5. {f} \ {f} = {} OBVIOUS
 <2> QED BY <2>4, <2>5, <2>a DEF h
<1>7. CASE s.item[f].state = "sending"
 <2> DEFINE a == settle([w EXCEPT !.item[f].acked = @ + 1, !.dirty = @ \cup {f},
                                  !.unsavedAcks = @ \cup {f}])
            it == [s.item[f] EXCEPT !.writing = FALSE, !.acked = @ + 1]
            D == s.dirty \cup {f}
            A == s.unsavedAcks \cup {f}
            b == [s EXCEPT !.item = [@ EXCEPT ![f] = it], !.unsaved = s.unsaved, !.dirty = D,
                           !.unsavedAcks = A]
 <2>0. it \in ItemShape /\ D \in SUBSET File /\ A \in SUBSET File
  <3> DEFINE n == s.item[f].acked + 1
  <3>1. n \in Nat BY <1>b, ItemParts
  <3>a. it = [s.item[f] EXCEPT !.writing = FALSE, !.acked = n] BY <1>b DEF ItemShape
  <3> HIDE DEF n, it
  <3>2. it \in ItemShape BY <1>b, <3>1, <3>a DEF ItemShape
  <3>3. D \in SUBSET File /\ A \in SUBSET File BY <1>2, <1>b
  <3> QED BY <3>2, <3>3
 <2>a. /\ it.state = s.item[f].state /\ it.acked = s.item[f].acked + 1 /\ it.temp = s.item[f].temp
       /\ it.whole = s.item[f].whole /\ it.sink = s.item[f].sink /\ it.writing = FALSE
       /\ it.resolution = s.item[f].resolution BY <1>b DEF ItemShape
 <2>1. a = settle(b)
  <3>1. w.item = [s.item EXCEPT ![f] = [s.item[f] EXCEPT !.writing = FALSE]] BY <1>b DEF HubShape
  <3>2. [w.item EXCEPT ![f].acked = @ + 1] = [s.item EXCEPT ![f] = it]
    BY <1>2, <1>b, <3>1 DEF ItemShape
  <3>3. [w EXCEPT !.item[f].acked = @ + 1, !.dirty = @ \cup {f}, !.unsavedAcks = @ \cup {f}] = b
    BY <1>b, <3>2 DEF HubShape
  <3> HIDE DEF w, b
  <3> QED BY <3>3
 <2>2. writeDone(s, r) = IF a.item[f].acked = Size THEN finishFile(a, f) ELSE a
   BY <1>7 DEF writeDone
 <2> HIDE DEF it, D, A
 <2>3. Changes(s, b, f, it) BY <1>2, <1>b, <2>0, PutParts, Zenon
 <2> HIDE DEF b
 <2>4. Changes(s, a, f, it) BY <2>1, <2>3, ChangesSettled
 <2> HIDE DEF a
 <2>5. a.item[f] = it /\ Still(s, a) /\ a.wire = s.wire BY <2>4 DEF Changes
 <2>6. s.item[f].acked \in Nat /\ Size \in Nat /\ h \in HostShape
   BY <1>3, <1>b, ItemParts, ConstantsAssumption DEF Inv, HostInv
 <2>7. WellItem(it) /\ it.acked >= s.item[f].acked
  <3>1. WellItem(s.item[f]) BY <1>2, <1>3 DEF Inv, HubInv, ItemInv
  <3> QED BY <1>2, <1>4, <2>6, <2>a, <3>1 DEF WellItem
 <2>8. Prefix(h, it)
  <3>1. Prefix(h, s.item[f]) BY <1>2, <1>3 DEF Inv, HostInv
  <3> QED BY <1>4, <1>a, <2>6, <2>a, <3>1 DEF Prefix
 <2>9. ASSUME NEW i \in 1..Len(s.wire), s.wire[i].f = f
       PROVE  /\ CutInv(a, v, s.wire[i]) /\ CreateInv(a, v, s.wire[i]) /\ PlaceInv(a, e, s.wire[i])
              /\ WriteInv(a, s.wire[i])
  <3>1. /\ s.wire[i].k \notin {"write", "cut", "create", "lookcut"}
        /\ ~Place(s.wire[i]) BY <1>2, <2>9 DEF NoOn, Place
  <3> QED BY <3>1 DEF CutInv, CreateInv, PlaceInv, WriteInv
 <2>10. Inv(a, h, v, e, {f}) BY <1>2, <1>3, <2>4, <2>7, <2>8, <2>9, <2>a, TweakStep
 <2>11. LatestOf(a, f) <=> LatestOf(s, f) BY <2>5 DEF LatestOf
 <2>12. SendInv(a, f) /\ SinkInv(a, h, f) /\ HereInv(a, e, f)
   BY <1>3, <2>5, <2>11, <2>a DEF SendInv, SinkInv, HereInv, Still
 <2>13. Inv(a, h, v, e, {}) BY <2>10, <2>12, Release
 <2>14. CASE a.item[f].acked = Size /\ a.item[f].sink # None
  <3>1. NoOn(s, f, OpenKinds)
   <4>1. ASSUME NEW i \in 1..Len(s.wire), s.wire[i].f = f PROVE ~Open(s.wire[i])
    <5>1. PairNow(s, r, s.wire[i]) BY DEF Taken
    <5> QED BY <2>5, <2>14, <2>a, <4>1, <5>1 DEF PairNow
   <4> QED BY <4>1 DEF NoOn, Open
  <3>2. ~LatestOf(s, f) BY <3>1 DEF NoOn, LatestOf, Latest
  <3>3. s.item[f].temp = s.item[f].sink BY <1>3, <1>7, <2>14, <2>5, <2>a, <3>2 DEF SendInv
  <3>4. NoOn(a, f, Before) BY <1>2, <2>5, <3>1 DEF NoOn, Before
  <3>5. a.life # "none" /\ a.link = "up" BY <1>2, <1>3, <2>5 DEF Still
  <3>6. Inv(finishFile(a, f), h, v, e, {} \ {f})
    BY <1>2, <1>7, <2>5, <2>12, <2>13, <2>14, <2>a, <3>3, <3>4, <3>5, FinishStep
  <3>7. {} \ {f} = {} OBVIOUS
  <3> QED BY <2>2, <2>14, <3>6, <3>7 DEF h
 <2>15. CASE ~(a.item[f].acked = Size /\ a.item[f].sink # None)
  <3>1. writeDone(s, r) = a BY <2>2, <2>15 DEF finishFile
  <3> QED BY <2>13, <3>1 DEF h
 <2> QED BY <2>14, <2>15
<1> QED BY <1>6, <1>7

\* What is being opened or written fails.
LEMMA OpenFailedStep ==
  ASSUME NEW s, NEW h, NEW v, NEW e, NEW f \in File, Inv(s, h, v, e, {f}), HereInv(s, e, f),
         NoOn(s, f, PlaceKinds), NoOn(s, f, {"write"}), s.life # "none"
  PROVE  Inv(openFailed(s, f), h, v, e, {})
<1>1. CASE s.item[f].state = "sending"
 <2>1. Inv(fileFailed(s, f), h, v, e, {f} \ {f}) BY <1>1, FailStep
 <2>2. {f} \ {f} = {} OBVIOUS
 <2> QED BY <1>1, <2>1, <2>2 DEF openFailed
<1>2. CASE s.item[f].state # "sending"
 <2>1. SendInv(s, f) /\ SinkInv(s, h, f) BY <1>2 DEF SendInv, SinkInv
 <2>2. Inv(s, h, v, e, {}) BY <2>1, Release
 <2> QED BY <1>2, <2>2 DEF openFailed
<1> QED BY <1>1, <1>2

\* The write is open.
LEMMA OpenedStep ==
  ASSUME NEW s, NEW h, NEW v, NEW e, NEW r, Taken(s, h, v, e, r),
         r.k \in {"create", "reopen"}, r.t \in h.linked
  PROVE  Inv(opened(s, r.f, r.t), h, v, e, {})
<1> DEFINE f == r.f
<1>1. Open(r) /\ (Latest(r) <=> ~r.old) /\ r.k \notin {"link", "unlink", "rename"}
  BY DEF Open, Latest, OpenKinds
<1>2. /\ f \in File /\ r.t \in Nat /\ r.t # None /\ s.link = "up" /\ Named(s, e, f, r.t)
      /\ NoOn(s, f, LookKinds \cup PlaceKinds \cup {"write"})
      /\ Latest(r) => NoOn(s, f, OpenKinds)
 <2>1. r.k # "close" /\ r.k # "purge" OBVIOUS
 <2> QED BY <1>1, <2>1, AfterHead
<1>3. /\ Inv(s, h, v, e, {f}) /\ s.life # "none" /\ HereInv(s, e, f) /\ ReqInv(s, v, e, r)
      /\ OpenInv(s, r) /\ CreateInv(s, v, r) /\ (r.old => LatestOf(s, f)) BY <1>1 DEF Taken, ReqInv
<1>4. ~s.item[f].whole /\ s.item[f].state # "conflict" BY <1>1, <1>3 DEF ReqInv
<1>b. /\ s \in HubShape /\ s.item \in [File -> ItemShape] /\ s.item[f] \in ItemShape
      /\ s.unsaved \in SUBSET File /\ s.dirty \in SUBSET File /\ s.unsavedAcks \in SUBSET File
  BY <1>2, <1>3, HubParts DEF Inv, HubInv
<1>5. NoOn(s, f, PlaceKinds) /\ NoOn(s, f, {"write"}) BY <1>2 DEF NoOn
<1>6. CASE s.item[f].state # "sending"
 <2>1. s.item[f].sink = None BY <1>2, <1>3, <1>6 DEF Inv, HubInv, ItemInv, WellItem
 <2>2. [s EXCEPT !.item[f].sink = None] = s
  <3>1. [s.item[f] EXCEPT !.sink = None] = s.item[f] BY <1>b, <2>1 DEF ItemShape
  <3>2. [s.item EXCEPT ![f] = [s.item[f] EXCEPT !.sink = None]] = s.item BY <1>b, <3>1
  <3> QED BY <1>b, <3>2 DEF HubShape
 <2>3. opened(s, f, r.t) = afterStop(s, f, r.t) BY <1>6, <2>2 DEF opened
 <2>4. Inv(afterStop(s, f, r.t), h, v, e, {f} \ {f}) BY <1>2, <1>3, <1>4, <1>5, <1>6, AfterStopStep
 <2>5. {f} \ {f} = {} OBVIOUS
 <2> QED BY <2>3, <2>4, <2>5
<1>7. CASE s.item[f].state = "sending"
 <2> DEFINE o == [s EXCEPT !.item[f].sink = r.t]
            it == [s.item[f] EXCEPT !.sink = r.t]
 <2>1. it \in ItemShape BY <1>2, <1>b DEF ItemShape
 <2>a. /\ it.state = s.item[f].state /\ it.acked = s.item[f].acked /\ it.temp = s.item[f].temp
       /\ it.whole = s.item[f].whole /\ it.sink = r.t /\ it.writing = s.item[f].writing
       /\ it.resolution = s.item[f].resolution BY <1>b DEF ItemShape
 <2>2. o = [s EXCEPT !.item = [@ EXCEPT ![f] = it], !.unsaved = s.unsaved, !.dirty = s.dirty,
                     !.unsavedAcks = s.unsavedAcks] BY <1>b DEF HubShape
 <2>b. opened(s, f, r.t) = IF o.item[f].acked = Size THEN finishFile(o, f) ELSE o BY <1>7 DEF opened
 <2> HIDE DEF it
 <2>3. Changes(s, o, f, it)
  <3>1. Changes(s, [s EXCEPT !.item = [@ EXCEPT ![f] = it], !.unsaved = s.unsaved, !.dirty = s.dirty,
                             !.unsavedAcks = s.unsavedAcks], f, it)
    BY <1>2, <1>b, <2>1, PutParts, Zenon
  <3> QED BY <2>2, <3>1
 <2> HIDE DEF o
 <2>4. o \in HubShape /\ Still(s, o) /\ o.wire = s.wire /\ o.item[f] = it
       /\ \A g \in File : g # f => o.item[g] = s.item[g] BY <2>3 DEF Changes
 <2>5. ItemInv(o, v, e, f) /\ Prefix(h, o.item[f])
  <3>1. ItemInv(s, v, e, f) /\ Prefix(h, s.item[f]) BY <1>2, <1>3 DEF Inv, HubInv, HostInv
  <3>0. ~s.item[f].whole BY <1>4
  <3>2. WellItem(o.item[f]) BY <1>7, <2>4, <2>a, <3>0, <3>1 DEF ItemInv, WellItem
  <3>3. Named(o, e, f, o.item[f].temp) /\ Named(o, e, f, o.item[f].sink) /\ Named(o, e, f, v.item[f].temp)
    BY <1>2, <2>4, <2>a, <3>1 DEF ItemInv, Named, Still
  <3> QED BY <2>4, <2>a, <3>1, <3>2, <3>3 DEF ItemInv, Still, Prefix
 <2>6. ASSUME NEW i \in 1..Len(s.wire), s.wire[i].f = f
       PROVE  ReqInv(o, v, e, s.wire[i]) /\ ReqHost(o, h, s.wire[i])
  <3> DEFINE q == s.wire[i]
  <3>1. ReqInv(s, v, e, q) /\ ReqHost(s, h, q) /\ q.f = f BY <1>3, <2>6 DEF Inv, HubInv, HostInv
  <3>2. ~LookAt(q) /\ ~Place(q) /\ q.k # "write" BY <1>2, <2>6 DEF NoOn, LookAt, Place
  <3> HIDE DEF q
  <3>3. CutInv(o, v, q) /\ CreateInv(o, v, q) /\ PlaceInv(o, e, q) /\ WriteInv(o, q) /\ LookInv(o, q)
    BY <2>4, <2>a, <3>1, <3>2 DEF ReqInv, CutInv, CreateInv, PlaceInv, WriteInv, LookInv
  <3>4. OpenInv(o, q) BY <2>4, <2>a, <3>1 DEF ReqInv, OpenInv
  <3>5. ReqInv(o, v, e, q) BY <2>4, <2>a, <3>1, <3>2, <3>3, <3>4 DEF ReqInv, Still
  <3> QED BY <2>4, <2>a, <3>1, <3>5 DEF ReqHost, q
 <2>7. ASSUME NEW i \in 1..Len(s.wire), NEW j \in 1..Len(s.wire), i < j, s.wire[i].f = f
       PROVE  PairNow(o, s.wire[i], s.wire[j])
  <3>1. PairNow(s, s.wire[i], s.wire[j]) /\ s.wire[i].k # "write"
    BY <1>3, <1>5, <2>7 DEF Inv, HubInv, NoOn
  <3> QED BY <2>4, <2>7, <2>a, <3>1 DEF PairNow
 <2>8. LatestOf(o, f) <=> LatestOf(s, f) BY <2>4 DEF LatestOf
 <2>c. ~r.old => /\ s.item[f].temp = r.t
                 /\ \A i \in 1..Len(s.wire) : s.wire[i].f = f => s.wire[i].k # "close"
  <3>1. ~r.old => s.item[f].temp = r.t BY <1>1, <1>3, <1>7 DEF OpenInv
  <3>2. ASSUME NEW i \in 1..Len(s.wire), s.wire[i].f = f, ~r.old PROVE s.wire[i].k # "close"
   <4>1. PairNow(s, r, s.wire[i]) BY DEF Taken
   <4> QED BY <1>1, <1>7, <3>2, <4>1 DEF PairNow
  <3> QED BY <3>1, <3>2
 <2>9. SendInv(o, f) /\ HereInv(o, e, f) /\ SinkInv(o, h, f)
  <3>1. HereInv(o, e, f) BY <1>3, <2>4, <2>a DEF HereInv, Still
  <3>2. SinkInv(o, h, f) BY <2>4, <2>a DEF SinkInv
  <3>3. SendInv(o, f) BY <1>3, <2>4, <2>8, <2>a, <2>c DEF SendInv
  <3> QED BY <3>1, <3>2, <3>3
 <2>10. {f} \subseteq {} \cup {f} OBVIOUS
 <2>11. Inv(o, h, v, e, {})
  <3>1. o.item[f].state # "queued" BY <1>7, <2>4, <2>a
  <3> QED BY <1>2, <1>3, <2>4, <2>5, <2>6, <2>7, <2>9, <2>10, <3>1, ItemStep
 <2>12. CASE o.item[f].acked # Size BY <2>11, <2>12, <2>b
 <2>13. CASE o.item[f].acked = Size
  <3>1. ~r.old
   <4>1. r.k # "create" BY <1>3, <2>4, <2>13, <2>a, ConstantsAssumption DEF CreateInv
   <4> QED BY <1>1, <1>3, <4>1 DEF OpenInv
  <3>2. NoOn(o, f, Before)
   <4>1. NoOn(s, f, OpenKinds) BY <1>1, <1>2, <3>1
   <4>2. NoOn(s, f, {"close"}) BY <2>c, <3>1 DEF NoOn
   <4> QED BY <1>2, <2>4, <4>1, <4>2 DEF NoOn, Before, LookKinds
  <3>3. o.life # "none" /\ o.link = "up" BY <1>2, <1>3, <2>4 DEF Still
  <3>4. Inv(finishFile(o, f), h, v, e, {} \ {f})
    BY <1>2, <1>7, <2>4, <2>9, <2>11, <2>13, <2>a, <2>c, <3>1, <3>2, <3>3, FinishStep
  <3>5. {} \ {f} = {} OBVIOUS
  <3> QED BY <2>13, <2>b, <3>4, <3>5
 <2> QED BY <2>12, <2>13
<1> QED BY <1>6, <1>7

\* A temporary was opened again, or is not there.
LEMMA ReopenDone ==
  ASSUME NEW s, NEW v, NEW e, NEW r, Taken(s, host, v, e, r), r.k = "reopen"
  PROVE  Inv(reopenDone(s, r), host, v, e, {})
<1>1. CASE r.t \in host.linked BY <1>1, OpenedStep DEF reopenDone
<1>2. CASE r.t \notin host.linked
 <2>1. Open(r) /\ r.k \notin {"link", "unlink", "rename"} BY DEF Open, OpenKinds
 <2>2. r.f \in File /\ NoOn(s, r.f, LookKinds \cup PlaceKinds \cup {"write"}) BY <2>1, AfterHead
 <2>3. NoOn(s, r.f, PlaceKinds) /\ NoOn(s, r.f, {"write"}) BY <2>2 DEF NoOn
 <2>4. Inv(s, host, v, e, {r.f}) /\ HereInv(s, e, r.f) /\ s.life # "none" BY <2>1 DEF Taken
 <2> QED BY <1>2, <2>2, <2>3, <2>4, OpenFailedStep DEF reopenDone
<1> QED BY <1>1, <1>2

\* A temporary was made.
LEMMA CreateDone ==
  ASSUME NEW s, NEW v, NEW e, NEW r, Taken(s, Done(host, r), v, e, r), r.k = "create",
         ReqHost(s, host, r), host \in HostShape, r.t \in Temp
  PROVE  Inv(createDone(s, r), Done(host, r), v, e, {})
<1>1. r.t \notin host.linked BY DEF ReqHost
<1>2. Done(host, r) = [host EXCEPT !.linked = @ \cup {r.t}, !.bytes[r.t] = {}] BY <1>1 DEF Done
<1>3. r.t \in Done(host, r).linked BY <1>2 DEF HostShape
<1> QED BY <1>1, <1>3, OpenedStep DEF createDone

------------------------------
\* A temporary is named.

\* One more temporary is named.
LEMMA NameStep ==
  ASSUME NEW s, NEW h, NEW v, NEW e, NEW X, Inv(s, h, v, e, X), NEW f \in File
  PROVE  LET u == [s EXCEPT !.named = @ + 1]
             d == [e EXCEPT !.own = [@ EXCEPT ![s.named + 1] = f]]
         IN  /\ Inv(u, h, v, d, X) /\ SameEnv(e, d) /\ d.own[s.named + 1] = f
             /\ Fresh(u, h, v, f, s.named + 1) /\ s.named + 1 \in Nat
<1> DEFINE u == [s EXCEPT !.named = @ + 1]
           d == [e EXCEPT !.own = [@ EXCEPT ![s.named + 1] = f]]
           n == s.named
<1>0. /\ s \in HubShape /\ v \in RowShape /\ e \in Env /\ n \in Nat
      /\ s.item \in [File -> ItemShape] /\ s.removal \subseteq Nat
      /\ \A i \in 1..Len(s.wire) : s.wire[i] \in ReqShape BY HubParts DEF Inv, HubInv
<1>1. /\ u.item = s.item /\ u.wire = s.wire /\ u.named = n + 1 /\ u.life = s.life /\ u.link = s.link
      /\ u.source = s.source /\ u.backend = s.backend /\ u.linkDropped = s.linkDropped
      /\ u.removal = s.removal /\ u.policy = s.policy BY <1>0 DEF HubShape
<1>2. u \in HubShape
 <2>1. n + 1 \in Nat BY <1>0
 <2>2. u = [s EXCEPT !.named = n + 1] OBVIOUS
 <2> HIDE DEF u, n
 <2> QED BY <1>0, <2>1, <2>2 DEF HubShape
<1>3. d \in Env /\ SameEnv(e, d) /\ d.own[n + 1] = f /\ \A t \in Nat : t # n + 1 => d.own[t] = e.own[t]
 <2>1. e.own \in [Nat -> File] /\ n + 1 \in Nat BY <1>0 DEF Env
 <2>2. [e.own EXCEPT ![n + 1] = f] \in [Nat -> File] BY <2>1
 <2>3. d = [e EXCEPT !.own = [e.own EXCEPT ![n + 1] = f]] OBVIOUS
 <2>4. d.own = [e.own EXCEPT ![n + 1] = f] /\ d.here = e.here /\ d.asked = e.asked /\ d.broken = e.broken
   BY <1>0, <2>3 DEF Env
 <2>5. d \in Env BY <1>0, <2>2, <2>3 DEF Env
 <2> QED BY <2>1, <2>4, <2>5 DEF SameEnv
<1> HIDE DEF u, d, n
<1>4. ASSUME NEW g \in File, NEW t \in Nat, Named(s, e, g, t) PROVE Named(u, d, g, t) /\ t # n + 1
 <2>1. t <= n /\ (t # None => e.own[t] = g) BY <1>4 DEF Named, n
 <2> QED BY <1>0, <1>1, <1>3, <2>1 DEF Named
<1>5. ASSUME NEW g \in File
      PROVE  ItemInv(u, v, d, g) /\ v.item[g].temp # n + 1 /\ s.item[g].temp # n + 1
 <2>1. ItemInv(s, v, e, g) BY DEF Inv, HubInv
 <2>2. s.item[g].temp \in Nat /\ s.item[g].sink \in Nat /\ v.item[g].temp \in Nat
   BY <1>0, ItemParts DEF RowShape
 <2>3. /\ Named(u, d, g, s.item[g].temp) /\ Named(u, d, g, s.item[g].sink)
       /\ Named(u, d, g, v.item[g].temp) /\ v.item[g].temp # n + 1 /\ s.item[g].temp # n + 1
   BY <1>4, <2>1, <2>2 DEF ItemInv
 <2> QED BY <1>1, <1>3, <2>1, <2>3 DEF ItemInv, SameEnv
<1>6. ASSUME NEW i \in 1..Len(s.wire)
      PROVE  ReqInv(u, v, d, s.wire[i]) /\ ReqHost(u, h, s.wire[i]) /\ s.wire[i].t # n + 1
 <2> DEFINE r == s.wire[i]
 <2>1. ReqInv(s, v, e, r) /\ ReqHost(s, h, r) /\ r.t \in Nat
   BY <1>0, ReqParts DEF Inv, HubInv, HostInv
 <2> HIDE DEF r
 <2>2. r.t \in 1..n /\ (r.k # "purge" => e.own[r.t] = r.f) BY <2>1 DEF ReqInv, n
 <2>3. r.t \in 1..u.named /\ r.t # n + 1 /\ (r.k # "purge" => d.own[r.t] = r.f)
   BY <1>0, <1>1, <1>3, <2>1, <2>2
 <2>4. CutInv(u, v, r) /\ CreateInv(u, v, r) /\ WriteInv(u, r) /\ OpenInv(u, r)
   BY <1>1, <2>1 DEF ReqInv, CutInv, CreateInv, WriteInv, OpenInv
 <2>5. PlaceInv(u, d, r) /\ LookInv(u, r) BY <1>1, <1>3, <2>1 DEF ReqInv, PlaceInv, LookInv, SameEnv
 <2>6. ReqInv(u, v, d, r) BY <1>1, <2>1, <2>3, <2>4, <2>5 DEF ReqInv
 <2> QED BY <1>1, <2>1, <2>3, <2>6 DEF ReqHost, r
<1>7. GlobalInv(u, v, d)
 <2>1. GlobalInv(s, v, e) BY DEF Inv, HubInv
 <2>2. u.removal \subseteq 1..u.named BY <1>0, <1>1, <2>1 DEF GlobalInv, Whole, n
 <2> QED BY <1>1, <1>3, <2>1, <2>2 DEF GlobalInv, Whole, SameEnv
<1>8. ASSUME NEW i \in 1..Len(u.wire), NEW j \in 1..Len(u.wire), i < j
      PROVE  PairInv(u.wire[i], u.wire[j]) /\ PairNow(u, u.wire[i], u.wire[j])
 <2>1. PairInv(s.wire[i], s.wire[j]) /\ PairNow(s, s.wire[i], s.wire[j])
   BY <1>1, <1>8 DEF Inv, HubInv
 <2> QED BY <1>1, <2>1 DEF PairNow
<1>9. OldInv(u) BY <1>1 DEF Inv, HubInv, OldInv
<1>10. ASSUME NEW g \in File \ X PROVE SendInv(u, g) /\ HereInv(u, d, g) /\ SinkInv(u, h, g)
 <2>1. SendInv(s, g) /\ HereInv(s, e, g) /\ SinkInv(s, h, g) BY DEF Inv, HubInv, HostInv
 <2> QED BY <1>1, <1>3, <2>1 DEF SendInv, HereInv, SinkInv, LatestOf, SameEnv
<1>11. HubInv(u, v, d, X) BY <1>0, <1>1, <1>2, <1>3, <1>5, <1>6, <1>7, <1>8, <1>9, <1>10 DEF HubInv
<1>12. h.linked \subseteq 1..u.named /\ n + 1 \notin h.linked
 <2>1. h.linked \subseteq 1..n BY DEF Inv, HostInv, n
 <2> QED BY <1>0, <1>1, <2>1
<1>13. HostInv(u, h, v, d, 0, X)
 <2>1. HostInv(s, h, v, e, 0, X) BY DEF Inv
 <2> QED BY <1>1, <1>3, <1>6, <1>10, <1>12, <2>1 DEF HostInv, SameEnv
<1>14. Fresh(u, h, v, f, n + 1) BY <1>1, <1>5, <1>6, <1>12 DEF Fresh
<1>15. n + 1 \in Nat BY <1>0
<1> QED BY <1>3, <1>11, <1>13, <1>14, <1>15 DEF Inv, u, d, n

\* A request that is to open a file is sent.
LEMMA AskOpenStep ==
  ASSUME NEW s, NEW h, NEW v, NEW e, NEW q \in ReqShape, Inv(s, h, v, e, {q.f}),
         q.k \in OpenKinds, ~q.old, s.life # "none", s.link = "up",
         s.item[q.f].temp = q.t, q.t # None, ~s.item[q.f].whole,
         s.item[q.f].state \notin {"verifying", "placed", "skipped", "conflict", "queued"},
         q.k # "create" => \A i \in 1..Len(s.wire) : ~LookAt(s.wire[i]),
         q.k = "create" => /\ s.item[q.f].acked = 0 /\ v.item[q.f].temp # q.t
                           /\ q.t \notin h.linked /\ \A i \in 1..Len(s.wire) : s.wire[i].t # q.t,
         q.k \in {"stat", "cut", "reopen"} => s.item[q.f].acked > 0,
         q.k = "cut" => q.n = s.item[q.f].acked,
         NoOn(s, q.f, OpenKinds \cup LookKinds \cup PlaceKinds \cup {"write"}),
         HereInv(s, e, q.f)
  PROVE  Inv([s EXCEPT !.wire = Append(@, q)], h, v, e, {})
<1> DEFINE f == q.f
<1>1. f \in File /\ q.t \in Nat /\ s \in HubShape /\ s.named \in Nat
      /\ s.item[f] \in ItemShape /\ s.item[f].acked \in Nat
  BY ReqParts, HubParts, ItemParts DEF Inv, HubInv
<1>2. /\ Open(q) /\ Latest(q) /\ ~LookAt(q) /\ ~Place(q)
      /\ q.k \notin {"purge", "remove", "write", "close", "lookcut", "lookclear"}
  BY DEF Open, Latest, LookAt, Place, OpenKinds, LookKinds, PlaceKinds
<1>3. ItemInv(s, v, e, f) BY <1>1 DEF Inv, HubInv
<1>4. ReqInv(s, v, e, q)
 <2>1. q.t \in 1..s.named /\ e.own[q.t] = q.f BY <1>1, <1>3 DEF ItemInv, Named, None
 <2>2. CutInv(s, v, q) BY <1>1, <1>2, <1>3 DEF CutInv, ItemInv
 <2>3. CreateInv(s, v, q) /\ PlaceInv(s, e, q) /\ WriteInv(s, q) /\ LookInv(s, q)
   BY <1>2 DEF CreateInv, PlaceInv, WriteInv, LookInv
 <2>4. OpenInv(s, q) BY DEF OpenInv
 <2> QED BY <1>2, <2>1, <2>2, <2>3, <2>4 DEF ReqInv
<1>5. ReqHost(s, h, q) BY <1>2 DEF ReqHost
<1>6. ASSUME NEW i \in 1..Len(s.wire) PROVE PairInv(s.wire[i], q) /\ PairNow(s, s.wire[i], q)
 <2> DEFINE a == s.wire[i]
 <2>1. a.f = f => ~Open(a) /\ ~Place(a) /\ ~LookAt(a) /\ a.k # "write" /\ ~Latest(a)
   BY DEF NoOn, Open, Place, LookAt, Latest
 <2>2. LookAt(a) => q.k = "create" OBVIOUS
 <2>3. q.k = "create" => a.t # q.t OBVIOUS
 <2> HIDE DEF a
 <2>4. PairInv(a, q) BY <1>2, <2>1, <2>2, <2>3 DEF PairInv, Apart
 <2>5. PairNow(s, a, q) BY <1>2, <2>1 DEF PairNow
 <2> QED BY <2>4, <2>5 DEF a
<1>7. {q.f} \subseteq {} \cup {q.f} OBVIOUS
<1> QED BY <1>2, <1>4, <1>5, <1>6, <1>7, AskStep

\* A file gets a temporary of its own, which is to be created.
LEMMA NewTempStep ==
  ASSUME NEW s, NEW h, NEW v, NEW e, NEW f \in File, Inv(s, h, v, e, {f}),
         s.life # "none", s.link = "up", s.item[f].temp = None,
         s.item[f].state \notin {"verifying", "placed", "skipped", "conflict", "queued"},
         NoOn(s, f, OpenKinds \cup LookKinds \cup PlaceKinds \cup {"write"}), HereInv(s, e, f)
  PROVE  \E d : SameEnv(e, d) /\ Inv(newTemp(s, f, FALSE), h, v, d, {})
<1> DEFINE t == s.named + 1
           a == [s EXCEPT !.named = @ + 1]
           d == [e EXCEPT !.own = [@ EXCEPT ![t] = f]]
           it == [s.item[f] EXCEPT !.temp = t]
           U == s.unsaved \cup {f}
           b == [a EXCEPT !.item = [@ EXCEPT ![f] = it], !.unsaved = U, !.dirty = s.dirty,
                          !.unsavedAcks = s.unsavedAcks]
           q == [k |-> "create", f |-> f, t |-> t, n |-> 0, old |-> FALSE, w |-> Nobody]
<1>0. /\ s \in HubShape /\ s.item \in [File -> ItemShape] /\ s.item[f] \in ItemShape
      /\ U \in SUBSET File /\ s.dirty \in SUBSET File /\ s.unsavedAcks \in SUBSET File
      /\ s.named \in Nat BY HubParts DEF Inv, HubInv
<1>1. /\ Inv(a, h, v, d, {f}) /\ SameEnv(e, d) /\ d.own[t] = f /\ Fresh(a, h, v, f, t) /\ t \in Nat
      /\ t # None
 <2>1. t # None BY <1>0 DEF None
 <2> QED BY <2>1, NameStep
<1>2. /\ a.item = s.item /\ a.wire = s.wire /\ a.named = t /\ a.life = s.life /\ a.link = s.link
      /\ a.source = s.source /\ a.unsaved = s.unsaved /\ a.dirty = s.dirty
      /\ a.unsavedAcks = s.unsavedAcks BY <1>0 DEF HubShape
<1>3. newTemp(s, f, FALSE) = [b EXCEPT !.wire = Append(@, q)]
 <2>1. [s EXCEPT !.named = @ + 1, !.item[f].temp = s.named + 1, !.unsaved = @ \cup {f}] = b
   BY <1>0 DEF HubShape
 <2>2. newTemp(s, f, FALSE)
         = [[s EXCEPT !.named = @ + 1, !.item[f].temp = s.named + 1, !.unsaved = @ \cup {f}]
              EXCEPT !.wire = Append(@, q)] BY DEF newTemp, Ask
 <2> HIDE DEF b, q
 <2> QED BY <2>1, <2>2
<1>4. it \in ItemShape
 <2> HIDE DEF t
 <2> QED BY <1>0, <1>1 DEF ItemShape
<1>a. /\ it.state = s.item[f].state /\ it.acked = s.item[f].acked /\ it.temp = t
      /\ it.whole = s.item[f].whole /\ it.sink = s.item[f].sink /\ it.writing = s.item[f].writing
      /\ it.resolution = s.item[f].resolution BY <1>0 DEF ItemShape
<1>5. q \in ReqShape /\ q.k = "create" /\ q.f = f /\ q.t = t /\ q.old = FALSE /\ q.k \in OpenKinds
 <2> HIDE DEF t
 <2> QED BY <1>1 DEF ReqShape, Kinds, OpenKinds
<1>b. a \in HubShape BY <1>1 DEF Inv, HubInv
<1> HIDE DEF t, a, d, it, q, U
<1>6. Changes(a, b, f, it) BY <1>0, <1>4, <1>b, PutParts, Zenon
<1> HIDE DEF b
<1>7. b \in HubShape /\ Still(a, b) /\ b.wire = a.wire /\ b.item[f] = it
      /\ \A g \in File : g # f => b.item[g] = a.item[g] BY <1>6 DEF Changes
<1>8. ItemInv(a, v, d, f) /\ Inv(s, h, v, e, {f}) BY <1>1 DEF Inv, HubInv
<1>9. ~s.item[f].whole /\ s.item[f].acked = 0 BY <1>2, <1>8 DEF ItemInv, WellItem
<1>10. ItemInv(b, v, d, f) /\ Prefix(h, b.item[f])
 <2>1. WellItem(b.item[f]) BY <1>1, <1>2, <1>7, <1>8, <1>9, <1>a DEF ItemInv, WellItem
 <2>2. Named(b, d, f, b.item[f].temp) /\ Named(b, d, f, b.item[f].sink) /\ Named(b, d, f, v.item[f].temp)
  <3>1. Named(b, d, f, t) BY <1>1, <1>2, <1>7 DEF Named, Still
  <3> QED BY <1>2, <1>7, <1>8, <1>a, <3>1 DEF ItemInv, Named, Still
 <2>3. v.item[f].temp # b.item[f].temp BY <1>1, <1>7, <1>a DEF Fresh
 <2>4. Prefix(h, b.item[f]) BY <1>1, <1>7, <1>a DEF Prefix, Fresh
 <2> QED BY <1>2, <1>7, <1>8, <1>a, <2>1, <2>2, <2>3, <2>4 DEF ItemInv, Still
<1>11. ASSUME NEW i \in 1..Len(a.wire), a.wire[i].f = f
       PROVE  ReqInv(b, v, d, a.wire[i]) /\ ReqHost(b, h, a.wire[i])
 <2> DEFINE r == a.wire[i]
 <2>1. ReqInv(a, v, d, r) /\ ReqHost(a, h, r) /\ r.f = f /\ r.t # t
   BY <1>1, <1>11 DEF Inv, HubInv, HostInv, Fresh
 <2>2. ~LookAt(r) /\ ~Place(r) /\ ~Open(r) /\ r.k # "write"
   BY <1>2, <1>11 DEF NoOn, LookAt, Place, Open
 <2>3. r.k \notin {"cut", "lookcut", "create"} BY <2>2 DEF LookAt, Open, LookKinds, OpenKinds
 <2> HIDE DEF r
 <2>4. ReqInv(b, v, d, r) BY <1>2, <1>7, <1>a, <2>1, <2>2, <2>3
   DEF ReqInv, CutInv, CreateInv, PlaceInv, WriteInv, LookInv, OpenInv, Still
 <2> QED BY <2>1, <2>2, <2>3, <2>4 DEF ReqHost, r
<1>12. ASSUME NEW i \in 1..Len(a.wire), NEW j \in 1..Len(a.wire), i < j, a.wire[i].f = f
       PROVE  PairNow(b, a.wire[i], a.wire[j])
 <2>1. PairNow(a, a.wire[i], a.wire[j]) BY <1>1, <1>12 DEF Inv, HubInv
 <2> QED BY <1>2, <1>7, <1>12, <1>a, <2>1 DEF PairNow
<1>13. Inv(b, h, v, d, {f})
 <2>1. b.item[f].state # "queued" BY <1>7, <1>a
 <2>2. {f} \subseteq {f} \cup {f} OBVIOUS
 <2> QED BY <1>1, <1>7, <1>10, <1>11, <1>12, <2>1, <2>2, ItemStep
<1>14. NoOn(b, f, OpenKinds \cup LookKinds \cup PlaceKinds \cup {"write"}) BY <1>2, <1>7 DEF NoOn
<1>15. HereInv(b, d, f) BY <1>1, <1>2, <1>7, <1>a DEF HereInv, Still, SameEnv
<1>16. b.life # "none" /\ b.link = "up" /\ b.item[f].temp = t /\ ~b.item[f].whole /\ b.item[f].acked = 0
       /\ b.item[f].state = s.item[f].state BY <1>2, <1>7, <1>9, <1>a DEF Still
<1>17. /\ v.item[f].temp # t /\ t \notin h.linked /\ \A i \in 1..Len(b.wire) : b.wire[i].t # t
  BY <1>1, <1>7 DEF Fresh
<1>18. Inv([b EXCEPT !.wire = Append(@, q)], h, v, d, {})
  BY <1>1, <1>5, <1>13, <1>14, <1>15, <1>16, <1>17, AskOpenStep
<1> QED BY <1>1, <1>3, <1>18

\* How much the host says a temporary holds.
LEMMA LengthIn ==
  ASSUME NEW B \in SUBSET Chunks PROVE Length(B) \in 0..Size /\ \A c \in B : c < Length(B)
<1>0. Size \in Nat BY ConstantsAssumption
<1>1. CASE B = {} BY <1>0, <1>1 DEF Length
<1>2. CASE B # {}
 <2> DEFINE V == {n \in Nat : Size - n \in B}
 <2>1. V # {}
  <3>1. PICK c \in B : TRUE BY <1>2
  <3>2. c \in 0..(Size - 1) BY <3>1 DEF Chunks
  <3>3. Size - c \in Nat /\ Size - (Size - c) = c BY <1>0, <3>2
  <3> QED BY <3>1, <3>3
 <2>2. PICK m \in V : \A y \in V : ~ (<<y, m>> \in OpToRel(<, Nat))
  <3>1. V \subseteq Nat OBVIOUS
  <3> HIDE DEF V
  <3> QED BY <2>1, <3>1, NatLessThanWellFounded, WFMin, Zenon
 <2>3. \A y \in V : ~ (y < m) BY <2>2 DEF OpToRel
 <2>4. Size - m \in B /\ m \in Nat OBVIOUS
 <2>5. ASSUME NEW c \in B PROVE Size - m >= c
  <3>1. c \in 0..(Size - 1) BY DEF Chunks
  <3>2. Size - c \in Nat /\ Size - (Size - c) = c BY <1>0, <3>1
  <3>3. Size - c \in V BY <3>2
  <3>4. ~(Size - c < m) BY <2>3, <3>3
  <3> QED BY <1>0, <2>4, <3>1, <3>4
 <2>6. \E x \in B : \A y \in B : x >= y BY <2>4, <2>5
 <2>7. Max(B) \in B /\ \A y \in B : Max(B) >= y BY <2>6 DEF Max
 <2>8. Length(B) = Max(B) + 1 BY <1>2 DEF Length
 <2>9. B \subseteq 0..(Size - 1) BY DEF Chunks
 <2> DEFINE M == Max(B)
 <2>10. M \in 0..(Size - 1) /\ Length(B) = M + 1 BY <2>7, <2>8, <2>9
 <2> HIDE DEF V, M
 <2>11. ASSUME NEW c \in B PROVE c < M + 1
  <3>1. M >= c /\ c \in 0..(Size - 1) BY <2>7, <2>9 DEF M
  <3> QED BY <1>0, <2>10, <3>1
 <2>12. M + 1 \in 0..Size BY <1>0, <2>10
 <2> QED BY <2>10, <2>11, <2>12
<1> QED BY <1>1, <1>2

\* The size the host gives of a temporary, or -1.
LEMMA SizeIn ==
  ASSUME NEW h \in HostShape, NEW t
  PROVE  /\ SizeOf(h, t) \in Int
         /\ t \in h.linked => SizeOf(h, t) = Length(h.bytes[t]) /\ SizeOf(h, t) >= 0
         /\ t \notin h.linked => SizeOf(h, t) = -1
<1>1. CASE t \in h.linked
 <2>1. h.bytes[t] \in SUBSET Chunks BY <1>1 DEF HostShape
 <2>2. Length(h.bytes[t]) \in 0..Size BY <2>1, LengthIn
 <2> QED BY <1>1, <2>2, ConstantsAssumption DEF SizeOf
<1>2. CASE t \notin h.linked BY <1>2 DEF SizeOf
<1> QED BY <1>1, <1>2

\* The open of a file that goes on: what its answer finds.
LEMMA OpenGoesOn ==
  ASSUME NEW s, NEW h, NEW v, NEW e, NEW r, Taken(s, h, v, e, r), r.k \in {"stat", "cut", "clear"}
  PROVE  /\ r.f \in File /\ r.t \in Nat /\ r.t # None /\ s.link = "up" /\ s.life # "none"
         /\ r.old = FALSE /\ Inv(s, h, v, e, {r.f}) /\ HereInv(s, e, r.f)
         /\ s.item[r.f].temp \in {None, r.t} /\ ~s.item[r.f].whole
         /\ s.item[r.f].state \notin {"verifying", "placed", "skipped", "conflict", "queued"}
         /\ s.item[r.f].temp # None /\ r.k # "clear" => s.item[r.f].acked > 0
         /\ \A i \in 1..Len(s.wire) : ~LookAt(s.wire[i])
         /\ NoOn(s, r.f, OpenKinds \cup LookKinds \cup PlaceKinds \cup {"write"})
         /\ s.item[r.f].acked \in Nat
<1>1. Open(r) /\ r.k # "create" /\ r.k # "close" /\ r.k \notin {"link", "unlink", "rename"}
  BY DEF Open, OpenKinds
<1>2. ReqInv(s, v, e, r) /\ OpenInv(s, r) /\ Inv(s, h, v, e, {r.f}) /\ HereInv(s, e, r.f) /\ s.life # "none"
      /\ r \in ReqShape BY <1>1 DEF Taken, ReqInv
<1>3. r.old = FALSE BY <1>1, <1>2, ReqParts DEF OpenInv
<1>4. Latest(r) BY <1>1, <1>3 DEF Latest, Open
<1>5. /\ r.f \in File /\ r.t \in Nat /\ r.t # None /\ s.link = "up"
      /\ NoOn(s, r.f, LookKinds \cup PlaceKinds \cup {"write"}) /\ NoOn(s, r.f, OpenKinds)
      /\ \A i \in 1..Len(s.wire) : ~LookAt(s.wire[i]) BY <1>1, <1>4, AfterHead
<1>6. NoOn(s, r.f, OpenKinds \cup LookKinds \cup PlaceKinds \cup {"write"}) BY <1>5 DEF NoOn
<1>7. /\ s.item[r.f].temp \in {None, r.t} /\ ~s.item[r.f].whole
      /\ s.item[r.f].state \notin {"verifying", "placed", "skipped", "conflict", "queued"}
      /\ s.item[r.f].temp # None /\ r.k # "clear" => s.item[r.f].acked > 0
  BY <1>1, <1>2, <1>3 DEF OpenInv, ReqInv
<1>8. s.item[r.f].acked \in Nat BY <1>2, <1>5, HubParts, ItemParts DEF Inv, HubInv
<1> QED BY <1>2, <1>3, <1>5, <1>6, <1>7, <1>8

\* The temporary the file has is cleared, cut or opened.
LEMMA GoOnStep ==
  ASSUME NEW s, NEW h, NEW v, NEW e, NEW r, Taken(s, h, v, e, r), r.k \in {"stat", "cut"},
         s.item[r.f].temp # None
  PROVE  /\ Inv(Ask(s, "clear", r.f, s.item[r.f].temp, 0, r.old, Nobody), h, v, e, {})
         /\ Inv(Ask(s, "cut", r.f, s.item[r.f].temp, s.item[r.f].acked, r.old, Nobody), h, v, e, {})
         /\ Inv(openTemp(s, r.f, r.old), h, v, e, {})
<1> DEFINE f == r.f
           q(k, n) == [k |-> k, f |-> f, t |-> s.item[f].temp, n |-> n, old |-> r.old, w |-> Nobody]
<1>1. /\ f \in File /\ r.t \in Nat /\ r.t # None /\ s.link = "up" /\ s.life # "none" /\ r.old = FALSE
      /\ Inv(s, h, v, e, {f}) /\ HereInv(s, e, f) /\ s.item[f].temp = r.t /\ ~s.item[f].whole
      /\ s.item[f].state \notin {"verifying", "placed", "skipped", "conflict", "queued"}
      /\ s.item[f].acked > 0 /\ s.item[f].acked \in Nat
      /\ \A i \in 1..Len(s.wire) : ~LookAt(s.wire[i])
      /\ NoOn(s, f, OpenKinds \cup LookKinds \cup PlaceKinds \cup {"write"})
 <2>a. r.t # None BY AfterHead
 <2>1. CASE r.k = "stat" BY <2>1, <2>a, OpenGoesOn
 <2>2. CASE r.k = "cut" BY <2>2, <2>a, OpenGoesOn
 <2> QED BY <2>1, <2>2
<1>2. ASSUME NEW u, Inv(u, h, v, e, {f}), u.wire = s.wire, u.item = s.item, u.life = s.life,
             u.link = s.link,
             NEW k \in {"clear", "cut", "reopen"}, NEW n \in Nat, k = "cut" => n = s.item[f].acked
      PROVE  Inv([u EXCEPT !.wire = Append(@, q(k, n))], h, v, e, {})
 <2> DEFINE p == q(k, n)
 <2>1. /\ p \in ReqShape /\ p.k = k /\ p.f = f /\ p.t = s.item[f].temp /\ p.n = n /\ p.old = FALSE
       /\ p.k \in OpenKinds /\ p.k # "create" BY <1>1 DEF ReqShape, Kinds, OpenKinds
 <2> HIDE DEF p
 <2>2. NoOn(u, f, OpenKinds \cup LookKinds \cup PlaceKinds \cup {"write"}) /\ HereInv(u, e, f)
   BY <1>1, <1>2 DEF NoOn, HereInv
 <2>3. Inv([u EXCEPT !.wire = Append(@, p)], h, v, e, {}) BY <1>1, <1>2, <2>1, <2>2, AskOpenStep
 <2> QED BY <2>3 DEF p
<1>3. Inv([s EXCEPT !.wire = Append(@, q("clear", 0))], h, v, e, {}) BY <1>1, <1>2
<1>4. Inv([s EXCEPT !.wire = Append(@, q("cut", s.item[f].acked))], h, v, e, {}) BY <1>1, <1>2
<1>5. Inv(openTemp(s, f, r.old), h, v, e, {})
 <2> DEFINE u == [s EXCEPT !.unsaved = @ \cup {f}]
 <2>1. s \in HubShape /\ s.unsaved \cup {f} \subseteq File BY <1>1, HubParts DEF Inv, HubInv
 <2>2. u \in HubShape /\ Same(s, u) BY <2>1 DEF HubShape, Same
 <2>3. openTemp(s, f, r.old) = [u EXCEPT !.wire = Append(@, q("reopen", 0))]
  <3>1. s.item[f].acked # 0 BY <1>1
  <3> QED BY <3>1, Zenon DEF openTemp, Ask
 <2> HIDE DEF u
 <2>4. Inv(u, h, v, e, {f}) /\ u.wire = s.wire /\ u.item = s.item /\ u.life = s.life /\ u.link = s.link
   BY <1>1, <2>2, Agree DEF Same
 <2>5. Inv([u EXCEPT !.wire = Append(@, q("reopen", 0))], h, v, e, {}) BY <1>2, <2>4
 <2> QED BY <2>3, <2>5
<1> QED BY <1>3, <1>4, <1>5 DEF Ask

\* A file that was stopped meanwhile gets another temporary.
LEMMA NoTempStep ==
  ASSUME NEW s, NEW h, NEW v, NEW e, NEW r, Taken(s, h, v, e, r), r.k \in {"stat", "cut"},
         s.item[r.f].temp = None
  PROVE  \E d : SameEnv(e, d) /\ Inv(newTemp(s, r.f, r.old), h, v, d, {})
<1>1. /\ r.f \in File /\ s.link = "up" /\ s.life # "none" /\ r.old = FALSE
      /\ Inv(s, h, v, e, {r.f}) /\ HereInv(s, e, r.f)
      /\ s.item[r.f].state \notin {"verifying", "placed", "skipped", "conflict", "queued"}
      /\ NoOn(s, r.f, OpenKinds \cup LookKinds \cup PlaceKinds \cup {"write"})
 <2>1. r.k \in {"stat", "cut", "clear"} OBVIOUS
 <2> QED BY <2>1, OpenGoesOn, Zenon
<1> QED BY <1>1, NewTempStep

\* The size of a temporary is known before it is opened again.
LEMMA StatDone ==
  ASSUME NEW s, NEW v, NEW e, NEW r, Taken(s, host, v, e, r), r.k = "stat"
  PROVE  \E d : SameEnv(e, d) /\ Inv(statDone(s, r), host, v, d, {})
<1>0. SameEnv(e, e) BY DEF SameEnv
<1>1. CASE s.item[r.f].temp = None BY <1>1, NoTempStep DEF statDone
<1>2. CASE s.item[r.f].temp # None
 <2>1. /\ Inv(Ask(s, "clear", r.f, s.item[r.f].temp, 0, r.old, Nobody), host, v, e, {})
       /\ Inv(Ask(s, "cut", r.f, s.item[r.f].temp, s.item[r.f].acked, r.old, Nobody), host, v, e, {})
       /\ Inv(openTemp(s, r.f, r.old), host, v, e, {}) BY <1>2, GoOnStep
 <2> DEFINE z == SizeOf(host, r.t)
            n == s.item[r.f].acked
 <2>2. statDone(s, r) = CASE z < n -> Ask(s, "clear", r.f, s.item[r.f].temp, 0, r.old, Nobody)
                          [] z > n -> Ask(s, "cut", r.f, s.item[r.f].temp, n, r.old, Nobody)
                          [] OTHER -> openTemp(s, r.f, r.old) BY <1>2 DEF statDone
 <2> HIDE DEF z, n
 <2>3. /\ z < n /\ ~(z > n) => statDone(s, r) = Ask(s, "clear", r.f, s.item[r.f].temp, 0, r.old, Nobody)
       /\ ~(z < n) /\ z > n => statDone(s, r) = Ask(s, "cut", r.f, s.item[r.f].temp, n, r.old, Nobody)
       /\ ~(z < n) /\ ~(z > n) => statDone(s, r) = openTemp(s, r.f, r.old) BY <2>2, Zenon
 <2>4. ~(z < n /\ z > n)
  <3>1. n \in Nat BY OpenGoesOn DEF n
  <3>2. z \in Int
   <4>1. host \in HostShape /\ r \in ReqShape BY DEF Taken, Inv, HostInv
   <4> QED BY <4>1, SizeIn DEF z
  <3> QED BY <3>1, <3>2
 <2> QED BY <1>0, <2>1, <2>3, <2>4 DEF n
<1> QED BY <1>1, <1>2

\* A temporary was cut to what is acknowledged of it.
LEMMA CutDone ==
  ASSUME NEW s, NEW h, NEW v, NEW e, NEW r, Taken(s, h, v, e, r), r.k = "cut"
  PROVE  \E d : SameEnv(e, d) /\ Inv(cutDone(s, r), h, v, d, {})
<1>0. SameEnv(e, e) BY DEF SameEnv
<1>1. CASE s.item[r.f].temp = None BY <1>1, NoTempStep DEF cutDone
<1>2. CASE s.item[r.f].temp # None
 <2>1. /\ Inv(Ask(s, "clear", r.f, s.item[r.f].temp, 0, r.old, Nobody), h, v, e, {})
       /\ Inv(openTemp(s, r.f, r.old), h, v, e, {}) BY <1>2, GoOnStep
 <2> QED BY <1>0, <1>2, <2>1 DEF cutDone
<1> QED BY <1>1, <1>2

\* A temporary that is too short was removed: another is made.
LEMMA ClearDone ==
  ASSUME NEW s, NEW h, NEW v, NEW e, NEW r, Taken(s, h, v, e, r), r.k = "clear"
  PROVE  \E d : SameEnv(e, d) /\ Inv(clearDone(s, r), h, v, d, {})
<1> DEFINE f == r.f
           u == restartFile(s, f)
<1>1. /\ f \in File /\ s.link = "up" /\ s.life # "none" /\ r.old = FALSE
      /\ Inv(s, h, v, e, {f}) /\ HereInv(s, e, f)
      /\ s.item[f].state \notin {"verifying", "placed", "skipped", "conflict", "queued"}
      /\ NoOn(s, f, OpenKinds \cup LookKinds \cup PlaceKinds \cup {"write"}) BY OpenGoesOn
<1>2. clearDone(s, r) = newTemp(u, f, FALSE) BY <1>1 DEF clearDone
<1>3. /\ Inv(u, h, v, e, {f})
      /\ Changes(s, u, f, [s.item[f] EXCEPT !.acked = 0, !.temp = None, !.whole = FALSE])
 <2>1. NoOn(s, f, {"write"}) /\ NoOn(s, f, OpenKinds) /\ NoOn(s, f, PlaceKinds) BY <1>1 DEF NoOn
 <2>2. f \in {f} OBVIOUS
 <2> QED BY <1>1, <2>1, <2>2, RestartStep
<1> HIDE DEF u
<1>4. /\ u.item[f].temp = None /\ u.item[f].state = s.item[f].state
      /\ u.wire = s.wire /\ Still(s, u)
 <2>1. s.item[f] \in ItemShape BY <1>1, HubParts DEF Inv, HubInv
 <2> QED BY <1>3, <2>1 DEF Changes, ItemShape
<1>5. NoOn(u, f, OpenKinds \cup LookKinds \cup PlaceKinds \cup {"write"}) /\ HereInv(u, e, f)
      /\ u.life # "none" /\ u.link = "up" BY <1>1, <1>4 DEF NoOn, HereInv, Still
<1> QED BY <1>1, <1>2, <1>3, <1>4, <1>5, NewTempStep

------------------------------
\* Asking again.

\* The elements of a finite set, each once.
LEMMA SetInOrder ==
  ASSUME NEW S, IsFiniteSet(S)
  PROVE  /\ SetToSeq(S) \in Seq(S) /\ Len(SetToSeq(S)) \in Nat
         /\ \A i \in 1..Len(SetToSeq(S)) : SetToSeq(S)[i] \in S
         /\ \A i, j \in 1..Len(SetToSeq(S)) : SetToSeq(S)[i] = SetToSeq(S)[j] => i = j
<1> DEFINE n == Cardinality(S)
<1>1. n \in Nat /\ ExistsBijection(1..n, S) BY FS_CardinalityType
<1> HIDE DEF n
<1>2. \E b \in [1..n -> S] : IsInjective(b) BY <1>1 DEF ExistsBijection, Bijection, Injection
<1>3. SetToSeq(S) = CHOOSE b \in [1..n -> S] : IsInjective(b) BY DEF SetToSeq, n
<1>4. SetToSeq(S) \in [1..n -> S] /\ IsInjective(SetToSeq(S)) BY <1>2, <1>3
<1>5. ASSUME NEW q, q \in [1..n -> S], IsInjective(q)
      PROVE  /\ q \in Seq(S) /\ Len(q) \in Nat
             /\ \A i \in 1..Len(q) : q[i] \in S
             /\ \A i, j \in 1..Len(q) : q[i] = q[j] => i = j
 <2>1. \A i, j \in 1..n : q[i] = q[j] => i = j BY <1>5 DEF IsInjective
 <2>2. q \in Seq(S) /\ Len(q) = n BY <1>1, <1>5
 <2> QED BY <1>1, <1>5, <2>1, <2>2
<1> QED BY <1>4, <1>5, Zenon

\* A file is queued again, or placed when it is whole.
LEMMA RequeueStep ==
  ASSUME NEW s, NEW h, NEW v, NEW e, Inv(s, h, v, e, {}), NEW f \in File,
         s.life = "kept", s.item[f].state \in AskAgain \cup {"conflict"},
         ~s.item[f].whole =>
            /\ NoOn(s, f, LookKinds) /\ NoOn(s, f, OpenKinds \ {"create"})
            /\ \/ s.item[f].temp = None
               \/ /\ ~(s.linkDropped /\ s.source # Nobody)
                  /\ \A i \in 1..Len(s.wire) : ~LookAt(s.wire[i])
  PROVE  /\ Inv(requeue(s, f), h, v, e, {})
         /\ s.link = "up" =>
               LET u == requeue(s, f)
               IN  /\ u.life = s.life /\ u.source = s.source /\ u.link = s.link
                   /\ u.linkDropped = s.linkDropped
                   /\ \A g \in File : g # f => u.item[g] = s.item[g]
                   /\ OnlyPlaces(s, u)
<1>0. s \in HubShape /\ s.item \in [File -> ItemShape] /\ s.item[f] \in ItemShape
  BY HubParts DEF Inv, HubInv
<1>1. HereInv(s, e, f) /\ ItemInv(s, v, e, f) /\ s.life # "none" BY DEF Inv, HubInv
<1>2. s.item[f].state \notin {"placed", "sending", "verifying", "queued"} /\ s.item[f].sink = None
  BY <1>1 DEF AskAgain, ItemInv, WellItem
<1>3. NoOn(s, f, PlaceKinds)
 <2>1. ASSUME NEW i \in 1..Len(s.wire), s.wire[i].f = f PROVE ~Place(s.wire[i])
  <3>1. PlaceInv(s, e, s.wire[i]) BY DEF Inv, HubInv, ReqInv
  <3> QED BY <1>2, <2>1, <3>1 DEF PlaceInv
 <2> QED BY <2>1 DEF NoOn, Place
<1>4. CASE s.item[f].whole
 <2>1. NoOn(s, f, Before)
  <3>1. ASSUME NEW i \in 1..Len(s.wire), s.wire[i].f = f
        PROVE  ~Open(s.wire[i]) /\ s.wire[i].k \notin {"write", "close", "lookcut", "lookclear"}
   <4>1. ReqInv(s, v, e, s.wire[i]) /\ LookInv(s, s.wire[i]) BY DEF Inv, HubInv, ReqInv
   <4>2. ~Open(s.wire[i]) /\ s.wire[i].k \notin {"write", "close"} BY <1>4, <3>1, <4>1 DEF ReqInv
   <4>3. s.wire[i].k \notin {"lookcut", "lookclear"}
     BY <1>4, <3>1, <4>1 DEF LookInv, LookAt, LookKinds
   <4> QED BY <4>2, <4>3
  <3> QED BY <1>3, <3>1 DEF NoOn, Before, Open
 <2>2. requeue(s, f) = place(s, f) BY <1>4 DEF requeue
 <2>3. {} \ {f} = {} OBVIOUS
 <2>a. s.item[f].state \notin {"placed", "sending"} BY <1>2
 <2>b. \A g \in File : g \in {} => HereInv(s, e, g) OBVIOUS
 <2>4. /\ Inv(place(s, f), h, v, e, {} \ {f})
       /\ s.link = "up" =>
             LET u == place(s, f)
             IN  /\ u.life = s.life /\ u.source = s.source /\ u.link = s.link
                 /\ u.linkDropped = s.linkDropped
                 /\ \A g \in File : g # f => u.item[g] = s.item[g]
                 /\ OnlyPlaces(s, u) BY <1>1, <1>4, <2>1, <2>a, <2>b, PlaceStep
 <2> QED BY <2>2, <2>3, <2>4
<1>5. CASE ~s.item[f].whole
 <2> DEFINE a == setState(s, f, "queued")
            u == [a EXCEPT !.queue = Append(@, f)]
            it == [s.item[f] EXCEPT !.state = "queued"]
 <2>1. "queued" \in State BY DEF State, Unsettled
 <2>2. Changes(s, a, f, it) BY <1>0, <2>1, SetStateParts
 <2>3. it.state = "queued" /\ it.sink = None /\ Alike(s.item[f], it)
   BY <1>0, <1>2 DEF ItemShape, Alike
 <2>4. requeue(s, f) = u BY <1>5 DEF requeue
 <2> HIDE DEF a, it
 <2>5. Inv(a, h, v, e, {} \ {f}) BY <1>1, <1>2, <1>3, <1>5, <2>2, <2>3, StateStep
 <2>6. a \in HubShape /\ a.wire = s.wire /\ Still(s, a) /\ \A g \in File : g # f => a.item[g] = s.item[g]
   BY <2>2 DEF Changes
 <2>7. u \in HubShape /\ Same(a, u)
  <3>1. Append(a.queue, f) \in Seq(File) BY <2>6, HubParts
  <3>2. u = [a EXCEPT !.queue = Append(a.queue, f)] OBVIOUS
  <3> DEFINE Q == Append(a.queue, f)
  <3> HIDE DEF Q, u
  <3> QED BY <2>6, <3>1, <3>2 DEF HubShape, Same, Q
 <2> HIDE DEF u
 <2>8. {} \ {f} = {} OBVIOUS
 <2>9. Inv(u, h, v, e, {}) BY <2>5, <2>7, <2>8, Agree
 <2>10. /\ u.life = s.life /\ u.source = s.source /\ u.link = s.link /\ u.linkDropped = s.linkDropped
        /\ u.item = a.item /\ u.wire = s.wire BY <2>6, <2>7 DEF Same, Still
 <2>11. OnlyPlaces(s, u) BY <2>10 DEF OnlyPlaces
 <2> QED BY <2>4, <2>6, <2>9, <2>10, <2>11
<1> QED BY <1>4, <1>5

\* A wire that only gained placements.
LEMMA OnlyPlacesOn ==
  ASSUME NEW s, NEW u, NEW w
  PROVE  /\ OnlyPlaces(s, u) /\ OnlyPlaces(u, w) => OnlyPlaces(s, w)
         /\ OnlyPlaces(s, s)
         /\ \A f, K : OnlyPlaces(s, u) /\ NoOn(s, f, K) /\ K \cap PlaceKinds = {} => NoOn(u, f, K)
         /\ OnlyPlaces(s, u) /\ (\A i \in 1..Len(s.wire) : ~LookAt(s.wire[i]))
               => \A i \in 1..Len(u.wire) : ~LookAt(u.wire[i])
<1>1. OnlyPlaces(s, u) /\ OnlyPlaces(u, w) => OnlyPlaces(s, w) BY DEF OnlyPlaces
<1>2. OnlyPlaces(s, s) BY DEF OnlyPlaces
<1>3. ASSUME NEW f, NEW K, OnlyPlaces(s, u), NoOn(s, f, K), K \cap PlaceKinds = {}
      PROVE  NoOn(u, f, K) BY <1>3 DEF OnlyPlaces, NoOn, Place
<1>4. OnlyPlaces(s, u) /\ (\A i \in 1..Len(s.wire) : ~LookAt(s.wire[i]))
                 => \A i \in 1..Len(u.wire) : ~LookAt(u.wire[i])
  BY DEF OnlyPlaces, Place, LookAt, PlaceKinds, LookKinds
<1> QED BY <1>1, <1>2, <1>3, <1>4

\* The files asked for again, each queued or placed in turn.
LEMMA RequeueAllStep ==
  ASSUME NEW s, NEW h, NEW v, NEW e, Inv(s, h, v, e, {}), NEW F \in SUBSET File,
         \A f \in F : s.item[f].state \in AskAgain /\ NoOn(s, f, OpenKinds \ {"create"}),
         s.life = "kept", s.link = "up",
         \A i \in 1..Len(s.wire) : ~LookAt(s.wire[i])
  PROVE  Inv(requeueAll(s, F), h, v, e, {})
<1> DEFINE q == SetToSeq(F)
           N == Len(q)
<1>1. IsFiniteSet(F) BY ConstantsAssumption, FS_Subset
<1>2. /\ N \in Nat /\ \A i \in 1..N : q[i] \in F
      /\ \A i, j \in 1..N : q[i] = q[j] => i = j
 <2>1. /\ Len(SetToSeq(F)) \in Nat
       /\ \A i \in 1..Len(SetToSeq(F)) : SetToSeq(F)[i] \in F
       /\ \A i, j \in 1..Len(SetToSeq(F)) : SetToSeq(F)[i] = SetToSeq(F)[j] => i = j
   BY <1>1, SetInOrder, Zenon
 <2> QED BY <2>1
<1> HIDE DEF q
<1>3. PICK a : /\ a[0] = s
               /\ \A n \in 1..N : a[n] = requeue(a[n - 1], q[n])
               /\ RequeueRun(s, q) = a[N]
 <2>1. Len(q) \in Nat BY <1>2
 <2>2. \E a : /\ a[0] = s
              /\ \A n \in 1..Len(q) : a[n] = requeue(a[n - 1], q[n])
              /\ RequeueRun(s, q) = a[Len(q)]
  <3> HIDE DEF N
  <3> QED BY <2>1, RequeueLoop
 <2> QED BY <2>2
<1> DEFINE L(n) == /\ Inv(a[n], h, v, e, {}) /\ a[n].life = "kept" /\ a[n].link = "up"
                   /\ \A m \in 1..N : m > n => a[n].item[q[m]] = s.item[q[m]]
                   /\ OnlyPlaces(s, a[n])
           S == {n \in 0..N : L(n)}
<1> HIDE DEF N
<1>4. 0 \in S
 <2>1. L(0) BY <1>3, OnlyPlacesOn
 <2> HIDE DEF L
 <2> QED BY <1>2, <2>1
<1>5. ASSUME NEW n \in 0..(N - 1), n \in S PROVE n + 1 \in S
 <2> DEFINE b == a[n]
            c == a[n + 1]
            f == q[n + 1]
 <2>1. L(n) /\ n + 1 \in 1..N /\ n + 1 > n /\ n \in Nat BY <1>2, <1>5
 <2>2. f \in F /\ f \in File /\ b.item[f] = s.item[f] BY <1>2, <2>1
 <2>3. c = requeue(b, f) BY <1>2, <1>3, <2>1
 <2>4. \A i \in 1..Len(b.wire) : ~LookAt(b.wire[i]) BY <2>1, OnlyPlacesOn
 <2>5. NoOn(b, f, LookKinds) BY <2>4 DEF NoOn, LookAt
 <2>6. NoOn(b, f, OpenKinds \ {"create"})
  <3>1. (OpenKinds \ {"create"}) \cap PlaceKinds = {} BY DEF OpenKinds, PlaceKinds
  <3> QED BY <2>1, <2>2, <3>1, OnlyPlacesOn
 <2>7. ~(b.linkDropped /\ b.source # Nobody) BY <2>1 DEF Inv, HubInv, GlobalInv, Whole
 <2>8. b.item[f].state \in AskAgain \cup {"conflict"} /\ Inv(b, h, v, e, {})
       /\ b.life = "kept" /\ b.link = "up" BY <2>1, <2>2
 <2> HIDE DEF b, f
 <2>9. /\ Inv(requeue(b, f), h, v, e, {})
       /\ b.link = "up" =>
                LET u == requeue(b, f)
                IN  /\ u.life = b.life /\ u.source = b.source /\ u.link = b.link
                    /\ u.linkDropped = b.linkDropped
                    /\ \A g \in File : g # f => u.item[g] = b.item[g]
                    /\ OnlyPlaces(b, u) BY <2>2, <2>4, <2>5, <2>6, <2>7, <2>8, RequeueStep
 <2> HIDE DEF c
 <2>10. Inv(c, h, v, e, {}) /\ c.life = "kept" /\ c.link = "up"
        /\ (\A g \in File : g # f => c.item[g] = b.item[g]) /\ OnlyPlaces(b, c) BY <2>3, <2>8, <2>9
 <2>11. OnlyPlaces(s, c)
  <3>1. OnlyPlaces(s, b) BY <2>1 DEF b
  <3> QED BY <2>10, <3>1, OnlyPlacesOn
 <2>12. ASSUME NEW m \in 1..N, m > n + 1 PROVE c.item[q[m]] = s.item[q[m]]
  <3>1. q[m] # q[n + 1] /\ q[m] \in File /\ m > n BY <1>2, <2>1, <2>12
  <3>2. b.item[q[m]] = s.item[q[m]] BY <2>1, <3>1 DEF b
  <3> QED BY <2>10, <3>1, <3>2 DEF f
 <2>13. L(n + 1) BY <2>10, <2>11, <2>12 DEF c
 <2> HIDE DEF L
 <2> QED BY <1>2, <2>1, <2>13
<1>6. N \in S
 <2>1. \A n \in 0..(N - 1) : n \in S => n + 1 \in S BY <1>5
 <2> HIDE DEF S
 <2>2. \A n \in 0..N : n \in S BY <1>2, <1>4, <2>1, UpTo
 <2> QED BY <1>2, <2>2
<1>7. Inv(a[N], h, v, e, {}) BY <1>6
<1> DEFINE b == a[N]
           Q == IF s.stale THEN SetToSeq({f \in File : b.item[f].state = "queued"}) ELSE b.queue
<1>8. requeueAll(s, F) = [b EXCEPT !.queue = Q, !.stale = FALSE, !.doneSaid = FALSE]
  BY <1>3, Zenon DEF requeueAll, RequeueRun, q
<1>9. b \in HubShape /\ Inv(b, h, v, e, {}) BY <1>7 DEF Inv, HubInv
<1>10. Q \in Seq(File)
 <2> DEFINE G == {f \in File : b.item[f].state = "queued"}
 <2>1. G \subseteq File /\ IsFiniteSet(G) BY ConstantsAssumption, FS_Subset
 <2> HIDE DEF G
 <2>2. SetToSeq(G) \in Seq(G) BY <2>1, SetInOrder
 <2>3. SetToSeq(G) \in Seq(File) BY <2>1, <2>2
 <2>4. b.queue \in Seq(File) BY <1>9, HubParts
 <2> QED BY <2>3, <2>4 DEF G
<1> HIDE DEF b, Q
<1> DEFINE u == [b EXCEPT !.queue = Q, !.stale = FALSE, !.doneSaid = FALSE]
<1>11. u \in HubShape /\ Same(b, u) BY <1>9, <1>10 DEF HubShape, Same
<1> QED BY <1>8, <1>9, <1>11, Agree

\* The link is back, or a window sends the upload.
LEMMA SourceStep ==
  ASSUME NEW s, NEW h, NEW v, NEW e, Inv(s, h, v, e, {}), NEW u \in HubShape, s.link = "up",
         u.life = s.life, u.link = s.link, u.named = s.named, u.removal = s.removal,
         u.policy = s.policy, u.item = s.item, u.wire = s.wire,
         u.backend = s.backend \/ u.backend = "live", ~u.linkDropped,
         u.source = s.source \/ u.source # Nobody, s.life # "none",
         \A i \in 1..Len(s.wire) : ~LookAt(s.wire[i])
  PROVE  Inv(u, h, v, e, {})
<1>1. GlobalInv(s, v, e) /\ HubInv(s, v, e, {}) /\ HostInv(s, h, v, e, 0, {}) BY DEF Inv, HubInv
<1>2. GlobalInv(u, v, e) BY <1>1 DEF GlobalInv, Whole
<1>3. \A f \in File : ItemInv(u, v, e, f) /\ Prefix(h, u.item[f])
 <2> TAKE f \in File
 <2>1. ItemInv(s, v, e, f) /\ Prefix(h, s.item[f]) BY <1>1 DEF HubInv, HostInv
 <2> QED BY <2>1 DEF ItemInv, Named
<1>4. ASSUME NEW i \in 1..Len(s.wire) PROVE ReqInv(u, v, e, s.wire[i]) /\ ReqHost(u, h, s.wire[i])
 <2> DEFINE r == s.wire[i]
 <2>1. ReqInv(s, v, e, r) /\ ReqHost(s, h, r) /\ ~LookAt(r)
  <3>1. i \in Nat /\ i > 0 BY <1>4, HubParts DEF Inv, HubInv
  <3> QED BY <1>1, <3>1 DEF HubInv, HostInv
 <2> HIDE DEF r
 <2>2. LookInv(u, r) BY <2>1 DEF LookInv
 <2>3. CutInv(u, v, r) /\ CreateInv(u, v, r) /\ PlaceInv(u, e, r) /\ WriteInv(u, r) /\ OpenInv(u, r)
   BY <2>1 DEF ReqInv, CutInv, CreateInv, PlaceInv, WriteInv, OpenInv
 <2>4. ReqInv(u, v, e, r) BY <2>1, <2>2, <2>3 DEF ReqInv
 <2>5. ReqHost(u, h, r) BY <2>1 DEF ReqHost
 <2> QED BY <2>4, <2>5 DEF r
<1>5. \A i, j \in 1..Len(s.wire) : i < j => PairNow(u, s.wire[i], s.wire[j])
  BY <1>1 DEF HubInv, PairNow
<1>6. \A f \in File \ {} : SendInv(u, f) /\ HereInv(u, e, f) /\ SinkInv(u, h, f)
 <2> TAKE f \in File \ {}
 <2>1. SendInv(s, f) /\ HereInv(s, e, f) /\ SinkInv(s, h, f) BY <1>1 DEF HubInv, HostInv
 <2> QED BY <2>1 DEF SendInv, HereInv, SinkInv, LatestOf
<1> QED BY <1>2, <1>3, <1>4, <1>5, <1>6, WireKept

\* Every temporary has been looked at.
LEMMA TookUpStep ==
  ASSUME NEW s, NEW h, NEW v, NEW e, Inv(s, h, v, e, {}), NEW w \in Window,
         s.link = "up", ~s.linkDropped,
         \A i \in 1..Len(s.wire) : ~LookAt(s.wire[i]),
         \A i \in 1..Len(s.wire) : Open(s.wire[i]) => s.wire[i].k = "create"
  PROVE  Inv(tookUp(s, w), h, v, e, {})
<1>1. CASE s.life # "kept" BY <1>1 DEF tookUp
<1>2. CASE s.life = "kept"
 <2> DEFINE u == [s EXCEPT !.source = w]
            F == AgainIn(s)
 <2>1. s \in HubShape /\ w # Nobody BY ConstantsAssumption DEF Inv, HubInv
 <2>2. /\ u \in HubShape /\ u.source = w /\ u.life = s.life /\ u.link = s.link
       /\ u.named = s.named /\ u.removal = s.removal
       /\ u.policy = s.policy /\ u.item = s.item /\ u.wire = s.wire
       /\ u.backend = s.backend /\ u.linkDropped = s.linkDropped BY <2>1 DEF HubShape
 <2>3. tookUp(s, w) = schedulePump(settle(requeueAll(u, F))) BY <1>2 DEF tookUp
 <2> HIDE DEF u
 <2>4. Inv(u, h, v, e, {}) BY <1>2, <2>1, <2>2, SourceStep
 <2>5. F \in SUBSET File /\ \A f \in F : u.item[f].state \in AskAgain BY <2>2 DEF AgainIn
 <2>6. \A f \in F : NoOn(u, f, OpenKinds \ {"create"}) BY <2>2 DEF NoOn, Open
 <2> HIDE DEF F
 <2>7. Inv(requeueAll(u, F), h, v, e, {}) BY <1>2, <2>2, <2>4, <2>5, <2>6, RequeueAllStep
 <2> QED BY <2>3, <2>7, EndsStep
<1> QED BY <1>1, <1>2

\* One temporary has been looked at.
LEMMA LookedStep ==
  ASSUME NEW s, NEW h, NEW v, NEW e, Inv(s, h, v, e, {}), NEW w \in Window,
         s.link = "up", ~s.linkDropped,
         \A i \in 1..Len(s.wire) : LookAt(s.wire[i]) => s.wire[i].w = w,
         \A i \in 1..Len(s.wire) : Open(s.wire[i]) => s.wire[i].k = "create"
  PROVE  Inv(looked(s, w), h, v, e, {})
<1>1. CASE Looking(s, w) BY <1>1 DEF looked
<1>2. CASE ~Looking(s, w)
 <2>1. \A i \in 1..Len(s.wire) : ~LookAt(s.wire[i]) BY <1>2 DEF Looking, OnWire, LookAt
 <2> QED BY <1>2, <2>1, TookUpStep DEF looked
<1> QED BY <1>1, <1>2

\* What is so when the answer to a look is handled.
LEMMA LookGoesOn ==
  ASSUME NEW s, NEW h, NEW v, NEW e, NEW r, Taken(s, h, v, e, r), LookAt(r)
  PROVE  /\ Inv(s, h, v, e, {}) /\ LookInv(s, r) /\ r \in ReqShape
         /\ r.f \in File /\ r.t \in Nat /\ r.t # None /\ r.w \in Window
         /\ s.link = "up" /\ s.life # "none" /\ ~s.linkDropped
         /\ \A i \in 1..Len(s.wire) : LookAt(s.wire[i]) => s.wire[i].w = r.w
         /\ \A i \in 1..Len(s.wire) : Open(s.wire[i]) => s.wire[i].k = "create"
         /\ NoOn(s, r.f, LookKinds \cup OpenKinds \cup {"write"})
         /\ r.k # "look" => NoOn(s, r.f, PlaceKinds)
         /\ \A i \in 1..Len(s.wire) : Place(s.wire[i]) /\ s.wire[i].f = r.f =>
               s.wire[i].k # "finish" /\ s.wire[i].t = r.t
<1>1. r.k \in LookKinds /\ ~Latest(r) /\ r.k \notin {"link", "unlink", "rename", "purge", "close"}
  BY DEF LookAt, LookKinds, Latest, OpenKinds
<1>2. Inv(s, h, v, e, {r.f}) /\ SendInv(s, r.f) /\ SinkInv(s, h, r.f) /\ HereInv(s, e, r.f)
      /\ ReqInv(s, v, e, r) /\ r \in ReqShape /\ s.life # "none" BY <1>1 DEF Taken
<1>3. Inv(s, h, v, e, {}) BY <1>2, Release
<1>4. LookInv(s, r) BY <1>2 DEF ReqInv
<1>5. r.w \in Window /\ ~s.linkDropped BY <1>4 DEF LookInv
<1>6. /\ r.f \in File /\ r.t \in Nat /\ r.t # None /\ s.link = "up"
      /\ NoOn(s, r.f, LookKinds \cup OpenKinds \cup {"write"})
      /\ r.k \in {"lookcut", "lookclear"} => NoOn(s, r.f, PlaceKinds) BY <1>1, AfterHead
<1>7. r.k # "look" => r.k \in {"lookcut", "lookclear"} BY <1>1 DEF LookKinds
<1>8. ASSUME NEW i \in 1..Len(s.wire)
      PROVE  /\ LookAt(s.wire[i]) => s.wire[i].w = r.w
             /\ Open(s.wire[i]) => s.wire[i].k = "create"
             /\ Place(s.wire[i]) /\ s.wire[i].f = r.f => s.wire[i].k # "finish" /\ s.wire[i].t = r.t
 <2>1. PairInv(r, s.wire[i]) BY DEF Taken
 <2>2. Place(s.wire[i]) => s.wire[i].k # "purge" BY DEF Place, PlaceKinds
 <2> QED BY <1>1, <2>1, <2>2 DEF PairInv, Apart
<1> QED BY <1>2, <1>3, <1>4, <1>5, <1>6, <1>7, <1>8

\* A temporary that is looked at is asked for again.
LEMMA AskLookStep ==
  ASSUME NEW s, NEW h, NEW v, NEW e, NEW r, Taken(s, h, v, e, r), LookAt(r),
         NEW k \in {"lookcut", "lookclear"}, NEW n \in Nat,
         NoOn(s, r.f, PlaceKinds), ~s.item[r.f].whole, s.item[r.f].state # "conflict",
         k = "lookcut" => n = s.item[r.f].acked /\ n > 0
  PROVE  Inv(Ask(s, k, r.f, r.t, n, FALSE, r.w), h, v, e, {})
<1> DEFINE q == [k |-> k, f |-> r.f, t |-> r.t, n |-> n, old |-> FALSE, w |-> r.w]
<1>b. /\ Inv(s, h, v, e, {}) /\ LookInv(s, r) /\ r.f \in File /\ r.w \in Window
      /\ s.link = "up" /\ s.life # "none" /\ ~s.linkDropped
      /\ \A i \in 1..Len(s.wire) : LookAt(s.wire[i]) => s.wire[i].w = r.w
      /\ \A i \in 1..Len(s.wire) : Open(s.wire[i]) => s.wire[i].k = "create" BY LookGoesOn
<1>c. NoOn(s, r.f, LookKinds \cup OpenKinds \cup {"write"}) BY AfterHead
<1>1. /\ Inv(s, h, v, e, {}) /\ LookInv(s, r) /\ r.f \in File /\ r.w \in Window
      /\ s.link = "up" /\ s.life # "none" /\ ~s.linkDropped
      /\ \A i \in 1..Len(s.wire) : LookAt(s.wire[i]) => s.wire[i].w = r.w
      /\ \A i \in 1..Len(s.wire) : Open(s.wire[i]) => s.wire[i].k = "create"
      /\ NoOn(s, r.f, LookKinds \cup OpenKinds \cup {"write"}) BY <1>b, <1>c
<1>a. r.t \in Nat /\ r.t # None BY AfterHead
<1>2. q \in ReqShape BY <1>1, <1>a DEF ReqShape, Kinds, LookKinds
<1>3. /\ q.k = k /\ q.f = r.f /\ q.t = r.t /\ q.n = n /\ q.old = FALSE /\ q.w = r.w OBVIOUS
<1>4. Ask(s, k, r.f, r.t, n, FALSE, r.w) = [s EXCEPT !.wire = Append(@, q)] BY DEF Ask
<1> HIDE DEF q
<1>5. /\ LookAt(q) /\ ~Open(q) /\ ~Latest(q) /\ ~Place(q)
      /\ q.k \notin {"purge", "remove", "write", "close", "create", "cut", "look"}
  BY <1>3 DEF LookAt, LookKinds, Open, Latest, OpenKinds, Place, PlaceKinds
<1>6. ReqInv(s, v, e, q)
 <2>1. ReqInv(s, v, e, r) /\ r.k # "purge" /\ ItemInv(s, v, e, r.f) /\ s.item[r.f] \in ItemShape
   BY <1>1, HubParts DEF Taken, LookAt, LookKinds, Inv, HubInv
 <2>2. q.t \in 1..s.named /\ e.own[q.t] = q.f BY <1>3, <2>1 DEF ReqInv
 <2>3. s.item[r.f].state # "placed" /\ s.item[r.f].temp \in {None, r.t} BY <1>1 DEF LookInv
 <2>4. CutInv(s, v, q)
  <3>1. s.item[r.f].acked \in Nat /\ v.item[r.f].acked \in Nat
    BY <1>1, <2>1, ItemParts DEF Inv, HubInv, RowShape
  <3>2. k = "lookcut" => s.item[r.f].temp = r.t BY <1>a, <2>1, <2>3 DEF ItemInv, WellItem
  <3> QED BY <1>1, <1>a, <1>3, <1>5, <2>1, <3>1, <3>2 DEF CutInv, ItemInv
 <2>5. CreateInv(s, v, q) /\ PlaceInv(s, e, q) /\ WriteInv(s, q) /\ OpenInv(s, q)
   BY <1>5 DEF CreateInv, PlaceInv, WriteInv, OpenInv
 <2>6. LookInv(s, q) BY <1>1, <1>3, <1>5 DEF LookInv
 <2> QED BY <1>1, <1>5, <2>2, <2>4, <2>5, <2>6 DEF ReqInv
<1>7. ReqHost(s, h, q) BY <1>5 DEF ReqHost
<1>8. ASSUME NEW i \in 1..Len(s.wire) PROVE PairInv(s.wire[i], q) /\ PairNow(s, s.wire[i], q)
 <2> DEFINE a == s.wire[i]
 <2>1. a.f = r.f => ~Open(a) /\ ~Place(a) /\ ~LookAt(a) /\ a.k # "write" /\ ~Latest(a)
   BY <1>1 DEF NoOn, Open, Place, LookAt, Latest
 <2>2. (LookAt(a) => a.w = r.w) /\ (Open(a) => a.k = "create") BY <1>1
 <2> HIDE DEF a
 <2>3. PairInv(a, q) BY <1>3, <1>5, <2>1, <2>2 DEF PairInv, Apart
 <2>4. PairNow(s, a, q) BY <1>5 DEF PairNow
 <2> QED BY <2>3, <2>4 DEF a
<1>9. {} \subseteq {} \cup {q.f} /\ q.f \notin {} OBVIOUS
<1>10. Inv([s EXCEPT !.wire = Append(@, q)], h, v, e, {})
  BY <1>1, <1>2, <1>5, <1>6, <1>7, <1>8, <1>9, AskStep
<1> QED BY <1>4, <1>10

\* The temporary is gone, and the file starts over.
LEMMA LookGoneStep ==
  ASSUME NEW s, NEW h, NEW v, NEW e, NEW r, Taken(s, h, v, e, r), LookAt(r)
  PROVE  Inv(looked(restartFile(s, r.f), r.w), h, v, e, {})
<1> DEFINE u == restartFile(s, r.f)
<1>b. /\ Inv(s, h, v, e, {}) /\ LookInv(s, r) /\ r.f \in File /\ r.w \in Window
      /\ s.link = "up" /\ ~s.linkDropped
      /\ \A i \in 1..Len(s.wire) : LookAt(s.wire[i]) => s.wire[i].w = r.w
      /\ \A i \in 1..Len(s.wire) : Open(s.wire[i]) => s.wire[i].k = "create"
      /\ \A i \in 1..Len(s.wire) : Place(s.wire[i]) /\ s.wire[i].f = r.f =>
            s.wire[i].k # "finish" /\ s.wire[i].t = r.t BY LookGoesOn
<1>c. NoOn(s, r.f, LookKinds \cup OpenKinds \cup {"write"}) BY AfterHead
<1>1. /\ Inv(s, h, v, e, {}) /\ LookInv(s, r) /\ r.f \in File /\ r.w \in Window
      /\ s.link = "up" /\ ~s.linkDropped
      /\ \A i \in 1..Len(s.wire) : LookAt(s.wire[i]) => s.wire[i].w = r.w
      /\ \A i \in 1..Len(s.wire) : Open(s.wire[i]) => s.wire[i].k = "create"
      /\ NoOn(s, r.f, LookKinds \cup OpenKinds \cup {"write"})
      /\ \A i \in 1..Len(s.wire) : Place(s.wire[i]) /\ s.wire[i].f = r.f =>
            s.wire[i].k # "finish" /\ s.wire[i].t = r.t BY <1>b, <1>c
<1>2. NoOn(s, r.f, {"write"}) /\ NoOn(s, r.f, LookKinds) /\ s.item[r.f].state # "sending"
  BY <1>1 DEF NoOn, LookInv
<1>3. ASSUME NEW i \in 1..Len(s.wire), s.wire[i].f = r.f, Place(s.wire[i])
      PROVE  s.wire[i].k # "finish" /\ FullAt(h, s.wire[i].t)
 <2>1. s.item[r.f].whole /\ s.wire[i].k # "finish" /\ s.wire[i].t = r.t
   BY <1>1, <1>3 DEF Taken, PairNow
 <2>2. ItemInv(s, v, e, r.f) /\ Prefix(h, s.item[r.f]) /\ h \in HostShape
   BY <1>1 DEF Inv, HubInv, HostInv
 <2>3. s.item[r.f].acked = Size /\ s.item[r.f].temp = r.t
   BY <1>1, <2>1, <2>2 DEF ItemInv, WellItem, LookInv
 <2> QED BY <2>1, <2>2, <2>3 DEF FullAt, Prefix, Chunks, HostShape
<1>4. /\ Inv(u, h, v, e, {})
      /\ Changes(s, u, r.f, [s.item[r.f] EXCEPT !.acked = 0, !.temp = None, !.whole = FALSE])
  BY <1>1, <1>2, <1>3, RestartStep
<1> HIDE DEF u
<1>5. u.wire = s.wire /\ u.link = "up" /\ ~u.linkDropped BY <1>1, <1>4 DEF Changes, Still
<1>6. Inv(looked(u, r.w), h, v, e, {}) BY <1>1, <1>4, <1>5, LookedStep
<1> QED BY <1>6 DEF u

\* A resume removed a temporary that is too short.
LEMMA LookclearDone ==
  ASSUME NEW s, NEW h, NEW v, NEW e, NEW r, Taken(s, h, v, e, r), r.k = "lookclear"
  PROVE  Inv(lookclearDone(s, r), h, v, e, {})
<1>1. LookAt(r) BY DEF LookAt, LookKinds
<1> QED BY <1>1, LookGoneStep DEF lookclearDone

\* A resume cut a temporary to what is acknowledged of it.
LEMMA LookcutDone ==
  ASSUME NEW s, NEW h, NEW v, NEW e, NEW r, Taken(s, h, v, e, r), r.k = "lookcut"
  PROVE  Inv(lookcutDone(s, r), h, v, e, {}) /\ Inv(lookAgain(s, r), h, v, e, {})
<1>1. LookAt(r) BY DEF LookAt, LookKinds
<1>2. /\ Inv(s, h, v, e, {}) /\ LookInv(s, r) /\ r.w \in Window /\ s.link = "up" /\ ~s.linkDropped
      /\ \A i \in 1..Len(s.wire) : LookAt(s.wire[i]) => s.wire[i].w = r.w
      /\ \A i \in 1..Len(s.wire) : Open(s.wire[i]) => s.wire[i].k = "create"
      /\ NoOn(s, r.f, PlaceKinds) BY <1>1, LookGoesOn
<1>3. Inv(looked(s, r.w), h, v, e, {}) BY <1>2, LookedStep
<1>4. Inv(lookAgain(s, r), h, v, e, {})
 <2>1. ~s.item[r.f].whole /\ s.item[r.f].state # "conflict" BY <1>1, <1>2 DEF LookInv
 <2> QED BY <1>1, <1>2, <2>1, AskLookStep DEF lookAgain
<1> QED BY <1>3, <1>4 DEF lookcutDone

\* A resume knows the size of a temporary.
LEMMA LookDone ==
  ASSUME NEW s, NEW v, NEW e, NEW r, Taken(s, host, v, e, r), r.k = "look"
  PROVE  Inv(lookDone(s, r), host, v, e, {})
<1> DEFINE it == s.item[r.f]
           z == SizeOf(host, r.t)
<1>1. LookAt(r) BY DEF LookAt, LookKinds
<1>2. /\ Inv(s, host, v, e, {}) /\ LookInv(s, r) /\ r.w \in Window /\ s.link = "up" /\ ~s.linkDropped
      /\ r.f \in File /\ r.t # None
      /\ \A i \in 1..Len(s.wire) : LookAt(s.wire[i]) => s.wire[i].w = r.w
      /\ \A i \in 1..Len(s.wire) : Open(s.wire[i]) => s.wire[i].k = "create"
      /\ \A i \in 1..Len(s.wire) : Place(s.wire[i]) /\ s.wire[i].f = r.f =>
            s.wire[i].k # "finish" /\ s.wire[i].t = r.t BY <1>1, LookGoesOn
<1>3. it \in ItemShape /\ it.acked \in Nat /\ ItemInv(s, v, e, r.f) /\ host \in HostShape
      /\ Prefix(host, it) /\ it.temp \in {None, r.t} /\ it.state # "placed"
      /\ (it.state = "conflict" => it.whole)
  BY <1>1, <1>2, HubParts, ItemParts DEF Inv, HubInv, HostInv, LookInv
<1>4. Inv(looked(s, r.w), host, v, e, {}) BY <1>2, LookedStep
<1>5. z \in Int /\ (r.t \in host.linked => z = Length(host.bytes[r.t]) /\ z >= 0)
      /\ (r.t \notin host.linked => z = -1) BY <1>3, SizeIn
<1>6. \A i \in 1..Len(s.wire) : Place(s.wire[i]) /\ s.wire[i].f = r.f =>
         it.whole BY <1>1 DEF Taken, PairNow
<1>7. ASSUME it.acked > 0, ~it.whole, z > it.acked
      PROVE  Inv(Ask(s, "lookcut", r.f, r.t, it.acked, FALSE, r.w), host, v, e, {})
 <2>1. it.temp # None BY <1>3, <1>7 DEF ItemInv, WellItem
 <2>2. NoOn(s, r.f, PlaceKinds) BY <1>6, <1>7, <2>1 DEF NoOn, Place
 <2> QED BY <1>1, <1>3, <1>7, <2>2, AskLookStep
<1>8. ASSUME z >= 0, ~(it.whole /\ z = Size) PROVE Inv(lookAgain(s, r), host, v, e, {})
 <2>1. r.t \in host.linked BY <1>5, <1>8
 <2>2. ~it.whole
  <3> SUFFICES ASSUME it.whole PROVE FALSE OBVIOUS
  <3>1. it.acked = Size /\ it.temp = r.t BY <1>3 DEF ItemInv, WellItem
  <3>2. host.bytes[r.t] = Chunks
   <4>1. host.bytes[r.t] \subseteq Chunks BY <1>3, <2>1 DEF HostShape
   <4> QED BY <1>3, <2>1, <3>1, <4>1 DEF Prefix, Chunks
  <3>3. Length(Chunks) = Size
   <4>1. Length(Chunks) \in 0..Size /\ \A c \in Chunks : c < Length(Chunks) BY LengthIn
   <4>2. Size - 1 \in Chunks /\ Size \in Nat BY ConstantsAssumption DEF Chunks
   <4> QED BY <4>1, <4>2
  <3> QED BY <1>5, <1>8, <2>1, <3>2, <3>3
 <2>3. NoOn(s, r.f, PlaceKinds) BY <1>6, <2>1, <2>2 DEF NoOn, Place
 <2>4. it.state # "conflict" BY <1>3, <2>2
 <2> QED BY <1>1, <2>2, <2>3, <2>4, AskLookStep DEF lookAgain
<1>9. Inv(looked(restartFile(s, r.f), r.w), host, v, e, {}) BY <1>1, LookGoneStep
<1>10. lookDone(s, r) =
         CASE it.whole /\ z = Size -> looked(s, r.w)
           [] ~it.whole /\ it.acked > 0 /\ z = it.acked -> looked(s, r.w)
           [] ~it.whole /\ it.acked > 0 /\ z > it.acked ->
                 Ask(s, "lookcut", r.f, r.t, it.acked, FALSE, r.w)
           [] OTHER -> IF z >= 0 THEN lookAgain(s, r) ELSE looked(restartFile(s, r.f), r.w)
  BY Zenon DEF lookDone
<1> DEFINE c1 == it.whole /\ z = Size
           c2 == ~it.whole /\ it.acked > 0 /\ z = it.acked
           c3 == ~it.whole /\ it.acked > 0 /\ z > it.acked
           L == looked(s, r.w)
           A == Ask(s, "lookcut", r.f, r.t, it.acked, FALSE, r.w)
           O == IF z >= 0 THEN lookAgain(s, r) ELSE looked(restartFile(s, r.f), r.w)
<1>11. (c1 => ~c2 /\ ~c3) /\ (c2 => ~c1 /\ ~c3) /\ (c3 => ~c1 /\ ~c2) BY <1>3, <1>5
<1>12. lookDone(s, r) = CASE c1 -> L [] c2 -> L [] c3 -> A [] OTHER -> O BY <1>10
<1>13. ~c1 => Inv(O, host, v, e, {}) BY <1>5, <1>8, <1>9
<1>14. c3 => Inv(A, host, v, e, {}) BY <1>7
<1>15. Inv(L, host, v, e, {}) BY <1>4
<1> HIDE DEF c1, c2, c3, L, A, O
<1>16. /\ c1 /\ ~c2 /\ ~c3 => lookDone(s, r) = L
       /\ ~c1 /\ c2 /\ ~c3 => lookDone(s, r) = L
       /\ ~c1 /\ ~c2 /\ c3 => lookDone(s, r) = A
       /\ ~c1 /\ ~c2 /\ ~c3 => lookDone(s, r) = O BY <1>12, Zenon
<1> QED BY <1>11, <1>13, <1>14, <1>15, <1>16

\* Several requests follow.
LEMMA AskAllStep ==
  ASSUME NEW s, NEW h, NEW v, NEW e, NEW X, Inv(s, h, v, e, X), s.life # "none",
         NEW rs \in Seq(ReqShape),
         \A i \in 1..Len(rs) :
            /\ ReqInv(s, v, e, rs[i]) /\ ReqHost(s, h, rs[i]) /\ ~Open(rs[i]) /\ rs[i].k # "close"
            /\ \A j \in 1..Len(s.wire) : PairInv(s.wire[j], rs[i]) /\ PairNow(s, s.wire[j], rs[i])
            /\ \A j \in 1..Len(rs) : j < i => PairInv(rs[j], rs[i]) /\ PairNow(s, rs[j], rs[i])
  PROVE  Inv(AskAll(s, rs), h, v, e, X)
<1> DEFINE p == s.wire
           q == p \o rs
           u == [s EXCEPT !.wire = q]
<1>1. s \in HubShape /\ p \in Seq(ReqShape) /\ Len(p) \in Nat /\ Len(rs) \in Nat
  BY HubParts DEF Inv, HubInv
<1>2. AskAll(s, rs) = u BY DEF AskAll
<1> HIDE DEF p
<1>3. /\ q \in Seq(ReqShape) /\ Len(q) = Len(p) + Len(rs)
      /\ \A i \in 1..Len(p) : q[i] = p[i]
      /\ \A i \in 1..Len(q) : i > Len(p) => i - Len(p) \in 1..Len(rs) /\ q[i] = rs[i - Len(p)]
  BY <1>1
<1> HIDE DEF q
<1>4. u \in HubShape /\ Still(s, u) /\ u.item = s.item /\ u.wire = q
  BY <1>1, <1>3 DEF HubShape, Still
<1> HIDE DEF u
<1>5. ASSUME NEW i \in 1..Len(q), i > Len(p)
      PROVE  /\ ReqInv(s, v, e, q[i]) /\ ReqHost(s, h, q[i])
             /\ ~Open(q[i]) /\ q[i].k # "close"
             /\ \A j \in 1..Len(q) : j < i => PairInv(q[j], q[i]) /\ PairNow(s, q[j], q[i])
 <2> DEFINE m == i - Len(p)
 <2>1. m \in 1..Len(rs) /\ q[i] = rs[m] BY <1>3, <1>5
 <2>2. /\ ReqInv(s, v, e, rs[m]) /\ ReqHost(s, h, rs[m]) /\ ~Open(rs[m]) /\ rs[m].k # "close"
       /\ \A j \in 1..Len(p) : PairInv(p[j], rs[m]) /\ PairNow(s, p[j], rs[m])
       /\ \A j \in 1..Len(rs) : j < m => PairInv(rs[j], rs[m]) /\ PairNow(s, rs[j], rs[m])
   BY <2>1 DEF p
 <2>3. ASSUME NEW j \in 1..Len(q), j < i PROVE PairInv(q[j], q[i]) /\ PairNow(s, q[j], q[i])
  <3>1. CASE j <= Len(p)
   <4>1. j \in 1..Len(p) BY <1>1, <1>3, <2>3, <3>1
   <4>2. q[j] = p[j] BY <1>3, <4>1
   <4> QED BY <2>1, <2>2, <4>1, <4>2
  <3>2. CASE j > Len(p)
   <4>1. j - Len(p) \in 1..Len(rs) /\ q[j] = rs[j - Len(p)] BY <1>3, <2>3, <3>2
   <4>2. j - Len(p) < m BY <1>1, <1>3, <2>3, <4>1
   <4> QED BY <2>1, <2>2, <4>1, <4>2
  <3> QED BY <1>1, <1>3, <2>3, <3>1, <3>2
 <2> QED BY <2>1, <2>2, <2>3
<1>6. /\ Len(u.wire) >= Len(s.wire)
      /\ \A i \in 1..Len(s.wire) : u.wire[i] = s.wire[i] BY <1>1, <1>3, <1>4 DEF p
<1>7. \A i \in 1..Len(u.wire) : i > Len(s.wire) =>
              /\ ReqInv(s, v, e, u.wire[i]) /\ ReqHost(s, h, u.wire[i])
              /\ Open(u.wire[i]) => ~u.wire[i].old
              /\ u.wire[i].k = "close" => s.item[u.wire[i].f].sink = None
              /\ \A j \in 1..Len(u.wire) : j < i =>
                    PairInv(u.wire[j], u.wire[i]) /\ PairNow(s, u.wire[j], u.wire[i])
  BY <1>4, <1>5 DEF p
<1>8. Inv(u, h, v, e, X)
 <2>1. \A f \in File : f \in X /\ f \notin X =>
             /\ LatestOf(u, f) \/ (SendInv(s, f) /\ SinkInv(s, h, f))
             /\ \/ \E i \in 1..Len(u.wire) : u.wire[i].f = f /\ u.wire[i].k = "unlink"
                \/ HereInv(s, e, f) OBVIOUS
 <2> QED BY <1>4, <1>6, <1>7, <2>1, Extend, Zenon
<1> QED BY <1>2, <1>8

\* An upload is taken up: its temporaries are looked at.
LEMMA TakeUpStep ==
  ASSUME NEW s, NEW h, NEW v, NEW e, Inv(s, h, v, e, {}), NEW w \in Window,
         s.life = "kept", s.link = "up",
         \A i \in 1..Len(s.wire) : ~LookAt(s.wire[i]) /\ ~Open(s.wire[i]),
         s.source = Nobody \/ \A f \in File : s.item[f].state = "queued" => s.item[f].temp = None
  PROVE  Inv(takeUp(s, w), h, v, e, {})
<1> DEFINE b == [s EXCEPT !.linkDropped = FALSE, !.backend = "live"]
           kept == {f \in File : /\ s.item[f].temp # None
                                 /\ s.item[f].state \in AskAgain \cup {"queued", "conflict"}}
           order == SetToSeq(kept)
           rs == [i \in 1..Len(order) |->
                          [k |-> "look", f |-> order[i], t |-> s.item[order[i]].temp,
                           n |-> 0, old |-> FALSE, w |-> w]]
<1>1. s \in HubShape /\ w # Nobody BY ConstantsAssumption DEF Inv, HubInv
<1>2. /\ b \in HubShape /\ b.life = s.life /\ b.link = s.link /\ b.named = s.named
      /\ b.removal = s.removal /\ b.policy = s.policy /\ b.item = s.item /\ b.wire = s.wire
      /\ b.backend = "live" /\ b.linkDropped = FALSE /\ b.source = s.source BY <1>1 DEF HubShape
<1>3. backendOf([s EXCEPT !.linkDropped = FALSE]) = b BY <1>1 DEF backendOf, HubShape
<1>4. takeUp(s, w) = IF kept = {} THEN tookUp(b, w) ELSE AskAll(b, rs) BY <1>3, Zenon DEF takeUp
<1> HIDE DEF b
<1>5. Inv(b, h, v, e, {}) BY <1>1, <1>2, SourceStep
<1>6. CASE kept = {}
 <2>1. Inv(tookUp(b, w), h, v, e, {}) BY <1>2, <1>5, TookUpStep
 <2> QED BY <1>4, <1>6, <2>1
<1>7. CASE kept # {}
 <2>1. kept \subseteq File /\ IsFiniteSet(kept) BY ConstantsAssumption, FS_Subset
 <2>2. ASSUME NEW f \in kept
       PROVE  /\ f \in File /\ s.item[f].temp # None
              /\ s.item[f].state \in AskAgain \cup {"queued", "conflict"} OBVIOUS
 <2> HIDE DEF kept
 <2>3. /\ Len(order) \in Nat /\ \A i \in 1..Len(order) : order[i] \in kept
       /\ \A i, j \in 1..Len(order) : order[i] = order[j] => i = j
  <3>1. /\ Len(SetToSeq(kept)) \in Nat
        /\ \A i \in 1..Len(SetToSeq(kept)) : SetToSeq(kept)[i] \in kept
        /\ \A i, j \in 1..Len(SetToSeq(kept)) : SetToSeq(kept)[i] = SetToSeq(kept)[j] => i = j
    BY <2>1, SetInOrder, Zenon
  <3> QED BY <3>1
 <2> HIDE DEF order
 <2>4. Len(rs) = Len(order) /\ DOMAIN rs = 1..Len(order) BY <2>3
 <2>5. ASSUME NEW i \in 1..Len(order)
       PROVE  /\ rs[i].k = "look" /\ rs[i].f = order[i] /\ rs[i].t = s.item[order[i]].temp
              /\ rs[i].n = 0 /\ rs[i].old = FALSE /\ rs[i].w = w /\ rs[i] \in ReqShape
  <3>1. order[i] \in File BY <2>2, <2>3
  <3>2. s.item[order[i]].temp \in Nat BY <1>1, <3>1, HubParts, ItemParts
  <3> QED BY <3>1, <3>2 DEF ReqShape, Kinds, LookKinds
 <2>6. rs \in Seq(ReqShape)
  <3>1. rs \in [1..Len(order) -> ReqShape] BY <2>4, <2>5
  <3> HIDE DEF rs
  <3> QED BY <2>3, <3>1
 <2> HIDE DEF rs
 <2>7. ASSUME NEW i \in 1..Len(order)
       PROVE  /\ ReqInv(b, v, e, rs[i]) /\ ReqHost(b, h, rs[i])
              /\ ~Open(rs[i]) /\ rs[i].k # "close"
              /\ \A j \in 1..Len(b.wire) : PairInv(b.wire[j], rs[i]) /\ PairNow(b, b.wire[j], rs[i])
              /\ \A j \in 1..Len(rs) : j < i => PairInv(rs[j], rs[i]) /\ PairNow(b, rs[j], rs[i])
  <3> DEFINE r == rs[i]
             f == order[i]
  <3>1. /\ f \in File /\ s.item[f].temp # None
        /\ s.item[f].state \in AskAgain \cup {"queued", "conflict"} BY <2>2, <2>3
  <3>2. r.k = "look" /\ r.f = f /\ r.t = s.item[f].temp /\ r.old = FALSE /\ r.w = w BY <2>5
  <3>3. /\ LookAt(r) /\ ~Open(r) /\ ~Latest(r) /\ ~Place(r)
        /\ r.k \notin {"purge", "remove", "write", "close", "create", "cut", "reopen", "lookcut", "lookclear"}
    BY <3>2 DEF LookAt, LookKinds, Open, Latest, OpenKinds, Place, PlaceKinds
  <3>4. ItemInv(b, v, e, f) /\ s.named \in Nat /\ r.t \in Nat
    BY <1>1, <1>5, <3>1, <3>2, HubParts, ItemParts DEF Inv, HubInv
  <3> HIDE DEF r, f
  <3>5. r.t \in 1..b.named /\ e.own[r.t] = r.f BY <1>2, <3>1, <3>2, <3>4 DEF ItemInv, Named, None
  <3>6. LookInv(b, r)
   <4>1. s.item[f].state \notin {"sending", "placed"} BY <3>1 DEF AskAgain
   <4>2. s.item[f].state = "queued" => s.source = Nobody BY <3>1
   <4>3. s.item[f].state = "conflict" => s.item[f].whole BY <1>2, <3>1, <3>4 DEF ItemInv, WellItem
   <4> QED BY <1>2, <3>2, <4>1, <4>2, <4>3 DEF LookInv
  <3>7. CutInv(b, v, r) /\ CreateInv(b, v, r) /\ PlaceInv(b, e, r) /\ WriteInv(b, r) /\ OpenInv(b, r)
    BY <3>3 DEF CutInv, CreateInv, PlaceInv, WriteInv, OpenInv
  <3>8. ReqInv(b, v, e, r) BY <1>2, <3>3, <3>5, <3>6, <3>7 DEF ReqInv
  <3>9. ReqHost(b, h, r) BY <3>3 DEF ReqHost
  <3>10. ASSUME NEW j \in 1..Len(b.wire) PROVE PairInv(b.wire[j], r) /\ PairNow(b, b.wire[j], r)
   <4> DEFINE a == b.wire[j]
   <4>1. ~LookAt(a) /\ ~Open(a) /\ ~Latest(a) BY <1>2, <3>10 DEF Open, Latest
   <4>2. a.f = r.f => ~Place(a)
    <5>1. PlaceInv(b, e, a) BY <1>5, <3>10 DEF Inv, HubInv, ReqInv
    <5>2. s.item[f].state # "verifying" BY <3>1 DEF AskAgain
    <5> QED BY <1>2, <3>2, <5>1, <5>2 DEF PlaceInv
   <4> HIDE DEF a
   <4>3. PairInv(a, r) BY <3>3, <4>1, <4>2 DEF PairInv, Apart
   <4>4. PairNow(b, a, r) BY <3>3 DEF PairNow
   <4> QED BY <4>3, <4>4 DEF a
  <3>11. ASSUME NEW j \in 1..Len(rs), j < i PROVE PairInv(rs[j], r) /\ PairNow(b, rs[j], r)
   <4> DEFINE a == rs[j]
   <4>1. j \in 1..Len(order) /\ j # i BY <2>3, <2>4, <3>11
   <4>2. a.k = "look" /\ a.f = order[j] /\ a.w = w BY <2>5, <4>1
   <4>3. a.f # r.f BY <2>3, <3>2, <4>1, <4>2 DEF f
   <4>4. ~Open(a) BY <4>2 DEF Open, OpenKinds
   <4> HIDE DEF a
   <4>5. PairInv(a, r) BY <3>2, <3>3, <4>2, <4>3, <4>4 DEF PairInv
   <4>6. PairNow(b, a, r) BY <4>3 DEF PairNow
   <4> QED BY <4>5, <4>6 DEF a
  <3> QED BY <3>3, <3>8, <3>9, <3>10, <3>11 DEF r
 <2>8. Inv(AskAll(b, rs), h, v, e, {}) BY <1>2, <1>5, <2>4, <2>6, <2>7, AskAllStep
 <2> QED BY <1>4, <1>7, <2>8
<1> QED BY <1>6, <1>7

------------------------------
\* What is saved, and an upload that is over.

\* The rows are written, or what is to be removed changes.
LEMMA SavedStep ==
  ASSUME NEW s, NEW h, NEW v, NEW e, Inv(s, h, v, e, {}), NEW u \in HubShape, NEW z \in RowShape,
         u.life = s.life, u.source = s.source, u.linkDropped = s.linkDropped, u.link = s.link,
         u.named = s.named, u.policy = s.policy, u.item = s.item, u.wire = s.wire,
         u.backend = s.backend, GlobalInv(u, z, e),
         \A f \in File : ItemInv(u, z, e, f) /\ Prefix(h, z.item[f]),
         \A i \in 1..Len(s.wire) : CutInv(s, z, s.wire[i]) /\ CreateInv(s, z, s.wire[i])
  PROVE  Inv(u, h, z, e, {})
<1>1. HubInv(s, v, e, {}) /\ HostInv(s, h, v, e, 0, {}) BY DEF Inv
<1>2. ASSUME NEW i \in 1..Len(s.wire) PROVE ReqInv(u, z, e, s.wire[i])
 <2> DEFINE r == s.wire[i]
 <2>1. ReqInv(s, v, e, r) /\ CutInv(s, z, r) /\ CreateInv(s, z, r) BY <1>1 DEF HubInv
 <2> HIDE DEF r
 <2>2. CutInv(u, z, r) /\ CreateInv(u, z, r) /\ PlaceInv(u, e, r) /\ WriteInv(u, r) /\ OpenInv(u, r)
       /\ LookInv(u, r) BY <2>1 DEF ReqInv, CutInv, CreateInv, PlaceInv, WriteInv, OpenInv, LookInv
 <2>3. ReqInv(u, z, e, r) BY <2>1, <2>2 DEF ReqInv
 <2> QED BY <2>3 DEF r
<1>3. /\ \A i, j \in 1..Len(u.wire) : i < j =>
            PairInv(u.wire[i], u.wire[j]) /\ PairNow(u, u.wire[i], u.wire[j])
      /\ OldInv(u) BY <1>1 DEF HubInv, PairNow, OldInv
<1>4. \A f \in File \ {} : SendInv(u, f) /\ HereInv(u, e, f)
  BY <1>1 DEF HubInv, SendInv, HereInv, LatestOf
<1>5. HubInv(u, z, e, {}) BY <1>1, <1>2, <1>3, <1>4 DEF HubInv
<1>6. \A f \in File \ {} : SinkInv(u, h, f) BY <1>1 DEF HostInv, SinkInv, LatestOf
<1>7. \A i \in 1..Len(u.wire) : i > 0 => ReqHost(u, h, u.wire[i]) BY <1>1 DEF HostInv, ReqHost
<1>8. HostInv(u, h, z, e, 0, {}) BY <1>1, <1>6, <1>7 DEF HostInv
<1> QED BY <1>5, <1>8 DEF Inv

\* The record of an upload that is gone changes.
LEMMA RecordStep ==
  ASSUME NEW s, NEW h, NEW v, NEW e, Inv(s, h, v, e, {}), s.life # "kept",
         NEW R \in SUBSET (1..s.named), s.life = "none" => R = {}, NEW l \in {"none", "discarded"}
  PROVE  Inv([s EXCEPT !.removal = R], h, [v EXCEPT !.life = l], e, {})
<1> DEFINE u == [s EXCEPT !.removal = R]
           z == [v EXCEPT !.life = l]
<1>1. s \in HubShape /\ v \in RowShape /\ s.named \in Nat BY HubParts DEF Inv, HubInv
<1>2. R \subseteq Nat BY <1>1
<1>3. /\ u \in HubShape /\ u.life = s.life /\ u.source = s.source /\ u.linkDropped = s.linkDropped
      /\ u.link = s.link /\ u.named = s.named /\ u.policy = s.policy /\ u.item = s.item
      /\ u.wire = s.wire /\ u.backend = s.backend /\ u.removal = R BY <1>1, <1>2 DEF HubShape
<1>4. z \in RowShape /\ z.item = v.item /\ z.life = l BY <1>1 DEF RowShape
<1> HIDE DEF u, z
<1>5. GlobalInv(s, v, e) /\ s.life \in {"none", "gone"} BY <1>1, HubParts DEF Inv, HubInv
<1>6. GlobalInv(u, z, e) BY <1>3, <1>5 DEF GlobalInv, Whole
<1>7. ASSUME NEW f \in File PROVE ItemInv(u, z, e, f) /\ Prefix(h, z.item[f])
 <2>1. ItemInv(s, v, e, f) /\ Prefix(h, v.item[f]) BY DEF Inv, HubInv, HostInv
 <2> QED BY <1>3, <1>4, <2>1 DEF ItemInv, Named
<1>8. ASSUME NEW i \in 1..Len(s.wire) PROVE CutInv(s, z, s.wire[i]) /\ CreateInv(s, z, s.wire[i])
 <2>1. CutInv(s, v, s.wire[i]) /\ CreateInv(s, v, s.wire[i]) BY DEF Inv, HubInv, ReqInv
 <2> QED BY <1>4, <2>1 DEF CutInv, CreateInv
<1>9. Inv(u, h, z, e, {}) BY <1>3, <1>4, <1>6, <1>7, <1>8, SavedStep
<1> QED BY <1>9 DEF u, z

\* The rows that changed are written.
LEMMA SaveStep ==
  ASSUME NEW s, NEW h, NEW e, Inv(s, h, saved, e, {}), s.life = "kept",
         NEW F \in SUBSET File, NEW A \in SUBSET File
  PROVE  Inv([s EXCEPT !.unsaved = {}, !.unsavedAcks = A], h,
             [saved EXCEPT !.item = Rows(s, F)], e, {})
<1> DEFINE u == [s EXCEPT !.unsaved = {}, !.unsavedAcks = A]
           z == [saved EXCEPT !.item = Rows(s, F)]
<1>1. s \in HubShape /\ saved \in RowShape /\ s.item \in [File -> ItemShape]
      /\ saved.item \in [File -> ItemShape] BY HubParts DEF Inv, HubInv, RowShape
<1>2. ASSUME NEW it \in ItemShape
      PROVE  /\ Row(it) \in ItemShape /\ Row(it).state = it.state /\ Row(it).acked = it.acked
             /\ Row(it).temp = it.temp /\ Row(it).whole = it.whole
             /\ Row(it).resolution = it.resolution /\ Row(it).sink = None /\ Row(it).writing = FALSE
  BY DEF Row, ItemShape, None
<1>3. /\ \A f \in File : f \in F => Rows(s, F)[f] = Row(s.item[f])
      /\ \A f \in File : f \notin F => Rows(s, F)[f] = saved.item[f]
      /\ Rows(s, F) \in [File -> ItemShape]
 <2>1. \A f \in File : Row(s.item[f]) \in ItemShape BY <1>1, <1>2
 <2> QED BY <1>1, <2>1 DEF Rows
<1>4. /\ u \in HubShape /\ u.life = s.life /\ u.source = s.source /\ u.linkDropped = s.linkDropped
      /\ u.link = s.link /\ u.named = s.named /\ u.policy = s.policy /\ u.item = s.item
      /\ u.wire = s.wire /\ u.backend = s.backend /\ u.removal = s.removal BY <1>1 DEF HubShape
<1>5. z \in RowShape /\ z.item = Rows(s, F) /\ z.life = saved.life BY <1>1, <1>3 DEF RowShape
<1> HIDE DEF u, z
<1>6. GlobalInv(u, z, e) BY <1>4, <1>5 DEF GlobalInv, Whole, Inv, HubInv
<1>7. ASSUME NEW f \in File PROVE ItemInv(u, z, e, f) /\ Prefix(h, z.item[f])
 <2>1. ItemInv(s, saved, e, f) /\ Prefix(h, saved.item[f]) /\ Prefix(h, s.item[f])
   BY DEF Inv, HubInv, HostInv
 <2>2. CASE f \notin F
  <3>1. z.item[f] = saved.item[f] BY <1>3, <1>5, <2>2
  <3> QED BY <1>4, <1>5, <2>1, <3>1 DEF ItemInv, Named
 <2>3. CASE f \in F
  <3> DEFINE it == s.item[f]
             jt == z.item[f]
  <3>1. /\ it \in ItemShape /\ jt.state = it.state /\ jt.acked = it.acked /\ jt.temp = it.temp
        /\ jt.whole = it.whole /\ jt.resolution = it.resolution /\ jt.sink = None
        /\ jt.writing = FALSE
   <4>1. it \in ItemShape /\ jt = Row(it) BY <1>1, <1>3, <1>5, <2>3
   <4> HIDE DEF it, jt
   <4> QED BY <1>2, <4>1
  <3>2. it.acked \in Nat BY <3>1, ItemParts
  <3> HIDE DEF jt
  <3>3. Prefix(h, jt) BY <2>1, <3>1 DEF Prefix
  <3>4. ItemInv(u, z, e, f) BY <1>4, <2>1, <3>1, <3>2 DEF ItemInv, Named, WellItem, jt
  <3> QED BY <3>3, <3>4 DEF jt
 <2> QED BY <2>2, <2>3
<1>8. ASSUME NEW i \in 1..Len(s.wire) PROVE CutInv(s, z, s.wire[i]) /\ CreateInv(s, z, s.wire[i])
 <2> DEFINE r == s.wire[i]
 <2>1. CutInv(s, saved, r) /\ CreateInv(s, saved, r) /\ r \in ReqShape
   BY HubParts DEF Inv, HubInv, ReqInv
 <2> HIDE DEF r
 <2>2. r.f \in File /\ s.item[r.f] \in ItemShape BY <1>1, <2>1, ReqParts
 <2>3. CASE r.f \notin F
  <3>1. z.item[r.f] = saved.item[r.f] BY <1>3, <1>5, <2>2, <2>3
  <3> QED BY <2>1, <3>1 DEF CutInv, CreateInv, r
 <2>4. CASE r.f \in F
  <3>1. z.item[r.f].temp = s.item[r.f].temp /\ z.item[r.f].acked = s.item[r.f].acked
   <4>1. z.item[r.f] = Row(s.item[r.f]) BY <1>3, <1>5, <2>2, <2>4
   <4>2. Row(s.item[r.f]).temp = s.item[r.f].temp /\ Row(s.item[r.f]).acked = s.item[r.f].acked
     BY <1>2, <2>2
   <4> QED BY <4>1, <4>2
  <3> QED BY <2>1, <3>1 DEF CutInv, CreateInv, r
 <2> QED BY <2>3, <2>4
<1>9. Inv(u, h, z, e, {}) BY <1>4, <1>5, <1>6, <1>7, <1>8, SavedStep
<1> QED BY <1>9 DEF u, z

\* The upload goes: what it was doing is over.
LEMMA GoneStep ==
  ASSUME NEW s, NEW h, NEW v, NEW e, Inv(s, h, v, e, {}), s.life = "kept", NEW u \in HubShape,
         u.life = "gone", u.source = s.source, u.linkDropped = s.linkDropped, u.link = s.link,
         u.named = s.named, u.policy = s.policy, u.wire = s.wire,
         u.backend \in {s.backend, "none"}, u.removal \subseteq 1..s.named,
         \A f \in File :
            /\ u.item[f].sink = None /\ u.item[f].state # "sending"
            /\ \/ u.item[f].state = s.item[f].state
               \/ u.item[f].state = "cancelled" /\ s.item[f].state \in Unsettled
            /\ Alike(s.item[f], u.item[f])
  PROVE  Inv(u, h, v, e, {})
<1>1. HubInv(s, v, e, {}) /\ HostInv(s, h, v, e, 0, {}) /\ s \in HubShape /\ GlobalInv(s, v, e)
  BY DEF Inv, HubInv
<1>2. GlobalInv(u, v, e) BY <1>1 DEF GlobalInv, Whole
<1>3. ASSUME NEW f \in File PROVE ItemInv(u, v, e, f) /\ Prefix(h, u.item[f])
 <2> DEFINE it == s.item[f]
            jt == u.item[f]
 <2>1. ItemInv(s, v, e, f) /\ Prefix(h, it) /\ it \in ItemShape /\ it.acked \in Nat
       /\ s.named \in Nat BY <1>1, HubParts, ItemParts DEF HubInv, HostInv
 <2>2. /\ jt.sink = None /\ jt.state # "sending" /\ Alike(it, jt)
       /\ jt.state = it.state \/ (jt.state = "cancelled" /\ it.state # "placed") BY DEF Unsettled
 <2> HIDE DEF it, jt
 <2>3. WellItem(jt) BY <2>1, <2>2 DEF ItemInv, WellItem, Alike, it
 <2>4. Prefix(h, jt) BY <2>1, <2>2 DEF Prefix, Alike
 <2>5. Named(u, e, f, jt.temp) /\ Named(u, e, f, jt.sink) /\ Named(u, e, f, v.item[f].temp)
   BY <2>1, <2>2 DEF ItemInv, Named, Alike, it, None
 <2>6. ItemInv(u, v, e, f) BY <2>1, <2>2, <2>3, <2>5 DEF ItemInv, Alike, it, jt
 <2> QED BY <2>4, <2>6 DEF jt
<1>4. ASSUME NEW i \in 1..Len(s.wire) PROVE ReqInv(u, v, e, s.wire[i]) /\ ReqHost(u, h, s.wire[i])
 <2> DEFINE r == s.wire[i]
            f == r.f
 <2>1. ReqInv(s, v, e, r) /\ ReqHost(s, h, r) /\ r \in ReqShape
  <3>1. i > 0 BY <1>1, HubParts
  <3> QED BY <1>1, <3>1, HubParts DEF HubInv, HostInv
 <2>2. f \in File BY <2>1, ReqParts
 <2>3. /\ u.item[f].sink = None /\ u.item[f].state # "sending"
       /\ \/ u.item[f].state = s.item[f].state
          \/ u.item[f].state = "cancelled" /\ s.item[f].state \in Unsettled
       /\ Alike(s.item[f], u.item[f]) BY <2>2
 <2> HIDE DEF r
 <2>4. CutInv(u, v, r) /\ CreateInv(u, v, r) /\ WriteInv(u, r) /\ ReqHost(u, h, r)
   BY <2>1, <2>3 DEF ReqInv, CutInv, CreateInv, WriteInv, ReqHost, Alike
 <2>5. PlaceInv(u, e, r) BY <2>1, <2>3 DEF ReqInv, PlaceInv, Alike
 <2>6. OpenInv(u, r) BY <2>1, <2>3 DEF ReqInv, OpenInv, Alike
 <2>7. LookInv(u, r)
  <3>1. \A g \in File : u.item[g].state = "queued" => s.item[g].state = "queued" OBVIOUS
  <3>2. \A g \in File : u.item[g].temp = s.item[g].temp BY DEF Alike
  <3> QED BY <2>1, <2>3, <3>1, <3>2 DEF ReqInv, LookInv, Alike
 <2>8. ReqInv(u, v, e, r) BY <2>1, <2>3, <2>4, <2>5, <2>6, <2>7 DEF ReqInv, Alike
 <2> QED BY <2>4, <2>8 DEF r
<1>5. \A i, j \in 1..Len(s.wire) : i < j => PairNow(u, s.wire[i], s.wire[j])
 <2>1. \A i \in 1..Len(s.wire) : s.wire[i].f \in File BY <1>1, HubParts, ReqParts
 <2>2. \A i, j \in 1..Len(s.wire) : i < j => PairNow(s, s.wire[i], s.wire[j]) BY <1>1 DEF HubInv
 <2>3. \A f \in File : /\ u.item[f].sink = None /\ u.item[f].state # "sending"
                        /\ u.item[f].whole = s.item[f].whole BY DEF Alike
 <2> QED BY <2>1, <2>2, <2>3 DEF PairNow
<1>6. \A f \in File \ {} : SendInv(u, f) /\ HereInv(u, e, f) /\ SinkInv(u, h, f)
  BY DEF SendInv, HereInv, SinkInv
<1> QED BY <1>2, <1>3, <1>4, <1>5, <1>6, WireKept

\* An upload is dropped.
LEMMA DropStep ==
  ASSUME NEW s, NEW h, NEW v, NEW e, Inv(s, h, v, e, {}), s.life = "kept"
  PROVE  Inv(drop(s), h, v, e, {}) /\ drop(s).life = "gone" /\ drop(s).link = s.link
<1> DEFINE R == {s.item[f].temp : f \in {g \in File : s.item[g].state # "placed"}} \ {None}
           I == [f \in File |->
                     [s.item[f] EXCEPT !.sink = None,
                                  !.state = IF s.item[f].state \in Unsettled THEN "cancelled"
                                            ELSE s.item[f].state]]
           u == [s EXCEPT
                    !.life = "gone", !.queue = <<>>, !.flushDue = FALSE, !.backend = "none",
                    !.dirty = {}, !.unsaved = {}, !.unsavedAcks = {},
                    !.removal = R, !.item = I]
<1>1. s \in HubShape /\ s.item \in [File -> ItemShape] /\ s.named \in Nat
      /\ \A f \in File : s.item[f] \in ItemShape BY HubParts DEF Inv, HubInv
<1>2. drop(s) = noteHost(u) BY DEF drop
<1>3. R \subseteq 1..s.named
 <2>1. \A f \in File : Named(s, e, f, s.item[f].temp) /\ s.item[f].temp \in Nat
   BY <1>1, ItemParts DEF Inv, HubInv, ItemInv
 <2> QED BY <1>1, <2>1 DEF Named, None
<1>4. ASSUME NEW f \in File
      PROVE  /\ I[f] \in ItemShape /\ I[f].sink = None /\ I[f].state # "sending"
             /\ \/ I[f].state = s.item[f].state
                \/ I[f].state = "cancelled" /\ s.item[f].state \in Unsettled
             /\ Alike(s.item[f], I[f])
 <2> DEFINE it == s.item[f]
            st == IF it.state \in Unsettled THEN "cancelled" ELSE it.state
 <2>1. I[f] = [it EXCEPT !.sink = None, !.state = st] OBVIOUS
 <2>2. it \in ItemShape BY <1>1
 <2>3. /\ st \in State /\ st # "sending"
       /\ st = it.state \/ (st = "cancelled" /\ it.state \in Unsettled)
   BY <2>2, ItemParts DEF State, Unsettled
 <2> HIDE DEF I, st, it
 <2>4. I[f] \in ItemShape /\ I[f].sink = None /\ I[f].state = st
  <3> DEFINE jt == [it EXCEPT !.sink = None, !.state = st]
  <3>1. jt \in ItemShape BY <2>2, <2>3 DEF ItemShape, None
  <3>2. jt.sink = None /\ jt.state = st BY <2>2 DEF ItemShape
  <3> QED BY <2>1, <3>1, <3>2
 <2>5. Alike(it, I[f]) BY <2>1, <2>2 DEF ItemShape, Alike
 <2> QED BY <2>3, <2>4, <2>5 DEF it
<1>5. I \in [File -> ItemShape] BY <1>4
<1>6. /\ u \in HubShape /\ u.life = "gone" /\ u.source = s.source /\ u.linkDropped = s.linkDropped
      /\ u.link = s.link /\ u.named = s.named /\ u.policy = s.policy /\ u.wire = s.wire
      /\ u.backend = "none" /\ u.removal = R /\ u.item = I
 <2>1. R \subseteq Nat /\ <<>> \in Seq(File) BY <1>1, <1>3
 <2> HIDE DEF R, I
 <2> QED BY <1>1, <1>5, <2>1 DEF HubShape
<1> HIDE DEF R, I, u
<1>7. Inv(u, h, v, e, {}) BY <1>3, <1>4, <1>6, GoneStep
<1>8. noteHost(u) \in HubShape /\ Same(u, noteHost(u)) BY <1>6, NoteParts
<1>9. Inv(noteHost(u), h, v, e, {}) BY <1>7, <1>8, Agree
<1> QED BY <1>2, <1>6, <1>8, <1>9 DEF Same

\* What an upload that was dropped left on the host is to be removed.
LEMMA RemoveDroppedStep ==
  ASSUME NEW s \in HubShape, s.removal \subseteq 1..s.named
  PROVE  /\ s.removal = {} => removeDropped(s) = s
         /\ \A h, v, e : Inv(s, h, v, e, {}) /\ s.life = "gone" /\ s.link = "up"
                            => Inv(removeDropped(s), h, v, e, {})
         /\ removeDropped(s).life = s.life /\ removeDropped(s) \in HubShape
<1> DEFINE order == SetToSeq(s.removal)
           g == CHOOSE f \in File : TRUE
           rs == [i \in 1..Len(order) |->
                          [k |-> "purge", f |-> g, t |-> order[i],
                           n |-> 0, old |-> FALSE, w |-> Nobody]]
           q == s.wire \o rs
           u == [s EXCEPT !.wire = q]
<1>1. s.named \in Nat /\ s.wire \in Seq(ReqShape) /\ IsFiniteSet(s.removal)
 <2>1. s.named \in Nat /\ s.wire \in Seq(ReqShape) BY HubParts
 <2>2. IsFiniteSet(1..s.named) BY <2>1, FS_Interval
 <2> QED BY <2>1, <2>2, FS_Subset
<1>2. g \in File BY ConstantsAssumption
<1> HIDE DEF g
<1>3. /\ Len(order) \in Nat /\ \A i \in 1..Len(order) : order[i] \in s.removal
 <2>1. /\ Len(SetToSeq(s.removal)) \in Nat
       /\ \A i \in 1..Len(SetToSeq(s.removal)) : SetToSeq(s.removal)[i] \in s.removal
   BY <1>1, SetInOrder, Zenon
 <2> QED BY <2>1
<1>4. removeDropped(s) = IF OnWire(s, {"purge"}) # {} THEN s ELSE AskAll(s, rs)
  BY Zenon DEF removeDropped, g
<1> HIDE DEF order
<1>5. ASSUME NEW i \in 1..Len(order)
      PROVE  rs[i] \in ReqShape /\ rs[i].k = "purge" /\ rs[i].t \in 1..s.named
  BY <1>1, <1>2, <1>3 DEF ReqShape, Kinds
<1>6. Len(rs) = Len(order) /\ rs \in Seq(ReqShape)
 <2>1. rs \in [1..Len(order) -> ReqShape] BY <1>5
 <2> HIDE DEF rs
 <2> QED BY <1>3, <2>1
<1> HIDE DEF rs
<1>7. q \in Seq(ReqShape) BY <1>1, <1>6
<1>8. AskAll(s, rs) = u BY DEF AskAll
<1> HIDE DEF q
<1>9. u \in HubShape /\ u.life = s.life BY <1>7 DEF HubShape
<1>10. ASSUME s.removal = {} PROVE u = s
 <2>1. Len(rs) = 0 BY <1>3, <1>6, <1>10
 <2>2. q = s.wire BY <1>1, <1>6, <2>1 DEF q
 <2> HIDE DEF q
 <2> QED BY <2>2 DEF HubShape
<1>11. ASSUME NEW h, NEW v, NEW e, Inv(s, h, v, e, {}), s.life = "gone", s.link = "up"
       PROVE  Inv(AskAll(s, rs), h, v, e, {})
 <2>1. ASSUME NEW i \in 1..Len(rs)
       PROVE  /\ ReqInv(s, v, e, rs[i]) /\ ReqHost(s, h, rs[i])
              /\ ~Open(rs[i]) /\ rs[i].k # "close"
              /\ \A j \in 1..Len(s.wire) : PairInv(s.wire[j], rs[i]) /\ PairNow(s, s.wire[j], rs[i])
              /\ \A j \in 1..Len(rs) : j < i => PairInv(rs[j], rs[i]) /\ PairNow(s, rs[j], rs[i])
  <3> DEFINE r == rs[i]
  <3>1. r.k = "purge" /\ r.t \in 1..s.named BY <1>5, <1>6
  <3> HIDE DEF r
  <3>2. ~Open(r) /\ ~LookAt(r) /\ ~Place(r)
    BY <3>1 DEF Open, LookAt, Place, OpenKinds, LookKinds, PlaceKinds
  <3>3. ReqInv(s, v, e, r)
    BY <1>11, <3>1, <3>2 DEF ReqInv, CutInv, CreateInv, PlaceInv, WriteInv, LookInv, OpenInv
  <3>4. ReqHost(s, h, r) BY <3>1, <3>2 DEF ReqHost
  <3>5. \A a : PairInv(a, r) /\ PairNow(s, a, r) BY <3>1, <3>2 DEF PairInv, PairNow
  <3>6. r.k # "close" BY <3>1
  <3> QED BY <3>2, <3>3, <3>4, <3>5, <3>6 DEF r
 <2> QED BY <1>6, <1>11, <2>1, AskAllStep
<1> QED BY <1>4, <1>8, <1>9, <1>10, <1>11

\* The upload is dropped, and what it left removed when the host is there.
LEMMA DroppedStep ==
  ASSUME NEW s, NEW h, NEW v, NEW e, Inv(s, h, v, e, {}), s.life = "kept",
         NEW l \in {"none", "discarded"}
  PROVE  Inv(IF s.link = "up" THEN removeDropped(drop(s)) ELSE drop(s), h,
             [v EXCEPT !.life = l], e, {})
<1> DEFINE d == drop(s)
           u == IF s.link = "up" THEN removeDropped(d) ELSE d
<1>1. Inv(d, h, v, e, {}) /\ d.life = "gone" /\ d.link = s.link BY DropStep
<1> HIDE DEF d
<1>2. d \in HubShape /\ d.removal \subseteq 1..d.named BY <1>1 DEF Inv, HubInv, GlobalInv, Whole
<1>3. Inv(u, h, v, e, {}) /\ u.life = "gone" BY <1>1, <1>2, RemoveDroppedStep
<1> HIDE DEF u
<1>4. u \in HubShape /\ u.removal \subseteq 1..u.named BY <1>3 DEF Inv, HubInv, GlobalInv, Whole
<1>5. u = [u EXCEPT !.removal = u.removal] BY <1>4 DEF HubShape
<1>6. Inv([u EXCEPT !.removal = u.removal], h, [v EXCEPT !.life = l], e, {})
  BY <1>3, <1>4, RecordStep
<1>7. Inv(u, h, [v EXCEPT !.life = l], e, {}) BY <1>5, <1>6
<1> QED BY <1>7 DEF u, d

\* The last temporary of a dropped upload is removed.
LEMMA PurgeDone ==
  ASSUME NEW s, NEW h, NEW v, NEW e, NEW r, Taken(s, h, v, e, r), r.k = "purge"
  PROVE  Inv(purgeDone(s, r), h,
             IF OnWire(purgeDone(s, r), {"purge"}) = {} THEN [v EXCEPT !.life = "none"] ELSE v, e, {})
<1>1. Inv(s, h, v, e, {}) BY RemoveDone
<1>2. s.life = "gone" /\ s \in HubShape BY <1>1 DEF Taken, ReqInv, Inv, HubInv
<1>3. CASE OnWire(s, {"purge"}) = {}
 <2> DEFINE u == [s EXCEPT !.removal = {}]
 <2>1. {} \in SUBSET (1..s.named) OBVIOUS
 <2>2. Inv(u, h, [v EXCEPT !.life = "none"], e, {}) BY <1>1, <1>2, <2>1, RecordStep
 <2>3. purgeDone(s, r) = u BY <1>3 DEF purgeDone
 <2>4. u.wire = s.wire BY <1>2 DEF HubShape
 <2> HIDE DEF u
 <2>5. OnWire(u, {"purge"}) = {} BY <1>3, <2>4 DEF OnWire
 <2> QED BY <2>2, <2>3, <2>5
<1>4. CASE OnWire(s, {"purge"}) # {} BY <1>1, <1>4 DEF purgeDone
<1> QED BY <1>3, <1>4

\* An upload that was placed or skipped whole is forgotten.
LEMMA ForgetStep ==
  ASSUME NEW s, NEW h, NEW v, NEW e, Inv(s, h, v, e, {}), s.life = "kept",
         \A f \in File : s.item[f].state \in {"placed", "skipped"}
  PROVE  Inv([s EXCEPT !.life = "gone", !.unsaved = {}, !.unsavedAcks = {}], h,
             [v EXCEPT !.life = "none"], e, {})
<1> DEFINE u == [s EXCEPT !.life = "gone", !.unsaved = {}, !.unsavedAcks = {}]
<1>1. s \in HubShape /\ s.removal \subseteq 1..s.named BY DEF Inv, HubInv, GlobalInv, Whole
<1>2. /\ u \in HubShape /\ u.life = "gone" /\ u.source = s.source /\ u.linkDropped = s.linkDropped
      /\ u.link = s.link /\ u.named = s.named /\ u.policy = s.policy /\ u.wire = s.wire
      /\ u.backend = s.backend /\ u.removal = s.removal /\ u.item = s.item BY <1>1 DEF HubShape
<1> HIDE DEF u
<1>3. ASSUME NEW f \in File
      PROVE  /\ u.item[f].sink = None /\ u.item[f].state # "sending"
             /\ Alike(s.item[f], u.item[f]) /\ u.item[f].state = s.item[f].state
 <2>1. ItemInv(s, v, e, f) BY DEF Inv, HubInv
 <2> QED BY <1>2, <2>1 DEF ItemInv, WellItem, Alike
<1>4. Inv(u, h, v, e, {}) BY <1>1, <1>2, <1>3, GoneStep
<1>5. u = [u EXCEPT !.removal = u.removal] BY <1>2 DEF HubShape
<1>6. Inv([u EXCEPT !.removal = u.removal], h, [v EXCEPT !.life = "none"], e, {})
  BY <1>1, <1>2, <1>4, RecordStep
<1>7. Inv(u, h, [v EXCEPT !.life = "none"], e, {}) BY <1>5, <1>6
<1> QED BY <1>7 DEF u

------------------------------
\* A file starts.

\* A file that starts.
LEMMA AdmitStep ==
  ASSUME NEW s, NEW h, NEW v, NEW e, Inv(s, h, v, e, {}), NEW f \in File,
         NEW q \in ReqShape, NEW u \in HubShape, Admits(s, h, v, e, f, q, u)
  PROVE  Inv(u, h, v, e, {})
<1>0. /\ s.item[f].state = "queued" /\ ~s.item[f].whole /\ s.life = "kept" /\ s.source # Nobody
      /\ s.link = "up" /\ q.f = f /\ q.k \in {"create", "stat", "clear"} /\ ~q.old /\ q.t # None
      /\ Named(s, e, f, q.t)
      /\ q.k = "create" => Fresh(s, h, v, f, q.t) /\ s.item[f].temp = None
      /\ q.k # "create" => s.item[f].temp = q.t
      /\ q.k = "stat" => s.item[f].acked > 0
      /\ u.life = s.life /\ u.source = s.source /\ u.linkDropped = s.linkDropped
      /\ u.link = s.link /\ u.named = s.named /\ u.removal = s.removal /\ u.policy = s.policy
      /\ u.backend = "live" /\ Starts(s.item[f], u.item[f], q.t)
      /\ \A g \in File : g # f => u.item[g] = s.item[g]
      /\ Len(u.wire) = Len(s.wire) + 1 /\ u.wire[Len(s.wire) + 1] = q
      /\ \A i \in 1..Len(s.wire) : Marked(s.wire[i], u.wire[i], f) BY DEF Admits
<1> USE <1>0
<1> DEFINE n == Len(s.wire)
           it == s.item[f]
           jt == u.item[f]
<1>1. /\ HubInv(s, v, e, {}) /\ HostInv(s, h, v, e, 0, {}) /\ s \in HubShape
      /\ GlobalInv(s, v, e) /\ ItemInv(s, v, e, f) /\ HereInv(s, e, f) /\ Prefix(h, it)
  BY DEF Inv, HubInv, HostInv
<1>2. /\ n \in Nat /\ it \in ItemShape /\ it.acked \in Nat /\ q.t \in Nat /\ s.named \in Nat
      /\ \A i \in 1..n : s.wire[i] \in ReqShape /\ s.wire[i].f \in File
  BY <1>1, HubParts, ItemParts, ReqParts
<1>3. /\ jt.state = "sending" /\ jt.temp = q.t /\ jt.acked = it.acked /\ jt.whole = it.whole
      /\ jt.resolution = it.resolution /\ jt.sink = it.sink /\ jt.writing = it.writing BY DEF Starts
<1>4. it.sink = None /\ ~s.linkDropped BY <1>1 DEF ItemInv, WellItem, GlobalInv, Whole
<1>5. ASSUME NEW i \in 1..n
      PROVE  /\ ReqInv(s, v, e, s.wire[i]) /\ ReqHost(s, h, s.wire[i])
             /\ u.wire[i].k = s.wire[i].k /\ u.wire[i].f = s.wire[i].f /\ u.wire[i].t = s.wire[i].t
             /\ u.wire[i].w = s.wire[i].w
             /\ Open(u.wire[i]) = Open(s.wire[i]) /\ LookAt(u.wire[i]) = LookAt(s.wire[i])
             /\ Place(u.wire[i]) = Place(s.wire[i])
             /\ s.wire[i].f # f => u.wire[i] = s.wire[i]
             /\ Latest(u.wire[i]) => Latest(s.wire[i]) /\ s.wire[i].f # f
             /\ Open(u.wire[i]) /\ u.wire[i].f = f => u.wire[i].old
             /\ ~Open(s.wire[i]) => u.wire[i] = s.wire[i]
 <2>1. Marked(s.wire[i], u.wire[i], f) OBVIOUS
 <2>2. i > 0 BY <1>2
 <2>3. ReqInv(s, v, e, s.wire[i]) /\ ReqHost(s, h, s.wire[i]) BY <1>1, <2>2 DEF HubInv, HostInv
 <2> QED BY <2>1, <2>3 DEF Marked, Open, LookAt, Place, Latest
<1>6. ASSUME NEW i \in 1..n, s.wire[i].f = f
      PROVE  /\ ~Place(s.wire[i]) /\ ~LookAt(s.wire[i]) /\ s.wire[i].k # "purge"
             /\ Open(s.wire[i]) => s.wire[i].k = "create"
             /\ s.wire[i].k = "write" => q.k # "create"
 <2>1. ReqInv(s, v, e, s.wire[i]) BY <1>5
 <2>2. ~Place(s.wire[i]) /\ s.wire[i].k # "purge" BY <1>6, <2>1 DEF ReqInv, PlaceInv
 <2>3. ~LookAt(s.wire[i]) /\ (Open(s.wire[i]) => s.wire[i].k = "create")
   BY <1>6, <2>1 DEF ReqInv, LookInv, OpenInv
 <2>4. s.wire[i].k = "write" => q.k # "create"
  <3>1. s.wire[i].t # None BY <1>2, <2>1 DEF ReqInv, None
  <3> QED BY <1>6, <2>1, <3>1 DEF ReqInv, WriteInv
 <2> QED BY <2>2, <2>3, <2>4
<1>7. q.k # "create" => \A i \in 1..n : ~LookAt(s.wire[i])
 <2>1. ASSUME q.k # "create", NEW i \in 1..n, LookAt(s.wire[i]) PROVE FALSE
  <3>1. LookInv(s, s.wire[i]) BY <1>5 DEF ReqInv
  <3> QED BY <2>1, <3>1 DEF LookInv
 <2> QED BY <2>1
<1>8. /\ Open(q) /\ Latest(q) /\ ~LookAt(q) /\ ~Place(q)
      /\ q.k \notin {"purge", "remove", "write", "close", "cut", "reopen", "lookcut", "lookclear", "unlink"}
  BY DEF Open, Latest, LookAt, Place, OpenKinds, LookKinds, PlaceKinds
<1>9. ASSUME NEW i \in 1..Len(u.wire) PROVE i \in 1..n \/ (i = n + 1 /\ u.wire[i] = q) BY <1>2, <1>9
<1>10. GlobalInv(u, v, e)
 <2>1. u.wire # <<>> BY <1>2
 <2> QED BY <1>1, <2>1 DEF GlobalInv, Whole
<1> HIDE DEF jt
<1>11. ASSUME NEW g \in File PROVE ItemInv(u, v, e, g) /\ Prefix(h, u.item[g])
 <2>1. CASE g # f
  <3>1. u.item[g] = s.item[g] /\ ItemInv(s, v, e, g) /\ Prefix(h, s.item[g])
    BY <1>1, <2>1 DEF HubInv, HostInv
  <3> QED BY <1>4, <3>1 DEF ItemInv, Named
 <2>2. CASE g = f
  <3>1. WellItem(jt) BY <1>1, <1>3, <1>4 DEF ItemInv, WellItem
  <3>2. Named(u, e, f, jt.temp) /\ Named(u, e, f, jt.sink) /\ Named(u, e, f, v.item[f].temp)
    BY <1>1, <1>2, <1>3, <1>4 DEF ItemInv, Named, None
  <3>3. v.item[f].temp = jt.temp /\ jt.temp # None => v.item[f].acked <= jt.acked
    BY <1>1, <1>3 DEF ItemInv, Fresh
  <3>4. Prefix(h, jt) BY <1>1, <1>3 DEF Prefix, Fresh
  <3>5. ItemInv(u, v, e, f) BY <1>1, <1>3, <1>4, <3>1, <3>2, <3>3 DEF ItemInv, jt
  <3> QED BY <2>2, <3>4, <3>5 DEF jt
 <2> QED BY <2>1, <2>2
<1>12. ASSUME NEW i \in 1..n PROVE ReqInv(u, v, e, u.wire[i]) /\ ReqHost(u, h, u.wire[i])
 <2> DEFINE a == s.wire[i]
            b == u.wire[i]
 <2>0. ReqInv(s, v, e, a) /\ ReqHost(s, h, a) /\ a.f \in File BY <1>2, <1>5
 <2>1. CASE a.f # f
  <3>1. b = a /\ u.item[a.f] = s.item[a.f] BY <1>5, <2>0, <2>1
  <3>2. LookInv(u, a)
   <4>1. \A g \in File : u.item[g].state = "queued" =>
            s.item[g].state = "queued" /\ u.item[g].temp = s.item[g].temp BY <1>3 DEF jt
   <4> HIDE DEF a
   <4> QED BY <2>0, <3>1, <4>1 DEF ReqInv, LookInv
  <3> HIDE DEF a, b
  <3>3. CutInv(u, v, a) /\ CreateInv(u, v, a) /\ PlaceInv(u, e, a) /\ WriteInv(u, a) /\ OpenInv(u, a)
    BY <2>0, <3>1 DEF ReqInv, CutInv, CreateInv, PlaceInv, WriteInv, OpenInv
  <3>4. ReqInv(u, v, e, a) BY <2>0, <3>1, <3>2, <3>3 DEF ReqInv
  <3>5. ReqHost(u, h, a) BY <2>0, <3>1 DEF ReqHost
  <3> QED BY <3>1, <3>4, <3>5 DEF b
 <2>2. CASE a.f = f
  <3>1. /\ ~Place(b) /\ ~LookAt(b) /\ b.k # "purge" /\ (Open(b) => b.k = "create")
        /\ b.k = "write" => q.k # "create" BY <1>5, <1>6, <2>2
  <3>2. /\ b.k = a.k /\ b.f = f /\ b.t = a.t /\ (Open(b) <=> Open(a)) /\ (Open(b) => b.old)
        /\ ~Open(a) => b = a BY <1>5, <2>2
  <3>3. b.k \notin {"cut", "lookcut"} BY <3>1 DEF Open, OpenKinds, LookAt, LookKinds
  <3>4. q.k = "create" => a.t # q.t BY DEF Fresh
  <3> HIDE DEF a, b
  <3>5. CutInv(u, v, b) /\ PlaceInv(u, e, b) /\ LookInv(u, b)
    BY <3>1, <3>3 DEF CutInv, PlaceInv, LookInv
  <3>a. CreateInv(s, v, a) /\ WriteInv(s, a) /\ (a.k = "remove" => it.temp # a.t)
    BY <2>0, <2>2 DEF ReqInv
  <3>b. u.item[b.f] = jt /\ s.item[a.f] = it /\ v.item[b.f] = v.item[a.f] BY <2>2, <3>2 DEF jt
  <3> HIDE DEF it
  <3>6. CreateInv(u, v, b) BY <1>3, <3>2, <3>a, <3>b DEF CreateInv
  <3>7. WriteInv(u, b)
   <4>1. b.k = "write" => ~Open(a) BY <3>2 DEF Open, OpenKinds
   <4>2. b.k = "write" => b = a /\ jt.temp = it.temp BY <1>3, <3>1, <3>2, <4>1 DEF it
   <4> QED BY <1>3, <3>2, <3>a, <3>b, <4>2 DEF WriteInv
  <3>8. OpenInv(u, b) BY <1>3, <3>1, <3>2 DEF OpenInv, jt
  <3>9. b.k = "remove" => u.item[f].temp # b.t
   <4>1. q.k # "create" => jt.temp = it.temp BY <1>3 DEF it
   <4>2. q.k = "create" => jt.temp # b.t BY <1>3, <3>2, <3>4
   <4> QED BY <3>2, <3>a, <4>1, <4>2 DEF jt
  <3>10. ReqInv(u, v, e, b)
   <4>1. a.t \in 1..s.named /\ (a.k # "purge" => e.own[a.t] = a.f) BY <2>0 DEF ReqInv
   <4>2. b.t \in 1..u.named /\ e.own[b.t] = b.f BY <2>2, <3>1, <3>2, <4>1
   <4>3. ~u.item[b.f].whole /\ u.item[b.f].state # "conflict" BY <1>3, <3>b DEF it
   <4>4. b.k = "remove" => u.item[b.f].temp # b.t BY <3>2, <3>9
   <4> QED BY <3>1, <3>5, <3>6, <3>7, <3>8, <4>2, <4>3, <4>4 DEF ReqInv
  <3>11. ReqHost(u, h, b) BY <2>0, <3>1, <3>2 DEF ReqHost
  <3> QED BY <3>10, <3>11 DEF b
 <2> QED BY <2>1, <2>2
<1>13. ReqInv(u, v, e, q) /\ ReqHost(u, h, q)
 <2>1. q.t \in 1..u.named /\ e.own[q.t] = q.f BY <1>2 DEF Named, None
 <2>2. CutInv(u, v, q) /\ PlaceInv(u, e, q) /\ WriteInv(u, q) /\ LookInv(u, q)
   BY <1>8 DEF CutInv, PlaceInv, WriteInv, LookInv
 <2>3. CreateInv(u, v, q) BY <1>1, <1>3 DEF CreateInv, ItemInv, WellItem, Fresh, jt
 <2>4. OpenInv(u, q) BY <1>3 DEF OpenInv, jt
 <2>5. ReqHost(u, h, q) BY <1>8 DEF ReqHost, Fresh
 <2> QED BY <1>3, <1>8, <2>1, <2>2, <2>3, <2>4, <2>5 DEF ReqInv, jt
<1>14. ASSUME NEW i \in 1..n, NEW j \in 1..n, i < j
       PROVE  PairInv(u.wire[i], u.wire[j]) /\ PairNow(u, u.wire[i], u.wire[j])
 <2> DEFINE a == s.wire[i]
            b == s.wire[j]
            c == u.wire[i]
            d == u.wire[j]
 <2>1. PairInv(a, b) /\ PairNow(s, a, b) /\ a.f \in File BY <1>1, <1>2, <1>14 DEF HubInv
 <2>2. /\ c.k = a.k /\ c.f = a.f /\ c.t = a.t /\ c.w = a.w
       /\ (Open(c) <=> Open(a)) /\ (LookAt(c) <=> LookAt(a)) /\ (Place(c) <=> Place(a))
       /\ Latest(c) => Latest(a) /\ a.f # f BY <1>5
 <2>3. /\ d.k = b.k /\ d.f = b.f /\ d.t = b.t /\ d.w = b.w
       /\ (Open(d) <=> Open(b)) /\ (LookAt(d) <=> LookAt(b)) /\ (Place(d) <=> Place(b)) BY <1>5
 <2>4. a.f # f => u.item[a.f] = s.item[a.f] BY <2>1
 <2>5. u.item[f].sink = None BY <1>3, <1>4 DEF jt
 <2>a. a.f = f => ~LookAt(a) BY <1>6
 <2> HIDE DEF a, b, c, d
 <2>6. PairInv(c, d) BY <2>1, <2>2, <2>3 DEF PairInv, Apart
 <2>7. PairNow(u, c, d)
  <3>1. CASE a.f = f BY <2>2, <2>3, <2>5, <2>a, <3>1 DEF PairNow
  <3>2. CASE a.f # f BY <2>1, <2>2, <2>3, <2>4, <3>2 DEF PairNow
  <3> QED BY <3>1, <3>2
 <2> QED BY <2>6, <2>7 DEF c, d
<1>15. ASSUME NEW i \in 1..n PROVE PairInv(u.wire[i], q) /\ PairNow(u, u.wire[i], q)
 <2> DEFINE a == s.wire[i]
            c == u.wire[i]
 <2>1. /\ c.k = a.k /\ c.f = a.f /\ c.t = a.t /\ c.w = a.w
       /\ (Open(c) <=> Open(a)) /\ (LookAt(c) <=> LookAt(a)) /\ (Place(c) <=> Place(a))
       /\ Latest(c) => Latest(a) /\ a.f # f BY <1>5
 <2>2. /\ LookAt(a) => q.k = "create"
       /\ q.k = "create" => a.t # q.t BY <1>7 DEF Fresh
 <2>3. a.f = f => /\ ~Place(a) /\ ~LookAt(a)
                  /\ a.k = "write" => q.k # "create" BY <1>6
 <2>4. u.item[f].sink = None BY <1>3, <1>4 DEF jt
 <2> HIDE DEF a, c
 <2>5. PairInv(c, q) BY <1>8, <2>1, <2>2, <2>3 DEF PairInv, Apart
 <2>6. PairNow(u, c, q) BY <1>8, <2>1, <2>4 DEF PairNow
 <2> QED BY <2>5, <2>6 DEF c
<1>16. OldInv(u)
 <2> SUFFICES ASSUME NEW i \in 1..Len(u.wire), Open(u.wire[i]), u.wire[i].old
              PROVE  \E j \in 1..Len(u.wire) :
                        j > i /\ Latest(u.wire[j]) /\ u.wire[j].f = u.wire[i].f BY DEF OldInv
 <2>1. i \in 1..n BY <1>9
 <2>2. CASE u.wire[i].f = f
  <3>1. n + 1 \in 1..Len(u.wire) /\ n + 1 > i BY <1>2, <2>1
  <3> QED BY <1>8, <2>2, <3>1
 <2>3. CASE u.wire[i].f # f
  <3>1. u.wire[i] = s.wire[i] BY <1>5, <2>1, <2>3
  <3>2. PICK j \in 1..n : j > i /\ Latest(s.wire[j]) /\ s.wire[j].f = s.wire[i].f
    BY <1>1, <2>1, <3>1 DEF HubInv, OldInv
  <3>3. u.wire[j] = s.wire[j] /\ j \in 1..Len(u.wire) BY <1>2, <1>5, <2>3, <3>1, <3>2
  <3> QED BY <3>1, <3>2, <3>3
 <2> QED BY <2>2, <2>3
<1>17. ASSUME NEW g \in File \ {} PROVE SendInv(u, g) /\ HereInv(u, e, g) /\ SinkInv(u, h, g)
 <2>1. CASE g = f
  <3>1. SendInv(u, f) /\ SinkInv(u, h, f) BY <1>3, <1>4 DEF SendInv, SinkInv, jt
  <3>2. HereInv(u, e, f)
   <4>1. \A i \in 1..n : s.wire[i].f = f => s.wire[i].k # "unlink" BY <1>6 DEF Place, PlaceKinds
   <4> QED BY <1>1, <4>1 DEF HereInv
  <3> QED BY <2>1, <3>1, <3>2
 <2>2. CASE g # f
  <3>1. SendInv(s, g) /\ HereInv(s, e, g) /\ SinkInv(s, h, g) /\ u.item[g] = s.item[g]
    BY <1>1, <2>2 DEF HubInv, HostInv
  <3>2. \A i \in 1..n : i \in 1..Len(u.wire) /\ (s.wire[i].f = g => u.wire[i] = s.wire[i])
    BY <1>2, <1>5, <2>2
  <3>3. LatestOf(s, g) => LatestOf(u, g) BY <3>2 DEF LatestOf
  <3>4. ASSUME NEW i \in 1..Len(u.wire), u.wire[i].f = g, u.wire[i].k = "close"
        PROVE  i \in 1..n /\ s.wire[i].f = g /\ s.wire[i].k = "close"
    BY <1>5, <1>8, <1>9, <2>2, <3>4
  <3>5. SendInv(u, g) BY <3>1, <3>3, <3>4 DEF SendInv
  <3>6. SinkInv(u, h, g) BY <3>1, <3>3 DEF SinkInv
  <3>7. HereInv(u, e, g) BY <3>1, <3>2 DEF HereInv
  <3> QED BY <3>5, <3>6, <3>7
 <2> QED BY <2>1, <2>2
<1>18. \A i \in 1..Len(u.wire) : ReqInv(u, v, e, u.wire[i]) /\ ReqHost(u, h, u.wire[i])
  BY <1>9, <1>12, <1>13
<1>19. ASSUME NEW i \in 1..Len(u.wire), NEW j \in 1..Len(u.wire), i < j
       PROVE  PairInv(u.wire[i], u.wire[j]) /\ PairNow(u, u.wire[i], u.wire[j])
 <2>1. i \in 1..n BY <1>2, <1>19
 <2>2. j \in 1..n \/ u.wire[j] = q BY <1>9
 <2> QED BY <1>14, <1>15, <1>19, <2>1, <2>2
<1>20. HubInv(u, v, e, {}) BY <1>1, <1>10, <1>11, <1>16, <1>17, <1>18, <1>19 DEF HubInv
<1>21. HostInv(u, h, v, e, 0, {}) BY <1>1, <1>11, <1>17, <1>18 DEF HostInv
<1> QED BY <1>20, <1>21 DEF Inv

\* admit marks the opens of the file that are under way.
LEMMA MarkParts ==
  ASSUME NEW s \in HubShape, NEW f \in File
  PROVE  LET W == [i \in DOMAIN s.wire |->
                      IF s.wire[i].k \in OpenKinds /\ s.wire[i].f = f
                      THEN [s.wire[i] EXCEPT !.old = TRUE] ELSE s.wire[i]]
         IN  /\ W \in Seq(ReqShape) /\ Len(W) = Len(s.wire)
             /\ \A i \in 1..Len(s.wire) : Marked(s.wire[i], W[i], f)
<1> DEFINE n == Len(s.wire)
           W == [i \in DOMAIN s.wire |->
                        IF s.wire[i].k \in OpenKinds /\ s.wire[i].f = f
                        THEN [s.wire[i] EXCEPT !.old = TRUE] ELSE s.wire[i]]
<1>1. /\ n \in Nat /\ DOMAIN s.wire = 1..n
      /\ \A i \in 1..n : s.wire[i] \in ReqShape BY HubParts
<1>2. ASSUME NEW i \in 1..n PROVE W[i] \in ReqShape /\ Marked(s.wire[i], W[i], f)
 <2> DEFINE a == s.wire[i]
            b == W[i]
 <2>1. a \in ReqShape BY <1>1
 <2>2. b = IF a.k \in OpenKinds /\ a.f = f THEN [a EXCEPT !.old = TRUE] ELSE a BY <1>1
 <2> HIDE DEF a, b
 <2>3. CASE Open(a) /\ a.f = f
  <3>1. b = [a EXCEPT !.old = TRUE] BY <2>2, <2>3 DEF Open
  <3>2. b \in ReqShape /\ b.k = a.k /\ b.f = a.f /\ b.t = a.t /\ b.n = a.n /\ b.w = a.w /\ b.old = TRUE
    BY <2>1, <3>1 DEF ReqShape
  <3> QED BY <2>3, <3>2 DEF Marked, a, b
 <2>4. CASE ~(Open(a) /\ a.f = f)
  <3>1. b = a BY <2>2, <2>4 DEF Open
  <3> QED BY <2>1, <2>4, <3>1 DEF Marked, a, b
 <2> QED BY <2>3, <2>4
<1>3. DOMAIN W = 1..n BY <1>1
<1> HIDE DEF W
<1>4. W \in [1..n -> ReqShape]
 <2>1. W = [i \in 1..n |-> W[i]] BY <1>3 DEF W
 <2> QED BY <1>2, <2>1
<1>5. W \in Seq(ReqShape) /\ Len(W) = n BY <1>1, <1>4
<1>6. \A i \in 1..n : Marked(s.wire[i], W[i], f) BY <1>2
<1> QED BY <1>5, <1>6, Zenon DEF W

\* admit, of a file whose host is reached.
LEMMA AdmitUp ==
  ASSUME NEW s, NEW h, NEW v, NEW e, Inv(s, h, v, e, {}), NEW f \in File,
         s.item[f].state = "queued", ~s.item[f].whole, s.life = "kept", s.source # Nobody,
         s.link = "up"
  PROVE  /\ \E d : SameEnv(e, d) /\ Inv(admit(s, f), h, v, d, {})
         /\ admit(s, f).life = "kept" /\ admit(s, f).source = s.source
<1> DEFINE it == s.item[f]
           a == setState(s, f, "sending")
           W == [i \in DOMAIN s.wire |->
                        IF s.wire[i].k \in OpenKinds /\ s.wire[i].f = f
                        THEN [s.wire[i] EXCEPT !.old = TRUE] ELSE s.wire[i]]
           b == backendOf([a EXCEPT !.wire = W])
           k == IF it.acked > 0 THEN "stat" ELSE "clear"
<1>1. s \in HubShape /\ s.item \in [File -> ItemShape] /\ it \in ItemShape /\ s.wire \in Seq(ReqShape)
      /\ s.named \in Nat BY HubParts DEF Inv, HubInv
<1>2. /\ W \in Seq(ReqShape) /\ Len(W) = Len(s.wire) /\ Len(s.wire) \in Nat
      /\ \A i \in 1..Len(s.wire) : Marked(s.wire[i], W[i], f)
 <2>1. /\ W \in Seq(ReqShape) /\ Len(W) = Len(s.wire)
       /\ \A i \in 1..Len(s.wire) : Marked(s.wire[i], W[i], f) BY <1>1, MarkParts, Zenon
 <2> HIDE DEF W
 <2> QED BY <1>1, <2>1
<1>3. Changes(s, a, f, [it EXCEPT !.state = "sending"])
 <2>1. "sending" \in State BY DEF State, Unsettled
 <2> QED BY <1>1, <2>1, SetStateParts
<1>4. a.wire = s.wire BY <1>3 DEF Changes
<1>5. admit(s, f) = settle(IF it.temp = None THEN newTemp(b, f, FALSE) ELSE AskFor(b, k, f, it.temp))
 <2>1. Reached(s) BY DEF Reached
 <2>2. [setState(s, f, "sending") EXCEPT
                !.wire = [i \in DOMAIN @ |->
                             IF @[i].k \in OpenKinds /\ @[i].f = f
                             THEN [@[i] EXCEPT !.old = TRUE] ELSE @[i]]]
         = [a EXCEPT !.wire = W] BY <1>4
 <2> HIDE DEF a, W
 <2> QED BY <2>1, <2>2 DEF admit, a
<1> HIDE DEF W, a
<1>6. /\ b \in HubShape /\ b.life = s.life /\ b.source = s.source /\ b.linkDropped = s.linkDropped
      /\ b.link = s.link /\ b.named = s.named /\ b.removal = s.removal /\ b.policy = s.policy
      /\ b.backend = "live" /\ b.wire = W /\ b.item = a.item /\ b.unsaved \subseteq File
      /\ b.dirty \subseteq File /\ b.unsavedAcks \subseteq File
 <2>1. a \in HubShape /\ Still(s, a) BY <1>3 DEF Changes
 <2> QED BY <1>2, <2>1 DEF Still, HubShape, backendOf
<1> HIDE DEF b
<1>7. /\ b.item[f] = [it EXCEPT !.state = "sending"] /\ b.item[f] \in ItemShape
      /\ \A g \in File : g # f => b.item[g] = s.item[g] BY <1>3, <1>6 DEF Changes
<1>8. CASE it.temp = None
 <2> DEFINE t == s.named + 1
            p == [s EXCEPT !.named = @ + 1]
            d == [e EXCEPT !.own = [@ EXCEPT ![t] = f]]
            jt == [b.item[f] EXCEPT !.temp = t]
            J == [b.item EXCEPT ![f] = jt]
            c == [b EXCEPT !.named = t, !.item = J, !.unsaved = b.unsaved \cup {f}]
            q == [k |-> "create", f |-> f, t |-> t, n |-> 0, old |-> FALSE, w |-> Nobody]
            x == [c EXCEPT !.wire = Append(W, q)]
            u == settle(x)
 <2>1. /\ Inv(p, h, v, d, {}) /\ SameEnv(e, d) /\ d.own[t] = f /\ Fresh(p, h, v, f, t) /\ t \in Nat
   BY NameStep
 <2>2. jt \in ItemShape /\ J \in [File -> ItemShape] /\ J[f] = jt /\ \A g \in File : g # f => J[g] = s.item[g]
  <3>1. b.item \in [File -> ItemShape] BY <1>6, HubParts
  <3>2. jt \in ItemShape BY <1>7, <2>1 DEF ItemShape
  <3> HIDE DEF jt
  <3> QED BY <1>7, <3>1, <3>2
 <2>3. q \in ReqShape /\ q.k = "create" /\ q.f = f /\ q.t = t /\ q.old = FALSE
   BY <2>1 DEF ReqShape, Kinds, OpenKinds
 <2>4. admit(s, f) = u
  <3>1. newTemp(b, f, FALSE) = x
   <4>1. [b EXCEPT !.named = @ + 1, !.item[f].temp = b.named + 1, !.unsaved = @ \cup {f}] = c
     BY <1>6 DEF HubShape
   <4>2. c.wire = W BY <1>6 DEF HubShape
   <4> HIDE DEF c
   <4> QED BY <1>6, <4>1, <4>2 DEF newTemp, Ask
  <3> HIDE DEF x
  <3> QED BY <1>5, <1>8, <3>1
 <2> HIDE DEF q, J, jt
 <2>5. /\ x \in HubShape /\ x.life = s.life /\ x.source = s.source /\ x.linkDropped = s.linkDropped
       /\ x.link = s.link /\ x.named = t /\ x.removal = s.removal /\ x.policy = s.policy
       /\ x.backend = "live" /\ x.item = J /\ x.wire = Append(W, q)
  <3>1. Append(W, q) \in Seq(ReqShape) BY <1>2, <2>3
  <3>2. /\ c \in HubShape /\ c.life = s.life /\ c.source = s.source /\ c.linkDropped = s.linkDropped
        /\ c.link = s.link /\ c.named = t /\ c.removal = s.removal /\ c.policy = s.policy
        /\ c.backend = "live" /\ c.item = J BY <1>6, <2>1, <2>2 DEF HubShape
  <3> DEFINE A == Append(W, q)
  <3> HIDE DEF c, A
  <3> QED BY <3>1, <3>2 DEF HubShape, A
 <2>6. /\ Len(x.wire) = Len(s.wire) + 1 /\ x.wire[Len(s.wire) + 1] = q
       /\ \A i \in 1..Len(s.wire) : x.wire[i] = W[i] BY <1>2, <2>3, <2>5
 <2> HIDE DEF x
 <2>7. u \in HubShape /\ Same(x, u) BY <2>5, SettleParts
 <2> HIDE DEF u
 <2>8. /\ p.life = s.life /\ p.source = s.source /\ p.linkDropped = s.linkDropped
       /\ p.link = s.link /\ p.named = t /\ p.removal = s.removal /\ p.policy = s.policy
       /\ p.item = s.item /\ p.wire = s.wire BY <1>1 DEF HubShape
 <2> HIDE DEF p, d
 <2>9. Starts(s.item[f], x.item[f], q.t)
  <3>1. x.item[f] = [[it EXCEPT !.state = "sending"] EXCEPT !.temp = t] BY <1>7, <2>2, <2>5 DEF jt
  <3> QED BY <1>1, <2>3, <3>1 DEF ItemShape, Starts
 <2>10. t # None /\ Named(p, d, f, t) BY <1>1, <2>1, <2>8 DEF Named, None
 <2>11. \A i \in 1..Len(p.wire) : Marked(p.wire[i], x.wire[i], f) BY <1>2, <2>6, <2>8
 <2>12. \A g \in File : g # f => x.item[g] = p.item[g] BY <2>2, <2>5, <2>8
 <2> HIDE DEF t
 <2>13. Inv(x, h, v, d, {})
  <3>1. q.k \in {"create", "stat", "clear"} /\ ~q.old /\ q.t # None /\ Named(p, d, f, q.t)
        /\ Fresh(p, h, v, f, q.t) /\ p.item[f].temp = None BY <1>8, <2>1, <2>3, <2>8, <2>10
  <3>2. /\ p.item[f].state = "queued" /\ ~p.item[f].whole /\ p.life = "kept" /\ p.source # Nobody
        /\ p.link = "up" BY <2>8
  <3>3. Starts(p.item[f], x.item[f], q.t) BY <2>8, <2>9
  <3>4. Len(x.wire) = Len(p.wire) + 1 /\ x.wire[Len(p.wire) + 1] = q BY <2>6, <2>8
  <3>5. Admits(p, h, v, d, f, q, x)
    BY <2>3, <2>5, <2>8, <2>11, <2>12, <3>1, <3>2, <3>3, <3>4 DEF Admits
  <3> QED BY <2>1, <2>3, <2>5, <3>5, AdmitStep
 <2>14. Inv(u, h, v, d, {}) BY <2>7, <2>13, Agree
 <2> QED BY <2>1, <2>4, <2>5, <2>7, <2>14 DEF Same
<1>9. CASE it.temp # None
 <2> DEFINE t == it.temp
            q == [k |-> k, f |-> f, t |-> t, n |-> 0, old |-> FALSE, w |-> Nobody]
            x == [b EXCEPT !.wire = Append(W, q)]
            u == settle(x)
 <2>1. t \in Nat /\ it.acked \in Nat /\ k \in {"stat", "clear"} /\ (k = "stat" => it.acked > 0)
   BY <1>1, ItemParts
 <2>2. q \in ReqShape /\ q.k = k /\ q.f = f /\ q.t = t /\ q.old = FALSE
   BY <2>1 DEF ReqShape, Kinds, OpenKinds
 <2>3. admit(s, f) = u
  <3>1. AskFor(b, k, f, t) = x BY <1>6 DEF AskFor, Ask
  <3> HIDE DEF x
  <3> QED BY <1>5, <1>9, <3>1
 <2> HIDE DEF q, k
 <2>5. /\ x \in HubShape /\ x.life = s.life /\ x.source = s.source /\ x.linkDropped = s.linkDropped
       /\ x.link = s.link /\ x.named = s.named /\ x.removal = s.removal /\ x.policy = s.policy
       /\ x.backend = "live" /\ x.item = b.item /\ x.wire = Append(W, q)
  <3>1. Append(W, q) \in Seq(ReqShape) BY <1>2, <2>2
  <3> DEFINE A == Append(W, q)
  <3> HIDE DEF A
  <3> QED BY <1>6, <3>1 DEF HubShape, A
 <2>6. /\ Len(x.wire) = Len(s.wire) + 1 /\ x.wire[Len(s.wire) + 1] = q
       /\ \A i \in 1..Len(s.wire) : x.wire[i] = W[i] BY <1>2, <2>2, <2>5
 <2> HIDE DEF x
 <2>7. u \in HubShape /\ Same(x, u) BY <2>5, SettleParts
 <2> HIDE DEF u
 <2>9. Starts(s.item[f], x.item[f], q.t)
  <3>1. x.item[f] = [it EXCEPT !.state = "sending"] BY <1>7, <2>5
  <3> QED BY <1>1, <2>2, <3>1 DEF ItemShape, Starts
 <2>10. Named(s, e, f, t) BY DEF Inv, HubInv, ItemInv
 <2>11. \A i \in 1..Len(s.wire) : Marked(s.wire[i], x.wire[i], f) BY <1>2, <2>6
 <2>12. \A g \in File : g # f => x.item[g] = s.item[g] BY <1>7, <2>5
 <2>13. Inv(x, h, v, e, {})
  <3>1. /\ q.k \in {"create", "stat", "clear"} /\ ~q.old /\ q.t # None /\ Named(s, e, f, q.t)
        /\ q.k # "create" /\ s.item[f].temp = q.t /\ (q.k = "stat" => s.item[f].acked > 0)
    BY <1>9, <2>1, <2>2, <2>10
  <3>2. Admits(s, h, v, e, f, q, x) BY <2>2, <2>5, <2>6, <2>9, <2>11, <2>12, <3>1 DEF Admits
  <3> QED BY <2>2, <2>5, <3>2, AdmitStep
 <2>14. Inv(u, h, v, e, {}) BY <2>7, <2>13, Agree
 <2>15. SameEnv(e, e) BY DEF SameEnv
 <2> QED BY <2>3, <2>5, <2>7, <2>14, <2>15 DEF Same
<1> QED BY <1>8, <1>9

\* admit, of a file whose host is not reached.
LEMMA AdmitDown ==
  ASSUME NEW s, NEW h, NEW v, NEW e, Inv(s, h, v, e, {}), NEW f \in File,
         s.item[f].state = "queued", s.life = "kept", s.link = "down"
  PROVE  /\ Inv(admit(s, f), h, v, e, {})
         /\ admit(s, f).life = "kept" /\ admit(s, f).source = s.source
<1> DEFINE it == s.item[f]
           a == setState(s, f, "sending")
           W == [i \in DOMAIN s.wire |->
                        IF s.wire[i].k \in OpenKinds /\ s.wire[i].f = f
                        THEN [s.wire[i] EXCEPT !.old = TRUE] ELSE s.wire[i]]
           c == [setState(a, f, "interrupted") EXCEPT !.item[f].sink = None]
           jt == [it EXCEPT !.state = "sending"]
           kt == [jt EXCEPT !.state = "interrupted", !.sink = None]
<1>1. s \in HubShape /\ s.item \in [File -> ItemShape] /\ it \in ItemShape /\ s.wire \in Seq(ReqShape)
      /\ Len(s.wire) \in Nat /\ s.backend # "live" /\ HereInv(s, e, f)
  BY HubParts DEF Inv, HubInv, GlobalInv, Whole
<1>2. \A i \in 1..Len(s.wire) : s.wire[i].k = "close" BY DEF Inv, HubInv, ReqInv
<1>3. W = s.wire
 <2>1. DOMAIN s.wire = 1..Len(s.wire) BY <1>1
 <2>2. \A i \in DOMAIN s.wire : ~(s.wire[i].k \in OpenKinds /\ s.wire[i].f = f)
   BY <1>2, <2>1 DEF OpenKinds
 <2>3. W = [i \in DOMAIN s.wire |-> s.wire[i]] BY <2>2
 <2> HIDE DEF W
 <2> QED BY <1>1, <2>1, <2>3
<1>4. "sending" \in State /\ "interrupted" \in State /\ "interrupted" \in Stopped
  BY DEF State, Unsettled, Stopped
<1>5. Changes(s, a, f, jt) BY <1>1, <1>4, SetStateParts
<1>6. a \in HubShape /\ a.wire = s.wire /\ a.item[f] = jt /\ jt \in ItemShape BY <1>5 DEF Changes
<1>7. [setState(s, f, "sending") EXCEPT
                 !.wire = [i \in DOMAIN @ |->
                              IF @[i].k \in OpenKinds /\ @[i].f = f
                              THEN [@[i] EXCEPT !.old = TRUE] ELSE @[i]]]
          = a
 <2>1. [a EXCEPT !.wire = W] = a
  <3> HIDE DEF a, W
  <3> QED BY <1>3, <1>6 DEF HubShape
 <2>2. [setState(s, f, "sending") EXCEPT
                !.wire = [i \in DOMAIN @ |->
                             IF @[i].k \in OpenKinds /\ @[i].f = f
                             THEN [@[i] EXCEPT !.old = TRUE] ELSE @[i]]]
         = [a EXCEPT !.wire = W] BY <1>6
 <2> QED BY <2>1, <2>2
<1>8. admit(s, f) = settle(Interrupted(a, f))
 <2>1. ~Reached(s) BY <1>1 DEF Reached
 <2> HIDE DEF a
 <2> QED BY <1>7, <2>1 DEF admit
<1>9. Interrupted(a, f) = interruptAll(c) BY DEF Interrupted
<1> HIDE DEF a
<1>10. Changes(a, c, f, kt) BY <1>4, <1>6, StopParts
<1> HIDE DEF c
<1>11. Changes(s, c, f, kt) BY <1>5, <1>10, ChangesTwice
<1>12. kt.state = "interrupted" /\ kt.sink = None /\ Alike(it, kt) BY <1>1 DEF ItemShape, Alike
<1>13. NoOn(s, f, PlaceKinds) BY <1>2 DEF NoOn, PlaceKinds
<1> HIDE DEF kt, jt
<1>14. Inv(c, h, v, e, {} \ {f}) BY <1>1, <1>4, <1>11, <1>12, <1>13, StopStep
<1>15. {} \ {f} = {} OBVIOUS
<1>16. Inv(c, h, v, e, {}) /\ c.backend # "live" /\ c.link = "down" /\ c \in HubShape
       /\ c.life = s.life /\ c.source = s.source BY <1>1, <1>11, <1>14, <1>15 DEF Changes, Still
<1> DEFINE u == interruptAll(c)
<1>17. Inv(u, h, v, e, {}) BY <1>16, InterruptAllStep
<1>18. u.life = c.life /\ u.source = c.source /\ u \in HubShape BY <1>16, InterruptParts
<1> HIDE DEF u
<1>19. settle(u) \in HubShape /\ Same(u, settle(u)) /\ Inv(settle(u), h, v, e, {})
  BY <1>17, <1>18, SettleParts, EndsStep
<1>20. admit(s, f) = settle(u) BY <1>8, <1>9 DEF u
<1> QED BY <1>16, <1>18, <1>19, <1>20 DEF Same

\* One file of the queue.
LEMMA PumpOneStep ==
  ASSUME NEW s, NEW h, NEW v, NEW e, Inv(s, h, v, e, {}), NEW f \in File,
         s.life = "kept", s.source # Nobody
  PROVE  /\ \E d : SameEnv(e, d) /\ Inv(pumpOne(s, f), h, v, d, {})
         /\ pumpOne(s, f).life = "kept" /\ pumpOne(s, f).source = s.source
<1>0. SameEnv(e, e) /\ s \in HubShape /\ s.link \in {"up", "down"} /\ HereInv(s, e, f)
  BY HubParts DEF SameEnv, Inv, HubInv
<1>1. CASE ~Room(s)
 <2> DEFINE u == [s EXCEPT !.queue = Append(@, f)]
 <2>1. pumpOne(s, f) = u BY <1>1 DEF pumpOne
 <2>2. u \in HubShape /\ Same(s, u)
  <3> DEFINE Q == Append(s.queue, f)
  <3>1. Q \in Seq(File) /\ u = [s EXCEPT !.queue = Q] BY <1>0, HubParts
  <3> HIDE DEF Q, u
  <3> QED BY <1>0, <3>1 DEF HubShape, Same
 <2> HIDE DEF u
 <2>3. Inv(u, h, v, e, {}) BY <2>2, Agree
 <2> QED BY <1>0, <2>1, <2>2, <2>3 DEF Same
<1>2. CASE Room(s) /\ s.item[f].state # "queued" BY <1>0, <1>2 DEF pumpOne
<1>3. CASE Room(s) /\ s.item[f].state = "queued" /\ s.item[f].whole
 <2>1. NoOn(s, f, Before)
  <3>1. ASSUME NEW i \in 1..Len(s.wire), s.wire[i].f = f
        PROVE  /\ ~Open(s.wire[i]) /\ ~Place(s.wire[i])
               /\ s.wire[i].k \notin {"write", "close", "lookcut", "lookclear"}
   <4>1. ReqInv(s, v, e, s.wire[i]) BY DEF Inv, HubInv
   <4>2. ~Open(s.wire[i]) /\ s.wire[i].k \notin {"write", "close"} BY <1>3, <3>1, <4>1 DEF ReqInv
   <4>3. s.wire[i].k \notin {"lookcut", "lookclear"}
     BY <1>3, <3>1, <4>1 DEF ReqInv, LookInv, LookAt, LookKinds
   <4>4. ~Place(s.wire[i]) BY <1>3, <3>1, <4>1 DEF ReqInv, PlaceInv
   <4> QED BY <4>2, <4>3, <4>4
  <3> QED BY <3>1 DEF NoOn, Before, Open, Place
 <2>2. s.item[f].state \notin {"placed", "sending"} /\ s.life # "none" BY <1>3
 <2>3. \A g \in File : g \in {} => HereInv(s, e, g) OBVIOUS
 <2>4. /\ Inv(place(s, f), h, v, e, {} \ {f})
       /\ place(s, f).life = s.life /\ place(s, f).source = s.source
  <3>1. s.item[f].whole \/ s.item[f].temp = None BY <1>3
  <3>2. Inv(place(s, f), h, v, e, {} \ {f}) BY <1>0, <2>1, <2>2, <2>3, <3>1, PlaceStep
  <3>3. place(s, f).life = s.life /\ place(s, f).source = s.source
   <4> DEFINE Y == {}
   <4>1. Inv(s, h, v, e, Y) /\ \A g \in File : g \in Y => HereInv(s, e, g) OBVIOUS
   <4> HIDE DEF Y
   <4>2. /\ Inv(place(s, f), h, v, e, Y \ {f})
         /\ place(s, f).life = s.life /\ place(s, f).source = s.source
     BY <1>0, <2>1, <2>2, <3>1, <4>1, PlaceStep
   <4> QED BY <4>2
  <3> QED BY <3>2, <3>3
 <2>5. {} \ {f} = {} OBVIOUS
 <2>6. pumpOne(s, f) = place(s, f) BY <1>3 DEF pumpOne
 <2> QED BY <1>0, <2>4, <2>5, <2>6
<1>4. CASE Room(s) /\ s.item[f].state = "queued" /\ ~s.item[f].whole
 <2>1. pumpOne(s, f) = admit(s, f) BY <1>4 DEF pumpOne
 <2>2. CASE s.link = "up" BY <1>4, <2>1, <2>2, AdmitUp
 <2>3. CASE s.link = "down" BY <1>0, <1>4, <2>1, <2>3, AdmitDown
 <2> QED BY <1>0, <2>2, <2>3
<1> QED BY <1>1, <1>2, <1>3, <1>4

\* The whole queue.
LEMMA PumpStep ==
  ASSUME NEW s, NEW h, NEW v, NEW e, Inv(s, h, v, e, {}), s.life = "kept", s.source # Nobody,
         NEW q \in Seq(File)
  PROVE  \E d : SameEnv(e, d) /\ Inv(Each(pumpOne, s, q), h, v, d, {})
<1> DEFINE N == Len(q)
<1>1. N \in Nat /\ \A i \in 1..N : q[i] \in File OBVIOUS
<1>2. PICK a : /\ a[0] = s
               /\ \A n \in 1..N : a[n] = pumpOne(a[n - 1], q[n])
               /\ PumpRun(s, q) = a[N] BY <1>1, PumpLoop
<1> HIDE DEF N
<1> DEFINE L(n) == /\ \E d : SameEnv(e, d) /\ Inv(a[n], h, v, d, {})
                   /\ a[n].life = "kept" /\ a[n].source # Nobody
           S == {n \in 0..N : L(n)}
<1>3. 0 \in S
 <2>1. SameEnv(e, e) BY DEF SameEnv
 <2>2. L(0) BY <1>2, <2>1
 <2> HIDE DEF L
 <2> QED BY <1>1, <2>2
<1>4. ASSUME NEW n \in 0..(N - 1), n \in S PROVE n + 1 \in S
 <2> DEFINE b == a[n]
            c == a[n + 1]
            f == q[n + 1]
 <2>1. n + 1 \in 1..N /\ f \in File /\ b.life = "kept" /\ b.source # Nobody BY <1>1, <1>4
 <2>2. PICK d : SameEnv(e, d) /\ Inv(b, h, v, d, {}) BY <1>4
 <2>3. c = pumpOne(b, f)
  <3>1. (n + 1) - 1 = n BY <1>1
  <3> QED BY <1>2, <2>1, <3>1
 <2> HIDE DEF b, c, f
 <2>4. /\ \E x : SameEnv(d, x) /\ Inv(c, h, v, x, {})
       /\ c.life = "kept" /\ c.source = b.source BY <2>1, <2>2, <2>3, PumpOneStep
 <2>5. PICK x : SameEnv(d, x) /\ Inv(c, h, v, x, {}) BY <2>4
 <2>6. SameEnv(e, x) BY <2>2, <2>5 DEF SameEnv
 <2>7. L(n + 1) BY <2>1, <2>4, <2>5, <2>6 DEF c
 <2> HIDE DEF L
 <2> QED BY <1>1, <2>1, <2>7
<1>5. N \in S
 <2>1. \A n \in 0..(N - 1) : n \in S => n + 1 \in S BY <1>4
 <2> HIDE DEF S
 <2>2. \A n \in 0..N : n \in S BY <1>1, <1>3, <2>1, UpTo
 <2> QED BY <1>1, <2>2
<1>6. \E d : SameEnv(e, d) /\ Inv(PumpRun(s, q), h, v, d, {}) BY <1>2, <1>5
<1> QED BY <1>6, Zenon DEF PumpRun

------------------------------
\* The host's answers.

\* Some requests change nothing on the host.
LEMMA DoneNothing ==
  ASSUME NEW h, NEW r, r.k \in {"stat", "look", "finish", "reopen", "close"}
  PROVE  Done(h, r) = h BY DEF Done

\* What a request leaves of who is on the host.
LEMMA AfterLike ==
  ASSUME NEW e \in Env, NEW h, NEW r
  PROVE  /\ Like(e, EnvAfter(e, h, r))
         /\ r.k \notin {"link", "rename"} => EnvAfter(e, h, r) = e /\ ~Puts(h, r)
<1>1. CASE Puts(h, r)
 <2>1. EnvAfter(e, h, r) = [e EXCEPT !.here = @ \cup {r.f}] BY <1>1 DEF EnvAfter
 <2>2. Like(e, EnvAfter(e, h, r)) BY <2>1 DEF Like, Env
 <2> QED BY <1>1, <2>2 DEF Puts
<1>2. CASE ~Puts(h, r) BY <1>2 DEF EnvAfter, Like
<1> QED BY <1>1, <1>2

\* What every answer is.
LEMMA AnsweredParts ==
  ASSUME Answered
  PROVE  /\ hub.wire # <<>> /\ host' = Done(host, Head(hub.wire))
         /\ asked' = asked /\ count' = count /\ hub'.named <= MaxTemp
  BY DEF Answered, Answer, StatAnswered, CutAnswered, ClearAnswered, CreateAnswered,
         ReopenAnswered, WriteAnswered, FinishAnswered, LinkAnswered, UnlinkAnswered,
         RenameAnswered, CloseAnswered, RemoveAnswered, LookAnswered, LookcutAnswered,
         LookclearAnswered, PurgeAnswered

\* Whatever the host answers, what is so of the upload stays so.
LEMMA AnsweredStep ==
  ASSUME NEW e, Inv(hub, host, saved, e, {}), hub.named <= MaxTemp, Answered
  PROVE  \E d : Like(e, d) /\ Inv(hub', host', saved', d, {})
<1> DEFINE r == Head(hub.wire)
           u == [hub EXCEPT !.wire = Tail(@)]
           g == Done(host, r)
           c == EnvAfter(e, host, r)
           Goal == \E d : Like(e, d) /\ Inv(hub', host', saved', d, {})
<1>0. e \in Env BY DEF Inv, HubInv
<1>1. hub.wire # <<>> /\ host' = g BY AnsweredParts
<1>2. /\ Taken(u, g, saved, c, r) /\ ReqHost(u, host, r) /\ host \in HostShape /\ r.t \in Temp
      /\ ~Puts(host, r) /\ r.k # "unlink" => HereInv(u, c, r.f) BY <1>1, AnswerTaken
<1>3. Like(e, c) /\ (r.k \notin {"link", "rename"} => c = e /\ ~Puts(host, r)) BY <1>0, AfterLike
<1>4. r.k \in {"stat", "look", "finish", "reopen", "close"} => g = host BY DoneNothing
<1>5. \A d : SameEnv(e, d) => Like(e, d) BY DEF SameEnv, Like
<1>6. Like(e, e) BY DEF Like
<1>10. ASSUME StatAnswered PROVE Goal
 <2>1. r.k = "stat" /\ hub' = statDone(u, r) /\ saved' = saved BY <1>10 DEF StatAnswered, Answer
 <2> HIDE DEF r, u, g, c
 <2>2. Taken(u, host, saved, e, r) BY <1>2, <1>3, <1>4, <2>1
 <2> QED BY <1>1, <1>4, <1>5, <2>1, <2>2, StatDone
<1>11. ASSUME CutAnswered PROVE Goal
 <2>1. r.k = "cut" /\ hub' = cutDone(u, r) /\ saved' = saved BY <1>11 DEF CutAnswered, Answer
 <2> HIDE DEF r, u, g, c
 <2>2. Taken(u, g, saved, e, r) BY <1>2, <1>3, <2>1
 <2> QED BY <1>1, <1>5, <2>1, <2>2, CutDone
<1>12. ASSUME ClearAnswered PROVE Goal
 <2>1. r.k = "clear" /\ hub' = clearDone(u, r) /\ saved' = saved BY <1>12 DEF ClearAnswered, Answer
 <2> HIDE DEF r, u, g, c
 <2>2. Taken(u, g, saved, e, r) BY <1>2, <1>3, <2>1
 <2> QED BY <1>1, <1>5, <2>1, <2>2, ClearDone
<1>13. ASSUME CreateAnswered PROVE Goal
 <2>1. r.k = "create" /\ hub' = createDone(u, r) /\ saved' = saved
   BY <1>13 DEF CreateAnswered, Answer
 <2> HIDE DEF r, u, c
 <2>2. Taken(u, g, saved, e, r) BY <1>2, <1>3, <2>1
 <2>3. Inv(createDone(u, r), g, saved, e, {}) BY <1>2, <2>1, <2>2, CreateDone
 <2> QED BY <1>1, <1>6, <2>1, <2>3
<1>14. ASSUME ReopenAnswered PROVE Goal
 <2>1. r.k = "reopen" /\ hub' = reopenDone(u, r) /\ saved' = saved
   BY <1>14 DEF ReopenAnswered, Answer
 <2> HIDE DEF r, u, g, c
 <2>2. Taken(u, host, saved, e, r) BY <1>2, <1>3, <1>4, <2>1
 <2> QED BY <1>1, <1>4, <1>6, <2>1, <2>2, ReopenDone
<1>15. ASSUME WriteAnswered PROVE Goal
 <2>1. r.k = "write" /\ hub' = writeDone(u, r) /\ saved' = saved BY <1>15 DEF WriteAnswered, Answer
 <2> HIDE DEF r, u, c
 <2>2. Taken(u, g, saved, e, r) BY <1>2, <1>3, <2>1
 <2>3. Inv(writeDone(u, r), g, saved, e, {}) BY <1>2, <2>1, <2>2, WriteDone
 <2> QED BY <1>1, <1>6, <2>1, <2>3
<1>16. ASSUME FinishAnswered PROVE Goal
 <2>1. r.k = "finish" /\ hub' = finishDone(u, r) /\ saved' = saved
   BY <1>16 DEF FinishAnswered, Answer
 <2> HIDE DEF r, u, g, c
 <2>2. Taken(u, host, saved, e, r) BY <1>2, <1>3, <1>4, <2>1
 <2> QED BY <1>1, <1>4, <1>6, <2>1, <2>2, FinishDone
<1>17. ASSUME LinkAnswered PROVE Goal
 <2>1. r.k = "link" /\ hub' = linkDone(u, r) /\ saved' = saved BY <1>17 DEF LinkAnswered, Answer
 <2> HIDE DEF r, u
 <2>3. Inv(linkDone(u, r), g, saved, c, {}) BY <1>0, <1>2, <2>1, LinkDone
 <2> QED BY <1>1, <1>3, <2>1, <2>3
<1>18. ASSUME UnlinkAnswered PROVE Goal
 <2>1. r.k = "unlink" /\ hub' = unlinkDone(u, r) /\ saved' = saved
   BY <1>18 DEF UnlinkAnswered, Answer
 <2> HIDE DEF r, u, g, c
 <2> QED BY <1>1, <1>2, <1>3, <2>1, UnlinkDone
<1>19. ASSUME RenameAnswered PROVE Goal
 <2>1. r.k = "rename" /\ hub' = renameDone(u, r) /\ saved' = saved
   BY <1>19 DEF RenameAnswered, Answer
 <2> HIDE DEF r, u
 <2>3. Inv(renameDone(u, r), g, saved, c, {}) BY <1>0, <1>2, <2>1, RenameDone
 <2> QED BY <1>1, <1>3, <2>1, <2>3
<1>20. ASSUME CloseAnswered PROVE Goal
 <2>1. r.k = "close" /\ hub' = closeDone(u, r) /\ saved' = saved BY <1>20 DEF CloseAnswered, Answer
 <2> HIDE DEF r, u, g, c
 <2> QED BY <1>1, <1>2, <1>3, <2>1, CloseDone
<1>21. ASSUME RemoveAnswered PROVE Goal
 <2>1. r.k = "remove" /\ hub' = u /\ saved' = saved BY <1>21 DEF RemoveAnswered, Answer, removeDone
 <2> HIDE DEF r, u, g, c
 <2> QED BY <1>1, <1>2, <1>3, <2>1, RemoveDone
<1>22. ASSUME LookAnswered PROVE Goal
 <2>1. r.k = "look" /\ hub' = lookDone(u, r) /\ saved' = saved BY <1>22 DEF LookAnswered, Answer
 <2> HIDE DEF r, u, g, c
 <2>2. Taken(u, host, saved, e, r) BY <1>2, <1>3, <1>4, <2>1
 <2> QED BY <1>1, <1>4, <1>6, <2>1, <2>2, LookDone
<1>23. ASSUME LookcutAnswered PROVE Goal
 <2>1. r.k = "lookcut" /\ hub' = lookcutDone(u, r) /\ saved' = saved
   BY <1>23 DEF LookcutAnswered, Answer
 <2> HIDE DEF r, u, g, c
 <2> QED BY <1>1, <1>2, <1>3, <2>1, LookcutDone
<1>24. ASSUME LookclearAnswered PROVE Goal
 <2>1. r.k = "lookclear" /\ hub' = lookclearDone(u, r) /\ saved' = saved
   BY <1>24 DEF LookclearAnswered, Answer
 <2> HIDE DEF r, u, g, c
 <2> QED BY <1>1, <1>2, <1>3, <2>1, LookclearDone
<1>25. ASSUME PurgeAnswered PROVE Goal
 <2>1. /\ r.k = "purge" /\ hub' = purgeDone(u, r)
       /\ saved' = IF OnWire(hub', {"purge"}) = {} THEN [saved EXCEPT !.life = "none"] ELSE saved
   BY <1>25 DEF PurgeAnswered, Answer
 <2> HIDE DEF r, u, g, c
 <2>2. Inv(hub', g, saved', c, {}) BY <1>2, <2>1, PurgeDone
 <2> QED BY <1>1, <1>3, <2>2
<1> HIDE DEF r, u, g, c
<1> QED BY <1>10, <1>11, <1>12, <1>13, <1>14, <1>15, <1>16, <1>17, <1>18, <1>19, <1>20, <1>21,
           <1>22, <1>23, <1>24, <1>25 DEF Answered

------------------------------
\* What windows ask.

\* The latest open of a file is the last one: without it there is none.
LEMMA NoneOpening ==
  ASSUME NEW s, NEW h, NEW v, NEW e, Inv(s, h, v, e, {}), NEW f \in File, ~LatestOpening(s, f)
  PROVE  NoOn(s, f, OpenKinds) /\ ~LatestOf(s, f)
<1>1. ~LatestOf(s, f) BY DEF LatestOpening, LatestOf, Latest, OnWire
<1>2. ASSUME NEW i \in 1..Len(s.wire), s.wire[i].f = f, Open(s.wire[i]) PROVE FALSE
 <2>1. s.wire[i] \in ReqShape /\ OldInv(s) BY HubParts DEF Inv, HubInv
 <2>2. s.wire[i].old BY <1>1, <1>2, <2>1, ReqParts DEF LatestOf, Latest, Open
 <2>3. PICK j \in 1..Len(s.wire) : Latest(s.wire[j]) /\ s.wire[j].f = f
   BY <1>2, <2>1, <2>2 DEF OldInv
 <2> QED BY <1>1, <2>3 DEF LatestOf
<1> QED BY <1>1, <1>2 DEF NoOn, Open

\* A chunk is written, or finds the connection gone.
LEMMA ChunkStep ==
  ASSUME NEW s, NEW h, NEW v, NEW e, Inv(s, h, v, e, {}), NEW f \in File,
         s.item[f].state = "sending", ~LatestOpening(s, f), s.item[f].sink # None,
         ~s.item[f].writing, s.item[f].acked < Size
  PROVE  Inv(IF s.backend = "live"
             THEN Ask([s EXCEPT !.item[f].writing = TRUE],
                      "write", f, s.item[f].sink, s.item[f].acked, FALSE, Nobody)
             ELSE Interrupted(s, f), h, v, e, {})
<1>0. /\ s \in HubShape /\ s.item \in [File -> ItemShape] /\ s.item[f] \in ItemShape
      /\ s.unsaved \in SUBSET File /\ s.dirty \in SUBSET File /\ s.unsavedAcks \in SUBSET File
      /\ s.link \in {"up", "down"} /\ s.named \in Nat
      /\ \A i \in 1..Len(s.wire) : s.wire[i] \in ReqShape BY HubParts DEF Inv, HubInv
<1>1. /\ ItemInv(s, v, e, f) /\ SendInv(s, f) /\ HereInv(s, e, f) /\ Prefix(h, s.item[f])
      /\ SinkInv(s, h, f) BY DEF Inv, HubInv, HostInv
<1>2. CASE s.backend # "live"
 <2>1. s.link = "down" BY <1>0, <1>1, <1>2 DEF ItemInv
 <2> QED BY <1>1, <1>2, <2>1, InterruptedStep
<1>3. CASE s.backend = "live"
 <2> DEFINE u == [s EXCEPT !.item[f].writing = TRUE]
            it == [s.item[f] EXCEPT !.writing = TRUE]
            r == [k |-> "write", f |-> f, t |-> s.item[f].sink, n |-> s.item[f].acked,
                  old |-> FALSE, w |-> Nobody]
 <2>1. it \in ItemShape BY <1>0 DEF ItemShape
 <2>a. /\ it.state = s.item[f].state /\ it.acked = s.item[f].acked /\ it.temp = s.item[f].temp
       /\ it.whole = s.item[f].whole /\ it.sink = s.item[f].sink /\ it.writing = TRUE
       /\ it.resolution = s.item[f].resolution BY <1>0 DEF ItemShape
 <2>2. u = [s EXCEPT !.item = [@ EXCEPT ![f] = it], !.unsaved = s.unsaved, !.dirty = s.dirty,
                     !.unsavedAcks = s.unsavedAcks] BY <1>0 DEF HubShape
 <2>b. r \in ReqShape BY <1>0, ItemParts DEF ReqShape, Kinds
 <2>c. /\ r.k = "write" /\ r.f = f /\ r.t = s.item[f].sink /\ r.n = s.item[f].acked
       /\ r.w = Nobody OBVIOUS
 <2>d. Ask(u, "write", f, s.item[f].sink, s.item[f].acked, FALSE, Nobody)
          = [u EXCEPT !.wire = Append(@, r)] BY DEF Ask
 <2> HIDE DEF it, r
 <2>3. Changes(s, u, f, it)
  <3>1. Changes(s, [s EXCEPT !.item = [@ EXCEPT ![f] = it], !.unsaved = s.unsaved, !.dirty = s.dirty,
                             !.unsavedAcks = s.unsavedAcks], f, it) BY <1>0, <2>1, PutParts, Zenon
  <3> QED BY <2>2, <3>1
 <2> HIDE DEF u
 <2>4. u.item[f] = it /\ Still(s, u) /\ u.wire = s.wire /\ u \in HubShape BY <2>3 DEF Changes
 <2>5. WellItem(it) /\ Prefix(h, it) BY <1>1, <2>a DEF WellItem, Prefix, ItemInv
 <2>6. it.acked >= s.item[f].acked BY <1>0, <2>a, ItemParts
 <2>7. ASSUME NEW i \in 1..Len(s.wire), s.wire[i].f = f
       PROVE  /\ CutInv(u, v, s.wire[i]) /\ CreateInv(u, v, s.wire[i]) /\ PlaceInv(u, e, s.wire[i])
              /\ WriteInv(u, s.wire[i])
  <3>1. ReqInv(s, v, e, s.wire[i]) /\ s.wire[i].k # "write"
    BY <2>7 DEF Inv, HubInv, ReqInv, WriteInv
  <3> QED BY <2>4, <2>7, <2>a, <3>1 DEF ReqInv, CutInv, CreateInv, PlaceInv, WriteInv, Still
 <2>8. Inv(u, h, v, e, {}) BY <2>3, <2>5, <2>6, <2>7, <2>a, TweakStep
 <2>9. NoOn(s, f, OpenKinds) /\ ~LatestOf(s, f) BY NoneOpening
 <2>10. /\ s.item[f].temp = s.item[f].sink
        /\ \A i \in 1..Len(s.wire) : ~(s.wire[i].f = f /\ s.wire[i].k = "close")
   BY <1>1, <2>9 DEF SendInv
 <2>11. ~Open(r) /\ ~LookAt(r) /\ ~Place(r) /\ ~Latest(r)
   BY <2>c DEF Open, Latest, LookAt, Place, OpenKinds, LookKinds, PlaceKinds
 <2>12. s.life = "kept" /\ s.link = "up" /\ ~s.item[f].whole /\ Named(s, e, f, s.item[f].sink)
   BY <1>1, <1>3, ConstantsAssumption DEF ItemInv, WellItem, Inv, HubInv, GlobalInv, Whole
 <2>13. ReqInv(u, v, e, r)
  <3>1. r.t \in 1..u.named /\ e.own[r.t] = r.f
    BY <1>0, <2>4, <2>12, <2>c, ItemParts DEF Named, Still, None
  <3>2. CutInv(u, v, r) /\ CreateInv(u, v, r) /\ PlaceInv(u, e, r) /\ LookInv(u, r) /\ OpenInv(u, r)
    BY <2>11, <2>c DEF CutInv, CreateInv, PlaceInv, LookInv, OpenInv
  <3>3. WriteInv(u, r) BY <2>4, <2>10, <2>a, <2>c DEF WriteInv
  <3>4. ~u.item[r.f].whole /\ u.item[r.f].state # "conflict" BY <2>4, <2>12, <2>a, <2>c
  <3>5. u.link = "up" BY <2>4, <2>12 DEF Still
  <3> QED BY <2>c, <3>1, <3>2, <3>3, <3>4, <3>5 DEF ReqInv
 <2>14. ReqHost(u, h, r) BY <2>11, <2>c DEF ReqHost
 <2>15. ASSUME NEW i \in 1..Len(u.wire) PROVE PairInv(u.wire[i], r) /\ PairNow(u, u.wire[i], r)
  <3> DEFINE a == u.wire[i]
  <3>1. i \in 1..Len(s.wire) /\ a = s.wire[i] BY <2>4, <2>15
  <3>2. ReqInv(s, v, e, a) /\ a \in ReqShape BY <1>0, <3>1 DEF Inv, HubInv
  <3>3. a.f = f => ~Open(a) /\ a.k # "close" BY <2>9, <2>10, <3>1 DEF NoOn, Open
  <3> HIDE DEF a
  <3>4. a.f = f => ~LookAt(a) /\ ~Place(a) /\ a.k # "write"
    BY <2>12, <3>2 DEF ReqInv, LookInv, PlaceInv, WriteInv
  <3>5. a.f = f => ~Latest(a) BY <3>3 DEF Open, Latest
  <3>6. PairInv(a, r) BY <2>11, <2>c, <3>3, <3>4, <3>5 DEF PairInv, Apart
  <3>7. PairNow(u, a, r) BY <2>11, <2>c DEF PairNow
  <3> QED BY <3>6, <3>7 DEF a
 <2>16. u.life # "none" BY <2>4, <2>12 DEF Still
 <2>17. Inv([u EXCEPT !.wire = Append(@, r)], h, v, e, {})
   BY <2>8, <2>11, <2>13, <2>14, <2>15, <2>16, <2>b, <2>c, AskStep
 <2> QED BY <1>3, <2>17, <2>d DEF u
<1> QED BY <1>2, <1>3

\* Nothing of a file is placed while the hub does not say that it is.
LEMMA NotPlacing ==
  ASSUME NEW s, NEW h, NEW v, NEW e, NEW X, Inv(s, h, v, e, X), NEW f \in File,
         s.life = "kept", s.item[f].state # "verifying"
  PROVE  NoOn(s, f, PlaceKinds) BY DEF NoOn, Inv, HubInv, ReqInv, PlaceInv, Place

\* A window cancels a file.
LEMMA CancelStep ==
  ASSUME NEW s, NEW h, NEW v, NEW e, Inv(s, h, v, e, {}), NEW f \in File, s.life = "kept",
         s.item[f].state \in {"queued", "sending", "conflict", "interrupted"}
  PROVE  LET u == schedulePump(settle([setState(s, f, "cancelled") EXCEPT !.item[f].sink = None]))
         IN  Inv(IF s.item[f].writing THEN u ELSE afterStop(u, f, s.item[f].sink), h, v, e, {})
<1> DEFINE a == [setState(s, f, "cancelled") EXCEPT !.item[f].sink = None]
           u == schedulePump(settle(a))
           it == [s.item[f] EXCEPT !.state = "cancelled", !.sink = None]
<1>0. s \in HubShape /\ s.item[f] \in ItemShape BY HubParts DEF Inv, HubInv
<1>1. "cancelled" \in State /\ "cancelled" \in Stopped BY DEF State, Stopped
<1>2. Changes(s, a, f, it) BY <1>0, <1>1, StopParts
<1>3. it.state = "cancelled" /\ it.sink = None /\ Alike(s.item[f], it) BY <1>0 DEF ItemShape, Alike
<1> HIDE DEF a, it
<1>4. Changes(s, u, f, it) BY <1>2, ChangesSettled
<1> HIDE DEF u
<1>5. NoOn(s, f, PlaceKinds) /\ HereInv(s, e, f) /\ ItemInv(s, v, e, f)
  BY NotPlacing DEF Inv, HubInv
<1>6. Inv(u, h, v, e, {})
 <2>1. Inv(u, h, v, e, {} \ {f}) BY <1>1, <1>3, <1>4, <1>5, StopStep
 <2> QED BY <2>1
<1>7. CASE s.item[f].writing BY <1>6, <1>7 DEF u, a
<1>8. CASE ~s.item[f].writing
 <2>1. u.wire = s.wire /\ u.item[f] = it /\ Still(s, u) BY <1>4 DEF Changes
 <2>2. NoOn(s, f, {"write"}) BY <1>8 DEF Inv, HubInv, ReqInv, WriteInv, NoOn
 <2>3. NoOn(u, f, {"write"}) /\ NoOn(u, f, PlaceKinds) BY <1>5, <2>1, <2>2 DEF NoOn
 <2>4. HereInv(u, e, f) BY <1>6 DEF Inv, HubInv
 <2>5. s.item[f].sink \in Nat /\ Named(u, e, f, s.item[f].sink)
   BY <1>0, <1>5, <2>1, ItemParts DEF ItemInv, Named, Still
 <2>6. s.item[f].sink # None => ~u.item[f].whole /\ u.item[f].state # "conflict"
   BY <1>3, <1>5, <2>1 DEF ItemInv, WellItem, Alike
 <2>7. u.item[f].state # "sending" /\ u.life # "none" BY <1>3, <2>1 DEF Still
 <2>8. Inv(afterStop(u, f, s.item[f].sink), h, v, e, {} \ {f})
   BY <1>6, <2>3, <2>4, <2>5, <2>6, <2>7, AfterStopStep
 <2>9. {} \ {f} = {} OBVIOUS
 <2> QED BY <1>8, <2>8, <2>9 DEF u, a
<1> QED BY <1>7, <1>8

\* More files may be replaced, or something was lost.
LEMMA EnvMore ==
  ASSUME NEW s, NEW h, NEW v, NEW e, NEW X, Inv(s, h, v, e, X), NEW d \in Env,
         d.own = e.own, d.here = e.here, e.asked \subseteq d.asked, e.broken => d.broken
  PROVE  Inv(s, h, v, d, X)
<1>1. GlobalInv(s, v, d)
 <2>1. d.asked \subseteq File BY DEF Env
 <2> QED BY <2>1 DEF Inv, HubInv, GlobalInv
<1>2. ASSUME NEW f \in File PROVE ItemInv(s, v, d, f) BY DEF Inv, HubInv, ItemInv, Named
<1>3. ASSUME NEW i \in 1..Len(s.wire) PROVE ReqInv(s, v, d, s.wire[i])
  BY DEF Inv, HubInv, ReqInv, PlaceInv
<1>4. ASSUME NEW f \in File \ X PROVE SendInv(s, f) /\ HereInv(s, d, f)
 <2>1. SendInv(s, f) /\ HereInv(s, e, f) BY DEF Inv, HubInv
 <2> QED BY <2>1 DEF HereInv
<1>5. HubInv(s, v, d, X) BY <1>1, <1>2, <1>3, <1>4 DEF Inv, HubInv
<1>6. HostInv(s, h, v, d, 0, X) BY DEF Inv, HostInv
<1> QED BY <1>5, <1>6 DEF Inv

\* A window answers a conflict.
LEMMA ResolveStep ==
  ASSUME NEW s, NEW h, NEW v, NEW e, Inv(s, h, v, e, {}), NEW f \in File, s.life = "kept",
         s.item[f].state = "conflict", NEW a \in {"replace", "keep_both", "skip"},
         a = "replace" => f \in e.asked
  PROVE  Inv(schedulePump(settle(IF a = "skip" THEN skip(s, f)
                                 ELSE requeue([s EXCEPT !.item[f].resolution = a], f))), h, v, e, {})
<1>0. s \in HubShape /\ s.item[f] \in ItemShape BY HubParts DEF Inv, HubInv
<1>1. /\ NoOn(s, f, PlaceKinds) /\ NoOn(s, f, OpenKinds) /\ NoOn(s, f, {"write"})
      /\ HereInv(s, e, f) /\ ItemInv(s, v, e, f)
 <2>1. NoOn(s, f, OpenKinds) /\ NoOn(s, f, {"write"}) BY DEF Inv, HubInv, ReqInv, NoOn, Open
 <2> QED BY <2>1, NotPlacing DEF Inv, HubInv
<1>2. CASE a = "skip"
 <2>1. Inv(skip(s, f), h, v, e, {} \ {f}) BY <1>1, SkipStep
 <2>2. Inv(skip(s, f), h, v, e, {}) BY <2>1
 <2> QED BY <1>2, <2>2, EndsStep
<1>3. CASE a # "skip"
 <2> DEFINE u == [s EXCEPT !.item[f].resolution = a]
            it == [s.item[f] EXCEPT !.resolution = a]
 <2>1. Inv(u, h, v, e, {}) /\ Changes(s, u, f, it) BY <1>3, ResolutionStep
 <2>2. it.state = s.item[f].state /\ it.whole = s.item[f].whole /\ it.temp = s.item[f].temp
   BY <1>0 DEF ItemShape
 <2> HIDE DEF u, it
 <2>3. u.item[f] = it /\ u.wire = s.wire /\ u.life = "kept" BY <2>1 DEF Changes, Still
 <2>4. ~s.item[f].whole => s.item[f].temp = None /\ NoOn(s, f, LookKinds)
  <3>1. ~s.item[f].whole => NoOn(s, f, LookKinds) BY DEF Inv, HubInv, ReqInv, LookInv, LookAt, NoOn
  <3> QED BY <1>1, <3>1 DEF ItemInv, WellItem
 <2>5. NoOn(u, f, OpenKinds \ {"create"}) /\ (NoOn(s, f, LookKinds) => NoOn(u, f, LookKinds))
   BY <1>1, <2>3 DEF NoOn
 <2>6. Inv(requeue(u, f), h, v, e, {}) BY <2>1, <2>2, <2>3, <2>4, <2>5, RequeueStep
 <2> QED BY <1>3, <2>6, EndsStep DEF u
<1> QED BY <1>2, <1>3

\* What a window that does not overlap has waited for.
LEMMA RestParts ==
  ASSUME NEW F \in SUBSET File, AtRest(F)
  PROVE  /\ \A i \in 1..Len(hub.wire) : ~LookAt(hub.wire[i])
         /\ \A f \in F : NoOn(hub, f, OpenKinds) BY DEF AtRest, OnWire, Opening, LookAt, NoOn

------------------------------
\* Temporaries are named by answers and by Pump only.

\* What the small steps of the service name: nothing.
LEMMA SmallCounts ==
  ASSUME NEW s, NEW f, NEW t, NEW x
  PROVE  /\ Counts(s, setState(s, f, x)) /\ Counts(s, settle(s)) /\ Counts(s, schedulePump(s))
         /\ Counts(s, noteHost(s)) /\ Counts(s, restartFile(s, f))
         /\ Counts(s, removeTemp(s, f, t)) /\ Counts(s, backendOf(s)) /\ Counts(s, interruptAll(s))
         /\ \A k, n, o, w : Counts(s, Ask(s, k, f, t, n, o, w))
         /\ \A k : Counts(s, AskFor(s, k, f, t))
         /\ Counts(s, [s EXCEPT !.item[f].sink = None])
         /\ Counts(s, [s EXCEPT !.item[f].resolution = x])
         /\ Counts(s, [s EXCEPT !.item[f].writing = x])
         /\ Counts(s, [s EXCEPT !.wire = x])
         /\ Counts(s, [s EXCEPT !.queue = x])
  BY DEF Counts, setState, settle, schedulePump, noteHost, restartFile, removeTemp, backendOf,
         interruptAll, Ask, AskFor

\* One step after the other.
LEMMA CountsOn ==
  ASSUME NEW s, NEW u, NEW w
  PROVE  Counts(s, s) /\ (Counts(s, u) /\ Counts(u, w) => Counts(s, w)) BY DEF Counts

\* Nor do the handlers made of them.
LEMMA HandlerCounts ==
  ASSUME NEW s, NEW f
  PROVE  /\ Counts(s, Interrupted(s, f)) /\ Counts(s, fileFailed(s, f))
         /\ Counts(s, StopEnded(s, f)) /\ Counts(s, skip(s, f))
         /\ \A t : Counts(s, afterStop(s, f, t))
         /\ Counts(s, place(s, f)) /\ Counts(s, requeue(s, f)) /\ Counts(s, openFailed(s, f))
         /\ Counts(s, placeEnds(s))
<1>1. \A a : Counts(s, a) => Counts(s, Interrupted(a, f))
  BY DEF Counts, Interrupted, setState, interruptAll
<1>2. Counts(s, fileFailed(s, f))
  BY DEF Counts, fileFailed, setState, restartFile, removeTemp, AskFor, Ask
<1>3. Counts(s, StopEnded(s, f)) BY DEF Counts, StopEnded, restartFile, removeTemp, AskFor, Ask
<1>4. Counts(s, skip(s, f)) BY DEF Counts, skip, setState, restartFile, removeTemp, AskFor, Ask
<1>5. \A t : Counts(s, afterStop(s, f, t)) BY <1>3, SmallCounts DEF afterStop
<1>6. Counts(s, place(s, f)) BY <1>1 DEF Counts, place, setState, settle, backendOf, Ask
<1>7. Counts(s, requeue(s, f)) BY <1>6 DEF Counts, requeue, setState
<1>8. Counts(s, openFailed(s, f)) BY <1>2, CountsOn DEF openFailed
<1>9. Counts(s, placeEnds(s)) BY DEF Counts, placeEnds, settle, schedulePump
<1> QED BY <1>1, <1>2, <1>3, <1>4, <1>5, <1>6, <1>7, <1>8, <1>9, CountsOn

\* Nor does asking again for some files.
LEMMA AgainCounts ==
  ASSUME NEW s, NEW F \in SUBSET File PROVE Counts(s, requeueAll(s, F))
<1> DEFINE q == SetToSeq(F)
           N == Len(q)
<1>1. N \in Nat
 <2>1. IsFiniteSet(F) BY ConstantsAssumption, FS_Subset
 <2> QED BY <2>1, SetInOrder
<1>2. PICK a : /\ a[0] = s
               /\ \A n \in 1..N : a[n] = requeue(a[n - 1], q[n])
               /\ RequeueRun(s, q) = a[N] BY <1>1, RequeueLoop
<1> HIDE DEF q, N
<1> DEFINE S == {n \in 0..N : Counts(s, a[n])}
<1>3. 0 \in S BY <1>1, <1>2, CountsOn
<1>4. ASSUME NEW n \in 0..(N - 1), n \in S PROVE n + 1 \in S
 <2> DEFINE b == a[n]
            c == a[n + 1]
 <2>1. c = requeue(b, q[n + 1])
  <3>1. (n + 1) - 1 = n /\ n + 1 \in 1..N BY <1>1
  <3> QED BY <1>2, <3>1
 <2>2. Counts(s, b) BY <1>4
 <2>3. Counts(b, c)
  <3> HIDE DEF b, c
  <3> QED BY <2>1, HandlerCounts
 <2>4. Counts(s, c)
  <3> HIDE DEF b, c
  <3> QED BY <2>2, <2>3, CountsOn
 <2> QED BY <1>1, <2>4
<1>5. Counts(s, a[N])
 <2>1. \A n \in 0..(N - 1) : n \in S => n + 1 \in S BY <1>4
 <2> HIDE DEF S
 <2>2. \A n \in 0..N : n \in S BY <1>1, <1>3, <2>1, UpTo
 <2> QED BY <1>1, <2>2 DEF S
<1>6. Counts(s, RequeueRun(s, q)) BY <1>2, <1>5
<1> DEFINE p == RequeueRun(s, q)
           Q == IF s.stale THEN SetToSeq({f \in File : p.item[f].state = "queued"}) ELSE p.queue
           u == [p EXCEPT !.queue = Q, !.stale = FALSE, !.doneSaid = FALSE]
<1>7. requeueAll(s, F) = u BY Zenon DEF requeueAll, RequeueRun, q
<1> HIDE DEF p, Q
<1>8. Counts(p, u) BY DEF Counts
<1> HIDE DEF u
<1> QED BY <1>6, <1>7, <1>8, CountsOn DEF p

\* Nor taking an upload up.
LEMMA TakeUpCounts ==
  ASSUME NEW s, NEW w PROVE Counts(s, takeUp(s, w))
<1> DEFINE a == [s EXCEPT !.linkDropped = FALSE]
           b == backendOf(a)
           kept == {f \in File : /\ s.item[f].temp # None
                                 /\ s.item[f].state \in AskAgain \cup {"queued", "conflict"}}
           order == SetToSeq(kept)
           rs == [i \in 1..Len(order) |->
                     [k |-> "look", f |-> order[i], t |-> s.item[order[i]].temp,
                      n |-> 0, old |-> FALSE, w |-> w]]
<1>1. takeUp(s, w) = IF kept = {} THEN tookUp(b, w) ELSE AskAll(b, rs) BY DEF takeUp
<1> HIDE DEF kept, order, rs
<1>2. Counts(s, b) BY DEF Counts, backendOf
<1> HIDE DEF b
<1>3. Counts(b, AskAll(b, rs)) BY DEF Counts, AskAll
<1>4. Counts(b, tookUp(b, w))
 <2> DEFINE c == [b EXCEPT !.source = w]
            d == requeueAll(c, AgainIn(b))
            x == schedulePump(settle(d))
 <2>1. Counts(b, c) BY DEF Counts
 <2>2. Counts(c, d)
  <3> HIDE DEF c
  <3>1. AgainIn(b) \in SUBSET File BY DEF AgainIn
  <3> QED BY <3>1, AgainCounts
 <2>3. Counts(d, x)
  <3> HIDE DEF d
  <3> QED BY DEF Counts, schedulePump, settle
 <2>4. tookUp(b, w) = b \/ tookUp(b, w) = x BY DEF tookUp
 <2> HIDE DEF c, d, x
 <2> QED BY <2>1, <2>2, <2>3, <2>4, CountsOn
<1> HIDE DEF kept
<1> QED BY <1>1, <1>2, <1>3, <1>4, CountsOn

\* Nor what a lost connection leaves.
LEMMA FailCounts ==
  ASSUME NEW s, NEW r PROVE Counts(s, Fail(s, r))
<1> DEFINE f == r.f
           o == IF r.k \in {"stat", "clear"} THEN restartFile(s, f) ELSE s
           w == [s EXCEPT !.item[f].writing = FALSE]
           A == IF s.item[f].state = "sending" THEN Interrupted(o, f) ELSE o
           B == IF s.item[f].state = "sending" THEN Interrupted(w, f) ELSE w
           i == Interrupted(s, f)
           z == fileFailed(s, f)
<1>1. /\ Counts(s, s) /\ Counts(s, o) /\ Counts(s, w) /\ Counts(s, i) /\ Counts(s, z)
      /\ Counts(s, StopEnded(s, f)) /\ Counts(s, interruptAll(s))
  BY SmallCounts, HandlerCounts, CountsOn
<1> HIDE DEF o, w, i, z
<1>2. Counts(s, A) /\ Counts(s, B) /\ Counts(s, placeEnds(i)) /\ Counts(s, placeEnds(z))
  BY <1>1, HandlerCounts, CountsOn
<1>3. Fail(s, r) \in {A, B, i, placeEnds(z), placeEnds(i), interruptAll(s), StopEnded(s, f), s}
 <2> DEFINE c1 == r.k \in OpenKinds
            c2 == r.k = "write"
            c3 == r.k = "finish"
            c4 == r.k = "unlink"
            c5 == r.k \in {"link", "rename"}
            c6 == r.k \in LookKinds
            c7 == r.k = "close"
 <2>1. Fail(s, r) = CASE c1 -> A [] c2 -> B [] c3 -> i [] c4 -> placeEnds(z) [] c5 -> placeEnds(i)
                      [] c6 -> interruptAll(s) [] c7 -> StopEnded(s, f) [] OTHER -> s
   BY DEF Fail, o, w, i, z
 <2> HIDE DEF c1, c2, c3, c4, c5, c6, c7, A, B, f
 <2> QED BY <2>1, Zenon
<1> HIDE DEF A, B, f
<1> QED BY <1>1, <1>2, <1>3

------------------------------
\* The steps of the specification.

\* A window asks for a file again.
LEMMA RetryAction ==
  ASSUME NEW e, Inv(hub, host, saved, e, {}), NEW f \in File,
         hub.life = "kept", hub.link = "up", hub.item[f].state \in AskAgain, AtRest({f})
  PROVE  Inv(Retried(hub, f), host, saved, e, {}) /\ Counts(hub, Retried(hub, f))
<1> DEFINE u == requeueAll(hub, {f})
<1>1. Retried(hub, f) = schedulePump(settle(u)) BY DEF Retried
<1>2. {f} \in SUBSET File OBVIOUS
<1>3. (\A i \in 1..Len(hub.wire) : ~LookAt(hub.wire[i])) /\ NoOn(hub, f, OpenKinds)
  BY <1>2, RestParts
<1>4. NoOn(hub, f, OpenKinds \ {"create"}) BY <1>3 DEF NoOn
<1>5. Inv(u, host, saved, e, {}) BY <1>2, <1>3, <1>4, RequeueAllStep
<1>6. Counts(hub, u) BY <1>2, AgainCounts
<1> HIDE DEF u
<1>7. Inv(schedulePump(settle(u)), host, saved, e, {}) BY <1>5, EndsStep
<1>8. Counts(u, schedulePump(settle(u))) BY DEF Counts, schedulePump, settle
<1> QED BY <1>1, <1>6, <1>7, <1>8, CountsOn

\* A window sends on an upload that nobody sends.
LEMMA JoinAction ==
  ASSUME NEW e, Inv(hub, host, saved, e, {}), NEW w \in Window, Join(w), AtRest(File)
  PROVE  Inv(hub', host', saved', e, {}) /\ Counts(hub, hub')
<1> DEFINE a == [hub EXCEPT !.source = w, !.linkDropped = FALSE]
           F == AgainIn(hub)
           u == requeueAll(a, F)
<1>0. hub \in HubShape BY DEF Inv, HubInv
<1>1. /\ hub.life = "kept" /\ hub.link = "up"
      /\ hub' = schedulePump(settle(u)) /\ host' = host /\ saved' = saved BY DEF Join
<1>2. F \in SUBSET File /\ \A f \in F : hub.item[f].state \in AskAgain BY DEF AgainIn
<1>3. /\ \A i \in 1..Len(hub.wire) : ~LookAt(hub.wire[i])
      /\ \A f \in File : NoOn(hub, f, OpenKinds) BY RestParts
<1>4. /\ a \in HubShape /\ a.life = hub.life /\ a.link = hub.link /\ a.named = hub.named
      /\ a.removal = hub.removal /\ a.policy = hub.policy /\ a.item = hub.item /\ a.wire = hub.wire
      /\ a.backend = hub.backend /\ a.linkDropped = FALSE /\ a.source = w BY <1>0 DEF HubShape
<1>5. w # Nobody BY ConstantsAssumption
<1>6. Counts(hub, a) BY DEF Counts
<1> HIDE DEF a, F
<1>7. Inv(a, host, saved, e, {}) BY <1>1, <1>3, <1>4, <1>5, SourceStep
<1>8. \A f \in F : a.item[f].state \in AskAgain /\ NoOn(a, f, OpenKinds \ {"create"})
  BY <1>2, <1>3, <1>4 DEF NoOn
<1>9. Inv(u, host, saved, e, {}) BY <1>1, <1>2, <1>3, <1>4, <1>7, <1>8, RequeueAllStep
<1>10. Counts(a, u) BY <1>2, AgainCounts
<1> HIDE DEF u
<1>11. Inv(schedulePump(settle(u)), host, saved, e, {}) BY <1>9, EndsStep
<1>12. Counts(u, schedulePump(settle(u))) BY DEF Counts, schedulePump, settle
<1> QED BY <1>1, <1>6, <1>10, <1>11, <1>12, CountsOn

\* A window resumes an upload.
LEMMA ResumeAction ==
  ASSUME NEW e, Inv(hub, host, saved, e, {}), NEW w \in Window, Resume(w), AtRest(File),
         hub.source = Nobody
  PROVE  Inv(hub', host', saved', e, {}) /\ Counts(hub, hub')
<1>1. /\ hub.life = "kept" /\ hub.link = "up"
      /\ hub' = takeUp(hub, w) /\ host' = host /\ saved' = saved BY DEF Resume
<1>2. /\ \A i \in 1..Len(hub.wire) : ~LookAt(hub.wire[i])
      /\ \A f \in File : NoOn(hub, f, OpenKinds) BY RestParts
<1>3. \A i \in 1..Len(hub.wire) : hub.wire[i].f \in File BY HubParts, ReqParts DEF Inv, HubInv
<1>4. \A i \in 1..Len(hub.wire) : ~Open(hub.wire[i]) BY <1>2, <1>3 DEF NoOn, Open
<1>5. Inv(takeUp(hub, w), host, saved, e, {}) BY <1>1, <1>2, <1>4, TakeUpStep
<1> QED BY <1>1, <1>5, TakeUpCounts

\* The window that sends leaves.
LEMMA GoneAction ==
  ASSUME NEW e, Inv(hub, host, saved, e, {}), ClientGone
  PROVE  Inv(hub', host', saved', e, {}) /\ Counts(hub, hub')
<1> DEFINE m == {f \in File : hub.item[f].state = "sending"}
           I == [f \in File |-> IF f \in m
                                THEN [hub.item[f] EXCEPT !.state = "interrupted", !.sink = None]
                                ELSE hub.item[f]]
           u == [hub EXCEPT !.source = Nobody, !.unsaved = @ \cup m, !.dirty = @ \cup m, !.item = I]
<1>0. /\ hub \in HubShape /\ hub.item \in [File -> ItemShape] /\ hub.named \in Nat
      /\ \A i \in 1..Len(hub.wire) : hub.wire[i] \in ReqShape BY HubParts DEF Inv, HubInv
<1>1. hub' = schedulePump(settle(u)) /\ host' = host /\ saved' = saved BY DEF ClientGone
<1>2. m \subseteq File OBVIOUS
<1>3. I \in [File -> ItemShape]
 <2>1. ASSUME NEW f \in File PROVE I[f] \in ItemShape
  <3>1. hub.item[f] \in ItemShape BY <1>0
  <3>2. [hub.item[f] EXCEPT !.state = "interrupted", !.sink = None] \in ItemShape
    BY <3>1 DEF ItemShape, State, Unsettled, None
  <3> QED BY <3>1, <3>2
 <2> QED BY <2>1
<1>4. \A f \in File : f \notin m => I[f] = hub.item[f] OBVIOUS
<1>5. ASSUME NEW f \in m
      PROVE  I[f].state = "interrupted" /\ I[f].sink = None /\ Alike(hub.item[f], I[f])
 <2>1. f \in File /\ hub.item[f] \in ItemShape BY <1>0, <1>2
 <2>2. I[f] = [hub.item[f] EXCEPT !.state = "interrupted", !.sink = None] BY <2>1
 <2> HIDE DEF I
 <2> QED BY <2>1, <2>2 DEF ItemShape, Alike
<1>6. \A f \in File : f \in m <=> hub.item[f].state = "sending" OBVIOUS
<1> HIDE DEF I, m
<1>7. u \in HubShape BY <1>0, <1>2, <1>3 DEF HubShape
<1>8. /\ u.wire = hub.wire /\ u.named = hub.named /\ u.life = hub.life
      /\ u.source = Nobody /\ u.link = hub.link /\ u.removal = hub.removal
      /\ u.policy = hub.policy /\ u.backend = hub.backend /\ u.linkDropped = hub.linkDropped
      /\ u.item = I BY <1>0 DEF HubShape
<1>9. Counts(hub, u) BY DEF Counts
<1> HIDE DEF u
<1>10. \A f \in File : u.item[f].state # "sending" BY <1>4, <1>5, <1>6, <1>8
<1>11. \A f \in File :
          /\ Alike(hub.item[f], u.item[f])
          /\ \/ u.item[f].state = hub.item[f].state /\ u.item[f].sink = hub.item[f].sink
             \/ /\ u.item[f].state = "interrupted" /\ u.item[f].sink = None
                /\ hub.item[f].state = "sending" BY <1>4, <1>5, <1>6, <1>8 DEF Alike
<1>12. GlobalInv(u, saved, e) BY <1>8 DEF Inv, HubInv, GlobalInv, Whole
<1>13. ASSUME NEW f \in File PROVE ItemInv(u, saved, e, f) /\ Prefix(host, u.item[f])
 <2>1. ItemInv(hub, saved, e, f) /\ Prefix(host, hub.item[f]) BY DEF Inv, HubInv, HostInv
 <2>2. WellItem(u.item[f]) BY <1>10, <1>11, <2>1 DEF ItemInv, WellItem, Alike
 <2>3. Named(u, e, f, u.item[f].temp) /\ Named(u, e, f, u.item[f].sink) /\ Named(u, e, f, saved.item[f].temp)
   BY <1>0, <1>8, <1>11, <2>1 DEF ItemInv, Named, Alike, None
 <2> QED BY <1>8, <1>10, <1>11, <2>1, <2>2, <2>3 DEF ItemInv, Prefix, Alike
<1>14. ASSUME NEW i \in 1..Len(hub.wire)
       PROVE  ReqInv(u, saved, e, hub.wire[i]) /\ ReqHost(u, host, hub.wire[i])
 <2> DEFINE r == hub.wire[i]
 <2>1. ReqInv(hub, saved, e, r) /\ ReqHost(hub, host, r) /\ r.f \in File
   BY <1>0, ReqParts DEF Inv, HubInv, HostInv
 <2> HIDE DEF r
 <2>2. CutInv(u, saved, r) /\ CreateInv(u, saved, r) /\ WriteInv(u, r)
   BY <1>11, <2>1 DEF ReqInv, CutInv, CreateInv, WriteInv, Alike
 <2>3. PlaceInv(u, e, r)
  <3>1. Place(r) => hub.item[r.f].state # "sending"
   <4>1. ItemInv(hub, saved, e, r.f) BY <2>1 DEF Inv, HubInv
   <4> QED BY <2>1, <4>1 DEF ReqInv, PlaceInv, ItemInv
  <3> QED BY <1>8, <1>11, <2>1, <3>1 DEF ReqInv, PlaceInv, Alike
 <2>4. LookInv(u, r) BY <1>8, <1>11, <2>1 DEF ReqInv, LookInv, Alike
 <2>5. OpenInv(u, r) BY <1>10, <1>11, <2>1 DEF ReqInv, OpenInv, Alike
 <2>6. ReqInv(u, saved, e, r) BY <1>8, <1>11, <2>1, <2>2, <2>3, <2>4, <2>5 DEF ReqInv, Alike
 <2> QED BY <1>11, <2>1, <2>6 DEF ReqHost, Alike, r
<1>15. ASSUME NEW i \in 1..Len(hub.wire), NEW j \in 1..Len(hub.wire), i < j
       PROVE  PairNow(u, hub.wire[i], hub.wire[j])
 <2>1. PairNow(hub, hub.wire[i], hub.wire[j]) /\ hub.wire[i].f \in File
   BY <1>0, <1>15, ReqParts DEF Inv, HubInv
 <2> QED BY <1>10, <1>11, <2>1 DEF PairNow, Alike
<1>16. ASSUME NEW f \in File \ {} PROVE SendInv(u, f) /\ HereInv(u, e, f) /\ SinkInv(u, host, f)
 <2>1. HereInv(hub, e, f) BY DEF Inv, HubInv
 <2> QED BY <1>8, <1>10, <1>11, <2>1 DEF SendInv, SinkInv, HereInv
<1>17. Inv(u, host, saved, e, {}) BY <1>7, <1>8, <1>12, <1>13, <1>14, <1>15, <1>16, WireKept
<1>18. Inv(schedulePump(settle(u)), host, saved, e, {}) BY <1>17, EndsStep
<1>19. Counts(u, schedulePump(settle(u))) BY DEF Counts, schedulePump, settle
<1> QED BY <1>1, <1>9, <1>18, <1>19, CountsOn

\* Somebody else takes a name on the host.
LEMMA NameTakenAction ==
  ASSUME NEW e, Inv(hub, host, saved, e, {}), NEW f \in File, NameTaken(f)
  PROVE  Inv(hub', host', saved', e, {}) /\ hub' = hub
<1> DEFINE h == [host EXCEPT !.target = [@ EXCEPT ![f] = "theirs"]]
<1>1. hub' = hub /\ saved' = saved /\ host' = h BY DEF NameTaken
<1>2. host \in HostShape BY DEF Inv, HostInv
<1>3. h \in HostShape /\ h.linked = host.linked /\ h.bytes = host.bytes /\ h.placed = host.placed
  BY <1>2 DEF HostShape
<1> HIDE DEF h
<1>4. HostInv(hub, h, saved, e, 0, {}) BY <1>3 DEF Inv, HostInv, Prefix, ReqHost, FullAt, SinkInv
<1> QED BY <1>1, <1>4 DEF Inv

\* A file that is not under way yet.
LEMMA NewParts ==
  /\ NewItem \in ItemShape /\ NewItem.state = "queued" /\ NewItem.acked = 0 /\ NewItem.temp = None
  /\ ~NewItem.whole /\ NewItem.resolution = "none" /\ NewItem.sink = None /\ ~NewItem.writing
  BY DEF NewItem, ItemShape, State, Unsettled, None

\* An upload starts, of files that have nothing of theirs on the host.
LEMMA StartStep ==
  ASSUME NEW e, Inv(hub, host, saved, e, {}), hub.life = "none",
         NEW I \in [File -> ItemShape], NEW w \in Window, NEW p \in Policies, NEW q \in Seq(File),
         hub.link = "up",
         \A f \in File :
            /\ I[f].state \in {"queued", "skipped", "conflict"} /\ I[f].acked = 0
            /\ I[f].temp = None /\ ~I[f].whole /\ I[f].sink = None /\ ~I[f].writing
            /\ I[f].resolution = "replace" => p = "replace"
  PROVE  LET u == [hub EXCEPT !.life = "kept", !.source = w, !.backend = "live", !.policy = p,
                              !.item = I, !.queue = q]
             d == [e EXCEPT !.asked = IF p = "replace" THEN File ELSE {}]
         IN  Inv(u, host, [life |-> "kept", item |-> I], d, {})
<1> DEFINE u == [hub EXCEPT !.life = "kept", !.source = w, !.backend = "live", !.policy = p,
                            !.item = I, !.queue = q]
           A == IF p = "replace" THEN File ELSE {}
           d == [e EXCEPT !.asked = A]
           v == [life |-> "kept", item |-> I]
<1>0. hub \in HubShape /\ e \in Env /\ hub.wire = <<>> /\ e.here = {} /\ hub.removal = {}
      /\ hub.named \in Nat
 <2>1. hub \in HubShape /\ e \in Env /\ GlobalInv(hub, saved, e) BY DEF Inv, HubInv
 <2> QED BY <2>1, HubParts DEF GlobalInv, Whole
<1>1. p \in {"ask", "replace", "keep_both", "skip"} BY ConstantsAssumption
<1>2. u \in HubShape BY <1>0, <1>1 DEF HubShape
<1>3. /\ u.life = "kept" /\ u.source = w /\ u.backend = "live" /\ u.policy = p /\ u.item = I
      /\ u.link = "up" /\ u.wire = <<>> /\ u.removal = {} /\ u.named = hub.named
      /\ u.linkDropped = hub.linkDropped BY <1>0 DEF HubShape
<1>4. A \subseteq File /\ (p = "replace" => A = File) OBVIOUS
<1> HIDE DEF A
<1>5. /\ d \in Env /\ d.own = e.own /\ d.here = {} /\ d.asked = A BY <1>0, <1>4 DEF Env
<1>6. v \in RowShape /\ v.life = "kept" /\ v.item = I BY DEF RowShape
<1> HIDE DEF u, d, v
<1>7. Len(u.wire) = 0 /\ 1..Len(u.wire) = {} BY <1>3
<1>8. GlobalInv(u, v, d)
 <2>1. ~hub.linkDropped BY DEF Inv, HubInv, GlobalInv, Whole
 <2> QED BY <1>3, <1>4, <1>5, <1>6, <2>1 DEF GlobalInv, Whole
<1>9. w # Nobody BY ConstantsAssumption
<1>10. ASSUME NEW f \in File PROVE ItemInv(u, v, d, f)
 <2>1. WellItem(I[f]) BY ConstantsAssumption DEF WellItem
 <2>2. Named(u, d, f, I[f].temp) /\ Named(u, d, f, I[f].sink) BY <1>0, <1>3 DEF Named, None
 <2>3. I[f].resolution = "replace" => f \in d.asked BY <1>4, <1>5
 <2> QED BY <1>3, <1>5, <1>6, <2>1, <2>2, <2>3 DEF ItemInv
<1>11. OldInv(u) BY <1>7 DEF OldInv
<1>12. \A f \in File \ {} : SendInv(u, f) /\ HereInv(u, d, f) /\ SinkInv(u, host, f)
  BY <1>3, <1>5 DEF SendInv, HereInv, SinkInv
<1>13. HubInv(u, v, d, {}) BY <1>2, <1>5, <1>6, <1>7, <1>8, <1>10, <1>11, <1>12 DEF HubInv
<1>14. HostInv(u, host, v, d, 0, {})
 <2>1. HostInv(hub, host, saved, e, 0, {}) BY DEF Inv
 <2>2. \A f \in File : Prefix(host, I[f])
  <3>1. None \notin host.linked BY <2>1 DEF HostInv, HostShape, Temp, None
  <3> QED BY <3>1 DEF Prefix
 <2>3. host \in HostShape /\ host.linked \subseteq 1..u.named BY <1>3, <2>1 DEF HostInv
 <2>4. \A f \in File : host.placed[f] \subseteq {Chunks} /\ (host.placed[f] # {} <=> f \in d.here)
   BY <1>0, <1>5, <2>1 DEF HostInv
 <2> QED BY <1>3, <1>6, <1>7, <1>12, <2>2, <2>3, <2>4 DEF HostInv
<1>15. Inv(u, host, v, d, {}) BY <1>13, <1>14 DEF Inv
<1> QED BY <1>15 DEF u, d, v, A

\* What a file of a new upload is, as the policy says.
LEMMA FirstItem ==
  ASSUME NEW p \in {"ask", "replace", "keep_both", "skip"}, NEW free \in BOOLEAN
  PROVE  LET it == IF free THEN NewItem
                   ELSE CASE p = "skip" -> [NewItem EXCEPT !.state = "skipped"]
                          [] p = "ask" -> [NewItem EXCEPT !.state = "conflict"]
                          [] OTHER -> [NewItem EXCEPT !.resolution = p]
         IN  /\ it \in ItemShape /\ it.state \in {"queued", "skipped", "conflict"} /\ it.acked = 0
             /\ it.temp = None /\ ~it.whole /\ it.sink = None /\ ~it.writing
             /\ it.resolution = "replace" => p = "replace"
<1> DEFINE a == [NewItem EXCEPT !.state = "skipped"]
           b == [NewItem EXCEPT !.state = "conflict"]
           c == [NewItem EXCEPT !.resolution = p]
           Fit(it) == /\ it \in ItemShape /\ it.state \in {"queued", "skipped", "conflict"} /\ it.acked = 0
                      /\ it.temp = None /\ ~it.whole /\ it.sink = None /\ ~it.writing
                      /\ it.resolution = "replace" => p = "replace"
<1>1. Fit(NewItem) BY NewParts
<1>2. Fit(a) /\ Fit(b)
 <2>1. a \in ItemShape /\ b \in ItemShape BY NewParts DEF ItemShape, State, Unsettled
 <2>2. /\ a.state = "skipped" /\ a.acked = 0 /\ a.temp = None /\ ~a.whole /\ a.sink = None
       /\ ~a.writing /\ a.resolution = "none" BY NewParts DEF ItemShape
 <2>3. /\ b.state = "conflict" /\ b.acked = 0 /\ b.temp = None /\ ~b.whole /\ b.sink = None
       /\ ~b.writing /\ b.resolution = "none" BY NewParts DEF ItemShape
 <2> HIDE DEF a, b
 <2> QED BY <2>1, <2>2, <2>3
<1>3. p \notin {"skip", "ask"} => Fit(c)
 <2>1. p \notin {"skip", "ask"} => c \in ItemShape BY NewParts DEF ItemShape
 <2>2. /\ c.state = "queued" /\ c.acked = 0 /\ c.temp = None /\ ~c.whole /\ c.sink = None
       /\ ~c.writing /\ c.resolution = p BY NewParts DEF ItemShape
 <2> HIDE DEF c
 <2> QED BY <2>1, <2>2
<1> DEFINE x == CASE p = "skip" -> a [] p = "ask" -> b [] OTHER -> c
           it == IF free THEN NewItem ELSE x
<1>4. Fit(x)
 <2> DEFINE c1 == p = "skip"
            c2 == p = "ask"
 <2>1. x = CASE c1 -> a [] c2 -> b [] OTHER -> c OBVIOUS
 <2>2. ~c1 /\ ~c2 => Fit(c) BY <1>3
 <2>3. c1 => ~c2 OBVIOUS
 <2>4. x \in {a, b} \/ (~c1 /\ ~c2 /\ x = c)
  <3> HIDE DEF c1, c2, a, b, c, x
  <3> QED BY <2>1, <2>3, Zenon
 <2> HIDE DEF x, c1, c2, a, b, c, Fit
 <2> QED BY <1>2, <2>2, <2>4
<1>5. Fit(it)
 <2> HIDE DEF x, Fit
 <2> QED BY <1>1, <1>4
<1>6. it = IF free THEN NewItem ELSE CASE p = "skip" -> a [] p = "ask" -> b [] OTHER -> c BY Zenon
<1> HIDE DEF it, x
<1> QED BY <1>5, <1>6, Zenon

\* An upload starts.
LEMMA StartAction ==
  ASSUME NEW e, Inv(hub, host, saved, e, {}), NEW w \in Window, NEW p \in Policies, Start(w, p)
  PROVE  /\ Inv(hub', host', saved', [e EXCEPT !.asked = IF p = "replace" THEN File ELSE {}], {})
         /\ Counts(hub, hub')
<1> DEFINE Pick(f) == IF f \notin {g \in File : host.target[g] # "free"} THEN NewItem
                      ELSE CASE p = "skip" -> [NewItem EXCEPT !.state = "skipped"]
                             [] p = "ask" -> [NewItem EXCEPT !.state = "conflict"]
                             [] OTHER -> [NewItem EXCEPT !.resolution = p]
           I == [f \in File |-> Pick(f)]
           q == SetToSeq({f \in File : I[f].state = "queued"})
           u == [hub EXCEPT !.life = "kept", !.source = w, !.backend = "live", !.policy = p,
                            !.item = I, !.queue = q]
           v == [life |-> "kept", item |-> I]
           d == [e EXCEPT !.asked = IF p = "replace" THEN File ELSE {}]
<1>1. /\ hub.life = "none" /\ hub.link = "up"
      /\ hub' = schedulePump(noteHost(settle(u))) /\ saved' = v /\ host' = host BY Zenon DEF Start
<1>2. ASSUME NEW f \in File
      PROVE  /\ I[f] \in ItemShape /\ I[f].state \in {"queued", "skipped", "conflict"} /\ I[f].acked = 0
             /\ I[f].temp = None /\ ~I[f].whole /\ I[f].sink = None /\ ~I[f].writing
             /\ I[f].resolution = "replace" => p = "replace"
 <2> DEFINE free == f \notin {g \in File : host.target[g] # "free"}
            it == IF free THEN NewItem
                  ELSE CASE p = "skip" -> [NewItem EXCEPT !.state = "skipped"]
                         [] p = "ask" -> [NewItem EXCEPT !.state = "conflict"]
                         [] OTHER -> [NewItem EXCEPT !.resolution = p]
 <2>1. I[f] = it
  <3>1. I[f] = Pick(f)
   <4> HIDE DEF Pick
   <4> QED OBVIOUS
  <3> QED BY <3>1, Zenon
 <2>2. free \in BOOLEAN /\ p \in {"ask", "replace", "keep_both", "skip"} BY ConstantsAssumption
 <2> HIDE DEF free, I
 <2>3. /\ it \in ItemShape /\ it.state \in {"queued", "skipped", "conflict"} /\ it.acked = 0
       /\ it.temp = None /\ ~it.whole /\ it.sink = None /\ ~it.writing
       /\ it.resolution = "replace" => p = "replace" BY <2>2, FirstItem, Zenon
 <2> HIDE DEF it
 <2> QED BY <2>1, <2>3
<1>3. I \in [File -> ItemShape]
 <2> HIDE DEF Pick
 <2>1. \A f \in File : Pick(f) \in ItemShape BY <1>2
 <2> QED BY <2>1
<1> HIDE DEF I
<1>4. q \in Seq(File)
 <2> DEFINE Q == {f \in File : I[f].state = "queued"}
 <2>1. IsFiniteSet(Q) /\ Q \subseteq File BY ConstantsAssumption, FS_Subset
 <2>2. q \in Seq(Q)
  <3> HIDE DEF Q
  <3>1. SetToSeq(Q) \in Seq(Q) BY <2>1, SetInOrder
  <3> QED BY <3>1 DEF Q
 <2> HIDE DEF Q
 <2> QED BY <2>1, <2>2
<1> HIDE DEF q
<1>5. Inv(u, host, v, d, {}) BY <1>1, <1>2, <1>3, <1>4, StartStep
<1>6. Counts(hub, u) BY DEF Counts
<1> HIDE DEF u, v, d
<1>7. Inv(settle(u), host, v, d, {}) BY <1>5, EndsStep
<1>8. Inv(noteHost(settle(u)), host, v, d, {})
 <2>1. settle(u) \in HubShape BY <1>7 DEF Inv, HubInv
 <2> QED BY <1>7, <2>1, NoteParts, Agree
<1>9. Inv(schedulePump(noteHost(settle(u))), host, v, d, {}) BY <1>8, EndsStep
<1>10. Counts(u, schedulePump(noteHost(settle(u)))) BY DEF Counts, schedulePump, noteHost, settle
<1> QED BY <1>1, <1>6, <1>9, <1>10, CountsOn DEF d

\* The upload lets go of the connection while no file is sent.
LEMMA LetGoStep ==
  ASSUME NEW s, NEW h, NEW v, NEW e, Inv(s, h, v, e, {}), NEW u \in HubShape,
         \A f \in File : s.item[f].state # "sending",
         u.life = s.life, u.source = s.source, u.linkDropped = s.linkDropped, u.link = s.link,
         u.named = s.named, u.removal = s.removal, u.policy = s.policy, u.item = s.item,
         u.wire = s.wire, u.backend \in {s.backend, "none"}
  PROVE  Inv(u, h, v, e, {})
<1>1. GlobalInv(u, v, e) BY DEF Inv, HubInv, GlobalInv, Whole
<1>2. ASSUME NEW f \in File PROVE ItemInv(u, v, e, f) /\ Prefix(h, u.item[f])
 <2>1. ItemInv(s, v, e, f) /\ Prefix(h, s.item[f]) BY DEF Inv, HubInv, HostInv
 <2> QED BY <2>1 DEF ItemInv, Named
<1>3. ASSUME NEW i \in 1..Len(s.wire) PROVE ReqInv(u, v, e, s.wire[i]) /\ ReqHost(u, h, s.wire[i])
 <2> DEFINE r == s.wire[i]
 <2>1. ReqInv(s, v, e, r) /\ ReqHost(s, h, r) BY DEF Inv, HubInv, HostInv
 <2> HIDE DEF r
 <2>2. ReqInv(u, v, e, r)
   BY <2>1 DEF ReqInv, CutInv, CreateInv, PlaceInv, WriteInv, LookInv, OpenInv
 <2>3. ReqHost(u, h, r) BY <2>1 DEF ReqHost
 <2> QED BY <2>2, <2>3 DEF r
<1>4. ASSUME NEW i \in 1..Len(s.wire), NEW j \in 1..Len(s.wire), i < j
      PROVE  PairNow(u, s.wire[i], s.wire[j])
 <2>1. PairNow(s, s.wire[i], s.wire[j]) BY <1>4 DEF Inv, HubInv
 <2> QED BY <2>1 DEF PairNow
<1>5. ASSUME NEW f \in File \ {} PROVE SendInv(u, f) /\ HereInv(u, e, f) /\ SinkInv(u, h, f)
 <2>1. HereInv(s, e, f) BY DEF Inv, HubInv
 <2> QED BY <2>1 DEF SendInv, SinkInv, HereInv
<1> QED BY <1>1, <1>2, <1>3, <1>4, <1>5, WireKept

\* What changed is said.
LEMMA FlushAction ==
  ASSUME NEW e, Inv(hub, host, saved, e, {}), Flush
  PROVE  Inv(hub', host', saved', e, {}) /\ Counts(hub, hub')
<1> DEFINE s == [hub EXCEPT !.flushDue = FALSE]
           over == isSettled(s) /\ ~s.doneSaid
           idle == ~isActive(s) /\ s.source = Nobody
           D == s.doneSaid \/ over
           B == IF over \/ idle THEN "none" ELSE s.backend
           u == [s EXCEPT !.doneSaid = D, !.dirty = {}, !.backend = B]
<1>0. hub \in HubShape /\ \A f \in File : ItemInv(hub, saved, e, f) BY DEF Inv, HubInv
<1>1. s \in HubShape /\ Same(hub, s) BY <1>0 DEF HubShape, Same
<1>2. hub' = (IF s.life # "kept" THEN s ELSE noteHost(u)) /\ host' = host /\ saved' = saved
  BY DEF Flush
<1>3. Inv(s, host, saved, e, {}) /\ Counts(hub, s)
 <2>1. Counts(hub, s) BY DEF Counts
 <2> HIDE DEF s
 <2> QED BY <1>1, <2>1, Agree
<1>4. s.item = hub.item /\ s.source = hub.source BY <1>1 DEF Same
<1>5. over \/ idle => \A f \in File : s.item[f].state # "sending"
 <2>1. over => \A f \in File : s.item[f].state \notin Unsettled BY DEF isSettled
 <2> HIDE DEF s
 <2>2. s.source = Nobody => \A f \in File : s.item[f].state # "sending" BY <1>0, <1>4 DEF ItemInv
 <2> QED BY <2>1, <2>2 DEF Unsettled
<1>6. D \in BOOLEAN /\ B \in {"none", "live", "lost"} /\ B \in {s.backend, "none"}
      /\ (B # s.backend => over \/ idle)
 <2>1. s.doneSaid \in BOOLEAN /\ s.backend \in {"none", "live", "lost"} BY <1>1 DEF HubShape
 <2>2. over \in BOOLEAN BY DEF isSettled
 <2> HIDE DEF s, over, idle
 <2> QED BY <2>1, <2>2
<1> HIDE DEF s, over, idle, D, B
<1>7. u \in HubShape BY <1>1, <1>6 DEF HubShape
<1>8. /\ u.life = s.life /\ u.source = s.source /\ u.linkDropped = s.linkDropped /\ u.link = s.link
      /\ u.named = s.named /\ u.removal = s.removal /\ u.policy = s.policy /\ u.item = s.item
      /\ u.wire = s.wire /\ u.backend = B BY <1>1 DEF HubShape
<1>9. Counts(s, u) /\ Counts(u, noteHost(u))
 <2>1. Counts(s, u) BY DEF Counts
 <2> HIDE DEF u
 <2> QED BY <2>1, SmallCounts
<1> HIDE DEF u
<1>10. Inv(u, host, saved, e, {})
 <2>1. CASE B = s.backend
  <3>1. Same(s, u) BY <1>8, <2>1 DEF Same
  <3> QED BY <1>3, <1>7, <3>1, Agree
 <2>2. CASE B # s.backend
  <3>1. \A f \in File : s.item[f].state # "sending" BY <1>5, <1>6, <2>2
  <3> QED BY <1>3, <1>6, <1>7, <1>8, <3>1, LetGoStep
 <2> QED BY <2>1, <2>2
<1>11. Inv(noteHost(u), host, saved, e, {}) BY <1>7, <1>10, NoteParts, Agree
<1> QED BY <1>2, <1>3, <1>9, <1>11, CountsOn

\* What waits for room goes.
LEMMA PumpAction ==
  ASSUME NEW e, Inv(hub, host, saved, e, {}), writers \in SUBSET Window, Pump
  PROVE  \E d : Like(e, d) /\ Inv(hub', host', saved', d, {})
<1> DEFINE s == [hub EXCEPT !.pumpDue = FALSE]
           no == <<>>
           c == s.life = "kept" /\ s.source \in writers
           a == [s EXCEPT !.queue = no]
<1>0. hub \in HubShape BY DEF Inv, HubInv
<1>1. s \in HubShape /\ Same(hub, s) BY <1>0 DEF HubShape, Same
<1>2. /\ hub' = IF c THEN PumpRun(a, s.queue) ELSE s
      /\ host' = host /\ saved' = saved BY Zenon DEF Pump, PumpRun
<1>a. Like(e, e) /\ \A d : SameEnv(e, d) => Like(e, d) BY DEF Like, SameEnv
<1> HIDE DEF s
<1>3. Inv(s, host, saved, e, {}) /\ s.queue \in Seq(File) BY <1>1, Agree, HubParts
<1>4. CASE ~c BY <1>2, <1>3, <1>4, <1>a
<1>5. CASE c
 <2>0. no \in Seq(File) OBVIOUS
 <2> HIDE DEF no
 <2>1. a \in HubShape /\ Same(s, a) BY <1>1, <2>0 DEF HubShape, Same
 <2> HIDE DEF a
 <2>2. Inv(a, host, saved, e, {}) /\ a.life = "kept" /\ a.source # Nobody
   BY <1>3, <1>5, <2>1, Agree, ConstantsAssumption DEF Same
 <2>3. \E d : SameEnv(e, d) /\ Inv(PumpRun(a, s.queue), host, saved, d, {})
  <3>1. \E d : SameEnv(e, d) /\ Inv(Each(pumpOne, a, s.queue), host, saved, d, {})
    BY <1>3, <2>2, PumpStep
  <3> QED BY <3>1, Zenon DEF PumpRun
 <2> QED BY <1>2, <1>5, <1>a, <2>3
<1> QED BY <1>4, <1>5

\* What changed is saved.
LEMMA SaveAction ==
  ASSUME NEW e, Inv(hub, host, saved, e, {}), NEW acks \in BOOLEAN, Save(acks)
  PROVE  Inv(hub', host', saved', e, {}) /\ Counts(hub, hub')
<1> DEFINE F == hub.unsaved \cup (IF acks THEN hub.unsavedAcks ELSE {})
           A == hub.unsavedAcks \ F
           u == [hub EXCEPT !.unsaved = {}, !.unsavedAcks = A]
<1>1. /\ hub.life = "kept" /\ hub' = u /\ host' = host
      /\ saved' = [saved EXCEPT !.item = Rows(hub, F)] BY DEF Save
<1>2. F \in SUBSET File /\ A \in SUBSET File BY HubParts DEF Inv, HubInv
<1> HIDE DEF F, A
<1>3. Inv(u, host, [saved EXCEPT !.item = Rows(hub, F)], e, {}) BY <1>1, <1>2, SaveStep
<1>4. Counts(hub, u) BY DEF Counts
<1> QED BY <1>1, <1>3, <1>4

\* An upload that is over is forgotten.
LEMMA ForgetAction ==
  ASSUME NEW e, Inv(hub, host, saved, e, {}), Forget
  PROVE  Inv(hub', host', saved', e, {}) /\ Counts(hub, hub')
<1> DEFINE u == [hub EXCEPT !.life = "gone", !.unsaved = {}, !.unsavedAcks = {}]
           v == [saved EXCEPT !.life = "none"]
<1>1. /\ hub.life = "kept" /\ hub' = u /\ host' = host /\ saved' = v
      /\ \A f \in File : hub.item[f].state \in {"placed", "skipped"} BY DEF Forget
<1>2. Inv(u, host, v, e, {}) BY <1>1, ForgetStep
<1>3. Counts(hub, u) BY DEF Counts
<1> QED BY <1>1, <1>2, <1>3

\* An upload is dropped.
LEMMA DroppedAction ==
  ASSUME NEW e, Inv(hub, host, saved, e, {}), hub.life = "kept", Dropped(hub), host' = host
  PROVE  Inv(hub', host', saved', e, {}) /\ Counts(hub, hub')
<1> DEFINE d == drop(hub)
           u == IF hub.link = "up" THEN removeDropped(d) ELSE d
           l == IF hub'.removal = {} /\ hub.link = "up" THEN "none" ELSE "discarded"
<1>1. hub' = u /\ saved' = [saved EXCEPT !.life = l] BY DEF Dropped
<1>2. l \in {"none", "discarded"} OBVIOUS
<1> HIDE DEF l
<1>3. Inv(u, host, [saved EXCEPT !.life = l], e, {}) BY <1>2, DroppedStep
<1>4. Counts(hub, d) BY DEF Counts, drop, noteHost
<1> HIDE DEF d
<1>5. Counts(d, removeDropped(d)) BY DEF Counts, removeDropped, AskAll
<1>6. Counts(hub, u) BY <1>4, <1>5, CountsOn
<1> QED BY <1>1, <1>3, <1>6

\* A chunk comes.
LEMMA ChunkAction ==
  ASSUME NEW e, Inv(hub, host, saved, e, {}), NEW f \in File, Chunk(f)
  PROVE  Inv(hub', host', saved', e, {}) /\ Counts(hub, hub')
<1> DEFINE a == [hub EXCEPT !.item[f].writing = TRUE]
           b == Ask(a, "write", f, hub.item[f].sink, hub.item[f].acked, FALSE, Nobody)
           u == IF hub.backend = "live" THEN b ELSE Interrupted(hub, f)
<1>1. /\ hub' = u /\ host' = host /\ saved' = saved
      /\ hub.item[f].state = "sending" /\ ~LatestOpening(hub, f) /\ hub.item[f].sink # None
      /\ ~hub.item[f].writing /\ hub.item[f].acked < Size BY DEF Chunk
<1>2. Inv(u, host, saved, e, {}) BY <1>1, ChunkStep
<1>3. Counts(hub, u) BY HandlerCounts DEF Counts, Ask
<1> HIDE DEF u
<1> QED BY <1>1, <1>2, <1>3

\* A window cancels.
LEMMA CancelAction ==
  ASSUME NEW e, Inv(hub, host, saved, e, {}), NEW f \in File, Cancel(f)
  PROVE  Inv(hub', host', saved', e, {}) /\ Counts(hub, hub')
<1> DEFINE a == setState(hub, f, "cancelled")
           b == [a EXCEPT !.item[f].sink = None]
           c == schedulePump(settle(b))
           d == afterStop(c, f, hub.item[f].sink)
           u == IF hub.item[f].writing THEN c ELSE d
<1>1. /\ hub.life = "kept" /\ hub.item[f].state \in {"queued", "sending", "conflict", "interrupted"}
      /\ hub' = u /\ host' = host /\ saved' = saved BY DEF Cancel
<1>2. Inv(u, host, saved, e, {}) BY <1>1, CancelStep
<1>3. Counts(hub, c) BY DEF Counts, setState, schedulePump, settle
<1> HIDE DEF c
<1>4. Counts(hub, u) BY <1>3, HandlerCounts, CountsOn
<1> HIDE DEF u
<1> QED BY <1>1, <1>2, <1>4

\* A window answers a conflict.
LEMMA ResolveAction ==
  ASSUME NEW e, Inv(hub, host, saved, e, {}), NEW f \in File,
         NEW a \in {"replace", "keep_both", "skip"}, Resolve(f, a)
  PROVE  /\ Inv(hub', host', saved',
                [e EXCEPT !.asked = IF a = "replace" THEN @ \cup {f} ELSE @], {})
         /\ Counts(hub, hub')
<1> DEFINE s == [hub EXCEPT !.item[f].resolution = a]
           p == skip(hub, f)
           q == requeue(s, f)
           b == IF a = "skip" THEN p ELSE q
           u == schedulePump(settle(b))
           A == IF a = "replace" THEN e.asked \cup {f} ELSE e.asked
           d == [e EXCEPT !.asked = A]
<1>1. /\ hub.life = "kept" /\ hub.item[f].state = "conflict"
      /\ hub' = u /\ host' = host /\ saved' = saved BY DEF Resolve
<1>2. e \in Env BY DEF Inv, HubInv
<1>3. A \subseteq File /\ e.asked \subseteq A /\ (a = "replace" => f \in A) BY <1>2 DEF Env
<1> HIDE DEF A
<1>4. d \in Env /\ d.own = e.own /\ d.here = e.here /\ d.broken = e.broken /\ d.asked = A
  BY <1>2, <1>3 DEF Env
<1> HIDE DEF d
<1>5. Inv(hub, host, saved, d, {}) BY <1>3, <1>4, EnvMore
<1>6. Inv(u, host, saved, d, {}) BY <1>1, <1>3, <1>4, <1>5, ResolveStep
<1>7. Counts(hub, s) /\ Counts(hub, p) BY SmallCounts, HandlerCounts
<1> HIDE DEF s, p
<1>8. Counts(s, q) BY HandlerCounts
<1> HIDE DEF q
<1>9. Counts(hub, u) BY <1>7, <1>8 DEF Counts, schedulePump, settle
<1> HIDE DEF u
<1> QED BY <1>1, <1>6, <1>9 DEF d, A

\* From here on something was lost.
LEMMA BrokenStep ==
  ASSUME NEW s, NEW h, NEW v, NEW e, Inv(s, h, v, e, {})
  PROVE  LET d == [e EXCEPT !.broken = TRUE]
         IN  Inv(s, h, v, d, {}) /\ Breaks(e, d)
<1> DEFINE d == [e EXCEPT !.broken = TRUE]
<1>0. e \in Env BY DEF Inv, HubInv
<1>1. d \in Env /\ d.own = e.own /\ d.here = e.here /\ d.asked = e.asked /\ d.broken BY <1>0 DEF Env
<1> HIDE DEF d
<1>2. Inv(s, h, v, d, {}) BY <1>1, EnvMore
<1> QED BY <1>1, <1>2 DEF d, Breaks

\* A request that was refused is handled.
LEMMA RefusedStep ==
  ASSUME NEW s, NEW h, NEW v, NEW e, NEW r, Taken(s, h, v, e, r), HereInv(s, e, r.f), r.k # "close"
  PROVE  \E d : /\ SameEnv(e, d)
                /\ Inv(refused(s, r), h,
                       IF r.k = "purge" /\ OnWire(refused(s, r), {"purge"}) = {}
                       THEN [v EXCEPT !.life = "none"] ELSE v, d, {})
<1> DEFINE x == refused(s, r)
           Goal == \E d : SameEnv(e, d) /\ Inv(x, h, v, d, {})
<1>0. SameEnv(e, e) /\ r.f \in File /\ Inv(s, h, v, e, {r.f}) /\ s.life # "none"
  BY AfterHead DEF Taken, SameEnv
<1>1. CASE r.k \in {"stat", "cut"}
 <2>1. CASE s.item[r.f].temp = None
  <3>1. x = newTemp(s, r.f, r.old) BY <1>1, <2>1 DEF refused
  <3> HIDE DEF x
  <3>2. Goal BY <1>1, <2>1, <3>1, NoTempStep
  <3> QED BY <1>1, <3>2 DEF x
 <2>2. CASE s.item[r.f].temp # None
  <3>1. x = Ask(s, "clear", r.f, s.item[r.f].temp, 0, r.old, Nobody) BY <1>1, <2>2 DEF refused
  <3> HIDE DEF x
  <3>2. Inv(x, h, v, e, {}) BY <1>1, <2>2, <3>1, GoOnStep
  <3> QED BY <1>0, <1>1, <3>2 DEF x
 <2> QED BY <2>1, <2>2
<1>2. CASE r.k = "clear"
 <2>1. x = clearDone(s, r) BY <1>2 DEF refused
 <2> HIDE DEF x
 <2>2. Goal BY <1>2, <2>1, ClearDone
 <2> QED BY <1>2, <2>2 DEF x
<1>3. CASE r.k \in {"create", "reopen"}
 <2>1. x = openFailed(s, r.f) BY <1>3 DEF refused
 <2> HIDE DEF x
 <2>2. NoOn(s, r.f, LookKinds \cup PlaceKinds \cup {"write"})
  <3>1. Open(r) BY <1>3 DEF Open, OpenKinds
  <3> QED BY <3>1, AfterHead
 <2>3. NoOn(s, r.f, PlaceKinds) /\ NoOn(s, r.f, {"write"}) BY <2>2 DEF NoOn
 <2>4. Inv(x, h, v, e, {}) BY <1>0, <2>1, <2>3, OpenFailedStep
 <2> QED BY <1>0, <1>3, <2>4 DEF x
<1>4. CASE r.k = "write"
 <2> DEFINE w == [s EXCEPT !.item[r.f].writing = FALSE]
 <2>1. x = openFailed(w, r.f) BY <1>4 DEF refused
 <2>2. NoOn(s, r.f, PlaceKinds \cup {"write", "close", "cut", "create", "reopen", "lookcut", "lookclear"})
   BY <1>4, AfterHead
 <2>3. NoOn(s, r.f, PlaceKinds) /\ NoOn(s, r.f, {"write"}) BY <2>2 DEF NoOn
 <2>4. Inv(w, h, v, e, {r.f}) /\ Changes(s, w, r.f, [s.item[r.f] EXCEPT !.writing = FALSE])
   BY <1>0, <2>3, WrittenStep
 <2>5. [s.item[r.f] EXCEPT !.writing = FALSE].state = s.item[r.f].state
  <3>1. s.item[r.f] \in ItemShape BY <1>0, HubParts DEF Inv, HubInv
  <3> QED BY <3>1 DEF ItemShape
 <2> HIDE DEF w, x
 <2>6. w.wire = s.wire /\ w.life = s.life /\ w.item[r.f].state = s.item[r.f].state
   BY <2>4, <2>5 DEF Changes, Still
 <2>7. HereInv(w, e, r.f) /\ NoOn(w, r.f, PlaceKinds) /\ NoOn(w, r.f, {"write"})
   BY <2>3, <2>6 DEF HereInv, NoOn
 <2>8. Inv(x, h, v, e, {}) BY <1>0, <2>1, <2>4, <2>6, <2>7, OpenFailedStep
 <2> QED BY <1>0, <1>4, <2>8 DEF x
<1>5. CASE Place(r)
 <2>1. r.k \in {"finish", "link", "unlink", "rename"} BY <1>5 DEF Place, PlaceKinds
 <2>2. x = fileFailed(s, r.f) \/ x = placeEnds(fileFailed(s, r.f)) BY <2>1 DEF refused
 <2> HIDE DEF x
 <2>3. Inv(x, h, v, e, {}) BY <1>5, <2>2, PlaceFailed, EndsStep
 <2> QED BY <1>0, <2>1, <2>3 DEF x
<1>6. CASE LookAt(r)
 <2>1. CASE r.k = "lookcut"
  <3>1. x = lookAgain(s, r) BY <2>1 DEF refused
  <3> HIDE DEF x
  <3>2. Inv(x, h, v, e, {}) BY <2>1, <3>1, LookcutDone
  <3> QED BY <1>0, <2>1, <3>2 DEF x
 <2>2. CASE r.k # "lookcut"
  <3>1. r.k \in {"look", "lookclear"} BY <1>6, <2>2 DEF LookAt, LookKinds
  <3>2. x = looked(restartFile(s, r.f), r.w) BY <3>1 DEF refused, lookclearDone
  <3> HIDE DEF x
  <3>3. Inv(x, h, v, e, {}) BY <1>6, <3>2, LookGoneStep
  <3> QED BY <1>0, <3>1, <3>3 DEF x
 <2> QED BY <2>1, <2>2
<1>7. CASE r.k = "purge"
 <2>1. x = purgeDone(s, r) BY <1>7 DEF refused
 <2> HIDE DEF x
 <2> QED BY <1>0, <1>7, <2>1, PurgeDone DEF x
<1>8. CASE r.k = "remove"
 <2>1. x = s BY <1>8 DEF refused
 <2> HIDE DEF x
 <2>2. Inv(x, h, v, e, {}) BY <1>8, <2>1, RemoveDone
 <2> QED BY <1>0, <1>8, <2>2 DEF x
<1>9. r.k \in Kinds BY ReqParts DEF Taken
<1> QED BY <1>1, <1>2, <1>3, <1>4, <1>5, <1>6, <1>7, <1>8, <1>9
  DEF Kinds, OpenKinds, LookAt, Place

\* The host refuses a request.
LEMMA RefuseAction ==
  ASSUME NEW e, Inv(hub, host, saved, e, {}), Refuse
  PROVE  \E d : /\ d.asked = e.asked /\ (d.broken <=> e.broken \/ Head(hub.wire).k = "unlink")
                /\ Inv(hub', host', saved', d, {})
<1> DEFINE r == Head(hub.wire)
           s == [hub EXCEPT !.wire = Tail(@)]
           b == [e EXCEPT !.broken = TRUE]
           c == IF r.k = "unlink" THEN b ELSE e
<1>1. /\ hub.wire # <<>> /\ host' = host /\ r.k # "close" /\ hub' = refused(s, r)
      /\ saved' = IF r.k = "purge" /\ OnWire(hub', {"purge"}) = {}
                  THEN [saved EXCEPT !.life = "none"] ELSE saved BY DEF Refuse
<1>2. /\ Inv(hub, host, saved, b, {}) /\ b.asked = e.asked /\ b.broken /\ e \in Env
  BY BrokenStep DEF Breaks, Inv, HubInv
<1> HIDE DEF b
<1>3. /\ Inv(hub, host, saved, c, {}) /\ c.asked = e.asked
      /\ (c.broken <=> e.broken \/ r.k = "unlink")
 <2>1. CASE r.k = "unlink" BY <1>2, <2>1
 <2>2. CASE r.k # "unlink" BY <2>2
 <2> QED BY <2>1, <2>2
<1> HIDE DEF c
<1>4. Taken(s, host, saved, c, r) /\ (r.k # "unlink" => HereInv(s, c, r.f))
  BY <1>1, <1>3, RefuseTaken
<1> HIDE DEF s, r
<1>5. HereInv(s, c, r.f) BY <1>3, <1>4 DEF HereInv
<1>6. PICK d : SameEnv(c, d) /\ Inv(hub', host, saved', d, {}) BY <1>1, <1>4, <1>5, RefusedStep
<1> QED BY <1>1, <1>3, <1>6 DEF SameEnv, r

------------------------------
\* The connection goes.

\* A request takes a name somebody else has only by a rename.
LEMMA TargetKept ==
  ASSUME NEW h \in HostShape, NEW r \in ReqShape, NEW f \in File,
         h.target[f] = "theirs", Done(h, r).target[f] # "theirs"
  PROVE  r.k = "rename" /\ r.f = f
<1>0. /\ h.target \in [File -> {"free", "theirs", "ours"}] BY DEF HostShape
<1>a. r.k \in Kinds /\ r.f \in File /\ r.n \in Nat BY ReqParts
<1>1. CASE r.k \in {"cut", "lookcut"}
 <2> DEFINE B == [h.bytes EXCEPT ![r.t] = IF r.t \in h.linked THEN {c \in @ : c < r.n} ELSE @]
 <2>1. Done(h, r) = [h EXCEPT !.bytes = B] BY <1>1 DEF Done
 <2> HIDE DEF B
 <2>2. Done(h, r).target = h.target BY <2>1 DEF HostShape
 <2> QED BY <2>2
<1>2. CASE r.k \in {"clear", "lookclear", "remove", "purge", "unlink"}
 <2>1. Done(h, r) = [h EXCEPT !.linked = @ \ {r.t}] BY <1>2 DEF Done
 <2>2. Done(h, r).target = h.target BY <2>1 DEF HostShape
 <2> QED BY <2>2
<1>3. CASE r.k = "create" /\ r.t \notin h.linked
 <2> DEFINE B == [h.bytes EXCEPT ![r.t] = {}]
 <2>1. Done(h, r) = [h EXCEPT !.linked = @ \cup {r.t}, !.bytes = B] BY <1>3 DEF Done
 <2> HIDE DEF B
 <2>2. Done(h, r).target = h.target BY <2>1 DEF HostShape
 <2> QED BY <2>2
<1>4. CASE r.k = "write"
 <2> DEFINE B == [h.bytes EXCEPT ![r.t] = @ \cup {r.n}]
 <2>1. Done(h, r) = [h EXCEPT !.bytes = B] BY <1>4 DEF Done
 <2> HIDE DEF B
 <2>2. Done(h, r).target = h.target BY <2>1 DEF HostShape
 <2> QED BY <2>2
<1>5. CASE r.k = "link" /\ Links(h, r)
 <2> DEFINE T == [h.target EXCEPT ![r.f] = IF r.n = 0 THEN "ours" ELSE @]
 <2> DEFINE C == [h.copies EXCEPT ![r.f] = @ + r.n]
 <2> DEFINE P == [h.placed EXCEPT ![r.f] = @ \cup {h.bytes[r.t]}]
 <2>1. Done(h, r) = [h EXCEPT !.target = T, !.copies = C, !.placed = P] BY <1>5 DEF Done
 <2>2. h.target[f] = "theirs" => T[f] = "theirs" BY <1>0, <1>a, <1>5 DEF Links
 <2> HIDE DEF T, C, P
 <2>3. Done(h, r).target = T BY <2>1 DEF HostShape
 <2> QED BY <2>2, <2>3
<1>6. CASE r.k = "rename" /\ r.t \in h.linked
 <2> DEFINE T == [h.target EXCEPT ![r.f] = "ours"]
 <2> DEFINE P == [h.placed EXCEPT ![r.f] = @ \cup {h.bytes[r.t]}]
 <2>1. Done(h, r) = [h EXCEPT !.target = T, !.linked = @ \ {r.t}, !.placed = P] BY <1>6 DEF Done
 <2>2. f # r.f => T[f] = "theirs" BY <1>0, <1>a
 <2> HIDE DEF T, P
 <2>3. Done(h, r).target = T BY <2>1 DEF HostShape
 <2> QED BY <1>6, <2>2, <2>3
<1>7. CASE /\ r.k \notin {"cut", "lookcut", "clear", "lookclear", "remove", "purge", "unlink", "write"}
           /\ ~(r.k = "create" /\ r.t \notin h.linked) /\ ~Puts(h, r)
 <2>1. Done(h, r) = h BY <1>7 DEF Done, Puts
 <2> QED BY <2>1
<1> QED BY <1>1, <1>2, <1>3, <1>4, <1>5, <1>6, <1>7 DEF Puts

\* The host does the first k requests and no more.
LEMMA DoneSomeStep ==
  ASSUME NEW s, NEW h, NEW v, NEW e, Inv(s, h, v, e, {}), e.broken, s.named <= MaxTemp,
         NEW k \in 0..Len(s.wire)
  PROVE  LET g == DoneRun(h, SubSeq(s.wire, 1, k))
         IN  /\ \E d : Like(e, d) /\ HubInv(s, v, d, {}) /\ HostInv(s, g, v, d, k, {})
             /\ Spared(h, g, e.asked)
<1> DEFINE q == SubSeq(s.wire, 1, k)
<1>0. /\ s \in HubShape /\ s.wire \in Seq(ReqShape) /\ Len(s.wire) \in Nat
      /\ \A i \in 1..Len(s.wire) : s.wire[i] \in ReqShape
 <2>1. s \in HubShape BY DEF Inv, HubInv
 <2> QED BY <2>1, HubParts
<1>1. k \in Nat /\ Len(q) = k /\ \A i \in 1..k : i \in 1..Len(s.wire) /\ q[i] = s.wire[i] BY <1>0
<1> HIDE DEF q
<1>2. PICK a : /\ a[0] = h
               /\ \A n \in 1..k : a[n] = Done(a[n - 1], q[n])
               /\ DoneRun(h, q) = a[k] BY <1>1, DoneLoop
<1> DEFINE M(n, d) == Like(e, d) /\ HubInv(s, v, d, {}) /\ HostInv(s, a[n], v, d, n, {})
           L(n) == (\E d : M(n, d)) /\ Spared(h, a[n], e.asked)
           S == {n \in 0..k : L(n)}
<1>3. 0 \in S
 <2>1. M(0, e) BY <1>2 DEF Like, Inv
 <2>2. Spared(h, a[0], e.asked) BY <1>2 DEF Spared
 <2> HIDE DEF M
 <2>3. L(0) BY <2>1, <2>2
 <2> HIDE DEF L
 <2> QED BY <1>1, <2>3
<1>4. ASSUME NEW n \in 0..(k - 1), n \in S PROVE n + 1 \in S
 <2> DEFINE r == s.wire[n + 1]
 <2>0. n \in Nat /\ n + 1 \in 1..k /\ (n + 1) - 1 = n /\ n < Len(s.wire) BY <1>0, <1>1, <1>4
 <2>1. a[n + 1] = Done(a[n], r) /\ r \in ReqShape /\ r.f \in File
  <3>1. a[n + 1] = Done(a[n], q[n + 1]) /\ q[n + 1] = r BY <1>1, <1>2, <2>0
  <3>2. r \in ReqShape BY <1>0, <1>1, <2>0
  <3> HIDE DEF r
  <3> QED BY <3>1, <3>2, ReqParts
 <2>2. L(n) BY <1>4
 <2>3. PICK d : M(n, d) BY <2>2
 <2>4. HostInv(s, a[n + 1], v, EnvAfter(d, a[n], r), n + 1, {}) BY <2>0, <2>1, <2>3, HostStep
 <2>5. s.life # "none"
  <3>1. GlobalInv(s, v, d) BY <2>3 DEF HubInv
  <3>2. s.life = "none" => Len(s.wire) = 0 BY <3>1 DEF GlobalInv, Whole
  <3> QED BY <2>0, <3>2
 <2>6. HubInv(s, v, EnvAfter(d, a[n], r), {})
  <3>1. d.broken BY <2>3 DEF Like
  <3>2. {} \subseteq {} OBVIOUS
  <3>3. HubInv(s, v, d, {}) BY <2>3
  <3> HIDE DEF r, M
  <3> QED BY <2>1, <2>5, <3>1, <3>2, <3>3, MoreHere
 <2>7. Like(e, EnvAfter(d, a[n], r))
  <3>1. d \in Env /\ Like(e, d) BY <2>3 DEF HubInv
  <3>2. Like(d, EnvAfter(d, a[n], r)) BY <3>1, AfterLike
  <3> QED BY <3>1, <3>2 DEF Like
 <2>8. M(n + 1, EnvAfter(d, a[n], r)) BY <2>4, <2>6, <2>7
 <2>9. Spared(h, a[n + 1], e.asked)
  <3> SUFFICES ASSUME NEW f \in File, h.target[f] = "theirs", a[n + 1].target[f] # "theirs",
                      f \notin e.asked
               PROVE  FALSE BY DEF Spared
  <3>1. a[n].target[f] = "theirs" BY <2>2 DEF Spared
  <3>2. a[n] \in HostShape BY <2>3 DEF HostInv
  <3>3. r.k = "rename" /\ r.f = f
   <4> HIDE DEF r
   <4> QED BY <2>1, <3>1, <3>2, TargetKept
  <3>4. ReqInv(s, v, d, r)
   <4>1. n + 1 \in 1..Len(s.wire) BY <1>1, <2>0
   <4> QED BY <2>3, <4>1 DEF HubInv
  <3>5. f \in d.asked BY <3>3, <3>4 DEF ReqInv, PlaceInv, Place, PlaceKinds
  <3> QED BY <2>3, <3>5 DEF Like
 <2> HIDE DEF M
 <2>10. L(n + 1) BY <2>8, <2>9
 <2> HIDE DEF L
 <2> QED BY <1>1, <2>0, <2>10
<1>5. k \in S
 <2>1. \A n \in 0..(k - 1) : n \in S => n + 1 \in S BY <1>4
 <2> HIDE DEF S
 <2>2. \A n \in 0..k : n \in S BY <1>1, <1>3, <2>1, UpTo
 <2> QED BY <1>1, <2>2
<1> QED BY <1>2, <1>5 DEF q

\* The requests under way are forgotten; what moved may be interrupted.
LEMMA CutOffStep ==
  ASSUME NEW s, NEW h, NEW v, NEW e, NEW X, NEW m,
         HubInv(s, v, e, {}), HostInv(s, h, v, e, m, {}), e.broken,
         NEW u \in HubShape, u.link = "down", u.backend # "live", u.wire = <<>>,
         u.life = s.life, u.source = s.source, u.linkDropped = s.linkDropped, u.named = s.named,
         u.removal = s.removal, u.policy = s.policy,
         \A f \in File :
            \/ u.item[f] = s.item[f]
            \/ /\ u.item[f].state = "interrupted" /\ u.item[f].sink = None
               /\ Alike(s.item[f], u.item[f]) /\ s.item[f].state \in {"queued", "sending", "verifying"},
         \A f \in File : u.item[f].state = "sending" =>
            u.backend # "none" /\ (LatestOf(s, f) => f \in X)
  PROVE  Inv(u, h, v, e, X)
<1>0. s \in HubShape /\ s.named \in Nat /\ Len(u.wire) = 0 BY HubParts DEF HubInv
<1>2. GlobalInv(u, v, e) BY DEF HubInv, GlobalInv, Whole
<1>3. ASSUME NEW f \in File PROVE ItemInv(u, v, e, f) /\ Prefix(h, u.item[f])
 <2>1. ItemInv(s, v, e, f) /\ Prefix(h, s.item[f]) BY DEF HubInv, HostInv
 <2>2. CASE u.item[f] = s.item[f] BY <2>1, <2>2 DEF ItemInv, Named
 <2>3. CASE u.item[f] # s.item[f]
  <3>1. /\ u.item[f].state = "interrupted" /\ u.item[f].sink = None
        /\ s.item[f].state \in {"queued", "sending", "verifying"} BY <2>3
  <3>2. /\ u.item[f].acked = s.item[f].acked /\ u.item[f].temp = s.item[f].temp
        /\ u.item[f].whole = s.item[f].whole /\ u.item[f].resolution = s.item[f].resolution
    BY <2>3 DEF Alike
  <3>3. WellItem(u.item[f]) BY <2>1, <3>1, <3>2 DEF ItemInv, WellItem
  <3>4. Named(u, e, f, u.item[f].temp) /\ Named(u, e, f, u.item[f].sink) /\ Named(u, e, f, v.item[f].temp)
    BY <1>0, <2>1, <3>1, <3>2 DEF ItemInv, Named, None
  <3> QED BY <2>1, <3>1, <3>2, <3>3, <3>4 DEF ItemInv, Prefix
 <2> QED BY <2>2, <2>3
<1>4. OldInv(u) BY <1>0 DEF OldInv
<1>5. ASSUME NEW f \in File \ X PROVE SendInv(u, f) /\ HereInv(u, e, f) /\ SinkInv(u, h, f)
 <2>1. HereInv(u, e, f) BY DEF HereInv
 <2>2. CASE u.item[f].state # "sending" BY <2>1, <2>2 DEF SendInv, SinkInv
 <2>3. CASE u.item[f].state = "sending"
  <3>1. u.item[f] = s.item[f] /\ ~LatestOf(s, f) BY <2>3
  <3>2. SendInv(s, f) /\ SinkInv(s, h, f) BY DEF HubInv, HostInv
  <3>3. s.item[f].sink # None => s.item[f].temp = s.item[f].sink /\ s.item[f].sink \in h.linked
    BY <2>3, <3>1, <3>2 DEF SendInv, SinkInv
  <3> QED BY <1>0, <2>1, <3>1, <3>3 DEF SendInv, SinkInv
 <2> QED BY <2>2, <2>3
<1>6. HubInv(u, v, e, X)
 <2>1. v \in RowShape /\ e \in Env BY DEF HubInv
 <2>2. \A i \in 1..Len(u.wire) : FALSE BY <1>0
 <2> QED BY <1>2, <1>3, <1>4, <1>5, <2>1, <2>2 DEF HubInv
<1>7. HostInv(u, h, v, e, 0, X)
 <2>1. \A i \in 1..Len(u.wire) : FALSE BY <1>0
 <2> QED BY <1>3, <1>5, <2>1 DEF HostInv
<1> QED BY <1>6, <1>7 DEF Inv

\* A request that fails with its connection is handled.
LEMMA FailOneStep ==
  ASSUME NEW s, NEW h, NEW v, NEW e, NEW X, NEW Y, Inv(s, h, v, e, X), e.broken, CutOff(s),
         NEW r \in ReqShape, Place(r) => s.item[r.f].state # "placed",
         \A f \in File : f \in X /\ f \notin Y => Latest(r) /\ r.f = f
  PROVE  /\ Inv(Fail(s, r), h, v, e, Y) /\ CutOff(Fail(s, r))
         /\ \A f \in File : Fail(s, r).item[f].state = "placed" => s.item[f].state = "placed"
<1> DEFINE f == r.f
           w == [s EXCEPT !.item[f].writing = FALSE]
           i == Interrupted(s, f)
           o == IF r.k \in {"stat", "clear"} THEN restartFile(s, f) ELSE s
           A == IF s.item[f].state = "sending" THEN Interrupted(o, f) ELSE o
           z == fileFailed(s, f)
           B == IF s.item[f].state = "sending" THEN Interrupted(w, f) ELSE w
           c1 == r.k \in OpenKinds
           c2 == r.k = "write"
           c3 == r.k = "finish"
           c4 == r.k = "unlink"
           c5 == r.k \in {"link", "rename"}
           c6 == r.k \in LookKinds
           c7 == r.k = "close"
           Good(u) == /\ Inv(u, h, v, e, Y) /\ CutOff(u)
                      /\ \A g \in File : u.item[g].state = "placed" => s.item[g].state = "placed"
<1>1. Fail(s, r) = CASE c1 -> A [] c2 -> B [] c3 -> i [] c4 -> placeEnds(z) [] c5 -> placeEnds(i)
                     [] c6 -> interruptAll(s) [] c7 -> StopEnded(s, f) [] OTHER -> s BY DEF Fail
<1>0. s \in HubShape /\ f \in File /\ Len(s.wire) = 0 /\ s.link = "down" /\ s.backend # "live"
      /\ s.life # "none" /\ s.wire = <<>> BY HubParts, ReqParts DEF Inv, HubInv, CutOff
<1>2. \A K : NoOn(s, f, K) BY <1>0 DEF NoOn
<1>3. \A g \in File : HereInv(s, e, g) BY DEF HereInv
<1> HIDE DEF f
<1>4. ASSUME NEW x, Inv(x, h, v, e, {}) PROVE Inv(x, h, v, e, Y) BY <1>4, Release
<1>5. s.item[f].state # "placed" => Good(i)
 <2> SUFFICES ASSUME s.item[f].state # "placed" PROVE Good(i) OBVIOUS
 <2>1. /\ Inv(i, h, v, e, {})
       /\ \A g \in File : i.item[g].state = "placed" => s.item[g].state = "placed"
       /\ i.backend = "none" /\ i.life = s.life /\ i.link = s.link /\ i.wire = s.wire
   BY <1>0, <1>3, InterruptedStep
 <2> HIDE DEF i
 <2> QED BY <1>0, <1>4, <2>1 DEF CutOff
<1>6. ~Latest(r) => Good(s)
 <2>1. ~Latest(r) => Inv(s, h, v, e, Y) BY Release
 <2> QED BY <2>1
<1>7. c1 => Good(A)
 <2>0. Inv(s, h, v, e, X \cup {f}) /\ f \in X \cup {f} BY Release
 <2>1. /\ Inv(o, h, v, e, X \cup {f}) /\ o.item[f].state = s.item[f].state
       /\ \A g \in File : g # f => o.item[g] = s.item[g]
       /\ o.wire = s.wire /\ o.link = s.link /\ o.backend = s.backend /\ o.life = s.life
  <3>1. CASE r.k \notin {"stat", "clear"} BY <2>0, <3>1
  <3>2. CASE r.k \in {"stat", "clear"}
   <4> DEFINE u == restartFile(s, f)
              it == [s.item[f] EXCEPT !.acked = 0, !.temp = None, !.whole = FALSE]
   <4>1. Inv(u, h, v, e, X \cup {f}) /\ Changes(s, u, f, it) BY <1>0, <1>2, <2>0, RestartStep
   <4>2. it.state = s.item[f].state BY <1>0, HubParts, ItemParts DEF ItemShape
   <4>3. o = u BY <3>2
   <4> HIDE DEF u, it, o
   <4> QED BY <4>1, <4>2, <4>3 DEF Changes, Still
  <3> QED BY <3>1, <3>2
 <2> HIDE DEF o
 <2>2. CASE s.item[f].state = "sending"
  <3> DEFINE j == Interrupted(o, f)
  <3>1. \A g \in File : HereInv(o, e, g) BY DEF HereInv
  <3>2. /\ Inv(j, h, v, e, {})
        /\ \A g \in File : j.item[g].state = "placed" => o.item[g].state = "placed"
        /\ j.backend = "none" /\ j.life = o.life /\ j.link = o.link /\ j.wire = o.wire
    BY <1>0, <2>1, <2>2, <3>1, InterruptedStep
  <3>3. A = j BY <2>2
  <3> HIDE DEF j
  <3>4. Good(j) BY <1>0, <1>4, <2>1, <3>2 DEF CutOff
  <3> QED BY <3>3, <3>4
 <2>3. CASE s.item[f].state # "sending"
  <3>1. \A g \in File : g \in X \cup {f} /\ g \notin Y =>
           SendInv(o, g) /\ HereInv(o, e, g) /\ SinkInv(o, h, g)
    BY <2>1, <2>3 DEF SendInv, SinkInv, HereInv, f
  <3>2. Inv(o, h, v, e, Y) BY <2>1, <3>1, Release
  <3> QED BY <1>0, <2>1, <2>3, <3>2 DEF CutOff
 <2> QED BY <2>2, <2>3
<1>8. c2 => Good(B)
 <2> SUFFICES ASSUME c2 PROVE Good(B) OBVIOUS
 <2>0. ~Latest(r) BY DEF Latest, OpenKinds
 <2>1. Inv(w, h, v, e, X) /\ Changes(s, w, f, [s.item[f] EXCEPT !.writing = FALSE])
   BY <1>0, <1>2, WrittenStep
 <2>2. /\ [s.item[f] EXCEPT !.writing = FALSE].state = s.item[f].state
   BY <1>0, HubParts, ItemParts DEF ItemShape
 <2> HIDE DEF w
 <2>3. /\ w.item[f].state = s.item[f].state /\ \A g \in File : g # f => w.item[g] = s.item[g]
       /\ w.wire = s.wire /\ w.link = s.link /\ w.backend = s.backend /\ w.life = s.life
   BY <2>1, <2>2 DEF Changes, Still
 <2>4. CASE s.item[f].state = "sending"
  <3> DEFINE j == Interrupted(w, f)
  <3>1. \A g \in File : HereInv(w, e, g) BY DEF HereInv
  <3>2. /\ Inv(j, h, v, e, {})
        /\ \A g \in File : j.item[g].state = "placed" => w.item[g].state = "placed"
        /\ j.backend = "none" /\ j.life = w.life /\ j.link = w.link /\ j.wire = w.wire
    BY <1>0, <2>1, <2>3, <2>4, <3>1, InterruptedStep
  <3>3. B = j BY <2>4
  <3> HIDE DEF j
  <3>4. Good(j) BY <1>0, <1>4, <2>3, <3>2 DEF CutOff
  <3> QED BY <3>3, <3>4
 <2>5. CASE s.item[f].state # "sending"
  <3>1. Inv(w, h, v, e, Y) BY <2>0, <2>1, Release
  <3> QED BY <1>0, <2>3, <2>5, <3>1 DEF CutOff
 <2> QED BY <2>4, <2>5
<1>9. ASSUME NEW x, Good(x) PROVE Good(placeEnds(x))
 <2> DEFINE a == settle(x)
 <2>1. x \in HubShape BY <1>9 DEF Inv, HubInv
 <2>2. a \in HubShape /\ Same(x, a) BY <2>1, SettleParts
 <2>3. placeEnds(x) = schedulePump(a) BY DEF placeEnds
 <2> HIDE DEF a
 <2>4. Same(a, placeEnds(x)) BY <2>2, <2>3, SettleParts
 <2>5. Inv(placeEnds(x), h, v, e, Y) BY <1>9, EndsStep
 <2> QED BY <1>9, <2>2, <2>4, <2>5 DEF Same, CutOff
<1>a. Place(r) => Good(i) /\ Good(z)
 <2> SUFFICES ASSUME Place(r) PROVE Good(i) /\ Good(z) OBVIOUS
 <2>1. s.item[f].state # "placed" /\ ~Latest(r) BY DEF f, Place, PlaceKinds, Latest, OpenKinds
 <2>2. Good(i)
  <3> HIDE DEF i, Good
  <3> QED BY <1>5, <2>1
 <2> DEFINE a == [setState(s, f, "failed") EXCEPT !.item[f].sink = None]
            b == restartFile(a, f)
            it == [s.item[f] EXCEPT !.state = "failed", !.sink = None]
            jt == [a.item[f] EXCEPT !.acked = 0, !.temp = None, !.whole = FALSE]
 <2>3. Changes(s, a, f, it) BY <1>0, StopParts DEF State
 <2>b. a \in HubShape BY <2>3 DEF Changes
 <2>4. z = removeTemp(b, f, s.item[f].temp) BY DEF fileFailed
 <2> HIDE DEF a
 <2>5. Changes(a, b, f, jt) BY <1>0, <2>b, RestartParts
 <2> HIDE DEF b
 <2>6. Changes(s, b, f, jt) BY <2>3, <2>5, ChangesTwice
 <2>7. jt.state = "failed"
  <3>1. a.item[f] = it /\ it \in ItemShape /\ it.state = "failed"
    BY <1>0, <2>3, HubParts DEF Changes, ItemShape
  <3> QED BY <3>1 DEF ItemShape
 <2> HIDE DEF jt
 <2>8. CutOff(b) /\ b.backend # "live" /\ b.item[f].state = "failed"
       /\ \A g \in File : g # f => b.item[g] = s.item[g]
   BY <1>0, <2>6, <2>7 DEF CutOff, Changes, Still
 <2>9. z = b BY <2>4, <2>8 DEF removeTemp
 <2> HIDE DEF z
 <2>10. Inv(z, h, v, e, X \ {f}) BY <1>0, <1>2, <1>3, <2>1, FailStep DEF z
 <2>11. Inv(z, h, v, e, Y) BY <2>1, <2>10, Release
 <2>12. Good(z) BY <2>8, <2>9, <2>11
 <2> QED BY <2>2, <2>12
<1>10. Good(interruptAll(s))
 <2> DEFINE u == interruptAll(s)
 <2>1. Inv(u, h, v, e, {}) BY <1>0, <1>3, InterruptAllStep
 <2>2. /\ u.wire = s.wire /\ u.life = s.life /\ u.link = s.link /\ u.backend = "none"
       /\ \A g \in File : g \notin Moving(s) => u.item[g] = s.item[g]
       /\ \A g \in Moving(s) : u.item[g].state = "interrupted" BY <1>0, InterruptParts
 <2> HIDE DEF u
 <2>3. Good(u) BY <1>0, <1>4, <2>1, <2>2 DEF CutOff
 <2> QED BY <2>3 DEF u
<1>11. c7 => Good(StopEnded(s, f))
 <2> SUFFICES ASSUME c7 PROVE Good(StopEnded(s, f)) OBVIOUS
 <2>0. ~Latest(r) BY DEF Latest, OpenKinds
 <2>1. Inv(StopEnded(s, f), h, v, e, X) BY <1>0, <1>2, StopEndedStep
 <2>2. Inv(StopEnded(s, f), h, v, e, Y) BY <2>0, <2>1, Release
 <2>3. StopEnded(s, f) = s \/ (StopEnded(s, f) = restartFile(s, f) /\ s.item[f].state = "cancelled")
  <3> DEFINE u == restartFile(s, f)
  <3>1. Changes(s, u, f, [s.item[f] EXCEPT !.acked = 0, !.temp = None, !.whole = FALSE])
    BY <1>0, RestartParts
  <3>2. u.backend # "live" BY <1>0, <3>1 DEF Changes, Still
  <3>3. removeTemp(u, f, s.item[f].temp) = u
   <4> HIDE DEF u
   <4> QED BY <3>2 DEF removeTemp
  <3> QED BY <3>3 DEF StopEnded
 <2>4. CASE StopEnded(s, f) = s BY <2>2, <2>4
 <2>5. CASE StopEnded(s, f) = restartFile(s, f) /\ s.item[f].state = "cancelled"
  <3> DEFINE u == restartFile(s, f)
             it == [s.item[f] EXCEPT !.acked = 0, !.temp = None, !.whole = FALSE]
  <3>1. Changes(s, u, f, it) BY <1>0, RestartParts
  <3>2. it.state = s.item[f].state BY <1>0, HubParts, ItemParts DEF ItemShape
  <3> HIDE DEF u, it
  <3>3. CutOff(u) /\ u.item[f] = it /\ \A g \in File : g # f => u.item[g] = s.item[g]
    BY <1>0, <3>1 DEF CutOff, Changes, Still
  <3>4. Good(u) BY <2>2, <2>5, <3>2, <3>3 DEF u
  <3> QED BY <2>5, <3>4 DEF u
 <2> QED BY <2>3, <2>4, <2>5
<1>12. (c3 \/ c4 \/ c5 => Place(r)) /\ (~c1 => ~Latest(r)) BY DEF Place, PlaceKinds, Latest
<1>b. Place(r) => Good(i) /\ Good(placeEnds(i)) /\ Good(placeEnds(z))
 <2> HIDE DEF Good, i, z
 <2> QED BY <1>9, <1>a
<1> DEFINE F == Fail(s, r)
<1>13. Good(F)
 <2>1. /\ c1 => ~c2 /\ ~c3 /\ ~c4 /\ ~c5 /\ ~c6 /\ ~c7
       /\ c2 => ~c3 /\ ~c4 /\ ~c5 /\ ~c6 /\ ~c7
       /\ c3 => ~c4 /\ ~c5 /\ ~c6 /\ ~c7
       /\ c4 => ~c5 /\ ~c6 /\ ~c7
       /\ c5 => ~c6 /\ ~c7
       /\ c6 => ~c7 BY DEF OpenKinds, LookKinds
 <2> HIDE DEF c1, c2, c3, c4, c5, c6, c7, A, B, i, z, Good, F
 <2>2. F = CASE c1 -> A [] c2 -> B [] c3 -> i [] c4 -> placeEnds(z) [] c5 -> placeEnds(i)
             [] c6 -> interruptAll(s) [] c7 -> StopEnded(s, f) [] OTHER -> s BY <1>1, Zenon DEF F
 <2>3. CASE c1
  <3>1. F = A BY <2>1, <2>2, <2>3, Zenon
  <3> QED BY <1>7, <2>3, <3>1, Zenon
 <2>4. CASE c2
  <3>1. F = B BY <2>1, <2>2, <2>4, Zenon
  <3> QED BY <1>8, <2>4, <3>1, Zenon
 <2>5. CASE c3
  <3>1. F = i BY <2>1, <2>2, <2>5, Zenon
  <3> QED BY <1>b, <1>12, <2>5, <3>1, Zenon
 <2>6. CASE c4
  <3>1. F = placeEnds(z) BY <2>1, <2>2, <2>6, Zenon
  <3> QED BY <1>b, <1>12, <2>6, <3>1, Zenon
 <2>7. CASE c5
  <3>1. F = placeEnds(i) BY <2>1, <2>2, <2>7, Zenon
  <3> QED BY <1>b, <1>12, <2>7, <3>1, Zenon
 <2>8. CASE c6
  <3>1. F = interruptAll(s) BY <2>1, <2>2, <2>8, Zenon
  <3> QED BY <1>10, <3>1, Zenon
 <2>9. CASE c7
  <3>1. F = StopEnded(s, f) BY <2>1, <2>2, <2>9, Zenon
  <3> QED BY <1>11, <2>9, <3>1, Zenon
 <2>10. CASE ~c1 /\ ~c2 /\ ~c3 /\ ~c4 /\ ~c5 /\ ~c6 /\ ~c7
  <3>1. F = s BY <2>2, <2>10, Zenon
  <3> QED BY <1>6, <1>12, <2>10, <3>1, Zenon
 <2> QED BY <2>3, <2>4, <2>5, <2>6, <2>7, <2>8, <2>9, <2>10, Zenon
<1> HIDE DEF F
<1> QED BY <1>13 DEF F

\* All of them are.
LEMMA FailAllStep ==
  ASSUME NEW s, NEW h, NEW v, NEW e, NEW q \in Seq(ReqShape),
         Inv(s, h, v, e, {f \in File : \E i \in 1..Len(q) : Latest(q[i]) /\ q[i].f = f}),
         e.broken, Len(q) > 0 => CutOff(s),
         \A i \in 1..Len(q) : Place(q[i]) => s.item[q[i].f].state # "placed"
  PROVE  Inv(FailRun(s, q), h, v, e, {}) /\ Counts(s, FailRun(s, q))
<1> DEFINE N == Len(q)
<1>1. N \in Nat /\ \A i \in 1..N : q[i] \in ReqShape /\ q[i].f \in File BY ReqParts
<1>2. PICK a : /\ a[0] = s
               /\ \A n \in 1..N : a[n] = Fail(a[n - 1], q[n])
               /\ FailRun(s, q) = a[N] BY <1>1, FailLoop
<1> HIDE DEF N
<1> DEFINE X(n) == {f \in File : \E i \in 1..N : i > n /\ Latest(q[i]) /\ q[i].f = f}
           L(n) == /\ Inv(a[n], h, v, e, X(n)) /\ (N > 0 => CutOff(a[n])) /\ Counts(s, a[n])
                   /\ \A f \in File : a[n].item[f].state = "placed" => s.item[f].state = "placed"
           S == {n \in 0..N : L(n)}
<1>3. 0 \in S
 <2>1. X(0) = {f \in File : \E i \in 1..Len(q) : Latest(q[i]) /\ q[i].f = f} BY <1>1 DEF N
 <2> HIDE DEF X
 <2>2. L(0) BY <1>2, <2>1, CountsOn DEF N
 <2> HIDE DEF L
 <2> QED BY <1>1, <2>2
<1>4. ASSUME NEW n \in 0..(N - 1), n \in S PROVE n + 1 \in S
 <2> DEFINE b == a[n]
            c == a[n + 1]
            r == q[n + 1]
 <2>1. n \in Nat /\ n + 1 \in 1..N /\ (n + 1) - 1 = n /\ N > 0 /\ r \in ReqShape /\ r.f \in File
   BY <1>1, <1>4
 <2>2. L(n) BY <1>4
 <2>3. c = Fail(b, r) BY <1>2, <2>1
 <2>4. Place(r) => b.item[r.f].state # "placed"
  <3>1. Place(r) => s.item[r.f].state # "placed" BY <2>1 DEF N
  <3> HIDE DEF r
  <3> QED BY <2>1, <2>2, <3>1
 <2>5. \A f \in File : f \in X(n) /\ f \notin X(n + 1) => Latest(r) /\ r.f = f BY <1>1, <2>1
 <2>6. Inv(b, h, v, e, X(n)) /\ CutOff(b) /\ Counts(s, b)
       /\ \A f \in File : b.item[f].state = "placed" => s.item[f].state = "placed" BY <2>1, <2>2
 <2> HIDE DEF b, c, r, X
 <2>7. /\ Inv(c, h, v, e, X(n + 1)) /\ CutOff(c)
       /\ \A f \in File : c.item[f].state = "placed" => b.item[f].state = "placed"
   BY <2>1, <2>3, <2>4, <2>5, <2>6, FailOneStep
 <2>8. Counts(s, c) BY <2>3, <2>6, FailCounts, CountsOn
 <2>9. L(n + 1) BY <2>6, <2>7, <2>8 DEF c
 <2> HIDE DEF L
 <2> QED BY <1>1, <2>1, <2>9
<1>5. N \in S
 <2>1. \A n \in 0..(N - 1) : n \in S => n + 1 \in S BY <1>4
 <2> HIDE DEF S
 <2>2. \A n \in 0..N : n \in S BY <1>1, <1>3, <2>1, UpTo
 <2> QED BY <1>1, <2>2
<1>6. X(N) = {} BY <1>1
<1> HIDE DEF X
<1> QED BY <1>2, <1>5, <1>6

\* The connection goes with nothing interrupted before: what is left of s.
LEMMA LostParts ==
  ASSUME NEW s \in HubShape
  PROVE  LET u == [s EXCEPT !.link = "down", !.wire = <<>>,
                            !.backend = IF @ = "live" THEN "lost" ELSE @]
         IN  /\ u \in HubShape /\ u.link = "down" /\ u.backend # "live" /\ u.wire = <<>>
             /\ u.life = s.life /\ u.source = s.source /\ u.linkDropped = s.linkDropped
             /\ u.named = s.named /\ u.removal = s.removal /\ u.policy = s.policy
             /\ u.item = s.item /\ (s.backend # "none" => u.backend # "none") /\ Counts(s, u)
<1> DEFINE no == <<>>
           b == IF s.backend = "live" THEN "lost" ELSE s.backend
           u == [s EXCEPT !.link = "down", !.wire = no, !.backend = b]
<1>1. no \in Seq(ReqShape) OBVIOUS
<1>2. b \in {"none", "lost"} /\ (s.backend # "none" => b # "none") BY HubParts
<1> HIDE DEF no, b
<1>3. u \in HubShape BY <1>1, <1>2 DEF HubShape
<1>4. /\ u.link = "down" /\ u.backend = b /\ u.wire = no
      /\ u.life = s.life /\ u.source = s.source /\ u.linkDropped = s.linkDropped
      /\ u.named = s.named /\ u.removal = s.removal /\ u.policy = s.policy
      /\ u.item = s.item BY DEF HubShape
<1>5. Counts(s, u) BY DEF Counts
<1>6. u = [s EXCEPT !.link = "down", !.wire = <<>>,
                    !.backend = IF @ = "live" THEN "lost" ELSE @] BY DEF no, b
<1> HIDE DEF u
<1>7. /\ u \in HubShape /\ u.link = "down" /\ u.backend # "live" /\ u.wire = <<>>
      /\ u.life = s.life /\ u.source = s.source /\ u.linkDropped = s.linkDropped
      /\ u.named = s.named /\ u.removal = s.removal /\ u.policy = s.policy
      /\ u.item = s.item /\ (s.backend # "none" => u.backend # "none") /\ Counts(s, u)
  BY <1>2, <1>3, <1>4, <1>5 DEF no
<1> QED BY <1>6, <1>7

\* interruptOn: what moved over the connection is interrupted.
LEMMA PurposeParts ==
  ASSUME NEW s \in HubShape
  PROVE  LET m == {f \in File : s.item[f].state \in {"queued", "sending", "verifying"}}
             u == settle([s EXCEPT
                     !.backend = "none", !.unsaved = @ \cup m, !.dirty = @ \cup m,
                     !.item = [f \in File |->
                                 IF f \in m
                                 THEN [s.item[f] EXCEPT !.state = "interrupted", !.sink = None]
                                 ELSE s.item[f]]])
         IN  /\ u \in HubShape /\ u.wire = s.wire /\ u.link = s.link
             /\ u.life = s.life /\ u.source = s.source /\ u.linkDropped = s.linkDropped
             /\ u.named = s.named /\ u.removal = s.removal /\ u.policy = s.policy
             /\ \A f \in File :
                   \/ u.item[f] = s.item[f]
                   \/ /\ u.item[f].state = "interrupted" /\ u.item[f].sink = None
                      /\ Alike(s.item[f], u.item[f])
                      /\ s.item[f].state \in {"queued", "sending", "verifying"}
             /\ \A f \in File : u.item[f].state # "sending"
             /\ Counts(s, u)
<1> DEFINE m == {f \in File : s.item[f].state \in {"queued", "sending", "verifying"}}
           I == [f \in File |-> IF f \in m
                                THEN [s.item[f] EXCEPT !.state = "interrupted", !.sink = None]
                                ELSE s.item[f]]
           w == [s EXCEPT !.backend = "none", !.unsaved = @ \cup m, !.dirty = @ \cup m, !.item = I]
<1>0. s.item \in [File -> ItemShape] BY HubParts
<1>2. m \subseteq File OBVIOUS
<1>3. I \in [File -> ItemShape]
 <2>1. ASSUME NEW f \in File PROVE I[f] \in ItemShape
  <3>1. s.item[f] \in ItemShape BY <1>0
  <3>2. [s.item[f] EXCEPT !.state = "interrupted", !.sink = None] \in ItemShape
    BY <3>1 DEF ItemShape, State, Unsettled, None
  <3> QED BY <3>1, <3>2
 <2> QED BY <2>1
<1>4. \A f \in File : f \notin m => I[f] = s.item[f] OBVIOUS
<1>5. ASSUME NEW f \in m PROVE I[f].state = "interrupted" /\ I[f].sink = None /\ Alike(s.item[f], I[f])
 <2>1. f \in File /\ s.item[f] \in ItemShape BY <1>0, <1>2
 <2>2. I[f] = [s.item[f] EXCEPT !.state = "interrupted", !.sink = None] BY <2>1
 <2> HIDE DEF I
 <2> QED BY <2>1, <2>2 DEF ItemShape, Alike
<1>6. \A f \in File : f \in m <=> s.item[f].state \in {"queued", "sending", "verifying"} OBVIOUS
<1>u. settle(w) = settle([s EXCEPT
                       !.backend = "none", !.unsaved = @ \cup m, !.dirty = @ \cup m,
                       !.item = [f \in File |->
                                   IF f \in m
                                   THEN [s.item[f] EXCEPT !.state = "interrupted", !.sink = None]
                                   ELSE s.item[f]]]) OBVIOUS
<1> HIDE DEF I, m
<1>7. w \in HubShape BY <1>0, <1>2, <1>3 DEF HubShape
<1>8. /\ w.wire = s.wire /\ w.named = s.named /\ w.life = s.life
      /\ w.source = s.source /\ w.link = s.link /\ w.removal = s.removal
      /\ w.policy = s.policy /\ w.linkDropped = s.linkDropped /\ w.item = I BY <1>0 DEF HubShape
<1>9. Counts(s, w) BY DEF Counts
<1> DEFINE u == settle(w)
<1> HIDE DEF w
<1>10. u \in HubShape /\ Same(w, u) /\ Counts(s, u)
  BY <1>7, <1>9, SettleParts, SmallCounts, CountsOn
<1> HIDE DEF u
<1>11. \A f \in File :
          \/ u.item[f] = s.item[f]
          \/ /\ u.item[f].state = "interrupted" /\ u.item[f].sink = None
             /\ Alike(s.item[f], u.item[f])
             /\ s.item[f].state \in {"queued", "sending", "verifying"}
  BY <1>4, <1>5, <1>6, <1>8, <1>10 DEF Same
<1>12. \A f \in File : u.item[f].state # "sending" BY <1>4, <1>5, <1>6, <1>8, <1>10 DEF Same
<1>13. /\ u \in HubShape /\ u.wire = s.wire /\ u.link = s.link
       /\ u.life = s.life /\ u.source = s.source /\ u.linkDropped = s.linkDropped
       /\ u.named = s.named /\ u.removal = s.removal /\ u.policy = s.policy
       /\ Counts(s, u) BY <1>8, <1>10 DEF Same
<1>14. u = settle([s EXCEPT
                       !.backend = "none", !.unsaved = @ \cup m, !.dirty = @ \cup m,
                       !.item = [f \in File |->
                                   IF f \in m
                                   THEN [s.item[f] EXCEPT !.state = "interrupted", !.sink = None]
                                   ELSE s.item[f]]]) BY <1>u, Zenon DEF u
<1> QED BY <1>11, <1>12, <1>13, <1>14, Zenon DEF m

\* The connection to the host goes.
LEMMA LostAction ==
  ASSUME NEW e, Inv(hub, host, saved, e, {}), hub.named <= MaxTemp,
         NEW yes \in BOOLEAN, Lost(yes)
  PROVE  /\ \E d : Breaks(e, d) /\ Inv(hub', host', saved', d, {})
         /\ Counts(hub, hub') /\ Spared(host, host', e.asked)
<1> DEFINE m == {f \in File : hub.item[f].state \in {"queued", "sending", "verifying"}}
           p == settle([hub EXCEPT
                       !.backend = "none", !.unsaved = @ \cup m, !.dirty = @ \cup m,
                       !.item = [f \in File |->
                                   IF f \in m
                                   THEN [hub.item[f] EXCEPT !.state = "interrupted", !.sink = None]
                                   ELSE hub.item[f]]])
           s == IF yes /\ hub.life = "kept" THEN p ELSE hub
           t == [s EXCEPT !.link = "down", !.wire = <<>>,
                          !.backend = IF @ = "live" THEN "lost" ELSE @]
<1>0. /\ hub \in HubShape /\ hub.wire \in Seq(ReqShape) /\ Len(hub.wire) \in Nat
      /\ \A i \in 1..Len(hub.wire) : hub.wire[i] \in ReqShape BY HubParts DEF Inv, HubInv
<1>1. hub' = Each(Fail, t, hub.wire) /\ saved' = saved BY DEF Lost
<1>2. PICK k \in 0..Len(hub.wire) : host' = DoneSome(k) BY DEF Lost
<1>3. /\ p \in HubShape /\ p.wire = hub.wire /\ p.link = hub.link
      /\ p.life = hub.life /\ p.source = hub.source /\ p.linkDropped = hub.linkDropped
      /\ p.named = hub.named /\ p.removal = hub.removal /\ p.policy = hub.policy
      /\ \A f \in File :
            \/ p.item[f] = hub.item[f]
            \/ /\ p.item[f].state = "interrupted" /\ p.item[f].sink = None
               /\ Alike(hub.item[f], p.item[f])
               /\ hub.item[f].state \in {"queued", "sending", "verifying"}
      /\ \A f \in File : p.item[f].state # "sending"
      /\ Counts(hub, p) BY <1>0, PurposeParts, Zenon
<1> HIDE DEF m, p
<1>4. /\ s \in HubShape /\ s.life = hub.life /\ s.source = hub.source
      /\ s.linkDropped = hub.linkDropped
      /\ s.named = hub.named /\ s.removal = hub.removal /\ s.policy = hub.policy
      /\ \A f \in File :
            \/ s.item[f] = hub.item[f]
            \/ /\ s.item[f].state = "interrupted" /\ s.item[f].sink = None
               /\ Alike(hub.item[f], s.item[f])
               /\ hub.item[f].state \in {"queued", "sending", "verifying"}
      /\ \A f \in File : s.item[f].state = "sending" => s = hub
      /\ Counts(hub, s)
 <2>1. CASE s = p BY <1>3, <2>1
 <2>2. CASE s = hub BY <1>0, <2>2, CountsOn
 <2> QED BY <2>1, <2>2
<1> HIDE DEF s
<1>5. /\ t \in HubShape /\ t.link = "down" /\ t.backend # "live" /\ t.wire = <<>>
      /\ t.life = s.life /\ t.source = s.source /\ t.linkDropped = s.linkDropped
      /\ t.named = s.named /\ t.removal = s.removal /\ t.policy = s.policy
      /\ t.item = s.item /\ (s.backend # "none" => t.backend # "none") /\ Counts(s, t)
  BY <1>4, LostParts
<1> HIDE DEF t
<1>6. hub' = FailRun(t, hub.wire) /\ host' = DoneRun(host, SubSeq(hub.wire, 1, k))
  BY <1>1, <1>2, Zenon DEF FailRun, DoneRun, DoneSome
<1> DEFINE b == [e EXCEPT !.broken = TRUE]
<1>7. Inv(hub, host, saved, b, {}) /\ Breaks(e, b) BY BrokenStep
<1> HIDE DEF b
<1>8. /\ \E d : Like(b, d) /\ HubInv(hub, saved, d, {}) /\ HostInv(hub, host', saved, d, k, {})
      /\ Spared(host, host', b.asked) BY <1>6, <1>7, DoneSomeStep DEF Breaks
<1>9. PICK d : Like(b, d) /\ HubInv(hub, saved, d, {}) /\ HostInv(hub, host', saved, d, k, {})
  BY <1>8
<1>10. d.broken /\ Breaks(e, d) BY <1>7, <1>9 DEF Like, Breaks
<1> DEFINE X == {f \in File : \E i \in 1..Len(hub.wire) : Latest(hub.wire[i]) /\ hub.wire[i].f = f}
<1>11. \A f \in File : LatestOf(hub, f) => f \in X BY DEF LatestOf
<1>12. \A f \in File : t.item[f].state = "sending" => t.backend # "none"
 <2> SUFFICES ASSUME NEW f \in File, t.item[f].state = "sending" PROVE t.backend # "none" OBVIOUS
 <2>1. s = hub BY <1>4, <1>5
 <2>2. ItemInv(hub, saved, d, f) BY <1>9 DEF HubInv
 <2> QED BY <1>5, <2>1, <2>2 DEF ItemInv
<1>13. Inv(t, host', saved, d, X)
 <2> HIDE DEF X
 <2> QED BY <1>4, <1>5, <1>9, <1>10, <1>11, <1>12, CutOffStep
<1>14. Len(hub.wire) > 0 => CutOff(t)
 <2>1. hub.life = "none" => hub.wire = <<>> BY <1>9 DEF HubInv, GlobalInv, Whole
 <2> QED BY <1>4, <1>5, <2>1 DEF CutOff
<1>15. \A i \in 1..Len(hub.wire) : Place(hub.wire[i]) => t.item[hub.wire[i].f].state # "placed"
 <2> SUFFICES ASSUME NEW i \in 1..Len(hub.wire), Place(hub.wire[i])
              PROVE  t.item[hub.wire[i].f].state # "placed" OBVIOUS
 <2> DEFINE r == hub.wire[i]
 <2>1. ReqInv(hub, saved, d, r) /\ r.f \in File BY <1>0, <1>9, ReqParts DEF HubInv
 <2> HIDE DEF r
 <2>2. hub.item[r.f].state # "placed" BY <2>1 DEF ReqInv, PlaceInv, r
 <2>3. t.item[r.f].state # "placed" BY <1>4, <1>5, <2>1, <2>2
 <2> QED BY <2>3 DEF r
<1>16. Inv(FailRun(t, hub.wire), host', saved, d, {}) /\ Counts(t, FailRun(t, hub.wire))
  BY <1>0, <1>10, <1>13, <1>14, <1>15, FailAllStep
<1>17. Counts(hub, hub') BY <1>4, <1>5, <1>6, <1>16, CountsOn
<1>18. Spared(host, host', e.asked) BY <1>7, <1>8 DEF Breaks
<1> QED BY <1>1, <1>6, <1>10, <1>16, <1>17, <1>18

\* A row that is brought back.
LEMMA RestoredParts ==
  ASSUME NEW it \in ItemShape
  PROVE  /\ Restored(it) \in ItemShape /\ Alike(it, Restored(it)) /\ Restored(it).sink = it.sink
         /\ Restored(it).state \notin {"sending", "verifying"}
         /\ \/ Restored(it).state = it.state
            \/ Restored(it).state = "interrupted" /\ it.state \in {"sending", "verifying"}
<1> DEFINE st == IF it.state \in {"sending", "verifying"} THEN "interrupted" ELSE it.state
<1>1. /\ st \in State /\ st \notin {"sending", "verifying"}
      /\ st = it.state \/ (st = "interrupted" /\ it.state \in {"sending", "verifying"})
  BY ItemParts DEF State, Unsettled
<1>2. Restored(it) = [it EXCEPT !.state = st] BY DEF Restored
<1> HIDE DEF st
<1>3. Restored(it) \in ItemShape BY <1>1, <1>2 DEF ItemShape
<1>4. Restored(it).state = st /\ Restored(it).sink = it.sink /\ Alike(it, Restored(it))
  BY <1>2 DEF ItemShape, Alike
<1> QED BY <1>1, <1>3, <1>4

\* The hub starts again from the rows of meta.db.
LEMMA BackStep ==
  ASSUME NEW s, NEW h, NEW v, NEW e, NEW m,
         HubInv(s, v, e, {}), HostInv(s, h, v, e, m, {}), e.broken, s.life # "none",
         NEW u \in HubShape, NEW z \in RowShape,
         \A f \in File : u.item[f] = Restored(v.item[f]) /\ z.item[f] = Restored(v.item[f]),
         u.link = "down", u.backend = "none", u.wire = <<>>, u.source = Nobody, ~u.linkDropped,
         u.named = s.named, u.policy = s.policy, u.removal \subseteq 1..s.named,
         u.life \in {"kept", "gone"}, u.life = "kept" => u.removal = {} /\ z.life = "kept",
         z.life = "kept" => v.life = "kept"
  PROVE  Inv(u, h, z, e, {})
<1>0. s \in HubShape /\ s.named \in Nat /\ Len(u.wire) = 0 /\ v.item \in [File -> ItemShape]
  BY HubParts DEF HubInv, RowShape
<1>2. GlobalInv(u, z, e)
 <2>1. Whole(u, z) BY DEF Whole
 <2> QED BY <2>1 DEF HubInv, GlobalInv
<1>3. ASSUME NEW f \in File
      PROVE  ItemInv(u, z, e, f) /\ Prefix(h, u.item[f]) /\ Prefix(h, z.item[f])
 <2> DEFINE it == v.item[f]
            jt == u.item[f]
 <2>1. ItemInv(s, v, e, f) /\ Prefix(h, it) /\ it \in ItemShape BY <1>0 DEF HubInv, HostInv
 <2>2. jt = Restored(it) /\ z.item[f] = jt OBVIOUS
 <2> HIDE DEF it
 <2>3. /\ jt.state \notin {"sending", "verifying"}
       /\ jt.state = it.state \/ (jt.state = "interrupted" /\ it.state \in {"sending", "verifying"})
       /\ jt.acked = it.acked /\ jt.temp = it.temp /\ jt.whole = it.whole /\ jt.writing = it.writing
       /\ jt.resolution = it.resolution /\ jt.sink = it.sink BY <2>1, <2>2, RestoredParts DEF Alike
 <2>4. it.acked \in Nat /\ it.temp \in Nat BY <2>1, ItemParts
 <2> HIDE DEF jt
 <2>5. WellItem(it) /\ it.sink = None /\ ~it.writing BY <2>1 DEF ItemInv, it
 <2>6. WellItem(jt) BY <2>3, <2>5 DEF WellItem
 <2>7. Named(u, e, f, jt.temp) /\ Named(u, e, f, jt.sink)
  <3>1. Named(s, e, f, it.temp) BY <2>1 DEF ItemInv, it
  <3> QED BY <1>0, <2>3, <2>5, <3>1 DEF Named, None
 <2>8. Prefix(h, jt) BY <2>1, <2>3 DEF Prefix
 <2>9. /\ jt.resolution = "replace" => f \in e.asked
       /\ v.life = "kept" /\ jt.state = "placed" => f \in e.here
  <3>1. /\ it.resolution = "replace" => f \in e.asked
        /\ v.life = "kept" /\ it.state = "placed" => f \in e.here BY <2>1 DEF ItemInv, it
  <3> QED BY <2>3, <3>1
 <2>10. ItemInv(u, z, e, f)
  <3>1. u.item[f] = jt /\ z.item[f] = jt BY <2>2 DEF jt
  <3>2. jt.sink = None /\ ~jt.writing /\ jt.acked <= jt.acked /\ jt.state # "sending"
    BY <2>3, <2>4, <2>5
  <3> QED BY <2>6, <2>7, <2>9, <3>1, <3>2 DEF ItemInv
 <2> QED BY <2>2, <2>8, <2>10 DEF jt
<1>4. OldInv(u) BY <1>0 DEF OldInv
<1>5. ASSUME NEW f \in File PROVE SendInv(u, f) /\ HereInv(u, e, f) /\ SinkInv(u, h, f)
 <2>1. v.item[f] \in ItemShape BY <1>0
 <2>2. u.item[f].state # "sending" BY <2>1, RestoredParts
 <2> QED BY <2>2 DEF SendInv, HereInv, SinkInv
<1>6. HubInv(u, z, e, {})
 <2>1. e \in Env BY DEF HubInv
 <2>2. \A i \in 1..Len(u.wire) : FALSE BY <1>0
 <2> QED BY <1>2, <1>3, <1>4, <1>5, <2>1, <2>2 DEF HubInv
<1>7. HostInv(u, h, z, e, 0, {})
 <2>1. \A i \in 1..Len(u.wire) : FALSE BY <1>0
 <2> QED BY <1>3, <1>5, <2>1 DEF HostInv
<1> QED BY <1>6, <1>7 DEF Inv

\* The hub stops and starts again.
LEMMA RestartAction ==
  ASSUME NEW e, Inv(hub, host, saved, e, {}), hub.named <= MaxTemp,
         NEW quit \in BOOLEAN, HubRestart(quit)
  PROVE  /\ \E d : Breaks(e, d) /\ Inv(hub', host', saved', d, {})
         /\ Counts(hub, hub') /\ Spared(host, host', e.asked)
<1> DEFINE unsaved == hub.unsaved \cup hub.unsavedAcks
           rows == IF quit /\ hub.life = "kept" THEN Rows(hub, unsaved) ELSE saved.item
           s == IF quit /\ hub.life = "kept" THEN [hub EXCEPT !.unsaved = {}, !.unsavedAcks = {}] ELSE hub
           v == IF quit /\ hub.life = "kept" THEN [saved EXCEPT !.item = Rows(hub, unsaved)] ELSE saved
           item == [f \in File |-> Restored(rows[f])]
           over == \A f \in File : item[f].state \notin Unsettled
           life == CASE saved.life = "none" -> "gone"
                     [] saved.life = "discarded" -> "gone"
                     [] over -> "gone"
                     [] OTHER -> "kept"
           kept == IF saved.life = "kept" /\ over THEN "none" ELSE saved.life
           R == IF saved.life # "discarded" THEN {}
                ELSE {rows[f].temp : f \in {g \in File : rows[g].state # "placed"}} \ {None}
           no == <<>>
           q == <<>>
           u == [hub EXCEPT
                  !.life = life, !.item = item, !.source = Nobody,
                  !.backend = "none", !.linkDropped = FALSE, !.queue = q,
                  !.pumpDue = FALSE, !.stale = TRUE, !.doneSaid = FALSE,
                  !.dirty = {}, !.flushDue = FALSE,
                  !.noted = FALSE, !.unsaved = {}, !.unsavedAcks = {},
                  !.link = "down", !.wire = no, !.removal = R]
           z == [life |-> kept, item |-> item]
<1>0. /\ hub \in HubShape /\ hub.unsaved \subseteq File /\ hub.unsavedAcks \subseteq File
      /\ saved \in RowShape /\ hub.named \in Nat BY HubParts DEF Inv, HubInv
<1>1. hub.life # "none" /\ hub' = u /\ saved' = z BY DEF HubRestart, Restored
<1>2. PICK k \in 0..Len(hub.wire) : host' = DoneSome(k) BY DEF HubRestart
<1>3. host' = DoneRun(host, SubSeq(hub.wire, 1, k)) BY <1>2, Zenon DEF DoneRun, DoneSome
<1>4. /\ Inv(s, host, v, e, {}) /\ s.wire = hub.wire /\ s.named = hub.named /\ s.life = hub.life
      /\ s.policy = hub.policy /\ v.item = rows /\ v.life = saved.life
 <2>1. CASE quit /\ hub.life = "kept"
  <3>1. unsaved \in SUBSET File /\ {} \in SUBSET File BY <1>0
  <3>2. v.item = rows /\ v.life = saved.life
   <4> DEFINE I == Rows(hub, unsaved)
   <4> HIDE DEF I
   <4>1. v = [saved EXCEPT !.item = I] /\ rows = I BY <2>1 DEF I
   <4> HIDE DEF v, rows
   <4> QED BY <1>0, <4>1 DEF RowShape
  <3>3. s.wire = hub.wire /\ s.named = hub.named /\ s.life = hub.life /\ s.policy = hub.policy
    BY <1>0, <2>1 DEF HubShape
  <3>4. Inv([hub EXCEPT !.unsaved = {}, !.unsavedAcks = {}], host,
            [saved EXCEPT !.item = Rows(hub, unsaved)], e, {})
   <4> HIDE DEF unsaved
   <4> QED BY <2>1, <3>1, SaveStep
  <3>5. Inv(s, host, v, e, {}) BY <2>1, <3>4
  <3> QED BY <3>2, <3>3, <3>5
 <2>2. CASE ~(quit /\ hub.life = "kept") BY <2>2
 <2> QED BY <2>1, <2>2
<1> HIDE DEF s, v, rows, unsaved
<1> DEFINE b == [e EXCEPT !.broken = TRUE]
<1>5. Inv(s, host, v, b, {}) /\ Breaks(e, b) BY <1>4, BrokenStep
<1> HIDE DEF b
<1>6. /\ \E d : Like(b, d) /\ HubInv(s, v, d, {}) /\ HostInv(s, host', v, d, k, {})
      /\ Spared(host, host', b.asked)
 <2>1. b.broken /\ s.named <= MaxTemp /\ k \in 0..Len(s.wire)
       /\ host' = DoneRun(host, SubSeq(s.wire, 1, k)) BY <1>3, <1>4, <1>5 DEF Breaks
 <2> QED BY <1>5, <2>1, DoneSomeStep
<1>7. PICK d : Like(b, d) /\ HubInv(s, v, d, {}) /\ HostInv(s, host', v, d, k, {}) BY <1>6
<1>8. d.broken /\ Breaks(e, d) BY <1>5, <1>7 DEF Like, Breaks
<1>9. rows \in [File -> ItemShape] /\ \A f \in File : v.item[f] = rows[f]
  BY <1>4, <1>7 DEF HubInv, RowShape
<1>10. item \in [File -> ItemShape] /\ \A f \in File : item[f] = Restored(v.item[f])
 <2>1. \A f \in File : Restored(rows[f]) \in ItemShape BY <1>9, RestoredParts
 <2> QED BY <1>9, <2>1
<1> HIDE DEF item, over
<1>12. /\ life \in {"kept", "gone"}
       /\ life = "kept" => saved.life = "kept" /\ ~over
 <2>1. saved.life \in {"none", "kept", "discarded"} BY <1>0 DEF RowShape
 <2> DEFINE c1 == saved.life = "none"
            c2 == saved.life = "discarded"
 <2>2. life = CASE c1 -> "gone" [] c2 -> "gone" [] over -> "gone" [] OTHER -> "kept" OBVIOUS
 <2> HIDE DEF c1, c2, life
 <2>3. CASE c1 \/ c2 \/ over
  <3>1. life = "gone" BY <2>2, <2>3, Zenon
  <3> QED BY <3>1
 <2>4. CASE ~c1 /\ ~c2 /\ ~over
  <3>1. life = "kept" BY <2>2, <2>4, Zenon
  <3> QED BY <2>1, <2>4, <3>1 DEF c1, c2
 <2> QED BY <2>3, <2>4
<1>13. kept \in {"none", "kept", "discarded"} /\ (kept = "kept" => saved.life = "kept")
       /\ (life = "kept" => kept = "kept")
 <2> HIDE DEF life
 <2> QED BY <1>0, <1>12 DEF RowShape
<1>14. R \subseteq 1..hub.named /\ (life = "kept" => R = {})
 <2>1. ASSUME NEW f \in File, rows[f].temp # None PROVE rows[f].temp \in 1..hub.named
  <3>1. rows[f].temp \in Nat BY <1>9, ItemParts
  <3>2. Named(s, d, f, rows[f].temp) BY <1>7, <1>9 DEF HubInv, ItemInv
  <3> QED BY <1>0, <1>4, <2>1, <3>1, <3>2 DEF Named, None
 <2>2. R \subseteq 1..hub.named BY <2>1
 <2> HIDE DEF life
 <2> QED BY <1>12, <2>2
<1>15. no \in Seq(ReqShape) /\ q \in Seq(File) /\ R \subseteq Nat BY <1>14
<1> HIDE DEF life, kept, R, no, q
<1>16. u \in HubShape BY <1>0, <1>10, <1>12, <1>15 DEF HubShape
<1>17. /\ u.link = "down" /\ u.backend = "none" /\ u.wire = no /\ u.source = Nobody /\ ~u.linkDropped
       /\ u.named = hub.named /\ u.policy = hub.policy /\ u.removal = R /\ u.life = life
       /\ u.item = item BY <1>0 DEF HubShape
<1>18. Counts(hub, u) BY DEF Counts
<1>19. z \in RowShape /\ z.item = item /\ z.life = kept BY <1>10, <1>13 DEF RowShape
<1> HIDE DEF u, z
<1>20. Inv(u, host', z, d, {})
 <2>1. u.wire = <<>> BY <1>17 DEF no
 <2>2. \A f \in File : u.item[f] = Restored(v.item[f]) /\ z.item[f] = Restored(v.item[f])
   BY <1>10, <1>17, <1>19
 <2>3. u.named = s.named /\ u.policy = s.policy /\ u.removal \subseteq 1..s.named
       /\ s.life # "none" BY <1>1, <1>4, <1>14, <1>17
 <2>4. u.life \in {"kept", "gone"} /\ (u.life = "kept" => u.removal = {} /\ z.life = "kept")
       /\ (z.life = "kept" => v.life = "kept") BY <1>4, <1>12, <1>13, <1>14, <1>17, <1>19
 <2> QED BY <1>7, <1>8, <1>16, <1>17, <1>19, <2>1, <2>2, <2>3, <2>4, BackStep
<1>21. Spared(host, host', e.asked) BY <1>5, <1>6 DEF Breaks
<1> QED BY <1>1, <1>8, <1>18, <1>20, <1>21

\* Two records of the hub are the same when their parts are.
LEMMA HubEqual ==
  ASSUME NEW s \in HubShape, NEW u \in HubShape,
         s.life = u.life, s.item = u.item, s.source = u.source, s.backend = u.backend,
         s.linkDropped = u.linkDropped, s.queue = u.queue, s.pumpDue = u.pumpDue,
         s.stale = u.stale, s.doneSaid = u.doneSaid, s.dirty = u.dirty, s.flushDue = u.flushDue,
         s.noted = u.noted, s.unsaved = u.unsaved, s.unsavedAcks = u.unsavedAcks,
         s.link = u.link, s.wire = u.wire, s.named = u.named, s.removal = u.removal,
         s.policy = u.policy
  PROVE  s = u BY DEF HubShape

\* removeDropped is about the wire only.
LEMMA PurgesParts ==
  ASSUME NEW s \in HubShape PROVE removeDropped(s) = [s EXCEPT !.wire = PurgesOn(s.wire, s.removal)]
<1> DEFINE c == {i \in 1..Len(s.wire) : s.wire[i].k \in {"purge"}} # {}
           more == s.wire \o [i \in 1..Len(SetToSeq(s.removal)) |->
                  [k |-> "purge", f |-> CHOOSE f \in File : TRUE, t |-> SetToSeq(s.removal)[i],
                   n |-> 0, old |-> FALSE, w |-> Nobody]]
<1>1. removeDropped(s) = IF c THEN s ELSE [s EXCEPT !.wire = more]
  BY Zenon DEF removeDropped, AskAll, OnWire
<1>2. PurgesOn(s.wire, s.removal) = IF c THEN s.wire ELSE more BY Zenon DEF PurgesOn
<1> HIDE DEF c, more
<1>3. s = [s EXCEPT !.wire = s.wire] BY DEF HubShape
<1>4. CASE c BY <1>1, <1>2, <1>3, <1>4
<1>5. CASE ~c BY <1>1, <1>2, <1>5
<1> QED BY <1>4, <1>5

\* interruptAll is about neither the wire nor the link.
LEMMA InterruptUp ==
  ASSUME NEW s \in HubShape, s.backend # "live", NEW P \in Seq(ReqShape)
  PROVE  LET x == [[s EXCEPT !.link = "up"] EXCEPT !.wire = P]
             u == [[interruptAll(s) EXCEPT !.link = "up"] EXCEPT !.wire = P]
         IN  interruptAll(x) = u
<1> DEFINE y == [s EXCEPT !.link = "up"]
           x == [y EXCEPT !.wire = P]
           j == interruptAll(s)
           k == [j EXCEPT !.link = "up"]
           u == [k EXCEPT !.wire = P]
           I(S) == [f \in File |-> IF f \in {g \in File : S[g].state \in {"sending", "queued"}}
                                   THEN [S[f] EXCEPT !.state = "interrupted", !.sink = None]
                                   ELSE S[f]]
           M(S) == {f \in File : S[f].state \in {"sending", "queued"}}
           Do(a) == [a EXCEPT !.item = I(a.item), !.unsaved = @ \cup M(a.item),
                              !.dirty = @ \cup M(a.item),
                              !.linkDropped = a.linkDropped \/ a.source # Nobody, !.backend = "none"]
<1>1. y \in HubShape BY DEF HubShape
<1>2. /\ y.life = s.life /\ y.item = s.item /\ y.source = s.source /\ y.backend = s.backend
      /\ y.linkDropped = s.linkDropped /\ y.queue = s.queue /\ y.pumpDue = s.pumpDue
      /\ y.stale = s.stale /\ y.doneSaid = s.doneSaid /\ y.dirty = s.dirty /\ y.flushDue = s.flushDue
      /\ y.noted = s.noted /\ y.unsaved = s.unsaved /\ y.unsavedAcks = s.unsavedAcks
      /\ y.link = "up" /\ y.named = s.named /\ y.removal = s.removal /\ y.policy = s.policy
  BY DEF HubShape
<1> HIDE DEF y
<1>3. x \in HubShape BY <1>1 DEF HubShape
<1>4. /\ x.life = y.life /\ x.item = y.item /\ x.source = y.source /\ x.backend = y.backend
      /\ x.linkDropped = y.linkDropped /\ x.queue = y.queue /\ x.pumpDue = y.pumpDue
      /\ x.stale = y.stale /\ x.doneSaid = y.doneSaid /\ x.dirty = y.dirty /\ x.flushDue = y.flushDue
      /\ x.noted = y.noted /\ x.unsaved = y.unsaved /\ x.unsavedAcks = y.unsavedAcks
      /\ x.link = "up" /\ x.wire = P /\ x.named = y.named /\ x.removal = y.removal
      /\ x.policy = y.policy BY <1>1, <1>2 DEF HubShape
<1> HIDE DEF x
<1>5. ASSUME NEW a \in HubShape, a.backend # "live"
      PROVE  /\ interruptAll(a).item = I(a.item) /\ interruptAll(a).unsaved = a.unsaved \cup M(a.item)
             /\ interruptAll(a).dirty = a.dirty \cup M(a.item)
             /\ interruptAll(a).linkDropped = (a.linkDropped \/ a.source # Nobody)
             /\ interruptAll(a).backend = "none" /\ interruptAll(a).life = a.life
             /\ interruptAll(a).source = a.source /\ interruptAll(a).queue = a.queue
             /\ interruptAll(a).pumpDue = a.pumpDue /\ interruptAll(a).stale = a.stale
             /\ interruptAll(a).doneSaid = a.doneSaid /\ interruptAll(a).flushDue = a.flushDue
             /\ interruptAll(a).noted = a.noted /\ interruptAll(a).unsavedAcks = a.unsavedAcks
             /\ interruptAll(a).link = a.link /\ interruptAll(a).wire = a.wire
             /\ interruptAll(a).named = a.named /\ interruptAll(a).removal = a.removal
             /\ interruptAll(a).policy = a.policy /\ interruptAll(a) \in HubShape
 <2>1. interruptAll(a) = Do(a) BY <1>5 DEF interruptAll
 <2>2. interruptAll(a) \in HubShape BY <1>5, InterruptParts
 <2> DEFINE i == I(a.item)
            m == M(a.item)
            l == a.linkDropped \/ a.source # Nobody
            w == [a EXCEPT !.item = i, !.unsaved = @ \cup m, !.dirty = @ \cup m,
                           !.linkDropped = l, !.backend = "none"]
 <2>3. interruptAll(a) = w BY <2>1
 <2> HIDE DEF i, m, l, I, M
 <2>4. /\ w.item = i /\ w.unsaved = a.unsaved \cup m /\ w.dirty = a.dirty \cup m
       /\ w.linkDropped = l
       /\ w.backend = "none" /\ w.life = a.life /\ w.source = a.source /\ w.queue = a.queue
       /\ w.pumpDue = a.pumpDue /\ w.stale = a.stale
       /\ w.doneSaid = a.doneSaid /\ w.flushDue = a.flushDue
       /\ w.noted = a.noted /\ w.unsavedAcks = a.unsavedAcks /\ w.link = a.link /\ w.wire = a.wire
       /\ w.named = a.named /\ w.removal = a.removal /\ w.policy = a.policy BY DEF HubShape
 <2> HIDE DEF w
 <2> QED BY <2>2, <2>3, <2>4 DEF i, m, l
<1> HIDE DEF I, M
<1>6. j \in HubShape BY <1>5
<1>7. k \in HubShape
 <2> HIDE DEF j
 <2> QED BY <1>6 DEF HubShape
<1>8. /\ k.life = j.life /\ k.item = j.item /\ k.source = j.source /\ k.backend = j.backend
      /\ k.linkDropped = j.linkDropped /\ k.queue = j.queue /\ k.pumpDue = j.pumpDue
      /\ k.stale = j.stale /\ k.doneSaid = j.doneSaid /\ k.dirty = j.dirty /\ k.flushDue = j.flushDue
      /\ k.noted = j.noted /\ k.unsaved = j.unsaved /\ k.unsavedAcks = j.unsavedAcks
      /\ k.link = "up" /\ k.named = j.named /\ k.removal = j.removal /\ k.policy = j.policy
 <2> HIDE DEF j
 <2> QED BY <1>6 DEF HubShape
<1> HIDE DEF k
<1>9. u \in HubShape BY <1>7 DEF HubShape
<1>10. /\ u.life = k.life /\ u.item = k.item /\ u.source = k.source /\ u.backend = k.backend
       /\ u.linkDropped = k.linkDropped /\ u.queue = k.queue /\ u.pumpDue = k.pumpDue
       /\ u.stale = k.stale /\ u.doneSaid = k.doneSaid /\ u.dirty = k.dirty /\ u.flushDue = k.flushDue
       /\ u.noted = k.noted /\ u.unsaved = k.unsaved /\ u.unsavedAcks = k.unsavedAcks
       /\ u.link = "up" /\ u.wire = P /\ u.named = k.named /\ u.removal = k.removal
       /\ u.policy = k.policy BY <1>7, <1>8 DEF HubShape
<1> HIDE DEF u
<1> DEFINE z == interruptAll(x)
<1>11. /\ z.life = u.life /\ z.item = u.item /\ z.source = u.source /\ z.backend = u.backend
       /\ z.linkDropped = u.linkDropped /\ z.queue = u.queue /\ z.pumpDue = u.pumpDue
       /\ z.stale = u.stale /\ z.doneSaid = u.doneSaid /\ z.dirty = u.dirty /\ z.flushDue = u.flushDue
       /\ z.noted = u.noted /\ z.unsaved = u.unsaved /\ z.unsavedAcks = u.unsavedAcks
       /\ z.link = u.link /\ z.wire = u.wire /\ z.named = u.named /\ z.removal = u.removal
       /\ z.policy = u.policy /\ z \in HubShape
 <2>1. x.backend # "live" BY <1>2, <1>4
 <2>2. /\ z.item = I(x.item) /\ z.unsaved = x.unsaved \cup M(x.item)
       /\ z.dirty = x.dirty \cup M(x.item)
       /\ z.linkDropped = (x.linkDropped \/ x.source # Nobody)
       /\ z.backend = "none" /\ z.life = x.life /\ z.source = x.source /\ z.queue = x.queue
       /\ z.pumpDue = x.pumpDue /\ z.stale = x.stale
       /\ z.doneSaid = x.doneSaid /\ z.flushDue = x.flushDue
       /\ z.noted = x.noted /\ z.unsavedAcks = x.unsavedAcks /\ z.link = x.link /\ z.wire = x.wire
       /\ z.named = x.named /\ z.removal = x.removal
       /\ z.policy = x.policy /\ z \in HubShape BY <1>3, <1>5, <2>1
 <2>3. /\ j.item = I(s.item) /\ j.unsaved = s.unsaved \cup M(s.item)
       /\ j.dirty = s.dirty \cup M(s.item)
       /\ j.linkDropped = (s.linkDropped \/ s.source # Nobody)
       /\ j.backend = "none" /\ j.life = s.life /\ j.source = s.source /\ j.queue = s.queue
       /\ j.pumpDue = s.pumpDue /\ j.stale = s.stale
       /\ j.doneSaid = s.doneSaid /\ j.flushDue = s.flushDue
       /\ j.noted = s.noted /\ j.unsavedAcks = s.unsavedAcks
       /\ j.named = s.named /\ j.removal = s.removal /\ j.policy = s.policy BY <1>5
 <2> HIDE DEF z, j
 <2> QED BY <1>2, <1>4, <1>8, <1>10, <2>2, <2>3
<1> HIDE DEF z
<1>12. z = u BY <1>9, <1>11, HubEqual
<1> QED BY <1>12 DEF z, u, x, y, k

\* takeUp forgets that the link had dropped.
LEMMA TakeUpAgain ==
  ASSUME NEW s \in HubShape, NEW w PROVE takeUp(s, w) = takeUp([s EXCEPT !.linkDropped = FALSE], w)
<1> DEFINE a == [s EXCEPT !.linkDropped = FALSE]
           Up(b, I) ==
              LET kept == {f \in File : /\ I[f].temp # None
                                        /\ I[f].state \in AskAgain \cup {"queued", "conflict"}}
                  order == SetToSeq(kept)
              IN  IF kept = {} THEN tookUp(b, w)
                  ELSE AskAll(b, [i \in 1..Len(order) |->
                                    [k |-> "look", f |-> order[i], t |-> I[order[i]].temp,
                                     n |-> 0, old |-> FALSE, w |-> w]])
<1>1. takeUp(s, w) = Up(backendOf(a), s.item) BY Zenon DEF takeUp
<1>2. takeUp(a, w) = Up(backendOf([a EXCEPT !.linkDropped = FALSE]), a.item) BY Zenon DEF takeUp
<1>3. a.item = s.item /\ [a EXCEPT !.linkDropped = FALSE] = a BY DEF HubShape
<1> HIDE DEF Up, a
<1>4. takeUp(s, w) = takeUp(a, w) BY <1>1, <1>2, <1>3
<1> QED BY <1>4 DEF a

\* The link is up again, with nothing being sent.
LEMMA UpStep ==
  ASSUME NEW s, NEW h, NEW v, NEW e, Inv(s, h, v, e, {}), s.link = "down", NEW u \in HubShape,
         \A f \in File : s.item[f].state # "sending",
         u.life = s.life, u.source = s.source, u.link = "up", u.named = s.named,
         u.removal = s.removal, u.policy = s.policy, u.item = s.item, u.wire = s.wire,
         u.backend = s.backend, u.linkDropped => s.linkDropped,
         ~(u.linkDropped /\ u.source # Nobody /\ u.life = "kept")
  PROVE  /\ Inv(u, h, v, e, {})
         /\ \A i \in 1..Len(u.wire) : ~LookAt(u.wire[i]) /\ ~Open(u.wire[i])
<1>0. s \in HubShape /\ \A i \in 1..Len(s.wire) : s.wire[i] \in ReqShape /\ s.wire[i].f \in File
  BY HubParts, ReqParts DEF Inv, HubInv
<1>1. GlobalInv(u, v, e) BY DEF Inv, HubInv, GlobalInv, Whole
<1>2. ASSUME NEW f \in File PROVE ItemInv(u, v, e, f) /\ Prefix(h, u.item[f])
 <2>1. ItemInv(s, v, e, f) /\ Prefix(h, s.item[f]) BY DEF Inv, HubInv, HostInv
 <2> QED BY <2>1 DEF ItemInv, Named
<1>3. ASSUME NEW i \in 1..Len(s.wire)
      PROVE  /\ s.wire[i].k = "close" /\ ~Open(s.wire[i]) /\ ~LookAt(s.wire[i])
             /\ ReqInv(u, v, e, s.wire[i]) /\ ReqHost(u, h, s.wire[i])
 <2> DEFINE r == s.wire[i]
 <2>1. ReqInv(s, v, e, r) /\ r.f \in File BY <1>0 DEF Inv, HubInv
 <2> HIDE DEF r
 <2>2. r.k = "close" BY <2>1 DEF ReqInv
 <2>3. ~Open(r) /\ ~LookAt(r) /\ ~Place(r)
   BY <2>2 DEF Open, LookAt, Place, OpenKinds, LookKinds, PlaceKinds
 <2>5. CutInv(u, v, r) /\ CreateInv(u, v, r) /\ PlaceInv(u, e, r) /\ WriteInv(u, r)
       /\ LookInv(u, r) /\ OpenInv(u, r)
   BY <2>2, <2>3 DEF CutInv, CreateInv, PlaceInv, WriteInv, LookInv, OpenInv
 <2>6. ReqInv(u, v, e, r) BY <2>1, <2>2, <2>5 DEF ReqInv
 <2>7. ReqHost(u, h, r) BY <2>2, <2>3 DEF ReqHost
 <2> QED BY <2>2, <2>3, <2>6, <2>7 DEF r
<1>4. ASSUME NEW i \in 1..Len(s.wire), NEW j \in 1..Len(s.wire), i < j
      PROVE  PairNow(u, s.wire[i], s.wire[j])
 <2>1. s.wire[i].k = "close" BY <1>3
 <2> QED BY <2>1 DEF PairNow, Latest, OpenKinds, LookAt, LookKinds
<1>5. ASSUME NEW f \in File \ {} PROVE SendInv(u, f) /\ HereInv(u, e, f) /\ SinkInv(u, h, f)
 <2>1. HereInv(s, e, f) BY DEF Inv, HubInv
 <2> QED BY <2>1 DEF SendInv, SinkInv, HereInv
<1>6. Inv(u, h, v, e, {}) BY <1>1, <1>2, <1>3, <1>4, <1>5, WireKept
<1> QED BY <1>3, <1>6

\* The host is connected again.
LEMMA ReconnectAction ==
  ASSUME NEW e, Inv(hub, host, saved, e, {}), Reconnect
  PROVE  Inv(hub', host', saved', e, {}) /\ Counts(hub, hub')
<1> DEFINE P == PurgesOn(hub.wire, hub.removal)
           x == [hub EXCEPT !.link = "up"]
           s == [x EXCEPT !.wire = P]
           c == hub.backend = "lost" /\ hub.source # Nobody
           j == IF c THEN interruptAll(hub) ELSE hub
           y == [j EXCEPT !.link = "up"]
           i == [y EXCEPT !.wire = P]
           back == i.life = "kept" /\ i.source # Nobody /\ i.linkDropped
<1>0. hub \in HubShape /\ hub.wire \in Seq(ReqShape) /\ hub.link = "down"
      /\ Whole(hub, saved) /\ hub.named \in Nat /\ hub.source \in Window \cup {Nobody}
  BY HubParts DEF Inv, HubInv, GlobalInv, Reconnect
<1>1. x \in HubShape /\ x.wire = hub.wire /\ x.removal = hub.removal /\ x.backend = hub.backend
      /\ x.source = hub.source /\ x.named = hub.named BY <1>0 DEF HubShape
<1>2. removeDropped(x) = s /\ s \in HubShape /\ P \in Seq(ReqShape)
 <2>1. removeDropped(x) = s
  <3> HIDE DEF x
  <3>1. removeDropped(x) = [x EXCEPT !.wire = PurgesOn(x.wire, x.removal)] BY <1>1, PurgesParts
  <3> QED BY <1>1, <3>1
 <2>2. removeDropped(x) \in HubShape
  <3> HIDE DEF x
  <3>1. x.removal \subseteq 1..x.named BY <1>0, <1>1 DEF Whole
  <3> QED BY <1>1, <3>1, RemoveDroppedStep
 <2>3. s.wire = P
  <3> HIDE DEF x, P
  <3> QED BY <1>1 DEF HubShape
 <2> HIDE DEF s
 <2>4. s.wire \in Seq(ReqShape) BY <2>1, <2>2, HubParts
 <2> QED BY <2>1, <2>2, <2>3, <2>4
<1>3. s.backend = hub.backend /\ s.source = hub.source
 <2> HIDE DEF x, P
 <2> QED BY <1>1 DEF HubShape
<1>4. (IF s.backend = "lost" /\ s.source # Nobody THEN interruptAll(s) ELSE s) = i
 <2>1. CASE c
  <3>1. interruptAll([[hub EXCEPT !.link = "up"] EXCEPT !.wire = P])
           = [[interruptAll(hub) EXCEPT !.link = "up"] EXCEPT !.wire = P]
   <4> HIDE DEF P
   <4>1. hub.backend # "live" BY <2>1
   <4> QED BY <1>0, <1>2, <4>1, InterruptUp
  <3>2. i = [[interruptAll(hub) EXCEPT !.link = "up"] EXCEPT !.wire = P] BY <2>1
  <3> HIDE DEF i, P
  <3> QED BY <1>3, <2>1, <3>1, <3>2
 <2>2. CASE ~c
  <3>1. i = s BY <2>2
  <3> HIDE DEF i, s
  <3> QED BY <1>3, <2>2, <3>1
 <2> QED BY <2>1, <2>2
<1>5. /\ hub' = IF back THEN takeUp(i, i.source) ELSE i
      /\ saved' = [saved EXCEPT !.life = IF @ = "discarded" /\ hub.removal = {} THEN "none" ELSE @]
      /\ host' = host
 <2>1. hub' = LET a == removeDropped(x)
                  b == IF a.backend = "lost" /\ a.source # Nobody THEN interruptAll(a) ELSE a
              IN  IF b.life = "kept" /\ b.source # Nobody /\ b.linkDropped
                  THEN takeUp(b, b.source) ELSE b BY Zenon DEF Reconnect
 <2>2. /\ saved' = [saved EXCEPT !.life = IF @ = "discarded" /\ hub.removal = {} THEN "none" ELSE @]
       /\ host' = host BY DEF Reconnect
 <2> HIDE DEF x, s, i
 <2>3. hub' = IF back THEN takeUp(i, i.source) ELSE i BY <1>2, <1>4, <2>1
 <2> QED BY <2>2, <2>3
<1>6. /\ Inv(j, host, saved, e, {}) /\ j.life = hub.life /\ j.source = hub.source
      /\ j.link = "down" /\ j.wire = hub.wire /\ j.removal = hub.removal /\ j.named = hub.named
      /\ \A f \in File : j.item[f].state # "sending"
 <2>1. CASE c
  <3>0. hub.backend # "live" BY <2>1
  <3>1. /\ Inv(interruptAll(hub), host, saved, e, {})
        /\ \A f \in File : interruptAll(hub).item[f].state \notin {"sending", "queued"}
    BY <1>0, <3>0, InterruptAllStep
  <3>2. LET u == interruptAll(hub)
        IN  /\ u.wire = hub.wire /\ u.named = hub.named /\ u.life = hub.life
            /\ u.source = hub.source /\ u.link = hub.link /\ u.removal = hub.removal
    BY <1>0, <3>0, InterruptParts
  <3> QED BY <1>0, <2>1, <3>1, <3>2
 <2>2. CASE ~c
  <3>1. ASSUME NEW f \in File PROVE hub.item[f].state # "sending"
   <4>1. ItemInv(hub, saved, e, f) /\ hub.backend \in {"none", "live", "lost"}
     BY <1>0, HubParts DEF Inv, HubInv
   <4> QED BY <1>0, <2>2, <4>1 DEF ItemInv, Whole
  <3> QED BY <1>0, <2>2, <3>1
 <2> QED BY <2>1, <2>2
<1>7. Counts(hub, j) BY SmallCounts, CountsOn
<1> HIDE DEF j
<1>8. j \in HubShape BY <1>6 DEF Inv, HubInv
<1>9. /\ y \in HubShape /\ y.life = j.life /\ y.source = j.source /\ y.link = "up"
      /\ y.named = j.named /\ y.removal = j.removal /\ y.policy = j.policy /\ y.item = j.item
      /\ y.wire = j.wire /\ y.backend = j.backend /\ y.linkDropped = j.linkDropped
  BY <1>8 DEF HubShape
<1>10. Counts(j, y) BY DEF Counts
<1> HIDE DEF y
<1>11. /\ i \in HubShape /\ i.life = y.life /\ i.source = y.source /\ i.link = "up"
       /\ i.linkDropped = y.linkDropped /\ i.wire = P /\ i.item = y.item
 <2> HIDE DEF P
 <2> QED BY <1>2, <1>9 DEF HubShape
<1>12. Counts(hub, i)
 <2>1. Counts(y, i) BY DEF Counts
 <2> HIDE DEF i
 <2> QED BY <1>7, <1>10, <2>1, CountsOn
<1>13. Counts(hub, hub')
 <2>1. Counts(i, takeUp(i, i.source))
  <3> HIDE DEF i
  <3> QED BY TakeUpCounts
 <2> HIDE DEF i
 <2> QED BY <1>5, <1>12, <2>1, CountsOn
<1>14. i = removeDropped(y)
 <2>1. removeDropped(y) = [y EXCEPT !.wire = PurgesOn(y.wire, y.removal)] BY <1>9, PurgesParts
 <2>2. y.wire = hub.wire /\ y.removal = hub.removal BY <1>6, <1>9
 <2> QED BY <2>1, <2>2
<1> HIDE DEF i
<1>15. y.removal \subseteq 1..y.named /\ (y.life # "gone" => y.removal = {})
  BY <1>0, <1>6, <1>9 DEF Whole
<1>16. y.life # "gone" => i = y BY <1>9, <1>14, <1>15, RemoveDroppedStep
<1>17. CASE back
 <2>1. hub.life = "kept" /\ i = y /\ y.life = "kept" /\ y.source # Nobody /\ y.linkDropped
   BY <1>6, <1>9, <1>11, <1>16, <1>17
 <2> DEFINE u == [y EXCEPT !.linkDropped = FALSE]
 <2>2. /\ u \in HubShape /\ u.life = y.life /\ u.source = y.source /\ u.link = "up"
       /\ u.named = y.named /\ u.removal = y.removal /\ u.policy = y.policy /\ u.item = y.item
       /\ u.wire = y.wire /\ u.backend = y.backend /\ ~u.linkDropped BY <1>9 DEF HubShape
 <2>3. hub' = takeUp(u, y.source)
  <3>1. takeUp(y, y.source) = takeUp(u, y.source) BY <1>9, TakeUpAgain
  <3> QED BY <1>5, <1>17, <2>1, <3>1
 <2> HIDE DEF u
 <2>4. /\ Inv(u, host, saved, e, {})
       /\ \A n \in 1..Len(u.wire) : ~LookAt(u.wire[n]) /\ ~Open(u.wire[n])
   BY <1>6, <1>9, <2>2, UpStep
 <2>5. \A f \in File : u.item[f].state = "queued" => u.item[f].temp = None
  <3> SUFFICES ASSUME NEW f \in File, u.item[f].state = "queued" PROVE u.item[f].temp = None OBVIOUS
  <3>1. ItemInv(j, saved, e, f) BY <1>6 DEF Inv, HubInv
  <3> QED BY <1>9, <2>1, <2>2, <3>1 DEF ItemInv
 <2>6. y.source \in Window BY <1>0, <1>6, <1>9, <2>1
 <2>7. Inv(takeUp(u, y.source), host, saved, e, {}) BY <2>1, <2>2, <2>4, <2>5, <2>6, TakeUpStep
 <2>8. saved' = saved
  <3>1. saved.life = "kept" /\ saved \in RowShape BY <1>0, <2>1 DEF Whole, Inv, HubInv
  <3> QED BY <1>5, <3>1 DEF RowShape
 <2> QED BY <1>5, <1>13, <2>3, <2>7, <2>8
<1>18. CASE ~back
 <2>1. hub' = i BY <1>5, <1>18
 <2>2. Inv(y, host, saved, e, {})
  <3>1. ~(y.linkDropped /\ y.source # Nobody /\ y.life = "kept") BY <1>11, <1>18
  <3> QED BY <1>6, <1>9, <3>1, UpStep
 <2>3. Inv(i, host, saved, e, {})
  <3>1. CASE y.life = "gone" BY <1>9, <1>14, <1>15, <2>2, <3>1, RemoveDroppedStep
  <3>2. CASE y.life # "gone" BY <1>16, <2>2, <3>2
  <3> QED BY <3>1, <3>2
 <2>4. saved \in RowShape BY DEF Inv, HubInv
 <2>5. CASE saved.life = "discarded" /\ hub.removal = {}
  <3>1. saved' = [saved EXCEPT !.life = "none"] BY <1>5, <2>5
  <3>2. i.life # "kept" BY <2>3, <2>5 DEF Inv, HubInv, GlobalInv, Whole
  <3>3. i.removal = {}
   <4>1. y.removal = {} BY <1>6, <1>9, <2>5
   <4>2. i = y BY <1>9, <1>14, <1>15, <4>1, RemoveDroppedStep
   <4> QED BY <4>1, <4>2
  <3> DEFINE u == [i EXCEPT !.removal = {}]
  <3>4. Inv(u, host, [saved EXCEPT !.life = "none"], e, {})
   <4>1. {} \in SUBSET (1..i.named) OBVIOUS
   <4> QED BY <2>3, <3>2, <4>1, RecordStep
  <3>5. u = i BY <1>11, <3>3 DEF HubShape
  <3> QED BY <1>5, <1>13, <2>1, <3>1, <3>4, <3>5
 <2>6. CASE ~(saved.life = "discarded" /\ hub.removal = {})
  <3>1. saved' = saved BY <1>5, <2>4, <2>6 DEF RowShape
  <3> QED BY <1>5, <1>13, <2>1, <2>3, <3>1
 <2> QED BY <2>5, <2>6
<1> QED BY <1>17, <1>18

------------------------------
\* The specification.

\* The invariant holds before anything is uploaded.
LEMMA UploadInit == Init => UploadInv
<1> SUFFICES ASSUME Init PROVE UploadInv OBVIOUS
<1> DEFINE g == CHOOSE f \in File : TRUE
           e == [own |-> [n \in Nat |-> g], here |-> {}, asked |-> {}, broken |-> FALSE]
           no == <<>>
           q == <<>>
           items == [f \in File |-> NewItem]
<1>0. MaxTemp \in Nat /\ g \in File BY ConstantsAssumption
<1> HIDE DEF g
<1>1. e \in Env /\ e.here = {} /\ e.asked = {} /\ ~e.broken BY <1>0 DEF Env
<1> HIDE DEF e
<1>2. items \in [File -> ItemShape] /\ \A f \in File : items[f] = NewItem BY NewParts
<1>3. no \in Seq(ReqShape) /\ Len(no) = 0 /\ q \in Seq(File) OBVIOUS
<1>4. /\ hub = [life |-> "none", item |-> items,
              source |-> Nobody, backend |-> "none", linkDropped |-> FALSE,
              queue |-> q, pumpDue |-> FALSE, stale |-> FALSE,
              doneSaid |-> FALSE, dirty |-> {}, flushDue |-> FALSE, noted |-> FALSE, unsaved |-> {},
              unsavedAcks |-> {}, link |-> "up", wire |-> no,
              named |-> 0, removal |-> {}, policy |-> "ask"]
      /\ saved = [life |-> "none", item |-> items]
      /\ asked = {} /\ count = [faults |-> 0, seen |-> {}, asks |-> 0] BY DEF Init
<1>5. /\ host.linked = {} /\ host.bytes = [t \in Temp |-> {}]
      /\ host.target \in [File -> {"free", "theirs"}] /\ host.copies = [f \in File |-> 0]
      /\ host.placed = [f \in File |-> {}] /\ host \in HostShape
 <2>1. host \in [linked : {{}}, bytes : {[t \in Temp |-> {}]},
                target : [File -> {"free", "theirs"}],
                copies : {[f \in File |-> 0]},
                placed : {[f \in File |-> {}]}] BY DEF Init
 <2>2. {} \in SUBSET Temp /\ [t \in Temp |-> {}] \in [Temp -> SUBSET Chunks]
       /\ [f \in File |-> 0] \in [File -> Nat]
       /\ [f \in File |-> {}] \in [File -> SUBSET SUBSET Chunks] OBVIOUS
 <2>3. \A T \in [File -> {"free", "theirs"}] : T \in [File -> {"free", "theirs", "ours"}] OBVIOUS
 <2>4. /\ host.linked = {} /\ host.bytes = [t \in Temp |-> {}]
       /\ host.target \in [File -> {"free", "theirs"}] /\ host.copies = [f \in File |-> 0]
       /\ host.placed = [f \in File |-> {}]
       /\ host = [linked |-> host.linked, bytes |-> host.bytes, target |-> host.target,
                  copies |-> host.copies, placed |-> host.placed] BY <2>1
 <2> QED BY <2>2, <2>3, <2>4 DEF HostShape
<1> HIDE DEF items, no, q
<1>6. hub \in HubShape BY <1>2, <1>3, <1>4 DEF HubShape
<1>7. saved \in RowShape BY <1>2, <1>4 DEF RowShape
<1>8. /\ hub.life = "none" /\ hub.item = items /\ hub.source = Nobody /\ hub.backend = "none"
      /\ ~hub.linkDropped /\ hub.link = "up" /\ hub.wire = no /\ hub.named = 0 /\ hub.removal = {}
      /\ saved.life = "none" /\ saved.item = items BY <1>4
<1>9. GlobalInv(hub, saved, e) BY <1>1, <1>8 DEF GlobalInv, Whole, no
<1>10. ASSUME NEW f \in File
       PROVE  /\ ItemInv(hub, saved, e, f) /\ Prefix(host, hub.item[f])
              /\ Prefix(host, saved.item[f])
              /\ SendInv(hub, f) /\ HereInv(hub, e, f) /\ SinkInv(hub, host, f)
 <2> DEFINE it == hub.item[f]
 <2>1. /\ saved.item[f] = it /\ it.state = "queued" /\ it.acked = 0 /\ it.temp = None
       /\ ~it.whole /\ it.resolution = "none" /\ it.sink = None /\ ~it.writing
   BY <1>2, <1>8, NewParts
 <2>2. Size \in Nat BY ConstantsAssumption
 <2>3. WellItem(it) /\ Named(hub, e, f, None) BY <1>8, <2>1, <2>2 DEF WellItem, Named, None
 <2>4. ItemInv(hub, saved, e, f) BY <1>8, <2>1, <2>3 DEF ItemInv
 <2>5. Prefix(host, it) BY <1>5 DEF Prefix
 <2> QED BY <1>8, <2>1, <2>4, <2>5 DEF SendInv, HereInv, SinkInv
<1>11. \A i \in 1..Len(hub.wire) : FALSE BY <1>3, <1>8
<1>12. HubInv(hub, saved, e, {}) BY <1>1, <1>6, <1>7, <1>9, <1>10, <1>11 DEF HubInv, OldInv
<1>13. HostInv(hub, host, saved, e, 0, {})
 <2>1. \A f \in File : host.placed[f] = {} BY <1>5
 <2> QED BY <1>1, <1>5, <1>10, <1>11, <2>1 DEF HostInv
<1>14. Agreed(e) BY <1>1, <1>4, <1>12, <1>13 DEF Agreed, Inv, Broken
<1>15. Counted
 <2>1. writers = Window /\ again = [f \in File |-> 0] BY DEF Init
 <2> QED BY <1>4, <2>1 DEF Counted
<1> QED BY <1>0, <1>8, <1>14, <1>15 DEF UploadInv

\* Nobody else's file goes by an answer, unless somebody said so.
LEMMA AnsweredSpares ==
  ASSUME NEW e, Inv(hub, host, saved, e, {}), Answered PROVE Spared(host, host', e.asked)
<1> DEFINE r == Head(hub.wire)
<1>1. hub.wire # <<>> /\ host' = Done(host, r) BY AnsweredParts
<1>2. r \in ReqShape /\ ReqInv(hub, saved, e, r)
 <2>1. hub.wire \in Seq(ReqShape) BY HubParts DEF Inv, HubInv
 <2>2. r = hub.wire[1] /\ 1 \in 1..Len(hub.wire) BY <1>1, <2>1
 <2> QED BY <2>1, <2>2 DEF Inv, HubInv
<1>3. host \in HostShape BY DEF Inv, HostInv
<1> HIDE DEF r
<1> SUFFICES ASSUME NEW f \in File, host.target[f] = "theirs", host'.target[f] # "theirs"
             PROVE  f \in e.asked BY DEF Spared
<1>4. r.k = "rename" /\ r.f = f BY <1>1, <1>2, <1>3, TargetKept
<1> QED BY <1>2, <1>4 DEF ReqInv, PlaceInv, Place, PlaceKinds

\* What is counted, and what is known to have happened.
LEMMA CountParts ==
  ASSUME Counted
  PROVE  LET C == [faults : Nat, seen : SUBSET Seen, asks : Nat]
         IN  /\ Asks => count' \in C /\ count'.seen = count.seen
             /\ \A kind \in Seen :
                   Fault(kind) => count' \in C /\ count'.seen = count.seen \cup {kind}
             /\ \A done \in BOOLEAN :
                   AsksAgain(done) \/ Overlaps(done) => count' \in C /\ count'.seen = Marks(done)
<1> DEFINE C == [faults : Nat, seen : SUBSET Seen, asks : Nat]
<1>0. count \in C /\ count.seen \in SUBSET Seen BY DEF Counted
<1>1. ASSUME NEW n \in Nat, NEW S \in SUBSET Seen
      PROVE  /\ count' = [count EXCEPT !.asks = n, !.seen = S] => count' \in C /\ count'.seen = S
             /\ count' = [count EXCEPT !.faults = n, !.seen = S] => count' \in C /\ count'.seen = S
             /\ count' = [count EXCEPT !.seen = S] => count' \in C /\ count'.seen = S
             /\ count' = [count EXCEPT !.asks = n] => count' \in C /\ count'.seen = count.seen
  BY <1>0
<1>2. count.asks + 1 \in Nat /\ count.faults + 1 \in Nat BY <1>0
<1> HIDE DEF C
<1>3. Asks => count' \in C /\ count'.seen = count.seen
 <2>1. Asks => count' = [count EXCEPT !.asks = count.asks + 1] BY DEF Asks
 <2> QED BY <1>0, <1>1, <1>2, <2>1
<1>4. ASSUME NEW kind \in Seen, Fault(kind) PROVE count' \in C /\ count'.seen = count.seen \cup {kind}
 <2>1. count' = [count EXCEPT !.faults = count.faults + 1, !.seen = count.seen \cup {kind}]
   BY <1>4 DEF Fault
 <2>2. count.seen \cup {kind} \in SUBSET Seen BY <1>0
 <2> QED BY <1>1, <1>2, <2>1, <2>2
<1>5. ASSUME NEW done \in BOOLEAN, AsksAgain(done) \/ Overlaps(done)
      PROVE  count' \in C /\ count'.seen = Marks(done)
 <2>1. \/ count' = [count EXCEPT !.asks = count.asks + 1, !.seen = Marks(done)]
       \/ count' = [count EXCEPT !.seen = Marks(done)] BY <1>5 DEF AsksAgain, Overlaps
 <2>2. Marks(done) \in SUBSET Seen BY <1>0 DEF Marks, Seen
 <2> QED BY <1>1, <1>2, <2>1, <2>2
<1> QED BY <1>3, <1>4, <1>5 DEF C

\* Files are asked for again without an overlap.
LEMMA AgainParts ==
  ASSUME Counted, NEW c \in BOOLEAN, AsksAgain(c) \/ Overlaps(c), ~Overlapped'
  PROVE  c /\ count'.seen = count.seen
<1>1. count'.seen = Marks(c) BY CountParts
<1>2. CASE c BY <1>1, <1>2 DEF Marks
<1>3. CASE ~c BY <1>1, <1>3 DEF Marks, Overlapped
<1> QED BY <1>2, <1>3

\* What a refusal is counted as.
LEMMA RefusalParts ==
  ASSUME NEW k
  PROVE  Refusal(k) \in {"refused", "unlink", "declined"} /\ (Refusal(k) = "unlink" <=> k = "unlink")
<1>1. CASE k \in {"create", "reopen", "write", "finish"} BY <1>1 DEF Refusal
<1>2. CASE k = "unlink" BY <1>2 DEF Refusal
<1>3. CASE k \notin {"create", "reopen", "write", "finish"} /\ k # "unlink" BY <1>3 DEF Refusal
<1> QED BY <1>1, <1>2, <1>3

\* Every step keeps the counts, and what has happened stays so.
LEMMA CountStep ==
  ASSUME Counted, Next PROVE Counted' /\ count.seen \subseteq count'.seen
<1> DEFINE C == [faults : Nat, seen : SUBSET Seen, asks : Nat]
           Goal == count' \in C /\ count.seen \subseteq count'.seen
<1>1. count' = count => Goal BY DEF Counted
<1>2. Asks => Goal BY CountParts
<1>3. ASSUME NEW kind \in Seen, Fault(kind) PROVE Goal BY <1>3, CountParts
<1>4. ASSUME NEW c \in BOOLEAN, AsksAgain(c) \/ Overlaps(c) PROVE Goal BY <1>4, CountParts DEF Marks
<1> HIDE DEF Goal
<1>5. ASSUME NEW f \in File, Retry(f) PROVE Goal
 <2> DEFINE c == AtRest({f})
 <2>1. AsksAgain(c) BY <1>5 DEF Retry
 <2>2. c \in BOOLEAN BY DEF AtRest
 <2> QED BY <1>4, <2>1, <2>2
<1>6. ASSUME NEW w \in Window, Join(w) \/ Resume(w) PROVE Goal
 <2> DEFINE c == AtRest(File)
            d == c /\ hub.source = Nobody
 <2>1. AsksAgain(c) \/ AsksAgain(d) BY <1>6 DEF Join, Resume
 <2>2. c \in BOOLEAN /\ d \in BOOLEAN BY DEF AtRest
 <2> HIDE DEF c, d
 <2> QED BY <1>4, <2>1, <2>2
<1>7. ASSUME NEW f \in File, RetryEnds(f) PROVE Goal
 <2> DEFINE c == hub.life = "kept" /\ hub.item[f].state \in AskAgain /\ AtRest({f})
 <2>1. count' = count \/ Overlaps(c) BY <1>7 DEF RetryEnds
 <2>2. c \in BOOLEAN OBVIOUS
 <2> HIDE DEF c
 <2> QED BY <1>1, <1>4, <2>1, <2>2
<1>8. ASSUME Refuse PROVE Goal
 <2>1. PICK k : Fault(Refusal(k)) BY <1>8 DEF Refuse
 <2>2. Refusal(k) \in Seen BY RefusalParts DEF Seen
 <2> QED BY <1>3, <2>1, <2>2
<1>9. (\E yes \in BOOLEAN : Lost(yes) \/ HubRestart(yes)) => Fault("broken") BY DEF Lost, HubRestart
<1>10. "broken" \in Seen BY DEF Seen
<1>11. Answered => count' = count BY AnsweredParts
<1>12. \A f \in File : Chunk(f) \/ NameTaken(f) => count' = count BY DEF Chunk, NameTaken
<1>13. /\ \A f \in File : Cancel(f) \/ RetryWaits(f) => Asks
       /\ \A f \in File : \A a \in {"replace", "keep_both", "skip"} : Resolve(f, a) => Asks
       /\ Discard \/ ClientGone \/ LockChanged => Asks
  BY DEF Cancel, RetryWaits, Resolve, Discard, ClientGone, LockChanged
<1>14. /\ \A w \in Window : \A p \in Policies : Start(w, p) => count' = count
       /\ Pump \/ Flush \/ Forget \/ Expire \/ Reconnect => count' = count
       /\ \A yes \in BOOLEAN : Save(yes) => count' = count
  BY DEF Start, Pump, Flush, Forget, Expire, Reconnect, Save
<1>15. Goal
 <2>1. Work => Goal
   BY <1>1, <1>2, <1>3, <1>5, <1>6, <1>8, <1>9, <1>10, <1>11, <1>12, <1>13, <1>14, Zenon DEF Work
 <2> QED BY <1>2, <1>3, <1>7, <1>9, <1>10, <1>13, <2>1, Zenon DEF Next
<1>16. writers' \in SUBSET Window
 <2>1. LockChanged => writers' \in SUBSET Window BY DEF LockChanged
 <2> QED BY <2>1 DEF Next, Counted
<1>17. again' \in [File -> Nat]
 <2>1. ASSUME NEW f \in File, RetryWaits(f) \/ RetryEnds(f) PROVE again' \in [File -> Nat]
  <3>1. \E n \in Nat : again' = [again EXCEPT ![f] = n]
   <4>1. again[f] \in Nat BY DEF Counted
   <4>2. again' = [again EXCEPT ![f] = again[f] + 1]
         \/ (again[f] > 0 /\ again' = [again EXCEPT ![f] = again[f] - 1])
     BY <2>1 DEF RetryWaits, RetryEnds
   <4>3. again[f] + 1 \in Nat /\ (again[f] > 0 => again[f] - 1 \in Nat) BY <4>1
   <4> QED BY <4>2, <4>3
  <3> QED BY <3>1 DEF Counted
 <2>2. ASSUME NEW quit \in BOOLEAN, HubRestart(quit) PROVE again' \in [File -> Nat]
  <3>1. again' = [f \in File |-> 0] BY <2>2, Zenon DEF HubRestart
  <3> QED BY <3>1
 <2>3. LockChanged => again' = again BY DEF LockChanged
 <2> QED BY <2>1, <2>2, <2>3, Zenon DEF Next, Counted
<1> QED BY <1>15, <1>16, <1>17 DEF Goal, Counted

(* Every step keeps it, and what somebody else has on the host with it, as *)
\* long as no file is opened twice.
LEMMA UploadStep ==
  ASSUME UploadInv, Next PROVE UploadInv' /\ (Overlapped' \/ Spared(host, host', asked))
<1> DEFINE Lasts == /\ \E d : /\ d.asked = asked' /\ (d.broken <=> Broken(count'.seen))
                              /\ Inv(hub', host', saved', d, {})
                    /\ hub'.named <= MaxTemp
           Ends == Lasts /\ Spared(host, host', asked)
<1>a. Counted /\ Counted' /\ (Overlapped => Overlapped') BY CountStep DEF UploadInv, Overlapped
<1>b. Ends => UploadInv' /\ Spared(host, host', asked) BY <1>a DEF UploadInv, Agreed
<1> SUFFICES ASSUME ~Overlapped' PROVE Ends BY <1>a, <1>b DEF UploadInv
<1>0. hub.named <= MaxTemp BY <1>a DEF UploadInv
<1>1. PICK e : Agreed(e) BY <1>a DEF UploadInv
<1>2. /\ Inv(hub, host, saved, e, {}) /\ e.asked = asked /\ (e.broken <=> Broken(count.seen))
      /\ hub \in HubShape /\ e \in Env BY <1>1 DEF Agreed, Inv, HubInv
<1>3. /\ Asks => count'.seen = count.seen
      /\ Fault("broken") => Broken(count'.seen)
 <2>1. "broken" \in Seen BY DEF Seen
 <2> QED BY <1>a, <2>1, CountParts DEF Broken
<1>5. Counts(hub, hub') => hub'.named <= MaxTemp
 <2>1. "named" \in DOMAIN hub BY <1>2 DEF HubShape
 <2> QED BY <1>0, <2>1 DEF Counts
<1>6. host' = host => Spared(host, host', asked) BY DEF Spared
<1> HIDE DEF Lasts
<1>7. ASSUME NEW d, Inv(hub', host', saved', d, {}), d.asked = asked',
             d.broken <=> Broken(count'.seen), hub'.named <= MaxTemp
      PROVE  Lasts BY <1>7 DEF Lasts
<1>8. ASSUME Inv(hub', host', saved', e, {}), Counts(hub, hub'), asked' = asked,
             count' = count \/ Asks \/ count'.seen = count.seen
      PROVE  Lasts
 <2>1. e.asked = asked' /\ (e.broken <=> Broken(count'.seen)) BY <1>2, <1>3, <1>8
 <2> QED BY <1>5, <1>7, <1>8, <2>1
<1>9. ASSUME NEW d, Inv(hub', host', saved', d, {}), Like(e, d), hub'.named <= MaxTemp,
             asked' = asked, count' = count
      PROVE  Lasts
 <2>1. d.asked = asked' /\ (d.broken <=> Broken(count'.seen)) BY <1>2, <1>9 DEF Like
 <2> QED BY <1>7, <1>9, <2>1
<1>10. ASSUME Answered PROVE Ends
 <2>1. PICK d : Like(e, d) /\ Inv(hub', host', saved', d, {}) BY <1>0, <1>2, <1>10, AnsweredStep
 <2>2. asked' = asked /\ count' = count /\ hub'.named <= MaxTemp BY <1>10, AnsweredParts
 <2>3. Lasts BY <1>9, <2>1, <2>2
 <2>4. Spared(host, host', asked) BY <1>2, <1>10, AnsweredSpares
 <2> QED BY <2>3, <2>4
<1>11. ASSUME NEW f \in File, Chunk(f) PROVE Ends
 <2>1. Inv(hub', host', saved', e, {}) /\ Counts(hub, hub') BY <1>2, <1>11, ChunkAction
 <2>2. asked' = asked /\ count' = count /\ host' = host BY <1>11 DEF Chunk
 <2> QED BY <1>6, <1>8, <2>1, <2>2
<1>12. ASSUME NEW f \in File, Cancel(f) PROVE Ends
 <2>1. Inv(hub', host', saved', e, {}) /\ Counts(hub, hub') BY <1>2, <1>12, CancelAction
 <2>2. asked' = asked /\ Asks /\ host' = host BY <1>12 DEF Cancel
 <2> QED BY <1>6, <1>8, <2>1, <2>2
<1>13. ASSUME NEW f \in File, Retry(f) \/ RetryEnds(f) PROVE Ends
 <2> DEFINE c == hub.life = "kept" /\ hub.item[f].state \in AskAgain /\ AtRest({f})
            a == AtRest({f})
 <2>1. /\ asked' = asked /\ host' = host /\ saved' = saved
       /\ \/ hub' = hub /\ count' = count
          \/ /\ hub' = Retried(hub, f) /\ hub.link = "up"
             /\ Overlaps(c) \/ ((c <=> a) /\ AsksAgain(a)) BY <1>13 DEF Retry, RetryEnds
 <2>2. CASE hub' = hub /\ count' = count
  <3>1. Inv(hub', host', saved', e, {}) /\ Counts(hub, hub') BY <1>2, <2>1, <2>2, CountsOn
  <3> QED BY <1>6, <1>8, <2>1, <2>2, <3>1
 <2>3. CASE hub' # hub \/ count' # count
  <3>1. c \in BOOLEAN /\ a \in BOOLEAN BY DEF AtRest
  <3> HIDE DEF c, a
  <3>2. c /\ count'.seen = count.seen BY <1>a, <2>1, <2>3, <3>1, AgainParts
  <3>3. Inv(Retried(hub, f), host, saved, e, {}) /\ Counts(hub, Retried(hub, f))
    BY <1>2, <2>1, <2>3, <3>2, RetryAction DEF c
  <3>4. hub' = Retried(hub, f) BY <2>1, <2>3
  <3>5. Inv(hub', host', saved', e, {}) /\ Counts(hub, hub') BY <2>1, <3>3, <3>4
  <3> QED BY <1>6, <1>8, <2>1, <3>2, <3>5
 <2> QED BY <2>2, <2>3
<1>14. ASSUME NEW f \in File, NameTaken(f) PROVE Ends
 <2>1. Inv(hub', host', saved', e, {}) /\ hub' = hub BY <1>2, <1>14, NameTakenAction
 <2>2. asked' = asked /\ count' = count BY <1>14 DEF NameTaken
 <2>3. Spared(host, host', asked)
  <3> DEFINE T == [host.target EXCEPT ![f] = "theirs"]
  <3>1. host' = [host EXCEPT !.target = T] /\ host \in HostShape
    BY <1>2, <1>14 DEF NameTaken, Inv, HostInv
  <3>2. \A g \in File : host.target[g] = "theirs" => T[g] = "theirs" BY <3>1 DEF HostShape
  <3> HIDE DEF T
  <3>3. host'.target = T BY <3>1 DEF HostShape
  <3> QED BY <3>2, <3>3 DEF Spared
 <2>4. Counts(hub, hub') BY <2>1, CountsOn
 <2> QED BY <1>8, <2>1, <2>2, <2>3, <2>4
<1>15. ASSUME NEW f \in File, NEW a \in {"replace", "keep_both", "skip"}, Resolve(f, a) PROVE Ends
 <2> DEFINE d == [e EXCEPT !.asked = IF a = "replace" THEN @ \cup {f} ELSE @]
 <2>1. Inv(hub', host', saved', d, {}) /\ Counts(hub, hub') BY <1>2, <1>15, ResolveAction
 <2>2. asked' = (IF a = "replace" THEN asked \cup {f} ELSE asked) /\ Asks /\ host' = host
   BY <1>15 DEF Resolve
 <2>3. d.asked = asked' /\ d.broken = e.broken BY <1>2, <2>2 DEF Env
 <2> HIDE DEF d
 <2>4. count'.seen = count.seen BY <1>3, <2>2
 <2>5. Lasts BY <1>2, <1>5, <1>7, <2>1, <2>3, <2>4
 <2> QED BY <1>6, <2>2, <2>5
<1>16. ASSUME NEW w \in Window, NEW p \in Policies, Start(w, p) PROVE Ends
 <2> DEFINE d == [e EXCEPT !.asked = IF p = "replace" THEN File ELSE {}]
 <2>1. Inv(hub', host', saved', d, {}) /\ Counts(hub, hub') BY <1>2, <1>16, StartAction
 <2>2. asked' = (IF p = "replace" THEN File ELSE {}) /\ count' = count /\ host' = host
   BY <1>16 DEF Start
 <2>3. d.asked = asked' /\ d.broken = e.broken BY <1>2, <2>2 DEF Env
 <2> HIDE DEF d
 <2>4. Lasts BY <1>2, <1>5, <1>7, <2>1, <2>2, <2>3
 <2> QED BY <1>6, <2>2, <2>4
<1>17. ASSUME NEW w \in Window, Join(w) PROVE Ends
 <2> DEFINE c == AtRest(File)
 <2>1. asked' = asked /\ AsksAgain(c) /\ host' = host BY <1>17 DEF Join
 <2>2. c \in BOOLEAN BY DEF AtRest
 <2> HIDE DEF c
 <2>3. c /\ count'.seen = count.seen BY <1>a, <2>1, <2>2, AgainParts
 <2>4. Inv(hub', host', saved', e, {}) /\ Counts(hub, hub') BY <1>2, <1>17, <2>3, JoinAction DEF c
 <2> QED BY <1>6, <1>8, <2>1, <2>3, <2>4
<1>18. ASSUME NEW w \in Window, Resume(w) PROVE Ends
 <2> DEFINE c == AtRest(File) /\ hub.source = Nobody
 <2>1. asked' = asked /\ AsksAgain(c) /\ host' = host BY <1>18 DEF Resume
 <2>2. c \in BOOLEAN OBVIOUS
 <2> HIDE DEF c
 <2>3. c /\ count'.seen = count.seen BY <1>a, <2>1, <2>2, AgainParts
 <2>4. Inv(hub', host', saved', e, {}) /\ Counts(hub, hub') BY <1>2, <1>18, <2>3, ResumeAction DEF c
 <2> QED BY <1>6, <1>8, <2>1, <2>3, <2>4
<1>19. ASSUME Pump PROVE Ends
 <2>1. PICK d : Like(e, d) /\ Inv(hub', host', saved', d, {})
   BY <1>2, <1>19, <1>a, PumpAction DEF Counted
 <2>2. asked' = asked /\ count' = count /\ hub'.named <= MaxTemp /\ host' = host BY <1>19 DEF Pump
 <2> QED BY <1>6, <1>9, <2>1, <2>2
<1>20. ASSUME Flush PROVE Ends
 <2>1. Inv(hub', host', saved', e, {}) /\ Counts(hub, hub') BY <1>2, <1>20, FlushAction
 <2>2. asked' = asked /\ count' = count /\ host' = host BY <1>20 DEF Flush
 <2> QED BY <1>6, <1>8, <2>1, <2>2
<1>21. ASSUME Forget PROVE Ends
 <2>1. Inv(hub', host', saved', e, {}) /\ Counts(hub, hub') BY <1>2, <1>21, ForgetAction
 <2>2. asked' = asked /\ count' = count /\ host' = host BY <1>21 DEF Forget
 <2> QED BY <1>6, <1>8, <2>1, <2>2
<1>22. ASSUME Expire \/ Discard PROVE Ends
 <2>1. Inv(hub', host', saved', e, {}) /\ Counts(hub, hub')
  <3>1. hub.life = "kept" /\ Dropped(hub) /\ host' = host BY <1>22 DEF Expire, Discard
  <3> QED BY <1>2, <3>1, DroppedAction
 <2>2. asked' = asked /\ (count' = count \/ Asks) /\ host' = host BY <1>22 DEF Expire, Discard
 <2> QED BY <1>6, <1>8, <2>1, <2>2
<1>23. ASSUME ClientGone PROVE Ends
 <2>1. Inv(hub', host', saved', e, {}) /\ Counts(hub, hub') BY <1>2, <1>23, GoneAction
 <2>2. asked' = asked /\ Asks /\ host' = host BY <1>23 DEF ClientGone
 <2> QED BY <1>6, <1>8, <2>1, <2>2
<1>24. ASSUME Refuse PROVE Ends
 <2> DEFINE k == Head(hub.wire).k
 <2>1. PICK d : /\ d.asked = e.asked /\ (d.broken <=> e.broken \/ k = "unlink")
                /\ Inv(hub', host', saved', d, {}) BY <1>2, <1>24, RefuseAction
 <2>2. asked' = asked /\ Fault(Refusal(k)) /\ host' = host /\ hub'.named <= MaxTemp
   BY <1>24 DEF Refuse
 <2> HIDE DEF k
 <2>3. Refusal(k) \in {"refused", "unlink", "declined"} /\ (Refusal(k) = "unlink" <=> k = "unlink")
   BY RefusalParts
 <2>4. Refusal(k) \in Seen BY <2>3 DEF Seen
 <2>5. count'.seen = count.seen \cup {Refusal(k)} BY <1>a, <2>2, <2>4, CountParts
 <2>6. Broken(count'.seen) <=> Broken(count.seen) \/ k = "unlink" BY <2>3, <2>5 DEF Broken
 <2>7. Lasts BY <1>2, <1>7, <2>1, <2>2, <2>6
 <2> QED BY <1>6, <2>2, <2>7
<1>25. ASSUME Reconnect PROVE Ends
 <2>1. Inv(hub', host', saved', e, {}) /\ Counts(hub, hub') BY <1>2, <1>25, ReconnectAction
 <2>2. asked' = asked /\ count' = count /\ host' = host BY <1>25 DEF Reconnect
 <2> QED BY <1>6, <1>8, <2>1, <2>2
<1>26. ASSUME NEW yes \in BOOLEAN, Save(yes) PROVE Ends
 <2>1. Inv(hub', host', saved', e, {}) /\ Counts(hub, hub') BY <1>2, <1>26, SaveAction
 <2>2. asked' = asked /\ count' = count /\ host' = host BY <1>26 DEF Save
 <2> QED BY <1>6, <1>8, <2>1, <2>2
<1>27. ASSUME NEW yes \in BOOLEAN, Lost(yes) \/ HubRestart(yes) PROVE Ends
 <2>1. /\ \E d : Breaks(e, d) /\ Inv(hub', host', saved', d, {})
       /\ Counts(hub, hub') /\ Spared(host, host', e.asked)
  <3>1. CASE Lost(yes) BY <1>0, <1>2, <3>1, LostAction
  <3>2. CASE HubRestart(yes) BY <1>0, <1>2, <3>2, RestartAction
  <3> QED BY <1>27, <3>1, <3>2
 <2>2. PICK d : Breaks(e, d) /\ Inv(hub', host', saved', d, {}) BY <2>1
 <2>3. asked' = asked /\ Fault("broken") BY <1>27 DEF Lost, HubRestart
 <2>4. d.asked = asked' /\ (d.broken <=> Broken(count'.seen)) BY <1>2, <1>3, <2>2, <2>3 DEF Breaks
 <2>5. Lasts BY <1>5, <1>7, <2>1, <2>2, <2>4
 <2> QED BY <1>2, <2>1, <2>5
<1>28. ASSUME LockChanged \/ \E f \in File : RetryWaits(f) PROVE Ends
 <2>1. /\ asked' = asked /\ Asks /\ host' = host /\ saved' = saved
       /\ hub' = hub \/ hub' = schedulePump(hub) BY <1>28 DEF LockChanged, RetryWaits
 <2>2. Inv(hub', host', saved', e, {}) BY <1>2, <2>1, EndsStep
 <2>3. Counts(hub, hub') BY <2>1 DEF Counts, schedulePump
 <2> QED BY <1>6, <1>8, <2>1, <2>2, <2>3
<1> HIDE DEF Ends
<1>29. Work => Ends
  BY <1>10, <1>11, <1>12, <1>13, <1>14, <1>15, <1>16, <1>17, <1>18, <1>19, <1>20, <1>21, <1>22,
     <1>23, <1>24, <1>25, <1>26, <1>27, Zenon DEF Work
<1> QED BY <1>13, <1>27, <1>28, <1>29, Zenon DEF Next

\* It holds throughout.
LEMMA UploadHolds == Spec => []UploadInv
<1>1. Init => UploadInv BY UploadInit
<1>2. UploadInv /\ [Next]_vars => UploadInv'
 <2>1. UploadInv /\ Next => UploadInv' BY UploadStep
 <2>2. UploadInv /\ UNCHANGED vars => UploadInv' BY DEF UploadInv, Agreed, Counted, Overlapped, vars
 <2> QED BY <2>1, <2>2
<1> QED BY <1>1, <1>2, PTL DEF Spec

\* A file's item within the bounds.
LEMMA ItemBound ==
  ASSUME NEW it \in ItemShape, it.acked <= Size, it.temp <= MaxTemp, it.sink <= MaxTemp
  PROVE  it \in Item
<1>1. Size \in Nat /\ MaxTemp \in Nat BY ConstantsAssumption
<1>2. it.acked \in 0..Size /\ it.temp \in 0..MaxTemp /\ it.sink \in 0..MaxTemp BY <1>1, ItemParts
<1> QED BY <1>2 DEF ItemShape, Item

\* The values the variables take follow from it.
LEMMA UploadTyped == UploadInv => Overlapped \/ TypeOK
<1> SUFFICES ASSUME UploadInv, ~Overlapped PROVE TypeOK OBVIOUS
<1>1. PICK e : Agreed(e) BY DEF UploadInv
<1>2. /\ hub \in HubShape /\ saved \in RowShape /\ e \in Env /\ host \in HostShape
      /\ e.asked = asked /\ hub.named <= MaxTemp /\ MaxTemp \in Nat
      /\ \A f \in File : ItemInv(hub, saved, e, f)
      /\ \A i \in 1..Len(hub.wire) : ReqInv(hub, saved, e, hub.wire[i])
      /\ hub.removal \subseteq 1..hub.named
  BY <1>1, ConstantsAssumption DEF UploadInv, Agreed, Inv, HubInv, HostInv, GlobalInv, Whole
<1>3. hub.item \in [File -> ItemShape] /\ saved.item \in [File -> ItemShape] /\ hub.named \in Nat
  BY <1>2 DEF HubShape, RowShape
<1>4. ASSUME NEW f \in File PROVE hub.item[f] \in Item /\ saved.item[f] \in Item
 <2>1. /\ hub.item[f] \in ItemShape /\ saved.item[f] \in ItemShape
       /\ hub.item[f].temp \in Nat /\ hub.item[f].sink \in Nat
       /\ saved.item[f].temp \in Nat BY <1>3, ItemParts
 <2>2. /\ hub.item[f].acked <= Size /\ saved.item[f].acked <= Size
       /\ hub.item[f].temp <= hub.named /\ hub.item[f].sink <= hub.named
       /\ saved.item[f].temp <= hub.named /\ saved.item[f].sink = 0
   BY <1>2 DEF ItemInv, WellItem, Named, None
 <2>3. /\ hub.item[f].temp <= MaxTemp /\ hub.item[f].sink <= MaxTemp
       /\ saved.item[f].temp <= MaxTemp /\ saved.item[f].sink <= MaxTemp BY <1>2, <1>3, <2>1, <2>2
 <2> QED BY <2>1, <2>2, <2>3, ItemBound
<1>5. hub.item \in [File -> Item] /\ saved.item \in [File -> Item] BY <1>3, <1>4
<1>6. hub.wire \in Seq(Request)
 <2>1. hub.wire \in Seq(ReqShape) /\ Len(hub.wire) \in Nat BY <1>2, HubParts
 <2>2. ASSUME NEW i \in 1..Len(hub.wire) PROVE hub.wire[i] \in Request
  <3>1. hub.wire[i] \in ReqShape /\ hub.wire[i].t \in 1..hub.named BY <1>2, <2>1 DEF ReqInv
  <3>2. hub.wire[i].t \in 0..MaxTemp BY <1>2, <1>3, <3>1
  <3> QED BY <3>1, <3>2 DEF ReqShape, Request
 <2>3. hub.wire \in [1..Len(hub.wire) -> Request] BY <2>1, <2>2
 <2> QED BY <2>1, <2>3
<1>7. hub.removal \in SUBSET Temp /\ hub.named \in 0..MaxTemp BY <1>2, <1>3 DEF Temp
<1>8. /\ hub.life \in {"none", "kept", "gone"} /\ hub.source \in Window \cup {Nobody}
      /\ hub.backend \in {"none", "live", "lost"} /\ hub.link \in {"up", "down"}
      /\ hub.queue \in Seq(File) /\ hub.dirty \in SUBSET File
      /\ hub.unsaved \in SUBSET File /\ hub.unsavedAcks \in SUBSET File BY <1>2, HubParts
<1>9. {hub.linkDropped, hub.stale, hub.pumpDue, hub.doneSaid, hub.flushDue, hub.noted} \subseteq BOOLEAN
  BY <1>2 DEF HubShape
<1>10. /\ host.linked \in SUBSET Temp /\ host.bytes \in [Temp -> SUBSET Chunks]
       /\ host.target \in [File -> {"free", "theirs", "ours"}] /\ host.copies \in [File -> Nat]
  BY <1>2 DEF HostShape
<1>11. saved.life \in {"none", "kept", "discarded"} /\ asked \in SUBSET File
       /\ writers \in SUBSET Window /\ again \in [File -> Nat]
  BY <1>2 DEF RowShape, Env, UploadInv, Counted
<1> QED BY <1>5, <1>6, <1>7, <1>8, <1>9, <1>10, <1>11, Zenon DEF TypeOK

\* And so do the properties.
LEMMA UploadGood == UploadInv => PrefixIsThere /\ PlacedIsWhole /\ OutcomeIsTrue
<1> SUFFICES ASSUME UploadInv, ~Overlapped PROVE PrefixIsThere /\ PlacedIsWhole /\ OutcomeIsTrue
  BY DEF PrefixIsThere, PlacedIsWhole, OutcomeIsTrue
<1>1. PICK e : Agreed(e) BY DEF UploadInv
<1>2. /\ hub \in HubShape /\ HubInv(hub, saved, e, {}) /\ HostInv(hub, host, saved, e, 0, {})
      /\ (e.broken <=> Broken(count.seen)) BY <1>1 DEF Agreed, Inv, HubInv
<1>4. PrefixIsThere
 <2> SUFFICES ASSUME NEW f \in File, hub.item[f].state = "sending", hub.item[f].sink # None,
                     ~Opening(hub, f)
              PROVE  /\ hub.item[f].temp = hub.item[f].sink
                     /\ hub.item[f].sink \in host.linked
                     /\ 0..(hub.item[f].acked - 1) \subseteq host.bytes[hub.item[f].sink]
   BY DEF PrefixIsThere
 <2>1. ~LatestOf(hub, f) BY DEF Opening, OnWire, LatestOf, Latest
 <2>2. SendInv(hub, f) /\ SinkInv(hub, host, f) /\ Prefix(host, hub.item[f])
   BY <1>2 DEF HubInv, HostInv
 <2> QED BY <2>1, <2>2 DEF SendInv, SinkInv, Prefix
<1>5. PlacedIsWhole BY <1>2 DEF HostInv, PlacedIsWhole, NoHoles
<1>6. OutcomeIsTrue
 <2> SUFFICES ASSUME hub.life = "kept", NEW f \in File
              PROVE  /\ hub.item[f].state = "placed" => host.placed[f] # {}
                     /\ ~Broken(count.seen) /\ hub.item[f].state \notin {"verifying", "placed"}
                           => host.placed[f] = {} BY DEF OutcomeIsTrue, Broken
 <2>1. (host.placed[f] # {}) <=> f \in e.here BY <1>2 DEF HostInv
 <2>2. ItemInv(hub, saved, e, f) /\ HereInv(hub, e, f) BY <1>2 DEF HubInv
 <2>3. hub.item[f].state = "placed" => f \in e.here BY <2>2 DEF ItemInv
 <2>4. ASSUME ~Broken(count.seen), hub.item[f].state \notin {"verifying", "placed"},
              f \in e.here
       PROVE  FALSE
  <3>1. PICK i \in 1..Len(hub.wire) : hub.wire[i].f = f /\ hub.wire[i].k = "unlink"
    BY <1>2, <2>2, <2>4 DEF HereInv
  <3>2. PlaceInv(hub, e, hub.wire[i]) BY <1>2 DEF HubInv, ReqInv
  <3> QED BY <2>4, <3>1, <3>2 DEF PlaceInv, Place, PlaceKinds
 <2> QED BY <2>1, <2>3, <2>4
<1> QED BY <1>4, <1>5, <1>6

(***************************************************************************)
(* For any number of files, windows, temporaries, faults and requests, and *)
(* until a file is opened twice: the variables take the values TypeOK      *)
(* says, so that no more than a file's size is ever acknowledged (receive, *)
(* takeUp, bringBack).                                                     *)
(***************************************************************************)
THEOREM UploadsTyped == Spec => [](Overlapped \/ TypeOK)
<1>1. Spec => []UploadInv BY UploadHolds
<1>2. UploadInv => Overlapped \/ TypeOK BY UploadTyped
<1> QED BY <1>1, <1>2, PTL

(***************************************************************************)
(* A file that takes bytes writes them into the temporary it will place,   *)
(* which the host has and which holds every chunk before the next one:     *)
(* whatever was cancelled, refused, interrupted, resumed or brought back   *)
(* from meta.db, while no file was opened twice (open, receive,            *)
(* restartFile, bringBack).                                                *)
(***************************************************************************)
THEOREM PrefixIsKept == Spec => []PrefixIsThere
<1>1. Spec => []UploadInv BY UploadHolds
<1>2. UploadInv => PrefixIsThere BY UploadGood
<1> QED BY <1>1, <1>2, PTL

(***************************************************************************)
(* What the hub puts under a name, a file's own or a copy's, holds every   *)
(* chunk of the file, though finishFile and place check its size only, and *)
(* though a placement is taken up again after a lost connection; while no  *)
(* file was opened twice.                                                  *)
(***************************************************************************)
THEOREM OnlyWholeIsPlaced == Spec => []PlacedIsWhole
<1>1. Spec => []UploadInv BY UploadHolds
<1>2. UploadInv => PlacedIsWhole BY UploadGood
<1> QED BY <1>1, <1>2, PTL

(***************************************************************************)
(* A file said to be placed is on the host; and while no connection was    *)
(* lost, no hub stopped and no temporary of a placed file could not be     *)
(* removed, one that is not being placed is not (filePlaced, place,        *)
(* removeOn, fileFailed, cancel).                                          *)
(***************************************************************************)
THEOREM OutcomeIsSo == Spec => []OutcomeIsTrue
<1>1. Spec => []UploadInv BY UploadHolds
<1>2. UploadInv => OutcomeIsTrue BY UploadGood
<1> QED BY <1>1, <1>2, PTL

(***************************************************************************)
(* What somebody else has under a file's name is replaced only when the    *)
(* upload's policy, or a window's answer to that conflict, said so: also   *)
(* by a placement taken up again after a lost answer or a restart (place,  *)
(* resolve, takeUp).  Until a file is opened twice, as the others.         *)
(***************************************************************************)
THEOREM OnlyAskedIsReplaced ==
  Spec => [][Overlapped' \/ Spared(host, host', asked)]_vars
<1>1. Spec => []UploadInv BY UploadHolds
<1>2. UploadInv /\ [Next]_vars => [Overlapped' \/ Spared(host, host', asked)]_vars BY UploadStep
<1> QED BY <1>1, <1>2, PTL DEF Spec

=============================================================================
