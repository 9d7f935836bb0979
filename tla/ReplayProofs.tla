---------------------------- MODULE ReplayProofs ----------------------------
(***************************************************************************)
(* Theorems about Replay, for any number of panes, any amount of output    *)
(* and any bounds of the scheduler and of the spool.                       *)
(***************************************************************************)
EXTENDS Replay, TLAPS

(* A sequence of units in the order they were printed.                     *)
Rising(s) == \A i, j \in DOMAIN s : i < j => s[i] < s[j]

(* Every unit of s is newer than a, and none is newer than b.              *)
Within(s, a, b) == \A i \in DOMAIN s : a < s[i] /\ s[i] <= b

(* Every unit of s is older than every unit of t.                          *)
Before(s, t) == \A i \in DOMAIN s, j \in DOMAIN t : s[i] < t[j]

(* Output that is under way, on the connection and in the agent.           *)
WireInOrder ==
  /\ \A i \in DOMAIN wire : wire[i].type = "OUTPUT" =>
       /\ wire[i].units # <<>> /\ Rising(wire[i].units)
       /\ Within(wire[i].units, heard, routed)
  /\ \A i, j \in DOMAIN wire :
       /\ wire[i].type = "OUTPUT" /\ wire[j].type = "OUTPUT" /\ i < j
       => Before(wire[i].units, wire[j].units)

AwayInOrder ==
  /\ \A i \in DOMAIN away :
       away[i] # <<>> /\ Rising(away[i]) /\ Within(away[i], heard, routed)
  /\ \A i, j \in DOMAIN away : i < j => Before(away[i], away[j])

(* What the hub holds of the terminal.                                     *)
SpoolInOrder ==
  /\ Rising(tail) /\ Within(tail, 0, heard)
  /\ Rising(buffer) /\ Within(buffer, 0, heard)
  /\ Before(tail, buffer)

PanesInOrder ==
  \A p \in Pane : Rising(panes[p].text) /\ Within(panes[p].text, 0, heard)

(* The agent keeps output while there is no connection; a connection that  *)
(* is gone has nothing on it.                                              *)
OneWayOut ==
  /\ up => away = <<>>
  /\ ~up => wire = <<>> /\ taken = <<>> /\ toAgent = <<>>

OrderInv == WireInOrder /\ AwayInOrder /\ SpoolInOrder /\ PanesInOrder /\ OneWayOut

(* While the scheduler knows of no change, the last screen that comes      *)
(* shows all the hub has read, or has not been taken yet.                  *)
LastScreenIsNew ==
  ~changed /\ SnapshotReq \notin Range(toAgent) =>
    /\ \A i \in DOMAIN taken : taken[i].for = SnapshotReq => heard <= taken[i].at
    /\ (\A i \in DOMAIN taken : taken[i].for # SnapshotReq) =>
         \A i \in DOMAIN wire :
           /\ wire[i].type = "SNAPSHOT_RES"
           /\ \A j \in DOMAIN wire : i < j => wire[j].type # "SNAPSHOT_RES"
           => heard <= wire[i].at

(* The scheduler has a reason to take the screen, or it is excused.        *)
Known == changed \/ timer \/ SnapshotComes \/ overlooked

(* Output stored after the newest snapshot is such a reason.               *)
TailIsKnown == tail # <<>> \/ buffer # <<>> => Known

StaleInv == StaleIsKnown /\ LastScreenIsNew /\ TailIsKnown

ReplayInv == TypeOK /\ OrderInv

-----------------------------------------------------------------------------
(* Sequences of units.                                                     *)

LEMMA ConcatFacts ==
  ASSUME NEW S, NEW s \in Seq(S), NEW t \in Seq(S)
  PROVE  /\ s \o t \in Seq(S)
         /\ \A i \in DOMAIN (s \o t) :
              \/ i \in DOMAIN s /\ (s \o t)[i] = s[i]
              \/ i - Len(s) \in DOMAIN t /\ i > Len(s) /\ (s \o t)[i] = t[i - Len(s)]
OBVIOUS

LEMMA ConcatInOrder ==
  ASSUME NEW s \in Seq(Unit), NEW t \in Seq(Unit),
         Rising(s), Rising(t), Before(s, t)
  PROVE  Rising(s \o t)
<1>. SUFFICES ASSUME NEW i \in DOMAIN (s \o t), NEW j \in DOMAIN (s \o t), i < j
              PROVE  (s \o t)[i] < (s \o t)[j]
  BY DEF Rising
<1>1. i \in Int /\ j \in Int /\ Len(s) \in Int
  OBVIOUS
<1>2. CASE i \in DOMAIN s /\ (s \o t)[i] = s[i]
  <2>1. CASE j \in DOMAIN s /\ (s \o t)[j] = s[j]
    BY <1>2, <2>1 DEF Rising
  <2>2. CASE j - Len(s) \in DOMAIN t /\ (s \o t)[j] = t[j - Len(s)]
    BY <1>2, <2>2 DEF Before
  <2>. QED
    BY <2>1, <2>2, ConcatFacts
<1>3. CASE i - Len(s) \in DOMAIN t /\ i > Len(s) /\ (s \o t)[i] = t[i - Len(s)]
  <2>1. j \notin DOMAIN s
    BY <1>1, <1>3
  <2>2. j - Len(s) \in DOMAIN t /\ (s \o t)[j] = t[j - Len(s)]
    BY <2>1, ConcatFacts
  <2>3. i - Len(s) < j - Len(s)
    BY <1>1
  <2>. QED
    BY <1>3, <2>2, <2>3 DEF Rising
<1>. QED
  BY <1>2, <1>3, ConcatFacts

LEMMA ConcatWithin ==
  ASSUME NEW s \in Seq(Unit), NEW t \in Seq(Unit), NEW a, NEW b,
         Within(s, a, b), Within(t, a, b)
  PROVE  Within(s \o t, a, b)
BY ConcatFacts DEF Within

LEMMA UnitsAreNumbers ==
  ASSUME NEW s \in Seq(Unit)
  PROVE  \A i \in DOMAIN s : s[i] \in Unit /\ s[i] \in Int /\ s[i] > 0
<1>1. \A i \in DOMAIN s : s[i] \in Unit
  OBVIOUS
<1>2. \A u \in Unit : u \in Int /\ u > 0
  BY BoundsAssumption DEF Unit
<1>. QED
  BY <1>1, <1>2

(* What is within a bound is within a wider one.                           *)
LEMMA WithinWider ==
  ASSUME NEW s \in Seq(Unit), NEW a \in Int, NEW b \in Int, NEW c \in Int, NEW d \in Int,
         Within(s, a, b), c <= a, b <= d
  PROVE  Within(s, c, d)
<1>1. \A i \in DOMAIN s : s[i] \in Int
  BY UnitsAreNumbers
<1>. QED
  BY <1>1 DEF Within

LEMMA BoundsSeparate ==
  ASSUME NEW s \in Seq(Unit), NEW t \in Seq(Unit), NEW a \in Int, NEW b \in Int, NEW c \in Int,
         Within(s, a, b), Within(t, b, c)
  PROVE  Before(s, t)
<1>1. /\ \A i \in DOMAIN s : s[i] \in Int
      /\ \A i \in DOMAIN t : t[i] \in Int
  BY UnitsAreNumbers
<1>. QED
  BY <1>1 DEF Within, Before

LEMMA EmptyInOrder ==
  ASSUME NEW a, NEW b, NEW s
  PROVE  Rising(<<>>) /\ Within(<<>>, a, b) /\ Before(<<>>, s) /\ Before(s, <<>>)
BY DEF Rising, Within, Before

(* The units that leave the batch loop together.                           *)
LEMMA RoutedUnits ==
  ASSUME NEW r \in 0..MaxPrint, NEW n \in r + 1 .. MaxPrint
  PROVE  LET units == [i \in 1 .. n - r |-> r + i]
         IN /\ units \in Seq(Unit) /\ units # <<>>
            /\ Rising(units) /\ Within(units, r, n)
<1>. DEFINE units == [i \in 1 .. n - r |-> r + i]
<1>1. r \in Nat /\ n \in Nat /\ n - r \in Nat /\ n - r >= 1
  BY BoundsAssumption
<1>2. \A i \in 1 .. n - r : r + i \in Unit
  BY <1>1, BoundsAssumption DEF Unit
<1>3. units \in Seq(Unit) /\ Len(units) = n - r
  BY <1>1, <1>2
<1>4. units # <<>>
  BY <1>1, <1>3
<1>5. Rising(units)
  BY <1>1 DEF Rising
<1>6. Within(units, r, n)
  BY <1>1 DEF Within
<1>. QED
  BY <1>3, <1>4, <1>5, <1>6

-----------------------------------------------------------------------------
(* The wire and what the agent keeps.                                      *)

(* A step that leaves the connection alone.                                *)
LEMMA WireStays ==
  ASSUME ReplayInv, UNCHANGED <<wire, heard, routed>>
  PROVE  WireInOrder'
BY DEF ReplayInv, OrderInv, WireInOrder

LEMMA WireGone ==
  ASSUME wire' = <<>>
  PROVE  WireInOrder'
BY DEF WireInOrder

(* The hub takes the first frame.                                          *)
LEMMA TailFacts ==
  ASSUME NEW S, NEW s \in Seq(S), s # <<>>
  PROVE  /\ Head(s) = s[1] /\ 1 \in DOMAIN s /\ Head(s) \in S
         /\ Tail(s) \in Seq(S)
         /\ \A i \in DOMAIN Tail(s) : i + 1 \in DOMAIN s /\ Tail(s)[i] = s[i + 1] /\ i \in Int /\ i > 0
OBVIOUS

LEMMA WireShorter ==
  ASSUME ReplayInv, wire # <<>>, wire' = Tail(wire), UNCHANGED <<heard, routed>>
  PROVE  WireInOrder'
<1>1. \A i \in DOMAIN wire' : i + 1 \in DOMAIN wire /\ wire'[i] = wire[i + 1] /\ i \in Int
  BY TailFacts DEF ReplayInv, TypeOK
<1>2. \A i, j \in DOMAIN wire' : i < j => i + 1 < j + 1
  BY <1>1
<1>. QED
  BY <1>1, <1>2 DEF ReplayInv, OrderInv, WireInOrder

(* The agent answers.                                                      *)
LEMMA AppendFacts ==
  ASSUME NEW S, NEW s \in Seq(S), NEW e \in S
  PROVE  /\ Append(s, e) \in Seq(S)
         /\ Len(Append(s, e)) = Len(s) + 1
         /\ \A i \in DOMAIN Append(s, e) :
              /\ i \in Int /\ i <= Len(s) + 1
              /\ \/ i \in DOMAIN s /\ i <= Len(s) /\ Append(s, e)[i] = s[i]
                 \/ i = Len(s) + 1 /\ Append(s, e)[i] = e
         /\ \A i \in DOMAIN s : i \in DOMAIN Append(s, e) /\ Append(s, e)[i] = s[i]
         /\ Len(s) + 1 \in DOMAIN Append(s, e) /\ Append(s, e)[Len(s) + 1] = e
OBVIOUS

LEMMA WireAnswered ==
  ASSUME ReplayInv, NEW f \in Frame, f.type # "OUTPUT", wire' = Append(wire, f),
         UNCHANGED <<heard, routed>>
  PROVE  WireInOrder'
<1>1. \A i \in DOMAIN wire' : wire'[i].type = "OUTPUT" => i \in DOMAIN wire /\ wire'[i] = wire[i]
  BY AppendFacts DEF ReplayInv, TypeOK
<1>. QED
  BY <1>1 DEF ReplayInv, OrderInv, WireInOrder

(* A piece of output goes to the connection, or to what the agent keeps.   *)
LEMMA OutputFrame ==
  ASSUME NEW units \in Seq(Unit)
  PROVE  LET f == [type |-> "OUTPUT", units |-> units]
         IN f \in Frame /\ f.type = "OUTPUT" /\ f.units = units
BY DEF Frame

LEMMA FrameUnits ==
  ASSUME NEW f \in Frame, f.type = "OUTPUT"
  PROVE  f.units \in Seq(Unit)
BY DEF Frame

LEMMA Numbers ==
  ASSUME ReplayInv
  PROVE  /\ printed \in Int /\ routed \in Int /\ heard \in Int /\ MaxPrint \in Int
         /\ 0 <= heard /\ heard <= routed /\ routed <= printed /\ printed <= MaxPrint
BY BoundsAssumption DEF ReplayInv, TypeOK

LEMMA WireRouted ==
  ASSUME ReplayInv, NEW units \in Seq(Unit), NEW n \in Int, routed <= n,
         units # <<>>, Rising(units), Within(units, routed, n),
         wire' = Append(wire, [type |-> "OUTPUT", units |-> units]),
         routed' = n, UNCHANGED heard
  PROVE  WireInOrder'
<1>. DEFINE f == [type |-> "OUTPUT", units |-> units]
<1>0. f \in Frame /\ f.type = "OUTPUT" /\ f.units = units /\ wire' = Append(wire, f)
  BY OutputFrame
<1>. HIDE DEF f
<1>1. \A i \in DOMAIN wire' : /\ i \in Int /\ i <= Len(wire) + 1
                              /\ \/ i \in DOMAIN wire /\ i <= Len(wire) /\ wire'[i] = wire[i]
                                 \/ i = Len(wire) + 1 /\ wire'[i] = f
  <2>1. wire \in Seq(Frame)
    BY DEF ReplayInv, TypeOK
  <2>. QED
    BY <1>0, <2>1, AppendFacts
<1>2. \A i \in DOMAIN wire : wire[i].type = "OUTPUT" =>
        wire[i].units \in Seq(Unit) /\ Within(wire[i].units, heard, n)
  <2>1. \A i \in DOMAIN wire : wire[i] \in Frame
    BY SMTT(30) DEF ReplayInv, TypeOK
  <2>. QED
    BY <2>1, FrameUnits, WithinWider, Numbers DEF ReplayInv, OrderInv, WireInOrder
<1>3. \A i \in DOMAIN wire : wire[i].type = "OUTPUT" => Before(wire[i].units, units)
  <2>1. \A i \in DOMAIN wire : wire[i].type = "OUTPUT" => Within(wire[i].units, heard, routed)
    BY DEF ReplayInv, OrderInv, WireInOrder
  <2>. QED
    BY <1>2, <2>1, BoundsSeparate, Numbers
<1>4. Within(units, heard, n)
  BY WithinWider, Numbers
<1>5. \A i \in DOMAIN wire' : wire'[i].type = "OUTPUT" =>
       /\ wire'[i].units # <<>> /\ Rising(wire'[i].units)
       /\ Within(wire'[i].units, heard, n)
  BY <1>0, <1>1, <1>2, <1>4 DEF ReplayInv, OrderInv, WireInOrder
<1>6. ASSUME NEW i \in DOMAIN wire', NEW j \in DOMAIN wire',
             wire'[i].type = "OUTPUT", wire'[j].type = "OUTPUT", i < j
      PROVE  Before(wire'[i].units, wire'[j].units)
  <2>1. i \in DOMAIN wire /\ wire'[i] = wire[i]
    <3>1. i # Len(wire) + 1
      BY <1>1, <1>6
    <3>. QED
      BY <1>1, <3>1
  <2>2. CASE j \in DOMAIN wire /\ wire'[j] = wire[j]
    BY <1>6, <2>1, <2>2 DEF ReplayInv, OrderInv, WireInOrder
  <2>3. CASE wire'[j] = f
    BY <1>0, <1>3, <1>6, <2>1, <2>3
  <2>. QED
    BY <1>1, <2>2, <2>3
<1>. QED
  BY <1>5, <1>6 DEF WireInOrder

LEMMA AwayStays ==
  ASSUME ReplayInv, UNCHANGED <<away, heard, routed>>
  PROVE  AwayInOrder'
BY DEF ReplayInv, OrderInv, AwayInOrder

LEMMA AwayGone ==
  ASSUME away' = <<>>
  PROVE  AwayInOrder'
BY DEF AwayInOrder

LEMMA SubSeqFacts ==
  ASSUME NEW S, NEW s \in Seq(S), NEW k \in 1 .. Len(s)
  PROVE  /\ SubSeq(s, k, Len(s)) \in Seq(S)
         /\ \A i \in DOMAIN SubSeq(s, k, Len(s)) :
              /\ i \in Int /\ i + k - 1 \in DOMAIN s
              /\ SubSeq(s, k, Len(s))[i] = s[i + k - 1]
OBVIOUS

LEMMA AwayRouted ==
  ASSUME ReplayInv, NEW units \in Seq(Unit), NEW n \in Int, routed <= n,
         units # <<>>, Rising(units), Within(units, routed, n),
         NEW k \in 1 .. Len(away) + 1,
         away' = SubSeq(Append(away, units), k, Len(away) + 1),
         routed' = n, UNCHANGED heard
  PROVE  AwayInOrder' /\ away' \in Seq(Seq(Unit))
<1>. DEFINE all == Append(away, units)
<1>1. away \in Seq(Seq(Unit))
  BY DEF ReplayInv, TypeOK
<1>2. /\ all \in Seq(Seq(Unit)) /\ Len(all) = Len(away) + 1
      /\ \A i \in DOMAIN all :
           /\ i \in Int /\ i <= Len(away) + 1
           /\ \/ i \in DOMAIN away /\ i <= Len(away) /\ all[i] = away[i]
              \/ i = Len(away) + 1 /\ all[i] = units
  BY <1>1, AppendFacts
<1>3. away' = SubSeq(all, k, Len(all)) /\ k \in 1 .. Len(all)
  BY <1>2
<1>. HIDE DEF all
<1>4. /\ away' \in Seq(Seq(Unit))
      /\ \A i \in DOMAIN away' : /\ i \in Int /\ i + k - 1 \in DOMAIN all
                                 /\ away'[i] = all[i + k - 1]
  <2>. DEFINE rest == SubSeq(all, k, Len(all))
  <2>1. all \in Seq(Seq(Unit)) /\ k \in 1 .. Len(all)
    BY <1>2, <1>3
  <2>2. /\ rest \in Seq(Seq(Unit))
        /\ \A i \in DOMAIN rest : i \in Int /\ i + k - 1 \in DOMAIN all /\ rest[i] = all[i + k - 1]
    BY <2>1, SubSeqFacts
  <2>3. away' = rest
    BY <1>3
  <2>. HIDE DEF rest
  <2>. QED
    BY <2>2, <2>3
<1>5. \A i \in DOMAIN away : away[i] \in Seq(Unit)
  BY <1>1
<1>6. \A i \in DOMAIN away : /\ Within(away[i], heard, n) /\ Before(away[i], units)
                             /\ away[i] # <<>> /\ Rising(away[i])
  <2>1. \A i \in DOMAIN away : /\ Within(away[i], heard, routed)
                               /\ away[i] # <<>> /\ Rising(away[i])
    BY DEF ReplayInv, OrderInv, AwayInOrder
  <2>2. \A i \in DOMAIN away : Within(away[i], heard, n)
    BY <1>5, <2>1, WithinWider, Numbers
  <2>3. \A i \in DOMAIN away : Before(away[i], units)
    BY <1>5, <2>1, BoundsSeparate, Numbers
  <2>. QED
    BY <2>1, <2>2, <2>3
<1>7. Within(units, heard, n)
  BY WithinWider, Numbers
<1>8. \A i \in DOMAIN all : all[i] # <<>> /\ Rising(all[i]) /\ Within(all[i], heard, n)
  BY <1>2, <1>6, <1>7
<1>9. \A i, j \in DOMAIN all : i < j => Before(all[i], all[j])
  <2>1. ASSUME NEW i \in DOMAIN all, NEW j \in DOMAIN all, i < j
        PROVE  Before(all[i], all[j])
    <3>1. i # Len(away) + 1
      BY <1>2, <2>1
    <3>2. i \in DOMAIN away /\ all[i] = away[i]
      BY <1>2, <3>1
    <3>3. CASE j \in DOMAIN away /\ all[j] = away[j]
      BY <2>1, <3>2, <3>3 DEF ReplayInv, OrderInv, AwayInOrder
    <3>4. CASE all[j] = units
      BY <1>6, <3>2, <3>4
    <3>. QED
      BY <1>2, <3>3, <3>4
  <2>. QED
    BY <2>1
<1>10. \A i, j \in DOMAIN away' : i < j => i + k - 1 < j + k - 1
  BY <1>4
<1>. QED
  BY <1>4, <1>8, <1>9, <1>10 DEF AwayInOrder

(* What the agent kept goes first over the new connection.                 *)
LEMMA WireRegained ==
  ASSUME ReplayInv, wire' = [i \in DOMAIN away |-> [type |-> "OUTPUT", units |-> away[i]]],
         UNCHANGED <<heard, routed>>
  PROVE  WireInOrder' /\ wire' \in Seq(Frame)
<1>1. away \in Seq(Seq(Unit))
  BY DEF ReplayInv, TypeOK
<1>2. \A i \in DOMAIN away : away[i] \in Seq(Unit)
  BY <1>1
<1>3. DOMAIN wire' = DOMAIN away /\ DOMAIN away = 1 .. Len(away) /\ Len(away) \in Nat
  BY <1>1
<1>4. \A i \in DOMAIN wire' : wire'[i] \in Frame /\ wire'[i].units = away[i]
  BY <1>2, <1>3, OutputFrame
<1>5. wire' \in Seq(Frame)
  BY <1>3, <1>4
<1>. QED
  BY <1>3, <1>4, <1>5 DEF ReplayInv, OrderInv, AwayInOrder, WireInOrder

-----------------------------------------------------------------------------
(* A piece of output is read: it is newer than all the hub has.            *)

LEMMA WireRead ==
  ASSUME ReplayInv, wire # <<>>, Head(wire).type = "OUTPUT", wire' = Tail(wire),
         heard' = Head(wire).units[Len(Head(wire).units)], UNCHANGED routed
  PROVE  /\ Head(wire).units \in Seq(Unit)
         /\ Rising(Head(wire).units) /\ Within(Head(wire).units, heard, heard')
         /\ heard' \in heard + 1 .. routed
         /\ WireInOrder'
<1>. DEFINE us == Head(wire).units
<1>1. wire \in Seq(Frame)
  BY DEF ReplayInv, TypeOK
<1>2. Head(wire) = wire[1] /\ 1 \in DOMAIN wire /\ Head(wire) \in Frame
  BY <1>1, TailFacts
<1>3. us \in Seq(Unit) /\ us # <<>> /\ Rising(us) /\ Within(us, heard, routed)
  BY <1>2, FrameUnits DEF ReplayInv, OrderInv, WireInOrder
<1>4. heard' = us[Len(us)]
  OBVIOUS
<1>5. \A j \in DOMAIN wire : j > 1 /\ wire[j].type = "OUTPUT" => Before(us, wire[j].units)
  BY <1>2 DEF ReplayInv, OrderInv, WireInOrder
<1>. HIDE DEF us
<1>6. Len(us) \in DOMAIN us /\ \A i \in DOMAIN us : i \in Int /\ (i < Len(us) \/ i = Len(us))
  BY <1>3
<1>7. heard' \in Int /\ heard < heard' /\ heard' <= routed
  BY <1>3, <1>4, <1>6, UnitsAreNumbers DEF Within
<1>8. Within(us, heard, heard')
  <2>1. ASSUME NEW i \in DOMAIN us
        PROVE  us[i] <= heard'
    <3>1. CASE i = Len(us)
      BY <1>4, <1>7, <3>1
    <3>2. CASE i < Len(us)
      <4>1. us[i] < heard' /\ us[i] \in Int
        BY <1>3, <1>4, <1>6, <2>1, <3>2, UnitsAreNumbers DEF Rising
      <4>. QED
        BY <1>7, <4>1
    <3>. QED
      BY <1>6, <3>1, <3>2
  <2>. QED
    BY <1>3, <2>1 DEF Within
<1>9. \A i \in DOMAIN wire' : i + 1 \in DOMAIN wire /\ wire'[i] = wire[i + 1] /\ i \in Int /\ i > 0
  BY <1>1, TailFacts
<1>10. ASSUME NEW i \in DOMAIN wire', wire'[i].type = "OUTPUT"
       PROVE  /\ wire'[i].units # <<>> /\ Rising(wire'[i].units)
              /\ Within(wire'[i].units, heard', routed)
  <2>1. /\ wire'[i].units # <<>> /\ Rising(wire'[i].units)
        /\ Within(wire'[i].units, heard, routed)
    BY <1>9, <1>10 DEF ReplayInv, OrderInv, WireInOrder
  <2>2. i + 1 > 1
    BY <1>9
  <2>3. Before(us, wire'[i].units)
    BY <1>5, <1>9, <1>10, <2>2
  <2>. QED
    BY <1>4, <1>6, <2>1, <2>3 DEF Within, Before
<1>11. \A i, j \in DOMAIN wire' : i < j => i + 1 < j + 1
  BY <1>9
<1>12. ASSUME NEW i \in DOMAIN wire', NEW j \in DOMAIN wire',
              wire'[i].type = "OUTPUT", wire'[j].type = "OUTPUT", i < j
       PROVE  Before(wire'[i].units, wire'[j].units)
  BY <1>9, <1>11, <1>12 DEF ReplayInv, OrderInv, WireInOrder
<1>13. WireInOrder'
  BY <1>10, <1>12 DEF WireInOrder
<1>14. heard' \in heard + 1 .. routed
  BY <1>7, Numbers
<1>. QED
  BY <1>3, <1>8, <1>13, <1>14 DEF us

-----------------------------------------------------------------------------
(* The panes and the spool.                                                *)

(* A pane whose text is in order, and not newer than what the hub heard.   *)
PaneOK(r, h) == r \in PaneRecord /\ Rising(r.text) /\ Within(r.text, 0, h)

LEMMA PanesAreOK ==
  ASSUME ReplayInv
  PROVE  panes \in [Pane -> PaneRecord] /\ \A p \in Pane : PaneOK(panes[p], heard)
BY DEF ReplayInv, TypeOK, OrderInv, PanesInOrder, PaneOK

LEMMA PanesStayOK ==
  ASSUME NEW f, panes' = [p \in Pane |-> f[p]], \A p \in Pane : PaneOK(f[p], heard')
  PROVE  panes' \in [Pane -> PaneRecord] /\ PanesInOrder'
BY DEF PanesInOrder, PaneOK

LEMMA NewPaneOK ==
  ASSUME NEW h \in Nat
  PROVE  PaneOK(NewPane, h)
<1>1. NewPane \in PaneRecord
  BY BoundsAssumption DEF NewPane, PaneRecord, Snapshot, NoSnapshot, Request
<1>2. NewPane.text = <<>>
  BY DEF NewPane
<1>. QED
  BY <1>1, <1>2, EmptyInOrder DEF PaneOK

(* A step that leaves a pane's text alone.                                 *)
LEMMA PaneEdits ==
  ASSUME NEW h \in Nat, NEW r, PaneOK(r, h), NEW at \in Snapshot, NEW a \in Request,
         NEW b \in BOOLEAN, NEW st \in {"away", "asking", "answered", "live", "cached"}
  PROVE  /\ PaneOK([r EXCEPT !.state = st, !.answer = at], h)
         /\ PaneOK([r EXCEPT !.state = st, !.fresh = b, !.answer = at], h)
         /\ PaneOK([r EXCEPT !.state = st, !.fresh = b], h)
         /\ PaneOK([r EXCEPT !.state = st, !.ask = a, !.keep = b], h)
         /\ PaneOK([r EXCEPT !.state = st], h)
         /\ PaneOK([r EXCEPT !.state = st, !.keep = b, !.ask = a, !.answer = at], h)
BY DEF PaneOK, PaneRecord

(* What a pane is reset to.                                                *)
LEMMA PaneReset ==
  ASSUME NEW h \in Nat, NEW at \in Snapshot, NEW us \in Seq(Unit), Rising(us), Within(us, 0, h),
         NEW st \in {"away", "asking", "answered", "live", "cached"}
  PROVE  PaneOK([NewPane EXCEPT !.state = st, !.fresh = TRUE, !.base = at, !.text = us], h)
<1>1. NewPane \in PaneRecord
  BY NewPaneOK DEF PaneOK
<1>. QED
  BY <1>1 DEF PaneOK, PaneRecord

LEMMA ShownOK ==
  ASSUME ReplayInv, NEW p \in Pane, NEW at \in Snapshot, NEW us \in Seq(Unit),
         Rising(us), Within(us, 0, heard), NEW st \in {"live", "cached"}
  PROVE  PaneOK(Shown(p, st, at, us), heard)
<1>1. heard \in Nat /\ NoSnapshot \in Snapshot /\ 0 \in Request
  BY Numbers, BoundsAssumption DEF Snapshot, Request
<1>2. CASE panes[p].keep \/ at = NoSnapshot
  BY <1>1, <1>2, PanesAreOK, PaneEdits DEF Shown
<1>3. CASE ~(panes[p].keep \/ at = NoSnapshot)
  BY <1>1, <1>3, PaneReset DEF Shown
<1>. QED
  BY <1>2, <1>3

LEMMA PaneWritten ==
  ASSUME NEW h \in Nat, NEW k \in Nat, h <= k, NEW r, PaneOK(r, h),
         NEW us \in Seq(Unit), Rising(us), Within(us, h, k)
  PROVE  PaneOK([r EXCEPT !.text = @ \o us], k) /\ PaneOK(r, k)
<1>1. r.text \in Seq(Unit) /\ Rising(r.text) /\ Within(r.text, 0, h)
  BY DEF PaneOK, PaneRecord
<1>2. Within(r.text, 0, k) /\ Within(us, 0, k) /\ Before(r.text, us)
  BY <1>1, WithinWider, BoundsSeparate
<1>3. r.text \o us \in Seq(Unit) /\ Rising(r.text \o us) /\ Within(r.text \o us, 0, k)
  BY <1>1, <1>2, ConcatInOrder, ConcatWithin, ConcatFacts
<1>4. PaneOK([r EXCEPT !.text = r.text \o us], k)
  <2>. DEFINE us2 == r.text \o us
  <2>1. us2 \in Seq(Unit) /\ Rising(us2) /\ Within(us2, 0, k)
    BY <1>3
  <2>. HIDE DEF us2
  <2>2. PaneOK([r EXCEPT !.text = us2], k)
    BY <2>1 DEF PaneOK, PaneRecord
  <2>. QED
    BY <2>2 DEF us2
<1>. QED
  BY <1>2, <1>4 DEF PaneOK

(* What the spool and the chunker hold.                                    *)
LEMMA SpoolFacts ==
  ASSUME ReplayInv
  PROVE  /\ tail \in Seq(Unit) /\ buffer \in Seq(Unit) /\ snap \in Snapshot
         /\ tail \o buffer \in Seq(Unit)
         /\ Rising(tail \o buffer) /\ Within(tail \o buffer, 0, heard)
         /\ ReplayTail \in Seq(Unit) /\ Rising(ReplayTail) /\ Within(ReplayTail, 0, heard)
<1>1. /\ tail \in Seq(Unit) /\ buffer \in Seq(Unit) /\ snap \in Snapshot
  BY DEF ReplayInv, TypeOK
<1>2. SpoolInOrder
  BY DEF ReplayInv, OrderInv
<1>3. /\ tail \o buffer \in Seq(Unit)
      /\ Rising(tail \o buffer) /\ Within(tail \o buffer, 0, heard)
  BY <1>1, <1>2, ConcatInOrder, ConcatWithin, ConcatFacts DEF SpoolInOrder
<1>4. ReplayTail \in Seq(Unit) /\ Rising(ReplayTail) /\ Within(ReplayTail, 0, heard)
  BY <1>1, <1>2, EmptyInOrder DEF ReplayTail, SpoolInOrder
<1>. QED
  BY <1>1, <1>3, <1>4

SpoolTypeOK == buffer \in Seq(Unit) /\ tail \in Seq(Unit) /\ snap \in Snapshot

LEMMA SpoolSteps ==
  ASSUME ReplayInv
  PROVE  /\ UNCHANGED <<spoolVars, heard>> => SpoolInOrder' /\ SpoolTypeOK'
         /\ \A at \in Snapshot : storeSnapshot(at) => SpoolInOrder' /\ SpoolTypeOK'
         /\ tail' = tail \o buffer /\ buffer' = <<>> /\ UNCHANGED <<snap, heard>>
              => SpoolInOrder' /\ SpoolTypeOK'
         /\ buffer' = <<>> /\ UNCHANGED <<tail, snap, heard>> => SpoolInOrder' /\ SpoolTypeOK'
<1>1. <<>> \in Seq(Unit)
  OBVIOUS
<1>2. UNCHANGED <<spoolVars, heard>> => SpoolInOrder' /\ SpoolTypeOK'
  BY DEF spoolVars, ReplayInv, OrderInv, TypeOK, SpoolInOrder, SpoolTypeOK
<1>3. \A at \in Snapshot : storeSnapshot(at) => SpoolInOrder' /\ SpoolTypeOK'
  BY <1>1, EmptyInOrder DEF storeSnapshot, SpoolInOrder, SpoolTypeOK
<1>4. tail' = tail \o buffer /\ buffer' = <<>> /\ UNCHANGED <<snap, heard>>
              => SpoolInOrder' /\ SpoolTypeOK'
  BY <1>1, SpoolFacts, EmptyInOrder DEF SpoolInOrder, SpoolTypeOK
<1>5. buffer' = <<>> /\ UNCHANGED <<tail, snap, heard>> => SpoolInOrder' /\ SpoolTypeOK'
  BY <1>1, SpoolFacts, EmptyInOrder DEF SpoolInOrder, SpoolTypeOK, ReplayInv, OrderInv
<1>. QED
  BY <1>2, <1>3, <1>4, <1>5

LEMMA SpoolReads ==
  ASSUME ReplayInv, NEW us \in Seq(Unit), Rising(us), Within(us, heard, heard'),
         heard' \in heard + 1 .. routed, buffer' = buffer \o us, UNCHANGED <<tail, snap>>
  PROVE  SpoolInOrder' /\ SpoolTypeOK'
<1>1. heard \in Nat /\ heard' \in Nat /\ heard <= heard' /\ 0 <= heard /\ 0 \in Int
  BY Numbers
<1>2. /\ tail \in Seq(Unit) /\ Rising(tail) /\ Within(tail, 0, heard)
      /\ buffer \in Seq(Unit) /\ Rising(buffer) /\ Within(buffer, 0, heard)
      /\ Before(tail, buffer)
  BY DEF ReplayInv, OrderInv, TypeOK, SpoolInOrder
<1>3. Within(tail, 0, heard') /\ Within(buffer, 0, heard') /\ Within(us, 0, heard')
  BY <1>1, <1>2, WithinWider
<1>4. Before(buffer, us) /\ Before(tail, us)
  BY <1>1, <1>2, BoundsSeparate
<1>5. buffer' \in Seq(Unit) /\ Rising(buffer') /\ Within(buffer', 0, heard')
  BY <1>2, <1>3, <1>4, ConcatInOrder, ConcatWithin, ConcatFacts
<1>6. Before(tail, buffer')
  BY <1>2, <1>4, ConcatFacts DEF Before
<1>. QED
  BY <1>2, <1>3, <1>5, <1>6, SpoolFacts DEF SpoolInOrder, SpoolTypeOK

-----------------------------------------------------------------------------
(* The types, in parts.                                                    *)

NumbersOK == printed \in 0..MaxPrint /\ routed \in 0..printed /\ heard \in 0..routed
AgentOK ==
  /\ away \in Seq(Seq(Unit))
  /\ taken \in Seq([for : Request, at : Snapshot]) /\ Len(taken) <= 1
ConnOK == toAgent \in Seq(Request) /\ wire \in Seq(Frame)
FlagsOK ==
  /\ up \in BOOLEAN /\ reading \in BOOLEAN /\ overlooked \in BOOLEAN
  /\ changed \in BOOLEAN /\ timer \in BOOLEAN
CountsOK ==
  /\ inFlight \in 0..MaxInFlight
  /\ faults \in 0..MaxFaults /\ attaches \in 0..MaxAttach
PanesOK == panes \in [Pane -> PaneRecord]

LEMMA Parts ==
  /\ TypeOK <=> NumbersOK /\ AgentOK /\ ConnOK /\ FlagsOK /\ CountsOK /\ SpoolTypeOK /\ PanesOK
  /\ TypeOK' <=> /\ NumbersOK' /\ AgentOK' /\ ConnOK' /\ FlagsOK' /\ CountsOK'
                 /\ SpoolTypeOK' /\ PanesOK'
BY DEF TypeOK, NumbersOK, AgentOK, ConnOK, FlagsOK, CountsOK, SpoolTypeOK, PanesOK

(* What a step leaves alone stays as it was.                               *)
LEMMA Kept ==
  ASSUME ReplayInv
  PROVE  /\ UNCHANGED <<printed, routed, heard>> => NumbersOK'
         /\ UNCHANGED <<away, taken>> => AgentOK'
         /\ UNCHANGED <<toAgent, wire>> => ConnOK'
         /\ UNCHANGED <<inFlight, faults, attaches>> => CountsOK'
         /\ UNCHANGED <<wire, heard, routed>> => WireInOrder'
         /\ UNCHANGED <<away, heard, routed>> => AwayInOrder'
         /\ UNCHANGED <<buffer, tail, snap, heard>> => SpoolInOrder' /\ SpoolTypeOK'
         /\ UNCHANGED <<panes, heard>> => PanesOK' /\ PanesInOrder'
         /\ UNCHANGED <<up, away, wire, taken, toAgent>> => OneWayOut'
<1>1. /\ UNCHANGED <<printed, routed, heard>> => NumbersOK'
      /\ UNCHANGED <<away, taken>> => AgentOK'
      /\ UNCHANGED <<toAgent, wire>> => ConnOK'
      /\ UNCHANGED <<inFlight, faults, attaches>> => CountsOK'
  BY Parts DEF ReplayInv, NumbersOK, AgentOK, ConnOK, CountsOK
<1>2. /\ UNCHANGED <<wire, heard, routed>> => WireInOrder'
      /\ UNCHANGED <<away, heard, routed>> => AwayInOrder'
      /\ UNCHANGED <<buffer, tail, snap, heard>> => SpoolInOrder' /\ SpoolTypeOK'
  BY WireStays, AwayStays, SpoolSteps DEF spoolVars
<1>3. UNCHANGED <<panes, heard>> => PanesOK' /\ PanesInOrder'
  BY Parts DEF ReplayInv, OrderInv, PanesInOrder, PanesOK
<1>4. UNCHANGED <<up, away, wire, taken, toAgent>> => OneWayOut'
  BY DEF ReplayInv, OrderInv, OneWayOut
<1>. QED
  BY <1>1, <1>2, <1>3, <1>4

LEMMA Zeros ==
  /\ 0 \in Request /\ SnapshotReq \in Request /\ NoSnapshot \in Snapshot
  /\ 0 \in 0..MaxInFlight
BY BoundsAssumption, SlotsAssumption DEF Request, SnapshotReq, Snapshot

-----------------------------------------------------------------------------
(* The agent's steps.                                                      *)
LEMMA AgentKeeps ==
  ASSUME ReplayInv, AgentNext
  PROVE  ReplayInv'
<1>. USE DEF ReplayInv, OrderInv, agentVars, connVars, spoolVars, schedVars, countVars
<1>1. CASE ReadPty
  <2>1. NumbersOK'
    BY <1>1, Parts, BoundsAssumption DEF ReadPty, NumbersOK
  <2>2. FlagsOK'
    BY <1>1, Parts DEF ReadPty, FlagsOK
  <2>. QED
    BY <1>1, <2>1, <2>2, Kept, Parts DEF ReadPty
<1>2. CASE Route
  <2>1. PICK n \in routed + 1 .. printed :
          LET units == [i \in 1 .. n - routed |-> routed + i]
          IN /\ routed' = n
             /\ IF up
                  THEN /\ wire' = Append(wire, [type |-> "OUTPUT", units |-> units])
                       /\ UNCHANGED away
                  ELSE /\ \E k \in 1 .. Len(away) + 1 :
                            away' = SubSeq(Append(away, units), k, Len(away) + 1)
                       /\ UNCHANGED wire
    BY <1>2 DEF Route
  <2>. DEFINE units == [i \in 1 .. n - routed |-> routed + i]
  <2>2. n \in Int /\ routed <= n /\ n <= printed /\ routed \in 0..MaxPrint /\ n \in routed + 1 .. MaxPrint
    BY <2>1, Numbers
  <2>3. /\ units \in Seq(Unit) /\ units # <<>>
        /\ Rising(units) /\ Within(units, routed, n)
    BY <2>2, RoutedUnits
  <2>4. NumbersOK'
    <3>1. heard \in 0..n /\ n \in 0..printed
      BY <2>2, Numbers
    <3>. QED
      BY <1>2, <2>1, <3>1, Parts DEF Route, NumbersOK
  <2>5. FlagsOK'
    BY <1>2, Parts DEF Route, FlagsOK
  <2>6. CASE up
    <3>1. wire' = Append(wire, [type |-> "OUTPUT", units |-> units]) /\ UNCHANGED away
      BY <2>1, <2>6
    <3>. HIDE DEF units
    <3>2. WireInOrder'
      BY <1>2, <2>1, <2>2, <2>3, <3>1, WireRouted DEF Route
    <3>3. ConnOK'
      <4>1. wire \in Seq(Frame) /\ toAgent \in Seq(Request)
        BY Parts DEF ConnOK
      <4>2. [type |-> "OUTPUT", units |-> units] \in Frame
        BY <2>3, OutputFrame
      <4>3. wire' \in Seq(Frame)
        BY <3>1, <4>1, <4>2, AppendFacts
      <4>. QED
        BY <1>2, <4>1, <4>3 DEF Route, ConnOK
    <3>4. away' = <<>> /\ OneWayOut'
      BY <1>2, <2>6, <3>1 DEF Route, OneWayOut
    <3>. QED
      BY <1>2, <2>4, <2>5, <3>1, <3>2, <3>3, <3>4, Kept, Parts, AwayGone DEF Route
  <2>7. CASE ~up
    <3>1. PICK k \in 1 .. Len(away) + 1 :
            away' = SubSeq(Append(away, units), k, Len(away) + 1)
      BY <2>1, <2>7
    <3>2. wire' = wire /\ wire = <<>>
      BY <2>1, <2>7 DEF OneWayOut
    <3>. HIDE DEF units
    <3>3. AwayInOrder' /\ away' \in Seq(Seq(Unit))
      BY <1>2, <2>1, <2>2, <2>3, <3>1, AwayRouted DEF Route
    <3>4. AgentOK'
      BY <1>2, <3>3, Parts DEF Route, AgentOK
    <3>5. OneWayOut'
      BY <1>2, <2>7, <3>2 DEF Route, OneWayOut
    <3>. QED
      BY <1>2, <2>4, <2>5, <3>2, <3>3, <3>4, <3>5, Kept, Parts, WireGone DEF Route
  <2>. QED
    BY <2>6, <2>7
<1>3. CASE TakeScreen
  <2>1. toAgent \in Seq(Request) /\ toAgent # <<>> /\ printed \in Snapshot
    BY <1>3, Parts DEF TakeScreen, ConnOK, NumbersOK, Snapshot
  <2>2. Head(toAgent) \in Request /\ Tail(toAgent) \in Seq(Request)
    BY <2>1, TailFacts
  <2>3. AgentOK'
    <3>1. [for |-> Head(toAgent), at |-> printed] \in [for : Request, at : Snapshot]
      BY <2>1, <2>2
    <3>. QED
      BY <1>3, <3>1, Parts DEF TakeScreen, AgentOK
  <2>4. ConnOK'
    BY <1>3, <2>2, Parts DEF TakeScreen, ConnOK
  <2>5. FlagsOK'
    BY <1>3, Parts DEF TakeScreen, FlagsOK
  <2>6. OneWayOut'
    BY <1>3 DEF TakeScreen, OneWayOut
  <2>. QED
    BY <1>3, <2>3, <2>4, <2>5, <2>6, Kept, Parts DEF TakeScreen
<1>4. CASE Answer
  <2>. DEFINE t == Head(taken)
              f == IF t.for = SnapshotReq THEN [type |-> "SNAPSHOT_RES", at |-> t.at]
                   ELSE [type |-> "ATTACH_OK", id |-> t.for, at |-> t.at]
  <2>1. t \in [for : Request, at : Snapshot]
    BY <1>4, Parts, TailFacts DEF Answer, AgentOK
  <2>2. f \in Frame /\ f.type # "OUTPUT"
    BY <2>1 DEF Frame
  <2>3. wire' = Append(wire, f)
    BY <1>4 DEF Answer
  <2>. HIDE DEF f
  <2>4. WireInOrder'
    BY <1>4, <2>2, <2>3, WireAnswered DEF Answer
  <2>5. ConnOK'
    <3>1. wire \in Seq(Frame) /\ toAgent \in Seq(Request)
      BY Parts DEF ConnOK
    <3>2. wire' \in Seq(Frame)
      BY <2>2, <2>3, <3>1, AppendFacts
    <3>. QED
      BY <1>4, <3>1, <3>2 DEF Answer, ConnOK
  <2>6. AgentOK'
    BY <1>4, Parts DEF Answer, AgentOK
  <2>7. FlagsOK'
    BY <1>4, Parts DEF Answer, FlagsOK
  <2>8. OneWayOut'
    BY <1>4, Parts DEF Answer, OneWayOut, FlagsOK
  <2>. QED
    BY <1>4, <2>4, <2>5, <2>6, <2>7, <2>8, Kept, Parts DEF Answer
<1>. QED
  BY <1>1, <1>2, <1>3, <1>4 DEF AgentNext

-----------------------------------------------------------------------------
(* The hub reads the connection.                                           *)

LEMMA NextOfReadKeeps ==
  ASSUME ReplayInv, NEW type, MayRead(type), NextOfRead
  PROVE  /\ wire \in Seq(Frame) /\ wire # <<>> /\ Head(wire) \in Frame
         /\ wire' \in Seq(Frame) /\ wire' = Tail(wire)
         /\ reading' \in BOOLEAN /\ Head(wire).type = type
         /\ up
<1>1. wire \in Seq(Frame) /\ wire # <<>> /\ Head(wire).type = type
  BY DEF ReplayInv, TypeOK, MayRead
<1>2. up
  BY <1>1, Parts DEF ReplayInv, OrderInv, OneWayOut
<1>. QED
  <2>1. wire' = Tail(wire) /\ reading' \in {FALSE, Len(wire) > 1}
    BY DEF NextOfRead
  <2>2. reading' \in BOOLEAN
    <3>1. (Len(wire) > 1) \in BOOLEAN
      OBVIOUS
    <3>. QED
      BY <2>1, <3>1, Zenon
  <2>3. Head(wire) \in Frame /\ Tail(wire) \in Seq(Frame)
    BY <1>1, TailFacts
  <2>. QED
    BY <1>1, <1>2, <2>1, <2>2, <2>3

LEMMA ReadsKeep ==
  ASSUME ReplayInv, ReadOutput \/ ReadSnapshot \/ ReadAttachOk
  PROVE  ReplayInv'
<1>. USE DEF ReplayInv, OrderInv, agentVars, connVars, spoolVars, schedVars, countVars
<1>0. OneWayOut /\ heard \in Nat
  BY Numbers
<1>1. CASE ReadOutput
  <2>1. MayRead("OUTPUT") /\ NextOfRead
    BY <1>1 DEF ReadOutput
  <2>. DEFINE us == Head(wire).units
  <2>2. /\ panes' = Written(us) /\ heard' = us[Len(us)] /\ buffer' = buffer \o us
        /\ UNCHANGED <<tail, snap, routed>>
    BY <1>1 DEF ReadOutput
  <2>3. /\ us \in Seq(Unit) /\ Rising(us) /\ Within(us, heard, heard')
        /\ heard' \in heard + 1 .. routed /\ WireInOrder'
    BY <2>1, <2>2, NextOfReadKeeps, WireRead
  <2>. HIDE DEF us
  <2>4. heard' \in Nat /\ heard <= heard' /\ heard' \in 0..routed
    BY <2>3, Numbers
  <2>5. NumbersOK'
    BY <1>1, <2>4, Parts DEF ReadOutput, NumbersOK
  <2>6. SpoolInOrder' /\ SpoolTypeOK'
    BY <2>2, <2>3, SpoolReads
  <2>7. PanesOK' /\ PanesInOrder'
    <3>. DEFINE f == [p \in Pane |-> IF Subscribed(p) THEN [panes[p] EXCEPT !.text = @ \o us]
                                     ELSE panes[p]]
    <3>1. \A p \in Pane : PaneOK(f[p], heard')
      BY <1>0, <2>3, <2>4, PanesAreOK, PaneWritten
    <3>2. panes' = [p \in Pane |-> f[p]]
      BY <2>2 DEF Written
    <3>. HIDE DEF f
    <3>. QED
      BY <3>1, <3>2, PanesStayOK DEF PanesOK
  <2>8. ConnOK'
    BY <1>1, <2>1, NextOfReadKeeps, Parts DEF ReadOutput, ConnOK
  <2>9. up /\ away = <<>>
    BY <2>1, NextOfReadKeeps DEF OneWayOut
  <2>10. AwayInOrder' /\ OneWayOut'
    BY <1>1, <2>9, AwayGone DEF ReadOutput, OneWayOut
  <2>11. FlagsOK'
    BY <1>1, <2>1, NextOfReadKeeps, Parts DEF ReadOutput, onOutput, FlagsOK
  <2>. QED
    BY <1>1, <2>3, <2>5, <2>6, <2>7, <2>8, <2>10, <2>11, Kept, Parts DEF ReadOutput
<1>2. CASE ReadSnapshot
  <2>1. MayRead("SNAPSHOT_RES") /\ NextOfRead
    BY <1>2 DEF ReadSnapshot
  <2>2. Head(wire).at \in Snapshot
    BY <2>1, NextOfReadKeeps DEF Frame
  <2>3. SpoolInOrder' /\ SpoolTypeOK'
    BY <1>2, <2>2, SpoolSteps DEF ReadSnapshot
  <2>4. ConnOK' /\ WireInOrder'
    BY <1>2, <2>1, NextOfReadKeeps, Parts, WireShorter DEF ReadSnapshot, ConnOK
  <2>5. OneWayOut'
    BY <1>2, <2>1, NextOfReadKeeps DEF ReadSnapshot, OneWayOut
  <2>6. FlagsOK'
    BY <1>2, <2>1, NextOfReadKeeps, Parts DEF ReadSnapshot, FlagsOK
  <2>7. CountsOK'
    BY <1>2, SlotsAssumption, Parts DEF ReadSnapshot, CountsOK
  <2>. QED
    BY <1>2, <2>3, <2>4, <2>5, <2>6, <2>7, Kept, Parts DEF ReadSnapshot
<1>3. CASE ReadAttachOk
  <2>1. MayRead("ATTACH_OK") /\ NextOfRead
    BY <1>3 DEF ReadAttachOk
  <2>2. Head(wire).at \in Snapshot
    BY <2>1, NextOfReadKeeps DEF Frame
  <2>3. PanesOK' /\ PanesInOrder'
    <3>. DEFINE f == [p \in Pane |->
                       IF panes[p].state = "asking" /\ panes[p].ask = Head(wire).id
                       THEN [panes[p] EXCEPT !.state = "answered", !.answer = Head(wire).at]
                       ELSE panes[p]]
    <3>1. \A p \in Pane : PaneOK(f[p], heard)
      BY <1>0, <2>2, PanesAreOK, PaneEdits, Zeros
    <3>2. panes' = [p \in Pane |-> f[p]] /\ heard' = heard
      BY <1>3 DEF ReadAttachOk
    <3>. HIDE DEF f
    <3>. QED
      BY <3>1, <3>2, PanesStayOK DEF PanesOK
  <2>4. ConnOK' /\ WireInOrder'
    BY <1>3, <2>1, NextOfReadKeeps, Parts, WireShorter DEF ReadAttachOk, ConnOK
  <2>5. OneWayOut'
    BY <1>3, <2>1, NextOfReadKeeps DEF ReadAttachOk, OneWayOut
  <2>6. FlagsOK'
    BY <1>3, <2>1, NextOfReadKeeps, Parts DEF ReadAttachOk, FlagsOK
  <2>. QED
    BY <1>3, <2>3, <2>4, <2>5, <2>6, Kept, Parts DEF ReadAttachOk
<1>. QED
  BY <1>1, <1>2, <1>3

-----------------------------------------------------------------------------
(* The scheduler and the chunker.                                          *)

(* What _requestSnapshot leaves of the invariant.                          *)
LEMMA RequestKeeps ==
  ASSUME ReplayInv, requestSnapshot, UNCHANGED <<wire, up, faults, attaches, away, taken>>
  PROVE  /\ ConnOK' /\ CountsOK' /\ OneWayOut'
         /\ changed' \in BOOLEAN /\ timer' \in BOOLEAN /\ overlooked' \in BOOLEAN
<1>. USE DEF ReplayInv, OrderInv
<1>0. FlagsOK /\ CountsOK /\ ConnOK /\ OneWayOut
  BY Parts
<1>1. CASE UNCHANGED <<schedVars, toAgent, overlooked>>
  <2>1. ConnOK' /\ CountsOK' /\ OneWayOut'
    BY <1>1, Kept DEF schedVars
  <2>. QED
    BY <1>0, <1>1, <2>1 DEF schedVars, FlagsOK
<1>2. CASE /\ ~(inFlight >= MaxInFlight \/ ~up)
           /\ toAgent' = Append(toAgent, SnapshotReq)
           /\ changed' = FALSE /\ inFlight' = inFlight + 1
           /\ timer' = TRUE /\ overlooked' = FALSE
  <2>1. ConnOK'
    BY <1>0, <1>2, AppendFacts, Zeros DEF ConnOK
  <2>2. CountsOK'
    BY <1>0, <1>2, SlotsAssumption DEF CountsOK
  <2>3. OneWayOut'
    BY <1>0, <1>2 DEF OneWayOut
  <2>. QED
    BY <1>2, <2>1, <2>2, <2>3
<1>. QED
  BY <1>1, <1>2 DEF requestSnapshot

LEMMA SchedulerKeeps ==
  ASSUME ReplayInv, Flush \/ Tick \/ SnapshotTimeout \/ Resize
  PROVE  ReplayInv'
<1>. USE DEF ReplayInv, OrderInv, agentVars, connVars, spoolVars, schedVars, countVars
<1>1. CASE Flush
  <2>1. SpoolInOrder' /\ SpoolTypeOK'
    BY <1>1, SpoolSteps DEF Flush
  <2>2. FlagsOK'
    BY <1>1, Parts DEF Flush, FlagsOK
  <2>. QED
    BY <1>1, <2>1, <2>2, Kept, Parts DEF Flush
<1>2. CASE Tick
  <2>1. /\ ConnOK' /\ CountsOK' /\ OneWayOut'
        /\ changed' \in BOOLEAN /\ timer' \in BOOLEAN /\ overlooked' \in BOOLEAN
    BY <1>2, RequestKeeps DEF Tick
  <2>2. FlagsOK'
    BY <1>2, <2>1, Parts DEF Tick, FlagsOK
  <2>. QED
    BY <1>2, <2>1, <2>2, Kept, Parts DEF Tick
<1>3. CASE SnapshotTimeout
  <2>1. FlagsOK'
    BY <1>3, Parts DEF SnapshotTimeout, FlagsOK
  <2>2. CountsOK'
    BY <1>3, SlotsAssumption, Parts DEF SnapshotTimeout, CountsOK
  <2>. QED
    BY <1>3, <2>1, <2>2, Kept, Parts DEF SnapshotTimeout
<1>4. CASE Resize
  <2>1. FlagsOK'
    BY <1>4, Parts DEF Resize, onOutput, FlagsOK
  <2>. QED
    BY <1>4, <2>1, Kept, Parts DEF Resize
<1>. QED
  BY <1>1, <1>2, <1>3, <1>4

-----------------------------------------------------------------------------
(* Attaches and detaches.                                                  *)

(* One pane changes.                                                       *)
LEMMA OnePane ==
  ASSUME ReplayInv, NEW p \in Pane, NEW r, PaneOK(r, heard),
         panes' = [panes EXCEPT ![p] = r], UNCHANGED heard
  PROVE  PanesOK' /\ PanesInOrder'
<1>1. panes' = [q \in Pane |-> (panes')[q]] /\ \A q \in Pane : PaneOK((panes')[q], heard')
  BY PanesAreOK
<1>. QED
  BY <1>1, PanesAreOK DEF PanesOK, PanesInOrder, PaneOK

LEMMA AttachKeeps ==
  ASSUME ReplayInv, NEW p \in Pane,
         Attach(p) \/ FinishAttach(p) \/ AttachTimeout(p) \/ Detach(p)
  PROVE  ReplayInv'
<1>. USE DEF ReplayInv, OrderInv, agentVars, connVars, spoolVars, schedVars, countVars
<1>0. /\ heard \in Nat /\ OneWayOut
      /\ panes[p] \in PaneRecord /\ PaneOK(panes[p], heard) /\ panes \in [Pane -> PaneRecord]
  BY Numbers, PanesAreOK
<1>1. CASE Attach(p) /\ up
  <2>1. attaches' = attaches + 1 /\ attaches + 1 \in Request /\ attaches' \in 0..MaxAttach
    BY <1>1, Parts, BoundsAssumption DEF Attach, CountsOK, Request
  <2>2. PanesOK' /\ PanesInOrder'
    <3>. DEFINE b == (panes[p].state # "away")
                r == [panes[p] EXCEPT !.state = "asking", !.ask = attaches + 1, !.keep = b]
    <3>1. PaneOK(r, heard)
      <4>1. b \in BOOLEAN
        OBVIOUS
      <4>. HIDE DEF b
      <4>. QED
        BY <1>0, <2>1, <4>1, PaneEdits, Zeros
    <3>2. panes' = [panes EXCEPT ![p] = r] /\ UNCHANGED heard
      BY <1>0, <1>1 DEF Attach
    <3>. HIDE DEF r
    <3>. QED
      BY <3>1, <3>2, OnePane
  <2>3. ConnOK'
    <3>1. toAgent \in Seq(Request) /\ toAgent' = Append(toAgent, attaches + 1)
      BY <1>1, Parts DEF Attach, ConnOK
    <3>2. toAgent' \in Seq(Request)
      BY <2>1, <3>1, AppendFacts
    <3>. QED
      BY <1>1, <3>2, Parts DEF Attach, ConnOK
  <2>4. OneWayOut'
    BY <1>0, <1>1 DEF Attach, OneWayOut
  <2>5. CountsOK'
    BY <1>1, <2>1, Parts DEF Attach, CountsOK
  <2>6. FlagsOK'
    BY <1>1, Parts DEF Attach, FlagsOK
  <2>. QED
    BY <1>1, <2>2, <2>3, <2>4, <2>5, <2>6, Kept, Parts DEF Attach
<1>2. CASE Attach(p) /\ ~up
  <2>1. attaches' = attaches + 1 /\ attaches' \in 0..MaxAttach
    BY <1>2, Parts, BoundsAssumption DEF Attach, CountsOK
  <2>2. PanesOK' /\ PanesInOrder'
    <3>. DEFINE r == IF panes[p].state = "away" THEN Shown(p, "cached", snap, ReplayTail)
                     ELSE [panes[p] EXCEPT !.state = "cached", !.fresh = FALSE]
    <3>1. PaneOK(r, heard)
      BY <1>0, SpoolFacts, ShownOK, PaneEdits, Zeros
    <3>2. panes' = [panes EXCEPT ![p] = r] /\ UNCHANGED heard
      BY <1>0, <1>2 DEF Attach
    <3>. HIDE DEF r
    <3>. QED
      BY <3>1, <3>2, OnePane
  <2>3. CountsOK'
    BY <1>2, <2>1, Parts DEF Attach, CountsOK
  <2>4. FlagsOK'
    BY <1>2, Parts DEF Attach, FlagsOK
  <2>. QED
    BY <1>2, <2>2, <2>3, <2>4, Kept, Parts DEF Attach
<1>3. CASE FinishAttach(p)
  <2>1. panes[p].answer \in Snapshot
    BY <1>0 DEF PaneRecord
  <2>2. SpoolInOrder' /\ SpoolTypeOK'
    BY <1>3, <2>1, SpoolSteps DEF FinishAttach
  <2>3. PanesOK' /\ PanesInOrder'
    <3>. DEFINE r == Shown(p, "live", panes[p].answer, <<>>)
    <3>1. PaneOK(r, heard)
      <4>1. <<>> \in Seq(Unit) /\ Rising(<<>>) /\ Within(<<>>, 0, heard)
        BY EmptyInOrder
      <4>. QED
        BY <2>1, <4>1, ShownOK
    <3>2. panes' = [panes EXCEPT ![p] = r] /\ UNCHANGED heard
      BY <1>0, <1>3 DEF FinishAttach
    <3>. HIDE DEF r
    <3>. QED
      BY <3>1, <3>2, OnePane
  <2>4. FlagsOK'
    <3>1. overlooked' \in BOOLEAN
      BY <1>3 DEF FinishAttach
    <3>. QED
      BY <1>3, <3>1, Parts DEF FinishAttach, FlagsOK
  <2>. QED
    BY <1>3, <2>2, <2>3, <2>4, Kept, Parts DEF FinishAttach
<1>4. CASE AttachTimeout(p)
  <2>1. PanesOK' /\ PanesInOrder'
    <3>1. PaneOK(Shown(p, "cached", snap, ReplayTail), heard)
      BY SpoolFacts, ShownOK
    <3>. QED
      BY <1>4, <3>1, OnePane DEF AttachTimeout
  <2>2. FlagsOK'
    BY <1>4, Parts DEF AttachTimeout, FlagsOK
  <2>. QED
    BY <1>4, <2>1, <2>2, Kept, Parts DEF AttachTimeout
<1>5. CASE Detach(p)
  <2>1. PanesOK' /\ PanesInOrder'
    BY <1>0, <1>5, NewPaneOK, OnePane DEF Detach
  <2>2. /\ ConnOK' /\ CountsOK' /\ OneWayOut'
        /\ changed' \in BOOLEAN /\ timer' \in BOOLEAN /\ overlooked' \in BOOLEAN
    <3>1. CASE requestSnapshot
      BY <1>5, <3>1, RequestKeeps DEF Detach
    <3>2. CASE UNCHANGED <<schedVars, toAgent, overlooked>>
      <4>1. ConnOK' /\ CountsOK' /\ OneWayOut'
        BY <1>5, <3>2, Kept DEF Detach
      <4>. QED
        BY <3>2, <4>1, Parts DEF FlagsOK
    <3>. QED
      BY <1>5, <3>1, <3>2 DEF Detach
  <2>3. FlagsOK'
    BY <1>5, <2>2, Parts DEF Detach, FlagsOK
  <2>. QED
    BY <1>5, <2>1, <2>2, <2>3, Kept, Parts DEF Detach
<1>6. up \in BOOLEAN
  BY Parts DEF FlagsOK
<1>. QED
  BY <1>1, <1>2, <1>3, <1>4, <1>5, <1>6

-----------------------------------------------------------------------------
(* Faults.                                                                 *)

LEMMA GoneKeeps ==
  ASSUME ReplayInv, ConnectionGone, UNCHANGED away
  PROVE  AgentOK' /\ ConnOK' /\ WireInOrder' /\ OneWayOut' /\ up' \in BOOLEAN
<1>1. AgentOK'
  BY Parts DEF ReplayInv, ConnectionGone, AgentOK
<1>2. ConnOK'
  BY DEF ConnectionGone, ConnOK
<1>. QED
  BY <1>1, <1>2, WireGone DEF ConnectionGone, OneWayOut

LEMMA FaultsKeep ==
  ASSUME ReplayInv, Fault
  PROVE  ReplayInv'
<1>. USE DEF ReplayInv, OrderInv, agentVars, connVars, spoolVars, schedVars, countVars
<1>0. heard \in Nat /\ OneWayOut
  BY Numbers
<1>1. CASE Drop
  <2>1. AgentOK' /\ ConnOK' /\ WireInOrder' /\ OneWayOut' /\ up' \in BOOLEAN
    BY <1>1, GoneKeeps DEF Drop
  <2>2. PanesOK' /\ PanesInOrder'
    <3>. DEFINE f == [p \in Pane |-> IF panes[p].state = "live"
                                     THEN [panes[p] EXCEPT !.state = "cached"] ELSE panes[p]]
    <3>1. \A p \in Pane : PaneOK(f[p], heard)
      BY <1>0, PanesAreOK, PaneEdits, Zeros
    <3>2. panes' = [p \in Pane |-> f[p]] /\ heard' = heard
      BY <1>1 DEF Drop
    <3>. HIDE DEF f
    <3>. QED
      BY <3>1, <3>2, PanesStayOK DEF PanesOK
  <2>3. FlagsOK'
    <3>1. overlooked' \in BOOLEAN
      BY <1>1 DEF Drop
    <3>. QED
      BY <1>1, <2>1, <3>1, Parts DEF Drop, FlagsOK
  <2>4. CountsOK'
    BY <1>1, Parts, BoundsAssumption DEF Drop, CountsOK
  <2>. QED
    BY <1>1, <2>1, <2>2, <2>3, <2>4, Kept, Parts DEF Drop
<1>2. CASE Reconnect
  <2>1. WireInOrder' /\ wire' \in Seq(Frame)
    BY <1>2, WireRegained DEF Reconnect
  <2>2. ConnOK'
    BY <1>2, <2>1, Parts DEF Reconnect, ConnOK
  <2>3. AgentOK' /\ AwayInOrder' /\ OneWayOut'
    <3>1. AgentOK'
      BY <1>2, Parts DEF Reconnect, AgentOK
    <3>. QED
      BY <1>2, <3>1, AwayGone DEF Reconnect, OneWayOut
  <2>4. FlagsOK'
    BY <1>2, Parts DEF Reconnect, FlagsOK
  <2>. QED
    BY <1>2, <2>1, <2>2, <2>3, <2>4, Kept, Parts DEF Reconnect
<1>3. ASSUME NEW stored \in BOOLEAN, HubRestart(stored)
      PROVE  ReplayInv'
  <2>1. AgentOK' /\ ConnOK' /\ WireInOrder' /\ OneWayOut' /\ up' \in BOOLEAN
    BY <1>3, GoneKeeps DEF HubRestart
  <2>2. PanesOK' /\ PanesInOrder'
    <3>. DEFINE f == [p \in Pane |->
                       [panes[p] EXCEPT !.state = "away", !.keep = FALSE, !.ask = 0,
                                        !.answer = NoSnapshot]]
    <3>1. \A p \in Pane : PaneOK(f[p], heard)
      BY <1>0, PanesAreOK, PaneEdits, Zeros
    <3>2. panes' = [p \in Pane |-> f[p]] /\ heard' = heard
      BY <1>3 DEF HubRestart
    <3>. HIDE DEF f
    <3>. QED
      BY <3>1, <3>2, PanesStayOK DEF PanesOK
  <2>3. SpoolInOrder' /\ SpoolTypeOK'
    BY <1>3, SpoolSteps DEF HubRestart
  <2>4. FlagsOK'
    BY <1>3, <2>1, Parts DEF HubRestart, Restored, FlagsOK
  <2>5. CountsOK'
    <3>1. CountsOK
      BY Parts
    <3>2. faults < MaxFaults /\ faults' = faults + 1 /\ attaches' = attaches /\ inFlight' = 0
      BY <1>3 DEF HubRestart
    <3>3. faults' \in 0..MaxFaults
      BY <3>1, <3>2, BoundsAssumption DEF CountsOK
    <3>. QED
      BY <3>1, <3>2, <3>3, Zeros DEF CountsOK
  <2>. QED
    BY <1>3, <2>1, <2>2, <2>3, <2>4, <2>5, Kept, Parts DEF HubRestart
<1>. QED
  BY <1>1, <1>2, <1>3 DEF Fault

-----------------------------------------------------------------------------
(* Every variable has its type, and the units of output are in the order   *)
(* they were printed wherever they are: kept by the agent, on the wire, in *)
(* the chunker, in the spool and in every pane.                            *)
THEOREM ReplayInOrder == Spec => []ReplayInv
<1>1. ASSUME Init
      PROVE  ReplayInv
  <2>1. 0 \in 0..MaxPrint /\ 0 \in 0..0 /\ 0 \in 0..MaxFaults /\ 0 \in 0..MaxAttach
    BY BoundsAssumption
  <2>2. NumbersOK /\ CountsOK /\ FlagsOK
    BY <1>1, <2>1, Zeros DEF Init, NumbersOK, CountsOK, FlagsOK
  <2>3. AgentOK /\ ConnOK
    <3>1. \A S : <<>> \in Seq(S)
      OBVIOUS
    <3>2. Len(<<>>) <= 1
      OBVIOUS
    <3>. QED
      BY <1>1, <3>1, <3>2 DEF Init, AgentOK, ConnOK
  <2>4. SpoolTypeOK
    BY <1>1, Zeros DEF Init, SpoolTypeOK
  <2>5. \A p \in Pane : PaneOK(panes[p], heard)
    BY <1>1, NewPaneOK DEF Init
  <2>6. PanesOK /\ PanesInOrder
    BY <1>1, <2>5 DEF Init, PanesOK, PanesInOrder, PaneOK
  <2>7. WireInOrder /\ AwayInOrder /\ OneWayOut
    BY <1>1 DEF Init, WireInOrder, AwayInOrder, OneWayOut
  <2>8. SpoolInOrder
    BY <1>1, EmptyInOrder DEF Init, SpoolInOrder
  <2>. QED
    BY <2>2, <2>3, <2>4, <2>6, <2>7, <2>8, Parts DEF ReplayInv, OrderInv
<1>2. ReplayInv /\ [Next]_vars => ReplayInv'
  <2>1. ASSUME ReplayInv, Next
        PROVE  ReplayInv'
    BY <2>1, AgentKeeps, ReadsKeep, SchedulerKeeps, AttachKeeps, FaultsKeep DEF Next, HubNext
  <2>2. ASSUME ReplayInv, UNCHANGED vars
        PROVE  ReplayInv'
    <3>1. FlagsOK'
      BY <2>2, Parts DEF ReplayInv, vars, FlagsOK, connVars, schedVars
    <3>. QED
      BY <2>2, <3>1, Kept, Parts
         DEF ReplayInv, OrderInv, vars, agentVars, connVars, spoolVars, schedVars, countVars
  <2>. QED
    BY <2>1, <2>2
<1>. QED
  BY <1>1, <1>2, PTL DEF Spec

(* No pane writes output twice or older output after newer, whatever was   *)
(* lost, replayed, kept by the agent or asked for again.                   *)
THEOREM PanesAreInOrder == Spec => []PaneInOrder
<1>1. ReplayInv => PaneInOrder
  <2>. SUFFICES ASSUME ReplayInv, NEW p \in Pane, NEW i \in 1 .. Len(panes[p].text) - 1
                PROVE  panes[p].text[i] < panes[p].text[i + 1]
    BY DEF PaneInOrder
  <2>1. panes[p].text \in Seq(Unit) /\ Rising(panes[p].text)
    BY PanesAreOK DEF PaneOK, PaneRecord
  <2>2. i \in DOMAIN panes[p].text /\ i + 1 \in DOMAIN panes[p].text /\ i < i + 1
    BY <2>1
  <2>. QED
    BY <2>1, <2>2 DEF Rising
<1>. QED
  BY <1>1, ReplayInOrder, PTL

-----------------------------------------------------------------------------
(* The slots of the scheduler.                                             *)

(* All slots taken means that a timeout runs, whatever became of the       *)
(* answers: a slot that leaks comes back.                                  *)
THEOREM SlotsAreFreed == Spec => []SlotsComeBack
<1>1. Init => SlotsComeBack
  BY SlotsAssumption DEF Init, SlotsComeBack
<1>2. ASSUME ReplayInv, SlotsComeBack, [Next]_vars
      PROVE  SlotsComeBack'
  <2>. USE DEF agentVars, connVars, spoolVars, schedVars, countVars
  <2>1. /\ inFlight \in Nat /\ MaxInFlight \in Nat /\ MaxInFlight >= 1
        /\ inFlight <= MaxInFlight
    BY <1>2, Parts, SlotsAssumption DEF ReplayInv, CountsOK
  <2>2. CASE UNCHANGED <<inFlight, timer>>
    BY <1>2, <2>2 DEF SlotsComeBack
  <2>3. CASE inFlight' = IF inFlight > 0 THEN inFlight - 1 ELSE 0
    BY <2>1, <2>3 DEF SlotsComeBack
  <2>4. CASE inFlight' = 0
    BY <2>1, <2>4 DEF SlotsComeBack
  <2>5. CASE requestSnapshot
    BY <2>2, <2>5 DEF requestSnapshot, SlotsComeBack
  <2>6. CASE AgentNext
    BY <2>2, <2>6 DEF AgentNext, ReadPty, Route, TakeScreen, Answer
  <2>7. CASE \/ ReadOutput \/ ReadSnapshot \/ ReadAttachOk
             \/ Flush \/ Tick \/ SnapshotTimeout \/ Resize
    BY <2>2, <2>3, <2>5, <2>7
       DEF ReadOutput, ReadSnapshot, ReadAttachOk, Flush, Tick, SnapshotTimeout, Resize
  <2>8. ASSUME NEW p \in Pane, Attach(p) \/ FinishAttach(p) \/ AttachTimeout(p) \/ Detach(p)
        PROVE  SlotsComeBack'
    BY <2>2, <2>5, <2>8 DEF Attach, FinishAttach, AttachTimeout, Detach
  <2>9. CASE Fault
    BY <2>2, <2>4, <2>9 DEF Fault, Drop, Reconnect, HubRestart
  <2>10. CASE UNCHANGED vars
    BY <2>2, <2>10 DEF vars
  <2>. QED
    BY <1>2, <2>6, <2>7, <2>8, <2>9, <2>10 DEF Next, HubNext
<1>. QED
  BY <1>1, <1>2, ReplayInOrder, PTL DEF Spec

-----------------------------------------------------------------------------
(* What the spool lacks.                                                   *)

(* A step that leaves the spool alone, and every reason to take the screen.*)
LEMMA KnownStays ==
  ASSUME StaleInv, UNCHANGED <<heard, spoolVars>>, Known => Known'
  PROVE  StaleIsKnown' /\ TailIsKnown'
<1>1. Stored' = Stored
  BY DEF Stored, spoolVars
<1>2. StaleIsKnown <=> (1..heard \subseteq Stored \/ Known)
  BY DEF StaleIsKnown, Known
<1>3. StaleIsKnown' <=> (1..heard' \subseteq Stored' \/ Known')
  BY DEF StaleIsKnown, Known
<1>4. TailIsKnown'
  BY DEF StaleInv, TailIsKnown, spoolVars
<1>. QED
  BY <1>1, <1>2, <1>3, <1>4 DEF StaleInv

(* A step after which the scheduler knows of a change.                     *)
LEMMA ChangeIsKnown ==
  ASSUME changed'
  PROVE  StaleInv'
BY DEF StaleInv, StaleIsKnown, TailIsKnown, Known, LastScreenIsNew

LEMMA OneElement ==
  ASSUME NEW S, NEW s \in Seq(S), s # <<>>, Len(s) <= 1
  PROVE  DOMAIN s = {1}
<1>1. Len(s) \in Nat /\ Len(s) # 0 /\ DOMAIN s = 1 .. Len(s)
  OBVIOUS
<1>2. Len(s) = 1
  BY <1>1
<1>. QED
  BY <1>1, <1>2

LEMMA TailRest ==
  ASSUME NEW S, NEW s \in Seq(S), s # <<>>
  PROVE  \A i \in DOMAIN s : i # 1 => i - 1 \in DOMAIN Tail(s) /\ Tail(s)[i - 1] = s[i]
OBVIOUS

(* A screen that comes is still to come once what is not one was put on    *)
(* the wire or read from it.                                               *)
LEMMA LastScreenAppended ==
  ASSUME ReplayInv, LastScreenIsNew, NEW f \in Frame, f.type # "SNAPSHOT_RES",
         wire' = Append(wire, f),
         \/ UNCHANGED taken
         \/ taken' = <<>> /\ \A i \in DOMAIN taken : taken[i].for # SnapshotReq,
         UNCHANGED <<changed, toAgent, heard>>
  PROVE  LastScreenIsNew' /\ (SnapshotIn(wire) => SnapshotIn(wire'))
<1>1. wire \in Seq(Frame)
  BY DEF ReplayInv, TypeOK
<1>2. /\ \A i \in DOMAIN wire' : wire'[i].type = "SNAPSHOT_RES" => i \in DOMAIN wire /\ wire'[i] = wire[i]
      /\ \A i \in DOMAIN wire : i \in DOMAIN wire' /\ wire'[i] = wire[i]
  BY <1>1, AppendFacts
<1>3. SnapshotIn(wire) => SnapshotIn(wire')
  BY <1>2 DEF SnapshotIn
<1>. QED
  BY <1>2, <1>3 DEF LastScreenIsNew

LEMMA LastScreenRead ==
  ASSUME ReplayInv, LastScreenIsNew, wire # <<>>, wire' = Tail(wire),
         UNCHANGED <<changed, toAgent, taken, heard>>
  PROVE  /\ LastScreenIsNew'
         /\ Head(wire).type # "SNAPSHOT_RES" /\ SnapshotComes => SnapshotComes'
         /\ Head(wire).type = "SNAPSHOT_RES" /\ ~changed =>
              SnapshotComes' \/ heard <= Head(wire).at
<1>1. wire \in Seq(Frame)
  BY DEF ReplayInv, TypeOK
<1>2. /\ \A i \in DOMAIN wire' : i + 1 \in DOMAIN wire /\ wire'[i] = wire[i + 1] /\ i \in Int /\ i > 0
      /\ \A i \in DOMAIN wire : i # 1 => i - 1 \in DOMAIN wire' /\ wire'[i - 1] = wire[i]
      /\ \A i \in DOMAIN wire : i \in Int /\ i >= 1
      /\ Head(wire) = wire[1] /\ 1 \in DOMAIN wire
  BY <1>1, TailFacts, TailRest
<1>3. LastScreenIsNew'
  <2>. SUFFICES ASSUME ~changed', SnapshotReq \notin Range(toAgent)',
                       \A i \in DOMAIN taken' : taken'[i].for # SnapshotReq,
                       NEW i \in DOMAIN wire', wire'[i].type = "SNAPSHOT_RES",
                       \A j \in DOMAIN wire' : i < j => wire'[j].type # "SNAPSHOT_RES"
                PROVE  heard' <= wire'[i].at
    BY DEF LastScreenIsNew
  <2>1. ASSUME NEW j \in DOMAIN wire, i + 1 < j
        PROVE  wire[j].type # "SNAPSHOT_RES"
    <3>1. j # 1 /\ i < j - 1
      BY <1>2, <2>1
    <3>. QED
      BY <1>2, <3>1
  <2>. QED
    BY <1>2, <2>1 DEF LastScreenIsNew
<1>4. ASSUME Head(wire).type # "SNAPSHOT_RES", SnapshotComes
      PROVE  SnapshotComes'
  <2>1. SnapshotIn(wire) => SnapshotIn(wire')
    BY ZenonT(30), <1>2, <1>4 DEF SnapshotIn
  <2>. QED
    BY <1>4, <2>1 DEF SnapshotComes, SnapshotIn
<1>5. ASSUME Head(wire).type = "SNAPSHOT_RES", ~changed, ~SnapshotComes'
      PROVE  heard <= Head(wire).at
  <2>1. /\ SnapshotReq \notin Range(toAgent)
        /\ \A i \in DOMAIN taken : taken[i].for # SnapshotReq
        /\ \A i \in DOMAIN wire' : wire'[i].type # "SNAPSHOT_RES"
    BY <1>5 DEF SnapshotComes, SnapshotIn
  <2>2. \A j \in DOMAIN wire : 1 < j => wire[j].type # "SNAPSHOT_RES"
    <3>1. ASSUME NEW j \in DOMAIN wire, 1 < j
          PROVE  wire[j].type # "SNAPSHOT_RES"
      <4>1. j # 1
        BY <3>1
      <4>. QED
        BY ZenonT(30), <1>2, <2>1, <4>1
    <3>. QED
      BY <3>1
  <2>. QED
    BY <1>2, <1>5, <2>1, <2>2 DEF LastScreenIsNew
<1>. QED
  BY <1>3, <1>4, <1>5

-----------------------------------------------------------------------------
(* A request that is asked for comes.                                      *)
LEMMA StaleRequest ==
  ASSUME ReplayInv, StaleInv, requestSnapshot, UNCHANGED <<heard, spoolVars, taken, wire>>
  PROVE  StaleInv'
<1>1. CASE UNCHANGED <<schedVars, toAgent, overlooked>>
  <2>1. Known => Known'
    BY <1>1 DEF Known, SnapshotComes, SnapshotIn, schedVars
  <2>2. LastScreenIsNew'
    BY <1>1 DEF StaleInv, LastScreenIsNew, schedVars
  <2>. QED
    BY <2>1, <2>2, KnownStays DEF StaleInv
<1>2. CASE toAgent' = Append(toAgent, SnapshotReq) /\ timer' = TRUE
  <2>1. SnapshotReq \in Range(toAgent')
    <3>1. toAgent \in Seq(Request) /\ SnapshotReq \in Request
      BY Zeros DEF ReplayInv, TypeOK
    <3>. QED
      BY <1>2, <3>1, AppendFacts DEF Range
  <2>. QED
    BY <1>2, <2>1, KnownStays DEF StaleInv, Known, LastScreenIsNew
<1>. QED
  BY <1>1, <1>2 DEF requestSnapshot

(* The agent's steps.                                                      *)
LEMMA StaleAgent ==
  ASSUME ReplayInv, StaleInv, AgentNext
  PROVE  StaleInv'
<1>. USE DEF agentVars, connVars, spoolVars, schedVars, countVars
<1>0. LastScreenIsNew
  BY DEF StaleInv
<1>1. CASE ReadPty
  <2>1. (Known => Known') /\ LastScreenIsNew'
    BY <1>0, <1>1 DEF ReadPty, Known, SnapshotComes, SnapshotIn, LastScreenIsNew
  <2>. QED
    BY <1>1, <2>1, KnownStays DEF ReadPty, StaleInv
<1>2. CASE Route
  <2>1. CASE UNCHANGED wire
    <3>1. (Known => Known') /\ LastScreenIsNew'
      BY <1>0, <1>2, <2>1 DEF Route, Known, SnapshotComes, SnapshotIn, LastScreenIsNew
    <3>. QED
      BY <1>2, <3>1, KnownStays DEF Route, StaleInv
  <2>2. CASE ~UNCHANGED wire
    <3>1. PICK n \in routed + 1 .. printed :
            wire' = Append(wire, [type |-> "OUTPUT",
                                  units |-> [i \in 1 .. n - routed |-> routed + i]])
      BY <1>2, <2>2 DEF Route
    <3>. DEFINE f == [type |-> "OUTPUT", units |-> [i \in 1 .. n - routed |-> routed + i]]
    <3>2. f \in Frame /\ f.type = "OUTPUT"
      <4>1. routed \in 0..MaxPrint /\ n \in routed + 1 .. MaxPrint
        BY <3>1, Numbers
      <4>2. [i \in 1 .. n - routed |-> routed + i] \in Seq(Unit)
        BY <4>1, RoutedUnits
      <4>. QED
        BY <4>2, OutputFrame
    <3>3. wire' = Append(wire, f)
      BY <3>1
    <3>. HIDE DEF f
    <3>4. LastScreenIsNew' /\ (SnapshotIn(wire) => SnapshotIn(wire'))
      BY <1>0, <1>2, <3>2, <3>3, LastScreenAppended DEF Route
    <3>5. Known => Known'
      BY <1>2, <3>4 DEF Route, Known, SnapshotComes, SnapshotIn
    <3>. QED
      BY <1>2, <3>4, <3>5, KnownStays DEF Route, StaleInv
  <2>. QED
    BY <2>1, <2>2
<1>3. CASE TakeScreen
  <2>1. toAgent \in Seq(Request) /\ toAgent # <<>> /\ toAgent' = Tail(toAgent)
    BY <1>3, Parts DEF TakeScreen, ReplayInv, ConnOK
  <2>2. taken' = <<[for |-> Head(toAgent), at |-> printed]>> /\ taken = <<>>
    BY <1>3 DEF TakeScreen
  <2>3. /\ DOMAIN taken' = {1} /\ taken'[1].for = Head(toAgent) /\ taken'[1].at = printed
        /\ DOMAIN taken = {}
    BY <2>2
  <2>4. SnapshotReq \in Range(toAgent) =>
          SnapshotReq = Head(toAgent) \/ SnapshotReq \in Range(toAgent')
    <3>1. /\ Head(toAgent) = toAgent[1]
          /\ \A i \in DOMAIN toAgent : i # 1 => i - 1 \in DOMAIN toAgent' /\ toAgent'[i - 1] = toAgent[i]
      BY <2>1, TailFacts, TailRest
    <3>. QED
      BY <3>1 DEF Range
  <2>5. Known => Known'
    BY <1>3, <2>3, <2>4 DEF TakeScreen, Known, SnapshotComes, SnapshotIn
  <2>6. LastScreenIsNew'
    <3>1. heard <= printed
      BY Numbers
    <3>2. CASE Head(toAgent) = SnapshotReq
      BY <1>3, <2>3, <3>1, <3>2 DEF TakeScreen, LastScreenIsNew
    <3>3. CASE Head(toAgent) # SnapshotReq
      BY <1>0, <1>3, <2>3, <2>4, <3>3 DEF TakeScreen, LastScreenIsNew
    <3>. QED
      BY <3>2, <3>3
  <2>. QED
    BY <1>3, <2>5, <2>6, KnownStays DEF TakeScreen, StaleInv
<1>4. CASE Answer
  <2>. DEFINE t == Head(taken)
              f == IF t.for = SnapshotReq THEN [type |-> "SNAPSHOT_RES", at |-> t.at]
                   ELSE [type |-> "ATTACH_OK", id |-> t.for, at |-> t.at]
  <2>1. /\ t \in [for : Request, at : Snapshot] /\ DOMAIN taken = {1} /\ taken[1] = t
    <3>1. taken \in Seq([for : Request, at : Snapshot]) /\ Len(taken) <= 1 /\ taken # <<>>
      BY <1>4, Parts DEF Answer, ReplayInv, AgentOK
    <3>2. t = taken[1] /\ t \in [for : Request, at : Snapshot] /\ 1 \in DOMAIN taken
      BY <3>1, TailFacts
    <3>3. DOMAIN taken = {1}
      BY <3>1, OneElement
    <3>. QED
      BY <3>2, <3>3
  <2>2. /\ f \in Frame
        /\ t.for # SnapshotReq => f.type # "SNAPSHOT_RES"
        /\ t.for = SnapshotReq => f.type = "SNAPSHOT_RES" /\ f.at = t.at
    BY <2>1 DEF Frame
  <2>3. wire' = Append(wire, f) /\ taken' = <<>> /\ wire \in Seq(Frame)
    BY <1>4 DEF Answer, ReplayInv, TypeOK
  <2>. HIDE DEF f, t
  <2>4. CASE t.for # SnapshotReq
    <3>1. LastScreenIsNew' /\ (SnapshotIn(wire) => SnapshotIn(wire'))
      BY <1>0, <1>4, <2>1, <2>2, <2>3, <2>4, LastScreenAppended DEF Answer
    <3>2. Known => Known'
      BY <1>4, <2>1, <2>4, <3>1 DEF Answer, Known, SnapshotComes, SnapshotIn
    <3>. QED
      BY <1>4, <3>1, <3>2, KnownStays DEF Answer, StaleInv
  <2>5. CASE t.for = SnapshotReq
    <3>1. /\ Len(wire) + 1 \in DOMAIN wire' /\ wire'[Len(wire) + 1] = f
          /\ \A i \in DOMAIN wire' : i = Len(wire) + 1 \/ i < Len(wire) + 1
      BY <2>2, <2>3, AppendFacts
    <3>2. SnapshotIn(wire')
      BY <2>2, <2>5, <3>1 DEF SnapshotIn
    <3>3. Known'
      BY <3>2 DEF Known, SnapshotComes, SnapshotIn
    <3>4. ~changed /\ SnapshotReq \notin Range(toAgent) => heard <= f.at
      BY <1>0, <2>1, <2>2, <2>5 DEF LastScreenIsNew
    <3>5. LastScreenIsNew'
      BY <1>4, <2>2, <2>3, <2>5, <3>1, <3>4 DEF Answer, LastScreenIsNew
    <3>. QED
      BY <1>4, <3>3, <3>5, KnownStays DEF Answer, StaleInv
  <2>. QED
    BY <2>4, <2>5
<1>. QED
  BY <1>1, <1>2, <1>3, <1>4 DEF AgentNext

(* The hub's steps.                                                        *)
LEMMA StaleHub ==
  ASSUME ReplayInv, StaleInv, HubNext
  PROVE  StaleInv'
<1>. USE DEF agentVars, connVars, spoolVars, schedVars, countVars
<1>0. LastScreenIsNew
  BY DEF StaleInv
<1>1. CASE ReadOutput \/ SnapshotTimeout \/ Resize
  BY <1>1, ChangeIsKnown DEF ReadOutput, SnapshotTimeout, Resize, onOutput
<1>2. CASE ReadSnapshot
  <2>1. MayRead("SNAPSHOT_RES") /\ NextOfRead
    BY <1>2 DEF ReadSnapshot
  <2>2. /\ wire # <<>> /\ wire' = Tail(wire) /\ Head(wire).type = "SNAPSHOT_RES"
        /\ Head(wire) \in Frame
    BY <2>1, NextOfReadKeeps
  <2>3. LastScreenIsNew' /\ (~changed => SnapshotComes' \/ heard <= Head(wire).at)
    BY <1>0, <1>2, <2>2, LastScreenRead DEF ReadSnapshot
  <2>4. 1..heard' \subseteq Stored' \/ Known'
    <3>1. CASE changed \/ SnapshotComes'
      BY <1>2, <3>1 DEF ReadSnapshot, Known
    <3>2. CASE heard <= Head(wire).at
      <4>1. Head(wire).at \in Int /\ heard \in Int
        BY <2>2, Numbers, BoundsAssumption DEF Frame, Snapshot, NoSnapshot
      <4>2. 1..heard \subseteq 1..Head(wire).at
        BY <3>2, <4>1
      <4>3. heard' = heard /\ snap' = Head(wire).at
        BY <1>2 DEF ReadSnapshot, storeSnapshot
      <4>. QED
        BY <4>2, <4>3 DEF Stored
    <3>. QED
      BY <2>3, <3>1, <3>2
  <2>5. tail' = <<>> /\ buffer' = <<>>
    BY <1>2 DEF ReadSnapshot, storeSnapshot
  <2>. QED
    BY <2>3, <2>4, <2>5 DEF StaleInv, StaleIsKnown, TailIsKnown, Known
<1>3. CASE ReadAttachOk
  <2>1. MayRead("ATTACH_OK") /\ NextOfRead
    BY <1>3 DEF ReadAttachOk
  <2>2. wire # <<>> /\ wire' = Tail(wire) /\ Head(wire).type = "ATTACH_OK"
    BY <2>1, NextOfReadKeeps
  <2>3. LastScreenIsNew' /\ (SnapshotComes => SnapshotComes')
    BY <1>0, <1>3, <2>2, LastScreenRead DEF ReadAttachOk
  <2>4. Known => Known'
    BY <1>3, <2>3 DEF ReadAttachOk, Known
  <2>. QED
    BY <1>3, <2>3, <2>4, KnownStays DEF ReadAttachOk, StaleInv
<1>4. CASE Flush
  <2>1. Stored' = Stored
    <3>1. tail \in Seq(Unit) /\ buffer \in Seq(Unit) /\ tail' = tail \o buffer /\ buffer' = <<>>
      BY <1>4, SpoolFacts DEF Flush
    <3>2. Range(tail \o buffer) = Range(tail) \cup Range(buffer)
      <4>1. Range(tail \o buffer) \subseteq Range(tail) \cup Range(buffer)
        BY <3>1, ConcatFacts DEF Range
      <4>2. \A i \in DOMAIN tail : i \in DOMAIN (tail \o buffer) /\ (tail \o buffer)[i] = tail[i]
        BY <3>1
      <4>3. \A i \in DOMAIN buffer : /\ Len(tail) + i \in DOMAIN (tail \o buffer)
                                     /\ (tail \o buffer)[Len(tail) + i] = buffer[i]
        BY <3>1
      <4>4. Range(tail) \subseteq Range(tail \o buffer)
        BY <4>2 DEF Range
      <4>5. Range(buffer) \subseteq Range(tail \o buffer)
        BY <4>3 DEF Range
      <4>. QED
        BY <4>1, <4>4, <4>5
    <3>3. Range(<<>>) = {}
      BY DEF Range
    <3>. QED
      BY <1>4, <3>1, <3>2, <3>3 DEF Flush, Stored
  <2>2. (Known => Known') /\ LastScreenIsNew'
    BY <1>0, <1>4 DEF Flush, Known, SnapshotComes, SnapshotIn, LastScreenIsNew
  <2>3. Known
    BY <1>4 DEF Flush, StaleInv, TailIsKnown
  <2>. QED
    BY <2>2, <2>3 DEF StaleInv, StaleIsKnown, TailIsKnown, Known
<1>5. CASE Tick
  BY <1>5, StaleRequest DEF Tick
<1>6. ASSUME NEW p \in Pane, Attach(p)
      PROVE  StaleInv'
  <2>1. CASE UNCHANGED toAgent
    <3>1. (Known => Known') /\ LastScreenIsNew'
      BY <1>0, <1>6, <2>1 DEF Attach, Known, SnapshotComes, SnapshotIn, LastScreenIsNew
    <3>. QED
      BY <1>6, <3>1, KnownStays DEF Attach, StaleInv
  <2>2. CASE toAgent' = Append(toAgent, attaches + 1)
    <3>1. /\ toAgent \in Seq(Request) /\ attaches + 1 \in Request /\ attaches + 1 # SnapshotReq
      BY <1>6, Parts, BoundsAssumption DEF Attach, ReplayInv, ConnOK, CountsOK, Request, SnapshotReq
    <3>2. SnapshotReq \in Range(toAgent') <=> SnapshotReq \in Range(toAgent)
      BY <2>2, <3>1, AppendFacts DEF Range
    <3>3. (Known => Known') /\ LastScreenIsNew'
      BY <1>0, <1>6, <3>2 DEF Attach, Known, SnapshotComes, SnapshotIn, LastScreenIsNew
    <3>. QED
      BY <1>6, <3>3, KnownStays DEF Attach, StaleInv
  <2>. QED
    BY <1>6, <2>1, <2>2 DEF Attach
<1>7. ASSUME NEW p \in Pane, FinishAttach(p)
      PROVE  StaleInv'
  <2>. DEFINE at == panes[p].answer
  <2>1. /\ snap' = at /\ tail' = <<>> /\ buffer' = <<>> /\ heard' = heard
        /\ overlooked' = (overlooked \/ (at < snap /\ ~changed /\ ~timer))
        /\ UNCHANGED <<changed, timer, toAgent, taken, wire>>
    BY <1>7 DEF FinishAttach, storeSnapshot
  <2>2. LastScreenIsNew'
    BY <1>0, <2>1 DEF LastScreenIsNew
  <2>3. 1..heard' \subseteq Stored' \/ Known'
    <3>1. SUFFICES ASSUME ~Known'
                   PROVE  1..heard \subseteq 1..at
      BY <2>1 DEF Stored
    <3>2. ~Known /\ ~(at < snap)
      BY <2>1, <3>1 DEF Known, SnapshotComes, SnapshotIn
    <3>3. tail = <<>> /\ buffer = <<>> /\ 1..heard \subseteq Stored
      BY <3>2 DEF StaleInv, TailIsKnown, StaleIsKnown, Known
    <3>4. 1..heard \subseteq 1..snap
      <4>1. Range(<<>>) = {}
        BY DEF Range
      <4>. QED
        BY <3>3, <4>1 DEF Stored
    <3>5. at \in Int /\ snap \in Int
      <4>1. \A s \in Snapshot : s \in Int
        BY BoundsAssumption DEF Snapshot, NoSnapshot
      <4>2. at \in Snapshot /\ snap \in Snapshot
        BY PanesAreOK, SpoolFacts DEF PaneOK, PaneRecord
      <4>. QED
        BY <4>1, <4>2
    <3>6. snap <= at
      BY <3>2, <3>5
    <3>7. 1..snap \subseteq 1..at
      BY <3>5, <3>6
    <3>. QED
      BY <3>4, <3>7
  <2>. QED
    BY <2>1, <2>2, <2>3 DEF StaleInv, StaleIsKnown, TailIsKnown, Known
<1>8. ASSUME NEW p \in Pane, AttachTimeout(p)
      PROVE  StaleInv'
  <2>1. (Known => Known') /\ LastScreenIsNew'
    BY <1>0, <1>8 DEF AttachTimeout, Known, SnapshotComes, SnapshotIn, LastScreenIsNew
  <2>. QED
    BY <1>8, <2>1, KnownStays DEF AttachTimeout, StaleInv
<1>9. ASSUME NEW p \in Pane, Detach(p)
      PROVE  StaleInv'
  <2>1. CASE requestSnapshot
    BY <1>9, <2>1, StaleRequest DEF Detach
  <2>2. CASE UNCHANGED <<schedVars, toAgent, overlooked>>
    <3>1. (Known => Known') /\ LastScreenIsNew'
      BY <1>0, <1>9, <2>2 DEF Detach, Known, SnapshotComes, SnapshotIn, LastScreenIsNew
    <3>. QED
      BY <1>9, <3>1, KnownStays DEF Detach, StaleInv
  <2>. QED
    BY <1>9, <2>1, <2>2 DEF Detach
<1>. QED
  BY <1>1, <1>2, <1>3, <1>4, <1>5, <1>6, <1>7, <1>8, <1>9 DEF HubNext

(* Faults.                                                                 *)
LEMMA StaleFault ==
  ASSUME ReplayInv, StaleInv, Fault
  PROVE  StaleInv'
<1>. USE DEF agentVars, connVars, spoolVars, schedVars, countVars
<1>0. Range(<<>>) = {} /\ DOMAIN <<>> = {}
  BY DEF Range
<1>1. CASE Drop
  <2>1. toAgent' = <<>> /\ wire' = <<>> /\ taken' = <<>>
    BY <1>1 DEF Drop, ConnectionGone
  <2>2. LastScreenIsNew'
    BY <1>0, <2>1 DEF LastScreenIsNew
  <2>3. Known => Known'
    BY <1>1 DEF Drop, Known
  <2>. QED
    BY <1>1, <2>2, <2>3, KnownStays DEF Drop, StaleInv
<1>2. CASE Reconnect
  <2>1. toAgent = <<>> /\ wire = <<>> /\ taken = <<>>
    BY <1>2 DEF Reconnect, ReplayInv, OrderInv, OneWayOut
  <2>2. \A i \in DOMAIN wire' : wire'[i].type = "OUTPUT"
    BY <1>2 DEF Reconnect
  <2>3. LastScreenIsNew'
    BY <1>0, <1>2, <2>1, <2>2 DEF Reconnect, LastScreenIsNew
  <2>4. Known => Known'
    BY <1>0, <1>2, <2>1 DEF Reconnect, Known, SnapshotComes, SnapshotIn
  <2>. QED
    BY <1>2, <2>3, <2>4, KnownStays DEF Reconnect, StaleInv
<1>3. CASE \E stored \in BOOLEAN : HubRestart(stored)
  BY <1>3, ChangeIsKnown DEF HubRestart, Restored
<1>. QED
  BY <1>1, <1>2, <1>3 DEF Fault

(* Whatever the stored screen and the output after it lack of what the hub *)
(* read, the scheduler has a reason to take the screen again, but for the  *)
(* two ways it overlooks it.                                               *)
THEOREM StaleIsRetaken == Spec => []StaleIsKnown
<1>1. Init => StaleInv
  <2>1. Init => changed
    BY DEF Init
  <2>. QED
    BY <2>1 DEF StaleInv, StaleIsKnown, LastScreenIsNew, TailIsKnown, Known
<1>2. ReplayInv /\ StaleInv /\ [Next]_vars => StaleInv'
  <2>1. ASSUME ReplayInv, StaleInv, UNCHANGED vars
        PROVE  StaleInv'
    <3>. USE DEF vars, agentVars, connVars, spoolVars, schedVars, countVars
    <3>1. (Known => Known') /\ LastScreenIsNew'
      BY <2>1 DEF StaleInv, Known, SnapshotComes, SnapshotIn, LastScreenIsNew
    <3>. QED
      BY <2>1, <3>1, KnownStays DEF StaleInv
  <2>. QED
    BY <2>1, StaleAgent, StaleHub, StaleFault DEF Next
<1>3. StaleInv => StaleIsKnown
  BY DEF StaleInv
<1>. QED
  BY <1>1, <1>2, <1>3, ReplayInOrder, PTL DEF Spec

=============================================================================
